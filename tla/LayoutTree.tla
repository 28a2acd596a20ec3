----------------------------- MODULE LayoutTree ------------------------------
(***************************************************************************)
(* The split tree of crates/lmux/src/layout.rs.  A leaf is <<p>>, a split  *)
(* is <<a, b>>, its left or top half first; directions and ratios are data *)
(* no property needs.  The operators recurse as the code does.  Workspace  *)
(* keeps only the order in which the leaves are traversed: that the tree   *)
(* obeys it is ObeysOrder.                                                 *)
(***************************************************************************)
EXTENDS Naturals, Sequences, SequencesExt

Leaf(p) == <<p>>
Split(a, b) == <<a, b>>
IsLeaf(t) == Len(t) = 1
NoTree == <<>>

\* the in-order traversal; a leaf is its own traversal
RECURSIVE Leaves(_)
Leaves(t) == IF IsLeaf(t) THEN t ELSE Leaves(t[1]) \o Leaves(t[2])

LeafSet(t) == Range(Leaves(t))

\* replace_leaf: the first leaf with the id becomes the tree new
RECURSIVE ReplaceLeaf(_, _, _)
ReplaceLeaf(t, target, new) ==
    IF IsLeaf(t) THEN IF t = Leaf(target) THEN new ELSE t
    ELSE IF target \in LeafSet(t[1]) THEN <<ReplaceLeaf(t[1], target, new), t[2]>>
    ELSE <<t[1], ReplaceLeaf(t[2], target, new)>>

\* Mutation of RemoveLeaf: the sibling is dropped with the leaf when it is a split
RECURSIVE RemoveLeafAndSplit(_, _)
RemoveLeafAndSplit(t, target) ==
    IF IsLeaf(t) THEN t
    ELSE IF t[1] = Leaf(target) THEN Leaf(Leaves(t[2])[1])
    ELSE IF t[2] = Leaf(target) THEN t[1]
    ELSE <<RemoveLeafAndSplit(t[1], target), RemoveLeafAndSplit(t[2], target)>>

\* remove_leaf: the sibling takes the place of the split.  The last leaf stays
\* (the code returns false), and so does a tree without the target
RECURSIVE RemoveLeaf(_, _)
RemoveLeaf(t, target) ==
    IF IsLeaf(t) THEN t
    ELSE IF t[1] = Leaf(target) THEN t[2]
    ELSE IF t[2] = Leaf(target) THEN t[1]
    ELSE <<RemoveLeaf(t[1], target), RemoveLeaf(t[2], target)>>

Removable(t, target) == ~IsLeaf(t) /\ target \in LeafSet(t)

\* reparent: the edge of the target says on which side the source ends up
Reparent(t, source, target, behind) ==
    IF source = target \/ ~{source, target} \subseteq LeafSet(t) THEN t
    ELSE ReplaceLeaf(RemoveLeaf(t, source), target,
                     IF behind THEN Split(Leaf(target), Leaf(source))
                               ELSE Split(Leaf(source), Leaf(target)))

\* prune_to_workspace: what is left of the tree when only the leaves of S show
RECURSIVE Prune(_, _)
Prune(t, S) ==
    IF IsLeaf(t) THEN IF t[1] \in S THEN t ELSE NoTree
    ELSE LET a == Prune(t[1], S)
             b == Prune(t[2], S)
         IN  IF a = NoTree THEN b ELSE IF b = NoTree THEN a ELSE Split(a, b)

\* remove_leaf for every leaf of S, which is not all of them
RemoveLeaves(t, S) == FoldLeft(RemoveLeaf, t, SetToSeq(S))

-----------------------------------------------------------------------------
Outside(s, S) == SelectSeq(s, LAMBDA p : p \notin S)
Index(s, p) == CHOOSE i \in DOMAIN s : s[i] = p

(* The operations on the tree are the operations on the traversal that         *)
(* Workspace is built from: removing takes one leaf out and disturbs no other, *)
(* rearranging puts it next to the target, pruning keeps the order.            *)
ObeysOrder(t) ==
    LET s == Leaves(t)
    IN  /\ IsInjective(s)
        /\ \A p \in Range(s) :
              /\ Removable(t, p) => Leaves(RemoveLeaf(t, p)) = Outside(s, {p})
              /\ \A q \in Range(s) \ {p}, behind \in BOOLEAN :
                    LET r == Outside(s, {p})
                        i == Index(r, q)
                    IN  Leaves(Reparent(t, p, q, behind))
                          = InsertAt(r, IF behind THEN i + 1 ELSE i, p)
        /\ \A S \in SUBSET Range(s) :
              IF S = {} THEN Prune(t, S) = NoTree
                        ELSE Leaves(Prune(t, S)) = SelectSeq(s, LAMBDA p : p \in S)
=============================================================================
