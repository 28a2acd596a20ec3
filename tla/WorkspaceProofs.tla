-------------------------- MODULE WorkspaceProofs --------------------------
(***************************************************************************)
(* Theorems about the workspace core, for every bound on the pane ids and  *)
(* every set of surfaces.                                                  *)
(***************************************************************************)
EXTENDS Workspace, FiniteSetTheorems, TLAPS

-----------------------------------------------------------------------------
(* First leaves and least elements *)

\* Every non-empty part of a finite set in strict order has a first element: a
\* smallest part without one would have one as soon as one element is dropped.
LEMMA FirstExists ==
    ASSUME NEW K, IsFiniteSet(K), NEW ord, StrictOrder(K, ord),
           NEW L \in SUBSET K, L # {}
    PROVE  \E f \in L : \A q \in L \ {f} : <<f, q>> \in ord
<1> DEFINE First(M) == \E f \in M : \A q \in M \ {f} : <<f, q>> \in ord
           Bad == {M \in SUBSET K : M # {} /\ ~First(M)}
<1>1. FiniteSubsetsOf(K) = SUBSET K
  BY FS_FiniteSubsetsOfFinite
<1>2. IsWellFoundedOn(StrictSubsetOrdering(K), SUBSET K)
  BY <1>1, FS_StrictSubsetOrderingWellFounded
<1>3. SUFFICES ASSUME Bad # {} PROVE FALSE
  OBVIOUS
<1>4. PICK M \in Bad : \A N \in Bad : ~ (<<N, M>> \in StrictSubsetOrdering(K))
  <2>1. Bad \subseteq SUBSET K /\ Bad # {}
    BY <1>3
  <2> HIDE DEF Bad
  <2> QED
    BY <1>2, <2>1, WFMin
<1>5. PICK n \in M : TRUE
  OBVIOUS
<1> DEFINE N == M \ {n}
<1>6. <<N, M>> \in StrictSubsetOrdering(K)
  BY <1>5 DEF StrictSubsetOrdering
<1>7. N # {} /\ N \in SUBSET K
  BY <1>5
<1>8. PICK f \in N : \A q \in N \ {f} : <<f, q>> \in ord
  BY <1>4, <1>6, <1>7
<1>9. CASE <<f, n>> \in ord
  BY <1>5, <1>8, <1>9
<1>10. CASE <<n, f>> \in ord
  <2>1. \A q \in N : <<n, q>> \in ord
    BY <1>5, <1>7, <1>8, <1>10 DEF StrictOrder
  <2> QED
    BY <1>5, <2>1
<1> QED
  BY <1>5, <1>7, <1>8, <1>9, <1>10 DEF StrictOrder

LEMMA PaneIdFinite == ASSUME NEW S \in SUBSET PaneId PROVE IsFiniteSet(S)
<1>1. MaxPane \in Int /\ 1 \in Int
  BY WorkspaceAssumption
<1>2. IsFiniteSet(PaneId)
  BY <1>1, FS_Interval DEF PaneId
<1> QED
  BY <1>2, FS_Subset

\* first() of the leaves, or of some of them, is one of them and before the rest
LEMMA FirstLeafIn ==
    ASSUME NEW K \in SUBSET PaneId, NEW ord, StrictOrder(K, ord),
           NEW L \in SUBSET K, L # {}
    PROVE  /\ FirstLeaf(L, ord) \in L
           /\ \A q \in L \ {FirstLeaf(L, ord)} : <<FirstLeaf(L, ord), q>> \in ord
<1>1. IsFiniteSet(K)
  BY PaneIdFinite
<1> QED
  BY <1>1, FirstExists DEF FirstLeaf

\* Least picks the least pane id: the first of a tab stack or of the anchors
LEMMA LeastIn ==
    ASSUME NEW S \in SUBSET PaneId, S # {}
    PROVE  Least(S) \in S /\ \A y \in S : Least(S) <= y
<1> DEFINE ord == {e \in S \X S : e[1] < e[2]}
<1>1. IsFiniteSet(S)
  BY PaneIdFinite
<1>2. StrictOrder(S, ord)
  BY WorkspaceAssumption DEF StrictOrder, PaneId
<1>3. PICK x \in S : \A y \in S \ {x} : <<x, y>> \in ord
  BY <1>1, <1>2, FirstExists
<1>4. ASSUME NEW y \in S PROVE x <= y
  <2>1. x \in Int /\ y \in Int
    BY WorkspaceAssumption DEF PaneId
  <2>2. CASE y = x
    BY <2>1, <2>2
  <2>3. CASE <<x, y>> \in ord
    BY <2>1, <2>3
  <2> QED
    BY <1>3, <2>2, <2>3
<1> QED
  BY <1>4 DEF Least

-----------------------------------------------------------------------------
(* The in-order traversal under replace_leaf, remove_leaf and reparent *)

LEMMA InsertAfterOrder ==
    ASSUME NEW L \in SUBSET PaneId, NEW ord, StrictOrder(L, ord),
           NEW t \in L, NEW n \in PaneId \ L
    PROVE  StrictOrder(L \cup {n}, InsertAfter(ord, t, n))
<1> DEFINE new == InsertAfter(ord, t, n)
<1>1. /\ new \subseteq (L \cup {n}) \X (L \cup {n})
      /\ \A p, q \in L : <<p, q>> \in new <=> <<p, q>> \in ord
      /\ \A p \in L : <<p, n>> \in new <=> p = t \/ <<p, t>> \in ord
      /\ \A p \in L : <<n, p>> \in new <=> <<t, p>> \in ord
      /\ <<n, n>> \notin new
  BY DEF StrictOrder, InsertAfter, Before, After
<1>2. /\ \A p, q \in L : <<p, q>> \in ord <=> p # q /\ <<q, p>> \notin ord
      /\ \A p, q, r \in L : <<p, q>> \in ord /\ <<q, r>> \in ord => <<p, r>> \in ord
  BY DEF StrictOrder
<1> HIDE DEF new
<1>3. \A p, q \in L \cup {n} : <<p, q>> \in new <=> p # q /\ <<q, p>> \notin new
  BY <1>1, <1>2
<1>4. \A p, q, r \in L \cup {n} : <<p, q>> \in new /\ <<q, r>> \in new => <<p, r>> \in new
  BY <1>1, <1>2
<1>5. StrictOrder(L \cup {n}, new)
  BY <1>1, <1>3, <1>4 DEF StrictOrder
<1> QED
  BY <1>5 DEF new

LEMMA InsertBeforeOrder ==
    ASSUME NEW L \in SUBSET PaneId, NEW ord, StrictOrder(L, ord),
           NEW t \in L, NEW n \in PaneId \ L
    PROVE  StrictOrder(L \cup {n}, InsertBefore(ord, t, n))
<1> DEFINE new == InsertBefore(ord, t, n)
<1>1. /\ new \subseteq (L \cup {n}) \X (L \cup {n})
      /\ \A p, q \in L : <<p, q>> \in new <=> <<p, q>> \in ord
      /\ \A p \in L : <<p, n>> \in new <=> <<p, t>> \in ord
      /\ \A p \in L : <<n, p>> \in new <=> p = t \/ <<t, p>> \in ord
      /\ <<n, n>> \notin new
  BY DEF StrictOrder, InsertBefore, Before, After
<1>2. /\ \A p, q \in L : <<p, q>> \in ord <=> p # q /\ <<q, p>> \notin ord
      /\ \A p, q, r \in L : <<p, q>> \in ord /\ <<q, r>> \in ord => <<p, r>> \in ord
  BY DEF StrictOrder
<1> HIDE DEF new
<1>3. \A p, q \in L \cup {n} : <<p, q>> \in new <=> p # q /\ <<q, p>> \notin new
  BY <1>1, <1>2
<1>4. \A p, q, r \in L \cup {n} : <<p, q>> \in new /\ <<q, r>> \in new => <<p, r>> \in new
  BY <1>1, <1>2
<1>5. StrictOrder(L \cup {n}, new)
  BY <1>1, <1>3, <1>4 DEF StrictOrder
<1> QED
  BY <1>5 DEF new

LEMMA WithoutOrder ==
    ASSUME NEW L, NEW ord, StrictOrder(L, ord), NEW D
    PROVE  StrictOrder(L \ D, Without(ord, D))
<1>1. \A p, q \in L : <<p, q>> \in Without(ord, D)
                        <=> <<p, q>> \in ord /\ p \notin D /\ q \notin D
  BY DEF Without
<1>2. Without(ord, D) \subseteq (L \ D) \X (L \ D)
  BY DEF Without, StrictOrder
<1> QED
  BY <1>1, <1>2 DEF StrictOrder

-----------------------------------------------------------------------------
(* The maps that operations rebuild keep their types *)

LEMMA TabMapTypes ==
    ASSUME NEW T \in [PaneId -> SUBSET PaneId], NEW AT \in [PaneId -> MaybePane],
           NEW R \in [PaneId -> MaybePane], NEW D, NEW A
    PROVE  /\ TabsWithout(T, D, A) \in [PaneId -> SUBSET PaneId]
           /\ ActiveWithout(T, AT, D, A) \in [PaneId -> MaybePane]
           /\ RootsWithout(R, D) \in [PaneId -> MaybePane]
           /\ Disowned(R, D) \in [PaneId -> MaybePane]
<1>1. TabsWithout(T, D, A) \in [PaneId -> SUBSET PaneId]
  BY DEF TabsWithout
<1>2. PaneId \subseteq MaybePane /\ None \in MaybePane
  BY WorkspaceAssumption DEF PaneId, MaybePane, None
<1>3. ASSUME NEW a \in PaneId, TabsWithout(T, D, A)[a] # {}
      PROVE  Least(TabsWithout(T, D, A)[a]) \in MaybePane
  BY <1>1, <1>2, <1>3, LeastIn
<1>4. ActiveWithout(T, AT, D, A) \in [PaneId -> MaybePane]
  BY <1>2, <1>3 DEF ActiveWithout
<1>5. RootsWithout(R, D) \in [PaneId -> MaybePane] /\ Disowned(R, D) \in [PaneId -> MaybePane]
  BY <1>2 DEF RootsWithout, Disowned
<1> QED
  BY <1>1, <1>4, <1>5

LEMMA EnsuredTypes ==
    ASSUME TypeOK, NEW a
    PROVE  /\ EnsuredTabs(a) \in [PaneId -> SUBSET PaneId]
           /\ EnsuredActive(a) \in [PaneId -> MaybePane]
           /\ EnsuredRoots(a) \in [PaneId -> MaybePane]
<1>1. PaneId \subseteq MaybePane
  BY WorkspaceAssumption DEF PaneId, MaybePane
<1> QED
  BY <1>1 DEF TypeOK, EnsuredTabs, EnsuredActive, EnsuredRoots

-----------------------------------------------------------------------------
(* Types and the traversal order are invariant *)

\* What the tree operations of a step preserve, and what the map operations do
TreeOK ==
    /\ panes \subseteq PaneId \cap 1..(next_id - 1)
    /\ satellites \subseteq panes
    /\ exited \subseteq panes \ satellites
    /\ leaves \subseteq panes
    /\ next_id \in 1..(MaxPane + 1)
    /\ TreeOrder

MapsOK ==
    /\ pane_workspace \in [PaneId -> MaybePane]
    /\ terminal_tabs \in [PaneId -> SUBSET PaneId]
    /\ active_tab \in [PaneId -> MaybePane]
    /\ tab_roots \in [PaneId -> MaybePane]

RestOK ==
    /\ exit_queue \subseteq PaneId
    /\ focused \in PaneId
    /\ anchors \subseteq PaneId
    /\ active_anchor \in MaybePane
    /\ surface_to_pane \in [Surfaces -> MaybePane]

TypeInv == TreeOK /\ MapsOK /\ RestOK

LEMMA TypeInvDef == TypeInv <=> TypeOK /\ TreeOrder
BY DEF TypeInv, TreeOK, MapsOK, RestOK, TypeOK

LEMMA PaneIds ==
    /\ PaneId \subseteq MaybePane
    /\ None \in MaybePane
    /\ None \notin PaneId
    /\ MaybePane \ {None} = PaneId
    /\ PaneId \subseteq Int
BY WorkspaceAssumption DEF PaneId, MaybePane, None

\* Opening a pane behind a leaf: the new id is fresh, the tree stays in order.
LEMMA OpenBehindTree ==
    ASSUME TreeOK, CanAllocate, NEW t \in leaves, OpenBehind(t)
    PROVE  TreeOK' /\ next_id \notin panes
<1>1. next_id \in PaneId /\ next_id \notin panes /\ next_id \notin leaves
  BY DEF CanAllocate, TreeOK
<1>2. leaves \in SUBSET PaneId
  BY DEF TreeOK
<1>3. StrictOrder(leaves', order')
  BY <1>1, <1>2, InsertAfterOrder DEF TreeOK, TreeOrder, OpenBehind
<1>4. next_id' \in 1..(MaxPane + 1) /\ next_id' = next_id + 1
  BY <1>1, WorkspaceAssumption DEF PaneId, OpenBehind
<1>5. panes' \subseteq PaneId \cap 1..(next_id' - 1)
  BY <1>1, <1>4, WorkspaceAssumption DEF TreeOK, OpenBehind, PaneId
<1> QED
  BY <1>1, <1>3, <1>4, <1>5 DEF TreeOK, TreeOrder, OpenBehind

\* A dropped allocation spends the id and keeps the maps well typed.
LEMMA RollBackTypes ==
    ASSUME TypeInv, CanAllocate, NEW owner \in MaybePane,
           NEW T \in [PaneId -> SUBSET PaneId], NEW AT \in [PaneId -> MaybePane],
           NEW R \in [PaneId -> MaybePane],
           RollBack(owner, T, AT, R)
    PROVE  TreeOK' /\ MapsOK'
<1>1. MapsOK'
  BY TabMapTypes DEF RollBack, MapsOK, TypeInv, CanAllocate
<1>2. next_id' \in 1..(MaxPane + 1) /\ next_id' = next_id + 1 /\ next_id \in Int
  BY WorkspaceAssumption DEF PaneId, RollBack, CanAllocate
<1>3. panes' \subseteq PaneId \cap 1..(next_id' - 1)
  BY <1>2, WorkspaceAssumption DEF TypeInv, TreeOK, RollBack, tree, PaneId
<1> QED
  BY <1>1, <1>2, <1>3 DEF TypeInv, TreeOK, TreeOrder, RollBack, tree

\* Closing panes, as long as one leaf is left
LEMMA DropTree ==
    ASSUME TreeOK, NEW closed, leaves \ closed # {}, Drop(closed), next_id' = next_id
    PROVE  TreeOK'
<1>1. StrictOrder(leaves', order')
  BY WithoutOrder DEF TreeOK, TreeOrder, Drop
<1> QED
  BY <1>1 DEF TreeOK, TreeOrder, Drop

\* Whatever is closed along with gone, one leaf is left.
LEMMA ClosedSetsKeepOne ==
    ASSUME NEW gone, NEW A, NEW W, leaves \ gone # {},
           NEW closed \in ClosedSets(gone, A, W)
    PROVE  gone \subseteq closed /\ leaves \ closed # {}
BY DEF ClosedSets

\* Reap, from well-typed ownership, leaves well-typed state behind.
LEMMA ReapTypes ==
    ASSUME TypeInv, NEW gone, leaves \ gone # {}, NEW A \in SUBSET PaneId,
           NEW W \in [PaneId -> MaybePane], Reap(gone, A, W), next_id' = next_id
    PROVE  TreeOK' /\ MapsOK' /\ anchors' \subseteq PaneId /\ active_anchor' \in MaybePane
<1>1. PICK closed \in ClosedSets(gone, A, W) :
        LET terminals == (leaves \ closed) \ satellites
        IN  /\ Drop(closed)
            /\ \/ KeepAnchors(closed, A, W)
               \/ /\ terminals # {}
                  /\ Reseed(closed, A, W, FirstLeaf(terminals, order))
  BY DEF Reap
<1> DEFINE terminals == (leaves \ closed) \ satellites
           seed == FirstLeaf(terminals, order)
<1>2. TreeOK'
  BY <1>1, DropTree, ClosedSetsKeepOne DEF TypeInv
<1>3. /\ TabsLeft(closed, A) \in [PaneId -> SUBSET PaneId]
      /\ ActiveLeft(closed, A) \in [PaneId -> MaybePane]
      /\ RootsWithout(tab_roots, closed) \in [PaneId -> MaybePane]
      /\ Disowned(W, closed) \in [PaneId -> MaybePane]
  BY TabMapTypes DEF TypeInv, MapsOK, TabsLeft, ActiveLeft
<1>4. CASE KeepAnchors(closed, A, W)
  <2>1. Promoted(A) \in MaybePane
    BY LeastIn, PaneIds DEF Promoted, TypeInv, RestOK
  <2> QED
    BY <1>2, <1>3, <1>4, <2>1 DEF KeepAnchors, MapsOK
<1>5. CASE terminals # {} /\ Reseed(closed, A, W, seed)
  <2>1. seed \in PaneId
    <3>1. /\ leaves \in SUBSET PaneId /\ StrictOrder(leaves, order)
          /\ terminals \in SUBSET leaves /\ terminals # {}
      BY <1>5 DEF TypeInv, TreeOK, TreeOrder
    <3> QED
      BY <3>1, FirstLeafIn
  <2>2. /\ TabsWithout(TabsLeft(closed, A), {seed}, A) \in [PaneId -> SUBSET PaneId]
        /\ ActiveWithout(TabsLeft(closed, A), ActiveLeft(closed, A), {seed}, A)
             \in [PaneId -> MaybePane]
    BY <1>3, TabMapTypes
  <2> HIDE DEF seed
  <2> QED
    BY <1>2, <1>3, <1>5, <2>1, <2>2, PaneIds DEF Reseed, MapsOK
<1> QED
  BY <1>1, <1>4, <1>5

LEMMA FocusAfterReapType ==
    ASSUME RestOK, NEW A, active_anchor' \in MaybePane
    PROVE  FocusAfterReap(A) \in PaneId
BY PaneIds DEF FocusAfterReap, RestOK

LEMMA TypeInvInit == Init => TypeInv
<1> SUFFICES ASSUME Init PROVE TypeInv
  OBVIOUS
<1>1. 1 \in PaneId /\ 2 \in 1..(MaxPane + 1) /\ 1 \in 1..(2 - 1)
  BY WorkspaceAssumption DEF PaneId
<1>2. TreeOK
  BY <1>1 DEF Init, TreeOK, TreeOrder, StrictOrder
<1>3. MapsOK
  BY <1>1, PaneIds DEF Init, MapsOK
<1>4. RestOK
  BY <1>1, PaneIds DEF Init, RestOK
<1> QED
  BY <1>2, <1>3, <1>4 DEF TypeInv

LEMMA SplitTypes == ASSUME TypeInv, SplitFocusedPane PROVE TypeInv'
<1> DEFINE owner == pane_workspace[focused]
<1>1. owner \in MaybePane /\ TabRootOf(focused) \in MaybePane /\ next_id \in PaneId
  BY PaneIds DEF TypeInv, MapsOK, RestOK, TabRootOf, SplitFocusedPane, CanAllocate
<1>2. CASE focused \in leaves /\ OpenBehind(focused)
  <2>1. TreeOK'
    BY <1>2, OpenBehindTree DEF TypeInv, SplitFocusedPane
  <2> QED
    BY <1>1, <1>2, <2>1 DEF TypeInv, MapsOK, RestOK, SplitFocusedPane, OpenBehind, RollBack
<1>3. CASE focused \notin leaves /\ RollBack(owner, terminal_tabs, active_tab, tab_roots)
  <2>1. TreeOK' /\ MapsOK'
    BY <1>1, <1>3, RollBackTypes DEF TypeInv, MapsOK, SplitFocusedPane
  <2> QED
    BY <1>3, <2>1 DEF TypeInv, RestOK, SplitFocusedPane, RollBack
<1> QED
  BY <1>2, <1>3 DEF SplitFocusedPane

LEMMA CreateNewAnchorTypes == ASSUME TypeInv, CreateNewAnchor PROVE TypeInv'
<1> DEFINE n == next_id
<1>1. CASE SplitFocusedPane
  BY <1>1, SplitTypes
<1>2. CASE ~SplitFocusedPane
  <2> DEFINE T == TabsWithout(terminal_tabs, {n}, anchors)
             AT == ActiveWithout(terminal_tabs, active_tab, {n}, anchors)
             R == RootsWithout(tab_roots, {n})
  <2>1. /\ CanAllocate /\ focused \in leaves /\ OpenBehind(focused)
        /\ anchors' = anchors \cup {n}
        /\ pane_workspace' = [pane_workspace EXCEPT ![n] = n]
        /\ Tag(n, T, AT, R)
        /\ UNCHANGED <<exit_queue, surface_to_pane>>
    BY <1>2 DEF CreateNewAnchor
  <2>2. TreeOK' /\ n \in PaneId /\ n \in MaybePane
    BY <2>1, OpenBehindTree, PaneIds DEF TypeInv, CanAllocate
  <2>3. /\ T \in [PaneId -> SUBSET PaneId]
        /\ AT \in [PaneId -> MaybePane]
        /\ R \in [PaneId -> MaybePane]
    BY TabMapTypes DEF TypeInv, MapsOK
  <2> HIDE DEF T, AT, R
  <2>4. MapsOK'
    BY <2>1, <2>2, <2>3 DEF Tag, TypeInv, MapsOK
  <2> QED
    BY <2>1, <2>2, <2>4 DEF Tag, TypeInv, RestOK
<1> QED
  BY <1>1, <1>2

LEMMA CreateTerminalTabTypes ==
    ASSUME TypeInv, NEW a \in PaneId, CreateTerminalTabForAnchor(a) PROVE TypeInv'
<1> DEFINE n == next_id
           target == ActiveTab(a)
           T == [EnsuredTabs(a) EXCEPT ![a] = @ \cup {n}]
           AT == [EnsuredActive(a) EXCEPT ![a] = n]
           R == [EnsuredRoots(a) EXCEPT ![n] = n]
<1>1. CanAllocate /\ n \in PaneId /\ n \in MaybePane /\ a \in MaybePane
  BY PaneIds DEF CreateTerminalTabForAnchor, CanAllocate
<1>2. /\ T \in [PaneId -> SUBSET PaneId]
      /\ AT \in [PaneId -> MaybePane]
      /\ R \in [PaneId -> MaybePane]
  BY <1>1, EnsuredTypes, TypeInvDef
<1> HIDE DEF T, AT, R
<1>3. UNCHANGED <<exit_queue, surface_to_pane>>
  BY DEF CreateTerminalTabForAnchor
<1>4. CASE /\ target \in leaves
           /\ OpenBehind(target)
           /\ pane_workspace' = [pane_workspace EXCEPT ![n] = a]
           /\ terminal_tabs' = T
           /\ active_tab' = AT
           /\ tab_roots' = R
           /\ focused' = n
           /\ UNCHANGED <<anchors, active_anchor>>
  <2>1. TreeOK'
    BY <1>1, <1>4, OpenBehindTree DEF TypeInv
  <2>2. MapsOK'
    BY <1>1, <1>2, <1>4 DEF TypeInv, MapsOK
  <2> QED
    BY <1>1, <1>3, <1>4, <2>1, <2>2 DEF TypeInv, RestOK
<1>5. CASE RollBack(a, T, AT, R)
  <2>1. TreeOK' /\ MapsOK'
    BY <1>1, <1>2, <1>5, RollBackTypes
  <2> QED
    BY <1>3, <1>5, <2>1 DEF TypeInv, RestOK, RollBack
<1> QED
  BY <1>4, <1>5 DEF CreateTerminalTabForAnchor, T, AT, R

LEMMA CreatePaneFromBusTypes ==
    ASSUME TypeInv, NEW target \in PaneId,
           NEW asTab \in BOOLEAN, NEW activate \in BOOLEAN, NEW sent \in BOOLEAN,
           CreatePaneFromBus(target, asTab, activate, sent)
    PROVE  TypeInv'
<1> DEFINE n == next_id
           owner == IF pane_workspace[target] # None THEN pane_workspace[target]
                    ELSE IF target \in anchors THEN target
                    ELSE None
           T == EnsuredTabs(owner)
           AT == EnsuredActive(owner)
           R == EnsuredRoots(owner)
           root == IF R[target] # None THEN R[target] ELSE owner
<1>1. CanAllocate /\ n \in PaneId /\ n \in MaybePane
  BY PaneIds DEF CreatePaneFromBus, CanAllocate
<1>2. owner \in MaybePane
  BY PaneIds DEF TypeInv, MapsOK
<1> HIDE DEF owner
<1>3. /\ T \in [PaneId -> SUBSET PaneId]
      /\ AT \in [PaneId -> MaybePane]
      /\ R \in [PaneId -> MaybePane]
  BY EnsuredTypes, TypeInvDef
<1> HIDE DEF T, AT, R
<1>4. root \in MaybePane
  BY <1>2, <1>3
<1> HIDE DEF root
<1>5. UNCHANGED <<exit_queue, surface_to_pane>>
  BY DEF CreatePaneFromBus
<1>6. CASE /\ target \in leaves
           /\ OpenBehind(target)
           /\ focused' = IF activate /\ sent THEN n ELSE focused
           /\ IF owner = None
                THEN UNCHANGED <<pane_workspace, tabs>>
                ELSE /\ pane_workspace' = [pane_workspace EXCEPT ![n] = owner]
                     /\ terminal_tabs' = IF asTab THEN [T EXCEPT ![owner] = @ \cup {n}]
                                                  ELSE T
                     /\ active_tab' = IF asTab /\ activate
                                        THEN [AT EXCEPT ![owner] = n] ELSE AT
                     /\ tab_roots' = [R EXCEPT ![n] = IF asTab THEN n ELSE root]
           /\ UNCHANGED <<anchors, active_anchor>>
  <2>1. TreeOK'
    BY <1>1, <1>6, OpenBehindTree DEF TypeInv
  <2>2. MapsOK'
    <3>1. CASE owner = None
      BY <1>6, <3>1 DEF TypeInv, MapsOK, tabs
    <3>2. CASE owner # None
      BY <1>1, <1>2, <1>3, <1>4, <1>6, <3>2, PaneIds DEF TypeInv, MapsOK
    <3> QED
      BY <3>1, <3>2
  <2> QED
    BY <1>1, <1>5, <1>6, <2>1, <2>2 DEF TypeInv, RestOK
<1>7. CASE RollBack(owner, T, AT, R)
  <2>1. TreeOK' /\ MapsOK'
    BY <1>1, <1>2, <1>3, <1>7, RollBackTypes
  <2> QED
    BY <1>5, <1>7, <2>1 DEF TypeInv, RestOK, RollBack
<1> QED
  BY <1>6, <1>7 DEF CreatePaneFromBus, owner, T, AT, R, root

LEMMA FirstLeafTypes ==
    ASSUME TreeOK PROVE FirstLeaf(leaves, order) \in leaves /\ leaves \in SUBSET PaneId
<1>1. leaves \in SUBSET PaneId /\ leaves # {} /\ StrictOrder(leaves, order)
  BY DEF TreeOK, TreeOrder
<1> QED
  BY <1>1, FirstLeafIn

LEMMA CloseFocusedTypes == ASSUME TypeInv, CloseFocused PROVE TypeInv'
<1>1. /\ Reap({focused}, anchors \ {focused}, OwnersAfterClose(focused))
      /\ leaves \ {focused} # {}
      /\ focused' = FirstLeaf(leaves', order')
      /\ UNCHANGED <<exit_queue, next_id, surface_to_pane>>
  BY DEF CloseFocused
<1>2. /\ OwnersAfterClose(focused) \in [PaneId -> MaybePane]
      /\ anchors \ {focused} \in SUBSET PaneId
  BY TabMapTypes DEF OwnersAfterClose, TypeInv, MapsOK, RestOK
<1>3. TreeOK' /\ MapsOK' /\ anchors' \subseteq PaneId /\ active_anchor' \in MaybePane
  BY <1>1, <1>2, ReapTypes
<1>4. FirstLeaf(leaves', order') \in leaves' /\ leaves' \in SUBSET PaneId
  <2>1. leaves' \in SUBSET PaneId /\ leaves' # {} /\ StrictOrder(leaves', order')
    BY <1>3 DEF TreeOK, TreeOrder
  <2> QED
    BY <2>1, FirstLeafIn
<1> QED
  BY <1>1, <1>3, <1>4 DEF TypeInv, RestOK

LEMMA ChildExitsTypes == ASSUME TypeInv, NEW p \in PaneId, ChildExits(p) PROVE TypeInv'
BY DEF ChildExits, TypeInv, TreeOK, TreeOrder, MapsOK, RestOK, tabs

LEMMA CloseExitedPaneTypes ==
    ASSUME TypeInv, NEW p \in PaneId, CloseExitedPane(p) PROVE TypeInv'
<1>1. exit_queue' \subseteq PaneId /\ UNCHANGED <<next_id, surface_to_pane>>
  BY DEF CloseExitedPane, TypeInv, RestOK
<1>2. CASE UNCHANGED <<tree, focused, anchors, pane_workspace, tabs, active_anchor>>
  BY <1>1, <1>2 DEF TypeInv, TreeOK, TreeOrder, MapsOK, RestOK, tree, tabs
<1>3. CASE /\ Closable(p)
           /\ Reap({p}, anchors \ {p}, OwnersAfterClose(p))
           /\ LET f == FocusAfterReap(anchors \ {p})
              IN  focused' = IF f = p \/ f \notin panes' THEN FirstLeaf(leaves', order') ELSE f
  <2>1. /\ OwnersAfterClose(p) \in [PaneId -> MaybePane]
        /\ anchors \ {p} \in SUBSET PaneId
        /\ leaves \ {p} # {}
    BY <1>3, TabMapTypes DEF OwnersAfterClose, TypeInv, MapsOK, RestOK, Closable
  <2>2. TreeOK' /\ MapsOK' /\ anchors' \subseteq PaneId /\ active_anchor' \in MaybePane
    BY <1>1, <1>3, <2>1, ReapTypes
  <2>3. FirstLeaf(leaves', order') \in leaves' /\ leaves' \in SUBSET PaneId
    <3>1. leaves' \in SUBSET PaneId /\ leaves' # {} /\ StrictOrder(leaves', order')
      BY <2>2 DEF TreeOK, TreeOrder
    <3> QED
      BY <3>1, FirstLeafIn
  <2>4. FocusAfterReap(anchors \ {p}) \in PaneId
    BY <2>2, FocusAfterReapType DEF TypeInv
  <2> QED
    BY <1>1, <1>3, <2>2, <2>3, <2>4 DEF TypeInv, RestOK
<1> QED
  BY <1>2, <1>3 DEF CloseExitedPane

LEMMA AddAnchorTypes == ASSUME TypeInv, NEW t \in PaneId, AddAnchor(t) PROVE TypeInv'
<1> DEFINE A == anchors \cup {t}
           W == [pane_workspace EXCEPT ![t] = t]
<1>1. PICK closed \in ClosedSets({}, A, W) :
        /\ Drop(closed)
        /\ anchors' = A
        /\ pane_workspace' = Disowned(W, closed)
        /\ IF closed = {}
             THEN Tag(t, terminal_tabs, active_tab, tab_roots)
             ELSE Tag(t, TabsWithout(terminal_tabs, closed, A),
                         ActiveWithout(terminal_tabs, active_tab, closed, A),
                         RootsWithout(tab_roots, closed))
  BY DEF AddAnchor
<1>2. UNCHANGED <<exit_queue, next_id, surface_to_pane>> /\ t \in MaybePane
  BY PaneIds DEF AddAnchor
<1>3. TreeOK'
  <2>1. leaves \ {} # {}
    BY DEF TypeInv, TreeOK, TreeOrder
  <2> QED
    BY <1>1, <1>2, <2>1, ClosedSetsKeepOne, DropTree DEF TypeInv
<1>4. W \in [PaneId -> MaybePane]
  BY <1>2 DEF TypeInv, MapsOK
<1>5. PICK T \in [PaneId -> SUBSET PaneId], AT \in [PaneId -> MaybePane],
           R \in [PaneId -> MaybePane] : Tag(t, T, AT, R)
  BY <1>1, TabMapTypes DEF TypeInv, MapsOK
<1>6. Disowned(W, closed) \in [PaneId -> MaybePane]
  BY <1>4, TabMapTypes DEF TypeInv, MapsOK
<1>7. MapsOK'
  BY <1>1, <1>2, <1>5, <1>6 DEF Tag, MapsOK
<1> QED
  BY <1>1, <1>2, <1>3, <1>5, <1>7 DEF Tag, TypeInv, RestOK

LEMMA RemoveAnchorTypes == ASSUME TypeInv, NEW t \in PaneId, RemoveAnchor(t) PROVE TypeInv'
<1> DEFINE W == Disowned(pane_workspace, {p \in PaneId : pane_workspace[p] = t})
<1>1. /\ Reap({}, anchors \ {t}, W)
      /\ focused' = FocusAfterReap(anchors \ {t})
      /\ UNCHANGED <<exit_queue, next_id, surface_to_pane>>
  BY DEF RemoveAnchor
<1>2. W \in [PaneId -> MaybePane] /\ anchors \ {t} \in SUBSET PaneId /\ leaves \ {} # {}
  BY TabMapTypes DEF TypeInv, TreeOK, TreeOrder, MapsOK, RestOK
<1> HIDE DEF W
<1>3. TreeOK' /\ MapsOK' /\ anchors' \subseteq PaneId /\ active_anchor' \in MaybePane
  BY <1>1, <1>2, ReapTypes
<1>4. FocusAfterReap(anchors \ {t}) \in PaneId
  BY <1>3, FocusAfterReapType DEF TypeInv
<1> QED
  BY <1>1, <1>3, <1>4 DEF TypeInv, RestOK

LEMMA SetActiveAnchorTypes ==
    ASSUME TypeInv, NEW a, SetActiveAnchor(a) PROVE TypeInv'
BY PaneIds DEF SetActiveAnchor, TypeInv, TreeOK, TreeOrder, MapsOK, RestOK, tree, tabs

LEMMA FocusMovesTypes == ASSUME TypeInv, NEW p \in PaneId, FocusMoves(p) PROVE TypeInv'
BY DEF FocusMoves, TypeInv, TreeOK, TreeOrder, MapsOK, RestOK, tree, tabs

LEMMA CycleFocusTypes ==
    ASSUME TypeInv, NEW forward \in BOOLEAN, CycleFocus(forward) PROVE TypeInv'
<1> DEFINE here == IF focused \in leaves THEN focused ELSE FirstLeaf(leaves, order)
           ord == IF forward THEN order ELSE {e \in leaves \X leaves : <<e[2], e[1]>> \in order}
           ahead == After(here, ord)
           S == IF ahead # {} THEN ahead ELSE leaves
<1>1. leaves \in SUBSET PaneId /\ leaves # {} /\ StrictOrder(leaves, order)
  BY DEF TypeInv, TreeOK, TreeOrder
<1>2. StrictOrder(leaves, ord)
  <2>1. ASSUME ~forward PROVE StrictOrder(leaves, ord)
    <3>1. ord = {e \in leaves \X leaves : <<e[2], e[1]>> \in order}
      BY <2>1
    <3>2. \A p, q \in leaves : <<p, q>> \in ord <=> <<q, p>> \in order
      BY <1>1, <3>1 DEF StrictOrder
    <3>3. ord \subseteq leaves \X leaves
      BY <1>1, <3>1 DEF StrictOrder
    <3> HIDE DEF ord
    <3> QED
      BY <1>1, <3>2, <3>3 DEF StrictOrder
  <2> QED
    BY <1>1, <2>1
<1> HIDE DEF ord
<1>3. S \in SUBSET leaves /\ S # {}
  BY <1>1, <1>2, ZenonT(60) DEF StrictOrder, After
<1> HIDE DEF S
<1>4. FirstLeaf(S, ord) \in PaneId
  BY <1>1, <1>2, <1>3, FirstLeafIn
<1>5. FocusMoves(FirstLeaf(S, ord))
  BY DEF CycleFocus, S, ord
<1> QED
  BY <1>4, <1>5, FocusMovesTypes

LEMMA ReparentTypes ==
    ASSUME TypeInv, NEW source \in PaneId, NEW target \in PaneId, NEW behind \in BOOLEAN,
           ReparentPane(source, target, behind)
    PROVE  TypeInv'
<1> DEFINE ord == Without(order, {source})
           L == leaves \ {source}
<1>1. /\ L \in SUBSET PaneId /\ StrictOrder(L, ord)
      /\ target \in L /\ source \in PaneId \ L
      /\ L \cup {source} = leaves
  BY WithoutOrder DEF TypeInv, TreeOK, TreeOrder, ReparentPane, Visible
<1> HIDE DEF ord, L
<1>2. StrictOrder(leaves, order')
  <2>1. CASE order' = InsertAfter(ord, target, source)
    BY <1>1, <2>1, InsertAfterOrder
  <2>2. CASE order' = InsertBefore(ord, target, source)
    BY <1>1, <2>2, InsertBeforeOrder
  <2> QED
    BY <2>1, <2>2 DEF ReparentPane, ord
<1>3. UNCHANGED <<panes, satellites, exited, leaves, exit_queue, focused, next_id,
                  anchors, pane_workspace, tabs, active_anchor, surface_to_pane>>
  BY DEF ReparentPane
<1> QED
  BY <1>2, <1>3 DEF TypeInv, TreeOK, TreeOrder, MapsOK, RestOK, tabs

LEMMA ToplevelCreatedTypes ==
    ASSUME TypeInv, NEW s \in Surfaces, OnToplevelCreated(s) PROVE TypeInv'
<1> DEFINE n == next_id
           owner == pane_workspace[focused]
<1>1. /\ n \in PaneId /\ n \in MaybePane /\ owner \in MaybePane
      /\ n \notin panes /\ n \notin leaves
  BY PaneIds DEF OnToplevelCreated, CanAllocate, TypeInv, TreeOK, MapsOK, RestOK
<1>2. /\ next_id' = n + 1
      /\ UNCHANGED <<exit_queue, focused, anchors, tabs, active_anchor>>
  BY DEF OnToplevelCreated
<1>3. n \in Int /\ next_id' \in 1..(MaxPane + 1) /\ n \in 1..(next_id' - 1)
  BY <1>1, <1>2, WorkspaceAssumption DEF PaneId
<1>4. panes \cup {n} \subseteq PaneId \cap 1..(next_id' - 1)
  BY <1>1, <1>2, <1>3, PaneIds DEF TypeInv, TreeOK
<1>5. CASE UNCHANGED <<tree, pane_workspace, surface_to_pane>>
  BY <1>2, <1>3, <1>4, <1>5 DEF TypeInv, TreeOK, TreeOrder, MapsOK, RestOK, tree, tabs
<1>6. CASE /\ panes' = panes \cup {n}
           /\ satellites' = satellites \cup {n}
           /\ \/ /\ focused \in leaves
                 /\ leaves' = leaves \cup {n}
                 /\ order' = InsertAfter(order, focused, n)
              \/ leaves' = {n} /\ order' = {}
           /\ pane_workspace' = [pane_workspace EXCEPT
                                   ![n] = IF owner = None THEN @ ELSE owner]
           /\ surface_to_pane' = [surface_to_pane EXCEPT ![s] = n]
           /\ UNCHANGED exited
  <2>1. leaves \in SUBSET PaneId /\ StrictOrder(leaves, order)
    BY DEF TypeInv, TreeOK, TreeOrder
  <2>2. /\ leaves' # {} /\ leaves' \subseteq panes'
        /\ StrictOrder(leaves', order')
    <3>1. CASE leaves' = {n} /\ order' = {}
      BY <1>6, <3>1 DEF StrictOrder
    <3>2. CASE /\ focused \in leaves /\ leaves' = leaves \cup {n}
               /\ order' = InsertAfter(order, focused, n)
      <4>1. leaves \subseteq panes
        BY DEF TypeInv, TreeOK
      <4> QED
        BY <1>1, <1>6, <2>1, <3>2, <4>1, InsertAfterOrder
    <3> QED
      BY <1>6, <3>1, <3>2
  <2>3. TreeOK'
    BY <1>1, <1>3, <1>4, <1>6, <2>2 DEF TypeInv, TreeOK, TreeOrder
  <2>4. MapsOK'
    BY <1>1, <1>2, <1>6 DEF TypeInv, MapsOK, tabs
  <2> QED
    BY <1>1, <1>2, <1>6, <2>3, <2>4 DEF TypeInv, RestOK
<1>7. focused \in leaves \/ focused \notin panes \/ UNCHANGED <<tree, pane_workspace, surface_to_pane>>
  BY DEF OnToplevelCreated
<1>8. focused \in leaves => focused \in panes
  BY DEF TypeInv, TreeOK
<1> QED
  BY <1>5, <1>6, <1>7, <1>8 DEF OnToplevelCreated

LEMMA ToplevelClosedTypes ==
    ASSUME TypeInv, NEW s \in Surfaces, OnToplevelClosed(s) PROVE TypeInv'
<1> DEFINE p == surface_to_pane[s]
           W == Disowned(pane_workspace, {p})
           rest == leaves \ {p}
           inActive == {q \in rest : active_anchor # None /\ W[q] = active_anchor}
<1>1. /\ surface_to_pane' = [surface_to_pane EXCEPT ![s] = None]
      /\ UNCHANGED <<exit_queue, next_id, anchors, active_anchor>>
  BY DEF OnToplevelClosed
<1>2. surface_to_pane' \in [Surfaces -> MaybePane]
  BY <1>1, PaneIds DEF TypeInv, RestOK
<1>3. CASE UNCHANGED <<tree, focused, pane_workspace, tabs>>
  BY <1>1, <1>2, <1>3 DEF TypeInv, TreeOK, TreeOrder, MapsOK, RestOK, tree, tabs
<1>4. CASE /\ leaves # {p}
           /\ Drop({p})
           /\ pane_workspace' = W
           /\ terminal_tabs' = TabsWithout(terminal_tabs, {p}, anchors)
           /\ active_tab' = ActiveWithout(terminal_tabs, active_tab, {p}, anchors)
           /\ tab_roots' = RootsWithout(tab_roots, {p})
           /\ focused' = IF focused # p THEN focused
                         ELSE FirstLeaf(IF inActive # {} THEN inActive ELSE rest, order')
  <2>1. leaves \ {p} # {}
    BY <1>4 DEF TypeInv, TreeOK, TreeOrder
  <2>2. TreeOK'
    BY <1>1, <1>4, <2>1, DropTree DEF TypeInv
  <2>3. MapsOK'
    BY <1>4, TabMapTypes DEF TypeInv, MapsOK
  <2>4. focused' \in PaneId
    <3> DEFINE S == IF inActive # {} THEN inActive ELSE rest
    <3>1. /\ leaves' = rest /\ leaves' \in SUBSET PaneId /\ StrictOrder(leaves', order')
          /\ S \in SUBSET leaves' /\ S # {}
      BY <1>4, <2>1, <2>2 DEF TreeOK, TreeOrder, Drop
    <3> HIDE DEF S
    <3>2. FirstLeaf(S, order') \in PaneId
      BY <3>1, FirstLeafIn
    <3> QED
      BY <1>4, <3>2 DEF S, TypeInv, RestOK
  <2> QED
    BY <1>1, <1>2, <2>2, <2>3, <2>4 DEF TypeInv, RestOK
<1> QED
  BY <1>3, <1>4 DEF OnToplevelClosed

LEMMA TypeInvNext == TypeInv /\ [Next]_vars => TypeInv'
<1> SUFFICES ASSUME TypeInv, [Next]_vars PROVE TypeInv'
  OBVIOUS
<1>1. CASE SplitFocused
  BY <1>1, SplitTypes DEF SplitFocused
<1>2. CASE CreateNewAnchor
  BY <1>2, CreateNewAnchorTypes
<1>3. CASE NewTabButton
  <2>1. active_anchor \in PaneId
    BY <1>3, PaneIds DEF NewTabButton, TypeInv, RestOK
  <2> QED
    BY <1>3, <2>1, CreateTerminalTabTypes DEF NewTabButton
<1>4. CASE CreateTerminalTabForFocused
  <2> DEFINE a == AnchorForNewTab(focused)
  <2>1. CreateTerminalTabForAnchor(a)
    BY <1>4 DEF CreateTerminalTabForFocused
  <2> HIDE DEF a
  <2>2. a \in PaneId
    BY <2>1 DEF CreateTerminalTabForAnchor, TypeInv, RestOK
  <2> QED
    BY <2>1, <2>2, CreateTerminalTabTypes
<1>5. CASE PaneNew
  <2> DEFINE targets == IF active_anchor # None THEN anchors \cup {active_anchor}
                                                ELSE anchors \cup {focused}
  <2>1. PICK target \in targets, asTab \in BOOLEAN, activate \in BOOLEAN, sent \in BOOLEAN :
          CreatePaneFromBus(target, asTab, activate, sent)
    BY <1>5, Zenon DEF PaneNew
  <2>2. target \in PaneId
    BY <2>1 DEF CreatePaneFromBus, TypeInv, TreeOK
  <2> QED
    BY <2>1, <2>2, CreatePaneFromBusTypes
<1>6. CASE CloseFocused
  BY <1>6, CloseFocusedTypes
<1>7. CASE CycleActiveAnchor
  <2>1. focused \in PaneId
    BY DEF TypeInv, RestOK
  <2> QED
    BY <1>7, <2>1, AddAnchorTypes, SetActiveAnchorTypes DEF CycleActiveAnchor
<1>8. ASSUME NEW p \in PaneId, ChildExits(p) PROVE TypeInv'
  BY <1>8, ChildExitsTypes
<1>9. ASSUME NEW p \in PaneId, CloseExitedPane(p) PROVE TypeInv'
  BY <1>9, CloseExitedPaneTypes
<1>10. ASSUME NEW p \in PaneId, AddAnchor(p) PROVE TypeInv'
  BY <1>10, AddAnchorTypes
<1>11. ASSUME NEW p \in PaneId, RemoveAnchor(p) PROVE TypeInv'
  BY <1>11, RemoveAnchorTypes
<1>12. ASSUME NEW p \in PaneId, SetActiveAnchor(p) PROVE TypeInv'
  BY <1>12, SetActiveAnchorTypes
<1>13. ASSUME NEW p \in PaneId, SetFocused(p) PROVE TypeInv'
  BY <1>13, FocusMovesTypes DEF SetFocused
<1>14. ASSUME NEW p \in PaneId, NEW r \in PaneId, ActivateTerminalTab(p, r) PROVE TypeInv'
  BY <1>14, PaneIds
     DEF ActivateTerminalTab, TypeInv, TreeOK, TreeOrder, MapsOK, RestOK, tree
<1>15. ASSUME NEW p \in PaneId, NEW q \in PaneId, NEW behind \in BOOLEAN,
              ReparentPane(p, q, behind)
       PROVE  TypeInv'
  BY <1>15, ReparentTypes
<1>16. ASSUME NEW forward \in BOOLEAN, CycleFocus(forward) PROVE TypeInv'
  BY <1>16, CycleFocusTypes
<1>17. ASSUME NEW s \in Surfaces, OnToplevelCreated(s) \/ OnToplevelClosed(s) PROVE TypeInv'
  BY <1>17, ToplevelCreatedTypes, ToplevelClosedTypes
<1>18. CASE UNCHANGED vars
  BY <1>18 DEF vars, tree, tabs, TypeInv, TreeOK, TreeOrder, MapsOK, RestOK
<1> QED
  BY <1>1, <1>2, <1>3, <1>4, <1>5, <1>6, <1>7, <1>8, <1>9, <1>10, <1>11, <1>12, <1>13,
     <1>14, <1>15, <1>16, <1>17, <1>18 DEF Next

\* state.rs, every operation of AppState: the maps stay well typed, the tree
\* holds live panes only and pane ids are never handed out twice.
THEOREM TypeCorrect == Spec => []TypeOK
<1>1. TypeInv => TypeOK
  BY TypeInvDef
<1> QED
  BY <1>1, TypeInvInit, TypeInvNext, PTL DEF Spec

\* layout.rs as used by state.rs: the in-order traversal of the split tree lists
\* every leaf exactly once and is never empty, with or without a Wayland host.
THEOREM TraversalCorrect == Spec => []TreeOrder
<1>1. TypeInv => TreeOrder
  BY TypeInvDef
<1> QED
  BY <1>1, TypeInvInit, TypeInvNext, PTL DEF Spec

-----------------------------------------------------------------------------
(* Ownership without a Wayland host *)

\* The strengthening that makes WellOwned inductive: nothing but terminals, all
\* of them in the tree.  A satellite can be unowned, and is never reaped.
OwnInv == TypeInv /\ satellites = {} /\ LayoutIsPanes /\ WellOwned

\* A new pane joins the workspace of a live anchor, or is one.
LEMMA OpenBehindOwned ==
    ASSUME OwnInv, NEW t \in leaves, CanAllocate, OpenBehind(t),
           NEW owner \in anchors \cup {next_id},
           anchors' = anchors \cup {owner},
           pane_workspace' = [pane_workspace EXCEPT ![next_id] = owner],
           active_anchor' \in anchors'
    PROVE  satellites' = {} /\ LayoutIsPanes' /\ WellOwned'
<1>1. next_id \notin panes /\ next_id \in PaneId
  BY OpenBehindTree DEF OwnInv, TypeInv, CanAllocate
<1>2. pane_workspace \in [PaneId -> MaybePane] /\ panes \subseteq PaneId
  BY DEF OwnInv, TypeInv, TreeOK, MapsOK
<1>3. satellites' = {} /\ LayoutIsPanes'
  BY DEF OpenBehind, OwnInv, LayoutIsPanes
<1>4. WellOwned'
  BY <1>1, <1>2 DEF OpenBehind, OwnInv, WellOwned
<1> QED
  BY <1>3, <1>4

\* A dropped allocation writes ownership for an id that no pane has.
LEMMA RollBackOwned ==
    ASSUME OwnInv, CanAllocate, NEW owner, NEW T, NEW AT, NEW R, RollBack(owner, T, AT, R)
    PROVE  satellites' = {} /\ LayoutIsPanes' /\ WellOwned'
<1>1. next_id \notin panes /\ panes \subseteq PaneId /\ next_id \in PaneId
  BY DEF OwnInv, TypeInv, TreeOK, CanAllocate
<1>2. pane_workspace \in [PaneId -> MaybePane]
  BY DEF OwnInv, TypeInv, MapsOK
<1>3. UNCHANGED <<panes, satellites, leaves, anchors, active_anchor>>
  BY DEF RollBack, tree
<1>4. \A p \in panes : pane_workspace'[p] = pane_workspace[p]
  BY <1>1, <1>2 DEF RollBack
<1> QED
  BY <1>3, <1>4 DEF OwnInv, LayoutIsPanes, WellOwned

\* Reaping restores ownership: what is left belongs to an anchor that is left,
\* or is the one pane that becomes an anchor.
LEMMA ReapOwned ==
    ASSUME OwnInv, NEW t \in PaneId, NEW gone \in SUBSET {t}, leaves \ gone # {},
           NEW A, A = anchors \ {t},
           NEW W \in [PaneId -> MaybePane], \A a \in A : W[a] = a,
           Reap(gone, A, W)
    PROVE  satellites' = {} /\ LayoutIsPanes' /\ WellOwned'
<1>1. PICK closed \in ClosedSets(gone, A, W) :
        LET terminals == (leaves \ closed) \ satellites
        IN  /\ Drop(closed)
            /\ \/ /\ A # {} \/ terminals = {}
                  /\ KeepAnchors(closed, A, W)
               \/ /\ A = {} /\ terminals # {}
                  /\ Reseed(closed, A, W, FirstLeaf(terminals, order))
  BY DEF Reap
<1> DEFINE L == leaves \ gone
           orphans == Orphans(panes \ gone, A, W) \cap L
           terminals == (leaves \ closed) \ satellites
<1>2. satellites' = {} /\ LayoutIsPanes'
  BY <1>1 DEF Drop, OwnInv, LayoutIsPanes
<1>3. /\ leaves = panes /\ satellites = {} /\ panes \subseteq PaneId
      /\ A \subseteq L /\ None \notin A /\ A \subseteq PaneId
  BY PaneIds DEF OwnInv, LayoutIsPanes, WellOwned, TypeInv, TreeOK, RestOK
<1>4. orphans = {p \in L \ A : W[p] \notin A}
  BY <1>3 DEF Orphans
<1>5. gone \subseteq closed /\ terminals # {}
  BY <1>3, ClosedSetsKeepOne
<1>6. CASE A # {}
  <2>1. KeepAnchors(closed, A, W)
    BY <1>1, <1>6
  <2>2. closed = gone \cup orphans
    BY <1>3, <1>4, <1>6 DEF ClosedSets
  <2>3. closed \cap A = {}
    BY <1>3, <1>4, <2>2
  <2>4. \A p \in PaneId \ closed : pane_workspace'[p] = W[p]
    BY <2>1 DEF KeepAnchors, Disowned
  <2>5. active_anchor' \in anchors'
    BY <1>3, <1>6, <2>1, LeastIn DEF KeepAnchors, Promoted
  <2>6. \A p \in panes' : pane_workspace'[p] \in anchors'
    <3>1. panes' = panes \ closed /\ anchors' = A
      BY <1>1, <2>1 DEF Drop, KeepAnchors
    <3>2. \A p \in panes \ closed : p \in L /\ p \notin orphans
      BY <1>3, <2>2
    <3>3. ASSUME NEW p \in panes \ closed PROVE W[p] \in A
      <4> HIDE DEF L, orphans
      <4>1. CASE p \in A
        BY <4>1
      <4>2. CASE p \notin A
        BY <1>4, <3>2, <4>2
      <4> QED
        BY <4>1, <4>2
    <3> QED
      BY <1>3, <2>4, <3>1, <3>3
  <2>7. \A a \in anchors' : a \in panes' /\ pane_workspace'[a] = a
    BY <1>1, <1>3, <2>1, <2>3, <2>4 DEF Drop, KeepAnchors
  <2> QED
    BY <1>2, <2>5, <2>6, <2>7 DEF WellOwned
<1>7. CASE A = {}
  <2> DEFINE seed == FirstLeaf(terminals, order)
  <2>1. Reseed(closed, A, W, seed)
    BY <1>1, <1>5, <1>7
  <2>2. orphans = L
    BY <1>4, <1>7
  <2>3. PICK kept \in L : closed = gone \cup (L \ {kept})
    BY <2>2 DEF ClosedSets
  <2>4. panes' = {kept} /\ terminals = {kept}
    BY <1>1, <1>3, <2>3 DEF Drop
  <2>5. seed = kept
    BY <2>4 DEF FirstLeaf
  <2> HIDE DEF seed
  <2>6. /\ anchors' = {kept} /\ active_anchor' = kept
        /\ pane_workspace' = [Disowned(W, closed) EXCEPT ![kept] = kept]
    BY <2>1, <2>5 DEF Reseed
  <2>7. pane_workspace'[kept] = kept
    BY <1>3, <2>6 DEF Disowned
  <2> QED
    BY <1>2, <2>4, <2>6, <2>7 DEF WellOwned
<1> QED
  BY <1>6, <1>7

\* Steps that neither open nor close a pane, nor change ownership
LEMMA OwnersKept ==
    ASSUME OwnInv, UNCHANGED <<panes, satellites, leaves, anchors, pane_workspace>>,
           active_anchor' \in anchors
    PROVE  satellites' = {} /\ LayoutIsPanes' /\ WellOwned'
BY DEF OwnInv, LayoutIsPanes, WellOwned

LEMMA SplitOwned ==
    ASSUME OwnInv, SplitFocusedPane
    PROVE  satellites' = {} /\ LayoutIsPanes' /\ WellOwned'
<1> DEFINE owner == pane_workspace[focused]
<1>1. CanAllocate
  BY DEF SplitFocusedPane
<1>2. CASE /\ focused \in leaves
           /\ OpenBehind(focused)
           /\ pane_workspace' = [pane_workspace EXCEPT
                                   ![next_id] = IF owner = None THEN @ ELSE owner]
           /\ UNCHANGED <<anchors, active_anchor>>
  <2>1. owner \in anchors /\ owner # None /\ active_anchor \in anchors
    BY <1>2, PaneIds DEF OwnInv, LayoutIsPanes, WellOwned, TypeInv, RestOK
  <2>2. pane_workspace' = [pane_workspace EXCEPT ![next_id] = owner]
    BY <1>2, <2>1
  <2> HIDE DEF owner
  <2> QED
    BY <1>1, <1>2, <2>1, <2>2, OpenBehindOwned
<1>3. CASE RollBack(owner, terminal_tabs, active_tab, tab_roots)
  BY <1>1, <1>3, RollBackOwned
<1> QED
  BY <1>2, <1>3 DEF SplitFocusedPane

LEMMA CreateNewAnchorOwned ==
    ASSUME OwnInv, CreateNewAnchor
    PROVE  satellites' = {} /\ LayoutIsPanes' /\ WellOwned'
<1>1. CASE SplitFocusedPane
  BY <1>1, SplitOwned
<1>2. CASE /\ CanAllocate /\ focused \in leaves /\ OpenBehind(focused)
           /\ anchors' = anchors \cup {next_id}
           /\ pane_workspace' = [pane_workspace EXCEPT ![next_id] = next_id]
           /\ active_anchor' = next_id
  BY <1>2, OpenBehindOwned
<1> QED
  BY <1>1, <1>2 DEF CreateNewAnchor, Tag

LEMMA CreateTerminalTabOwned ==
    ASSUME OwnInv, NEW a \in PaneId, CreateTerminalTabForAnchor(a)
    PROVE  satellites' = {} /\ LayoutIsPanes' /\ WellOwned'
<1>1. CanAllocate /\ a \in anchors /\ active_anchor \in anchors
  BY DEF CreateTerminalTabForAnchor, OwnInv, WellOwned
<1>2. CASE /\ ActiveTab(a) \in leaves
           /\ OpenBehind(ActiveTab(a))
           /\ pane_workspace' = [pane_workspace EXCEPT ![next_id] = a]
           /\ UNCHANGED <<anchors, active_anchor>>
  BY <1>1, <1>2, OpenBehindOwned
<1>3. CASE \E T, AT, R : RollBack(a, T, AT, R)
  BY <1>1, <1>3, RollBackOwned
<1> QED
  BY <1>2, <1>3 DEF CreateTerminalTabForAnchor

LEMMA CreatePaneFromBusOwned ==
    ASSUME OwnInv, NEW target, NEW asTab, NEW activate, NEW sent,
           CreatePaneFromBus(target, asTab, activate, sent)
    PROVE  satellites' = {} /\ LayoutIsPanes' /\ WellOwned'
<1> DEFINE owner == IF pane_workspace[target] # None THEN pane_workspace[target]
                    ELSE IF target \in anchors THEN target
                    ELSE None
<1>1. /\ CanAllocate /\ active_anchor \in anchors
      /\ owner \in anchors /\ owner # None
  BY PaneIds DEF CreatePaneFromBus, OwnInv, WellOwned, TypeInv, RestOK
<1> HIDE DEF owner
<1>2. CASE /\ target \in leaves
           /\ OpenBehind(target)
           /\ pane_workspace' = [pane_workspace EXCEPT ![next_id] = owner]
           /\ UNCHANGED <<anchors, active_anchor>>
  BY <1>1, <1>2, OpenBehindOwned
<1>3. CASE \E T, AT, R : RollBack(owner, T, AT, R)
  BY <1>1, <1>3, RollBackOwned
<1> QED
  BY <1>1, <1>2, <1>3 DEF CreatePaneFromBus, owner

LEMMA CloseOwned ==
    ASSUME OwnInv, NEW t \in PaneId, leaves \ {t} # {},
           Reap({t}, anchors \ {t}, OwnersAfterClose(t))
    PROVE  satellites' = {} /\ LayoutIsPanes' /\ WellOwned'
<1>1. OwnersAfterClose(t) \in [PaneId -> MaybePane]
  BY TabMapTypes DEF OwnersAfterClose, OwnInv, TypeInv, MapsOK
<1>2. \A a \in anchors \ {t} : OwnersAfterClose(t)[a] = a
  BY DEF OwnersAfterClose, Disowned, OwnInv, WellOwned, TypeInv, RestOK
<1> QED
  BY <1>1, <1>2, ReapOwned

LEMMA RemoveAnchorOwned ==
    ASSUME OwnInv, NEW t \in PaneId, RemoveAnchor(t)
    PROVE  satellites' = {} /\ LayoutIsPanes' /\ WellOwned'
<1> DEFINE W == Disowned(pane_workspace, {p \in PaneId : pane_workspace[p] = t})
<1>1. W \in [PaneId -> MaybePane]
  BY TabMapTypes DEF OwnInv, TypeInv, MapsOK
<1>2. \A a \in anchors \ {t} : W[a] = a
  BY DEF Disowned, OwnInv, WellOwned, TypeInv, RestOK
<1>3. Reap({}, anchors \ {t}, W) /\ leaves \ {} # {}
  BY DEF RemoveAnchor, OwnInv, TypeInv, TreeOK, TreeOrder
<1> HIDE DEF W
<1> QED
  BY <1>1, <1>2, <1>3, ReapOwned

\* Every pane has an owner, so that nothing is left to tag.
LEMMA NothingToTag == ASSUME OwnInv, NEW t PROVE ~AddAnchor(t)
BY PaneIds DEF AddAnchor, OwnInv, WellOwned, TypeInv, RestOK

LEMMA OwnInvNext == ASSUME Surfaces = {}, OwnInv, [Next]_vars PROVE OwnInv'
<1> DEFINE Goal == satellites' = {} /\ LayoutIsPanes' /\ WellOwned'
<1>a. SUFFICES Goal
  <2>1. TypeInv'
    BY TypeInvNext DEF OwnInv
  <2> QED
    BY <2>1 DEF OwnInv
<1>0. active_anchor \in anchors /\ anchors \subseteq PaneId /\ focused \in PaneId
  BY DEF OwnInv, WellOwned, TypeInv, RestOK
<1>1. CASE SplitFocused
  BY <1>1, SplitOwned DEF SplitFocused
<1>2. CASE CreateNewAnchor
  BY <1>2, CreateNewAnchorOwned
<1>3. CASE NewTabButton
  BY <1>0, <1>3, CreateTerminalTabOwned DEF NewTabButton
<1>4. CASE CreateTerminalTabForFocused
  <2> DEFINE a == AnchorForNewTab(focused)
  <2>1. CreateTerminalTabForAnchor(a)
    BY <1>4 DEF CreateTerminalTabForFocused
  <2> HIDE DEF a
  <2> QED
    BY <1>0, <2>1, CreateTerminalTabOwned DEF CreateTerminalTabForAnchor
<1>5. CASE PaneNew
  BY <1>5, CreatePaneFromBusOwned DEF PaneNew
<1>6. CASE CloseFocused
  BY <1>0, <1>6, CloseOwned DEF CloseFocused
<1>7. CASE CycleActiveAnchor
  <2>1. ASSUME NEW a, SetActiveAnchor(a) PROVE Goal
    BY <2>1, OwnersKept DEF SetActiveAnchor, tree
  <2> QED
    BY <1>7, <2>1, NothingToTag DEF CycleActiveAnchor
<1>8. ASSUME NEW p \in PaneId, ChildExits(p) PROVE Goal
  BY <1>0, <1>8, OwnersKept DEF ChildExits
<1>9. ASSUME NEW p \in PaneId, CloseExitedPane(p) PROVE Goal
  <2>1. CASE UNCHANGED <<tree, focused, anchors, pane_workspace, tabs, active_anchor>>
    BY <1>0, <2>1, OwnersKept DEF tree
  <2>2. CASE Closable(p) /\ Reap({p}, anchors \ {p}, OwnersAfterClose(p))
    BY <2>2, CloseOwned DEF Closable
  <2> QED
    BY <1>9, <2>1, <2>2 DEF CloseExitedPane
<1>10. ASSUME NEW p \in PaneId, AddAnchor(p) PROVE Goal
  BY <1>10, NothingToTag
<1>11. ASSUME NEW p \in PaneId, RemoveAnchor(p) PROVE Goal
  BY <1>11, RemoveAnchorOwned
<1>12. ASSUME NEW p \in PaneId, SetActiveAnchor(p) PROVE Goal
  BY <1>12, OwnersKept DEF SetActiveAnchor, tree
<1>13. ASSUME NEW p \in PaneId, SetFocused(p) PROVE Goal
  BY <1>0, <1>13, OwnersKept DEF SetFocused, FocusMoves, tree
<1>14. ASSUME NEW p \in PaneId, NEW r \in PaneId, ActivateTerminalTab(p, r) PROVE Goal
  BY <1>0, <1>14, OwnersKept DEF ActivateTerminalTab, tree
<1>15. ASSUME NEW p \in PaneId, NEW q \in PaneId, NEW behind \in BOOLEAN,
              ReparentPane(p, q, behind)
       PROVE  Goal
  BY <1>0, <1>15, OwnersKept DEF ReparentPane
<1>16. ASSUME NEW forward \in BOOLEAN, CycleFocus(forward) PROVE Goal
  BY <1>0, <1>16, OwnersKept DEF CycleFocus, FocusMoves, tree
<1>17. CASE UNCHANGED vars
  BY <1>0, <1>17, OwnersKept DEF vars, tree
<1> QED
  BY <1>1, <1>2, <1>3, <1>4, <1>5, <1>6, <1>7, <1>8, <1>9, <1>10, <1>11, <1>12, <1>13,
     <1>14, <1>15, <1>16, <1>17 DEF Next

LEMMA OwnInvInit == Init => OwnInv
<1> SUFFICES ASSUME Init PROVE OwnInv
  OBVIOUS
<1>1. 1 \in PaneId
  BY WorkspaceAssumption DEF PaneId
<1> QED
  BY <1>1, TypeInvInit DEF Init, OwnInv, LayoutIsPanes, WellOwned

\* close_orphan_terminal_panes and ensure_anchor_invariant: without a Wayland
\* host every pane belongs to a live anchor and one anchor is on screen, however
\* panes, tabs and anchors are opened, closed, exited and untagged.
THEOREM OwnershipCorrect == ASSUME Surfaces = {} PROVE Spec => []WellOwned
<1>1. Init => OwnInv
  BY OwnInvInit
<1>2. OwnInv /\ [Next]_vars => OwnInv'
  BY OwnInvNext
<1>3. OwnInv => WellOwned
  BY DEF OwnInv
<1> QED
  BY <1>1, <1>2, <1>3, PTL DEF Spec

\* state.rs: without a Wayland host the pane map and the split tree never
\* disagree, so that no live pane is unreachable and no leaf is dead.
THEOREM LayoutCorrect == ASSUME Surfaces = {} PROVE Spec => []LayoutIsPanes
<1>1. Init => OwnInv
  BY OwnInvInit
<1>2. OwnInv /\ [Next]_vars => OwnInv'
  BY OwnInvNext
<1>3. OwnInv => LayoutIsPanes
  BY DEF OwnInv
<1> QED
  BY <1>1, <1>2, <1>3, PTL DEF Spec

-----------------------------------------------------------------------------
(* Tab stacks and the mounted page, without a Wayland host *)

\* TabStacks is inductive beside ownership: a tab goes with its workspace because
\* orphans are told by their owner, and its root is a pane of that owner.
TabInv == OwnInv /\ TabStacks

\* Opening a pane gives no map entry of an open pane another value.
LEMMA FreshPane ==
    ASSUME TabInv, CanAllocate
    PROVE  /\ next_id \in PaneId
           /\ next_id \notin panes
           /\ next_id \notin anchors
           /\ \A a \in PaneId : next_id \notin terminal_tabs[a]
           /\ \A a \in PaneId : active_tab[a] # next_id
<1>1. next_id \in PaneId /\ next_id \notin panes /\ next_id # None
  BY PaneIds DEF CanAllocate, TabInv, OwnInv, TypeInv, TreeOK
<1>2. next_id \notin anchors
  BY <1>1 DEF TabInv, OwnInv, WellOwned
<1>3. \A a \in PaneId : next_id \notin terminal_tabs[a] /\ active_tab[a] # next_id
  BY <1>1 DEF TabInv, TabStacks
<1> QED
  BY <1>1, <1>2, <1>3

\* Every anchor has a stack of tabs already, so that there is none to ensure.
LEMMA NothingToEnsure ==
    ASSUME TabInv, NEW a \in anchors
    PROVE  /\ EnsuredTabs(a) = terminal_tabs
           /\ EnsuredActive(a) = active_tab
           /\ EnsuredRoots(a) = tab_roots
<1>1. /\ terminal_tabs \in [PaneId -> SUBSET PaneId]
      /\ active_tab \in [PaneId -> MaybePane]
      /\ tab_roots \in [PaneId -> MaybePane]
      /\ a \in PaneId
  BY DEF TabInv, OwnInv, TypeInv, MapsOK, RestOK
<1>2. terminal_tabs[a] # {} /\ active_tab[a] # None /\ tab_roots[a] # None
  BY <1>1, PaneIds DEF TabInv, TabStacks
<1>3. \A x \in PaneId : EnsuredTabs(a)[x] = terminal_tabs[x]
  BY <1>2 DEF EnsuredTabs
<1>4. \A x \in PaneId : EnsuredActive(a)[x] = active_tab[x]
  BY <1>2 DEF EnsuredActive
<1>5. \A x \in PaneId : EnsuredRoots(a)[x] = tab_roots[x]
  BY <1>2 DEF EnsuredRoots
<1> QED
  BY <1>1, <1>3, <1>4, <1>5 DEF EnsuredTabs, EnsuredActive, EnsuredRoots

\* The tab maps may change at a fresh pane, which is in no stack.
LEMMA StacksKept ==
    ASSUME TabInv, NEW n, n \notin panes,
           panes \subseteq panes', anchors' = anchors, terminal_tabs' = terminal_tabs,
           \A a \in PaneId : active_tab'[a] = active_tab[a],
           \A p \in PaneId \ {n} : pane_workspace'[p] = pane_workspace[p],
           \A p \in PaneId \ {n} : tab_roots'[p] = tab_roots[p]
    PROVE  TabStacks'
<1>1. anchors \subseteq PaneId /\ panes \subseteq PaneId
  BY DEF TabInv, OwnInv, TypeInv, TreeOK, RestOK
<1>2. \A a \in anchors : \A r \in terminal_tabs[a] :
          r \in panes /\ r # n /\ pane_workspace[r] = a /\ tab_roots[r] = r
  BY DEF TabInv, TabStacks
<1> QED
  BY <1>1, <1>2 DEF TabInv, TabStacks

\* A fresh pane n becomes a tab root of the anchor a, and is shown or not.
LEMMA TabAdded ==
    ASSUME TabInv, NEW a \in anchors, NEW n \in PaneId, n \notin panes,
           panes' = panes \cup {n}, anchors' = anchors,
           terminal_tabs' = [terminal_tabs EXCEPT ![a] = @ \cup {n}],
           active_tab' \in {active_tab, [active_tab EXCEPT ![a] = n]},
           tab_roots' = [tab_roots EXCEPT ![n] = n],
           pane_workspace' = [pane_workspace EXCEPT ![n] = a]
    PROVE  TabStacks'
<1>1. /\ terminal_tabs \in [PaneId -> SUBSET PaneId]
      /\ active_tab \in [PaneId -> MaybePane]
      /\ tab_roots \in [PaneId -> MaybePane]
      /\ pane_workspace \in [PaneId -> MaybePane]
      /\ anchors \subseteq PaneId /\ panes \subseteq PaneId
  BY DEF TabInv, OwnInv, TypeInv, MapsOK, RestOK, TreeOK
<1>2. /\ \A b \in PaneId \ anchors : terminal_tabs[b] = {} /\ active_tab[b] = None
      /\ \A b \in anchors : {b, active_tab[b]} \subseteq terminal_tabs[b]
      /\ \A b \in anchors : \A r \in terminal_tabs[b] :
            r \in panes /\ r # n /\ pane_workspace[r] = b /\ tab_roots[r] = r
  BY DEF TabInv, TabStacks
<1>3. \A b \in PaneId \ anchors : terminal_tabs'[b] = {} /\ active_tab'[b] = None
  BY <1>1, <1>2
<1>4. \A b \in anchors : {b, active_tab'[b]} \subseteq terminal_tabs'[b]
  BY <1>1, <1>2
<1>5. ASSUME NEW b \in anchors, NEW r \in terminal_tabs'[b]
      PROVE  r \in panes' /\ pane_workspace'[r] = b /\ tab_roots'[r] = r
  <2>1. CASE r \in terminal_tabs[b]
    BY <1>1, <1>2, <2>1
  <2>2. CASE r = n /\ b = a
    BY <1>1, <2>2
  <2> QED
    BY <1>1, <2>1, <2>2
<1> QED
  BY <1>3, <1>4, <1>5 DEF TabStacks

LEMMA SplitTabs == ASSUME TabInv, SplitFocusedPane PROVE TabStacks'
<1> DEFINE n == next_id
<1>1. CanAllocate
  BY DEF SplitFocusedPane
<1>2. n \in PaneId /\ n \notin panes
  BY <1>1, FreshPane
<1>3. /\ terminal_tabs \in [PaneId -> SUBSET PaneId]
      /\ active_tab \in [PaneId -> MaybePane]
      /\ tab_roots \in [PaneId -> MaybePane]
      /\ pane_workspace \in [PaneId -> MaybePane]
  BY DEF TabInv, OwnInv, TypeInv, MapsOK
<1>4. CASE /\ focused \in leaves
           /\ OpenBehind(focused)
           /\ UNCHANGED <<anchors, terminal_tabs, active_tab>>
  BY <1>2, <1>3, <1>4, StacksKept DEF SplitFocusedPane, OpenBehind, RollBack
<1>5. CASE RollBack(pane_workspace[focused], terminal_tabs, active_tab, tab_roots)
  <2>1. /\ panes' = panes /\ anchors' = anchors
        /\ terminal_tabs' = TabsWithout(terminal_tabs, {n}, anchors)
        /\ active_tab' = ActiveWithout(terminal_tabs, active_tab, {n}, anchors)
        /\ tab_roots' = RootsWithout(tab_roots, {n})
        /\ \A p \in PaneId \ {n} : pane_workspace'[p] = pane_workspace[p]
    BY <1>3, <1>5 DEF RollBack, tree
  <2>2. ASSUME NEW a \in PaneId
        PROVE  TabsWithout(terminal_tabs, {n}, anchors)[a] = terminal_tabs[a]
    <3>1. n \notin terminal_tabs[a]
      BY <1>1, FreshPane
    <3>2. terminal_tabs[a] \ {n} = terminal_tabs[a]
      BY <3>1
    <3>3. a \notin anchors => terminal_tabs[a] = {}
      BY DEF TabInv, TabStacks
    <3> QED
      BY <3>2, <3>3 DEF TabsWithout
  <2>3. terminal_tabs' = terminal_tabs
    BY <1>3, <2>1, <2>2 DEF TabsWithout
  <2>4. \A a \in PaneId : active_tab'[a] = active_tab[a]
    BY <1>1, <2>1, <2>2, FreshPane DEF ActiveWithout, TabInv, TabStacks
  <2>5. \A p \in PaneId \ {n} : tab_roots'[p] = tab_roots[p]
    BY <2>1 DEF RootsWithout
  <2> QED
    BY <1>2, <2>1, <2>3, <2>4, <2>5, StacksKept
<1> QED
  BY <1>4, <1>5 DEF SplitFocusedPane

LEMMA CreateNewAnchorTabs == ASSUME TabInv, CreateNewAnchor PROVE TabStacks'
<1> DEFINE n == next_id
           T == TabsWithout(terminal_tabs, {n}, anchors)
           AT == ActiveWithout(terminal_tabs, active_tab, {n}, anchors)
           R == RootsWithout(tab_roots, {n})
<1>1. CASE SplitFocusedPane
  BY <1>1, SplitTabs
<1>2. CASE /\ CanAllocate
           /\ OpenBehind(focused)
           /\ anchors' = anchors \cup {n}
           /\ pane_workspace' = [pane_workspace EXCEPT ![n] = n]
           /\ Tag(n, T, AT, R)
  <2>1. /\ n \in PaneId /\ n \notin panes /\ n \notin anchors
        /\ \A a \in PaneId : n \notin terminal_tabs[a] /\ active_tab[a] # n
    BY <1>2, FreshPane
  <2>2. /\ T \in [PaneId -> SUBSET PaneId]
        /\ AT \in [PaneId -> MaybePane]
        /\ R \in [PaneId -> MaybePane]
        /\ pane_workspace \in [PaneId -> MaybePane]
        /\ panes \subseteq PaneId /\ anchors \subseteq PaneId
    BY TabMapTypes DEF TabInv, OwnInv, TypeInv, MapsOK, TreeOK, RestOK
  <2>3. \A a \in PaneId : T[a] = terminal_tabs[a]
    <3>1. \A a \in PaneId : terminal_tabs[a] \ {n} = terminal_tabs[a]
      BY <2>1
    <3> QED
      BY <3>1 DEF TabsWithout, TabInv, TabStacks
  <2>4. \A a \in PaneId : AT[a] = active_tab[a]
    <3>1. \A a \in anchors : terminal_tabs[a] # {}
      BY DEF TabInv, TabStacks
    <3> QED
      BY <2>1, <2>3, <3>1 DEF ActiveWithout, TabInv, TabStacks
  <2>5. \A p \in PaneId \ {n} : R[p] = tab_roots[p]
    BY DEF RootsWithout
  <2> HIDE DEF T, AT, R
  <2>6. /\ terminal_tabs' = [T EXCEPT ![n] = {n}]
        /\ active_tab' = [AT EXCEPT ![n] = n]
        /\ tab_roots' = [R EXCEPT ![n] = n]
        /\ panes' = panes \cup {n}
    BY <1>2 DEF Tag, OpenBehind
  <2>7. \A a \in PaneId \ {n} : /\ terminal_tabs'[a] = terminal_tabs[a]
                                /\ active_tab'[a] = active_tab[a]
    BY <2>1, <2>2, <2>3, <2>4, <2>6
  <2>8. /\ terminal_tabs'[n] = {n} /\ active_tab'[n] = n /\ tab_roots'[n] = n
        /\ pane_workspace'[n] = n
    BY <1>2, <2>1, <2>2, <2>6
  <2>9. \A p \in PaneId \ {n} : pane_workspace'[p] = pane_workspace[p] /\ tab_roots'[p] = tab_roots[p]
    BY <1>2, <2>1, <2>2, <2>5, <2>6
  <2>10. ASSUME NEW a \in anchors
         PROVE  /\ {a, active_tab'[a]} \subseteq terminal_tabs'[a]
                /\ \A r \in terminal_tabs'[a] :
                      r \in panes' /\ pane_workspace'[r] = a /\ tab_roots'[r] = r
    <3>1. a \in PaneId \ {n}
      BY <2>1, <2>2
    <3> QED
      BY <2>1, <2>2, <2>6, <2>7, <2>9, <3>1 DEF TabInv, TabStacks
  <2> QED
    BY <1>2, <2>1, <2>6, <2>7, <2>8, <2>10 DEF TabInv, TabStacks
<1> QED
  BY <1>1, <1>2 DEF CreateNewAnchor

\* Without a host every pane is a leaf: the new pane is never dropped again.
LEMMA CreateTerminalTabTabs ==
    ASSUME TabInv, NEW a \in PaneId, CreateTerminalTabForAnchor(a)
    PROVE  TabStacks'
<1> DEFINE n == next_id
<1>1. a \in anchors /\ CanAllocate /\ ActiveTab(a) \in leaves
  BY DEF CreateTerminalTabForAnchor, TabInv, OwnInv, LayoutIsPanes
<1>2. n \in PaneId /\ n \notin panes /\ n # a
  BY <1>1, FreshPane
<1>3. /\ OpenBehind(ActiveTab(a))
      /\ pane_workspace' = [pane_workspace EXCEPT ![n] = a]
      /\ terminal_tabs' = [EnsuredTabs(a) EXCEPT ![a] = @ \cup {n}]
      /\ active_tab' = [EnsuredActive(a) EXCEPT ![a] = n]
      /\ tab_roots' = [EnsuredRoots(a) EXCEPT ![n] = n]
      /\ anchors' = anchors
  BY <1>1 DEF CreateTerminalTabForAnchor
<1> QED
  BY <1>1, <1>2, <1>3, NothingToEnsure, TabAdded DEF OpenBehind

LEMMA CreatePaneFromBusTabs ==
    ASSUME TabInv, NEW target, NEW asTab \in BOOLEAN, NEW activate \in BOOLEAN,
           NEW sent \in BOOLEAN, CreatePaneFromBus(target, asTab, activate, sent)
    PROVE  TabStacks'
<1> DEFINE n == next_id
           owner == IF pane_workspace[target] # None THEN pane_workspace[target]
                    ELSE IF target \in anchors THEN target
                    ELSE None
<1>1. /\ CanAllocate /\ owner \in anchors /\ owner # None /\ target \in leaves
  BY PaneIds DEF CreatePaneFromBus, TabInv, OwnInv, LayoutIsPanes, WellOwned, TypeInv, RestOK
<1>2. n \in PaneId /\ n \notin panes
  BY <1>1, FreshPane
<1>3. /\ EnsuredTabs(owner) = terminal_tabs
      /\ EnsuredActive(owner) = active_tab
      /\ EnsuredRoots(owner) = tab_roots
  BY <1>1, NothingToEnsure
<1>4. /\ OpenBehind(target)
      /\ pane_workspace' = [pane_workspace EXCEPT ![n] = owner]
      /\ terminal_tabs' = IF asTab THEN [EnsuredTabs(owner) EXCEPT ![owner] = @ \cup {n}]
                                   ELSE EnsuredTabs(owner)
      /\ active_tab' = IF asTab /\ activate THEN [EnsuredActive(owner) EXCEPT ![owner] = n]
                                            ELSE EnsuredActive(owner)
      /\ \E root : tab_roots' = [EnsuredRoots(owner) EXCEPT ![n] = IF asTab THEN n ELSE root]
      /\ anchors' = anchors
  BY <1>1 DEF CreatePaneFromBus
<1>5. panes' = panes \cup {n}
  BY <1>4 DEF OpenBehind
<1> HIDE DEF owner, n
<1>6. CASE asTab
  BY <1>1, <1>2, <1>3, <1>4, <1>5, <1>6, TabAdded
<1>7. CASE ~asTab
  <2>1. /\ tab_roots \in [PaneId -> MaybePane]
        /\ pane_workspace \in [PaneId -> MaybePane]
    BY DEF TabInv, OwnInv, TypeInv, MapsOK
  <2> QED
    BY <1>2, <1>3, <1>4, <1>5, <1>7, <2>1, StacksKept
<1> QED
  BY <1>6, <1>7

\* What the workspace of the pane t loses when t is closed (gone = {t}) or only
\* untagged (gone = {}): nothing is disowned but t and what t owned as an anchor.
Loses(t, gone, W) ==
    /\ gone \in SUBSET {t}
    /\ t \in gone \cup anchors
    /\ W \in [PaneId -> MaybePane]
    /\ \A p \in PaneId \ gone :
          W[p] = IF t \in anchors /\ pane_workspace[p] = t THEN None ELSE pane_workspace[p]

\* With an anchor left, exactly the workspace of t goes.
LEMMA ReapWithAnchors ==
    ASSUME OwnInv, NEW t \in PaneId, NEW gone, NEW W, Loses(t, gone, W),
           NEW A, A = anchors \ {t}, A # {}, Reap(gone, A, W)
    PROVE  \E closed :
              /\ Drop(closed)
              /\ KeepAnchors(closed, A, W)
              /\ closed \cap A = {}
              /\ gone \subseteq closed
              /\ t \in closed
              /\ \A p \in (closed \cap panes) \ gone : t \in anchors /\ pane_workspace[p] = t
              /\ \A p \in panes \ closed : W[p] = pane_workspace[p]
<1>1. PICK closed \in ClosedSets(gone, A, W) : Drop(closed) /\ KeepAnchors(closed, A, W)
  BY DEF Reap
<1> DEFINE L == leaves \ gone
           orphans == Orphans(panes \ gone, A, W) \cap L
<1>2. /\ leaves = panes /\ satellites = {} /\ panes \subseteq PaneId
      /\ anchors \subseteq panes /\ None \notin anchors
      /\ \A a \in anchors : pane_workspace[a] = a
      /\ \A p \in panes : pane_workspace[p] \in anchors
  BY PaneIds DEF OwnInv, LayoutIsPanes, WellOwned, TypeInv, TreeOK, RestOK
<1>3. orphans = {p \in L \ A : W[p] \notin A}
  BY <1>2 DEF Orphans
<1>4. \A a \in A : a \in L /\ W[a] = a
  BY <1>2 DEF Loses
<1>5. orphans # L
  BY <1>3, <1>4
<1>6. closed = gone \cup orphans
  BY <1>1, <1>5 DEF ClosedSets
<1> HIDE DEF orphans
<1>7. ASSUME NEW p \in L
      PROVE  p \in orphans <=> t \in anchors /\ pane_workspace[p] = t
  <2>1. p \in PaneId \ gone /\ p \in panes
    BY <1>2
  <2>2. CASE t \in anchors /\ pane_workspace[p] = t
    BY <1>2, <1>3, <2>1, <2>2 DEF Loses
  <2>3. CASE ~(t \in anchors /\ pane_workspace[p] = t)
    <3>1. W[p] = pane_workspace[p]
      BY <2>1, <2>3 DEF Loses
    <3>2. pane_workspace[p] \in A
      BY <1>2, <2>1, <2>3
    <3> QED
      BY <1>3, <2>3, <3>1, <3>2
  <2> QED
    BY <2>2, <2>3
<1>8. closed \cap A = {}
  BY <1>3, <1>4, <1>6
<1>9. t \in closed
  <2>1. CASE t \in gone
    BY <1>6, <2>1
  <2>2. CASE t \in anchors /\ t \notin gone
    BY <1>2, <1>6, <1>7, <2>2
  <2> QED
    BY <2>1, <2>2 DEF Loses
<1>10. \A p \in (closed \cap panes) \ gone : t \in anchors /\ pane_workspace[p] = t
  BY <1>2, <1>6, <1>7
<1>11. \A p \in panes \ closed : W[p] = pane_workspace[p]
  BY <1>2, <1>6, <1>7 DEF Loses
<1> QED
  BY <1>1, <1>6, <1>8, <1>9, <1>10, <1>11

\* With none left, one pane stays and becomes the anchor.
LEMMA ReapWithoutAnchors ==
    ASSUME OwnInv, NEW t \in PaneId, NEW gone, NEW W, Loses(t, gone, W),
           leaves \ gone # {}, anchors \ {t} = {}, Reap(gone, {}, W)
    PROVE  /\ anchors = {t}
           /\ \A p \in panes : pane_workspace[p] = t
           /\ \E closed : \E kept \in panes \ (gone \cup closed) :
                 /\ panes' = {kept}
                 /\ Reseed(closed, {}, W, kept)
<1>1. PICK closed \in ClosedSets(gone, {}, W) :
        LET terminals == (leaves \ closed) \ satellites
        IN  /\ Drop(closed)
            /\ terminals # {} => Reseed(closed, {}, W, FirstLeaf(terminals, order))
  BY DEF Reap
<1> DEFINE L == leaves \ gone
           terminals == (leaves \ closed) \ satellites
<1>2. /\ leaves = panes /\ satellites = {} /\ anchors # {}
      /\ \A p \in panes : pane_workspace[p] \in anchors
  BY DEF OwnInv, LayoutIsPanes, WellOwned
<1>3. Orphans(panes \ gone, {}, W) \cap L = L
  BY <1>2 DEF Orphans
<1>4. PICK kept \in L : closed = gone \cup (L \ {kept})
  BY <1>3 DEF ClosedSets
<1>5. panes' = {kept} /\ terminals = {kept} /\ kept \notin closed
  BY <1>1, <1>2, <1>4 DEF Drop
<1>6. FirstLeaf(terminals, order) = kept
  BY <1>5 DEF FirstLeaf
<1>7. Reseed(closed, {}, W, kept)
  BY <1>1, <1>5, <1>6
<1> QED
  BY <1>2, <1>4, <1>5, <1>7

LEMMA CloseLoses == ASSUME OwnInv, NEW t \in PaneId PROVE Loses(t, {t}, OwnersAfterClose(t))
<1>1. OwnersAfterClose(t) \in [PaneId -> MaybePane]
  BY TabMapTypes DEF OwnersAfterClose, OwnInv, TypeInv, MapsOK
<1> QED
  BY <1>1 DEF Loses, OwnersAfterClose, Disowned

LEMMA UntagLoses ==
    ASSUME OwnInv, NEW t \in anchors
    PROVE  Loses(t, {}, Disowned(pane_workspace, {p \in PaneId : pane_workspace[p] = t}))
<1>1. Disowned(pane_workspace, {p \in PaneId : pane_workspace[p] = t}) \in [PaneId -> MaybePane]
  BY TabMapTypes DEF OwnInv, TypeInv, MapsOK
<1> QED
  BY <1>1 DEF Loses, Disowned

\* The tab stacks after a workspace, a tab or a pane is gone.
LEMMA ReapTabs ==
    ASSUME TabInv, NEW t \in PaneId, NEW gone, NEW W, Loses(t, gone, W),
           leaves \ gone # {}, Reap(gone, anchors \ {t}, W)
    PROVE  TabStacks'
<1> DEFINE A == anchors \ {t}
<1>1. /\ terminal_tabs \in [PaneId -> SUBSET PaneId]
      /\ anchors \subseteq PaneId /\ panes \subseteq PaneId
      /\ \A b \in anchors : {b, active_tab[b]} \subseteq terminal_tabs[b]
      /\ \A b \in anchors : \A r \in terminal_tabs[b] :
            r \in panes /\ pane_workspace[r] = b /\ tab_roots[r] = r
  BY DEF TabInv, OwnInv, TypeInv, MapsOK, RestOK, TreeOK, TabStacks
<1>2. CASE A # {}
  <2>1. PICK closed :
              /\ Drop(closed)
              /\ KeepAnchors(closed, A, W)
              /\ closed \cap A = {}
              /\ t \in closed
              /\ \A p \in panes \ closed : W[p] = pane_workspace[p]
    BY <1>2, ReapWithAnchors DEF TabInv
  <2> DEFINE T == TabsWithout(terminal_tabs, closed, A)
  <2>2. /\ anchors' = A /\ panes' = panes \ closed
        /\ pane_workspace' = Disowned(W, closed)
        /\ terminal_tabs' = T
        /\ active_tab' = ActiveWithout(terminal_tabs, active_tab, closed, A)
        /\ tab_roots' = RootsWithout(tab_roots, closed)
    BY <2>1 DEF KeepAnchors, TabsLeft, ActiveLeft, Drop
  <2>3. \A a \in PaneId : T[a] = IF a \in A THEN terminal_tabs[a] \ closed ELSE {}
    BY DEF TabsWithout
  <2> HIDE DEF T
  <2>4. ASSUME NEW a \in A
        PROVE  /\ a \in PaneId /\ a \in anchors /\ a \notin closed
               /\ T[a] = terminal_tabs[a] \ closed
               /\ a \in T[a] /\ T[a] \in SUBSET PaneId
    <3>1. a \in PaneId /\ a \in anchors /\ a \notin closed
      BY <1>1, <2>1
    <3>2. T[a] = terminal_tabs[a] \ closed
      BY <2>3, <3>1
    <3>3. a \in terminal_tabs[a] /\ terminal_tabs[a] \in SUBSET PaneId
      BY <1>1, <3>1
    <3> QED
      BY <3>1, <3>2, <3>3
  <2>5. \A a \in PaneId \ A : terminal_tabs'[a] = {} /\ active_tab'[a] = None
    BY <2>2, <2>3 DEF ActiveWithout, T
  <2>6. ASSUME NEW a \in A PROVE active_tab'[a] \in T[a]
    <3>1. a \in PaneId /\ active_tab[a] \in terminal_tabs[a] /\ T[a] # {}
      BY <1>1, <2>4
    <3>2. active_tab'[a] = IF active_tab[a] \in closed THEN Least(T[a]) ELSE active_tab[a]
      BY <2>2, <3>1 DEF ActiveWithout, T
    <3>3. Least(T[a]) \in T[a]
      BY <2>4, <3>1, LeastIn
    <3> QED
      BY <2>3, <3>1, <3>2, <3>3
  <2>7. ASSUME NEW a \in A, NEW r \in T[a]
        PROVE  r \in panes' /\ pane_workspace'[r] = a /\ tab_roots'[r] = r
    <3>1. r \in panes \ closed /\ r \in PaneId /\ pane_workspace[r] = a /\ tab_roots[r] = r
      BY <1>1, <2>4
    <3> QED
      BY <2>1, <2>2, <3>1 DEF Disowned, RootsWithout
  <2>8. \A a \in A : {a, active_tab'[a]} \subseteq T[a]
    BY <2>4, <2>6
  <2> HIDE DEF A
  <2> QED
    BY <2>2, <2>5, <2>7, <2>8 DEF TabStacks
<1>3. CASE A = {}
  <2>a. PICK closed : \E kept \in panes \ (gone \cup closed) :
              /\ panes' = {kept}
              /\ Reseed(closed, {}, W, kept)
    <3>1. OwnInv /\ Reap(gone, {}, W)
      BY <1>3 DEF TabInv
    <3> QED
      BY <1>3, <3>1, ReapWithoutAnchors
  <2>2. PICK kept \in panes \ (gone \cup closed) :
              /\ panes' = {kept}
              /\ Reseed(closed, {}, W, kept)
    BY <2>a
  <2> DEFINE T == TabsLeft(closed, {})
             AT == ActiveLeft(closed, {})
  <2>3. kept \in PaneId
    BY <1>1
  <2>4. \A a \in PaneId : TabsWithout(T, {kept}, {})[a] = {}
    BY DEF TabsWithout
  <2>5. \A a \in PaneId : ActiveWithout(T, AT, {kept}, {})[a] = None
    BY <2>4 DEF ActiveWithout
  <2>6. /\ anchors' = {kept}
        /\ \A a \in PaneId : /\ terminal_tabs'[a] = IF a = kept THEN {kept} ELSE {}
                             /\ active_tab'[a] = IF a = kept THEN kept ELSE None
        /\ pane_workspace'[kept] = kept
        /\ tab_roots'[kept] = kept
    <3>1. /\ TabsWithout(T, {kept}, {}) = [a \in PaneId |-> {}]
          /\ ActiveWithout(T, AT, {kept}, {}) = [a \in PaneId |-> None]
      BY <2>4, <2>5 DEF TabsWithout, ActiveWithout
    <3>2. /\ terminal_tabs' = [[a \in PaneId |-> {}] EXCEPT ![kept] = {kept}]
          /\ active_tab' = [[a \in PaneId |-> None] EXCEPT ![kept] = kept]
      BY <2>2, <3>1 DEF Reseed
    <3> QED
      BY <2>2, <2>3, <3>2 DEF Reseed, Disowned, RootsWithout
  <2> QED
    BY <2>2, <2>3, <2>6 DEF TabStacks
<1> QED
  BY <1>2, <1>3

\* The pane t is closed with gone = {t}, or untagged with gone = {}.
Loss(t, gone) ==
    \E W : Loses(t, gone, W) /\ leaves \ gone # {} /\ Reap(gone, anchors \ {t}, W)

LEMMA CloseLoss ==
    ASSUME OwnInv, NEW t \in PaneId, leaves # {t}, t \in leaves,
           Reap({t}, anchors \ {t}, OwnersAfterClose(t))
    PROVE  Loss(t, {t})
BY CloseLoses DEF Loss

LEMMA UntagLoss == ASSUME OwnInv, NEW t, RemoveAnchor(t) PROVE t \in PaneId /\ Loss(t, {})
<1> DEFINE W == Disowned(pane_workspace, {p \in PaneId : pane_workspace[p] = t})
<1>1. t \in PaneId /\ Loses(t, {}, W)
  BY UntagLoses DEF RemoveAnchor, OwnInv, TypeInv, RestOK
<1>2. Reap({}, anchors \ {t}, W) /\ leaves \ {} # {}
  BY DEF RemoveAnchor, OwnInv, TypeInv, TreeOK, TreeOrder
<1> HIDE DEF W
<1> QED
  BY <1>1, <1>2 DEF Loss

LEMMA TabInvNext == ASSUME Surfaces = {}, TabInv, [Next]_vars PROVE TabInv'
<1>a. SUFFICES TabStacks'
  <2>1. OwnInv'
    BY OwnInvNext DEF TabInv
  <2> QED
    BY <2>1 DEF TabInv
<1>0. OwnInv /\ anchors \subseteq PaneId /\ focused \in PaneId /\ active_anchor \in PaneId
  BY DEF TabInv, OwnInv, WellOwned, TypeInv, RestOK
<1>b. ASSUME UNCHANGED <<panes, anchors, pane_workspace, tabs>> PROVE TabStacks'
  BY <1>b DEF TabInv, TabStacks, tabs
<1>c. ASSUME NEW t \in PaneId, NEW gone, Loss(t, gone) PROVE TabStacks'
  BY <1>c, ReapTabs DEF Loss
<1>1. CASE SplitFocused
  BY <1>1, SplitTabs DEF SplitFocused
<1>2. CASE CreateNewAnchor
  BY <1>2, CreateNewAnchorTabs
<1>3. CASE NewTabButton
  BY <1>0, <1>3, CreateTerminalTabTabs DEF NewTabButton
<1>4. CASE CreateTerminalTabForFocused
  <2> DEFINE a == AnchorForNewTab(focused)
  <2>1. CreateTerminalTabForAnchor(a)
    BY <1>4 DEF CreateTerminalTabForFocused
  <2> HIDE DEF a
  <2> QED
    BY <1>0, <2>1, CreateTerminalTabTabs DEF CreateTerminalTabForAnchor
<1>5. CASE PaneNew
  BY <1>5, CreatePaneFromBusTabs DEF PaneNew
<1>6. CASE CloseFocused
  BY <1>0, <1>6, <1>c, CloseLoss DEF CloseFocused
<1>7. CASE CycleActiveAnchor
  <2>1. ASSUME NEW a, SetActiveAnchor(a) PROVE TabStacks'
    BY <1>b, <2>1 DEF SetActiveAnchor, tree
  <2> QED
    BY <1>0, <1>7, <2>1, NothingToTag DEF CycleActiveAnchor
<1>8. ASSUME NEW p \in PaneId, ChildExits(p) PROVE TabStacks'
  BY <1>8, <1>b DEF ChildExits
<1>9. ASSUME NEW p \in PaneId, CloseExitedPane(p) PROVE TabStacks'
  <2>1. CASE UNCHANGED <<tree, focused, anchors, pane_workspace, tabs, active_anchor>>
    BY <1>b, <2>1 DEF tree
  <2>2. CASE Closable(p) /\ Reap({p}, anchors \ {p}, OwnersAfterClose(p))
    BY <1>0, <1>c, <2>2, CloseLoss DEF Closable
  <2> QED
    BY <1>9, <2>1, <2>2 DEF CloseExitedPane
<1>10. ASSUME NEW p \in PaneId, AddAnchor(p) PROVE TabStacks'
  BY <1>0, <1>10, NothingToTag
<1>11. ASSUME NEW p \in PaneId, RemoveAnchor(p) PROVE TabStacks'
  BY <1>0, <1>11, <1>c, UntagLoss
<1>12. ASSUME NEW p \in PaneId, SetActiveAnchor(p) PROVE TabStacks'
  BY <1>12, <1>b DEF SetActiveAnchor, tree
<1>13. ASSUME NEW p \in PaneId, SetFocused(p) PROVE TabStacks'
  BY <1>13, <1>b DEF SetFocused, FocusMoves, tree
<1>14. ASSUME NEW p \in PaneId, NEW r \in PaneId, ActivateTerminalTab(p, r) PROVE TabStacks'
  <2>1. /\ UNCHANGED <<panes, anchors, pane_workspace, terminal_tabs, tab_roots>>
        /\ active_tab \in [PaneId -> MaybePane]
        /\ active_tab' = [active_tab EXCEPT ![p] = r]
        /\ p \in anchors /\ r \in terminal_tabs[p]
    BY <1>14 DEF ActivateTerminalTab, tree, TabInv, OwnInv, WellOwned, TypeInv, MapsOK
  <2> QED
    BY <2>1 DEF TabInv, TabStacks
<1>15. ASSUME NEW p \in PaneId, NEW q \in PaneId, NEW behind \in BOOLEAN,
              ReparentPane(p, q, behind)
       PROVE  TabStacks'
  BY <1>15, <1>b DEF ReparentPane
<1>16. ASSUME NEW forward \in BOOLEAN, CycleFocus(forward) PROVE TabStacks'
  BY <1>16, <1>b DEF CycleFocus, FocusMoves, tree
<1>17. CASE UNCHANGED vars
  BY <1>17, <1>b DEF vars, tree
<1> QED
  BY <1>1, <1>2, <1>3, <1>4, <1>5, <1>6, <1>7, <1>8, <1>9, <1>10, <1>11, <1>12, <1>13,
     <1>14, <1>15, <1>16, <1>17 DEF Next

LEMMA TabInvInit == Init => TabInv
<1> SUFFICES ASSUME Init PROVE TabInv
  OBVIOUS
<1>1. 1 \in PaneId
  BY WorkspaceAssumption DEF PaneId
<1> QED
  BY <1>1, OwnInvInit DEF Init, TabInv, TabStacks

LEMMA TabInvariant == ASSUME Surfaces = {} PROVE Spec => []TabInv
<1>1. TabInv /\ [Next]_vars => TabInv'
  BY TabInvNext
<1> QED
  BY <1>1, TabInvInit, PTL DEF Spec

\* state.rs, terminal_tabs_by_anchor beside pane_workspace: without a Wayland host
\* an anchor's tab stack starts with itself, holds live roots of its own workspace
\* only and contains the tab on show.
THEOREM TabsCorrect == ASSUME Surfaces = {} PROVE Spec => []TabStacks
<1>1. TabInv => TabStacks
  BY DEF TabInv
<1> QED
  BY <1>1, TabInvariant, PTL

\* state.rs, prune_to_workspace: without a Wayland host the page of the active
\* anchor shows some pane, the root of the tab on show at least.
THEOREM PageCorrect == ASSUME Surfaces = {} PROVE Spec => []NeverBlank
<1>1. ASSUME TabInv PROVE NeverBlank
  <2> DEFINE r == active_tab[active_anchor]
  <2>1. /\ active_anchor \in anchors /\ active_anchor # None
        /\ leaves = panes /\ None \notin panes
    BY <1>1, PaneIds DEF TabInv, OwnInv, LayoutIsPanes, WellOwned, TypeInv, RestOK, TreeOK
  <2>2. r \in panes /\ pane_workspace[r] = active_anchor /\ tab_roots[r] = r
    BY <1>1, <2>1 DEF TabInv, TabStacks
  <2> QED
    BY <2>1, <2>2 DEF NeverBlank, Visible, ActiveTab, TabRootOf
<1> QED
  BY <1>1, TabInvariant, PTL

-----------------------------------------------------------------------------
(* What a step may take away, without a Wayland host *)

\* A pane or an anchor goes in three ways only: its pane is the one in focus that
\* is closed, or one whose child has exited, or it is untagged.
LEMMA LossOrNone ==
    ASSUME Surfaces = {}, TabInv, [Next]_vars
    PROVE  \/ panes \subseteq panes' /\ anchors \subseteq anchors'
           \/ \E t \in PaneId : t \in exit_queue \cup {focused} /\ Loss(t, {t})
           \/ \E t \in PaneId : RemoveAnchor(t) /\ Loss(t, {})
<1> DEFINE Kept == panes \subseteq panes' /\ anchors \subseteq anchors'
<1>0. OwnInv /\ anchors \subseteq PaneId /\ focused \in PaneId
  BY DEF TabInv, OwnInv, WellOwned, TypeInv, RestOK
<1>1. ASSUME SplitFocusedPane PROVE Kept
  BY <1>1 DEF SplitFocusedPane, OpenBehind, RollBack, tree
<1>2. ASSUME CreateNewAnchor PROVE Kept
  BY <1>1, <1>2 DEF CreateNewAnchor, OpenBehind
<1>3. ASSUME NEW a, CreateTerminalTabForAnchor(a) PROVE Kept
  BY <1>3 DEF CreateTerminalTabForAnchor, OpenBehind, RollBack, tree
<1>4. ASSUME PaneNew PROVE Kept
  BY <1>4 DEF PaneNew, CreatePaneFromBus, OpenBehind, RollBack, tree
<1>5. ASSUME NEW a, SetActiveAnchor(a) PROVE Kept
  BY <1>5 DEF SetActiveAnchor, tree
<1>6. ASSUME CycleActiveAnchor PROVE Kept
  BY <1>0, <1>5, <1>6, NothingToTag DEF CycleActiveAnchor
<1>7. ASSUME NEW p, FocusMoves(p) PROVE Kept
  BY <1>7 DEF FocusMoves, tree
<1>8. CASE CloseFocused
  <2>1. Loss(focused, {focused})
    BY <1>0, <1>8, CloseLoss DEF CloseFocused
  <2> QED
    BY <1>0, <2>1
<1>9. ASSUME NEW p \in PaneId, CloseExitedPane(p)
      PROVE  Kept \/ (p \in exit_queue /\ Loss(p, {p}))
  <2>1. CASE UNCHANGED <<tree, focused, anchors, pane_workspace, tabs, active_anchor>>
    <3>1. panes' = panes /\ anchors' = anchors
      BY <2>1 DEF tree
    <3> QED
      BY <3>1
  <2>2. CASE Closable(p) /\ Reap({p}, anchors \ {p}, OwnersAfterClose(p))
    BY <1>0, <1>9, <2>2, CloseLoss DEF Closable, CloseExitedPane
  <2> QED
    BY <1>9, <2>1, <2>2 DEF CloseExitedPane
<1>10. ASSUME NEW p \in PaneId, RemoveAnchor(p) PROVE RemoveAnchor(p) /\ Loss(p, {})
  BY <1>0, <1>10, UntagLoss
<1>11. ASSUME NEW p \in PaneId,
              \/ ChildExits(p) \/ SetActiveAnchor(p)
              \/ SetFocused(p) \/ AddAnchor(p)
              \/ \E r \in PaneId : ActivateTerminalTab(p, r)
              \/ \E q \in PaneId, behind \in BOOLEAN : ReparentPane(p, q, behind)
       PROVE  Kept
  BY <1>0, <1>5, <1>7, <1>11, NothingToTag
     DEF ChildExits, SetFocused, ActivateTerminalTab, ReparentPane, tree
<1>12. CASE UNCHANGED vars
  BY <1>12 DEF vars, tree
<1> QED
  BY <1>1, <1>2, <1>3, <1>4, <1>6, <1>7, <1>8, <1>9, <1>10, <1>11, <1>12
     DEF Next, SplitFocused, NewTabButton, CreateTerminalTabForFocused, CycleFocus

\* A loss takes the workspace of t along, if t is an anchor, and nothing else but
\* t itself; the view and the tabs shown elsewhere stay.
LEMMA LossIsBounded ==
    ASSUME TabInv, NEW t \in PaneId, NEW gone, Loss(t, gone)
    PROVE  /\ t \notin anchors' \/ (t \in panes' /\ anchors' = {t} /\ anchors = {t})
           /\ \A p \in panes \ panes' : p \in gone \/ (t \in anchors /\ pane_workspace[p] = t)
           /\ active_anchor \in anchors' => active_anchor' = active_anchor
           /\ \A a \in anchors \cap anchors' :
                 \/ anchors = {t} /\ anchors' = {t}
                 \/ active_tab'[a] = active_tab[a]
                 \/ active_tab[a] \notin panes'
<1> DEFINE A == anchors \ {t}
<1>1. PICK W : Loses(t, gone, W) /\ leaves \ gone # {} /\ Reap(gone, A, W)
  BY DEF Loss
<1>2. CASE A # {}
  <2>1. PICK closed :
              /\ Drop(closed)
              /\ KeepAnchors(closed, A, W)
              /\ closed \cap A = {}
              /\ t \in closed
              /\ \A p \in (closed \cap panes) \ gone : t \in anchors /\ pane_workspace[p] = t
    BY <1>1, <1>2, ReapWithAnchors DEF TabInv
  <2>2. /\ anchors' = A /\ panes' = panes \ closed
        /\ active_anchor' = Promoted(A)
        /\ active_tab' = ActiveWithout(terminal_tabs, active_tab, closed, A)
    BY <2>1 DEF KeepAnchors, ActiveLeft, Drop
  <2>3. \A p \in panes \ panes' : p \in gone \/ (t \in anchors /\ pane_workspace[p] = t)
    BY <2>1, <2>2
  <2>4. active_anchor \in anchors' => active_anchor' = active_anchor
    BY <2>2 DEF Promoted
  <2>5. ASSUME NEW a \in A PROVE active_tab'[a] = active_tab[a] \/ active_tab[a] \notin panes'
    <3>1. a \in PaneId /\ a \in anchors /\ a \in terminal_tabs[a] /\ a \notin closed
      BY <2>1 DEF TabInv, TabStacks, OwnInv, TypeInv, RestOK
    <3>2. TabsWithout(terminal_tabs, closed, A)[a] # {}
      BY <3>1 DEF TabsWithout
    <3> QED
      BY <2>2, <3>1, <3>2 DEF ActiveWithout
  <2>6. t \notin anchors'
    BY <2>2
  <2>7. \A a \in anchors \cap anchors' : active_tab'[a] = active_tab[a] \/ active_tab[a] \notin panes'
    BY <2>2, <2>5
  <2> QED
    BY <2>3, <2>4, <2>6, <2>7
<1>3. CASE A = {}
  <2>1. /\ anchors = {t}
        /\ \A p \in panes : pane_workspace[p] = t
        /\ \E closed : \E kept \in panes \ (gone \cup closed) :
              /\ panes' = {kept}
              /\ Reseed(closed, {}, W, kept)
    BY <1>1, <1>3, ReapWithoutAnchors DEF TabInv
  <2>a. PICK closed : \E kept \in panes \ (gone \cup closed) :
              /\ panes' = {kept}
              /\ Reseed(closed, {}, W, kept)
    BY <2>1
  <2>2. PICK kept \in panes \ (gone \cup closed) : panes' = {kept} /\ Reseed(closed, {}, W, kept)
    BY <2>a
  <2>3. anchors' = {kept} /\ active_anchor' = kept
    BY <2>2 DEF Reseed
  <2>4. active_anchor = t
    BY <2>1 DEF TabInv, OwnInv, WellOwned
  <2>5. t \notin anchors' \/ (t \in panes' /\ anchors' = {t} /\ anchors = {t})
    BY <2>1, <2>2, <2>3
  <2>6. \A p \in panes \ panes' : t \in anchors /\ pane_workspace[p] = t
    BY <2>1
  <2>7. active_anchor \in anchors' => active_anchor' = active_anchor
    BY <2>3, <2>4
  <2>8. \A a \in anchors \cap anchors' : anchors = {t} /\ anchors' = {t}
    BY <2>1, <2>3
  <2> QED
    BY <2>1, <2>5, <2>6, <2>7, <2>8
<1> QED
  BY <1>2, <1>3

\* close_focused, close_exited_pane, remove_anchor: without a Wayland host losing
\* one workspace moves neither the view nor the tab shown in another one.
THEOREM ViewCorrect == ASSUME Surfaces = {} PROVE Spec => StableView
<1>1. TabInv /\ [Next]_vars
        => [anchors \ anchors' # {}
              => /\ active_anchor \in anchors' => active_anchor' = active_anchor
                 /\ \A a \in anchors \cap anchors' :
                       active_tab'[a] = active_tab[a] \/ active_tab[a] \notin panes']_vars
  BY LossOrNone, LossIsBounded
<1> QED
  BY <1>1, TabInvariant, PTL DEF Spec, StableView

\* close_orphan_terminal_panes: without a Wayland host no pane of a workspace that
\* is left goes unless it is closed itself.
THEOREM NeighboursCorrect == ASSUME Surfaces = {} PROVE Spec => NeighboursSurvive
<1>1. ASSUME TabInv, [Next]_vars, NEW p \in panes \ panes',
             pane_workspace[p] \in anchors' \ {p}, ~RemoveAnchor(pane_workspace[p])
      PROVE  p \in exit_queue \cup {focused}
  <2>1. CASE panes \subseteq panes'
    BY <1>1, <2>1
  <2>2. ASSUME NEW t \in PaneId, t \in exit_queue \cup {focused}, Loss(t, {t})
        PROVE  p = t
    <3>1. CASE t \in anchors /\ pane_workspace[p] = t
      <4>1. t \in panes' /\ anchors = {t}
        BY <1>1, <2>2, <3>1, LossIsBounded
      <4>2. t \notin panes'
        <5>1. PICK W : Loses(t, {t}, W) /\ leaves \ {t} # {} /\ Reap({t}, {}, W)
          BY <2>2, <4>1 DEF Loss
        <5> QED
          BY <1>1, <4>1, <5>1, ReapWithoutAnchors DEF TabInv
      <4> QED
        BY <4>1, <4>2
    <3> QED
      BY <1>1, <2>2, <3>1, LossIsBounded
  <2>3. ASSUME NEW t \in PaneId, RemoveAnchor(t), Loss(t, {}) PROVE FALSE
    BY <1>1, <2>3, LossIsBounded
  <2> QED
    BY <1>1, <2>1, <2>2, <2>3, LossOrNone
<1>2. TabInv /\ [Next]_vars
        => [\A p \in panes \ panes' :
               pane_workspace[p] \in anchors' \ {p} /\ ~RemoveAnchor(pane_workspace[p])
                 => p \in exit_queue \cup {focused} \cup {surface_to_pane[s] : s \in Surfaces}]_vars
  BY <1>1
<1> QED
  BY <1>2, TabInvariant, PTL DEF Spec, NeighboursSurvive

-----------------------------------------------------------------------------
(* Embedded windows, with a Wayland host *)

SurfaceInv == TypeInv /\ SurfacesShown

\* Steps that take no satellite away and leave the record of surfaces alone
LEMMA SurfacesKept ==
    ASSUME SurfaceInv, satellites \subseteq satellites', surface_to_pane' = surface_to_pane
    PROVE  SurfacesShown'
BY DEF SurfaceInv, SurfacesShown

\* What is reaped along with a terminal is a terminal.
LEMMA ReapedAreTerminals ==
    ASSUME NEW gone, gone \cap satellites = {}, NEW A, NEW W,
           NEW closed \in ClosedSets(gone, A, W), Drop(closed)
    PROVE  satellites' = satellites
<1>1. closed \subseteq gone \cup Orphans(panes \ gone, A, W)
  BY DEF ClosedSets
<1>2. closed \cap satellites = {}
  BY <1>1 DEF Orphans
<1> QED
  BY <1>2 DEF Drop

LEMMA ReapKeepsSatellites ==
    ASSUME NEW gone, gone \cap satellites = {}, NEW A, NEW W, Reap(gone, A, W)
    PROVE  satellites' = satellites
<1>1. PICK closed \in ClosedSets(gone, A, W) : Drop(closed)
  BY DEF Reap
<1> QED
  BY <1>1, ReapedAreTerminals

LEMMA ToplevelCreatedSurfaces ==
    ASSUME SurfaceInv, NEW s \in Surfaces, OnToplevelCreated(s)
    PROVE  SurfacesShown'
<1> DEFINE n == next_id
<1>1. CASE UNCHANGED <<tree, pane_workspace, surface_to_pane>>
  BY <1>1, SurfacesKept DEF tree
<1>2. CASE /\ satellites' = satellites \cup {n}
           /\ surface_to_pane' = [surface_to_pane EXCEPT ![s] = n]
  <2>1. n \notin satellites
    BY DEF SurfaceInv, TypeInv, TreeOK
  <2>2. surface_to_pane \in [Surfaces -> MaybePane]
    BY DEF SurfaceInv, TypeInv, RestOK
  <2>3. \A r \in Surfaces : surface_to_pane[r] # None => surface_to_pane[r] # n
    BY <2>1 DEF SurfaceInv, SurfacesShown
  <2>4. n # None
    BY PaneIds DEF OnToplevelCreated, CanAllocate
  <2> QED
    BY <1>2, <2>2, <2>3, <2>4 DEF SurfaceInv, SurfacesShown
<1> QED
  BY <1>1, <1>2 DEF OnToplevelCreated

LEMMA ToplevelClosedSurfaces ==
    ASSUME SurfaceInv, NEW s \in Surfaces, OnToplevelClosed(s)
    PROVE  SurfacesShown'
<1> DEFINE p == surface_to_pane[s]
<1>1. p # None /\ surface_to_pane' = [surface_to_pane EXCEPT ![s] = None]
  BY DEF OnToplevelClosed
<1>2. surface_to_pane \in [Surfaces -> MaybePane]
  BY DEF SurfaceInv, TypeInv, RestOK
<1>3. satellites \ {p} \subseteq satellites'
  BY DEF OnToplevelClosed, Drop, tree
<1>4. \A r \in Surfaces \ {s} : surface_to_pane[r] # p
  BY <1>1 DEF SurfaceInv, SurfacesShown
<1> QED
  BY <1>1, <1>2, <1>3, <1>4 DEF SurfaceInv, SurfacesShown

LEMMA SurfaceInvNext == ASSUME SurfaceInv, [Next]_vars PROVE SurfaceInv'
<1> DEFINE Kept == satellites \subseteq satellites' /\ surface_to_pane' = surface_to_pane
<1>1. ASSUME SplitFocusedPane PROVE Kept
  BY <1>1 DEF SplitFocusedPane, OpenBehind, RollBack, tree
<1>2. ASSUME CreateNewAnchor PROVE Kept
  BY <1>1, <1>2 DEF CreateNewAnchor, OpenBehind
<1>3. ASSUME NEW a, CreateTerminalTabForAnchor(a) PROVE Kept
  BY <1>3 DEF CreateTerminalTabForAnchor, OpenBehind, RollBack, tree
<1>4. ASSUME PaneNew PROVE Kept
  BY <1>4 DEF PaneNew, CreatePaneFromBus, OpenBehind, RollBack, tree
<1>5. ASSUME NEW a, SetActiveAnchor(a) PROVE Kept
  BY <1>5 DEF SetActiveAnchor, tree
<1>6. ASSUME NEW a, AddAnchor(a) PROVE Kept
  <2>1. PICK closed \in ClosedSets({}, anchors \cup {a}, [pane_workspace EXCEPT ![a] = a]) : Drop(closed)
    BY <1>6 DEF AddAnchor
  <2>2. satellites' = satellites
    BY <2>1, ReapedAreTerminals
  <2> QED
    BY <1>6, <2>2 DEF AddAnchor
<1>7. ASSUME CycleActiveAnchor PROVE Kept
  BY <1>5, <1>6, <1>7 DEF CycleActiveAnchor
<1>8. ASSUME NEW p, FocusMoves(p) PROVE Kept
  BY <1>8 DEF FocusMoves, tree
<1>9. ASSUME CloseFocused PROVE Kept
  BY <1>9, ReapKeepsSatellites DEF CloseFocused, ShortcutsReach
<1>10. ASSUME NEW p, CloseExitedPane(p) PROVE Kept
  <2>1. CASE UNCHANGED <<tree, focused, anchors, pane_workspace, tabs, active_anchor>>
    BY <1>10, <2>1 DEF tree, CloseExitedPane
  <2>2. CASE Closable(p) /\ Reap({p}, anchors \ {p}, OwnersAfterClose(p))
    <3>1. {p} \cap satellites = {}
      BY <2>2 DEF Closable, SurfaceInv, TypeInv, TreeOK
    <3> QED
      BY <1>10, <2>2, <3>1, ReapKeepsSatellites DEF CloseExitedPane
  <2> QED
    BY <1>10, <2>1, <2>2 DEF CloseExitedPane
<1>11. ASSUME NEW p, RemoveAnchor(p) PROVE Kept
  BY <1>11, ReapKeepsSatellites DEF RemoveAnchor
<1>12. ASSUME NEW p, \/ ChildExits(p) \/ SetFocused(p)
                     \/ \E r \in PaneId : ActivateTerminalTab(p, r)
                     \/ \E q \in PaneId, behind \in BOOLEAN : ReparentPane(p, q, behind)
       PROVE  Kept
  BY <1>8, <1>12 DEF ChildExits, SetFocused, ActivateTerminalTab, ReparentPane, tree
<1>13. CASE UNCHANGED vars
  BY <1>13, SurfacesKept, TypeInvNext DEF vars, tree, SurfaceInv
<1>14. CASE \E s \in Surfaces : OnToplevelCreated(s) \/ OnToplevelClosed(s)
  BY <1>14, TypeInvNext, ToplevelCreatedSurfaces, ToplevelClosedSurfaces DEF SurfaceInv
<1>15. CASE Kept
  BY <1>15, TypeInvNext, SurfacesKept DEF SurfaceInv
<1> HIDE DEF Kept
<1> QED
  BY <1>1, <1>2, <1>3, <1>4, <1>5, <1>6, <1>7, <1>8, <1>9, <1>10, <1>11, <1>12, <1>13,
     <1>14, <1>15
     DEF Next, SplitFocused, NewTabButton, CreateTerminalTabForFocused, CycleFocus

\* on_toplevel_created, on_toplevel_closed, for every set of surfaces: a mapped
\* surface has a satellite of its own, whatever users, agents and children do.
THEOREM SurfacesCorrect == Spec => []SurfacesShown
<1>1. Init => SurfaceInv
  BY TypeInvInit DEF Init, SurfaceInv, SurfacesShown
<1>2. SurfaceInv /\ [Next]_vars => SurfaceInv'
  BY SurfaceInvNext
<1>3. SurfaceInv => SurfacesShown
  BY DEF SurfaceInv
<1> QED
  BY <1>1, <1>2, <1>3, PTL DEF Spec

=============================================================================
