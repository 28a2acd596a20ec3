----------------------------- MODULE Workspace -----------------------------
(***************************************************************************)
(* The workspace core of the lmux cockpit: AppState in                     *)
(* crates/lmux/src/state.rs.  Every operation below runs to completion on  *)
(* the GTK main thread, so one operation is one action; the interleaving   *)
(* is that of key presses, pointer events, bus requests, child exits and   *)
(* events of the nested Wayland host.                                      *)
(*                                                                         *)
(* The split tree is kept as its set of leaves and the strict in-order     *)
(* traversal order of those leaves: replace_leaf, remove_leaf and reparent *)
(* act on that order, and no property here needs directions or ratios.     *)
(*                                                                         *)
(* Maps from pane ids (HashMap, BTreeMap) are total functions with None    *)
(* (or {}) where the map has no entry.  A tab stack (a Vec) is a set: tab   *)
(* roots are appended with ever larger pane ids, so that its first element *)
(* is its least.                                                           *)
(***************************************************************************)
EXTENDS Naturals

CONSTANTS
    MaxPane,    \* bound on the pane ids a run hands out (u32 in the code)
    Surfaces    \* toplevel surfaces of the nested Wayland host; {} when
                \* there is no host (macOS, or it failed to start)

ASSUME WorkspaceAssumption == MaxPane \in Nat \ {0}

PaneId == 1..MaxPane
None == 0
MaybePane == 0..MaxPane

VARIABLES
    panes,            \* the live panes
    satellites,       \* those that show a Wayland toplevel, not a terminal
    exited,           \* terminals whose child has exited
    exit_queue,       \* idle callbacks queued to close an exited pane
    leaves, order,    \* the split tree: its leaves and their in-order order
    focused,
    next_id,
    anchors,          \* panes tagged as workspace roots
    pane_workspace,   \* pane -> the anchor that owns it
    terminal_tabs,    \* anchor -> its tab roots
    active_tab,       \* anchor -> the tab shown
    tab_roots,        \* pane -> the tab it was created in
    active_anchor,
    surface_to_pane

tree == <<panes, satellites, exited, leaves, order>>
tabs == <<terminal_tabs, active_tab, tab_roots>>
vars == <<tree, exit_queue, focused, next_id, anchors, pane_workspace, tabs,
          active_anchor, surface_to_pane>>

-----------------------------------------------------------------------------
(* The layout tree *)

FirstLeaf(L, ord) == CHOOSE p \in L : \A q \in L \ {p} : <<p, q>> \in ord

Before(p, ord) == {q \in PaneId : <<q, p>> \in ord}
After(p, ord) == {q \in PaneId : <<p, q>> \in ord}

\* replace_leaf(t, Split(t, n)) and replace_leaf(t, Split(n, t))
InsertAfter(ord, t, n) ==
    ord \cup ((Before(t, ord) \cup {t}) \X {n}) \cup ({n} \X After(t, ord))
InsertBefore(ord, t, n) ==
    ord \cup (Before(t, ord) \X {n}) \cup ({n} \X (After(t, ord) \cup {t}))

\* remove_leaf for every pane of D
Without(ord, D) == {e \in ord : e[1] \notin D /\ e[2] \notin D}

-----------------------------------------------------------------------------
(* Tabs *)

Least(S) == CHOOSE x \in S : \A y \in S : x <= y

ActiveTab(a) == IF active_tab[a] # None THEN active_tab[a] ELSE a

TabRootOf(p) ==
    IF tab_roots[p] # None THEN tab_roots[p]
    ELSE IF pane_workspace[p] # None THEN pane_workspace[p]
    ELSE p

\* ensure_terminal_tab_stack(a), for the owner a of a new pane (None: no owner)
EnsuredTabs(a) ==
    [x \in PaneId |-> IF x = a /\ terminal_tabs[x] = {} THEN {x} ELSE terminal_tabs[x]]
EnsuredActive(a) ==
    [x \in PaneId |-> IF x = a /\ active_tab[x] = None THEN x ELSE active_tab[x]]
EnsuredRoots(a) ==
    [x \in PaneId |-> IF x = a /\ tab_roots[x] = None THEN x ELSE tab_roots[x]]

\* remove_terminal_tab_metadata for every pane of D, when A are the anchors:
\* from the tab stacks T, the shown tabs AT and the tab roots R
TabsWithout(T, D, A) == [a \in PaneId |-> IF a \in A THEN T[a] \ D ELSE {}]

\* Mutation of ActiveWithout: the shown tab of an anchor is never replaced
ActiveKept(T, AT, D, A) ==
    [a \in PaneId |-> IF TabsWithout(T, D, A)[a] = {} THEN None ELSE AT[a]]

ActiveWithout(T, AT, D, A) ==
    LET left == TabsWithout(T, D, A)
    IN  [a \in PaneId |-> IF left[a] = {} THEN None
                          ELSE IF AT[a] \in D THEN Least(left[a])
                          ELSE AT[a]]
RootsWithout(R, D) == [p \in PaneId |-> IF p \in D THEN None ELSE R[p]]

\* prune_to_workspace: what the mounted page of the active anchor shows
Visible(p) ==
    /\ active_anchor # None
    /\ p \in leaves
    /\ pane_workspace[p] = active_anchor
    /\ p \in satellites \/ TabRootOf(p) = ActiveTab(active_anchor)

-----------------------------------------------------------------------------
(* A fresh cockpit: one terminal, auto-tagged as the first anchor *)

Init ==
    /\ panes = {1} /\ satellites = {} /\ exited = {} /\ exit_queue = {}
    /\ leaves = {1} /\ order = {}
    /\ focused = 1
    /\ next_id = 2
    /\ anchors = {1}
    /\ pane_workspace = [p \in PaneId |-> IF p = 1 THEN 1 ELSE None]
    /\ terminal_tabs = [p \in PaneId |-> IF p = 1 THEN {1} ELSE {}]
    /\ active_tab = [p \in PaneId |-> IF p = 1 THEN 1 ELSE None]
    /\ tab_roots = [p \in PaneId |-> IF p = 1 THEN 1 ELSE None]
    /\ active_anchor = 1
    /\ surface_to_pane = [s \in Surfaces |-> None]

-----------------------------------------------------------------------------
(* Opening panes *)

CanAllocate == next_id \in PaneId       \* the bound of the run

\* a new terminal, spliced in behind the leaf t
OpenBehind(t) ==
    /\ panes' = panes \cup {next_id}
    /\ leaves' = leaves \cup {next_id}
    /\ order' = InsertAfter(order, t, next_id)
    /\ next_id' = next_id + 1
    /\ UNCHANGED <<satellites, exited>>

\* replace_leaf did not find its target: the new pane is dropped again, its id
\* is spent and its pane_workspace entry, already written, stays behind
RollBack(owner, T, AT, R) ==
    /\ next_id' = next_id + 1
    /\ pane_workspace' = [pane_workspace EXCEPT
                            ![next_id] = IF owner = None THEN @ ELSE owner]
    /\ terminal_tabs' = TabsWithout(T, {next_id}, anchors)
    /\ active_tab' = ActiveWithout(T, AT, {next_id}, anchors)
    /\ tab_roots' = RootsWithout(R, {next_id})
    /\ UNCHANGED <<tree, focused, anchors, active_anchor>>

\* shortcuts are not dispatched while a satellite has the focus
ShortcutsReach == focused \notin satellites

SplitFocusedPane ==
    LET owner == pane_workspace[focused]
    IN  /\ CanAllocate
        /\ \/ /\ focused \in leaves
              /\ OpenBehind(focused)
              /\ pane_workspace' = [pane_workspace EXCEPT
                                      ![next_id] = IF owner = None THEN @ ELSE owner]
              /\ tab_roots' = [tab_roots EXCEPT
                                 ![next_id] = IF owner = None THEN @ ELSE TabRootOf(focused)]
              /\ UNCHANGED <<focused, anchors, active_anchor, terminal_tabs, active_tab>>
           \/ /\ focused \notin leaves
              /\ RollBack(owner, terminal_tabs, active_tab, tab_roots)
        /\ UNCHANGED <<exit_queue, surface_to_pane>>

SplitFocused == ShortcutsReach /\ SplitFocusedPane

\* the bookkeeping of tag_anchor_core for the pane n, the metadata of the
\* panes of D having been removed before
Tag(n, T, AT, R) ==
    /\ terminal_tabs' = [T EXCEPT ![n] = {n}]
    /\ active_tab' = [AT EXCEPT ![n] = n]
    /\ tab_roots' = [R EXCEPT ![n] = n]
    /\ active_anchor' = n
    /\ focused' = n

CreateNewAnchor ==
    LET n == next_id
    IN  \/ /\ CanAllocate
           /\ focused \in leaves
           /\ OpenBehind(focused)
           /\ anchors' = anchors \cup {n}
           /\ pane_workspace' = [pane_workspace EXCEPT ![n] = n]
           /\ Tag(n, TabsWithout(terminal_tabs, {n}, anchors),
                     ActiveWithout(terminal_tabs, active_tab, {n}, anchors),
                     RootsWithout(tab_roots, {n}))
           /\ UNCHANGED <<exit_queue, surface_to_pane>>
        \/ /\ focused \notin leaves
           /\ SplitFocusedPane

CreateTerminalTabForAnchor(a) ==
    LET n == next_id
        target == ActiveTab(a)
        T == [EnsuredTabs(a) EXCEPT ![a] = @ \cup {n}]
        AT == [EnsuredActive(a) EXCEPT ![a] = n]
        R == [EnsuredRoots(a) EXCEPT ![n] = n]
    IN  /\ CanAllocate
        /\ a \in anchors \cap panes
        /\ target \in panes
        /\ \/ /\ target \in leaves
              /\ OpenBehind(target)
              /\ pane_workspace' = [pane_workspace EXCEPT ![n] = a]
              /\ terminal_tabs' = T
              /\ active_tab' = AT
              /\ tab_roots' = R
              /\ focused' = n
              /\ UNCHANGED <<anchors, active_anchor>>
           \/ /\ target \notin leaves
              /\ RollBack(a, T, AT, R)
        /\ UNCHANGED <<exit_queue, surface_to_pane>>

\* owning_anchor_for_terminal_pane, then the pane itself, then active_anchor
AnchorForNewTab(p) ==
    IF p \in anchors THEN p
    ELSE IF pane_workspace[p] \in anchors THEN pane_workspace[p]
    ELSE LET root == IF tab_roots[p] # None THEN tab_roots[p] ELSE p
             holders == {a \in anchors : root \in terminal_tabs[a]}
         IN  IF holders # {} THEN CHOOSE a \in holders : TRUE ELSE active_anchor

\* the "+" of the tab line is on the page of the active anchor
NewTabButton ==
    active_anchor # None /\ CreateTerminalTabForAnchor(active_anchor)

CreateTerminalTabForFocused ==
    LET a == AnchorForNewTab(focused)
    IN  ShortcutsReach /\ a # None /\ CreateTerminalTabForAnchor(a)

\* pane.new: asTab is its placement; sent is FALSE when writing argv to the
\* new PTY fails, which returns before the focus moves
CreatePaneFromBus(target, asTab, activate, sent) ==
    LET n == next_id
        owner == IF pane_workspace[target] # None THEN pane_workspace[target]
                 ELSE IF target \in anchors THEN target
                 ELSE None
        T == EnsuredTabs(owner)
        AT == EnsuredActive(owner)
        R == EnsuredRoots(owner)
        root == IF R[target] # None THEN R[target] ELSE owner
    IN  /\ CanAllocate
        /\ target \in panes
        /\ \/ /\ target \in leaves
              /\ OpenBehind(target)
              /\ focused' = IF activate /\ sent THEN n ELSE focused
              /\ IF owner = None
                   THEN UNCHANGED <<pane_workspace, tabs>>
                   ELSE /\ pane_workspace' = [pane_workspace EXCEPT ![n] = owner]
                        /\ terminal_tabs' = IF asTab THEN [T EXCEPT ![owner] = @ \cup {n}]
                                                     ELSE T
                        /\ active_tab' = IF asTab /\ activate
                                           THEN [AT EXCEPT ![owner] = n] ELSE AT
                        /\ tab_roots' = [R EXCEPT ![n] = IF asTab THEN n ELSE root]
              /\ UNCHANGED <<anchors, active_anchor>>
           \/ /\ target \notin leaves
              /\ RollBack(owner, T, AT, R)
        /\ UNCHANGED <<exit_queue, surface_to_pane>>

PaneNew ==
    \E target \in IF active_anchor # None THEN anchors \cup {active_anchor}
                                          ELSE anchors \cup {focused},
       asTab, activate, sent \in BOOLEAN :
            CreatePaneFromBus(target, asTab, activate, sent)

-----------------------------------------------------------------------------
(* Closing panes *)

\* Mutations of Orphans: every terminal that is no anchor; satellites as well
AllFollowers(P, A, W) == P \ (satellites \cup A)
OrphansAndSatellites(P, A, W) == {p \in P \ A : W[p] \notin A}

\* close_orphan_terminal_panes: terminals whose owner is not an anchor.  The
\* last leaf of the tree is never removed, and the order is that of a HashMap
Orphans(P, A, W) == {p \in P \ (satellites \cup A) : W[p] \notin A}

\* Mutation of ClosedSets: orphans stay
OrphansStay(gone, A, W) == {gone}

\* the sets of panes that may go, gone among them, when A and W are left
ClosedSets(gone, A, W) ==
    LET L == leaves \ gone
        orphans == Orphans(panes \ gone, A, W) \cap L
    IN  IF orphans = L THEN {gone \cup (orphans \ {kept}) : kept \in orphans}
                       ELSE {gone \cup orphans}

\* Mutation of Drop: the pane leaves the tree only
DropFromTree(closed) ==
    /\ panes' = panes
    /\ satellites' = satellites \ closed
    /\ exited' = exited \ closed
    /\ leaves' = leaves \ closed
    /\ order' = Without(order, closed)

Drop(closed) ==
    /\ panes' = panes \ closed
    /\ satellites' = satellites \ closed
    /\ exited' = exited \ closed
    /\ leaves' = leaves \ closed
    /\ order' = Without(order, closed)

Disowned(W, D) == [p \in PaneId |-> IF p \in D THEN None ELSE W[p]]

\* Mutation of Promoted: losing any anchor moves the view
AlwaysPromoted(A) == IF A = {} THEN None ELSE Least(A)

\* the anchor on screen when A are left: another one is promoted only if it
\* was the active one that went
Promoted(A) ==
    IF active_anchor \in A THEN active_anchor ELSE IF A = {} THEN None ELSE Least(A)

\* the tab maps once the panes of closed are gone
TabsLeft(closed, A) ==
    IF closed = {} THEN terminal_tabs ELSE TabsWithout(terminal_tabs, closed, A)
ActiveLeft(closed, A) ==
    IF closed = {} THEN active_tab ELSE ActiveWithout(terminal_tabs, active_tab, closed, A)

KeepAnchors(closed, A, W) ==
    /\ anchors' = A
    /\ pane_workspace' = Disowned(W, closed)
    /\ terminal_tabs' = TabsLeft(closed, A)
    /\ active_tab' = ActiveLeft(closed, A)
    /\ tab_roots' = RootsWithout(tab_roots, closed)
    /\ active_anchor' = Promoted(A)

\* ensure_anchor_invariant with no anchor left: seed becomes one
Reseed(closed, A, W, seed) ==
    LET T == TabsLeft(closed, A)
        AT == ActiveLeft(closed, A)
    IN  /\ anchors' = {seed}
        /\ pane_workspace' = [Disowned(W, closed) EXCEPT ![seed] = seed]
        /\ terminal_tabs' = [TabsWithout(T, {seed}, A) EXCEPT ![seed] = {seed}]
        /\ active_tab' = [ActiveWithout(T, AT, {seed}, A) EXCEPT ![seed] = seed]
        /\ tab_roots' = [RootsWithout(tab_roots, closed) EXCEPT ![seed] = seed]
        /\ active_anchor' = seed

\* What closing or untagging leaves behind: with anchors A and ownership W,
\* close_orphan_terminal_panes, the promotion of another anchor, and
\* ensure_anchor_invariant, which tags the first terminal when no anchor is left
Reap(gone, A, W) ==
    \E closed \in ClosedSets(gone, A, W) :
        LET terminals == (leaves \ closed) \ satellites
        IN  /\ Drop(closed)
            /\ \/ /\ A # {} \/ terminals = {}
                  /\ KeepAnchors(closed, A, W)
               \/ /\ A = {} /\ terminals # {}
                  /\ Reseed(closed, A, W, FirstLeaf(terminals, order))

\* set_active_anchor moves the focus only when it changes the active anchor
FocusAfterReap(A) ==
    IF active_anchor \in A \/ active_anchor' = None THEN focused ELSE active_anchor'

\* closing an anchor disowns its whole workspace, any other pane itself only
OwnersAfterClose(t) ==
    Disowned(pane_workspace,
             {p \in PaneId : p = t \/ (t \in anchors /\ pane_workspace[p] = t)})

CloseFocused ==
    /\ ShortcutsReach
    /\ focused \in leaves /\ leaves # {focused}
    /\ Reap({focused}, anchors \ {focused}, OwnersAfterClose(focused))
    /\ focused' = FirstLeaf(leaves', order')
    /\ UNCHANGED <<exit_queue, next_id, surface_to_pane>>

\* the child of a terminal exits; the pane's one-second poll sees it and queues
\* close_exited_pane as an idle callback, once
ChildExits(p) ==
    /\ p \in panes \ (satellites \cup exited)
    /\ exited' = exited \cup {p}
    /\ exit_queue' = exit_queue \cup {p}
    /\ UNCHANGED <<panes, satellites, leaves, order, focused, next_id, anchors,
                   pane_workspace, tabs, active_anchor, surface_to_pane>>

\* Mutation of Closable: an anchor is not closed by the exit of its child
ClosableFollower(p) == leaves # {p} /\ p \in (exited \cap leaves) \ anchors

\* the early returns of close_exited_pane: the last pane is kept, and a pane
\* that is gone or still alive is ignored
Closable(p) == leaves # {p} /\ p \in exited \cap leaves

CloseExitedPane(p) ==
    /\ p \in exit_queue
    /\ exit_queue' = exit_queue \ {p}
    /\ \/ /\ ~Closable(p)
          /\ UNCHANGED <<tree, focused, anchors, pane_workspace, tabs, active_anchor>>
       \/ /\ Closable(p)
          /\ Reap({p}, anchors \ {p}, OwnersAfterClose(p))
          /\ LET f == FocusAfterReap(anchors \ {p})
             IN  focused' = IF f = p \/ f \notin panes' THEN FirstLeaf(leaves', order') ELSE f
    /\ UNCHANGED <<next_id, surface_to_pane>>

-----------------------------------------------------------------------------
(* Anchors *)

\* anchor.tag, anchor.tag_self and the first prefix+a
AddAnchor(t) ==
    LET A == anchors \cup {t}
        W == [pane_workspace EXCEPT ![t] = t]
    IN  /\ t \in panes \ anchors
        /\ pane_workspace[t] \in {None, t}
        /\ \E closed \in ClosedSets({}, A, W) :
              /\ Drop(closed)
              /\ anchors' = A
              /\ pane_workspace' = Disowned(W, closed)
              /\ IF closed = {}
                   THEN Tag(t, terminal_tabs, active_tab, tab_roots)
                   ELSE Tag(t, TabsWithout(terminal_tabs, closed, A),
                               ActiveWithout(terminal_tabs, active_tab, closed, A),
                               RootsWithout(tab_roots, closed))
        /\ UNCHANGED <<exit_queue, next_id, surface_to_pane>>

\* anchor.untag and the sidebar's remove
RemoveAnchor(t) ==
    /\ t \in anchors
    /\ Reap({}, anchors \ {t},
            Disowned(pane_workspace, {p \in PaneId : pane_workspace[p] = t}))
    /\ focused' = FocusAfterReap(anchors \ {t})
    /\ UNCHANGED <<exit_queue, next_id, surface_to_pane>>

\* anchor.activate and the sidebar rows
SetActiveAnchor(a) ==
    /\ a \in anchors
    /\ a # active_anchor
    /\ active_anchor' = a
    /\ focused' = a
    /\ UNCHANGED <<tree, exit_queue, next_id, anchors, pane_workspace, tabs, surface_to_pane>>

CycleActiveAnchor ==
    LET later == {a \in anchors : a > active_anchor}
    IN  /\ ShortcutsReach
        /\ \/ /\ anchors = {}
              /\ AddAnchor(focused)
           \/ /\ anchors # {}
              /\ SetActiveAnchor(IF active_anchor \in anchors /\ later # {}
                                   THEN Least(later) ELSE Least(anchors))

ActivateTerminalTab(a, root) ==
    /\ a = active_anchor
    /\ root \in terminal_tabs[a]
    /\ active_tab' = [active_tab EXCEPT ![a] = root]
    /\ UNCHANGED <<tree, exit_queue, focused, next_id, anchors, pane_workspace,
                   terminal_tabs, tab_roots, active_anchor, surface_to_pane>>

-----------------------------------------------------------------------------
(* Focus and rearranging *)

FocusMoves(p) ==
    /\ focused' = p
    /\ UNCHANGED <<tree, exit_queue, next_id, anchors, pane_workspace, tabs,
                   active_anchor, surface_to_pane>>

\* a click or hover reaches a pane only where it is on screen
SetFocused(p) == Visible(p) /\ FocusMoves(p)

\* the neighbour of the focused leaf among the leaves S that lie on one side of
\* it, wrapping to the other end of the tree; a focus outside the tree counts
\* as the first leaf
CycleFocus(forward) ==
    LET here == IF focused \in leaves THEN focused ELSE FirstLeaf(leaves, order)
        ord == IF forward THEN order ELSE {e \in leaves \X leaves : <<e[2], e[1]>> \in order}
        ahead == After(here, ord)
    IN  /\ ShortcutsReach
        /\ leaves # {here}
        /\ FocusMoves(FirstLeaf(IF ahead # {} THEN ahead ELSE leaves, ord))

\* rearrange mode: source is dropped on an edge of target
ReparentPane(source, target, behind) ==
    LET ord == Without(order, {source})
    IN  /\ source # target
        /\ Visible(source) /\ Visible(target)
        /\ order' = IF behind THEN InsertAfter(ord, target, source)
                              ELSE InsertBefore(ord, target, source)
        /\ UNCHANGED <<panes, satellites, exited, leaves, exit_queue, focused, next_id,
                       anchors, pane_workspace, tabs, active_anchor, surface_to_pane>>

-----------------------------------------------------------------------------
(* Toplevels of the nested Wayland host *)

OnToplevelCreated(s) ==
    LET n == next_id
        owner == pane_workspace[focused]
    IN  /\ CanAllocate
        /\ surface_to_pane[s] = None
        /\ next_id' = n + 1
        /\ \/ /\ focused \in panes /\ focused \notin leaves     \* dropped again
              /\ UNCHANGED <<tree, pane_workspace, surface_to_pane>>
           \/ /\ focused \in leaves \/ focused \notin panes
              /\ panes' = panes \cup {n}
              /\ satellites' = satellites \cup {n}
              /\ IF focused \in panes
                   THEN /\ leaves' = leaves \cup {n}
                        /\ order' = InsertAfter(order, focused, n)
                   ELSE leaves' = {n} /\ order' = {}
              /\ pane_workspace' = [pane_workspace EXCEPT
                                      ![n] = IF owner = None THEN @ ELSE owner]
              /\ surface_to_pane' = [surface_to_pane EXCEPT ![s] = n]
              /\ UNCHANGED exited
        /\ UNCHANGED <<exit_queue, focused, anchors, tabs, active_anchor>>

OnToplevelClosed(s) ==
    LET p == surface_to_pane[s]
        W == Disowned(pane_workspace, {p})
        rest == leaves \ {p}
        inActive == {q \in rest : active_anchor # None /\ W[q] = active_anchor}
    IN  /\ p # None
        /\ surface_to_pane' = [surface_to_pane EXCEPT ![s] = None]
        /\ \/ /\ leaves = {p}
              /\ UNCHANGED <<tree, focused, pane_workspace, tabs>>
           \/ /\ leaves # {p}
              /\ Drop({p})
              /\ pane_workspace' = W
              /\ terminal_tabs' = TabsWithout(terminal_tabs, {p}, anchors)
              /\ active_tab' = ActiveWithout(terminal_tabs, active_tab, {p}, anchors)
              /\ tab_roots' = RootsWithout(tab_roots, {p})
              /\ focused' = IF focused # p THEN focused
                            ELSE FirstLeaf(IF inActive # {} THEN inActive ELSE rest, order')
        /\ UNCHANGED <<exit_queue, next_id, anchors, active_anchor>>

-----------------------------------------------------------------------------
Next ==
    \/ SplitFocused
    \/ CreateNewAnchor
    \/ NewTabButton
    \/ CreateTerminalTabForFocused
    \/ PaneNew
    \/ CloseFocused
    \/ CycleActiveAnchor
    \/ \E p \in PaneId :
        \/ ChildExits(p)
        \/ CloseExitedPane(p)
        \/ AddAnchor(p)
        \/ RemoveAnchor(p)
        \/ SetActiveAnchor(p)
        \/ SetFocused(p)
        \/ \E r \in PaneId : ActivateTerminalTab(p, r)
        \/ \E q \in PaneId, behind \in BOOLEAN : ReparentPane(p, q, behind)
    \/ \E forward \in BOOLEAN : CycleFocus(forward)
    \/ \E s \in Surfaces : OnToplevelCreated(s) \/ OnToplevelClosed(s)

Spec == Init /\ [][Next]_vars

\* the GTK main loop runs every idle callback that was queued: a pane leaves
\* the queue in CloseExitedPane only
CalledBack(p) == p \in exit_queue /\ exit_queue' = exit_queue \ {p}

FairSpec == Spec /\ \A p \in PaneId : WF_exit_queue(CalledBack(p))

-----------------------------------------------------------------------------
\* ord is a strict total order on L
StrictOrder(L, ord) ==
    /\ ord \subseteq L \X L
    /\ \A p, q \in L : <<p, q>> \in ord <=> p # q /\ <<q, p>> \notin ord
    /\ \A p, q, r \in L : <<p, q>> \in ord /\ <<q, r>> \in ord => <<p, r>> \in ord

(* Types, and the containments every operation takes for granted: the tree    *)
(* holds live panes only, satellites and exit states belong to live panes,    *)
(* ids are handed out in increasing order.                                    *)
TypeOK ==
    /\ panes \subseteq PaneId \cap 1..(next_id - 1)
    /\ satellites \subseteq panes
    /\ exited \subseteq panes \ satellites
    /\ exit_queue \subseteq PaneId
    /\ leaves \subseteq panes
    /\ focused \in PaneId
    /\ next_id \in 1..(MaxPane + 1)
    /\ anchors \subseteq PaneId
    /\ pane_workspace \in [PaneId -> MaybePane]
    /\ terminal_tabs \in [PaneId -> SUBSET PaneId]
    /\ active_tab \in [PaneId -> MaybePane]
    /\ tab_roots \in [PaneId -> MaybePane]
    /\ active_anchor \in MaybePane
    /\ surface_to_pane \in [Surfaces -> MaybePane]

(* The in-order traversal lists every leaf once and is never empty, whatever  *)
(* splits, closes, rearrangements and embedded windows do to the tree.        *)
TreeOrder == leaves # {} /\ StrictOrder(leaves, order)

(* The split tree and the pane map agree: every live pane is a leaf of the    *)
(* one tree.  Splits, tabs, bus panes and closes each update both (state.rs); *)
(* without a Wayland host they never disagree.                                *)
LayoutIsPanes == leaves = panes

(* Every pane belongs to one workspace whose anchor is live, anchors own      *)
(* themselves, and one of them is on screen: what close_orphan_terminal_panes *)
(* and ensure_anchor_invariant restore after an anchor is closed, untagged or *)
(* exits.                                                                     *)
WellOwned ==
    /\ active_anchor \in anchors
    /\ \A a \in anchors : a \in panes /\ pane_workspace[a] = a
    /\ \A p \in panes : pane_workspace[p] \in anchors

(* Tab stacks and ownership agree: an anchor's stack starts with itself, holds *)
(* live roots of its own workspace only and contains the tab on show, however  *)
(* tabs, anchors and whole workspaces are opened and closed.                   *)
TabStacks ==
    /\ \A a \in PaneId \ anchors : terminal_tabs[a] = {} /\ active_tab[a] = None
    /\ \A a \in anchors :
          /\ {a, active_tab[a]} \subseteq terminal_tabs[a]
          /\ \A r \in terminal_tabs[a] :
                r \in panes /\ pane_workspace[r] = a /\ tab_roots[r] = r

(* The mounted page is never blank: some leaf survives prune_to_workspace for *)
(* the active anchor and its shown tab.                                       *)
NeverBlank == \E p \in panes : Visible(p)

(* A pane goes only when it is closed itself or its anchor is closed or       *)
(* untagged: closing one pane, one tab or one workspace never takes a         *)
(* neighbour of a surviving workspace along (close_orphan_terminal_panes      *)
(* scans every pane).                                                         *)
NeighboursSurvive ==
    [][\A p \in panes \ panes' :
          pane_workspace[p] \in anchors' \ {p} /\ ~RemoveAnchor(pane_workspace[p])
             => p \in exit_queue \cup {focused} \cup {surface_to_pane[s] : s \in Surfaces}]_vars

(* Losing a workspace that is not on screen moves neither the view nor the    *)
(* tab shown in any workspace that is left, unless that tab went.             *)
StableView ==
    [][anchors \ anchors' # {}
         => /\ active_anchor \in anchors' => active_anchor' = active_anchor
            /\ \A a \in anchors \cap anchors' :
                  active_tab'[a] = active_tab[a] \/ active_tab[a] \notin panes']_vars

(* An embedded window and its pane live and die together: each mapped surface *)
(* has a satellite pane of its own, so that the later ToplevelClosed of one   *)
(* surface never removes the pane of another, and no terminal.                *)
SurfacesShown ==
    \A s \in Surfaces : surface_to_pane[s] # None =>
        /\ surface_to_pane[s] \in satellites
        /\ \A r \in Surfaces \ {s} : surface_to_pane[r] # surface_to_pane[s]

(* A pane whose child exited goes away, unless it is the last one: the idle   *)
(* callback close_exited_pane may come after any number of other operations.  *)
ExitedPaneGoes ==
    \A p \in PaneId : p \in exit_queue ~> p \notin panes \/ leaves = {p}
=============================================================================
