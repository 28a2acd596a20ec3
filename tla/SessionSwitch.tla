---------------------------- MODULE SessionSwitch ----------------------------
(***************************************************************************)
(* One whole session after another: how the workspace of a cockpit is      *)
(* written to a file, torn down and built again (switch_session, snapshot, *)
(* drain_panes_for_shutdown, restore_persisted_metadata in state.rs,       *)
(* activate, run_shutdown, build_restored in app.rs, lmux-state).          *)
(*                                                                         *)
(* live is the part of AppState that is saved or rebuilt, with the real    *)
(* tree of LayoutTree.  The operations of a running cockpit are the ones   *)
(* that make a difference to a snapshot; Workspace has all of them.        *)
(* Operations are not refused during the grace period of a shutdown: the   *)
(* code never asks for the phase.                                          *)
(***************************************************************************)
EXTENDS LayoutTree, FiniteSets

CONSTANTS
    Names,      \* the named sessions, each with a file
    Surfaces,   \* toplevels of the nested Wayland host
    MaxPane,    \* bound on pane ids
    MaxOps,     \* bound on the operations between ...
    MaxSwaps    \* ... and on the switches, shutdowns and starts

None == 0
PaneId == 1..MaxPane
NoName == "none"

ASSUME SwitchAssumption ==
    /\ {MaxPane, MaxOps, MaxSwaps} \subseteq Nat
    /\ NoName \notin Names

VARIABLES
    live,               \* AppState: see Fresh
    surface_to_pane,    \* surface -> pane, None once closed or never mapped
    mapped,             \* the surfaces that are open on the host's side
    phase,              \* "Running", "ShuttingDown", "Off"
    grace,              \* the shutdown's timer is to quit the process
    current_session,
    files,              \* session name -> what its file holds
    last,               \* last-session.json: a snapshot, NoFile or Corrupt
    sane,               \* history: nothing has broken the live tree since it
                        \* was built (see LiveWhole)
    ops, swaps          \* the bounds

vars == <<live, surface_to_pane, mapped, phase, grace, current_session, files,
          last, sane, ops, swaps>>

NoPanes == [p \in PaneId |-> None]
NoTabs == [p \in PaneId |-> <<>>]
Least(S) == CHOOSE x \in S : \A y \in S : x <= y
Greatest(S) == CHOOSE x \in S : \A y \in S : y <= x

\* one terminal, anchor of its own workspace (Pane::new(1), AppState::new and
\* add_anchor in activate)
Fresh ==
    [panes |-> {1}, sats |-> {}, layout |-> Leaf(1), focused |-> 1, next |-> 2,
     anchors |-> {1}, owner |-> [NoPanes EXCEPT ![1] = 1],
     tabs |-> [NoTabs EXCEPT ![1] = <<1>>], shown |-> [NoPanes EXCEPT ![1] = 1],
     root |-> [NoPanes EXCEPT ![1] = 1], active |-> 1]

-----------------------------------------------------------------------------
(* The parts of AppState's operations, as functions of the workspace w *)

Terminals(w) == w.panes \ w.sats

ShownTab(w, a) == IF w.shown[a] # None THEN w.shown[a] ELSE a
TabRoot(w, p) ==
    IF w.root[p] # None THEN w.root[p] ELSE IF w.owner[p] # None THEN w.owner[p] ELSE p

\* remove_terminal_tab_metadata, for every pane of D
WithoutTabs(w, D) ==
    LET left == [a \in PaneId |-> IF a \in w.anchors THEN Outside(w.tabs[a], D) ELSE <<>>]
    IN  [w EXCEPT !.tabs = left,
                  !.shown = [a \in PaneId |-> IF left[a] = <<>> THEN None
                                              ELSE IF @[a] \in D THEN left[a][1] ELSE @[a]],
                  !.root = [p \in PaneId |-> IF p \in D THEN None ELSE @[p]]]

\* close_terminal_pane_without_focus, for every pane of D
WithoutPanes(w, D) ==
    IF D = {} THEN w
    ELSE [WithoutTabs(w, D) EXCEPT
            !.panes = @ \ D,
            !.sats = @ \ D,
            !.layout = RemoveLeaves(@, D \cap LeafSet(@)),
            !.owner = [p \in PaneId |-> IF p \in D THEN None ELSE @[p]]]

\* set_active_anchor
Activated(w, a) ==
    IF a = w.active \/ (a # None /\ a \notin w.anchors) THEN w
    ELSE [w EXCEPT !.active = a, !.focused = IF a = None THEN @ ELSE a]

\* tag_anchor_core and ensure_terminal_tab_stack
Tagged(w, p) ==
    IF p \notin w.panes \/ w.owner[p] \notin {None, p} \/ p \in w.anchors THEN w
    ELSE [w EXCEPT !.anchors = @ \cup {p}, !.owner[p] = p, !.tabs[p] = <<p>>,
                   !.shown[p] = p, !.root[p] = p]

\* Mutation of Orphans: the panes of every anchor but the first
FollowersOfOthers(w) ==
    {p \in Terminals(w) \ w.anchors : w.anchors # {} /\ w.root[p] \notin w.anchors}

\* close_orphan_terminal_panes: all of them, but never the last leaf
Orphans(w) == {p \in Terminals(w) \ w.anchors : w.owner[p] \notin w.anchors}

OrphansClosed(w) ==
    LET O == Orphans(w) \cap LeafSet(w.layout)
    IN  IF O = LeafSet(w.layout) THEN {WithoutPanes(w, O \ {p}) : p \in O}
                                 ELSE {WithoutPanes(w, O)}

\* ensure_anchor_invariant; first_terminal_leaf is the seed
Anchored(w) ==
    LET v == IF w.active # None /\ w.active \notin w.anchors
               THEN [w EXCEPT !.active = None] ELSE w
        seeds == SelectSeq(Leaves(v.layout), LAMBDA p : p \in Terminals(v))
    IN  IF v.active # None THEN v
        ELSE IF v.anchors # {} THEN Activated(v, Least(v.anchors))
        ELSE IF seeds = <<>> THEN v
        ELSE LET s == seeds[1]
                 u == Tagged(WithoutTabs([v EXCEPT !.owner[s] = None], {s}), s)
             IN  IF s \in u.anchors THEN Activated(u, s) ELSE u

-----------------------------------------------------------------------------
(* Snapshots *)

NoFile == [kind |-> "none"]
Corrupt == [kind |-> "corrupt"]

\* Session::empty, what session.new writes and what a malformed file is read as
EmptySession ==
    [kind |-> "snapshot", layout |-> Leaf(1), cwds |-> {}, anchors |-> {},
     tabs |-> NoTabs, shown |-> NoPanes, root |-> NoPanes, good |-> FALSE]

\* satellites are stripped from the tree, but not its last leaf
Stripped(t, S) ==
    IF LeafSet(t) \subseteq S THEN {Leaf(p) : p \in LeafSet(t)}
                              ELSE {RemoveLeaves(t, S \cap LeafSet(t))}

\* snapshot and session_anchor_refs; for a child whose directory cannot be read
\* the one it was spawned in is recorded.  good is history: the tree was in order
Snapshot(w) ==
    {[kind |-> "snapshot", layout |-> t, cwds |-> Terminals(w), anchors |-> w.anchors,
      tabs |-> [a \in PaneId |-> IF a \in w.panes THEN Outside(w.tabs[a], PaneId \ w.panes)
                                                  ELSE <<>>],
      shown |-> [a \in PaneId |-> IF a \in w.panes THEN w.shown[a] ELSE None],
      root |-> [p \in PaneId |-> IF {p, w.root[p]} \subseteq w.panes THEN w.root[p] ELSE None],
      good |-> sane /\ Terminals(w) # {}] : t \in Stripped(w.layout, w.sats)}

\* restore_persisted_metadata: tab stacks of live panes, and only those tab
\* roots that belong to the workspace of their pane
WithMetadata(w, s) ==
    LET kept(a) == SelectSeq(s.tabs[a], LAMBDA p : p \in w.panes)
        tabs == [a \in PaneId |-> IF a \notin w.anchors THEN <<>>
                                  ELSE IF kept(a) = <<>> THEN <<a>> ELSE kept(a)]
        shown == [a \in PaneId |-> IF a \notin w.anchors THEN None
                                   ELSE IF kept(a) = <<>> THEN a
                                   ELSE IF s.shown[a] \in Range(kept(a)) THEN s.shown[a]
                                   ELSE kept(a)[1]]
        valid(p) ==
            LET r == s.root[p]
            IN  /\ r # None /\ {p, r} \subseteq w.panes
                /\ w.owner[p] # None /\ w.owner[p] = w.owner[r]
                /\ r \in Range(tabs[w.owner[p]])
        root == [p \in PaneId |-> IF p \in w.anchors THEN p
                                  ELSE IF valid(p) THEN s.root[p] ELSE None]
    IN  [w EXCEPT !.tabs = tabs, !.shown = shown, !.root = root]

\* Mutation of NextId: ids are counted
NextIdCounted(t) == Len(Leaves(t)) + 1

\* the first id after a restart or a switch
NextId(t) == Greatest(LeafSet(t)) + 1

\* an anchor owns itself, the first one everything else; restore_anchor tags
\* each (the rebuild in switch_session, new_from_snapshot)
Owned(P, A) ==
    LET tagged == [p \in PaneId |-> IF p \in A THEN p ELSE None]
        primary == IF A = {} THEN None ELSE Least(A)
    IN  [anchors |-> A,
         owner |-> [p \in PaneId |-> IF p \in P \ A THEN primary ELSE tagged[p]],
         tabs |-> [a \in PaneId |-> IF a \in A THEN <<a>> ELSE <<>>],
         shown |-> tagged, root |-> tagged, active |-> None]

\* build_session_panes and build_restored for the panes P that could be spawned
Built(s, P) ==
    LET t == RemoveLeaves(s.layout, LeafSet(s.layout) \ P)
        A == s.anchors \cap P
    IN  [panes |-> P, sats |-> {}, layout |-> t, next |-> NextId(t),
         focused |-> IF A = {} THEN Leaves(t)[1] ELSE Least(A)]
        @@ Owned(P, A)

\* the rest of switch_session and of activate: metadata, orphans, the first
\* anchor is activated
Restored(s, P) ==
    LET first(w) == IF s.anchors \cap P = {} THEN w ELSE Activated(w, Least(s.anchors \cap P))
    IN  {first(Anchored(w)) : w \in OrphansClosed(WithMetadata(Built(s, P), s))}

\* drain_panes_for_shutdown: the tree, the focus, the next id and the active
\* anchor stay
Drained(w) ==
    [w EXCEPT !.panes = {}, !.sats = {}, !.anchors = {}, !.owner = NoPanes,
              !.tabs = NoTabs, !.shown = NoPanes, !.root = NoPanes]

-----------------------------------------------------------------------------
Init ==
    /\ live = Fresh
    /\ surface_to_pane = [x \in Surfaces |-> None]
    /\ mapped = {}
    /\ phase = "Running" /\ grace = FALSE
    /\ current_session = NoName
    /\ files = [n \in Names |-> EmptySession]
    /\ last = NoFile
    /\ sane = TRUE
    /\ ops = 0 /\ swaps = 0

-----------------------------------------------------------------------------
(* Operations of a running cockpit *)

CanAllocate == live.next \in PaneId
ShortcutsReach == live.focused \notin live.sats

Operates ==
    /\ phase # "Off"
    /\ ops < MaxOps /\ ops' = ops + 1
    /\ UNCHANGED <<phase, grace, current_session, files, last, swaps>>

\* split_focused; without the focused leaf the pane is dropped again, and the
\* entry of its owner stays
WithSplit(w) ==
    LET n == w.next
        o == w.owner[w.focused]
        v == [w EXCEPT !.next = n + 1, !.owner[n] = IF o = None THEN @ ELSE o]
    IN  IF w.focused \in LeafSet(w.layout)
          THEN [v EXCEPT !.panes = @ \cup {n},
                         !.layout = ReplaceLeaf(@, w.focused, Split(Leaf(w.focused), Leaf(n))),
                         !.root[n] = IF o = None THEN @ ELSE TabRoot(w, w.focused)]
          ELSE WithoutTabs(v, {n})

SplitFocused ==
    /\ Operates /\ CanAllocate /\ ShortcutsReach
    /\ live' = WithSplit(live)
    /\ UNCHANGED <<surface_to_pane, mapped, sane>>

CreateNewAnchor ==
    LET n == live.next
        w == WithSplit(live)
        v == [WithoutTabs([w EXCEPT !.owner[n] = None], {n}) EXCEPT !.focused = n]
    IN  /\ Operates /\ CanAllocate
        /\ live' = IF n \notin w.panes THEN w ELSE Activated(Tagged(v, n), n)
        /\ UNCHANGED <<surface_to_pane, mapped, sane>>

\* the "+" of the tab line: create_terminal_tab_for_anchor of the active anchor
NewTab ==
    LET a == live.active
        n == live.next
        t == ShownTab(live, a)
    IN  /\ Operates /\ CanAllocate
        /\ a \in live.anchors \cap live.panes /\ t \in live.panes \cap LeafSet(live.layout)
        /\ live' = [live EXCEPT
                      !.next = n + 1, !.panes = @ \cup {n}, !.focused = n,
                      !.layout = ReplaceLeaf(@, t, Split(Leaf(t), Leaf(n))),
                      !.owner[n] = a,
                      !.tabs[a] = Append(IF @ = <<>> THEN <<a>> ELSE @, n),
                      !.shown[a] = n,
                      !.root = [@ EXCEPT ![n] = n, ![a] = IF @ = None THEN a ELSE @]]
        /\ UNCHANGED <<surface_to_pane, mapped, sane>>

\* close_focused: an anchor takes its workspace along
CloseFocused ==
    LET f == live.focused
        A == live.anchors \ {f}
        w == [live EXCEPT !.anchors = A,
                          !.owner = [p \in PaneId |-> IF f \in live.anchors /\ @[p] = f
                                                       THEN None ELSE @[p]]]
        next == IF A = {} THEN None ELSE Least(A)
        v == IF f \in live.anchors /\ live.active = f THEN Activated(w, next) ELSE w
    IN  /\ Operates /\ ShortcutsReach
        /\ Removable(live.layout, f)
        /\ \E u \in OrphansClosed(WithoutPanes(v, {f})) :
              live' = [Anchored(u) EXCEPT !.focused = Leaves(u.layout)[1]]
        /\ UNCHANGED <<surface_to_pane, mapped, sane>>

ReparentPane(source, target, behind) ==
    /\ Operates
    /\ source # target /\ {source, target} \subseteq live.panes \cap LeafSet(live.layout)
    /\ live.owner[source] = live.owner[target]
    /\ live' = [live EXCEPT !.layout = Reparent(@, source, target, behind)]
    /\ UNCHANGED <<surface_to_pane, mapped, sane>>

\* with a focus on no live pane the satellite becomes the whole tree
OnToplevelCreated(x) ==
    LET n == live.next
        f == live.focused
        o == live.owner[f]
        w == [live EXCEPT !.next = n + 1]
        t == IF f \in live.panes
               THEN ReplaceLeaf(live.layout, f, Split(Leaf(f), Leaf(n))) ELSE Leaf(n)
    IN  /\ Operates /\ CanAllocate
        /\ x \notin mapped /\ surface_to_pane[x] = None
        /\ mapped' = mapped \cup {x}
        /\ IF n \notin LeafSet(t)
             THEN live' = w /\ UNCHANGED <<surface_to_pane, sane>>
             ELSE /\ live' = [w EXCEPT !.panes = @ \cup {n}, !.sats = @ \cup {n},
                                       !.layout = t, !.owner[n] = IF o = None THEN @ ELSE o]
                  /\ surface_to_pane' = [surface_to_pane EXCEPT ![x] = n]
                  /\ sane' = (sane /\ f \in live.panes)

\* the pane recorded for the surface goes, whatever it is by now; anchors and
\* the active anchor stay
OnToplevelClosed(x) ==
    LET p == surface_to_pane[x]
        w == WithoutPanes(live, {p})
        inActive == SelectSeq(Leaves(w.layout),
                              LAMBDA q : w.active # None /\ w.owner[q] = w.active)
    IN  /\ Operates
        /\ x \in mapped
        /\ mapped' = mapped \ {x}
        /\ surface_to_pane' = [surface_to_pane EXCEPT ![x] = None]
        /\ IF p = None \/ live.layout = Leaf(p) THEN UNCHANGED <<live, sane>>
           ELSE /\ live' = [w EXCEPT !.focused =
                              IF @ # p THEN @
                              ELSE IF inActive # <<>> THEN inActive[1] ELSE Leaves(w.layout)[1]]
                /\ sane' = (sane /\ p \notin Terminals(live))

-----------------------------------------------------------------------------
(* Switch, shutdown, start *)

Swaps == swaps < MaxSwaps /\ swaps' = swaps + 1 /\ ops' = ops

\* the leaves of a snapshot whose pane is spawned: a restart skips those
\* without a recorded cwd, a switch starts them in $HOME
Wanted(s, restart) == LeafSet(s.layout) \cap (IF restart THEN s.cwds ELSE PaneId)

\* the outgoing session is saved if it has a name
SaveOutgoing(w) ==
    IF current_session = NoName THEN {files}
    ELSE {[files EXCEPT ![current_session] = s] : s \in Snapshot(w)}

\* switch_session: load, save, drain, build.  failed are the panes that cannot
\* be spawned; when none can, a fresh one is tried, and when that fails too the
\* operation returns with the old session gone and its name kept
SwitchSession(n, failed, freshFails) ==
    LET s == files[n]
        P == Wanted(s, FALSE) \ failed
    IN  /\ phase # "Off" /\ Swaps
        /\ n # current_session
        /\ files' \in SaveOutgoing(live)
        /\ \/ /\ P # {} /\ ~freshFails
              /\ live' \in Restored(s, P)
              /\ current_session' = n /\ sane' = TRUE
           \/ /\ P = {} /\ ~freshFails
              /\ live' \in Restored([s EXCEPT !.layout = Leaf(1), !.anchors = {}], {1})
              /\ current_session' = n /\ sane' = TRUE
           \/ /\ P = {} /\ freshFails
              /\ live' = [Drained(live) EXCEPT !.active = None]
              /\ sane' = FALSE
              /\ UNCHANGED current_session
        /\ phase' = "Running"
        /\ UNCHANGED <<surface_to_pane, mapped, grace, last>>

\* run_shutdown: the snapshot is written (or that fails, which is logged), then
\* everything is drained and the timer armed
RunShutdown ==
    /\ phase = "Running" /\ Swaps
    /\ last' \in {last} \cup Snapshot(live)
    /\ live' = Drained(live)
    /\ phase' = "ShuttingDown" /\ grace' = TRUE
    /\ sane' = FALSE
    /\ UNCHANGED <<surface_to_pane, mapped, current_session, files>>

Stops ==
    /\ phase' = "Off" /\ grace' = FALSE
    /\ live' = Fresh /\ sane' = TRUE /\ current_session' = NoName
    /\ surface_to_pane' = [x \in Surfaces |-> None] /\ mapped' = {}
    /\ UNCHANGED <<files, ops, swaps>>

\* the timer of run_shutdown, whatever happened since it was armed
Quit == grace /\ Stops /\ last' = last

\* the process ends at any moment, and somebody may damage the snapshot
Crash == phase # "Off" /\ Stops /\ last' \in {last, Corrupt}

\* activate: load_snapshot and build_restored, or a fresh cockpit.  A snapshot
\* that does not parse is renamed aside
Start(failed) ==
    LET s == last
        P == IF s.kind = "snapshot" THEN Wanted(s, TRUE) \ failed ELSE {}
    IN  /\ phase = "Off" /\ Swaps
        /\ live' \in IF P = {} THEN {Fresh} ELSE Restored(s, P)
        /\ last' = IF last = Corrupt THEN NoFile ELSE last
        /\ phase' = "Running"
        /\ UNCHANGED <<surface_to_pane, mapped, grace, current_session, files, sane>>

-----------------------------------------------------------------------------
Next ==
    \/ SplitFocused \/ CreateNewAnchor \/ NewTab \/ CloseFocused
    \/ \E p, q \in PaneId, behind \in BOOLEAN : ReparentPane(p, q, behind)
    \/ \E x \in Surfaces : OnToplevelCreated(x) \/ OnToplevelClosed(x)
    \/ \E n \in Names, failed \in SUBSET PaneId, freshFails \in BOOLEAN :
          SwitchSession(n, failed, freshFails)
    \/ \E failed \in SUBSET PaneId : Start(failed)
    \/ RunShutdown \/ Quit \/ Crash

Spec == Init /\ [][Next]_vars

-----------------------------------------------------------------------------
(* Whatever sessions are switched, restarted and partly fail to spawn, and     *)
(* whatever was saved: the tree on screen is whole.  Tree and pane map agree,  *)
(* an anchor is live and on screen, every terminal has an owner, the next id   *)
(* is fresh.  Only three things break that until the next session is built     *)
(* (sane): a drain without a rebuild (shutdown, or a switch that could spawn   *)
(* nothing), a ToplevelClosed that names the pane of an earlier session, and a *)
(* toplevel that maps while the focus dangles.                                 *)
LiveWhole ==
    sane =>
        /\ LeafSet(live.layout) = live.panes
        /\ live.anchors \subseteq live.panes
        /\ \A p \in Terminals(live) : live.owner[p] \in live.anchors
        /\ Terminals(live) # {} => live.active \in live.anchors
        /\ \A p \in live.panes : p < live.next
        /\ live.focused \in live.panes

(* A session or snapshot saved from a whole tree brings all of it back, when   *)
(* its panes can be spawned: the tree without its satellites, every terminal,  *)
(* every anchor.  close_orphan_terminal_panes, which restore runs, closes none *)
(* of them, though ownership is not in the file.                               *)
RestoresAll ==
    \A s \in {files[n] : n \in Names} \cup {last} :
        s.kind = "snapshot" /\ s.good =>
            \A restart \in BOOLEAN : \A w \in Restored(s, Wanted(s, restart)) :
                /\ w.panes = s.cwds
                /\ w.layout = s.layout
                /\ s.anchors \cap s.cwds \subseteq w.anchors

(* The tree of layout.rs obeys the order Workspace is built on (LayoutTree).   *)
TreeObeysOrder == ObeysOrder(live.layout)
=============================================================================
