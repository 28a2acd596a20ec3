-------------------------- MODULE AnchorLifecycle --------------------------
(***************************************************************************)
(* Pausing, hiding and untagging anchors: the registry (lmux-anchor), the   *)
(* set hidden_anchors and the widgets' visible flags (AppState), and the    *)
(* processes behind the panes, which stop, continue and die on their own    *)
(* terms.  A workspace is reduced to its anchor pane; how workspaces of      *)
(* several panes open and close is module Workspace.                        *)
(***************************************************************************)
EXTENDS Naturals

CONSTANT MaxPane        \* bound on the pane ids a run hands out

ASSUME LifecycleAssumption == MaxPane \in Nat \ {0}

PaneId == 1..MaxPane
None == 0

\* AnchorState, without Dead, which nothing enters; Untagged: no entry
AnchorState == {"Untagged", "Live", "Paused", "Hidden"}

\* a child of a pane; a zombie has exited and the poll has not seen it yet
ProcState == {"none", "running", "stopped", "zombie", "reaped"}

VARIABLES
    panes,          \* the live panes, all of them anchors
    registry,       \* pane -> state of its anchor in the AnchorRegistry
    hidden,         \* hidden_anchors
    shown,          \* panes whose widget is set visible
    active,         \* active_anchor
    proc,           \* pane -> its child process
    kill_timers,    \* closed panes waiting for the 500 ms SIGKILL
    exit_queue      \* idle callbacks queued to close an exited pane

vars == <<panes, registry, hidden, shown, active, proc, kill_timers, exit_queue>>

-----------------------------------------------------------------------------
Init ==
    /\ panes = {1}
    /\ registry = [p \in PaneId |-> IF p = 1 THEN "Live" ELSE "Untagged"]
    /\ hidden = {}
    /\ shown = {1}
    /\ active = 1
    /\ proc = [p \in PaneId |-> IF p = 1 THEN "running" ELSE "none"]
    /\ kill_timers = {}
    /\ exit_queue = {}

\* kill(-pid, sig), then kill(pid, sig): fails once the child was reaped
Signalled(p) == proc[p] \in {"running", "stopped", "zombie"}

After(p, from, to) == [proc EXCEPT ![p] = IF @ = from THEN to ELSE @]

\* pause_anchor: the signal first, then the registry, which refuses all but Live
Pause(p) ==
    /\ registry[p] # "Untagged" /\ Signalled(p)
    /\ proc' = After(p, "running", "stopped")
    /\ registry' = [registry EXCEPT ![p] = IF @ = "Live" THEN "Paused" ELSE @]
    /\ UNCHANGED <<panes, hidden, shown, active, kill_timers, exit_queue>>

\* Mutation of Resume: the registry is not told
ResumeUntold(p) ==
    /\ registry[p] # "Untagged" /\ Signalled(p)
    /\ proc' = After(p, "stopped", "running")
    /\ UNCHANGED <<panes, registry, hidden, shown, active, kill_timers, exit_queue>>

Resume(p) ==
    /\ registry[p] # "Untagged" /\ Signalled(p)
    /\ proc' = After(p, "stopped", "running")
    /\ registry' = [registry EXCEPT ![p] = IF @ = "Paused" THEN "Live" ELSE @]
    /\ UNCHANGED <<panes, hidden, shown, active, kill_timers, exit_queue>>

\* hide_anchor: the set and the widget first, then set_hidden, which refuses Paused
Hide(p) ==
    /\ registry[p] # "Untagged"
    /\ p \notin hidden
    /\ hidden' = hidden \cup {p}
    /\ shown' = shown \ {p}
    /\ registry' = [registry EXCEPT ![p] = IF @ = "Live" THEN "Hidden" ELSE @]
    /\ UNCHANGED <<panes, active, proc, kill_timers, exit_queue>>

\* Mutation of Reattach: the registry is told only on screen
ReattachOnScreen(p) ==
    /\ p \in hidden
    /\ hidden' = hidden \ {p}
    /\ \/ /\ registry[p] = "Paused" \/ active # p
          /\ UNCHANGED <<registry, shown>>
       \/ /\ registry[p] # "Paused" /\ active = p
          /\ registry' = [registry EXCEPT ![p] = "Live"]
          /\ shown' = shown \cup {p}
    /\ UNCHANGED <<panes, active, proc, kill_timers, exit_queue>>

\* reattach_anchor: when set_hidden refuses, the widget stays as it is
Reattach(p) ==
    /\ p \in hidden
    /\ hidden' = hidden \ {p}
    /\ \/ /\ registry[p] = "Paused"
          /\ UNCHANGED <<registry, shown>>
       \/ /\ registry[p] # "Paused"
          /\ registry' = [registry EXCEPT ![p] = "Live"]
          /\ shown' = IF active = p THEN shown \cup {p} ELSE shown \ {p}
    /\ UNCHANGED <<panes, active, proc, kill_timers, exit_queue>>

-----------------------------------------------------------------------------
(* Which workspace is on screen *)

\* Mutation of ShownWhenActive: the switch ignores hidden_anchors
ShownThoughHidden(a, H) == {a} \ {None}

\* the visible flags set_active_anchor leaves behind
ShownWhenActive(a, H) == {a} \ (H \cup {None})

Activate(p) ==
    /\ registry[p] # "Untagged"
    /\ active # p
    /\ active' = p
    /\ shown' = ShownWhenActive(p, hidden)
    /\ UNCHANGED <<panes, registry, hidden, proc, kill_timers, exit_queue>>

\* create_new_anchor: a fresh pane, tagged and active
Create(p) ==
    /\ proc[p] = "none"
    /\ \A q \in PaneId : q < p => proc[q] # "none"
    /\ panes' = panes \cup {p}
    /\ registry' = [registry EXCEPT ![p] = "Live"]
    /\ active' = p
    /\ shown' = ShownWhenActive(p, hidden)
    /\ proc' = [proc EXCEPT ![p] = "running"]
    /\ UNCHANGED <<hidden, kill_timers, exit_queue>>

Least(S) == CHOOSE x \in S : \A y \in S : x <= y

\* the anchor p goes and others are left: its records are cleared and another
\* anchor is activated if it was the one on screen
Leave(p) ==
    /\ panes' = panes \ {p}
    /\ registry' = [registry EXCEPT ![p] = "Untagged"]
    /\ hidden' = hidden \ {p}
    /\ active' = IF active = p THEN Least(panes \ {p}) ELSE active
    /\ shown' = IF active = p THEN ShownWhenActive(Least(panes \ {p}), hidden)
                              ELSE shown \ {p}

\* remove_anchor of the last one: its pane is kept and tagged again
Retag(p) ==
    /\ registry' = [registry EXCEPT ![p] = "Live"]
    /\ hidden' = hidden \ {p}
    /\ shown' = {p}
    /\ UNCHANGED <<panes, active>>

\* remove_anchor, from the sidebar or the bus; the pane is sent SIGTERM
Untag(p) ==
    /\ p \in panes
    /\ \/ /\ panes # {p}
          /\ Leave(p)
          /\ kill_timers' = kill_timers \cup {p}
       \/ /\ panes = {p}
          /\ Retag(p)
          /\ UNCHANGED kill_timers
    /\ UNCHANGED <<proc, exit_queue>>

\* close_focused; the last pane is kept
Close(p) ==
    /\ p \in panes
    /\ panes # {p}
    /\ Leave(p)
    /\ kill_timers' = kill_timers \cup {p}
    /\ UNCHANGED <<proc, exit_queue>>

-----------------------------------------------------------------------------
(* Processes: they exit at will, on SIGTERM or not *)

ProcessExits(p) ==
    /\ proc[p] = "running"
    /\ proc' = [proc EXCEPT ![p] = "zombie"]
    /\ UNCHANGED <<panes, registry, hidden, shown, active, kill_timers, exit_queue>>

\* the one-second poll of the pane sees the exit status
Poll(p) ==
    /\ proc[p] = "zombie"
    /\ proc' = [proc EXCEPT ![p] = "reaped"]
    /\ exit_queue' = exit_queue \cup {p}
    /\ UNCHANGED <<panes, registry, hidden, shown, active, kill_timers>>

CloseExited(p) ==
    /\ p \in exit_queue
    /\ exit_queue' = exit_queue \ {p}
    /\ \/ p \in panes /\ panes # {p} /\ Leave(p)
       \/ ~(p \in panes /\ panes # {p}) /\ UNCHANGED <<panes, registry, hidden, shown, active>>
    /\ UNCHANGED <<proc, kill_timers>>

\* Mutation of ForceKill: SIGTERM again, which a stopped process never handles
ForceTerm(p) ==
    /\ p \in kill_timers
    /\ kill_timers' = kill_timers \ {p}
    /\ proc' = After(p, "running", "zombie")
    /\ UNCHANGED <<panes, registry, hidden, shown, active, exit_queue>>

\* schedule_force_kill
ForceKill(p) ==
    /\ p \in kill_timers
    /\ kill_timers' = kill_timers \ {p}
    /\ proc' = [proc EXCEPT ![p] = IF @ \in {"running", "stopped"} THEN "zombie" ELSE @]
    /\ UNCHANGED <<panes, registry, hidden, shown, active, exit_queue>>

-----------------------------------------------------------------------------
Next ==
    \E p \in PaneId :
        \/ Create(p)
        \/ Pause(p) \/ Resume(p)
        \/ Hide(p) \/ Reattach(p)
        \/ Activate(p)
        \/ Untag(p) \/ Close(p)
        \/ ProcessExits(p) \/ Poll(p) \/ CloseExited(p)
        \/ ForceKill(p)

Spec == Init /\ [][Next]_vars

\* the GTK main loop runs the timers of the poll and of the kill
FairSpec ==
    /\ Spec
    /\ \A p \in PaneId : WF_vars(Poll(p)) /\ WF_vars(ForceKill(p))

-----------------------------------------------------------------------------
(* Types; tagged anchors are live panes, and live panes have a process. *)
TypeOK ==
    /\ panes \subseteq PaneId
    /\ registry \in [PaneId -> AnchorState]
    /\ hidden \subseteq panes
    /\ shown \subseteq panes
    /\ active \in panes
    /\ proc \in [PaneId -> ProcState]
    /\ kill_timers \subseteq PaneId \ panes
    /\ exit_queue \subseteq PaneId
    /\ \A p \in PaneId : registry[p] # "Untagged" <=> p \in panes
    /\ \A p \in PaneId : proc[p] = "none" => p \notin panes \cup kill_timers \cup exit_queue

(* The sidebar's Paused is true: whatever pauses, hides, tags anew or refuses, *)
(* an anchor the registry calls paused has no running process.                *)
PausedIsFrozen == \A p \in PaneId : registry[p] = "Paused" => proc[p] # "running"

(* Hidden in the registry and hidden_anchors agree as far as the registry goes *)
(* (state.rs keeps both), so that every Hidden anchor can be reattached.       *)
HiddenIsRecorded == \A p \in PaneId : registry[p] = "Hidden" => p \in hidden

(* A hidden anchor's widget stays invisible through every switch and every    *)
(* promotion, and no workspace but the active one is visible.                 *)
HiddenStaysHidden == shown \cap hidden = {} /\ shown \subseteq {active}

(* A closed pane leaves no process behind, not even a paused one.             *)
ClosedProcessEnds == \A p \in PaneId : p \in kill_timers ~> proc[p] = "reaped"
=============================================================================
