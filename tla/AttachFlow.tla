----------------------------- MODULE AttachFlow -----------------------------
(***************************************************************************)
(* Native windows come under an anchor: satellite.attach_window,             *)
(* satellite.launch_attach and the sidebar's window picker.  Each request is *)
(* a task on the GTK thread (bus.rs, sidebar.rs) that is authorised (how is  *)
(* the matter of Grants) and then waits for worker threads and timers while  *)
(* the user and other tasks go on: a step below is what happens between two  *)
(* awaits.                                                                 *)
(***************************************************************************)
CONSTANTS
    Anchor,
    Task,           \* the requests that can be in progress at once
    Window,         \* native windows; no window's id is used again
    None            \* no anchor, no window, no task

ASSUME AttachAssumption == None \notin Anchor \cup Window \cup Task

VARIABLES
    active,         \* active_anchor
    owner,          \* satellite_windows_by_anchor: <<anchor, window>>
    open,           \* the windows on the desktop
    opener,         \* the task whose child opened the window, or None
    unborn,         \* windows that are still to appear
    task

deskVars == <<open, opener, unborn>>
vars == <<active, owner, deskVars, task>>

\* anchor and known are history: the anchor it was authorised for, if anybody was
\* asked, and which of the windows of that time are still there
Idle == [pc |-> "idle", launch |-> FALSE, window |-> None, before |-> {}, anchor |-> None, known |-> {}]

Init ==
    /\ active \in Anchor
    /\ owner = {}
    /\ open \in SUBSET Window
    /\ opener = [w \in Window |-> None] /\ unborn = Window \ open
    /\ task = [t \in Task |-> Idle]

\* whoever waits for the answer gets it; the child, if any, goes its own way
Ends(t) ==
    /\ task' = [task EXCEPT ![t] = Idle]
    /\ opener' = [w \in Window |-> IF opener[w] = t THEN None ELSE opener[w]]

Goes(t, pc) == task' = [task EXCEPT ![t].pc = pc]

-----------------------------------------------------------------------------
(* Requests *)

Starts(t, pc, launch, w, p) ==
    /\ task[t].pc = "idle"
    /\ task' = [task EXCEPT ![t] = [pc |-> pc, launch |-> launch, window |-> w, before |-> {},
                                   anchor |-> p, known |-> IF launch THEN open ELSE {}]]
    /\ UNCHANGED <<active, owner, deskVars>>

\* satellite.attach_window, of a window that was listed once, authorised by
\* authorize_active_anchor_window_attach; a refusal is an answer and changes
\* nothing here
AttachWindow(t, w) ==
    /\ active # None
    /\ w \notin unborn
    /\ Starts(t, "validate", FALSE, w, active)

\* satellite.launch_attach, authorised by authorize_active_anchor_launch_attach
LaunchAttach(t) ==
    /\ active # None
    /\ Starts(t, "before", TRUE, None, active)

\* a row of the picker: nobody is asked
PickWindow(t, w) ==
    /\ w \notin unborn
    /\ Starts(t, "validate", FALSE, w, None)

-----------------------------------------------------------------------------
(* Launching *)

\* Mutation of ListBefore: a launch takes any window that fits its hints
ListNothingBefore(t) ==
    /\ task[t].pc = "before"
    /\ Goes(t, "spawn")
    /\ UNCHANGED <<active, owner, deskVars>>

\* the list of windows is back from its worker
ListBefore(t) ==
    /\ task[t].pc = "before"
    /\ task' = [task EXCEPT ![t].pc = "spawn", ![t].before = open]
    /\ UNCHANGED <<active, owner, deskVars>>

Spawn(t) ==
    /\ task[t].pc = "spawn"
    /\ Goes(t, "search")
    /\ UNCHANGED <<active, owner, deskVars>>

\* launch_attach_candidate_matches: by process, or a new one by the hints
Mine(t) == {w \in open : opener[w] = t}
Hinted(t) == open \ task[t].before

Found(t, w) ==
    /\ task[t].pc = "search"
    /\ w \in Mine(t) \cup Hinted(t)
    /\ task' = [task EXCEPT ![t].pc = "validate", ![t].window = w, ![t].before = {}, ![t].known = {}]
    /\ UNCHANGED <<active, owner, deskVars>>

\* no match (what is new need not fit the hints) in the list after the deadline;
\* before it, the task sleeps and asks for the list again
TimesOut(t) ==
    /\ task[t].pc = "search"
    /\ Mine(t) = {}
    /\ Ends(t)
    /\ UNCHANGED <<active, owner, open, unborn>>

-----------------------------------------------------------------------------
(* Attaching *)

\* attach_window of the compositor (KWin, X11): the window is looked up again
Validate(t) ==
    /\ task[t].pc = "validate"
    /\ task[t].window \in open
    /\ Goes(t, "attach")
    /\ UNCHANGED <<active, owner, deskVars>>

\* Mutation of Inserted: the window stays with its old anchor too
InsertedOnly(w, p) == owner \cup {<<p, w>>}

\* insert_satellite_window_for_anchor
Inserted(w, p) == {o \in owner : o[2] # w} \cup {<<p, w>>}

\* attach_native_window_to_active_anchor: to the anchor active now
Attach(t) ==
    /\ task[t].pc = "attach"
    /\ active # None
    /\ owner' = Inserted(task[t].window, active)
    /\ Ends(t)
    /\ UNCHANGED <<active, open, unborn>>

AttachNowhere(t) ==
    /\ task[t].pc = "attach"
    /\ active = None
    /\ Ends(t)
    /\ UNCHANGED <<active, owner, open, unborn>>

\* Mutation of Fail: a window that is gone is waited for
FailBefore(t) ==
    /\ task[t].pc \in {"before", "spawn", "search"}
    /\ Ends(t)
    /\ UNCHANGED <<active, owner, open, unborn>>

\* an error from a worker, or from spawning
Fail(t) ==
    /\ task[t].pc \in {"before", "spawn", "search", "validate"}
    /\ Ends(t)
    /\ UNCHANGED <<active, owner, open, unborn>>

-----------------------------------------------------------------------------
(* Meanwhile *)

\* a child may open windows once it was spawned, and so may everybody else
Appear(w, t) ==
    /\ w \in unborn
    /\ t # None => task[t].launch /\ task[t].pc \in {"search", "validate", "attach"}
    /\ open' = open \cup {w}
    /\ unborn' = unborn \ {w}
    /\ opener' = [opener EXCEPT ![w] = t]
    /\ UNCHANGED <<active, owner, task>>

Vanish(w) ==
    /\ w \in open
    /\ open' = open \ {w}
    /\ opener' = [opener EXCEPT ![w] = None]
    /\ task' = [t \in Task |-> [task[t] EXCEPT !.known = @ \ {w}]]
    /\ UNCHANGED <<active, owner, unborn>>

\* set_active_anchor; and switch_session, which uses the pane ids of anchors again
\* and leaves what is recorded under them
SetActiveAnchor(p) ==
    /\ active' = p
    /\ UNCHANGED <<owner, deskVars, task>>

\* what a task in progress does next
Proceeds(t) ==
    \/ ListBefore(t) \/ Spawn(t) \/ TimesOut(t)
    \/ \E w \in Window : Found(t, w)
    \/ Validate(t) \/ Attach(t) \/ AttachNowhere(t) \/ Fail(t)

Next ==
    \/ \E t \in Task :
          Proceeds(t) \/ LaunchAttach(t) \/ \E w \in Window : AttachWindow(t, w) \/ PickWindow(t, w)
    \/ \E w \in Window : Vanish(w) \/ \E t \in Task \cup {None} : Appear(w, t)
    \/ \E p \in Anchor \cup {None} : SetActiveAnchor(p)

Spec == Init /\ [][Next]_vars

\* workers answer or fail, timers fire, the GTK thread runs what is ready
FairSpec == Spec /\ \A t \in Task : WF_vars(Proceeds(t))

-----------------------------------------------------------------------------
(* Properties *)

Record == [pc : {"idle", "before", "spawn", "search", "validate", "attach"},
           launch : BOOLEAN, window : Window \cup {None}, before : SUBSET Window,
           anchor : Anchor \cup {None}, known : SUBSET Window]

\* The types, and: whoever is about to attach has a window
TypeOK ==
    /\ active \in Anchor \cup {None}
    /\ owner \subseteq Anchor \X Window
    /\ open \subseteq Window
    /\ opener \in [Window -> Task \cup {None}]
    /\ unborn \subseteq Window
    /\ task \in [Task -> Record]
    /\ \A t \in Task : task[t].pc \in {"validate", "attach"} => task[t].window \in Window

\* A window is under one anchor at most, whichever requests for it overlap
\* (insert_satellite_window_for_anchor)
OneOwner == \A o1, o2 \in owner : o1[2] = o2[2] => o1 = o2

\* A launch takes a window its own process opened, or one that was not there when
\* it was asked for: never one the user had before (the list taken before the spawn)
LaunchTakesNew ==
    [][\A t \in Task, w \in Window : Found(t, w) => opener[w] = t \/ w \notin task[t].known]_vars

\* Every request is answered, whatever windows come and go
\* (launch_attach's loop and its deadline)
Answered == \A t \in Task : task[t].pc # "idle" ~> task[t].pc = "idle"
=============================================================================
