-------------------------- MODULE CompositorBridge --------------------------
(***************************************************************************)
(* Native windows follow the active anchor.  The GTK thread queues a group   *)
(* switch on every activation and every attachment; the bridge thread        *)
(* coalesces what is queued and drives the compositor, leaving a switch as   *)
(* soon as a newer one is announced (state.rs, compositor_bridge.rs, and the *)
(* trait CompositorControl of lmux-compositor).                             *)
(*                                                                         *)
(* A queued command is its sequence number; issued keeps what it says.       *)
(***************************************************************************)
EXTENDS Naturals, Sequences

CONSTANTS
    Windows,        \* backend window ids
    MaxAnchor,      \* bound on the pane ids that become anchors
    MaxSwitch       \* bound on satellite_visibility_seq

ASSUME BridgeAssumption ==
    /\ MaxAnchor \in Nat \ {0}
    /\ MaxSwitch \in Nat

AnchorId == 1..MaxAnchor
None == 0

VARIABLES
    \* the GTK thread
    anchors,        \* tagged anchors
    next_id,        \* the next pane id
    active_anchor,
    owner,          \* satellite_windows_by_anchor, seen from the windows
    issued,         \* sequence number -> what its command hides and shows
    announced,      \* latest_sequence, the atomic both threads see
    sent,           \* commands put into the channel
    queue,          \* the channel
    \* the bridge thread
    batched,        \* the macOS helper: it takes a whole group in one call
    taken,          \* drain's own latest_sequence
    current,        \* the command being applied, or None
    hide, show,     \* what is left of it
    pending,        \* the windows of the compositor call in progress
    failed,         \* results of the switch applied last that were not ok
    \* the desktop
    visible

gtk == <<anchors, next_id, active_anchor, owner, issued>>
bridge == <<batched, taken, current, hide, show, pending, failed, visible>>
vars == <<gtk, announced, sent, queue, bridge>>

-----------------------------------------------------------------------------
Init ==
    /\ anchors = {1} /\ next_id = 2 /\ active_anchor = 1
    /\ owner = [w \in Windows |-> None]
    /\ issued = <<>> /\ announced = 0 /\ sent = 0 /\ queue = <<>>
    /\ batched \in BOOLEAN
    /\ taken = 0 /\ current = None
    /\ hide = {} /\ show = {} /\ pending = {} /\ failed = {}
    /\ visible \in SUBSET Windows

\* satellite_visibility_for_active
Visibility(a, own) ==
    [hide |-> {w \in Windows : own[w] \notin {None, a}},
     show |-> {w \in Windows : own[w] # None /\ own[w] = a}]

\* an operation of the GTK thread starts when the one before has returned
GtkIdle == sent = Len(issued)

\* set_active_anchor, to another anchor
Switched(a) ==
    /\ active_anchor' = a
    /\ issued' = Append(issued, Visibility(a, owner))

SetActiveAnchor(a) ==
    /\ GtkIdle
    /\ a \in anchors
    /\ a # active_anchor
    /\ Len(issued) < MaxSwitch
    /\ Switched(a)
    /\ UNCHANGED <<anchors, next_id, owner, announced, sent, queue, bridge>>

\* create_new_anchor, add_anchor: the new anchor is activated
AddAnchor ==
    /\ GtkIdle
    /\ next_id \in AnchorId
    /\ Len(issued) < MaxSwitch
    /\ anchors' = anchors \cup {next_id}
    /\ next_id' = next_id + 1
    /\ Switched(next_id)
    /\ UNCHANGED <<owner, announced, sent, queue, bridge>>

\* remove_anchor, close_focused, close_exited_pane: the anchor with the
\* least id is next; nobody tells the windows
RemoveAnchor(a) ==
    /\ GtkIdle
    /\ a \in anchors
    /\ anchors # {a}
    /\ Len(issued) < MaxSwitch
    /\ anchors' = anchors \ {a}
    /\ \/ /\ a = active_anchor
          /\ \E b \in anchors' : (\A c \in anchors' : b <= c) /\ Switched(b)
       \/ a # active_anchor /\ UNCHANGED <<active_anchor, issued>>
    /\ UNCHANGED <<next_id, owner, announced, sent, queue, bridge>>

\* the last one: no anchor is active, then the pane that is left is tagged
RemoveLastAnchor(a) ==
    /\ GtkIdle
    /\ anchors = {a}
    /\ Len(issued) + 1 < MaxSwitch
    /\ \E b \in {a, next_id} \cap AnchorId :
          /\ anchors' = {b}
          /\ next_id' = IF b = a THEN next_id ELSE next_id + 1
          /\ active_anchor' = b
          /\ issued' = issued \o <<Visibility(None, owner), Visibility(b, owner)>>
    /\ UNCHANGED <<owner, announced, sent, queue, bridge>>

\* Mutation of RegisterSatelliteWindow: a window that moves is not broadcast
RegisterSilently(w) ==
    /\ GtkIdle
    /\ Len(issued) < MaxSwitch
    /\ owner' = [owner EXCEPT ![w] = active_anchor]
    /\ issued' = IF owner[w] = None THEN Append(issued, Visibility(active_anchor, owner'))
                                    ELSE issued
    /\ UNCHANGED <<anchors, next_id, active_anchor, announced, sent, queue, bridge>>

\* attach_native_window_to_active_anchor, also for a window attached elsewhere
RegisterSatelliteWindow(w) ==
    /\ GtkIdle
    /\ Len(issued) < MaxSwitch
    /\ owner' = [owner EXCEPT ![w] = active_anchor]
    /\ issued' = Append(issued, Visibility(active_anchor, owner'))
    /\ UNCHANGED <<anchors, next_id, active_anchor, announced, sent, queue, bridge>>

\* try_send: first the atomic, then the channel
Announce ==
    /\ announced = sent
    /\ announced < Len(issued)
    /\ announced' = announced + 1
    /\ UNCHANGED <<gtk, sent, queue, bridge>>

Send ==
    /\ sent < announced
    /\ sent' = announced
    /\ queue' = Append(queue, announced)
    /\ UNCHANGED <<gtk, announced, bridge>>

-----------------------------------------------------------------------------
\* recv, then try_recv until the channel is empty; a newer command replaces
Coalesced(q) == CHOOSE s \in {q[i] : i \in DOMAIN q} : \A i \in DOMAIN q : q[i] <= s

Receive ==
    /\ current = None
    /\ queue # <<>>
    /\ queue' = <<>>
    /\ LET s == Coalesced(queue) IN
         \/ s < taken /\ UNCHANGED <<taken, current, hide, show, failed>>
         \/ /\ taken <= s
            /\ taken' = s /\ current' = s
            /\ hide' = issued[s].hide /\ show' = issued[s].show
            /\ failed' = {}
    /\ UNCHANGED <<gtk, announced, sent, batched, pending, visible>>

Stale == announced > current

\* the call for the next window, or for the whole group
Begin ==
    /\ current # None /\ pending = {}
    /\ ~Stale
    /\ \/ /\ batched
          /\ pending' = hide \cup show
       \/ /\ ~batched
          /\ \E w \in IF hide # {} THEN hide ELSE show : pending' = {w}
    /\ pending' # {}
    /\ UNCHANGED <<gtk, announced, sent, queue, batched, taken, current, hide, show, failed, visible>>

\* Mutation of Changed: what to show is looked up when the call returns
ChangedByOwner(W) == {w \in visible \cup W : w \in W => owner[w] = active_anchor}

\* visible, once the call for the windows W of the current switch has worked
Changed(W) == (visible \ (W \cap hide)) \cup (W \cap show)

\* the call returns; what it reports as failed it may have done all the same
Finish ==
    /\ pending # {}
    /\ \E bad \in SUBSET pending : \E done \in SUBSET bad :
          /\ failed' = failed \cup bad
          /\ visible' = Changed((pending \ bad) \cup done)
    /\ hide' = hide \ pending
    /\ show' = show \ pending
    /\ pending' = {}
    /\ UNCHANGED <<gtk, announced, sent, queue, batched, taken, current>>

\* Mutation of Leave: a failed call ends the bridge thread
LeaveUnlessFailed ==
    /\ current # None /\ pending = {} /\ failed = {}
    /\ hide \cup show = {} \/ Stale
    /\ current' = None
    /\ hide' = {} /\ show' = {}
    /\ UNCHANGED <<gtk, announced, sent, queue, batched, taken, pending, failed, visible>>

\* the switch is applied, or left for a newer one
Leave ==
    /\ current # None /\ pending = {}
    /\ hide \cup show = {} \/ Stale
    /\ current' = None
    /\ hide' = {} /\ show' = {}
    /\ UNCHANGED <<gtk, announced, sent, queue, batched, taken, pending, failed, visible>>

-----------------------------------------------------------------------------
Next ==
    \/ \E a \in AnchorId : SetActiveAnchor(a) \/ RemoveAnchor(a) \/ RemoveLastAnchor(a)
    \/ AddAnchor
    \/ \E w \in Windows : RegisterSatelliteWindow(w)
    \/ Announce \/ Send
    \/ Receive \/ Begin \/ Finish \/ Leave

Spec == Init /\ [][Next]_vars

\* a broadcast that was begun is sent; the bridge thread runs and the
\* compositor answers; the user owes nothing
FairSpec ==
    /\ Spec
    /\ WF_vars(Announce) /\ WF_vars(Send)
    /\ WF_vars(Receive) /\ WF_vars(Begin) /\ WF_vars(Finish) /\ WF_vars(Leave)

-----------------------------------------------------------------------------
(* Types of both threads' state.                                             *)
TypeOK ==
    /\ anchors \in SUBSET AnchorId /\ active_anchor \in anchors
    /\ next_id \in Nat \ {0}
    /\ owner \in [Windows -> AnchorId \cup {None}]
    /\ issued \in Seq([hide : SUBSET Windows, show : SUBSET Windows])
    /\ announced \in 0..Len(issued) /\ sent \in 0..announced
    /\ queue \in Seq(1..sent)
    /\ batched \in BOOLEAN
    /\ taken \in 0..sent /\ current \in {None, taken}
    /\ hide \subseteq Windows /\ show \subseteq Windows
    /\ pending \subseteq hide \cup show
    /\ failed \subseteq Windows /\ visible \subseteq Windows

AtRest == GtkIdle /\ queue = <<>> /\ current = None

(* However activations, attachments, coalescing and abandoned switches         *)
(* interleave, once both threads are at rest every attached window is visible   *)
(* exactly if its anchor is the active one, or its failure was just reported.  *)
WindowsFollowAnchor ==
    AtRest => \A w \in Windows :
        \/ owner[w] = None
        \/ w \in failed
        \/ w \in visible <=> owner[w] = active_anchor

(* The bridge comes to rest after the last broadcast: no command is lost in the *)
(* channel, none is left half-way without a newer one behind it.               *)
Settles ==
    \A n \in 0..MaxSwitch : (Len(issued) = n) ~> (AtRest \/ Len(issued) > n)

(* The bridge serves the cockpit's wishes and never goes back to an older one. *)
Groups == INSTANCE WindowGroups WITH wishes <- issued, round <- taken
LatestWins == Groups!Spec
=============================================================================
