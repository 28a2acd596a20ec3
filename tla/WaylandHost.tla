----------------------------- MODULE WaylandHost -----------------------------
(***************************************************************************)
(* The nested Wayland compositor (lmux-wayland-host) and the satellite     *)
(* panes of the cockpit that show its windows (satellite.rs, handle_host_  *)
(* event in state.rs): two threads and two unbounded channels, HostEvents  *)
(* to the cockpit and HostCommands to the host.                            *)
(*                                                                         *)
(* A satellite pane is named by its surface: every toplevel gets a pane of *)
(* its own.  The split tree and the focus in it are Workspace's; here one  *)
(* pane, Terminal, stands for the terminals, and the layout is the set of  *)
(* its leaves.  One session is open, so that a satellite is closed by its  *)
(* client only: no shortcut reaches one that has the focus.  Pixels,       *)
(* titles and cursors are data.  Clients keep to xdg-shell: the parent of  *)
(* a popup is mapped before the popup.                                     *)
(***************************************************************************)
EXTENDS Integers, Sequences, FiniteSets, SequencesExt

CONSTANTS
    Clients,        \* the satellites' processes
    Sizes,          \* sizes GTK may allocate; one dimension, 0 is unallocated
    MinConfigure,   \* MIN_CONFIGURE
    MaxSurface,     \* bound on surface ids
    MaxQueue,       \* bound on either channel
    Scenes          \* bounds on what clients attach and the user does

None == 0
SurfaceId == 1..MaxSurface
Terminal == MaxSurface + 1
Device == {"keyboard", "pointer"}

\* which clients there are, whether they attach shared memory or dmabufs, and
\* how often the user closes, drags, moves and presses
Scene == [clients : SUBSET Clients, buffers : SUBSET {"shm", "dmabuf"},
          close : Nat, drag : Nat, move : Nat, press : Nat]

ASSUME HostAssumption ==
    /\ Scenes \subseteq Scene
    /\ Sizes \subseteq Nat /\ MinConfigure \in Nat \ {0}
    /\ {MaxSurface, MaxQueue} \subseteq Nat

VARIABLES
    surfaces,           \* toplevels and popups of the host: see Unused
    next_surface_id,
    event_queue, command_queue,
    seat,               \* the surface each device of the seat is on
    surface_to_pane,    \* surfaces with a pane on record
    panes, leaves,      \* the pane map, and the panes in the layout
    popup_to_pane,      \* popup or child -> its satellite, None if unknown
    overlay,            \* popup or child -> the satellite it is drawn on
    place,              \* ... and where
    painted,            \* surfaces whose picture shows a frame
    past,               \* history of what the cockpit gave up: see Untroubled
    allocated,          \* the size GTK gave a satellite's picture
    last_configured,
    at,                 \* the picture that has GTK's focus, or the pointer
    scene               \* bound: what is left of the scene

hostVars == <<surfaces, next_surface_id>>
widgetVars == <<allocated, last_configured, at, scene>>
treeVars == <<surface_to_pane, panes, leaves>>
paneVars == <<treeVars, popup_to_pane, overlay, place, painted, past>>
vars == <<hostVars, event_queue, command_queue, seat, paneVars, widgetVars>>

Unused == [role |-> "none", client |-> None, parent |-> None, alive |-> FALSE,
           tracked |-> FALSE, announced |-> FALSE, child |-> FALSE, spot |-> 0,
           framed |-> FALSE, size |-> 0]

Tracked == {s \in SurfaceId : surfaces[s].tracked}
ToplevelsOf(S) == {s \in S : surfaces[s].role = "toplevel"}
PopupsOf(S) == {s \in S : surfaces[s].role = "popup"}
Nowhere == [s \in SurfaceId |-> None]

\* toplevels that got no pane, panes kept as the last one though their surface
\* went, and surfaces with a buffer GTK would not import
Untroubled == [refused |-> {}, kept |-> {}, unimported |-> {}]

HostInit ==
    /\ surfaces = [s \in SurfaceId |-> Unused]
    /\ next_surface_id = 1
    /\ seat = [d \in Device |-> None]

WidgetInit ==
    /\ allocated = [s \in SurfaceId |-> 0] /\ last_configured = [s \in SurfaceId |-> 0]
    /\ at = [d \in Device |-> None]
    /\ scene \in Scenes

Init ==
    /\ HostInit /\ WidgetInit
    /\ event_queue = <<>> /\ command_queue = <<>>
    /\ surface_to_pane = {} /\ panes = {Terminal} /\ leaves = {Terminal}
    /\ popup_to_pane = Nowhere /\ overlay = Nowhere /\ place = [s \in SurfaceId |-> 0]
    /\ painted = {} /\ past = Untroubled

-----------------------------------------------------------------------------
(* The host thread: requests of clients, in the order they are dispatched *)

Emit(es) ==
    /\ Len(event_queue) + Len(es) <= MaxQueue
    /\ event_queue' = event_queue \o es

HostOnly == UNCHANGED <<command_queue, seat, paneVars, widgetVars>>

New(surface) ==
    /\ next_surface_id \in SurfaceId
    /\ surfaces' = [surfaces EXCEPT ![next_surface_id] = surface]
    /\ next_surface_id' = next_surface_id + 1
    /\ UNCHANGED event_queue /\ HostOnly

Mapped(c) == {s \in Tracked : surfaces[s].client = c /\ surfaces[s].alive /\ surfaces[s].announced}

\* with the parent of a set_parent that follows, if any
NewToplevel(c, parent) ==
    /\ parent \in ToplevelsOf(Mapped(c)) \cup {None}
    /\ New([Unused EXCEPT !.role = "toplevel", !.client = c, !.parent = parent,
                          !.alive = TRUE, !.tracked = TRUE])

\* a popup may hang off a toplevel or off another popup
NewPopup(c, parent) ==
    /\ parent \in Mapped(c)
    /\ New([Unused EXCEPT !.role = "popup", !.client = c, !.parent = parent,
                          !.alive = TRUE, !.tracked = TRUE])

\* frame: the buffer attached with the commit, if any that could be read
Frames(s, frame) ==
    IF frame = "none" THEN <<>> ELSE <<[kind |-> "frame", id |-> s, dmabuf |-> frame = "dmabuf"]>>

\* Mutation of CommitPopup: the place computed when the popup was created
CommitPopupUnmoved(s, frame) ==
    LET p == surfaces[s]
    IN  /\ surfaces' = [surfaces EXCEPT ![s].announced = TRUE, ![s].framed = @ \/ frame # "none"]
        /\ Emit((IF p.announced THEN <<>>
                 ELSE <<[kind |-> "overlay", id |-> s, parent |-> p.parent, spot |-> 0]>>)
                \o Frames(s, frame))

CommitPopup(s, frame) ==
    LET p == surfaces[s]
    IN  /\ surfaces' = [surfaces EXCEPT ![s].announced = TRUE, ![s].framed = @ \/ frame # "none"]
        /\ Emit((IF p.announced THEN <<>>
                 ELSE <<[kind |-> "overlay", id |-> s, parent |-> p.parent, spot |-> p.spot]>>)
                \o Frames(s, frame))

\* a toplevel whose parent is known is a child, drawn over it, and announced
\* with its first frame only
CommitToplevel(s, frame) ==
    LET t == surfaces[s]
        child == t.child \/ (~t.announced /\ t.parent \in Tracked)
        announces == ~t.announced /\ (child => frame # "none")
        created == IF child THEN [kind |-> "overlay", id |-> s, parent |-> t.parent, spot |-> 0]
                            ELSE [kind |-> "toplevel", id |-> s]
    IN  /\ surfaces' = [surfaces EXCEPT ![s].child = child, ![s].framed = @ \/ frame # "none",
                                        ![s].announced = @ \/ announces]
        /\ Emit((IF announces THEN <<created>> ELSE <<>>) \o Frames(s, frame))

\* a second frame only repaints, unless the first one was not shown: the bound
\* leaves it out
Commit(s, frame) ==
    /\ s \in Tracked /\ surfaces[s].alive
    /\ frame = "none" \/ ~surfaces[s].framed \/ s \in past.unimported
    /\ \/ surfaces[s].role = "popup" /\ CommitPopup(s, frame)
       \/ surfaces[s].role = "toplevel" /\ CommitToplevel(s, frame)
    /\ UNCHANGED next_surface_id /\ HostOnly

\* reposition_request
RepositionRequest(s, spot) ==
    /\ s \in PopupsOf(Tracked) /\ surfaces[s].alive
    /\ surfaces[s].spot # spot
    /\ surfaces' = [surfaces EXCEPT ![s].spot = spot]
    /\ Emit(<<[kind |-> "moved", id |-> s, spot |-> spot]>>)
    /\ UNCHANGED next_surface_id /\ HostOnly

ClosedEvent(s) ==
    [kind |-> IF surfaces[s].role = "popup" \/ surfaces[s].child THEN "overlay closed"
              ELSE "toplevel closed", id |-> s]

Forgotten(S) == [s \in SurfaceId |-> IF s \in S THEN [surfaces[s] EXCEPT !.tracked = FALSE, !.alive = FALSE]
                                     ELSE surfaces[s]]

\* toplevel_destroyed, popup_destroyed
Destroy(s) ==
    /\ s \in Tracked /\ surfaces[s].alive
    /\ surfaces' = Forgotten({s})
    /\ Emit(<<ClosedEvent(s)>>)
    /\ UNCHANGED next_surface_id /\ HostOnly

\* the client's socket closes: no destructor runs
Disconnect(c) ==
    LET S == {s \in Tracked : surfaces[s].client = c /\ surfaces[s].alive}
    IN  /\ S # {}
        /\ surfaces' = [s \in SurfaceId |-> IF s \in S THEN [surfaces[s] EXCEPT !.alive = FALSE]
                                                       ELSE surfaces[s]]
        /\ UNCHANGED <<next_surface_id, event_queue>> /\ HostOnly

Dead == {s \in Tracked : ~surfaces[s].alive}

\* Mutation of Reap: popups of a client that is gone are dropped without a word
ReapToplevels ==
    /\ Dead # {}
    /\ surfaces' = Forgotten(Dead)
    /\ \E ts \in SetToSeqs(ToplevelsOf(Dead)) : Emit([i \in DOMAIN ts |-> ClosedEvent(ts[i])])
    /\ UNCHANGED next_surface_id /\ HostOnly

\* reap_dead_toplevels, then reap_dead_popups, each in the order of a HashMap
Reap ==
    /\ Dead # {}
    /\ surfaces' = Forgotten(Dead)
    /\ \E ts \in SetToSeqs(ToplevelsOf(Dead)), ps \in SetToSeqs(PopupsOf(Dead)) :
          Emit([i \in DOMAIN (ts \o ps) |-> ClosedEvent((ts \o ps)[i])])
    /\ UNCHANGED next_surface_id /\ HostOnly

\* resize_toplevel tells the client; a surface that is no longer tracked is ignored
ToplevelsAfter(c) ==
    IF c.op = "resize" /\ c.id \in Tracked THEN [surfaces EXCEPT ![c.id].size = c.size]
    ELSE surfaces

\* pointer_motion returns early for a surface that is gone
Ignored(c) == c.device = "pointer" /\ c.id # None /\ c.id \notin Tracked

\* pointer_motion, pointer_leave and keyboard_focus move the seat; a button, a
\* key or the wheel goes to the surface the seat is on, whatever its id says
SeatAfter(c) ==
    IF c.op # "focus" \/ Ignored(c) THEN seat
    ELSE [seat EXCEPT ![c.device] = IF c.id \in Tracked THEN c.id ELSE None]

RunCommand ==
    /\ command_queue # <<>>
    /\ command_queue' = Tail(command_queue)
    /\ surfaces' = ToplevelsAfter(Head(command_queue))
    /\ seat' = SeatAfter(Head(command_queue))
    /\ UNCHANGED <<next_surface_id, event_queue, paneVars, widgetVars>>

-----------------------------------------------------------------------------
(* The GTK thread: host events *)

Post(cs) ==
    /\ Len(command_queue) + Len(cs) <= MaxQueue
    /\ command_queue' = command_queue \o cs

\* the pane whose widget holds picture s
PaneOf(s) == IF overlay[s] = None THEN s ELSE overlay[s]

FocusOn(d, s) == [op |-> "focus", device |-> d, id |-> s]

\* the pictures of pane s, with every overlay on it
Torn(s) == {s} \cup {p \in SurfaceId : overlay[p] = s}

\* GTK takes focus and pointer from pictures that leave the tree; a picture may
\* or may not hear that it lost them
Loses(lost) ==
    /\ at' = [d \in Device |-> IF d \in lost THEN None ELSE at[d]]
    /\ \E heard \in SUBSET lost : \E ds \in SetToSeqs(heard) :
          Post([i \in DOMAIN ds |-> FocusOn(ds[i], None)])
    /\ UNCHANGED <<allocated, last_configured>>

\* rebuild_widget_tree takes every picture out of the tree, and back in if its
\* pane is still a leaf: one that comes back may keep what it had
Rebuild ==
    \E lost \in SUBSET {d \in Device : at[d] # None} :
        /\ {d \in Device : at[d] # None /\ PaneOf(at[d]) \notin leaves'} \subseteq lost
        /\ Loses(lost)

\* the pictures are gone
Removed(gone) ==
    /\ painted' = painted \ gone
    /\ overlay' = [p \in SurfaceId |-> IF p \in gone THEN None ELSE overlay[p]]

\* on_toplevel_created, once the command channel is installed, which it is
\* before the first event: whether the pane that has the focus is a leaf, is off
\* the tree or is no more is decided by Workspace
OnToplevelCreated(e) ==
    /\ e.kind = "toplevel"
    /\ \/ /\ leaves' = leaves \cup {e.id}
          /\ UNCHANGED past
       \/ /\ leaves' = {e.id}           \* it takes the whole tree
          /\ UNCHANGED past
       \/ /\ panes # leaves             \* no leaf to split: dropped again
          /\ past' = [past EXCEPT !.refused = @ \cup {e.id}]
          /\ UNCHANGED leaves
    /\ IF e.id \in leaves'
         THEN /\ panes' = panes \cup {e.id}
              /\ surface_to_pane' = surface_to_pane \cup {e.id}
              /\ Rebuild
         ELSE UNCHANGED <<surface_to_pane, panes, command_queue, allocated, last_configured, at>>
    /\ UNCHANGED <<popup_to_pane, overlay, place, painted, scene>>

\* on_toplevel_closed: the last pane stays, without a record
OnToplevelClosed(e) ==
    /\ e.kind = "toplevel closed"
    /\ surface_to_pane' = surface_to_pane \ {e.id}
    /\ IF e.id \in surface_to_pane /\ leaves # {e.id}
         THEN /\ panes' = panes \ {e.id} /\ leaves' = leaves \ {e.id}
              /\ Removed(Torn(e.id)) /\ Rebuild
              /\ UNCHANGED past
         ELSE /\ past' = IF e.id \in surface_to_pane
                          THEN [past EXCEPT !.kept = @ \cup {e.id}] ELSE past
              /\ UNCHANGED <<panes, leaves, overlay, painted, command_queue, allocated,
                             last_configured, at>>
    /\ UNCHANGED <<popup_to_pane, place, scene>>

\* PopupCreated, ChildToplevelCreated: the parent has to be a satellite
OnOverlayCreated(e) ==
    /\ e.kind = "overlay"
    /\ IF e.parent \in surface_to_pane
         THEN /\ popup_to_pane' = [popup_to_pane EXCEPT ![e.id] = e.parent]
              /\ overlay' = [overlay EXCEPT ![e.id] = e.parent]
              /\ place' = [place EXCEPT ![e.id] = e.spot]
         ELSE UNCHANGED <<popup_to_pane, overlay, place>>
    /\ UNCHANGED <<command_queue, treeVars, painted, past, widgetVars>>

\* PopupRepositioned
OnMoved(e) ==
    /\ e.kind = "moved"
    /\ place' = IF overlay[e.id] # None THEN [place EXCEPT ![e.id] = e.spot] ELSE place
    /\ UNCHANGED <<command_queue, treeVars, popup_to_pane, overlay, painted, past, widgetVars>>

\* PopupClosed, ChildToplevelClosed
OnOverlayClosed(e) ==
    /\ e.kind = "overlay closed"
    /\ popup_to_pane' = [popup_to_pane EXCEPT ![e.id] = None]
    /\ IF overlay[e.id] = None
         THEN UNCHANGED <<overlay, painted, command_queue, widgetVars>>
         ELSE Removed({e.id}) /\ Loses({d \in Device : at[d] = e.id}) /\ UNCHANGED scene
    /\ UNCHANGED <<treeVars, place, past>>

\* push_frame, push_dmabuf_frame and theirs of a popup: the picture shows the
\* frame, unless it is a dmabuf that GTK does not import
Repaints(e) ==
    \/ painted' = painted \cup {e.id} /\ UNCHANGED past
    \/ /\ e.dmabuf
       /\ past' = [past EXCEPT !.unimported = @ \cup {e.id}]
       /\ UNCHANGED painted

\* FrameReady, DmabufFrame
OnFrame(e) ==
    /\ e.kind = "frame"
    /\ IF overlay[e.id] # None \/ (popup_to_pane[e.id] = None /\ e.id \in surface_to_pane)
         THEN Repaints(e)
         ELSE UNCHANGED <<painted, past>>
    /\ UNCHANGED <<command_queue, treeVars, popup_to_pane, overlay, place, widgetVars>>

HandleHostEvent ==
    /\ event_queue # <<>>
    /\ event_queue' = Tail(event_queue)
    /\ LET e == Head(event_queue)
       IN  \/ OnToplevelCreated(e) \/ OnToplevelClosed(e)
           \/ OnOverlayCreated(e) \/ OnMoved(e) \/ OnOverlayClosed(e)
           \/ OnFrame(e)
    /\ UNCHANGED <<hostVars, seat>>

-----------------------------------------------------------------------------
(* The GTK thread: the user, and the frame clock *)

Acts(kind) == scene[kind] > 0 /\ scene' = [scene EXCEPT ![kind] = @ - 1]
GtkOnly == UNCHANGED <<hostVars, seat, event_queue>>

\* close_focused of a terminal that is not the last leaf
CloseTerminal ==
    /\ Acts("close")
    /\ Terminal \in leaves /\ leaves # {Terminal}
    /\ panes' = panes \ {Terminal} /\ leaves' = leaves \ {Terminal}
    /\ Rebuild
    /\ GtkOnly /\ UNCHANGED <<surface_to_pane, popup_to_pane, overlay, place, painted, past>>

Allocate(s, size) ==
    /\ Acts("drag")
    /\ s \in leaves /\ allocated[s] # size
    /\ allocated' = [allocated EXCEPT ![s] = size]
    /\ GtkOnly /\ UNCHANGED <<command_queue, paneVars, last_configured, at>>

Configured(size) == IF size < MinConfigure THEN MinConfigure ELSE size

\* Mutation of Tick: the allocation is remembered before it is known to be one
TickUnallocated(s) ==
    LET size == Configured(allocated[s])
    IN  /\ s \in leaves
        /\ last_configured[s] # size
        /\ last_configured' = [last_configured EXCEPT ![s] = size]
        /\ Post(IF allocated[s] = 0 \/ last_configured[s] # 0 THEN <<>>
                ELSE <<[op |-> "resize", id |-> s, size |-> size]>>)
        /\ GtkOnly /\ UNCHANGED <<paneVars, allocated, at, scene>>

\* install_resize_handler: once per frame, posted when the size changed
Tick(s) ==
    LET size == Configured(allocated[s])
    IN  /\ s \in leaves /\ allocated[s] > 0
        /\ last_configured[s] # size
        /\ last_configured' = [last_configured EXCEPT ![s] = size]
        /\ Post(<<[op |-> "resize", id |-> s, size |-> size]>>)
        /\ GtkOnly /\ UNCHANGED <<paneVars, allocated, at, scene>>

Pictures == {s \in SurfaceId : s \in panes \/ overlay[s] # None}

\* the picture of a satellite tells when it is left; one of an overlay tells
\* of the pointer only
Leaving(d) ==
    IF at[d] = None \/ (d = "keyboard" /\ at[d] \notin panes) THEN <<>>
    ELSE <<FocusOn(d, None)>>

\* Mutation of Entering: the picture of an overlay tells of the satellite below
EnteringSatellite(d, s) == <<FocusOn(d, PaneOf(s))>>

Entering(d, s) == <<FocusOn(d, s)>>

\* a picture is entered, by the pointer or by GTK's focus
Enter(d, s) ==
    /\ Acts("move")
    /\ s \in Pictures \ {at[d]} /\ PaneOf(s) \in leaves
    /\ at' = [at EXCEPT ![d] = s]
    /\ Post(Leaving(d) \o Entering(d, s))
    /\ GtkOnly /\ UNCHANGED <<paneVars, allocated, last_configured>>

Leave(d) ==
    /\ Acts("move")
    /\ at[d] # None
    /\ at' = [at EXCEPT ![d] = None]
    /\ Post(Leaving(d))
    /\ GtkOnly /\ UNCHANGED <<paneVars, allocated, last_configured>>

\* a key, a button or the wheel on the picture that has it
Press(d) ==
    /\ Acts("press")
    /\ at[d] # None
    /\ Post(<<[op |-> "press", device |-> d, id |-> at[d]]>>)
    /\ GtkOnly /\ UNCHANGED <<paneVars, allocated, last_configured, at>>

-----------------------------------------------------------------------------
Next ==
    \/ \E c \in scene.clients, s \in SurfaceId \cup {None} :
          \/ NewToplevel(c, s)
          \/ NewPopup(c, s)
    \/ \E s \in SurfaceId :
          \/ \E frame \in scene.buffers \cup {"none"} : Commit(s, frame)
          \/ \E spot \in {0, 1} : RepositionRequest(s, spot)
          \/ Destroy(s)
          \/ Tick(s)
          \/ \E size \in Sizes : Allocate(s, size)
          \/ \E d \in Device : Enter(d, s)
    \/ \E c \in scene.clients : Disconnect(c)
    \/ Reap \/ RunCommand \/ HandleHostEvent
    \/ CloseTerminal
    \/ \E d \in Device : Leave(d) \/ Press(d)

\* the host loop comes round and GTK's main loop and frame clock run
Spec ==
    /\ Init /\ [][Next]_vars
    /\ WF_vars(Reap) /\ WF_vars(RunCommand) /\ WF_vars(HandleHostEvent)
    /\ \A s \in SurfaceId : WF_vars(Tick(s))

-----------------------------------------------------------------------------
CaughtUp == event_queue = <<>> /\ Dead = {}

(* However clients map, destroy, crash and nest their windows: once the        *)
(* cockpit has caught up it shows nothing of a surface that is gone, no white  *)
(* window in the tree or off it and no stale menu, and keeps no record of it.  *)
(* Only a satellite that was the last leaf when its window went stays.         *)
NoGhosts ==
    CaughtUp =>
        /\ surface_to_pane \subseteq Tracked
        /\ panes \subseteq Tracked \cup past.kept \cup {Terminal}
        /\ \A s \in SurfaceId : popup_to_pane[s] # None => s \in Tracked
        /\ \A s \in SurfaceId : overlay[s] # None => s \in Tracked

(* ... and it shows what there is: every announced toplevel has a pane, unless *)
(* the focus was off the tree when it mapped, every popup and dialog of a      *)
(* satellite is drawn on it, where the client wants it, and with pixels once   *)
(* the client has attached any that GTK can import.                            *)
ShowsAll ==
    CaughtUp =>
        \A s \in Tracked : surfaces[s].announced =>
            /\ surfaces[s].role = "toplevel" /\ ~surfaces[s].child
                 => s \in (surface_to_pane \cap panes) \cup past.refused
            /\ (surfaces[s].role = "popup" \/ surfaces[s].child)
                 /\ surfaces[s].parent \in surface_to_pane
               => overlay[s] = surfaces[s].parent /\ place[s] = surfaces[s].spot
            /\ s \in Pictures /\ surfaces[s].framed => s \in painted \cup past.unimported

(* Keys and clicks carry the id of the picture they were made on, but the host *)
(* sends them to the surface its seat is on: that is the same one, or none if  *)
(* it is gone, though focus changes and presses are queued.  Only a click on   *)
(* what is left of a surface the host has forgotten may go elsewhere: motion   *)
(* over it did not take the pointer from the surface before.                   *)
InputReachesTarget ==
    command_queue # <<>> /\ Head(command_queue).op = "press" =>
        \/ seat[Head(command_queue).device] \in {Head(command_queue).id, None}
        \/ Ignored(Head(command_queue))

(* However often a divider is dragged, the client of a satellite is in the end *)
(* told the size its picture has.                                              *)
FinalSize ==
    \A s \in SurfaceId :
        <>[](s \in leaves \cap Tracked /\ allocated[s] > 0
                => surfaces[s].size = Configured(allocated[s]))
=============================================================================
