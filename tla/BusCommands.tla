---------------------------- MODULE BusCommands ----------------------------
(***************************************************************************)
(* The contract of the bus, as the two sides of it have written it down:     *)
(* what every lmux-cli command and every lmux-mcp tool asks and takes for an *)
(* answer (lmux-cli main.rs, lmux-mcp lib.rs), and what the cockpit says to  *)
(* every kind of request (kinds.rs, the handler and the dispatcher of        *)
(* bus.rs).  A kind is its name; payloads are left out.                      *)
(***************************************************************************)
EXTENDS Naturals

-----------------------------------------------------------------------------
(* lmux-cli *)

\* run_bus_write: nothing but ok will do
Write(kind) == [asks |-> kind, takes |-> {"ok"}]

\* run_bus_request, or a client of its own, and a match on the reply
Question(kind, replies) == [asks |-> kind, takes |-> replies]

\* an anchor.list.result in which no anchor is active
NoneActive == "anchor.list.result, none active"

SatelliteCommands ==
    [satellite_attach_focused |-> Write("satellite.attach_focused"),
     satellite_attach_window |-> Write("satellite.attach_window"),
     satellite_list_windows |->
        Question("satellite.list_windows", {"satellite.list_windows.result"})]

OpenAndAnchorCommands ==
    [satellite_open |-> Write("satellite.open"),
     anchor_new |-> Write("anchor.new"),
     anchor_list |-> Question("anchor.list", {"anchor.list.result", NoneActive}),
     anchor_active |-> Question("anchor.list", {"anchor.list.result"}),
     anchor_activate |-> Write("anchor.activate"),
     status |-> Question("status.get", {"status.get.result"})]

\* Mutation of PaneCommands: a new pane asked for as a plain write
PaneCommandsAsWrites ==
    [pane_list |-> Question("pane.list", {"pane.list.result"}),
     pane_new |-> Write("pane.new"),
     pane_tail |-> Question("pane.tail", {"pane.transcript.result"}),
     pane_capture |-> Question("pane.capture", {"pane.transcript.result"})]

\* pane new and its alias new-window; pane tail and its alias capture-pane
PaneCommands ==
    [pane_list |-> Question("pane.list", {"pane.list.result"}),
     pane_new |-> Question("pane.new", {"pane.new.result"}),
     pane_tail |-> Question("pane.tail", {"pane.transcript.result"}),
     pane_capture |-> Question("pane.capture", {"pane.transcript.result"})]

\* pane send and its alias send-keys
PaneInputCommands ==
    [pane_send |-> Write("pane.send_input"),
     pane_rename |-> Write("pane.rename")]

LifecycleCommands ==
    [anchor_pause |-> Write("anchor.pause"),
     anchor_resume |-> Write("anchor.resume"),
     anchor_hide |-> Write("anchor.hide"),
     anchor_reattach |-> Write("anchor.reattach")]

TagCommands ==
    [anchor_untag |-> Write("anchor.untag"),
     anchor_tag |-> Write("anchor.tag")]

SessionCommands ==
    [session_rename |-> Write("session.rename"),
     session_open |-> Write("session.open")]

SessionDelete == [session_delete |-> Write("session.delete")]

SessionNew == [session_new |-> Write("session.new")]

SessionList == [session_list |-> Question("session.list", {"session.list.result"})]

MarkAnchor == [mark_anchor |-> Question("anchor.tag_self", {"anchor.tag_self.result"})]

\* no command is in two of them
Tables ==
    {SatelliteCommands, OpenAndAnchorCommands, PaneCommands, PaneInputCommands,
     LifecycleCommands, TagCommands, SessionCommands, SessionDelete, SessionNew,
     SessionList, MarkAnchor}

\* main: the subcommands that talk to the cockpit
Cli == [p \in UNION {DOMAIN t : t \in Tables} |-> (CHOOSE t \in Tables : p \in DOMAIN t)[p]]

\* the commands that parse a UUID or a backend before they connect
Parses ==
    DOMAIN LifecycleCommands \cup DOMAIN TagCommands \cup DOMAIN PaneInputCommands
      \cup {"satellite_open", "satellite_attach_window", "anchor_activate",
            "pane_new", "pane_tail", "pane_capture"}

-----------------------------------------------------------------------------
(* lmux-mcp *)

\* kind_for_tool
Tools ==
    [anchor_list |-> "anchor.list",
     pane_new |-> "pane.new",
     pane_tail |-> "pane.tail",
     pane_capture |-> "pane.capture",
     pane_send |-> "pane.send_input",
     pane_rename |-> "pane.rename",
     satellite_list_windows |-> "satellite.list_windows",
     satellite_attach_window |-> "satellite.attach_window",
     satellite_launch |-> "satellite.launch_attach"]

-----------------------------------------------------------------------------
(* The cockpit *)

\* the requests the dispatcher has an arm for
LifecycleKinds == {"anchor.pause", "anchor.resume", "anchor.hide", "anchor.reattach"}

SessionKinds == {"session.new", "session.rename", "session.delete", "session.open"}

PaneKinds == {"pane.list", "pane.new", "pane.tail", "pane.capture", "pane.send_input",
              "pane.rename"}

AnchorKinds == {"anchor.list", "anchor.untag", "anchor.tag", "anchor.tag_self",
                "anchor.new", "anchor.activate"}

SatelliteKinds == {"satellite.open", "satellite.launch_attach",
                   "satellite.attach_focused", "satellite.attach_window"}

\* the bus thread answers these itself
OnBusThread == {"session.list", "status.get", "satellite.list_windows"}

Served ==
    OnBusThread \cup LifecycleKinds \cup SessionKinds \cup PaneKinds \cup AnchorKinds
      \cup SatelliteKinds \cup {"grant.request"}

\* requests of the catalog nobody serves, and replies sent as requests
Unserved ==
    {"subscribe", "unsubscribe", "anchor.respawn", "anchor.status",
     "satellite.detach", "satellite.reattach", "satellite.map",
     "satellite.geometry", "satellite.status", "compositor.status",
     "compositor.reinject", "ok", "hello_ack"}

Kinds == Served \cup Unserved \cup {"hello", "grant.decide"}

\* the requests whose handlers have a reply of their own for success
Results ==
    {<<"session.list", "session.list.result">>,
     <<"status.get", "status.get.result">>,
     <<"satellite.list_windows", "satellite.list_windows.result">>,
     <<"pane.list", "pane.list.result">>,
     <<"anchor.list", "anchor.list.result">>, <<"anchor.list", NoneActive>>,
     <<"pane.new", "pane.new.result">>,
     <<"pane.tail", "pane.transcript.result">>,
     <<"pane.capture", "pane.transcript.result">>,
     <<"grant.request", "grant.request.result">>,
     <<"anchor.tag_self", "anchor.tag_self.result">>}

OwnResults(kind) == {r[2] : r \in {q \in Results : q[1] = kind}}

\* what the handler of a request says when it succeeds
Success(kind) ==
    IF OwnResults(kind) # {} THEN OwnResults(kind)
    ELSE IF kind \in Served THEN {"ok"} ELSE {}

\* requests that are never answered with an error: anchor.new because nobody
\* asks what create_new_anchor came to
Sure == {"status.get", "pane.list", "anchor.list", "anchor.new", "grant.request"}

Answers(kind) == Success(kind) \cup (IF kind \in Sure THEN {} ELSE {"error"})

\* answered as a success though nothing was done: add_anchor refuses the pane
\* of another anchor, create_new_anchor gets no pane, the session to open has
\* the name current_session still has
Unchecked == {"anchor.new", "anchor.tag", "anchor.tag_self", "session.open"}

\* may fail with a step behind them that stays: a signal sent or hidden_anchors
\* changed before the registry refuses, a session file written before the
\* index or the old session drained, a pane created before its command is
\* typed, half of an input written, a program started that opens no window
Halfway ==
    LifecycleKinds \cup SessionKinds
      \cup {"pane.new", "pane.send_input", "satellite.launch_attach"}

\* may fail with all behind them: the index is written, its directory not synced
Late == SessionKinds \ {"session.open"}

\* what may have become of a request that is answered so: it was "done", or
\* "part" of it, or "nothing"
Effects(kind, answer) ==
    {e \in {"done", "part", "nothing"} :
        CASE e = "done" -> answer # "error" \/ kind \in Late
          [] e = "part" -> answer = "error" /\ kind \in Halfway
          [] e = "nothing" -> answer = "error" \/ kind \in Unchecked}

\* requests whose handler waits for the window system
Slow == {"status.get", "satellite.list_windows", "satellite.attach_window",
         "satellite.launch_attach"}

\* agent_sensitive_request_missing_identity: what a request of an MCP role
\* must name its agent for
Sensitive == {"pane.new", "pane.tail", "pane.capture", "pane.send_input",
              "pane.rename", "satellite.attach_window", "satellite.launch_attach"}

\* authorize_public_request
Allowed(role, kind, agent) ==
    /\ kind # "grant.decide"
    /\ role = "lmux_mcp" /\ kind \in Sensitive => agent
=============================================================================
