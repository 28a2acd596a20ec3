----------------------------- MODULE BusServer -----------------------------
(***************************************************************************)
(* The control bus at work: clients find a cockpit through bus.sock, greet   *)
(* it and ask; a task of the bus thread serves each connection a frame at a  *)
(* time, the requests that touch the cockpit wait for the GTK thread and     *)
(* every one of them gets a task there (server.rs, client.rs, codec.rs,      *)
(* envelope.rs, the bus.rs of the cockpit, main.rs of lmux-cli and lib.rs of *)
(* lmux-mcp).  bus.sock itself is BusSocket's, the kinds are BusCommands'.   *)
(***************************************************************************)
EXTENDS BusCommands, BusSocket, Sequences

CONSTANTS
    Clients,    \* client processes
    Scenes,     \* who is there: a scene has the cockpits that are ever started
                \* and, for each client, a command of lmux-cli, "mcp" for
                \* lmux-mcp, "peer" for any other program, or "nobody"
    ToolCalls,  \* the tools an agent calls
    PeerFrames, \* what a peer may send
    MaxCalls    \* bound on the messages of an agent and the frames of a peer

ASSUME ClientsAssumption ==
    /\ \A s \in Scenes :
          /\ s.cockpits \subseteq Cockpits
          /\ s.programs \in [Clients -> DOMAIN Cli \cup {"mcp", "peer", "nobody"}]
    /\ ToolCalls \subseteq DOMAIN Tools
    /\ MaxCalls \in Nat

VARIABLES
    \* the clients
    program,    \* program[cl]
    foreign,    \* the clients another user runs
    pc,         \* where the client is
    tool,       \* the tool an agent has called, or None
    calls,      \* messages read by an agent, frames sent by a peer
    outcome,    \* exit code of a command, or an agent's answer to a message
    got,        \* the ids of the replies a peer has read
    \* the connections, one for each client at a time
    conn,
    \* the cockpit
    work,       \* the request the connection task of a client is busy with
    deferred,   \* the channel of each cockpit to its GTK thread: whose request
    served      \* history: what became of the last request of a client

client == <<program, foreign, pc, tool, calls, outcome, got>>
server == <<work, deferred, served>>
vars == <<socket, client, conn, server>>

Frame(id, kind) == [id |-> id, kind |-> kind]

\* link: none, backlog, open; closed by the client, cut by the cockpit
NoConn == [to |-> None, link |-> "none", role |-> None, inbox |-> <<>>, replies |-> <<>>]
NoWork == [at |-> "idle", id |-> 0, kind |-> None]

\* ids are counted; 0 stands for the nil UUID
HelloId == 1
RequestId == 2
NilId == 0

Init ==
    /\ \E s \in Scenes : InitSocket(s.cockpits) /\ program = s.programs
    /\ foreign \in SUBSET {cl \in Clients : program[cl] \in {"peer", "status"}}
    /\ pc = [cl \in Clients |-> CASE program[cl] = "mcp" -> "reading"
                                 [] program[cl] = "nobody" -> "done"
                                 [] OTHER -> "ready"]
    /\ tool = [cl \in Clients |-> None]
    /\ calls = [cl \in Clients |-> 0]
    /\ outcome = [cl \in Clients |-> None]
    /\ got = [cl \in Clients |-> <<>>]
    /\ conn = [cl \in Clients |-> NoConn]
    /\ work = [cl \in Clients |-> NoWork]
    /\ deferred = [c \in Cockpits |-> <<>>]
    /\ served = [cl \in Clients |-> None]

-----------------------------------------------------------------------------
(* A client *)

IsCommand(cl) == program[cl] \in DOMAIN Cli
Asks(cl) == IF IsCommand(cl) THEN Cli[program[cl]].asks ELSE Tools[tool[cl]]
Closed(cl) == [conn EXCEPT ![cl].link = "closed", ![cl].replies = <<>>]

\* the program is through with this call: a command exits, an agent answers
\* and reads on
Ends(cl, result) ==
    /\ outcome' = [outcome EXCEPT ![cl] = result]
    /\ pc' = [pc EXCEPT ![cl] = IF IsCommand(cl) THEN "done" ELSE "reading"]

\* session list falls back on the store, which can be read or not
Failures(cl) ==
    IF program[cl] = "mcp" THEN {"error"}
    ELSE IF program[cl] = "session_list" THEN {"exit 0", "exit 1"} ELSE {"exit 1"}

\* the arguments do not parse: nothing is sent
BadArguments(cl) ==
    /\ pc[cl] = "ready"
    /\ program[cl] \in Parses
    /\ Ends(cl, "exit 2")
    /\ UNCHANGED <<socket, program, foreign, tool, calls, got, conn, server>>

\* Client::connect: the socket is there and somebody listens
Connects(cl, to, frames) ==
    /\ sock # None
    /\ phase[sock] \in Listening
    /\ conn' = [conn EXCEPT ![cl] = [NoConn EXCEPT !.to = sock, !.link = "backlog",
                                                   !.inbox = frames]]
    /\ pc' = [pc EXCEPT ![cl] = to]

Connect(cl) ==
    /\ \/ pc[cl] = "ready" /\ IsCommand(cl)
       \/ pc[cl] = "calling"
    /\ Connects(cl, "greeting", <<Frame(HelloId, "hello")>>)
    /\ UNCHANGED <<socket, program, foreign, tool, calls, outcome, got, server>>

ConnectFails(cl) ==
    /\ \/ pc[cl] = "ready" /\ IsCommand(cl)
       \/ pc[cl] = "calling"
    /\ sock # None => phase[sock] \notin Listening
    /\ \E r \in Failures(cl) : Ends(cl, r)
    /\ UNCHANGED <<socket, program, foreign, tool, calls, got, conn, server>>

\* Client::request: the reply to id has come in, and is none but that
Fits(cl, id) ==
    /\ conn[cl].replies # <<>>
    /\ Head(conn[cl].replies).id = id

Misfits(cl, id) ==
    \/ conn[cl].replies # <<>> /\ Head(conn[cl].replies).id # id
    \/ conn[cl].replies = <<>> /\ conn[cl].link = "cut"

\* hello_ack: the request goes out
SendRequest(cl) ==
    /\ pc[cl] = "greeting"
    /\ Fits(cl, HelloId)
    /\ Head(conn[cl].replies).kind = "hello_ack"
    /\ conn' = [conn EXCEPT ![cl].replies = Tail(@),
                            ![cl].inbox = Append(@, Frame(RequestId, Asks(cl)))]
    /\ pc' = [pc EXCEPT ![cl] = "waiting"]
    /\ UNCHANGED <<socket, program, foreign, tool, calls, outcome, got, server>>

\* handle_tool_call shows the agent the answer, and marks what is an error
ToolResult(kind) == IF kind = "error" THEN "isError" ELSE "result"

\* a command compares the answer with what it takes
Verdicts(cl, kind) ==
    IF program[cl] = "mcp" THEN {ToolResult(kind)}
    ELSE IF kind \in Cli[program[cl]].takes THEN {"exit 0"} ELSE Failures(cl)

ReadReply(cl) ==
    /\ pc[cl] = "waiting"
    /\ Fits(cl, RequestId)
    /\ conn' = Closed(cl)
    /\ \E r \in Verdicts(cl, Head(conn[cl].replies).kind) : Ends(cl, r)
    /\ UNCHANGED <<socket, program, foreign, tool, calls, got, server>>

\* an error, an EOF or a reply with another id; lmux-mcp has connect's for an
\* error of the call and request's for an answer
RequestFails(cl) ==
    /\ \/ pc[cl] = "greeting" /\ Misfits(cl, HelloId)
       \/ pc[cl] = "greeting" /\ Fits(cl, HelloId) /\ Head(conn[cl].replies).kind # "hello_ack"
       \/ pc[cl] = "waiting" /\ Misfits(cl, RequestId)
    /\ conn' = Closed(cl)
    /\ \E r \in IF program[cl] = "mcp" /\ pc[cl] = "waiting" THEN {"isError"}
                ELSE Failures(cl) : Ends(cl, r)
    /\ UNCHANGED <<socket, program, foreign, tool, calls, got, server>>

\* the user interrupts the command
Killed(cl) ==
    /\ IsCommand(cl)
    /\ pc[cl] \in {"greeting", "waiting"}
    /\ pc' = [pc EXCEPT ![cl] = "done"]
    /\ conn' = Closed(cl)
    /\ UNCHANGED <<socket, program, foreign, tool, calls, outcome, got, server>>

\* run_stdio: one message after the other
ReadMessage(cl) ==
    /\ pc[cl] = "reading"
    /\ calls[cl] < MaxCalls
    /\ calls' = [calls EXCEPT ![cl] = @ + 1]
    /\ \/ \* tools/call whose arguments parse
          /\ \E t \in ToolCalls : tool' = [tool EXCEPT ![cl] = t]
          /\ pc' = [pc EXCEPT ![cl] = "calling"]
          /\ UNCHANGED outcome
       \/ \* initialize, tools/list; anything else, or a call that does not
          \* parse; notifications/initialized is not answered
          /\ \E r \in {"result", "error", None} : outcome' = [outcome EXCEPT ![cl] = r]
          /\ UNCHANGED <<tool, pc>>
    /\ UNCHANGED <<socket, program, foreign, got, conn, server>>

\* stdin ends, or its framing is broken
StdinEnds(cl) ==
    /\ pc[cl] = "reading"
    /\ pc' = [pc EXCEPT ![cl] = "done"]
    /\ \E code \in {"exit 0", "exit 1"} : outcome' = [outcome EXCEPT ![cl] = code]
    /\ UNCHANGED <<socket, program, foreign, tool, calls, got, conn, server>>

\* a program that speaks for itself: frames as it likes, without waiting
PeerConnects(cl) ==
    /\ program[cl] = "peer" /\ pc[cl] = "ready"
    /\ Connects(cl, "talking", <<>>)
    /\ UNCHANGED <<socket, program, foreign, tool, calls, outcome, got, server>>

PeerSends(cl) ==
    /\ pc[cl] = "talking"
    /\ conn[cl].link \in {"backlog", "open"}
    /\ calls[cl] < MaxCalls
    /\ calls' = [calls EXCEPT ![cl] = @ + 1]
    /\ \E k \in PeerFrames :
          conn' = [conn EXCEPT ![cl].inbox = Append(@, Frame(calls'[cl], k))]
    /\ UNCHANGED <<socket, program, foreign, pc, tool, outcome, got, server>>

PeerReads(cl) ==
    /\ pc[cl] = "talking"
    /\ conn[cl].replies # <<>>
    /\ got' = [got EXCEPT ![cl] = Append(@, Head(conn[cl].replies).id)]
    /\ conn' = [conn EXCEPT ![cl].replies = Tail(@)]
    /\ UNCHANGED <<socket, program, foreign, pc, tool, calls, outcome, server>>

PeerLeaves(cl) ==
    /\ pc[cl] = "talking"
    /\ pc' = [pc EXCEPT ![cl] = "done"]
    /\ conn' = Closed(cl)
    /\ UNCHANGED <<socket, program, foreign, tool, calls, outcome, got, server>>

-----------------------------------------------------------------------------
(* The cockpit *)

Live(cl) == conn[cl].to # None /\ phase[conn[cl].to] = "serving"

\* accept_loop, and the check of the peer's uid that comes first
Accept(cl) ==
    /\ Live(cl)
    /\ conn[cl].link = "backlog"
    /\ conn' = IF cl \in foreign
                 THEN [conn EXCEPT ![cl].link = "cut", ![cl].inbox = <<>>,
                                   ![cl].replies = <<Frame(NilId, "error")>>]
                 ELSE [conn EXCEPT ![cl].link = "open"]
    /\ UNCHANGED <<socket, client, server>>

\* serve_connection: the next frame, read when the last one is answered
Request(cl) == Head(conn[cl].inbox)

Serves(cl) ==
    /\ Live(cl)
    /\ conn[cl].link = "open"
    /\ work[cl].at = "idle"
    /\ conn[cl].inbox # <<>>

Reply(cl, id, kind) ==
    [conn EXCEPT ![cl].inbox = Tail(@), ![cl].replies = Append(@, Frame(id, kind))]

\* read_frame: a length beyond the limit ends the connection, with no answer
TooLarge(cl) ==
    /\ Serves(cl)
    /\ Request(cl).kind = "too large"
    /\ conn' = [conn EXCEPT ![cl].link = "cut", ![cl].inbox = <<>>]
    /\ UNCHANGED <<socket, client, server>>

\* Envelope::parse fails, or the version is another
NoEnvelope(cl) ==
    /\ Serves(cl)
    /\ Request(cl).kind = "not an envelope"
    /\ conn' = Reply(cl, NilId, "error")
    /\ UNCHANGED <<socket, client, server>>

\* a peer says which role it has, lmux_mcp among them, and names no agent
RoleOf(cl) == IF IsCommand(cl) THEN "lmux_cli" ELSE "lmux_mcp"
NamesAgent(cl) == program[cl] = "mcp"

Greet(cl) ==
    /\ Serves(cl)
    /\ Request(cl).kind = "hello"
    /\ conn' = [Reply(cl, Request(cl).id, "hello_ack") EXCEPT ![cl].role = RoleOf(cl)]
    /\ UNCHANGED <<socket, client, server>>

\* a hello came first, the kind is one of the catalog, and authorized
Acceptable(cl) ==
    /\ conn[cl].role # None
    /\ Request(cl).kind \in Kinds
    /\ Allowed(conn[cl].role, Request(cl).kind, NamesAgent(cl))

Refuse(cl) ==
    /\ Serves(cl)
    /\ Request(cl).kind \notin {"hello", "too large", "not an envelope"}
    /\ ~Acceptable(cl)
    /\ conn' = Reply(cl, Request(cl).id, "error")
    /\ UNCHANGED <<socket, client, server>>

\* handle: answered on the bus thread, or sent to the GTK thread
Handle(cl) ==
    /\ Serves(cl)
    /\ Request(cl).kind # "hello"
    /\ Acceptable(cl)
    /\ LET here == Request(cl).kind \in OnBusThread
       IN  /\ work' = [work EXCEPT ![cl] = [at |-> IF here THEN "bus thread" ELSE "queued",
                                            id |-> Request(cl).id,
                                            kind |-> Request(cl).kind]]
           /\ deferred' = IF here THEN deferred
                        ELSE [deferred EXCEPT ![conn[cl].to] = Append(@, cl)]
    /\ conn' = [conn EXCEPT ![cl].inbox = Tail(@)]
    /\ UNCHANGED <<socket, client, served>>

\* Mutation of MayTake: the dispatcher awaits each request before the next
MayTakeInTurn == \A cl \in Clients : work[cl].at \notin {"task", "window system"}

\* the dispatcher spawns a task for a request and goes on to the next
MayTake == TRUE

Dispatch(cl) ==
    /\ Live(cl)
    /\ deferred[conn[cl].to] # <<>> /\ Head(deferred[conn[cl].to]) = cl
    /\ MayTake
    /\ deferred' = [deferred EXCEPT ![conn[cl].to] = Tail(@)]
    /\ work' = [work EXCEPT ![cl].at = "task"]
    /\ UNCHANGED <<socket, client, conn, served>>

\* the handler returns: what became of the request is settled, and not told yet
Returns(cl, answer, effect) ==
    /\ work' = [work EXCEPT ![cl].at = "answered", ![cl].kind = answer]
    /\ served' = [served EXCEPT ![cl] = effect]

\* with any of its answers
Finishes(cl) ==
    \E a \in Answers(work[cl].kind) : \E e \in Effects(work[cl].kind, a) : Returns(cl, a, e)

\* write_response: the answer goes to whoever still listens
WriteReply(cl) ==
    /\ Live(cl)
    /\ work[cl].at = "answered"
    /\ work' = [work EXCEPT ![cl] = NoWork]
    /\ conn' = IF conn[cl].link = "open"
                 THEN [conn EXCEPT ![cl].replies = Append(@, Frame(work[cl].id, work[cl].kind))]
                 ELSE conn
    /\ UNCHANGED <<socket, client, deferred, served>>

Answer(cl) ==
    /\ Live(cl)
    /\ work[cl].at \in {"bus thread", "task"}
    /\ work[cl].kind \notin Slow
    /\ Finishes(cl)
    /\ UNCHANGED <<socket, client, conn, deferred>>

\* handlers that ask the window system: refused before they do, or waiting
AskWindowSystem(cl) ==
    /\ Live(cl)
    /\ work[cl].at \in {"bus thread", "task"}
    /\ work[cl].kind \in Slow
    /\ \/ /\ work' = [work EXCEPT ![cl].at = "window system"]
          /\ UNCHANGED served
       \/ /\ "error" \in Answers(work[cl].kind)
          /\ Returns(cl, "error", "nothing")
    /\ UNCHANGED <<socket, client, conn, deferred>>

\* KWin, X11 or macOS answers, if it ever does
WindowSystemAnswers(cl) ==
    /\ Live(cl)
    /\ work[cl].at = "window system"
    /\ Finishes(cl)
    /\ UNCHANGED <<socket, client, conn, deferred>>

-----------------------------------------------------------------------------
(* bus.sock, seen from the connections *)

\* the runtime or the process ends, and everything of its cockpit with it
Cut(c) ==
    LET lost(cl) == conn[cl].to = c /\ conn[cl].link # "none"
    IN  /\ conn' = [cl \in Clients |->
                      IF lost(cl) /\ conn[cl].link \in {"backlog", "open"}
                        THEN [conn[cl] EXCEPT !.link = "cut", !.inbox = <<>>]
                        ELSE conn[cl]]
        /\ work' = [cl \in Clients |-> IF lost(cl) THEN NoWork ELSE work[cl]]
        /\ deferred' = [deferred EXCEPT ![c] = <<>>]
        /\ UNCHANGED served

\* bind fails after all, or the bus thread ends
CockpitMoves(c) ==
    /\ CockpitStep(c)
    /\ IF phase'[c] \in {"no bus", "gone"} THEN Cut(c) ELSE UNCHANGED <<conn, server>>
    /\ UNCHANGED client

CockpitStarts(c) == Start(c) /\ UNCHANGED <<client, conn, server>>

\* the listener goes, and with it the connections it has not accepted
CockpitQuits(c) ==
    /\ Quit(c)
    /\ conn' = [cl \in Clients |->
                  IF conn[cl].to = c /\ conn[cl].link = "backlog"
                    THEN [conn[cl] EXCEPT !.link = "cut", !.inbox = <<>>] ELSE conn[cl]]
    /\ UNCHANGED <<client, server>>

CockpitCrashes(c) == Crash(c) /\ Cut(c) /\ UNCHANGED client

PidIsReused(c) == ReusePid(c) /\ UNCHANGED <<client, conn, server>>

-----------------------------------------------------------------------------
\* what a program goes on to do by itself
ClientStep(cl) ==
    Connect(cl) \/ ConnectFails(cl) \/ SendRequest(cl) \/ ReadReply(cl) \/ RequestFails(cl)

\* what the bus thread and the GTK thread go on to do for a connection
ServerStep(cl) ==
    Accept(cl) \/ TooLarge(cl) \/ NoEnvelope(cl) \/ Greet(cl) \/ Refuse(cl) \/ Handle(cl)
      \/ Dispatch(cl) \/ Answer(cl) \/ AskWindowSystem(cl) \/ WriteReply(cl)

Next ==
    \/ \E c \in Cockpits :
          CockpitStarts(c) \/ CockpitMoves(c) \/ CockpitQuits(c) \/ CockpitCrashes(c)
            \/ PidIsReused(c)
    \/ \E cl \in Clients :
          \/ ClientStep(cl) \/ ServerStep(cl) \/ WindowSystemAnswers(cl)
          \/ BadArguments(cl) \/ Killed(cl) \/ ReadMessage(cl) \/ StdinEnds(cl)
          \/ PeerConnects(cl) \/ PeerSends(cl) \/ PeerReads(cl) \/ PeerLeaves(cl)

Spec == Init /\ [][Next]_vars

\* threads that can run do run; nothing makes the window system answer, a
\* user type or a cockpit start
FairSpec ==
    /\ Spec
    /\ \A c \in Cockpits : WF_vars(CockpitMoves(c))
    /\ \A cl \in Clients : WF_vars(ClientStep(cl)) /\ WF_vars(ServerStep(cl))

-----------------------------------------------------------------------------
CommandsTell(cl) ==
    /\ outcome[cl] = "exit 0" =>
         \/ program[cl] = "session_list"
         \/ served[cl] = "done"
         \/ served[cl] = "nothing" /\ Asks(cl) \in Unchecked
    /\ outcome[cl] = "exit 2" => conn[cl].to = None
    /\ outcome[cl] = "exit 1" /\ served[cl] = "done" =>
         \/ program[cl] \in {"anchor_active", "session_list"} \/ Asks(cl) \in Late
         \/ phase[conn[cl].to] = "gone"

RepliesInOrder(cl) ==
    \A i, j \in DOMAIN got[cl] :
        i < j /\ NilId \notin {got[cl][i], got[cl][j]} => got[cl][i] < got[cl][j]

\* A command of lmux-cli tells its caller what happened: it succeeds only when
\* the cockpit has carried the request out (or the store could be read for
\* it) or was asked something whose outcome it does not look at (Unchecked); it
\* asks nothing when its arguments are bad; and it fails after the cockpit did
\* all that was asked only because the cockpit went away in between or a
\* directory could not be synced (Late).  What else fails may have been done
\* in part (Halfway).  (run_bus_write, run_bus_request and the commands'
\* matches on the replies.)
\* A program that does not wait for its replies can tell them by their order
\* (serve_connection).
AnswersFit ==
    \A cl \in Clients :
        IF IsCommand(cl) THEN CommandsTell(cl) ELSE RepliesInOrder(cl)

\* Whoever asks is answered or told that the cockpit has gone, as long as its
\* own request does not wait for the window system; that another client's
\* request does is no reason to wait (handle_deferred gets a task of its own).
AllAnswered ==
    \A cl \in Clients :
        pc[cl] \in {"greeting", "waiting"} /\ Asks(cl) \notin Slow
          ~> pc[cl] \notin {"greeting", "waiting"}
=============================================================================
