-------------------------- MODULE BusServerProofs --------------------------
(* Theorems about bus.sock and the bus, for all cockpits, clients, scenes,  *)
(* frames and bounds.                                                       *)
EXTENDS BusServer, Integers, TLAPS

-----------------------------------------------------------------------------
(* bus.sock *)

Phases == {"unborn", "gone"} \cup Running
Transit == Starting \cup Stopping

SocketTypes ==
    /\ phase \in [Cockpits -> Phases]
    /\ pid_file \in Cockpits \cup {"empty", None}
    /\ sock \in Cockpits \cup {None}
    /\ overlapped \in BOOLEAN

\* one comes or goes at a time
OneInTransit ==
    \A c, d \in Cockpits : phase[c] \in Transit /\ phase[d] \in Transit => c = d

\* who has found the socket stale may remove it: nobody listens
NobodyServes ==
    \A c, d \in Cockpits :
        phase[c] \in Transit \ {"checking", "reading pid"} => phase[d] # "serving"

\* a cockpit on its way to serving has what it has made so far
OwnsSoFar ==
    \A c \in Cockpits :
        /\ phase[c] \in {"chmod", "opening pid", "writing pid"} => sock = c
        /\ phase[c] = "writing pid" => c \in openers

\* the named part of OwnSocket
Serving ==
    \A c \in Cockpits : phase[c] = "serving" => sock = c /\ pid_file = c

SocketInv ==
    /\ SocketTypes
    /\ overlapped \/ (OneInTransit /\ NobodyServes /\ OwnsSoFar /\ Serving)

\* the steps of bus.sock: what Next says of BusSocket's variables
SocketStep(c) == Start(c) \/ CockpitStep(c) \/ Quit(c) \/ Crash(c) \/ ReusePid(c)

LEMMA SocketTypesHold ==
    ASSUME SocketTypes, NEW c \in Cockpits, SocketStep(c)
    PROVE  SocketTypes'
<1>1. CASE Start(c) BY <1>1 DEF SocketTypes, Start, At, Moves, files, Phases, Running, Starting, Stopping
<1>2. CASE CockpitStep(c)
  <2>1. CASE Check(c) BY <2>1 DEF SocketTypes, Check, At, Moves, files, Phases, Running, Starting, Stopping
  <2>2. CASE ReadPid(c) BY <2>2 DEF SocketTypes, ReadPid, At, Moves, files, Phases, Running, Starting, Stopping
  <2>3. CASE RemoveFiles(c)
    BY <2>3 DEF SocketTypes, RemoveFiles, RemovesSocket, RemovesPid, At, Moves, Phases, Running, Starting, Stopping
  <2>4. CASE Bind(c) BY <2>4 DEF SocketTypes, Bind, At, Moves, Phases, Running, Starting, Stopping
  <2>5. CASE Chmod(c) BY <2>5 DEF SocketTypes, Chmod, At, Moves, files, Phases, Running, Starting, Stopping
  <2>6. CASE WritePid(c) BY <2>6 DEF SocketTypes, WritePid, At, Moves, Phases, Running, Starting, Stopping
  <2>7. CASE CloseFiles(c)
    BY <2>7 DEF SocketTypes, CloseFiles, RemovesSocket, RemovesPid, At, Moves, Phases, Running, Starting, Stopping
  <2>8. QED BY <1>2, <2>1, <2>2, <2>3, <2>4, <2>5, <2>6, <2>7 DEF CockpitStep
<1>3. CASE Quit(c) BY <1>3 DEF SocketTypes, Quit, At, Moves, files, Phases, Running, Starting, Stopping
<1>4. CASE Crash(c) BY <1>4 DEF SocketTypes, Crash, Moves, Phases
<1>5. CASE ReusePid(c) BY <1>5 DEF SocketTypes, ReusePid, files
<1>6. QED BY <1>1, <1>2, <1>3, <1>4, <1>5 DEF SocketStep

\* a phase changes by a move, and a cockpit that moves into transit is the
\* only one there, or the two have overlapped
LEMMA MovesAlone ==
    ASSUME SocketTypes, ~overlapped, OneInTransit, NEW c \in Cockpits, NEW to, Moves(c, to), ~overlapped'
    PROVE  OneInTransit'
BY DEF SocketTypes, OneInTransit, Moves, Transit

LEMMA SocketStepKeeps ==
    ASSUME SocketInv, NEW c \in Cockpits, SocketStep(c)
    PROVE  SocketInv'
<1>1. SocketTypes' BY SocketTypesHold DEF SocketInv
<1>2. CASE overlapped'  BY <1>1, <1>2 DEF SocketInv
<1>3. CASE ~overlapped'
  <2>0. ~overlapped
    BY <1>3 DEF SocketStep, Start, CockpitStep, Quit, Crash, ReusePid, Check, ReadPid, RemoveFiles,
         Bind, Chmod, WritePid, CloseFiles, At, Moves, files
  <2>a. SocketTypes /\ OneInTransit /\ NobodyServes /\ OwnsSoFar /\ Serving BY <2>0 DEF SocketInv
  <2> SUFFICES OneInTransit' /\ NobodyServes' /\ OwnsSoFar' /\ Serving' BY <1>1 DEF SocketInv
  <2>b. c # "empty" /\ c # None BY CockpitsAssumption
  <2>1. CASE ReusePid(c)
    BY <2>1, <2>a DEF ReusePid, files, OneInTransit, NobodyServes, OwnsSoFar, Serving
  <2>2. CASE ~ReusePid(c)
    <3>1. PICK to : Moves(c, to)
      BY <2>2 DEF SocketStep, Start, CockpitStep, Quit, Crash, Check, ReadPid, RemoveFiles,
           Bind, Chmod, WritePid, CloseFiles, At
    <3>2. OneInTransit' BY <3>1, <2>0, <2>a, <1>3, MovesAlone
    <3>3. CASE Start(c)
      BY <3>2, <3>3, <2>a DEF Start, At, Moves, files, SocketTypes, NobodyServes, OwnsSoFar, Serving, Transit, Starting, Stopping
    <3>4. CASE Check(c)
      BY <3>2, <3>4, <2>a, CockpitsAssumption, ZenonT(60) DEF Check, At, Moves, files, SocketTypes, OneInTransit, NobodyServes, OwnsSoFar, Serving,
           Transit, Starting, Stopping, None
    <3>5. CASE ReadPid(c)
      \* who listens is alive, and the pid file names it
      <4>1. ~Alive(pid_file) => \A d \in Cockpits : phase[d] # "serving"
        BY <2>a DEF Serving, Alive, Running
      <4>2. phase[c] = "reading pid" /\ phase' \in {[phase EXCEPT ![c] = "no bus"], [phase EXCEPT ![c] = "removing socket"]}
        BY <3>5 DEF ReadPid, At, Moves
      <4>3. phase' = [phase EXCEPT ![c] = "removing socket"] => ~Alive(pid_file)
        BY <3>5, <2>a, <2>b DEF ReadPid, At, Moves, SocketTypes
      <4>4. UNCHANGED <<sock, pid_file, openers>> BY <3>5 DEF ReadPid, files
      <4>5. NobodyServes'
        <5>1. CASE phase' = [phase EXCEPT ![c] = "removing socket"]
          BY <5>1, <4>1, <4>3, <2>a DEF SocketTypes, NobodyServes
        <5>2. CASE phase' = [phase EXCEPT ![c] = "no bus"]
          BY <5>2, <2>a DEF SocketTypes, NobodyServes, Transit, Starting, Stopping
        <5>3. QED BY <4>2, <5>1, <5>2
      <4>6. OwnsSoFar' /\ Serving' BY <4>2, <4>4, <2>a DEF SocketTypes, OwnsSoFar, Serving
      <4>7. QED BY <3>2, <4>5, <4>6
    <3>6. CASE RemoveFiles(c)
      BY <3>2, <3>6, <2>a, ZenonT(60) DEF RemoveFiles, RemovesSocket, RemovesPid, At, Moves, SocketTypes, OneInTransit, NobodyServes, OwnsSoFar,
           Serving, Transit, Starting, Stopping
    <3>7. CASE Bind(c)
      BY <3>2, <3>7, <2>a, <2>b, ZenonT(60) DEF Bind, At, Moves, SocketTypes, OneInTransit, NobodyServes, OwnsSoFar,
           Serving, Transit, Starting, Stopping
    <3>8. CASE Chmod(c)
      BY <3>2, <3>8, <2>a, <2>b DEF Chmod, At, Moves, files, SocketTypes, OneInTransit, NobodyServes, OwnsSoFar,
           Serving, Transit, Starting, Stopping
    <3>9. CASE WritePid(c)
      BY <3>2, <3>9, <2>a, <2>b, ZenonT(60) DEF WritePid, At, Moves, SocketTypes, OneInTransit, NobodyServes, OwnsSoFar,
           Serving, Transit, Starting, Stopping
    <3>10. CASE CloseFiles(c)
      <4>1. phase[c] \in Stopping BY <3>10 DEF CloseFiles, At, Stopping
      <4>2. PICK next \in Stopping \cup {"gone"} : phase' = [phase EXCEPT ![c] = next]
        BY <3>10 DEF CloseFiles, At, Moves, Stopping
      <4>3. \A d \in Cockpits : phase[d] # "serving"
        BY <4>1, <2>a DEF NobodyServes, Transit, Starting, Stopping
      <4>4. \A d \in Cockpits : d # c => phase[d] \notin Transit
        BY <4>1, <2>a DEF OneInTransit, Transit
      <4>5. NobodyServes' /\ Serving'
        BY <4>2, <4>3, <2>a DEF SocketTypes, NobodyServes, Serving, Stopping
      <4>6. OwnsSoFar'
        BY <4>2, <4>4, <2>a DEF SocketTypes, OwnsSoFar, Transit, Starting, Stopping
      <4>7. QED BY <3>2, <4>5, <4>6
    <3>11. CASE Quit(c)
      BY <3>2, <3>11, <2>a, <2>b DEF Quit, At, Moves, files, SocketTypes, OneInTransit, NobodyServes, OwnsSoFar,
           Serving, Transit, Starting, Stopping
    <3>12. CASE Crash(c)
      BY <3>2, <3>12, <2>a DEF Crash, Moves, SocketTypes, NobodyServes, OwnsSoFar, Serving, Transit, Starting, Stopping
    <3>13. QED
      BY <2>2, <3>3, <3>4, <3>5, <3>6, <3>7, <3>8, <3>9, <3>10, <3>11, <3>12 DEF SocketStep, CockpitStep
  <2>3. QED BY <2>1, <2>2
<1>4. QED BY <1>2, <1>3

LEMMA SocketAtStart == Init => SocketInv
<1> SUFFICES ASSUME Init PROVE SocketInv OBVIOUS
<1>1. PICK s \in Scenes : InitSocket(s.cockpits) BY DEF Init
<1>2. phase \in [Cockpits -> {"unborn", "gone"}] /\ sock = None /\ pid_file = None /\ overlapped = FALSE
  BY <1>1 DEF InitSocket
<1>3. QED
  BY <1>2 DEF SocketInv, SocketTypes, Phases, OneInTransit, NobodyServes, OwnsSoFar, Serving, Transit,
       Starting, Stopping

\* The clients and the connections leave bus.sock alone
LEMMA OnlyCockpitsTouchTheSocket ==
    ASSUME Next
    PROVE  UNCHANGED socket \/ \E c \in Cockpits : SocketStep(c)
<1>1. CASE \E c \in Cockpits : CockpitStarts(c) \/ CockpitMoves(c) \/ CockpitQuits(c)
             \/ CockpitCrashes(c) \/ PidIsReused(c)
  BY <1>1 DEF CockpitStarts, CockpitMoves, CockpitQuits, CockpitCrashes, PidIsReused, SocketStep
<1>2. ASSUME NEW cl \in Clients, ClientStep(cl) PROVE UNCHANGED socket
  BY <1>2 DEF ClientStep, Connect, ConnectFails, SendRequest, ReadReply, RequestFails
<1>3. ASSUME NEW cl \in Clients, ServerStep(cl) PROVE UNCHANGED socket
  BY <1>3 DEF ServerStep, Accept, TooLarge, NoEnvelope, Greet, Refuse, Handle, Dispatch, Answer, AskWindowSystem,
       WriteReply
<1>4. ASSUME NEW cl \in Clients, \/ WindowSystemAnswers(cl) \/ BadArguments(cl) \/ Killed(cl)
              \/ ReadMessage(cl) \/ StdinEnds(cl) \/ PeerConnects(cl) \/ PeerSends(cl) \/ PeerReads(cl)
              \/ PeerLeaves(cl)
      PROVE UNCHANGED socket
  BY <1>4 DEF WindowSystemAnswers, BadArguments, Killed, ReadMessage, StdinEnds, PeerConnects, PeerSends,
       PeerReads, PeerLeaves
<1>5. QED BY <1>1, <1>2, <1>3, <1>4 DEF Next

LEMMA SocketInvHolds == Spec => []SocketInv
<1>1. SocketInv /\ [Next]_vars => SocketInv'
  <2> SUFFICES ASSUME SocketInv, [Next]_vars PROVE SocketInv' OBVIOUS
  <2>1. CASE UNCHANGED socket
    BY <2>1 DEF socket, files, SocketInv, SocketTypes, OneInTransit, NobodyServes, OwnsSoFar, Serving
  <2>2. CASE \E c \in Cockpits : SocketStep(c) BY <2>2, SocketStepKeeps
  <2>3. QED BY <2>1, <2>2, OnlyCockpitsTouchTheSocket DEF vars
<1>2. QED BY <1>1, SocketAtStart, PTL DEF Spec

\* Whatever has crashed before, and however many cockpits there are: who
\* listens is the one bus.sock leads to and the one the pid file names, as
\* long as no two were ever starting or stopping at once (reclaim_stale).
THEOREM SocketCorrect == Spec => []OwnSocket
<1>1. SocketInv => OwnSocket BY DEF SocketInv, Serving, OwnSocket
<1>2. QED BY <1>1, SocketInvHolds, PTL

-----------------------------------------------------------------------------
(* The contract of the bus *)

Peculiar == {"anchor_active", "session_list"}

\* What the commands rely on: a command asks for what the bus thread or the
\* GTK thread serves, takes no error for an answer, and, but for two, takes
\* every answer of a handler that has done what it asked
GoodCommand(p, e) ==
    /\ e.asks # "hello" /\ e.asks # "too large" /\ e.asks # "not an envelope"
    /\ "error" \notin e.takes
    /\ p \notin Peculiar => Success(e.asks) \subseteq e.takes

\* every reply of success to a request is one of S
LEMMA SuccessWithin ==
    ASSUME NEW kind, NEW S, \A q \in Results : q[1] = kind => q[2] \in S,
           "ok" \in S \/ \E q \in Results : q[1] = kind
    PROVE  Success(kind) \subseteq S
<1>1. OwnResults(kind) \subseteq S BY DEF OwnResults
<1>2. (\E q \in Results : q[1] = kind) => OwnResults(kind) # {} BY DEF OwnResults
<1>3. QED BY <1>1, <1>2 DEF Success

Covers(e) ==
    /\ \A q \in Results : q[1] = e.asks => q[2] \in e.takes
    /\ "ok" \in e.takes \/ \E q \in Results : q[1] = e.asks

Plain(e) ==
    /\ e.asks # "hello" /\ e.asks # "too large" /\ e.asks # "not an envelope"
    /\ "error" \notin e.takes

\* a write is answered with ok, or refused
LEMMA WritesAreGood ==
    ASSUME NEW kind, kind \notin {"hello", "too large", "not an envelope"},
           \A q \in Results : q[1] # kind
    PROVE  Plain(Write(kind)) /\ Covers(Write(kind))
BY DEF Plain, Covers, Write

GoodEntry(p, e) ==
    /\ Plain(e)
    /\ p \notin Peculiar => Covers(e)
    /\ p \notin {"mcp", "peer", "nobody"}

Good(t) == \A p \in DOMAIN t : GoodEntry(p, t[p])

LEMMA TablesAreGood == \A t \in Tables : Good(t)
<1> DEFINE Writes == {"satellite.attach_focused", "satellite.attach_window", "satellite.open",
          "anchor.new", "anchor.activate", "pane.send_input", "pane.rename", "anchor.pause",
          "anchor.resume", "anchor.hide", "anchor.reattach", "anchor.untag", "anchor.tag",
          "session.rename", "session.open", "session.delete", "session.new"}
<1> DEFINE Own == {"session.list", "status.get", "satellite.list_windows", "pane.list", "anchor.list",
          "pane.new", "pane.tail", "pane.capture", "grant.request", "anchor.tag_self"}
<1>0. ASSUME NEW q \in Results PROVE q[1] \in Own
  BY DEF Results
<1>1. \A kind \in Writes : Plain(Write(kind)) /\ Covers(Write(kind))
  BY <1>0, WritesAreGood, ZenonT(60)
<1> USE DEF Results, NoneActive
<1>3. Plain(Question("satellite.list_windows", {"satellite.list_windows.result"}))
        /\ Covers(Question("satellite.list_windows", {"satellite.list_windows.result"}))
  BY DEF Plain, Covers, Question
<1>4. Plain(Question("anchor.list", {"anchor.list.result", NoneActive}))
        /\ Covers(Question("anchor.list", {"anchor.list.result", NoneActive}))
  BY DEF Plain, Covers, Question
<1>5. Plain(Question("anchor.list", {"anchor.list.result"})) BY DEF Plain, Question
<1>6. Plain(Question("status.get", {"status.get.result"})) /\ Covers(Question("status.get", {"status.get.result"}))
  BY DEF Plain, Covers, Question
<1>7. Plain(Question("pane.list", {"pane.list.result"})) /\ Covers(Question("pane.list", {"pane.list.result"}))
  BY DEF Plain, Covers, Question
<1>8. Plain(Question("pane.new", {"pane.new.result"})) /\ Covers(Question("pane.new", {"pane.new.result"}))
  BY DEF Plain, Covers, Question
<1>9. /\ Plain(Question("pane.tail", {"pane.transcript.result"}))
      /\ Covers(Question("pane.tail", {"pane.transcript.result"}))
      /\ Plain(Question("pane.capture", {"pane.transcript.result"}))
      /\ Covers(Question("pane.capture", {"pane.transcript.result"}))
  BY DEF Plain, Covers, Question
<1>10. Plain(Question("session.list", {"session.list.result"})) BY DEF Plain, Question
<1>11. Plain(Question("anchor.tag_self", {"anchor.tag_self.result"}))
         /\ Covers(Question("anchor.tag_self", {"anchor.tag_self.result"}))
  BY DEF Plain, Covers, Question
<1> HIDE DEF Results, NoneActive
<1>12. Good(SatelliteCommands) BY <1>1, <1>3 DEF Good, GoodEntry, SatelliteCommands
<1>13. Good(OpenAndAnchorCommands) BY <1>1, <1>4, <1>5, <1>6 DEF Good, GoodEntry, OpenAndAnchorCommands, Peculiar
<1>14. Good(PaneCommands) BY <1>7, <1>8, <1>9 DEF Good, GoodEntry, PaneCommands
<1>15. Good(PaneInputCommands) BY <1>1 DEF Good, GoodEntry, PaneInputCommands
<1>16. Good(LifecycleCommands) BY <1>1 DEF Good, GoodEntry, LifecycleCommands
<1>17. Good(TagCommands) BY <1>1 DEF Good, GoodEntry, TagCommands
<1>18. Good(SessionCommands) BY <1>1 DEF Good, GoodEntry, SessionCommands
<1>19. Good(SessionDelete) /\ Good(SessionNew) BY <1>1 DEF Good, GoodEntry, SessionDelete, SessionNew
<1>20. Good(SessionList) BY <1>10 DEF Good, GoodEntry, SessionList, Peculiar
<1>21. Good(MarkAnchor) BY <1>11 DEF Good, GoodEntry, MarkAnchor
<1>22. QED
  BY <1>12, <1>13, <1>14, <1>15, <1>16, <1>17, <1>18, <1>19, <1>20, <1>21 DEF Tables

LEMMA CliIsGood ==
    \A p \in DOMAIN Cli : GoodCommand(p, Cli[p]) /\ p \notin {"mcp", "peer", "nobody"}
<1> SUFFICES ASSUME NEW p \in DOMAIN Cli
    PROVE GoodCommand(p, Cli[p]) /\ p \notin {"mcp", "peer", "nobody"} OBVIOUS
<1>1. PICK t \in Tables : p \in DOMAIN t /\ Cli[p] = t[p] BY DEF Cli
<1>2. Plain(Cli[p]) /\ (p \notin Peculiar => Covers(Cli[p])) /\ p \notin {"mcp", "peer", "nobody"}
  BY <1>1, TablesAreGood DEF Good, GoodEntry
<1>3. Covers(Cli[p]) => Success(Cli[p].asks) \subseteq Cli[p].takes
  BY SuccessWithin DEF Covers
<1>4. QED BY <1>2, <1>3 DEF GoodCommand, Plain

-----------------------------------------------------------------------------
(* What every client has to itself *)

IsConn(r) == r = [to |-> r.to, link |-> r.link, role |-> r.role, inbox |-> r.inbox, replies |-> r.replies]
IsWork(w) == w = [at |-> w.at, id |-> w.id, kind |-> w.kind]

FunctionInv ==
    /\ program \in [Clients -> DOMAIN Cli \cup {"mcp", "peer", "nobody"}]
    /\ pc = [x \in Clients |-> pc[x]]
    /\ tool = [x \in Clients |-> tool[x]]
    /\ calls = [x \in Clients |-> calls[x]]
    /\ outcome = [x \in Clients |-> outcome[x]]
    /\ got = [x \in Clients |-> got[x]]
    /\ conn = [x \in Clients |-> conn[x]]
    /\ work = [x \in Clients |-> work[x]]
    /\ served = [x \in Clients |-> served[x]]
    /\ deferred \in [Cockpits -> Seq(Clients)]

ARecord(cl) == IsConn(conn[cl]) /\ IsWork(work[cl]) /\ conn[cl].to \in Cockpits \cup {None}

ShapeInv == FunctionInv /\ \A x \in Clients : ARecord(x)

\* the steps of a client and of the tasks that serve it
PeerStep(cl) == PeerConnects(cl) \/ PeerSends(cl) \/ PeerReads(cl) \/ PeerLeaves(cl)
UserStep(cl) == BadArguments(cl) \/ Killed(cl) \/ ReadMessage(cl) \/ StdinEnds(cl)
Acts(cl) ==
    ClientStep(cl) \/ ServerStep(cl) \/ WindowSystemAnswers(cl) \/ UserStep(cl) \/ PeerStep(cl)

\* the steps of a cockpit
Lives(c) ==
    CockpitStarts(c) \/ CockpitMoves(c) \/ CockpitQuits(c) \/ CockpitCrashes(c) \/ PidIsReused(c)

LEMMA NextIs == Next <=> (\E c \in Cockpits : Lives(c)) \/ (\E cl \in Clients : Acts(cl))
BY DEF Next, Lives, Acts, PeerStep, UserStep

View(cl) == <<pc[cl], calls[cl], outcome[cl], got[cl], conn[cl], work[cl], served[cl]>>

\* what a client does, and what is done for it, is nothing to the others
LEMMA Elsewhere ==
    ASSUME ShapeInv, NEW cl \in Clients, NEW d \in Clients, d # cl, Acts(d)
    PROVE  UNCHANGED View(cl)
<1> USE DEF ShapeInv, FunctionInv, View
<1>1. CASE ClientStep(d)
  BY <1>1 DEF ClientStep, Connect, Connects, ConnectFails, SendRequest, ReadReply, RequestFails, Ends, Closed, server
<1>2. CASE UserStep(d)
  BY <1>2 DEF UserStep, BadArguments, Killed, ReadMessage, StdinEnds, Ends, Closed, server
<1>3. CASE PeerStep(d)
  BY <1>3 DEF PeerStep, PeerConnects, Connects, PeerSends, PeerReads, PeerLeaves, Closed, server
<1>4. CASE WindowSystemAnswers(d) BY <1>4 DEF WindowSystemAnswers, Finishes, Returns, client
<1>5. CASE ServerStep(d)
  <2>1. CASE Accept(d) BY <2>1 DEF Accept, client, server
  <2>2. CASE TooLarge(d) BY <2>2 DEF TooLarge, client, server
  <2>3. CASE NoEnvelope(d) BY <2>3 DEF NoEnvelope, Reply, client, server
  <2>4. CASE Greet(d) BY <2>4 DEF Greet, Reply, client, server
  <2>5. CASE Refuse(d) BY <2>5 DEF Refuse, Reply, client, server
  <2>6. CASE Handle(d) BY <2>6 DEF Handle, client
  <2>7. CASE Dispatch(d) BY <2>7 DEF Dispatch, client
  <2>8. CASE Answer(d) BY <2>8 DEF Answer, Finishes, Returns, client
  <2>9. CASE AskWindowSystem(d) BY <2>9 DEF AskWindowSystem, Returns, client
  <2>w. CASE WriteReply(d) BY <2>w DEF WriteReply, client
  <2>10. QED BY <1>5, <2>1, <2>2, <2>3, <2>4, <2>5, <2>6, <2>7, <2>8, <2>9, <2>w DEF ServerStep
<1>6. QED BY <1>1, <1>2, <1>3, <1>4, <1>5 DEF Acts

\* clients leave the cockpits and their own kind alone
LEMMA ActsLeaves ==
    ASSUME NEW cl \in Clients, Acts(cl)
    PROVE  UNCHANGED <<socket, program, foreign>>
<1>1. CASE ClientStep(cl) BY <1>1 DEF ClientStep, Connect, ConnectFails, SendRequest, ReadReply, RequestFails
<1>2. CASE UserStep(cl) BY <1>2 DEF UserStep, BadArguments, Killed, ReadMessage, StdinEnds
<1>3. CASE PeerStep(cl) BY <1>3 DEF PeerStep, PeerConnects, PeerSends, PeerReads, PeerLeaves
<1>4. CASE WindowSystemAnswers(cl) BY <1>4 DEF WindowSystemAnswers, client
<1>5. CASE ServerStep(cl)
  BY <1>5 DEF ServerStep, Accept, TooLarge, NoEnvelope, Greet, Refuse, Handle, Dispatch, Answer, AskWindowSystem,
       WriteReply, client
<1>6. QED BY <1>1, <1>2, <1>3, <1>4, <1>5 DEF Acts

\* What a client keeps when a cockpit moves: its connection, or the connection
\* and the request it had there are dropped
Dropped(cl, c) ==
    /\ conn[cl].to = c
    /\ conn'[cl] = IF conn[cl].link \in {"backlog", "open"}
                     THEN [conn[cl] EXCEPT !.link = "cut", !.inbox = <<>>] ELSE conn[cl]
    /\ work'[cl] = NoWork

Refused(cl, c) ==
    /\ conn[cl].to = c
    /\ conn[cl].link = "backlog"
    /\ conn'[cl] = [conn[cl] EXCEPT !.link = "cut", !.inbox = <<>>]
    /\ UNCHANGED work[cl]

LEMMA CutDrops ==
    ASSUME ShapeInv, NEW c \in Cockpits, Cut(c), NEW cl \in Clients
    PROVE  /\ \/ Dropped(cl, c)
              \/ (conn[cl].to # c \/ conn[cl].link = "none") /\ UNCHANGED <<conn[cl], work[cl]>>
           /\ UNCHANGED served
           /\ deferred' = [deferred EXCEPT ![c] = <<>>]
BY ZenonT(60) DEF ShapeInv, FunctionInv, Cut, Dropped

LEMMA LivesLeaves ==
    ASSUME NEW c \in Cockpits, Lives(c)
    PROVE  UNCHANGED <<client, served>>
BY DEF Lives, CockpitStarts, CockpitMoves, CockpitQuits, CockpitCrashes, PidIsReused, Cut, server

LEMMA LivesIs ==
    ASSUME ShapeInv, SocketTypes, NEW c \in Cockpits, Lives(c)
    PROVE  \/ UNCHANGED <<conn, work, deferred>> /\ (phase'[c] \in {"no bus", "gone"} => UNCHANGED phase)
           \/ Quit(c) /\ UNCHANGED <<work, deferred>>
                /\ \A cl \in Clients : Refused(cl, c) \/
                      ((conn[cl].to # c \/ conn[cl].link # "backlog") /\ UNCHANGED conn[cl])
           \/ Cut(c) /\ phase'[c] \in {"no bus", "gone"}
<1>1. CASE CockpitStarts(c) BY <1>1 DEF CockpitStarts, Start, At, Moves, server, SocketTypes
<1>2. CASE CockpitMoves(c)  BY <1>2 DEF CockpitMoves, server
<1>3. CASE CockpitQuits(c)  BY <1>3 DEF CockpitQuits, Refused, ShapeInv, FunctionInv, server
<1>4. CASE CockpitCrashes(c) BY <1>4 DEF CockpitCrashes, Crash, Moves, SocketTypes
<1>5. CASE PidIsReused(c)  BY <1>5 DEF PidIsReused, ReusePid, server
<1>6. QED BY <1>1, <1>2, <1>3, <1>4, <1>5 DEF Lives

LEMMA FunctionActs ==
    ASSUME ShapeInv, NEW cl \in Clients, Acts(cl)
    PROVE  FunctionInv'
<1>0. FunctionInv /\ conn[cl].to \in Cockpits \cup {None} BY DEF ShapeInv, ARecord
<1> USE <1>0 DEF FunctionInv
<1>1. CASE ClientStep(cl)
  BY <1>1 DEF ClientStep, Connect, Connects, ConnectFails, SendRequest, ReadReply, RequestFails, Ends, Closed, server
<1>2. CASE UserStep(cl)
  BY <1>2 DEF UserStep, BadArguments, Killed, ReadMessage, StdinEnds, Ends, Closed, server
<1>3. CASE PeerStep(cl)
  BY <1>3 DEF PeerStep, PeerConnects, Connects, PeerSends, PeerReads, PeerLeaves, Closed, server
<1>4. CASE WindowSystemAnswers(cl) BY <1>4 DEF WindowSystemAnswers, Finishes, Returns, client
<1>5. CASE ServerStep(cl)
  <2>1. CASE Accept(cl) BY <2>1 DEF Accept, client, server
  <2>2. CASE TooLarge(cl) BY <2>2 DEF TooLarge, client, server
  <2>3. CASE NoEnvelope(cl) BY <2>3 DEF NoEnvelope, Reply, client, server
  <2>4. CASE Greet(cl) BY <2>4 DEF Greet, Reply, client, server
  <2>5. CASE Refuse(cl) BY <2>5 DEF Refuse, Reply, client, server
  <2>6. CASE Handle(cl)
    <3>1. deferred' \in [Cockpits -> Seq(Clients)]
      <4>1. conn[cl].to \in Cockpits BY <2>6 DEF Handle, Serves, Live
      <4>2. Append(deferred[conn[cl].to], cl) \in Seq(Clients) BY <4>1
      <4>3. deferred' = deferred \/ deferred' = [deferred EXCEPT ![conn[cl].to] = Append(@, cl)]
        BY <2>6 DEF Handle
      <4>4. QED BY <4>2, <4>3
    <3>2. UNCHANGED <<client, served>> /\ work' = [x \in Clients |-> work'[x]] /\ conn' = [x \in Clients |-> conn'[x]]
      BY <2>6 DEF Handle
    <3>3. QED BY <3>1, <3>2 DEF client
  <2>7. CASE Dispatch(cl)
    <3>1. deferred' \in [Cockpits -> Seq(Clients)]
      <4>1. conn[cl].to \in Cockpits BY <2>7 DEF Dispatch, Live
      <4>2. Tail(deferred[conn[cl].to]) \in Seq(Clients) BY <4>1, <2>7 DEF Dispatch
      <4>3. deferred' = [deferred EXCEPT ![conn[cl].to] = Tail(@)] BY <2>7 DEF Dispatch
      <4>4. QED BY <4>2, <4>3
    <3>2. UNCHANGED <<client, conn, served>> /\ work' = [x \in Clients |-> work'[x]] BY <2>7 DEF Dispatch
    <3>3. QED BY <3>1, <3>2 DEF client
  <2>8. CASE Answer(cl) BY <2>8 DEF Answer, Finishes, Returns, client
  <2>9. CASE AskWindowSystem(cl) BY <2>9 DEF AskWindowSystem, Returns, client
  <2>w. CASE WriteReply(cl) BY <2>w DEF WriteReply, client
  <2>10. QED BY <1>5, <2>1, <2>2, <2>3, <2>4, <2>5, <2>6, <2>7, <2>8, <2>9, <2>w DEF ServerStep
<1>6. QED BY <1>1, <1>2, <1>3, <1>4, <1>5 DEF Acts

LEMMA FunctionLives ==
    ASSUME ShapeInv, NEW c \in Cockpits, Lives(c)
    PROVE  FunctionInv'
<1>0. FunctionInv BY DEF ShapeInv
<1>1. UNCHANGED <<client, served>> BY LivesLeaves
<1>2. CASE UNCHANGED <<conn, work, deferred>> BY <1>0, <1>1, <1>2 DEF FunctionInv, client
<1>3. CASE CockpitQuits(c) BY <1>0, <1>1, <1>3 DEF CockpitQuits, FunctionInv, client, server
<1>4. CASE Cut(c)
  <2>1. deferred' \in [Cockpits -> Seq(Clients)]
    <3>1. <<>> \in Seq(Clients) OBVIOUS
    <3>2. deferred' = [deferred EXCEPT ![c] = <<>>] BY <1>4 DEF Cut
    <3>3. QED BY <1>0, <3>1, <3>2 DEF FunctionInv
  <2>2. work' = [x \in Clients |-> work'[x]] /\ conn' = [x \in Clients |-> conn'[x]] BY <1>4 DEF Cut
  <2>3. QED BY <1>0, <1>1, <2>1, <2>2 DEF FunctionInv, client
<1>5. QED BY <1>2, <1>3, <1>4
      DEF Lives, CockpitStarts, CockpitMoves, CockpitCrashes, PidIsReused, server

\* the ways a connection changes
Changed(r, s) ==
    s = [r EXCEPT !.link = s.link, !.inbox = s.inbox, !.replies = s.replies, !.role = s.role]

LEMMA ChangedShape ==
    ASSUME NEW r, NEW s, IsConn(r), Changed(r, s)
    PROVE  IsConn(s) /\ s.to = r.to
BY DEF Changed, IsConn

LEMMA RecordActs ==
    ASSUME ShapeInv, SocketTypes, NEW cl \in Clients, Acts(cl)
    PROVE  ARecord(cl)'
<1>0. /\ conn = [x \in Clients |-> conn[x]] /\ work = [x \in Clients |-> work[x]]
      /\ IsConn(conn[cl]) /\ IsWork(work[cl]) /\ conn[cl].to \in Cockpits \cup {None}
  BY DEF ShapeInv, FunctionInv, ARecord
<1>1. ASSUME NEW to, NEW frames, Connects(cl, to, frames), UNCHANGED work PROVE ARecord(cl)'
  <2>1. conn'[cl] = [NoConn EXCEPT !.to = sock, !.link = "backlog", !.inbox = frames]
    BY <1>1, <1>0 DEF Connects
  <2>2. IsConn(conn'[cl]) /\ conn'[cl].to = sock BY <2>1 DEF IsConn, NoConn
  <2>3. QED BY <2>2, <1>0, <1>1 DEF ARecord, SocketTypes
<1>2. ASSUME Changed(conn[cl], conn'[cl]), IsWork(work'[cl]) PROVE ARecord(cl)'
  BY <1>0, <1>2, ChangedShape DEF ARecord
<1>3. ASSUME UNCHANGED conn, IsWork(work'[cl]) PROVE ARecord(cl)' BY <1>0, <1>3 DEF ARecord
<1>4. ASSUME NEW q, conn' = [conn EXCEPT ![cl].replies = q] \/ conn' = [conn EXCEPT ![cl].inbox = q],
             IsWork(work'[cl])
      PROVE ARecord(cl)'
  BY <1>0, <1>2, <1>4, ZenonT(60) DEF Changed, IsConn
<1>5. ASSUME NEW q, NEW i, conn' = [conn EXCEPT ![cl].replies = q, ![cl].inbox = i] \/
               conn' = [conn EXCEPT ![cl].inbox = i, ![cl].replies = q], IsWork(work'[cl])
      PROVE ARecord(cl)'
  <2>1. conn'[cl] = [conn[cl] EXCEPT !.replies = q, !.inbox = i] \/ conn'[cl] = [conn[cl] EXCEPT !.inbox = i, !.replies = q]
    BY <1>0, <1>5
  <2>2. Changed(conn[cl], conn'[cl]) BY <1>0, <2>1 DEF Changed, IsConn
  <2>3. QED BY <1>2, <1>5, <2>2
<1>6. ASSUME conn' = Closed(cl), IsWork(work'[cl]) PROVE ARecord(cl)'
  BY <1>0, <1>2, <1>6 DEF Changed, IsConn, Closed
<1>7. IsWork(NoWork) BY DEF IsWork, NoWork
<1>10. CASE ClientStep(cl)
  <2>0. IsWork(work'[cl])
    BY <1>0, <1>10 DEF ClientStep, Connect, ConnectFails, SendRequest, ReadReply, RequestFails, server
  <2>1. CASE Connect(cl) BY <2>1, <1>1 DEF Connect, server
  <2>2. CASE ConnectFails(cl) BY <2>2, <2>0, <1>3 DEF ConnectFails
  <2>3. CASE SendRequest(cl) BY <2>3, <2>0, <1>5 DEF SendRequest
  <2>4. CASE ReadReply(cl) \/ RequestFails(cl) BY <2>4, <2>0, <1>6 DEF ReadReply, RequestFails
  <2>5. QED BY <1>10, <2>1, <2>2, <2>3, <2>4 DEF ClientStep
<1>11. CASE UserStep(cl)
  BY <1>0, <1>3, <1>6, <1>11 DEF UserStep, BadArguments, Killed, ReadMessage, StdinEnds, server
<1>12. CASE PeerStep(cl)
  BY <1>0, <1>1, <1>4, <1>6, <1>12 DEF PeerStep, PeerConnects, PeerSends, PeerReads, PeerLeaves, server
<1>13. ASSUME NEW a, NEW e, Returns(cl, a, e), UNCHANGED conn PROVE ARecord(cl)'
  <2>1. IsWork(work'[cl]) BY <1>0, <1>13 DEF Returns, IsWork
  <2>2. QED BY <1>3, <1>13, <2>1
<1>14. CASE ServerStep(cl) \/ WindowSystemAnswers(cl)
  <2>1. CASE Accept(cl)
    BY <1>0, <1>2, <2>1 DEF Accept, Changed, IsConn, server
  <2>2. CASE TooLarge(cl) BY <1>0, <1>2, <2>2 DEF TooLarge, Changed, IsConn, server
  <2>3. CASE NoEnvelope(cl) BY <1>0, <1>5, <2>3 DEF NoEnvelope, Reply, server
  <2>4. CASE Greet(cl) BY <1>0, <1>2, <2>4 DEF Greet, Reply, Changed, IsConn, server
  <2>5. CASE Refuse(cl) BY <1>0, <1>5, <2>5 DEF Refuse, Reply, server
  <2>6. CASE Handle(cl)
    <3>1. IsWork(work'[cl]) BY <1>0, <2>6 DEF Handle, IsWork
    <3>2. QED BY <3>1, <1>4, <2>6 DEF Handle
  <2>7. CASE Dispatch(cl)
    <3>1. IsWork(work'[cl]) BY <1>0, <2>7 DEF Dispatch, IsWork
    <3>2. QED BY <3>1, <1>3, <2>7 DEF Dispatch
  <2>8. CASE Answer(cl) BY <1>13, <2>8 DEF Answer, Finishes
  <2>9. CASE AskWindowSystem(cl)
    <3>1. ASSUME work' = [work EXCEPT ![cl].at = "window system"] PROVE IsWork(work'[cl])
      BY <1>0, <3>1 DEF IsWork
    <3>2. QED BY <3>1, <1>3, <1>13, <2>9 DEF AskWindowSystem
  <2>w. CASE WriteReply(cl)
    <3>1. IsWork(work'[cl]) BY <1>0, <1>7, <2>w DEF WriteReply
    <3>2. QED BY <3>1, <1>3, <1>4, <2>w DEF WriteReply
  <2>10. CASE WindowSystemAnswers(cl) BY <1>13, <2>10 DEF WindowSystemAnswers, Finishes
  <2>11. QED BY <1>14, <2>1, <2>2, <2>3, <2>4, <2>5, <2>6, <2>7, <2>8, <2>9, <2>w, <2>10 DEF ServerStep
<1>15. QED BY <1>10, <1>11, <1>12, <1>14 DEF Acts

LEMMA ShapeActs ==
    ASSUME ShapeInv, SocketTypes, NEW cl \in Clients, Acts(cl)
    PROVE  ShapeInv'
<1>1. ASSUME NEW x \in Clients PROVE ARecord(x)'
  <2>1. CASE x = cl BY <2>1, RecordActs
  <2>2. CASE x # cl BY <2>2, Elsewhere DEF View, ShapeInv, ARecord
  <2>3. QED BY <2>1, <2>2
<1>2. QED BY <1>1, FunctionActs DEF ShapeInv

LEMMA ShapeLives ==
    ASSUME ShapeInv, SocketTypes, NEW c \in Cockpits, Lives(c)
    PROVE  ShapeInv'
<1>1. ASSUME NEW x \in Clients PROVE ARecord(x)'
  <2>0. IsConn(conn[x]) /\ IsWork(work[x]) /\ conn[x].to \in Cockpits \cup {None} BY DEF ShapeInv, ARecord
  <2>1. IsWork(NoWork) BY DEF IsWork, NoWork
  <2>2. CASE Dropped(x, c) BY <2>0, <2>1, <2>2, ChangedShape DEF Dropped, ARecord, Changed, IsConn
  <2>3. CASE Refused(x, c) BY <2>0, <2>3, ChangedShape DEF Refused, ARecord, Changed, IsConn
  <2>4. CASE UNCHANGED <<conn[x], work[x]>> BY <2>0, <2>4 DEF ARecord
  <2>5. QED BY <2>2, <2>3, <2>4, LivesIs, CutDrops
<1>2. QED BY <1>1, FunctionLives DEF ShapeInv

-----------------------------------------------------------------------------
(* The channel to the GTK thread *)

\* a request waits there once, in the channel of the cockpit it was sent to
Queued(cl) ==
    \A c \in Cockpits : \A i \in DOMAIN deferred[c] :
        deferred[c][i] = cl =>
            /\ c = conn[cl].to
            /\ work[cl].at = "queued"
            /\ \A j \in DOMAIN deferred[c] : deferred[c][j] = cl => j = i

Absent(cl, q) == \A i \in DOMAIN q : q[i] # cl

\* a program that connects for the first time has asked for nothing yet
Fresh(cl) == pc[cl] # "calling" /\ (pc[cl] = "ready" => work[cl] = NoWork)

LEMMA QueueOps ==
    ASSUME NEW q \in Seq(Clients), NEW d \in Clients
    PROVE  /\ Append(q, d) \in Seq(Clients) /\ DOMAIN Append(q, d) = DOMAIN q \cup {Len(q) + 1}
           /\ \A i \in DOMAIN q : Append(q, d)[i] = q[i]
           /\ Append(q, d)[Len(q) + 1] = d
           /\ Len(q) + 1 \notin DOMAIN q
           /\ q # <<>> => /\ 1 \in DOMAIN q /\ Head(q) = q[1]
                          /\ \A i \in DOMAIN Tail(q) : i + 1 \in DOMAIN q /\ Tail(q)[i] = q[i + 1] /\ i + 1 # 1
OBVIOUS

\* how the channels change for a client
LEMMA Channels ==
    ASSUME ShapeInv, NEW d \in Clients, Acts(d)
    PROVE  \/ Handle(d) /\ work[d].at = "idle" /\ conn[d].to \in Cockpits
                /\ deferred' = [deferred EXCEPT ![conn[d].to] = Append(@, d)]
                /\ work'[d].at = "queued" /\ conn'[d].to = conn[d].to
           \/ Dispatch(d) /\ conn[d].to \in Cockpits
                /\ deferred[conn[d].to] # <<>> /\ Head(deferred[conn[d].to]) = d
                /\ deferred' = [deferred EXCEPT ![conn[d].to] = Tail(@)]
                /\ UNCHANGED conn
           \/ UNCHANGED deferred /\ UNCHANGED <<work[d], conn[d].to>>
           \/ UNCHANGED deferred /\ work[d].at # "queued"
           \/ UNCHANGED deferred /\ pc[d] \in {"ready", "calling"} /\ UNCHANGED work
<1>0. FunctionInv /\ IsConn(conn[d]) /\ IsWork(work[d]) /\ conn[d].to \in Cockpits \cup {None}
  BY DEF ShapeInv, ARecord
<1>1. CASE ClientStep(d)
  <2>1. CASE Connect(d) \/ ConnectFails(d)
    BY <2>1, <1>0 DEF Connect, ConnectFails, server
  <2>2. CASE SendRequest(d) \/ ReadReply(d) \/ RequestFails(d)
    BY <2>2, <1>0 DEF SendRequest, ReadReply, RequestFails, Closed, server, FunctionInv, IsConn
  <2>3. QED BY <1>1, <2>1, <2>2 DEF ClientStep
<1>2. CASE UserStep(d)
  BY <1>2, <1>0, ZenonT(60) DEF UserStep, BadArguments, Killed, ReadMessage, StdinEnds, Closed, server, FunctionInv, IsConn
<1>3. CASE PeerStep(d)
  BY <1>3, <1>0 DEF PeerStep, PeerConnects, PeerSends, PeerReads, PeerLeaves, Closed, server, FunctionInv, IsConn
<1>4. CASE WindowSystemAnswers(d) BY <1>4 DEF WindowSystemAnswers
<1>5. CASE ServerStep(d)
  <2>1. CASE Accept(d) BY <2>1, <1>0 DEF Accept, server, FunctionInv, IsConn
  <2>2. CASE TooLarge(d) BY <2>2, <1>0 DEF TooLarge, server, FunctionInv, IsConn
  <2>3. CASE NoEnvelope(d) BY <2>3, <1>0 DEF NoEnvelope, Reply, server, FunctionInv, IsConn
  <2>4. CASE Greet(d) BY <2>4, <1>0 DEF Greet, Reply, server, FunctionInv, IsConn
  <2>5. CASE Refuse(d) BY <2>5, <1>0 DEF Refuse, Reply, server, FunctionInv, IsConn
  <2>6. CASE Handle(d)
    <3>1. work[d].at = "idle" /\ conn[d].to \in Cockpits BY <2>6, <1>0 DEF Handle, Serves, Live
    <3>2. conn'[d].to = conn[d].to BY <2>6, <1>0 DEF Handle, FunctionInv, IsConn
    <3>3. CASE Request(d).kind \in OnBusThread BY <3>1, <3>3, <2>6 DEF Handle
    <3>4. CASE Request(d).kind \notin OnBusThread
      BY <3>1, <3>2, <3>4, <2>6, <1>0 DEF Handle, FunctionInv
    <3>5. QED BY <3>3, <3>4
  <2>7. CASE Dispatch(d) BY <2>7, <1>0 DEF Dispatch, Live
  <2>8. CASE Answer(d) BY <2>8 DEF Answer
  <2>9. CASE AskWindowSystem(d) BY <2>9 DEF AskWindowSystem
  <2>w. CASE WriteReply(d) BY <2>w DEF WriteReply
  <2>10. QED BY <1>5, <2>1, <2>2, <2>3, <2>4, <2>5, <2>6, <2>7, <2>8, <2>9, <2>w DEF ServerStep
<1>6. QED BY <1>1, <1>2, <1>3, <1>4, <1>5 DEF Acts

LEMMA QueuedActs ==
    ASSUME ShapeInv, NEW cl \in Clients, Queued(cl), Fresh(cl), NEW d \in Clients, Acts(d)
    PROVE  Queued(cl)'
<1>0. deferred \in [Cockpits -> Seq(Clients)] BY DEF ShapeInv, FunctionInv
<1>1. d # cl => UNCHANGED <<conn[cl], work[cl]>> BY Elsewhere DEF View
<1>2. ASSUME work[cl].at # "queued" PROVE \A c \in Cockpits : Absent(cl, deferred[c])
  BY <1>2 DEF Queued, Absent
<1>3. ASSUME UNCHANGED deferred, \A c \in Cockpits : Absent(cl, deferred[c]) PROVE Queued(cl)'
  BY <1>3 DEF Queued, Absent
<1>4. ASSUME UNCHANGED deferred, UNCHANGED <<conn[cl].to, work[cl]>> PROVE Queued(cl)'
  BY <1>4 DEF Queued
<1>5. CASE UNCHANGED deferred /\ (UNCHANGED <<work[d], conn[d].to>> \/ work[d].at # "queued"
                                     \/ pc[d] \in {"ready", "calling"})
  <2>1. CASE d # cl BY <1>1, <1>4, <1>5, <2>1
  <2>2. CASE d = cl
    <3>1. NoWork.at # "queued" BY DEF NoWork
    <3>2. CASE UNCHANGED <<work[cl], conn[cl].to>> BY <1>4, <1>5, <3>2
    <3>3. CASE work[cl].at # "queued" BY <1>2, <1>3, <1>5, <3>3
    <3>4. CASE pc[cl] \in {"ready", "calling"} BY <3>1, <3>3, <3>4 DEF Fresh
    <3>5. QED BY <2>2, <3>2, <3>3, <3>4, <1>5
  <2>3. QED BY <2>1, <2>2
<1>6. CASE Handle(d) /\ work[d].at = "idle" /\ conn[d].to \in Cockpits
             /\ deferred' = [deferred EXCEPT ![conn[d].to] = Append(@, d)]
             /\ work'[d].at = "queued" /\ conn'[d].to = conn[d].to
  <2>1. ASSUME NEW c \in Cockpits, NEW i \in DOMAIN deferred'[c], deferred'[c][i] = cl
        PROVE  /\ c = conn'[cl].to
               /\ work'[cl].at = "queued"
               /\ \A j \in DOMAIN deferred'[c] : deferred'[c][j] = cl => j = i
    <3>1. CASE d = cl
      <4>1. Absent(cl, deferred[c]) BY <1>2, <1>6, <3>1
      <4>2. c = conn[cl].to BY <1>0, <1>6, <2>1, <3>1, <4>1 DEF Absent
      <4>3. deferred'[c] = Append(deferred[c], cl) BY <1>0, <1>6, <3>1, <4>2
      <4>4. QED BY <1>0, <1>6, <2>1, <3>1, <4>1, <4>2, <4>3, QueueOps DEF Absent
    <3>2. CASE d # cl
      <4>1. \A k \in DOMAIN deferred'[c] : deferred'[c][k] = cl => k \in DOMAIN deferred[c] /\ deferred[c][k] = cl
        <5>1. CASE c = conn[d].to
          BY <1>0, <1>6, <3>2, <5>1, QueueOps
        <5>2. CASE c # conn[d].to BY <1>0, <1>6, <5>2
        <5>3. QED BY <5>1, <5>2
      <4>2. QED BY <1>1, <2>1, <3>2, <4>1 DEF Queued
    <3>3. QED BY <3>1, <3>2
  <2>2. QED BY <2>1 DEF Queued
<1>7. CASE Dispatch(d) /\ conn[d].to \in Cockpits
             /\ deferred[conn[d].to] # <<>> /\ Head(deferred[conn[d].to]) = d
             /\ deferred' = [deferred EXCEPT ![conn[d].to] = Tail(@)]
             /\ UNCHANGED conn
  <2>1. ASSUME NEW c \in Cockpits, NEW i \in DOMAIN deferred'[c], deferred'[c][i] = cl
        PROVE  /\ c = conn'[cl].to
               /\ work'[cl].at = "queued"
               /\ \A j \in DOMAIN deferred'[c] : deferred'[c][j] = cl => j = i
    <3>1. CASE c # conn[d].to
      <4>1. deferred'[c] = deferred[c] BY <1>0, <1>7, <3>1
      <4>2. d # cl BY <2>1, <4>1, <3>1 DEF Queued
      <4>3. QED BY <1>1, <2>1, <4>1, <4>2 DEF Queued
    <3>2. CASE c = conn[d].to
      <4>1. deferred'[c] = Tail(deferred[c]) /\ deferred[c] # <<>> /\ Head(deferred[c]) = d BY <1>0, <1>7, <3>2
      <4>2. \A k \in DOMAIN deferred'[c] : deferred'[c][k] = cl =>
                k + 1 \in DOMAIN deferred[c] /\ deferred[c][k + 1] = cl /\ k + 1 # 1
        BY <1>0, <4>1, QueueOps
      <4>3. 1 \in DOMAIN deferred[c] /\ deferred[c][1] = d BY <1>0, <4>1, QueueOps
      <4>4. d # cl BY <2>1, <4>2, <4>3 DEF Queued
      <4>5. i \in Int /\ \A k \in DOMAIN deferred'[c] : k \in Int BY <1>0, <4>1, <2>1
      <4>6. QED BY <1>1, <2>1, <4>2, <4>4, <4>5 DEF Queued
    <3>3. QED BY <3>1, <3>2
  <2>2. QED BY <2>1 DEF Queued
<1>8. QED BY <1>5, <1>6, <1>7, Channels

LEMMA QueuedLives ==
    ASSUME ShapeInv, SocketTypes, NEW cl \in Clients, Queued(cl), NEW c \in Cockpits, Lives(c)
    PROVE  Queued(cl)'
<1>0. deferred \in [Cockpits -> Seq(Clients)] /\ IsConn(conn[cl]) BY DEF ShapeInv, FunctionInv, ARecord
<1>1. CASE UNCHANGED <<conn, work, deferred>> BY <1>1 DEF Queued
<1>2. CASE UNCHANGED <<work, deferred>> /\ (Refused(cl, c) \/ UNCHANGED conn[cl])
  BY <1>0, <1>2 DEF Queued, Refused, IsConn
<1>3. CASE Cut(c)
  <2>1. ASSUME NEW e \in Cockpits, NEW i \in DOMAIN deferred'[e], deferred'[e][i] = cl
        PROVE  e # c /\ deferred'[e] = deferred[e] /\ e = conn[cl].to
    <3>1. deferred' = [deferred EXCEPT ![c] = <<>>] BY <1>3, CutDrops
    <3>2. e # c BY <1>0, <3>1, <2>1
    <3>3. deferred'[e] = deferred[e] BY <1>0, <3>1, <3>2
    <3>4. QED BY <2>1, <3>2, <3>3 DEF Queued
  <2>2. ASSUME NEW e \in Cockpits, e # c, e = conn[cl].to PROVE UNCHANGED <<conn[cl], work[cl]>>
    BY <1>3, <2>2, CutDrops DEF Dropped
  <2>3. QED BY <2>1, <2>2 DEF Queued
<1>4. QED BY <1>1, <1>2, <1>3, LivesIs

-----------------------------------------------------------------------------
(* A command of lmux-cli: its request is in one place at a time *)

Asking(cl) == Cli[program[cl]].asks
Hello == Frame(HelloId, "hello")
Ack == Frame(HelloId, "hello_ack")
Sent(cl) == Frame(RequestId, Asking(cl))

\* what a reply says of the request it answers
Tells(cl, kind) ==
    \/ kind = "error" /\ (served[cl] = "done" => Asking(cl) \in Late)
    \/ /\ kind # "error" /\ kind \in Success(Asking(cl))
       /\ served[cl] = "done" \/ (served[cl] = "nothing" /\ Asking(cl) \in Unchecked)

Ready(cl) ==
    /\ pc[cl] = "ready" /\ outcome[cl] = None
    /\ conn[cl] = NoConn /\ work[cl] = NoWork /\ served[cl] = None

Greeting(cl) ==
    /\ pc[cl] = "greeting" /\ outcome[cl] = None
    /\ work[cl] = NoWork /\ served[cl] = None
    /\ conn[cl].to \in Cockpits
    /\ \/ /\ conn[cl].link \in {"backlog", "open"}
          /\ conn[cl].inbox = <<Hello>> /\ conn[cl].replies = <<>>
       \/ /\ conn[cl].link \in {"open", "cut"}
          /\ conn[cl].inbox = <<>> /\ conn[cl].replies = <<Ack>>
       \/ /\ conn[cl].link = "cut"
          /\ conn[cl].inbox = <<>>
          /\ conn[cl].replies = <<>> \/ conn[cl].replies = <<Frame(NilId, "error")>>

\* the request has not been read; it is being worked on; it is answered; it
\* has gone with its cockpit
Unread(cl) ==
    /\ conn[cl].inbox = <<Sent(cl)>> /\ conn[cl].replies = <<>>
    /\ work[cl] = NoWork /\ served[cl] = None

UnderWay(cl) ==
    /\ conn[cl].link = "open"
    /\ conn[cl].inbox = <<>> /\ conn[cl].replies = <<>>
    /\ work[cl].at # "idle" /\ work[cl].id = RequestId
    /\ IF work[cl].at = "answered" THEN Tells(cl, work[cl].kind)
                                  ELSE work[cl].kind = Asking(cl) /\ served[cl] = None

Answered(cl) ==
    /\ conn[cl].inbox = <<>> /\ work[cl] = NoWork
    /\ \E kind : conn[cl].replies = <<Frame(RequestId, kind)>> /\ Tells(cl, kind)

Lost(cl) ==
    /\ conn[cl].link = "cut"
    /\ conn[cl].inbox = <<>> /\ conn[cl].replies = <<>> /\ work[cl] = NoWork
    /\ served[cl] = "done" => phase[conn[cl].to] = "gone"

Waiting(cl) ==
    /\ pc[cl] = "waiting" /\ outcome[cl] = None
    /\ conn[cl].to \in Cockpits /\ conn[cl].link \in {"open", "cut"}
    /\ Unread(cl) \/ UnderWay(cl) \/ Answered(cl) \/ Lost(cl)

Done(cl) ==
    /\ pc[cl] = "done"
    /\ conn[cl].link \in {"none", "closed"}
    /\ CommandsTell(cl)
    /\ IF conn[cl].link = "none" THEN outcome[cl] # None /\ served[cl] # "done"
                                 ELSE conn[cl].to \in Cockpits
    /\ outcome[cl] # None => work[cl] = NoWork

\* who is connected is so to a cockpit that serves, or has not gone yet
StillThere(cl) ==
    conn[cl].link = "open" => phase[conn[cl].to] \in Stopping \cup {"serving"}

CommandInv(cl) ==
    /\ Ready(cl) \/ Greeting(cl) \/ Waiting(cl) \/ Done(cl)
    /\ StillThere(cl)
    /\ Queued(cl)

LEMMA OneElement ==
    ASSUME NEW x
    PROVE  /\ Head(<<x>>) = x /\ Tail(<<x>>) = <<>> /\ Append(<<>>, x) = <<x>> /\ <<x>> # <<>>
OBVIOUS

LEMMA Asks1 ==
    ASSUME NEW cl \in Clients, IsCommand(cl)
    PROVE  /\ Asks(cl) = Asking(cl)
           /\ Asking(cl) # "hello" /\ Asking(cl) # "too large" /\ Asking(cl) # "not an envelope"
           /\ "error" \notin Cli[program[cl]].takes
           /\ program[cl] \notin Peculiar => Success(Asking(cl)) \subseteq Cli[program[cl]].takes
           /\ program[cl] # "mcp" /\ program[cl] # "peer" /\ program[cl] # "nobody"
BY CliIsGood DEF IsCommand, Asks, Asking, GoodCommand

LEMMA AsksTheSame ==
    ASSUME NEW cl \in Clients, IsCommand(cl), UNCHANGED program
    PROVE  IsCommand(cl)' /\ Asks(cl)' = Asks(cl)
BY DEF IsCommand, Asks

LEMMA CommandClientStep ==
    ASSUME ShapeInv, SocketTypes, NEW cl \in Clients, IsCommand(cl), CommandInv(cl),
           ClientStep(cl) \/ UserStep(cl) \/ PeerStep(cl), UNCHANGED <<program, phase>>
    PROVE  (Ready(cl) \/ Greeting(cl) \/ Waiting(cl) \/ Done(cl))' /\ StillThere(cl)'
<1>0. /\ pc = [x \in Clients |-> pc[x]] /\ outcome = [x \in Clients |-> outcome[x]]
      /\ conn = [x \in Clients |-> conn[x]] /\ IsConn(conn[cl])
  BY DEF ShapeInv, FunctionInv, ARecord
<1>1. /\ program[cl] # "mcp" /\ program[cl] # "peer" /\ Asks(cl) = Asking(cl)
      /\ IsCommand(cl)' /\ Asking(cl)' = Asking(cl)
  BY Asks1 DEF IsCommand, Asking
<1>2. /\ pc[cl] = "ready" <=> Ready(cl)
      /\ pc[cl] = "greeting" <=> Greeting(cl)
      /\ pc[cl] = "waiting" <=> Waiting(cl)
      /\ pc[cl] \in {"ready", "greeting", "waiting", "done"}
  BY DEF CommandInv, Ready, Greeting, Waiting, Done
<1>3. Failures(cl) \subseteq {"exit 0", "exit 1"} /\ ("exit 0" \in Failures(cl) => program[cl] = "session_list")
  BY <1>1 DEF Failures
\* a command that fails before the cockpit has carried anything out
<1>4. ASSUME Ends(cl, "exit 2") \/ \E r \in Failures(cl) : Ends(cl, r), work'[cl] = NoWork,
             conn'[cl].link \in {"none", "closed"},
             Ends(cl, "exit 2") => conn'[cl].to = None /\ conn'[cl].link = "none",
             IF conn'[cl].link = "none" THEN served'[cl] # "done" ELSE conn'[cl].to \in Cockpits,
             served'[cl] = "done" => phase'[conn'[cl].to] = "gone"
      PROVE Done(cl)' /\ StillThere(cl)'
  <2>1. pc'[cl] = "done" /\ outcome'[cl] \in {"exit 0", "exit 1", "exit 2"}
        /\ (outcome'[cl] = "exit 2" => Ends(cl, "exit 2"))
        /\ (outcome'[cl] = "exit 0" => program[cl] = "session_list")
    BY <1>0, <1>1, <1>3, <1>4 DEF Ends
  <2>2. CommandsTell(cl)' BY <2>1, <1>4 DEF CommandsTell
  <2>3. QED BY <2>1, <2>2, <1>4 DEF Done, StillThere, None
<1>5. CASE Connect(cl)
  <2>1. Ready(cl) BY <1>2, <1>5 DEF Connect
  <2>2. /\ conn'[cl] = [NoConn EXCEPT !.to = sock, !.link = "backlog", !.inbox = <<Hello>>]
        /\ pc'[cl] = "greeting" /\ sock # None /\ UNCHANGED <<outcome, work, served>>
    BY <1>0, <1>5 DEF Connect, Connects, Hello, server
  <2>3. /\ conn'[cl].to \in Cockpits /\ conn'[cl].link = "backlog" /\ conn'[cl].inbox = <<Hello>>
        /\ conn'[cl].replies = <<>>
    BY <2>2 DEF NoConn, SocketTypes
  <2>4. QED BY <2>1, <2>2, <2>3 DEF Ready, Greeting, StillThere, Hello
<1>6. CASE ConnectFails(cl) \/ BadArguments(cl)
  <2>1. Ready(cl) BY <1>2, <1>6, <1>1 DEF ConnectFails, BadArguments
  <2>2. UNCHANGED <<conn, work, served>> BY <1>6 DEF ConnectFails, BadArguments, server
  <2>3. Ends(cl, "exit 2") \/ \E r \in Failures(cl) : Ends(cl, r) BY <1>6 DEF ConnectFails, BadArguments
  <2>4. conn[cl].link = "none" /\ conn[cl].to = None /\ served[cl] # "done" /\ work[cl] = NoWork
    BY <2>1 DEF Ready, NoConn, None
  <2>5. QED BY <1>4, <2>2, <2>3, <2>4
<1>7. CASE SendRequest(cl)
  <2>1. Greeting(cl) /\ Fits(cl, HelloId) BY <1>2, <1>7 DEF SendRequest
  <2>2. /\ conn[cl].link \in {"open", "cut"} /\ conn[cl].inbox = <<>> /\ conn[cl].replies = <<Ack>>
        /\ conn[cl].to \in Cockpits /\ outcome[cl] = None /\ work[cl] = NoWork /\ served[cl] = None
    BY <2>1, OneElement DEF Greeting, Fits, Frame, NilId, HelloId
  <2>3. /\ conn'[cl] = [conn[cl] EXCEPT !.replies = Tail(@), !.inbox = Append(@, Sent(cl))]
        /\ pc'[cl] = "waiting" /\ UNCHANGED <<outcome, work, served>>
    BY <1>0, <1>1, <1>7 DEF SendRequest, Sent, server
  <2>4. /\ conn'[cl].to = conn[cl].to /\ conn'[cl].link = conn[cl].link /\ conn'[cl].inbox = <<Sent(cl)>>
        /\ conn'[cl].replies = <<>>
    BY <2>2, <2>3, <1>0, OneElement DEF IsConn
  <2>5. Sent(cl)' = Sent(cl) BY <1>1 DEF Sent, Frame
  <2>6. QED BY <2>2, <2>3, <2>4, <2>5 DEF Waiting, Unread, StillThere, CommandInv
<1>8. conn' = Closed(cl) =>
         /\ conn'[cl].link = "closed" /\ conn'[cl].to = conn[cl].to
  BY <1>0 DEF Closed, IsConn
<1>9. CASE ReadReply(cl)
  <2>1. Waiting(cl) /\ Fits(cl, RequestId) BY <1>2, <1>9 DEF ReadReply
  <2>2. PICK kind : conn[cl].replies = <<Frame(RequestId, kind)>> /\ Tells(cl, kind) /\ work[cl] = NoWork
    BY <2>1 DEF Waiting, Unread, UnderWay, Lost, Answered, Fits
  <2>3. Head(conn[cl].replies).kind = kind BY <2>2, OneElement DEF Frame
  <2>4. PICK r \in Verdicts(cl, kind) : Ends(cl, r) BY <1>9, <2>3 DEF ReadReply
  <2>5. pc'[cl] = "done" /\ outcome'[cl] = r /\ UNCHANGED <<work, served>> /\ conn'[cl].link = "closed"
    BY <1>0, <1>1, <1>8, <1>9, <2>4 DEF Ends, ReadReply, server
  <2>6. kind \in Cli[program[cl]].takes =>
           served[cl] = "done" \/ (served[cl] = "nothing" /\ Asking(cl) \in Unchecked)
    BY <2>2, Asks1 DEF Tells
  <2>7. kind \notin Cli[program[cl]].takes /\ served[cl] = "done" =>
           program[cl] \in Peculiar \/ Asking(cl) \in Late
    BY <2>2, Asks1 DEF Tells
  <2>8. r \in {"exit 0", "exit 1"} BY <1>1, <1>3, <2>4 DEF Verdicts
  <2>9. CommandsTell(cl)' BY <1>1, <1>3, <2>4, <2>5, <2>6, <2>7, <2>8, AsksTheSame DEF CommandsTell, Verdicts, Peculiar
  <2>10. conn'[cl].to \in Cockpits BY <1>8, <1>9, <2>1 DEF ReadReply, Waiting
  <2>11. QED BY <2>2, <2>5, <2>8, <2>9, <2>10 DEF Done, StillThere
<1>10. CASE RequestFails(cl)
  <2>1. UNCHANGED <<work, served>> /\ conn'[cl].link = "closed" /\ conn'[cl].to = conn[cl].to
        /\ \E r \in Failures(cl) : Ends(cl, r)
    BY <1>1, <1>8, <1>10 DEF RequestFails, server
  <2>2. CASE Greeting(cl)
    <3>1. work[cl] = NoWork /\ served[cl] # "done" /\ conn[cl].to \in Cockpits BY <2>2 DEF Greeting, None
    <3>2. ~Ends(cl, "exit 2") BY <1>0, <1>3, <2>1 DEF Ends
    <3>3. QED BY <1>4, <2>1, <3>1, <3>2
  <2>3. CASE Waiting(cl) /\ Misfits(cl, RequestId)
    <3>1. ~Answered(cl)
      <4>1. SUFFICES ASSUME NEW kind, conn[cl].replies = <<Frame(RequestId, kind)>> PROVE FALSE
        BY DEF Answered
      <4>2. conn[cl].replies # <<>> /\ Head(conn[cl].replies) = Frame(RequestId, kind)
        BY <4>1, OneElement
      <4>3. Head(conn[cl].replies).id = RequestId BY <4>2 DEF Frame
      <4>4. QED BY <2>3, <4>2, <4>3 DEF Misfits
    <3>2. /\ work[cl] = NoWork /\ (served[cl] = "done" => phase[conn[cl].to] = "gone")
          /\ conn[cl].to \in Cockpits
      BY <2>3, <3>1 DEF Waiting, Unread, UnderWay, Lost, Misfits, None
    <3>3. ~Ends(cl, "exit 2") BY <1>0, <1>3, <2>1 DEF Ends
    <3>4. QED BY <1>4, <2>1, <3>2, <3>3
  <2>4. QED BY <1>2, <1>10, <2>2, <2>3 DEF RequestFails
<1>11. CASE Killed(cl)
  <2>1. outcome'[cl] = None /\ pc'[cl] = "done" /\ conn'[cl].link = "closed" /\ conn'[cl].to \in Cockpits
    BY <1>0, <1>2, <1>8, <1>11 DEF Killed, Greeting, Waiting
  <2>2. CommandsTell(cl)' BY <2>1 DEF CommandsTell, None
  <2>3. QED BY <2>1, <2>2 DEF Done, StillThere, None
<1>12. ~ReadMessage(cl) /\ ~StdinEnds(cl) /\ ~PeerStep(cl)
  BY <1>1, <1>2 DEF ReadMessage, StdinEnds, PeerStep, PeerConnects, PeerSends, PeerReads, PeerLeaves
<1>13. QED BY <1>5, <1>6, <1>7, <1>9, <1>10, <1>11, <1>12 DEF ClientStep, UserStep

\* where the cockpit reads and answers for a command
LEMMA CommandServerStep ==
    ASSUME ShapeInv, SocketTypes, NEW cl \in Clients, IsCommand(cl), CommandInv(cl),
           ServerStep(cl) \/ WindowSystemAnswers(cl), UNCHANGED <<program, phase>>
    PROVE  (Ready(cl) \/ Greeting(cl) \/ Waiting(cl) \/ Done(cl))' /\ StillThere(cl)'
<1>0. /\ conn = [x \in Clients |-> conn[x]] /\ work = [x \in Clients |-> work[x]]
      /\ served = [x \in Clients |-> served[x]] /\ IsConn(conn[cl]) /\ IsWork(work[cl])
      /\ deferred \in [Cockpits -> Seq(Clients)]
  BY DEF ShapeInv, FunctionInv, ARecord
<1>1. /\ Asking(cl) # "hello" /\ Asking(cl) # "too large" /\ Asking(cl) # "not an envelope"
      /\ IsCommand(cl)' /\ Asking(cl)' = Asking(cl) /\ Sent(cl)' = Sent(cl)
  BY Asks1 DEF IsCommand, Asking, Sent, Frame
<1>2. UNCHANGED <<pc, outcome>>
  BY DEF ServerStep, Accept, TooLarge, NoEnvelope, Greet, Refuse, Handle, Dispatch, Answer, AskWindowSystem,
     WindowSystemAnswers, WriteReply, client
<1>3. Frame(HelloId, "hello").kind = "hello" /\ Frame(HelloId, "hello").id = HelloId
      /\ Sent(cl).kind = Asking(cl) /\ Sent(cl).id = RequestId
  BY DEF Frame, Sent
<1>4. CASE Accept(cl)
  <2>1. Greeting(cl) /\ conn[cl].link = "backlog" /\ conn[cl].inbox = <<Hello>> /\ conn[cl].replies = <<>>
    BY <1>4 DEF Accept, CommandInv, Ready, NoConn, Greeting, Waiting, Done
  <2>2. UNCHANGED <<work, served>> /\ phase[conn[cl].to] = "serving" BY <1>4 DEF Accept, Live, server
  <2>3. CASE conn'[cl] = [conn[cl] EXCEPT !.link = "cut", !.inbox = <<>>, !.replies = <<Frame(NilId, "error")>>]
    <3>1. conn'[cl].to = conn[cl].to /\ conn'[cl].link = "cut" /\ conn'[cl].inbox = <<>>
          /\ conn'[cl].replies = <<Frame(NilId, "error")>>
      BY <1>0, <2>3 DEF IsConn
    <3>2. QED BY <1>2, <2>1, <2>2, <3>1 DEF Greeting, StillThere
  <2>4. CASE conn'[cl] = [conn[cl] EXCEPT !.link = "open"]
    <3>1. conn'[cl].to = conn[cl].to /\ conn'[cl].link = "open" /\ conn'[cl].inbox = <<Hello>>
          /\ conn'[cl].replies = <<>>
      BY <1>0, <2>1, <2>4 DEF IsConn
    <3>2. QED BY <1>2, <2>1, <2>2, <3>1 DEF Greeting, StillThere, Stopping
  <2>5. QED BY <1>0, <1>4, <2>3, <2>4 DEF Accept
\* what is read is the hello or the request
<1>5. Serves(cl) =>
        \/ Greeting(cl) /\ conn[cl].inbox = <<Hello>> /\ conn[cl].replies = <<>> /\ Request(cl) = Hello
        \/ Waiting(cl) /\ Unread(cl) /\ Request(cl) = Sent(cl)
  BY OneElement DEF Serves, CommandInv, Ready, NoConn, Greeting, Waiting, Done, Unread, UnderWay, Answered, Lost, Request
<1>6. Serves(cl) => conn[cl].link = "open" /\ phase[conn[cl].to] = "serving" BY DEF Serves, Live
<1>7. ~TooLarge(cl) /\ ~NoEnvelope(cl) BY <1>1, <1>3, <1>5 DEF TooLarge, NoEnvelope, Hello
\* the one frame is answered
<1>8. ASSUME NEW f, conn[cl].inbox = <<f>>, conn[cl].replies = <<>>, NEW id, NEW kind,
             conn' = Reply(cl, id, kind) \/ conn' = [Reply(cl, id, kind) EXCEPT ![cl].role = RoleOf(cl)]
      PROVE  /\ conn'[cl].to = conn[cl].to /\ conn'[cl].link = conn[cl].link
             /\ conn'[cl].inbox = <<>> /\ conn'[cl].replies = <<Frame(id, kind)>>
  <2>1. conn'[cl] = [conn[cl] EXCEPT !.inbox = Tail(@), !.replies = Append(@, Frame(id, kind))]
        \/ conn'[cl] = [conn[cl] EXCEPT !.inbox = Tail(@), !.replies = Append(@, Frame(id, kind)), !.role = RoleOf(cl)]
    BY <1>0, <1>8 DEF Reply
  <2>2. QED BY <1>0, <1>8, <2>1, OneElement, ZenonT(60) DEF IsConn
<1>9. CASE Greet(cl)
  <2>1. Greeting(cl) /\ conn[cl].inbox = <<Hello>> /\ conn[cl].replies = <<>> /\ Request(cl) = Hello
    BY <1>1, <1>3, <1>5, <1>9 DEF Greet
  <2>2. conn' = [Reply(cl, HelloId, "hello_ack") EXCEPT ![cl].role = RoleOf(cl)] /\ UNCHANGED <<work, served>>
    BY <1>3, <1>9, <2>1 DEF Greet, Hello, server
  <2>3. /\ conn'[cl].to = conn[cl].to /\ conn'[cl].link = conn[cl].link
        /\ conn'[cl].inbox = <<>> /\ conn'[cl].replies = <<Ack>>
    BY <1>8, <2>1, <2>2 DEF Ack
  <2>4. QED BY <1>2, <1>6, <1>9, <2>1, <2>2, <2>3 DEF Greeting, StillThere, Greet, Stopping
<1>10. CASE Refuse(cl)
  <2>1. Waiting(cl) /\ Unread(cl) /\ Request(cl) = Sent(cl) BY <1>3, <1>5, <1>10 DEF Refuse, Hello
  <2>2. conn' = Reply(cl, RequestId, "error") /\ UNCHANGED <<work, served>>
    BY <1>3, <1>10, <2>1 DEF Refuse, server
  <2>3. /\ conn'[cl].to = conn[cl].to /\ conn'[cl].link = conn[cl].link
        /\ conn'[cl].inbox = <<>> /\ conn'[cl].replies = <<Frame(RequestId, "error")>>
    BY <1>8, <2>1, <2>2 DEF Unread
  <2>4. served[cl] # "done" /\ work[cl] = NoWork BY <2>1 DEF Unread, None
  <2>5. Answered(cl)'
    <3>1. Tells(cl, "error")' BY <2>2, <2>4 DEF Tells
    <3>2. Frame(RequestId, "error")' = Frame(RequestId, "error") BY DEF Frame
    <3>3. QED BY <2>2, <2>3, <2>4, <3>1, <3>2 DEF Answered
  <2>6. QED BY <1>2, <1>6, <1>10, <2>1, <2>3, <2>5 DEF Waiting, StillThere, Refuse, Stopping
<1>11. CASE Handle(cl)
  <2>1. Waiting(cl) /\ Unread(cl) /\ Request(cl) = Sent(cl) BY <1>3, <1>5, <1>11 DEF Handle, Hello
  <2>2. work'[cl].at \in {"bus thread", "queued"} /\ work'[cl].id = RequestId /\ work'[cl].kind = Asking(cl)
    BY <1>0, <1>3, <1>11, <2>1 DEF Handle
  <2>3. conn'[cl] = [conn[cl] EXCEPT !.inbox = Tail(@)] /\ UNCHANGED served BY <1>0, <1>11 DEF Handle
  <2>4. /\ conn'[cl].to = conn[cl].to /\ conn'[cl].link = "open"
        /\ conn'[cl].inbox = <<>> /\ conn'[cl].replies = <<>>
    BY <1>0, <1>6, <1>11, <2>1, <2>3, OneElement DEF IsConn, Unread, Handle
  <2>5. UnderWay(cl)' BY <1>1, <2>1, <2>2, <2>3, <2>4 DEF UnderWay, Unread
  <2>6. QED BY <1>2, <1>6, <1>11, <2>1, <2>4, <2>5 DEF Waiting, StillThere, Handle, Stopping
\* who works on a request of a command: it is waited for, or not any more
<1>12. work[cl].at # "idle" => \/ Waiting(cl) /\ UnderWay(cl)
                               \/ Done(cl) /\ outcome[cl] = None
  <2>1. NoWork.at = "idle" BY DEF NoWork
  <2>2. Ready(cl) \/ Greeting(cl) \/ Unread(cl) \/ Answered(cl) \/ Lost(cl) => work[cl] = NoWork
    BY DEF Ready, Greeting, Unread, Answered, Lost
  <2>3. Waiting(cl) => Unread(cl) \/ UnderWay(cl) \/ Answered(cl) \/ Lost(cl) BY DEF Waiting
  <2>4. Done(cl) => outcome[cl] = None \/ work[cl] = NoWork BY DEF Done
  <2>5. QED BY <2>1, <2>2, <2>3, <2>4 DEF CommandInv
<1>13. ASSUME UNCHANGED conn, work[cl].at # "idle", work'[cl].at # "idle", work'[cl].id = work[cl].id,
              UnderWay(cl) => UnderWay(cl)'
       PROVE  (Ready(cl) \/ Greeting(cl) \/ Waiting(cl) \/ Done(cl))' /\ StillThere(cl)'
  <2>1. StillThere(cl)' BY <1>13 DEF StillThere, CommandInv
  <2>2. CASE Waiting(cl) /\ UnderWay(cl) BY <1>2, <1>13, <2>1, <2>2 DEF Waiting
  <2>3. CASE Done(cl) /\ outcome[cl] = None
    <3>1. CommandsTell(cl)' BY <1>2, <2>3 DEF CommandsTell, None
    <3>2. QED BY <1>2, <1>13, <2>1, <2>3, <3>1 DEF Done, None
  <2>4. QED BY <1>12, <1>13, <2>2, <2>3
<1>14. ASSUME NEW at \in {"task", "window system"}, work' = [work EXCEPT ![cl].at = at], UNCHANGED <<conn, served>>,
              work[cl].at # "idle", work[cl].at # "answered"
       PROVE  (Ready(cl) \/ Greeting(cl) \/ Waiting(cl) \/ Done(cl))' /\ StillThere(cl)'
  <2>1. work'[cl].at = at /\ work'[cl].id = work[cl].id /\ work'[cl].kind = work[cl].kind
    BY <1>0, <1>14 DEF IsWork
  <2>2. UnderWay(cl) => UnderWay(cl)' BY <1>1, <1>14, <2>1 DEF UnderWay
  <2>3. QED BY <1>13, <1>14, <2>1, <2>2
<1>15. ASSUME NEW a \in Answers(work[cl].kind), NEW e \in Effects(work[cl].kind, a),
              Returns(cl, a, e), UNCHANGED conn,
              work[cl].at # "idle", work[cl].at # "answered"
       PROVE  (Ready(cl) \/ Greeting(cl) \/ Waiting(cl) \/ Done(cl))' /\ StillThere(cl)'
  <2>1. work'[cl].at = "answered" /\ work'[cl].id = work[cl].id /\ work'[cl].kind = a
    BY <1>0, <1>15 DEF Returns, IsWork
  <2>2. served'[cl] = e BY <1>0, <1>15 DEF Returns
  <2>3. ASSUME UnderWay(cl) PROVE UnderWay(cl)'
    <3>1. a # "error" => a \in Success(Asking(cl)) BY <1>15, <2>3 DEF UnderWay, Answers
    <3>2. /\ a = "error" /\ e = "done" => Asking(cl) \in Late
          /\ a # "error" => e = "done" \/ (e = "nothing" /\ Asking(cl) \in Unchecked)
      BY <1>15, <2>3 DEF UnderWay, Effects
    <3>4. Tells(cl, a)' BY <1>1, <2>2, <3>1, <3>2 DEF Tells
    <3>3. QED BY <1>15, <2>1, <2>3, <3>4 DEF UnderWay, Tells
  <2>4. QED BY <1>13, <1>15, <2>1, <2>3
<1>16. CASE Dispatch(cl)
  <2>1. work[cl].at = "queued"
    <3>1. conn[cl].to \in Cockpits BY <1>16 DEF Dispatch, Live, ShapeInv, ARecord
    <3>2. 1 \in DOMAIN deferred[conn[cl].to] /\ deferred[conn[cl].to][1] = cl
      BY <1>0, <1>16, <3>1, QueueOps DEF Dispatch
    <3>3. QED BY <3>1, <3>2 DEF CommandInv, Queued
  <2>2. QED BY <1>14, <1>16, <2>1 DEF Dispatch
<1>17. CASE Answer(cl) BY <1>15, <1>17 DEF Answer, Finishes
<1>18. CASE AskWindowSystem(cl) BY <1>14, <1>15, <1>18 DEF AskWindowSystem, Effects
<1>19. CASE WindowSystemAnswers(cl) BY <1>15, <1>19 DEF WindowSystemAnswers, Finishes
<1>20. CASE WriteReply(cl)
  <2>1. work'[cl] = NoWork /\ UNCHANGED served BY <1>0, <1>20 DEF WriteReply
  <2>2. CASE Waiting(cl) /\ UnderWay(cl)
    <3>1. conn'[cl] = [conn[cl] EXCEPT !.replies = Append(@, Frame(RequestId, work[cl].kind))]
      BY <1>0, <1>20, <2>2 DEF WriteReply, UnderWay
    <3>2. /\ conn'[cl].to = conn[cl].to /\ conn'[cl].link = conn[cl].link /\ conn'[cl].inbox = <<>>
          /\ conn'[cl].replies = <<Frame(RequestId, work[cl].kind)>>
      BY <1>0, <2>2, <3>1, OneElement DEF IsConn, UnderWay
    <3>3. Tells(cl, work[cl].kind) BY <1>20, <2>2 DEF WriteReply, UnderWay
    <3>4. Answered(cl)' BY <1>1, <2>1, <3>2, <3>3 DEF Answered, Tells, Frame
    <3>5. QED BY <1>2, <2>2, <3>2, <3>4 DEF Waiting, StillThere, CommandInv
  <2>3. CASE Done(cl) /\ outcome[cl] = None
    <3>1. UNCHANGED conn BY <1>20, <2>3 DEF WriteReply, Done
    <3>2. CommandsTell(cl)' BY <1>2, <2>3 DEF CommandsTell, None
    <3>3. QED BY <1>2, <2>1, <2>3, <3>1, <3>2 DEF Done, None, StillThere, CommandInv
  <2>4. QED BY <1>12, <1>20, <2>2, <2>3 DEF WriteReply
<1>21. QED
  BY <1>4, <1>7, <1>9, <1>10, <1>11, <1>16, <1>17, <1>18, <1>19, <1>20 DEF ServerStep

\* a cockpit that has gone stays so, and one that serves ends by going
LEMMA PhaseMoves ==
    ASSUME SocketTypes, NEW c \in Cockpits, SocketStep(c)
    PROVE  /\ phase' = [phase EXCEPT ![c] = phase'[c]]
           /\ phase[c] = "gone" => phase'[c] = "gone"
           /\ phase[c] \in Stopping \cup {"serving"} => phase'[c] \in Stopping \cup {"serving", "gone"}
<1> USE DEF SocketTypes
<1>1. CASE Start(c) BY <1>1 DEF Start, At, Moves, Stopping
<1>2. CASE CockpitStep(c)
  <2>1. CASE Check(c) BY <2>1 DEF Check, At, Moves, Stopping
  <2>2. CASE ReadPid(c) BY <2>2 DEF ReadPid, At, Moves, Stopping
  <2>3. CASE RemoveFiles(c) BY <2>3 DEF RemoveFiles, At, Moves, Stopping
  <2>4. CASE Bind(c) BY <2>4 DEF Bind, At, Moves, Stopping
  <2>5. CASE Chmod(c) BY <2>5 DEF Chmod, At, Moves, Stopping
  <2>6. CASE WritePid(c) BY <2>6 DEF WritePid, At, Moves, Stopping
  <2>7. CASE CloseFiles(c) BY <2>7 DEF CloseFiles, At, Moves, Stopping
  <2>8. QED BY <1>2, <2>1, <2>2, <2>3, <2>4, <2>5, <2>6, <2>7 DEF CockpitStep
<1>3. CASE Quit(c) BY <1>3 DEF Quit, At, Moves, Stopping
<1>4. CASE Crash(c) BY <1>4 DEF Crash, Moves, Running, Starting, Stopping
<1>5. CASE ReusePid(c) BY <1>5 DEF ReusePid
<1>6. QED BY <1>1, <1>2, <1>3, <1>4, <1>5 DEF SocketStep

LEMMA CommandLives ==
    ASSUME ShapeInv, SocketTypes, NEW cl \in Clients, IsCommand(cl), CommandInv(cl),
           NEW c \in Cockpits, Lives(c)
    PROVE  (Ready(cl) \/ Greeting(cl) \/ Waiting(cl) \/ Done(cl))' /\ StillThere(cl)'
<1>0. IsConn(conn[cl]) /\ conn[cl].to \in Cockpits \cup {None} BY DEF ShapeInv, ARecord
<1>1. UNCHANGED <<client, served>> BY LivesLeaves
<1>2. SocketStep(c)
  BY DEF Lives, CockpitStarts, CockpitMoves, CockpitQuits, CockpitCrashes, PidIsReused, SocketStep
<1>3. /\ phase' = [phase EXCEPT ![c] = phase'[c]]
      /\ phase[c] = "gone" => phase'[c] = "gone"
      /\ phase[c] \in Stopping \cup {"serving"} => phase'[c] \in Stopping \cup {"serving", "gone"}
  BY <1>2, PhaseMoves
<1>4. ASSUME NEW x \in Cockpits, phase[x] = "gone" PROVE phase'[x] = "gone"
  BY <1>3, <1>4 DEF SocketTypes
<1>5. /\ UNCHANGED <<program, pc, outcome>> /\ Asking(cl)' = Asking(cl) /\ Sent(cl)' = Sent(cl)
      /\ \A kind : Tells(cl, kind)' <=> Tells(cl, kind)
  BY <1>1 DEF client, Asking, Sent, Frame, Tells
<1>6. ASSUME conn'[cl].to = conn[cl].to, Done(cl) PROVE CommandsTell(cl)'
  BY <1>1, <1>4, <1>5, <1>6, AsksTheSame DEF Done, CommandsTell
<1>7. CASE UNCHANGED <<conn[cl], work[cl]>>
           /\ (phase'[c] \notin {"no bus", "gone"} \/ UNCHANGED phase \/ conn[cl].to # c \/ conn[cl].link = "none")
  <2>1. StillThere(cl)'
    <3>1. conn[cl].link = "open" => conn[cl].to \in Cockpits
      BY DEF CommandInv, Ready, NoConn, Greeting, Waiting, Done
    <3>2. QED BY <3>1, <1>3, <1>7 DEF StillThere, CommandInv, SocketTypes
  <2>2. CASE Ready(cl) BY <1>1, <1>5, <1>7, <2>1, <2>2 DEF Ready
  <2>3. CASE Greeting(cl) BY <1>1, <1>5, <1>7, <2>1, <2>3 DEF Greeting
  <2>4. CASE Waiting(cl)
    <3>1. Unread(cl) => Unread(cl)' BY <1>1, <1>5, <1>7 DEF Unread
    <3>2. UnderWay(cl) => UnderWay(cl)' BY <1>1, <1>5, <1>7 DEF UnderWay
    <3>3. Answered(cl) => Answered(cl)' BY <1>1, <1>5, <1>7 DEF Answered, Frame
    <3>4. Lost(cl) => Lost(cl)' BY <1>1, <1>4, <1>7, <2>4 DEF Lost, Waiting
    <3>5. QED BY <1>5, <1>7, <2>1, <2>4, <3>1, <3>2, <3>3, <3>4 DEF Waiting
  <2>5. CASE Done(cl) BY <1>1, <1>5, <1>6, <1>7, <2>1, <2>5 DEF Done
  <2>6. QED BY <2>2, <2>3, <2>4, <2>5, <2>1 DEF CommandInv
<1>8. CASE Refused(cl, c)
  <2>1. Greeting(cl) /\ conn[cl].inbox = <<Hello>> /\ conn[cl].replies = <<>>
    BY <1>8 DEF Refused, CommandInv, Ready, NoConn, Greeting, Waiting, Done
  <2>2. conn'[cl].to = conn[cl].to /\ conn'[cl].link = "cut" /\ conn'[cl].inbox = <<>> /\ conn'[cl].replies = <<>>
    BY <1>0, <1>8, <2>1 DEF Refused, IsConn
  <2>3. QED BY <1>1, <1>5, <1>8, <2>1, <2>2 DEF Greeting, StillThere, Refused
<1>9. CASE Dropped(cl, c) /\ phase'[c] \in {"no bus", "gone"}
  <2>1. conn'[cl].to = conn[cl].to /\ conn'[cl].replies = conn[cl].replies /\ work'[cl] = NoWork
        /\ conn[cl].to = c
    BY <1>0, <1>9 DEF Dropped, IsConn
  <2>2. conn[cl].link \in {"backlog", "open"} => conn'[cl].link = "cut" /\ conn'[cl].inbox = <<>>
    BY <1>0, <1>9 DEF Dropped, IsConn
  <2>3. conn[cl].link \notin {"backlog", "open"} => UNCHANGED conn[cl] BY <1>9 DEF Dropped
  <2>4. conn[cl].link = "open" => phase'[c] = "gone"
    BY <1>3, <1>9, <2>1 DEF CommandInv, StillThere, Stopping
  <2>5. StillThere(cl)' BY <2>2, <2>3 DEF StillThere
  <2>6. CASE Ready(cl)
    <3>1. UNCHANGED conn[cl] BY <2>3, <2>6 DEF Ready, NoConn
    <3>2. QED BY <1>1, <1>5, <2>1, <2>5, <2>6, <3>1 DEF Ready
  <2>7. CASE Greeting(cl) BY <1>1, <1>5, <2>1, <2>2, <2>3, <2>5, <2>7 DEF Greeting
  <2>8. CASE Waiting(cl)
    <3>1. CASE conn[cl].link = "open"
      <4>1. conn'[cl].link = "cut" /\ conn'[cl].inbox = <<>> BY <2>2, <3>1
      <4>2. Answered(cl) => Answered(cl)' BY <1>5, <2>1, <4>1 DEF Answered, Frame
      <4>3. Unread(cl) \/ UnderWay(cl) \/ Lost(cl) => Lost(cl)'
        BY <2>1, <2>4, <3>1, <4>1 DEF Unread, UnderWay, Lost
      <4>4. QED BY <1>5, <2>1, <2>5, <2>8, <4>1, <4>2, <4>3 DEF Waiting
    <3>2. CASE conn[cl].link = "cut"
      <4>1. UNCHANGED conn[cl] BY <2>3, <3>2
      <4>2. Unread(cl) => Unread(cl)' BY <1>1, <1>5, <2>1, <4>1 DEF Unread
      <4>3. Answered(cl) => Answered(cl)' BY <1>5, <2>1, <4>1 DEF Answered, Frame
      <4>4. Lost(cl) => Lost(cl)' BY <1>1, <1>4, <2>1, <2>8, <4>1 DEF Lost, Waiting
      <4>5. ~UnderWay(cl) BY <3>2 DEF UnderWay
      <4>6. QED BY <1>5, <2>1, <2>5, <2>8, <4>1, <4>2, <4>3, <4>4, <4>5 DEF Waiting
    <3>3. QED BY <2>8, <3>1, <3>2 DEF Waiting
  <2>9. CASE Done(cl) BY <1>1, <1>5, <1>6, <2>1, <2>3, <2>5, <2>9 DEF Done
  <2>10. QED BY <2>6, <2>7, <2>8, <2>9, <2>5 DEF CommandInv
<1>10. CASE UNCHANGED <<conn, work, deferred>> /\ (phase'[c] \in {"no bus", "gone"} => UNCHANGED phase)
  BY <1>7, <1>10
<1>11. CASE Quit(c) /\ UNCHANGED <<work, deferred>>
               /\ (Refused(cl, c) \/ ((conn[cl].to # c \/ conn[cl].link # "backlog") /\ UNCHANGED conn[cl]))
  <2>1. phase'[c] = "closing socket" BY <1>11 DEF Quit, At, Moves, SocketTypes
  <2>2. QED BY <1>7, <1>8, <1>11, <2>1
<1>12. CASE Cut(c) /\ phase'[c] \in {"no bus", "gone"} BY <1>7, <1>9, <1>12, CutDrops
<1>13. QED BY <1>10, <1>11, <1>12, LivesIs

LEMMA CommandStays ==
    ASSUME ShapeInv, SocketTypes, NEW cl \in Clients, IsCommand(cl), CommandInv(cl), [Next]_vars
    PROVE  CommandInv(cl)' /\ IsCommand(cl)'
<1>0. Fresh(cl) BY DEF CommandInv, Fresh, Ready, Greeting, Waiting, Done
<1>1. ASSUME NEW d \in Clients, Acts(d) PROVE CommandInv(cl)' /\ IsCommand(cl)'
  <2>1. UNCHANGED <<program, phase>> BY <1>1, ActsLeaves DEF socket
  <2>2. Queued(cl)' BY <1>0, <1>1, QueuedActs DEF CommandInv
  <2>3. CASE d = cl
    <3>1. (Ready(cl) \/ Greeting(cl) \/ Waiting(cl) \/ Done(cl))' /\ StillThere(cl)'
      BY <1>1, <2>1, <2>3, CommandClientStep, CommandServerStep DEF Acts
    <3>2. QED BY <2>1, <2>2, <3>1 DEF CommandInv, IsCommand
  <2>4. CASE d # cl
    <3>1. UNCHANGED View(cl) BY <1>1, <2>4, Elsewhere
    <3>2. (Ready(cl) \/ Greeting(cl) \/ Waiting(cl) \/ Done(cl))' /\ StillThere(cl)'
      BY <2>1, <3>1, AsksTheSame DEF CommandInv, View, Ready, Greeting, Waiting, Done, StillThere, Unread, UnderWay, Answered,
         Lost, Tells, Asking, Sent, CommandsTell, Frame, Hello, Ack
    <3>3. QED BY <2>1, <2>2, <3>2 DEF CommandInv, IsCommand
  <2>5. QED BY <2>3, <2>4
<1>2. ASSUME NEW c \in Cockpits, Lives(c) PROVE CommandInv(cl)' /\ IsCommand(cl)'
  <2>1. Queued(cl)' BY <1>2, QueuedLives DEF CommandInv
  <2>2. UNCHANGED program BY <1>2, LivesLeaves DEF client
  <2>3. QED BY <1>2, <2>1, <2>2, CommandLives DEF CommandInv, IsCommand
<1>3. CASE UNCHANGED vars
  BY <1>3, AsksTheSame DEF vars, socket, client, server, CommandInv, IsCommand, Ready, Greeting, Waiting, Done, StillThere, Unread,
     UnderWay, Answered, Lost, Tells, Asking, Sent, CommandsTell, Frame, Hello, Ack, Queued
<1>4. QED BY <1>1, <1>2, <1>3, NextIs

-----------------------------------------------------------------------------
(* Any other program: its requests and the replies to them stay in order *)

Numbered(K) == [id : Nat, kind : K]

\* every reply in g and r is to a request before the n-th, or to none
Before(g, r, n) == (\A i \in DOMAIN g : g[i] < n) /\ (\A j \in DOMAIN r : r[j].id < n)

\* the replies that are read, the ones on their way, the request that is worked
\* on and the ones still to be read, of the n there are so far
InOrder(g, r, busy, id, b, n) ==
    /\ \A i, j \in DOMAIN g : i < j /\ g[i] # NilId /\ g[j] # NilId => g[i] < g[j]
    /\ \A i \in DOMAIN g : \A j \in DOMAIN r : g[i] # NilId /\ r[j].id # NilId => g[i] < r[j].id
    /\ \A i, j \in DOMAIN r : i < j /\ r[i].id # NilId /\ r[j].id # NilId => r[i].id < r[j].id
    /\ Before(g, r, n + 1)
    /\ busy => 1 <= id /\ id <= n /\ Before(g, r, id)
    /\ \A k \in DOMAIN b :
          /\ 1 <= b[k].id /\ b[k].id <= n
          /\ Before(g, r, b[k].id)
          /\ busy => id < b[k].id
          /\ \A l \in DOMAIN b : l < k => b[l].id < b[k].id

Flow(g, r, busy, id, b, n, K, J) ==
    /\ g \in Seq(Nat) /\ r \in Seq(Numbered(K)) /\ b \in Seq(Numbered(J)) /\ n \in Nat
    /\ busy \in BOOLEAN /\ (busy => id \in Nat)

LEMMA SeqOps ==
    ASSUME NEW S, NEW q \in Seq(S), NEW e \in S
    PROVE  /\ Append(q, e) \in Seq(S) /\ DOMAIN Append(q, e) = DOMAIN q \cup {Len(q) + 1}
           /\ \A i \in DOMAIN q : Append(q, e)[i] = q[i] /\ i < Len(q) + 1 /\ i \in Nat
           /\ Append(q, e)[Len(q) + 1] = e
           /\ Len(q) + 1 \notin DOMAIN q /\ Len(q) \in Nat
           /\ \A i \in DOMAIN q : q[i] \in S
OBVIOUS

LEMMA TailOps ==
    ASSUME NEW S, NEW q \in Seq(S), q # <<>>
    PROVE  /\ Tail(q) \in Seq(S) /\ Head(q) \in S
           /\ 1 \in DOMAIN q /\ Head(q) = q[1]
           /\ \A i \in DOMAIN q : i \in Nat /\ q[i] \in S
           /\ \A i \in DOMAIN Tail(q) : i \in Nat /\ i + 1 \in DOMAIN q /\ Tail(q)[i] = q[i + 1] /\ 1 < i + 1
OBVIOUS

LEMMA FrameIds ==
    ASSUME NEW K, NEW q \in Seq(Numbered(K))
    PROVE  \A i \in DOMAIN q : i \in Nat /\ q[i] \in Numbered(K) /\ q[i].id \in Nat
<1>1. \A i \in DOMAIN q : i \in Nat /\ q[i] \in Numbered(K) OBVIOUS
<1>2. \A x \in Numbered(K) : x.id \in Nat BY DEF Numbered
<1>3. QED BY <1>1, <1>2

\* a frame is sent
LEMMA FlowSent ==
    ASSUME NEW g, NEW r, NEW busy, NEW id, NEW b, NEW n, NEW K, NEW J,
           Flow(g, r, busy, id, b, n, K, J), InOrder(g, r, busy, id, b, n), NEW f \in Numbered(J), f.id = n + 1
    PROVE  /\ Flow(g, r, busy, id, Append(b, f), n + 1, K, J)
           /\ InOrder(g, r, busy, id, Append(b, f), n + 1)
<1>1. /\ Append(b, f) \in Seq(Numbered(J)) /\ DOMAIN Append(b, f) = DOMAIN b \cup {Len(b) + 1}
      /\ \A i \in DOMAIN b : Append(b, f)[i] = b[i] /\ i < Len(b) + 1 /\ i \in Nat /\ b[i].id \in Nat
      /\ Append(b, f)[Len(b) + 1] = f /\ Len(b) + 1 \notin DOMAIN b /\ Len(b) \in Nat
  BY SeqOps, FrameIds DEF Flow
<1>2. /\ \A i \in DOMAIN g : g[i] \in Nat
      /\ \A i \in DOMAIN r : r[i].id \in Nat
      /\ n \in Nat
  BY FrameIds DEF Flow
<1>3. Before(g, r, n + 1) /\ Before(g, r, (n + 1) + 1) BY <1>2 DEF InOrder, Before
<1>4. Flow(g, r, busy, id, Append(b, f), n + 1, K, J) BY <1>1 DEF Flow
<1>5. ASSUME NEW k \in DOMAIN Append(b, f)
      PROVE  /\ 1 <= Append(b, f)[k].id /\ Append(b, f)[k].id <= n + 1
             /\ Before(g, r, Append(b, f)[k].id)
             /\ busy => id < Append(b, f)[k].id
             /\ \A l \in DOMAIN Append(b, f) : l < k => Append(b, f)[l].id < Append(b, f)[k].id
  <2>1. CASE k \in DOMAIN b BY <1>1, <1>2, <2>1 DEF InOrder
  <2>2. CASE k = Len(b) + 1 BY <1>1, <1>2, <1>3, <2>2 DEF InOrder, Flow
  <2>3. QED BY <1>1, <1>5, <2>1, <2>2
<1>6. busy => 1 <= id /\ id <= n + 1 /\ Before(g, r, id)
  <2>1. SUFFICES ASSUME busy PROVE 1 <= id /\ id <= n + 1 /\ Before(g, r, id) OBVIOUS
  <2>2. 1 <= id /\ id <= n /\ Before(g, r, id) BY <2>1 DEF InOrder
  <2>3. id \in Nat BY <2>1 DEF Flow
  <2>4. QED BY <1>2, <2>2, <2>3
<1>7. InOrder(g, r, busy, id, Append(b, f), n + 1) BY <1>3, <1>5, <1>6 DEF InOrder
<1>8. QED BY <1>4, <1>7

\* the next frame is taken up
LEMMA FlowTaken ==
    ASSUME NEW g, NEW r, NEW id, NEW b, NEW n, NEW K, NEW J,
           Flow(g, r, FALSE, id, b, n, K, J), InOrder(g, r, FALSE, id, b, n), b # <<>>
    PROVE  /\ Flow(g, r, TRUE, Head(b).id, Tail(b), n, K, J)
           /\ InOrder(g, r, TRUE, Head(b).id, Tail(b), n)
<1>1. /\ Tail(b) \in Seq(Numbered(J)) /\ Head(b).id \in Nat /\ 1 \in DOMAIN b /\ Head(b) = b[1]
      /\ \A i \in DOMAIN b : i \in Nat /\ b[i].id \in Nat
      /\ \A i \in DOMAIN Tail(b) : i \in Nat /\ i + 1 \in DOMAIN b /\ Tail(b)[i] = b[i + 1] /\ 1 < i + 1
  BY TailOps, FrameIds DEF Flow
<1>2. Flow(g, r, TRUE, Head(b).id, Tail(b), n, K, J) BY <1>1 DEF Flow
<1>3. 1 <= Head(b).id /\ Head(b).id <= n /\ Before(g, r, Head(b).id) BY <1>1 DEF InOrder
<1>4. \A k \in DOMAIN Tail(b) :
          /\ 1 <= Tail(b)[k].id /\ Tail(b)[k].id <= n
          /\ Before(g, r, Tail(b)[k].id)
          /\ Head(b).id < Tail(b)[k].id
          /\ \A l \in DOMAIN Tail(b) : l < k => Tail(b)[l].id < Tail(b)[k].id
  BY <1>1 DEF InOrder
<1>5. QED BY <1>2, <1>3, <1>4 DEF InOrder

\* the request that is worked on is answered, by its id or by none
LEMMA FlowAnswered ==
    ASSUME NEW g, NEW r, NEW id, NEW b, NEW n, NEW K, NEW J,
           Flow(g, r, TRUE, id, b, n, K, J), InOrder(g, r, TRUE, id, b, n),
           NEW f \in Numbered(K), f.id \in {id, NilId}, NEW any
    PROVE  /\ Flow(g, Append(r, f), FALSE, any, b, n, K, J)
           /\ InOrder(g, Append(r, f), FALSE, any, b, n)
<1>1. /\ Append(r, f) \in Seq(Numbered(K)) /\ DOMAIN Append(r, f) = DOMAIN r \cup {Len(r) + 1}
      /\ \A i \in DOMAIN r : Append(r, f)[i] = r[i] /\ i < Len(r) + 1 /\ i \in Nat /\ r[i].id \in Nat
      /\ Append(r, f)[Len(r) + 1] = f /\ Len(r) + 1 \notin DOMAIN r /\ Len(r) \in Nat
  BY SeqOps, FrameIds DEF Flow
<1>2. /\ \A i \in DOMAIN g : g[i] \in Nat
      /\ \A i \in DOMAIN b : b[i].id \in Nat
      /\ n \in Nat /\ id \in Nat /\ 1 <= id /\ id <= n /\ Before(g, r, id)
  BY FrameIds DEF Flow, InOrder
<1>3. Flow(g, Append(r, f), FALSE, any, b, n, K, J) BY <1>1 DEF Flow
<1>4. ASSUME NEW m \in Nat, id < m, Before(g, r, m) PROVE Before(g, Append(r, f), m)
  BY <1>1, <1>2, <1>4 DEF Before, NilId
<1>5. Before(g, Append(r, f), n + 1) BY <1>2, <1>4 DEF InOrder
<1>6. \A k \in DOMAIN b : 1 <= b[k].id /\ b[k].id <= n /\ Before(g, Append(r, f), b[k].id)
        /\ \A l \in DOMAIN b : l < k => b[l].id < b[k].id
  BY <1>2, <1>4 DEF InOrder
<1>7. \A i \in DOMAIN g : \A j \in DOMAIN Append(r, f) :
         g[i] # NilId /\ Append(r, f)[j].id # NilId => g[i] < Append(r, f)[j].id
  <2>1. SUFFICES ASSUME NEW i \in DOMAIN g, NEW j \in DOMAIN Append(r, f),
                        g[i] # NilId, Append(r, f)[j].id # NilId
        PROVE g[i] < Append(r, f)[j].id
    OBVIOUS
  <2>2. CASE j \in DOMAIN r BY <1>1, <2>1, <2>2 DEF InOrder
  <2>3. CASE j = Len(r) + 1 BY <1>1, <1>2, <2>1, <2>3 DEF Before
  <2>4. QED BY <1>1, <2>1, <2>2, <2>3
<1>8. \A i, j \in DOMAIN Append(r, f) :
         i < j /\ Append(r, f)[i].id # NilId /\ Append(r, f)[j].id # NilId => Append(r, f)[i].id < Append(r, f)[j].id
  <2>1. SUFFICES ASSUME NEW i \in DOMAIN Append(r, f), NEW j \in DOMAIN Append(r, f), i < j,
                        Append(r, f)[i].id # NilId, Append(r, f)[j].id # NilId
        PROVE Append(r, f)[i].id < Append(r, f)[j].id
    OBVIOUS
  <2>2. CASE j \in DOMAIN r
    <3>1. i \in DOMAIN r BY <1>1, <2>1, <2>2
    <3>2. QED BY <1>1, <2>1, <2>2, <3>1 DEF InOrder
  <2>3. CASE j = Len(r) + 1
    <3>1. i \in DOMAIN r BY <1>1, <2>1, <2>3
    <3>2. QED BY <1>1, <1>2, <2>1, <2>3, <3>1 DEF Before
  <2>4. QED BY <1>1, <2>1, <2>2, <2>3
<1>9. QED BY <1>3, <1>5, <1>6, <1>7, <1>8 DEF InOrder

\* a reply is read
LEMMA FlowRead ==
    ASSUME NEW g, NEW r, NEW busy, NEW id, NEW b, NEW n, NEW K, NEW J,
           Flow(g, r, busy, id, b, n, K, J), InOrder(g, r, busy, id, b, n), r # <<>>
    PROVE  /\ Flow(Append(g, Head(r).id), Tail(r), busy, id, b, n, K, J)
           /\ InOrder(Append(g, Head(r).id), Tail(r), busy, id, b, n)
<1> DEFINE G == Append(g, Head(r).id)
<1>1. /\ Tail(r) \in Seq(Numbered(K)) /\ Head(r).id \in Nat /\ 1 \in DOMAIN r /\ Head(r) = r[1]
      /\ \A i \in DOMAIN r : i \in Nat /\ r[i].id \in Nat
      /\ \A i \in DOMAIN Tail(r) : i \in Nat /\ i + 1 \in DOMAIN r /\ Tail(r)[i] = r[i + 1] /\ 1 < i + 1
  BY TailOps, FrameIds DEF Flow
<1>2. /\ G \in Seq(Nat) /\ DOMAIN G = DOMAIN g \cup {Len(g) + 1}
      /\ \A i \in DOMAIN g : G[i] = g[i] /\ i < Len(g) + 1 /\ i \in Nat /\ g[i] \in Nat
      /\ G[Len(g) + 1] = r[1].id /\ Len(g) + 1 \notin DOMAIN g /\ Len(g) \in Nat
  BY <1>1, SeqOps DEF Flow
<1> HIDE DEF G
<1>3. Flow(G, Tail(r), busy, id, b, n, K, J) BY <1>1, <1>2 DEF Flow
<1>4. ASSUME NEW m, Before(g, r, m) PROVE Before(G, Tail(r), m) BY <1>1, <1>2, <1>4 DEF Before
<1>5. \A i, j \in DOMAIN G : i < j /\ G[i] # NilId /\ G[j] # NilId => G[i] < G[j]
  <2>1. SUFFICES ASSUME NEW i \in DOMAIN G, NEW j \in DOMAIN G, i < j, G[i] # NilId, G[j] # NilId PROVE G[i] < G[j]
    OBVIOUS
  <2>2. CASE j \in DOMAIN g
    <3>1. i \in DOMAIN g BY <1>2, <2>1, <2>2
    <3>2. QED BY <1>2, <2>1, <2>2, <3>1 DEF InOrder
  <2>3. CASE j = Len(g) + 1
    <3>1. i \in DOMAIN g BY <1>2, <2>1, <2>3
    <3>2. QED BY <1>1, <1>2, <2>1, <2>3, <3>1 DEF InOrder
  <2>4. QED BY <1>2, <2>1, <2>2, <2>3
<1>6. \A i \in DOMAIN G : \A j \in DOMAIN Tail(r) : G[i] # NilId /\ Tail(r)[j].id # NilId => G[i] < Tail(r)[j].id
  <2>1. SUFFICES ASSUME NEW i \in DOMAIN G, NEW j \in DOMAIN Tail(r), G[i] # NilId, Tail(r)[j].id # NilId
        PROVE G[i] < Tail(r)[j].id
    OBVIOUS
  <2>2. j + 1 \in DOMAIN r /\ Tail(r)[j] = r[j + 1] /\ 1 < j + 1 BY <1>1, <2>1
  <2>3. CASE i \in DOMAIN g BY <1>2, <2>1, <2>2, <2>3 DEF InOrder
  <2>4. CASE i = Len(g) + 1 BY <1>1, <1>2, <2>1, <2>2, <2>4 DEF InOrder
  <2>5. QED BY <1>2, <2>1, <2>3, <2>4
<1>7. \A i, j \in DOMAIN Tail(r) :
         i < j /\ Tail(r)[i].id # NilId /\ Tail(r)[j].id # NilId => Tail(r)[i].id < Tail(r)[j].id
  BY <1>1 DEF InOrder
<1>8. InOrder(G, Tail(r), busy, id, b, n) BY <1>4, <1>5, <1>6, <1>7 DEF InOrder
<1>9. QED BY <1>3, <1>8 DEF G

LastError(s) == \E f : s = <<f>> /\ f.id = NilId

\* a connection ends, with what was on its way, or with a last error; what it
\* had still to read goes or stays, and so does the request that is worked on
LEMMA FlowCut ==
    ASSUME NEW g, NEW r, NEW busy, NEW id, NEW b, NEW n, NEW K, NEW J,
           Flow(g, r, busy, id, b, n, K, J), InOrder(g, r, busy, id, b, n),
           NEW s \in Seq(Numbered(K)),
           s \in {r, <<>>} \/ LastError(s),
           NEW e \in {b, <<>>},
           NEW still \in BOOLEAN, still => busy, NEW any, still => any = id
    PROVE  Flow(g, s, still, any, e, n, K, J) /\ InOrder(g, s, still, any, e, n)
<1>1. <<>> \in Seq(Numbered(J)) /\ DOMAIN <<>> = {} OBVIOUS
<1>2. Flow(g, s, still, any, e, n, K, J) BY <1>1 DEF Flow
<1>3. \A i \in DOMAIN b : b[i].id \in Nat BY FrameIds DEF Flow
<1>4. ASSUME NEW m \in Nat, 1 <= m, Before(g, r, m) PROVE Before(g, s, m)
  <2>1. CASE s = r BY <1>4, <2>1
  <2>2. CASE s = <<>>
    <3>1. DOMAIN s = {} BY <2>2
    <3>2. QED BY <1>4, <3>1 DEF Before
  <2>3. CASE LastError(s)
    <3>1. DOMAIN s = {1} /\ s[1].id = NilId BY <2>3 DEF LastError
    <3>2. QED BY <1>4, <3>1 DEF Before, NilId
  <2>4. QED BY <2>1, <2>2, <2>3
<1>5. /\ \A i \in DOMAIN g : \A j \in DOMAIN s : g[i] # NilId /\ s[j].id # NilId => g[i] < s[j].id
      /\ \A i, j \in DOMAIN s : i < j /\ s[i].id # NilId /\ s[j].id # NilId => s[i].id < s[j].id
  <2>1. CASE s = r BY <2>1 DEF InOrder
  <2>2. CASE s = <<>>
    <3>1. DOMAIN s = {} BY <2>2
    <3>2. QED BY <3>1
  <2>3. CASE LastError(s)
    <3>1. DOMAIN s = {1} /\ s[1].id = NilId BY <2>3 DEF LastError
    <3>2. QED BY <3>1
  <2>4. QED BY <2>1, <2>2, <2>3
<1>6. Before(g, s, n + 1)
  <2>1. n \in Nat BY DEF Flow
  <2>2. n + 1 \in Nat /\ 1 <= n + 1 BY <2>1
  <2>3. QED BY <1>4, <2>2 DEF InOrder
<1>7. still => 1 <= any /\ any <= n /\ Before(g, s, any) BY <1>4 DEF InOrder, Flow
<1>8. \A k \in DOMAIN e :
          /\ 1 <= e[k].id /\ e[k].id <= n
          /\ Before(g, s, e[k].id)
          /\ still => any < e[k].id
          /\ \A l \in DOMAIN e : l < k => e[l].id < e[k].id
  <2>1. CASE e = b BY <1>3, <1>4, <2>1 DEF InOrder
  <2>2. CASE e = <<>>
    <3>1. DOMAIN e = {} BY <2>2
    <3>2. QED BY <3>1
  <2>3. QED BY <2>1, <2>2
<1>9. QED BY <1>2, <1>5, <1>6, <1>7, <1>8 DEF InOrder

LEMMA OneElementSeq ==
    ASSUME NEW S, NEW x \in S
    PROVE  <<x>> \in Seq(S)
OBVIOUS

\* the replies are lost, or there is only the last error
LEMMA FlowEnds ==
    ASSUME NEW g, NEW r, NEW busy, NEW id, NEW b, NEW n, NEW K, NEW J,
           Flow(g, r, busy, id, b, n, K, J), InOrder(g, r, busy, id, b, n)
    PROVE  /\ \A e \in {b, <<>>} : Flow(g, <<>>, busy, id, e, n, K, J) /\ InOrder(g, <<>>, busy, id, e, n)
           /\ \A f \in Numbered(K) : f.id = NilId =>
                Flow(g, <<f>>, busy, id, <<>>, n, K, J) /\ InOrder(g, <<f>>, busy, id, <<>>, n)
<1>1. busy \in BOOLEAN /\ <<>> \in Seq(Numbered(K)) BY DEF Flow
<1>2. ASSUME NEW e \in {b, <<>>} PROVE Flow(g, <<>>, busy, id, e, n, K, J) /\ InOrder(g, <<>>, busy, id, e, n)
  <2>1. SUFFICES ASSUME NEW s, s = <<>> PROVE Flow(g, s, busy, id, e, n, K, J) /\ InOrder(g, s, busy, id, e, n)
    OBVIOUS
  <2>2. s \in Seq(Numbered(K)) /\ s \in {r, <<>>} BY <1>1, <2>1
  <2>3. QED BY <1>1, <1>2, <2>2, FlowCut
<1>3. ASSUME NEW f \in Numbered(K), f.id = NilId
      PROVE Flow(g, <<f>>, busy, id, <<>>, n, K, J) /\ InOrder(g, <<f>>, busy, id, <<>>, n)
  <2>1. SUFFICES ASSUME NEW s, s = <<f>>, NEW e, e = <<>>
                 PROVE Flow(g, s, busy, id, e, n, K, J) /\ InOrder(g, s, busy, id, e, n)
    OBVIOUS
  <2>2. s \in Seq(Numbered(K)) BY <2>1, OneElementSeq
  <2>3. LastError(s) BY <1>3, <2>1 DEF LastError
  <2>4. e \in {b, <<>>} BY <2>1
  <2>5. QED BY <1>1, <2>2, <2>3, <2>4, FlowCut
<1>4. QED BY <1>2, <1>3

\* what a peer may be told
Said == {"error", "hello_ack"} \cup UNION {Answers(k) : k \in PeerFrames}

Busy(cl) == work[cl].at # "idle"

PeerInv(cl) ==
    /\ pc[cl] \in {"ready", "talking", "done"}
    /\ pc[cl] = "ready" => work[cl] = NoWork /\ conn[cl].inbox = <<>>
    /\ Flow(got[cl], conn[cl].replies, Busy(cl), work[cl].id, conn[cl].inbox, calls[cl], Said, PeerFrames)
    /\ InOrder(got[cl], conn[cl].replies, Busy(cl), work[cl].id, conn[cl].inbox, calls[cl])
    /\ Busy(cl) => work[cl].kind \in IF work[cl].at = "answered" THEN Said ELSE PeerFrames

\* an agent has one request at a time, and nobody none
QuietInv(cl) == got[cl] = <<>> /\ pc[cl] \notin {"ready", "talking"}

LEMMA PeersParseNothing == "peer" \notin Parses
BY DEF Parses, LifecycleCommands, TagCommands, PaneInputCommands

\* what a peer does itself
LEMMA PeerClientStep ==
    ASSUME ShapeInv, NEW cl \in Clients, program[cl] = "peer", PeerInv(cl),
           ClientStep(cl) \/ UserStep(cl) \/ PeerStep(cl), UNCHANGED program
    PROVE  PeerInv(cl)'
<1>0. /\ pc = [x \in Clients |-> pc[x]] /\ calls = [x \in Clients |-> calls[x]]
      /\ got = [x \in Clients |-> got[x]] /\ conn = [x \in Clients |-> conn[x]]
      /\ IsConn(conn[cl])
  BY DEF ShapeInv, FunctionInv, ARecord
<1>1. ~IsCommand(cl) BY CliIsGood DEF IsCommand
<1>2. ~ClientStep(cl) /\ ~UserStep(cl)
  BY <1>1, PeersParseNothing DEF PeerInv, ClientStep, Connect, ConnectFails, SendRequest, ReadReply, RequestFails,
     UserStep, BadArguments, Killed, ReadMessage, StdinEnds
<1>3. UNCHANGED work
  BY <1>2 DEF PeerStep, PeerConnects, PeerSends, PeerReads, PeerLeaves, server
<1>4. /\ Flow(got[cl], conn[cl].replies, Busy(cl), work[cl].id, conn[cl].inbox, calls[cl], Said, PeerFrames)
      /\ InOrder(got[cl], conn[cl].replies, Busy(cl), work[cl].id, conn[cl].inbox, calls[cl])
      /\ Busy(cl) \in BOOLEAN
  BY DEF PeerInv, Busy
<1>5. <<>> \in Seq(Numbered(Said)) /\ conn[cl].replies \in Seq(Numbered(Said))
  BY <1>4 DEF Flow
\* the flow goes on, and the rest is what it was
<1>6. ASSUME pc'[cl] \in {"talking", "done"},
             Flow(got'[cl], conn'[cl].replies, Busy(cl), work[cl].id, conn'[cl].inbox, calls'[cl], Said, PeerFrames),
             InOrder(got'[cl], conn'[cl].replies, Busy(cl), work[cl].id, conn'[cl].inbox, calls'[cl])
      PROVE PeerInv(cl)'
  <2>1. Said' = Said BY DEF Said
  <2>2. QED BY <1>3, <1>6, <2>1 DEF PeerInv, Busy
<1>7. CASE PeerConnects(cl)
  <2>1. conn'[cl].replies = <<>> /\ conn'[cl].inbox = <<>> /\ pc'[cl] = "talking" /\ UNCHANGED <<got, calls>>
    BY <1>0, <1>7 DEF PeerConnects, Connects, NoConn
  <2>2. /\ Flow(got[cl], <<>>, Busy(cl), work[cl].id, <<>>, calls[cl], Said, PeerFrames)
        /\ InOrder(got[cl], <<>>, Busy(cl), work[cl].id, <<>>, calls[cl])
    BY <1>4, FlowEnds
  <2>3. QED BY <1>6, <2>1, <2>2
<1>8. CASE PeerSends(cl)
  <2>1. PICK k \in PeerFrames :
          conn' = [conn EXCEPT ![cl].inbox = Append(@, Frame(calls'[cl], k))]
    BY <1>8 DEF PeerSends
  <2>2. calls[cl] \in Nat BY <1>4 DEF Flow
  <2>3. calls'[cl] = calls[cl] + 1 /\ UNCHANGED <<got, pc>> BY <1>0, <1>8 DEF PeerSends
  <2>4. Frame(calls'[cl], k) \in Numbered(PeerFrames) /\ Frame(calls'[cl], k).id = calls[cl] + 1
    BY <2>2, <2>3 DEF Frame, Numbered
  <2>5. conn'[cl].replies = conn[cl].replies /\ conn'[cl].inbox = Append(conn[cl].inbox, Frame(calls'[cl], k))
    BY <1>0, <2>1 DEF IsConn
  <2>6. pc'[cl] = "talking" BY <1>8, <2>3 DEF PeerSends
  <2>7. QED BY <1>4, <1>6, <2>3, <2>4, <2>5, <2>6, FlowSent
<1>9. CASE PeerReads(cl)
  <2>1. /\ got'[cl] = Append(got[cl], Head(conn[cl].replies).id)
        /\ conn'[cl].replies = Tail(conn[cl].replies) /\ conn'[cl].inbox = conn[cl].inbox
        /\ UNCHANGED <<pc, calls>> /\ pc[cl] = "talking" /\ conn[cl].replies # <<>>
    BY <1>0, <1>9 DEF PeerReads, IsConn
  <2>2. QED BY <1>4, <1>6, <2>1, FlowRead
<1>10. CASE PeerLeaves(cl)
  <2>1. /\ conn'[cl].replies = <<>> /\ conn'[cl].inbox = conn[cl].inbox
        /\ UNCHANGED <<got, calls>> /\ pc'[cl] = "done"
    BY <1>0, <1>10 DEF PeerLeaves, Closed, IsConn
  <2>2. /\ Flow(got[cl], <<>>, Busy(cl), work[cl].id, conn[cl].inbox, calls[cl], Said, PeerFrames)
        /\ InOrder(got[cl], <<>>, Busy(cl), work[cl].id, conn[cl].inbox, calls[cl])
    BY <1>4, FlowEnds
  <2>3. QED BY <1>6, <2>1, <2>2
<1>11. QED BY <1>2, <1>7, <1>8, <1>9, <1>10 DEF PeerStep

\* where the cockpit reads and answers for a peer
LEMMA PeerServerStep ==
    ASSUME ShapeInv, NEW cl \in Clients, program[cl] = "peer", PeerInv(cl), Queued(cl),
           ServerStep(cl) \/ WindowSystemAnswers(cl), UNCHANGED program
    PROVE  PeerInv(cl)'
<1>0. /\ conn = [x \in Clients |-> conn[x]] /\ work = [x \in Clients |-> work[x]]
      /\ IsConn(conn[cl]) /\ IsWork(work[cl]) /\ deferred \in [Cockpits -> Seq(Clients)]
  BY DEF ShapeInv, FunctionInv, ARecord
<1>1. UNCHANGED <<pc, got, calls>>
  BY DEF ServerStep, Accept, TooLarge, NoEnvelope, Greet, Refuse, Handle, Dispatch, Answer, AskWindowSystem,
     WindowSystemAnswers, WriteReply, client
<1>2. /\ Flow(got[cl], conn[cl].replies, Busy(cl), work[cl].id, conn[cl].inbox, calls[cl], Said, PeerFrames)
      /\ InOrder(got[cl], conn[cl].replies, Busy(cl), work[cl].id, conn[cl].inbox, calls[cl])
      /\ Busy(cl) \in BOOLEAN /\ Said' = Said
  BY DEF PeerInv, Busy, Said
<1>3. <<>> \in Seq(Numbered(Said)) /\ conn[cl].replies \in Seq(Numbered(Said))
  BY <1>2 DEF Flow
<1>4. pc[cl] = "ready" => work[cl] = NoWork /\ conn[cl].inbox = <<>> BY DEF PeerInv
<1>5. NoWork.at = "idle" BY DEF NoWork
\* the flow goes on
<1>6. ASSUME pc[cl] = "ready" => work'[cl] = NoWork /\ conn'[cl].inbox = <<>>,
             Flow(got[cl], conn'[cl].replies, work'[cl].at # "idle", work'[cl].id, conn'[cl].inbox, calls[cl],
                  Said, PeerFrames),
             InOrder(got[cl], conn'[cl].replies, work'[cl].at # "idle", work'[cl].id, conn'[cl].inbox, calls[cl]),
             work'[cl].at # "idle" =>
                work'[cl].kind \in IF work'[cl].at = "answered" THEN Said ELSE PeerFrames
      PROVE PeerInv(cl)'
  BY <1>1, <1>2, <1>6 DEF PeerInv, Busy
\* the request is still worked on
<1>7. ASSUME UNCHANGED conn, work[cl].at # "idle", work'[cl].at # "idle", work'[cl].id = work[cl].id,
             work'[cl].kind \in IF work'[cl].at = "answered" THEN Said ELSE PeerFrames
      PROVE PeerInv(cl)'
  <2>1. Busy(cl) = (work'[cl].at # "idle") BY <1>7 DEF Busy
  <2>2. pc[cl] # "ready" BY <1>4, <1>5, <1>7
  <2>3. QED BY <1>2, <1>6, <1>7, <2>1, <2>2
\* the next frame is read and answered at once
<1>8. Serves(cl) => /\ conn[cl].inbox # <<>> /\ Busy(cl) = FALSE /\ pc[cl] # "ready"
                    /\ Request(cl) = Head(conn[cl].inbox)
                    /\ Head(conn[cl].inbox).kind \in PeerFrames
  <2>1. SUFFICES ASSUME Serves(cl) PROVE Head(conn[cl].inbox).kind \in PeerFrames
    BY <1>4 DEF Serves, Busy, PeerInv, Request
  <2>2. conn[cl].inbox \in Seq(Numbered(PeerFrames)) /\ conn[cl].inbox # <<>> BY <1>2, <2>1 DEF Flow, Serves
  <2>3. Head(conn[cl].inbox) \in Numbered(PeerFrames) BY <2>2, TailOps
  <2>4. QED BY <2>3 DEF Numbered
<1>9. ASSUME Serves(cl), NEW id \in {Request(cl).id, NilId}, NEW kind \in Said, UNCHANGED work,
             conn'[cl].inbox = Tail(conn[cl].inbox),
             conn'[cl].replies = Append(conn[cl].replies, Frame(id, kind))
      PROVE PeerInv(cl)'
  <2>1. /\ Flow(got[cl], conn[cl].replies, TRUE, Head(conn[cl].inbox).id, Tail(conn[cl].inbox), calls[cl], Said, PeerFrames)
        /\ InOrder(got[cl], conn[cl].replies, TRUE, Head(conn[cl].inbox).id, Tail(conn[cl].inbox), calls[cl])
    <3>1. /\ Flow(got[cl], conn[cl].replies, FALSE, work[cl].id, conn[cl].inbox, calls[cl], Said, PeerFrames)
          /\ InOrder(got[cl], conn[cl].replies, FALSE, work[cl].id, conn[cl].inbox, calls[cl])
      BY <1>2, <1>8, <1>9
    <3>2. QED BY <1>8, <1>9, <3>1, FlowTaken
  <2>2. Head(conn[cl].inbox).id \in Nat BY <2>1 DEF Flow
  <2>3. Frame(id, kind) \in Numbered(Said) /\ Frame(id, kind).id \in {Head(conn[cl].inbox).id, NilId}
    BY <1>8, <1>9, <2>2 DEF Frame, Numbered, NilId
  <2>4. /\ Flow(got[cl], conn'[cl].replies, FALSE, work[cl].id, conn'[cl].inbox, calls[cl], Said, PeerFrames)
        /\ InOrder(got[cl], conn'[cl].replies, FALSE, work[cl].id, conn'[cl].inbox, calls[cl])
    BY <1>9, <2>1, <2>3, FlowAnswered, ZenonT(60)
  <2>5. (work'[cl].at # "idle") = FALSE /\ work'[cl] = work[cl] BY <1>8, <1>9 DEF Busy
  <2>6. QED BY <1>6, <1>8, <1>9, <2>4, <2>5
<1>10. CASE Accept(cl)
  <2>1. UNCHANGED work BY <1>10 DEF Accept, server
  <2>2. Busy(cl) = (work'[cl].at # "idle") /\ work'[cl] = work[cl] BY <2>1 DEF Busy
  <2>3. ASSUME pc[cl] = "ready" => conn'[cl].inbox = <<>>,
               Flow(got[cl], conn'[cl].replies, Busy(cl), work[cl].id, conn'[cl].inbox, calls[cl], Said, PeerFrames),
               InOrder(got[cl], conn'[cl].replies, Busy(cl), work[cl].id, conn'[cl].inbox, calls[cl])
        PROVE PeerInv(cl)'
    BY <1>4, <1>6, <2>2, <2>3 DEF PeerInv, Busy
  <2>4. CASE cl \notin foreign
    <3>1. conn'[cl].replies = conn[cl].replies /\ conn'[cl].inbox = conn[cl].inbox
      BY <1>0, <1>10, <2>4 DEF Accept, IsConn
    <3>2. QED BY <1>2, <1>4, <2>3, <3>1
  <2>5. CASE cl \in foreign
    <3>1. conn'[cl].replies = <<Frame(NilId, "error")>> /\ conn'[cl].inbox = <<>>
      BY <1>0, <1>10, <2>5 DEF Accept, IsConn
    <3>2. Frame(NilId, "error") \in Numbered(Said) /\ Frame(NilId, "error").id = NilId
      BY DEF Frame, Numbered, NilId, Said
    <3>3. /\ Flow(got[cl], <<Frame(NilId, "error")>>, Busy(cl), work[cl].id, <<>>, calls[cl], Said, PeerFrames)
          /\ InOrder(got[cl], <<Frame(NilId, "error")>>, Busy(cl), work[cl].id, <<>>, calls[cl])
      BY <1>2, <3>2, FlowEnds
    <3>4. QED BY <2>3, <3>1, <3>3
  <2>6. QED BY <2>4, <2>5
<1>11. CASE TooLarge(cl)
  <2>1. UNCHANGED work /\ conn'[cl].replies = conn[cl].replies /\ conn'[cl].inbox = <<>>
    BY <1>0, <1>11 DEF TooLarge, IsConn, server
  <2>2. /\ Flow(got[cl], conn'[cl].replies, Busy(cl), work[cl].id, conn'[cl].inbox, calls[cl], Said, PeerFrames)
        /\ InOrder(got[cl], conn'[cl].replies, Busy(cl), work[cl].id, conn'[cl].inbox, calls[cl])
    BY <1>2, <1>3, <2>1, FlowCut
  <2>3. Busy(cl) = (work'[cl].at # "idle") BY <2>1 DEF Busy
  <2>4. QED BY <1>4, <1>6, <2>1, <2>2, <2>3 DEF PeerInv, Busy
<1>12. ASSUME NEW id, NEW kind,
              conn' = Reply(cl, id, kind) \/ conn' = [Reply(cl, id, kind) EXCEPT ![cl].role = RoleOf(cl)]
       PROVE  /\ conn'[cl].inbox = Tail(conn[cl].inbox)
              /\ conn'[cl].replies = Append(conn[cl].replies, Frame(id, kind))
  <2> DEFINE replied == Reply(cl, id, kind)
             role == RoleOf(cl)
  <2>1. /\ replied = [x \in Clients |-> replied[x]] /\ IsConn(replied[cl])
        /\ replied[cl].inbox = Tail(conn[cl].inbox)
        /\ replied[cl].replies = Append(conn[cl].replies, Frame(id, kind))
    BY <1>0 DEF Reply, IsConn
  <2>2. conn' = replied \/ conn' = [replied EXCEPT ![cl].role = role] BY <1>12
  <2> HIDE DEF replied, role
  <2>3. conn'[cl].inbox = replied[cl].inbox /\ conn'[cl].replies = replied[cl].replies
    BY <2>1, <2>2 DEF IsConn
  <2>4. QED BY <2>1, <2>3
<1>13. "error" \in Said /\ "hello_ack" \in Said BY DEF Said
<1>14. CASE NoEnvelope(cl) BY <1>9, <1>12, <1>13, <1>14 DEF NoEnvelope, server
<1>15. CASE Greet(cl) BY <1>9, <1>12, <1>13, <1>15 DEF Greet, server
<1>16. CASE Refuse(cl) BY <1>9, <1>12, <1>13, <1>16 DEF Refuse, server
<1>17. CASE Handle(cl)
  <2>1. /\ Flow(got[cl], conn[cl].replies, FALSE, work[cl].id, conn[cl].inbox, calls[cl], Said, PeerFrames)
        /\ InOrder(got[cl], conn[cl].replies, FALSE, work[cl].id, conn[cl].inbox, calls[cl])
        /\ conn[cl].inbox # <<>>
    BY <1>2, <1>8, <1>17 DEF Handle
  <2>2. /\ Flow(got[cl], conn[cl].replies, TRUE, Head(conn[cl].inbox).id, Tail(conn[cl].inbox), calls[cl], Said, PeerFrames)
        /\ InOrder(got[cl], conn[cl].replies, TRUE, Head(conn[cl].inbox).id, Tail(conn[cl].inbox), calls[cl])
    BY <2>1, FlowTaken
  <2>3. /\ work'[cl].at \in {"bus thread", "queued"} /\ work'[cl].id = Head(conn[cl].inbox).id
        /\ work'[cl].kind = Head(conn[cl].inbox).kind
    BY <1>0, <1>17 DEF Handle, Request
  <2>4. conn'[cl].replies = conn[cl].replies /\ conn'[cl].inbox = Tail(conn[cl].inbox)
    BY <1>0, <1>17 DEF Handle, IsConn
  <2>5. (work'[cl].at # "idle") = TRUE /\ work'[cl].at # "answered" BY <2>3
  <2>6. pc[cl] # "ready" BY <1>8, <1>17 DEF Handle
  <2>7. work'[cl].kind \in PeerFrames BY <1>8, <1>17, <2>3 DEF Handle
  <2>8. QED BY <1>6, <2>2, <2>3, <2>4, <2>5, <2>6, <2>7
<1>18. CASE Dispatch(cl)
  <2>1. work[cl].at = "queued"
    <3>1. conn[cl].to \in Cockpits BY <1>18 DEF Dispatch, Live, ShapeInv, ARecord
    <3>2. 1 \in DOMAIN deferred[conn[cl].to] /\ deferred[conn[cl].to][1] = cl
      BY <1>0, <1>18, <3>1, QueueOps DEF Dispatch
    <3>3. QED BY <3>1, <3>2 DEF Queued
  <2>2. work'[cl].at = "task" /\ work'[cl].id = work[cl].id /\ work'[cl].kind = work[cl].kind
    BY <1>0, <1>18 DEF Dispatch, IsWork
  <2>3. QED BY <1>7, <1>18, <2>1, <2>2 DEF Dispatch, PeerInv, Busy
\* a handler returns
<1>19. ASSUME NEW a \in Answers(work[cl].kind), NEW e, Returns(cl, a, e), UNCHANGED conn,
              work[cl].at # "idle", work[cl].at # "answered"
       PROVE  PeerInv(cl)'
  <2>1. work[cl].kind \in PeerFrames BY <1>19 DEF PeerInv, Busy
  <2>2. a \in Said BY <1>19, <2>1 DEF Said
  <2>3. work'[cl].at = "answered" /\ work'[cl].id = work[cl].id /\ work'[cl].kind = a
    BY <1>0, <1>19 DEF Returns, IsWork
  <2>4. QED BY <1>7, <1>19, <2>2, <2>3
<1>20. CASE Answer(cl) BY <1>19, <1>20 DEF Answer, Finishes
<1>21. CASE AskWindowSystem(cl)
  <2>1. CASE work' = [work EXCEPT ![cl].at = "window system"]
    <3>1. work'[cl].at = "window system" /\ work'[cl].id = work[cl].id /\ work'[cl].kind = work[cl].kind
      BY <1>0, <2>1 DEF IsWork
    <3>2. QED BY <1>7, <1>21, <3>1 DEF AskWindowSystem, PeerInv, Busy
  <2>2. CASE "error" \in Answers(work[cl].kind) /\ Returns(cl, "error", "nothing")
    BY <1>19, <1>21, <2>2 DEF AskWindowSystem
  <2>3. QED BY <1>21, <2>1, <2>2 DEF AskWindowSystem
<1>22. CASE WindowSystemAnswers(cl) BY <1>19, <1>22 DEF WindowSystemAnswers, Finishes
<1>23. CASE WriteReply(cl)
  <2>1. work'[cl] = NoWork BY <1>0, <1>23 DEF WriteReply
  <2>2. Busy(cl) = TRUE /\ work[cl].kind \in Said BY <1>23 DEF WriteReply, Busy, PeerInv
  <2>3. pc[cl] # "ready" BY <1>4, <1>5, <2>2 DEF Busy
  <2>4. CASE conn[cl].link = "open"
    <3>1. conn'[cl].replies = Append(conn[cl].replies, Frame(work[cl].id, work[cl].kind))
          /\ conn'[cl].inbox = conn[cl].inbox
      BY <1>0, <1>23, <2>4 DEF WriteReply, IsConn
    <3>2. work[cl].id \in Nat BY <1>2, <2>2 DEF Flow
    <3>3. Frame(work[cl].id, work[cl].kind) \in Numbered(Said)
          /\ Frame(work[cl].id, work[cl].kind).id \in {work[cl].id, NilId}
      BY <2>2, <3>2 DEF Frame, Numbered
    <3>4. /\ Flow(got[cl], conn'[cl].replies, FALSE, work'[cl].id, conn'[cl].inbox, calls[cl], Said, PeerFrames)
          /\ InOrder(got[cl], conn'[cl].replies, FALSE, work'[cl].id, conn'[cl].inbox, calls[cl])
      BY <1>2, <2>2, <3>1, <3>3, FlowAnswered, ZenonT(60)
    <3>5. (work'[cl].at # "idle") = FALSE BY <1>5, <2>1
    <3>6. QED BY <1>6, <2>3, <3>4, <3>5
  <2>5. CASE conn[cl].link # "open"
    <3>1. UNCHANGED conn BY <1>23, <2>5 DEF WriteReply
    <3>2. /\ Flow(got[cl], conn'[cl].replies, FALSE, work'[cl].id, conn'[cl].inbox, calls[cl], Said, PeerFrames)
          /\ InOrder(got[cl], conn'[cl].replies, FALSE, work'[cl].id, conn'[cl].inbox, calls[cl])
      <4>1. /\ Flow(got[cl], conn[cl].replies, FALSE, work'[cl].id, conn[cl].inbox, calls[cl], Said, PeerFrames)
            /\ InOrder(got[cl], conn[cl].replies, FALSE, work'[cl].id, conn[cl].inbox, calls[cl])
        BY <1>2, <1>3, FlowCut
      <4>2. QED BY <3>1, <4>1
    <3>3. (work'[cl].at # "idle") = FALSE BY <1>5, <2>1
    <3>4. QED BY <1>6, <2>3, <3>2, <3>3
  <2>6. QED BY <2>4, <2>5
<1>24. QED
  BY <1>10, <1>11, <1>14, <1>15, <1>16, <1>17, <1>18, <1>20, <1>21, <1>22, <1>23 DEF ServerStep

LEMMA PeerLives ==
    ASSUME ShapeInv, SocketTypes, NEW cl \in Clients, program[cl] = "peer", PeerInv(cl),
           NEW c \in Cockpits, Lives(c)
    PROVE  PeerInv(cl)'
<1>0. IsConn(conn[cl]) BY DEF ShapeInv, ARecord
<1>1. UNCHANGED <<pc, got, calls>> BY LivesLeaves DEF client
<1>2. /\ Flow(got[cl], conn[cl].replies, Busy(cl), work[cl].id, conn[cl].inbox, calls[cl], Said, PeerFrames)
      /\ InOrder(got[cl], conn[cl].replies, Busy(cl), work[cl].id, conn[cl].inbox, calls[cl])
      /\ Busy(cl) \in BOOLEAN /\ Said' = Said
  BY DEF PeerInv, Busy, Said
<1>3. conn[cl].replies \in Seq(Numbered(Said)) BY <1>2 DEF Flow
<1>4. conn'[cl].replies = conn[cl].replies /\ conn'[cl].inbox \in {conn[cl].inbox, <<>>}
      /\ (work'[cl] = NoWork \/ UNCHANGED work[cl])
  BY <1>0, LivesIs, CutDrops DEF Refused, Dropped, IsConn
<1>5. Busy(cl)' \in BOOLEAN /\ (Busy(cl)' => Busy(cl) /\ UNCHANGED work[cl])
  BY <1>4 DEF Busy, NoWork
<1>6. /\ Flow(got[cl], conn'[cl].replies, Busy(cl)', work'[cl].id, conn'[cl].inbox, calls[cl], Said, PeerFrames)
      /\ InOrder(got[cl], conn'[cl].replies, Busy(cl)', work'[cl].id, conn'[cl].inbox, calls[cl])
  BY <1>2, <1>3, <1>4, <1>5, FlowCut
<1>7. pc'[cl] = "ready" => work'[cl] = NoWork /\ conn'[cl].inbox = <<>> BY <1>1, <1>4 DEF PeerInv
<1>8. QED BY <1>1, <1>2, <1>5, <1>6, <1>7 DEF PeerInv

-----------------------------------------------------------------------------
(* The bus as a whole *)

ProgramInv(cl) ==
    IF IsCommand(cl) THEN CommandInv(cl)
    ELSE IF program[cl] = "peer" THEN PeerInv(cl) /\ Queued(cl)
    ELSE QuietInv(cl)

BusInv == SocketInv /\ ShapeInv /\ \A cl \in Clients : ProgramInv(cl)

LEMMA PeerStays ==
    ASSUME ShapeInv, SocketTypes, NEW cl \in Clients, program[cl] = "peer", PeerInv(cl), Queued(cl), [Next]_vars
    PROVE  PeerInv(cl)' /\ Queued(cl)' /\ program'[cl] = "peer"
<1>0. Fresh(cl) BY DEF PeerInv, Fresh
<1>1. ASSUME NEW d \in Clients, Acts(d) PROVE PeerInv(cl)' /\ Queued(cl)' /\ program'[cl] = "peer"
  <2>1. UNCHANGED program BY <1>1, ActsLeaves
  <2>2. Queued(cl)' BY <1>0, <1>1, QueuedActs
  <2>3. CASE d = cl BY <1>1, <2>1, <2>2, <2>3, PeerClientStep, PeerServerStep DEF Acts
  <2>4. CASE d # cl
    <3>1. UNCHANGED View(cl) BY <1>1, <2>4, Elsewhere
    <3>2. PeerInv(cl)' BY <3>1 DEF View, PeerInv, Busy, Said
    <3>3. QED BY <2>1, <2>2, <3>2
  <2>5. QED BY <2>3, <2>4
<1>2. ASSUME NEW c \in Cockpits, Lives(c) PROVE PeerInv(cl)' /\ Queued(cl)' /\ program'[cl] = "peer"
  BY <1>2, QueuedLives, PeerLives, LivesLeaves DEF client
<1>3. CASE UNCHANGED vars
  BY <1>3 DEF vars, client, server, PeerInv, Busy, Said, Queued
<1>4. QED BY <1>1, <1>2, <1>3, NextIs

LEMMA QuietStays ==
    ASSUME ShapeInv, NEW cl \in Clients, ~IsCommand(cl), program[cl] # "peer", QuietInv(cl), [Next]_vars
    PROVE  QuietInv(cl)' /\ ~IsCommand(cl)' /\ program'[cl] # "peer"
<1>0. pc = [x \in Clients |-> pc[x]] /\ got = [x \in Clients |-> got[x]]
  BY DEF ShapeInv, FunctionInv
<1>1. ASSUME NEW d \in Clients, Acts(d) PROVE QuietInv(cl)' /\ UNCHANGED program
  <2>1. UNCHANGED program BY <1>1, ActsLeaves
  <2>2. CASE d # cl BY <1>1, <2>1, <2>2, Elsewhere DEF View, QuietInv
  <2>3. CASE d = cl
    <3>1. CASE ClientStep(cl)
      BY <1>0, <2>1, <3>1 DEF ClientStep, Connect, Connects, ConnectFails, SendRequest, ReadReply, RequestFails, Ends, QuietInv
    <3>2. CASE UserStep(cl)
      BY <1>0, <2>1, <3>2 DEF UserStep, BadArguments, Killed, ReadMessage, StdinEnds, Ends, QuietInv
    <3>3. ~PeerStep(cl)
      BY DEF PeerStep, PeerConnects, PeerSends, PeerReads, PeerLeaves, QuietInv
    <3>4. CASE ServerStep(cl) \/ WindowSystemAnswers(cl)
      <4>1. UNCHANGED <<pc, got>>
        BY <3>4 DEF ServerStep, Accept, TooLarge, NoEnvelope, Greet, Refuse, Handle, Dispatch, Answer,
           AskWindowSystem, WindowSystemAnswers, WriteReply, client
      <4>2. QED BY <2>1, <4>1 DEF QuietInv
    <3>5. QED BY <1>1, <2>3, <3>1, <3>2, <3>3, <3>4 DEF Acts
  <2>4. QED BY <2>2, <2>3
<1>2. ASSUME NEW c \in Cockpits, Lives(c) PROVE QuietInv(cl)' /\ UNCHANGED program
  BY <1>2, LivesLeaves DEF client, QuietInv
<1>3. CASE UNCHANGED vars BY <1>3 DEF vars, client, QuietInv, IsCommand
<1>4. QED BY <1>1, <1>2, <1>3, NextIs DEF IsCommand

LEMMA BusAtStart == Init => BusInv
<1> SUFFICES ASSUME Init PROVE BusInv OBVIOUS
<1>1. SocketInv BY SocketAtStart
<1>2. PICK s \in Scenes : program = s.programs BY DEF Init
<1>3. program \in [Clients -> DOMAIN Cli \cup {"mcp", "peer", "nobody"}] BY <1>2, ClientsAssumption
<1>4. /\ pc = [x \in Clients |-> pc[x]] /\ outcome = [x \in Clients |-> None]
      /\ calls = [x \in Clients |-> 0] /\ got = [x \in Clients |-> <<>>]
      /\ conn = [x \in Clients |-> NoConn] /\ work = [x \in Clients |-> NoWork]
      /\ deferred = [c \in Cockpits |-> <<>>] /\ served = [x \in Clients |-> None]
      /\ tool = [x \in Clients |-> tool[x]]
  BY DEF Init
<1>5. ShapeInv
  <2>1. FunctionInv
    <3>1. <<>> \in Seq(Clients) OBVIOUS
    <3>2. QED BY <1>3, <1>4, <3>1 DEF FunctionInv
  <2>2. IsConn(NoConn) /\ IsWork(NoWork) /\ NoConn.to = None BY DEF IsConn, IsWork, NoConn, NoWork
  <2>3. QED BY <1>4, <2>1, <2>2 DEF ShapeInv, ARecord
<1>6. ASSUME NEW cl \in Clients PROVE ProgramInv(cl)
  <2>1. \A c \in Cockpits : DOMAIN deferred[c] = {} BY <1>4
  <2>2. Queued(cl) BY <2>1 DEF Queued
  <2>3. CASE IsCommand(cl)
    <3>1. program[cl] # "mcp" /\ program[cl] # "nobody" BY <2>3, Asks1
    <3>2. pc[cl] = "ready" BY <3>1 DEF Init
    <3>3. Ready(cl) /\ StillThere(cl) BY <1>4, <3>2 DEF Ready, StillThere, NoConn
    <3>4. QED BY <2>2, <2>3, <3>3 DEF ProgramInv, CommandInv
  <2>4. CASE ~IsCommand(cl) /\ program[cl] = "peer"
    <3>1. pc[cl] = "ready" BY <2>4 DEF Init
    <3>2. conn[cl].inbox = <<>> /\ conn[cl].replies = <<>> /\ Busy(cl) = FALSE /\ got[cl] = <<>> /\ calls[cl] = 0
      BY <1>4 DEF NoConn, NoWork, Busy
    <3>3. Flow(<<>>, <<>>, FALSE, work[cl].id, <<>>, 0, Said, PeerFrames) BY DEF Flow
    <3>4. InOrder(<<>>, <<>>, FALSE, work[cl].id, <<>>, 0)
      <4>1. DOMAIN <<>> = {} OBVIOUS
      <4>2. QED BY <4>1 DEF InOrder, Before
    <3>5. PeerInv(cl) BY <1>4, <3>1, <3>2, <3>3, <3>4 DEF PeerInv
    <3>6. QED BY <2>2, <2>4, <3>5 DEF ProgramInv
  <2>5. CASE ~IsCommand(cl) /\ program[cl] # "peer"
    <3>1. program[cl] = "mcp" \/ program[cl] = "nobody" BY <1>3, <2>5 DEF IsCommand
    <3>2. pc[cl] \in {"reading", "done"} BY <3>1 DEF Init
    <3>3. QED BY <1>4, <2>5, <3>2 DEF ProgramInv, QuietInv
  <2>6. QED BY <2>3, <2>4, <2>5
<1>7. QED BY <1>1, <1>5, <1>6 DEF BusInv

LEMMA BusInvHolds == Spec => []BusInv
<1>1. ASSUME BusInv, SocketInv', [Next]_vars PROVE BusInv'
  <2>0. ShapeInv /\ SocketTypes /\ SocketInv BY <1>1 DEF BusInv, SocketInv
  <2>1. SocketInv' BY <1>1
  <2>2. ShapeInv'
    <3>1. CASE UNCHANGED vars
      BY <2>0, <3>1 DEF ShapeInv, FunctionInv, ARecord, vars, client, server
    <3>2. QED BY <1>1, <2>0, <3>1, NextIs, ShapeActs, ShapeLives
  <2>3. ASSUME NEW cl \in Clients PROVE ProgramInv(cl)'
    <3>1. ProgramInv(cl) BY <1>1 DEF BusInv
    <3>2. CASE IsCommand(cl) BY <1>1, <2>0, <3>1, <3>2, CommandStays DEF ProgramInv
    <3>3. CASE ~IsCommand(cl) /\ program[cl] = "peer"
      <4>1. PeerInv(cl)' /\ Queued(cl)' /\ program'[cl] = "peer"
        BY <1>1, <2>0, <3>1, <3>3, PeerStays DEF ProgramInv
      <4>2. ~IsCommand(cl)' BY <3>3, <4>1 DEF IsCommand
      <4>3. QED BY <4>1, <4>2 DEF ProgramInv
    <3>4. CASE ~IsCommand(cl) /\ program[cl] # "peer"
      BY <1>1, <2>0, <3>1, <3>4, QuietStays DEF ProgramInv
    <3>5. QED BY <3>2, <3>3, <3>4
  <2>4. QED BY <2>1, <2>2, <2>3 DEF BusInv
<1>2. QED BY BusAtStart, SocketInvHolds, <1>1, PTL DEF Spec

LEMMA FitFollows == BusInv => AnswersFit
<1> SUFFICES ASSUME BusInv, NEW cl \in Clients
             PROVE  IF IsCommand(cl) THEN CommandsTell(cl) ELSE RepliesInOrder(cl)
  BY DEF AnswersFit
<1>1. ProgramInv(cl) BY DEF BusInv
<1>2. CASE IsCommand(cl)
  <2>1. CASE outcome[cl] = None BY <1>2, <2>1 DEF CommandsTell, None
  <2>2. CASE Done(cl) BY <1>2, <2>2 DEF Done
  <2>3. QED BY <1>1, <1>2, <2>1, <2>2 DEF ProgramInv, CommandInv, Ready, Greeting, Waiting
<1>3. CASE ~IsCommand(cl) /\ program[cl] = "peer"
  BY <1>1, <1>3 DEF ProgramInv, PeerInv, InOrder, RepliesInOrder
<1>4. CASE ~IsCommand(cl) /\ program[cl] # "peer"
  <2>1. DOMAIN got[cl] = {} BY <1>1, <1>4 DEF ProgramInv, QuietInv
  <2>2. QED BY <1>4, <2>1 DEF RepliesInOrder
<1>5. QED BY <1>2, <1>3, <1>4

\* What AnswersFit says holds of any number of cockpits, commands and peers,
\* whatever the peers send and however often: a command's exit code agrees with
\* what became of its request, as far as the handler looks (Unchecked, Late),
\* and a peer's replies come in the order of its requests (serve_connection,
\* run_bus_write, run_bus_request).
THEOREM AnswersCorrect == Spec => []AnswersFit
BY BusInvHolds, FitFollows, PTL

=============================================================================
