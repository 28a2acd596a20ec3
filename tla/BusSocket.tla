----------------------------- MODULE BusSocket -----------------------------
(***************************************************************************)
(* bus.sock and bus.sock.pid across the lives of several cockpits:          *)
(* Server::bind with reclaim_stale, Server::shutdown and the Drop that       *)
(* follows it, one system call at a time (lmux-bus server.rs).               *)
(***************************************************************************)
EXTENDS Naturals, FiniteSets

CONSTANT Cockpits       \* processes; each starts once, with a pid of its own

None == "none"
ASSUME CockpitsAssumption == None \notin Cockpits /\ "empty" \notin Cockpits

VARIABLES
    phase,      \* phase[c]: how far cockpit c is
    sock,       \* whose listener the path bus.sock leads to, or None
    pid_file,   \* the pid in bus.sock.pid, "empty", or None
    openers,    \* who has that very file open for writing
    reused,     \* dead cockpits whose pid another program has been given
    overlapped  \* two cockpits were coming or going at once

files == <<sock, pid_file, openers>>
socket == <<phase, files, reused, overlapped>>

Starting == {"checking", "reading pid", "removing socket", "removing pid",
             "binding", "chmod", "opening pid", "writing pid"}
Listening == {"chmod", "opening pid", "writing pid", "serving"}
Stopping == {"closing socket", "closing pid", "dropping socket", "dropping pid"}
Running == Starting \cup Stopping \cup {"serving", "no bus"}

\* only the cockpits of cs are ever started
InitSocket(cs) ==
    /\ phase = [c \in Cockpits |-> IF c \in cs THEN "unborn" ELSE "gone"]
    /\ sock = None
    /\ pid_file = None
    /\ openers = {}
    /\ reused = {}
    /\ overlapped = FALSE

Moves(c, to) ==
    /\ phase' = [phase EXCEPT ![c] = to]
    /\ overlapped' = (overlapped \/ (to \in Starting \cup Stopping
                        /\ \E d \in Cockpits \ {c} : phase[d] \in Starting \cup Stopping))

At(c, from, to) == phase[c] = from /\ Moves(c, to)

\* crate::bus::start
Start(c) == At(c, "unborn", "checking") /\ UNCHANGED <<files, reused>>

\* Mutation of Alive: a cockpit that runs is not counted
AliveElsewhere(p) == p \in reused

\* pid_is_alive: kill(pid, 0) finds some process of this user
Alive(p) == p \in Cockpits /\ (phase[p] \in Running \/ p \in reused)

\* reclaim_stale: the socket exists, then whose pid is beside it
Check(c) ==
    /\ \/ sock = None /\ At(c, "checking", "binding")
       \/ sock # None /\ At(c, "checking", "reading pid")
    /\ UNCHANGED <<files, reused>>

ReadPid(c) ==
    /\ \/ Alive(pid_file) /\ At(c, "reading pid", "no bus")
       \/ ~Alive(pid_file) /\ At(c, "reading pid", "removing socket")
    /\ UNCHANGED <<files, reused>>

RemovesSocket == sock' = None /\ UNCHANGED <<pid_file, openers>>
RemovesPid == pid_file' = None /\ openers' = {} /\ UNCHANGED sock

RemoveFiles(c) ==
    /\ \/ At(c, "removing socket", "removing pid") /\ RemovesSocket
       \/ At(c, "removing pid", "binding") /\ RemovesPid
    /\ UNCHANGED reused

\* UnixListener::bind fails when the path exists
Bind(c) ==
    /\ \/ sock # None /\ At(c, "binding", "no bus") /\ UNCHANGED sock
       \/ sock = None /\ At(c, "binding", "chmod") /\ sock' = c
    /\ UNCHANGED <<pid_file, openers, reused>>

\* set_mode_0600 fails when the path is gone; the listener goes with it
Chmod(c) ==
    /\ \/ sock = None /\ At(c, "chmod", "no bus")
       \/ sock # None /\ At(c, "chmod", "opening pid")
    /\ UNCHANGED <<files, reused>>

\* write_pid_file: opened and cut to nothing, then written
WritePid(c) ==
    /\ \/ /\ At(c, "opening pid", "writing pid")
          /\ pid_file' = "empty"
          /\ openers' = openers \cup {c}
       \/ /\ At(c, "writing pid", "serving")
          /\ pid_file' = IF c \in openers THEN c ELSE pid_file
          /\ openers' = openers \ {c}
    /\ UNCHANGED <<sock, reused>>

\* Server::shutdown, then the drop of the Server: each removes both files
CloseFiles(c) ==
    /\ \/ At(c, "closing socket", "closing pid") /\ RemovesSocket
       \/ At(c, "closing pid", "dropping socket") /\ RemovesPid
       \/ At(c, "dropping socket", "dropping pid") /\ RemovesSocket
       \/ At(c, "dropping pid", "gone") /\ RemovesPid
    /\ UNCHANGED reused

\* BusServerHandle is dropped: GTK waits for the bus thread from here on
Quit(c) == At(c, "serving", "closing socket") /\ UNCHANGED <<files, reused>>

\* the process ends wherever it is; the files stay
Crash(c) ==
    /\ phase[c] \in Running
    /\ Moves(c, "gone")
    /\ openers' = openers \ {c}
    /\ UNCHANGED <<sock, pid_file, reused>>

ReusePid(c) ==
    /\ phase[c] = "gone"
    /\ pid_file = c
    /\ reused' = reused \cup {c}
    /\ UNCHANGED <<phase, files, overlapped>>

\* what a cockpit goes on to do by itself
CockpitStep(c) ==
    Check(c) \/ ReadPid(c) \/ RemoveFiles(c) \/ Bind(c) \/ Chmod(c)
      \/ WritePid(c) \/ CloseFiles(c)

-----------------------------------------------------------------------------
\* Whatever has crashed before, and in whatever state it left the files: a
\* cockpit that listens is the one bus.sock leads to and the one the pid file
\* names, as long as no two cockpits were ever starting or stopping at the
\* same time (reclaim_stale, server.rs).
OwnSocket ==
    overlapped \/ \A c \in Cockpits :
        phase[c] = "serving" => sock = c /\ pid_file = c
=============================================================================
