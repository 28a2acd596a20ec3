---------------------------- MODULE SessionStore ----------------------------
(***************************************************************************)
(* The named sessions on disk: a file per session and an index of all of    *)
(* them, written one after the other by the cockpit (lmux-session, and the    *)
(* part of switch_session that loads and saves), with crashes, failed writes  *)
(* and damaged files in between.  Readers in other threads and processes      *)
(* list the index and may move a damaged one aside.                          *)
(*                                                                         *)
(* Every file is replaced by a rename (write_bytes), so it is old or new,     *)
(* never half-written; the temporary files are not read by anybody and left   *)
(* out, and renaming a damaged file aside succeeds.  What a session holds is  *)
(* its id, given when it was created.                                        *)
(***************************************************************************)
EXTENDS Naturals

CONSTANTS
    Name,           \* valid session names, without "index"
    Time,           \* clock readings, in seconds; the clock may be set
    NoName,         \* no session
    Faults,         \* are there crashes, failures and damage
    MaxId           \* bound on the sessions created in a run

ASSUME StoreAssumption ==
    Time \subseteq Nat /\ MaxId \in Nat /\ NoName \notin Name /\ Faults \in BOOLEAN

Id == 1..MaxId
None == 0

VARIABLES
    sessions,       \* session files: name -> what it holds and last_opened_at
    broken,         \* names whose file is malformed
    index,          \* index.toml: name -> the times it is listed with
    index_broken,   \* index.toml is malformed
    \* the cockpit
    pc, job,        \* the operation in progress and its next step
    listing,        \* the index it is about to write
    current,        \* current_session
    live,           \* the session on screen
    next_id,
    \* a reader of the index
    reader,
    \* history
    astray          \* names that damage, or an operation cut short, has touched

disk == <<sessions, broken, index, index_broken>>
cockpit == <<pc, job, listing, current, live, next_id>>
vars == <<disk, cockpit, reader, astray>>

NoEntries == [n \in Name |-> {}]
NoJob == [op |-> "none", name |-> NoName, to |-> NoName, id |-> None, at |-> 0, next |-> None]

-----------------------------------------------------------------------------
Init ==
    /\ sessions = [n \in {} |-> NoJob] /\ broken = {}
    /\ index = NoEntries /\ index_broken = FALSE
    /\ pc = "idle" /\ job = NoJob /\ listing = NoEntries
    /\ current = NoName /\ live = None /\ next_id = 1
    /\ reader = "idle"
    /\ astray = {}

Exists(n) == n \in DOMAIN sessions \cup broken

\* an operation of the cockpit begins with a step of its kind
Begin(step, op, n, m, id, t, next) ==
    /\ pc = "idle"
    /\ pc' = step
    /\ job' = [op |-> op, name |-> n, to |-> m, id |-> id, at |-> t, next |-> next]
    /\ UNCHANGED <<index, index_broken, listing, reader, astray>>

FreshId == next_id \in Id /\ next_id' = next_id + 1

Create(n, t) ==
    /\ ~Exists(n)
    /\ FreshId
    /\ Begin("write", "create", n, NoName, next_id, t, None)
    /\ UNCHANGED <<sessions, broken, current, live>>

\* load: a malformed file is renamed aside and an empty session takes its place
Load(n, t, id, at) ==
    \/ /\ n \in DOMAIN sessions
       /\ id = sessions[n].id /\ at = sessions[n].at
       /\ UNCHANGED <<broken, next_id>>
    \/ /\ n \in broken
       /\ id = next_id /\ at = t
       /\ broken' = broken \ {n}
       /\ FreshId

\* Mutation of Rename: a session of the new name is not looked for
RenameOver(from, to, t) ==
    /\ from # to
    /\ \E id \in Id, at \in Time :
          /\ Load(from, t, id, at)
          /\ Begin("write", "rename", from, to, id, at, None)
    /\ UNCHANGED <<sessions, current, live>>

Rename(from, to, t) ==
    /\ ~Exists(to)
    /\ \E id \in Id, at \in Time :
          /\ Load(from, t, id, at)
          /\ Begin("write", "rename", from, to, id, at, None)
    /\ UNCHANGED <<sessions, current, live>>

Delete(n) ==
    /\ Begin(IF Exists(n) THEN "remove" ELSE "read", "delete", n, NoName, None, 0, None)
    /\ UNCHANGED <<sessions, broken, current, live, next_id>>

\* switch_session: the target is loaded, then the session on screen is saved
\* under the name it was opened with
Switch(target, t) ==
    /\ target # current
    /\ \E id \in Id, at \in Time :
          /\ Load(target, t, id, at)
          /\ \/ /\ current # NoName
                /\ Begin("write", "save", current, target, live, t, id)
                /\ UNCHANGED <<current, live>>
             \/ /\ current = NoName /\ pc = "idle"
                /\ current' = target /\ live' = id
                /\ UNCHANGED <<pc, job, index, index_broken, listing, reader, astray>>
    /\ UNCHANGED sessions

-----------------------------------------------------------------------------
(* The steps of an operation *)

Destination == IF job.op = "rename" THEN job.to ELSE job.name
Content == [id |-> job.id, at |-> job.at]

\* write_session
Write ==
    /\ pc = "write"
    /\ sessions' = [n \in DOMAIN sessions \cup {Destination} |->
                       IF n = Destination THEN Content ELSE sessions[n]]
    /\ broken' = broken \ {Destination}
    /\ pc' = IF job.op = "rename" THEN "remove" ELSE "read"
    /\ UNCHANGED <<index, index_broken, job, listing, current, live, next_id, reader, astray>>

\* remove_file; when load has moved a malformed file aside it is not there
\* any more, and the operation can only fail
Remove ==
    /\ pc = "remove"
    /\ Exists(job.name)
    /\ sessions' = [n \in DOMAIN sessions \ {job.name} |-> sessions[n]]
    /\ broken' = broken \ {job.name}
    /\ pc' = "read"
    /\ UNCHANGED <<index, index_broken, job, listing, current, live, next_id, reader, astray>>

\* the entries that are found first: the list is sorted by recency
Latest(S) == {u \in S : \A v \in S : v <= u}

\* SessionIndex::touch, ::rename, ::remove
Touch(x, n, t) == [x EXCEPT ![n] = (@ \ Latest(@)) \cup {t}]
Move(x, a, b) == [x EXCEPT ![a] = @ \ Latest(@), ![b] = @ \cup Latest(x[a])]
Unlist(x, n) == [x EXCEPT ![n] = {}]

\* Mutation of Updated: the renamed session keeps its old entry
UpdatedUnrenamed(x) ==
    CASE job.op = "rename" -> Touch(x, job.to, job.at)
      [] job.op = "delete" -> Unlist(x, job.name)
      [] OTHER             -> Touch(x, job.name, job.at)

Updated(x) ==
    CASE job.op = "rename" -> Move(x, job.name, job.to)
      [] job.op = "delete" -> Unlist(x, job.name)
      [] OTHER             -> Touch(x, job.name, job.at)

\* rebuild_index_from_sessions
Rebuilt == [n \in Name |-> IF n \in DOMAIN sessions THEN {sessions[n].at} ELSE {}]

\* read_index: a malformed index is renamed aside, and until the rebuilt one is
\* written there is none
Read ==
    /\ pc = "read"
    /\ \/ /\ ~index_broken
          /\ listing' = Updated(index)
          /\ pc' = "commit"
          /\ UNCHANGED <<index, index_broken>>
       \/ /\ index_broken
          /\ listing' = Updated(Rebuilt)
          /\ index' = NoEntries /\ index_broken' = FALSE
          /\ pc' = "rewrite"
    /\ UNCHANGED <<sessions, broken, job, current, live, next_id, reader, astray>>

\* the files an operation works on
JobNames == {job.name} \cup (IF job.op = "rename" THEN {job.to} ELSE {})

\* what is in disorder after the operation: a rebuilt index misses malformed
\* files only, a deleted name is in order again, a renamed one takes its
\* disorder along
StillAstray ==
    CASE pc = "rewrite" -> broken
      [] pc = "commit" /\ job.op = "delete" -> astray \ {job.name}
      [] pc = "commit" /\ job.op = "rename" /\ job.name \in astray -> astray \cup {job.to}
      [] OTHER -> astray

\* write_index, and the end of the operation; write_bytes may fail after its
\* rename, and a switch after its save
Commit ==
    /\ pc \in {"commit", "rewrite"}
    /\ index' = listing /\ index_broken' = FALSE
    /\ pc' = "idle" /\ job' = NoJob /\ listing' = NoEntries
    /\ \/ job.op = "save" /\ current' = job.to /\ live' = job.next
       \/ (job.op # "save" \/ Faults) /\ UNCHANGED <<current, live>>
    /\ astray' = StillAstray
    /\ UNCHANGED <<sessions, broken, next_id, reader>>

\* the names of an operation that is cut short when it has changed files
HalfDone ==
    CASE pc = "rewrite" -> {n \in Name : Exists(n)}
      [] pc \in {"read", "commit"} \/ (pc = "remove" /\ job.op = "rename") -> JobNames
      [] OTHER -> {}

Abandoned ==
    /\ pc # "idle"
    /\ pc' = "idle" /\ job' = NoJob /\ listing' = NoEntries
    /\ astray' = astray \cup HalfDone

\* a step fails (no space, permissions): the operation returns its error
Fail ==
    /\ Faults
    /\ Abandoned
    /\ UNCHANGED <<disk, current, live, next_id, reader>>

\* the cockpit dies and is started again
Crash ==
    /\ Faults
    /\ \/ Abandoned
       \/ pc = "idle" /\ UNCHANGED <<pc, job, listing, astray>>
    /\ current' = NoName /\ live' = None
    /\ UNCHANGED <<disk, next_id, reader>>

-----------------------------------------------------------------------------
(* Readers: session.list, status.get, the switcher, lmux-cli without a cockpit *)

ListReads ==
    /\ reader = "idle" /\ index_broken
    /\ reader' = "malformed"
    /\ UNCHANGED <<disk, cockpit, astray>>

\* what it renames aside is whatever index there is now; the list it has
\* rebuilt is returned and not written
ListMovesAside ==
    /\ reader = "malformed"
    /\ reader' = "idle"
    /\ index' = NoEntries /\ index_broken' = FALSE
    /\ astray' = astray \cup {n \in Name : Exists(n)}
    /\ UNCHANGED <<sessions, broken, cockpit>>

\* damage from outside, to a file no operation is working on
Damage(n) ==
    /\ Faults
    /\ n \in DOMAIN sessions \ JobNames
    /\ sessions' = [m \in DOMAIN sessions \ {n} |-> sessions[m]]
    /\ broken' = broken \cup {n}
    /\ astray' = astray \cup {n}
    /\ UNCHANGED <<index, index_broken, cockpit, reader>>

DamageIndex ==
    /\ Faults
    /\ ~index_broken
    /\ index_broken' = TRUE /\ index' = NoEntries
    /\ UNCHANGED <<sessions, broken, cockpit, reader, astray>>

-----------------------------------------------------------------------------
Next ==
    \/ \E n \in Name :
          \/ \E t \in Time : Create(n, t) \/ Switch(n, t)
          \/ \E m \in Name, t \in Time : Rename(n, m, t)
          \/ Delete(n)
          \/ Damage(n)
    \/ Write \/ Remove \/ Read \/ Commit
    \/ Fail \/ Crash
    \/ ListReads \/ ListMovesAside
    \/ DamageIndex

Spec == Init /\ [][Next]_vars

-----------------------------------------------------------------------------
File == [id : Id, at : Time]
Step == {"idle", "write", "remove", "read", "commit", "rewrite"}

FilesType ==
    /\ DOMAIN sessions \subseteq Name
    /\ \A n \in DOMAIN sessions : sessions[n] \in File
    /\ broken \subseteq Name \ DOMAIN sessions
    /\ astray \subseteq Name
IndexType ==
    /\ index \in [Name -> SUBSET Time] /\ index_broken \in BOOLEAN
    /\ listing \in [Name -> SUBSET Time]
    /\ reader \in {"idle", "malformed"}
JobType ==
    /\ pc \in Step
    /\ job.op \in {"none", "create", "rename", "delete", "save"}
    /\ pc = "idle" <=> job.op = "none"
    /\ job.op # "none" => job.name \in Name
    /\ job.op \in {"rename", "save"} => job.to \in Name
    /\ job.op \in {"create", "rename", "save"} => job.id \in Id /\ job.at \in Time
    /\ job.op = "save" => job.next \in Id
ScreenType ==
    /\ \/ current = NoName /\ live = None
       \/ current \in Name /\ live \in Id
    /\ next_id \in Nat \ {0}

(* Types; a file is malformed or not, never both.                            *)
TypeOK == FilesType /\ IndexType /\ JobType /\ ScreenType

Kept == {sessions[n].id : n \in DOMAIN sessions}

(* However create, rename, delete and switch are cut short, no session is lost *)
(* from the disk but by being deleted, by damage from outside, or by the save   *)
(* of the open session to its file.                                           *)
NothingLost ==
    [][\A n \in DOMAIN sessions : sessions[n].id \notin Kept' =>
          \/ Damage(n)
          \/ Remove /\ job.op = "delete" /\ job.name = n
          \/ Write /\ job.op = "save" /\ job.name = n]_vars

(* When no operation is in progress the index lists exactly the sessions there  *)
(* are, each once and with the time in its file, but for the names that damage  *)
(* or an operation that was cut short has touched: a crash concerns the names   *)
(* of one operation, and deleting such a name puts it in order again.          *)
IndexAgrees ==
    pc = "idle" /\ ~index_broken =>
        \A n \in Name \ astray : index[n] = Rebuilt[n]
=============================================================================
