------------------------- MODULE SessionStoreProofs -------------------------
(***************************************************************************)
(* Whatever is cut short or damaged, no session is lost and the index agrees  *)
(* with the files, for any names, clock readings and number of sessions.     *)
(***************************************************************************)
EXTENDS SessionStore, TLAPS

Finishing == {"read", "commit", "rewrite"}

\* the files of the operation in progress
JobOK ==
    /\ broken \subseteq astray
    /\ job.op = "rename" => job.name # job.to
    /\ pc = "write" => job.op \in {"create", "rename", "save"}
    /\ pc = "write" /\ job.op # "save" => ~Exists(Destination)
    /\ pc = "remove" => job.op \in {"rename", "delete"}
    /\ pc \in {"write", "remove"} /\ job.op = "rename" =>
          /\ job.name \notin broken
          /\ job.name \in DOMAIN sessions => sessions[job.name] = Content
          /\ job.name \in DOMAIN sessions \cup astray
    /\ (pc = "remove" /\ job.op = "rename") \/ (pc \in Finishing /\ job.op # "delete") =>
          Destination \in DOMAIN sessions /\ sessions[Destination] = Content
    /\ pc \in Finishing /\ job.op \in {"rename", "delete"} => ~Exists(job.name)

\* the index on disk, and the one about to be written
IndexOK ==
    /\ pc = "rewrite" => index = NoEntries
    /\ ~index_broken => \A n \in Name \ (astray \cup HalfDone) : index[n] = Rebuilt[n]
    /\ ~index_broken /\ pc \in {"remove", "read"} /\ job.op = "rename" =>
          /\ job.name \notin astray => index[job.name] \subseteq {job.at}
          /\ job.name \notin astray /\ job.to \notin astray => index[job.name] = {job.at}
          /\ job.to \notin astray => index[job.to] = {}
    /\ ~index_broken /\ pc = "read" /\ job.op \in {"create", "save"} /\ job.name \notin astray =>
          \E u \in Time : index[job.name] \subseteq {u}
    /\ pc \in {"commit", "rewrite"} => \A n \in Name \ StillAstray : listing[n] = Rebuilt[n]

Inv == TypeOK /\ JobOK /\ IndexOK

-----------------------------------------------------------------------------
LEMMA InvInit == Init => Inv
<1> SUFFICES ASSUME Init PROVE Inv
  OBVIOUS
<1>1. DOMAIN sessions = {} /\ broken = {}
  BY DEF Init
<1>2. TypeOK
  <2>1. FilesType
    BY <1>1 DEF Init, FilesType
  <2>2. IndexType
    BY DEF Init, IndexType, NoEntries
  <2>3. JobType
    BY DEF Init, JobType, NoJob, Step
  <2>4. ScreenType
    BY DEF Init, ScreenType
  <2> QED
    BY <2>1, <2>2, <2>3, <2>4 DEF TypeOK
<1>3. JobOK
  BY <1>1 DEF Init, JobOK, NoJob, Finishing
<1>4. IndexOK
  BY <1>1 DEF Init, IndexOK, NoJob, NoEntries, HalfDone, Rebuilt
<1> QED
  BY <1>2, <1>3, <1>4 DEF Inv

\* what the list operations do to a name that is listed at most once
LEMMA LatestOfOne ==
    ASSUME NEW S, NEW u \in Time, S \subseteq {u}
    PROVE  Latest(S) = S
<1>1. CASE S = {}
  BY <1>1 DEF Latest
<1>2. CASE S = {u}
  <2>1. u \in Nat
    BY StoreAssumption
  <2>2. u <= u
    BY <2>1
  <2> QED
    BY <1>2, <2>2 DEF Latest
<1> QED
  BY <1>1, <1>2

-----------------------------------------------------------------------------
(* Types *)

LEMMA CreateType ==
    ASSUME TypeOK, NEW n \in Name, NEW t \in Time, Create(n, t)
    PROVE  TypeOK'
<1>1. FilesType'
  BY DEF TypeOK, FilesType, Create, Begin
<1>2. IndexType'
  BY DEF TypeOK, IndexType, Create, Begin
<1>3. JobType'
  BY DEF TypeOK, JobType, Create, Begin, FreshId, Step
<1>4. ScreenType'
  BY DEF TypeOK, ScreenType, Create, FreshId, Id
<1> QED
  BY <1>1, <1>2, <1>3, <1>4 DEF TypeOK

\* what load gives, and that it disturbs no type
LEMMA LoadType ==
    ASSUME TypeOK, NEW n, NEW t, NEW id, NEW at, Load(n, t, id, at)
    PROVE  /\ broken' \subseteq broken
           /\ next_id' \in Nat \ {0}
           /\ n \notin broken'
           /\ n \in DOMAIN sessions \/ n \in broken
           /\ n \in DOMAIN sessions => sessions[n] = [id |-> id, at |-> at]
<1>1. CASE n \in DOMAIN sessions
  <2>1. sessions[n] \in File /\ n \notin broken
    BY <1>1 DEF TypeOK, FilesType
  <2>2. id = sessions[n].id /\ at = sessions[n].at /\ UNCHANGED <<broken, next_id>>
    BY <2>1, <1>1 DEF Load
  <2> QED
    BY <1>1, <2>1, <2>2 DEF File, TypeOK, ScreenType
<1>2. CASE n \notin DOMAIN sessions
  BY <1>2 DEF Load, FreshId, Id, TypeOK, ScreenType
<1> QED
  BY <1>1, <1>2

LEMMA RenameType ==
    ASSUME TypeOK, NEW n \in Name, NEW m \in Name, NEW t \in Time, Rename(n, m, t)
    PROVE  TypeOK'
<1>1. PICK id \in Id, at \in Time :
         Load(n, t, id, at) /\ Begin("write", "rename", n, m, id, at, None)
  BY DEF Rename
<1>2. broken' \subseteq broken /\ next_id' \in Nat \ {0}
  BY <1>1, LoadType
<1>3. FilesType'
  BY <1>1, <1>2 DEF TypeOK, FilesType, Rename, Begin
<1>4. IndexType'
  BY <1>1 DEF TypeOK, IndexType, Begin
<1>5. JobType'
  BY <1>1 DEF TypeOK, JobType, Begin, Step
<1>6. ScreenType'
  BY <1>2 DEF TypeOK, ScreenType, Rename
<1> QED
  BY <1>3, <1>4, <1>5, <1>6 DEF TypeOK

LEMMA SwitchType ==
    ASSUME TypeOK, NEW n \in Name, NEW t \in Time, Switch(n, t)
    PROVE  TypeOK'
<1>1. PICK id \in Id, at \in Time :
         /\ Load(n, t, id, at)
         /\ \/ /\ current # NoName
               /\ Begin("write", "save", current, n, live, t, id)
               /\ UNCHANGED <<current, live>>
            \/ /\ current = NoName /\ pc = "idle"
               /\ current' = n /\ live' = id
               /\ UNCHANGED <<pc, job, index, index_broken, listing, reader, astray>>
  BY DEF Switch
<1>2. broken' \subseteq broken /\ next_id' \in Nat \ {0}
  BY <1>1, LoadType
<1>3. FilesType'
  BY <1>1, <1>2 DEF TypeOK, FilesType, Switch, Begin
<1>4. IndexType'
  BY <1>1 DEF TypeOK, IndexType, Begin
<1>5. JobType'
  BY <1>1 DEF TypeOK, JobType, ScreenType, Begin, Step
<1>6. ScreenType'
  BY <1>1, <1>2 DEF TypeOK, ScreenType
<1> QED
  BY <1>3, <1>4, <1>5, <1>6 DEF TypeOK

\* Touch, Move, Unlist keep an index an index
LEMMA ListType ==
    ASSUME TypeOK, pc = "read", NEW x \in [Name -> SUBSET Time]
    PROVE  Updated(x) \in [Name -> SUBSET Time]
<1>1. \A S \in SUBSET Time : S \ Latest(S) \in SUBSET Time /\ Latest(S) \in SUBSET Time
  BY DEF Latest
<1>2. ASSUME NEW n \in Name, NEW t \in Time
      PROVE  Touch(x, n, t) \in [Name -> SUBSET Time]
  BY <1>1 DEF Touch
<1>3. ASSUME NEW n \in Name, NEW m \in Name
      PROVE  Move(x, n, m) \in [Name -> SUBSET Time]
  <2>1. x[n] \ Latest(x[n]) \in SUBSET Time /\ x[m] \cup Latest(x[n]) \in SUBSET Time
    BY <1>1
  <2> QED
    BY <2>1 DEF Move
<1>4. ASSUME NEW n \in Name
      PROVE  Unlist(x, n) \in [Name -> SUBSET Time]
  BY DEF Unlist
<1>5. job.op \in {"create", "rename", "delete", "save"} /\ job.name \in Name
  BY DEF TypeOK, JobType
<1>6. CASE job.op = "rename"
  BY <1>3, <1>5, <1>6 DEF Updated, TypeOK, JobType
<1>7. CASE job.op = "delete"
  BY <1>4, <1>5, <1>7 DEF Updated
<1>8. CASE job.op \in {"create", "save"}
  BY <1>2, <1>5, <1>8 DEF Updated, TypeOK, JobType
<1> QED
  BY <1>5, <1>6, <1>7, <1>8

LEMMA TypeStep ==
    ASSUME TypeOK, JobOK, [Next]_vars
    PROVE  TypeOK'
<1> USE DEF TypeOK
<1>1. ASSUME NEW n \in Name, NEW t \in Time, Create(n, t)
      PROVE  TypeOK'
  BY <1>1, CreateType
<1>2. ASSUME NEW n \in Name, NEW t \in Time, Switch(n, t)
      PROVE  TypeOK'
  BY <1>2, SwitchType
<1>3. ASSUME NEW n \in Name, NEW m \in Name, NEW t \in Time, Rename(n, m, t)
      PROVE  TypeOK'
  BY <1>3, RenameType
<1>4. ASSUME NEW n \in Name, Delete(n)
      PROVE  TypeOK'
  <2>1. FilesType'
    BY <1>4 DEF FilesType, Delete, Begin
  <2>2. IndexType'
    BY <1>4 DEF IndexType, Delete, Begin
  <2>3. JobType'
    <3>1. job' = [op |-> "delete", name |-> n, to |-> NoName, id |-> None, at |-> 0, next |-> None]
          /\ pc' \in {"remove", "read"}
      BY <1>4 DEF Delete, Begin
    <3> QED
      BY <3>1 DEF JobType, Step
  <2>4. ScreenType'
    BY <1>4 DEF ScreenType, Delete
  <2> QED
    BY <2>1, <2>2, <2>3, <2>4
<1>5. ASSUME NEW n \in Name, Damage(n)
      PROVE  TypeOK'
  <2>1. FilesType'
    BY <1>5 DEF FilesType, Damage
  <2> QED
    BY <1>5, <2>1 DEF IndexType, JobType, ScreenType, Damage, cockpit
<1>6. CASE Write
  <2>1. Destination \in Name /\ Content \in File
    BY <1>6 DEF Write, JobOK, JobType, Destination, Content, File
  <2>2. FilesType'
    BY <1>6, <2>1 DEF FilesType, Write
  <2>3. JobType'
    BY <1>6 DEF JobType, Write, Step
  <2> QED
    BY <1>6, <2>2, <2>3 DEF IndexType, ScreenType, Write
<1>7. CASE Remove
  <2>1. FilesType'
    BY <1>7 DEF FilesType, Remove
  <2>2. JobType'
    BY <1>7 DEF JobType, Remove, Step
  <2> QED
    BY <1>7, <2>1, <2>2 DEF IndexType, ScreenType, Remove
<1>8. CASE Read
  <2>1. Rebuilt \in [Name -> SUBSET Time] /\ NoEntries \in [Name -> SUBSET Time]
    BY DEF Rebuilt, NoEntries, FilesType, File
  <2>2. listing' \in [Name -> SUBSET Time] /\ index' \in [Name -> SUBSET Time]
    BY <1>8, <2>1, ListType DEF Read, IndexType
  <2>3. IndexType'
    BY <1>8, <2>2 DEF IndexType, Read
  <2>4. JobType'
    BY <1>8 DEF JobType, Read, Step
  <2> QED
    BY <1>8, <2>3, <2>4 DEF FilesType, ScreenType, Read
<1>9. CASE Commit
  <2>1. StillAstray \subseteq Name
    BY <1>9 DEF StillAstray, Commit, FilesType, JobType
  <2>2. FilesType'
    BY <1>9, <2>1 DEF FilesType, Commit
  <2>3. IndexType'
    BY <1>9 DEF IndexType, Commit, NoEntries
  <2>4. JobType'
    BY <1>9 DEF JobType, Commit, NoJob, Step
  <2>5. ScreenType'
    BY <1>9 DEF JobType, ScreenType, Commit
  <2> QED
    BY <2>2, <2>3, <2>4, <2>5
<1>10. ASSUME Abandoned PROVE astray' \subseteq Name /\ JobType' /\ listing' \in [Name -> SUBSET Time]
  BY <1>10 DEF Abandoned, HalfDone, JobNames, FilesType, JobType, NoJob, NoEntries, Step
<1>11. CASE Fail
  BY <1>10, <1>11 DEF Fail, disk, FilesType, IndexType, ScreenType
<1>12. CASE Crash
  BY <1>10, <1>12 DEF Crash, disk, FilesType, IndexType, JobType, ScreenType
<1>13. CASE ListReads
  BY <1>13 DEF ListReads, disk, cockpit, FilesType, IndexType, JobType, ScreenType
<1>14. CASE ListMovesAside
  BY <1>14 DEF ListMovesAside, NoEntries, cockpit, FilesType, IndexType, JobType, ScreenType
<1>15. CASE DamageIndex
  BY <1>15 DEF DamageIndex, NoEntries, cockpit, FilesType, IndexType, JobType, ScreenType
<1>16. CASE UNCHANGED vars
  BY <1>16 DEF vars, disk, cockpit, FilesType, IndexType, JobType, ScreenType
<1> QED
  BY <1>1, <1>2, <1>3, <1>4, <1>5, <1>6, <1>7, <1>8, <1>9, <1>11, <1>12, <1>13, <1>14, <1>15, <1>16
     DEF Next

-----------------------------------------------------------------------------
(* The files of the operation in progress *)

LEMMA BeginJob ==
    ASSUME TypeOK, JobOK, UNCHANGED sessions, NEW n \in Name, NEW t \in Time,
           \/ Create(n, t)
           \/ \E m \in Name : Rename(n, m, t)
           \/ Switch(n, t)
           \/ Delete(n)
    PROVE  JobOK'
<1> USE DEF JobOK, Exists, Destination, Content, Finishing
<1>1. CASE Create(n, t)
  BY <1>1 DEF Create, Begin
<1>2. CASE \E m \in Name : Rename(n, m, t)
  <2>1. PICK m \in Name, id \in Id, at \in Time :
           /\ ~Exists(m)
           /\ Load(n, t, id, at)
           /\ Begin("write", "rename", n, m, id, at, None)
    BY <1>2 DEF Rename
  <2>2. /\ broken' \subseteq broken /\ n \notin broken'
        /\ n \in DOMAIN sessions \/ n \in broken
        /\ n \in DOMAIN sessions => sessions[n] = [id |-> id, at |-> at]
    BY <2>1, LoadType
  <2>3. /\ pc' = "write" /\ astray' = astray
        /\ job'.op = "rename" /\ job'.name = n /\ job'.to = m /\ job'.id = id /\ job'.at = at
    BY <2>1 DEF Begin
  <2>4. n # m
    BY <2>1, <2>2
  <2> QED
    BY <2>1, <2>2, <2>3, <2>4
<1>3. CASE Switch(n, t)
  <2>1. PICK id \in Id, at \in Time :
           /\ Load(n, t, id, at)
           /\ \/ Begin("write", "save", current, n, live, t, id)
              \/ pc = "idle" /\ UNCHANGED <<pc, job, astray>>
    BY <1>3 DEF Switch
  <2>2. broken' \subseteq broken
    BY <2>1, LoadType
  <2>3. CASE Begin("write", "save", current, n, live, t, id)
    BY <2>2, <2>3 DEF Begin
  <2>4. CASE pc = "idle" /\ UNCHANGED <<pc, job, astray>>
    BY <2>2, <2>4 DEF TypeOK, JobType
  <2> QED
    BY <2>1, <2>3, <2>4
<1>4. CASE Delete(n)
  BY <1>4 DEF Delete, Begin
<1> QED
  BY <1>1, <1>2, <1>3, <1>4

LEMMA WriteJob ==
    ASSUME TypeOK, JobOK, Write
    PROVE  JobOK'
<1>1. /\ pc = "write" /\ UNCHANGED <<job, astray>>
      /\ DOMAIN sessions' = DOMAIN sessions \cup {Destination}
      /\ sessions'[Destination] = Content
      /\ \A n \in DOMAIN sessions : n # Destination => sessions'[n] = sessions[n]
      /\ broken' = broken \ {Destination}
      /\ pc' = IF job.op = "rename" THEN "remove" ELSE "read"
  BY DEF Write
<1>2. Destination' = Destination /\ Content' = Content
  BY <1>1 DEF Destination, Content
<1>3. job.op = "rename" => job.name # Destination
  BY DEF JobOK, Destination
<1> QED
  BY <1>1, <1>2, <1>3 DEF JobOK, Exists, Finishing

LEMMA JobStep ==
    ASSUME TypeOK, JobOK, [Next]_vars
    PROVE  JobOK'
<1> USE DEF JobOK, Exists, Destination, Content, Finishing
<1>1. ASSUME NEW n \in Name, NEW t \in Time,
             Create(n, t) \/ Switch(n, t) \/ \E m \in Name : Rename(n, m, t)
      PROVE  JobOK'
  BY <1>1, BeginJob DEF Create, Switch, Rename
<1>2. ASSUME NEW n \in Name, Delete(n)
      PROVE  JobOK'
  BY <1>2 DEF Delete, Begin
<1>3. ASSUME NEW n \in Name, Damage(n)
      PROVE  JobOK'
  BY <1>3 DEF Damage, cockpit, JobNames, TypeOK, JobType
<1>4. CASE Write
  BY <1>4, WriteJob
<1>5. CASE Remove
  BY <1>5 DEF Remove
<1>6. CASE Read
  BY <1>6 DEF Read
<1>7. CASE Commit
  BY <1>7 DEF Commit, NoJob, StillAstray
<1>8. CASE Fail
  BY <1>8 DEF Fail, Abandoned, NoJob, disk
<1>9. CASE Crash
  BY <1>9 DEF Crash, Abandoned, NoJob, disk, TypeOK, JobType
<1>10. CASE ListReads
  BY <1>10 DEF ListReads, disk, cockpit
<1>11. CASE ListMovesAside
  BY <1>11 DEF ListMovesAside, cockpit
<1>12. CASE DamageIndex
  BY <1>12 DEF DamageIndex, cockpit
<1>13. CASE UNCHANGED vars
  BY <1>13 DEF vars, disk, cockpit
<1> QED
  BY <1>1, <1>2, <1>3, <1>4, <1>5, <1>6, <1>7, <1>8, <1>9, <1>10, <1>11, <1>12, <1>13
     DEF Next

-----------------------------------------------------------------------------
Loss == \A n \in DOMAIN sessions : sessions[n].id \notin Kept' =>
           \/ Damage(n)
           \/ Remove /\ job.op = "delete" /\ job.name = n
           \/ Write /\ job.op = "save" /\ job.name = n

LEMMA LossStep ==
    ASSUME TypeOK, JobOK, [Next]_vars
    PROVE  Loss
<1> SUFFICES ASSUME NEW n \in DOMAIN sessions, sessions[n].id \notin Kept'
             PROVE  \/ Damage(n)
                    \/ Remove /\ job.op = "delete" /\ job.name = n
                    \/ Write /\ job.op = "save" /\ job.name = n
  BY DEF Loss
<1>1. ~(n \in DOMAIN sessions' /\ sessions'[n].id = sessions[n].id)
  BY DEF Kept
<1>2. CASE Write
  <2>1. n = Destination
    BY <1>1, <1>2 DEF Write
  <2> QED
    BY <1>2, <2>1 DEF Write, JobOK, Exists, Destination
<1>3. CASE Remove
  <2>1. n = job.name
    BY <1>1, <1>3 DEF Remove
  <2>2. CASE job.op = "rename"
    <3>1. /\ job.name # job.to
          /\ sessions[n] = Content
          /\ job.to \in DOMAIN sessions /\ sessions[job.to] = Content
      BY <1>3, <2>1, <2>2 DEF Remove, JobOK, Destination
    <3>2. job.to \in DOMAIN sessions' /\ sessions'[job.to] = sessions[n]
      BY <1>3, <3>1 DEF Remove
    <3>3. sessions[n].id \in Kept'
      BY <3>2 DEF Kept
    <3> QED
      BY <3>3
  <2> QED
    BY <1>3, <2>1, <2>2 DEF Remove, JobOK
<1>4. ASSUME NEW m \in Name, Damage(m)
      PROVE  Damage(n)
  <2>1. n = m
    BY <1>1, <1>4 DEF Damage
  <2> QED
    BY <1>4, <2>1
<1>5. ASSUME UNCHANGED sessions
      PROVE  FALSE
  BY <1>1, <1>5
<1> QED
  BY <1>2, <1>3, <1>4, <1>5
     DEF Next, vars, disk, Create, Rename, Delete, Switch, Begin, Read, Commit, Fail, Crash,
         ListReads, ListMovesAside, DamageIndex

-----------------------------------------------------------------------------
(* The index *)

\* an operation that begins leaves the index and the disorder alone
LEMMA BeginIndex ==
    ASSUME Inv, NEW step, NEW op, NEW n, NEW m, NEW id, NEW t, NEW next,
           Begin(step, op, n, m, id, t, next), UNCHANGED sessions,
           broken' \subseteq broken, step \in {"write", "remove", "read"},
           step # "read" \/ op = "delete",
           op # "rename" \/ step = "write"
    PROVE  IndexOK'
<1>1. /\ job'.op = op /\ job'.name = n /\ pc' = step /\ pc = "idle"
      /\ UNCHANGED <<index, index_broken, listing, astray, sessions>>
  BY DEF Begin
<1>2. HalfDone = {} /\ Rebuilt' = Rebuilt
  BY <1>1 DEF HalfDone, Rebuilt
<1>3. ~index_broken => \A x \in Name \ astray : index[x] = Rebuilt[x]
  BY <1>2 DEF Inv, IndexOK
<1> QED
  BY <1>1, <1>2, <1>3 DEF IndexOK
LEMMA WriteIndex ==
    ASSUME Inv, Write
    PROVE  IndexOK'
<1> USE DEF Inv
<1>1. /\ pc = "write" /\ job.op \in {"create", "rename", "save"}
      /\ pc' = (IF job.op = "rename" THEN "remove" ELSE "read")
      /\ UNCHANGED <<index, index_broken, job, astray>>
  BY DEF Write, JobOK
<1>2. Destination \in JobNames /\ JobNames' = JobNames
  BY <1>1 DEF Destination, JobNames
<1>3. HalfDone = {} /\ HalfDone' = JobNames
  BY <1>1, <1>2 DEF HalfDone
<1>4. \A n \in Name \ {Destination} : Rebuilt'[n] = Rebuilt[n]
  BY DEF Write, Rebuilt
<1>5. ~index_broken => \A n \in Name \ astray : index[n] = Rebuilt[n]
  BY <1>3 DEF IndexOK
<1>6. ~index_broken' => \A n \in Name \ (astray' \cup HalfDone') : index'[n] = Rebuilt'[n]
  BY <1>1, <1>2, <1>3, <1>4, <1>5
<1>7. job.name \in Name /\ job.at \in Time /\ (job.op = "rename" => job.to \in Name)
  BY <1>1 DEF TypeOK, JobType
<1>8. ASSUME ~index_broken, job.op = "rename"
      PROVE  /\ job.name \notin astray => index[job.name] = {job.at}
             /\ job.to \notin astray => index[job.to] = {}
  <2>1. job.to \notin DOMAIN sessions
    BY <1>1, <1>8 DEF JobOK, Exists, Destination
  <2>2. job.name \notin astray => job.name \in DOMAIN sessions /\ sessions[job.name].at = job.at
    BY <1>1, <1>8 DEF JobOK, Content
  <2> QED
    BY <1>5, <1>7, <1>8, <2>1, <2>2 DEF Rebuilt
<1>9. ASSUME ~index_broken, job.name \notin astray
      PROVE  \E u \in Time : index[job.name] \subseteq {u}
  <2>1. index[job.name] = Rebuilt[job.name]
    BY <1>5, <1>7, <1>9
  <2>2. CASE job.name \in DOMAIN sessions
    <3>1. index[job.name] = {sessions[job.name].at} /\ sessions[job.name].at \in Time
      BY <1>7, <2>1, <2>2 DEF Rebuilt, TypeOK, FilesType, File
    <3> QED
      BY <3>1
  <2>3. CASE job.name \notin DOMAIN sessions
    BY <1>7, <2>1, <2>3 DEF Rebuilt
  <2> QED
    BY <2>2, <2>3
<1> QED
  BY <1>1, <1>6, <1>8, <1>9 DEF IndexOK

LEMMA RemoveIndex ==
    ASSUME Inv, Remove
    PROVE  IndexOK'
<1> USE DEF Inv
<1>1. /\ pc = "remove" /\ pc' = "read" /\ job.op \in {"rename", "delete"}
      /\ UNCHANGED <<index, index_broken, job, astray>>
  BY DEF Remove, JobOK
<1>2. job.name \in JobNames /\ HalfDone' = JobNames /\ HalfDone \subseteq JobNames
  BY <1>1 DEF HalfDone, JobNames
<1>3. \A n \in Name \ {job.name} : Rebuilt'[n] = Rebuilt[n]
  BY DEF Remove, Rebuilt
<1>4. ~index_broken' => \A n \in Name \ (astray' \cup HalfDone') : index'[n] = Rebuilt'[n]
  BY <1>1, <1>2, <1>3 DEF IndexOK
<1> QED
  BY <1>1, <1>4 DEF IndexOK

\* an index that is right but for the operation in progress is right after it
LEMMA UpdatedRight ==
    ASSUME Inv, pc = "read", NEW x \in [Name -> SUBSET Time], NEW A \in SUBSET Name,
           \A n \in Name \ (A \cup JobNames) : x[n] = Rebuilt[n],
           job.op = "rename" =>
               /\ job.name \notin A => x[job.name] \subseteq {job.at}
               /\ {job.name, job.to} \cap A = {} => x[job.name] \cup x[job.to] = {job.at},
           job.op \in {"create", "save"} /\ job.name \notin A =>
               \E u \in Time : x[job.name] \subseteq {u}
    PROVE  /\ job.op \in {"create", "save"} => \A n \in Name \ A : Updated(x)[n] = Rebuilt[n]
           /\ job.op = "delete" => \A n \in Name \ (A \ {job.name}) : Updated(x)[n] = Rebuilt[n]
           /\ job.op = "rename" /\ job.name \notin A =>
                  \A n \in Name \ A : Updated(x)[n] = Rebuilt[n]
           /\ job.op = "rename" /\ job.name \in A =>
                  \A n \in Name \ (A \cup {job.to}) : Updated(x)[n] = Rebuilt[n]
<1> USE DEF Inv
<1>1. job.name \in Name /\ job.op \in {"create", "rename", "delete", "save"}
  BY DEF TypeOK, JobType
<1>2. ASSUME job.op # "delete"
      PROVE  /\ Destination \in Name /\ job.at \in Time
             /\ Rebuilt[Destination] = {job.at}
  <2>1. Destination \in Name /\ job.at \in Time
    BY <1>1, <1>2 DEF TypeOK, JobType, Destination
  <2>2. Destination \in DOMAIN sessions /\ sessions[Destination].at = job.at
    BY <1>2 DEF JobOK, Finishing, Content
  <2> QED
    BY <2>1, <2>2 DEF Rebuilt
<1>3. ASSUME job.op \in {"rename", "delete"}
      PROVE  Rebuilt[job.name] = {}
  BY <1>1, <1>3 DEF JobOK, Finishing, Exists, Rebuilt
<1>4. CASE job.op \in {"create", "save"}
  <2>1. JobNames = {job.name} /\ Updated(x) = Touch(x, job.name, job.at) /\ Destination = job.name
    BY <1>4 DEF JobNames, Updated, Destination
  <2>2. Updated(x)[job.name] = (x[job.name] \ Latest(x[job.name])) \cup {job.at}
    BY <1>1, <2>1 DEF Touch
  <2>3. \A n \in Name \ {job.name} : Updated(x)[n] = x[n]
    BY <2>1 DEF Touch
  <2>4. ASSUME job.name \notin A
        PROVE  Updated(x)[job.name] = {job.at}
    <3>1. Latest(x[job.name]) = x[job.name]
      BY <1>4, <2>4, LatestOfOne
    <3> QED
      BY <2>2, <3>1
  <2> QED
    BY <1>2, <1>4, <2>1, <2>3, <2>4
<1>5. CASE job.op = "delete"
  <2>1. JobNames = {job.name} /\ Updated(x) = Unlist(x, job.name)
    BY <1>5 DEF JobNames, Updated
  <2> QED
    BY <1>1, <1>3, <1>5, <2>1 DEF Unlist
<1>6. CASE job.op = "rename"
  <2>1. /\ JobNames = {job.name, job.to} /\ Updated(x) = Move(x, job.name, job.to)
        /\ Destination = job.to /\ job.to \in Name /\ job.name # job.to
    BY <1>6 DEF JobNames, Updated, Destination, TypeOK, JobType, JobOK
  <2>2. /\ Updated(x)[job.name] = x[job.name] \ Latest(x[job.name])
        /\ Updated(x)[job.to] = x[job.to] \cup Latest(x[job.name])
        /\ \A n \in Name \ {job.name, job.to} : Updated(x)[n] = x[n]
    BY <1>1, <2>1 DEF Move
  <2>3. ASSUME job.name \notin A
        PROVE  Latest(x[job.name]) = x[job.name]
    BY <1>2, <1>6, <2>3, LatestOfOne
  <2>4. ASSUME job.name \notin A
        PROVE  Updated(x)[job.name] = {}
    BY <2>2, <2>3, <2>4
  <2>5. ASSUME job.name \notin A, job.to \notin A
        PROVE  Updated(x)[job.to] = {job.at}
    BY <1>6, <2>2, <2>3, <2>5
  <2> QED
    BY <1>2, <1>3, <1>6, <2>1, <2>2, <2>4, <2>5
<1> QED
  BY <1>1, <1>4, <1>5, <1>6

LEMMA ReadIndex ==
    ASSUME Inv, Read
    PROVE  IndexOK'
<1> USE DEF Inv
<1>1. /\ pc = "read" /\ UNCHANGED <<sessions, broken, job, astray>>
      /\ Rebuilt' = Rebuilt /\ JobNames' = JobNames
      /\ job.name \in Name /\ job.op \in {"create", "rename", "delete", "save"}
      /\ HalfDone = JobNames
  BY DEF Read, TypeOK, JobType, Rebuilt, JobNames, HalfDone
<1>2. ASSUME job.op # "delete"
      PROVE  Destination \in Name /\ job.at \in Time /\ Rebuilt[Destination] = {job.at}
  <2>1. Destination \in Name /\ job.at \in Time
    BY <1>1, <1>2 DEF TypeOK, JobType, Destination
  <2>2. Destination \in DOMAIN sessions /\ sessions[Destination].at = job.at
    BY <1>1, <1>2 DEF JobOK, Finishing, Content
  <2> QED
    BY <2>1, <2>2 DEF Rebuilt
<1>3. CASE ~index_broken
  <2>1. pc' = "commit" /\ listing' = Updated(index) /\ UNCHANGED <<index, index_broken>>
    BY <1>3 DEF Read
  <2>2. HalfDone' = JobNames
    BY <1>1, <2>1 DEF HalfDone
  <2>3. \A n \in Name \ (astray \cup JobNames) : index[n] = Rebuilt[n]
    BY <1>1, <1>3 DEF IndexOK
  <2>4. job.op = "rename" =>
            /\ job.name \notin astray => index[job.name] \subseteq {job.at}
            /\ {job.name, job.to} \cap astray = {} => index[job.name] \cup index[job.to] = {job.at}
    BY <1>1, <1>3 DEF IndexOK
  <2>5. job.op \in {"create", "save"} /\ job.name \notin astray =>
            \E u \in Time : index[job.name] \subseteq {u}
    BY <1>1, <1>3 DEF IndexOK
  <2>6. index \in [Name -> SUBSET Time] /\ astray \in SUBSET Name
    BY DEF TypeOK, IndexType, FilesType
  <2>7. /\ job.op \in {"create", "save"} => \A n \in Name \ astray : Updated(index)[n] = Rebuilt[n]
        /\ job.op = "delete" => \A n \in Name \ (astray \ {job.name}) : Updated(index)[n] = Rebuilt[n]
        /\ job.op = "rename" /\ job.name \notin astray =>
               \A n \in Name \ astray : Updated(index)[n] = Rebuilt[n]
        /\ job.op = "rename" /\ job.name \in astray =>
               \A n \in Name \ (astray \cup {job.to}) : Updated(index)[n] = Rebuilt[n]
    BY <1>1, <2>3, <2>4, <2>5, <2>6, UpdatedRight
  <2>8. \A n \in Name \ StillAstray' : Updated(index)[n] = Rebuilt[n]
    BY <1>1, <2>1, <2>7 DEF StillAstray
  <2> QED
    BY <1>1, <2>1, <2>2, <2>3, <2>8 DEF IndexOK
<1>4. CASE index_broken
  <2>1. pc' = "rewrite" /\ listing' = Updated(Rebuilt) /\ index' = NoEntries
    BY <1>4 DEF Read
  <2>2. HalfDone' = {n \in Name : Exists(n)} /\ StillAstray' = broken
    BY <1>1, <2>1 DEF HalfDone, StillAstray, Exists
  <2>3. \A n \in Name \ HalfDone' : index'[n] = Rebuilt[n]
    BY <2>1, <2>2 DEF NoEntries, Exists, Rebuilt
  <2>4. Rebuilt \in [Name -> SUBSET Time] /\ broken \in SUBSET Name
    BY DEF Rebuilt, TypeOK, FilesType, File
  <2>5. job.op \in {"rename", "delete"} => job.name \notin broken /\ Rebuilt[job.name] = {}
    BY <1>1 DEF JobOK, Finishing, Exists, Rebuilt
  <2>6. job.op = "rename" =>
            /\ job.name \notin broken => Rebuilt[job.name] \subseteq {job.at}
            /\ {job.name, job.to} \cap broken = {} => Rebuilt[job.name] \cup Rebuilt[job.to] = {job.at}
    BY <1>2, <2>5 DEF Destination
  <2>7. job.op \in {"create", "save"} => \E u \in Time : Rebuilt[job.name] \subseteq {u}
    BY <1>2 DEF Destination
  <2>8. /\ job.op \in {"create", "save"} => \A n \in Name \ broken : Updated(Rebuilt)[n] = Rebuilt[n]
        /\ job.op = "delete" => \A n \in Name \ (broken \ {job.name}) : Updated(Rebuilt)[n] = Rebuilt[n]
        /\ job.op = "rename" /\ job.name \notin broken =>
               \A n \in Name \ broken : Updated(Rebuilt)[n] = Rebuilt[n]
    BY <1>1, <2>4, <2>6, <2>7, UpdatedRight
  <2>9. \A n \in Name \ broken : Updated(Rebuilt)[n] = Rebuilt[n]
    BY <1>1, <2>5, <2>8
  <2> QED
    BY <1>1, <2>1, <2>2, <2>3, <2>9 DEF IndexOK
<1> QED
  BY <1>3, <1>4 DEF TypeOK, IndexType

LEMMA CommitIndex ==
    ASSUME Inv, Commit
    PROVE  IndexOK'
<1>1. /\ pc' = "idle" /\ index' = listing /\ astray' = StillAstray /\ Rebuilt' = Rebuilt
      /\ job'.op = "none"
  BY DEF Commit, NoJob, Rebuilt
<1>2. \A n \in Name \ StillAstray : listing[n] = Rebuilt[n]
  BY DEF Commit, Inv, IndexOK
<1> QED
  BY <1>1, <1>2 DEF IndexOK

LEMMA AbandonedIndex ==
    ASSUME Inv, Abandoned, UNCHANGED disk
    PROVE  IndexOK'
<1>1. /\ pc' = "idle" /\ astray' = astray \cup HalfDone /\ Rebuilt' = Rebuilt
      /\ UNCHANGED <<index, index_broken>>
  BY DEF Abandoned, disk, Rebuilt
<1> QED
  BY <1>1 DEF Inv, IndexOK

LEMMA AsideIndex ==
    ASSUME Inv, ListMovesAside
    PROVE  IndexOK'
<1> USE DEF Inv
<1>1. /\ index' = NoEntries /\ astray' = astray \cup {n \in Name : Exists(n)}
      /\ Rebuilt' = Rebuilt /\ HalfDone' = HalfDone
      /\ UNCHANGED <<sessions, broken, pc, job, listing>>
  BY DEF ListMovesAside, cockpit, Rebuilt, HalfDone, JobNames, Exists
<1>2. \A n \in Name \ astray' : index'[n] = {} /\ Rebuilt[n] = {}
  BY <1>1 DEF NoEntries, Rebuilt, Exists
<1>3. pc \in {"remove", "read"} /\ job.op = "rename" => job.to \in astray'
  BY <1>1 DEF JobOK, Finishing, Destination, Exists, TypeOK, JobType
<1>4. pc # "idle" => job.name \in Name /\ index'[job.name] = {}
  BY <1>1 DEF NoEntries, TypeOK, JobType
<1>5. pc = "read" /\ job.op \in {"create", "save"} => job.at \in Time
  BY DEF TypeOK, JobType
<1>6. pc \in {"commit", "rewrite"} => StillAstray \subseteq StillAstray'
  BY <1>1 DEF StillAstray
<1> QED
  BY <1>1, <1>2, <1>3, <1>4, <1>5, <1>6 DEF IndexOK

LEMMA DamageIndexOK ==
    ASSUME Inv, NEW m \in Name, Damage(m)
    PROVE  IndexOK'
<1> USE DEF Inv
<1>1. /\ m \in DOMAIN sessions /\ m \notin JobNames
      /\ broken' = broken \cup {m} /\ astray' = astray \cup {m}
      /\ DOMAIN sessions' = DOMAIN sessions \ {m}
      /\ \A n \in Name \ {m} : Rebuilt'[n] = Rebuilt[n]
      /\ UNCHANGED <<index, index_broken, pc, job, listing>>
  BY DEF Damage, cockpit, Rebuilt
<1>2. HalfDone' = HalfDone
  BY <1>1 DEF HalfDone, JobNames, Exists
<1>3. pc \in {"commit", "rewrite"} => StillAstray \cup {m} \subseteq StillAstray'
  BY <1>1 DEF StillAstray, JobNames
<1>4. m # job.name /\ (job.op = "rename" => m # job.to)
  BY <1>1 DEF JobNames
<1>5. ~index_broken' => \A n \in Name \ (astray' \cup HalfDone') : index'[n] = Rebuilt'[n]
  BY <1>1, <1>2 DEF IndexOK
<1>6. pc' \in {"commit", "rewrite"} => \A n \in Name \ StillAstray' : listing'[n] = Rebuilt'[n]
  BY <1>1, <1>3 DEF IndexOK
<1> QED
  BY <1>1, <1>4, <1>5, <1>6 DEF IndexOK

LEMMA IndexStep ==
    ASSUME Inv, [Next]_vars
    PROVE  IndexOK'
<1> USE DEF Inv
<1>1. ASSUME NEW n \in Name, NEW t \in Time, Create(n, t)
      PROVE  IndexOK'
  BY <1>1, BeginIndex DEF Create
<1>2. ASSUME NEW n \in Name, NEW m \in Name, NEW t \in Time, Rename(n, m, t)
      PROVE  IndexOK'
  <2>1. PICK id \in Id, at \in Time :
           Load(n, t, id, at) /\ Begin("write", "rename", n, m, id, at, None)
    BY <1>2 DEF Rename
  <2>2. broken' \subseteq broken
    BY <2>1, LoadType
  <2> QED
    BY <1>2, <2>1, <2>2, BeginIndex DEF Rename
<1>3. ASSUME NEW n \in Name, NEW t \in Time, Switch(n, t)
      PROVE  IndexOK'
  <2>1. PICK id \in Id, at \in Time :
           /\ Load(n, t, id, at)
           /\ \/ Begin("write", "save", current, n, live, t, id)
              \/ pc = "idle" /\ UNCHANGED <<pc, job, index, index_broken, listing, astray>>
    BY <1>3 DEF Switch
  <2>2. broken' \subseteq broken /\ UNCHANGED sessions
    BY <1>3, <2>1, LoadType DEF Switch
  <2>3. CASE Begin("write", "save", current, n, live, t, id)
    BY <2>2, <2>3, BeginIndex
  <2>4. CASE pc = "idle" /\ UNCHANGED <<pc, job, index, index_broken, listing, astray>>
    <3>1. HalfDone = {} /\ HalfDone' = {} /\ Rebuilt' = Rebuilt
      BY <2>2, <2>4 DEF HalfDone, Rebuilt
    <3> QED
      BY <2>4, <3>1 DEF IndexOK
  <2> QED
    BY <2>1, <2>3, <2>4
<1>4. ASSUME NEW n \in Name, Delete(n)
      PROVE  IndexOK'
  <2>1. PICK step \in {"remove", "read"} : Begin(step, "delete", n, NoName, None, 0, None)
    BY <1>4 DEF Delete
  <2> QED
    BY <1>4, <2>1, BeginIndex DEF Delete
<1>5. ASSUME NEW n \in Name, Damage(n)
      PROVE  IndexOK'
  BY <1>5, DamageIndexOK
<1>6. CASE Write
  BY <1>6, WriteIndex
<1>7. CASE Remove
  BY <1>7, RemoveIndex
<1>8. CASE Read
  BY <1>8, ReadIndex
<1>9. CASE Commit
  BY <1>9, CommitIndex
<1>10. CASE Fail
  BY <1>10, AbandonedIndex DEF Fail
<1>11. ASSUME UNCHANGED <<disk, pc, job, listing, astray>>
       PROVE  IndexOK'
  BY <1>11 DEF disk, IndexOK, HalfDone, StillAstray, JobNames, Rebuilt, Exists
<1>12. CASE Crash
  BY <1>11, <1>12, AbandonedIndex DEF Crash
<1>13. CASE ListReads
  BY <1>11, <1>13 DEF ListReads, cockpit
<1>14. CASE ListMovesAside
  BY <1>14, AsideIndex
<1>15. CASE DamageIndex
  BY <1>15 DEF DamageIndex, cockpit, IndexOK, HalfDone, StillAstray, JobNames, Rebuilt, Exists
<1>16. CASE UNCHANGED vars
  BY <1>11, <1>16 DEF vars, cockpit
<1> QED
  BY <1>1, <1>2, <1>3, <1>4, <1>5, <1>6, <1>7, <1>8, <1>9, <1>10, <1>12, <1>13, <1>14, <1>15, <1>16
     DEF Next

-----------------------------------------------------------------------------
(* What create, rename, delete and switch are for: every session stays on the *)
(* disk until it is deleted, damaged, or overwritten by the save of the open    *)
(* one, wherever an operation is cut short.                                  *)
THEOREM LossCorrect == Spec => NothingLost
<1>1. Init => TypeOK /\ JobOK
  BY InvInit DEF Inv
<1>2. TypeOK /\ JobOK /\ [Next]_vars => (TypeOK /\ JobOK)'
  BY TypeStep, JobStep
<1>3. TypeOK /\ JobOK /\ [Next]_vars => [Loss]_vars
  BY LossStep
<1>4. NothingLost <=> [][Loss]_vars
  BY PTL DEF NothingLost, Loss
<1> QED
  BY <1>1, <1>2, <1>3, <1>4, PTL DEF Spec

(* The types of every file, index and operation in progress.                  *)
THEOREM StoreTypes == Spec => []TypeOK
<1>1. Init => TypeOK /\ JobOK
  BY InvInit DEF Inv
<1>2. TypeOK /\ JobOK /\ [Next]_vars => (TypeOK /\ JobOK)'
  BY TypeStep, JobStep
<1> QED
  BY <1>1, <1>2, PTL DEF Spec

(* The index lists exactly the sessions there are, whenever no operation is in  *)
(* progress, but for names that damage or an interrupted operation touched.    *)
THEOREM AgreesCorrect == Spec => []IndexAgrees
<1>1. Inv /\ [Next]_vars => Inv'
  BY TypeStep, JobStep, IndexStep DEF Inv
<1>2. Inv => IndexAgrees
  BY DEF Inv, IndexOK, IndexAgrees, HalfDone
<1> QED
  BY InvInit, <1>1, <1>2, PTL DEF Spec

=============================================================================
