------------------------- MODULE AgentRequestProofs -------------------------
(* Theorems about what agents ask for: the records of Grants, for all agents,  *)
(* workspaces, requests and bounds, and the requests in progress of AttachFlow, *)
(* for all anchors, windows and requests.                                      *)
EXTENDS Grants, AttachFlow, TLAPS

States == {"pending", "once", "timed", "denied", "revoked", "expired", "gone"}
Verdicts == {"none", "once", "timed", "denied", "revoked", "expired"}
Entry == [agent : Agent, what : What, anchor : Workspaces, state : States, verdict : Verdicts, uses : 0..2]

\* What the state of a record says of its history: a grant that is allowed is the
\* one the user decided on, a one-shot grant that is still allowed is unused, and
\* only a used one is revoked by itself
Sound(r) ==
    /\ r.state = "once" => r.verdict = "once" /\ r.uses = 0
    /\ r.state = "timed" => r.verdict = "timed"
    /\ r.uses = 0 \/ r.verdict = "timed" \/ (r.verdict = "once" /\ r.uses = 1)

AllSound(g) == \A i \in DOMAIN g : Sound(g[i])

GrantInv == GrantTypeOK /\ AllSound(grants)

-----------------------------------------------------------------------------
(* The ways records change *)

\* Records changed in place are as many records
LEMMA SameLength ==
    ASSUME NEW S, NEW g \in Seq(S), NEW f, f = [i \in DOMAIN g |-> f[i]], \A i \in DOMAIN g : f[i] \in S
    PROVE  f \in Seq(S)
<1>1. DOMAIN g = 1..Len(g) /\ Len(g) \in Nat OBVIOUS
<1>2. f \in [1..Len(g) -> S] BY <1>1
<1>3. QED BY <1>1, <1>2

\* A new request is a sound record behind the others
LEMMA RequestAppended ==
    ASSUME NEW g \in Seq(Entry), AllSound(g), NEW a \in Agent, NEW w \in What, NEW p \in Workspaces
    PROVE  /\ Append(g, Request(a, w, p)) \in Seq(Entry)
           /\ AllSound(Append(g, Request(a, w, p)))
           /\ DOMAIN g \subseteq DOMAIN Append(g, Request(a, w, p))
<1>1. Request(a, w, p) \in Entry /\ Sound(Request(a, w, p))
  BY DEF Request, Entry, States, Verdicts, Sound
<1>2. QED BY <1>1 DEF AllSound

\* Using a live grant leaves the records sound
LEMMA UsedSound ==
    ASSUME GrantTypeOK, AllSound(grants), NEW i \in DOMAIN grants, Live(i)
    PROVE  Used(i) \in Seq(Entry) /\ AllSound(Used(i)) /\ DOMAIN Used(i) = DOMAIN grants
<1>1. grants \in Seq(Entry) BY DEF GrantTypeOK, Entry, States, Verdicts
<1>2. grants[i] \in Entry /\ Sound(grants[i]) BY <1>1 DEF AllSound
<1>3. DOMAIN Used(i) = DOMAIN grants BY DEF Used
<1>4. \A j \in DOMAIN grants : j # i => Used(i)[j] = grants[j] BY DEF Used
<1>5. Used(i)[i] = [grants[i] EXCEPT !.uses = IF @ < 2 THEN @ + 1 ELSE 2,
                                     !.state = IF @ = "once" THEN "revoked" ELSE @]
  BY <1>1, <1>2 DEF Used, Entry
<1>6. Used(i)[i] \in Entry
  <2>1. (IF grants[i].state = "once" THEN "revoked" ELSE grants[i].state) \in States
    BY <1>2 DEF Entry, States
  <2>2. (IF grants[i].uses < 2 THEN grants[i].uses + 1 ELSE 2) \in 0..2 BY <1>2 DEF Entry
  <2>3. QED BY <1>2, <1>5, <2>1, <2>2 DEF Entry
<1>7. Sound(Used(i)[i]) BY <1>2, <1>5 DEF Entry, Sound, Live
<1>8. Used(i) \in Seq(Entry)
  <2>1. \A j \in DOMAIN grants : grants[j] \in Entry BY <1>1
  <2>2. \A j \in DOMAIN grants : Used(i)[j] \in Entry BY <1>4, <1>6, <2>1
  <2>3. QED BY <1>1, <1>3, <2>2, SameLength DEF Used
<1>9. QED BY <1>3, <1>4, <1>7, <1>8 DEF AllSound

\* So does a decision, of the user or of time
LEMMA DecidedSound ==
    ASSUME GrantTypeOK, AllSound(grants), NEW i \in DOMAIN grants,
           NEW d \in {"once", "timed", "denied", "revoked", "expired"}
    PROVE  Decided(i, d) \in Seq(Entry) /\ AllSound(Decided(i, d)) /\ DOMAIN Decided(i, d) = DOMAIN grants
<1>1. grants \in Seq(Entry) BY DEF GrantTypeOK, Entry, States, Verdicts
<1>2. grants[i] \in Entry BY <1>1
<1>3. DOMAIN Decided(i, d) = DOMAIN grants BY DEF Decided
<1>4. \A j \in DOMAIN grants : j # i => Decided(i, d)[j] = grants[j] BY DEF Decided
<1>5. Decided(i, d)[i] = [grants[i] EXCEPT !.state = d, !.verdict = d, !.uses = 0]
  BY <1>1, <1>2 DEF Decided, Entry
<1>6. Decided(i, d)[i] \in Entry
  <2>1. d \in States /\ d \in Verdicts /\ 0 \in 0..2 BY DEF States, Verdicts
  <2>2. Decided(i, d)[i] = [agent |-> grants[i].agent, what |-> grants[i].what, anchor |-> grants[i].anchor,
                            state |-> d, verdict |-> d, uses |-> 0]
    BY <1>2, <1>5 DEF Entry
  <2>3. QED BY <1>2, <2>1, <2>2 DEF Entry
<1>7. Sound(Decided(i, d)[i]) BY <1>2, <1>5 DEF Entry, Sound
<1>8. Decided(i, d) \in Seq(Entry)
  <2>1. \A j \in DOMAIN grants : grants[j] \in Entry BY <1>1
  <2>2. \A j \in DOMAIN grants : Decided(i, d)[j] \in Entry BY <1>4, <1>6, <2>1
  <2>3. Decided(i, d) = [j \in DOMAIN grants |-> Decided(i, d)[j]] BY DEF Decided
  <2>4. QED BY <1>1, <2>2, <2>3, SameLength
<1>9. QED BY <1>3, <1>4, <1>7, <1>8 DEF AllSound

\* Whatever an access finds, the records it leaves are sound
LEMMA AuthorizeSound ==
    ASSUME GrantTypeOK, AllSound(grants), NEW a \in Agent, NEW w \in What, NEW p \in Workspaces,
           NEW o \in AuthorizePaneAccess(a, w, p)
    PROVE  o.grants \in Seq(Entry) /\ AllSound(o.grants) /\ DOMAIN grants \subseteq DOMAIN o.grants
<1>1. grants \in Seq(Entry) BY DEF GrantTypeOK, Entry, States, Verdicts
<1>2. \/ o.grants = grants
      \/ \E i \in DOMAIN grants : Live(i) /\ o.grants = Used(i)
      \/ o.grants = Append(grants, Request(a, w, p))
  BY DEF AuthorizePaneAccess, ExistingGrantDecision, Matching
<1>3. CASE o.grants = grants BY <1>1, <1>3
<1>4. CASE \E i \in DOMAIN grants : Live(i) /\ o.grants = Used(i) BY <1>4, UsedSound
<1>5. CASE o.grants = Append(grants, Request(a, w, p)) BY <1>1, <1>5, RequestAppended
<1>6. QED BY <1>2, <1>3, <1>4, <1>5

-----------------------------------------------------------------------------
(* The invariant *)

\* More records, and the popover as it was
LEMMA GrantsMore ==
    ASSUME GrantInv, grants' \in Seq(Entry), AllSound(grants'), DOMAIN grants \subseteq DOMAIN grants',
           homes' \subseteq Agent \X Workspaces, rows' = rows
    PROVE  GrantInv'
BY DEF GrantInv, GrantTypeOK, AllSound, Entry, States, Verdicts

\* Every step keeps the records sound
LEMMA GrantsStep == GrantInv /\ [GrantsNext]_grantVars => GrantInv'
<1> SUFFICES ASSUME GrantInv, [GrantsNext]_grantVars PROVE GrantInv'
  OBVIOUS
<1>0. grants \in Seq(Entry) /\ AllSound(grants) /\ GrantTypeOK /\ homes \subseteq Agent \X Workspaces
  BY DEF GrantInv, GrantTypeOK, Entry, States, Verdicts
<1>1. ASSUME NEW a \in Agent, NEW p \in Workspaces, CreatePane(a, p) \/ ClosePane(a, p) PROVE GrantInv'
  <2>1. grants' = grants /\ rows' = rows /\ homes' \subseteq Agent \X Workspaces
    BY <1>0, <1>1 DEF CreatePane, ClosePane
  <2>2. QED BY <1>0, <2>1, GrantsMore
<1>2. ASSUME NEW a \in Agent, NEW p \in Workspaces, RenamePinned(a, p) PROVE GrantInv'
  <2>1. PICK o \in AuthorizePaneAccess(a, Rename, p) : grants' = Append(o.grants, Request(a, Rename, p))
    BY <1>2 DEF RenamePinned, Registered
  <2>2. o.grants \in Seq(Entry) /\ AllSound(o.grants) /\ DOMAIN grants \subseteq DOMAIN o.grants
    BY <1>0, AuthorizeSound, GrantsAssumption
  <2>3. grants' \in Seq(Entry) /\ AllSound(grants') /\ DOMAIN grants \subseteq DOMAIN grants'
    BY <2>1, <2>2, RequestAppended, GrantsAssumption
  <2>4. QED BY <1>0, <1>2, <2>3, GrantsMore DEF RenamePinned
<1>3. ASSUME NEW a \in Agent, NEW w \in What, NEW p \in Workspaces, Access(a, w, p) PROVE GrantInv'
  <2>1. PICK o \in AuthorizePaneAccess(a, w, p) : grants' = o.grants
    BY <1>3 DEF Access, Registered
  <2>2. QED BY <1>0, <1>3, <2>1, AuthorizeSound, GrantsMore DEF Access
<1>4. ASSUME NEW a \in Agent, NEW w \in What, NEW p \in Workspaces, RegisterGrantRequest(a, w, p)
      PROVE GrantInv'
  BY <1>0, <1>4, RequestAppended, GrantsMore DEF RegisterGrantRequest, Registered
<1>5. ASSUME NEW p \in Workspaces, OpenPopover(p) PROVE GrantInv'
  <2>1. rows' \subseteq (DOMAIN grants) \X {"pending", "active"}
    BY <1>5 DEF OpenPopover, GrantViews
  <2>2. QED BY <1>0, <1>5, <2>1 DEF OpenPopover, GrantInv, GrantTypeOK, AllSound
<1>6. ASSUME NEW r \in rows, NEW d \in Buttons(r[2]), DecideGrant(r[1], r[2], d) PROVE GrantInv'
  <2>1. r[1] \in DOMAIN grants BY DEF GrantInv, GrantTypeOK
  <2>2. d \in {"once", "timed", "denied", "revoked", "expired"} BY DEF Buttons
  <2>3. QED BY <1>0, <1>6, <2>1, <2>2, DecidedSound, GrantsMore DEF DecideGrant
<1>7. ASSUME NEW i \in DOMAIN grants, Expire(i) PROVE GrantInv'
  BY <1>0, <1>7, DecidedSound, GrantsMore DEF Expire
<1>8. ASSUME ClearGrants PROVE GrantInv'
  <2>1. DOMAIN grants' = DOMAIN grants BY <1>8 DEF ClearGrants
  <2>2. \A i \in DOMAIN grants : grants'[i] = [grants[i] EXCEPT !.state = "gone"] BY <1>8 DEF ClearGrants
  <2>3. \A i \in DOMAIN grants : grants[i] \in Entry /\ Sound(grants[i]) BY <1>0 DEF AllSound
  <2>4. \A i \in DOMAIN grants : grants'[i] \in Entry
    <3>1. "gone" \in States BY DEF States
    <3>2. QED BY <2>2, <2>3, <3>1 DEF Entry
  <2>5. \A i \in DOMAIN grants : Sound(grants'[i]) BY <2>2, <2>3 DEF Sound, Entry
  <2>6. grants' \in Seq(Entry) BY <1>0, <1>8, <2>1, <2>4, SameLength DEF ClearGrants
  <2>7. AllSound(grants') BY <2>1, <2>5 DEF AllSound
  <2>8. QED BY <1>8, <2>1, <2>6, <2>7, GrantsMore DEF ClearGrants
<1>9. CASE UNCHANGED grantVars
  BY <1>0, <1>9, GrantsMore DEF grantVars
<1>10. QED BY <1>1, <1>2, <1>3, <1>4, <1>5, <1>6, <1>7, <1>8, <1>9 DEF GrantsNext

\* The invariant holds throughout
LEMMA GrantsInvariant == GrantsSpec => []GrantInv
<1>1. GrantsInit => GrantInv BY DEF GrantsInit, GrantInv, GrantTypeOK, AllSound
<1>2. QED BY <1>1, GrantsStep, PTL DEF GrantsSpec

-----------------------------------------------------------------------------
\* The records are of their types and the popover's rows are of records
\* (register_grant_request, decide_grant, grant_views_for_anchor)
THEOREM GrantTypes == GrantsSpec => []GrantTypeOK
<1>1. GrantInv => GrantTypeOK BY DEF GrantInv
<1>2. QED BY <1>1, GrantsInvariant, PTL

\* Every record is used as the user decided: once for Allow once, while the ten
\* minutes last for Allow 10m, and never otherwise (existing_grant_decision)
THEOREM UsesCorrect == GrantsSpec => []UsedAsDecided
<1>1. GrantInv => UsedAsDecided BY DEF GrantInv, AllSound, Sound, UsedAsDecided
<1>2. QED BY <1>1, GrantsInvariant, PTL

-----------------------------------------------------------------------------
(* AttachFlow *)

\* What a launch knows of the windows there were: those still there are on the
\* desktop, and on the list it took before it spawned anything
Remembers ==
    \A t \in Task :
        /\ task[t].known \subseteq open
        /\ task[t].pc \in {"spawn", "search"} => task[t].known \subseteq task[t].before

FlowInv == TypeOK /\ OneOwner /\ Remembers

-----------------------------------------------------------------------------
\* An idle task is a task
LEMMA IdleTyped == Idle \in Record /\ Idle.pc = "idle" /\ Idle.known = {}
BY DEF Idle, Record

\* The end of a task
LEMMA EndsKeeps ==
    ASSUME TypeOK, Remembers, NEW t \in Task, Ends(t), open' = open
    PROVE  /\ task' \in [Task -> Record]
           /\ opener' \in [Window -> Task \cup {None}]
           /\ \A u \in Task : task'[u].pc \in {"validate", "attach"} => task'[u].window \in Window
           /\ Remembers'
BY IdleTyped DEF Ends, TypeOK, Remembers

\* A task goes on
LEMMA TaskChanged ==
    ASSUME TypeOK, NEW t \in Task, NEW r \in Record,
           r.pc \in {"validate", "attach"} => r.window \in Window,
           task' = [task EXCEPT ![t] = r], UNCHANGED <<active, owner, deskVars>>
    PROVE  TypeOK'
<1>1. task' \in [Task -> Record] BY DEF TypeOK
<1>2. \A u \in Task : task'[u].pc \in {"validate", "attach"} => task'[u].window \in Window
  BY DEF TypeOK
<1>3. QED BY <1>1, <1>2 DEF TypeOK, deskVars

\* Every step keeps the types
LEMMA TypeStep == FlowInv /\ [Next]_vars => TypeOK'
<1> SUFFICES ASSUME FlowInv, [Next]_vars PROVE TypeOK'
  OBVIOUS
<1>0. TypeOK /\ Remembers BY DEF FlowInv
<1>1. ASSUME NEW t \in Task, Proceeds(t) PROVE TypeOK'
  <2>0. task[t] \in Record /\ open \subseteq Window BY <1>0 DEF TypeOK
  <2>1. CASE ListBefore(t)
    <3> DEFINE r == [task[t] EXCEPT !.pc = "spawn", !.before = open]
    <3>1. r \in Record /\ r.pc = "spawn" BY <2>0 DEF Record
    <3>2. task' = [task EXCEPT ![t] = r] BY <1>0, <2>1 DEF ListBefore, TypeOK
    <3>3. QED BY <1>0, <2>1, <3>1, <3>2, TaskChanged DEF ListBefore
  <2>2. CASE Spawn(t) BY <1>0, <2>2 DEF Spawn, Goes, TypeOK, Record, deskVars
  <2>3. CASE TimesOut(t) BY <1>0, <2>3, EndsKeeps DEF TimesOut, TypeOK
  <2>4. ASSUME NEW w \in Window, Found(t, w) PROVE TypeOK'
    <3> DEFINE r == [task[t] EXCEPT !.pc = "validate", !.window = w, !.before = {}, !.known = {}]
    <3>1. r \in Record /\ r.window = w BY <2>0 DEF Record
    <3>2. task' = [task EXCEPT ![t] = r] BY <1>0, <2>4 DEF Found, TypeOK
    <3>3. QED BY <1>0, <2>4, <3>1, <3>2, TaskChanged DEF Found
  <2>5. CASE Validate(t) BY <1>0, <2>5 DEF Validate, Goes, TypeOK, Record, deskVars
  <2>6. CASE Attach(t)
    <3>1. task[t].window \in Window /\ active \in Anchor BY <1>0, <2>6 DEF Attach, TypeOK
    <3>2. owner' \subseteq Anchor \X Window BY <1>0, <2>6, <3>1 DEF Attach, Inserted, TypeOK
    <3>3. QED BY <1>0, <2>6, <3>2, EndsKeeps DEF Attach, TypeOK
  <2>7. CASE AttachNowhere(t) BY <1>0, <2>7, EndsKeeps DEF AttachNowhere, TypeOK
  <2>8. CASE Fail(t) BY <1>0, <2>8, EndsKeeps DEF Fail, TypeOK
  <2>9. QED BY <1>1, <2>1, <2>2, <2>3, <2>4, <2>5, <2>6, <2>7, <2>8 DEF Proceeds
<1>2. ASSUME NEW t \in Task, LaunchAttach(t) PROVE TypeOK'
  BY <1>0, <1>2 DEF LaunchAttach, Starts, TypeOK, Record, deskVars
<1>3. ASSUME NEW t \in Task, NEW w \in Window, AttachWindow(t, w) \/ PickWindow(t, w) PROVE TypeOK'
  <2>1. PICK p \in Anchor \cup {None} : Starts(t, "validate", FALSE, w, p)
    BY <1>0, <1>3 DEF AttachWindow, PickWindow, TypeOK
  <2> DEFINE r == [pc |-> "validate", launch |-> FALSE, window |-> w, before |-> {},
                   anchor |-> p, known |-> {}]
  <2>2. r \in Record /\ r.window = w BY DEF Record
  <2>3. task' = [task EXCEPT ![t] = r] BY <2>1 DEF Starts
  <2>4. QED BY <1>0, <2>1, <2>2, <2>3, TaskChanged DEF Starts
<1>4. ASSUME NEW w \in Window, Vanish(w) PROVE TypeOK'
  BY <1>0, <1>4 DEF Vanish, TypeOK, Record
<1>5. ASSUME NEW w \in Window, NEW t \in Task \cup {None}, Appear(w, t) PROVE TypeOK'
  BY <1>0, <1>5 DEF Appear, TypeOK
<1>6. ASSUME NEW p \in Anchor \cup {None}, SetActiveAnchor(p) PROVE TypeOK'
  BY <1>0, <1>6 DEF SetActiveAnchor, TypeOK, deskVars
<1>7. CASE UNCHANGED vars BY <1>0, <1>7 DEF vars, deskVars, TypeOK
<1>8. QED BY <1>1, <1>2, <1>3, <1>4, <1>5, <1>6, <1>7 DEF Next

\* Only an attachment changes who owns a window, and it leaves one owner
LEMMA OwnerStep == FlowInv /\ [Next]_vars => OneOwner'
<1> SUFFICES ASSUME FlowInv, [Next]_vars PROVE OneOwner'
  OBVIOUS
<1>1. ASSUME NEW t \in Task, Attach(t) PROVE OneOwner'
  <2> DEFINE w == task[t].window
  <2>1. owner \subseteq Anchor \X Window BY DEF FlowInv, TypeOK
  <2>2. owner' = {o \in owner : o[2] # w} \cup {<<active, w>>} BY <1>1 DEF Attach, Inserted
  <2>3. \A o1, o2 \in owner : o1[2] = o2[2] => o1 = o2 BY DEF FlowInv, OneOwner
  <2>4. QED BY <2>2, <2>3 DEF OneOwner
<1>2. ASSUME UNCHANGED owner PROVE OneOwner'
  BY <1>2 DEF FlowInv, OneOwner
<1>3. (\E t \in Task : Attach(t)) \/ UNCHANGED owner
  BY DEF Next, Proceeds, ListBefore, Spawn, TimesOut, Found, Validate, AttachNowhere, Fail, LaunchAttach,
         AttachWindow, PickWindow, Starts, Vanish, Appear, SetActiveAnchor, vars
<1>4. QED BY <1>1, <1>2, <1>3

\* Every step keeps what launches remember
LEMMA RemembersStep == FlowInv /\ [Next]_vars => Remembers'
<1> SUFFICES ASSUME FlowInv, [Next]_vars PROVE Remembers'
  OBVIOUS
<1>0. TypeOK /\ Remembers /\ task \in [Task -> Record] BY DEF FlowInv, TypeOK
<1>1. ASSUME NEW t \in Task, Proceeds(t) PROVE Remembers'
  <2>1. CASE ListBefore(t) BY <1>0, <2>1 DEF ListBefore, Remembers, Record, deskVars
  <2>2. CASE Spawn(t) BY <1>0, <2>2 DEF Spawn, Goes, Remembers, Record, deskVars
  <2>3. CASE TimesOut(t) BY <1>0, <2>3, EndsKeeps DEF TimesOut
  <2>4. ASSUME NEW w \in Window, Found(t, w) PROVE Remembers'
    BY <1>0, <2>4 DEF Found, Remembers, Record, deskVars
  <2>5. CASE Validate(t) BY <1>0, <2>5 DEF Validate, Goes, Remembers, Record, deskVars
  <2>6. CASE Attach(t) BY <1>0, <2>6, EndsKeeps DEF Attach
  <2>7. CASE AttachNowhere(t) BY <1>0, <2>7, EndsKeeps DEF AttachNowhere
  <2>8. CASE Fail(t) BY <1>0, <2>8, EndsKeeps DEF Fail
  <2>9. QED BY <1>1, <2>1, <2>2, <2>3, <2>4, <2>5, <2>6, <2>7, <2>8 DEF Proceeds
<1>2. ASSUME NEW t \in Task, LaunchAttach(t) PROVE Remembers'
  BY <1>0, <1>2 DEF LaunchAttach, Starts, Remembers, Record, deskVars
<1>3. ASSUME NEW t \in Task, NEW w \in Window, AttachWindow(t, w) \/ PickWindow(t, w) PROVE Remembers'
  BY <1>0, <1>3 DEF AttachWindow, PickWindow, Starts, Remembers, Record, deskVars
<1>4. ASSUME NEW w \in Window, Vanish(w) PROVE Remembers'
  BY <1>0, <1>4 DEF Vanish, Remembers, Record
<1>5. ASSUME NEW w \in Window, NEW t \in Task \cup {None}, Appear(w, t) PROVE Remembers'
  BY <1>0, <1>5 DEF Appear, Remembers
<1>6. ASSUME NEW p \in Anchor \cup {None}, SetActiveAnchor(p) PROVE Remembers'
  BY <1>0, <1>6 DEF SetActiveAnchor, Remembers, deskVars
<1>7. CASE UNCHANGED vars BY <1>0, <1>7 DEF vars, deskVars, Remembers
<1>8. QED BY <1>1, <1>2, <1>3, <1>4, <1>5, <1>6, <1>7 DEF Next

\* The invariant holds throughout
LEMMA FlowInvariant == Spec => []FlowInv
<1>1. Init => FlowInv
  BY IdleTyped DEF Init, FlowInv, TypeOK, OneOwner, Remembers
<1>2. FlowInv /\ [Next]_vars => FlowInv' BY TypeStep, OwnerStep, RemembersStep DEF FlowInv
<1>3. QED BY <1>1, <1>2, PTL DEF Spec

-----------------------------------------------------------------------------
\* The types hold, and whoever is about to attach has a window
THEOREM FlowTypes == Spec => []TypeOK
<1>1. FlowInv => TypeOK BY DEF FlowInv
<1>2. QED BY <1>1, FlowInvariant, PTL

\* However requests overlap, a window is recorded under one anchor
\* (insert_satellite_window_for_anchor)
THEOREM OwnerCorrect == Spec => []OneOwner
<1>1. FlowInv => OneOwner BY DEF FlowInv
<1>2. QED BY <1>1, FlowInvariant, PTL

\* A launch never takes a window that was there before it, unless its own process
\* opened it (launch_attach_candidate_matches)
THEOREM LaunchCorrect == Spec => LaunchTakesNew
<1>1. FlowInv /\ [Next]_vars
        => [\A t \in Task, w \in Window : Found(t, w) => opener[w] = t \/ w \notin task[t].known]_vars
  BY DEF FlowInv, Remembers, Found, Mine, Hinted
<1>2. QED BY <1>1, FlowInvariant, PTL DEF Spec, LaunchTakesNew
=============================================================================
