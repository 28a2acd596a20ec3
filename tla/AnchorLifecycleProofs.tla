----------------------- MODULE AnchorLifecycleProofs -----------------------
(***************************************************************************)
(* The registry, the hidden set and the processes agree as far as the code *)
(* goes, for every number of panes.                                        *)
(***************************************************************************)
EXTENDS AnchorLifecycle, FiniteSetTheorems, TLAPS

\* every non-empty set of pane ids has a least one: in a smallest set without
\* one, the least of the others and the element left out are comparable
LEMMA LeastIn == ASSUME NEW S \in SUBSET PaneId, S # {} PROVE Least(S) \in S
<1> DEFINE HasLeast(M) == \E x \in M : \A y \in M : x <= y
           Bad == {M \in SUBSET PaneId : M # {} /\ ~HasLeast(M)}
<1>1. IsFiniteSet(PaneId)
  <2>1. MaxPane \in Int /\ 1 \in Int
    BY LifecycleAssumption
  <2> QED
    BY <2>1, FS_Interval DEF PaneId
<1>2. IsWellFoundedOn(StrictSubsetOrdering(PaneId), SUBSET PaneId)
  BY <1>1, FS_FiniteSubsetsOfFinite, FS_StrictSubsetOrderingWellFounded
<1>3. SUFFICES ASSUME Bad # {} PROVE FALSE
  BY DEF Least
<1>4. PICK M \in Bad : \A N \in Bad : ~ (<<N, M>> \in StrictSubsetOrdering(PaneId))
  <2>1. Bad \subseteq SUBSET PaneId /\ Bad # {}
    BY <1>3
  <2> HIDE DEF Bad
  <2> QED
    BY <1>2, <2>1, WFMin
<1>5. PICK n \in M : TRUE
  OBVIOUS
<1> DEFINE N == M \ {n}
<1>6. <<N, M>> \in StrictSubsetOrdering(PaneId)
  BY <1>5 DEF StrictSubsetOrdering
<1>7. N # {} /\ N \in SUBSET PaneId
  BY <1>5, LifecycleAssumption DEF PaneId
<1>8. PICK x \in N : \A y \in N : x <= y
  BY <1>4, <1>6, <1>7
<1>9. \A p, q \in M : p \in Nat /\ q \in Nat
  BY LifecycleAssumption DEF PaneId
<1>10. CASE x <= n
  BY <1>5, <1>8, <1>10
<1>11. CASE n <= x
  <2>1. \A y \in M : n <= y
    BY <1>5, <1>8, <1>9, <1>11
  <2> QED
    BY <1>5, <2>1
<1> QED
  BY <1>5, <1>8, <1>9, <1>10, <1>11

-----------------------------------------------------------------------------
\* The four invariants are inductive together: an anchor that leaves has to be
\* recorded nowhere, whichever of the others it was in.
Inv == TypeOK /\ PausedIsFrozen /\ HiddenIsRecorded /\ HiddenStaysHidden

LEMMA InvInit == Init => Inv
BY LifecycleAssumption
DEF Init, Inv, TypeOK, PausedIsFrozen, HiddenIsRecorded, HiddenStaysHidden,
    PaneId, AnchorState, ProcState

LEMMA LeaveInv ==
    ASSUME Inv, NEW p \in panes, panes # {p}, Leave(p), proc' = proc, exit_queue' \subseteq exit_queue,
           kill_timers' \in {kill_timers, kill_timers \cup {p}}
    PROVE  Inv'
<1> DEFINE q == Least(panes \ {p})
<1>1. panes \ {p} \subseteq PaneId /\ panes \ {p} # {}
  BY DEF Inv, TypeOK
<1>2. q \in panes \ {p}
  BY <1>1, LeastIn
<1> HIDE DEF q
<1>3. /\ panes' = panes \ {p} /\ hidden' = hidden \ {p}
      /\ registry' = [registry EXCEPT ![p] = "Untagged"]
      /\ active' = IF active = p THEN q ELSE active
      /\ shown' = IF active = p THEN {q} \ (hidden \cup {None}) ELSE shown \ {p}
  BY DEF Leave, ShownWhenActive, q
<1>4. active' \in panes' /\ shown' \subseteq {active'} /\ shown' \cap hidden' = {}
      /\ shown' \subseteq panes' /\ hidden' \subseteq panes'
  BY <1>2, <1>3 DEF Inv, TypeOK, HiddenStaysHidden
<1>5. registry' \in [PaneId -> AnchorState] /\ \A r \in PaneId : registry'[r] # "Untagged" <=> r \in panes'
  BY <1>3 DEF Inv, TypeOK, AnchorState
<1>6. /\ kill_timers' \subseteq PaneId \ panes'
      /\ \A r \in PaneId : proc'[r] = "none" => r \notin panes' \cup kill_timers' \cup exit_queue'
  BY <1>3 DEF Inv, TypeOK
<1>7. TypeOK'
  BY <1>3, <1>4, <1>5, <1>6 DEF Inv, TypeOK
<1>8. PausedIsFrozen' /\ HiddenIsRecorded'
  BY <1>3 DEF Inv, TypeOK, PausedIsFrozen, HiddenIsRecorded, AnchorState
<1> QED
  BY <1>4, <1>7, <1>8 DEF Inv, HiddenStaysHidden

LEMMA InvNext == Inv /\ [Next]_vars => Inv'
<1> SUFFICES ASSUME Inv, [Next]_vars PROVE Inv'
  OBVIOUS
<1> USE DEF Inv, TypeOK, PausedIsFrozen, HiddenIsRecorded, HiddenStaysHidden,
            AnchorState, ProcState
<1>1. CASE UNCHANGED vars
  BY <1>1 DEF vars
<1>2. ASSUME NEW p \in PaneId, Create(p) PROVE Inv'
  <2>1. p # None
    BY LifecycleAssumption DEF PaneId, None
  <2> QED
    BY <1>2, <2>1 DEF Create, ShownWhenActive
<1>3. ASSUME NEW p \in PaneId, Pause(p) PROVE Inv'
  BY <1>3 DEF Pause, Signalled, After
<1>4. ASSUME NEW p \in PaneId, Resume(p) PROVE Inv'
  BY <1>4 DEF Resume, Signalled, After
<1>5. ASSUME NEW p \in PaneId, Hide(p) PROVE Inv'
  BY <1>5 DEF Hide
<1>6. ASSUME NEW p \in PaneId, Reattach(p) PROVE Inv'
  BY <1>6 DEF Reattach
<1>7. ASSUME NEW p \in PaneId, Activate(p) PROVE Inv'
  BY <1>7 DEF Activate, ShownWhenActive
<1>8. ASSUME NEW p \in PaneId, Untag(p) PROVE Inv'
  <2>1. CASE panes # {p}
    BY <1>8, <2>1, LeaveInv DEF Untag
  <2>2. CASE panes = {p}
    BY <1>8, <2>2 DEF Untag, Retag
  <2> QED
    BY <2>1, <2>2
<1>9. ASSUME NEW p \in PaneId, Close(p) PROVE Inv'
  BY <1>9, LeaveInv DEF Close
<1>10. ASSUME NEW p \in PaneId, ProcessExits(p) PROVE Inv'
  BY <1>10 DEF ProcessExits
<1>11. ASSUME NEW p \in PaneId, Poll(p) PROVE Inv'
  BY <1>11 DEF Poll
<1>12. ASSUME NEW p \in PaneId, CloseExited(p) PROVE Inv'
  <2>1. CASE p \in panes /\ panes # {p}
    BY <1>12, <2>1, LeaveInv DEF CloseExited
  <2>2. CASE ~(p \in panes /\ panes # {p})
    BY <1>12, <2>2 DEF CloseExited
  <2> QED
    BY <2>1, <2>2
<1>13. ASSUME NEW p \in PaneId, ForceKill(p) PROVE Inv'
  BY <1>13 DEF ForceKill
<1> QED
  BY <1>1, <1>2, <1>3, <1>4, <1>5, <1>6, <1>7, <1>8, <1>9, <1>10, <1>11, <1>12, <1>13
  DEF Next

LEMMA InvAlways == Spec => []Inv
BY InvInit, InvNext, PTL DEF Spec

\* The registry never calls a running process paused, in whatever order anchors
\* are paused, hidden, reattached and tagged again (lmux-anchor, state.rs).
THEOREM PausedCorrect == Spec => []PausedIsFrozen
<1>1. Inv => PausedIsFrozen
  BY DEF Inv
<1> QED
  BY <1>1, InvAlways, PTL

\* Whatever is Hidden in the registry is in hidden_anchors and can be reattached.
THEOREM HiddenCorrect == Spec => []HiddenIsRecorded
<1>1. Inv => HiddenIsRecorded
  BY DEF Inv
<1> QED
  BY <1>1, InvAlways, PTL

\* No switch, promotion or retagging makes the widget of a hidden anchor visible
\* (set_active_anchor).
THEOREM VisibilityCorrect == Spec => []HiddenStaysHidden
<1>1. Inv => HiddenStaysHidden
  BY DEF Inv
<1> QED
  BY <1>1, InvAlways, PTL
=============================================================================
