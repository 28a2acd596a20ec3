----------------------- MODULE CompositorBridgeProofs -----------------------
(***************************************************************************)
(* The windows at rest are those of the active anchor, and the bridge       *)
(* implements WindowGroups, for any windows, anchors and switches.           *)
(***************************************************************************)
EXTENDS CompositorBridge, SequenceTheorems, TLAPS

Command == [hide : SUBSET Windows, show : SUBSET Windows]

\* the command issued last says what the cockpit wants now
Recorded ==
    /\ issued = <<>> => \A w \in Windows : owner[w] = None
    /\ issued # <<>> => issued[Len(issued)] = Visibility(active_anchor, owner)

\* no command shows and hides the same window
Consistent == \A i \in DOMAIN issued : issued[i].hide \cap issued[i].show = {}

\* nothing sent is lost: what the bridge has not taken is in the channel
Channel ==
    /\ announced <= sent + 1
    /\ queue = <<>> => taken = sent
    /\ queue # <<>> => queue[Len(queue)] = sent

\* what the bridge has done of its command, unless it was left for a newer one
Applied ==
    /\ current # None => hide \subseteq issued[current].hide /\ show \subseteq issued[current].show
    /\ current = None => hide = {} /\ show = {}
    /\ taken # 0 /\ (current # None \/ taken = announced) =>
          /\ \A w \in issued[taken].hide \ hide : w \notin visible \/ w \in failed
          /\ \A w \in issued[taken].show \ show : w \in visible \/ w \in failed

Inv == TypeOK /\ Recorded /\ Consistent /\ Channel /\ Applied

-----------------------------------------------------------------------------
LEMMA InvInit == Init => Inv
BY BridgeAssumption
DEF Init, Inv, TypeOK, Recorded, Consistent, Channel, Applied, AnchorId, None

\* a compositor call in progress belongs to the command taken last
LEMMA Applying ==
    ASSUME Inv, pending # {}
    PROVE  current # None /\ current = taken /\ taken \in DOMAIN issued
<1>1. current # None
  <2>1. hide \cup show # {}
    BY DEF Inv, TypeOK
  <2> QED
    BY <2>1 DEF Inv, Applied
<1>2. current = taken
  BY <1>1 DEF Inv, TypeOK
<1>3. /\ Len(issued) \in Nat /\ DOMAIN issued = 1..Len(issued)
      /\ announced \in 0..Len(issued) /\ sent \in 0..announced /\ taken \in 0..sent
  BY DEF Inv, TypeOK
<1> QED
  BY <1>1, <1>2, <1>3 DEF None

\* what a command hides and shows
LEMMA VisibilityType ==
    ASSUME NEW a, NEW own
    PROVE  /\ Visibility(a, own) \in Command
           /\ Visibility(a, own).hide \cap Visibility(a, own).show = {}
BY DEF Visibility, Command

\* an operation of the GTK thread changes nothing else, keeps the commands
\* issued before, and ends with one that says what is wanted now
LEMMA GtkStep ==
    ASSUME Inv, UNCHANGED <<announced, sent, queue, bridge>>,
           issued' \in Seq(Command), Len(issued) <= Len(issued'),
           \A i \in DOMAIN issued : issued'[i] = issued[i],
           anchors' \in SUBSET AnchorId, active_anchor' \in anchors',
           next_id' \in Nat \ {0}, owner' \in [Windows -> AnchorId \cup {None}],
           Recorded', Consistent'
    PROVE  Inv'
<1>1. Len(issued) \in Nat /\ Len(issued') \in Nat /\ announced \in Nat /\ sent \in Nat /\ taken \in Nat
  BY DEF Inv, TypeOK, Command
<1>2. TypeOK'
  BY <1>1 DEF Inv, TypeOK, Command, bridge
<1>3. taken # 0 => taken \in DOMAIN issued
  BY <1>1 DEF Inv, TypeOK, Command
<1>4. current # None => current = taken /\ taken # 0
  BY DEF Inv, TypeOK, None
<1>5. Channel' /\ Applied'
  BY <1>3, <1>4 DEF Inv, Channel, Applied, bridge
<1> QED
  BY <1>2, <1>5 DEF Inv

\* the same with one command more
LEMMA OneMore ==
    ASSUME Inv, UNCHANGED <<announced, sent, queue, bridge>>,
           issued' = Append(issued, Visibility(active_anchor', owner')),
           anchors' \in SUBSET AnchorId, active_anchor' \in anchors',
           next_id' \in Nat \ {0}, owner' \in [Windows -> AnchorId \cup {None}]
    PROVE  Inv'
<1> DEFINE c == Visibility(active_anchor', owner')
<1>1. c \in Command /\ c.hide \cap c.show = {}
  BY VisibilityType
<1>2. issued \in Seq(Command)
  BY DEF Inv, TypeOK, Command
<1> HIDE DEF c
<1>3. /\ issued' \in Seq(Command)
      /\ Len(issued') = Len(issued) + 1 /\ Len(issued) \in Nat
      /\ \A i \in DOMAIN issued : issued'[i] = issued[i]
      /\ issued'[Len(issued) + 1] = c
      /\ DOMAIN issued' = 1..Len(issued) + 1 /\ DOMAIN issued = 1..Len(issued)
  BY <1>1, <1>2, AppendProperties DEF c
<1>4. Consistent'
  BY <1>1, <1>3 DEF Inv, Consistent
<1>5. Recorded'
  BY <1>3 DEF Recorded, c
<1> QED
  BY <1>3, <1>4, <1>5, GtkStep

\* the newest of the queued commands is the one sent last
LEMMA CoalescedIn ==
    ASSUME Inv, queue # <<>>
    PROVE  Coalesced(queue) = sent /\ sent \in 1..Len(issued) /\ taken <= sent
<1>1. queue \in Seq(1..sent) /\ sent \in Nat /\ Len(issued) \in Nat
  BY DEF Inv, TypeOK, Command
<1>2. Len(queue) \in DOMAIN queue /\ queue[Len(queue)] = sent
  BY <1>1, EmptySeq DEF Inv, Channel
<1>3. \A i \in DOMAIN queue : queue[i] \in 1..sent
  BY <1>1
<1>4. Coalesced(queue) = sent
  <2>1. sent \in {queue[i] : i \in DOMAIN queue} /\ \A i \in DOMAIN queue : queue[i] <= sent
    BY <1>1, <1>2, <1>3
  <2>2. \A s \in {queue[i] : i \in DOMAIN queue} :
          (\A i \in DOMAIN queue : queue[i] <= s) => s = sent
    BY <1>1, <1>2, <1>3
  <2> QED
    BY <2>1, <2>2 DEF Coalesced
<1> QED
  BY <1>1, <1>2, <1>3, <1>4 DEF Inv, TypeOK

-----------------------------------------------------------------------------
LEMMA InvNext == Inv /\ [Next]_vars => Inv'
<1> SUFFICES ASSUME Inv, [Next]_vars PROVE Inv'
  OBVIOUS
<1>0. /\ issued \in Seq(Command) /\ Len(issued) \in Nat /\ DOMAIN issued = 1..Len(issued)
      /\ announced \in Nat /\ sent \in Nat /\ taken \in Nat
      /\ sent <= announced /\ announced <= Len(issued) /\ taken <= sent
      /\ current \in {None, taken}
  BY DEF Inv, TypeOK, Command
<1>1. CASE UNCHANGED vars
  BY <1>1 DEF vars, gtk, bridge, Inv, TypeOK, Recorded, Consistent, Channel, Applied
<1>2. ASSUME NEW a \in AnchorId, SetActiveAnchor(a) PROVE Inv'
  <2>1. active_anchor' = a /\ issued' = Append(issued, Visibility(active_anchor', owner'))
    BY <1>2 DEF SetActiveAnchor, Switched
  <2> QED
    BY <1>2, <2>1, OneMore DEF SetActiveAnchor, Inv, TypeOK
<1>3. CASE AddAnchor
  <2>1. active_anchor' = next_id /\ issued' = Append(issued, Visibility(active_anchor', owner'))
    BY <1>3 DEF AddAnchor, Switched
  <2> QED
    BY <1>3, <2>1, OneMore DEF AddAnchor, Inv, TypeOK
<1>4. ASSUME NEW a \in AnchorId, RemoveAnchor(a) PROVE Inv'
  <2>1. CASE a = active_anchor
    <3>1. active_anchor' \in anchors' /\ issued' = Append(issued, Visibility(active_anchor', owner'))
      BY <1>4, <2>1 DEF RemoveAnchor, Switched
    <3> QED
      BY <1>4, <3>1, OneMore DEF RemoveAnchor, Inv, TypeOK
  <2>2. CASE a # active_anchor
    <3>1. UNCHANGED <<active_anchor, issued, owner>> /\ active_anchor' \in anchors'
      BY <1>4, <2>2 DEF RemoveAnchor, Inv, TypeOK
    <3>2. Recorded' /\ Consistent'
      BY <3>1 DEF Inv, Recorded, Consistent, Visibility
    <3> QED
      BY <1>0, <1>4, <3>1, <3>2, GtkStep DEF RemoveAnchor, Inv, TypeOK
  <2> QED
    BY <2>1, <2>2
<1>5. ASSUME NEW a \in AnchorId, RemoveLastAnchor(a) PROVE Inv'
  <2>1. PICK b \in {a, next_id} \cap AnchorId :
          /\ anchors' = {b}
          /\ next_id' = IF b = a THEN next_id ELSE next_id + 1
          /\ active_anchor' = b
          /\ issued' = issued \o <<Visibility(None, owner), Visibility(b, owner)>>
    BY <1>5 DEF RemoveLastAnchor
  <2> DEFINE c == Visibility(None, owner)
             d == Visibility(b, owner)
  <2>2. /\ c \in Command /\ d \in Command
        /\ c.hide \cap c.show = {} /\ d.hide \cap d.show = {}
    BY VisibilityType
  <2>3. issued' = issued \o <<c, d>> /\ d = Visibility(active_anchor', owner')
    BY <1>5, <2>1 DEF RemoveLastAnchor
  <2> HIDE DEF c, d
  <2>4. /\ <<c, d>> \in Seq(Command) /\ Len(<<c, d>>) = 2
        /\ <<c, d>>[1] = c /\ <<c, d>>[2] = d
    BY <2>2
  <2>5. /\ issued' \in Seq(Command) /\ Len(issued') = Len(issued) + 2
        /\ \A i \in 1..Len(issued) + 2 :
              issued'[i] = IF i <= Len(issued) THEN issued[i] ELSE <<c, d>>[i - Len(issued)]
    BY <1>0, <2>3, <2>4, ConcatProperties
  <2>6. /\ DOMAIN issued' = 1..Len(issued) + 2
        /\ \A i \in DOMAIN issued : issued'[i] = issued[i]
        /\ issued'[Len(issued) + 1] = c /\ issued'[Len(issued) + 2] = d
    BY <1>0, <2>4, <2>5
  <2>7. Consistent'
    BY <1>0, <2>2, <2>6 DEF Inv, Consistent
  <2>8. Recorded'
    BY <1>0, <2>3, <2>5, <2>6 DEF Recorded
  <2> QED
    BY <1>0, <1>5, <2>1, <2>5, <2>6, <2>7, <2>8, GtkStep DEF RemoveLastAnchor, Inv, TypeOK
<1>6. ASSUME NEW w \in Windows, RegisterSatelliteWindow(w) PROVE Inv'
  <2>1. active_anchor' = active_anchor /\ owner' \in [Windows -> AnchorId \cup {None}]
    BY <1>6 DEF RegisterSatelliteWindow, Inv, TypeOK
  <2> QED
    BY <1>6, <2>1, OneMore DEF RegisterSatelliteWindow, Inv, TypeOK
<1>7. CASE Announce
  <2>1. TypeOK' /\ Recorded' /\ Consistent'
    BY <1>0, <1>7 DEF Announce, gtk, bridge, Inv, TypeOK, Recorded, Consistent, Visibility
  <2>2. Channel'
    BY <1>0, <1>7 DEF Announce, bridge, Inv, Channel
  <2>3. Applied'
    BY <1>0, <1>7 DEF Announce, gtk, bridge, Inv, Applied
  <2> QED
    BY <2>1, <2>2, <2>3 DEF Inv
<1>8. CASE Send
  <2>1. announced = sent + 1 /\ sent' = announced
    BY <1>0, <1>8 DEF Send, Inv, Channel
  <2>2. queue \in Seq(1..announced) /\ announced \in 1..announced
    BY <1>0, <2>1 DEF Inv, TypeOK
  <2>3. /\ queue' \in Seq(1..announced) /\ Len(queue') \in Nat
        /\ queue' # <<>> /\ queue'[Len(queue')] = announced
    BY <1>8, <2>2, AppendProperties DEF Send
  <2>4. TypeOK'
    BY <1>0, <1>8, <2>1, <2>3 DEF Send, gtk, bridge, Inv, TypeOK
  <2>5. Recorded' /\ Consistent' /\ Applied'
    BY <1>8 DEF Send, gtk, bridge, Inv, Recorded, Consistent, Applied, Visibility
  <2>6. Channel'
    BY <1>0, <1>8, <2>1, <2>3 DEF Send, Channel
  <2> QED
    BY <2>4, <2>5, <2>6 DEF Inv
<1>9. CASE Receive
  <2>1. Coalesced(queue) = sent /\ sent \in DOMAIN issued /\ taken <= sent
    BY <1>0, <1>9, CoalescedIn DEF Receive
  <2>2. /\ taken' = sent /\ current' = sent
        /\ hide' = issued[sent].hide /\ show' = issued[sent].show
        /\ failed' = {} /\ queue' = <<>>
        /\ UNCHANGED <<gtk, announced, sent, batched, pending, visible>>
    BY <1>0, <1>9, <2>1 DEF Receive
  <2>3. issued[sent] \in Command
    BY <1>0, <2>1
  <2>4. pending = {}
    BY <1>9 DEF Receive, Inv, TypeOK, Applied
  <2>5. TypeOK'
    BY <1>0, <2>1, <2>2, <2>3, <2>4 DEF gtk, Command, Inv, TypeOK
  <2>6. Recorded' /\ Consistent' /\ Channel'
    BY <2>2 DEF gtk, Inv, Recorded, Consistent, Channel, Visibility
  <2>7. Applied'
    BY <1>0, <2>1, <2>2 DEF gtk, Applied, None
  <2> QED
    BY <2>5, <2>6, <2>7 DEF Inv
<1>10. CASE Begin
  <2>1. pending' \subseteq hide \cup show
    BY <1>10 DEF Begin
  <2> QED
    BY <1>0, <1>10, <2>1 DEF Begin, gtk, Inv, TypeOK, Recorded, Consistent, Channel, Applied, Visibility
<1>11. CASE Finish
  <2>1. PICK bad \in SUBSET pending, done \in SUBSET pending :
          /\ failed' = failed \cup bad
          /\ visible' = (visible \ (((pending \ bad) \cup done) \cap hide))
                          \cup (((pending \ bad) \cup done) \cap show)
    BY <1>11 DEF Finish, Changed
  <2>2. /\ hide' = hide \ pending /\ show' = show \ pending /\ pending' = {}
        /\ UNCHANGED <<gtk, announced, sent, queue, batched, taken, current>>
    BY <1>11 DEF Finish
  <2>3. TypeOK'
    BY <2>1, <2>2 DEF gtk, Inv, TypeOK
  <2>4. Recorded' /\ Consistent' /\ Channel'
    BY <2>2 DEF gtk, Inv, Recorded, Consistent, Channel, Visibility
  <2>5. current # None /\ current = taken /\ taken \in DOMAIN issued
    BY <1>11, Applying DEF Finish
  <2>6. /\ hide \subseteq issued[taken].hide /\ show \subseteq issued[taken].show
        /\ issued[taken].hide \cap issued[taken].show = {}
    BY <2>5 DEF Inv, Applied, Consistent
  <2>7. ASSUME NEW w \in issued[taken].hide \ hide' PROVE w \notin visible' \/ w \in failed'
    BY <2>1, <2>2, <2>5, <2>6, <2>7 DEF Inv, Applied, None
  <2>8. ASSUME NEW w \in issued[taken].show \ show' PROVE w \in visible' \/ w \in failed'
    BY <2>1, <2>2, <2>5, <2>6, <2>8 DEF Inv, Applied, None
  <2>9. Applied'
    BY <2>2, <2>5, <2>6, <2>7, <2>8 DEF gtk, Applied
  <2> QED
    BY <2>3, <2>4, <2>9 DEF Inv
<1>12. CASE Leave
  <2>1. TypeOK' /\ Recorded' /\ Consistent' /\ Channel'
    BY <1>0, <1>12 DEF Leave, gtk, Inv, TypeOK, Recorded, Consistent, Channel, Visibility
  <2>2. current = taken
    BY <1>0, <1>12 DEF Leave
  <2>3. Applied'
    BY <1>0, <1>12, <2>2 DEF Leave, gtk, Stale, Inv, Applied
  <2> QED
    BY <2>1, <2>3 DEF Inv
<1> QED
  BY <1>1, <1>2, <1>3, <1>4, <1>5, <1>6, <1>7, <1>8, <1>9, <1>10, <1>11, <1>12 DEF Next

LEMMA InvAlways == Spec => []Inv
BY InvInit, InvNext, PTL DEF Spec

-----------------------------------------------------------------------------
\* At rest every attached window is where its anchor says, whatever the user and
\* the bridge thread did before (broadcast_satellite_visibility, drain).
THEOREM WindowsCorrect == Spec => []WindowsFollowAnchor
<1>1. Inv => WindowsFollowAnchor
  <2> SUFFICES ASSUME Inv, AtRest, NEW w \in Windows, owner[w] # None, w \notin failed
               PROVE  w \in visible <=> owner[w] = active_anchor
    BY DEF WindowsFollowAnchor
  <2>1. taken = sent /\ current = None /\ sent = Len(issued) /\ taken = announced
        /\ Len(issued) \in Nat
    BY DEF AtRest, GtkIdle, Inv, Channel, TypeOK, Command
  <2>2. issued # <<>> /\ taken # 0 /\ issued[taken] = Visibility(active_anchor, owner)
    BY <2>1, EmptySeq DEF Inv, Recorded, TypeOK
  <2>3. hide = {} /\ show = {}
    BY <2>1 DEF Inv, Applied
  <2> QED
    BY <2>1, <2>2, <2>3 DEF Inv, Applied, Visibility
<1> QED
  BY <1>1, InvAlways, PTL

\* The bridge implements WindowGroups: no window is ever moved by a switch older
\* than one already begun, nor by anything but a switch.
THEOREM BridgeCorrect == Spec => LatestWins
<1>1. Init => Groups!Init
  BY DEF Init, Groups!Init
<1>2. Inv /\ Inv' /\ [Next]_vars => [Groups!Ask \/ Groups!Serve]_Groups!vars
  <2> SUFFICES ASSUME Inv, Inv', [Next]_vars PROVE [Groups!Ask \/ Groups!Serve]_Groups!vars
    OBVIOUS
  <2>0. /\ issued \in Seq(Command) /\ Len(issued) \in Nat /\ DOMAIN issued = 1..Len(issued)
        /\ sent \in Nat /\ taken \in Nat /\ sent <= Len(issued)
        /\ issued' \in Seq(Command)
    BY DEF Inv, TypeOK, Command
  <2>1. ASSUME NEW c, issued' = Append(issued, c), UNCHANGED <<taken, visible>>
        PROVE  Groups!Ask
    BY <2>0, <2>1 DEF Groups!Ask
  <2>2. ASSUME UNCHANGED <<issued, taken, visible>> PROVE UNCHANGED Groups!vars
    BY <2>2 DEF Groups!vars
  <2>3. CASE UNCHANGED vars
    BY <2>2, <2>3 DEF vars, gtk, bridge
  <2>4. ASSUME NEW a \in AnchorId, SetActiveAnchor(a) PROVE Groups!Ask
    BY <2>1, <2>4 DEF SetActiveAnchor, Switched, bridge
  <2>5. CASE AddAnchor
    BY <2>1, <2>5 DEF AddAnchor, Switched, bridge
  <2>6. ASSUME NEW a \in AnchorId, RemoveAnchor(a) PROVE Groups!Ask \/ UNCHANGED Groups!vars
    BY <2>1, <2>2, <2>6 DEF RemoveAnchor, Switched, bridge
  <2>7. ASSUME NEW a \in AnchorId, RemoveLastAnchor(a) PROVE Groups!Ask
    <3>1. PICK b : issued' = issued \o <<Visibility(None, owner), Visibility(b, owner)>>
      BY <2>7 DEF RemoveLastAnchor
    <3>2. Visibility(None, owner) \in Command /\ Visibility(b, owner) \in Command
      BY VisibilityType
    <3> QED
      BY <2>0, <2>7, <3>1, <3>2 DEF RemoveLastAnchor, bridge, Groups!Ask
  <2>8. ASSUME NEW w \in Windows, RegisterSatelliteWindow(w) PROVE Groups!Ask
    BY <2>1, <2>8 DEF RegisterSatelliteWindow, bridge
  <2>9. CASE Announce \/ Send
    BY <2>2, <2>9 DEF Announce, Send, gtk, bridge
  <2>10. CASE Receive
    <3>1. Coalesced(queue) = sent /\ sent \in DOMAIN issued /\ taken <= sent
      BY <2>0, <2>10, CoalescedIn DEF Receive
    <3>2. taken' = sent /\ UNCHANGED <<issued, visible>>
      BY <2>0, <2>10, <3>1 DEF Receive, gtk
    <3>3. Groups!Serve
      BY <3>1, <3>2 DEF Groups!Serve
    <3> QED
      BY <3>3
  <2>11. CASE Begin \/ Leave
    BY <2>2, <2>11 DEF Begin, Leave, gtk
  <2>12. CASE Finish
    <3>1. /\ visible \ visible' \subseteq hide /\ visible' \ visible \subseteq show
          /\ UNCHANGED <<issued, taken>>
      BY <2>12 DEF Finish, Changed, gtk
    <3>2. current = taken /\ taken \in DOMAIN issued /\ current # None
      BY <2>12, Applying DEF Finish
    <3>3. hide \subseteq issued[taken].hide /\ show \subseteq issued[taken].show
      BY <3>2 DEF Inv, Applied
    <3> QED
      BY <2>0, <3>1, <3>2, <3>3 DEF Groups!Serve
  <2> QED
    BY <2>3, <2>4, <2>5, <2>6, <2>7, <2>8, <2>9, <2>10, <2>11, <2>12 DEF Next
<1> QED
  BY <1>1, <1>2, InvAlways, PTL DEF Spec, LatestWins, Groups!Spec
=============================================================================
