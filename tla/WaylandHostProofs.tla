-------------------------- MODULE WaylandHostProofs --------------------------
(* Theorems about WaylandHost, for all clients, sizes, surfaces and bounds:    *)
(* what the cockpit shows and where input goes, whatever is still queued.      *)
EXTENDS WaylandHost, FiniteSetTheorems, TLAPS

-----------------------------------------------------------------------------
(* Types *)

IdOrNone == SurfaceId \cup {None}
Spot == {0, 1}

Surface == [role : {"none", "toplevel", "popup"}, client : Clients \cup {None}, parent : IdOrNone,
            alive : BOOLEAN, tracked : BOOLEAN, announced : BOOLEAN, child : BOOLEAN,
            spot : Spot, framed : BOOLEAN, size : Nat]

Event == [kind : {"toplevel", "toplevel closed", "overlay closed"}, id : SurfaceId]
         \cup [kind : {"frame"}, id : SurfaceId, dmabuf : BOOLEAN]
         \cup [kind : {"overlay"}, id : SurfaceId, parent : SurfaceId, spot : Spot]
         \cup [kind : {"moved"}, id : SurfaceId, spot : Spot]

Command == [op : {"focus", "press"}, device : Device, id : IdOrNone]
           \cup [op : {"resize"}, id : SurfaceId, size : Nat]

Past == [refused : SUBSET SurfaceId, kept : SUBSET SurfaceId, unimported : SUBSET SurfaceId]

HostTypes ==
    /\ surfaces \in [SurfaceId -> Surface]
    /\ next_surface_id \in Nat
    /\ seat \in [Device -> IdOrNone]

CockpitTypes ==
    /\ surface_to_pane \subseteq SurfaceId /\ painted \subseteq SurfaceId /\ past \in Past
    /\ panes \subseteq SurfaceId \cup {Terminal} /\ leaves \subseteq SurfaceId \cup {Terminal}
    /\ popup_to_pane \in [SurfaceId -> IdOrNone] /\ overlay \in [SurfaceId -> IdOrNone]
    /\ place \in [SurfaceId -> Spot]
    /\ allocated \in [SurfaceId -> Nat] /\ last_configured \in [SurfaceId -> Nat]
    /\ at \in [Device -> IdOrNone]
    /\ scene \in Scene

TypeOK ==
    /\ HostTypes /\ CockpitTypes
    /\ event_queue \in Seq(Event) /\ command_queue \in Seq(Command)

-----------------------------------------------------------------------------
(* Sequences *)

\* Two queues one after the other
LEMMA Concat ==
    ASSUME NEW S, NEW q \in Seq(S), NEW r \in Seq(S)
    PROVE  /\ q \o r \in Seq(S) /\ Len(q \o r) = Len(q) + Len(r)
           /\ \A i \in DOMAIN q : i \in DOMAIN (q \o r) /\ (q \o r)[i] = q[i]
           /\ \A i \in DOMAIN r : Len(q) + i \in DOMAIN (q \o r) /\ (q \o r)[Len(q) + i] = r[i]
           /\ \A i \in DOMAIN (q \o r) :
                 \/ i \in DOMAIN q
                 \/ i > Len(q) /\ i - Len(q) \in DOMAIN r /\ (q \o r)[i] = r[i - Len(q)]
<1> DEFINE c == q \o r
<1>1. c \in Seq(S) /\ Len(c) = Len(q) + Len(r) OBVIOUS
<1>2. \A i \in 1..(Len(q) + Len(r)) : c[i] = IF i <= Len(q) THEN q[i] ELSE r[i - Len(q)] OBVIOUS
<1>3. /\ DOMAIN q = 1..Len(q) /\ DOMAIN r = 1..Len(r) /\ Len(q) \in Nat /\ Len(r) \in Nat
      /\ DOMAIN c = 1..(Len(q) + Len(r))
  BY <1>1
<1> HIDE DEF c
<1>4. \A i \in DOMAIN q : i \in DOMAIN c /\ c[i] = q[i] BY <1>2, <1>3
<1>5. \A i \in DOMAIN r : Len(q) + i \in DOMAIN c /\ c[Len(q) + i] = r[i]
  <2> TAKE i \in DOMAIN r
  <2>1. Len(q) + i \in 1..(Len(q) + Len(r)) /\ ~(Len(q) + i <= Len(q)) /\ Len(q) + i - Len(q) = i BY <1>3
  <2>2. QED BY <1>2, <1>3, <2>1
<1>6. \A i \in DOMAIN c : i \in DOMAIN q \/ (i > Len(q) /\ i - Len(q) \in DOMAIN r /\ c[i] = r[i - Len(q)])
  BY <1>2, <1>3
<1>7. QED BY <1>1, <1>4, <1>5, <1>6 DEF c

\* A queue without its head
LEMMA Popped ==
    ASSUME NEW S, NEW q \in Seq(S), q # <<>>
    PROVE  /\ Tail(q) \in Seq(S) /\ Head(q) = q[1] /\ 1 \in DOMAIN q /\ Head(q) \in S
           /\ Len(Tail(q)) = Len(q) - 1
           /\ \A i \in DOMAIN Tail(q) : i + 1 \in DOMAIN q /\ Tail(q)[i] = q[i + 1]
           /\ \A i \in DOMAIN q : i = 1 \/ (i - 1 \in DOMAIN Tail(q) /\ Tail(q)[i - 1] = q[i])
OBVIOUS

-----------------------------------------------------------------------------
(* What is queued about a surface *)

Is(e, k, s) == e.kind = k /\ e.id = s
Has(q, k, s) == \E i \in DOMAIN q : Is(q[i], k, s)

\* all events of one kind are before those of another
Before(q, k, s, l, t) == \A i, j \in DOMAIN q : Is(q[i], k, s) /\ Is(q[j], l, t) => i < j

\* s is put on its satellite once, which is p
Once(q, s) == \A i, j \in DOMAIN q : Is(q[i], "overlay", s) /\ Is(q[j], "overlay", s) => i = j
OnParent(q, s, p) == \A i \in DOMAIN q : Is(q[i], "overlay", s) => q[i].parent = p

\* the last event that places s puts it where it wants to be
Places(e, s) == Is(e, "overlay", s) \/ Is(e, "moved", s)
HasPlace(q, s) == \E i \in DOMAIN q : Places(q[i], s)
LastPlace(q, s, spot) ==
    \A i \in DOMAIN q :
        Places(q[i], s) /\ (\A j \in DOMAIN q : Places(q[j], s) => j <= i) => q[i].spot = spot

\* What is queued after more events: what was queued, and those
LEMMA HasConcat ==
    ASSUME NEW S, NEW q \in Seq(S), NEW r \in Seq(S), NEW k, NEW s
    PROVE  Has(q \o r, k, s) <=> Has(q, k, s) \/ Has(r, k, s)
<1>1. ASSUME NEW i \in DOMAIN q, Is(q[i], k, s) PROVE Has(q \o r, k, s)
  <2>1. i \in DOMAIN (q \o r) /\ (q \o r)[i] = q[i] BY Concat
  <2>2. QED BY <1>1, <2>1 DEF Has
<1>2. ASSUME NEW i \in DOMAIN r, Is(r[i], k, s) PROVE Has(q \o r, k, s)
  <2>1. Len(q) + i \in DOMAIN (q \o r) /\ (q \o r)[Len(q) + i] = r[i] BY Concat
  <2>2. QED BY <1>2, <2>1, Zenon DEF Has
<1>3. ASSUME NEW i \in DOMAIN (q \o r), Is((q \o r)[i], k, s) PROVE Has(q, k, s) \/ Has(r, k, s)
  <2>1. CASE i \in DOMAIN q
    <3>1. (q \o r)[i] = q[i] BY <2>1, Concat
    <3>2. QED BY <1>3, <2>1, <3>1, Zenon DEF Has
  <2>2. CASE i \notin DOMAIN q
    <3>1. i - Len(q) \in DOMAIN r /\ (q \o r)[i] = r[i - Len(q)] BY <2>2, Concat
    <3>2. QED BY <1>3, <3>1, Zenon DEF Has
  <2>3. QED BY <2>1, <2>2
<1>4. QED BY <1>1, <1>2, <1>3 DEF Has

\* ... and of where it is put
LEMMA PlaceConcat ==
    ASSUME NEW S, NEW q \in Seq(S), NEW r \in Seq(S), NEW s
    PROVE  HasPlace(q \o r, s) <=> HasPlace(q, s) \/ HasPlace(r, s)
<1>1. ASSUME NEW i \in DOMAIN q, Places(q[i], s) PROVE HasPlace(q \o r, s)
  <2>1. i \in DOMAIN (q \o r) /\ (q \o r)[i] = q[i] BY Concat
  <2>2. QED BY <1>1, <2>1 DEF HasPlace
<1>2. ASSUME NEW i \in DOMAIN r, Places(r[i], s) PROVE HasPlace(q \o r, s)
  <2>1. Len(q) + i \in DOMAIN (q \o r) /\ (q \o r)[Len(q) + i] = r[i] BY Concat
  <2>2. QED BY <1>2, <2>1, Zenon DEF HasPlace
<1>3. ASSUME NEW i \in DOMAIN (q \o r), Places((q \o r)[i], s) PROVE HasPlace(q, s) \/ HasPlace(r, s)
  <2>1. CASE i \in DOMAIN q
    <3>1. (q \o r)[i] = q[i] BY <2>1, Concat
    <3>2. QED BY <1>3, <2>1, <3>1, Zenon DEF HasPlace
  <2>2. CASE i \notin DOMAIN q
    <3>1. i - Len(q) \in DOMAIN r /\ (q \o r)[i] = r[i - Len(q)] BY <2>2, Concat
    <3>2. QED BY <1>3, <3>1, Zenon DEF HasPlace
  <2>3. QED BY <2>1, <2>2
<1>4. QED BY <1>1, <1>2, <1>3 DEF HasPlace

\* Orders are kept, when nothing belated is queued
LEMMA BeforeConcat ==
    ASSUME NEW S, NEW q \in Seq(S), NEW r \in Seq(S), NEW k, NEW s, NEW l, NEW t,
           Before(q, k, s, l, t), Before(r, k, s, l, t), ~Has(r, k, s) \/ ~Has(q, l, t)
    PROVE  Before(q \o r, k, s, l, t)
<1> DEFINE c == q \o r
<1>1. /\ \A i \in DOMAIN q : i <= Len(q) /\ i \in Nat /\ c[i] = q[i]
      /\ \A i \in DOMAIN c : i \in Nat /\
            (i \in DOMAIN q \/ (i > Len(q) /\ i - Len(q) \in DOMAIN r /\ c[i] = r[i - Len(q)]))
      /\ Len(q) \in Nat
  BY Concat
<1> HIDE DEF c
<1> SUFFICES ASSUME NEW i \in DOMAIN c, NEW j \in DOMAIN c, Is(c[i], k, s), Is(c[j], l, t) PROVE i < j
  BY DEF Before, c
<1>2. CASE i \in DOMAIN q /\ j \in DOMAIN q BY <1>1, <1>2 DEF Before
<1>3. CASE i \in DOMAIN q /\ j \notin DOMAIN q BY <1>1, <1>3
<1>4. CASE i \notin DOMAIN q /\ j \in DOMAIN q
  <2>1. Has(r, k, s) /\ Has(q, l, t) BY <1>1, <1>4 DEF Has
  <2>2. QED BY <2>1
<1>5. CASE i \notin DOMAIN q /\ j \notin DOMAIN q
  <2>1. i - Len(q) < j - Len(q) BY <1>1, <1>5 DEF Before
  <2>2. QED BY <1>1, <2>1
<1>6. QED BY <1>2, <1>3, <1>4, <1>5

\* It is put there once, if it was or is
LEMMA OnceConcat ==
    ASSUME NEW S, NEW q \in Seq(S), NEW r \in Seq(S), NEW s, Once(q, s), Once(r, s),
           ~Has(r, "overlay", s) \/ ~Has(q, "overlay", s)
    PROVE  Once(q \o r, s)
<1> DEFINE c == q \o r
<1>1. /\ \A i \in DOMAIN q : c[i] = q[i]
      /\ \A i \in DOMAIN c : i \in Nat /\
            (i \in DOMAIN q \/ (i - Len(q) \in DOMAIN r /\ c[i] = r[i - Len(q)]))
      /\ Len(q) \in Nat
  BY Concat
<1> HIDE DEF c
<1> SUFFICES ASSUME NEW i \in DOMAIN c, NEW j \in DOMAIN c, Is(c[i], "overlay", s), Is(c[j], "overlay", s)
             PROVE  i = j
  BY DEF Once, c
<1>2. CASE i \in DOMAIN q /\ j \in DOMAIN q BY <1>1, <1>2 DEF Once
<1>3. CASE i \notin DOMAIN q /\ j \notin DOMAIN q
  <2>1. i - Len(q) = j - Len(q) BY <1>1, <1>3 DEF Once
  <2>2. QED BY <1>1, <2>1
<1>4. CASE ~(i \in DOMAIN q <=> j \in DOMAIN q)
  <2>1. Has(r, "overlay", s) /\ Has(q, "overlay", s) BY <1>1, <1>4 DEF Has
  <2>2. QED BY <2>1
<1>5. QED BY <1>2, <1>3, <1>4

\* ... and where its parent is
LEMMA OnParentConcat ==
    ASSUME NEW S, NEW q \in Seq(S), NEW r \in Seq(S), NEW s, NEW p, OnParent(q, s, p), OnParent(r, s, p)
    PROVE  OnParent(q \o r, s, p)
BY Concat DEF OnParent

\* The last place is the right one, when the later events place it or leave it
LEMMA LastPlaceConcat ==
    ASSUME NEW S, NEW q \in Seq(S), NEW r \in Seq(S), NEW s, NEW spot,
           HasPlace(r, s) \/ LastPlace(q, s, spot), LastPlace(r, s, spot)
    PROVE  LastPlace(q \o r, s, spot)
<1> DEFINE c == q \o r
<1>1. /\ \A i \in DOMAIN q : c[i] = q[i] /\ i \in DOMAIN c
      /\ \A i \in DOMAIN q : i \in Nat /\ i <= Len(q)
      /\ \A i \in DOMAIN r : Len(q) + i \in DOMAIN c /\ c[Len(q) + i] = r[i]
      /\ \A i \in DOMAIN r : i \in Nat /\ i > 0
      /\ \A i \in DOMAIN c : i \in Nat /\
            (i \in DOMAIN q \/ (i > Len(q) /\ i - Len(q) \in DOMAIN r /\ c[i] = r[i - Len(q)]))
      /\ Len(q) \in Nat
  BY Concat
<1> HIDE DEF c
<1> SUFFICES ASSUME NEW i \in DOMAIN c, Places(c[i], s), \A j \in DOMAIN c : Places(c[j], s) => j <= i
             PROVE  c[i].spot = spot
  BY DEF LastPlace, c
<1>2. CASE i \in DOMAIN q
  <2>1. ~HasPlace(r, s)
    <3> SUFFICES ASSUME NEW j \in DOMAIN r, Places(r[j], s) PROVE FALSE
      BY DEF HasPlace
    <3>1. Len(q) + j \in DOMAIN c /\ Places(c[Len(q) + j], s) BY <1>1
    <3>2. Len(q) + j <= i BY <3>1
    <3>3. QED BY <1>1, <1>2, <3>2
  <2>2. \A j \in DOMAIN q : Places(q[j], s) => j <= i BY <1>1
  <2>3. QED BY <1>1, <1>2, <2>1, <2>2 DEF LastPlace
<1>3. CASE i \notin DOMAIN q
  <2> DEFINE m == i - Len(q)
  <2>1. m \in DOMAIN r /\ c[i] = r[m] /\ m \in Int /\ i = Len(q) + m BY <1>1, <1>3
  <2> HIDE DEF m
  <2>2. ASSUME NEW j \in DOMAIN r, Places(r[j], s) PROVE j <= m
    <3>1. Len(q) + j \in DOMAIN c /\ Places(c[Len(q) + j], s) BY <1>1, <2>2
    <3>2. Len(q) + j <= Len(q) + m BY <2>1, <3>1
    <3>3. QED BY <1>1, <2>1, <3>2
  <2>3. QED BY <2>1, <2>2 DEF LastPlace
<1>4. QED BY <1>2, <1>3

\* A queue without its head: what was queued is the head or still queued
LEMMA HasTail ==
    ASSUME NEW S, NEW q \in Seq(S), q # <<>>, NEW k, NEW s
    PROVE  Has(q, k, s) <=> Is(Head(q), k, s) \/ Has(Tail(q), k, s)
<1>1. ASSUME Is(Head(q), k, s) \/ Has(Tail(q), k, s) PROVE Has(q, k, s) BY <1>1, Popped DEF Has
<1>2. ASSUME Has(q, k, s) PROVE Is(Head(q), k, s) \/ Has(Tail(q), k, s) BY <1>2, Popped DEF Has
<1>3. QED BY <1>1, <1>2

\* ... and so with places
LEMMA PlaceTail ==
    ASSUME NEW S, NEW q \in Seq(S), q # <<>>, NEW s
    PROVE  HasPlace(q, s) <=> Places(Head(q), s) \/ HasPlace(Tail(q), s)
<1>1. ASSUME Places(Head(q), s) \/ HasPlace(Tail(q), s) PROVE HasPlace(q, s) BY <1>1, Popped DEF HasPlace
<1>2. ASSUME HasPlace(q, s) PROVE Places(Head(q), s) \/ HasPlace(Tail(q), s) BY <1>2, Popped DEF HasPlace
<1>3. QED BY <1>1, <1>2

\* Orders are kept; and nothing that has to be before the head is queued
LEMMA BeforeTail ==
    ASSUME NEW S, NEW q \in Seq(S), q # <<>>, NEW k, NEW s, NEW l, NEW t, Before(q, k, s, l, t)
    PROVE  /\ Before(Tail(q), k, s, l, t)
           /\ Is(Head(q), l, t) => ~Has(q, k, s)
<1>1. DOMAIN q \subseteq 1..Len(q) /\ Len(q) \in Nat /\ DOMAIN Tail(q) \subseteq Nat BY Popped
<1>2. ASSUME NEW i \in DOMAIN Tail(q), NEW j \in DOMAIN Tail(q), Is(Tail(q)[i], k, s), Is(Tail(q)[j], l, t)
      PROVE  i < j
  <2>1. i + 1 < j + 1 BY <1>2, Popped DEF Before
  <2>2. QED BY <1>1, <2>1
<1>3. ASSUME Is(Head(q), l, t), NEW i \in DOMAIN q, Is(q[i], k, s) PROVE FALSE
  <2>1. i < 1 BY <1>3, Popped DEF Before
  <2>2. QED BY <1>1, <2>1
<1>4. QED BY <1>2, <1>3 DEF Before, Has

\* A surface that is put on its satellite now is not put there again
LEMMA OnceTail ==
    ASSUME NEW S, NEW q \in Seq(S), q # <<>>, NEW s, Once(q, s)
    PROVE  /\ Once(Tail(q), s)
           /\ Is(Head(q), "overlay", s) => ~Has(Tail(q), "overlay", s)
<1>1. DOMAIN Tail(q) \subseteq Nat \ {0} BY Popped
<1>2. ASSUME NEW i \in DOMAIN Tail(q), NEW j \in DOMAIN Tail(q), Is(Tail(q)[i], "overlay", s),
             Is(Tail(q)[j], "overlay", s)
      PROVE  i = j
  <2>1. i + 1 = j + 1 BY <1>2, Popped DEF Once
  <2>2. QED BY <1>1, <2>1
<1>3. ASSUME Is(Head(q), "overlay", s), NEW i \in DOMAIN Tail(q), Is(Tail(q)[i], "overlay", s) PROVE FALSE
  <2>1. i + 1 = 1 BY <1>3, Popped DEF Once
  <2>2. QED BY <1>1, <2>1
<1>4. QED BY <1>2, <1>3 DEF Once, Has

\* ... but on its parent
LEMMA OnParentTail ==
    ASSUME NEW S, NEW q \in Seq(S), q # <<>>, NEW s, NEW p, OnParent(q, s, p)
    PROVE  /\ OnParent(Tail(q), s, p)
           /\ Is(Head(q), "overlay", s) => Head(q).parent = p
BY Popped DEF OnParent

\* The last event that places it says where it is
LEMMA LastPlaceTail ==
    ASSUME NEW S, NEW q \in Seq(S), q # <<>>, NEW s, NEW spot, LastPlace(q, s, spot)
    PROVE  /\ LastPlace(Tail(q), s, spot)
           /\ Places(Head(q), s) /\ ~HasPlace(Tail(q), s) => Head(q).spot = spot
<1>1. DOMAIN Tail(q) \subseteq Nat \ {0} /\ DOMAIN q \subseteq Nat \ {0} BY Popped
<1>2. ASSUME NEW i \in DOMAIN Tail(q), Places(Tail(q)[i], s),
             \A j \in DOMAIN Tail(q) : Places(Tail(q)[j], s) => j <= i
      PROVE  Tail(q)[i].spot = spot
  <2>1. i + 1 \in DOMAIN q /\ q[i + 1] = Tail(q)[i] BY Popped
  <2>2. ASSUME NEW j \in DOMAIN q, Places(q[j], s) PROVE j <= i + 1
    <3>1. CASE j = 1 BY <1>1, <3>1
    <3>2. CASE j # 1
      <4>1. j - 1 <= i BY <1>2, <2>2, <3>2, Popped
      <4>2. QED BY <1>1, <4>1
    <3>3. QED BY <3>1, <3>2
  <2>3. QED BY <1>2, <2>1, <2>2 DEF LastPlace
<1>3. ASSUME Places(Head(q), s), ~HasPlace(Tail(q), s) PROVE Head(q).spot = spot
  <2>1. \A j \in DOMAIN q : Places(q[j], s) => j <= 1
    <3> TAKE j \in DOMAIN q
    <3>1. j # 1 => ~Places(q[j], s) BY <1>3, Popped DEF HasPlace
    <3>2. QED BY <1>1, <3>1
  <2>2. QED BY <1>3, <2>1, Popped DEF LastPlace
<1>4. QED BY <1>2, <1>3 DEF LastPlace

-----------------------------------------------------------------------------
(* The invariant *)

\* drawn on a satellite rather than in a pane of its own
Over(s) == surfaces[s].role = "popup" \/ surfaces[s].child

Kinds == {"toplevel", "toplevel closed", "overlay", "moved", "overlay closed", "frame"}

\* What the host knows of its surfaces: a parent was announced before its child
HostOK ==
    \A s \in SurfaceId :
        /\ s >= next_surface_id => surfaces[s] = Unused
        /\ surfaces[s].announced \/ surfaces[s].tracked => surfaces[s].role # "none"
        /\ surfaces[s].framed => surfaces[s].announced
        /\ Over(s) => surfaces[s].parent # None /\ surfaces[s].role # "none"
        /\ surfaces[s].parent # None => surfaces[surfaces[s].parent].announced
        /\ surfaces[s].role = "toplevel" => surfaces[s].spot = 0

\* What is queued is about what is announced, and of its kind; and who is gone is
\* taken off again
Queued(s) ==
    /\ \A k \in Kinds : Has(event_queue, k, s) => surfaces[s].role # "none"
    /\ Has(event_queue, "toplevel", s) => surfaces[s].announced /\ ~Over(s)
    /\ Has(event_queue, "overlay", s) => surfaces[s].announced /\ Over(s)
    /\ Has(event_queue, "frame", s) => surfaces[s].framed
    /\ Has(event_queue, "toplevel closed", s) \/ Has(event_queue, "overlay closed", s) => s \notin Tracked
    /\ Has(event_queue, "toplevel", s) => s \in Tracked \/ Has(event_queue, "toplevel closed", s)
    /\ Has(event_queue, "overlay", s) => s \in Tracked \/ Has(event_queue, "overlay closed", s)
    /\ surfaces[s].framed /\ (Has(event_queue, "toplevel", s) \/ Has(event_queue, "overlay", s))
         => Has(event_queue, "frame", s)
    /\ surfaces[s].announced /\ Over(s) /\ Has(event_queue, "toplevel", surfaces[s].parent)
         => Has(event_queue, "overlay", s)

\* ... and in order: a surface, its frames, its end; a parent before what is on it
InOrder(s) ==
    /\ Before(event_queue, "toplevel", s, "toplevel closed", s)
    /\ Before(event_queue, "overlay", s, "overlay closed", s)
    /\ Before(event_queue, "toplevel", s, "frame", s)
    /\ Before(event_queue, "overlay", s, "frame", s)
    /\ Before(event_queue, "toplevel", surfaces[s].parent, "overlay", s)
    /\ Once(event_queue, s)
    /\ OnParent(event_queue, s, surfaces[s].parent)
    /\ LastPlace(event_queue, s, surfaces[s].spot)

EventsOK == \A s \in SurfaceId : Queued(s) /\ InOrder(s)

\* A pane or an overlay is of a surface that was announced as such, and what of it
\* is gone will be taken off, but for a pane that was kept
OnRecord(s) ==
    /\ s \in surface_to_pane \cup panes => surfaces[s].announced /\ ~Over(s)
    /\ popup_to_pane[s] # None \/ overlay[s] # None => surfaces[s].announced /\ Over(s)
    /\ overlay[s] \in {None, surfaces[s].parent}
    /\ Has(event_queue, "overlay", s) => overlay[s] = None
    /\ s \in surface_to_pane => s \in Tracked \/ Has(event_queue, "toplevel closed", s)
    /\ s \in surface_to_pane => s \in panes
    /\ s \in panes => s \in surface_to_pane \/ s \in past.kept
    /\ s \in past.kept => surfaces[s].role # "none" /\ s \notin Tracked
    /\ popup_to_pane[s] # None \/ overlay[s] # None => s \in Tracked \/ Has(event_queue, "overlay closed", s)

\* What is announced is shown or on its way
Shown(s) ==
    s \in Tracked /\ surfaces[s].announced =>
        /\ ~Over(s) => s \in surface_to_pane \/ s \in past.refused \/ Has(event_queue, "toplevel", s)
        /\ Over(s) /\ surfaces[s].parent \in surface_to_pane
             => overlay[s] = surfaces[s].parent \/ Has(event_queue, "overlay", s)

\* ... and so are its place and its pixels
Drawn(s) ==
    /\ overlay[s] # None /\ ~HasPlace(event_queue, s) => place[s] = surfaces[s].spot
    /\ s \in Tracked /\ surfaces[s].framed /\ (s \in panes \/ overlay[s] # None)
         => s \in painted \/ s \in past.unimported \/ Has(event_queue, "frame", s)

PanesOK == \A s \in SurfaceId : OnRecord(s) /\ Shown(s) /\ Drawn(s)

ShowInv == TypeOK /\ HostOK /\ EventsOK /\ PanesOK

-----------------------------------------------------------------------------
(* The host thread *)

\* What a step of it may do to a surface, and what it has to say of it
Grows(s) ==
    /\ surfaces[s].role # "none" =>
         /\ surfaces'[s].role = surfaces[s].role /\ surfaces'[s].parent = surfaces[s].parent
         /\ surfaces'[s].tracked => surfaces[s].tracked
    /\ surfaces[s].announced => surfaces'[s].announced /\ surfaces'[s].child = surfaces[s].child
    /\ surfaces[s].framed => surfaces'[s].framed
    /\ surfaces'[s].parent # None => surfaces[surfaces'[s].parent].announced

Says(es, s) ==
    /\ \A k \in Kinds : Has(es, k, s) => surfaces[s].role # "none"
    /\ Has(es, "toplevel", s) \/ Has(es, "overlay", s) => ~surfaces[s].announced /\ surfaces'[s].tracked
    /\ Has(es, "toplevel", s) => surfaces'[s].announced /\ ~Over(s)'
    /\ Has(es, "overlay", s) => surfaces'[s].announced /\ Over(s)'
    /\ surfaces'[s].announced => surfaces[s].announced \/ (IF Over(s)' THEN Has(es, "overlay", s) ELSE Has(es, "toplevel", s))
    /\ Has(es, "frame", s) => surfaces'[s].framed
    /\ surfaces'[s].framed => surfaces[s].framed \/ Has(es, "frame", s)
    /\ Has(es, "toplevel closed", s) \/ Has(es, "overlay closed", s) => ~surfaces'[s].tracked
    /\ surfaces[s].tracked => surfaces'[s].tracked
                              \/ (IF Over(s) THEN Has(es, "overlay closed", s) ELSE Has(es, "toplevel closed", s))
    /\ surfaces'[s].spot = surfaces[s].spot \/ HasPlace(es, s)

SaysInOrder(es, s) ==
    /\ Before(es, "toplevel", s, "frame", s) /\ Before(es, "overlay", s, "frame", s)
    /\ Once(es, s) /\ OnParent(es, s, surfaces'[s].parent) /\ LastPlace(es, s, surfaces'[s].spot)

HostStep(es) ==
    /\ es \in Seq(Event) /\ event_queue' = event_queue \o es
    /\ surfaces' \in [SurfaceId -> Surface] /\ next_surface_id' \in Nat
    /\ HostOK'
    /\ \A s \in SurfaceId : Grows(s) /\ Says(es, s) /\ SaysInOrder(es, s)
    /\ UNCHANGED paneVars

\* Ids are numbers above None, and below the terminal's
LEMMA Ids ==
    /\ SurfaceId \subseteq Nat /\ None \notin SurfaceId /\ None \in IdOrNone
    /\ Terminal \notin SurfaceId
BY HostAssumption DEF SurfaceId, None, IdOrNone, Terminal

\* Only two kinds of event place a surface
LEMMA PlaceKinds ==
    ASSUME NEW q, NEW s
    PROVE  HasPlace(q, s) <=> Has(q, "overlay", s) \/ Has(q, "moved", s)
BY DEF HasPlace, Places, Has

\* An order of what is not there
LEMMA BeforeNone ==
    ASSUME NEW q, NEW k, NEW s, NEW l, NEW t, ~Has(q, k, s) \/ ~Has(q, l, t)
    PROVE  Before(q, k, s, l, t)
BY DEF Before, Has

\* What is queued stays right when a step of the host adds to it
LEMMA HostStepEvents ==
    ASSUME TypeOK, HostOK, EventsOK, NEW es, HostStep(es) PROVE EventsOK'
<1> DEFINE q == event_queue
           c == event_queue'
<1>1. /\ q \in Seq(Event) /\ es \in Seq(Event) /\ c = q \o es
      /\ surfaces \in [SurfaceId -> Surface] /\ surfaces' \in [SurfaceId -> Surface]
      /\ Tracked = {s \in SurfaceId : surfaces[s].tracked}
      /\ Tracked' = {s \in SurfaceId : surfaces'[s].tracked}
  BY DEF TypeOK, HostTypes, HostStep, Tracked
<1> SUFFICES ASSUME NEW s \in SurfaceId PROVE Queued(s)' /\ InOrder(s)'
  BY DEF EventsOK
<1> DEFINE v == surfaces[s]
           w == surfaces'[s]
<1>2. \A k \in Kinds : \A t : Has(c, k, t) <=> Has(q, k, t) \/ Has(es, k, t)
  BY <1>1, HasConcat
<1>3. Queued(s) /\ InOrder(s) /\ Grows(s) /\ Says(es, s) /\ SaysInOrder(es, s)
  BY DEF EventsOK, HostStep
<1>4. /\ v.announced \/ v.tracked => v.role # "none"
      /\ Over(s) => v.parent # None
      /\ Over(s)' => w.parent # None
      /\ v.framed => v.announced
  BY DEF HostOK, HostStep
<1>5. w.parent # None => w.parent \in SurfaceId /\ ~Has(es, "toplevel", w.parent)
  <2>1. ASSUME w.parent # None PROVE w.parent \in SurfaceId
    BY <1>1, <2>1 DEF Surface, IdOrNone
  <2>2. ASSUME w.parent # None PROVE ~Has(es, "toplevel", w.parent)
    BY <1>3, <2>1, <2>2 DEF HostStep, Says, Grows
  <2>3. QED BY <2>1, <2>2
<1>6. v.announced => (Over(s)' <=> Over(s)) BY <1>3, <1>4 DEF Grows, Over
<1>7. Queued(s)'
  <2>1. \A k \in Kinds : Has(c, k, s) => w.role # "none"
    BY <1>2, <1>3 DEF Queued, Says, Grows
  <2> HIDE DEF q, c, v, w
  <2>2. {"toplevel", "overlay", "frame", "toplevel closed", "overlay closed"} \subseteq Kinds BY DEF Kinds
  <2>3. Has(c, "toplevel", s) => w.announced /\ ~Over(s)'
    BY <1>2, <1>3, <1>6, <2>2 DEF Queued, Says, Grows, q, c, v, w
  <2>4. Has(c, "overlay", s) => w.announced /\ Over(s)'
    BY <1>2, <1>3, <1>6, <2>2 DEF Queued, Says, Grows, q, c, v, w
  <2>5. Has(c, "frame", s) => w.framed
    BY <1>2, <1>3, <2>2 DEF Queued, Says, Grows, q, c, v, w
  <2>6. Has(c, "toplevel closed", s) \/ Has(c, "overlay closed", s) => ~w.tracked
    BY <1>1, <1>2, <1>3, <2>2 DEF Queued, Says, Grows, q, c, v, w
  <2>7. Has(c, "toplevel", s) => w.tracked \/ Has(c, "toplevel closed", s)
    BY <1>1, <1>2, <1>3, <2>2 DEF Queued, Says, q, c, v, w
  <2>8. Has(c, "overlay", s) => w.tracked \/ Has(c, "overlay closed", s)
    BY <1>1, <1>2, <1>3, <2>2 DEF Queued, Says, q, c, v, w
  <2>9. w.framed /\ (Has(c, "toplevel", s) \/ Has(c, "overlay", s)) => Has(c, "frame", s)
    BY <1>2, <1>3, <1>4, <2>2 DEF Queued, Says, q, c, v, w
  <2>10. w.announced /\ Over(s)' /\ Has(c, "toplevel", w.parent) => Has(c, "overlay", s)
    <3>1. CASE v.announced
      BY <1>2, <1>3, <1>4, <1>5, <1>6, <2>2, <3>1 DEF Queued, Grows, q, c, v, w
    <3>2. CASE ~v.announced
      BY <1>2, <1>3, <2>2, <3>2 DEF Says, q, c, v, w
    <3>3. QED BY <3>1, <3>2
  <2>11. QED
    BY <1>1, <2>1, <2>3, <2>4, <2>5, <2>6, <2>7, <2>8, <2>9, <2>10 DEF Queued, c, w
<1>8. InOrder(s)'
  <2>0. {"toplevel", "overlay", "frame", "toplevel closed", "overlay closed"} \subseteq Kinds BY DEF Kinds
  <2>1. Before(c, "toplevel", s, "toplevel closed", s)
    <3>1. ~Has(es, "toplevel", s) \/ ~Has(es, "toplevel closed", s) BY <1>3 DEF Says
    <3>2. ~Has(es, "toplevel", s) \/ ~Has(q, "toplevel closed", s)
      BY <1>1, <1>3, <2>0 DEF Says, Queued, Grows
    <3>3. Before(q, "toplevel", s, "toplevel closed", s) BY <1>3 DEF InOrder
    <3>4. Before(es, "toplevel", s, "toplevel closed", s) BY <3>1, BeforeNone
    <3> HIDE DEF q, c
    <3>5. QED BY <1>1, <3>2, <3>3, <3>4, BeforeConcat
  <2>2. Before(c, "overlay", s, "overlay closed", s)
    <3>1. ~Has(es, "overlay", s) \/ ~Has(es, "overlay closed", s) BY <1>3 DEF Says
    <3>2. ~Has(es, "overlay", s) \/ ~Has(q, "overlay closed", s)
      BY <1>1, <1>3, <2>0 DEF Says, Queued, Grows
    <3>3. Before(q, "overlay", s, "overlay closed", s) BY <1>3 DEF InOrder
    <3>4. Before(es, "overlay", s, "overlay closed", s) BY <3>1, BeforeNone
    <3> HIDE DEF q, c
    <3>5. QED BY <1>1, <3>2, <3>3, <3>4, BeforeConcat
  <2>3. Before(c, "toplevel", s, "frame", s) /\ Before(c, "overlay", s, "frame", s)
    <3>1. (~Has(es, "toplevel", s) /\ ~Has(es, "overlay", s)) \/ ~Has(q, "frame", s)
      BY <1>3, <1>4 DEF Says, Queued
    <3>2. /\ Before(q, "toplevel", s, "frame", s) /\ Before(es, "toplevel", s, "frame", s)
          /\ Before(q, "overlay", s, "frame", s) /\ Before(es, "overlay", s, "frame", s)
      BY <1>3 DEF InOrder, SaysInOrder
    <3> HIDE DEF q, c
    <3>3. QED BY <1>1, <3>1, <3>2, BeforeConcat
  <2>4. Before(c, "toplevel", w.parent, "overlay", s)
    <3>1. CASE Has(c, "overlay", s)
      <4>1. Over(s)' /\ v.role # "none"
        BY <1>2, <1>3, <1>6, <2>0, <3>1 DEF Queued, Says
      <4>2. w.parent = v.parent /\ ~Has(es, "toplevel", w.parent)
        BY <1>3, <1>4, <1>5, <4>1 DEF Grows
      <4>3. Before(q, "toplevel", w.parent, "overlay", s) /\ Before(es, "toplevel", w.parent, "overlay", s)
        BY <1>3, <4>2, BeforeNone DEF InOrder
      <4> HIDE DEF q, c, w
      <4>4. QED BY <1>1, <4>2, <4>3, BeforeConcat
    <3>2. CASE ~Has(c, "overlay", s) BY <3>2, BeforeNone
    <3>3. QED BY <3>1, <3>2
  <2>5. Once(c, s)
    <3>1. ~Has(es, "overlay", s) \/ ~Has(q, "overlay", s) BY <1>3 DEF Queued, Says
    <3>2. Once(q, s) /\ Once(es, s) BY <1>3 DEF InOrder, SaysInOrder
    <3> HIDE DEF q, c
    <3>3. QED BY <1>1, <3>1, <3>2, OnceConcat
  <2>6. OnParent(c, s, w.parent)
    <3>1. OnParent(q, s, w.parent)
      <4>1. CASE Has(q, "overlay", s) BY <1>3, <2>0, <4>1 DEF Queued, Grows, InOrder
      <4>2. CASE ~Has(q, "overlay", s) BY <4>2 DEF OnParent, Has
      <4>3. QED BY <4>1, <4>2
    <3>2. OnParent(es, s, w.parent) BY <1>3 DEF SaysInOrder
    <3> HIDE DEF q, c, w
    <3>3. QED BY <1>1, <3>1, <3>2, OnParentConcat
  <2>7. LastPlace(c, s, w.spot)
    <3>1. HasPlace(es, s) \/ LastPlace(q, s, w.spot) BY <1>3 DEF Says, InOrder
    <3>2. LastPlace(es, s, w.spot) BY <1>3 DEF SaysInOrder
    <3> HIDE DEF q, c, w
    <3>3. QED BY <1>1, <3>1, <3>2, LastPlaceConcat
  <2>8. QED BY <2>1, <2>2, <2>3, <2>4, <2>5, <2>6, <2>7 DEF InOrder
<1>9. QED BY <1>7, <1>8

\* ... and so does what is shown, which the step leaves alone
LEMMA HostStepPanes ==
    ASSUME TypeOK, HostOK, EventsOK, PanesOK, NEW es, HostStep(es) PROVE PanesOK'
<1> DEFINE q == event_queue
           c == event_queue'
<1>1. /\ q \in Seq(Event) /\ es \in Seq(Event) /\ c = q \o es
      /\ surfaces \in [SurfaceId -> Surface] /\ surfaces' \in [SurfaceId -> Surface]
      /\ Tracked = {s \in SurfaceId : surfaces[s].tracked}
      /\ Tracked' = {s \in SurfaceId : surfaces'[s].tracked}
  BY DEF TypeOK, HostTypes, HostStep, Tracked
<1>2. /\ surface_to_pane' = surface_to_pane /\ panes' = panes /\ popup_to_pane' = popup_to_pane
      /\ overlay' = overlay /\ place' = place /\ painted' = painted /\ past' = past
  BY DEF HostStep, paneVars, treeVars
<1> SUFFICES ASSUME NEW s \in SurfaceId PROVE OnRecord(s)' /\ Shown(s)' /\ Drawn(s)'
  BY DEF PanesOK
<1> DEFINE v == surfaces[s]
           w == surfaces'[s]
<1>3. \A k \in Kinds : Has(c, k, s) <=> Has(q, k, s) \/ Has(es, k, s)
  BY <1>1, HasConcat
<1>4. /\ Queued(s) /\ Grows(s) /\ Says(es, s)
      /\ OnRecord(s) /\ Shown(s) /\ Drawn(s)
  BY DEF EventsOK, PanesOK, HostStep
<1>5. /\ v.announced \/ v.tracked => v.role # "none"
      /\ v.framed => v.announced
  BY DEF HostOK
<1>6. v.announced => (Over(s)' <=> Over(s)) BY <1>4, <1>5 DEF Grows, Over
<1>7. {"toplevel", "overlay", "frame", "toplevel closed", "overlay closed"} \subseteq Kinds BY DEF Kinds
<1>8. HasPlace(c, s) <=> HasPlace(q, s) \/ HasPlace(es, s) BY <1>1, PlaceConcat
<1> HIDE DEF q, c
<1>9. OnRecord(s)'
  <2>1. s \in surface_to_pane \cup panes => w.announced /\ ~Over(s)'
    BY <1>4, <1>6 DEF OnRecord, Grows
  <2>2. popup_to_pane[s] # None \/ overlay[s] # None => w.announced /\ Over(s)'
    BY <1>4, <1>6 DEF OnRecord, Grows
  <2>3. overlay[s] \in {None, w.parent} BY <1>4, <1>5 DEF OnRecord, Grows
  <2>4. Has(c, "overlay", s) => overlay[s] = None
    BY <1>3, <1>4, <1>7 DEF OnRecord, Says, q
  <2>5. s \in surface_to_pane => w.tracked \/ Has(c, "toplevel closed", s)
    BY <1>1, <1>3, <1>4, <1>7 DEF OnRecord, Says, q
  <2>6. popup_to_pane[s] # None \/ overlay[s] # None => w.tracked \/ Has(c, "overlay closed", s)
    BY <1>1, <1>3, <1>4, <1>7 DEF OnRecord, Says, q
  <2>7. s \in past.kept => w.role # "none" /\ ~w.tracked
    BY <1>1, <1>4 DEF OnRecord, Grows
  <2>8. /\ s \in surface_to_pane => s \in panes
        /\ s \in panes => s \in surface_to_pane \/ s \in past.kept
    BY <1>4 DEF OnRecord
  <2>9. QED BY <1>1, <1>2, <2>1, <2>2, <2>3, <2>4, <2>5, <2>6, <2>7, <2>8 DEF OnRecord, c
<1>10. Shown(s)'
  <2> SUFFICES ASSUME s \in Tracked', w.announced PROVE Shown(s)'
    BY DEF Shown
  <2>1. CASE v.announced
    <3>1. s \in Tracked BY <1>1, <1>4, <1>5, <2>1 DEF Grows
    <3>2. ~Over(s)' => s \in surface_to_pane \/ s \in past.refused \/ Has(c, "toplevel", s)
      BY <1>3, <1>4, <1>6, <1>7, <2>1, <3>1 DEF Shown, q
    <3>3. Over(s)' /\ w.parent \in surface_to_pane => overlay[s] = w.parent \/ Has(c, "overlay", s)
      BY <1>3, <1>4, <1>5, <1>6, <1>7, <2>1, <3>1 DEF Shown, Grows, q
    <3>4. QED BY <1>2, <3>2, <3>3 DEF Shown, c
  <2>2. CASE ~v.announced
    <3>1. (IF Over(s)' THEN Has(es, "overlay", s) ELSE Has(es, "toplevel", s)) BY <1>4, <2>2 DEF Says
    <3>2. QED BY <1>3, <1>7, <3>1 DEF Shown, c
  <2>3. QED BY <2>1, <2>2
<1>11. Drawn(s)'
  <2>1. overlay[s] # None /\ ~HasPlace(c, s) => place[s] = w.spot
    BY <1>4, <1>8 DEF Drawn, Says, q
  <2>2. w.tracked /\ w.framed /\ (s \in panes \/ overlay[s] # None)
           => s \in painted \/ s \in past.unimported \/ Has(c, "frame", s)
    BY <1>1, <1>3, <1>4, <1>5, <1>7 DEF Drawn, Says, Grows, OnRecord, q
  <2>3. QED BY <1>1, <1>2, <2>1, <2>2 DEF Drawn, c
<1>12. QED BY <1>9, <1>10, <1>11

\* No event, and one event
LEMMA NoEvent ==
    ASSUME NEW q \in Seq(Event)
    PROVE  /\ <<>> \in Seq(Event) /\ q \o <<>> = q
           /\ \A k, s : ~Has(<<>>, k, s)
           /\ \A s : ~HasPlace(<<>>, s)
           /\ \A s \in SurfaceId : SaysInOrder(<<>>, s)
<1>1. <<>> \in Seq(Event) /\ q \o <<>> = q /\ DOMAIN <<>> = {} OBVIOUS
<1>2. QED BY <1>1 DEF Has, HasPlace, SaysInOrder, Before, Once, OnParent, LastPlace

\* One event says what it is
LEMMA OneEvent ==
    ASSUME NEW e \in Event
    PROVE  /\ <<e>> \in Seq(Event)
           /\ \A k, s : Has(<<e>>, k, s) <=> Is(e, k, s)
           /\ \A s : HasPlace(<<e>>, s) <=> Places(e, s)
           /\ \A k, l, s, t : k # l => Before(<<e>>, k, s, l, t)
           /\ \A s : Once(<<e>>, s)
           /\ \A s, p : (Is(e, "overlay", s) => e.parent = p) => OnParent(<<e>>, s, p)
           /\ \A s, spot : (Places(e, s) => e.spot = spot) => LastPlace(<<e>>, s, spot)
<1>1. <<e>> \in Seq(Event) /\ DOMAIN <<e>> = {1} /\ <<e>>[1] = e OBVIOUS
<1>2. \A k, s : Has(<<e>>, k, s) <=> Is(e, k, s) BY <1>1 DEF Has
<1>3. \A s : HasPlace(<<e>>, s) <=> Places(e, s) BY <1>1 DEF HasPlace
<1>4. \A k, l, s, t : k # l => Before(<<e>>, k, s, l, t) BY <1>1 DEF Before, Is
<1>5. \A s : Once(<<e>>, s) BY <1>1 DEF Once
<1>6. \A s, p : (Is(e, "overlay", s) => e.parent = p) => OnParent(<<e>>, s, p) BY <1>1 DEF OnParent
<1>7. \A s, spot : (Places(e, s) => e.spot = spot) => LastPlace(<<e>>, s, spot) BY <1>1 DEF LastPlace
<1>8. QED BY <1>1, <1>2, <1>3, <1>4, <1>5, <1>6, <1>7

\* A new surface, of which nobody has heard
LEMMA NewStep ==
    ASSUME TypeOK, HostOK, NEW r \in Surface, New(r), r.role \in {"toplevel", "popup"},
           ~r.announced, ~r.framed, ~r.child, r.spot = 0,
           r.role = "popup" => r.parent # None,
           r.parent # None => surfaces[r.parent].announced
    PROVE  HostStep(<<>>)
<1> DEFINE n == next_surface_id
<1>1. /\ n \in SurfaceId /\ n \in Nat /\ surfaces \in [SurfaceId -> Surface]
      /\ surfaces[n].role = "none" /\ ~surfaces[n].announced /\ ~surfaces[n].tracked /\ ~surfaces[n].framed
      /\ surfaces[n].spot = 0
  <2>1. n \in SurfaceId /\ n \in Nat /\ surfaces \in [SurfaceId -> Surface]
    BY Ids DEF New, TypeOK, HostTypes
  <2>2. surfaces[n] = Unused BY <2>1 DEF HostOK
  <2>3. QED BY <2>1, <2>2 DEF Unused
<1>2. /\ surfaces' \in [SurfaceId -> Surface] /\ surfaces'[n] = r
      /\ \A s \in SurfaceId : s # n => surfaces'[s] = surfaces[s]
      /\ next_surface_id' = n + 1
  BY <1>1 DEF New
<1>3. event_queue \in Seq(Event) /\ event_queue' = event_queue /\ UNCHANGED paneVars
  BY DEF TypeOK, New, HostOnly
<1>4. HostOK'
  <2> SUFFICES ASSUME NEW s \in SurfaceId
               PROVE  /\ s >= next_surface_id' => surfaces'[s] = Unused
                      /\ surfaces'[s].announced \/ surfaces'[s].tracked => surfaces'[s].role # "none"
                      /\ surfaces'[s].framed => surfaces'[s].announced
                      /\ Over(s)' => surfaces'[s].parent # None /\ surfaces'[s].role # "none"
                      /\ surfaces'[s].parent # None => surfaces'[surfaces'[s].parent].announced
                      /\ surfaces'[s].role = "toplevel" => surfaces'[s].spot = 0
    BY DEF HostOK
  <2>1. s >= next_surface_id' => surfaces'[s] = Unused
    BY <1>1, <1>2, Ids DEF HostOK
  <2>2. surfaces'[s].parent # None => surfaces'[surfaces'[s].parent].announced
    <3> SUFFICES ASSUME surfaces'[s].parent # None PROVE surfaces'[surfaces'[s].parent].announced
      OBVIOUS
    <3>1. surfaces'[s].parent \in SurfaceId BY <1>2 DEF Surface, IdOrNone
    <3>2. surfaces[surfaces'[s].parent].announced BY <1>2 DEF HostOK
    <3>3. surfaces'[s].parent # n BY <1>1, <3>2
    <3>4. QED BY <1>2, <3>1, <3>2, <3>3
  <2>3. QED BY <1>2, <2>1, <2>2 DEF HostOK, Over
<1>5. ASSUME NEW s \in SurfaceId PROVE Grows(s) /\ Says(<<>>, s)
  <2>1. \A k : ~Has(<<>>, k, s) BY <1>3, NoEvent
  <2>2. CASE s = n
    <3>1. Grows(s) BY <1>1, <1>2, <2>2 DEF Grows
    <3>2. Says(<<>>, s) BY <1>1, <1>2, <2>1, <2>2 DEF Says
    <3>3. QED BY <3>1, <3>2
  <2>3. CASE s # n
    <3>1. Grows(s) BY <1>2, <2>3 DEF Grows, HostOK
    <3>2. Says(<<>>, s) BY <1>2, <2>1, <2>3 DEF Says
    <3>3. QED BY <3>1, <3>2
  <2>4. QED BY <2>2, <2>3
<1>6. QED BY <1>1, <1>2, <1>3, <1>4, <1>5, NoEvent DEF HostStep

\* A surface that is there is changed in place
Changed(s) ==
    /\ surfaces'[s].role = surfaces[s].role /\ surfaces'[s].parent = surfaces[s].parent
    /\ surfaces[s].role = "none" => surfaces'[s] = surfaces[s]
    /\ surfaces[s].announced => surfaces'[s].announced /\ surfaces'[s].child = surfaces[s].child
    /\ surfaces'[s].child => surfaces[s].child \/ surfaces[s].parent # None
    /\ surfaces[s].framed => surfaces'[s].framed
    /\ surfaces'[s].framed => surfaces'[s].announced
    /\ surfaces'[s].tracked => surfaces[s].tracked
    /\ surfaces[s].role = "toplevel" => surfaces'[s].spot = surfaces[s].spot

\* ... which keeps what the host knows
LEMMA ChangedInPlace ==
    ASSUME TypeOK, HostOK, surfaces' \in [SurfaceId -> Surface], next_surface_id' = next_surface_id,
           \A s \in SurfaceId : Changed(s)
    PROVE  HostOK' /\ \A s \in SurfaceId : Grows(s)
<1>1. surfaces \in [SurfaceId -> Surface] /\ next_surface_id \in Nat BY DEF TypeOK, HostTypes
<1>2. ASSUME NEW s \in SurfaceId
      PROVE  /\ s >= next_surface_id' => surfaces'[s] = Unused
             /\ surfaces'[s].announced \/ surfaces'[s].tracked => surfaces'[s].role # "none"
             /\ surfaces'[s].framed => surfaces'[s].announced
             /\ Over(s)' => surfaces'[s].parent # None /\ surfaces'[s].role # "none"
             /\ surfaces'[s].parent # None => surfaces'[surfaces'[s].parent].announced
             /\ surfaces'[s].role = "toplevel" => surfaces'[s].spot = 0
  <2>0. Changed(s) OBVIOUS
  <2>1. s >= next_surface_id' => surfaces'[s] = Unused
    <3>1. s >= next_surface_id => surfaces[s] = Unused BY DEF HostOK
    <3>2. QED BY <2>0, <3>1 DEF Changed, Unused
  <2>2. surfaces'[s].announced \/ surfaces'[s].tracked => surfaces'[s].role # "none"
    BY <2>0 DEF Changed, HostOK
  <2>3. Over(s)' => surfaces'[s].parent # None /\ surfaces'[s].role # "none"
    BY <2>0 DEF Changed, HostOK, Over
  <2>4. surfaces'[s].parent # None => surfaces'[surfaces'[s].parent].announced
    <3> SUFFICES ASSUME surfaces'[s].parent # None PROVE surfaces'[surfaces'[s].parent].announced
      OBVIOUS
    <3>1. surfaces'[s].parent \in SurfaceId BY DEF Surface, IdOrNone
    <3>2. surfaces[surfaces'[s].parent].announced BY <2>0 DEF HostOK, Changed
    <3>3. QED BY <3>1, <3>2 DEF Changed
  <2>5. surfaces'[s].role = "toplevel" => surfaces'[s].spot = 0 BY <2>0 DEF Changed, HostOK
  <2>6. QED BY <2>0, <2>1, <2>2, <2>3, <2>4, <2>5 DEF Changed
<1>3. HostOK' BY <1>2 DEF HostOK
<1>4. ASSUME NEW s \in SurfaceId PROVE Grows(s)
  <2>1. Changed(s) /\ (surfaces[s].parent # None => surfaces[surfaces[s].parent].announced) BY DEF HostOK
  <2>2. QED BY <2>1 DEF Grows, Changed
<1>5. QED BY <1>3, <1>4

\* Nothing is said of a change that no one has to know of
LEMMA SilentStep ==
    ASSUME TypeOK, HostOK, surfaces' \in [SurfaceId -> Surface],
           UNCHANGED <<next_surface_id, event_queue, paneVars>>,
           \A s \in SurfaceId :
              /\ Changed(s)
              /\ surfaces'[s].announced = surfaces[s].announced /\ surfaces'[s].framed = surfaces[s].framed
              /\ surfaces'[s].tracked = surfaces[s].tracked /\ surfaces'[s].spot = surfaces[s].spot
    PROVE  HostStep(<<>>)
<1>1. event_queue \in Seq(Event) /\ next_surface_id \in Nat BY DEF TypeOK, HostTypes
<1>2. HostOK' /\ \A s \in SurfaceId : Grows(s) BY ChangedInPlace
<1>3. \A s \in SurfaceId : Says(<<>>, s) BY <1>1, NoEvent DEF Says
<1>4. QED BY <1>1, <1>2, <1>3, NoEvent DEF HostStep

\* An announcement and a frame, one after the other
LEMMA FrameLast ==
    ASSUME NEW a \in Seq(Event), NEW b \in Seq(Event),
           \A t : ~Has(a, "frame", t) /\ ~Has(b, "toplevel", t) /\ ~Has(b, "overlay", t),
           \A t : Once(a, t) /\ Once(b, t)
    PROVE  /\ a \o b \in Seq(Event)
           /\ \A k : \A t : Has(a \o b, k, t) <=> Has(a, k, t) \/ Has(b, k, t)
           /\ \A t : /\ Before(a \o b, "toplevel", t, "frame", t) /\ Before(a \o b, "overlay", t, "frame", t)
                     /\ Once(a \o b, t)
           /\ \A t, p : OnParent(a, t, p) /\ OnParent(b, t, p) => OnParent(a \o b, t, p)
           /\ \A t, spot : LastPlace(a, t, spot) /\ LastPlace(b, t, spot) => LastPlace(a \o b, t, spot)
<1>1. a \o b \in Seq(Event) OBVIOUS
<1>2. \A k : \A t : Has(a \o b, k, t) <=> Has(a, k, t) \/ Has(b, k, t) BY HasConcat, Zenon
<1>3. ASSUME NEW t
      PROVE  /\ Before(a \o b, "toplevel", t, "frame", t) /\ Before(a \o b, "overlay", t, "frame", t)
             /\ Once(a \o b, t)
  <2>1. /\ Before(a, "toplevel", t, "frame", t) /\ Before(b, "toplevel", t, "frame", t)
        /\ Before(a, "overlay", t, "frame", t) /\ Before(b, "overlay", t, "frame", t)
    BY BeforeNone
  <2>2. Before(a \o b, "toplevel", t, "frame", t) BY <2>1, BeforeConcat, Zenon
  <2>3. Before(a \o b, "overlay", t, "frame", t) BY <2>1, BeforeConcat, Zenon
  <2>4. Once(a \o b, t) BY OnceConcat, Zenon
  <2>5. QED BY <2>2, <2>3, <2>4
<1>4. ASSUME NEW t, NEW p, OnParent(a, t, p), OnParent(b, t, p) PROVE OnParent(a \o b, t, p)
  BY <1>4, OnParentConcat, Zenon
<1>5. ASSUME NEW t, NEW spot, LastPlace(a, t, spot), LastPlace(b, t, spot) PROVE LastPlace(a \o b, t, spot)
  BY <1>5, LastPlaceConcat, Zenon
<1>6. QED BY <1>1, <1>2, <1>3, <1>4, <1>5, Zenon

\* What a commit queues: the announcement, if it makes one, and the frame
Committed(s, e, announces, frame) == (IF announces THEN <<e>> ELSE <<>>) \o Frames(s, frame)

CommitSays(es, s, e, announces, framed) ==
    /\ es \in Seq(Event)
    /\ \A k : \A t : Has(es, k, t) <=> t = s /\ ((announces /\ k = e.kind) \/ (framed /\ k = "frame"))
    /\ \A t : /\ Before(es, "toplevel", t, "frame", t) /\ Before(es, "overlay", t, "frame", t)
              /\ Once(es, t)
    /\ \A t, p : (announces /\ Is(e, "overlay", t) => e.parent = p) => OnParent(es, t, p)
    /\ \A t, spot : (announces /\ Is(e, "overlay", t) => e.spot = spot) => LastPlace(es, t, spot)

\* What it says: the announcement and the frame, of this surface, in this order
LEMMA CommitEvents ==
    ASSUME NEW s \in SurfaceId, NEW e \in Event, NEW announces \in BOOLEAN, NEW frame,
           NEW framed \in BOOLEAN, framed <=> frame # "none", e.id = s, e.kind \in {"toplevel", "overlay"}
    PROVE  CommitSays(Committed(s, e, announces, frame), s, e, announces, framed)
<1> DEFINE es == Committed(s, e, announces, frame)
<1> DEFINE a == IF announces THEN <<e>> ELSE <<>>
           dmabuf == frame = "dmabuf"
           f == [kind |-> "frame", id |-> s, dmabuf |-> dmabuf]
           b == Frames(s, frame)
<1>0. dmabuf \in BOOLEAN OBVIOUS
<1>1. f \in Event /\ f.kind = "frame" /\ f.id = s
  <2> HIDE DEF dmabuf
  <2>1. QED BY <1>0 DEF Event
<1>2. <<>> \in Seq(Event) /\ (\A k, t : ~Has(<<>>, k, t)) /\ (\A t : ~HasPlace(<<>>, t)) /\ DOMAIN <<>> = {}
  BY DEF Has, HasPlace
<1>3. /\ a \in Seq(Event)
      /\ \A k, t : Has(a, k, t) <=> announces /\ t = s /\ k = e.kind
      /\ \A t : Once(a, t)
      /\ \A t, p : (announces /\ Is(e, "overlay", t) => e.parent = p) => OnParent(a, t, p)
      /\ \A t, spot : (announces /\ Is(e, "overlay", t) => e.spot = spot) => LastPlace(a, t, spot)
  <2>1. CASE announces
    <3>1. a = <<e>> BY <2>1
    <3> HIDE DEF a
    <3>2. \A t : Places(e, t) => Is(e, "overlay", t) BY DEF Places, Is
    <3>3. \A k, t : Is(e, k, t) <=> t = s /\ k = e.kind BY DEF Is
    <3>4. QED BY <2>1, <3>1, <3>2, <3>3, OneEvent
  <2>2. CASE ~announces
    <3>1. a = <<>> BY <2>2
    <3> HIDE DEF a
    <3>2. QED BY <1>2, <2>2, <3>1 DEF Once, OnParent, LastPlace
  <2>3. QED BY <2>1, <2>2
<1>4. /\ b \in Seq(Event)
      /\ \A k, t : Has(b, k, t) <=> framed /\ t = s /\ k = "frame"
      /\ \A t : Once(b, t)
      /\ \A t, p : OnParent(b, t, p)
      /\ \A t, spot : LastPlace(b, t, spot)
      /\ \A t : ~HasPlace(b, t)
  <2>1. CASE framed
    <3>1. b = <<f>> BY <2>1 DEF Frames
    <3> HIDE DEF b, f
    <3>2. \A t : ~Places(f, t) BY <1>1 DEF Places, Is
    <3>3. \A k, t : Is(f, k, t) <=> t = s /\ k = "frame" BY <1>1 DEF Is
    <3>4. QED BY <1>1, <2>1, <3>1, <3>2, <3>3, OneEvent
  <2>2. CASE ~framed
    <3>1. b = <<>> BY <2>2 DEF Frames
    <3> HIDE DEF b
    <3>2. QED BY <1>2, <2>2, <3>1 DEF Once, OnParent, LastPlace
  <2>3. QED BY <2>1, <2>2
<1>5. a \in Seq(Event) /\ b \in Seq(Event) /\ es = a \o b BY <1>3, <1>4 DEF Committed
<1> HIDE DEF a, b, es
<1>6. \A t : ~Has(a, "frame", t) /\ ~Has(b, "toplevel", t) /\ ~Has(b, "overlay", t) BY <1>3, <1>4
<1>7. \A t : Once(a, t) /\ Once(b, t) BY <1>3, <1>4
<1>8. /\ es \in Seq(Event)
      /\ \A k : \A t : Has(es, k, t) <=> Has(a, k, t) \/ Has(b, k, t)
      /\ \A t : /\ Before(es, "toplevel", t, "frame", t) /\ Before(es, "overlay", t, "frame", t)
                /\ Once(es, t)
      /\ \A t, p : OnParent(a, t, p) /\ OnParent(b, t, p) => OnParent(es, t, p)
      /\ \A t, spot : LastPlace(a, t, spot) /\ LastPlace(b, t, spot) => LastPlace(es, t, spot)
  BY <1>5, <1>6, <1>7, FrameLast
<1>9. \A k : \A t : Has(es, k, t) <=> t = s /\ ((announces /\ k = e.kind) \/ (framed /\ k = "frame"))
  BY <1>3, <1>4, <1>8
<1>10. QED BY <1>3, <1>4, <1>8, <1>9 DEF CommitSays, es

\* A commit: announced at most once, as what it is, and with its pixels behind
LEMMA CommitStep ==
    ASSUME TypeOK, HostOK, NEW s \in Tracked, NEW e \in Event,
           NEW child \in BOOLEAN, NEW announces \in BOOLEAN, NEW frame,
           NEW framed \in BOOLEAN, framed <=> frame # "none", NEW r \in Surface, surfaces' = [surfaces EXCEPT ![s] = r],
           r.role = surfaces[s].role, r.parent = surfaces[s].parent, r.spot = surfaces[s].spot,
           r.tracked = surfaces[s].tracked, r.child = child,
           r.announced <=> surfaces[s].announced \/ announces, r.framed <=> surfaces[s].framed \/ framed,
           event_queue' = event_queue \o Committed(s, e, announces, frame),
           UNCHANGED <<next_surface_id, paneVars>>,
           announces => ~surfaces[s].announced,
           framed => surfaces[s].announced \/ announces,
           surfaces[s].announced => child = surfaces[s].child,
           child => surfaces[s].child \/ surfaces[s].parent # None,
           e.id = s,
           e.kind = IF surfaces[s].role = "popup" \/ child THEN "overlay" ELSE "toplevel",
           e.kind = "overlay" => e.parent = surfaces[s].parent /\ e.spot = surfaces[s].spot
    PROVE  HostStep(Committed(s, e, announces, frame))
<1> DEFINE es == Committed(s, e, announces, frame)
           v == surfaces[s]
           w == surfaces'[s]
<1>1. /\ s \in SurfaceId /\ surfaces \in [SurfaceId -> Surface] /\ next_surface_id \in Nat
      /\ v.role \in {"toplevel", "popup"} /\ v.tracked /\ v \in Surface
  BY DEF Tracked, TypeOK, HostTypes, HostOK, Surface
<1>2. /\ w = r
      /\ \A t \in SurfaceId : t # s => surfaces'[t] = surfaces[t]
  BY <1>1
<1>3. /\ w \in Surface /\ w.role = v.role /\ w.parent = v.parent /\ w.child = child /\ w.tracked = v.tracked
      /\ (w.announced <=> v.announced \/ announces) /\ (w.framed <=> v.framed \/ framed) /\ w.spot = v.spot
  BY <1>2
<1>4. surfaces' \in [SurfaceId -> Surface] BY <1>1, <1>2, <1>3
<1>5. ASSUME NEW t \in SurfaceId PROVE Changed(t)
  <2>1. CASE t = s BY <1>1, <1>3, <2>1 DEF Changed, HostOK
  <2>2. CASE t # s BY <1>2, <2>2 DEF Changed, HostOK
  <2>3. QED BY <2>1, <2>2
<1>6. HostOK' /\ \A t \in SurfaceId : Grows(t) BY <1>4, <1>5, ChangedInPlace
<1>7. /\ es \in Seq(Event)
      /\ \A k : \A t : Has(es, k, t) <=> t = s /\ ((announces /\ k = e.kind) \/ (framed /\ k = "frame"))
      /\ \A t : /\ Before(es, "toplevel", t, "frame", t) /\ Before(es, "overlay", t, "frame", t)
                /\ Once(es, t)
      /\ \A t, p : (announces /\ Is(e, "overlay", t) => e.parent = p) => OnParent(es, t, p)
      /\ \A t, spot : (announces /\ Is(e, "overlay", t) => e.spot = spot) => LastPlace(es, t, spot)
  <2>1. e.kind \in {"toplevel", "overlay"} OBVIOUS
  <2>2. CommitSays(Committed(s, e, announces, frame), s, e, announces, framed)
    BY <1>1, <2>1, CommitEvents
  <2>3. QED BY <2>2, Zenon DEF CommitSays
<1>8. Over(s)' <=> surfaces[s].role = "popup" \/ child BY <1>3 DEF Over
<1>9. ASSUME NEW t \in SurfaceId PROVE Says(es, t)
  <2> HIDE DEF es, v, w
  <2>1. CASE t = s
    <3>1. /\ Over(s)' => e.kind = "overlay" /\ e.kind # "toplevel"
          /\ ~Over(s)' => e.kind = "toplevel" /\ e.kind # "overlay"
          /\ e.kind # "frame" /\ e.kind # "toplevel closed" /\ e.kind # "overlay closed"
      BY <1>8
    <3>2. /\ Has(es, "toplevel", s) <=> announces /\ ~Over(s)'
          /\ Has(es, "overlay", s) <=> announces /\ Over(s)'
          /\ Has(es, "frame", s) <=> framed
          /\ ~Has(es, "toplevel closed", s) /\ ~Has(es, "overlay closed", s)
      <4>1. \A k : Has(es, k, s) <=> (announces /\ k = e.kind) \/ (framed /\ k = "frame") BY <1>7, Zenon
      <4>2. "toplevel" # "frame" /\ "overlay" # "frame" /\ "toplevel closed" # "frame" /\ "overlay closed" # "frame"
        OBVIOUS
      <4>3. QED BY <3>1, <4>1, <4>2, Zenon
    <3>3. v.role # "none" /\ surfaces[s].announced = v.announced /\ surfaces[s].framed = v.framed
      BY <1>1 DEF v
    <3>4. QED BY <1>1, <1>3, <2>1, <3>2, <3>3 DEF Says, v, w
  <2>2. CASE t # s BY <1>2, <1>7, <2>2 DEF Says, Over
  <2>3. QED BY <2>1, <2>2
<1>10. ASSUME NEW t \in SurfaceId PROVE SaysInOrder(es, t)
  <2> HIDE DEF es
  <2>1. Is(e, "overlay", t) => e.parent = surfaces'[t].parent /\ e.spot = surfaces'[t].spot
    BY <1>3 DEF Is
  <2>2. QED BY <1>7, <2>1 DEF SaysInOrder
<1>11. QED BY <1>1, <1>4, <1>6, <1>7, <1>9, <1>10 DEF HostStep

\* One event about one surface, which is no announcement
LEMMA OneEventStep ==
    ASSUME TypeOK, HostOK, NEW s \in Tracked, NEW e \in Event, NEW r \in Surface,
           surfaces' = [surfaces EXCEPT ![s] = r],
           event_queue' = event_queue \o <<e>>,
           UNCHANGED <<next_surface_id, paneVars>>,
           r.role = surfaces[s].role, r.parent = surfaces[s].parent, r.child = surfaces[s].child,
           r.announced = surfaces[s].announced, r.framed = surfaces[s].framed,
           e.id = s,
           \/ /\ e.kind = "moved" /\ r.spot = e.spot /\ r.role # "toplevel"
              /\ r.tracked
           \/ /\ e.kind = IF Over(s) THEN "overlay closed" ELSE "toplevel closed"
              /\ r.spot = surfaces[s].spot /\ ~r.tracked
    PROVE  HostStep(<<e>>)
<1> DEFINE v == surfaces[s]
<1>1. /\ s \in SurfaceId /\ surfaces \in [SurfaceId -> Surface] /\ next_surface_id \in Nat
      /\ v.role # "none" /\ v.tracked /\ event_queue \in Seq(Event)
  BY DEF Tracked, TypeOK, HostTypes, HostOK
<1>2. /\ surfaces'[s] = r
      /\ \A t \in SurfaceId : t # s => surfaces'[t] = surfaces[t]
      /\ surfaces' \in [SurfaceId -> Surface]
  BY <1>1
<1>3. ASSUME NEW t \in SurfaceId PROVE Changed(t)
  <2>1. CASE t = s BY <1>1, <1>2, <2>1 DEF Changed, HostOK
  <2>2. CASE t # s BY <1>2, <2>2 DEF Changed, HostOK
  <2>3. QED BY <2>1, <2>2
<1>4. HostOK' /\ \A t \in SurfaceId : Grows(t) BY <1>2, <1>3, ChangedInPlace
<1>5. /\ \A k : \A t : Has(<<e>>, k, t) <=> k = e.kind /\ t = s
      /\ \A t : HasPlace(<<e>>, t) <=> Places(e, t)
  BY OneEvent DEF Is
<1>6. ASSUME NEW t \in SurfaceId PROVE Says(<<e>>, t)
  <2>1. CASE t = s
    <3>0. /\ e.kind # "toplevel" /\ e.kind # "overlay" /\ e.kind # "frame"
          /\ e.kind = "toplevel closed" \/ e.kind = "overlay closed" => ~r.tracked
          /\ \/ r.tracked
             \/ Over(s) /\ e.kind = "overlay closed"
             \/ ~Over(s) /\ e.kind = "toplevel closed"
      OBVIOUS
    <3>1. /\ ~Has(<<e>>, "toplevel", s) /\ ~Has(<<e>>, "overlay", s) /\ ~Has(<<e>>, "frame", s)
      BY <1>5, <3>0, Zenon
    <3>2. Has(<<e>>, "toplevel closed", s) \/ Has(<<e>>, "overlay closed", s) => ~r.tracked
      BY <1>5, <3>0, Zenon
    <3>3. r.tracked \/ (IF Over(s) THEN Has(<<e>>, "overlay closed", s) ELSE Has(<<e>>, "toplevel closed", s))
      BY <1>5, <3>0, Zenon
    <3>4. r.spot = v.spot \/ HasPlace(<<e>>, s) BY <1>5 DEF Places, Is
    <3>5. QED BY <1>1, <1>2, <2>1, <3>1, <3>2, <3>3, <3>4 DEF Says
  <2>2. CASE t # s BY <1>2, <1>5, <2>2 DEF Says, Over
  <2>3. QED BY <2>1, <2>2
<1>7. ASSUME NEW t \in SurfaceId PROVE SaysInOrder(<<e>>, t)
  <2>1. ~Is(e, "overlay", t) /\ (Places(e, t) => e.spot = surfaces'[t].spot) BY <1>2 DEF Is, Places
  <2>2. QED BY <2>1, OneEvent DEF SaysInOrder
<1>8. QED BY <1>1, <1>2, <1>4, <1>6, <1>7, OneEvent DEF HostStep

\* A toplevel, with the parent it may have
LEMMA NewToplevelSteps ==
    ASSUME TypeOK, HostOK, NEW c \in Clients, NEW parent, NewToplevel(c, parent) PROVE HostStep(<<>>)
<1> DEFINE r == [Unused EXCEPT !.role = "toplevel", !.client = c, !.parent = parent,
                               !.alive = TRUE, !.tracked = TRUE]
<1>1. parent \in IdOrNone /\ (parent # None => surfaces[parent].announced)
  BY DEF NewToplevel, ToplevelsOf, Mapped, Tracked, IdOrNone
<1>2. /\ r \in Surface /\ r.role = "toplevel" /\ ~r.announced /\ ~r.framed /\ ~r.child /\ r.spot = 0
      /\ r.parent = parent
  BY <1>1 DEF Unused, Surface, Spot, None, IdOrNone
<1>3. New(r) BY DEF NewToplevel
<1> HIDE DEF r
<1>4. QED BY <1>1, <1>2, <1>3, NewStep

\* A popup, whose parent is mapped
LEMMA NewPopupSteps ==
    ASSUME TypeOK, HostOK, NEW c \in Clients, NEW parent, NewPopup(c, parent) PROVE HostStep(<<>>)
<1> DEFINE r == [Unused EXCEPT !.role = "popup", !.client = c, !.parent = parent,
                               !.alive = TRUE, !.tracked = TRUE]
<1>1. parent \in IdOrNone /\ surfaces[parent].announced /\ parent # None
  BY Ids DEF NewPopup, Mapped, Tracked, IdOrNone
<1>2. /\ r \in Surface /\ r.role = "popup" /\ ~r.announced /\ ~r.framed /\ ~r.child /\ r.spot = 0
      /\ r.parent = parent
  BY <1>1 DEF Unused, Surface, Spot, None, IdOrNone
<1>3. New(r) BY DEF NewPopup
<1> HIDE DEF r
<1>4. QED BY <1>1, <1>2, <1>3, NewStep

\* A popup that commits is announced the first time
LEMMA CommitPopupSteps ==
    ASSUME TypeOK, HostOK, NEW s \in Tracked, NEW frame, CommitPopup(s, frame),
           surfaces[s].role = "popup", UNCHANGED <<next_surface_id, paneVars>>
    PROVE  \E es : HostStep(es)
<1> DEFINE v == surfaces[s]
           framed == frame # "none"
           f == v.framed \/ framed
           announces == ~v.announced
           e == [kind |-> "overlay", id |-> s, parent |-> v.parent, spot |-> v.spot]
           r == [v EXCEPT !.announced = TRUE, !.framed = f]
<1>1. s \in SurfaceId /\ v \in Surface /\ surfaces \in [SurfaceId -> Surface]
  BY DEF Tracked, TypeOK, HostTypes
<1>2. v.parent \in SurfaceId /\ v.spot \in Spot /\ v.announced \in BOOLEAN
  BY <1>1 DEF HostOK, Over, Surface, IdOrNone
<1>3. e \in Event /\ e.id = s /\ e.kind = "overlay" /\ e.parent = v.parent /\ e.spot = v.spot
  BY <1>1, <1>2 DEF Event
<1>4. /\ r \in Surface /\ r.role = v.role /\ r.parent = v.parent /\ r.spot = v.spot
      /\ r.tracked = v.tracked /\ r.child = v.child /\ r.announced = TRUE /\ r.framed = f
  BY <1>1 DEF Surface
<1>5. surfaces' = [surfaces EXCEPT ![s] = r] BY <1>1 DEF CommitPopup
<1>6. event_queue' = event_queue \o Committed(s, e, announces, frame)
  BY DEF CommitPopup, Emit, Committed
<1>7. v.child \in BOOLEAN /\ announces \in BOOLEAN /\ framed \in BOOLEAN BY <1>1 DEF Surface
<1> HIDE DEF e, r
<1>8. HostStep(Committed(s, e, announces, frame))
  BY <1>1, <1>3, <1>4, <1>5, <1>6, <1>7, CommitStep
<1>9. QED BY <1>8

\* A toplevel that commits is announced as what its parent makes it
LEMMA CommitToplevelSteps ==
    ASSUME TypeOK, HostOK, NEW s \in Tracked, NEW frame, CommitToplevel(s, frame),
           surfaces[s].role = "toplevel", UNCHANGED <<next_surface_id, paneVars>>
    PROVE  \E es : HostStep(es)
<1> DEFINE v == surfaces[s]
           child == v.child \/ (~v.announced /\ v.parent \in Tracked)
           framed == frame # "none"
           announces == ~v.announced /\ (child => framed)
           f == v.framed \/ framed
           a == v.announced \/ announces
           e == IF child THEN [kind |-> "overlay", id |-> s, parent |-> v.parent, spot |-> 0]
                         ELSE [kind |-> "toplevel", id |-> s]
           r == [v EXCEPT !.child = child, !.framed = f, !.announced = a]
<1>1. s \in SurfaceId /\ v \in Surface /\ surfaces \in [SurfaceId -> Surface]
  BY DEF Tracked, TypeOK, HostTypes
<1>2. /\ v.spot = 0 /\ (child => v.parent \in SurfaceId) /\ (child => v.child \/ v.parent # None)
      /\ v.child \in BOOLEAN /\ v.announced \in BOOLEAN
  BY <1>1, Ids DEF HostOK, Over, Surface, IdOrNone, Tracked
<1>3. /\ e \in Event /\ e.id = s /\ e.kind = (IF child THEN "overlay" ELSE "toplevel")
      /\ child => e.parent = v.parent /\ e.spot = v.spot
  BY <1>1, <1>2 DEF Event, Spot
<1>4. /\ child \in BOOLEAN /\ announces \in BOOLEAN /\ f \in BOOLEAN /\ a \in BOOLEAN
      /\ framed \in BOOLEAN /\ (framed <=> frame # "none")
  BY <1>2
<1>5. surfaces' = [surfaces EXCEPT ![s] = r] BY <1>1 DEF CommitToplevel
<1>6. event_queue' = event_queue \o Committed(s, e, announces, frame)
  BY DEF CommitToplevel, Emit, Committed
<1>7. /\ announces => ~v.announced
      /\ framed => v.announced \/ announces
      /\ v.announced => child = v.child
  BY <1>2
<1>8. /\ (a <=> v.announced \/ announces) /\ (f <=> v.framed \/ framed) OBVIOUS
<1> HIDE DEF e, child, announces, f, a, framed
<1>9. /\ r \in Surface /\ r.role = v.role /\ r.parent = v.parent /\ r.spot = v.spot
      /\ r.tracked = v.tracked /\ r.child = child /\ r.announced = a /\ r.framed = f
  BY <1>1, <1>4 DEF Surface
<1> HIDE DEF r
<1>10. /\ r.announced <=> v.announced \/ announces
       /\ r.framed <=> v.framed \/ framed
       /\ e \in Event /\ e.id = s
       /\ e.kind = IF v.role = "popup" \/ child THEN "overlay" ELSE "toplevel"
       /\ e.kind = "overlay" => e.parent = v.parent /\ e.spot = v.spot
  BY <1>3, <1>8, <1>9
<1>11. HostStep(Committed(s, e, announces, frame))
  <2>1. e \in Event BY <1>10
  <2>2. child \in BOOLEAN /\ announces \in BOOLEAN /\ framed \in BOOLEAN /\ (framed <=> frame # "none") BY <1>4
  <2>3. r \in Surface /\ surfaces' = [surfaces EXCEPT ![s] = r] BY <1>5, <1>9
  <2>4. r.role = surfaces[s].role /\ r.parent = surfaces[s].parent /\ r.spot = surfaces[s].spot BY <1>9
  <2>5. r.tracked = surfaces[s].tracked /\ r.child = child BY <1>9
  <2>6. (r.announced <=> surfaces[s].announced \/ announces) /\ (r.framed <=> surfaces[s].framed \/ framed) BY <1>10
  <2>7. event_queue' = event_queue \o Committed(s, e, announces, frame) BY <1>6
  <2>8. announces => ~surfaces[s].announced BY <1>7
  <2>9. framed => surfaces[s].announced \/ announces BY <1>7
  <2>10. surfaces[s].announced => child = surfaces[s].child BY <1>7
  <2>11. child => surfaces[s].child \/ surfaces[s].parent # None BY <1>2
  <2>12. e.id = s /\ e.kind = IF surfaces[s].role = "popup" \/ child THEN "overlay" ELSE "toplevel" BY <1>10
  <2>13. e.kind = "overlay" => e.parent = surfaces[s].parent /\ e.spot = surfaces[s].spot BY <1>10
  <2>14. QED BY <2>1, <2>2, <2>3, <2>4, <2>5, <2>6, <2>7, <2>8, <2>9, <2>10, <2>11, <2>12, <2>13, CommitStep
<1>12. QED BY <1>11

\* A popup that moves
LEMMA RepositionSteps ==
    ASSUME TypeOK, HostOK, NEW s \in SurfaceId, NEW spot \in {0, 1}, RepositionRequest(s, spot)
    PROVE  \E es : HostStep(es)
<1> DEFINE v == surfaces[s]
           r == [v EXCEPT !.spot = spot]
           e == [kind |-> "moved", id |-> s, spot |-> spot]
<1>1. s \in Tracked /\ v.tracked /\ v.role = "popup" /\ v \in Surface /\ surfaces \in [SurfaceId -> Surface]
  BY DEF RepositionRequest, PopupsOf, Tracked, TypeOK, HostTypes
<1>2. /\ r \in Surface /\ r.role = "popup" /\ r.parent = v.parent /\ r.child = v.child /\ r.spot = spot
      /\ r.announced = v.announced /\ r.framed = v.framed /\ r.tracked = v.tracked
  BY <1>1 DEF Surface, Spot
<1>3. surfaces' = [surfaces EXCEPT ![s] = r] BY <1>1 DEF RepositionRequest
<1>4. e \in Event /\ e.id = s /\ e.kind = "moved" /\ e.spot = spot BY DEF Event, Spot
<1>5. event_queue' = event_queue \o <<e>> /\ UNCHANGED <<next_surface_id, paneVars>>
  BY DEF RepositionRequest, Emit, HostOnly
<1> HIDE DEF r, e
<1>6. HostStep(<<e>>) BY <1>1, <1>2, <1>3, <1>4, <1>5, OneEventStep
<1>7. QED BY <1>6

\* The end of a surface is told as what it was announced
LEMMA ClosedTypes ==
    ASSUME TypeOK, NEW s \in SurfaceId
    PROVE  /\ ClosedEvent(s) \in Event /\ ClosedEvent(s).id = s
           /\ ClosedEvent(s).kind = IF Over(s) THEN "overlay closed" ELSE "toplevel closed"
BY DEF ClosedEvent, Event, Over

\* A surface that is destroyed
LEMMA DestroySteps ==
    ASSUME TypeOK, HostOK, NEW s \in SurfaceId, Destroy(s) PROVE \E es : HostStep(es)
<1> DEFINE v == surfaces[s]
           r == [v EXCEPT !.tracked = FALSE, !.alive = FALSE]
           e == ClosedEvent(s)
<1>1. s \in Tracked /\ v \in Surface /\ surfaces \in [SurfaceId -> Surface]
  BY DEF Destroy, TypeOK, HostTypes
<1>2. /\ r \in Surface /\ r.role = v.role /\ r.parent = v.parent /\ r.child = v.child /\ r.spot = v.spot
      /\ r.announced = v.announced /\ r.framed = v.framed /\ r.tracked = FALSE
  BY <1>1 DEF Surface
<1>3. surfaces' = [surfaces EXCEPT ![s] = r] BY <1>1 DEF Destroy, Forgotten
<1>4. e \in Event /\ e.id = s /\ e.kind = IF Over(s) THEN "overlay closed" ELSE "toplevel closed"
  BY ClosedTypes
<1>5. event_queue' = event_queue \o <<e>> /\ UNCHANGED <<next_surface_id, paneVars>>
  BY DEF Destroy, Emit, HostOnly
<1> HIDE DEF r, e
<1>6. HostStep(<<e>>) BY <1>1, <1>2, <1>3, <1>4, <1>5, OneEventStep
<1>7. QED BY <1>6

\* A client that is gone: its surfaces are dead, and nobody has noticed yet
LEMMA DisconnectSteps ==
    ASSUME TypeOK, HostOK, NEW c \in Clients, Disconnect(c) PROVE HostStep(<<>>)
<1> DEFINE S == {s \in Tracked : surfaces[s].client = c /\ surfaces[s].alive}
<1>1. surfaces \in [SurfaceId -> Surface] BY DEF TypeOK, HostTypes
<1>2. /\ surfaces' = [s \in SurfaceId |-> IF s \in S THEN [surfaces[s] EXCEPT !.alive = FALSE]
                                                     ELSE surfaces[s]]
      /\ UNCHANGED <<next_surface_id, event_queue, paneVars>>
  BY DEF Disconnect, HostOnly
<1>3. ASSUME NEW s \in SurfaceId
      PROVE  /\ surfaces'[s] \in Surface
             /\ surfaces'[s] = surfaces[s] \/ (s \in Tracked /\ surfaces'[s] = [surfaces[s] EXCEPT !.alive = FALSE])
  BY <1>1, <1>2 DEF Surface
<1>4. surfaces' \in [SurfaceId -> Surface] BY <1>2, <1>3
<1>5. ASSUME NEW s \in SurfaceId
      PROVE  /\ Changed(s)
             /\ surfaces'[s].announced = surfaces[s].announced /\ surfaces'[s].framed = surfaces[s].framed
             /\ surfaces'[s].tracked = surfaces[s].tracked /\ surfaces'[s].spot = surfaces[s].spot
  <2>1. surfaces[s] \in Surface /\ (s \in Tracked => surfaces[s].role # "none")
    BY <1>1 DEF HostOK, Tracked
  <2>2. /\ surfaces'[s].role = surfaces[s].role /\ surfaces'[s].parent = surfaces[s].parent
        /\ surfaces'[s].child = surfaces[s].child
        /\ surfaces'[s].announced = surfaces[s].announced /\ surfaces'[s].framed = surfaces[s].framed
        /\ surfaces'[s].tracked = surfaces[s].tracked /\ surfaces'[s].spot = surfaces[s].spot
    BY <1>3, <2>1 DEF Surface
  <2>3. QED BY <1>3, <2>1, <2>2 DEF Changed, HostOK
<1>6. QED BY <1>2, <1>4, <1>5, SilentStep

\* A command changes no more than the size a client was told
LEMMA CommandSteps ==
    ASSUME TypeOK, HostOK, RunCommand PROVE HostStep(<<>>)
<1> DEFINE c == Head(command_queue)
<1>1. /\ surfaces \in [SurfaceId -> Surface] /\ c \in Command
      /\ surfaces' = ToplevelsAfter(c) /\ UNCHANGED <<next_surface_id, event_queue, paneVars>>
  BY DEF TypeOK, HostTypes, RunCommand
<1> HIDE DEF c
<1>2. ASSUME NEW s \in SurfaceId
      PROVE  /\ surfaces'[s] \in Surface
             /\ surfaces'[s] = surfaces[s] \/ (s \in Tracked /\ surfaces'[s] = [surfaces[s] EXCEPT !.size = c.size])
  <2>1. CASE c.op = "resize" /\ c.id \in Tracked
    <3>1. c.size \in Nat BY <1>1, <2>1 DEF Command
    <3>2. QED BY <1>1, <2>1, <3>1 DEF ToplevelsAfter, Surface, Tracked
  <2>2. CASE ~(c.op = "resize" /\ c.id \in Tracked) BY <1>1, <2>2 DEF ToplevelsAfter
  <2>3. QED BY <2>1, <2>2
<1>3. surfaces' \in [SurfaceId -> Surface]
  <2>1. surfaces' = [s \in SurfaceId |-> surfaces'[s]] BY <1>1 DEF ToplevelsAfter
  <2>2. QED BY <1>2, <2>1
<1>4. ASSUME NEW s \in SurfaceId
      PROVE  /\ Changed(s)
             /\ surfaces'[s].announced = surfaces[s].announced /\ surfaces'[s].framed = surfaces[s].framed
             /\ surfaces'[s].tracked = surfaces[s].tracked /\ surfaces'[s].spot = surfaces[s].spot
  <2>1. surfaces[s] \in Surface /\ (s \in Tracked => surfaces[s].role # "none")
    BY <1>1 DEF HostOK, Tracked
  <2>2. /\ surfaces'[s].role = surfaces[s].role /\ surfaces'[s].parent = surfaces[s].parent
        /\ surfaces'[s].child = surfaces[s].child
        /\ surfaces'[s].announced = surfaces[s].announced /\ surfaces'[s].framed = surfaces[s].framed
        /\ surfaces'[s].tracked = surfaces[s].tracked /\ surfaces'[s].spot = surfaces[s].spot
    BY <1>2, <2>1 DEF Surface
  <2>3. QED BY <1>2, <2>1, <2>2 DEF Changed, HostOK
<1>5. QED BY <1>1, <1>3, <1>4, SilentStep

\* A set in some order: everything in it, and no more
LEMMA InSomeOrder ==
    ASSUME NEW S, IsFiniteSet(S), NEW f \in SetToSeqs(S)
    PROVE  f \in Seq(S) /\ \A s \in S : \E i \in DOMAIN f : f[i] = s
<1> DEFINE n == Cardinality(S)
<1>1. n \in Nat BY FS_CardinalityType
<1>2. f \in [1..n -> S] /\ \A i, j \in 1..n : i # j => f[i] # f[j] BY DEF SetToSeqs
<1>3. IsFiniteSet(1..n) /\ Cardinality(1..n) = n BY <1>1, FS_Interval
<1> HIDE DEF n
<1>4. f \in Injection(1..n, S)
  BY <1>2 DEF Injection, IsInjective
<1>5. f \in Surjection(1..n, S) BY <1>3, <1>4, FS_Injection DEF n
<1>6. \A s \in S : \E i \in 1..n : f[i] = s BY <1>5 DEF Surjection
<1>7. f \in Seq(S) BY <1>1, <1>2
<1>8. QED BY <1>2, <1>6, <1>7

\* The ends of some surfaces, one after the other
Closing(ds) == [i \in DOMAIN ds |-> ClosedEvent(ds[i])]

\* the kind of end a surface has
Ends(k, s) == (Over(s) /\ k = "overlay closed") \/ (~Over(s) /\ k = "toplevel closed")

\* They are the ends of these surfaces, and nothing else
LEMMA ClosingSays ==
    ASSUME TypeOK, NEW S \in SUBSET SurfaceId, NEW ds \in Seq(S), \A s \in S : \E i \in DOMAIN ds : ds[i] = s
    PROVE  /\ Closing(ds) \in Seq(Event)
           /\ \A k : \A s : Has(Closing(ds), k, s) <=> s \in S /\ Ends(k, s)
           /\ \A s : ~HasPlace(Closing(ds), s)
           /\ \A s \in SurfaceId : SaysInOrder(Closing(ds), s)
<1> DEFINE es == Closing(ds)
<1>1. /\ DOMAIN es = DOMAIN ds /\ DOMAIN ds = 1..Len(ds) /\ Len(ds) \in Nat
      /\ \A i \in DOMAIN ds : ds[i] \in S /\ ds[i] \in SurfaceId
      /\ \A i \in DOMAIN ds : es[i] = ClosedEvent(ds[i])
  BY DEF Closing
<1> HIDE DEF es
<1>2. ASSUME NEW i \in DOMAIN ds PROVE es[i] \in Event /\ es[i].id = ds[i] /\ Ends(es[i].kind, ds[i])
  <2>1. es[i] = ClosedEvent(ds[i]) /\ ds[i] \in SurfaceId BY <1>1
  <2>2. ClosedEvent(ds[i]) \in Event /\ ClosedEvent(ds[i]).id = ds[i] /\ Ends(ClosedEvent(ds[i]).kind, ds[i])
    BY <2>1, ClosedTypes DEF Ends
  <2>3. QED BY <2>1, <2>2, Zenon
<1>3. es \in Seq(Event)
  <2>1. es = [i \in 1..Len(ds) |-> es[i]] BY <1>1 DEF es, Closing
  <2>2. \A i \in 1..Len(ds) : es[i] \in Event BY <1>1, <1>2, Zenon
  <2>3. QED BY <1>1, <2>1, <2>2
<1>4. ASSUME NEW k, NEW s
      PROVE  Has(es, k, s) <=> s \in S /\ Ends(k, s)
  <2>1. ASSUME NEW i \in DOMAIN es, Is(es[i], k, s)
        PROVE  s \in S /\ Ends(k, s)
    <3>1. s = ds[i] /\ k = es[i].kind BY <1>1, <1>2, <2>1 DEF Is
    <3>2. QED BY <1>1, <1>2, <3>1
  <2>2. ASSUME s \in S, Ends(k, s) PROVE Has(es, k, s)
    <3>1. PICK i \in DOMAIN ds : ds[i] = s BY <2>2
    <3>2. Is(es[i], k, s)
      <4>1. es[i].id = s /\ Ends(es[i].kind, s) BY <1>2, <3>1
      <4>2. es[i].kind = k BY <2>2, <4>1 DEF Ends
      <4>3. QED BY <4>1, <4>2 DEF Is
    <3>3. QED BY <1>1, <3>2 DEF Has
  <2>3. QED BY <2>1, <2>2 DEF Has
<1>5. ASSUME NEW i \in DOMAIN es, NEW s PROVE ~Is(es[i], "overlay", s) /\ ~Places(es[i], s)
  BY <1>1, <1>2 DEF Is, Places, Ends
<1>6. \A s : ~HasPlace(es, s) /\ ~Has(es, "overlay", s) BY <1>5 DEF HasPlace, Has
<1>7. ASSUME NEW s \in SurfaceId PROVE SaysInOrder(es, s)
  <2>0. ~Ends("toplevel", s) BY DEF Ends
  <2>1. ~Has(es, "toplevel", s) BY <1>4, <2>0, Zenon
  <2>2. Before(es, "toplevel", s, "frame", s) /\ Before(es, "overlay", s, "frame", s)
    BY <1>6, <2>1, BeforeNone
  <2>3. Once(es, s) /\ OnParent(es, s, surfaces'[s].parent) /\ LastPlace(es, s, surfaces'[s].spot)
    BY <1>5 DEF Once, OnParent, LastPlace
  <2>4. QED BY <2>2, <2>3 DEF SaysInOrder
<1>8. QED BY <1>3, <1>4, <1>6, <1>7 DEF es

\* The surfaces of clients that are gone: each of them has its end
LEMMA ReapSteps ==
    ASSUME TypeOK, HostOK, Reap PROVE \E es : HostStep(es)
<1>1. /\ surfaces \in [SurfaceId -> Surface] /\ surfaces' = Forgotten(Dead)
      /\ UNCHANGED <<next_surface_id, paneVars>>
      /\ Dead \subseteq SurfaceId /\ Dead = ToplevelsOf(Dead) \cup PopupsOf(Dead)
      /\ ToplevelsOf(Dead) \subseteq Dead /\ PopupsOf(Dead) \subseteq Dead
      /\ Dead = {s \in SurfaceId : surfaces[s].tracked /\ ~surfaces[s].alive}
      /\ event_queue \in Seq(Event) /\ next_surface_id \in Nat
  BY DEF Reap, HostOnly, TypeOK, HostTypes, Dead, Tracked, ToplevelsOf, PopupsOf, HostOK, Surface
<1>2. IsFiniteSet(SurfaceId)
  BY HostAssumption, FS_Interval DEF SurfaceId
<1>3. IsFiniteSet(ToplevelsOf(Dead)) /\ IsFiniteSet(PopupsOf(Dead))
  BY <1>1, <1>2, FS_Subset
<1>4. PICK ts \in SetToSeqs(ToplevelsOf(Dead)), ps \in SetToSeqs(PopupsOf(Dead)) :
         event_queue' = event_queue \o Closing(ts \o ps)
  BY DEF Reap, Emit, Closing
<1>5. /\ ts \in Seq(ToplevelsOf(Dead)) /\ ps \in Seq(PopupsOf(Dead))
      /\ \A s \in ToplevelsOf(Dead) : \E i \in DOMAIN ts : ts[i] = s
      /\ \A s \in PopupsOf(Dead) : \E i \in DOMAIN ps : ps[i] = s
  BY <1>3, InSomeOrder
<1> DEFINE ds == ts \o ps
           es == Closing(ds)
<1>6. ds \in Seq(Dead) /\ \A s \in Dead : \E i \in DOMAIN ds : ds[i] = s
  <2>1. ts \in Seq(Dead) /\ ps \in Seq(Dead) BY <1>1, <1>5
  <2>2. /\ ds \in Seq(Dead)
        /\ \A i \in DOMAIN ts : i \in DOMAIN ds /\ ds[i] = ts[i]
        /\ \A i \in DOMAIN ps : Len(ts) + i \in DOMAIN ds /\ ds[Len(ts) + i] = ps[i]
    BY <2>1, Concat
  <2> HIDE DEF ds
  <2>3. ASSUME NEW s \in ToplevelsOf(Dead) PROVE \E i \in DOMAIN ds : ds[i] = s
    <3>1. PICK i \in DOMAIN ts : ts[i] = s BY <1>5
    <3>2. QED BY <2>2, <3>1
  <2>4. ASSUME NEW s \in PopupsOf(Dead) PROVE \E i \in DOMAIN ds : ds[i] = s
    <3>1. PICK i \in DOMAIN ps : ps[i] = s BY <1>5
    <3>2. QED BY <2>2, <3>1, Zenon
  <2>5. QED BY <1>1, <2>2, <2>3, <2>4
<1> HIDE DEF ds
<1>7. /\ es \in Seq(Event)
      /\ \A k : \A s : Has(es, k, s) <=> s \in Dead /\ Ends(k, s)
      /\ \A s : ~HasPlace(es, s)
      /\ \A s \in SurfaceId : SaysInOrder(es, s)
  BY <1>1, <1>6, ClosingSays
<1> HIDE DEF es
<1>8. ASSUME NEW s \in SurfaceId
      PROVE  /\ surfaces'[s] \in Surface /\ surfaces'[s].role = surfaces[s].role
             /\ surfaces'[s].parent = surfaces[s].parent /\ surfaces'[s].child = surfaces[s].child
             /\ surfaces'[s].announced = surfaces[s].announced /\ surfaces'[s].framed = surfaces[s].framed
             /\ surfaces'[s].spot = surfaces[s].spot
             /\ s \in Dead => ~surfaces'[s].tracked
             /\ s \notin Dead => surfaces'[s] = surfaces[s]
  <2>1. surfaces[s] \in Surface BY <1>1
  <2>2. CASE s \in Dead
    <3>1. surfaces'[s] = [surfaces[s] EXCEPT !.tracked = FALSE, !.alive = FALSE] BY <1>1, <2>2 DEF Forgotten
    <3>2. QED BY <2>1, <2>2, <3>1 DEF Surface
  <2>3. CASE s \notin Dead
    <3>1. surfaces'[s] = surfaces[s] BY <1>1, <2>3 DEF Forgotten
    <3>2. QED BY <2>1, <2>3, <3>1
  <2>4. QED BY <2>2, <2>3
<1>9. surfaces' \in [SurfaceId -> Surface] BY <1>1, <1>8 DEF Forgotten
<1>10. ASSUME NEW s \in SurfaceId PROVE Changed(s)
  <2>1. s \in Dead => surfaces[s].role # "none" /\ surfaces[s].tracked BY <1>1 DEF HostOK
  <2>2. QED BY <1>8, <2>1 DEF Changed, HostOK
<1>11. HostOK' /\ \A s \in SurfaceId : Grows(s) BY <1>1, <1>9, <1>10, ChangedInPlace
<1>12. ASSUME NEW s \in SurfaceId PROVE Says(es, s)
  <2>1. /\ s \in Dead => surfaces[s].role # "none" /\ surfaces[s].tracked /\ ~surfaces'[s].tracked
        /\ s \notin Dead => surfaces'[s] = surfaces[s]
    BY <1>1, <1>8 DEF HostOK
  <2>2. /\ ~Has(es, "toplevel", s) /\ ~Has(es, "overlay", s) /\ ~Has(es, "frame", s)
        /\ Has(es, "toplevel closed", s) <=> s \in Dead /\ ~Over(s)
        /\ Has(es, "overlay closed", s) <=> s \in Dead /\ Over(s)
        /\ \A k \in Kinds : Has(es, k, s) => s \in Dead
    <3>1. \A k : Has(es, k, s) <=> s \in Dead /\ Ends(k, s)
      BY <1>7, Zenon
    <3>2. /\ ~Ends("toplevel", s) /\ ~Ends("overlay", s) /\ ~Ends("frame", s)
          /\ Ends("toplevel closed", s) <=> ~Over(s)
          /\ Ends("overlay closed", s) <=> Over(s)
      BY DEF Ends
    <3>3. QED BY <3>1, <3>2, Zenon
  <2>3. QED BY <1>8, <2>1, <2>2 DEF Says
<1>13. HostStep(es) BY <1>1, <1>4, <1>7, <1>9, <1>11, <1>12 DEF HostStep, es, ds
<1>14. QED BY <1>13

-----------------------------------------------------------------------------
(* The GTK thread *)

\* The event that is handled, and what is behind it in the queue
Handles(e) ==
    /\ event_queue # <<>> /\ e = Head(event_queue) /\ event_queue' = Tail(event_queue)
    /\ UNCHANGED hostVars

\* What the event and those behind it say of a surface
Behind(e, s) ==
    /\ \A k : Has(event_queue, k, s) <=> Is(e, k, s) \/ Has(event_queue', k, s)
    /\ HasPlace(event_queue, s) <=> Places(e, s) \/ HasPlace(event_queue', s)
    /\ Is(e, "toplevel closed", s) => ~Has(event_queue, "toplevel", s)
    /\ Is(e, "overlay closed", s) => ~Has(event_queue, "overlay", s)
    /\ Is(e, "frame", s) => ~Has(event_queue, "toplevel", s) /\ ~Has(event_queue, "overlay", s)
    /\ Is(e, "overlay", s) => /\ ~Has(event_queue, "toplevel", surfaces[s].parent)
                              /\ ~Has(event_queue', "overlay", s)
                              /\ e.parent = surfaces[s].parent
    /\ Places(e, s) /\ ~HasPlace(event_queue', s) => e.spot = surfaces[s].spot

\* The orders of the queue tell which of them hold
LEMMA BehindHead ==
    ASSUME TypeOK, EventsOK, NEW e, Handles(e), NEW s \in SurfaceId
    PROVE  e \in Event /\ Behind(e, s) /\ InOrder(s)'
<1> DEFINE q == event_queue
           p == surfaces[s].parent
<1>1. q \in Seq(Event) /\ q # <<>> /\ e = Head(q) /\ event_queue' = Tail(q) /\ surfaces' = surfaces /\ e \in Event
  BY DEF TypeOK, Handles, hostVars
<1>2. InOrder(s) BY DEF EventsOK
<1>3. \A k : Has(q, k, s) <=> Is(e, k, s) \/ Has(Tail(q), k, s) BY <1>1, HasTail, Zenon
<1>4. HasPlace(q, s) <=> Places(e, s) \/ HasPlace(Tail(q), s) BY <1>1, PlaceTail, Zenon
<1>5. /\ Before(Tail(q), "toplevel", s, "toplevel closed", s)
      /\ Is(e, "toplevel closed", s) => ~Has(q, "toplevel", s)
  BY <1>1, <1>2, BeforeTail, Zenon DEF InOrder
<1>6. /\ Before(Tail(q), "overlay", s, "overlay closed", s)
      /\ Is(e, "overlay closed", s) => ~Has(q, "overlay", s)
  BY <1>1, <1>2, BeforeTail, Zenon DEF InOrder
<1>7. /\ Before(Tail(q), "toplevel", s, "frame", s)
      /\ Is(e, "frame", s) => ~Has(q, "toplevel", s)
  BY <1>1, <1>2, BeforeTail, Zenon DEF InOrder
<1>8. /\ Before(Tail(q), "overlay", s, "frame", s)
      /\ Is(e, "frame", s) => ~Has(q, "overlay", s)
  BY <1>1, <1>2, BeforeTail, Zenon DEF InOrder
<1>9. /\ Before(Tail(q), "toplevel", p, "overlay", s)
      /\ Is(e, "overlay", s) => ~Has(q, "toplevel", p)
  BY <1>1, <1>2, BeforeTail, Zenon DEF InOrder
<1>10. Once(Tail(q), s) /\ (Is(e, "overlay", s) => ~Has(Tail(q), "overlay", s))
  BY <1>1, <1>2, OnceTail, Zenon DEF InOrder
<1>11. OnParent(Tail(q), s, p) /\ (Is(e, "overlay", s) => e.parent = p)
  BY <1>1, <1>2, OnParentTail, Zenon DEF InOrder
<1>12. /\ LastPlace(Tail(q), s, surfaces[s].spot)
       /\ Places(e, s) /\ ~HasPlace(Tail(q), s) => e.spot = surfaces[s].spot
  BY <1>1, <1>2, LastPlaceTail, Zenon DEF InOrder
<1>13. Behind(e, s)
  BY <1>1, <1>3, <1>4, <1>5, <1>6, <1>7, <1>8, <1>9, <1>10, <1>11, <1>12 DEF Behind
<1>14. InOrder(s)'
  BY <1>1, <1>5, <1>6, <1>7, <1>8, <1>9, <1>10, <1>11, <1>12 DEF InOrder
<1>15. QED BY <1>1, <1>13, <1>14

\* What is queued stays right when an event is taken from it
LEMMA HandledEvents ==
    ASSUME TypeOK, HostOK, EventsOK, NEW e, Handles(e) PROVE EventsOK'
<1>1. surfaces' = surfaces /\ Tracked' = Tracked /\ (\A s : Over(s)' <=> Over(s))
  BY DEF Handles, hostVars, Tracked, Over
<1> SUFFICES ASSUME NEW s \in SurfaceId PROVE Queued(s)' /\ InOrder(s)'
  BY DEF EventsOK
<1> DEFINE p == surfaces[s].parent
<1>2. Queued(s) /\ Behind(e, s) /\ InOrder(s)' BY BehindHead DEF EventsOK
<1>3. {"toplevel", "overlay", "frame", "toplevel closed", "overlay closed"} \subseteq Kinds BY DEF Kinds
<1>4. ASSUME Over(s) PROVE \A k : Has(event_queue', k, p) => Has(event_queue, k, p)
  <2>1. surfaces \in [SurfaceId -> Surface] /\ p # None BY <1>4 DEF TypeOK, HostTypes, HostOK
  <2>2. p \in SurfaceId BY <2>1 DEF Surface, IdOrNone
  <2>3. Behind(e, p) BY <2>2, BehindHead
  <2>4. QED BY <2>3 DEF Behind
<1>5. Queued(s)'
  <2>1. \A k \in Kinds : Has(event_queue', k, s) => surfaces[s].role # "none" BY <1>2 DEF Queued, Behind
  <2>2. /\ Has(event_queue', "toplevel", s) => surfaces[s].announced /\ ~Over(s)
        /\ Has(event_queue', "overlay", s) => surfaces[s].announced /\ Over(s)
        /\ Has(event_queue', "frame", s) => surfaces[s].framed
        /\ Has(event_queue', "toplevel closed", s) \/ Has(event_queue', "overlay closed", s) => s \notin Tracked
    BY <1>2 DEF Queued, Behind
  <2>3. /\ Has(event_queue', "toplevel", s) => s \in Tracked \/ Has(event_queue', "toplevel closed", s)
        /\ Has(event_queue', "overlay", s) => s \in Tracked \/ Has(event_queue', "overlay closed", s)
    BY <1>2 DEF Queued, Behind
  <2>4. surfaces[s].framed /\ (Has(event_queue', "toplevel", s) \/ Has(event_queue', "overlay", s))
           => Has(event_queue', "frame", s)
    BY <1>2 DEF Queued, Behind
  <2>5. surfaces[s].announced /\ Over(s) /\ Has(event_queue', "toplevel", p) => Has(event_queue', "overlay", s)
    BY <1>2, <1>4 DEF Queued, Behind
  <2>6. QED BY <1>1, <2>1, <2>2, <2>3, <2>4, <2>5 DEF Queued
<1>6. QED BY <1>2, <1>5

\* What is known of a surface when an event is handled
Known(e, s) ==
    /\ Queued(s) /\ Behind(e, s) /\ OnRecord(s) /\ Shown(s) /\ Drawn(s)
    /\ surfaces' = surfaces /\ Tracked' = Tracked /\ (Over(s)' <=> Over(s))
    /\ e.id \in SurfaceId /\ surfaces[s].parent \in IdOrNone
    /\ surfaces[s].framed => surfaces[s].announced
    /\ Over(s) => surfaces[s].parent \in SurfaceId

\* The invariant gives all of it
LEMMA KnownOf ==
    ASSUME ShowInv, NEW e, Handles(e), NEW s \in SurfaceId PROVE Known(e, s)
<1>1. Queued(s) /\ OnRecord(s) /\ Shown(s) /\ Drawn(s) /\ Behind(e, s) /\ e \in Event
  BY BehindHead DEF ShowInv, EventsOK, PanesOK
<1>2. e.id \in SurfaceId BY <1>1 DEF Event
<1>3. surfaces' = surfaces /\ Tracked' = Tracked /\ (Over(s)' <=> Over(s))
  BY DEF Handles, hostVars, Tracked, Over
<1>4. /\ surfaces[s].framed => surfaces[s].announced
      /\ Over(s) => surfaces[s].parent # None
      /\ surfaces[s].parent \in IdOrNone
  BY DEF ShowInv, HostOK, TypeOK, HostTypes, Surface
<1>5. QED BY <1>1, <1>2, <1>3, <1>4 DEF Known, IdOrNone

\* A toplevel gets its pane, or is refused: what is drawn on it is still queued
LEMMA ToplevelCreated ==
    ASSUME ShowInv, NEW e, Handles(e), OnToplevelCreated(e) PROVE PanesOK'
<1> DEFINE c == event_queue'
<1>1. /\ e.kind = "toplevel" /\ popup_to_pane' = popup_to_pane /\ overlay' = overlay
      /\ place' = place /\ painted' = painted
      /\ past'.kept = past.kept /\ past'.unimported = past.unimported
      /\ past.refused \subseteq past'.refused
      /\ \/ panes' = panes \cup {e.id} /\ surface_to_pane' = surface_to_pane \cup {e.id}
         \/ panes' = panes /\ surface_to_pane' = surface_to_pane /\ e.id \in past'.refused
  BY DEF OnToplevelCreated, ShowInv, TypeOK, CockpitTypes, Past
<1> SUFFICES ASSUME NEW s \in SurfaceId PROVE OnRecord(s)' /\ Shown(s)' /\ Drawn(s)'
  BY DEF PanesOK
<1> DEFINE p == surfaces[s].parent
<1>2. Known(e, s) BY KnownOf
<1>3. /\ \A k : Has(event_queue, k, s) <=> (k = "toplevel" /\ s = e.id) \/ Has(c, k, s)
      /\ HasPlace(event_queue, s) <=> HasPlace(c, s)
  BY <1>1, <1>2 DEF Known, Behind, Is, Places
<1>4. /\ Has(event_queue, "toplevel", s) <=> s = e.id \/ Has(c, "toplevel", s)
      /\ Has(event_queue, "overlay", s) <=> Has(c, "overlay", s)
      /\ Has(event_queue, "frame", s) <=> Has(c, "frame", s)
      /\ Has(event_queue, "toplevel closed", s) <=> Has(c, "toplevel closed", s)
      /\ Has(event_queue, "overlay closed", s) <=> Has(c, "overlay closed", s)
  BY <1>3
<1>5. Over(s) /\ p = e.id => Has(event_queue, "toplevel", p)
  <2>1. ASSUME Over(s), p = e.id PROVE Known(e, p) BY <1>2, <2>1, KnownOf DEF Known
  <2>2. ASSUME Over(s), p = e.id PROVE Is(e, "toplevel", p) BY <1>1, <2>2 DEF Is
  <2>3. QED BY <2>1, <2>2 DEF Known, Behind
<1> HIDE DEF c
<1>6. OnRecord(s)' BY <1>1, <1>2, <1>4 DEF Known, OnRecord, Queued, c
<1>7. Shown(s)' BY <1>1, <1>2, <1>4, <1>5 DEF Known, Shown, Queued, c
<1>8. Drawn(s)' BY <1>1, <1>2, <1>3, <1>4 DEF Known, Drawn, Queued, c
<1>9. QED BY <1>6, <1>7, <1>8

\* A popup or a child is drawn on its satellite, or left out if there is none
LEMMA OverlayCreated ==
    ASSUME ShowInv, NEW e, Handles(e), OnOverlayCreated(e) PROVE PanesOK'
<1> DEFINE c == event_queue'
           on == e.parent \in surface_to_pane
<1>1. /\ e.kind = "overlay" /\ panes' = panes /\ surface_to_pane' = surface_to_pane /\ painted' = painted
      /\ past' = past
      /\ popup_to_pane' = IF on THEN [popup_to_pane EXCEPT ![e.id] = e.parent] ELSE popup_to_pane
      /\ overlay' = IF on THEN [overlay EXCEPT ![e.id] = e.parent] ELSE overlay
      /\ place' = IF on THEN [place EXCEPT ![e.id] = e.spot] ELSE place
  BY DEF OnOverlayCreated, treeVars
<1> SUFFICES ASSUME NEW s \in SurfaceId PROVE OnRecord(s)' /\ Shown(s)' /\ Drawn(s)'
  BY DEF PanesOK
<1> DEFINE p == surfaces[s].parent
<1>2. Known(e, s) BY KnownOf
<1>3. /\ \A k : Has(event_queue, k, s) <=> (k = "overlay" /\ s = e.id) \/ Has(c, k, s)
      /\ s # e.id => (HasPlace(event_queue, s) <=> HasPlace(c, s))
      /\ s = e.id => e.parent = p /\ ~Has(c, "overlay", s) /\ (~HasPlace(c, s) => e.spot = surfaces[s].spot)
  BY <1>1, <1>2 DEF Known, Behind, Is, Places
<1>4. /\ Has(event_queue, "toplevel", s) <=> Has(c, "toplevel", s)
      /\ Has(event_queue, "overlay", s) <=> s = e.id \/ Has(c, "overlay", s)
      /\ Has(event_queue, "frame", s) <=> Has(c, "frame", s)
      /\ Has(event_queue, "toplevel closed", s) <=> Has(c, "toplevel closed", s)
      /\ Has(event_queue, "overlay closed", s) <=> Has(c, "overlay closed", s)
  BY <1>3
<1>5. /\ s # e.id \/ ~on => popup_to_pane'[s] = popup_to_pane[s] /\ overlay'[s] = overlay[s] /\ place'[s] = place[s]
      /\ s = e.id /\ on => popup_to_pane'[s] = p /\ overlay'[s] = p /\ place'[s] = e.spot
  <2>1. /\ popup_to_pane \in [SurfaceId -> IdOrNone] /\ overlay \in [SurfaceId -> IdOrNone]
        /\ place \in [SurfaceId -> Spot]
    BY DEF ShowInv, TypeOK, CockpitTypes
  <2>2. QED BY <1>1, <1>3, <2>1
<1>6. s = e.id => surfaces[s].announced /\ Over(s) /\ p \in SurfaceId /\ overlay[s] = None
                  /\ s \notin panes /\ s \notin surface_to_pane
                  /\ (s \in Tracked \/ Has(event_queue, "overlay closed", s))
                  /\ (surfaces[s].framed => Has(event_queue, "frame", s))
  BY <1>2, <1>4 DEF Known, Queued, OnRecord
<1>7. s = e.id => (on <=> p \in surface_to_pane) BY <1>3
<1> HIDE DEF c, on, p
<1>8. OnRecord(s)' BY <1>1, <1>2, <1>3, <1>4, <1>5, <1>6 DEF Known, OnRecord, c, p
<1>9. Shown(s)'
  <2>1. CASE s = e.id BY <1>1, <1>2, <1>5, <1>6, <1>7, <2>1 DEF Known, Shown, c, p
  <2>2. CASE s # e.id BY <1>1, <1>2, <1>4, <1>5, <2>2 DEF Known, Shown, c, p
  <2>3. QED BY <2>1, <2>2
<1>10. Drawn(s)' BY <1>1, <1>2, <1>3, <1>4, <1>5, <1>6 DEF Known, Drawn, c, p
<1>11. QED BY <1>8, <1>9, <1>10

\* A popup that is drawn moves
LEMMA Moved ==
    ASSUME ShowInv, NEW e, Handles(e), OnMoved(e) PROVE PanesOK'
<1> DEFINE c == event_queue'
<1>1. /\ e.kind = "moved" /\ panes' = panes /\ surface_to_pane' = surface_to_pane
      /\ popup_to_pane' = popup_to_pane /\ overlay' = overlay /\ painted' = painted /\ past' = past
      /\ place' = IF overlay[e.id] # None THEN [place EXCEPT ![e.id] = e.spot] ELSE place
  BY DEF OnMoved, treeVars
<1> SUFFICES ASSUME NEW s \in SurfaceId PROVE OnRecord(s)' /\ Shown(s)' /\ Drawn(s)'
  BY DEF PanesOK
<1>2. Known(e, s) BY KnownOf
<1>3. /\ \A k : Has(event_queue, k, s) <=> (k = "moved" /\ s = e.id) \/ Has(c, k, s)
      /\ s # e.id => (HasPlace(event_queue, s) <=> HasPlace(c, s))
      /\ s = e.id => (~HasPlace(c, s) => e.spot = surfaces[s].spot)
  BY <1>1, <1>2 DEF Known, Behind, Is, Places
<1>4. /\ Has(event_queue, "toplevel", s) <=> Has(c, "toplevel", s)
      /\ Has(event_queue, "overlay", s) <=> Has(c, "overlay", s)
      /\ Has(event_queue, "frame", s) <=> Has(c, "frame", s)
      /\ Has(event_queue, "toplevel closed", s) <=> Has(c, "toplevel closed", s)
      /\ Has(event_queue, "overlay closed", s) <=> Has(c, "overlay closed", s)
  BY <1>3
<1>5. /\ s # e.id => place'[s] = place[s]
      /\ s = e.id /\ overlay[s] # None => place'[s] = e.spot
  <2>1. place \in [SurfaceId -> Spot] BY DEF ShowInv, TypeOK, CockpitTypes
  <2>2. QED BY <1>1, <2>1
<1> HIDE DEF c
<1>6. OnRecord(s)' BY <1>1, <1>2, <1>4 DEF Known, OnRecord, c
<1>7. Shown(s)' BY <1>1, <1>2, <1>4 DEF Known, Shown, c
<1>8. Drawn(s)' BY <1>1, <1>2, <1>3, <1>4, <1>5 DEF Known, Drawn, c
<1>9. QED BY <1>6, <1>7, <1>8

\* A frame finds the picture it is for: what announces it is no longer queued
LEMMA FrameShown ==
    ASSUME ShowInv, NEW e, Handles(e), OnFrame(e) PROVE PanesOK'
<1> DEFINE c == event_queue'
<1>1. /\ e.kind = "frame" /\ panes' = panes /\ surface_to_pane' = surface_to_pane
      /\ popup_to_pane' = popup_to_pane /\ overlay' = overlay /\ place' = place
      /\ past'.kept = past.kept /\ past'.refused = past.refused
      /\ painted \subseteq painted' /\ past.unimported \subseteq past'.unimported
      /\ overlay[e.id] # None \/ (popup_to_pane[e.id] = None /\ e.id \in surface_to_pane)
           => e.id \in painted' \/ e.id \in past'.unimported
  BY DEF OnFrame, Repaints, treeVars, ShowInv, TypeOK, CockpitTypes, Past
<1> SUFFICES ASSUME NEW s \in SurfaceId PROVE OnRecord(s)' /\ Shown(s)' /\ Drawn(s)'
  BY DEF PanesOK
<1>2. Known(e, s) BY KnownOf
<1>3. /\ \A k : Has(event_queue, k, s) <=> (k = "frame" /\ s = e.id) \/ Has(c, k, s)
      /\ HasPlace(event_queue, s) <=> HasPlace(c, s)
      /\ s = e.id => ~Has(event_queue, "toplevel", s)
  BY <1>1, <1>2 DEF Known, Behind, Is, Places
<1>4. /\ Has(event_queue, "toplevel", s) <=> Has(c, "toplevel", s)
      /\ Has(event_queue, "overlay", s) <=> Has(c, "overlay", s)
      /\ Has(event_queue, "frame", s) <=> s = e.id \/ Has(c, "frame", s)
      /\ Has(event_queue, "toplevel closed", s) <=> Has(c, "toplevel closed", s)
      /\ Has(event_queue, "overlay closed", s) <=> Has(c, "overlay closed", s)
  BY <1>3
<1> HIDE DEF c
<1>5. (s \in painted => s \in painted') /\ (s \in past.unimported => s \in past'.unimported) BY <1>1
<1>6. s = e.id /\ s \in Tracked /\ surfaces[s].framed /\ (s \in panes \/ overlay[s] # None)
        => s \in painted' \/ s \in past'.unimported
  <2> SUFFICES ASSUME s = e.id, s \in Tracked, surfaces[s].framed, s \in panes, overlay[s] = None
               PROVE  s \in painted' \/ s \in past'.unimported
    BY <1>1
  <2>1. surfaces[s].announced /\ ~Over(s) /\ popup_to_pane[s] = None BY <1>2 DEF Known, OnRecord
  <2>2. s \in surface_to_pane BY <1>2 DEF Known, OnRecord
  <2>3. QED BY <1>1, <2>1, <2>2
<1>7. OnRecord(s)' BY <1>1, <1>2, <1>4 DEF Known, OnRecord, c
<1>8. Shown(s)' BY <1>1, <1>2, <1>4 DEF Known, Shown, c
<1>9. Drawn(s)' BY <1>1, <1>2, <1>3, <1>4, <1>5, <1>6 DEF Known, Drawn, c
<1>10. QED BY <1>7, <1>8, <1>9

\* The pictures that are removed, and those that are not
LEMMA RemovesPictures ==
    ASSUME TypeOK, NEW gone, Removed(gone), NEW s \in SurfaceId
    PROVE  /\ overlay' = [p \in SurfaceId |-> IF p \in gone THEN None ELSE overlay[p]]
           /\ s \in gone => overlay'[s] = None
           /\ s \notin gone => overlay'[s] = overlay[s] /\ (s \in painted => s \in painted')
BY DEF Removed, TypeOK, CockpitTypes

\* An overlay is taken off
LEMMA OverlayClosed ==
    ASSUME ShowInv, NEW e, Handles(e), OnOverlayClosed(e) PROVE PanesOK'
<1> DEFINE c == event_queue'
<1>1. /\ e.kind = "overlay closed" /\ panes' = panes /\ surface_to_pane' = surface_to_pane
      /\ popup_to_pane' = [popup_to_pane EXCEPT ![e.id] = None] /\ place' = place /\ past' = past
      /\ \/ overlay[e.id] = None /\ overlay' = overlay /\ painted' = painted
         \/ Removed({e.id})
  BY DEF OnOverlayClosed, treeVars
<1> SUFFICES ASSUME NEW s \in SurfaceId PROVE OnRecord(s)' /\ Shown(s)' /\ Drawn(s)'
  BY DEF PanesOK
<1>2. Known(e, s) BY KnownOf
<1>3. /\ \A k : Has(event_queue, k, s) <=> (k = "overlay closed" /\ s = e.id) \/ Has(c, k, s)
      /\ HasPlace(event_queue, s) <=> HasPlace(c, s)
  BY <1>1, <1>2 DEF Known, Behind, Is, Places
<1>4. /\ Has(event_queue, "toplevel", s) <=> Has(c, "toplevel", s)
      /\ Has(event_queue, "overlay", s) <=> Has(c, "overlay", s)
      /\ Has(event_queue, "frame", s) <=> Has(c, "frame", s)
      /\ Has(event_queue, "toplevel closed", s) <=> Has(c, "toplevel closed", s)
      /\ Has(event_queue, "overlay closed", s) <=> s = e.id \/ Has(c, "overlay closed", s)
  BY <1>3
<1>5. /\ s = e.id => popup_to_pane'[s] = None /\ overlay'[s] = None /\ s \notin Tracked
      /\ s # e.id => /\ popup_to_pane'[s] = popup_to_pane[s] /\ overlay'[s] = overlay[s]
                     /\ s \in painted => s \in painted'
  <2>1. TypeOK /\ popup_to_pane \in [SurfaceId -> IdOrNone] BY DEF ShowInv, TypeOK, CockpitTypes
  <2>2. s = e.id => s \notin Tracked BY <1>2, <1>4 DEF Known, Queued
  <2>3. CASE overlay[e.id] = None /\ overlay' = overlay /\ painted' = painted
    BY <1>1, <2>1, <2>2, <2>3
  <2>4. CASE Removed({e.id})
    <3>1. /\ s \in {e.id} => overlay'[s] = None
          /\ s \notin {e.id} => overlay'[s] = overlay[s] /\ (s \in painted => s \in painted')
      BY <2>1, <2>4, RemovesPictures
    <3>2. QED BY <1>1, <2>1, <2>2, <3>1
  <2>5. QED BY <1>1, <2>3, <2>4
<1> HIDE DEF c
<1>6. OnRecord(s)' BY <1>1, <1>2, <1>4, <1>5 DEF Known, OnRecord, c
<1>7. Shown(s)' BY <1>1, <1>2, <1>4, <1>5 DEF Known, Shown, c
<1>8. Drawn(s)' BY <1>1, <1>2, <1>3, <1>4, <1>5 DEF Known, Drawn, c
<1>9. QED BY <1>6, <1>7, <1>8

\* The pane of x goes, with everything that is drawn on it
LEMMA TornOff ==
    ASSUME ShowInv, NEW x \in SurfaceId, Removed(Torn(x)), panes' = panes \ {x},
           NEW s \in SurfaceId
    PROVE  /\ s # x /\ overlay[s] # x => overlay'[s] = overlay[s] /\ (s \in painted => s \in painted')
           /\ s = x \/ overlay[s] = x => overlay'[s] = None
           /\ s \in panes' => s \in panes /\ s # x /\ overlay[s] # x
<1>1. /\ s \in Torn(x) => overlay'[s] = None
      /\ s \notin Torn(x) => overlay'[s] = overlay[s] /\ (s \in painted => s \in painted')
  BY RemovesPictures DEF ShowInv
<1>2. s \in Torn(x) <=> s = x \/ overlay[s] = x BY DEF Torn
<1>3. s \in panes => ~Over(s) /\ overlay[s] = None BY DEF ShowInv, PanesOK, OnRecord
<1>4. x # None BY Ids
<1>5. QED BY <1>1, <1>2, <1>3, <1>4

\* A toplevel is gone: so is its pane, unless it is the last one
LEMMA ToplevelClosed ==
    ASSUME ShowInv, NEW e, Handles(e), OnToplevelClosed(e) PROVE PanesOK'
<1> DEFINE c == event_queue'
           x == e.id
<1>1. /\ e.kind = "toplevel closed" /\ surface_to_pane' = surface_to_pane \ {x}
      /\ popup_to_pane' = popup_to_pane /\ place' = place
      /\ past'.refused = past.refused /\ past'.unimported = past.unimported
      /\ \/ /\ panes' = panes /\ overlay' = overlay /\ painted' = painted
            /\ x \in surface_to_pane => past'.kept = past.kept \cup {x}
            /\ x \notin surface_to_pane => past' = past
         \/ panes' = panes \ {x} /\ Removed(Torn(x)) /\ past' = past
  BY DEF OnToplevelClosed, ShowInv, TypeOK, CockpitTypes, Past
<1> SUFFICES ASSUME NEW s \in SurfaceId PROVE OnRecord(s)' /\ Shown(s)' /\ Drawn(s)'
  BY DEF PanesOK
<1> DEFINE p == surfaces[s].parent
<1>2. Known(e, s) /\ x \in SurfaceId BY KnownOf DEF Known
<1>3. /\ \A k : Has(event_queue, k, s) <=> (k = "toplevel closed" /\ s = x) \/ Has(c, k, s)
      /\ HasPlace(event_queue, s) <=> HasPlace(c, s)
  BY <1>1, <1>2 DEF Known, Behind, Is, Places
<1>4. /\ Has(event_queue, "toplevel", s) <=> Has(c, "toplevel", s)
      /\ Has(event_queue, "overlay", s) <=> Has(c, "overlay", s)
      /\ Has(event_queue, "frame", s) <=> Has(c, "frame", s)
      /\ Has(event_queue, "toplevel closed", s) <=> s = x \/ Has(c, "toplevel closed", s)
      /\ Has(event_queue, "overlay closed", s) <=> Has(c, "overlay closed", s)
  BY <1>3
<1>5. s = x => s \notin Tracked /\ surfaces[s].role # "none"
  <2>1. "toplevel closed" \in Kinds BY DEF Kinds
  <2>2. QED BY <1>2, <1>4, <2>1 DEF Known, Queued
<1>6. /\ overlay'[s] = overlay[s] \/ overlay'[s] = None
      /\ s # x /\ overlay[s] # x => overlay'[s] = overlay[s]
      /\ s \in panes' => s \in panes
      /\ s \in Tracked /\ (s \in panes' \/ overlay'[s] # None) => (s \in painted => s \in painted')
  <2>1. CASE panes' = panes /\ overlay' = overlay /\ painted' = painted BY <2>1
  <2>2. CASE panes' = panes \ {x} /\ Removed(Torn(x))
    <3>1. /\ s # x /\ overlay[s] # x => overlay'[s] = overlay[s] /\ (s \in painted => s \in painted')
          /\ s = x \/ overlay[s] = x => overlay'[s] = None
          /\ s \in panes' => s \in panes /\ s # x /\ overlay[s] # x
      BY <1>2, <2>2, TornOff
    <3>2. QED BY <3>1
  <2>3. QED BY <1>1, <2>1, <2>2
<1>7. p \in surface_to_pane' => p \in surface_to_pane /\ p # x
  BY <1>1
<1> HIDE DEF c, x, p
<1>8. OnRecord(s)'
  <2>1. s \in surface_to_pane' => s \in surface_to_pane /\ s # x BY <1>1
  <2>2. s \in past'.kept => surfaces[s].role # "none" /\ s \notin Tracked
    BY <1>1, <1>2, <1>5 DEF Known, OnRecord
  <2>3. s \in surface_to_pane' => s \in panes'
    BY <1>1, <1>2 DEF Known, OnRecord
  <2>4. s \in panes' => s \in surface_to_pane' \/ s \in past'.kept
    BY <1>1, <1>2 DEF Known, OnRecord
  <2>5. QED BY <1>1, <1>2, <1>4, <1>6, <2>1, <2>2, <2>3, <2>4 DEF Known, OnRecord, c
<1>9. Shown(s)'
  <2>1. s \in Tracked /\ surfaces[s].announced /\ ~Over(s)
          => s \in surface_to_pane' \/ s \in past'.refused \/ Has(c, "toplevel", s)
    BY <1>1, <1>2, <1>4, <1>5 DEF Known, Shown
  <2>2. s \in Tracked /\ surfaces[s].announced /\ Over(s) /\ p \in surface_to_pane'
          => overlay'[s] = p \/ Has(c, "overlay", s)
    BY <1>2, <1>4, <1>5, <1>6, <1>7 DEF Known, Shown, p
  <2>3. QED BY <1>2, <2>1, <2>2 DEF Known, Shown, c, p
<1>10. Drawn(s)'
  <2>1. overlay'[s] # None /\ ~HasPlace(c, s) => place'[s] = surfaces[s].spot
    BY <1>1, <1>2, <1>3, <1>6 DEF Known, Drawn
  <2>2. s \in Tracked /\ surfaces[s].framed /\ (s \in panes' \/ overlay'[s] # None)
          => s \in painted' \/ s \in past'.unimported \/ Has(c, "frame", s)
    BY <1>1, <1>2, <1>4, <1>6 DEF Known, Drawn
  <2>3. QED BY <1>2, <2>1, <2>2 DEF Known, Drawn, c
<1>11. QED BY <1>8, <1>9, <1>10

\* One event, and all it makes the cockpit do
LEMMA HandledStep ==
    ASSUME ShowInv, HandleHostEvent PROVE HostOK' /\ EventsOK' /\ PanesOK'
<1> DEFINE e == Head(event_queue)
<1>1. Handles(e) BY DEF HandleHostEvent, Handles
<1>2. HostOK' BY DEF HandleHostEvent, hostVars, ShowInv, HostOK, Over
<1>3. EventsOK' BY <1>1, HandledEvents DEF ShowInv
<1>4. \/ OnToplevelCreated(e) \/ OnToplevelClosed(e) \/ OnOverlayCreated(e)
      \/ OnMoved(e) \/ OnOverlayClosed(e) \/ OnFrame(e)
  BY DEF HandleHostEvent
<1> HIDE DEF e
<1>5. PanesOK'
  BY <1>1, <1>4, ToplevelCreated, ToplevelClosed, OverlayCreated, Moved, OverlayClosed, FrameShown
<1>6. QED BY <1>2, <1>3, <1>5

\* What neither the host nor the satellites notice
LEMMA UnseenStep ==
    ASSUME ShowInv, UNCHANGED <<hostVars, event_queue>>
    PROVE  /\ HostOK' /\ EventsOK'
           /\ /\ UNCHANGED <<surface_to_pane, popup_to_pane, overlay, place, painted, past>>
              /\ panes' \ {Terminal} = panes \ {Terminal}
              => PanesOK'
<1>1. surfaces' = surfaces /\ next_surface_id' = next_surface_id /\ event_queue' = event_queue
  BY DEF hostVars
<1>2. Tracked' = Tracked /\ \A s : Over(s)' <=> Over(s) BY <1>1 DEF Tracked, Over
<1>3. HostOK' BY <1>1, <1>2 DEF ShowInv, HostOK
<1>4. EventsOK' BY <1>1, <1>2 DEF ShowInv, EventsOK, Queued, InOrder
<1>5. ASSUME UNCHANGED <<surface_to_pane, popup_to_pane, overlay, place, painted, past>>,
             panes' \ {Terminal} = panes \ {Terminal}
      PROVE  PanesOK'
  <2>1. \A s \in SurfaceId : s \in panes' <=> s \in panes BY <1>5, Ids
  <2>2. QED BY <1>1, <1>2, <1>5, <2>1 DEF ShowInv, PanesOK, OnRecord, Shown, Drawn
<1>6. QED BY <1>3, <1>4, <1>5

-----------------------------------------------------------------------------
(* The seat *)

IsFocus(c, d) == c.op = "focus" /\ c.device = d
IsPress(c, d) == c.op = "press" /\ c.device = d

\* When the first n commands of q have run, d is on s, or on nothing if s is gone: v is
\* the surface it is on now
Told(q, v, d, n, s) ==
    /\ \A j \in 1..n : IsFocus(q[j], d) /\ (\A k \in (j + 1)..n : ~IsFocus(q[k], d)) => q[j].id = s
    /\ (\A k \in 1..n : ~IsFocus(q[k], d)) => v \in {s, None}

\* a surface the host has handed out; one it has forgotten takes no pointer
Handed(s) == s # None => surfaces[s].role # "none"
Forgot(d, s) == d = "pointer" /\ s \in SurfaceId /\ surfaces[s].role # "none" /\ ~surfaces[s].tracked

\* What is named was handed out, so that a surface that is forgotten stays so
Names(d) ==
    /\ \A i \in DOMAIN command_queue :
          IsFocus(command_queue[i], d) \/ IsPress(command_queue[i], d) => Handed(command_queue[i].id)
    /\ Handed(at[d])

\* The seat will be on the picture a press was made on, and on the one that has the
\* focus or the pointer, unless it is one that takes none
SeatOf(d) ==
    /\ \A i \in DOMAIN command_queue :
          IsPress(command_queue[i], d) =>
             \/ Forgot(d, command_queue[i].id)
             \/ Told(command_queue, seat[d], d, i - 1, command_queue[i].id)
    /\ at[d] # None => Forgot(d, at[d]) \/ Told(command_queue, seat[d], d, Len(command_queue), at[d])
    /\ Names(d)

SeatOK == \A d \in Device : SeatOf(d)

\* Later commands change nothing of what is queued before them
LEMMA ToldConcat ==
    ASSUME NEW S, NEW q \in Seq(S), NEW r \in Seq(S), NEW v, NEW d, NEW n \in 0..Len(q), NEW s,
           Told(q, v, d, n, s)
    PROVE  Told(q \o r, v, d, n, s)
<1> DEFINE c == q \o r
<1>1. \A i \in 1..n : c[i] = q[i] BY Concat
<1> HIDE DEF c
<1>2. \A j \in 1..n : \A k \in (j + 1)..n : c[k] = q[k] BY <1>1
<1>3. QED BY <1>1, <1>2 DEF Told, c

\* ... nor do commands that move something else
LEMMA ToldUnfocused ==
    ASSUME NEW S, NEW q \in Seq(S), NEW r \in Seq(S), NEW v, NEW d, NEW s,
           Told(q, v, d, Len(q), s), \A i \in DOMAIN r : ~IsFocus(r[i], d)
    PROVE  Told(q \o r, v, d, Len(q \o r), s)
<1> DEFINE c == q \o r
           n == Len(q)
           m == Len(c)
<1>1. /\ n \in Nat /\ m \in Nat /\ n <= m
      /\ \A i \in 1..n : c[i] = q[i]
      /\ \A i \in 1..m : i > n => i - n \in DOMAIN r /\ c[i] = r[i - n]
  BY Concat
<1> HIDE DEF c, n, m
<1>2. \A i \in 1..m : i > n => ~IsFocus(c[i], d) BY <1>1
<1>3. ASSUME NEW j \in 1..m, IsFocus(c[j], d), \A k \in (j + 1)..m : ~IsFocus(c[k], d) PROVE c[j].id = s
  <2>1. j \in 1..n /\ c[j] = q[j] BY <1>1, <1>2, <1>3
  <2>2. \A k \in (j + 1)..n : k \in (j + 1)..m /\ c[k] = q[k] BY <1>1, <2>1
  <2>3. QED BY <1>3, <2>1, <2>2 DEF Told, n
<1>4. ASSUME \A k \in 1..m : ~IsFocus(c[k], d) PROVE v \in {s, None}
  <2>1. \A k \in 1..n : k \in 1..m /\ c[k] = q[k] BY <1>1
  <2>2. QED BY <1>4, <2>1 DEF Told, n
<1>5. QED BY <1>3, <1>4 DEF Told, c, m

\* The last command decides
LEMMA ToldLast ==
    ASSUME NEW S, NEW q \in Seq(S), NEW r \in Seq(S), NEW v, NEW d, NEW s, r # <<>>,
           IsFocus(r[Len(r)], d), r[Len(r)].id = s
    PROVE  Told(q \o r, v, d, Len(q \o r), s)
<1> DEFINE c == q \o r
           m == Len(c)
<1>1. m \in Nat /\ m \in 1..m /\ c[m] = r[Len(r)] OBVIOUS
<1> HIDE DEF c, m
<1>2. ASSUME NEW j \in 1..m, IsFocus(c[j], d), \A k \in (j + 1)..m : ~IsFocus(c[k], d) PROVE c[j].id = s
  <2>1. ~(m \in (j + 1)..m) BY <1>1, <1>2
  <2>2. j = m BY <1>1, <2>1
  <2>3. QED BY <1>1, <2>2
<1>3. QED BY <1>1, <1>2 DEF Told, c, m

\* The first command has run, and moved the device if it was for it
LEMMA ToldTail ==
    ASSUME NEW S, NEW q \in Seq(S), q # <<>>, NEW v, NEW w, NEW d, NEW n \in 1..Len(q), NEW s,
           Told(q, v, d, n, s),
           IsFocus(Head(q), d) => w \in {Head(q).id, None} \/ Head(q).id # s,
           ~IsFocus(Head(q), d) => w = v
    PROVE  Told(Tail(q), w, d, n - 1, s)
<1> DEFINE t == Tail(q)
<1>1. /\ n \in Nat /\ 1 \in 1..n /\ Head(q) = q[1]
      /\ \A i \in 1..(n - 1) : i + 1 \in 1..n /\ t[i] = q[i + 1]
      /\ \A i \in 1..n : i = 1 \/ (i - 1 \in 1..(n - 1) /\ t[i - 1] = q[i])
  BY Popped
<1> HIDE DEF t
<1>2. ASSUME NEW j \in 1..(n - 1), IsFocus(t[j], d), \A k \in (j + 1)..(n - 1) : ~IsFocus(t[k], d)
      PROVE  t[j].id = s
  <2>1. j + 1 \in 1..n /\ t[j] = q[j + 1] BY <1>1
  <2>2. ASSUME NEW k \in ((j + 1) + 1)..n PROVE ~IsFocus(q[k], d)
    <3>1. k \in 1..n /\ k # 1 /\ k - 1 \in (j + 1)..(n - 1) BY <1>1
    <3>2. QED BY <1>1, <1>2, <3>1
  <2>3. QED BY <1>2, <2>1, <2>2 DEF Told
<1>3. ASSUME \A k \in 1..(n - 1) : ~IsFocus(t[k], d) PROVE w \in {s, None}
  <2>1. \A k \in 2..n : ~IsFocus(q[k], d) BY <1>1, <1>3
  <2>2. CASE IsFocus(q[1], d)
    <3>1. q[1].id = s BY <1>1, <2>1, <2>2 DEF Told
    <3>2. QED BY <1>1, <2>2, <3>1
  <2>3. CASE ~IsFocus(q[1], d)
    <3>1. \A k \in 1..n : ~IsFocus(q[k], d) BY <1>1, <2>1, <2>3
    <3>2. QED BY <1>1, <2>3, <3>1 DEF Told
  <2>4. QED BY <2>2, <2>3
<1>4. QED BY <1>2, <1>3 DEF Told, t

\* What a step of the GTK thread posts: presses are for the picture that is entered, which
\* a device that is moved has been told of last
Posts(r) ==
    /\ r \in Seq(Command) /\ command_queue' = command_queue \o r /\ seat' = seat
    /\ at' \in [Device -> IdOrNone]
    /\ \A d \in Device :
          /\ \A i \in DOMAIN r : IsPress(r[i], d) => i = 1 /\ r[i].id = at[d] /\ at[d] # None
          /\ \A i \in DOMAIN r : IsFocus(r[i], d) => Handed(r[i].id)
          /\ \/ at'[d] = None
             \/ at'[d] = at[d] /\ \A i \in DOMAIN r : ~IsFocus(r[i], d)
             \/ r # <<>> /\ IsFocus(r[Len(r)], d) /\ r[Len(r)].id = at'[d]

\* What is posted keeps the seat right
LEMMA PostsSeat ==
    ASSUME TypeOK, SeatOK, NEW r, Posts(r), surfaces' = surfaces PROVE SeatOK' /\ command_queue' \in Seq(Command)
<1> DEFINE q == command_queue
           c == command_queue'
<1>1. q \in Seq(Command) /\ r \in Seq(Command) /\ c = q \o r /\ c \in Seq(Command) /\ seat' = seat
  BY DEF TypeOK, Posts
<1> SUFFICES ASSUME NEW d \in Device PROVE SeatOf(d)'
  BY <1>1 DEF SeatOK
<1> DEFINE v == seat[d]
<1>2. /\ \A i \in DOMAIN r : IsPress(r[i], d) => i = 1 /\ r[i].id = at[d] /\ at[d] # None
      /\ \A i \in DOMAIN r : IsFocus(r[i], d) => Handed(r[i].id)
      /\ \/ at'[d] = None
         \/ at'[d] = at[d] /\ \A i \in DOMAIN r : ~IsFocus(r[i], d)
         \/ r # <<>> /\ IsFocus(r[Len(r)], d) /\ r[Len(r)].id = at'[d]
  BY DEF Posts
<1>3. SeatOf(d) BY DEF SeatOK
<1>4. ASSUME NEW i \in DOMAIN c, IsPress(c[i], d) PROVE Forgot(d, c[i].id) \/ Told(c, v, d, i - 1, c[i].id)
  <2>1. Len(q) \in Nat /\ Len(q) \in 0..Len(q) BY <1>1
  <2>2. CASE i \in DOMAIN q
    <3>1. c[i] = q[i] /\ i - 1 \in 0..Len(q) BY <1>1, <2>2, Concat
    <3>2. Forgot(d, q[i].id) \/ Told(q, v, d, i - 1, q[i].id) BY <1>3, <1>4, <2>2, <3>1 DEF SeatOf
    <3> HIDE DEF q, c, v
    <3>3. Told(q, v, d, i - 1, q[i].id) => Told(q \o r, v, d, i - 1, q[i].id) BY <1>1, <3>1, ToldConcat
    <3>4. QED BY <1>1, <3>1, <3>2, <3>3
  <2>3. CASE i \notin DOMAIN q
    <3>1. i - Len(q) \in DOMAIN r /\ c[i] = r[i - Len(q)] /\ i \in Nat
      BY <1>1, <2>3, Concat
    <3>2. i - Len(q) = 1 /\ c[i].id = at[d] /\ at[d] # None BY <1>2, <1>4, <3>1
    <3>3. i - 1 = Len(q) BY <2>1, <3>1, <3>2
    <3>4. Forgot(d, at[d]) \/ Told(q, v, d, Len(q), at[d]) BY <1>3, <3>2 DEF SeatOf
    <3> HIDE DEF q, c, v
    <3>5. Told(q, v, d, Len(q), at[d]) => Told(q \o r, v, d, Len(q), at[d]) BY <1>1, <2>1, ToldConcat
    <3>6. QED BY <1>1, <3>2, <3>3, <3>4, <3>5
  <2>4. QED BY <2>2, <2>3
<1>5. ASSUME at'[d] # None PROVE Forgot(d, at'[d]) \/ Told(c, v, d, Len(c), at'[d])
  <2>1. CASE at'[d] = at[d] /\ \A i \in DOMAIN r : ~IsFocus(r[i], d)
    <3>1. Forgot(d, at[d]) \/ Told(q, v, d, Len(q), at[d]) BY <1>3, <1>5, <2>1 DEF SeatOf
    <3> HIDE DEF q, c, v
    <3>2. Told(q, v, d, Len(q), at[d]) => Told(q \o r, v, d, Len(q \o r), at[d])
      BY <1>1, <2>1, ToldUnfocused
    <3>3. QED BY <1>1, <2>1, <3>1, <3>2
  <2>2. CASE r # <<>> /\ IsFocus(r[Len(r)], d) /\ r[Len(r)].id = at'[d]
    <3> HIDE DEF q, c, v
    <3>1. Told(q \o r, v, d, Len(q \o r), at'[d]) BY <1>1, <2>2, ToldLast
    <3>2. QED BY <1>1, <3>1
  <2>3. QED BY <1>2, <1>5, <2>1, <2>2
<1>6. /\ \A i \in DOMAIN c : IsFocus(c[i], d) \/ IsPress(c[i], d) => Handed(c[i].id)
      /\ Handed(at'[d])
  <2>0. Names(d) /\ Handed(None) BY <1>3 DEF SeatOf, Handed
  <2>1. ASSUME NEW i \in DOMAIN c, IsFocus(c[i], d) \/ IsPress(c[i], d) PROVE Handed(c[i].id)
    <3>1. CASE i \in DOMAIN q
      <4>1. c[i] = q[i] BY <1>1, <3>1, Concat
      <4>2. QED BY <2>0, <2>1, <3>1, <4>1 DEF Names
    <3>2. CASE i \notin DOMAIN q
      <4>1. i - Len(q) \in DOMAIN r /\ c[i] = r[i - Len(q)] BY <1>1, <3>2, Concat
      <4>2. QED BY <1>2, <2>0, <2>1, <4>1 DEF Names
    <3>3. QED BY <3>1, <3>2
  <2>2. r # <<>> => Len(r) \in DOMAIN r BY <1>1
  <2>3. Handed(at'[d]) BY <1>2, <2>0, <2>2 DEF Names
  <2>4. QED BY <2>1, <2>3
<1>7. QED BY <1>1, <1>4, <1>5, <1>6 DEF SeatOf, Names, Forgot, Handed

\* What was handed out stays so, and what is forgotten
LEMMA StaysForgotten ==
    ASSUME NEW s \in IdOrNone, \A x \in SurfaceId : Grows(x), Handed(s)
    PROVE  /\ s # None => surfaces'[s].role # "none"
           /\ s \in SurfaceId /\ ~surfaces[s].tracked => surfaces'[s].role # "none" /\ ~surfaces'[s].tracked
<1>1. s # None => s \in SurfaceId BY DEF IdOrNone
<1>2. s \in SurfaceId => Grows(s) /\ s # None BY Ids
<1>3. QED BY <1>1, <1>2 DEF Grows, Handed

\* What the host does meanwhile leaves the seat right
LEMMA HostSeat ==
    ASSUME TypeOK, SeatOK, \A x \in SurfaceId : Grows(x), UNCHANGED <<command_queue, seat, at>>
    PROVE  SeatOK'
<1> SUFFICES ASSUME NEW d \in Device PROVE SeatOf(d)'
  BY DEF SeatOK
<1>1. SeatOf(d) /\ Names(d) /\ command_queue \in Seq(Command) /\ at[d] \in IdOrNone
  BY DEF SeatOK, SeatOf, TypeOK, CockpitTypes
<1>2. ASSUME NEW s \in IdOrNone, Handed(s)
      PROVE  /\ s # None => surfaces'[s].role # "none"
             /\ Forgot(d, s) => surfaces'[s].role # "none" /\ ~surfaces'[s].tracked
  BY <1>2, StaysForgotten DEF Forgot
<1>3. ASSUME NEW i \in DOMAIN command_queue,
             IsFocus(command_queue[i], d) \/ IsPress(command_queue[i], d)
      PROVE  /\ command_queue[i].id # None => surfaces'[command_queue[i].id].role # "none"
             /\ Forgot(d, command_queue[i].id) =>
                   surfaces'[command_queue[i].id].role # "none" /\ ~surfaces'[command_queue[i].id].tracked
  <2>1. command_queue[i] \in Command /\ Handed(command_queue[i].id) BY <1>1, <1>3 DEF Names
  <2>2. command_queue[i].id \in IdOrNone BY <1>3, <2>1 DEF IsFocus, IsPress, Command, IdOrNone
  <2>3. QED BY <1>2, <2>1, <2>2
<1>4. /\ at[d] # None => surfaces'[at[d]].role # "none"
      /\ Forgot(d, at[d]) => surfaces'[at[d]].role # "none" /\ ~surfaces'[at[d]].tracked
  BY <1>1, <1>2 DEF Names
<1>5. Names(d)' BY <1>3, <1>4 DEF Names, Handed
<1>6. ASSUME NEW i \in DOMAIN command_queue, IsPress(command_queue[i], d)
      PROVE  \/ Forgot(d, command_queue[i].id)'
             \/ Told(command_queue, seat[d], d, i - 1, command_queue[i].id)
  BY <1>1, <1>3, <1>6 DEF SeatOf, Forgot
<1>7. at[d] # None => Forgot(d, at[d])' \/ Told(command_queue, seat[d], d, Len(command_queue), at[d])
  BY <1>1, <1>4 DEF SeatOf, Forgot
<1>8. QED BY <1>5, <1>6, <1>7 DEF SeatOf, Forgot

\* The host runs a command: what is behind it is for where the seat is then
LEMMA RunSeat ==
    ASSUME TypeOK, SeatOK, RunCommand, \A x \in SurfaceId : Grows(x)
    PROVE  SeatOK' /\ seat' \in [Device -> IdOrNone] /\ command_queue' \in Seq(Command)
<1> DEFINE q == command_queue
           t == command_queue'
           h == Head(command_queue)
<1>1. /\ q \in Seq(Command) /\ q # <<>> /\ t = Tail(q) /\ seat' = SeatAfter(h) /\ at' = at
      /\ seat \in [Device -> IdOrNone]
  BY DEF RunCommand, widgetVars, TypeOK, HostTypes
<1>2. t \in Seq(Command) /\ h \in Command /\ Len(t) = Len(q) - 1 /\ Len(q) \in Nat /\ Len(q) \in 1..Len(q)
  BY <1>1, Popped
<1> HIDE DEF h
<1>3. /\ seat' \in [Device -> IdOrNone]
      /\ \A d \in Device : /\ IsFocus(h, d) => seat'[d] \in {h.id, None} \/ Ignored(h)
                           /\ ~IsFocus(h, d) => seat'[d] = seat[d]
  <2>1. CASE h.op = "focus" /\ ~Ignored(h)
    <3>1. h.device \in Device /\ h.id \in IdOrNone /\ None \in IdOrNone
      BY <1>2, <2>1, Ids DEF Command
    <3>2. seat' = [seat EXCEPT ![h.device] = IF h.id \in Tracked THEN h.id ELSE None]
      BY <1>1, <2>1 DEF SeatAfter
    <3>3. (IF h.id \in Tracked THEN h.id ELSE None) \in {h.id, None} OBVIOUS
    <3>4. /\ seat' \in [Device -> IdOrNone] /\ seat'[h.device] \in {h.id, None}
          /\ \A d \in Device : d # h.device => seat'[d] = seat[d]
      BY <1>1, <3>1, <3>2, <3>3
    <3>5. QED BY <2>1, <3>4 DEF IsFocus
  <2>2. CASE h.op # "focus" BY <1>1, <2>2 DEF SeatAfter, IsFocus
  <2>3. CASE Ignored(h) BY <1>1, <2>3 DEF SeatAfter
  <2>4. QED BY <2>1, <2>2, <2>3
<1> SUFFICES ASSUME NEW d \in Device PROVE SeatOf(d)'
  BY <1>2, <1>3 DEF SeatOK
<1>4. SeatOf(d) /\ Names(d) BY DEF SeatOK, SeatOf
<1> DEFINE v == seat[d]
           w == seat'[d]
           gone(s) == d = "pointer" /\ s \in SurfaceId /\ surfaces'[s].role # "none" /\ ~surfaces'[s].tracked
<1>5. (IsFocus(h, d) => w \in {h.id, None} \/ Ignored(h)) /\ (~IsFocus(h, d) => w = v) /\ h = Head(q)
  BY <1>3 DEF h
<1>6. ASSUME NEW s \in IdOrNone, Forgot(d, s), Handed(s) PROVE gone(s)
  BY <1>6, StaysForgotten DEF Forgot
<1>7. IsFocus(h, d) /\ Ignored(h) => gone(h.id)
  <2> SUFFICES ASSUME IsFocus(h, d), Ignored(h) PROVE gone(h.id)
    OBVIOUS
  <2>1. h = q[1] /\ 1 \in DOMAIN q BY <1>1, <1>5, Popped
  <2>2. Handed(h.id) BY <1>4, <2>1 DEF Names
  <2>3. h.id \in IdOrNone /\ h.id # None /\ h.id \notin Tracked /\ d = "pointer"
    BY <1>2 DEF IsFocus, Ignored, Command
  <2>4. h.id \in SurfaceId /\ ~surfaces[h.id].tracked BY <2>3 DEF IdOrNone, Tracked
  <2>5. surfaces'[h.id].role # "none" /\ ~surfaces'[h.id].tracked
    BY <2>2, <2>3, <2>4, StaysForgotten
  <2>6. QED BY <2>3, <2>4, <2>5
<1>8. ASSUME NEW n \in 1..Len(q), NEW s, Told(q, v, d, n, s) PROVE gone(s) \/ Told(t, w, d, n - 1, s)
  <2>1. CASE IsFocus(h, d) /\ Ignored(h) /\ s = h.id BY <1>7, <2>1
  <2>2. CASE ~(IsFocus(h, d) /\ Ignored(h) /\ s = h.id)
    <3>1. (IsFocus(h, d) => w \in {h.id, None} \/ h.id # s) /\ (~IsFocus(h, d) => w = v)
      BY <1>5, <2>2
    <3> HIDE DEF q, t, v, w, gone
    <3>2. Told(Tail(q), w, d, n - 1, s) BY <1>1, <1>5, <1>8, <3>1, ToldTail
    <3>3. QED BY <1>1, <3>2
  <2>3. QED BY <2>1, <2>2
<1> HIDE DEF gone
<1>9. ASSUME NEW i \in DOMAIN t, IsFocus(t[i], d) \/ IsPress(t[i], d)
      PROVE  /\ t[i].id # None => surfaces'[t[i].id].role # "none"
             /\ IsPress(t[i], d) => gone(t[i].id) \/ Told(t, w, d, i - 1, t[i].id)
  <2>1. /\ i + 1 \in DOMAIN q /\ q[i + 1] = t[i] /\ i \in Nat /\ i \in 1..Len(q) /\ (i + 1) - 1 = i
        /\ t[i] \in Command
    BY <1>1, <1>2, Popped
  <2>2. Handed(t[i].id) /\ t[i].id \in IdOrNone
    <3>1. Handed(t[i].id) BY <1>4, <1>9, <2>1 DEF Names
    <3>2. QED BY <1>9, <2>1, <3>1 DEF IsFocus, IsPress, Command, IdOrNone
  <2>3. t[i].id # None => surfaces'[t[i].id].role # "none" BY <2>2, StaysForgotten
  <2>4. ASSUME IsPress(t[i], d) PROVE gone(t[i].id) \/ Told(t, w, d, i - 1, t[i].id)
    <3>1. Forgot(d, t[i].id) \/ Told(q, v, d, i, t[i].id) BY <1>4, <2>1, <2>4 DEF SeatOf
    <3> HIDE DEF q, t, v, w
    <3>2. QED BY <1>6, <1>8, <2>1, <2>2, <3>1
  <2>5. QED BY <2>3, <2>4
<1>10. at[d] \in IdOrNone /\ Handed(at[d]) BY <1>4 DEF Names, TypeOK, CockpitTypes
<1>11. at[d] # None => surfaces'[at[d]].role # "none" BY <1>10, StaysForgotten
<1>12. ASSUME at[d] # None PROVE gone(at[d]) \/ Told(t, w, d, Len(t), at[d])
  <2>1. Forgot(d, at[d]) \/ Told(q, v, d, Len(q), at[d]) BY <1>4, <1>12 DEF SeatOf
  <2> HIDE DEF q, t, v, w
  <2>2. QED BY <1>2, <1>6, <1>8, <1>10, <2>1
<1>13. Names(d)' BY <1>1, <1>9, <1>11 DEF Names, Handed
<1>14. QED BY <1>1, <1>9, <1>12, <1>13 DEF SeatOf, Forgot, gone

\* Nothing posted, and one command
LEMMA PostsNothing ==
    ASSUME TypeOK, UNCHANGED <<command_queue, seat, at>> PROVE Posts(<<>>)
<1>1. <<>> \in Seq(Command) /\ command_queue \o <<>> = command_queue /\ DOMAIN <<>> = {}
  BY DEF TypeOK
<1>2. QED BY <1>1 DEF Posts, TypeOK, CockpitTypes

\* ... that moves nothing
LEMMA PostsOne ==
    ASSUME TypeOK, NEW c \in Command, Post(<<c>>), seat' = seat, at' = at,
           \A d \in Device : ~IsFocus(c, d) /\ (IsPress(c, d) => c.id = at[d] /\ at[d] # None)
    PROVE  Posts(<<c>>)
<1>1. <<c>> \in Seq(Command) /\ DOMAIN <<c>> = {1} /\ <<c>>[1] = c OBVIOUS
<1>2. command_queue' = command_queue \o <<c>> /\ at \in [Device -> IdOrNone]
  BY DEF Post, TypeOK, CockpitTypes
<1>3. QED BY <1>1, <1>2 DEF Posts

\* Pictures that leave the tree: what has lost the focus is told so, or not, but it has
LEMMA LosesPosts ==
    ASSUME TypeOK, NEW lost \in SUBSET Device, Loses(lost), seat' = seat PROVE \E r : Posts(r)
<1>1. at \in [Device -> IdOrNone] /\ None \in IdOrNone BY Ids DEF TypeOK, CockpitTypes
<1>2. at' \in [Device -> IdOrNone] /\ \A d \in Device : at'[d] = IF d \in lost THEN None ELSE at[d]
  BY <1>1 DEF Loses
<1>3. PICK heard \in SUBSET lost : \E ds \in SetToSeqs(heard) :
             Post([i \in DOMAIN ds |-> FocusOn(ds[i], None)])
  BY DEF Loses
<1>4. PICK ds \in SetToSeqs(heard) : Post([i \in DOMAIN ds |-> FocusOn(ds[i], None)])
  BY <1>3
<1>5. IsFiniteSet(heard)
  <2>1. IsFiniteSet(Device)
    <3>1. IsFiniteSet({"keyboard"}) BY FS_Singleton
    <3>2. IsFiniteSet({"keyboard"} \cup {"pointer"}) BY <3>1, FS_AddElement
    <3>3. Device = {"keyboard"} \cup {"pointer"} BY DEF Device
    <3>4. QED BY <3>2, <3>3
  <2>2. heard \subseteq Device BY <1>3
  <2>3. QED BY <2>1, <2>2, FS_Subset
<1>6. ds \in Seq(heard) BY <1>5, InSomeOrder
<1> DEFINE r == [i \in DOMAIN ds |-> FocusOn(ds[i], None)]
<1>7. /\ r \in Seq(Command) /\ DOMAIN r = DOMAIN ds
      /\ \A i \in DOMAIN r : ds[i] \in lost /\ r[i].op = "focus" /\ r[i].device = ds[i] /\ r[i].id = None
  <2>1. DOMAIN ds = 1..Len(ds) /\ Len(ds) \in Nat /\ \A i \in DOMAIN ds : ds[i] \in lost /\ ds[i] \in Device
    BY <1>3, <1>6
  <2>2. \A i \in 1..Len(ds) : FocusOn(ds[i], None) \in Command
    BY <1>1, <2>1 DEF FocusOn, Command
  <2>3. r = [i \in 1..Len(ds) |-> FocusOn(ds[i], None)] BY <2>1
  <2>4. r \in Seq(Command) BY <2>1, <2>2, <2>3
  <2>5. QED BY <2>1, <2>4 DEF FocusOn
<1>8. command_queue' = command_queue \o r BY <1>4 DEF Post
<1> HIDE DEF r
<1>9. ASSUME NEW d \in Device
      PROVE  /\ \A i \in DOMAIN r : ~IsPress(r[i], d) /\ Handed(r[i].id)
             /\ at'[d] = None \/ (at'[d] = at[d] /\ \A i \in DOMAIN r : ~IsFocus(r[i], d))
  <2>1. \A i \in DOMAIN r : ~IsPress(r[i], d) /\ Handed(r[i].id) BY <1>7 DEF IsPress, Handed
  <2>2. CASE d \in lost BY <1>2, <2>1, <2>2
  <2>3. CASE d \notin lost
    <3>1. \A i \in DOMAIN r : ~IsFocus(r[i], d) BY <1>7, <2>3 DEF IsFocus
    <3>2. QED BY <1>2, <2>1, <2>3, <3>1
  <2>4. QED BY <2>2, <2>3
<1>10. Posts(r) BY <1>2, <1>7, <1>8, <1>9 DEF Posts
<1>11. QED BY <1>10

\* ... as when the tree is built anew
LEMMA RebuildPosts ==
    ASSUME TypeOK, Rebuild, seat' = seat
    PROVE  (\E r : Posts(r)) /\ UNCHANGED <<allocated, last_configured>>
<1>1. PICK lost \in SUBSET {d \in Device : at[d] # None} : Loses(lost) BY DEF Rebuild
<1>2. lost \in SUBSET Device BY <1>1
<1>3. \E r : Posts(r) BY <1>1, <1>2, LosesPosts
<1>4. QED BY <1>1, <1>3 DEF Loses

\* A picture is entered: it is the last that is posted
LEMMA EnterPosts ==
    ASSUME TypeOK, NEW d \in Device, NEW s \in SurfaceId, Enter(d, s), Handed(s) PROVE \E r : Posts(r)
<1> DEFINE l == Leaving(d)
           n == <<FocusOn(d, s)>>
           r == l \o n
<1>1. at \in [Device -> IdOrNone] /\ at' = [at EXCEPT ![d] = s] /\ seat' = seat /\ s \in IdOrNone
      /\ command_queue' = command_queue \o r /\ None \in IdOrNone
  BY Ids DEF TypeOK, CockpitTypes, Enter, GtkOnly, Post, Entering, IdOrNone
<1>2. FocusOn(d, s) \in Command /\ FocusOn(d, None) \in Command BY <1>1 DEF FocusOn, Command
<1>3. l \in Seq(Command) /\ \A i \in DOMAIN l : l[i] = FocusOn(d, None)
  BY <1>2 DEF Leaving
<1>4. n \in Seq(Command) /\ DOMAIN n = {1} /\ n[1] = FocusOn(d, s) /\ Len(n) = 1 BY <1>2
<1> HIDE DEF l, n
<1>5. /\ r \in Seq(Command) /\ Len(r) = Len(l) + 1 /\ r # <<>> /\ r[Len(r)] = FocusOn(d, s)
      /\ \A i \in DOMAIN r : r[i] = FocusOn(d, None) \/ r[i] = FocusOn(d, s)
  BY <1>3, <1>4, Concat
<1> HIDE DEF r
<1>6. /\ FocusOn(d, s).op = "focus" /\ FocusOn(d, s).device = d /\ FocusOn(d, s).id = s
      /\ FocusOn(d, None).op = "focus" /\ FocusOn(d, None).device = d
  BY DEF FocusOn
<1>7. ASSUME NEW x \in Device
      PROVE  /\ \A i \in DOMAIN r : ~IsPress(r[i], x) /\ Handed(r[i].id)
             /\ \/ at'[x] = at[x] /\ \A i \in DOMAIN r : ~IsFocus(r[i], x)
                \/ IsFocus(r[Len(r)], x) /\ r[Len(r)].id = at'[x]
  <2>0. FocusOn(d, None).id = None /\ Handed(None) BY DEF FocusOn, Handed
  <2>1. \A i \in DOMAIN r : ~IsPress(r[i], x) /\ Handed(r[i].id) BY <1>5, <1>6, <2>0 DEF IsPress
  <2>2. CASE x = d BY <1>1, <1>5, <1>6, <2>1, <2>2 DEF IsFocus
  <2>3. CASE x # d BY <1>1, <1>5, <1>6, <2>1, <2>3 DEF IsFocus
  <2>4. QED BY <2>2, <2>3
<1>8. Posts(r) BY <1>1, <1>5, <1>7 DEF Posts
<1>9. QED BY <1>8

\* ... or left
LEMMA LeavePosts ==
    ASSUME TypeOK, NEW d \in Device, Leave(d) PROVE \E r : Posts(r)
<1> DEFINE r == Leaving(d)
<1>1. at \in [Device -> IdOrNone] /\ at' = [at EXCEPT ![d] = None] /\ seat' = seat
      /\ command_queue' = command_queue \o r /\ None \in IdOrNone
  BY Ids DEF TypeOK, CockpitTypes, Leave, GtkOnly, Post
<1>2. /\ FocusOn(d, None) \in Command /\ FocusOn(d, None).op = "focus" /\ FocusOn(d, None).device = d
      /\ Handed(FocusOn(d, None).id)
  BY <1>1 DEF FocusOn, Command, Handed
<1>3. r \in Seq(Command) /\ \A i \in DOMAIN r : r[i] = FocusOn(d, None)
  BY <1>2 DEF Leaving
<1> HIDE DEF r
<1>4. \A x \in Device : \A i \in DOMAIN r : ~IsPress(r[i], x) /\ (x # d => ~IsFocus(r[i], x)) /\ Handed(r[i].id)
  BY <1>2, <1>3 DEF IsPress, IsFocus
<1>5. Posts(r) BY <1>1, <1>3, <1>4 DEF Posts
<1>6. QED BY <1>5

-----------------------------------------------------------------------------
(* The steps, and the theorems *)

WaylandInv == ShowInv /\ SeatOK

\* A step of the host that leaves the cockpit alone
LEMMA HostKeeps ==
    ASSUME WaylandInv, NEW es, HostStep(es), HostOnly PROVE WaylandInv'
<1>1. EventsOK' /\ PanesOK' /\ HostOK'
  BY HostStepEvents, HostStepPanes DEF WaylandInv, ShowInv, HostStep
<1>2. /\ surfaces' \in [SurfaceId -> Surface] /\ next_surface_id' \in Nat
      /\ event_queue' \in Seq(Event)
  BY DEF HostStep, WaylandInv, ShowInv, TypeOK
<1>3. UNCHANGED <<command_queue, seat, paneVars, widgetVars>> BY DEF HostOnly
<1>4. TypeOK'
  BY <1>2, <1>3 DEF WaylandInv, ShowInv, TypeOK, HostTypes, CockpitTypes, paneVars, treeVars, widgetVars
<1>5. SeatOK'
  <2>1. TypeOK /\ SeatOK /\ \A x \in SurfaceId : Grows(x) BY DEF WaylandInv, ShowInv, HostStep
  <2>2. UNCHANGED <<command_queue, seat, at>> BY <1>3 DEF widgetVars
  <2>3. QED BY <2>1, <2>2, HostSeat
<1>6. QED BY <1>1, <1>4, <1>5 DEF WaylandInv, ShowInv

\* A commit, with or without a buffer
LEMMA CommitKeeps ==
    ASSUME WaylandInv, NEW s \in SurfaceId, NEW frame, Commit(s, frame) PROVE WaylandInv'
<1>1. /\ TypeOK /\ HostOK /\ s \in Tracked
      /\ UNCHANGED <<next_surface_id, paneVars>> /\ HostOnly
      /\ \/ surfaces[s].role = "popup" /\ CommitPopup(s, frame)
         \/ surfaces[s].role = "toplevel" /\ CommitToplevel(s, frame)
  BY DEF Commit, HostOnly, WaylandInv, ShowInv
<1>2. \E es : HostStep(es) BY <1>1, CommitPopupSteps, CommitToplevelSteps
<1>3. QED BY <1>1, <1>2, HostKeeps

\* Every other request of a client, and the reaper
LEMMA HostActionKeeps ==
    ASSUME WaylandInv,
           \/ \E c \in Clients, p \in SurfaceId \cup {None} : NewToplevel(c, p) \/ NewPopup(c, p)
           \/ \E s \in SurfaceId : (\E spot \in {0, 1} : RepositionRequest(s, spot)) \/ Destroy(s)
           \/ \E c \in Clients : Disconnect(c)
           \/ Reap
    PROVE  WaylandInv'
<1>1. TypeOK /\ HostOK BY DEF WaylandInv, ShowInv
<1>2. HostOnly BY DEF NewToplevel, NewPopup, New, RepositionRequest, Destroy, Disconnect, Reap
<1>3. \E es : HostStep(es)
  BY <1>1, NewToplevelSteps, NewPopupSteps, RepositionSteps, DestroySteps, DisconnectSteps, ReapSteps
<1>4. QED BY <1>2, <1>3, HostKeeps

\* A command that runs
LEMMA RunKeeps ==
    ASSUME WaylandInv, RunCommand PROVE WaylandInv'
<1>1. HostStep(<<>>) BY CommandSteps DEF WaylandInv, ShowInv
<1>2. EventsOK' /\ PanesOK' /\ HostOK'
  BY <1>1, HostStepEvents, HostStepPanes DEF WaylandInv, ShowInv, HostStep
<1>3. /\ surfaces' \in [SurfaceId -> Surface] /\ next_surface_id' \in Nat
      /\ UNCHANGED <<event_queue, paneVars, widgetVars>>
  BY <1>1 DEF HostStep, RunCommand
<1>4. SeatOK' /\ seat' \in [Device -> IdOrNone] /\ command_queue' \in Seq(Command)
  BY <1>1, RunSeat DEF WaylandInv, ShowInv, HostStep
<1>5. TypeOK'
  BY <1>3, <1>4 DEF WaylandInv, ShowInv, TypeOK, HostTypes, CockpitTypes, paneVars, treeVars, widgetVars
<1>6. QED BY <1>2, <1>4, <1>5 DEF WaylandInv, ShowInv

\* A step of the GTK thread
LEMMA GtkKeeps ==
    ASSUME WaylandInv, NEW r, Posts(r), UNCHANGED <<hostVars, seat>>, CockpitTypes',
           event_queue' \in Seq(Event), HostOK', EventsOK', PanesOK'
    PROVE  WaylandInv'
<1>1. SeatOK' /\ command_queue' \in Seq(Command) BY PostsSeat DEF WaylandInv, ShowInv, hostVars
<1>2. HostTypes' BY DEF WaylandInv, ShowInv, TypeOK, HostTypes, hostVars
<1>3. QED BY <1>1, <1>2 DEF WaylandInv, ShowInv, TypeOK

\* The pictures that are left are of their types
LEMMA RemovedTypes ==
    ASSUME TypeOK, NEW gone, Removed(gone)
    PROVE  painted' \subseteq SurfaceId /\ overlay' \in [SurfaceId -> IdOrNone]
BY Ids DEF Removed, TypeOK, CockpitTypes

\* ... on an event
LEMMA HandleKeeps ==
    ASSUME WaylandInv, HandleHostEvent PROVE WaylandInv'
<1> DEFINE e == Head(event_queue)
<1>1. HostOK' /\ EventsOK' /\ PanesOK' BY HandledStep DEF WaylandInv
<1>2. TypeOK /\ e \in Event /\ event_queue' \in Seq(Event) /\ UNCHANGED <<hostVars, seat>>
  BY DEF HandleHostEvent, WaylandInv, ShowInv, TypeOK
<1>3. \/ OnToplevelCreated(e) \/ OnToplevelClosed(e) \/ OnOverlayCreated(e)
      \/ OnMoved(e) \/ OnOverlayClosed(e) \/ OnFrame(e)
  BY DEF HandleHostEvent
<1> HIDE DEF e
<1>4. e.id \in SurfaceId BY <1>2 DEF Event
<1>5. (e.kind = "overlay" => e.parent \in SurfaceId /\ e.spot \in Spot) /\ (e.kind = "moved" => e.spot \in Spot)
  BY <1>2 DEF Event
<1>6. CASE OnToplevelCreated(e)
  <2>1. /\ UNCHANGED <<popup_to_pane, overlay, place, painted, scene>>
        /\ leaves' = leaves \cup {e.id} \/ leaves' = {e.id} \/ leaves' = leaves
        /\ past' = past \/ past' = [past EXCEPT !.refused = @ \cup {e.id}]
        /\ \/ surface_to_pane' = surface_to_pane \cup {e.id} /\ panes' = panes \cup {e.id}
           \/ UNCHANGED <<surface_to_pane, panes>>
    BY <1>6 DEF OnToplevelCreated
  <2>2. /\ surface_to_pane' \subseteq SurfaceId /\ panes' \subseteq SurfaceId \cup {Terminal}
        /\ leaves' \subseteq SurfaceId \cup {Terminal} /\ past' \in Past
    BY <1>2, <1>4, <2>1 DEF TypeOK, CockpitTypes, Past
  <2>3. (\E r : Posts(r)) /\ UNCHANGED <<allocated, last_configured>>
    <3>1. CASE Rebuild BY <1>2, <3>1, RebuildPosts
    <3>2. CASE UNCHANGED <<command_queue, allocated, last_configured, at>>
      <4>1. Posts(<<>>) BY <1>2, <3>2, PostsNothing
      <4>2. QED BY <3>2, <4>1
    <3>3. QED BY <1>6, <3>1, <3>2 DEF OnToplevelCreated
  <2>4. PICK r : Posts(r) BY <2>3
  <2>5. at' \in [Device -> IdOrNone] BY <2>4 DEF Posts
  <2>6. CockpitTypes' BY <1>2, <2>1, <2>2, <2>3, <2>5 DEF TypeOK, CockpitTypes
  <2>7. QED BY <1>1, <1>2, <2>4, <2>6, GtkKeeps
<1>7. CASE OnOverlayCreated(e)
  <2>1. CockpitTypes'
    BY <1>2, <1>4, <1>5, <1>7 DEF OnOverlayCreated, TypeOK, CockpitTypes, treeVars, widgetVars, IdOrNone
  <2>2. Posts(<<>>) BY <1>2, <1>7, PostsNothing DEF OnOverlayCreated, widgetVars
  <2>3. QED BY <1>1, <1>2, <2>1, <2>2, GtkKeeps
<1>8. CASE OnMoved(e)
  <2>1. CockpitTypes' BY <1>2, <1>4, <1>5, <1>8 DEF OnMoved, TypeOK, CockpitTypes, treeVars, widgetVars
  <2>2. Posts(<<>>) BY <1>2, <1>8, PostsNothing DEF OnMoved, widgetVars
  <2>3. QED BY <1>1, <1>2, <2>1, <2>2, GtkKeeps
<1>9. CASE OnFrame(e)
  <2>1. painted' \subseteq SurfaceId /\ past' \in Past
    <3>1. /\ painted' = painted \cup {e.id} \/ painted' = painted
          /\ past' = past \/ past' = [past EXCEPT !.unimported = @ \cup {e.id}]
      BY <1>9, Zenon DEF OnFrame, Repaints
    <3>2. QED BY <1>2, <1>4, <3>1 DEF TypeOK, CockpitTypes, Past
  <2>2. CockpitTypes' BY <1>2, <1>9, <2>1 DEF OnFrame, TypeOK, CockpitTypes, treeVars, widgetVars
  <2>3. Posts(<<>>) BY <1>2, <1>9, PostsNothing DEF OnFrame, widgetVars
  <2>4. QED BY <1>1, <1>2, <2>2, <2>3, GtkKeeps
<1>10. CASE OnToplevelClosed(e)
  <2>1. /\ surface_to_pane' = surface_to_pane \ {e.id} /\ UNCHANGED <<popup_to_pane, place, scene>>
        /\ past' = past \/ past' = [past EXCEPT !.kept = @ \cup {e.id}]
    BY <1>10 DEF OnToplevelClosed
  <2>2. surface_to_pane' \subseteq SurfaceId /\ past' \in Past
    BY <1>2, <1>4, <2>1 DEF TypeOK, CockpitTypes, Past
  <2>3. CASE UNCHANGED <<panes, leaves, overlay, painted, command_queue, allocated, last_configured, at>>
    <3>1. CockpitTypes' BY <1>2, <2>1, <2>2, <2>3 DEF TypeOK, CockpitTypes
    <3>2. Posts(<<>>) BY <1>2, <2>3, PostsNothing
    <3>3. QED BY <1>1, <1>2, <3>1, <3>2, GtkKeeps
  <2>4. CASE panes' = panes \ {e.id} /\ leaves' = leaves \ {e.id} /\ Removed(Torn(e.id)) /\ Rebuild
    <3>1. (\E r : Posts(r)) /\ UNCHANGED <<allocated, last_configured>> BY <1>2, <2>4, RebuildPosts
    <3>2. PICK r : Posts(r) BY <3>1
    <3>3. at' \in [Device -> IdOrNone] BY <3>2 DEF Posts
    <3>4. painted' \subseteq SurfaceId /\ overlay' \in [SurfaceId -> IdOrNone]
      BY <1>2, <2>4, RemovedTypes
    <3>5. CockpitTypes' BY <1>2, <2>1, <2>2, <2>4, <3>1, <3>3, <3>4 DEF TypeOK, CockpitTypes
    <3>6. QED BY <1>1, <1>2, <3>2, <3>5, GtkKeeps
  <2>5. QED BY <1>10, <2>3, <2>4 DEF OnToplevelClosed
<1>11. CASE OnOverlayClosed(e)
  <2>0. popup_to_pane' \in [SurfaceId -> IdOrNone] /\ UNCHANGED <<treeVars, place, past>>
    BY <1>2, <1>4, <1>11, Ids DEF OnOverlayClosed, TypeOK, CockpitTypes
  <2>1. CASE UNCHANGED <<overlay, painted, command_queue, widgetVars>>
    <3>1. CockpitTypes' BY <1>2, <2>0, <2>1 DEF TypeOK, CockpitTypes, treeVars, widgetVars
    <3>2. Posts(<<>>) BY <1>2, <2>1, PostsNothing DEF widgetVars
    <3>3. QED BY <1>1, <1>2, <3>1, <3>2, GtkKeeps
  <2>2. CASE Removed({e.id}) /\ Loses({d \in Device : at[d] = e.id}) /\ UNCHANGED scene
    <3>1. \E r : Posts(r)
      <4>1. {d \in Device : at[d] = e.id} \in SUBSET Device OBVIOUS
      <4>2. QED BY <1>2, <2>2, <4>1, LosesPosts
    <3>2. PICK r : Posts(r) BY <3>1
    <3>3. at' \in [Device -> IdOrNone] BY <3>2 DEF Posts
    <3>4. painted' \subseteq SurfaceId /\ overlay' \in [SurfaceId -> IdOrNone]
      BY <1>2, <2>2, RemovedTypes
    <3>5. CockpitTypes'
      BY <1>2, <2>0, <2>2, <3>3, <3>4 DEF Loses, TypeOK, CockpitTypes, treeVars
    <3>6. QED BY <1>1, <1>2, <3>2, <3>5, GtkKeeps
  <2>3. QED BY <1>11, <2>1, <2>2 DEF OnOverlayClosed
<1>12. QED BY <1>3, <1>6, <1>7, <1>8, <1>9, <1>10, <1>11

\* A step that leaves the satellites and overlays as they are
LEMMA PanesKept ==
    ASSUME WaylandInv, NEW r, Posts(r), GtkOnly, CockpitTypes',
           UNCHANGED <<surface_to_pane, popup_to_pane, overlay, place, painted, past>>,
           panes' \ {Terminal} = panes \ {Terminal}
    PROVE  WaylandInv'
<1>1. ShowInv /\ event_queue' \in Seq(Event) /\ UNCHANGED <<hostVars, event_queue, seat>>
  BY DEF GtkOnly, WaylandInv, ShowInv, TypeOK
<1>2. HostOK' /\ EventsOK' /\ PanesOK' BY <1>1, UnseenStep
<1>3. QED BY <1>1, <1>2, GtkKeeps

\* A picture is of a surface the host has handed out
LEMMA PicturesHanded ==
    ASSUME ShowInv, NEW s \in Pictures PROVE Handed(s)
<1>1. s \in SurfaceId /\ (s \in panes \/ overlay[s] # None) BY DEF Pictures
<1>2. OnRecord(s) /\ HostOK BY <1>1 DEF ShowInv, PanesOK
<1>3. surfaces[s].announced BY <1>1, <1>2 DEF OnRecord
<1>4. QED BY <1>1, <1>2, <1>3 DEF HostOK, Handed

\* What is left of a scene is one
LEMMA ActsTypes ==
    ASSUME scene \in Scene, NEW kind \in {"close", "drag", "move", "press"}, Acts(kind)
    PROVE  scene' \in Scene
<1>1. /\ scene.close \in Nat /\ scene.drag \in Nat /\ scene.move \in Nat /\ scene.press \in Nat
      /\ scene[kind] > 0 /\ scene' = [scene EXCEPT ![kind] = @ - 1]
  BY DEF Scene, Acts
<1>2. scene[kind] \in Nat
  <2>1. CASE kind = "close" BY <1>1, <2>1
  <2>2. CASE kind = "drag" BY <1>1, <2>2
  <2>3. CASE kind = "move" BY <1>1, <2>3
  <2>4. CASE kind = "press" BY <1>1, <2>4
  <2>5. QED BY <2>1, <2>2, <2>3, <2>4
<1> DEFINE n == scene[kind] - 1
<1>3. n \in Nat BY <1>1, <1>2
<1>4. scene' = [scene EXCEPT ![kind] = n] BY <1>1
<1> HIDE DEF n
<1>5. CASE kind = "close" BY <1>3, <1>4, <1>5 DEF Scene
<1>6. CASE kind = "drag" BY <1>3, <1>4, <1>6 DEF Scene
<1>7. CASE kind = "move" BY <1>3, <1>4, <1>7 DEF Scene
<1>8. CASE kind = "press" BY <1>3, <1>4, <1>8 DEF Scene
<1>9. QED BY <1>5, <1>6, <1>7, <1>8

\* What the user and the frame clock do leaves satellites and overlays alone
LEMMA UserKeeps ==
    ASSUME WaylandInv,
           \/ CloseTerminal
           \/ \E s \in SurfaceId : \E size \in Sizes : Allocate(s, size)
           \/ \E s \in SurfaceId : Tick(s)
           \/ \E d \in Device : (\E s \in SurfaceId : Enter(d, s)) \/ Leave(d) \/ Press(d)
    PROVE  WaylandInv'
<1>1. TypeOK /\ CockpitTypes BY DEF WaylandInv, ShowInv, TypeOK
<1>2. CASE CloseTerminal
  <2>0. scene' \in Scene BY <1>1, <1>2, ActsTypes DEF CloseTerminal, CockpitTypes
  <2>1. /\ panes' = panes \ {Terminal} /\ leaves' = leaves \ {Terminal} /\ Rebuild /\ scene' \in Scene
        /\ GtkOnly /\ UNCHANGED <<surface_to_pane, popup_to_pane, overlay, place, painted, past>>
    BY <1>2, <2>0 DEF CloseTerminal
  <2>2. (\E r : Posts(r)) /\ UNCHANGED <<allocated, last_configured>>
    BY <1>1, <2>1, RebuildPosts DEF GtkOnly
  <2>3. PICK r : Posts(r) BY <2>2
  <2>4. at' \in [Device -> IdOrNone] BY <2>3 DEF Posts
  <2>5. CockpitTypes' BY <1>1, <2>1, <2>2, <2>4 DEF CockpitTypes
  <2>6. panes' \ {Terminal} = panes \ {Terminal} BY <2>1
  <2>7. QED BY <2>1, <2>3, <2>5, <2>6, PanesKept
<1>3. ASSUME NEW s \in SurfaceId, NEW size \in Sizes, Allocate(s, size) PROVE WaylandInv'
  <2>1. Posts(<<>>) BY <1>1, <1>3, PostsNothing DEF Allocate, GtkOnly
  <2>2. size \in Nat BY HostAssumption
  <2>3. CockpitTypes' BY <1>1, <1>3, <2>2, ActsTypes DEF Allocate, CockpitTypes, paneVars, treeVars
  <2>4. QED BY <1>3, <2>1, <2>3, PanesKept DEF Allocate, paneVars, treeVars
<1>4. ASSUME NEW s \in SurfaceId, Tick(s) PROVE WaylandInv'
  <2> DEFINE size == Configured(allocated[s])
             c == [op |-> "resize", id |-> s, size |-> size]
  <2>1. size \in Nat BY <1>1, HostAssumption DEF Configured, CockpitTypes
  <2>2. c \in Command /\ c.op = "resize" BY <2>1 DEF Command
  <2>3. Post(<<c>>) /\ at' = at /\ seat' = seat BY <1>4 DEF Tick, GtkOnly
  <2>4. \A d \in Device : ~IsFocus(c, d) /\ ~IsPress(c, d) BY <2>2 DEF IsFocus, IsPress
  <2>5. /\ last_configured' = [last_configured EXCEPT ![s] = size] /\ GtkOnly
        /\ UNCHANGED <<paneVars, allocated, at, scene>>
    BY <1>4 DEF Tick
  <2> HIDE DEF c, size
  <2>6. Posts(<<c>>) BY <1>1, <2>2, <2>3, <2>4, PostsOne
  <2>7. CockpitTypes' BY <1>1, <2>1, <2>5 DEF CockpitTypes, paneVars, treeVars
  <2>8. QED BY <2>5, <2>6, <2>7, PanesKept DEF paneVars, treeVars
<1>5. ASSUME NEW d \in Device, NEW s \in SurfaceId, Enter(d, s) PROVE WaylandInv'
  <2>0. Handed(s) BY <1>5, PicturesHanded DEF Enter, WaylandInv
  <2>1. PICK r : Posts(r) BY <1>1, <1>5, <2>0, EnterPosts
  <2>2. CockpitTypes' BY <1>1, <1>5, <2>1, ActsTypes DEF Enter, CockpitTypes, Posts, paneVars, treeVars
  <2>3. QED BY <1>5, <2>1, <2>2, PanesKept DEF Enter, paneVars, treeVars
<1>6. ASSUME NEW d \in Device, Leave(d) PROVE WaylandInv'
  <2>1. PICK r : Posts(r) BY <1>1, <1>6, LeavePosts
  <2>2. CockpitTypes' BY <1>1, <1>6, <2>1, ActsTypes DEF Leave, CockpitTypes, Posts, paneVars, treeVars
  <2>3. QED BY <1>6, <2>1, <2>2, PanesKept DEF Leave, paneVars, treeVars
<1>7. ASSUME NEW d \in Device, Press(d) PROVE WaylandInv'
  <2> DEFINE c == [op |-> "press", device |-> d, id |-> at[d]]
  <2>1. c \in Command /\ c.op = "press" /\ c.device = d /\ c.id = at[d] /\ at[d] # None
    BY <1>1, <1>7 DEF Press, Command, CockpitTypes
  <2>2. Post(<<c>>) /\ at' = at /\ seat' = seat BY <1>7 DEF Press, GtkOnly
  <2> HIDE DEF c
  <2>3. \A x \in Device : ~IsFocus(c, x) /\ (IsPress(c, x) => c.id = at[x] /\ at[x] # None)
    BY <2>1 DEF IsFocus, IsPress
  <2>4. Posts(<<c>>) BY <1>1, <2>1, <2>2, <2>3, PostsOne
  <2>5. CockpitTypes' BY <1>1, <1>7, ActsTypes DEF Press, CockpitTypes, paneVars, treeVars
  <2>6. QED BY <1>7, <2>4, <2>5, PanesKept DEF Press, paneVars, treeVars
<1>8. QED BY <1>2, <1>3, <1>4, <1>5, <1>6, <1>7

\* At the start nothing is there, and nothing is queued
LEMMA WaylandInit == Init => WaylandInv
<1> SUFFICES ASSUME Init PROVE WaylandInv
  OBVIOUS
<1>1. /\ surfaces = [s \in SurfaceId |-> Unused] /\ next_surface_id = 1 /\ seat = [d \in Device |-> None]
      /\ event_queue = <<>> /\ command_queue = <<>> /\ surface_to_pane = {} /\ painted = {}
      /\ panes = {Terminal} /\ leaves = {Terminal} /\ past = Untroubled
      /\ popup_to_pane = [s \in SurfaceId |-> None] /\ overlay = [s \in SurfaceId |-> None]
      /\ place = [s \in SurfaceId |-> 0]
      /\ allocated = [s \in SurfaceId |-> 0] /\ last_configured = [s \in SurfaceId |-> 0]
      /\ at = [d \in Device |-> None] /\ scene \in Scenes
  BY DEF Init, HostInit, WidgetInit, Nowhere
<1>2. None \in IdOrNone /\ 0 \in Spot BY Ids DEF Spot
<1>3. Unused \in Surface BY <1>2 DEF Unused, Surface
<1>4. TypeOK
  <2>1. HostTypes BY <1>1, <1>2, <1>3 DEF HostTypes
  <2>2. past \in Past BY <1>1 DEF Past, Untroubled
  <2>3. CockpitTypes BY <1>1, <1>2, <2>2, HostAssumption DEF CockpitTypes
  <2>4. QED BY <1>1, <2>1, <2>3 DEF TypeOK
<1>5. /\ \A k, s : ~Has(event_queue, k, s)
      /\ \A s : ~HasPlace(event_queue, s)
      /\ \A s \in SurfaceId : InOrder(s)
  BY <1>1 DEF Has, HasPlace, InOrder, Before, Once, OnParent, LastPlace
<1>6. /\ Unused.role = "none" /\ ~Unused.announced /\ ~Unused.tracked /\ ~Unused.framed /\ ~Unused.child
      /\ Unused.parent = None /\ Unused.spot = 0
  BY DEF Unused
<1>7. HostOK BY <1>1, <1>6 DEF HostOK, Over
<1>8. EventsOK BY <1>1, <1>5, <1>6 DEF EventsOK, Queued
<1>9. PanesOK BY <1>1, <1>5, <1>6, Ids DEF PanesOK, OnRecord, Shown, Drawn, Tracked, Untroubled
<1>10. SeatOK BY <1>1 DEF SeatOK, SeatOf, Names, Handed
<1>11. QED BY <1>4, <1>7, <1>8, <1>9, <1>10 DEF WaylandInv, ShowInv

\* Every step, of either thread, keeps the invariant
LEMMA WaylandStep == WaylandInv /\ [Next]_vars => WaylandInv'
<1> SUFFICES ASSUME WaylandInv, [Next]_vars PROVE WaylandInv'
  OBVIOUS
<1>1. CASE UNCHANGED vars
  <2>1. UNCHANGED <<hostVars, event_queue, command_queue, seat, paneVars, widgetVars>> BY <1>1 DEF vars
  <2>2. /\ HostOK' /\ EventsOK' /\ PanesOK' BY <2>1, UnseenStep DEF paneVars, treeVars, WaylandInv
  <2>3. TypeOK'
    BY <2>1 DEF WaylandInv, ShowInv, TypeOK, HostTypes, CockpitTypes, hostVars, paneVars, treeVars, widgetVars
  <2>4. SeatOK' BY <2>1 DEF WaylandInv, SeatOK, SeatOf, Names, Handed, Forgot, hostVars, widgetVars
  <2>5. QED BY <2>2, <2>3, <2>4 DEF WaylandInv, ShowInv
<1>2. CASE Next
  <2>1. \A c \in scene.clients : c \in Clients
    BY DEF WaylandInv, ShowInv, TypeOK, CockpitTypes, Scene
  <2>2. QED BY <1>2, <2>1, CommitKeeps, HostActionKeeps, RunKeeps, HandleKeeps, UserKeeps DEF Next
<1>3. QED BY <1>1, <1>2

\* The invariant holds of every state, however much is queued either way
THEOREM WaylandInvariant == Spec => []WaylandInv
BY WaylandInit, WaylandStep, PTL DEF Spec

\* What is recorded, drawn, queued or has the seat is of its type: an event or a command
\* names a surface the host has handed out, and nothing else gets into the maps of
\* handle_host_event
THEOREM WaylandTypes == Spec => []TypeOK
<1>1. WaylandInv => TypeOK BY DEF WaylandInv, ShowInv
<1>2. QED BY <1>1, WaylandInvariant, PTL

\* Once the cockpit has caught up with the host, no pane, menu or record is left of a
\* surface that is gone, whether it was destroyed or reaped after its client (Reap,
\* OnToplevelClosed, OnOverlayClosed), but the pane of one that was the last leaf: as long
\* as one is there, its end is still queued
THEOREM NoGhostStays == Spec => []NoGhosts
<1>1. ASSUME WaylandInv PROVE NoGhosts
  <2> SUFFICES ASSUME event_queue = <<>>, NEW s \in SurfaceId
               PROVE  /\ s \in surface_to_pane => s \in Tracked
                      /\ s \in panes => s \in Tracked \/ s \in past.kept
                      /\ popup_to_pane[s] # None \/ overlay[s] # None => s \in Tracked
    BY <1>1 DEF NoGhosts, CaughtUp, WaylandInv, ShowInv, TypeOK, CockpitTypes
  <2>1. OnRecord(s) BY <1>1 DEF WaylandInv, ShowInv, PanesOK
  <2>2. \A k : ~Has(event_queue, k, s) BY DEF Has
  <2>3. QED BY <2>1, <2>2 DEF OnRecord
<1>2. QED BY <1>1, WaylandInvariant, PTL

\* Once it has caught up, the cockpit shows every announced toplevel in a pane, unless there
\* was no leaf to split when it mapped, and every popup and dialog of a satellite on it,
\* where the client wants it, with pixels if it has any and GTK imported them
\* (CommitToplevel, CommitPopup, RepositionRequest, OnToplevelCreated, OnFrame):
\* announcement, place and frame are queued in an order that finds what they are for
THEOREM AllIsShown == Spec => []ShowsAll
<1>1. ASSUME WaylandInv PROVE ShowsAll
  <2> SUFFICES ASSUME event_queue = <<>>, NEW s \in Tracked, surfaces[s].announced
               PROVE  /\ surfaces[s].role = "toplevel" /\ ~surfaces[s].child
                         => s \in (surface_to_pane \cap panes) \cup past.refused
                      /\ (surfaces[s].role = "popup" \/ surfaces[s].child)
                           /\ surfaces[s].parent \in surface_to_pane
                         => overlay[s] = surfaces[s].parent /\ place[s] = surfaces[s].spot
                      /\ s \in Pictures /\ surfaces[s].framed => s \in painted \cup past.unimported
    BY DEF ShowsAll, CaughtUp
  <2>1. s \in SurfaceId BY DEF Tracked
  <2>2. /\ OnRecord(s) /\ Shown(s) /\ Drawn(s) BY <1>1, <2>1 DEF WaylandInv, ShowInv, PanesOK
  <2>3. (\A k : ~Has(event_queue, k, s)) /\ ~HasPlace(event_queue, s) BY DEF Has, HasPlace
  <2>4. surfaces[s].role = "toplevel" /\ ~surfaces[s].child
          => s \in (surface_to_pane \cap panes) \cup past.refused
    <3>1. s \in surface_to_pane => s \in panes BY <2>2 DEF OnRecord
    <3>2. ASSUME surfaces[s].role = "toplevel", ~surfaces[s].child
          PROVE  s \in surface_to_pane \/ s \in past.refused
      BY <2>2, <2>3, <3>2 DEF Shown, Over
    <3>3. QED BY <3>1, <3>2
  <2>5. ASSUME Over(s), surfaces[s].parent \in surface_to_pane
        PROVE  overlay[s] = surfaces[s].parent /\ place[s] = surfaces[s].spot
    <3>1. overlay[s] = surfaces[s].parent BY <2>2, <2>3, <2>5 DEF Shown
    <3>2. surfaces[s].parent # None BY <1>1, <2>1, <2>5 DEF WaylandInv, ShowInv, HostOK
    <3>3. QED BY <2>2, <2>3, <3>1, <3>2 DEF Drawn
  <2>6. s \in Pictures /\ surfaces[s].framed => s \in painted \cup past.unimported
    BY <2>2, <2>3 DEF Drawn, Pictures
  <2>7. QED BY <2>4, <2>5, <2>6 DEF Over
<1>2. QED BY <1>1, WaylandInvariant, PTL

\* A key or a click goes to the picture it was made on, or nowhere if that is gone
\* (Enter, Leave, Press and what RunCommand does with the seat): the focus change that
\* belongs to it is queued before it, and none between. Only a click on a surface that the
\* host has forgotten may go to the one the pointer was on before
THEOREM InputFindsTarget == Spec => []InputReachesTarget
<1>1. ASSUME WaylandInv PROVE InputReachesTarget
  <2> DEFINE h == Head(command_queue)
  <2> SUFFICES ASSUME command_queue # <<>>, h.op = "press"
               PROVE  seat[h.device] \in {h.id, None} \/ Ignored(h)
    BY DEF InputReachesTarget
  <2>1. command_queue \in Seq(Command) BY <1>1 DEF WaylandInv, ShowInv, TypeOK
  <2>2. h \in Command /\ h = command_queue[1] /\ 1 \in DOMAIN command_queue BY <2>1, Popped
  <2>3. h.device \in Device BY <2>2 DEF Command
  <2>4. IsPress(command_queue[1], h.device) BY <2>2 DEF IsPress
  <2>5. SeatOf(h.device) BY <1>1, <2>3 DEF WaylandInv, SeatOK
  <2>6. \/ Forgot(h.device, h.id)
        \/ Told(command_queue, seat[h.device], h.device, 1 - 1, h.id)
    BY <2>2, <2>4, <2>5 DEF SeatOf
  <2>7. Forgot(h.device, h.id) => Ignored(h) BY Ids DEF Forgot, Ignored, Tracked
  <2>8. QED BY <2>6, <2>7 DEF Told
<1>2. QED BY <1>1, WaylandInvariant, PTL

=============================================================================
