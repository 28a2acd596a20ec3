---------------------------- MODULE KeyboardProofs ----------------------------
(***************************************************************************)
(* Theorems about what a terminal pane shows, for any texts, heights and   *)
(* bounds, whatever the keys do.                                           *)
(***************************************************************************)
EXTENDS Keyboard, FiniteSetTheorems, TLAPS

-----------------------------------------------------------------------------
(* Least and greatest rows *)

\* a set of rows that are in some order has a first one
LEMMA FirstExists ==
    ASSUME NEW S, IsFiniteSet(S), S # {}, NEW ord,
           \A x, y \in S : x = y \/ <<x, y>> \in ord \/ <<y, x>> \in ord,
           \A x, y, z \in S : <<x, y>> \in ord /\ <<y, z>> \in ord => <<x, z>> \in ord
    PROVE  \E m \in S : \A x \in S : x = m \/ <<m, x>> \in ord
<1> DEFINE First(M) == \E m \in M : \A x \in M : x = m \/ <<m, x>> \in ord
           Bad == {M \in SUBSET S : M # {} /\ ~First(M)}
<1>1. IsWellFoundedOn(StrictSubsetOrdering(S), SUBSET S)
  BY FS_FiniteSubsetsOfFinite, FS_StrictSubsetOrderingWellFounded
<1>2. SUFFICES ASSUME Bad # {} PROVE FALSE
  OBVIOUS
<1>3. PICK M \in Bad : \A N \in Bad : ~ (<<N, M>> \in StrictSubsetOrdering(S))
  <2>1. Bad \subseteq SUBSET S OBVIOUS
  <2> HIDE DEF Bad
  <2>2. QED BY <1>1, <1>2, <2>1, WFMin
<1>4. PICK n \in M : TRUE
  OBVIOUS
<1>5. <<M \ {n}, M>> \in StrictSubsetOrdering(S) BY <1>4 DEF StrictSubsetOrdering
<1>6. M \ {n} # {} BY <1>4
<1>7. PICK m \in M \ {n} : \A x \in M \ {n} : x = m \/ <<m, x>> \in ord BY <1>3, <1>4, <1>5, <1>6
<1>8. m \in S /\ n \in S /\ M \subseteq S BY <1>4, <1>7
<1>9. CASE <<m, n>> \in ord BY <1>4, <1>7, <1>8, <1>9
<1>10. CASE <<n, m>> \in ord BY <1>4, <1>7, <1>8, <1>10
<1>11. QED BY <1>7, <1>8, <1>9, <1>10

LEMMA MinIn ==
    ASSUME NEW S \in SUBSET Int, IsFiniteSet(S), S # {}
    PROVE  Min(S) \in S /\ \A x \in S : Min(S) <= x
<1> DEFINE ord == {e \in S \X S : e[1] < e[2]}
<1>1. /\ \A x, y \in S : x = y \/ <<x, y>> \in ord \/ <<y, x>> \in ord
      /\ \A x, y, z \in S : <<x, y>> \in ord /\ <<y, z>> \in ord => <<x, z>> \in ord
  OBVIOUS
<1>2. \A x, y \in S : <<x, y>> \in ord => x < y OBVIOUS
<1> HIDE DEF ord
<1>3. \E m \in S : \A x \in S : x = m \/ <<m, x>> \in ord BY <1>1, FirstExists, ZenonT(60)
<1>4. PICK m \in S : \A x \in S : x = m \/ <<m, x>> \in ord BY <1>3
<1>5. \A x \in S : m <= x
  <2>1. \A x \in S : x = m \/ m < x BY <1>2, <1>4
  <2>2. S \subseteq Int OBVIOUS
  <2>3. QED BY <2>1, <2>2
<1>6. QED BY <1>5 DEF Min

LEMMA MaxIn ==
    ASSUME NEW S \in SUBSET Int, IsFiniteSet(S), S # {}
    PROVE  Max(S) \in S /\ \A x \in S : x <= Max(S)
<1> DEFINE ord == {e \in S \X S : e[1] > e[2]}
<1>1. /\ \A x, y \in S : x = y \/ <<x, y>> \in ord \/ <<y, x>> \in ord
      /\ \A x, y, z \in S : <<x, y>> \in ord /\ <<y, z>> \in ord => <<x, z>> \in ord
  OBVIOUS
<1>2. \A x, y \in S : <<x, y>> \in ord => x > y OBVIOUS
<1> HIDE DEF ord
<1>3. \E m \in S : \A x \in S : x = m \/ <<m, x>> \in ord BY <1>1, FirstExists, ZenonT(60)
<1>4. PICK m \in S : \A x \in S : x = m \/ <<m, x>> \in ord BY <1>3
<1>5. \A x \in S : m >= x
  <2>1. \A x \in S : x = m \/ m > x BY <1>2, <1>4
  <2>2. S \subseteq Int OBVIOUS
  <2>3. QED BY <2>1, <2>2
<1>6. QED BY <1>5 DEF Max

\* ... of two
LEMMA Pair ==
    ASSUME NEW a \in Int, NEW b \in Int
    PROVE  /\ Min({a, b}) = IF a <= b THEN a ELSE b
           /\ Max({a, b}) = IF a <= b THEN b ELSE a
<1>1. {a, b} \in SUBSET Int /\ {a, b} # {} OBVIOUS
<1>2. IsFiniteSet({a, b})
  <2>1. IsFiniteSet({a}) BY FS_Singleton
  <2>2. {a, b} = {a} \cup {b} OBVIOUS
  <2>3. QED BY <2>1, <2>2, FS_AddElement
<1>3. QED BY <1>1, <1>2, MinIn, MaxIn

-----------------------------------------------------------------------------
(* The invariant *)

ViewType ==
    /\ lines \in Seq(Words) /\ evicted \in Nat
    /\ rows \in Heights /\ \A h \in Heights : h <= Len(lines)
    /\ top \in 0..Bottom
    /\ selection # <<>> => selection \in Nat \X Nat
    /\ drag_anchor \in Nat \cup {None} /\ drag_pointer \in Int
    /\ dragged \in [pressed : Int, over : Int, evicted : Nat] /\ dragged.evicted <= evicted
    /\ entry \in Words \cup {""}
    /\ search # <<>> => search \in [query : Words, active : Int]

\* while no row was evicted, the drag's anchor is the row pressed, and what is
\* selected ends in the row last pointed at
DragInv ==
    drag_anchor # None /\ evicted = dragged.evicted =>
      /\ evicted + drag_anchor = dragged.pressed
      /\ selection # <<>> =>
           /\ evicted + selection[1] = dragged.pressed
           /\ evicted + selection[2] = dragged.over

ViewInv == ViewType /\ DragInv /\ ViewIsLive

LEMMA Fits == ViewType => Bottom \in Nat /\ rows \in Nat \ {0} /\ top \in Nat /\ Len(lines) \in Nat
<1> SUFFICES ASSUME ViewType PROVE Bottom \in Nat /\ rows \in Nat \ {0} /\ top \in Nat /\ Len(lines) \in Nat
  OBVIOUS
<1>1. Heights \subseteq Nat \ {0} BY ViewAssumption
<1>2. lines \in Seq(Words) /\ rows \in Heights /\ rows <= Len(lines) /\ top \in 0..Bottom BY DEF ViewType
<1>3. Len(lines) \in Nat BY <1>2
<1>4. QED BY <1>1, <1>2, <1>3 DEF Bottom

\* where the viewport goes
LEMMA Clamp ==
    ASSUME ViewType, NEW t \in Int, NEW delta \in Int
    PROVE  /\ Scrolled(t, delta) \in 0..Bottom
           /\ Scrolled(t, delta) = IF t + delta < 0 THEN 0
                                   ELSE IF t + delta > Bottom THEN Bottom ELSE t + delta
<1> DEFINE m == Min({Bottom, t + delta})
<1>1. Bottom \in Nat BY Fits
<1>2. m = IF Bottom <= t + delta THEN Bottom ELSE t + delta BY <1>1, Pair
<1>3. m \in Int BY <1>1, <1>2
<1> HIDE DEF m
<1>4. Max({0, m}) = IF 0 <= m THEN m ELSE 0 BY <1>3, Pair
<1>5. Scrolled(t, delta) = Max({0, m}) BY DEF Scrolled, m
<1>6. QED BY <1>1, <1>2, <1>3, <1>4, <1>5

LEMMA PointerRow ==
    ASSUME ViewType, NEW t \in Nat, NEW y \in Int
    PROVE  ScreenRow(t, y) \in Nat /\ Pointed(t, y) = evicted + ScreenRow(t, y)
<1> DEFINE m == Min({rows - 1, y})
<1>1. rows - 1 \in Nat BY Fits
<1>2. m \in Int BY <1>1, Pair
<1> HIDE DEF m
<1>3. Max({0, m}) \in Nat BY <1>2, Pair
<1>4. ScreenRow(t, y) = t + Max({0, m}) /\ Pointed(t, y) = evicted + t + Max({0, m})
  BY DEF ScreenRow, Pointed, m
<1> DEFINE k == Max({0, m})
<1>5. evicted \in Nat BY DEF ViewType
<1> HIDE DEF k
<1>6. k \in Nat /\ ScreenRow(t, y) = t + k /\ Pointed(t, y) = evicted + t + k BY <1>3, <1>4 DEF k
<1>7. QED BY <1>5, <1>6

\* the scan of the scrollback comes back to where it began
LEMMA ScanReturns == ViewType => ScanReturn(top) = top
<1> SUFFICES ASSUME ViewType PROVE ScanReturn(top) = top OBVIOUS
<1>1. Bottom \in Nat /\ top \in 0..Bottom BY Fits DEF ViewType
<1>2. Bottom + (top - Bottom) = top BY <1>1
<1>3. ScanReturn(top) = Scrolled(Bottom, top - Bottom) BY DEF ScanReturn
<1>4. QED BY <1>1, <1>2, <1>3, Clamp

\* a scan finds finitely many rows, each with the word
LEMMA HitsAre ==
    ASSUME ViewType, NEW q, NEW a \in Int, NEW b \in Int
    PROVE  /\ Hits(q, a..b) \in SUBSET Int /\ IsFiniteSet(Hits(q, a..b))
           /\ \A r \in Hits(q, a..b) : r \in a..b /\ r \in 0..(Len(lines) - 1) /\ lines[r + 1] = q
<1>1. IsFiniteSet(a..b) BY FS_Interval
<1>2. Hits(q, a..b) \subseteq a..b BY DEF Hits
<1>3. IsFiniteSet(Hits(q, a..b)) BY <1>1, <1>2, FS_Subset
<1>4. lines \in Seq(Words) BY DEF ViewType
<1>5. \A r \in Hits(q, a..b) : r \in 0..(Len(lines) - 1) /\ lines[r + 1] = q BY <1>4 DEF Hits
<1>6. QED BY <1>2, <1>3, <1>5

LEMMA AllHitsAre ==
    ASSUME ViewType, NEW q
    PROVE  /\ AllHits(q) \in SUBSET Int /\ IsFiniteSet(AllHits(q))
           /\ \A r \in AllHits(q) : r \in 0..(Len(lines) - 1) /\ lines[r + 1] = q
<1> DEFINE a == Scrolled(top, -(SCROLLBACK + rows))
           b == Bottom + rows - 1
<1>1. -(SCROLLBACK + rows) \in Int /\ top \in Int BY Fits, ViewAssumption
<1>2. a \in Int BY <1>1, Clamp
<1>3. b \in Int BY Fits
<1>4. AllHits(q) = Hits(q, a..b) BY DEF AllHits
<1> HIDE DEF a, b
<1>5. QED BY <1>2, <1>3, <1>4, HitsAre

\* a match that is scrolled to is in view
LEMMA IntoViewShows ==
    ASSUME ViewType, NEW r \in 0..(Len(lines) - 1), NEW t \in 0..Bottom
    PROVE  IntoView(r, t) \in 0..Bottom /\ r \in InView(IntoView(r, t))
<1>1. CASE r \in InView(t) BY <1>1 DEF IntoView
<1>2. CASE r \notin InView(t)
  <2> DEFINE p == Max({0, r - rows \div 2})
  <2>1. rows \in Nat \ {0} /\ Bottom \in Nat /\ Len(lines) \in Nat BY Fits
  <2>2. rows \div 2 \in 0..(rows - 1) BY <2>1
  <2> DEFINE half == rows \div 2
  <2>3. half \in 0..(rows - 1) /\ p = Max({0, r - half}) BY <2>2
  <2> HIDE DEF half
  <2>4. p = IF 0 <= r - half THEN r - half ELSE 0
    <3> DEFINE d == r - half
    <3>1. d \in Int BY <2>1, <2>3
    <3> HIDE DEF p, d
    <3>2. Max({0, d}) = IF 0 <= d THEN d ELSE 0 BY <3>1, Pair, SMTT(40)
    <3>3. p = Max({0, d}) BY <2>3 DEF d
    <3>4. QED BY <3>2, <3>3 DEF d
  <2>5. p \in Nat /\ p <= r /\ r <= p + rows - 1 BY <2>1, <2>3, <2>4
  <2> HIDE DEF p
  <2>6. t \in Int /\ p - t \in Int /\ t + (p - t) = p BY <2>1, <2>5
  <2> DEFINE back == p - t
  <2>7. Scrolled(t, p - t) = IF p > Bottom THEN Bottom ELSE p
    <3>1. back \in Int /\ t \in Int /\ t + back = p BY <2>6
    <3> HIDE DEF back
    <3>2. Scrolled(t, back) = IF t + back < 0 THEN 0 ELSE IF t + back > Bottom THEN Bottom ELSE t + back
      BY <3>1, Clamp
    <3>3. Scrolled(t, back) = IF p > Bottom THEN Bottom ELSE p BY <2>5, <3>1, <3>2
    <3>4. QED BY <3>3 DEF back
  <2>8. IntoView(r, t) = Scrolled(t, p - t) BY <1>2 DEF IntoView, p
  <2>9. Len(lines) = Bottom + rows BY <2>1 DEF Bottom
  <2>10. QED BY <2>1, <2>5, <2>7, <2>8, <2>9 DEF InView
<1>3. QED BY <1>1, <1>2

-----------------------------------------------------------------------------
(* The steps *)

LEMMA NoneIsInt == None \in Int /\ None \notin Nat
<1>1. None = -1 BY DEF None
<1>2. -1 \in Int /\ -1 \notin Nat OBVIOUS
<1>3. QED BY <1>1, <1>2

LEMMA InitView == Init => ViewInv
<1> SUFFICES ASSUME Init PROVE ViewInv OBVIOUS
<1>1. lines \in Printed /\ rows = Min(Heights) /\ top = Len(lines) - rows /\ evicted = 0
  BY DEF Init, ViewInit
<1>2. /\ selection = <<>> /\ search = <<>> /\ entry = "" /\ frozen_frame = None
      /\ drag_anchor = None /\ drag_pointer = None
      /\ dragged = [pressed |-> None, over |-> None, evicted |-> 0]
  BY DEF Init, ViewInit
<1> DEFINE n == Len(lines)
<1>3. lines \in Seq(Words) /\ \A h \in Heights : h <= n BY <1>1, ViewAssumption
<1>4. n \in Nat BY <1>3
<1>5. Heights \subseteq Nat \ {0} /\ Heights # {} BY ViewAssumption
<1>6. rows \in Heights
  <2> HIDE DEF n
  <2>1. Heights \subseteq 0..n
    <3>1. ASSUME NEW h \in Heights PROVE h \in 0..n
      <4>1. h \in Nat /\ h <= n BY <1>3, <1>5
      <4>2. QED BY <1>4, <4>1
    <3>2. QED BY <3>1
  <2>2. IsFiniteSet(0..n) BY <1>4, FS_Interval
  <2>3. IsFiniteSet(Heights) BY <2>1, <2>2, FS_Subset
  <2>4. Heights \in SUBSET Int BY <1>5
  <2>5. QED BY <1>1, <1>5, <2>3, <2>4, MinIn
<1>7. top \in 0..Bottom
  <2>1. rows \in Nat /\ rows <= n BY <1>3, <1>5, <1>6
  <2>2. n - rows \in Nat BY <1>4, <2>1
  <2>3. QED BY <1>1, <2>2 DEF Bottom
<1>8. /\ dragged \in [pressed : Int, over : Int, evicted : Nat] /\ dragged.evicted = 0
  BY <1>2, NoneIsInt
<1>9. ViewType
  <2>1. lines \in Seq(Words) /\ rows \in Heights /\ \A h \in Heights : h <= Len(lines) BY <1>3, <1>6
  <2>2. /\ evicted \in Nat /\ drag_anchor \in Nat \cup {None} /\ drag_pointer \in Int
        /\ dragged.evicted <= evicted
    <3>1. evicted = 0 /\ dragged.evicted = 0 BY <1>1, <1>8
    <3>2. drag_anchor = None /\ drag_pointer = None BY <1>2
    <3>3. drag_anchor \in Nat \cup {None} /\ drag_pointer \in Int BY <3>2, NoneIsInt, Zenon
    <3>4. QED BY <3>1, <3>3
  <2>3. QED BY <1>2, <1>7, <1>8, <2>1, <2>2 DEF ViewType
<1>10. DragInv BY <1>2 DEF DragInv
<1>11. ViewIsLive BY <1>2 DEF ViewIsLive
<1>12. QED BY <1>9, <1>10, <1>11 DEF ViewInv

\* what the invariant does not look at
LEMMA ViewKept ==
    ASSUME ViewInv, UNCHANGED <<gridVars, top, selection, dragVars, frozen_frame, entry, search, sent>>
    PROVE  ViewInv'
<1> USE DEF ViewInv, gridVars, dragVars
<1>1. ViewType' BY DEF ViewType, Bottom
<1>2. DragInv' BY DEF DragInv
<1>3. ViewIsLive' BY DEF ViewIsLive
<1>4. QED BY <1>1, <1>2, <1>3

\* when nothing is selected any more
LEMMA Deselects ==
    ASSUME ViewInv, UNCHANGED <<gridVars, dragVars, entry>>, top' \in 0..Bottom,
           selection' = <<>>, search' = <<>>, ViewIsLive'
    PROVE  ViewInv'
<1> USE DEF ViewInv, gridVars, dragVars
<1>1. ViewType' BY DEF ViewType, Bottom
<1>2. DragInv' BY DEF DragInv
<1>3. QED BY <1>1, <1>2

\* when the view moves, or is searched
LEMMA Moves ==
    ASSUME ViewInv, UNCHANGED <<gridVars, dragVars, selection>>, top' \in 0..Bottom,
           entry' \in Words \cup {""}, search' # <<>> => search' \in [query : Words, active : Int],
           ViewIsLive'
    PROVE  ViewInv'
<1> USE DEF ViewInv, gridVars, dragVars
<1>1. ViewType' BY DEF ViewType, Bottom
<1>2. DragInv' BY DEF DragInv
<1>3. QED BY <1>1, <1>2

\* when a drag goes on: the selection ends where the pointer is
LEMMA DragsTo ==
    ASSUME ViewInv, drag_anchor # None, UNCHANGED <<gridVars, drag_anchor, entry, search>>,
           top' \in 0..Bottom, NEW s \in Nat, drag_pointer' \in Int,
           selection' = <<drag_anchor, s>>,
           dragged' \in [pressed : Int, over : Int, evicted : Nat],
           dragged'.evicted = dragged.evicted, dragged'.pressed = dragged.pressed,
           dragged'.over = evicted + s,
           ViewIsLive'
    PROVE  ViewInv'
<1> USE DEF ViewInv, gridVars
<1>1. drag_anchor \in Nat /\ evicted \in Nat BY DEF ViewType, None
<1>2. selection' \in Nat \X Nat /\ selection'[1] = drag_anchor /\ selection'[2] = s BY <1>1
<1>3. ViewType' BY <1>1, <1>2 DEF ViewType, Bottom
<1>4. DragInv' BY <1>1, <1>2 DEF DragInv
<1>5. QED BY <1>3, <1>4

LEMMA Drags ==
    ASSUME ViewInv, drag_anchor # None, UNCHANGED <<gridVars, drag_anchor, entry, search>>,
           top' \in 0..Bottom, NEW y \in Int, drag_pointer' \in Int,
           selection' = <<drag_anchor, ScreenRow(top', y)>>,
           dragged' = [dragged EXCEPT !.over = Pointed(top', y)],
           ViewIsLive'
    PROVE  ViewInv'
<1> DEFINE t == top'
           s == ScreenRow(t, y)
           p == Pointed(t, y)
<1>1. ViewType BY DEF ViewInv
<1>2. t \in Nat BY <1>1, Fits
<1>3. selection' = <<drag_anchor, s>> /\ dragged' = [dragged EXCEPT !.over = p] OBVIOUS
<1> HIDE DEF t
<1>4. s \in Nat /\ p = evicted + s BY <1>1, <1>2, PointerRow
<1> HIDE DEF s, p
<1>5. evicted \in Nat /\ dragged \in [pressed : Int, over : Int, evicted : Nat] BY <1>1 DEF ViewType
<1>6. p \in Int BY <1>4, <1>5
<1>7. /\ dragged' \in [pressed : Int, over : Int, evicted : Nat]
      /\ dragged'.evicted = dragged.evicted /\ dragged'.pressed = dragged.pressed
      /\ dragged'.over = evicted + s
  BY <1>3, <1>4, <1>5, <1>6
<1>8. QED BY <1>3, <1>4, <1>7, DragsTo

LEMMA LastRow == ViewType => top \in Int /\ top + rows - 1 \in Int
BY Fits

LEMMA QueryType ==
    ASSUME ViewInv, NEW q \in Words \cup {""}, Query(q)
    PROVE  top' = top /\ (search' # <<>> => search' \in [query : Words, active : Int])
<1>1. top' = top BY ScanReturns DEF Query, ViewInv
<1>2. CASE q = "" BY <1>1, <1>2 DEF Query
<1>3. CASE q # ""
  <2> DEFINE a == top'
             b == top' + rows - 1
             visible == Hits(q, InView(top'))
  <2>1. a \in Int /\ b \in Int
    <3>1. top \in Int /\ top + rows - 1 \in Int BY Fits, LastRow DEF ViewInv
    <3>2. a = top /\ b = top + rows - 1 BY <1>1
    <3>3. QED BY <3>1, <3>2, Zenon
  <2>2. visible = Hits(q, a..b) BY DEF InView
  <2> HIDE DEF a, b
  <2>3. visible \in SUBSET Int /\ IsFiniteSet(visible)
    <3> HIDE DEF visible
    <3>1. QED BY <2>1, <2>2, HitsAre DEF ViewInv
  <2>4. search' = [query |-> q, active |-> IF visible = {} THEN None ELSE Min(visible)] BY <1>3 DEF Query
  <2> HIDE DEF visible
  <2>5. visible # {} => Min(visible) \in Int BY <2>3, MinIn
  <2> DEFINE active == IF visible = {} THEN None ELSE Min(visible)
  <2>6. active \in Int BY <2>5, NoneIsInt
  <2>7. search' = [query |-> q, active |-> active] BY <2>4
  <2> HIDE DEF active
  <2>8. q \in Words BY <1>3
  <2>9. search' \in [query : Words, active : Int] BY <2>6, <2>7, <2>8
  <2>10. QED BY <1>1, <2>9
<1>4. QED BY <1>2, <1>3

-----------------------------------------------------------------------------
LEMMA FeedKeeps == ASSUME ViewInv, NEW w \in Words, Feed(w) PROVE ViewInv'
<1> DEFINE all == Append(lines, w)
           over == Len(all) > SCROLLBACK + rows
           n == Len(lines)
           m == Len(lines')
<1>1. /\ lines' = (IF over THEN Tail(all) ELSE all)
      /\ evicted' = (IF over THEN evicted + 1 ELSE evicted)
      /\ top' = (IF top = Bottom THEN m - rows ELSE IF over THEN Max({0, top - 1}) ELSE top)
      /\ UNCHANGED <<rows, selection, dragVars, entry, search, frozen_frame, sent>>
  BY DEF Feed, searchVars
<1>2. /\ lines \in Seq(Words) /\ evicted \in Nat /\ rows \in Heights /\ \A h \in Heights : h <= n
      /\ top \in 0..Bottom /\ dragged.evicted <= evicted /\ dragged.evicted \in Nat
  BY DEF ViewInv, ViewType
<1>3. n \in Nat /\ Heights \subseteq Nat \ {0} /\ rows \in Nat /\ rows <= n BY <1>2, ViewAssumption
<1>4. all \in Seq(Words) /\ Len(all) = n + 1 BY <1>2
<1>5. lines' \in Seq(Words) /\ m = (IF over THEN n ELSE n + 1)
  <2>1. CASE over
    <3>1. lines' = Tail(all) BY <1>1, <2>1
    <3>2. all # <<>> BY <1>3, <1>4
    <3>3. Tail(all) \in Seq(Words) /\ Len(Tail(all)) = n BY <1>3, <1>4, <3>2
    <3>4. QED BY <2>1, <3>1, <3>3
  <2>2. CASE ~over BY <1>1, <1>4, <2>2
  <2>3. QED BY <2>1, <2>2
<1> HIDE DEF over, all, m
<1>6. \A h \in Heights : h <= m BY <1>2, <1>3, <1>5
<1>7. top' \in 0..(m - rows)
  <2>1. m \in Nat /\ n <= m /\ top \in Nat /\ top <= n - rows BY <1>2, <1>3, <1>5 DEF Bottom
  <2>2. Max({0, top - 1}) = IF 0 <= top - 1 THEN top - 1 ELSE 0
    <3> DEFINE u == top - 1
    <3>1. u \in Int BY <2>1
    <3> HIDE DEF u
    <3>2. Max({0, u}) = IF 0 <= u THEN u ELSE 0 BY <3>1, Pair
    <3>3. QED BY <3>2 DEF u
  <2> DEFINE u == Max({0, top - 1})
  <2>3. u \in Nat /\ u <= n - rows BY <1>3, <2>1, <2>2
  <2> HIDE DEF u
  <2>4. top' = (IF top = Bottom THEN m - rows ELSE IF over THEN u ELSE top) BY <1>1 DEF u
  <2>5. QED BY <1>3, <2>1, <2>3, <2>4
<1>8. evicted' \in Nat /\ dragged'.evicted <= evicted' /\ (over => evicted' # dragged'.evicted)
  BY <1>1, <1>2 DEF dragVars
<1>9. ViewType'
  <2>1. /\ selection # <<>> => selection \in Nat \X Nat
        /\ drag_anchor \in Nat \cup {None} /\ drag_pointer \in Int
        /\ dragged \in [pressed : Int, over : Int, evicted : Nat]
        /\ entry \in Words \cup {""}
        /\ search # <<>> => search \in [query : Words, active : Int]
    BY DEF ViewInv, ViewType
  <2>2. QED BY <1>1, <1>2, <1>5, <1>6, <1>7, <1>8, <2>1 DEF ViewType, dragVars, Bottom, m
<1>10. DragInv' BY <1>1, <1>8 DEF ViewInv, DragInv, dragVars
<1>11. ViewIsLive' BY <1>1 DEF ViewInv, ViewIsLive
<1>12. QED BY <1>9, <1>10, <1>11 DEF ViewInv

LEMMA ResizeKeeps == ASSUME ViewInv, NEW h \in Heights, Resize(h) PROVE ViewInv'
<1> DEFINE b == Len(lines) - h
<1>1. /\ rows' = h
      /\ top' = (IF top = Bottom THEN Max({0, b}) ELSE Min({top, Max({0, b})}))
      /\ UNCHANGED <<lines, evicted, selection, dragVars, entry, search, frozen_frame, sent>>
  BY DEF Resize, searchVars
<1>2. h \in Nat /\ h <= Len(lines) /\ Len(lines) \in Nat /\ top \in Nat
  BY Fits, ViewAssumption DEF ViewInv, ViewType
<1>3. b \in Nat BY <1>2
<1> HIDE DEF b
<1>4. Max({0, b}) = b BY <1>3, Pair
<1>5. Min({top, b}) = IF top <= b THEN top ELSE b BY <1>2, <1>3, Pair
<1>6. top' = (IF top = Bottom THEN b ELSE IF top <= b THEN top ELSE b) BY <1>1, <1>4, <1>5
<1>7. top' \in 0..b BY <1>2, <1>3, <1>6
<1>8. ViewType'
  <2>1. top' \in 0..Bottom' BY <1>1, <1>7 DEF b, Bottom
  <2>2. QED BY <1>1, <2>1 DEF ViewInv, ViewType, dragVars
<1>9. DragInv' BY <1>1 DEF ViewInv, DragInv, dragVars
<1>10. ViewIsLive' BY <1>1 DEF ViewInv, ViewIsLive
<1>11. QED BY <1>8, <1>9, <1>10 DEF ViewInv

LEMMA BottomIn == ViewInv => Bottom \in 0..Bottom /\ top \in 0..Bottom
<1> SUFFICES ASSUME ViewInv PROVE Bottom \in 0..Bottom /\ top \in 0..Bottom OBVIOUS
<1>1. Bottom \in Nat BY Fits DEF ViewInv
<1>2. Bottom \in 0..Bottom BY <1>1
<1>3. QED BY <1>2 DEF ViewInv, ViewType

\* what is written to the child
LEMMA WritesKeep == ASSUME ViewInv, KeyWrite \/ PasteArrives \/ SendInput PROVE ViewInv'
<1>1. /\ UNCHANGED <<gridVars, dragVars, entry>> /\ top' = Bottom
      /\ selection' = <<>> /\ search' = <<>>
      /\ frozen_frame' = None \/ (frozen_frame' = frozen_frame /\ sent' = (frozen_frame # None))
  BY DEF KeyWrite, PasteArrives, SendInput, Thawed
<1>2. top' \in 0..Bottom BY <1>1, BottomIn
<1>3. ViewIsLive' BY <1>1 DEF ViewIsLive
<1>4. QED BY <1>1, <1>2, <1>3, Deselects

LEMMA ScrolledIn == ASSUME ViewInv, NEW d \in Int PROVE Scrolled(top, d) \in 0..Bottom
<1>1. ViewType /\ top \in Int BY Fits DEF ViewInv
<1>2. QED BY <1>1, Clamp

\* the view is scrolled
LEMMA ScrollsKeep ==
    ASSUME ViewInv, NEW d \in Int, ScrollKey(d) \/ ScrollSearch(d)
    PROVE  ViewInv'
<1>1. /\ UNCHANGED <<gridVars, dragVars, selection, entry, search>> /\ top' = Scrolled(top, d)
      /\ \/ selection # <<>>
         \/ UNCHANGED <<frozen_frame, sent>>
  BY DEF ScrollKey, ScrollSearch, searchVars, SearchOnly
<1>2. top' \in 0..Bottom BY <1>1, ScrolledIn
<1>3. ViewIsLive' BY <1>1 DEF ViewInv, ViewIsLive
<1>4. entry' \in Words \cup {""} /\ (search' # <<>> => search' \in [query : Words, active : Int])
  BY <1>1 DEF ViewInv, ViewType
<1>5. QED BY <1>1, <1>2, <1>3, <1>4, Moves

LEMMA WheelKeeps == ASSUME ViewInv, NEW d \in Int, Wheel(d) PROVE ViewInv'
<1> DEFINE y == IF d < 0 THEN 0 ELSE rows - 1
<1>1. y \in Int BY Fits DEF ViewInv
<1> HIDE DEF y
<1>2. /\ UNCHANGED <<gridVars, drag_anchor, drag_pointer, drag_timers, entry, search>>
      /\ top' = Scrolled(top, d)
      /\ selection' = (IF drag_anchor = None THEN selection ELSE <<drag_anchor, ScreenRow(top', y)>>)
      /\ dragged' = (IF drag_anchor = None THEN dragged ELSE [dragged EXCEPT !.over = Pointed(top', y)])
      /\ selection' # <<>> \/ UNCHANGED <<frozen_frame, sent>>
  BY DEF Wheel, searchVars, y
<1>3. top' \in 0..Bottom BY <1>2, ScrolledIn
<1>4. CASE drag_anchor = None
  <2>1. UNCHANGED <<dragVars, selection>> BY <1>2, <1>4 DEF dragVars
  <2>2. ViewIsLive' BY <1>2, <2>1 DEF ViewInv, ViewIsLive
  <2>3. entry' \in Words \cup {""} /\ (search' # <<>> => search' \in [query : Words, active : Int])
    BY <1>2 DEF ViewInv, ViewType
  <2>4. QED BY <1>2, <1>3, <2>1, <2>2, <2>3, Moves
<1>5. CASE drag_anchor # None
  <2>1. /\ selection' = <<drag_anchor, ScreenRow(top', y)>>
        /\ dragged' = [dragged EXCEPT !.over = Pointed(top', y)]
    BY <1>2, <1>5
  <2>2. selection' # <<>> BY <2>1
  <2>3. ViewIsLive' BY <2>2 DEF ViewIsLive
  <2>4. drag_pointer' \in Int BY <1>2 DEF ViewInv, ViewType
  <2>5. QED BY <1>1, <1>2, <1>3, <1>5, <2>1, <2>3, <2>4, Drags
<1>6. QED BY <1>4, <1>5

LEMMA DragBeginKeeps == ASSUME ViewInv, NEW y \in Int, DragBegin(y) PROVE ViewInv'
<1> DEFINE s == ScreenRow(top, y)
           p == Pointed(top, y)
<1>1. s \in Nat /\ p = evicted + s
  <2>1. ViewType /\ top \in Nat BY Fits DEF ViewInv
  <2>2. QED BY <2>1, PointerRow
<1> HIDE DEF s, p
<1>2. /\ drag_anchor' = s /\ selection' = <<s, s>> /\ drag_pointer' = y
      /\ dragged' = [pressed |-> p, over |-> p, evicted |-> evicted]
      /\ UNCHANGED <<gridVars, top, entry, search>>
  BY DEF DragBegin, searchVars, s, p
<1>3. evicted \in Nat /\ p \in Int
  <2>1. evicted \in Nat BY DEF ViewInv, ViewType
  <2>2. QED BY <1>1, <2>1
<1>4. /\ dragged' \in [pressed : Int, over : Int, evicted : Nat]
      /\ dragged'.evicted = evicted /\ dragged'.pressed = p /\ dragged'.over = p
  BY <1>2, <1>3
<1>5. /\ selection' \in Nat \X Nat /\ selection'[1] = s /\ selection'[2] = s /\ selection' # <<>>
  BY <1>1, <1>2
<1>6. ViewType'
  <2>1. top' \in 0..Bottom' BY <1>2 DEF ViewInv, ViewType, Bottom, gridVars
  <2>2. /\ drag_anchor' \in Nat \cup {None} /\ drag_pointer' \in Int /\ evicted' \in Nat
        /\ dragged'.evicted <= evicted'
    BY <1>1, <1>2, <1>3, <1>4 DEF gridVars
  <2>3. /\ lines \in Seq(Words) /\ rows \in Heights /\ \A h \in Heights : h <= Len(lines)
        /\ entry \in Words \cup {""}
        /\ search # <<>> => search \in [query : Words, active : Int]
    BY DEF ViewInv, ViewType
  <2>4. UNCHANGED <<lines, rows, entry, search>> BY <1>2 DEF gridVars
  <2>5. QED BY <1>4, <1>5, <2>1, <2>2, <2>3, <2>4 DEF ViewType
<1>7. DragInv'
  <2>1. evicted' = evicted BY <1>2 DEF gridVars
  <2>2. evicted' + drag_anchor' = dragged'.pressed BY <1>1, <1>2, <1>4, <2>1
  <2>3. evicted' + selection'[1] = dragged'.pressed /\ evicted' + selection'[2] = dragged'.over
    BY <1>1, <1>4, <1>5, <2>1
  <2>4. QED BY <2>2, <2>3 DEF DragInv
<1>8. ViewIsLive' BY <1>5 DEF ViewIsLive
<1>9. QED BY <1>6, <1>7, <1>8 DEF ViewInv

LEMMA DragToKeeps ==
    ASSUME ViewInv, NEW y \in Int, drag_anchor # None, drag_pointer' \in Int,
           UNCHANGED <<gridVars, drag_anchor, entry, search>>, DragTo(y)
    PROVE  ViewInv'
<1>1. /\ top' = (IF Outside(y) THEN Scrolled(top, AutoDelta(y)) ELSE top)
      /\ selection' = <<drag_anchor, ScreenRow(top', y)>>
      /\ dragged' = [dragged EXCEPT !.over = Pointed(top', y)]
  BY DEF DragTo
<1>2. AutoDelta(y) \in Int
  <2>1. WHEEL_ROWS_PER_TICK \in Nat BY ViewAssumption
  <2>2. QED BY <2>1 DEF AutoDelta
<1>3. top' \in 0..Bottom
  <2>1. CASE Outside(y) BY <1>1, <1>2, <2>1, ScrolledIn
  <2>2. CASE ~Outside(y) BY <1>1, <2>2, BottomIn
  <2>3. QED BY <2>1, <2>2
<1>4. selection' # <<>> BY <1>1
<1>5. ViewIsLive' BY <1>4 DEF ViewIsLive
<1>6. QED BY <1>1, <1>3, <1>5, Drags

LEMMA DragUpdateKeeps == ASSUME ViewInv, NEW y \in Int, DragUpdate(y) PROVE ViewInv'
<1>1. /\ drag_anchor # None /\ drag_pointer' \in Int /\ DragTo(y)
      /\ UNCHANGED <<gridVars, drag_anchor, entry, search>>
  BY DEF DragUpdate, searchVars
<1>2. QED BY <1>1, DragToKeeps

LEMMA DragTickKeeps == ASSUME ViewInv, DragTick PROVE ViewInv'
<1>1. UNCHANGED <<gridVars, drag_anchor, drag_pointer, entry, search>> BY DEF DragTick, searchVars
<1>2. CASE drag_anchor = None
  <2>1. UNCHANGED <<top, selection, dragged, frozen_frame, sent>> BY <1>2 DEF DragTick
  <2>2. ViewType' BY <1>1, <2>1 DEF ViewInv, ViewType, Bottom, gridVars
  <2>3. DragInv' BY <1>1, <1>2 DEF DragInv
  <2>4. ViewIsLive' BY <2>1 DEF ViewInv, ViewIsLive
  <2>5. QED BY <2>2, <2>3, <2>4 DEF ViewInv
<1>3. CASE drag_anchor # None
  <2>1. DragTo(drag_pointer) BY <1>3 DEF DragTick
  <2>2. drag_pointer \in Int /\ drag_pointer' \in Int BY <1>1 DEF ViewInv, ViewType
  <2>3. QED BY <1>1, <1>3, <2>1, <2>2, DragToKeeps
<1>4. QED BY <1>2, <1>3

LEMMA DragEndKeeps == ASSUME ViewInv, DragEnd PROVE ViewInv'
<1>1. /\ UNCHANGED <<gridVars, top, dragged, entry, search, sent>>
      /\ drag_anchor' = None /\ drag_pointer' = None
      /\ \/ selection' = <<>> /\ frozen_frame' = None
         \/ UNCHANGED <<selection, frozen_frame>>
  BY DEF DragEnd, searchVars
<1>2. drag_anchor' \in Nat \cup {None} /\ drag_pointer' \in Int BY <1>1, NoneIsInt
<1>3. ViewType' BY <1>1, <1>2 DEF ViewInv, ViewType, Bottom, gridVars
<1>4. DragInv' BY <1>1 DEF DragInv
<1>5. ViewIsLive' BY <1>1 DEF ViewInv, ViewIsLive
<1>6. QED BY <1>3, <1>4, <1>5 DEF ViewInv

\* the clipboard is no part of the view
LEMMA ClipboardKeeps == ASSUME ViewInv, CopyKey \/ RequestPaste \/ Exit PROVE ViewInv'
<1>1. UNCHANGED <<gridVars, top, selection, dragVars, frozen_frame, entry, search, sent>>
  BY DEF CopyKey, RequestPaste, Exit, searchVars
<1>2. QED BY <1>1, ViewKept

LEMMA FindKeyKeeps == ASSUME ViewInv, FindKey PROVE ViewInv'
<1>1. UNCHANGED <<gridVars, dragVars, selection, frozen_frame, sent, entry>> BY DEF FindKey, SearchOnly
<1>2. entry \in Words \cup {""} BY DEF ViewInv, ViewType
<1>3. top' = top /\ (search' # <<>> => search' \in [query : Words, active : Int])
  <2>1. CASE entry = "" BY <2>1 DEF FindKey, ViewInv, ViewType
  <2>2. CASE entry # ""
    <3>1. Query(entry) BY <2>2 DEF FindKey
    <3>2. QED BY <1>2, <3>1, QueryType
  <2>3. QED BY <2>1, <2>2
<1>4. top' \in 0..Bottom BY <1>3, BottomIn
<1>5. ViewIsLive' BY <1>1 DEF ViewInv, ViewIsLive
<1>6. QED BY <1>1, <1>2, <1>3, <1>4, <1>5, Moves

LEMMA TypeQueryKeeps == ASSUME ViewInv, NEW q \in Words \cup {""}, TypeQuery(q) PROVE ViewInv'
<1>1. /\ UNCHANGED <<gridVars, dragVars, selection, frozen_frame, sent>> /\ entry' = q /\ Query(q)
  BY DEF TypeQuery, SearchOnly
<1>2. top' = top /\ (search' # <<>> => search' \in [query : Words, active : Int]) BY <1>1, QueryType
<1>3. top' \in 0..Bottom BY <1>2, BottomIn
<1>4. ViewIsLive' BY <1>1 DEF ViewInv, ViewIsLive
<1>5. QED BY <1>1, <1>2, <1>3, <1>4, Moves

\* the matches of a step forward or back, and the one it takes
Active == IF search.active \in AllHits(search.query) THEN search.active ELSE None

Found(forward) ==
    IF forward THEN Later(AllHits(search.query), Active, ScanReturn(top))
    ELSE Earlier(AllHits(search.query), Active, ScanReturn(top))

Nearest(forward) == IF forward THEN Min(Found(forward)) ELSE Max(Found(forward))

LEMMA AdvanceIs ==
    ASSUME ViewInv, NEW forward \in BOOLEAN, AdvanceSearch(forward)
    PROVE  /\ search # <<>>
           /\ search' = [search EXCEPT !.active = IF Found(forward) = {} THEN Active ELSE Nearest(forward)]
           /\ top' = IF Found(forward) = {} THEN top ELSE IntoView(Nearest(forward), top)
           /\ UNCHANGED <<gridVars, dragVars, selection, frozen_frame, sent, entry>>
<1>1. ScanReturn(top) = top BY ScanReturns DEF ViewInv
<1>2. QED BY <1>1 DEF AdvanceSearch, Advance, SearchOnly, Found, Nearest, Active

LEMMA FoundAre ==
    ASSUME ViewInv, NEW forward \in BOOLEAN, Found(forward) # {}
    PROVE  /\ Found(forward) \subseteq AllHits(search.query)
           /\ Nearest(forward) \in Found(forward)
           /\ \A r \in Found(forward) : IF forward THEN Nearest(forward) <= r ELSE r <= Nearest(forward)
           /\ Nearest(forward) \in Int /\ Nearest(forward) \in 0..(Len(lines) - 1)
           /\ lines[Nearest(forward) + 1] = search.query
           /\ IntoView(Nearest(forward), top) \in 0..Bottom
           /\ Nearest(forward) \in InView(IntoView(Nearest(forward), top))
<1> DEFINE all == AllHits(search.query)
           found == Found(forward)
           b == Nearest(forward)
           q == search.query
<1>1. ViewType BY DEF ViewInv
<1>2. /\ all \in SUBSET Int /\ IsFiniteSet(all)
      /\ \A r \in all : r \in 0..(Len(lines) - 1) /\ lines[r + 1] = q
  BY <1>1, AllHitsAre
<1>3. found \subseteq all BY DEF Found, Later, Earlier
<1> HIDE DEF all
<1>4. b = IF forward THEN Min(found) ELSE Max(found) BY DEF Nearest
<1> HIDE DEF found, b, q
<1>5. found \in SUBSET Int /\ IsFiniteSet(found) /\ found # {} BY <1>2, <1>3, FS_Subset DEF found
<1>6. b \in found /\ \A r \in found : IF forward THEN b <= r ELSE r <= b
  <2>1. CASE forward BY <1>4, <1>5, <2>1, MinIn
  <2>2. CASE ~forward BY <1>4, <1>5, <2>2, MaxIn
  <2>3. QED BY <2>1, <2>2
<1>7. b \in 0..(Len(lines) - 1) /\ lines[b + 1] = q /\ b \in Int BY <1>2, <1>3, <1>5, <1>6
<1>8. IntoView(b, top) \in 0..Bottom /\ b \in InView(IntoView(b, top))
  <2>1. top \in 0..Bottom BY BottomIn
  <2>2. QED BY <1>1, <1>7, <2>1, IntoViewShows
<1>9. QED BY <1>3, <1>6, <1>7, <1>8 DEF all, found, b, q

LEMMA AdvanceKeeps == ASSUME ViewInv, NEW forward \in BOOLEAN, AdvanceSearch(forward) PROVE ViewInv'
<1> DEFINE a == IF Found(forward) = {} THEN Active ELSE Nearest(forward)
<1>1. /\ search # <<>> /\ search' = [search EXCEPT !.active = a]
      /\ UNCHANGED <<gridVars, dragVars, selection, frozen_frame, sent, entry>>
  BY AdvanceIs
<1>2. search \in [query : Words, active : Int] BY <1>1 DEF ViewInv, ViewType
<1>3. a \in Int
  <2>1. Active \in Int
    <3>1. search.active \in Int BY <1>2
    <3>2. QED BY <3>1, NoneIsInt DEF Active
  <2>2. CASE Found(forward) = {} BY <2>1, <2>2
  <2>3. CASE Found(forward) # {} BY <2>3, FoundAre
  <2>4. QED BY <2>2, <2>3
<1>4. top' \in 0..Bottom
  <2>1. CASE Found(forward) = {} BY <2>1, AdvanceIs, BottomIn
  <2>2. CASE Found(forward) # {} BY <2>2, AdvanceIs, FoundAre
  <2>3. QED BY <2>1, <2>2
<1> HIDE DEF a
<1>5. search' \in [query : Words, active : Int] BY <1>1, <1>2, <1>3
<1>6. entry' \in Words \cup {""} BY <1>1 DEF ViewInv, ViewType
<1>7. ViewIsLive' BY <1>1 DEF ViewInv, ViewIsLive
<1>8. QED BY <1>1, <1>4, <1>5, <1>6, <1>7, Moves

LEMMA CloseSearchKeeps == ASSUME ViewInv, CloseSearch PROVE ViewInv'
<1>1. UNCHANGED <<gridVars, dragVars, selection, frozen_frame, sent, top, entry>> /\ search' = <<>>
  BY DEF CloseSearch, SearchOnly
<1>2. top' \in 0..Bottom BY <1>1, BottomIn
<1>3. entry' \in Words \cup {""} BY <1>1 DEF ViewInv, ViewType
<1>4. ViewIsLive' BY <1>1 DEF ViewInv, ViewIsLive
<1>5. QED BY <1>1, <1>2, <1>3, <1>4, Moves

-----------------------------------------------------------------------------
LEMMA KeysKeep == ASSUME ViewInv, Keys PROVE ViewInv'
<1>1. CASE KeyWrite BY <1>1, WritesKeep
<1>2. CASE CopyKey \/ RequestPaste BY <1>2, ClipboardKeeps
<1>3. CASE FindKey BY <1>3, FindKeyKeeps
<1>4. CASE \E d \in {-rows, -1, 1, rows} : ScrollKey(d)
  <2>1. PICK d \in {-rows, -1, 1, rows} : ScrollKey(d) BY <1>4
  <2>2. d \in Int BY Fits DEF ViewInv
  <2>3. QED BY <2>1, <2>2, ScrollsKeep
<1>5. QED BY <1>1, <1>2, <1>3, <1>4 DEF Keys

LEMMA ViewNextKeeps == ASSUME ViewInv, ViewNext PROVE ViewInv'
<1>1. CASE \E w \in Words : Feed(w) BY <1>1, FeedKeeps
<1>2. CASE \E h \in Heights : Resize(h) BY <1>2, ResizeKeeps
<1>3. CASE Exit \/ Menu BY <1>3, ClipboardKeeps, FindKeyKeeps DEF Menu
<1>4. CASE PasteArrives \/ SendInput BY <1>4, WritesKeep
<1>5. CASE \E d \in {-WHEEL_ROWS_PER_TICK, WHEEL_ROWS_PER_TICK} : Wheel(d) \/ ScrollSearch(d)
  <2>1. PICK d \in {-WHEEL_ROWS_PER_TICK, WHEEL_ROWS_PER_TICK} : Wheel(d) \/ ScrollSearch(d) BY <1>5
  <2>2. WHEEL_ROWS_PER_TICK \in Nat BY ViewAssumption
  <2>3. d \in Int BY <2>2
  <2>4. QED BY <2>1, <2>3, WheelKeeps, ScrollsKeep
<1>6. CASE \E y \in 0..(rows - 1) : DragBegin(y)
  <2>1. PICK y \in 0..(rows - 1) : DragBegin(y) BY <1>6
  <2>2. y \in Int BY Fits DEF ViewInv
  <2>3. QED BY <2>1, <2>2, DragBeginKeeps
<1>7. CASE \E y \in -1..rows : DragUpdate(y)
  <2>1. PICK y \in -1..rows : DragUpdate(y) BY <1>7
  <2>2. y \in Int BY Fits DEF ViewInv
  <2>3. QED BY <2>1, <2>2, DragUpdateKeeps
<1>8. CASE DragTick \/ DragEnd BY <1>8, DragTickKeeps, DragEndKeeps
<1>9. CASE \E q \in Words \cup {""} : TypeQuery(q) BY <1>9, TypeQueryKeeps
<1>10. CASE (\E forward \in BOOLEAN : AdvanceSearch(forward)) \/ CloseSearch
  BY <1>10, AdvanceKeeps, CloseSearchKeeps
<1>11. QED BY <1>1, <1>2, <1>3, <1>4, <1>5, <1>6, <1>7, <1>8, <1>9, <1>10 DEF ViewNext

\* a window's keys and its configuration
LEMMA KeyboardKeeps == ViewInv /\ [Next]_vars => ViewInv'
<1> SUFFICES ASSUME ViewInv, [Next]_vars PROVE ViewInv'
  OBVIOUS
<1>1. CASE ViewNext BY <1>1, ViewNextKeeps
<1>2. CASE ViewStays
  <2>1. UNCHANGED <<gridVars, top, selection, dragVars, frozen_frame, entry, search, sent>>
    BY <1>2 DEF ViewStays, searchVars
  <2>2. QED BY <2>1, ViewKept
<1>3. CASE KeyWrite \/ Keys BY <1>3, WritesKeep, KeysKeep
<1>4. CASE UNCHANGED viewVars
  <2>1. UNCHANGED <<gridVars, top, selection, dragVars, frozen_frame, entry, search, sent>>
    BY <1>4 DEF viewVars, searchVars
  <2>2. QED BY <2>1, ViewKept
<1>5. ASSUME NEW k \in Prefixes, Chord(k) PROVE ViewStays \/ KeyWrite BY <1>5 DEF Chord
<1>6. PlainKey => ViewStays \/ Keys BY DEF PlainKey
<1>7. FocusMoves => ViewStays BY DEF FocusMoves
<1>8. PrefixTimeout => UNCHANGED viewVars BY DEF PrefixTimeout
<1>9. Save \/ SaveEnds => ViewStays BY DEF Save, SaveEnds, Write
<1>10. Install \/ Worker \/ ApplyConfig => UNCHANGED viewVars
  BY DEF Install, InstallLoads, InstallWatches, Worker, WorkerTakes, WorkerDrains, WindowEnds, WorkerCalls,
         ApplyConfig, ConfigThread, KeysStay
<1>11. UNCHANGED vars => UNCHANGED viewVars BY DEF vars
<1>12. QED BY <1>1, <1>2, <1>3, <1>4, <1>5, <1>6, <1>7, <1>8, <1>9, <1>10, <1>11 DEF Next

\* the viewport lies within the rows kept, and a drag still means the rows it went over
LEMMA ViewInvariant == Spec => []ViewInv
<1>1. Init => ViewInv BY InitView
<1>2. ViewInv /\ [Next]_vars => ViewInv' BY KeyboardKeeps
<1>3. QED BY <1>1, <1>2, PTL DEF Spec

-----------------------------------------------------------------------------
(* The picture of a selection is never shown without one, whatever keys,       *)
(* pastes, clicks, agents, output and resizes come (frozen_frame in pane.rs,   *)
(* cleared by clear_selection and refresh): only an agent's write keeps it.    *)
THEOREM FrozenCorrect == Spec => []ViewIsLive
<1>1. ViewInv => ViewIsLive BY DEF ViewInv
<1>2. QED BY <1>1, ViewInvariant, PTL

\* the rows of a selection, by their lasting names
LEMMA ShiftedRange ==
    ASSUME NEW e \in Int, NEW a \in Int, NEW b \in Int
    PROVE  {e + r : r \in Min({a, b})..Max({a, b})} = Min({e + a, e + b})..Max({e + a, e + b})
<1>1. Min({a, b}) = (IF a <= b THEN a ELSE b) /\ Max({a, b}) = (IF a <= b THEN b ELSE a) BY Pair
<1> DEFINE c == e + a
           d == e + b
<1>2. c \in Int /\ d \in Int /\ (c <= d <=> a <= b) OBVIOUS
<1> HIDE DEF c, d
<1>3. Min({c, d}) = (IF c <= d THEN c ELSE d) /\ Max({c, d}) = (IF c <= d THEN d ELSE c) BY <1>2, Pair
<1>4. ASSUME NEW x \in Int, NEW y \in Int PROVE {e + r : r \in x..y} = (e + x)..(e + y)
  <2>1. ASSUME NEW r \in x..y PROVE e + r \in (e + x)..(e + y) OBVIOUS
  <2>2. ASSUME NEW u \in (e + x)..(e + y) PROVE \E r \in x..y : u = e + r
    <3>1. u - e \in x..y /\ u = e + (u - e) OBVIOUS
    <3>2. QED BY <3>1
  <2>3. QED BY <2>1, <2>2
<1>5. CASE a <= b
  <2>1. {e + r : r \in a..b} = c..d BY <1>4 DEF c, d
  <2>2. QED BY <1>1, <1>2, <1>3, <1>5, <2>1 DEF c, d
<1>6. CASE ~(a <= b)
  <2>1. {e + r : r \in b..a} = d..c BY <1>4 DEF c, d
  <2>2. QED BY <1>1, <1>2, <1>3, <1>6, <2>1 DEF c, d
<1>7. QED BY <1>5, <1>6

(* A drag copies the rows from the one pressed to the one last pointed at,     *)
(* however the view moved on the way (attach_drag_controller and               *)
(* selection_text_screen), as long as the scrollback evicted none.             *)
THEOREM DragCorrect == Spec => CopiesDragged
<1> DEFINE Copies ==
             \/ ~DragEnd \/ clipboard' = clipboard \/ evicted # dragged.evicted
             \/ clipboard' = Min({dragged.pressed, dragged.over})..Max({dragged.pressed, dragged.over})
<1>1. ViewInv => [Copies]_viewVars
  <2> SUFFICES ASSUME ViewInv, DragEnd, clipboard' # clipboard, evicted = dragged.evicted
               PROVE  clipboard' = Min({dragged.pressed, dragged.over})..Max({dragged.pressed, dragged.over})
    OBVIOUS
  <2>1. drag_anchor # None /\ selection # <<>> /\ clipboard' = SelectionText(selection) BY DEF DragEnd
  <2> DEFINE a == selection[1]
             b == selection[2]
             p == dragged.pressed
             o == dragged.over
  <2>2. a \in Int /\ b \in Int /\ evicted \in Int
    <3>1. selection \in Nat \X Nat /\ evicted \in Nat BY <2>1 DEF ViewInv, ViewType
    <3>2. QED BY <3>1
  <2>3. p = evicted + a /\ o = evicted + b BY <2>1 DEF ViewInv, DragInv
  <2>4. clipboard' = {evicted + r : r \in Min({a, b})..Max({a, b})} BY <2>1 DEF SelectionText
  <2> HIDE DEF a, b, p, o
  <2>5. {evicted + r : r \in Min({a, b})..Max({a, b})}
          = Min({evicted + a, evicted + b})..Max({evicted + a, evicted + b})
    BY <2>2, ShiftedRange, ZenonT(60)
  <2>6. clipboard' = Min({p, o})..Max({p, o}) BY <2>3, <2>4, <2>5
  <2>7. QED BY <2>6 DEF p, o
<1>2. QED BY <1>1, ViewInvariant, PTL DEF CopiesDragged

(* A search that scans the scrollback by moving the viewport                   *)
(* (scrollback_search_matches) leaves it where it was.                         *)
THEOREM SearchCorrect == Spec => SearchKeepsView
<1>1. ViewInv => [\A q \in Words \cup {""} : TypeQuery(q) => top' = top]_viewVars
  BY QueryType DEF TypeQuery
<1>2. QED BY <1>1, ViewInvariant, PTL DEF SearchKeepsView

(* Next and previous pass over no match, and the match they reach is a match,  *)
(* and in view (select_adjacent_scrollback_match, scroll_search_match_into_    *)
(* view).                                                                      *)
THEOREM NextCorrect == Spec => NextIsNearest
<1> DEFINE Step(forward) ==
             AdvanceSearch(forward) /\ search'.active # search.active /\ search'.active # None =>
               LET a == search.active
                   b == search'.active
               IN  /\ b \in InView(top')
                   /\ lines[b + 1] = search.query
                   /\ a # None /\ a \in AllHits(search.query) =>
                        /\ IF forward THEN b > a ELSE b < a
                        /\ AllHits(search.query) \cap (Min({a, b}) + 1)..(Max({a, b}) - 1) = {}
<1>1. ViewInv => \A forward \in BOOLEAN : Step(forward)
  <2> SUFFICES ASSUME ViewInv, NEW forward \in BOOLEAN PROVE Step(forward)
    OBVIOUS
  <2> DEFINE a == search.active
             b == search'.active
             hits == AllHits(search.query)
             n == Nearest(forward)
             found == Found(forward)
  <2> SUFFICES ASSUME AdvanceSearch(forward), b # a, b # None
               PROVE  /\ b \in InView(top')
                      /\ lines[b + 1] = search.query
                      /\ a # None /\ a \in hits =>
                           /\ IF forward THEN b > a ELSE b < a
                           /\ hits \cap (Min({a, b}) + 1)..(Max({a, b}) - 1) = {}
    OBVIOUS
  <2>1. search # <<>> /\ search' = [search EXCEPT !.active = IF found = {} THEN Active ELSE n]
    BY AdvanceIs
  <2>2. search \in [query : Words, active : Int] BY <2>1 DEF ViewInv, ViewType
  <2>3. b = (IF found = {} THEN Active ELSE n) BY <2>1, <2>2
  <2>4. found # {}
    <3>1. Active \in {a, None} BY DEF Active
    <3>2. QED BY <2>3, <3>1
  <2>5. b = n BY <2>3, <2>4
  <2>6. top' = IntoView(n, top) BY <2>4, AdvanceIs
  <2>7. /\ found \subseteq hits /\ n \in found
        /\ \A r \in found : IF forward THEN n <= r ELSE r <= n
        /\ n \in Int /\ lines[n + 1] = search.query /\ n \in InView(IntoView(n, top))
    BY <2>4, FoundAre
  <2>8. ASSUME a # None, a \in hits
        PROVE  /\ IF forward THEN b > a ELSE b < a
               /\ hits \cap (Min({a, b}) + 1)..(Max({a, b}) - 1) = {}
    <3>1. found = IF forward THEN {h \in hits : h > a} ELSE {h \in hits : h < a}
      BY <2>8 DEF Found, Active, Later, Earlier
    <3>2. a \in Int BY <2>2
    <3>3. hits \subseteq Int BY AllHitsAre DEF ViewInv
    <3> HIDE DEF a, b, n, found, hits
    <3>4. IF forward THEN b > a ELSE b < a BY <2>5, <2>7, <3>1
    <3>5. Min({a, b}) = (IF a <= b THEN a ELSE b) /\ Max({a, b}) = (IF a <= b THEN b ELSE a)
      BY <2>5, <2>7, <3>2, Pair
    <3>6. ASSUME NEW r \in hits, r \in (Min({a, b}) + 1)..(Max({a, b}) - 1) PROVE FALSE
      <4>1. r \in Int BY <3>3
      <4>2. CASE forward
        <5>1. a < b /\ a < r /\ r < b BY <2>5, <2>7, <3>2, <3>4, <3>5, <3>6, <4>1, <4>2
        <5>2. r \in found BY <3>1, <4>2, <5>1
        <5>3. b <= r BY <2>5, <2>7, <4>2, <5>2
        <5>4. QED BY <2>5, <2>7, <4>1, <5>1, <5>3
      <4>3. CASE ~forward
        <5>1. b < a /\ b < r /\ r < a BY <2>5, <2>7, <3>2, <3>4, <3>5, <3>6, <4>1, <4>3
        <5>2. r \in found BY <3>1, <4>3, <5>1
        <5>3. r <= b BY <2>5, <2>7, <4>3, <5>2
        <5>4. QED BY <2>5, <2>7, <4>1, <5>1, <5>3
      <4>4. QED BY <4>2, <4>3
    <3>7. QED BY <3>4, <3>6
  <2> HIDE DEF a, b, n, found, hits
  <2>9. QED BY <2>5, <2>6, <2>7, <2>8
<1>2. ViewInv => [\A forward \in BOOLEAN : Step(forward)]_viewVars BY <1>1
<1>3. QED BY <1>2, ViewInvariant, PTL DEF NextIsNearest

=============================================================================
