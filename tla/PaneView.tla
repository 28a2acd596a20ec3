------------------------------ MODULE PaneView ------------------------------
(***************************************************************************)
(* What one terminal pane shows (pane.rs, the viewport functions of        *)
(* lmux-libghostty): the viewport over the scrollback, the selection and   *)
(* the drag that makes it, the frozen picture shown while text is          *)
(* selected, the clipboard, and the search.                                *)
(*                                                                         *)
(* A row is one word; a query is a word and matches the rows that hold it. *)
(* Rows are numbered as in the code, from 0 at the oldest row kept (screen *)
(* coordinates); evicted + r names the row for good.  Columns are left     *)
(* out: a drag that ends in the row where it began is a click.             *)
(***************************************************************************)
EXTENDS Integers, Sequences, FiniteSets, FiniteSetsExt

CONSTANTS
    Words,
    Printed,                \* what the child has printed at first
    Heights,                \* rows the pane may have
    SCROLLBACK,             \* rows kept above the viewport
    WHEEL_ROWS_PER_TICK,
    MaxInputs               \* bound on what the user, agents and the child do

ASSUME ViewAssumption ==
    /\ Heights \subseteq Nat \ {0} /\ Heights # {}
    /\ \A text \in Printed : text \in Seq(Words) /\ \A h \in Heights : h <= Len(text)
    /\ {SCROLLBACK, WHEEL_ROWS_PER_TICK, MaxInputs} \subseteq Nat

None == -1

VARIABLES
    lines, evicted,         \* the rows kept, and how many came before them
    rows, top,              \* the viewport
    selection,              \* <<start, end>>, or <<>>
    drag_anchor, drag_pointer, drag_timers,
    frozen_frame,           \* the first row of the picture, or None
    search,                 \* [query, active], or <<>>
    entry, bar,             \* the search entry's text; is the bar visible
    pasting,                \* clipboard reads under way
    exit_code,
    clipboard,              \* the rows last copied, by their lasting names
    dragged,                \* the row pressed, the row last pointed at, and evicted then
    sent,                   \* an agent wrote since the picture was taken
    inputs

gridVars == <<lines, evicted, rows>>
dragVars == <<drag_anchor, drag_pointer, drag_timers, dragged>>
searchVars == <<search, entry, bar>>
viewVars == <<gridVars, top, selection, dragVars, frozen_frame, searchVars, pasting, exit_code,
              clipboard, sent, inputs>>

ViewInit ==
    /\ lines \in Printed /\ rows = Min(Heights)
    /\ evicted = 0 /\ top = Len(lines) - rows
    /\ selection = <<>> /\ drag_anchor = None /\ drag_pointer = None /\ drag_timers = 0
    /\ frozen_frame = None /\ search = <<>> /\ entry = "" /\ bar = FALSE
    /\ pasting = 0 /\ exit_code = FALSE /\ clipboard = {} /\ sent = FALSE
    /\ dragged = [pressed |-> None, over |-> None, evicted |-> 0]
    /\ inputs = 0

Input == inputs < MaxInputs /\ inputs' = inputs + 1

-----------------------------------------------------------------------------
(* The viewport of the terminal emulator *)

Bottom == Len(lines) - rows

\* ghostty_terminal_scroll_viewport by delta rows, from t
Scrolled(t, delta) == Max({0, Min({Bottom, t + delta})})

\* render: the rows of the viewport, were it at t
InView(t) == t..(t + rows - 1)

\* the child prints a row: the viewport stays at the bottom, or on the rows it
\* shows
Feed(w) ==
    LET all == Append(lines, w)
        over == Len(all) > SCROLLBACK + rows
    IN  /\ Input /\ ~exit_code
        /\ lines' = IF over THEN Tail(all) ELSE all
        /\ evicted' = IF over THEN evicted + 1 ELSE evicted
        /\ top' = IF top = Bottom THEN Len(lines') - rows
                  ELSE IF over THEN Max({0, top - 1}) ELSE top
        /\ UNCHANGED <<rows, selection, dragVars, frozen_frame, searchVars, pasting, exit_code,
                       clipboard, sent>>

\* the widget gets another height
Resize(h) ==
    /\ Input /\ h # rows
    /\ rows' = h
    /\ top' = IF top = Bottom THEN Max({0, Len(lines) - h}) ELSE Min({top, Max({0, Len(lines) - h})})
    /\ UNCHANGED <<lines, evicted, selection, dragVars, frozen_frame, searchVars, pasting, exit_code,
                   clipboard, sent>>

Exit ==
    /\ Input /\ ~exit_code
    /\ exit_code' = TRUE
    /\ UNCHANGED <<gridVars, top, selection, dragVars, frozen_frame, searchVars, pasting, clipboard, sent>>

-----------------------------------------------------------------------------
(* Input to the child *)

\* a key that is written to the PTY
KeyWrite ==
    /\ ~exit_code
    /\ top' = Bottom
    /\ selection' = <<>> /\ search' = <<>> /\ frozen_frame' = None
    /\ bar' = FALSE
    /\ UNCHANGED <<gridVars, dragVars, entry, pasting, exit_code, clipboard, sent>>

\* the shortcut only starts to read the clipboard
RequestPaste ==
    /\ pasting' = pasting + 1
    /\ UNCHANGED <<gridVars, top, selection, dragVars, frozen_frame, searchVars, exit_code, clipboard, sent>>

\* Mutation of Thawed: a paste leaves the picture
ThawedByKeysOnly == frozen_frame

Thawed == None

\* paste_text, whenever the clipboard answers
PasteArrives ==
    /\ pasting > 0
    /\ pasting' = pasting - 1
    /\ top' = Bottom
    /\ selection' = <<>> /\ search' = <<>> /\ frozen_frame' = Thawed
    /\ UNCHANGED <<gridVars, dragVars, entry, bar, exit_code, clipboard, sent, inputs>>

\* terminal.send of an agent: the picture stays
SendInput ==
    /\ Input /\ ~exit_code
    /\ top' = Bottom
    /\ selection' = <<>> /\ search' = <<>>
    /\ sent' = (frozen_frame # None)
    /\ UNCHANGED <<gridVars, dragVars, frozen_frame, entry, bar, pasting, exit_code, clipboard>>

-----------------------------------------------------------------------------
(* Scrolling and selecting *)

\* Mutation of ScreenRow: the row in the viewport
ViewportRow(t, y) == Max({0, Min({rows - 1, y})})

\* screen_point_from_px, with the viewport at t
ScreenRow(t, y) == t + Max({0, Min({rows - 1, y})})

\* freeze_viewport
Freeze(t) == frozen_frame' = t /\ sent' = FALSE

Pointed(t, y) == evicted + t + Max({0, Min({rows - 1, y})})

\* PageUp, PageDown, with Shift by one row
ScrollKey(delta) ==
    /\ ~exit_code
    /\ top' = Scrolled(top, delta)
    /\ IF selection # <<>> THEN Freeze(top') ELSE UNCHANGED <<frozen_frame, sent>>
    /\ UNCHANGED <<gridVars, selection, dragVars, searchVars, pasting, exit_code, clipboard>>

\* in a drag the wheel drags to the first or the last row
Wheel(delta) ==
    LET y == IF delta < 0 THEN 0 ELSE rows - 1
    IN  /\ Input
        /\ top' = Scrolled(top, delta)
        /\ selection' = IF drag_anchor = None THEN selection ELSE <<drag_anchor, ScreenRow(top', y)>>
        /\ dragged' = IF drag_anchor = None THEN dragged ELSE [dragged EXCEPT !.over = Pointed(top', y)]
        /\ IF selection' # <<>> THEN Freeze(top') ELSE UNCHANGED <<frozen_frame, sent>>
        /\ UNCHANGED <<gridVars, drag_anchor, drag_pointer, drag_timers, searchVars, pasting, exit_code,
                       clipboard>>

\* the two drag-begin handlers: the second starts a timer of its own
DragBegin(y) ==
    /\ Input /\ drag_anchor = None
    /\ drag_anchor' = ScreenRow(top, y)
    /\ selection' = <<drag_anchor', drag_anchor'>>
    /\ drag_pointer' = y
    /\ drag_timers' = drag_timers + 1
    /\ dragged' = [pressed |-> Pointed(top, y), over |-> Pointed(top, y), evicted |-> evicted]
    /\ Freeze(top)
    /\ UNCHANGED <<gridVars, top, searchVars, pasting, exit_code, clipboard>>

Outside(y) == y < 0 \/ y >= rows

AutoDelta(y) == IF y < 0 THEN -WHEEL_ROWS_PER_TICK ELSE WHEEL_ROWS_PER_TICK

DragTo(y) ==
    /\ top' = IF Outside(y) THEN Scrolled(top, AutoDelta(y)) ELSE top
    /\ selection' = <<drag_anchor, ScreenRow(top', y)>>
    /\ dragged' = [dragged EXCEPT !.over = Pointed(top', y)]
    /\ IF Outside(y) THEN Freeze(top') ELSE UNCHANGED <<frozen_frame, sent>>

DragUpdate(y) ==
    /\ Input /\ drag_anchor # None
    /\ drag_pointer' = y
    /\ DragTo(y)
    /\ UNCHANGED <<gridVars, drag_anchor, drag_timers, searchVars, pasting, exit_code, clipboard>>

\* the timer of a drag: it stops at the first tick with no drag, which may be
\* in the next drag
DragTick ==
    /\ drag_timers > 0
    /\ IF drag_anchor = None
         THEN /\ drag_timers' = drag_timers - 1
              /\ UNCHANGED <<top, selection, dragged, frozen_frame, sent>>
         ELSE /\ Outside(drag_pointer)
              /\ DragTo(drag_pointer)
              /\ UNCHANGED drag_timers
    /\ UNCHANGED <<gridVars, drag_anchor, drag_pointer, searchVars, pasting, exit_code, clipboard, inputs>>

\* selection_text_screen: the range is put in order
SelectionText(s) == {evicted + r : r \in Min({s[1], s[2]})..Max({s[1], s[2]})}

\* a click selects nothing
DragEnd ==
    /\ drag_anchor # None
    /\ drag_anchor' = None /\ drag_pointer' = None
    /\ IF selection # <<>> /\ selection[1] = selection[2]
         THEN selection' = <<>> /\ frozen_frame' = None /\ UNCHANGED clipboard
         ELSE /\ UNCHANGED <<selection, frozen_frame>>
              /\ clipboard' = IF selection = <<>> THEN clipboard ELSE SelectionText(selection)
    /\ UNCHANGED <<gridVars, top, drag_timers, dragged, searchVars, pasting, exit_code, sent, inputs>>

\* copy_selection_to_clipboard
CopyKey ==
    /\ selection # <<>> /\ selection[1] # selection[2]
    /\ clipboard' = SelectionText(selection)
    /\ UNCHANGED <<gridVars, top, selection, dragVars, frozen_frame, searchVars, pasting, exit_code, sent>>

-----------------------------------------------------------------------------
(* Search *)

\* the rows of a range that match (find_matches_in_text)
Hits(q, range) == {r \in range : r + 1 \in DOMAIN lines /\ lines[r + 1] = q}

\* Mutation of ScanReturn: back from the top, where the scan of the rows began
ScanReturnFromTop(original) ==
    Scrolled(Scrolled(Bottom, 0), original - Scrolled(original, -(SCROLLBACK + rows)))

\* scrollback_search_matches scrolls to the top and to the bottom, and back by
\* the rows between the bottom and where it began
ScanReturn(original) == Scrolled(Bottom, original - Bottom)

AllHits(q) == Hits(q, Scrolled(top, -(SCROLLBACK + rows))..(Bottom + rows - 1))

\* set_search_query: the first match in the viewport is active
Query(q) ==
    /\ top' = IF q = "" THEN top ELSE ScanReturn(top)
    /\ search' = IF q = "" THEN <<>>
                 ELSE LET visible == Hits(q, InView(top'))
                      IN  [query |-> q, active |-> IF visible = {} THEN None ELSE Min(visible)]

SearchOnly == UNCHANGED <<gridVars, selection, dragVars, frozen_frame, pasting, exit_code, clipboard, sent>>

FindKey ==
    /\ bar' = TRUE
    /\ IF entry = "" THEN UNCHANGED <<top, search>> ELSE Query(entry)
    /\ UNCHANGED entry /\ SearchOnly

TypeQuery(q) ==
    /\ Input /\ bar /\ q # entry
    /\ entry' = q
    /\ Query(q)
    /\ UNCHANGED bar /\ SearchOnly

\* wheel and page keys in the search bar
ScrollSearch(delta) ==
    /\ Input /\ bar
    /\ top' = Scrolled(top, delta)
    /\ UNCHANGED searchVars /\ SearchOnly

\* scroll_search_match_into_view
IntoView(r, t) ==
    IF r \in InView(t) THEN t
    ELSE Scrolled(t, Max({0, r - rows \div 2}) - t)

\* Mutation of Later: from the top of the viewport, as for the first match
LaterInView(hits, active, t) == {h \in hits : h >= t}

Later(hits, active, t) ==
    IF active # None THEN {h \in hits : h > active}
    ELSE IF \E h \in hits : h >= t THEN {h \in hits : h >= t}
    ELSE hits

Earlier(hits, active, t) ==
    IF active # None THEN {h \in hits : h < active}
    ELSE IF \E h \in hits : h <= t + rows - 1 THEN {h \in hits : h <= t + rows - 1}
    ELSE hits

\* select_adjacent_scrollback_match: a match that is gone is no longer active
Advance(forward) ==
    LET hits == AllHits(search.query)
        active == IF search.active \in hits THEN search.active ELSE None
        back == ScanReturn(top)
        found == IF forward THEN Later(hits, active, back) ELSE Earlier(hits, active, back)
        next == IF forward THEN Min(found) ELSE Max(found)
    IN  /\ search # <<>>
        /\ search' = [search EXCEPT !.active = IF found = {} THEN active ELSE next]
        /\ top' = IF found = {} THEN back ELSE IntoView(next, back)

AdvanceSearch(forward) ==
    /\ Input /\ bar
    /\ Advance(forward)
    /\ UNCHANGED <<entry, bar>> /\ SearchOnly

CloseSearch ==
    /\ Input /\ bar
    /\ bar' = FALSE /\ search' = <<>>
    /\ UNCHANGED <<top, entry>> /\ SearchOnly

-----------------------------------------------------------------------------
\* a key press that is not the window's (attach_key_controller)
Keys ==
    \/ KeyWrite \/ CopyKey \/ FindKey
    \/ ~exit_code /\ RequestPaste
    \/ \E d \in {-rows, -1, 1, rows} : ScrollKey(d)

\* the context menu, which pastes into an exited pane too
Menu == Input /\ (CopyKey \/ FindKey \/ RequestPaste)

ViewNext ==
    \/ \E w \in Words : Feed(w)
    \/ \E h \in Heights : Resize(h)
    \/ Exit \/ PasteArrives \/ SendInput \/ Menu
    \/ \E d \in {-WHEEL_ROWS_PER_TICK, WHEEL_ROWS_PER_TICK} : Wheel(d) \/ ScrollSearch(d)
    \/ \E y \in 0..(rows - 1) : DragBegin(y)
    \/ \E y \in -1..rows : DragUpdate(y)
    \/ DragTick \/ DragEnd
    \/ \E q \in Words \cup {""} : TypeQuery(q)
    \/ \E forward \in BOOLEAN : AdvanceSearch(forward)
    \/ CloseSearch

-----------------------------------------------------------------------------
(* What a drag copies is the rows from the one pressed to the one last pointed *)
(* at, however the view was scrolled on the way (by the pointer outside, the   *)
(* wheel, keys, the child's output), unless rows were evicted meanwhile, which *)
(* shifts a selection.                                                         *)
CopiesDragged ==
    [][\/ ~DragEnd \/ clipboard' = clipboard \/ evicted # dragged.evicted
       \/ clipboard' = Min({dragged.pressed, dragged.over})..Max({dragged.pressed, dragged.over})]_viewVars

(* The picture taken when text was selected is not shown when nothing is       *)
(* selected any more, so that new output is seen; an agent's write is the      *)
(* exception, after which only a key, a paste or a click brings the view back. *)
ViewIsLive == frozen_frame # None => selection # <<>> \/ sent

(* Searching looks through the scrollback by moving the viewport, and leaves   *)
(* it where the user had it.                                                   *)
SearchKeepsView == [][\A q \in Words \cup {""} : TypeQuery(q) => top' = top]_viewVars

(* Next and previous pass over no match, and the match they reach is in view.  *)
NextIsNearest ==
    [][\A forward \in BOOLEAN :
         AdvanceSearch(forward) /\ search'.active # search.active /\ search'.active # None =>
           LET a == search.active
               b == search'.active
           IN  /\ b \in InView(top')
               /\ lines[b + 1] = search.query
               /\ a # None /\ a \in AllHits(search.query) =>
                    /\ IF forward THEN b > a ELSE b < a
                    /\ AllHits(search.query) \cap (Min({a, b}) + 1)..(Max({a, b}) - 1) = {}]_viewVars
=============================================================================
