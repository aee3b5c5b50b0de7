------------------------------- MODULE GTerm -------------------------------
(***************************************************************************)
(* The screen of the GTerm terminal emulator (flterm/gterm.hpp, gterm.cpp, *)
(* utils.cpp, actions.cpp): the text store reached through the table       *)
(* linenumbers, the dirty range of every row, the scroll that the display  *)
(* has not been told about yet, the scroll margins, the cursor, the modes  *)
(* and the tab stops.                                                      *)
(*                                                                         *)
(* Every private method of class GTerm that changes this state is an       *)
(* operator that takes the state before the call and returns the state     *)
(* after it, so that a method that calls others is their composition.      *)
(* What the display shows is not kept here: update_changes is split into   *)
(* what it does to the GTerm (AfterUpdate) and what it paints, which is    *)
(* given by the module that owns the display.                              *)
(*                                                                         *)
(* A cell is a pair <<character, colour>>.  Characters are the members of  *)
(* Chars and the space; a colour is what calc_color packs: the pair of     *)
(* selected colours and the set of rendition flags.                        *)
(***************************************************************************)
EXTENDS Integers, Sequences, FiniteSets

CONSTANTS
  GT_MAXWIDTH,   \* columns of the text store
  GT_MAXHEIGHT,  \* lines of the text store, and entries of linenumbers
  Sizes,         \* the <<width, height>> pairs the terminal is given
  Chars,         \* the printing characters the host sends, without the space
  Colors,        \* the pairs of foreground and background that SGR selects
  DefaultColor,  \* white on black
  Renditions,    \* the rendition flags in use
  Params,        \* the numeric parameters of escape sequences
  Ops,           \* the operations the host uses: bounds a run of the checker
  MaxRun,        \* longest run of printing characters handled by one call
  MaxPending,    \* bound on scrolling between two updates of the display
  InitModes      \* the modes the application selects (term_sh.cxx: NOEOLWRAP)

Rendition == {"BOLD", "BLINK", "UNDERLINE", "INVERSE"}

ModeFlags == Rendition \cup
  {"NOEOLWRAP", "CURSORAPPMODE", "CURSORRELATIVE", "NEWLINE", "INSERT",
   "KEYAPPMODE", "DEFERUPDATE", "DESTRUCTBS", "TEXTONLY", "LOCALECHO",
   "CURSORINVISIBLE"}

Rows == 0 .. GT_MAXHEIGHT - 1
Cols == 0 .. GT_MAXWIDTH - 1

Space == " "
AlignChar == "E"

Glyphs == Chars \cup {Space, AlignChar}
Written == Glyphs \X (Colors \X SUBSET Rendition)

\* A cell of "new unsigned char[]" and "new unsigned short[]" nobody has written.
Uninit == <<"uninit", <<"uninit", {}>>>>

Cell == Written \cup {Uninit}

\* A terminal of width GT_MAXWIDTH would let the cursor, which may stand one
\* column to the right of the last one, leave the text store; one with a single
\* row or column would make cursor_position compute the coordinate -1.
ASSUME DimensionAssumption ==
  /\ GT_MAXWIDTH \in Nat /\ GT_MAXHEIGHT \in Nat
  /\ Sizes \subseteq (2 .. GT_MAXWIDTH - 1) \X (2 .. GT_MAXHEIGHT)
  /\ Sizes # {}

\* Numbers that overflow an int are left out.
ASSUME ParamAssumption == Params \subseteq Nat

ASSUME DataAssumption ==
  /\ Space \notin Chars
  /\ DefaultColor \in Colors
  /\ "uninit" \notin Colors
  /\ Renditions \subseteq Rendition

ASSUME BoundAssumption ==
  /\ MaxRun \in Nat \ {0} /\ MaxPending \in Nat
  /\ InitModes \subseteq ModeFlags

\* The fields of the GTerm object.
GTermType ==
  [width : Cols, height : 0 .. GT_MAXHEIGHT,
   scroll_top : Nat, scroll_bot : Rows,
   text : [Rows -> [Cols -> Cell]], linenumbers : [Rows -> Rows],
   dirty_startx : [Rows -> 0 .. GT_MAXWIDTH], dirty_endx : [Rows -> Cols],
   pending_scroll : Int, cursor_x : Int, cursor_y : Int,
   save_x : Int, save_y : Int, save_attrib : SUBSET Rendition,
   color : Colors, mode_flags : SUBSET ModeFlags, tab_stops : SUBSET Cols]

LesserOf(a, b) == IF a < b THEN a ELSE b
GreaterOf(a, b) == IF a < b THEN b ELSE a

----------------------------------------------------------------------------
(* Utility functions: utils.cpp                                            *)

TextAt(g, y, x) == g.text[g.linenumbers[y]][x]

calc_color(g) == <<g.color, g.mode_flags \cap Rendition>>

BlankCell(g) == <<Space, calc_color(g)>>

changed_line(g, y, start_x, end_x) ==
  [g EXCEPT !.dirty_startx[y] = LesserOf(@, start_x),
            !.dirty_endx[y] = GreaterOf(@, end_x)]

\* The rows in ys become dirty from start_x to end_x.
ChangedLines(g, ys, start_x, end_x) ==
  [g EXCEPT
    !.dirty_startx = [y \in Rows |-> IF y \in ys THEN LesserOf(@[y], start_x)
                                                 ELSE @[y]],
    !.dirty_endx = [y \in Rows |-> IF y \in ys THEN GreaterOf(@[y], end_x)
                                               ELSE @[y]]]

\* The text store after the cells of row y in columns xs are those of new.
WithRow(g, y, xs, new) ==
  [g.text EXCEPT ![g.linenumbers[y]] =
     [x \in Cols |-> IF x \in xs THEN new[x] ELSE @[x]]]

\* The text store after the cells of the rows ys in columns xs are c.
Filled(g, ys, xs, c) ==
  [l \in Rows |->
     IF \E y \in ys : g.linenumbers[y] = l
     THEN [x \in Cols |-> IF x \in xs THEN c ELSE g.text[l][x]]
     ELSE g.text[l]]

clear_area(g, start_x, start_y, end_x, end_y) ==
  IF end_x - start_x + 1 < 1
  THEN g
  ELSE [ChangedLines(g, start_y .. end_y, start_x, end_x) EXCEPT
          !.text = Filled(g, start_y .. end_y, start_x .. end_x, BlankCell(g))]

move_cursor(g, x, y) ==
  LET old_x == LesserOf(g.cursor_x, g.width - 1)
      old_y == LesserOf(g.cursor_y, g.height - 1)
  IN  [changed_line(g, old_y, old_x, old_x) EXCEPT
         !.cursor_x = x, !.cursor_y = y]

\* A row whose source falls outside the region takes the row that comes round.
ComesRound(y, start_y, end_y, num) == y + num < start_y \/ y + num > end_y

\* A slip in the wrap-around, for the mutation tests.
TakeyOffByOne(y, start_y, end_y, num) ==
  CASE y + num < start_y -> end_y + 1 - (start_y - (y + num))
    [] y + num > end_y -> start_y + ((y + num) - end_y)
    [] OTHER -> y + num

Takey(y, start_y, end_y, num) ==
  CASE y + num < start_y -> end_y + 1 - (start_y - (y + num))
    [] y + num > end_y -> start_y - 1 + ((y + num) - end_y)
    [] OTHER -> y + num

\* Rotates the rows of the region by renumbering, and clears the rows that
\* come round.  A scroll of the region's own height renumbers and clears
\* nothing.
scroll_region(g, start_y, end_y, num) ==
  LET mx == end_y - start_y + 1
      n1 == IF num > mx THEN mx ELSE num
      n == IF -n1 > mx THEN -mx ELSE n1
      fast_scroll == /\ start_y = g.scroll_top
                     /\ end_y = g.scroll_bot
                     /\ "TEXTONLY" \notin g.mode_flags
      region == start_y .. end_y
      Clr(y) == ComesRound(y, start_y, end_y, n)
      From(y) == Takey(y, start_y, end_y, n)
      moved == [g EXCEPT !.linenumbers =
                  [y \in Rows |-> IF y \in region THEN @[From(y)] ELSE @[y]]]
      scrolled == [moved EXCEPT
        !.text = Filled(moved, {y \in region : Clr(y)}, 0 .. g.width - 1,
                        BlankCell(g)),
        !.dirty_startx =
           [y \in Rows |-> IF y \notin region THEN @[y]
                           ELSE IF ~fast_scroll \/ Clr(y) THEN 0
                           ELSE @[From(y)]],
        !.dirty_endx =
           [y \in Rows |-> IF y \notin region THEN @[y]
                           ELSE IF ~fast_scroll \/ Clr(y) THEN g.width - 1
                           ELSE @[From(y)]]]
      rotated == IF n < mx /\ -n < mx THEN scrolled ELSE g
  IN  IF num = 0 THEN g
      ELSE [rotated EXCEPT !.pending_scroll = IF fast_scroll THEN @ + n ELSE @]

\* Forgets the cells behind the first one, for the mutation tests.
shift_text_first_only(g, y, start_x, end_x, num) ==
  LET From(x) == x - num
      new == [x \in start_x .. end_x |->
                IF From(x) \in start_x .. end_x THEN TextAt(g, y, From(x))
                ELSE BlankCell(g)]
  IN  [changed_line(g, y, start_x, start_x) EXCEPT
         !.text = WithRow(g, y, start_x .. end_x, new)]

\* num < 0 moves the text left, num > 0 right; the gap is blanked.
shift_text(g, y, start_x, end_x, num) ==
  LET From(x) == x - num
      new == [x \in start_x .. end_x |->
                IF From(x) \in start_x .. end_x THEN TextAt(g, y, From(x))
                ELSE BlankCell(g)]
  IN  IF num = 0 THEN g
      ELSE [changed_line(g, y, start_x, end_x) EXCEPT
              !.text = WithRow(g, y, start_x .. end_x, new)]

set_mode_flag(g, flags) == [g EXCEPT !.mode_flags = @ \cup flags]
clear_mode_flag(g, flags) == [g EXCEPT !.mode_flags = @ \ flags]

----------------------------------------------------------------------------
(* Terminal actions: actions.cpp                                           *)

\* A missing or zero count means one.
CountOf(p) == IF p < 1 THEN 1 ELSE p

cr(g) == move_cursor(g, 0, g.cursor_y)

lf(g) == IF g.cursor_y < g.scroll_bot
         THEN move_cursor(g, g.cursor_x, g.cursor_y + 1)
         ELSE scroll_region(g, g.scroll_top, g.scroll_bot, 1)

next_line(g) == cr(lf(g))

ff(g) == move_cursor(clear_area(g, 0, g.scroll_top, g.width - 1, g.scroll_bot),
                     0, g.scroll_top)

\* The first tab stop to the right of the cursor; without one, the next
\* multiple of eight.
NextTab(g) ==
  LET stops == {i \in g.cursor_x + 1 .. g.width - 1 : i \in g.tab_stops}
  IN  IF stops # {} THEN CHOOSE i \in stops : \A j \in stops : i <= j
      ELSE ((g.cursor_x + 8) \div 8) * 8

tab(g) ==
  LET x == NextTab(g)
  IN  IF x < g.width THEN move_cursor(g, x, g.cursor_y)
      ELSE IF "NOEOLWRAP" \in g.mode_flags
           THEN move_cursor(g, g.width - 1, g.cursor_y)
           ELSE next_line(g)

bs(g) ==
  LET moved == IF g.cursor_x > 0
               THEN move_cursor(g, g.cursor_x - 1, g.cursor_y) ELSE g
  IN  IF "DESTRUCTBS" \in g.mode_flags
      THEN clear_area(moved, moved.cursor_x, moved.cursor_y,
                      moved.cursor_x, moved.cursor_y)
      ELSE moved

\* Wraps when the cursor reaches the last column, for the mutation tests.
normal_input_at_edge(g, run) ==
  LET h == IF g.cursor_x < g.width - 1 \/ "NOEOLWRAP" \in g.mode_flags THEN g
           ELSE next_line(g)
      n == LesserOf(Len(run), h.width - h.cursor_x)
      new == [x \in h.cursor_x .. h.cursor_x + n - 1 |->
                <<run[x - h.cursor_x + 1], calc_color(h)>>]
  IN  [changed_line(h, h.cursor_y, h.cursor_x, h.cursor_x + n - 1) EXCEPT
         !.text = WithRow(h, h.cursor_y, h.cursor_x .. h.cursor_x + n - 1, new),
         !.cursor_x = h.cursor_x + n]

\* A run of printing characters, as long as the input holds.  When lines do not
\* wrap, the part of the run beyond the last column is dropped; when they do, it
\* is left for the next call.
normal_input(g, run) ==
  LET h == IF g.cursor_x < g.width THEN g
           ELSE IF "NOEOLWRAP" \in g.mode_flags
           THEN [g EXCEPT !.cursor_x = g.width - 1]
           ELSE next_line(g)
      n == LesserOf(Len(run), h.width - h.cursor_x)
      last == h.cursor_x + n - 1
      end == IF "INSERT" \in g.mode_flags THEN h.width - 1 ELSE last
      new == [x \in h.cursor_x .. end |->
                IF x <= last THEN <<run[x - h.cursor_x + 1], calc_color(h)>>
                ELSE TextAt(h, h.cursor_y, x - n)]
  IN  [changed_line(h, h.cursor_y, h.cursor_x, end) EXCEPT
         !.text = WithRow(h, h.cursor_y, h.cursor_x .. end, new),
         !.cursor_x = last + 1]

save_cursor(g) == [g EXCEPT !.save_attrib = g.mode_flags \cap Rendition,
                            !.save_x = g.cursor_x, !.save_y = g.cursor_y]

restore_cursor(g) ==
  move_cursor([g EXCEPT !.mode_flags = (@ \ Rendition) \cup g.save_attrib],
              g.save_x, g.save_y)

set_tab(g) == [g EXCEPT !.tab_stops = @ \cup {g.cursor_x}]

clear_tab(g, p) == [g EXCEPT !.tab_stops = IF p = 3 THEN {}
                                           ELSE IF p = 0 THEN @ \ {g.cursor_x}
                                           ELSE @]

index_down(g) == lf(g)

index_up(g) == IF g.cursor_y > g.scroll_top
               THEN move_cursor(g, g.cursor_x, g.cursor_y - 1)
               ELSE scroll_region(g, g.scroll_top, g.scroll_bot, -1)

\* BOLD and INVERSE survive a reset, and so do the saved cursor and the
\* destructive backspace.
reset(g) ==
  LET cleared == clear_mode_flag(
        [g EXCEPT !.pending_scroll = 0, !.color = DefaultColor,
                  !.scroll_top = 0, !.scroll_bot = g.height - 1,
                  !.linenumbers = [i \in Rows |-> i], !.tab_stops = {}],
        {"NOEOLWRAP", "CURSORAPPMODE", "CURSORRELATIVE", "NEWLINE", "INSERT",
         "UNDERLINE", "BLINK", "KEYAPPMODE", "CURSORINVISIBLE"})
  IN  move_cursor(clear_area(cleared, 0, 0, g.width - 1, g.height - 1), 0, 0)

cursor_left(g, p) == move_cursor(g, GreaterOf(g.cursor_x - CountOf(p), 0),
                                 g.cursor_y)

cursor_right(g, p) ==
  move_cursor(g, LesserOf(g.cursor_x + CountOf(p), g.width - 1), g.cursor_y)

cursor_up(g, p) == move_cursor(g, g.cursor_x,
                               GreaterOf(g.cursor_y - CountOf(p), 0))

cursor_down(g, p) ==
  move_cursor(g, g.cursor_x, LesserOf(g.cursor_y + CountOf(p), g.height - 1))

\* The parameters count from one, and are clamped as if they counted from zero.
cursor_position(g, p0, p1) ==
  LET x == LesserOf(CountOf(p1), g.width - 1)
      y == LesserOf(CountOf(p0), g.height - 1)
      top == IF "CURSORRELATIVE" \in g.mode_flags THEN g.scroll_top ELSE 0
  IN  move_cursor(g, x - 1, y - 1 + top)

\* vt52_cursory keeps the row in param[0] until vt52_cursorx uses it.
vt52_cursor(g, py, px) ==
  move_cursor(g, LesserOf(CountOf(px), g.width - 1),
              LesserOf(CountOf(py), g.height - 1))

delete_char(g, p) ==
  LET n == CountOf(p)
  IN  IF n >= g.width - g.cursor_x
      THEN clear_area(g, g.cursor_x, g.cursor_y, g.width - 1, g.cursor_y)
      ELSE shift_text(g, g.cursor_y, g.cursor_x, g.width - 1, -n)

insert_char(g, p) ==
  LET n == CountOf(p)
  IN  IF n >= g.width - g.cursor_x
      THEN clear_area(g, g.cursor_x, g.cursor_y, g.width - 1, g.cursor_y)
      ELSE shift_text(g, g.cursor_y, g.cursor_x, g.width - 1, n)

\* Erases past the last column, for the mutation tests.
erase_char_unclamped(g, p) ==
  clear_area(g, g.cursor_x, g.cursor_y, g.cursor_x + CountOf(p) - 1, g.cursor_y)

erase_char(g, p) ==
  LET n == LesserOf(CountOf(p), g.width - g.cursor_x)
  IN  clear_area(g, g.cursor_x, g.cursor_y, g.cursor_x + n - 1, g.cursor_y)

delete_line(g, p) ==
  LET n == CountOf(p)
  IN  IF n >= g.scroll_bot - g.cursor_y + 1
      THEN clear_area(g, 0, g.cursor_y, g.width - 1, g.scroll_bot)
      ELSE scroll_region(g, g.cursor_y, g.scroll_bot, n)

insert_line(g, p) ==
  LET n == CountOf(p)
  IN  IF n >= g.scroll_bot - g.cursor_y + 1
      THEN clear_area(g, 0, g.cursor_y, g.width - 1, g.scroll_bot)
      ELSE scroll_region(g, g.cursor_y, g.scroll_bot, -n)

erase_display(g, p) ==
  CASE p = 0 -> clear_area(
                  clear_area(g, g.cursor_x, g.cursor_y, g.width - 1, g.cursor_y),
                  0, g.cursor_y + 1, g.width - 1, g.height - 1)
    [] p = 1 -> clear_area(
                  clear_area(g, 0, g.cursor_y, g.cursor_x, g.cursor_y),
                  0, 0, g.width - 1, g.cursor_y - 1)
    [] p = 2 -> clear_area(g, 0, 0, g.width - 1, g.height - 1)
    [] OTHER -> g

erase_line(g, p) ==
  CASE p = 0 -> clear_area(g, g.cursor_x, g.cursor_y, g.width - 1, g.cursor_y)
    [] p = 1 -> clear_area(g, 0, g.cursor_y, g.cursor_x, g.cursor_y)
    [] p = 2 -> clear_area(g, 0, g.cursor_y, g.width - 1, g.cursor_y)
    [] OTHER -> g

\* Every list of SGR parameters first clears the rendition and then leaves some
\* colours and some flags selected.
set_colors(g, color, flags) ==
  [set_mode_flag(clear_mode_flag(g, Rendition), flags) EXCEPT !.color = color]

screen_align(g) ==
  [ChangedLines(g, 0 .. g.height - 1, 0, g.width - 1) EXCEPT
     !.text = Filled(g, 0 .. g.height - 1, 0 .. g.width - 1,
                     <<AlignChar, <<DefaultColor, {}>>>>)]

\* The flags that "CSI Pm h" sets and clears.  Showing the cursor also marks its
\* cell; hiding it does not.
set_mode(g, flag) ==
  CASE flag \in {"NOEOLWRAP", "LOCALECHO"} -> clear_mode_flag(g, {flag})
    [] flag = "CURSORINVISIBLE" ->
         move_cursor(clear_mode_flag(g, {flag}), g.cursor_x, g.cursor_y)
    [] OTHER -> set_mode_flag(g, {flag})

clear_mode(g, flag) ==
  IF flag \in {"NOEOLWRAP", "LOCALECHO", "CURSORINVISIBLE"}
  THEN set_mode_flag(g, {flag}) ELSE clear_mode_flag(g, {flag})

\* The margins that "CSI t ; b r" selects, once the display is up to date.
set_margins(g, p0, p1) ==
  LET top == CountOf(p0) - 1
      bot == (IF p1 < 1 \/ p1 > g.height THEN g.height ELSE p1) - 1
      h == [g EXCEPT !.scroll_top = top, !.scroll_bot = bot]
      down == IF h.cursor_y < top THEN move_cursor(h, h.cursor_x, top) ELSE h
  IN  IF down.cursor_y > bot THEN move_cursor(down, down.cursor_x, bot) ELSE down

----------------------------------------------------------------------------
(* The class: gterm.cpp                                                    *)

ScreenRows(g) == 0 .. g.height - 1
ScreenCols(g) == 0 .. g.width - 1
Region(g) == g.scroll_top .. g.scroll_bot
Dirty(g, y) == g.dirty_startx[y] .. g.dirty_endx[y]

\* What update_changes does to the GTerm; what it paints depends on the display.
AfterUpdate(g) ==
  [g EXCEPT !.pending_scroll = 0,
            !.dirty_startx = [y \in Rows |-> IF y < g.height THEN GT_MAXWIDTH
                                                            ELSE @[y]],
            !.dirty_endx = [y \in Rows |-> IF y < g.height THEN 0 ELSE @[y]]]

\* update_changes asks the display to copy part of the scroll region.
AsksToMove(g) ==
  LET mx == g.scroll_bot - g.scroll_top + 1
  IN  /\ "TEXTONLY" \notin g.mode_flags
      /\ g.pending_scroll # 0
      /\ g.pending_scroll < mx /\ -g.pending_scroll < mx

\* A dirty range is painted run by run, a run being cells of one colour.
SameRun(g, y, x1, x2) ==
  \A x \in LesserOf(x1, x2) .. GreaterOf(x1, x2) :
    TextAt(g, y, x)[2] = TextAt(g, y, x1)[2]

\* DrawText paints the cells of a run; a run of spaces is handed to ClearChars,
\* which is told the background only.
PaintedCell(g, y, x) ==
  IF /\ "TEXTONLY" \notin g.mode_flags
     /\ \A x2 \in Dirty(g, y) :
          SameRun(g, y, x, x2) => TextAt(g, y, x2)[1] = Space
  THEN <<Space, <<TextAt(g, y, x)[2][1], {}>>>>
  ELSE TextAt(g, y, x)

DrawnCursor(g, old) ==
  IF "CURSORINVISIBLE" \in g.mode_flags THEN old
  ELSE <<LesserOf(g.cursor_x, g.width - 1), g.cursor_y>>

\* The row of the cursor is a row of the text store.
RowInStore(g) == g.cursor_y \in Rows

\* The top margin is so far below the screen that ff, or a row relative to it, leads out
\* of the text store.
MarginTooLow(g) == g.scroll_top + g.height - 2 \notin Rows

\* update_changes reads the cell under a visible cursor.
DrawsInStore(g) == "CURSORINVISIBLE" \in g.mode_flags \/ RowInStore(g)

\* Updates only when a copy is no longer worth it, for the mutation tests.
UpdatesWhenBehind(g) == g.pending_scroll > g.scroll_bot - g.scroll_top

\* ProcessInput ends with an update, unless updates are deferred and the scroll
\* the display is behind is still worth a copy.
UpdatesAtEnd(g) == \/ "DEFERUPDATE" \notin g.mode_flags
                   \/ g.pending_scroll > g.scroll_bot - g.scroll_top

Exposed(g, x, y, w, h) == ChangedLines(g, y .. y + h - 1, x, x + w - 1)

\* Keeps the bottom margin, for the mutation tests.
ResizeKeepsBottom(g, w, h) ==
  LET wid == LesserOf(g.width, w)
      right == clear_area(g, wid, 0, GT_MAXWIDTH - 1, GT_MAXHEIGHT - 1)
      below == clear_area(right, 0, LesserOf(g.height, h), wid - 1,
                          GT_MAXHEIGHT - 1)
      sized == [below EXCEPT !.width = w, !.height = h,
                  !.scroll_top = IF @ >= h THEN 0 ELSE @]
  IN  move_cursor(sized, LesserOf(w - 1, g.cursor_x), LesserOf(h - 1, g.cursor_y))

\* Clears below the old screen and not beside it, for the mutation tests.
ResizeNotBeside(g, w, h) ==
  LET below == clear_area(g, 0, LesserOf(g.height, h), LesserOf(g.width, w) - 1,
                          GT_MAXHEIGHT - 1)
      sized == [below EXCEPT !.width = w, !.height = h, !.scroll_bot = h - 1,
                  !.scroll_top = IF @ >= h THEN 0 ELSE @]
  IN  move_cursor(sized, LesserOf(w - 1, g.cursor_x), LesserOf(h - 1, g.cursor_y))

ResizeTerminal(g, w, h) ==
  LET wid == LesserOf(g.width, w)
      right == clear_area(g, wid, 0, GT_MAXWIDTH - 1, GT_MAXHEIGHT - 1)
      below == clear_area(right, 0, LesserOf(g.height, h), wid - 1,
                          GT_MAXHEIGHT - 1)
      sized == [below EXCEPT !.width = w, !.height = h, !.scroll_bot = h - 1,
                  !.scroll_top = IF @ >= h THEN 0 ELSE @]
  IN  move_cursor(sized, LesserOf(w - 1, g.cursor_x), LesserOf(h - 1, g.cursor_y))

\* The constructor: memset clears eight bytes of each array, not the array.
\* save_attrib is not initialised.
NewGTerm(w, h, junk) ==
  reset([width |-> w, height |-> h, scroll_top |-> 0, scroll_bot |-> h - 1,
         text |-> [l \in Rows |-> [x \in Cols |-> Uninit]],
         linenumbers |-> [y \in Rows |-> y],
         dirty_startx |-> [y \in Rows |-> 0],
         dirty_endx |-> [y \in Rows |-> GT_MAXWIDTH - 1],
         pending_scroll |-> 0, cursor_x |-> 0, cursor_y |-> 0,
         save_x |-> 0, save_y |-> 0, save_attrib |-> junk,
         color |-> DefaultColor, mode_flags |-> {}, tab_stops |-> {}])

VARIABLES
  gt,        \* the GTerm object
  crs,       \* where the display shows the cursor
  in_input   \* ProcessInput has been entered and has not returned

Runs == UNION {[1 .. n -> Chars \cup {Space}] : n \in 1 .. MaxRun}

GTermInit == \E sz \in Sizes, junk \in SUBSET Renditions :
               gt = set_mode_flag(NewGTerm(sz[1], sz[2], junk), InitModes)

\* One byte, or one escape sequence, of the host's output takes gt to g.  Nothing checks
\* the row of the cursor before it is used as an index, so what is done outside the text
\* store is undefined: the host is followed until the cursor is there.
Host(op, g) == /\ op \in Ops /\ RowInStore(gt)
               /\ gt' = g
               /\ g.pending_scroll \in -MaxPending .. MaxPending

\* The operations that leave the display alone.
HostOutput ==
  \/ \E run \in Runs : Host("normal_input", normal_input(gt, run))
  \/ Host("cr", cr(gt))
  \/ Host("lf", lf(gt))
  \/ Host("ff", ff(gt))
  \/ Host("tab", tab(gt))
  \/ Host("bs", bs(gt))
  \/ Host("save_cursor", save_cursor(gt))
  \/ Host("restore_cursor", restore_cursor(gt))
  \/ Host("set_tab", set_tab(gt))
  \/ Host("index_down", index_down(gt))
  \/ Host("index_up", index_up(gt))
  \/ Host("next_line", next_line(gt))
  \/ Host("reset", reset(gt))
  \/ Host("screen_align", screen_align(gt))
  \/ \E p \in Params :
       \/ Host("clear_tab", clear_tab(gt, p))
       \/ Host("cursor_left", cursor_left(gt, p))
       \/ Host("cursor_right", cursor_right(gt, p))
       \/ Host("cursor_up", cursor_up(gt, p))
       \/ Host("cursor_down", cursor_down(gt, p))
       \/ Host("delete_char", delete_char(gt, p))
       \/ Host("insert_char", insert_char(gt, p))
       \/ Host("erase_char", erase_char(gt, p))
       \/ Host("delete_line", delete_line(gt, p))
       \/ Host("insert_line", insert_line(gt, p))
       \/ Host("erase_display", erase_display(gt, p))
       \/ Host("erase_line", erase_line(gt, p))
  \/ \E p0, p1 \in Params :
       \/ Host("cursor_position", cursor_position(gt, p0, p1))
       \/ gt.pending_scroll = 0 /\ Host("set_margins", set_margins(gt, p0, p1))
  \/ \E row \in Params, col \in Cols : Host("vt52_cursor", vt52_cursor(gt, row, col))
  \/ \E color \in Colors, flags \in SUBSET Renditions :
       Host("set_colors", set_colors(gt, color, flags))
  \/ \E flag \in {"NOEOLWRAP", "CURSORAPPMODE", "CURSORRELATIVE", "INSERT",
                  "NEWLINE", "LOCALECHO", "CURSORINVISIBLE"} :
       \/ Host("set_mode", set_mode(gt, flag))
       \/ Host("clear_mode", clear_mode(gt, flag))
  \/ Host("keypad_application", set_mode_flag(gt, {"KEYAPPMODE"}))
  \/ Host("keypad_numeric", clear_mode_flag(gt, {"KEYAPPMODE"}))

============================================================================
