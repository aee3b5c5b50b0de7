---------------------------- MODULE GTermProofs ----------------------------
(***************************************************************************)
(* Proofs about GTerm and the display it drives, for every value of the    *)
(* constants.                                                              *)
(*                                                                         *)
(* The inductive invariant IInv says that the GTerm object is well formed  *)
(* and fits (Fit): it has its type, the columns, the saved cursor and the  *)
(* bottom margin are inside the text store, linenumbers is one-to-one      *)
(* (Base), and the row of the cursor is in the text store unless the top   *)
(* margin is too low.  These parts need each other: scroll_region permutes *)
(* linenumbers only if the rows it is given are rows of the store, and     *)
(* those are the cursor and the bottom margin; and while the cursor is in  *)
(* the store (Good) a method takes it out only by counting its row from    *)
(* the top margin, which set_margins does not check.  Every method assumes *)
(* Good, as it indexes the store with the row; updates that draw no cursor *)
(* and ResizeTerminal need only Base.  There is one lemma for each method; *)
(* a method that calls others is proved from their lemmas.                 *)
(*                                                                         *)
(* The second half proves that GTerm and display stay in step.             *)
(* DisplayTracks is not inductive: once the pending scroll is as large as  *)
(* the region it says nothing of the rows, and a scroll the other way      *)
(* makes the copy possible again.  Tracks says where the display holds a   *)
(* clean cell whatever the pending scroll is: a region of two rows or more *)
(* that was scrolled away has no clean cell left.  Again there is one      *)
(* lemma for each method; those that do not scroll follow from             *)
(* TouchedKept, which asks that every cell whose text they change is dirty *)
(* afterwards.                                                             *)
(*                                                                         *)
(* ResizeTerminal changes the bottom margin and does not carry out the     *)
(* pending scroll, which direct updates have carried out by then.  With    *)
(* deferred updates the display is tracked for a terminal that keeps its   *)
(* size.                                                                   *)
(*                                                                         *)
(* Then comes the terminal: bytes in, operations out.  TInv adds to IInv   *)
(* that the parser's numbers are in Params, which may be all of Nat, and   *)
(* that an operation was carried out only in a read.  The terminal has no  *)
(* step where the code would reach outside its arrays, so what is proved   *)
(* holds of all output up to such a byte.  That the terminal implements    *)
(* the screen then needs that the constants of the screen name all that    *)
(* bytes can ask for (Covered); its definitions are those of GTerm, method *)
(* by method (the lemmas Same...), and a run of characters longer than a   *)
(* row leaves what its beginning leaves.                                   *)
(*                                                                         *)
(* The last part is about the widget Fl_Term.  While the region is the     *)
(* whole screen (Whole), which no method but set_margins changes, a turn   *)
(* of the ring moves every row as a copy of the region would; the rows     *)
(* that come round hold other text than the display's, and by Tracks all   *)
(* their cells are dirty and painted in the same update.                   *)
(***************************************************************************)
EXTENDS Terminal, Fl_Term, SequenceTheorems, NaturalsInduction, WellFoundedInduction, TLAPS

\* What is well formed whatever the row of the cursor.
Base(g) ==
  /\ g \in GTermType
  /\ <<g.width, g.height>> \in Sizes
  /\ g.cursor_x \in Cols /\ g.cursor_y \in Nat
  /\ g.save_x \in Cols /\ g.save_y \in Rows
  /\ g.scroll_bot < g.height
  /\ \A y1, y2 \in Rows : g.linenumbers[y1] = g.linenumbers[y2] => y1 = y2

\* The GTerm object is well formed.
Good(g) == Base(g) /\ g.cursor_y \in Rows

\* It is, or a margin that is too low may have taken the cursor out of the text store.
Fit(g) == Base(g) /\ (RowInStore(g) \/ MarginTooLow(g))

\* The sizes the terminal is given fit the text store.
LEMMA SizeFacts ==
  ASSUME NEW w, NEW h, <<w, h>> \in Sizes
  PROVE  /\ w \in 2 .. GT_MAXWIDTH - 1
         /\ h \in 2 .. GT_MAXHEIGHT
         /\ GT_MAXWIDTH \in Nat /\ GT_MAXHEIGHT \in Nat
BY DimensionAssumption

\* The numeric facts that the lemmas below use of a GTerm whose cursor may be anywhere.
LEMMA BaseFacts ==
  ASSUME NEW g, Base(g)
  PROVE  /\ GT_MAXWIDTH \in Nat /\ GT_MAXHEIGHT \in Nat
         /\ g.width \in 2 .. GT_MAXWIDTH - 1
         /\ g.height \in 2 .. GT_MAXHEIGHT
         /\ g.cursor_x \in 0 .. GT_MAXWIDTH - 1
         /\ g.cursor_y \in Nat
         /\ g.save_x \in 0 .. GT_MAXWIDTH - 1
         /\ g.save_y \in 0 .. GT_MAXHEIGHT - 1
         /\ g.scroll_top \in Nat
         /\ g.scroll_bot \in 0 .. g.height - 1
         /\ g.pending_scroll \in Int
<1>1. <<g.width, g.height>> \in Sizes
  BY DEF Base
<1>2. g.scroll_top \in Nat /\ g.scroll_bot \in Rows /\ g.pending_scroll \in Int
  BY DEF Base, GTermType
<1> QED
  BY <1>1, <1>2, SizeFacts DEF Base, Rows, Cols

\* Those of a well-formed one.
LEMMA GoodFacts ==
  ASSUME NEW g, Good(g)
  PROVE  /\ GT_MAXWIDTH \in Nat /\ GT_MAXHEIGHT \in Nat
         /\ g.width \in 2 .. GT_MAXWIDTH - 1
         /\ g.height \in 2 .. GT_MAXHEIGHT
         /\ g.cursor_x \in 0 .. GT_MAXWIDTH - 1
         /\ g.cursor_y \in 0 .. GT_MAXHEIGHT - 1
         /\ g.save_x \in 0 .. GT_MAXWIDTH - 1
         /\ g.save_y \in 0 .. GT_MAXHEIGHT - 1
         /\ g.scroll_top \in Nat
         /\ g.scroll_bot \in 0 .. g.height - 1
         /\ g.pending_scroll \in Int
<1>1. Base(g) /\ g.cursor_y \in Rows
  BY DEF Good
<1> QED
  BY <1>1, BaseFacts DEF Rows

\* clear_area and its relatives write cells.
LEMMA BlankCellType ==
  ASSUME NEW g, g \in GTermType
  PROVE  BlankCell(g) \in Cell
<1>1. g.color \in Colors /\ g.mode_flags \cap Rendition \in SUBSET Rendition
  BY DEF GTermType
<1>2. Space \in Glyphs
  BY DEF Glyphs
<1> QED
  BY <1>1, <1>2 DEF BlankCell, calc_color, Cell, Written

\* Filling rows keeps the type of the text store.
LEMMA FilledType ==
  ASSUME NEW g, g \in GTermType, NEW ys, NEW xs, NEW c \in Cell
  PROVE  Filled(g, ys, xs, c) \in [Rows -> [Cols -> Cell]]
<1>1. g.text \in [Rows -> [Cols -> Cell]]
  BY DEF GTermType
<1> QED
  BY <1>1 DEF Filled

\* Marking rows dirty leaves the rest of the GTerm alone.
LEMMA ChangedLinesBase ==
  ASSUME NEW g, Base(g), NEW ys, NEW a \in 0 .. GT_MAXWIDTH, NEW b \in Cols
  PROVE  /\ Base(ChangedLines(g, ys, a, b))
         /\ ChangedLines(g, ys, a, b).cursor_y = g.cursor_y
<1>1. Base(ChangedLines(g, ys, a, b))
  BY DimensionAssumption DEF Base, ChangedLines, GTermType, LesserOf, GreaterOf, Rows, Cols
<1>2. ChangedLines(g, ys, a, b).cursor_y = g.cursor_y
  BY DEF ChangedLines
<1> QED
  BY <1>1, <1>2

\* So it keeps the GTerm well formed.
LEMMA ChangedLinesGood ==
  ASSUME NEW g, Good(g), NEW ys, NEW a \in 0 .. GT_MAXWIDTH, NEW b \in Cols
  PROVE  Good(ChangedLines(g, ys, a, b))
BY ChangedLinesBase DEF Good

\* changed_line leaves the rest of the GTerm alone.
LEMMA ChangedLineBase ==
  ASSUME NEW g, Base(g), NEW y \in Rows, NEW a \in 0 .. GT_MAXWIDTH, NEW b \in Cols
  PROVE  /\ Base(changed_line(g, y, a, b))
         /\ changed_line(g, y, a, b).cursor_y = g.cursor_y
<1>1. Base(changed_line(g, y, a, b))
  BY DimensionAssumption DEF Base, changed_line, GTermType, LesserOf, GreaterOf, Rows, Cols
<1>2. changed_line(g, y, a, b).cursor_y = g.cursor_y
  BY DEF changed_line
<1> QED
  BY <1>1, <1>2

\* So it keeps the GTerm well formed.
LEMMA ChangedLineGood ==
  ASSUME NEW g, Good(g), NEW y \in Rows, NEW a \in 0 .. GT_MAXWIDTH, NEW b \in Cols
  PROVE  Good(changed_line(g, y, a, b))
BY ChangedLineBase DEF Good

\* The text store may be replaced by any other text store.
LEMMA TextBase ==
  ASSUME NEW g, Base(g), NEW t \in [Rows -> [Cols -> Cell]]
  PROVE  Base([g EXCEPT !.text = t]) /\ [g EXCEPT !.text = t].cursor_y = g.cursor_y
<1>1. Base([g EXCEPT !.text = t])
  BY DEF Base, GTermType
<1>2. [g EXCEPT !.text = t].cursor_y = g.cursor_y
  OBVIOUS
<1> QED
  BY <1>1, <1>2

\* So the GTerm stays well formed.
LEMMA TextGood ==
  ASSUME NEW g, Good(g), NEW t \in [Rows -> [Cols -> Cell]]
  PROVE  Good([g EXCEPT !.text = t])
BY TextBase DEF Good

\* clear_area leaves the cursor alone; an empty range is allowed.
LEMMA ClearAreaBase ==
  ASSUME NEW g, Base(g), NEW sx \in 0 .. GT_MAXWIDTH, NEW sy, NEW ex \in Int, NEW ey,
         ex < GT_MAXWIDTH
  PROVE  /\ Base(clear_area(g, sx, sy, ex, ey))
         /\ clear_area(g, sx, sy, ex, ey).cursor_y = g.cursor_y
<1>1. CASE ex - sx + 1 < 1
  BY <1>1 DEF clear_area
<1>2. CASE ~(ex - sx + 1 < 1)
  <2>1. ex \in Cols
    BY <1>2, DimensionAssumption DEF Cols
  <2>2. /\ Base(ChangedLines(g, sy .. ey, sx, ex))
        /\ ChangedLines(g, sy .. ey, sx, ex).cursor_y = g.cursor_y
    BY <2>1, ChangedLinesBase
  <2>3. Filled(g, sy .. ey, sx .. ex, BlankCell(g)) \in [Rows -> [Cols -> Cell]]
    BY BlankCellType, FilledType DEF Base
  <2> QED
    BY <1>2, <2>2, <2>3, TextBase DEF clear_area
<1> QED
  BY <1>1, <1>2

\* clear_area keeps the GTerm well formed.
LEMMA ClearAreaGood ==
  ASSUME NEW g, Good(g), NEW sx \in 0 .. GT_MAXWIDTH, NEW sy, NEW ex \in Int, NEW ey,
         ex < GT_MAXWIDTH
  PROVE  Good(clear_area(g, sx, sy, ex, ey))
<1>1. Base(g) /\ g.cursor_y \in Rows
  BY DEF Good
<1>2. PICK h : h = clear_area(g, sx, sy, ex, ey)
  OBVIOUS
<1>3. Base(h) /\ h.cursor_y = g.cursor_y
  BY <1>1, <1>2, ClearAreaBase
<1>4. Good(h)
  BY <1>1, <1>3 DEF Good
<1> QED
  BY <1>2, <1>4

\* The cursor may be put on any cell of the text store.
LEMMA CursorGood ==
  ASSUME NEW g, Good(g), NEW x \in Cols, NEW y \in Rows
  PROVE  Good([g EXCEPT !.cursor_x = x, !.cursor_y = y])
<1>1. x \in Int /\ y \in Int /\ y \in Nat
  BY DimensionAssumption DEF Rows, Cols
<1>2. Base([g EXCEPT !.cursor_x = x, !.cursor_y = y])
  BY <1>1 DEF Good, Base, GTermType
<1>3. [g EXCEPT !.cursor_x = x, !.cursor_y = y].cursor_y = y
  BY DEF Good, Base, GTermType
<1> QED
  BY <1>2, <1>3 DEF Good

\* move_cursor marks a cell of the screen and moves the cursor, wherever it is told to.
LEMMA MoveCursorBase ==
  ASSUME NEW g, Base(g), NEW x \in Cols, NEW y \in Nat
  PROVE  Base(move_cursor(g, x, y)) /\ move_cursor(g, x, y).cursor_y = y
<1> DEFINE ox == LesserOf(g.cursor_x, g.width - 1)
           oy == LesserOf(g.cursor_y, g.height - 1)
<1>1. ox \in Cols /\ ox \in 0 .. GT_MAXWIDTH /\ oy \in Rows
  BY BaseFacts DEF LesserOf, Cols, Rows
<1>2. Base(changed_line(g, oy, ox, ox))
  BY <1>1, ChangedLineBase
<1> HIDE DEF ox, oy
<1>3. ASSUME NEW h, Base(h)
      PROVE  /\ Base([h EXCEPT !.cursor_x = x, !.cursor_y = y])
             /\ [h EXCEPT !.cursor_x = x, !.cursor_y = y].cursor_y = y
  <2>1. x \in Int /\ y \in Int
    BY DimensionAssumption DEF Cols
  <2>2. Base([h EXCEPT !.cursor_x = x, !.cursor_y = y])
    BY <1>3, <2>1 DEF Base, GTermType
  <2>3. [h EXCEPT !.cursor_x = x, !.cursor_y = y].cursor_y = y
    BY <1>3 DEF Base, GTermType
  <2> QED
    BY <2>2, <2>3
<1> QED
  BY <1>2, <1>3 DEF move_cursor, ox, oy

\* move_cursor keeps the GTerm well formed when the row is one of the text store.
LEMMA MoveCursorGood ==
  ASSUME NEW g, Good(g), NEW x \in Cols, NEW y \in Rows
  PROVE  Good(move_cursor(g, x, y))
<1>1. y \in Nat
  BY DEF Rows
<1> QED
  BY <1>1, MoveCursorBase DEF Good

\* Within the region, the source rows of a scroll are a permutation.
LEMMA TakeyInjective ==
  ASSUME NEW s \in Int, NEW e \in Int, NEW n \in Int,
         n < e - s + 1, -n < e - s + 1,
         NEW y1 \in s .. e, NEW y2 \in s .. e
  PROVE  /\ Takey(y1, s, e, n) \in s .. e
         /\ Takey(y1, s, e, n) = Takey(y2, s, e, n) => y1 = y2
<1>1. ASSUME NEW y \in s .. e
      PROVE  /\ y + n < s => Takey(y, s, e, n) = e + 1 - (s - (y + n))
             /\ y + n > e => Takey(y, s, e, n) = s - 1 + ((y + n) - e)
             /\ y + n \in s .. e => Takey(y, s, e, n) = y + n
  BY DEF Takey
<1> QED
  BY <1>1

\* linenumbers may be replaced by any other permutation.
LEMMA LinesGood ==
  ASSUME NEW g, Good(g), NEW ln \in [Rows -> Rows],
         \A y1, y2 \in Rows : ln[y1] = ln[y2] => y1 = y2
  PROVE  Good([g EXCEPT !.linenumbers = ln])
BY DEF Good, Base, GTermType

\* The text store and the dirty ranges may be replaced.
LEMMA DirtyGood ==
  ASSUME NEW g, Good(g), NEW t \in [Rows -> [Cols -> Cell]],
         NEW sx \in [Rows -> 0 .. GT_MAXWIDTH], NEW ex \in [Rows -> Cols]
  PROVE  Good([g EXCEPT !.text = t, !.dirty_startx = sx, !.dirty_endx = ex])
BY DEF Good, Base, GTermType

\* pending_scroll may be any integer.
LEMMA PendingGood ==
  ASSUME NEW g, Good(g), NEW p \in Int
  PROVE  Good([g EXCEPT !.pending_scroll = p])
BY DEF Good, Base, GTermType

\* scroll_region keeps the GTerm well formed: it permutes linenumbers.  A region that
\* begins below its end has no rows.
LEMMA ScrollRegionGood ==
  ASSUME NEW g, Good(g), NEW s \in Nat, NEW e \in Rows, NEW num \in Int
  PROVE  Good(scroll_region(g, s, e, num))
<1> DEFINE mx == e - s + 1
           n1 == IF num > mx THEN mx ELSE num
           n == IF -n1 > mx THEN -mx ELSE n1
           fast == /\ s = g.scroll_top
                   /\ e = g.scroll_bot
                   /\ "TEXTONLY" \notin g.mode_flags
           region == s .. e
           Clr(y) == ComesRound(y, s, e, n)
           From(y) == Takey(y, s, e, n)
           ln == [y \in Rows |-> IF y \in region THEN g.linenumbers[From(y)]
                                 ELSE g.linenumbers[y]]
           moved == [g EXCEPT !.linenumbers = ln]
           tx == Filled(moved, {y \in region : Clr(y)}, 0 .. g.width - 1, BlankCell(g))
           sx == [y \in Rows |-> IF y \notin region THEN g.dirty_startx[y]
                                 ELSE IF ~fast \/ Clr(y) THEN 0
                                 ELSE g.dirty_startx[From(y)]]
           ex == [y \in Rows |-> IF y \notin region THEN g.dirty_endx[y]
                                 ELSE IF ~fast \/ Clr(y) THEN g.width - 1
                                 ELSE g.dirty_endx[From(y)]]
           scrolled == [moved EXCEPT !.text = tx, !.dirty_startx = sx, !.dirty_endx = ex]
           rotated == IF n < mx /\ -n < mx THEN scrolled ELSE g
<1>1. s \in Int /\ e \in Int /\ n \in Int /\ region \subseteq Rows /\ Rows \subseteq Int
  BY DimensionAssumption DEF Rows
<1>2. ASSUME n < mx, -n < mx PROVE Good(scrolled)
  <2>1. \A y \in region : From(y) \in region
    BY <1>1, <1>2, TakeyInjective
  <2>2. \A y1, y2 \in region : From(y1) = From(y2) => y1 = y2
    BY <1>1, <1>2, TakeyInjective
  <2> HIDE DEF n, From, Clr, fast, mx
  <2>3. ln \in [Rows -> Rows]
    BY <1>1, <2>1 DEF Good, Base, GTermType
  <2>4. \A y1, y2 \in Rows : ln[y1] = ln[y2] => y1 = y2
    BY <1>1, <2>1, <2>2 DEF Good, Base, GTermType
  <2> HIDE DEF ln
  <2>5. Good(moved)
    BY <2>3, <2>4, LinesGood
  <2>6. tx \in [Rows -> [Cols -> Cell]]
    BY <2>5, BlankCellType, FilledType DEF Good, Base
  <2>7. sx \in [Rows -> 0 .. GT_MAXWIDTH]
    BY <1>1, <2>1, DimensionAssumption DEF Good, Base, GTermType
  <2>8. ex \in [Rows -> Cols]
    <3>1. g.dirty_endx \in [Rows -> Cols]
      BY DEF Good, Base, GTermType
    <3>2. g.width - 1 \in Cols
      BY GoodFacts DEF Cols
    <3> QED
      BY <1>1, <2>1, <3>1, <3>2
  <2> HIDE DEF moved, tx, sx, ex
  <2> QED
    BY <2>5, <2>6, <2>7, <2>8, DirtyGood
<1>3. Good(rotated)
  BY <1>2
<1>4. rotated.pending_scroll \in Int /\ rotated.pending_scroll + n \in Int
  <2> HIDE DEF rotated, n
  <2> QED
    BY <1>1, <1>3, GoodFacts
<1>5. CASE num = 0
  BY <1>5 DEF scroll_region
<1>6. CASE num # 0
  <2>1. scroll_region(g, s, e, num) =
          [rotated EXCEPT !.pending_scroll =
             IF fast THEN rotated.pending_scroll + n ELSE rotated.pending_scroll]
    BY <1>6 DEF scroll_region
  <2> HIDE DEF rotated, n, fast
  <2> QED
    BY <1>3, <1>4, <2>1, PendingGood
<1> QED
  BY <1>5, <1>6

\* Writing part of a row keeps the type of the text store.
LEMMA WithRowType ==
  ASSUME NEW g, g \in GTermType, NEW y \in Rows, NEW xs, NEW new,
         \A x \in xs : new[x] \in Cell
  PROVE  WithRow(g, y, xs, new) \in [Rows -> [Cols -> Cell]]
<1>1. g.text \in [Rows -> [Cols -> Cell]] /\ g.linenumbers[y] \in Rows
  BY DEF GTermType
<1> QED
  BY <1>1 DEF WithRow

\* Every position of the text store holds a cell.
LEMMA TextAtType ==
  ASSUME NEW g, g \in GTermType, NEW y \in Rows, NEW x \in Cols
  PROVE  TextAt(g, y, x) \in Cell
BY DEF TextAt, GTermType

\* shift_text keeps the GTerm well formed.
LEMMA ShiftTextGood ==
  ASSUME NEW g, Good(g), NEW y \in Rows, NEW sx \in Cols, NEW ex \in Cols, NEW num \in Int
  PROVE  Good(shift_text(g, y, sx, ex, num))
<1> DEFINE From(x) == x - num
           new == [x \in sx .. ex |-> IF From(x) \in sx .. ex
                                     THEN TextAt(g, y, From(x)) ELSE BlankCell(g)]
<1>1. \A x \in sx .. ex : new[x] \in Cell
  <2>1. sx .. ex \subseteq Cols
    BY DimensionAssumption DEF Cols
  <2> HIDE DEF From
  <2> QED
    BY <2>1, TextAtType, BlankCellType DEF Good, Base
<1> HIDE DEF new
<1>2. WithRow(g, y, sx .. ex, new) \in [Rows -> [Cols -> Cell]]
  BY <1>1, WithRowType DEF Good, Base
<1>3. sx \in 0 .. GT_MAXWIDTH
  BY DimensionAssumption DEF Cols
<1>4. Good(changed_line(g, y, sx, ex))
  BY <1>3, ChangedLineGood
<1>5. Good([changed_line(g, y, sx, ex) EXCEPT !.text = WithRow(g, y, sx .. ex, new)])
  BY <1>2, <1>4, TextGood
<1> QED
  BY <1>5 DEF shift_text, new

\* The mode flags may change in any way.
LEMMA ModeGood ==
  ASSUME NEW g, Good(g), NEW f \in SUBSET ModeFlags
  PROVE  /\ Good(set_mode_flag(g, f))
         /\ Good(clear_mode_flag(g, f))
         /\ Good([g EXCEPT !.mode_flags = f])
BY DEF Good, Base, GTermType, set_mode_flag, clear_mode_flag

\* cr keeps the GTerm well formed.
LEMMA CrGood ==
  ASSUME NEW g, Good(g)
  PROVE  Good(cr(g))
<1>1. 0 \in Cols /\ g.cursor_y \in Rows
  BY GoodFacts DEF Cols, Rows
<1> QED
  BY <1>1, MoveCursorGood DEF cr

\* lf keeps the GTerm well formed: the row below is on the screen, or it scrolls.
LEMMA LfGood ==
  ASSUME NEW g, Good(g)
  PROVE  Good(lf(g))
<1>1. CASE g.cursor_y < g.scroll_bot
  <2>1. g.cursor_x \in Cols /\ g.cursor_y + 1 \in Rows
    BY <1>1, GoodFacts DEF Rows, Cols
  <2> QED
    BY <1>1, <2>1, MoveCursorGood DEF lf
<1>2. CASE ~(g.cursor_y < g.scroll_bot)
  <2>1. g.scroll_top \in Nat /\ g.scroll_bot \in Rows
    BY DEF Good, Base, GTermType
  <2> QED
    BY <1>2, <2>1, ScrollRegionGood DEF lf
<1> QED
  BY <1>1, <1>2

\* next_line keeps the GTerm well formed.
LEMMA NextLineGood ==
  ASSUME NEW g, Good(g)
  PROVE  Good(next_line(g))
BY LfGood, CrGood DEF next_line

\* clear_area changes neither the top margin nor the size.
LEMMA ClearAreaKeeps ==
  ASSUME NEW g, NEW sx, NEW sy, NEW ex, NEW ey
  PROVE  /\ clear_area(g, sx, sy, ex, ey).scroll_top = g.scroll_top
         /\ clear_area(g, sx, sy, ex, ey).width = g.width
         /\ clear_area(g, sx, sy, ex, ey).height = g.height
BY DEF clear_area, ChangedLines

\* move_cursor changes neither.
LEMMA MoveCursorKeeps ==
  ASSUME NEW g, NEW x, NEW y
  PROVE  /\ move_cursor(g, x, y).scroll_top = g.scroll_top
         /\ move_cursor(g, x, y).width = g.width
         /\ move_cursor(g, x, y).height = g.height
BY DEF move_cursor, changed_line

\* A well-formed GTerm is one whose cursor is in the text store.
LEMMA GoodIsFit ==
  ASSUME NEW g
  PROVE  Good(g) <=> Fit(g) /\ RowInStore(g)
BY DEF Good, Fit, RowInStore

\* What leads out of the text store is a row counted from a margin that is too low.
LEMMA FarRowFit ==
  ASSUME NEW g, Good(g), NEW x \in Cols, NEW y \in Nat,
         y \in Rows \/ y \in 0 .. g.scroll_top + g.height - 2
  PROVE  Fit(move_cursor(g, x, y))
<1>1. Base(move_cursor(g, x, y)) /\ move_cursor(g, x, y).cursor_y = y
  BY MoveCursorBase DEF Good
<1>2. CASE y \in Rows
  BY <1>1, <1>2 DEF Fit, RowInStore
<1>3. CASE y \notin Rows
  <2>1. g.scroll_top + g.height - 2 \notin Rows
    BY <1>3, GoodFacts DEF Rows
  <2> QED
    BY <1>1, <2>1, MoveCursorKeeps DEF Fit, MarginTooLow
<1> QED
  BY <1>2, <1>3

\* ff keeps the GTerm well formed, unless the top margin is too low.
LEMMA FfFit ==
  ASSUME NEW g, Good(g)
  PROVE  Fit(ff(g))
<1>1. /\ 0 \in 0 .. GT_MAXWIDTH /\ g.width - 1 \in Int /\ g.width - 1 < GT_MAXWIDTH
      /\ 0 \in Cols /\ g.scroll_top \in Nat
      /\ g.scroll_top \in 0 .. g.scroll_top + g.height - 2
  BY GoodFacts DEF Cols
<1>2. PICK h : h = clear_area(g, 0, g.scroll_top, g.width - 1, g.scroll_bot)
  OBVIOUS
<1>3. Good(h) /\ h.scroll_top = g.scroll_top /\ h.height = g.height
  BY <1>1, <1>2, ClearAreaGood, ClearAreaKeeps
<1>4. Fit(move_cursor(h, 0, g.scroll_top))
  BY <1>1, <1>3, FarRowFit
<1> QED
  BY <1>2, <1>4 DEF ff

\* A set of natural numbers that is not empty has a least member.
LEMMA LeastOf ==
  ASSUME NEW S \in SUBSET Nat, S # {}
  PROVE  \E i \in S : \A j \in S : i <= j
<1> DEFINE R == OpToRel(<, Nat)
<1>1. \E i \in S : \A j \in S : ~(<<j, i>> \in R)
  BY NatLessThanWellFounded, WFMin
<1>2. \A i, j \in Nat : ~(<<j, i>> \in R) => i <= j
  BY DEF OpToRel
<1> QED
  BY <1>1, <1>2

\* tab keeps the GTerm well formed: the tab stop it takes is a column.
LEMMA TabGood ==
  ASSUME NEW g, Good(g)
  PROVE  Good(tab(g))
<1> DEFINE stops == {i \in g.cursor_x + 1 .. g.width - 1 : i \in g.tab_stops}
<1>1. NextTab(g) < g.width => NextTab(g) \in Cols
  <2>1. CASE \E i \in stops : \A j \in stops : i <= j
    <3>1. NextTab(g) \in stops
      BY <2>1 DEF NextTab
    <3> QED
      BY <3>1, GoodFacts DEF Cols
  <2>2. CASE stops = {}
    <3>1. NextTab(g) = ((g.cursor_x + 8) \div 8) * 8
      BY <2>2 DEF NextTab
    <3>2. ((g.cursor_x + 8) \div 8) * 8 \in Nat
      BY GoodFacts
    <3> QED
      BY <3>1, <3>2, GoodFacts DEF Cols
  <2>3. stops # {} => \E i \in stops : \A j \in stops : i <= j
    <3>1. stops \subseteq Nat
      BY GoodFacts
    <3> QED
      BY <3>1, LeastOf
  <2> QED
    BY <2>1, <2>2, <2>3
<1>2. g.width - 1 \in Cols /\ g.cursor_y \in Rows
  BY GoodFacts DEF Cols, Rows
<1> QED
  BY <1>1, <1>2, MoveCursorGood, NextLineGood DEF tab

\* Where the cursor and the margins are, as the lemmas on operations need it.
LEMMA CursorFacts ==
  ASSUME NEW g, Good(g)
  PROVE  /\ g.cursor_x \in Cols /\ g.cursor_y \in Rows /\ g.cursor_y \in Nat
         /\ g.cursor_x \in 0 .. GT_MAXWIDTH
         /\ 0 \in Cols /\ 0 \in Rows /\ 0 \in 0 .. GT_MAXWIDTH
         /\ g.width - 1 \in Cols /\ g.width - 1 \in Int /\ g.width - 1 < GT_MAXWIDTH
         /\ g.scroll_top \in Nat /\ g.scroll_bot \in Rows
BY GoodFacts DEF Cols, Rows

\* Clearing the cell under the cursor keeps the GTerm well formed.
LEMMA ClearCellGood ==
  ASSUME NEW g, Good(g)
  PROVE  Good(clear_area(g, g.cursor_x, g.cursor_y, g.cursor_x, g.cursor_y))
<1>1. g.cursor_x \in 0 .. GT_MAXWIDTH /\ g.cursor_x \in Int /\ g.cursor_x < GT_MAXWIDTH
  BY GoodFacts
<1> QED
  BY <1>1, ClearAreaGood

\* bs keeps the GTerm well formed.
LEMMA BsGood ==
  ASSUME NEW g, Good(g)
  PROVE  Good(bs(g))
<1> DEFINE moved == IF g.cursor_x > 0 THEN move_cursor(g, g.cursor_x - 1, g.cursor_y)
                    ELSE g
<1>1. Good(moved)
  <2>1. g.cursor_x > 0 => g.cursor_x - 1 \in Cols /\ g.cursor_y \in Rows
    BY GoodFacts DEF Cols, Rows
  <2> QED
    BY <2>1, MoveCursorGood
<1> HIDE DEF moved
<1>2. Good(clear_area(moved, moved.cursor_x, moved.cursor_y,
                      moved.cursor_x, moved.cursor_y))
  BY <1>1, ClearCellGood
<1> QED
  BY <1>1, <1>2 DEF bs, moved

\* A run of printing characters is a sequence that is not empty.
LEMMA RunFacts ==
  ASSUME NEW run \in Runs
  PROVE  /\ Len(run) \in Nat /\ Len(run) >= 1
         /\ \A i \in 1 .. Len(run) : run[i] \in Glyphs
<1>1. PICK n \in 1 .. MaxRun : run \in [1 .. n -> Chars \cup {Space}]
  BY DEF Runs
<1>2. n \in Nat /\ n >= 1
  BY BoundAssumption
<1>3. run \in Seq(Chars \cup {Space}) /\ Len(run) = n
  BY <1>1, <1>2
<1> QED
  BY <1>1, <1>2, <1>3 DEF Glyphs

\* The text store and the column may be replaced together.
LEMMA TextCursorGood ==
  ASSUME NEW g, Good(g), NEW t \in [Rows -> [Cols -> Cell]], NEW x \in Cols
  PROVE  Good([g EXCEPT !.text = t, !.cursor_x = x])
<1>1. x \in Int
  BY DimensionAssumption DEF Cols
<1> QED
  BY <1>1 DEF Good, Base, GTermType

\* normal_input keeps the GTerm well formed: it writes at least one character
\* and leaves the cursor at most one column to the right of the last one.
LEMMA NormalInputGood ==
  ASSUME NEW g, Good(g), NEW run \in Runs
  PROVE  Good(normal_input(g, run))
<1> DEFINE h == IF g.cursor_x < g.width THEN g
                ELSE IF "NOEOLWRAP" \in g.mode_flags
                THEN [g EXCEPT !.cursor_x = g.width - 1]
                ELSE next_line(g)
           n == LesserOf(Len(run), h.width - h.cursor_x)
           last == h.cursor_x + n - 1
           end == IF "INSERT" \in g.mode_flags THEN h.width - 1 ELSE last
           new == [x \in h.cursor_x .. end |->
                     IF x <= last THEN <<run[x - h.cursor_x + 1], calc_color(h)>>
                     ELSE TextAt(h, h.cursor_y, x - n)]
<1>1. Good(h) /\ h.cursor_x < h.width
  <2>1. CASE g.cursor_x < g.width
    <3>1. h = g
      BY <2>1
    <3> QED
      BY <2>1, <3>1
  <2>2. CASE ~(g.cursor_x < g.width) /\ "NOEOLWRAP" \in g.mode_flags
    <3>1. h = [g EXCEPT !.cursor_x = g.width - 1]
      BY <2>2
    <3>2. Good([g EXCEPT !.cursor_x = g.width - 1, !.cursor_y = g.cursor_y])
      BY CursorFacts, CursorGood
    <3>3. [g EXCEPT !.cursor_x = g.width - 1, !.cursor_y = g.cursor_y] =
          [g EXCEPT !.cursor_x = g.width - 1]
      BY DEF Good, Base, GTermType
    <3>4. g.width - 1 < g.width
      BY GoodFacts
    <3>5. /\ [g EXCEPT !.cursor_x = g.width - 1].cursor_x = g.width - 1
          /\ [g EXCEPT !.cursor_x = g.width - 1].width = g.width
      BY DEF Good, Base, GTermType
    <3> QED
      BY <3>1, <3>2, <3>3, <3>4, <3>5
  <2>3. CASE ~(g.cursor_x < g.width) /\ "NOEOLWRAP" \notin g.mode_flags
    <3>1. h = next_line(g)
      BY <2>3
    <3>2. Good(lf(g)) /\ Good(next_line(g))
      BY LfGood, NextLineGood
    <3>3. next_line(g).cursor_x = 0
      BY <3>2 DEF next_line, cr, move_cursor, changed_line, Good, Base, GTermType
    <3> QED
      BY <3>1, <3>2, <3>3, GoodFacts
  <2> QED
    BY <2>1, <2>2, <2>3
<1> HIDE DEF h
<1>2. /\ h.width \in 2 .. GT_MAXWIDTH - 1 /\ GT_MAXWIDTH \in Nat
      /\ h.cursor_x \in 0 .. h.width - 1 /\ h.cursor_y \in Rows
  BY <1>1, GoodFacts, CursorFacts
<1>3. n \in 1 .. h.width - h.cursor_x /\ n <= Len(run) /\ Len(run) \in Nat
  BY <1>2, RunFacts DEF LesserOf
<1> HIDE DEF n
<1>4. last \in h.cursor_x .. h.width - 1 /\ end \in last .. h.width - 1
  BY <1>2, <1>3
<1>5. \A x \in h.cursor_x .. end : new[x] \in Cell
  <2>1. SUFFICES ASSUME NEW x \in h.cursor_x .. end PROVE new[x] \in Cell
    OBVIOUS
  <2>2. CASE x <= last
    <3>1. x - h.cursor_x + 1 \in 1 .. Len(run)
      BY <1>2, <1>3, <1>4, <2>1, <2>2, SMTT(30)
    <3>2. run[x - h.cursor_x + 1] \in Glyphs
      BY <3>1, RunFacts
    <3>3. calc_color(h) \in Colors \X SUBSET Rendition
      BY <1>1 DEF calc_color, Good, Base, GTermType
    <3>4. new[x] = <<run[x - h.cursor_x + 1], calc_color(h)>>
      BY <2>2
    <3> QED
      BY <3>2, <3>3, <3>4 DEF Cell, Written
  <2>3. CASE ~(x <= last)
    <3>1. x - n \in Cols
      BY <1>2, <1>3, <1>4, <2>1, <2>3 DEF Cols
    <3>2. new[x] = TextAt(h, h.cursor_y, x - n)
      BY <2>3
    <3> QED
      BY <1>1, <1>2, <3>1, <3>2, TextAtType DEF Good, Base
  <2> QED
    BY <2>2, <2>3
<1> HIDE DEF new
<1>6. WithRow(h, h.cursor_y, h.cursor_x .. end, new) \in [Rows -> [Cols -> Cell]]
  BY <1>1, <1>2, <1>5, WithRowType DEF Good, Base
<1> HIDE DEF last, end
<1>7. h.cursor_x \in 0 .. GT_MAXWIDTH /\ end \in Cols /\ last + 1 \in Cols
  BY <1>2, <1>3, <1>4 DEF Cols
<1>8. Good(changed_line(h, h.cursor_y, h.cursor_x, end))
  BY <1>1, <1>2, <1>7, ChangedLineGood
<1>9. normal_input(g, run) =
         [changed_line(h, h.cursor_y, h.cursor_x, end) EXCEPT
           !.text = WithRow(h, h.cursor_y, h.cursor_x .. end, new),
           !.cursor_x = last + 1]
  BY DEF normal_input, h, n, last, end, new
<1>10. Good([changed_line(h, h.cursor_y, h.cursor_x, end) EXCEPT
              !.text = WithRow(h, h.cursor_y, h.cursor_x .. end, new),
              !.cursor_x = last + 1])
  BY <1>6, <1>7, <1>8, TextCursorGood
<1> QED
  BY <1>9, <1>10

\* save_cursor and restore_cursor keep the GTerm well formed.
LEMMA SaveRestoreGood ==
  ASSUME NEW g, Good(g)
  PROVE  Good(save_cursor(g)) /\ Good(restore_cursor(g))
<1>1. Good(save_cursor(g))
  BY CursorFacts DEF Good, Base, GTermType, save_cursor
<1>2. Good(restore_cursor(g))
  <2>1. (g.mode_flags \ Rendition) \cup g.save_attrib \in SUBSET ModeFlags
    BY DEF Good, Base, GTermType, ModeFlags
  <2>2. Good([g EXCEPT !.mode_flags = (g.mode_flags \ Rendition) \cup g.save_attrib])
    BY <2>1, ModeGood
  <2>3. g.save_x \in Cols /\ g.save_y \in Rows
    BY DEF Good, Base
  <2> QED
    BY <2>2, <2>3, MoveCursorGood DEF restore_cursor
<1> QED
  BY <1>1, <1>2

\* set_tab and clear_tab keep the GTerm well formed.
LEMMA TabStopsGood ==
  ASSUME NEW g, Good(g), NEW p
  PROVE  Good(set_tab(g)) /\ Good(clear_tab(g, p))
BY DEF Good, Base, GTermType, set_tab, clear_tab

\* index_up keeps the GTerm well formed.
LEMMA IndexUpGood ==
  ASSUME NEW g, Good(g)
  PROVE  Good(index_up(g))
<1>1. CASE g.cursor_y > g.scroll_top
  <2>1. g.cursor_x \in Cols /\ g.cursor_y - 1 \in Rows
    BY <1>1, GoodFacts DEF Rows, Cols
  <2> QED
    BY <1>1, <2>1, MoveCursorGood DEF index_up
<1>2. CASE ~(g.cursor_y > g.scroll_top)
  BY <1>2, CursorFacts, ScrollRegionGood, SMTT(30) DEF index_up
<1> QED
  BY <1>1, <1>2

\* The fields that reset assigns may be replaced.
LEMMA BareGood ==
  ASSUME NEW g, Good(g), NEW c \in Colors, NEW b \in Rows, b < g.height,
         NEW z \in Nat, z \in Int,
         NEW ln \in [Rows -> Rows],
         \A y1, y2 \in Rows : ln[y1] = ln[y2] => y1 = y2
  PROVE  Good([g EXCEPT !.pending_scroll = z, !.color = c, !.scroll_top = z,
                        !.scroll_bot = b, !.linenumbers = ln, !.tab_stops = {}])
BY DEF Good, Base, GTermType

\* The GTerm after the assignments of reset, before it clears the screen.
ResetFields(g) ==
  clear_mode_flag(
    [g EXCEPT !.pending_scroll = 0, !.color = DefaultColor,
              !.scroll_top = 0, !.scroll_bot = g.height - 1,
              !.linenumbers = [i \in Rows |-> i], !.tab_stops = {}],
    {"NOEOLWRAP", "CURSORAPPMODE", "CURSORRELATIVE", "NEWLINE", "INSERT",
     "UNDERLINE", "BLINK", "KEYAPPMODE", "CURSORINVISIBLE"})

\* They keep the GTerm well formed.
LEMMA ResetFieldsGood ==
  ASSUME NEW g, Good(g)
  PROVE  Good(ResetFields(g))
<1> DEFINE bare == [g EXCEPT !.pending_scroll = 0, !.color = DefaultColor,
                     !.scroll_top = 0, !.scroll_bot = g.height - 1,
                     !.linenumbers = [i \in Rows |-> i], !.tab_stops = {}]
           flags == {"NOEOLWRAP", "CURSORAPPMODE", "CURSORRELATIVE", "NEWLINE",
                     "INSERT", "UNDERLINE", "BLINK", "KEYAPPMODE", "CURSORINVISIBLE"}
<1>1. g.height - 1 \in Rows /\ g.height - 1 < g.height /\ 0 \in Rows
  BY GoodFacts DEF Rows
<1>3. /\ [i \in Rows |-> i] \in [Rows -> Rows]
      /\ \A y1, y2 \in Rows : [i \in Rows |-> i][y1] = [i \in Rows |-> i][y2] => y1 = y2
  OBVIOUS
<1>4. DefaultColor \in Colors
  BY DataAssumption
<1>5. PICK z \in Int : z = 0
  OBVIOUS
<1>6. z \in Nat
  BY <1>5
<1>7. Good([g EXCEPT !.pending_scroll = z, !.color = DefaultColor,
            !.scroll_top = z, !.scroll_bot = g.height - 1,
            !.linenumbers = [i \in Rows |-> i], !.tab_stops = {}])
  BY <1>1, <1>3, <1>4, <1>6, BareGood
<1>8. Good(bare)
  BY <1>5, <1>7
<1> HIDE DEF bare
<1>9. flags \in SUBSET ModeFlags
  BY DEF ModeFlags, Rendition
<1>10. Good(clear_mode_flag(bare, flags))
  BY <1>8, <1>9, ModeGood
<1> QED
  BY <1>10 DEF ResetFields, bare

\* reset keeps the GTerm well formed.
LEMMA ResetGood ==
  ASSUME NEW g, Good(g)
  PROVE  Good(reset(g))
<1>1. Good(clear_area(ResetFields(g), 0, 0, g.width - 1, g.height - 1))
  BY ResetFieldsGood, CursorFacts, ClearAreaGood
<1> QED
  BY <1>1, CursorFacts, MoveCursorGood DEF reset, ResetFields

\* What is known of a numeric parameter of an escape sequence.
LEMMA ParamFacts ==
  ASSUME NEW p \in Params
  PROVE  /\ p \in Nat
         /\ CountOf(p) \in Nat /\ CountOf(p) >= 1
         /\ CountOf(p) \in Int
<1>1. p \in Nat
  BY ParamAssumption
<1> QED
  BY <1>1 DEF CountOf

\* The four cursor movements keep the GTerm well formed.
LEMMA CursorMovesGood ==
  ASSUME NEW g, Good(g), NEW p \in Params
  PROVE  /\ Good(cursor_left(g, p)) /\ Good(cursor_right(g, p))
         /\ Good(cursor_up(g, p)) /\ Good(cursor_down(g, p))
<1>1. /\ GreaterOf(g.cursor_x - CountOf(p), 0) \in Cols
      /\ LesserOf(g.cursor_x + CountOf(p), g.width - 1) \in Cols
  BY GoodFacts, ParamFacts DEF GreaterOf, LesserOf, Cols
<1>2. /\ GreaterOf(g.cursor_y - CountOf(p), 0) \in Rows
      /\ LesserOf(g.cursor_y + CountOf(p), g.height - 1) \in Rows
  BY GoodFacts, ParamFacts DEF GreaterOf, LesserOf, Rows
<1> QED
  BY <1>1, <1>2, CursorFacts, MoveCursorGood
     DEF cursor_left, cursor_right, cursor_up, cursor_down

\* Cursor addressing keeps the GTerm well formed, unless it is relative to a top margin
\* that is too low.
LEMMA CursorPositionFit ==
  ASSUME NEW g, Good(g), NEW p0 \in Params, NEW p1 \in Params
  PROVE  Fit(cursor_position(g, p0, p1))
<1> DEFINE x == LesserOf(CountOf(p1), g.width - 1)
           y == LesserOf(CountOf(p0), g.height - 1)
           top == IF "CURSORRELATIVE" \in g.mode_flags THEN g.scroll_top ELSE 0
<1>1. x \in 1 .. g.width - 1 /\ y \in 1 .. g.height - 1
  BY GoodFacts, ParamFacts DEF LesserOf
<1>2. top = g.scroll_top \/ top = 0
  OBVIOUS
<1> HIDE DEF x, y, top
<1>3. x - 1 \in Cols
  BY <1>1, GoodFacts DEF Cols
<1>4. y - 1 + top \in Nat /\ y - 1 + top \in 0 .. g.scroll_top + g.height - 2
  BY <1>1, <1>2, GoodFacts
<1> QED
  BY <1>3, <1>4, FarRowFit DEF cursor_position, x, y, top

\* A vt52 address, whose column is a byte and no parameter, keeps it well formed.
LEMMA Vt52CursorGood ==
  ASSUME NEW g, Good(g), NEW row \in Params, NEW col \in Cols
  PROVE  Good(vt52_cursor(g, row, col))
<1> DEFINE x == LesserOf(CountOf(col), g.width - 1)
           y == LesserOf(CountOf(row), g.height - 1)
<1>1. x \in 1 .. g.width - 1 /\ y \in 1 .. g.height - 1
  BY GoodFacts, ParamFacts DEF LesserOf, CountOf, Cols
<1> HIDE DEF x, y
<1>2. x \in Cols /\ y \in Rows
  BY <1>1, GoodFacts DEF Cols, Rows
<1> QED
  BY <1>2, MoveCursorGood DEF vt52_cursor, x, y

\* Clearing from the cursor to the last column keeps the GTerm well formed.
LEMMA ClearRestOfRowGood ==
  ASSUME NEW g, Good(g)
  PROVE  Good(clear_area(g, g.cursor_x, g.cursor_y, g.width - 1, g.cursor_y))
BY CursorFacts, ClearAreaGood

\* Clearing whole rows keeps the GTerm well formed.
LEMMA ClearRowsGood ==
  ASSUME NEW g, Good(g), NEW w, w = g.width, NEW a, NEW b
  PROVE  Good(clear_area(g, 0, a, w - 1, b))
BY CursorFacts, ClearAreaGood

\* Clearing from the first column to the cursor keeps the GTerm well formed.
LEMMA ClearToCursorGood ==
  ASSUME NEW g, Good(g)
  PROVE  Good(clear_area(g, 0, g.cursor_y, g.cursor_x, g.cursor_y))
<1>1. g.cursor_x \in Int /\ g.cursor_x < GT_MAXWIDTH
  BY GoodFacts
<1> QED
  BY <1>1, CursorFacts, ClearAreaGood

\* Deleting, inserting and erasing characters keeps the GTerm well formed.
LEMMA CharsGood ==
  ASSUME NEW g, Good(g), NEW p \in Params
  PROVE  /\ Good(delete_char(g, p)) /\ Good(insert_char(g, p))
         /\ Good(erase_char(g, p))
<1>1. CountOf(p) \in Int /\ -CountOf(p) \in Int
  BY ParamFacts
<1>2. Good(delete_char(g, p))
  BY <1>1, ClearRestOfRowGood, CursorFacts, ShiftTextGood DEF delete_char
<1>3. Good(insert_char(g, p))
  BY <1>1, ClearRestOfRowGood, CursorFacts, ShiftTextGood DEF insert_char
<1>4. Good(erase_char(g, p))
  <2> DEFINE n == LesserOf(CountOf(p), g.width - g.cursor_x)
  <2>1. g.cursor_x + n - 1 \in Int /\ g.cursor_x + n - 1 < GT_MAXWIDTH
    BY <1>1, GoodFacts DEF LesserOf
  <2> QED
    BY <2>1, CursorFacts, ClearAreaGood DEF erase_char
<1> QED
  BY <1>2, <1>3, <1>4

\* Deleting and inserting lines keeps the GTerm well formed.
LEMMA LinesMovedGood ==
  ASSUME NEW g, Good(g), NEW p \in Params
  PROVE  Good(delete_line(g, p)) /\ Good(insert_line(g, p))
<1>1. CountOf(p) \in Int /\ -CountOf(p) \in Int
  BY ParamFacts
<1>2. Good(clear_area(g, 0, g.cursor_y, g.width - 1, g.scroll_bot))
  BY ClearRowsGood
<1>3. /\ Good(scroll_region(g, g.cursor_y, g.scroll_bot, CountOf(p)))
      /\ Good(scroll_region(g, g.cursor_y, g.scroll_bot, -CountOf(p)))
  BY <1>1, CursorFacts, ScrollRegionGood
<1> QED
  BY <1>2, <1>3 DEF delete_line, insert_line

\* erase_display and erase_line keep the GTerm well formed.
LEMMA EraseGood ==
  ASSUME NEW g, Good(g), NEW p
  PROVE  Good(erase_display(g, p)) /\ Good(erase_line(g, p))
<1>1. Good(clear_area(clear_area(g, g.cursor_x, g.cursor_y, g.width - 1, g.cursor_y),
                      0, g.cursor_y + 1, g.width - 1, g.height - 1))
  BY ClearRestOfRowGood, ClearAreaKeeps, ClearRowsGood
<1>2. Good(clear_area(clear_area(g, 0, g.cursor_y, g.cursor_x, g.cursor_y),
                      0, 0, g.width - 1, g.cursor_y - 1))
  BY ClearToCursorGood, ClearAreaKeeps, ClearRowsGood
<1>3. /\ Good(clear_area(g, 0, 0, g.width - 1, g.height - 1))
      /\ Good(clear_area(g, 0, g.cursor_y, g.width - 1, g.cursor_y))
  BY ClearRowsGood
<1>4. Good(erase_display(g, p))
  <2>1. p \in {0, 1, 2} \/ erase_display(g, p) = g
    BY DEF erase_display
  <2>2. CASE p = 0
    BY <1>1, <2>2 DEF erase_display
  <2>3. CASE p = 1
    BY <1>2, <2>3 DEF erase_display
  <2>4. CASE p = 2
    BY <1>3, <2>4 DEF erase_display
  <2> QED
    BY <2>1, <2>2, <2>3, <2>4
<1>5. Good(erase_line(g, p))
  <2>1. p \in {0, 1, 2} \/ erase_line(g, p) = g
    BY DEF erase_line
  <2>2. CASE p = 0
    BY <2>2, ClearRestOfRowGood DEF erase_line
  <2>3. CASE p = 1
    BY <2>3, ClearToCursorGood DEF erase_line
  <2>4. CASE p = 2
    BY <1>3, <2>4 DEF erase_line
  <2> QED
    BY <2>1, <2>2, <2>3, <2>4
<1> QED
  BY <1>4, <1>5

\* set_colors keeps the GTerm well formed.
LEMMA ColorsGood ==
  ASSUME NEW g, Good(g), NEW c \in Colors, NEW f \in SUBSET Renditions
  PROVE  Good(set_colors(g, c, f))
<1>1. Rendition \in SUBSET ModeFlags /\ f \in SUBSET ModeFlags
  BY DataAssumption DEF ModeFlags
<1>2. Good(set_mode_flag(clear_mode_flag(g, Rendition), f))
  BY <1>1, ModeGood
<1>3. ASSUME NEW h, Good(h) PROVE Good([h EXCEPT !.color = c])
  BY <1>3 DEF Good, Base, GTermType
<1> QED
  BY <1>2, <1>3 DEF set_colors

\* screen_align keeps the GTerm well formed.
LEMMA ScreenAlignGood ==
  ASSUME NEW g, Good(g)
  PROVE  Good(screen_align(g))
<1>1. <<AlignChar, <<DefaultColor, {}>>>> \in Cell
  BY DataAssumption DEF Cell, Written, Glyphs
<1>2. Good(ChangedLines(g, 0 .. g.height - 1, 0, g.width - 1))
  BY CursorFacts, ChangedLinesGood
<1>3. Filled(g, 0 .. g.height - 1, 0 .. g.width - 1, <<AlignChar, <<DefaultColor, {}>>>>)
        \in [Rows -> [Cols -> Cell]]
  BY <1>1, FilledType DEF Good, Base
<1> QED
  BY <1>2, <1>3, TextGood DEF screen_align

\* set_mode and clear_mode keep the GTerm well formed.
LEMMA SetModeGood ==
  ASSUME NEW g, Good(g), NEW flag \in ModeFlags
  PROVE  Good(set_mode(g, flag)) /\ Good(clear_mode(g, flag))
<1>1. Good(set_mode_flag(g, {flag})) /\ Good(clear_mode_flag(g, {flag}))
  BY ModeGood
<1>2. Good(move_cursor(clear_mode_flag(g, {flag}), g.cursor_x, g.cursor_y))
  BY <1>1, CursorFacts, MoveCursorGood
<1> QED
  BY <1>1, <1>2 DEF set_mode, clear_mode

\* The bottom margin may be replaced by a row of the screen, the top one by any number.
LEMMA MarginFieldsGood ==
  ASSUME NEW g, Good(g), NEW t \in Nat, NEW b \in Rows, b < g.height
  PROVE  Good([g EXCEPT !.scroll_top = t, !.scroll_bot = b])
BY DEF Good, Base, GTermType

\* set_margins keeps the GTerm well formed: the cursor, which may go far down with the
\* top margin, comes back to the bottom one.
LEMMA SetMarginsGood ==
  ASSUME NEW g, Good(g), NEW p0 \in Params, NEW p1 \in Params
  PROVE  Good(set_margins(g, p0, p1))
<1> DEFINE top == CountOf(p0) - 1
           bot == (IF p1 < 1 \/ p1 > g.height THEN g.height ELSE p1) - 1
           h == [g EXCEPT !.scroll_top = top, !.scroll_bot = bot]
           down == IF h.cursor_y < top THEN move_cursor(h, h.cursor_x, top) ELSE h
<1>1. top \in Nat
  BY ParamFacts
<1>2. bot \in Rows /\ bot < g.height
  BY GoodFacts, ParamFacts DEF Rows
<1> HIDE DEF top, bot
<1>3. Good(h)
  BY <1>1, <1>2, MarginFieldsGood
<1> HIDE DEF h
<1>4. Base(down)
  BY <1>1, <1>3, CursorFacts, MoveCursorBase DEF Good
<1> HIDE DEF down
<1>5. CASE down.cursor_y > bot
  <2>1. bot \in Nat /\ down.cursor_x \in Cols
    BY <1>2, <1>4 DEF Rows, Base
  <2>2. Good(move_cursor(down, down.cursor_x, bot))
    BY <1>2, <1>4, <2>1, MoveCursorBase DEF Good
  <2> QED
    BY <1>5, <2>2 DEF set_margins, top, bot, h, down
<1>6. CASE ~(down.cursor_y > bot)
  <2>1. down.cursor_y \in Rows
    BY <1>2, <1>4, <1>6, BaseFacts DEF Rows
  <2>2. Good(down)
    BY <1>4, <2>1 DEF Good
  <2> QED
    BY <1>6, <2>2 DEF set_margins, top, bot, h, down
<1> QED
  BY <1>5, <1>6

\* update_changes leaves the cursor and the margins alone.
LEMMA AfterUpdateBase ==
  ASSUME NEW g, Base(g)
  PROVE  /\ Base(AfterUpdate(g))
         /\ AfterUpdate(g).cursor_y = g.cursor_y
         /\ AfterUpdate(g).scroll_top = g.scroll_top
         /\ AfterUpdate(g).height = g.height
<1> DEFINE sx == [y \in Rows |-> IF y < g.height THEN GT_MAXWIDTH ELSE g.dirty_startx[y]]
           ex == [y \in Rows |-> IF y < g.height THEN 0 ELSE g.dirty_endx[y]]
<1>1. sx \in [Rows -> 0 .. GT_MAXWIDTH] /\ ex \in [Rows -> Cols]
  <2>1. g.dirty_startx \in [Rows -> 0 .. GT_MAXWIDTH] /\ g.dirty_endx \in [Rows -> Cols]
    BY DEF Base, GTermType
  <2>2. GT_MAXWIDTH \in 0 .. GT_MAXWIDTH /\ 0 \in Cols
    BY BaseFacts DEF Cols
  <2> QED
    BY <2>1, <2>2
<1> HIDE DEF sx, ex
<1>2. \A z \in Int : Base([g EXCEPT !.pending_scroll = z, !.dirty_startx = sx, !.dirty_endx = ex])
  BY <1>1 DEF Base, GTermType
<1>3. PICK z \in Int : z = 0
  OBVIOUS
<1>4. AfterUpdate(g) = [g EXCEPT !.pending_scroll = z, !.dirty_startx = sx, !.dirty_endx = ex]
  BY <1>3 DEF AfterUpdate, sx, ex
<1>5. Base(AfterUpdate(g))
  BY <1>2, <1>4
<1>6. /\ AfterUpdate(g).cursor_y = g.cursor_y
      /\ AfterUpdate(g).scroll_top = g.scroll_top
      /\ AfterUpdate(g).height = g.height
  BY DEF AfterUpdate
<1> QED
  BY <1>5, <1>6

\* So it keeps the GTerm as well formed as it is.
LEMMA AfterUpdateGood ==
  ASSUME NEW g
  PROVE  /\ Good(g) => Good(AfterUpdate(g))
         /\ Fit(g) => Fit(AfterUpdate(g))
<1>1. Good(g) => Good(AfterUpdate(g))
  BY AfterUpdateBase DEF Good
<1>2. Fit(g) => Fit(AfterUpdate(g))
  BY AfterUpdateBase DEF Fit, RowInStore, MarginTooLow
<1> QED
  BY <1>1, <1>2

\* ResizeTerminal makes the GTerm well formed, wherever the cursor was, and gives it the
\* new size.
LEMMA ResizeGood ==
  ASSUME NEW g, Base(g), NEW w, NEW h, <<w, h>> \in Sizes
  PROVE  /\ Good(ResizeTerminal(g, w, h))
         /\ ResizeTerminal(g, w, h).width = w
         /\ ResizeTerminal(g, w, h).height = h
<1> DEFINE wid == LesserOf(g.width, w)
           right == clear_area(g, wid, 0, GT_MAXWIDTH - 1, GT_MAXHEIGHT - 1)
           below == clear_area(right, 0, LesserOf(g.height, h), wid - 1, GT_MAXHEIGHT - 1)
           top == IF below.scroll_top >= h THEN 0 ELSE below.scroll_top
           sized == [below EXCEPT !.width = w, !.height = h, !.scroll_bot = h - 1,
                                  !.scroll_top = top]
<1>1. w \in 2 .. GT_MAXWIDTH - 1 /\ h \in 2 .. GT_MAXHEIGHT
  BY SizeFacts
<1>2. wid \in 2 .. GT_MAXWIDTH - 1 /\ GT_MAXWIDTH \in Nat /\ GT_MAXHEIGHT \in Nat
  BY <1>1, BaseFacts DEF LesserOf
<1> HIDE DEF wid
<1>3. Base(right)
  <2>1. wid \in 0 .. GT_MAXWIDTH /\ GT_MAXWIDTH - 1 \in Int /\ GT_MAXWIDTH - 1 < GT_MAXWIDTH
    BY <1>2
  <2> QED
    BY <2>1, ClearAreaBase
<1> HIDE DEF right
<1>4. Base(below)
  <2>1. 0 \in 0 .. GT_MAXWIDTH /\ wid - 1 \in Int /\ wid - 1 < GT_MAXWIDTH
    BY <1>2
  <2> QED
    BY <1>3, <2>1, ClearAreaBase
<1> HIDE DEF below
<1>5. /\ top \in Nat /\ h - 1 \in Rows /\ h - 1 < h
      /\ w \in Cols /\ h \in 0 .. GT_MAXHEIGHT
  BY <1>1, <1>2, <1>4, BaseFacts DEF Rows, Cols
<1> HIDE DEF top
<1>7. Base(sized) /\ sized.width = w /\ sized.height = h
  BY <1>4, <1>5 DEF Base, GTermType
<1> HIDE DEF sized
<1>8. /\ LesserOf(w - 1, g.cursor_x) \in Cols /\ LesserOf(h - 1, g.cursor_y) \in Rows
      /\ LesserOf(h - 1, g.cursor_y) \in Nat
  BY <1>1, <1>2, BaseFacts DEF LesserOf, Cols, Rows
<1>9. Good(move_cursor(sized, LesserOf(w - 1, g.cursor_x), LesserOf(h - 1, g.cursor_y)))
  BY <1>7, <1>8, MoveCursorBase DEF Good
<1>10. \A x, y : /\ move_cursor(sized, x, y).width = sized.width
                /\ move_cursor(sized, x, y).height = sized.height
  BY DEF move_cursor, changed_line
<1>11. ResizeTerminal(g, w, h) =
         move_cursor(sized, LesserOf(w - 1, g.cursor_x), LesserOf(h - 1, g.cursor_y))
  BY DEF ResizeTerminal, sized, top, below, right, wid
<1> QED
  BY <1>7, <1>9, <1>10, <1>11

\* What the constructor has assigned when it calls reset.
RawGTerm(w, h, junk) ==
  [width |-> w, height |-> h, scroll_top |-> 0, scroll_bot |-> h - 1,
   text |-> [l \in Rows |-> [x \in Cols |-> Uninit]],
   linenumbers |-> [y \in Rows |-> y],
   dirty_startx |-> [y \in Rows |-> 0],
   dirty_endx |-> [y \in Rows |-> GT_MAXWIDTH - 1],
   pending_scroll |-> 0, cursor_x |-> 0, cursor_y |-> 0,
   save_x |-> 0, save_y |-> 0, save_attrib |-> junk,
   color |-> DefaultColor, mode_flags |-> {}, tab_stops |-> {}]

\* It is well formed.
LEMMA RawGTermGood ==
  ASSUME NEW w, NEW h, <<w, h>> \in Sizes, NEW junk \in SUBSET Renditions
  PROVE  Good(RawGTerm(w, h, junk))
<1> DEFINE g == RawGTerm(w, h, junk)
<1>1. /\ w \in Cols /\ h \in 0 .. GT_MAXHEIGHT /\ h - 1 \in Rows /\ h - 1 < h
      /\ 0 \in Rows /\ 0 \in Cols /\ 0 \in 0 .. GT_MAXWIDTH /\ GT_MAXWIDTH - 1 \in Cols
      /\ 0 \in Int
  BY SizeFacts DEF Rows, Cols
<1>2. junk \in SUBSET Rendition /\ DefaultColor \in Colors /\ Uninit \in Cell
  BY DataAssumption DEF Cell
<1>3. g \in GTermType
  BY <1>1, <1>2 DEF GTermType, RawGTerm
<1> QED
  BY <1>1, <1>3 DEF Good, Base, RawGTerm

\* The constructor makes a well-formed GTerm.
LEMMA NewGTermGood ==
  ASSUME NEW w, NEW h, <<w, h>> \in Sizes, NEW junk \in SUBSET Renditions
  PROVE  Good(NewGTerm(w, h, junk))
<1>1. NewGTerm(w, h, junk) = reset(RawGTerm(w, h, junk))
  BY DEF NewGTerm, RawGTerm
<1> QED
  BY <1>1, RawGTermGood, ResetGood

\* The host is followed while the cursor is in the text store.
LEMMA HostInStore == HostOutput => RowInStore(gt)
BY DEF HostOutput, Host

\* Every operation of the host keeps the GTerm well formed, except that a margin that is
\* too low may have taken the cursor out of the text store.
LEMMA HostOutputFit ==
  ASSUME Good(gt), HostOutput
  PROVE  Fit(gt')
<1>0. ASSUME NEW op, NEW g, Host(op, g), Good(g) PROVE Fit(gt')
  BY <1>0, GoodIsFit DEF Host
<1>00. ASSUME NEW op, NEW g, Host(op, g), Fit(g) PROVE Fit(gt')
  BY <1>00 DEF Host
<1>1. ASSUME NEW run \in Runs, Host("normal_input", normal_input(gt, run))
      PROVE  Fit(gt')
  BY <1>1, <1>0, <1>00, NormalInputGood
<1>2. CASE \/ Host("cr", cr(gt)) \/ Host("lf", lf(gt)) \/ Host("ff", ff(gt))
           \/ Host("tab", tab(gt)) \/ Host("bs", bs(gt))
           \/ Host("next_line", next_line(gt))
  BY <1>2, <1>0, <1>00, CrGood, LfGood, FfFit, TabGood, BsGood, NextLineGood
<1>3. CASE \/ Host("save_cursor", save_cursor(gt))
           \/ Host("restore_cursor", restore_cursor(gt))
           \/ Host("set_tab", set_tab(gt))
           \/ Host("index_down", index_down(gt)) \/ Host("index_up", index_up(gt))
           \/ Host("reset", reset(gt)) \/ Host("screen_align", screen_align(gt))
  BY <1>3, <1>0, <1>00, SaveRestoreGood, TabStopsGood, LfGood, IndexUpGood, ResetGood,
     ScreenAlignGood DEF index_down
<1>4. ASSUME NEW p \in Params,
             \/ Host("clear_tab", clear_tab(gt, p))
             \/ Host("cursor_left", cursor_left(gt, p))
             \/ Host("cursor_right", cursor_right(gt, p))
             \/ Host("cursor_up", cursor_up(gt, p))
             \/ Host("cursor_down", cursor_down(gt, p))
             \/ Host("delete_char", delete_char(gt, p))
             \/ Host("insert_char", insert_char(gt, p))
             \/ Host("erase_char", erase_char(gt, p))
             \/ Host("delete_line", delete_line(gt, p))
             \/ Host("insert_line", insert_line(gt, p))
             \/ Host("erase_display", erase_display(gt, p))
             \/ Host("erase_line", erase_line(gt, p))
      PROVE  Fit(gt')
  BY <1>4, <1>0, <1>00, TabStopsGood, CursorMovesGood, CharsGood, LinesMovedGood, EraseGood
<1>5. ASSUME NEW p0 \in Params, NEW p1 \in Params,
             \/ Host("cursor_position", cursor_position(gt, p0, p1))
             \/ Host("set_margins", set_margins(gt, p0, p1))
      PROVE  Fit(gt')
  BY <1>5, <1>0, <1>00, CursorPositionFit, SetMarginsGood
<1>10. ASSUME NEW row \in Params, NEW col \in Cols,
              Host("vt52_cursor", vt52_cursor(gt, row, col))
       PROVE  Fit(gt')
  BY <1>10, <1>0, <1>00, Vt52CursorGood
<1>6. ASSUME NEW color \in Colors, NEW flags \in SUBSET Renditions,
             Host("set_colors", set_colors(gt, color, flags))
      PROVE  Fit(gt')
  BY <1>6, <1>0, <1>00, ColorsGood
<1>7. ASSUME NEW flag \in ModeFlags,
             Host("set_mode", set_mode(gt, flag)) \/ Host("clear_mode", clear_mode(gt, flag))
      PROVE  Fit(gt')
  BY <1>7, <1>0, <1>00, SetModeGood
<1>8. CASE \/ Host("keypad_application", set_mode_flag(gt, {"KEYAPPMODE"}))
           \/ Host("keypad_numeric", clear_mode_flag(gt, {"KEYAPPMODE"}))
  <2>1. {"KEYAPPMODE"} \in SUBSET ModeFlags
    BY DEF ModeFlags
  <2> QED
    BY <1>8, <1>0, <1>00, <2>1, ModeGood
<1>9. {"NOEOLWRAP", "CURSORAPPMODE", "CURSORRELATIVE", "INSERT", "NEWLINE",
       "LOCALECHO", "CURSORINVISIBLE"} \subseteq ModeFlags
  BY DEF ModeFlags
<1> QED
  BY <1>1, <1>2, <1>3, <1>4, <1>5, <1>6, <1>7, <1>8, <1>9, <1>10, Zenon DEF HostOutput

----------------------------------------------------------------------------
(* No operation of the host changes the size.                              *)

SameSize(h, g) == h.width = g.width /\ h.height = g.height

\* clear_area keeps the size.
LEMMA ClearKeepsSize ==
  ASSUME NEW g, NEW a, NEW b, NEW c, NEW d
  PROVE  SameSize(clear_area(g, a, b, c, d), g)
BY DEF SameSize, clear_area, ChangedLines

\* move_cursor keeps the size.
LEMMA MoveKeepsSize ==
  ASSUME NEW g, NEW x, NEW y
  PROVE  SameSize(move_cursor(g, x, y), g)
BY DEF SameSize, move_cursor, changed_line

\* shift_text keeps the size.
LEMMA ShiftKeepsSize ==
  ASSUME NEW g, NEW a, NEW b, NEW c, NEW d
  PROVE  SameSize(shift_text(g, a, b, c, d), g)
BY DEF SameSize, shift_text, changed_line

\* Changing a mode keeps the size.
LEMMA ModeKeepsSize ==
  ASSUME NEW g, NEW f
  PROVE  SameSize(set_mode_flag(g, f), g) /\ SameSize(clear_mode_flag(g, f), g)
BY DEF SameSize, set_mode_flag, clear_mode_flag

\* scroll_region keeps the size.
LEMMA ScrollKeepsSize ==
  ASSUME NEW g, NEW s, NEW e, NEW num
  PROVE  SameSize(scroll_region(g, s, e, num), g)
BY DEF SameSize, scroll_region

\* lf, cr and next_line keep the size.
LEMMA LfKeepsSize ==
  ASSUME NEW g
  PROVE  SameSize(lf(g), g) /\ SameSize(cr(g), g) /\ SameSize(next_line(g), g)
<1>1. SameSize(lf(g), g)
  BY MoveKeepsSize, ScrollKeepsSize DEF lf
<1>2. SameSize(cr(g), g) /\ SameSize(cr(lf(g)), lf(g))
  BY MoveKeepsSize DEF cr
<1> QED
  BY <1>1, <1>2 DEF SameSize, next_line

\* normal_input keeps the size.
LEMMA NormalInputKeepsSize ==
  ASSUME NEW g, NEW run
  PROVE  SameSize(normal_input(g, run), g)
<1> DEFINE h == IF g.cursor_x < g.width THEN g
                ELSE IF "NOEOLWRAP" \in g.mode_flags
                THEN [g EXCEPT !.cursor_x = g.width - 1]
                ELSE next_line(g)
<1>1. SameSize(h, g)
  BY LfKeepsSize DEF SameSize
<1> HIDE DEF h
<1>2. \A y, a, b, t, x : SameSize([changed_line(h, y, a, b) EXCEPT !.text = t, !.cursor_x = x], h)
  BY DEF SameSize, changed_line
<1>3. \E y, a, b, t, x : normal_input(g, run) =
        [changed_line(h, y, a, b) EXCEPT !.text = t, !.cursor_x = x]
  BY ZenonT(30) DEF normal_input, h
<1> QED
  BY <1>1, <1>2, <1>3 DEF SameSize

\* The control characters and two-character sequences keep the size.
LEMMA ControlsKeepSize ==
  ASSUME NEW g, NEW p
  PROVE  /\ SameSize(ff(g), g) /\ SameSize(tab(g), g) /\ SameSize(bs(g), g)
         /\ SameSize(save_cursor(g), g) /\ SameSize(restore_cursor(g), g)
         /\ SameSize(set_tab(g), g) /\ SameSize(clear_tab(g, p), g)
         /\ SameSize(index_up(g), g) /\ SameSize(reset(g), g)
         /\ SameSize(screen_align(g), g)
<1>1. SameSize(ff(g), g) /\ SameSize(tab(g), g) /\ SameSize(bs(g), g)
  <2>1. SameSize(ff(g), g)
    BY ClearKeepsSize, MoveKeepsSize DEF SameSize, ff
  <2>2. SameSize(tab(g), g)
    BY MoveKeepsSize, LfKeepsSize DEF tab
  <2>3. SameSize(bs(g), g)
    BY ClearKeepsSize, MoveKeepsSize DEF SameSize, bs
  <2> QED
    BY <2>1, <2>2, <2>3
<1>2. SameSize(save_cursor(g), g) /\ SameSize(set_tab(g), g) /\ SameSize(clear_tab(g, p), g)
  BY DEF SameSize, save_cursor, set_tab, clear_tab
<1>3. SameSize(restore_cursor(g), g)
  <2> DEFINE h == [g EXCEPT !.mode_flags = (g.mode_flags \ Rendition) \cup g.save_attrib]
  <2>1. SameSize(h, g)
    BY DEF SameSize
  <2> HIDE DEF h
  <2>2. SameSize(move_cursor(h, g.save_x, g.save_y), h)
    BY MoveKeepsSize
  <2>3. restore_cursor(g) = move_cursor(h, g.save_x, g.save_y)
    BY DEF restore_cursor, h
  <2> QED
    BY <2>1, <2>2, <2>3 DEF SameSize
<1>4. SameSize(index_up(g), g)
  BY MoveKeepsSize, ScrollKeepsSize DEF index_up
<1>5. SameSize(reset(g), g)
  <2> DEFINE bare == [g EXCEPT !.pending_scroll = 0, !.color = DefaultColor,
               !.scroll_top = 0, !.scroll_bot = g.height - 1,
               !.linenumbers = [i \in Rows |-> i], !.tab_stops = {}]
  <2>1. SameSize(bare, g)
    BY DEF SameSize
  <2> HIDE DEF bare
  <2>2. \A f, a, b, c, d, x, y :
          SameSize(move_cursor(clear_area(clear_mode_flag(bare, f), a, b, c, d), x, y), bare)
    BY ClearKeepsSize, MoveKeepsSize, ModeKeepsSize DEF SameSize
  <2>3. SameSize(reset(g), bare)
    BY <2>2 DEF reset, bare
  <2> QED
    BY <2>1, <2>3 DEF SameSize
<1>6. SameSize(screen_align(g), g)
  BY DEF SameSize, screen_align, ChangedLines
<1> QED
  BY <1>1, <1>2, <1>3, <1>4, <1>5, <1>6

\* The control sequences keep the size.
LEMMA SequencesKeepSize ==
  ASSUME NEW g, NEW p, NEW q
  PROVE  /\ SameSize(cursor_left(g, p), g) /\ SameSize(cursor_right(g, p), g)
         /\ SameSize(cursor_up(g, p), g) /\ SameSize(cursor_down(g, p), g)
         /\ SameSize(delete_char(g, p), g) /\ SameSize(insert_char(g, p), g)
         /\ SameSize(erase_char(g, p), g)
         /\ SameSize(delete_line(g, p), g) /\ SameSize(insert_line(g, p), g)
         /\ SameSize(erase_display(g, p), g) /\ SameSize(erase_line(g, p), g)
         /\ SameSize(cursor_position(g, p, q), g) /\ SameSize(vt52_cursor(g, p, q), g)
         /\ SameSize(set_margins(g, p, q), g)
         /\ SameSize(set_colors(g, p, q), g)
         /\ SameSize(set_mode(g, p), g) /\ SameSize(clear_mode(g, p), g)
<1>1. /\ SameSize(cursor_left(g, p), g) /\ SameSize(cursor_right(g, p), g)
      /\ SameSize(cursor_up(g, p), g) /\ SameSize(cursor_down(g, p), g)
      /\ SameSize(cursor_position(g, p, q), g) /\ SameSize(vt52_cursor(g, p, q), g)
  BY MoveKeepsSize DEF cursor_left, cursor_right, cursor_up, cursor_down,
                       cursor_position, vt52_cursor
<1>2. /\ SameSize(delete_char(g, p), g) /\ SameSize(insert_char(g, p), g)
      /\ SameSize(erase_char(g, p), g)
  BY ClearKeepsSize, ShiftKeepsSize DEF delete_char, insert_char, erase_char
<1>3. SameSize(delete_line(g, p), g) /\ SameSize(insert_line(g, p), g)
  BY ClearKeepsSize, ScrollKeepsSize DEF delete_line, insert_line
<1>4. SameSize(erase_display(g, p), g)
  <2>1. p \in {0, 1, 2} \/ erase_display(g, p) = g
    BY DEF erase_display
  <2>2. p \in {0, 1, 2} => \E h, a, b, c, d : /\ SameSize(h, g)
                                              /\ erase_display(g, p) = clear_area(h, a, b, c, d)
    BY ClearKeepsSize DEF erase_display, SameSize
  <2> QED
    BY <2>1, <2>2, ClearKeepsSize DEF SameSize
<1>5. SameSize(erase_line(g, p), g)
  BY ClearKeepsSize DEF erase_line, SameSize
<1>6. SameSize(set_margins(g, p, q), g)
  <2> DEFINE h == [g EXCEPT !.scroll_top = CountOf(p) - 1,
                     !.scroll_bot = (IF q < 1 \/ q > g.height THEN g.height ELSE q) - 1]
             down == IF h.cursor_y < CountOf(p) - 1
                     THEN move_cursor(h, h.cursor_x, CountOf(p) - 1) ELSE h
  <2>1. SameSize(h, g)
    BY DEF SameSize
  <2> HIDE DEF h
  <2>2. SameSize(down, h)
    BY MoveKeepsSize DEF SameSize
  <2> HIDE DEF down
  <2>3. SameSize(set_margins(g, p, q), down)
    <3>1. \/ set_margins(g, p, q) = down
          \/ \E x, y : set_margins(g, p, q) = move_cursor(down, x, y)
      BY DEF set_margins, down, h
    <3> QED
      BY <3>1, MoveKeepsSize DEF SameSize
  <2> QED
    BY <2>1, <2>2, <2>3 DEF SameSize
<1>7. SameSize(set_colors(g, p, q), g)
  BY ModeKeepsSize DEF set_colors, SameSize
<1>8. SameSize(set_mode(g, p), g) /\ SameSize(clear_mode(g, p), g)
  BY MoveKeepsSize, ModeKeepsSize DEF set_mode, clear_mode, SameSize
<1> QED
  BY <1>1, <1>2, <1>3, <1>4, <1>5, <1>6, <1>7, <1>8

\* No operation of the host changes the size.
LEMMA HostOutputKeepsSize ==
  ASSUME HostOutput
  PROVE  SameSize(gt', gt)
BY NormalInputKeepsSize, LfKeepsSize, ControlsKeepSize, SequencesKeepSize,
   ModeKeepsSize, Zenon DEF HostOutput, Host, index_down

----------------------------------------------------------------------------
(* The display.                                                            *)

ScreenOf(g) == [ScreenRows(g) -> [ScreenCols(g) -> Cell]]

\* update_changes keeps the size.
LEMMA AfterUpdateKeepsSize ==
  ASSUME NEW g
  PROVE  SameSize(AfterUpdate(g), g)
BY DEF SameSize, AfterUpdate

\* What update_changes paints is a cell: blanks take the colour of a cell that
\* was written.
LEMMA PaintedCellType ==
  ASSUME NEW g, Base(g), NEW y \in ScreenRows(g), NEW x \in ScreenCols(g) \cap Dirty(g, y)
  PROVE  PaintedCell(g, y, x) \in Cell
<1>1. x \in Cols /\ y \in Rows /\ x \in Int
  BY BaseFacts DEF ScreenRows, ScreenCols, Cols, Rows
<1>2. TextAt(g, y, x) \in Cell
  BY <1>1, TextAtType DEF Base
<1>3. ASSUME TextAt(g, y, x)[1] = Space
      PROVE  <<Space, <<TextAt(g, y, x)[2][1], {}>>>> \in Cell
  <2>1. TextAt(g, y, x) # Uninit
    <3>1. Uninit[1] = "uninit"
      BY DEF Uninit
    <3>2. Space # "uninit"
      BY DEF Space
    <3> QED
      BY <1>3, <3>1, <3>2
  <2>2. TextAt(g, y, x) \in Glyphs \X (Colors \X SUBSET Rendition)
    BY <1>2, <2>1 DEF Cell, Written
  <2>3. TextAt(g, y, x)[2][1] \in Colors /\ Space \in Glyphs
    BY <2>2 DEF Glyphs
  <2> QED
    BY <2>3 DEF Cell, Written
<1>4. SameRun(g, y, x, x)
  BY <1>1 DEF SameRun, LesserOf, GreaterOf
<1> QED
  BY <1>2, <1>3, <1>4 DEF PaintedCell

\* update_changes leaves a screen of cells.
LEMMA PaintedType ==
  ASSUME NEW g, Base(g), NEW s \in ScreenOf(g)
  PROVE  Painted(g, s) \in ScreenOf(g)
<1>1. Region(g) \subseteq ScreenRows(g)
  BY BaseFacts DEF Region, ScreenRows
<1>2. Moved(g, s) \in ScreenOf(g)
  BY <1>1 DEF Moved, ScreenOf
<1> HIDE DEF Moved
<1>3. ASSUME NEW y \in ScreenRows(g), NEW x \in ScreenCols(g)
      PROVE  (IF x \in Dirty(g, y) THEN PaintedCell(g, y, x) ELSE Moved(g, s)[y][x]) \in Cell
  BY <1>2, PaintedCellType DEF ScreenOf
<1>4. DOMAIN s = ScreenRows(g) /\ \A y \in ScreenRows(g) : DOMAIN s[y] = ScreenCols(g)
  BY DEF ScreenOf
<1>5. Painted(g, s) = [y \in ScreenRows(g) |-> [x \in ScreenCols(g) |->
         IF x \in Dirty(g, y) THEN PaintedCell(g, y, x) ELSE Moved(g, s)[y][x]]]
  BY <1>4 DEF Painted
<1> QED
  BY <1>3, <1>5 DEF ScreenOf

\* The display is told a position for the cursor.
LEMMA DrawnCursorType ==
  ASSUME NEW g, Base(g), NEW c \in Int \X Int
  PROVE  DrawnCursor(g, c) \in Int \X Int
BY BaseFacts DEF DrawnCursor, LesserOf

\* The inductive invariant.
IInv == /\ Fit(gt)
        /\ screen \in ScreenOf(gt)
        /\ crs \in Int \X Int
        /\ in_input \in BOOLEAN

\* update_changes keeps the invariant.
LEMMA UpdateInv ==
  ASSUME NEW g, Base(g), SameSize(g, gt), NEW h, Fit(h), SameSize(h, g),
         screen \in ScreenOf(gt), crs \in Int \X Int, UpdateChanges(g, h)
  PROVE  Fit(gt') /\ screen' \in ScreenOf(gt') /\ crs' \in Int \X Int
<1>1. ScreenOf(g) = ScreenOf(gt) /\ ScreenOf(h) = ScreenOf(g)
  BY DEF SameSize, ScreenOf, ScreenRows, ScreenCols
<1>2. gt' = h /\ screen' = Painted(g, screen) /\ crs' = DrawnCursor(g, crs)
  BY DEF UpdateChanges
<1>3. ScreenOf(gt') = ScreenOf(h)
  BY <1>2 DEF ScreenOf, ScreenRows, ScreenCols
<1> QED
  BY <1>1, <1>2, <1>3, PaintedType, DrawnCursorType

\* The first state satisfies the invariant.
LEMMA InitInv == Init => IInv
<1> SUFFICES ASSUME Init PROVE IInv
  OBVIOUS
<1>1. PICK sz \in Sizes, junk \in SUBSET Renditions :
        gt = set_mode_flag(NewGTerm(sz[1], sz[2], junk), InitModes)
  BY DEF Init, GTermInit
<1>2. <<sz[1], sz[2]>> \in Sizes
  BY DimensionAssumption
<1>3. Good(gt) /\ Fit(gt)
  BY <1>1, <1>2, NewGTermGood, ModeGood, GoodIsFit, BoundAssumption
<1>4. <<Space, <<DefaultColor, {}>>>> \in Cell
  BY DataAssumption DEF Cell, Written, Glyphs
<1>5. screen \in ScreenOf(gt)
  BY <1>4 DEF Init, ScreenOf
<1>6. crs \in Int \X Int
  BY DEF Init
<1>7. in_input \in BOOLEAN
  BY DEF Init
<1> QED
  BY <1>3, <1>5, <1>6, <1>7 DEF IInv

\* Every step keeps the invariant.
LEMMA StepInv == IInv /\ [Next]_vars => IInv'
<1> SUFFICES ASSUME IInv, [Next]_vars PROVE IInv'
  OBVIOUS
<1> USE DEF IInv
<1>0. Base(gt)
  BY DEF Fit
<1>1. CASE ProcessInput
  <2>0. Good(gt)
    BY <1>1, HostInStore, GoodIsFit DEF ProcessInput
  <2>1. Fit(gt') /\ SameSize(gt', gt) /\ screen' = screen /\ crs' = crs /\ in_input' = TRUE
    BY <1>1, <2>0, HostOutputFit, HostOutputKeepsSize DEF ProcessInput
  <2>2. ScreenOf(gt') = ScreenOf(gt)
    BY <2>1 DEF SameSize, ScreenOf, ScreenRows, ScreenCols
  <2> QED
    BY <2>1, <2>2
<1>2. CASE MarginsAfterScroll
  <2>1. PICK p0 \in Params, p1 \in Params :
          UpdateChanges(gt, set_margins(AfterUpdate(gt), p0, p1))
    BY <1>2 DEF MarginsAfterScroll
  <2>2. Fit(set_margins(AfterUpdate(gt), p0, p1))
    <3>1. Good(gt)
      BY <1>2, GoodIsFit DEF MarginsAfterScroll
    <3> QED
      BY <3>1, AfterUpdateGood, SetMarginsGood, GoodIsFit
  <2>3. SameSize(set_margins(AfterUpdate(gt), p0, p1), gt)
    BY AfterUpdateKeepsSize, SequencesKeepSize DEF SameSize
  <2>4. SameSize(gt, gt) /\ in_input' = TRUE
    BY <1>2 DEF SameSize, MarginsAfterScroll
  <2> QED
    BY <1>0, <2>1, <2>2, <2>3, <2>4, UpdateInv
<1>3. SameSize(gt, gt) /\ Fit(AfterUpdate(gt)) /\ SameSize(AfterUpdate(gt), gt)
  BY AfterUpdateGood, AfterUpdateKeepsSize DEF SameSize
<1>4. CASE EndOfInput
  <2>1. CASE UpdateChanges(gt, AfterUpdate(gt))
    BY <1>0, <1>3, <1>4, <2>1, UpdateInv DEF EndOfInput
  <2>2. CASE UNCHANGED <<gt, screen, crs>>
    BY <1>4, <2>2 DEF EndOfInput, ScreenOf, ScreenRows, ScreenCols
  <2> QED
    BY <1>4, <2>1, <2>2 DEF EndOfInput
<1>5. CASE Update
  BY <1>0, <1>3, <1>5, UpdateInv DEF Update
<1>6. CASE ExposeArea
  <2> DEFINE g == Exposed(gt, 0, 0, gt.width, gt.height)
  <2>1. g = ChangedLines(gt, 0 .. 0 + gt.height - 1, 0, 0 + gt.width - 1)
    BY DEF Exposed
  <2>2. /\ 0 + gt.width - 1 = gt.width - 1
        /\ 0 \in 0 .. GT_MAXWIDTH /\ gt.width - 1 \in Cols
    BY <1>0, BaseFacts DEF Cols
  <2>4. SameSize(g, gt) /\ g.scroll_top = gt.scroll_top
    BY DEF SameSize, Exposed, ChangedLines
  <2>3. Base(g) /\ Fit(g)
    <3>1. Base(g) /\ g.cursor_y = gt.cursor_y
      BY <1>0, <2>1, <2>2, ChangedLinesBase
    <3> QED
      BY <2>4, <3>1 DEF Fit, RowInStore, MarginTooLow, SameSize
  <2>5. Fit(AfterUpdate(g)) /\ SameSize(AfterUpdate(g), g)
    BY <2>3, AfterUpdateGood, AfterUpdateKeepsSize
  <2>6. \/ gt' = g /\ screen' = screen /\ crs' = crs
        \/ UpdateChanges(g, AfterUpdate(g))
    BY <1>6 DEF ExposeArea
  <2>7. in_input' = in_input
    BY <1>6 DEF ExposeArea
  <2> HIDE DEF g
  <2>8. CASE gt' = g /\ screen' = screen /\ crs' = crs
    BY <2>3, <2>4, <2>7, <2>8 DEF SameSize, ScreenOf, ScreenRows, ScreenCols
  <2>9. CASE UpdateChanges(g, AfterUpdate(g))
    BY <2>3, <2>4, <2>5, <2>7, <2>9, UpdateInv
  <2> QED
    BY <2>6, <2>8, <2>9
<1>7. CASE Resize
  <2>1. PICK sz \in Sizes, other \in (Chars \cup {Space}) \X {<<DefaultColor, {}>>} :
          /\ gt' = ResizeTerminal(gt, sz[1], sz[2])
          /\ screen' = [y \in 0 .. sz[2] - 1 |-> [x \in 0 .. sz[1] - 1 |->
                         IF y < gt.height /\ x < gt.width THEN screen[y][x] ELSE other]]
    BY <1>7 DEF Resize
  <2>2. <<sz[1], sz[2]>> \in Sizes /\ sz[1] \in Int /\ sz[2] \in Int
    BY DimensionAssumption
  <2>3. Fit(gt')
    BY <1>0, <2>1, <2>2, ResizeGood, GoodIsFit
  <2>4. gt'.width = sz[1] /\ gt'.height = sz[2]
    BY <1>0, <2>1, <2>2, ResizeGood
  <2>5. other \in Cell
    BY DataAssumption DEF Cell, Written, Glyphs
  <2>6. screen' \in ScreenOf(gt')
    <3>1. gt.height \in Int /\ gt.width \in Int
      BY <1>0, BaseFacts
    <3>2. ASSUME NEW y \in 0 .. sz[2] - 1, NEW x \in 0 .. sz[1] - 1,
                 y < gt.height, x < gt.width
          PROVE  screen[y][x] \in Cell
      <4>1. y \in ScreenRows(gt) /\ x \in ScreenCols(gt)
        BY <2>2, <3>1, <3>2 DEF ScreenRows, ScreenCols
      <4> QED
        BY <4>1 DEF ScreenOf
    <3>3. ScreenOf(gt') = [0 .. sz[2] - 1 -> [0 .. sz[1] - 1 -> Cell]]
      BY <2>4 DEF ScreenOf, ScreenRows, ScreenCols
    <3> QED
      BY <2>1, <2>5, <3>2, <3>3
  <2> QED
    BY <1>7, <2>3, <2>6 DEF Resize
<1>8. CASE UNCHANGED vars
  BY <1>8 DEF vars, ScreenOf, ScreenRows, ScreenCols
<1> QED
  BY <1>1, <1>2, <1>4, <1>5, <1>6, <1>7, <1>8 DEF Next

\* The inductive invariant holds in every state the GTerm and its display reach.
THEOREM Invariant == Spec => []IInv
BY InitInv, StepInv, PTL DEF Spec

\* Every field of the GTerm object and of the display has its type, for every size of
\* the text store and every sequence of operations with the numbers in Params.
THEOREM TypeCorrect == Spec => []TypeOK
<1>1. IInv => TypeOK
  BY DEF IInv, TypeOK, Fit, Base, ScreenOf
<1> QED
  BY <1>1, Invariant, PTL

\* scroll_region, reset and the rest only permute linenumbers: no two rows ever
\* share a line of the text store, whatever the margins.
THEOREM LinesStayDistinct == Spec => []LinesDistinct
<1>1. IInv => LinesDistinct
  BY DEF IInv, LinesDistinct, Fit, Base
<1> QED
  BY <1>1, Invariant, PTL

\* The columns, the saved cursor and the bottom margin, which actions.cpp uses as
\* indices without a check, stay inside the arrays, and so does the row of the cursor
\* unless a top margin, which set_margins does not check, is too far below the screen.
THEOREM IndicesStayInStore == Spec => []IndicesInStore
<1>1. IInv => IndicesInStore
  BY DEF IInv, IndicesInStore, Fit, Base
<1> QED
  BY <1>1, Invariant, PTL

----------------------------------------------------------------------------
(* The display stays in step                                               *)

\* What is said below of a GTerm whose cursor may be anywhere holds of a well-formed one.
LEMMA GoodIsBase == \A g : Good(g) => Base(g)
BY DEF Good

USE GoodIsBase

\* The rows that a scroll of the display will move.
Follows(g, y) == /\ "TEXTONLY" \notin g.mode_flags
                 /\ g.scroll_top < g.scroll_bot
                 /\ y \in Region(g)

\* The row of the display that holds the clean cells of row y.
Source(g, y) == IF Follows(g, y) THEN y + g.pending_scroll ELSE y

Clean(g) == \A y \in ScreenRows(g), x \in ScreenCols(g) : TextAt(g, y, x) # Uninit

Tracks(g, s) ==
  \A y \in ScreenRows(g), x \in ScreenCols(g) :
    x \notin Dirty(g, y) =>
      /\ Follows(g, y) => Source(g, y) \in Region(g)
      /\ Looks(s[Source(g, y)][x]) = Looks(TextAt(g, y, x))

Steady == "DEFERUPDATE" \notin InitModes \/ \A s1, s2 \in Sizes : s1 = s2

\* What every method keeps.
Kept(g, s) == /\ Clean(g)
              /\ Steady => Tracks(g, s)
              /\ "DEFERUPDATE" \in g.mode_flags <=> "DEFERUPDATE" \in InitModes

\* Neither the size, the margins, the rows, the pending scroll nor the way of
\* updating is changed.
SameFrame(h, g) ==
  /\ h.width = g.width /\ h.height = g.height
  /\ h.scroll_top = g.scroll_top /\ h.scroll_bot = g.scroll_bot
  /\ h.linenumbers = g.linenumbers /\ h.pending_scroll = g.pending_scroll
  /\ "TEXTONLY" \in h.mode_flags <=> "TEXTONLY" \in g.mode_flags
  /\ "DEFERUPDATE" \in h.mode_flags <=> "DEFERUPDATE" \in g.mode_flags

----------------------------------------------------------------------------
(* Methods that do not scroll.                                             *)

\* A method that marks what it writes, and writes what is initialised, keeps
\* the display tracked.
LEMMA TouchedKept ==
  ASSUME NEW g, NEW h, NEW s, Kept(g, s), SameFrame(h, g),
         \A y \in ScreenRows(g), x \in ScreenCols(g) :
           /\ TextAt(h, y, x) # Uninit
           /\ x \notin Dirty(h, y) => /\ x \notin Dirty(g, y)
                                      /\ TextAt(h, y, x) = TextAt(g, y, x)
  PROVE  Kept(h, s)
<1>1. ScreenRows(h) = ScreenRows(g) /\ ScreenCols(h) = ScreenCols(g) /\ Region(h) = Region(g)
  BY DEF SameFrame, ScreenRows, ScreenCols, Region
<1>2. \A y : (Follows(h, y) <=> Follows(g, y)) /\ Source(h, y) = Source(g, y)
  BY <1>1 DEF SameFrame, Follows, Source
<1>3. Clean(h)
  BY <1>1 DEF Clean
<1>4. Tracks(g, s) => Tracks(h, s)
  BY <1>1, <1>2 DEF Tracks
<1> QED
  BY <1>3, <1>4 DEF Kept, SameFrame

\* Cells of the screen are cells of the text store.
LEMMA ScreenInStore ==
  ASSUME NEW g, Base(g)
  PROVE  /\ ScreenRows(g) \subseteq Rows /\ ScreenCols(g) \subseteq Cols
         /\ Rows \subseteq Int /\ Cols \subseteq Int
BY BaseFacts DEF ScreenRows, ScreenCols, Rows, Cols

\* The fields that the dirty range and the text of a row are made of.
LEMMA FieldTypes ==
  ASSUME NEW g, Base(g), NEW y \in Rows
  PROVE  /\ g.dirty_startx[y] \in Int /\ g.dirty_endx[y] \in Int
         /\ g.linenumbers[y] \in Rows
         /\ g.text \in [Rows -> [Cols -> Cell]]
         /\ g.linenumbers \in [Rows -> Rows]
         /\ g.dirty_startx \in [Rows -> 0 .. GT_MAXWIDTH] /\ g.dirty_endx \in [Rows -> Cols]
         /\ GT_MAXWIDTH \in Nat
<1>1. g.dirty_startx[y] \in 0 .. GT_MAXWIDTH /\ g.dirty_endx[y] \in 0 .. GT_MAXWIDTH - 1
  BY DEF Base, GTermType, Cols
<1>2. GT_MAXWIDTH \in Nat
  BY DimensionAssumption
<1> QED
  BY <1>1, <1>2 DEF Base, GTermType

\* ChangedLines makes the cells it is given dirty, and cleans none.
LEMMA ChangedLinesDirty ==
  ASSUME NEW g, Base(g), NEW ys, NEW a \in Int, NEW b \in Int,
         NEW y \in Rows, NEW x \in Int, x \notin Dirty(ChangedLines(g, ys, a, b), y)
  PROVE  x \notin Dirty(g, y) /\ (y \in ys => x \notin a .. b)
<1> DEFINE h == ChangedLines(g, ys, a, b)
<1>1. /\ h.dirty_startx[y] = IF y \in ys THEN LesserOf(g.dirty_startx[y], a) ELSE g.dirty_startx[y]
      /\ h.dirty_endx[y] = IF y \in ys THEN GreaterOf(g.dirty_endx[y], b) ELSE g.dirty_endx[y]
  BY DEF ChangedLines, Base, GTermType
<1>2. x \notin h.dirty_startx[y] .. h.dirty_endx[y]
  BY DEF Dirty
<1> HIDE DEF h
<1>3. CASE y \in ys
  BY <1>1, <1>2, <1>3, FieldTypes DEF Dirty, LesserOf, GreaterOf
<1>4. CASE y \notin ys
  BY <1>1, <1>2, <1>4 DEF Dirty
<1> QED
  BY <1>3, <1>4

\* So does changed_line.
LEMMA ChangedLineDirty ==
  ASSUME NEW g, Base(g), NEW r \in Rows, NEW a \in Int, NEW b \in Int,
         NEW y \in Rows, NEW x \in Int, x \notin Dirty(changed_line(g, r, a, b), y)
  PROVE  x \notin Dirty(g, y) /\ (y = r => x \notin a .. b)
<1> DEFINE h == changed_line(g, r, a, b)
<1>1. /\ h.dirty_startx[y] = IF y = r THEN LesserOf(g.dirty_startx[y], a) ELSE g.dirty_startx[y]
      /\ h.dirty_endx[y] = IF y = r THEN GreaterOf(g.dirty_endx[y], b) ELSE g.dirty_endx[y]
  BY DEF changed_line, Base, GTermType
<1>2. x \notin h.dirty_startx[y] .. h.dirty_endx[y]
  BY DEF Dirty
<1> HIDE DEF h
<1>3. CASE y = r
  BY <1>1, <1>2, <1>3, FieldTypes DEF Dirty, LesserOf, GreaterOf
<1>4. CASE y # r
  BY <1>1, <1>2, <1>4 DEF Dirty
<1> QED
  BY <1>3, <1>4

\* What Filled leaves in a cell: rows do not share lines.
LEMMA FilledAt ==
  ASSUME NEW g, Base(g), NEW ys \in SUBSET Rows, NEW xs, NEW c, NEW y \in Rows, NEW x \in Cols
  PROVE  Filled(g, ys, xs, c)[g.linenumbers[y]][x] =
           IF y \in ys /\ x \in xs THEN c ELSE TextAt(g, y, x)
<1>1. g.linenumbers[y] \in Rows
  BY FieldTypes
<1>2. (\E y2 \in ys : g.linenumbers[y2] = g.linenumbers[y]) <=> y \in ys
  BY DEF Base
<1> QED
  BY <1>1, <1>2 DEF Filled, TextAt

\* The blank that clear_area writes is initialised.
LEMMA BlankNotUninit ==
  ASSUME NEW g
  PROVE  BlankCell(g) # Uninit
<1>1. BlankCell(g)[1] = " " /\ Uninit[1] = "uninit"
  BY DEF BlankCell, Uninit, Space
<1>2. " " # "uninit"
  OBVIOUS
<1> QED
  BY <1>1, <1>2

\* What clear_area leaves in a cell, when it clears anything.
LEMMA ClearAreaAt ==
  ASSUME NEW g, Base(g), NEW sx \in Int, NEW sy \in Int, NEW ex \in Int, NEW ey \in Int,
         ~(ex - sx + 1 < 1), sy .. ey \subseteq Rows, NEW y \in Rows, NEW x \in Cols
  PROVE  /\ TextAt(clear_area(g, sx, sy, ex, ey), y, x) =
              IF y \in sy .. ey /\ x \in sx .. ex THEN BlankCell(g) ELSE TextAt(g, y, x)
         /\ Dirty(clear_area(g, sx, sy, ex, ey), y) = Dirty(ChangedLines(g, sy .. ey, sx, ex), y)
<1> DEFINE t == Filled(g, sy .. ey, sx .. ex, BlankCell(g))
           h == clear_area(g, sx, sy, ex, ey)
<1>1. h = [ChangedLines(g, sy .. ey, sx, ex) EXCEPT !.text = t]
  BY DEF clear_area
<1>2. t[g.linenumbers[y]][x] = IF y \in sy .. ey /\ x \in sx .. ex THEN BlankCell(g)
                               ELSE TextAt(g, y, x)
  <2> DEFINE ys == sy .. ey
             xs == sx .. ex
             c == BlankCell(g)
  <2>1. ys \in SUBSET Rows
    OBVIOUS
  <2> HIDE DEF ys, xs, c
  <2>2. Filled(g, ys, xs, c)[g.linenumbers[y]][x] =
          IF y \in ys /\ x \in xs THEN c ELSE TextAt(g, y, x)
    BY <2>1, FilledAt
  <2> QED
    BY <2>2 DEF ys, xs, c
<1> HIDE DEF t
<1>3. h.text = t /\ h.linenumbers = g.linenumbers
  BY <1>1 DEF ChangedLines, Base, GTermType
<1>4. /\ h.dirty_startx = ChangedLines(g, sy .. ey, sx, ex).dirty_startx
      /\ h.dirty_endx = ChangedLines(g, sy .. ey, sx, ex).dirty_endx
  BY <1>1 DEF ChangedLines, Base, GTermType
<1> QED
  BY <1>2, <1>3, <1>4 DEF TextAt, Dirty

\* clear_area keeps the display tracked.
LEMMA ClearAreaKept ==
  ASSUME NEW g, Base(g), NEW s, Kept(g, s),
         NEW sx \in Int, NEW sy \in Int, NEW ex \in Int, NEW ey \in Int, sy .. ey \subseteq Rows
  PROVE  Kept(clear_area(g, sx, sy, ex, ey), s)
<1> DEFINE h == clear_area(g, sx, sy, ex, ey)
<1>1. CASE ex - sx + 1 < 1
  BY <1>1 DEF clear_area
<1>2. CASE ~(ex - sx + 1 < 1)
  <2>1. SameFrame(h, g)
    BY DEF SameFrame, clear_area, ChangedLines
  <2>2. ASSUME NEW y \in ScreenRows(g), NEW x \in ScreenCols(g)
        PROVE  /\ TextAt(h, y, x) # Uninit
               /\ x \notin Dirty(h, y) => /\ x \notin Dirty(g, y)
                                          /\ TextAt(h, y, x) = TextAt(g, y, x)
    <3>1. y \in Rows /\ x \in Cols /\ x \in Int
      BY ScreenInStore
    <3>2. TextAt(g, y, x) # Uninit
      BY DEF Kept, Clean
    <3>3. TextAt(h, y, x) = IF y \in sy .. ey /\ x \in sx .. ex THEN BlankCell(g)
                            ELSE TextAt(g, y, x)
      BY <1>2, <3>1, ClearAreaAt
    <3>4. Dirty(h, y) = Dirty(ChangedLines(g, sy .. ey, sx, ex), y)
      BY <1>2, <3>1, ClearAreaAt
    <3>5. x \notin Dirty(h, y) => x \notin Dirty(g, y) /\ (y \in sy .. ey => x \notin sx .. ex)
      BY <3>1, <3>4, ChangedLinesDirty
    <3> HIDE DEF h
    <3> QED
      BY <3>2, <3>3, <3>5, BlankNotUninit
  <2> HIDE DEF h
  <2>3. Kept(h, s)
    BY <2>1, <2>2, TouchedKept
  <2> QED
    BY <2>3 DEF h
<1> QED
  BY <1>1, <1>2

\* move_cursor changes no text and cleans no cell.
LEMMA MoveCursorCells ==
  ASSUME NEW g, Base(g), NEW cx, NEW cy, NEW y \in Rows, NEW x \in Int
  PROVE  /\ TextAt(move_cursor(g, cx, cy), y, x) = TextAt(g, y, x)
         /\ x \notin Dirty(move_cursor(g, cx, cy), y) => x \notin Dirty(g, y)
<1> DEFINE ox == LesserOf(g.cursor_x, g.width - 1)
           oy == LesserOf(g.cursor_y, g.height - 1)
           h == move_cursor(g, cx, cy)
<1>1. ox \in Int /\ oy \in Rows
  BY BaseFacts DEF LesserOf, Rows
<1>2. /\ h.dirty_startx = changed_line(g, oy, ox, ox).dirty_startx
      /\ h.dirty_endx = changed_line(g, oy, ox, ox).dirty_endx
      /\ h.text = g.text /\ h.linenumbers = g.linenumbers
  BY DEF move_cursor, changed_line
<1> HIDE DEF h, ox, oy
<1>3. TextAt(h, y, x) = TextAt(g, y, x)
  BY <1>2 DEF TextAt
<1>4. Dirty(h, y) = Dirty(changed_line(g, oy, ox, ox), y)
  BY <1>2 DEF Dirty
<1>5. x \notin Dirty(h, y) => x \notin Dirty(g, y)
  BY <1>1, <1>4, ChangedLineDirty
<1> QED
  BY <1>3, <1>5 DEF h

\* move_cursor keeps the display tracked, wherever it goes.
LEMMA MoveCursorKept ==
  ASSUME NEW g, Base(g), NEW s, Kept(g, s), NEW cx, NEW cy
  PROVE  Kept(move_cursor(g, cx, cy), s)
<1> DEFINE h == move_cursor(g, cx, cy)
<1>1. SameFrame(h, g)
  BY DEF SameFrame, move_cursor, changed_line
<1>2. ASSUME NEW y \in ScreenRows(g), NEW x \in ScreenCols(g)
      PROVE  /\ TextAt(h, y, x) # Uninit
             /\ x \notin Dirty(h, y) => /\ x \notin Dirty(g, y)
                                        /\ TextAt(h, y, x) = TextAt(g, y, x)
  <2>1. y \in Rows /\ x \in Int
    BY ScreenInStore
  <2>2. TextAt(g, y, x) # Uninit
    BY DEF Kept, Clean
  <2> QED
    BY <2>1, <2>2, MoveCursorCells
<1> HIDE DEF h
<1>3. Kept(h, s)
  BY <1>1, <1>2, TouchedKept
<1> QED
  BY <1>3 DEF h

\* What WithRow leaves in a cell.
LEMMA WithRowAt ==
  ASSUME NEW g, Base(g), NEW r \in Rows, NEW xs, NEW new, NEW y \in Rows, NEW x \in Cols
  PROVE  WithRow(g, r, xs, new)[g.linenumbers[y]][x] =
           IF y = r /\ x \in xs THEN new[x] ELSE TextAt(g, y, x)
<1>1. g.linenumbers[y] \in Rows /\ g.linenumbers[r] \in Rows
      /\ g.text \in [Rows -> [Cols -> Cell]]
  BY FieldTypes
<1>2. g.linenumbers[y] = g.linenumbers[r] <=> y = r
  BY DEF Base
<1> QED
  BY <1>1, <1>2 DEF WithRow, TextAt

\* Writing part of a row and marking it keeps the display tracked.
LEMMA WrittenRowKept ==
  ASSUME NEW g, Base(g), NEW s, Kept(g, s),
         NEW r \in Rows, NEW a \in Int, NEW b \in Int, NEW new, NEW h,
         SameFrame(h, g), h.text = WithRow(g, r, a .. b, new),
         h.dirty_startx = changed_line(g, r, a, b).dirty_startx,
         h.dirty_endx = changed_line(g, r, a, b).dirty_endx,
         r \in ScreenRows(g) => \A x \in a .. b : new[x] # Uninit
  PROVE  Kept(h, s)
<1>1. ASSUME NEW y \in ScreenRows(g), NEW x \in ScreenCols(g)
      PROVE  /\ TextAt(h, y, x) # Uninit
             /\ x \notin Dirty(h, y) => /\ x \notin Dirty(g, y)
                                        /\ TextAt(h, y, x) = TextAt(g, y, x)
  <2>1. y \in Rows /\ x \in Cols /\ x \in Int
    BY ScreenInStore
  <2>2. TextAt(h, y, x) = IF y = r /\ x \in a .. b THEN new[x] ELSE TextAt(g, y, x)
    <3>1. TextAt(h, y, x) = WithRow(g, r, a .. b, new)[g.linenumbers[y]][x]
      BY DEF TextAt, SameFrame
    <3> QED
      BY <2>1, <3>1, WithRowAt
  <2>3. TextAt(g, y, x) # Uninit
    BY DEF Kept, Clean
  <2>4. Dirty(h, y) = Dirty(changed_line(g, r, a, b), y)
    BY DEF Dirty
  <2> QED
    BY <2>1, <2>2, <2>3, <2>4, ChangedLineDirty
<1> QED
  BY <1>1, TouchedKept

\* shift_text keeps the display tracked: it fetches cells of the screen.
LEMMA ShiftTextKept ==
  ASSUME NEW g, Good(g), NEW s, Kept(g, s),
         NEW r \in Rows, NEW a \in Nat, NEW num \in Int
  PROVE  Kept(shift_text(g, r, a, g.width - 1, num), s)
<1> DEFINE b == g.width - 1
           From(x) == x - num
           new == [x \in a .. b |-> IF From(x) \in a .. b
                                    THEN TextAt(g, r, From(x)) ELSE BlankCell(g)]
           h == shift_text(g, r, a, b, num)
<1>1. b \in Int
  BY GoodFacts
<1>2. r \in ScreenRows(g) => \A x \in a .. b : new[x] # Uninit
  <2>1. a .. b \subseteq ScreenCols(g)
    BY <1>1 DEF ScreenCols
  <2>2. r \in ScreenRows(g) => \A x \in a .. b : TextAt(g, r, x) # Uninit
    BY <2>1 DEF Kept, Clean
  <2> HIDE DEF From
  <2> QED
    BY <2>2, BlankNotUninit
<1>3. CASE num = 0
  BY <1>3 DEF shift_text
<1>4. CASE num # 0
  <2>1. h = [changed_line(g, r, a, b) EXCEPT !.text = WithRow(g, r, a .. b, new)]
    BY <1>4 DEF shift_text
  <2> HIDE DEF new, h, b
  <2>2. SameFrame(h, g)
    BY <2>1 DEF SameFrame, changed_line
  <2>3. h.text = WithRow(g, r, a .. b, new)
    BY <2>1 DEF changed_line, Good, Base, GTermType
  <2>4. /\ h.dirty_startx = changed_line(g, r, a, b).dirty_startx
        /\ h.dirty_endx = changed_line(g, r, a, b).dirty_endx
    BY <2>1 DEF changed_line
  <2>5. Kept(h, s)
    BY <1>1, <1>2, <2>2, <2>3, <2>4, WrittenRowKept
  <2> QED
    BY <2>5 DEF h, b
<1> QED
  BY <1>3, <1>4

----------------------------------------------------------------------------
(* scroll_region.                                                          *)

\* The display can follow the scroll.
FastScroll(g, a, e) == /\ a = g.scroll_top /\ e = g.scroll_bot
                       /\ "TEXTONLY" \notin g.mode_flags

\* What h has of g when the rows a .. e were rotated by num.
Rotates(h, g, a, e, num) ==
  /\ h.width = g.width /\ h.height = g.height /\ h.mode_flags = g.mode_flags
  /\ h.scroll_top = g.scroll_top /\ h.scroll_bot = g.scroll_bot
  /\ h.pending_scroll = IF FastScroll(g, a, e) THEN g.pending_scroll + num
                        ELSE g.pending_scroll
  /\ \A y \in Rows \ (a .. e) :
       /\ Dirty(h, y) = Dirty(g, y)
       /\ \A x \in Cols : TextAt(h, y, x) = TextAt(g, y, x)
  /\ \A y \in a .. e :
       /\ Takey(y, a, e, num) \in a .. e
       /\ ComesRound(y, a, e, num) \/ ~FastScroll(g, a, e) => Dirty(h, y) = 0 .. g.width - 1
       /\ ~ComesRound(y, a, e, num) => Takey(y, a, e, num) = y + num
       /\ ~ComesRound(y, a, e, num) /\ FastScroll(g, a, e) => Dirty(h, y) = Dirty(g, y + num)
       /\ \A x \in Cols : TextAt(h, y, x) =
            IF ComesRound(y, a, e, num) /\ x < g.width THEN BlankCell(g)
            ELSE TextAt(g, Takey(y, a, e, num), x)

\* A scroll of less than the region's height rotates its rows.
LEMMA ScrollRotates ==
  ASSUME NEW g, Good(g), NEW a \in Rows, NEW e \in Rows, NEW num \in Int, num # 0,
         num < e - a + 1, -num < e - a + 1
  PROVE  Rotates(scroll_region(g, a, e, num), g, a, e, num)
<1> DEFINE h == scroll_region(g, a, e, num)
           fast == FastScroll(g, a, e)
           region == a .. e
           mx == e - a + 1
           n1 == IF num > mx THEN mx ELSE num
           n == IF -n1 > mx THEN -mx ELSE n1
           Clr(y) == ComesRound(y, a, e, n)
           From(y) == Takey(y, a, e, n)
           ln == [y \in Rows |-> IF y \in region THEN g.linenumbers[From(y)]
                                 ELSE g.linenumbers[y]]
           moved == [g EXCEPT !.linenumbers = ln]
           rs == {y \in region : Clr(y)}
           xs == 0 .. g.width - 1
           c == BlankCell(g)
           tx == Filled(moved, rs, xs, c)
           sx == [y \in Rows |-> IF y \notin region THEN g.dirty_startx[y]
                                 ELSE IF ~fast \/ Clr(y) THEN 0
                                 ELSE g.dirty_startx[From(y)]]
           ex == [y \in Rows |-> IF y \notin region THEN g.dirty_endx[y]
                                 ELSE IF ~fast \/ Clr(y) THEN g.width - 1
                                 ELSE g.dirty_endx[From(y)]]
           scrolled == [moved EXCEPT !.text = tx, !.dirty_startx = sx, !.dirty_endx = ex]
           rotated == IF n < mx /\ -n < mx THEN scrolled ELSE g
           pend == IF fast THEN g.pending_scroll + num ELSE g.pending_scroll
<1>1. a \in Int /\ e \in Int /\ region \subseteq Rows /\ Rows \subseteq Int
  BY DimensionAssumption DEF Rows
<1>2. h = [scrolled EXCEPT !.pending_scroll = pend]
  <2>1. h = [rotated EXCEPT !.pending_scroll =
               IF fast THEN rotated.pending_scroll + n ELSE rotated.pending_scroll]
    BY DEF scroll_region, FastScroll
  <2>2. n = num /\ n < mx /\ -n < mx
    BY <1>1
  <2>3. rotated = scrolled
    BY <2>2
  <2>4. scrolled.pending_scroll = g.pending_scroll
    <3> HIDE DEF ln, tx, sx, ex
    <3> QED
      OBVIOUS
  <2> HIDE DEF rotated, scrolled, n, h, fast
  <2> QED
    BY <2>1, <2>2, <2>3, <2>4
<1>n. n = num
  BY <1>1
<1>3. \A y \in region : From(y) \in region
  BY <1>1, TakeyInjective
<1>4. \A y1, y2 \in region : From(y1) = From(y2) => y1 = y2
  BY <1>1, TakeyInjective
<1>5. \A y \in region : ~Clr(y) => From(y) = y + num
  <2> HIDE DEF n
  <2> QED
    BY <1>1, <1>n DEF ComesRound, Takey
<1> HIDE DEF n, rotated
<1> HIDE DEF From, Clr, c, fast
<1>6. ln \in [Rows -> Rows]
  BY <1>1, <1>3 DEF Good, Base, GTermType
<1>7. \A y1, y2 \in Rows : ln[y1] = ln[y2] => y1 = y2
  BY <1>1, <1>3, <1>4 DEF Good, Base, GTermType
<1>8. \A y \in Rows : ln[y] = IF y \in region THEN g.linenumbers[From(y)] ELSE g.linenumbers[y]
  OBVIOUS
<1> HIDE DEF ln
<1>9. Good(moved)
  BY <1>6, <1>7, LinesGood
<1>10. /\ moved.linenumbers = ln /\ moved.text = g.text
  BY DEF Good, Base, GTermType
<1>11. \A y \in Rows : /\ sx[y] = IF y \notin region THEN g.dirty_startx[y]
                                  ELSE IF ~fast \/ Clr(y) THEN 0 ELSE g.dirty_startx[From(y)]
                       /\ ex[y] = IF y \notin region THEN g.dirty_endx[y]
                                  ELSE IF ~fast \/ Clr(y) THEN g.width - 1
                                  ELSE g.dirty_endx[From(y)]
  OBVIOUS
<1>12. rs \in SUBSET Rows
  BY <1>1
<1>13. \A y \in region : y \in rs <=> Clr(y)
  OBVIOUS
<1>14. rs \subseteq region
  OBVIOUS
<1> HIDE DEF moved, tx, sx, ex, rs, pend, scrolled, h
<1>15. /\ h.width = g.width /\ h.height = g.height /\ h.mode_flags = g.mode_flags
       /\ h.scroll_top = g.scroll_top /\ h.scroll_bot = g.scroll_bot
  BY <1>2 DEF moved, scrolled
<1>16. h.pending_scroll = pend /\ h.dirty_startx = sx /\ h.dirty_endx = ex
       /\ h.text = tx /\ h.linenumbers = ln
  BY <1>2, <1>9, <1>10 DEF Good, Base, GTermType, scrolled
<1>17. \A y \in Rows, x \in Cols :
         tx[ln[y]][x] = IF y \in rs /\ x \in xs THEN c ELSE TextAt(moved, y, x)
  <2>1. Base(moved)
    BY <1>9
  <2> HIDE DEF xs
  <2>2. ASSUME NEW y \in Rows, NEW x \in Cols
        PROVE  Filled(moved, rs, xs, c)[moved.linenumbers[y]][x] =
                 IF y \in rs /\ x \in xs THEN c ELSE TextAt(moved, y, x)
    BY <1>12, <2>1, FilledAt
  <2> QED
    BY <1>10, <2>2 DEF tx
<1>18. ASSUME NEW y \in Rows \ region
       PROVE  Dirty(h, y) = Dirty(g, y) /\ \A x \in Cols : TextAt(h, y, x) = TextAt(g, y, x)
  <2>1. Dirty(h, y) = Dirty(g, y)
    BY <1>11, <1>16 DEF Dirty
  <2>2. ASSUME NEW x \in Cols PROVE TextAt(h, y, x) = TextAt(g, y, x)
    <3>1. TextAt(moved, y, x) = TextAt(g, y, x) /\ TextAt(h, y, x) = tx[ln[y]][x]
      BY <1>8, <1>10, <1>16 DEF TextAt
    <3>2. y \notin rs
      BY <1>14
    <3> QED
      BY <1>17, <3>1, <3>2
  <2> QED
    BY <2>1, <2>2
<1>19. ASSUME NEW y \in region
       PROVE  /\ From(y) \in region
              /\ Clr(y) \/ ~fast => Dirty(h, y) = 0 .. g.width - 1
              /\ ~Clr(y) => From(y) = y + num
              /\ ~Clr(y) /\ fast => Dirty(h, y) = Dirty(g, y + num)
              /\ \A x \in Cols : TextAt(h, y, x) =
                   IF Clr(y) /\ x < g.width THEN c ELSE TextAt(g, From(y), x)
  <2>1. y \in Rows /\ From(y) \in region
    BY <1>1, <1>3
  <2>2. Clr(y) \/ ~fast => Dirty(h, y) = 0 .. g.width - 1
    BY <1>11, <1>16, <2>1 DEF Dirty
  <2>3. ~Clr(y) /\ fast => Dirty(h, y) = Dirty(g, y + num)
    BY <1>5, <1>11, <1>16, <2>1 DEF Dirty
  <2>4. ASSUME NEW x \in Cols
        PROVE  TextAt(h, y, x) = IF Clr(y) /\ x < g.width THEN c ELSE TextAt(g, From(y), x)
    <3>1. x \in xs <=> x < g.width
      BY GoodFacts DEF Cols
    <3> HIDE DEF xs
    <3>2. TextAt(moved, y, x) = TextAt(g, From(y), x)
      BY <1>8, <1>10, <2>1 DEF TextAt
    <3>3. TextAt(h, y, x) = tx[ln[y]][x]
      BY <1>16 DEF TextAt
    <3> QED
      BY <1>13, <1>17, <2>1, <3>1, <3>2, <3>3
  <2> QED
    BY <1>5, <2>1, <2>2, <2>3, <2>4
<1> QED
  BY <1>n, <1>15, <1>16, <1>18, <1>19 DEF Rotates, h, fast, pend, From, Clr, c

\* scroll_region keeps the display tracked: a scroll of the margins' own region
\* moves the rows as update_changes will move the display, and any other makes
\* all of its rows dirty.
LEMMA ScrollRegionKept ==
  ASSUME NEW g, Good(g), NEW s, Kept(g, s), NEW a \in Nat, NEW num \in Int,
         a < g.scroll_bot => num < g.scroll_bot - a + 1 /\ -num < g.scroll_bot - a + 1
  PROVE  Kept(scroll_region(g, a, g.scroll_bot, num), s)
<1> DEFINE e == g.scroll_bot
           h == scroll_region(g, a, e, num)
           fast == FastScroll(g, a, e)
<1>1. /\ a \in Int /\ e \in Int /\ e \in Rows /\ e < g.height /\ g.height \in Int
      /\ g.width \in Int /\ g.pending_scroll \in Int /\ g.scroll_top \in Int
  BY GoodFacts, CursorFacts DEF Rows
<1>2. CASE num = 0
  BY <1>2 DEF scroll_region
<1>3. CASE num # 0 /\ ~(a < e)
  <2> DEFINE mx == e - a + 1
             n1 == IF num > mx THEN mx ELSE num
             n == IF -n1 > mx THEN -mx ELSE n1
             pend == IF fast THEN g.pending_scroll + n ELSE g.pending_scroll
  <2>1. ~(n < mx /\ -n < mx) /\ n \in Int
    BY <1>1, <1>3
  <2>2. h = [g EXCEPT !.pending_scroll = pend]
    BY <1>3, <2>1 DEF scroll_region, FastScroll
  <2> HIDE DEF n
  <2>3. h.pending_scroll = g.pending_scroll \/ (~(g.scroll_top < g.scroll_bot))
    BY <1>3, <2>2 DEF Good, Base, GTermType, FastScroll
  <2>4. /\ h.width = g.width /\ h.height = g.height /\ h.mode_flags = g.mode_flags
        /\ h.scroll_top = g.scroll_top /\ h.scroll_bot = g.scroll_bot
        /\ h.text = g.text /\ h.linenumbers = g.linenumbers
        /\ h.dirty_startx = g.dirty_startx /\ h.dirty_endx = g.dirty_endx
    BY <2>2
  <2> HIDE DEF h
  <2>5. /\ ScreenRows(h) = ScreenRows(g) /\ ScreenCols(h) = ScreenCols(g)
        /\ Region(h) = Region(g)
        /\ \A y : Dirty(h, y) = Dirty(g, y) /\ \A x : TextAt(h, y, x) = TextAt(g, y, x)
    BY <2>4 DEF ScreenRows, ScreenCols, Region, Dirty, TextAt
  <2>6. \A y : (Follows(h, y) <=> Follows(g, y)) /\ Source(h, y) = Source(g, y)
    BY <2>3, <2>4, <2>5 DEF Follows, Source
  <2>7. Kept(h, s)
    BY <2>4, <2>5, <2>6 DEF Kept, Clean, Tracks
  <2> QED
    BY <2>7 DEF h
<1>4. CASE num # 0 /\ a < e
  <2>0. Rotates(h, g, a, e, num)
    <3>1. a \in Rows
      BY <1>1, <1>4, DimensionAssumption DEF Rows
    <3> QED
      BY <1>1, <1>4, <3>1, ScrollRotates
  <2> HIDE DEF h, e
  <2>1. /\ h.width = g.width /\ h.height = g.height /\ h.mode_flags = g.mode_flags
        /\ h.scroll_top = g.scroll_top /\ h.scroll_bot = g.scroll_bot
        /\ h.pending_scroll = IF fast THEN g.pending_scroll + num ELSE g.pending_scroll
    BY <2>0 DEF Rotates
  <2>2. \A y \in Rows \ (a .. e) : /\ Dirty(h, y) = Dirty(g, y)
                                   /\ \A x \in Cols : TextAt(h, y, x) = TextAt(g, y, x)
    BY <2>0 DEF Rotates
  <2>3. \A y \in a .. e :
          /\ Takey(y, a, e, num) \in a .. e
          /\ ComesRound(y, a, e, num) \/ ~fast => Dirty(h, y) = 0 .. g.width - 1
          /\ ~ComesRound(y, a, e, num) => Takey(y, a, e, num) = y + num
          /\ ~ComesRound(y, a, e, num) /\ fast => Dirty(h, y) = Dirty(g, y + num)
          /\ \A x \in Cols : TextAt(h, y, x) =
               IF ComesRound(y, a, e, num) /\ x < g.width THEN BlankCell(g)
               ELSE TextAt(g, Takey(y, a, e, num), x)
    BY <2>0 DEF Rotates
  <2>4. /\ ScreenRows(h) = ScreenRows(g) /\ ScreenCols(h) = ScreenCols(g)
        /\ Region(h) = Region(g)
    BY <2>1 DEF ScreenRows, ScreenCols, Region
  <2>5. a .. e \subseteq ScreenRows(g)
    BY <1>1 DEF Rows, ScreenRows
  <2>6. ScreenRows(g) \subseteq Rows /\ ScreenCols(g) \subseteq Cols
    BY ScreenInStore
  <2>7. Clean(h)
    <3>1. SUFFICES ASSUME NEW y \in ScreenRows(g), NEW x \in ScreenCols(g)
                   PROVE  TextAt(h, y, x) # Uninit
      BY <2>4 DEF Clean
    <3>2. \A y2 \in ScreenRows(g) : TextAt(g, y2, x) # Uninit
      BY DEF Kept, Clean
    <3>3. CASE y \in a .. e
      BY <2>3, <2>5, <2>6, <3>2, <3>3, BlankNotUninit
    <3>4. CASE y \notin a .. e
      BY <2>2, <2>6, <3>2, <3>4
    <3> QED
      BY <3>3, <3>4
  <2>8. ASSUME Tracks(g, s) PROVE Tracks(h, s)
    <3>1. SUFFICES ASSUME NEW y \in ScreenRows(g), NEW x \in ScreenCols(g),
                          x \notin Dirty(h, y)
                   PROVE  /\ Follows(h, y) => Source(h, y) \in Region(g)
                          /\ Looks(s[Source(h, y)][x]) = Looks(TextAt(h, y, x))
      BY <2>4 DEF Tracks
    <3>2. x \in Cols /\ y \in Rows /\ x \in 0 .. g.width - 1 /\ y \in Int
      BY <2>6 DEF ScreenCols, ScreenRows
    <3>3. \A y2 : Follows(h, y2) <=> Follows(g, y2)
      BY <2>1, <2>4 DEF Follows
    <3>4. CASE y \in a .. e
      <4>1. ~ComesRound(y, a, e, num) /\ fast
        BY <2>3, <3>1, <3>2, <3>4
      <4>2. y + num \in a .. e /\ x \notin Dirty(g, y + num)
        BY <2>3, <3>1, <3>4, <4>1
      <4>3. TextAt(h, y, x) = TextAt(g, y + num, x)
        BY <2>3, <3>2, <3>4, <4>1
      <4>4. Region(g) = a .. e /\ Follows(g, y) /\ Follows(g, y + num)
        BY <1>1, <1>4, <3>4, <4>1, <4>2 DEF Region, Follows, FastScroll
      <4>5. Source(h, y) = y + (g.pending_scroll + num)
        BY <2>1, <3>3, <4>1, <4>4 DEF Source
      <4>6. Source(g, y + num) = (y + num) + g.pending_scroll
        BY <4>4 DEF Source
      <4>7. Source(h, y) = Source(g, y + num)
        BY <1>1, <3>2, <4>5, <4>6
      <4>8. /\ Source(g, y + num) \in Region(g)
            /\ Looks(s[Source(g, y + num)][x]) = Looks(TextAt(g, y + num, x))
        BY <2>5, <2>8, <4>2, <4>4 DEF Tracks
      <4> QED
        BY <4>3, <4>7, <4>8
    <3>5. CASE y \notin a .. e
      <4>1. x \notin Dirty(g, y) /\ TextAt(h, y, x) = TextAt(g, y, x)
        BY <2>2, <3>1, <3>2, <3>5
      <4>2. fast => ~Follows(g, y)
        BY <3>5 DEF Follows, Region, FastScroll
      <4>3. Source(h, y) = Source(g, y)
        BY <2>1, <3>3, <4>2 DEF Source
      <4> QED
        BY <2>8, <3>3, <4>1, <4>3 DEF Tracks
    <3> QED
      BY <3>4, <3>5
  <2>9. Kept(h, s)
    BY <2>1, <2>7, <2>8 DEF Kept
  <2> QED
    BY <2>9 DEF h, e
<1> QED
  BY <1>2, <1>3, <1>4

----------------------------------------------------------------------------
(* The operations of the host.                                             *)

SameCells(h, g) == /\ h.text = g.text
                   /\ h.dirty_startx = g.dirty_startx /\ h.dirty_endx = g.dirty_endx

\* A method that changes neither text, dirty ranges nor frame keeps the display
\* tracked.
LEMMA FrameKept ==
  ASSUME NEW g, NEW h, NEW s, Kept(g, s), SameFrame(h, g), SameCells(h, g)
  PROVE  Kept(h, s)
<1>1. ASSUME NEW y \in ScreenRows(g), NEW x \in ScreenCols(g)
      PROVE  /\ TextAt(h, y, x) # Uninit
             /\ x \notin Dirty(h, y) => /\ x \notin Dirty(g, y)
                                        /\ TextAt(h, y, x) = TextAt(g, y, x)
  BY DEF SameFrame, SameCells, TextAt, Dirty, Kept, Clean
<1> QED
  BY <1>1, TouchedKept

\* Changing a mode other than the two that concern the display.
LEMMA ModeKept ==
  ASSUME NEW g, Good(g), NEW s, Kept(g, s), NEW f,
         "TEXTONLY" \notin f, "DEFERUPDATE" \notin f
  PROVE  Kept(set_mode_flag(g, f), s) /\ Kept(clear_mode_flag(g, f), s)
<1>1. SameFrame(set_mode_flag(g, f), g) /\ SameFrame(clear_mode_flag(g, f), g)
  BY DEF SameFrame, set_mode_flag, clear_mode_flag, Good, Base, GTermType
<1>2. SameCells(set_mode_flag(g, f), g) /\ SameCells(clear_mode_flag(g, f), g)
  BY DEF SameCells, set_mode_flag, clear_mode_flag
<1> QED
  BY <1>1, <1>2, FrameKept

\* cr, lf and next_line keep the display tracked.
LEMMA NextLineKept ==
  ASSUME NEW g, Good(g), NEW s, Kept(g, s)
  PROVE  Kept(cr(g), s) /\ Kept(lf(g), s) /\ Kept(next_line(g), s)
<1>1. Kept(lf(g), s)
  <2>1. 1 \in Int /\ g.scroll_top \in Nat
        /\ (g.scroll_top < g.scroll_bot =>
              1 < g.scroll_bot - g.scroll_top + 1 /\ -1 < g.scroll_bot - g.scroll_top + 1)
    BY GoodFacts, CursorFacts
  <2> QED
    BY <2>1, MoveCursorKept, ScrollRegionKept DEF lf
<1>2. Kept(cr(g), s)
  BY MoveCursorKept DEF cr
<1>3. Kept(cr(lf(g)), s)
  BY <1>1, LfGood, MoveCursorKept DEF cr
<1> QED
  BY <1>1, <1>2, <1>3 DEF next_line

\* index_up keeps the display tracked.
LEMMA IndexUpKept ==
  ASSUME NEW g, Good(g), NEW s, Kept(g, s)
  PROVE  Kept(index_up(g), s)
<1>1. PICK up \in Int : up = -1
  OBVIOUS
<1>2. g.scroll_top \in Nat
      /\ (g.scroll_top < g.scroll_bot =>
            up < g.scroll_bot - g.scroll_top + 1 /\ -up < g.scroll_bot - g.scroll_top + 1)
  BY <1>1, GoodFacts, CursorFacts
<1>3. Kept(scroll_region(g, g.scroll_top, g.scroll_bot, up), s)
  BY <1>2, ScrollRegionKept
<1> QED
  BY <1>1, <1>3, MoveCursorKept DEF index_up

\* Clearing rows between two rows of the text store.
LEMMA RowRange ==
  ASSUME NEW a \in Nat, NEW b \in Int, b < GT_MAXHEIGHT
  PROVE  a .. b \subseteq Rows
BY DimensionAssumption DEF Rows

\* ff keeps the display tracked.
LEMMA FfKept ==
  ASSUME NEW g, Good(g), NEW s, Kept(g, s)
  PROVE  Kept(ff(g), s)
<1>1. /\ g.scroll_top \in Nat /\ g.scroll_bot \in Int /\ g.scroll_bot < GT_MAXHEIGHT
      /\ g.scroll_top \in Int /\ g.width - 1 \in Int
  BY GoodFacts
<1>2. Kept(clear_area(g, 0, g.scroll_top, g.width - 1, g.scroll_bot), s)
  BY <1>1, RowRange, ClearAreaKept
<1>3. Good(clear_area(g, 0, g.scroll_top, g.width - 1, g.scroll_bot))
  BY ClearRowsGood
<1> QED
  BY <1>2, <1>3, MoveCursorKept DEF ff

\* tab keeps the display tracked.
LEMMA TabKept ==
  ASSUME NEW g, Good(g), NEW s, Kept(g, s)
  PROVE  Kept(tab(g), s)
BY MoveCursorKept, NextLineKept DEF tab

\* Clearing part of the cursor's row keeps the display tracked.
LEMMA ClearInRowKept ==
  ASSUME NEW g, Good(g), NEW s, Kept(g, s), NEW a \in Int, NEW b \in Int
  PROVE  Kept(clear_area(g, a, g.cursor_y, b, g.cursor_y), s)
<1>1. g.cursor_y \in Nat /\ g.cursor_y \in Int /\ g.cursor_y < GT_MAXHEIGHT
  BY GoodFacts
<1> QED
  BY <1>1, RowRange, ClearAreaKept

\* bs keeps the display tracked.
LEMMA BsKept ==
  ASSUME NEW g, Good(g), NEW s, Kept(g, s)
  PROVE  Kept(bs(g), s)
<1> DEFINE moved == IF g.cursor_x > 0 THEN move_cursor(g, g.cursor_x - 1, g.cursor_y)
                    ELSE g
<1>1. Good(moved) /\ Kept(moved, s)
  <2>1. g.cursor_x > 0 => g.cursor_x - 1 \in Cols /\ g.cursor_y \in Rows
    BY GoodFacts DEF Cols, Rows
  <2> QED
    BY <2>1, MoveCursorGood, MoveCursorKept
<1> HIDE DEF moved
<1>2. moved.cursor_x \in Int
  BY <1>1, GoodFacts
<1>3. Kept(clear_area(moved, moved.cursor_x, moved.cursor_y,
                      moved.cursor_x, moved.cursor_y), s)
  BY <1>1, <1>2, ClearInRowKept
<1> QED
  BY <1>1, <1>3 DEF bs, moved

\* A cell that was written is initialised.
LEMMA WrittenNotUninit ==
  ASSUME NEW c \in Written
  PROVE  c # Uninit
<1>1. c[2][1] \in Colors /\ Uninit[2][1] = "uninit"
  BY DEF Written, Uninit
<1> QED
  BY <1>1, DataAssumption

\* normal_input keeps the display tracked: it marks the row from the cursor to
\* the last cell that it writes or, in insert mode, moves.
LEMMA NormalInputKept ==
  ASSUME NEW g, Good(g), NEW s, Kept(g, s), NEW run \in Runs
  PROVE  Kept(normal_input(g, run), s)
<1> DEFINE h == IF g.cursor_x < g.width THEN g
                ELSE IF "NOEOLWRAP" \in g.mode_flags
                THEN [g EXCEPT !.cursor_x = g.width - 1]
                ELSE next_line(g)
           n == LesserOf(Len(run), h.width - h.cursor_x)
           last == h.cursor_x + n - 1
           end == IF "INSERT" \in g.mode_flags THEN h.width - 1 ELSE last
           new == [x \in h.cursor_x .. end |->
                     IF x <= last THEN <<run[x - h.cursor_x + 1], calc_color(h)>>
                     ELSE TextAt(h, h.cursor_y, x - n)]
           f == normal_input(g, run)
<1>1. Good(h) /\ Kept(h, s) /\ h.cursor_x < h.width
  <2>1. CASE g.cursor_x < g.width
    BY <2>1
  <2>2. CASE ~(g.cursor_x < g.width) /\ "NOEOLWRAP" \in g.mode_flags
    <3> DEFINE k == [g EXCEPT !.cursor_x = g.width - 1]
    <3>1. h = k
      BY <2>2
    <3>2. Good([g EXCEPT !.cursor_x = g.width - 1, !.cursor_y = g.cursor_y])
      BY CursorFacts, CursorGood
    <3>3. [g EXCEPT !.cursor_x = g.width - 1, !.cursor_y = g.cursor_y] = k
      BY DEF Good, Base, GTermType
    <3>4. k.cursor_x = g.width - 1 /\ k.width = g.width
      BY DEF Good, Base, GTermType
    <3>5. SameFrame(k, g) /\ SameCells(k, g)
      BY DEF SameFrame, SameCells
    <3> HIDE DEF k, h
    <3>6. Kept(k, s)
      BY <3>5, FrameKept
    <3> QED
      BY <3>1, <3>2, <3>3, <3>4, <3>6, GoodFacts
  <2>3. CASE ~(g.cursor_x < g.width) /\ "NOEOLWRAP" \notin g.mode_flags
    <3>1. h = next_line(g)
      BY <2>3
    <3>2. Good(lf(g)) /\ Good(next_line(g)) /\ Kept(next_line(g), s)
      BY LfGood, NextLineGood, NextLineKept
    <3>3. next_line(g).cursor_x = 0
      BY <3>2 DEF next_line, cr, move_cursor, changed_line, Good, Base, GTermType
    <3> QED
      BY <3>1, <3>2, <3>3, GoodFacts
  <2> QED
    BY <2>1, <2>2, <2>3
<1>2. f = [changed_line(h, h.cursor_y, h.cursor_x, end) EXCEPT
             !.text = WithRow(h, h.cursor_y, h.cursor_x .. end, new),
             !.cursor_x = last + 1]
  BY DEF normal_input
<1> HIDE DEF h, f
<1>3. /\ h.width \in Int /\ h.cursor_x \in 0 .. h.width - 1 /\ h.cursor_y \in Rows
  BY <1>1, GoodFacts, CursorFacts
<1>4. n \in 1 .. h.width - h.cursor_x /\ n <= Len(run) /\ Len(run) \in Nat
  BY <1>3, RunFacts DEF LesserOf
<1> HIDE DEF n
<1>5. last \in h.cursor_x .. h.width - 1 /\ end \in last .. h.width - 1
  BY <1>3, <1>4
<1>6. h.cursor_y \in ScreenRows(h) => \A x \in h.cursor_x .. end : new[x] # Uninit
  <2>1. SUFFICES ASSUME h.cursor_y \in ScreenRows(h), NEW x \in h.cursor_x .. end
                 PROVE  new[x] # Uninit
    OBVIOUS
  <2>2. CASE x <= last
    <3>1. x - h.cursor_x + 1 \in 1 .. Len(run)
      BY <1>3, <1>4, <1>5, <2>1, <2>2, SMTT(30)
    <3>2. run[x - h.cursor_x + 1] \in Glyphs
      BY <3>1, RunFacts
    <3>3. calc_color(h) \in Colors \X SUBSET Rendition
      BY <1>1 DEF calc_color, Good, Base, GTermType
    <3>4. new[x] = <<run[x - h.cursor_x + 1], calc_color(h)>>
      BY <2>2
    <3> QED
      BY <3>2, <3>3, <3>4, WrittenNotUninit DEF Written
  <2>3. CASE ~(x <= last)
    <3>1. x - n \in ScreenCols(h)
      BY <1>3, <1>4, <1>5, <2>1, <2>3, SMTT(30) DEF ScreenCols
    <3>2. new[x] = TextAt(h, h.cursor_y, x - n)
      BY <2>3
    <3> QED
      BY <1>1, <2>1, <3>1, <3>2 DEF Kept, Clean
  <2> QED
    BY <2>2, <2>3
<1>7. h.cursor_x \in Int /\ end \in Int
  BY <1>3, <1>5
<1> HIDE DEF last, end, new
<1>8. SameFrame(f, h)
  BY <1>2 DEF SameFrame, changed_line
<1>9. f.text = WithRow(h, h.cursor_y, h.cursor_x .. end, new)
  BY <1>1, <1>2 DEF changed_line, Good, Base, GTermType
<1>10. /\ f.dirty_startx = changed_line(h, h.cursor_y, h.cursor_x, end).dirty_startx
       /\ f.dirty_endx = changed_line(h, h.cursor_y, h.cursor_x, end).dirty_endx
  BY <1>2 DEF changed_line
<1>11. Kept(f, s)
  BY <1>1, <1>3, <1>6, <1>7, <1>8, <1>9, <1>10, WrittenRowKept
<1> QED
  BY <1>11 DEF f

\* save_cursor and restore_cursor keep the display tracked.
LEMMA SaveRestoreKept ==
  ASSUME NEW g, Good(g), NEW s, Kept(g, s)
  PROVE  Kept(save_cursor(g), s) /\ Kept(restore_cursor(g), s)
<1>1. Kept(save_cursor(g), s)
  <2>1. SameFrame(save_cursor(g), g)
    BY DEF SameFrame, save_cursor
  <2>2. SameCells(save_cursor(g), g)
    BY DEF SameCells, save_cursor
  <2> QED
    BY <2>1, <2>2, FrameKept
<1>2. Kept(restore_cursor(g), s)
  <2> DEFINE m == (g.mode_flags \ Rendition) \cup g.save_attrib
             h == [g EXCEPT !.mode_flags = m]
  <2>1. /\ m \in SUBSET ModeFlags
        /\ "TEXTONLY" \in m <=> "TEXTONLY" \in g.mode_flags
        /\ "DEFERUPDATE" \in m <=> "DEFERUPDATE" \in g.mode_flags
    BY DEF Good, Base, GTermType, ModeFlags, Rendition
  <2> HIDE DEF m
  <2>2. Good(h)
    BY <2>1, ModeGood
  <2>3. SameFrame(h, g)
    BY <2>1 DEF SameFrame, Good, Base, GTermType
  <2>4. SameCells(h, g)
    BY DEF SameCells
  <2> HIDE DEF h
  <2>5. Kept(move_cursor(h, g.save_x, g.save_y), s)
    BY <2>2, <2>3, <2>4, FrameKept, MoveCursorKept
  <2> QED
    BY <2>5 DEF restore_cursor, h, m
<1> QED
  BY <1>1, <1>2

\* set_tab and clear_tab keep the display tracked.
LEMMA TabStopsKept ==
  ASSUME NEW g, NEW s, Kept(g, s), NEW p
  PROVE  Kept(set_tab(g), s) /\ Kept(clear_tab(g, p), s)
<1>1. SameFrame(set_tab(g), g) /\ SameFrame(clear_tab(g, p), g)
  BY DEF SameFrame, set_tab, clear_tab
<1>2. SameCells(set_tab(g), g) /\ SameCells(clear_tab(g, p), g)
  BY DEF SameCells, set_tab, clear_tab
<1> QED
  BY <1>1, <1>2, FrameKept

\* Nothing of the screen is left to track.
Blank(g) == /\ Clean(g)
            /\ \A y \in ScreenRows(g), x \in ScreenCols(g) : x \in Dirty(g, y)

\* Clearing the whole screen leaves nothing to track.
LEMMA ClearScreenBlank ==
  ASSUME NEW g, Good(g), NEW w, w = g.width, NEW ht, ht = g.height
  PROVE  Blank(clear_area(g, 0, 0, w - 1, ht - 1))
<1> DEFINE h == clear_area(g, 0, 0, w - 1, ht - 1)
<1>1. /\ w - 1 \in Int /\ ht - 1 \in Int /\ ~(w - 1 - 0 + 1 < 1) /\ ht - 1 < GT_MAXHEIGHT
  BY GoodFacts
<1>2. 0 .. ht - 1 \subseteq Rows
  BY <1>1, RowRange
<1>3. h.width = g.width /\ h.height = g.height
  BY DEF clear_area, ChangedLines
<1>4. ASSUME NEW y \in ScreenRows(g), NEW x \in ScreenCols(g)
      PROVE  TextAt(h, y, x) # Uninit /\ x \in Dirty(h, y)
  <2>1. y \in Rows /\ x \in Cols /\ x \in Int /\ y \in 0 .. ht - 1 /\ x \in 0 .. w - 1
    BY ScreenInStore DEF ScreenRows, ScreenCols
  <2>2. TextAt(h, y, x) = BlankCell(g)
    BY <1>1, <1>2, <2>1, ClearAreaAt
  <2>3. Dirty(h, y) = Dirty(ChangedLines(g, 0 .. ht - 1, 0, w - 1), y)
    BY <1>1, <1>2, <2>1, ClearAreaAt
  <2>4. x \in Dirty(ChangedLines(g, 0 .. ht - 1, 0, w - 1), y)
    BY <1>1, <2>1, ChangedLinesDirty
  <2> QED
    BY <2>2, <2>3, <2>4, BlankNotUninit
<1> HIDE DEF h
<1>5. ScreenRows(h) = ScreenRows(g) /\ ScreenCols(h) = ScreenCols(g)
  BY <1>3 DEF ScreenRows, ScreenCols
<1>6. Blank(h)
  BY <1>4, <1>5 DEF Blank, Clean
<1> QED
  BY <1>6 DEF h

\* reset renumbers the rows and makes all of them dirty.
LEMMA ResetBlank ==
  ASSUME NEW g, Good(g)
  PROVE  /\ Blank(reset(g)) /\ reset(g).pending_scroll = 0
         /\ "DEFERUPDATE" \in reset(g).mode_flags <=> "DEFERUPDATE" \in g.mode_flags
<1> DEFINE flags == {"NOEOLWRAP", "CURSORAPPMODE", "CURSORRELATIVE", "NEWLINE",
                     "INSERT", "UNDERLINE", "BLINK", "KEYAPPMODE", "CURSORINVISIBLE"}
           cleared == ResetFields(g)
           blank == clear_area(cleared, 0, 0, g.width - 1, g.height - 1)
           h == move_cursor(blank, 0, 0)
<1>1. Good(cleared)
  BY ResetFieldsGood
<1>2. cleared.width = g.width /\ cleared.height = g.height /\ cleared.pending_scroll = 0
  BY DEF ResetFields, clear_mode_flag, Good, Base, GTermType
<1>3. "DEFERUPDATE" \in cleared.mode_flags <=> "DEFERUPDATE" \in g.mode_flags
  <2>1. "DEFERUPDATE" \notin flags
    OBVIOUS
  <2>2. cleared.mode_flags = g.mode_flags \ flags
    BY DEF ResetFields, clear_mode_flag, Good, Base, GTermType
  <2> HIDE DEF flags, cleared
  <2> QED
    BY <2>1, <2>2
<1>4. reset(g) = h
  BY DEF reset, ResetFields
<1> HIDE DEF cleared
<1>5. Good(blank) /\ Blank(blank)
  BY <1>1, <1>2, ClearRowsGood, ClearScreenBlank
<1>6. /\ blank.mode_flags = cleared.mode_flags /\ blank.pending_scroll = cleared.pending_scroll
  BY DEF clear_area, ChangedLines
<1> HIDE DEF blank
<1>7. /\ h.width = blank.width /\ h.height = blank.height
      /\ h.mode_flags = blank.mode_flags /\ h.pending_scroll = blank.pending_scroll
  BY DEF move_cursor, changed_line
<1> HIDE DEF h
<1>8. ScreenRows(h) = ScreenRows(blank) /\ ScreenCols(h) = ScreenCols(blank)
  BY <1>7 DEF ScreenRows, ScreenCols
<1>9. Blank(h)
  <2>1. \A y \in ScreenRows(blank), x \in ScreenCols(blank) :
          /\ TextAt(h, y, x) = TextAt(blank, y, x)
          /\ x \notin Dirty(h, y) => x \notin Dirty(blank, y)
    BY <1>5, ScreenInStore, MoveCursorCells DEF h
  <2> QED
    BY <1>5, <1>8, <2>1 DEF Blank, Clean
<1> QED
  BY <1>2, <1>3, <1>4, <1>6, <1>7, <1>9

\* reset keeps the display tracked.
LEMMA ResetKept ==
  ASSUME NEW g, Good(g), NEW s, Kept(g, s)
  PROVE  Kept(reset(g), s)
BY ResetBlank DEF Kept, Blank, Tracks

\* The cursor movements keep the display tracked.
LEMMA CursorMovesKept ==
  ASSUME NEW g, Good(g), NEW s, Kept(g, s), NEW p, NEW q
  PROVE  /\ Kept(cursor_left(g, p), s) /\ Kept(cursor_right(g, p), s)
         /\ Kept(cursor_up(g, p), s) /\ Kept(cursor_down(g, p), s)
         /\ Kept(cursor_position(g, p, q), s) /\ Kept(vt52_cursor(g, p, q), s)
BY MoveCursorKept DEF cursor_left, cursor_right, cursor_up, cursor_down,
                      cursor_position, vt52_cursor

\* Deleting, inserting and erasing characters keeps the display tracked.
LEMMA CharsKept ==
  ASSUME NEW g, Good(g), NEW s, Kept(g, s), NEW p \in Params
  PROVE  /\ Kept(delete_char(g, p), s) /\ Kept(insert_char(g, p), s)
         /\ Kept(erase_char(g, p), s)
<1>1. /\ CountOf(p) \in Int /\ -CountOf(p) \in Int /\ g.cursor_x \in Nat /\ g.cursor_x \in Int
      /\ g.cursor_y \in Rows /\ g.width - 1 \in Int
      /\ g.cursor_x + LesserOf(CountOf(p), g.width - g.cursor_x) - 1 \in Int
  BY ParamFacts, GoodFacts, CursorFacts DEF LesserOf
<1>2. Kept(delete_char(g, p), s)
  BY <1>1, ClearInRowKept, ShiftTextKept DEF delete_char
<1>3. Kept(insert_char(g, p), s)
  BY <1>1, ClearInRowKept, ShiftTextKept DEF insert_char
<1>4. Kept(erase_char(g, p), s)
  BY <1>1, ClearInRowKept DEF erase_char
<1> QED
  BY <1>2, <1>3, <1>4

\* Deleting and inserting lines keeps the display tracked.
LEMMA LinesMovedKept ==
  ASSUME NEW g, Good(g), NEW s, Kept(g, s), NEW p \in Params
  PROVE  Kept(delete_line(g, p), s) /\ Kept(insert_line(g, p), s)
<1> DEFINE n == CountOf(p)
<1>1. /\ n \in Nat /\ n \in Int /\ g.cursor_y \in Nat /\ g.cursor_y \in Rows /\ g.cursor_y \in Int
      /\ g.scroll_bot \in Int /\ g.scroll_bot < GT_MAXHEIGHT /\ g.width - 1 \in Int
  BY ParamFacts, GoodFacts, CursorFacts
<1>2. Kept(clear_area(g, 0, g.cursor_y, g.width - 1, g.scroll_bot), s)
  BY <1>1, RowRange, ClearAreaKept
<1> HIDE DEF n
<1>3. PICK m \in Int : m = -n
  BY <1>1
<1>4. ASSUME ~(n >= g.scroll_bot - g.cursor_y + 1)
      PROVE  /\ Kept(scroll_region(g, g.cursor_y, g.scroll_bot, n), s)
             /\ Kept(scroll_region(g, g.cursor_y, g.scroll_bot, m), s)
  <2>1. /\ n < g.scroll_bot - g.cursor_y + 1 /\ -n < g.scroll_bot - g.cursor_y + 1
        /\ m < g.scroll_bot - g.cursor_y + 1 /\ -m < g.scroll_bot - g.cursor_y + 1
    BY <1>1, <1>3, <1>4
  <2> QED
    BY <1>1, <2>1, ScrollRegionKept
<1> QED
  BY <1>2, <1>3, <1>4 DEF delete_line, insert_line, n

\* erase_display and erase_line keep the display tracked.
LEMMA EraseKept ==
  ASSUME NEW g, Good(g), NEW s, Kept(g, s), NEW p
  PROVE  Kept(erase_display(g, p), s) /\ Kept(erase_line(g, p), s)
<1>1. /\ g.cursor_x \in Int /\ g.cursor_y \in Int /\ g.width - 1 \in Int
      /\ g.height - 1 \in Int /\ g.height - 1 < GT_MAXHEIGHT
      /\ g.cursor_y + 1 \in Nat /\ g.cursor_y + 1 \in Int
      /\ g.cursor_y - 1 \in Int /\ g.cursor_y - 1 < GT_MAXHEIGHT
  BY GoodFacts
<1>2. /\ g.cursor_y + 1 .. g.height - 1 \subseteq Rows
      /\ 0 .. g.cursor_y - 1 \subseteq Rows /\ 0 .. g.height - 1 \subseteq Rows
  BY <1>1, RowRange
<1>3. /\ Kept(clear_area(g, g.cursor_x, g.cursor_y, g.width - 1, g.cursor_y), s)
      /\ Kept(clear_area(g, 0, g.cursor_y, g.cursor_x, g.cursor_y), s)
      /\ Kept(clear_area(g, 0, g.cursor_y, g.width - 1, g.cursor_y), s)
  BY <1>1, ClearInRowKept
<1>4. Kept(clear_area(clear_area(g, g.cursor_x, g.cursor_y, g.width - 1, g.cursor_y),
                      0, g.cursor_y + 1, g.width - 1, g.height - 1), s)
  BY <1>1, <1>2, <1>3, ClearRestOfRowGood, ClearAreaKept
<1>5. Kept(clear_area(clear_area(g, 0, g.cursor_y, g.cursor_x, g.cursor_y),
                      0, 0, g.width - 1, g.cursor_y - 1), s)
  BY <1>1, <1>2, <1>3, ClearToCursorGood, ClearAreaKept
<1>6. Kept(clear_area(g, 0, 0, g.width - 1, g.height - 1), s)
  BY <1>1, <1>2, ClearAreaKept
<1>7. Kept(erase_display(g, p), s)
  <2>1. p \in {0, 1, 2} \/ erase_display(g, p) = g
    BY DEF erase_display
  <2>2. CASE p = 0
    BY <1>4, <2>2 DEF erase_display
  <2>3. CASE p = 1
    BY <1>5, <2>3 DEF erase_display
  <2>4. CASE p = 2
    BY <1>6, <2>4 DEF erase_display
  <2> QED
    BY <2>1, <2>2, <2>3, <2>4
<1>8. Kept(erase_line(g, p), s)
  <2>1. p \in {0, 1, 2} \/ erase_line(g, p) = g
    BY DEF erase_line
  <2>2. CASE p = 0
    BY <1>3, <2>2 DEF erase_line
  <2>3. CASE p = 1
    BY <1>3, <2>3 DEF erase_line
  <2>4. CASE p = 2
    BY <1>3, <2>4 DEF erase_line
  <2> QED
    BY <2>1, <2>2, <2>3, <2>4
<1> QED
  BY <1>7, <1>8

\* set_colors keeps the display tracked.
LEMMA ColorsKept ==
  ASSUME NEW g, Good(g), NEW s, Kept(g, s), NEW c \in Colors, NEW f \in SUBSET Renditions
  PROVE  Kept(set_colors(g, c, f), s)
<1> DEFINE bare == clear_mode_flag(g, Rendition)
           k == set_mode_flag(bare, f)
           h == [k EXCEPT !.color = c]
<1>1. /\ Rendition \in SUBSET ModeFlags /\ f \in SUBSET Rendition
      /\ "TEXTONLY" \notin Rendition /\ "DEFERUPDATE" \notin Rendition
  BY DataAssumption DEF ModeFlags, Rendition
<1>2. Good(bare) /\ Kept(bare, s)
  BY <1>1, ModeGood, ModeKept
<1> HIDE DEF bare
<1>3. "TEXTONLY" \notin f /\ "DEFERUPDATE" \notin f
  BY <1>1
<1>4. Kept(k, s)
  BY <1>2, <1>3, ModeKept
<1> HIDE DEF k
<1>5. SameFrame(h, k) /\ SameCells(h, k)
  BY DEF SameFrame, SameCells
<1> HIDE DEF h
<1>6. Kept(h, s)
  BY <1>4, <1>5, FrameKept
<1> QED
  BY <1>6 DEF set_colors, h, k, bare

\* screen_align keeps the display tracked: the whole screen is dirty.
LEMMA ScreenAlignKept ==
  ASSUME NEW g, Good(g), NEW s, Kept(g, s)
  PROVE  Kept(screen_align(g), s)
<1> DEFINE c == <<AlignChar, <<DefaultColor, {}>>>>
           ys == 0 .. g.height - 1
           xs == 0 .. g.width - 1
           h == screen_align(g)
<1>1. g.height - 1 \in Int /\ g.height - 1 < GT_MAXHEIGHT /\ g.width - 1 \in Int /\ 0 \in Int
  BY GoodFacts
<1>2. ys \in SUBSET Rows
  BY <1>1, RowRange
<1>3. c # Uninit
  <2>1. c \in Written
    BY DataAssumption DEF Written, Glyphs
  <2> QED
    BY <2>1, WrittenNotUninit
<1> HIDE DEF c
<1>4. /\ h.text = Filled(g, ys, xs, c) /\ h.linenumbers = g.linenumbers
      /\ h.dirty_startx = ChangedLines(g, ys, 0, g.width - 1).dirty_startx
      /\ h.dirty_endx = ChangedLines(g, ys, 0, g.width - 1).dirty_endx
  BY DEF screen_align, ChangedLines, Good, Base, GTermType, c
<1>5. SameFrame(h, g)
  BY DEF SameFrame, screen_align, ChangedLines
<1> HIDE DEF h
<1>6. ASSUME NEW y \in ScreenRows(g), NEW x \in ScreenCols(g)
      PROVE  /\ TextAt(h, y, x) # Uninit
             /\ x \notin Dirty(h, y) => /\ x \notin Dirty(g, y)
                                        /\ TextAt(h, y, x) = TextAt(g, y, x)
  <2>1. y \in Rows /\ x \in Cols /\ x \in Int /\ y \in ys /\ x \in xs
    BY ScreenInStore DEF ScreenRows, ScreenCols
  <2> HIDE DEF ys
  <2>2. TextAt(h, y, x) = c
    <3> HIDE DEF xs
    <3> QED
      BY <1>2, <1>4, <2>1, FilledAt DEF TextAt
  <2>3. Dirty(h, y) = Dirty(ChangedLines(g, ys, 0, g.width - 1), y)
    BY <1>4 DEF Dirty
  <2>4. x \in Dirty(h, y)
    BY <1>1, <2>1, <2>3, ChangedLinesDirty
  <2> QED
    BY <1>3, <2>2, <2>4
<1>7. Kept(h, s)
  BY <1>5, <1>6, TouchedKept
<1> QED
  BY <1>7 DEF h

HostModes == {"NOEOLWRAP", "CURSORAPPMODE", "CURSORRELATIVE", "INSERT",
              "NEWLINE", "LOCALECHO", "CURSORINVISIBLE", "KEYAPPMODE"}

\* set_mode and clear_mode keep the display tracked.
LEMMA SetModeKept ==
  ASSUME NEW g, Good(g), NEW s, Kept(g, s), NEW flag \in HostModes
  PROVE  Kept(set_mode(g, flag), s) /\ Kept(clear_mode(g, flag), s)
<1>1. "TEXTONLY" \notin {flag} /\ "DEFERUPDATE" \notin {flag} /\ {flag} \in SUBSET ModeFlags
  BY DEF HostModes, ModeFlags
<1>2. Kept(set_mode_flag(g, {flag}), s) /\ Kept(clear_mode_flag(g, {flag}), s)
  BY <1>1, ModeKept
<1>3. Kept(move_cursor(clear_mode_flag(g, {flag}), g.cursor_x, g.cursor_y), s)
  BY <1>1, <1>2, ModeGood, MoveCursorKept
<1> QED
  BY <1>2, <1>3 DEF set_mode, clear_mode

\* set_margins keeps the display tracked, as no scroll is pending.
LEMMA SetMarginsKept ==
  ASSUME NEW g, Good(g), NEW s, Kept(g, s), g.pending_scroll = 0,
         NEW p0 \in Params, NEW p1 \in Params
  PROVE  Kept(set_margins(g, p0, p1), s)
<1> DEFINE top == CountOf(p0) - 1
           bot == (IF p1 < 1 \/ p1 > g.height THEN g.height ELSE p1) - 1
           h == [g EXCEPT !.scroll_top = top, !.scroll_bot = bot]
           down == IF h.cursor_y < top THEN move_cursor(h, h.cursor_x, top) ELSE h
<1>1. top \in Nat
  BY ParamFacts
<1>2. bot \in Rows /\ bot < g.height
  BY GoodFacts, ParamFacts DEF Rows
<1> HIDE DEF top, bot
<1>3. Good(h)
  BY <1>1, <1>2, MarginFieldsGood
<1>4. /\ h.width = g.width /\ h.height = g.height /\ h.mode_flags = g.mode_flags
      /\ h.text = g.text /\ h.linenumbers = g.linenumbers /\ h.pending_scroll = 0
      /\ h.dirty_startx = g.dirty_startx /\ h.dirty_endx = g.dirty_endx
  OBVIOUS
<1> HIDE DEF h
<1>5. /\ ScreenRows(h) = ScreenRows(g) /\ ScreenCols(h) = ScreenCols(g)
      /\ \A y : Dirty(h, y) = Dirty(g, y) /\ \A x : TextAt(h, y, x) = TextAt(g, y, x)
  BY <1>4 DEF ScreenRows, ScreenCols, Dirty, TextAt
<1>6. \A y \in ScreenRows(g) : Source(h, y) = y /\ Source(g, y) = y
  BY <1>4 DEF Source, ScreenRows
<1>7. Kept(h, s)
  <2>1. \A y : Follows(h, y) => y \in Region(h)
    BY DEF Follows
  <2> QED
    BY <1>4, <1>5, <1>6, <2>1 DEF Kept, Clean, Tracks
<1>8. Base(down) /\ Kept(down, s)
  BY <1>1, <1>3, <1>7, CursorFacts, MoveCursorBase, MoveCursorKept
<1> HIDE DEF down
<1>9. Kept(move_cursor(down, down.cursor_x, bot), s)
  BY <1>8, MoveCursorKept
<1> QED
  BY <1>8, <1>9 DEF set_margins, top, bot, h, down

\* Every operation of the host keeps the display tracked.
LEMMA HostOutputKept ==
  ASSUME Good(gt), NEW s, Kept(gt, s), HostOutput
  PROVE  Kept(gt', s)
<1> USE DEF Host
<1>1. ASSUME NEW run \in Runs, Host("normal_input", normal_input(gt, run))
      PROVE  Kept(gt', s)
  BY <1>1, NormalInputKept
<1>2. CASE \/ Host("cr", cr(gt)) \/ Host("lf", lf(gt)) \/ Host("ff", ff(gt))
           \/ Host("tab", tab(gt)) \/ Host("bs", bs(gt))
           \/ Host("next_line", next_line(gt))
  BY <1>2, FfKept, TabKept, BsKept, NextLineKept
<1>3. CASE \/ Host("save_cursor", save_cursor(gt))
           \/ Host("restore_cursor", restore_cursor(gt))
           \/ Host("set_tab", set_tab(gt))
           \/ Host("index_down", index_down(gt)) \/ Host("index_up", index_up(gt))
           \/ Host("reset", reset(gt)) \/ Host("screen_align", screen_align(gt))
  <2>1. /\ Kept(save_cursor(gt), s) /\ Kept(restore_cursor(gt), s)
        /\ Kept(set_tab(gt), s)
        /\ Kept(lf(gt), s) /\ Kept(index_up(gt), s)
        /\ Kept(reset(gt), s) /\ Kept(screen_align(gt), s)
    BY SaveRestoreKept, TabStopsKept, NextLineKept, IndexUpKept, ResetKept, ScreenAlignKept
  <2> QED
    BY <1>3, <2>1 DEF index_down
<1>4. ASSUME NEW p \in Params,
             \/ Host("clear_tab", clear_tab(gt, p))
             \/ Host("cursor_left", cursor_left(gt, p))
             \/ Host("cursor_right", cursor_right(gt, p))
             \/ Host("cursor_up", cursor_up(gt, p))
             \/ Host("cursor_down", cursor_down(gt, p))
             \/ Host("delete_char", delete_char(gt, p))
             \/ Host("insert_char", insert_char(gt, p))
             \/ Host("erase_char", erase_char(gt, p))
             \/ Host("delete_line", delete_line(gt, p))
             \/ Host("insert_line", insert_line(gt, p))
             \/ Host("erase_display", erase_display(gt, p))
             \/ Host("erase_line", erase_line(gt, p))
      PROVE  Kept(gt', s)
  BY <1>4, TabStopsKept, CursorMovesKept, CharsKept, LinesMovedKept, EraseKept
<1>5. ASSUME NEW p0 \in Params, NEW p1 \in Params,
             \/ Host("cursor_position", cursor_position(gt, p0, p1))
             \/ gt.pending_scroll = 0 /\ Host("set_margins", set_margins(gt, p0, p1))
      PROVE  Kept(gt', s)
  BY <1>5, CursorMovesKept, SetMarginsKept
<1>10. ASSUME NEW row \in Params, NEW col \in Cols,
              Host("vt52_cursor", vt52_cursor(gt, row, col))
       PROVE  Kept(gt', s)
  BY <1>10, CursorMovesKept
<1>6. ASSUME NEW color \in Colors, NEW flags \in SUBSET Renditions,
             Host("set_colors", set_colors(gt, color, flags))
      PROVE  Kept(gt', s)
  BY <1>6, ColorsKept
<1>7. ASSUME NEW flag \in HostModes,
             Host("set_mode", set_mode(gt, flag)) \/ Host("clear_mode", clear_mode(gt, flag))
      PROVE  Kept(gt', s)
  BY <1>7, SetModeKept
<1>8. CASE \/ Host("keypad_application", set_mode_flag(gt, {"KEYAPPMODE"}))
           \/ Host("keypad_numeric", clear_mode_flag(gt, {"KEYAPPMODE"}))
  <2>1. "TEXTONLY" \notin {"KEYAPPMODE"} /\ "DEFERUPDATE" \notin {"KEYAPPMODE"}
    OBVIOUS
  <2> QED
    BY <1>8, <2>1, ModeKept
<1>9. {"NOEOLWRAP", "CURSORAPPMODE", "CURSORRELATIVE", "INSERT", "NEWLINE",
       "LOCALECHO", "CURSORINVISIBLE"} \subseteq HostModes
  BY DEF HostModes
<1> HIDE DEF Host
<1> QED
  BY <1>1, <1>2, <1>3, <1>4, <1>5, <1>6, <1>7, <1>8, <1>9, <1>10, Zenon DEF HostOutput

----------------------------------------------------------------------------
(* The display.                                                            *)

\* Every cell of the screen was written.
NothingRaw(g, s) == \A y \in ScreenRows(g), x \in ScreenCols(g) : s[y][x] # Uninit

\* What a cell of the display is after update_changes.
LEMMA PaintedAt ==
  ASSUME NEW g, Base(g), NEW s \in ScreenOf(g), NEW y \in ScreenRows(g), NEW x \in ScreenCols(g)
  PROVE  /\ x \in Dirty(g, y) => Painted(g, s)[y][x] = PaintedCell(g, y, x)
         /\ x \notin Dirty(g, y) => Painted(g, s)[y][x] = Moved(g, s)[y][x]
         /\ AsksToMove(g) /\ y \in Region(g) /\ y + g.pending_scroll \in Region(g)
              => Moved(g, s)[y] = s[y + g.pending_scroll]
         /\ ~(AsksToMove(g) /\ y \in Region(g) /\ y + g.pending_scroll \in Region(g))
              => Moved(g, s)[y] = s[y]
<1>1. DOMAIN s = ScreenRows(g) /\ DOMAIN s[y] = ScreenCols(g)
  BY DEF ScreenOf
<1> QED
  BY <1>1 DEF Painted, Moved

\* A dirty cell is painted as it looks: blanks are handed to ClearChars.
LEMMA PaintedLooks ==
  ASSUME NEW g, NEW y, NEW x \in Dirty(g, y), x \in Int
  PROVE  /\ Looks(PaintedCell(g, y, x)) = Looks(TextAt(g, y, x))
         /\ TextAt(g, y, x) # Uninit => PaintedCell(g, y, x) # Uninit
<1>1. SameRun(g, y, x, x)
  BY DEF SameRun, LesserOf, GreaterOf
<1>2. CASE PaintedCell(g, y, x) = TextAt(g, y, x)
  BY <1>2
<1>3. CASE PaintedCell(g, y, x) # TextAt(g, y, x)
  <2> DEFINE c == <<Space, <<TextAt(g, y, x)[2][1], {}>>>>
  <2>1. PaintedCell(g, y, x) = c /\ TextAt(g, y, x)[1] = Space
    BY <1>1, <1>3 DEF PaintedCell
  <2>2. c[1] = Space /\ Space # "uninit" /\ Uninit[1] = "uninit"
    BY DEF Space, Uninit
  <2> HIDE DEF c
  <2> QED
    BY <2>1, <2>2 DEF Looks
<1> QED
  BY <1>2, <1>3

\* A tracked display shows the text once update_changes has run.
LEMMA UpdateShows ==
  ASSUME NEW g, Base(g), NEW s \in ScreenOf(g), Tracks(g, s),
         NEW y \in ScreenRows(g), NEW x \in ScreenCols(g)
  PROVE  Looks(Painted(g, s)[y][x]) = Looks(TextAt(g, y, x))
<1>1. x \in Int /\ y \in Int
  BY DEF ScreenCols, ScreenRows
<1>2. CASE x \in Dirty(g, y)
  BY <1>1, <1>2, PaintedAt, PaintedLooks
<1>3. CASE x \notin Dirty(g, y)
  <2>1. /\ Follows(g, y) => Source(g, y) \in Region(g)
        /\ Looks(s[Source(g, y)][x]) = Looks(TextAt(g, y, x))
    BY <1>3 DEF Tracks
  <2>2. g.scroll_top \in Int /\ g.scroll_bot \in Int /\ g.pending_scroll \in Int
    BY BaseFacts
  <2>3. AsksToMove(g) /\ y \in Region(g) => Follows(g, y)
    BY <2>2 DEF AsksToMove, Follows, Region
  <2>4. CASE AsksToMove(g) /\ y \in Region(g)
    <3>1. Source(g, y) = y + g.pending_scroll
      BY <2>3, <2>4 DEF Source
    <3> QED
      BY <1>3, <2>1, <2>3, <2>4, <3>1, PaintedAt
  <2>5. CASE ~(AsksToMove(g) /\ y \in Region(g))
    <3>1. Source(g, y) = y
      <4>1. CASE ~Follows(g, y)
        BY <4>1 DEF Source
      <4>2. CASE Follows(g, y)
        <5>1. y + g.pending_scroll \in Region(g) /\ y \in Region(g)
          BY <2>1, <4>2 DEF Source, Follows
        <5>2. g.pending_scroll = 0
          BY <1>1, <2>2, <2>5, <4>2, <5>1 DEF Region, Follows, AsksToMove
        <5> QED
          BY <1>1, <4>2, <5>2 DEF Source
      <4> QED
        BY <4>1, <4>2
    <3> QED
      BY <1>3, <2>1, <2>5, <3>1, PaintedAt
  <2> QED
    BY <2>4, <2>5
<1> QED
  BY <1>2, <1>3

\* Tracks is what DisplayTracks says, and more.
LEMMA TracksImplies ==
  ASSUME Base(gt), Tracks(gt, screen)
  PROVE  DisplayTracks
<1>1. SUFFICES ASSUME NEW y \in ScreenRows(gt), NEW x \in ScreenCols(gt), x \notin Dirty(gt, y)
               PROVE  /\ AsksToMove(gt) /\ y \in Region(gt) => ShownAt(gt, y) \in Region(gt)
                      /\ Looks(screen[ShownAt(gt, y)][x]) = Looks(TextAt(gt, y, x))
  BY DEF DisplayTracks
<1>2. /\ Follows(gt, y) => Source(gt, y) \in Region(gt)
      /\ Looks(screen[Source(gt, y)][x]) = Looks(TextAt(gt, y, x))
  BY <1>1 DEF Tracks
<1>3. gt.scroll_top \in Int /\ gt.scroll_bot \in Int /\ gt.pending_scroll \in Int /\ y \in Int
  BY BaseFacts DEF ScreenRows
<1>4. AsksToMove(gt) /\ y \in Region(gt) => Follows(gt, y)
  BY <1>3 DEF AsksToMove, Follows, Region
<1>5. Follows(gt, y) /\ ~AsksToMove(gt) => gt.pending_scroll = 0
  BY <1>2, <1>3 DEF Source, Follows, Region, AsksToMove
<1>6. ShownAt(gt, y) = Source(gt, y)
  BY <1>3, <1>4, <1>5 DEF ShownAt, Source, Follows
<1> QED
  BY <1>2, <1>4, <1>6

\* What update_changes leaves of the GTerm.
LEMMA AfterUpdateFields ==
  ASSUME NEW g, Base(g)
  PROVE  /\ AfterUpdate(g).pending_scroll = 0
         /\ AfterUpdate(g).mode_flags = g.mode_flags
         /\ AfterUpdate(g).width = g.width /\ AfterUpdate(g).height = g.height
         /\ \A y, x : TextAt(AfterUpdate(g), y, x) = TextAt(g, y, x)
<1>1. AfterUpdate(g).pending_scroll = 0
  BY DEF AfterUpdate, Base, GTermType
<1>2. /\ AfterUpdate(g).mode_flags = g.mode_flags
      /\ AfterUpdate(g).width = g.width /\ AfterUpdate(g).height = g.height
      /\ AfterUpdate(g).text = g.text /\ AfterUpdate(g).linenumbers = g.linenumbers
  BY DEF AfterUpdate
<1> QED
  BY <1>1, <1>2 DEF TextAt

\* update_changes leaves a display that is tracked, with nothing dirty.
LEMMA UpdateKept ==
  ASSUME NEW g, Base(g), NEW s \in ScreenOf(g), Kept(g, s)
  PROVE  Kept(AfterUpdate(g), Painted(g, s))
<1> DEFINE h == AfterUpdate(g)
           t == Painted(g, s)
<1>1. /\ h.pending_scroll = 0 /\ h.mode_flags = g.mode_flags
      /\ h.width = g.width /\ h.height = g.height
      /\ \A y, x : TextAt(h, y, x) = TextAt(g, y, x)
  BY AfterUpdateFields
<1> HIDE DEF h, t
<1>2. ScreenRows(h) = ScreenRows(g) /\ ScreenCols(h) = ScreenCols(g)
  BY <1>1 DEF ScreenRows, ScreenCols
<1>3. Clean(h)
  BY <1>1, <1>2 DEF Kept, Clean
<1>4. ASSUME Tracks(g, s) PROVE Tracks(h, t)
  <2>1. \A y \in ScreenRows(g) : Source(h, y) = y
    BY <1>1 DEF Source, ScreenRows
  <2>2. \A y : Follows(h, y) => y \in Region(h)
    BY DEF Follows
  <2>3. \A y \in ScreenRows(g), x \in ScreenCols(g) : Looks(t[y][x]) = Looks(TextAt(g, y, x))
    BY <1>4, UpdateShows DEF t
  <2> QED
    BY <1>1, <1>2, <2>1, <2>2, <2>3 DEF Tracks
<1>5. Kept(h, t)
  BY <1>1, <1>3, <1>4 DEF Kept
<1> QED
  BY <1>5 DEF h, t

\* update_changes paints and copies cells that were written.
LEMMA UpdateNothingRaw ==
  ASSUME NEW g, Base(g), NEW s \in ScreenOf(g), Clean(g), NothingRaw(g, s)
  PROVE  NothingRaw(g, Painted(g, s))
<1>1. SUFFICES ASSUME NEW y \in ScreenRows(g), NEW x \in ScreenCols(g)
               PROVE  Painted(g, s)[y][x] # Uninit
  BY DEF NothingRaw
<1>2. Region(g) \subseteq ScreenRows(g) /\ x \in Int
  BY BaseFacts DEF Region, ScreenRows, ScreenCols
<1>3. CASE x \in Dirty(g, y)
  BY <1>2, <1>3, PaintedAt, PaintedLooks DEF Clean
<1>4. CASE x \notin Dirty(g, y)
  BY <1>2, <1>4, PaintedAt DEF NothingRaw
<1> QED
  BY <1>3, <1>4

\* ExposeArea makes cells dirty and changes nothing else.
LEMMA ExposedKept ==
  ASSUME NEW g, Base(g), NEW s, Kept(g, s), NEW ys, NEW a \in Int, NEW b \in Int
  PROVE  Kept(ChangedLines(g, ys, a, b), s)
<1> DEFINE h == ChangedLines(g, ys, a, b)
<1>1. SameFrame(h, g) /\ h.text = g.text
  BY DEF SameFrame, ChangedLines
<1>2. ASSUME NEW y \in ScreenRows(g), NEW x \in ScreenCols(g)
      PROVE  /\ TextAt(h, y, x) # Uninit
             /\ x \notin Dirty(h, y) => /\ x \notin Dirty(g, y)
                                        /\ TextAt(h, y, x) = TextAt(g, y, x)
  <2>1. y \in Rows /\ x \in Int
    BY ScreenInStore
  <2>2. x \notin Dirty(h, y) => x \notin Dirty(g, y)
    BY <2>1, ChangedLinesDirty
  <2> HIDE DEF h
  <2>3. TextAt(h, y, x) = TextAt(g, y, x)
    BY <1>1 DEF TextAt, SameFrame
  <2> QED
    BY <2>2, <2>3 DEF Kept, Clean
<1> HIDE DEF h
<1>3. Kept(h, s)
  BY <1>1, <1>2, TouchedKept
<1> QED
  BY <1>3 DEF h

\* ResizeTerminal carries out no pending scroll.
LEMMA ResizeKeepsPending ==
  ASSUME NEW g, NEW w, NEW ht
  PROVE  ResizeTerminal(g, w, ht).pending_scroll = g.pending_scroll
<1> DEFINE wid == LesserOf(g.width, w)
           hei == LesserOf(g.height, ht)
           right == clear_area(g, wid, 0, GT_MAXWIDTH - 1, GT_MAXHEIGHT - 1)
           below == clear_area(right, 0, hei, wid - 1, GT_MAXHEIGHT - 1)
           top == IF below.scroll_top >= ht THEN 0 ELSE below.scroll_top
           sized == [below EXCEPT !.width = w, !.height = ht, !.scroll_bot = ht - 1,
                                  !.scroll_top = top]
<1>1. below.pending_scroll = g.pending_scroll
  BY DEF right, below, clear_area, ChangedLines
<1>2. ResizeTerminal(g, w, ht) =
        move_cursor(sized, LesserOf(w - 1, g.cursor_x), LesserOf(ht - 1, g.cursor_y))
  BY DEF ResizeTerminal, sized, top, below, right, wid, hei
<1> HIDE DEF right, below
<1>3. sized.pending_scroll = below.pending_scroll
  OBVIOUS
<1> HIDE DEF sized
<1> QED
  BY <1>1, <1>2, <1>3 DEF move_cursor, changed_line

\* ResizeTerminal keeps the display tracked if no scroll is pending: what it does
\* not clear, and make dirty, was on the screen before.
LEMMA ResizeKept ==
  ASSUME NEW g, Base(g), NEW s, Kept(g, s), NEW w, NEW ht, <<w, ht>> \in Sizes,
         Steady => g.pending_scroll = 0, NEW t,
         \A y \in 0 .. ht - 1, x \in 0 .. w - 1 :
           y < g.height /\ x < g.width => t[y][x] = s[y][x]
  PROVE  Kept(ResizeTerminal(g, w, ht), t)
<1> DEFINE wid == LesserOf(g.width, w)
           hei == LesserOf(g.height, ht)
           right == clear_area(g, wid, 0, GT_MAXWIDTH - 1, GT_MAXHEIGHT - 1)
           below == clear_area(right, 0, hei, wid - 1, GT_MAXHEIGHT - 1)
           top == IF below.scroll_top >= ht THEN 0 ELSE below.scroll_top
           sized == [below EXCEPT !.width = w, !.height = ht, !.scroll_bot = ht - 1,
                                  !.scroll_top = top]
           h == ResizeTerminal(g, w, ht)
<1>1. w \in 2 .. GT_MAXWIDTH - 1 /\ ht \in 2 .. GT_MAXHEIGHT
  BY SizeFacts
<1>2. /\ wid \in 2 .. GT_MAXWIDTH - 1 /\ hei \in 2 .. GT_MAXHEIGHT
      /\ GT_MAXWIDTH \in Nat /\ GT_MAXHEIGHT \in Nat
      /\ \A x \in Int : x < wid <=> x < g.width /\ x < w
      /\ \A y \in Int : y < hei <=> y < g.height /\ y < ht
  BY <1>1, BaseFacts DEF LesserOf
<1> HIDE DEF wid, hei
<1>3. /\ wid \in Int /\ wid \in 0 .. GT_MAXWIDTH /\ GT_MAXWIDTH - 1 \in Int
      /\ GT_MAXWIDTH - 1 < GT_MAXWIDTH /\ GT_MAXHEIGHT - 1 \in Int /\ hei \in Int /\ hei \in Nat
      /\ wid - 1 \in Int /\ wid - 1 < GT_MAXWIDTH /\ GT_MAXHEIGHT - 1 < GT_MAXHEIGHT
      /\ ~((GT_MAXWIDTH - 1) - wid + 1 < 1) /\ ~((wid - 1) - 0 + 1 < 1)
      /\ 0 \in 0 .. GT_MAXWIDTH
  BY <1>2
<1>4. 0 .. GT_MAXHEIGHT - 1 \subseteq Rows /\ hei .. GT_MAXHEIGHT - 1 \subseteq Rows
  BY <1>3, RowRange
<1>5. Base(right)
  BY <1>3, ClearAreaBase
<1>6. ASSUME NEW y \in Rows, NEW x \in Cols
      PROVE  /\ TextAt(right, y, x) = IF x < wid THEN TextAt(g, y, x) ELSE BlankCell(g)
             /\ x \notin Dirty(right, y) => x \notin Dirty(g, y) /\ x < wid
  <2>1. y \in 0 .. GT_MAXHEIGHT - 1 /\ x \in 0 .. GT_MAXWIDTH - 1 /\ x \in Int
    BY <1>2 DEF Rows, Cols
  <2>2. x \in wid .. GT_MAXWIDTH - 1 <=> ~(x < wid)
    BY <1>2, <2>1
  <2>3. /\ TextAt(right, y, x) = IF y \in 0 .. GT_MAXHEIGHT - 1 /\ x \in wid .. GT_MAXWIDTH - 1
                                 THEN BlankCell(g) ELSE TextAt(g, y, x)
        /\ Dirty(right, y) = Dirty(ChangedLines(g, 0 .. GT_MAXHEIGHT - 1, wid, GT_MAXWIDTH - 1), y)
    <3>1. wid \in Int /\ 0 \in Int /\ GT_MAXWIDTH - 1 \in Int /\ GT_MAXHEIGHT - 1 \in Int
      BY <1>3
    <3> QED
      BY <1>3, <1>4, <3>1, ClearAreaAt, SMTT(30)
  <2>5. x \notin Dirty(right, y) => x \notin Dirty(g, y) /\ x \notin wid .. GT_MAXWIDTH - 1
    BY <1>3, <2>1, <2>3, ChangedLinesDirty
  <2> HIDE DEF right
  <2> QED
    BY <2>1, <2>2, <2>3, <2>5
<1>7. Base(below)
  BY <1>3, <1>5, ClearAreaBase
<1>8. ASSUME NEW y \in Rows, NEW x \in Cols
      PROVE  /\ TextAt(below, y, x) = IF x < wid /\ ~(y < hei) THEN BlankCell(right)
                                      ELSE TextAt(right, y, x)
             /\ x \notin Dirty(below, y) => /\ x \notin Dirty(right, y)
                                            /\ x < wid => y < hei
  <2> HIDE DEF right
  <2>1. y \in 0 .. GT_MAXHEIGHT - 1 /\ x \in 0 .. GT_MAXWIDTH - 1 /\ x \in Int /\ y \in Int
    BY <1>2 DEF Rows, Cols
  <2>2. (x \in 0 .. wid - 1 <=> x < wid) /\ (y \in hei .. GT_MAXHEIGHT - 1 <=> ~(y < hei))
    BY <1>2, <2>1
  <2>3. TextAt(below, y, x) = IF y \in hei .. GT_MAXHEIGHT - 1 /\ x \in 0 .. wid - 1
                              THEN BlankCell(right) ELSE TextAt(right, y, x)
    BY <1>3, <1>4, <1>5, ClearAreaAt
  <2>4. Dirty(below, y) = Dirty(ChangedLines(right, hei .. GT_MAXHEIGHT - 1, 0, wid - 1), y)
    BY <1>3, <1>4, <1>5, ClearAreaAt
  <2>5. x \notin Dirty(below, y) =>
          x \notin Dirty(right, y) /\ (y \in hei .. GT_MAXHEIGHT - 1 => x \notin 0 .. wid - 1)
    BY <1>3, <1>5, <2>1, <2>4, ChangedLinesDirty
  <2> HIDE DEF below
  <2> QED
    BY <2>2, <2>3, <2>5
<1>9. below.mode_flags = g.mode_flags /\ below.pending_scroll = g.pending_scroll
  BY DEF right, below, clear_area, ChangedLines
<1> HIDE DEF right, below
<1>10. /\ h = move_cursor(sized, LesserOf(w - 1, g.cursor_x), LesserOf(ht - 1, g.cursor_y))
  BY DEF ResizeTerminal, sized, top, below, right, wid, hei
<1>11. /\ sized.text = below.text /\ sized.linenumbers = below.linenumbers
       /\ sized.dirty_startx = below.dirty_startx /\ sized.dirty_endx = below.dirty_endx
       /\ sized.mode_flags = below.mode_flags /\ sized.pending_scroll = below.pending_scroll
  OBVIOUS
<1>12. Base(sized) /\ sized.width = w /\ sized.height = ht
  <2>1. /\ top \in Nat /\ ht - 1 \in Rows /\ ht - 1 < ht
        /\ w \in Cols /\ ht \in 0 .. GT_MAXHEIGHT
    BY <1>1, <1>2, <1>7, BaseFacts DEF Rows, Cols
  <2> HIDE DEF top
  <2>2. below \in GTermType
    BY <1>7 DEF Base
  <2>3. sized \in GTermType
    BY <2>1, <2>2 DEF GTermType
  <2>4. /\ sized.width = w /\ sized.height = ht /\ sized.scroll_bot = ht - 1
        /\ sized.cursor_x = below.cursor_x /\ sized.cursor_y = below.cursor_y
        /\ sized.save_x = below.save_x /\ sized.save_y = below.save_y
        /\ sized.linenumbers = below.linenumbers
    BY <2>2 DEF GTermType
  <2> HIDE DEF sized
  <2> QED
    BY <1>7, <2>1, <2>3, <2>4 DEF Base
<1> HIDE DEF sized
<1>13. /\ h.width = w /\ h.height = ht /\ h.mode_flags = g.mode_flags
       /\ h.pending_scroll = g.pending_scroll
  BY <1>9, <1>10, <1>11, <1>12 DEF move_cursor, changed_line
<1>14. \A y \in Rows, x \in Int : /\ TextAt(h, y, x) = TextAt(below, y, x)
                                  /\ x \notin Dirty(h, y) => x \notin Dirty(below, y)
  <2>1. \A y, x : TextAt(sized, y, x) = TextAt(below, y, x) /\ Dirty(sized, y) = Dirty(below, y)
    BY <1>11 DEF TextAt, Dirty
  <2> QED
    BY <1>10, <1>12, <2>1, MoveCursorCells
<1> HIDE DEF h
<1>15. ASSUME NEW y \in 0 .. ht - 1, NEW x \in 0 .. w - 1
       PROVE  /\ TextAt(h, y, x) # Uninit
              /\ x \notin Dirty(h, y) =>
                   /\ y \in ScreenRows(g) /\ x \in ScreenCols(g)
                   /\ x \notin Dirty(g, y) /\ TextAt(h, y, x) = TextAt(g, y, x)
                   /\ t[y][x] = s[y][x]
  <2>1. y \in Rows /\ x \in Cols /\ x \in Int /\ y \in Int /\ x < w /\ y < ht /\ x >= 0 /\ y >= 0
    BY <1>1, <1>2 DEF Rows, Cols
  <2>2. x < wid /\ y < hei => /\ y \in ScreenRows(g) /\ x \in ScreenCols(g)
                              /\ y < g.height /\ x < g.width
    BY <1>2, <2>1, BaseFacts DEF ScreenRows, ScreenCols
  <2>3. x < wid /\ y < hei => TextAt(g, y, x) # Uninit
    BY <2>2 DEF Kept, Clean
  <2>4. TextAt(h, y, x) = IF x < wid THEN IF y < hei THEN TextAt(g, y, x) ELSE BlankCell(right)
                          ELSE BlankCell(g)
    BY <1>6, <1>8, <1>14, <2>1
  <2>5. x \notin Dirty(h, y) => x \notin Dirty(g, y) /\ x < wid /\ y < hei
    BY <1>6, <1>8, <1>14, <2>1
  <2> QED
    BY <2>2, <2>3, <2>4, <2>5, BlankNotUninit
<1>16. ScreenRows(h) = 0 .. ht - 1 /\ ScreenCols(h) = 0 .. w - 1
  BY <1>13 DEF ScreenRows, ScreenCols
<1>17. Clean(h)
  BY <1>15, <1>16 DEF Clean
<1>18. ASSUME Steady PROVE Tracks(h, t)
  <2>1. Tracks(g, s) /\ g.pending_scroll = 0 /\ h.pending_scroll = 0
    BY <1>13, <1>18 DEF Kept
  <2>2. SUFFICES ASSUME NEW y \in 0 .. ht - 1, NEW x \in 0 .. w - 1, x \notin Dirty(h, y)
                 PROVE  /\ Follows(h, y) => Source(h, y) \in Region(h)
                        /\ Looks(t[Source(h, y)][x]) = Looks(TextAt(h, y, x))
    BY <1>16 DEF Tracks
  <2>3. Source(h, y) = y /\ Source(g, y) = y
    BY <2>1 DEF Source
  <2>4. Looks(s[y][x]) = Looks(TextAt(g, y, x))
    BY <1>15, <2>1, <2>2, <2>3 DEF Tracks
  <2>5. Follows(h, y) => y \in Region(h)
    BY DEF Follows
  <2> QED
    BY <1>15, <2>2, <2>3, <2>4, <2>5
<1>19. Kept(h, t)
  BY <1>13, <1>17, <1>18 DEF Kept
<1> QED
  BY <1>19 DEF h

----------------------------------------------------------------------------
(* The theorems.                                                           *)

\* The inductive invariant.
TrackInv == /\ IInv
            /\ Kept(gt, screen)
            /\ NothingRaw(gt, screen)
            /\ "DEFERUPDATE" \notin InitModes /\ ~in_input => gt.pending_scroll = 0

\* The first GTerm is blank, and dirty: whatever the display shows is tracked.
LEMMA FirstBlank ==
  ASSUME GTermInit
  PROVE  Good(gt) /\ gt.pending_scroll = 0 /\ \A s : Kept(gt, s)
<1>2. PICK sz \in Sizes, junk \in SUBSET Renditions :
        gt = set_mode_flag(NewGTerm(sz[1], sz[2], junk), InitModes)
  BY DEF GTermInit
<1> DEFINE w == sz[1]
           h == sz[2]
           raw == RawGTerm(w, h, junk)
           g == reset(raw)
<1>3. <<w, h>> \in Sizes
  BY DimensionAssumption
<1>1. Good(gt)
  BY <1>2, <1>3, NewGTermGood, ModeGood, BoundAssumption
<1>4. Good(raw)
  BY <1>3, RawGTermGood
<1>5. raw.mode_flags = {} /\ gt = set_mode_flag(g, InitModes)
  BY <1>2 DEF NewGTerm, RawGTerm
<1> HIDE DEF raw
<1>6. /\ Good(g) /\ Blank(g) /\ g.pending_scroll = 0
      /\ "DEFERUPDATE" \notin g.mode_flags
  BY <1>4, <1>5, ResetGood, ResetBlank
<1> HIDE DEF g
<1>7. /\ gt.width = g.width /\ gt.height = g.height /\ gt.text = g.text
      /\ gt.linenumbers = g.linenumbers /\ gt.pending_scroll = g.pending_scroll
      /\ gt.dirty_startx = g.dirty_startx /\ gt.dirty_endx = g.dirty_endx
  BY <1>5 DEF set_mode_flag
<1>8. gt.mode_flags = g.mode_flags \cup InitModes
  BY <1>5, <1>6 DEF set_mode_flag, Good, Base, GTermType
<1>9. Blank(gt)
  BY <1>6, <1>7 DEF Blank, Clean, ScreenRows, ScreenCols, TextAt, Dirty
<1>10. \A s : Kept(gt, s)
  BY <1>6, <1>8, <1>9 DEF Kept, Blank, Tracks
<1> QED
  BY <1>1, <1>6, <1>7, <1>10

\* The first screen is blank, and dirty.
LEMMA InitTrack == Init => TrackInv
<1> SUFFICES ASSUME Init PROVE TrackInv
  OBVIOUS
<1>1. IInv
  BY InitInv
<1>2. gt.pending_scroll = 0 /\ Kept(gt, screen)
  BY FirstBlank DEF Init
<1>3. NothingRaw(gt, screen)
  <2>1. <<Space, <<DefaultColor, {}>>>> # Uninit
    <3>1. <<Space, <<DefaultColor, {}>>>>[1] = " " /\ Uninit[1] = "uninit"
      BY DEF Space, Uninit
    <3> QED
      BY <3>1
  <2> QED
    BY <2>1 DEF Init, NothingRaw
<1> QED
  BY <1>1, <1>2, <1>3 DEF TrackInv

\* update_changes, from a GTerm of the same size that is tracked.
LEMMA UpdateTrack ==
  ASSUME NEW g, Base(g), SameSize(g, gt), Kept(g, screen), NothingRaw(gt, screen),
         screen \in ScreenOf(gt), UpdateChanges(g, AfterUpdate(g))
  PROVE  Kept(gt', screen') /\ NothingRaw(gt', screen') /\ gt'.pending_scroll = 0
<1>1. gt' = AfterUpdate(g) /\ screen' = Painted(g, screen)
  BY DEF UpdateChanges
<1>2. screen \in ScreenOf(g) /\ NothingRaw(g, screen)
  BY DEF SameSize, ScreenOf, ScreenRows, ScreenCols, NothingRaw
<1>3. Kept(AfterUpdate(g), Painted(g, screen))
  BY <1>2, UpdateKept
<1>4. NothingRaw(g, Painted(g, screen))
  BY <1>2, UpdateNothingRaw DEF Kept
<1>5. AfterUpdate(g).pending_scroll = 0
      /\ AfterUpdate(g).width = g.width /\ AfterUpdate(g).height = g.height
  BY AfterUpdateFields
<1>6. NothingRaw(AfterUpdate(g), Painted(g, screen))
  BY <1>4, <1>5 DEF NothingRaw, ScreenRows, ScreenCols
<1> QED
  BY <1>1, <1>3, <1>5, <1>6

\* Every step keeps the display tracked.
LEMMA StepTrack == TrackInv /\ [Next]_vars => TrackInv'
<1> SUFFICES ASSUME TrackInv, [Next]_vars PROVE TrackInv'
  OBVIOUS
<1>1. IInv'
  BY StepInv DEF TrackInv
<1>2. /\ Base(gt) /\ screen \in ScreenOf(gt) /\ Kept(gt, screen) /\ NothingRaw(gt, screen)
      /\ "DEFERUPDATE" \notin InitModes /\ ~in_input => gt.pending_scroll = 0
      /\ SameSize(gt, gt)
  BY DEF TrackInv, IInv, Fit, SameSize
<1>12. RowInStore(gt) => Good(gt)
  BY GoodIsFit DEF TrackInv, IInv
<1>3. SUFFICES /\ Kept(gt', screen')
               /\ NothingRaw(gt', screen')
               /\ "DEFERUPDATE" \notin InitModes /\ ~in_input' => gt'.pending_scroll = 0
  BY <1>1 DEF TrackInv
<1>4. CASE ProcessInput
  <2>1. HostOutput /\ screen' = screen /\ in_input' = TRUE
    BY <1>4 DEF ProcessInput
  <2>2. Kept(gt', screen)
    BY <1>2, <1>12, <2>1, HostInStore, HostOutputKept
  <2>3. NothingRaw(gt', screen)
    BY <1>2, <2>1, HostOutputKeepsSize DEF SameSize, NothingRaw, ScreenRows, ScreenCols
  <2> QED
    BY <2>1, <2>2, <2>3
<1>5. CASE MarginsAfterScroll
  <2>1. PICK p0 \in Params, p1 \in Params :
          UpdateChanges(gt, set_margins(AfterUpdate(gt), p0, p1))
    BY <1>5 DEF MarginsAfterScroll
  <2>2. /\ gt' = set_margins(AfterUpdate(gt), p0, p1)
        /\ screen' = Painted(gt, screen) /\ in_input' = TRUE
    BY <1>5, <2>1 DEF UpdateChanges, MarginsAfterScroll
  <2>3. Kept(AfterUpdate(gt), Painted(gt, screen)) /\ Good(AfterUpdate(gt))
    BY <1>2, <1>5, <1>12, UpdateKept, AfterUpdateGood DEF MarginsAfterScroll
  <2>4. AfterUpdate(gt).pending_scroll = 0
    BY <1>2, AfterUpdateFields
  <2>5. Kept(set_margins(AfterUpdate(gt), p0, p1), Painted(gt, screen))
    BY <2>3, <2>4, SetMarginsKept
  <2>6. SameSize(set_margins(AfterUpdate(gt), p0, p1), gt)
    BY AfterUpdateKeepsSize, SequencesKeepSize DEF SameSize
  <2>7. NothingRaw(gt, Painted(gt, screen))
    BY <1>2, UpdateNothingRaw DEF Kept
  <2>8. NothingRaw(gt', screen')
    BY <2>2, <2>6, <2>7 DEF SameSize, NothingRaw, ScreenRows, ScreenCols
  <2> QED
    BY <2>2, <2>5, <2>8
<1>6. CASE UpdateChanges(gt, AfterUpdate(gt))
  BY <1>2, <1>6, UpdateTrack
<1>7. CASE EndOfInput
  <2>1. ASSUME ~UpdatesAtEnd(gt), UNCHANGED <<gt, screen, crs>>
        PROVE  /\ Kept(gt', screen') /\ NothingRaw(gt', screen')
               /\ "DEFERUPDATE" \in InitModes
    <3>1. "DEFERUPDATE" \in InitModes
      BY <1>2, <2>1 DEF UpdatesAtEnd, Kept
    <3>2. gt' = gt /\ screen' = screen
      BY <2>1
    <3> QED
      BY <1>2, <3>1, <3>2
  <2> QED
    BY <1>6, <1>7, <2>1 DEF EndOfInput
<1>8. CASE Update
  BY <1>6, <1>8 DEF Update
<1>9. CASE ExposeArea
  <2> DEFINE g == Exposed(gt, 0, 0, gt.width, gt.height)
  <2>1. g = ChangedLines(gt, 0 .. 0 + gt.height - 1, 0, 0 + gt.width - 1)
    BY DEF Exposed
  <2>2. /\ 0 + gt.width - 1 = gt.width - 1 /\ 0 + gt.width - 1 \in Int
        /\ 0 \in 0 .. GT_MAXWIDTH /\ gt.width - 1 \in Cols
    BY <1>2, BaseFacts DEF Cols
  <2>3. Base(g) /\ Kept(g, screen)
    BY <1>2, <2>1, <2>2, ChangedLinesBase, ExposedKept
  <2>4. SameSize(g, gt) /\ g.mode_flags = gt.mode_flags
    BY DEF SameSize, Exposed, ChangedLines
  <2>5. \/ "DEFERUPDATE" \in g.mode_flags /\ gt' = g /\ screen' = screen
        \/ UpdateChanges(g, AfterUpdate(g))
    BY <1>9 DEF ExposeArea
  <2> HIDE DEF g
  <2>6. CASE "DEFERUPDATE" \in g.mode_flags /\ gt' = g /\ screen' = screen
    <3>1. "DEFERUPDATE" \in InitModes
      BY <2>3, <2>6 DEF Kept
    <3>2. NothingRaw(g, screen)
      BY <1>2, <2>4 DEF SameSize, NothingRaw, ScreenRows, ScreenCols
    <3> QED
      BY <2>3, <2>6, <3>1, <3>2
  <2>7. CASE UpdateChanges(g, AfterUpdate(g))
    BY <1>2, <2>3, <2>4, <2>7, UpdateTrack
  <2> QED
    BY <2>5, <2>6, <2>7
<1>10. CASE Resize
  <2>1. PICK sz \in Sizes, other \in (Chars \cup {Space}) \X {<<DefaultColor, {}>>} :
          /\ sz # <<gt.width, gt.height>>
          /\ gt' = ResizeTerminal(gt, sz[1], sz[2])
          /\ screen' = [y \in 0 .. sz[2] - 1 |-> [x \in 0 .. sz[1] - 1 |->
                         IF y < gt.height /\ x < gt.width THEN screen[y][x] ELSE other]]
    BY <1>10 DEF Resize
  <2>2. ~in_input /\ in_input' = in_input
    BY <1>10 DEF Resize
  <2>3. <<sz[1], sz[2]>> \in Sizes /\ sz[1] \in Int /\ sz[2] \in Int
    BY DimensionAssumption
  <2>4. Steady => gt.pending_scroll = 0 /\ "DEFERUPDATE" \notin InitModes
    <3>1. <<gt.width, gt.height>> \in Sizes
      BY <1>2 DEF Base
    <3> QED
      BY <1>2, <2>1, <2>2, <3>1 DEF Steady
  <2>5. \A y \in 0 .. sz[2] - 1, x \in 0 .. sz[1] - 1 :
          /\ y < gt.height /\ x < gt.width => screen'[y][x] = screen[y][x]
          /\ ~(y < gt.height /\ x < gt.width) => screen'[y][x] = other
    BY <2>1
  <2>6. Kept(gt', screen')
    <3>1. PICK t : t = screen'
      OBVIOUS
    <3>2. Kept(ResizeTerminal(gt, sz[1], sz[2]), t)
      BY <1>2, <2>3, <2>4, <2>5, <3>1, ResizeKept
    <3> QED
      BY <2>1, <3>1, <3>2
  <2>7. gt'.width = sz[1] /\ gt'.height = sz[2]
    BY <1>2, <2>1, <2>3, ResizeGood
  <2>8. other # Uninit
    <3>1. other[2][1] = DefaultColor /\ Uninit[2][1] = "uninit"
      BY DEF Uninit
    <3> QED
      BY <3>1, DataAssumption
  <2>9. ASSUME NEW y \in 0 .. sz[2] - 1, NEW x \in 0 .. sz[1] - 1
        PROVE  screen'[y][x] # Uninit
    <3>1. y < gt.height /\ x < gt.width => y \in ScreenRows(gt) /\ x \in ScreenCols(gt)
      BY <1>2, <2>3, BaseFacts DEF ScreenRows, ScreenCols
    <3> QED
      BY <1>2, <2>5, <2>8, <3>1 DEF NothingRaw
  <2>10. NothingRaw(gt', screen')
    BY <2>7, <2>9 DEF NothingRaw, ScreenRows, ScreenCols
  <2>11. "DEFERUPDATE" \notin InitModes => gt'.pending_scroll = 0
    <3>1. "DEFERUPDATE" \notin InitModes => gt.pending_scroll = 0
      BY <1>2, <2>2
    <3>2. ResizeTerminal(gt, sz[1], sz[2]).pending_scroll = gt.pending_scroll
      BY ResizeKeepsPending
    <3> QED
      BY <2>1, <3>1, <3>2
  <2> QED
    BY <2>6, <2>10, <2>11
<1>11. CASE UNCHANGED vars
  <2>1. gt' = gt /\ screen' = screen /\ in_input' = in_input
    BY <1>11 DEF vars
  <2> QED
    BY <1>2, <2>1
<1> QED
  BY <1>4, <1>5, <1>7, <1>8, <1>9, <1>10, <1>11 DEF Next

\* The inductive invariant holds in every state.
THEOREM TrackInvariant == Spec => []TrackInv
BY InitTrack, StepTrack, PTL DEF Spec

\* The memory that the constructor does not clear is never shown, whatever is
\* scrolled, reset or resized.
THEOREM NeverShowsUninit == Spec => []NoUninitShown
<1>1. TrackInv => NoUninitShown
  BY DEF TrackInv, Kept, Clean, NothingRaw, NoUninitShown
<1> QED
  BY <1>1, TrackInvariant, PTL

\* update_changes always finds the clean cells where it will fetch them from:
\* with direct updates for every sequence of operations and resizes, with
\* deferred updates for a terminal that keeps its size.
THEOREM DisplayStaysTracked ==
  ASSUME "DEFERUPDATE" \notin InitModes \/ \A s1, s2 \in Sizes : s1 = s2
  PROVE  Spec => []DisplayTracks
<1>1. TrackInv => DisplayTracks
  BY TracksImplies DEF TrackInv, IInv, Fit, Kept, Steady
<1> QED
  BY <1>1, TrackInvariant, PTL

\* With direct updates the user sees the whole text when ProcessInput returns.
THEOREM InputIsShown == Spec => ShownAfterInput
<1>1. TrackInv /\ [Next]_vars =>
        [EndOfInput /\ "DEFERUPDATE" \notin gt.mode_flags => UpToDate']_vars
  <2>1. SUFFICES ASSUME TrackInv, EndOfInput, "DEFERUPDATE" \notin gt.mode_flags
                 PROVE  UpToDate'
    OBVIOUS
  <2>2. Base(gt) /\ screen \in ScreenOf(gt) /\ Tracks(gt, screen)
    BY <2>1 DEF TrackInv, IInv, Fit, Kept, Steady
  <2>3. gt' = AfterUpdate(gt) /\ screen' = Painted(gt, screen)
    BY <2>1 DEF EndOfInput, UpdatesAtEnd, UpdateChanges
  <2>4. /\ gt'.width = gt.width /\ gt'.height = gt.height
        /\ \A y, x : TextAt(AfterUpdate(gt), y, x) = TextAt(gt, y, x)
    BY <2>2, <2>3, AfterUpdateFields
  <2>5. \A y \in ScreenRows(gt), x \in ScreenCols(gt) :
          Looks(Painted(gt, screen)[y][x]) = Looks(TextAt(gt, y, x))
    BY <2>2, UpdateShows
  <2> QED
    BY <2>3, <2>4, <2>5 DEF UpToDate, ScreenRows, ScreenCols, TextAt
<1> QED
  BY <1>1, TrackInvariant, PTL DEF Spec, ShownAfterInput

----------------------------------------------------------------------------
(* Runs of characters cut in two                                           *)

\* The row of the cursor after m characters of run were put into it.
RowPut(h, run, m) ==
  [x \in Cols |->
     IF x < h.cursor_x THEN TextAt(h, h.cursor_y, x)
     ELSE IF x < h.cursor_x + m THEN <<run[x - h.cursor_x + 1], calc_color(h)>>
     ELSE IF "INSERT" \in h.mode_flags /\ x < h.width THEN TextAt(h, h.cursor_y, x - m)
     ELSE TextAt(h, h.cursor_y, x)]

\* The GTerm f is h after m characters of run were put into the row of the cursor.
IsPut(f, h, run, m) ==
  /\ f.text = [h.text EXCEPT ![h.linenumbers[h.cursor_y]] = RowPut(h, run, m)]
  /\ f.cursor_x = h.cursor_x + m
  /\ f.cursor_y = h.cursor_y /\ f.width = h.width
  /\ f.linenumbers = h.linenumbers
  /\ f.mode_flags = h.mode_flags /\ f.color = h.color

\* What normal_input leaves of a run that fits in the row.
LEMMA FittingRun ==
  ASSUME NEW h, Good(h), NEW run, NEW m \in 1 .. h.width - h.cursor_x, Len(run) = m
  PROVE  IsPut(normal_input(h, run), h, run, m)
<1> DEFINE last == h.cursor_x + m - 1
           end == IF "INSERT" \in h.mode_flags THEN h.width - 1 ELSE last
           new == [x \in h.cursor_x .. end |->
                     IF x <= last THEN <<run[x - h.cursor_x + 1], calc_color(h)>>
                     ELSE TextAt(h, h.cursor_y, x - m)]
           f == normal_input(h, run)
           l == h.linenumbers[h.cursor_y]
<1>1. /\ h.width \in 2 .. GT_MAXWIDTH - 1 /\ GT_MAXWIDTH \in Nat
      /\ h.cursor_x \in Nat /\ h.cursor_x < h.width
      /\ h.cursor_y \in Rows /\ l \in Rows /\ h.text \in [Rows -> [Cols -> Cell]]
      /\ m \in Nat
  <2>1. h.cursor_y \in Rows
    BY CursorFacts
  <2>2. h.width \in 2 .. GT_MAXWIDTH - 1 /\ GT_MAXWIDTH \in Nat
        /\ h.cursor_x \in 0 .. GT_MAXWIDTH - 1
    BY GoodFacts
  <2>3. h.width \in Int /\ h.cursor_x \in Nat
    BY <2>2
  <2>4. m \in Nat /\ h.cursor_x < h.width
    BY <2>3
  <2>5. l \in Rows /\ h.text \in [Rows -> [Cols -> Cell]]
    BY <2>1, FieldTypes
  <2> QED
    BY <2>1, <2>2, <2>3, <2>4, <2>5
<1>2. LesserOf(Len(run), h.width - h.cursor_x) = m
  BY <1>1 DEF LesserOf
<1>3. f = [changed_line(h, h.cursor_y, h.cursor_x, end) EXCEPT
             !.text = WithRow(h, h.cursor_y, h.cursor_x .. end, new),
             !.cursor_x = last + 1]
  BY <1>1, <1>2 DEF normal_input
<1> HIDE DEF f, new
<1>4. f.text = WithRow(h, h.cursor_y, h.cursor_x .. end, new)
      /\ f.cursor_x = last + 1
      /\ f.cursor_y = h.cursor_y /\ f.width = h.width
      /\ f.linenumbers = h.linenumbers
      /\ f.mode_flags = h.mode_flags /\ f.color = h.color
  BY <1>3 DEF changed_line, Good, Base, GTermType
<1>5. [x \in Cols |-> IF x \in h.cursor_x .. end THEN new[x] ELSE h.text[l][x]]
        = RowPut(h, run, m)
  <2>1. SUFFICES ASSUME NEW x \in Cols
                 PROVE  (IF x \in h.cursor_x .. end THEN new[x] ELSE h.text[l][x])
                           = RowPut(h, run, m)[x]
    BY DEF RowPut
  <2>2. x \in Nat
    BY DEF Cols
  <2>3. TextAt(h, h.cursor_y, x) = h.text[l][x]
    BY DEF TextAt
  <2>4. x \in h.cursor_x .. end =>
          new[x] = IF x <= last THEN <<run[x - h.cursor_x + 1], calc_color(h)>>
                   ELSE TextAt(h, h.cursor_y, x - m)
    BY DEF new
  <2> DEFINE t == TextAt(h, h.cursor_y, x)
             tm == TextAt(h, h.cursor_y, x - m)
             c == <<run[x - h.cursor_x + 1], calc_color(h)>>
             ins == "INSERT" \in h.mode_flags
             q == RowPut(h, run, m)[x]
             nx == new[x]
  <2>5. q = IF x < h.cursor_x THEN t ELSE IF x < h.cursor_x + m THEN c
            ELSE IF ins /\ x < h.width THEN tm ELSE t
    BY DEF RowPut
  <2>6. x \in h.cursor_x .. end => nx = IF x <= last THEN c ELSE tm
    BY <2>4
  <2> HIDE DEF l, t, tm, c, q, nx
  <2>7. (IF x \in h.cursor_x .. end THEN nx ELSE t) = q
    <3>1. CASE ins
      BY <1>1, <2>2, <2>5, <2>6, <3>1
    <3>2. CASE ~ins
      BY <1>1, <2>2, <2>5, <2>6, <3>2
    <3> QED
      BY <3>1, <3>2
  <2> QED
    BY <2>3, <2>7 DEF t, q, nx
<1>6. WithRow(h, h.cursor_y, h.cursor_x .. end, new)
        = [h.text EXCEPT ![l] = RowPut(h, run, m)]
  BY <1>5 DEF WithRow
<1>7. last + 1 = h.cursor_x + m
  BY <1>1
<1> QED
  BY <1>4, <1>6, <1>7 DEF f, IsPut

\* Two characters that fit in the row, at once and one by one.
LEMMA PairOneByOne ==
  ASSUME NEW h, Good(h), h.cursor_x < h.width - 1, NEW a \in Chars \cup {Space}, NEW b
  PROVE  normal_input(h, <<a, b>>).text = normal_input(normal_input(h, <<a>>), <<b>>).text
<1> DEFINE l == h.linenumbers[h.cursor_y]
           both == normal_input(h, <<a, b>>)
           first == normal_input(h, <<a>>)
           then == normal_input(first, <<b>>)
<1>1. /\ h.width \in 2 .. GT_MAXWIDTH - 1 /\ GT_MAXWIDTH \in Nat
      /\ h.cursor_x \in Nat /\ h.cursor_y \in Rows /\ l \in Rows
      /\ h.text \in [Rows -> [Cols -> Cell]]
  <2>1. h.cursor_y \in Rows
    BY CursorFacts
  <2> QED
    BY <2>1, GoodFacts, FieldTypes
<1>2. 1 \in 1 .. h.width - h.cursor_x /\ 2 \in 1 .. h.width - h.cursor_x
      /\ 1 \in 1 .. h.width - (h.cursor_x + 1)
  BY <1>1
<1>3. Len(<<a>>) = 1 /\ Len(<<b>>) = 1 /\ Len(<<a, b>>) = 2
  OBVIOUS
<1>4. both.text = [h.text EXCEPT ![l] = RowPut(h, <<a, b>>, 2)]
  <2>1. IsPut(both, h, <<a, b>>, 2)
    BY <1>2, <1>3, FittingRun
  <2> QED
    BY <2>1 DEF IsPut
<1>5. /\ first.text = [h.text EXCEPT ![l] = RowPut(h, <<a>>, 1)]
      /\ first.cursor_x = h.cursor_x + 1
      /\ first.cursor_y = h.cursor_y /\ first.width = h.width
      /\ first.linenumbers = h.linenumbers
      /\ first.mode_flags = h.mode_flags /\ first.color = h.color
  <2>1. IsPut(first, h, <<a>>, 1)
    BY <1>2, <1>3, FittingRun
  <2> QED
    BY <2>1 DEF IsPut
<1>6. Good(first)
  <2>1. <<a>> \in Runs
    <3>1. <<a>> \in [1 .. 1 -> Chars \cup {Space}] /\ 1 \in 1 .. MaxRun
      BY BoundAssumption
    <3> QED
      BY <3>1 DEF Runs
  <2> QED
    BY <2>1, NormalInputGood
<1> HIDE DEF first, both
<1>7. then.text = [first.text EXCEPT ![l] = RowPut(first, <<b>>, 1)]
  <2>1. 1 \in 1 .. first.width - first.cursor_x
    BY <1>2, <1>5
  <2>2. IsPut(then, first, <<b>>, 1)
    BY <1>3, <1>6, <2>1, FittingRun
  <2> QED
    BY <1>5, <2>2 DEF IsPut
<1>8. RowPut(first, <<b>>, 1) = RowPut(h, <<a, b>>, 2)
  <2>1. SUFFICES ASSUME NEW x \in Cols
                 PROVE  RowPut(first, <<b>>, 1)[x] = RowPut(h, <<a, b>>, 2)[x]
    BY DEF RowPut
  <2>2. x \in Nat
    BY DEF Cols
  <2>3. calc_color(first) = calc_color(h)
    BY <1>5 DEF calc_color
  <2>4. ASSUME NEW z \in Cols
        PROVE  TextAt(first, first.cursor_y, z) = RowPut(h, <<a>>, 1)[z]
    BY <1>1, <1>5 DEF TextAt
  <2>5. ASSUME NEW z \in Cols
        PROVE  /\ z < h.cursor_x => TextAt(first, first.cursor_y, z) = TextAt(h, h.cursor_y, z)
               /\ z = h.cursor_x => TextAt(first, first.cursor_y, z) = <<a, calc_color(h)>>
               /\ z > h.cursor_x /\ "INSERT" \in h.mode_flags /\ z < h.width
                    => TextAt(first, first.cursor_y, z) = TextAt(h, h.cursor_y, z - 1)
               /\ z > h.cursor_x /\ ~("INSERT" \in h.mode_flags /\ z < h.width)
                    => TextAt(first, first.cursor_y, z) = TextAt(h, h.cursor_y, z)
    <3>1. z \in Nat
      BY DEF Cols
    <3>2. z = h.cursor_x => <<a>>[z - h.cursor_x + 1] = a
      BY <1>1, <3>1
    <3> DEFINE c == <<<<a>>[z - h.cursor_x + 1], calc_color(h)>>
               ins == "INSERT" \in h.mode_flags
               t == TextAt(h, h.cursor_y, z)
               t1 == TextAt(h, h.cursor_y, z - 1)
    <3>3. TextAt(first, first.cursor_y, z) =
            IF z < h.cursor_x THEN t ELSE IF z < h.cursor_x + 1 THEN c
            ELSE IF ins /\ z < h.width THEN t1 ELSE t
      BY <2>4 DEF RowPut
    <3>4. z = h.cursor_x => c = <<a, calc_color(h)>>
      BY <3>2
    <3> HIDE DEF c, t, t1, ins
    <3>5. /\ z < h.cursor_x => TextAt(first, first.cursor_y, z) = t
          /\ z = h.cursor_x => TextAt(first, first.cursor_y, z) = c
          /\ z > h.cursor_x /\ ins /\ z < h.width
               => TextAt(first, first.cursor_y, z) = t1
          /\ z > h.cursor_x /\ ~(ins /\ z < h.width)
               => TextAt(first, first.cursor_y, z) = t
      BY <1>1, <3>1, <3>3
    <3> QED
      BY <3>4, <3>5 DEF t, t1, ins
  <2>6. /\ x = h.cursor_x => <<a, b>>[x - h.cursor_x + 1] = a
        /\ x = h.cursor_x + 1 => <<a, b>>[x - h.cursor_x + 1] = b
        /\ x = h.cursor_x + 1 => <<b>>[x - first.cursor_x + 1] = b
    <3>1. /\ x = h.cursor_x => x - h.cursor_x + 1 = 1
          /\ x = h.cursor_x + 1 => x - h.cursor_x + 1 = 2 /\ x - first.cursor_x + 1 = 1
      BY <1>1, <1>5, <2>2
    <3> QED
      BY <3>1
  <2>7. CASE x < h.cursor_x
    BY <1>1, <1>5, <2>2, <2>5, <2>7 DEF RowPut
  <2>8. CASE x = h.cursor_x
    BY <1>1, <1>5, <2>2, <2>5, <2>6, <2>8 DEF RowPut
  <2>9. CASE x = h.cursor_x + 1
    BY <1>1, <1>5, <2>2, <2>3, <2>6, <2>9 DEF RowPut
  <2>10. CASE x > h.cursor_x + 1 /\ "INSERT" \in h.mode_flags /\ x < h.width
    <3>1. x - 1 \in Cols /\ x - 1 > h.cursor_x /\ x - 1 < h.width /\ (x - 1) - 1 = x - 2
      BY <1>1, <2>2, <2>10 DEF Cols
    <3>2. TextAt(first, first.cursor_y, x - 1) = TextAt(h, h.cursor_y, x - 2)
      BY <2>5, <2>10, <3>1
    <3> QED
      BY <1>1, <1>5, <2>2, <2>10, <3>2 DEF RowPut
  <2>11. CASE x > h.cursor_x + 1 /\ ~("INSERT" \in h.mode_flags /\ x < h.width)
    BY <1>1, <1>5, <2>2, <2>5, <2>11 DEF RowPut
  <2> QED
    BY <1>1, <2>2, <2>7, <2>8, <2>9, <2>10, <2>11
<1>9. then.text = [h.text EXCEPT ![l] = RowPut(h, <<a, b>>, 2)]
  BY <1>1, <1>5, <1>7, <1>8
<1> QED
  BY <1>4, <1>9 DEF both, first

\* A run that starts beyond the last column of a terminal that wraps is put at the
\* start of the next line.
LEMMA WrapsFirst ==
  ASSUME NEW g, Good(g), g.cursor_x >= g.width, "NOEOLWRAP" \notin g.mode_flags, NEW run
  PROVE  /\ Good(next_line(g)) /\ next_line(g).cursor_x = 0
         /\ normal_input(g, run) = normal_input(next_line(g), run)
<1> DEFINE h == next_line(g)
<1>1. Good(lf(g)) /\ Good(h)
  BY LfGood, NextLineGood
<1>2. h.cursor_x = 0
  BY <1>1 DEF next_line, cr, move_cursor, changed_line, Good, Base, GTermType
<1>3. h.mode_flags = g.mode_flags
  <2>1. \A k, x, y : move_cursor(k, x, y).mode_flags = k.mode_flags
    BY DEF move_cursor, changed_line
  <2>2. scroll_region(g, g.scroll_top, g.scroll_bot, 1).mode_flags = g.mode_flags
    BY DEF scroll_region
  <2>3. lf(g).mode_flags = g.mode_flags
    BY <2>1, <2>2 DEF lf
  <2> QED
    BY <2>1, <2>3 DEF next_line, cr
<1>4. ~(g.cursor_x < g.width) /\ h.cursor_x < h.width
  BY <1>1, <1>2, GoodFacts
<1> HIDE DEF h
<1>5. normal_input(g, run) = normal_input(h, run)
  BY <1>3, <1>4 DEF normal_input, h
<1> QED
  BY <1>1, <1>2, <1>5 DEF h

\* The host's output may be cut into any reads: in every state of a terminal that
\* wraps, except with the cursor on the last column, two characters leave the text
\* they leave one by one, with and without insert mode.
THEOREM RunsMayBeCut == Spec => []WrappedRunsAreOneByOne
<1>1. IInv => WrappedRunsAreOneByOne
  <2>1. SUFFICES ASSUME Good(gt), NEW a \in Chars \cup {Space}, NEW b \in Chars \cup {Space},
                        "NOEOLWRAP" \notin gt.mode_flags, gt.cursor_x # gt.width - 1
                 PROVE  normal_input(gt, <<a, b>>).text
                          = normal_input(normal_input(gt, <<a>>), <<b>>).text
    BY GoodIsFit DEF IInv, WrappedRunsAreOneByOne
  <2>2. gt.cursor_x \in Nat /\ gt.width \in 2 .. GT_MAXWIDTH - 1
    BY <2>1, GoodFacts
  <2>3. CASE gt.cursor_x < gt.width - 1
    BY <2>1, <2>3, PairOneByOne
  <2>4. CASE gt.cursor_x >= gt.width
    <3> DEFINE h == next_line(gt)
    <3>1. /\ Good(h) /\ h.cursor_x = 0
          /\ normal_input(gt, <<a, b>>) = normal_input(h, <<a, b>>)
          /\ normal_input(gt, <<a>>) = normal_input(h, <<a>>)
      BY <2>1, <2>4, WrapsFirst
    <3>2. h.cursor_x < h.width - 1
      BY <3>1, GoodFacts
    <3> HIDE DEF h
    <3> QED
      BY <2>1, <3>1, <3>2, PairOneByOne
  <2> QED
    BY <2>1, <2>2, <2>3, <2>4
<1> QED
  BY <1>1, Invariant, PTL

----------------------------------------------------------------------------
(* The terminal implements the screen.  The specification of the screen is  *)
(* GTermDisplay read with worked for in_input, which makes it a copy of     *)
(* every method; the first lemmas say that the copies are the methods.      *)

\* move_cursor, as the specification of the screen has it, is move_cursor.
LEMMA SameMove ==
  \A g, x, y :
    /\ ScreenSpec!move_cursor(g, x, y) = move_cursor(g, x, y)
BY DEF move_cursor, changed_line, LesserOf, GreaterOf, ScreenSpec!move_cursor,
       ScreenSpec!changed_line, ScreenSpec!LesserOf, ScreenSpec!GreaterOf

\* And so on, method by method: clear_area.
LEMMA SameClear ==
  \A g, x, y, c, d :
    /\ ScreenSpec!clear_area(g, x, y, c, d) = clear_area(g, x, y, c, d)
BY DEF clear_area, ChangedLines, LesserOf, GreaterOf, Filled, BlankCell, calc_color,
       Rows, Cols, Space, Rendition, ScreenSpec!clear_area, ScreenSpec!ChangedLines,
       ScreenSpec!LesserOf, ScreenSpec!GreaterOf, ScreenSpec!Filled,
       ScreenSpec!BlankCell, ScreenSpec!calc_color, ScreenSpec!Rows,
       ScreenSpec!Cols, ScreenSpec!Space, ScreenSpec!Rendition

\* scroll_region.
LEMMA SameScroll ==
  \A g, x, y, n :
    /\ ScreenSpec!scroll_region(g, x, y, n) = scroll_region(g, x, y, n)
BY SMTT(60) DEF scroll_region, ComesRound, Takey, Filled, BlankCell, calc_color, Rows, Cols,
       Space, Rendition, ScreenSpec!scroll_region, ScreenSpec!ComesRound,
       ScreenSpec!Takey, ScreenSpec!Filled, ScreenSpec!BlankCell,
       ScreenSpec!calc_color, ScreenSpec!Rows, ScreenSpec!Cols, ScreenSpec!Space,
       ScreenSpec!Rendition

\* shift_text.
LEMMA SameShift ==
  \A g, x, y, c, n :
    /\ ScreenSpec!shift_text(g, x, y, c, n) = shift_text(g, x, y, c, n)
BY DEF shift_text, changed_line, LesserOf, GreaterOf, WithRow, TextAt, BlankCell,
       calc_color, Cols, Space, Rendition, ScreenSpec!shift_text,
       ScreenSpec!changed_line, ScreenSpec!LesserOf, ScreenSpec!GreaterOf,
       ScreenSpec!WithRow, ScreenSpec!TextAt, ScreenSpec!BlankCell,
       ScreenSpec!calc_color, ScreenSpec!Cols, ScreenSpec!Space,
       ScreenSpec!Rendition

\* The mode flags.
LEMMA SameModes ==
  \A g, x :
    /\ ScreenSpec!set_mode_flag(g, x) = set_mode_flag(g, x)
    /\ ScreenSpec!clear_mode_flag(g, x) = clear_mode_flag(g, x)
BY DEF set_mode_flag, clear_mode_flag, ScreenSpec!set_mode_flag,
       ScreenSpec!clear_mode_flag

\* The methods that move the cursor.
LEMMA SameCursorOps ==
  \A g, p, q :
    /\ ScreenSpec!cr(g) = cr(g) /\ ScreenSpec!lf(g) = lf(g)
    /\ ScreenSpec!next_line(g) = next_line(g) /\ ScreenSpec!ff(g) = ff(g)
    /\ ScreenSpec!tab(g) = tab(g) /\ ScreenSpec!bs(g) = bs(g)
    /\ ScreenSpec!save_cursor(g) = save_cursor(g)
    /\ ScreenSpec!restore_cursor(g) = restore_cursor(g)
    /\ ScreenSpec!set_tab(g) = set_tab(g) /\ ScreenSpec!index_down(g) = index_down(g)
    /\ ScreenSpec!index_up(g) = index_up(g)
    /\ ScreenSpec!clear_tab(g, p) = clear_tab(g, p)
    /\ ScreenSpec!cursor_left(g, p) = cursor_left(g, p)
    /\ ScreenSpec!cursor_right(g, p) = cursor_right(g, p)
    /\ ScreenSpec!cursor_up(g, p) = cursor_up(g, p)
    /\ ScreenSpec!cursor_down(g, p) = cursor_down(g, p)
    /\ ScreenSpec!cursor_position(g, p, q) = cursor_position(g, p, q)
    /\ ScreenSpec!vt52_cursor(g, p, q) = vt52_cursor(g, p, q)
BY SameMove, SameClear, SameScroll
   DEF cr, lf, next_line, ff, NextTab, tab, bs, save_cursor, restore_cursor,
       set_tab, index_down, index_up, clear_tab, cursor_left, cursor_right,
       cursor_up, cursor_down, cursor_position, vt52_cursor, CountOf, LesserOf,
       GreaterOf, Rendition, ScreenSpec!cr, ScreenSpec!lf, ScreenSpec!next_line,
       ScreenSpec!ff, ScreenSpec!NextTab, ScreenSpec!tab, ScreenSpec!bs,
       ScreenSpec!save_cursor, ScreenSpec!restore_cursor, ScreenSpec!set_tab,
       ScreenSpec!index_down, ScreenSpec!index_up, ScreenSpec!clear_tab,
       ScreenSpec!cursor_left, ScreenSpec!cursor_right, ScreenSpec!cursor_up,
       ScreenSpec!cursor_down, ScreenSpec!cursor_position, ScreenSpec!vt52_cursor,
       ScreenSpec!CountOf, ScreenSpec!LesserOf, ScreenSpec!GreaterOf,
       ScreenSpec!Rendition

\* normal_input, once the cursor is where the n characters go, in h.
PutFirst(g, run, h, n) ==
  LET last == h.cursor_x + n - 1
      end == IF "INSERT" \in g.mode_flags THEN h.width - 1 ELSE last
      new == [x \in h.cursor_x .. end |->
                IF x <= last THEN <<run[x - h.cursor_x + 1], calc_color(h)>>
                ELSE TextAt(h, h.cursor_y, x - n)]
  IN  [changed_line(h, h.cursor_y, h.cursor_x, end) EXCEPT
         !.text = WithRow(h, h.cursor_y, h.cursor_x .. end, new),
         !.cursor_x = last + 1]

PutAt(g, run, h) == PutFirst(g, run, h, LesserOf(Len(run), h.width - h.cursor_x))

\* The GTerm after the cursor has wrapped, if it must; line is g on its next line.
Home(g, line) ==
 IF g.cursor_x < g.width THEN g
           ELSE IF "NOEOLWRAP" \in g.mode_flags
           THEN [g EXCEPT !.cursor_x = g.width - 1]
           ELSE line

LEMMA SameNormalInput ==
  \A g, run : ScreenSpec!normal_input(g, run) = normal_input(g, run)
<1> TAKE g, run
<1>1. next_line(g) = ScreenSpec!next_line(g)
  BY SameCursorOps
<1>4. normal_input(g, run) = PutAt(g, run, Home(g, next_line(g)))
  BY DEF normal_input, PutAt, PutFirst, Home
<1>5. ScreenSpec!normal_input(g, run) = PutAt(g, run, Home(g, ScreenSpec!next_line(g)))
  BY 
   DEF LesserOf, changed_line, GreaterOf, WithRow, TextAt, calc_color,
       Cols, Rendition, ScreenSpec!normal_input, ScreenSpec!LesserOf,
       ScreenSpec!changed_line, ScreenSpec!GreaterOf, ScreenSpec!WithRow,
       ScreenSpec!TextAt, ScreenSpec!calc_color, ScreenSpec!Cols,
       ScreenSpec!Rendition, PutAt, PutFirst, Home
<1> QED
  BY <1>1, <1>4, <1>5

\* reset, in which the modes are those of the source.
LEMMA SameReset ==
  \A g :
    /\ ScreenSpec!reset(g) = reset(g)
BY SameMove, SameClear, SameModes
   DEF reset, Rows, ScreenSpec!reset, ScreenSpec!Rows

\* screen_align.
LEMMA SameAlign ==
  \A g :
    /\ ScreenSpec!screen_align(g) = screen_align(g)
BY DEF screen_align, ChangedLines, LesserOf, GreaterOf, Filled, Rows, Cols,
       AlignChar, ScreenSpec!screen_align, ScreenSpec!ChangedLines,
       ScreenSpec!LesserOf, ScreenSpec!GreaterOf, ScreenSpec!Filled,
       ScreenSpec!Rows, ScreenSpec!Cols, ScreenSpec!AlignChar

\* Deleting, inserting and erasing.
LEMMA SameCharOps ==
  \A g, p :
    /\ ScreenSpec!delete_char(g, p) = delete_char(g, p)
    /\ ScreenSpec!insert_char(g, p) = insert_char(g, p)
    /\ ScreenSpec!erase_char(g, p) = erase_char(g, p)
    /\ ScreenSpec!delete_line(g, p) = delete_line(g, p)
    /\ ScreenSpec!insert_line(g, p) = insert_line(g, p)
    /\ ScreenSpec!erase_line(g, p) = erase_line(g, p)
BY SameClear, SameShift, SameScroll
   DEF delete_char, insert_char, erase_char, delete_line, insert_line, erase_line,
       CountOf, LesserOf, ScreenSpec!delete_char, ScreenSpec!insert_char,
       ScreenSpec!erase_char, ScreenSpec!delete_line, ScreenSpec!insert_line,
       ScreenSpec!erase_line, ScreenSpec!CountOf, ScreenSpec!LesserOf

\* erase_display.
LEMMA SameEraseDisplay ==
  \A g, p :
    /\ ScreenSpec!erase_display(g, p) = erase_display(g, p)
BY SameClear
   DEF erase_display, ScreenSpec!erase_display

\* Colours, modes and margins.
LEMMA SameModeOps ==
  \A g, p, q :
    /\ ScreenSpec!set_colors(g, p, q) = set_colors(g, p, q)
    /\ ScreenSpec!set_mode(g, p) = set_mode(g, p)
    /\ ScreenSpec!clear_mode(g, p) = clear_mode(g, p)
    /\ ScreenSpec!set_margins(g, p, q) = set_margins(g, p, q)
BY SameMove, SameModes
   DEF set_colors, set_mode, clear_mode, set_margins, CountOf, Rendition,
       ScreenSpec!set_colors, ScreenSpec!set_mode, ScreenSpec!clear_mode,
       ScreenSpec!set_margins, ScreenSpec!CountOf, ScreenSpec!Rendition

\* The operations of the host are the same.
LEMMA SameHostOutput == HostOutput => ScreenSpec!HostOutput
<1>1. ScreenSpec!Runs = Runs /\ ScreenSpec!Cols = Cols
  BY DEF Runs, Space, Cols, ScreenSpec!Runs, ScreenSpec!Space, ScreenSpec!Cols
<1>2. \A op, g : ScreenSpec!Host(op, g) <=> Host(op, g)
  BY DEF Host, RowInStore, Rows, ScreenSpec!Host, ScreenSpec!RowInStore, ScreenSpec!Rows
<1>3. \A run : ScreenSpec!Host("normal_input", ScreenSpec!normal_input(gt, run))
           <=> Host("normal_input", normal_input(gt, run))
  BY <1>1, <1>2, SameNormalInput
<1>4. /\ ScreenSpec!Host("cr", ScreenSpec!cr(gt))
           <=> Host("cr", cr(gt))
      /\ ScreenSpec!Host("lf", ScreenSpec!lf(gt))
           <=> Host("lf", lf(gt))
      /\ ScreenSpec!Host("ff", ScreenSpec!ff(gt))
           <=> Host("ff", ff(gt))
      /\ ScreenSpec!Host("tab", ScreenSpec!tab(gt))
           <=> Host("tab", tab(gt))
      /\ ScreenSpec!Host("bs", ScreenSpec!bs(gt))
           <=> Host("bs", bs(gt))
      /\ ScreenSpec!Host("save_cursor", ScreenSpec!save_cursor(gt))
           <=> Host("save_cursor", save_cursor(gt))
      /\ ScreenSpec!Host("restore_cursor", ScreenSpec!restore_cursor(gt))
           <=> Host("restore_cursor", restore_cursor(gt))
      /\ ScreenSpec!Host("set_tab", ScreenSpec!set_tab(gt))
           <=> Host("set_tab", set_tab(gt))
      /\ ScreenSpec!Host("index_down", ScreenSpec!index_down(gt))
           <=> Host("index_down", index_down(gt))
      /\ ScreenSpec!Host("index_up", ScreenSpec!index_up(gt))
           <=> Host("index_up", index_up(gt))
      /\ ScreenSpec!Host("next_line", ScreenSpec!next_line(gt))
           <=> Host("next_line", next_line(gt))
  BY <1>1, <1>2, SameCursorOps
<1>5. /\ ScreenSpec!Host("reset", ScreenSpec!reset(gt))
           <=> Host("reset", reset(gt))
      /\ ScreenSpec!Host("screen_align", ScreenSpec!screen_align(gt))
           <=> Host("screen_align", screen_align(gt))
  BY <1>1, <1>2, SameReset, SameAlign
<1>6. \A p :
      /\ ScreenSpec!Host("clear_tab", ScreenSpec!clear_tab(gt, p))
           <=> Host("clear_tab", clear_tab(gt, p))
      /\ ScreenSpec!Host("cursor_left", ScreenSpec!cursor_left(gt, p))
           <=> Host("cursor_left", cursor_left(gt, p))
      /\ ScreenSpec!Host("cursor_right", ScreenSpec!cursor_right(gt, p))
           <=> Host("cursor_right", cursor_right(gt, p))
      /\ ScreenSpec!Host("cursor_up", ScreenSpec!cursor_up(gt, p))
           <=> Host("cursor_up", cursor_up(gt, p))
      /\ ScreenSpec!Host("cursor_down", ScreenSpec!cursor_down(gt, p))
           <=> Host("cursor_down", cursor_down(gt, p))
  BY <1>1, <1>2, SameCursorOps
<1>7. \A p :
      /\ ScreenSpec!Host("delete_char", ScreenSpec!delete_char(gt, p))
           <=> Host("delete_char", delete_char(gt, p))
      /\ ScreenSpec!Host("insert_char", ScreenSpec!insert_char(gt, p))
           <=> Host("insert_char", insert_char(gt, p))
      /\ ScreenSpec!Host("erase_char", ScreenSpec!erase_char(gt, p))
           <=> Host("erase_char", erase_char(gt, p))
      /\ ScreenSpec!Host("delete_line", ScreenSpec!delete_line(gt, p))
           <=> Host("delete_line", delete_line(gt, p))
      /\ ScreenSpec!Host("insert_line", ScreenSpec!insert_line(gt, p))
           <=> Host("insert_line", insert_line(gt, p))
      /\ ScreenSpec!Host("erase_line", ScreenSpec!erase_line(gt, p))
           <=> Host("erase_line", erase_line(gt, p))
      /\ ScreenSpec!Host("erase_display", ScreenSpec!erase_display(gt, p))
           <=> Host("erase_display", erase_display(gt, p))
  BY <1>1, <1>2, SameCharOps, SameEraseDisplay
<1>8. \A p, q :
      /\ ScreenSpec!Host("cursor_position", ScreenSpec!cursor_position(gt, p, q))
           <=> Host("cursor_position", cursor_position(gt, p, q))
      /\ ScreenSpec!Host("vt52_cursor", ScreenSpec!vt52_cursor(gt, p, q))
           <=> Host("vt52_cursor", vt52_cursor(gt, p, q))
      /\ ScreenSpec!Host("set_margins", ScreenSpec!set_margins(gt, p, q))
           <=> Host("set_margins", set_margins(gt, p, q))
      /\ ScreenSpec!Host("set_colors", ScreenSpec!set_colors(gt, p, q))
           <=> Host("set_colors", set_colors(gt, p, q))
      /\ ScreenSpec!Host("set_mode", ScreenSpec!set_mode(gt, p))
           <=> Host("set_mode", set_mode(gt, p))
      /\ ScreenSpec!Host("clear_mode", ScreenSpec!clear_mode(gt, p))
           <=> Host("clear_mode", clear_mode(gt, p))
  BY <1>1, <1>2, SameCursorOps, SameModeOps
<1>9. /\ ScreenSpec!Host("keypad_application", ScreenSpec!set_mode_flag(gt, {"KEYAPPMODE"}))
           <=> Host("keypad_application", set_mode_flag(gt, {"KEYAPPMODE"}))
      /\ ScreenSpec!Host("keypad_numeric", ScreenSpec!clear_mode_flag(gt, {"KEYAPPMODE"}))
           <=> Host("keypad_numeric", clear_mode_flag(gt, {"KEYAPPMODE"}))
  BY <1>1, <1>2, SameModes
<1> QED
  BY <1>1, <1>3, <1>4, <1>5, <1>6, <1>7, <1>8, <1>9, ZenonT(60)
     DEF HostOutput, ScreenSpec!HostOutput

\* update_changes.
LEMMA SameUpdate ==
  \A g, h : ScreenSpec!UpdateChanges(g, h) <=> UpdateChanges(g, h)
BY DEF UpdateChanges, Painted, Moved, AsksToMove, Region, Dirty, PaintedCell, SameRun, TextAt,
       LesserOf, GreaterOf, Space, DrawnCursor, DrawsInStore, RowInStore, Rows,
       ScreenSpec!DrawsInStore, ScreenSpec!RowInStore, ScreenSpec!Rows,
       ScreenSpec!UpdateChanges, ScreenSpec!Painted, ScreenSpec!Moved, ScreenSpec!AsksToMove,
       ScreenSpec!Region, ScreenSpec!Dirty, ScreenSpec!PaintedCell, ScreenSpec!SameRun,
       ScreenSpec!TextAt, ScreenSpec!LesserOf, ScreenSpec!GreaterOf, ScreenSpec!Space,
       ScreenSpec!DrawnCursor

LEMMA SameClass ==
  \A g, x, y, w, h :
    /\ ScreenSpec!AfterUpdate(g) = AfterUpdate(g)
    /\ ScreenSpec!UpdatesAtEnd(g) <=> UpdatesAtEnd(g)
    /\ ScreenSpec!RowInStore(g) <=> RowInStore(g)
    /\ ScreenSpec!Exposed(g, x, y, w, h) = Exposed(g, x, y, w, h)
BY DEF AfterUpdate, UpdatesAtEnd, Exposed, ChangedLines, LesserOf, GreaterOf, Rows,
       RowInStore, ScreenSpec!RowInStore, ScreenSpec!AfterUpdate, ScreenSpec!UpdatesAtEnd, ScreenSpec!Exposed,
       ScreenSpec!ChangedLines, ScreenSpec!LesserOf, ScreenSpec!GreaterOf, ScreenSpec!Rows

\* And so is the constructor.
LEMMA SameInit ==
  ScreenSpec!GTermInit <=> GTermInit
BY SameReset, SameModes
   DEF GTermInit, NewGTerm, Rows, Cols, Uninit, ScreenSpec!GTermInit,
       ScreenSpec!NewGTerm, ScreenSpec!Rows, ScreenSpec!Cols, ScreenSpec!Uninit

----------------------------------------------------------------------------
(* What the parser makes of bytes                                          *)

\* The parser is a record whose parameters are numbers a host may send.
ParserOK(p) ==
  \E st, q : \E n \in Nat, f \in [0 .. MAXPARAM - 1 -> Params] :
    p = [current_state |-> st, nparam |-> n, param |-> f, q_mode |-> q]

\* A turn of the loop keeps it so, for a host whose numbers are those.
LEMMA TurnOK ==
  ASSUME NEW p, ParserOK(p), NEW b, NEW h, NEW z, z = Turn(p, b, h), Counted(z),
         0 \in Params
  PROVE  ParserOK(z)
<1>1. PICK st, q : \E n \in Nat, f \in [0 .. MAXPARAM - 1 -> Params] :
             p = [current_state |-> st, nparam |-> n, param |-> f, q_mode |-> q]
  BY DEF ParserOK
<1>2. PICK n \in Nat, f \in [0 .. MAXPARAM - 1 -> Params] :
             p = [current_state |-> st, nparam |-> n, param |-> f, q_mode |-> q]
  BY <1>1
<1>3. PICK to : to = EntryFor(p.current_state, b)[3]
  OBVIOUS
<1> DEFINE In(s) == [current_state |-> s, nparam |-> n, param |-> f, q_mode |-> q]
<1>4. [p EXCEPT !.current_state = EntryFor(p.current_state, b)[3]] = In(to)
  BY <1>2, <1>3
<1> DEFINE e0 == [p EXCEPT !.current_state = EntryFor(p.current_state, b)[3]]
<1>14. \/ z = clear_param(e0)
      \/ z = [e0 EXCEPT !.q_mode = 1]
      \/ z = param_digit(e0, b)
      \/ z = next_param(e0)
      \/ z = vt52_cursory(e0, b, h)
      \/ z = [e0 EXCEPT !.current_state = "normal"]
      \/ z = [e0 EXCEPT !.current_state = "vt52_normal"]
      \/ z = e0
  BY DEF Turn
<1>15. e0 = In(to)
  BY <1>4
<1> HIDE DEF e0
<1>5. \/ z = clear_param(In(to))
      \/ z = [In(to) EXCEPT !.q_mode = 1]
      \/ z = param_digit(In(to), b)
      \/ z = next_param(In(to))
      \/ z = vt52_cursory(In(to), b, h)
      \/ z = [In(to) EXCEPT !.current_state = "normal"]
      \/ z = [In(to) EXCEPT !.current_state = "vt52_normal"]
      \/ z = In(to)
  BY <1>14, <1>15
<1>6. MAXPARAM \in Nat /\ MAXPARAM >= 1
  BY ParamCountAssumption
<1>7. \A s, m, e, r : z = [current_state |-> s, nparam |-> m, param |-> e, q_mode |-> r]
                        /\ m \in Nat /\ DOMAIN e = 0 .. MAXPARAM - 1
                        /\ e = [k \in DOMAIN e |-> e[k]]
                        => ParserOK(z)
  <2>1. TAKE s, m, e, r
  <2>2. HAVE /\ z = [current_state |-> s, nparam |-> m, param |-> e, q_mode |-> r]
             /\ m \in Nat /\ DOMAIN e = 0 .. MAXPARAM - 1
             /\ e = [k \in DOMAIN e |-> e[k]]
  <2>3. z.nparam = m /\ z.param = e
    BY <2>2
  <2>4. \A k \in 0 .. MAXPARAM - 1 : e[k] \in Params
    BY <2>2, <2>3 DEF Counted
  <2>5. m \in Nat /\ e \in [0 .. MAXPARAM - 1 -> Params]
    BY <1>6, <2>2, <2>4
  <2> QED
    BY <2>2, <2>5 DEF ParserOK
<1>8. CASE z = clear_param(In(to))
  <2>1. PICK e : e = [k \in 0 .. MAXPARAM - 1 |-> 0]
    OBVIOUS
  <2>2. z = [current_state |-> to, nparam |-> 0, param |-> e, q_mode |-> 0]
    BY <1>8, <2>1 DEF clear_param
  <2>3. DOMAIN e = 0 .. MAXPARAM - 1 /\ e = [k \in DOMAIN e |-> e[k]]
    BY <2>1
  <2> QED
    BY <1>6, <1>7, <2>2, <2>3
<1>9. CASE z = [In(to) EXCEPT !.q_mode = 1]
  BY <1>6, <1>7, <1>9
<1>10. CASE z = param_digit(In(to), b)
  <2>1. PICK e : e = [f EXCEPT ![n] = @ * 10 + b - 48]
    OBVIOUS
  <2>2. z = [current_state |-> to, nparam |-> n, param |-> e, q_mode |-> q]
    BY <1>10, <2>1 DEF param_digit
  <2>3. DOMAIN e = 0 .. MAXPARAM - 1 /\ e = [k \in DOMAIN e |-> e[k]]
    BY <2>1
  <2> QED
    BY <1>6, <1>7, <2>2, <2>3
<1>11. CASE z = next_param(In(to))
  <2>1. z = [current_state |-> to, nparam |-> n + 1, param |-> f, q_mode |-> q]
    BY <1>11 DEF next_param
  <2>2. DOMAIN f = 0 .. MAXPARAM - 1 /\ f = [k \in DOMAIN f |-> f[k]] /\ n + 1 \in Nat
    BY <1>2
  <2> QED
    BY <1>7, <2>1, <2>2
<1>12. CASE z = vt52_cursory(In(to), b, h)
  <2>1. PICK y : vt52_cursory(In(to), b, h) = [In(to) EXCEPT !.param[0] = y]
    BY DEF vt52_cursory
  <2>2. PICK e : e = [f EXCEPT ![0] = y]
    OBVIOUS
  <2>3. z = [current_state |-> to, nparam |-> n, param |-> e, q_mode |-> q]
    BY <1>12, <2>1, <2>2
  <2>4. DOMAIN e = 0 .. MAXPARAM - 1 /\ e = [k \in DOMAIN e |-> e[k]]
    BY <1>2, <2>2
  <2> QED
    BY <1>2, <1>7, <2>3, <2>4
<1>13. CASE \/ z = [In(to) EXCEPT !.current_state = "normal"]
            \/ z = [In(to) EXCEPT !.current_state = "vt52_normal"]
            \/ z = In(to)
  BY <1>6, <1>7, <1>13
<1> QED
  BY <1>5, <1>8, <1>9, <1>10, <1>11, <1>12, <1>13

\* The numbers of modes.
LEMMA ModeFlagIs ==
  ASSUME NEW n, ModeFlag(n) # "none"
  PROVE  ModeFlag(n) \in {"NOEOLWRAP", "CURSORAPPMODE", "CURSORRELATIVE", "INSERT",
                          "NEWLINE", "LOCALECHO", "CURSORINVISIBLE"}
BY DEF ModeFlag

\* What a method does to the screen is an operation of the host, or nothing.
LEMMA DoIs ==
  ASSUME NEW g, NEW act, NEW p, NEW b
  PROVE  \/ Do(g, act, p, b) \in {g, cr(g), lf(g), ff(g), tab(g), bs(g), save_cursor(g),
                                  restore_cursor(g), set_tab(g), index_up(g), next_line(g),
                                  reset(g), screen_align(g)}
         \/ Do(g, act, p, b) \in {set_mode_flag(g, {"KEYAPPMODE"}),
                                  clear_mode_flag(g, {"KEYAPPMODE"})}
         \/ \E m \in {p.param[0]} :
              Do(g, act, p, b) \in
                {clear_tab(g, m), cursor_left(g, m), cursor_right(g, m), cursor_up(g, m),
                 cursor_down(g, m), delete_char(g, m), insert_char(g, m), erase_char(g, m),
                 delete_line(g, m), insert_line(g, m), erase_display(g, m), erase_line(g, m)}
         \/ Do(g, act, p, b) = cursor_position(g, p.param[0], p.param[1])
         \/ Do(g, act, p, b) = vt52_cursor(g, p.param[0], b - 32)
         \/ /\ act = "set_colors"
            /\ Do(g, act, p, b) = set_colors(g, ColorOf[Selected(g, p)[1]], Selected(g, p)[2])
         \/ /\ ModeFlag(ModeNumber(p)) # "none"
            /\ Do(g, act, p, b) \in {set_mode(g, ModeFlag(ModeNumber(p))),
                                     clear_mode(g, ModeFlag(ModeNumber(p)))}
<1>1. CASE act = "set_colors"
  BY <1>1 DEF Do
<1>2. CASE act # "set_colors"
  BY <1>2 DEF Do
<1> QED
  BY <1>1, <1>2

\* vt52_cursorx clamps the byte to a column.
LEMMA ByteIsColumn ==
  ASSUME NEW g, Good(g), NEW row, NEW b \in 0 .. 255
  PROVE  \E col \in Cols : vt52_cursor(g, row, b - 32) = vt52_cursor(g, row, col)
<1> DEFINE col == LesserOf(CountOf(b - 32), g.width - 1)
<1>1. g.width \in 2 .. GT_MAXWIDTH - 1 /\ GT_MAXWIDTH \in Nat
  BY GoodFacts
<1>2. col \in 1 .. g.width - 1
  BY <1>1 DEF LesserOf, CountOf
<1>3. col \in Cols /\ LesserOf(CountOf(col), g.width - 1) = col
  <2> HIDE DEF col
  <2> QED
    BY <1>1, <1>2 DEF LesserOf, CountOf, Cols
<1> QED
  BY <1>3 DEF vt52_cursor

\* What holds of the first parameter and is kept from each to the next holds of all.
LEMMA UpTo ==
  ASSUME NEW n \in Nat, NEW B, 0 \in B, \A k \in 1 .. n : k - 1 \in B => k \in B
  PROVE  \A k \in 0 .. n : k \in B
<1> DEFINE S == {k \in 0 .. n : k \notin B}
<1>1. SUFFICES ASSUME S # {} PROVE FALSE
  OBVIOUS
<1>2. S \in SUBSET Nat
  OBVIOUS
<1>3. PICK k \in S : \A j \in S : k <= j
  BY <1>1, <1>2, LeastOf
<1>4. k \in 1 .. n /\ k - 1 \in 0 .. n /\ ~(k <= k - 1)
  BY <1>3
<1> QED
  BY <1>3, <1>4

\* What the parameters up to the one before m have selected, from s on.
IsSelection(f, s, param, m) ==
  f = [k \in -1 .. m - 1 |-> IF k = -1 THEN s ELSE Select(f[k - 1], param[k])]

\* The recursive function that Selected is written with exists.
LEMMA SelectionExists ==
  ASSUME NEW s, NEW param, NEW n \in Nat
  PROVE  \E f : IsSelection(f, s, param, n)
<1> DEFINE B == {m \in Nat : \E f : IsSelection(f, s, param, m)}
<1>1. 0 \in B
  <2> DEFINE f == [k \in -1 .. 0 - 1 |-> s]
  <2>1. f = [k \in -1 .. 0 - 1 |-> IF k = -1 THEN s ELSE Select(f[k - 1], param[k])]
    OBVIOUS
  <2> QED
    BY <2>1 DEF IsSelection
<1>2. ASSUME NEW m \in 1 .. n, m - 1 \in B
      PROVE  m \in B
  <2>1. m \in Nat /\ m >= 1
    OBVIOUS
  <2>2. PICK f : IsSelection(f, s, param, m - 1)
    BY <1>2
  <2>3. \A k \in -1 .. m - 2 : f[k] = IF k = -1 THEN s ELSE Select(f[k - 1], param[k])
    BY <2>1, <2>2 DEF IsSelection
  <2> DEFINE h == [k \in -1 .. m - 1 |-> IF k = m - 1 THEN Select(f[m - 2], param[m - 1])
                                         ELSE f[k]]
  <2>4. ASSUME NEW k \in -1 .. m - 1
        PROVE  h[k] = IF k = -1 THEN s ELSE Select(h[k - 1], param[k])
    <3>1. CASE k = m - 1
      <4>1. m - 1 - 1 = m - 2 /\ m - 2 \in -1 .. m - 1 /\ m - 2 # m - 1 /\ m - 1 # -1
        BY <2>1
      <4>2. h[k] = Select(f[m - 2], param[m - 1]) /\ h[m - 2] = f[m - 2]
        BY <3>1, <4>1
      <4> QED
        BY <3>1, <4>1, <4>2
    <3>2. CASE k # m - 1
      <4>1. k \in -1 .. m - 2 /\ (k # -1 => k - 1 \in -1 .. m - 1 /\ k - 1 # m - 1)
        BY <2>1, <3>2
      <4> QED
        BY <2>1, <2>3, <3>2, <4>1
    <3> QED
      BY <3>1, <3>2
  <2>5. h = [k \in -1 .. m - 1 |-> h[k]]
    OBVIOUS
  <2> HIDE DEF h
  <2>6. [k \in -1 .. m - 1 |-> h[k]] =
          [k \in -1 .. m - 1 |-> IF k = -1 THEN s ELSE Select(h[k - 1], param[k])]
    BY <2>4
  <2>7. IsSelection(h, s, param, m)
    BY <2>5, <2>6 DEF IsSelection
  <2> QED
    BY <2>1, <2>7
<1> HIDE DEF B
<1>3. n \in B
  BY <1>1, <1>2, UpTo
<1> QED
  BY <1>3 DEF B

\* The colours and renditions that a list of numbers selects are among those named.
LEMMA SelectedIs ==
  ASSUME Covered, NEW g, g.color \in Colors, NEW p, ParserOK(p), p.nparam < MAXPARAM
  PROVE  /\ ColorOf[Selected(g, p)[1]] \in Colors
         /\ Selected(g, p)[2] \in SUBSET Renditions
<1>1. p.nparam \in Nat /\ p.param \in [0 .. MAXPARAM - 1 -> Params]
  BY DEF ParserOK
<1>2. MAXPARAM \in Nat
  BY ParamCountAssumption
<1>3. PICK n \in Nat : n = p.nparam /\ n + 1 - 1 = n /\ n < MAXPARAM
  BY <1>1, <1>2
<1>4. PICK s : s = <<CHOOSE c \in DOMAIN ColorOf : ColorOf[c] = g.color, {}>>
  OBVIOUS
<1> DEFINE f == CHOOSE f : f = [k \in -1 .. p.nparam |->
                  IF k = -1 THEN <<CHOOSE c \in DOMAIN ColorOf : ColorOf[c] = g.color, {}>>
                  ELSE Select(f[k - 1], p.param[k])]
           All == (DOMAIN ColorOf) \X SUBSET Renditions
<1>5. \E e : e = [k \in -1 .. p.nparam |->
                  IF k = -1 THEN <<CHOOSE c \in DOMAIN ColorOf : ColorOf[c] = g.color, {}>>
                  ELSE Select(e[k - 1], p.param[k])]
  <2>1. PICK e : IsSelection(e, s, p.param, n + 1)
    BY SelectionExists
  <2>2. e = [k \in -1 .. p.nparam |->
                  IF k = -1 THEN s ELSE Select(e[k - 1], p.param[k])]
    BY <1>3, <2>1 DEF IsSelection
  <2> QED
    BY <1>4, <2>2, Zenon
<1>6. f = [k \in -1 .. p.nparam |->
                  IF k = -1 THEN <<CHOOSE c \in DOMAIN ColorOf : ColorOf[c] = g.color, {}>>
                  ELSE Select(f[k - 1], p.param[k])]
  BY <1>5, Zenon
<1>7. Selected(g, p) = f[p.nparam]
  BY DEF Selected
<1> HIDE DEF f
<1>8. f = [k \in -1 .. n |-> IF k = -1 THEN s ELSE Select(f[k - 1], p.param[k])]
  BY <1>3, <1>4, <1>6, Zenon
<1>9. s \in All
  <2>1. \E c \in DOMAIN ColorOf : ColorOf[c] = g.color
    BY DEF Covered
  <2>2. (CHOOSE c \in DOMAIN ColorOf : ColorOf[c] = g.color) \in DOMAIN ColorOf
    BY <2>1, Zenon
  <2>3. PICK c \in DOMAIN ColorOf : s = <<c, {}>>
    BY <1>4, <2>2, Zenon
  <2> QED
    BY <2>3
<1>10. \A t \in All, m \in Params : Select(t, m) \in All
  <2>1. ASSUME NEW t \in All, NEW m \in Params PROVE Select(t, m) \in All
    <3>1. t = <<t[1], t[2]>> /\ t[1] \in DOMAIN ColorOf /\ t[2] \in SUBSET Renditions
      OBVIOUS
    <3> QED
      BY <3>1 DEF Covered
  <2> QED
    BY <2>1
<1> HIDE DEF All
<1> DEFINE B == {k \in Nat : f[k] \in All}
<1>11. 0 \in B
  <2>1. f[-1] = s
    BY <1>8
  <2>2. f[0] = Select(f[-1], p.param[0])
    <3>1. 0 \in -1 .. n /\ 0 # -1 /\ 0 - 1 = -1
      OBVIOUS
    <3> QED
      BY <1>8, <3>1
  <2>3. p.param[0] \in Params
    BY <1>1, <1>2, <1>3
  <2>4. Select(f[-1], p.param[0]) \in All
    BY <1>9, <1>10, <2>1, <2>3
  <2>5. f[0] \in All
    BY <2>2, <2>4, Zenon
  <2> QED
    BY <2>5
<1>12. ASSUME NEW k \in 1 .. n, k - 1 \in B PROVE k \in B
  <2>1. k \in -1 .. n /\ k # -1 /\ k \in 0 .. MAXPARAM - 1 /\ k \in Nat
    BY <1>2, <1>3
  <2>2. f[k] = Select(f[k - 1], p.param[k])
    BY <1>8, <2>1
  <2> QED
    BY <1>1, <1>10, <1>12, <2>1, <2>2
<1> HIDE DEF B
<1>13. n \in B
  BY <1>11, <1>12, UpTo
<1>14. Selected(g, p) \in All
  BY <1>3, <1>7, <1>13 DEF B
<1> QED
  BY <1>14 DEF All, Covered

\* A method of the screen is an operation of the host, or does nothing.
LEMMA OperationIs ==
  ASSUME Covered, Good(gt), ParserOK(ps), ~Overruns, NEW b \in 0 .. 255,
         gt' = Do(gt, Act, ps, b), Within
  PROVE  gt' = gt \/ HostOutput
<1>1. SUFFICES ASSUME gt' # gt PROVE HostOutput
  OBVIOUS
<1> DEFINE act == Act
           d == Do(gt, act, ps, b)
<1>2. gt' = d /\ d.pending_scroll \in -MaxPending .. MaxPending
  BY DEF Within
<1> HIDE DEF act, d
<1>3. \A op \in AllOps : \A g : gt' = g => Host(op, g)
  BY <1>2, GoodIsFit DEF Host, Covered
<1>4. ps.param[0] \in Params /\ ps.param[1] \in Params
  <2>1. PICK M \in Nat : M = MAXPARAM /\ M >= 2
    BY ParamCountAssumption DEF Covered
  <2>2. ps.param \in [0 .. M - 1 -> Params] /\ 0 \in 0 .. M - 1 /\ 1 \in 0 .. M - 1
    BY <2>1 DEF ParserOK
  <2> QED
    BY <2>2
<1>5. gt.color \in Colors
  BY DEF Good, Base, GTermType
<1>13. act = "set_colors" => ps.nparam < MAXPARAM
  BY ParamCountAssumption DEF act, Overruns, ParserOK
<1>6. CASE d \in {cr(gt), lf(gt), ff(gt), tab(gt), bs(gt), save_cursor(gt),
                  restore_cursor(gt), set_tab(gt), index_up(gt), next_line(gt),
                  reset(gt), screen_align(gt)}
  <2>1. \/ Host("cr", cr(gt)) \/ Host("lf", lf(gt)) \/ Host("ff", ff(gt))
        \/ Host("tab", tab(gt)) \/ Host("bs", bs(gt))
        \/ Host("save_cursor", save_cursor(gt)) \/ Host("restore_cursor", restore_cursor(gt))
        \/ Host("set_tab", set_tab(gt)) \/ Host("index_up", index_up(gt))
        \/ Host("next_line", next_line(gt)) \/ Host("reset", reset(gt))
        \/ Host("screen_align", screen_align(gt))
    BY <1>2, <1>3, <1>6 DEF AllOps
  <2> QED
    BY <2>1, Zenon DEF HostOutput
<1>7. CASE d \in {set_mode_flag(gt, {"KEYAPPMODE"}), clear_mode_flag(gt, {"KEYAPPMODE"})}
  <2>1. \/ Host("keypad_application", set_mode_flag(gt, {"KEYAPPMODE"}))
        \/ Host("keypad_numeric", clear_mode_flag(gt, {"KEYAPPMODE"}))
    BY <1>2, <1>3, <1>7 DEF AllOps
  <2> QED
    BY <2>1, Zenon DEF HostOutput
<1>8. ASSUME NEW p \in Params,
             d \in {clear_tab(gt, p), cursor_left(gt, p), cursor_right(gt, p),
                    cursor_up(gt, p), cursor_down(gt, p), delete_char(gt, p),
                    insert_char(gt, p), erase_char(gt, p), delete_line(gt, p),
                    insert_line(gt, p), erase_display(gt, p), erase_line(gt, p)}
      PROVE  HostOutput
  <2>1. \/ Host("clear_tab", clear_tab(gt, p)) \/ Host("cursor_left", cursor_left(gt, p))
        \/ Host("cursor_right", cursor_right(gt, p)) \/ Host("cursor_up", cursor_up(gt, p))
        \/ Host("cursor_down", cursor_down(gt, p)) \/ Host("delete_char", delete_char(gt, p))
        \/ Host("insert_char", insert_char(gt, p)) \/ Host("erase_char", erase_char(gt, p))
        \/ Host("delete_line", delete_line(gt, p)) \/ Host("insert_line", insert_line(gt, p))
        \/ Host("erase_display", erase_display(gt, p)) \/ Host("erase_line", erase_line(gt, p))
    BY <1>2, <1>3, <1>8 DEF AllOps
  <2> QED
    BY <2>1, Zenon DEF HostOutput
<1>9. CASE d = cursor_position(gt, ps.param[0], ps.param[1])
  <2>1. Host("cursor_position", cursor_position(gt, ps.param[0], ps.param[1]))
    BY <1>2, <1>3, <1>9 DEF AllOps
  <2> QED
    BY <1>4, <2>1, Zenon DEF HostOutput
<1>10. CASE d = vt52_cursor(gt, ps.param[0], b - 32)
  <2>1. PICK col \in Cols : d = vt52_cursor(gt, ps.param[0], col)
    BY <1>10, ByteIsColumn
  <2>2. Host("vt52_cursor", vt52_cursor(gt, ps.param[0], col))
    BY <1>2, <1>3, <2>1 DEF AllOps
  <2> QED
    BY <1>4, <2>2, Zenon DEF HostOutput
<1>11. CASE act = "set_colors" /\ d = set_colors(gt, ColorOf[Selected(gt, ps)[1]], Selected(gt, ps)[2])
  <2>1. PICK color \in Colors, flags \in SUBSET Renditions : d = set_colors(gt, color, flags)
    <3>1. /\ ColorOf[Selected(gt, ps)[1]] \in Colors
          /\ Selected(gt, ps)[2] \in SUBSET Renditions
      BY <1>5, <1>11, <1>13, SelectedIs
    <3> QED
      BY <1>11, <3>1, Zenon
  <2>2. Host("set_colors", set_colors(gt, color, flags))
    BY <1>2, <1>3, <2>1 DEF AllOps
  <2> QED
    BY <2>2, Zenon DEF HostOutput
<1>12. CASE /\ ModeFlag(ModeNumber(ps)) # "none"
            /\ d \in {set_mode(gt, ModeFlag(ModeNumber(ps))),
                      clear_mode(gt, ModeFlag(ModeNumber(ps)))}
  <2>1. PICK flag \in {"NOEOLWRAP", "CURSORAPPMODE", "CURSORRELATIVE", "INSERT",
                       "NEWLINE", "LOCALECHO", "CURSORINVISIBLE"} :
             d \in {set_mode(gt, flag), clear_mode(gt, flag)}
    BY <1>12, ModeFlagIs
  <2>2. Host("set_mode", set_mode(gt, flag)) \/ Host("clear_mode", clear_mode(gt, flag))
    BY <1>2, <1>3, <2>1 DEF AllOps
  <2> QED
    BY <2>1, <2>2, Zenon DEF HostOutput
<1> QED
  BY <1>1, <1>2, <1>4, <1>6, <1>7, <1>8, <1>9, <1>10, <1>11, <1>12, DoIs DEF d

\* What a long run leaves is what its beginning leaves, up to the end of the row.
LEMMA LongRun ==
  ASSUME NEW g, Good(g), NEW run, NEW n \in Nat, Len(run) = n,
         NEW start, NEW m \in Nat, Len(start) = m, \A k \in 1 .. m : start[k] = run[k],
         m <= n, g.width <= m
  PROVE  normal_input(g, run) = normal_input(g, start)
<1> DEFINE h == Home(g, next_line(g))
<1>1. h.width = g.width /\ g.width \in Nat /\ h.cursor_x \in Nat
  <2>1. CASE h = g
    BY <2>1, GoodFacts
  <2>2. CASE h = [g EXCEPT !.cursor_x = g.width - 1]
    <3>1. h.cursor_x = g.width - 1 /\ h.width = g.width
      BY <2>2 DEF Good, Base, GTermType
    <3> QED
      BY <3>1, GoodFacts
  <2>3. CASE h = next_line(g)
    <3>1. Good(next_line(g)) /\ SameSize(next_line(g), g)
      BY NextLineGood, LfKeepsSize
    <3> QED
      BY <2>3, <3>1, GoodFacts DEF SameSize
  <2> QED
    BY <2>1, <2>2, <2>3 DEF Home
<1> HIDE DEF h
<1> DEFINE room == h.width - h.cursor_x
           c == LesserOf(Len(run), room)
           last == h.cursor_x + c - 1
<1>4. c = LesserOf(Len(start), room) /\ c <= m /\ c \in Int
  BY <1>1 DEF LesserOf
<1>5. \A x \in Int : h.cursor_x <= x /\ x <= last => run[x - h.cursor_x + 1] = start[x - h.cursor_x + 1]
  BY <1>1, <1>4
<1>6. PutAt(g, run, h) = PutAt(g, start, h)
  <2> DEFINE end == IF "INSERT" \in g.mode_flags THEN h.width - 1 ELSE last
             new(r) == [x \in h.cursor_x .. end |->
                          IF x <= last THEN <<r[x - h.cursor_x + 1], calc_color(h)>>
                          ELSE TextAt(h, h.cursor_y, x - c)]
             z(w) == [changed_line(h, h.cursor_y, h.cursor_x, end) EXCEPT
                        !.text = WithRow(h, h.cursor_y, h.cursor_x .. end, w),
                        !.cursor_x = last + 1]
  <2>5. end \in Int
    BY <1>1, <1>4
  <2>1. new(run) = new(start)
    <3>1. \A x \in h.cursor_x .. end :
            (IF x <= last THEN <<run[x - h.cursor_x + 1], calc_color(h)>>
             ELSE TextAt(h, h.cursor_y, x - c))
            = IF x <= last THEN <<start[x - h.cursor_x + 1], calc_color(h)>>
              ELSE TextAt(h, h.cursor_y, x - c)
      <4> HIDE DEF end, last, c
      <4>1. \A x \in h.cursor_x .. end : x \in Int /\ h.cursor_x <= x
        BY <1>1, <2>5
      <4> QED
        BY <1>5, <4>1
    <3> QED
      BY <3>1, Zenon
  <2>2. \A r : PutFirst(g, r, h, c) = z(new(r))
    BY DEF PutFirst
  <2>3. PutAt(g, run, h) = PutFirst(g, run, h, c)
    BY DEF PutAt
  <2>4. PutAt(g, start, h) = PutFirst(g, start, h, c)
    BY <1>4, Zenon DEF PutAt
  <2> HIDE DEF new, z
  <2> QED
    BY <2>1, <2>2, <2>3, <2>4
<1>7. normal_input(g, run) = PutAt(g, run, h) /\ normal_input(g, start) = PutAt(g, start, h)
  BY DEF normal_input, PutAt, PutFirst, Home, h
<1> QED
  BY <1>6, <1>7

----------------------------------------------------------------------------
(* The steps of the terminal                                               *)

\* The inductive invariant of the terminal: the screen's, and between parser,
\* read and screen that something is left to process, or was worked on, only
\* inside ProcessInput.
TInv == /\ IInv
        /\ ParserOK(ps)
        /\ data \in Seq(0 .. 255)
        /\ worked \in BOOLEAN
        /\ ~in_input => ~worked
        /\ data # <<>> => in_input

\* A call of normal_input is an operation of the host, with a run that is no
\* longer than a row.
LEMMA PrintRunIs ==
  ASSUME Covered, Good(gt), data \in Seq(0 .. 255), PrintRun
  PROVE  HostOutput
<1>1. PICK n \in 1 .. Len(data) :
        /\ Taken(gt, n)
        /\ gt' = normal_input(gt, [k \in 1 .. n |-> CharOf[data[k]]])
  BY DEF PrintRun
<1>2. n \in Nat /\ n >= 1 /\ n <= Len(data)
  BY <1>1
<1>3. PICK run : run = [k \in 1 .. n |-> CharOf[data[k]]]
  OBVIOUS
<1>4. \A k \in 1 .. n : run[k] \in Chars \cup {Space}
  <2>1. ASSUME NEW k \in 1 .. n PROVE run[k] \in Chars \cup {Space}
    <3>1. k \in 1 .. Len(data)
      BY <1>2
    <3>2. data[k] \in 0 .. 255
      BY <3>1, ElementOfSeq
    <3>3. PICK b \in 0 .. 255 : b = data[k]
      BY <3>2
    <3>4. b > 31
      BY <1>1, <3>3 DEF Taken
    <3>5. b \in 32 .. 255
      BY <3>4
    <3>6. CharOf[b] \in Chars \cup {Space}
      BY <3>5 DEF Covered
    <3> QED
      BY <1>3, <3>3, <3>6
  <2> QED
    BY <2>1
<1>5. PICK w \in Nat : w = gt.width /\ w >= 2 /\ w <= MaxRun
  <2>1. gt.width \in 2 .. GT_MAXWIDTH - 1 /\ GT_MAXWIDTH \in Nat
    BY GoodFacts
  <2>2. <<gt.width, gt.height>> \in Sizes
    BY DEF Good, Base
  <2>3. <<gt.width, gt.height>>[1] <= MaxRun
    BY <2>2 DEF Covered
  <2> QED
    BY <2>1, <2>3
<1>6. MaxRun \in Nat
  BY BoundAssumption
<1>7. \E r \in Runs : gt' = normal_input(gt, r)
  <2>1. CASE n <= w
    <3>1. n \in 1 .. MaxRun
      BY <1>2, <1>5, <1>6, <2>1
    <3>2. run \in [1 .. n -> Chars \cup {Space}]
      BY <1>3, <1>4
    <3>3. run \in Runs
      BY <3>1, <3>2 DEF Runs
    <3> QED
      BY <1>1, <1>3, <3>3
  <2>2. CASE w < n
    <3>1. w \in 1 .. MaxRun
      BY <1>5, <1>6
    <3>2. PICK start : start = [k \in 1 .. w |-> run[k]]
      OBVIOUS
    <3>3. start \in [1 .. w -> Chars \cup {Space}]
      <4>1. \A k \in 1 .. w : k \in 1 .. n
        BY <1>2, <1>5, <2>2
      <4> QED
        BY <1>4, <3>2, <4>1
    <3>4. start \in Runs
      BY <3>1, <3>3 DEF Runs
    <3>5. Len(run) = n /\ Len(start) = w /\ \A k \in 1 .. w : start[k] = run[k]
      BY <1>2, <1>3, <1>5, <3>2
    <3>6. normal_input(gt, run) = normal_input(gt, start)
      <4>1. w <= n /\ gt.width <= w /\ n \in Nat /\ w \in Nat
        BY <1>2, <1>5, <2>2
      <4> QED
        BY <3>5, <4>1, LongRun
    <3> QED
      BY <1>1, <1>3, <3>4, <3>6
  <2> QED
    BY <1>2, <1>5, <2>1, <2>2
<1>8. PICK r \in Runs : gt' = normal_input(gt, r)
  BY <1>7
<1>9. Host("normal_input", normal_input(gt, r))
  BY <1>8, GoodIsFit DEF Host, PrintRun, Within, Covered, AllOps
<1> QED
  BY <1>9, Zenon DEF HostOutput

\* A change of margins is one of the screen's, in either of its forms.
LEMMA MarginsAre ==
  ASSUME Covered, ParserOK(ps), Margins
  PROVE  \/ HostOutput /\ UNCHANGED <<screen, crs>>
         \/ /\ "set_margins" \in Ops /\ gt.pending_scroll # 0 /\ RowInStore(gt)
            /\ \E p0, p1 \in Params : UpdateChanges(gt, set_margins(AfterUpdate(gt), p0, p1))
<1>1. ps.param[0] \in Params /\ ps.param[1] \in Params
  <2>1. PICK M \in Nat : M = MAXPARAM /\ M >= 2
    BY ParamCountAssumption DEF Covered
  <2>2. ps.param \in [0 .. M - 1 -> Params] /\ 0 \in 0 .. M - 1 /\ 1 \in 0 .. M - 1
    BY <2>1 DEF ParserOK
  <2> QED
    BY <2>2
<1>2. "set_margins" \in Ops
  BY DEF Covered, AllOps
<1>3. CASE gt.pending_scroll # 0
  BY <1>1, <1>2, <1>3, Zenon DEF Margins
<1>4. CASE gt.pending_scroll = 0
  <2>1. gt' = set_margins(gt, ps.param[0], ps.param[1]) /\ UNCHANGED <<screen, crs>>
    BY <1>4 DEF Margins
  <2>2. Host("set_margins", set_margins(gt, ps.param[0], ps.param[1]))
    BY <1>2, <2>1 DEF Host, Margins, Within
  <2> QED
    BY <1>1, <1>4, <2>1, <2>2, Zenon DEF HostOutput
<1> QED
  BY <1>3, <1>4

\* Every byte that is read is one.
LEMMA HeadIs ==
  ASSUME data \in Seq(0 .. 255), data # <<>>
  PROVE  Head(data) \in 0 .. 255
BY HeadTailProperties

\* What is left of the data is bytes.
LEMMA RestIs ==
  ASSUME data \in Seq(0 .. 255), NEW n \in 1 .. Len(data)
  PROVE  SubSeq(data, n + 1, Len(data)) \in Seq(0 .. 255)
<1>1. n \in Nat /\ n >= 1 /\ n + 1 \in Int /\ Len(data) \in Int
  OBVIOUS
<1>2. \A i \in n + 1 .. Len(data) : i \in 1 .. Len(data)
  BY <1>1
<1>3. \A i \in n + 1 .. Len(data) : data[i] \in 0 .. 255
  BY <1>2, ElementOfSeq
<1> QED
  BY <1>1, <1>3, SubSeqProperties

\* A turn of the loop keeps parser and data.
LEMMA LoopedKeeps ==
  ASSUME Covered, TInv, data # <<>>, NEW n \in 1 .. Len(data), Looped(n)
  PROVE  /\ ParserOK(ps') /\ data' \in Seq(0 .. 255)
         /\ in_input /\ in_input' = in_input
<1>1. ParserOK(ps')
  BY TurnOK DEF Covered, TInv, Looped
<1>2. data' \in Seq(0 .. 255)
  BY RestIs DEF TInv, Looped
<1> QED
  BY <1>1, <1>2 DEF TInv, Looped

LEMMA TInitInv ==
  ASSUME Covered, TInit
  PROVE  TInv
<1>1. IInv
  BY InitInv DEF TInit
<1>2. ParserOK(ps)
  <2>1. PICK f : f = [n \in 0 .. MAXPARAM - 1 |-> 0]
    OBVIOUS
  <2>2. f \in [0 .. MAXPARAM - 1 -> Params] /\ 0 \in 0 .. MAXPARAM - 1
    BY <2>1, ParamCountAssumption DEF Covered
  <2>3. ps = [current_state |-> "normal", nparam |-> 0, param |-> f, q_mode |-> 0]
    BY <2>1 DEF TInit, NewParser
  <2> QED
    BY <2>2, <2>3 DEF ParserOK
<1>3. data = <<>> /\ worked = FALSE
  BY DEF TInit
<1>4. data \in Seq(0 .. 255)
  BY <1>3
<1> QED
  BY <1>1, <1>2, <1>3, <1>4 DEF TInv

\* The first states are the screen's.
LEMMA TInitScreen ==
  ASSUME TInit
  PROVE  ScreenSpec!Init
<1>1. GTermInit /\ crs = <<1, 1>> /\ worked = FALSE
  BY DEF TInit, Init
<1>2. screen = [y \in ScreenRows(gt) |-> [x \in ScreenCols(gt) |->
                   <<Space, <<DefaultColor, {}>>>>]]
  BY DEF TInit, Init
<1>3. screen = [y \in ScreenSpec!ScreenRows(gt) |-> [x \in ScreenSpec!ScreenCols(gt) |->
                   <<ScreenSpec!Space, <<DefaultColor, {}>>>>]]
  BY <1>2 DEF ScreenRows, ScreenCols, Space,
              ScreenSpec!ScreenRows, ScreenSpec!ScreenCols, ScreenSpec!Space
<1> QED
  BY <1>1, <1>3, SameInit DEF ScreenSpec!Init

\* Every step of the terminal keeps its invariant and is a step of the screen, or
\* none.
ScreenStep == [ScreenSpec!Next]_(ScreenSpec!vars)

\* What an operation of the host means for invariant and screen.
LEMMA WorkedStep ==
  ASSUME TInv, in_input, in_input' = in_input, HostOutput, UNCHANGED <<screen, crs>>, worked' = TRUE
  PROVE  IInv' /\ ScreenStep
<1>1. ProcessInput
  BY DEF ProcessInput, TInv, IInv
<1>2. IInv'
  BY <1>1, StepInv DEF TInv, Next
<1>3. ScreenSpec!ProcessInput
  BY SameHostOutput DEF ScreenSpec!ProcessInput
<1> QED
  BY <1>2, <1>3 DEF ScreenStep, ScreenSpec!Next

\* Updates.
LEMMA TimerStep ==
  ASSUME TInv, ~in_input, UNCHANGED <<ps, data, worked>>, Update \/ ExposeArea
  PROVE  TInv' /\ ScreenStep
<1>1. IInv' /\ in_input' = in_input
  <2>1. IInv'
    BY StepInv DEF TInv, Next
  <2> QED
    BY <2>1 DEF Update, ExposeArea
<1>2. TInv'
  BY <1>1 DEF TInv
<1>3. worked = FALSE
  BY DEF TInv
<1>4. Update => ScreenSpec!Update
  BY <1>3, SameUpdate, SameClass DEF Update, ScreenSpec!Update
<1>5. ExposeArea => ScreenSpec!ExposeArea
  <2> DEFINE g == Exposed(gt, 0, 0, gt.width, gt.height)
  <2>1. ScreenSpec!Exposed(gt, 0, 0, gt.width, gt.height) = g
    BY SameClass
  <2>2. ASSUME ExposeArea
        PROVE  IF "DEFERUPDATE" \in g.mode_flags
               THEN gt' = g /\ UNCHANGED <<screen, crs>>
               ELSE ScreenSpec!UpdateChanges(g, ScreenSpec!AfterUpdate(g))
    BY <2>2, SameUpdate, SameClass DEF ExposeArea
  <2> HIDE DEF g
  <2> QED
    BY <1>3, <2>1, <2>2 DEF ScreenSpec!ExposeArea
<1> QED
  BY <1>2, <1>4, <1>5 DEF ScreenStep, ScreenSpec!Next

LEMMA TStep ==
  ASSUME Covered, TInv, [TNext]_tvars
  PROVE  TInv' /\ ScreenStep
<1>1. /\ ParserOK(ps) /\ data \in Seq(0 .. 255) /\ worked \in BOOLEAN
      /\ RowInStore(gt) => Good(gt)
  BY GoodIsFit DEF TInv, IInv
<1>2. CASE UNCHANGED tvars
  <2>1. UNCHANGED vars /\ UNCHANGED <<ps, data, worked>>
    BY <1>2 DEF tvars
  <2>2. IInv'
    BY <2>1, StepInv DEF TInv
  <2> QED
    BY <2>1, <2>2 DEF TInv, vars, ScreenStep, ScreenSpec!vars
<1>3. CASE Read
  <2>1. UNCHANGED <<gt, screen, crs, ps>> /\ ~in_input /\ in_input' = TRUE /\ worked' = FALSE
    BY <1>3 DEF Read
  <2>2. IInv'
    BY <2>1 DEF TInv, IInv, ScreenOf, ScreenRows, ScreenCols
  <2>3. data' \in Seq(0 .. 255)
    BY <1>3 DEF Read, Covered
  <2>4. worked' = worked
    BY <2>1 DEF TInv
  <2> QED
    BY <1>1, <2>1, <2>2, <2>3, <2>4 DEF TInv, ScreenStep, ScreenSpec!vars
<1>4. CASE PrintRun
  <2>1. HostOutput
    BY <1>1, <1>4, PrintRunIs DEF PrintRun
  <2>2. PICK n \in 1 .. Len(data) : Looped(n)
    BY <1>4 DEF PrintRun
  <2>3. data # <<>> /\ worked' = TRUE /\ UNCHANGED <<screen, crs>>
    BY <1>4 DEF PrintRun
  <2>4. ParserOK(ps') /\ data' \in Seq(0 .. 255) /\ in_input /\ in_input' = in_input
    BY <2>2, <2>3, LoopedKeeps
  <2>5. IInv' /\ ScreenStep
    BY <2>1, <2>3, <2>4, WorkedStep
  <2> QED
    BY <2>3, <2>4, <2>5 DEF TInv
<1>5. ASSUME data # <<>>, Looped(1)
      PROVE  ParserOK(ps') /\ data' \in Seq(0 .. 255) /\ in_input /\ in_input' = in_input
  <2>1. 1 \in 1 .. Len(data)
    BY <1>1, <1>5
  <2> QED
    BY <1>5, <2>1, LoopedKeeps
<1>6. CASE Margins
  <2>1. data # <<>> /\ Looped(1) /\ worked' = TRUE
    BY <1>6 DEF Margins
  <2>2. ParserOK(ps') /\ data' \in Seq(0 .. 255) /\ in_input /\ in_input' = in_input
    BY <1>5, <2>1
  <2>3. IInv' /\ ScreenStep
    <3>1. CASE HostOutput /\ UNCHANGED <<screen, crs>>
      BY <2>1, <2>2, <3>1, WorkedStep
    <3>2. CASE /\ "set_margins" \in Ops /\ gt.pending_scroll # 0 /\ RowInStore(gt)
               /\ \E p0, p1 \in Params : UpdateChanges(gt, set_margins(AfterUpdate(gt), p0, p1))
      <4>1. MarginsAfterScroll
        BY <2>2, <3>2 DEF MarginsAfterScroll, TInv, IInv
      <4>2. IInv'
        BY <4>1, StepInv DEF TInv, Next
      <4>3. PICK p0 \in Params, p1 \in Params :
              UpdateChanges(gt, set_margins(AfterUpdate(gt), p0, p1))
        BY <3>2
      <4>4. ScreenSpec!UpdateChanges(gt, ScreenSpec!set_margins(ScreenSpec!AfterUpdate(gt), p0, p1))
        BY <4>3, SameUpdate, SameClass, SameModeOps
      <4>5. ScreenSpec!MarginsAfterScroll
        BY <2>1, <3>2, <4>4, SameClass DEF ScreenSpec!MarginsAfterScroll
      <4> QED
        BY <4>2, <4>5 DEF ScreenStep, ScreenSpec!Next
    <3> QED
      BY <1>1, <1>6, <3>1, <3>2, MarginsAre
  <2> QED
    BY <2>1, <2>2, <2>3 DEF TInv
<1>7. CASE Operation
  <2>1. /\ data # <<>> /\ Looped(1) /\ gt' = Do(gt, Act, ps, Head(data)) /\ Within
        /\ worked' = (worked \/ gt' # gt) /\ UNCHANGED <<screen, crs>>
    BY <1>7 DEF Operation
  <2>2. ParserOK(ps') /\ data' \in Seq(0 .. 255) /\ in_input /\ in_input' = in_input
    BY <1>5, <2>1
  <2>3. gt' = gt \/ HostOutput
    BY <1>1, <1>7, <2>1, HeadIs, OperationIs DEF Operation, Looped
  <2>4. worked' \in BOOLEAN
    BY <2>1
  <2>5. CASE gt' = gt
    <3>1. worked' = worked
      BY <1>1, <2>1, <2>5
    <3>2. IInv'
      BY <2>1, <2>2, <2>5, StepInv DEF TInv, vars
    <3> QED
      BY <2>1, <2>2, <2>4, <2>5, <3>1, <3>2 DEF TInv, ScreenStep, ScreenSpec!vars
  <2>6. CASE gt' # gt
    <3>1. worked' = TRUE
      BY <2>1, <2>6
    <3>2. IInv' /\ ScreenStep
      BY <2>1, <2>2, <2>3, <2>6, <3>1, WorkedStep
    <3> QED
      BY <2>2, <2>4, <3>2 DEF TInv
  <2> QED
    BY <2>5, <2>6
<1>8. CASE Collect
  <2>1. data # <<>> /\ Looped(1) /\ UNCHANGED <<gt, screen, crs, worked>>
    BY <1>8 DEF Collect
  <2>2. ParserOK(ps') /\ data' \in Seq(0 .. 255) /\ in_input /\ in_input' = in_input
    BY <1>5, <2>1
  <2>3. IInv'
    BY <2>1, <2>2, StepInv DEF TInv, vars
  <2> QED
    BY <1>1, <2>1, <2>2, <2>3 DEF TInv, ScreenStep, ScreenSpec!vars
<1>9. CASE Return
  <2>1. data = <<>> /\ EndOfInput /\ worked' = FALSE /\ UNCHANGED <<ps, data>>
    BY <1>9 DEF Return
  <2>2. IInv'
    BY <2>1, StepInv DEF TInv, Next
  <2>3. TInv'
    BY <1>1, <2>1, <2>2 DEF TInv
  <2>4. CASE UNCHANGED <<gt, screen, crs>> /\ ~UpdatesAtEnd(gt)
    <3>1. CASE worked = TRUE
      <4>1. ScreenSpec!EndOfInput
        BY <2>1, <2>4, <3>1, SameClass DEF ScreenSpec!EndOfInput
      <4> QED
        BY <2>3, <4>1 DEF ScreenStep, ScreenSpec!Next
    <3>2. CASE worked = FALSE
      BY <2>1, <2>3, <2>4, <3>2 DEF ScreenStep, ScreenSpec!vars
    <3> QED
      BY <1>1, <3>1, <3>2
  <2>5. CASE UpdatesAtEnd(gt) /\ UpdateChanges(gt, AfterUpdate(gt))
    <3>1. ScreenSpec!UpdateChanges(gt, ScreenSpec!AfterUpdate(gt))
      BY <2>5, SameUpdate, SameClass
    <3>2. CASE worked = TRUE
      <4>1. ScreenSpec!EndOfInput
        BY <2>1, <2>5, <3>1, <3>2, SameClass DEF ScreenSpec!EndOfInput
      <4> QED
        BY <2>3, <4>1 DEF ScreenStep, ScreenSpec!Next
    <3>3. CASE worked = FALSE
      <4>1. ScreenSpec!Update
        BY <2>1, <3>1, <3>3 DEF ScreenSpec!Update
      <4> QED
        BY <2>3, <4>1 DEF ScreenStep, ScreenSpec!Next
    <3> QED
      BY <1>1, <3>2, <3>3
  <2> QED
    BY <2>1, <2>4, <2>5 DEF EndOfInput
<1>10. CASE Timer \/ Expose
  BY <1>10, TimerStep DEF Timer, Expose, Update, ExposeArea
<1> QED
  BY <1>2, <1>3, <1>4, <1>6, <1>7, <1>8, <1>9, <1>10 DEF TNext

\* In whatever reads the host's output arrives, every byte of it is an operation of the
\* screen as GTermDisplay has them, or none, up to the byte that would make param_digit
\* or set_colors reach outside param, or the next method after a margin that is too low
\* has taken the cursor out of the text store: the code has no check for either.
THEOREM TerminalIsScreen ==
  ASSUME Covered
  PROVE  TSpec => ImplementsScreen
<1>1. TInit => TInv /\ ScreenSpec!Init
  BY TInitInv, TInitScreen
<1>2. TInv /\ [TNext]_tvars => TInv' /\ [ScreenSpec!Next]_(ScreenSpec!vars)
  BY TStep DEF ScreenStep
<1> QED
  BY <1>1, <1>2, PTL DEF TSpec, ImplementsScreen, ScreenSpec!Spec

\* Up to such a byte no two rows of the screen share a line of the text store.
THEOREM TerminalLinesDistinct ==
  ASSUME Covered
  PROVE  TSpec => []LinesDistinct
<1>1. TInit => TInv
  BY TInitInv
<1>2. TInv /\ [TNext]_tvars => TInv'
  BY TStep
<1>3. TInv => LinesDistinct
  BY DEF TInv, IInv, LinesDistinct, Fit, Base
<1> QED
  BY <1>1, <1>2, <1>3, PTL DEF TSpec
----------------------------------------------------------------------------
(* The widget: while the scroll region is the whole screen, turning the     *)
(* ring of lines does what copying the region would do.                     *)

SameMargins(h, g) == h.scroll_top = g.scroll_top /\ h.scroll_bot = g.scroll_bot

Whole(g) == g.scroll_top = 0 /\ g.scroll_bot = g.height - 1

\* clear_area keeps the margins.
LEMMA ClearKeepsMargins ==
  ASSUME NEW g, NEW a, NEW b, NEW c, NEW d
  PROVE  SameMargins(clear_area(g, a, b, c, d), g)
BY DEF SameMargins, clear_area, ChangedLines

\* move_cursor keeps the margins.
LEMMA MoveKeepsMargins ==
  ASSUME NEW g, NEW x, NEW y
  PROVE  SameMargins(move_cursor(g, x, y), g)
BY DEF SameMargins, move_cursor, changed_line

\* shift_text keeps the margins.
LEMMA ShiftKeepsMargins ==
  ASSUME NEW g, NEW a, NEW b, NEW c, NEW d
  PROVE  SameMargins(shift_text(g, a, b, c, d), g)
BY DEF SameMargins, shift_text, changed_line

\* Changing a mode keeps the margins.
LEMMA ModeKeepsMargins ==
  ASSUME NEW g, NEW f
  PROVE  SameMargins(set_mode_flag(g, f), g) /\ SameMargins(clear_mode_flag(g, f), g)
BY DEF SameMargins, set_mode_flag, clear_mode_flag

\* scroll_region keeps the margins.
LEMMA ScrollKeepsMargins ==
  ASSUME NEW g, NEW s, NEW e, NEW num
  PROVE  SameMargins(scroll_region(g, s, e, num), g)
BY DEF SameMargins, scroll_region

\* lf, cr and next_line keep the margins.
LEMMA LfKeepsMargins ==
  ASSUME NEW g
  PROVE  SameMargins(lf(g), g) /\ SameMargins(cr(g), g) /\ SameMargins(next_line(g), g)
<1>1. SameMargins(lf(g), g)
  BY MoveKeepsMargins, ScrollKeepsMargins DEF lf
<1>2. SameMargins(cr(g), g) /\ SameMargins(cr(lf(g)), lf(g))
  BY MoveKeepsMargins DEF cr
<1> QED
  BY <1>1, <1>2 DEF SameMargins, next_line

\* normal_input keeps the margins.
LEMMA NormalInputKeepsMargins ==
  ASSUME NEW g, NEW run
  PROVE  SameMargins(normal_input(g, run), g)
<1> DEFINE h == IF g.cursor_x < g.width THEN g
                ELSE IF "NOEOLWRAP" \in g.mode_flags
                THEN [g EXCEPT !.cursor_x = g.width - 1]
                ELSE next_line(g)
<1>1. SameMargins(h, g)
  BY LfKeepsMargins DEF SameMargins
<1> HIDE DEF h
<1>2. \A y, a, b, t, x : SameMargins([changed_line(h, y, a, b) EXCEPT !.text = t, !.cursor_x = x], h)
  BY DEF SameMargins, changed_line
<1>3. \E y, a, b, t, x : normal_input(g, run) =
        [changed_line(h, y, a, b) EXCEPT !.text = t, !.cursor_x = x]
  BY ZenonT(30) DEF normal_input, h
<1> QED
  BY <1>1, <1>2, <1>3 DEF SameMargins

\* The control characters and two-character sequences keep the margins.
LEMMA ControlsKeepMargins ==
  ASSUME NEW g, NEW p
  PROVE  /\ SameMargins(ff(g), g) /\ SameMargins(tab(g), g) /\ SameMargins(bs(g), g)
         /\ SameMargins(save_cursor(g), g) /\ SameMargins(restore_cursor(g), g)
         /\ SameMargins(set_tab(g), g) /\ SameMargins(clear_tab(g, p), g)
         /\ SameMargins(index_up(g), g)
         /\ SameMargins(screen_align(g), g)
<1>1. SameMargins(ff(g), g) /\ SameMargins(tab(g), g) /\ SameMargins(bs(g), g)
  <2>1. SameMargins(ff(g), g)
    BY ClearKeepsMargins, MoveKeepsMargins DEF SameMargins, ff
  <2>2. SameMargins(tab(g), g)
    BY MoveKeepsMargins, LfKeepsMargins DEF tab
  <2>3. SameMargins(bs(g), g)
    BY ClearKeepsMargins, MoveKeepsMargins DEF SameMargins, bs
  <2> QED
    BY <2>1, <2>2, <2>3
<1>2. SameMargins(save_cursor(g), g) /\ SameMargins(set_tab(g), g) /\ SameMargins(clear_tab(g, p), g)
  BY DEF SameMargins, save_cursor, set_tab, clear_tab
<1>3. SameMargins(restore_cursor(g), g)
  <2> DEFINE h == [g EXCEPT !.mode_flags = (g.mode_flags \ Rendition) \cup g.save_attrib]
  <2>1. SameMargins(h, g)
    BY DEF SameMargins
  <2> HIDE DEF h
  <2>2. SameMargins(move_cursor(h, g.save_x, g.save_y), h)
    BY MoveKeepsMargins
  <2>3. restore_cursor(g) = move_cursor(h, g.save_x, g.save_y)
    BY DEF restore_cursor, h
  <2> QED
    BY <2>1, <2>2, <2>3 DEF SameMargins
<1>4. SameMargins(index_up(g), g)
  BY MoveKeepsMargins, ScrollKeepsMargins DEF index_up
<1>5. SameMargins(screen_align(g), g)
  BY DEF SameMargins, screen_align, ChangedLines
<1> QED
  BY <1>1, <1>2, <1>3, <1>4, <1>5

\* The control sequences keep the margins.
LEMMA SequencesKeepMargins ==
  ASSUME NEW g, NEW p, NEW q
  PROVE  /\ SameMargins(cursor_left(g, p), g) /\ SameMargins(cursor_right(g, p), g)
         /\ SameMargins(cursor_up(g, p), g) /\ SameMargins(cursor_down(g, p), g)
         /\ SameMargins(delete_char(g, p), g) /\ SameMargins(insert_char(g, p), g)
         /\ SameMargins(erase_char(g, p), g)
         /\ SameMargins(delete_line(g, p), g) /\ SameMargins(insert_line(g, p), g)
         /\ SameMargins(erase_display(g, p), g) /\ SameMargins(erase_line(g, p), g)
         /\ SameMargins(cursor_position(g, p, q), g) /\ SameMargins(vt52_cursor(g, p, q), g)
         /\ SameMargins(set_colors(g, p, q), g)
         /\ SameMargins(set_mode(g, p), g) /\ SameMargins(clear_mode(g, p), g)
<1>1. /\ SameMargins(cursor_left(g, p), g) /\ SameMargins(cursor_right(g, p), g)
      /\ SameMargins(cursor_up(g, p), g) /\ SameMargins(cursor_down(g, p), g)
      /\ SameMargins(cursor_position(g, p, q), g) /\ SameMargins(vt52_cursor(g, p, q), g)
  BY MoveKeepsMargins DEF cursor_left, cursor_right, cursor_up, cursor_down,
                       cursor_position, vt52_cursor
<1>2. /\ SameMargins(delete_char(g, p), g) /\ SameMargins(insert_char(g, p), g)
      /\ SameMargins(erase_char(g, p), g)
  BY ClearKeepsMargins, ShiftKeepsMargins DEF delete_char, insert_char, erase_char
<1>3. SameMargins(delete_line(g, p), g) /\ SameMargins(insert_line(g, p), g)
  BY ClearKeepsMargins, ScrollKeepsMargins DEF delete_line, insert_line
<1>4. SameMargins(erase_display(g, p), g)
  <2>1. p \in {0, 1, 2} \/ erase_display(g, p) = g
    BY DEF erase_display
  <2>2. p \in {0, 1, 2} => \E h, a, b, c, d : /\ SameMargins(h, g)
                                              /\ erase_display(g, p) = clear_area(h, a, b, c, d)
    BY ClearKeepsMargins DEF erase_display, SameMargins
  <2> QED
    BY <2>1, <2>2, ClearKeepsMargins DEF SameMargins
<1>5. SameMargins(erase_line(g, p), g)
  BY ClearKeepsMargins DEF erase_line, SameMargins
<1>6. SameMargins(set_colors(g, p, q), g)
  BY ModeKeepsMargins DEF set_colors, SameMargins
<1>7. SameMargins(set_mode(g, p), g) /\ SameMargins(clear_mode(g, p), g)
  BY MoveKeepsMargins, ModeKeepsMargins DEF set_mode, clear_mode, SameMargins
<1> QED
  BY <1>1, <1>2, <1>3, <1>4, <1>5, <1>6, <1>7
\* reset selects the whole screen.
LEMMA ResetWhole ==
  ASSUME NEW g, Good(g)
  PROVE  Whole(reset(g))
<1> DEFINE bare == [g EXCEPT !.pending_scroll = 0, !.color = DefaultColor,
             !.scroll_top = 0, !.scroll_bot = g.height - 1,
             !.linenumbers = [i \in Rows |-> i], !.tab_stops = {}]
<1>1. Whole(bare) /\ bare.height = g.height
  BY DEF Whole, Good, Base, GTermType
<1> HIDE DEF bare
<1>2. \A f, a, b, c, d, x, y :
        /\ SameMargins(move_cursor(clear_area(clear_mode_flag(bare, f), a, b, c, d), x, y), bare)
        /\ SameSize(move_cursor(clear_area(clear_mode_flag(bare, f), a, b, c, d), x, y), bare)
  BY ClearKeepsMargins, MoveKeepsMargins, ModeKeepsMargins,
     ClearKeepsSize, MoveKeepsSize, ModeKeepsSize DEF SameMargins, SameSize
<1>3. SameMargins(reset(g), bare) /\ SameSize(reset(g), bare)
  BY <1>2 DEF reset, bare
<1> QED
  BY <1>1, <1>3 DEF Whole, SameMargins, SameSize

\* Margins that are not given are the edges.
LEMMA EdgesWhole ==
  ASSUME NEW g, Good(g), NEW p, p = 0
  PROVE  Whole(set_margins(g, p, p))
<1> DEFINE top == CountOf(p) - 1
           bot == (IF p < 1 \/ p > g.height THEN g.height ELSE p) - 1
           h == [g EXCEPT !.scroll_top = top, !.scroll_bot = bot]
           down == IF h.cursor_y < top THEN move_cursor(h, h.cursor_x, top) ELSE h
<1>1. top = 0 /\ bot = g.height - 1
  BY DEF CountOf
<1> HIDE DEF top, bot
<1>2. Whole(h) /\ h.height = g.height
  BY <1>1 DEF Whole, Good, Base, GTermType
<1> HIDE DEF h
<1>3. Whole(down) /\ down.height = g.height
  BY <1>2, MoveKeepsMargins, MoveKeepsSize DEF Whole, SameMargins, SameSize
<1> HIDE DEF down
<1>4. \A x, y : Whole(move_cursor(down, x, y))
  BY <1>3, MoveKeepsMargins, MoveKeepsSize DEF Whole, SameMargins, SameSize
<1> QED
  BY <1>3, <1>4 DEF set_margins, top, bot, h, down

\* A host that sets margins only to the edges leaves the whole screen as region.
LEMMA HostOutputKeepsWhole ==
  ASSUME Good(gt), WholeScreen, Whole(gt), HostOutput
  PROVE  Whole(gt')
<1>1. gt'.height = gt.height
  BY HostOutputKeepsSize DEF SameSize
<1>2. \/ SameMargins(gt', gt)
      \/ gt' = reset(gt)
      \/ "set_margins" \in Ops /\ \E p0, p1 \in Params : gt' = set_margins(gt, p0, p1)
  BY NormalInputKeepsMargins, LfKeepsMargins, ControlsKeepMargins, SequencesKeepMargins,
     ModeKeepsMargins, Zenon DEF HostOutput, Host, index_down
<1>3. CASE SameMargins(gt', gt)
  BY <1>1, <1>3 DEF SameMargins, Whole
<1>4. CASE gt' = reset(gt)
  BY <1>1, <1>4, ResetWhole
<1>5. CASE "set_margins" \in Ops /\ \E p0, p1 \in Params : gt' = set_margins(gt, p0, p1)
  BY <1>1, <1>5, EdgesWhole DEF WholeScreen
<1> QED
  BY <1>2, <1>3, <1>4, <1>5

----------------------------------------------------------------------------
(* The ring                                                                *)

\* A ring has a line for every row.
LEMMA RingFacts ==
  ASSUME NEW g, Good(g)
  PROVE  TXT_QUEUE \in Nat /\ TXT_QUEUE >= 1 /\ g.height \in Nat /\ g.height <= TXT_QUEUE
<1>1. g.height <= TXT_QUEUE /\ TXT_QUEUE \in Nat
  <2>1. PICK sz \in Sizes : sz = <<g.width, g.height>>
    BY DEF Good, Base
  <2> QED
    BY <2>1, QueueAssumption
<1> QED
  BY <1>1, GoodFacts

\* A remainder is determined by its range and its distance.
LEMMA Remainder ==
  ASSUME NEW n \in Nat, n >= 1, NEW a \in Int, NEW q \in Int, NEW r \in 0 .. n - 1,
         a = n * q + r
  PROVE  a % n = r
<1>1. PICK p \in Int : p = a \div n
  OBVIOUS
<1>2. a = n * p + (a % n) /\ a % n \in 0 .. n - 1
  BY <1>1
<1>3. n * (p - q) = r - (a % n)
  BY <1>2
<1>4. -n < n * (p - q) /\ n * (p - q) < n
  BY <1>2, <1>3
<1>5. CASE p - q >= 1
  <2>1. PICK k \in Nat : k = p - q - 1
    BY <1>5
  <2>2. n * (p - q) = n * k + n
    BY <2>1
  <2>3. n * k \in Nat
    OBVIOUS
  <2> QED
    BY <1>4, <2>2, <2>3
<1>6. CASE p - q <= -1
  <2>1. PICK k \in Nat : k = q - p - 1
    BY <1>6
  <2>2. n * (p - q) = -(n * k) - n
    BY <2>1
  <2>3. n * k \in Nat
    OBVIOUS
  <2> QED
    BY <1>4, <2>2, <2>3
<1>7. CASE p = q
  BY <1>2, <1>7
<1> QED
  BY <1>5, <1>6, <1>7

\* Division with remainder.
LEMMA Division ==
  ASSUME NEW n \in Nat, n >= 1, NEW a \in Int
  PROVE  \E q \in Int, r \in 0 .. n - 1 : r = a % n /\ a = n * q + r
<1>1. PICK q \in Int : q = a \div n
  OBVIOUS
<1>2. a = n * q + (a % n) /\ (a % n) \in 0 .. n - 1
  BY <1>1
<1> QED
  BY <1>2

\* A product with a sum or a difference.
LEMMA Distributes ==
  ASSUME NEW n \in Int, NEW p \in Int, NEW q \in Int
  PROVE  n * (p + q) = n * p + n * q /\ n * (p - q) = n * p - n * q
OBVIOUS

\* Turning the ring by k makes row y the line that was row k + y.
LEMMA TurnedRing ==
  ASSUME NEW g, Good(g), NEW top \in Int, NEW k \in Int, NEW y \in Int
  PROVE  RingLine((top + k) % TXT_QUEUE, y) = RingLine(top, k + y)
<1>1. PICK n \in Nat : n = TXT_QUEUE /\ n >= 1
  BY RingFacts
<1>2. PICK a \in Int : a = top + k
  OBVIOUS
<1>3. PICK p \in Int, t \in 0 .. n - 1 : t = a % n /\ a = n * p + t
  BY <1>1, Division
<1>4. PICK b \in Int : b = t + y
  BY <1>1
<1>5. PICK q \in Int, r \in 0 .. n - 1 : r = b % n /\ b = n * q + r
  BY <1>1, Division
<1>6. PICK c \in Int : c = a + y
  OBVIOUS
<1>7. c = n * (p + q) + r /\ p + q \in Int
  <2>1. n * (p + q) = n * p + n * q /\ n * p \in Int /\ n * q \in Int
    BY Distributes
  <2> QED
    BY <1>3, <1>4, <1>5, <1>6, <2>1
<1>8. c % n = r
  BY <1>1, <1>7, Remainder
<1>9. top + (k + y) = c
  BY <1>2, <1>6
<1> QED
  BY <1>1, <1>2, <1>3, <1>4, <1>5, <1>8, <1>9 DEF RingLine

\* No two rows share a line of the ring.
LEMMA OwnLine ==
  ASSUME NEW g, Good(g), NEW top \in Int, NEW y1 \in ScreenRows(g), NEW y2 \in ScreenRows(g),
         RingLine(top, y1) = RingLine(top, y2)
  PROVE  y1 = y2
<1>1. PICK n \in Nat : n = TXT_QUEUE /\ n >= 1 /\ y1 \in 0 .. n - 1 /\ y2 \in 0 .. n - 1
  BY RingFacts DEF ScreenRows
<1>2. PICK p \in Int, r \in 0 .. n - 1 : r = (top + y1) % n /\ top + y1 = n * p + r
  <2>1. PICK a \in Int : a = top + y1
    BY <1>1
  <2>2. \E p \in Int, r \in 0 .. n - 1 : r = a % n /\ a = n * p + r
    BY <1>1, Division
  <2> QED
    BY <2>1, <2>2
<1>3. PICK q \in Int : top + y2 = n * q + r
  <2>1. PICK a \in Int : a = top + y2
    BY <1>1
  <2>2. \E q \in Int, s \in 0 .. n - 1 : s = a % n /\ a = n * q + s
    BY <1>1, Division
  <2>3. a % n = r
    BY <1>1, <1>2, <2>1 DEF RingLine
  <2> QED
    BY <2>1, <2>2, <2>3
<1>4. y1 - y2 = n * (p - q) /\ y2 - y1 = n * (q - p)
  <2>1. n * (p - q) = n * p - n * q /\ n * (q - p) = n * q - n * p
        /\ n * p \in Int /\ n * q \in Int
    BY Distributes
  <2> QED
    BY <1>1, <1>2, <1>3, <2>1
<1>5. CASE y1 >= y2
  <2>1. (y1 - y2) % n = 0
    BY <1>1, <1>4, Remainder
  <2>2. y1 - y2 \in 0 .. n - 1 /\ y1 - y2 = n * 0 + (y1 - y2)
    BY <1>1, <1>5
  <2>3. (y1 - y2) % n = y1 - y2
    BY <1>1, <2>2, Remainder
  <2> QED
    BY <1>1, <2>1, <2>3
<1>6. CASE y2 >= y1
  <2>1. (y2 - y1) % n = 0
    BY <1>1, <1>4, Remainder
  <2>2. y2 - y1 \in 0 .. n - 1 /\ y2 - y1 = n * 0 + (y2 - y1)
    BY <1>1, <1>6
  <2>3. (y2 - y1) % n = y2 - y1
    BY <1>1, <2>2, Remainder
  <2> QED
    BY <1>1, <2>1, <2>3
<1> QED
  BY <1>1, <1>5, <1>6

\* The line of a row is in the ring.
LEMMA LineInRing ==
  ASSUME NEW g, Good(g), NEW top \in Int, NEW y \in Int
  PROVE  RingLine(top, y) \in Ring
BY RingFacts DEF RingLine, Ring

\* A row of the ring after update_changes: the dirty cells are painted, the others
\* are those of the line.
LEMMA RepaintedAt ==
  ASSUME NEW g, Good(g), NEW top \in Int, NEW y \in ScreenRows(g), NEW x \in ScreenCols(g)
  PROVE  Repaint(g, top)[RingLine(top, y)][x] =
           IF x \in Dirty(g, y) THEN PaintedCell(g, y, x) ELSE lines[RingLine(top, y)][x]
<1> DEFINE r == RingLine(top, y)
<1>1. r \in Ring /\ x \in Cols
  BY LineInRing, ScreenInStore DEF ScreenRows
<1>2. \A z \in ScreenRows(g) : RingLine(top, z) = r => z = y
  BY OwnLine
<1>3. (CHOOSE z \in ScreenRows(g) : RingLine(top, z) = r) = y
  BY <1>2
<1> HIDE DEF r
<1>4. Repaint(g, top)[r][x] =
        IF \E z \in ScreenRows(g) : RingLine(top, z) = r /\ x \in Dirty(g, z)
        THEN PaintedCell(g, CHOOSE z \in ScreenRows(g) : RingLine(top, z) = r, x)
        ELSE lines[r][x]
  BY <1>1 DEF Repaint
<1>5. (\E z \in ScreenRows(g) : RingLine(top, z) = r /\ x \in Dirty(g, z)) <=> x \in Dirty(g, y)
  BY <1>2 DEF r
<1>6. Repaint(g, top)[r][x] = IF x \in Dirty(g, y) THEN PaintedCell(g, y, x) ELSE lines[r][x]
  BY <1>3, <1>4, <1>5
<1> QED
  BY <1>6 DEF r

\* While the region is the whole screen, update_changes shows on the ring what it
\* shows on a display that copies.
LEMMA FlUpdateShown ==
  ASSUME Good(gt), Whole(gt), topvis \in Ring, Tracks(gt, Shown), NEW h, SameSize(h, gt),
         FlUpdate(gt, h)
  PROVE  topvis' \in Ring /\ Shown' = Painted(gt, Shown)
<1>1. topvis \in Int /\ gt.pending_scroll \in Int /\ gt.height \in Nat /\ gt.height >= 2
  BY RingFacts, GoodFacts DEF Ring
<1>2. topvis' = MoveChars(gt, topvis) /\ lines' = Repaint(gt, topvis')
  BY DEF FlUpdate
<1>3. topvis' \in Ring
  BY <1>1, <1>2, RingFacts DEF MoveChars, Ring
<1>4. topvis' \in Int
  BY <1>3, RingFacts DEF Ring
<1>5. Shown' = [y \in ScreenRows(gt) |-> [x \in ScreenCols(gt) |->
                  lines'[RingLine(topvis', y)][x]]]
  BY DEF FlUpdate, SameSize, Shown, ScreenRows, ScreenCols
<1>6. \A y \in ScreenRows(gt), x \in ScreenCols(gt) :
        Shown[y][x] = lines[RingLine(topvis, y)][x]
  BY DEF Shown
<1>7. Painted(gt, Shown) = [y \in ScreenRows(gt) |-> [x \in ScreenCols(gt) |->
         IF x \in Dirty(gt, y) THEN PaintedCell(gt, y, x) ELSE Moved(gt, Shown)[y][x]]]
  BY DEF Painted, Shown
<1>8. ASSUME NEW y \in ScreenRows(gt), NEW x \in ScreenCols(gt), x \notin Dirty(gt, y)
      PROVE  lines[RingLine(topvis', y)][x] = Moved(gt, Shown)[y][x]
  <2>1. y \in Int /\ Region(gt) = ScreenRows(gt)
    BY DEF Whole, Region, ScreenRows
  <2>2. DOMAIN Shown = ScreenRows(gt)
    BY DEF Shown
  <2>3. CASE AsksToMove(gt)
    <3>1. Follows(gt, y)
      BY <1>1, <2>1, <2>3 DEF AsksToMove, Follows, Whole
    <3>2. y + gt.pending_scroll \in ScreenRows(gt)
      BY <1>8, <2>1, <3>1 DEF Tracks, Source
    <3>3. Moved(gt, Shown)[y] = Shown[y + gt.pending_scroll]
      BY <2>1, <2>2, <2>3, <3>2 DEF Moved
    <3>4. topvis' = (topvis + gt.pending_scroll) % TXT_QUEUE
      BY <1>2, <2>3 DEF MoveChars
    <3>5. RingLine(topvis', y) = RingLine(topvis, gt.pending_scroll + y)
      BY <1>1, <2>1, <3>4, TurnedRing
    <3>6. gt.pending_scroll + y = y + gt.pending_scroll
      BY <1>1, <2>1
    <3> QED
      BY <1>6, <3>2, <3>3, <3>5, <3>6
  <2>4. CASE ~AsksToMove(gt)
    <3>1. Moved(gt, Shown)[y] = Shown[y] /\ topvis' = topvis
      BY <1>2, <2>2, <2>4 DEF Moved, MoveChars
    <3> QED
      BY <1>6, <3>1
  <2> QED
    BY <2>3, <2>4
<1>9. ASSUME NEW y \in ScreenRows(gt), NEW x \in ScreenCols(gt)
      PROVE  lines'[RingLine(topvis', y)][x] =
               IF x \in Dirty(gt, y) THEN PaintedCell(gt, y, x) ELSE Moved(gt, Shown)[y][x]
  <2>1. lines'[RingLine(topvis', y)][x] =
          IF x \in Dirty(gt, y) THEN PaintedCell(gt, y, x) ELSE lines[RingLine(topvis', y)][x]
    BY <1>2, <1>4, RepaintedAt
  <2> QED
    BY <1>8, <2>1
<1> HIDE DEF Shown
<1> QED
  BY <1>3, <1>5, <1>7, <1>9

----------------------------------------------------------------------------
(* The widget implements the display, whose specification is GTermDisplay    *)
(* read with what the ring shows for the screen: once more the copies are    *)
(* the methods.                                                             *)

\* move_cursor, as the specification of the display has it, is move_cursor.
LEMMA RingMove ==
  \A g, x, y :
    /\ Display!move_cursor(g, x, y) = move_cursor(g, x, y)
BY DEF move_cursor, changed_line, LesserOf, GreaterOf, Display!move_cursor,
       Display!changed_line, Display!LesserOf, Display!GreaterOf

\* And so on, method by method: clear_area.
LEMMA RingClear ==
  \A g, x, y, c, d :
    /\ Display!clear_area(g, x, y, c, d) = clear_area(g, x, y, c, d)
BY DEF clear_area, ChangedLines, LesserOf, GreaterOf, Filled, BlankCell, calc_color,
       Rows, Cols, Space, Rendition, Display!clear_area, Display!ChangedLines,
       Display!LesserOf, Display!GreaterOf, Display!Filled,
       Display!BlankCell, Display!calc_color, Display!Rows,
       Display!Cols, Display!Space, Display!Rendition

\* scroll_region.
LEMMA RingScroll ==
  \A g, x, y, n :
    /\ Display!scroll_region(g, x, y, n) = scroll_region(g, x, y, n)
BY SMTT(60) DEF scroll_region, ComesRound, Takey, Filled, BlankCell, calc_color, Rows, Cols,
       Space, Rendition, Display!scroll_region, Display!ComesRound,
       Display!Takey, Display!Filled, Display!BlankCell,
       Display!calc_color, Display!Rows, Display!Cols, Display!Space,
       Display!Rendition

\* shift_text.
LEMMA RingShift ==
  \A g, x, y, c, n :
    /\ Display!shift_text(g, x, y, c, n) = shift_text(g, x, y, c, n)
BY DEF shift_text, changed_line, LesserOf, GreaterOf, WithRow, TextAt, BlankCell,
       calc_color, Cols, Space, Rendition, Display!shift_text,
       Display!changed_line, Display!LesserOf, Display!GreaterOf,
       Display!WithRow, Display!TextAt, Display!BlankCell,
       Display!calc_color, Display!Cols, Display!Space,
       Display!Rendition

\* The mode flags.
LEMMA RingModes ==
  \A g, x :
    /\ Display!set_mode_flag(g, x) = set_mode_flag(g, x)
    /\ Display!clear_mode_flag(g, x) = clear_mode_flag(g, x)
BY DEF set_mode_flag, clear_mode_flag, Display!set_mode_flag,
       Display!clear_mode_flag

\* The methods that move the cursor.
LEMMA RingCursorOps ==
  \A g, p, q :
    /\ Display!cr(g) = cr(g) /\ Display!lf(g) = lf(g)
    /\ Display!next_line(g) = next_line(g) /\ Display!ff(g) = ff(g)
    /\ Display!tab(g) = tab(g) /\ Display!bs(g) = bs(g)
    /\ Display!save_cursor(g) = save_cursor(g)
    /\ Display!restore_cursor(g) = restore_cursor(g)
    /\ Display!set_tab(g) = set_tab(g) /\ Display!index_down(g) = index_down(g)
    /\ Display!index_up(g) = index_up(g)
    /\ Display!clear_tab(g, p) = clear_tab(g, p)
    /\ Display!cursor_left(g, p) = cursor_left(g, p)
    /\ Display!cursor_right(g, p) = cursor_right(g, p)
    /\ Display!cursor_up(g, p) = cursor_up(g, p)
    /\ Display!cursor_down(g, p) = cursor_down(g, p)
    /\ Display!cursor_position(g, p, q) = cursor_position(g, p, q)
    /\ Display!vt52_cursor(g, p, q) = vt52_cursor(g, p, q)
BY RingMove, RingClear, RingScroll
   DEF cr, lf, next_line, ff, NextTab, tab, bs, save_cursor, restore_cursor,
       set_tab, index_down, index_up, clear_tab, cursor_left, cursor_right,
       cursor_up, cursor_down, cursor_position, vt52_cursor, CountOf, LesserOf,
       GreaterOf, Rendition, Display!cr, Display!lf, Display!next_line,
       Display!ff, Display!NextTab, Display!tab, Display!bs,
       Display!save_cursor, Display!restore_cursor, Display!set_tab,
       Display!index_down, Display!index_up, Display!clear_tab,
       Display!cursor_left, Display!cursor_right, Display!cursor_up,
       Display!cursor_down, Display!cursor_position, Display!vt52_cursor,
       Display!CountOf, Display!LesserOf, Display!GreaterOf,
       Display!Rendition

\* normal_input.
LEMMA RingNormalInput ==
  \A g, run : Display!normal_input(g, run) = normal_input(g, run)
<1> TAKE g, run
<1>1. next_line(g) = Display!next_line(g)
  BY RingCursorOps
<1>4. normal_input(g, run) = PutAt(g, run, Home(g, next_line(g)))
  BY DEF normal_input, PutAt, PutFirst, Home
<1>5. Display!normal_input(g, run) = PutAt(g, run, Home(g, Display!next_line(g)))
  BY 
   DEF LesserOf, changed_line, GreaterOf, WithRow, TextAt, calc_color,
       Cols, Rendition, Display!normal_input, Display!LesserOf,
       Display!changed_line, Display!GreaterOf, Display!WithRow,
       Display!TextAt, Display!calc_color, Display!Cols,
       Display!Rendition, PutAt, PutFirst, Home
<1> QED
  BY <1>1, <1>4, <1>5

\* reset, in which the modes are those of the source.
LEMMA RingReset ==
  \A g :
    /\ Display!reset(g) = reset(g)
BY RingMove, RingClear, RingModes
   DEF reset, Rows, Display!reset, Display!Rows

\* screen_align.
LEMMA RingAlign ==
  \A g :
    /\ Display!screen_align(g) = screen_align(g)
BY DEF screen_align, ChangedLines, LesserOf, GreaterOf, Filled, Rows, Cols,
       AlignChar, Display!screen_align, Display!ChangedLines,
       Display!LesserOf, Display!GreaterOf, Display!Filled,
       Display!Rows, Display!Cols, Display!AlignChar

\* Deleting, inserting and erasing.
LEMMA RingCharOps ==
  \A g, p :
    /\ Display!delete_char(g, p) = delete_char(g, p)
    /\ Display!insert_char(g, p) = insert_char(g, p)
    /\ Display!erase_char(g, p) = erase_char(g, p)
    /\ Display!delete_line(g, p) = delete_line(g, p)
    /\ Display!insert_line(g, p) = insert_line(g, p)
    /\ Display!erase_line(g, p) = erase_line(g, p)
BY RingClear, RingShift, RingScroll
   DEF delete_char, insert_char, erase_char, delete_line, insert_line, erase_line,
       CountOf, LesserOf, Display!delete_char, Display!insert_char,
       Display!erase_char, Display!delete_line, Display!insert_line,
       Display!erase_line, Display!CountOf, Display!LesserOf

\* erase_display.
LEMMA RingEraseDisplay ==
  \A g, p :
    /\ Display!erase_display(g, p) = erase_display(g, p)
BY RingClear
   DEF erase_display, Display!erase_display

\* Colours, modes and margins.
LEMMA RingModeOps ==
  \A g, p, q :
    /\ Display!set_colors(g, p, q) = set_colors(g, p, q)
    /\ Display!set_mode(g, p) = set_mode(g, p)
    /\ Display!clear_mode(g, p) = clear_mode(g, p)
    /\ Display!set_margins(g, p, q) = set_margins(g, p, q)
BY RingMove, RingModes
   DEF set_colors, set_mode, clear_mode, set_margins, CountOf, Rendition,
       Display!set_colors, Display!set_mode, Display!clear_mode,
       Display!set_margins, Display!CountOf, Display!Rendition

\* The operations of the host are the same.
LEMMA RingHostOutput == HostOutput => Display!HostOutput
<1>1. Display!Runs = Runs /\ Display!Cols = Cols
  BY DEF Runs, Space, Cols, Display!Runs, Display!Space, Display!Cols
<1>2. \A op, g : Display!Host(op, g) <=> Host(op, g)
  BY DEF Host, RowInStore, Rows, Display!Host, Display!RowInStore, Display!Rows
<1>3. \A run : Display!Host("normal_input", Display!normal_input(gt, run))
           <=> Host("normal_input", normal_input(gt, run))
  BY <1>1, <1>2, RingNormalInput
<1>4. /\ Display!Host("cr", Display!cr(gt))
           <=> Host("cr", cr(gt))
      /\ Display!Host("lf", Display!lf(gt))
           <=> Host("lf", lf(gt))
      /\ Display!Host("ff", Display!ff(gt))
           <=> Host("ff", ff(gt))
      /\ Display!Host("tab", Display!tab(gt))
           <=> Host("tab", tab(gt))
      /\ Display!Host("bs", Display!bs(gt))
           <=> Host("bs", bs(gt))
      /\ Display!Host("save_cursor", Display!save_cursor(gt))
           <=> Host("save_cursor", save_cursor(gt))
      /\ Display!Host("restore_cursor", Display!restore_cursor(gt))
           <=> Host("restore_cursor", restore_cursor(gt))
      /\ Display!Host("set_tab", Display!set_tab(gt))
           <=> Host("set_tab", set_tab(gt))
      /\ Display!Host("index_down", Display!index_down(gt))
           <=> Host("index_down", index_down(gt))
      /\ Display!Host("index_up", Display!index_up(gt))
           <=> Host("index_up", index_up(gt))
      /\ Display!Host("next_line", Display!next_line(gt))
           <=> Host("next_line", next_line(gt))
  BY <1>1, <1>2, RingCursorOps
<1>5. /\ Display!Host("reset", Display!reset(gt))
           <=> Host("reset", reset(gt))
      /\ Display!Host("screen_align", Display!screen_align(gt))
           <=> Host("screen_align", screen_align(gt))
  BY <1>1, <1>2, RingReset, RingAlign
<1>6. \A p :
      /\ Display!Host("clear_tab", Display!clear_tab(gt, p))
           <=> Host("clear_tab", clear_tab(gt, p))
      /\ Display!Host("cursor_left", Display!cursor_left(gt, p))
           <=> Host("cursor_left", cursor_left(gt, p))
      /\ Display!Host("cursor_right", Display!cursor_right(gt, p))
           <=> Host("cursor_right", cursor_right(gt, p))
      /\ Display!Host("cursor_up", Display!cursor_up(gt, p))
           <=> Host("cursor_up", cursor_up(gt, p))
      /\ Display!Host("cursor_down", Display!cursor_down(gt, p))
           <=> Host("cursor_down", cursor_down(gt, p))
  BY <1>1, <1>2, RingCursorOps
<1>7. \A p :
      /\ Display!Host("delete_char", Display!delete_char(gt, p))
           <=> Host("delete_char", delete_char(gt, p))
      /\ Display!Host("insert_char", Display!insert_char(gt, p))
           <=> Host("insert_char", insert_char(gt, p))
      /\ Display!Host("erase_char", Display!erase_char(gt, p))
           <=> Host("erase_char", erase_char(gt, p))
      /\ Display!Host("delete_line", Display!delete_line(gt, p))
           <=> Host("delete_line", delete_line(gt, p))
      /\ Display!Host("insert_line", Display!insert_line(gt, p))
           <=> Host("insert_line", insert_line(gt, p))
      /\ Display!Host("erase_line", Display!erase_line(gt, p))
           <=> Host("erase_line", erase_line(gt, p))
      /\ Display!Host("erase_display", Display!erase_display(gt, p))
           <=> Host("erase_display", erase_display(gt, p))
  BY <1>1, <1>2, RingCharOps, RingEraseDisplay
<1>8. \A p, q :
      /\ Display!Host("cursor_position", Display!cursor_position(gt, p, q))
           <=> Host("cursor_position", cursor_position(gt, p, q))
      /\ Display!Host("vt52_cursor", Display!vt52_cursor(gt, p, q))
           <=> Host("vt52_cursor", vt52_cursor(gt, p, q))
      /\ Display!Host("set_margins", Display!set_margins(gt, p, q))
           <=> Host("set_margins", set_margins(gt, p, q))
      /\ Display!Host("set_colors", Display!set_colors(gt, p, q))
           <=> Host("set_colors", set_colors(gt, p, q))
      /\ Display!Host("set_mode", Display!set_mode(gt, p))
           <=> Host("set_mode", set_mode(gt, p))
      /\ Display!Host("clear_mode", Display!clear_mode(gt, p))
           <=> Host("clear_mode", clear_mode(gt, p))
  BY <1>1, <1>2, RingCursorOps, RingModeOps
<1>9. /\ Display!Host("keypad_application", Display!set_mode_flag(gt, {"KEYAPPMODE"}))
           <=> Host("keypad_application", set_mode_flag(gt, {"KEYAPPMODE"}))
      /\ Display!Host("keypad_numeric", Display!clear_mode_flag(gt, {"KEYAPPMODE"}))
           <=> Host("keypad_numeric", clear_mode_flag(gt, {"KEYAPPMODE"}))
  BY <1>1, <1>2, RingModes
<1> QED
  BY <1>1, <1>3, <1>4, <1>5, <1>6, <1>7, <1>8, <1>9, ZenonT(60)
     DEF HostOutput, Display!HostOutput

\* What update_changes paints.
LEMMA RingPainted ==
  \A g, s, c : Display!Painted(g, s) = Painted(g, s) /\ Display!DrawnCursor(g, c) = DrawnCursor(g, c)
BY DEF Painted, Moved, AsksToMove, Region, Dirty, PaintedCell, SameRun, TextAt,
       LesserOf, GreaterOf, Space, DrawnCursor,
       Display!Painted, Display!Moved, Display!AsksToMove,
       Display!Region, Display!Dirty, Display!PaintedCell, Display!SameRun,
       Display!TextAt, Display!LesserOf, Display!GreaterOf, Display!Space,
       Display!DrawnCursor

LEMMA RingClass ==
  \A g, x, y, w, h :
    /\ Display!AfterUpdate(g) = AfterUpdate(g)
    /\ Display!UpdatesAtEnd(g) <=> UpdatesAtEnd(g)
    /\ Display!Exposed(g, x, y, w, h) = Exposed(g, x, y, w, h)
    /\ Display!RowInStore(g) <=> RowInStore(g)
    /\ Display!DrawsInStore(g) <=> DrawsInStore(g)
BY DEF AfterUpdate, UpdatesAtEnd, Exposed, ChangedLines, LesserOf, GreaterOf, Rows,
       RowInStore, DrawsInStore, Display!RowInStore, Display!DrawsInStore,
       Display!AfterUpdate, Display!UpdatesAtEnd, Display!Exposed,
       Display!ChangedLines, Display!LesserOf, Display!GreaterOf, Display!Rows

\* And so is the constructor.
LEMMA RingInit ==
  Display!GTermInit <=> GTermInit
BY RingReset, RingModes
   DEF GTermInit, NewGTerm, Rows, Cols, Uninit, Display!GTermInit,
       Display!NewGTerm, Display!Rows, Display!Cols, Display!Uninit

----------------------------------------------------------------------------
(* The steps of the widget                                                 *)

\* The inductive invariant of the widget: the region is the screen, and what the
\* ring shows is tracked as a display would be.
FlInv == /\ Good(gt) /\ Whole(gt)
         /\ topvis \in Ring
         /\ Shown \in ScreenOf(gt)
         /\ Kept(gt, Shown)

\* A region that is the whole screen has no margin too low.
LEMMA WholeIsGood ==
  ASSUME NEW g, Fit(g), Whole(g)
  PROVE  Good(g)
<1>1. g.height \in 2 .. GT_MAXHEIGHT /\ GT_MAXHEIGHT \in Nat /\ g.scroll_top = 0
  BY BaseFacts DEF Fit, Whole
<1>2. g.scroll_top + g.height - 2 \in Rows
  BY <1>1 DEF Rows
<1> QED
  BY <1>2, GoodIsFit DEF Fit, MarginTooLow

\* The first states keep it.
LEMMA FlInitInv ==
  ASSUME FlInit
  PROVE  FlInv
<1>1. Good(gt) /\ Kept(gt, Shown)
  BY FirstBlank DEF FlInit
<1>2. Whole(gt)
  <2>1. PICK sz \in Sizes, junk \in SUBSET Renditions :
          gt = set_mode_flag(NewGTerm(sz[1], sz[2], junk), InitModes)
    BY DEF FlInit, GTermInit
  <2>2. <<sz[1], sz[2]>> \in Sizes
    BY DimensionAssumption
  <2>3. Good(RawGTerm(sz[1], sz[2], junk))
    BY <2>2, RawGTermGood
  <2>4. Whole(reset(RawGTerm(sz[1], sz[2], junk)))
    BY <2>3, ResetWhole
  <2>5. NewGTerm(sz[1], sz[2], junk) = reset(RawGTerm(sz[1], sz[2], junk))
    BY DEF NewGTerm, RawGTerm
  <2> QED
    BY <2>1, <2>4, <2>5, ModeKeepsMargins, ModeKeepsSize DEF Whole, SameMargins, SameSize
<1>3. topvis \in Ring /\ topvis = 0
  BY <1>1, RingFacts DEF FlInit, Ring
<1>4. Shown \in ScreenOf(gt)
  <2>1. <<Space, <<DefaultColor, {}>>>> \in Cell
    BY DataAssumption DEF Cell, Written, Glyphs
  <2>2. ASSUME NEW y \in ScreenRows(gt), NEW x \in ScreenCols(gt)
        PROVE  lines[RingLine(topvis, y)][x] \in Cell
    <3>1. RingLine(topvis, y) \in Ring /\ x \in Cols
      BY <1>1, <1>3, LineInRing, ScreenInStore DEF ScreenRows
    <3> QED
      BY <2>1, <3>1 DEF FlInit
  <2> QED
    BY <2>2 DEF Shown, ScreenOf
<1> QED
  BY <1>1, <1>2, <1>3, <1>4 DEF FlInv

\* The first states are the display's.
LEMMA FlInitDisplay ==
  ASSUME FlInit
  PROVE  Display!Init
<1>1. Good(gt) /\ topvis = 0 /\ crs = <<1, 1>> /\ in_input = FALSE /\ GTermInit
  BY FirstBlank DEF FlInit
<1>2. ASSUME NEW y \in ScreenRows(gt), NEW x \in ScreenCols(gt)
      PROVE  lines[RingLine(topvis, y)][x] = <<Space, <<DefaultColor, {}>>>>
  <2>1. RingLine(topvis, y) \in Ring /\ x \in Cols
    BY <1>1, LineInRing, ScreenInStore DEF ScreenRows
  <2> QED
    BY <2>1 DEF FlInit
<1>3. Shown = [y \in ScreenRows(gt) |-> [x \in ScreenCols(gt) |->
                  <<Space, <<DefaultColor, {}>>>>]]
  BY <1>2 DEF Shown
<1>4. Shown = [y \in Display!ScreenRows(gt) |-> [x \in Display!ScreenCols(gt) |->
                  <<Display!Space, <<DefaultColor, {}>>>>]]
  BY <1>3 DEF ScreenRows, ScreenCols, Space,
              Display!ScreenRows, Display!ScreenCols, Display!Space
<1> QED
  BY <1>1, <1>4, RingInit DEF Display!Init

\* update_changes of the widget is update_changes of the display, and keeps the
\* invariant if what it leaves in h is well formed and tracked.
LEMMA FlUpdateIs ==
  ASSUME WholeScreen, FlInv, NEW h, Good(h), Whole(h), SameSize(h, gt), FlUpdate(gt, h),
         Kept(h, Painted(gt, Shown))
  PROVE  FlInv' /\ Display!UpdateChanges(gt, h)
<1>1. Tracks(gt, Shown)
  BY DEF FlInv, Kept, Steady, WholeScreen
<1>2. topvis' \in Ring /\ Shown' = Painted(gt, Shown)
  BY <1>1, FlUpdateShown DEF FlInv
<1>3. gt' = h /\ crs' = DrawnCursor(gt, crs)
  BY DEF FlUpdate
<1>4. Shown' \in ScreenOf(h)
  <2>1. ScreenOf(h) = ScreenOf(gt)
    BY DEF SameSize, ScreenOf, ScreenRows, ScreenCols
  <2>2. Painted(gt, Shown) \in ScreenOf(gt)
    BY PaintedType DEF FlInv
  <2> QED
    BY <1>2, <2>1, <2>2
<1>5. FlInv'
  <2>1. Good(gt') /\ Whole(gt') /\ Shown' \in ScreenOf(gt') /\ Kept(gt', Shown')
    BY <1>2, <1>3, <1>4
  <2> QED
    BY <1>2, <2>1 DEF FlInv, Ring
<1>6. Display!Painted(gt, Shown) = Painted(gt, Shown)
      /\ Display!DrawnCursor(gt, crs) = DrawnCursor(gt, crs)
  BY RingPainted
<1>7. Display!UpdateChanges(gt, h)
  BY <1>2, <1>3, <1>6, RingClass DEF FlUpdate, Display!UpdateChanges
<1> QED
  BY <1>5, <1>7

\* What update_changes leaves is a whole screen, tracked.
LEMMA FlAfterUpdate ==
  ASSUME FlInv
  PROVE  LET h == AfterUpdate(gt)
         IN  /\ Good(h) /\ Whole(h) /\ SameSize(h, gt) /\ h.pending_scroll = 0
             /\ Kept(h, Painted(gt, Shown))
<1>1. Good(AfterUpdate(gt)) /\ Kept(AfterUpdate(gt), Painted(gt, Shown))
  BY AfterUpdateGood, UpdateKept DEF FlInv
<1>2. SameSize(AfterUpdate(gt), gt) /\ AfterUpdate(gt).pending_scroll = 0
  BY AfterUpdateKeepsSize, AfterUpdateFields DEF FlInv
<1>3. Whole(AfterUpdate(gt))
  BY DEF FlInv, Whole, AfterUpdate
<1> QED
  BY <1>1, <1>2, <1>3

\* Every step of the widget keeps the invariant and is a step of the display, or
\* none.
LEMMA FlStep ==
  ASSUME WholeScreen, FlInv, [FlNext]_flvars
  PROVE  FlInv' /\ [Display!Next]_(Display!vars)
<1>1. CASE FlProcessInput
  <2>1. /\ HostOutput /\ in_input' = TRUE
        /\ lines' = lines /\ topvis' = topvis /\ crs' = crs
    BY <1>1 DEF FlProcessInput
  <2>2. Good(gt') /\ Whole(gt') /\ SameSize(gt', gt) /\ Kept(gt', Shown)
    BY <2>1, HostOutputFit, HostOutputKeepsWhole, WholeIsGood, HostOutputKeepsSize,
       HostOutputKept DEF FlInv
  <2>3. ScreenRows(gt') = ScreenRows(gt) /\ ScreenCols(gt') = ScreenCols(gt)
    BY <2>2 DEF SameSize, ScreenRows, ScreenCols
  <2>4. Shown' = Shown
    BY <2>1, <2>3 DEF Shown
  <2>5. ScreenOf(gt') = ScreenOf(gt)
    BY <2>3 DEF ScreenOf
  <2>6. FlInv'
    BY <2>1, <2>2, <2>4, <2>5 DEF FlInv, Ring
  <2>7. Display!ProcessInput
    BY <2>1, <2>4, RingHostOutput DEF Display!ProcessInput
  <2> QED
    BY <2>6, <2>7 DEF Display!Next
<1>2. CASE FlMarginsAfterScroll
  <2>1. PICK p0 \in Params, p1 \in Params :
          FlUpdate(gt, set_margins(AfterUpdate(gt), p0, p1))
    BY <1>2 DEF FlMarginsAfterScroll
  <2>2. "set_margins" \in Ops /\ gt.pending_scroll # 0 /\ in_input' = TRUE
        /\ Display!RowInStore(gt)
    BY <1>2, RingClass DEF FlMarginsAfterScroll
  <2>3. p0 = 0 /\ p1 = 0
    BY <2>2 DEF WholeScreen
  <2>4. PICK u : u = AfterUpdate(gt)
    OBVIOUS
  <2>5. /\ Good(u) /\ Whole(u) /\ SameSize(u, gt) /\ u.pending_scroll = 0
        /\ Kept(u, Painted(gt, Shown))
    BY <2>4, FlAfterUpdate
  <2>6. PICK h : h = set_margins(u, p0, p1)
    OBVIOUS
  <2>7. Good(h) /\ Kept(h, Painted(gt, Shown))
    BY <2>5, <2>6, SetMarginsGood, SetMarginsKept
  <2>8. Whole(h)
    BY <2>3, <2>5, <2>6, EdgesWhole
  <2>9. SameSize(h, gt)
    BY <2>5, <2>6, SequencesKeepSize DEF SameSize
  <2>10. FlInv' /\ Display!UpdateChanges(gt, h)
    BY <2>1, <2>4, <2>6, <2>7, <2>8, <2>9, FlUpdateIs
  <2>11. h = Display!set_margins(Display!AfterUpdate(gt), p0, p1)
    BY <2>4, <2>6, RingModeOps, RingClass
  <2>12. Display!MarginsAfterScroll
    BY <2>2, <2>10, <2>11 DEF Display!MarginsAfterScroll
  <2> QED
    BY <2>10, <2>12 DEF Display!Next
<1>3. ASSUME FlUpdate(gt, AfterUpdate(gt))
      PROVE  FlInv' /\ Display!UpdateChanges(gt, Display!AfterUpdate(gt))
  BY <1>3, FlAfterUpdate, FlUpdateIs, RingClass
<1>4. CASE FlEndOfInput
  <2>1. CASE UpdatesAtEnd(gt) /\ FlUpdate(gt, AfterUpdate(gt))
    <3>1. FlInv' /\ Display!UpdateChanges(gt, Display!AfterUpdate(gt))
      BY <1>3, <2>1
    <3>2. Display!EndOfInput
      BY <1>4, <2>1, <3>1, RingClass DEF FlEndOfInput, Display!EndOfInput
    <3> QED
      BY <3>1, <3>2 DEF Display!Next
  <2>2. CASE ~UpdatesAtEnd(gt) /\ UNCHANGED <<gt, lines, topvis, crs>>
    <3>1. Shown' = Shown /\ gt' = gt /\ topvis' = topvis /\ crs' = crs
      BY <2>2 DEF Shown
    <3>2. FlInv'
      BY <3>1 DEF FlInv, Ring
    <3>3. Display!EndOfInput
      BY <1>4, <2>2, <3>1, RingClass DEF FlEndOfInput, Display!EndOfInput
    <3> QED
      BY <3>2, <3>3 DEF Display!Next
  <2> QED
    BY <1>4, <2>1, <2>2 DEF FlEndOfInput
<1>5. CASE upd_term_cb
  <2>1. FlInv' /\ Display!UpdateChanges(gt, Display!AfterUpdate(gt))
    BY <1>3, <1>5 DEF upd_term_cb
  <2>2. Display!Update
    BY <1>5, <2>1 DEF upd_term_cb, Display!Update
  <2> QED
    BY <2>1, <2>2 DEF Display!Next
<1>6. CASE UNCHANGED flvars
  <2>1. Shown' = Shown /\ gt' = gt /\ topvis' = topvis /\ crs' = crs /\ in_input' = in_input
    BY <1>6 DEF flvars, Shown
  <2>2. FlInv'
    BY <2>1 DEF FlInv, Ring
  <2> QED
    BY <2>1, <2>2 DEF Display!vars
<1> QED
  BY <1>1, <1>2, <1>4, <1>5, <1>6 DEF FlNext

\* While the scroll region is the whole screen, the widget shows on its ring what a
\* display that copies the region would show: MoveChars may turn the whole ring, as
\* the rows that come round are dirty and painted again.
THEOREM WidgetIsDisplay ==
  ASSUME WholeScreen
  PROVE  FlSpec => ImplementsDisplay
<1>1. FlInit => FlInv /\ Display!Init
  BY FlInitInv, FlInitDisplay
<1>2. FlInv /\ [FlNext]_flvars => FlInv' /\ [Display!Next]_(Display!vars)
  BY FlStep
<1> QED
  BY <1>1, <1>2, PTL DEF FlSpec, ImplementsDisplay, Display!Spec
=============================================================================
