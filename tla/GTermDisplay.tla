---------------------------- MODULE GTermDisplay ----------------------------
(***************************************************************************)
(* GTerm driving a display that does exactly what gterm.hpp's drawing      *)
(* functions ask for: MoveChars copies a rectangle of the screen, DrawText *)
(* and ClearChars replace the cells they name.  This is the promise that   *)
(* a widget which owns a GTerm has to keep; Fl_Term is checked against it. *)
(***************************************************************************)
EXTENDS GTerm

VARIABLE screen   \* what the display shows, row by row

vars == <<gt, screen, crs, in_input>>

----------------------------------------------------------------------------
(* update_changes, as the display sees it                                  *)

\* MoveChars: the rows of the scroll region whose source is in the region too.
Moved(g, s) ==
  [y \in DOMAIN s |->
     IF AsksToMove(g) /\ y \in Region(g) /\ y + g.pending_scroll \in Region(g)
     THEN s[y + g.pending_scroll] ELSE s[y]]

Painted(g, s) ==
  [y \in DOMAIN s |->
     [x \in DOMAIN s[y] |-> IF x \in Dirty(g, y) THEN PaintedCell(g, y, x)
                            ELSE Moved(g, s)[y][x]]]

\* update_changes is called with the GTerm in state g and leaves it in state h.
UpdateChanges(g, h) == /\ DrawsInStore(g)
                       /\ gt' = h
                       /\ screen' = Painted(g, screen)
                       /\ crs' = DrawnCursor(g, crs)

----------------------------------------------------------------------------
(* Actions                                                                 *)

ProcessInput == /\ HostOutput
                /\ in_input' = TRUE
                /\ UNCHANGED <<screen, crs>>

\* Changing the margins first brings the display up to date.
MarginsAfterScroll ==
  /\ "set_margins" \in Ops
  /\ RowInStore(gt) /\ gt.pending_scroll # 0
  /\ \E p0, p1 \in Params :
       UpdateChanges(gt, set_margins(AfterUpdate(gt), p0, p1))
  /\ in_input' = TRUE

EndOfInput ==
  /\ in_input
  /\ in_input' = FALSE
  /\ \/ UpdatesAtEnd(gt) /\ UpdateChanges(gt, AfterUpdate(gt))
     \/ ~UpdatesAtEnd(gt) /\ UNCHANGED <<gt, screen, crs>>

\* The timeout looks at the scroll only, for the mutation tests.
UpdateOnScroll == /\ ~in_input
                  /\ gt.pending_scroll # 0
                  /\ UpdateChanges(gt, AfterUpdate(gt))
                  /\ UNCHANGED in_input

\* upd_term_cb, and the first screen.
Update == /\ ~in_input
          /\ UpdateChanges(gt, AfterUpdate(gt))
          /\ UNCHANGED in_input

ExposeArea ==
  /\ ~in_input
  /\ LET g == Exposed(gt, 0, 0, gt.width, gt.height)
     IN  IF "DEFERUPDATE" \in g.mode_flags
         THEN gt' = g /\ UNCHANGED <<screen, crs>>
         ELSE UpdateChanges(g, AfterUpdate(g))
  /\ UNCHANGED in_input

\* The cells the display did not have before show anything.
Resize ==
  /\ ~in_input
  /\ \E sz \in Sizes,
        other \in (Chars \cup {Space}) \X {<<DefaultColor, {}>>} :
       /\ sz # <<gt.width, gt.height>>
       /\ gt' = ResizeTerminal(gt, sz[1], sz[2])
       /\ screen' = [y \in 0 .. sz[2] - 1 |-> [x \in 0 .. sz[1] - 1 |->
                      IF y < gt.height /\ x < gt.width THEN screen[y][x]
                      ELSE other]]
  /\ UNCHANGED <<crs, in_input>>

Init == /\ GTermInit
        /\ screen = [y \in ScreenRows(gt) |-> [x \in ScreenCols(gt) |->
                       <<Space, <<DefaultColor, {}>>>>]]
        /\ crs = <<1, 1>>
        /\ in_input = FALSE

Next == \/ ProcessInput \/ MarginsAfterScroll \/ EndOfInput
        \/ Update \/ ExposeArea \/ Resize

Spec == Init /\ [][Next]_vars

\* The event loop returns from every read callback and keeps serving timeouts.
Fairness == WF_vars(EndOfInput) /\ SF_vars(Update)

FairSpec == Spec /\ Fairness

----------------------------------------------------------------------------
(* Properties                                                              *)

\* Every field of the GTerm object and of the display has its type.
TypeOK ==
  /\ gt \in GTermType
  /\ <<gt.width, gt.height>> \in Sizes
  /\ screen \in [ScreenRows(gt) -> [ScreenCols(gt) -> Cell]]
  /\ crs \in Int \X Int
  /\ in_input \in BOOLEAN

\* scroll_region and reset only ever permute linenumbers: no two rows share a
\* line of the text store, so writing one row never changes another.
LinesDistinct == \A y1, y2 \in Rows : gt.linenumbers[y1] = gt.linenumbers[y2]
                                        => y1 = y2

\* The rows and columns that actions.cpp uses as indices without a check are
\* inside the arrays, however margins, relative addressing, saved positions and
\* resizes are combined.  A top margin may be anywhere; only one so far below the
\* screen that the store has no room for a screen there takes the cursor out of it.
IndicesInStore == /\ RowInStore(gt) \/ MarginTooLow(gt)
                  /\ gt.cursor_x \in Cols
                  /\ gt.save_x \in Cols /\ gt.save_y \in Rows
                  /\ gt.scroll_bot < gt.height

\* The memory that the constructor does not clear is never on the screen.
NoUninitShown ==
  \A y \in ScreenRows(gt), x \in ScreenCols(gt) :
    TextAt(gt, y, x) # Uninit /\ screen[y][x] # Uninit

\* A space looks the same in every colour that ClearChars may give it.
Looks(cell) == IF cell[1] = Space THEN <<Space, <<DefaultColor, {}>>>> ELSE cell

\* The row of the display that holds what row y shows, before the copy that
\* update_changes still owes.
ShownAt(g, y) == IF AsksToMove(g) /\ y \in Region(g) THEN y + g.pending_scroll
                 ELSE y

\* The bookkeeping between GTerm and display: a cell outside the dirty range of
\* its row is on the display already, at its own place or where the pending
\* scroll will fetch it from.
DisplayTracks ==
  \A y \in ScreenRows(gt), x \in ScreenCols(gt) :
    x \notin Dirty(gt, y) =>
      /\ AsksToMove(gt) /\ y \in Region(gt) => ShownAt(gt, y) \in Region(gt)
      /\ Looks(screen[ShownAt(gt, y)][x]) = Looks(TextAt(gt, y, x))

\* The display shows the text.
UpToDate == \A y \in ScreenRows(gt), x \in ScreenCols(gt) :
              Looks(screen[y][x]) = Looks(TextAt(gt, y, x))

\* With direct updates the user sees the whole text whenever ProcessInput has
\* returned and no expose or resize is outstanding.
ShownAfterInput == [][EndOfInput /\ "DEFERUPDATE" \notin gt.mode_flags
                        => UpToDate']_vars

\* With deferred updates the display catches up again and again.
CatchesUp == []<>UpToDate

\* The host's output may reach ProcessInput cut into any pieces: while lines wrap,
\* two characters that arrive in one read leave the text they leave when they
\* arrive in two.
WrappedRunsAreOneByOne ==
  \A a, b \in Chars \cup {Space} :
    LET both == normal_input(gt, <<a, b>>)
        first == normal_input(gt, <<a>>)
    IN  \/ "NOEOLWRAP" \in gt.mode_flags \/ ~RowInStore(gt)
        \/ gt.cursor_x = gt.width - 1
        \/ both.text = normal_input(first, <<b>>).text
============================================================================
