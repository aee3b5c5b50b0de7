------------------------------ MODULE Fl_Term ------------------------------
(***************************************************************************)
(* The FLTK widget that shows a GTerm (flterm/Fl_Term.cxx).  The widget    *)
(* keeps the characters in a ring of TXT_QUEUE lines and answers a request *)
(* to copy part of the screen by moving topvis, the ring index of the      *)
(* first visible row.                                                      *)
(*                                                                         *)
(* The widget is never resized: its resize method is marked as not         *)
(* working, and term_sh.cxx makes the window fixed for that reason.        *)
(***************************************************************************)
EXTENDS GTerm

CONSTANT TXT_QUEUE   \* lines of the ring

ASSUME QueueAssumption ==
  /\ TXT_QUEUE \in Nat
  /\ \A sz \in Sizes : sz[2] <= TXT_QUEUE

VARIABLES
  lines,     \* the ring, together with its style buffer
  topvis     \* ring index of the first visible row

flvars == <<gt, lines, topvis, crs, in_input>>

Ring == 0 .. TXT_QUEUE - 1

RingLine(top, y) == (top + y) % TXT_QUEUE

\* Turns the ring the other way, for the mutation tests.
MoveCharsBack(g, top) ==
  IF AsksToMove(g) THEN (top - g.pending_scroll) % TXT_QUEUE ELSE top

\* MoveChars ignores the rectangle and turns the whole ring.
MoveChars(g, top) ==
  IF AsksToMove(g) THEN (top + g.pending_scroll) % TXT_QUEUE ELSE top

\* DrawText and ClearChars: the dirty cells of every row, at the ring line the
\* row has after the move.
Repaint(g, top) ==
  [r \in Ring |-> [x \in Cols |->
     IF \E y \in ScreenRows(g) : RingLine(top, y) = r /\ x \in Dirty(g, y)
     THEN PaintedCell(g, CHOOSE y \in ScreenRows(g) : RingLine(top, y) = r, x)
     ELSE lines[r][x]]]

FlUpdate(g, h) == /\ DrawsInStore(g)
                  /\ gt' = h
                  /\ topvis' = MoveChars(g, topvis)
                  /\ lines' = Repaint(g, topvis')
                  /\ crs' = DrawnCursor(g, crs)

\* mfd_cb hands what it has read to ProcessInput.
FlProcessInput == /\ HostOutput
                  /\ in_input' = TRUE
                  /\ UNCHANGED <<lines, topvis, crs>>

FlMarginsAfterScroll ==
  /\ "set_margins" \in Ops
  /\ RowInStore(gt) /\ gt.pending_scroll # 0
  /\ \E p0, p1 \in Params :
       FlUpdate(gt, set_margins(AfterUpdate(gt), p0, p1))
  /\ in_input' = TRUE

FlEndOfInput ==
  /\ in_input
  /\ in_input' = FALSE
  /\ \/ UpdatesAtEnd(gt) /\ FlUpdate(gt, AfterUpdate(gt))
     \/ ~UpdatesAtEnd(gt) /\ UNCHANGED <<gt, lines, topvis, crs>>

upd_term_cb == /\ ~in_input
               /\ FlUpdate(gt, AfterUpdate(gt))
               /\ UNCHANGED in_input

FlInit == /\ GTermInit
          /\ lines = [r \in Ring |-> [x \in Cols |-> <<Space, <<DefaultColor, {}>>>>]]
          /\ topvis = 0
          /\ crs = <<1, 1>>
          /\ in_input = FALSE

FlNext == FlProcessInput \/ FlMarginsAfterScroll \/ FlEndOfInput \/ upd_term_cb

FlSpec == FlInit /\ [][FlNext]_flvars

----------------------------------------------------------------------------
(* Properties                                                              *)

\* What Fl_Term::draw shows: th lines of the ring from topvis on.
Shown == [y \in ScreenRows(gt) |-> [x \in ScreenCols(gt) |->
            lines[RingLine(topvis, y)][x]]]

Display == INSTANCE GTermDisplay WITH screen <- Shown

\* While the scroll region is the whole screen, the widget is a display that
\* does what gterm.hpp's drawing functions ask for: the ring is hidden.
ImplementsDisplay == Display!Spec

\* The terminal keeps its size, and a host that sets margins sets them to the edges
\* of the screen.
WholeScreen == /\ \A s1, s2 \in Sizes : s1 = s2
               /\ "set_margins" \in Ops => Params \subseteq {0}

============================================================================
