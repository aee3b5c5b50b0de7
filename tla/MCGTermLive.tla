---------------------------- MODULE MCGTermLive ----------------------------
(***************************************************************************)
(* An instance of GTermDisplay in which the host never stops: the screen   *)
(* is so small that all its contents are explored.  It keeps its size, as  *)
(* the widget of the application does.                                     *)
(***************************************************************************)
EXTENDS GTermDisplay

TwoByTwo == {<<2, 2>>}

LiveNext == \/ ProcessInput \/ MarginsAfterScroll \/ EndOfInput
            \/ Update \/ ExposeArea

LiveSpec == Init /\ [][LiveNext]_vars /\ Fairness
============================================================================
