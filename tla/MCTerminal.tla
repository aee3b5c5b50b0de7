----------------------------- MODULE MCTerminal -----------------------------
(***************************************************************************)
(* An instance of Terminal for TLC: the first MaxReads reads of the host,  *)
(* with sequences cut between them.                                        *)
(***************************************************************************)
EXTENDS Terminal, TLC

CONSTANT MaxReads

VARIABLE reads   \* reads so far

mcvars == <<tvars, reads>>

MCInit == TInit /\ reads = 0

MCNext == \/ reads < MaxReads /\ Read /\ reads' = reads + 1
          \/ /\ PrintRun \/ Margins \/ Operation \/ Collect \/ Return \/ Timer \/ Expose
             /\ UNCHANGED reads

MCSpec == MCInit /\ [][MCNext]_mcvars

Narrow == {<<2, 3>>}
X == [b \in 32 .. 255 |-> "x"]
White == <<7, 0>> :> "wb"

ASSUME Covered

\* Line feeds, a pair of characters, and the margins, addresses, line and
\* character commands, modes and renditions, in pieces.
Pieces == {<<LF>>, <<LF, LF, LF, 120>>, <<120, 120>>, <<ESC>>, <<ESC, 77>>, <<91>>,
           <<ESC, 91>>, <<50>>, <<50, 114>>, <<114>>, <<59, 50>>, <<72>>,
           <<76, LF>>, <<49, 109>>, <<63, 50, 108>>, <<89, 33, 34>>}
============================================================================
