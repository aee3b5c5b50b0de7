----------------------------- MODULE MCFl_Term -----------------------------
(***************************************************************************)
(* Instances of Fl_Term for TLC: the first MaxHost operations of the host. *)
(***************************************************************************)
EXTENDS Fl_Term

CONSTANT MaxHost

VARIABLE host   \* operations the host has sent

MCInit == FlInit /\ host = 0

MCNext == \/ /\ host < MaxHost
             /\ FlProcessInput \/ FlMarginsAfterScroll
             /\ host' = host + 1
          \/ /\ FlEndOfInput \/ upd_term_cb
             /\ UNCHANGED host

MCSpec == MCInit /\ [][MCNext]_<<flvars, host>>

OneSize == {<<2, 3>>}

ASSUME WholeScreen

\* The margins stay at the edges of the screen.
WholeScreenOps == {"normal_input", "lf", "index_up", "insert_line",
                   "delete_line", "cursor_position", "erase_display",
                   "set_margins"}
============================================================================
