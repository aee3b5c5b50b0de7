------------------------------ MODULE MCGTerm ------------------------------
(***************************************************************************)
(* Instances of GTermDisplay for TLC.  The screen is finite but its        *)
(* contents multiply quickly, so a run follows the first MaxHost           *)
(* operations of the host, with updates, exposes and resizes in every      *)
(* order among them.                                                       *)
(***************************************************************************)
EXTENDS GTermDisplay

CONSTANT MaxHost

VARIABLE host   \* operations the host has sent

mcvars == <<vars, host>>

MCInit == Init /\ host = 0

MCNext == \/ /\ host < MaxHost
             /\ ProcessInput \/ MarginsAfterScroll
             /\ host' = host + 1
          \/ /\ EndOfInput \/ Update \/ ExposeArea \/ Resize
             /\ UNCHANGED host

MCSpec == MCInit /\ [][MCNext]_mcvars

TwoSizes == {<<2, 2>>, <<3, 3>>}

ScrollOps == {"normal_input", "lf", "index_up", "set_margins", "insert_line",
              "delete_line", "cursor_position"}

EditOps == {"normal_input", "cr", "bs", "insert_char", "delete_char",
            "erase_char", "erase_line", "erase_display", "set_mode",
            "clear_mode", "set_colors", "cursor_left", "cursor_right",
            "screen_align", "next_line"}

ResizeOps == {"normal_input", "lf", "ff", "tab", "set_tab", "clear_tab",
              "save_cursor", "restore_cursor", "index_down", "index_up",
              "cursor_up", "cursor_down", "vt52_cursor", "set_margins", "reset",
              "keypad_application", "keypad_numeric", "cursor_position",
              "set_mode"}

ScreenOps == ScrollOps \cup EditOps \cup ResizeOps
============================================================================
