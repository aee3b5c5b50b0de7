---------------------------- MODULE GTermParser ----------------------------
(***************************************************************************)
(* How GTerm reads the bytes of the host (flterm/states.cpp,               *)
(* vt52_states.cpp, the loop of GTerm::ProcessInput and the methods on     *)
(* parameters in actions.cpp).  A state table has an entry per byte it     *)
(* knows, and a default; an entry names a method and the next state.       *)
(* A byte is its number.  got_param and quote_mode are set and never read. *)
(***************************************************************************)
EXTENDS Integers, Sequences

CONSTANT MAXPARAM   \* length of the array param

ASSUME ParamCountAssumption == MAXPARAM \in Nat \ {0}

BEL == 7
BS == 8
TAB == 9
LF == 10
FF == 12
CR == 13
ESC == 27

\* The cursor controls, which leave the parser in state st.
Controls(st) == {<<CR, "cr", st>>, <<LF, "lf", st>>, <<FF, "ff", st>>,
                 <<TAB, "tab", st>>, <<BS, "bs", st>>, <<BEL, "bell", st>>}

Digits == 48 .. 57

\* The entries of each state table, without the default.  The characters are
\* named at the end of the line.
normal_state == Controls("normal") \cup {<<ESC, "none", "esc">>}

esc_state == Controls("esc") \cup
  {<<91, "clear_param", "bracket">>,                               \* [
   <<62, "keypad_numeric", "normal">>,                             \* >
   <<61, "keypad_application", "normal">>,                         \* =
   <<55, "save_cursor", "normal">>, <<56, "restore_cursor", "normal">>, \* 7 8
   <<72, "set_tab", "normal">>, <<68, "index_down", "normal">>,    \* H D
   <<77, "index_up", "normal">>, <<69, "next_line", "normal">>,    \* M E
   <<99, "reset", "normal">>,                                      \* c
   <<40, "none", "cset_shiftin">>, <<41, "none", "cset_shiftout">>,\* ( )
   <<35, "none", "hash">>}                                         \* #

hash_state == {<<56, "screen_align", "normal">>}                   \* 8

bracket_state == Controls("bracket") \cup
  {<<63, "set_q_mode", "bracket">>, <<34, "set_quote_mode", "bracket">>, \* ? "
   <<59, "next_param", "bracket">>} \cup                           \* ;
  {<<d, "param_digit", "bracket">> : d \in Digits} \cup
  {<<65, "cursor_up", "normal">>, <<66, "cursor_down", "normal">>, \* A B
   <<67, "cursor_right", "normal">>, <<68, "cursor_left", "normal">>, \* C D
   <<72, "cursor_position", "normal">>, <<102, "cursor_position", "normal">>, \* H f
   <<99, "device_attrib", "normal">>, <<80, "delete_char", "normal">>, \* c P
   <<104, "set_mode", "normal">>, <<108, "clear_mode", "normal">>, \* h l
   <<115, "save_cursor", "normal">>, <<117, "restore_cursor", "normal">>, \* s u
   <<120, "request_param", "normal">>, <<114, "set_margins", "normal">>, \* x r
   <<77, "delete_line", "normal">>, <<110, "status_report", "normal">>, \* M n
   <<74, "erase_display", "normal">>, <<75, "erase_line", "normal">>, \* J K
   <<76, "insert_line", "normal">>, <<109, "set_colors", "normal">>, \* L m
   <<103, "clear_tab", "normal">>, <<64, "insert_char", "normal">>, \* g @
   <<88, "erase_char", "normal">>}                                 \* X

vt52_normal_state ==
  Controls("vt52_normal") \cup {<<ESC, "clear_param", "vt52_esc">>}

vt52_esc_state ==
  {<<65, "cursor_up", "vt52_normal">>, <<66, "cursor_down", "vt52_normal">>, \* A B
   <<67, "cursor_right", "vt52_normal">>, <<68, "cursor_left", "vt52_normal">>, \* C D
   <<89, "none", "vt52_cursory">>,                                 \* Y
   <<74, "erase_display", "vt52_normal">>, <<75, "erase_line", "vt52_normal">>, \* J K
   <<72, "cursor_position", "vt52_normal">>, <<73, "index_up", "vt52_normal">>, \* H I
   <<90, "vt52_ident", "vt52_normal">>, <<60, "none", "normal">>}  \* Z <

\* The tables; no cursor controls inside the sequences for character sets,
\* alignment and vt52.  Entries that do what the default does are left out.
Entries ==
  [normal |-> normal_state, esc |-> esc_state, bracket |-> bracket_state,
   cset_shiftin |-> {}, cset_shiftout |-> {}, hash |-> hash_state,
   vt52_normal |-> vt52_normal_state, vt52_esc |-> vt52_esc_state,
   vt52_cursory |-> {}, vt52_cursorx |-> {}]

\* The entry for byte -1, which ends every table.
Default ==
  [normal |-> <<-1, "normal_input", "normal">>, esc |-> <<-1, "none", "normal">>,
   bracket |-> <<-1, "none", "normal">>, cset_shiftin |-> <<-1, "none", "normal">>,
   cset_shiftout |-> <<-1, "none", "normal">>, hash |-> <<-1, "none", "normal">>,
   vt52_normal |-> <<-1, "normal_input", "vt52_normal">>,
   vt52_esc |-> <<-1, "none", "vt52_normal">>,
   vt52_cursory |-> <<-1, "vt52_cursory", "vt52_cursorx">>,
   vt52_cursorx |-> <<-1, "vt52_cursorx", "vt52_normal">>]

States == DOMAIN Default

\* The search for byte b in the current table.
EntryFor(st, b) == LET found == {e \in Entries[st] : e[1] = b}
                   IN  IF found = {} THEN Default[st] ELSE CHOOSE e \in found : TRUE

\* As long as no more than MAXPARAM parameters are separated.
ParserType == [current_state : States, nparam : 0 .. MAXPARAM - 1,
               param : [0 .. MAXPARAM - 1 -> Int], q_mode : {0, 1}]

NewParser == [current_state |-> "normal", nparam |-> 0,
              param |-> [n \in 0 .. MAXPARAM - 1 |-> 0], q_mode |-> 0]

Action(p, b) == EntryFor(p.current_state, b)[2]

\* Forgets to go back to the first parameter, for the mutation tests.
clear_param_keeps_nparam(p) ==
  [p EXCEPT !.param = [n \in 0 .. MAXPARAM - 1 |-> 0], !.q_mode = 0]

clear_param(p) == [p EXCEPT !.nparam = 0, !.q_mode = 0,
                            !.param = [n \in 0 .. MAXPARAM - 1 |-> 0]]

param_digit(p, b) == [p EXCEPT !.param[p.nparam] = @ * 10 + b - 48]

\* The code has no check: nparam may leave the array.
next_param(p) == [p EXCEPT !.nparam = @ + 1]

\* The row of a vt52 address, between the first and the last but one.
vt52_cursory(p, b, height) ==
  LET y == IF b - 32 < 1 THEN 1 ELSE b - 32
  IN  [p EXCEPT !.param[0] = IF y >= height THEN height - 1 ELSE y]

\* What set_mode and clear_mode switch on.
ModeNumber(p) == p.param[0] + 1000 * p.q_mode

\* Leaves the redirection out, for the mutation tests.
TurnNotRedirected(p, b, height) ==
  LET q == [p EXCEPT !.current_state = EntryFor(p.current_state, b)[3]]
      act == Action(p, b)
  IN  CASE act = "clear_param" -> clear_param(q)
        [] act = "set_q_mode" -> [q EXCEPT !.q_mode = 1]
        [] act = "param_digit" -> param_digit(q, b)
        [] act = "next_param" -> next_param(q)
        [] act = "vt52_cursory" -> vt52_cursory(q, b, height)
        [] OTHER -> q

\* One turn of the loop of ProcessInput: the state changes first, because the
\* method may change it again.
Turn(p, b, height) ==
  LET q == [p EXCEPT !.current_state = EntryFor(p.current_state, b)[3]]
      act == Action(p, b)
  IN  CASE act = "clear_param" -> clear_param(q)
        [] act = "set_q_mode" -> [q EXCEPT !.q_mode = 1]
        [] act = "param_digit" -> param_digit(q, b)
        [] act = "next_param" -> next_param(q)
        [] act = "vt52_cursory" -> vt52_cursory(q, b, height)
        [] act = "reset" -> [q EXCEPT !.current_state = "normal"]
        [] act = "clear_mode" /\ ModeNumber(p) = 1002
             -> [q EXCEPT !.current_state = "vt52_normal"]
        [] OTHER -> q

\* The methods that only collect a sequence.
Collecting == {"none", "clear_param", "set_q_mode", "set_quote_mode",
               "param_digit", "next_param", "vt52_cursory"}

ControlOps == {"cr", "lf", "ff", "tab", "bs", "bell"}
============================================================================
