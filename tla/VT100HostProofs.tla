--------------------------- MODULE VT100HostProofs --------------------------
(***************************************************************************)
(* The parser of GTerm carries out what a host means, for every length of  *)
(* the array param, every number of parameters that fits in it, all sets   *)
(* of numbers and every height of the screen.                              *)
(*                                                                         *)
(* The inductive invariant HostInv says that parser and host are in the    *)
(* same Phase: nothing is under way (Idle), or the parser has read exactly *)
(* the bytes of one command that todo does not hold any more.  For a       *)
(* command with numbers (WithNumbers) that is the hard part.  Its bytes    *)
(* are built by the recursive function in Body; Shaped says where in them  *)
(* each spelled number and each semicolon is, and TextShaped shows that    *)
(* they are there, by induction over the numbers (UpTo).  Reading then     *)
(* says what j digits of number n have made of param and nparam: the       *)
(* numbers before n are complete, entry n - 1 has the value of the digits  *)
(* read so far, and the entries behind it are zero.                        *)
(*                                                                         *)
(* The proofs go through what a table holds for a byte (EntryIs and the    *)
(* lemmas behind it), what one turn of the loop of ProcessInput does for   *)
(* such an entry (TurnDoes), one lemma per kind of byte (EscByte to        *)
(* FinalByte, PlainStep to LeaveStep), one per action of the host.         *)
(***************************************************************************)
EXTENDS VT100Host, SequenceTheorems, NaturalsInduction, WellFoundedInduction, TLAPS

----------------------------------------------------------------------------
(* The state tables                                                        *)

\* A byte that a table has once is found there.
LEMMA EntryIs ==
  ASSUME NEW st, NEW e, e \in Entries[st], \A d \in Entries[st] : d[1] = e[1] => d = e
  PROVE  EntryFor(st, e[1]) = e
<1> DEFINE found == {d \in Entries[st] : d[1] = e[1]}
<1>1. found = {e}
  OBVIOUS
<1> HIDE DEF found
<1>2. found # {} /\ (CHOOSE d \in found : TRUE) = e
  BY <1>1
<1> QED
  BY <1>2 DEF EntryFor, found

Controlling == {CR, LF, FF, TAB, BS, BEL}
Open == {"normal", "esc", "bracket", "vt52_normal"}

\* The cursor controls of the tables that have them.
LEMMA ControlEntry ==
  ASSUME NEW st \in Open, NEW b \in Controlling
  PROVE  EntryFor(st, b) \in {<<b, op, st>> : op \in ControlOps}
<1>1. PICK op \in ControlOps : <<b, op, st>> \in Controls(st)
                               /\ \A d \in Controls(st) : d[1] = b => d = <<b, op, st>>
  BY DEF Controlling, Controls, ControlOps, CR, LF, FF, TAB, BS, BEL
<1> DEFINE e == <<b, op, st>>
<1>2. e \in Entries[st] /\ \A d \in Entries[st] : d[1] = b => d = e
  <2>1. CASE st = "normal"
    <3>1. Entries[st] = Controls(st) \cup {<<ESC, "none", "esc">>}
      BY <2>1 DEF Entries, normal_state
    <3> QED
      BY <1>1, <3>1 DEF Controlling, CR, LF, FF, TAB, BS, BEL, ESC
  <2>2. CASE st = "esc"
    <3>1. Entries[st] = esc_state
      BY <2>2 DEF Entries
    <3>2. \A d \in esc_state : d \in Controls(st) \/ d[1] > 27
      BY <2>2 DEF esc_state
    <3>3. \A d \in Controls(st) : d \in esc_state
      BY <2>2 DEF esc_state
    <3> QED
      BY <1>1, <3>1, <3>2, <3>3 DEF Controlling, CR, LF, FF, TAB, BS, BEL
  <2>3. CASE st = "bracket"
    <3>1. Entries[st] = bracket_state
      BY <2>3 DEF Entries
    <3>2. \A d \in bracket_state : d \in Controls(st) \/ d[1] > 27
      BY <2>3 DEF bracket_state, Digits
    <3>3. \A d \in Controls(st) : d \in bracket_state
      BY <2>3 DEF bracket_state
    <3> QED
      BY <1>1, <3>1, <3>2, <3>3 DEF Controlling, CR, LF, FF, TAB, BS, BEL
  <2>4. CASE st = "vt52_normal"
    <3>1. Entries[st] = Controls(st) \cup {<<ESC, "clear_param", "vt52_esc">>}
      BY <2>4 DEF Entries, vt52_normal_state
    <3> QED
      BY <1>1, <3>1 DEF Controlling, CR, LF, FF, TAB, BS, BEL, ESC
  <2> QED
    BY <2>1, <2>2, <2>3, <2>4 DEF Open
<1>3. e[1] = b
  OBVIOUS
<1> HIDE DEF e
<1>4. EntryFor(st, b) = e
  BY <1>2, <1>3, EntryIs
<1> QED
  BY <1>4 DEF e

FinalOps == {"cursor_up", "cursor_down", "cursor_right", "cursor_left", "cursor_position",
             "set_margins", "delete_char", "insert_char", "erase_char", "delete_line",
             "insert_line", "erase_display", "erase_line", "set_colors", "clear_tab",
             "set_mode", "clear_mode", "status_report", "device_attrib", "request_param"}

\* The final byte of a command with numbers names the method.
LEMMA FinalEntry ==
  ASSUME NEW op \in DOMAIN Final
  PROVE  EntryFor("bracket", Final[op]) = <<Final[op], op, "normal">>
<1> DEFINE e == <<Final[op], op, "normal">>
<1>1. Entries["bracket"] = bracket_state
  BY DEF Entries
<1>2. op \in FinalOps
  BY DEF Final, FinalOps
<1>3. e \in bracket_state
  BY <1>2 DEF bracket_state, Final, FinalOps
<1>4. \A d \in bracket_state : d[1] = Final[op] => d = e
  BY <1>2 DEF bracket_state, Final, FinalOps, Controls, Digits, CR, LF, FF, TAB, BS, BEL
<1>5. e[1] = Final[op]
  OBVIOUS
<1> HIDE DEF e
<1>6. EntryFor("bracket", Final[op]) = e
  BY <1>1, <1>3, <1>4, <1>5, EntryIs
<1> QED
  BY <1>6 DEF e

\* The entries on the way to a final byte.
LEMMA CollectingEntries ==
  /\ EntryFor("normal", ESC) = <<ESC, "none", "esc">>
  /\ EntryFor("esc", 91) = <<91, "clear_param", "bracket">>
  /\ EntryFor("esc", 35) = <<35, "none", "hash">>
  /\ EntryFor("bracket", 63) = <<63, "set_q_mode", "bracket">>
  /\ EntryFor("bracket", 59) = <<59, "next_param", "bracket">>
  /\ EntryFor("vt52_normal", ESC) = <<ESC, "clear_param", "vt52_esc">>
  /\ EntryFor("vt52_esc", 89) = <<89, "none", "vt52_cursory">>
  /\ EntryFor("vt52_esc", 60) = <<60, "none", "normal">>
<1>1. Entries["normal"] = normal_state /\ Entries["esc"] = esc_state
      /\ Entries["bracket"] = bracket_state /\ Entries["vt52_normal"] = vt52_normal_state
      /\ Entries["vt52_esc"] = vt52_esc_state
  BY DEF Entries
<1>2. ASSUME NEW st, NEW e, e \in Entries[st], \A d \in Entries[st] : d[1] = e[1] => d = e
      PROVE  EntryFor(st, e[1]) = e
  BY <1>2, EntryIs
<1>3. EntryFor("normal", ESC) = <<ESC, "none", "esc">>
  <2> DEFINE e == <<ESC, "none", "esc">>
  <2>1. e \in normal_state /\ (\A d \in normal_state : d[1] = e[1] => d = e) /\ e[1] = ESC
    BY DEF normal_state, Controls, CR, LF, FF, TAB, BS, BEL, ESC
  <2> HIDE DEF e
  <2>2. EntryFor("normal", ESC) = e
    BY <1>1, <1>2, <2>1
  <2> QED
    BY <2>2 DEF e
<1>4. EntryFor("esc", 91) = <<91, "clear_param", "bracket">>
  <2> DEFINE e == <<91, "clear_param", "bracket">>
  <2>1. e \in esc_state /\ (\A d \in esc_state : d[1] = e[1] => d = e) /\ e[1] = 91
    BY DEF esc_state, Controls, CR, LF, FF, TAB, BS, BEL, ESC
  <2> HIDE DEF e
  <2>2. EntryFor("esc", 91) = e
    BY <1>1, <1>2, <2>1
  <2> QED
    BY <2>2 DEF e
<1>5. EntryFor("esc", 35) = <<35, "none", "hash">>
  <2> DEFINE e == <<35, "none", "hash">>
  <2>1. e \in esc_state /\ (\A d \in esc_state : d[1] = e[1] => d = e) /\ e[1] = 35
    BY DEF esc_state, Controls, CR, LF, FF, TAB, BS, BEL, ESC
  <2> HIDE DEF e
  <2>2. EntryFor("esc", 35) = e
    BY <1>1, <1>2, <2>1
  <2> QED
    BY <2>2 DEF e
<1>6. EntryFor("bracket", 63) = <<63, "set_q_mode", "bracket">>
  <2> DEFINE e == <<63, "set_q_mode", "bracket">>
  <2>1. e \in bracket_state /\ (\A d \in bracket_state : d[1] = e[1] => d = e) /\ e[1] = 63
    BY DEF bracket_state, Controls, Digits, CR, LF, FF, TAB, BS, BEL, ESC
  <2> HIDE DEF e
  <2>2. EntryFor("bracket", 63) = e
    BY <1>1, <1>2, <2>1
  <2> QED
    BY <2>2 DEF e
<1>7. EntryFor("bracket", 59) = <<59, "next_param", "bracket">>
  <2> DEFINE e == <<59, "next_param", "bracket">>
  <2>1. e \in bracket_state /\ (\A d \in bracket_state : d[1] = e[1] => d = e) /\ e[1] = 59
    BY DEF bracket_state, Controls, Digits, CR, LF, FF, TAB, BS, BEL, ESC
  <2> HIDE DEF e
  <2>2. EntryFor("bracket", 59) = e
    BY <1>1, <1>2, <2>1
  <2> QED
    BY <2>2 DEF e
<1>8. EntryFor("vt52_normal", ESC) = <<ESC, "clear_param", "vt52_esc">>
  <2> DEFINE e == <<ESC, "clear_param", "vt52_esc">>
  <2>1. e \in vt52_normal_state /\ (\A d \in vt52_normal_state : d[1] = e[1] => d = e)
        /\ e[1] = ESC
    BY DEF vt52_normal_state, Controls, CR, LF, FF, TAB, BS, BEL, ESC
  <2> HIDE DEF e
  <2>2. EntryFor("vt52_normal", ESC) = e
    BY <1>1, <1>2, <2>1
  <2> QED
    BY <2>2 DEF e
<1>9. EntryFor("vt52_esc", 89) = <<89, "none", "vt52_cursory">>
  <2> DEFINE e == <<89, "none", "vt52_cursory">>
  <2>1. e \in vt52_esc_state /\ (\A d \in vt52_esc_state : d[1] = e[1] => d = e) /\ e[1] = 89
    BY DEF vt52_esc_state
  <2> HIDE DEF e
  <2>2. EntryFor("vt52_esc", 89) = e
    BY <1>1, <1>2, <2>1
  <2> QED
    BY <2>2 DEF e
<1>10. EntryFor("vt52_esc", 60) = <<60, "none", "normal">>
  <2> DEFINE e == <<60, "none", "normal">>
  <2>1. e \in vt52_esc_state /\ (\A d \in vt52_esc_state : d[1] = e[1] => d = e) /\ e[1] = 60
    BY DEF vt52_esc_state
  <2> HIDE DEF e
  <2>2. EntryFor("vt52_esc", 60) = e
    BY <1>1, <1>2, <2>1
  <2> QED
    BY <2>2 DEF e
<1> QED
  BY <1>3, <1>4, <1>5, <1>6, <1>7, <1>8, <1>9, <1>10

\* A digit.
LEMMA DigitEntry ==
  ASSUME NEW b \in Digits
  PROVE  EntryFor("bracket", b) = <<b, "param_digit", "bracket">>
<1> DEFINE e == <<b, "param_digit", "bracket">>
<1>1. Entries["bracket"] = bracket_state
  BY DEF Entries
<1>2. e \in bracket_state
  BY DEF bracket_state
<1>3. \A d \in bracket_state : d[1] = b => d = e
  BY DEF bracket_state, Controls, Digits, CR, LF, FF, TAB, BS, BEL
<1>4. e[1] = b
  OBVIOUS
<1> HIDE DEF e
<1>5. EntryFor("bracket", b) = e
  BY <1>1, <1>2, <1>3, <1>4, EntryIs
<1> QED
  BY <1>5 DEF e

\* A command without numbers, except the alignment of the screen, which has two bytes.
LEMMA PlainEntry ==
  ASSUME NEW op \in DOMAIN Plain, op # "screen_align"
  PROVE  \E b \in 0 .. 255 : /\ Plain[op] = <<b>>
                             /\ EntryFor("esc", b) = <<b, op, "normal">>
<1>1. op \in {"save_cursor", "restore_cursor", "set_tab", "index_down", "index_up",
              "next_line", "reset", "keypad_application", "keypad_numeric"}
  BY DEF Plain
<1>2. PICK b \in 0 .. 255 :
        /\ Plain[op] = <<b>> /\ <<b, op, "normal">> \in esc_state
        /\ \A d \in esc_state : d[1] = b => d = <<b, op, "normal">>
  BY <1>1 DEF Plain, esc_state, Controls, CR, LF, FF, TAB, BS, BEL
<1>3. Entries["esc"] = esc_state
  BY DEF Entries
<1> DEFINE e == <<b, op, "normal">>
<1>4. e[1] = b
  OBVIOUS
<1>5. e \in esc_state /\ \A d \in esc_state : d[1] = b => d = e
  BY <1>2
<1> HIDE DEF e
<1>6. EntryFor("esc", b) = e
  BY <1>3, <1>4, <1>5, EntryIs
<1> QED
  BY <1>2, <1>6 DEF e

LEMMA AlignEntry == /\ Plain["screen_align"] = <<35, 56>>
                    /\ EntryFor("hash", 56) = <<56, "screen_align", "normal">>
<1> DEFINE e == <<56, "screen_align", "normal">>
<1>1. Entries["hash"] = {e} /\ e[1] = 56
  BY DEF Entries, hash_state
<1> HIDE DEF e
<1>2. EntryFor("hash", 56) = e
  BY <1>1, EntryIs
<1> QED
  BY <1>2 DEF e, Plain

\* A command of the vt52.
LEMMA Vt52Entry ==
  ASSUME NEW op \in DOMAIN Vt52
  PROVE  Vt52[op] \in 0 .. 255
         /\ EntryFor("vt52_esc", Vt52[op]) = <<Vt52[op], op, "vt52_normal">>
<1> DEFINE e == <<Vt52[op], op, "vt52_normal">>
<1>1. Entries["vt52_esc"] = vt52_esc_state
  BY DEF Entries
<1>2. op \in {"cursor_up", "cursor_down", "cursor_right", "cursor_left", "cursor_position",
              "index_up", "erase_display", "erase_line", "vt52_ident"}
  BY DEF Vt52
<1>3. e \in vt52_esc_state /\ Vt52[op] \in 0 .. 255
  BY <1>2 DEF vt52_esc_state, Vt52
<1>4. \A d \in vt52_esc_state : d[1] = Vt52[op] => d = e
  BY <1>2 DEF vt52_esc_state, Vt52
<1>5. e[1] = Vt52[op]
  OBVIOUS
<1> HIDE DEF e
<1>6. EntryFor("vt52_esc", Vt52[op]) = e
  BY <1>1, <1>3, <1>4, <1>5, EntryIs
<1> QED
  BY <1>3, <1>6 DEF e

\* The row and the column of a vt52 address are read by the defaults.
LEMMA AddressEntries ==
  ASSUME NEW b
  PROVE  /\ EntryFor("vt52_cursory", b) = <<-1, "vt52_cursory", "vt52_cursorx">>
         /\ EntryFor("vt52_cursorx", b) = <<-1, "vt52_cursorx", "vt52_normal">>
BY DEF EntryFor, Entries, Default

----------------------------------------------------------------------------
(* One turn of the loop                                                    *)

In(p, st) == [p EXCEPT !.current_state = st]

Zeros == [n \in 0 .. MAXPARAM - 1 |-> 0]

\* What a turn does, by the entry that is found.
LEMMA TurnDoes ==
  ASSUME NEW p, NEW b, NEW x, NEW act, NEW st, EntryFor(p.current_state, b) = <<x, act, st>>
  PROVE  /\ Action(p, b) = act
         /\ act = "clear_param" => Turn(p, b, Height) = clear_param(In(p, st))
         /\ act = "set_q_mode" => Turn(p, b, Height) = [In(p, st) EXCEPT !.q_mode = 1]
         /\ act = "param_digit" => Turn(p, b, Height) = param_digit(In(p, st), b)
         /\ act = "next_param" => Turn(p, b, Height) = next_param(In(p, st))
         /\ act = "vt52_cursory" => Turn(p, b, Height) = vt52_cursory(In(p, st), b, Height)
         /\ act = "reset" => Turn(p, b, Height) = In(In(p, st), "normal")
         /\ act = "clear_mode" /\ ModeNumber(p) = 1002
              => Turn(p, b, Height) = In(In(p, st), "vt52_normal")
         /\ act \notin {"clear_param", "set_q_mode", "param_digit", "next_param",
                        "vt52_cursory", "reset", "clear_mode"}
              => Turn(p, b, Height) = In(p, st)
         /\ act = "clear_mode" /\ ModeNumber(p) # 1002 => Turn(p, b, Height) = In(p, st)
<1>1. EntryFor(p.current_state, b)[3] = st /\ EntryFor(p.current_state, b)[2] = act
  OBVIOUS
<1> QED
  BY <1>1 DEF Turn, Action, In

\* A cursor control leaves the parser as it was, inside a sequence too.
LEMMA ControlTurn ==
  ASSUME NEW p \in ParserType, p.current_state \in Open, NEW b \in Controlling
  PROVE  Turn(p, b, Height) = p /\ Action(p, b) \in ControlOps
<1>1. PICK op \in ControlOps : EntryFor(p.current_state, b) = <<b, op, p.current_state>>
  BY ControlEntry
<1>2. Action(p, b) = op /\ Turn(p, b, Height) = In(p, p.current_state)
  BY <1>1, TurnDoes DEF ControlOps
<1>3. In(p, p.current_state) = p
  BY DEF In, ParserType
<1> QED
  BY <1>2, <1>3

\* The fields of the parser after a turn, for each kind of entry.
LEMMA PlainTurn ==
  ASSUME NEW p \in ParserType, NEW b, NEW x, NEW act, NEW st \in States,
         EntryFor(p.current_state, b) = <<x, act, st>>,
         act \notin {"clear_param", "set_q_mode", "param_digit", "next_param",
                     "vt52_cursory", "clear_mode"},
         act = "reset" => st = "normal"
  PROVE  LET t == Turn(p, b, Height)
         IN  /\ t \in ParserType /\ t.current_state = st
             /\ t.nparam = p.nparam /\ t.param = p.param /\ t.q_mode = p.q_mode
<1>1. Turn(p, b, Height) \in {In(p, st), In(In(p, st), st)}
  BY TurnDoes
<1> QED
  BY <1>1 DEF In, ParserType

LEMMA ClearTurn ==
  ASSUME NEW p \in ParserType, NEW b, NEW x, NEW st \in States,
         EntryFor(p.current_state, b) = <<x, "clear_param", st>>
  PROVE  LET t == Turn(p, b, Height)
         IN  /\ t \in ParserType /\ t.current_state = st
             /\ t.nparam = 0 /\ t.param = Zeros /\ t.q_mode = 0
<1>1. Turn(p, b, Height) = clear_param(In(p, st))
  BY TurnDoes
<1>2. Zeros \in [0 .. MAXPARAM - 1 -> Int] /\ 0 \in 0 .. MAXPARAM - 1
  BY ParamCountAssumption DEF Zeros
<1> QED
  BY <1>1, <1>2 DEF In, ParserType, clear_param, Zeros

LEMMA QuestionTurn ==
  ASSUME NEW p \in ParserType, p.current_state = "bracket"
  PROVE  LET t == Turn(p, 63, Height)
         IN  /\ Action(p, 63) = "set_q_mode" /\ t \in ParserType /\ t.current_state = "bracket"
             /\ t.nparam = p.nparam /\ t.param = p.param /\ t.q_mode = 1
<1>1. EntryFor(p.current_state, 63) = <<63, "set_q_mode", "bracket">>
  BY CollectingEntries
<1>2. Turn(p, 63, Height) = [In(p, "bracket") EXCEPT !.q_mode = 1] /\ Action(p, 63) = "set_q_mode"
  BY <1>1, TurnDoes
<1> QED
  BY <1>2 DEF In, ParserType

LEMMA DigitTurn ==
  ASSUME NEW p \in ParserType, p.current_state = "bracket", NEW b \in Digits
  PROVE  LET t == Turn(p, b, Height)
         IN  /\ Action(p, b) = "param_digit" /\ t \in ParserType /\ t.current_state = "bracket"
             /\ t.nparam = p.nparam /\ t.q_mode = p.q_mode
             /\ t.param = [p.param EXCEPT ![p.nparam] = @ * 10 + b - 48]
<1>1. EntryFor(p.current_state, b) = <<b, "param_digit", "bracket">>
  BY DigitEntry
<1>2. Turn(p, b, Height) = param_digit(In(p, "bracket"), b) /\ Action(p, b) = "param_digit"
  BY <1>1, TurnDoes
<1>3. p.param \in [0 .. MAXPARAM - 1 -> Int] /\ p.nparam \in 0 .. MAXPARAM - 1 /\ b \in Int
  BY DEF ParserType, Digits
<1>4. [p.param EXCEPT ![p.nparam] = @ * 10 + b - 48] \in [0 .. MAXPARAM - 1 -> Int]
  <2>1. p.param[p.nparam] \in Int
    BY <1>3
  <2>2. p.param[p.nparam] * 10 + b - 48 \in Int
    BY <1>3, <2>1
  <2> HIDE DEF ParserType
  <2> QED
    BY <1>3, <2>2
<1> QED
  BY <1>2, <1>3, <1>4 DEF In, ParserType, param_digit

LEMMA SemicolonTurn ==
  ASSUME NEW p \in ParserType, p.current_state = "bracket", p.nparam + 1 < MAXPARAM
  PROVE  LET t == Turn(p, 59, Height)
         IN  /\ Action(p, 59) = "next_param" /\ t \in ParserType /\ t.current_state = "bracket"
             /\ t.nparam = p.nparam + 1 /\ t.q_mode = p.q_mode /\ t.param = p.param
<1>1. EntryFor(p.current_state, 59) = <<59, "next_param", "bracket">>
  BY CollectingEntries
<1>2. Turn(p, 59, Height) = next_param(In(p, "bracket")) /\ Action(p, 59) = "next_param"
  BY <1>1, TurnDoes
<1>3. p.nparam + 1 \in 0 .. MAXPARAM - 1
  BY ParamCountAssumption DEF ParserType
<1> QED
  BY <1>2, <1>3 DEF In, ParserType, next_param

\* The final byte of a sequence with numbers.
LEMMA FinalTurn ==
  ASSUME NEW p \in ParserType, p.current_state = "bracket", NEW op \in DOMAIN Final
  PROVE  LET t == Turn(p, Final[op], Height)
         IN  /\ Action(p, Final[op]) = op /\ t \in ParserType
             /\ t.current_state = IF op = "clear_mode" /\ ModeNumber(p) = 1002
                                  THEN "vt52_normal" ELSE "normal"
<1>1. EntryFor(p.current_state, Final[op]) = <<Final[op], op, "normal">>
  BY FinalEntry
<1>2. op \notin {"clear_param", "set_q_mode", "param_digit", "next_param", "vt52_cursory",
                 "reset"}
  BY DEF Final
<1>3. /\ Action(p, Final[op]) = op
      /\ Turn(p, Final[op], Height) =
           IF op = "clear_mode" /\ ModeNumber(p) = 1002
           THEN In(In(p, "normal"), "vt52_normal") ELSE In(p, "normal")
  BY <1>1, <1>2, TurnDoes
<1>4. "normal" \in States /\ "vt52_normal" \in States
  BY DEF States, Default
<1>5. /\ In(p, "normal") \in ParserType /\ In(p, "normal").current_state = "normal"
      /\ In(In(p, "normal"), "vt52_normal") \in ParserType
      /\ In(In(p, "normal"), "vt52_normal").current_state = "vt52_normal"
  BY <1>4 DEF In, ParserType
<1> QED
  BY <1>3, <1>5

\* The row of a vt52 address.
LEMMA RowTurn ==
  ASSUME NEW p \in ParserType, p.current_state = "vt52_cursory", NEW y \in 1 .. Height - 1
  PROVE  LET t == Turn(p, 32 + y, Height)
         IN  /\ Action(p, 32 + y) = "vt52_cursory" /\ t \in ParserType
             /\ t.current_state = "vt52_cursorx"
             /\ t.nparam = p.nparam /\ t.q_mode = p.q_mode
             /\ t.param = [p.param EXCEPT ![0] = y]
<1>1. EntryFor(p.current_state, 32 + y) = <<-1, "vt52_cursory", "vt52_cursorx">>
  BY AddressEntries
<1>2. Turn(p, 32 + y, Height) = vt52_cursory(In(p, "vt52_cursorx"), 32 + y, Height)
      /\ Action(p, 32 + y) = "vt52_cursory"
  BY <1>1, TurnDoes
<1>3. y \in Int /\ 32 + y - 32 = y /\ ~(y < 1) /\ ~(y >= Height)
  BY HostAssumption
<1>4. [p.param EXCEPT ![0] = y] \in [0 .. MAXPARAM - 1 -> Int]
  BY <1>3 DEF ParserType
<1>5. "vt52_cursorx" \in States
  BY DEF States, Default
<1>6. vt52_cursory(In(p, "vt52_cursorx"), 32 + y, Height)
        = [In(p, "vt52_cursorx") EXCEPT !.param[0] = y]
  BY <1>3 DEF vt52_cursory
<1>7. [In(p, "vt52_cursorx") EXCEPT !.param[0] = y]
        = [p EXCEPT !.current_state = "vt52_cursorx", !.param = [p.param EXCEPT ![0] = y]]
  BY DEF In, ParserType
<1> DEFINE t == [p EXCEPT !.current_state = "vt52_cursorx", !.param = [p.param EXCEPT ![0] = y]]
<1>8. t \in ParserType
  BY <1>4, <1>5 DEF ParserType
<1>9. t.current_state = "vt52_cursorx" /\ t.param = [p.param EXCEPT ![0] = y]
      /\ t.nparam = p.nparam /\ t.q_mode = p.q_mode
  BY DEF ParserType
<1> HIDE DEF t
<1>10. Turn(p, 32 + y, Height) = t
  BY <1>2, <1>6, <1>7 DEF t
<1> QED
  BY <1>2, <1>8, <1>9, <1>10

----------------------------------------------------------------------------
(* The spelling of numbers                                                 *)

Bytes == 0 .. 255

\* The number that the first j digits of w stand for.
Value(w, j) == IF j = 0 THEN 0 ELSE IF j = 1 THEN w[1] - 48
               ELSE (w[1] - 48) * 10 + w[2] - 48

\* The digits w, read one by one, give the number n.
ReadsBack(w, n) ==
  /\ w \in Seq(Digits) /\ Len(w) \in 0 .. 2
  /\ Value(w, 0) = 0
  /\ Value(w, Len(w)) = n
  /\ \A j \in 0 .. Len(w) - 1 :
       w[j + 1] \in Digits /\ Value(w, j + 1) = Value(w, j) * 10 + w[j + 1] - 48

\* The spellings of a number give it back.
LEMMA SpellingReadsBack ==
  ASSUME NEW n \in 0 .. 99, NEW w \in Spellings(n)
  PROVE  ReadsBack(w, n)
<1>1. CASE w = <<>>
  <2>1. n = 0
    <3>1. CASE w \in {Decimal(n)}
      BY <1>1, <3>1 DEF Decimal
    <3>2. CASE w \notin {Decimal(n)}
      BY <3>2 DEF Spellings
    <3> QED
      BY <3>1, <3>2
  <2>2. Len(w) = 0 /\ w \in Seq(Digits)
    BY <1>1
  <2> QED
    BY <2>1, <2>2 DEF Value, ReadsBack
<1>2. CASE w # <<>>
  <2>1. w = Decimal(n)
    BY <1>2 DEF Spellings
  <2>2. CASE n < 10
    <3>1. w = <<48 + n>> /\ 48 + n \in Digits
      BY <2>1, <2>2 DEF Decimal, Digits
    <3>2. Len(w) = 1 /\ w[1] = 48 + n /\ w \in Seq(Digits)
      BY <3>1
    <3>3. w[1] - 48 = n /\ w[1] \in Digits
      BY <3>1, <3>2
    <3> QED
      BY <3>2, <3>3 DEF Value, ReadsBack
  <2>3. CASE ~(n < 10)
    <3> DEFINE t == n \div 10
               u == n % 10
    <3>1. t \in 0 .. 9 /\ u \in 0 .. 9 /\ n = 10 * t + u
      OBVIOUS
    <3>2. w = <<48 + t, 48 + u>>
      BY <2>1, <2>3 DEF Decimal
    <3> HIDE DEF t, u
    <3>3. 48 + t \in Digits /\ 48 + u \in Digits
      BY <3>1 DEF Digits
    <3>4. Len(w) = 2 /\ w[1] = 48 + t /\ w[2] = 48 + u /\ w \in Seq(Digits)
      BY <3>2, <3>3
    <3>5. w[1] - 48 = t /\ w[2] - 48 = u /\ (w[1] - 48) * 10 + w[2] - 48 = n
      BY <3>1, <3>4
    <3>6. \A j \in 0 .. 1 :
            w[j + 1] \in Digits /\ Value(w, j + 1) = Value(w, j) * 10 + w[j + 1] - 48
      <4>1. Value(w, 0 + 1) = Value(w, 0) * 10 + w[0 + 1] - 48
        BY <3>1, <3>4 DEF Value
      <4>2. Value(w, 1 + 1) = Value(w, 1) * 10 + w[1 + 1] - 48
        BY <3>1, <3>4 DEF Value
      <4> QED
        BY <3>3, <3>4, <4>1, <4>2
    <3> QED
      BY <3>4, <3>5, <3>6 DEF Value, ReadsBack
  <2> QED
    BY <2>2, <2>3
<1> QED
  BY <1>1, <1>2

----------------------------------------------------------------------------
(* The bytes of a command with numbers                                     *)

\* A set of naturals has a least element.
LEMMA LeastOf ==
  ASSUME NEW S \in SUBSET Nat, S # {}
  PROVE  \E i \in S : \A j \in S : i <= j
<1> DEFINE R == OpToRel(<, Nat)
<1>1. \E i \in S : \A j \in S : ~(<<j, i>> \in R)
  BY NatLessThanWellFounded, WFMin
<1>2. \A i, j \in Nat : ~(<<j, i>> \in R) => i <= j
  BY DEF OpToRel
<1> QED
  BY <1>1, <1>2

\* What holds at the start and is kept from each number to the next holds for all.
LEMMA UpTo ==
  ASSUME NEW n \in Nat, NEW B, 0 \in B, \A k \in 1 .. n : k - 1 \in B => k \in B
  PROVE  \A k \in 0 .. n : k \in B
<1> DEFINE S == {k \in 0 .. n : k \notin B}
<1>1. SUFFICES ASSUME S # {} PROVE FALSE
  OBVIOUS
<1>2. S \in SUBSET Nat
  OBVIOUS
<1>3. PICK k \in S : \A j \in S : k <= j
  BY <1>1, <1>2, LeastOf
<1>4. k \in 1 .. n /\ k - 1 \in 0 .. n /\ ~(k <= k - 1)
  BY <1>3
<1> QED
  BY <1>3, <1>4

Separator(n) == IF n = 1 THEN <<>> ELSE <<59>>

\* The text z of the words before word k, and word k.
Longer(z, word, k) == z \o Separator(k) \o word[k]

IsBody(f, word, n) ==
  f = [k \in 0 .. n |-> IF k = 0 THEN <<>> ELSE Longer(f[k - 1], word, k)]

\* The recursive function that Body is written with exists.
LEMMA BodyExists ==
  ASSUME NEW word, NEW n \in Nat
  PROVE  \E f : IsBody(f, word, n)
<1> DEFINE B == {k \in Nat : \E f : IsBody(f, word, k)}
<1>1. 0 \in B
  <2> DEFINE f == [j \in 0 .. 0 |-> <<>>]
  <2>1. f = [j \in 0 .. 0 |-> IF j = 0 THEN <<>> ELSE Longer(f[j - 1], word, j)]
    OBVIOUS
  <2> QED
    BY <2>1 DEF IsBody
<1>2. ASSUME NEW k \in 1 .. n, k - 1 \in B
      PROVE  k \in B
  <2>1. k - 1 \in Nat /\ k \in Nat /\ k # 0
    OBVIOUS
  <2>2. PICK f : IsBody(f, word, k - 1)
    BY <1>2
  <2>3. \A j \in 0 .. k - 1 : f[j] = IF j = 0 THEN <<>> ELSE Longer(f[j - 1], word, j)
    BY <2>1, <2>2 DEF IsBody
  <2> DEFINE g == [j \in 0 .. k |-> IF j = k THEN Longer(f[k - 1], word, k) ELSE f[j]]
  <2>4. ASSUME NEW j \in 0 .. k
        PROVE  g[j] = IF j = 0 THEN <<>> ELSE Longer(g[j - 1], word, j)
    <3>1. CASE j = k
      BY <2>1, <3>1
    <3>2. CASE j # k
      <4>1. j \in 0 .. k - 1 /\ (j # 0 => j - 1 \in 0 .. k /\ j - 1 # k)
        BY <2>1, <3>2
      <4> QED
        BY <2>1, <2>3, <3>2, <4>1
    <3> QED
      BY <3>1, <3>2
  <2>5. g = [j \in 0 .. k |-> g[j]]
    OBVIOUS
  <2> HIDE DEF g
  <2>6. [j \in 0 .. k |-> g[j]] =
          [j \in 0 .. k |-> IF j = 0 THEN <<>> ELSE Longer(g[j - 1], word, j)]
    BY <2>4
  <2>7. IsBody(g, word, k)
    BY <2>5, <2>6 DEF IsBody
  <2> QED
    BY <2>1, <2>7
<1> HIDE DEF B
<1>3. n \in B
  BY <1>1, <1>2, UpTo
<1> QED
  BY <1>3 DEF B

LEMMA BodyLoops ==
  ASSUME NEW word, Len(word) \in Nat
  PROVE  \E f : IsBody(f, word, Len(word)) /\ Body(word) = f[Len(word)]
<1> DEFINE f == CHOOSE f : f = [n \in 0 .. Len(word) |-> IF n = 0 THEN <<>>
                  ELSE f[n - 1] \o (IF n = 1 THEN <<>> ELSE <<59>>) \o word[n]]
<1>1. \E e : e = [n \in 0 .. Len(word) |-> IF n = 0 THEN <<>>
                  ELSE e[n - 1] \o (IF n = 1 THEN <<>> ELSE <<59>>) \o word[n]]
  <2>1. PICK e : IsBody(e, word, Len(word))
    BY BodyExists
  <2>2. e = [n \in 0 .. Len(word) |-> IF n = 0 THEN <<>>
                  ELSE e[n - 1] \o (IF n = 1 THEN <<>> ELSE <<59>>) \o word[n]]
    BY <2>1 DEF IsBody, Longer, Separator
  <2> QED
    BY <2>2, Zenon
<1>2. f = [n \in 0 .. Len(word) |-> IF n = 0 THEN <<>>
                  ELSE f[n - 1] \o (IF n = 1 THEN <<>> ELSE <<59>>) \o word[n]]
  BY <1>1, Zenon
<1>3. Body(word) = f[Len(word)]
  BY DEF Body
<1> HIDE DEF f
<1>4. IsBody(f, word, Len(word))
  BY <1>2 DEF IsBody, Longer, Separator
<1> QED
  BY <1>3, <1>4

\* The bytes u are those of s and then those of t.
Joined(u, s, t) == /\ u \in Seq(Bytes) /\ Len(u) = Len(s) + Len(t)
                   /\ \A i \in 1 .. Len(s) : u[i] = s[i]
                   /\ \A i \in 1 .. Len(t) : u[Len(s) + i] = t[i]

LEMMA ConcatJoins ==
  ASSUME NEW s \in Seq(Bytes), NEW t \in Seq(Bytes)
  PROVE  Joined(s \o t, s, t)
<1>1. PICK u : u = s \o t
  OBVIOUS
<1>2. /\ u \in Seq(Bytes) /\ Len(u) = Len(s) + Len(t)
      /\ \A i \in 1 .. Len(s) + Len(t) : u[i] = IF i <= Len(s) THEN s[i] ELSE t[i - Len(s)]
  BY <1>1, ConcatProperties
<1>3. Len(s) \in Nat /\ Len(t) \in Nat
  OBVIOUS
<1>4. \A i \in 1 .. Len(s) : u[i] = s[i]
  BY <1>2, <1>3
<1>5. \A i \in 1 .. Len(t) : u[Len(s) + i] = t[i]
  BY <1>2, <1>3
<1>6. Joined(u, s, t)
  BY <1>2, <1>4, <1>5 DEF Joined
<1> QED
  BY <1>1, <1>6

Gap(k) == IF k = 1 THEN 0 ELSE 1

\* The bytes y are those of z, a semicolon unless k is the first word, and w.
Extended(y, z, w, k) ==
  /\ y \in Seq(Bytes) /\ Len(y) = Len(z) + Gap(k) + Len(w)
  /\ \A i \in 1 .. Len(z) : y[i] = z[i]
  /\ k # 1 => y[Len(z) + 1] = 59
  /\ \A i \in 1 .. Len(w) : y[Len(z) + Gap(k) + i] = w[i]

LEMMA LongerExtends ==
  ASSUME NEW z \in Seq(Bytes), NEW word, NEW k, word[k] \in Seq(Bytes)
  PROVE  Extended(Longer(z, word, k), z, word[k], k)
<1>1. PICK s : s = Separator(k)
  OBVIOUS
<1>2. PICK w : w = word[k]
  OBVIOUS
<1>3. PICK y : y = z \o s
  OBVIOUS
<1>4. PICK u : u = y \o w
  OBVIOUS
<1>5. s \in Seq(Bytes) /\ Len(s) = Gap(k) /\ (k # 1 => s[1] = 59)
  <2>1. CASE k = 1
    BY <1>1, <2>1 DEF Separator, Gap
  <2>2. CASE k # 1
    <3>1. s = <<59>> /\ 59 \in Bytes
      BY <1>1, <2>2 DEF Separator, Bytes
    <3> QED
      BY <2>2, <3>1 DEF Gap
  <2> QED
    BY <2>1, <2>2
<1>6. Joined(y, z, s)
  BY <1>3, <1>5, ConcatJoins
<1>7. Joined(u, y, w)
  <2>1. y \in Seq(Bytes) /\ w \in Seq(Bytes)
    BY <1>2, <1>6 DEF Joined
  <2> QED
    BY <1>4, <2>1, ConcatJoins
<1>8. Longer(z, word, k) = u
  BY <1>1, <1>2, <1>3, <1>4, Zenon DEF Longer
<1>9. Len(z) \in Nat /\ Len(w) \in Nat /\ Gap(k) \in 0 .. 1 /\ (k # 1 => Gap(k) = 1)
  BY <1>2 DEF Gap
<1>10. Len(y) = Len(z) + Gap(k)
  BY <1>5, <1>6 DEF Joined
<1>11. u \in Seq(Bytes) /\ Len(u) = Len(z) + Gap(k) + Len(w)
  BY <1>7, <1>10 DEF Joined
<1>12. \A i \in 1 .. Len(z) : u[i] = z[i]
  <2>1. TAKE i \in 1 .. Len(z)
  <2>2. i \in 1 .. Len(y)
    BY <1>9, <1>10
  <2> QED
    BY <1>6, <1>7, <2>2 DEF Joined
<1>13. k # 1 => u[Len(z) + 1] = 59
  <2>1. HAVE k # 1
  <2>2. Len(z) + 1 \in 1 .. Len(y) /\ 1 \in 1 .. Len(s)
    BY <1>5, <1>9, <1>10, <2>1
  <2> QED
    BY <1>5, <1>6, <1>7, <2>1, <2>2 DEF Joined
<1>14. \A i \in 1 .. Len(w) : u[Len(z) + Gap(k) + i] = w[i]
  BY <1>7, <1>10 DEF Joined
<1>15. Extended(u, z, w, k)
  BY <1>11, <1>12, <1>13, <1>14 DEF Extended
<1> QED
  BY <1>2, <1>8, <1>15

\* The text of each number of words, and the next word behind it.
LEMMA BodyGrows ==
  ASSUME NEW word, NEW N \in Nat, NEW f, IsBody(f, word, N),
         \A k \in 1 .. N : word[k] \in Seq(Bytes)
  PROVE  /\ \A k \in 0 .. N : f[k] \in Seq(Bytes)
         /\ f[0] = <<>>
         /\ \A k \in 1 .. N : Extended(f[k], f[k - 1], word[k], k)
<1> DEFINE B == {k \in 0 .. N : f[k] \in Seq(Bytes)}
<1>1. f[0] = <<>> /\ 0 \in B
  BY DEF IsBody
<1>2. ASSUME NEW k \in 1 .. N, k - 1 \in B
      PROVE  k \in B /\ Extended(f[k], f[k - 1], word[k], k)
  <2>1. f[k] = Longer(f[k - 1], word, k)
    <3>1. k \in 0 .. N /\ k # 0
      OBVIOUS
    <3> QED
      BY <3>1 DEF IsBody
  <2>2. f[k - 1] \in Seq(Bytes) /\ word[k] \in Seq(Bytes)
    BY <1>2
  <2>3. Extended(f[k], f[k - 1], word[k], k)
    BY <2>1, <2>2, LongerExtends
  <2>4. f[k] \in Seq(Bytes)
    BY <2>3 DEF Extended
  <2> QED
    BY <2>3, <2>4
<1>3. \A k \in 1 .. N : k - 1 \in B => k \in B
  BY <1>2
<1> HIDE DEF B
<1>4. \A k \in 0 .. N : k \in B
  BY <1>1, <1>3, UpTo
<1>5. \A k \in 1 .. N : k - 1 \in B
  BY <1>4
<1> QED
  BY <1>1, <1>2, <1>4, <1>5 DEF B

\* The text y starts with the text z.
Starts(y, z) == Len(z) <= Len(y) /\ \A i \in 1 .. Len(z) : y[i] = z[i]

\* The text of some words is the start of the text of all.
LEMMA BodyPrefix ==
  ASSUME NEW word, NEW N \in Nat, NEW f, IsBody(f, word, N),
         \A k \in 1 .. N : word[k] \in Seq(Bytes), NEW n \in 0 .. N
  PROVE  Starts(f[N], f[n])
<1> DEFINE B == {k \in 0 .. N : k >= n => Starts(f[k], f[n])}
<1>1. \A k \in 0 .. N : f[k] \in Seq(Bytes)
  BY BodyGrows
<1>2. ASSUME NEW z \in Seq(Bytes)
      PROVE  Starts(z, z)
  BY DEF Starts
<1>3. 0 \in B
  BY <1>1, <1>2
<1>4. ASSUME NEW k \in 1 .. N, k - 1 \in B
      PROVE  k \in B
  <2>1. CASE k < n
    BY <2>1
  <2>2. CASE k = n
    BY <1>1, <1>2, <2>2
  <2>3. CASE k > n
    <3>1. k - 1 >= n /\ k - 1 \in 0 .. N
      BY <2>3
    <3>2. PICK x : x = f[n]
      OBVIOUS
    <3>3. PICK y : y = f[k - 1]
      OBVIOUS
    <3>4. PICK z : z = f[k]
      OBVIOUS
    <3>5. PICK w : w = word[k]
      OBVIOUS
    <3>6. Starts(y, x)
      BY <1>4, <3>1, <3>2, <3>3
    <3>7. Extended(z, y, w, k)
      BY <3>3, <3>4, <3>5, BodyGrows
    <3>8. Len(x) \in Nat /\ Len(y) \in Nat /\ Len(w) \in Nat
      BY <1>1, <3>1, <3>2, <3>3, <3>5
    <3>9. Starts(z, x)
      BY <3>6, <3>7, <3>8 DEF Starts, Extended, Gap
    <3> QED
      BY <3>2, <3>4, <3>9
  <2> QED
    BY <2>1, <2>2, <2>3
<1> HIDE DEF B
<1>5. \A k \in 0 .. N : k \in B
  BY <1>3, <1>4, UpTo
<1> QED
  BY <1>5 DEF B

\* The bytes of a command with numbers.
Text(op, q, word) ==
  <<ESC, 91>> \o (IF q = 1 THEN <<63>> ELSE <<>>) \o Body(word) \o <<Final[op]>>

\* Where everything is in those bytes: word n stands behind the first at[n] of them.
Shaped(full, op, q, word, at) ==
  /\ full \in Seq(Bytes) /\ Len(full) >= 3 + q
  /\ full[1] = ESC /\ full[2] = 91 /\ (q = 1 => full[3] = 63)
  /\ at \in [1 .. Len(word) -> Nat]
  /\ Len(word) = 0 => Len(full) = 3 + q
  /\ Len(word) > 0 => /\ at[1] = 2 + q
                      /\ Len(full) = at[Len(word)] + Len(word[Len(word)]) + 1
  /\ full[Len(full)] = Final[op]
  /\ \A n \in 1 .. Len(word) :
       /\ at[n] + Len(word[n]) < Len(full)
       /\ \A j \in 1 .. Len(word[n]) : full[at[n] + j] = word[n][j]
  /\ \A n \in 1 .. Len(word) - 1 : /\ at[n + 1] = at[n] + Len(word[n]) + 1
                                   /\ full[at[n + 1]] = 59

LEMMA FinalBytes ==
  ASSUME NEW op \in DOMAIN Final
  PROVE  Final[op] \in Bytes
<1>1. op \in FinalOps
  BY DEF Final, FinalOps
<1> QED
  BY <1>1 DEF Final, FinalOps, Bytes

\* The four parts of the bytes of a command.
FourParts(full, op, q, body) ==
  /\ full \in Seq(Bytes) /\ Len(full) = 2 + q + Len(body) + 1
  /\ full[1] = ESC /\ full[2] = 91 /\ (q = 1 => full[3] = 63)
  /\ \A i \in 1 .. Len(body) : full[2 + q + i] = body[i]
  /\ full[Len(full)] = Final[op]

LEMMA TextParts ==
  ASSUME NEW op \in DOMAIN Final, NEW q \in {0, 1}, NEW word, NEW body \in Seq(Bytes),
         Body(word) = body
  PROVE  FourParts(Text(op, q, word), op, q, body)
<1>1. PICK a : a = <<ESC, 91>>
  OBVIOUS
<1>2. PICK s : s = IF q = 1 THEN <<63>> ELSE <<>>
  OBVIOUS
<1>3. PICK c : c = <<Final[op]>>
  OBVIOUS
<1>4. PICK x : x = a \o s
  OBVIOUS
<1>5. PICK y : y = x \o body
  OBVIOUS
<1>6. PICK z : z = y \o c
  OBVIOUS
<1>7. a \in Seq(Bytes) /\ Len(a) = 2 /\ a[1] = ESC /\ a[2] = 91
  BY <1>1 DEF Bytes, ESC
<1>8. s \in Seq(Bytes) /\ Len(s) = q /\ (q = 1 => s[1] = 63)
  <2>1. CASE q = 0
    BY <1>2, <2>1
  <2>2. CASE q = 1
    <3>1. s = <<63>> /\ 63 \in Bytes
      BY <1>2, <2>2 DEF Bytes
    <3> QED
      BY <2>2, <3>1
  <2> QED
    BY <2>1, <2>2
<1>9. c \in Seq(Bytes) /\ Len(c) = 1 /\ c[1] = Final[op]
  <2>1. Final[op] \in Bytes
    BY FinalBytes
  <2> QED
    BY <1>3, <2>1
<1>10. Joined(x, a, s)
  BY <1>4, <1>7, <1>8, ConcatJoins
<1>11. x \in Seq(Bytes) /\ Len(x) = 2 + q
  BY <1>7, <1>8, <1>10 DEF Joined
<1>12. Joined(y, x, body)
  BY <1>5, <1>11, ConcatJoins
<1>13. y \in Seq(Bytes) /\ Len(y) = 2 + q + Len(body) /\ Len(body) \in Nat
  BY <1>11, <1>12 DEF Joined
<1>14. Joined(z, y, c)
  BY <1>6, <1>9, <1>13, ConcatJoins
<1>15. z \in Seq(Bytes) /\ Len(z) = 2 + q + Len(body) + 1 /\ z[Len(z)] = Final[op]
  BY <1>9, <1>13, <1>14 DEF Joined
<1>16. ASSUME NEW i \in 1 .. 2 + q
       PROVE  z[i] = x[i]
  <2>1. i \in 1 .. Len(x) /\ i \in 1 .. Len(y)
    BY <1>11, <1>13
  <2> QED
    BY <1>12, <1>14, <2>1 DEF Joined
<1>17. z[1] = ESC /\ z[2] = 91
  <2>1. 1 \in 1 .. 2 + q /\ 2 \in 1 .. 2 + q /\ 1 \in 1 .. Len(a) /\ 2 \in 1 .. Len(a)
    BY <1>7
  <2> QED
    BY <1>7, <1>10, <1>16, <2>1 DEF Joined
<1>18. q = 1 => z[3] = 63
  <2>1. HAVE q = 1
  <2>2. 3 \in 1 .. 2 + q /\ 1 \in 1 .. Len(s) /\ 3 = Len(a) + 1
    BY <1>7, <1>8, <2>1
  <2>3. z[3] = x[3] /\ x[Len(a) + 1] = s[1]
    BY <1>10, <1>16, <2>2 DEF Joined
  <2> QED
    BY <1>8, <2>1, <2>2, <2>3
<1>19. \A i \in 1 .. Len(body) : z[2 + q + i] = body[i]
  <2>1. TAKE i \in 1 .. Len(body)
  <2>2. 2 + q + i \in 1 .. Len(y) /\ 2 + q + i = Len(x) + i
    BY <1>11, <1>13
  <2> QED
    BY <1>12, <1>14, <2>2 DEF Joined
<1>20. Text(op, q, word) = z
  BY <1>1, <1>2, <1>3, <1>4, <1>5, <1>6, Zenon DEF Text
<1> QED
  BY <1>15, <1>17, <1>18, <1>19, <1>20 DEF FourParts

Spelt(word) == /\ Len(word) \in Nat
               /\ \A k \in 1 .. Len(word) : word[k] \in Seq(Bytes)

\* A word w of m bytes behind the a bytes of the words before it and a gap of g bytes.
LEMMA WordPlace ==
  ASSUME NEW q \in Nat, NEW a \in Nat, NEW g \in Nat, NEW m \in Nat, NEW b, NEW c \in Nat,
         NEW d, NEW e, NEW full, NEW z, NEW w,
         e = 2 + q + c + 1, d = 2 + q + a + g, b = a + g + m, b <= c,
         \A i \in 1 .. b : full[2 + q + i] = z[i],
         \A i \in 1 .. m : z[a + g + i] = w[i]
  PROVE  d + m < e /\ \A j \in 1 .. m : full[d + j] = w[j]
<1>1. d + m < e
  OBVIOUS
<1>2. ASSUME NEW j \in 1 .. m
      PROVE  full[d + j] = w[j]
  <2>1. a + g + j \in 1 .. b /\ d + j = 2 + q + (a + g + j)
    OBVIOUS
  <2>2. full[2 + q + (a + g + j)] = z[a + g + j]
    BY <2>1
  <2> QED
    BY <2>1, <2>2
<1> QED
  BY <1>1, <1>2

\* The semicolon between two words.
LEMMA GapPlace ==
  ASSUME NEW q \in Nat, NEW a \in Nat, NEW g \in Nat, NEW m \in Nat, NEW b, NEW c \in Nat,
         NEW d, NEW e, NEW full, NEW z,
         d = 2 + q + a + g, b = a + g + m, e = 2 + q + b + 1, b + 1 <= c,
         \A i \in 1 .. c : full[2 + q + i] = z[i], z[b + 1] = 59
  PROVE  e = d + m + 1 /\ full[e] = 59
<1>1. e = d + m + 1 /\ b + 1 \in 1 .. c /\ e = 2 + q + (b + 1)
  OBVIOUS
<1>2. full[2 + q + (b + 1)] = z[b + 1]
  BY <1>1
<1> QED
  BY <1>1, <1>2

LEMMA PartsShaped ==
  ASSUME NEW op, NEW q \in Nat, NEW word, Spelt(word), NEW full,
         FourParts(full, op, q, Body(word))
  PROVE  \E at : Shaped(full, op, q, word, at)
<1>1. PICK N \in Nat : N = Len(word)
  BY DEF Spelt
<1>2. PICK f : IsBody(f, word, N) /\ Body(word) = f[N]
  BY <1>1, BodyLoops
<1>4. /\ \A k \in 0 .. N : f[k] \in Seq(Bytes)
      /\ f[0] = <<>>
      /\ \A k \in 1 .. N : Extended(f[k], f[k - 1], word[k], k)
      /\ \A k \in 0 .. N : Starts(f[N], f[k])
  BY <1>1, <1>2, BodyGrows, BodyPrefix DEF Spelt
<1>5. /\ full \in Seq(Bytes) /\ Len(full) = 2 + q + Len(f[N]) + 1
      /\ full[1] = ESC /\ full[2] = 91 /\ (q = 1 => full[3] = 63)
      /\ \A i \in 1 .. Len(f[N]) : full[2 + q + i] = f[N][i]
      /\ full[Len(full)] = Final[op]
  BY <1>2 DEF FourParts
<1>6. PICK l : \A k \in 0 .. N : l[k] = Len(f[k]) /\ l[k] \in Nat
  <2> DEFINE l == [k \in 0 .. N |-> Len(f[k])]
  <2>1. \A k \in 0 .. N : l[k] = Len(f[k]) /\ l[k] \in Nat
    BY <1>4
  <2> QED
    BY <2>1
<1>7. l[0] = 0
  BY <1>4, <1>6
<1>0. q \in Nat /\ Len(full) = 2 + q + l[N] + 1 /\ l[N] \in Nat
  <2>1. N \in 0 .. N
    OBVIOUS
  <2> QED
    BY <1>5, <1>6, <2>1
<1>8. \A n \in 1 .. N : Gap(n) \in Nat /\ l[n - 1] \in Nat
  BY <1>6 DEF Gap
<1>9. PICK at : /\ at \in [1 .. N -> Nat]
                /\ \A n \in 1 .. N : at[n] = 2 + q + l[n - 1] + Gap(n)
  <2> DEFINE at == [n \in 1 .. N |-> 2 + q + l[n - 1] + Gap(n)]
  <2>1. at \in [1 .. N -> Nat] /\ \A n \in 1 .. N : at[n] = 2 + q + l[n - 1] + Gap(n)
    BY <1>0, <1>8
  <2> QED
    BY <2>1
<1>11. ASSUME NEW n \in 1 .. N
       PROVE  /\ l[n] = l[n - 1] + Gap(n) + Len(word[n]) /\ l[n] <= l[N]
              /\ \A i \in 1 .. l[n] : full[2 + q + i] = f[n][i]
              /\ n # 1 => f[n][l[n - 1] + 1] = 59
              /\ \A i \in 1 .. Len(word[n]) : f[n][l[n - 1] + Gap(n) + i] = word[n][i]
              /\ Len(word[n]) \in Nat /\ l[n - 1] \in Nat /\ l[n] \in Nat /\ l[N] \in Nat
  <2>1. n - 1 \in 0 .. N /\ n \in 0 .. N /\ N \in 0 .. N
    OBVIOUS
  <2>2. l[n - 1] = Len(f[n - 1]) /\ l[n] = Len(f[n]) /\ l[N] = Len(f[N])
        /\ l[n - 1] \in Nat /\ l[n] \in Nat /\ l[N] \in Nat
    BY <1>6, <2>1
  <2>3. Extended(f[n], f[n - 1], word[n], n) /\ Starts(f[N], f[n])
    BY <1>4, <2>1
  <2>4. \A i \in 1 .. l[n] : full[2 + q + i] = f[n][i]
    <3>1. TAKE i \in 1 .. l[n]
    <3>2. l[n] <= l[N] /\ f[N][i] = f[n][i]
      BY <2>2, <2>3, <3>1 DEF Starts
    <3>3. i \in 1 .. Len(f[N])
      BY <2>2, <3>1, <3>2
    <3> QED
      BY <1>5, <3>2, <3>3
  <2>5. Len(word[n]) \in Nat
    BY <1>1 DEF Spelt
  <2> QED
    BY <2>2, <2>3, <2>4, <2>5 DEF Extended, Starts
<1>12. N = 0 => Len(full) = 3 + q
  BY <1>0, <1>7
<1>13. N > 0 => at[1] = 2 + q /\ Len(full) = at[N] + Len(word[N]) + 1
  <2>1. HAVE N > 0
  <2>2. 1 \in 1 .. N /\ N \in 1 .. N /\ 1 - 1 = 0
    BY <2>1
  <2>3. at[1] = 2 + q
    BY <1>0, <1>7, <1>9, <2>2 DEF Gap
  <2>4. at[N] = 2 + q + l[N - 1] + Gap(N) /\ l[N] = l[N - 1] + Gap(N) + Len(word[N])
        /\ l[N - 1] \in Nat /\ Len(word[N]) \in Nat /\ Gap(N) \in Nat
    BY <1>8, <1>9, <1>11, <2>2
  <2>5. PICK a \in Nat : a = l[N - 1]
    BY <2>4
  <2>6. PICK g \in Nat : g = Gap(N)
    BY <2>4
  <2>7. PICK m \in Nat : m = Len(word[N])
    BY <2>4
  <2>8. at[N] = 2 + q + a + g /\ l[N] = a + g + m /\ Len(full) = 2 + q + l[N] + 1
    BY <1>0, <2>4, <2>5, <2>6, <2>7
  <2>9. PICK x : x = at[N]
    OBVIOUS
  <2>10. PICK y : y = Len(full)
    OBVIOUS
  <2>11. x = 2 + q + a + g /\ y = 2 + q + (a + g + m) + 1
    BY <2>8, <2>9, <2>10
  <2>12. y = x + m + 1
    BY <2>11
  <2> QED
    BY <2>3, <2>7, <2>9, <2>10, <2>12
<1>14. ASSUME NEW n \in 1 .. N
       PROVE  /\ at[n] + Len(word[n]) < Len(full)
              /\ \A j \in 1 .. Len(word[n]) : full[at[n] + j] = word[n][j]
  <2>1. at[n] = 2 + q + l[n - 1] + Gap(n) /\ Gap(n) \in Nat
    BY <1>8, <1>9
  <2>2. PICK a \in Nat : a = l[n - 1]
    BY <1>11
  <2>3. PICK g \in Nat : g = Gap(n)
    BY <2>1
  <2>4. PICK w : w = word[n]
    OBVIOUS
  <2>5. PICK m \in Nat : m = Len(w)
    BY <1>11, <2>4
  <2>6. PICK c \in Nat : c = l[N]
    BY <1>0
  <2>7. PICK z : z = f[n]
    OBVIOUS
  <2>8. PICK b : b = l[n]
    OBVIOUS
  <2>9. PICK d : d = at[n]
    OBVIOUS
  <2>10. PICK e : e = Len(full)
    OBVIOUS
  <2>11. /\ e = 2 + q + c + 1 /\ d = 2 + q + a + g /\ b = a + g + m /\ b <= c
         /\ \A i \in 1 .. b : full[2 + q + i] = z[i]
         /\ \A i \in 1 .. m : z[a + g + i] = w[i]
    BY <1>0, <1>11, <2>1, <2>2, <2>3, <2>4, <2>5, <2>6, <2>7, <2>8, <2>9, <2>10
  <2>12. d + m < e /\ \A j \in 1 .. m : full[d + j] = w[j]
    BY <2>11, WordPlace
  <2> QED
    BY <2>4, <2>5, <2>9, <2>10, <2>12
<1>15. ASSUME NEW n \in 1 .. N - 1
       PROVE  at[n + 1] = at[n] + Len(word[n]) + 1 /\ full[at[n + 1]] = 59
  <2>1. n \in 1 .. N /\ n + 1 \in 1 .. N /\ (n + 1) - 1 = n /\ n + 1 # 1
    OBVIOUS
  <2>2. at[n] = 2 + q + l[n - 1] + Gap(n) /\ at[n + 1] = 2 + q + l[n] + 1
        /\ Gap(n) \in Nat /\ Gap(n + 1) = 1
    BY <1>8, <1>9, <2>1 DEF Gap
  <2>3. l[n] = l[n - 1] + Gap(n) + Len(word[n])
        /\ l[n] \in Nat /\ l[n - 1] \in Nat /\ Len(word[n]) \in Nat
    BY <1>11, <2>1
  <2>4. /\ f[n + 1][l[n] + 1] = 59 /\ l[n + 1] = l[n] + Gap(n + 1) + Len(word[n + 1])
        /\ Len(word[n + 1]) \in Nat /\ l[n + 1] \in Nat
        /\ \A i \in 1 .. l[n + 1] : full[2 + q + i] = f[n + 1][i]
    BY <1>11, <2>1
  <2>5. l[n] + 1 <= l[n + 1]
    BY <2>2, <2>3, <2>4
  <2>6. PICK a \in Nat : a = l[n - 1]
    BY <2>3
  <2>7. PICK g \in Nat : g = Gap(n)
    BY <2>2
  <2>8. PICK m \in Nat : m = Len(word[n])
    BY <2>3
  <2>9. PICK c \in Nat : c = l[n + 1]
    BY <2>4
  <2>10. PICK z : z = f[n + 1]
    OBVIOUS
  <2>11. PICK b : b = l[n]
    OBVIOUS
  <2>12. PICK d : d = at[n]
    OBVIOUS
  <2>13. PICK e : e = at[n + 1]
    OBVIOUS
  <2>14. /\ d = 2 + q + a + g /\ b = a + g + m /\ e = 2 + q + b + 1 /\ b + 1 <= c
         /\ (\A i \in 1 .. c : full[2 + q + i] = z[i]) /\ z[b + 1] = 59
    BY <2>2, <2>3, <2>4, <2>5, <2>6, <2>7, <2>8, <2>9, <2>10, <2>11, <2>12, <2>13
  <2>15. e = d + m + 1 /\ full[e] = 59
    BY <2>14, GapPlace
  <2> QED
    BY <2>8, <2>12, <2>13, <2>15
<1>16. Len(full) >= 3 + q
  BY <1>0
<1>17. Shaped(full, op, q, word, at)
  BY <1>1, <1>5, <1>9, <1>12, <1>13, <1>14, <1>15, <1>16 DEF Shaped
<1> QED
  BY <1>17

LEMMA TextShaped ==
  ASSUME NEW op \in DOMAIN Final, NEW q \in {0, 1}, NEW word, Spelt(word)
  PROVE  \E at : Shaped(Text(op, q, word), op, q, word, at)
<1>1. PICK f : IsBody(f, word, Len(word)) /\ Body(word) = f[Len(word)]
  BY BodyLoops DEF Spelt
<1>2. Body(word) \in Seq(Bytes)
  BY <1>1, BodyGrows DEF Spelt
<1>3. FourParts(Text(op, q, word), op, q, Body(word))
  BY <1>2, TextParts
<1>4. q \in Nat
  OBVIOUS
<1> QED
  BY <1>3, <1>4, PartsShaped

----------------------------------------------------------------------------
(* How far a command has been read                                         *)

\* What is left of the bytes of a command when i of them have been read.
Rest(full, i) == SubSeq(full, i + 1, Len(full))

LEMMA RestSteps ==
  ASSUME NEW full \in Seq(Bytes), NEW i \in 0 .. Len(full) - 1
  PROVE  /\ Rest(full, i) # <<>> /\ Rest(full, i) \in Seq(Bytes)
         /\ Head(Rest(full, i)) = full[i + 1]
         /\ Tail(Rest(full, i)) = Rest(full, i + 1)
         /\ Rest(full, i + 1) \in Seq(Bytes)
<1>1. Len(full) \in Nat /\ i + 1 \in 1 .. Len(full) /\ i \in Nat
  OBVIOUS
<1>2. i + 1 \in Int /\ i + 2 \in Int /\ Len(full) \in Int /\ (i + 1) + 1 = i + 2
  BY <1>1
<1>3. \A k \in i + 1 .. Len(full) : full[k] \in Bytes
  BY <1>1
<1>4. \A k \in i + 2 .. Len(full) : full[k] \in Bytes
  BY <1>1
<1>5. /\ SubSeq(full, i + 1, Len(full)) \in Seq(Bytes)
      /\ Len(SubSeq(full, i + 1, Len(full))) =
           IF i + 1 <= Len(full) THEN Len(full) - (i + 1) + 1 ELSE 0
  BY <1>2, <1>3, SubSeqProperties
<1>6. SubSeq(full, i + 2, Len(full)) \in Seq(Bytes)
  BY <1>2, <1>4, SubSeqProperties
<1>7. Len(SubSeq(full, i + 1, Len(full))) # 0
  BY <1>1, <1>5
<1>8. SubSeq(full, i + 1, Len(full)) # <<>>
  <2>1. PICK z : z = SubSeq(full, i + 1, Len(full))
    OBVIOUS
  <2>2. Len(z) # 0
    BY <1>7, <2>1, Zenon
  <2>3. Len(<<>>) = 0
    OBVIOUS
  <2>4. z # <<>>
    BY <2>2, <2>3, Zenon
  <2> QED
    BY <2>1, <2>4, Zenon
<1>9. /\ Head(SubSeq(full, i + 1, Len(full))) = full[i + 1]
      /\ Tail(SubSeq(full, i + 1, Len(full))) = SubSeq(full, (i + 1) + 1, Len(full))
  BY <1>1, <1>2, HeadTailOfSubSeq
<1> QED
  BY <1>2, <1>5, <1>6, <1>8, <1>9 DEF Rest

LEMMA RestEnds ==
  ASSUME NEW full \in Seq(Bytes)
  PROVE  Rest(full, Len(full)) = <<>> /\ Rest(full, 0) = full
<1>1. Len(full) \in Int /\ Len(full) + 1 \in Int /\ Len(full) < Len(full) + 1 /\ 0 + 1 = 1
  OBVIOUS
<1>2. SubSeq(full, Len(full) + 1, Len(full)) = <<>>
  BY <1>1, SubSeqEmpty
<1>3. SubSeq(full, 1, Len(full)) = full
  BY SubSeqFull
<1> QED
  BY <1>1, <1>2, <1>3 DEF Rest

\* The table of the command set s.
Home(s) == IF s = "vt52" THEN "vt52_normal" ELSE "normal"

\* What has been done after byte b.
DidAfter(p, b, d) ==
  IF Action(p, b) \in Collecting \cup ControlOps THEN d
  ELSE [op |-> Action(p, b), param |-> p.param, q_mode |-> p.q_mode, nparam |-> p.nparam]

\* The command with numbers ns, spelled by word, is full.
Encoded(op, ns, q, word, full, at) ==
  /\ op \in DOMAIN Final /\ q \in {0, 1}
  /\ Len(ns) \in Nat /\ Len(ns) <= MaxParams /\ Len(word) = Len(ns)
  /\ Len(ns) = 0 => ns = <<>>
  /\ \A n \in 1 .. Len(ns) : ns[n] \in 0 .. 99 /\ word[n] \in Spellings(ns[n])
  /\ Shaped(full, op, q, word, at)

\* The parser has read j digits of number n.
Reading(p, i, ns, q, word, at, n, j) ==
  /\ n \in 1 .. Len(ns) /\ j \in 0 .. Len(word[n]) /\ i = at[n] + j
  /\ p.nparam = n - 1 /\ p.q_mode = q
  /\ \A k \in 0 .. MAXPARAM - 1 :
       p.param[k] = IF k < n - 1 THEN ns[k + 1]
                    ELSE IF k = n - 1 THEN Value(word[n], j) ELSE 0

\* The parser has read i bytes of the command.
ReadTo(p, i, ns, q, word, at) ==
  \/ i = 0 /\ p.current_state = "normal"
  \/ i = 1 /\ p.current_state = "esc"
  \/ /\ p.current_state = "bracket"
     /\ \/ i = 2 /\ q = 1 /\ p.nparam = 0 /\ p.q_mode = 0 /\ p.param = Zeros
        \/ Len(ns) = 0 /\ i = 2 + q /\ p.nparam = 0 /\ p.q_mode = q /\ p.param = Zeros
        \/ \E n, j : Reading(p, i, ns, q, word, at, n, j)

Idle(p, t, m, d, s) == t = <<>> /\ p.current_state = Home(s) /\ Same(d, m)

WithNumbers(p, t, m, d, s, op, ns, q, word, full, at) ==
  /\ Encoded(op, ns, q, word, full, at)
  /\ m = Command(op, ns, q) /\ d = Nothing /\ s = IF ToVt52(m) THEN "vt52" ELSE "vt100"
  /\ \E i \in 0 .. Len(full) - 1 : t = Rest(full, i) /\ ReadTo(p, i, ns, q, word, at)

\* Before the first number.
LEMMA FirstNumber ==
  ASSUME NEW p \in ParserType, p.current_state = "bracket", NEW op, NEW ns, NEW q, NEW word,
         NEW full, NEW at, Encoded(op, ns, q, word, full, at),
         p.nparam = 0, p.q_mode = q, p.param = Zeros
  PROVE  ReadTo(p, 2 + q, ns, q, word, at)
<1>1. CASE Len(ns) = 0
  BY <1>1 DEF ReadTo
<1>2. CASE Len(ns) # 0
  <2>1. Len(ns) \in Nat /\ Len(ns) > 0 /\ Len(word) > 0 /\ 1 \in 1 .. Len(ns)
    BY <1>2 DEF Encoded
  <2>2. at[1] = 2 + q /\ q \in Nat
    BY <2>1 DEF Encoded, Shaped
  <2>3. word[1] \in Spellings(ns[1]) /\ ns[1] \in 0 .. 99
    BY <2>1 DEF Encoded
  <2>4. Len(word[1]) \in 0 .. 2 /\ Value(word[1], 0) = 0
    <3>1. ReadsBack(word[1], ns[1])
      BY <2>3, SpellingReadsBack
    <3> QED
      BY <3>1 DEF ReadsBack
  <2>5. 0 \in 0 .. Len(word[1])
    BY <2>4
  <2>6. \A k \in 0 .. MAXPARAM - 1 : p.param[k] = 0
    BY DEF Zeros
  <2>7. \A k \in 0 .. MAXPARAM - 1 :
          p.param[k] = IF k < 1 - 1 THEN ns[k + 1]
                       ELSE IF k = 1 - 1 THEN Value(word[1], 0) ELSE 0
    BY <2>4, <2>6
  <2>8. 2 + q = at[1] + 0 /\ p.nparam = 1 - 1
    BY <2>2
  <2>9. Reading(p, 2 + q, ns, q, word, at, 1, 0)
    BY <2>1, <2>5, <2>7, <2>8 DEF Reading
  <2> QED
    BY <2>9 DEF ReadTo
<1> QED
  BY <1>1, <1>2

\* The final byte: the command that was meant is carried out, and the parser is in
\* the table of the command set that the host uses from then on.
LEMMA FinalDone ==
  ASSUME NEW p \in ParserType, p.current_state = "bracket", NEW op \in DOMAIN Final, NEW m,
         m = [op |-> op, param |-> p.param, q_mode |-> p.q_mode, nparam |-> p.nparam],
         p.param[0] \in 0 .. 99,
         NEW s, s = IF ToVt52(m) THEN "vt52" ELSE "vt100", NEW d
  PROVE  /\ Turn(p, Final[op], Height) \in ParserType
         /\ Idle(Turn(p, Final[op], Height), <<>>, m, DidAfter(p, Final[op], d), s)
<1>1. /\ Action(p, Final[op]) = op /\ Turn(p, Final[op], Height) \in ParserType
      /\ Turn(p, Final[op], Height).current_state =
           IF op = "clear_mode" /\ ModeNumber(p) = 1002 THEN "vt52_normal" ELSE "normal"
  BY FinalTurn
<1>2. op \in FinalOps
  BY DEF Final, FinalOps
<1>3. op \notin Collecting \cup ControlOps
  BY <1>2 DEF FinalOps, Collecting, ControlOps
<1>4. DidAfter(p, Final[op], d) = m
  BY <1>1, <1>3 DEF DidAfter
<1>5. Same(m, m)
  BY DEF Same
<1>6. ModeNumber(p) = 1002 <=> p.q_mode = 1 /\ p.param[0] = 2
  <2>1. p.q_mode \in {0, 1}
    BY DEF ParserType
  <2>2. ModeNumber(p) = p.param[0] + 1000 * p.q_mode
    BY DEF ModeNumber
  <2>3. CASE p.q_mode = 0
    BY <2>2, <2>3
  <2>4. CASE p.q_mode = 1
    BY <2>2, <2>4
  <2> QED
    BY <2>1, <2>3, <2>4
<1>7. ToVt52(m) <=> op = "clear_mode" /\ ModeNumber(p) = 1002
  BY <1>6 DEF ToVt52
<1>8. Turn(p, Final[op], Height).current_state = Home(s)
  BY <1>1, <1>7 DEF Home
<1> QED
  BY <1>1, <1>4, <1>5, <1>8 DEF Idle

\* The parser reads byte i + 1 of a command with numbers.
Advances(p, i, d, op, ns, q, word, full, at) ==
  LET u == Turn(p, full[i + 1], Height)
      e == DidAfter(p, full[i + 1], d)
  IN  /\ u \in ParserType
      /\ \/ i + 1 \in 0 .. Len(full) - 1 /\ ReadTo(u, i + 1, ns, q, word, at) /\ e = d
         \/ /\ i + 1 = Len(full)
            /\ \A s : s = (IF ToVt52(Command(op, ns, q)) THEN "vt52" ELSE "vt100")
                        => Idle(u, <<>>, Command(op, ns, q), e, s)

LEMMA EscByte ==
  ASSUME NEW p \in ParserType, p.current_state = "normal", NEW d, NEW op, NEW ns, NEW q,
         NEW word, NEW full, NEW at, Encoded(op, ns, q, word, full, at)
  PROVE  Advances(p, 0, d, op, ns, q, word, full, at)
<1>1. full[0 + 1] = ESC /\ Len(full) >= 3 + q /\ q \in {0, 1} /\ Len(full) \in Nat
  BY DEF Encoded, Shaped
<1>2. EntryFor(p.current_state, ESC) = <<ESC, "none", "esc">> /\ "esc" \in States
  BY CollectingEntries DEF States, Default
<1>3. Action(p, ESC) = "none"
  BY <1>2, TurnDoes
<1>4. Turn(p, ESC, Height) \in ParserType /\ Turn(p, ESC, Height).current_state = "esc"
  BY <1>2, PlainTurn
<1>5. DidAfter(p, ESC, d) = d
  BY <1>3 DEF DidAfter, Collecting
<1>6. 0 + 1 \in 0 .. Len(full) - 1 /\ 0 + 1 = 1
  BY <1>1
<1>7. ReadTo(Turn(p, ESC, Height), 0 + 1, ns, q, word, at)
  BY <1>4, <1>6 DEF ReadTo
<1> QED
  BY <1>1, <1>4, <1>5, <1>6, <1>7 DEF Advances

LEMMA BracketByte ==
  ASSUME NEW p \in ParserType, p.current_state = "esc", NEW d, NEW op, NEW ns, NEW q,
         NEW word, NEW full, NEW at, Encoded(op, ns, q, word, full, at)
  PROVE  Advances(p, 1, d, op, ns, q, word, full, at)
<1>1. full[1 + 1] = 91 /\ Len(full) >= 3 + q /\ q \in {0, 1} /\ Len(full) \in Nat
  BY DEF Encoded, Shaped
<1>2. EntryFor(p.current_state, 91) = <<91, "clear_param", "bracket">> /\ "bracket" \in States
  BY CollectingEntries DEF States, Default
<1>3. Action(p, 91) = "clear_param"
  BY <1>2, TurnDoes
<1>4. PICK u : u = Turn(p, 91, Height)
  OBVIOUS
<1>5. u \in ParserType /\ u.current_state = "bracket"
      /\ u.nparam = 0 /\ u.param = Zeros /\ u.q_mode = 0
  BY <1>2, <1>4, ClearTurn
<1>6. DidAfter(p, 91, d) = d
  BY <1>3 DEF DidAfter, Collecting
<1>7. 1 + 1 \in 0 .. Len(full) - 1 /\ 1 + 1 = 2
  BY <1>1
<1>8. ReadTo(u, 1 + 1, ns, q, word, at)
  <2>1. CASE q = 1
    BY <1>5, <1>7, <2>1 DEF ReadTo
  <2>2. CASE q = 0
    <3>1. ReadTo(u, 2 + q, ns, q, word, at)
      BY <1>5, <2>2, FirstNumber
    <3>2. 2 + q = 1 + 1
      BY <2>2
    <3> QED
      BY <3>1, <3>2
  <2> QED
    BY <1>1, <2>1, <2>2
<1> QED
  BY <1>1, <1>4, <1>5, <1>6, <1>7, <1>8 DEF Advances

LEMMA QuestionByte ==
  ASSUME NEW p \in ParserType, p.current_state = "bracket", p.nparam = 0, p.q_mode = 0,
         p.param = Zeros, NEW d, NEW op, NEW ns, NEW q, q = 1,
         NEW word, NEW full, NEW at, Encoded(op, ns, q, word, full, at)
  PROVE  Advances(p, 2, d, op, ns, q, word, full, at)
<1>1. full[2 + 1] = 63 /\ Len(full) >= 3 + q /\ Len(full) \in Nat
  BY DEF Encoded, Shaped
<1>2. PICK u : u = Turn(p, 63, Height)
  OBVIOUS
<1>3. Action(p, 63) = "set_q_mode" /\ u \in ParserType /\ u.current_state = "bracket"
      /\ u.nparam = 0 /\ u.param = Zeros /\ u.q_mode = q
  BY <1>2, QuestionTurn
<1>4. DidAfter(p, 63, d) = d
  BY <1>3 DEF DidAfter, Collecting
<1>5. ReadTo(u, 2 + q, ns, q, word, at)
  BY <1>3, FirstNumber
<1>6. 2 + 1 \in 0 .. Len(full) - 1
  BY <1>1
<1> QED
  BY <1>1, <1>2, <1>3, <1>4, <1>5, <1>6 DEF Advances

\* The final byte of a command without numbers.
LEMMA BareFinalByte ==
  ASSUME NEW p \in ParserType, p.current_state = "bracket", p.nparam = 0,
         p.param = Zeros, NEW d, NEW op, NEW ns, NEW q, p.q_mode = q, Len(ns) = 0,
         NEW word, NEW full, NEW at, Encoded(op, ns, q, word, full, at)
  PROVE  Advances(p, 2 + q, d, op, ns, q, word, full, at)
<1>1. /\ op \in DOMAIN Final /\ q \in {0, 1} /\ ns = <<>> /\ Len(full) = 3 + q
      /\ full[Len(full)] = Final[op]
  BY DEF Encoded, Shaped
<1>2. 2 + q + 1 = Len(full)
  BY <1>1
<1>3. Padded(ns) = Zeros
  BY <1>1 DEF Padded, Zeros
<1> DEFINE m == Command(op, ns, q)
<1>4. m = [op |-> op, param |-> p.param, q_mode |-> p.q_mode, nparam |-> p.nparam]
  BY <1>1, <1>3 DEF Command
<1>5. p.param[0] \in 0 .. 99
  BY ParamCountAssumption DEF Zeros
<1> HIDE DEF m
<1>6. ASSUME NEW s, s = IF ToVt52(m) THEN "vt52" ELSE "vt100"
      PROVE  /\ Turn(p, Final[op], Height) \in ParserType
             /\ Idle(Turn(p, Final[op], Height), <<>>, m, DidAfter(p, Final[op], d), s)
  BY <1>1, <1>4, <1>5, <1>6, FinalDone
<1>7. Turn(p, Final[op], Height) \in ParserType
  BY <1>6
<1>8. full[2 + q + 1] = Final[op]
  BY <1>1, <1>2
<1> QED
  BY <1>2, <1>6, <1>7, <1>8 DEF Advances, m

\* What the bytes of a command say of its number n.
LEMMA NumberPlace ==
  ASSUME NEW op, NEW ns, NEW q, NEW word, NEW full, NEW at,
         Encoded(op, ns, q, word, full, at), NEW n \in 1 .. Len(ns)
  PROVE  /\ ns[n] \in 0 .. 99 /\ at[n] \in Nat /\ Len(full) \in Nat /\ Len(word[n]) \in Nat
         /\ at[n] + Len(word[n]) < Len(full)
         /\ Value(word[n], 0) = 0 /\ Value(word[n], Len(word[n])) = ns[n]
         /\ \A j \in 0 .. Len(word[n]) - 1 :
              /\ full[at[n] + j + 1] \in Digits
              /\ Value(word[n], j + 1) = Value(word[n], j) * 10 + full[at[n] + j + 1] - 48
<1>1. ns[n] \in 0 .. 99 /\ word[n] \in Spellings(ns[n]) /\ n \in 1 .. Len(word)
      /\ Shaped(full, op, q, word, at)
  BY DEF Encoded
<1>2. PICK w : w = word[n]
  OBVIOUS
<1>3. PICK x : x = ns[n]
  OBVIOUS
<1>4. PICK a : a = at[n]
  OBVIOUS
<1>5. PICK m : m = Len(w)
  OBVIOUS
<1>6. /\ w \in Seq(Digits) /\ Value(w, 0) = 0 /\ Value(w, m) = x
      /\ \A j \in 0 .. m - 1 :
           w[j + 1] \in Digits /\ Value(w, j + 1) = Value(w, j) * 10 + w[j + 1] - 48
  <2>1. ReadsBack(w, x)
    BY <1>1, <1>2, <1>3, SpellingReadsBack
  <2> QED
    BY <1>5, <2>1 DEF ReadsBack
<1>7. m \in Nat
  BY <1>5, <1>6
<1>8. a \in Nat
  BY <1>1, <1>4 DEF Shaped
<1>9. Len(full) \in Nat
  BY <1>1 DEF Shaped
<1>10. a + m < Len(full) /\ \A j \in 1 .. m : full[a + j] = w[j]
  BY <1>1, <1>2, <1>4, <1>5 DEF Shaped
<1>11. ASSUME NEW j \in 0 .. m - 1
       PROVE  full[a + j + 1] = w[j + 1]
  <2>1. j + 1 \in 1 .. m /\ a + (j + 1) = a + j + 1
    BY <1>7, <1>8
  <2>2. full[a + (j + 1)] = w[j + 1]
    BY <1>10, <2>1
  <2> QED
    BY <2>1, <2>2
<1>12. \A j \in 0 .. m - 1 : /\ full[a + j + 1] \in Digits
                             /\ Value(w, j + 1) = Value(w, j) * 10 + full[a + j + 1] - 48
  BY <1>6, <1>11
<1> QED
  BY <1>1, <1>2, <1>3, <1>4, <1>5, <1>6, <1>7, <1>8, <1>9, <1>10, <1>12

LEMMA DigitByte ==
  ASSUME NEW p \in ParserType, p.current_state = "bracket", NEW i, NEW d, NEW op, NEW ns,
         NEW q, NEW word, NEW full, NEW at, Encoded(op, ns, q, word, full, at),
         NEW n, NEW j, Reading(p, i, ns, q, word, at, n, j), j # Len(word[n])
  PROVE  Advances(p, i, d, op, ns, q, word, full, at)
<1>1. n \in 1 .. Len(ns) /\ j \in 0 .. Len(word[n]) /\ i = at[n] + j
      /\ p.nparam = n - 1 /\ p.q_mode = q
  BY DEF Reading
<1>2. PICK b : b = full[i + 1]
  OBVIOUS
<1>3. PICK v : v = Value(word[n], j)
  OBVIOUS
<1>4. at[n] \in Nat /\ Len(full) \in Nat /\ Len(word[n]) \in Nat
      /\ at[n] + Len(word[n]) < Len(full)
  BY <1>1, NumberPlace
<1>5. j \in 0 .. Len(word[n]) - 1 /\ j + 1 \in 0 .. Len(word[n])
  BY <1>1, <1>4
<1>6. b \in Digits /\ Value(word[n], j + 1) = v * 10 + b - 48
  <2>1. full[at[n] + j + 1] \in Digits
        /\ Value(word[n], j + 1) = Value(word[n], j) * 10 + full[at[n] + j + 1] - 48
    BY <1>1, <1>5, NumberPlace
  <2>2. full[at[n] + j + 1] = b
    BY <1>1, <1>2
  <2> QED
    BY <1>3, <2>1, <2>2
<1>7. i + 1 = at[n] + (j + 1) /\ i + 1 \in 0 .. Len(full) - 1
  <2>1. PICK a \in Nat : a = at[n]
    BY <1>4
  <2>2. PICK m \in Nat : m = Len(word[n])
    BY <1>4
  <2>3. PICK l \in Nat : l = Len(full)
    BY <1>4
  <2>4. j \in 0 .. m - 1 /\ a + m < l /\ i = a + j
    BY <1>1, <1>4, <1>5, <2>1, <2>2, <2>3
  <2>5. i + 1 = a + (j + 1) /\ i + 1 \in 0 .. l - 1
    BY <2>4
  <2> QED
    BY <2>1, <2>3, <2>5
<1>8. PICK u : u = Turn(p, b, Height)
  OBVIOUS
<1>9. /\ Action(p, b) = "param_digit" /\ u \in ParserType /\ u.current_state = "bracket"
      /\ u.nparam = p.nparam /\ u.q_mode = p.q_mode
      /\ u.param = [p.param EXCEPT ![p.nparam] = @ * 10 + b - 48]
  BY <1>6, <1>8, DigitTurn
<1>10. p.param \in [0 .. MAXPARAM - 1 -> Int] /\ p.nparam \in 0 .. MAXPARAM - 1
  BY DEF ParserType
<1>11. ASSUME NEW k \in 0 .. MAXPARAM - 1
       PROVE  u.param[k] = IF k < n - 1 THEN ns[k + 1]
                           ELSE IF k = n - 1 THEN Value(word[n], j + 1) ELSE 0
  <2>1. p.param[k] = IF k < n - 1 THEN ns[k + 1] ELSE IF k = n - 1 THEN v ELSE 0
    BY <1>3 DEF Reading
  <2>2. CASE k = n - 1
    <3>1. p.param[k] = v
      BY <1>1, <2>1, <2>2
    <3>2. u.param[k] = p.param[k] * 10 + b - 48
      BY <1>1, <1>9, <1>10, <2>2
    <3> QED
      BY <1>1, <1>6, <2>2, <3>1, <3>2
  <2>3. CASE k # n - 1
    <3>1. u.param[k] = p.param[k]
      BY <1>1, <1>9, <1>10, <2>3
    <3> QED
      BY <2>1, <2>3, <3>1
  <2> QED
    BY <2>2, <2>3
<1>12. Reading(u, i + 1, ns, q, word, at, n, j + 1)
  BY <1>1, <1>5, <1>7, <1>9, <1>11 DEF Reading
<1>13. ReadTo(u, i + 1, ns, q, word, at)
  BY <1>9, <1>12 DEF ReadTo
<1>14. DidAfter(p, b, d) = d
  BY <1>9 DEF DidAfter, Collecting
<1> QED
  BY <1>2, <1>7, <1>8, <1>9, <1>13, <1>14 DEF Advances

\* The numbers of a command fit in the array param.
LEMMA NumbersFit ==
  ASSUME NEW op, NEW ns, NEW q, NEW word, NEW full, NEW at,
         Encoded(op, ns, q, word, full, at)
  PROVE  Len(ns) \in Nat /\ Len(ns) <= MAXPARAM /\ MAXPARAM \in Nat
<1>1. Len(ns) \in Nat /\ Len(ns) <= MaxParams
  BY DEF Encoded
<1>2. MaxParams \in Nat /\ MaxParams <= MAXPARAM /\ MAXPARAM \in Nat
  BY HostAssumption, ParamCountAssumption
<1> QED
  BY <1>1, <1>2

LEMMA SemicolonByte ==
  ASSUME NEW p \in ParserType, p.current_state = "bracket", NEW i, NEW d, NEW op, NEW ns,
         NEW q, NEW word, NEW full, NEW at, Encoded(op, ns, q, word, full, at),
         NEW n, NEW j, Reading(p, i, ns, q, word, at, n, j), j = Len(word[n]), n # Len(ns)
  PROVE  Advances(p, i, d, op, ns, q, word, full, at)
<1>1. n \in 1 .. Len(ns) /\ i = at[n] + Len(word[n]) /\ p.nparam = n - 1 /\ p.q_mode = q
  BY DEF Reading
<1>2. Len(ns) \in Nat /\ Len(ns) <= MAXPARAM /\ MAXPARAM \in Nat
  BY NumbersFit
<1>3. n \in 1 .. Len(ns) - 1 /\ n + 1 \in 1 .. Len(ns) /\ n + 1 - 1 = n /\ n \in Nat
      /\ p.nparam + 1 < MAXPARAM
  BY <1>1, <1>2
<1>4. /\ at[n + 1] = i + 1 /\ full[i + 1] = 59
  <2>1. at[n + 1] = at[n] + Len(word[n]) + 1 /\ full[at[n + 1]] = 59
    BY <1>3 DEF Encoded, Shaped
  <2> QED
    BY <1>1, <2>1
<1>5. at[n + 1] \in Nat /\ Len(full) \in Nat /\ Len(word[n + 1]) \in Nat
      /\ at[n + 1] + Len(word[n + 1]) < Len(full) /\ Value(word[n + 1], 0) = 0
  BY <1>3, NumberPlace
<1>6. i + 1 = at[n + 1] + 0 /\ i + 1 \in 0 .. Len(full) - 1 /\ 0 \in 0 .. Len(word[n + 1])
  BY <1>4, <1>5
<1>7. PICK u : u = Turn(p, 59, Height)
  OBVIOUS
<1>8. /\ Action(p, 59) = "next_param" /\ u \in ParserType /\ u.current_state = "bracket"
      /\ u.nparam = n + 1 - 1 /\ u.q_mode = q /\ u.param = p.param
  BY <1>1, <1>3, <1>7, SemicolonTurn
<1>9. Value(word[n], j) = ns[n]
  BY <1>1, NumberPlace
<1>10. ASSUME NEW k \in 0 .. MAXPARAM - 1
       PROVE  u.param[k] = IF k < n + 1 - 1 THEN ns[k + 1]
                           ELSE IF k = n + 1 - 1 THEN Value(word[n + 1], 0) ELSE 0
  <2>1. p.param[k] = IF k < n - 1 THEN ns[k + 1]
                     ELSE IF k = n - 1 THEN ns[n] ELSE 0
    BY <1>9 DEF Reading
  <2>2. CASE k < n - 1
    BY <1>3, <1>8, <2>1, <2>2
  <2>3. CASE k = n - 1
    <3>1. k + 1 = n /\ k < n + 1 - 1
      BY <1>3, <2>3
    <3> QED
      BY <1>8, <2>1, <2>3, <3>1
  <2>4. CASE k >= n
    <3>1. ~(k < n - 1) /\ k # n - 1 /\ ~(k < n + 1 - 1)
      BY <1>3, <2>4
    <3> QED
      BY <1>5, <1>8, <2>1, <3>1
  <2> QED
    BY <1>3, <2>2, <2>3, <2>4
<1>11. Reading(u, i + 1, ns, q, word, at, n + 1, 0)
  BY <1>3, <1>6, <1>8, <1>10 DEF Reading
<1>12. ReadTo(u, i + 1, ns, q, word, at)
  BY <1>8, <1>11 DEF ReadTo
<1>13. DidAfter(p, 59, d) = d
  BY <1>8 DEF DidAfter, Collecting
<1> QED
  BY <1>4, <1>6, <1>7, <1>8, <1>12, <1>13 DEF Advances

\* The final byte behind the last number.
LEMMA FinalByte ==
  ASSUME NEW p \in ParserType, p.current_state = "bracket", NEW i, NEW d, NEW op, NEW ns,
         NEW q, NEW word, NEW full, NEW at, Encoded(op, ns, q, word, full, at),
         NEW n, NEW j, Reading(p, i, ns, q, word, at, n, j), j = Len(word[n]), n = Len(ns)
  PROVE  Advances(p, i, d, op, ns, q, word, full, at)
<1>1. n \in 1 .. Len(ns) /\ i = at[n] + Len(word[n]) /\ p.nparam = n - 1 /\ p.q_mode = q
  BY DEF Reading
<1>2. Len(ns) \in Nat /\ Len(ns) <= MAXPARAM /\ MAXPARAM \in Nat
  BY NumbersFit
<1>3. Len(ns) > 0 /\ ns # <<>> /\ 1 \in 1 .. Len(ns) /\ 0 \in 0 .. MAXPARAM - 1
  <2>1. Len(ns) > 0 /\ 1 \in 1 .. Len(ns) /\ 0 \in 0 .. MAXPARAM - 1
    BY <1>1, <1>2
  <2>2. Len(ns) # 0 /\ Len(<<>>) = 0
    BY <2>1
  <2> QED
    BY <2>1, <2>2
<1>4. op \in DOMAIN Final /\ full[Len(full)] = Final[op]
      /\ Len(full) = at[n] + Len(word[n]) + 1
  BY <1>1, <1>3 DEF Encoded, Shaped
<1>5. i + 1 = Len(full) /\ full[i + 1] = Final[op]
  BY <1>1, <1>4
<1>6. Value(word[n], j) = ns[n]
  BY <1>1, NumberPlace
<1>7. ASSUME NEW k \in 0 .. MAXPARAM - 1
      PROVE  p.param[k] = IF k < Len(ns) THEN ns[k + 1] ELSE 0
  <2>1. p.param[k] = IF k < n - 1 THEN ns[k + 1]
                     ELSE IF k = n - 1 THEN ns[n] ELSE 0
    BY <1>6 DEF Reading
  <2>2. CASE k < n - 1
    BY <1>1, <1>2, <2>1, <2>2
  <2>3. CASE k = n - 1
    <3>1. k + 1 = n /\ k < Len(ns) /\ ~(k < n - 1)
      BY <1>2, <2>3
    <3> QED
      BY <2>1, <2>3, <3>1
  <2>4. CASE k >= n
    <3>1. ~(k < n - 1) /\ k # n - 1 /\ ~(k < Len(ns))
      BY <1>2, <2>4
    <3> QED
      BY <2>1, <3>1
  <2> QED
    BY <1>2, <2>2, <2>3, <2>4
<1>8. p.param = Padded(ns)
  <2>1. p.param \in [0 .. MAXPARAM - 1 -> Int]
    BY DEF ParserType
  <2>2. p.param = [k \in 0 .. MAXPARAM - 1 |-> p.param[k]]
    BY <2>1
  <2>3. [k \in 0 .. MAXPARAM - 1 |-> p.param[k]]
          = [k \in 0 .. MAXPARAM - 1 |-> IF k < Len(ns) THEN ns[k + 1] ELSE 0]
    BY <1>7
  <2> QED
    BY <2>2, <2>3 DEF Padded
<1> DEFINE m == Command(op, ns, q)
<1>9. m = [op |-> op, param |-> p.param, q_mode |-> p.q_mode, nparam |-> p.nparam]
  BY <1>1, <1>3, <1>8 DEF Command
<1>10. p.param[0] \in 0 .. 99
  <2>1. p.param[0] = ns[0 + 1]
    BY <1>3, <1>7
  <2>2. ns[1] \in 0 .. 99
    BY <1>3, NumberPlace
  <2> QED
    BY <2>1, <2>2
<1> HIDE DEF m
<1>11. ASSUME NEW s, s = IF ToVt52(m) THEN "vt52" ELSE "vt100"
       PROVE  /\ Turn(p, Final[op], Height) \in ParserType
              /\ Idle(Turn(p, Final[op], Height), <<>>, m, DidAfter(p, Final[op], d), s)
  BY <1>4, <1>9, <1>10, <1>11, FinalDone
<1>12. Turn(p, Final[op], Height) \in ParserType
  BY <1>11
<1> QED
  BY <1>5, <1>11, <1>12 DEF Advances, m

LEMMA NumbersAdvance ==
  ASSUME NEW p \in ParserType, NEW i, NEW d, NEW op, NEW ns, NEW q, NEW word, NEW full,
         NEW at, Encoded(op, ns, q, word, full, at), ReadTo(p, i, ns, q, word, at)
  PROVE  Advances(p, i, d, op, ns, q, word, full, at)
<1>1. CASE i = 0 /\ p.current_state = "normal"
  BY <1>1, EscByte
<1>2. CASE i = 1 /\ p.current_state = "esc"
  BY <1>2, BracketByte
<1>3. CASE p.current_state = "bracket" /\ i = 2 /\ q = 1 /\ p.nparam = 0 /\ p.q_mode = 0
           /\ p.param = Zeros
  BY <1>3, QuestionByte
<1>4. CASE p.current_state = "bracket" /\ Len(ns) = 0 /\ i = 2 + q /\ p.nparam = 0
           /\ p.q_mode = q /\ p.param = Zeros
  BY <1>4, BareFinalByte
<1>5. CASE p.current_state = "bracket" /\ \E n, j : Reading(p, i, ns, q, word, at, n, j)
  <2>1. PICK n, j : Reading(p, i, ns, q, word, at, n, j)
    BY <1>5
  <2>2. CASE j # Len(word[n])
    BY <1>5, <2>1, <2>2, DigitByte
  <2>3. CASE j = Len(word[n]) /\ n # Len(ns)
    BY <1>5, <2>1, <2>3, SemicolonByte
  <2>4. CASE j = Len(word[n]) /\ n = Len(ns)
    BY <1>5, <2>1, <2>4, FinalByte
  <2> QED
    BY <2>2, <2>3, <2>4
<1> QED
  BY <1>1, <1>2, <1>3, <1>4, <1>5 DEF ReadTo

----------------------------------------------------------------------------
(* The other commands                                                      *)

\* A command without numbers is under way.
Plainly(p, t, m, d, s, op) ==
  /\ op \in DOMAIN Plain /\ m = Command(op, <<>>, 0) /\ d = Nothing /\ s = "vt100"
  /\ \/ t = <<ESC>> \o Plain[op] /\ p.current_state = "normal"
     \/ t = Plain[op] /\ p.current_state = "esc"
     \/ op = "screen_align" /\ t = <<56>> /\ p.current_state = "hash"

Cleared(p) == p.nparam = 0 /\ p.q_mode = 0 /\ p.param = Zeros

\* A command of the vt52 is under way.
AsVt52(p, t, m, d, s, op) ==
  /\ op \in DOMAIN Vt52 /\ m = Command(op, <<>>, 0) /\ d = Nothing /\ s = "vt52"
  /\ \/ t = <<ESC, Vt52[op]>> /\ p.current_state = "vt52_normal"
     \/ t = <<Vt52[op]>> /\ p.current_state = "vt52_esc" /\ Cleared(p)

\* The address of a row and a column of the vt52 is under way.
Addressing(p, t, m, d, s, y) ==
  /\ y \in 1 .. Height - 1 /\ 32 + y <= 255
  /\ m = Command("vt52_cursorx", <<y>>, 0) /\ d = Nothing /\ s = "vt52"
  /\ \/ t = <<ESC, 89, 32 + y, 33>> /\ p.current_state = "vt52_normal"
     \/ t = <<89, 32 + y, 33>> /\ p.current_state = "vt52_esc" /\ Cleared(p)
     \/ t = <<32 + y, 33>> /\ p.current_state = "vt52_cursory" /\ Cleared(p)
     \/ /\ t = <<33>> /\ p.current_state = "vt52_cursorx"
        /\ p.nparam = 0 /\ p.q_mode = 0 /\ p.param = [Zeros EXCEPT ![0] = y]

\* ESC < is under way.
Leaving(p, t, m, d, s) ==
  /\ m = Nothing /\ d = Nothing /\ s = "vt100"
  /\ \/ t = <<ESC, 60>> /\ p.current_state = "vt52_normal"
     \/ t = <<60>> /\ p.current_state = "vt52_esc"

Phase(p, t, m, d, s) ==
  \/ Idle(p, t, m, d, s)
  \/ \E op, ns, q, word, full, at : WithNumbers(p, t, m, d, s, op, ns, q, word, full, at)
  \/ \E op : Plainly(p, t, m, d, s, op)
  \/ \E op : AsVt52(p, t, m, d, s, op)
  \/ \E y : Addressing(p, t, m, d, s, y)
  \/ Leaving(p, t, m, d, s)

\* Reading the next byte leads to a phase again.
Stepped(p, t, m, d, s) ==
  /\ t # <<>> /\ Turn(p, Head(t), Height) \in ParserType /\ Tail(t) \in Seq(Bytes)
  /\ Phase(Turn(p, Head(t), Height), Tail(t), m, DidAfter(p, Head(t), d), s)

LEMMA NumbersStep ==
  ASSUME NEW p \in ParserType, NEW t, NEW m, NEW d, NEW s, NEW op, NEW ns, NEW q, NEW word,
         NEW full, NEW at, WithNumbers(p, t, m, d, s, op, ns, q, word, full, at)
  PROVE  Stepped(p, t, m, d, s)
<1>1. /\ Encoded(op, ns, q, word, full, at)
      /\ m = Command(op, ns, q) /\ d = Nothing /\ s = IF ToVt52(m) THEN "vt52" ELSE "vt100"
  BY DEF WithNumbers
<1>2. PICK i \in 0 .. Len(full) - 1 : t = Rest(full, i) /\ ReadTo(p, i, ns, q, word, at)
  BY DEF WithNumbers
<1>3. full \in Seq(Bytes)
  BY <1>1 DEF Encoded, Shaped
<1>4. t # <<>> /\ Head(t) = full[i + 1] /\ Tail(t) = Rest(full, i + 1)
      /\ Rest(full, i + 1) \in Seq(Bytes)
  BY <1>2, <1>3, RestSteps
<1>5. PICK u : u = Turn(p, Head(t), Height)
  OBVIOUS
<1>6. PICK e : e = DidAfter(p, Head(t), d)
  OBVIOUS
<1>7. /\ u \in ParserType
      /\ \/ i + 1 \in 0 .. Len(full) - 1 /\ ReadTo(u, i + 1, ns, q, word, at) /\ e = d
         \/ i + 1 = Len(full) /\ Idle(u, <<>>, m, e, s)
  <2>1. Advances(p, i, d, op, ns, q, word, full, at)
    BY <1>1, <1>2, NumbersAdvance
  <2>2. u = Turn(p, full[i + 1], Height) /\ e = DidAfter(p, full[i + 1], d)
    BY <1>4, <1>5, <1>6
  <2> QED
    BY <1>1, <2>1, <2>2 DEF Advances
<1>8. CASE i + 1 \in 0 .. Len(full) - 1 /\ ReadTo(u, i + 1, ns, q, word, at) /\ e = d
  <2>1. WithNumbers(u, Tail(t), m, e, s, op, ns, q, word, full, at)
    BY <1>1, <1>4, <1>8 DEF WithNumbers
  <2>2. Phase(u, Tail(t), m, e, s)
    BY <2>1 DEF Phase
  <2> QED
    BY <1>4, <1>5, <1>6, <1>7, <2>2 DEF Stepped
<1>9. CASE i + 1 = Len(full) /\ Idle(u, <<>>, m, e, s)
  <2>1. Tail(t) = <<>>
    BY <1>3, <1>4, <1>9, RestEnds
  <2>2. Phase(u, Tail(t), m, e, s)
    BY <1>9, <2>1 DEF Phase
  <2> QED
    BY <1>4, <1>5, <1>6, <1>7, <2>2 DEF Stepped
<1> QED
  BY <1>7, <1>8, <1>9

\* The steps of a command without numbers.
LEMMA PlainStep ==
  ASSUME NEW p \in ParserType, NEW t, NEW m, NEW d, NEW s, NEW op, Plainly(p, t, m, d, s, op)
  PROVE  Stepped(p, t, m, d, s)
<1>1. op \in DOMAIN Plain /\ m = Command(op, <<>>, 0) /\ d = Nothing /\ s = "vt100"
  BY DEF Plainly
<1>2. m.op = op
  BY <1>1 DEF Command
<1>3. Plain[op] \in Seq(Bytes) /\ op \notin Collecting \cup ControlOps
      /\ op \notin {"clear_mode", "vt52_cursory"}
  <2>1. op # "screen_align" => Plain[op] \in Seq(Bytes)
    <3>1. HAVE op # "screen_align"
    <3>2. PICK b \in 0 .. 255 : Plain[op] = <<b>>
      BY <1>1, <3>1, PlainEntry
    <3> QED
      BY <3>2 DEF Bytes
  <2>2. op = "screen_align" => Plain[op] \in Seq(Bytes)
    <3>1. 35 \in Bytes /\ 56 \in Bytes
      BY DEF Bytes
    <3>2. <<35, 56>> \in Seq(Bytes)
      BY <3>1
    <3> QED
      BY <3>2, AlignEntry, Zenon
  <2>3. op \in {"save_cursor", "restore_cursor", "set_tab", "index_down", "index_up",
                "next_line", "reset", "screen_align", "keypad_application", "keypad_numeric"}
    BY <1>1 DEF Plain
  <2>4. op \notin Collecting \cup ControlOps /\ op \notin {"clear_mode", "vt52_cursory"}
    BY <2>3 DEF Collecting, ControlOps
  <2> QED
    BY <2>1, <2>2, <2>4
<1>4. ASSUME NEW b, NEW x, EntryFor(p.current_state, b) = <<x, op, "normal">>, t = <<b>>
      PROVE  Stepped(p, t, m, d, s)
  <2>1. Action(p, b) = op
    BY <1>4, TurnDoes
  <2>2. Turn(p, b, Height) \in ParserType /\ Turn(p, b, Height).current_state = "normal"
    <3>1. "normal" \in States
      BY DEF States, Default
    <3> QED
      BY <1>3, <1>4, <3>1, PlainTurn DEF Collecting
  <2>3. DidAfter(p, b, d).op = op
    BY <1>3, <2>1 DEF DidAfter
  <2>4. Same(DidAfter(p, b, d), m)
    BY <1>1, <1>2, <2>3 DEF Same
  <2>5. Head(t) = b /\ Tail(t) = <<>> /\ t # <<>> /\ Tail(t) \in Seq(Bytes)
    BY <1>4
  <2>6. Idle(Turn(p, b, Height), <<>>, m, DidAfter(p, b, d), s)
    BY <1>1, <2>2, <2>4 DEF Idle, Home
  <2> QED
    BY <2>2, <2>5, <2>6 DEF Stepped, Phase
<1>5. CASE t = <<ESC>> \o Plain[op] /\ p.current_state = "normal"
  <2>1. EntryFor(p.current_state, ESC) = <<ESC, "none", "esc">> /\ "esc" \in States
    BY <1>5, CollectingEntries DEF States, Default
  <2>2. Turn(p, ESC, Height) \in ParserType /\ Turn(p, ESC, Height).current_state = "esc"
    BY <2>1, PlainTurn
  <2>3. DidAfter(p, ESC, d) = d
    BY <2>1, TurnDoes DEF DidAfter, Collecting
  <2>4. PICK w \in Seq(Bytes) : w = Plain[op]
    BY <1>3
  <2>5. t = <<ESC>> \o w
    BY <1>5, <2>4
  <2>6. Head(t) = ESC /\ Tail(t) = w /\ t # <<>>
    BY <2>5 DEF ESC
  <2>7. Plainly(Turn(p, ESC, Height), Tail(t), m, DidAfter(p, ESC, d), s, op)
    BY <1>1, <2>2, <2>3, <2>4, <2>6 DEF Plainly
  <2>8. Phase(Turn(p, ESC, Height), Tail(t), m, DidAfter(p, ESC, d), s)
    BY <2>7 DEF Phase
  <2> QED
    BY <2>2, <2>6, <2>8 DEF Stepped
<1>6. CASE t = Plain[op] /\ p.current_state = "esc" /\ op # "screen_align"
  <2>1. PICK b \in 0 .. 255 : Plain[op] = <<b>> /\ EntryFor("esc", b) = <<b, op, "normal">>
    BY <1>1, <1>6, PlainEntry
  <2> QED
    BY <1>4, <1>6, <2>1
<1>7. CASE t = Plain[op] /\ p.current_state = "esc" /\ op = "screen_align"
  <2>1. EntryFor(p.current_state, 35) = <<35, "none", "hash">> /\ "hash" \in States
    BY <1>7, CollectingEntries DEF States, Default
  <2>2. Turn(p, 35, Height) \in ParserType /\ Turn(p, 35, Height).current_state = "hash"
    BY <2>1, PlainTurn
  <2>3. DidAfter(p, 35, d) = d
    BY <2>1, TurnDoes DEF DidAfter, Collecting
  <2>4. t = <<35, 56>>
    BY <1>7, AlignEntry
  <2>5. Head(t) = 35 /\ Tail(t) = <<56>> /\ t # <<>> /\ Tail(t) \in Seq(Bytes)
    BY <2>4 DEF Bytes
  <2>6. Plainly(Turn(p, 35, Height), Tail(t), m, DidAfter(p, 35, d), s, op)
    BY <1>1, <1>7, <2>2, <2>3, <2>5 DEF Plainly
  <2>7. Phase(Turn(p, 35, Height), Tail(t), m, DidAfter(p, 35, d), s)
    BY <2>6 DEF Phase
  <2> QED
    BY <2>2, <2>5, <2>7 DEF Stepped
<1>8. CASE op = "screen_align" /\ t = <<56>> /\ p.current_state = "hash"
  BY <1>4, <1>8, AlignEntry
<1> QED
  BY <1>5, <1>6, <1>7, <1>8 DEF Plainly

\* What a parser with cleared parameters carries out.
LEMMA ClearedCommand ==
  ASSUME NEW p, Cleared(p), NEW op
  PROVE  Command(op, <<>>, 0) =
           [op |-> op, param |-> p.param, q_mode |-> p.q_mode, nparam |-> p.nparam]
<1>1. Padded(<<>>) = Zeros
  BY DEF Padded, Zeros
<1> QED
  BY <1>1 DEF Command, Cleared

\* ESC starts a sequence of the vt52.
LEMMA Vt52Escape ==
  ASSUME NEW p \in ParserType, p.current_state = "vt52_normal", NEW d
  PROVE  /\ Turn(p, ESC, Height) \in ParserType
         /\ Turn(p, ESC, Height).current_state = "vt52_esc" /\ Cleared(Turn(p, ESC, Height))
         /\ DidAfter(p, ESC, d) = d
<1>1. EntryFor(p.current_state, ESC) = <<ESC, "clear_param", "vt52_esc">>
      /\ "vt52_esc" \in States
  BY CollectingEntries DEF States, Default
<1>2. /\ Turn(p, ESC, Height) \in ParserType
      /\ Turn(p, ESC, Height).current_state = "vt52_esc" /\ Cleared(Turn(p, ESC, Height))
  BY <1>1, ClearTurn DEF Cleared
<1> QED
  BY <1>1, <1>2, TurnDoes DEF DidAfter, Collecting

LEMMA Vt52Step ==
  ASSUME NEW p \in ParserType, NEW t, NEW m, NEW d, NEW s, NEW op, AsVt52(p, t, m, d, s, op)
  PROVE  Stepped(p, t, m, d, s)
<1>1. op \in DOMAIN Vt52 /\ m = Command(op, <<>>, 0) /\ d = Nothing /\ s = "vt52"
  BY DEF AsVt52
<1>2. PICK b \in Bytes : b = Vt52[op] /\ EntryFor("vt52_esc", b) = <<b, op, "vt52_normal">>
  BY <1>1, Vt52Entry DEF Bytes
<1>3. CASE t = <<ESC, Vt52[op]>> /\ p.current_state = "vt52_normal"
  <2>1. /\ Turn(p, ESC, Height) \in ParserType
        /\ Turn(p, ESC, Height).current_state = "vt52_esc" /\ Cleared(Turn(p, ESC, Height))
        /\ DidAfter(p, ESC, d) = d
    BY <1>3, Vt52Escape
  <2>2. t = <<ESC, b>>
    BY <1>2, <1>3
  <2>3. Head(t) = ESC /\ Tail(t) = <<b>> /\ t # <<>> /\ Tail(t) \in Seq(Bytes)
    BY <2>2
  <2>4. AsVt52(Turn(p, ESC, Height), Tail(t), m, DidAfter(p, ESC, d), s, op)
    BY <1>1, <1>2, <2>1, <2>3 DEF AsVt52
  <2>5. Phase(Turn(p, ESC, Height), Tail(t), m, DidAfter(p, ESC, d), s)
    BY <2>4 DEF Phase
  <2> QED
    BY <2>1, <2>3, <2>5 DEF Stepped
<1>4. CASE t = <<Vt52[op]>> /\ p.current_state = "vt52_esc" /\ Cleared(p)
  <2>1. EntryFor(p.current_state, b) = <<b, op, "vt52_normal">> /\ "vt52_normal" \in States
    BY <1>2, <1>4 DEF States, Default
  <2>2. op \notin Collecting \cup ControlOps /\ op \notin {"clear_mode", "reset"}
    BY <1>1 DEF Vt52, Collecting, ControlOps
  <2>3. Action(p, b) = op
    BY <2>1, TurnDoes
  <2>4. /\ Turn(p, b, Height) \in ParserType
        /\ Turn(p, b, Height).current_state = "vt52_normal"
    BY <2>1, <2>2, PlainTurn DEF Collecting
  <2>5. DidAfter(p, b, d) = m
    BY <1>1, <1>4, <2>2, <2>3, ClearedCommand DEF DidAfter
  <2>6. t = <<b>>
    BY <1>2, <1>4
  <2>7. Head(t) = b /\ Tail(t) = <<>> /\ t # <<>> /\ Tail(t) \in Seq(Bytes)
    BY <2>6
  <2>8. Idle(Turn(p, b, Height), <<>>, m, DidAfter(p, b, d), s)
    BY <1>1, <2>4, <2>5 DEF Idle, Home, Same
  <2> QED
    BY <2>4, <2>7, <2>8 DEF Stepped, Phase
<1> QED
  BY <1>3, <1>4 DEF AsVt52

\* The steps of a vt52 address: the row is kept in param[0] until the column comes.
LEMMA AddressStep ==
  ASSUME NEW p \in ParserType, NEW t, NEW m, NEW d, NEW s, NEW y, Addressing(p, t, m, d, s, y)
  PROVE  Stepped(p, t, m, d, s)
<1>1. /\ y \in 1 .. Height - 1 /\ 32 + y <= 255
      /\ m = Command("vt52_cursorx", <<y>>, 0) /\ d = Nothing /\ s = "vt52"
  BY DEF Addressing
<1>2. PICK b \in Bytes : b = 32 + y
  <2>1. y \in Nat
    BY <1>1, HostAssumption
  <2> QED
    BY <1>1, <2>1 DEF Bytes
<1>3. 33 \in Bytes /\ 89 \in Bytes
  BY DEF Bytes
<1>4. CASE t = <<ESC, 89, 32 + y, 33>> /\ p.current_state = "vt52_normal"
  <2>1. /\ Turn(p, ESC, Height) \in ParserType
        /\ Turn(p, ESC, Height).current_state = "vt52_esc" /\ Cleared(Turn(p, ESC, Height))
        /\ DidAfter(p, ESC, d) = d
    BY <1>4, Vt52Escape
  <2>2. t = <<ESC, 89, b, 33>>
    BY <1>2, <1>4
  <2>3. Head(t) = ESC /\ Tail(t) = <<89, b, 33>> /\ t # <<>> /\ Tail(t) \in Seq(Bytes)
    BY <1>3, <2>2
  <2>4. Addressing(Turn(p, ESC, Height), Tail(t), m, DidAfter(p, ESC, d), s, y)
    BY <1>1, <1>2, <2>1, <2>3 DEF Addressing
  <2>5. Phase(Turn(p, ESC, Height), Tail(t), m, DidAfter(p, ESC, d), s)
    BY <2>4 DEF Phase
  <2> QED
    BY <2>1, <2>3, <2>5 DEF Stepped
<1>5. CASE t = <<89, 32 + y, 33>> /\ p.current_state = "vt52_esc" /\ Cleared(p)
  <2>1. EntryFor(p.current_state, 89) = <<89, "none", "vt52_cursory">>
        /\ "vt52_cursory" \in States
    BY <1>5, CollectingEntries DEF States, Default
  <2>2. /\ Turn(p, 89, Height) \in ParserType
        /\ Turn(p, 89, Height).current_state = "vt52_cursory" /\ Cleared(Turn(p, 89, Height))
    BY <1>5, <2>1, PlainTurn DEF Cleared
  <2>3. DidAfter(p, 89, d) = d
    BY <2>1, TurnDoes DEF DidAfter, Collecting
  <2>4. t = <<89, b, 33>>
    BY <1>2, <1>5
  <2>5. Head(t) = 89 /\ Tail(t) = <<b, 33>> /\ t # <<>> /\ Tail(t) \in Seq(Bytes)
    BY <1>3, <2>4
  <2>6. Addressing(Turn(p, 89, Height), Tail(t), m, DidAfter(p, 89, d), s, y)
    BY <1>1, <1>2, <2>2, <2>3, <2>5 DEF Addressing
  <2>7. Phase(Turn(p, 89, Height), Tail(t), m, DidAfter(p, 89, d), s)
    BY <2>6 DEF Phase
  <2> QED
    BY <2>2, <2>5, <2>7 DEF Stepped
<1>6. CASE t = <<32 + y, 33>> /\ p.current_state = "vt52_cursory" /\ Cleared(p)
  <2>1. PICK u : u = Turn(p, b, Height)
    OBVIOUS
  <2>2. /\ Action(p, b) = "vt52_cursory" /\ u \in ParserType
        /\ u.current_state = "vt52_cursorx" /\ u.nparam = p.nparam /\ u.q_mode = p.q_mode
        /\ u.param = [p.param EXCEPT ![0] = y]
    BY <1>1, <1>2, <1>6, <2>1, RowTurn
  <2>3. u.nparam = 0 /\ u.q_mode = 0 /\ u.param = [Zeros EXCEPT ![0] = y]
    BY <1>6, <2>2 DEF Cleared
  <2>4. DidAfter(p, b, d) = d
    BY <2>2 DEF DidAfter, Collecting
  <2>5. t = <<b, 33>>
    BY <1>2, <1>6
  <2>6. Head(t) = b /\ Tail(t) = <<33>> /\ t # <<>> /\ Tail(t) \in Seq(Bytes)
    BY <1>3, <2>5
  <2>7. Addressing(u, Tail(t), m, DidAfter(p, b, d), s, y)
    BY <1>1, <2>2, <2>3, <2>4, <2>6 DEF Addressing
  <2>8. Phase(u, Tail(t), m, DidAfter(p, b, d), s)
    BY <2>7 DEF Phase
  <2> QED
    BY <2>1, <2>2, <2>6, <2>8 DEF Stepped
<1>7. CASE /\ t = <<33>> /\ p.current_state = "vt52_cursorx"
           /\ p.nparam = 0 /\ p.q_mode = 0 /\ p.param = [Zeros EXCEPT ![0] = y]
  <2>1. EntryFor(p.current_state, 33) = <<-1, "vt52_cursorx", "vt52_normal">>
        /\ "vt52_normal" \in States
    BY <1>7, AddressEntries DEF States, Default
  <2>2. /\ Turn(p, 33, Height) \in ParserType
        /\ Turn(p, 33, Height).current_state = "vt52_normal"
    BY <2>1, PlainTurn
  <2>3. Action(p, 33) = "vt52_cursorx"
    BY <2>1, TurnDoes
  <2>4. Padded(<<y>>) = [Zeros EXCEPT ![0] = y]
    <3>1. PICK w : w = <<y>>
      OBVIOUS
    <3>2. Len(w) = 1 /\ w[1] = y /\ w # <<>>
      BY <3>1
    <3>3. \A k \in 0 .. MAXPARAM - 1 :
            (IF k < Len(w) THEN w[k + 1] ELSE 0) = IF k = 0 THEN y ELSE 0
      BY <3>2
    <3>4. Padded(w) = [k \in 0 .. MAXPARAM - 1 |-> IF k = 0 THEN y ELSE 0]
      BY <3>3 DEF Padded
    <3>5. [Zeros EXCEPT ![0] = y] = [k \in 0 .. MAXPARAM - 1 |-> IF k = 0 THEN y ELSE 0]
      BY DEF Zeros
    <3> QED
      BY <3>1, <3>4, <3>5
  <2>5. <<y>> # <<>> /\ Len(<<y>>) - 1 = 0
    OBVIOUS
  <2>6. m = [op |-> "vt52_cursorx", param |-> p.param, q_mode |-> p.q_mode,
             nparam |-> p.nparam]
    BY <1>1, <1>7, <2>4, <2>5 DEF Command
  <2>7. DidAfter(p, 33, d) = m
    BY <2>3, <2>6 DEF DidAfter, Collecting, ControlOps
  <2>8. Head(t) = 33 /\ Tail(t) = <<>> /\ t # <<>> /\ Tail(t) \in Seq(Bytes)
    BY <1>7
  <2>9. Idle(Turn(p, 33, Height), <<>>, m, DidAfter(p, 33, d), s)
    BY <1>1, <2>2, <2>7 DEF Idle, Home, Same
  <2> QED
    BY <2>2, <2>8, <2>9 DEF Stepped, Phase
<1> QED
  BY <1>4, <1>5, <1>6, <1>7 DEF Addressing

\* The steps of ESC <.
LEMMA LeaveStep ==
  ASSUME NEW p \in ParserType, NEW t, NEW m, NEW d, NEW s, Leaving(p, t, m, d, s)
  PROVE  Stepped(p, t, m, d, s)
<1>1. m = Nothing /\ d = Nothing /\ s = "vt100"
  BY DEF Leaving
<1>2. CASE t = <<ESC, 60>> /\ p.current_state = "vt52_normal"
  <2>1. /\ Turn(p, ESC, Height) \in ParserType
        /\ Turn(p, ESC, Height).current_state = "vt52_esc"
        /\ DidAfter(p, ESC, d) = d
    BY <1>2, Vt52Escape
  <2>2. Head(t) = ESC /\ Tail(t) = <<60>> /\ t # <<>> /\ Tail(t) \in Seq(Bytes)
    BY <1>2 DEF Bytes
  <2>3. Leaving(Turn(p, ESC, Height), Tail(t), m, DidAfter(p, ESC, d), s)
    BY <1>1, <2>1, <2>2 DEF Leaving
  <2>4. Phase(Turn(p, ESC, Height), Tail(t), m, DidAfter(p, ESC, d), s)
    BY <2>3 DEF Phase
  <2> QED
    BY <2>1, <2>2, <2>4 DEF Stepped
<1>3. CASE t = <<60>> /\ p.current_state = "vt52_esc"
  <2>1. EntryFor(p.current_state, 60) = <<60, "none", "normal">> /\ "normal" \in States
    BY <1>3, CollectingEntries DEF States, Default
  <2>2. Turn(p, 60, Height) \in ParserType /\ Turn(p, 60, Height).current_state = "normal"
    BY <2>1, PlainTurn
  <2>3. DidAfter(p, 60, d) = d
    BY <2>1, TurnDoes DEF DidAfter, Collecting
  <2>4. Head(t) = 60 /\ Tail(t) = <<>> /\ t # <<>> /\ Tail(t) \in Seq(Bytes)
    BY <1>3
  <2>5. Idle(Turn(p, 60, Height), <<>>, m, DidAfter(p, 60, d), s)
    BY <1>1, <2>2, <2>3 DEF Idle, Home, Same
  <2> QED
    BY <2>2, <2>4, <2>5 DEF Stepped, Phase
<1> QED
  BY <1>2, <1>3 DEF Leaving

----------------------------------------------------------------------------
(* The host and the parser together                                        *)

\* The inductive invariant: the parser has read the part of the command under way
\* that is not in todo, and nothing else.
HostInv == TypeOK /\ Phase(ps, todo, meant, did, speaks)

LEMMA HostInit == Init => HostInv
<1>1. HAVE Init
<1>2. ps = NewParser /\ todo = <<>> /\ meant = Nothing /\ did = Nothing
      /\ speaks = "vt100" /\ inserted = FALSE
  BY <1>1 DEF Init
<1>3. "normal" \in States /\ 0 \in 0 .. MAXPARAM - 1
      /\ [n \in 0 .. MAXPARAM - 1 |-> 0] \in [0 .. MAXPARAM - 1 -> Int]
  BY ParamCountAssumption DEF States, Default
<1>4. ps \in ParserType /\ ps.current_state = "normal"
  BY <1>2, <1>3 DEF NewParser, ParserType
<1>5. TypeOK
  <2>1. <<>> \in Seq(0 .. 255)
    OBVIOUS
  <2> QED
    BY <1>2, <1>4, <2>1, Zenon DEF TypeOK
<1>6. Idle(ps, todo, meant, did, speaks)
  BY <1>2, <1>4 DEF Idle, Home, Same
<1> QED
  BY <1>5, <1>6 DEF HostInv, Phase

\* Nothing of a command is left only when none is under way.
LEMMA DoneIsIdle ==
  ASSUME HostInv, todo = <<>>
  PROVE  Idle(ps, todo, meant, did, speaks)
<1>1. SUFFICES ASSUME ~Idle(ps, todo, meant, did, speaks) PROVE FALSE
  OBVIOUS
<1>2. ps \in ParserType
  BY DEF HostInv, TypeOK
<1>3. Stepped(ps, todo, meant, did, speaks)
  BY <1>1, <1>2, NumbersStep, PlainStep, Vt52Step, AddressStep, LeaveStep DEF HostInv, Phase
<1> QED
  BY <1>3 DEF Stepped

LEMMA ByteKeeps == HostInv /\ Byte => HostInv'
<1>1. HAVE HostInv /\ Byte
<1>2. ps \in ParserType /\ todo # <<>> /\ speaks \in {"vt100", "vt52"} /\ inserted \in BOOLEAN
  BY <1>1 DEF HostInv, TypeOK, Byte
<1>3. ~Idle(ps, todo, meant, did, speaks)
  BY <1>2 DEF Idle
<1>4. Stepped(ps, todo, meant, did, speaks)
  BY <1>1, <1>2, <1>3, NumbersStep, PlainStep, Vt52Step, AddressStep, LeaveStep
    DEF HostInv, Phase
<1>5. /\ ps' = Turn(ps, Head(todo), Height) /\ todo' = Tail(todo)
      /\ did' = DidAfter(ps, Head(todo), did)
      /\ meant' = meant /\ speaks' = speaks /\ inserted' = inserted
  BY <1>1 DEF Byte, Did, DidAfter
<1>6. ps' \in ParserType /\ todo' \in Seq(0 .. 255) /\ Phase(ps', todo', meant', did', speaks')
  BY <1>4, <1>5 DEF Stepped, Bytes
<1> QED
  BY <1>2, <1>5, <1>6 DEF HostInv, TypeOK

LEMMA InsertKeeps ==
  ASSUME NEW b \in {CR, LF, FF, TAB, BS, BEL}, HostInv, Insert(b)
  PROVE  HostInv'
<1>1. ps \in ParserType /\ ps.current_state \in Open /\ b \in Controlling
  BY DEF HostInv, TypeOK, Insert, Open, Controlling
<1>2. Turn(ps, b, Height) = ps /\ Action(ps, b) \in ControlOps
  BY <1>1, ControlTurn
<1>3. ps' = ps /\ did' = did /\ todo' = todo /\ meant' = meant /\ speaks' = speaks
      /\ inserted' = TRUE
  BY <1>2 DEF Insert, Did
<1>4. TypeOK'
  BY <1>3 DEF HostInv, TypeOK
<1>5. Phase(ps, todo, meant, did, speaks)
  BY DEF HostInv
<1>6. Phase(ps', todo', meant', did', speaks')
  BY <1>3, <1>5
<1> QED
  BY <1>4, <1>6 DEF HostInv

LEMMA PlainSent ==
  ASSUME HostInv, Idle(ps, todo, meant, did, speaks), speaks = "vt100", SendPlain,
         inserted' = FALSE, speaks' = IF ToVt52(meant') THEN "vt52" ELSE speaks
  PROVE  HostInv'
<1>1. PICK op \in DOMAIN Plain : Sends(Command(op, <<>>, 0), <<ESC>> \o Plain[op])
  BY DEF SendPlain
<1>2. /\ todo' = <<ESC>> \o Plain[op] /\ meant' = Command(op, <<>>, 0) /\ did' = Nothing
      /\ ps' = ps
  BY <1>1 DEF Sends
<1>3. op # "clear_mode"
  BY DEF Plain
<1>4. ~ToVt52(meant')
  BY <1>2, <1>3 DEF ToVt52, Command
<1>5. speaks' = "vt100" /\ ps \in ParserType /\ ps.current_state = "normal"
  BY <1>4 DEF Idle, Home, HostInv, TypeOK
<1>6. Plainly(ps', todo', meant', did', speaks', op)
  BY <1>2, <1>5 DEF Plainly
<1>7. todo' \in Seq(0 .. 255)
  <2>1. PICK w : w = Plain[op]
    OBVIOUS
  <2>2. w \in Seq(Bytes)
    <3>1. CASE op = "screen_align"
      <4>1. w = <<35, 56>> /\ 35 \in Bytes /\ 56 \in Bytes
        BY <2>1, <3>1, AlignEntry DEF Bytes
      <4> QED
        BY <4>1
    <3>2. CASE op # "screen_align"
      <4>1. PICK b \in 0 .. 255 : Plain[op] = <<b>>
        BY <3>2, PlainEntry
      <4> QED
        BY <2>1, <4>1 DEF Bytes
    <3> QED
      BY <3>1, <3>2
  <2>3. PICK e : e = <<ESC>>
    OBVIOUS
  <2>4. e \in Seq(Bytes)
    BY <2>3 DEF Bytes, ESC
  <2>5. e \o w \in Seq(Bytes)
    BY <2>2, <2>4
  <2> QED
    BY <1>2, <2>1, <2>3, <2>5, Zenon DEF Bytes
<1> QED
  BY <1>2, <1>5, <1>6, <1>7 DEF HostInv, TypeOK, Phase

LEMMA Vt52Sent ==
  ASSUME HostInv, Idle(ps, todo, meant, did, speaks), speaks = "vt52", SendVt52,
         inserted' = FALSE, speaks' = "vt52"
  PROVE  HostInv'
<1>1. PICK op \in DOMAIN Vt52 : Sends(Command(op, <<>>, 0), <<ESC, Vt52[op]>>)
  BY DEF SendVt52
<1>2. /\ todo' = <<ESC, Vt52[op]>> /\ meant' = Command(op, <<>>, 0) /\ did' = Nothing
      /\ ps' = ps
  BY <1>1 DEF Sends
<1>3. ps \in ParserType /\ ps.current_state = "vt52_normal"
  BY DEF Idle, Home, HostInv, TypeOK
<1>4. AsVt52(ps', todo', meant', did', speaks', op)
  BY <1>2, <1>3 DEF AsVt52
<1>5. todo' \in Seq(0 .. 255)
  <2>1. Vt52[op] \in 0 .. 255 /\ ESC \in 0 .. 255
    BY Vt52Entry DEF ESC
  <2> QED
    BY <1>2, <2>1
<1> QED
  BY <1>2, <1>3, <1>4, <1>5 DEF HostInv, TypeOK, Phase

LEMMA AddressSent ==
  ASSUME HostInv, Idle(ps, todo, meant, did, speaks), speaks = "vt52", SendVt52Cursor,
         inserted' = FALSE, speaks' = "vt52"
  PROVE  HostInv'
<1>1. PICK y \in 1 .. Height - 1 :
        /\ 32 + y <= 255
        /\ Sends(Command("vt52_cursorx", <<y>>, 0), <<ESC, 89, 32 + y, 32 + 1>>)
  BY DEF SendVt52Cursor
<1>2. /\ todo' = <<ESC, 89, 32 + y, 33>> /\ meant' = Command("vt52_cursorx", <<y>>, 0)
      /\ did' = Nothing /\ ps' = ps
  BY <1>1 DEF Sends
<1>3. ps \in ParserType /\ ps.current_state = "vt52_normal"
  BY DEF Idle, Home, HostInv, TypeOK
<1>4. Addressing(ps', todo', meant', did', speaks', y)
  BY <1>1, <1>2, <1>3 DEF Addressing
<1>5. todo' \in Seq(0 .. 255)
  <2>1. y \in Nat
    BY HostAssumption
  <2>2. PICK b \in 0 .. 255 : b = 32 + y
    BY <1>1, <2>1
  <2>3. todo' = <<ESC, 89, b, 33>> /\ ESC \in 0 .. 255 /\ 89 \in 0 .. 255 /\ 33 \in 0 .. 255
    BY <1>2, <2>2 DEF ESC
  <2> QED
    BY <2>3
<1> QED
  BY <1>2, <1>3, <1>4, <1>5 DEF HostInv, TypeOK, Phase

LEMMA LeaveSent ==
  ASSUME HostInv, Idle(ps, todo, meant, did, speaks), LeaveVt52
  PROVE  HostInv'
<1>1. /\ speaks = "vt52" /\ todo' = <<ESC, 60>> /\ speaks' = "vt100"
      /\ meant' = Nothing /\ did' = Nothing /\ inserted' = FALSE /\ ps' = ps
  BY DEF LeaveVt52
<1>2. ps \in ParserType /\ ps.current_state = "vt52_normal"
  BY <1>1 DEF Idle, Home, HostInv, TypeOK
<1>3. Leaving(ps', todo', meant', did', speaks')
  BY <1>1, <1>2 DEF Leaving
<1>4. todo' \in Seq(0 .. 255)
  BY <1>1 DEF ESC
<1> QED
  BY <1>1, <1>2, <1>3, <1>4 DEF HostInv, TypeOK, Phase

LEMMA NumbersSent ==
  ASSUME HostInv, Idle(ps, todo, meant, did, speaks), speaks = "vt100", SendNumbers,
         inserted' = FALSE, speaks' = IF ToVt52(meant') THEN "vt52" ELSE speaks
  PROVE  HostInv'
<1>1. PICK op \in DOMAIN Final, ns \in Lists, q \in {0, 1} :
        \E word \in [1 .. Len(ns) -> UNION {Spellings(n) : n \in Numbers}] :
          /\ \A n \in 1 .. Len(ns) : word[n] \in Spellings(ns[n])
          /\ Sends(Command(op, ns, q),
                   <<ESC, 91>> \o (IF q = 1 THEN <<63>> ELSE <<>>)
                     \o Body(word) \o <<Final[op]>>)
  BY DEF SendNumbers
<1>2. PICK word \in [1 .. Len(ns) -> UNION {Spellings(n) : n \in Numbers}] :
          /\ \A n \in 1 .. Len(ns) : word[n] \in Spellings(ns[n])
          /\ Sends(Command(op, ns, q), Text(op, q, word))
  BY <1>1 DEF Text
<1>3. /\ todo' = Text(op, q, word) /\ meant' = Command(op, ns, q) /\ did' = Nothing
      /\ ps' = ps
  BY <1>2 DEF Sends
<1>4. ps \in ParserType /\ ps.current_state = "normal"
  BY DEF Idle, Home, HostInv, TypeOK
<1>5. Len(ns) \in Nat /\ Len(ns) <= MaxParams /\ (Len(ns) = 0 => ns = <<>>)
      /\ \A n \in 1 .. Len(ns) : ns[n] \in 0 .. 99
  <2>1. PICK N \in 0 .. MaxParams : ns \in [1 .. N -> Numbers]
    BY DEF Lists
  <2>2. MaxParams \in Nat /\ Numbers \subseteq 0 .. 99
    BY HostAssumption
  <2>3. N \in Nat /\ N <= MaxParams
    BY <2>2
  <2>4. ns \in Seq(Numbers) /\ Len(ns) = N
    BY <2>1, <2>3
  <2>5. \A n \in 1 .. Len(ns) : ns[n] \in 0 .. 99
    BY <2>1, <2>2, <2>4
  <2>6. Len(ns) = 0 => ns = <<>>
    BY <2>4, EmptySeq
  <2> QED
    BY <2>3, <2>4, <2>5, <2>6
<1>6. Len(word) = Len(ns)
  <2>1. PICK N \in Nat : N = Len(ns)
    BY <1>5
  <2>2. word \in [1 .. N -> UNION {Spellings(n) : n \in Numbers}]
    BY <2>1
  <2>3. PICK S : S = UNION {Spellings(n) : n \in Numbers}
    OBVIOUS
  <2>4. word \in [1 .. N -> S]
    BY <2>2, <2>3
  <2>5. word \in Seq(S) /\ Len(word) = N
    BY <2>4
  <2> QED
    BY <2>1, <2>5
<1>7. Spelt(word)
  <2>1. ASSUME NEW k \in 1 .. Len(word)
        PROVE  word[k] \in Seq(Bytes)
    <3>1. ns[k] \in 0 .. 99 /\ word[k] \in Spellings(ns[k])
      BY <1>2, <1>5, <1>6
    <3>2. word[k] \in Seq(Digits)
      BY <3>1, SpellingReadsBack DEF ReadsBack
    <3>3. PICK w : w = word[k]
      OBVIOUS
    <3>4. w \in Seq(Digits) /\ \A b \in Digits : b \in Bytes
      BY <3>2, <3>3 DEF Digits, Bytes
    <3>5. w \in Seq(Bytes)
      BY <3>4
    <3> QED
      BY <3>3, <3>5
  <2> QED
    BY <1>5, <1>6, <2>1 DEF Spelt
<1>8. PICK full : full = Text(op, q, word)
  OBVIOUS
<1>9. PICK at : Shaped(full, op, q, word, at)
  BY <1>7, <1>8, TextShaped
<1>10. Encoded(op, ns, q, word, full, at)
  BY <1>2, <1>5, <1>6, <1>9 DEF Encoded
<1>11. full \in Seq(Bytes) /\ Len(full) >= 3 + q
  BY <1>9 DEF Shaped
<1>12. 0 \in 0 .. Len(full) - 1
  BY <1>11
<1>13. todo' = Rest(full, 0)
  BY <1>3, <1>8, <1>11, RestEnds
<1>14. ReadTo(ps', 0, ns, q, word, at)
  BY <1>3, <1>4 DEF ReadTo
<1>15. speaks' = IF ToVt52(meant') THEN "vt52" ELSE "vt100"
  OBVIOUS
<1>16. WithNumbers(ps', todo', meant', did', speaks', op, ns, q, word, full, at)
  BY <1>3, <1>10, <1>12, <1>13, <1>14, <1>15 DEF WithNumbers
<1>17. Phase(ps', todo', meant', did', speaks')
  BY <1>16 DEF Phase
<1>18. todo' \in Seq(0 .. 255) /\ speaks' \in {"vt100", "vt52"}
  BY <1>3, <1>8, <1>11, <1>15 DEF Bytes
<1> QED
  BY <1>3, <1>4, <1>17, <1>18 DEF HostInv, TypeOK

LEMMA SendKeeps == HostInv /\ Send => HostInv'
<1>1. HAVE HostInv /\ Send
<1>2. todo = <<>> /\ inserted' = FALSE /\ speaks' = IF ToVt52(meant') THEN "vt52" ELSE speaks
  BY <1>1 DEF Send
<1>3. Idle(ps, todo, meant, did, speaks)
  BY <1>1, <1>2, DoneIsIdle
<1>4. CASE speaks = "vt100" /\ SendPlain
  BY <1>1, <1>2, <1>3, <1>4, PlainSent
<1>5. CASE speaks = "vt100" /\ SendNumbers
  BY <1>1, <1>2, <1>3, <1>5, NumbersSent
<1>6. CASE speaks = "vt52" /\ SendVt52
  BY <1>1, <1>2, <1>3, <1>6, Vt52Sent
<1>7. CASE speaks = "vt52" /\ SendVt52Cursor
  BY <1>1, <1>2, <1>3, <1>7, AddressSent
<1> QED
  BY <1>1, <1>4, <1>5, <1>6, <1>7 DEF Send

LEMMA NextKeeps == HostInv /\ [Next]_vars => HostInv'
<1>1. HAVE HostInv /\ [Next]_vars
<1>2. CASE Send
  BY <1>1, <1>2, SendKeeps
<1>3. CASE LeaveVt52
  <2>1. todo = <<>>
    BY <1>3 DEF LeaveVt52
  <2> QED
    BY <1>1, <1>3, <2>1, DoneIsIdle, LeaveSent
<1>4. CASE Byte
  BY <1>1, <1>4, ByteKeeps
<1>5. CASE \E b \in {CR, LF, FF, TAB, BS, BEL} : Insert(b)
  BY <1>1, <1>5, InsertKeeps
<1>6. CASE UNCHANGED vars
  <2>1. ps' = ps /\ did' = did /\ todo' = todo /\ meant' = meant /\ speaks' = speaks
        /\ inserted' = inserted
    BY <1>6 DEF vars
  <2>2. TypeOK'
    BY <1>1, <2>1 DEF HostInv, TypeOK
  <2>3. Phase(ps, todo, meant, did, speaks)
    BY <1>1 DEF HostInv
  <2>4. Phase(ps', todo', meant', did', speaks')
    BY <2>1, <2>3
  <2> QED
    BY <2>2, <2>4 DEF HostInv
<1> QED
  BY <1>1, <1>2, <1>3, <1>4, <1>5, <1>6 DEF Next

\* However the commands of the host are cut into reads, whatever was sent before and
\* whatever cursor controls come in between, the parser is always in the middle of
\* exactly the command that is under way.
THEOREM HostInductive == Spec => []HostInv
<1>1. Init => HostInv
  BY HostInit
<1>2. HostInv /\ [Next]_vars => HostInv'
  BY NextKeeps
<1> QED
  BY <1>1, <1>2, PTL DEF Spec

\* ProcessInput carries out every command that the host writes, with its own numbers,
\* question mark and count, for any number of parameters that fit in the array param
\* and for every screen: numbers that are left out are zero, and none is taken from
\* the command before.
THEOREM CommandsAreDecoded == Spec => []DecodesWhatIsMeant
<1>1. HostInv => DecodesWhatIsMeant
  <2>1. HAVE HostInv
  <2>2. todo = <<>> => Idle(ps, todo, meant, did, speaks)
    BY <2>1, DoneIsIdle
  <2> QED
    BY <2>2 DEF Idle, DecodesWhatIsMeant
<1> QED
  BY <1>1, HostInductive, PTL

\* The parser and the host never disagree about the command set that is in use, nparam
\* stays inside param, and current_state is one of the tables.
THEOREM TablesInStep == Spec => []InStep
<1>1. HostInv => InStep
  <2>1. HAVE HostInv
  <2>2. todo = <<>> => Idle(ps, todo, meant, did, speaks)
    BY <2>1, DoneIsIdle
  <2> QED
    BY <2>1, <2>2 DEF Idle, Home, HostInv, InStep
<1> QED
  BY <1>1, HostInductive, PTL
=============================================================================
