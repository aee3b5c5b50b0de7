----------------------------- MODULE VT100Host -----------------------------
(***************************************************************************)
(* A host that writes whole commands to a GTerm: it encodes each command,  *)
(* the bytes reach the parser one by one (reads may cut them anywhere, the *)
(* parser cannot tell), and cursor controls come in between, as the        *)
(* comments in states.cpp allow.  The host follows its own switches        *)
(* between the vt100 and the vt52 command set.                             *)
(***************************************************************************)
EXTENDS GTermParser

CONSTANTS
  Numbers,     \* values of numeric parameters, below 100
  MaxParams,   \* parameters of a command
  Height       \* rows of the screen

ASSUME HostAssumption ==
  /\ Numbers \subseteq 0 .. 99
  /\ MaxParams \in 1 .. MAXPARAM
  /\ Height \in Nat \ {0, 1}

VARIABLES
  ps,        \* the parser
  todo,      \* bytes of the command under way that the parser has not seen
  meant,     \* the command the host sent last
  did,       \* what GTerm carried out since then, cursor controls aside
  speaks,    \* the command set the host uses
  inserted   \* the host may still insert cursor controls

vars == <<ps, todo, meant, did, speaks, inserted>>

----------------------------------------------------------------------------
(* Commands and their encodings                                            *)

Lists == UNION {[1 .. n -> Numbers] : n \in 0 .. MaxParams}

\* A command without numbers is sent as ESC and the bytes in Plain.
Plain == [save_cursor |-> <<55>>, restore_cursor |-> <<56>>, set_tab |-> <<72>>,
          index_down |-> <<68>>, index_up |-> <<77>>, next_line |-> <<69>>,
          reset |-> <<99>>, screen_align |-> <<35, 56>>,
          keypad_application |-> <<61>>, keypad_numeric |-> <<62>>]

\* The final byte of a command with numbers.
Final == [cursor_up |-> 65, cursor_down |-> 66, cursor_right |-> 67,
          cursor_left |-> 68, cursor_position |-> 72, set_margins |-> 114,
          delete_char |-> 80, insert_char |-> 64, erase_char |-> 88,
          delete_line |-> 77, insert_line |-> 76, erase_display |-> 74,
          erase_line |-> 75, set_colors |-> 109, clear_tab |-> 103,
          set_mode |-> 104, clear_mode |-> 108, status_report |-> 110,
          device_attrib |-> 99, request_param |-> 120]

Vt52 == [cursor_up |-> 65, cursor_down |-> 66, cursor_right |-> 67,
         cursor_left |-> 68, cursor_position |-> 72, index_up |-> 73,
         erase_display |-> 74, erase_line |-> 75, vt52_ident |-> 90]

Padded(ns) == [n \in 0 .. MAXPARAM - 1 |-> IF n < Len(ns) THEN ns[n + 1] ELSE 0]

\* A command: the method, its numbers, how many were separated, the question mark.
Command(op, ns, q) == [op |-> op, param |-> Padded(ns), q_mode |-> q,
                       nparam |-> IF ns = <<>> THEN 0 ELSE Len(ns) - 1]

Decimal(n) == IF n < 10 THEN <<48 + n>> ELSE <<48 + (n \div 10), 48 + (n % 10)>>

\* Zero may be left out.
Spellings(n) == {Decimal(n)} \cup (IF n = 0 THEN {<<>>} ELSE {})

\* The spelled numbers of a command, with a semicolon between two of them.
Body(word) ==
  LET upto[n \in 0 .. Len(word)] ==
        IF n = 0 THEN <<>>
        ELSE upto[n - 1] \o (IF n = 1 THEN <<>> ELSE <<59>>) \o word[n]
  IN  upto[Len(word)]

----------------------------------------------------------------------------
Nothing == Command("none", <<>>, 0)

Sends(cmd, bytes) == /\ todo' = bytes /\ meant' = cmd
                     /\ did' = Nothing
                     /\ UNCHANGED ps

SendPlain == \E op \in DOMAIN Plain :
  Sends(Command(op, <<>>, 0), <<ESC>> \o Plain[op])

\* ESC [ ? n ; n final
SendNumbers == \E op \in DOMAIN Final, ns \in Lists, q \in {0, 1} :
  \E word \in [1 .. Len(ns) -> UNION {Spellings(n) : n \in Numbers}] :
    /\ \A n \in 1 .. Len(ns) : word[n] \in Spellings(ns[n])
    /\ Sends(Command(op, ns, q),
             <<ESC, 91>> \o (IF q = 1 THEN <<63>> ELSE <<>>)
               \o Body(word) \o <<Final[op]>>)

SendVt52 == \E op \in DOMAIN Vt52 : Sends(Command(op, <<>>, 0), <<ESC, Vt52[op]>>)

\* ESC Y row column, a row of the screen that fits in a byte.
SendVt52Cursor == \E y \in 1 .. Height - 1, x \in {1} :
  /\ 32 + y <= 255
  /\ Sends(Command("vt52_cursorx", <<y>>, 0), <<ESC, 89, 32 + y, 32 + x>>)

ToVt52(cmd) == cmd.op = "clear_mode" /\ cmd.q_mode = 1 /\ cmd.param[0] = 2

Send ==
  /\ todo = <<>>
  /\ inserted' = FALSE
  /\ \/ speaks = "vt100" /\ (SendPlain \/ SendNumbers)
     \/ speaks = "vt52" /\ (SendVt52 \/ SendVt52Cursor)
  /\ speaks' = IF ToVt52(meant') THEN "vt52" ELSE speaks

\* ESC < goes back to the vt100 commands; it is no method of GTerm.
LeaveVt52 == /\ todo = <<>> /\ speaks = "vt52"
             /\ todo' = <<ESC, 60>> /\ speaks' = "vt100"
             /\ meant' = Nothing /\ did' = Nothing
             /\ inserted' = FALSE
             /\ UNCHANGED ps

Did(b) == IF Action(ps, b) \in Collecting \cup ControlOps THEN did
          ELSE [op |-> Action(ps, b), param |-> ps.param, q_mode |-> ps.q_mode,
                nparam |-> ps.nparam]

Byte == /\ todo # <<>>
        /\ ps' = Turn(ps, Head(todo), Height)
        /\ did' = Did(Head(todo))
        /\ todo' = Tail(todo)
        /\ UNCHANGED <<meant, speaks, inserted>>

\* A cursor control inside a vt100 sequence, or between commands.
Insert(b) == /\ ps.current_state \in {"normal", "esc", "bracket", "vt52_normal"}
             /\ ~inserted
             /\ inserted' = TRUE
             /\ ps' = Turn(ps, b, Height)
             /\ did' = Did(b)
             /\ UNCHANGED <<todo, meant, speaks>>

Init == /\ ps = NewParser /\ todo = <<>>
        /\ meant = Nothing /\ did = Nothing
        /\ speaks = "vt100" /\ inserted = FALSE

Next == Send \/ LeaveVt52 \/ Byte \/ \E b \in {CR, LF, FF, TAB, BS, BEL} : Insert(b)

Spec == Init /\ [][Next]_vars

----------------------------------------------------------------------------
(* Properties                                                              *)

\* The parser and the host have their types; nparam stays inside param.
TypeOK == /\ ps \in ParserType
          /\ todo \in Seq(0 .. 255)
          /\ speaks \in {"vt100", "vt52"} /\ inserted \in BOOLEAN

\* A command without numbers is carried out whatever numbers are left over.
Same(c, d) == /\ c.op = d.op
              /\ c.op \notin DOMAIN Plain => c = d

\* ProcessInput carries out the command that was sent, with the numbers, the
\* question mark and the count of its own sequence, whatever was sent before and
\* whatever cursor controls came in between.
DecodesWhatIsMeant == todo = <<>> => Same(did, meant)

\* Between commands the parser is in the table of the command set the host uses.
InStep == /\ TypeOK
          /\ todo = <<>> =>
               ps.current_state = IF speaks = "vt52" THEN "vt52_normal" ELSE "normal"

============================================================================
