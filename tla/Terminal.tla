------------------------------ MODULE Terminal ------------------------------
(***************************************************************************)
(* The terminal as the application runs it: mfd_cb reads some bytes and    *)
(* hands them to ProcessInput, whose loop gives them to the parser one by  *)
(* one; the parser calls the methods of the screen.  The specification of  *)
(* GTermDisplay, in which operations come from nowhere, is implemented by  *)
(* this one, in which they come from bytes cut into reads.                 *)
(***************************************************************************)
EXTENDS GTermDisplay, GTermParser

CONSTANTS
  Reads,      \* what a read can return: sequences of bytes
  CharOf,     \* the printing characters, as members of Chars
  ColorOf     \* the pairs of foreground and background, as members of Colors

VARIABLES
  ps,      \* the parser
  data,    \* input_data: the bytes of this read not yet processed
  worked   \* some operation of the screen was carried out in this read

tvars == <<vars, ps, data, worked>>

----------------------------------------------------------------------------
(* The operations behind the table entries                                 *)

\* set_colors, parameter by parameter.
Select(cf, p) ==
  CASE p \div 10 = 4 -> <<<<cf[1][1], IF p % 10 > 7 THEN 0 ELSE p % 10>>, cf[2]>>
    [] p \div 10 = 3 -> <<<<IF p % 10 > 7 THEN 7 ELSE p % 10, cf[1][2]>>, cf[2]>>
    [] p = 0 -> <<<<7, 0>>, {}>>
    [] p = 1 -> <<cf[1], cf[2] \cup {"BOLD"}>>
    [] p = 4 -> <<cf[1], cf[2] \cup {"UNDERLINE"}>>
    [] p = 5 -> <<cf[1], cf[2] \cup {"BLINK"}>>
    [] p = 7 -> <<cf[1], cf[2] \cup {"INVERSE"}>>
    [] OTHER -> cf

Selected(g, p) ==
  LET After[n \in -1 .. p.nparam] ==
        IF n = -1 THEN <<CHOOSE c \in DOMAIN ColorOf : ColorOf[c] = g.color, {}>>
        ELSE Select(After[n - 1], p.param[n])
  IN  After[p.nparam]

\* The flag that a mode number stands for.
ModeFlag(n) ==
  CASE n = 1007 -> "NOEOLWRAP" [] n = 1001 -> "CURSORAPPMODE"
    [] n = 1006 -> "CURSORRELATIVE" [] n = 4 -> "INSERT" [] n = 20 -> "NEWLINE"
    [] n = 12 -> "LOCALECHO" [] n = 1025 -> "CURSORINVISIBLE" [] OTHER -> "none"

\* What method act does to the screen; the answers to the host and the bell
\* leave it alone.
Do(g, act, p, b) ==
  CASE act = "cr" -> cr(g)
    [] act \in {"lf", "index_down"} -> lf(g)
    [] act = "ff" -> ff(g)
    [] act = "tab" -> tab(g)
    [] act = "bs" -> bs(g)
    [] act = "save_cursor" -> save_cursor(g)
    [] act = "restore_cursor" -> restore_cursor(g)
    [] act = "set_tab" -> set_tab(g)
    [] act = "index_up" -> index_up(g)
    [] act = "next_line" -> next_line(g)
    [] act = "reset" -> reset(g)
    [] act = "screen_align" -> screen_align(g)
    [] act = "keypad_application" -> set_mode_flag(g, {"KEYAPPMODE"})
    [] act = "keypad_numeric" -> clear_mode_flag(g, {"KEYAPPMODE"})
    [] act = "clear_tab" -> clear_tab(g, p.param[0])
    [] act = "cursor_left" -> cursor_left(g, p.param[0])
    [] act = "cursor_right" -> cursor_right(g, p.param[0])
    [] act = "cursor_up" -> cursor_up(g, p.param[0])
    [] act = "cursor_down" -> cursor_down(g, p.param[0])
    [] act = "delete_char" -> delete_char(g, p.param[0])
    [] act = "insert_char" -> insert_char(g, p.param[0])
    [] act = "erase_char" -> erase_char(g, p.param[0])
    [] act = "delete_line" -> delete_line(g, p.param[0])
    [] act = "insert_line" -> insert_line(g, p.param[0])
    [] act = "erase_display" -> erase_display(g, p.param[0])
    [] act = "erase_line" -> erase_line(g, p.param[0])
    [] act = "cursor_position" -> cursor_position(g, p.param[0], p.param[1])
    [] act = "vt52_cursorx" -> vt52_cursor(g, p.param[0], b - 32)
    [] act = "set_colors" -> set_colors(g, ColorOf[Selected(g, p)[1]], Selected(g, p)[2])
    [] act = "set_mode" /\ ModeFlag(ModeNumber(p)) # "none"
         -> set_mode(g, ModeFlag(ModeNumber(p)))
    [] act = "clear_mode" /\ ModeFlag(ModeNumber(p)) # "none"
         -> clear_mode(g, ModeFlag(ModeNumber(p)))
    [] OTHER -> g

----------------------------------------------------------------------------
(* Actions                                                                 *)

\* mfd_cb: a read that returns data, at most 1000 bytes.
Read == /\ ~in_input
        /\ data' \in Reads
        /\ in_input' = TRUE /\ worked' = FALSE
        /\ UNCHANGED <<gt, screen, crs, ps>>

Act == Action(ps, Head(data))

\* After MAXPARAM separators, param_digit writes and set_colors reads outside param:
\* what follows is undefined.
Overruns == ps.nparam >= MAXPARAM /\ Act \in {"param_digit", "set_colors"}

\* Bound: the numbers of the host.  Params may be Nat.
Counted(p) == \A n \in DOMAIN p.param : p.param[n] \in Params

Looped(n) == /\ ~Overruns
             /\ ps' = Turn(ps, Head(data), gt.height)
             /\ Counted(ps')
             /\ data' = SubSeq(data, n + 1, Len(data))
             /\ UNCHANGED in_input

Within == gt'.pending_scroll \in -MaxPending .. MaxPending

\* The printing characters that one call of normal_input takes: up to the end of
\* the data, and of the line when lines wrap.
Taken(g, n) ==
  LET room == IF g.cursor_x >= g.width THEN g.width ELSE g.width - g.cursor_x
      wraps == "NOEOLWRAP" \notin g.mode_flags
  IN  /\ n \in 1 .. Len(data)
      /\ \A k \in 1 .. n : data[k] > 31
      /\ wraps => n <= room
      /\ n < Len(data) => data[n + 1] <= 31 \/ (wraps /\ n = room)

PrintRun == /\ data # <<>> /\ Act = "normal_input" /\ Head(data) > 31
          /\ RowInStore(gt)
          /\ \E n \in 1 .. Len(data) :
               /\ Taken(gt, n)
               /\ gt' = normal_input(gt, [k \in 1 .. n |-> CharOf[data[k]]])
               /\ Looped(n)
          /\ Within /\ worked' = TRUE
          /\ UNCHANGED <<screen, crs>>

\* Leaves the scroll pending, for the mutation tests.
MarginsAtOnce == /\ data # <<>> /\ Act = "set_margins" /\ RowInStore(gt)
                 /\ gt' = set_margins(gt, ps.param[0], ps.param[1])
                 /\ UNCHANGED <<screen, crs>>
                 /\ Looped(1) /\ Within /\ worked' = TRUE

\* set_margins brings the display up to date first, if a scroll is pending.
Margins == /\ data # <<>> /\ Act = "set_margins" /\ RowInStore(gt)
           /\ IF gt.pending_scroll # 0
              THEN UpdateChanges(gt, set_margins(AfterUpdate(gt),
                                                 ps.param[0], ps.param[1]))
              ELSE /\ gt' = set_margins(gt, ps.param[0], ps.param[1])
                   /\ UNCHANGED <<screen, crs>>
           /\ Looped(1) /\ Within /\ worked' = TRUE

Operation == /\ data # <<>>
             /\ Act \notin Collecting \cup {"normal_input", "set_margins"}
             /\ RowInStore(gt)
             /\ gt' = Do(gt, Act, ps, Head(data))
             /\ Looped(1) /\ Within
             /\ worked' = (worked \/ gt' # gt)
             /\ UNCHANGED <<screen, crs>>

\* Bytes that are collected, and control characters that mean nothing.
Collect == /\ data # <<>>
           /\ Act \in Collecting \/ (Act = "normal_input" /\ Head(data) < 32)
           /\ Looped(1)
           /\ UNCHANGED <<gt, screen, crs, worked>>

Return == /\ data = <<>> /\ EndOfInput
          /\ worked' = FALSE
          /\ UNCHANGED <<ps, data>>

Timer == Update /\ UNCHANGED <<ps, data, worked>>

Expose == ExposeArea /\ UNCHANGED <<ps, data, worked>>

TInit == /\ Init
         /\ ps = NewParser /\ data = <<>> /\ worked = FALSE

TNext == Read \/ PrintRun \/ Margins \/ Operation \/ Collect \/ Return \/ Timer \/ Expose

TSpec == TInit /\ [][TNext]_tvars

----------------------------------------------------------------------------
(* Properties                                                              *)

\* Every byte, however reads cut the output, is an operation of the screen as
\* GTermDisplay has them, or none, until a byte would reach outside param or a margin
\* has taken the cursor out of the text store.
ScreenSpec == INSTANCE GTermDisplay WITH in_input <- worked

ImplementsScreen == ScreenSpec!Spec

AllOps == {"normal_input", "cr", "lf", "ff", "tab", "bs", "save_cursor",
           "restore_cursor", "set_tab", "index_down", "index_up", "next_line",
           "reset", "screen_align", "clear_tab", "cursor_left", "cursor_right",
           "cursor_up", "cursor_down", "delete_char", "insert_char",
           "erase_char", "delete_line", "insert_line", "erase_display",
           "erase_line", "cursor_position", "vt52_cursor", "set_margins",
           "set_colors", "set_mode", "clear_mode", "keypad_application",
           "keypad_numeric"}

\* The constants of GTermDisplay name everything that bytes can ask for: all
\* operations, runs as long as a row, the character of every printing byte, and
\* the colours and renditions that the numbers in Params select.
Covered ==
  /\ AllOps \subseteq Ops
  /\ 0 \in Params /\ MAXPARAM >= 2
  /\ \A sz \in Sizes : sz[1] <= MaxRun
  /\ Reads \subseteq Seq(0 .. 255)
  /\ \A b \in 32 .. 255 : CharOf[b] \in Chars \cup {Space}
  /\ Colors = {ColorOf[c] : c \in DOMAIN ColorOf}
  /\ \A c \in DOMAIN ColorOf, flags \in SUBSET Renditions, p \in Params :
       Select(<<c, flags>>, p) \in (DOMAIN ColorOf) \X SUBSET Renditions
============================================================================
