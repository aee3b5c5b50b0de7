------------------------------- MODULE OpDesk -------------------------------
(***************************************************************************)
(* The node graph of Fl_OpDesk: boxes with an input and an output button   *)
(* each, and the connections between buttons.  A connection is kept in     *)
(* three places: connects of the desk and connected_to of both buttons,    *)
(* which call each other to stay in agreement.  Boxes are copied, pasted   *)
(* and deleted; the widget of a deleted box lives until the event loop     *)
(* frees it.  Any boxes may be selected whenever it matters.  A call is an *)
(* operator from state to state.                                           *)
(***************************************************************************)
EXTENDS Integers, Sequences, SequencesExt, FiniteSets

CONSTANTS
  MaxBoxes,       \* bound: boxes ever made
  MaxConnects,    \* bound: connections at a time, those of copies apart
  MaxSelected,    \* bound: boxes selected at a time
  Colors, DefaultColor

ASSUME OpDeskAssumption == /\ MaxBoxes \in Nat \ {0, 1} /\ MaxConnects \in Nat
                           /\ MaxSelected \in Nat /\ DefaultColor \in Colors

VARIABLE x

Boxes == 1 .. MaxBoxes
Buttons == Boxes \X {"in", "out"}
GetOpBox(b) == b[1]
GetButtonType(b) == b[2]
NoButton == <<0, "none">>

ButtonsOf(bs) == bs \X {"in", "out"}

StateType ==
  [made : 0 .. MaxBoxes,
   boxes : Seq(Boxes), box_clipboard : Seq(Boxes),
   doomed : SUBSET Boxes,                     \* given to Fl::delete_widget
   alive : SUBSET Buttons,
   connected_to : [Buttons -> Seq(Buttons)],
   connects : Seq([src : Buttons, dst : Buttons, color : Colors]),
   redone : SUBSET (Buttons \X Buttons),      \* see ConnectTo
   pushed : Buttons \cup {NoButton},          \* Fl::pushed()
   pasted : Seq(Boxes \X Boxes),              \* pasted last, unrefused: box and copy
   moved : BOOLEAN]                           \* ... and the vector moved meanwhile

Init == x = [made |-> 2, boxes |-> <<1, 2>>, box_clipboard |-> <<>>, doomed |-> {},
             alive |-> ButtonsOf({1, 2}),
             connected_to |-> [b \in Buttons |-> <<>>], connects |-> <<>>, redone |-> {},
             pushed |-> NoButton, pasted |-> <<>>, moved |-> FALSE]

\* The vector q without the members of S.
Without(q, S) ==
  LET Kept[n \in 0 .. Len(q)] ==
        IF n = 0 THEN <<>>
        ELSE IF q[n] \in S THEN Kept[n - 1] ELSE Append(Kept[n - 1], q[n])
  IN  Kept[Len(q)]

----------------------------------------------------------------------------
(* Connections                                                             *)

AreConnected(c, a, b) == {c.src, c.dst} = {a, b}

Listed(y, a, b) == \E c \in Range(y.connects) : AreConnected(c, a, b)

\* Fl_OpDesk::_ConnectOnly, of a connection that is not listed.
_ConnectOnly(y, a, b) ==
  [y EXCEPT !.connects = Append(@, [src |-> a, dst |-> b, color |-> DefaultColor])]

\* Fl_OpDesk::_DisconnectOnly
_DisconnectOnly(y, a, b) ==
  [y EXCEPT !.connects = Without(@, {c \in Range(@) : AreConnected(c, a, b)}),
            !.redone = @ \ {<<a, b>>, <<b, a>>}]

_RemoveConnect(y, a, b) ==
  [y EXCEPT !.connected_to[a] = Without(@, {b})]

\* The other button is not told, for the mutation tests.
DisconnectOneSide(y, a, b) == _DisconnectOnly(_RemoveConnect(y, a, b), a, b)

\* Fl_OpButton::Disconnect, and Fl_OpDesk::Disconnect of two buttons.
Disconnect(y, a, b) ==
  _DisconnectOnly(_RemoveConnect(_RemoveConnect(y, a, b), b, a), a, b)

\* Fl_OpButton::DisconnectAll
DisconnectAll(y, a) ==
  LET all == y.connected_to[a]
      Loop[n \in 0 .. Len(all)] ==
        IF n = 0 THEN y ELSE Disconnect(Loop[n - 1], a, all[n])
  IN  Loop[Len(all)]

\* An input keeps what it was connected to, for the mutation tests.
ConnectToOnlyKeeps(y, a, b) == [y EXCEPT !.connected_to[a] = Append(@, b)]

\* Fl_OpButton::_ConnectToOnly, once nothing speaks against it: an input drops
\* what it was connected to.
_ConnectToOnly(y, a, b) ==
  LET z == IF GetButtonType(a) = "in" THEN DisconnectAll(y, a) ELSE y
  IN  [z EXCEPT !.connected_to[a] = Append(@, b)]

\* An output connects again to the input it is connected to: the input then drops the
\* connection on both sides before it takes it again, or refuses after the output has
\* forgotten it.  redone notes the pair for the properties.
Redo(z, y, a, b) ==
  [z EXCEPT !.redone = IF GetButtonType(a) = "out" /\ a \in Range(y.connected_to[b])
                       THEN @ \cup {<<a, b>>} ELSE @]

\* Fl_OpButton::ConnectTo; ok are the buttons whose Connecting() agrees.
ConnectTo(y, a, b, ok) ==
  IF GetButtonType(a) = GetButtonType(b) \/ a \notin ok THEN [ret |-> -1, st |-> y]
  ELSE LET mine == _ConnectToOnly(y, a, b)
       IN  IF b \notin ok THEN [ret |-> -1, st |-> Redo(_RemoveConnect(mine, a, b), y, a, b)]
           ELSE LET both == _ConnectToOnly(mine, b, a)
                    all == IF Listed(both, a, b) THEN both ELSE _ConnectOnly(both, a, b)
                IN  [ret |-> 0, st |-> Redo(all, y, a, b)]

\* Fl_OpDesk::Connect lists the connection first, with the output as the source.
Connect(y, srcbut, dstbut, ok) ==
  IF Listed(y, srcbut, dstbut) THEN [ret |-> 1, st |-> y]
  ELSE LET swap == GetButtonType(srcbut) = "in"
           a == IF swap THEN dstbut ELSE srcbut
           b == IF swap THEN srcbut ELSE dstbut
           r == ConnectTo(_ConnectOnly(y, a, b), a, b, ok)
       IN  IF r.ret = 0 THEN r
           ELSE [r EXCEPT !.st.connects = Front(@)]

\* Fl_OpDesk::Disconnect of a box.
DisconnectBox(y, box) ==
  LET all == y.connects
      Loop[n \in 0 .. Len(all)] ==
        IF n = 0 THEN y
        ELSE IF box \in {GetOpBox(all[n].src), GetOpBox(all[n].dst)}
             THEN Disconnect(Loop[n - 1], all[n].src, all[n].dst) ELSE Loop[n - 1]
  IN  Loop[Len(all)]

\* Fl_OpDesk::DisconnectAll
DisconnectDesk(y) ==
  LET all == y.connects
      Loop[n \in 0 .. Len(all)] ==
        IF n = 0 THEN y ELSE Disconnect(Loop[n - 1], all[n].src, all[n].dst)
  IN  Loop[Len(all)]

----------------------------------------------------------------------------
(* Boxes                                                                   *)

_RemoveBox(y, box) == [y EXCEPT !.boxes = Without(@, {box}),
                                !.box_clipboard = Without(@, {box})]

DeleteBox(y, box) ==
  [_RemoveBox(DisconnectBox(y, box), box) EXCEPT !.doomed = @ \cup {box}]

DeleteSelected(y, selected) ==
  LET all == y.boxes
      Loop[n \in 0 .. Len(all)] ==
        IF n = 0 THEN y
        ELSE IF all[n] \in selected THEN DeleteBox(Loop[n - 1], all[n]) ELSE Loop[n - 1]
  IN  Loop[Len(all)]

Clear(y) == DeleteSelected(y, Range(y.boxes))

\* Relies on what DeleteBox has disconnected, for the mutation tests.
FreeWidgetsOnly(y) ==
  [y EXCEPT !.doomed = {}, !.alive = @ \ ButtonsOf(y.doomed),
            !.pushed = IF GetOpBox(@) \in y.doomed THEN NoButton ELSE @]

\* The event loop frees the widgets: ~Fl_OpBox, and the buttons with it.
FreeWidgets(y) ==
  LET all == SetToSeq(y.doomed)
      Loop[n \in 0 .. Len(all)] ==
        IF n = 0 THEN y ELSE _RemoveBox(DisconnectBox(Loop[n - 1], all[n]), all[n])
  IN  [Loop[Len(all)] EXCEPT !.doomed = {}, !.alive = @ \ ButtonsOf(y.doomed),
                    !.pushed = IF GetOpBox(@) \in y.doomed THEN NoButton ELSE @]

\* Does not ask whether the other box was copied too, for the mutation tests.
CopyAnyConnection(y, z, a, b, origs, base, ok, moves, left) ==
  LET Copy(c) == <<base + SelectInSeq(origs, LAMBDA o : o = GetOpBox(c)), GetButtonType(c)>>
  IN  Connect(z, Copy(a), Copy(b), ok).st

\* A turn of the innermost loop of CopyConnections: the connection of a to b, if
\* the box of b is copied too.  The attributes are read through a pointer into
\* connects, which Connect has moved if the vector had to grow: then they are what
\* is left there.
CopyConnection(y, z, a, b, origs, base, ok, moves, left) ==
  LET Copy(c) == <<base + CHOOSE k \in DOMAIN origs : origs[k] = GetOpBox(c),
                   GetButtonType(c)>>
      orig == CHOOSE c \in Range(y.connects) : AreConnected(c, a, b)
      r == Connect(z, Copy(a), Copy(b), ok)
  IN  IF GetOpBox(b) \notin Range(origs) THEN z
      ELSE IF r.ret # 0 THEN r.st
      ELSE [r.st EXCEPT !.connects[Len(r.st.connects)].color =
                           IF moves THEN left ELSE orig.color]

\* The connections of a button, whose list stays as it was in y.
CopyButton(y, z, a, origs, base, ok, moves, left) ==
  LET all == y.connected_to[a]
      Loop[n \in 0 .. Len(all)] ==
        IF n = 0 THEN z
        ELSE CopyConnection(y, Loop[n - 1], a, all[n], origs, base, ok, moves, left)
  IN  Loop[Len(all)]

\* A box at a time, its inputs before its outputs.
CopyConnections(y, origs, base, ok, moves, left) ==
  LET Of(z, a) == CopyButton(y, z, a, origs, base, ok, moves, left)
      Loop[n \in 0 .. Len(origs)] ==
        IF n = 0 THEN y
        ELSE Of(Of(Loop[n - 1], <<origs[n], "in">>), <<origs[n], "out">>)
  IN  Loop[Len(origs)]

PasteSelected(y, ok, moves, left) ==
  LET origs == y.box_clipboard
      base == y.made
      copies == [k \in DOMAIN origs |-> base + k]
      made == [y EXCEPT !.made = @ + Len(origs), !.boxes = @ \o copies,
                        !.alive = @ \cup ButtonsOf(Range(copies)),
                        !.pasted = IF ok = {} THEN <<>>
                                   ELSE [k \in DOMAIN origs |-> <<origs[k], copies[k]>>],
                        !.moved = moves]
  IN  CopyConnections(made, origs, base, ok, moves, left)

----------------------------------------------------------------------------
(* Actions: what the application calls and what the user does              *)

\* pasted and moved tell of the last step only.
Does(y) == x' = [y EXCEPT !.pasted = <<>>, !.moved = FALSE]

Usable == x.alive \cap ButtonsOf(Range(x.boxes))
Room == Len(x.connects) < MaxConnects
Selections == {s \in SUBSET Range(x.boxes) : Cardinality(s) <= MaxSelected}

\* Both buttons agree to be connected, or one does not.
Answers(a, b) == {{a, b}, {a}, {b}}

AppConnect == /\ Room
              /\ \E a \in Usable : \E b \in Usable \ {a} : \E ok \in Answers(a, b) :
                   Does(Connect(x, a, b, ok).st)

\* A button connects itself, from either side, and maybe again.
AppConnectTo ==
  /\ Room
  /\ \E a \in Usable : \E b \in Usable \ {a} : \E ok \in Answers(a, b) :
       Does(ConnectTo(x, a, b, ok).st)

\* Two buttons that are connected, in either order.
AppDisconnect == \E c \in Range(x.connects) : \/ Does(Disconnect(x, c.src, c.dst))
                                              \/ Does(Disconnect(x, c.dst, c.src))

AppDisconnectButton == \E a \in Usable :
                         x.connected_to[a] # <<>> /\ Does(DisconnectAll(x, a))

AppDisconnectAll == /\ x.connects # <<>>
                    /\ Does(DisconnectDesk(x))

SetColor == \E k \in DOMAIN x.connects, color \in Colors :
              x.connects[k].color # color /\ Does([x EXCEPT !.connects[k].color = color])

AppDelete == \E b \in Range(x.boxes) : Does(DeleteBox(x, b))

AppClear == x.boxes # <<>> /\ Does(Clear(x))

\* A new box, with its buttons.
AppAdd == /\ x.made < MaxBoxes
          /\ Does([x EXCEPT !.made = @ + 1, !.boxes = Append(@, x.made + 1),
                             !.alive = @ \cup ButtonsOf({x.made + 1})])

CutSelected == \E selected \in Selections :
                 Does(DeleteSelected([x EXCEPT !.box_clipboard = <<>>], selected))

CopySelected == \E selected \in Selections :
  Does([x EXCEPT !.box_clipboard = Without(x.boxes, Boxes \ selected)])

Paste == /\ x.box_clipboard # <<>>
         /\ x.made + Len(x.box_clipboard) <= MaxBoxes
         /\ \E ok \in {Buttons, {}}, moves \in BOOLEAN, left \in Colors :
              x' = PasteSelected(x, ok, moves, left)

\* The event loop, when a turn begins.  Timeouts, checks, and as many events as are queued
\* follow in the same turn, so that a deleted box may live through several of the others.
Wait == x.doomed # {} /\ Does(FreeWidgets(x))

\* FL_PUSH on a button.
PushButton == /\ x.pushed = NoButton /\ Room
              /\ \E b \in Usable : Does([x EXCEPT !.pushed = b])

\* FL_RELEASE: after a drag to a button of another box, the two are connected, even when
\* the box of the pushed button has been deleted and not been freed yet.
Release == /\ x.pushed # NoButton
           /\ LET y == [x EXCEPT !.pushed = NoButton]
              IN  \/ Does(y)
                  \/ /\ Room
                     /\ \E b \in Usable :
                          /\ GetOpBox(b) # GetOpBox(x.pushed)
                          /\ \E ok \in Answers(x.pushed, b) :
                               Does(Connect(y, x.pushed, b, ok).st)

\* The Delete key, also in the middle of a drag.
DeleteKey == \E selected \in Selections \ {{}} : Does(DeleteSelected(x, selected))

Next == \/ AppConnect \/ AppConnectTo \/ AppDisconnect \/ AppDisconnectButton
        \/ AppDisconnectAll \/ SetColor \/ AppAdd \/ AppDelete \/ AppClear
        \/ CutSelected \/ CopySelected \/ Paste
        \/ Wait \/ PushButton \/ Release \/ DeleteKey

Spec == Init /\ [][Next]_x

----------------------------------------------------------------------------
(* Properties                                                              *)

\* Every field has its type; no box is listed twice.
TypeOK == /\ x \in StateType
          /\ Len(x.boxes) = Cardinality(Range(x.boxes))
          /\ Len(x.box_clipboard) = Cardinality(Range(x.box_clipboard))

Times(s, b) == Cardinality({k \in DOMAIN s : s[k] = b})

\* The three records of a connection agree: the desk lists an output and an input as
\* often as each is in the list of the other, at most once.  When an output has connected
\* again ("drops any existing connections to dstbut, then recreates"), its own list may
\* lack the input.
BooksAgree ==
  /\ TypeOK
  /\ \A a, b \in x.alive : GetButtonType(a) = "out" /\ GetButtonType(b) = "in" =>
       LET n == Cardinality({k \in DOMAIN x.connects : AreConnected(x.connects[k], a, b)})
       IN  /\ n <= 1
           /\ Times(x.connected_to[b], a) = n
           /\ Times(x.connected_to[a], b) <= n
           /\ <<a, b>> \notin x.redone => Times(x.connected_to[a], b) = n

\* "Input buttons can only be connected to one other button", whoever connected, refused
\* or pasted, from whichever side: an input has one output in its list and one connection
\* on the desk at most, and nobody connects two inputs or two outputs.
OneSource ==
  /\ \A b \in x.alive : GetButtonType(b) = "in" =>
       /\ Len(x.connected_to[b]) <= 1
       /\ Cardinality({k \in DOMAIN x.connects : b \in {x.connects[k].src, x.connects[k].dst}})
            <= 1
  /\ \A c \in Range(x.connects) : GetButtonType(c.src) # GetButtonType(c.dst)

\* Nothing refers to what has been freed, although a box that was deleted in the middle of
\* a drag can be connected before it is freed: no connection to a button, no button's list,
\* no box on the clipboard, no pushed button.
NoDangling ==
  /\ \A c \in Range(x.connects) : {c.src, c.dst} \subseteq x.alive
  /\ \A a \in x.alive : Range(x.connected_to[a]) \subseteq x.alive
  /\ Range(x.box_clipboard) \subseteq Range(x.boxes)
  /\ ButtonsOf(Range(x.boxes)) \subseteq x.alive
  /\ x.pushed \in x.alive \cup {NoButton}

\* "Make similar connections in the copies": unless the application refuses, the
\* copies are connected as the originals are, in the same colors unless the vector
\* moved while they were read, and to nothing else.
CopiesAlike ==
  LET Copies == {p[2] : p \in Range(x.pasted)}
      Inner(bs) == {c \in Range(x.connects) :
                      GetOpBox(c.src) \in bs /\ GetOpBox(c.dst) \in bs}
      CopyOf(b) == <<(CHOOSE p \in Range(x.pasted) : p[1] = GetOpBox(b))[2], GetButtonType(b)>>
      Image(c) == [src |-> CopyOf(c.src), dst |-> CopyOf(c.dst), color |-> c.color]
      Bare(c) == {c.src, c.dst}
      Full(c) == <<Bare(c), c.color>>
      want == {Image(c) : c \in Inner({p[1] : p \in Range(x.pasted)})}
      have == {c \in Range(x.connects) : Copies \cap {GetOpBox(c.src), GetOpBox(c.dst)} # {}}
  IN  /\ {Bare(c) : c \in have} = {Bare(c) : c \in want}
      /\ ~x.moved => {Full(c) : c \in have} = {Full(c) : c \in want}
============================================================================
