------------------------------ MODULE MCOpDesk ------------------------------
(***************************************************************************)
(* An instance of OpDesk for TLC.                                          *)
(***************************************************************************)
EXTENDS OpDesk

\* Bound: either three boxes at most, in one color; or four, when no button connects itself
\* again or from the input's side and none is dragged.
VARIABLE few

MCInit == Init /\ few \in BOOLEAN

MCNext ==
  /\ Next /\ UNCHANGED few
  /\ IF few THEN x'.made <= 3 /\ \A c \in Range(x'.connects) : c.color = DefaultColor
     ELSE /\ \A c \in Range(x'.connects) : GetButtonType(c.src) = "out"
          /\ x'.redone = {}
          /\ x'.pushed = NoButton

MCSpec == MCInit /\ [][MCNext]_<<x, few>>
============================================================================
