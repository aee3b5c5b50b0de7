---------------------------- MODULE OpDeskProofs ----------------------------
(***************************************************************************)
(* The three records of a connection on the desk agree, whatever is        *)
(* connected, refused, disconnected, deleted and pasted, for every number  *)
(* of boxes and connections, except that the list of an output which has   *)
(* connected to an input again may lack the input (redone).                *)
(*                                                                         *)
(* The inductive invariant Good has two parts.  Books(y, E): connects and  *)
(* the lists of both buttons name the same pairs, once each, except that   *)
(* the lists may disagree on the pairs in E, as they do in the middle of a *)
(* connect or a disconnect.  Housed(y): the boxes, the clipboard, the      *)
(* pushed button and the buttons that are alive fit together.  There(y)    *)
(* are the boxes on the desk and those to be freed: a connection may lead  *)
(* to either, since a drag goes on while its box waits to be freed, and    *)
(* FreeWidgets drops those of the second kind.                             *)
(*                                                                         *)
(* The methods walk over vectors that they shorten.  Cut(y, z, P) is what  *)
(* such a walk has done so far: the connections of the pairs in P are gone *)
(* from all three records and the others are where they were, in order.    *)
(* The walks compose because Cut does.  PasteSelected starts from Ready    *)
(* (the copies are there, connected to nothing), and Pasted(m, z, ..., W)  *)
(* says that exactly the connections in W were copied.  Every box, button  *)
(* and connection adds to W (CopyConnectionsPasted), and a connection that *)
(* is met again from its other end is not copied twice (CopiedAlready).    *)
(***************************************************************************)
EXTENDS OpDesk, FiniteSetTheorems, WellFoundedInduction, NaturalsInduction, TLAPS

----------------------------------------------------------------------------
(* Loops                                                                   *)

\* A set of naturals has a least element.
LEMMA LeastOf ==
  ASSUME NEW S \in SUBSET Nat, S # {}
  PROVE  \E i \in S : \A j \in S : i <= j
<1> DEFINE R == OpToRel(<, Nat)
<1>1. \E i \in S : \A j \in S : ~(<<j, i>> \in R)
  BY NatLessThanWellFounded, WFMin
<1>2. \A i, j \in Nat : ~(<<j, i>> \in R) => i <= j
  BY DEF OpToRel
<1> QED
  BY <1>1, <1>2

\* What holds before a loop and is kept by each of its turns holds at its end.
LEMMA UpTo ==
  ASSUME NEW n \in Nat, NEW B, 0 \in B, \A k \in 1 .. n : k - 1 \in B => k \in B
  PROVE  \A k \in 0 .. n : k \in B
<1> DEFINE S == {k \in 0 .. n : k \notin B}
<1>1. SUFFICES ASSUME S # {} PROVE FALSE
  OBVIOUS
<1>2. S \in SUBSET Nat
  OBVIOUS
<1>3. PICK k \in S : \A j \in S : k <= j
  BY <1>1, <1>2, LeastOf
<1>4. k \in 1 .. n /\ k - 1 \in 0 .. n /\ ~(k <= k - 1)
  BY <1>3
<1> QED
  BY <1>3, <1>4

\* One turn of each loop of the desk.
Turn(t, p, z, e) ==
  CASE t = "keep" -> IF e \in p THEN z ELSE Append(z, e)
    [] t = "button" -> Disconnect(z, p, e)
    [] t = "desk" -> Disconnect(z, e.src, e.dst)
    [] t = "box" -> IF p \in {GetOpBox(e.src), GetOpBox(e.dst)}
                    THEN Disconnect(z, e.src, e.dst) ELSE z
    [] t = "delete" -> IF e \in p THEN DeleteBox(z, e) ELSE z
    [] t = "free" -> _RemoveBox(DisconnectBox(z, e), e)
    [] t = "copy" -> CopyConnection(p[1], z, p[2], e, p[3], p[4], p[5], p[6], p[7])
    [] t = "paste" -> CopyButton(p[1],
                        CopyButton(p[1], z, <<e, "in">>, p[2], p[3], p[4], p[5], p[6]),
                        <<e, "out">>, p[2], p[3], p[4], p[5], p[6])

IsLoop(f, t, p, z, s, n) ==
  f = [k \in 0 .. n |-> IF k = 0 THEN z ELSE Turn(t, p, f[k - 1], s[k])]

\* The recursive functions that the loops are written with exist.
LEMMA LoopExists ==
  ASSUME NEW t, NEW p, NEW z, NEW s, NEW n \in Nat
  PROVE  \E f : IsLoop(f, t, p, z, s, n)
<1> DEFINE B == {k \in Nat : \E f : IsLoop(f, t, p, z, s, k)}
<1>1. 0 \in B
  <2> DEFINE f == [j \in 0 .. 0 |-> z]
  <2>1. f = [j \in 0 .. 0 |-> IF j = 0 THEN z ELSE Turn(t, p, f[j - 1], s[j])]
    OBVIOUS
  <2> QED
    BY <2>1 DEF IsLoop
<1>2. ASSUME NEW k \in 1 .. n, k - 1 \in B
      PROVE  k \in B
  <2>1. k - 1 \in Nat /\ k \in Nat /\ k # 0
    OBVIOUS
  <2>2. PICK f : IsLoop(f, t, p, z, s, k - 1)
    BY <1>2
  <2>3. \A j \in 0 .. k - 1 : f[j] = IF j = 0 THEN z ELSE Turn(t, p, f[j - 1], s[j])
    BY <2>1, <2>2 DEF IsLoop
  <2> DEFINE g == [j \in 0 .. k |-> IF j = k THEN Turn(t, p, f[k - 1], s[k]) ELSE f[j]]
  <2>4. ASSUME NEW j \in 0 .. k
        PROVE  g[j] = IF j = 0 THEN z ELSE Turn(t, p, g[j - 1], s[j])
    <3>1. CASE j = k
      BY <2>1, <3>1
    <3>2. CASE j # k
      <4>1. j \in 0 .. k - 1 /\ (j # 0 => j - 1 \in 0 .. k /\ j - 1 # k)
        BY <2>1, <3>2
      <4> QED
        BY <2>1, <2>3, <3>2, <4>1
    <3> QED
      BY <3>1, <3>2
  <2>5. g = [j \in 0 .. k |-> g[j]]
    OBVIOUS
  <2> HIDE DEF g
  <2>6. [j \in 0 .. k |-> g[j]] =
          [j \in 0 .. k |-> IF j = 0 THEN z ELSE Turn(t, p, g[j - 1], s[j])]
    BY <2>4
  <2>7. IsLoop(g, t, p, z, s, k)
    BY <2>5, <2>6 DEF IsLoop
  <2> QED
    BY <2>1, <2>7
<1> HIDE DEF B
<1>3. n \in B
  BY <1>1, <1>2, UpTo
<1> QED
  BY <1>3 DEF B

\* Each operator of the desk ends where its loop does.
LEMMA WithoutLoops ==
  ASSUME NEW q, NEW S, Len(q) \in Nat
  PROVE  \E f : /\ IsLoop(f, "keep", S, <<>>, q, Len(q))
                /\ Without(q, S) = f[Len(q)]
<1> DEFINE f == CHOOSE f : f = [n \in 0 .. Len(q) |->
                  IF n = 0 THEN <<>> ELSE 
                  (IF q[n] \in S THEN f[n - 1] ELSE Append(f[n - 1], q[n]))]
<1>1. \E e : e = [n \in 0 .. Len(q) |->
                  IF n = 0 THEN <<>> ELSE 
                  (IF q[n] \in S THEN e[n - 1] ELSE Append(e[n - 1], q[n]))]
  <2>1. PICK e : IsLoop(e, "keep", S, <<>>, q, Len(q))
    BY LoopExists
  <2>2. e = [n \in 0 .. Len(q) |->
                  IF n = 0 THEN <<>> ELSE 
                  (IF q[n] \in S THEN e[n - 1] ELSE Append(e[n - 1], q[n]))]
    BY <2>1 DEF IsLoop, Turn
  <2> QED
    BY <2>2, Zenon
<1>2. f = [n \in 0 .. Len(q) |->
                  IF n = 0 THEN <<>> ELSE 
                  (IF q[n] \in S THEN f[n - 1] ELSE Append(f[n - 1], q[n]))]
  BY <1>1, Zenon
<1>3. Without(q, S) = f[Len(q)]
  BY DEF Without
<1> HIDE DEF f
<1>4. IsLoop(f, "keep", S, <<>>, q, Len(q))
  BY <1>2 DEF IsLoop, Turn
<1> QED
  BY <1>3, <1>4

\* Fl_OpButton::DisconnectAll
LEMMA DisconnectAllLoops ==
  ASSUME NEW y, NEW a, Len(y.connected_to[a]) \in Nat
  PROVE  \E f : /\ IsLoop(f, "button", a, y, y.connected_to[a], Len(y.connected_to[a]))
                /\ DisconnectAll(y, a) = f[Len(y.connected_to[a])]
<1> DEFINE f == CHOOSE f : f = [n \in 0 .. Len(y.connected_to[a]) |->
                  IF n = 0 THEN y ELSE Disconnect(f[n - 1], a, y.connected_to[a][n])]
<1>1. \E e : e = [n \in 0 .. Len(y.connected_to[a]) |->
                  IF n = 0 THEN y ELSE Disconnect(e[n - 1], a, y.connected_to[a][n])]
  <2>1. PICK e : IsLoop(e, "button", a, y, y.connected_to[a], Len(y.connected_to[a]))
    BY LoopExists
  <2>2. e = [n \in 0 .. Len(y.connected_to[a]) |->
                  IF n = 0 THEN y ELSE Disconnect(e[n - 1], a, y.connected_to[a][n])]
    BY <2>1 DEF IsLoop, Turn
  <2> QED
    BY <2>2, Zenon
<1>2. f = [n \in 0 .. Len(y.connected_to[a]) |->
                  IF n = 0 THEN y ELSE Disconnect(f[n - 1], a, y.connected_to[a][n])]
  BY <1>1, Zenon
<1>3. DisconnectAll(y, a) = f[Len(y.connected_to[a])]
  BY DEF DisconnectAll
<1> HIDE DEF f
<1>4. IsLoop(f, "button", a, y, y.connected_to[a], Len(y.connected_to[a]))
  BY <1>2 DEF IsLoop, Turn
<1> QED
  BY <1>3, <1>4

\* Fl_OpDesk::DisconnectAll
LEMMA DisconnectDeskLoops ==
  ASSUME NEW y, Len(y.connects) \in Nat
  PROVE  \E f : /\ IsLoop(f, "desk", 0, y, y.connects, Len(y.connects))
                /\ DisconnectDesk(y) = f[Len(y.connects)]
<1> DEFINE f == CHOOSE f : f = [n \in 0 .. Len(y.connects) |->
                  IF n = 0 THEN y ELSE 
                    Disconnect(f[n - 1], y.connects[n].src, y.connects[n].dst)]
<1>1. \E e : e = [n \in 0 .. Len(y.connects) |->
                  IF n = 0 THEN y ELSE 
                    Disconnect(e[n - 1], y.connects[n].src, y.connects[n].dst)]
  <2>1. PICK e : IsLoop(e, "desk", 0, y, y.connects, Len(y.connects))
    BY LoopExists
  <2>2. e = [n \in 0 .. Len(y.connects) |->
                  IF n = 0 THEN y ELSE 
                    Disconnect(e[n - 1], y.connects[n].src, y.connects[n].dst)]
    BY <2>1 DEF IsLoop, Turn
  <2> QED
    BY <2>2, Zenon
<1>2. f = [n \in 0 .. Len(y.connects) |->
                  IF n = 0 THEN y ELSE 
                    Disconnect(f[n - 1], y.connects[n].src, y.connects[n].dst)]
  BY <1>1, Zenon
<1>3. DisconnectDesk(y) = f[Len(y.connects)]
  BY DEF DisconnectDesk
<1> HIDE DEF f
<1>4. IsLoop(f, "desk", 0, y, y.connects, Len(y.connects))
  BY <1>2 DEF IsLoop, Turn
<1> QED
  BY <1>3, <1>4

\* Fl_OpDesk::Disconnect of a box
LEMMA DisconnectBoxLoops ==
  ASSUME NEW y, NEW box, Len(y.connects) \in Nat
  PROVE  \E f : /\ IsLoop(f, "box", box, y, y.connects, Len(y.connects))
                /\ DisconnectBox(y, box) = f[Len(y.connects)]
<1> DEFINE f == CHOOSE f : f = [n \in 0 .. Len(y.connects) |->
                  IF n = 0 THEN y ELSE 
                    (IF box \in {GetOpBox(y.connects[n].src), GetOpBox(y.connects[n].dst)}
                     THEN Disconnect(f[n - 1], y.connects[n].src, y.connects[n].dst)
                     ELSE f[n - 1])]
<1>1. \E e : e = [n \in 0 .. Len(y.connects) |->
                  IF n = 0 THEN y ELSE 
                    (IF box \in {GetOpBox(y.connects[n].src), GetOpBox(y.connects[n].dst)}
                     THEN Disconnect(e[n - 1], y.connects[n].src, y.connects[n].dst)
                     ELSE e[n - 1])]
  <2>1. PICK e : IsLoop(e, "box", box, y, y.connects, Len(y.connects))
    BY LoopExists
  <2>2. e = [n \in 0 .. Len(y.connects) |->
                  IF n = 0 THEN y ELSE 
                    (IF box \in {GetOpBox(y.connects[n].src), GetOpBox(y.connects[n].dst)}
                     THEN Disconnect(e[n - 1], y.connects[n].src, y.connects[n].dst)
                     ELSE e[n - 1])]
    BY <2>1 DEF IsLoop, Turn
  <2> QED
    BY <2>2, Zenon
<1>2. f = [n \in 0 .. Len(y.connects) |->
                  IF n = 0 THEN y ELSE 
                    (IF box \in {GetOpBox(y.connects[n].src), GetOpBox(y.connects[n].dst)}
                     THEN Disconnect(f[n - 1], y.connects[n].src, y.connects[n].dst)
                     ELSE f[n - 1])]
  BY <1>1, Zenon
<1>3. DisconnectBox(y, box) = f[Len(y.connects)]
  BY DEF DisconnectBox
<1> HIDE DEF f
<1>4. IsLoop(f, "box", box, y, y.connects, Len(y.connects))
  BY <1>2 DEF IsLoop, Turn
<1> QED
  BY <1>3, <1>4

\* Fl_OpDesk::DeleteSelected
LEMMA DeleteSelectedLoops ==
  ASSUME NEW y, NEW selected, Len(y.boxes) \in Nat
  PROVE  \E f : /\ IsLoop(f, "delete", selected, y, y.boxes, Len(y.boxes))
                /\ DeleteSelected(y, selected) = f[Len(y.boxes)]
<1> DEFINE f == CHOOSE f : f = [n \in 0 .. Len(y.boxes) |->
                  IF n = 0 THEN y ELSE 
                    (IF y.boxes[n] \in selected
                     THEN DeleteBox(f[n - 1], y.boxes[n]) ELSE f[n - 1])]
<1>1. \E e : e = [n \in 0 .. Len(y.boxes) |->
                  IF n = 0 THEN y ELSE 
                    (IF y.boxes[n] \in selected
                     THEN DeleteBox(e[n - 1], y.boxes[n]) ELSE e[n - 1])]
  <2>1. PICK e : IsLoop(e, "delete", selected, y, y.boxes, Len(y.boxes))
    BY LoopExists
  <2>2. e = [n \in 0 .. Len(y.boxes) |->
                  IF n = 0 THEN y ELSE 
                    (IF y.boxes[n] \in selected
                     THEN DeleteBox(e[n - 1], y.boxes[n]) ELSE e[n - 1])]
    BY <2>1 DEF IsLoop, Turn
  <2> QED
    BY <2>2, Zenon
<1>2. f = [n \in 0 .. Len(y.boxes) |->
                  IF n = 0 THEN y ELSE 
                    (IF y.boxes[n] \in selected
                     THEN DeleteBox(f[n - 1], y.boxes[n]) ELSE f[n - 1])]
  BY <1>1, Zenon
<1>3. DeleteSelected(y, selected) = f[Len(y.boxes)]
  BY DEF DeleteSelected
<1> HIDE DEF f
<1>4. IsLoop(f, "delete", selected, y, y.boxes, Len(y.boxes))
  BY <1>2 DEF IsLoop, Turn
<1> QED
  BY <1>3, <1>4

\* Fl_OpDesk::CopyConnections, for a button
LEMMA CopyButtonLoops ==
  ASSUME NEW y, NEW z, NEW a, NEW origs, NEW base, NEW ok, NEW moves, NEW left, Len(y.connected_to[a]) \in Nat
  PROVE  \E f : /\ IsLoop(f, "copy", <<y, a, origs, base, ok, moves, left>>, z, y.connected_to[a], Len(y.connected_to[a]))
                /\ CopyButton(y, z, a, origs, base, ok, moves, left) = f[Len(y.connected_to[a])]
<1> DEFINE f == CHOOSE f : f = [n \in 0 .. Len(y.connected_to[a]) |->
                  IF n = 0 THEN z ELSE 
                    CopyConnection(y, f[n - 1], a, y.connected_to[a][n], origs, base, ok,
                                   moves, left)]
<1>1. \E e : e = [n \in 0 .. Len(y.connected_to[a]) |->
                  IF n = 0 THEN z ELSE 
                    CopyConnection(y, e[n - 1], a, y.connected_to[a][n], origs, base, ok,
                                   moves, left)]
  <2>1. PICK e : IsLoop(e, "copy", <<y, a, origs, base, ok, moves, left>>, z, y.connected_to[a], Len(y.connected_to[a]))
    BY LoopExists
  <2>2. e = [n \in 0 .. Len(y.connected_to[a]) |->
                  IF n = 0 THEN z ELSE 
                    CopyConnection(y, e[n - 1], a, y.connected_to[a][n], origs, base, ok,
                                   moves, left)]
    BY <2>1 DEF IsLoop, Turn
  <2> QED
    BY <2>2, Zenon
<1>2. f = [n \in 0 .. Len(y.connected_to[a]) |->
                  IF n = 0 THEN z ELSE 
                    CopyConnection(y, f[n - 1], a, y.connected_to[a][n], origs, base, ok,
                                   moves, left)]
  BY <1>1, Zenon
<1>3. CopyButton(y, z, a, origs, base, ok, moves, left) = f[Len(y.connected_to[a])]
  BY DEF CopyButton
<1> HIDE DEF f
<1>4. IsLoop(f, "copy", <<y, a, origs, base, ok, moves, left>>, z, y.connected_to[a], Len(y.connected_to[a]))
  BY <1>2 DEF IsLoop, Turn
<1> QED
  BY <1>3, <1>4

\* Fl_OpDesk::CopyConnections, for all boxes
LEMMA CopyConnectionsLoops ==
  ASSUME NEW y, NEW origs, NEW base, NEW ok, NEW moves, NEW left, Len(origs) \in Nat
  PROVE  \E f : /\ IsLoop(f, "paste", <<y, origs, base, ok, moves, left>>, y, origs, Len(origs))
                /\ CopyConnections(y, origs, base, ok, moves, left) = f[Len(origs)]
<1> DEFINE f == CHOOSE f : f = [n \in 0 .. Len(origs) |->
                  IF n = 0 THEN y ELSE 
                    CopyButton(y, CopyButton(y, f[n - 1], <<origs[n], "in">>, origs, base,
                                             ok, moves, left),
                               <<origs[n], "out">>, origs, base, ok, moves, left)]
<1>1. \E e : e = [n \in 0 .. Len(origs) |->
                  IF n = 0 THEN y ELSE 
                    CopyButton(y, CopyButton(y, e[n - 1], <<origs[n], "in">>, origs, base,
                                             ok, moves, left),
                               <<origs[n], "out">>, origs, base, ok, moves, left)]
  <2>1. PICK e : IsLoop(e, "paste", <<y, origs, base, ok, moves, left>>, y, origs, Len(origs))
    BY LoopExists
  <2>2. e = [n \in 0 .. Len(origs) |->
                  IF n = 0 THEN y ELSE 
                    CopyButton(y, CopyButton(y, e[n - 1], <<origs[n], "in">>, origs, base,
                                             ok, moves, left),
                               <<origs[n], "out">>, origs, base, ok, moves, left)]
    BY <2>1 DEF IsLoop, Turn
  <2> QED
    BY <2>2, Zenon
<1>2. f = [n \in 0 .. Len(origs) |->
                  IF n = 0 THEN y ELSE 
                    CopyButton(y, CopyButton(y, f[n - 1], <<origs[n], "in">>, origs, base,
                                             ok, moves, left),
                               <<origs[n], "out">>, origs, base, ok, moves, left)]
  BY <1>1, Zenon
<1>3. CopyConnections(y, origs, base, ok, moves, left) = f[Len(origs)]
  BY DEF CopyConnections
<1> HIDE DEF f
<1>4. IsLoop(f, "paste", <<y, origs, base, ok, moves, left>>, y, origs, Len(origs))
  BY <1>2 DEF IsLoop, Turn
<1> QED
  BY <1>3, <1>4

\* ~Fl_OpBox, for every box to be freed
LEMMA FreeWidgetsLoops ==
  ASSUME NEW y, Len(SetToSeq(y.doomed)) \in Nat
  PROVE  \E f : /\ IsLoop(f, "free", 0, y, SetToSeq(y.doomed), Len(SetToSeq(y.doomed)))
                /\ FreeWidgets(y) =
                     [f[Len(SetToSeq(y.doomed))] EXCEPT
                        !.doomed = {}, !.alive = @ \ ButtonsOf(y.doomed),
                        !.pushed = IF GetOpBox(@) \in y.doomed THEN NoButton ELSE @]
<1> DEFINE f == CHOOSE f : f = [n \in 0 .. Len(SetToSeq(y.doomed)) |->
                  IF n = 0 THEN y ELSE 
                    _RemoveBox(DisconnectBox(f[n - 1], SetToSeq(y.doomed)[n]),
                               SetToSeq(y.doomed)[n])]
<1>1. \E e : e = [n \in 0 .. Len(SetToSeq(y.doomed)) |->
                  IF n = 0 THEN y ELSE 
                    _RemoveBox(DisconnectBox(e[n - 1], SetToSeq(y.doomed)[n]),
                               SetToSeq(y.doomed)[n])]
  <2>1. PICK e : IsLoop(e, "free", 0, y, SetToSeq(y.doomed), Len(SetToSeq(y.doomed)))
    BY LoopExists
  <2>2. e = [n \in 0 .. Len(SetToSeq(y.doomed)) |->
                  IF n = 0 THEN y ELSE 
                    _RemoveBox(DisconnectBox(e[n - 1], SetToSeq(y.doomed)[n]),
                               SetToSeq(y.doomed)[n])]
    BY <2>1 DEF IsLoop, Turn
  <2> QED
    BY <2>2, Zenon
<1>2. f = [n \in 0 .. Len(SetToSeq(y.doomed)) |->
                  IF n = 0 THEN y ELSE 
                    _RemoveBox(DisconnectBox(f[n - 1], SetToSeq(y.doomed)[n]),
                               SetToSeq(y.doomed)[n])]
  BY <1>1, Zenon
<1>3. FreeWidgets(y) =
                     [f[Len(SetToSeq(y.doomed))] EXCEPT
                        !.doomed = {}, !.alive = @ \ ButtonsOf(y.doomed),
                        !.pushed = IF GetOpBox(@) \in y.doomed THEN NoButton ELSE @]
  BY DEF FreeWidgets
<1> HIDE DEF f
<1>4. IsLoop(f, "free", 0, y, SetToSeq(y.doomed), Len(SetToSeq(y.doomed)))
  BY <1>2 DEF IsLoop, Turn
<1> QED
  BY <1>3, <1>4

----------------------------------------------------------------------------
(* Vectors                                                                 *)

\* The members of r are members of q, each from a place of its own.
Embeds(r, q) ==
  \E f \in [1 .. Len(r) -> 1 .. Len(q)] :
    \A i, j \in 1 .. Len(r) : r[i] = q[f[i]] /\ (f[i] = f[j] => i = j)

\* r has the first k members of q that are not in S.
Part(r, q, S, k) ==
  /\ \E f \in [1 .. Len(r) -> 1 .. k] :
       \A i, j \in 1 .. Len(r) : r[i] = q[f[i]] /\ (f[i] = f[j] => i = j)
  /\ \A i \in 1 .. Len(r) : r[i] \notin S
  /\ \A n \in 1 .. k : q[n] \notin S => \E i \in 1 .. Len(r) : r[i] = q[n]
  /\ k # 0 /\ q[k] \notin S => r # <<>> /\ r[Len(r)] = q[k]

LEMMA PartStep ==
  ASSUME NEW T, NEW q \in Seq(T), NEW S, NEW k \in 1 .. Len(q),
         NEW r \in Seq(T), Part(r, q, S, k - 1)
  PROVE  /\ Turn("keep", S, r, q[k]) \in Seq(T)
         /\ Part(Turn("keep", S, r, q[k]), q, S, k)
<1>1. PICK f \in [1 .. Len(r) -> 1 .. k - 1] :
        \A i, j \in 1 .. Len(r) : r[i] = q[f[i]] /\ (f[i] = f[j] => i = j)
  BY DEF Part
<1>2. k \in Nat /\ Len(q) \in Nat /\ q[k] \in T /\ Len(r) \in Nat
  OBVIOUS
<1>3. CASE q[k] \in S
  <2>1. Turn("keep", S, r, q[k]) = r
    BY <1>3 DEF Turn
  <2>2. f \in [1 .. Len(r) -> 1 .. k]
    BY <1>1, <1>2
  <2>3. \A n \in 1 .. k : q[n] \notin S => n \in 1 .. k - 1
    BY <1>2, <1>3
  <2>4. \E g \in [1 .. Len(r) -> 1 .. k] :
          \A i, j \in 1 .. Len(r) : r[i] = q[g[i]] /\ (g[i] = g[j] => i = j)
    BY <1>1, <2>2
  <2>5. \A n \in 1 .. k : q[n] \notin S => \E i \in 1 .. Len(r) : r[i] = q[n]
    BY <2>3 DEF Part
  <2>6. \A i \in 1 .. Len(r) : r[i] \notin S
    BY DEF Part
  <2>7. Part(r, q, S, k)
    BY ONLY <1>3, <2>4, <2>5, <2>6, Zenon DEF Part
  <2> QED
    BY <2>1, <2>7
<1>4. CASE q[k] \notin S
  <2> DEFINE a == Append(r, q[k])
             g == [i \in 1 .. Len(r) + 1 |-> IF i = Len(r) + 1 THEN k ELSE f[i]]
  <2>1. Turn("keep", S, r, q[k]) = a
    BY <1>4 DEF Turn
  <2>2. /\ a \in Seq(T) /\ Len(a) = Len(r) + 1 /\ a[Len(r) + 1] = q[k] /\ a # <<>>
        /\ \A i \in 1 .. Len(r) : a[i] = r[i]
    BY <1>2
  <2>3. \A i \in 1 .. Len(r) + 1 : i # Len(r) + 1 => i \in 1 .. Len(r)
    BY <1>2
  <2>4. \A i \in 1 .. Len(r) : f[i] \in 1 .. k /\ f[i] # k /\ i \in 1 .. Len(r) + 1
    BY <1>1, <1>2
  <2>5. g \in [1 .. Len(r) + 1 -> 1 .. k]
    BY <1>2, <2>3, <2>4
  <2>6. /\ g[Len(r) + 1] = k /\ Len(r) + 1 \in 1 .. Len(r) + 1
        /\ \A i \in 1 .. Len(r) : g[i] = f[i] /\ i # Len(r) + 1
    BY <1>2, <2>4
  <2> HIDE DEF g, a
  <2>7. \A i, j \in 1 .. Len(a) : a[i] = q[g[i]] /\ (g[i] = g[j] => i = j)
    BY <1>1, <2>2, <2>3, <2>4, <2>6, SMTT(30)
  <2>8. \A i \in 1 .. Len(a) : a[i] \notin S
    BY <1>4, <2>2, <2>3 DEF Part
  <2>9. ASSUME NEW n \in 1 .. k, q[n] \notin S PROVE \E i \in 1 .. Len(a) : a[i] = q[n]
    <3>1. CASE n = k
      BY <2>2, <2>6, <3>1
    <3>2. CASE n # k
      <4>1. n \in 1 .. k - 1
        BY <1>2, <3>2
      <4>2. PICK i \in 1 .. Len(r) : r[i] = q[n]
        BY <2>9, <4>1 DEF Part
      <4> QED
        BY <2>2, <2>4, <4>2
    <3> QED
      BY <3>1, <3>2
  <2>10. \E h \in [1 .. Len(a) -> 1 .. k] :
           \A i, j \in 1 .. Len(a) : a[i] = q[h[i]] /\ (h[i] = h[j] => i = j)
    BY <2>2, <2>5, <2>7
  <2>11. a # <<>> /\ a[Len(a)] = q[k]
    BY <2>2
  <2>12. Part(a, q, S, k)
    BY ONLY <2>8, <2>9, <2>10, <2>11, Zenon DEF Part
  <2> QED
    BY <2>1, <2>2, <2>12
<1> QED
  BY <1>3, <1>4

\* r is q without the members of S, in the same order.
IsWithout(r, q, S) ==
  /\ Embeds(r, q)
  /\ \A e : e \in Range(r) <=> e \in Range(q) /\ e \notin S
  /\ q # <<>> /\ q[Len(q)] \notin S => r # <<>> /\ r[Len(r)] = q[Len(q)]

LEMMA RangeOf ==
  ASSUME NEW T, NEW s \in Seq(T)
  PROVE  /\ DOMAIN s = 1 .. Len(s) /\ Len(s) \in Nat
         /\ \A e : e \in Range(s) <=> \E i \in 1 .. Len(s) : s[i] = e
         /\ Range(s) \subseteq T
BY DEF Range

LEMMA WithoutIs ==
  ASSUME NEW T, NEW q \in Seq(T), NEW S
  PROVE  Without(q, S) \in Seq(T) /\ IsWithout(Without(q, S), q, S)
<1>1. Len(q) \in Nat
  OBVIOUS
<1>2. PICK f : IsLoop(f, "keep", S, <<>>, q, Len(q)) /\ Without(q, S) = f[Len(q)]
  BY <1>1, WithoutLoops
<1>3. \A k \in 0 .. Len(q) :
        f[k] = IF k = 0 THEN <<>> ELSE Turn("keep", S, f[k - 1], q[k])
  BY <1>2 DEF IsLoop
<1> DEFINE B == {k \in 0 .. Len(q) : f[k] \in Seq(T) /\ Part(f[k], q, S, k)}
<1>4. 0 \in B
  <2>1. f[0] = <<>>
    BY <1>1, <1>3
  <2>2. <<>> \in Seq(T) /\ Len(<<>>) = 0
    OBVIOUS
  <2>3. Part(<<>>, q, S, 0)
    <3>1. [i \in 1 .. 0 |-> 1] \in [1 .. 0 -> 1 .. 0]
      OBVIOUS
    <3>2. \A i \in 1 .. 0 : FALSE
      OBVIOUS
    <3> QED
      BY <2>2, <3>1, <3>2 DEF Part
  <2>4. f[0] \in Seq(T) /\ Part(f[0], q, S, 0)
    BY <2>1, <2>2, <2>3, Zenon
  <2> QED
    BY <1>1, <2>4
<1>5. ASSUME NEW k \in 1 .. Len(q), k - 1 \in B PROVE k \in B
  <2>1. k \in 0 .. Len(q) /\ f[k] = Turn("keep", S, f[k - 1], q[k])
    BY <1>1, <1>3
  <2> QED
    BY <1>5, <2>1, PartStep
<1>6. Len(q) \in B
  <2>1. \A k \in 1 .. Len(q) : k - 1 \in B => k \in B
    BY <1>5
  <2>2. Len(q) \in 0 .. Len(q)
    BY <1>1
  <2> HIDE DEF B
  <2> QED
    BY <1>1, <1>4, <2>1, <2>2, UpTo
<1> DEFINE r == Without(q, S)
<1>7. r \in Seq(T) /\ Part(r, q, S, Len(q))
  BY <1>2, <1>6
<1> HIDE DEF r
<1>8. Embeds(r, q)
  BY <1>7 DEF Part, Embeds
<1>9. ASSUME NEW e PROVE e \in Range(r) <=> e \in Range(q) /\ e \notin S
  <2>1. ASSUME e \in Range(r) PROVE e \in Range(q) /\ e \notin S
    <3>1. PICK i \in 1 .. Len(r) : r[i] = e
      BY <1>7, <2>1, RangeOf
    <3>2. PICK g \in [1 .. Len(r) -> 1 .. Len(q)] :
            \A j, k \in 1 .. Len(r) : r[j] = q[g[j]] /\ (g[j] = g[k] => j = k)
      BY <1>8 DEF Embeds
    <3>3. g[i] \in 1 .. Len(q) /\ q[g[i]] = e
      BY <3>1, <3>2
    <3> QED
      BY <1>7, <3>1, <3>3, RangeOf DEF Part
  <2>2. ASSUME e \in Range(q), e \notin S PROVE e \in Range(r)
    <3>1. PICK n \in 1 .. Len(q) : q[n] = e
      BY <2>2, RangeOf
    <3> QED
      BY <1>7, <2>2, <3>1, RangeOf DEF Part
  <2> QED
    BY <2>1, <2>2
<1>10. q # <<>> /\ q[Len(q)] \notin S => r # <<>> /\ r[Len(r)] = q[Len(q)]
  <2>1. q # <<>> => Len(q) # 0
    OBVIOUS
  <2> QED
    BY <1>7, <2>1 DEF Part
<1> QED
  BY <1>7, <1>8, <1>9, <1>10 DEF IsWithout, r

LEMMA EmbedsSelf ==
  ASSUME NEW T, NEW q \in Seq(T)
  PROVE  Embeds(q, q)
<1>1. Len(q) \in Nat
  OBVIOUS
<1> DEFINE f == [i \in 1 .. Len(q) |-> i]
<1>2. f \in [1 .. Len(q) -> 1 .. Len(q)]
  OBVIOUS
<1>3. \A i, j \in 1 .. Len(q) : q[i] = q[f[i]] /\ (f[i] = f[j] => i = j)
  OBVIOUS
<1> QED
  BY <1>2, <1>3 DEF Embeds

LEMMA EmbedsTrans ==
  ASSUME NEW r, NEW q, NEW s, Embeds(r, q), Embeds(q, s)
  PROVE  Embeds(r, s)
<1>1. PICK f \in [1 .. Len(r) -> 1 .. Len(q)] :
        \A i, j \in 1 .. Len(r) : r[i] = q[f[i]] /\ (f[i] = f[j] => i = j)
  BY DEF Embeds
<1>2. PICK g \in [1 .. Len(q) -> 1 .. Len(s)] :
        \A i, j \in 1 .. Len(q) : q[i] = s[g[i]] /\ (g[i] = g[j] => i = j)
  BY DEF Embeds
<1> DEFINE h == [i \in 1 .. Len(r) |-> g[f[i]]]
<1>3. h \in [1 .. Len(r) -> 1 .. Len(s)]
  BY <1>1, <1>2
<1>4. \A i, j \in 1 .. Len(r) : r[i] = s[h[i]] /\ (h[i] = h[j] => i = j)
  BY <1>1, <1>2
<1> QED
  BY <1>3, <1>4 DEF Embeds

Distinct(s) == \A i, j \in 1 .. Len(s) : s[i] = s[j] => i = j

\* No two connections of the same two buttons.
DistinctPairs(s) ==
  \A i, j \in 1 .. Len(s) : AreConnected(s[i], s[j].src, s[j].dst) => i = j

Single(s) == \A i, j \in 1 .. Len(s) : i = j

LEMMA EmbedsKeeps ==
  ASSUME NEW r, NEW q, Embeds(r, q)
  PROVE  /\ Distinct(q) => Distinct(r)
         /\ DistinctPairs(q) => DistinctPairs(r)
         /\ Single(q) => Single(r)
<1>1. PICK f \in [1 .. Len(r) -> 1 .. Len(q)] :
        \A i, j \in 1 .. Len(r) : r[i] = q[f[i]] /\ (f[i] = f[j] => i = j)
  BY DEF Embeds
<1>2. \A i \in 1 .. Len(r) : f[i] \in 1 .. Len(q)
  BY <1>1
<1>3. Distinct(q) => Distinct(r)
  BY <1>1, <1>2 DEF Distinct
<1>4. DistinctPairs(q) => DistinctPairs(r)
  BY <1>1, <1>2 DEF DistinctPairs
<1>5. Single(q) => Single(r)
  BY <1>1, <1>2 DEF Single
<1> QED
  BY <1>3, <1>4, <1>5

----------------------------------------------------------------------------
(* Disconnecting                                                           *)

In(y, a, b) == b \in Range(y.connected_to[a])

Pair(c) == {c.src, c.dst}

Connections == [src : Buttons, dst : Buttons, color : Colors]

\* Only the records of connections differ.
SameDesk(y, z) ==
  /\ z.made = y.made /\ z.boxes = y.boxes /\ z.box_clipboard = y.box_clipboard
  /\ z.doomed = y.doomed /\ z.alive = y.alive /\ z.pushed = y.pushed
  /\ z.pasted = y.pasted /\ z.moved = y.moved

LEMMA StateFacts ==
  ASSUME NEW y, y \in StateType
  PROVE  /\ y.made \in 0 .. MaxBoxes
         /\ y.boxes \in Seq(Boxes) /\ y.box_clipboard \in Seq(Boxes)
         /\ y.doomed \in SUBSET Boxes /\ y.alive \in SUBSET Buttons
         /\ y.connected_to \in [Buttons -> Seq(Buttons)]
         /\ \A a \in Buttons : y.connected_to[a] \in Seq(Buttons)
         /\ y.connects \in Seq(Connections)
         /\ y.pushed \in Buttons \cup {NoButton}
         /\ y.pasted \in Seq(Boxes \X Boxes) /\ y.moved \in BOOLEAN
         /\ y.redone \in SUBSET (Buttons \X Buttons)
BY DEF StateType, Connections

LEMMA ConnectionFacts ==
  ASSUME NEW c, c \in Connections
  PROVE  c.src \in Buttons /\ c.dst \in Buttons /\ c.color \in Colors
BY DEF Connections

LEMMA ConnectsFacts ==
  ASSUME NEW y, y \in StateType
  PROVE  /\ \A c \in Range(y.connects) : /\ c \in Connections
                                         /\ c.src \in Buttons /\ c.dst \in Buttons
         /\ Len(y.connects) \in Nat
         /\ \A i \in 1 .. Len(y.connects) : /\ y.connects[i] \in Range(y.connects)
                                            /\ y.connects[i] \in Connections
<1>1. y.connects \in Seq(Connections)
  BY StateFacts
<1>2. /\ \A e : e \in Range(y.connects) <=>
                  \E i \in 1 .. Len(y.connects) : y.connects[i] = e
      /\ Range(y.connects) \subseteq Connections /\ Len(y.connects) \in Nat
  BY <1>1, RangeOf
<1> QED
  BY <1>2, ConnectionFacts

\* From y to z the two lists of a lose b.
Trimmed(y, z, a, b) ==
  /\ z \in StateType /\ SameDesk(y, z)
  /\ z.connects = y.connects /\ z.redone = y.redone
  /\ \A p \in Buttons : Embeds(z.connected_to[p], y.connected_to[p])
  /\ \A p, q \in Buttons : In(z, p, q) <=> In(y, p, q) /\ ~(p = a /\ q = b)

LEMMA RemoveConnectTrims ==
  ASSUME NEW y, y \in StateType, NEW a \in Buttons, NEW b \in Buttons
  PROVE  Trimmed(y, _RemoveConnect(y, a, b), a, b)
<1>1. PICK w : w = Without(y.connected_to[a], {b})
  OBVIOUS
<1>2. y.connected_to[a] \in Seq(Buttons)
  BY StateFacts
<1>3. w \in Seq(Buttons) /\ IsWithout(w, y.connected_to[a], {b})
  BY <1>1, <1>2, WithoutIs
<1>4. PICK z : z = _RemoveConnect(y, a, b)
  OBVIOUS
<1>5. z = [y EXCEPT !.connected_to[a] = w]
  BY <1>1, <1>4 DEF _RemoveConnect
<1>6. /\ z \in StateType /\ SameDesk(y, z)
      /\ z.connects = y.connects /\ z.redone = y.redone
      /\ z.connected_to[a] = w
      /\ \A p \in Buttons : p # a => z.connected_to[p] = y.connected_to[p]
  BY <1>3, <1>5 DEF StateType, SameDesk
<1>7. ASSUME NEW p \in Buttons PROVE Embeds(z.connected_to[p], y.connected_to[p])
  <2>1. y.connected_to[p] \in Seq(Buttons)
    BY StateFacts
  <2> QED
    BY <1>3, <1>6, <2>1, EmbedsSelf DEF IsWithout
<1>8. ASSUME NEW p \in Buttons, NEW q \in Buttons
      PROVE  In(z, p, q) <=> In(y, p, q) /\ ~(p = a /\ q = b)
  <2>1. CASE p = a
    BY <1>3, <1>6, <2>1 DEF In, IsWithout
  <2>2. CASE p # a
    BY <1>6, <2>2 DEF In
  <2> QED
    BY <2>1, <2>2
<1> QED
  BY <1>4, <1>6, <1>7, <1>8 DEF Trimmed

\* The last connection of y, unless it is one of the pairs in P, is the last of z.
KeepsLast(y, z, P) ==
  y.connects # <<>> /\ Pair(y.connects[Len(y.connects)]) \notin P
    => /\ z.connects # <<>>
       /\ z.connects[Len(z.connects)] = y.connects[Len(y.connects)]

\* From y to z the connections of the pairs in P are gone, from all three records.
Cut(y, z, P) ==
  /\ z \in StateType /\ SameDesk(y, z)
  /\ \A p \in Buttons : Embeds(z.connected_to[p], y.connected_to[p])
  /\ \A p, q \in Buttons : In(z, p, q) <=> In(y, p, q) /\ {p, q} \notin P
  /\ Embeds(z.connects, y.connects)
  /\ \A c : c \in Range(z.connects) <=> c \in Range(y.connects) /\ Pair(c) \notin P
  /\ \A p, q : <<p, q>> \in z.redone <=> <<p, q>> \in y.redone /\ {p, q} \notin P
  /\ KeepsLast(y, z, P)

LEMMA PairsEqual ==
  ASSUME NEW a, NEW b, NEW p, NEW q
  PROVE  {p, q} = {a, b} <=> (p = a /\ q = b) \/ (p = b /\ q = a)
<1>1. ASSUME {p, q} = {a, b} PROVE (p = a /\ q = b) \/ (p = b /\ q = a)
  <2>1. p \in {a, b} /\ q \in {a, b} /\ a \in {p, q} /\ b \in {p, q}
    BY <1>1
  <2> QED
    BY <2>1
<1>2. ASSUME (p = a /\ q = b) \/ (p = b /\ q = a) PROVE {p, q} = {a, b}
  BY <1>2
<1> QED
  BY <1>1, <1>2

LEMMA DisconnectCuts ==
  ASSUME NEW y, y \in StateType, NEW a \in Buttons, NEW b \in Buttons
  PROVE  Cut(y, Disconnect(y, a, b), {{a, b}})
<1>1. PICK u : u = _RemoveConnect(y, a, b)
  OBVIOUS
<1>2. Trimmed(y, u, a, b)
  BY <1>1, RemoveConnectTrims
<1>3. PICK v : v = _RemoveConnect(u, b, a)
  OBVIOUS
<1>4. Trimmed(u, v, b, a)
  <2>1. u \in StateType
    BY <1>2 DEF Trimmed
  <2> QED
    BY <1>3, <2>1, RemoveConnectTrims
<1>5. PICK S : S = {c \in Range(v.connects) : AreConnected(c, a, b)}
  OBVIOUS
<1>6. PICK w : w = Without(v.connects, S)
  OBVIOUS
<1>7. v \in StateType /\ v.connects \in Seq(Connections) /\ v.connects = y.connects
  BY <1>2, <1>4, StateFacts DEF Trimmed
<1>8. w \in Seq(Connections) /\ IsWithout(w, v.connects, S)
  BY <1>6, <1>7, WithoutIs
<1>9. PICK z : z = Disconnect(y, a, b)
  OBVIOUS
<1>18. PICK o : o = v.redone \ {<<a, b>>, <<b, a>>}
  OBVIOUS
<1>10. z = [v EXCEPT !.connects = w, !.redone = o]
  BY <1>1, <1>3, <1>5, <1>6, <1>9, <1>18 DEF Disconnect, _DisconnectOnly
<1>11. /\ z \in StateType /\ SameDesk(v, z) /\ z.connects = w
       /\ z.connected_to = v.connected_to /\ z.redone = o
  <2>1. o \in SUBSET (Buttons \X Buttons)
    BY <1>7, <1>18, StateFacts
  <2> QED
    BY <1>7, <1>8, <1>10, <2>1 DEF StateType, SameDesk, Connections
<1>19. ASSUME NEW p, NEW q
       PROVE  <<p, q>> \in z.redone <=> <<p, q>> \in y.redone /\ {p, q} \notin {{a, b}}
  <2>1. v.redone = y.redone
    BY <1>2, <1>4 DEF Trimmed
  <2>2. <<p, q>> \in {<<a, b>>, <<b, a>>} <=> {p, q} = {a, b}
    BY PairsEqual
  <2> QED
    BY <1>11, <1>18, <2>1, <2>2
<1>12. SameDesk(y, z)
  BY <1>2, <1>4, <1>11 DEF SameDesk, Trimmed
<1>13. ASSUME NEW p \in Buttons PROVE Embeds(z.connected_to[p], y.connected_to[p])
  <2>1. Embeds(v.connected_to[p], u.connected_to[p])
    BY <1>4 DEF Trimmed
  <2>2. Embeds(u.connected_to[p], y.connected_to[p])
    BY <1>2 DEF Trimmed
  <2> QED
    BY <1>11, <2>1, <2>2, EmbedsTrans
<1>14. ASSUME NEW p \in Buttons, NEW q \in Buttons
       PROVE  In(z, p, q) <=> In(y, p, q) /\ {p, q} \notin {{a, b}}
  <2>1. In(z, p, q) <=> In(v, p, q)
    BY <1>11 DEF In
  <2>2. In(v, p, q) <=> In(u, p, q) /\ ~(p = b /\ q = a)
    BY <1>4 DEF Trimmed
  <2>3. In(u, p, q) <=> In(y, p, q) /\ ~(p = a /\ q = b)
    BY <1>2 DEF Trimmed
  <2>4. {p, q} \notin {{a, b}} <=> {p, q} # {a, b}
    OBVIOUS
  <2> QED
    BY <2>1, <2>2, <2>3, <2>4, PairsEqual
<1>15. Embeds(z.connects, y.connects)
  BY <1>7, <1>8, <1>11 DEF IsWithout
<1>16. ASSUME NEW c
       PROVE  c \in Range(z.connects) <=> c \in Range(y.connects) /\ Pair(c) \notin {{a, b}}
  <2>1. c \in Range(z.connects) <=> c \in Range(y.connects) /\ c \notin S
    BY <1>7, <1>8, <1>11 DEF IsWithout
  <2>2. c \in Range(y.connects) => (c \in S <=> Pair(c) = {a, b})
    BY <1>5, <1>7 DEF AreConnected, Pair
  <2> QED
    BY <2>1, <2>2
<1>17. KeepsLast(y, z, {{a, b}})
  <2>1. ASSUME y.connects # <<>>, Pair(y.connects[Len(y.connects)]) \notin {{a, b}}
        PROVE  y.connects[Len(y.connects)] \notin S
    BY <1>5, <2>1 DEF AreConnected, Pair
  <2> QED
    BY <1>7, <1>8, <1>11, <2>1 DEF IsWithout, KeepsLast
<1> QED
  BY <1>9, <1>11, <1>12, <1>13, <1>14, <1>15, <1>16, <1>17, <1>19 DEF Cut

LEMMA CutNone ==
  ASSUME NEW y, y \in StateType
  PROVE  Cut(y, y, {})
<1>1. \A p \in Buttons : Embeds(y.connected_to[p], y.connected_to[p])
  BY StateFacts, EmbedsSelf
<1>2. Embeds(y.connects, y.connects)
  BY StateFacts, EmbedsSelf
<1> QED
  BY <1>1, <1>2 DEF Cut, SameDesk, KeepsLast

LEMMA CutTrans ==
  ASSUME NEW x0, NEW y, NEW z, NEW P, NEW Q, Cut(x0, y, P), Cut(y, z, Q)
  PROVE  Cut(x0, z, P \cup Q)
<1>1. z \in StateType /\ SameDesk(x0, z)
  BY DEF Cut, SameDesk
<1>2. ASSUME NEW p \in Buttons PROVE Embeds(z.connected_to[p], x0.connected_to[p])
  <2>1. Embeds(z.connected_to[p], y.connected_to[p])
    BY DEF Cut
  <2>2. Embeds(y.connected_to[p], x0.connected_to[p])
    BY DEF Cut
  <2> QED
    BY <2>1, <2>2, EmbedsTrans
<1>3. ASSUME NEW p \in Buttons, NEW q \in Buttons
      PROVE  In(z, p, q) <=> In(x0, p, q) /\ {p, q} \notin P \cup Q
  <2>1. In(z, p, q) <=> In(y, p, q) /\ {p, q} \notin Q
    BY DEF Cut
  <2>2. In(y, p, q) <=> In(x0, p, q) /\ {p, q} \notin P
    BY DEF Cut
  <2> QED
    BY <2>1, <2>2
<1>4. Embeds(z.connects, x0.connects)
  BY EmbedsTrans DEF Cut
<1>5. \A c : c \in Range(z.connects) <=> c \in Range(x0.connects) /\ Pair(c) \notin P \cup Q
  BY DEF Cut
<1>6. KeepsLast(x0, z, P \cup Q)
  BY DEF Cut, KeepsLast
<1>7. ASSUME NEW p, NEW q
      PROVE  <<p, q>> \in z.redone <=> <<p, q>> \in x0.redone /\ {p, q} \notin P \cup Q
  BY DEF Cut
<1> QED
  BY <1>1, <1>2, <1>3, <1>4, <1>5, <1>6, <1>7 DEF Cut

LEMMA DisconnectAllCuts ==
  ASSUME NEW y, y \in StateType, NEW a \in Buttons
  PROVE  Cut(y, DisconnectAll(y, a), {{a, b} : b \in Range(y.connected_to[a])})
<1>1. PICK s : s = y.connected_to[a]
  OBVIOUS
<1>2. s \in Seq(Buttons) /\ Len(s) \in Nat
  BY <1>1, StateFacts
<1>3. PICK f : IsLoop(f, "button", a, y, s, Len(s)) /\ DisconnectAll(y, a) = f[Len(s)]
  BY <1>1, <1>2, DisconnectAllLoops
<1>4. \A k \in 0 .. Len(s) : f[k] = IF k = 0 THEN y ELSE Turn("button", a, f[k - 1], s[k])
  BY <1>3 DEF IsLoop
<1> DEFINE P(k) == {{a, s[i]} : i \in 1 .. k}
           B == {k \in 0 .. Len(s) : Cut(y, f[k], P(k))}
<1>5. 0 \in B
  <2>1. P(0) = {} /\ f[0] = y
    BY <1>2, <1>4
  <2>2. Cut(y, y, {})
    BY CutNone
  <2>3. Cut(y, f[0], P(0))
    BY <2>1, <2>2
  <2> QED
    BY <1>2, <2>3
<1>6. ASSUME NEW k \in 1 .. Len(s), k - 1 \in B PROVE k \in B
  <2>1. k \in 0 .. Len(s) /\ f[k] = Disconnect(f[k - 1], a, s[k]) /\ s[k] \in Buttons
    BY <1>2, <1>4 DEF Turn
  <2>2. Cut(y, f[k - 1], P(k - 1))
    BY <1>6
  <2>3. Cut(f[k - 1], f[k], {{a, s[k]}})
    <3>1. f[k - 1] \in StateType
      BY <2>2 DEF Cut
    <3>2. Cut(f[k - 1], Disconnect(f[k - 1], a, s[k]), {{a, s[k]}})
      BY <2>1, <3>1, DisconnectCuts
    <3> QED
      BY <2>1, <3>2
  <2>4. P(k) = P(k - 1) \cup {{a, s[k]}}
    <3>1. \A i \in 1 .. k : i \in 1 .. k - 1 \/ i = k
      BY <1>2
    <3>2. k \in 1 .. k /\ \A i \in 1 .. k - 1 : i \in 1 .. k
      BY <1>2
    <3> QED
      BY <3>1, <3>2
  <2>5. Cut(y, f[k], P(k - 1) \cup {{a, s[k]}})
    BY <2>2, <2>3, CutTrans
  <2> QED
    BY <2>1, <2>4, <2>5
<1>7. Len(s) \in B
  <2>1. \A k \in 1 .. Len(s) : k - 1 \in B => k \in B
    BY <1>6
  <2>2. Len(s) \in 0 .. Len(s)
    BY <1>2
  <2> HIDE DEF B
  <2> QED
    BY <1>2, <1>5, <2>1, <2>2, UpTo
<1>8. P(Len(s)) = {{a, b} : b \in Range(s)}
  <2>1. \A e : e \in Range(s) <=> \E i \in 1 .. Len(s) : s[i] = e
    BY <1>2, RangeOf
  <2>2. ASSUME NEW e PROVE e \in P(Len(s)) <=> e \in {{a, b} : b \in Range(s)}
    BY <2>1, Zenon
  <2> QED
    BY <2>2, Zenon
<1> QED
  BY <1>1, <1>3, <1>7, <1>8

Touches(c, box) == box \in {GetOpBox(c.src), GetOpBox(c.dst)}

LEMMA DisconnectBoxCuts ==
  ASSUME NEW y, y \in StateType, NEW box
  PROVE  Cut(y, DisconnectBox(y, box),
             {Pair(c) : c \in {d \in Range(y.connects) : Touches(d, box)}})
<1>1. PICK s : s = y.connects
  OBVIOUS
<1>2. s \in Seq(Connections) /\ Len(s) \in Nat
  BY <1>1, StateFacts
<1>3. PICK f : IsLoop(f, "box", box, y, s, Len(s)) /\ DisconnectBox(y, box) = f[Len(s)]
  BY <1>1, <1>2, DisconnectBoxLoops
<1>4. \A k \in 0 .. Len(s) : f[k] = IF k = 0 THEN y ELSE Turn("box", box, f[k - 1], s[k])
  BY <1>3 DEF IsLoop
<1> DEFINE P(k) == {Pair(s[i]) : i \in {j \in 1 .. k : Touches(s[j], box)}}
           B == {k \in 0 .. Len(s) : Cut(y, f[k], P(k))}
<1>5. 0 \in B
  <2>1. P(0) = {} /\ f[0] = y
    BY <1>2, <1>4
  <2>2. Cut(y, y, {})
    BY CutNone
  <2>3. Cut(y, f[0], P(0))
    BY <2>1, <2>2
  <2> QED
    BY <1>2, <2>3
<1>6. ASSUME NEW k \in 1 .. Len(s), k - 1 \in B PROVE k \in B
  <2>1. /\ k \in 0 .. Len(s) /\ s[k] \in Connections
        /\ f[k] = IF Touches(s[k], box) THEN Disconnect(f[k - 1], s[k].src, s[k].dst)
                  ELSE f[k - 1]
    BY <1>2, <1>4 DEF Turn, Touches
  <2>2. Cut(y, f[k - 1], P(k - 1))
    BY <1>6
  <2>3. \A i \in 1 .. k : i \in 1 .. k - 1 \/ i = k
    BY <1>2
  <2>4. k \in 1 .. k /\ \A i \in 1 .. k - 1 : i \in 1 .. k
    BY <1>2
  <2>5. CASE Touches(s[k], box)
    <3>1. Cut(f[k - 1], f[k], {Pair(s[k])})
      <4>1. f[k - 1] \in StateType
        BY <2>2 DEF Cut
      <4>2. s[k].src \in Buttons /\ s[k].dst \in Buttons
        BY <2>1, ConnectionFacts
      <4>3. Cut(f[k - 1], Disconnect(f[k - 1], s[k].src, s[k].dst), {{s[k].src, s[k].dst}})
        BY <4>1, <4>2, DisconnectCuts
      <4> QED
        BY <2>1, <2>5, <4>3 DEF Pair
    <3>2. P(k) = P(k - 1) \cup {Pair(s[k])}
      BY <2>3, <2>4, <2>5
    <3>3. Cut(y, f[k], P(k - 1) \cup {Pair(s[k])})
      BY <2>2, <3>1, CutTrans
    <3> QED
      BY <2>1, <3>2, <3>3
  <2>6. CASE ~Touches(s[k], box)
    <3>1. P(k) = P(k - 1)
      BY <2>3, <2>4, <2>6
    <3> QED
      BY <2>1, <2>2, <2>6, <3>1
  <2> QED
    BY <2>5, <2>6
<1>7. Len(s) \in B
  <2>1. \A k \in 1 .. Len(s) : k - 1 \in B => k \in B
    BY <1>6
  <2>2. Len(s) \in 0 .. Len(s)
    BY <1>2
  <2> HIDE DEF B
  <2> QED
    BY <1>2, <1>5, <2>1, <2>2, UpTo
<1>8. P(Len(s)) = {Pair(c) : c \in {d \in Range(s) : Touches(d, box)}}
  BY <1>2, RangeOf
<1> QED
  BY <1>1, <1>3, <1>7, <1>8

LEMMA DisconnectDeskCuts ==
  ASSUME NEW y, y \in StateType
  PROVE  Cut(y, DisconnectDesk(y), {Pair(c) : c \in Range(y.connects)})
<1>1. PICK s : s = y.connects
  OBVIOUS
<1>2. s \in Seq(Connections) /\ Len(s) \in Nat
  BY <1>1, StateFacts
<1>3. PICK f : IsLoop(f, "desk", 0, y, s, Len(s)) /\ DisconnectDesk(y) = f[Len(s)]
  BY <1>1, <1>2, DisconnectDeskLoops
<1>4. \A k \in 0 .. Len(s) : f[k] = IF k = 0 THEN y ELSE Turn("desk", 0, f[k - 1], s[k])
  BY <1>3 DEF IsLoop
<1> DEFINE P(k) == {Pair(s[i]) : i \in 1 .. k}
           B == {k \in 0 .. Len(s) : Cut(y, f[k], P(k))}
<1>5. 0 \in B
  <2>1. P(0) = {} /\ f[0] = y
    BY <1>2, <1>4
  <2>2. Cut(y, y, {})
    BY CutNone
  <2>3. Cut(y, f[0], P(0))
    BY <2>1, <2>2
  <2> QED
    BY <1>2, <2>3
<1>6. ASSUME NEW k \in 1 .. Len(s), k - 1 \in B PROVE k \in B
  <2>1. /\ k \in 0 .. Len(s) /\ s[k] \in Connections
        /\ f[k] = Disconnect(f[k - 1], s[k].src, s[k].dst)
    BY <1>2, <1>4 DEF Turn
  <2>2. Cut(y, f[k - 1], P(k - 1))
    BY <1>6
  <2>3. Cut(f[k - 1], f[k], {Pair(s[k])})
    <3>1. f[k - 1] \in StateType
      BY <2>2 DEF Cut
    <3>2. s[k].src \in Buttons /\ s[k].dst \in Buttons
      BY <2>1, ConnectionFacts
    <3>3. Cut(f[k - 1], Disconnect(f[k - 1], s[k].src, s[k].dst), {{s[k].src, s[k].dst}})
      BY <3>1, <3>2, DisconnectCuts
    <3> QED
      BY <2>1, <3>3 DEF Pair
  <2>4. P(k) = P(k - 1) \cup {Pair(s[k])}
    <3>1. \A i \in 1 .. k : i \in 1 .. k - 1 \/ i = k
      BY <1>2
    <3>2. k \in 1 .. k /\ \A i \in 1 .. k - 1 : i \in 1 .. k
      BY <1>2
    <3> QED
      BY <3>1, <3>2
  <2>5. Cut(y, f[k], P(k - 1) \cup {Pair(s[k])})
    BY <2>2, <2>3, CutTrans
  <2> QED
    BY <2>1, <2>4, <2>5
<1>7. Len(s) \in B
  <2>1. \A k \in 1 .. Len(s) : k - 1 \in B => k \in B
    BY <1>6
  <2>2. Len(s) \in 0 .. Len(s)
    BY <1>2
  <2> HIDE DEF B
  <2> QED
    BY <1>2, <1>5, <2>1, <2>2, UpTo
<1>8. P(Len(s)) = {Pair(c) : c \in Range(s)}
  BY <1>2, RangeOf
<1> QED
  BY <1>1, <1>3, <1>7, <1>8

----------------------------------------------------------------------------
(* The books                                                               *)

\* The boxes that are on the desk or will be freed.
There(y) == Range(y.boxes) \cup y.doomed

\* Every connection is of an output and an input of boxes that are there.
Sensible(y, c) ==
  /\ GetButtonType(c.src) # GetButtonType(c.dst)
  /\ GetOpBox(c.src) \in There(y) /\ GetOpBox(c.dst) \in There(y)

\* The list of a has b as the desk has the pair, unless a is an output that connected to
\* b again: then it may lack b.
Tells(y, a, b) ==
  /\ In(y, a, b) => Listed(y, a, b)
  /\ Listed(y, a, b) => In(y, a, b) \/ <<a, b>> \in y.redone

\* The records of connections are in order, except that the list of a button may
\* disagree with the desk on the pairs in E.
Books(y, E) ==
  /\ y \in StateType
  /\ \A a \in Buttons : Distinct(y.connected_to[a])
  /\ \A a \in Buttons : GetButtonType(a) = "in" => Single(y.connected_to[a])
  /\ DistinctPairs(y.connects)
  /\ \A c \in Range(y.connects) : Sensible(y, c)
  /\ \A a, b \in Buttons : <<a, b>> \notin E => Tells(y, a, b)
  /\ \A a, b \in Buttons : <<a, b>> \in y.redone => GetButtonType(a) = "out"

\* The boxes, and what points at them, are in order.
Housed(y) ==
  /\ Distinct(y.boxes) /\ Distinct(y.box_clipboard)
  /\ Range(y.box_clipboard) \subseteq Range(y.boxes)
  /\ Range(y.boxes) \cap y.doomed = {}
  /\ There(y) \subseteq 1 .. y.made
  /\ y.alive = ButtonsOf(There(y))
  /\ y.pushed \in y.alive \cup {NoButton}

\* The inductive invariant.
Good(y) == Books(y, {}) /\ Housed(y)

LEMMA ListedIs ==
  ASSUME NEW y, NEW a, NEW b
  PROVE  Listed(y, a, b) <=> \E c \in Range(y.connects) : Pair(c) = {a, b}
BY DEF Listed, AreConnected, Pair

LEMMA ListedBoth ==
  ASSUME NEW y, NEW a, NEW b
  PROVE  Listed(y, a, b) <=> Listed(y, b, a)
<1>1. {a, b} = {b, a}
  OBVIOUS
<1> QED
  BY <1>1 DEF Listed, AreConnected

LEMMA CutListed ==
  ASSUME NEW y, NEW z, NEW P, Cut(y, z, P), NEW a, NEW b
  PROVE  Listed(z, a, b) <=> Listed(y, a, b) /\ {a, b} \notin P
<1>1. \A c : c \in Range(z.connects) <=> c \in Range(y.connects) /\ Pair(c) \notin P
  BY DEF Cut
<1> QED
  BY <1>1, ListedIs

\* The list of an input tells exactly what the desk does.
LEMMA InputTells ==
  ASSUME NEW y, NEW E, Books(y, E), NEW a \in Buttons, NEW b \in Buttons,
         GetButtonType(a) = "in", <<a, b>> \notin E
  PROVE  In(y, a, b) <=> Listed(y, a, b)
<1>1. Tells(y, a, b) /\ <<a, b>> \notin y.redone
  BY DEF Books
<1> QED
  BY <1>1 DEF Tells

LEMMA CutBooks ==
  ASSUME NEW y, NEW z, NEW P, NEW E, Cut(y, z, P), Books(y, E)
  PROVE  Books(z, E)
<1>1. z \in StateType /\ There(z) = There(y)
  BY DEF Cut, SameDesk, There
<1>2. ASSUME NEW a \in Buttons
      PROVE  /\ Distinct(z.connected_to[a])
             /\ GetButtonType(a) = "in" => Single(z.connected_to[a])
  <2>1. Embeds(z.connected_to[a], y.connected_to[a])
    BY DEF Cut
  <2> QED
    BY <2>1, EmbedsKeeps DEF Books
<1>3. DistinctPairs(z.connects)
  BY EmbedsKeeps DEF Cut, Books
<1>4. \A c \in Range(z.connects) : Sensible(z, c)
  BY <1>1 DEF Cut, Books, Sensible
<1>5. ASSUME NEW a \in Buttons, NEW b \in Buttons, <<a, b>> \notin E
      PROVE  Tells(z, a, b)
  <2>1. In(z, a, b) <=> In(y, a, b) /\ {a, b} \notin P
    BY DEF Cut
  <2>2. Tells(y, a, b)
    BY <1>5 DEF Books
  <2>3. <<a, b>> \in z.redone <=> <<a, b>> \in y.redone /\ {a, b} \notin P
    BY DEF Cut
  <2> QED
    BY <2>1, <2>2, <2>3, CutListed DEF Tells
<1>6. \A a, b \in Buttons : <<a, b>> \in z.redone => GetButtonType(a) = "out"
  BY DEF Cut, Books
<1> QED
  BY <1>1, <1>2, <1>3, <1>4, <1>5, <1>6 DEF Books

LEMMA SameHoused ==
  ASSUME NEW y, NEW z, SameDesk(y, z), Housed(y)
  PROVE  Housed(z)
BY DEF SameDesk, Housed, There

\* The books do not depend on the rest of the state, as long as no connection is left
\* behind.
LEMMA CarriedBooks ==
  ASSUME NEW y, Books(y, {}), NEW z, z \in StateType, z.connects = y.connects,
         z.connected_to = y.connected_to, z.redone = y.redone,
         \A c \in Range(y.connects) :
           GetOpBox(c.src) \in There(z) /\ GetOpBox(c.dst) \in There(z)
  PROVE  Books(z, {})
<1>1. \A p, q : (Listed(z, p, q) <=> Listed(y, p, q)) /\ (In(z, p, q) <=> In(y, p, q))
  BY DEF Listed, In
<1>2. \A p, q \in Buttons : Tells(z, p, q)
  BY <1>1 DEF Books, Tells
<1>3. \A c \in Range(z.connects) : Sensible(z, c)
  BY DEF Books, Sensible
<1> QED
  BY <1>2, <1>3 DEF Books

LEMMA CutGood ==
  ASSUME NEW y, NEW z, NEW P, Cut(y, z, P), Good(y)
  PROVE  Good(z)
BY CutBooks, SameHoused DEF Cut, Good

\* After DisconnectAll nothing is connected to the button.
LEMMA DisconnectAllEmpties ==
  ASSUME NEW y, y \in StateType, NEW a \in Buttons
  PROVE  DisconnectAll(y, a).connected_to[a] = <<>>
<1>1. PICK z : z = DisconnectAll(y, a)
  OBVIOUS
<1>2. PICK P : P = {{a, b} : b \in Range(y.connected_to[a])}
  OBVIOUS
<1>3. Cut(y, z, P)
  BY <1>1, <1>2, DisconnectAllCuts
<1>4. ASSUME NEW q \in Buttons PROVE ~In(z, a, q)
  <2>1. In(y, a, q) => {a, q} \in P
    BY <1>2 DEF In
  <2> QED
    BY <1>3, <2>1 DEF Cut
<1>5. z.connected_to[a] \in Seq(Buttons)
  BY <1>3, StateFacts DEF Cut
<1>6. \A e : e \in Range(z.connected_to[a]) <=>
               \E i \in 1 .. Len(z.connected_to[a]) : z.connected_to[a][i] = e
  BY <1>5, RangeOf
<1>7. Len(z.connected_to[a]) = 0
  <2>1. ASSUME Len(z.connected_to[a]) # 0 PROVE FALSE
    <3>1. 1 \in 1 .. Len(z.connected_to[a]) /\ z.connected_to[a][1] \in Buttons
      BY <1>5, <2>1
    <3> QED
      BY <1>4, <1>6, <3>1 DEF In
  <2> QED
    BY <2>1
<1> QED
  BY <1>1, <1>5, <1>7

----------------------------------------------------------------------------
(* Connecting                                                              *)

LEMMA AppendFacts ==
  ASSUME NEW T, NEW s \in Seq(T), NEW b \in T
  PROVE  /\ Append(s, b) \in Seq(T)
         /\ \A e : e \in Range(Append(s, b)) <=> e \in Range(s) \/ e = b
         /\ Distinct(s) /\ b \notin Range(s) => Distinct(Append(s, b))
         /\ s = <<>> => Single(Append(s, b))
         /\ DistinctPairs(s) /\ (\A c \in Range(s) : Pair(c) # Pair(b))
              => DistinctPairs(Append(s, b))
<1>1. PICK w : w = Append(s, b)
  OBVIOUS
<1>2. /\ w \in Seq(T) /\ Len(w) = Len(s) + 1 /\ w[Len(s) + 1] = b /\ Len(s) \in Nat
      /\ \A i \in 1 .. Len(s) : w[i] = s[i]
  BY <1>1
<1>3. \A i : i \in 1 .. Len(w) <=> i \in 1 .. Len(s) \/ i = Len(s) + 1
  BY <1>2
<1>4. /\ \A e : e \in Range(w) <=> \E i \in 1 .. Len(w) : w[i] = e
      /\ \A e : e \in Range(s) <=> \E i \in 1 .. Len(s) : s[i] = e
  BY <1>2, RangeOf
<1>5. \A e : e \in Range(w) <=> e \in Range(s) \/ e = b
  BY <1>2, <1>3, <1>4
<1>6. ASSUME Distinct(s), b \notin Range(s) PROVE Distinct(w)
  BY <1>2, <1>3, <1>4, <1>6 DEF Distinct
<1>7. s = <<>> => Single(w)
  BY <1>2 DEF Single
<1>8. ASSUME DistinctPairs(s), \A c \in Range(s) : Pair(c) # Pair(b)
      PROVE  DistinctPairs(w)
  <2>1. SUFFICES ASSUME NEW i \in 1 .. Len(w), NEW j \in 1 .. Len(w), Pair(w[i]) = Pair(w[j])
                 PROVE  i = j
    BY DEF DistinctPairs, AreConnected, Pair
  <2>2. \A k \in 1 .. Len(s) : w[k] = s[k] /\ Pair(s[k]) # Pair(b)
    BY <1>2, <1>4, <1>8
  <2>3. CASE i \in 1 .. Len(s) /\ j \in 1 .. Len(s)
    BY <1>8, <2>1, <2>2, <2>3 DEF DistinctPairs, AreConnected, Pair
  <2>4. CASE i \in 1 .. Len(s) /\ j \notin 1 .. Len(s)
    BY <1>2, <1>3, <2>1, <2>2, <2>4
  <2>5. CASE i \notin 1 .. Len(s) /\ j \in 1 .. Len(s)
    BY <1>2, <1>3, <2>1, <2>2, <2>5
  <2> QED
    BY <1>3, <2>3, <2>4, <2>5
<1> QED
  BY <1>1, <1>2, <1>5, <1>6, <1>7, <1>8

LEMMA FrontOfAppend ==
  ASSUME NEW T, NEW s \in Seq(T), NEW b \in T
  PROVE  Front(Append(s, b)) = s
<1>1. PICK w : w = Append(s, b)
  OBVIOUS
<1>2. /\ w \in Seq(T) /\ Len(w) = Len(s) + 1 /\ Len(s) \in Nat
      /\ \A i \in 1 .. Len(s) : w[i] = s[i]
  BY <1>1
<1>3. Front(w) = SubSeq(w, 1, Len(s))
  BY <1>2 DEF Front
<1>4. /\ Len(SubSeq(w, 1, Len(s))) = Len(s)
      /\ \A i \in 1 .. Len(s) : SubSeq(w, 1, Len(s))[i] = w[i]
  BY <1>2
<1>5. SubSeq(w, 1, Len(s)) \in Seq(T)
  BY <1>2
<1> QED
  BY <1>1, <1>2, <1>3, <1>4, <1>5

\* From y to z, a has noted b.
Noted(y, z, a, b) ==
  /\ z \in StateType /\ SameDesk(y, z)
  /\ z.connects = y.connects /\ z.redone = y.redone
  /\ \A p, q \in Buttons : In(z, p, q) <=> In(y, p, q) \/ (p = a /\ q = b)

LEMMA NoteBooks ==
  ASSUME NEW y, NEW E, Books(y, E), NEW a \in Buttons, NEW b \in Buttons, ~In(y, a, b),
         GetButtonType(a) = "in" => y.connected_to[a] = <<>>
  PROVE  /\ Noted(y, [y EXCEPT !.connected_to[a] = Append(@, b)], a, b)
         /\ Books([y EXCEPT !.connected_to[a] = Append(@, b)], E \cup {<<a, b>>})
<1>1. PICK w : w = Append(y.connected_to[a], b)
  OBVIOUS
<1>2. y \in StateType /\ y.connected_to[a] \in Seq(Buttons)
  BY StateFacts DEF Books
<1>3. /\ w \in Seq(Buttons)
      /\ \A e : e \in Range(w) <=> e \in Range(y.connected_to[a]) \/ e = b
      /\ Distinct(y.connected_to[a]) /\ b \notin Range(y.connected_to[a]) => Distinct(w)
      /\ y.connected_to[a] = <<>> => Single(w)
  BY <1>1, <1>2, AppendFacts
<1>4. PICK z : z = [y EXCEPT !.connected_to[a] = Append(@, b)]
  OBVIOUS
<1>5. z = [y EXCEPT !.connected_to[a] = w]
  BY <1>1, <1>4
<1>6. /\ z \in StateType /\ SameDesk(y, z)
      /\ z.connects = y.connects /\ z.redone = y.redone
      /\ z.connected_to[a] = w
      /\ \A p \in Buttons : p # a => z.connected_to[p] = y.connected_to[p]
  BY <1>2, <1>3, <1>5 DEF StateType, SameDesk
<1>7. ASSUME NEW p \in Buttons, NEW q \in Buttons
      PROVE  In(z, p, q) <=> In(y, p, q) \/ (p = a /\ q = b)
  <2>1. CASE p = a
    BY <1>3, <1>6, <2>1 DEF In
  <2>2. CASE p # a
    BY <1>6, <2>2 DEF In
  <2> QED
    BY <2>1, <2>2
<1>8. Noted(y, z, a, b)
  BY <1>6, <1>7 DEF Noted
<1>9. ASSUME NEW p \in Buttons
      PROVE  /\ Distinct(z.connected_to[p])
             /\ GetButtonType(p) = "in" => Single(z.connected_to[p])
  <2>1. Distinct(y.connected_to[p]) /\ (GetButtonType(p) = "in" => Single(y.connected_to[p]))
    BY DEF Books
  <2>2. CASE p = a
    BY <1>3, <1>6, <2>1, <2>2 DEF In
  <2>3. CASE p # a
    BY <1>6, <2>1, <2>3
  <2> QED
    BY <2>2, <2>3
<1>10. \A p, q : Listed(z, p, q) <=> Listed(y, p, q)
  BY <1>6 DEF Listed
<1>11. DistinctPairs(z.connects) /\ \A c \in Range(z.connects) : Sensible(z, c)
  BY <1>6 DEF Books, Sensible, SameDesk, There
<1>12. ASSUME NEW p \in Buttons, NEW q \in Buttons, <<p, q>> \notin E \cup {<<a, b>>}
       PROVE  Tells(z, p, q)
  <2>1. Tells(y, p, q)
    BY <1>12 DEF Books
  <2> QED
    BY <1>6, <1>7, <1>10, <1>12, <2>1 DEF Tells
<1>14. \A p, q \in Buttons : <<p, q>> \in z.redone => GetButtonType(p) = "out"
  BY <1>6 DEF Books
<1>13. Books(z, E \cup {<<a, b>>})
  BY <1>6, <1>9, <1>11, <1>12, <1>14 DEF Books
<1> QED
  BY <1>4, <1>8, <1>13

\* What a new connection is listed as.
New(a, b) == [src |-> a, dst |-> b, color |-> DefaultColor]

\* From y to z, the desk has listed the connection of a to b, last.
Lists(y, z, a, b) ==
  /\ z \in StateType /\ SameDesk(y, z)
  /\ z.connected_to = y.connected_to /\ z.redone = y.redone
  /\ z.connects = Append(y.connects, New(a, b))
  /\ \A c : c \in Range(z.connects) <=> c \in Range(y.connects) \/ c = New(a, b)
  /\ z.connects # <<>> /\ z.connects[Len(z.connects)] = New(a, b)
  /\ \A p, q : Listed(z, p, q) <=> Listed(y, p, q) \/ {p, q} = {a, b}

LEMMA ListBooks ==
  ASSUME NEW y, NEW E, Books(y, E), NEW a \in Buttons, NEW b \in Buttons,
         ~Listed(y, a, b), GetButtonType(a) # GetButtonType(b),
         GetOpBox(a) \in There(y), GetOpBox(b) \in There(y)
  PROVE  /\ Lists(y, _ConnectOnly(y, a, b), a, b)
         /\ Books(_ConnectOnly(y, a, b), E \cup {<<a, b>>, <<b, a>>})
<1>1. PICK n : n = New(a, b)
  OBVIOUS
<1>2. n \in Connections /\ n.src = a /\ n.dst = b /\ Pair(n) = {a, b}
  BY <1>1, OpDeskAssumption DEF Connections, New, Pair
<1>3. y \in StateType /\ y.connects \in Seq(Connections)
  BY StateFacts DEF Books
<1>4. PICK w : w = Append(y.connects, n)
  OBVIOUS
<1>5. \A c \in Range(y.connects) : Pair(c) # Pair(n)
  BY <1>2, ListedIs
<1>6. /\ w \in Seq(Connections) /\ DistinctPairs(w)
      /\ \A c : c \in Range(w) <=> c \in Range(y.connects) \/ c = n
  BY <1>2, <1>3, <1>4, <1>5, AppendFacts DEF Books
<1>7. w # <<>> /\ w[Len(w)] = n
  BY <1>2, <1>3, <1>4
<1>8. PICK z : z = _ConnectOnly(y, a, b)
  OBVIOUS
<1>9. z = [y EXCEPT !.connects = w]
  BY <1>1, <1>4, <1>8 DEF _ConnectOnly, New
<1>10. /\ z \in StateType /\ SameDesk(y, z) /\ z.connected_to = y.connected_to
       /\ z.connects = w /\ z.redone = y.redone
  BY <1>3, <1>6, <1>9 DEF StateType, SameDesk, Connections
<1>11. ASSUME NEW p, NEW q PROVE Listed(z, p, q) <=> Listed(y, p, q) \/ {p, q} = {a, b}
  BY <1>2, <1>6, <1>10, ListedIs
<1>12. Lists(y, z, a, b)
  BY <1>1, <1>4, <1>6, <1>7, <1>10, <1>11 DEF Lists
<1>13. \A c \in Range(z.connects) : Sensible(z, c)
  BY <1>2, <1>6, <1>10 DEF Books, Sensible, SameDesk, There
<1>14. ASSUME NEW p \in Buttons, NEW q \in Buttons,
              <<p, q>> \notin E \cup {<<a, b>>, <<b, a>>}
       PROVE  Tells(z, p, q)
  <2>1. Tells(y, p, q)
    BY <1>14 DEF Books
  <2>2. {p, q} # {a, b}
    BY <1>14, PairsEqual
  <2> QED
    BY <1>10, <1>11, <2>1, <2>2 DEF In, Tells
<1>17. \A p, q \in Buttons : <<p, q>> \in z.redone => GetButtonType(p) = "out"
  BY <1>10 DEF Books
<1>15. \A p \in Buttons : /\ Distinct(z.connected_to[p])
                          /\ GetButtonType(p) = "in" => Single(z.connected_to[p])
  BY <1>10 DEF Books
<1>16. Books(z, E \cup {<<a, b>>, <<b, a>>})
  BY <1>6, <1>10, <1>13, <1>14, <1>15, <1>17 DEF Books
<1> QED
  BY <1>8, <1>12, <1>16

\* Once the pairs that were left out agree, the books are in order.
LEMMA BooksSettled ==
  ASSUME NEW y, NEW E, Books(y, E),
         \A a, b \in Buttons : <<a, b>> \in E => Tells(y, a, b)
  PROVE  Books(y, {})
BY DEF Books

LEMMA ButtonFacts ==
  ASSUME NEW b \in Buttons
  PROVE  /\ GetButtonType(b) \in {"in", "out"} /\ GetOpBox(b) \in Boxes
         /\ b = <<GetOpBox(b), GetButtonType(b)>>
BY DEF Buttons, GetButtonType, GetOpBox

\* The last connection that is listed is the one of a to b.
EndsWith(y, a, b) == y.connects # <<>> /\ y.connects[Len(y.connects)] = New(a, b)

\* An input notes the button that has noted it, and drops every other.
LEMMA InputNotes ==
  ASSUME NEW y, NEW E, Books(y, E), NEW a \in Buttons, NEW b \in Buttons,
         E \subseteq {<<a, b>>, <<b, a>>}, In(y, a, b), ~In(y, b, a),
         GetButtonType(a) = "out", GetButtonType(b) = "in",
         NEW z, z = _ConnectToOnly(y, b, a)
  PROVE  /\ Books(z, E \cup {<<b, a>>}) /\ SameDesk(y, z)
         /\ In(z, a, b) /\ In(z, b, a)
         /\ Listed(z, a, b) <=> Listed(y, a, b)
         /\ \A c : c \in Range(z.connects) <=>
                     c \in Range(y.connects) /\ (b \notin Pair(c) \/ Pair(c) = {a, b})
         /\ EndsWith(y, a, b) => EndsWith(z, a, b)
<1>1. PICK d : d = DisconnectAll(y, b)
  OBVIOUS
<1>2. PICK P : P = {{b, q} : q \in Range(y.connected_to[b])}
  OBVIOUS
<1>3. y \in StateType /\ a # b
  BY DEF Books
<1>4. Cut(y, d, P)
  BY <1>1, <1>2, <1>3, DisconnectAllCuts
<1>5. {a, b} \notin P
  <2>1. SUFFICES ASSUME NEW q \in Range(y.connected_to[b]), {a, b} = {b, q} PROVE FALSE
    BY <1>2
  <2>2. q = a
    BY <1>3, <2>1, PairsEqual
  <2> QED
    BY <2>1, <2>2 DEF In
<1>6. Books(d, E) /\ d.connected_to[b] = <<>>
  BY <1>1, <1>3, <1>4, CutBooks, DisconnectAllEmpties
<1>7. ~In(d, b, a) /\ In(d, a, b)
  BY <1>4, <1>5 DEF Cut
<1>8. z = [d EXCEPT !.connected_to[b] = Append(@, a)]
  BY <1>1 DEF _ConnectToOnly
<1>9. Noted(d, z, b, a) /\ Books(z, E \cup {<<b, a>>})
  <2>1. /\ Noted(d, [d EXCEPT !.connected_to[b] = Append(@, a)], b, a)
        /\ Books([d EXCEPT !.connected_to[b] = Append(@, a)], E \cup {<<b, a>>})
    BY <1>6, <1>7, NoteBooks
  <2> QED
    BY <1>8, <2>1
<1>10. SameDesk(y, z) /\ z.connects = d.connects
  BY <1>4, <1>9 DEF Cut, Noted, SameDesk
<1>11. In(z, a, b) /\ In(z, b, a)
  BY <1>7, <1>9 DEF Noted
<1>12. Listed(z, a, b) <=> Listed(y, a, b)
  <2>1. Listed(z, a, b) <=> Listed(d, a, b)
    BY <1>10 DEF Listed
  <2> QED
    BY <1>4, <1>5, <2>1, CutListed
<1>13. ASSUME NEW c \in Range(y.connects)
       PROVE  Pair(c) \in P <=> b \in Pair(c) /\ Pair(c) # {a, b}
  <2>1. Sensible(y, c) /\ c.src \in Buttons /\ c.dst \in Buttons
    BY <1>3, ConnectsFacts DEF Books
  <2>2. ASSUME Pair(c) \in P PROVE b \in Pair(c) /\ Pair(c) # {a, b}
    <3>1. PICK q \in Range(y.connected_to[b]) : Pair(c) = {b, q}
      BY <1>2, <2>2
    <3>2. Pair(c) # {a, b}
      BY <1>5, <2>2
    <3> QED
      BY <3>1, <3>2
  <2>3. ASSUME b \in Pair(c), Pair(c) # {a, b} PROVE Pair(c) \in P
    <3>1. PICK q \in Buttons : Pair(c) = {b, q}
      <4>1. CASE b = c.src
        BY <2>1, <4>1 DEF Pair
      <4>2. CASE b = c.dst
        <5>1. Pair(c) = {b, c.src}
          BY <4>2 DEF Pair
        <5> QED
          BY <2>1, <5>1
      <4> QED
        BY <2>3, <4>1, <4>2 DEF Pair
    <3>2. Listed(y, b, q)
      BY <3>1, ListedIs
    <3>3. <<b, q>> \notin E
      <4>1. q # a
        BY <2>3, <3>1
      <4> QED
        BY <1>3, <4>1
    <3>4. In(y, b, q)
      BY <3>2, <3>3, InputTells
    <3> QED
      BY <1>2, <3>1, <3>4 DEF In
  <2> QED
    BY <2>2, <2>3
<1>14. ASSUME NEW c
       PROVE  c \in Range(z.connects) <=>
                c \in Range(y.connects) /\ (b \notin Pair(c) \/ Pair(c) = {a, b})
  <2>1. c \in Range(z.connects) <=> c \in Range(y.connects) /\ Pair(c) \notin P
    BY <1>4, <1>10 DEF Cut
  <2> QED
    BY <1>13, <2>1
<1>15. EndsWith(y, a, b) => EndsWith(z, a, b)
  <2>1. Pair(New(a, b)) = {a, b}
    BY DEF Pair, New
  <2> QED
    BY <1>4, <1>5, <1>10, <2>1 DEF Cut, KeepsLast, EndsWith
<1> QED
  BY <1>9, <1>10, <1>11, <1>12, <1>14, <1>15

\* ConnectTo did nothing that is left.
Refused(y, z, E) ==
  /\ Books(z, E) /\ SameDesk(y, z)
  /\ z.connects = y.connects /\ z.redone = y.redone
  /\ \A p, q \in Buttons : In(z, p, q) <=> In(y, p, q)

\* From y to z, a and b were connected; the input b has no other connection.
Joined(y, z, a, b) ==
  /\ Books(z, {}) /\ SameDesk(y, z)
  /\ \A c : c \in Range(z.connects) <=>
              \/ c \in Range(y.connects) /\ (b \notin Pair(c) \/ Pair(c) = {a, b})
              \/ c = New(a, b) /\ ~Listed(y, a, b)
  /\ EndsWith(y, a, b) \/ ~Listed(y, a, b) => EndsWith(z, a, b)

\* Redo notes nothing unless an output connects to an input that has it.
LEMMA RedoesNothing ==
  ASSUME NEW z, z \in StateType, NEW y, NEW a, NEW b, ~In(y, b, a) \/ GetButtonType(a) = "in"
  PROVE  Redo(z, y, a, b) = z
<1>1. Redo(z, y, a, b) = [z EXCEPT !.redone = z.redone]
  BY DEF Redo, In
<1> QED
  BY <1>1 DEF StateType

\* An output connects to an input it is not connected to.
LEMMA ConnectToIs ==
  ASSUME NEW y, NEW E, Books(y, E), NEW a \in Buttons, NEW b \in Buttons, NEW ok,
         E \subseteq {<<a, b>>, <<b, a>>}, ~In(y, a, b), ~In(y, b, a),
         GetButtonType(a) = "out", GetButtonType(b) = "in",
         GetOpBox(a) \in There(y), GetOpBox(b) \in There(y)
  PROVE  \/ /\ ConnectTo(y, a, b, ok).ret = -1 /\ Refused(y, ConnectTo(y, a, b, ok).st, E)
            /\ ~({a, b} \subseteq ok)
         \/ /\ ConnectTo(y, a, b, ok).ret = 0 /\ Joined(y, ConnectTo(y, a, b, ok).st, a, b)
            /\ {a, b} \subseteq ok
<1>1. PICK r : r = ConnectTo(y, a, b, ok)
  OBVIOUS
<1>2. CASE a \notin ok
  <2>1. r.ret = -1 /\ r.st = y
    BY <1>1, <1>2 DEF ConnectTo
  <2> QED
    BY <1>1, <1>2, <2>1 DEF Refused, SameDesk
<1>3. CASE a \in ok
  <2>1. PICK m : m = _ConnectToOnly(y, a, b)
    OBVIOUS
  <2>2. m = [y EXCEPT !.connected_to[a] = Append(@, b)]
    BY <2>1 DEF _ConnectToOnly
  <2>3. Noted(y, m, a, b) /\ Books(m, E \cup {<<a, b>>})
    BY <2>2, NoteBooks
  <2>4. CASE b \notin ok
    <3>10. PICK w : w = _RemoveConnect(m, a, b)
      OBVIOUS
    <3>11. Trimmed(m, w, a, b)
      BY <2>3, <3>10, RemoveConnectTrims DEF Noted
    <3>12. Redo(w, y, a, b) = w
      BY <3>11, RedoesNothing DEF Trimmed
    <3>1. r.ret = -1 /\ r.st = w
      BY <1>1, <1>3, <2>1, <2>4, <3>10, <3>12 DEF ConnectTo
    <3>2. Trimmed(m, r.st, a, b)
      BY <3>1, <3>11
    <3>3. /\ SameDesk(y, r.st) /\ r.st.connects = y.connects /\ r.st.redone = y.redone
          /\ r.st \in StateType
      BY <2>3, <3>2 DEF Noted, Trimmed, SameDesk
    <3>4. ASSUME NEW p \in Buttons, NEW q \in Buttons PROVE In(r.st, p, q) <=> In(y, p, q)
      BY <2>3, <3>2 DEF Noted, Trimmed
    <3>5. ASSUME NEW p \in Buttons
          PROVE  /\ Distinct(r.st.connected_to[p])
                 /\ GetButtonType(p) = "in" => Single(r.st.connected_to[p])
      <4>1. Embeds(r.st.connected_to[p], m.connected_to[p])
        BY <3>2 DEF Trimmed
      <4> QED
        BY <2>3, <4>1, EmbedsKeeps DEF Books
    <3>6. DistinctPairs(r.st.connects) /\ \A c \in Range(r.st.connects) : Sensible(r.st, c)
      BY <3>3 DEF Books, Sensible, SameDesk, There
    <3>7. \A p, q : Listed(r.st, p, q) <=> Listed(y, p, q)
      BY <3>3 DEF Listed
    <3>8. ASSUME NEW p \in Buttons, NEW q \in Buttons, <<p, q>> \notin E
          PROVE  Tells(r.st, p, q)
      <4>1. Tells(y, p, q)
        BY <3>8 DEF Books
      <4> QED
        BY <3>3, <3>4, <3>7, <4>1 DEF Tells
    <3>13. \A p, q \in Buttons : <<p, q>> \in r.st.redone => GetButtonType(p) = "out"
      BY <3>3 DEF Books
    <3>9. Books(r.st, E)
      BY <3>3, <3>5, <3>6, <3>8, <3>13 DEF Books
    <3> QED
      BY <1>1, <2>4, <3>1, <3>3, <3>4, <3>9 DEF Refused
  <2>5. CASE b \in ok
    <3>1. PICK z : z = _ConnectToOnly(m, b, a)
      OBVIOUS
    <3>11. PICK all : all = IF Listed(z, a, b) THEN z ELSE _ConnectOnly(z, a, b)
      OBVIOUS
    <3>12. r.ret = 0 /\ r.st = Redo(all, y, a, b)
      BY <1>1, <1>3, <2>1, <2>5, <3>1, <3>11 DEF ConnectTo
    <3>3. In(m, a, b) /\ ~In(m, b, a) /\ m.connects = y.connects /\ SameDesk(y, m)
      BY <2>3 DEF Noted
    <3>4. PICK G : G = E \cup {<<a, b>>} /\ G \subseteq {<<a, b>>, <<b, a>>}
      OBVIOUS
    <3>5. PICK F : F = G \cup {<<b, a>>}
      OBVIOUS
    <3>6. /\ Books(z, F) /\ SameDesk(m, z)
          /\ In(z, a, b) /\ In(z, b, a)
          /\ Listed(z, a, b) <=> Listed(m, a, b)
          /\ \A c : c \in Range(z.connects) <=>
                      c \in Range(m.connects) /\ (b \notin Pair(c) \/ Pair(c) = {a, b})
          /\ EndsWith(m, a, b) => EndsWith(z, a, b)
      <4>1. Books(m, G)
        BY <2>3, <3>4
      <4> QED
        BY <3>1, <3>3, <3>4, <3>5, <4>1, InputNotes
    <3>7. F = {<<a, b>>, <<b, a>>}
      BY <3>4, <3>5
    <3>8. /\ Listed(z, a, b) <=> Listed(y, a, b)
          /\ SameDesk(y, z)
          /\ \A c : c \in Range(z.connects) <=>
                      c \in Range(y.connects) /\ (b \notin Pair(c) \/ Pair(c) = {a, b})
          /\ EndsWith(y, a, b) => EndsWith(z, a, b)
      BY <3>3, <3>6 DEF Listed, SameDesk, EndsWith
    <3>9. CASE Listed(z, a, b)
      <4>1. \A p, q \in Buttons : <<p, q>> \in F => Tells(z, p, q)
        BY <3>6, <3>7, <3>9, ListedBoth DEF Tells
      <4>2. Books(z, {})
        BY <3>6, <4>1, BooksSettled
      <4>3. Joined(y, z, a, b)
        BY <3>8, <3>9, <4>2 DEF Joined
      <4>4. r.st = z
        BY <3>9, <3>11, <3>12, <4>2, RedoesNothing DEF Books
      <4> QED
        BY <1>1, <1>3, <2>5, <3>12, <4>3, <4>4
    <3>10. CASE ~Listed(z, a, b)
      <4>1. PICK u : u = _ConnectOnly(z, a, b)
        OBVIOUS
      <4>2. There(z) = There(y)
        BY <3>8 DEF SameDesk, There
      <4>3. Lists(z, u, a, b) /\ Books(u, F \cup {<<a, b>>, <<b, a>>})
        BY <3>6, <3>10, <4>1, <4>2, ListBooks
      <4>4. Books(u, F)
        <5>1. F \cup {<<a, b>>, <<b, a>>} = F
          BY <3>7
        <5> QED
          BY <4>3, <5>1
      <4>5. Listed(u, a, b) /\ In(u, a, b) /\ In(u, b, a)
        BY <3>6, <4>3 DEF Lists, In
      <4>6. \A p, q \in Buttons : <<p, q>> \in F => Tells(u, p, q)
        BY <3>7, <4>5, ListedBoth DEF Tells
      <4>7. Books(u, {})
        BY <4>4, <4>6, BooksSettled
      <4>8. SameDesk(y, u)
        BY <3>8, <4>3 DEF Lists, SameDesk
      <4>9. /\ \A c : c \in Range(u.connects) <=> c \in Range(z.connects) \/ c = New(a, b)
            /\ EndsWith(u, a, b)
        BY <4>3 DEF Lists, EndsWith
      <4>10. Joined(y, u, a, b)
        BY <3>8, <3>10, <4>7, <4>8, <4>9 DEF Joined
      <4>11. r.st = u
        BY <3>10, <3>11, <3>12, <4>1, <4>7, RedoesNothing DEF Books
      <4> QED
        BY <1>1, <1>3, <2>5, <3>12, <4>10, <4>11
    <3> QED
      BY <3>9, <3>10
  <2> QED
    BY <2>4, <2>5
<1> QED
  BY <1>2, <1>3

\* From y to z, a and b were connected, with the attributes of a new connection.
Connected(y, z, a, b) ==
  /\ Books(z, {}) /\ SameDesk(y, z)
  /\ \A c : c \in Range(z.connects) <=>
              (c \in Range(y.connects) /\ b \notin Pair(c)) \/ c = New(a, b)
  /\ EndsWith(z, a, b)

\* What Fl_OpDesk::Connect returns and does.
ConnectReturns(y, r, s, d, ok) ==
  \/ r.ret = 1 /\ r.st = y /\ Listed(y, s, d)
  \/ /\ r.ret = -1 /\ Refused(y, r.st, {}) /\ ~Listed(y, s, d)
     /\ GetButtonType(s) = GetButtonType(d) \/ ~({s, d} \subseteq ok)
  \/ /\ r.ret = 0 /\ ~Listed(y, s, d) /\ {s, d} \subseteq ok
     /\ GetButtonType(s) = "out" /\ GetButtonType(d) = "in" /\ Connected(y, r.st, s, d)
  \/ /\ r.ret = 0 /\ ~Listed(y, s, d) /\ {s, d} \subseteq ok
     /\ GetButtonType(s) = "in" /\ GetButtonType(d) = "out" /\ Connected(y, r.st, d, s)

\* How Fl_OpDesk::Connect ends once ConnectTo has returned q.
Unlist(q) == IF q.ret = 0 THEN q ELSE [q EXCEPT !.st.connects = Front(@)]

\* Connect of an output and an input that are not connected.
LEMMA ConnectInOrder ==
  ASSUME NEW y, Books(y, {}), NEW a \in Buttons, NEW b \in Buttons, NEW ok,
         ~Listed(y, a, b), GetButtonType(a) = "out", GetButtonType(b) = "in",
         GetOpBox(a) \in There(y), GetOpBox(b) \in There(y),
         NEW q, q = ConnectTo(_ConnectOnly(y, a, b), a, b, ok),
         NEW r, r = Unlist(q)
  PROVE  \/ /\ r.ret = -1 /\ Refused(y, r.st, {})
            /\ ~({a, b} \subseteq ok)
         \/ r.ret = 0 /\ Connected(y, r.st, a, b) /\ {a, b} \subseteq ok
<1>1. PICK u : u = _ConnectOnly(y, a, b)
  OBVIOUS
<1>2. PICK E : E = {<<a, b>>, <<b, a>>}
  OBVIOUS
<1>3. Lists(y, u, a, b) /\ Books(u, E)
  <2>1. {} \cup {<<a, b>>, <<b, a>>} = E
    BY <1>2
  <2>2. Lists(y, u, a, b) /\ Books(u, {} \cup {<<a, b>>, <<b, a>>})
    BY <1>1, ListBooks
  <2> QED
    BY <2>1, <2>2
<1>4. ~In(y, a, b) /\ ~In(y, b, a)
  BY ListedBoth DEF Books, Tells
<1>5. ~In(u, a, b) /\ ~In(u, b, a) /\ There(u) = There(y) /\ Listed(u, a, b)
  BY <1>3, <1>4 DEF Lists, In, SameDesk, There
<1>6. \/ q.ret = -1 /\ Refused(u, q.st, E) /\ ~({a, b} \subseteq ok)
      \/ q.ret = 0 /\ Joined(u, q.st, a, b) /\ {a, b} \subseteq ok
  BY <1>1, <1>2, <1>3, <1>5, ConnectToIs
<1>7. CASE q.ret = -1 /\ Refused(u, q.st, E) /\ ~({a, b} \subseteq ok)
  <2>1. q = ConnectTo(u, a, b, ok) /\ q = [ret |-> q.ret, st |-> q.st]
    BY <1>1 DEF ConnectTo
  <2>2. r.ret = -1 /\ r.st = [q.st EXCEPT !.connects = Front(@)]
    BY <1>7, <2>1 DEF Unlist
  <2>3. y \in StateType /\ y.connects \in Seq(Connections) /\ New(a, b) \in Connections
    BY StateFacts, OpDeskAssumption DEF Books, New, Connections
  <2>4. q.st.connects = Append(y.connects, New(a, b)) /\ q.st \in StateType
    BY <1>3, <1>7 DEF Refused, Lists, Books
  <2>5. Front(q.st.connects) = y.connects
    BY <2>3, <2>4, FrontOfAppend
  <2>6. PICK z : z = r.st
    OBVIOUS
  <2>7. z = [q.st EXCEPT !.connects = y.connects]
    BY <2>2, <2>5, <2>6
  <2>8. /\ z \in StateType /\ SameDesk(q.st, z) /\ z.connects = y.connects
        /\ z.connected_to = q.st.connected_to /\ z.redone = q.st.redone
    BY <2>3, <2>4, <2>7 DEF StateType, SameDesk, Connections
  <2>9. SameDesk(y, z)
    BY <1>3, <1>7, <2>8 DEF Refused, Lists, SameDesk
  <2>15. z.redone = y.redone
    BY <1>3, <1>7, <2>8 DEF Refused, Lists
  <2>10. ASSUME NEW p \in Buttons, NEW p2 \in Buttons PROVE In(z, p, p2) <=> In(y, p, p2)
    BY <1>3, <1>7, <2>8 DEF Refused, Lists, In
  <2>11. \A p, p2 : Listed(z, p, p2) <=> Listed(y, p, p2)
    BY <2>8 DEF Listed
  <2>12. \A p \in Buttons : /\ Distinct(z.connected_to[p])
                            /\ GetButtonType(p) = "in" => Single(z.connected_to[p])
    BY <1>7, <2>8 DEF Refused, Books
  <2>13. DistinctPairs(z.connects) /\ \A c \in Range(z.connects) : Sensible(z, c)
    BY <2>8, <2>9 DEF Books, Sensible, SameDesk, There
  <2>16. ASSUME NEW p \in Buttons, NEW p2 \in Buttons
         PROVE  /\ Tells(z, p, p2)
                /\ <<p, p2>> \in z.redone => GetButtonType(p) = "out"
    BY <2>10, <2>11, <2>15 DEF Books, Tells
  <2>14. Books(z, {})
    BY <2>8, <2>12, <2>13, <2>16 DEF Books
  <2> QED
    BY <1>7, <2>2, <2>6, <2>8, <2>9, <2>10, <2>14, <2>15 DEF Refused
<1>8. CASE q.ret = 0 /\ Joined(u, q.st, a, b) /\ {a, b} \subseteq ok
  <2>1. r = q
    BY <1>8 DEF Unlist
  <2>2. Books(r.st, {}) /\ SameDesk(y, r.st)
    BY <1>3, <1>8, <2>1 DEF Joined, Lists, SameDesk
  <2>3. EndsWith(u, a, b)
    BY <1>3 DEF Lists, EndsWith
  <2>4. EndsWith(r.st, a, b)
    BY <1>8, <2>1, <2>3 DEF Joined
  <2>5. ASSUME NEW c
        PROVE  c \in Range(r.st.connects) <=>
                 (c \in Range(y.connects) /\ b \notin Pair(c)) \/ c = New(a, b)
    <3>1. c \in Range(r.st.connects) <=>
            c \in Range(u.connects) /\ (b \notin Pair(c) \/ Pair(c) = {a, b})
      BY <1>5, <1>8, <2>1 DEF Joined
    <3>2. c \in Range(u.connects) <=> c \in Range(y.connects) \/ c = New(a, b)
      BY <1>3 DEF Lists
    <3>3. c \in Range(y.connects) => Pair(c) # {a, b}
      BY ListedIs
    <3>4. Pair(New(a, b)) = {a, b}
      BY DEF New, Pair
    <3> QED
      BY <3>1, <3>2, <3>3, <3>4
  <2> QED
    BY <1>8, <2>1, <2>2, <2>4, <2>5 DEF Connected
<1> QED
  BY <1>6, <1>7, <1>8

LEMMA ConnectIs ==
  ASSUME NEW y, Books(y, {}), NEW s \in Buttons, NEW d \in Buttons, NEW ok,
         GetOpBox(s) \in There(y), GetOpBox(d) \in There(y)
  PROVE  ConnectReturns(y, Connect(y, s, d, ok), s, d, ok)
<1>1. PICK r : r = Connect(y, s, d, ok)
  OBVIOUS
<1>2. GetButtonType(s) \in {"in", "out"} /\ GetButtonType(d) \in {"in", "out"}
  BY ButtonFacts
<1>3. CASE Listed(y, s, d)
  BY <1>1, <1>3 DEF Connect, ConnectReturns
<1>4. CASE ~Listed(y, s, d)
  <2>1. CASE GetButtonType(s) = "out" /\ GetButtonType(d) = "in"
    <3>1. PICK q : q = ConnectTo(_ConnectOnly(y, s, d), s, d, ok)
      OBVIOUS
    <3>2. r = Unlist(q)
      BY <1>1, <1>4, <2>1, <3>1 DEF Connect, Unlist
    <3>3. \/ r.ret = -1 /\ Refused(y, r.st, {}) /\ ~({s, d} \subseteq ok)
          \/ r.ret = 0 /\ Connected(y, r.st, s, d) /\ {s, d} \subseteq ok
      BY <1>4, <2>1, <3>1, <3>2, ConnectInOrder
    <3> QED
      BY <1>1, <1>4, <2>1, <3>3 DEF ConnectReturns
  <2>2. CASE GetButtonType(s) = "in" /\ GetButtonType(d) = "out"
    <3>1. PICK q : q = ConnectTo(_ConnectOnly(y, d, s), d, s, ok)
      OBVIOUS
    <3>2. r = Unlist(q)
      BY <1>1, <1>4, <2>2, <3>1 DEF Connect, Unlist
    <3>3. ~Listed(y, d, s)
      BY <1>4, ListedBoth
    <3>4. \/ r.ret = -1 /\ Refused(y, r.st, {}) /\ ~({d, s} \subseteq ok)
          \/ r.ret = 0 /\ Connected(y, r.st, d, s) /\ {d, s} \subseteq ok
      BY <2>2, <3>1, <3>2, <3>3, ConnectInOrder
    <3>5. {d, s} \subseteq ok <=> {s, d} \subseteq ok
      OBVIOUS
    <3> QED
      BY <1>1, <1>4, <2>2, <3>4, <3>5 DEF ConnectReturns
  <2>3. CASE GetButtonType(s) = GetButtonType(d)
    <3>1. PICK a, b : /\ a = IF GetButtonType(s) = "in" THEN d ELSE s
                      /\ b = IF GetButtonType(s) = "in" THEN s ELSE d
      OBVIOUS
    <3>2. a \in Buttons /\ b \in Buttons /\ GetButtonType(a) = GetButtonType(b)
      BY <2>3, <3>1
    <3>3. PICK u : u = _ConnectOnly(y, a, b)
      OBVIOUS
    <3>4. ConnectTo(u, a, b, ok) = [ret |-> -1, st |-> u]
      BY <3>2 DEF ConnectTo
    <3>5. r = [[ret |-> -1, st |-> u] EXCEPT !.st.connects = Front(@)]
      BY <1>1, <1>4, <3>1, <3>3, <3>4 DEF Connect
    <3>6. y \in StateType /\ y.connects \in Seq(Connections) /\ New(a, b) \in Connections
      BY <3>2, StateFacts, OpDeskAssumption DEF Books, New, Connections
    <3>7. u = [y EXCEPT !.connects = Append(y.connects, New(a, b))]
      BY <3>3 DEF _ConnectOnly, New
    <3>8. u.connects = Append(y.connects, New(a, b))
      BY <3>6, <3>7 DEF StateType
    <3>9. Front(u.connects) = y.connects
      BY <3>6, <3>8, FrontOfAppend
    <3>10. r.ret = -1 /\ r.st = [u EXCEPT !.connects = y.connects]
      BY <3>5, <3>9
    <3>11. r.st = y
      BY <3>6, <3>7, <3>10 DEF StateType
    <3>12. Refused(y, r.st, {})
      BY <3>11 DEF Refused, SameDesk
    <3> QED
      BY <1>1, <1>4, <2>3, <3>10, <3>12 DEF ConnectReturns
  <2> QED
    BY <1>2, <2>1, <2>2, <2>3
<1> QED
  BY <1>3, <1>4

LEMMA ConnectGood ==
  ASSUME NEW y, Good(y), NEW s \in Buttons, NEW d \in Buttons, NEW ok,
         GetOpBox(s) \in There(y), GetOpBox(d) \in There(y)
  PROVE  Good(Connect(y, s, d, ok).st) /\ SameDesk(y, Connect(y, s, d, ok).st)
<1>1. PICK r : r = Connect(y, s, d, ok)
  OBVIOUS
<1>2. ConnectReturns(y, r, s, d, ok)
  BY <1>1, ConnectIs DEF Good
<1>3. Books(r.st, {}) /\ SameDesk(y, r.st)
  BY <1>2 DEF ConnectReturns, Refused, Connected, Good, SameDesk
<1> QED
  BY <1>1, <1>3, SameHoused DEF Good

LEMMA EmbedsBefore ==
  ASSUME NEW T, NEW r, NEW q \in Seq(T), NEW e \in T, Embeds(r, Append(q, e)),
         \A i \in 1 .. Len(r) : r[i] # e
  PROVE  Embeds(r, q)
<1>1. PICK w : w = Append(q, e)
  OBVIOUS
<1>2. /\ Len(w) = Len(q) + 1 /\ w[Len(q) + 1] = e /\ Len(q) \in Nat
      /\ \A i \in 1 .. Len(q) : w[i] = q[i]
  BY <1>1
<1>3. PICK f \in [1 .. Len(r) -> 1 .. Len(w)] :
        \A i, j \in 1 .. Len(r) : r[i] = w[f[i]] /\ (f[i] = f[j] => i = j)
  BY <1>1 DEF Embeds
<1>4. ASSUME NEW i \in 1 .. Len(r) PROVE f[i] \in 1 .. Len(q)
  <2>1. f[i] \in 1 .. Len(w) /\ f[i] # Len(q) + 1
    BY <1>2, <1>3
  <2> QED
    BY <1>2, <2>1
<1>5. f \in [1 .. Len(r) -> 1 .. Len(q)]
  BY <1>3, <1>4
<1>6. \A i, j \in 1 .. Len(r) : r[i] = q[f[i]] /\ (f[i] = f[j] => i = j)
  BY <1>2, <1>3, <1>4
<1> QED
  BY <1>5, <1>6 DEF Embeds

\* a notes b, which it may have noted before.
LEMMA NoteAgain ==
  ASSUME NEW y, y \in StateType, NEW a \in Buttons, NEW b \in Buttons,
         NEW z, z = [y EXCEPT !.connected_to[a] = Append(@, b)]
  PROVE  /\ Noted(y, z, a, b) /\ z.connected_to[a] = Append(y.connected_to[a], b)
         /\ \A p \in Buttons : p # a => z.connected_to[p] = y.connected_to[p]
<1>1. PICK w : w = Append(y.connected_to[a], b)
  OBVIOUS
<1>2. y.connected_to[a] \in Seq(Buttons)
  BY StateFacts
<1>3. /\ w \in Seq(Buttons)
      /\ \A e : e \in Range(w) <=> e \in Range(y.connected_to[a]) \/ e = b
  BY <1>1, <1>2, AppendFacts
<1>4. z = [y EXCEPT !.connected_to[a] = w]
  BY <1>1
<1>5. /\ z \in StateType /\ SameDesk(y, z)
      /\ z.connects = y.connects /\ z.redone = y.redone
      /\ z.connected_to[a] = w
      /\ \A p \in Buttons : p # a => z.connected_to[p] = y.connected_to[p]
  BY ONLY <1>2, <1>3, <1>4, y \in StateType, a \in Buttons DEF StateType, SameDesk
<1>6. ASSUME NEW p \in Buttons, NEW q \in Buttons
      PROVE  In(z, p, q) <=> In(y, p, q) \/ (p = a /\ q = b)
  <2>1. CASE p = a
    BY <1>3, <1>5, <2>1 DEF In
  <2>2. CASE p # a
    BY <1>5, <2>2 DEF In
  <2> QED
    BY <2>1, <2>2
<1> QED
  BY <1>1, <1>5, <1>6 DEF Noted

\* A list from which b is gone is part of what it was before b was appended.
LEMMA TrimmedBefore ==
  ASSUME NEW y, y \in StateType, NEW a \in Buttons, NEW b \in Buttons,
         NEW m, m.connected_to[a] = Append(y.connected_to[a], b),
         \A p \in Buttons : p # a => m.connected_to[p] = y.connected_to[p],
         NEW z, z \in StateType, ~In(z, a, b),
         \A p \in Buttons : Embeds(z.connected_to[p], m.connected_to[p]),
         NEW p \in Buttons
  PROVE  Embeds(z.connected_to[p], y.connected_to[p])
<1>1. CASE p # a
  <2>1. m.connected_to[p] = y.connected_to[p] /\ Embeds(z.connected_to[p], m.connected_to[p])
    BY <1>1
  <2> QED
    BY <2>1
<1>2. CASE p = a
  <2>1. PICK r, q : r = z.connected_to[a] /\ q = y.connected_to[a]
    OBVIOUS
  <2>2. r \in Seq(Buttons) /\ q \in Seq(Buttons)
    BY <2>1, StateFacts
  <2>3. \A i \in 1 .. Len(r) : r[i] # b
    BY <2>1, <2>2, RangeOf DEF In
  <2>4. Embeds(r, Append(q, b))
    BY <2>1
  <2>5. Embeds(r, q)
    BY <2>2, <2>3, <2>4, EmbedsBefore
  <2> QED
    BY <1>2, <2>1, <2>5
<1> QED
  BY <1>1, <1>2

\* The books are in order once redone tells that the output may lack the input.
LEMMA RedoSettles ==
  ASSUME NEW w, NEW E, Books(w, E), NEW a \in Buttons, NEW b \in Buttons,
         E \subseteq {<<a, b>>, <<b, a>>}, Listed(w, a, b), In(w, b, a),
         GetButtonType(a) = "out", NEW y, In(y, b, a), NEW z, z = Redo(w, y, a, b)
  PROVE  Books(z, {}) /\ SameDesk(w, z)
<1>1. w \in StateType /\ w.redone \in SUBSET (Buttons \X Buttons)
  BY StateFacts DEF Books
<1>2. PICK S : S = w.redone \cup {<<a, b>>}
  OBVIOUS
<1>3. z = [w EXCEPT !.redone = S]
  BY <1>2 DEF Redo, In
<1>4. S \in SUBSET (Buttons \X Buttons)
  BY <1>1, <1>2
<1>5. /\ z \in StateType /\ SameDesk(w, z) /\ z.redone = S
      /\ z.connects = w.connects /\ z.connected_to = w.connected_to
  BY <1>1, <1>3, <1>4 DEF StateType, SameDesk
<1>6. \A p, q : (Listed(z, p, q) <=> Listed(w, p, q)) /\ (In(z, p, q) <=> In(w, p, q))
  BY <1>5 DEF Listed, In
<1>7. ASSUME NEW p \in Buttons, NEW q \in Buttons PROVE Tells(z, p, q)
  <2>1. CASE <<p, q>> \notin E
    <3>1. Tells(w, p, q)
      BY <2>1 DEF Books
    <3> QED
      BY <1>2, <1>5, <1>6, <3>1 DEF Tells
  <2>2. CASE <<p, q>> = <<a, b>>
    <3>1. p = a /\ q = b
      BY <2>2
    <3> QED
      BY <1>2, <1>5, <1>6, <3>1 DEF Tells
  <2>3. CASE <<p, q>> = <<b, a>>
    <3>1. p = b /\ q = a
      BY <2>3
    <3> QED
      BY <1>6, <3>1, ListedBoth DEF Tells
  <2> QED
    BY <2>1, <2>2, <2>3
<1>8. ASSUME NEW p \in Buttons, NEW q \in Buttons, <<p, q>> \in z.redone
      PROVE  GetButtonType(p) = "out"
  <2>1. <<p, q>> \in w.redone \/ <<p, q>> = <<a, b>>
    BY <1>2, <1>5, <1>8
  <2> QED
    BY <2>1 DEF Books
<1>9. \A c \in Range(z.connects) : Sensible(z, c)
  BY <1>5 DEF Books, Sensible, There, SameDesk
<1>10. Books(z, {})
  BY <1>5, <1>7, <1>8, <1>9 DEF Books
<1> QED
  BY <1>5, <1>10

\* The input b notes a again, having dropped it.
LEMMA DroppedAgain ==
  ASSUME NEW y, Books(y, {}), NEW a \in Buttons, NEW b \in Buttons,
         GetButtonType(a) = "out", GetButtonType(b) = "in", In(y, b, a),
         NEW m, m = [y EXCEPT !.connected_to[a] = Append(@, b)],
         NEW d, d = DisconnectAll(m, b)
  PROVE  /\ Books(d, {}) /\ SameDesk(y, d) /\ d.connected_to[b] = <<>>
         /\ ~Listed(d, a, b)
<1>1. y \in StateType /\ a # b
  BY DEF Books
<1>2. /\ Noted(y, m, a, b) /\ m.connected_to[a] = Append(y.connected_to[a], b)
      /\ \A p \in Buttons : p # a => m.connected_to[p] = y.connected_to[p]
  BY <1>1, NoteAgain
<1>3. m \in StateType /\ m.connects = y.connects /\ m.redone = y.redone
  BY <1>2 DEF Noted
<1>4. PICK P : P = {{b, q} : q \in Range(m.connected_to[b])}
  OBVIOUS
<1>5. Cut(m, d, P) /\ d.connected_to[b] = <<>>
  BY <1>3, <1>4, DisconnectAllCuts, DisconnectAllEmpties
<1>6. {a, b} \in P
  <2>1. {b, a} \in P
    BY <1>2, <1>4 DEF In
  <2>2. {a, b} = {b, a}
    OBVIOUS
  <2> QED
    BY <2>1, <2>2
<1>7. d \in StateType /\ ~In(d, a, b)
  BY <1>5, <1>6 DEF Cut
<1>8. \A p \in Buttons : Embeds(d.connected_to[p], y.connected_to[p])
  <2>1. \A p \in Buttons : Embeds(d.connected_to[p], m.connected_to[p])
    BY <1>5 DEF Cut
  <2> QED
    BY ONLY <1>1, <1>2, <1>7, <2>1, TrimmedBefore, a \in Buttons, b \in Buttons
<1>9. ASSUME NEW p \in Buttons, NEW q \in Buttons
      PROVE  In(d, p, q) <=> In(y, p, q) /\ {p, q} \notin P
  <2>1. In(d, p, q) <=> In(m, p, q) /\ {p, q} \notin P
    BY <1>5 DEF Cut
  <2>2. In(m, p, q) <=> In(y, p, q) \/ (p = a /\ q = b)
    BY <1>2 DEF Noted
  <2> QED
    BY <1>6, <2>1, <2>2
<1>10. SameDesk(y, d)
  BY <1>2, <1>5 DEF Noted, Cut, SameDesk
<1>11. Cut(y, d, P)
  BY <1>3, <1>5, <1>7, <1>8, <1>9, <1>10 DEF Cut, KeepsLast
<1>12. Books(d, {})
  BY <1>11, CutBooks
<1>13. ~Listed(d, a, b)
  BY <1>6, <1>11, CutListed
<1> QED
  BY <1>5, <1>10, <1>12, <1>13

\* An output connects to the input it is connected to.
LEMMA ConnectAgain ==
  ASSUME NEW y, Books(y, {}), NEW a \in Buttons, NEW b \in Buttons, NEW ok,
         GetButtonType(a) = "out", GetButtonType(b) = "in", In(y, b, a),
         GetOpBox(a) \in There(y), GetOpBox(b) \in There(y)
  PROVE  Books(ConnectTo(y, a, b, ok).st, {}) /\ SameDesk(y, ConnectTo(y, a, b, ok).st)
<1>1. PICK r : r = ConnectTo(y, a, b, ok)
  OBVIOUS
<1>2. /\ y \in StateType /\ a # b /\ <<a, b>> # <<b, a>>
      /\ Listed(y, a, b) /\ Listed(y, b, a)
  BY InputTells, ListedBoth DEF Books
<1>3. PICK m : m = [y EXCEPT !.connected_to[a] = Append(@, b)]
  OBVIOUS
<1>4. m = _ConnectToOnly(y, a, b)
  BY <1>3 DEF _ConnectToOnly
<1>5. /\ Noted(y, m, a, b) /\ m.connected_to[a] = Append(y.connected_to[a], b)
      /\ \A p \in Buttons : p # a => m.connected_to[p] = y.connected_to[p]
  BY <1>2, <1>3, NoteAgain
<1>6. CASE a \notin ok
  <2>1. r.st = y
    BY <1>1, <1>6 DEF ConnectTo
  <2> QED
    BY <1>1, <2>1 DEF SameDesk
<1>7. CASE a \in ok /\ b \notin ok
  <2>1. PICK w : w = _RemoveConnect(m, a, b)
    OBVIOUS
  <2>2. Trimmed(m, w, a, b)
    BY <1>5, <2>1, RemoveConnectTrims DEF Noted
  <2>3. /\ w \in StateType /\ SameDesk(y, w) /\ w.connects = y.connects
        /\ w.redone = y.redone
    BY <1>5, <2>2 DEF Noted, Trimmed, SameDesk
  <2>4. \A p, q \in Buttons : In(w, p, q) <=> In(y, p, q) /\ ~(p = a /\ q = b)
    BY <1>5, <2>2 DEF Noted, Trimmed
  <2>5. \A p \in Buttons : Embeds(w.connected_to[p], y.connected_to[p])
    <3>1. \A p \in Buttons : Embeds(w.connected_to[p], m.connected_to[p])
      BY <2>2 DEF Trimmed
    <3>2. ~In(w, a, b)
      BY <2>4
    <3> QED
      BY ONLY <1>2, <1>5, <2>3, <3>1, <3>2, TrimmedBefore, a \in Buttons, b \in Buttons
  <2>6. \A p \in Buttons : /\ Distinct(w.connected_to[p])
                           /\ GetButtonType(p) = "in" => Single(w.connected_to[p])
    BY <2>5, EmbedsKeeps DEF Books
  <2>7. \A p, q : Listed(w, p, q) <=> Listed(y, p, q)
    BY <2>3 DEF Listed
  <2>8. ASSUME NEW p \in Buttons, NEW q \in Buttons, <<p, q>> \notin {<<a, b>>}
        PROVE  Tells(w, p, q)
    <3>1. Tells(y, p, q)
      BY DEF Books
    <3>2. ~(p = a /\ q = b)
      BY <2>8
    <3> QED
      BY <2>3, <2>4, <2>7, <3>1, <3>2 DEF Tells
  <2>9. DistinctPairs(w.connects) /\ \A c \in Range(w.connects) : Sensible(w, c)
    BY <2>3 DEF Books, Sensible, SameDesk, There
  <2>10. \A p, q \in Buttons : <<p, q>> \in w.redone => GetButtonType(p) = "out"
    BY <2>3 DEF Books
  <2>11. Books(w, {<<a, b>>})
    BY <2>3, <2>6, <2>8, <2>9, <2>10 DEF Books
  <2>12. Listed(w, a, b) /\ In(w, b, a)
    BY <1>2, <2>4, <2>7
  <2>13. r.st = Redo(w, y, a, b)
    BY <1>1, <1>4, <1>7, <2>1 DEF ConnectTo
  <2>14. PICK E : E = {<<a, b>>}
    OBVIOUS
  <2>15. Books(r.st, {}) /\ SameDesk(w, r.st)
    BY <2>11, <2>12, <2>13, <2>14, RedoSettles
  <2> QED
    BY <1>1, <2>3, <2>15 DEF SameDesk
<1>8. CASE a \in ok /\ b \in ok
  <2>1. PICK d : d = DisconnectAll(m, b)
    OBVIOUS
  <2>2. /\ Books(d, {}) /\ SameDesk(y, d) /\ d.connected_to[b] = <<>>
        /\ ~Listed(d, a, b)
    BY <1>3, <2>1, DroppedAgain
  <2>3. PICK n : n = [d EXCEPT !.connected_to[b] = Append(@, a)]
    OBVIOUS
  <2>4. n = _ConnectToOnly(m, b, a)
    BY <2>1, <2>3 DEF _ConnectToOnly
  <2>5. ~In(d, b, a)
    BY <2>2 DEF In, Range
  <2>6. PICK E : E = {} \cup {<<b, a>>}
    OBVIOUS
  <2>7. Noted(d, n, b, a) /\ Books(n, E)
    BY <2>2, <2>3, <2>5, <2>6, NoteBooks
  <2>8. ~Listed(n, a, b) /\ There(n) = There(y) /\ In(n, b, a) /\ SameDesk(y, n)
    BY <2>2, <2>7 DEF Noted, Listed, SameDesk, There
  <2>9. PICK u : u = _ConnectOnly(n, a, b)
    OBVIOUS
  <2>10. PICK F : F = E \cup {<<a, b>>, <<b, a>>}
    OBVIOUS
  <2>11. Lists(n, u, a, b) /\ Books(u, F)
    BY <2>7, <2>8, <2>9, <2>10, ListBooks
  <2>12. Listed(u, a, b) /\ In(u, b, a) /\ SameDesk(y, u)
    BY <2>8, <2>11 DEF Lists, In, SameDesk
  <2>13. r.st = Redo(u, y, a, b)
    BY <1>1, <1>4, <1>8, <2>4, <2>8, <2>9 DEF ConnectTo
  <2>14. F \subseteq {<<a, b>>, <<b, a>>}
    BY <2>6, <2>10
  <2>15. Books(r.st, {}) /\ SameDesk(u, r.st)
    BY <2>11, <2>12, <2>13, <2>14, RedoSettles
  <2> QED
    BY <1>1, <2>12, <2>15 DEF SameDesk
<1> QED
  BY <1>6, <1>7, <1>8

\* An input connects to an output, whether or not it is connected to it.
LEMMA ConnectInput ==
  ASSUME NEW y, Books(y, {}), NEW a \in Buttons, NEW b \in Buttons, NEW ok,
         GetButtonType(a) = "in", GetButtonType(b) = "out",
         GetOpBox(a) \in There(y), GetOpBox(b) \in There(y)
  PROVE  Books(ConnectTo(y, a, b, ok).st, {}) /\ SameDesk(y, ConnectTo(y, a, b, ok).st)
<1>1. PICK r : r = ConnectTo(y, a, b, ok)
  OBVIOUS
<1>2. y \in StateType /\ a # b
  BY DEF Books
<1>3. PICK d : d = DisconnectAll(y, a)
  OBVIOUS
<1>4. PICK P : P = {{a, q} : q \in Range(y.connected_to[a])}
  OBVIOUS
<1>5. Cut(y, d, P) /\ d.connected_to[a] = <<>>
  BY <1>2, <1>3, <1>4, DisconnectAllCuts, DisconnectAllEmpties
<1>6. Books(d, {}) /\ SameDesk(y, d)
  BY <1>5, CutBooks DEF Cut
<1>7. ~In(d, a, b) /\ ~Listed(d, a, b) /\ ~Listed(d, b, a) /\ ~In(d, b, a)
  <2>1. ~In(d, a, b)
    BY <1>5 DEF In, Range
  <2>2. ~Listed(d, a, b)
    <3>1. <<a, b>> \notin {}
      OBVIOUS
    <3>2. In(d, a, b) <=> Listed(d, a, b)
      BY ONLY <1>6, <3>1, InputTells, a \in Buttons, b \in Buttons, GetButtonType(a) = "in"
    <3> QED
      BY <2>1, <3>2
  <2>3. ~Listed(d, b, a)
    BY <2>2, ListedBoth
  <2> QED
    BY <1>6, <2>1, <2>2, <2>3 DEF Books, Tells
<1>8. PICK m : m = [d EXCEPT !.connected_to[a] = Append(@, b)]
  OBVIOUS
<1>9. m = _ConnectToOnly(y, a, b)
  BY <1>3, <1>8 DEF _ConnectToOnly
<1>10. PICK E : E = {} \cup {<<a, b>>}
  OBVIOUS
<1>11. Noted(d, m, a, b) /\ Books(m, E)
  BY <1>5, <1>6, <1>7, <1>8, <1>10, NoteBooks
<1>12. SameDesk(y, m) /\ \A p, q : Listed(m, p, q) <=> Listed(d, p, q)
  BY <1>6, <1>11 DEF Noted, SameDesk, Listed
<1>13. CASE a \notin ok
  <2>1. r.st = y
    BY <1>1, <1>13 DEF ConnectTo
  <2> QED
    BY <1>1, <2>1 DEF SameDesk
<1>14. CASE a \in ok /\ b \notin ok
  <2>1. PICK w : w = _RemoveConnect(m, a, b)
    OBVIOUS
  <2>2. Trimmed(m, w, a, b)
    BY <1>11, <2>1, RemoveConnectTrims DEF Noted
  <2>3. r.st = w
    <3>1. r.st = Redo(w, y, a, b)
      BY <1>1, <1>9, <1>14, <2>1 DEF ConnectTo
    <3> QED
      BY <2>2, <3>1, RedoesNothing DEF Trimmed
  <2>4. /\ w \in StateType /\ SameDesk(y, w) /\ w.connects = m.connects
        /\ w.redone = m.redone /\ SameDesk(m, w)
    BY <1>12, <2>2 DEF Trimmed, SameDesk
  <2>5. \A p \in Buttons : /\ Distinct(w.connected_to[p])
                           /\ GetButtonType(p) = "in" => Single(w.connected_to[p])
    BY <1>11, <2>2, EmbedsKeeps DEF Books, Trimmed
  <2>6. \A p, q : Listed(w, p, q) <=> Listed(d, p, q)
    BY <1>12, <2>4 DEF Listed
  <2>7. ASSUME NEW p \in Buttons, NEW q \in Buttons PROVE Tells(w, p, q)
    <3>1. In(w, p, q) <=> In(d, p, q)
      BY <1>7, <1>11, <2>2 DEF Noted, Trimmed
    <3>2. Tells(d, p, q) /\ w.redone = d.redone
      BY <1>6, <1>11, <2>4 DEF Books, Noted
    <3> QED
      BY <2>6, <3>1, <3>2 DEF Tells
  <2>8. DistinctPairs(w.connects) /\ \A c \in Range(w.connects) : Sensible(w, c)
    BY <1>11, <2>4 DEF Books, Sensible, SameDesk, There
  <2>9. \A p, q \in Buttons : <<p, q>> \in w.redone => GetButtonType(p) = "out"
    BY <1>11, <2>4 DEF Books
  <2>10. Books(w, {})
    BY <2>4, <2>5, <2>7, <2>8, <2>9 DEF Books
  <2> QED
    BY <1>1, <2>3, <2>4, <2>10
<1>15. CASE a \in ok /\ b \in ok
  <2>1. PICK n : n = [m EXCEPT !.connected_to[b] = Append(@, a)]
    OBVIOUS
  <2>2. n = _ConnectToOnly(m, b, a)
    BY <2>1 DEF _ConnectToOnly
  <2>3. ~In(m, b, a) /\ In(m, a, b)
    BY <1>2, <1>7, <1>11 DEF Noted
  <2>4. PICK F : F = E \cup {<<b, a>>}
    OBVIOUS
  <2>5. Noted(m, n, b, a) /\ Books(n, F)
    BY <1>11, <2>1, <2>3, <2>4, NoteBooks
  <2>6. /\ ~Listed(n, a, b) /\ There(n) = There(y) /\ SameDesk(y, n)
        /\ In(n, a, b) /\ In(n, b, a)
    BY <1>7, <1>12, <2>3, <2>5 DEF Noted, Listed, SameDesk, There
  <2>7. PICK u : u = _ConnectOnly(n, a, b)
    OBVIOUS
  <2>8. PICK G : G = F \cup {<<a, b>>, <<b, a>>}
    OBVIOUS
  <2>9. Lists(n, u, a, b) /\ Books(u, G)
    BY <2>5, <2>6, <2>7, <2>8, ListBooks
  <2>10. Listed(u, a, b) /\ In(u, a, b) /\ In(u, b, a) /\ SameDesk(y, u)
    BY <2>6, <2>9 DEF Lists, In, SameDesk
  <2>11. \A p, q \in Buttons : <<p, q>> \in G => Tells(u, p, q)
    BY <1>10, <2>4, <2>8, <2>10, ListedBoth DEF Tells
  <2>12. Books(u, {})
    BY <2>9, <2>11, BooksSettled
  <2>13. r.st = u
    <3>1. r.st = Redo(u, y, a, b)
      BY <1>1, <1>9, <1>15, <2>2, <2>6, <2>7 DEF ConnectTo
    <3> QED
      BY <2>12, <3>1, RedoesNothing DEF Books
  <2> QED
    BY <1>1, <2>10, <2>12, <2>13
<1> QED
  BY <1>13, <1>14, <1>15

\* ConnectTo of any two buttons that are there.
LEMMA ConnectToGood ==
  ASSUME NEW y, Good(y), NEW a \in Buttons, NEW b \in Buttons, NEW ok,
         GetOpBox(a) \in There(y), GetOpBox(b) \in There(y)
  PROVE  Good(ConnectTo(y, a, b, ok).st)
<1>1. PICK r : r = ConnectTo(y, a, b, ok)
  OBVIOUS
<1>2. GetButtonType(a) \in {"in", "out"} /\ GetButtonType(b) \in {"in", "out"}
  BY ButtonFacts
<1>3. Books(y, {}) /\ Housed(y)
  BY DEF Good
<1>4. CASE GetButtonType(a) = GetButtonType(b)
  <2>1. r.st = y
    BY <1>1, <1>4 DEF ConnectTo
  <2> QED
    BY <1>1, <2>1
<1>5. CASE GetButtonType(a) = "in" /\ GetButtonType(b) = "out"
  <2>1. Books(r.st, {}) /\ SameDesk(y, r.st)
    BY <1>1, <1>3, <1>5, ConnectInput
  <2> QED
    BY <1>1, <1>3, <2>1, SameHoused DEF Good
<1>6. CASE GetButtonType(a) = "out" /\ GetButtonType(b) = "in" /\ In(y, b, a)
  <2>1. Books(r.st, {}) /\ SameDesk(y, r.st)
    BY <1>1, <1>3, <1>6, ConnectAgain
  <2> QED
    BY <1>1, <1>3, <2>1, SameHoused DEF Good
<1>7. CASE GetButtonType(a) = "out" /\ GetButtonType(b) = "in" /\ ~In(y, b, a)
  <2>1. ~In(y, a, b) /\ {} \subseteq {<<a, b>>, <<b, a>>}
    BY <1>3, <1>7, InputTells, ListedBoth DEF Books, Tells
  <2>2. \/ r.ret = -1 /\ Refused(y, r.st, {})
        \/ r.ret = 0 /\ Joined(y, r.st, a, b)
    BY <1>1, <1>3, <1>7, <2>1, ConnectToIs
  <2>3. Books(r.st, {}) /\ SameDesk(y, r.st)
    BY <2>2 DEF Refused, Joined
  <2> QED
    BY <1>1, <1>3, <2>3, SameHoused DEF Good
<1> QED
  BY <1>2, <1>4, <1>5, <1>6, <1>7

----------------------------------------------------------------------------
(* Deleting boxes                                                          *)

\* After Fl_OpDesk::Disconnect of a box no connection touches it.
LEMMA DisconnectBoxFrees ==
  ASSUME NEW y, Good(y), NEW box
  PROVE  /\ Good(DisconnectBox(y, box)) /\ SameDesk(y, DisconnectBox(y, box))
         /\ \A c \in Range(DisconnectBox(y, box).connects) :
              c \in Range(y.connects) /\ ~Touches(c, box)
<1>1. PICK z : z = DisconnectBox(y, box)
  OBVIOUS
<1>2. PICK P : P = {Pair(c) : c \in {d \in Range(y.connects) : Touches(d, box)}}
  OBVIOUS
<1>3. Cut(y, z, P)
  BY <1>1, <1>2, DisconnectBoxCuts DEF Good, Books
<1>4. Good(z) /\ SameDesk(y, z)
  BY <1>3, CutGood DEF Cut
<1>5. ASSUME NEW c \in Range(z.connects)
      PROVE  c \in Range(y.connects) /\ ~Touches(c, box)
  <2>1. c \in Range(y.connects) /\ Pair(c) \notin P
    BY <1>3 DEF Cut
  <2> QED
    BY <1>2, <2>1
<1> QED
  BY <1>1, <1>4, <1>5

\* _RemoveBox, of a box that nothing is connected to.
LEMMA RemoveBoxBooks ==
  ASSUME NEW y, Books(y, {}), NEW box, \A c \in Range(y.connects) : ~Touches(c, box),
         NEW z, z = _RemoveBox(y, box)
  PROVE  /\ Books(z, {})
         /\ z.made = y.made /\ z.doomed = y.doomed /\ z.alive = y.alive
         /\ z.pushed = y.pushed /\ z.connects = y.connects /\ z.redone = y.redone
         /\ IsWithout(z.boxes, y.boxes, {box})
         /\ IsWithout(z.box_clipboard, y.box_clipboard, {box})
<1>1. PICK v : v = Without(y.boxes, {box})
  OBVIOUS
<1>2. PICK w : w = Without(y.box_clipboard, {box})
  OBVIOUS
<1>3. y \in StateType /\ y.boxes \in Seq(Boxes) /\ y.box_clipboard \in Seq(Boxes)
  BY StateFacts DEF Books
<1>4. /\ v \in Seq(Boxes) /\ IsWithout(v, y.boxes, {box})
      /\ w \in Seq(Boxes) /\ IsWithout(w, y.box_clipboard, {box})
  BY <1>1, <1>2, <1>3, WithoutIs
<1>5. z = [y EXCEPT !.boxes = v, !.box_clipboard = w]
  BY <1>1, <1>2 DEF _RemoveBox
<1>6. /\ z \in StateType /\ z.boxes = v /\ z.box_clipboard = w
      /\ z.made = y.made /\ z.doomed = y.doomed /\ z.alive = y.alive
      /\ z.pushed = y.pushed
      /\ z.connects = y.connects /\ z.connected_to = y.connected_to /\ z.redone = y.redone
  BY <1>3, <1>4, <1>5 DEF StateType
<1>7. ASSUME NEW c \in Range(y.connects)
      PROVE  GetOpBox(c.src) \in There(z) /\ GetOpBox(c.dst) \in There(z)
  <2>1. Sensible(y, c) /\ GetOpBox(c.src) # box /\ GetOpBox(c.dst) # box
    BY DEF Books, Touches
  <2> QED
    BY <1>4, <1>6, <2>1 DEF Sensible, IsWithout, There
<1>8. Books(z, {})
  BY <1>6, <1>7, CarriedBooks
<1> QED
  BY <1>4, <1>6, <1>8

LEMMA RemovedHoused ==
  ASSUME NEW y, Housed(y), NEW z, NEW box,
         IsWithout(z.boxes, y.boxes, {box}),
         IsWithout(z.box_clipboard, y.box_clipboard, {box})
  PROVE  /\ Distinct(z.boxes) /\ Distinct(z.box_clipboard)
         /\ Range(z.box_clipboard) \subseteq Range(z.boxes)
         /\ Range(z.boxes) = Range(y.boxes) \ {box}
<1>1. Distinct(z.boxes) /\ Distinct(z.box_clipboard)
  BY EmbedsKeeps DEF IsWithout, Housed
<1>2. Range(z.box_clipboard) \subseteq Range(z.boxes)
  BY DEF IsWithout, Housed
<1>3. Range(z.boxes) = Range(y.boxes) \ {box}
  BY DEF IsWithout
<1> QED
  BY <1>1, <1>2, <1>3

LEMMA DeleteBoxGood ==
  ASSUME NEW y, Good(y), NEW box \in There(y)
  PROVE  Good(DeleteBox(y, box)) /\ There(DeleteBox(y, box)) = There(y)
<1>1. PICK d : d = DisconnectBox(y, box)
  OBVIOUS
<1>2. Good(d) /\ SameDesk(y, d) /\ \A c \in Range(d.connects) : ~Touches(c, box)
  BY <1>1, DisconnectBoxFrees
<1>3. PICK u : u = _RemoveBox(d, box)
  OBVIOUS
<1>4. /\ Books(u, {})
      /\ u.made = d.made /\ u.doomed = d.doomed /\ u.alive = d.alive /\ u.pushed = d.pushed
      /\ u.connects = d.connects
      /\ IsWithout(u.boxes, d.boxes, {box})
      /\ IsWithout(u.box_clipboard, d.box_clipboard, {box})
  BY <1>2, <1>3, RemoveBoxBooks DEF Good
<1>5. /\ Distinct(u.boxes) /\ Distinct(u.box_clipboard)
      /\ Range(u.box_clipboard) \subseteq Range(u.boxes)
      /\ Range(u.boxes) = Range(d.boxes) \ {box}
  BY <1>2, <1>4, RemovedHoused DEF Good
<1>6. PICK z : z = DeleteBox(y, box)
  OBVIOUS
<1>7. z = [u EXCEPT !.doomed = d.doomed \cup {box}]
  BY <1>1, <1>3, <1>4, <1>6 DEF DeleteBox
<1>8. box \in Boxes
  <2>1. y \in StateType
    BY DEF Good, Books
  <2>2. y.boxes \in Seq(Boxes) /\ y.doomed \in SUBSET Boxes
    BY <2>1, StateFacts
  <2>3. Range(y.boxes) \subseteq Boxes
    BY <2>2, RangeOf
  <2> QED
    BY <2>2, <2>3 DEF There
<1>9. /\ z \in StateType /\ z.doomed = d.doomed \cup {box}
      /\ z.boxes = u.boxes /\ z.box_clipboard = u.box_clipboard
      /\ z.made = u.made /\ z.alive = u.alive /\ z.pushed = u.pushed
      /\ z.connects = u.connects /\ z.connected_to = u.connected_to /\ z.redone = u.redone
  BY <1>4, <1>7, <1>8 DEF StateType, Books
<1>10. Books(z, {})
  <2>1. There(u) \subseteq There(z)
    BY <1>9, <1>4 DEF There
  <2>2. \A c \in Range(u.connects) :
          GetOpBox(c.src) \in There(z) /\ GetOpBox(c.dst) \in There(z)
    BY <1>4, <2>1 DEF Books, Sensible
  <2> QED
    BY <1>4, <1>9, <2>2, CarriedBooks
<1>11. Range(z.boxes) \cup z.doomed = Range(y.boxes) \cup y.doomed
  BY <1>2, <1>5, <1>9 DEF SameDesk, There
<1>12. Range(z.boxes) \cap z.doomed = {}
  BY <1>2, <1>5, <1>9 DEF Good, Housed
<1>13. Housed(z)
  <2>1. There(z) = There(y) /\ There(d) = There(y)
    BY <1>2, <1>11 DEF There, SameDesk
  <2> QED
    BY <1>2, <1>4, <1>5, <1>9, <1>12, <2>1 DEF Good, Housed, SameDesk
<1> QED
  BY <1>6, <1>10, <1>11, <1>13 DEF Good, There

LEMMA DeleteSelectedGood ==
  ASSUME NEW y, Good(y), NEW selected
  PROVE  Good(DeleteSelected(y, selected))
<1>1. PICK s : s = y.boxes
  OBVIOUS
<1>2. s \in Seq(Boxes) /\ Len(s) \in Nat
  BY <1>1, StateFacts DEF Good, Books
<1>3. PICK f : /\ IsLoop(f, "delete", selected, y, s, Len(s))
               /\ DeleteSelected(y, selected) = f[Len(s)]
  BY <1>1, <1>2, DeleteSelectedLoops
<1>4. \A k \in 0 .. Len(s) :
        f[k] = IF k = 0 THEN y ELSE Turn("delete", selected, f[k - 1], s[k])
  BY <1>3 DEF IsLoop
<1> DEFINE B == {k \in 0 .. Len(s) : Good(f[k]) /\ There(f[k]) = There(y)}
<1>5. 0 \in B
  BY <1>2, <1>4
<1>6. ASSUME NEW k \in 1 .. Len(s), k - 1 \in B PROVE k \in B
  <2>1. /\ k \in 0 .. Len(s)
        /\ f[k] = IF s[k] \in selected THEN DeleteBox(f[k - 1], s[k]) ELSE f[k - 1]
    BY <1>2, <1>4 DEF Turn
  <2>2. Good(f[k - 1]) /\ There(f[k - 1]) = There(y)
    BY <1>6
  <2>3. s[k] \in There(y)
    BY <1>1, <1>2, RangeOf DEF There
  <2>4. Good(f[k]) /\ There(f[k]) = There(y)
    BY <2>1, <2>2, <2>3, DeleteBoxGood
  <2> QED
    BY <2>1, <2>4
<1>7. Len(s) \in B
  <2>1. \A k \in 1 .. Len(s) : k - 1 \in B => k \in B
    BY <1>6
  <2>2. Len(s) \in 0 .. Len(s)
    BY <1>2
  <2> HIDE DEF B
  <2> QED
    BY <1>2, <1>5, <2>1, <2>2, UpTo
<1> QED
  BY <1>3, <1>7

LEMMA SetToSeqIs ==
  ASSUME NEW S, IsFiniteSet(S)
  PROVE  /\ SetToSeq(S) \in Seq(S)
         /\ \A e \in S : \E i \in 1 .. Len(SetToSeq(S)) : SetToSeq(S)[i] = e
<1>1. Cardinality(S) \in Nat /\ ExistsBijection(1 .. Cardinality(S), S)
  BY FS_CardinalityType
<1>2. PICK g : g \in Bijection(1 .. Cardinality(S), S)
  BY <1>1 DEF ExistsBijection
<1>3. g \in [1 .. Cardinality(S) -> S] /\ IsInjective(g)
  BY <1>2 DEF Bijection, Injection, IsInjective
<1>4. PICK s : s = SetToSeq(S)
  OBVIOUS
<1>5. s \in [1 .. Cardinality(S) -> S] /\ IsInjective(s)
  BY <1>3, <1>4 DEF SetToSeq
<1>6. s \in Surjection(1 .. Cardinality(S), S)
  <2>1. s \in Injection(1 .. Cardinality(S), S)
    BY <1>5 DEF Injection, IsInjective
  <2>2. Cardinality(1 .. Cardinality(S)) = Cardinality(S)
    BY <1>1, FS_Interval
  <2> QED
    BY <2>1, <2>2, FS_Injection
<1>7. s \in Seq(S) /\ Len(s) = Cardinality(S)
  BY <1>1, <1>5
<1> QED
  BY <1>4, <1>6, <1>7 DEF Surjection

LEMMA FreeWidgetsGood ==
  ASSUME NEW y, Good(y)
  PROVE  Good(FreeWidgets(y))
<1>1. PICK s : s = SetToSeq(y.doomed)
  OBVIOUS
<1>2. y \in StateType /\ y.doomed \in SUBSET Boxes /\ MaxBoxes \in Nat
  BY StateFacts, OpDeskAssumption DEF Good, Books
<1>3. /\ s \in Seq(y.doomed) /\ Len(s) \in Nat
      /\ \A e \in y.doomed : \E i \in 1 .. Len(s) : s[i] = e
  <2>1. IsFiniteSet(y.doomed)
    <3>1. IsFiniteSet(1 .. MaxBoxes) /\ y.doomed \subseteq 1 .. MaxBoxes
      BY <1>2, FS_Interval DEF Boxes
    <3> QED
      BY <3>1, FS_Subset
  <2>2. s \in Seq(y.doomed) /\ \A e \in y.doomed : \E i \in 1 .. Len(s) : s[i] = e
    BY <1>1, <2>1, SetToSeqIs
  <2> QED
    BY <2>2
<1>4. PICK f : /\ IsLoop(f, "free", 0, y, s, Len(s))
               /\ FreeWidgets(y) =
                    [f[Len(s)] EXCEPT
                       !.doomed = {}, !.alive = @ \ ButtonsOf(y.doomed),
                       !.pushed = IF GetOpBox(@) \in y.doomed THEN NoButton ELSE @]
  BY <1>1, <1>3, FreeWidgetsLoops
<1>5. \A k \in 0 .. Len(s) :
        f[k] = IF k = 0 THEN y ELSE Turn("free", 0, f[k - 1], s[k])
  BY <1>4 DEF IsLoop
<1> DEFINE Free(k) == \A c \in Range(f[k].connects) : \A i \in 1 .. k : ~Touches(c, s[i])
           B == {k \in 0 .. Len(s) : Good(f[k]) /\ f[k].doomed = y.doomed /\ Free(k)}
<1>6. 0 \in B
  <2>1. f[0] = y /\ 0 \in 0 .. Len(s)
    BY <1>3, <1>5
  <2>2. Free(0)
    OBVIOUS
  <2> QED
    BY <2>1, <2>2
<1>7. ASSUME NEW k \in 1 .. Len(s), k - 1 \in B PROVE k \in B
  <2>1. /\ k \in 0 .. Len(s) /\ s[k] \in y.doomed
        /\ f[k] = _RemoveBox(DisconnectBox(f[k - 1], s[k]), s[k])
    BY <1>3, <1>5 DEF Turn
  <2>2. Good(f[k - 1]) /\ f[k - 1].doomed = y.doomed /\ Free(k - 1)
    BY <1>7
  <2>3. PICK b, d : b = s[k] /\ d = DisconnectBox(f[k - 1], b)
    OBVIOUS
  <2>4. /\ Good(d) /\ SameDesk(f[k - 1], d)
        /\ \A c \in Range(d.connects) : c \in Range(f[k - 1].connects) /\ ~Touches(c, b)
    BY <2>2, <2>3, DisconnectBoxFrees
  <2>5. PICK u : u = f[k] /\ u = _RemoveBox(d, b)
    BY <2>1, <2>3
  <2>6. /\ Books(u, {})
        /\ u.made = d.made /\ u.doomed = d.doomed /\ u.alive = d.alive
        /\ u.pushed = d.pushed /\ u.connects = d.connects
        /\ IsWithout(u.boxes, d.boxes, {b})
        /\ IsWithout(u.box_clipboard, d.box_clipboard, {b})
    <3>1. Books(d, {}) /\ \A c \in Range(d.connects) : ~Touches(c, b)
      BY <2>4 DEF Good
    <3>2. u = _RemoveBox(d, b)
      BY <2>5
    <3> QED
      BY ONLY <3>1, <3>2, RemoveBoxBooks
  <2>7. /\ Distinct(u.boxes) /\ Distinct(u.box_clipboard)
        /\ Range(u.box_clipboard) \subseteq Range(u.boxes)
        /\ Range(u.boxes) = Range(d.boxes) \ {b}
    BY <2>4, <2>6, RemovedHoused DEF Good
  <2>8. b \in d.doomed /\ d.doomed = y.doomed
    BY <2>1, <2>2, <2>3, <2>4 DEF SameDesk
  <2>9. Range(u.boxes) = Range(d.boxes)
    BY <2>4, <2>7, <2>8 DEF Good, Housed
  <2>10. Housed(u)
    BY <2>4, <2>6, <2>7, <2>9 DEF Good, Housed, There
  <2>11. Free(k)
    <3>1. ASSUME NEW c \in Range(u.connects), NEW i \in 1 .. k PROVE ~Touches(c, s[i])
      <4>1. c \in Range(f[k - 1].connects) /\ ~Touches(c, b)
        BY <2>4, <2>6
      <4>2. i = k \/ i \in 1 .. k - 1
        BY <1>3
      <4> QED
        BY <2>2, <2>3, <4>1, <4>2
    <3> QED
      BY <2>5, <3>1
  <2> HIDE DEF Free
  <2> QED
    BY <2>1, <2>5, <2>6, <2>8, <2>10, <2>11 DEF Good
<1>8. Len(s) \in B
  <2>1. \A k \in 1 .. Len(s) : k - 1 \in B => k \in B
    BY <1>7
  <2>2. Len(s) \in 0 .. Len(s)
    BY <1>3
  <2> HIDE DEF B
  <2> QED
    BY <1>3, <1>6, <2>1, <2>2, UpTo
<1>9. PICK u : /\ u = f[Len(s)] /\ Good(u) /\ u.doomed = y.doomed
               /\ \A c \in Range(u.connects) : \A i \in 1 .. Len(s) : ~Touches(c, s[i])
  BY <1>8
<1>10. PICK z : z = FreeWidgets(y)
  OBVIOUS
<1>11. z = [u EXCEPT !.doomed = {}, !.alive = @ \ ButtonsOf(y.doomed),
                     !.pushed = IF GetOpBox(@) \in y.doomed THEN NoButton ELSE @]
  BY <1>4, <1>9, <1>10
<1>12. u \in StateType
  BY <1>9 DEF Good, Books
<1>13. /\ z.doomed = {} /\ z.alive = u.alive \ ButtonsOf(u.doomed)
       /\ z.pushed = IF GetOpBox(u.pushed) \in u.doomed THEN NoButton ELSE u.pushed
       /\ z.boxes = u.boxes /\ z.box_clipboard = u.box_clipboard
       /\ z.made = u.made /\ z.connects = u.connects /\ z.connected_to = u.connected_to
       /\ z.redone = u.redone
  BY <1>9, <1>11, <1>12 DEF StateType
<1>14. z \in StateType
  BY <1>9, <1>11, <1>12 DEF StateType
<1>15. Books(z, {})
  <2>1. ASSUME NEW c \in Range(u.connects), NEW e \in {GetOpBox(c.src), GetOpBox(c.dst)}
        PROVE  e \in There(z)
    <3>1. e \in There(u)
      BY <1>9 DEF Good, Books, Sensible
    <3>2. e \notin y.doomed
      BY <1>3, <1>9 DEF Touches
    <3> QED
      BY <1>9, <1>13, <3>1, <3>2 DEF There
  <2>2. \A c \in Range(u.connects) :
          GetOpBox(c.src) \in There(z) /\ GetOpBox(c.dst) \in There(z)
    BY <2>1
  <2> QED
    BY <1>9, <1>13, <1>14, <2>2, CarriedBooks DEF Good
<1>16. Range(u.boxes) \cap u.doomed = {} /\ u.alive = ButtonsOf(Range(u.boxes) \cup u.doomed)
  BY <1>9 DEF Good, Housed, There
<1>17. z.alive = ButtonsOf(Range(z.boxes) \cup z.doomed)
  BY <1>13, <1>16 DEF ButtonsOf
<1>18. z.pushed \in z.alive \cup {NoButton}
  <2>1. u.pushed \in u.alive \cup {NoButton}
    BY <1>9 DEF Good, Housed
  <2>2. CASE u.pushed = NoButton
    BY <1>13, <2>2
  <2>3. CASE u.pushed \in u.alive
    BY <1>13, <1>16, <2>3 DEF ButtonsOf, GetOpBox
  <2> QED
    BY <2>1, <2>2, <2>3
<1>19. Housed(z)
  BY <1>9, <1>13, <1>17, <1>18 DEF Good, Housed, There
<1> QED
  BY <1>10, <1>15, <1>19 DEF Good

----------------------------------------------------------------------------
(* Pasting                                                                 *)

\* Fl_OpConnect::SetColor, and the attributes of a copied connection.
Recolor(y, k, color) == [y EXCEPT !.connects[k].color = color]

IsRecolored(y, z, k, color) ==
  /\ Books(z, {}) /\ SameDesk(y, z)
  /\ \A c : c \in Range(z.connects) <=>
              \/ c \in Range(y.connects) /\ c # y.connects[k]
              \/ c = [y.connects[k] EXCEPT !.color = color]

LEMMA Recolored ==
  ASSUME NEW y, Books(y, {}), NEW k \in 1 .. Len(y.connects), NEW color \in Colors,
         NEW z, z = Recolor(y, k, color)
  PROVE  IsRecolored(y, z, k, color)
<1>1. y \in StateType /\ y.connects \in Seq(Connections)
  BY StateFacts DEF Books
<1>2. PICK n : n = [y.connects[k] EXCEPT !.color = color]
  OBVIOUS
<1>3. /\ y.connects[k] \in Connections /\ n \in Connections
      /\ n.src = y.connects[k].src /\ n.dst = y.connects[k].dst
  <2>1. PICK o \in Connections : o = y.connects[k]
    BY <1>1
  <2>2. n = [o EXCEPT !.color = color]
    BY <1>2, <2>1
  <2>3. n \in Connections /\ n.src = o.src /\ n.dst = o.dst
    BY <2>2 DEF Connections
  <2> QED
    BY <2>1, <2>3
<1>4. PICK w : w = [y.connects EXCEPT ![k] = n]
  OBVIOUS
<1>5. /\ w \in Seq(Connections) /\ Len(w) = Len(y.connects) /\ w[k] = n
      /\ \A i \in 1 .. Len(y.connects) : i # k => w[i] = y.connects[i]
  BY <1>1, <1>3, <1>4
<1>6. z = [y EXCEPT !.connects = w]
  BY <1>2, <1>4 DEF Recolor
<1>7. /\ z \in StateType /\ SameDesk(y, z) /\ z.connects = w
      /\ z.connected_to = y.connected_to /\ z.redone = y.redone
  BY <1>1, <1>5, <1>6 DEF StateType, SameDesk, Connections
<1>8. \A i \in 1 .. Len(w) : w[i].src = y.connects[i].src /\ w[i].dst = y.connects[i].dst
  BY <1>3, <1>5
<1>9. DistinctPairs(w)
  BY <1>5, <1>8 DEF DistinctPairs, AreConnected, Books
<1>10. /\ \A c : c \in Range(w) <=> \E i \in 1 .. Len(w) : w[i] = c
       /\ \A c : c \in Range(y.connects) <=>
                   \E i \in 1 .. Len(y.connects) : y.connects[i] = c
  BY <1>1, <1>5, RangeOf
<1>11. ASSUME NEW p, NEW q PROVE Listed(z, p, q) <=> Listed(y, p, q)
  <2>1. Listed(z, p, q) <=> \E i \in 1 .. Len(w) : {w[i].src, w[i].dst} = {p, q}
    <3>1. Listed(z, p, q) <=> \E c \in Range(w) : {c.src, c.dst} = {p, q}
      BY <1>7 DEF Listed, AreConnected
    <3> QED
      BY <1>10, <3>1
  <2>2. Listed(y, p, q) <=> \E i \in 1 .. Len(y.connects) :
                              {y.connects[i].src, y.connects[i].dst} = {p, q}
    BY <1>10 DEF Listed, AreConnected
  <2> QED
    BY <1>5, <1>8, <2>1, <2>2
<1>12. ASSUME NEW c \in Range(z.connects) PROVE Sensible(z, c)
  <2>1. PICK i \in 1 .. Len(w) : w[i] = c
    BY <1>7, <1>10
  <2>2. y.connects[i] \in Range(y.connects)
    BY <1>5, <1>10
  <2>3. Sensible(y, y.connects[i]) /\ There(z) = There(y)
    BY <1>7, <2>2 DEF Books, SameDesk, There
  <2> QED
    BY <1>8, <2>1, <2>3 DEF Sensible
<1>13. Books(z, {})
  <2>1. \A p, q \in Buttons : Tells(z, p, q)
    BY <1>7, <1>11 DEF Books, Tells, In
  <2> QED
    BY <1>7, <1>9, <1>12, <2>1 DEF Books
<1>14. \A i \in 1 .. Len(y.connects) : y.connects[i] = y.connects[k] => i = k
  <2>1. \A c : AreConnected(c, c.src, c.dst)
    BY DEF AreConnected
  <2> QED
    BY <2>1 DEF Books, DistinctPairs
<1>15. ASSUME NEW c
       PROVE  c \in Range(w) <=> (c \in Range(y.connects) /\ c # y.connects[k]) \/ c = n
  BY <1>5, <1>10, <1>14
<1> QED
  BY <1>2, <1>7, <1>13, <1>15 DEF IsRecolored

\* The copy of a button, and of a connection: Connect lists it with the output first.
Copy(origs, base, c) ==
  <<base + CHOOSE k \in DOMAIN origs : origs[k] = GetOpBox(c), GetButtonType(c)>>

OutOf(c) == IF GetButtonType(c.src) = "out" THEN c.src ELSE c.dst
InOf(c) == IF GetButtonType(c.src) = "out" THEN c.dst ELSE c.src

Image(origs, base, moves, left, c) ==
  [src |-> Copy(origs, base, OutOf(c)), dst |-> Copy(origs, base, InOf(c)),
   color |-> IF moves THEN left ELSE c.color]

\* The copies are made, and nothing is connected to them yet.
Ready(m, origs, base, ok, moves, left) ==
  /\ Good(m) /\ origs \in Seq(Boxes) /\ Distinct(origs)
  /\ Range(origs) \subseteq Range(m.boxes)
  /\ base \in Nat
  /\ \A k \in 1 .. Len(origs) : base + k \in Range(m.boxes) /\ origs[k] <= base
  /\ \A c \in Range(m.connects) : GetOpBox(c.src) <= base /\ GetOpBox(c.dst) <= base
  /\ ok \in {Buttons, {}} /\ moves \in BOOLEAN /\ left \in Colors

LEMMA CopyFacts ==
  ASSUME NEW m, NEW origs, NEW base, NEW ok, NEW moves, NEW left,
         Ready(m, origs, base, ok, moves, left)
  PROVE  /\ \A a \in Buttons : GetOpBox(a) \in Range(origs) =>
              /\ Copy(origs, base, a) \in Buttons
              /\ GetButtonType(Copy(origs, base, a)) = GetButtonType(a)
              /\ GetOpBox(Copy(origs, base, a)) \in Range(m.boxes)
              /\ GetOpBox(Copy(origs, base, a)) \in Nat
              /\ GetOpBox(Copy(origs, base, a)) > base
              /\ \E k \in 1 .. Len(origs) : /\ origs[k] = GetOpBox(a)
                                            /\ GetOpBox(Copy(origs, base, a)) = base + k
         /\ \A a, b \in Buttons :
              /\ GetOpBox(a) \in Range(origs) /\ GetOpBox(b) \in Range(origs)
              /\ Copy(origs, base, a) = Copy(origs, base, b)
              => a = b
<1>1. origs \in Seq(Boxes) /\ base \in Nat /\ Len(origs) \in Nat /\ DOMAIN origs = 1 .. Len(origs)
  BY DEF Ready
<1>2. m \in StateType /\ Range(m.boxes) \subseteq Boxes
  <2>1. m \in StateType
    BY DEF Ready, Good, Books
  <2> QED
    BY <2>1, StateFacts, RangeOf
<1>3. ASSUME NEW a \in Buttons, GetOpBox(a) \in Range(origs)
      PROVE  \E k \in 1 .. Len(origs) : /\ origs[k] = GetOpBox(a)
                                        /\ Copy(origs, base, a) = <<base + k, GetButtonType(a)>>
  <2>1. \E k \in DOMAIN origs : origs[k] = GetOpBox(a)
    BY <1>1, <1>3, RangeOf
  <2>2. PICK k : k = CHOOSE i \in DOMAIN origs : origs[i] = GetOpBox(a)
    OBVIOUS
  <2>3. k \in DOMAIN origs /\ origs[k] = GetOpBox(a)
    BY <2>1, <2>2
  <2> QED
    BY <1>1, <2>2, <2>3 DEF Copy
<1>4. ASSUME NEW a \in Buttons, GetOpBox(a) \in Range(origs)
      PROVE  /\ Copy(origs, base, a) \in Buttons
             /\ GetButtonType(Copy(origs, base, a)) = GetButtonType(a)
             /\ GetOpBox(Copy(origs, base, a)) \in Range(m.boxes)
             /\ GetOpBox(Copy(origs, base, a)) \in Nat
             /\ GetOpBox(Copy(origs, base, a)) > base
             /\ \E k \in 1 .. Len(origs) : /\ origs[k] = GetOpBox(a)
                                           /\ GetOpBox(Copy(origs, base, a)) = base + k
  <2>1. PICK k \in 1 .. Len(origs) : /\ origs[k] = GetOpBox(a)
                                     /\ Copy(origs, base, a) = <<base + k, GetButtonType(a)>>
    BY <1>3, <1>4
  <2>2. base + k \in Range(m.boxes) /\ base + k \in Boxes
    BY <1>2 DEF Ready
  <2>3. GetButtonType(a) \in {"in", "out"}
    BY ButtonFacts
  <2>4. /\ GetButtonType(Copy(origs, base, a)) = GetButtonType(a)
        /\ GetOpBox(Copy(origs, base, a)) = base + k
    BY <2>1 DEF GetButtonType, GetOpBox
  <2>5. base + k \in Nat /\ base + k > base
    BY <1>1
  <2>6. Copy(origs, base, a) \in Buttons
    BY <2>1, <2>2, <2>3 DEF Buttons
  <2> QED
    BY <2>1, <2>2, <2>4, <2>5, <2>6
<1>5. ASSUME NEW a \in Buttons, NEW b \in Buttons,
             GetOpBox(a) \in Range(origs), GetOpBox(b) \in Range(origs),
             Copy(origs, base, a) = Copy(origs, base, b)
      PROVE  a = b
  <2>1. PICK j \in 1 .. Len(origs) : /\ origs[j] = GetOpBox(a)
                                     /\ Copy(origs, base, a) = <<base + j, GetButtonType(a)>>
    BY <1>3, <1>5
  <2>2. PICK k \in 1 .. Len(origs) : /\ origs[k] = GetOpBox(b)
                                     /\ Copy(origs, base, b) = <<base + k, GetButtonType(b)>>
    BY <1>3, <1>5
  <2>3. base + j = base + k /\ GetButtonType(a) = GetButtonType(b)
    <3>1. <<base + j, GetButtonType(a)>> = <<base + k, GetButtonType(b)>>
      BY <1>5, <2>1, <2>2
    <3> QED
      BY <3>1
  <2>4. j = k
    BY <1>1, <2>3
  <2> QED
    BY <2>1, <2>2, <2>3, <2>4, ButtonFacts
<1> QED
  BY <1>4, <1>5

\* The connections between the boxes that are copied.
Inner(m, origs) == {c \in Range(m.connects) : /\ GetOpBox(c.src) \in Range(origs)
                                              /\ GetOpBox(c.dst) \in Range(origs)}

\* From m to z the connections in W, and no others, were copied.
Pasted(m, z, origs, base, moves, left, W) ==
  /\ Good(z) /\ SameDesk(m, z)
  /\ \A c : c \in Range(z.connects) <=>
              \/ c \in Range(m.connects)
              \/ \E o \in W : c = Image(origs, base, moves, left, o)

\* Nothing is copied when the application refuses.
Done(ok, W) == IF ok = {} THEN {} ELSE W

\* There is one connection for each pair of buttons.
LEMMA OnePerPair ==
  ASSUME NEW y, Books(y, {}), NEW c \in Range(y.connects), NEW d \in Range(y.connects),
         Pair(c) = Pair(d)
  PROVE  c = d
<1>1. y.connects \in Seq(Connections)
  BY StateFacts DEF Books
<1>2. PICK i \in 1 .. Len(y.connects) : y.connects[i] = c
  BY <1>1, RangeOf
<1>3. PICK j \in 1 .. Len(y.connects) : y.connects[j] = d
  BY <1>1, RangeOf
<1> QED
  BY <1>2, <1>3 DEF Books, DistinctPairs, AreConnected, Pair

\* A connection has an output and an input, which has the output in its list.
LEMMA EndsFacts ==
  ASSUME NEW y, Books(y, {}), NEW c \in Range(y.connects)
  PROVE  /\ OutOf(c) \in Buttons /\ GetButtonType(OutOf(c)) = "out"
         /\ InOf(c) \in Buttons /\ GetButtonType(InOf(c)) = "in"
         /\ Pair(c) = {OutOf(c), InOf(c)} /\ In(y, InOf(c), OutOf(c))
         /\ \/ OutOf(c) = c.src /\ InOf(c) = c.dst
            \/ OutOf(c) = c.dst /\ InOf(c) = c.src
<1>1. y \in StateType /\ Sensible(y, c) /\ c.src \in Buttons /\ c.dst \in Buttons
  BY ConnectsFacts DEF Books
<1>2. GetButtonType(c.src) \in {"in", "out"} /\ GetButtonType(c.dst) \in {"in", "out"}
  BY <1>1, ButtonFacts
<1>3. /\ OutOf(c) \in Buttons /\ GetButtonType(OutOf(c)) = "out"
      /\ InOf(c) \in Buttons /\ GetButtonType(InOf(c)) = "in"
      /\ \/ OutOf(c) = c.src /\ InOf(c) = c.dst
         \/ OutOf(c) = c.dst /\ InOf(c) = c.src
  BY <1>1, <1>2 DEF OutOf, InOf, Sensible
<1>4. PICK a \in Buttons, b \in Buttons : a = OutOf(c) /\ b = InOf(c)
  BY <1>3
<1>5. Pair(c) = {a, b} /\ Pair(c) = {b, a}
  BY <1>3, <1>4 DEF Pair
<1>6. Listed(y, b, a)
  BY <1>5, ListedIs
<1>7. In(y, b, a)
  <2>1. <<b, a>> \notin {} /\ GetButtonType(b) = "in"
    BY <1>3, <1>4
  <2> QED
    BY ONLY Books(y, {}), <1>4, <1>6, <2>1, InputTells
<1> QED
  BY <1>3, <1>4, <1>5, <1>7

\* An input has one connection.
LEMMA OnePerInput ==
  ASSUME NEW y, Books(y, {}), NEW c \in Range(y.connects), NEW d \in Range(y.connects),
         InOf(c) = InOf(d)
  PROVE  c = d
<1>1. y \in StateType
  BY DEF Books
<1>2. PICK a, b, e : a = InOf(c) /\ b = OutOf(c) /\ e = OutOf(d)
  OBVIOUS
<1>3. /\ a \in Buttons /\ GetButtonType(a) = "in"
      /\ Pair(c) = {b, a} /\ Pair(d) = {e, a} /\ In(y, a, b) /\ In(y, a, e)
  BY <1>2, EndsFacts
<1>4. PICK s : s = y.connected_to[a]
  OBVIOUS
<1>5. s \in Seq(Buttons) /\ Single(s) /\ b \in Range(s) /\ e \in Range(s)
  BY <1>1, <1>3, <1>4, StateFacts DEF Books, In
<1>6. PICK i \in 1 .. Len(s) : s[i] = b
  BY <1>5, RangeOf
<1>7. PICK j \in 1 .. Len(s) : s[j] = e
  BY <1>5, RangeOf
<1>8. Pair(c) = Pair(d)
  BY <1>3, <1>5, <1>6, <1>7 DEF Single
<1> QED
  BY <1>8, OnePerPair

\* The facts about the connection o of a to b and its copy that a turn of the loop
\* uses.
LEMMA OriginalIs ==
  ASSUME NEW m, NEW origs, NEW base, NEW ok, NEW moves, NEW left,
         Ready(m, origs, base, ok, moves, left),
         NEW a \in Buttons, NEW b \in Buttons, In(m, a, b)
  PROVE  \E o \in Range(m.connects) :
           /\ o = CHOOSE c \in Range(m.connects) : AreConnected(c, a, b)
           /\ Pair(o) = {a, b} /\ o.color \in Colors
           /\ \A c \in Range(m.connects) : Pair(c) = {a, b} => c = o
           /\ \/ /\ a = OutOf(o) /\ b = InOf(o)
                 /\ GetButtonType(a) = "out" /\ GetButtonType(b) = "in"
              \/ /\ a = InOf(o) /\ b = OutOf(o)
                 /\ GetButtonType(a) = "in" /\ GetButtonType(b) = "out"
<1>1. Books(m, {}) /\ m \in StateType
  BY DEF Ready, Good, Books
<1>2. Listed(m, a, b)
  BY <1>1 DEF Books, Tells
<1>3. PICK o : o = CHOOSE c \in Range(m.connects) : AreConnected(c, a, b)
  OBVIOUS
<1>4. o \in Range(m.connects) /\ Pair(o) = {a, b}
  BY <1>2, <1>3 DEF Listed, AreConnected, Pair
<1>5. \A c \in Range(m.connects) : Pair(c) = {a, b} => c = o
  BY <1>1, <1>4, OnePerPair
<1>6. o.color \in Colors
  BY <1>1, <1>4, ConnectsFacts, ConnectionFacts
<1>7. PICK p, q : p = OutOf(o) /\ q = InOf(o)
  OBVIOUS
<1>8. GetButtonType(p) = "out" /\ GetButtonType(q) = "in" /\ {p, q} = {a, b}
  BY <1>1, <1>4, <1>7, EndsFacts
<1>9. (p = a /\ q = b) \/ (p = b /\ q = a)
  BY <1>8, PairsEqual
<1> QED
  BY <1>3, <1>4, <1>5, <1>6, <1>7, <1>8, <1>9

\* A connection of z between copies is the copy of a connection in W.
LEMMA ImagesOnly ==
  ASSUME NEW m, NEW z, NEW origs, NEW base, NEW ok, NEW moves, NEW left, NEW W,
         Ready(m, origs, base, ok, moves, left), W \subseteq Inner(m, origs),
         Pasted(m, z, origs, base, moves, left, W),
         NEW c \in Range(z.connects), NEW a \in Buttons, GetOpBox(a) \in Range(origs),
         Copy(origs, base, a) \in {c.src, c.dst}
  PROVE  \E o \in W : /\ c = Image(origs, base, moves, left, o)
                      /\ o \in Range(m.connects)
                      /\ GetOpBox(OutOf(o)) \in Range(origs) /\ GetOpBox(InOf(o)) \in Range(origs)
<1>1. GetOpBox(Copy(origs, base, a)) > base /\ GetOpBox(Copy(origs, base, a)) \in Nat
  BY CopyFacts
<1>2. base \in Nat /\ Books(m, {})
  BY DEF Ready, Good
<1>3. c \notin Range(m.connects)
  <2>1. ASSUME c \in Range(m.connects) PROVE FALSE
    <3>1. GetOpBox(c.src) <= base /\ GetOpBox(c.dst) <= base
      BY <2>1 DEF Ready
    <3>2. GetOpBox(Copy(origs, base, a)) <= base
      BY <3>1
    <3> QED
      BY <1>1, <1>2, <3>2
  <2> QED
    BY <2>1
<1>4. PICK o \in W : c = Image(origs, base, moves, left, o)
  BY <1>3 DEF Pasted
<1>5. /\ o \in Range(m.connects)
      /\ GetOpBox(o.src) \in Range(origs) /\ GetOpBox(o.dst) \in Range(origs)
  BY DEF Inner
<1> QED
  BY <1>2, <1>4, <1>5, EndsFacts

LEMMA ImageFields ==
  ASSUME NEW origs, NEW base, NEW moves, NEW left, NEW o
  PROVE  /\ Image(origs, base, moves, left, o).src = Copy(origs, base, OutOf(o))
         /\ Image(origs, base, moves, left, o).dst = Copy(origs, base, InOf(o))
         /\ Image(origs, base, moves, left, o).color = IF moves THEN left ELSE o.color
BY DEF Image

\* The copy of an input has a connection when that of the input was copied already.
LEMMA CopiedAlready ==
  ASSUME NEW m, NEW z, NEW origs, NEW base, NEW ok, NEW moves, NEW left, NEW V,
         Ready(m, origs, base, ok, moves, left), V \subseteq Inner(m, origs),
         Pasted(m, z, origs, base, moves, left, V),
         NEW o \in Inner(m, origs), NEW c \in Range(z.connects),
         Copy(origs, base, InOf(o)) \in Pair(c)
  PROVE  o \in V
<1>1. Books(m, {})
  BY DEF Ready, Good
<1>2. /\ o \in Range(m.connects)
      /\ GetOpBox(o.src) \in Range(origs) /\ GetOpBox(o.dst) \in Range(origs)
  BY DEF Inner
<1>3. PICK i : i = InOf(o)
  OBVIOUS
<1>4. i \in Buttons /\ GetButtonType(i) = "in" /\ GetOpBox(i) \in Range(origs)
  BY <1>1, <1>2, <1>3, EndsFacts
<1>5. PICK d : d = Copy(origs, base, i)
  OBVIOUS
<1>6. d \in {c.src, c.dst}
  BY <1>3, <1>5 DEF Pair
<1>7. PICK e \in V : /\ c = Image(origs, base, moves, left, e)
                     /\ e \in Range(m.connects)
                     /\ GetOpBox(OutOf(e)) \in Range(origs) /\ GetOpBox(InOf(e)) \in Range(origs)
  BY <1>4, <1>5, <1>6, ImagesOnly
<1>8. PICK p, r : p = OutOf(e) /\ r = InOf(e)
  OBVIOUS
<1>9. /\ p \in Buttons /\ r \in Buttons /\ GetButtonType(p) = "out"
      /\ GetOpBox(p) \in Range(origs) /\ GetOpBox(r) \in Range(origs)
      /\ c.src = Copy(origs, base, p) /\ c.dst = Copy(origs, base, r)
  BY <1>1, <1>7, <1>8, EndsFacts, ImageFields
<1>10. \A a, b \in Buttons : /\ GetOpBox(a) \in Range(origs) /\ GetOpBox(b) \in Range(origs)
                             /\ Copy(origs, base, a) = Copy(origs, base, b)
                             => a = b
  BY CopyFacts
<1>11. i = r
  <2>1. CASE c.dst = d
    BY <1>4, <1>5, <1>9, <1>10, <2>1
  <2>2. CASE c.src = d
    <3>1. i = p
      BY <1>4, <1>5, <1>9, <1>10, <2>2
    <3> QED
      BY <1>4, <1>9, <3>1
  <2> QED
    BY <1>6, <2>1, <2>2
<1> QED
  BY <1>1, <1>2, <1>3, <1>7, <1>8, <1>11, OnePerInput

\* The connections of W, and that of a to b.
With(m, origs, W, a, b) == W \cup {c \in Inner(m, origs) : Pair(c) = {a, b}}

\* A turn of the innermost loop of CopyConnections copies one connection.
LEMMA CopyConnectionPasted ==
  ASSUME NEW m, NEW z, NEW origs, NEW base, NEW ok, NEW moves, NEW left, NEW W,
         Ready(m, origs, base, ok, moves, left), W \subseteq Inner(m, origs),
         Pasted(m, z, origs, base, moves, left, Done(ok, W)),
         NEW a \in Buttons, NEW b \in Buttons, In(m, a, b), GetOpBox(a) \in Range(origs)
  PROVE  Pasted(m, CopyConnection(m, z, a, b, origs, base, ok, moves, left),
                origs, base, moves, left, Done(ok, With(m, origs, W, a, b)))
<1>1. PICK V : V = Done(ok, W)
  OBVIOUS
<1>2. V \subseteq Inner(m, origs) /\ Pasted(m, z, origs, base, moves, left, V)
  BY <1>1 DEF Done
<1>3. PICK n : n = CopyConnection(m, z, a, b, origs, base, ok, moves, left)
  OBVIOUS
<1>4. PICK o \in Range(m.connects) :
           /\ o = CHOOSE c \in Range(m.connects) : AreConnected(c, a, b)
           /\ Pair(o) = {a, b} /\ o.color \in Colors
           /\ \A c \in Range(m.connects) : Pair(c) = {a, b} => c = o
           /\ \/ /\ a = OutOf(o) /\ b = InOf(o)
                 /\ GetButtonType(a) = "out" /\ GetButtonType(b) = "in"
              \/ /\ a = InOf(o) /\ b = OutOf(o)
                 /\ GetButtonType(a) = "in" /\ GetButtonType(b) = "out"
  BY OriginalIs
<1>5. CASE GetOpBox(b) \notin Range(origs)
  <2>1. n = z
    BY <1>3, <1>5 DEF CopyConnection
  <2>2. ASSUME NEW c \in Inner(m, origs) PROVE Pair(c) # {a, b}
    <3>1. GetOpBox(c.src) \in Range(origs) /\ GetOpBox(c.dst) \in Range(origs)
      BY DEF Inner
    <3>2. b \in Pair(c) => b = c.src \/ b = c.dst
      BY DEF Pair
    <3> QED
      BY <1>5, <3>1, <3>2
  <2>3. With(m, origs, W, a, b) = W
    BY <2>2 DEF With
  <2> QED
    BY <1>3, <2>1, <2>3
<1>6. CASE GetOpBox(b) \in Range(origs)
  <2>1. o \in Inner(m, origs)
    <3>1. o.src \in {a, b} /\ o.dst \in {a, b}
      BY <1>4 DEF Pair
    <3> QED
      BY <1>6, <3>1 DEF Inner
  <2>2. With(m, origs, W, a, b) = W \cup {o}
    BY <1>4, <2>1 DEF With, Inner
  <2>3. PICK A : A = Copy(origs, base, a)
    OBVIOUS
  <2>4. PICK D : D = Copy(origs, base, b)
    OBVIOUS
  <2>5. /\ A \in Buttons /\ D \in Buttons
        /\ GetButtonType(A) = GetButtonType(a) /\ GetButtonType(D) = GetButtonType(b)
        /\ GetOpBox(A) \in Range(m.boxes) /\ GetOpBox(D) \in Range(m.boxes)
    BY <1>6, <2>3, <2>4, CopyFacts
  <2>6. /\ Books(z, {}) /\ Housed(z)
        /\ GetOpBox(A) \in There(z) /\ GetOpBox(D) \in There(z)
    BY <1>2, <2>5 DEF Pasted, Good, SameDesk, There
  <2>7. PICK r : r = Connect(z, A, D, ok)
    OBVIOUS
  <2>8. ConnectReturns(z, r, A, D, ok)
    BY <2>5, <2>6, <2>7, ConnectIs
  <2>9. n = IF r.ret # 0 THEN r.st
            ELSE [r.st EXCEPT !.connects[Len(r.st.connects)].color =
                                 IF moves THEN left ELSE o.color]
    BY <1>3, <1>4, <1>6, <2>3, <2>4, <2>7 DEF CopyConnection, Copy
  <2>10. CASE r.ret = 1
    <3>1. Listed(z, A, D) /\ n = z
      BY <2>8, <2>9, <2>10 DEF ConnectReturns
    <3>2. PICK c \in Range(z.connects) : Pair(c) = {A, D}
      BY <3>1, ListedIs
    <3>3. o \in V
      <4>1. Copy(origs, base, InOf(o)) \in Pair(c)
        BY <1>4, <2>3, <2>4, <3>2
      <4> QED
        BY <1>2, <2>1, <4>1, CopiedAlready
    <3>4. Done(ok, W \cup {o}) = V
      BY <1>1, <3>3 DEF Done
    <3> QED
      BY <1>2, <1>3, <2>2, <3>1, <3>4
  <2>11. CASE r.ret = -1
    <3>1. Refused(z, r.st, {}) /\ ~({A, D} \subseteq ok) /\ n = r.st
      BY <1>4, <2>5, <2>8, <2>9, <2>11 DEF ConnectReturns
    <3>2. ok = {}
      BY <2>5, <3>1 DEF Ready
    <3>3. Done(ok, W \cup {o}) = V
      BY <1>1, <3>2 DEF Done
    <3>4. Good(n) /\ SameDesk(m, n) /\ n.connects = z.connects
      <4>1. Books(n, {}) /\ SameDesk(z, n) /\ n.connects = z.connects
        BY <3>1 DEF Refused
      <4>2. Housed(n)
        BY <2>6, <4>1, SameHoused
      <4>3. SameDesk(m, n)
        BY <1>2, <4>1 DEF Pasted, SameDesk
      <4> QED
        BY <4>1, <4>2, <4>3 DEF Good
    <3>5. Pasted(m, n, origs, base, moves, left, V)
      BY <1>2, <3>4 DEF Pasted
    <3> QED
      BY <1>3, <2>2, <3>3, <3>5
  <2>12. CASE r.ret = 0
    <3>1. PICK S : S = Copy(origs, base, OutOf(o))
      OBVIOUS
    <3>2. PICK T : T = Copy(origs, base, InOf(o))
      OBVIOUS
    <3>3. /\ ~Listed(z, S, T) /\ {A, D} \subseteq ok /\ Connected(z, r.st, S, T)
      BY <1>4, <2>3, <2>4, <2>5, <2>8, <2>12, <3>1, <3>2, ListedBoth DEF ConnectReturns
    <3>4. ok = Buttons /\ Done(ok, W \cup {o}) = W \cup {o} /\ V = W
      <4>1. ok # {}
        BY <3>3
      <4> QED
        BY <1>1, <4>1 DEF Ready, Done
    <3>5. \A c \in Range(z.connects) : T \notin Pair(c)
      <4>1. ASSUME NEW c \in Range(z.connects), T \in Pair(c) PROVE FALSE
        <5>1. o \in V
          BY <1>2, <2>1, <3>2, <4>1, CopiedAlready
        <5>2. PICK i : i = Image(origs, base, moves, left, o)
          OBVIOUS
        <5>3. i \in Range(z.connects)
          BY <1>2, <5>1, <5>2 DEF Pasted
        <5>4. Pair(i) = {S, T}
          BY <3>1, <3>2, <5>2, ImageFields DEF Pair
        <5> QED
          BY <3>3, <5>3, <5>4, ListedIs
      <4> QED
        BY <4>1
    <3>6. PICK u : u = r.st
      OBVIOUS
    <3>7. /\ Books(u, {}) /\ SameDesk(z, u) /\ EndsWith(u, S, T)
          /\ \A c : c \in Range(u.connects) <=> c \in Range(z.connects) \/ c = New(S, T)
      BY <3>3, <3>5, <3>6 DEF Connected
    <3>8. PICK color : color = IF moves THEN left ELSE o.color
      OBVIOUS
    <3>9. color \in Colors
      BY <1>4, <3>8 DEF Ready
    <3>10. PICK k : k = Len(u.connects)
      OBVIOUS
    <3>11. n = Recolor(u, k, color)
      BY <2>9, <2>12, <3>6, <3>8, <3>10 DEF Recolor
    <3>12. k \in 1 .. Len(u.connects) /\ u.connects[k] = New(S, T)
      <4>1. u.connects \in Seq(Connections) /\ u.connects # <<>>
        BY <3>7, StateFacts DEF Books, EndsWith
      <4> QED
        BY <3>7, <3>10, <4>1 DEF EndsWith
    <3>13. IsRecolored(u, n, k, color)
      <4>1. Books(u, {}) /\ k \in 1 .. Len(u.connects)
        BY <3>7, <3>12
      <4> QED
        BY <3>9, <3>11, <4>1, Recolored
    <3>14. [u.connects[k] EXCEPT !.color = color] = Image(origs, base, moves, left, o)
      <4>1. [New(S, T) EXCEPT !.color = color] = [src |-> S, dst |-> T, color |-> color]
        BY DEF New
      <4> QED
        BY <3>1, <3>2, <3>8, <3>12, <4>1 DEF Image
    <3>15. New(S, T) \notin Range(z.connects)
      <4>1. T \in Pair(New(S, T))
        BY DEF New, Pair
      <4> QED
        BY <3>5, <4>1
    <3>16. ASSUME NEW c
           PROVE  c \in Range(n.connects) <=>
                     \/ c \in Range(m.connects)
                     \/ \E e \in W \cup {o} : c = Image(origs, base, moves, left, e)
      <4>1. c \in Range(n.connects) <=>
              c \in Range(z.connects) \/ c = Image(origs, base, moves, left, o)
        BY <3>7, <3>12, <3>13, <3>14, <3>15 DEF IsRecolored
      <4>2. c \in Range(z.connects) <=>
                     \/ c \in Range(m.connects)
                     \/ \E e \in W : c = Image(origs, base, moves, left, e)
        BY <1>2, <3>4 DEF Pasted
      <4> QED
        BY <4>1, <4>2
    <3>17. Good(n) /\ SameDesk(m, n)
      <4>1. SameDesk(z, n) /\ SameDesk(m, n)
        BY <1>2, <3>7, <3>13 DEF Pasted, SameDesk, IsRecolored
      <4> QED
        BY <2>6, <3>13, <4>1, SameHoused DEF Good, IsRecolored
    <3>18. Pasted(m, n, origs, base, moves, left, W \cup {o})
      BY <3>16, <3>17 DEF Pasted
    <3> QED
      BY <1>3, <2>2, <3>4, <3>18
  <2> QED
    BY <2>8, <2>10, <2>11, <2>12 DEF ConnectReturns
<1> QED
  BY <1>5, <1>6

\* The connections of W, and those of a to the first k buttons of s.
WithFirst(m, origs, W, a, s, k) ==
  W \cup {c \in Inner(m, origs) : \E i \in 1 .. k : Pair(c) = {a, s[i]}}

\* The connections of W, and those in the list of a.
Met(m, c, a) == \E b \in Range(m.connected_to[a]) : Pair(c) = {a, b}

WithAll(m, origs, W, a) == W \cup {c \in Inner(m, origs) : Met(m, c, a)}

LEMMA WithFirstIs ==
  ASSUME NEW m, NEW origs, NEW W, NEW a, NEW s, NEW k \in Nat, k # 0
  PROVE  WithFirst(m, origs, W, a, s, k) =
           With(m, origs, WithFirst(m, origs, W, a, s, k - 1), a, s[k])
<1>1. \A i : i \in 1 .. k <=> i \in 1 .. k - 1 \/ i = k
  OBVIOUS
<1>2. ASSUME NEW c PROVE (\E i \in 1 .. k : Pair(c) = {a, s[i]}) <=>
           (\E i \in 1 .. k - 1 : Pair(c) = {a, s[i]}) \/ Pair(c) = {a, s[k]}
  BY <1>1, Zenon
<1> QED
  BY <1>2 DEF WithFirst, With

\* The loop over the connections of a button copies them all.
LEMMA CopyButtonPasted ==
  ASSUME NEW m, NEW z, NEW origs, NEW base, NEW ok, NEW moves, NEW left, NEW W,
         Ready(m, origs, base, ok, moves, left), W \subseteq Inner(m, origs),
         Pasted(m, z, origs, base, moves, left, Done(ok, W)),
         NEW a \in Buttons, GetOpBox(a) \in Range(origs)
  PROVE  Pasted(m, CopyButton(m, z, a, origs, base, ok, moves, left),
                origs, base, moves, left, Done(ok, WithAll(m, origs, W, a)))
<1>1. m \in StateType /\ Books(m, {})
  BY DEF Ready, Good, Books
<1>2. PICK s : s = m.connected_to[a]
  OBVIOUS
<1>3. s \in Seq(Buttons) /\ Len(s) \in Nat
  BY <1>1, <1>2, StateFacts
<1>4. PICK p : p = <<m, a, origs, base, ok, moves, left>>
  OBVIOUS
<1>5. PICK f : /\ IsLoop(f, "copy", p, z, s, Len(s))
               /\ CopyButton(m, z, a, origs, base, ok, moves, left) = f[Len(s)]
  BY <1>2, <1>3, <1>4, CopyButtonLoops
<1>6. \A k \in 0 .. Len(s) :
        f[k] = IF k = 0 THEN z ELSE Turn("copy", p, f[k - 1], s[k])
  BY <1>5 DEF IsLoop
<1>7. ASSUME NEW k \in 1 .. Len(s)
      PROVE  f[k] = CopyConnection(m, f[k - 1], a, s[k], origs, base, ok, moves, left)
  <2>1. f[k] = Turn("copy", p, f[k - 1], s[k])
    BY <1>3, <1>6
  <2>2. Turn("copy", p, f[k - 1], s[k]) =
          CopyConnection(p[1], f[k - 1], p[2], s[k], p[3], p[4], p[5], p[6], p[7])
    BY DEF Turn
  <2>3. p[1] = m /\ p[2] = a /\ p[3] = origs /\ p[4] = base /\ p[5] = ok /\ p[6] = moves /\ p[7] = left
    BY <1>4
  <2> QED
    BY <2>1, <2>2, <2>3
<1> DEFINE U(k) == WithFirst(m, origs, W, a, s, k)
           B == {k \in 0 .. Len(s) : Pasted(m, f[k], origs, base, moves, left, Done(ok, U(k)))}
<1>8. 0 \in B
  <2>1. f[0] = z /\ 0 \in 0 .. Len(s)
    BY <1>3, <1>6
  <2>2. U(0) = W
    BY DEF WithFirst
  <2> QED
    BY <2>1, <2>2
<1>9. ASSUME NEW k \in 1 .. Len(s), k - 1 \in B PROVE k \in B
  <2>1. k \in 0 .. Len(s) /\ k \in Nat /\ k # 0
    BY <1>3
  <2>2. U(k) = With(m, origs, U(k - 1), a, s[k])
    BY <2>1, WithFirstIs
  <2>3. Pasted(m, f[k - 1], origs, base, moves, left, Done(ok, U(k - 1)))
    BY <1>9
  <2>4. s[k] \in Buttons /\ In(m, a, s[k])
    BY <1>2, <1>3, RangeOf DEF In
  <2>5. U(k - 1) \subseteq Inner(m, origs)
    BY DEF WithFirst
  <2> HIDE DEF U
  <2>6. Pasted(m, f[k], origs, base, moves, left, Done(ok, U(k)))
    BY <1>7, <2>2, <2>3, <2>4, <2>5, CopyConnectionPasted
  <2> QED
    BY <2>1, <2>6
<1>10. Len(s) \in B
  <2>1. \A k \in 1 .. Len(s) : k - 1 \in B => k \in B
    BY <1>9
  <2>2. Len(s) \in 0 .. Len(s)
    BY <1>3
  <2> HIDE DEF B
  <2> QED
    BY <1>3, <1>8, <2>1, <2>2, UpTo
<1>11. U(Len(s)) = WithAll(m, origs, W, a)
  <2>1. ASSUME NEW c
        PROVE  (\E i \in 1 .. Len(s) : Pair(c) = {a, s[i]}) <=> Met(m, c, a)
    <3>1. \A b : b \in Range(s) <=> \E i \in 1 .. Len(s) : s[i] = b
      BY <1>3, RangeOf
    <3>2. Met(m, c, a) <=> \E b \in Range(s) : Pair(c) = {a, b}
      BY <1>2 DEF Met
    <3>3. PICK P : P = Pair(c)
      OBVIOUS
    <3> QED
      BY <3>1, <3>2, <3>3
  <2> QED
    BY <2>1 DEF WithFirst, WithAll
<1> QED
  BY <1>5, <1>10, <1>11

\* The connections of the first k boxes that are copied.
OfFirst(m, origs, k) ==
  {c \in Inner(m, origs) :
     \E i \in 1 .. k : Met(m, c, <<origs[i], "in">>) \/ Met(m, c, <<origs[i], "out">>)}

LEMMA OfFirstIs ==
  ASSUME NEW m, NEW origs
  PROVE  /\ OfFirst(m, origs, 0) = {}
         /\ \A k \in Nat : k # 0 => OfFirst(m, origs, k) =
              WithAll(m, origs, WithAll(m, origs, OfFirst(m, origs, k - 1), <<origs[k], "in">>),
                      <<origs[k], "out">>)
<1>1. OfFirst(m, origs, 0) = {}
  BY DEF OfFirst
<1>2. ASSUME NEW k \in Nat, k # 0
      PROVE  OfFirst(m, origs, k) =
              WithAll(m, origs, WithAll(m, origs, OfFirst(m, origs, k - 1), <<origs[k], "in">>),
                      <<origs[k], "out">>)
  <2>1. \A i : i \in 1 .. k <=> i \in 1 .. k - 1 \/ i = k
    BY <1>2
  <2>2. ASSUME NEW c
        PROVE  (\E i \in 1 .. k : Met(m, c, <<origs[i], "in">>) \/ Met(m, c, <<origs[i], "out">>)) <=>
               \/ \E i \in 1 .. k - 1 : Met(m, c, <<origs[i], "in">>) \/ Met(m, c, <<origs[i], "out">>)
               \/ Met(m, c, <<origs[k], "in">>) \/ Met(m, c, <<origs[k], "out">>)
    BY <2>1, Zenon
  <2> QED
    BY <2>2 DEF OfFirst, WithAll
<1> QED
  BY <1>1, <1>2

\* Fl_OpDesk::CopyConnections copies the connections between the boxes that are
\* copied.
LEMMA CopyConnectionsPasted ==
  ASSUME NEW m, NEW origs, NEW base, NEW ok, NEW moves, NEW left,
         Ready(m, origs, base, ok, moves, left)
  PROVE  Pasted(m, CopyConnections(m, origs, base, ok, moves, left),
                origs, base, moves, left, Done(ok, Inner(m, origs)))
<1>1. m \in StateType /\ Books(m, {}) /\ Good(m)
  BY DEF Ready, Good, Books
<1>2. origs \in Seq(Boxes) /\ Len(origs) \in Nat
  BY DEF Ready
<1>3. PICK p : p = <<m, origs, base, ok, moves, left>>
  OBVIOUS
<1>4. PICK f : /\ IsLoop(f, "paste", p, m, origs, Len(origs))
               /\ CopyConnections(m, origs, base, ok, moves, left) = f[Len(origs)]
  BY <1>2, <1>3, CopyConnectionsLoops
<1>5. \A k \in 0 .. Len(origs) :
        f[k] = IF k = 0 THEN m ELSE Turn("paste", p, f[k - 1], origs[k])
  BY <1>4 DEF IsLoop
<1>6. ASSUME NEW k \in 1 .. Len(origs)
      PROVE  f[k] = CopyButton(m, CopyButton(m, f[k - 1], <<origs[k], "in">>, origs, base,
                                             ok, moves, left),
                               <<origs[k], "out">>, origs, base, ok, moves, left)
  <2>1. f[k] = Turn("paste", p, f[k - 1], origs[k])
    BY <1>2, <1>5
  <2>2. Turn("paste", p, f[k - 1], origs[k]) =
          CopyButton(p[1], CopyButton(p[1], f[k - 1], <<origs[k], "in">>, p[2], p[3], p[4],
                                      p[5], p[6]),
                     <<origs[k], "out">>, p[2], p[3], p[4], p[5], p[6])
    BY DEF Turn
  <2>3. p[1] = m /\ p[2] = origs /\ p[3] = base /\ p[4] = ok /\ p[5] = moves /\ p[6] = left
    BY <1>3
  <2> QED
    BY <2>1, <2>2, <2>3
<1> DEFINE U(k) == OfFirst(m, origs, k)
           B == {k \in 0 .. Len(origs) :
                   Pasted(m, f[k], origs, base, moves, left, Done(ok, U(k)))}
<1>7. 0 \in B
  <2>1. f[0] = m /\ 0 \in 0 .. Len(origs)
    BY <1>2, <1>5
  <2>2. Done(ok, U(0)) = {}
    BY OfFirstIs DEF Done
  <2>3. Pasted(m, m, origs, base, moves, left, {})
    BY <1>1 DEF Pasted, SameDesk
  <2> HIDE DEF U
  <2> QED
    BY <2>1, <2>2, <2>3
<1>8. ASSUME NEW k \in 1 .. Len(origs), k - 1 \in B PROVE k \in B
  <2>1. k \in 0 .. Len(origs) /\ k \in Nat /\ k # 0
    BY <1>2
  <2>2. PICK i : i = <<origs[k], "in">>
    OBVIOUS
  <2>3. PICK o : o = <<origs[k], "out">>
    OBVIOUS
  <2>4. U(k) = WithAll(m, origs, WithAll(m, origs, U(k - 1), i), o)
    BY <2>1, <2>2, <2>3, OfFirstIs
  <2>5. Pasted(m, f[k - 1], origs, base, moves, left, Done(ok, U(k - 1)))
    BY <1>8
  <2>6. U(k - 1) \subseteq Inner(m, origs)
    BY DEF OfFirst
  <2> HIDE DEF U
  <2>7. WithAll(m, origs, U(k - 1), i) \subseteq Inner(m, origs)
    BY <2>6 DEF WithAll
  <2>8. /\ i \in Buttons /\ o \in Buttons
        /\ GetOpBox(i) \in Range(origs) /\ GetOpBox(o) \in Range(origs)
    <3>1. origs[k] \in Boxes /\ origs[k] \in Range(origs)
      BY <1>2, RangeOf
    <3> QED
      BY <2>2, <2>3, <3>1 DEF Buttons, GetOpBox
  <2>9. PICK u : u = CopyButton(m, f[k - 1], i, origs, base, ok, moves, left)
    OBVIOUS
  <2>10. Pasted(m, u, origs, base, moves, left, Done(ok, WithAll(m, origs, U(k - 1), i)))
    BY <2>5, <2>6, <2>8, <2>9, CopyButtonPasted
  <2>11. f[k] = CopyButton(m, u, o, origs, base, ok, moves, left)
    BY <1>6, <2>2, <2>3, <2>9
  <2>12. Pasted(m, f[k], origs, base, moves, left, Done(ok, U(k)))
    BY <2>4, <2>7, <2>8, <2>10, <2>11, CopyButtonPasted
  <2> QED
    BY <2>1, <2>12
<1>9. Len(origs) \in B
  <2>1. \A k \in 1 .. Len(origs) : k - 1 \in B => k \in B
    BY <1>8
  <2>2. Len(origs) \in 0 .. Len(origs)
    BY <1>2
  <2> HIDE DEF B
  <2> QED
    BY <1>2, <1>7, <2>1, <2>2, UpTo
<1>10. U(Len(origs)) = Inner(m, origs)
  <2>1. ASSUME NEW c \in Inner(m, origs)
        PROVE  \E i \in 1 .. Len(origs) : Met(m, c, <<origs[i], "in">>)
    <3>1. /\ c \in Range(m.connects)
          /\ GetOpBox(c.src) \in Range(origs) /\ GetOpBox(c.dst) \in Range(origs)
      BY DEF Inner
    <3>2. PICK a, b : a = InOf(c) /\ b = OutOf(c)
      OBVIOUS
    <3>3. /\ a \in Buttons /\ GetButtonType(a) = "in" /\ GetOpBox(a) \in Range(origs)
          /\ Pair(c) = {b, a} /\ In(m, a, b)
      BY <1>1, <3>1, <3>2, EndsFacts
    <3>4. PICK i \in 1 .. Len(origs) : origs[i] = GetOpBox(a)
      BY <1>2, <3>3, RangeOf
    <3>5. a = <<origs[i], "in">>
      BY <3>3, <3>4, ButtonFacts
    <3>6. Met(m, c, a)
      BY <3>3 DEF Met, In
    <3> QED
      BY <3>5, <3>6
  <2> QED
    BY <2>1 DEF OfFirst
<1> QED
  BY <1>4, <1>9, <1>10

\* q is s followed by t.
IsConcat(q, s, t) ==
  /\ Len(q) = Len(s) + Len(t)
  /\ \A i \in 1 .. Len(s) : q[i] = s[i]
  /\ \A i \in Len(s) + 1 .. Len(s) + Len(t) : q[i] = t[i - Len(s)]
  /\ Range(q) = Range(s) \cup Range(t)

LEMMA ConcatFacts ==
  ASSUME NEW S, NEW s \in Seq(S), NEW t \in Seq(S)
  PROVE  s \o t \in Seq(S) /\ IsConcat(s \o t, s, t)
<1>1. PICK q : q = s \o t
  OBVIOUS
<1>2. /\ q \in Seq(S) /\ Len(q) = Len(s) + Len(t)
      /\ \A i \in 1 .. Len(s) : q[i] = s[i]
      /\ \A i \in Len(s) + 1 .. Len(s) + Len(t) : q[i] = t[i - Len(s)]
      /\ Len(s) \in Nat /\ Len(t) \in Nat
  BY <1>1
<1>3. /\ \A e : e \in Range(q) <=> \E i \in 1 .. Len(q) : q[i] = e
      /\ \A e : e \in Range(s) <=> \E i \in 1 .. Len(s) : s[i] = e
      /\ \A e : e \in Range(t) <=> \E i \in 1 .. Len(t) : t[i] = e
  BY <1>2, RangeOf
<1>4. ASSUME NEW e \in Range(q) PROVE e \in Range(s) \cup Range(t)
  <2>1. PICK i \in 1 .. Len(q) : q[i] = e
    BY <1>3
  <2>2. CASE i \in 1 .. Len(s)
    BY <1>2, <1>3, <2>1, <2>2
  <2>3. CASE i \notin 1 .. Len(s)
    <3>1. i \in Len(s) + 1 .. Len(s) + Len(t) /\ i - Len(s) \in 1 .. Len(t)
      BY <1>2, <2>3
    <3> QED
      BY <1>2, <1>3, <2>1, <3>1
  <2> QED
    BY <2>2, <2>3
<1>5. ASSUME NEW e \in Range(s) PROVE e \in Range(q)
  <2>1. PICK i \in 1 .. Len(s) : s[i] = e
    BY <1>3
  <2>2. i \in 1 .. Len(q) /\ q[i] = e
    BY <1>2, <2>1
  <2> QED
    BY <1>3, <2>2
<1>6. ASSUME NEW e \in Range(t) PROVE e \in Range(q)
  <2>1. PICK i \in 1 .. Len(t) : t[i] = e
    BY <1>3
  <2>2. /\ i + Len(s) \in 1 .. Len(q) /\ i + Len(s) \in Len(s) + 1 .. Len(s) + Len(t)
        /\ (i + Len(s)) - Len(s) = i
    BY <1>2, <2>1
  <2>3. q[i + Len(s)] = e
    BY <1>2, <2>1, <2>2
  <2> QED
    BY <1>3, <2>2, <2>3
<1> QED
  BY <1>1, <1>2, <1>4, <1>5, <1>6 DEF IsConcat

\* The boxes that PasteSelected makes of those on the clipboard, once they are made.
Copies(y) == [k \in DOMAIN y.box_clipboard |-> y.made + k]

Duplicated(y, ok, moves) ==
  [y EXCEPT !.made = @ + Len(y.box_clipboard), !.boxes = @ \o Copies(y),
            !.alive = @ \cup ButtonsOf(Range(Copies(y))),
            !.pasted = IF ok = {} THEN <<>>
                       ELSE [k \in DOMAIN y.box_clipboard |-> <<y.box_clipboard[k], Copies(y)[k]>>],
            !.moved = moves]

LEMMA CopiesFacts ==
  ASSUME NEW y, Good(y), y.made + Len(y.box_clipboard) <= MaxBoxes
  PROVE  /\ Copies(y) \in Seq(Boxes) /\ Len(Copies(y)) = Len(y.box_clipboard)
         /\ y.made \in Nat /\ Len(y.box_clipboard) \in Nat
         /\ DOMAIN y.box_clipboard = 1 .. Len(y.box_clipboard)
         /\ \A k \in 1 .. Len(y.box_clipboard) : Copies(y)[k] = y.made + k
         /\ \A b : b \in Range(Copies(y)) <=>
                     \E k \in 1 .. Len(y.box_clipboard) : b = y.made + k
<1>1. y \in StateType /\ MaxBoxes \in Nat
  BY OpDeskAssumption DEF Good, Books
<1>2. PICK n : n = Len(y.box_clipboard)
  OBVIOUS
<1>3. y.made \in Nat /\ n \in Nat /\ DOMAIN y.box_clipboard = 1 .. n
  <2>1. y.box_clipboard \in Seq(Boxes) /\ y.made \in 0 .. MaxBoxes
    BY <1>1, StateFacts
  <2> QED
    BY <1>1, <1>2, <2>1
<1>4. PICK c : c = [k \in 1 .. n |-> y.made + k]
  OBVIOUS
<1>5. \A k \in 1 .. n : y.made + k \in Boxes
  BY <1>1, <1>2, <1>3 DEF Boxes
<1>6. c \in Seq(Boxes) /\ Len(c) = n /\ \A k \in 1 .. n : c[k] = y.made + k
  BY <1>3, <1>4, <1>5
<1>7. c = Copies(y)
  BY <1>3, <1>4 DEF Copies
<1>8. \A b : b \in Range(c) <=> \E k \in 1 .. n : b = y.made + k
  <2>1. \A b : b \in Range(c) <=> \E k \in 1 .. Len(c) : c[k] = b
    BY <1>6, RangeOf
  <2> QED
    BY <1>6, <2>1
<1> QED
  BY <1>2, <1>3, <1>6, <1>7, <1>8

IsDuplicate(y, m, ok, moves) ==
  /\ m \in StateType
  /\ m.made = y.made + Len(y.box_clipboard) /\ m.boxes = y.boxes \o Copies(y)
  /\ m.alive = y.alive \cup ButtonsOf(Range(Copies(y)))
  /\ m.pasted = IF ok = {} THEN <<>>
                 ELSE [k \in 1 .. Len(y.box_clipboard) |-> <<y.box_clipboard[k], y.made + k>>]
  /\ m.moved = moves
  /\ m.box_clipboard = y.box_clipboard /\ m.doomed = y.doomed /\ m.pushed = y.pushed
  /\ m.connects = y.connects /\ m.connected_to = y.connected_to /\ m.redone = y.redone

LEMMA DuplicatedFields ==
  ASSUME NEW y, Good(y), y.made + Len(y.box_clipboard) <= MaxBoxes, NEW ok,
         NEW moves \in BOOLEAN
  PROVE  IsDuplicate(y, Duplicated(y, ok, moves), ok, moves)
<1> DEFINE m == Duplicated(y, ok, moves)
<1>1. y \in StateType /\ MaxBoxes \in Nat
  BY OpDeskAssumption DEF Good, Books
<1>2. /\ Copies(y) \in Seq(Boxes) /\ Len(Copies(y)) = Len(y.box_clipboard)
      /\ y.made \in Nat /\ Len(y.box_clipboard) \in Nat
      /\ DOMAIN y.box_clipboard = 1 .. Len(y.box_clipboard)
      /\ \A k \in 1 .. Len(y.box_clipboard) : Copies(y)[k] = y.made + k
  BY CopiesFacts
<1>3. PICK n : n = y.made + Len(y.box_clipboard)
  OBVIOUS
<1>4. PICK q : q = y.boxes \o Copies(y)
  OBVIOUS
<1>5. PICK l : l = y.alive \cup ButtonsOf(Range(Copies(y)))
  OBVIOUS
<1>6. PICK g : g = [k \in DOMAIN y.box_clipboard |-> <<y.box_clipboard[k], Copies(y)[k]>>]
  OBVIOUS
<1>14. PICK p : p = IF ok = {} THEN <<>> ELSE g
  OBVIOUS
<1>7. m = [y EXCEPT !.made = n, !.boxes = q, !.alive = l, !.pasted = p, !.moved = moves]
  BY <1>3, <1>4, <1>5, <1>6, <1>14 DEF Duplicated
<1> HIDE DEF m
<1>8. n \in 0 .. MaxBoxes /\ q \in Seq(Boxes)
  <2>1. y.boxes \in Seq(Boxes)
    BY <1>1, StateFacts
  <2> QED
    BY <1>1, <1>2, <1>3, <1>4, <2>1, ConcatFacts
<1>9. l \in SUBSET Buttons
  <2>1. Range(Copies(y)) \subseteq Boxes /\ y.alive \in SUBSET Buttons
    BY <1>1, <1>2, StateFacts, RangeOf
  <2> QED
    BY <1>5, <2>1 DEF ButtonsOf, Buttons
<1>10. /\ g \in Seq(Boxes \X Boxes)
       /\ g = [k \in 1 .. Len(y.box_clipboard) |-> <<y.box_clipboard[k], y.made + k>>]
  <2>1. y.box_clipboard \in Seq(Boxes)
    BY <1>1, StateFacts
  <2>2. \A k \in 1 .. Len(y.box_clipboard) : y.box_clipboard[k] \in Boxes /\ Copies(y)[k] \in Boxes
    BY <1>2, <2>1
  <2>3. g = [k \in 1 .. Len(y.box_clipboard) |-> <<y.box_clipboard[k], Copies(y)[k]>>]
    BY <1>2, <1>6
  <2>4. g \in Seq(Boxes \X Boxes)
    BY <1>2, <2>2, <2>3
  <2>5. g = [k \in 1 .. Len(y.box_clipboard) |-> <<y.box_clipboard[k], y.made + k>>]
    BY <1>2, <2>3
  <2> QED
    BY <2>4, <2>5
<1>15. p \in Seq(Boxes \X Boxes)
  <2>1. PICK e : e = <<>>
    OBVIOUS
  <2>2. e \in Seq(Boxes \X Boxes)
    BY <2>1
  <2> QED
    BY <1>10, <1>14, <2>1, <2>2
<1>11. m \in StateType
  BY <1>1, <1>7, <1>8, <1>9, <1>15 DEF StateType
<1>12. /\ m.made = n /\ m.boxes = q /\ m.alive = l /\ m.pasted = p /\ m.moved = moves
       /\ m.box_clipboard = y.box_clipboard /\ m.doomed = y.doomed /\ m.pushed = y.pushed
       /\ m.connects = y.connects /\ m.connected_to = y.connected_to /\ m.redone = y.redone
  BY <1>1, <1>7 DEF StateType
<1>13. IsDuplicate(y, m, ok, moves)
  BY <1>3, <1>4, <1>5, <1>10, <1>11, <1>12, <1>14 DEF IsDuplicate
<1> QED
  BY <1>13 DEF m

\* The copies of the boxes are made, in order, before their connections.
LEMMA DuplicatedReady ==
  ASSUME NEW y, Good(y), y.made + Len(y.box_clipboard) <= MaxBoxes,
         NEW ok \in {Buttons, {}}, NEW moves \in BOOLEAN, NEW left \in Colors
  PROVE  Ready(Duplicated(y, ok, moves), y.box_clipboard, y.made, ok, moves, left)
<1>1. PICK m : m = Duplicated(y, ok, moves)
  OBVIOUS
<1>2. /\ m \in StateType
      /\ m.made = y.made + Len(y.box_clipboard) /\ m.boxes = y.boxes \o Copies(y)
      /\ m.alive = y.alive \cup ButtonsOf(Range(Copies(y)))
      /\ m.box_clipboard = y.box_clipboard /\ m.doomed = y.doomed /\ m.pushed = y.pushed
      /\ m.connects = y.connects /\ m.connected_to = y.connected_to /\ m.redone = y.redone
  <2>1. IsDuplicate(y, m, ok, moves)
    BY <1>1, DuplicatedFields
  <2> QED
    BY <2>1 DEF IsDuplicate
<1>3. PICK t : t = Copies(y)
  OBVIOUS
<1>4. PICK n : n = Len(y.box_clipboard)
  OBVIOUS
<1>5. /\ t \in Seq(Boxes) /\ Len(t) = n
      /\ y.made \in Nat /\ n \in Nat
      /\ \A k \in 1 .. n : t[k] = y.made + k
      /\ \A b : b \in Range(t) <=> \E k \in 1 .. n : b = y.made + k
  BY <1>3, <1>4, CopiesFacts
<1>6. /\ y \in StateType /\ y.boxes \in Seq(Boxes) /\ y.box_clipboard \in Seq(Boxes)
      /\ y.doomed \in SUBSET Boxes /\ Len(y.boxes) \in Nat
  BY StateFacts DEF Good, Books
<1>7. /\ Len(m.boxes) = Len(y.boxes) + n
      /\ \A i \in 1 .. Len(y.boxes) : m.boxes[i] = y.boxes[i]
      /\ \A i \in Len(y.boxes) + 1 .. Len(y.boxes) + n : m.boxes[i] = t[i - Len(y.boxes)]
      /\ Range(m.boxes) = Range(y.boxes) \cup Range(t)
  <2>1. PICK s : s = y.boxes
    OBVIOUS
  <2>2. s \in Seq(Boxes) /\ t \in Seq(Boxes) /\ m.boxes = s \o t /\ Len(t) = n
    BY <1>2, <1>3, <1>5, <1>6, <2>1
  <2>3. IsConcat(m.boxes, s, t)
    BY <2>2, ConcatFacts
  <2> QED
    BY <2>1, <2>2, <2>3 DEF IsConcat
<1>8. /\ Distinct(y.boxes) /\ Range(y.boxes) \cup y.doomed \subseteq 1 .. y.made
      /\ \A i \in 1 .. Len(y.boxes) : y.boxes[i] \in 1 .. y.made
  <2>1. Distinct(y.boxes) /\ Range(y.boxes) \cup y.doomed \subseteq 1 .. y.made
    BY DEF Good, Housed, There
  <2>2. \A i \in 1 .. Len(y.boxes) : y.boxes[i] \in Range(y.boxes)
    BY <1>6, RangeOf
  <2> QED
    BY <2>1, <2>2
<1>9. Distinct(m.boxes)
  <2>1. ASSUME NEW i \in 1 .. Len(m.boxes), NEW j \in 1 .. Len(m.boxes),
               m.boxes[i] = m.boxes[j], i <= j
        PROVE  i = j
    <3>1. CASE j \in 1 .. Len(y.boxes)
      <4>1. i \in 1 .. Len(y.boxes)
        BY <1>6, <2>1, <3>1
      <4> QED
        BY <1>7, <1>8, <2>1, <3>1, <4>1 DEF Distinct
    <3>2. CASE j \notin 1 .. Len(y.boxes)
      <4>1. j \in Len(y.boxes) + 1 .. Len(y.boxes) + n /\ j - Len(y.boxes) \in 1 .. n
        BY <1>5, <1>6, <1>7, <3>2
      <4>2. m.boxes[j] = y.made + (j - Len(y.boxes))
        BY <1>5, <1>7, <4>1
      <4>3. CASE i \in 1 .. Len(y.boxes)
        <5>1. m.boxes[i] \in 1 .. y.made
          BY <1>7, <1>8, <4>3
        <5> QED
          BY <1>5, <2>1, <4>1, <4>2, <5>1
      <4>4. CASE i \notin 1 .. Len(y.boxes)
        <5>1. i \in Len(y.boxes) + 1 .. Len(y.boxes) + n /\ i - Len(y.boxes) \in 1 .. n
          BY <1>5, <1>6, <1>7, <4>4
        <5>2. m.boxes[i] = y.made + (i - Len(y.boxes))
          BY <1>5, <1>7, <5>1
        <5> QED
          BY <1>5, <1>6, <2>1, <4>1, <4>2, <5>1, <5>2
      <4> QED
        BY <4>3, <4>4
    <3> QED
      BY <3>1, <3>2
  <2>2. Len(m.boxes) \in Nat
    BY <1>5, <1>6, <1>7
  <2> QED
    BY <2>1, <2>2 DEF Distinct
<1>10. \A b \in Range(t) : b \in Nat /\ b > y.made /\ b <= y.made + n
  BY <1>5
<1>11. Books(m, {})
  <2>1. There(y) \subseteq There(m)
    BY <1>2, <1>7 DEF There
  <2>2. Books(y, {}) /\ \A c \in Range(y.connects) : Sensible(y, c)
    BY DEF Good, Books
  <2>3. \A c \in Range(y.connects) :
          GetOpBox(c.src) \in There(m) /\ GetOpBox(c.dst) \in There(m)
    BY <2>1, <2>2 DEF Sensible
  <2> QED
    BY <1>2, <2>2, <2>3, CarriedBooks
<1>12. Housed(m)
  <2>1. Distinct(m.box_clipboard) /\ Range(m.box_clipboard) \subseteq Range(m.boxes)
    BY <1>2, <1>7 DEF Good, Housed
  <2>2. Range(m.boxes) \cap m.doomed = {}
    <3>1. ASSUME NEW b \in Range(t), b \in y.doomed PROVE FALSE
      BY <1>5, <1>8, <1>10, <3>1
    <3>2. Range(y.boxes) \cap y.doomed = {}
      BY DEF Good, Housed
    <3> QED
      BY <1>2, <1>7, <3>1, <3>2
  <2>3. Range(m.boxes) \cup m.doomed \subseteq 1 .. m.made
    <3>1. \A b \in Range(t) : b \in 1 .. m.made
      BY <1>2, <1>4, <1>5, <1>10
    <3>2. \A b \in 1 .. y.made : b \in 1 .. m.made
      BY <1>2, <1>4, <1>5
    <3> QED
      BY <1>2, <1>7, <1>8, <3>1, <3>2
  <2>4. m.alive = ButtonsOf(Range(m.boxes) \cup m.doomed)
    <3>1. y.alive = ButtonsOf(Range(y.boxes) \cup y.doomed)
      BY DEF Good, Housed, There
    <3>2. ButtonsOf(Range(y.boxes) \cup y.doomed) \cup ButtonsOf(Range(t)) =
            ButtonsOf(Range(y.boxes) \cup Range(t) \cup y.doomed)
      BY DEF ButtonsOf
    <3> QED
      BY <1>2, <1>3, <1>7, <3>1, <3>2
  <2>5. m.pushed \in m.alive \cup {NoButton}
    BY <1>2 DEF Good, Housed
  <2> QED
    BY <1>9, <2>1, <2>2, <2>3, <2>4, <2>5 DEF Housed, There
<1>13. /\ Distinct(y.box_clipboard) /\ Range(y.box_clipboard) \subseteq Range(y.boxes)
  BY DEF Good, Housed
<1>14. \A k \in 1 .. n : y.made + k \in Range(m.boxes) /\ y.box_clipboard[k] <= y.made
  <2>1. \A k \in 1 .. n : y.box_clipboard[k] \in Range(y.box_clipboard)
    BY <1>4, <1>6, RangeOf
  <2>2. \A k \in 1 .. n : y.box_clipboard[k] \in 1 .. y.made
    BY <1>8, <1>13, <2>1
  <2> QED
    BY <1>5, <1>7, <2>2
<1>15. \A c \in Range(m.connects) : GetOpBox(c.src) <= y.made /\ GetOpBox(c.dst) <= y.made
  <2>1. \A c \in Range(m.connects) : /\ GetOpBox(c.src) \in There(y)
                                     /\ GetOpBox(c.dst) \in There(y)
    BY <1>2 DEF Good, Books, Sensible
  <2>2. \A b \in There(y) : b <= y.made
    BY <1>5, <1>8 DEF There
  <2> QED
    BY <2>1, <2>2
<1>16. Range(y.box_clipboard) \subseteq Range(m.boxes) /\ Good(m)
  BY <1>7, <1>11, <1>12, <1>13 DEF Good
<1> QED
  BY <1>1, <1>4, <1>5, <1>6, <1>13, <1>14, <1>15, <1>16 DEF Ready

\* What PasteSelected does.
LEMMA PasteSelectedPasted ==
  ASSUME NEW y, Good(y), y.made + Len(y.box_clipboard) <= MaxBoxes,
         NEW ok \in {Buttons, {}}, NEW moves \in BOOLEAN, NEW left \in Colors
  PROVE  LET m == Duplicated(y, ok, moves)
         IN  Pasted(m, PasteSelected(y, ok, moves, left), y.box_clipboard, y.made, moves, left,
                    Done(ok, Inner(m, y.box_clipboard)))
<1>1. PasteSelected(y, ok, moves, left) =
        CopyConnections(Duplicated(y, ok, moves), y.box_clipboard, y.made, ok, moves, left)
  BY DEF PasteSelected, Duplicated, Copies
<1>2. PICK m : m = Duplicated(y, ok, moves)
  OBVIOUS
<1>3. Ready(m, y.box_clipboard, y.made, ok, moves, left)
  BY <1>2, DuplicatedReady
<1>4. Pasted(m, CopyConnections(m, y.box_clipboard, y.made, ok, moves, left),
             y.box_clipboard, y.made, moves, left, Done(ok, Inner(m, y.box_clipboard)))
  BY <1>3, CopyConnectionsPasted
<1> QED
  BY <1>1, <1>2, <1>4

----------------------------------------------------------------------------
(* Steps                                                                   *)

\* The records of connections are the same in y and z, and no box is gone.
SameBooks(y, z) ==
  /\ z \in StateType /\ z.connects = y.connects /\ z.connected_to = y.connected_to
  /\ z.redone = y.redone /\ There(y) \subseteq There(z)

LEMMA SameBooksGood ==
  ASSUME NEW y, Good(y), NEW z, SameBooks(y, z), Housed(z)
  PROVE  Good(z)
<1>1. Books(y, {})
  BY DEF Good
<1>2. \A c \in Range(y.connects) :
        GetOpBox(c.src) \in There(z) /\ GetOpBox(c.dst) \in There(z)
  BY <1>1 DEF Books, Sensible, SameBooks
<1>3. Books(z, {})
  BY <1>1, <1>2, CarriedBooks DEF SameBooks
<1> QED
  BY <1>3 DEF Good

\* Every action but Paste ends like this.
LEMMA DoesGood ==
  ASSUME NEW y, Good(y), Does(y)
  PROVE  Good(x') /\ x'.pasted = <<>>
<1>1. y \in StateType
  BY DEF Good, Books
<1>2. PICK z : z = x'
  OBVIOUS
<1>8. PICK e : e = <<>>
  OBVIOUS
<1>9. e \in Seq(Boxes \X Boxes)
  BY <1>8
<1>3. z = [y EXCEPT !.pasted = e, !.moved = FALSE]
  BY <1>2, <1>8 DEF Does
<1>4. /\ z \in StateType /\ z.pasted = e /\ z.connects = y.connects
      /\ z.connected_to = y.connected_to /\ z.redone = y.redone /\ z.boxes = y.boxes
      /\ z.box_clipboard = y.box_clipboard /\ z.doomed = y.doomed /\ z.made = y.made
      /\ z.alive = y.alive /\ z.pushed = y.pushed
  BY <1>1, <1>3, <1>9 DEF StateType
<1>5. SameBooks(y, z)
  BY <1>4 DEF SameBooks, There
<1>6. Housed(z)
  BY <1>4 DEF Good, Housed, There
<1>7. Good(z)
  BY <1>5, <1>6, SameBooksGood
<1> QED
  BY <1>2, <1>4, <1>7, <1>8

LEMMA UsableFacts ==
  ASSUME Good(x), NEW a \in Usable
  PROVE  a \in Buttons /\ GetOpBox(a) \in There(x) /\ a \in x.alive
<1>1. x \in StateType
  BY DEF Good, Books
<1>2. x.alive \in SUBSET Buttons
  BY <1>1, StateFacts
<1> QED
  BY <1>2 DEF Usable, ButtonsOf, GetOpBox, There

\* Nothing but the button that is pushed, or the clipboard, changes.
LEMMA PushedGood ==
  ASSUME NEW y, Good(y), NEW b \in y.alive \cup {NoButton}
  PROVE  Good([y EXCEPT !.pushed = b])
<1>1. y \in StateType /\ y.alive \in SUBSET Buttons
  BY StateFacts DEF Good, Books
<1>2. PICK z : z = [y EXCEPT !.pushed = b]
  OBVIOUS
<1>3. /\ z \in StateType /\ z.pushed = b /\ z.connects = y.connects
      /\ z.connected_to = y.connected_to /\ z.redone = y.redone /\ z.boxes = y.boxes
      /\ z.box_clipboard = y.box_clipboard /\ z.doomed = y.doomed /\ z.made = y.made
      /\ z.alive = y.alive
  BY <1>1, <1>2 DEF StateType
<1>4. SameBooks(y, z) /\ Housed(z)
  BY <1>3 DEF SameBooks, Good, Housed, There
<1> QED
  BY <1>2, <1>4, SameBooksGood

LEMMA ClipboardGood ==
  ASSUME NEW y, Good(y), NEW q \in Seq(Boxes), Distinct(q), Range(q) \subseteq Range(y.boxes)
  PROVE  Good([y EXCEPT !.box_clipboard = q])
<1>1. y \in StateType
  BY DEF Good, Books
<1>2. PICK z : z = [y EXCEPT !.box_clipboard = q]
  OBVIOUS
<1>3. /\ z \in StateType /\ z.box_clipboard = q /\ z.connects = y.connects
      /\ z.connected_to = y.connected_to /\ z.redone = y.redone /\ z.boxes = y.boxes
      /\ z.doomed = y.doomed /\ z.made = y.made
      /\ z.alive = y.alive /\ z.pushed = y.pushed
  BY <1>1, <1>2 DEF StateType
<1>4. SameBooks(y, z) /\ Housed(z)
  BY <1>3 DEF SameBooks, Good, Housed, There
<1> QED
  BY <1>2, <1>4, SameBooksGood

\* A new box, whose number no other has or had.
LEMMA AddedGood ==
  ASSUME NEW y, Good(y), y.made < MaxBoxes, NEW z,
         z = [y EXCEPT !.made = @ + 1, !.boxes = Append(@, y.made + 1),
                       !.alive = @ \cup ButtonsOf({y.made + 1})]
  PROVE  Good(z)
<1>1. /\ y \in StateType /\ MaxBoxes \in Nat /\ y.made \in 0 .. MaxBoxes
      /\ y.boxes \in Seq(Boxes) /\ y.alive \in SUBSET Buttons
  BY StateFacts, OpDeskAssumption DEF Good, Books
<1>2. PICK n : n = y.made + 1
  OBVIOUS
<1>3. n \in Boxes /\ n \in 0 .. MaxBoxes /\ n \in Nat /\ y.made \in Nat
  BY <1>1, <1>2 DEF Boxes
<1>4. PICK q : q = Append(y.boxes, n)
  OBVIOUS
<1>5. PICK l : l = y.alive \cup ButtonsOf({n})
  OBVIOUS
<1>6. z = [y EXCEPT !.made = n, !.boxes = q, !.alive = l]
  BY <1>2, <1>4, <1>5
<1>7. l \in SUBSET Buttons
  BY <1>1, <1>3, <1>5 DEF ButtonsOf, Buttons
<1>8. n \notin Range(y.boxes) /\ n \notin y.doomed
  <2>1. Range(y.boxes) \cup y.doomed \subseteq 1 .. y.made
    BY DEF Good, Housed, There
  <2> QED
    BY <1>2, <1>3, <2>1
<1>9. /\ q \in Seq(Boxes) /\ Distinct(q)
      /\ \A e : e \in Range(q) <=> e \in Range(y.boxes) \/ e = n
  <2>1. Distinct(y.boxes)
    BY DEF Good, Housed
  <2> QED
    BY <1>1, <1>3, <1>4, <1>8, <2>1, AppendFacts
<1>10. /\ z \in StateType /\ z.connects = y.connects /\ z.connected_to = y.connected_to
       /\ z.redone = y.redone /\ z.boxes = q /\ z.made = n /\ z.alive = l
       /\ z.box_clipboard = y.box_clipboard /\ z.doomed = y.doomed /\ z.pushed = y.pushed
  BY <1>1, <1>3, <1>6, <1>7, <1>9 DEF StateType
<1>11. SameBooks(y, z)
  BY <1>9, <1>10 DEF SameBooks, There
<1>12. Housed(z)
  <2>1. Range(z.boxes) = Range(y.boxes) \cup {n}
    BY <1>9, <1>10
  <2>2. Distinct(z.boxes) /\ Distinct(z.box_clipboard)
        /\ Range(z.box_clipboard) \subseteq Range(z.boxes)
    BY <1>9, <1>10, <2>1 DEF Good, Housed
  <2>3. Range(z.boxes) \cap z.doomed = {}
    BY <1>8, <1>10, <2>1 DEF Good, Housed
  <2>4. Range(z.boxes) \cup z.doomed \subseteq 1 .. z.made
    <3>1. Range(y.boxes) \cup y.doomed \subseteq 1 .. y.made
      BY DEF Good, Housed, There
    <3>2. \A b \in 1 .. y.made : b \in 1 .. n
      BY <1>2, <1>3
    <3>3. n \in 1 .. n
      BY <1>2, <1>3
    <3> QED
      BY <1>10, <2>1, <3>1, <3>2, <3>3
  <2>5. z.alive = ButtonsOf(Range(z.boxes) \cup z.doomed)
    <3>1. y.alive = ButtonsOf(Range(y.boxes) \cup y.doomed)
      BY DEF Good, Housed, There
    <3>2. ButtonsOf(Range(y.boxes) \cup y.doomed) \cup ButtonsOf({n}) =
            ButtonsOf(Range(y.boxes) \cup {n} \cup y.doomed)
      BY DEF ButtonsOf
    <3> QED
      BY <1>5, <1>10, <2>1, <3>1, <3>2
  <2>6. z.pushed \in z.alive \cup {NoButton}
    BY <1>5, <1>10 DEF Good, Housed
  <2> QED
    BY <2>2, <2>3, <2>4, <2>5, <2>6 DEF Housed, There
<1> QED
  BY <1>11, <1>12, SameBooksGood

\* What every step but Paste does.
Quietly == \E y : Good(y) /\ Does(y)

LEMMA ConnectingQuietly ==
  ASSUME Good(x), AppConnect \/ AppConnectTo
  PROVE  Quietly
<1>1. CASE AppConnect
  <2>3. PICK a \in Usable, b \in Usable : \E ok : Does(Connect(x, a, b, ok).st)
    BY <1>1 DEF AppConnect
  <2>1. PICK ok : Does(Connect(x, a, b, ok).st)
    BY <2>3
  <2>2. /\ a \in Buttons /\ GetOpBox(a) \in There(x)
        /\ b \in Buttons /\ GetOpBox(b) \in There(x)
    BY UsableFacts
  <2> QED
    BY <2>1, <2>2, ConnectGood DEF Quietly
<1>2. CASE AppConnectTo
  <2>3. PICK a \in Usable, b \in Usable : \E ok : Does(ConnectTo(x, a, b, ok).st)
    BY <1>2 DEF AppConnectTo
  <2>1. PICK ok : Does(ConnectTo(x, a, b, ok).st)
    BY <2>3
  <2>2. /\ a \in Buttons /\ GetOpBox(a) \in There(x)
        /\ b \in Buttons /\ GetOpBox(b) \in There(x)
    BY UsableFacts
  <2> QED
    BY <2>1, <2>2, ConnectToGood DEF Quietly
<1> QED
  BY <1>1, <1>2

LEMMA DisconnectingQuietly ==
  ASSUME Good(x), AppDisconnect \/ AppDisconnectButton \/ AppDisconnectAll
  PROVE  Quietly
<1>1. x \in StateType
  BY DEF Good, Books
<1>2. CASE AppDisconnect
  <2>1. PICK c \in Range(x.connects) :
          Does(Disconnect(x, c.src, c.dst)) \/ Does(Disconnect(x, c.dst, c.src))
    BY <1>2 DEF AppDisconnect
  <2>2. c.src \in Buttons /\ c.dst \in Buttons
    BY <1>1, ConnectsFacts
  <2>3. Good(Disconnect(x, c.src, c.dst)) /\ Good(Disconnect(x, c.dst, c.src))
    <3>1. /\ Cut(x, Disconnect(x, c.src, c.dst), {{c.src, c.dst}})
          /\ Cut(x, Disconnect(x, c.dst, c.src), {{c.dst, c.src}})
      BY <1>1, <2>2, DisconnectCuts
    <3>2. PICK P : P = {{c.src, c.dst}}
      OBVIOUS
    <3>3. PICK Q : Q = {{c.dst, c.src}}
      OBVIOUS
    <3>4. Cut(x, Disconnect(x, c.src, c.dst), P) /\ Cut(x, Disconnect(x, c.dst, c.src), Q)
      BY <3>1, <3>2, <3>3
    <3> QED
      BY <3>4, CutGood
  <2> QED
    BY <2>1, <2>3 DEF Quietly
<1>3. CASE AppDisconnectButton
  <2>1. PICK a \in Usable : Does(DisconnectAll(x, a))
    BY <1>3 DEF AppDisconnectButton
  <2>2. a \in Buttons
    BY UsableFacts
  <2>3. Good(DisconnectAll(x, a))
    <3>1. PICK P : P = {{a, b} : b \in Range(x.connected_to[a])}
      OBVIOUS
    <3>2. Cut(x, DisconnectAll(x, a), P)
      BY <1>1, <2>2, <3>1, DisconnectAllCuts
    <3> QED
      BY <3>2, CutGood
  <2> QED
    BY <2>1, <2>3 DEF Quietly
<1>4. CASE AppDisconnectAll
  <2>1. Does(DisconnectDesk(x))
    BY <1>4 DEF AppDisconnectAll
  <2>2. Good(DisconnectDesk(x))
    <3>1. PICK P : P = {Pair(c) : c \in Range(x.connects)}
      OBVIOUS
    <3>2. Cut(x, DisconnectDesk(x), P)
      BY <1>1, <3>1, DisconnectDeskCuts
    <3> QED
      BY <3>2, CutGood
  <2> QED
    BY <2>1, <2>2 DEF Quietly
<1> QED
  BY <1>2, <1>3, <1>4

LEMMA SetColorQuietly ==
  ASSUME Good(x), SetColor
  PROVE  Quietly
<1>1. x \in StateType /\ Books(x, {}) /\ Housed(x)
  BY DEF Good, Books
<1>2. PICK k \in DOMAIN x.connects, color \in Colors :
        Does([x EXCEPT !.connects[k].color = color])
  BY DEF SetColor
<1>3. k \in 1 .. Len(x.connects)
  <2>1. x.connects \in Seq(Connections)
    BY <1>1, StateFacts
  <2> QED
    BY <2>1
<1>4. PICK z : z = Recolor(x, k, color)
  OBVIOUS
<1>5. Books(z, {}) /\ SameDesk(x, z)
  BY <1>1, <1>3, <1>4, Recolored DEF IsRecolored
<1>6. Good(z)
  BY <1>1, <1>5, SameHoused DEF Good
<1>7. Does(z)
  BY <1>2, <1>4 DEF Recolor
<1> QED
  BY <1>6, <1>7 DEF Quietly

LEMMA DeletingQuietly ==
  ASSUME Good(x), AppDelete \/ AppClear \/ CutSelected \/ DeleteKey \/ Wait
  PROVE  Quietly
<1>1. CASE AppDelete
  <2>1. PICK b \in Range(x.boxes) : Does(DeleteBox(x, b))
    BY <1>1 DEF AppDelete
  <2>2. Good(DeleteBox(x, b))
    BY DeleteBoxGood DEF There
  <2> QED
    BY <2>1, <2>2 DEF Quietly
<1>2. CASE AppClear
  <2>1. Does(DeleteSelected(x, Range(x.boxes)))
    BY <1>2 DEF AppClear, Clear
  <2>2. Good(DeleteSelected(x, Range(x.boxes)))
    BY DeleteSelectedGood
  <2> QED
    BY <2>1, <2>2 DEF Quietly
<1>3. CASE CutSelected
  <2>1. PICK selected : Does(DeleteSelected([x EXCEPT !.box_clipboard = <<>>], selected))
    BY <1>3 DEF CutSelected
  <2>2. PICK y : y = [x EXCEPT !.box_clipboard = <<>>]
    OBVIOUS
  <2>3. Good(y)
    <3>1. PICK q : q = <<>>
      OBVIOUS
    <3>2. q \in Seq(Boxes) /\ Distinct(q) /\ Range(q) \subseteq Range(x.boxes)
      BY <3>1 DEF Distinct, Range
    <3> QED
      BY <2>2, <3>1, <3>2, ClipboardGood
  <2>4. Good(DeleteSelected(y, selected))
    BY <2>3, DeleteSelectedGood
  <2> QED
    BY <2>1, <2>2, <2>4 DEF Quietly
<1>4. CASE DeleteKey
  <2>1. PICK selected : Does(DeleteSelected(x, selected))
    BY <1>4 DEF DeleteKey
  <2>2. Good(DeleteSelected(x, selected))
    BY DeleteSelectedGood
  <2> QED
    BY <2>1, <2>2 DEF Quietly
<1>5. CASE Wait
  <2>1. Does(FreeWidgets(x)) /\ Good(FreeWidgets(x))
    BY <1>5, FreeWidgetsGood DEF Wait
  <2> QED
    BY <2>1 DEF Quietly
<1> QED
  BY <1>1, <1>2, <1>3, <1>4, <1>5

LEMMA OtherQuietly ==
  ASSUME Good(x), AppAdd \/ CopySelected \/ PushButton \/ Release
  PROVE  Quietly
<1>1. x \in StateType /\ x.boxes \in Seq(Boxes)
  BY StateFacts DEF Good, Books
<1>2. CASE AppAdd
  <2>1. PICK z : z = [x EXCEPT !.made = @ + 1, !.boxes = Append(@, x.made + 1),
                               !.alive = @ \cup ButtonsOf({x.made + 1})]
    OBVIOUS
  <2>2. x.made < MaxBoxes /\ Does(z)
    BY <1>2, <2>1 DEF AppAdd
  <2>3. Good(z)
    BY <2>1, <2>2, AddedGood
  <2> QED
    BY <2>2, <2>3 DEF Quietly
<1>3. CASE CopySelected
  <2>1. PICK S : Does([x EXCEPT !.box_clipboard = Without(x.boxes, S)])
    BY <1>3 DEF CopySelected
  <2>2. PICK q : q = Without(x.boxes, S)
    OBVIOUS
  <2>3. q \in Seq(Boxes) /\ IsWithout(q, x.boxes, S)
    BY <1>1, <2>2, WithoutIs
  <2>4. Distinct(q) /\ Range(q) \subseteq Range(x.boxes)
    BY <2>3, EmbedsKeeps DEF IsWithout, Good, Housed
  <2>5. Good([x EXCEPT !.box_clipboard = q])
    BY <2>3, <2>4, ClipboardGood
  <2> QED
    BY <2>1, <2>2, <2>5 DEF Quietly
<1>4. CASE PushButton
  <2>1. PICK b \in Usable : Does([x EXCEPT !.pushed = b])
    BY <1>4 DEF PushButton
  <2>2. Good([x EXCEPT !.pushed = b])
    BY UsableFacts, PushedGood
  <2> QED
    BY <2>1, <2>2 DEF Quietly
<1>5. CASE Release
  <2>1. PICK y : y = [x EXCEPT !.pushed = NoButton]
    OBVIOUS
  <2>2. Good(y)
    BY <2>1, PushedGood
  <2>3. \/ Does(y)
        \/ \E b \in Usable : \E ok : Does(Connect(y, x.pushed, b, ok).st)
    BY <1>5, <2>1 DEF Release
  <2>4. x.pushed \in x.alive /\ x.alive = ButtonsOf(There(x))
    BY <1>5 DEF Release, Good, Housed
  <2>5. x.pushed \in Buttons /\ GetOpBox(x.pushed) \in There(x)
    <3>1. x.alive \in SUBSET Buttons
      BY <1>1, StateFacts
    <3> QED
      BY <2>4, <3>1 DEF ButtonsOf, GetOpBox
  <2>6. CASE Does(y)
    BY <2>2, <2>6 DEF Quietly
  <2>7. ASSUME NEW b \in Usable, NEW ok, Does(Connect(y, x.pushed, b, ok).st)
        PROVE  Quietly
    <3>1. b \in Buttons /\ GetOpBox(b) \in There(x)
      BY UsableFacts
    <3>2. There(y) = There(x)
      BY <1>1, <2>1 DEF StateType, There
    <3>3. Good(Connect(y, x.pushed, b, ok).st)
      BY <2>2, <2>5, <3>1, <3>2, ConnectGood
    <3> QED
      BY <2>7, <3>3 DEF Quietly
  <2> QED
    BY <2>3, <2>6, <2>7
<1> QED
  BY <1>2, <1>3, <1>4, <1>5

\* A step pastes, or it keeps the books and pastes nothing.
LEMMA NextIs ==
  ASSUME Good(x), Next
  PROVE  Paste \/ (Good(x') /\ x'.pasted = <<>>)
<1>1. Quietly => Good(x') /\ x'.pasted = <<>>
  BY DoesGood DEF Quietly
<1> QED
  BY <1>1, ConnectingQuietly, DisconnectingQuietly, SetColorQuietly, DeletingQuietly,
     OtherQuietly DEF Next

----------------------------------------------------------------------------
(* Copies are connected as their originals are                             *)

CopyIn(z, b) ==
  <<(CHOOSE p \in Range(z.pasted) : p[1] = GetOpBox(b))[2], GetButtonType(b)>>

ImageIn(z, c) == [src |-> CopyIn(z, c.src), dst |-> CopyIn(z, c.dst), color |-> c.color]

InnerIn(z) == {c \in Range(z.connects) : /\ GetOpBox(c.src) \in {p[1] : p \in Range(z.pasted)}
                                         /\ GetOpBox(c.dst) \in {p[1] : p \in Range(z.pasted)}}

Wanted(z) == {ImageIn(z, c) : c \in InnerIn(z)}

Had(z) == {c \in Range(z.connects) :
             {p[2] : p \in Range(z.pasted)} \cap {GetOpBox(c.src), GetOpBox(c.dst)} # {}}

Full(c) == <<Pair(c), c.color>>

\* CopiesAlike, of a state.
Alike(z) == /\ {Pair(c) : c \in Had(z)} = {Pair(c) : c \in Wanted(z)}
            /\ ~z.moved => {Full(c) : c \in Had(z)} = {Full(c) : c \in Wanted(z)}

LEMMA AlikeNow == CopiesAlike <=> Alike(x)
BY DEF CopiesAlike, Alike, Had, Wanted, InnerIn, Pair, Full, ImageIn, CopyIn

LEMMA AlikeNext == CopiesAlike' <=> Alike(x')
BY DEF CopiesAlike, Alike, Had, Wanted, InnerIn, Pair, Full, ImageIn, CopyIn

LEMMA NothingPasted ==
  ASSUME NEW z, z.pasted = <<>>
  PROVE  Alike(z)
<1>1. Range(z.pasted) = {}
  BY DEF Range
<1>2. Had(z) = {} /\ InnerIn(z) = {}
  BY <1>1 DEF Had, InnerIn
<1>3. Wanted(z) = {}
  BY <1>2 DEF Wanted
<1> QED
  BY <1>2, <1>3 DEF Alike

\* pasted tells which box is the copy of which.
LEMMA PastedPairs ==
  ASSUME NEW z, NEW origs, NEW base \in Nat, origs \in Seq(Boxes), Distinct(origs),
         z.pasted = [k \in 1 .. Len(origs) |-> <<origs[k], base + k>>]
  PROVE  /\ {p[1] : p \in Range(z.pasted)} = Range(origs)
         /\ \A e : e \in {p[2] : p \in Range(z.pasted)} <=> \E k \in 1 .. Len(origs) : e = base + k
         /\ \A b : GetOpBox(b) \in Range(origs) => CopyIn(z, b) = Copy(origs, base, b)
<1>1. /\ DOMAIN origs = 1 .. Len(origs) /\ Len(origs) \in Nat
      /\ \A e : e \in Range(origs) <=> \E i \in 1 .. Len(origs) : origs[i] = e
  BY RangeOf
<1>2. PICK R : R = Range(z.pasted)
  OBVIOUS
<1>3. \A p : p \in R <=> \E k \in 1 .. Len(origs) : p = <<origs[k], base + k>>
  <2>1. DOMAIN z.pasted = 1 .. Len(origs)
    OBVIOUS
  <2>2. \A k \in 1 .. Len(origs) : z.pasted[k] = <<origs[k], base + k>>
    OBVIOUS
  <2> QED
    BY <1>2, <2>1, <2>2 DEF Range
<1>4. \A k \in 1 .. Len(origs) : <<origs[k], base + k>>[1] = origs[k] /\ <<origs[k], base + k>>[2] = base + k
  OBVIOUS
<1>5. {p[1] : p \in R} = Range(origs)
  <2>1. ASSUME NEW p \in R PROVE p[1] \in Range(origs)
    BY <1>1, <1>3, <1>4
  <2>2. ASSUME NEW e \in Range(origs) PROVE \E p \in R : e = p[1]
    <3>1. PICK k \in 1 .. Len(origs) : origs[k] = e
      BY <1>1
    <3>2. <<origs[k], base + k>> \in R
      BY <1>3
    <3> QED
      BY <1>4, <3>1, <3>2
  <2> QED
    BY <2>1, <2>2
<1>6. ASSUME NEW e PROVE e \in {p[2] : p \in R} <=> \E k \in 1 .. Len(origs) : e = base + k
  <2>1. ASSUME NEW p \in R PROVE \E k \in 1 .. Len(origs) : p[2] = base + k
    BY <1>3, <1>4
  <2>2. ASSUME NEW k \in 1 .. Len(origs), e = base + k PROVE \E p \in R : e = p[2]
    <3>1. <<origs[k], base + k>> \in R
      BY <1>3
    <3> QED
      BY <1>4, <2>2, <3>1
  <2> QED
    BY <2>1, <2>2
<1>7. ASSUME NEW b, GetOpBox(b) \in Range(origs) PROVE CopyIn(z, b) = Copy(origs, base, b)
  <2>1. PICK j : j = CHOOSE k \in DOMAIN origs : origs[k] = GetOpBox(b)
    OBVIOUS
  <2>2. j \in 1 .. Len(origs) /\ origs[j] = GetOpBox(b)
    BY <1>1, <1>7, <2>1
  <2>3. PICK q : q = CHOOSE p \in R : p[1] = GetOpBox(b)
    OBVIOUS
  <2>4. q \in R /\ q[1] = GetOpBox(b)
    <3>1. <<origs[j], base + j>> \in R /\ <<origs[j], base + j>>[1] = GetOpBox(b)
      BY <1>3, <2>2
    <3> QED
      BY <2>3, <3>1
  <2>5. PICK k \in 1 .. Len(origs) : q = <<origs[k], base + k>>
    BY <1>3, <2>4
  <2>6. origs[k] = origs[j]
    BY <2>2, <2>4, <2>5
  <2>7. k = j
    BY <2>2, <2>6 DEF Distinct
  <2>8. q[2] = base + j
    BY <2>5, <2>7
  <2> QED
    BY <1>2, <2>1, <2>3, <2>8 DEF CopyIn, Copy
<1> QED
  BY <1>2, <1>5, <1>6, <1>7

LEMMA PastedAlike ==
  ASSUME NEW m, NEW z, NEW origs, NEW base, NEW ok, NEW moves, NEW left, NEW V,
         Ready(m, origs, base, ok, moves, left), V = Inner(m, origs),
         Pasted(m, z, origs, base, moves, left, V),
         z.pasted = [k \in 1 .. Len(origs) |-> <<origs[k], base + k>>], z.moved = moves
  PROVE  Alike(z)
<1>1. base \in Nat /\ origs \in Seq(Boxes) /\ Distinct(origs) /\ m \in StateType
  BY DEF Ready, Good, Books
<1>2. /\ {p[1] : p \in Range(z.pasted)} = Range(origs)
      /\ \A e : e \in {p[2] : p \in Range(z.pasted)} <=> \E k \in 1 .. Len(origs) : e = base + k
      /\ \A b : GetOpBox(b) \in Range(origs) => CopyIn(z, b) = Copy(origs, base, b)
  BY <1>1, PastedPairs
<1>3. PICK C : C = {p[2] : p \in Range(z.pasted)}
  OBVIOUS
<1>4. \A e : e \in C <=> \E k \in 1 .. Len(origs) : e = base + k
  BY <1>2, <1>3
<1>5. \A e \in C : e \in Nat /\ e > base
  BY <1>1, <1>4
<1>6. ASSUME NEW o \in V
      PROVE  /\ o \in Range(m.connects)
             /\ OutOf(o) \in Buttons /\ GetOpBox(OutOf(o)) \in Range(origs)
             /\ InOf(o) \in Buttons /\ GetOpBox(InOf(o)) \in Range(origs)
             /\ \/ OutOf(o) = o.src /\ InOf(o) = o.dst
                \/ OutOf(o) = o.dst /\ InOf(o) = o.src
  <2>1. /\ o \in Range(m.connects)
        /\ GetOpBox(o.src) \in Range(origs) /\ GetOpBox(o.dst) \in Range(origs)
    BY DEF Inner
  <2>2. Books(m, {})
    BY DEF Ready, Good
  <2> QED
    BY <2>1, <2>2, EndsFacts
<1>8. \A c : c \in Range(z.connects) <=>
              \/ c \in Range(m.connects)
              \/ \E o \in V : c = Image(origs, base, moves, left, o)
  BY DEF Pasted
<1>9. \A c \in Range(m.connects) : GetOpBox(c.src) <= base /\ GetOpBox(c.dst) <= base
  BY DEF Ready
<1>10. \A e \in Range(origs) : e \in Nat /\ e <= base
  <2>1. \A k \in 1 .. Len(origs) : origs[k] <= base /\ origs[k] \in Nat
    BY <1>1, OpDeskAssumption DEF Ready, Boxes
  <2> QED
    BY <1>1, <2>1, RangeOf
<1>11. ASSUME NEW o \in V, NEW c, c = Image(origs, base, moves, left, o)
       PROVE  /\ GetOpBox(c.src) \in C /\ GetOpBox(c.src) \notin Range(origs)
  <2>1. PICK k \in 1 .. Len(origs) : GetOpBox(Copy(origs, base, OutOf(o))) = base + k
    BY <1>6, CopyFacts
  <2>2. base + k \in C
    BY <1>4
  <2>3. base + k \notin Range(origs)
    BY <1>1, <1>10
  <2>4. GetOpBox(c.src) = base + k
    BY <1>11, <2>1, ImageFields
  <2> QED
    BY <2>2, <2>3, <2>4
<1>12. InnerIn(z) = Inner(m, origs)
  <2>1. ASSUME NEW c \in Range(z.connects), GetOpBox(c.src) \in Range(origs)
        PROVE  c \in Range(m.connects)
    <3>1. ASSUME NEW o \in V, c = Image(origs, base, moves, left, o) PROVE FALSE
      BY <1>11, <2>1, <3>1
    <3> QED
      BY <1>8, <3>1
  <2>2. \A c : c \in Range(m.connects) => c \in Range(z.connects)
    BY <1>8
  <2> QED
    BY <1>2, <2>1, <2>2 DEF InnerIn, Inner
<1>13. \A c : c \in Had(z) <=> \E o \in V : c = Image(origs, base, moves, left, o)
  <2>1. \A c : c \in Had(z) <=> /\ c \in Range(z.connects)
                                /\ GetOpBox(c.src) \in C \/ GetOpBox(c.dst) \in C
    BY <1>3 DEF Had
  <2>2. ASSUME NEW c \in Range(m.connects) PROVE GetOpBox(c.src) \notin C /\ GetOpBox(c.dst) \notin C
    BY <1>1, <1>5, <1>9
  <2>3. ASSUME NEW o \in V, NEW c, c = Image(origs, base, moves, left, o)
        PROVE  GetOpBox(c.src) \in C
    BY <1>11, <2>3
  <2> QED
    BY <1>8, <2>1, <2>2, <2>3
<1>14. \A w : w \in Wanted(z) <=> \E o \in V : w = ImageIn(z, o)
  BY <1>12 DEF Wanted
<1>15. ASSUME NEW o \in V
       PROVE  /\ Pair(ImageIn(z, o)) = Pair(Image(origs, base, moves, left, o))
              /\ ~moves => Full(ImageIn(z, o)) = Full(Image(origs, base, moves, left, o))
  <2>1. PICK w : w = ImageIn(z, o)
    OBVIOUS
  <2>2. PICK c : c = Image(origs, base, moves, left, o)
    OBVIOUS
  <2>3. /\ c.src = Copy(origs, base, OutOf(o)) /\ c.dst = Copy(origs, base, InOf(o))
        /\ ~moves => c.color = o.color
    BY <2>2, ImageFields
  <2>4. w.src = CopyIn(z, o.src) /\ w.dst = CopyIn(z, o.dst) /\ w.color = o.color
    BY <2>1 DEF ImageIn
  <2>5. /\ Copy(origs, base, OutOf(o)) = CopyIn(z, OutOf(o))
        /\ Copy(origs, base, InOf(o)) = CopyIn(z, InOf(o))
    BY <1>2, <1>6
  <2>6. CASE OutOf(o) = o.src /\ InOf(o) = o.dst
    <3>1. c.src = w.src /\ c.dst = w.dst
      BY <2>3, <2>4, <2>5, <2>6
    <3> QED
      BY <2>1, <2>2, <2>3, <2>4, <3>1 DEF Pair, Full
  <2>7. CASE OutOf(o) = o.dst /\ InOf(o) = o.src
    <3>1. c.src = w.dst /\ c.dst = w.src
      BY <2>3, <2>4, <2>5, <2>7
    <3>2. {c.src, c.dst} = {w.src, w.dst}
      BY <3>1
    <3> QED
      BY <2>1, <2>2, <2>3, <2>4, <3>2 DEF Pair, Full
  <2> QED
    BY <1>6, <2>6, <2>7
<1>16. /\ \A c \in Had(z) : \E o \in V : c = Image(origs, base, moves, left, o)
       /\ \A o \in V : Image(origs, base, moves, left, o) \in Had(z) /\ ImageIn(z, o) \in Wanted(z)
       /\ \A w \in Wanted(z) : \E o \in V : w = ImageIn(z, o)
  BY <1>13, <1>14
<1>17. {Pair(c) : c \in Had(z)} = {Pair(c) : c \in Wanted(z)}
  <2>1. ASSUME NEW c \in Had(z) PROVE \E w \in Wanted(z) : Pair(c) = Pair(w)
    BY <1>15, <1>16
  <2>2. ASSUME NEW w \in Wanted(z) PROVE \E c \in Had(z) : Pair(w) = Pair(c)
    BY <1>15, <1>16
  <2> QED
    BY <2>1, <2>2
<1>18. ASSUME ~z.moved PROVE {Full(c) : c \in Had(z)} = {Full(c) : c \in Wanted(z)}
  <2>1. ASSUME NEW c \in Had(z) PROVE \E w \in Wanted(z) : Full(c) = Full(w)
    BY <1>15, <1>16, <1>18
  <2>2. ASSUME NEW w \in Wanted(z) PROVE \E c \in Had(z) : Full(w) = Full(c)
    BY <1>15, <1>16, <1>18
  <2> QED
    BY <2>1, <2>2
<1> QED
  BY <1>17, <1>18 DEF Alike

LEMMA PasteAlike ==
  ASSUME Good(x), Paste
  PROVE  Good(x') /\ Alike(x')
<1>1. PICK ok \in {Buttons, {}}, moves \in BOOLEAN, left \in Colors :
        x' = PasteSelected(x, ok, moves, left)
  BY DEF Paste
<1>2. x.made + Len(x.box_clipboard) <= MaxBoxes
  BY DEF Paste
<1>3. PICK m : m = Duplicated(x, ok, moves)
  OBVIOUS
<1>4. PICK origs : origs = x.box_clipboard
  OBVIOUS
<1>5. PICK V : V = Done(ok, Inner(m, origs))
  OBVIOUS
<1>6. Ready(m, origs, x.made, ok, moves, left) /\ IsDuplicate(x, m, ok, moves)
  BY <1>2, <1>3, <1>4, DuplicatedReady, DuplicatedFields
<1>7. PICK z : z = x'
  OBVIOUS
<1>8. Pasted(m, z, origs, x.made, moves, left, V)
  BY <1>1, <1>2, <1>3, <1>4, <1>5, <1>7, PasteSelectedPasted
<1>9. /\ z.pasted = IF ok = {} THEN <<>>
                    ELSE [k \in 1 .. Len(origs) |-> <<origs[k], x.made + k>>]
      /\ z.moved = moves
  BY <1>4, <1>6, <1>8 DEF IsDuplicate, Pasted, SameDesk
<1>10. CASE ok = {}
  <2>1. Alike(z)
    BY <1>9, <1>10, NothingPasted
  <2> QED
    BY <1>7, <1>8, <2>1 DEF Pasted
<1>11. CASE ok # {}
  <2>1. V = Inner(m, origs)
    BY <1>5, <1>11 DEF Done
  <2>2. z.pasted = [k \in 1 .. Len(origs) |-> <<origs[k], x.made + k>>]
    BY <1>9, <1>11
  <2>3. Alike(z)
    BY <1>6, <1>8, <1>9, <2>1, <2>2, PastedAlike
  <2> QED
    BY <1>7, <1>8, <2>3 DEF Pasted
<1> QED
  BY <1>10, <1>11

----------------------------------------------------------------------------
(* Theorems                                                                *)

LEMMA InitGood ==
  ASSUME Init
  PROVE  Good(x) /\ x.pasted = <<>>
<1>1. PICK e : e = <<>>
  OBVIOUS
<1>2. PICK q : q = <<1, 2>>
  OBVIOUS
<1>3. PICK t : t = [b \in Buttons |-> e]
  OBVIOUS
<1>4. x = [made |-> 2, boxes |-> q, box_clipboard |-> e, doomed |-> {},
           alive |-> ButtonsOf({1, 2}), connected_to |-> t, connects |-> e,
           redone |-> {}, pushed |-> NoButton, pasted |-> e, moved |-> FALSE]
  BY <1>1, <1>2, <1>3 DEF Init
<1>5. 1 \in Boxes /\ 2 \in Boxes /\ 2 \in 0 .. MaxBoxes
  BY OpDeskAssumption DEF Boxes
<1>6. q \in Seq(Boxes) /\ Range(q) = {1, 2} /\ Distinct(q)
  <2>1. Len(q) = 2 /\ q[1] = 1 /\ q[2] = 2 /\ q \in Seq(Boxes)
    BY <1>2, <1>5
  <2>2. \A i : i \in 1 .. Len(q) <=> i = 1 \/ i = 2
    BY <2>1
  <2>3. \A b : b \in Range(q) <=> \E i \in 1 .. Len(q) : q[i] = b
    BY <2>1, RangeOf
  <2>4. Range(q) = {1, 2}
    BY <2>1, <2>2, <2>3
  <2> QED
    BY <2>1, <2>2, <2>4 DEF Distinct
<1>7. /\ \A S : e \in Seq(S)
      /\ Range(e) = {} /\ Distinct(e) /\ Single(e) /\ DistinctPairs(e)
  BY <1>1 DEF Range, Distinct, Single, DistinctPairs
<1>8. t \in [Buttons -> Seq(Buttons)] /\ \A b \in Buttons : t[b] = e
  BY <1>3, <1>7
<1>9. ButtonsOf({1, 2}) \in SUBSET Buttons
  BY <1>5 DEF ButtonsOf, Buttons
<1>10. x \in StateType
  BY <1>4, <1>5, <1>6, <1>7, <1>8, <1>9 DEF StateType
<1>11. /\ x.made = 2 /\ x.boxes = q /\ x.box_clipboard = e /\ x.doomed = {}
       /\ x.alive = ButtonsOf({1, 2}) /\ x.connected_to = t /\ x.connects = e
       /\ x.pushed = NoButton /\ x.pasted = e /\ x.redone = {}
  BY <1>4
<1>12. Books(x, {})
  BY <1>7, <1>8, <1>10, <1>11 DEF Books, Tells, In, Listed
<1>13. Housed(x)
  <2>1. Range(x.boxes) \cup x.doomed = {1, 2} /\ Range(x.boxes) \cap x.doomed = {}
    BY <1>6, <1>11
  <2>2. {1, 2} \subseteq 1 .. 2
    OBVIOUS
  <2> QED
    BY <1>6, <1>7, <1>11, <2>1, <2>2 DEF Housed, There
<1> QED
  BY <1>1, <1>11, <1>12, <1>13 DEF Good

LEMMA DistinctCount ==
  ASSUME NEW T, NEW s \in Seq(T), Distinct(s)
  PROVE  Len(s) = Cardinality(Range(s))
<1>1. Len(s) \in Nat /\ \A e : e \in Range(s) <=> \E i \in 1 .. Len(s) : s[i] = e
  BY RangeOf
<1>2. PICK f : f = [i \in 1 .. Len(s) |-> s[i]]
  OBVIOUS
<1>3. f \in Bijection(1 .. Len(s), Range(s))
  BY <1>1, <1>2 DEF Bijection, Injection, Surjection, IsInjective, Distinct
<1> QED
  BY <1>1, <1>3, FS_CountingElements DEF ExistsBijection

\* A set whose members are all the same one.
LEMMA CountOne ==
  ASSUME NEW S, \A i, j \in S : i = j
  PROVE  Cardinality(S) = IF S = {} THEN 0 ELSE 1
<1>1. CASE S = {}
  BY <1>1, FS_EmptySet
<1>2. CASE S # {}
  <2>1. PICK e : S = {e}
    BY <1>2
  <2> QED
    BY <1>2, <2>1, FS_Singleton
<1> QED
  BY <1>1, <1>2

\* The inductive invariant implies the invariants.
LEMMA GoodBooksAgree ==
  ASSUME Good(x)
  PROVE  BooksAgree
<1>1. /\ x \in StateType /\ Books(x, {})
      /\ x.boxes \in Seq(Boxes) /\ x.box_clipboard \in Seq(Boxes)
      /\ x.alive \in SUBSET Buttons /\ x.connects \in Seq(Connections)
      /\ \A a \in Buttons : x.connected_to[a] \in Seq(Buttons)
  BY StateFacts DEF Good, Books
<1>2. TypeOK
  BY <1>1, DistinctCount DEF TypeOK, Good, Housed
<1>3. ASSUME NEW a \in Buttons, NEW b \in Buttons
      PROVE  Times(x.connected_to[a], b) = IF In(x, a, b) THEN 1 ELSE 0
  <2>1. PICK s : s = x.connected_to[a]
    OBVIOUS
  <2>2. PICK S : S = {k \in DOMAIN s : s[k] = b}
    OBVIOUS
  <2>3. /\ DOMAIN s = 1 .. Len(s)
        /\ \A e : e \in Range(s) <=> \E i \in 1 .. Len(s) : s[i] = e
    BY <1>1, <2>1, RangeOf
  <2>4. \A i, j \in S : i = j
    <3>1. Distinct(s)
      BY <1>1, <2>1 DEF Books
    <3> QED
      BY <2>2, <2>3, <3>1 DEF Distinct
  <2>5. S # {} <=> In(x, a, b)
    BY <2>1, <2>2, <2>3 DEF In
  <2>6. Cardinality(S) = IF In(x, a, b) THEN 1 ELSE 0
    BY <2>4, <2>5, CountOne
  <2> QED
    BY <2>1, <2>2, <2>6 DEF Times
<1>4. ASSUME NEW a, NEW b
      PROVE  Cardinality({k \in DOMAIN x.connects : AreConnected(x.connects[k], a, b)}) =
               IF Listed(x, a, b) THEN 1 ELSE 0
  <2>1. PICK s : s = x.connects
    OBVIOUS
  <2>2. PICK S : S = {k \in DOMAIN s : AreConnected(s[k], a, b)}
    OBVIOUS
  <2>3. /\ DOMAIN s = 1 .. Len(s)
        /\ \A e : e \in Range(s) <=> \E i \in 1 .. Len(s) : s[i] = e
    BY <1>1, <2>1, RangeOf
  <2>4. \A i, j \in S : i = j
    <3>1. DistinctPairs(s)
      BY <1>1, <2>1 DEF Books
    <3>2. \A i, j \in S : /\ i \in 1 .. Len(s) /\ j \in 1 .. Len(s)
                          /\ {s[i].src, s[i].dst} = {s[j].src, s[j].dst}
      BY <2>2, <2>3 DEF AreConnected
    <3> QED
      BY <3>1, <3>2 DEF DistinctPairs, AreConnected
  <2>5. S # {} <=> Listed(x, a, b)
    BY <2>1, <2>2, <2>3 DEF Listed
  <2> QED
    BY <2>1, <2>2, <2>4, <2>5, CountOne
<1>5. ASSUME NEW a \in x.alive, NEW b \in x.alive,
             GetButtonType(a) = "out", GetButtonType(b) = "in"
      PROVE  LET n == Cardinality({k \in DOMAIN x.connects : AreConnected(x.connects[k], a, b)})
             IN  /\ n <= 1
                 /\ Times(x.connected_to[b], a) = n
                 /\ Times(x.connected_to[a], b) <= n
                 /\ <<a, b>> \notin x.redone => Times(x.connected_to[a], b) = n
  <2>1. a \in Buttons /\ b \in Buttons
    BY <1>1
  <2>2. Listed(x, a, b) <=> Listed(x, b, a)
    BY ListedBoth
  <2>3. /\ In(x, a, b) => Listed(x, a, b)
        /\ Listed(x, a, b) => In(x, a, b) \/ <<a, b>> \in x.redone
    BY <1>1, <2>1 DEF Books, Tells
  <2>4. In(x, b, a) <=> Listed(x, b, a)
    <3>1. <<b, a>> \notin {}
      OBVIOUS
    <3> QED
      BY ONLY <1>1, <1>5, <2>1, <3>1, InputTells
  <2>5. /\ Times(x.connected_to[a], b) = IF In(x, a, b) THEN 1 ELSE 0
        /\ Times(x.connected_to[b], a) = IF In(x, b, a) THEN 1 ELSE 0
    BY <1>3, <2>1
  <2> QED
    BY <1>4, <2>2, <2>3, <2>4, <2>5
<1> QED
  BY <1>2, <1>5 DEF BooksAgree

LEMMA GoodOneSource ==
  ASSUME Good(x)
  PROVE  OneSource
<1>1. x \in StateType /\ Books(x, {}) /\ x.alive \in SUBSET Buttons
  BY StateFacts DEF Good, Books
<1>2. ASSUME NEW b \in x.alive, GetButtonType(b) = "in" PROVE Len(x.connected_to[b]) <= 1
  <2>1. PICK s : s = x.connected_to[b]
    OBVIOUS
  <2>2. s \in Seq(Buttons) /\ Single(s)
    BY <1>1, <1>2, <2>1, StateFacts DEF Books
  <2>3. Len(s) \in Nat
    BY <2>2
  <2>4. Len(s) <= 1
    <3>1. ASSUME Len(s) > 1 PROVE FALSE
      <4>1. 1 \in 1 .. Len(s) /\ 2 \in 1 .. Len(s)
        BY <2>3, <3>1
      <4> QED
        BY <2>2, <4>1 DEF Single
    <3> QED
      BY <2>3, <3>1
  <2> QED
    BY <2>1, <2>4
<1>3. ASSUME NEW b \in x.alive, GetButtonType(b) = "in"
      PROVE  Cardinality({k \in DOMAIN x.connects :
                            b \in {x.connects[k].src, x.connects[k].dst}}) <= 1
  <2>1. PICK s : s = x.connects
    OBVIOUS
  <2>2. PICK S : S = {k \in DOMAIN s : b \in {s[k].src, s[k].dst}}
    OBVIOUS
  <2>3. s \in Seq(Connections) /\ DOMAIN s = 1 .. Len(s) /\ DistinctPairs(s)
    <3>1. x.connects \in Seq(Connections) /\ DistinctPairs(x.connects)
      BY <1>1, StateFacts DEF Books
    <3> QED
      BY <2>1, <3>1
  <2>4. ASSUME NEW i \in S, NEW j \in S PROVE i = j
    <3>1. PICK c, d : c = s[i] /\ d = s[j]
      OBVIOUS
    <3>2. /\ i \in 1 .. Len(s) /\ j \in 1 .. Len(s) /\ b \in Pair(c) /\ b \in Pair(d)
          /\ c \in Range(x.connects) /\ d \in Range(x.connects)
      BY <2>1, <2>2, <2>3, <3>1, RangeOf DEF Pair
    <3>3. b = InOf(c) /\ b = InOf(d)
      BY <1>1, <1>3, <3>2, EndsFacts
    <3>4. c = d
      BY <1>1, <3>2, <3>3, OnePerInput
    <3> QED
      BY <2>3, <3>1, <3>2, <3>4 DEF DistinctPairs, AreConnected
  <2>5. Cardinality(S) <= 1
    BY <2>4, CountOne
  <2> QED
    BY <2>1, <2>2, <2>5
<1>4. \A c \in Range(x.connects) : GetButtonType(c.src) # GetButtonType(c.dst)
  BY <1>1 DEF Books, Sensible
<1> QED
  BY <1>2, <1>3, <1>4 DEF OneSource

LEMMA GoodNoDangling ==
  ASSUME Good(x)
  PROVE  NoDangling
<1>1. /\ x \in StateType /\ Books(x, {}) /\ Housed(x) /\ x.alive \in SUBSET Buttons
      /\ x.alive = ButtonsOf(There(x))
  BY StateFacts DEF Good, Books, Housed
<1>2. ASSUME NEW b \in Buttons, GetOpBox(b) \in There(x) PROVE b \in x.alive
  BY <1>1, <1>2, ButtonFacts DEF ButtonsOf
<1>3. ASSUME NEW c \in Range(x.connects) PROVE c.src \in x.alive /\ c.dst \in x.alive
  <2>1. c.src \in Buttons /\ c.dst \in Buttons
    BY <1>1, ConnectsFacts
  <2>2. GetOpBox(c.src) \in There(x) /\ GetOpBox(c.dst) \in There(x)
    BY <1>1 DEF Books, Sensible
  <2> QED
    BY <1>2, <2>1, <2>2
<1>4. ASSUME NEW a \in x.alive, NEW b \in Range(x.connected_to[a]) PROVE b \in x.alive
  <2>1. a \in Buttons
    BY <1>1
  <2>2. Range(x.connected_to[a]) \subseteq Buttons
    BY <1>1, <2>1, StateFacts, RangeOf
  <2>3. Listed(x, a, b)
    BY <1>1, <2>1, <2>2 DEF Books, Tells, In
  <2>4. PICK c \in Range(x.connects) : Pair(c) = {a, b}
    BY <2>3, ListedIs
  <2> QED
    BY <1>3, <2>4 DEF Pair
<1>5. ButtonsOf(Range(x.boxes)) \subseteq x.alive
  BY <1>1 DEF ButtonsOf, There
<1> QED
  BY <1>1, <1>3, <1>4, <1>5 DEF NoDangling, Housed

\* Every step keeps the inductive invariant, and a step that pastes connects the
\* copies alike.
LEMMA NextGood ==
  ASSUME Good(x), CopiesAlike, [Next]_x
  PROVE  Good(x)' /\ CopiesAlike'
<1>1. CASE Paste
  BY <1>1, PasteAlike, AlikeNext
<1>2. CASE Good(x') /\ x'.pasted = <<>>
  BY <1>2, NothingPasted, AlikeNext
<1>3. CASE UNCHANGED x
  BY <1>3, AlikeNow, AlikeNext
<1> QED
  BY <1>1, <1>2, <1>3, NextIs

\* The desk's books stay in order: Good is the conjunction of what every operation of
\* Fl_OpDesk and Fl_OpButton relies on.  Any button connects itself to any other at any
\* time, and events are handled while deleted boxes wait to be freed.
THEOREM OpDeskInductive ==
  Spec => [](Good(x) /\ CopiesAlike)
<1>1. Init => Good(x) /\ CopiesAlike
  BY InitGood, NothingPasted, AlikeNow
<1>2. Good(x) /\ CopiesAlike /\ [Next]_x => (Good(x) /\ CopiesAlike)'
  BY NextGood
<1> QED
  BY <1>1, <1>2, PTL DEF Spec

\* connects of the desk and connected_to of both buttons agree on every output and input,
\* at most once, for any number of boxes, connections, colors and selected boxes, after any
\* sequence of connects from either side, refusals, deletes, pastes and events; only the
\* list of an output that connected to its input again may lack it.
THEOREM OpDeskBooksAgree ==
  Spec => []BooksAgree
<1>1. Good(x) => BooksAgree
  BY GoodBooksAgree
<1> QED
  BY <1>1, OpDeskInductive, PTL

\* An input has one output in its list and one connection on the desk at most, and every
\* connection is between an output and an input: _ConnectToOnly drops the former source,
\* whoever connects, in either direction and even again.
THEOREM OpDeskOneSource ==
  Spec => []OneSource
<1>1. Good(x) => OneSource
  BY GoodOneSource
<1> QED
  BY <1>1, OpDeskInductive, PTL

\* No connection, no list of a button, no place on the clipboard and no Fl::pushed() names
\* what has been freed, although a button of a deleted box can be pushed, released and
\* connected until do_widget_deletion frees it: ~Fl_OpBox disconnects once more.
THEOREM OpDeskNoDangling ==
  Spec => []NoDangling
<1>1. Good(x) => NoDangling
  BY GoodNoDangling
<1> QED
  BY <1>1, OpDeskInductive, PTL

\* PasteSelected connects the copies as their originals are connected and to nothing
\* else, in the same colors unless the vector moved, however many boxes are pasted.
THEOREM OpDeskCopiesAlike ==
  Spec => []CopiesAlike
BY OpDeskInductive, PTL
=============================================================================
