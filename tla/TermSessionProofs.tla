-------------------------- MODULE TermSessionProofs --------------------------
(***************************************************************************)
(* Proofs about TermSession, for buffers and reads of any size.            *)
(***************************************************************************)
EXTENDS TermSession, FiniteSetTheorems, TLAPS

\* Answers are owed exactly while SendBack is under way.
OwedOK == at = "answering" <=> owed > 0

IInv == TypeOK /\ OwedOK

LEMMA InitOK == Init => IInv
  <1> SUFFICES ASSUME Init PROVE IInv
    OBVIOUS
  <1>1. /\ to_term \in Seq(Pieces) /\ Len(to_term) = 0
        /\ to_child \in Seq(Inputs) /\ Len(to_child) = 0
    BY DEF Init
  <1>2. written = 0 /\ shown = 0 /\ owed = 0 /\ at = "loop"
    BY DEF Init
  <1>3. Len(to_term) <= Cap /\ Len(to_child) <= Cap
    BY <1>1, SessionAssumption
  <1>4. written \in 0 .. MaxShown /\ shown = written - Len(to_term) /\ owed \in 0 .. MaxRead
    BY <1>1, <1>2, SessionAssumption
  <1>5. TypeOK
    BY <1>1, <1>2, <1>3, <1>4 DEF Init, TypeOK
  <1> QED
    BY <1>2, <1>5 DEF IInv, OwedOK

\* How many of the first n pieces are queries.
LEMMA QueriesCounted ==
  ASSUME NEW s, NEW n \in Nat, NEW queries, queries = {k \in 1 .. n : s[k] = "query"}
  PROVE  Cardinality(queries) \in 0 .. n /\ (queries = {} <=> Cardinality(queries) = 0)
  <1>1. IsFiniteSet(1 .. n) /\ Cardinality(1 .. n) = n
    BY FS_Interval
  <1>2. queries \subseteq 1 .. n
    OBVIOUS
  <1>3. IsFiniteSet(queries) /\ Cardinality(queries) <= n
    BY <1>1, <1>2, FS_Subset
  <1>4. Cardinality(queries) \in Nat
    BY <1>3, FS_CardinalityType
  <1>5. Cardinality(queries) = 0 <=> queries = {}
    BY <1>3, FS_EmptySet
  <1> QED
    BY <1>3, <1>4, <1>5

LEMMA Mfd_cbKeeps == ASSUME IInv, Mfd_cb PROVE IInv'
  <1> USE SessionAssumption DEF IInv
  <1> DEFINE n == IF Len(to_term) < MaxRead THEN Len(to_term) ELSE MaxRead
             queries == {k \in 1 .. n : to_term[k] = "query"}
  <1>1. /\ n > 0
        /\ to_term' = SubSeq(to_term, n + 1, Len(to_term))
        /\ shown' = shown + n
        /\ owed' = Cardinality(queries)
        /\ at' = IF queries = {} THEN "loop" ELSE "answering"
        /\ UNCHANGED <<child, opened, to_child, written, cut>>
    BY DEF Mfd_cb
  <1>2. n \in 1 .. MaxRead /\ n <= Len(to_term) /\ Len(to_term) \in Nat
    BY <1>1 DEF TypeOK
  <1>3. Cardinality(queries) \in 0 .. n /\ (queries = {} <=> Cardinality(queries) = 0)
    BY <1>2, QueriesCounted
  <1> HIDE DEF n, queries
  <1>4. to_term' \in Seq(Pieces) /\ Len(to_term') = Len(to_term) - n
    BY <1>1, <1>2 DEF TypeOK
  <1>5. TypeOK'
    <2>1. owed' \in 0 .. MaxRead
      BY <1>1, <1>2, <1>3
    <2>2. Len(to_term') <= Cap /\ shown' = written' - Len(to_term')
      <3>1. Len(to_term) <= Cap /\ written \in Nat /\ shown = written - Len(to_term)
        BY DEF TypeOK
      <3>2. Len(to_term') = Len(to_term) - n /\ shown' = shown + n /\ written' = written
        BY <1>1, <1>4
      <3> QED
        BY <1>2, <3>1, <3>2, SessionAssumption
    <2> QED
      BY <1>1, <1>4, <2>1, <2>2 DEF TypeOK
  <1>6. OwedOK'
    BY <1>1, <1>2, <1>3 DEF OwedOK
  <1> QED
    BY <1>5, <1>6

\* A write to the master fills the buffer at most up to its room.
LEMMA WriteKeeps ==
  ASSUME IInv, NEW what \in Inputs, Write(what)
  PROVE  to_child' \in Seq(Inputs) /\ Len(to_child') <= Cap /\ cut' \in BOOLEAN
  <1>1. CASE Len(to_child) < Cap
    BY <1>1, SessionAssumption DEF IInv, TypeOK, Write
  <1>2. CASE ~(Len(to_child) < Cap)
    BY <1>2 DEF IInv, TypeOK, Write
  <1> QED
    BY <1>1, <1>2

LEMMA AnswerKeeps == ASSUME IInv, Answer PROVE IInv'
  <1>1. to_child' \in Seq(Inputs) /\ Len(to_child') <= Cap /\ cut' \in BOOLEAN
    BY WriteKeeps DEF Answer, Inputs
  <1>2. owed \in 1 .. MaxRead
    BY SessionAssumption DEF IInv, TypeOK, OwedOK, Answer
  <1>3. TypeOK'
    BY <1>1, <1>2, SessionAssumption DEF Answer, IInv, TypeOK, Ends
  <1>4. OwedOK'
    BY <1>2, SessionAssumption DEF Answer, OwedOK
  <1> QED
    BY <1>3, <1>4 DEF IInv

LEMMA KeysKeep == ASSUME IInv, Key \/ Quit PROVE IInv'
  <1>1. to_child' \in Seq(Inputs) /\ Len(to_child') <= Cap /\ cut' \in BOOLEAN
    BY WriteKeeps DEF Key, Quit, Inputs
  <1>2. TypeOK'
    BY <1>1 DEF Key, Quit, IInv, TypeOK, Ends
  <1>3. OwedOK'
    BY DEF Key, Quit, IInv, OwedOK
  <1> QED
    BY <1>2, <1>3 DEF IInv

LEMMA EndsKeep == ASSUME IInv, Mfd_cbEnd \/ QuitHides \/ Close PROVE IInv'
  BY DEF Mfd_cbEnd, QuitHides, Close, IInv, TypeOK, OwedOK, Ends

LEMMA ShellKeeps == ASSUME IInv, Shell PROVE IInv'
  <1>1. CASE SlaveStarts \/ SlaveFails \/ ShellExits
    BY <1>1 DEF SlaveStarts, SlaveFails, ShellExits, IInv, TypeOK, OwedOK
  <1>2. CASE ShellWrites
    <2>1. PICK p \in Pieces : to_term' = Append(to_term, p)
      BY <1>2 DEF ShellWrites
    <2>2. to_term' \in Seq(Pieces) /\ Len(to_term') = Len(to_term) + 1
      BY <2>1 DEF IInv, TypeOK
    <2>3. Len(to_term) \in Nat
      BY DEF IInv, TypeOK
    <2> QED
      BY <1>2, <2>2, <2>3, SessionAssumption DEF ShellWrites, IInv, TypeOK, OwedOK
  <1>3. CASE ShellReads
    <2>1. to_child' \in Seq(Inputs) /\ Len(to_child') <= Cap
      BY <1>3, SessionAssumption DEF ShellReads, IInv, TypeOK
    <2> QED
      BY <1>3, <2>1 DEF ShellReads, IInv, TypeOK, OwedOK
  <1> QED
    BY <1>1, <1>2, <1>3 DEF Shell

LEMMA NextKeeps == IInv /\ [Next]_vars => IInv'
  <1> SUFFICES ASSUME IInv, [Next]_vars PROVE IInv'
    OBVIOUS
  <1>1. CASE UNCHANGED vars
    BY <1>1 DEF vars, IInv, TypeOK, OwedOK
  <1>2. CASE Terminal
    BY <1>2, Mfd_cbKeeps, AnswerKeeps, KeysKeep, EndsKeep DEF Terminal
  <1>3. CASE Shell
    BY <1>3, ShellKeeps
  <1> QED
    BY <1>1, <1>2, <1>3 DEF Next, Over

LEMMA Invariance == Spec => []IInv
  BY InitOK, NextKeeps, PTL DEF Spec

\* Neither buffer of the pty holds more than it has room for, and the terminal has
\* shown exactly the pieces that the shell wrote and that are not waiting to be read.
THEOREM TypeCorrect == Spec => []TypeOK
  <1>1. IInv => TypeOK
    BY DEF IInv
  <1> QED
    BY <1>1, Invariance, PTL
============================================================================
