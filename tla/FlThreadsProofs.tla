--------------------------- MODULE FlThreadsProofs ---------------------------
(***************************************************************************)
(* Proofs about FlThreads, for every number of threads and of calls, and   *)
(* every size of the ring and of the pipe.                                 *)
(***************************************************************************)
EXTENDS FlThreads, SequenceTheorems, TLAPS

----------------------------------------------------------------------------
(* The inductive invariant                                                 *)

\* Where the main thread has the lock, once: everywhere but in fl_wait.
Outside == {"lock", "check", "mutex", "own", "count", "select", "release"}

\* What each thread's program counter says of its record.  Only the main thread
\* waits for events and takes handlers.
ThreadOK(t) ==
  /\ th[t].n <= MaxCalls[t]
  /\ t # Main => /\ ~th[t].woken /\ th[t].op = "add" /\ th[t].got = NoHandler
                 /\ th[t].pc \notin {"select", "read", "handler"}
  /\ t = Main => th[t].depth = IF th[t].pc \in Outside THEN 0 ELSE 1
  /\ th[t].pc = "unlock" => th[t].depth > 0
  /\ th[t].pc \in {"own", "release"} => th[t].depth = 0
  /\ th[t].pc \in {"ring", "create", "init", "enter", "body", "advance", "leave"} /\ th[t].op = "add"
        => th[t].n > 0

\* The mutex is held by the thread that is in the lock, and the owner is right
\* from lock_own on.  A thread that has read a counter that is not 0, and is about
\* to read the owner, finds itself there only if it holds the lock: what it read
\* was the count of a holder that is the owner, and nobody else stores its name.
LockOK ==
  /\ fltk_mutex = None => counter = 0
  /\ \A t \in Threads :
       /\ fltk_mutex = t => counter = th[t].depth
       /\ fltk_mutex = t <=> (th[t].depth > 0 \/ th[t].pc \in {"own", "count", "release"})
       /\ th[t].depth > 0 \/ th[t].pc = "count" => owner = t
       /\ th[t].pc = "check" /\ owner = t => th[t].depth > 0

\* The thread inside ring_mutex is the only one, and its copy of the ring is the
\* ring's.
RingLockOK ==
  \A t \in Threads :
    /\ ring_holder = t <=> th[t].pc \in {"body", "advance", "leave"}
    /\ th[t].pc = "advance" /\ th[t].op = "add" =>
         awake_ring_[awake_ring_head_] = <<t, th[t].n>>
    /\ th[t].pc = "advance" /\ th[t].op = "get" =>
         /\ awake_ring_head_ # awake_ring_tail_
         /\ th[t].got = awake_ring_[awake_ring_tail_]

\* What is in the ring was stored there.
PendingOK == Pending \in Seq(Ids)

IInv == /\ TypeOK /\ \A t \in Threads : ThreadOK(t)
        /\ LockOK /\ RingLockOK /\ PendingOK /\ CalledInOrder

----------------------------------------------------------------------------
(* Sequences                                                               *)

LEMMA ConcatOfAppend ==
  ASSUME NEW S, NEW s \in Seq(S), NEW u \in Seq(S), NEW x \in S
  PROVE  s \o (<<x>> \o u) = Append(s, x) \o u
  <1>1. <<x>> \in Seq(S)
    OBVIOUS
  <1>2. Append(s, x) = s \o <<x>>
    BY AppendIsConcat
  <1> QED
    BY <1>1, <1>2, ConcatAssociative

----------------------------------------------------------------------------
(* The ring's indices                                                      *)

\* How many handlers are in the ring.
Count(h, t) == IF h >= t THEN h - t ELSE h - t + AWAKE_RING_SIZE

LEMMA ModLess == ASSUME NEW k \in 0 .. AWAKE_RING_SIZE - 1 PROVE k % AWAKE_RING_SIZE = k
  BY FlThreadsAssumption

LEMMA ModOver == ASSUME NEW k \in AWAKE_RING_SIZE .. 2 * AWAKE_RING_SIZE - 1
                 PROVE k % AWAKE_RING_SIZE = k - AWAKE_RING_SIZE
  BY FlThreadsAssumption

LEMMA ModUnder == ASSUME NEW k \in 1 - AWAKE_RING_SIZE .. -1
                  PROVE k % AWAKE_RING_SIZE = k + AWAKE_RING_SIZE
  BY FlThreadsAssumption
LEMMA ModSucc ==
  ASSUME NEW t \in Indices, NEW i \in 1 .. AWAKE_RING_SIZE - 1
  PROVE  (Succ(t) + i - 1) % AWAKE_RING_SIZE = (t + (i + 1) - 1) % AWAKE_RING_SIZE
  <1>1. CASE t + 1 = AWAKE_RING_SIZE
    <2>1. Succ(t) + i - 1 = i - 1 /\ t + (i + 1) - 1 \in AWAKE_RING_SIZE .. 2 * AWAKE_RING_SIZE - 1
      BY <1>1, FlThreadsAssumption DEF Succ, Indices
    <2>2. (i - 1) % AWAKE_RING_SIZE = i - 1
      BY ModLess, FlThreadsAssumption
    <2>3. (t + (i + 1) - 1) % AWAKE_RING_SIZE = i - 1
      BY <1>1, <2>1, ModOver, FlThreadsAssumption DEF Indices
    <2> QED
      BY <2>1, <2>2, <2>3
  <1>2. CASE t + 1 # AWAKE_RING_SIZE
    BY <1>2, FlThreadsAssumption DEF Succ, Indices
  <1> QED
    BY <1>1, <1>2

\* The handlers from slot t up to slot h.
Slots(ring, h, t) == [i \in 1 .. Count(h, t) |-> ring[(t + i - 1) % AWAKE_RING_SIZE]]

LEMMA CountIsMod ==
  ASSUME NEW h \in Indices, NEW t \in Indices
  PROVE  /\ (h - t) % AWAKE_RING_SIZE = Count(h, t)
         /\ Count(h, t) \in 0 .. AWAKE_RING_SIZE - 1
  <1>1. Count(h, t) \in 0 .. AWAKE_RING_SIZE - 1
    BY FlThreadsAssumption DEF Count, Indices
  <1>2. (h - t) % AWAKE_RING_SIZE = Count(h, t)
    BY FlThreadsAssumption, ModLess, ModUnder DEF Count, Indices
  <1> QED
    BY <1>1, <1>2

LEMMA PendingIsSlots ==
  ASSUME awake_ring_head_ \in Indices, awake_ring_tail_ \in Indices
  PROVE  /\ Pending = Slots(awake_ring_, awake_ring_head_, awake_ring_tail_)
         /\ Count(awake_ring_head_, awake_ring_tail_) \in 0 .. AWAKE_RING_SIZE - 1
  BY CountIsMod DEF Pending, Slots

LEMMA SuccInRing == ASSUME NEW i \in Indices PROVE Succ(i) \in Indices /\ Succ(i) # i
  BY FlThreadsAssumption DEF Succ, Indices

\* What is stored at the head is not among them yet.
LEMMA SlotsStore ==
  ASSUME NEW ring \in [Indices -> Ids \cup {NoHandler}], NEW h \in Indices, NEW t \in Indices, NEW x
  PROVE  Slots([ring EXCEPT ![h] = x], h, t) = Slots(ring, h, t)
  <1> SUFFICES ASSUME NEW i \in 1 .. Count(h, t)
               PROVE  [ring EXCEPT ![h] = x][(t + i - 1) % AWAKE_RING_SIZE]
                        = ring[(t + i - 1) % AWAKE_RING_SIZE]
    BY Zenon DEF Slots
  <1>1. Count(h, t) \in 0 .. AWAKE_RING_SIZE - 1
    BY CountIsMod
  <1>2. (t + i - 1) % AWAKE_RING_SIZE \in Indices /\ (t + i - 1) % AWAKE_RING_SIZE # h
    <2>1. i \in Nat /\ i >= 1 /\ i <= Count(h, t)
      BY <1>1
    <2>2. CASE t + i - 1 < AWAKE_RING_SIZE
      <3>1. t + i - 1 \in 0 .. AWAKE_RING_SIZE - 1 /\ t + i - 1 # h
        BY <2>1, <2>2, FlThreadsAssumption DEF Indices, Count
      <3>2. (t + i - 1) % AWAKE_RING_SIZE = t + i - 1
        BY <3>1, ModLess, Zenon
      <3> QED
        BY <3>1, <3>2 DEF Indices
    <2>3. CASE t + i - 1 >= AWAKE_RING_SIZE
      <3>1. /\ t + i - 1 \in AWAKE_RING_SIZE .. 2 * AWAKE_RING_SIZE - 1
            /\ t + i - 1 - AWAKE_RING_SIZE \in Indices
            /\ t + i - 1 - AWAKE_RING_SIZE # h
        BY <1>1, <2>1, <2>3, FlThreadsAssumption DEF Indices, Count
      <3>2. (t + i - 1) % AWAKE_RING_SIZE = t + i - 1 - AWAKE_RING_SIZE
        <4>1. PICK k \in AWAKE_RING_SIZE .. 2 * AWAKE_RING_SIZE - 1 : k = t + i - 1
          BY <3>1
        <4>2. k % AWAKE_RING_SIZE = k - AWAKE_RING_SIZE
          BY ModOver
        <4> QED
          BY <4>1, <4>2, <2>1, FlThreadsAssumption DEF Indices
      <3> QED
        BY <3>1, <3>2
    <2> QED
      BY <2>1, <2>2, <2>3, FlThreadsAssumption DEF Indices
  <1> QED
    BY <1>2

\* Storing at the head adds a handler at the end, if there is room for one.
LEMMA SlotsAppend ==
  ASSUME NEW ring, NEW h \in Indices, NEW t \in Indices, Count(h, t) # AWAKE_RING_SIZE - 1,
         NEW S, Slots(ring, h, t) \in Seq(S), ring[h] \in S
  PROVE  Slots(ring, Succ(h), t) = Append(Slots(ring, h, t), ring[h])
  <1> DEFINE n == Count(h, t)
  <1>1. n \in 0 .. AWAKE_RING_SIZE - 2
    BY FlThreadsAssumption DEF Count, Indices
  <1>2. Count(Succ(h), t) = n + 1
    BY FlThreadsAssumption DEF Count, Succ, Indices
  <1>3. (t + (n + 1) - 1) % AWAKE_RING_SIZE = h
    <2>1. CASE h >= t
      BY <2>1, ModLess, FlThreadsAssumption DEF Count, Indices
    <2>2. CASE h < t
      BY <2>2, ModOver, FlThreadsAssumption DEF Count, Indices
    <2> QED
      BY <2>1, <2>2 DEF Indices
  <1>4. Len(Slots(ring, h, t)) = n
    BY <1>1 DEF Slots
  <1> HIDE DEF n
  <1>5. Slots(ring, Succ(h), t) = [i \in 1 .. n + 1 |-> ring[(t + i - 1) % AWAKE_RING_SIZE]]
    BY <1>2 DEF Slots
  <1>6. Append(Slots(ring, h, t), ring[h])
           = [i \in 1 .. n + 1 |-> IF i <= n THEN Slots(ring, h, t)[i] ELSE ring[h]]
    BY <1>1, <1>4
  <1>7. ASSUME NEW i \in 1 .. n + 1
        PROVE  ring[(t + i - 1) % AWAKE_RING_SIZE] = IF i <= n THEN Slots(ring, h, t)[i] ELSE ring[h]
    <2>1. CASE i <= n
      <3>1. i \in 1 .. Count(h, t)
        BY <2>1, <1>1 DEF n
      <3> QED
        BY <2>1, <3>1 DEF Slots
    <2>2. CASE i = n + 1
      BY <2>2, <1>1, <1>3
    <2> QED
      BY <2>1, <2>2, <1>1
  <1> QED
    BY <1>5, <1>6, <1>7, Zenon

\* Storing into the last free slot makes the ring look empty.
LEMMA SlotsOverrun ==
  ASSUME NEW ring, NEW h \in Indices, NEW t \in Indices, Count(h, t) = AWAKE_RING_SIZE - 1
  PROVE  Slots(ring, Succ(h), t) = <<>>
  <1>1. Count(Succ(h), t) = 0
    BY FlThreadsAssumption DEF Count, Succ, Indices
  <1> QED
    BY <1>1 DEF Slots

\* Taking the handler at the tail takes the first one.
LEMMA SlotsTail ==
  ASSUME NEW ring, NEW h \in Indices, NEW t \in Indices, h # t,
         NEW S, Slots(ring, h, t) \in Seq(S)
  PROVE  /\ Slots(ring, h, t) = <<ring[t]>> \o Slots(ring, h, Succ(t))
         /\ Slots(ring, h, Succ(t)) \in Seq(S)
         /\ ring[t] \in S
  <1> DEFINE n == Count(h, t)
             full == Slots(ring, h, t)
             rest == Slots(ring, h, Succ(t))
  <1>1. n \in 1 .. AWAKE_RING_SIZE - 1
    BY FlThreadsAssumption DEF Count, Indices
  <1>2. Count(h, Succ(t)) = n - 1
    BY FlThreadsAssumption DEF Count, Succ, Indices
  <1>3. full = [i \in 1 .. n |-> ring[(t + i - 1) % AWAKE_RING_SIZE]]
    BY DEF Slots
  <1>4. full[1] = ring[t]
    <2>1. (t + 1 - 1) % AWAKE_RING_SIZE = t
      BY ModLess, FlThreadsAssumption DEF Indices
    <2> QED
      BY <1>1, <1>3, <2>1
  <1>5. rest = [i \in 1 .. n - 1 |-> ring[(Succ(t) + i - 1) % AWAKE_RING_SIZE]]
    BY <1>2 DEF Slots
  <1>6. Len(full) = n /\ DOMAIN full = 1 .. n
    BY <1>1, <1>3
  <1> HIDE DEF n, full, rest
  <1>7. ASSUME NEW i \in 1 .. n - 1
        PROVE  rest[i] = full[i + 1]
    <2>1. (Succ(t) + i - 1) % AWAKE_RING_SIZE = (t + (i + 1) - 1) % AWAKE_RING_SIZE
      <3>1. i \in 1 .. AWAKE_RING_SIZE - 1
        BY <1>1, FlThreadsAssumption
      <3> QED
        BY <3>1, ModSucc, Zenon
    <2>2. i + 1 \in 1 .. n
      BY <1>1
    <2> QED
      BY <1>3, <1>5, <2>1, <2>2
  <1>8. \A i \in 1 .. n : full[i] \in S
    BY <1>6 DEF full
  <1>9. rest \in Seq(S) /\ Len(rest) = n - 1
    <2>1. \A i \in 1 .. n - 1 : rest[i] \in S
      BY <1>1, <1>7, <1>8
    <2>2. rest \in [1 .. n - 1 -> S]
      BY <1>5, <2>1
    <2> QED
      BY <2>2, <1>1
  <1>10. ring[t] \in S
    BY <1>1, <1>4, <1>8
  <1>11. full \in Seq(S)
    BY DEF full
  <1>12. full = <<ring[t]>> \o rest
    BY <1>1, <1>4, <1>6, <1>7, <1>9, <1>10, <1>11
  <1> QED
    BY <1>9, <1>10, <1>12 DEF full, rest
----------------------------------------------------------------------------
(* Each step keeps the invariant                                           *)

\* Steps that leave the ring alone keep what is said of its contents.
LEMMA RingUnchanged ==
  ASSUME PendingOK, CalledInOrder, UNCHANGED ringVars
  PROVE  PendingOK' /\ CalledInOrder'
  <1>1. Pending' = Pending
    BY DEF Pending, ringVars
  <1> QED
    BY <1>1 DEF PendingOK, CalledInOrder, ringVars

LEMMA IdIsPair == ASSUME NEW t \in Threads, NEW n \in 1 .. MaxCalls[t] PROVE <<t, n>> \in Ids
  BY DEF Ids

\* A thread's record at another place is a thread's record.
LEMMA GotoType ==
  ASSUME th \in [Threads -> Thread], NEW t \in Threads, NEW pc \in PCs, Goto(t, pc)
  PROVE  th' \in [Threads -> Thread]
  <1>1. [th[t] EXCEPT !.pc = pc] \in Thread
    BY DEF Thread
  <1> QED
    BY <1>1 DEF Goto

LEMMA InitOK == Init => IInv
  <1> SUFFICES ASSUME Init PROVE IInv
    OBVIOUS
  <1> USE FlThreadsAssumption
  <1>1. 0 \in Indices
    BY DEF Indices
  <1>2. Pending = <<>>
    BY <1>1, PendingIsSlots DEF Init, Slots, Count
  <1>3. TypeOK
    <2>1. th \in [Threads -> Thread]
      BY DEF Init, Thread, PCs
    <2>2. Main \in Threads
      BY DEF Threads
    <2>3. awake_ring_ \in [Indices -> Ids \cup {NoHandler}]
      BY DEF Init
    <2>4. pipe \in 0 .. PipeSize
      BY DEF Init
    <2>5. sent \in Seq(Ids) /\ ran \in Seq(Ids)
      BY DEF Init
    <2> QED
      BY <1>1, <2>1, <2>2, <2>3, <2>4, <2>5 DEF Init, TypeOK
  <1>4. \A t \in Threads : ThreadOK(t)
    BY DEF Init, ThreadOK, Threads, Outside
  <1>5. LockOK /\ RingLockOK
    <2>1. None \notin Threads /\ Main \in Threads
      BY DEF Threads
    <2>2. LockOK
      <3>1. \A t \in Threads : th[t].pc = "idle" /\ th[t].depth = IF t = Main THEN 1 ELSE 0
        BY DEF Init
      <3>2. fltk_mutex = Main /\ owner = Main /\ counter = 1
        BY DEF Init
      <3> QED
        BY <2>1, <3>1, <3>2 DEF LockOK
    <2>3. RingLockOK
      BY <2>1 DEF Init, RingLockOK
    <2> QED
      BY <2>2, <2>3
  <1>6. PendingOK /\ CalledInOrder
    BY <1>2 DEF Init, PendingOK, CalledInOrder
  <1> QED
    BY <1>3, <1>4, <1>5, <1>6 DEF IInv

LEMMA lock_counter_keeps == ASSUME IInv, NEW t \in Threads, lock_counter(t) PROVE IInv'
  <1> USE FlThreadsAssumption DEF IInv, lock_counter, At, Goto, lockVars, mutexVars, ringVars
  <1>1. TypeOK'
    <2>1. th' \in [Threads -> Thread]
      BY GotoType DEF TypeOK, PCs
    <2> QED
      BY <2>1 DEF TypeOK
  <1>2. \A u \in Threads : ThreadOK(u)'
    BY DEF TypeOK, Thread, ThreadOK, LockOK, Outside
  <1>3. LockOK'
    BY SMTT(30) DEF TypeOK, Thread, ThreadOK, LockOK, Threads
  <1>4. RingLockOK'
    BY DEF TypeOK, Thread, ThreadOK, RingLockOK
  <1>5. PendingOK' /\ CalledInOrder'
    BY RingUnchanged
  <1> QED
    BY <1>1, <1>2, <1>3, <1>4, <1>5

LEMMA lock_owner_keeps == ASSUME IInv, NEW t \in Threads, lock_owner(t) PROVE IInv'
  <1> USE FlThreadsAssumption DEF IInv, lock_owner, At, Goto, lockVars, mutexVars, ringVars
  <1>1. TypeOK'
    <2>1. th' \in [Threads -> Thread]
      BY GotoType DEF TypeOK, PCs
    <2> QED
      BY <2>1 DEF TypeOK
  <1>2. \A u \in Threads : ThreadOK(u)'
    BY SMTT(30) DEF TypeOK, Thread, ThreadOK, LockOK, Outside
  <1>3. LockOK'
    <2>1. th[t] \in Thread /\ \A u \in Threads : u # t => th'[u] = th[u]
      BY DEF TypeOK
    <2>2. th'[t].pc = IF owner # t THEN "mutex" ELSE "count"
      BY <2>1 DEF TypeOK, Thread
    <2>3. th'[t].depth = th[t].depth
      BY <2>1 DEF TypeOK, Thread
    <2>4. fltk_mutex = t <=> th[t].depth > 0
      BY DEF LockOK
    <2>5. owner = t => th[t].depth > 0
      BY DEF LockOK
    <2>6. owner # t => ~(th[t].depth > 0)
      BY DEF LockOK
    <2> QED
      BY <2>1, <2>2, <2>3, <2>4, <2>5, <2>6 DEF LockOK
  <1>4. RingLockOK'
    BY SMTT(30) DEF TypeOK, Thread, ThreadOK, RingLockOK
  <1>5. PendingOK' /\ CalledInOrder'
    BY RingUnchanged
  <1> QED
    BY <1>1, <1>2, <1>3, <1>4, <1>5

LEMMA lock_mutex_keeps == ASSUME IInv, NEW t \in Threads, lock_mutex(t) PROVE IInv'
  <1> USE FlThreadsAssumption DEF IInv, lock_mutex, At, Goto, lockVars, mutexVars, ringVars
  <1>1. TypeOK'
    <2>1. th' \in [Threads -> Thread]
      BY GotoType DEF TypeOK, PCs
    <2> QED
      BY <2>1 DEF TypeOK
  <1>2. \A u \in Threads : ThreadOK(u)'
    BY DEF TypeOK, Thread, ThreadOK, LockOK, Outside
  <1>3. LockOK'
    BY SMTT(30) DEF TypeOK, Thread, ThreadOK, LockOK, Threads
  <1>4. RingLockOK'
    BY DEF TypeOK, Thread, ThreadOK, RingLockOK
  <1>5. PendingOK' /\ CalledInOrder'
    BY RingUnchanged
  <1> QED
    BY <1>1, <1>2, <1>3, <1>4, <1>5

LEMMA lock_own_keeps == ASSUME IInv, NEW t \in Threads, lock_own(t) PROVE IInv'
  <1> USE FlThreadsAssumption DEF IInv, lock_own, At, Goto, lockVars, mutexVars, ringVars
  <1>1. TypeOK'
    <2>1. th' \in [Threads -> Thread]
      BY GotoType DEF TypeOK, PCs
    <2> QED
      BY <2>1 DEF TypeOK
  <1>2. \A u \in Threads : ThreadOK(u)'
    BY DEF TypeOK, Thread, ThreadOK, LockOK, Outside
  <1>3. LockOK'
    BY SMTT(30) DEF TypeOK, Thread, ThreadOK, LockOK, Threads
  <1>4. RingLockOK'
    BY SMTT(30) DEF TypeOK, Thread, ThreadOK, RingLockOK
  <1>5. PendingOK' /\ CalledInOrder'
    BY RingUnchanged
  <1> QED
    BY <1>1, <1>2, <1>3, <1>4, <1>5

LEMMA lock_count_keeps == ASSUME IInv, NEW t \in Threads, lock_count(t) PROVE IInv'
  <1> USE FlThreadsAssumption DEF IInv, lock_count, At, Goto, lockVars, mutexVars, ringVars
  <1>1. TypeOK'
    <2> DEFINE pc == IF th[t].woken THEN "read" ELSE "idle"
               r == [th[t] EXCEPT !.depth = @ + 1, !.pc = pc]
    <2>1. pc \in PCs /\ th[t] \in Thread
      BY DEF TypeOK, PCs
    <2>2. th[t].depth + 1 \in Nat
      BY <2>1, SMTT(30) DEF Thread, ThreadOK, LockOK, TypeOK
    <2> HIDE DEF pc
    <2>3. r \in Thread
      BY <2>1, <2>2 DEF Thread
    <2>4. th' \in [Threads -> Thread]
      BY <2>3 DEF TypeOK, pc
    <2> QED
      BY <2>2, <2>4 DEF TypeOK
  <1>2. \A u \in Threads : ThreadOK(u)'
    BY SMTT(30) DEF TypeOK, Thread, ThreadOK, LockOK, Outside
  <1>3. LockOK'
    BY DEF TypeOK, Thread, ThreadOK, LockOK, Threads
  <1>4. RingLockOK'
    <2>1. th[t] \in Thread /\ \A u \in Threads : u # t => th'[u] = th[u]
      BY DEF TypeOK
    <2>2. th'[t].pc \in {"read", "idle"}
      BY <2>1 DEF TypeOK, Thread
    <2>3. th[t].pc = "count" /\ ring_holder' = ring_holder /\ awake_ring_' = awake_ring_
          /\ awake_ring_head_' = awake_ring_head_ /\ awake_ring_tail_' = awake_ring_tail_
      OBVIOUS
    <2>4. ring_holder # t
      BY <2>3 DEF RingLockOK
    <2>5. th'[t].pc \notin {"body", "advance", "leave"}
      BY <2>2
    <2> HIDE DEF IInv, lock_count
    <2>6. RingLockOK
      BY DEF IInv
    <2> QED
      BY <2>1, <2>3, <2>4, <2>5, <2>6 DEF RingLockOK
  <1>5. PendingOK' /\ CalledInOrder'
    BY RingUnchanged
  <1> QED
    BY <1>1, <1>2, <1>3, <1>4, <1>5

LEMMA unlock_count_keeps == ASSUME IInv, NEW t \in Threads, unlock_count(t) PROVE IInv'
  <1> USE FlThreadsAssumption DEF IInv, unlock_count, At, Goto, lockVars, mutexVars, ringVars
  <1>1. TypeOK'
    <2> DEFINE pc == IF counter = 1 THEN "release" ELSE After(t)
               r == [th[t] EXCEPT !.depth = @ - 1, !.pc = pc]
    <2>1. pc \in PCs /\ th[t] \in Thread
      BY DEF TypeOK, PCs, After
    <2>2. th[t].depth - 1 \in Nat /\ counter - 1 \in Nat
      <3>1. th[t].depth > 0 /\ th[t].depth \in Nat
        BY <2>1 DEF Thread, ThreadOK
      <3>2. counter = th[t].depth
        BY <3>1 DEF LockOK
      <3> QED
        BY <3>1, <3>2
    <2> HIDE DEF pc
    <2>3. r \in Thread
      BY <2>1, <2>2 DEF Thread
    <2>4. th' \in [Threads -> Thread]
      BY <2>3 DEF TypeOK, pc, After
    <2> QED
      BY <2>2, <2>4 DEF TypeOK
  <1>2. \A u \in Threads : ThreadOK(u)'
    BY SMTT(30) DEF TypeOK, Thread, ThreadOK, LockOK, Outside, After
  <1>3. LockOK'
    BY DEF TypeOK, Thread, ThreadOK, LockOK, Threads, After
  <1>4. RingLockOK'
    BY SMTT(30) DEF TypeOK, Thread, ThreadOK, RingLockOK, After
  <1>5. PendingOK' /\ CalledInOrder'
    BY RingUnchanged
  <1> QED
    BY <1>1, <1>2, <1>3, <1>4, <1>5

LEMMA unlock_mutex_keeps == ASSUME IInv, NEW t \in Threads, unlock_mutex(t) PROVE IInv'
  <1> USE FlThreadsAssumption DEF IInv, unlock_mutex, At, Goto, lockVars, mutexVars, ringVars
  <1>1. TypeOK'
    <2>1. th' \in [Threads -> Thread]
      BY GotoType DEF TypeOK, PCs, After
    <2> QED
      BY <2>1 DEF TypeOK, After
  <1>2. \A u \in Threads : ThreadOK(u)'
    BY DEF TypeOK, Thread, ThreadOK, LockOK, Outside, After
  <1>3. LockOK'
    BY SMTT(30) DEF TypeOK, Thread, ThreadOK, LockOK, Threads, After
  <1>4. RingLockOK'
    BY DEF TypeOK, Thread, ThreadOK, RingLockOK, After
  <1>5. PendingOK' /\ CalledInOrder'
    BY RingUnchanged
  <1> QED
    BY <1>1, <1>2, <1>3, <1>4, <1>5
LEMMA lock_ring_keeps == ASSUME IInv, NEW t \in Threads, lock_ring(t) PROVE IInv'
  <1> USE FlThreadsAssumption DEF IInv, lock_ring, At, Goto, lockVars, mutexVars, ringVars
  <1>1. TypeOK'
    <2>1. th' \in [Threads -> Thread]
      BY GotoType DEF TypeOK, PCs
    <2> QED
      BY <2>1 DEF TypeOK
  <1>2. \A u \in Threads : ThreadOK(u)'
    BY DEF TypeOK, Thread, ThreadOK, Outside
  <1>3. LockOK'
    BY SMTT(30) DEF TypeOK, Thread, ThreadOK, LockOK
  <1>4. RingLockOK'
    BY DEF TypeOK, Thread, ThreadOK, RingLockOK
  <1>5. PendingOK' /\ CalledInOrder'
    BY RingUnchanged
  <1> QED
    BY <1>1, <1>2, <1>3, <1>4, <1>5

LEMMA lock_ring_malloc_keeps == ASSUME IInv, NEW t \in Threads, lock_ring_malloc(t) PROVE IInv'
  <1> USE FlThreadsAssumption DEF IInv, lock_ring_malloc, At, Goto, lockVars, mutexVars, ringVars
  <1>1. TypeOK'
    <2>1. th' \in [Threads -> Thread]
      BY GotoType DEF TypeOK, PCs
    <2> QED
      BY <2>1 DEF TypeOK
  <1>2. \A u \in Threads : ThreadOK(u)'
    BY DEF TypeOK, Thread, ThreadOK, Outside
  <1>3. LockOK'
    BY SMTT(30) DEF TypeOK, Thread, ThreadOK, LockOK
  <1>4. RingLockOK'
    BY DEF TypeOK, Thread, ThreadOK, RingLockOK
  <1>5. PendingOK' /\ CalledInOrder'
    BY RingUnchanged
  <1> QED
    BY <1>1, <1>2, <1>3, <1>4, <1>5

LEMMA lock_ring_init_keeps == ASSUME IInv, NEW t \in Threads, lock_ring_init(t) PROVE IInv'
  <1> USE FlThreadsAssumption DEF IInv, lock_ring_init, At, Goto, lockVars, mutexVars, ringVars
  <1>1. TypeOK'
    <2>1. th' \in [Threads -> Thread]
      BY GotoType DEF TypeOK, PCs
    <2> QED
      BY <2>1 DEF TypeOK
  <1>2. \A u \in Threads : ThreadOK(u)'
    BY DEF TypeOK, Thread, ThreadOK, Outside
  <1>3. LockOK'
    BY SMTT(30) DEF TypeOK, Thread, ThreadOK, LockOK
  <1>4. RingLockOK'
    BY DEF TypeOK, Thread, ThreadOK, RingLockOK
  <1>5. PendingOK' /\ CalledInOrder'
    BY RingUnchanged
  <1> QED
    BY <1>1, <1>2, <1>3, <1>4, <1>5

LEMMA lock_ring_enter_keeps == ASSUME IInv, NEW t \in Threads, lock_ring_enter(t) PROVE IInv'
  <1> USE FlThreadsAssumption DEF IInv, lock_ring_enter, At, Goto, lockVars, mutexVars, ringVars
  <1>1. TypeOK'
    <2>1. th' \in [Threads -> Thread]
      BY GotoType DEF TypeOK, PCs
    <2> QED
      BY <2>1 DEF TypeOK
  <1>2. \A u \in Threads : ThreadOK(u)'
    BY SMTT(30) DEF TypeOK, Thread, ThreadOK, Outside
  <1>3. LockOK'
    BY SMTT(30) DEF TypeOK, Thread, ThreadOK, LockOK
  <1>4. RingLockOK'
    BY DEF TypeOK, Thread, ThreadOK, RingLockOK
  <1>5. PendingOK' /\ CalledInOrder'
    BY RingUnchanged
  <1> QED
    BY <1>1, <1>2, <1>3, <1>4, <1>5

LEMMA unlock_ring_keeps == ASSUME IInv, NEW t \in Threads, unlock_ring(t) PROVE IInv'
  <1> USE FlThreadsAssumption DEF IInv, unlock_ring, At, Goto, lockVars, mutexVars, ringVars
  <1>1. TypeOK'
    <2>1. th' \in [Threads -> Thread]
      BY GotoType DEF TypeOK, PCs
    <2> QED
      BY <2>1 DEF TypeOK
  <1>2. \A u \in Threads : ThreadOK(u)'
    BY SMTT(30) DEF TypeOK, Thread, ThreadOK, Outside
  <1>3. LockOK'
    BY SMTT(30) DEF TypeOK, Thread, ThreadOK, LockOK
  <1>4. RingLockOK'
    BY DEF TypeOK, Thread, ThreadOK, RingLockOK
  <1>5. PendingOK' /\ CalledInOrder'
    BY RingUnchanged
  <1> QED
    BY <1>1, <1>2, <1>3, <1>4, <1>5

LEMMA awake_keeps == ASSUME IInv, NEW t \in Threads, awake(t) PROVE IInv'
  <1> USE FlThreadsAssumption DEF IInv, awake, At, Goto, lockVars, mutexVars, ringVars
  <1>1. TypeOK'
    <2>1. th' \in [Threads -> Thread]
      BY GotoType DEF TypeOK, PCs
    <2> QED
      BY <2>1 DEF TypeOK
  <1>2. \A u \in Threads : ThreadOK(u)'
    BY SMTT(30) DEF TypeOK, Thread, ThreadOK, Outside
  <1>3. LockOK'
    <2>1. th[t] \in Thread /\ \A u \in Threads : u # t => th'[u] = th[u]
      BY DEF TypeOK
    <2>2. th'[t].pc \in {"handler", "idle"} /\ th'[t].depth = th[t].depth
      BY <2>1 DEF TypeOK, Thread
    <2> QED
      BY <2>1, <2>2 DEF LockOK
  <1>4. RingLockOK'
    BY SMTT(30) DEF TypeOK, Thread, ThreadOK, RingLockOK
  <1>5. PendingOK' /\ CalledInOrder'
    BY RingUnchanged
  <1> QED
    BY <1>1, <1>2, <1>3, <1>4, <1>5

LEMMA CallUnlock_keeps == ASSUME IInv, NEW t \in Threads, CallUnlock(t) PROVE IInv'
  <1> USE FlThreadsAssumption DEF IInv, CallUnlock, At, Goto, lockVars, mutexVars, ringVars
  <1>1. TypeOK'
    <2>1. th' \in [Threads -> Thread]
      BY GotoType DEF TypeOK, PCs
    <2> QED
      BY <2>1 DEF TypeOK
  <1>2. \A u \in Threads : ThreadOK(u)'
    BY DEF TypeOK, Thread, ThreadOK, Outside
  <1>3. LockOK'
    BY DEF TypeOK, Thread, ThreadOK, LockOK
  <1>4. RingLockOK'
    BY DEF TypeOK, Thread, ThreadOK, RingLockOK
  <1>5. PendingOK' /\ CalledInOrder'
    BY RingUnchanged
  <1> QED
    BY <1>1, <1>2, <1>3, <1>4, <1>5

LEMMA CallLock_keeps == ASSUME IInv, NEW t \in Threads, CallLock(t) PROVE IInv'
  <1> USE FlThreadsAssumption DEF IInv, At, lockVars, mutexVars, ringVars
  <1>1. th[t] \in Thread
    BY DEF TypeOK
  <1>2. /\ th' = [th EXCEPT ![t] = [th[t] EXCEPT !.pc = "lock", !.n = @ + 1]]
        /\ t # Main /\ th[t].pc = "idle" /\ th[t].n < MaxCalls[t]
        /\ UNCHANGED <<lockVars, mutexVars, ringVars>>
    BY DEF CallLock
  <1>3. /\ \A u \in Threads : u # t => th'[u] = th[u]
        /\ th'[t].pc = "lock"
        /\ th'[t].op = th[t].op
        /\ th'[t].depth = th[t].depth
        /\ th'[t].n = th[t].n + 1
        /\ th'[t].woken = th[t].woken
        /\ th'[t].got = th[t].got
    BY <1>1, <1>2 DEF TypeOK, Thread
  <1>4. TypeOK'
    <2>1. [th[t] EXCEPT !.pc = "lock", !.n = @ + 1] \in Thread
      <3>1. th[t].n + 1 \in Nat /\ "lock" \in PCs
        BY <1>1 DEF Thread, PCs
      <3> QED
        BY <1>1, <3>1 DEF Thread
    <2>2. th' \in [Threads -> Thread]
      BY <1>2, <2>1 DEF TypeOK
    <2>3. pipe' \in 0 .. PipeSize
      BY DEF CallLock, TypeOK
    <2> QED
      BY <1>2, <2>2, <2>3 DEF TypeOK
  <1>5. \A u \in Threads : ThreadOK(u)'
    BY <1>1, <1>2, <1>3, SMTT(30) DEF TypeOK, Thread, ThreadOK, Outside
  <1>6. LockOK'
    BY <1>1, <1>2, <1>3 DEF ThreadOK, LockOK, Outside
  <1>7. RingLockOK'
    BY <1>1, <1>2, <1>3 DEF RingLockOK
  <1>8. PendingOK' /\ CalledInOrder'
    BY <1>2, RingUnchanged
  <1> QED
    BY <1>4, <1>5, <1>6, <1>7, <1>8

LEMMA fl_wait_keeps == ASSUME IInv, fl_wait PROVE IInv'
  <1> USE FlThreadsAssumption DEF IInv, At, lockVars, mutexVars, ringVars
  <1>m. Main \in Threads
    BY DEF Threads
  <1>1. th[Main] \in Thread
    BY <1>m DEF TypeOK
  <1>2. /\ th' = [th EXCEPT ![Main] = [th[Main] EXCEPT !.pc = "unlock", !.woken = FALSE]]
        /\ th[Main].pc = "idle"
        /\ UNCHANGED <<lockVars, mutexVars, ringVars>>
    BY DEF fl_wait
  <1>3. /\ \A u \in Threads : u # Main => th'[u] = th[u]
        /\ th'[Main].pc = "unlock"
        /\ th'[Main].op = th[Main].op
        /\ th'[Main].depth = th[Main].depth
        /\ th'[Main].n = th[Main].n
        /\ th'[Main].woken = FALSE
        /\ th'[Main].got = th[Main].got
    BY <1>m, <1>1, <1>2 DEF TypeOK, Thread
  <1>4. TypeOK'
    <2>1. [th[Main] EXCEPT !.pc = "unlock", !.woken = FALSE] \in Thread
      BY <1>m, <1>1 DEF Thread, PCs
    <2>2. th' \in [Threads -> Thread]
      BY <1>m, <1>2, <2>1 DEF TypeOK
    <2>3. pipe' \in 0 .. PipeSize
      BY DEF fl_wait, TypeOK
    <2> QED
      BY <1>2, <2>2, <2>3 DEF TypeOK
  <1>5. \A u \in Threads : ThreadOK(u)'
    <2>1. ThreadOK(Main)'
      <3>1. ThreadOK(Main)
        BY <1>m
      <3> QED
        BY <1>1, <1>2, <1>3, <3>1 DEF Thread, ThreadOK, Outside
    <2>2. ASSUME NEW u \in Threads, u # Main PROVE ThreadOK(u)'
      BY <1>3, <2>2 DEF ThreadOK
    <2> QED
      BY <2>1, <2>2
  <1>6. LockOK'
    BY <1>m, <1>1, <1>2, <1>3 DEF ThreadOK, LockOK, Outside
  <1>7. RingLockOK'
    BY <1>m, <1>1, <1>2, <1>3 DEF RingLockOK
  <1>8. PendingOK' /\ CalledInOrder'
    BY <1>2, RingUnchanged
  <1> QED
    BY <1>4, <1>5, <1>6, <1>7, <1>8

LEMMA select_keeps == ASSUME IInv, select PROVE IInv'
  <1> USE FlThreadsAssumption DEF IInv, At, lockVars, mutexVars, ringVars
  <1>m. Main \in Threads
    BY DEF Threads
  <1>1. th[Main] \in Thread
    BY <1>m DEF TypeOK
  <1>2. /\ th' = [th EXCEPT ![Main] = [th[Main] EXCEPT !.pc = "lock", !.woken = (pipe > 0)]]
        /\ th[Main].pc = "select"
        /\ UNCHANGED <<lockVars, mutexVars, ringVars>>
    BY DEF select
  <1>3. /\ \A u \in Threads : u # Main => th'[u] = th[u]
        /\ th'[Main].pc = "lock"
        /\ th'[Main].op = th[Main].op
        /\ th'[Main].depth = th[Main].depth
        /\ th'[Main].n = th[Main].n
        /\ th'[Main].woken = (pipe > 0)
        /\ th'[Main].got = th[Main].got
    BY <1>m, <1>1, <1>2 DEF TypeOK, Thread
  <1>4. TypeOK'
    <2>1. [th[Main] EXCEPT !.pc = "lock", !.woken = (pipe > 0)] \in Thread
      <3>1. (pipe > 0) \in BOOLEAN /\ "lock" \in PCs
        BY DEF PCs
      <3> QED
        BY <1>1, <3>1, Zenon DEF Thread
    <2>2. th' \in [Threads -> Thread]
      BY <1>m, <1>2, <2>1 DEF TypeOK
    <2>3. pipe' \in 0 .. PipeSize
      BY DEF select, TypeOK
    <2> QED
      BY <1>2, <2>2, <2>3 DEF TypeOK
  <1>5. \A u \in Threads : ThreadOK(u)'
    BY <1>m, <1>1, <1>2, <1>3 DEF TypeOK, Thread, ThreadOK, Outside
  <1>6. LockOK'
    BY <1>m, <1>1, <1>2, <1>3 DEF ThreadOK, LockOK, Outside
  <1>7. RingLockOK'
    BY <1>m, <1>1, <1>2, <1>3 DEF RingLockOK
  <1>8. PendingOK' /\ CalledInOrder'
    BY <1>2, RingUnchanged
  <1> QED
    BY <1>4, <1>5, <1>6, <1>7, <1>8

LEMMA read_keeps == ASSUME IInv, read PROVE IInv'
  <1> USE FlThreadsAssumption DEF IInv, At, lockVars, mutexVars, ringVars
  <1>m. Main \in Threads
    BY DEF Threads
  <1>1. th[Main] \in Thread
    BY <1>m DEF TypeOK
  <1>2. /\ th' = [th EXCEPT ![Main] = [th[Main] EXCEPT !.pc = "ring", !.op = "get"]]
        /\ th[Main].pc = "read"
        /\ UNCHANGED <<lockVars, mutexVars, ringVars>>
    BY DEF read
  <1>3. /\ \A u \in Threads : u # Main => th'[u] = th[u]
        /\ th'[Main].pc = "ring"
        /\ th'[Main].op = "get"
        /\ th'[Main].depth = th[Main].depth
        /\ th'[Main].n = th[Main].n
        /\ th'[Main].woken = th[Main].woken
        /\ th'[Main].got = th[Main].got
    BY <1>m, <1>1, <1>2 DEF TypeOK, Thread
  <1>4. TypeOK'
    <2>1. [th[Main] EXCEPT !.pc = "ring", !.op = "get"] \in Thread
      BY <1>m, <1>1 DEF Thread, PCs
    <2>2. th' \in [Threads -> Thread]
      BY <1>m, <1>2, <2>1 DEF TypeOK
    <2>3. pipe' \in 0 .. PipeSize
      BY DEF read, TypeOK
    <2> QED
      BY <1>2, <2>2, <2>3 DEF TypeOK
  <1>5. \A u \in Threads : ThreadOK(u)'
    <2>1. ASSUME NEW u \in Threads, u # Main PROVE ThreadOK(u)'
      BY <1>3, <2>1 DEF ThreadOK
    <2>2. ThreadOK(Main) /\ th[Main].n \in Nat
      BY <1>m, <1>1 DEF Thread
    <2>3. ThreadOK(Main)'
      BY <1>2, <1>3, <2>2 DEF ThreadOK, Outside
    <2> QED
      BY <2>1, <2>3
  <1>6. LockOK'
    BY <1>m, <1>1, <1>2, <1>3 DEF ThreadOK, LockOK, Outside
  <1>7. RingLockOK'
    BY <1>m, <1>1, <1>2, <1>3 DEF RingLockOK
  <1>8. PendingOK' /\ CalledInOrder'
    BY <1>2, RingUnchanged
  <1> QED
    BY <1>4, <1>5, <1>6, <1>7, <1>8

LEMMA handler_keeps == ASSUME IInv, handler PROVE IInv'
  <1> USE FlThreadsAssumption DEF IInv, At, lockVars, mutexVars, ringVars
  <1>m. Main \in Threads
    BY DEF Threads
  <1>1. th[Main] \in Thread
    BY <1>m DEF TypeOK
  <1>2. /\ th' = [th EXCEPT ![Main] = [th[Main] EXCEPT !.pc = "ring", !.op = "get", !.got = NoHandler]]
        /\ th[Main].pc = "handler"
        /\ UNCHANGED <<lockVars, mutexVars, ringVars>>
    BY DEF handler
  <1>3. /\ \A u \in Threads : u # Main => th'[u] = th[u]
        /\ th'[Main].pc = "ring"
        /\ th'[Main].op = "get"
        /\ th'[Main].depth = th[Main].depth
        /\ th'[Main].n = th[Main].n
        /\ th'[Main].woken = th[Main].woken
        /\ th'[Main].got = NoHandler
    BY <1>m, <1>1, <1>2 DEF TypeOK, Thread
  <1>4. TypeOK'
    <2>1. [th[Main] EXCEPT !.pc = "ring", !.op = "get", !.got = NoHandler] \in Thread
      BY <1>m, <1>1 DEF Thread, PCs
    <2>2. th' \in [Threads -> Thread]
      BY <1>m, <1>2, <2>1 DEF TypeOK
    <2>3. pipe' \in 0 .. PipeSize
      BY DEF handler, TypeOK
    <2> QED
      BY <1>2, <2>2, <2>3 DEF TypeOK
  <1>5. \A u \in Threads : ThreadOK(u)'
    <2>1. ASSUME NEW u \in Threads, u # Main PROVE ThreadOK(u)'
      BY <1>3, <2>1 DEF ThreadOK
    <2>2. ThreadOK(Main) /\ th[Main].n \in Nat
      BY <1>m, <1>1 DEF Thread
    <2>3. ThreadOK(Main)'
      BY <1>2, <1>3, <2>2 DEF ThreadOK, Outside
    <2> QED
      BY <2>1, <2>3
  <1>6. LockOK'
    BY <1>m, <1>1, <1>2, <1>3 DEF ThreadOK, LockOK, Outside
  <1>7. RingLockOK'
    BY <1>m, <1>1, <1>2, <1>3 DEF RingLockOK
  <1>8. PendingOK' /\ CalledInOrder'
    BY <1>2, RingUnchanged
  <1> QED
    BY <1>4, <1>5, <1>6, <1>7, <1>8

LEMMA CallAwake_keeps == ASSUME IInv, NEW t \in Threads, CallAwake(t) PROVE IInv'
  <1> USE FlThreadsAssumption DEF IInv, lockVars, mutexVars, ringVars
  <1>1. th[t] \in Thread
    BY DEF TypeOK
  <1>2. PICK pc \in {"ring", "write"} :
          th' = [th EXCEPT ![t] = [th[t] EXCEPT !.pc = pc, !.op = "add", !.n = @ + 1]]
    BY DEF CallAwake
  <1>3. /\ th[t].pc \in {"idle", "handler"} /\ th[t].n < MaxCalls[t]
        /\ UNCHANGED <<lockVars, mutexVars, ringVars, pipe>>
    BY DEF CallAwake
  <1>4. /\ \A u \in Threads : u # t => th'[u] = th[u]
        /\ th'[t].pc = pc
        /\ th'[t].op = "add"
        /\ th'[t].depth = th[t].depth
        /\ th'[t].n = th[t].n + 1
        /\ th'[t].woken = th[t].woken
        /\ th'[t].got = th[t].got
    BY <1>1, <1>2 DEF TypeOK, Thread
  <1>5. TypeOK'
    <2>1. th[t].n + 1 \in Nat /\ pc \in PCs
      BY <1>1 DEF Thread, PCs
    <2>2. [th[t] EXCEPT !.pc = pc, !.op = "add", !.n = @ + 1] \in Thread
      BY <1>1, <2>1 DEF Thread
    <2>3. th' \in [Threads -> Thread]
      BY <1>2, <2>2 DEF TypeOK
    <2> QED
      BY <1>3, <2>3 DEF TypeOK
  <1>6. \A u \in Threads : ThreadOK(u)'
    <2>1. ThreadOK(t)'
      <3>1. ThreadOK(t)
        OBVIOUS
      <3> QED
        BY <1>1, <1>3, <1>4, <3>1 DEF Thread, ThreadOK, Outside
    <2>2. ASSUME NEW u \in Threads, u # t PROVE ThreadOK(u)'
      BY <1>4, <2>2 DEF ThreadOK
    <2> QED
      BY <2>1, <2>2
  <1>7. LockOK'
    BY <1>1, <1>3, <1>4 DEF LockOK
  <1>8. RingLockOK'
    BY <1>1, <1>3, <1>4 DEF RingLockOK
  <1>9. PendingOK' /\ CalledInOrder'
    BY <1>3, RingUnchanged
  <1> QED
    BY <1>5, <1>6, <1>7, <1>8, <1>9

\* The slot at the head is nobody's.
LEMMA add_store_keeps == ASSUME IInv, NEW t \in Threads, add_store(t) PROVE IInv'
  <1> USE FlThreadsAssumption DEF IInv, At, lockVars, mutexVars
  <1>1. th[t] \in Thread /\ th[t].pc = "body" /\ th[t].op = "add"
    BY DEF TypeOK, add_store
  <1>2. PICK pc \in {"leave", "advance"} :
          /\ th' = [th EXCEPT ![t].pc = pc]
          /\ pc = "advance" => awake_ring_' = [awake_ring_ EXCEPT ![awake_ring_head_] = <<t, th[t].n>>]
          /\ pc = "leave" => awake_ring_' = awake_ring_
    BY DEF add_store, Goto
  <1>3. UNCHANGED <<lockVars, mutexVars, awake_ring_head_, awake_ring_tail_, sent, ran, overrun, pipe>>
    BY DEF add_store
  <1>4. /\ \A u \in Threads : u # t => th'[u] = th[u]
        /\ th'[t].pc = pc
        /\ th'[t].op = "add"
        /\ th'[t].depth = th[t].depth
        /\ th'[t].n = th[t].n
        /\ th'[t].woken = th[t].woken
        /\ th'[t].got = th[t].got
    BY <1>1, <1>2 DEF TypeOK, Thread
  <1>5. <<t, th[t].n>> \in Ids
    <2>1. th[t].n \in 1 .. MaxCalls[t]
      BY <1>1 DEF ThreadOK, Thread
    <2> QED
      BY <2>1, IdIsPair
  <1>6. TypeOK'
    <2>1. th' \in [Threads -> Thread]
      BY <1>2, GotoType DEF TypeOK, PCs, Goto
    <2>2. awake_ring_' \in [Indices -> Ids \cup {NoHandler}]
      BY <1>2, <1>5 DEF TypeOK
    <2> QED
      BY <1>3, <2>1, <2>2 DEF TypeOK
  <1>7. \A u \in Threads : ThreadOK(u)'
    <2>1. ThreadOK(t)'
      <3>1. ThreadOK(t)
        OBVIOUS
      <3> QED
        BY <1>1, <1>3, <1>4, <3>1 DEF Thread, ThreadOK, Outside
    <2>2. ASSUME NEW u \in Threads, u # t PROVE ThreadOK(u)'
      BY <1>4, <2>2 DEF ThreadOK
    <2> QED
      BY <2>1, <2>2
  <1>8. LockOK'
    BY <1>1, <1>3, <1>4 DEF LockOK
  <1>9. RingLockOK'
    <2>1. \A u \in Threads : u # t => th[u].pc # "advance"
      BY <1>1 DEF RingLockOK
    <2>2. pc = "advance" => awake_ring_'[awake_ring_head_] = <<t, th[t].n>>
      BY <1>2 DEF TypeOK
    <2> QED
      BY <1>1, <1>3, <1>4, <2>1, <2>2 DEF RingLockOK
  <1>10. Pending' = Pending
    <2>1. /\ Pending = Slots(awake_ring_, awake_ring_head_, awake_ring_tail_)
          /\ Count(awake_ring_head_, awake_ring_tail_) \in 0 .. AWAKE_RING_SIZE - 1
      BY PendingIsSlots DEF TypeOK
    <2>2. Pending' = Slots(awake_ring_', awake_ring_head_, awake_ring_tail_)
      <3>1. Pending' = LET n == (awake_ring_head_ - awake_ring_tail_) % AWAKE_RING_SIZE
                       IN  [i \in 1 .. n |-> awake_ring_'[(awake_ring_tail_ + i - 1) % AWAKE_RING_SIZE]]
        BY <1>3 DEF Pending
      <3> QED
        BY <3>1, CountIsMod DEF Slots, TypeOK
    <2>3. CASE pc = "leave"
      BY <1>2, <2>1, <2>2, <2>3
    <2>4. CASE pc = "advance"
      <3>1. Slots([awake_ring_ EXCEPT ![awake_ring_head_] = <<t, th[t].n>>],
                  awake_ring_head_, awake_ring_tail_)
              = Slots(awake_ring_, awake_ring_head_, awake_ring_tail_)
        <4>1. /\ awake_ring_ \in [Indices -> Ids \cup {NoHandler}]
              /\ awake_ring_head_ \in Indices /\ awake_ring_tail_ \in Indices
          BY DEF TypeOK
        <4> QED
          BY <4>1, SlotsStore, Zenon
      <3> QED
        BY <1>2, <2>1, <2>2, <2>4, <3>1, Zenon
    <2> QED
      BY <2>3, <2>4
  <1> QED
    BY <1>3, <1>6, <1>7, <1>8, <1>9, <1>10 DEF PendingOK, CalledInOrder

LEMMA add_advance_keeps == ASSUME IInv, NEW t \in Threads, add_advance(t) PROVE IInv'
  <1> USE FlThreadsAssumption DEF IInv, At, lockVars, mutexVars
  <1> DEFINE id == <<t, th[t].n>>
  <1>1. th[t] \in Thread /\ th[t].pc = "advance" /\ th[t].op = "add"
    BY DEF TypeOK, add_advance
  <1>2. /\ th' = [th EXCEPT ![t].pc = "leave"]
        /\ awake_ring_head_' = Succ(awake_ring_head_)
        /\ sent' = Append(sent, id)
        /\ overrun' = (overrun \/ Len(Pending) = AWAKE_RING_SIZE - 1)
        /\ UNCHANGED <<lockVars, mutexVars, awake_ring_, awake_ring_tail_, ran, pipe>>
    BY DEF add_advance, Goto
  <1>3. /\ \A u \in Threads : u # t => th'[u] = th[u]
        /\ th'[t].pc = "leave"
        /\ th'[t].op = "add"
        /\ th'[t].depth = th[t].depth
        /\ th'[t].n = th[t].n
        /\ th'[t].woken = th[t].woken
        /\ th'[t].got = th[t].got
    BY <1>1, <1>2 DEF TypeOK, Thread
  <1>4. id \in Ids /\ awake_ring_[awake_ring_head_] = id
    <2>1. th[t].n \in 1 .. MaxCalls[t]
      BY <1>1 DEF ThreadOK, Thread
    <2> QED
      BY <1>1, <2>1, IdIsPair DEF RingLockOK
  <1> HIDE DEF id
  <1>5. TypeOK'
    <2>1. th' \in [Threads -> Thread]
      BY <1>2, GotoType DEF TypeOK, PCs, Goto
    <2>2. awake_ring_head_' \in Indices /\ sent' \in Seq(Ids) /\ overrun' \in BOOLEAN
      BY <1>2, <1>4, SuccInRing DEF TypeOK
    <2> QED
      BY <1>2, <2>1, <2>2 DEF TypeOK
  <1>6. \A u \in Threads : ThreadOK(u)'
    <2>1. ThreadOK(t)'
      <3>1. ThreadOK(t)
        OBVIOUS
      <3> QED
        BY <1>1, <1>3, <3>1 DEF Thread, ThreadOK, Outside
    <2>2. ASSUME NEW u \in Threads, u # t PROVE ThreadOK(u)'
      BY <1>3, <2>2 DEF ThreadOK
    <2> QED
      BY <2>1, <2>2
  <1>7. LockOK'
    BY <1>1, <1>2, <1>3 DEF LockOK
  <1>8. RingLockOK'
    <2>1. \A u \in Threads : u # t => th[u].pc # "advance"
      BY <1>1 DEF RingLockOK
    <2> QED
      BY <1>1, <1>2, <1>3, <2>1 DEF RingLockOK
  <1>9. PendingOK' /\ CalledInOrder'
    <2> DEFINE n == Count(awake_ring_head_, awake_ring_tail_)
    <2>1. /\ Pending = Slots(awake_ring_, awake_ring_head_, awake_ring_tail_)
          /\ n \in 0 .. AWAKE_RING_SIZE - 1
      BY PendingIsSlots DEF TypeOK
    <2>2. Pending' = Slots(awake_ring_, Succ(awake_ring_head_), awake_ring_tail_)
      BY <1>2, <1>5, CountIsMod DEF Pending, Slots, TypeOK
    <2>3. Len(Pending) = n
      BY <2>1 DEF Slots
    <2>4. CASE n = AWAKE_RING_SIZE - 1
      <3>1. Pending' = <<>>
        BY <2>2, <2>4, SlotsOverrun DEF TypeOK
      <3>2. overrun'
        BY <1>2, <2>3, <2>4
      <3> QED
        BY <3>1, <3>2 DEF PendingOK, CalledInOrder
    <2>5. CASE n # AWAKE_RING_SIZE - 1
      <3>1. Pending' = Append(Pending, id)
        BY <1>4, <2>1, <2>2, <2>5, SlotsAppend DEF TypeOK, PendingOK
      <3>2. overrun' = overrun
        BY <1>2, <2>3, <2>5 DEF TypeOK
      <3>3. Pending \in Seq(Ids) /\ ran \in Seq(Ids) /\ ran' = ran
        BY <1>2 DEF PendingOK, TypeOK
      <3>4. CalledInOrder'
        <4>1. SUFFICES ASSUME ~overrun PROVE sent' = ran \o Pending'
          BY <3>2, <3>3 DEF CalledInOrder
        <4>2. sent = ran \o Pending /\ sent' = Append(sent, id)
          BY <1>2, <4>1 DEF CalledInOrder
        <4>3. sent' = (ran \o Pending) \o <<id>>
          <5>1. sent \in Seq(Ids)
            BY DEF TypeOK
          <5>2. Append(sent, id) = sent \o <<id>>
            BY <1>4, <5>1, AppendIsConcat
          <5> QED
            BY <4>2, <5>2, Zenon
        <4>4. Pending' = Pending \o <<id>>
          <5>1. Append(Pending, id) = Pending \o <<id>>
            BY <1>4, <3>3, AppendIsConcat
          <5> QED
            BY <3>1, <5>1, Zenon
        <4>5. (ran \o Pending) \o <<id>> = ran \o (Pending \o <<id>>)
          <5>1. <<id>> \in Seq(Ids)
            BY <1>4
          <5> QED
            BY <3>3, <5>1, ConcatAssociative
        <4> QED
          BY <4>3, <4>4, <4>5, Zenon
      <3>5. PendingOK'
        BY <1>4, <3>1, <3>3 DEF PendingOK
      <3> QED
        BY <3>4, <3>5
    <2> QED
      BY <2>4, <2>5
  <1> QED
    BY <1>5, <1>6, <1>7, <1>8, <1>9

LEMMA get_load_keeps == ASSUME IInv, NEW t \in Threads, get_load(t) PROVE IInv'
  <1> USE FlThreadsAssumption DEF IInv, At, lockVars, mutexVars, ringVars
  <1> DEFINE pc == IF awake_ring_head_ = awake_ring_tail_ THEN "leave" ELSE "advance"
             got == IF awake_ring_head_ = awake_ring_tail_ THEN NoHandler
                    ELSE awake_ring_[awake_ring_tail_]
  <1>1. th[t] \in Thread /\ th[t].pc = "body" /\ th[t].op = "get"
    BY DEF TypeOK, get_load
  <1>2. /\ th' = [th EXCEPT ![t] = [th[t] EXCEPT !.pc = pc, !.got = got]]
        /\ UNCHANGED <<lockVars, mutexVars, ringVars, pipe>>
    BY DEF get_load
  <1>3. pc \in {"leave", "advance"} /\ got \in Ids \cup {NoHandler}
    BY DEF TypeOK
  <1>4. pc = "advance" => awake_ring_head_ # awake_ring_tail_ /\ got = awake_ring_[awake_ring_tail_]
    OBVIOUS
  <1> HIDE DEF pc, got
  <1>5. /\ \A u \in Threads : u # t => th'[u] = th[u]
        /\ th'[t].pc = pc
        /\ th'[t].op = "get"
        /\ th'[t].depth = th[t].depth
        /\ th'[t].n = th[t].n
        /\ th'[t].woken = th[t].woken
        /\ th'[t].got = got
    BY <1>1, <1>2 DEF TypeOK, Thread
  <1>6. TypeOK'
    <2>1. [th[t] EXCEPT !.pc = pc, !.got = got] \in Thread
      BY <1>1, <1>3 DEF Thread, PCs
    <2>2. th' \in [Threads -> Thread]
      BY <1>2, <2>1 DEF TypeOK
    <2> QED
      BY <1>2, <2>2 DEF TypeOK
  <1>7. \A u \in Threads : ThreadOK(u)'
    <2>1. ThreadOK(t)'
      <3>1. ThreadOK(t)
        OBVIOUS
      <3> QED
        BY <1>1, <1>3, <1>5, <3>1 DEF Thread, ThreadOK, Outside
    <2>2. ASSUME NEW u \in Threads, u # t PROVE ThreadOK(u)'
      BY <1>5, <2>2 DEF ThreadOK
    <2> QED
      BY <2>1, <2>2
  <1>8. LockOK'
    BY <1>1, <1>2, <1>3, <1>5 DEF LockOK
  <1>9. RingLockOK'
    BY <1>1, <1>2, <1>3, <1>4, <1>5 DEF RingLockOK
  <1>10. PendingOK' /\ CalledInOrder'
    BY <1>2, RingUnchanged
  <1> QED
    BY <1>6, <1>7, <1>8, <1>9, <1>10

LEMMA get_advance_keeps == ASSUME IInv, NEW t \in Threads, get_advance(t) PROVE IInv'
  <1> USE FlThreadsAssumption DEF IInv, At, lockVars, mutexVars
  <1>1. th[t] \in Thread /\ th[t].pc = "advance" /\ th[t].op = "get"
    BY DEF TypeOK, get_advance
  <1>2. /\ th' = [th EXCEPT ![t].pc = "leave"]
        /\ awake_ring_tail_' = Succ(awake_ring_tail_)
        /\ ran' = Append(ran, th[t].got)
        /\ UNCHANGED <<lockVars, mutexVars, awake_ring_, awake_ring_head_, sent, overrun, pipe>>
    BY DEF get_advance, Goto
  <1>3. /\ \A u \in Threads : u # t => th'[u] = th[u]
        /\ th'[t].pc = "leave"
        /\ th'[t].op = "get"
        /\ th'[t].depth = th[t].depth
        /\ th'[t].n = th[t].n
        /\ th'[t].woken = th[t].woken
        /\ th'[t].got = th[t].got
    BY <1>1, <1>2 DEF TypeOK, Thread
  <1>4. awake_ring_head_ # awake_ring_tail_ /\ th[t].got = awake_ring_[awake_ring_tail_]
    BY <1>1 DEF RingLockOK
  <1> DEFINE rest == Slots(awake_ring_, awake_ring_head_, Succ(awake_ring_tail_))
  <1>5. Pending = <<th[t].got>> \o rest /\ rest \in Seq(Ids) /\ th[t].got \in Ids
    <2>1. Pending = Slots(awake_ring_, awake_ring_head_, awake_ring_tail_)
      BY PendingIsSlots DEF TypeOK
    <2>2. /\ Slots(awake_ring_, awake_ring_head_, awake_ring_tail_)
               = <<awake_ring_[awake_ring_tail_]>> \o rest
          /\ rest \in Seq(Ids) /\ awake_ring_[awake_ring_tail_] \in Ids
      BY <1>4, <2>1, SlotsTail DEF TypeOK, PendingOK
    <2> QED
      BY <1>4, <2>1, <2>2, Zenon
  <1>6. awake_ring_tail_' \in Indices
    BY <1>2, SuccInRing DEF TypeOK
  <1>7. Pending' = rest
    BY <1>2, <1>6, CountIsMod DEF Pending, Slots, TypeOK
  <1> HIDE DEF rest
  <1>8. TypeOK'
    <2>1. th' \in [Threads -> Thread]
      BY <1>2, GotoType DEF TypeOK, PCs, Goto
    <2>2. ran' \in Seq(Ids)
      BY <1>2, <1>5 DEF TypeOK
    <2> QED
      BY <1>2, <1>6, <2>1, <2>2 DEF TypeOK
  <1>9. \A u \in Threads : ThreadOK(u)'
    <2>1. ThreadOK(t)'
      <3>1. ThreadOK(t)
        OBVIOUS
      <3> QED
        BY <1>1, <1>3, <3>1 DEF Thread, ThreadOK, Outside
    <2>2. ASSUME NEW u \in Threads, u # t PROVE ThreadOK(u)'
      BY <1>3, <2>2 DEF ThreadOK
    <2> QED
      BY <2>1, <2>2
  <1>10. LockOK'
    BY <1>1, <1>2, <1>3 DEF LockOK
  <1>11. RingLockOK'
    <2>1. \A u \in Threads : u # t => th[u].pc # "advance"
      BY <1>1 DEF RingLockOK
    <2> QED
      BY <1>1, <1>2, <1>3, <2>1 DEF RingLockOK
  <1>12. CalledInOrder'
    <2>1. ran \in Seq(Ids) /\ sent' = sent /\ overrun' = overrun
      BY <1>2 DEF TypeOK
    <2>2. ran \o (<<th[t].got>> \o rest) = Append(ran, th[t].got) \o rest
      BY <1>5, <2>1, ConcatOfAppend
    <2>3. ran' = Append(ran, th[t].got) /\ Pending' = rest /\ Pending = <<th[t].got>> \o rest
      BY <1>2, <1>5, <1>7
    <2>4. ran \o Pending = ran' \o Pending'
      BY <2>2, <2>3, Zenon
    <2> QED
      BY <2>1, <2>4 DEF CalledInOrder
  <1> QED
    BY <1>5, <1>7, <1>8, <1>9, <1>10, <1>11, <1>12 DEF PendingOK

----------------------------------------------------------------------------
(* The theorems                                                            *)

LEMMA NextKeeps == IInv /\ [Next]_vars => IInv'
  <1> SUFFICES ASSUME IInv, [Next]_vars PROVE IInv'
    OBVIOUS
  <1>1. CASE UNCHANGED vars
    <2>1. Pending' = Pending
      BY <1>1 DEF Pending, vars, ringVars
    <2> QED
      BY <1>1, <2>1 DEF vars, lockVars, mutexVars, ringVars, IInv, TypeOK, ThreadOK, LockOK,
                        RingLockOK, PendingOK, CalledInOrder
  <1>2. ASSUME NEW t \in Threads, Step(t) PROVE IInv'
    BY <1>2, lock_counter_keeps, lock_owner_keeps, lock_mutex_keeps, lock_own_keeps,
       lock_count_keeps, unlock_count_keeps, unlock_mutex_keeps, lock_ring_keeps,
       lock_ring_malloc_keeps, lock_ring_init_keeps, lock_ring_enter_keeps,
       add_store_keeps, add_advance_keeps, get_load_keeps, get_advance_keeps,
       unlock_ring_keeps, awake_keeps, Zenon DEF Step
  <1>3. ASSUME NEW t \in Threads, CallAwake(t) \/ CallLock(t) \/ CallUnlock(t) PROVE IInv'
    BY <1>3, CallAwake_keeps, CallLock_keeps, CallUnlock_keeps, Zenon
  <1>4. CASE MainStep
    BY <1>4, fl_wait_keeps, select_keeps, read_keeps, handler_keeps, Zenon DEF MainStep
  <1> QED
    BY <1>1, <1>2, <1>3, <1>4, Zenon DEF Next

LEMMA Invariance == Spec => []IInv
  <1> QED
    BY InitOK, NextKeeps, PTL DEF Spec

\* Fl::lock and Fl::unlock: a thread that has got the lock has it alone, and the
\* counter is the depth to which it has it, for any number of threads that take the
\* lock recursively while its owner and its counter are read without the mutex.
THEOREM LockIsExclusive == Spec => []OneHolder
  <1>1. IInv => OneHolder
    BY FlThreadsAssumption DEF IInv, LockOK, OneHolder, TypeOK, Thread
  <1> QED
    BY <1>1, Invariance, PTL

\* Fl::awake: handlers are called once each and in the order in which they were
\* registered, for a ring of any size, until one is registered that the test for a
\* full ring lets into a full ring.
THEOREM HandlersInOrder == Spec => []CalledInOrder
  <1>1. IInv => CalledInOrder
    BY DEF IInv
  <1> QED
    BY <1>1, Invariance, PTL
============================================================================
