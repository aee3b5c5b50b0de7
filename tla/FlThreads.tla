------------------------------ MODULE FlThreads ------------------------------
(***************************************************************************)
(* FLTK's support for threads (Fl_lock.cxx, with the waiting of fl_wait in *)
(* Fl_x.cxx): the recursive lock that is free only while the main thread   *)
(* waits for events, and Fl::awake, with which a thread has a handler      *)
(* called by the main thread.                                              *)
(*                                                                         *)
(* A step is one access to what threads share.  The lock is the one made   *)
(* of a plain mutex, an owner and a counter, which are read without the    *)
(* mutex: glibc does not define PTHREAD_MUTEX_RECURSIVE as a macro.        *)
(***************************************************************************)
EXTENDS Integers, Sequences

CONSTANTS
  Main, Children,       \* the threads
  AWAKE_RING_SIZE,
  PipeSize,             \* messages that the pipe holds
  MaxCalls              \* bound: calls of Fl::lock and Fl::awake of each thread

None == "none"
Threads == Children \cup {Main}

ASSUME FlThreadsAssumption == /\ Main \notin Children /\ None \notin Threads
                              /\ AWAKE_RING_SIZE \in Nat \ {0, 1}
                              /\ PipeSize \in Nat \ {0}
                              /\ MaxCalls \in [Threads -> Nat]

VARIABLES
  fltk_mutex, owner, counter,   \* the lock: who holds the mutex
  ring_mutex,                   \* "null" until it is made
  ring_holder,
  awake_ring_, awake_ring_head_, awake_ring_tail_,
  pipe,                         \* messages in the pipe
  th,                           \* per thread: what it does
  sent, ran,                    \* handlers registered, and called, in order
  overrun,                      \* one was registered that the ring had no room for
  raced                         \* two threads met making ring_mutex

lockVars == <<fltk_mutex, owner, counter>>
mutexVars == <<ring_mutex, ring_holder, raced>>
ringVars == <<awake_ring_, awake_ring_head_, awake_ring_tail_, sent, ran, overrun>>
vars == <<lockVars, mutexVars, ringVars, pipe, th>>

Indices == 0 .. AWAKE_RING_SIZE - 1
\* A handler: the call that registered it.
Ids == UNION {{t} \X (1 .. MaxCalls[t]) : t \in Threads}
NoHandler == <<None, 0>>

PCs == {"idle",                                             \* its own business
        "lock", "check", "mutex", "own", "count",           \* lock_function_std
        "unlock", "release",                                \* unlock_function_std
        "ring", "create", "init", "enter", "body", "advance", "leave",
        "write",                                            \* Fl::awake(void*)
        "select", "read", "handler"}                        \* the main thread

\* op: what it uses the ring for; depth: how often it holds the lock; n: calls
\* so far; woken: select(2) found the pipe readable; got: the handler to call.
Thread == [pc : PCs, op : {"add", "get"}, depth : Nat, n : Nat,
           woken : BOOLEAN, got : Ids \cup {NoHandler}]

\* Main has called Fl::lock before it started the others.
Init ==
  /\ fltk_mutex = Main /\ owner = Main /\ counter = 1
  /\ ring_mutex = "null" /\ ring_holder = None /\ raced = FALSE
  /\ awake_ring_ = [i \in Indices |-> NoHandler]
  /\ awake_ring_head_ = 0 /\ awake_ring_tail_ = 0
  /\ sent = <<>> /\ ran = <<>> /\ overrun = FALSE
  /\ pipe = 0
  /\ th = [t \in Threads |-> [pc |-> "idle", op |-> "add", n |-> 0, got |-> NoHandler,
                              depth |-> IF t = Main THEN 1 ELSE 0, woken |-> FALSE]]

At(t, pc) == th[t].pc = pc
Goto(t, pc) == th' = [th EXCEPT ![t].pc = pc]

----------------------------------------------------------------------------
(* Fl::lock and Fl::unlock                                                 *)

\* Trusts the owner alone, for the mutation tests.
lock_counter_ignored(t) ==
  /\ At(t, "lock")
  /\ Goto(t, "check")
  /\ UNCHANGED <<lockVars, mutexVars, ringVars, pipe>>

\* if (!counter || ...
lock_counter(t) ==
  /\ At(t, "lock")
  /\ Goto(t, IF counter = 0 THEN "mutex" ELSE "check")
  /\ UNCHANGED <<lockVars, mutexVars, ringVars, pipe>>

\* ... || owner != pthread_self())
lock_owner(t) ==
  /\ At(t, "check")
  /\ Goto(t, IF owner # t THEN "mutex" ELSE "count")
  /\ UNCHANGED <<lockVars, mutexVars, ringVars, pipe>>

lock_mutex(t) ==
  /\ At(t, "mutex") /\ fltk_mutex = None
  /\ fltk_mutex' = t
  /\ Goto(t, "own")
  /\ UNCHANGED <<owner, counter, mutexVars, ringVars, pipe>>

lock_own(t) ==
  /\ At(t, "own")
  /\ owner' = t
  /\ Goto(t, "count")
  /\ UNCHANGED <<fltk_mutex, counter, mutexVars, ringVars, pipe>>

\* The main thread goes on in fl_wait.
lock_count(t) ==
  /\ At(t, "count")
  /\ counter' = counter + 1
  /\ th' = [th EXCEPT ![t].depth = @ + 1,
                      ![t].pc = IF th[t].woken THEN "read" ELSE "idle"]
  /\ UNCHANGED <<fltk_mutex, owner, mutexVars, ringVars, pipe>>

After(t) == IF t = Main THEN "select" ELSE "idle"

unlock_count(t) ==
  /\ At(t, "unlock")
  /\ counter' = counter - 1
  /\ th' = [th EXCEPT ![t].depth = @ - 1,
                      ![t].pc = IF counter = 1 THEN "release" ELSE After(t)]
  /\ UNCHANGED <<fltk_mutex, owner, mutexVars, ringVars, pipe>>

unlock_mutex(t) ==
  /\ At(t, "release")
  /\ fltk_mutex' = None
  /\ Goto(t, After(t))
  /\ UNCHANGED <<owner, counter, mutexVars, ringVars, pipe>>

----------------------------------------------------------------------------
(* The ring: lock_ring, add_awake_handler_, get_awake_handler_, unlock_ring *)

\* A mutex that another thread is still making is no mutex yet.
lock_ring(t) ==
  /\ At(t, "ring")
  /\ Goto(t, IF ring_mutex = "null" THEN "create" ELSE "enter")
  /\ raced' = (ring_mutex = "made")
  /\ UNCHANGED <<lockVars, ring_mutex, ring_holder, ringVars, pipe>>

lock_ring_malloc(t) ==
  /\ At(t, "create")
  /\ ring_mutex' = "made"
  /\ raced' = (ring_mutex # "null")
  /\ Goto(t, "init")
  /\ UNCHANGED <<lockVars, ring_holder, ringVars, pipe>>

lock_ring_init(t) ==
  /\ At(t, "init")
  /\ ring_mutex' = "ready"
  /\ Goto(t, "enter")
  /\ UNCHANGED <<lockVars, ring_holder, raced, ringVars, pipe>>

\* Nobody waits for the mutex, for the mutation tests.
lock_ring_enter_always(t) ==
  /\ At(t, "enter")
  /\ ring_holder' = t
  /\ Goto(t, "body")
  /\ UNCHANGED <<lockVars, ring_mutex, raced, ringVars, pipe>>

lock_ring_enter(t) ==
  /\ At(t, "enter") /\ ring_holder = None
  /\ ring_holder' = t
  /\ Goto(t, "body")
  /\ UNCHANGED <<lockVars, ring_mutex, raced, ringVars, pipe>>

Succ(i) == IF i + 1 = AWAKE_RING_SIZE THEN 0 ELSE i + 1
Pending == LET n == (awake_ring_head_ - awake_ring_tail_) % AWAKE_RING_SIZE
           IN  [i \in 1 .. n |-> awake_ring_[(awake_ring_tail_ + i - 1) % AWAKE_RING_SIZE]]

\* The test for a full ring: it does not see one that is full from slot 0 on.
Full == \/ awake_ring_head_ = awake_ring_tail_ - 1
        \/ awake_ring_head_ + 1 = awake_ring_tail_

add_store(t) ==
  /\ At(t, "body") /\ th[t].op = "add"
  /\ IF Full THEN Goto(t, "leave") /\ UNCHANGED awake_ring_
     ELSE /\ awake_ring_' = [awake_ring_ EXCEPT ![awake_ring_head_] = <<t, th[t].n>>]
          /\ Goto(t, "advance")
  /\ UNCHANGED <<lockVars, mutexVars, awake_ring_head_, awake_ring_tail_, sent, ran,
                 overrun, pipe>>

add_advance(t) ==
  /\ At(t, "advance") /\ th[t].op = "add"
  /\ awake_ring_head_' = Succ(awake_ring_head_)
  /\ sent' = Append(sent, <<t, th[t].n>>)
  /\ overrun' = (overrun \/ Len(Pending) = AWAKE_RING_SIZE - 1)
  /\ Goto(t, "leave")
  /\ UNCHANGED <<lockVars, mutexVars, awake_ring_, awake_ring_tail_, ran, pipe>>

get_load(t) ==
  /\ At(t, "body") /\ th[t].op = "get"
  /\ th' = [th EXCEPT
       ![t].pc = IF awake_ring_head_ = awake_ring_tail_ THEN "leave" ELSE "advance",
       ![t].got = IF awake_ring_head_ = awake_ring_tail_ THEN NoHandler
                  ELSE awake_ring_[awake_ring_tail_]]
  /\ UNCHANGED <<lockVars, mutexVars, ringVars, pipe>>

get_advance(t) ==
  /\ At(t, "advance") /\ th[t].op = "get"
  /\ awake_ring_tail_' = Succ(awake_ring_tail_)
  /\ ran' = Append(ran, th[t].got)
  /\ Goto(t, "leave")
  /\ UNCHANGED <<lockVars, mutexVars, awake_ring_, awake_ring_head_, sent, overrun, pipe>>

\* Fl::awake writes whether its handler was taken or not; thread_awake_cb calls
\* the handler it got, or is done.
unlock_ring(t) ==
  /\ At(t, "leave")
  /\ ring_holder' = None
  /\ Goto(t, CASE th[t].op = "add" -> "write"
               [] th[t].op = "get" /\ th[t].got # NoHandler -> "handler"
               [] OTHER -> "idle")
  /\ UNCHANGED <<lockVars, ring_mutex, raced, ringVars, pipe>>

----------------------------------------------------------------------------
(* Fl::awake, thread_awake_cb and fl_wait                                  *)

\* The write waits for room in the pipe, for the mutation tests.
awake_waits(t) ==
  /\ At(t, "write") /\ pipe < PipeSize
  /\ pipe' = pipe + 1
  /\ Goto(t, IF th[t].got # NoHandler THEN "handler" ELSE "idle")
  /\ UNCHANGED <<lockVars, mutexVars, ringVars>>

\* The pipe is non-blocking for writers, "to avoid deadlock conditions".
awake(t) ==
  /\ At(t, "write")
  /\ pipe' = IF pipe < PipeSize THEN pipe + 1 ELSE pipe
  /\ Goto(t, IF th[t].got # NoHandler THEN "handler" ELSE "idle")
  /\ UNCHANGED <<lockVars, mutexVars, ringVars>>

\* The program calls Fl::awake(cb) or Fl::awake(msg), the main thread from a
\* handler or between events.
CallAwake(t) ==
  /\ th[t].pc \in {"idle", "handler"} /\ th[t].n < MaxCalls[t]
  /\ \E pc \in {"ring", "write"} :
       th' = [th EXCEPT ![t].pc = pc, ![t].op = "add", ![t].n = @ + 1]
  /\ UNCHANGED <<lockVars, mutexVars, ringVars, pipe>>

CallLock(t) ==
  /\ t # Main /\ At(t, "idle") /\ th[t].n < MaxCalls[t]
  /\ th' = [th EXCEPT ![t].pc = "lock", ![t].n = @ + 1]
  /\ UNCHANGED <<lockVars, mutexVars, ringVars, pipe>>

CallUnlock(t) ==
  /\ t # Main /\ At(t, "idle") /\ th[t].depth > 0
  /\ Goto(t, "unlock")
  /\ UNCHANGED <<lockVars, mutexVars, ringVars, pipe>>

\* fl_wait, after timeouts, checks and drawing: gives up the lock ...
fl_wait == /\ At(Main, "idle")
           /\ th' = [th EXCEPT ![Main].pc = "unlock", ![Main].woken = FALSE]
           /\ UNCHANGED <<lockVars, mutexVars, ringVars, pipe>>

\* ... waits for the pipe, or for something else ...
select == /\ At(Main, "select")
          /\ th' = [th EXCEPT ![Main].pc = "lock", ![Main].woken = (pipe > 0)]
          /\ UNCHANGED <<lockVars, mutexVars, ringVars, pipe>>

\* ... and calls thread_awake_cb, which reads one message.
read == /\ At(Main, "read") /\ pipe > 0
        /\ pipe' = pipe - 1
        /\ th' = [th EXCEPT ![Main].pc = "ring", ![Main].op = "get"]
        /\ UNCHANGED <<lockVars, mutexVars, ringVars>>

\* One handler per message, for the mutation tests.
handler_last == /\ At(Main, "handler")
                /\ th' = [th EXCEPT ![Main].pc = "idle", ![Main].got = NoHandler]
                /\ UNCHANGED <<lockVars, mutexVars, ringVars, pipe>>

\* The handler returns, and the next one is looked for.
handler == /\ At(Main, "handler")
           /\ th' = [th EXCEPT ![Main].pc = "ring", ![Main].op = "get",
                               ![Main].got = NoHandler]
           /\ UNCHANGED <<lockVars, mutexVars, ringVars, pipe>>

----------------------------------------------------------------------------

\* The steps inside a call.
Step(t) ==
  \/ lock_counter(t) \/ lock_owner(t) \/ lock_mutex(t) \/ lock_own(t) \/ lock_count(t)
  \/ unlock_count(t) \/ unlock_mutex(t)
  \/ lock_ring(t) \/ lock_ring_malloc(t) \/ lock_ring_init(t) \/ lock_ring_enter(t)
  \/ add_store(t) \/ add_advance(t) \/ get_load(t) \/ get_advance(t) \/ unlock_ring(t)
  \/ awake(t)

MainStep == fl_wait \/ select \/ read \/ handler

\* What follows a race for ring_mutex is undefined, and not followed.
Next == /\ ~raced
        /\ \/ \E t \in Threads : Step(t) \/ CallAwake(t) \/ CallLock(t) \/ CallUnlock(t)
           \/ MainStep

Spec == Init /\ [][Next]_vars

\* Threads run, and what was locked is unlocked.  A thread that waits for the
\* lock gets it some time if it is free again and again: the main thread lets go
\* of it to wait.
Runs(t) == ~raced /\ (Step(t) \/ CallUnlock(t) \/ (t = Main /\ MainStep))

Fairness == /\ \A t \in Threads : WF_vars(Runs(t))
            /\ \A t \in Children : SF_vars(~raced /\ lock_mutex(t))

FairSpec == Spec /\ Fairness

----------------------------------------------------------------------------
(* Properties                                                              *)

\* Every variable has its type; the ring's indices stay inside.
TypeOK ==
  /\ fltk_mutex \in Threads \cup {None} /\ owner \in Threads /\ counter \in Nat
  /\ ring_mutex \in {"null", "made", "ready"} /\ ring_holder \in Threads \cup {None}
  /\ awake_ring_ \in [Indices -> Ids \cup {NoHandler}]
  /\ awake_ring_head_ \in Indices /\ awake_ring_tail_ \in Indices
  /\ pipe \in 0 .. PipeSize
  /\ th \in [Threads -> Thread]
  /\ sent \in Seq(Ids) /\ ran \in Seq(Ids)
  /\ overrun \in BOOLEAN /\ raced \in BOOLEAN

\* "The lock is locked all the time except when Fl::wait() is waiting": a thread
\* that has got the lock has it alone, though the owner and the counter are read
\* without the mutex and the owner of a free lock is stale; and the count is its
\* depth.
OneHolder ==
  /\ TypeOK
  /\ \A t \in Threads : th[t].depth > 0 => /\ fltk_mutex = t
                                           /\ counter = th[t].depth
                                           /\ \A u \in Threads \ {t} : th[u].depth = 0

\* Fl::awake(cb): handlers are called once each, in the order in which they were
\* registered, and none is lost while the ring has room for them.
CalledInOrder == ~overrun => sent = ran \o Pending

\* Registered handlers are called, though messages are dropped when the pipe is
\* full and the main thread reads one message at a time: while the threads go on
\* registering a bounded number of them, the ring runs empty.
HandlersCalled == Pending # <<>> ~> (Pending = <<>> \/ overrun \/ raced)

\* Every call returns: threads that hold the lock and call Fl::awake do not wait
\* for a main thread that waits for the lock.
CallsReturn == \A t \in Children : ~At(t, "idle") ~> (At(t, "idle") \/ raced)
============================================================================
