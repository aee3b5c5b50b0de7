----------------------------- MODULE HttpProofs -----------------------------
(***************************************************************************)
(* Proofs about Http, for any number of requests, URLs, hosts and          *)
(* descriptors, any limit of connections, and everything that the          *)
(* surroundings may do.                                                    *)
(*                                                                         *)
(* A call that ends a request runs other code half-way: the query branch   *)
(* is gone, the answer branch is not, and the queue is served in between.  *)
(* So the invariant is stated of a state x and of a request d that is on   *)
(* its way out (None between the callbacks of the main loop): everybody    *)
(* but d is Regular.                                                       *)
(***************************************************************************)
EXTENDS Http, FiniteSetTheorems, WellFoundedInduction, NaturalsInduction, TLAPS

\* The sockets that http.c will still hear of.
Live == {"resolving", "queued", "connected", "dropped"}

\* The IO of a request works on a descriptor exactly while it is connected.
IOsFit(x, r) ==
  /\ x.sock[r] = "connected" => /\ x.rio[r].st = "submitted" /\ x.rio[r].fd \in FDs
                                /\ x.wio[r].fd = x.rio[r].fd
  /\ x.sock[r] \in Live \ {"connected"} => /\ x.rio[r].st = "new"
                                           /\ x.rio[r].fd = -1 /\ x.wio[r].fd = -1

\* A request has both branches, its conn and its socket, or none of them.
Regular(x, r) ==
  /\ r \in x.send <=> r \in x.recv
  /\ r \in x.recv <=> x.sock[r] \in Live
  /\ x.Ref[r] = IF r \in x.recv THEN 2 ELSE 0
  /\ IOsFit(x, r)
  /\ x.sock[r] \notin Live => x.rio[r].st # "submitted"
  /\ r \notin x.started => x.sock[r] = "none"

\* The queues hold exactly the sockets that wait, each once and in its host's.
QueuesOK(x) ==
  /\ \A h \in Hosts : \A i \in 1 .. Len(x.queue[h]) :
       /\ HostOf[x.queue[h][i]] = h
       /\ x.sock[x.queue[h][i]] \in {"queued", "doomed"}
       /\ \A j \in 1 .. Len(x.queue[h]) : x.queue[h][i] = x.queue[h][j] => i = j
  /\ \A r \in Reqs : x.sock[r] \in {"queued", "doomed"} =>
       \E i \in 1 .. Len(x.queue[HostOf[r]]) : x.queue[HostOf[r]][i] = r

Conns(x, h) == {r \in Reqs : HostOf[r] = h /\ x.sock[r] = "connected"}

Counted(x) == \A h \in Hosts : /\ IsFiniteSet(Conns(x, h))
                               /\ x.active_connections[h] = Cardinality(Conns(x, h))
                               /\ x.active_connections[h] <= http_max_conns

\* What is open or watched is an IO's descriptor; until something is aborted or
\* fails, an IO's descriptor is open and watched for it.
FilesOK(x) ==
  /\ \A r \in Reqs : x.rio[r].st = "submitted" => x.rio[r].fd \in FDs
  /\ \A fd \in FDs : /\ x.open[fd] # None => x.rio[x.open[fd]] = Submitted(fd)
                     /\ x.rwatch[fd] # None => x.rio[x.rwatch[fd]] = Submitted(fd)
  /\ x.aborted = {} => \A r \in Reqs : x.rio[r].st = "submitted" =>
       /\ x.open[x.rio[r].fd] = r
       /\ x.failed = {} => x.rwatch[x.rio[r].fd] = r

\* A URL has one conn at most.
OneConn(x) == \A q, r \in Reqs :
  x.Ref[q] > 0 /\ x.Ref[r] > 0 /\ UrlOf[q] = UrlOf[r] => q = r

\* A client waits for an entry that is not done, and such an entry has a conn.
BooksOK(x) == /\ x.done \subseteq x.entry
              /\ \A c \in x.clients : UrlOf[c] \in x.entry \ x.done

EntriesOK(x, d) ==
  /\ BooksOK(x)
  /\ \A u \in x.entry \ x.done :
       \/ d \in Reqs /\ u = UrlOf[d]
       \/ \E r \in x.recv : UrlOf[r] = u

Sound(x, d) ==
  /\ x \in StateType
  /\ \A r \in Reqs \ {d} : Regular(x, r)
  /\ QueuesOK(x) /\ Counted(x) /\ FilesOK(x) /\ OneConn(x) /\ EntriesOK(x, d)

\* No slot of the host is free while somebody waits for one.
Full(x, h) == x.queue[h] # <<>> => x.active_connections[h] = http_max_conns

AllFull(x) == \A h \in Hosts : Full(x, h)

\* The resolver owes an answer to everybody who waits for it.
Awaited(x, d) == \A r \in Reqs \ {d} : x.sock[r] = "resolving" => r \in x.asked

\* The inductive invariant.
IInv == Sound(w, None) /\ AllFull(w) /\ Awaited(w, None)

----------------------------------------------------------------------------
(* The loop                                                                *)

\* A set of naturals has a least element.
LEMMA LeastOf ==
  ASSUME NEW S \in SUBSET Nat, S # {}
  PROVE  \E i \in S : \A j \in S : i <= j
<1> DEFINE R == OpToRel(<, Nat)
<1>1. \E i \in S : \A j \in S : ~(<<j, i>> \in R)
  BY NatLessThanWellFounded, WFMin
<1>2. \A i, j \in Nat : ~(<<j, i>> \in R) => i <= j
  BY DEF OpToRel
<1> QED
  BY <1>1, <1>2

\* f records the states of the loop that serves the queue of host h.
IsLoop(f, x, h, n) ==
  f = [k \in 0 .. n |-> IF k = 0 THEN x ELSE ConnectNext(f[k - 1], h)]

\* The recursive function of Http_connect_queued_sockets exists.
LEMMA LoopExists ==
  ASSUME NEW x, NEW h, NEW n \in Nat
  PROVE  \E f : IsLoop(f, x, h, n)
<1> DEFINE S == {k \in Nat : ~\E f : IsLoop(f, x, h, k)}
<1>1. SUFFICES ASSUME S # {} PROVE FALSE
  OBVIOUS
<1>2. PICK k \in S : \A j \in S : k <= j
  BY <1>1, LeastOf
<1>3. CASE k = 0
  <2> DEFINE f == [j \in 0 .. 0 |-> x]
  <2>1. f = [j \in 0 .. 0 |-> IF j = 0 THEN x ELSE ConnectNext(f[j - 1], h)]
    OBVIOUS
  <2> QED
    BY <1>2, <1>3, <2>1 DEF IsLoop
<1>4. CASE k # 0
  <2>1. k - 1 \in Nat /\ k - 1 \notin S /\ k \in Nat
    BY <1>2, <1>4
  <2>2. PICK f : IsLoop(f, x, h, k - 1)
    BY <2>1
  <2>3. \A j \in 0 .. k - 1 : f[j] = IF j = 0 THEN x ELSE ConnectNext(f[j - 1], h)
    BY <2>1, <2>2 DEF IsLoop
  <2> DEFINE g == [j \in 0 .. k |-> IF j = k THEN ConnectNext(f[k - 1], h) ELSE f[j]]
  <2>4. ASSUME NEW j \in 0 .. k
        PROVE  g[j] = IF j = 0 THEN x ELSE ConnectNext(g[j - 1], h)
    <3>1. CASE j = k
      BY <1>4, <2>1, <3>1
    <3>2. CASE j # k
      <4>1. j \in 0 .. k - 1 /\ (j # 0 => j - 1 \in 0 .. k /\ j - 1 # k)
        BY <2>1, <3>2
      <4> QED
        BY <2>1, <2>3, <3>2, <4>1
    <3> QED
      BY <3>1, <3>2
  <2>5. g = [j \in 0 .. k |-> g[j]]
    OBVIOUS
  <2> HIDE DEF g
  <2>6. [j \in 0 .. k |-> g[j]] =
          [j \in 0 .. k |-> IF j = 0 THEN x ELSE ConnectNext(g[j - 1], h)]
    BY <2>4
  <2>7. IsLoop(g, x, h, k)
    BY <2>5, <2>6 DEF IsLoop
  <2> QED
    BY <1>2, <2>7
<1> QED
  BY <1>3, <1>4

\* Http_connect_queued_sockets ends where its loop does.
LEMMA LoopEnds ==
  ASSUME NEW x, NEW h, Len(x.queue[h]) \in Nat
  PROVE  \E f : /\ IsLoop(f, x, h, Len(x.queue[h]))
                /\ Http_connect_queued_sockets(x, h) = f[Len(x.queue[h])]
<1> DEFINE n == Len(x.queue[h])
           f == CHOOSE f : f = [k \in 0 .. Len(x.queue[h]) |->
                                  IF k = 0 THEN x ELSE ConnectNext(f[k - 1], h)]
<1>1. \E e : e = [k \in 0 .. Len(x.queue[h]) |->
                    IF k = 0 THEN x ELSE ConnectNext(e[k - 1], h)]
  <2>1. PICK e : IsLoop(e, x, h, Len(x.queue[h]))
    BY LoopExists
  <2>2. e = [k \in 0 .. Len(x.queue[h]) |->
               IF k = 0 THEN x ELSE ConnectNext(e[k - 1], h)]
    BY <2>1 DEF IsLoop
  <2> QED
    BY <2>2, Zenon
<1>2. f = [k \in 0 .. Len(x.queue[h]) |->
             IF k = 0 THEN x ELSE ConnectNext(f[k - 1], h)]
  BY <1>1, Zenon
<1>3. Http_connect_queued_sockets(x, h) = f[n]
  BY DEF Http_connect_queued_sockets
<1> HIDE DEF f
<1> QED
  BY <1>2, <1>3 DEF IsLoop

----------------------------------------------------------------------------
(* One turn of the loop                                                    *)

\* Every request has a host and a URL.
LEMMA OfRequest == \A r \in Reqs : HostOf[r] \in Hosts /\ UrlOf[r] \in Urls
BY DEF Hosts, Urls

\* What serving the queue leaves alone, and all of it for d.
Keeps(x, y, d) ==
  /\ y.started = x.started /\ y.asked = x.asked
  /\ y.failed = x.failed /\ y.aborted = x.aborted
  /\ \A r \in Reqs : /\ y.sock[r] = "resolving" => x.sock[r] = "resolving"
                     /\ x.sock[r] = "none" => y.sock[r] = "none"
                     /\ y.Ref[r] > 0 => x.Ref[r] > 0
  /\ y.entry \ y.done \subseteq x.entry \ x.done
  /\ d \in Reqs => /\ y.Ref[d] = x.Ref[d] /\ y.sock[d] = x.sock[d]
                   /\ y.rio[d] = x.rio[d] /\ y.wio[d] = x.wio[d]
                   /\ d \in y.send <=> d \in x.send
                   /\ d \in y.recv <=> d \in x.recv

\* A sequence without its first element.
LEMMA TailOf ==
  ASSUME NEW S, NEW s \in Seq(S), s # <<>>
  PROVE  /\ Len(s) \in Nat /\ 1 \in 1 .. Len(s) /\ Head(s) = s[1] /\ Head(s) \in S
         /\ Tail(s) \in Seq(S) /\ Len(Tail(s)) = Len(s) - 1
         /\ \A i \in 1 .. Len(Tail(s)) : /\ i + 1 \in 1 .. Len(s) /\ i + 1 # 1
                                         /\ Tail(s)[i] = s[i + 1]
         /\ \A i \in 1 .. Len(s) : /\ s[i] \in S
                                   /\ i # 1 => /\ i - 1 \in 1 .. Len(Tail(s))
                                               /\ Tail(s)[i - 1] = s[i]
<1>1. /\ Len(s) \in Nat /\ 1 \in 1 .. Len(s) /\ Head(s) = s[1] /\ Head(s) \in S
      /\ Tail(s) \in Seq(S) /\ Len(Tail(s)) = Len(s) - 1
  OBVIOUS
<1>2. \A i \in 1 .. Len(s) - 1 : Tail(s)[i] = s[i + 1]
  OBVIOUS
<1>3. \A i \in 1 .. Len(s) : s[i] \in S
  OBVIOUS
<1>4. \A i \in 1 .. Len(s) - 1 : i + 1 \in 1 .. Len(s) /\ i + 1 # 1
  BY <1>1
<1>5. \A i \in 1 .. Len(s) : i # 1 => i - 1 \in 1 .. Len(s) - 1 /\ (i - 1) + 1 = i
  BY <1>1
<1> QED
  BY <1>1, <1>2, <1>3, <1>4, <1>5

\* The first of the queue leaves it.
Leaves(x, y, h, s) == /\ y.queue = [x.queue EXCEPT ![h] = Tail(x.queue[h])]
                      /\ y.sock = [x.sock EXCEPT ![Head(x.queue[h])] = s]

\* The first of the queue waits.
LEMMA HeadFacts ==
  ASSUME NEW x, x \in StateType, QueuesOK(x), NEW h \in Hosts, x.queue[h] # <<>>
  PROVE  /\ Head(x.queue[h]) \in Reqs /\ HostOf[Head(x.queue[h])] = h
         /\ x.sock[Head(x.queue[h])] \in {"queued", "doomed"}
<1>1. x.queue[h] \in Seq(Reqs)
  BY DEF StateType
<1>2. /\ 1 \in 1 .. Len(x.queue[h]) /\ Head(x.queue[h]) = x.queue[h][1]
      /\ Head(x.queue[h]) \in Reqs
  BY <1>1, TailOf
<1> QED
  BY <1>2 DEF QueuesOK

LEMMA PopFacts ==
  ASSUME NEW x, x \in StateType, QueuesOK(x), NEW h \in Hosts, x.queue[h] # <<>>,
         NEW s \in SocketStates \ {"queued", "doomed"}, NEW y, Leaves(x, y, h, s)
  PROVE  /\ QueuesOK(y)
         /\ Len(y.queue[h]) = Len(x.queue[h]) - 1
         /\ \A g \in Hosts \ {h} : y.queue[g] = x.queue[g]
<1> DEFINE q == x.queue[h]
           r == Head(q)
<1>1. /\ x.queue \in [Hosts -> Seq(Reqs)] /\ x.sock \in [Reqs -> SocketStates]
      /\ q \in Seq(Reqs)
  BY DEF StateType
<1>2. /\ Len(q) \in Nat /\ 1 \in 1 .. Len(q) /\ r = q[1] /\ r \in Reqs
      /\ Tail(q) \in Seq(Reqs) /\ Len(Tail(q)) = Len(q) - 1
  BY <1>1, TailOf
<1>3. HostOf[r] = h /\ x.sock[r] \in {"queued", "doomed"}
  BY HeadFacts
<1>4. /\ y.queue \in [Hosts -> Seq(Reqs)] /\ y.sock \in [Reqs -> SocketStates]
      /\ y.queue[h] = Tail(q) /\ \A g \in Hosts \ {h} : y.queue[g] = x.queue[g]
      /\ y.sock[r] = s /\ \A c \in Reqs \ {r} : y.sock[c] = x.sock[c]
  <2>1. y.queue = [x.queue EXCEPT ![h] = Tail(q)] /\ y.sock = [x.sock EXCEPT ![r] = s]
    BY DEF Leaves
  <2> HIDE DEF r, q
  <2> QED
    BY <1>1, <1>2, <2>1
<1> HIDE DEF r
<1>5. ASSUME NEW g \in Hosts, NEW i \in 1 .. Len(y.queue[g])
      PROVE  /\ y.queue[g][i] \in Reqs \ {r} /\ HostOf[y.queue[g][i]] = g
             /\ x.sock[y.queue[g][i]] \in {"queued", "doomed"}
             /\ \A j \in 1 .. Len(y.queue[g]) : y.queue[g][i] = y.queue[g][j] => i = j
  <2>1. CASE g = h
    <3>1. /\ y.queue[g] = Tail(q) /\ i \in 1 .. Len(Tail(q))
      BY <1>4, <2>1
    <3>2. /\ \A k \in 1 .. Len(Tail(q)) : /\ k + 1 \in 1 .. Len(q) /\ k + 1 # 1 /\ k \in Int
                                           /\ Tail(q)[k] = q[k + 1]
          /\ \A k \in 1 .. Len(q) : q[k] \in Reqs
      BY <1>1, <1>2, TailOf
    <3>3. \A k \in 1 .. Len(q) : /\ HostOf[q[k]] = h /\ x.sock[q[k]] \in {"queued", "doomed"}
                                 /\ \A j \in 1 .. Len(q) : q[k] = q[j] => k = j
      BY DEF QueuesOK
    <3> HIDE DEF q
    <3>4. \A k, j \in Int : k + 1 = j + 1 => k = j
      OBVIOUS
    <3>5. PICK t : t = y.queue[g]
      OBVIOUS
    <3>6. t = Tail(q) /\ t[i] = q[i + 1] /\ i + 1 \in 1 .. Len(q) /\ i + 1 # 1 /\ i \in Int
      BY <3>1, <3>2, <3>5
    <3>7. t[i] \in Reqs \ {r} /\ HostOf[t[i]] = g /\ x.sock[t[i]] \in {"queued", "doomed"}
      BY <1>2, <2>1, <3>2, <3>3, <3>6
    <3>8. ASSUME NEW j \in 1 .. Len(t), t[i] = t[j]
          PROVE  i = j
      <4>1. t[j] = q[j + 1] /\ j + 1 \in 1 .. Len(q) /\ j \in Int
        BY <3>2, <3>6
      <4> QED
        BY <3>3, <3>4, <3>6, <3>8, <4>1
    <3> QED
      BY <3>5, <3>7, <3>8
  <2>2. CASE g # h
    <3>1. y.queue[g] = x.queue[g] /\ x.queue[g] \in Seq(Reqs)
      BY <1>1, <1>4, <2>2
    <3>2. x.queue[g][i] \in Reqs
      BY <3>1
    <3> QED
      BY <1>3, <2>2, <3>1, <3>2 DEF QueuesOK
  <2> QED
    BY <2>1, <2>2
<1>6. ASSUME NEW c \in Reqs, y.sock[c] \in {"queued", "doomed"}
      PROVE  \E i \in 1 .. Len(y.queue[HostOf[c]]) : y.queue[HostOf[c]][i] = c
  <2>1. c # r /\ x.sock[c] \in {"queued", "doomed"} /\ HostOf[c] \in Hosts
    BY <1>2, <1>4, <1>6, OfRequest
  <2>2. PICK i \in 1 .. Len(x.queue[HostOf[c]]) : x.queue[HostOf[c]][i] = c
    BY <2>1 DEF QueuesOK
  <2>3. CASE HostOf[c] = h
    <3>1. i # 1 /\ i \in 1 .. Len(q) /\ q[i] = c
      BY <1>2, <2>1, <2>2, <2>3
    <3>2. i - 1 \in 1 .. Len(Tail(q)) /\ Tail(q)[i - 1] = q[i]
      BY <1>1, <3>1, TailOf
    <3> QED
      BY <1>4, <2>3, <3>1, <3>2
  <2>4. CASE HostOf[c] # h
    BY <1>4, <2>1, <2>2, <2>4
  <2> QED
    BY <2>3, <2>4
<1>7. QueuesOK(y)
  <2>1. ASSUME NEW g \in Hosts, NEW i \in 1 .. Len(y.queue[g])
        PROVE  /\ HostOf[y.queue[g][i]] = g
               /\ y.sock[y.queue[g][i]] \in {"queued", "doomed"}
               /\ \A j \in 1 .. Len(y.queue[g]) : y.queue[g][i] = y.queue[g][j] => i = j
    <3>1. \A c \in Reqs \ {r} : y.sock[c] = x.sock[c]
      BY <1>4
    <3> QED
      BY <1>5, <3>1
  <2> QED
    BY <1>6, <2>1 DEF QueuesOK
<1> QED
  BY <1>2, <1>4, <1>7

\* A socket that was not connected and is not: the counts stay.
LEMMA SameCounts ==
  ASSUME NEW x, Counted(x), NEW y, NEW r \in Reqs,
         y.active_connections = x.active_connections,
         \A c \in Reqs \ {r} : y.sock[c] = x.sock[c],
         x.sock[r] # "connected", y.sock[r] # "connected"
  PROVE  Counted(y)
<1>1. \A h \in Hosts : Conns(y, h) = Conns(x, h)
  BY DEF Conns
<1> QED
  BY <1>1 DEF Counted

----------------------------------------------------------------------------
(* What the operations change                                              *)

Chains(x) == <<x.started, x.send, x.recv, x.Ref, x.sock, x.asked, x.queue,
               x.active_connections, x.failed>>
Books(x) == <<x.web, x.clients, x.entry, x.done>>

\* Nothing is left on number fd.
Shut(f, fd) == [k \in FDs |-> IF k = fd THEN None ELSE f[k]]

LEMMA ShutType ==
  ASSUME NEW f \in [FDs -> Reqs \cup {None}], NEW fd
  PROVE  /\ Shut(f, fd) \in [FDs -> Reqs \cup {None}]
         /\ fd \notin FDs => Shut(f, fd) = f
BY DEF Shut

LEMMA NoNumber == -1 \notin FDs /\ None \notin Reqs
BY HttpAssumption

\* To close no number closes nothing.
LEMMA ShutNothing ==
  ASSUME NEW x, x \in StateType, NEW fd, fd = -1
  PROVE  Shut(x.open, fd) = x.open /\ Shut(x.rwatch, fd) = x.rwatch
<1>1. /\ x.open \in [FDs -> Reqs \cup {None}]
      /\ x.rwatch \in [FDs -> Reqs \cup {None}]
  BY DEF StateType
<1> QED
  BY <1>1, NoNumber, ShutType

LEMMA CloseFields ==
  ASSUME NEW x, x \in StateType, NEW fd, NEW y, y = IO_close_fd(x, fd, TRUE)
  PROVE  /\ y \in StateType
         /\ y.open = Shut(x.open, fd) /\ y.rwatch = Shut(x.rwatch, fd)
         /\ Chains(y) = Chains(x) /\ Books(y) = Books(x)
         /\ y.wio = x.wio /\ y.rio = x.rio /\ y.aborted = x.aborted
<1>1. y = [x EXCEPT !.open = Shut(x.open, fd), !.rwatch = Shut(x.rwatch, fd),
                    !.wwatch = Shut(x.wwatch, fd)]
  BY DEF IO_close_fd, remove_fd, dClose, Shut, StateType
<1>2. /\ Shut(x.open, fd) \in [FDs -> Reqs \cup {None}]
      /\ Shut(x.rwatch, fd) \in [FDs -> Reqs \cup {None}]
      /\ Shut(x.wwatch, fd) \in [FDs -> Reqs \cup {None}]
  BY ShutType DEF StateType
<1>3. y \in StateType
  BY <1>1, <1>2, ZenonT(30) DEF StateType
<1> QED
  BY <1>1, <1>3 DEF StateType, Chains, Books

IOType == [st : {"none", "new", "submitted", "freed"}, fd : FDs \cup {-1}]

FreedAt(f, r) == [f EXCEPT ![r] = Freed(f[r])]

LEMMA FreedType ==
  ASSUME NEW f \in [Reqs -> IOType], NEW r \in Reqs
  PROVE  /\ FreedAt(f, r) \in [Reqs -> IOType]
         /\ FreedAt(f, r)[r].st = "freed" /\ FreedAt(f, r)[r].fd = f[r].fd
         /\ \A c \in Reqs \ {r} : FreedAt(f, r)[c] = f[c]
<1>1. Freed(f[r]) \in IOType /\ Freed(f[r]).st = "freed" /\ Freed(f[r]).fd = f[r].fd
  <2>1. f[r] \in IOType
    OBVIOUS
  <2>2. PICK S : S = FDs \cup {-1}
    OBVIOUS
  <2> QED
    BY <2>1, <2>2 DEF IOType, Freed
<1> QED
  BY <1>1 DEF FreedAt

LEMMA AbortWriteFields ==
  ASSUME NEW x, x \in StateType, NEW r \in Reqs, NEW y, y = IO_abort_write(x, r)
  PROVE  /\ y \in StateType
         /\ y.open = Shut(x.open, x.wio[r].fd) /\ y.rwatch = Shut(x.rwatch, x.wio[r].fd)
         /\ Chains(y) = Chains(x) /\ Books(y) = Books(x)
         /\ y.wio = FreedAt(x.wio, r) /\ y.rio = x.rio
         /\ x.wio[r].fd = -1 => y.aborted = x.aborted
         /\ x.wio[r].fd # -1 => y.aborted = x.aborted \cup {r}
<1> DEFINE fd == x.wio[r].fd
           c == IO_close_fd(x, fd, TRUE)
           ab == IF fd = -1 THEN x.aborted ELSE x.aborted \cup {r}
<1>1. /\ c \in StateType
      /\ c.open = Shut(x.open, fd) /\ c.rwatch = Shut(x.rwatch, fd)
      /\ Chains(c) = Chains(x) /\ Books(c) = Books(x)
      /\ c.wio = x.wio /\ c.rio = x.rio /\ c.aborted = x.aborted
  BY CloseFields
<1>2. y = [c EXCEPT !.wio = FreedAt(x.wio, r), !.aborted = ab]
  BY <1>1 DEF IO_abort_write, FreedAt
<1> HIDE DEF c
<1>3. FreedAt(x.wio, r) \in [Reqs -> IOType] /\ ab \in SUBSET Reqs
  <2>1. x.wio \in [Reqs -> IOType] /\ x.aborted \in SUBSET Reqs
    BY DEF IOType, StateType
  <2>2. FreedAt(x.wio, r) \in [Reqs -> IOType]
    BY <2>1, FreedType
  <2> QED
    BY <2>1, <2>2
<1> HIDE DEF ab
<1>4. y \in StateType
  <2> DEFINE z == [c EXCEPT !.wio = FreedAt(x.wio, r)]
  <2>1. z \in StateType
    BY <1>1, <1>3 DEF StateType, IOType
  <2>2. y = [z EXCEPT !.aborted = ab]
    BY <1>2
  <2> HIDE DEF z
  <2> QED
    BY <1>3, <2>1, <2>2, ZenonT(30) DEF StateType
<1>5. /\ y.wio = FreedAt(x.wio, r) /\ y.aborted = ab
      /\ y.open = c.open /\ y.rwatch = c.rwatch /\ y.rio = c.rio
  BY <1>1, <1>2 DEF StateType
<1>6. Chains(y) = Chains(c) /\ Books(y) = Books(c)
  BY <1>1, <1>2 DEF StateType, Chains, Books
<1>7. fd = -1 => ab = x.aborted
  BY DEF ab
<1>8. fd # -1 => ab = x.aborted \cup {r}
  BY DEF ab
<1> QED
  BY <1>1, <1>4, <1>5, <1>6, <1>7, <1>8

LEMMA StopReadFields ==
  ASSUME NEW x, x \in StateType, NEW r \in Reqs, NEW y, y = IO_stop_read(x, r)
  PROVE  /\ y \in StateType
         /\ y.open = Shut(x.open, x.rio[r].fd) /\ y.rwatch = Shut(x.rwatch, x.rio[r].fd)
         /\ Chains(y) = Chains(x) /\ Books(y) = Books(x)
         /\ y.rio = FreedAt(x.rio, r) /\ y.wio = x.wio
         /\ y.aborted = x.aborted
<1> DEFINE fd == x.rio[r].fd
           c == IO_close_fd(x, fd, TRUE)
<1>1. /\ c \in StateType
      /\ c.open = Shut(x.open, fd) /\ c.rwatch = Shut(x.rwatch, fd)
      /\ Chains(c) = Chains(x) /\ Books(c) = Books(x)
      /\ c.wio = x.wio /\ c.rio = x.rio /\ c.aborted = x.aborted
  BY CloseFields
<1>2. y = [c EXCEPT !.rio = FreedAt(x.rio, r)]
  BY <1>1 DEF IO_stop_read, FreedAt
<1> HIDE DEF c
<1>3. FreedAt(x.rio, r) \in [Reqs -> IOType]
  BY FreedType DEF IOType, StateType
<1>4. y \in StateType
  BY <1>1, <1>2, <1>3, ZenonT(30) DEF StateType, IOType
<1> QED
  BY <1>1, <1>2, <1>4, ZenonT(30) DEF StateType, Chains, Books

\* OpEnd takes the writing IO away and leaves the descriptor open.
LEMMA EndWriteFields ==
  ASSUME NEW x, x \in StateType, NEW r \in Reqs, NEW y, y = IO_end_write(x, r)
  PROVE  /\ y \in StateType
         /\ y.open = x.open /\ y.rwatch = x.rwatch
         /\ Chains(y) = Chains(x) /\ Books(y) = Books(x)
         /\ y.wio = FreedAt(x.wio, r) /\ y.rio = x.rio
         /\ y.aborted = x.aborted
<1> DEFINE fd == x.wio[r].fd
           wio == FreedAt(x.wio, r)
<1>1. y = [x EXCEPT !.rwatch = [f \in FDs |-> x.rwatch[f]],
                    !.wwatch = Shut(x.wwatch, fd), !.wio = wio]
  BY DEF IO_end_write, IO_close_fd, remove_fd, Shut, FreedAt, StateType
<1>2. /\ wio \in [Reqs -> IOType]
      /\ Shut(x.wwatch, fd) \in [FDs -> Reqs \cup {None}]
      /\ [f \in FDs |-> x.rwatch[f]] = x.rwatch
  BY ShutType, FreedType DEF IOType, StateType
<1> HIDE DEF wio, fd
<1>3. y = [x EXCEPT !.rwatch = x.rwatch, !.wwatch = Shut(x.wwatch, fd), !.wio = wio]
  BY <1>1, <1>2
<1>4. y \in StateType
  BY <1>2, <1>3, ZenonT(30) DEF StateType, IOType
<1> QED
  BY <1>3, <1>4 DEF StateType, Chains, Books, wio

\* The files and the IOs: what Cache_entry_remove and Capi_conn_unref leave alone.
Files(x) == <<x.wio, x.rio, x.open, x.rwatch, x.aborted>>

LEMMA EntryRemoveFields ==
  ASSUME NEW x, x \in StateType, BooksOK(x), NEW u,
         NEW y, y = Cache_entry_remove(x, u)
  PROVE  /\ y \in StateType /\ Files(y) = Files(x) /\ Chains(y) = Chains(x)
         /\ y.entry = x.entry \ {u} /\ y.done = x.done \ {u}
         /\ y.clients = {c \in x.clients : UrlOf[c] # u}
<1>1. CASE u \notin x.entry
  <2>1. y = x
    BY <1>1 DEF Cache_entry_remove
  <2>2. x.entry = x.entry \ {u} /\ x.done = x.done \ {u}
        /\ x.clients = {c \in x.clients : UrlOf[c] # u}
    BY <1>1 DEF BooksOK
  <2> QED
    BY <2>1, <2>2
<1>2. CASE u \in x.entry
  <2> DEFINE gone == {r \in x.clients : UrlOf[r] = u}
  <2>1. y = [x EXCEPT !.entry = x.entry \ {u}, !.done = x.done \ {u},
                      !.clients = x.clients \ gone, !.web = x.web \ gone]
    BY <1>2 DEF Cache_entry_remove
  <2>2. x.clients \ gone = {c \in x.clients : UrlOf[c] # u}
    OBVIOUS
  <2>3. /\ x.entry \ {u} \in SUBSET Urls /\ x.done \ {u} \in SUBSET Urls
        /\ x.clients \ gone \in SUBSET Reqs /\ x.web \ gone \in SUBSET Reqs
    BY DEF StateType
  <2> HIDE DEF gone
  <2>4. y \in StateType
    BY <2>1, <2>3, ZenonT(30) DEF StateType
  <2> QED
    BY <2>1, <2>2, <2>4 DEF StateType, Files, Chains
<1> QED
  BY <1>1, <1>2

\* The answer branch of r is taken down, one reference and the entry with it.
LEMMA AbortAnswerFields ==
  ASSUME NEW x, x \in StateType, BooksOK(x), NEW r \in Reqs, x.Ref[r] # 0,
         NEW y, y = AbortAnswer(x, r)
  PROVE  /\ y \in StateType
         /\ y.started = x.started /\ y.send = x.send /\ y.recv = x.recv \ {r}
         /\ y.Ref = [x.Ref EXCEPT ![r] = x.Ref[r] - 1] /\ y.sock = x.sock
         /\ y.asked = x.asked /\ y.queue = x.queue
         /\ y.active_connections = x.active_connections /\ y.failed = x.failed
         /\ y.open = Shut(x.open, x.rio[r].fd) /\ y.rwatch = Shut(x.rwatch, x.rio[r].fd)
         /\ y.rio = FreedAt(x.rio, r) /\ y.wio = x.wio /\ y.aborted = x.aborted
         /\ y.entry = x.entry \ {UrlOf[r]} /\ y.done = x.done \ {UrlOf[r]}
         /\ y.clients = {c \in x.clients : UrlOf[c] # UrlOf[r]}
<1> DEFINE a == [x EXCEPT !.recv = x.recv \ {r}]
           b == IO_stop_read(a, r)
           c == Cache_entry_remove(b, UrlOf[r])
<1>1. y = [c EXCEPT !.Ref[r] = @ - 1]
  BY DEF AbortAnswer, Capi_conn_unref
<1>2. /\ a \in StateType /\ Files(a) = Files(x) /\ Books(a) = Books(x)
      /\ a.recv = x.recv \ {r}
      /\ a.started = x.started /\ a.send = x.send /\ a.Ref = x.Ref /\ a.sock = x.sock
      /\ a.asked = x.asked /\ a.queue = x.queue
      /\ a.active_connections = x.active_connections /\ a.failed = x.failed
  BY DEF StateType, Files, Books
<1> HIDE DEF a
<1>3. /\ b \in StateType
      /\ b.open = Shut(a.open, a.rio[r].fd) /\ b.rwatch = Shut(a.rwatch, a.rio[r].fd)
      /\ Chains(b) = Chains(a) /\ Books(b) = Books(a)
      /\ b.rio = FreedAt(a.rio, r) /\ b.wio = a.wio /\ b.aborted = a.aborted
  BY <1>2, StopReadFields
<1>4. BooksOK(b)
  BY <1>2, <1>3 DEF BooksOK, Books
<1> HIDE DEF b
<1>5. /\ c \in StateType /\ Files(c) = Files(b) /\ Chains(c) = Chains(b)
      /\ c.entry = b.entry \ {UrlOf[r]} /\ c.done = b.done \ {UrlOf[r]}
      /\ c.clients = {q \in b.clients : UrlOf[q] # UrlOf[r]}
  BY <1>3, <1>4, EntryRemoveFields
<1> HIDE DEF c
<1>6. c.Ref = x.Ref /\ x.Ref \in [Reqs -> 0 .. 2]
  BY <1>2, <1>3, <1>5 DEF Chains, StateType
<1>7. /\ y \in StateType /\ y.Ref = [x.Ref EXCEPT ![r] = x.Ref[r] - 1]
      /\ Files(y) = Files(c) /\ Books(y) = Books(c)
      /\ y.recv = c.recv /\ y.started = c.started /\ y.send = c.send /\ y.sock = c.sock
      /\ y.asked = c.asked /\ y.queue = c.queue
      /\ y.active_connections = c.active_connections /\ y.failed = c.failed
  <2>1. y = [c EXCEPT !.Ref = [x.Ref EXCEPT ![r] = x.Ref[r] - 1]]
    BY <1>1, <1>5, <1>6 DEF StateType
  <2>2. [x.Ref EXCEPT ![r] = x.Ref[r] - 1] \in [Reqs -> 0 .. 2]
    BY <1>6
  <2> QED
    BY <1>5, <2>1, <2>2, ZenonT(30) DEF StateType, Files, Books
<1> QED
  BY <1>2, <1>3, <1>5, <1>7 DEF Chains, Files, Books

\* Both branches of a request without a descriptor are taken down.
LEMMA AbortBothFields ==
  ASSUME NEW x, x \in StateType, BooksOK(x), NEW r \in Reqs, r \in x.recv,
         x.Ref[r] = 2, x.wio[r].fd = -1, x.rio[r].fd = -1, NEW y, y = AbortBoth(x, r)
  PROVE  /\ y \in StateType
         /\ y.started = x.started /\ y.send = x.send \ {r} /\ y.recv = x.recv \ {r}
         /\ y.Ref = [x.Ref EXCEPT ![r] = 0] /\ y.sock = x.sock
         /\ y.asked = x.asked /\ y.queue = x.queue
         /\ y.active_connections = x.active_connections /\ y.failed = x.failed
         /\ y.open = x.open /\ y.rwatch = x.rwatch
         /\ y.rio = FreedAt(x.rio, r) /\ y.wio = FreedAt(x.wio, r)
         /\ y.aborted = x.aborted
         /\ y.entry = x.entry \ {UrlOf[r]} /\ y.done = x.done \ {UrlOf[r]}
         /\ y.clients = {c \in x.clients : UrlOf[c] # UrlOf[r]}
<1>0. PICK a : a = IO_abort_write(x, r)
  OBVIOUS
<1> DEFINE b == [a EXCEPT !.send = @ \ {r}]
           c == AbortAnswer(b, r)
<1>1. /\ a \in StateType
      /\ a.open = Shut(x.open, x.wio[r].fd) /\ a.rwatch = Shut(x.rwatch, x.wio[r].fd)
      /\ Chains(a) = Chains(x) /\ Books(a) = Books(x)
      /\ a.wio = FreedAt(x.wio, r) /\ a.rio = x.rio
      /\ x.wio[r].fd = -1 => a.aborted = x.aborted
  BY <1>0, AbortWriteFields
<1>2. a.open = x.open /\ a.rwatch = x.rwatch /\ a.aborted = x.aborted
  BY <1>1, ShutNothing
<1>3. /\ b \in StateType /\ Files(b) = Files(a) /\ Books(b) = Books(a)
      /\ b.send = a.send \ {r}
      /\ b.started = a.started /\ b.recv = a.recv /\ b.Ref = a.Ref /\ b.sock = a.sock
      /\ b.asked = a.asked /\ b.queue = a.queue
      /\ b.active_connections = a.active_connections /\ b.failed = a.failed
  BY <1>1 DEF StateType, Files, Books
<1>4. y = [c EXCEPT !.Ref[r] = @ - 1]
  <2>1. r \in b.recv
    BY <1>1, <1>3 DEF Chains
  <2> QED
    BY <1>0, <2>1 DEF AbortBoth, Capi_conn_unref
<1> HIDE DEF b
<1>5. BooksOK(b) /\ b.Ref[r] = 2 /\ b.Ref = x.Ref
  BY <1>1, <1>3 DEF BooksOK, Books, Chains
<1>6. /\ c \in StateType
      /\ c.started = b.started /\ c.send = b.send /\ c.recv = b.recv \ {r}
      /\ c.Ref = [b.Ref EXCEPT ![r] = b.Ref[r] - 1] /\ c.sock = b.sock
      /\ c.asked = b.asked /\ c.queue = b.queue
      /\ c.active_connections = b.active_connections /\ c.failed = b.failed
      /\ c.open = Shut(b.open, b.rio[r].fd) /\ c.rwatch = Shut(b.rwatch, b.rio[r].fd)
      /\ c.rio = FreedAt(b.rio, r) /\ c.wio = b.wio /\ c.aborted = b.aborted
      /\ c.entry = b.entry \ {UrlOf[r]} /\ c.done = b.done \ {UrlOf[r]}
      /\ c.clients = {q \in b.clients : UrlOf[q] # UrlOf[r]}
  BY <1>3, <1>5, AbortAnswerFields, SMTT(30)
<1> HIDE DEF c
<1>7. b.rio[r].fd = -1 /\ b.rio = x.rio
  BY <1>1, <1>3 DEF Files
<1>8. c.open = b.open /\ c.rwatch = b.rwatch
  BY <1>3, <1>6, <1>7, ShutNothing
<1>9. /\ y \in StateType /\ y.Ref = [x.Ref EXCEPT ![r] = 0]
      /\ Files(y) = Files(c) /\ Books(y) = Books(c)
      /\ y.recv = c.recv /\ y.started = c.started /\ y.send = c.send /\ y.sock = c.sock
      /\ y.asked = c.asked /\ y.queue = c.queue
      /\ y.active_connections = c.active_connections /\ y.failed = c.failed
  <2>1. x.Ref \in [Reqs -> 0 .. 2] /\ c.Ref \in [Reqs -> 0 .. 2]
    BY <1>6 DEF StateType
  <2>2. c.Ref = [x.Ref EXCEPT ![r] = 2 - 1]
    BY <1>5, <1>6
  <2>3. [c.Ref EXCEPT ![r] = @ - 1] = [x.Ref EXCEPT ![r] = 0]
    BY <2>1, <2>2
  <2>4. y = [c EXCEPT !.Ref = [x.Ref EXCEPT ![r] = 0]]
    BY <1>4, <1>6, <2>3 DEF StateType
  <2>5. [x.Ref EXCEPT ![r] = 0] \in [Reqs -> 0 .. 2]
    BY <2>1
  <2> QED
    BY <1>6, <2>4, <2>5, ZenonT(30) DEF StateType, Files, Books
<1> QED
  BY <1>1, <1>2, <1>3, <1>6, <1>7, <1>8, <1>9 DEF Chains, Files, Books

----------------------------------------------------------------------------
(* The turns of the loop keep the state sound                              *)

\* A turn for host h takes one socket from its queue.
Turn(x, y, h) ==
  /\ Len(y.queue[h]) = Len(x.queue[h]) - 1
  /\ \A g \in Hosts \ {h} : /\ y.queue[g] = x.queue[g]
                            /\ y.active_connections[g] = x.active_connections[g]

\* What may be in the queue is not on its way out.
Settled(x, d) == d \in Reqs => x.sock[d] \notin {"queued", "doomed"}

\* The queue without its first, and a new state of a socket.
Popped(x, h) == [x EXCEPT !.queue = [x.queue EXCEPT ![h] = Tail(x.queue[h])]]
SockSet(x, r, s) == [x EXCEPT !.sock = [x.sock EXCEPT ![r] = s]]

\* All that the invariant is about but the queues, the sockets and their count.
SameRest(x, y) ==
  /\ y.started = x.started /\ y.asked = x.asked /\ y.failed = x.failed
  /\ y.send = x.send /\ y.recv = x.recv /\ y.Ref = x.Ref
  /\ y.wio = x.wio /\ y.rio = x.rio /\ y.open = x.open /\ y.rwatch = x.rwatch
  /\ y.aborted = x.aborted
  /\ y.clients = x.clients /\ y.entry = x.entry /\ y.done = x.done

SameOthers(x, y) == SameRest(x, y) /\ y.active_connections = x.active_connections

PopFrom(x, y, h) ==
  /\ y \in StateType /\ SameOthers(x, y) /\ y.web = x.web /\ y.bad = x.bad
  /\ y.sock = x.sock /\ y.queue = [x.queue EXCEPT ![h] = Tail(x.queue[h])]

SetFrom(x, y, r, s) ==
  /\ y \in StateType /\ SameOthers(x, y)
  /\ y.queue = x.queue /\ y.sock = [x.sock EXCEPT ![r] = s]
  /\ y.sock[r] = s /\ \A c \in Reqs \ {r} : y.sock[c] = x.sock[c]

LEMMA SameRestKeep ==
  ASSUME NEW x, NEW y, SameRest(x, y), NEW d
  PROVE  /\ FilesOK(x) => FilesOK(y)
         /\ OneConn(x) => OneConn(y)
         /\ EntriesOK(x, d) => EntriesOK(y, d)
<1>1. FilesOK(x) => FilesOK(y)
  BY DEF SameOthers, SameRest, FilesOK
<1>2. OneConn(x) => OneConn(y)
  BY DEF SameOthers, SameRest, OneConn
<1>3. EntriesOK(x, d) => EntriesOK(y, d)
  BY DEF SameOthers, SameRest, EntriesOK, BooksOK
<1> QED
  BY <1>1, <1>2, <1>3

LEMMA PoppedFields ==
  ASSUME NEW x, x \in StateType, NEW h \in Hosts, x.queue[h] # <<>>
  PROVE  PopFrom(x, Popped(x, h), h)
<1>1. PICK q : q = [x.queue EXCEPT ![h] = Tail(x.queue[h])]
  OBVIOUS
<1>2. q \in [Hosts -> Seq(Reqs)]
  <2>1. x.queue \in [Hosts -> Seq(Reqs)]
    BY DEF StateType
  <2>2. Tail(x.queue[h]) \in Seq(Reqs)
    BY <2>1, TailOf
  <2> QED
    BY <1>1, <2>1, <2>2
<1>3. Popped(x, h) = [x EXCEPT !.queue = q]
  BY <1>1 DEF Popped
<1>4. Popped(x, h) \in StateType
  BY <1>2, <1>3 DEF StateType
<1> QED
  BY <1>1, <1>3, <1>4 DEF StateType, SameOthers, SameRest, PopFrom

LEMMA SockSetFields ==
  ASSUME NEW x, x \in StateType, NEW r \in Reqs, NEW s \in SocketStates
  PROVE  SetFrom(x, SockSet(x, r, s), r, s)
<1>1. PICK f : f = [x.sock EXCEPT ![r] = s]
  OBVIOUS
<1>2. f \in [Reqs -> SocketStates] /\ f[r] = s /\ \A c \in Reqs \ {r} : f[c] = x.sock[c]
  <2>1. x.sock \in [Reqs -> SocketStates]
    BY DEF StateType
  <2> QED
    BY <1>1, <2>1
<1>3. SockSet(x, r, s) = [x EXCEPT !.sock = f]
  BY <1>1 DEF SockSet
<1>4. SockSet(x, r, s) \in StateType /\ SockSet(x, r, s).sock = f
  BY <1>2, <1>3 DEF StateType
<1> QED
  BY <1>1, <1>2, <1>3, <1>4, ZenonT(30) DEF StateType, SameOthers, SameRest, SetFrom

\* The first of the queue is freed, or let go because its web is gone.
LEMMA PassedOver ==
  ASSUME NEW x, NEW d, Sound(x, d), Settled(x, d), NEW h \in Hosts, x.queue[h] # <<>>,
         NEW s, s = (IF x.sock[Head(x.queue[h])] = "doomed" THEN "freed" ELSE "dropped"),
         NEW y, y = SockSet(Popped(x, h), Head(x.queue[h]), s)
  PROVE  Sound(y, d) /\ Keeps(x, y, d) /\ Turn(x, y, h)
<1> DEFINE r == Head(x.queue[h])
<1>1. x \in StateType /\ s \in SocketStates \ {"queued", "doomed"} /\ s # "connected"
  BY DEF Sound, SocketStates
<1>0. r \in Reqs /\ HostOf[r] = h /\ x.sock[r] \in {"queued", "doomed"}
  BY <1>1, HeadFacts DEF Sound
<1>2. PICK z : z = Popped(x, h)
  OBVIOUS
<1>3. PopFrom(x, z, h)
  BY <1>1, <1>2, PoppedFields
<1>4. y = SockSet(z, r, s) /\ z \in StateType
  BY <1>2, <1>3 DEF PopFrom
<1>5. SetFrom(z, y, r, s)
  BY <1>0, <1>1, <1>4, SockSetFields
<1>6. /\ y \in StateType /\ SameOthers(x, y)
      /\ y.queue = [x.queue EXCEPT ![h] = Tail(x.queue[h])]
      /\ y.sock = [x.sock EXCEPT ![r] = s]
  BY <1>3, <1>5 DEF PopFrom, SetFrom, SameOthers, SameRest
<1>7. /\ QueuesOK(y)
      /\ Len(y.queue[h]) = Len(x.queue[h]) - 1
      /\ \A g \in Hosts \ {h} : y.queue[g] = x.queue[g]
  <2>1. QueuesOK(x)
    BY DEF Sound
  <2>2. Leaves(x, y, h, s)
    BY <1>6 DEF Leaves
  <2>3. x \in StateType /\ s \in SocketStates \ {"queued", "doomed"} /\ h \in Hosts
        /\ x.queue[h] # <<>>
    BY <1>1
  <2> QED
    BY ONLY <2>1, <2>2, <2>3, PopFacts
<1>11. r # d /\ y.sock[r] = s /\ \A c \in Reqs \ {r} : y.sock[c] = x.sock[c]
  <2>1. y.sock[r] = s /\ \A c \in Reqs \ {r} : y.sock[c] = x.sock[c]
    BY <1>3, <1>5 DEF PopFrom, SetFrom
  <2> QED
    BY <1>0, <2>1 DEF Settled
<1> HIDE DEF r
<1>12. Counted(y)
  <2>1. x.sock[r] # "connected" /\ y.sock[r] # "connected"
    BY <1>0, <1>1, <1>11
  <2>2. y.active_connections = x.active_connections
    BY <1>6 DEF SameOthers, SameRest
  <2>3. Counted(x) /\ r \in Reqs
    BY <1>0 DEF Sound
  <2>4. \A c \in Reqs \ {r} : y.sock[c] = x.sock[c]
    BY <1>11
  <2> QED
    BY ONLY <2>1, <2>2, <2>3, <2>4, SameCounts
<1>13. FilesOK(y) /\ OneConn(y) /\ EntriesOK(y, d)
  <2>1. FilesOK(x) /\ OneConn(x) /\ EntriesOK(x, d)
    BY DEF Sound
  <2>2. SameOthers(x, y)
    BY <1>6
  <2> QED
    BY <2>1, <2>2, SameRestKeep DEF SameOthers
<1>8. ASSUME NEW c \in Reqs \ {d}
      PROVE  Regular(y, c)
  <2>0. SameOthers(x, y)
    BY <1>6
  <2>1. Regular(x, c)
    BY DEF Sound
  <2>2. CASE c = r
    <3>1. s = IF x.sock[r] = "doomed" THEN "freed" ELSE "dropped"
      BY DEF r
    <3> QED
      BY <1>0, <1>11, <2>0, <2>1, <2>2, <3>1, ZenonT(30) DEF Regular, IOsFit, Live, SameOthers, SameRest
  <2>3. CASE c # r
    BY <1>11, <2>0, <2>1, <2>3, ZenonT(30) DEF Regular, IOsFit, SameOthers, SameRest
  <2> QED
    BY <2>2, <2>3
<1>9. Keeps(x, y, d)
  <2>0. SameOthers(x, y)
    BY <1>6
  <2>1. s \notin {"resolving", "none"} /\ x.sock[r] # "none"
    BY <1>0
  <2> QED
    BY <1>0, <1>11, <2>0, <2>1, ZenonT(30) DEF Keeps, SameOthers, SameRest
<1>10. \A g \in Hosts : y.active_connections[g] = x.active_connections[g]
  BY <1>6 DEF SameOthers, SameRest
<1> QED
  BY <1>6, <1>7, <1>8, <1>9, <1>10, <1>12, <1>13 DEF Sound, Turn

\* Request r, which had no descriptor, is gone, with the entry of its URL.
Gone(x, y, r) ==
  /\ y.send = x.send \ {r} /\ y.recv = x.recv \ {r}
  /\ y.Ref[r] = 0 /\ \A c \in Reqs \ {r} : y.Ref[c] = x.Ref[c]
  /\ y.sock[r] = "freed" /\ \A c \in Reqs \ {r} : y.sock[c] = x.sock[c]
  /\ y.rio[r].st = "freed"
  /\ \A c \in Reqs \ {r} : y.rio[c] = x.rio[c] /\ y.wio[c] = x.wio[c]
  /\ y.started = x.started /\ y.asked = x.asked /\ y.failed = x.failed
  /\ y.active_connections = x.active_connections
  /\ y.open = x.open /\ y.rwatch = x.rwatch /\ y.aborted = x.aborted
  /\ y.entry = x.entry \ {UrlOf[r]} /\ y.done = x.done \ {UrlOf[r]}
  /\ y.clients = {c \in x.clients : UrlOf[c] # UrlOf[r]}

LEMMA GoneFrom ==
  ASSUME NEW x, NEW z, NEW y, NEW r, SameOthers(x, z), z.sock = x.sock, Gone(z, y, r)
  PROVE  Gone(x, y, r)
BY DEF Gone, SameOthers, SameRest

LEMMA GoneSound ==
  ASSUME NEW x, NEW d, Sound(x, d), NEW r \in Reqs, r # d,
         x.sock[r] \in {"queued", "resolving"},
         NEW y, y \in StateType, QueuesOK(y), Gone(x, y, r)
  PROVE  Sound(y, d) /\ Keeps(x, y, d)
<1>1. Regular(x, r) /\ x \in StateType
  BY DEF Sound
<1>2. Counted(y)
  BY SameCounts DEF Sound, Gone
<1>3. FilesOK(y)
  <2>1. x.rio[r].st = "new"
    BY <1>1 DEF Regular, IOsFit, Live
  <2>2. ASSUME NEW c, NEW fd \in FDs, c \in Reqs, x.rio[c] = Submitted(fd)
        PROVE  y.rio[c] = Submitted(fd)
    <3>1. c # r
      BY <2>1, <2>2 DEF Submitted
    <3> QED
      BY <2>2, <3>1 DEF Gone
  <2>3. \A fd \in FDs : x.open[fd] \in Reqs \cup {None} /\ x.rwatch[fd] \in Reqs \cup {None}
    BY <1>1 DEF StateType
  <2>4. \A c \in Reqs : y.rio[c].st = "submitted" => c # r /\ y.rio[c] = x.rio[c]
    BY DEF Gone
  <2>5. y.open = x.open /\ y.rwatch = x.rwatch /\ y.aborted = x.aborted /\ y.failed = x.failed
    BY DEF Gone
  <2> QED
    BY <2>2, <2>3, <2>4, <2>5 DEF Sound, FilesOK
<1>4. OneConn(y)
  BY DEF Sound, OneConn, Gone
<1>5. EntriesOK(y, d)
  <2>1. BooksOK(y)
    BY DEF Sound, EntriesOK, BooksOK, Gone
  <2>2. ASSUME NEW v \in y.entry \ y.done, ~(d \in Reqs /\ v = UrlOf[d])
        PROVE  \E c \in y.recv : UrlOf[c] = v
    <3>1. v \in x.entry \ x.done /\ v # UrlOf[r]
      BY DEF Gone
    <3>2. PICK c \in x.recv : UrlOf[c] = v
      BY <2>2, <3>1 DEF Sound, EntriesOK
    <3> QED
      BY <3>1, <3>2 DEF Gone
  <2> QED
    BY <2>1, <2>2 DEF EntriesOK
<1>6. ASSUME NEW c \in Reqs \ {d}
      PROVE  Regular(y, c)
  <2>1. Regular(x, c)
    BY DEF Sound
  <2>2. CASE c = r
    <3>1. r \in x.started
      BY <1>1 DEF Regular
    <3> QED
      BY <2>2, <3>1 DEF Regular, IOsFit, Live, Gone
  <2>3. CASE c # r
    BY <2>1, <2>3 DEF Regular, IOsFit, Gone
  <2> QED
    BY <2>2, <2>3
<1>7. Keeps(x, y, d)
  <2>1. y.entry \ y.done \subseteq x.entry \ x.done
    BY DEF Gone
  <2> QED
    BY <2>1 DEF Keeps, Gone
<1> QED
  BY <1>2, <1>3, <1>4, <1>5, <1>6, <1>7 DEF Sound

\* AbortBoth, with the socket freed too, makes the request go.
LEMMA AbortBothGone ==
  ASSUME NEW x, NEW r \in Reqs, x \in StateType, BooksOK(x), Regular(x, r),
         x.sock[r] \in {"queued", "resolving"},
         NEW y, y = SockSet(AbortBoth(x, r), r, "freed")
  PROVE  y \in StateType /\ Gone(x, y, r) /\ y.queue = x.queue
<1> DEFINE b == AbortBoth(x, r)
<1>1. r \in x.recv /\ x.Ref[r] = 2 /\ x.wio[r].fd = -1 /\ x.rio[r].fd = -1
  BY DEF Regular, IOsFit, Live
<1>2. /\ b \in StateType
      /\ b.started = x.started /\ b.send = x.send \ {r} /\ b.recv = x.recv \ {r}
      /\ b.Ref = [x.Ref EXCEPT ![r] = 0] /\ b.sock = x.sock
      /\ b.asked = x.asked /\ b.queue = x.queue
      /\ b.active_connections = x.active_connections /\ b.failed = x.failed
      /\ b.open = x.open /\ b.rwatch = x.rwatch
      /\ b.rio = FreedAt(x.rio, r) /\ b.wio = FreedAt(x.wio, r)
      /\ b.aborted = x.aborted
      /\ b.entry = x.entry \ {UrlOf[r]} /\ b.done = x.done \ {UrlOf[r]}
      /\ b.clients = {c \in x.clients : UrlOf[c] # UrlOf[r]}
  BY <1>1, AbortBothFields
<1> HIDE DEF b
<1>3. "freed" \in SocketStates /\ y = SockSet(b, r, "freed")
  BY DEF SocketStates, b
<1>4. SetFrom(b, y, r, "freed")
  BY <1>2, <1>3, SockSetFields
<1>5. b.rio = FreedAt(x.rio, r) /\ b.wio = FreedAt(x.wio, r)
  BY <1>2
<1>6. /\ b.rio[r].st = "freed"
      /\ \A c \in Reqs \ {r} : b.rio[c] = x.rio[c] /\ b.wio[c] = x.wio[c]
  <2>1. x.rio \in [Reqs -> IOType] /\ x.wio \in [Reqs -> IOType]
    BY DEF StateType, IOType
  <2> QED
    BY <1>5, <2>1, FreedType, SMTT(30)
<1>7. b.Ref[r] = 0 /\ \A c \in Reqs \ {r} : b.Ref[c] = x.Ref[c]
  <2>1. x.Ref \in [Reqs -> 0 .. 2] /\ b.Ref = [x.Ref EXCEPT ![r] = 0]
    BY <1>2 DEF StateType
  <2> QED
    BY <2>1
<1>8. /\ b.started = x.started /\ b.send = x.send \ {r} /\ b.recv = x.recv \ {r}
      /\ b.sock = x.sock /\ b.asked = x.asked /\ b.queue = x.queue
      /\ b.active_connections = x.active_connections /\ b.failed = x.failed
      /\ b.open = x.open /\ b.rwatch = x.rwatch
      /\ b.aborted = x.aborted
      /\ b.entry = x.entry \ {UrlOf[r]} /\ b.done = x.done \ {UrlOf[r]}
      /\ b.clients = {c \in x.clients : UrlOf[c] # UrlOf[r]}
  BY <1>2
<1>9. /\ y \in StateType /\ SameOthers(b, y) /\ y.queue = b.queue
      /\ y.sock[r] = "freed" /\ \A c \in Reqs \ {r} : y.sock[c] = b.sock[c]
  BY <1>4 DEF SetFrom
<1>10. Gone(x, y, r)
  BY <1>6, <1>7, <1>8, <1>9 DEF Gone, SameOthers, SameRest
<1> QED
  BY <1>8, <1>9, <1>10

\* The first of the queue cannot be connected: both its branches are aborted.
LEMMA AbortedInQueue ==
  ASSUME NEW x, NEW d, Sound(x, d), Settled(x, d), NEW h \in Hosts, x.queue[h] # <<>>,
         x.sock[Head(x.queue[h])] = "queued",
         NEW y, y = SockSet(AbortBoth(Popped(x, h), Head(x.queue[h])), Head(x.queue[h]), "freed")
  PROVE  Sound(y, d) /\ Keeps(x, y, d) /\ Turn(x, y, h)
<1>1. x \in StateType /\ "freed" \in SocketStates \ {"queued", "doomed"}
  BY DEF Sound, SocketStates
<1>2. PICK r : r = Head(x.queue[h])
  OBVIOUS
<1>3. r \in Reqs /\ x.sock[r] = "queued"
  BY <1>1, <1>2, HeadFacts DEF Sound
<1>4. PICK z : z = Popped(x, h)
  OBVIOUS
<1>5. PopFrom(x, z, h)
  BY <1>1, <1>4, PoppedFields
<1>6. z \in StateType /\ SameOthers(x, z) /\ z.sock = x.sock
  BY <1>5 DEF PopFrom
<1>7. r # d /\ Regular(x, r) /\ BooksOK(x)
  <2>1. r # d
    BY <1>3 DEF Settled
  <2> QED
    BY <1>3, <2>1 DEF Sound, EntriesOK
<1>8. Regular(z, r) /\ BooksOK(z)
  BY <1>6, <1>7 DEF Regular, IOsFit, BooksOK, SameOthers, SameRest
<1>9. y \in StateType /\ Gone(z, y, r) /\ y.queue = z.queue
  <2>1. y = SockSet(AbortBoth(z, r), r, "freed") /\ z.sock[r] \in {"queued", "resolving"}
    BY <1>2, <1>3, <1>4, <1>6
  <2> QED
    BY <1>3, <1>6, <1>8, <2>1, AbortBothGone
<1>10. Gone(x, y, r)
  BY <1>6, <1>9, GoneFrom
<1>11. Leaves(x, y, h, "freed")
  <2>1. x.sock \in [Reqs -> SocketStates] /\ y.sock \in [Reqs -> SocketStates]
    BY <1>1, <1>9 DEF StateType
  <2>2. y.sock[r] = "freed" /\ \A c \in Reqs \ {r} : y.sock[c] = x.sock[c]
    BY <1>10 DEF Gone
  <2>3. y.sock = [x.sock EXCEPT ![r] = "freed"]
    BY <1>3, <2>1, <2>2
  <2>4. y.queue = [x.queue EXCEPT ![h] = Tail(x.queue[h])]
    BY <1>5, <1>9 DEF PopFrom
  <2> QED
    BY <1>2, <2>3, <2>4 DEF Leaves
<1>12. /\ QueuesOK(y)
       /\ Len(y.queue[h]) = Len(x.queue[h]) - 1
       /\ \A g \in Hosts \ {h} : y.queue[g] = x.queue[g]
  <2>1. QueuesOK(x)
    BY DEF Sound
  <2> QED
    BY <1>1, <1>11, <2>1, PopFacts
<1>13. Sound(y, d) /\ Keeps(x, y, d)
  BY <1>3, <1>7, <1>9, <1>10, <1>12, GoneSound
<1>14. y.active_connections = x.active_connections
  BY <1>10 DEF Gone
<1> QED
  BY <1>12, <1>13, <1>14 DEF Turn

\* Request r is connected on descriptor fd, which was free.
Joined(x, y, r, fd) ==
  /\ y.started = x.started /\ y.asked = x.asked /\ y.failed = x.failed
  /\ y.send = x.send /\ y.recv = x.recv /\ y.Ref = x.Ref /\ y.aborted = x.aborted
  /\ y.clients = x.clients /\ y.entry = x.entry /\ y.done = x.done
  /\ y.sock = [x.sock EXCEPT ![r] = "connected"]
  /\ y.rio[r] = Submitted(fd) /\ y.wio[r] = Submitted(fd)
  /\ \A c \in Reqs \ {r} : y.rio[c] = x.rio[c] /\ y.wio[c] = x.wio[c]
  /\ y.open[fd] = r /\ y.rwatch[fd] = r
  /\ \A f \in FDs \ {fd} : y.open[f] = x.open[f] /\ y.rwatch[f] = x.rwatch[f]
  /\ y.active_connections[HostOf[r]] = x.active_connections[HostOf[r]] + 1
  /\ \A g \in Hosts \ {HostOf[r]} : y.active_connections[g] = x.active_connections[g]

LEMMA ConnectedFields ==
  ASSUME NEW x, x \in StateType, NEW r \in Reqs, FreeFDs(x) # {}
  PROVE  /\ Connected(x, r) \in StateType /\ Connected(x, r).queue = x.queue
         /\ \E fd \in FDs : x.open[fd] = None /\ Joined(x, Connected(x, r), r, fd)
<1>1. PICK fd : fd = Min(FreeFDs(x))
  OBVIOUS
<1>2. fd \in FDs /\ x.open[fd] = None
  <2>1. FreeFDs(x) \in SUBSET Nat
    BY HttpAssumption DEF FreeFDs
  <2>2. \E i \in FreeFDs(x) : \A j \in FreeFDs(x) : i <= j
    BY <2>1, LeastOf
  <2>3. fd \in FreeFDs(x)
    BY <1>1, <2>2 DEF Min
  <2> QED
    BY <2>3 DEF FreeFDs
<1>3. PICK o, rw, ww, s, wi, ri, ac :
        /\ o = [x.open EXCEPT ![fd] = r] /\ rw = [x.rwatch EXCEPT ![fd] = r]
        /\ ww = [x.wwatch EXCEPT ![fd] = r] /\ s = [x.sock EXCEPT ![r] = "connected"]
        /\ wi = [x.wio EXCEPT ![r] = Submitted(fd)]
        /\ ri = [x.rio EXCEPT ![r] = Submitted(fd)]
        /\ ac = [x.active_connections EXCEPT ![HostOf[r]] = @ + 1]
  OBVIOUS
<1>4. Connected(x, r) = [x EXCEPT !.open = o, !.sock = s, !.wio = wi, !.rio = ri,
                                  !.rwatch = rw, !.wwatch = ww, !.active_connections = ac]
  BY <1>1, <1>3 DEF Connected, StateType
<1>5. /\ o \in [FDs -> Reqs \cup {None}] /\ rw \in [FDs -> Reqs \cup {None}]
      /\ ww \in [FDs -> Reqs \cup {None}]
      /\ o[fd] = r /\ rw[fd] = r
      /\ \A f \in FDs \ {fd} : o[f] = x.open[f] /\ rw[f] = x.rwatch[f]
  BY <1>2, <1>3 DEF StateType
<1>6. s \in [Reqs -> SocketStates]
  BY <1>3 DEF StateType, SocketStates
<1>7. /\ wi \in [Reqs -> IOType] /\ ri \in [Reqs -> IOType]
      /\ wi[r] = Submitted(fd) /\ ri[r] = Submitted(fd)
      /\ \A c \in Reqs \ {r} : ri[c] = x.rio[c] /\ wi[c] = x.wio[c]
  <2>1. x.rio \in [Reqs -> IOType] /\ x.wio \in [Reqs -> IOType]
    BY DEF StateType, IOType
  <2>2. Submitted(fd) \in IOType
    BY <1>2 DEF Submitted, IOType
  <2> QED
    BY <1>3, <2>1, <2>2
<1>8. /\ ac \in [Hosts -> Int]
      /\ ac[HostOf[r]] = x.active_connections[HostOf[r]] + 1
      /\ \A g \in Hosts \ {HostOf[r]} : ac[g] = x.active_connections[g]
  <2>1. x.active_connections \in [Hosts -> Int] /\ HostOf[r] \in Hosts
    BY OfRequest DEF StateType
  <2> QED
    BY <1>3, <2>1
<1>9. PICK y : y = Connected(x, r)
  OBVIOUS
<1>10. /\ y.open = o /\ y.sock = s /\ y.wio = wi /\ y.rio = ri /\ y.rwatch = rw
       /\ y.active_connections = ac /\ y.queue = x.queue
       /\ y.started = x.started /\ y.asked = x.asked /\ y.failed = x.failed
       /\ y.send = x.send /\ y.recv = x.recv /\ y.Ref = x.Ref /\ y.aborted = x.aborted
       /\ y.clients = x.clients /\ y.entry = x.entry /\ y.done = x.done
  BY <1>4, <1>9 DEF StateType
<1>11. y \in StateType
  <2>1. [x EXCEPT !.open = o, !.rwatch = rw, !.wwatch = ww] \in StateType
    BY <1>5 DEF StateType
  <2>2. PICK z : z = [x EXCEPT !.open = o, !.rwatch = rw, !.wwatch = ww]
    OBVIOUS
  <2>3. y = [z EXCEPT !.sock = s, !.wio = wi, !.rio = ri, !.active_connections = ac]
    BY <1>4, <1>9, <2>2 DEF StateType
  <2>4. z \in StateType
    BY <2>1, <2>2
  <2> QED
    BY <1>6, <1>7, <1>8, <2>3, <2>4 DEF StateType, IOType
<1>12. Joined(x, y, r, fd)
  BY <1>3, <1>5, <1>7, <1>8, <1>10 DEF Joined
<1> QED
  BY <1>2, <1>9, <1>10, <1>11, <1>12

\* A request that waited and is connected keeps the rest of the state sound.
LEMMA JoinedSound ==
  ASSUME NEW x, NEW d, Sound(x, d), NEW r \in Reqs, r # d, x.sock[r] = "queued",
         NEW fd \in FDs, x.open[fd] = None,
         ~(x.active_connections[HostOf[r]] >= http_max_conns),
         NEW y, y \in StateType, QueuesOK(y), Joined(x, y, r, fd)
  PROVE  Sound(y, d) /\ Keeps(x, y, d)
<1>1. Regular(x, r) /\ x \in StateType
  BY DEF Sound
<1>2. y.sock[r] = "connected" /\ \A c \in Reqs \ {r} : y.sock[c] = x.sock[c]
  <2>1. x.sock \in [Reqs -> SocketStates]
    BY <1>1 DEF StateType
  <2>2. y.sock = [x.sock EXCEPT ![r] = "connected"]
    BY DEF Joined
  <2> QED
    BY <2>1, <2>2
<1>3. Counted(y)
  <2>1. ASSUME NEW g \in Hosts, g # HostOf[r]
        PROVE  /\ IsFiniteSet(Conns(y, g))
               /\ y.active_connections[g] = Cardinality(Conns(y, g))
               /\ y.active_connections[g] <= http_max_conns
    <3>1. Conns(y, g) = Conns(x, g)
      BY <1>2, <2>1 DEF Conns
    <3>2. y.active_connections[g] = x.active_connections[g]
      BY <2>1 DEF Joined
    <3> QED
      BY <3>1, <3>2 DEF Sound, Counted
  <2>2. /\ IsFiniteSet(Conns(y, HostOf[r]))
        /\ y.active_connections[HostOf[r]] = Cardinality(Conns(y, HostOf[r]))
        /\ y.active_connections[HostOf[r]] <= http_max_conns
    <3>0. PICK h : h = HostOf[r]
      OBVIOUS
    <3>1. Conns(y, h) = Conns(x, h) \cup {r} /\ r \notin Conns(x, h)
      BY <1>2, <3>0 DEF Conns
    <3>2. /\ h \in Hosts /\ IsFiniteSet(Conns(x, h))
          /\ x.active_connections[h] = Cardinality(Conns(x, h))
      BY <3>0, OfRequest DEF Sound, Counted
    <3>3. /\ IsFiniteSet(Conns(y, h))
          /\ Cardinality(Conns(y, h)) = Cardinality(Conns(x, h)) + 1
      BY <3>1, <3>2, FS_AddElement
    <3>4. y.active_connections[h] = x.active_connections[h] + 1
      BY <3>0 DEF Joined
    <3>5. x.active_connections[h] \in Int /\ http_max_conns \in Int
      BY <1>1, <3>2, HttpAssumption DEF StateType
    <3>6. y.active_connections[h] <= http_max_conns
      BY <3>0, <3>4, <3>5
    <3> QED
      BY <3>0, <3>2, <3>3, <3>4, <3>6
  <2> QED
    BY <2>1, <2>2 DEF Counted
<1>4. FilesOK(y)
  <2>0. FilesOK(x) /\ None \notin Reqs
    BY HttpAssumption DEF Sound
  <2>1. x.rio[r].st = "new"
    BY <1>1 DEF Regular, IOsFit, Live
  <2>2. ASSUME NEW c \in Reqs, NEW f \in FDs, x.rio[c] = Submitted(f)
        PROVE  c # r /\ y.rio[c] = Submitted(f)
    <3>1. c # r
      BY <2>1, <2>2 DEF Submitted
    <3> QED
      BY <2>2, <3>1 DEF Joined
  <2>3. \A f \in FDs : x.open[f] \in Reqs \cup {None} /\ x.rwatch[f] \in Reqs \cup {None}
    BY <1>1 DEF StateType
  <2>4. ASSUME NEW f \in FDs
        PROVE  /\ y.open[f] # None => y.rio[y.open[f]] = Submitted(f)
               /\ y.rwatch[f] # None => y.rio[y.rwatch[f]] = Submitted(f)
    <3>1. CASE f = fd
      BY <3>1 DEF Joined
    <3>2. CASE f # fd
      <4>1. y.open[f] = x.open[f] /\ y.rwatch[f] = x.rwatch[f]
        BY <3>2 DEF Joined
      <4> QED
        BY <2>0, <2>2, <2>3, <4>1 DEF FilesOK
    <3> QED
      BY <3>1, <3>2
  <2>5. ASSUME y.aborted = {}, NEW c \in Reqs, y.rio[c].st = "submitted"
        PROVE  /\ y.open[y.rio[c].fd] = c
               /\ y.failed = {} => y.rwatch[y.rio[c].fd] = c
    <3>1. CASE c = r
      BY <3>1 DEF Joined, Submitted
    <3>2. CASE c # r
      <4>1. y.rio[c] = x.rio[c] /\ y.aborted = x.aborted /\ y.failed = x.failed
        BY <3>2 DEF Joined
      <4>2. x.open[x.rio[c].fd] = c /\ (x.failed = {} => x.rwatch[x.rio[c].fd] = c)
        BY <2>0, <2>5, <4>1 DEF FilesOK
      <4>4. x.rio[c].fd \in FDs \ {fd}
        BY <2>0, <2>5, <4>1, <4>2 DEF FilesOK
      <4> QED
        BY <4>1, <4>2, <4>4 DEF Joined
    <3> QED
      BY <3>1, <3>2
  <2>6. ASSUME NEW c \in Reqs, y.rio[c].st = "submitted"
        PROVE  y.rio[c].fd \in FDs
    <3>1. CASE c = r
      BY <3>1 DEF Joined, Submitted
    <3>2. CASE c # r
      BY <2>0, <2>6, <3>2 DEF Joined, FilesOK
    <3> QED
      BY <3>1, <3>2
  <2> QED
    BY <2>4, <2>5, <2>6 DEF FilesOK
<1>5. OneConn(y)
  BY DEF Sound, OneConn, Joined
<1>6. EntriesOK(y, d)
  BY DEF Sound, EntriesOK, BooksOK, Joined
<1>7. ASSUME NEW c \in Reqs \ {d}
      PROVE  Regular(y, c)
  <2>1. Regular(x, c)
    BY DEF Sound
  <2>2. CASE c = r
    BY <1>2, <2>1, <2>2 DEF Regular, IOsFit, Live, Joined, Submitted
  <2>3. CASE c # r
    BY <1>2, <2>1, <2>3 DEF Regular, IOsFit, Joined
  <2> QED
    BY <2>2, <2>3
<1>8. Keeps(x, y, d)
  BY <1>2 DEF Keeps, Joined
<1> QED
  BY <1>3, <1>4, <1>5, <1>6, <1>7, <1>8 DEF Sound

\* The first of the queue gets the free slot.
LEMMA ConnectedInQueue ==
  ASSUME NEW x, NEW d, Sound(x, d), Settled(x, d), NEW h \in Hosts, x.queue[h] # <<>>,
         x.sock[Head(x.queue[h])] = "queued", FreeFDs(Popped(x, h)) # {},
         ~(x.active_connections[h] >= http_max_conns),
         NEW y, y = Connected(Popped(x, h), Head(x.queue[h]))
  PROVE  Sound(y, d) /\ Keeps(x, y, d) /\ Turn(x, y, h)
<1>1. x \in StateType /\ "connected" \in SocketStates \ {"queued", "doomed"}
  BY DEF Sound, SocketStates
<1>2. PICK r : r = Head(x.queue[h])
  OBVIOUS
<1>3. r \in Reqs /\ x.sock[r] = "queued" /\ HostOf[r] = h
  BY <1>1, <1>2, HeadFacts DEF Sound
<1>4. PICK z : z = Popped(x, h)
  OBVIOUS
<1>5. PopFrom(x, z, h)
  BY <1>1, <1>4, PoppedFields
<1>6. z \in StateType /\ SameOthers(x, z) /\ z.sock = x.sock
  BY <1>5 DEF PopFrom
<1>7. r # d
  BY <1>3 DEF Settled
<1>8. y = Connected(z, r) /\ FreeFDs(z) # {}
  BY <1>2, <1>4
<1>9. y \in StateType /\ y.queue = z.queue
  BY <1>3, <1>6, <1>8, ConnectedFields
<1>10. PICK fd \in FDs : z.open[fd] = None /\ Joined(z, y, r, fd)
  BY <1>3, <1>6, <1>8, ConnectedFields
<1>11. Joined(x, y, r, fd) /\ x.open[fd] = None
  <2>1. /\ z.started = x.started /\ z.asked = x.asked /\ z.failed = x.failed
        /\ z.send = x.send /\ z.recv = x.recv /\ z.Ref = x.Ref /\ z.aborted = x.aborted
        /\ z.clients = x.clients /\ z.entry = x.entry /\ z.done = x.done
    BY <1>6 DEF SameOthers, SameRest
  <2>2. /\ z.sock = x.sock /\ z.rio = x.rio /\ z.wio = x.wio /\ z.open = x.open
        /\ z.rwatch = x.rwatch /\ z.active_connections = x.active_connections
    BY <1>6 DEF SameOthers, SameRest
  <2>3. Joined(z, y, r, fd) /\ z.open[fd] = None
    BY <1>10
  <2> QED
    BY ONLY <2>1, <2>2, <2>3 DEF Joined
<1>12. Leaves(x, y, h, "connected")
  BY <1>2, <1>5, <1>9, <1>11 DEF Leaves, PopFrom, Joined
<1>13. /\ QueuesOK(y)
       /\ Len(y.queue[h]) = Len(x.queue[h]) - 1
       /\ \A g \in Hosts \ {h} : y.queue[g] = x.queue[g]
  <2>1. QueuesOK(x)
    BY DEF Sound
  <2> QED
    BY <1>1, <1>12, <2>1, PopFacts
<1>14. Sound(y, d) /\ Keeps(x, y, d)
  BY <1>3, <1>7, <1>9, <1>11, <1>13, JoinedSound
<1>15. \A g \in Hosts \ {h} : y.active_connections[g] = x.active_connections[g]
  BY <1>3, <1>11 DEF Joined
<1> QED
  BY <1>13, <1>14, <1>15 DEF Turn

\* A turn of the loop, whatever becomes of the first of the queue.
LEMMA NextSound ==
  ASSUME NEW x, NEW d, Sound(x, d), Settled(x, d), NEW h \in Hosts, x.queue[h] # <<>>,
         ~(x.active_connections[h] >= http_max_conns), NEW y, y = ConnectNext(x, h)
  PROVE  Sound(y, d) /\ Keeps(x, y, d) /\ Turn(x, y, h)
<1>1. PICK r : r = Head(x.queue[h])
  OBVIOUS
<1>2. PICK z : z = Popped(x, h)
  OBVIOUS
<1>3. x \in StateType
  BY DEF Sound
<1>4. r \in Reqs /\ x.sock[r] \in {"queued", "doomed"}
  BY <1>1, <1>3, HeadFacts DEF Sound
<1>5. z.sock = x.sock
  BY <1>2, <1>3, PoppedFields DEF PopFrom
<1>6. y = CASE z.sock[r] = "doomed" -> SockSet(z, r, "freed")
            [] z.sock[r] = "queued" /\ r \notin z.web -> SockSet(z, r, "dropped")
            [] z.sock[r] = "queued" /\ r \in z.web /\ (r \in z.bad \/ FreeFDs(z) = {})
                 -> SockSet(AbortBoth(z, r), r, "freed")
            [] OTHER -> Connected(z, r)
  BY <1>1, <1>2 DEF ConnectNext, Popped, SockSet
<1>7. CASE x.sock[r] = "doomed"
  <2>1. y = SockSet(z, r, "freed")
    BY <1>5, <1>6, <1>7
  <2>2. "freed" = IF x.sock[r] = "doomed" THEN "freed" ELSE "dropped"
    BY <1>7
  <2> QED
    BY <1>1, <1>2, <2>1, <2>2, PassedOver
<1>8. CASE x.sock[r] = "queued" /\ r \notin z.web
  <2>1. y = SockSet(z, r, "dropped")
    BY <1>5, <1>6, <1>8
  <2>2. "dropped" = IF x.sock[r] = "doomed" THEN "freed" ELSE "dropped"
    BY <1>8
  <2> QED
    BY <1>1, <1>2, <2>1, <2>2, PassedOver
<1>9. CASE x.sock[r] = "queued" /\ r \in z.web /\ (r \in z.bad \/ FreeFDs(z) = {})
  <2>1. y = SockSet(AbortBoth(z, r), r, "freed")
    BY <1>5, <1>6, <1>9
  <2> QED
    BY <1>1, <1>2, <1>9, <2>1, AbortedInQueue
<1>10. CASE x.sock[r] = "queued" /\ r \in z.web /\ ~(r \in z.bad \/ FreeFDs(z) = {})
  <2>1. y = Connected(z, r)
    BY <1>5, <1>6, <1>10
  <2> QED
    BY <1>1, <1>2, <1>10, <2>1, ConnectedInQueue
<1> QED
  BY <1>4, <1>7, <1>8, <1>9, <1>10

\* Keeps holds of nothing done and of one thing done after another.
LEMMA KeepsChain ==
  ASSUME NEW d
  PROVE  /\ \A x : Keeps(x, x, d)
         /\ \A x, y, z : Keeps(x, y, d) /\ Keeps(y, z, d) => Keeps(x, z, d)
BY DEF Keeps

\* How far the loop is after n turns.
Served(x, y, d, h, n) ==
  /\ Sound(y, d) /\ Keeps(x, y, d)
  /\ \A g \in Hosts \ {h} : /\ y.queue[g] = x.queue[g]
                            /\ y.active_connections[g] = x.active_connections[g]
  /\ \/ y.queue[h] = <<>> \/ y.active_connections[h] >= http_max_conns
     \/ Len(y.queue[h]) = Len(x.queue[h]) - n

LEMMA ServedStep ==
  ASSUME NEW x, NEW y, NEW d, Settled(x, d), NEW h \in Hosts, NEW n \in Nat,
         x \in StateType, Served(x, y, d, h, n)
  PROVE  Served(x, ConnectNext(y, h), d, h, n + 1)
<1>1. CASE y.active_connections[h] >= http_max_conns \/ y.queue[h] = <<>>
  <2>1. ConnectNext(y, h) = y
    BY <1>1 DEF ConnectNext
  <2> QED
    BY <1>1, <2>1 DEF Served
<1>2. CASE ~(y.active_connections[h] >= http_max_conns) /\ y.queue[h] # <<>>
  <2>1. PICK z : z = ConnectNext(y, h)
    OBVIOUS
  <2>2. Settled(y, d)
    BY DEF Settled, Served, Keeps
  <2>3. Sound(z, d) /\ Keeps(y, z, d) /\ Turn(y, z, h)
    BY <1>2, <2>1, <2>2, NextSound DEF Served
  <2>4. Keeps(x, z, d)
    BY <2>3, KeepsChain DEF Served
  <2>5. Len(y.queue[h]) = Len(x.queue[h]) - n
    BY <1>2 DEF Served
  <2>6. Len(x.queue[h]) \in Nat
    <3>1. x.queue[h] \in Seq(Reqs)
      BY DEF StateType
    <3> QED
      BY <3>1
  <2>7. Len(z.queue[h]) = Len(x.queue[h]) - (n + 1)
    <3>1. Len(z.queue[h]) = Len(y.queue[h]) - 1
      BY <2>3 DEF Turn
    <3> QED
      BY <2>5, <2>6, <3>1
  <2>8. \A g \in Hosts \ {h} : /\ z.queue[g] = x.queue[g]
                               /\ z.active_connections[g] = x.active_connections[g]
    BY <2>3 DEF Turn, Served
  <2> QED
    BY <2>1, <2>3, <2>4, <2>7, <2>8 DEF Served
<1> QED
  BY <1>1, <1>2

\* Http_connect_queued_sockets keeps the state sound and leaves no slot of the
\* host free while somebody waits for one.
LEMMA QueueServed ==
  ASSUME NEW x, NEW d, Sound(x, d), Settled(x, d), NEW h \in Hosts,
         \A g \in Hosts \ {h} : Full(x, g),
         NEW y, y = Http_connect_queued_sockets(x, h)
  PROVE  Sound(y, d) /\ Keeps(x, y, d) /\ AllFull(y)
<1>1. x \in StateType
  BY DEF Sound
<1>2. PICK n \in Nat : n = Len(x.queue[h])
  <2>1. x.queue[h] \in Seq(Reqs)
    BY <1>1 DEF StateType
  <2> QED
    BY <2>1
<1>3. PICK f : IsLoop(f, x, h, n) /\ y = f[n]
  BY <1>2, LoopEnds
<1>4. \A k \in 0 .. n : f[k] = IF k = 0 THEN x ELSE ConnectNext(f[k - 1], h)
  BY <1>3 DEF IsLoop
<1>5. Served(x, f[n], d, h, n)
  <2> DEFINE S == {k \in Nat : k <= n /\ ~Served(x, f[k], d, h, k)}
  <2>1. SUFFICES ASSUME S # {} PROVE FALSE
    OBVIOUS
  <2>2. PICK k \in S : \A j \in S : k <= j
    BY <2>1, LeastOf
  <2>3. CASE k = 0
    <3>1. f[0] = x
      BY <1>4
    <3>2. Served(x, x, d, h, 0)
      <4>1. Len(x.queue[h]) = Len(x.queue[h]) - 0
        BY <1>2
      <4> QED
        BY <4>1, KeepsChain DEF Served
    <3> QED
      BY <2>2, <2>3, <3>1, <3>2
  <2>4. CASE k # 0
    <3>1. k - 1 \in Nat /\ k - 1 <= n /\ k - 1 \notin S /\ k \in 0 .. n /\ (k - 1) + 1 = k
      BY <2>2, <2>4
    <3>2. Served(x, f[k - 1], d, h, k - 1)
      BY <3>1
    <3>3. Served(x, ConnectNext(f[k - 1], h), d, h, (k - 1) + 1)
      BY <1>1, <3>1, <3>2, ServedStep
    <3>4. Served(x, f[k], d, h, k)
      BY <1>4, <2>4, <3>1, <3>3
    <3> QED
      BY <2>2, <3>4
  <2> QED
    BY <2>3, <2>4
<1>6. Sound(y, d) /\ Keeps(x, y, d) /\ y \in StateType
  BY <1>3, <1>5 DEF Served, Sound
<1>7. Full(y, h)
  <2>1. y.queue[h] \in Seq(Reqs)
    BY <1>6 DEF StateType
  <2>2. y.queue[h] = <<>> \/ y.active_connections[h] >= http_max_conns
    <3>1. Len(y.queue[h]) = Len(x.queue[h]) - n => y.queue[h] = <<>>
      <4>1. Len(x.queue[h]) - n = 0
        BY <1>2
      <4> QED
        BY <2>1, <4>1
    <3> QED
      BY <1>3, <1>5, <3>1 DEF Served
  <2>3. /\ y.active_connections[h] <= http_max_conns
        /\ y.active_connections[h] \in Int /\ http_max_conns \in Int
    BY <1>6, HttpAssumption DEF Sound, Counted, StateType
  <2> QED
    BY <2>2, <2>3 DEF Full
<1>8. \A g \in Hosts \ {h} : Full(y, g)
  BY <1>3, <1>5 DEF Served, Full
<1> QED
  BY <1>6, <1>7, <1>8 DEF AllFull

----------------------------------------------------------------------------
(* A request on its way out                                                *)

\* Nobody who was not there comes up, and nobody starts to wait for the resolver.
Since(x, y) ==
  /\ y.started = x.started /\ y.asked = x.asked
  /\ \A c \in Reqs : /\ y.sock[c] = "resolving" => x.sock[c] = "resolving"
                     /\ x.sock[c] = "none" => y.sock[c] = "none"
                     /\ y.Ref[c] > 0 => x.Ref[c] > 0
  /\ y.entry \ y.done \subseteq x.entry \ x.done

LEMMA SinceChain ==
  /\ \A x : Since(x, x)
  /\ \A x, y, z : Since(x, y) /\ Since(y, z) => Since(x, z)
BY DEF Since

\* The socket of the request is free, or will be when its turn in the queue comes.
Frees(x, y, r) ==
  /\ Since(x, y) /\ y.aborted = x.aborted
  /\ y.Ref[r] = x.Ref[r] /\ y.rio[r] = x.rio[r]
  /\ r \in y.send <=> r \in x.send
  /\ r \in y.recv <=> r \in x.recv
  /\ y.sock[r] \in {"doomed", "freed"}

\* Another state of the socket of r.
Shifts(x, y, r) ==
  /\ y \in StateType /\ SameRest(x, y) /\ y.queue = x.queue
  /\ \A c \in Reqs \ {r} : y.sock[c] = x.sock[c]
  /\ y.sock[r] \in {"doomed", "freed"} /\ x.sock[r] \in Live
  /\ x.sock[r] = "queued" <=> y.sock[r] = "doomed"

LEMMA ShiftSound ==
  ASSUME NEW x, NEW r \in Reqs, Sound(x, r), NEW y, Shifts(x, y, r), Counted(y)
  PROVE  Sound(y, r) /\ Frees(x, y, r)
<1>1. x \in StateType /\ None \notin Reqs
  BY HttpAssumption DEF Sound
<1>2. QueuesOK(y)
  <2>1. x.sock[r] \in {"queued", "doomed"} <=> y.sock[r] \in {"queued", "doomed"}
    BY DEF Shifts, Live
  <2>2. \A c \in Reqs : x.sock[c] \in {"queued", "doomed"} <=> y.sock[c] \in {"queued", "doomed"}
    BY <2>1 DEF Shifts
  <2>3. y.queue = x.queue
    BY DEF Shifts
  <2>4. \A h \in Hosts : \A i \in 1 .. Len(x.queue[h]) : x.queue[h][i] \in Reqs
    <3>1. \A h \in Hosts : x.queue[h] \in Seq(Reqs)
      BY <1>1 DEF StateType
    <3> QED
      BY <3>1
  <2> QED
    BY <2>2, <2>3, <2>4 DEF Sound, QueuesOK
<1>3. FilesOK(y) /\ OneConn(y) /\ EntriesOK(y, r)
  BY SameRestKeep DEF Sound, Shifts
<1>4. ASSUME NEW c \in Reqs \ {r}
      PROVE  Regular(y, c)
  <2>1. Regular(x, c)
    BY DEF Sound
  <2> QED
    BY <2>1 DEF Regular, IOsFit, Shifts, SameRest
<1>5. Sound(y, r)
  BY <1>2, <1>3, <1>4 DEF Sound, Shifts
<1>6. Frees(x, y, r)
  BY DEF Frees, Since, Shifts, SameRest, Live
<1> QED
  BY <1>5, <1>6

\* Without a change of the queues and the counts, who waits still waits for a slot.
LEMMA SameFull ==
  ASSUME NEW x, AllFull(x), NEW y, y.queue = x.queue,
         y.active_connections = x.active_connections
  PROVE  AllFull(y)
BY DEF AllFull, Full

\* Http_socket_free of a connected socket, up to the queue.
Disconnected(x, r) ==
  [x EXCEPT !.sock = [x.sock EXCEPT ![r] = "freed"],
            !.active_connections =
              [x.active_connections EXCEPT ![HostOf[r]] = x.active_connections[HostOf[r]] - 1]]

LEMMA DisconnectedFields ==
  ASSUME NEW x, NEW r \in Reqs, Sound(x, r), x.sock[r] = "connected",
         NEW y, y = Disconnected(x, r)
  PROVE  /\ Shifts(x, y, r) /\ Counted(y)
         /\ \A g \in Hosts \ {HostOf[r]} : y.active_connections[g] = x.active_connections[g]
<1>1. x \in StateType
  BY DEF Sound
<1>2. PICK s, a : /\ s = [x.sock EXCEPT ![r] = "freed"]
                  /\ a = [x.active_connections EXCEPT ![HostOf[r]] =
                            x.active_connections[HostOf[r]] - 1]
  OBVIOUS
<1>3. y = [x EXCEPT !.sock = s, !.active_connections = a]
  BY <1>2 DEF Disconnected
<1>4. /\ s \in [Reqs -> SocketStates] /\ s[r] = "freed"
      /\ \A c \in Reqs \ {r} : s[c] = x.sock[c]
  BY <1>1, <1>2 DEF StateType, SocketStates
<1>5. /\ HostOf[r] \in Hosts /\ a \in [Hosts -> Int]
      /\ a[HostOf[r]] = x.active_connections[HostOf[r]] - 1
      /\ \A g \in Hosts \ {HostOf[r]} : a[g] = x.active_connections[g]
  <2>1. x.active_connections \in [Hosts -> Int] /\ HostOf[r] \in Hosts
    BY <1>1, OfRequest DEF StateType
  <2> QED
    BY <1>2, <2>1
<1>6. y \in StateType /\ y.sock = s /\ y.active_connections = a
  BY <1>1, <1>3, <1>4, <1>5, ZenonT(30) DEF StateType
<1>7. y.queue = x.queue /\ SameRest(x, y)
  BY <1>1, <1>3 DEF StateType, SameRest
<1>8. Shifts(x, y, r)
  BY <1>4, <1>6, <1>7 DEF Shifts, Live
<1>9. Counted(y)
  <2>1. ASSUME NEW g \in Hosts, g # HostOf[r]
        PROVE  /\ IsFiniteSet(Conns(y, g))
               /\ y.active_connections[g] = Cardinality(Conns(y, g))
               /\ y.active_connections[g] <= http_max_conns
    <3>1. Conns(y, g) = Conns(x, g)
      BY <1>4, <1>6, <2>1 DEF Conns
    <3>2. y.active_connections[g] = x.active_connections[g]
      BY <1>5, <1>6, <2>1
    <3> QED
      BY <3>1, <3>2 DEF Sound, Counted
  <2>2. PICK h : h = HostOf[r]
    OBVIOUS
  <2>3. /\ IsFiniteSet(Conns(y, h))
        /\ y.active_connections[h] = Cardinality(Conns(y, h))
        /\ y.active_connections[h] <= http_max_conns
    <3>1. Conns(y, h) = Conns(x, h) \ {r} /\ r \in Conns(x, h)
      BY <1>4, <1>6, <2>2 DEF Conns
    <3>2. /\ h \in Hosts /\ IsFiniteSet(Conns(x, h))
          /\ x.active_connections[h] = Cardinality(Conns(x, h))
          /\ x.active_connections[h] <= http_max_conns
      BY <1>5, <2>2 DEF Sound, Counted
    <3>3. /\ IsFiniteSet(Conns(y, h))
          /\ Cardinality(Conns(y, h)) = Cardinality(Conns(x, h)) - 1
      BY <3>1, <3>2, FS_RemoveElement
    <3>4. y.active_connections[h] = x.active_connections[h] - 1
      BY <1>5, <1>6, <2>2
    <3>5. x.active_connections[h] \in Int /\ http_max_conns \in Int
      BY <1>1, <3>2, HttpAssumption DEF StateType
    <3>6. y.active_connections[h] <= http_max_conns
      BY <3>2, <3>4, <3>5
    <3> QED
      BY <3>2, <3>3, <3>4, <3>6
  <2> QED
    BY <2>1, <2>2, <2>3 DEF Counted
<1> QED
  BY <1>5, <1>6, <1>8, <1>9

\* Http_socket_free of the socket of a request on its way out.
LEMMA SocketFree ==
  ASSUME NEW x, NEW r \in Reqs, Sound(x, r), AllFull(x), x.sock[r] \in Live,
         NEW y, y = Http_socket_free(x, r)
  PROVE  Sound(y, r) /\ AllFull(y) /\ Frees(x, y, r)
<1>1. x \in StateType
  BY DEF Sound
<1>2. ASSUME NEW s \in {"doomed", "freed"}, x.sock[r] = "queued" <=> s = "doomed",
             x.sock[r] # "connected", y = SockSet(x, r, s)
      PROVE  Sound(y, r) /\ AllFull(y) /\ Frees(x, y, r)
  <2>1. SetFrom(x, y, r, s)
    <3>1. s \in SocketStates
      BY <1>2 DEF SocketStates
    <3> QED
      BY <1>1, <1>2, <3>1, SockSetFields
  <2>2. Shifts(x, y, r) /\ y.active_connections = x.active_connections
    BY <1>2, <2>1 DEF SetFrom, Shifts, SameOthers
  <2>3. Counted(y)
    <3>1. \A c \in Reqs \ {r} : y.sock[c] = x.sock[c]
      BY <2>2 DEF Shifts
    <3>2. y.sock[r] # "connected" /\ Counted(x)
      BY <2>2 DEF Shifts, Sound
    <3> QED
      BY <1>2, <2>2, <3>1, <3>2, SameCounts
  <2>4. y.queue = x.queue
    BY <2>2 DEF Shifts
  <2> QED
    BY <2>2, <2>3, <2>4, ShiftSound, SameFull
<1>3. CASE x.sock[r] = "queued"
  <2>1. y = SockSet(x, r, "doomed")
    BY <1>3 DEF Http_socket_free, SockSet
  <2> QED
    BY <1>2, <1>3, <2>1
<1>4. CASE x.sock[r] \in {"resolving", "dropped"}
  <2>1. y = SockSet(x, r, "freed")
    BY <1>4 DEF Http_socket_free, SockSet
  <2> QED
    BY <1>2, <1>4, <2>1
<1>5. CASE x.sock[r] = "connected"
  <2>1. PICK z : z = Disconnected(x, r)
    OBVIOUS
  <2>2. y = Http_connect_queued_sockets(z, HostOf[r])
    BY <1>5, <2>1 DEF Http_socket_free, Disconnected
  <2>3. /\ Shifts(x, z, r) /\ Counted(z)
        /\ \A g \in Hosts \ {HostOf[r]} : z.active_connections[g] = x.active_connections[g]
    BY <1>5, <2>1, DisconnectedFields
  <2>4. Sound(z, r) /\ Frees(x, z, r)
    BY <2>3, ShiftSound
  <2>5. Settled(z, r)
    BY <1>5, <2>3 DEF Settled, Shifts
  <2>6. \A g \in Hosts \ {HostOf[r]} : Full(z, g)
    BY <2>3 DEF AllFull, Full, Shifts
  <2>7. Sound(y, r) /\ Keeps(z, y, r) /\ AllFull(y)
    BY <2>2, <2>4, <2>5, <2>6, OfRequest, QueueServed
  <2>8. Since(z, y) /\ y.aborted = z.aborted /\ y.Ref[r] = z.Ref[r] /\ y.rio[r] = z.rio[r]
        /\ (r \in y.send <=> r \in z.send) /\ (r \in y.recv <=> r \in z.recv)
        /\ y.sock[r] = z.sock[r]
    BY <2>7 DEF Keeps, Since
  <2>9. Frees(x, y, r)
    BY <2>4, <2>8, SinceChain DEF Frees
  <2> QED
    BY <2>7, <2>9
<1> QED
  BY <1>3, <1>4, <1>5 DEF Live

----------------------------------------------------------------------------
(* The query branch is taken down                                          *)

\* The state is no less sound if r may be on its way out.
LEMMA SoundWeaker ==
  ASSUME NEW x, Sound(x, None), NEW r
  PROVE  Sound(x, r)
<1>1. None \notin Reqs
  BY HttpAssumption
<1>2. EntriesOK(x, r)
  BY <1>1 DEF Sound, EntriesOK
<1>3. \A c \in Reqs \ {r} : Regular(x, c)
  BY <1>1 DEF Sound
<1> QED
  BY <1>2, <1>3 DEF Sound

\* The sockets, the queues and the counts are the same.
SameSocks(x, y) == /\ y.sock = x.sock /\ y.queue = x.queue
                   /\ y.active_connections = x.active_connections

LEMMA SameSocksKeep ==
  ASSUME NEW x, NEW y, SameSocks(x, y)
  PROVE  /\ QueuesOK(x) => QueuesOK(y)
         /\ Counted(x) => Counted(y)
         /\ AllFull(x) => AllFull(y)
<1>1. QueuesOK(x) => QueuesOK(y)
  BY DEF SameSocks, QueuesOK
<1>2. Counted(x) => Counted(y)
  <2>1. \A h \in Hosts : Conns(y, h) = Conns(x, h)
    BY DEF SameSocks, Conns
  <2> QED
    BY <2>1 DEF SameSocks, Counted
<1>3. AllFull(x) => AllFull(y)
  BY DEF SameSocks, AllFull, Full
<1> QED
  BY <1>1, <1>2, <1>3

\* What ends of r changes, and nothing of the others.
SameElse(x, y, r) ==
  /\ y.started = x.started /\ y.asked = x.asked
  /\ \A c \in Reqs \ {r} : /\ c \in y.send <=> c \in x.send
                           /\ c \in y.recv <=> c \in x.recv
                           /\ y.Ref[c] = x.Ref[c]
                           /\ y.rio[c] = x.rio[c] /\ y.wio[c] = x.wio[c]

LEMMA OthersRegular ==
  ASSUME NEW x, NEW r, Sound(x, r), NEW y, SameElse(x, y, r), SameSocks(x, y)
  PROVE  \A c \in Reqs \ {r} : Regular(y, c)
<1>1. SUFFICES ASSUME NEW c \in Reqs \ {r} PROVE Regular(y, c)
  OBVIOUS
<1>2. Regular(x, c)
  BY DEF Sound
<1> QED
  BY <1>2 DEF Regular, IOsFit, SameElse, SameSocks

\* A descriptor that is closed, for the writing IO of an aborted request.
LEMMA ShutFiles ==
  ASSUME NEW x, x \in StateType, FilesOK(x), NEW fd, NEW y, y.rio = x.rio,
         y.open = Shut(x.open, fd), y.rwatch = Shut(x.rwatch, fd),
         y.failed = x.failed, fd # -1 => y.aborted # {},
         fd = -1 => y.aborted = x.aborted
  PROVE  FilesOK(y)
<1>1. CASE fd = -1
  <2>1. y.open = x.open /\ y.rwatch = x.rwatch
    BY <1>1, ShutNothing
  <2> QED
    BY <1>1, <2>1 DEF FilesOK
<1>2. CASE fd # -1
  <2>1. \A f \in FDs : /\ y.open[f] # None => y.open[f] = x.open[f]
                       /\ y.rwatch[f] # None => y.rwatch[f] = x.rwatch[f]
    BY DEF Shut
  <2>2. \A f \in FDs : /\ y.open[f] # None => y.rio[y.open[f]] = Submitted(f)
                       /\ y.rwatch[f] # None => y.rio[y.rwatch[f]] = Submitted(f)
    BY <2>1 DEF FilesOK
  <2>3. \A r \in Reqs : y.rio[r].st = "submitted" => y.rio[r].fd \in FDs
    BY DEF FilesOK
  <2> QED
    BY <1>2, <2>2, <2>3 DEF FilesOK
<1> QED
  BY <1>1, <1>2

\* The reading IO of a request closes its own descriptor, or one that may be
\* anybody's once something was aborted.
LEMMA StopFiles ==
  ASSUME NEW x, x \in StateType, FilesOK(x), NEW r \in Reqs, NEW y,
         x.rio[r].st = "submitted" \/ x.rio[r].fd = -1,
         y.rio = FreedAt(x.rio, r),
         y.open = Shut(x.open, x.rio[r].fd), y.rwatch = Shut(x.rwatch, x.rio[r].fd),
         y.failed = x.failed, y.aborted = x.aborted
  PROVE  FilesOK(y)
<1>1. PICK fd : fd = x.rio[r].fd
  OBVIOUS
<1>2. y.rio[r].st = "freed" /\ \A c \in Reqs \ {r} : y.rio[c] = x.rio[c]
  <2>1. x.rio \in [Reqs -> IOType]
    BY DEF StateType, IOType
  <2> QED
    BY <2>1, FreedType
<1>3. \A f \in FDs \ {fd} : y.open[f] = x.open[f] /\ y.rwatch[f] = x.rwatch[f]
  BY <1>1 DEF Shut
<1>4. \A f \in FDs : f = fd => y.open[f] = None /\ y.rwatch[f] = None
  BY <1>1 DEF Shut
<1>5. \A f \in FDs : x.open[f] \in Reqs \cup {None} /\ x.rwatch[f] \in Reqs \cup {None}
  BY DEF StateType
<1>6. ASSUME NEW c \in Reqs, NEW f \in FDs \ {fd}, x.rio[c] = Submitted(f)
      PROVE  y.rio[c] = Submitted(f)
  <2>1. c # r
    BY <1>1, <1>6 DEF Submitted
  <2> QED
    BY <1>2, <1>6, <2>1
<1>7. ASSUME NEW f \in FDs
      PROVE  /\ y.open[f] # None => y.rio[y.open[f]] = Submitted(f)
             /\ y.rwatch[f] # None => y.rio[y.rwatch[f]] = Submitted(f)
  <2>1. CASE f = fd
    BY <1>4, <2>1
  <2>2. CASE f # fd
    BY <1>3, <1>5, <1>6, <2>2 DEF FilesOK
  <2> QED
    BY <2>1, <2>2
<1>8. ASSUME NEW c \in Reqs, y.rio[c].st = "submitted"
      PROVE  /\ c # r /\ y.rio[c] = x.rio[c] /\ x.rio[c].st = "submitted"
             /\ y.rio[c].fd \in FDs
  BY <1>2, <1>8 DEF FilesOK
<1>9. ASSUME y.aborted = {}, NEW c \in Reqs, y.rio[c].st = "submitted"
      PROVE  /\ y.open[y.rio[c].fd] = c
             /\ y.failed = {} => y.rwatch[y.rio[c].fd] = c
  <2>1. c # r /\ y.rio[c] = x.rio[c] /\ x.rio[c].st = "submitted" /\ y.rio[c].fd \in FDs
    BY <1>8, <1>9
  <2>2. /\ x.open[x.rio[c].fd] = c
        /\ x.failed = {} => x.rwatch[x.rio[c].fd] = c
    BY <1>9, <2>1 DEF FilesOK
  <2>3. x.rio[c].fd # fd
    <3>1. CASE x.rio[r].st = "submitted"
      <4>1. x.open[fd] = r
        BY <1>1, <1>9, <3>1 DEF FilesOK
      <4> QED
        BY <2>1, <2>2, <4>1
    <3>2. CASE fd = -1
      BY <2>1, <3>2, NoNumber
    <3> QED
      BY <1>1, <3>1, <3>2
  <2> QED
    BY <1>3, <2>1, <2>2, <2>3
<1> QED
  BY <1>7, <1>8, <1>9 DEF FilesOK

\* The writing IO and the query branch of r are taken down.
Released(x, z, r) ==
  /\ z \in StateType /\ SameElse(x, z, r) /\ SameSocks(x, z)
  /\ z.send = x.send \ {r} /\ z.recv = x.recv /\ z.Ref = x.Ref /\ z.rio = x.rio
  /\ z.clients = x.clients /\ z.entry = x.entry /\ z.done = x.done

LEMMA ReleaseSound ==
  ASSUME NEW x, NEW r \in Reqs, Sound(x, r), AllFull(x),
         NEW z, Released(x, z, r), FilesOK(z)
  PROVE  Sound(z, r) /\ AllFull(z) /\ Since(x, z)
<1>1. SameSocks(x, z) /\ SameElse(x, z, r) /\ z \in StateType
  BY DEF Released
<1>2. QueuesOK(z) /\ Counted(z) /\ AllFull(z)
  BY <1>1, SameSocksKeep DEF Sound
<1>3. \A c \in Reqs \ {r} : Regular(z, c)
  BY <1>1, OthersRegular
<1>4. OneConn(z) /\ EntriesOK(z, r)
  BY DEF Sound, Released, OneConn, EntriesOK, BooksOK
<1>5. Since(x, z)
  BY DEF Since, Released, SameElse, SameSocks
<1> QED
  BY <1>1, <1>2, <1>3, <1>4, <1>5 DEF Sound

\* The branch that ends leaves the conn to the other one, if there is one.
Unrefs(x, y, r) ==
  /\ y \in StateType /\ Files(y) = Files(x) /\ Books(y) = Books(x) /\ SameSocks(x, y)
  /\ SameElse(x, y, r) /\ y.failed = x.failed
  /\ y.send = x.send /\ y.recv = x.recv /\ y.Ref[r] = x.Ref[r] - 1

LEMMA UnrefFields ==
  ASSUME NEW x, x \in StateType, NEW r \in Reqs, x.Ref[r] # 0,
         NEW y, y = Capi_conn_unref(x, r)
  PROVE  Unrefs(x, y, r)
<1>1. PICK f : f = [x.Ref EXCEPT ![r] = x.Ref[r] - 1]
  OBVIOUS
<1>2. /\ f \in [Reqs -> 0 .. 2] /\ f[r] = x.Ref[r] - 1
      /\ \A c \in Reqs \ {r} : f[c] = x.Ref[c]
  <2>1. x.Ref \in [Reqs -> 0 .. 2]
    BY DEF StateType
  <2> QED
    BY <1>1, <2>1
<1>3. y = [x EXCEPT !.Ref = f]
  BY <1>1 DEF Capi_conn_unref
<1>4. y \in StateType /\ y.Ref = f
  BY <1>2, <1>3 DEF StateType
<1>5. /\ Files(y) = Files(x) /\ Books(y) = Books(x) /\ SameSocks(x, y)
      /\ y.send = x.send /\ y.recv = x.recv
      /\ y.started = x.started /\ y.asked = x.asked /\ y.failed = x.failed
      /\ y.rio = x.rio /\ y.wio = x.wio
  BY <1>3 DEF StateType, Files, Books, SameSocks
<1>6. SameElse(x, y, r)
  BY <1>2, <1>4, <1>5 DEF SameElse
<1> QED
  BY <1>2, <1>4, <1>5, <1>6 DEF Unrefs

LEMMA UnrefSound ==
  ASSUME NEW x, NEW r \in Reqs, Sound(x, r), AllFull(x), x.Ref[r] # 0,
         NEW y, Unrefs(x, y, r)
  PROVE  Sound(y, r) /\ AllFull(y) /\ Since(x, y)
<1>1. SameSocks(x, y) /\ SameElse(x, y, r) /\ y \in StateType /\ x \in StateType
  BY DEF Unrefs, Sound
<1>2. QueuesOK(y) /\ Counted(y) /\ AllFull(y)
  BY <1>1, SameSocksKeep DEF Sound
<1>3. \A c \in Reqs \ {r} : Regular(y, c)
  BY <1>1, OthersRegular
<1>4. FilesOK(y)
  BY DEF Sound, Unrefs, Files, FilesOK
<1>5. EntriesOK(y, r)
  BY DEF Sound, Unrefs, Books, EntriesOK, BooksOK
<1>6. \A c \in Reqs : y.Ref[c] > 0 => x.Ref[c] > 0
  <2>1. x.Ref[r] \in 0 .. 2
    BY <1>1 DEF StateType
  <2>2. x.Ref[r] > 0
    BY <2>1
  <2>3. \A c \in Reqs \ {r} : y.Ref[c] = x.Ref[c]
    BY <1>1 DEF SameElse
  <2> QED
    BY <2>2, <2>3
<1>7. OneConn(y)
  BY <1>6 DEF Sound, OneConn
<1>8. Since(x, y)
  BY <1>6 DEF Since, Unrefs, SameElse, SameSocks, Books
<1> QED
  BY <1>1, <1>2, <1>3, <1>4, <1>5, <1>7, <1>8 DEF Sound

\* The query branch of r is out: its socket is free or doomed, one reference less.
Out(x, y, r) ==
  /\ Sound(y, r) /\ AllFull(y) /\ Since(x, y)
  /\ r \notin y.send /\ (r \in y.recv <=> r \in x.recv)
  /\ y.Ref[r] = x.Ref[r] - 1 /\ y.rio[r] = x.rio[r]
  /\ y.sock[r] \in {"doomed", "freed"}

\* From the writing IO on: http frees the socket, and capi lets go of the conn.
LEMMA ReleasedOut ==
  ASSUME NEW x, NEW r \in Reqs, Sound(x, r), AllFull(x), x.Ref[r] # 0,
         x.sock[r] \in Live, NEW z, Released(x, z, r), FilesOK(z),
         NEW y, y = Capi_conn_unref(Http_socket_free(z, r), r)
  PROVE  Out(x, y, r) /\ y.aborted = z.aborted
<1>1. Sound(z, r) /\ AllFull(z) /\ Since(x, z)
  BY ReleaseSound
<1>2. /\ z.sock[r] = x.sock[r] /\ z.Ref[r] = x.Ref[r] /\ z.rio[r] = x.rio[r]
      /\ r \notin z.send /\ (r \in z.recv <=> r \in x.recv)
  BY DEF Released, SameSocks
<1>3. PICK s : s = Http_socket_free(z, r)
  OBVIOUS
<1>4. Sound(s, r) /\ AllFull(s) /\ Frees(z, s, r)
  BY <1>1, <1>2, <1>3, SocketFree
<1>5. /\ Since(z, s) /\ s.aborted = z.aborted
      /\ s.Ref[r] = z.Ref[r] /\ s.rio[r] = z.rio[r]
      /\ r \in s.send <=> r \in z.send
      /\ r \in s.recv <=> r \in z.recv
      /\ s.sock[r] \in {"doomed", "freed"}
  BY <1>4 DEF Frees
<1>6. Unrefs(s, y, r)
  <2>1. s \in StateType /\ s.Ref[r] # 0 /\ y = Capi_conn_unref(s, r)
    BY <1>2, <1>3, <1>4, <1>5 DEF Sound
  <2> QED
    BY <2>1, UnrefFields
<1>7. Sound(y, r) /\ AllFull(y) /\ Since(s, y)
  <2>1. s.Ref[r] # 0
    BY <1>2, <1>5
  <2> QED
    BY <1>4, <1>6, <2>1, UnrefSound
<1>8. Since(x, y)
  BY <1>1, <1>5, <1>7, SinceChain
<1>9. /\ y.send = s.send /\ y.recv = s.recv /\ y.Ref[r] = s.Ref[r] - 1
      /\ y.rio = s.rio /\ y.sock = s.sock /\ y.aborted = s.aborted
  BY <1>6 DEF Unrefs, Files, SameSocks
<1> QED
  BY <1>2, <1>5, <1>7, <1>8, <1>9 DEF Out

\* Without the query branch, before its IO hears of it.
Unsent(x, r) == [x EXCEPT !.send = @ \ {r}]

LEMMA UnsentFields ==
  ASSUME NEW x, x \in StateType, NEW r, NEW a, a = Unsent(x, r)
  PROVE  /\ a \in StateType /\ a.send = x.send \ {r} /\ Files(a) = Files(x)
         /\ Books(a) = Books(x) /\ SameSocks(x, a)
         /\ a.recv = x.recv /\ a.Ref = x.Ref
         /\ a.started = x.started /\ a.asked = x.asked /\ a.failed = x.failed
<1>1. x.send \ {r} \in SUBSET Reqs
  BY DEF StateType
<1>2. a \in StateType
  BY <1>1 DEF Unsent, StateType
<1> QED
  BY <1>2 DEF Unsent, StateType, Files, Books, SameSocks

LEMMA FreedRelease ==
  ASSUME NEW x, x \in StateType, NEW r \in Reqs, NEW a, a = Unsent(x, r),
         NEW z, z \in StateType, Chains(z) = Chains(a), Books(z) = Books(a),
         z.wio = FreedAt(a.wio, r), z.rio = a.rio
  PROVE  Released(x, z, r) /\ z.failed = x.failed
<1>1. /\ a \in StateType /\ a.send = x.send \ {r} /\ Files(a) = Files(x)
      /\ Books(a) = Books(x) /\ SameSocks(x, a)
      /\ a.recv = x.recv /\ a.Ref = x.Ref
      /\ a.started = x.started /\ a.asked = x.asked /\ a.failed = x.failed
  BY UnsentFields
<1>2. \A c \in Reqs \ {r} : z.wio[c] = x.wio[c]
  <2>1. a.wio \in [Reqs -> IOType] /\ a.wio = x.wio
    BY <1>1 DEF StateType, IOType, Files
  <2> QED
    BY <2>1, FreedType
<1>3. /\ z.send = x.send \ {r} /\ z.recv = x.recv /\ z.Ref = x.Ref /\ z.rio = x.rio
      /\ z.clients = x.clients /\ z.entry = x.entry /\ z.done = x.done
      /\ SameSocks(x, z) /\ z.started = x.started /\ z.asked = x.asked
      /\ z.failed = x.failed
  BY <1>1 DEF Chains, Books, Files, SameSocks
<1>4. SameElse(x, z, r)
  BY <1>2, <1>3 DEF SameElse
<1> QED
  BY <1>3, <1>4 DEF Released

\* OpAbort on the query branch.
LEMMA AbortQueryOut ==
  ASSUME NEW x, NEW r \in Reqs, Sound(x, r), AllFull(x), x.Ref[r] # 0,
         x.sock[r] \in Live, IOsFit(x, r), NEW y, y = AbortQuery(x, r)
  PROVE  Out(x, y, r) /\ (x.sock[r] = "connected" => y.aborted # {})
<1>1. x \in StateType
  BY DEF Sound
<1>2. PICK a : a = Unsent(x, r)
  OBVIOUS
<1>3. a \in StateType /\ Files(a) = Files(x) /\ a.failed = x.failed
  BY <1>1, <1>2, UnsentFields
<1>4. PICK z : z = IO_abort_write(a, r)
  OBVIOUS
<1>5. y = Capi_conn_unref(Http_socket_free(z, r), r)
  BY <1>2, <1>4 DEF AbortQuery, Unsent
<1>6. /\ z \in StateType
      /\ z.open = Shut(a.open, a.wio[r].fd) /\ z.rwatch = Shut(a.rwatch, a.wio[r].fd)
      /\ Chains(z) = Chains(a) /\ Books(z) = Books(a)
      /\ z.wio = FreedAt(a.wio, r) /\ z.rio = a.rio
      /\ a.wio[r].fd = -1 => z.aborted = a.aborted
      /\ a.wio[r].fd # -1 => z.aborted = a.aborted \cup {r}
  BY <1>3, <1>4, AbortWriteFields
<1>7. Released(x, z, r) /\ z.failed = x.failed
  BY <1>1, <1>2, <1>6, FreedRelease
<1>8. FilesOK(z)
  <2>1. /\ z.open = Shut(x.open, x.wio[r].fd) /\ z.rwatch = Shut(x.rwatch, x.wio[r].fd)
        /\ z.rio = x.rio
        /\ x.wio[r].fd = -1 => z.aborted = x.aborted
        /\ x.wio[r].fd # -1 => z.aborted # {}
    BY <1>3, <1>6 DEF Files
  <2>2. FilesOK(x)
    BY DEF Sound
  <2>3. PICK fd : fd = x.wio[r].fd
    OBVIOUS
  <2> QED
    BY <1>1, <1>7, <2>1, <2>2, <2>3, ShutFiles
<1>9. x.sock[r] = "connected" => z.aborted # {}
  <2>1. ASSUME x.sock[r] = "connected" PROVE x.wio[r].fd # -1
    BY <2>1, NoNumber DEF IOsFit
  <2> QED
    BY <1>3, <1>6, <2>1 DEF Files
<1> QED
  BY <1>5, <1>7, <1>8, <1>9, ReleasedOut

\* OpEnd on the query branch.
LEMMA EndQueryOut ==
  ASSUME NEW x, NEW r \in Reqs, Sound(x, r), AllFull(x), x.Ref[r] # 0,
         x.sock[r] \in Live, NEW y, y = EndQuery(x, r)
  PROVE  Out(x, y, r)
<1>1. x \in StateType
  BY DEF Sound
<1>2. PICK a : a = Unsent(x, r)
  OBVIOUS
<1>3. a \in StateType /\ Files(a) = Files(x) /\ a.failed = x.failed
  BY <1>1, <1>2, UnsentFields
<1>4. PICK z : z = IO_end_write(a, r)
  OBVIOUS
<1>5. y = Capi_conn_unref(Http_socket_free(z, r), r)
  BY <1>2, <1>4 DEF EndQuery, Unsent
<1>6. /\ z \in StateType /\ z.open = a.open /\ z.rwatch = a.rwatch
      /\ Chains(z) = Chains(a) /\ Books(z) = Books(a)
      /\ z.wio = FreedAt(a.wio, r) /\ z.rio = a.rio /\ z.aborted = a.aborted
  BY <1>3, <1>4, EndWriteFields
<1>7. Released(x, z, r) /\ z.failed = x.failed
  BY <1>1, <1>2, <1>6, FreedRelease
<1>8. FilesOK(z)
  <2>1. /\ z.open = x.open /\ z.rwatch = x.rwatch /\ z.rio = x.rio
        /\ z.aborted = x.aborted
    BY <1>3, <1>6 DEF Files
  <2> QED
    BY <1>7, <2>1 DEF Sound, FilesOK
<1> QED
  BY <1>5, <1>7, <1>8, ReleasedOut

----------------------------------------------------------------------------
(* A request ends                                                          *)

\* What is left of r when its last branch goes: nothing.
Ended(x, y, r) ==
  /\ y \in StateType /\ SameElse(x, y, r) /\ SameSocks(x, y)
  /\ r \notin y.send /\ r \notin y.recv /\ y.Ref[r] = 0 /\ y.rio[r].st = "freed"
  /\ BooksOK(y) /\ UrlOf[r] \notin y.entry \ y.done
  /\ y.entry \ y.done \subseteq x.entry \ x.done

LEMMA EndedSound ==
  ASSUME NEW x, NEW r \in Reqs, Sound(x, r), AllFull(x),
         x.sock[r] \in {"doomed", "freed"}, r \in x.started,
         NEW y, Ended(x, y, r), FilesOK(y)
  PROVE  Sound(y, None) /\ AllFull(y) /\ Since(x, y) /\ y.Ref[r] = 0
<1>1. SameSocks(x, y) /\ SameElse(x, y, r) /\ y \in StateType
  BY DEF Ended
<1>2. QueuesOK(y) /\ Counted(y) /\ AllFull(y)
  BY <1>1, SameSocksKeep DEF Sound
<1>3. \A c \in Reqs \ {r} : Regular(y, c)
  BY <1>1, OthersRegular
<1>4. Regular(y, r)
  BY DEF Ended, SameSocks, SameElse, Regular, IOsFit, Live
<1>5. \A c \in Reqs : y.Ref[c] > 0 => x.Ref[c] > 0
  <2>1. y.Ref[r] = 0 /\ \A c \in Reqs \ {r} : y.Ref[c] = x.Ref[c]
    BY DEF Ended, SameElse
  <2> QED
    BY <2>1
<1>6. OneConn(y)
  BY <1>5 DEF Sound, OneConn
<1>7. EntriesOK(y, None)
  <2>1. ASSUME NEW u \in y.entry \ y.done
        PROVE  \E c \in y.recv : UrlOf[c] = u
    <3>1. u \in x.entry \ x.done /\ u # UrlOf[r]
      BY DEF Ended
    <3>2. PICK c \in x.recv : UrlOf[c] = u
      BY <3>1 DEF Sound, EntriesOK
    <3>3. c \in Reqs \ {r}
      BY <3>1, <3>2 DEF Sound, StateType
    <3> QED
      BY <3>2, <3>3 DEF Ended, SameElse
  <2> QED
    BY <2>1 DEF EntriesOK, Ended
<1>8. Since(x, y)
  BY <1>5 DEF Since, Ended, SameElse, SameSocks
<1>9. \A c \in Reqs \ {None} : Regular(y, c)
  BY <1>3, <1>4
<1> QED
  BY <1>1, <1>2, <1>6, <1>7, <1>8, <1>9 DEF Sound, Ended

\* OpAbort on the answer branch, after the query branch.
LEMMA AbortAnswerEnds ==
  ASSUME NEW x, NEW r \in Reqs, Sound(x, r), AllFull(x),
         x.sock[r] \in {"doomed", "freed"}, r \in x.started, r \notin x.send,
         x.Ref[r] = 1, x.rio[r].st = "submitted" \/ x.rio[r].fd = -1,
         NEW y, y = AbortAnswer(x, r)
  PROVE  /\ Sound(y, None) /\ AllFull(y) /\ Since(x, y) /\ y.Ref[r] = 0
         /\ y.aborted = x.aborted
<1>1. x \in StateType /\ BooksOK(x) /\ x.Ref[r] # 0 /\ FilesOK(x)
  BY DEF Sound, EntriesOK
<1>2. /\ y \in StateType
      /\ y.started = x.started /\ y.send = x.send /\ y.recv = x.recv \ {r}
      /\ y.Ref = [x.Ref EXCEPT ![r] = x.Ref[r] - 1] /\ y.sock = x.sock
      /\ y.asked = x.asked /\ y.queue = x.queue
      /\ y.active_connections = x.active_connections /\ y.failed = x.failed
      /\ y.open = Shut(x.open, x.rio[r].fd) /\ y.rwatch = Shut(x.rwatch, x.rio[r].fd)
      /\ y.rio = FreedAt(x.rio, r) /\ y.wio = x.wio /\ y.aborted = x.aborted
      /\ y.entry = x.entry \ {UrlOf[r]} /\ y.done = x.done \ {UrlOf[r]}
      /\ y.clients = {c \in x.clients : UrlOf[c] # UrlOf[r]}
  BY <1>1, AbortAnswerFields
<1>3. FilesOK(y)
  <2>1. /\ y.rio = FreedAt(x.rio, r)
        /\ y.open = Shut(x.open, x.rio[r].fd) /\ y.rwatch = Shut(x.rwatch, x.rio[r].fd)
        /\ y.failed = x.failed /\ y.aborted = x.aborted
    BY <1>2
  <2> QED
    BY <1>1, <2>1, StopFiles
<1>4. y.Ref[r] = 0 /\ \A c \in Reqs \ {r} : y.Ref[c] = x.Ref[c]
  <2>1. x.Ref \in [Reqs -> 0 .. 2] /\ y.Ref = [x.Ref EXCEPT ![r] = x.Ref[r] - 1]
    BY <1>1, <1>2 DEF StateType
  <2> QED
    BY <2>1
<1>5. y.rio[r].st = "freed" /\ \A c \in Reqs \ {r} : y.rio[c] = x.rio[c]
  <2>1. x.rio \in [Reqs -> IOType] /\ y.rio = FreedAt(x.rio, r)
    BY <1>1, <1>2 DEF StateType, IOType
  <2> QED
    BY <2>1, FreedType
<1>6. SameSocks(x, y) /\ y.aborted = x.aborted /\ y \in StateType
  BY <1>2 DEF SameSocks
<1>7. SameElse(x, y, r)
  <2>1. /\ y.started = x.started /\ y.asked = x.asked /\ y.send = x.send
        /\ y.recv = x.recv \ {r} /\ y.wio = x.wio
    BY <1>2
  <2> QED
    BY <1>4, <1>5, <2>1 DEF SameElse
<1>8. /\ BooksOK(y) /\ UrlOf[r] \notin y.entry \ y.done
      /\ y.entry \ y.done \subseteq x.entry \ x.done
  <2>1. /\ y.entry = x.entry \ {UrlOf[r]} /\ y.done = x.done \ {UrlOf[r]}
        /\ y.clients = {c \in x.clients : UrlOf[c] # UrlOf[r]}
    BY <1>2
  <2> QED
    BY <1>1, <2>1 DEF BooksOK
<1>9. r \notin y.send /\ r \notin y.recv
  BY <1>2
<1>10. Ended(x, y, r)
  BY <1>4, <1>5, <1>6, <1>7, <1>8, <1>9 DEF Ended
<1> QED
  BY <1>3, <1>6, <1>10, EndedSound

\* Who is among a URL's conns is the only one, and has all that belongs to one.
LEMMA OnlyConn ==
  ASSUME NEW x, Sound(x, None), NEW r \in Reqs, x.Ref[r] > 0
  PROVE  /\ r \in x.send /\ r \in x.recv /\ x.Ref[r] = 2 /\ x.sock[r] \in Live
         /\ IOsFit(x, r) /\ r \in x.started
         /\ x.rio[r].st = "submitted" \/ x.rio[r].fd = -1
<1>1. Regular(x, r)
  BY HttpAssumption DEF Sound
<1>2. r \in x.recv /\ x.Ref[r] = 2
  <2>1. r \notin x.recv => x.Ref[r] = 0
    BY <1>1 DEF Regular
  <2>2. r \in x.recv => x.Ref[r] = 2
    BY <1>1 DEF Regular
  <2> QED
    BY <2>1, <2>2
<1>3. r \in x.send /\ x.sock[r] \in Live /\ IOsFit(x, r) /\ r \in x.started
  BY <1>1, <1>2 DEF Regular, Live
<1>4. x.rio[r].st = "submitted" \/ x.rio[r].fd = -1
  BY <1>3 DEF IOsFit
<1> QED
  BY <1>2, <1>3, <1>4

\* a_Capi_conn_abort_by_url leaves no conn of the URL.
LEMMA AbortByUrl ==
  ASSUME NEW x, Sound(x, None), AllFull(x), NEW u,
         NEW y, y = a_Capi_conn_abort_by_url(x, u)
  PROVE  /\ Sound(y, None) /\ AllFull(y) /\ Since(x, y)
         /\ \A r \in Reqs : UrlOf[r] = u => ~(y.Ref[r] > 0)
         /\ \A r \in Reqs : UrlOf[r] = u /\ x.sock[r] = "connected" => y.aborted # {}
<1> DEFINE found == {r \in Reqs : x.Ref[r] > 0 /\ UrlOf[r] = u}
<1>1. ASSUME NEW r \in Reqs, UrlOf[r] = u, x.sock[r] = "connected"
      PROVE  r \in found
  <2>1. Regular(x, r)
    BY HttpAssumption DEF Sound
  <2>2. x.Ref[r] = 2
    BY <1>1, <2>1 DEF Regular, Live
  <2> QED
    BY <1>1, <2>2
<1>2. CASE found = {}
  <2>1. y = x
    BY <1>2 DEF a_Capi_conn_abort_by_url
  <2> QED
    BY <1>1, <1>2, <2>1, SinceChain
<1>3. CASE found # {}
  <2>1. PICK r : r = CHOOSE c \in found : TRUE
    OBVIOUS
  <2>2. r \in Reqs /\ x.Ref[r] > 0 /\ UrlOf[r] = u
    BY <1>3, <2>1
  <2>3. PICK q : q = IF r \in x.send THEN AbortQuery(x, r) ELSE x
    OBVIOUS
  <2>4. y = IF r \in q.recv THEN AbortAnswer(q, r) ELSE q
    BY <1>3, <2>1, <2>3 DEF a_Capi_conn_abort_by_url
  <2>5. /\ r \in x.send /\ r \in x.recv /\ x.Ref[r] = 2 /\ x.sock[r] \in Live
        /\ IOsFit(x, r) /\ r \in x.started
        /\ x.rio[r].st = "submitted" \/ x.rio[r].fd = -1
    BY <2>2, OnlyConn
  <2>6. Sound(x, r) /\ x.Ref[r] # 0 /\ q = AbortQuery(x, r)
    BY <2>3, <2>5, SoundWeaker
  <2>7. Out(x, q, r) /\ (x.sock[r] = "connected" => q.aborted # {})
    BY <2>2, <2>5, <2>6, AbortQueryOut
  <2>8. /\ Sound(q, r) /\ AllFull(q) /\ Since(x, q) /\ q.sock[r] \in {"doomed", "freed"}
        /\ r \notin q.send /\ r \in q.recv /\ q.Ref[r] = 1 /\ q.rio[r] = x.rio[r]
    BY <2>5, <2>7 DEF Out
  <2>9. r \in q.started /\ (q.rio[r].st = "submitted" \/ q.rio[r].fd = -1)
    BY <2>5, <2>8 DEF Since
  <2>10. y = AbortAnswer(q, r)
    BY <2>4, <2>8
  <2>11. /\ Sound(y, None) /\ AllFull(y) /\ Since(q, y) /\ y.Ref[r] = 0
         /\ y.aborted = q.aborted
    BY <2>2, <2>8, <2>9, <2>10, AbortAnswerEnds
  <2>12. Since(x, y)
    BY <2>8, <2>11, SinceChain
  <2>13. \A c \in found : c = r
    BY <2>2 DEF Sound, OneConn
  <2>14. ASSUME NEW c \in Reqs, UrlOf[c] = u
         PROVE  ~(y.Ref[c] > 0)
    <3>1. CASE c = r
      BY <2>11, <3>1
    <3>2. CASE c # r
      <4>1. ~(x.Ref[c] > 0)
        BY <2>13, <2>14, <3>2
      <4> QED
        BY <2>12, <4>1 DEF Since
    <3> QED
      BY <3>1, <3>2
  <2>15. ASSUME NEW c \in Reqs, UrlOf[c] = u, x.sock[c] = "connected"
         PROVE  y.aborted # {}
    <3>1. c = r
      BY <1>1, <2>13, <2>15
    <3> QED
      BY <2>7, <2>11, <2>15, <3>1
  <2> QED
    BY <2>11, <2>12, <2>14, <2>15
<1> QED
  BY <1>2, <1>3

\* The files, the chains and the sockets stay, and no entry gains a fetch.
BooksChange(x, y) ==
  /\ y \in StateType /\ Files(y) = Files(x) /\ Chains(y) = Chains(x)
  /\ BooksOK(y) /\ y.entry \ y.done \subseteq x.entry \ x.done

LEMMA BooksSound ==
  ASSUME NEW x, NEW d, Sound(x, d), NEW y, BooksChange(x, y)
  PROVE  Sound(y, d) /\ Since(x, y) /\ SameSocks(x, y) /\ (AllFull(x) => AllFull(y))
<1>1. /\ SameSocks(x, y) /\ SameElse(x, y, None)
      /\ y.send = x.send /\ y.recv = x.recv /\ y.Ref = x.Ref /\ y.failed = x.failed
  BY DEF BooksChange, Chains, Files, SameSocks, SameElse
<1>2. QueuesOK(y) /\ Counted(y) /\ (AllFull(x) => AllFull(y))
  BY <1>1, SameSocksKeep DEF Sound
<1>3. FilesOK(y)
  BY <1>1 DEF Sound, BooksChange, Files, FilesOK
<1>4. OneConn(y)
  BY <1>1 DEF Sound, OneConn
<1>5. EntriesOK(y, d)
  <2>1. BooksOK(y) /\ y.entry \ y.done \subseteq x.entry \ x.done
    BY DEF BooksChange
  <2> QED
    BY <1>1, <2>1 DEF Sound, EntriesOK
<1>6. \A c \in Reqs \ {d} : Regular(y, c)
  <2>1. SUFFICES ASSUME NEW c \in Reqs \ {d} PROVE Regular(y, c)
    OBVIOUS
  <2>2. Regular(x, c)
    BY DEF Sound
  <2>3. /\ y.send = x.send /\ y.recv = x.recv /\ y.Ref = x.Ref /\ y.sock = x.sock
        /\ y.rio = x.rio /\ y.wio = x.wio /\ y.started = x.started
    BY DEF BooksChange, Chains, Files
  <2> QED
    BY <2>2, <2>3 DEF Regular, IOsFit
<1>7. Since(x, y)
  BY <1>1 DEF Since, BooksChange, Chains
<1> QED
  BY <1>1, <1>2, <1>3, <1>4, <1>5, <1>6, <1>7 DEF Sound, BooksChange

LEMMA EntryRemoveChange ==
  ASSUME NEW x, NEW d, Sound(x, d), NEW u, NEW y, y = Cache_entry_remove(x, u)
  PROVE  BooksChange(x, y) /\ y.entry = x.entry \ {u} /\ y.done = x.done \ {u}
<1>1. x \in StateType /\ BooksOK(x)
  BY DEF Sound, EntriesOK
<1>2. /\ y \in StateType /\ Files(y) = Files(x) /\ Chains(y) = Chains(x)
      /\ y.entry = x.entry \ {u} /\ y.done = x.done \ {u}
      /\ y.clients = {c \in x.clients : UrlOf[c] # u}
  BY <1>1, EntryRemoveFields
<1>3. BooksOK(y) /\ y.entry \ y.done \subseteq x.entry \ x.done
  BY <1>1, <1>2 DEF BooksOK
<1> QED
  BY <1>2, <1>3 DEF BooksChange

----------------------------------------------------------------------------
(* The resolver answers                                                    *)

LEMMA AppendOf ==
  ASSUME NEW S, NEW s \in Seq(S), NEW e \in S
  PROVE  /\ Len(s) \in Nat /\ Append(s, e) \in Seq(S)
         /\ Len(Append(s, e)) = Len(s) + 1 /\ Len(s) + 1 \in 1 .. Len(Append(s, e))
         /\ Append(s, e)[Len(s) + 1] = e
         /\ \A i \in 1 .. Len(s) : /\ Append(s, e)[i] = s[i] /\ s[i] \in S
                                   /\ i \in 1 .. Len(Append(s, e))
         /\ \A i \in 1 .. Len(Append(s, e)) : i \in 1 .. Len(s) \/ i = Len(s) + 1
<1>1. Len(s) \in Nat /\ Append(s, e) \in Seq(S) /\ Len(Append(s, e)) = Len(s) + 1
  OBVIOUS
<1>2. Append(s, e)[Len(s) + 1] = e /\ \A i \in 1 .. Len(s) : Append(s, e)[i] = s[i]
  OBVIOUS
<1>3. \A i \in 1 .. Len(s) : s[i] \in S
  OBVIOUS
<1>4. \A i \in 1 .. Len(s) + 1 : i \in 1 .. Len(s) \/ i = Len(s) + 1
  BY <1>1
<1>5. Len(s) + 1 \in 1 .. Len(s) + 1 /\ \A i \in 1 .. Len(s) : i \in 1 .. Len(s) + 1
  BY <1>1
<1> QED
  BY <1>1, <1>2, <1>3, <1>4, <1>5

\* The socket waits in the queue of its host.
Waits(x, y, r) ==
  /\ y \in StateType /\ SameOthers(x, y)
  /\ y.sock[r] = "queued" /\ \A c \in Reqs \ {r} : y.sock[c] = x.sock[c]
  /\ y.queue[HostOf[r]] = Append(x.queue[HostOf[r]], r)
  /\ \A g \in Hosts \ {HostOf[r]} : y.queue[g] = x.queue[g]

Enqueued(x, r) ==
  [x EXCEPT !.sock = [x.sock EXCEPT ![r] = "queued"],
            !.queue = [x.queue EXCEPT ![HostOf[r]] = Append(x.queue[HostOf[r]], r)]]

LEMMA EnqueuedFields ==
  ASSUME NEW x, x \in StateType, NEW r \in Reqs
  PROVE  Waits(x, Enqueued(x, r), r)
<1>1. PICK s, q : /\ s = [x.sock EXCEPT ![r] = "queued"]
                  /\ q = [x.queue EXCEPT ![HostOf[r]] = Append(x.queue[HostOf[r]], r)]
  OBVIOUS
<1>2. PICK y : y = Enqueued(x, r)
  OBVIOUS
<1>3. y = [x EXCEPT !.sock = s, !.queue = q]
  BY <1>1, <1>2 DEF Enqueued
<1>4. /\ s \in [Reqs -> SocketStates] /\ s[r] = "queued"
      /\ \A c \in Reqs \ {r} : s[c] = x.sock[c]
  BY <1>1 DEF StateType, SocketStates
<1>5. /\ q \in [Hosts -> Seq(Reqs)] /\ q[HostOf[r]] = Append(x.queue[HostOf[r]], r)
      /\ \A g \in Hosts \ {HostOf[r]} : q[g] = x.queue[g]
  <2>1. x.queue \in [Hosts -> Seq(Reqs)] /\ HostOf[r] \in Hosts
    BY OfRequest DEF StateType
  <2>2. Append(x.queue[HostOf[r]], r) \in Seq(Reqs)
    BY <2>1, AppendOf
  <2> QED
    BY <1>1, <2>1, <2>2
<1>6. y \in StateType /\ y.sock = s /\ y.queue = q
  BY <1>3, <1>4, <1>5 DEF StateType
<1>7. SameOthers(x, y)
  BY <1>3 DEF StateType, SameOthers, SameRest
<1> QED
  BY <1>2, <1>4, <1>5, <1>6, <1>7 DEF Waits

LEMMA WaitsQueues ==
  ASSUME NEW x, x \in StateType, QueuesOK(x), NEW r \in Reqs, x.sock[r] = "resolving",
         NEW y, Waits(x, y, r)
  PROVE  QueuesOK(y)
<1>0. PICK h : h = HostOf[r]
  OBVIOUS
<1>1. h \in Hosts /\ HostOf[r] = h
  BY <1>0, OfRequest
<1>2. /\ y.sock[r] = "queued" /\ \A c \in Reqs \ {r} : y.sock[c] = x.sock[c]
      /\ y.queue[h] = Append(x.queue[h], r)
      /\ \A g \in Hosts \ {h} : y.queue[g] = x.queue[g]
  BY <1>0 DEF Waits
<1>3. \A g \in Hosts : x.queue[g] \in Seq(Reqs)
  BY DEF StateType
<1>4. \A g \in Hosts : \A i \in 1 .. Len(x.queue[g]) : x.queue[g][i] \in Reqs \ {r}
  <2>1. \A g \in Hosts : \A i \in 1 .. Len(x.queue[g]) : x.queue[g][i] \in Reqs
    BY <1>3
  <2> QED
    BY <2>1 DEF QueuesOK
<1>5. ASSUME NEW g \in Hosts, NEW i \in 1 .. Len(y.queue[g])
      PROVE  /\ HostOf[y.queue[g][i]] = g
             /\ y.sock[y.queue[g][i]] \in {"queued", "doomed"}
             /\ \A j \in 1 .. Len(y.queue[g]) : y.queue[g][i] = y.queue[g][j] => i = j
  <2>1. CASE g # h
    BY <1>2, <1>4, <2>1, SMTT(30) DEF QueuesOK
  <2>2. CASE g = h
    <3>1. PICK q : q = x.queue[h]
      OBVIOUS
    <3>2. /\ \A k \in 1 .. Len(q) : /\ HostOf[q[k]] = h
                                    /\ x.sock[q[k]] \in {"queued", "doomed"}
                                    /\ \A j \in 1 .. Len(q) : q[k] = q[j] => k = j
                                    /\ q[k] \in Reqs \ {r}
      BY <1>1, <1>4, <3>1 DEF QueuesOK
    <3>3. /\ Append(q, r)[Len(q) + 1] = r
          /\ \A k \in 1 .. Len(q) : Append(q, r)[k] = q[k]
          /\ \A k \in 1 .. Len(Append(q, r)) : k \in 1 .. Len(q) \/ k = Len(q) + 1
      BY <1>1, <1>3, <3>1, AppendOf
    <3>4. PICK t : t = y.queue[g]
      OBVIOUS
    <3>5. t = Append(q, r)
      BY <1>2, <2>2, <3>1, <3>4
    <3>6. \A k \in 1 .. Len(t) : /\ k \in 1 .. Len(q) => t[k] = q[k]
                                 /\ k \notin 1 .. Len(q) => k = Len(q) + 1 /\ t[k] = r
      BY <3>3, <3>5
    <3>7. i \in 1 .. Len(t)
      BY <3>4
    <3>8. HostOf[t[i]] = g /\ y.sock[t[i]] \in {"queued", "doomed"}
      <4>1. CASE i \in 1 .. Len(q)
        BY <1>2, <2>2, <3>2, <3>6, <3>7, <4>1
      <4>2. CASE i \notin 1 .. Len(q)
        BY <1>1, <1>2, <2>2, <3>6, <3>7, <4>2
      <4> QED
        BY <4>1, <4>2
    <3>9. \A j \in 1 .. Len(t) : t[i] = t[j] => i = j
      BY <3>2, <3>6, <3>7
    <3> QED
      BY <3>4, <3>8, <3>9
  <2> QED
    BY <2>1, <2>2
<1>6. ASSUME NEW c \in Reqs, y.sock[c] \in {"queued", "doomed"}
      PROVE  \E i \in 1 .. Len(y.queue[HostOf[c]]) : y.queue[HostOf[c]][i] = c
  <2>0. HostOf[c] \in Hosts
    BY OfRequest
  <2>1. CASE c = r
    <3>1. PICK q : q = x.queue[h]
      OBVIOUS
    <3>2. Append(q, r)[Len(q) + 1] = r /\ Len(q) + 1 \in 1 .. Len(Append(q, r))
      BY <1>1, <1>3, <3>1, AppendOf
    <3>3. y.queue[HostOf[c]] = Append(q, r)
      BY <1>1, <1>2, <2>1, <3>1
    <3> QED
      BY <2>1, <3>2, <3>3
  <2>2. CASE c # r
    <3>1. PICK i \in 1 .. Len(x.queue[HostOf[c]]) : x.queue[HostOf[c]][i] = c
      BY <1>2, <1>6, <2>2 DEF QueuesOK
    <3>2. CASE HostOf[c] = h
      <4>1. PICK q : q = x.queue[h]
        OBVIOUS
      <4>2. i \in 1 .. Len(Append(q, r)) /\ Append(q, r)[i] = q[i] /\ q[i] = c
        BY <1>1, <1>3, <3>1, <3>2, <4>1, AppendOf
      <4>3. y.queue[HostOf[c]] = Append(q, r)
        BY <1>2, <3>2, <4>1
      <4> QED
        BY <4>2, <4>3
    <3>3. CASE HostOf[c] # h
      BY <1>2, <2>0, <3>1, <3>3
    <3> QED
      BY <3>2, <3>3
  <2> QED
    BY <2>1, <2>2
<1> QED
  BY <1>5, <1>6 DEF QueuesOK

LEMMA WaitsSound ==
  ASSUME NEW x, Sound(x, None), NEW r \in Reqs, x.sock[r] = "resolving",
         NEW y, Waits(x, y, r)
  PROVE  Sound(y, None)
<1>1. x \in StateType /\ None \notin Reqs
  BY HttpAssumption DEF Sound
<1>2. QueuesOK(y)
  BY <1>1, WaitsQueues DEF Sound
<1>3. /\ y \in StateType /\ SameRest(x, y) /\ y.active_connections = x.active_connections
      /\ y.sock[r] = "queued" /\ \A c \in Reqs \ {r} : y.sock[c] = x.sock[c]
  BY DEF Waits, SameOthers
<1>4. FilesOK(y) /\ OneConn(y) /\ EntriesOK(y, None)
  BY <1>3, SameRestKeep DEF Sound
<1>5. Counted(y)
  <2>1. x.sock[r] # "connected" /\ y.sock[r] # "connected" /\ Counted(x)
    BY <1>3 DEF Sound
  <2> QED
    BY <1>3, <2>1, SameCounts
<1>6. ASSUME NEW c \in Reqs \ {None}
      PROVE  Regular(y, c)
  <2>1. Regular(x, c)
    BY DEF Sound
  <2>2. CASE c = r
    BY <1>3, <2>1, <2>2 DEF Regular, IOsFit, SameRest, Live
  <2>3. CASE c # r
    BY <1>3, <2>1, <2>3 DEF Regular, IOsFit, SameRest
  <2> QED
    BY <2>2, <2>3
<1> QED
  BY <1>2, <1>3, <1>4, <1>5, <1>6 DEF Sound

\* Http_dns_cb, whoever calls it: the request gets into the queue and is served, or
\* is told of the failure.
LEMMA DnsCb ==
  ASSUME NEW x, Sound(x, None), AllFull(x), NEW r \in Reqs, Awaited(x, r),
         NEW solved \in BOOLEAN, NEW y, y = Http_dns_cb(x, r, solved)
  PROVE  /\ Sound(y, None) /\ AllFull(y) /\ Awaited(y, None)
<1>1. x \in StateType /\ None \notin Reqs
  BY HttpAssumption DEF Sound
<1>2. CASE x.sock[r] # "resolving"
  <2>1. y = x
    BY <1>2 DEF Http_dns_cb
  <2>2. Awaited(x, None)
    BY <1>2 DEF Awaited
  <2> QED
    BY <2>1, <2>2
<1>3. CASE x.sock[r] = "resolving" /\ r \in x.web /\ solved
  <2>1. PICK z : z = Enqueued(x, r)
    OBVIOUS
  <2>2. y = Http_connect_queued_sockets(z, HostOf[r])
    BY <1>3, <2>1 DEF Http_dns_cb, Enqueued
  <2>3. Waits(x, z, r)
    BY <1>1, <2>1, EnqueuedFields
  <2>4. Sound(z, None)
    BY <1>3, <2>3, WaitsSound
  <2>5. Settled(z, None) /\ HostOf[r] \in Hosts
    BY <1>1, OfRequest DEF Settled
  <2>6. \A g \in Hosts \ {HostOf[r]} : Full(z, g)
    BY <2>3 DEF AllFull, Full, Waits, SameOthers
  <2>7. Sound(y, None) /\ Keeps(z, y, None) /\ AllFull(y)
    BY <2>2, <2>4, <2>5, <2>6, QueueServed
  <2>8. ASSUME NEW c \in Reqs \ {None}, y.sock[c] = "resolving"
        PROVE  c \in y.asked
    <3>1. z.sock[c] = "resolving" /\ y.asked = z.asked
      BY <2>7, <2>8 DEF Keeps
    <3>2. c # r /\ x.sock[c] = "resolving" /\ z.asked = x.asked
      BY <2>3, <3>1 DEF Waits, SameOthers, SameRest
    <3> QED
      BY <3>1, <3>2 DEF Awaited
  <2> QED
    BY <2>7, <2>8 DEF Awaited
<1>4. CASE x.sock[r] = "resolving" /\ ~(r \in x.web /\ solved)
  <2>1. PICK b : b = AbortBoth(x, r)
    OBVIOUS
  <2>2. y = Http_socket_free(b, r)
    BY <1>4, <2>1 DEF Http_dns_cb
  <2>3. Regular(x, r) /\ BooksOK(x) /\ x.sock[r] \in {"queued", "resolving"} /\ r # None
    BY <1>1, <1>4 DEF Sound, EntriesOK
  <2>4. r \in x.recv /\ x.Ref[r] = 2 /\ x.wio[r].fd = -1 /\ x.rio[r].fd = -1
    BY <1>4, <2>3 DEF Regular, IOsFit, Live
  <2>5. b.sock = x.sock
    <3>1. /\ b \in StateType
          /\ b.started = x.started /\ b.send = x.send \ {r} /\ b.recv = x.recv \ {r}
          /\ b.Ref = [x.Ref EXCEPT ![r] = 0] /\ b.sock = x.sock
          /\ b.asked = x.asked /\ b.queue = x.queue
          /\ b.active_connections = x.active_connections /\ b.failed = x.failed
          /\ b.open = x.open /\ b.rwatch = x.rwatch
          /\ b.rio = FreedAt(x.rio, r) /\ b.wio = FreedAt(x.wio, r)
          /\ b.aborted = x.aborted
          /\ b.entry = x.entry \ {UrlOf[r]} /\ b.done = x.done \ {UrlOf[r]}
          /\ b.clients = {c \in x.clients : UrlOf[c] # UrlOf[r]}
      BY <1>1, <2>1, <2>3, <2>4, AbortBothFields
    <3> QED
      BY <3>1
  <2>6. y = SockSet(b, r, "freed")
    BY <1>4, <2>2, <2>5 DEF Http_socket_free, SockSet
  <2>7. y \in StateType /\ Gone(x, y, r) /\ y.queue = x.queue
    BY <1>1, <2>1, <2>3, <2>6, AbortBothGone
  <2>8. QueuesOK(y)
    <3>1. y.sock[r] = "freed" /\ \A c \in Reqs \ {r} : y.sock[c] = x.sock[c]
      BY <2>7 DEF Gone
    <3>2. \A h \in Hosts : \A i \in 1 .. Len(x.queue[h]) : x.queue[h][i] \in Reqs
      <4>1. \A h \in Hosts : x.queue[h] \in Seq(Reqs)
        BY <1>1 DEF StateType
      <4> QED
        BY <4>1
    <3>3. \A c \in Reqs : x.sock[c] \in {"queued", "doomed"} <=> y.sock[c] \in {"queued", "doomed"}
      BY <1>4, <3>1
    <3> QED
      BY <2>7, <3>2, <3>3 DEF Sound, QueuesOK
  <2>9. Sound(y, None) /\ Keeps(x, y, None)
    BY <2>3, <2>7, <2>8, GoneSound
  <2>10. AllFull(y)
    BY <2>7, SameFull DEF Gone
  <2>11. Awaited(y, None)
    <3>1. y.sock[r] = "freed" /\ y.asked = x.asked /\ \A c \in Reqs \ {r} : y.sock[c] = x.sock[c]
      BY <2>7 DEF Gone
    <3> QED
      BY <3>1 DEF Awaited
  <2> QED
    BY <2>9, <2>10, <2>11
<1> QED
  BY <1>2, <1>3, <1>4

----------------------------------------------------------------------------
(* A URL is opened                                                         *)

\* Who waited for the resolver still does.
LEMMA StillAwaited ==
  ASSUME NEW x, NEW d, Awaited(x, d), NEW y, Since(x, y)
  PROVE  Awaited(y, d)
BY DEF Awaited, Since

\* The two branches of a new connection.
Branches(x, r) ==
  [x EXCEPT !.recv = x.recv \cup {r}, !.send = x.send \cup {r},
            !.Ref = [x.Ref EXCEPT ![r] = 2],
            !.rio = [x.rio EXCEPT ![r] = NewIO], !.wio = [x.wio EXCEPT ![r] = NewIO],
            !.sock = [x.sock EXCEPT ![r] = "resolving"]]

Begins(x, y, r) ==
  /\ y \in StateType /\ y.queue = x.queue
  /\ y.active_connections = x.active_connections
  /\ y.send = x.send \cup {r} /\ y.recv = x.recv \cup {r}
  /\ y.Ref[r] = 2 /\ y.sock[r] = "resolving" /\ y.rio[r] = NewIO /\ y.wio[r] = NewIO
  /\ \A c \in Reqs \ {r} : /\ y.Ref[c] = x.Ref[c] /\ y.sock[c] = x.sock[c]
                           /\ y.rio[c] = x.rio[c] /\ y.wio[c] = x.wio[c]
  /\ y.started = x.started /\ y.asked = x.asked /\ y.failed = x.failed
  /\ y.open = x.open /\ y.rwatch = x.rwatch /\ y.aborted = x.aborted
  /\ y.entry = x.entry /\ y.done = x.done /\ y.clients = x.clients

LEMMA BranchesFields ==
  ASSUME NEW x, x \in StateType, NEW r \in Reqs
  PROVE  Begins(x, Branches(x, r), r)
<1>1. PICK re, se, rf, ri, wi, so :
        /\ re = x.recv \cup {r} /\ se = x.send \cup {r}
        /\ rf = [x.Ref EXCEPT ![r] = 2] /\ so = [x.sock EXCEPT ![r] = "resolving"]
        /\ ri = [x.rio EXCEPT ![r] = NewIO] /\ wi = [x.wio EXCEPT ![r] = NewIO]
  OBVIOUS
<1>2. PICK y : y = Branches(x, r)
  OBVIOUS
<1>3. y = [x EXCEPT !.recv = re, !.send = se, !.Ref = rf, !.rio = ri, !.wio = wi,
                    !.sock = so]
  BY <1>1, <1>2 DEF Branches
<1>4. /\ re \in SUBSET Reqs /\ se \in SUBSET Reqs
      /\ rf \in [Reqs -> 0 .. 2] /\ so \in [Reqs -> SocketStates]
      /\ rf[r] = 2 /\ so[r] = "resolving"
      /\ \A c \in Reqs \ {r} : rf[c] = x.Ref[c] /\ so[c] = x.sock[c]
  BY <1>1 DEF StateType, SocketStates
<1>5. /\ ri \in [Reqs -> IOType] /\ wi \in [Reqs -> IOType]
      /\ ri[r] = NewIO /\ wi[r] = NewIO
      /\ \A c \in Reqs \ {r} : ri[c] = x.rio[c] /\ wi[c] = x.wio[c]
  <2>1. x.rio \in [Reqs -> IOType] /\ x.wio \in [Reqs -> IOType]
    BY DEF StateType, IOType
  <2>2. NewIO \in IOType
    <3>1. PICK k : k = -1
      OBVIOUS
    <3> QED
      BY <3>1 DEF NewIO, IOType
  <2> QED
    BY <1>1, <2>1, <2>2
<1>6. /\ y.recv = re /\ y.send = se /\ y.Ref = rf /\ y.rio = ri /\ y.wio = wi
      /\ y.sock = so /\ y.queue = x.queue /\ y.active_connections = x.active_connections
      /\ y.started = x.started /\ y.asked = x.asked /\ y.failed = x.failed
      /\ y.open = x.open /\ y.rwatch = x.rwatch /\ y.aborted = x.aborted
      /\ y.entry = x.entry /\ y.done = x.done /\ y.clients = x.clients
  BY <1>3 DEF StateType
<1>7. y \in StateType
  <2>1. PICK z : z = [x EXCEPT !.recv = re, !.send = se, !.Ref = rf, !.sock = so]
    OBVIOUS
  <2>2. z \in StateType
    BY <1>4, <2>1 DEF StateType
  <2>3. y = [z EXCEPT !.rio = ri, !.wio = wi]
    BY <1>3, <2>1 DEF StateType
  <2> QED
    BY <1>5, <2>2, <2>3 DEF StateType, IOType
<1> QED
  BY <1>1, <1>2, <1>4, <1>5, <1>6, <1>7 DEF Begins

LEMMA BeginsSound ==
  ASSUME NEW x, Sound(x, None), AllFull(x), NEW r \in Reqs, x.sock[r] = "none",
         r \in x.started, \A c \in Reqs : UrlOf[c] = UrlOf[r] => ~(x.Ref[c] > 0),
         NEW y, Begins(x, y, r)
  PROVE  Sound(y, None) /\ AllFull(y)
<1>1. x \in StateType /\ None \notin Reqs /\ Regular(x, r)
  BY HttpAssumption DEF Sound
<1>2. y.sock[r] = "resolving" /\ \A c \in Reqs \ {r} : y.sock[c] = x.sock[c]
  BY DEF Begins
<1>3. QueuesOK(y)
  <2>1. \A c \in Reqs : x.sock[c] \in {"queued", "doomed"} <=> y.sock[c] \in {"queued", "doomed"}
    BY <1>2
  <2>2. \A h \in Hosts : \A i \in 1 .. Len(x.queue[h]) : x.queue[h][i] \in Reqs
    <3>1. \A h \in Hosts : x.queue[h] \in Seq(Reqs)
      BY <1>1 DEF StateType
    <3> QED
      BY <3>1
  <2>3. y.queue = x.queue
    BY DEF Begins
  <2> QED
    BY <2>1, <2>2, <2>3 DEF Sound, QueuesOK
<1>4. Counted(y)
  <2>1. /\ Counted(x) /\ x.sock[r] # "connected" /\ y.sock[r] # "connected"
        /\ y.active_connections = x.active_connections
    BY <1>2 DEF Sound, Begins
  <2> QED
    BY <1>2, <2>1, SameCounts
<1>5. FilesOK(y)
  <2>1. x.rio[r].st # "submitted"
    BY <1>1 DEF Regular, Live
  <2>2. y.rio[r].st = "new" /\ \A c \in Reqs \ {r} : y.rio[c] = x.rio[c]
    BY DEF Begins, NewIO
  <2>3. ASSUME NEW c \in Reqs, NEW f \in FDs, x.rio[c] = Submitted(f)
        PROVE  y.rio[c] = Submitted(f)
    <3>1. c # r
      BY <2>1, <2>3 DEF Submitted
    <3> QED
      BY <2>2, <2>3, <3>1
  <2>4. \A f \in FDs : x.open[f] \in Reqs \cup {None} /\ x.rwatch[f] \in Reqs \cup {None}
    BY <1>1 DEF StateType
  <2>5. \A c \in Reqs : y.rio[c].st = "submitted" => c # r /\ y.rio[c] = x.rio[c]
    BY <2>2
  <2>6. y.open = x.open /\ y.rwatch = x.rwatch /\ y.aborted = x.aborted /\ y.failed = x.failed
    BY DEF Begins
  <2> QED
    BY <2>3, <2>4, <2>5, <2>6 DEF Sound, FilesOK
<1>6. OneConn(y)
  <2>1. \A c \in Reqs \ {r} : y.Ref[c] > 0 => x.Ref[c] > 0
    BY DEF Begins
  <2>2. \A c \in Reqs \ {r} : y.Ref[c] > 0 => UrlOf[c] # UrlOf[r]
    BY <2>1
  <2> QED
    BY <2>1, <2>2 DEF Sound, OneConn
<1>7. EntriesOK(y, None)
  BY DEF Sound, EntriesOK, BooksOK, Begins
<1>8. ASSUME NEW c \in Reqs \ {None}
      PROVE  Regular(y, c)
  <2>1. Regular(x, c)
    BY DEF Sound
  <2>2. CASE c = r
    BY <2>2 DEF Regular, IOsFit, Begins, NewIO, Live
  <2>3. CASE c # r
    BY <2>1, <2>3 DEF Regular, IOsFit, Begins
  <2> QED
    BY <2>2, <2>3
<1>9. AllFull(y)
  BY SameFull DEF Begins
<1> QED
  BY <1>3, <1>4, <1>5, <1>6, <1>7, <1>8, <1>9 DEF Sound, Begins

\* The resolver is asked on behalf of r.
LEMMA AskedSound ==
  ASSUME NEW x, NEW d, Sound(x, d), NEW A \in SUBSET Reqs,
         NEW y, y = [x EXCEPT !.asked = A]
  PROVE  Sound(y, d) /\ (AllFull(x) => AllFull(y)) /\ y.sock = x.sock /\ y.asked = A
<1>1. x \in StateType
  BY DEF Sound
<1>2. y \in StateType /\ y.asked = A
  BY <1>1 DEF StateType
<1>3. /\ Files(y) = Files(x) /\ Books(y) = Books(x) /\ SameSocks(x, y)
      /\ y.started = x.started /\ y.send = x.send /\ y.recv = x.recv /\ y.Ref = x.Ref
      /\ y.failed = x.failed
  BY <1>1 DEF StateType, Files, Books, SameSocks
<1>4. QueuesOK(y) /\ Counted(y) /\ (AllFull(x) => AllFull(y)) /\ y.sock = x.sock
  BY <1>3, SameSocksKeep DEF Sound, SameSocks
<1>5. FilesOK(y)
  BY <1>3 DEF Sound, Files, FilesOK
<1>6. OneConn(y) /\ EntriesOK(y, d)
  BY <1>3 DEF Sound, Books, OneConn, EntriesOK, BooksOK
<1>7. \A c \in Reqs \ {d} : Regular(y, c)
  <2>1. SUFFICES ASSUME NEW c \in Reqs \ {d} PROVE Regular(y, c)
    OBVIOUS
  <2>2. Regular(x, c)
    BY DEF Sound
  <2>3. y.rio = x.rio /\ y.wio = x.wio /\ y.sock = x.sock
    BY <1>3 DEF Files, SameSocks
  <2> QED
    BY <1>3, <2>2, <2>3 DEF Regular, IOsFit
<1> QED
  BY <1>2, <1>4, <1>5, <1>6, <1>7 DEF Sound

LEMMA OpenConnSound ==
  ASSUME NEW x, Sound(x, None), AllFull(x), Awaited(x, None), NEW r \in Reqs,
         x.sock[r] = "none", r \in x.started,
         \A c \in Reqs : UrlOf[c] = UrlOf[r] => ~(x.Ref[c] > 0),
         NEW cached \in BOOLEAN, NEW y, y = OpenConn(x, r, cached)
  PROVE  Sound(y, None) /\ AllFull(y) /\ Awaited(y, None)
<1>1. PICK z : z = Branches(x, r)
  OBVIOUS
<1>2. y = IF cached THEN Http_dns_cb(z, r, TRUE) ELSE [z EXCEPT !.asked = @ \cup {r}]
  BY <1>1 DEF OpenConn, Branches
<1>3. Begins(x, z, r)
  BY <1>1, BranchesFields DEF Sound
<1>4. Sound(z, None) /\ AllFull(z)
  BY <1>3, BeginsSound
<1>5. Awaited(z, r)
  BY <1>3, NoNumber DEF Awaited, Begins
<1>6. CASE cached
  <2>1. y = Http_dns_cb(z, r, TRUE)
    BY <1>2, <1>6
  <2> QED
    BY <1>4, <1>5, <2>1, DnsCb
<1>7. CASE ~cached
  <2>1. PICK A : A = z.asked \cup {r}
    OBVIOUS
  <2>2. A \in SUBSET Reqs
    BY <1>3, <2>1 DEF Begins, StateType
  <2>3. y = [z EXCEPT !.asked = A]
    BY <1>2, <1>7, <2>1
  <2>4. Sound(y, None) /\ AllFull(y) /\ y.sock = z.sock /\ y.asked = A
    BY <1>4, <2>2, <2>3, AskedSound
  <2>5. Awaited(y, None)
    BY <1>5, <2>1, <2>4 DEF Awaited
  <2> QED
    BY <2>4, <2>5
<1> QED
  BY <1>6, <1>7

Asks(x, r) == [x EXCEPT !.web = @ \cup {r}, !.started = @ \cup {r}]

\* The request is made: nothing else has changed.
LEMMA AsksSound ==
  ASSUME NEW x, Sound(x, None), NEW r \in Reqs, r \notin x.started,
         NEW y, y = Asks(x, r)
  PROVE  /\ Sound(y, None) /\ (AllFull(x) => AllFull(y)) /\ y.started = x.started \cup {r}
         /\ y.sock = x.sock /\ y.asked = x.asked /\ y.sock[r] = "none"
         /\ y.entry = x.entry /\ y.done = x.done
<1>1. x \in StateType /\ None \notin Reqs
  BY HttpAssumption DEF Sound
<1>2. PICK W, S : W = x.web \cup {r} /\ S = x.started \cup {r}
  OBVIOUS
<1>3. W \in SUBSET Reqs /\ S \in SUBSET Reqs
  BY <1>1, <1>2 DEF StateType
<1>4. y = [x EXCEPT !.web = W, !.started = S]
  BY <1>2 DEF Asks
<1>5. y \in StateType /\ y.started = S
  BY <1>1, <1>3, <1>4, ZenonT(30) DEF StateType
<1>6. /\ Files(y) = Files(x) /\ SameSocks(x, y)
      /\ y.clients = x.clients /\ y.entry = x.entry /\ y.done = x.done
      /\ y.asked = x.asked /\ y.send = x.send /\ y.recv = x.recv /\ y.Ref = x.Ref
      /\ y.failed = x.failed
  BY <1>1, <1>4 DEF StateType, Files, SameSocks
<1>7. QueuesOK(y) /\ Counted(y) /\ (AllFull(x) => AllFull(y)) /\ y.sock = x.sock
  BY <1>6, SameSocksKeep DEF Sound, SameSocks
<1>8. FilesOK(y)
  BY <1>6 DEF Sound, Files, FilesOK
<1>9. OneConn(y) /\ EntriesOK(y, None)
  BY <1>6 DEF Sound, OneConn, EntriesOK, BooksOK
<1>10. \A c \in Reqs \ {None} : Regular(y, c)
  <2>1. SUFFICES ASSUME NEW c \in Reqs \ {None} PROVE Regular(y, c)
    OBVIOUS
  <2>2. Regular(x, c)
    BY DEF Sound
  <2>3. y.rio = x.rio /\ y.wio = x.wio /\ y.sock = x.sock
    BY <1>6 DEF Files, SameSocks
  <2>4. c \notin y.started => c \notin x.started
    BY <1>2, <1>5
  <2> QED
    BY <1>6, <2>2, <2>3, <2>4 DEF Regular, IOsFit
<1>11. x.sock[r] = "none"
  BY <1>1 DEF Sound, Regular
<1> QED
  BY <1>2, <1>5, <1>6, <1>7, <1>8, <1>9, <1>10, <1>11 DEF Sound

\* The request becomes a client of an entry that is fetched for it.
LEMMA ClientSound ==
  ASSUME NEW x, Sound(x, None), NEW r \in Reqs, UrlOf[r] \notin x.done,
         \E c \in x.recv : UrlOf[c] = UrlOf[r],
         NEW y, y = [x EXCEPT !.entry = @ \cup {UrlOf[r]}, !.clients = @ \cup {r}]
  PROVE  /\ Sound(y, None) /\ (AllFull(x) => AllFull(y))
         /\ y.sock = x.sock /\ y.asked = x.asked
<1>1. x \in StateType /\ None \notin Reqs /\ UrlOf[r] \in Urls
  BY HttpAssumption, OfRequest DEF Sound
<1>2. PICK E, C : E = x.entry \cup {UrlOf[r]} /\ C = x.clients \cup {r}
  OBVIOUS
<1>3. E \in SUBSET Urls /\ C \in SUBSET Reqs
  BY <1>1, <1>2 DEF StateType
<1>4. y = [x EXCEPT !.entry = E, !.clients = C]
  BY <1>2
<1>5. y \in StateType /\ y.entry = E /\ y.clients = C
  BY <1>1, <1>3, <1>4, ZenonT(30) DEF StateType
<1>6. Files(y) = Files(x) /\ SameSocks(x, y) /\ Chains(y) = Chains(x) /\ y.done = x.done
  BY <1>1, <1>4 DEF StateType, Files, SameSocks, Chains
<1>7. QueuesOK(y) /\ Counted(y) /\ (AllFull(x) => AllFull(y))
  BY <1>6, SameSocksKeep DEF Sound
<1>8. FilesOK(y)
  BY <1>6 DEF Sound, Files, Chains, FilesOK
<1>9. OneConn(y)
  BY <1>6 DEF Sound, Chains, OneConn
<1>10. EntriesOK(y, None)
  <2>1. y.recv = x.recv
    BY <1>6 DEF Chains
  <2> QED
    BY <1>2, <1>5, <1>6, <2>1 DEF Sound, EntriesOK, BooksOK
<1>11. \A c \in Reqs \ {None} : Regular(y, c)
  <2>1. SUFFICES ASSUME NEW c \in Reqs \ {None} PROVE Regular(y, c)
    OBVIOUS
  <2>2. Regular(x, c)
    BY DEF Sound
  <2>3. /\ y.send = x.send /\ y.recv = x.recv /\ y.Ref = x.Ref /\ y.sock = x.sock
        /\ y.rio = x.rio /\ y.wio = x.wio /\ y.started = x.started
    BY <1>6 DEF Chains, Files
  <2> QED
    BY <2>2, <2>3 DEF Regular, IOsFit
<1>12. y.sock = x.sock /\ y.asked = x.asked
  BY <1>6 DEF Chains
<1> QED
  BY <1>5, <1>7, <1>8, <1>9, <1>10, <1>11, <1>12 DEF Sound

\* a_Capi_open_url with a connection of its own.
LEMMA OpenUrlSound ==
  ASSUME NEW x, Sound(x, None), AllFull(x), Awaited(x, None), NEW r \in Reqs,
         r \notin x.started, NEW cached \in BOOLEAN,
         NEW y, y = a_Capi_open_url(x, r, TRUE, cached)
  PROVE  Sound(y, None) /\ AllFull(y) /\ Awaited(y, None)
<1>1. PICK a : a = Asks(x, r)
  OBVIOUS
<1>2. PICK b : b = a_Capi_conn_abort_by_url(a, UrlOf[r])
  OBVIOUS
<1>3. PICK o : o = OpenConn(b, r, cached)
  OBVIOUS
<1>4. PICK f : f = Cache_entry_remove(o, UrlOf[r])
  OBVIOUS
<1>5. y = IF o.Ref[r] = 0 THEN o
          ELSE [f EXCEPT !.entry = @ \cup {UrlOf[r]}, !.clients = @ \cup {r}]
  BY <1>1, <1>2, <1>3, <1>4 DEF a_Capi_open_url, Asks
<1>6. /\ Sound(a, None) /\ AllFull(a) /\ a.started = x.started \cup {r}
      /\ a.sock = x.sock /\ a.asked = x.asked /\ a.sock[r] = "none"
  BY <1>1, AsksSound
<1>7. Awaited(a, None)
  BY <1>6 DEF Awaited
<1>8. /\ Sound(b, None) /\ AllFull(b) /\ Since(a, b)
      /\ \A c \in Reqs : UrlOf[c] = UrlOf[r] => ~(b.Ref[c] > 0)
  BY <1>2, <1>6, AbortByUrl
<1>9. b.sock[r] = "none" /\ r \in b.started /\ Awaited(b, None)
  <2>1. Awaited(b, None)
    BY <1>7, <1>8, StillAwaited
  <2> QED
    BY <1>6, <1>8, <2>1 DEF Since
<1>10. Sound(o, None) /\ AllFull(o) /\ Awaited(o, None)
  BY <1>3, <1>8, <1>9, OpenConnSound
<1>11. CASE o.Ref[r] = 0
  BY <1>5, <1>10, <1>11
<1>12. CASE o.Ref[r] # 0
  <2>1. y = [f EXCEPT !.entry = @ \cup {UrlOf[r]}, !.clients = @ \cup {r}]
    BY <1>5, <1>12
  <2>2. BooksChange(o, f) /\ f.done = o.done \ {UrlOf[r]}
    BY <1>4, <1>10, EntryRemoveChange
  <2>3. Sound(f, None) /\ AllFull(f) /\ Since(o, f)
    BY <1>10, <2>2, BooksSound
  <2>4. r \in f.recv
    <3>1. Regular(o, r)
      BY <1>10, NoNumber DEF Sound
    <3>2. r \in o.recv
      BY <1>12, <3>1 DEF Regular
    <3> QED
      BY <2>2, <3>2 DEF BooksChange, Chains
  <2>5. UrlOf[r] \notin f.done
    BY <2>2
  <2>6. Sound(y, None) /\ AllFull(y) /\ y.sock = f.sock /\ y.asked = f.asked
    BY <2>1, <2>3, <2>4, <2>5, ClientSound, ZenonT(30)
  <2>7. Awaited(f, None)
    BY <1>10, <2>3, StillAwaited
  <2>8. Awaited(y, None)
    BY <2>6, <2>7 DEF Awaited
  <2> QED
    BY <2>6, <2>8
<1> QED
  BY <1>11, <1>12

\* a_Capi_open_url where the entry is fetched already.
LEMMA JoinUrlSound ==
  ASSUME NEW x, Sound(x, None), AllFull(x), Awaited(x, None), NEW r \in Reqs,
         r \notin x.started, UrlOf[r] \in x.entry \ x.done,
         NEW y, y = a_Capi_open_url(x, r, FALSE, FALSE)
  PROVE  Sound(y, None) /\ AllFull(y) /\ Awaited(y, None)
<1>1. PICK a : a = Asks(x, r)
  OBVIOUS
<1>2. y = [a EXCEPT !.entry = @ \cup {UrlOf[r]}, !.clients = @ \cup {r}]
  BY <1>1 DEF a_Capi_open_url, Asks
<1>3. /\ Sound(a, None) /\ AllFull(a) /\ a.sock = x.sock /\ a.asked = x.asked
      /\ a.entry = x.entry /\ a.done = x.done
  BY <1>1, AsksSound
<1>4. UrlOf[r] \notin a.done /\ \E c \in a.recv : UrlOf[c] = UrlOf[r]
  BY <1>3, NoNumber DEF Sound, EntriesOK
<1>5. Sound(y, None) /\ AllFull(y) /\ y.sock = a.sock /\ y.asked = a.asked
  BY <1>2, <1>3, <1>4, ClientSound
<1> QED
  BY <1>3, <1>5 DEF Awaited

----------------------------------------------------------------------------
(* The answer ends                                                         *)

\* The page is given up: the entry goes with the connection.
LEMMA UnviewableSound ==
  ASSUME NEW x, Sound(x, None), AllFull(x), NEW u, NEW y, y = Unviewable(x, u)
  PROVE  /\ Sound(y, None) /\ AllFull(y) /\ Since(x, y)
         /\ \A r \in Reqs : UrlOf[r] = u /\ x.sock[r] = "connected" => y.aborted # {}
<1>1. PICK z : z = a_Capi_conn_abort_by_url(x, u)
  OBVIOUS
<1>2. /\ Sound(z, None) /\ AllFull(z) /\ Since(x, z)
      /\ \A r \in Reqs : UrlOf[r] = u /\ x.sock[r] = "connected" => z.aborted # {}
  BY <1>1, AbortByUrl
<1>3. y = Cache_entry_remove(z, u)
  BY <1>1 DEF Unviewable
<1>4. BooksChange(z, y)
  BY <1>2, <1>3, EntryRemoveChange
<1>5. Sound(y, None) /\ AllFull(y) /\ Since(z, y) /\ y.aborted = z.aborted
  <2>1. y.aborted = z.aborted
    BY <1>4 DEF BooksChange, Files
  <2> QED
    BY <1>2, <1>4, <2>1, BooksSound
<1> QED
  BY <1>2, <1>5, SinceChain

\* Who is watched is connected.
LEMMA WatchedOne ==
  ASSUME NEW x, Sound(x, None), NEW fd \in FDs, x.rwatch[fd] # None
  PROVE  /\ x.rwatch[fd] \in Reqs /\ x.sock[x.rwatch[fd]] = "connected"
         /\ x.rio[x.rwatch[fd]] = Submitted(fd) /\ x.Ref[x.rwatch[fd]] = 2
         /\ x.rwatch[fd] \in x.send /\ x.rwatch[fd] \in x.recv
         /\ x.rwatch[fd] \in x.started
<1>1. PICK r : r = x.rwatch[fd]
  OBVIOUS
<1>2. r \in Reqs /\ x.rio[r] = Submitted(fd)
  BY <1>1 DEF Sound, StateType, FilesOK
<1>3. Regular(x, r)
  BY <1>2, NoNumber DEF Sound
<1>4. x.sock[r] = "connected"
  BY <1>2, <1>3 DEF Regular, IOsFit, Submitted, Live
<1>5. x.Ref[r] = 2 /\ r \in x.send /\ r \in x.recv /\ r \in x.started
  BY <1>3, <1>4 DEF Regular, Live
<1> QED
  BY <1>1, <1>2, <1>4, <1>5

\* The watch of a number that nobody watches is removed: nothing changes.
Unwatched(x, fd, read) ==
  [x EXCEPT !.rwatch = [f \in FDs |-> IF f = fd /\ read THEN None ELSE x.rwatch[f]]]

LEMMA UnwatchFields ==
  ASSUME NEW x, x \in StateType, NEW fd, NEW read \in BOOLEAN
  PROVE  remove_fd(x, fd, read, FALSE) = Unwatched(x, fd, read)
<1>1. [f \in FDs |-> IF f = fd /\ FALSE THEN None ELSE x.wwatch[f]] = x.wwatch
  BY DEF StateType
<1> QED
  BY <1>1 DEF StateType, remove_fd, Unwatched

\* A watch goes away, of a number nobody listens to or after a disturbance.
LEMMA UnwatchSound ==
  ASSUME NEW x, Sound(x, None), NEW fd \in FDs, NEW read \in BOOLEAN,
         x.rwatch[fd] = None \/ x.aborted # {} \/ x.failed # {} \/ ~read,
         NEW y, y = remove_fd(x, fd, read, FALSE)
  PROVE  /\ Sound(y, None) /\ (AllFull(x) => AllFull(y))
         /\ y.sock = x.sock /\ y.asked = x.asked
<1>1. x \in StateType
  BY DEF Sound
<1>2. PICK g : g = [f \in FDs |-> IF f = fd /\ read THEN None ELSE x.rwatch[f]]
  OBVIOUS
<1>3. y = [x EXCEPT !.rwatch = g]
  <2>1. y = Unwatched(x, fd, read)
    BY <1>1, UnwatchFields
  <2> QED
    BY <1>2, <2>1 DEF Unwatched
<1>4. g \in [FDs -> Reqs \cup {None}]
  BY <1>1, <1>2 DEF StateType
<1>5. y \in StateType /\ y.rwatch = g
  BY <1>1, <1>3, <1>4, ZenonT(30) DEF StateType
<1>6. /\ Chains(y) = Chains(x) /\ Books(y) = Books(x) /\ SameSocks(x, y)
      /\ y.rio = x.rio /\ y.wio = x.wio /\ y.open = x.open /\ y.aborted = x.aborted
  BY <1>1, <1>3 DEF StateType, Chains, Books, SameSocks
<1>7. QueuesOK(y) /\ Counted(y) /\ (AllFull(x) => AllFull(y))
  BY <1>6, SameSocksKeep DEF Sound
<1>8. FilesOK(y)
  <2>1. \A f \in FDs : y.rwatch[f] # None => y.rwatch[f] = x.rwatch[f]
    BY <1>2, <1>5
  <2>2. ASSUME x.aborted = {}, x.failed = {}
        PROVE  \A f \in FDs : y.rwatch[f] = x.rwatch[f]
    BY <1>2, <1>5, <2>2
  <2>3. y.failed = x.failed
    BY <1>6 DEF Chains
  <2>4. FilesOK(x) /\ y.rio = x.rio /\ y.open = x.open /\ y.aborted = x.aborted
    BY <1>6 DEF Sound
  <2>5. ASSUME y.aborted = {}, NEW c \in Reqs, y.rio[c].st = "submitted"
        PROVE  /\ y.open[y.rio[c].fd] = c
               /\ y.failed = {} => y.rwatch[y.rio[c].fd] = c
    <3>1. /\ x.rio[c].fd \in FDs /\ x.open[x.rio[c].fd] = c
          /\ x.failed = {} => x.rwatch[x.rio[c].fd] = c
      BY <2>4, <2>5 DEF FilesOK
    <3> QED
      BY <2>2, <2>3, <2>4, <2>5, <3>1
  <2>6. \A f \in FDs : /\ y.open[f] # None => y.rio[y.open[f]] = Submitted(f)
                       /\ y.rwatch[f] # None => y.rio[y.rwatch[f]] = Submitted(f)
    BY <2>1, <2>4 DEF FilesOK
  <2>7. \A c \in Reqs : y.rio[c].st = "submitted" => y.rio[c].fd \in FDs
    BY <2>4 DEF FilesOK
  <2> QED
    BY <2>5, <2>6, <2>7 DEF FilesOK
<1>9. OneConn(y) /\ EntriesOK(y, None)
  BY <1>6 DEF Sound, Chains, Books, OneConn, EntriesOK, BooksOK
<1>10. \A c \in Reqs \ {None} : Regular(y, c)
  <2>1. SUFFICES ASSUME NEW c \in Reqs \ {None} PROVE Regular(y, c)
    OBVIOUS
  <2>2. Regular(x, c)
    BY DEF Sound
  <2>3. /\ y.send = x.send /\ y.recv = x.recv /\ y.Ref = x.Ref /\ y.sock = x.sock
        /\ y.started = x.started
    BY <1>6 DEF Chains
  <2> QED
    BY <1>6, <2>2, <2>3 DEF Regular, IOsFit
<1>11. y.sock = x.sock /\ y.asked = x.asked
  BY <1>6 DEF Chains
<1> QED
  BY <1>5, <1>7, <1>8, <1>9, <1>10, <1>11 DEF Sound

\* The answer branch is taken down before the rest hears of it.
Closing(x, r) == [x EXCEPT !.recv = @ \ {r}]

LEMMA ClosingSound ==
  ASSUME NEW x, Sound(x, None), AllFull(x), NEW r \in Reqs, NEW y, y = Closing(x, r)
  PROVE  /\ Sound(y, r) /\ AllFull(y) /\ Since(x, y)
         /\ r \notin y.recv /\ y.Ref = x.Ref /\ y.sock = x.sock /\ y.send = x.send
         /\ y.rio = x.rio /\ y.wio = x.wio /\ y.entry = x.entry
<1>1. x \in StateType /\ Sound(x, r)
  BY SoundWeaker DEF Sound
<1>2. PICK R : R = x.recv \ {r}
  OBVIOUS
<1>3. R \in SUBSET Reqs /\ y = [x EXCEPT !.recv = R]
  BY <1>1, <1>2 DEF StateType, Closing
<1>4. y \in StateType /\ y.recv = R
  BY <1>1, <1>3 DEF StateType
<1>5. /\ Files(y) = Files(x) /\ Books(y) = Books(x) /\ SameSocks(x, y)
      /\ y.started = x.started /\ y.asked = x.asked /\ y.send = x.send
      /\ y.Ref = x.Ref /\ y.failed = x.failed
  BY <1>1, <1>3 DEF StateType, Files, Books, SameSocks
<1>6. SameElse(x, y, r)
  BY <1>2, <1>4, <1>5 DEF SameElse, Files
<1>7. QueuesOK(y) /\ Counted(y) /\ AllFull(y)
  BY <1>5, SameSocksKeep DEF Sound
<1>8. FilesOK(y)
  BY <1>5 DEF Sound, Files, FilesOK
<1>9. OneConn(y)
  BY <1>5 DEF Sound, OneConn
<1>10. EntriesOK(y, r)
  BY <1>2, <1>4, <1>5, NoNumber DEF Sound, EntriesOK, BooksOK, Books
<1>11. \A c \in Reqs \ {r} : Regular(y, c)
  BY <1>1, <1>5, <1>6, OthersRegular
<1>12. Since(x, y)
  BY <1>5 DEF Since, Books, SameSocks
<1> QED
  BY <1>2, <1>4, <1>5, <1>7, <1>8, <1>9, <1>10, <1>11, <1>12
  DEF Sound, Files, Books, SameSocks

\* The entry is done, and its clients with it.
LEMMA CacheCloseChange ==
  ASSUME NEW x, NEW d, Sound(x, d), NEW u \in Urls, NEW y, y = CacheClose(x, u)
  PROVE  BooksChange(x, y) /\ u \notin y.entry \ y.done
<1>1. x \in StateType /\ BooksOK(x)
  BY DEF Sound, EntriesOK
<1>2. CASE u \notin x.entry
  <2>1. y = x
    BY <1>2 DEF CacheClose
  <2> QED
    BY <1>1, <1>2, <2>1 DEF BooksChange
<1>3. CASE u \in x.entry
  <2> DEFINE served == {r \in x.clients : UrlOf[r] = u}
  <2>1. PICK D, C, W : D = x.done \cup {u} /\ C = x.clients \ served /\ W = x.web \ served
    OBVIOUS
  <2>2. y = [x EXCEPT !.done = D, !.clients = C, !.web = W]
    BY <1>3, <2>1 DEF CacheClose
  <2>3. D \in SUBSET Urls /\ C \in SUBSET Reqs /\ W \in SUBSET Reqs
    BY <1>1, <2>1 DEF StateType
  <2>4. y \in StateType /\ y.done = D /\ y.clients = C
    BY <1>1, <2>2, <2>3, ZenonT(30) DEF StateType
  <2>5. Files(y) = Files(x) /\ Chains(y) = Chains(x) /\ y.entry = x.entry
    BY <1>1, <2>2 DEF StateType, Files, Chains
  <2>6. BooksOK(y)
    BY <1>1, <1>3, <2>1, <2>4, <2>5 DEF BooksOK
  <2>7. y.entry \ y.done \subseteq x.entry \ x.done /\ u \notin y.entry \ y.done
    BY <2>1, <2>4, <2>5
  <2> QED
    BY <2>4, <2>5, <2>6, <2>7 DEF BooksChange
<1> QED
  BY <1>2, <1>3

\* OpEnd has reached IO: the last reference and the descriptor go.
LEMMA FinishSound ==
  ASSUME NEW x, NEW r \in Reqs, Sound(x, r), AllFull(x),
         x.sock[r] \in {"doomed", "freed"}, r \in x.started,
         r \notin x.send, r \notin x.recv, x.Ref[r] = 1, x.rio[r].st = "submitted",
         UrlOf[r] \notin x.entry \ x.done,
         NEW y, y = IO_stop_read(Capi_conn_unref(x, r), r)
  PROVE  /\ Sound(y, None) /\ AllFull(y) /\ Since(x, y)
         /\ y.rwatch = Shut(y.rwatch, x.rio[r].fd)
<1>1. x \in StateType /\ BooksOK(x) /\ FilesOK(x)
  BY DEF Sound, EntriesOK
<1>2. PICK u : u = Capi_conn_unref(x, r)
  OBVIOUS
<1>3. Unrefs(x, u, r)
  BY <1>1, <1>2, UnrefFields
<1>4. /\ u \in StateType /\ Files(u) = Files(x) /\ Books(u) = Books(x) /\ SameSocks(x, u)
      /\ SameElse(x, u, r) /\ u.failed = x.failed
      /\ u.send = x.send /\ u.recv = x.recv /\ u.Ref[r] = 0
  BY <1>3 DEF Unrefs
<1>5. y = IO_stop_read(u, r)
  BY <1>2
<1>6. /\ y \in StateType
      /\ y.open = Shut(u.open, u.rio[r].fd) /\ y.rwatch = Shut(u.rwatch, u.rio[r].fd)
      /\ Chains(y) = Chains(u) /\ Books(y) = Books(u)
      /\ y.rio = FreedAt(u.rio, r) /\ y.wio = u.wio
      /\ y.aborted = u.aborted
  BY <1>4, <1>5, StopReadFields
<1>7. /\ u.open = x.open /\ u.rwatch = x.rwatch /\ u.rio = x.rio /\ u.wio = x.wio
      /\ u.aborted = x.aborted
  BY <1>4 DEF Files
<1>8. FilesOK(y)
  <2>1. /\ y.rio = FreedAt(x.rio, r)
        /\ y.open = Shut(x.open, x.rio[r].fd) /\ y.rwatch = Shut(x.rwatch, x.rio[r].fd)
        /\ y.failed = x.failed /\ y.aborted = x.aborted
    BY <1>4, <1>6, <1>7 DEF Chains
  <2> QED
    BY <1>1, <2>1, StopFiles
<1>9. y.rio[r].st = "freed" /\ \A c \in Reqs \ {r} : y.rio[c] = x.rio[c]
  <2>1. x.rio \in [Reqs -> IOType] /\ y.rio = FreedAt(x.rio, r)
    BY <1>1, <1>6, <1>7 DEF StateType, IOType
  <2> QED
    BY <2>1, FreedType
<1>10. /\ y.send = u.send /\ y.recv = u.recv /\ y.Ref = u.Ref /\ y.started = u.started
       /\ y.asked = u.asked /\ SameSocks(u, y) /\ y.wio = x.wio
  BY <1>6, <1>7 DEF Chains, SameSocks
<1>11. SameElse(x, y, r)
  <2>1. /\ u.started = x.started /\ u.asked = x.asked
        /\ \A c \in Reqs \ {r} : u.Ref[c] = x.Ref[c]
    BY <1>4 DEF SameElse
  <2> QED
    BY <1>4, <1>9, <1>10, <2>1 DEF SameElse
<1>12. SameSocks(x, y) /\ r \notin y.send /\ r \notin y.recv /\ y.Ref[r] = 0
  BY <1>4, <1>10 DEF SameSocks
<1>13. /\ BooksOK(y) /\ UrlOf[r] \notin y.entry \ y.done
       /\ y.entry \ y.done \subseteq x.entry \ x.done
  <2>1. y.clients = x.clients /\ y.entry = x.entry /\ y.done = x.done
    BY <1>4, <1>6 DEF Books
  <2> QED
    BY <1>1, <2>1 DEF BooksOK
<1>14. Ended(x, y, r)
  BY <1>6, <1>9, <1>11, <1>12, <1>13 DEF Ended
<1>15. y.rwatch = Shut(y.rwatch, x.rio[r].fd)
  <2>1. y.rwatch = Shut(x.rwatch, x.rio[r].fd)
    BY <1>6, <1>7
  <2> QED
    BY <2>1 DEF Shut
<1> QED
  BY <1>8, <1>14, <1>15, EndedSound

\* OpEnd on the answer branch, of a watched request.
LEMMA EndAnswerSound ==
  ASSUME NEW x, Sound(x, None), AllFull(x), NEW r \in Reqs, x.sock[r] = "connected",
         NEW viewable \in BOOLEAN, NEW y, y = EndAnswer(x, r, viewable)
  PROVE  /\ Sound(y, None) /\ AllFull(y) /\ Since(x, y)
         /\ y.rwatch = Shut(y.rwatch, x.rio[r].fd)
<1>1. Regular(x, r)
  BY NoNumber DEF Sound
<1>2. /\ r \in x.send /\ r \in x.recv /\ x.Ref[r] = 2 /\ r \in x.started
      /\ IOsFit(x, r) /\ x.rio[r].st = "submitted"
  BY <1>1 DEF Regular, IOsFit, Live
<1>3. PICK c : c = Closing(x, r)
  OBVIOUS
<1>4. /\ Sound(c, r) /\ AllFull(c) /\ Since(x, c)
      /\ r \notin c.recv /\ c.Ref = x.Ref /\ c.sock = x.sock /\ c.send = x.send
      /\ c.rio = x.rio /\ c.wio = x.wio /\ c.entry = x.entry
  BY <1>3, ClosingSound
<1>5. PICK t : t = IF viewable \/ UrlOf[r] \notin x.entry THEN CacheClose(c, UrlOf[r])
                   ELSE Unviewable(c, UrlOf[r])
  OBVIOUS
<1>6. PICK e : e = IF r \in t.send THEN EndQuery(t, r) ELSE t
  OBVIOUS
<1>7. y = IO_stop_read(Capi_conn_unref(e, r), r)
  BY <1>3, <1>5, <1>6 DEF EndAnswer, Closing
<1>8. /\ Sound(e, r) /\ AllFull(e) /\ Since(x, e) /\ e.sock[r] \in {"doomed", "freed"}
      /\ r \notin e.send /\ r \notin e.recv /\ e.Ref[r] = 1 /\ e.rio[r] = x.rio[r]
      /\ UrlOf[r] \notin e.entry \ e.done
  <2>1. CASE viewable \/ UrlOf[r] \notin x.entry
    <3>1. t = CacheClose(c, UrlOf[r]) /\ UrlOf[r] \in Urls
      BY <1>5, <2>1, OfRequest
    <3>2. BooksChange(c, t) /\ UrlOf[r] \notin t.entry \ t.done
      BY <1>4, <3>1, CacheCloseChange
    <3>3. Sound(t, r) /\ AllFull(t) /\ Since(c, t)
      BY <1>4, <3>2, BooksSound
    <3>4. /\ t.send = c.send /\ t.recv = c.recv /\ t.Ref = c.Ref /\ t.sock = c.sock
          /\ t.rio = c.rio
      BY <3>2 DEF BooksChange, Chains, Files
    <3>5. t.Ref[r] = 2 /\ t.sock[r] \in Live /\ e = EndQuery(t, r)
      BY <1>2, <1>4, <1>6, <3>4 DEF Live
    <3>6. Out(t, e, r)
      BY <3>3, <3>5, EndQueryOut
    <3>7. /\ Sound(e, r) /\ AllFull(e) /\ Since(t, e)
          /\ r \notin e.send /\ (r \in e.recv <=> r \in t.recv)
          /\ e.Ref[r] = t.Ref[r] - 1 /\ e.rio[r] = t.rio[r]
          /\ e.sock[r] \in {"doomed", "freed"}
      BY <3>6 DEF Out
    <3>8. UrlOf[r] \notin e.entry \ e.done
      BY <3>2, <3>7 DEF Since
    <3>9. Since(x, e)
      BY <1>4, <3>3, <3>7, SinceChain
    <3> QED
      BY <1>4, <3>4, <3>5, <3>7, <3>8, <3>9
  <2>2. CASE ~(viewable \/ UrlOf[r] \notin x.entry)
    <3>1. t = Cache_entry_remove(a_Capi_conn_abort_by_url(c, UrlOf[r]), UrlOf[r])
      BY <1>5, <2>2 DEF Unviewable
    <3>2. PICK q : q = AbortQuery(c, r)
      OBVIOUS
    <3>3. IOsFit(c, r) /\ c.Ref[r] = 2 /\ c.sock[r] \in Live
      BY <1>2, <1>4 DEF IOsFit, Live
    <3>4. Out(c, q, r)
      BY <1>4, <3>2, <3>3, AbortQueryOut
    <3>5. /\ Sound(q, r) /\ AllFull(q) /\ Since(c, q)
          /\ r \notin q.send /\ r \notin q.recv
          /\ q.Ref[r] = 1 /\ q.rio[r] = x.rio[r]
          /\ q.sock[r] \in {"doomed", "freed"}
      BY <1>4, <3>3, <3>4 DEF Out
    <3>6. a_Capi_conn_abort_by_url(c, UrlOf[r]) = q
      <4> DEFINE found == {k \in Reqs : c.Ref[k] > 0 /\ UrlOf[k] = UrlOf[r]}
      <4>1. r \in found /\ \A k \in found : k = r
        BY <1>4, <3>3 DEF Sound, OneConn
      <4>2. (CHOOSE k \in found : TRUE) = r /\ found # {}
        BY <4>1
      <4>3. r \in c.send /\ r \notin q.recv
        BY <1>2, <1>4, <3>5
      <4> HIDE DEF found
      <4>4. a_Capi_conn_abort_by_url(c, UrlOf[r]) =
              LET Query(z, k) == IF k \in z.send THEN AbortQuery(z, k) ELSE z
                  Answer(z, k) == IF k \in z.recv THEN AbortAnswer(z, k) ELSE z
              IN  Answer(Query(c, r), r)
        BY <4>2 DEF a_Capi_conn_abort_by_url, found
      <4> QED
        BY <3>2, <4>3, <4>4
    <3>7. t = Cache_entry_remove(q, UrlOf[r])
      BY <3>1, <3>6
    <3>8. BooksChange(q, t) /\ t.entry = q.entry \ {UrlOf[r]}
      BY <3>5, <3>7, EntryRemoveChange
    <3>9. Sound(t, r) /\ AllFull(t) /\ Since(q, t)
      BY <3>5, <3>8, BooksSound
    <3>10. /\ t.send = q.send /\ t.recv = q.recv /\ t.Ref = q.Ref /\ t.sock = q.sock
           /\ t.rio = q.rio
      BY <3>8 DEF BooksChange, Chains, Files
    <3>11. e = t
      BY <1>6, <3>5, <3>10
    <3>12. Since(x, e)
      BY <1>4, <3>5, <3>9, <3>11, SinceChain
    <3> QED
      BY <3>5, <3>8, <3>9, <3>10, <3>11, <3>12
  <2> QED
    BY <2>1, <2>2
<1>9. r \in e.started /\ e.rio[r].st = "submitted"
  BY <1>2, <1>8 DEF Since
<1>10. /\ Sound(y, None) /\ AllFull(y) /\ Since(e, y)
       /\ y.rwatch = Shut(y.rwatch, e.rio[r].fd)
  BY <1>7, <1>8, <1>9, FinishSound
<1> QED
  BY <1>8, <1>10, SinceChain

----------------------------------------------------------------------------
(* The actions                                                             *)

\* read(2) failed for r, which its IO notes.
LEMMA FailedSound ==
  ASSUME NEW x, Sound(x, None), NEW r \in Reqs,
         NEW y, y = [x EXCEPT !.failed = @ \cup {r}]
  PROVE  /\ Sound(y, None) /\ (AllFull(x) => AllFull(y)) /\ y.failed # {}
         /\ y.sock = x.sock /\ y.asked = x.asked
<1>1. x \in StateType
  BY DEF Sound
<1>2. PICK F : F = x.failed \cup {r}
  OBVIOUS
<1>3. F \in SUBSET Reqs /\ y = [x EXCEPT !.failed = F] /\ F # {}
  BY <1>1, <1>2 DEF StateType
<1>4. y \in StateType /\ y.failed = F
  BY <1>1, <1>3 DEF StateType
<1>5. /\ Files(y) = Files(x) /\ Books(y) = Books(x) /\ SameSocks(x, y)
      /\ y.started = x.started /\ y.asked = x.asked /\ y.send = x.send
      /\ y.recv = x.recv /\ y.Ref = x.Ref
  BY <1>1, <1>3 DEF StateType, Files, Books, SameSocks
<1>6. QueuesOK(y) /\ Counted(y) /\ (AllFull(x) => AllFull(y)) /\ y.sock = x.sock
  BY <1>5, SameSocksKeep DEF Sound, SameSocks
<1>7. FilesOK(y)
  BY <1>3, <1>4, <1>5 DEF Sound, Files, FilesOK
<1>8. OneConn(y) /\ EntriesOK(y, None)
  BY <1>5 DEF Sound, Books, OneConn, EntriesOK, BooksOK
<1>9. \A c \in Reqs \ {None} : Regular(y, c)
  <2>1. SUFFICES ASSUME NEW c \in Reqs \ {None} PROVE Regular(y, c)
    OBVIOUS
  <2>2. Regular(x, c)
    BY DEF Sound
  <2>3. y.rio = x.rio /\ y.wio = x.wio /\ y.sock = x.sock
    BY <1>5 DEF Files, SameSocks
  <2> QED
    BY <1>5, <2>2, <2>3 DEF Regular, IOsFit
<1> QED
  BY <1>3, <1>4, <1>5, <1>6, <1>7, <1>8, <1>9 DEF Sound

LEMMA OpenKeeps == IInv /\ Open => IInv'
<1>1. SUFFICES ASSUME IInv, NEW r \in Reqs \ w.started, NEW cached \in BOOLEAN,
                      w' = a_Capi_open_url(w, r, TRUE, cached)
               PROVE  IInv'
  BY DEF Open
<1>2. Sound(w', None) /\ AllFull(w') /\ Awaited(w', None)
  BY <1>1, OpenUrlSound DEF IInv
<1> QED
  BY <1>2 DEF IInv

LEMMA JoinKeeps == IInv /\ Join => IInv'
<1>1. SUFFICES ASSUME IInv, NEW r \in Reqs \ w.started, UrlOf[r] \in w.entry \ w.done,
                      w' = a_Capi_open_url(w, r, FALSE, FALSE)
               PROVE  IInv'
  BY DEF Join
<1>2. Sound(w', None) /\ AllFull(w') /\ Awaited(w', None)
  BY <1>1, JoinUrlSound DEF IInv
<1> QED
  BY <1>2 DEF IInv

LEMMA DnsAnswerKeeps == IInv /\ DnsAnswer => IInv'
<1>1. SUFFICES ASSUME IInv, NEW r \in w.asked, NEW solved \in BOOLEAN,
                      w' = Http_dns_cb([w EXCEPT !.asked = @ \ {r}], r, solved)
               PROVE  IInv'
  BY DEF DnsAnswer
<1>2. PICK A : A = w.asked \ {r}
  OBVIOUS
<1>3. A \in SUBSET Reqs /\ r \in Reqs
  BY <1>1, <1>2 DEF IInv, Sound, StateType
<1>4. PICK x : x = [w EXCEPT !.asked = A]
  OBVIOUS
<1>5. w' = Http_dns_cb(x, r, solved)
  BY <1>1, <1>2, <1>4
<1>6. Sound(x, None) /\ AllFull(x) /\ x.sock = w.sock /\ x.asked = A
  BY <1>1, <1>3, <1>4, AskedSound DEF IInv
<1>7. Awaited(x, r)
  BY <1>1, <1>2, <1>6, NoNumber DEF IInv, Awaited
<1>8. Sound(w', None) /\ AllFull(w') /\ Awaited(w', None)
  BY <1>3, <1>5, <1>6, <1>7, DnsCb
<1> QED
  BY <1>8 DEF IInv

LEMMA ReadDataKeeps == IInv /\ ReadData => IInv'
<1>1. SUFFICES ASSUME IInv, NEW fd \in FDs, NEW last \in BOOLEAN, w.rwatch[fd] # None,
                      w' = remove_fd(Unviewable(w, UrlOf[w.rwatch[fd]]), fd, last, FALSE)
               PROVE  IInv'
  BY DEF ReadData
<1>2. PICK r : r = w.rwatch[fd]
  OBVIOUS
<1>3. r \in Reqs /\ w.sock[r] = "connected"
  BY <1>1, <1>2, WatchedOne DEF IInv
<1>4. PICK x : x = Unviewable(w, UrlOf[r])
  OBVIOUS
<1>5. Sound(x, None) /\ AllFull(x) /\ Since(w, x) /\ x.aborted # {}
  BY <1>1, <1>3, <1>4, UnviewableSound DEF IInv
<1>6. Awaited(x, None)
  BY <1>1, <1>5, StillAwaited DEF IInv
<1>7. w' = remove_fd(x, fd, last, FALSE)
  BY <1>1, <1>2, <1>4
<1>8. Sound(w', None) /\ AllFull(w') /\ w'.sock = x.sock /\ w'.asked = x.asked
  <2>1. x.rwatch[fd] = None \/ x.aborted # {} \/ x.failed # {} \/ ~last
    BY <1>5
  <2> QED
    BY <1>5, <1>7, <2>1, UnwatchSound, ZenonT(30)
<1> QED
  BY <1>6, <1>8 DEF IInv, Awaited

LEMMA ReadEndKeeps == IInv /\ ReadEnd => IInv'
<1>1. SUFFICES ASSUME IInv, NEW fd \in FDs, NEW viewable \in BOOLEAN, w.rwatch[fd] # None,
                      w' = remove_fd(EndAnswer(w, w.rwatch[fd], viewable), fd, TRUE, FALSE)
               PROVE  IInv'
  BY DEF ReadEnd
<1>2. PICK r : r = w.rwatch[fd]
  OBVIOUS
<1>3. r \in Reqs /\ w.sock[r] = "connected" /\ w.rio[r] = Submitted(fd)
  BY <1>1, <1>2, WatchedOne DEF IInv
<1>4. PICK x : x = EndAnswer(w, r, viewable)
  OBVIOUS
<1>5. /\ Sound(x, None) /\ AllFull(x) /\ Since(w, x)
      /\ x.rwatch = Shut(x.rwatch, w.rio[r].fd)
  BY <1>1, <1>3, <1>4, EndAnswerSound DEF IInv
<1>6. x.rwatch[fd] = None
  <2>1. w.rio[r].fd = fd
    BY <1>3 DEF Submitted
  <2>2. x.rwatch = Shut(x.rwatch, fd)
    BY <1>5, <2>1
  <2>3. Shut(x.rwatch, fd)[fd] = None
    BY DEF Shut
  <2> QED
    BY <2>2, <2>3
<1>7. Awaited(x, None)
  BY <1>1, <1>5, StillAwaited DEF IInv
<1>8. w' = remove_fd(x, fd, TRUE, FALSE)
  BY <1>1, <1>2, <1>4
<1>9. Sound(w', None) /\ AllFull(w') /\ w'.sock = x.sock /\ w'.asked = x.asked
  BY <1>5, <1>6, <1>8, UnwatchSound
<1> QED
  BY <1>7, <1>9 DEF IInv, Awaited

LEMMA ReadErrorKeeps == IInv /\ ReadError => IInv'
<1>1. SUFFICES ASSUME IInv, NEW fd \in FDs, w.rwatch[fd] # None,
                      w' = [remove_fd(w, fd, TRUE, FALSE) EXCEPT
                              !.failed = @ \cup {w.rwatch[fd]}]
               PROVE  IInv'
  BY DEF ReadError
<1>2. PICK r : r = w.rwatch[fd]
  OBVIOUS
<1>3. r \in Reqs /\ w \in StateType
  BY <1>1, <1>2, WatchedOne DEF IInv, Sound
<1>4. PICK x : x = [w EXCEPT !.failed = @ \cup {r}]
  OBVIOUS
<1>5. w' = remove_fd(x, fd, TRUE, FALSE)
  BY <1>1, <1>2, <1>3, <1>4 DEF remove_fd, StateType
<1>6. Sound(x, None) /\ AllFull(x) /\ x.failed # {} /\ x.sock = w.sock /\ x.asked = w.asked
  BY <1>1, <1>3, <1>4, FailedSound DEF IInv
<1>7. Sound(w', None) /\ AllFull(w') /\ w'.sock = x.sock /\ w'.asked = x.asked
  BY <1>5, <1>6, UnwatchSound
<1> QED
  BY <1>1, <1>6, <1>7 DEF IInv, Awaited

LEMMA WriteEndKeeps == IInv /\ WriteEnd => IInv'
<1>1. SUFFICES ASSUME IInv, NEW fd \in FDs, w' = remove_fd(w, fd, FALSE, TRUE)
               PROVE  IInv'
  BY DEF WriteEnd
<1>2. w \in StateType /\ BooksOK(w)
  BY <1>1 DEF IInv, Sound, EntriesOK
<1>3. PICK g : g = [f \in FDs |-> IF f = fd THEN None ELSE w.wwatch[f]]
  OBVIOUS
<1>4. g \in [FDs -> Reqs \cup {None}]
  BY <1>2, <1>3 DEF StateType
<1>5. w' = [w EXCEPT !.wwatch = g]
  <2>1. [f \in FDs |-> IF f = fd /\ FALSE THEN None ELSE w.rwatch[f]] = w.rwatch
    BY <1>2 DEF StateType
  <2>2. [f \in FDs |-> IF f = fd /\ TRUE THEN None ELSE w.wwatch[f]] = g
    BY <1>3
  <2> QED
    BY <1>1, <1>2, <2>1, <2>2 DEF remove_fd, StateType
<1>6. w' \in StateType
  BY <1>2, <1>4, <1>5 DEF StateType
<1>7. Files(w') = Files(w) /\ Chains(w') = Chains(w) /\ Books(w') = Books(w)
  BY <1>2, <1>5 DEF StateType, Files, Chains, Books
<1>8. BooksChange(w, w')
  <2>1. w'.entry = w.entry /\ w'.done = w.done /\ w'.clients = w.clients
    BY <1>7 DEF Books
  <2> QED
    BY <1>2, <1>6, <1>7, <2>1 DEF BooksChange, BooksOK
<1>9. Sound(w', None) /\ AllFull(w') /\ Since(w, w')
  BY <1>1, <1>8, BooksSound DEF IInv
<1> QED
  BY <1>1, <1>9, StillAwaited DEF IInv

LEMMA StopKeeps == IInv /\ Stop => IInv'
<1>1. SUFFICES ASSUME IInv, Stop PROVE IInv'
  OBVIOUS
<1>stops. PICK r \in w.clients : \E x :
        /\ x = a_Capi_conn_abort_by_url(w, UrlOf[r]) \/ x = w
        /\ w' = [x EXCEPT !.clients = @ \ {r}, !.web = @ \ {r}]
  BY <1>1 DEF Stop
<1>2. PICK x :
        /\ x = a_Capi_conn_abort_by_url(w, UrlOf[r]) \/ x = w
        /\ w' = [x EXCEPT !.clients = @ \ {r}, !.web = @ \ {r}]
  BY <1>stops
<1>3. Sound(x, None) /\ AllFull(x) /\ Since(w, x)
  <2>1. CASE x = w
    BY <1>1, <2>1, SinceChain DEF IInv
  <2>2. CASE x = a_Capi_conn_abort_by_url(w, UrlOf[r])
    BY <1>1, <2>2, AbortByUrl DEF IInv
  <2> QED
    BY <1>2, <2>1, <2>2
<1>4. x \in StateType /\ BooksOK(x)
  BY <1>3 DEF Sound, EntriesOK
<1>5. PICK C, W : C = x.clients \ {r} /\ W = x.web \ {r}
  OBVIOUS
<1>6. C \in SUBSET Reqs /\ W \in SUBSET Reqs /\ w' = [x EXCEPT !.clients = C, !.web = W]
  BY <1>2, <1>4, <1>5 DEF StateType
<1>7. w' \in StateType /\ w'.clients = C
  BY <1>4, <1>6 DEF StateType
<1>8. /\ Files(w') = Files(x) /\ Chains(w') = Chains(x)
      /\ w'.entry = x.entry /\ w'.done = x.done
  BY <1>4, <1>6 DEF StateType, Files, Chains
<1>9. BooksChange(x, w')
  BY <1>4, <1>5, <1>7, <1>8 DEF BooksChange, BooksOK
<1>10. Sound(w', None) /\ AllFull(w') /\ Since(x, w')
  BY <1>3, <1>9, BooksSound
<1>11. Awaited(w', None)
  BY <1>1, <1>3, <1>10, StillAwaited DEF IInv
<1> QED
  BY <1>10, <1>11 DEF IInv

LEMMA InitSound == Init => IInv
<1>1. SUFFICES ASSUME Init PROVE IInv
  OBVIOUS
<1>2. PICK bad \in SUBSET Reqs :
        w = [bad |-> bad, started |-> {}, web |-> {}, clients |-> {},
             entry |-> {}, done |-> {}, send |-> {}, recv |-> {}, Ref |-> [r \in Reqs |-> 0],
             sock |-> [r \in Reqs |-> "none"], asked |-> {},
             queue |-> [h \in Hosts |-> <<>>],
             active_connections |-> [h \in Hosts |-> 0],
             wio |-> [r \in Reqs |-> NoIO], rio |-> [r \in Reqs |-> NoIO],
             open |-> [fd \in FDs |-> None], rwatch |-> [fd \in FDs |-> None],
             wwatch |-> [fd \in FDs |-> None], failed |-> {},
             aborted |-> {}]
  BY <1>1 DEF Init
<1>3. NoIO \in IOType /\ NoIO.st = "none"
  <2>1. PICK k : k = -1
    OBVIOUS
  <2> QED
    BY <2>1 DEF NoIO, IOType
<1>4. w \in StateType
  <2>1. PICK io, q, n : /\ io = [r \in Reqs |-> NoIO]
                        /\ q = [h \in Hosts |-> <<>>] /\ n = [fd \in FDs |-> None]
    OBVIOUS
  <2>2. /\ io \in [Reqs -> IOType] /\ q \in [Hosts -> Seq(Reqs)]
        /\ n \in [FDs -> Reqs \cup {None}]
    BY <1>3, <2>1
  <2> QED
    BY <1>2, <2>1, <2>2 DEF StateType, IOType, SocketStates
<1>5. /\ w.started = {} /\ w.clients = {} /\ w.entry = {} /\ w.done = {}
      /\ w.send = {} /\ w.recv = {}
      /\ \A r \in Reqs : w.Ref[r] = 0 /\ w.sock[r] = "none" /\ w.rio[r] = NoIO
      /\ \A h \in Hosts : w.queue[h] = <<>> /\ w.active_connections[h] = 0
      /\ \A fd \in FDs : w.open[fd] = None /\ w.rwatch[fd] = None
  BY <1>2
<1>6. \A r \in Reqs : Regular(w, r)
  BY <1>3, <1>5 DEF Regular, IOsFit, Live
<1>7. QueuesOK(w)
  BY <1>5 DEF QueuesOK
<1>8. Counted(w)
  <2>1. \A h \in Hosts : Conns(w, h) = {}
    BY <1>5 DEF Conns
  <2>2. IsFiniteSet({}) /\ Cardinality({}) = 0
    BY FS_EmptySet
  <2>3. 0 <= http_max_conns
    BY HttpAssumption
  <2> QED
    BY <1>5, <2>1, <2>2, <2>3 DEF Counted
<1>9. FilesOK(w) /\ OneConn(w) /\ EntriesOK(w, None) /\ AllFull(w) /\ Awaited(w, None)
  BY <1>3, <1>5 DEF FilesOK, OneConn, EntriesOK, BooksOK, AllFull, Full, Awaited
<1> QED
  BY <1>4, <1>6, <1>7, <1>8, <1>9 DEF IInv, Sound

\* The invariant holds between the callbacks of the main loop.
THEOREM InvariantHolds == Spec => []IInv
<1>1. IInv /\ [Next]_w => IInv'
  <2>1. SUFFICES ASSUME IInv, [Next]_w PROVE IInv'
    OBVIOUS
  <2>2. CASE UNCHANGED w
    BY <2>1, <2>2 DEF IInv
  <2> QED
    BY <2>1, <2>2, OpenKeeps, JoinKeeps, DnsAnswerKeeps, ReadDataKeeps, ReadEndKeeps,
       ReadErrorKeeps, WriteEndKeeps, StopKeeps DEF Next
<1> QED
  BY <1>1, InitSound, PTL DEF Spec

----------------------------------------------------------------------------
(* What the invariant means                                                *)

\* The references of a conn are its branches, and no query branch is without an
\* answer branch: a_Capi_conn_abort_by_url may look at a conn whose query branch
\* it has just aborted.
THEOREM ConnsHaveBranches == Spec => []BranchesTogether
<1>1. ASSUME IInv PROVE BranchesTogether
  <2>1. w \in StateType /\ \A r \in Reqs : Regular(w, r)
    BY <1>1, NoNumber DEF IInv, Sound
  <2>2. w.send \subseteq w.recv
    BY <2>1 DEF StateType, Regular
  <2>3. ASSUME NEW r \in Reqs
        PROVE  w.Ref[r] = (IF r \in w.send THEN 1 ELSE 0) + (IF r \in w.recv THEN 1 ELSE 0)
    BY <2>1 DEF Regular
  <2> QED
    BY <2>1, <2>2, <2>3 DEF BranchesTogether, TypeOK
<1> QED
  BY <1>1, InvariantHolds, PTL

\* Http_connect_queued_sockets and Http_socket_free count right, whatever ends,
\* fails or is stopped: the limit per host is kept and never left unused while a
\* socket waits for it.
THEOREM LimitKeptAndUsed == Spec => []SlotsCounted
<1>1. ASSUME IInv PROVE SlotsCounted
  BY <1>1 DEF IInv, Sound, Counted, Conns, AllFull, Full, SlotsCounted
<1> QED
  BY <1>1, InvariantHolds, PTL

\* A descriptor that is open belongs to the reading IO of a request that has its
\* answer branch: IO_close_fd gets to all of them.
THEOREM NoDescriptorLeaks == Spec => []NoLeak
<1>1. ASSUME IInv PROVE NoLeak
  <2>1. SUFFICES ASSUME NEW fd \in FDs, w.open[fd] # None
                 PROVE  w.rio[w.open[fd]] = Submitted(fd) /\ w.open[fd] \in w.recv
    BY DEF NoLeak
  <2>2. PICK r : r = w.open[fd]
    OBVIOUS
  <2>3. r \in Reqs /\ w.rio[r] = Submitted(fd)
    BY <1>1, <2>1, <2>2 DEF IInv, Sound, StateType, FilesOK
  <2>4. Regular(w, r)
    BY <1>1, <2>3, NoNumber DEF IInv, Sound
  <2> QED
    BY <2>2, <2>3, <2>4 DEF Regular, Submitted
<1> QED
  BY <1>1, InvariantHolds, PTL

\* Until a connected request is aborted, IO_close_fd closes nobody else's socket.
THEOREM DescriptorsAreOwn == Spec => []OwnDescriptor
<1>1. ASSUME IInv PROVE OwnDescriptor
  BY <1>1 DEF IInv, Sound, FilesOK, OwnDescriptor
<1> QED
  BY <1>1, InvariantHolds, PTL

\* Every client waits for something that the main loop will hear of, unless the
\* run was disturbed by one of the three things that the code leaves open.
THEOREM ClientsArePursued == Spec => []NobodyForgotten
<1>1. ASSUME IInv PROVE NobodyForgotten
  <2>1. SUFFICES ASSUME ~Disturbed, NEW c \in w.clients
                 PROVE  \E r \in Reqs : UrlOf[r] = UrlOf[c] /\ Pursued(r)
    BY DEF NobodyForgotten
  <2>2. w \in StateType /\ QueuesOK(w) /\ FilesOK(w) /\ EntriesOK(w, None)
        /\ Awaited(w, None)
    BY <1>1 DEF IInv, Sound
  <2>3. PICK r \in w.recv : UrlOf[r] = UrlOf[c]
    BY <2>2, NoNumber DEF EntriesOK, BooksOK
  <2>4. r \in Reqs /\ Regular(w, r)
    BY <1>1, <2>2, <2>3, NoNumber DEF IInv, Sound, StateType
  <2>5. w.sock[r] \in {"resolving", "queued", "connected"}
    BY <2>1, <2>3, <2>4 DEF Disturbed, Regular, Live
  <2>6. CASE w.sock[r] = "resolving"
    BY <2>2, <2>3, <2>4, <2>6, NoNumber DEF Awaited, Pursued
  <2>7. CASE w.sock[r] = "queued"
    <3>1. PICK q : q = w.queue[HostOf[r]]
      OBVIOUS
    <3>2. PICK i \in 1 .. Len(q) : q[i] = r
      BY <2>2, <2>4, <2>7, <3>1 DEF QueuesOK
    <3>3. q \in Seq(Reqs)
      BY <2>2, <2>4, <3>1, OfRequest DEF StateType
    <3>4. DOMAIN q = 1 .. Len(q)
      BY <3>3
    <3>5. r \in Range(q)
      BY <3>2, <3>4 DEF Range
    <3> QED
      BY <2>3, <2>4, <2>7, <3>1, <3>5 DEF Pursued
  <2>8. CASE w.sock[r] = "connected"
    <3>1. w.rio[r].st = "submitted"
      BY <2>4, <2>8 DEF Regular, IOsFit
    <3>2. w.rwatch[w.rio[r].fd] = r
      BY <2>1, <2>2, <2>4, <3>1 DEF Disturbed, FilesOK
    <3> QED
      BY <2>3, <2>4, <2>8, <3>2 DEF Pursued
  <2> QED
    BY <2>5, <2>6, <2>7, <2>8
<1> QED
  BY <1>1, InvariantHolds, PTL
=============================================================================
