---------------------------- MODULE CacheProofs ----------------------------
(***************************************************************************)
(* Proofs about Cache, for any finite sets of URLs and clients, any amount *)
(* of data and any limit of redirections.                                  *)
(*                                                                         *)
(* A callback is one action, in which entries are removed and made, and    *)
(* clients are served and redirected, in loops.  What holds between two    *)
(* calls is Sound(x, W, J): but for the URLs in W, a connection has its    *)
(* entry, and but for the clients in J, a client without data may still be *)
(* redirected.  Both sets are empty between the callbacks.                 *)
(*                                                                         *)
(* That whoever waits is served (WaitersAreServed) needs more: that the    *)
(* loops come to their end, for which something must grow less with every  *)
(* turn.  See the last part.                                               *)
(***************************************************************************)
EXTENDS Cache, FiniteSetTheorems, WellFoundedInduction, NaturalsInduction, TLAPS

\* The positions of the queue of clients.
Places(x) == 1 .. Len(x.ClientQueue)

Has(x, k) == \E n \in Places(x) : x.ClientQueue[n].key = k

\* Nobody is queued twice, or after it was told the end, and what is queued points
\* at an entry that is there.
QueuesOK(x) ==
  /\ \A m, n \in Places(x) : x.ClientQueue[m].key = x.ClientQueue[n].key => m = n
  /\ \A n \in Places(x) : LET cl == x.ClientQueue[n]
                          IN  /\ cl.key \notin x.closed
                              /\ cl.id = x.entries[cl.url].id /\ cl.id # 0
  /\ \A n \in 1 .. Len(x.DelayedQueue) : LET d == x.DelayedQueue[n]
                                         IN  d[2] = x.entries[d[1]].id /\ d[2] # 0

\* A page that redirects names another one, and a page whose type is known has data
\* or is over.
PageOK(e, u) == /\ e.kind \in CA_Redirect => e.to \in Urls \ {u}
                /\ e.typed /\ ~e.GotData => e.data > 0

\* An entry that is being received is there and not at its end.
ConnsOK(x, W) ==
  \A u \in x.conns \ W : x.entries[u].id # 0 /\ ~x.entries[u].GotData

LevelsOK(x, J) ==
  \A n \in Places(x) : LET cl == x.ClientQueue[n]
                       IN  cl.BufSize = 0 /\ cl.key \notin J => x.level[cl.key] < RedirectLimit

Sound(x, W, J) ==
  /\ x \in StateType
  /\ QueuesOK(x) /\ ConnsOK(x, W) /\ LevelsOK(x, J)
  /\ \A u \in Urls : PageOK(x.entries[u], u)

\* The references of an entry's data, n of them besides the one of its connection.
Counted(e, n) == ~e.spared => e.refs = n + IF e.header /\ ~e.GotData THEN 1 ELSE 0

\* Clients that have not asked yet.
Unborn == \A k \in Keys : k \notin c.closed \cup gone /\ ~Has(c, k) => c.level[k] = 0

IInv == /\ Sound(c, {}, {}) /\ (\A v \in Urls : Counted(c.entries[v], 0))
        /\ gone \subseteq Keys /\ stopped \subseteq Urls
        /\ \A k \in gone : ~Has(c, k)
        /\ Unborn

----------------------------------------------------------------------------
(* What became of whom                                                     *)

SamePage(e, f) == f.kind = e.kind /\ f.data = e.data /\ f.GotData = e.GotData

\* Client j, from state x to state y.  If it was told the end, that is it; if it was
\* not there, it is not; and if its page does not redirect, it is at its page still,
\* or was told the end with all the data, or is lost.
Fate(x, y, j) ==
  /\ j \in x.closed => j \in y.closed /\ y.got[j] = x.got[j]
  /\ ~Has(x, j) /\ j \notin x.closed
        => ~Has(y, j) /\ j \notin y.closed /\ y.level[j] = x.level[j]
  /\ \A n \in Places(x) :
       LET u == x.ClientQueue[n].url
       IN  x.ClientQueue[n].key = j /\ x.entries[u].kind \notin CA_Redirect =>
             \/ ~Has(y, j) /\ j \notin y.closed
             \/ \E m \in Places(y) : /\ y.ClientQueue[m].key = j
                                     /\ y.ClientQueue[m].url = u
                                     /\ SamePage(x.entries[u], y.entries[u])
             \/ /\ j \in y.closed /\ y.got[j] = x.entries[u].data
                /\ x.entries[u].GotData

Since(x, y, K) == \A j \in Keys \ K : Fate(x, y, j)

LEMMA SinceChain ==
  ASSUME NEW K, NEW x, NEW y, NEW z, Since(x, y, K), Since(y, z, K)
  PROVE  Since(x, z, K)
<1> SUFFICES ASSUME NEW j \in Keys \ K PROVE Fate(x, z, j)
  BY DEF Since
<1>1. Fate(x, y, j) /\ Fate(y, z, j)
  BY DEF Since
<1>2. /\ j \in x.closed => j \in z.closed /\ z.got[j] = x.got[j]
      /\ ~Has(x, j) /\ j \notin x.closed
           => ~Has(z, j) /\ j \notin z.closed /\ z.level[j] = x.level[j]
  BY <1>1 DEF Fate
<1>3. ASSUME NEW n \in Places(x), NEW u, u = x.ClientQueue[n].url,
             x.ClientQueue[n].key = j, x.entries[u].kind \notin CA_Redirect
      PROVE  \/ ~Has(z, j) /\ j \notin z.closed
             \/ \E m \in Places(z) : /\ z.ClientQueue[m].key = j
                                     /\ z.ClientQueue[m].url = u
                                     /\ SamePage(x.entries[u], z.entries[u])
             \/ /\ j \in z.closed /\ z.got[j] = x.entries[u].data
                /\ x.entries[u].GotData
  <2>1. CASE ~Has(y, j) /\ j \notin y.closed
    BY <1>1, <2>1 DEF Fate
  <2>2. CASE j \in y.closed /\ y.got[j] = x.entries[u].data /\ x.entries[u].GotData
    BY <1>1, <2>2 DEF Fate
  <2>3. ASSUME NEW m \in Places(y), y.ClientQueue[m].key = j, y.ClientQueue[m].url = u,
               SamePage(x.entries[u], y.entries[u])
        PROVE  \/ ~Has(z, j) /\ j \notin z.closed
               \/ \E o \in Places(z) : /\ z.ClientQueue[o].key = j
                                       /\ z.ClientQueue[o].url = u
                                       /\ SamePage(x.entries[u], z.entries[u])
               \/ /\ j \in z.closed /\ z.got[j] = x.entries[u].data
                  /\ x.entries[u].GotData
    <3>1. \/ ~Has(z, j) /\ j \notin z.closed
          \/ \E o \in Places(z) : /\ z.ClientQueue[o].key = j
                                  /\ z.ClientQueue[o].url = u
                                  /\ SamePage(y.entries[u], z.entries[u])
          \/ /\ j \in z.closed /\ z.got[j] = y.entries[u].data
             /\ y.entries[u].GotData
      BY <1>1, <1>3, <2>3, ZenonT(30) DEF Fate, SamePage
    <3> QED
      BY <2>3, <3>1 DEF SamePage
  <2> QED
    BY <1>1, <1>3, <2>1, <2>2, <2>3 DEF Fate
<1> QED
  BY <1>2, <1>3 DEF Fate

LEMMA SinceMore ==
  ASSUME NEW K, NEW L, K \subseteq L, NEW x, NEW y, Since(x, y, K)
  PROVE  Since(x, y, L)
BY DEF Since

----------------------------------------------------------------------------
(* Queues                                                                  *)

\* A set of naturals has a least element.
LEMMA LeastOf ==
  ASSUME NEW S \in SUBSET Nat, S # {}
  PROVE  \E i \in S : \A j \in S : i <= j
<1> DEFINE R == OpToRel(<, Nat)
<1>1. \E i \in S : \A j \in S : ~(<<j, i>> \in R)
  BY NatLessThanWellFounded, WFMin
<1>2. \A i, j \in Nat : ~(<<j, i>> \in R) => i <= j
  BY DEF OpToRel
<1> QED
  BY <1>1, <1>2

\* One turn of the recursion of Without.
Keep(r, e, S) == IF e \in S THEN r ELSE Append(r, e)

IsKept(f, q, S, n) ==
  f = [k \in 0 .. n |-> IF k = 0 THEN <<>> ELSE Keep(f[k - 1], q[k], S)]

\* The recursive function of Without exists.
LEMMA KeptExists ==
  ASSUME NEW q, NEW S, NEW n \in Nat
  PROVE  \E f : IsKept(f, q, S, n)
<1> DEFINE B == {k \in Nat : ~\E f : IsKept(f, q, S, k)}
<1>1. SUFFICES ASSUME B # {} PROVE FALSE
  OBVIOUS
<1>2. PICK k \in B : \A j \in B : k <= j
  BY <1>1, LeastOf
<1>3. CASE k = 0
  <2> DEFINE f == [j \in 0 .. 0 |-> <<>>]
  <2>1. f = [j \in 0 .. 0 |-> IF j = 0 THEN <<>> ELSE Keep(f[j - 1], q[j], S)]
    OBVIOUS
  <2> QED
    BY <1>2, <1>3, <2>1 DEF IsKept
<1>4. CASE k # 0
  <2>1. k - 1 \in Nat /\ k - 1 \notin B /\ k \in Nat
    BY <1>2, <1>4
  <2>2. PICK f : IsKept(f, q, S, k - 1)
    BY <2>1
  <2>3. \A j \in 0 .. k - 1 : f[j] = IF j = 0 THEN <<>> ELSE Keep(f[j - 1], q[j], S)
    BY <2>1, <2>2 DEF IsKept
  <2> DEFINE g == [j \in 0 .. k |-> IF j = k THEN Keep(f[k - 1], q[k], S) ELSE f[j]]
  <2>4. ASSUME NEW j \in 0 .. k
        PROVE  g[j] = IF j = 0 THEN <<>> ELSE Keep(g[j - 1], q[j], S)
    <3>1. CASE j = k
      BY <1>4, <2>1, <3>1
    <3>2. CASE j # k
      <4>1. j \in 0 .. k - 1 /\ (j # 0 => j - 1 \in 0 .. k /\ j - 1 # k)
        BY <2>1, <3>2
      <4> QED
        BY <2>1, <2>3, <3>2, <4>1
    <3> QED
      BY <3>1, <3>2
  <2>5. g = [j \in 0 .. k |-> g[j]]
    OBVIOUS
  <2> HIDE DEF g
  <2>6. [j \in 0 .. k |-> g[j]] =
          [j \in 0 .. k |-> IF j = 0 THEN <<>> ELSE Keep(g[j - 1], q[j], S)]
    BY <2>4
  <2>7. IsKept(g, q, S, k)
    BY <2>5, <2>6 DEF IsKept
  <2> QED
    BY <1>2, <2>7
<1> QED
  BY <1>3, <1>4

LEMMA WithoutIsKept ==
  ASSUME NEW q, NEW S, Len(q) \in Nat
  PROVE  \E f : IsKept(f, q, S, Len(q)) /\ Without(q, S) = f[Len(q)]
<1> DEFINE f == CHOOSE f : f = [n \in 0 .. Len(q) |->
                    IF n = 0 THEN <<>>
                    ELSE IF q[n] \in S THEN f[n - 1] ELSE Append(f[n - 1], q[n])]
<1>1. \E e : e = [n \in 0 .. Len(q) |->
                    IF n = 0 THEN <<>>
                    ELSE IF q[n] \in S THEN e[n - 1] ELSE Append(e[n - 1], q[n])]
  <2>1. PICK e : IsKept(e, q, S, Len(q))
    BY KeptExists
  <2>2. e = [n \in 0 .. Len(q) |->
               IF n = 0 THEN <<>>
               ELSE IF q[n] \in S THEN e[n - 1] ELSE Append(e[n - 1], q[n])]
    BY <2>1 DEF IsKept, Keep
  <2> QED
    BY <2>2, Zenon
<1>2. f = [n \in 0 .. Len(q) |->
             IF n = 0 THEN <<>>
             ELSE IF q[n] \in S THEN f[n - 1] ELSE Append(f[n - 1], q[n])]
  BY <1>1, Zenon
<1>3. Without(q, S) = f[Len(q)]
  BY DEF Without
<1> HIDE DEF f
<1> QED
  BY <1>2, <1>3 DEF IsKept, Keep

\* r has the first k members of q that are not in S, each from a place of its own.
Part(r, q, S, k) ==
  /\ \E f \in [1 .. Len(r) -> 1 .. k] :
       \A i, j \in 1 .. Len(r) : r[i] = q[f[i]] /\ (f[i] = f[j] => i = j)
  /\ \A i \in 1 .. Len(r) : r[i] \notin S
  /\ \A n \in 1 .. k : q[n] \notin S => \E i \in 1 .. Len(r) : r[i] = q[n]

LEMMA PartStep ==
  ASSUME NEW T, NEW q \in Seq(T), NEW S, NEW k \in 1 .. Len(q),
         NEW r \in Seq(T), Part(r, q, S, k - 1)
  PROVE  Keep(r, q[k], S) \in Seq(T) /\ Part(Keep(r, q[k], S), q, S, k)
<1>1. PICK f \in [1 .. Len(r) -> 1 .. k - 1] :
        \A i, j \in 1 .. Len(r) : r[i] = q[f[i]] /\ (f[i] = f[j] => i = j)
  BY DEF Part
<1>2. k \in Nat /\ Len(q) \in Nat /\ q[k] \in T /\ Len(r) \in Nat
  OBVIOUS
<1>3. CASE q[k] \in S
  <2>1. Keep(r, q[k], S) = r
    BY <1>3 DEF Keep
  <2>2. f \in [1 .. Len(r) -> 1 .. k]
    BY <1>1, <1>2
  <2>3. \A n \in 1 .. k : q[n] \notin S => n \in 1 .. k - 1
    BY <1>2, <1>3
  <2>4. \E g \in [1 .. Len(r) -> 1 .. k] :
          \A i, j \in 1 .. Len(r) : r[i] = q[g[i]] /\ (g[i] = g[j] => i = j)
    BY <1>1, <2>2
  <2>5. \A n \in 1 .. k : q[n] \notin S => \E i \in 1 .. Len(r) : r[i] = q[n]
    BY <2>3 DEF Part
  <2>6. \A i \in 1 .. Len(r) : r[i] \notin S
    BY DEF Part
  <2>7. Part(r, q, S, k)
    BY ONLY <2>4, <2>5, <2>6, Zenon DEF Part
  <2> QED
    BY <2>1, <2>7
<1>4. CASE q[k] \notin S
  <2> DEFINE a == Append(r, q[k])
             g == [i \in 1 .. Len(r) + 1 |-> IF i = Len(r) + 1 THEN k ELSE f[i]]
  <2>1. Keep(r, q[k], S) = a
    BY <1>4 DEF Keep
  <2>2. /\ a \in Seq(T) /\ Len(a) = Len(r) + 1 /\ a[Len(r) + 1] = q[k]
        /\ \A i \in 1 .. Len(r) : a[i] = r[i]
    BY <1>2
  <2>3. \A i \in 1 .. Len(r) + 1 : i # Len(r) + 1 => i \in 1 .. Len(r)
    BY <1>2
  <2>4. \A i \in 1 .. Len(r) : f[i] \in 1 .. k /\ f[i] # k /\ i \in 1 .. Len(r) + 1
    BY <1>1, <1>2
  <2>5. g \in [1 .. Len(r) + 1 -> 1 .. k]
    BY <1>2, <2>3, <2>4
  <2>6. /\ g[Len(r) + 1] = k /\ Len(r) + 1 \in 1 .. Len(r) + 1
        /\ \A i \in 1 .. Len(r) : g[i] = f[i] /\ i # Len(r) + 1
    BY <1>2, <2>4
  <2> HIDE DEF g, a
  <2>7. \A i, j \in 1 .. Len(a) : a[i] = q[g[i]] /\ (g[i] = g[j] => i = j)
    BY <1>1, <2>2, <2>3, <2>4, <2>6, SMTT(30)
  <2>8. \A i \in 1 .. Len(a) : a[i] \notin S
    BY <1>4, <2>2, <2>3 DEF Part
  <2>9. ASSUME NEW n \in 1 .. k, q[n] \notin S PROVE \E i \in 1 .. Len(a) : a[i] = q[n]
    <3>1. CASE n = k
      BY <2>2, <2>6, <3>1
    <3>2. CASE n # k
      <4>1. n \in 1 .. k - 1
        BY <1>2, <3>2
      <4>2. PICK i \in 1 .. Len(r) : r[i] = q[n]
        BY <2>9, <4>1 DEF Part
      <4> QED
        BY <2>2, <2>4, <4>2
    <3> QED
      BY <3>1, <3>2
  <2> QED
    BY <2>1, <2>2, <2>5, <2>7, <2>8, <2>9 DEF Part
<1> QED
  BY <1>3, <1>4

\* What Without leaves.
LEMMA WithoutPart ==
  ASSUME NEW T, NEW q \in Seq(T), NEW S
  PROVE  Without(q, S) \in Seq(T) /\ Part(Without(q, S), q, S, Len(q))
<1>1. Len(q) \in Nat
  OBVIOUS
<1>2. PICK f : IsKept(f, q, S, Len(q)) /\ Without(q, S) = f[Len(q)]
  BY <1>1, WithoutIsKept
<1>3. \A k \in 0 .. Len(q) : f[k] = IF k = 0 THEN <<>> ELSE Keep(f[k - 1], q[k], S)
  BY <1>2 DEF IsKept
<1> DEFINE B == {k \in 0 .. Len(q) : ~(f[k] \in Seq(T) /\ Part(f[k], q, S, k))}
<1>4. SUFFICES ASSUME B # {} PROVE FALSE
  BY <1>1, <1>2
<1>5. PICK k \in B : \A j \in B : k <= j
  <2>1. B \in SUBSET Nat
    BY <1>1
  <2> HIDE DEF B
  <2> QED
    BY <1>4, <2>1, LeastOf
<1>6. CASE k = 0
  <2>1. f[k] = <<>>
    BY <1>1, <1>3, <1>6
  <2>2. <<>> \in Seq(T) /\ Len(<<>>) = 0
    OBVIOUS
  <2>3. Part(<<>>, q, S, 0)
    <3>1. [i \in 1 .. 0 |-> 1] \in [1 .. 0 -> 1 .. 0]
      OBVIOUS
    <3>2. \A i \in 1 .. 0 : FALSE
      OBVIOUS
    <3> QED
      BY <2>2, <3>1, <3>2 DEF Part
  <2> QED
    BY <1>5, <1>6, <2>1, <2>2, <2>3
<1>7. CASE k # 0
  <2>1. k \in 1 .. Len(q) /\ k - 1 \in 0 .. Len(q) /\ k - 1 \notin B
    BY <1>1, <1>5, <1>7
  <2>2. f[k] = Keep(f[k - 1], q[k], S)
    BY <1>3, <1>7, <2>1
  <2>3. f[k - 1] \in Seq(T) /\ Part(f[k - 1], q, S, k - 1)
    BY <2>1
  <2> QED
    BY <1>5, <2>1, <2>2, <2>3, PartStep
<1> QED
  BY <1>6, <1>7

----------------------------------------------------------------------------
(* Clients and entries that go                                             *)

\* The clients of y are clients of x, each from a place of its own.
Embeds(x, y) ==
  \E f \in [Places(y) -> Places(x)] :
    \A i, j \in Places(y) : /\ y.ClientQueue[i] = x.ClientQueue[f[i]]
                            /\ f[i] = f[j] => i = j

\* From x to y clients leave the queue, entries leave DelayedQueue, connections end,
\* and entries are removed that no queue has any more.
Shrinks(x, y, W) ==
  /\ y \in StateType
  /\ y.closed = x.closed /\ y.level = x.level /\ y.got = x.got
  /\ Embeds(x, y)
  /\ \A i \in 1 .. Len(y.DelayedQueue) :
       \E j \in 1 .. Len(x.DelayedQueue) : y.DelayedQueue[i] = x.DelayedQueue[j]
  /\ y.conns \subseteq x.conns
  /\ \A u \in Urls : y.entries[u] # x.entries[u] =>
       /\ y.entries[u] = Nobody /\ u \notin y.conns \ W
       /\ \A n \in Places(y) : y.ClientQueue[n].url # u
       /\ \A n \in 1 .. Len(y.DelayedQueue) : y.DelayedQueue[n][1] # u

\* A client is a record, and an entry too.
LEMMA MemberTypes ==
  ASSUME NEW x, x \in StateType
  PROVE  /\ x.ClientQueue \in Seq(Client) /\ Len(x.ClientQueue) \in Nat
         /\ \A n \in Places(x) : /\ x.ClientQueue[n] \in Client
                                 /\ x.ClientQueue[n].key \in Keys
                                 /\ x.ClientQueue[n].url \in Urls
                                 /\ x.ClientQueue[n].id \in Nat
                                 /\ x.ClientQueue[n].root \in BOOLEAN
                                 /\ x.ClientQueue[n].BufSize \in Nat
         /\ x.DelayedQueue \in Seq(Urls \X Nat) /\ Len(x.DelayedQueue) \in Nat
         /\ \A n \in 1 .. Len(x.DelayedQueue) : /\ x.DelayedQueue[n] \in Urls \X Nat
                                                /\ x.DelayedQueue[n][1] \in Urls
                                                /\ x.DelayedQueue[n][2] \in Nat
         /\ x.entries \in [Urls -> Entry]
         /\ x.conns \subseteq Urls /\ x.closed \subseteq Keys
         /\ x.got \in [Keys -> 0 .. MaxData] /\ x.level \in [Keys -> 0 .. RedirectLimit]
<1>1. /\ x.ClientQueue \in Seq(Client) /\ x.DelayedQueue \in Seq(Urls \X Nat)
      /\ x.entries \in [Urls -> Entry]
      /\ x.conns \subseteq Urls /\ x.closed \subseteq Keys
      /\ x.got \in [Keys -> 0 .. MaxData] /\ x.level \in [Keys -> 0 .. RedirectLimit]
  BY DEF StateType
<1>2. \A n \in Places(x) : x.ClientQueue[n] \in Client
  BY <1>1 DEF Places
<1>3. \A cl \in Client : /\ cl.key \in Keys /\ cl.url \in Urls /\ cl.id \in Nat
                         /\ cl.root \in BOOLEAN /\ cl.BufSize \in Nat
  BY DEF Client
<1>4. \A n \in 1 .. Len(x.DelayedQueue) : x.DelayedQueue[n] \in Urls \X Nat
  BY <1>1
<1> QED
  BY <1>1, <1>2, <1>3, <1>4

LEMMA NobodyIs ==
  /\ Nobody \in Entry
  /\ \A u : PageOK(Nobody, u)
  /\ Counted(Nobody, 0) /\ Nobody.id = 0 /\ ~Nobody.spared
<1>1. 0 \in 0 .. MaxData
  BY CacheAssumption
<1> QED
  BY <1>1 DEF Nobody, Entry, PageOK, Counted, CA_Redirect, Kinds

LEMMA ShrunkSound ==
  ASSUME NEW W, NEW J, NEW x, NEW y, Sound(x, W, J), Shrinks(x, y, W)
  PROVE  Sound(y, W, J) /\ Since(x, y, {})
<1>1. PICK f \in [Places(y) -> Places(x)] :
        \A i, j \in Places(y) : /\ y.ClientQueue[i] = x.ClientQueue[f[i]]
                                /\ f[i] = f[j] => i = j
  BY DEF Shrinks, Embeds
<1>2. x \in StateType /\ y \in StateType /\ QueuesOK(x) /\ ConnsOK(x, W) /\ LevelsOK(x, J)
  BY DEF Sound, Shrinks
<1>3. y.closed = x.closed /\ y.level = x.level /\ y.got = x.got /\ y.conns \subseteq x.conns
  BY DEF Shrinks
<1>4. \A n \in Places(y) : y.entries[y.ClientQueue[n].url] = x.entries[y.ClientQueue[n].url]
  <2>1. \A n \in Places(y) : y.ClientQueue[n].url \in Urls
    BY <1>2, MemberTypes
  <2> QED
    BY <2>1 DEF Shrinks
<1>5. QueuesOK(y)
  <2>1. \A m, n \in Places(y) : y.ClientQueue[m].key = y.ClientQueue[n].key => m = n
    <3>1. \A n \in Places(y) : f[n] \in Places(x) /\ y.ClientQueue[n] = x.ClientQueue[f[n]]
      BY <1>1
    <3>2. \A m, n \in Places(x) : x.ClientQueue[m].key = x.ClientQueue[n].key => m = n
      BY <1>2 DEF QueuesOK
    <3>3. \A m, n \in Places(y) : f[m] = f[n] => m = n
      BY <1>1
    <3> QED
      BY ONLY <3>1, <3>2, <3>3
  <2>2. ASSUME NEW n \in Places(y)
        PROVE  /\ y.ClientQueue[n].key \notin y.closed
               /\ y.ClientQueue[n].id = y.entries[y.ClientQueue[n].url].id
               /\ y.ClientQueue[n].id # 0
    <3>1. f[n] \in Places(x) /\ y.ClientQueue[n] = x.ClientQueue[f[n]]
      BY <1>1
    <3> QED
      BY <1>2, <1>3, <1>4, <3>1 DEF QueuesOK
  <2>3. ASSUME NEW n \in 1 .. Len(y.DelayedQueue)
        PROVE  /\ y.DelayedQueue[n][2] = y.entries[y.DelayedQueue[n][1]].id
               /\ y.DelayedQueue[n][2] # 0
    <3>1. PICK m \in 1 .. Len(x.DelayedQueue) : y.DelayedQueue[n] = x.DelayedQueue[m]
      BY DEF Shrinks
    <3>2. x.DelayedQueue[m][2] = x.entries[x.DelayedQueue[m][1]].id /\ x.DelayedQueue[m][2] # 0
      BY <1>2 DEF QueuesOK
    <3>3. y.DelayedQueue[n][1] \in Urls
      BY <1>2, MemberTypes
    <3>4. y.entries[y.DelayedQueue[n][1]] = x.entries[y.DelayedQueue[n][1]]
      BY <3>3 DEF Shrinks
    <3> QED
      BY <3>1, <3>2, <3>4
  <2> QED
    BY <2>1, <2>2, <2>3 DEF QueuesOK
<1>6. ConnsOK(y, W)
  <2>1. ASSUME NEW u \in y.conns \ W PROVE y.entries[u].id # 0 /\ ~y.entries[u].GotData
    <3>1. u \in Urls /\ u \in x.conns \ W
      BY <1>2, <1>3, MemberTypes
    <3>2. y.entries[u] = x.entries[u]
      BY <3>1 DEF Shrinks
    <3> QED
      BY <1>2, <3>1, <3>2 DEF ConnsOK
  <2> QED
    BY <2>1 DEF ConnsOK
<1>7. LevelsOK(y, J)
  <2>1. \A n \in Places(y) : f[n] \in Places(x) /\ y.ClientQueue[n] = x.ClientQueue[f[n]]
    BY <1>1
  <2> QED
    BY <1>2, <1>3, <2>1 DEF LevelsOK
<1>8. \A u \in Urls : PageOK(y.entries[u], u)
  <2>1. \A u \in Urls : PageOK(x.entries[u], u)
    BY DEF Sound
  <2>2. \A u \in Urls : y.entries[u] = x.entries[u] \/ y.entries[u] = Nobody
    BY DEF Shrinks
  <2> QED
    BY <2>1, <2>2, NobodyIs
<1>9. ASSUME NEW j \in Keys PROVE Fate(x, y, j)
  <2>1. Has(y, j) => Has(x, j)
    BY <1>1 DEF Has
  <2>2. ASSUME NEW n \in Places(x), NEW u, u = x.ClientQueue[n].url, x.ClientQueue[n].key = j,
               Has(y, j)
        PROVE  \E m \in Places(y) : /\ y.ClientQueue[m].key = j
                                    /\ y.ClientQueue[m].url = u
                                    /\ SamePage(x.entries[u], y.entries[u])
    <3>1. PICK m \in Places(y) : y.ClientQueue[m].key = j
      BY <2>2 DEF Has
    <3>2. f[m] \in Places(x) /\ y.ClientQueue[m] = x.ClientQueue[f[m]]
      BY <1>1
    <3>3. f[m] = n
      BY <1>2, <2>2, <3>1, <3>2 DEF QueuesOK
    <3>4. y.ClientQueue[m].url = u
      BY <2>2, <3>2, <3>3
    <3>5. y.entries[u] = x.entries[u]
      BY <1>4, <3>4
    <3> QED
      BY <3>1, <3>4, <3>5 DEF SamePage
  <2>3. Has(x, j) => j \notin x.closed
    BY <1>2 DEF Has, QueuesOK
  <2>4. \A n \in Places(x) : x.ClientQueue[n].key = j => Has(x, j)
    BY DEF Has
  <2> QED
    BY <1>3, <2>1, <2>2, <2>3, <2>4 DEF Fate
<1> QED
  BY <1>2, <1>5, <1>6, <1>7, <1>8, <1>9 DEF Sound, Since

\* What a change of the queues leaves alone.
SameRest(x, y) ==
  /\ y.entries = x.entries /\ y.idle = x.idle /\ y.conns = x.conns
  /\ y.closed = x.closed /\ y.got = x.got /\ y.level = x.level /\ y.shifted = x.shifted

\* Clients leave: those with the given keys.
Leaves(x, y, keys) ==
  /\ Embeds(x, y)
  /\ \A i \in Places(y) : y.ClientQueue[i].key \notin keys
  /\ \A n \in Places(x) : x.ClientQueue[n].key \notin keys =>
       \E i \in Places(y) : y.ClientQueue[i] = x.ClientQueue[n]

LEMMA DequeueFields ==
  ASSUME NEW x, x \in StateType, NEW keys, NEW y, y = Dequeue(x, keys)
  PROVE  /\ y \in StateType /\ SameRest(x, y) /\ y.DelayedQueue = x.DelayedQueue
         /\ Leaves(x, y, keys)
<1>1. PICK q : q = x.ClientQueue
  OBVIOUS
<1>2. PICK S : S = {cl \in Range(q) : cl.key \in keys}
  OBVIOUS
<1>3. PICK r : r = Without(q, S)
  OBVIOUS
<1>4. y = [x EXCEPT !.ClientQueue = r]
  BY <1>1, <1>2, <1>3 DEF Dequeue
<1>5. q \in Seq(Client) /\ Len(q) \in Nat
  BY <1>1, MemberTypes
<1>6. r \in Seq(Client) /\ Part(r, q, S, Len(q))
  BY <1>3, <1>5, WithoutPart
<1>7. y \in StateType /\ y.ClientQueue = r
  BY <1>4, <1>6 DEF StateType
<1>8. SameRest(x, y) /\ y.DelayedQueue = x.DelayedQueue
  BY <1>4 DEF SameRest, StateType
<1>9. Places(y) = 1 .. Len(r) /\ Places(x) = 1 .. Len(q)
  BY <1>1, <1>7 DEF Places
<1>10. \A n \in 1 .. Len(q) : q[n] \in S <=> q[n].key \in keys
  <2>1. \A n \in 1 .. Len(q) : q[n] \in Range(q)
    BY <1>5 DEF Range
  <2> QED
    BY <1>2, <2>1
<1>11. \E f \in [1 .. Len(r) -> 1 .. Len(q)] :
         \A i, j \in 1 .. Len(r) : r[i] = q[f[i]] /\ (f[i] = f[j] => i = j)
  BY <1>6 DEF Part
<1>12. ASSUME NEW i \in 1 .. Len(r) PROVE r[i].key \notin keys
  <2>1. PICK n \in 1 .. Len(q) : r[i] = q[n]
    BY <1>11
  <2>2. r[i] \notin S
    BY <1>6 DEF Part
  <2> QED
    BY <1>10, <2>1, <2>2
<1>13. \A n \in 1 .. Len(q) : q[n].key \notin keys => \E i \in 1 .. Len(r) : r[i] = q[n]
  BY <1>6, <1>10 DEF Part
<1>14. Leaves(x, y, keys)
  <2>1. Embeds(x, y)
    BY <1>1, <1>7, <1>9, <1>11 DEF Embeds
  <2> QED
    BY <1>1, <1>7, <1>9, <1>12, <1>13, <2>1 DEF Leaves
<1> QED
  BY <1>7, <1>8, <1>14

\* The members of r are those of q but d.
Lacks(r, q, d) ==
  /\ \A i \in 1 .. Len(r) : r[i] # d /\ \E j \in 1 .. Len(q) : r[i] = q[j]
  /\ \A j \in 1 .. Len(q) : q[j] # d => \E i \in 1 .. Len(r) : r[i] = q[j]

\* Entry u leaves DelayedQueue.
LEMMA UndelayFields ==
  ASSUME NEW x, x \in StateType, NEW u, NEW y, y = Undelay(x, u)
  PROVE  /\ y \in StateType /\ SameRest(x, y) /\ y.ClientQueue = x.ClientQueue
         /\ Lacks(y.DelayedQueue, x.DelayedQueue, <<u, x.entries[u].id>>)
<1>1. PICK q : q = x.DelayedQueue
  OBVIOUS
<1>2. PICK S : S = {<<u, x.entries[u].id>>}
  OBVIOUS
<1>3. PICK r : r = Without(q, S)
  OBVIOUS
<1>4. y = [x EXCEPT !.DelayedQueue = r]
  BY <1>1, <1>2, <1>3 DEF Undelay
<1>5. q \in Seq(Urls \X Nat) /\ Len(q) \in Nat
  BY <1>1, MemberTypes
<1>6. r \in Seq(Urls \X Nat) /\ Part(r, q, S, Len(q))
  BY <1>3, <1>5, WithoutPart
<1>7. y \in StateType /\ y.DelayedQueue = r
  BY <1>4, <1>6 DEF StateType
<1>8. SameRest(x, y) /\ y.ClientQueue = x.ClientQueue
  BY <1>4 DEF SameRest, StateType
<1>9. \A i \in 1 .. Len(r) : r[i] \notin S
  BY <1>6 DEF Part
<1>10. \A i \in 1 .. Len(r) : \E j \in 1 .. Len(q) : r[i] = q[j]
  <2>1. \E f \in [1 .. Len(r) -> 1 .. Len(q)] :
          \A i, j \in 1 .. Len(r) : r[i] = q[f[i]] /\ (f[i] = f[j] => i = j)
    BY <1>6 DEF Part
  <2> QED
    BY <2>1
<1>11. \A j \in 1 .. Len(q) : q[j] \notin S => \E i \in 1 .. Len(r) : r[i] = q[j]
  BY <1>6 DEF Part
<1>12. Lacks(r, q, <<u, x.entries[u].id>>)
  BY <1>2, <1>9, <1>10, <1>11 DEF Lacks
<1> QED
  BY <1>1, <1>7, <1>8, <1>12

LEMMA SamePlaces ==
  ASSUME NEW x, NEW y, y.ClientQueue = x.ClientQueue
  PROVE  Embeds(x, y)
<1> DEFINE f == [i \in Places(x) |-> i]
<1>1. Places(y) = Places(x)
  BY DEF Places
<1>2. f \in [Places(y) -> Places(x)] /\ \A i \in Places(y) : f[i] = i
  BY <1>1
<1> HIDE DEF f
<1> QED
  BY <1>2 DEF Embeds

LEMMA DequeueSound ==
  ASSUME NEW W, NEW J, NEW x, Sound(x, W, J), NEW keys, NEW y, y = Dequeue(x, keys)
  PROVE  /\ Sound(y, W, J) /\ Sound(y, W, J \ keys) /\ Since(x, y, {})
         /\ SameRest(x, y) /\ Leaves(x, y, keys)
<1>1. x \in StateType
  BY DEF Sound
<1>2. /\ y \in StateType /\ SameRest(x, y) /\ y.DelayedQueue = x.DelayedQueue
      /\ Leaves(x, y, keys)
  BY <1>1, DequeueFields
<1>3. Shrinks(x, y, W)
  BY <1>2 DEF Shrinks, SameRest, Leaves
<1>4. Sound(y, W, J) /\ Since(x, y, {})
  BY <1>3, ShrunkSound
<1>5. LevelsOK(y, J \ keys)
  BY <1>2, <1>4 DEF Sound, LevelsOK, Leaves
<1> QED
  BY <1>2, <1>4, <1>5 DEF Sound

LEMMA UndelaySound ==
  ASSUME NEW W, NEW J, NEW x, Sound(x, W, J), NEW u, NEW y, y = Undelay(x, u)
  PROVE  /\ Sound(y, W, J) /\ Since(x, y, {})
         /\ SameRest(x, y) /\ y.ClientQueue = x.ClientQueue
<1>1. x \in StateType
  BY DEF Sound
<1>2. /\ y \in StateType /\ SameRest(x, y) /\ y.ClientQueue = x.ClientQueue
      /\ \A i \in 1 .. Len(y.DelayedQueue) :
           \E j \in 1 .. Len(x.DelayedQueue) : y.DelayedQueue[i] = x.DelayedQueue[j]
  BY <1>1, UndelayFields DEF Lacks
<1>3. Shrinks(x, y, W)
  BY <1>2, SamePlaces DEF Shrinks, SameRest
<1> QED
  BY <1>2, <1>3, ShrunkSound

----------------------------------------------------------------------------
(* The operations of cache.c                                               *)

\* Only the entry and the connection of v change, and the entry, if it changes, has
\* the references that it should have.
Touches(x, y, v) ==
  /\ \A u \in Urls \ {v} : y.entries[u] = x.entries[u] /\ (u \in y.conns <=> u \in x.conns)
  /\ y.entries[v] = x.entries[v] \/ Counted(y.entries[v], 0)

\* The conversation with the clients is left alone.
SameTalk(x, y) == y.closed = x.closed /\ y.got = x.got /\ y.level = x.level

LEMMA RemoveSound ==
  ASSUME NEW W, NEW J, NEW x, Sound(x, W, J), NEW v \in Urls, v \notin x.conns \ W,
         NEW y, y = Cache_entry_remove(x, v)
  PROVE  /\ Sound(y, W, J) /\ Since(x, y, {}) /\ Touches(x, y, v) /\ SameTalk(x, y)
         /\ y.conns = x.conns /\ ~Cached(y, v)
         /\ Cached(x, v) \/ y = x
<1>1. CASE ~Cached(x, v)
  <2>1. y = x
    BY <1>1 DEF Cache_entry_remove
  <2>2. Shrinks(x, x, W)
    BY SamePlaces DEF Shrinks, Sound
  <2> QED
    BY <1>1, <2>1, <2>2, ShrunkSound DEF Touches, SameTalk
<1>2. CASE Cached(x, v)
  <2>0. x \in StateType /\ QueuesOK(x)
    BY DEF Sound
  <2>1. PICK a : a = Dequeue(x, KeysOf(x, v))
    OBVIOUS
  <2>2. PICK b : b = Undelay(a, v)
    OBVIOUS
  <2>3. y = [b EXCEPT !.entries[v] = Nobody]
    BY <1>2, <2>1, <2>2 DEF Cache_entry_remove
  <2>4. /\ a \in StateType /\ SameRest(x, a) /\ a.DelayedQueue = x.DelayedQueue
        /\ Leaves(x, a, KeysOf(x, v))
    BY <2>0, <2>1, DequeueFields
  <2>5. /\ b \in StateType /\ SameRest(a, b) /\ b.ClientQueue = a.ClientQueue
        /\ Lacks(b.DelayedQueue, a.DelayedQueue, <<v, a.entries[v].id>>)
    BY <2>2, <2>4, UndelayFields
  <2>6. PICK E : E = [b.entries EXCEPT ![v] = Nobody]
    OBVIOUS
  <2>7. b.entries = x.entries /\ b.entries \in [Urls -> Entry]
    BY <2>4, <2>5, MemberTypes DEF SameRest
  <2>8. /\ E \in [Urls -> Entry] /\ E[v] = Nobody
        /\ \A u \in Urls \ {v} : E[u] = x.entries[u]
    BY <2>6, <2>7, NobodyIs
  <2>9. y = [b EXCEPT !.entries = E]
    BY <2>3, <2>6
  <2>10. y \in StateType /\ y.entries = E
    BY <2>5, <2>8, <2>9 DEF StateType
  <2>11. /\ y.ClientQueue = a.ClientQueue /\ y.DelayedQueue = b.DelayedQueue
         /\ y.conns = x.conns /\ SameTalk(x, y)
    BY <2>4, <2>5, <2>9 DEF StateType, SameRest, SameTalk
  <2>12. Places(y) = Places(a)
    BY <2>11 DEF Places
  <2>13. Embeds(x, y)
    BY <2>4, <2>11, <2>12 DEF Leaves, Embeds
  <2>14. ASSUME NEW n \in Places(y) PROVE y.ClientQueue[n].url # v
    <3>1. PICK m \in Places(x) : y.ClientQueue[n] = x.ClientQueue[m]
      BY <2>13 DEF Embeds
    <3>2. y.ClientQueue[n].key \notin KeysOf(x, v)
      BY <2>4, <2>11, <2>12 DEF Leaves
    <3>3. x.ClientQueue[m] \in Range(x.ClientQueue)
      BY <2>0, MemberTypes DEF Range, Places
    <3>4. x.ClientQueue[m].id = x.entries[x.ClientQueue[m].url].id
      BY <2>0 DEF QueuesOK
    <3> QED
      BY <3>1, <3>2, <3>3, <3>4 DEF KeysOf
  <2>15. ASSUME NEW i \in 1 .. Len(y.DelayedQueue)
         PROVE  /\ \E j \in 1 .. Len(x.DelayedQueue) : y.DelayedQueue[i] = x.DelayedQueue[j]
                /\ y.DelayedQueue[i][1] # v
    <3>1. PICK j \in 1 .. Len(x.DelayedQueue) : y.DelayedQueue[i] = x.DelayedQueue[j]
      BY <2>4, <2>5, <2>11 DEF Lacks
    <3>2. x.DelayedQueue[j][2] = x.entries[x.DelayedQueue[j][1]].id
      BY <2>0 DEF QueuesOK
    <3>3. x.DelayedQueue[j] \in Urls \X Nat
      BY <2>0, MemberTypes
    <3>4. y.DelayedQueue[i] # <<v, x.entries[v].id>>
      BY <2>4, <2>5, <2>11 DEF SameRest, Lacks
    <3> QED
      BY <3>1, <3>2, <3>3, <3>4
  <2>16. \A u \in Urls : y.entries[u] # x.entries[u] => u = v
    BY <2>8, <2>10
  <2>17. y.entries[v] = Nobody /\ v \notin y.conns \ W
    BY <2>8, <2>10, <2>11
  <2>18. Shrinks(x, y, W)
    BY <2>10, <2>11, <2>13, <2>14, <2>15, <2>16, <2>17 DEF Shrinks, SameTalk
  <2>19. Touches(x, y, v)
    BY <2>8, <2>10, <2>11, NobodyIs DEF Touches
  <2>20. ~Cached(y, v)
    BY <2>17, NobodyIs DEF Cached
  <2> QED
    BY <1>2, <2>11, <2>18, <2>19, <2>20, ShrunkSound
<1> QED
  BY <1>1, <1>2

LEMMA AbortSound ==
  ASSUME NEW W, NEW J, NEW x, Sound(x, W, J), NEW v \in Urls,
         NEW y, y = a_Capi_conn_abort_by_url(x, v)
  PROVE  /\ Sound(y, W, J) /\ Since(x, y, {}) /\ Touches(x, y, v) /\ SameTalk(x, y)
         /\ y.conns = x.conns \ {v}
         /\ v \in x.conns => ~Cached(y, v)
         /\ v \notin x.conns => y = x
<1>1. CASE v \notin x.conns
  <2>1. y = x
    BY <1>1 DEF a_Capi_conn_abort_by_url
  <2>2. Shrinks(x, x, W)
    BY SamePlaces DEF Shrinks, Sound
  <2>3. x.conns = x.conns \ {v}
    BY <1>1
  <2> QED
    BY <1>1, <2>1, <2>2, <2>3, ShrunkSound DEF Touches, SameTalk
<1>2. CASE v \in x.conns
  <2>1. PICK z : z = [x EXCEPT !.conns = @ \ {v}]
    OBVIOUS
  <2>2. y = Cache_entry_remove(z, v)
    BY <1>2, <2>1 DEF a_Capi_conn_abort_by_url
  <2>3. x \in StateType
    BY DEF Sound
  <2>4. z \in StateType /\ z.conns = x.conns \ {v}
    BY <2>1, <2>3 DEF StateType
  <2>5. /\ z.entries = x.entries /\ z.ClientQueue = x.ClientQueue
        /\ z.DelayedQueue = x.DelayedQueue /\ SameTalk(x, z)
    BY <2>1, <2>3 DEF StateType, SameTalk
  <2>6. Shrinks(x, z, W)
    <3>1. Embeds(x, z)
      BY <2>5, SamePlaces
    <3>2. z.conns \subseteq x.conns
      BY <2>4
    <3> QED
      BY <2>4, <2>5, <3>1, <3>2, Zenon DEF Shrinks, SameTalk
  <2>7. Sound(z, W, J) /\ Since(x, z, {})
    BY <2>6, ShrunkSound
  <2>8. v \notin z.conns \ W
    BY <2>4
  <2>9. /\ Sound(y, W, J) /\ Since(z, y, {}) /\ Touches(z, y, v) /\ SameTalk(z, y)
        /\ y.conns = z.conns /\ ~Cached(y, v)
    BY <2>2, <2>7, <2>8, RemoveSound
  <2>10. Since(x, y, {})
    BY <2>7, <2>9, SinceChain
  <2>11. Touches(x, y, v)
    BY <2>4, <2>5, <2>9 DEF Touches
  <2> QED
    BY <1>2, <2>4, <2>5, <2>9, <2>10, <2>11 DEF SameTalk
<1> QED
  BY <1>1, <1>2

\* A number that nothing in a finite set of numbers has.
LEMMA FreshNumber ==
  ASSUME NEW S, IsFiniteSet(S), 0 \in S
  PROVE  Min((1 .. Cardinality(S)) \ S) \in Nat \ {0}
<1>1. Cardinality(S) \in Nat
  BY FS_CardinalityType
<1> DEFINE n == Cardinality(S)
           F == (1 .. n) \ S
<1>2. F # {}
  <2>1. SUFFICES ASSUME F = {} PROVE FALSE
    OBVIOUS
  <2>2. 0 .. n \in SUBSET S
    BY <1>1, <2>1
  <2>3. Cardinality(0 .. n) = n + 1
    BY <1>1, FS_Interval
  <2>4. Cardinality(0 .. n) <= n
    BY <2>2, FS_Subset
  <2> QED
    BY <1>1, <2>3, <2>4
<1>3. F \in SUBSET Nat /\ 0 \notin F
  BY <1>1
<1>4. \E i \in F : \A j \in F : i <= j
  BY <1>2, <1>3, LeastOf
<1>5. Min(F) \in F
  BY <1>4 DEF Min
<1> QED
  BY <1>3, <1>5

\* The numbers of the members of a sequence are finitely many.
LEMMA FiniteImage ==
  ASSUME NEW D, IsFiniteSet(D), NEW f
  PROVE  IsFiniteSet({f[i] : i \in D})
<1> DEFINE T == {f[i] : i \in D}
           g == [i \in D |-> f[i]]
<1>1. g \in Surjection(D, T)
  BY DEF Surjection
<1> QED
  BY <1>1, FS_Surjection

LEMMA FreshEntry ==
  ASSUME NEW x, x \in StateType, NEW v \in Urls, ~Cached(x, v)
  PROVE  LET used == {x.entries[u].id : u \in Urls}
                       \cup {cl.id : cl \in Range(x.ClientQueue)}
                       \cup {d[2] : d \in Range(x.DelayedQueue)}
         IN  Min((1 .. Cardinality(used)) \ used) \in Nat \ {0}
<1> DEFINE A == {x.entries[u].id : u \in Urls}
           B == {cl.id : cl \in Range(x.ClientQueue)}
           C == {d[2] : d \in Range(x.DelayedQueue)}
<1>1. IsFiniteSet(A)
  <2> DEFINE f == [u \in Urls |-> x.entries[u].id]
  <2>1. IsFiniteSet({f[u] : u \in Urls})
    BY CacheAssumption, FiniteImage
  <2>2. A = {f[u] : u \in Urls}
    OBVIOUS
  <2> QED
    BY <2>1, <2>2
<1>2. IsFiniteSet(B)
  <2> DEFINE f == [n \in Places(x) |-> x.ClientQueue[n].id]
  <2>1. IsFiniteSet(Places(x))
    BY MemberTypes, FS_Interval DEF Places
  <2>2. IsFiniteSet({f[n] : n \in Places(x)})
    BY <2>1, FiniteImage
  <2>3. DOMAIN x.ClientQueue = Places(x)
    BY MemberTypes DEF Places
  <2>4. B = {f[n] : n \in Places(x)}
    BY <2>3 DEF Range
  <2> QED
    BY <2>2, <2>4
<1>3. IsFiniteSet(C)
  <2> DEFINE D == 1 .. Len(x.DelayedQueue)
             f == [n \in D |-> x.DelayedQueue[n][2]]
  <2>1. IsFiniteSet(D)
    BY MemberTypes, FS_Interval
  <2>2. IsFiniteSet({f[n] : n \in D})
    BY <2>1, FiniteImage
  <2>3. DOMAIN x.DelayedQueue = D
    BY MemberTypes
  <2>4. C = {f[n] : n \in D}
    BY <2>3 DEF Range
  <2> QED
    BY <2>2, <2>4
<1>4. 0 \in A
  BY DEF Cached
<1> HIDE DEF A, B, C
<1>5. IsFiniteSet(A \cup B \cup C) /\ 0 \in A \cup B \cup C
  <2>1. IsFiniteSet(A \cup B)
    BY <1>1, <1>2, FS_Union
  <2> QED
    BY <1>3, <1>4, <2>1, FS_Union
<1>6. Min((1 .. Cardinality(A \cup B \cup C)) \ (A \cup B \cup C)) \in Nat \ {0}
  BY <1>5, FreshNumber
<1> QED
  BY <1>6 DEF A, B, C

\* An entry that is made again: nothing refers to the old one.
LEMMA AddSound ==
  ASSUME NEW v \in Urls, NEW J, NEW x, Sound(x, {v}, J), ~Cached(x, v),
         NEW y, y = Cache_entry_add(x, v)
  PROVE  /\ Sound(y, {}, J) /\ Since(x, y, {}) /\ Touches(x, y, v) /\ SameTalk(x, y)
         /\ Cached(y, v) /\ y.conns = x.conns
<1>1. x \in StateType /\ QueuesOK(x) /\ ConnsOK(x, {v}) /\ LevelsOK(x, J)
  BY DEF Sound
<1>2. PICK id \in Nat \ {0} : y = [x EXCEPT !.entries[v] = [Nobody EXCEPT !.id = id]]
  BY <1>1, FreshEntry DEF Cache_entry_add
<1>3. PICK e : e = [Nobody EXCEPT !.id = id]
  OBVIOUS
<1>4. /\ e \in Entry /\ e.id = id /\ ~e.GotData
      /\ PageOK(e, v) /\ Counted(e, 0)
  <2>1. e = [id |-> id, header |-> FALSE, kind |-> "shown", to |-> None, typed |-> FALSE,
             data |-> 0, GotData |-> FALSE, refs |-> 0, spared |-> FALSE]
    BY <1>3 DEF Nobody
  <2>2. 0 \in 0 .. MaxData
    BY CacheAssumption
  <2> QED
    BY <2>1, <2>2 DEF Entry, PageOK, Counted, CA_Redirect, Kinds
<1>5. PICK E : E = [x.entries EXCEPT ![v] = e]
  OBVIOUS
<1>6. x.entries \in [Urls -> Entry]
  BY <1>1, MemberTypes
<1>7. /\ E \in [Urls -> Entry] /\ E[v] = e
      /\ \A u \in Urls \ {v} : E[u] = x.entries[u]
  BY <1>4, <1>5, <1>6
<1>8. y = [x EXCEPT !.entries = E]
  BY <1>2, <1>3, <1>5
<1>9. y \in StateType /\ y.entries = E
  BY <1>1, <1>7, <1>8 DEF StateType
<1>10. /\ y.ClientQueue = x.ClientQueue /\ y.DelayedQueue = x.DelayedQueue
       /\ y.conns = x.conns /\ SameTalk(x, y)
  BY <1>1, <1>8 DEF StateType, SameTalk
<1>11. \A n \in Places(x) : x.ClientQueue[n].url \in Urls \ {v}
  BY <1>1, MemberTypes DEF QueuesOK, Cached
<1>12. \A n \in 1 .. Len(x.DelayedQueue) : x.DelayedQueue[n][1] \in Urls \ {v}
  BY <1>1, MemberTypes DEF QueuesOK, Cached
<1>13. Places(y) = Places(x)
  BY <1>10 DEF Places
<1>14. QueuesOK(y)
  <2>1. \A m, n \in Places(y) : y.ClientQueue[m].key = y.ClientQueue[n].key => m = n
    BY <1>1, <1>10, <1>13 DEF QueuesOK
  <2>2. \A n \in Places(y) : /\ y.ClientQueue[n].key \notin y.closed
                             /\ y.ClientQueue[n].id = y.entries[y.ClientQueue[n].url].id
                             /\ y.ClientQueue[n].id # 0
    BY <1>1, <1>7, <1>9, <1>10, <1>11, <1>13 DEF QueuesOK, SameTalk
  <2>3. \A n \in 1 .. Len(y.DelayedQueue) :
          /\ y.DelayedQueue[n][2] = y.entries[y.DelayedQueue[n][1]].id
          /\ y.DelayedQueue[n][2] # 0
    BY <1>1, <1>7, <1>9, <1>10, <1>12 DEF QueuesOK
  <2> QED
    BY <2>1, <2>2, <2>3 DEF QueuesOK
<1>15. ConnsOK(y, {})
  <2>1. x.conns \subseteq Urls
    BY <1>1, MemberTypes
  <2> QED
    BY <1>1, <1>2, <1>4, <1>7, <1>9, <1>10, <2>1 DEF ConnsOK
<1>16. LevelsOK(y, J)
  BY <1>1, <1>10, <1>13 DEF LevelsOK, SameTalk
<1>17. \A u \in Urls : PageOK(y.entries[u], u)
  <2>1. \A u \in Urls : PageOK(x.entries[u], u)
    BY DEF Sound
  <2> QED
    BY <1>4, <1>7, <1>9, <2>1
<1>18. ASSUME NEW j \in Keys PROVE Fate(x, y, j)
  <2>1. Has(y, j) <=> Has(x, j)
    BY <1>10, <1>13 DEF Has
  <2>2. \A n \in Places(x) :
          /\ n \in Places(y) /\ y.ClientQueue[n] = x.ClientQueue[n]
          /\ SamePage(x.entries[x.ClientQueue[n].url], y.entries[x.ClientQueue[n].url])
    BY <1>7, <1>9, <1>10, <1>11, <1>13 DEF SamePage
  <2> QED
    BY <1>10, <2>1, <2>2 DEF Fate, SameTalk
<1>19. Touches(x, y, v)
  BY <1>4, <1>7, <1>9, <1>10 DEF Touches
<1>20. Cached(y, v)
  BY <1>2, <1>4, <1>7, <1>9 DEF Cached
<1> QED
  BY <1>9, <1>10, <1>14, <1>15, <1>16, <1>17, <1>18, <1>19, <1>20 DEF Sound, Since

LEMMA EnqueueSound ==
  ASSUME NEW x, Sound(x, {}, {}), NEW k \in Keys, ~Has(x, k), k \notin x.closed,
         x.level[k] < RedirectLimit, NEW v \in Urls, Cached(x, v), NEW root \in BOOLEAN,
         NEW y, y = Cache_client_enqueue(x, k, v, root)
  PROVE  /\ Sound(y, {}, {}) /\ Since(x, y, {k}) /\ SameRest(x, y)
         /\ y.DelayedQueue = x.DelayedQueue
<1>1. x \in StateType /\ QueuesOK(x) /\ ConnsOK(x, {}) /\ LevelsOK(x, {})
  BY DEF Sound
<1>2. PICK cl : cl = [key |-> k, url |-> v, id |-> x.entries[v].id, root |-> root,
                      BufSize |-> 0]
  OBVIOUS
<1>3. /\ cl \in Client /\ cl.key = k /\ cl.url = v /\ cl.id = x.entries[v].id
      /\ cl.id # 0
  <2>1. x.entries[v] \in Entry
    BY <1>1, MemberTypes
  <2>2. x.entries[v].id \in Nat
    BY <2>1 DEF Entry
  <2> QED
    BY <1>2, <2>2 DEF Client, Cached
<1>4. PICK q : q = Append(x.ClientQueue, cl)
  OBVIOUS
<1>5. PICK n : n = Len(x.ClientQueue) + 1
  OBVIOUS
<1>6. x.ClientQueue \in Seq(Client) /\ Len(x.ClientQueue) \in Nat
  BY <1>1, MemberTypes
<1>7. /\ q \in Seq(Client) /\ Len(q) = n /\ q[n] = cl
      /\ \A i \in Places(x) : q[i] = x.ClientQueue[i]
  BY <1>3, <1>4, <1>5, <1>6 DEF Places
<1>8. y = [x EXCEPT !.ClientQueue = q]
  BY <1>2, <1>4 DEF Cache_client_enqueue
<1>9. y \in StateType /\ y.ClientQueue = q
  BY <1>1, <1>7, <1>8 DEF StateType
<1>10. SameRest(x, y) /\ y.DelayedQueue = x.DelayedQueue
  BY <1>1, <1>8 DEF StateType, SameRest
<1>11. /\ n \in Places(y) /\ Places(x) \subseteq Places(y) /\ n \notin Places(x)
       /\ \A i \in Places(y) : i = n \/ i \in Places(x)
  BY <1>5, <1>6, <1>7, <1>9 DEF Places
<1>12. \A i \in Places(x) : x.ClientQueue[i].key # k
  BY DEF Has
<1>13. QueuesOK(y)
  <2>1. \A m, i \in Places(y) : y.ClientQueue[m].key = y.ClientQueue[i].key => m = i
    BY <1>1, <1>3, <1>7, <1>9, <1>11, <1>12 DEF QueuesOK
  <2>2. \A i \in Places(y) : /\ y.ClientQueue[i].key \notin y.closed
                             /\ y.ClientQueue[i].id = y.entries[y.ClientQueue[i].url].id
                             /\ y.ClientQueue[i].id # 0
    BY <1>1, <1>3, <1>7, <1>9, <1>10, <1>11 DEF QueuesOK, SameRest
  <2>3. \A i \in 1 .. Len(y.DelayedQueue) :
          /\ y.DelayedQueue[i][2] = y.entries[y.DelayedQueue[i][1]].id
          /\ y.DelayedQueue[i][2] # 0
    BY <1>1, <1>10 DEF QueuesOK, SameRest
  <2> QED
    BY <2>1, <2>2, <2>3 DEF QueuesOK
<1>14. ConnsOK(y, {})
  BY <1>1, <1>10 DEF ConnsOK, SameRest
<1>15. LevelsOK(y, {})
  BY <1>1, <1>3, <1>7, <1>9, <1>10, <1>11 DEF LevelsOK, SameRest
<1>16. \A u \in Urls : PageOK(y.entries[u], u)
  BY <1>10 DEF Sound, SameRest
<1>17. ASSUME NEW j \in Keys \ {k} PROVE Fate(x, y, j)
  <2>1. Has(y, j) <=> Has(x, j)
    BY <1>3, <1>7, <1>9, <1>11 DEF Has
  <2>2. \A i \in Places(x) :
          /\ i \in Places(y) /\ y.ClientQueue[i] = x.ClientQueue[i]
          /\ SamePage(x.entries[x.ClientQueue[i].url], y.entries[x.ClientQueue[i].url])
    BY <1>7, <1>9, <1>10, <1>11 DEF SamePage, SameRest
  <2> QED
    BY <1>10, <2>1, <2>2 DEF Fate, SameRest
<1> QED
  BY <1>9, <1>10, <1>13, <1>14, <1>15, <1>16, <1>17 DEF Sound, Since

\* A state that differs in DelayedQueue and the timeout only.
LEMMA DelayedQueueSound ==
  ASSUME NEW x, Sound(x, {}, {}), NEW y, y \in StateType, y.ClientQueue = x.ClientQueue,
         y.entries = x.entries, y.conns = x.conns, SameTalk(x, y),
         \A i \in 1 .. Len(y.DelayedQueue) :
           /\ y.DelayedQueue[i][2] = y.entries[y.DelayedQueue[i][1]].id
           /\ y.DelayedQueue[i][2] # 0
  PROVE  Sound(y, {}, {}) /\ Since(x, y, {})
<1>1. x \in StateType /\ QueuesOK(x) /\ ConnsOK(x, {}) /\ LevelsOK(x, {})
  BY DEF Sound
<1>2. Places(y) = Places(x) /\ \A j : Has(y, j) <=> Has(x, j)
  BY DEF Places, Has
<1>3. QueuesOK(y) /\ ConnsOK(y, {}) /\ LevelsOK(y, {})
  BY <1>1, <1>2 DEF QueuesOK, ConnsOK, LevelsOK, SameTalk
<1>4. \A u \in Urls : PageOK(y.entries[u], u)
  BY DEF Sound
<1>5. ASSUME NEW j \in Keys PROVE Fate(x, y, j)
  BY <1>2 DEF Fate, SamePage, SameTalk
<1> QED
  BY <1>3, <1>4, <1>5 DEF Sound, Since

LEMMA DelaySound ==
  ASSUME NEW x, Sound(x, {}, {}), NEW v \in Urls, Cached(x, v),
         NEW y, y = Cache_delayed_process_queue(x, v)
  PROVE  /\ Sound(y, {}, {}) /\ Since(x, y, {}) /\ SameTalk(x, y)
         /\ y.entries = x.entries /\ y.conns = x.conns /\ y.ClientQueue = x.ClientQueue
<1>1. x \in StateType /\ QueuesOK(x)
  BY DEF Sound
<1>2. PICK d : d = <<v, x.entries[v].id>>
  OBVIOUS
<1>3. d \in Urls \X Nat /\ d[1] = v /\ d[2] = x.entries[v].id /\ d[2] # 0
  <2>1. x.entries[v] \in Entry
    BY <1>1, MemberTypes
  <2>2. x.entries[v].id \in Nat
    BY <2>1 DEF Entry
  <2> QED
    BY <1>2, <2>2 DEF Cached
<1>4. PICK q : q = IF Contains(x.DelayedQueue, d) THEN x.DelayedQueue
                   ELSE Append(x.DelayedQueue, d)
  OBVIOUS
<1>5. x.DelayedQueue \in Seq(Urls \X Nat) /\ Len(x.DelayedQueue) \in Nat
  BY <1>1, MemberTypes
<1>6. q \in Seq(Urls \X Nat)
  BY <1>3, <1>4, <1>5
<1>7. \A i \in 1 .. Len(q) :
        q[i] = d \/ \E j \in 1 .. Len(x.DelayedQueue) : q[i] = x.DelayedQueue[j]
  <2>1. CASE q = x.DelayedQueue
    BY <2>1
  <2>2. CASE q = Append(x.DelayedQueue, d)
    <3>1. /\ Len(q) = Len(x.DelayedQueue) + 1 /\ q[Len(q)] = d
          /\ \A i \in 1 .. Len(x.DelayedQueue) : q[i] = x.DelayedQueue[i]
      BY <1>3, <1>5, <2>2
    <3>2. \A i \in 1 .. Len(q) : i = Len(q) \/ i \in 1 .. Len(x.DelayedQueue)
      BY <1>5, <3>1
    <3> QED
      BY <3>1, <3>2
  <2> QED
    BY <1>4, <2>1, <2>2
<1>8. y = [x EXCEPT !.DelayedQueue = q, !.idle = TRUE]
  BY <1>2, <1>4 DEF Cache_delayed_process_queue
<1>9. y \in StateType /\ y.DelayedQueue = q
  BY <1>1, <1>6, <1>8 DEF StateType
<1>10. /\ y.ClientQueue = x.ClientQueue /\ y.entries = x.entries /\ y.conns = x.conns
       /\ SameTalk(x, y)
  BY <1>1, <1>8 DEF StateType, SameTalk
<1>11. ASSUME NEW i \in 1 .. Len(y.DelayedQueue)
       PROVE  /\ y.DelayedQueue[i][2] = y.entries[y.DelayedQueue[i][1]].id
              /\ y.DelayedQueue[i][2] # 0
  BY <1>1, <1>3, <1>7, <1>9, <1>10, SMTT(30) DEF QueuesOK
<1> QED
  BY <1>9, <1>10, <1>11, DelayedQueueSound

LEMMA TouchesChain ==
  ASSUME NEW v, NEW x, NEW y, NEW z, Touches(x, y, v), Touches(y, z, v)
  PROVE  Touches(x, z, v)
BY DEF Touches

\* A client asks: the queue and the entries are in order again.
LEMMA OpenSound ==
  ASSUME NEW x, Sound(x, {}, {}), NEW k \in Keys, ~Has(x, k), k \notin x.closed,
         x.level[k] < RedirectLimit, NEW v \in Urls, NEW root \in BOOLEAN,
         NEW reload \in BOOLEAN, NEW y, y = a_Cache_open_url(x, k, v, root, reload)
  PROVE  /\ Sound(y, {}, {}) /\ Since(x, y, {k}) /\ Touches(x, y, v) /\ SameTalk(x, y)
<1>1. PICK a : a = a_Capi_conn_abort_by_url(x, v)
  OBVIOUS
<1>2. PICK o : o = IF reload \/ ~Cached(x, v) THEN [a EXCEPT !.conns = @ \cup {v}] ELSE x
  OBVIOUS
<1>3. PICK b : b = IF reload THEN Cache_entry_remove(o, v) ELSE o
  OBVIOUS
<1>4. y = IF Cached(b, v)
          THEN Cache_delayed_process_queue(Cache_client_enqueue(b, k, v, root), v)
          ELSE Cache_client_enqueue(Cache_entry_add(b, v), k, v, root)
  BY <1>1, <1>2, <1>3 DEF a_Cache_open_url
<1>5. /\ Sound(a, {}, {}) /\ Since(x, a, {}) /\ Touches(x, a, v) /\ SameTalk(x, a)
      /\ v \in x.conns => ~Cached(a, v)
      /\ v \notin x.conns => a = x
  BY <1>1, AbortSound
<1>6. Sound(x, {v}, {})
  BY DEF Sound, ConnsOK
<1>7. Since(x, x, {}) /\ Touches(x, x, v)
  BY DEF Since, Fate, SamePage, Touches
<1>8. /\ Sound(o, {v}, {}) /\ Since(x, o, {}) /\ Touches(x, o, v) /\ SameTalk(x, o)
      /\ o = x \/ reload \/ ~Cached(o, v)
  <2>1. CASE ~(reload \/ ~Cached(x, v))
    BY <1>2, <1>6, <1>7, <2>1 DEF SameTalk
  <2>2. CASE reload \/ ~Cached(x, v)
    <3>1. o = [a EXCEPT !.conns = @ \cup {v}]
      BY <1>2, <2>2
    <3>2. a \in StateType
      BY <1>5 DEF Sound
    <3>3. o \in StateType /\ o.conns = a.conns \cup {v}
      BY <3>1, <3>2 DEF StateType
    <3>4. /\ o.entries = a.entries /\ o.ClientQueue = a.ClientQueue
          /\ o.DelayedQueue = a.DelayedQueue /\ SameTalk(a, o)
      BY <3>1, <3>2 DEF StateType, SameTalk
    <3>5. Places(o) = Places(a) /\ \A j : Has(o, j) <=> Has(a, j)
      BY <3>4 DEF Places, Has
    <3>6. QueuesOK(o) /\ LevelsOK(o, {}) /\ \A u \in Urls : PageOK(o.entries[u], u)
      BY <1>5, <3>4, <3>5 DEF Sound, QueuesOK, LevelsOK, SameTalk
    <3>7. ConnsOK(o, {v})
      BY <1>5, <3>3, <3>4 DEF Sound, ConnsOK
    <3>8. Since(a, o, {})
      BY <3>4, <3>5 DEF Since, Fate, SamePage, SameTalk
    <3>9. Touches(a, o, v)
      BY <3>3, <3>4 DEF Touches
    <3>10. Since(x, o, {})
      BY <1>5, <3>8, SinceChain
    <3>11. Touches(x, o, v)
      BY <1>5, <3>9, TouchesChain
    <3>12. ~Cached(x, v) => ~Cached(o, v)
      BY <1>5, <3>4 DEF Cached
    <3>13. SameTalk(x, o)
      BY <1>5, <3>4 DEF SameTalk
    <3> QED
      BY <2>2, <3>3, <3>6, <3>7, <3>10, <3>11, <3>12, <3>13 DEF Sound
  <2> QED
    BY <2>1, <2>2
<1>9. /\ Sound(b, {v}, {}) /\ Since(x, b, {}) /\ Touches(x, b, v) /\ SameTalk(x, b)
      /\ b = x \/ ~Cached(b, v)
  <2>1. CASE reload
    <3>1. b = Cache_entry_remove(o, v)
      BY <1>3, <2>1
    <3>2. v \notin o.conns \ {v}
      OBVIOUS
    <3>3. /\ Sound(b, {v}, {}) /\ Since(o, b, {}) /\ Touches(o, b, v) /\ SameTalk(o, b)
          /\ ~Cached(b, v)
      BY <1>8, <3>1, <3>2, RemoveSound
    <3>4. Since(x, b, {})
      BY <1>8, <3>3, SinceChain
    <3>5. Touches(x, b, v)
      BY <1>8, <3>3, TouchesChain
    <3>6. SameTalk(x, b)
      BY <1>8, <3>3 DEF SameTalk
    <3> QED
      BY <3>3, <3>4, <3>5, <3>6
  <2>2. CASE ~reload
    BY <1>3, <1>8, <2>2
  <2> QED
    BY <2>1, <2>2
<1>10. ~Has(b, k) /\ k \notin b.closed /\ b.level[k] < RedirectLimit
  BY <1>9 DEF Since, Fate, SameTalk
<1>11. CASE Cached(b, v)
  <2>1. b = x
    BY <1>9, <1>11
  <2>2. PICK z : z = Cache_client_enqueue(x, k, v, root)
    OBVIOUS
  <2>3. y = Cache_delayed_process_queue(z, v)
    BY <1>4, <1>11, <2>1, <2>2
  <2>4. Sound(z, {}, {}) /\ Since(x, z, {k}) /\ SameRest(x, z)
    BY <1>11, <2>1, <2>2, EnqueueSound
  <2>5. Cached(z, v)
    BY <1>11, <2>1, <2>4 DEF Cached, SameRest
  <2>6. /\ Sound(y, {}, {}) /\ Since(z, y, {}) /\ SameTalk(z, y)
        /\ y.entries = z.entries /\ y.conns = z.conns
    BY <2>3, <2>4, <2>5, DelaySound
  <2>7. Since(z, y, {k})
    BY <2>6, SinceMore
  <2>8. Since(x, y, {k})
    BY <2>4, <2>7, SinceChain
  <2>9. Touches(x, y, v) /\ SameTalk(x, y)
    BY <2>4, <2>6 DEF Touches, SameTalk, SameRest
  <2> QED
    BY <2>6, <2>8, <2>9
<1>12. CASE ~Cached(b, v)
  <2>1. PICK z : z = Cache_entry_add(b, v)
    OBVIOUS
  <2>2. y = Cache_client_enqueue(z, k, v, root)
    BY <1>4, <1>12, <2>1
  <2>3. /\ Sound(z, {}, {}) /\ Since(b, z, {}) /\ Touches(b, z, v) /\ SameTalk(b, z)
        /\ Cached(z, v)
    BY <1>9, <1>12, <2>1, AddSound
  <2>4. ~Has(z, k) /\ k \notin z.closed /\ z.level[k] < RedirectLimit
    BY <1>10, <2>3 DEF Since, Fate, SameTalk
  <2>5. Sound(y, {}, {}) /\ Since(z, y, {k}) /\ SameRest(z, y)
    BY <2>2, <2>3, <2>4, EnqueueSound
  <2>6. Since(x, z, {})
    BY <1>9, <2>3, SinceChain
  <2>7. Since(x, z, {k})
    BY <2>6, SinceMore
  <2>8. Since(x, y, {k})
    BY <2>5, <2>7, SinceChain
  <2>9. Touches(x, z, v)
    BY <1>9, <2>3, TouchesChain
  <2>10. Touches(x, y, v)
    BY <2>5, <2>9 DEF Touches, SameRest
  <2>11. SameTalk(x, y)
    BY <1>9, <2>3, <2>5 DEF SameTalk, SameRest
  <2> QED
    BY <2>5, <2>8, <2>10, <2>11
<1> QED
  BY <1>11, <1>12

----------------------------------------------------------------------------
(* A client is served                                                      *)

\* From x to y only what was said to client k changes.
TalksTo(x, y, k) ==
  /\ y \in StateType /\ y.ClientQueue = x.ClientQueue /\ y.DelayedQueue = x.DelayedQueue
  /\ y.entries = x.entries /\ y.conns = x.conns
  /\ \A j \in Keys \ {k} : /\ j \in y.closed <=> j \in x.closed
                           /\ y.got[j] = x.got[j] /\ y.level[j] = x.level[j]

LEMMA TalkSound ==
  ASSUME NEW W, NEW J, NEW x, Sound(x, W, J), NEW k \in Keys, NEW y, TalksTo(x, y, k),
         Has(x, k) => k \notin y.closed
  PROVE  /\ Sound(y, W, J \cup {k})
         /\ ~Has(x, k) => Sound(y, W, J)
         /\ Since(x, y, {k}) /\ \A j : Has(y, j) <=> Has(x, j)
<1>1. /\ y \in StateType /\ y.ClientQueue = x.ClientQueue /\ y.DelayedQueue = x.DelayedQueue
      /\ y.entries = x.entries /\ y.conns = x.conns
  BY DEF TalksTo
<1>2. x \in StateType /\ QueuesOK(x) /\ ConnsOK(x, W) /\ LevelsOK(x, J)
  BY DEF Sound
<1>3. Places(y) = Places(x) /\ \A j : Has(y, j) <=> Has(x, j)
  BY <1>1 DEF Places, Has
<1>4. \A n \in Places(x) : x.ClientQueue[n].key \in Keys
  BY <1>2, MemberTypes
<1>5. \A n \in Places(x) : x.ClientQueue[n].key \notin y.closed
  <2>1. ASSUME NEW n \in Places(x) PROVE x.ClientQueue[n].key \notin y.closed
    <3>1. x.ClientQueue[n].key \notin x.closed
      BY <1>2 DEF QueuesOK
    <3> QED
      BY <1>4, <3>1 DEF TalksTo, Has
  <2> QED
    BY <2>1
<1>6. QueuesOK(y) /\ ConnsOK(y, W)
  BY <1>1, <1>2, <1>3, <1>5 DEF QueuesOK, ConnsOK
<1>7. LevelsOK(y, J \cup {k})
  BY <1>1, <1>2, <1>3, <1>4 DEF LevelsOK, TalksTo
<1>8. ~Has(x, k) => LevelsOK(y, J)
  BY <1>1, <1>2, <1>3, <1>4 DEF LevelsOK, TalksTo, Has
<1>9. \A u \in Urls : PageOK(y.entries[u], u)
  BY <1>1 DEF Sound
<1>10. Since(x, y, {k})
  <2>1. ASSUME NEW j \in Keys \ {k} PROVE Fate(x, y, j)
    BY <1>1, <1>3 DEF Fate, TalksTo, SamePage
  <2> QED
    BY <2>1 DEF Since
<1> QED
  BY <1>1, <1>3, <1>6, <1>7, <1>8, <1>9, <1>10 DEF Sound

\* The client at place i of the queue gets the data.
LEMMA FeedSound ==
  ASSUME NEW x, NEW i \in Places(x), NEW k, k = x.ClientQueue[i].key, Sound(x, {}, {k}),
         NEW u \in Urls, u = x.ClientQueue[i].url, NEW y, y = Feed(x, u, i)
  PROVE  /\ Sound(y, {}, {k})
         /\ x.entries[u].data > 0 => Sound(y, {}, {})
         /\ Since(x, y, {k}) /\ y.entries = x.entries /\ y.conns = x.conns
         /\ y.closed = x.closed /\ y.level = x.level /\ y.got[k] = x.entries[u].data
         /\ y.ClientQueue[i].key = k /\ y.ClientQueue[i].url = u /\ i \in Places(y)
<1>1. x \in StateType /\ QueuesOK(x) /\ ConnsOK(x, {}) /\ LevelsOK(x, {k})
  BY DEF Sound
<1>2. PICK dt : dt = x.entries[u].data
  OBVIOUS
<1>3. dt \in 0 .. MaxData /\ dt \in Nat
  <2>1. x.entries[u] \in Entry
    BY <1>1, MemberTypes
  <2>2. x.entries[u].data \in 0 .. MaxData
    BY <2>1 DEF Entry
  <2> QED
    BY <1>2, <2>2, CacheAssumption
<1>4. PICK q : q = x.ClientQueue
  OBVIOUS
<1>5. PICK cl : cl = [q[i] EXCEPT !.BufSize = dt]
  OBVIOUS
<1>6. PICK r : r = [q EXCEPT ![i] = cl]
  OBVIOUS
<1>7. PICK g : g = [x.got EXCEPT ![k] = dt]
  OBVIOUS
<1>8. y = [x EXCEPT !.ClientQueue = r, !.got = g]
  BY <1>2, <1>4, <1>5, <1>6, <1>7 DEF Feed
<1>9. q \in Seq(Client) /\ Len(q) \in Nat /\ i \in 1 .. Len(q) /\ q[i] \in Client
  BY <1>1, <1>4, MemberTypes DEF Places
<1>10. /\ cl \in Client /\ cl.key = q[i].key /\ cl.url = q[i].url /\ cl.id = q[i].id
       /\ cl.BufSize = dt
  BY <1>3, <1>5, <1>9 DEF Client
<1>11. /\ r \in Seq(Client) /\ Len(r) = Len(q) /\ r[i] = cl
       /\ \A n \in 1 .. Len(q) : n # i => r[n] = q[n]
  BY <1>6, <1>9, <1>10
<1>12. k \in Keys /\ x.got \in [Keys -> 0 .. MaxData]
  BY <1>1, MemberTypes
<1>13. g \in [Keys -> 0 .. MaxData] /\ g[k] = dt /\ \A j \in Keys \ {k} : g[j] = x.got[j]
  BY <1>3, <1>7, <1>12
<1>14. y \in StateType /\ y.ClientQueue = r /\ y.got = g
  BY <1>1, <1>8, <1>11, <1>13 DEF StateType
<1>15. /\ y.entries = x.entries /\ y.conns = x.conns /\ y.DelayedQueue = x.DelayedQueue
       /\ y.closed = x.closed /\ y.level = x.level
  BY <1>1, <1>8 DEF StateType
<1>16. Places(y) = Places(x) /\ Places(x) = 1 .. Len(q)
  BY <1>4, <1>11, <1>14 DEF Places
<1>17. \A n \in Places(x) : /\ y.ClientQueue[n].key = x.ClientQueue[n].key
                            /\ y.ClientQueue[n].url = x.ClientQueue[n].url
                            /\ y.ClientQueue[n].id = x.ClientQueue[n].id
                            /\ n # i => y.ClientQueue[n].BufSize = x.ClientQueue[n].BufSize
  BY <1>4, <1>10, <1>11, <1>14, <1>16
<1>18. \A j : Has(y, j) <=> Has(x, j)
  BY <1>16, <1>17 DEF Has
<1>19. QueuesOK(y)
  <2>1. \A m, n \in Places(y) : y.ClientQueue[m].key = y.ClientQueue[n].key => m = n
    <3>1. \A n \in Places(x) : y.ClientQueue[n].key = x.ClientQueue[n].key
      BY <1>17
    <3>2. \A m, n \in Places(x) : x.ClientQueue[m].key = x.ClientQueue[n].key => m = n
      BY <1>1 DEF QueuesOK
    <3> QED
      BY ONLY <1>16, <3>1, <3>2
  <2>2. \A n \in Places(y) : /\ y.ClientQueue[n].key \notin y.closed
                             /\ y.ClientQueue[n].id = y.entries[y.ClientQueue[n].url].id
                             /\ y.ClientQueue[n].id # 0
    <3>1. \A n \in Places(x) : /\ x.ClientQueue[n].key \notin x.closed
                               /\ x.ClientQueue[n].id = x.entries[x.ClientQueue[n].url].id
                               /\ x.ClientQueue[n].id # 0
      BY <1>1 DEF QueuesOK
    <3> QED
      BY ONLY <1>15, <1>16, <1>17, <3>1
  <2>3. \A n \in 1 .. Len(y.DelayedQueue) :
          /\ y.DelayedQueue[n][2] = y.entries[y.DelayedQueue[n][1]].id
          /\ y.DelayedQueue[n][2] # 0
    BY <1>1, <1>15 DEF QueuesOK
  <2> QED
    BY <2>1, <2>2, <2>3 DEF QueuesOK
<1>20. ConnsOK(y, {}) /\ \A v \in Urls : PageOK(y.entries[v], v)
  BY <1>15 DEF Sound, ConnsOK
<1>21. LevelsOK(y, {k})
  <2>1. SUFFICES ASSUME NEW n \in Places(y), y.ClientQueue[n].BufSize = 0,
                        y.ClientQueue[n].key # k
                 PROVE  y.level[y.ClientQueue[n].key] < RedirectLimit
    BY DEF LevelsOK
  <2>2. n \in Places(x) /\ n # i /\ y.ClientQueue[n].key = x.ClientQueue[n].key
    BY <1>4, <1>10, <1>11, <1>14, <1>16, <1>17, <2>1
  <2>3. x.ClientQueue[n].BufSize = 0
    BY <1>17, <2>1, <2>2
  <2> QED
    BY <1>1, <1>15, <2>1, <2>2, <2>3 DEF LevelsOK
<1>22. dt > 0 => LevelsOK(y, {})
  <2>1. SUFFICES ASSUME dt > 0, NEW n \in Places(y), y.ClientQueue[n].BufSize = 0
                 PROVE  y.level[y.ClientQueue[n].key] < RedirectLimit
    BY DEF LevelsOK
  <2>2. y.ClientQueue[i].BufSize = dt
    BY <1>10, <1>11, <1>14
  <2>3. n # i
    BY <1>3, <2>1, <2>2
  <2>4. y.ClientQueue[n].key # k
    BY <1>1, <1>16, <1>17, <2>3 DEF QueuesOK
  <2> QED
    BY <1>1, <1>15, <1>16, <1>17, <2>1, <2>3, <2>4 DEF LevelsOK
<1>23. Since(x, y, {k})
  <2>1. ASSUME NEW j \in Keys \ {k} PROVE Fate(x, y, j)
    <3>1. y.got[j] = x.got[j]
      BY <1>13, <1>14
    <3>2. \A n \in Places(x) :
            /\ n \in Places(y) /\ y.ClientQueue[n].key = x.ClientQueue[n].key
            /\ y.ClientQueue[n].url = x.ClientQueue[n].url
            /\ SamePage(x.entries[x.ClientQueue[n].url], y.entries[x.ClientQueue[n].url])
      BY <1>15, <1>16, <1>17 DEF SamePage
    <3> QED
      BY <1>15, <1>18, <3>1, <3>2 DEF Fate
  <2> QED
    BY <2>1 DEF Since
<1> QED
  BY <1>2, <1>13, <1>14, <1>15, <1>16, <1>17, <1>19, <1>20, <1>21, <1>22, <1>23 DEF Sound

\* An entry gets another record, with the same identity.
Rewrites(x, y, u, e) == y = [x EXCEPT !.entries[u] = e]

LEMMA EntrySound ==
  ASSUME NEW W, NEW J, NEW x, Sound(x, W, J), NEW u \in Urls, NEW e \in Entry,
         e.id = x.entries[u].id, PageOK(e, u), u \in x.conns \ W => ~e.GotData,
         NEW y, Rewrites(x, y, u, e)
  PROVE  /\ Sound(y, W, J) /\ SameTalk(x, y)
         /\ y.conns = x.conns /\ y.ClientQueue = x.ClientQueue
         /\ y.DelayedQueue = x.DelayedQueue /\ y.idle = x.idle /\ y.entries[u] = e
         /\ \A v \in Urls \ {u} : y.entries[v] = x.entries[v]
         /\ (x.entries[u].kind \notin CA_Redirect => SamePage(x.entries[u], e))
              => Since(x, y, {})
<1>1. x \in StateType /\ QueuesOK(x) /\ ConnsOK(x, W) /\ LevelsOK(x, J)
  BY DEF Sound
<1>2. PICK f : f = [x.entries EXCEPT ![u] = e]
  OBVIOUS
<1>3. y = [x EXCEPT !.entries = f]
  BY <1>2 DEF Rewrites
<1>4. x.entries \in [Urls -> Entry] /\ x.conns \subseteq Urls
  BY <1>1, MemberTypes
<1>5. f \in [Urls -> Entry] /\ f[u] = e /\ \A v \in Urls \ {u} : f[v] = x.entries[v]
  BY <1>2, <1>4
<1>6. y \in StateType /\ y.entries = f
  BY <1>1, <1>3, <1>5 DEF StateType
<1>7. /\ y.conns = x.conns /\ y.ClientQueue = x.ClientQueue /\ y.idle = x.idle
      /\ y.DelayedQueue = x.DelayedQueue /\ SameTalk(x, y)
  BY <1>1, <1>3 DEF StateType, SameTalk
<1>8. \A v \in Urls : y.entries[v].id = x.entries[v].id
  BY <1>5, <1>6
<1>9. Places(y) = Places(x) /\ \A j : Has(y, j) <=> Has(x, j)
  BY <1>7 DEF Places, Has
<1>10. /\ \A n \in Places(x) : x.ClientQueue[n].url \in Urls
       /\ \A n \in 1 .. Len(x.DelayedQueue) : x.DelayedQueue[n][1] \in Urls
  BY <1>1, MemberTypes
<1>11. QueuesOK(y)
  BY <1>1, <1>7, <1>8, <1>9, <1>10 DEF QueuesOK, SameTalk
<1>12. ConnsOK(y, W)
  BY <1>1, <1>4, <1>5, <1>6, <1>7, <1>8 DEF ConnsOK
<1>13. LevelsOK(y, J)
  BY <1>1, <1>7, <1>9 DEF LevelsOK, SameTalk
<1>14. \A v \in Urls : PageOK(y.entries[v], v)
  BY <1>5, <1>6 DEF Sound
<1>15. ASSUME x.entries[u].kind \notin CA_Redirect => SamePage(x.entries[u], e)
       PROVE  Since(x, y, {})
  <2>1. \A v \in Urls : x.entries[v].kind \notin CA_Redirect
                          => SamePage(x.entries[v], y.entries[v])
    BY <1>5, <1>6, <1>15 DEF SamePage
  <2>2. ASSUME NEW j \in Keys PROVE Fate(x, y, j)
    <3>1. \A n \in Places(x) : x.entries[x.ClientQueue[n].url].kind \notin CA_Redirect =>
            SamePage(x.entries[x.ClientQueue[n].url], y.entries[x.ClientQueue[n].url])
      BY <1>10, <2>1
    <3> QED
      BY <1>7, <1>9, <3>1 DEF Fate, SameTalk
  <2> QED
    BY <2>2 DEF Since
<1> QED
  BY <1>5, <1>6, <1>7, <1>11, <1>12, <1>13, <1>14, <1>15 DEF Sound

\* What there is to say of a client that waits.
LEMMA FateOf ==
  ASSUME NEW W, NEW J, NEW x, Sound(x, W, J), NEW i \in Places(x),
         NEW k, k = x.ClientQueue[i].key, NEW u, u = x.ClientQueue[i].url, NEW y,
         Since(x, y, {k}),
         x.entries[u].kind \notin CA_Redirect =>
             \/ ~Has(y, k) /\ k \notin y.closed
             \/ \E m \in Places(y) : /\ y.ClientQueue[m].key = k
                                     /\ y.ClientQueue[m].url = u
                                     /\ SamePage(x.entries[u], y.entries[u])
             \/ /\ k \in y.closed /\ y.got[k] = x.entries[u].data
                /\ x.entries[u].GotData
  PROVE  Since(x, y, {})
<1>1. QueuesOK(x)
  BY DEF Sound
<1>2. k \notin x.closed /\ Has(x, k)
  BY <1>1 DEF QueuesOK, Has
<1>3. \A n \in Places(x) : x.ClientQueue[n].key = k => n = i
  BY <1>1 DEF QueuesOK
<1>4. Fate(x, y, k)
  BY <1>2, <1>3 DEF Fate
<1> QED
  BY <1>4 DEF Since

\* An entry is the same but for CA_RedirectLoop.
SameBut(e, f) ==
  /\ f.id = e.id /\ f.header = e.header /\ f.typed = e.typed /\ f.to = e.to
  /\ f.data = e.data /\ f.GotData = e.GotData /\ f.refs = e.refs /\ f.spared = e.spared
  /\ f.kind = e.kind \/ {e.kind, f.kind} \subseteq CA_Redirect

\* The entry that is served is left alone, and the references of the others stay right.
Held(x, y, u) ==
  /\ SameBut(x.entries[u], y.entries[u]) /\ (u \in y.conns <=> u \in x.conns)
  /\ \A v \in Urls \ {u} : Counted(x.entries[v], 0) => Counted(y.entries[v], 0)

LEMMA HeldChain ==
  ASSUME NEW u, NEW x, NEW y, NEW z, Held(x, y, u), Held(y, z, u)
  PROVE  Held(x, z, u)
<1>1. SameBut(x.entries[u], z.entries[u])
  BY DEF Held, SameBut
<1> QED
  BY <1>1 DEF Held

LEMMA HeldSame ==
  ASSUME NEW u, NEW x, NEW y, y.entries = x.entries, y.conns = x.conns
  PROVE  Held(x, y, u)
BY DEF Held, SameBut

\* Only page to is touched, which is another one.
LEMMA TouchHeld ==
  ASSUME NEW u \in Urls, NEW v \in Urls \ {u}, NEW x, NEW y, Touches(x, y, v)
  PROVE  Held(x, y, u)
<1>1. y.entries[u] = x.entries[u] /\ (u \in y.conns <=> u \in x.conns)
  BY DEF Touches
<1>2. \A w \in Urls \ {u} : Counted(x.entries[w], 0) => Counted(y.entries[w], 0)
  BY DEF Touches
<1> QED
  BY <1>1, <1>2 DEF Held, SameBut

\* A client that was told the end is redirected, or not.
LEMMA RedirectSound ==
  ASSUME NEW x, Sound(x, {}, {}), NEW u \in Urls, NEW cl \in Client,
         NEW k \in Keys, k = cl.key, ~Has(x, k), NEW i,
         NEW y, y = Cache_redirect(x, u, cl, i)
  PROVE  /\ Sound(y, {}, {}) /\ Since(x, y, {k}) /\ Held(x, y, u)
         /\ x.entries[u].kind \notin CA_Redirect => y = x
<1> DEFINE e == x.entries[u]
<1>1. x \in StateType /\ QueuesOK(x) /\ ConnsOK(x, {}) /\ PageOK(e, u)
  BY DEF Sound
<1>2. e \in Entry /\ x.closed \in SUBSET Keys /\ x.got \in [Keys -> 0 .. MaxData]
      /\ x.level \in [Keys -> 0 .. RedirectLimit] /\ x.shifted \in SUBSET Urls
  BY <1>1, MemberTypes DEF StateType
<1>3. 0 \in 0 .. MaxData /\ 0 \in 0 .. RedirectLimit
  BY CacheAssumption
<1>4. ASSUME y = x PROVE Sound(y, {}, {}) /\ Since(x, y, {k}) /\ Held(x, y, u)
  <2>1. Embeds(x, x)
    BY SamePlaces
  <2>2. Shrinks(x, x, {})
    BY <1>1, <2>1 DEF Shrinks
  <2>3. Since(x, x, {})
    BY <2>2, ShrunkSound
  <2>4. Since(x, x, {k}) /\ Held(x, x, u)
    BY <2>3, SinceMore, HeldSame
  <2> QED
    BY <1>4, <2>4
<1>5. CASE e.kind \notin CA_Redirect
  <2>1. y = x
    BY <1>5 DEF Cache_redirect
  <2> QED
    BY <1>4, <2>1
<1>6. CASE e.kind \in CA_Redirect /\ (e.kind = "loop" \/ x.level[k] >= RedirectLimit)
  <2>1. PICK f : f = [e EXCEPT !.kind = "loop"]
    OBVIOUS
  <2>2. PICK a : a = [x EXCEPT !.entries[u] = f]
    OBVIOUS
  <2>3. PICK l : l = [x.level EXCEPT ![k] = 0]
    OBVIOUS
  <2>4. y = [a EXCEPT !.level = l]
    <3>1. y = [x EXCEPT !.entries[u].kind = "loop", !.level[cl.key] = 0]
      BY <1>6 DEF Cache_redirect
    <3> QED
      BY <2>1, <2>2, <2>3, <3>1
  <2>5. f \in Entry /\ f.kind = "loop"
    BY <1>2, <2>1 DEF Entry, Kinds
  <2>6. /\ f.id = e.id /\ f.header = e.header /\ f.typed = e.typed /\ f.to = e.to
        /\ f.data = e.data /\ f.GotData = e.GotData /\ f.refs = e.refs
        /\ f.spared = e.spared
    BY <1>2, <2>1 DEF Entry
  <2>7. SameBut(e, f)
    BY <1>6, <2>5, <2>6 DEF SameBut, CA_Redirect
  <2>8. PageOK(f, u)
    BY <1>1, <1>6, <2>5, <2>6 DEF PageOK
  <2>9. u \in x.conns \ {} => ~f.GotData
    BY <1>1, <2>6 DEF ConnsOK
  <2>10. /\ Sound(a, {}, {}) /\ SameTalk(x, a) /\ Since(x, a, {})
         /\ a.conns = x.conns /\ a.ClientQueue = x.ClientQueue /\ a.entries[u] = f
         /\ \A v \in Urls \ {u} : a.entries[v] = x.entries[v]
    <3> HIDE DEF e
    <3>1. x.entries[u].kind \in CA_Redirect /\ f.id = x.entries[u].id
      BY <1>6, <2>6 DEF e
    <3>2. Rewrites(x, a, u, f)
      BY <2>2 DEF Rewrites
    <3> QED
      BY <2>5, <2>8, <2>9, <3>1, <3>2, EntrySound
  <2>11. Held(x, a, u)
    BY <2>7, <2>10 DEF Held
  <2>12. l \in [Keys -> 0 .. RedirectLimit] /\ \A j \in Keys \ {k} : l[j] = x.level[j]
    BY <1>2, <1>3, <2>3
  <2>13. a \in StateType
    BY <2>10 DEF Sound
  <2>14. /\ y \in StateType /\ y.ClientQueue = a.ClientQueue /\ y.entries = a.entries
         /\ y.DelayedQueue = a.DelayedQueue /\ y.conns = a.conns /\ y.level = l
         /\ y.closed = a.closed /\ y.got = a.got
    BY <2>4, <2>12, <2>13 DEF StateType
  <2>15. TalksTo(a, y, k)
    BY <2>10, <2>12, <2>14 DEF TalksTo, SameTalk
  <2>16. ~Has(a, k)
    BY <2>10 DEF Has, Places
  <2>17. Sound(y, {}, {}) /\ Since(a, y, {k})
    BY <2>10, <2>15, <2>16, TalkSound
  <2>18. Since(x, y, {k})
    BY <2>10, <2>17, SinceMore, SinceChain
  <2>19. Held(x, y, u)
    BY <2>11, <2>14, HeldSame, HeldChain
  <2> QED
    BY <1>6, <2>17, <2>18, <2>19
<1>7. CASE /\ e.kind \in CA_Redirect /\ ~(e.kind = "loop" \/ x.level[k] >= RedirectLimit)
           /\ ~cl.root
  <2>1. y = x
    BY <1>7 DEF Cache_redirect
  <2> QED
    BY <1>4, <1>7, <2>1
<1>8. CASE /\ e.kind \in CA_Redirect /\ ~(e.kind = "loop" \/ x.level[k] >= RedirectLimit)
           /\ cl.root
  <2>1. PICK b : b = [x EXCEPT !.closed = @ \ {k}, !.got[k] = 0]
    OBVIOUS
  <2>2. PICK v : v = e.to
    OBVIOUS
  <2>3. PICK reload \in BOOLEAN : reload = (e.kind = "found")
    OBVIOUS
  <2>4. PICK a : a = a_Cache_open_url(b, k, v, TRUE, reload)
    OBVIOUS
  <2>5. PICK s : y = [a EXCEPT !.shifted = s] /\ s \in {a.shifted, a.shifted \cup {u}}
    <3>1. a = Nav_open_url(x, k, e.to, e.kind = "found")
      BY <2>1, <2>2, <2>3, <2>4 DEF Nav_open_url
    <3>2. y = [a EXCEPT !.shifted =
                 IF \E n \in 1 .. i - 1 : x.ClientQueue[n].key \notin KeysIn(a)
                 THEN @ \cup {u} ELSE @]
      BY <1>8, <3>1 DEF Cache_redirect
    <3>3. PICK s : s = IF \E n \in 1 .. i - 1 : x.ClientQueue[n].key \notin KeysIn(a)
                       THEN a.shifted \cup {u} ELSE a.shifted
      OBVIOUS
    <3>4. y = [a EXCEPT !.shifted = s]
      BY <3>2, <3>3
    <3> QED
      BY <3>3, <3>4
  <2>6. /\ v \in Urls \ {u}
    BY <1>1, <1>8, <2>2 DEF PageOK
  <2>7. PICK g : g = [x.got EXCEPT ![k] = 0]
    OBVIOUS
  <2>8. b = [x EXCEPT !.closed = @ \ {k}, !.got = g]
    BY <2>1, <2>7
  <2>9. g \in [Keys -> 0 .. MaxData] /\ \A j \in Keys \ {k} : g[j] = x.got[j]
    BY <1>2, <1>3, <2>7
  <2>10. /\ b \in StateType /\ b.ClientQueue = x.ClientQueue /\ b.entries = x.entries
         /\ b.DelayedQueue = x.DelayedQueue /\ b.conns = x.conns /\ b.level = x.level
         /\ b.closed = x.closed \ {k} /\ b.got = g
    BY <1>1, <2>8, <2>9 DEF StateType
  <2>11. TalksTo(x, b, k)
    BY <2>9, <2>10 DEF TalksTo
  <2>12. Sound(b, {}, {}) /\ Since(x, b, {k}) /\ ~Has(b, k)
    BY <2>11, TalkSound
  <2>13. x.level[k] < RedirectLimit
    BY <1>2, <1>8, CacheAssumption
  <2>14. /\ Sound(a, {}, {}) /\ Since(b, a, {k}) /\ Touches(b, a, v)
    BY <2>4, <2>6, <2>10, <2>12, <2>13, OpenSound
  <2>15. a \in StateType /\ QueuesOK(a)
    BY <2>14 DEF Sound
  <2>16. /\ y \in StateType /\ y.ClientQueue = a.ClientQueue /\ y.entries = a.entries
         /\ y.DelayedQueue = a.DelayedQueue /\ y.conns = a.conns /\ SameTalk(a, y)
    <3>1. a.shifted \in SUBSET Urls
      BY <2>15 DEF StateType
    <3>2. s \in SUBSET Urls
      BY <2>5, <3>1
    <3> QED
      BY <2>5, <2>15, <3>2 DEF StateType, SameTalk
  <2>17. \A n \in 1 .. Len(y.DelayedQueue) :
           /\ y.DelayedQueue[n][2] = y.entries[y.DelayedQueue[n][1]].id
           /\ y.DelayedQueue[n][2] # 0
    BY <2>15, <2>16 DEF QueuesOK
  <2>18. Sound(y, {}, {}) /\ Since(a, y, {})
    BY <2>14, <2>16, <2>17, DelayedQueueSound
  <2>19. Since(x, y, {k})
    <3>1. Since(a, y, {k})
      BY <2>18, SinceMore
    <3>2. Since(x, a, {k})
      BY <2>12, <2>14, SinceChain
    <3> QED
      BY <3>1, <3>2, SinceChain
  <2>20. Held(x, b, u) /\ Held(b, a, u) /\ Held(a, y, u)
    BY <2>6, <2>10, <2>14, <2>16, HeldSame, TouchHeld
  <2>21. Held(x, y, u)
    BY <2>20, HeldChain
  <2> QED
    BY <1>8, <2>18, <2>19, <2>21
<1> QED
  BY <1>5, <1>6, <1>7, <1>8

\* The client at place i is served.
LEMMA ServeSound ==
  ASSUME NEW x, NEW i \in Places(x), NEW k, k = x.ClientQueue[i].key, Sound(x, {}, {k}),
         NEW u \in Urls, u = x.ClientQueue[i].url, x.entries[u].typed,
         NEW r, r = Serve(x, u, i)
  PROVE  Sound(r.x, {}, {}) /\ Since(x, r.x, {}) /\ Held(x, r.x, u) /\ r.i \in Nat \ {0}
<1>1. x \in StateType /\ QueuesOK(x) /\ PageOK(x.entries[u], u)
  BY DEF Sound
<1>2. PICK cl : cl = x.ClientQueue[i]
  OBVIOUS
<1>3. cl \in Client /\ cl.key = k /\ k \in Keys /\ i \in Nat \ {0}
  <2>1. Len(x.ClientQueue) \in Nat
    BY <1>1, MemberTypes
  <2>2. i \in Nat \ {0}
    BY <2>1 DEF Places
  <2> QED
    BY <1>1, <1>2, <2>2, MemberTypes
<1>4. PICK f : f = Feed(x, u, i)
  OBVIOUS
<1>5. /\ Sound(f, {}, {k})
      /\ x.entries[u].data > 0 => Sound(f, {}, {})
      /\ Since(x, f, {k}) /\ f.entries = x.entries /\ f.conns = x.conns
      /\ f.closed = x.closed /\ f.level = x.level /\ f.got[k] = x.entries[u].data
      /\ f.ClientQueue[i].key = k /\ f.ClientQueue[i].url = u /\ i \in Places(f)
  BY <1>4, FeedSound
<1>6. Held(x, f, u)
  BY <1>5, HeldSame
<1>7. CASE ~x.entries[u].GotData
  <2>1. r = [x |-> f, i |-> i + 1]
    BY <1>4, <1>7 DEF Serve
  <2>2. r.x = f /\ r.i \in Nat \ {0}
    BY <1>3, <2>1
  <2>3. x.entries[u].data > 0
    BY <1>1, <1>7 DEF PageOK
  <2>4. SamePage(x.entries[u], f.entries[u])
    BY <1>5 DEF SamePage
  <2>5. Since(x, f, {})
    BY <1>5, <2>4, FateOf
  <2> QED
    BY <1>5, <1>6, <2>2, <2>3, <2>5
<1>8. CASE x.entries[u].GotData
  <2>1. PICK d : d = Dequeue(f, {k})
    OBVIOUS
  <2>2. PICK w : w = [d EXCEPT !.closed = @ \cup {k}]
    OBVIOUS
  <2>3. PICK y : y = Cache_redirect(w, u, cl, i)
    OBVIOUS
  <2>4. r = [x |-> y, i |-> i]
    BY <1>2, <1>3, <1>4, <1>8, <2>1, <2>2, <2>3 DEF Serve
  <2>5. r.x = y /\ r.i = i
    BY <2>4
  <2>6. {k} \ {k} = {}
    OBVIOUS
  <2>7. /\ Sound(d, {}, {}) /\ Since(f, d, {}) /\ SameRest(f, d) /\ Leaves(f, d, {k})
    BY <1>5, <2>1, <2>6, DequeueSound
  <2>8. ~Has(d, k)
    BY <2>7 DEF Leaves, Has
  <2>9. d \in StateType
    BY <2>7 DEF Sound
  <2>10. /\ w \in StateType /\ w.ClientQueue = d.ClientQueue /\ w.entries = d.entries
         /\ w.DelayedQueue = d.DelayedQueue /\ w.conns = d.conns /\ w.level = d.level
         /\ w.closed = d.closed \cup {k} /\ w.got = d.got
    BY <1>3, <2>2, <2>9 DEF StateType
  <2>11. TalksTo(d, w, k)
    BY <2>10 DEF TalksTo
  <2>12. Sound(w, {}, {}) /\ Since(d, w, {k}) /\ ~Has(w, k)
    BY <1>3, <2>7, <2>8, <2>11, TalkSound
  <2>13. /\ Sound(y, {}, {}) /\ Since(w, y, {k}) /\ Held(w, y, u)
         /\ w.entries[u].kind \notin CA_Redirect => y = w
    BY <1>3, <2>3, <2>12, RedirectSound
  <2>14. w.entries = x.entries /\ w.conns = x.conns /\ k \in w.closed
         /\ w.got[k] = x.entries[u].data
    BY <1>5, <2>7, <2>10 DEF SameRest
  <2>15. Since(x, y, {k})
    <3>1. Since(f, d, {k})
      BY <2>7, SinceMore
    <3>2. Since(x, d, {k})
      BY <1>5, <3>1, SinceChain
    <3>3. Since(x, w, {k})
      BY <2>12, <3>2, SinceChain
    <3> QED
      BY <2>13, <3>3, SinceChain
  <2>16. Since(x, y, {})
    <3>1. x.entries[u].kind \notin CA_Redirect =>
            k \in y.closed /\ y.got[k] = x.entries[u].data /\ x.entries[u].GotData
      BY <1>8, <2>13, <2>14
    <3> QED
      BY <2>15, <3>1, FateOf
  <2>17. Held(x, y, u)
    BY <2>13, <2>14, HeldSame, HeldChain
  <2> QED
    BY <1>3, <2>5, <2>13, <2>16, <2>17
<1> QED
  BY <1>7, <1>8

\* The loop of Cache_process_queue, between two turns.
LoopState == [x : StateType, i : Nat, abort : BOOLEAN, offer : BOOLEAN]

Served(x, s, u) == /\ s \in LoopState /\ s.i > 0
                   /\ Sound(s.x, {}, {}) /\ Since(x, s.x, {}) /\ Held(x, s.x, u)

\* The level of the window of client cl, who is about to get data of page u.
LevelOf(x, u, cl) ==
  IF ~cl.root THEN x.level[cl.key]
  ELSE IF x.entries[u].kind \notin CA_Redirect THEN 0
  ELSE IF cl.BufSize = 0 THEN x.level[cl.key] + 1 ELSE x.level[cl.key]

Leveled(x, u, cl) == [x EXCEPT !.level[cl.key] = LevelOf(x, u, cl)]

LEMMA LeveledSound ==
  ASSUME NEW x, Sound(x, {}, {}), NEW u \in Urls, NEW i \in Places(x),
         NEW cl, cl = x.ClientQueue[i], NEW k, k = cl.key, NEW y, y = Leveled(x, u, cl)
  PROVE  /\ y \in StateType /\ Sound(y, {}, {k}) /\ Since(x, y, {})
         /\ y.ClientQueue = x.ClientQueue /\ y.entries = x.entries
         /\ y.DelayedQueue = x.DelayedQueue /\ y.conns = x.conns /\ y.idle = x.idle
         /\ y.shifted = x.shifted /\ y.level[k] = LevelOf(x, u, cl)
         /\ \A j \in Keys \ {k} : y.level[j] = x.level[j]
<1>1. x \in StateType /\ QueuesOK(x) /\ LevelsOK(x, {})
  BY DEF Sound
<1>2. /\ cl \in Client /\ k \in Keys /\ cl.BufSize \in Nat
      /\ x.level \in [Keys -> 0 .. RedirectLimit]
  BY <1>1, MemberTypes
<1>3. PICK l : l = LevelOf(x, u, cl)
  OBVIOUS
<1>4. l \in 0 .. RedirectLimit
  <2>1. x.level[k] \in 0 .. RedirectLimit
    BY <1>2
  <2>2. cl.BufSize = 0 => x.level[k] < RedirectLimit
    BY <1>1 DEF LevelsOK
  <2>3. 0 \in 0 .. RedirectLimit
    BY CacheAssumption
  <2> QED
    BY <1>3, <2>1, <2>2, <2>3, CacheAssumption DEF LevelOf
<1>5. PICK g : g = [x.level EXCEPT ![k] = l]
  OBVIOUS
<1>6. y = [x EXCEPT !.level = g]
  BY <1>3, <1>5 DEF Leveled
<1>7. /\ g \in [Keys -> 0 .. RedirectLimit] /\ g[k] = l
      /\ \A j \in Keys \ {k} : g[j] = x.level[j]
  BY <1>2, <1>4, <1>5
<1>8. /\ y \in StateType /\ y.ClientQueue = x.ClientQueue /\ y.entries = x.entries
      /\ y.DelayedQueue = x.DelayedQueue /\ y.conns = x.conns /\ y.level = g
      /\ y.closed = x.closed /\ y.got = x.got /\ y.idle = x.idle /\ y.shifted = x.shifted
  BY <1>1, <1>6, <1>7 DEF StateType
<1>9. TalksTo(x, y, k)
  BY <1>7, <1>8 DEF TalksTo
<1>10. k \notin y.closed
  BY <1>1, <1>8 DEF QueuesOK
<1>11. {} \cup {k} = {k}
  OBVIOUS
<1>12. Sound(y, {}, {k}) /\ Since(x, y, {k})
  <2>1. Sound(y, {}, {} \cup {k}) /\ Since(x, y, {k})
    BY <1>2, <1>9, <1>10, TalkSound
  <2> QED
    BY <1>11, <2>1
<1>13. Since(x, y, {})
  <2>1. \A v : SamePage(x.entries[v], y.entries[v])
    BY <1>8 DEF SamePage
  <2>2. i \in Places(y) /\ y.ClientQueue[i] = cl
    BY <1>8 DEF Places
  <2> QED
    BY <1>12, <2>1, <2>2, FateOf
<1> QED
  BY <1>3, <1>7, <1>8, <1>12, <1>13

\* A turn passes over client cl, aborts, or serves: d has counted the client, a is
\* without it, and r serves it.
Turned(s, t, u, m, cl, d, a, r) ==
  \/ (cl.url # u \/ cl.id # s.x.entries[u].id) /\ t = [s EXCEPT !.i = @ + 1]
  \/ /\ cl.url = u /\ (s.abort \/ m \/ cl.root)
     /\ t = [x |-> a, i |-> s.i, abort |-> TRUE, offer |-> s.offer \/ cl.root]
  \/ cl.url = u /\ t = [s EXCEPT !.x = r.x, !.i = r.i]

LEMMA TurnCases ==
  ASSUME NEW u, NEW s, NEW m, NEW t, t = NextTurn(s, u, m), ~(s.i > Len(s.x.ClientQueue)),
         NEW cl, cl = s.x.ClientQueue[s.i], NEW d, d = Leveled(s.x, u, cl),
         NEW a, a = Dequeue(d, {cl.key}), NEW r, r = Serve(d, u, s.i)
  PROVE  Turned(s, t, u, m, cl, d, a, r)
<1>1. t = Turn(s, u, m)
  BY DEF NextTurn
<1>2. d = [s.x EXCEPT !.level[cl.key] =
                IF ~cl.root THEN @
                ELSE IF ~(s.x.entries[u].kind \in CA_Redirect) THEN 0
                ELSE IF cl.BufSize = 0 THEN @ + 1 ELSE @]
  BY DEF Leveled, LevelOf
<1> QED
  BY <1>1, <1>2 DEF Turn, Turned

LEMMA TurnSound ==
  ASSUME NEW u \in Urls, NEW x, x.entries[u].typed, NEW s, Served(x, s, u), NEW mismatch,
         NEW t, t = NextTurn(s, u, mismatch)
  PROVE  Served(x, t, u)
<1>1. /\ s \in LoopState /\ s.i > 0 /\ s.i \in Nat
      /\ Sound(s.x, {}, {}) /\ Since(x, s.x, {}) /\ Held(x, s.x, u)
  BY DEF Served, LoopState
<1>2. CASE s.i > Len(s.x.ClientQueue)
  BY <1>2 DEF NextTurn
<1>3. CASE ~(s.i > Len(s.x.ClientQueue))
  <2>1. s.x \in StateType /\ s.x.entries[u].typed
    BY <1>1 DEF Sound, Held, SameBut
  <2>2. s.i \in Places(s.x)
    BY <1>1, <1>3, <2>1, MemberTypes DEF Places
  <2>3. PICK cl : cl = s.x.ClientQueue[s.i]
    OBVIOUS
  <2>4. PICK k : k = cl.key
    OBVIOUS
  <2>5. PICK d : d = Leveled(s.x, u, cl)
    OBVIOUS
  <2>6. PICK r : r = Serve(d, u, s.i)
    OBVIOUS
  <2>7. PICK a : a = Dequeue(d, {k})
    OBVIOUS
  <2>8. \/ t = [s EXCEPT !.i = @ + 1]
        \/ /\ cl.url = u
           /\ \/ t = [x |-> a, i |-> s.i, abort |-> TRUE, offer |-> s.offer \/ cl.root]
              \/ t = [s EXCEPT !.x = r.x, !.i = r.i]
    <3>1. Turned(s, t, u, mismatch, cl, d, a, r)
      BY <1>3, <2>3, <2>4, <2>5, <2>6, <2>7, TurnCases
    <3> QED
      BY <3>1 DEF Turned
  <2>9. CASE t = [s EXCEPT !.i = @ + 1]
    <3>1. t \in LoopState /\ t.x = s.x /\ t.i = s.i + 1
      BY <1>1, <2>9 DEF LoopState
    <3> QED
      BY <1>1, <3>1 DEF Served
  <2>10. /\ Sound(d, {}, {k}) /\ Since(s.x, d, {}) /\ d.entries = s.x.entries
         /\ d.conns = s.x.conns /\ d.ClientQueue = s.x.ClientQueue
    BY <1>1, <2>2, <2>3, <2>4, <2>5, LeveledSound
  <2>11. s.i \in Places(d) /\ d.ClientQueue[s.i] = cl
    BY <2>2, <2>3, <2>10 DEF Places
  <2>12. Since(x, d, {}) /\ Held(x, d, u)
    <3>1. Held(s.x, d, u)
      BY <2>10, HeldSame
    <3> QED
      BY <1>1, <2>10, <3>1, SinceChain, HeldChain
  <2>13. {k} \ {k} = {}
    OBVIOUS
  <2>14. CASE t = [x |-> a, i |-> s.i, abort |-> TRUE, offer |-> s.offer \/ cl.root]
    <3>1. Sound(a, {}, {}) /\ Since(d, a, {}) /\ SameRest(d, a)
      BY <2>7, <2>10, <2>13, DequeueSound
    <3>2. Held(d, a, u)
      BY <3>1, HeldSame DEF SameRest
    <3>3. a \in StateType
      BY <3>1 DEF Sound
    <3>4. (s.offer \/ cl.root) \in BOOLEAN
      OBVIOUS
    <3>5. t \in LoopState /\ t.x = a /\ t.i = s.i
      BY <1>1, <2>14, <3>3, <3>4 DEF LoopState
    <3>6. Since(x, a, {}) /\ Held(x, a, u)
      BY <2>12, <3>1, <3>2, SinceChain, HeldChain
    <3> QED
      BY <1>1, <3>1, <3>5, <3>6 DEF Served
  <2>15. CASE cl.url = u /\ t = [s EXCEPT !.x = r.x, !.i = r.i]
    <3>1. d.entries[u].typed
      BY <2>1, <2>10
    <3>2. /\ Sound(r.x, {}, {}) /\ Since(d, r.x, {}) /\ Held(d, r.x, u)
          /\ r.i \in Nat \ {0}
      BY <2>4, <2>6, <2>10, <2>11, <2>15, <3>1, ServeSound
    <3>3. r.x \in StateType
      BY <3>2 DEF Sound
    <3>4. t \in LoopState /\ t.x = r.x /\ t.i = r.i
      BY <1>1, <2>15, <3>2, <3>3 DEF LoopState
    <3>5. Since(x, r.x, {}) /\ Held(x, r.x, u)
      BY <2>12, <3>2, SinceChain, HeldChain
    <3> QED
      BY <3>2, <3>4, <3>5 DEF Served
  <2> QED
    BY <2>8, <2>9, <2>14, <2>15
<1> QED
  BY <1>2, <1>3

----------------------------------------------------------------------------
(* The loops                                                               *)

\* One turn of the loop of Delayed, or of the one of Cache_process_queue.
Step(delayed, s, u, mismatch) ==
  IF delayed THEN DelayedNext(s) ELSE NextTurn(s, u, mismatch)

\* f records the states of a loop from b.
IsLoop(f, delayed, b, u, mismatch, n) ==
  f = [k \in 0 .. n |-> IF k = 0 THEN b ELSE Step(delayed, f[k - 1], u, mismatch)]

\* The recursive functions of the loops exist.
LEMMA LoopExists ==
  ASSUME NEW t \in BOOLEAN, NEW b, NEW u, NEW m, NEW n \in Nat
  PROVE  \E f : IsLoop(f, t, b, u, m, n)
<1> DEFINE S == {k \in Nat : ~\E f : IsLoop(f, t, b, u, m, k)}
<1>1. SUFFICES ASSUME S # {} PROVE FALSE
  OBVIOUS
<1>2. PICK k \in S : \A j \in S : k <= j
  BY <1>1, LeastOf
<1>3. CASE k = 0
  <2> DEFINE f == [j \in 0 .. 0 |-> b]
  <2>1. f = [j \in 0 .. 0 |-> IF j = 0 THEN b ELSE Step(t, f[j - 1], u, m)]
    OBVIOUS
  <2> QED
    BY <1>2, <1>3, <2>1 DEF IsLoop
<1>4. CASE k # 0
  <2>1. k - 1 \in Nat /\ k - 1 \notin S /\ k \in Nat
    BY <1>2, <1>4
  <2>2. PICK f : IsLoop(f, t, b, u, m, k - 1)
    BY <2>1
  <2>3. \A j \in 0 .. k - 1 : f[j] = IF j = 0 THEN b ELSE Step(t, f[j - 1], u, m)
    BY <2>1, <2>2 DEF IsLoop
  <2> DEFINE g == [j \in 0 .. k |-> IF j = k THEN Step(t, f[k - 1], u, m) ELSE f[j]]
  <2>4. ASSUME NEW j \in 0 .. k
        PROVE  g[j] = IF j = 0 THEN b ELSE Step(t, g[j - 1], u, m)
    <3>1. CASE j = k
      BY <1>4, <2>1, <3>1
    <3>2. CASE j # k
      <4>1. j \in 0 .. k - 1 /\ (j # 0 => j - 1 \in 0 .. k /\ j - 1 # k)
        BY <2>1, <3>2
      <4> QED
        BY <2>1, <2>3, <3>2, <4>1
    <3> QED
      BY <3>1, <3>2
  <2>5. g = [j \in 0 .. k |-> g[j]]
    OBVIOUS
  <2> HIDE DEF g
  <2>6. [j \in 0 .. k |-> g[j]] =
          [j \in 0 .. k |-> IF j = 0 THEN b ELSE Step(t, g[j - 1], u, m)]
    BY <2>4
  <2>7. IsLoop(g, t, b, u, m, k)
    BY <2>5, <2>6 DEF IsLoop
  <2> QED
    BY <1>2, <2>7
<1> QED
  BY <1>3, <1>4

\* The loops are long enough for every client and URL, of which there are so many.
LEMMA LoopLengths ==
  /\ 2 * Cardinality(Keys) \in Nat
  /\ Cardinality(Urls) + RedirectLimit * Cardinality(Keys) \in Nat
<1>1. Cardinality(Keys) \in Nat /\ Cardinality(Urls) \in Nat
  BY CacheAssumption, FS_CardinalityType
<1>2. RedirectLimit \in Nat
  BY CacheAssumption
<1>3. \A m, n \in Nat : m * n \in Nat
  OBVIOUS
<1> QED
  BY <1>1, <1>2, <1>3

\* Where the loop of Cache_process_queue begins.
Start(x, u) ==
  [x |-> [x EXCEPT !.entries[u].typed = TRUE], i |-> 1, abort |-> FALSE, offer |-> FALSE]

LEMMA ProcessEnds ==
  ASSUME NEW x, NEW u, NEW det,
         x.entries[u].header, x.entries[u].typed \/ det # "doubt"
  PROVE  \E m, f : /\ m => det = "mismatch"
                   /\ IsLoop(f, FALSE, Start(x, u), u, m, 2 * Cardinality(Keys))
                   /\ Cache_process_queue(x, u, det) = Outcome(f[2 * Cardinality(Keys)], u)
<1> DEFINE m == ~x.entries[u].typed /\ det = "mismatch"
           f == CHOOSE f : f = [n \in 0 .. 2 * Cardinality(Keys) |->
                  IF n = 0 THEN [x |-> [x EXCEPT !.entries[u].typed = TRUE], i |-> 1,
                                 abort |-> FALSE, offer |-> FALSE]
                  ELSE NextTurn(f[n - 1], u, m)]
<1>1. \E e : e = [n \in 0 .. 2 * Cardinality(Keys) |->
                  IF n = 0 THEN [x |-> [x EXCEPT !.entries[u].typed = TRUE], i |-> 1,
                                 abort |-> FALSE, offer |-> FALSE]
                  ELSE NextTurn(e[n - 1], u, m)]
  <2> HIDE DEF m
  <2>1. PICK e : IsLoop(e, FALSE, Start(x, u), u, m, 2 * Cardinality(Keys))
    BY LoopExists, LoopLengths
  <2>2. e = [n \in 0 .. 2 * Cardinality(Keys) |->
                  IF n = 0 THEN [x |-> [x EXCEPT !.entries[u].typed = TRUE], i |-> 1,
                                 abort |-> FALSE, offer |-> FALSE]
                  ELSE NextTurn(e[n - 1], u, m)]
    BY <2>1 DEF IsLoop, Start, Step
  <2> QED
    BY <2>2, Zenon
<1>2. f = [n \in 0 .. 2 * Cardinality(Keys) |->
                  IF n = 0 THEN [x |-> [x EXCEPT !.entries[u].typed = TRUE], i |-> 1,
                                 abort |-> FALSE, offer |-> FALSE]
                  ELSE NextTurn(f[n - 1], u, m)]
  BY <1>1, Zenon
<1>3. Cache_process_queue(x, u, det) = Outcome(f[2 * Cardinality(Keys)], u)
  BY DEF Cache_process_queue, Outcome
<1>5. m => det = "mismatch"
  OBVIOUS
<1> HIDE DEF f, m
<1>4. IsLoop(f, FALSE, Start(x, u), u, m, 2 * Cardinality(Keys))
  BY <1>2 DEF IsLoop, Start, Step
<1> QED
  BY <1>3, <1>4, <1>5

LEMMA DelayedEnds ==
  ASSUME NEW x
  PROVE  LET most == Cardinality(Urls) + RedirectLimit * Cardinality(Keys)
         IN  \E f : /\ IsLoop(f, TRUE, x, x, x, most)
                    /\ Delayed(x) = [f[most] EXCEPT !.idle = FALSE]
<1> DEFINE most == Cardinality(Urls) + RedirectLimit * Cardinality(Keys)
           f == CHOOSE f : f = [n \in 0 .. most |->
                  IF n = 0 THEN x ELSE DelayedNext(f[n - 1])]
<1>1. \E e : e = [n \in 0 .. most |-> IF n = 0 THEN x ELSE DelayedNext(e[n - 1])]
  <2>1. PICK e : IsLoop(e, TRUE, x, x, x, most)
    BY LoopExists, LoopLengths
  <2>2. e = [n \in 0 .. most |-> IF n = 0 THEN x ELSE DelayedNext(e[n - 1])]
    BY <2>1 DEF IsLoop, Step
  <2> QED
    BY <2>2, Zenon
<1>2. f = [n \in 0 .. most |-> IF n = 0 THEN x ELSE DelayedNext(f[n - 1])]
  BY <1>1, Zenon
<1>3. Delayed(x) = [f[most] EXCEPT !.idle = FALSE]
  BY DEF Delayed
<1> HIDE DEF f
<1>4. IsLoop(f, TRUE, x, x, x, most)
  BY <1>2 DEF IsLoop, Step
<1> QED
  BY <1>3, <1>4

LEMMA SinceSame ==
  ASSUME NEW W, NEW J, NEW x, Sound(x, W, J)
  PROVE  Since(x, x, {})
<1>1. Embeds(x, x)
  BY SamePlaces
<1>2. Shrinks(x, x, W)
  BY <1>1 DEF Shrinks, Sound
<1> QED
  BY <1>2, ShrunkSound

\* The loop of Cache_process_queue keeps things in order.
LEMMA LoopServed ==
  ASSUME NEW u \in Urls, NEW x, Sound(x, {}, {}), x.entries[u].typed, NEW m,
         NEW b, b \in LoopState, b.x = x, b.i = 1,
         NEW n \in Nat, NEW f, IsLoop(f, FALSE, b, u, m, n)
  PROVE  Served(x, f[n], u)
<1>1. \A k \in 0 .. n : f[k] = IF k = 0 THEN b ELSE NextTurn(f[k - 1], u, m)
  BY DEF IsLoop, Step
<1>2. Served(x, b, u)
  <2>1. Since(x, x, {}) /\ Held(x, x, u)
    BY SinceSame, HeldSame
  <2> QED
    BY <2>1 DEF Served
<1> DEFINE B == {k \in 0 .. n : ~Served(x, f[k], u)}
<1>3. SUFFICES ASSUME B # {} PROVE FALSE
  OBVIOUS
<1>4. PICK k \in B : \A j \in B : k <= j
  <2>1. B \in SUBSET Nat
    OBVIOUS
  <2> QED
    BY <1>3, <2>1, LeastOf
<1>5. k # 0
  BY <1>1, <1>2, <1>4
<1>6. k - 1 \in 0 .. n /\ k \in 0 .. n /\ ~(k <= k - 1)
  BY <1>4, <1>5
<1>7. Served(x, f[k - 1], u)
  BY <1>4, <1>6
<1>8. f[k] = NextTurn(f[k - 1], u, m)
  BY <1>1, <1>5, <1>6
<1>9. Served(x, f[k], u)
  BY <1>7, <1>8, TurnSound
<1> QED
  BY <1>4, <1>9

\* Who refers to an entry's data depends on these only.
SameRefs(e, f) == /\ f.refs = e.refs /\ f.header = e.header /\ f.GotData = e.GotData
                  /\ f.spared = e.spared /\ f.id = e.id

\* What Cache_process_queue makes of x, r: the entry is there and its references are
\* what they were, unless it was to be aborted.
Processed(x, r, u) ==
  /\ Sound(r.x, {}, {}) /\ Since(x, r.x, {}) /\ r.null \in BOOLEAN
  /\ u \in r.x.conns => u \in x.conns
  /\ ~r.null => SameRefs(x.entries[u], r.x.entries[u])
  /\ r.null => Counted(r.x.entries[u], 0)
  /\ \A v \in Urls \ {u} : Counted(x.entries[v], 0) => Counted(r.x.entries[v], 0)

LEMMA OutcomeSound ==
  ASSUME NEW u \in Urls, NEW x, Cached(x, u), NEW s, Served(x, s, u),
         NEW r, r = Outcome(s, u)
  PROVE  Processed(x, r, u)
<1>1. /\ s \in LoopState /\ s.abort \in BOOLEAN
      /\ Sound(s.x, {}, {}) /\ Since(x, s.x, {}) /\ Held(x, s.x, u)
  BY DEF Served, LoopState
<1>2. SameRefs(x.entries[u], s.x.entries[u]) /\ Cached(s.x, u)
  BY <1>1 DEF Held, SameBut, SameRefs, Cached
<1>3. CASE ~s.abort
  <2>1. r = [x |-> s.x, null |-> FALSE]
    BY <1>3 DEF Outcome
  <2>2. r.x = s.x /\ r.null = FALSE
    BY <2>1
  <2> QED
    BY <1>1, <1>2, <2>2 DEF Processed, Held
<1>4. CASE s.abort
  <2>1. PICK a : a = a_Capi_conn_abort_by_url(s.x, u)
    OBVIOUS
  <2>2. PICK l : l = IF s.offer THEN Cache_entry_remove(a, u) ELSE a
    OBVIOUS
  <2>3. PICK y : y = IF Cached(l, u) THEN [l EXCEPT !.entries[u].spared = TRUE] ELSE l
    OBVIOUS
  <2>4. r = [x |-> y, null |-> TRUE]
    BY <1>4, <2>1, <2>2, <2>3 DEF Outcome
  <2>5. r.x = y /\ r.null = TRUE
    BY <2>4
  <2>6. Sound(a, {}, {}) /\ Since(s.x, a, {}) /\ Touches(s.x, a, u) /\ a.conns = s.x.conns \ {u}
    BY <1>1, <2>1, AbortSound
  <2>7. Sound(l, {}, {}) /\ Since(a, l, {}) /\ Touches(a, l, u) /\ l.conns = a.conns
    <3>1. CASE s.offer
      <4>1. u \notin a.conns \ {}
        BY <2>6
      <4>2. l = Cache_entry_remove(a, u)
        BY <2>2, <3>1
      <4> QED
        BY <2>6, <4>1, <4>2, RemoveSound
    <3>2. CASE ~s.offer
      <4>1. l = a /\ Since(a, a, {}) /\ Touches(a, a, u)
        BY <2>2, <2>6, <3>2, SinceSame DEF Touches
      <4> QED
        BY <2>6, <4>1
    <3> QED
      BY <3>1, <3>2
  <2>8. Touches(s.x, l, u) /\ u \notin l.conns
    BY <2>6, <2>7, TouchesChain
  <2>9. \A v \in Urls \ {u} : Counted(x.entries[v], 0) => Counted(l.entries[v], 0)
    BY <1>1, <2>8 DEF Held, Touches
  <2>10. Since(x, l, {})
    BY <1>1, <2>6, <2>7, SinceChain
  <2>11. CASE ~Cached(l, u)
    <3>1. y = l
      BY <2>3, <2>11
    <3>2. Counted(l.entries[u], 0)
      BY <1>2, <2>8, <2>11 DEF Touches, Cached
    <3> QED
      BY <2>5, <2>7, <2>8, <2>9, <2>10, <3>1, <3>2 DEF Processed
  <2>12. CASE Cached(l, u)
    <3>1. PICK e : e = [l.entries[u] EXCEPT !.spared = TRUE]
      OBVIOUS
    <3>2. Rewrites(l, y, u, e)
      BY <2>3, <2>12, <3>1 DEF Rewrites
    <3>3. l.entries[u] \in Entry /\ l \in StateType /\ PageOK(l.entries[u], u)
      BY <2>7, MemberTypes DEF Sound
    <3>4. e \in Entry /\ e.spared
      BY <3>1, <3>3 DEF Entry
    <3>5. /\ e.id = l.entries[u].id /\ e.kind = l.entries[u].kind
          /\ e.to = l.entries[u].to /\ e.typed = l.entries[u].typed
          /\ e.data = l.entries[u].data /\ e.GotData = l.entries[u].GotData
      BY <3>1, <3>3 DEF Entry
    <3>6. PageOK(e, u) /\ SamePage(l.entries[u], e)
      BY <3>3, <3>5 DEF PageOK, SamePage
    <3>7. u \in l.conns \ {} => ~e.GotData
      BY <2>8
    <3>8. /\ Sound(y, {}, {}) /\ Since(l, y, {}) /\ y.conns = l.conns /\ y.entries[u] = e
          /\ \A v \in Urls \ {u} : y.entries[v] = l.entries[v]
      BY <2>7, <3>2, <3>4, <3>5, <3>6, <3>7, EntrySound
    <3>9. Counted(e, 0)
      BY <3>4 DEF Counted
    <3>10. Since(x, y, {})
      BY <2>10, <3>8, SinceChain
    <3> QED
      BY <2>5, <2>8, <2>9, <3>8, <3>9, <3>10 DEF Processed
  <2> QED
    BY <2>11, <2>12
<1> QED
  BY <1>1, <1>3, <1>4

\* Cache_process_queue, for an entry that is there, when its type can be told.
LEMMA ProcessSound ==
  ASSUME NEW x, Sound(x, {}, {}), NEW u \in Urls, Cached(x, u), NEW det,
         det # "doubt" => x.entries[u].data > 0 \/ x.entries[u].GotData,
         NEW r, r = Cache_process_queue(x, u, det)
  PROVE  Processed(x, r, u)
<1>1. x \in StateType /\ PageOK(x.entries[u], u) /\ x.entries[u] \in Entry
  BY MemberTypes DEF Sound
<1>2. CASE ~x.entries[u].header \/ (~x.entries[u].typed /\ det = "doubt")
  <2>1. r = [x |-> x, null |-> FALSE]
    BY <1>2 DEF Cache_process_queue
  <2>2. r.x = x /\ r.null = FALSE /\ Since(x, x, {})
    BY <2>1, SinceSame
  <2> QED
    BY <2>2 DEF Processed, SameRefs
<1>3. CASE x.entries[u].header /\ (x.entries[u].typed \/ det # "doubt")
  <2>1. PICK m, f : /\ m => det = "mismatch"
                    /\ IsLoop(f, FALSE, Start(x, u), u, m, 2 * Cardinality(Keys))
                    /\ r = Outcome(f[2 * Cardinality(Keys)], u)
    BY <1>3, ProcessEnds
  <2>2. PICK e : e = [x.entries[u] EXCEPT !.typed = TRUE]
    OBVIOUS
  <2>3. PICK y : y = [x EXCEPT !.entries[u] = e]
    OBVIOUS
  <2>4. PICK b : b = Start(x, u)
    OBVIOUS
  <2>5. b = [x |-> y, i |-> 1, abort |-> FALSE, offer |-> FALSE]
    BY <2>2, <2>3, <2>4 DEF Start
  <2>6. e \in Entry /\ e.typed
    BY <1>1, <2>2 DEF Entry
  <2>7. /\ e.id = x.entries[u].id /\ e.kind = x.entries[u].kind
        /\ e.to = x.entries[u].to /\ e.data = x.entries[u].data
        /\ e.GotData = x.entries[u].GotData /\ e.refs = x.entries[u].refs
        /\ e.header = x.entries[u].header /\ e.spared = x.entries[u].spared
    BY <1>1, <2>2 DEF Entry
  <2>8. SamePage(x.entries[u], e) /\ SameRefs(x.entries[u], e)
    BY <2>7 DEF SamePage, SameRefs
  <2>9. PageOK(e, u)
    BY <1>1, <1>3, <2>6, <2>7 DEF PageOK
  <2>10. u \in x.conns \ {} => ~e.GotData
    BY <2>7 DEF Sound, ConnsOK
  <2>11. Rewrites(x, y, u, e)
    BY <2>3 DEF Rewrites
  <2>12. /\ Sound(y, {}, {}) /\ Since(x, y, {}) /\ y.conns = x.conns /\ y.entries[u] = e
         /\ \A v \in Urls \ {u} : y.entries[v] = x.entries[v]
    BY <2>6, <2>7, <2>8, <2>9, <2>10, <2>11, EntrySound
  <2>13. y \in StateType /\ Cached(y, u)
    BY <2>7, <2>12 DEF Sound, Cached
  <2>14. b \in LoopState /\ b.x = y /\ b.i = 1
    BY <2>5, <2>13 DEF LoopState
  <2>15. Served(y, f[2 * Cardinality(Keys)], u)
    BY <2>1, <2>4, <2>6, <2>12, <2>14, LoopLengths, LoopServed
  <2>16. Processed(y, r, u)
    BY <2>1, <2>13, <2>15, OutcomeSound
  <2>17. Since(x, r.x, {})
    BY <2>12, <2>16, SinceChain DEF Processed
  <2>18. ~r.null => SameRefs(x.entries[u], r.x.entries[u])
    BY <2>8, <2>12, <2>16 DEF Processed, SameRefs
  <2> QED
    BY <2>12, <2>16, <2>17, <2>18 DEF Processed
<1> QED
  BY <1>2, <1>3

\* The references of all entries are what they are between the callbacks.
Balanced(x) == \A v \in Urls : Counted(x.entries[v], 0)

Recounted(e, f, n) ==
  /\ f.refs = e.refs + n /\ e.refs \in Int /\ f.header = e.header
  /\ f.GotData = e.GotData /\ f.spared = e.spared /\ f.id = e.id

LEMMA RefSound ==
  ASSUME NEW x, Sound(x, {}, {}), NEW u \in Urls, NEW n \in Int, NEW y, y = Ref(x, u, n)
  PROVE  /\ Sound(y, {}, {}) /\ Since(x, y, {}) /\ SameTalk(x, y)
         /\ y.conns = x.conns /\ y.ClientQueue = x.ClientQueue
         /\ y.DelayedQueue = x.DelayedQueue
         /\ Recounted(x.entries[u], y.entries[u], n)
         /\ \A v \in Urls \ {u} : y.entries[v] = x.entries[v]
<1>1. x.entries[u] \in Entry /\ PageOK(x.entries[u], u)
  BY MemberTypes DEF Sound
<1>2. PICK e : e = [x.entries[u] EXCEPT !.refs = @ + n]
  OBVIOUS
<1>3. Rewrites(x, y, u, e)
  BY <1>2 DEF Rewrites, Ref
<1>4. x.entries[u].refs \in Int
  BY <1>1 DEF Entry
<1>5. e \in Entry /\ e.refs = x.entries[u].refs + n
  BY <1>1, <1>2, <1>4 DEF Entry
<1>6. /\ e.id = x.entries[u].id /\ e.kind = x.entries[u].kind
      /\ e.to = x.entries[u].to /\ e.data = x.entries[u].data
      /\ e.GotData = x.entries[u].GotData /\ e.typed = x.entries[u].typed
      /\ e.header = x.entries[u].header /\ e.spared = x.entries[u].spared
  BY <1>1, <1>2 DEF Entry
<1>7. PageOK(e, u) /\ SamePage(x.entries[u], e)
  BY <1>1, <1>6 DEF PageOK, SamePage
<1>8. u \in x.conns \ {} => ~e.GotData
  BY <1>6 DEF Sound, ConnsOK
<1>9. /\ Sound(y, {}, {}) /\ Since(x, y, {}) /\ SameTalk(x, y)
      /\ y.conns = x.conns /\ y.ClientQueue = x.ClientQueue
      /\ y.DelayedQueue = x.DelayedQueue /\ y.entries[u] = e
      /\ \A v \in Urls \ {u} : y.entries[v] = x.entries[v]
  BY <1>3, <1>5, <1>6, <1>7, <1>8, EntrySound
<1>10. Recounted(x.entries[u], e, n)
  BY <1>4, <1>5, <1>6 DEF Recounted
<1> QED
  BY <1>9, <1>10

LEMMA DelayedNextSound ==
  ASSUME NEW x, Sound(x, {}, {}), Balanced(x), NEW y, y = DelayedNext(x)
  PROVE  Sound(y, {}, {}) /\ Balanced(y) /\ Since(x, y, {})
<1>1. CASE x.DelayedQueue = <<>>
  <2>1. y = x
    BY <1>1 DEF DelayedNext
  <2> QED
    BY <2>1, SinceSame
<1>2. CASE x.DelayedQueue # <<>>
  <2>1. x \in StateType /\ QueuesOK(x)
    BY DEF Sound
  <2>2. PICK u : u = Head(x.DelayedQueue)[1]
    OBVIOUS
  <2>3. 1 \in 1 .. Len(x.DelayedQueue) /\ Head(x.DelayedQueue) = x.DelayedQueue[1]
    <3>1. x.DelayedQueue \in Seq(Urls \X Nat)
      BY <2>1, MemberTypes
    <3> QED
      BY <1>2, <3>1
  <2>4. u \in Urls /\ Cached(x, u)
    BY <2>1, <2>2, <2>3, MemberTypes DEF QueuesOK, Cached
  <2>5. PICK a : a = Ref(x, u, 1)
    OBVIOUS
  <2>6. PICK r : r = Cache_process_queue(a, u, "doubt")
    OBVIOUS
  <2>7. y = IF r.null THEN r.x ELSE Undelay(Ref(r.x, u, -1), u)
    BY <1>2, <2>2, <2>5, <2>6 DEF DelayedNext
  <2>8. /\ Sound(a, {}, {}) /\ Since(x, a, {}) /\ Recounted(x.entries[u], a.entries[u], 1)
        /\ \A v \in Urls \ {u} : a.entries[v] = x.entries[v]
    BY <2>4, <2>5, RefSound
  <2>9. Processed(a, r, u)
    <3>1. Cached(a, u)
      BY <2>4, <2>8 DEF Cached, Recounted
    <3> QED
      BY <2>4, <2>6, <2>8, <3>1, ProcessSound
  <2>10. Sound(r.x, {}, {}) /\ Since(x, r.x, {})
    BY <2>8, <2>9, SinceChain DEF Processed
  <2>11. \A v \in Urls \ {u} : Counted(r.x.entries[v], 0)
    BY <2>8, <2>9 DEF Processed, Balanced
  <2>12. CASE r.null
    <3>1. y = r.x /\ Counted(r.x.entries[u], 0)
      BY <2>7, <2>9, <2>12 DEF Processed
    <3> QED
      BY <2>10, <2>11, <3>1 DEF Balanced
  <2>13. CASE ~r.null
    <3>1. PICK d : d = Ref(r.x, u, -1)
      OBVIOUS
    <3>2. y = Undelay(d, u)
      BY <2>7, <2>13, <3>1
    <3>3. /\ Sound(d, {}, {}) /\ Since(r.x, d, {})
          /\ Recounted(r.x.entries[u], d.entries[u], -1)
          /\ \A v \in Urls \ {u} : d.entries[v] = r.x.entries[v]
      BY <2>4, <2>10, <3>1, RefSound
    <3>4. Sound(y, {}, {}) /\ Since(d, y, {}) /\ y.entries = d.entries
      BY <3>2, <3>3, UndelaySound DEF SameRest
    <3>5. Since(x, y, {})
      BY <2>10, <3>3, <3>4, SinceChain
    <3>6. SameRefs(a.entries[u], r.x.entries[u])
      BY <2>9, <2>13 DEF Processed
    <3>7. /\ d.entries[u].refs = x.entries[u].refs
          /\ d.entries[u].header = x.entries[u].header
          /\ d.entries[u].GotData = x.entries[u].GotData
          /\ d.entries[u].spared = x.entries[u].spared
      BY <2>8, <3>3, <3>6 DEF SameRefs, Recounted
    <3>8. Counted(d.entries[u], 0)
      BY <2>4, <3>7 DEF Balanced, Counted
    <3> QED
      BY <2>11, <3>3, <3>4, <3>5, <3>8 DEF Balanced
  <2> QED
    BY <2>12, <2>13
<1> QED
  BY <1>1, <1>2

\* Cache_delayed_process_queue_callback keeps things in order.
LEMMA DelayedSound ==
  ASSUME NEW x, Sound(x, {}, {}), Balanced(x), NEW y, y = Delayed(x)
  PROVE  Sound(y, {}, {}) /\ Balanced(y) /\ Since(x, y, {})
<1>1. PICK n : n = Cardinality(Urls) + RedirectLimit * Cardinality(Keys)
  OBVIOUS
<1>2. n \in Nat
  BY <1>1, LoopLengths
<1>3. PICK f : IsLoop(f, TRUE, x, x, x, n) /\ y = [f[n] EXCEPT !.idle = FALSE]
  BY <1>1, DelayedEnds
<1>4. \A k \in 0 .. n : f[k] = IF k = 0 THEN x ELSE DelayedNext(f[k - 1])
  BY <1>3 DEF IsLoop, Step
<1> DEFINE P(z) == Sound(z, {}, {}) /\ Balanced(z) /\ Since(x, z, {})
           B == {k \in 0 .. n : ~P(f[k])}
<1>5. P(x)
  BY SinceSame
<1>6. P(f[n])
  <2>1. SUFFICES ASSUME B # {} PROVE FALSE
    BY <1>2
  <2>2. PICK k \in B : \A j \in B : k <= j
    <3>1. B \in SUBSET Nat
      BY <1>2
    <3> QED
      BY <2>1, <3>1, LeastOf
  <2>3. k # 0
    BY <1>2, <1>4, <1>5, <2>2
  <2>4. k - 1 \in 0 .. n /\ k \in 0 .. n /\ ~(k <= k - 1)
    BY <1>2, <2>2, <2>3
  <2>5. P(f[k - 1])
    BY <2>2, <2>4
  <2>6. f[k] = DelayedNext(f[k - 1])
    BY <1>4, <2>3, <2>4
  <2>7. Sound(f[k], {}, {}) /\ Balanced(f[k]) /\ Since(f[k - 1], f[k], {})
    BY <2>5, <2>6, DelayedNextSound
  <2>8. P(f[k])
    BY <2>5, <2>7, SinceChain
  <2> QED
    BY <2>2, <2>8
<1>7. PICK z : z = f[n]
  OBVIOUS
<1>8. z \in StateType /\ QueuesOK(z) /\ Sound(z, {}, {}) /\ Balanced(z) /\ Since(x, z, {})
  BY <1>6, <1>7 DEF Sound
<1>9. /\ y \in StateType /\ y.ClientQueue = z.ClientQueue /\ y.entries = z.entries
      /\ y.DelayedQueue = z.DelayedQueue /\ y.conns = z.conns /\ SameTalk(z, y)
  BY <1>3, <1>7, <1>8 DEF StateType, SameTalk
<1>10. \A i \in 1 .. Len(y.DelayedQueue) :
         /\ y.DelayedQueue[i][2] = y.entries[y.DelayedQueue[i][1]].id
         /\ y.DelayedQueue[i][2] # 0
  BY <1>8, <1>9 DEF QueuesOK
<1>11. Sound(y, {}, {}) /\ Since(z, y, {})
  BY <1>8, <1>9, <1>10, DelayedQueueSound
<1>12. Since(x, y, {})
  BY <1>8, <1>11, SinceChain
<1> QED
  BY <1>8, <1>9, <1>11, <1>12 DEF Balanced

----------------------------------------------------------------------------
(* The actions                                                             *)

LEMMA KeysAre ==
  ASSUME NEW x, x \in StateType
  PROVE  /\ \A k : k \in KeysIn(x) <=> Has(x, k)
         /\ KeysIn(x) \subseteq Keys
<1>1. x.ClientQueue \in Seq(Client) /\ \A n \in Places(x) : x.ClientQueue[n].key \in Keys
  BY MemberTypes
<1>2. DOMAIN x.ClientQueue = Places(x)
  BY <1>1 DEF Places
<1> QED
  BY <1>1, <1>2 DEF KeysIn, Has

\* x is c but for the entries and connections.
SameClients(x) ==
  x.ClientQueue = c.ClientQueue /\ x.closed = c.closed /\ x.level = c.level

\* The invariant after an action that leads to y.
LEMMA StepInv ==
  ASSUME IInv, NEW x, SameClients(x), NEW y, NEW K, Since(x, y, K),
         \A k \in K : New(k) /\ y.level[k] = c.level[k],
         Sound(y, {}, {}), Balanced(y), Left(y), stopped' \subseteq Urls
  PROVE  IInv'
<1>1. c \in StateType /\ y \in StateType /\ QueuesOK(y)
  BY DEF IInv, Sound
<1>2. /\ \A k : k \in KeysIn(c) <=> Has(c, k)
      /\ \A k : k \in KeysIn(y) <=> Has(y, k)
      /\ KeysIn(c) \subseteq Keys
  BY <1>1, KeysAre
<1>3. \A k : Has(x, k) <=> Has(c, k)
  BY DEF SameClients, Has, Places
<1>4. /\ c' = y
      /\ gone' = gone \cup ((KeysIn(c) \ KeysIn(y)) \ y.closed)
  BY DEF Left
<1>5. \A k \in Keys \ K : Fate(x, y, k)
  BY DEF Since
<1>6. gone' \subseteq Keys
  BY <1>2, <1>4 DEF IInv
<1>7. \A k \in y.closed : ~Has(y, k)
  BY <1>1 DEF QueuesOK, Has
<1>8. ASSUME NEW k \in gone' PROVE ~Has(y, k)
  <2>1. CASE k \in gone
    <3>1. ~Has(c, k) /\ k \in Keys
      BY <2>1 DEF IInv
    <3>2. k \notin K
      BY <2>1 DEF New
    <3> QED
      BY <1>3, <1>5, <1>7, <3>1, <3>2 DEF Fate
  <2>2. CASE k \notin gone
    BY <1>2, <1>4, <1>8, <2>2
  <2> QED
    BY <2>1, <2>2
<1>9. ASSUME NEW k \in Keys, k \notin y.closed \cup gone', ~Has(y, k)
      PROVE  y.level[k] = 0
  <2>1. ~Has(c, k) /\ k \notin gone
    BY <1>2, <1>4, <1>9
  <2>2. CASE k \in K
    <3>1. k \notin c.closed /\ y.level[k] = c.level[k]
      BY <2>2 DEF New
    <3> QED
      BY <2>1, <3>1 DEF IInv, Unborn
  <2>3. CASE k \notin K
    <3>1. k \notin x.closed /\ y.level[k] = x.level[k]
      BY <1>3, <1>5, <1>9, <2>1, <2>3 DEF Fate
    <3> QED
      BY <2>1, <3>1 DEF IInv, Unborn, SameClients
  <2> QED
    BY <2>2, <2>3
<1>10. Unborn'
  BY <1>4, <1>9 DEF Unborn
<1>11. \A k \in gone' : ~Has(c', k)
  BY <1>4, <1>8
<1> QED
  BY <1>4, <1>6, <1>10, <1>11 DEF IInv, Balanced

\* What ClosedHaveAll says of a step.
ToldAll == \A cl \in Range(c.ClientQueue) :
             cl.key \in c'.closed \ c.closed /\ c.entries[cl.url].kind \notin CA_Redirect =>
               /\ cl.url \notin c.conns \cap c'.conns
               /\ c'.got[cl.key] = c.entries[cl.url].data

\* It holds of an action that leads to y, if whatever is at its end then is what it was.
LEMMA ToldWell ==
  ASSUME IInv, NEW x, SameClients(x), NEW y, NEW K, Since(x, y, K), \A k \in K : New(k),
         \A v \in Urls : /\ x.entries[v].kind = c.entries[v].kind
                         /\ x.entries[v].GotData => /\ x.entries[v].data = c.entries[v].data
                                                    /\ v \notin c.conns \cap y.conns,
         Sound(y, {}, {}), Left(y)
  PROVE  ToldAll
<1>1. c \in StateType /\ QueuesOK(y)
  BY DEF IInv, Sound
<1>2. c.ClientQueue \in Seq(Client)
  BY <1>1, MemberTypes
<1>3. SUFFICES ASSUME NEW n \in Places(c), NEW cl, cl = c.ClientQueue[n],
                      cl.key \in y.closed, c.entries[cl.url].kind \notin CA_Redirect
               PROVE  /\ cl.url \notin c.conns \cap y.conns
                      /\ y.got[cl.key] = c.entries[cl.url].data
  <2>1. c' = y
    BY DEF Left
  <2>2. \A cl \in Range(c.ClientQueue) : \E n \in Places(c) : cl = c.ClientQueue[n]
    BY <1>2 DEF Range, Places
  <2> QED
    BY <2>1, <2>2 DEF ToldAll
<1>4. cl.key \in Keys /\ cl.url \in Urls /\ Has(c, cl.key)
  BY <1>1, <1>3, MemberTypes DEF Has
<1>5. cl.key \notin K
  BY <1>1, <1>4, KeysAre DEF New
<1>6. n \in Places(x) /\ x.ClientQueue[n] = cl
  BY <1>3 DEF SameClients, Places
<1>7. ~Has(y, cl.key)
  BY <1>1, <1>3 DEF QueuesOK, Has
<1>8. Fate(x, y, cl.key)
  BY <1>4, <1>5 DEF Since
<1>9. x.entries[cl.url].GotData /\ y.got[cl.key] = x.entries[cl.url].data
  <2>1. x.entries[cl.url].kind \notin CA_Redirect
    BY <1>3, <1>4
  <2>2. \A m \in Places(y) : y.ClientQueue[m].key # cl.key
    BY <1>7 DEF Has
  <2> QED
    BY <1>3, <1>6, <1>8, <2>1, <2>2 DEF Fate
<1> QED
  BY <1>4, <1>9

\* The parts of the invariant.
LEMMA Parts ==
  ASSUME IInv
  PROVE  /\ Sound(c, {}, {}) /\ Balanced(c) /\ c \in StateType /\ QueuesOK(c)
         /\ ConnsOK(c, {}) /\ stopped \subseteq Urls /\ SameClients(c)
         /\ c.conns \subseteq Urls
<1>1. Sound(c, {}, {}) /\ c \in StateType
  BY DEF IInv, Sound
<1>2. c.conns \subseteq Urls
  BY <1>1, MemberTypes
<1> QED
  BY <1>1, <1>2 DEF IInv, Sound, Balanced, SameClients

\* An action that starts from c itself.
LEMMA PlainStep ==
  ASSUME IInv, NEW y, NEW K, Since(c, y, K),
         \A k \in K : New(k) /\ y.level[k] = c.level[k],
         Sound(y, {}, {}), Balanced(y), Left(y), stopped' \subseteq Urls
  PROVE  IInv' /\ ToldAll
<1>1. SameClients(c) /\ ConnsOK(c, {})
  BY Parts
<1>2. \A v \in Urls : c.entries[v].GotData => v \notin c.conns
  BY <1>1 DEF ConnsOK
<1>3. IInv'
  BY <1>1, StepInv
<1>4. ToldAll
  BY <1>1, <1>2, ToldWell
<1> QED
  BY <1>3, <1>4

\* What touches one entry leaves the references right.
LEMMA TouchBalanced ==
  ASSUME NEW x, NEW y, NEW v \in Urls, Balanced(x), Touches(x, y, v)
  PROVE  Balanced(y)
BY DEF Balanced, Touches

LEMMA OpenStep ==
  ASSUME IInv, Open
  PROVE  IInv' /\ ToldAll
<1>1. PICK k \in Keys, u \in Urls, root, reload \in BOOLEAN :
        New(k) /\ Notes(a_Cache_open_url(c, k, u, root, reload))
  BY DEF Open
<1>2. PICK y : y = a_Cache_open_url(c, k, u, root, reload)
  OBVIOUS
<1>3. Left(y) /\ stopped' = stopped
  BY <1>1, <1>2 DEF Notes
<1>4. Sound(c, {}, {}) /\ Balanced(c) /\ c \in StateType /\ stopped \subseteq Urls
  BY Parts
<1>5. ~Has(c, k) /\ k \notin c.closed /\ k \notin gone
  BY <1>1, <1>4, KeysAre DEF New
<1>6. c.level[k] < RedirectLimit
  <2>1. c.level[k] = 0
    BY <1>5 DEF IInv, Unborn
  <2> QED
    BY <2>1, CacheAssumption
<1>7. Sound(y, {}, {}) /\ Since(c, y, {k}) /\ Touches(c, y, u) /\ SameTalk(c, y)
  BY <1>1, <1>2, <1>4, <1>5, <1>6, OpenSound
<1>8. Balanced(y)
  BY <1>4, <1>7, TouchBalanced
<1>9. \A j \in {k} : New(j) /\ y.level[j] = c.level[j]
  BY <1>1, <1>7 DEF SameTalk
<1> QED
  BY <1>3, <1>4, <1>7, <1>8, <1>9, PlainStep

\* An entry whose data or header come is the same entry.
Renewed(e, f) == /\ f.id = e.id /\ f.typed = e.typed /\ f.refs = e.refs
                 /\ f.spared = e.spared

\* A header comes: c before the reference that it takes.
HeaderOf(u, kind, t, e, h) ==
  /\ e = [c.entries[u] EXCEPT !.header = TRUE, !.kind = kind, !.to = t]
  /\ h = [c EXCEPT !.entries[u].header = TRUE, !.entries[u].kind = kind,
                   !.entries[u].to = t]

LEMMA HeaderBegins ==
  ASSUME IInv, NEW u \in c.conns, ~c.entries[u].header, NEW kind \in Kinds,
         NEW t \in Urls \cup {None}, kind \in CA_Redirect => t \in Urls \ {u},
         NEW e, NEW h, HeaderOf(u, kind, t, e, h)
  PROVE  /\ Rewrites(c, h, u, e)
         /\ Renewed(c.entries[u], e) /\ e.header /\ e.GotData = c.entries[u].GotData
         /\ Sound(h, {}, {}) /\ SameTalk(c, h) /\ h.conns = c.conns
         /\ h.ClientQueue = c.ClientQueue /\ h.entries[u] = e
         /\ \A v \in Urls \ {u} : h.entries[v] = c.entries[v]
<1>1. /\ Sound(c, {}, {}) /\ c \in StateType /\ ConnsOK(c, {}) /\ u \in Urls
  BY Parts
<1>2. c.entries[u] \in Entry /\ PageOK(c.entries[u], u) /\ c.entries \in [Urls -> Entry]
  BY <1>1, MemberTypes DEF Sound
<1>3. h = [c EXCEPT !.entries[u] = e]
  BY <1>1, <1>2 DEF HeaderOf
<1>4. e \in Entry /\ e.header /\ e.kind = kind /\ e.to = t
  BY <1>2 DEF HeaderOf, Entry
<1>5. /\ e.id = c.entries[u].id /\ e.typed = c.entries[u].typed
      /\ e.data = c.entries[u].data /\ e.GotData = c.entries[u].GotData
      /\ e.refs = c.entries[u].refs /\ e.spared = c.entries[u].spared
  BY <1>2 DEF HeaderOf, Entry
<1>6. PageOK(e, u)
  BY <1>2, <1>4, <1>5 DEF PageOK
<1>7. Rewrites(c, h, u, e)
  BY <1>3 DEF Rewrites
<1>8. ~c.entries[u].GotData
  BY <1>1 DEF ConnsOK
<1>9. /\ Sound(h, {}, {}) /\ SameTalk(c, h) /\ h.conns = c.conns
      /\ h.ClientQueue = c.ClientQueue /\ h.entries[u] = e
      /\ \A v \in Urls \ {u} : h.entries[v] = c.entries[v]
  BY ONLY <1>1, <1>4, <1>5, <1>6, <1>7, <1>8, EntrySound
<1> QED
  BY <1>4, <1>5, <1>7, <1>9 DEF Renewed

LEMMA HeaderStep ==
  ASSUME IInv, Header
  PROVE  IInv' /\ ToldAll
<1>0. PICK u \in c.conns :
        /\ Cached(c, u) /\ ~c.entries[u].header
        /\ \E kind \in Kinds \ {"loop"}, to \in Urls \ {u} :
             /\ kind \in CA_Redirect => kind \in May
             /\ Notes(Ref([c EXCEPT !.entries[u].header = TRUE,
                                    !.entries[u].kind = kind,
                                    !.entries[u].to = IF kind \in CA_Redirect
                                                      THEN to ELSE None], u, 1))
  BY Zenon DEF Header
<1>1. PICK kind \in Kinds \ {"loop"}, to \in Urls \ {u} :
        /\ kind \in CA_Redirect => kind \in May
        /\ Notes(Ref([c EXCEPT !.entries[u].header = TRUE,
                               !.entries[u].kind = kind,
                               !.entries[u].to = IF kind \in CA_Redirect
                                                 THEN to ELSE None], u, 1))
  BY <1>0, Zenon
<1>2. /\ Sound(c, {}, {}) /\ Balanced(c) /\ c \in StateType /\ ConnsOK(c, {})
      /\ stopped \subseteq Urls /\ u \in Urls
  BY <1>0, Parts
<1>3. PICK t \in Urls \cup {None} : t = IF kind \in CA_Redirect THEN to ELSE None
  BY <1>1
<1>4. PICK h : h = [c EXCEPT !.entries[u].header = TRUE, !.entries[u].kind = kind,
                             !.entries[u].to = t]
  OBVIOUS
<1>5. PICK e : e = [c.entries[u] EXCEPT !.header = TRUE, !.kind = kind, !.to = t]
  OBVIOUS
<1>6. PICK y : y = Ref(h, u, 1)
  OBVIOUS
<1>7. Left(y) /\ stopped' = stopped
  BY <1>1, <1>3, <1>4, <1>6 DEF Notes
<1>8. ~c.entries[u].GotData
  BY <1>0, <1>2 DEF ConnsOK
<1>9. /\ Rewrites(c, h, u, e)
       /\ Renewed(c.entries[u], e) /\ e.header /\ e.GotData = c.entries[u].GotData
       /\ Sound(h, {}, {}) /\ SameTalk(c, h) /\ h.conns = c.conns
       /\ h.ClientQueue = c.ClientQueue /\ h.entries[u] = e
       /\ \A v \in Urls \ {u} : h.entries[v] = c.entries[v]
  <2>1. t \in Urls \cup {None} /\ (kind \in CA_Redirect => t \in Urls \ {u})
    BY <1>1, <1>3
  <2>2. HeaderOf(u, kind, t, e, h)
    BY <1>4, <1>5 DEF HeaderOf
  <2>3. u \in c.conns /\ ~c.entries[u].header /\ kind \in Kinds
    BY <1>0, <1>1
  <2> QED
    BY ONLY IInv, <2>1, <2>2, <2>3, HeaderBegins
<1>10. /\ Sound(y, {}, {}) /\ Since(h, y, {}) /\ SameTalk(h, y)
       /\ Recounted(h.entries[u], y.entries[u], 1)
       /\ \A v \in Urls \ {u} : y.entries[v] = h.entries[v]
  BY <1>2, <1>6, <1>9, RefSound, SMTT(30)
<1>11. Counted(y.entries[u], 0)
  <2>1. Counted(c.entries[u], 0)
    BY <1>2 DEF Balanced
  <2>2. /\ y.entries[u].refs = c.entries[u].refs + 1 /\ y.entries[u].header
        /\ ~y.entries[u].GotData /\ y.entries[u].spared = c.entries[u].spared
    BY <1>8, <1>9, <1>10 DEF Recounted, Renewed
  <2> QED
    BY <1>0, <2>1, <2>2 DEF Counted
<1>12. Balanced(y)
  BY <1>2, <1>9, <1>10, <1>11 DEF Balanced
<1>13. SameClients(h)
  BY <1>9 DEF SameClients, SameTalk
<1>14. IInv'
  BY <1>2, <1>7, <1>10, <1>12, <1>13, StepInv
<1>15. c'.closed = c.closed
  BY <1>7, <1>9, <1>10 DEF Left, SameTalk
<1> QED
  BY <1>14, <1>15 DEF ToldAll

LEMMA ConnFailsStep ==
  ASSUME IInv, ConnFails
  PROVE  IInv' /\ ToldAll
<1>1. PICK u \in c.conns : Notes(a_Capi_conn_abort_by_url(c, u))
  BY DEF ConnFails
<1>2. PICK y : y = a_Capi_conn_abort_by_url(c, u)
  OBVIOUS
<1>3. Left(y) /\ stopped' = stopped
  BY <1>1, <1>2 DEF Notes
<1>4. Sound(c, {}, {}) /\ Balanced(c) /\ stopped \subseteq Urls /\ u \in Urls
  BY <1>1, Parts
<1>5. Sound(y, {}, {}) /\ Since(c, y, {}) /\ Touches(c, y, u)
  BY <1>2, <1>4, AbortSound
<1>6. Balanced(y)
  BY <1>4, <1>5, TouchBalanced
<1> QED
  BY <1>3, <1>4, <1>5, <1>6, PlainStep

LEMMA TimeoutStep ==
  ASSUME IInv, Timeout
  PROVE  IInv' /\ ToldAll
<1>1. PICK y : y = Delayed(c)
  OBVIOUS
<1>2. Left(y) /\ stopped' = stopped
  BY <1>1 DEF Timeout, Notes
<1>3. Sound(c, {}, {}) /\ Balanced(c) /\ stopped \subseteq Urls
  BY Parts
<1>4. Sound(y, {}, {}) /\ Balanced(y) /\ Since(c, y, {})
  BY <1>1, <1>3, DelayedSound
<1> QED
  BY <1>2, <1>3, <1>4, PlainStep

\* The references after Cache_process_queue, when they were right before.
LEMMA ProcessedBalanced ==
  ASSUME NEW x, NEW r, NEW u \in Urls, Processed(x, r, u), Balanced(x)
  PROVE  Balanced(r.x)
<1>1. Counted(x.entries[u], 0) /\ \A v \in Urls \ {u} : Counted(x.entries[v], 0)
  BY DEF Balanced
<1>2. Counted(r.x.entries[u], 0)
  BY <1>1 DEF Processed, SameRefs, Counted
<1>3. \A v \in Urls \ {u} : Counted(r.x.entries[v], 0)
  BY <1>1 DEF Processed
<1> QED
  BY <1>2, <1>3 DEF Balanced

\* Data come: c before they are processed.
DataOf(u, e, x) == /\ e = [c.entries[u] EXCEPT !.data = @ + 1]
                   /\ x = [c EXCEPT !.entries[u].data = @ + 1]

LEMMA DataBegins ==
  ASSUME IInv, NEW u \in c.conns, c.entries[u].data < MaxData,
         NEW e, NEW x, DataOf(u, e, x)
  PROVE  /\ Rewrites(c, x, u, e)
         /\ Renewed(c.entries[u], e) /\ e.kind = c.entries[u].kind
         /\ e.header = c.entries[u].header /\ e.GotData = c.entries[u].GotData
         /\ e.data > 0 /\ e.id # 0 /\ ~e.GotData
         /\ Sound(x, {}, {}) /\ SameTalk(c, x) /\ x.conns = c.conns
         /\ x.ClientQueue = c.ClientQueue /\ x.entries[u] = e
         /\ \A v \in Urls \ {u} : x.entries[v] = c.entries[v]
<1>1. /\ Sound(c, {}, {}) /\ c \in StateType /\ ConnsOK(c, {}) /\ u \in Urls
  BY Parts
<1>2. c.entries[u] \in Entry /\ PageOK(c.entries[u], u)
  BY <1>1, MemberTypes DEF Sound
<1>3. c.entries[u].data \in 0 .. MaxData
  BY <1>2 DEF Entry
<1>4. c.entries[u].data + 1 \in 0 .. MaxData /\ c.entries[u].data + 1 > 0
  BY <1>3, CacheAssumption
<1>5. e \in Entry /\ e.data > 0
  BY <1>2, <1>4 DEF DataOf, Entry
<1>6. /\ e.id = c.entries[u].id /\ e.typed = c.entries[u].typed
      /\ e.kind = c.entries[u].kind /\ e.GotData = c.entries[u].GotData
      /\ e.to = c.entries[u].to /\ e.header = c.entries[u].header
      /\ e.refs = c.entries[u].refs /\ e.spared = c.entries[u].spared
  BY <1>2 DEF DataOf, Entry
<1>7. PageOK(e, u)
  BY <1>2, <1>5, <1>6 DEF PageOK
<1>8. ~e.GotData /\ e.id # 0
  BY <1>1, <1>6 DEF ConnsOK
<1>9. Rewrites(c, x, u, e)
  BY DEF DataOf, Rewrites
<1>10. /\ Sound(x, {}, {}) /\ SameTalk(c, x) /\ x.conns = c.conns
       /\ x.ClientQueue = c.ClientQueue /\ x.entries[u] = e
       /\ \A v \in Urls \ {u} : x.entries[v] = c.entries[v]
  BY ONLY <1>1, <1>5, <1>6, <1>7, <1>8, <1>9, EntrySound
<1> QED
  BY <1>5, <1>6, <1>8, <1>9, <1>10 DEF Renewed

LEMMA DataStep ==
  ASSUME IInv, Data
  PROVE  IInv' /\ ToldAll
<1>1. PICK u \in c.conns, det \in Detected \cup {"doubt"} :
        /\ c.entries[u].header /\ c.entries[u].data < MaxData
        /\ c.entries[u].typed => det = "match"
        /\ Notes(Cache_process_queue([c EXCEPT !.entries[u].data = @ + 1], u, det).x)
  BY DEF Data
<1>2. /\ Sound(c, {}, {}) /\ Balanced(c) /\ c \in StateType /\ ConnsOK(c, {})
      /\ stopped \subseteq Urls /\ u \in Urls
  BY <1>1, Parts
<1>3. PICK x : x = [c EXCEPT !.entries[u].data = @ + 1]
  OBVIOUS
<1>4. PICK r : r = Cache_process_queue(x, u, det)
  OBVIOUS
<1>5. Left(r.x) /\ stopped' = stopped
  BY <1>1, <1>3, <1>4 DEF Notes
<1>6. PICK e : e = [c.entries[u] EXCEPT !.data = @ + 1]
  OBVIOUS
<1>7. /\ Rewrites(c, x, u, e)
       /\ Renewed(c.entries[u], e) /\ e.kind = c.entries[u].kind
       /\ e.header = c.entries[u].header /\ e.GotData = c.entries[u].GotData
       /\ e.data > 0 /\ e.id # 0 /\ ~e.GotData
       /\ Sound(x, {}, {}) /\ SameTalk(c, x) /\ x.conns = c.conns
       /\ x.ClientQueue = c.ClientQueue /\ x.entries[u] = e
       /\ \A v \in Urls \ {u} : x.entries[v] = c.entries[v]
  <2>1. DataOf(u, e, x)
    BY <1>3, <1>6 DEF DataOf
  <2>2. u \in c.conns /\ c.entries[u].data < MaxData
    BY <1>1
  <2> QED
    BY ONLY IInv, <2>1, <2>2, DataBegins
<1>8. Processed(x, r, u)
  <2>1. Cached(x, u) /\ x.entries[u].data > 0
    BY <1>7 DEF Cached
  <2> QED
    BY <1>2, <1>4, <1>7, <2>1, ProcessSound
<1>9. Balanced(x)
  BY <1>2, <1>7 DEF Balanced, Counted, Renewed
<1>10. Balanced(r.x) /\ Sound(r.x, {}, {}) /\ Since(x, r.x, {})
  BY <1>2, <1>8, <1>9, ProcessedBalanced DEF Processed
<1>11. SameClients(x)
  BY <1>7 DEF SameClients, SameTalk
<1>12. IInv'
  BY <1>2, <1>5, <1>10, <1>11, StepInv
<1>13. \A v \in Urls :
         /\ x.entries[v].kind = c.entries[v].kind
         /\ x.entries[v].GotData => /\ x.entries[v].data = c.entries[v].data
                                    /\ v \notin c.conns \cap r.x.conns
  BY <1>2, <1>7 DEF ConnsOK
<1>14. ToldAll
  BY <1>5, <1>10, <1>11, <1>13, ToldWell
<1> QED
  BY <1>12, <1>14

\* A connection ends: c without it, b, and then at the end of the data.
CloseOf(u, b, e, x) == /\ b = [c EXCEPT !.conns = @ \ {u}]
                       /\ e = [c.entries[u] EXCEPT !.GotData = TRUE]
                       /\ x = [b EXCEPT !.entries[u] = e]

LEMMA CloseBegins ==
  ASSUME IInv, NEW u \in c.conns, Cached(c, u),
         NEW b, NEW e, NEW x, CloseOf(u, b, e, x)
  PROVE  /\ b \in StateType /\ b.conns = c.conns \ {u} /\ b.entries = c.entries
         /\ b.ClientQueue = c.ClientQueue /\ b.DelayedQueue = c.DelayedQueue
         /\ b.closed = c.closed /\ b.level = c.level
         /\ b.idle = c.idle /\ b.shifted = c.shifted
         /\ Rewrites(b, x, u, e)
         /\ Renewed(c.entries[u], e) /\ e.kind = c.entries[u].kind
         /\ e.header = c.entries[u].header /\ e.data = c.entries[u].data /\ e.GotData
         /\ Sound(x, {}, {}) /\ SameTalk(b, x) /\ x.conns = b.conns
         /\ x.ClientQueue = b.ClientQueue /\ x.entries[u] = e
         /\ \A v \in Urls \ {u} : x.entries[v] = b.entries[v]
<1>1. /\ Sound(c, {}, {}) /\ c \in StateType /\ u \in Urls
  BY Parts
<1>2. /\ b \in StateType /\ b.conns = c.conns \ {u} /\ b.entries = c.entries
      /\ b.ClientQueue = c.ClientQueue /\ b.DelayedQueue = c.DelayedQueue
      /\ b.closed = c.closed /\ b.level = c.level /\ b.got = c.got
      /\ b.idle = c.idle /\ b.shifted = c.shifted
  BY <1>1 DEF CloseOf, StateType
<1>3. Sound(b, {}, {})
  <2>1. Embeds(c, b)
    BY <1>2, SamePlaces
  <2>2. Shrinks(c, b, {})
    BY <1>2, <2>1 DEF Shrinks
  <2> QED
    BY <1>1, <2>2, ShrunkSound
<1>4. c.entries[u] \in Entry /\ PageOK(c.entries[u], u)
  BY <1>1, MemberTypes DEF Sound
<1>5. e \in Entry /\ e.GotData
  BY <1>4 DEF CloseOf, Entry
<1>6. /\ e.id = c.entries[u].id /\ e.typed = c.entries[u].typed
      /\ e.kind = c.entries[u].kind /\ e.data = c.entries[u].data
      /\ e.to = c.entries[u].to /\ e.header = c.entries[u].header
      /\ e.refs = c.entries[u].refs /\ e.spared = c.entries[u].spared
  BY <1>4 DEF CloseOf, Entry
<1>7. PageOK(e, u)
  BY <1>4, <1>5, <1>6 DEF PageOK
<1>8. Rewrites(b, x, u, e)
  BY DEF CloseOf, Rewrites
<1>9. u \notin b.conns \ {} /\ e.id = b.entries[u].id
  BY <1>2, <1>6
<1>10. /\ Sound(x, {}, {}) /\ SameTalk(b, x) /\ x.conns = b.conns
       /\ x.ClientQueue = b.ClientQueue /\ x.entries[u] = e
       /\ \A v \in Urls \ {u} : x.entries[v] = b.entries[v]
  BY ONLY <1>1, <1>3, <1>5, <1>7, <1>8, <1>9, EntrySound
<1> QED
  BY <1>2, <1>5, <1>6, <1>8, <1>10 DEF Renewed

LEMMA CloseStep ==
  ASSUME IInv, Close
  PROVE  IInv' /\ ToldAll
<1>1. PICK u \in c.conns, det \in Detected : Cached(c, u) /\ Notes(Cache_close(c, u, det))
  BY DEF Close
<1>2. /\ Sound(c, {}, {}) /\ Balanced(c) /\ c \in StateType /\ ConnsOK(c, {})
      /\ stopped \subseteq Urls /\ u \in Urls
  BY <1>1, Parts
<1>3. PICK b : b = [c EXCEPT !.conns = @ \ {u}]
  OBVIOUS
<1>4. PICK e : e = [c.entries[u] EXCEPT !.GotData = TRUE]
  OBVIOUS
<1>5. PICK x : x = [b EXCEPT !.entries[u] = e]
  OBVIOUS
<1>6. PICK r : r = Cache_process_queue(x, u, det)
  OBVIOUS
<1>7. PICK y : y = IF ~r.null /\ c.entries[u].header THEN Ref(r.x, u, -1) ELSE r.x
  OBVIOUS
<1>8. Left(y) /\ stopped' = stopped
  <2>1. x = [c EXCEPT !.entries[u].GotData = TRUE, !.conns = @ \ {u}]
    BY <1>2, <1>3, <1>4, <1>5 DEF StateType
  <2> QED
    BY <1>1, <1>6, <1>7, <2>1 DEF Notes, Cache_close
<1>9. CloseOf(u, b, e, x)
  BY <1>3, <1>4, <1>5 DEF CloseOf
<1>10. /\ b \in StateType /\ b.conns = c.conns \ {u} /\ b.entries = c.entries
      /\ b.ClientQueue = c.ClientQueue /\ b.DelayedQueue = c.DelayedQueue
      /\ b.closed = c.closed /\ b.level = c.level
  BY <1>1, <1>9, CloseBegins
<1>11. /\ Rewrites(b, x, u, e)
       /\ Renewed(c.entries[u], e) /\ e.kind = c.entries[u].kind
       /\ e.header = c.entries[u].header /\ e.data = c.entries[u].data /\ e.GotData
       /\ Sound(x, {}, {}) /\ SameTalk(b, x) /\ x.conns = b.conns
       /\ x.ClientQueue = b.ClientQueue /\ x.entries[u] = e
       /\ \A v \in Urls \ {u} : x.entries[v] = b.entries[v]
  BY <1>1, <1>9, CloseBegins
<1>12. Processed(x, r, u)
  <2>1. Cached(x, u) /\ x.entries[u].GotData
    BY <1>1, <1>11 DEF Cached, Renewed
  <2> QED
    BY <1>2, <1>6, <1>11, <2>1, ProcessSound
<1>13. SameClients(x)
  BY <1>10, <1>11 DEF SameClients, SameTalk
<1>14. /\ Sound(r.x, {}, {}) /\ Since(x, r.x, {}) /\ u \notin r.x.conns
  BY <1>10, <1>11, <1>12 DEF Processed
<1>15. \A v \in Urls \ {u} : Counted(r.x.entries[v], 0)
  BY <1>2, <1>10, <1>11, <1>12 DEF Processed, Balanced
<1>16. ~c.entries[u].GotData /\ Counted(c.entries[u], 0)
  BY <1>1, <1>2 DEF ConnsOK, Balanced
<1>17. Sound(y, {}, {}) /\ Since(x, y, {}) /\ Balanced(y) /\ u \notin y.conns
  <2>1. CASE r.null
    <3>1. y = r.x /\ Counted(r.x.entries[u], 0)
      BY <1>7, <1>12, <2>1 DEF Processed
    <3> QED
      BY <1>14, <1>15, <3>1 DEF Balanced
  <2>2. CASE ~r.null /\ ~c.entries[u].header
    <3>1. y = r.x /\ SameRefs(x.entries[u], r.x.entries[u])
      BY <1>7, <1>12, <2>2 DEF Processed
    <3>2. Counted(r.x.entries[u], 0)
      BY <1>11, <1>16, <2>2, <3>1 DEF SameRefs, Counted, Renewed
    <3> QED
      BY <1>14, <1>15, <3>1, <3>2 DEF Balanced
  <2>3. CASE ~r.null /\ c.entries[u].header
    <3>1. y = Ref(r.x, u, -1) /\ SameRefs(x.entries[u], r.x.entries[u])
      BY <1>7, <1>12, <2>3 DEF Processed
    <3>2. /\ Sound(y, {}, {}) /\ Since(r.x, y, {}) /\ y.conns = r.x.conns
          /\ Recounted(r.x.entries[u], y.entries[u], -1)
          /\ \A v \in Urls \ {u} : y.entries[v] = r.x.entries[v]
      BY <1>2, <1>14, <3>1, RefSound
    <3>3. /\ y.entries[u].refs = c.entries[u].refs - 1 /\ y.entries[u].GotData
          /\ y.entries[u].spared = c.entries[u].spared
      BY <1>11, <3>1, <3>2 DEF SameRefs, Recounted, Renewed
    <3>4. Counted(y.entries[u], 0)
      BY <1>16, <2>3, <3>3 DEF Counted
    <3>5. Since(x, y, {})
      BY <1>14, <3>2, SinceChain
    <3> QED
      BY <1>14, <1>15, <3>2, <3>4, <3>5 DEF Balanced
  <2> QED
    BY <2>1, <2>2, <2>3
<1>18. IInv'
  BY <1>2, <1>8, <1>13, <1>17, StepInv
<1>19. \A v \in Urls :
         /\ x.entries[v].kind = c.entries[v].kind
         /\ x.entries[v].GotData => /\ x.entries[v].data = c.entries[v].data
                                    /\ v \notin c.conns \cap y.conns
  BY <1>2, <1>10, <1>11, <1>17 DEF ConnsOK
<1>20. ToldAll
  BY <1>8, <1>13, <1>17, <1>19, ToldWell
<1> QED
  BY <1>18, <1>20

LEMMA StopStep ==
  ASSUME IInv, Stop
  PROVE  IInv' /\ ToldAll
<1>1. PICK n \in DOMAIN c.ClientQueue, force \in BOOLEAN :
        /\ Left(a_Cache_stop_client(c, c.ClientQueue[n], force))
        /\ stopped' = stopped \cup {c.ClientQueue[n].url}
  BY DEF Stop
<1>2. Sound(c, {}, {}) /\ Balanced(c) /\ c \in StateType /\ stopped \subseteq Urls
  BY Parts
<1>3. PICK cl : cl = c.ClientQueue[n]
  OBVIOUS
<1>4. cl.url \in Urls
  <2>1. n \in Places(c)
    BY <1>1, <1>2, MemberTypes DEF Places
  <2> QED
    BY <1>2, <1>3, <2>1, MemberTypes
<1>5. PICK a : a \in {c, a_Capi_conn_abort_by_url(c, cl.url)} /\
               a_Cache_stop_client(c, cl, force) =
                 IF cl.key \in KeysIn(a) THEN Dequeue(Undelay(a, cl.url), {cl.key}) ELSE a
  BY DEF a_Cache_stop_client
<1>6. Sound(a, {}, {}) /\ Since(c, a, {}) /\ Balanced(a)
  <2>1. CASE a = c
    BY <1>2, <2>1, SinceSame
  <2>2. CASE a = a_Capi_conn_abort_by_url(c, cl.url)
    <3>1. Sound(a, {}, {}) /\ Since(c, a, {}) /\ Touches(c, a, cl.url)
      BY <1>2, <1>4, <2>2, AbortSound
    <3> QED
      BY <1>2, <1>4, <3>1, TouchBalanced
  <2> QED
    BY <1>5, <2>1, <2>2
<1>7. PICK y : y = a_Cache_stop_client(c, cl, force)
  OBVIOUS
<1>8. Sound(y, {}, {}) /\ Since(c, y, {}) /\ Balanced(y)
  <2>1. CASE y = a
    BY <1>6, <2>1
  <2>2. CASE y = Dequeue(Undelay(a, cl.url), {cl.key})
    <3>1. PICK d : d = Undelay(a, cl.url)
      OBVIOUS
    <3>2. Sound(d, {}, {}) /\ Since(a, d, {}) /\ d.entries = a.entries
      BY <1>6, <3>1, UndelaySound DEF SameRest
    <3>3. y = Dequeue(d, {cl.key})
      BY <2>2, <3>1
    <3>4. Sound(y, {}, {}) /\ Since(d, y, {}) /\ y.entries = d.entries
      BY <3>2, <3>3, DequeueSound DEF SameRest
    <3>5. Since(c, y, {})
      BY <1>6, <3>2, <3>4, SinceChain
    <3> QED
      BY <1>6, <3>2, <3>4, <3>5 DEF Balanced
  <2> QED
    BY <1>5, <1>7, <2>1, <2>2
<1>9. Left(y) /\ stopped' \subseteq Urls
  BY <1>1, <1>2, <1>3, <1>4, <1>7
<1> QED
  BY <1>8, <1>9, PlainStep

LEMMA InitHolds ==
  ASSUME Init
  PROVE  IInv
<1>1. /\ c.entries = [u \in Urls |-> Nobody] /\ c.ClientQueue = <<>>
      /\ c.DelayedQueue = <<>> /\ c.conns = {} /\ c.closed = {}
      /\ c.level = [k \in Keys |-> 0] /\ gone = {} /\ stopped = {}
  BY DEF Init
<1>2. 0 \in 0 .. MaxData /\ 0 \in 0 .. RedirectLimit
  BY CacheAssumption
<1>3. c \in StateType
  BY <1>2, NobodyIs DEF Init, StateType
<1>4. Places(c) = {} /\ 1 .. Len(c.DelayedQueue) = {}
  BY <1>1 DEF Places
<1>5. QueuesOK(c) /\ ConnsOK(c, {}) /\ LevelsOK(c, {})
  BY <1>1, <1>4 DEF QueuesOK, ConnsOK, LevelsOK
<1>6. \A u \in Urls : c.entries[u] = Nobody
  BY <1>1
<1>7. Sound(c, {}, {}) /\ \A v \in Urls : Counted(c.entries[v], 0)
  BY <1>3, <1>5, <1>6, NobodyIs DEF Sound
<1>8. Unborn
  BY <1>1 DEF Unborn
<1> QED
  BY <1>1, <1>7, <1>8 DEF IInv

LEMMA NextHolds ==
  ASSUME IInv, Next
  PROVE  IInv' /\ ToldAll
BY OpenStep, HeaderStep, DataStep, CloseStep, ConnFailsStep, TimeoutStep, StopStep DEF Next

LEMMA InvariantHolds == Spec => []IInv
<1>1. Init => IInv
  BY InitHolds
<1>2. IInv /\ [Next]_vars => IInv'
  <2>1. ASSUME IInv, Next PROVE IInv'
    BY <2>1, NextHolds
  <2>2. ASSUME IInv, UNCHANGED vars PROVE IInv'
    BY <2>2 DEF vars, IInv, Unborn
  <2> QED
    BY <2>1, <2>2
<1> QED
  BY <1>1, <1>2, PTL DEF Spec

----------------------------------------------------------------------------
(* The theorems                                                            *)

\* Nobody is queued twice: the queue is as long as there are clients in it.
LEMMA OncePerClient ==
  ASSUME NEW x, Sound(x, {}, {})
  PROVE  Len(x.ClientQueue) = Cardinality(KeysIn(x))
<1>1. x \in StateType /\ QueuesOK(x)
  BY DEF Sound
<1>2. Len(x.ClientQueue) \in Nat /\ DOMAIN x.ClientQueue = Places(x)
  BY <1>1, MemberTypes DEF Places
<1> DEFINE f == [n \in Places(x) |-> x.ClientQueue[n].key]
<1>3. f \in Surjection(Places(x), KeysIn(x))
  BY <1>2 DEF Surjection, KeysIn
<1>4. f \in Injection(Places(x), KeysIn(x))
  BY <1>1, <1>3 DEF QueuesOK, Injection, IsInjective, Surjection
<1>5. IsFiniteSet(Places(x)) /\ Cardinality(Places(x)) = Len(x.ClientQueue)
  BY <1>2, FS_Interval DEF Places
<1> HIDE DEF f
<1>6. Cardinality(KeysIn(x)) = Cardinality(Places(x))
  BY <1>3, <1>4, <1>5, FS_Surjection
<1> QED
  BY <1>5, <1>6

\* No client and no member of DelayedQueue points at an entry that was removed, and
\* no client is queued twice, or after it was told the end or is gone: whatever
\* Cache_process_queue and its callers remove, add and redirect on the way.
THEOREM NothingDangles == Spec => []NoDangling
<1>1. ASSUME IInv PROVE NoDangling
  <2>1. /\ Sound(c, {}, {}) /\ c \in StateType /\ QueuesOK(c) /\ gone \subseteq Keys
        /\ stopped \subseteq Urls /\ \A k \in gone : ~Has(c, k)
    BY <1>1 DEF IInv, Sound
  <2>2. TypeOK
    BY <2>1 DEF TypeOK
  <2>3. Len(c.ClientQueue) = Cardinality(KeysIn(c))
    BY <2>1, OncePerClient
  <2>4. KeysIn(c) \cap (c.closed \cup gone) = {}
    <3>1. \A k \in KeysIn(c) : Has(c, k)
      BY <2>1, KeysAre
    <3>2. \A k : Has(c, k) => k \notin c.closed
      BY <2>1 DEF QueuesOK, Has
    <3> QED
      BY <2>1, <3>1, <3>2
  <2>5. c.ClientQueue \in Seq(Client) /\ c.DelayedQueue \in Seq(Urls \X Nat)
    BY <2>1, MemberTypes
  <2>6. \A cl \in Range(c.ClientQueue) : cl.id = c.entries[cl.url].id
    <3>1. \A cl \in Range(c.ClientQueue) : \E n \in Places(c) : cl = c.ClientQueue[n]
      BY <2>5 DEF Range, Places
    <3> QED
      BY <2>1, <3>1 DEF QueuesOK
  <2>7. \A d \in Range(c.DelayedQueue) : d[2] = c.entries[d[1]].id
    <3>1. \A d \in Range(c.DelayedQueue) :
            \E n \in 1 .. Len(c.DelayedQueue) : d = c.DelayedQueue[n]
      BY <2>5, SMTT(30) DEF Range
    <3> QED
      BY <2>1, <3>1 DEF QueuesOK
  <2> QED
    BY <2>2, <2>3, <2>4, <2>6, <2>7 DEF NoDangling
<1> QED
  BY <1>1, InvariantHolds, PTL

\* Between the callbacks an entry's data is referred to exactly while it is being
\* received, though the timeout takes and drops references of its own around
\* Cache_process_queue, which may remove the entry.
THEOREM ReferencesBalance == Spec => []RefsBalanced
<1>1. ASSUME IInv PROVE RefsBalanced
  <2>1. ASSUME NEW u \in Urls, ~c.entries[u].spared
        PROVE  c.entries[u].refs =
                 IF c.entries[u].header /\ ~c.entries[u].GotData THEN 1 ELSE 0
    BY <1>1, <2>1 DEF IInv, Counted
  <2> QED
    BY <2>1 DEF RefsBalanced
<1> QED
  BY <1>1, InvariantHolds, PTL

\* A client that is told the end, by the connection or by the timeout, was told it when
\* the connection was over and with all the data that came.
THEOREM ToldTheEndWithAllData == Spec => ClosedHaveAll
<1>1. ASSUME IInv, [Next]_vars
      PROVE  [\A cl \in Range(c.ClientQueue) :
                cl.key \in c'.closed \ c.closed /\ c.entries[cl.url].kind \notin CA_Redirect =>
                /\ cl.url \notin c.conns \cap c'.conns
                /\ c'.got[cl.key] = c.entries[cl.url].data]_vars
  BY <1>1, NextHolds DEF ToldAll
<1> QED
  BY <1>1, InvariantHolds, PTL DEF Spec, ClosedHaveAll

----------------------------------------------------------------------------
(* Who waits is served                                                     *)
(*                                                                         *)
(* While an entry is processed its own clients are between the two ways of *)
(* being served, and a timeout takes one entry after another out of        *)
(* DelayedQueue: the others' are not disturbed, and what is left of the    *)
(* queue grows less.                                                       *)

\* The URLs in DelayedQueue.
Waits(x) == {x.DelayedQueue[n][1] : n \in 1 .. Len(x.DelayedQueue)}

\* An entry that is not at its end is being received, and one that is has a type if it
\* has a header.
FineAt(x, v) == LET e == x.entries[v]
                IN  /\ Cached(x, v) /\ ~e.GotData => v \in x.conns
                    /\ e.header /\ e.GotData => e.typed

Fine(x) == \A v \in Urls : FineAt(x, v)

\* The clients of page v are served, or were disturbed, when D are the URLs with stops.
Heeded(x, v, D) == \/ v \in x.conns
                   \/ x.idle /\ v \in Waits(x)
                   \/ v \in D \cup x.shifted
                   \/ x.entries[v].GotData /\ ~x.entries[v].header

\* All clients, but for those of the pages in U.
AllHeeded(x, U, D) ==
  \A n \in Places(x) : x.ClientQueue[n].url \notin U => Heeded(x, x.ClientQueue[n].url, D)

\* As far as nobody leaves the queue, it stays as it is.
FirstKept(x, y) ==
  \A i \in Places(x) :
    (\A n \in 1 .. i : Has(y, x.ClientQueue[n].key)) =>
      \A n \in 1 .. i : n \in Places(y) /\ y.ClientQueue[n] = x.ClientQueue[n]

\* From x to y clients may leave, and entry v with its connection.
Departs(x, y, v) ==
  /\ y.idle = x.idle /\ y.shifted = x.shifted /\ y.level = x.level
  /\ \A w \in Urls \ {v} : /\ y.entries[w] = x.entries[w]
                           /\ w \in y.conns <=> w \in x.conns
                           /\ w \in Waits(y) <=> w \in Waits(x)
  /\ v \in Waits(y) => v \in Waits(x)
  /\ y.entries[v].GotData => x.entries[v].GotData
  /\ \A n \in Places(y) : \E m \in Places(x) : y.ClientQueue[n] = x.ClientQueue[m]
  /\ FirstKept(x, y)

LEMMA FirstKeptChain ==
  ASSUME NEW x, NEW y, NEW z, x \in StateType, FirstKept(x, y), FirstKept(y, z),
         \A k : Has(x, k) /\ Has(z, k) => Has(y, k)
  PROVE  FirstKept(x, z)
<1> SUFFICES ASSUME NEW i \in Places(x), \A n \in 1 .. i : Has(z, x.ClientQueue[n].key)
             PROVE  \A n \in 1 .. i : n \in Places(z) /\ z.ClientQueue[n] = x.ClientQueue[n]
  BY DEF FirstKept
<1>1. Len(x.ClientQueue) \in Nat /\ i \in Nat /\ i >= 1 /\ i <= Len(x.ClientQueue)
  BY MemberTypes DEF Places
<1>2. \A n \in 1 .. i : n \in Places(x)
  BY <1>1 DEF Places
<1>3. \A n \in 1 .. i : Has(y, x.ClientQueue[n].key)
  BY <1>2 DEF Has
<1>4. \A n \in 1 .. i : n \in Places(y) /\ y.ClientQueue[n] = x.ClientQueue[n]
  BY <1>3 DEF FirstKept
<1>5. i \in Places(y) /\ \A n \in 1 .. i : Has(z, y.ClientQueue[n].key)
  BY <1>1, <1>4
<1>6. \A n \in 1 .. i : n \in Places(z) /\ z.ClientQueue[n] = y.ClientQueue[n]
  BY <1>5 DEF FirstKept
<1> QED
  BY <1>4, <1>6

LEMMA DepartsChain ==
  ASSUME NEW x, NEW y, NEW z, NEW v, x \in StateType,
         Departs(x, y, v), Departs(y, z, v)
  PROVE  Departs(x, z, v)
<1>1. \A n \in Places(z) : \E m \in Places(y) : z.ClientQueue[n] = y.ClientQueue[m]
  BY DEF Departs
<1>2. \A k : Has(z, k) => Has(y, k)
  BY <1>1 DEF Has
<1>3. FirstKept(x, z)
  <2>1. FirstKept(x, y) /\ FirstKept(y, z)
    BY DEF Departs
  <2> QED
    BY <1>2, <2>1, FirstKeptChain
<1>4. \A n \in Places(z) : \E m \in Places(x) : z.ClientQueue[n] = x.ClientQueue[m]
  BY <1>1 DEF Departs
<1>5. \A w \in Urls \ {v} : /\ z.entries[w] = x.entries[w]
                            /\ w \in z.conns <=> w \in x.conns
                            /\ w \in Waits(z) <=> w \in Waits(x)
  BY DEF Departs
<1> QED
  BY <1>3, <1>4, <1>5 DEF Departs

\* Nothing departs.
LEMMA DepartsSame ==
  ASSUME NEW x, NEW y, NEW v, y.ClientQueue = x.ClientQueue,
         y.DelayedQueue = x.DelayedQueue, y.entries = x.entries, y.idle = x.idle,
         y.shifted = x.shifted, y.level = x.level,
         \A w \in Urls \ {v} : w \in y.conns <=> w \in x.conns,
         x \in StateType
  PROVE  Departs(x, y, v)
<1>1. Places(y) = Places(x) /\ Waits(y) = Waits(x)
  BY DEF Places, Waits
<1>2. FirstKept(x, y)
  <2>1. ASSUME NEW i \in Places(x), NEW n \in 1 .. i PROVE n \in Places(x)
    BY MemberTypes DEF Places
  <2> QED
    BY <1>1, <2>1 DEF FirstKept
<1> QED
  BY <1>1, <1>2 DEF Departs

\* The members before the first that goes stay in their places.
LEMMA WithoutFirst ==
  ASSUME NEW T, NEW q \in Seq(T), NEW S, NEW i \in 1 .. Len(q),
         \A n \in 1 .. i : q[n] \notin S
  PROVE  /\ Len(Without(q, S)) >= i
         /\ \A n \in 1 .. i : Without(q, S)[n] = q[n]
<1>1. Len(q) \in Nat /\ i \in Nat
  OBVIOUS
<1>2. PICK f : IsKept(f, q, S, Len(q)) /\ Without(q, S) = f[Len(q)]
  BY <1>1, WithoutIsKept
<1>3. \A k \in 0 .. Len(q) : f[k] = IF k = 0 THEN <<>> ELSE Keep(f[k - 1], q[k], S)
  BY <1>2 DEF IsKept
<1> DEFINE P(k) == /\ f[k] \in Seq(T)
                   /\ k <= i => Len(f[k]) = k
                   /\ k > i => Len(f[k]) >= i
                   /\ \A n \in 1 .. i : n <= k => f[k][n] = q[n]
           B == {k \in 0 .. Len(q) : ~P(k)}
<1>4. SUFFICES ASSUME B # {} PROVE FALSE
  <2>1. B = {} => P(Len(q))
    BY <1>1
  <2> QED
    BY <1>1, <1>2, <2>1
<1>5. PICK k \in B : \A j \in B : k <= j
  <2>1. B \in SUBSET Nat
    BY <1>1
  <2> HIDE DEF B
  <2> QED
    BY <1>4, <2>1, LeastOf
<1>6. CASE k = 0
  <2>1. f[0] = <<>>
    BY <1>1, <1>3
  <2>2. <<>> \in Seq(T) /\ Len(<<>>) = 0
    OBVIOUS
  <2>3. (\A n \in 1 .. i : ~(n <= 0)) /\ ~(0 > i)
    BY <1>1
  <2>4. P(0)
    BY <2>1, <2>2, <2>3
  <2> QED
    BY <1>5, <1>6, <2>4
<1>7. CASE k # 0
  <2>1. k \in 1 .. Len(q) /\ k - 1 \in 0 .. Len(q) /\ k - 1 \notin B
    BY <1>1, <1>5, <1>7
  <2>2. f[k] = Keep(f[k - 1], q[k], S)
    BY <1>3, <1>7, <2>1
  <2>3. P(k - 1)
    BY <2>1
  <2>4. PICK r : r = f[k - 1]
    OBVIOUS
  <2>5. r \in Seq(T) /\ Len(r) \in Nat /\ q[k] \in T
    BY <2>1, <2>3, <2>4
  <2>6. CASE q[k] \in S
    <3>1. f[k] = r /\ k > i
      BY <1>1, <2>1, <2>2, <2>4, <2>6 DEF Keep
    <3>2. Len(r) >= i /\ \A n \in 1 .. i : r[n] = q[n]
      BY <1>1, <2>1, <2>3, <2>4, <3>1
    <3> QED
      BY <1>1, <1>5, <2>1, <2>5, <3>1, <3>2
  <2>7. CASE q[k] \notin S
    <3>1. f[k] = Append(r, q[k])
      BY <2>2, <2>4, <2>7 DEF Keep
    <3>2. /\ f[k] \in Seq(T) /\ Len(f[k]) = Len(r) + 1 /\ f[k][Len(r) + 1] = q[k]
          /\ \A n \in 1 .. Len(r) : f[k][n] = r[n]
      BY <2>5, <3>1
    <3>3. CASE k <= i
      <4>1. Len(r) = k - 1 /\ \A n \in 1 .. i : n <= k - 1 => r[n] = q[n]
        BY <1>1, <2>1, <2>3, <2>4, <3>3
      <4>2. \A n \in 1 .. i : n <= k => n = Len(r) + 1 \/ (n \in 1 .. Len(r) /\ n <= k - 1)
        BY <1>1, <2>1, <4>1
      <4>3. \A n \in 1 .. i : n <= k => f[k][n] = q[n]
        BY <2>1, <3>2, <4>1, <4>2
      <4> QED
        BY <1>1, <1>5, <2>1, <3>2, <3>3, <4>1, <4>3
    <3>4. CASE ~(k <= i)
      <4>1. Len(r) >= i /\ \A n \in 1 .. i : r[n] = q[n]
        BY <1>1, <2>1, <2>3, <2>4, <3>4
      <4>2. \A n \in 1 .. i : f[k][n] = q[n]
        BY <1>1, <2>5, <3>2, <4>1
      <4> QED
        BY <1>1, <1>5, <2>1, <2>5, <3>2, <3>4, <4>1, <4>2
    <3> QED
      BY <3>3, <3>4
  <2> QED
    BY <2>6, <2>7
<1> QED
  BY <1>6, <1>7

LEMMA DequeueDeparts ==
  ASSUME NEW x, x \in StateType, NEW v, NEW keys, NEW y, y = Dequeue(x, keys)
  PROVE  Departs(x, y, v)
<1>1. /\ y \in StateType /\ SameRest(x, y) /\ y.DelayedQueue = x.DelayedQueue
      /\ Leaves(x, y, keys)
  BY DequeueFields
<1>2. Waits(y) = Waits(x)
  BY <1>1 DEF Waits
<1>3. PICK q : q = x.ClientQueue
  OBVIOUS
<1>4. PICK S : S = {cl \in Range(q) : cl.key \in keys}
  OBVIOUS
<1>5. PICK r : r = Without(q, S)
  OBVIOUS
<1>6. q \in Seq(Client) /\ Len(q) \in Nat
  BY <1>3, MemberTypes
<1>7. y.ClientQueue = r
  BY <1>3, <1>4, <1>5 DEF Dequeue, StateType
<1>8. \A n \in Places(y) : y.ClientQueue[n].key \notin keys
  BY <1>1 DEF Leaves
<1>9. FirstKept(x, y)
  <2> SUFFICES ASSUME NEW i \in Places(x), \A n \in 1 .. i : Has(y, x.ClientQueue[n].key)
               PROVE  \A n \in 1 .. i : n \in Places(y) /\ y.ClientQueue[n] = x.ClientQueue[n]
    BY DEF FirstKept
  <2>1. i \in 1 .. Len(q)
    BY <1>3 DEF Places
  <2>2. \A n \in 1 .. i : q[n] \notin S
    BY <1>3, <1>4, <1>8 DEF Has
  <2>3. Len(r) >= i /\ \A n \in 1 .. i : r[n] = q[n]
    BY <1>5, <1>6, <2>1, <2>2, WithoutFirst
  <2>4. Len(r) \in Nat
    BY <1>1, <1>7, MemberTypes
  <2>5. \A n \in 1 .. i : n \in 1 .. Len(r)
    BY <1>6, <2>1, <2>3, <2>4
  <2> QED
    BY <1>3, <1>7, <2>3, <2>5 DEF Places
<1>10. \A n \in Places(y) : \E m \in Places(x) : y.ClientQueue[n] = x.ClientQueue[m]
  BY <1>1 DEF Leaves, Embeds
<1> QED
  BY <1>1, <1>2, <1>9, <1>10 DEF Departs, SameRest

\* Entry v, and no other, leaves DelayedQueue.
LEMMA UndelayDeparts ==
  ASSUME NEW x, x \in StateType, QueuesOK(x), NEW v, NEW y, y = Undelay(x, v)
  PROVE  Departs(x, y, v) /\ Waits(y) = Waits(x) \ {v}
<1>1. /\ y \in StateType /\ SameRest(x, y) /\ y.ClientQueue = x.ClientQueue
      /\ Lacks(y.DelayedQueue, x.DelayedQueue, <<v, x.entries[v].id>>)
  BY UndelayFields
<1>2. \A j \in 1 .. Len(x.DelayedQueue) :
        x.DelayedQueue[j] = <<v, x.entries[v].id>> <=> x.DelayedQueue[j][1] = v
  <2>1. ASSUME NEW j \in 1 .. Len(x.DelayedQueue), NEW d, d = x.DelayedQueue[j]
        PROVE  d = <<v, x.entries[v].id>> <=> d[1] = v
    <3>1. d \in Urls \X Nat /\ d[2] = x.entries[d[1]].id
      BY <2>1, MemberTypes DEF QueuesOK
    <3> QED
      BY <3>1
  <2> QED
    BY <2>1
<1>3. ASSUME NEW w \in Waits(y) PROVE w \in Waits(x) \ {v}
  <2>1. PICK i \in 1 .. Len(y.DelayedQueue) : w = y.DelayedQueue[i][1]
    BY DEF Waits
  <2>2. PICK j \in 1 .. Len(x.DelayedQueue) : y.DelayedQueue[i] = x.DelayedQueue[j]
    BY <1>1 DEF Lacks
  <2> QED
    BY <1>1, <1>2, <2>1, <2>2 DEF Waits, Lacks
<1>4. ASSUME NEW w \in Waits(x) \ {v} PROVE w \in Waits(y)
  <2>1. PICK j \in 1 .. Len(x.DelayedQueue) : w = x.DelayedQueue[j][1]
    BY DEF Waits
  <2>2. PICK i \in 1 .. Len(y.DelayedQueue) : y.DelayedQueue[i] = x.DelayedQueue[j]
    BY <1>1, <1>2, <2>1 DEF Lacks
  <2> QED
    BY <2>1, <2>2 DEF Waits
<1>5. Waits(y) = Waits(x) \ {v}
  BY <1>3, <1>4
<1>6. Places(y) = Places(x) /\ FirstKept(x, y)
  <2>1. ASSUME NEW i \in Places(x), NEW n \in 1 .. i PROVE n \in Places(x)
    BY MemberTypes DEF Places
  <2> QED
    BY <1>1, <2>1 DEF FirstKept, Places
<1> QED
  BY <1>1, <1>5, <1>6 DEF Departs, SameRest

LEMMA RemoveDeparts ==
  ASSUME NEW x, x \in StateType, QueuesOK(x), NEW v \in Urls,
         NEW y, y = Cache_entry_remove(x, v)
  PROVE  /\ Departs(x, y, v) /\ y \in StateType /\ y.conns = x.conns
         /\ y.entries[v] \in {x.entries[v], Nobody} /\ ~Cached(y, v)
<1>1. CASE ~Cached(x, v)
  <2>1. y = x
    BY <1>1 DEF Cache_entry_remove
  <2> QED
    BY <1>1, <2>1, DepartsSame
<1>2. CASE Cached(x, v)
  <2>1. PICK a : a = Dequeue(x, KeysOf(x, v))
    OBVIOUS
  <2>2. PICK b : b = Undelay(a, v)
    OBVIOUS
  <2>3. y = [b EXCEPT !.entries[v] = Nobody]
    BY <1>2, <2>1, <2>2 DEF Cache_entry_remove
  <2>4. /\ a \in StateType /\ SameRest(x, a) /\ a.DelayedQueue = x.DelayedQueue
        /\ Leaves(x, a, KeysOf(x, v))
    BY <2>1, DequeueFields
  <2>5. QueuesOK(a)
    <3>1. PICK f \in [Places(a) -> Places(x)] :
            \A i, j \in Places(a) : /\ a.ClientQueue[i] = x.ClientQueue[f[i]]
                                    /\ f[i] = f[j] => i = j
      BY <2>4 DEF Leaves, Embeds
    <3>2. \A n \in Places(a) : f[n] \in Places(x) /\ a.ClientQueue[n] = x.ClientQueue[f[n]]
      BY <3>1
    <3>3. \A m, n \in Places(x) : x.ClientQueue[m].key = x.ClientQueue[n].key => m = n
      BY DEF QueuesOK
    <3>4. \A m, n \in Places(a) : f[m] = f[n] => m = n
      BY <3>1
    <3>5. \A m, n \in Places(a) : a.ClientQueue[m].key = a.ClientQueue[n].key => m = n
      BY ONLY <3>2, <3>3, <3>4
    <3> QED
      BY <2>4, <3>2, <3>5 DEF QueuesOK, SameRest
  <2>6. Departs(x, a, v)
    BY <2>1, DequeueDeparts
  <2>7. Departs(a, b, v)
    BY <2>2, <2>4, <2>5, UndelayDeparts
  <2>8. b \in StateType /\ b.conns = x.conns
    <3>1. b \in StateType /\ SameRest(a, b)
      BY <2>2, <2>4, UndelayFields
    <3> QED
      BY <2>4, <3>1 DEF SameRest
  <2>9. PICK E : E = [b.entries EXCEPT ![v] = Nobody]
    OBVIOUS
  <2>10. b.entries \in [Urls -> Entry]
    BY <2>8, MemberTypes
  <2>11. E[v] = Nobody /\ \A w \in Urls \ {v} : E[w] = b.entries[w]
    BY <2>9, <2>10
  <2>12. y = [b EXCEPT !.entries = E]
    BY <2>3, <2>9
  <2>13. /\ y \in StateType /\ y.entries = E /\ y.ClientQueue = b.ClientQueue
         /\ y.DelayedQueue = b.DelayedQueue /\ y.idle = b.idle /\ y.conns = b.conns
         /\ y.shifted = b.shifted /\ y.level = b.level
    <3>1. E \in [Urls -> Entry]
      BY <2>9, <2>10, NobodyIs
    <3> QED
      BY <2>8, <2>12, <3>1 DEF StateType
  <2>14. Places(y) = Places(b) /\ Waits(y) = Waits(b)
    BY <2>13 DEF Places, Waits
  <2>15. FirstKept(b, y)
    <3>1. ASSUME NEW i \in Places(b), NEW n \in 1 .. i PROVE n \in Places(b)
      BY <2>8, MemberTypes DEF Places
    <3> QED
      BY <2>13, <2>14, <3>1 DEF FirstKept
  <2>16. y.entries[v] = Nobody /\ ~y.entries[v].GotData /\ ~Cached(y, v)
    BY <2>11, <2>13 DEF Cached, Nobody
  <2>17. Departs(b, y, v)
    BY <2>11, <2>13, <2>14, <2>15, <2>16 DEF Departs
  <2>18. y.conns = x.conns
    BY <2>8, <2>13
  <2> QED
    BY <2>4, <2>6, <2>7, <2>13, <2>16, <2>17, <2>18, DepartsChain
<1> QED
  BY <1>1, <1>2

LEMMA AbortDeparts ==
  ASSUME NEW x, x \in StateType, QueuesOK(x), NEW v \in Urls,
         NEW y, y = a_Capi_conn_abort_by_url(x, v)
  PROVE  Departs(x, y, v) /\ (FineAt(x, v) => FineAt(y, v))
<1>1. CASE v \notin x.conns
  <2>1. y = x
    BY <1>1 DEF a_Capi_conn_abort_by_url
  <2> QED
    BY <2>1, DepartsSame
<1>2. CASE v \in x.conns
  <2>1. PICK z : z = [x EXCEPT !.conns = @ \ {v}]
    OBVIOUS
  <2>2. y = Cache_entry_remove(z, v)
    BY <1>2, <2>1 DEF a_Capi_conn_abort_by_url
  <2>3. /\ z \in StateType /\ z.conns = x.conns \ {v} /\ z.entries = x.entries
        /\ z.ClientQueue = x.ClientQueue /\ z.DelayedQueue = x.DelayedQueue
        /\ z.idle = x.idle /\ z.shifted = x.shifted /\ z.level = x.level
        /\ z.closed = x.closed
    BY <2>1 DEF StateType
  <2>4. QueuesOK(z)
    BY <2>3 DEF QueuesOK, Places
  <2>5. Departs(x, z, v)
    BY <2>3, DepartsSame
  <2>6. /\ Departs(z, y, v) /\ y.entries[v] \in {z.entries[v], Nobody} /\ ~Cached(y, v)
    BY <2>2, <2>3, <2>4, RemoveDeparts
  <2>7. FineAt(x, v) => FineAt(y, v)
    BY <2>3, <2>6 DEF FineAt, Nobody
  <2> QED
    BY <2>5, <2>6, <2>7, DepartsChain
<1> QED
  BY <1>1, <1>2

\* In y there are clients of x, and client k at page v, who has no data.
Comes(x, y, v, k) ==
  \A n \in Places(y) : LET cl == y.ClientQueue[n]
                       IN  \/ \E m \in Places(x) : cl = x.ClientQueue[m]
                           \/ cl.key = k /\ cl.url = v /\ cl.BufSize = 0

\* From x to y client k comes, for page v.
Opened(x, y, v, k) ==
  /\ x.idle => y.idle
  /\ y.shifted = x.shifted /\ y.level = x.level
  /\ \A w \in Urls \ {v} : /\ y.entries[w] = x.entries[w]
                           /\ w \in y.conns <=> w \in x.conns
                           /\ w \in Waits(y) <=> w \in Waits(x)
  /\ v \in y.conns \/ (y.idle /\ v \in Waits(y))
  /\ y.entries[v].GotData => x.entries[v].GotData
  /\ FineAt(x, v) => FineAt(y, v)
  /\ Comes(x, y, v, k) /\ FirstKept(x, y)

\* A client is the last of the queue.
LEMMA EnqueueLast ==
  ASSUME NEW x, x \in StateType, NEW cl \in Client, NEW y,
         y.ClientQueue = Append(x.ClientQueue, cl)
  PROVE  /\ \A n \in Places(y) :
              y.ClientQueue[n] = cl \/ \E m \in Places(x) : y.ClientQueue[n] = x.ClientQueue[m]
         /\ FirstKept(x, y)
<1>1. PICK q : q = x.ClientQueue
  OBVIOUS
<1>2. q \in Seq(Client) /\ Len(q) \in Nat
  BY <1>1, MemberTypes
<1>3. PICK r : r = Append(q, cl)
  OBVIOUS
<1>4. /\ Len(r) = Len(q) + 1 /\ r[Len(q) + 1] = cl
      /\ \A n \in 1 .. Len(q) : r[n] = q[n]
  BY <1>2, <1>3
<1>5. y.ClientQueue = r /\ Places(y) = 1 .. Len(r) /\ Places(x) = 1 .. Len(q)
  BY <1>1, <1>3 DEF Places
<1>6. \A n \in 1 .. Len(r) : n = Len(q) + 1 \/ n \in 1 .. Len(q)
  BY <1>2, <1>4
<1>7. \A i \in 1 .. Len(q) : \A n \in 1 .. i : n \in 1 .. Len(q) /\ n \in 1 .. Len(r)
  BY <1>2, <1>4
<1>8. FirstKept(x, y)
  BY <1>1, <1>4, <1>5, <1>7 DEF FirstKept
<1> QED
  BY <1>1, <1>4, <1>5, <1>6, <1>8

\* Entry v, and no other, comes to DelayedQueue.
LEMMA DelayWaits ==
  ASSUME NEW x, x \in StateType, NEW v \in Urls, NEW y, y = Cache_delayed_process_queue(x, v)
  PROVE  /\ Waits(y) = Waits(x) \cup {v} /\ y.idle = TRUE
         /\ y.entries = x.entries /\ y.conns = x.conns /\ y.ClientQueue = x.ClientQueue
         /\ y.shifted = x.shifted /\ y.level = x.level
<1>1. PICK d : d = <<v, x.entries[v].id>>
  OBVIOUS
<1>2. PICK p : p = x.DelayedQueue
  OBVIOUS
<1>3. PICK q : q = IF Contains(p, d) THEN p ELSE Append(p, d)
  OBVIOUS
<1>4. y = [x EXCEPT !.DelayedQueue = q, !.idle = TRUE]
  BY <1>1, <1>2, <1>3 DEF Cache_delayed_process_queue
<1>5. /\ y.DelayedQueue = q /\ y.idle = TRUE
      /\ y.entries = x.entries /\ y.conns = x.conns /\ y.ClientQueue = x.ClientQueue
      /\ y.shifted = x.shifted /\ y.level = x.level
  BY <1>4 DEF StateType
<1>6. p \in Seq(Urls \X Nat) /\ Len(p) \in Nat /\ d[1] = v
  BY <1>1, <1>2, MemberTypes
<1>7. \A n \in 1 .. Len(p) : n \in 1 .. Len(q) /\ q[n] = p[n]
  <2>1. d \in Urls \X Nat
    <3>1. x.entries[v] \in Entry
      BY MemberTypes
    <3>2. x.entries[v].id \in Nat
      BY <3>1 DEF Entry
    <3> QED
      BY <1>1, <3>2
  <2>2. CASE q = p
    BY <2>2
  <2>3. CASE q = Append(p, d)
    <3>1. Len(q) = Len(p) + 1 /\ \A n \in 1 .. Len(p) : q[n] = p[n]
      BY <1>6, <2>1, <2>3
    <3> QED
      BY <1>6, <3>1
  <2> QED
    BY <1>3, <2>2, <2>3
<1>8. \E n \in 1 .. Len(q) : q[n] = d
  <2>1. CASE Contains(p, d)
    BY <1>3, <1>6, <2>1 DEF Contains
  <2>2. CASE ~Contains(p, d)
    <3>1. q = Append(p, d)
      BY <1>3, <2>2
    <3>2. Len(q) = Len(p) + 1 /\ q[Len(p) + 1] = d
      BY <1>6, <3>1
    <3>3. Len(p) + 1 \in 1 .. Len(q)
      BY <1>6, <3>2
    <3> QED
      BY <3>2, <3>3
  <2> QED
    BY <2>1, <2>2
<1>9. \A n \in 1 .. Len(q) : q[n] = d \/ \E m \in 1 .. Len(p) : q[n] = p[m]
  <2>1. CASE q = p
    BY <2>1
  <2>2. CASE q = Append(p, d)
    <3>1. /\ Len(q) = Len(p) + 1 /\ q[Len(p) + 1] = d
          /\ \A n \in 1 .. Len(p) : q[n] = p[n]
      BY <1>6, <2>2
    <3>2. \A n \in 1 .. Len(q) : n = Len(p) + 1 \/ n \in 1 .. Len(p)
      BY <1>6, <3>1
    <3> QED
      BY <3>1, <3>2
  <2> QED
    BY <1>3, <2>1, <2>2
<1>10. Waits(y) = {q[n][1] : n \in 1 .. Len(q)} /\ Waits(x) = {p[n][1] : n \in 1 .. Len(p)}
  BY <1>2, <1>5 DEF Waits
<1>11. \A w : w \in Waits(y) <=> w \in Waits(x) \/ w = v
  <2>1. ASSUME NEW w \in Waits(y) PROVE w \in Waits(x) \/ w = v
    BY <1>6, <1>9, <1>10
  <2>2. ASSUME NEW w \in Waits(x) PROVE w \in Waits(y)
    BY <1>7, <1>10
  <2>3. v \in Waits(y)
    BY <1>6, <1>8, <1>10
  <2> QED
    BY <2>1, <2>2, <2>3
<1> QED
  BY <1>5, <1>11

LEMMA OpenOpened ==
  ASSUME NEW x, Sound(x, {}, {}), NEW k \in Keys, ~Has(x, k), NEW v \in Urls,
         NEW root \in BOOLEAN, NEW reload \in BOOLEAN,
         NEW y, y = a_Cache_open_url(x, k, v, root, reload)
  PROVE  Opened(x, y, v, k)
<1>0. x \in StateType /\ QueuesOK(x)
  BY DEF Sound
<1> DEFINE asks == reload \/ ~Cached(x, v)
<1>1. PICK a : a = a_Capi_conn_abort_by_url(x, v)
  OBVIOUS
<1>2. PICK o : o = IF asks THEN [a EXCEPT !.conns = @ \cup {v}] ELSE x
  OBVIOUS
<1>3. PICK b : b = IF reload THEN Cache_entry_remove(o, v) ELSE o
  OBVIOUS
<1>4. y = IF Cached(b, v)
          THEN Cache_delayed_process_queue(Cache_client_enqueue(b, k, v, root), v)
          ELSE Cache_client_enqueue(Cache_entry_add(b, v), k, v, root)
  BY <1>1, <1>2, <1>3 DEF a_Cache_open_url
<1>5. /\ Departs(x, b, v) /\ b \in StateType
      /\ asks => v \in b.conns /\ ~Cached(b, v)
      /\ ~asks => b = x
  <2>1. CASE ~asks
    <3>1. b = x
      BY <1>2, <1>3, <2>1
    <3> QED
      BY <1>0, <2>1, <3>1, DepartsSame
  <2>2. CASE asks
    <3>1. /\ Sound(a, {}, {})
          /\ v \in x.conns => ~Cached(a, v)
          /\ v \notin x.conns => a = x
      BY <1>1, AbortSound
    <3>2. Departs(x, a, v) /\ a \in StateType /\ QueuesOK(a)
      BY <1>0, <1>1, <3>1, AbortDeparts DEF Sound
    <3>3. o = [a EXCEPT !.conns = @ \cup {v}]
      BY <1>2, <2>2
    <3>4. /\ o \in StateType /\ o.conns = a.conns \cup {v} /\ o.entries = a.entries
          /\ o.ClientQueue = a.ClientQueue /\ o.DelayedQueue = a.DelayedQueue
          /\ o.idle = a.idle /\ o.shifted = a.shifted /\ o.level = a.level
          /\ o.closed = a.closed
      BY <3>2, <3>3 DEF StateType
    <3>5. QueuesOK(o)
      BY <3>2, <3>4 DEF QueuesOK, Places
    <3>6. Departs(x, o, v)
      <4>1. Departs(a, o, v)
        BY <3>2, <3>4, DepartsSame
      <4> QED
        BY <1>0, <3>2, <4>1, DepartsChain
    <3>7. CASE reload
      <4>1. b = Cache_entry_remove(o, v)
        BY <1>3, <3>7
      <4>2. Departs(o, b, v) /\ b \in StateType /\ b.conns = o.conns /\ ~Cached(b, v)
        BY <3>4, <3>5, <4>1, RemoveDeparts
      <4>3. Departs(x, b, v)
        BY <1>0, <3>6, <4>2, DepartsChain
      <4> QED
        BY <2>2, <3>4, <4>2, <4>3
    <3>8. CASE ~reload
      <4>1. b = o /\ ~Cached(x, v)
        BY <1>3, <2>2, <3>8
      <4>2. ~Cached(o, v)
        BY <3>1, <3>4, <4>1 DEF Cached
      <4> QED
        BY <2>2, <3>4, <3>6, <4>1, <4>2
    <3> QED
      BY <3>7, <3>8
  <2> QED
    BY <2>1, <2>2
<1>6. x.entries[v] \in Entry /\ b.entries \in [Urls -> Entry]
  BY <1>0, <1>5, MemberTypes
<1>7. ASSUME NEW z, NEW cl \in Client, z.ClientQueue = Append(b.ClientQueue, cl),
             cl.key = k, cl.url = v, cl.BufSize = 0
      PROVE  Comes(x, z, v, k) /\ FirstKept(x, z)
  <2>1. /\ \A n \in Places(z) :
             z.ClientQueue[n] = cl \/ \E m \in Places(b) : z.ClientQueue[n] = b.ClientQueue[m]
        /\ FirstKept(b, z)
    BY <1>5, <1>7, EnqueueLast
  <2>2. \A n \in Places(b) : \E m \in Places(x) : b.ClientQueue[n] = x.ClientQueue[m]
    BY <1>5 DEF Departs
  <2>3. \A j : Has(x, j) /\ Has(z, j) => Has(b, j)
    BY <1>7, <2>1 DEF Has
  <2>4. FirstKept(x, z)
    BY <1>0, <1>5, <2>1, <2>3, FirstKeptChain DEF Departs
  <2> QED
    BY <1>7, <2>1, <2>2, <2>4 DEF Comes
<1>8. CASE Cached(b, v)
  <2>1. b = x
    BY <1>5, <1>8
  <2>2. PICK z : z = Cache_client_enqueue(x, k, v, root)
    OBVIOUS
  <2>3. PICK cl : cl = [key |-> k, url |-> v, id |-> x.entries[v].id, root |-> root,
                        BufSize |-> 0]
    OBVIOUS
  <2>4. cl \in Client /\ cl.key = k /\ cl.url = v /\ cl.BufSize = 0
    <3>1. x.entries[v].id \in Nat
      BY <1>6 DEF Entry
    <3> QED
      BY <2>3, <3>1 DEF Client
  <2>5. z = [x EXCEPT !.ClientQueue = Append(@, cl)]
    BY <2>2, <2>3 DEF Cache_client_enqueue
  <2>6. Append(x.ClientQueue, cl) \in Seq(Client)
    BY <1>0, <2>4, MemberTypes
  <2>7. /\ z \in StateType /\ z.ClientQueue = Append(x.ClientQueue, cl)
        /\ z.entries = x.entries /\ z.conns = x.conns /\ z.DelayedQueue = x.DelayedQueue
        /\ z.shifted = x.shifted /\ z.level = x.level
    BY <1>0, <2>5, <2>6 DEF StateType
  <2>8. y = Cache_delayed_process_queue(z, v)
    BY <1>4, <1>8, <2>1, <2>2
  <2>9. /\ Waits(y) = Waits(z) \cup {v} /\ y.idle = TRUE
        /\ y.entries = z.entries /\ y.conns = z.conns /\ y.ClientQueue = z.ClientQueue
        /\ y.shifted = z.shifted /\ y.level = z.level
    BY <2>7, <2>8, DelayWaits
  <2>10. Waits(z) = Waits(x)
    BY <2>7 DEF Waits
  <2>11. FineAt(x, v) => FineAt(y, v)
    BY <2>7, <2>9 DEF FineAt, Cached
  <2>12. y.ClientQueue = Append(b.ClientQueue, cl)
    BY <2>1, <2>7, <2>9
  <2>13. Comes(x, y, v, k) /\ FirstKept(x, y)
    BY <1>7, <2>4, <2>12
  <2>14. /\ \A w \in Urls \ {v} : /\ y.entries[w] = x.entries[w]
                                  /\ w \in y.conns <=> w \in x.conns
                                  /\ w \in Waits(y) <=> w \in Waits(x)
         /\ v \in Waits(y) /\ y.entries[v] = x.entries[v]
         /\ y.shifted = x.shifted /\ y.level = x.level
    BY <2>7, <2>9, <2>10
  <2> QED
    BY <2>9, <2>11, <2>13, <2>14 DEF Opened
<1>9. CASE ~Cached(b, v)
  <2>1. asks /\ v \in b.conns
    BY <1>5, <1>9
  <2>2. PICK z : z = Cache_entry_add(b, v)
    OBVIOUS
  <2>3. PICK id \in Nat \ {0} : z = [b EXCEPT !.entries[v] = [Nobody EXCEPT !.id = id]]
    BY <1>5, <1>9, <2>2, FreshEntry DEF Cache_entry_add
  <2>4. PICK e : e = [Nobody EXCEPT !.id = id]
    OBVIOUS
  <2>5. e.id = id /\ ~e.GotData /\ ~e.header
    BY <2>4 DEF Nobody
  <2>6. PICK E : E = [b.entries EXCEPT ![v] = e]
    OBVIOUS
  <2>7. E[v] = e /\ \A w \in Urls \ {v} : E[w] = b.entries[w]
    BY <1>6, <2>6
  <2>8. z = [b EXCEPT !.entries = E]
    BY <2>3, <2>4, <2>6
  <2>9. PICK cl : cl = [key |-> k, url |-> v, id |-> z.entries[v].id, root |-> root,
                        BufSize |-> 0]
    OBVIOUS
  <2>10. z.entries = E /\ z.ClientQueue = b.ClientQueue
    BY <1>5, <2>8 DEF StateType
  <2>11. cl \in Client /\ cl.key = k /\ cl.url = v /\ cl.BufSize = 0
    BY <2>3, <2>5, <2>7, <2>9, <2>10 DEF Client
  <2>12. y = [z EXCEPT !.ClientQueue = Append(@, cl)]
    BY <1>4, <1>9, <2>2, <2>9 DEF Cache_client_enqueue
  <2>13. /\ y.entries = E /\ y.conns = b.conns /\ y.DelayedQueue = b.DelayedQueue
         /\ y.idle = b.idle /\ y.shifted = b.shifted /\ y.level = b.level
         /\ y.ClientQueue = Append(b.ClientQueue, cl)
    BY <1>5, <2>8, <2>10, <2>12 DEF StateType
  <2>14. Waits(y) = Waits(b)
    BY <2>13 DEF Waits
  <2>15. FineAt(y, v) /\ ~y.entries[v].GotData
    BY <2>1, <2>5, <2>7, <2>13 DEF FineAt, Cached
  <2>16. \A w \in Urls \ {v} : /\ y.entries[w] = x.entries[w]
                               /\ w \in y.conns <=> w \in x.conns
                               /\ w \in Waits(y) <=> w \in Waits(x)
    BY <1>5, <2>7, <2>13, <2>14 DEF Departs
  <2>17. y.idle = x.idle /\ y.shifted = x.shifted /\ y.level = x.level
    BY <1>5, <2>13 DEF Departs
  <2>18. Comes(x, y, v, k) /\ FirstKept(x, y)
    BY <1>7, <2>11, <2>13
  <2> QED
    BY <2>1, <2>13, <2>15, <2>16, <2>17, <2>18 DEF Opened
<1> QED
  BY <1>8, <1>9

\* What serves the clients of a page.
SameCare(x, y) ==
  /\ y.conns = x.conns /\ y.idle = x.idle /\ y.shifted = x.shifted
  /\ y.DelayedQueue = x.DelayedQueue
  /\ \A v \in Urls : LET e == x.entries[v]
                         f == y.entries[v]
                     IN  /\ f.id = e.id /\ f.header = e.header /\ f.typed = e.typed
                         /\ f.GotData = e.GotData

LEMMA CareKept ==
  ASSUME NEW x, NEW y, y \in StateType, SameCare(x, y)
  PROVE  /\ Waits(y) = Waits(x)
         /\ \A D : \A v \in Urls : Heeded(y, v, D) <=> Heeded(x, v, D)
         /\ Fine(x) => Fine(y)
         /\ \A U, D : y.ClientQueue = x.ClientQueue /\ AllHeeded(x, U, D)
                        => AllHeeded(y, U, D)
<1>1. Waits(y) = Waits(x)
  BY DEF SameCare, Waits
<1>2. \A D : \A v \in Urls : Heeded(y, v, D) <=> Heeded(x, v, D)
  BY <1>1 DEF SameCare, Heeded
<1>3. Fine(x) => Fine(y)
  BY DEF SameCare, Fine, FineAt, Cached
<1>4. \A n \in Places(y) : y.ClientQueue[n].url \in Urls
  BY MemberTypes
<1>5. \A U, D : y.ClientQueue = x.ClientQueue /\ AllHeeded(x, U, D) => AllHeeded(y, U, D)
  BY <1>2, <1>4 DEF AllHeeded, Places
<1> QED
  BY <1>1, <1>2, <1>3, <1>5

\* The clients of y are clients of x.
Fewer(x, y) == \A n \in Places(y) : \E m \in Places(x) : y.ClientQueue[n] = x.ClientQueue[m]

LEMMA FewerHeeded ==
  ASSUME NEW x, NEW y, NEW U, NEW D, x \in StateType, y \in StateType, Fewer(x, y),
         \A w \in Urls \ U : Heeded(x, w, D) => Heeded(y, w, D), AllHeeded(x, U, D)
  PROVE  AllHeeded(y, U, D)
<1> SUFFICES ASSUME NEW n \in Places(y), y.ClientQueue[n].url \notin U
             PROVE  Heeded(y, y.ClientQueue[n].url, D)
  BY DEF AllHeeded
<1>1. PICK m \in Places(x) : y.ClientQueue[n] = x.ClientQueue[m]
  BY DEF Fewer
<1>2. y.ClientQueue[n].url \in Urls
  BY MemberTypes
<1> QED
  BY <1>1, <1>2 DEF AllHeeded

LEMMA DepartsHeeded ==
  ASSUME NEW x, NEW y, NEW v, NEW D, x \in StateType, y \in StateType, Departs(x, y, v)
  PROVE  /\ \A w \in Urls \ {v} : Heeded(x, w, D) => Heeded(y, w, D)
         /\ Fine(x) /\ FineAt(y, v) => Fine(y)
         /\ Fewer(x, y)
         /\ AllHeeded(x, {}, D) => AllHeeded(y, {v}, D)
<1>1. \A w \in Urls \ {v} : Heeded(x, w, D) => Heeded(y, w, D)
  BY DEF Departs, Heeded
<1>2. Fine(x) /\ FineAt(y, v) => Fine(y)
  BY DEF Departs, Fine, FineAt, Cached
<1>3. Fewer(x, y)
  BY DEF Departs, Fewer
<1>4. AllHeeded(x, {}, D) => AllHeeded(x, {v}, D)
  BY DEF AllHeeded
<1> QED
  BY <1>1, <1>2, <1>3, <1>4, FewerHeeded

LEMMA OpenedHeeded ==
  ASSUME NEW x, NEW y, NEW v \in Urls, NEW k, NEW U, NEW D, x \in StateType, y \in StateType,
         Opened(x, y, v, k)
  PROVE  /\ Fine(x) => Fine(y)
         /\ AllHeeded(x, U, D) => AllHeeded(y, U, D)
<1>1. Fine(x) => Fine(y)
  <2>1. \A w \in Urls \ {v} : FineAt(x, w) => FineAt(y, w)
    BY DEF Opened, FineAt, Cached
  <2> QED
    BY <2>1 DEF Opened, Fine
<1>2. \A w \in Urls : Heeded(x, w, D) \/ w = v => Heeded(y, w, D)
  BY DEF Opened, Heeded
<1>3. ASSUME AllHeeded(x, U, D), NEW n \in Places(y), y.ClientQueue[n].url \notin U
      PROVE  Heeded(y, y.ClientQueue[n].url, D)
  <2>1. y.ClientQueue[n].url \in Urls
    BY MemberTypes
  <2>2. \/ \E m \in Places(x) : y.ClientQueue[n] = x.ClientQueue[m]
        \/ y.ClientQueue[n].url = v
    BY DEF Opened, Comes
  <2> QED
    BY <1>2, <1>3, <2>1, <2>2 DEF AllHeeded
<1>4. AllHeeded(x, U, D) => AllHeeded(y, U, D)
  BY <1>3 DEF AllHeeded
<1> QED
  BY <1>1, <1>4

\* From x to y clients other than k may leave, and entries be made again.
Others(x, y, k) ==
  /\ \A j \in Keys \ {k} : y.level[j] = x.level[j]
  /\ \A w \in Urls : y.entries[w].GotData => x.entries[w].GotData
  /\ \A n \in Places(y) : y.ClientQueue[n].key # k =>
       \E m \in Places(x) : y.ClientQueue[n] = x.ClientQueue[m]

LEMMA OthersChain ==
  ASSUME NEW x, NEW y, NEW z, NEW k, Others(x, y, k), Others(y, z, k)
  PROVE  Others(x, z, k)
<1>1. \A n \in Places(z) : z.ClientQueue[n].key # k =>
        \E m \in Places(x) : z.ClientQueue[n] = x.ClientQueue[m]
  <2>1. ASSUME NEW n \in Places(z), z.ClientQueue[n].key # k
        PROVE  \E m \in Places(x) : z.ClientQueue[n] = x.ClientQueue[m]
    <3>1. PICK m \in Places(y) : z.ClientQueue[n] = y.ClientQueue[m]
      BY <2>1 DEF Others
    <3> QED
      BY <2>1, <3>1 DEF Others
  <2> QED
    BY <2>1
<1> QED
  BY <1>1 DEF Others

\* Client k is at other pages than u, if at all, and has no data.
Elsewhere(y, u, k) ==
  \A n \in Places(y) : y.ClientQueue[n].key = k =>
    y.ClientQueue[n].url # u /\ y.ClientQueue[n].BufSize = 0

\* Client cl, who has left, may come to another page, and u may lose clients before
\* position i.
Redirected(x, y, u, cl, i) ==
  /\ Others(x, y, cl.key)
  /\ \/ ~Has(y, cl.key) /\ Waits(y) \subseteq Waits(x)
     \/ /\ cl.root /\ x.entries[u].kind \in CA_Redirect
        /\ x.level[cl.key] < RedirectLimit /\ y.level[cl.key] = x.level[cl.key]
        /\ Elsewhere(y, u, cl.key)
        /\ \E v \in Urls : Waits(y) \subseteq Waits(x) \cup {v}
  /\ x.shifted \subseteq y.shifted
  /\ u \in y.shifted \/ \A n \in 1 .. i - 1 : /\ n \in Places(y)
                                              /\ y.ClientQueue[n] = x.ClientQueue[n]

LEMMA RedirectHeeded ==
  ASSUME NEW x, Sound(x, {}, {}), NEW u \in Urls, NEW cl \in Client,
         NEW k \in Keys, k = cl.key, ~Has(x, k), NEW i \in Nat \ {0},
         \A n \in 1 .. i - 1 : n \in Places(x),
         Fine(x), NEW D, AllHeeded(x, {u}, D), NEW y, y = Cache_redirect(x, u, cl, i)
  PROVE  Fine(y) /\ AllHeeded(y, {u}, D) /\ Redirected(x, y, u, cl, i)
<1> DEFINE e == x.entries[u]
<1>1. x \in StateType /\ PageOK(e, u)
  BY DEF Sound
<1>2. \A n \in Places(x) : x.ClientQueue[n].key # k
  BY DEF Has
<1>3. ASSUME y = x PROVE Fine(y) /\ AllHeeded(y, {u}, D) /\ Redirected(x, y, u, cl, i)
  BY <1>3 DEF Redirected, Others
<1>4. CASE e.kind \notin CA_Redirect
  <2>1. y = x
    BY <1>4 DEF Cache_redirect
  <2> QED
    BY <1>3, <2>1
<1>5. CASE e.kind \in CA_Redirect /\ (e.kind = "loop" \/ x.level[k] >= RedirectLimit)
  <2>1. PICK f : f = [e EXCEPT !.kind = "loop"]
    OBVIOUS
  <2>2. PICK E : E = [x.entries EXCEPT ![u] = f]
    OBVIOUS
  <2>3. PICK l : l = [x.level EXCEPT ![k] = 0]
    OBVIOUS
  <2>4. y = [x EXCEPT !.entries = E, !.level = l]
    <3>1. y = [x EXCEPT !.entries[u].kind = "loop", !.level[cl.key] = 0]
      BY <1>5 DEF Cache_redirect
    <3> QED
      BY <2>1, <2>2, <2>3, <3>1
  <2>5. /\ y.entries = E /\ y.level = l /\ y.ClientQueue = x.ClientQueue
        /\ y.conns = x.conns /\ y.idle = x.idle /\ y.shifted = x.shifted
        /\ y.DelayedQueue = x.DelayedQueue
    BY <1>1, <2>4 DEF StateType
  <2>6. x.entries \in [Urls -> Entry] /\ e \in Entry /\ x.level \in [Keys -> 0 .. RedirectLimit]
    BY <1>1, MemberTypes
  <2>7. /\ f.id = e.id /\ f.header = e.header /\ f.typed = e.typed /\ f.GotData = e.GotData
    BY <2>1, <2>6 DEF Entry
  <2>8. E[u] = f /\ \A v \in Urls \ {u} : E[v] = x.entries[v]
    BY <2>2, <2>6
  <2>9. SameCare(x, y)
    BY <2>5, <2>7, <2>8 DEF SameCare
  <2>10. y \in StateType
    BY RedirectSound DEF Sound
  <2>11. Waits(y) = Waits(x) /\ Fine(y) /\ AllHeeded(y, {u}, D)
    BY <2>5, <2>9, <2>10, CareKept
  <2>12. Places(y) = Places(x)
    BY <2>5 DEF Places
  <2>13. \A j \in Keys \ {k} : l[j] = x.level[j]
    BY <2>3, <2>6
  <2>14. \A w \in Urls : y.entries[w].GotData => x.entries[w].GotData
    BY <2>9 DEF SameCare
  <2>15. ~Has(y, k)
    BY <2>5, <2>12 DEF Has
  <2> QED
    BY <2>5, <2>11, <2>12, <2>13, <2>14, <2>15 DEF Redirected, Others
<1>6. CASE /\ e.kind \in CA_Redirect /\ ~(e.kind = "loop" \/ x.level[k] >= RedirectLimit)
           /\ ~cl.root
  <2>1. y = x
    BY <1>6 DEF Cache_redirect
  <2> QED
    BY <1>3, <2>1
<1>7. CASE /\ e.kind \in CA_Redirect /\ ~(e.kind = "loop" \/ x.level[k] >= RedirectLimit)
           /\ cl.root
  <2>1. PICK b : b = [x EXCEPT !.closed = @ \ {k}, !.got[k] = 0]
    OBVIOUS
  <2>2. PICK v : v = e.to
    OBVIOUS
  <2>3. PICK reload \in BOOLEAN : reload = (e.kind = "found")
    OBVIOUS
  <2>4. PICK a : a = a_Cache_open_url(b, k, v, TRUE, reload)
    OBVIOUS
  <2>5. PICK s : s = IF \E n \in 1 .. i - 1 : x.ClientQueue[n].key \notin KeysIn(a)
                     THEN a.shifted \cup {u} ELSE a.shifted
    OBVIOUS
  <2>6. y = [a EXCEPT !.shifted = s]
    <3>1. a = Nav_open_url(x, k, e.to, e.kind = "found")
      BY <2>1, <2>2, <2>3, <2>4 DEF Nav_open_url
    <3>2. y = [a EXCEPT !.shifted =
                 IF \E n \in 1 .. i - 1 : x.ClientQueue[n].key \notin KeysIn(a)
                 THEN @ \cup {u} ELSE @]
      BY <1>7, <3>1 DEF Cache_redirect
    <3> QED
      BY <2>5, <3>2
  <2>7. v \in Urls \ {u}
    BY <1>1, <1>7, <2>2 DEF PageOK
  <2>8. PICK g : g = [x.got EXCEPT ![k] = 0]
    OBVIOUS
  <2>9. b = [x EXCEPT !.closed = @ \ {k}, !.got = g]
    BY <2>1, <2>8
  <2>10. g \in [Keys -> 0 .. MaxData] /\ \A j \in Keys \ {k} : g[j] = x.got[j]
    <3>1. x.got \in [Keys -> 0 .. MaxData] /\ 0 \in 0 .. MaxData
      BY <1>1, MemberTypes, CacheAssumption
    <3> QED
      BY <2>8, <3>1
  <2>11. /\ b \in StateType /\ b.ClientQueue = x.ClientQueue /\ b.entries = x.entries
         /\ b.DelayedQueue = x.DelayedQueue /\ b.conns = x.conns /\ b.level = x.level
         /\ b.closed = x.closed \ {k} /\ b.got = g /\ b.idle = x.idle
         /\ b.shifted = x.shifted
    <3>1. x.closed \in SUBSET Keys
      BY <1>1, MemberTypes
    <3> QED
      BY <1>1, <2>9, <2>10, <3>1 DEF StateType
  <2>12. TalksTo(x, b, k)
    BY <2>10, <2>11 DEF TalksTo
  <2>13. Sound(b, {}, {}) /\ ~Has(b, k)
    BY <2>12, TalkSound
  <2>14. Opened(b, a, v, k)
    BY <2>4, <2>7, <2>13, OpenOpened
  <2>15. x.level[k] < RedirectLimit /\ k \notin b.closed
    <3>1. x.level \in [Keys -> 0 .. RedirectLimit]
      BY <1>1, MemberTypes
    <3> QED
      BY <1>7, <2>11, <3>1, CacheAssumption
  <2>16. a \in StateType
    <3>1. b.level[k] < RedirectLimit
      BY <2>11, <2>15
    <3>2. Sound(a, {}, {})
      BY <2>4, <2>7, <2>13, <2>15, <3>1, OpenSound
    <3> QED
      BY <3>2 DEF Sound
  <2>17. SameCare(x, b)
    BY <2>11 DEF SameCare
  <2>18. Fine(b) /\ AllHeeded(b, {u}, D) /\ Waits(b) = Waits(x)
    BY <2>11, <2>17, CareKept
  <2>19. Fine(a) /\ AllHeeded(a, {u}, D)
    BY <2>7, <2>11, <2>14, <2>16, <2>18, OpenedHeeded
  <2>20. /\ y \in StateType /\ y.ClientQueue = a.ClientQueue /\ y.entries = a.entries
         /\ y.DelayedQueue = a.DelayedQueue /\ y.conns = a.conns /\ y.level = a.level
         /\ y.idle = a.idle /\ y.shifted = s
    <3>1. a.shifted \in SUBSET Urls
      BY <2>16 DEF StateType
    <3>2. s \in SUBSET Urls
      BY <2>5, <3>1
    <3> QED
      BY <2>6, <2>16, <3>2 DEF StateType
  <2>21. a.shifted \subseteq s
    BY <2>5
  <2>22. Fine(y)
    BY <2>19, <2>20 DEF Fine, FineAt, Cached
  <2>23. Waits(y) = Waits(a) /\ Places(y) = Places(a)
    BY <2>20 DEF Waits, Places
  <2>24. AllHeeded(y, {u}, D)
    BY <2>19, <2>20, <2>21, <2>23 DEF AllHeeded, Heeded
  <2>25. Waits(y) \subseteq Waits(x) \cup {v}
    <3>1. \A n \in 1 .. Len(y.DelayedQueue) : y.DelayedQueue[n][1] \in Urls
      BY <2>20, MemberTypes
    <3>2. Waits(y) \subseteq Urls
      BY <3>1 DEF Waits
    <3> QED
      BY <2>14, <2>18, <2>23, <3>2 DEF Opened
  <2>26. Places(b) = Places(x)
    BY <2>11 DEF Places
  <2>27. Others(x, y, k)
    <3>1. \A n \in Places(y) : y.ClientQueue[n].key # k =>
            \E m \in Places(x) : y.ClientQueue[n] = x.ClientQueue[m]
      BY <2>11, <2>14, <2>20, <2>23, <2>26 DEF Opened, Comes
    <3>2. y.level = x.level
      BY <2>11, <2>14, <2>20 DEF Opened
    <3>3. \A w \in Urls : y.entries[w].GotData => x.entries[w].GotData
      BY <2>7, <2>11, <2>14, <2>20 DEF Opened
    <3> QED
      BY <3>1, <3>2, <3>3 DEF Others
  <2>28. Elsewhere(y, u, k) /\ y.level[k] = x.level[k]
    BY <1>2, <2>7, <2>11, <2>14, <2>20, <2>23, <2>26 DEF Opened, Comes, Elsewhere
  <2>29. x.shifted \subseteq y.shifted
    BY <2>11, <2>14, <2>20, <2>21 DEF Opened
  <2>30. ASSUME u \notin y.shifted
         PROVE  \A n \in 1 .. i - 1 : n \in Places(y) /\ y.ClientQueue[n] = x.ClientQueue[n]
    <3>1. \A n \in 1 .. i - 1 : x.ClientQueue[n].key \in KeysIn(a)
      BY <2>5, <2>20, <2>30
    <3>2. \A n \in 1 .. i - 1 : Has(a, b.ClientQueue[n].key)
      BY <2>11, <2>16, <3>1, KeysAre
    <3>3. CASE i = 1
      BY <3>3
    <3>4. CASE i # 1
      <4>1. i - 1 \in 1 .. i - 1
        BY <3>4
      <4>2. i - 1 \in Places(b)
        BY <2>26, <4>1
      <4>3. \A n \in 1 .. i - 1 : n \in Places(a) /\ a.ClientQueue[n] = b.ClientQueue[n]
        BY <2>14, <3>2, <4>2 DEF Opened, FirstKept
      <4> QED
        BY <2>11, <2>20, <2>23, <4>3
    <3> QED
      BY <3>3, <3>4
  <2> QED
    BY <1>7, <2>7, <2>15, <2>22, <2>24, <2>25, <2>27, <2>28, <2>29, <2>30 DEF Redirected
<1> QED
  BY <1>4, <1>5, <1>6, <1>7

LEMMA FeedFields ==
  ASSUME NEW x, x \in StateType, NEW i \in Places(x), NEW u, NEW y, y = Feed(x, u, i)
  PROVE  /\ SameCare(x, y) /\ y.level = x.level /\ y.entries = x.entries
         /\ Places(y) = Places(x)
         /\ \A n \in Places(x) : n # i => y.ClientQueue[n] = x.ClientQueue[n]
         /\ y.ClientQueue[i].key = x.ClientQueue[i].key
         /\ y.ClientQueue[i].url = x.ClientQueue[i].url
<1>1. PICK q : q = x.ClientQueue
  OBVIOUS
<1>2. PICK cl : cl = [q[i] EXCEPT !.BufSize = x.entries[u].data]
  OBVIOUS
<1>3. PICK r : r = [q EXCEPT ![i] = cl]
  OBVIOUS
<1>4. PICK g : g = [x.got EXCEPT ![q[i].key] = x.entries[u].data]
  OBVIOUS
<1>5. y = [x EXCEPT !.ClientQueue = r, !.got = g]
  BY <1>1, <1>2, <1>3, <1>4 DEF Feed
<1>6. q \in Seq(Client) /\ Len(q) \in Nat /\ i \in 1 .. Len(q) /\ q[i] \in Client
  BY <1>1, MemberTypes DEF Places
<1>7. cl.key = q[i].key /\ cl.url = q[i].url
  BY <1>2, <1>6 DEF Client
<1>8. /\ r \in [1 .. Len(q) -> Client \cup {cl}] /\ r[i] = cl
      /\ \A n \in 1 .. Len(q) : n # i => r[n] = q[n]
  BY <1>3, <1>6
<1>9. Len(r) = Len(q)
  BY <1>3, <1>6
<1>10. /\ y.ClientQueue = r /\ y.entries = x.entries /\ y.level = x.level
       /\ y.conns = x.conns /\ y.idle = x.idle /\ y.shifted = x.shifted
       /\ y.DelayedQueue = x.DelayedQueue
  BY <1>5 DEF StateType
<1>11. SameCare(x, y)
  BY <1>10 DEF SameCare
<1> QED
  BY <1>1, <1>7, <1>8, <1>9, <1>10, <1>11 DEF Places

\* What a client still may do to DelayedQueue: a client at the end of a page may be
\* redirected while its level allows it.
Token(x, k, j) ==
  \E n \in Places(x) : LET cl == x.ClientQueue[n]
                       IN  /\ cl.key = k /\ x.entries[cl.url].GotData
                           /\ j > x.level[k] + IF cl.BufSize = 0 THEN 1 ELSE 0

Tokens(x) == {t \in Keys \X (1 .. RedirectLimit) : Token(x, t[1], t[2])}

\* How long DelayedQueue may still be, but for u.
Weight(x, u) == Cardinality(Waits(x) \ {u}) + Cardinality(Tokens(x))

LEMMA WaitsFinite ==
  ASSUME NEW x, x \in StateType
  PROVE  Waits(x) \subseteq Urls /\ IsFiniteSet(Waits(x))
<1>1. Waits(x) \subseteq Urls
  BY MemberTypes DEF Waits
<1> QED
  BY <1>1, CacheAssumption, FS_Subset

LEMMA TokensFinite ==
  ASSUME NEW x
  PROVE  /\ IsFiniteSet(Tokens(x))
         /\ Cardinality(Tokens(x)) <= RedirectLimit * Cardinality(Keys)
<1> DEFINE L == 1 .. RedirectLimit
<1>1. RedirectLimit \in Nat
  BY CacheAssumption
<1>2. IsFiniteSet(L) /\ Cardinality(L) = RedirectLimit
  BY <1>1, FS_Interval
<1>3. IsFiniteSet(Keys) /\ Cardinality(Keys) \in Nat
  BY CacheAssumption, FS_CardinalityType
<1> HIDE DEF L
<1>4. IsFiniteSet(Keys \X L) /\ Cardinality(Keys \X L) = Cardinality(Keys) * Cardinality(L)
  BY <1>2, <1>3, FS_Product
<1>5. Tokens(x) \in SUBSET (Keys \X L)
  BY DEF Tokens, L
<1>6. IsFiniteSet(Tokens(x)) /\ Cardinality(Tokens(x)) <= Cardinality(Keys \X L)
  BY <1>4, <1>5, FS_Subset
<1>7. \A m, n \in Nat : m * n = n * m
  OBVIOUS
<1> QED
  BY <1>1, <1>2, <1>3, <1>4, <1>6, <1>7

LEMMA WeightType ==
  ASSUME NEW x, x \in StateType, NEW u
  PROVE  /\ Weight(x, u) \in Nat
         /\ IsFiniteSet(Waits(x) \ {u}) /\ Cardinality(Waits(x) \ {u}) \in Nat
         /\ IsFiniteSet(Tokens(x)) /\ Cardinality(Tokens(x)) \in Nat
<1>1. IsFiniteSet(Waits(x) \ {u})
  BY WaitsFinite, FS_Subset
<1>2. IsFiniteSet(Tokens(x))
  BY TokensFinite
<1> QED
  BY <1>1, <1>2, FS_CardinalityType DEF Weight

\* An entry comes to DelayedQueue when somebody uses up what allows it.
LEMMA Lighter ==
  ASSUME NEW x, x \in StateType, NEW y, y \in StateType, NEW u, Tokens(y) \subseteq Tokens(x),
         \/ Waits(y) \ {u} \subseteq Waits(x) \ {u}
         \/ /\ \E v : Waits(y) \subseteq Waits(x) \cup {v}
            /\ \E t \in Tokens(x) : t \notin Tokens(y)
  PROVE  Weight(y, u) <= Weight(x, u)
<1> DEFINE W == Waits(x) \ {u}
           V == Waits(y) \ {u}
           S == Tokens(x)
           T == Tokens(y)
<1>1. /\ IsFiniteSet(W) /\ Cardinality(W) \in Nat /\ IsFiniteSet(S) /\ Cardinality(S) \in Nat
      /\ IsFiniteSet(V) /\ Cardinality(V) \in Nat /\ IsFiniteSet(T) /\ Cardinality(T) \in Nat
  BY WeightType
<1>2. /\ Weight(x, u) = Cardinality(W) + Cardinality(S)
      /\ Weight(y, u) = Cardinality(V) + Cardinality(T)
  BY DEF Weight
<1>3. CASE V \subseteq W
  <2>1. T \subseteq S
    OBVIOUS
  <2> HIDE DEF W, V, S, T
  <2>2. Cardinality(V) <= Cardinality(W) /\ Cardinality(T) <= Cardinality(S)
    BY <1>1, <1>3, <2>1, FS_Subset
  <2> QED
    BY <1>1, <1>2, <2>2
<1>4. CASE ~(V \subseteq W)
  <2>1. PICK v : Waits(y) \subseteq Waits(x) \cup {v}
    BY <1>4
  <2>2. PICK t \in S : t \notin T
    BY <1>4
  <2>3. V \subseteq W \cup {v} /\ T \subseteq S \ {t}
    BY <2>1, <2>2
  <2> HIDE DEF W, V, S, T
  <2>4. IsFiniteSet(W \cup {v}) /\ Cardinality(W \cup {v}) <= Cardinality(W) + 1
    <3>1. IsFiniteSet(W) /\ Cardinality(W) \in Nat
      BY <1>1
    <3>2. /\ IsFiniteSet(W \cup {v})
          /\ Cardinality(W \cup {v})
               = IF v \in W THEN Cardinality(W) ELSE Cardinality(W) + 1
      BY <3>1, FS_AddElement
    <3> QED
      BY <3>1, <3>2
  <2>5. IsFiniteSet(S \ {t}) /\ Cardinality(S \ {t}) = Cardinality(S) - 1
    BY <1>1, <2>2, FS_RemoveElement
  <2>6. Cardinality(V) <= Cardinality(W \cup {v}) /\ Cardinality(T) <= Cardinality(S \ {t})
    BY <2>3, <2>4, <2>5, FS_Subset
  <2>7. Cardinality(W \cup {v}) \in Nat
    BY <2>4, FS_CardinalityType
  <2> QED
    BY <1>1, <1>2, <2>4, <2>5, <2>6, <2>7
<1> QED
  BY <1>3, <1>4

LEMMA TokenKept ==
  ASSUME NEW x, NEW y, NEW i, NEW j, y \in StateType, y.level[i] = x.level[i],
         \A w \in Urls : y.entries[w].GotData => x.entries[w].GotData,
         \A n \in Places(y) : y.ClientQueue[n].key = i =>
           \E m \in Places(x) : y.ClientQueue[n] = x.ClientQueue[m],
         Token(y, i, j)
  PROVE  Token(x, i, j)
<1>1. PICK n \in Places(y) :
        /\ y.ClientQueue[n].key = i /\ y.entries[y.ClientQueue[n].url].GotData
        /\ j > y.level[i] + IF y.ClientQueue[n].BufSize = 0 THEN 1 ELSE 0
  BY DEF Token
<1>2. PICK m \in Places(x) : y.ClientQueue[n] = x.ClientQueue[m]
  BY <1>1
<1>3. y.ClientQueue[n].url \in Urls
  BY MemberTypes
<1>4. x.entries[y.ClientQueue[n].url].GotData
  BY <1>1, <1>3
<1> QED
  BY <1>1, <1>2, <1>4 DEF Token

\* No token is new but those of client k.
LEMMA OthersTokens ==
  ASSUME NEW x, NEW y, NEW k, y \in StateType, Others(x, y, k),
         \A j \in 1 .. RedirectLimit : Token(y, k, j) => Token(x, k, j)
  PROVE  Tokens(y) \subseteq Tokens(x)
<1>1. ASSUME NEW i \in Keys \ {k}, NEW j, Token(y, i, j) PROVE Token(x, i, j)
  <2>1. y.level[i] = x.level[i] /\ \A w \in Urls : y.entries[w].GotData => x.entries[w].GotData
    BY DEF Others
  <2>2. \A n \in Places(y) : y.ClientQueue[n].key = i =>
          \E m \in Places(x) : y.ClientQueue[n] = x.ClientQueue[m]
    BY DEF Others
  <2> QED
    BY <1>1, <2>1, <2>2, TokenKept
<1>2. \A t \in Keys \X (1 .. RedirectLimit) : Token(y, t[1], t[2]) => Token(x, t[1], t[2])
  <2> SUFFICES ASSUME NEW i \in Keys, NEW j \in 1 .. RedirectLimit, Token(y, i, j)
               PROVE  Token(x, i, j)
    OBVIOUS
  <2> QED
    BY <1>1
<1> QED
  BY <1>2 DEF Tokens

\* What a client counts that has no data.
Counts(cl) == IF cl.BufSize = 0 THEN 1 ELSE 0

\* From x to y client k at place i leaves page u, which is at its end, and may be
\* redirected.
Quits(x, y, u, k, i) ==
  /\ Others(x, y, k)
  /\ \/ ~Has(y, k) /\ Waits(y) \subseteq Waits(x)
     \/ /\ x.level[k] + Counts(x.ClientQueue[i]) < RedirectLimit
        /\ y.level[k] = x.level[k] + Counts(x.ClientQueue[i])
        /\ Elsewhere(y, u, k)
        /\ \E v \in Urls : Waits(y) \subseteq Waits(x) \cup {v}
  /\ x.shifted \subseteq y.shifted
  /\ u \in y.shifted \/ \A n \in 1 .. i - 1 : /\ n \in Places(y)
                                              /\ y.ClientQueue[n] = x.ClientQueue[n]

LEMMA QuitsLighter ==
  ASSUME NEW x, NEW y, NEW u \in Urls, NEW i \in Places(x), NEW k, k = x.ClientQueue[i].key,
         x \in StateType, y \in StateType, u = x.ClientQueue[i].url,
         Quits(x, y, u, k, i),
         x.entries[u].GotData \/ (~Has(y, k) /\ Waits(y) \subseteq Waits(x))
  PROVE  Weight(y, u) <= Weight(x, u)
<1>1. k \in Keys /\ x.level[k] \in Nat /\ RedirectLimit \in Nat
  BY MemberTypes, CacheAssumption
<1>2. PICK b \in {0, 1} : b = Counts(x.ClientQueue[i])
  BY DEF Counts
<1>3. Others(x, y, k)
  BY DEF Quits
<1>4. CASE ~Has(y, k) /\ Waits(y) \subseteq Waits(x)
  <2>1. \A j : ~Token(y, k, j)
    BY <1>4 DEF Token, Has
  <2>2. Tokens(y) \subseteq Tokens(x)
    BY <1>3, <2>1, OthersTokens
  <2>3. Waits(y) \ {u} \subseteq Waits(x) \ {u}
    BY <1>4
  <2> QED
    BY <2>2, <2>3, Lighter
<1>5. CASE /\ x.level[k] + b < RedirectLimit /\ y.level[k] = x.level[k] + b
           /\ Elsewhere(y, u, k) /\ x.entries[u].GotData
           /\ \E v \in Urls : Waits(y) \subseteq Waits(x) \cup {v}
  <2>1. PICK t : t = x.level[k] + b + 1
    OBVIOUS
  <2>2. t \in 1 .. RedirectLimit
    BY <1>1, <1>5, <2>1
  <2>3. \A j \in 1 .. RedirectLimit : Token(y, k, j) => j > t
    <3> SUFFICES ASSUME NEW j \in 1 .. RedirectLimit, Token(y, k, j) PROVE j > t
      OBVIOUS
    <3>1. PICK n \in Places(y) :
            /\ y.ClientQueue[n].key = k
            /\ j > y.level[k] + IF y.ClientQueue[n].BufSize = 0 THEN 1 ELSE 0
      BY DEF Token
    <3>2. y.ClientQueue[n].BufSize = 0
      BY <1>5, <3>1 DEF Elsewhere
    <3> QED
      BY <1>1, <1>5, <2>1, <3>1, <3>2
  <2>4. \A j \in 1 .. RedirectLimit : j > x.level[k] + b => Token(x, k, j)
    BY <1>2, <1>5 DEF Token, Counts
  <2>5. \A j \in 1 .. RedirectLimit : Token(y, k, j) => Token(x, k, j)
    BY <1>1, <2>1, <2>3, <2>4
  <2>6. Tokens(y) \subseteq Tokens(x)
    BY <1>3, <2>5, OthersTokens
  <2>7. Token(x, k, t) /\ ~Token(y, k, t)
    BY <1>1, <2>1, <2>2, <2>3, <2>4
  <2>8. \E p \in Tokens(x) : p \notin Tokens(y)
    <3>1. PICK p : p = <<k, t>>
      OBVIOUS
    <3>2. p \in Keys \X (1 .. RedirectLimit) /\ p[1] = k /\ p[2] = t
      BY <1>1, <2>2, <3>1
    <3> QED
      BY <2>7, <3>2 DEF Tokens
  <2> QED
    BY <1>5, <2>6, <2>8, Lighter
<1> QED
  BY <1>2, <1>4, <1>5 DEF Quits

\* Clients and data leave: DelayedQueue does not grow.
LEMMA DepartsLighter ==
  ASSUME NEW x, NEW y, NEW v \in Urls, x \in StateType, y \in StateType, Departs(x, y, v)
  PROVE  Waits(y) \subseteq Waits(x) /\ \A u : Weight(y, u) <= Weight(x, u)
<1>1. Waits(y) \subseteq Waits(x)
  <2>1. Waits(y) \subseteq Urls
    BY WaitsFinite
  <2> QED
    BY <2>1 DEF Departs
<1>2. \A w \in Urls : y.entries[w].GotData => x.entries[w].GotData
  BY DEF Departs
<1>3. \A i, j : Token(y, i, j) => Token(x, i, j)
  <2> SUFFICES ASSUME NEW i, NEW j, Token(y, i, j) PROVE Token(x, i, j)
    OBVIOUS
  <2>1. /\ y.level[i] = x.level[i]
        /\ \A n \in Places(y) : \E m \in Places(x) : y.ClientQueue[n] = x.ClientQueue[m]
    BY DEF Departs
  <2> QED
    BY <1>2, <2>1, TokenKept
<1>4. Tokens(y) \subseteq Tokens(x)
  BY <1>3 DEF Tokens
<1>5. \A u : Waits(y) \ {u} \subseteq Waits(x) \ {u}
  BY <1>1
<1> QED
  BY <1>1, <1>4, <1>5, Lighter

\* The same care, the same clients, the same weight.
LEMMA SameWeight ==
  ASSUME NEW x, NEW y, NEW u, y.ClientQueue = x.ClientQueue, y.level = x.level,
         y.DelayedQueue = x.DelayedQueue,
         \A w \in Urls : y.entries[w].GotData = x.entries[w].GotData, x \in StateType
  PROVE  Weight(y, u) = Weight(x, u)
<1>1. Places(y) = Places(x) /\ Waits(y) = Waits(x)
  BY DEF Places, Waits
<1>2. \A n \in Places(x) : x.ClientQueue[n].url \in Urls
  BY MemberTypes
<1>3. \A i, j : Token(y, i, j) <=> Token(x, i, j)
  BY <1>1, <1>2 DEF Token
<1>4. Tokens(y) = Tokens(x)
  BY <1>3 DEF Tokens
<1> QED
  BY <1>1, <1>4 DEF Weight

\* Nothing points at an entry that is not there.
LEMMA NoneLeft ==
  ASSUME NEW x, x \in StateType, QueuesOK(x), NEW v, ~Cached(x, v)
  PROVE  v \notin Waits(x) /\ \A n \in Places(x) : x.ClientQueue[n].url # v
<1>1. \A n \in Places(x) : x.ClientQueue[n].url # v
  BY DEF QueuesOK, Cached
<1>2. ASSUME NEW n \in 1 .. Len(x.DelayedQueue), x.DelayedQueue[n][1] = v PROVE FALSE
  BY <1>2 DEF QueuesOK, Cached
<1> QED
  BY <1>1, <1>2 DEF Waits

\* When client k leaves, those before it stay in their places.
LEMMA EarlierKept ==
  ASSUME NEW x, x \in StateType, QueuesOK(x), NEW i \in Places(x),
         NEW k, k = x.ClientQueue[i].key, NEW y, y = Dequeue(x, {k})
  PROVE  \A n \in 1 .. i - 1 : n \in Places(y) /\ y.ClientQueue[n] = x.ClientQueue[n]
<1>1. i \in Nat \ {0} /\ i <= Len(x.ClientQueue) /\ Len(x.ClientQueue) \in Nat
  BY MemberTypes DEF Places
<1>2. CASE i = 1
  BY <1>2
<1>3. CASE i # 1
  <2>1. i - 1 \in Places(x) /\ \A n \in 1 .. i - 1 : n \in Places(x) /\ n # i
    BY <1>1, <1>3 DEF Places
  <2>2. \A n \in 1 .. i - 1 : x.ClientQueue[n].key # k
    BY <2>1 DEF QueuesOK
  <2>3. Leaves(x, y, {k})
    BY DequeueFields
  <2>4. \A n \in 1 .. i - 1 : Has(y, x.ClientQueue[n].key)
    <3>1. ASSUME NEW n \in 1 .. i - 1 PROVE Has(y, x.ClientQueue[n].key)
      <4>1. PICK m \in Places(y) : y.ClientQueue[m] = x.ClientQueue[n]
        BY <2>1, <2>2, <2>3 DEF Leaves
      <4> QED
        BY <4>1 DEF Has
    <3> QED
      BY <3>1
  <2>5. FirstKept(x, y)
    BY DequeueDeparts DEF Departs
  <2> QED
    BY <2>1, <2>4, <2>5 DEF FirstKept
<1> QED
  BY <1>2, <1>3

\* The clients that are served at a page's end come to other pages, or leave.
LEMMA ServeHeeded ==
  ASSUME NEW x, NEW i \in Places(x), NEW cl, cl = x.ClientQueue[i], NEW k, k = cl.key,
         Sound(x, {}, {k}), NEW u \in Urls, u = cl.url, x.entries[u].GotData,
         Fine(x), NEW D, AllHeeded(x, {u}, D), NEW r, r = Serve(x, u, i)
  PROVE  /\ Fine(r.x) /\ AllHeeded(r.x, {u}, D) /\ r.i = i
         /\ Redirected(x, r.x, u, cl, i)
<1>1. x \in StateType /\ QueuesOK(x)
  BY DEF Sound
<1>2. cl \in Client /\ k \in Keys /\ i \in Nat \ {0}
  <2>1. Len(x.ClientQueue) \in Nat
    BY <1>1, MemberTypes
  <2>2. i \in Nat \ {0}
    BY <2>1 DEF Places
  <2> QED
    BY <1>1, <2>2, MemberTypes
<1>3. PICK f : f = Feed(x, u, i)
  OBVIOUS
<1>4. PICK d : d = Dequeue(f, {k})
  OBVIOUS
<1>5. PICK w : w = [d EXCEPT !.closed = @ \cup {k}]
  OBVIOUS
<1>6. PICK y : y = Cache_redirect(w, u, cl, i)
  OBVIOUS
<1>7. r.x = y /\ r.i = i
  <2>1. r = [x |-> y, i |-> i]
    BY <1>3, <1>4, <1>5, <1>6 DEF Serve
  <2> QED
    BY <2>1
<1>8. /\ Sound(f, {}, {k}) /\ f \in StateType /\ QueuesOK(f)
      /\ i \in Places(f) /\ f.ClientQueue[i].key = k
  <2>1. /\ Sound(f, {}, {k})
        /\ i \in Places(f) /\ f.ClientQueue[i].key = k
    BY <1>3, FeedSound
  <2> QED
    BY <2>1 DEF Sound
<1>9. /\ SameCare(x, f) /\ f.level = x.level /\ f.entries = x.entries
      /\ Places(f) = Places(x)
      /\ \A n \in Places(x) : n # i => f.ClientQueue[n] = x.ClientQueue[n]
      /\ f.ClientQueue[i].url = u
  BY <1>1, <1>3, FeedFields
<1>10. {k} \ {k} = {}
  OBVIOUS
<1>11. /\ Sound(d, {}, {}) /\ d \in StateType /\ SameRest(f, d)
       /\ d.DelayedQueue = f.DelayedQueue /\ Leaves(f, d, {k})
  <2>1. Sound(d, {}, {})
    BY <1>4, <1>8, <1>10, DequeueSound
  <2> QED
    BY <1>4, <1>8, <2>1, DequeueFields
<1>12. /\ w \in StateType /\ w.ClientQueue = d.ClientQueue /\ w.entries = d.entries
       /\ w.DelayedQueue = d.DelayedQueue /\ w.conns = d.conns /\ w.level = d.level
       /\ w.closed = d.closed \cup {k} /\ w.got = d.got /\ w.idle = d.idle
       /\ w.shifted = d.shifted
  BY <1>2, <1>5, <1>11 DEF StateType
<1>13. Places(w) = Places(d) /\ ~Has(d, k) /\ ~Has(w, k)
  BY <1>11, <1>12 DEF Places, Has, Leaves
<1>14. Sound(w, {}, {})
  <2>1. TalksTo(d, w, k)
    BY <1>12 DEF TalksTo
  <2> QED
    BY <1>2, <1>11, <1>13, <2>1, TalkSound
<1>15. \A n \in 1 .. i - 1 : n \in Places(w) /\ w.ClientQueue[n] = x.ClientQueue[n]
  <2>1. \A n \in 1 .. i - 1 : n \in Places(d) /\ d.ClientQueue[n] = f.ClientQueue[n]
    BY <1>4, <1>8, EarlierKept
  <2>2. \A n \in 1 .. i - 1 : n \in Places(x) /\ n # i
    BY <1>1, <1>2, MemberTypes DEF Places
  <2> QED
    BY <1>9, <1>12, <1>13, <2>1, <2>2
<1>16. \A n \in Places(w) : \E m \in Places(x) : w.ClientQueue[n] = x.ClientQueue[m]
  <2>1. ASSUME NEW n \in Places(w) PROVE \E m \in Places(x) : w.ClientQueue[n] = x.ClientQueue[m]
    <3>1. PICK m \in Places(f) : d.ClientQueue[n] = f.ClientQueue[m]
      BY <1>11, <1>13, <2>1 DEF Leaves, Embeds
    <3>2. m # i
      BY <1>8, <1>12, <1>13, <2>1, <3>1 DEF Has
    <3> QED
      BY <1>9, <1>12, <3>1, <3>2
  <2> QED
    BY <2>1
<1>17. SameCare(x, w) /\ w.entries = x.entries /\ w.level = x.level
  BY <1>9, <1>11, <1>12 DEF SameCare, SameRest
<1>18. Fine(w) /\ Waits(w) = Waits(x) /\ AllHeeded(w, {u}, D)
  <2>1. /\ Fine(w) /\ Waits(w) = Waits(x)
        /\ \A v \in Urls : Heeded(x, v, D) => Heeded(w, v, D)
    BY <1>12, <1>17, CareKept
  <2>2. Fewer(x, w)
    BY <1>16 DEF Fewer
  <2> QED
    BY <1>1, <1>12, <2>1, <2>2, FewerHeeded
<1>19. Fine(y) /\ AllHeeded(y, {u}, D) /\ Redirected(w, y, u, cl, i)
  <2>1. \A n \in 1 .. i - 1 : n \in Places(w)
    BY <1>15
  <2>2. ~Has(w, k) /\ Fine(w) /\ AllHeeded(w, {u}, D)
    BY <1>13, <1>18
  <2>3. cl \in Client /\ k \in Keys /\ i \in Nat \ {0} /\ k = cl.key
    BY <1>2
  <2> QED
    BY ONLY u \in Urls, <1>6, <1>14, <2>1, <2>2, <2>3, RedirectHeeded
<1>20. Others(x, y, k)
  <2>1. Others(x, w, k)
    BY <1>16, <1>17 DEF Others
  <2>2. Others(w, y, k)
    BY <1>19 DEF Redirected
  <2> QED
    BY <2>1, <2>2, OthersChain
<1>21. /\ w.shifted = x.shifted /\ w.level = x.level /\ w.entries = x.entries
  BY <1>17 DEF SameCare
<1>22. Redirected(x, y, u, cl, i)
  BY <1>15, <1>18, <1>19, <1>20, <1>21 DEF Redirected
<1> QED
  BY <1>7, <1>19, <1>22

\* The queue has been gone through up to position i.
Passed(x, u, i) ==
  u \in x.shifted \/ \A n \in Places(x) : n < i => x.ClientQueue[n].url # u

At(x, u) == {k \in Keys : \E n \in Places(x) : /\ x.ClientQueue[n].key = k
                                               /\ x.ClientQueue[n].url = u}

\* How many turns the loop still has.
Turns(x, u, i) == Cardinality(KeysIn(x)) + Cardinality(At(x, u)) + 1 - i

LEMMA TurnsType ==
  ASSUME NEW x, x \in StateType, NEW u
  PROVE  /\ IsFiniteSet(KeysIn(x)) /\ Cardinality(KeysIn(x)) \in Nat
         /\ Cardinality(KeysIn(x)) <= Cardinality(Keys)
         /\ IsFiniteSet(At(x, u)) /\ Cardinality(At(x, u)) \in Nat
         /\ Cardinality(At(x, u)) <= Cardinality(Keys)
         /\ \A i \in Nat : Turns(x, u, i) \in Int
<1>1. KeysIn(x) \subseteq Keys /\ At(x, u) \subseteq Keys
  BY KeysAre DEF At
<1>2. IsFiniteSet(Keys)
  BY CacheAssumption
<1>3. /\ IsFiniteSet(KeysIn(x)) /\ Cardinality(KeysIn(x)) \in Nat
      /\ Cardinality(KeysIn(x)) <= Cardinality(Keys)
      /\ IsFiniteSet(At(x, u)) /\ Cardinality(At(x, u)) \in Nat
      /\ Cardinality(At(x, u)) <= Cardinality(Keys)
  BY <1>1, <1>2, FS_Subset, FS_CardinalityType
<1>4. \A i \in Nat : Turns(x, u, i) \in Int
  BY <1>3 DEF Turns
<1> QED
  BY <1>3, <1>4

LEMMA QuitsPassed ==
  ASSUME NEW x, NEW y, NEW u \in Urls, NEW i \in Places(x), NEW k, k = x.ClientQueue[i].key,
         x \in StateType, y \in StateType, u = x.ClientQueue[i].url,
         Quits(x, y, u, k, i)
  PROVE  /\ Passed(x, u, i) => Passed(y, u, i)
         /\ Turns(y, u, i) <= Turns(x, u, i) - 1
<1>1. i \in Nat \ {0} /\ k \in Keys /\ Len(x.ClientQueue) \in Nat
  <2>1. Len(x.ClientQueue) \in Nat
    BY MemberTypes
  <2> QED
    BY <2>1, MemberTypes DEF Places
<1>2. ASSUME Passed(x, u, i) PROVE Passed(y, u, i)
  <2>1. CASE u \in y.shifted
    BY <2>1 DEF Passed
  <2>2. CASE u \notin y.shifted
    <3>1. \A n \in 1 .. i - 1 : n \in Places(y) /\ y.ClientQueue[n] = x.ClientQueue[n]
      BY <2>2 DEF Quits
    <3>2. \A n \in Places(x) : n < i => x.ClientQueue[n].url # u
      BY <1>2, <2>2 DEF Passed, Quits
    <3>3. Len(y.ClientQueue) \in Nat
      BY MemberTypes
    <3>4. ASSUME NEW n \in Places(y), n < i PROVE y.ClientQueue[n].url # u
      <4>1. n \in 1 .. i - 1 /\ n \in Places(x)
        BY <1>1, <3>3, <3>4 DEF Places
      <4> QED
        BY <3>1, <3>2, <3>4, <4>1
    <3> QED
      BY <3>4 DEF Passed
  <2> QED
    BY <2>1, <2>2
<1>3. /\ ~Has(y, k) \/ Elsewhere(y, u, k)
      /\ \A n \in Places(y) : y.ClientQueue[n].key # k =>
           \E m \in Places(x) : y.ClientQueue[n] = x.ClientQueue[m]
  BY DEF Quits, Others
<1>4. KeysIn(y) \subseteq KeysIn(x)
  <2>1. Has(x, k)
    BY DEF Has
  <2>2. ASSUME NEW j, Has(y, j) PROVE Has(x, j)
    <3>1. PICK n \in Places(y) : y.ClientQueue[n].key = j
      BY <2>2 DEF Has
    <3>2. CASE j = k
      BY <2>1, <3>2
    <3>3. CASE j # k
      BY <1>3, <3>1, <3>3 DEF Has
    <3> QED
      BY <3>2, <3>3
  <2> QED
    BY <2>2, KeysAre
<1>5. At(y, u) \subseteq At(x, u) \ {k} /\ k \in At(x, u)
  <2>1. k \in At(x, u)
    BY <1>1 DEF At
  <2>2. ASSUME NEW j \in At(y, u) PROVE j \in At(x, u) \ {k}
    <3>1. j \in Keys
      BY DEF At
    <3>2. PICK n \in Places(y) : y.ClientQueue[n].key = j /\ y.ClientQueue[n].url = u
      BY DEF At
    <3>3. j # k
      BY <1>3, <3>2 DEF Has, Elsewhere
    <3>4. PICK m \in Places(x) : y.ClientQueue[n] = x.ClientQueue[m]
      BY <1>3, <3>2, <3>3
    <3> QED
      BY <3>1, <3>2, <3>3, <3>4 DEF At
  <2> QED
    BY <2>1, <2>2
<1>6. Turns(y, u, i) <= Turns(x, u, i) - 1
  <2> DEFINE K == KeysIn(x)
             L == KeysIn(y)
             A == At(x, u)
             B == At(y, u)
  <2>1. /\ IsFiniteSet(K) /\ Cardinality(K) \in Nat /\ Cardinality(L) \in Nat
        /\ IsFiniteSet(A) /\ Cardinality(A) \in Nat /\ Cardinality(B) \in Nat
    BY TurnsType
  <2>2. L \subseteq K /\ B \subseteq A \ {k} /\ k \in A
    BY <1>4, <1>5
  <2>3. /\ Turns(x, u, i) = Cardinality(K) + Cardinality(A) + 1 - i
        /\ Turns(y, u, i) = Cardinality(L) + Cardinality(B) + 1 - i
    BY DEF Turns
  <2> HIDE DEF K, L, A, B
  <2>4. IsFiniteSet(A \ {k}) /\ Cardinality(A \ {k}) = Cardinality(A) - 1
    BY <2>1, <2>2, FS_RemoveElement
  <2>5. Cardinality(L) <= Cardinality(K) /\ Cardinality(B) <= Cardinality(A \ {k})
    BY <2>1, <2>2, <2>4, FS_Subset
  <2> QED
    BY <1>1, <2>1, <2>3, <2>4, <2>5
<1> QED
  BY <1>2, <1>6

\* A turn leaves the care for the other pages and brings the loop on.
Loops(s, u, D) ==
  /\ Fine(s.x) /\ AllHeeded(s.x, {u}, D)
  /\ s.x.entries[u].GotData => Passed(s.x, u, s.i)

\* From s to t nothing gets worse.
Onward(s, t, u, m) ==
  /\ Weight(t.x, u) <= Weight(s.x, u) /\ s.x.shifted \subseteq t.x.shifted
  /\ ~m /\ (s.abort => s.offer) => (t.abort => t.offer)
  /\ s.x.entries[u].GotData /\ ~(s.i > Len(s.x.ClientQueue))
       => Turns(t.x, u, t.i) <= Turns(s.x, u, s.i) - 1

\* An aborted client leaves, and nothing else changes but its level.
LEMMA LeaveHeeded ==
  ASSUME NEW x, Sound(x, {}, {}), NEW u \in Urls, NEW i \in Places(x),
         NEW cl, cl = x.ClientQueue[i], cl.url = u, NEW k, k = cl.key,
         NEW d, d = Leveled(x, u, cl), NEW y, y = Dequeue(d, {k}),
         Fine(x), NEW D, AllHeeded(x, {u}, D)
  PROVE  /\ Fine(y) /\ AllHeeded(y, {u}, D) /\ Quits(x, y, u, k, i)
         /\ y \in StateType /\ ~Has(y, k) /\ Waits(y) \subseteq Waits(x)
         /\ y.shifted = x.shifted /\ y.entries = x.entries
<1>1. x \in StateType
  BY DEF Sound
<1>2. /\ d \in StateType /\ Sound(d, {}, {k})
      /\ d.ClientQueue = x.ClientQueue /\ d.entries = x.entries
      /\ d.DelayedQueue = x.DelayedQueue /\ d.conns = x.conns /\ d.idle = x.idle
      /\ d.shifted = x.shifted
      /\ \A j \in Keys \ {k} : d.level[j] = x.level[j]
  BY ONLY Sound(x, {}, {}), u \in Urls, i \in Places(x), cl = x.ClientQueue[i], k = cl.key,
          d = Leveled(x, u, cl), LeveledSound
<1>3. Places(d) = Places(x) /\ QueuesOK(d)
  BY <1>2 DEF Places, Sound
<1>4. /\ y \in StateType /\ SameRest(d, y) /\ y.DelayedQueue = d.DelayedQueue
      /\ Leaves(d, y, {k})
  BY <1>2, DequeueFields
<1>5. SameCare(x, y) /\ y.entries = x.entries /\ y.level = d.level
  BY <1>2, <1>4 DEF SameCare, SameRest
<1>6. \A n \in Places(y) : \E m \in Places(x) : y.ClientQueue[n] = x.ClientQueue[m]
  <2>1. PICK f \in [Places(y) -> Places(d)] :
          \A n, m \in Places(y) : /\ y.ClientQueue[n] = d.ClientQueue[f[n]]
                                  /\ f[n] = f[m] => n = m
    BY <1>4 DEF Leaves, Embeds
  <2> QED
    BY <1>2, <1>3, <2>1
<1>7. /\ Fine(y) /\ Waits(y) = Waits(x)
      /\ \A v \in Urls : Heeded(x, v, D) => Heeded(y, v, D)
  BY <1>4, <1>5, CareKept
<1>8. AllHeeded(y, {u}, D)
  <2>1. Fewer(x, y)
    BY <1>6 DEF Fewer
  <2> QED
    BY <1>1, <1>4, <1>7, <2>1, FewerHeeded
<1>9. ~Has(y, k)
  BY <1>4 DEF Leaves, Has
<1>10. \A n \in 1 .. i - 1 : n \in Places(y) /\ y.ClientQueue[n] = x.ClientQueue[n]
  <2>1. i \in Places(d) /\ k = d.ClientQueue[i].key
    BY <1>2, <1>3
  <2>2. \A n \in 1 .. i - 1 : n \in Places(y) /\ y.ClientQueue[n] = d.ClientQueue[n]
    BY <1>2, <1>3, <2>1, EarlierKept
  <2> QED
    BY <1>2, <2>2
<1>11. Others(x, y, k)
  BY <1>2, <1>5, <1>6 DEF Others
<1>12. y.shifted = x.shifted
  BY <1>5 DEF SameCare
<1> QED
  BY <1>4, <1>5, <1>7, <1>8, <1>9, <1>10, <1>11, <1>12 DEF Quits

\* A client that is only fed stays.
LEMMA FedHeeded ==
  ASSUME NEW x, Sound(x, {}, {}), NEW u \in Urls, NEW i \in Places(x),
         NEW cl, cl = x.ClientQueue[i], cl.url = u, ~x.entries[u].GotData,
         NEW d, d = Leveled(x, u, cl), NEW y, y = Feed(d, u, i),
         Fine(x), NEW D, AllHeeded(x, {u}, D)
  PROVE  /\ Fine(y) /\ AllHeeded(y, {u}, D) /\ Weight(y, u) <= Weight(x, u)
         /\ y.shifted = x.shifted /\ y.entries = x.entries
<1>0. PICK k : k = cl.key
  OBVIOUS
<1>1. x \in StateType /\ k \in Keys
  BY <1>0, MemberTypes DEF Sound
<1>2. /\ d \in StateType /\ Sound(d, {}, {k})
      /\ d.ClientQueue = x.ClientQueue /\ d.entries = x.entries
      /\ d.DelayedQueue = x.DelayedQueue /\ d.conns = x.conns /\ d.idle = x.idle
      /\ d.shifted = x.shifted
      /\ \A j \in Keys \ {k} : d.level[j] = x.level[j]
  BY <1>0, LeveledSound
<1>3. Places(d) = Places(x)
  BY <1>2 DEF Places
<1>4. /\ SameCare(d, y) /\ y.level = d.level /\ y.entries = d.entries
      /\ Places(y) = Places(d)
      /\ \A n \in Places(d) : n # i => y.ClientQueue[n] = d.ClientQueue[n]
      /\ y.ClientQueue[i].key = k /\ y.ClientQueue[i].url = u
  BY <1>0, <1>2, <1>3, FeedFields
<1>5. y \in StateType /\ QueuesOK(y)
  <2>1. Sound(y, {}, {k})
    BY <1>0, <1>2, <1>3, FeedSound
  <2> QED
    BY <2>1 DEF Sound
<1>6. SameCare(x, y)
  BY <1>2, <1>4 DEF SameCare
<1>7. /\ Fine(y) /\ Waits(y) = Waits(x)
      /\ \A v \in Urls : Heeded(x, v, D) => Heeded(y, v, D)
  BY <1>5, <1>6, CareKept
<1>8. AllHeeded(y, {u}, D)
  <2>1. ASSUME NEW n \in Places(y), y.ClientQueue[n].url \notin {u}
        PROVE  Heeded(y, y.ClientQueue[n].url, D)
    <3>1. y.ClientQueue[n] = x.ClientQueue[n] /\ n \in Places(x)
      BY <1>2, <1>3, <1>4, <2>1
    <3>2. y.ClientQueue[n].url \in Urls
      BY <1>5, MemberTypes
    <3> QED
      BY <1>7, <2>1, <3>1, <3>2 DEF AllHeeded
  <2> QED
    BY <2>1 DEF AllHeeded
<1>9. Others(x, y, k)
  <2>1. \A n \in Places(y) : y.ClientQueue[n].key # k =>
          \E m \in Places(x) : y.ClientQueue[n] = x.ClientQueue[m]
    BY <1>2, <1>3, <1>4
  <2> QED
    BY <1>2, <1>4, <2>1 DEF Others
<1>10. \A j : ~Token(y, k, j)
  <2>1. \A n \in Places(y) : y.ClientQueue[n].key = k => n = i
    <3>1. \A m, n \in Places(y) : y.ClientQueue[m].key = y.ClientQueue[n].key => m = n
      BY <1>5 DEF QueuesOK
    <3>2. i \in Places(y)
      BY <1>3, <1>4
    <3> QED
      BY <1>4, <3>1, <3>2
  <2>2. ~y.entries[u].GotData
    BY <1>2, <1>4
  <2> QED
    BY <1>4, <2>1, <2>2 DEF Token
<1>11. Tokens(y) \subseteq Tokens(x)
  BY <1>5, <1>9, <1>10, OthersTokens
<1>12. Weight(y, u) <= Weight(x, u)
  <2>1. Waits(y) \ {u} \subseteq Waits(x) \ {u}
    BY <1>7
  <2> QED
    BY <1>1, <1>5, <1>11, <2>1, Lighter
<1>13. y.shifted = x.shifted /\ y.entries = x.entries
  BY <1>2, <1>4, <1>6 DEF SameCare
<1> QED
  BY <1>7, <1>8, <1>12, <1>13

\* A client that is served at the page's end quits.
LEMMA RedirectedQuits ==
  ASSUME NEW x, Sound(x, {}, {}), NEW u \in Urls, NEW i \in Places(x),
         NEW cl, cl = x.ClientQueue[i], NEW k, k = cl.key,
         NEW d, d = Leveled(x, u, cl), NEW y, Redirected(d, y, u, cl, i)
  PROVE  Quits(x, y, u, k, i)
<1>1. x \in StateType /\ k \in Keys /\ x.level[k] \in Nat
  <2>1. x \in StateType
    BY DEF Sound
  <2> QED
    BY <2>1, MemberTypes, CacheAssumption
<1>2. /\ d \in StateType /\ Sound(d, {}, {k})
      /\ d.ClientQueue = x.ClientQueue /\ d.entries = x.entries
      /\ d.DelayedQueue = x.DelayedQueue /\ d.shifted = x.shifted
      /\ d.level[k] = LevelOf(x, u, cl)
      /\ \A j \in Keys \ {k} : d.level[j] = x.level[j]
  BY ONLY Sound(x, {}, {}), u \in Urls, i \in Places(x), cl = x.ClientQueue[i], k = cl.key,
          d = Leveled(x, u, cl), LeveledSound
<1>3. Places(d) = Places(x) /\ Waits(d) = Waits(x)
  BY <1>2 DEF Places, Waits
<1>4. Others(x, y, k)
  <2>1. Others(d, y, k)
    BY DEF Redirected
  <2>2. Others(x, d, k)
    BY <1>2, <1>3 DEF Others
  <2> QED
    BY <2>1, <2>2, OthersChain
<1>5. cl.root /\ x.entries[u].kind \in CA_Redirect => d.level[k] = x.level[k] + Counts(cl)
  BY <1>1, <1>2 DEF LevelOf, Counts
<1> QED
  BY <1>2, <1>3, <1>4, <1>5 DEF Redirected, Quits

LEMMA TurnHeeded ==
  ASSUME NEW u \in Urls, NEW x, x.entries[u].typed, NEW s, Served(x, s, u), NEW m,
         NEW D, Loops(s, u, D), NEW t, t = NextTurn(s, u, m)
  PROVE  Loops(t, u, D) /\ Onward(s, t, u, m)
<1>1. /\ s \in LoopState /\ s.i > 0 /\ s.i \in Nat /\ s.abort \in BOOLEAN
      /\ Sound(s.x, {}, {}) /\ s.x \in StateType /\ QueuesOK(s.x)
      /\ s.offer \in BOOLEAN
  BY DEF Served, LoopState, Sound
<1>2. /\ Fine(s.x) /\ AllHeeded(s.x, {u}, D)
      /\ s.x.entries[u].GotData => Passed(s.x, u, s.i)
  BY DEF Loops
<1>3. /\ Weight(s.x, u) \in Nat
      /\ Cardinality(KeysIn(s.x)) \in Nat /\ Cardinality(At(s.x, u)) \in Nat
  BY <1>1, WeightType, TurnsType
<1>4. CASE s.i > Len(s.x.ClientQueue)
  <2>1. t = s
    BY <1>4 DEF NextTurn
  <2> QED
    BY <1>3, <1>4, <2>1 DEF Onward
<1>5. CASE ~(s.i > Len(s.x.ClientQueue))
  <2>1. s.i \in Places(s.x)
    BY <1>1, <1>5, MemberTypes DEF Places
  <2>2. PICK cl : cl = s.x.ClientQueue[s.i]
    OBVIOUS
  <2>3. PICK k : k = cl.key
    OBVIOUS
  <2>4. PICK d : d = Leveled(s.x, u, cl)
    OBVIOUS
  <2>5. PICK r : r = Serve(d, u, s.i)
    OBVIOUS
  <2>6. PICK a : a = Dequeue(d, {k})
    OBVIOUS
  <2>7. Turned(s, t, u, m, cl, d, a, r)
    BY <1>5, <2>2, <2>3, <2>4, <2>5, <2>6, TurnCases
  <2>8. cl.root \in BOOLEAN /\ cl.url \in Urls /\ cl.id = s.x.entries[cl.url].id
    BY <1>1, <2>1, <2>2, MemberTypes DEF QueuesOK
  <2>9. CASE (cl.url # u \/ cl.id # s.x.entries[u].id) /\ t = [s EXCEPT !.i = @ + 1]
    <3>1. t.x = s.x /\ t.i = s.i + 1 /\ t.abort = s.abort /\ t.offer = s.offer
      BY <1>1, <2>9 DEF LoopState
    <3>2. cl.url # u
      BY <2>8, <2>9
    <3>3. ASSUME Passed(s.x, u, s.i) PROVE Passed(s.x, u, s.i + 1)
      <4>1. \A n \in Places(s.x) : n < s.i + 1 => n < s.i \/ n = s.i
        BY <1>1, MemberTypes DEF Places
      <4> QED
        BY <2>2, <3>2, <3>3, <4>1 DEF Passed
    <3>4. Loops(t, u, D)
      BY <1>2, <3>1, <3>3 DEF Loops
    <3>5. Turns(t.x, u, t.i) <= Turns(s.x, u, s.i) - 1
      BY <1>1, <1>3, <3>1 DEF Turns
    <3> QED
      BY <1>3, <3>1, <3>4, <3>5 DEF Onward
  <2>10. ASSUME NEW y, y \in StateType, Quits(s.x, y, u, k, s.i), cl.url = u, t.x = y, t.i = s.i,
                Fine(y), AllHeeded(y, {u}, D), y.entries[u].GotData => s.x.entries[u].GotData,
                s.x.entries[u].GotData \/ (~Has(y, k) /\ Waits(y) \subseteq Waits(s.x))
         PROVE  /\ Loops(t, u, D) /\ Weight(t.x, u) <= Weight(s.x, u)
                /\ s.x.shifted \subseteq t.x.shifted
                /\ Turns(t.x, u, t.i) <= Turns(s.x, u, s.i) - 1
    <3>1. Weight(y, u) <= Weight(s.x, u)
      BY <1>1, <2>1, <2>2, <2>3, <2>10, QuitsLighter
    <3>2. /\ Passed(s.x, u, s.i) => Passed(y, u, s.i)
          /\ Turns(y, u, s.i) <= Turns(s.x, u, s.i) - 1
      BY <1>1, <2>1, <2>2, <2>3, <2>10, QuitsPassed
    <3>3. Loops(t, u, D)
      BY <1>2, <2>10, <3>2 DEF Loops
    <3> QED
      BY <2>10, <3>1, <3>2, <3>3 DEF Quits
  <2>11. CASE /\ cl.url = u /\ (s.abort \/ m \/ cl.root)
              /\ t = [x |-> a, i |-> s.i, abort |-> TRUE, offer |-> s.offer \/ cl.root]
    <3>1. t.x = a /\ t.i = s.i /\ t.abort = TRUE /\ t.offer = (s.offer \/ cl.root)
      BY <2>11
    <3>2. /\ Fine(a) /\ AllHeeded(a, {u}, D) /\ Quits(s.x, a, u, k, s.i)
          /\ a \in StateType /\ ~Has(a, k) /\ Waits(a) \subseteq Waits(s.x)
          /\ a.shifted = s.x.shifted /\ a.entries = s.x.entries
      <4>1. PICK z : z = s.x
        OBVIOUS
      <4>2. PICK i : i = s.i
        OBVIOUS
      <4>3. /\ Sound(z, {}, {}) /\ i \in Places(z) /\ cl = z.ClientQueue[i] /\ cl.url = u
            /\ d = Leveled(z, u, cl) /\ Fine(z) /\ AllHeeded(z, {u}, D)
        BY <1>1, <1>2, <2>1, <2>2, <2>4, <2>11, <4>1, <4>2
      <4>4. /\ Fine(a) /\ AllHeeded(a, {u}, D) /\ Quits(z, a, u, k, i)
            /\ a \in StateType /\ ~Has(a, k) /\ Waits(a) \subseteq Waits(z)
            /\ a.shifted = z.shifted /\ a.entries = z.entries
        BY ONLY u \in Urls, <2>3, <2>6, <4>3, LeaveHeeded
      <4> QED
        BY <4>1, <4>2, <4>4
    <3>3. /\ Loops(t, u, D) /\ Weight(t.x, u) <= Weight(s.x, u)
          /\ s.x.shifted \subseteq t.x.shifted
          /\ Turns(t.x, u, t.i) <= Turns(s.x, u, s.i) - 1
      BY <2>10, <2>11, <3>1, <3>2
    <3>4. ~m /\ (s.abort => s.offer) => (t.abort => t.offer)
      BY <2>11, <3>1
    <3> QED
      BY <3>3, <3>4 DEF Onward
  <2>12. CASE cl.url = u /\ t = [s EXCEPT !.x = r.x, !.i = r.i]
    <3>1. t.x = r.x /\ t.i = r.i /\ t.abort = s.abort /\ t.offer = s.offer
      BY <1>1, <2>12 DEF LoopState
    <3>2. /\ Sound(d, {}, {k}) /\ d \in StateType
          /\ d.ClientQueue = s.x.ClientQueue /\ d.entries = s.x.entries
          /\ d.DelayedQueue = s.x.DelayedQueue /\ d.conns = s.x.conns
          /\ d.idle = s.x.idle /\ d.shifted = s.x.shifted
      BY <1>1, <2>1, <2>2, <2>3, <2>4, LeveledSound
    <3>3. CASE ~s.x.entries[u].GotData
      <4>1. PICK y : y = Feed(d, u, s.i)
        OBVIOUS
      <4>2. r = [x |-> y, i |-> s.i + 1]
        BY <2>5, <3>2, <3>3, <4>1 DEF Serve
      <4>3. t.x = y
        BY <3>1, <4>2
      <4>4. /\ Fine(y) /\ AllHeeded(y, {u}, D) /\ Weight(y, u) <= Weight(s.x, u)
            /\ y.shifted = s.x.shifted /\ y.entries = s.x.entries
        BY <1>1, <1>2, <2>1, <2>2, <2>4, <2>12, <3>3, <4>1, FedHeeded
      <4>5. Loops(t, u, D)
        BY <3>3, <4>3, <4>4 DEF Loops
      <4> QED
        BY <3>1, <3>3, <4>3, <4>4, <4>5 DEF Onward
    <3>4. CASE s.x.entries[u].GotData
      <4>1. SameCare(s.x, d)
        BY <3>2 DEF SameCare
      <4>2. Fine(d) /\ AllHeeded(d, {u}, D)
        BY <1>2, <3>2, <4>1, CareKept
      <4>3. s.i \in Places(d) /\ cl = d.ClientQueue[s.i] /\ d.entries[u].GotData
        BY <2>1, <2>2, <3>2, <3>4 DEF Places
      <4>4. /\ Fine(r.x) /\ AllHeeded(r.x, {u}, D) /\ r.i = s.i
            /\ Redirected(d, r.x, u, cl, s.i)
        <5>1. PICK i : i = s.i
          OBVIOUS
        <5>2. /\ i \in Places(d) /\ cl = d.ClientQueue[i] /\ cl.url = u
              /\ d.entries[u].GotData /\ Sound(d, {}, {k}) /\ r = Serve(d, u, i)
          BY <2>5, <2>12, <3>2, <4>3, <5>1
        <5>3. /\ Fine(r.x) /\ AllHeeded(r.x, {u}, D) /\ r.i = i
              /\ Redirected(d, r.x, u, cl, i)
          BY ONLY u \in Urls, <2>3, <4>2, <5>2, ServeHeeded
        <5> QED
          BY <5>1, <5>3
      <4>5. Quits(s.x, r.x, u, k, s.i)
        BY <1>1, <2>1, <2>2, <2>3, <2>4, <4>4, RedirectedQuits
      <4>6. r.x \in StateType
        <5>1. s.x.entries[u].typed
          BY DEF Served, Held, SameBut
        <5>2. Sound(r.x, {}, {})
          BY <2>3, <2>5, <2>12, <3>2, <4>3, <5>1, ServeSound
        <5> QED
          BY <5>2 DEF Sound
      <4>7. /\ Loops(t, u, D) /\ Weight(t.x, u) <= Weight(s.x, u)
            /\ s.x.shifted \subseteq t.x.shifted
            /\ Turns(t.x, u, t.i) <= Turns(s.x, u, s.i) - 1
        BY <2>10, <2>12, <3>1, <3>4, <4>4, <4>5, <4>6
      <4> QED
        BY <3>1, <4>7 DEF Onward
    <3> QED
      BY <3>3, <3>4
  <2> QED
    BY <2>7, <2>9, <2>11, <2>12 DEF Turned
<1> QED
  BY <1>4, <1>5

\* What the loop makes of b, s: at the end of the page all the clients were seen.
Looped(b, s, u, m, D) ==
  /\ Loops(s, u, D) /\ Served(b.x, s, u)
  /\ Weight(s.x, u) <= Weight(b.x, u) /\ b.x.shifted \subseteq s.x.shifted
  /\ ~m => (s.abort => s.offer)
  /\ b.x.entries[u].GotData => s.i > Len(s.x.ClientQueue)

\* The loop of Cache_process_queue is long enough.
LEMMA LoopHeeded ==
  ASSUME NEW u \in Urls, NEW b, Served(b.x, b, u), b.x.entries[u].typed, b.i = 1,
         ~b.abort, NEW D, Loops(b, u, D), NEW m, NEW N, N = 2 * Cardinality(Keys),
         NEW f, IsLoop(f, FALSE, b, u, m, N), NEW s, s = f[N]
  PROVE  Looped(b, s, u, m, D)
<1>2. N \in Nat /\ Cardinality(Keys) \in Nat
  BY LoopLengths, CacheAssumption, FS_CardinalityType
<1>4. \A k \in 0 .. N : f[k] = IF k = 0 THEN b ELSE NextTurn(f[k - 1], u, m)
  BY DEF IsLoop, Step
<1> DEFINE P(z, k) == /\ Loops(z, u, D) /\ Served(b.x, z, u)
                      /\ Weight(z.x, u) <= Weight(b.x, u) /\ b.x.shifted \subseteq z.x.shifted
                      /\ ~m => (z.abort => z.offer)
                      /\ b.x.entries[u].GotData /\ ~(z.i > Len(z.x.ClientQueue))
                           => Turns(z.x, u, z.i) <= N - k
           B == {k \in 0 .. N : ~P(f[k], k)}
<1>5. P(b, 0)
  <2>1. b.x \in StateType
    BY DEF Served, Sound
  <2>2. /\ Weight(b.x, u) \in Nat
        /\ Cardinality(KeysIn(b.x)) \in Nat /\ Cardinality(At(b.x, u)) \in Nat
        /\ Cardinality(KeysIn(b.x)) <= Cardinality(Keys)
        /\ Cardinality(At(b.x, u)) <= Cardinality(Keys)
    BY <2>1, WeightType, TurnsType
  <2>3. Turns(b.x, u, b.i) <= N - 0
    BY <1>2, <2>2 DEF Turns
  <2> QED
    BY <2>2, <2>3
<1>6. P(f[N], N)
  <2>1. SUFFICES ASSUME B # {} PROVE FALSE
    BY <1>2
  <2>2. PICK k \in B : \A j \in B : k <= j
    <3>1. B \in SUBSET Nat
      BY <1>2
    <3> QED
      BY <2>1, <3>1, LeastOf
  <2>3. k # 0
    BY <1>2, <1>4, <1>5, <2>2
  <2>4. k - 1 \in 0 .. N /\ k \in 0 .. N /\ ~(k <= k - 1)
    BY <1>2, <2>2, <2>3
  <2>5. P(f[k - 1], k - 1)
    BY <2>2, <2>4
  <2>6. PICK z : z = f[k - 1]
    OBVIOUS
  <2>7. PICK y : y = NextTurn(z, u, m)
    OBVIOUS
  <2>8. f[k] = y
    BY <1>4, <2>3, <2>4, <2>6, <2>7
  <2>9. P(z, k - 1)
    BY <2>5, <2>6
  <2>10. Loops(y, u, D) /\ Onward(z, y, u, m) /\ Served(b.x, y, u)
    BY <2>7, <2>9, TurnHeeded, TurnSound
  <2>11. z.x \in StateType /\ y.x \in StateType /\ b.x \in StateType /\ z.i \in Nat /\ y.i \in Nat
    BY <2>9, <2>10 DEF Served, Sound, LoopState
  <2>12. Weight(y.x, u) <= Weight(b.x, u)
    <3>1. Weight(z.x, u) \in Nat /\ Weight(y.x, u) \in Nat /\ Weight(b.x, u) \in Nat
      BY <2>11, WeightType
    <3> QED
      BY <2>9, <2>10, <3>1 DEF Onward
  <2>13. b.x.shifted \subseteq y.x.shifted /\ (~m => (y.abort => y.offer))
    BY <2>9, <2>10 DEF Onward
  <2>14. ASSUME b.x.entries[u].GotData, ~(y.i > Len(y.x.ClientQueue))
         PROVE  Turns(y.x, u, y.i) <= N - k
    <3>1. z.x.entries[u].GotData
      BY <2>9, <2>14 DEF Served, Held, SameBut
    <3>2. ~(z.i > Len(z.x.ClientQueue))
      <4>1. z.i > Len(z.x.ClientQueue) => y = z
        BY <2>7 DEF NextTurn
      <4> QED
        BY <2>14, <4>1
    <3>3. /\ Turns(y.x, u, y.i) <= Turns(z.x, u, z.i) - 1
          /\ Turns(z.x, u, z.i) <= N - (k - 1)
      BY <2>9, <2>10, <2>14, <3>1, <3>2 DEF Onward
    <3>4. Turns(y.x, u, y.i) \in Int /\ Turns(z.x, u, z.i) \in Int
      BY <2>11, TurnsType
    <3> QED
      BY <1>2, <2>4, <3>3, <3>4
  <2>15. P(y, k)
    BY <2>10, <2>12, <2>13, <2>14
  <2> QED
    BY <2>2, <2>8, <2>15
<1>7. P(s, N)
  BY <1>6
<1>8. ASSUME b.x.entries[u].GotData PROVE s.i > Len(s.x.ClientQueue)
  <2>1. SUFFICES ASSUME ~(s.i > Len(s.x.ClientQueue)) PROVE FALSE
    OBVIOUS
  <2>2. Turns(s.x, u, s.i) <= 0
    BY <1>2, <1>7, <1>8, <2>1
  <2>3. s.x \in StateType /\ Sound(s.x, {}, {}) /\ s.i \in Nat
    BY <1>7 DEF Served, Sound, LoopState
  <2>4. Len(s.x.ClientQueue) = Cardinality(KeysIn(s.x))
    BY <2>3, OncePerClient
  <2>5. Cardinality(KeysIn(s.x)) \in Nat /\ Cardinality(At(s.x, u)) \in Nat
    BY <2>3, TurnsType
  <2> QED
    BY <2>1, <2>2, <2>3, <2>4, <2>5 DEF Turns
<1> QED
  BY <1>7, <1>8 DEF Looped

\* The clients of the page that was processed are served, or were disturbed.
FedAt(x, u, D) == \/ u \in x.conns \cup D \cup x.shifted
                  \/ x.entries[u].GotData /\ ~x.entries[u].header
                  \/ \A n \in Places(x) : x.ClientQueue[n].url # u

\* From x to y entry u was processed: its clients are served, and so are the others.
Cared(x, y, u, D) ==
  /\ Fine(y) /\ AllHeeded(y, {u}, D) /\ FedAt(y, u, D)
  /\ Weight(y, u) <= Weight(x, u) /\ x.shifted \subseteq y.shifted

LEMMA FedHeedsAll ==
  ASSUME NEW x, NEW u, NEW D, AllHeeded(x, {u}, D), FedAt(x, u, D)
  PROVE  AllHeeded(x, {}, D)
<1>1. ASSUME NEW n \in Places(x) PROVE Heeded(x, x.ClientQueue[n].url, D)
  <2>1. CASE x.ClientQueue[n].url = u
    BY <2>1 DEF FedAt, Heeded
  <2>2. CASE x.ClientQueue[n].url # u
    BY <2>2 DEF AllHeeded
  <2> QED
    BY <2>1, <2>2
<1> QED
  BY <1>1 DEF AllHeeded

LEMMA DepartsCared ==
  ASSUME NEW x, NEW y, NEW u \in Urls, NEW D, x \in StateType, y \in StateType,
         Departs(x, y, u), FineAt(y, u), Fine(x), AllHeeded(x, {u}, D)
  PROVE  /\ Fine(y) /\ AllHeeded(y, {u}, D) /\ Fewer(x, y)
         /\ Weight(y, u) <= Weight(x, u) /\ y.shifted = x.shifted
<1>1. /\ Fine(y) /\ Fewer(x, y)
      /\ \A w \in Urls \ {u} : Heeded(x, w, D) => Heeded(y, w, D)
  BY DepartsHeeded
<1>2. AllHeeded(y, {u}, D)
  BY <1>1, FewerHeeded
<1>3. Weight(y, u) <= Weight(x, u)
  BY DepartsLighter
<1>4. y.shifted = x.shifted
  BY DEF Departs
<1> QED
  BY <1>1, <1>2, <1>3, <1>4

LEMMA OutcomeHeeded ==
  ASSUME NEW u \in Urls, NEW x, Cached(x, u), NEW s, Served(x, s, u), NEW D,
         Loops(s, u, D), s.x.entries[u].GotData => s.i > Len(s.x.ClientQueue),
         NEW r, r = Outcome(s, u)
  PROVE  /\ Cared(s.x, r.x, u, D)
         /\ r.null /\ (s.abort => s.offer) => u \notin Waits(r.x)
<1>1. /\ s \in LoopState /\ s.abort \in BOOLEAN /\ s.i \in Nat
      /\ Sound(s.x, {}, {}) /\ s.x \in StateType /\ QueuesOK(s.x)
  BY DEF Served, LoopState, Sound
<1>2. Cached(s.x, u)
  BY DEF Served, Held, SameBut, Cached
<1>3. Fine(s.x) /\ AllHeeded(s.x, {u}, D) /\ FineAt(s.x, u)
  BY DEF Loops, Fine
<1>4. ASSUME s.x.entries[u].GotData
      PROVE  u \in s.x.shifted \/ \A n \in Places(s.x) : s.x.ClientQueue[n].url # u
  <2>1. Passed(s.x, u, s.i) /\ s.i > Len(s.x.ClientQueue)
    BY <1>4 DEF Loops
  <2>2. \A n \in Places(s.x) : n < s.i
    BY <1>1, <2>1, MemberTypes DEF Places
  <2> QED
    BY <2>1, <2>2 DEF Passed
<1>5. ~s.x.entries[u].GotData => u \in s.x.conns
  BY <1>2, <1>3 DEF FineAt
<1>6. Weight(s.x, u) \in Nat
  BY <1>1, WeightType
<1>7. CASE ~s.abort
  <2>1. r = [x |-> s.x, null |-> FALSE]
    BY <1>7 DEF Outcome
  <2>2. r.x = s.x /\ r.null = FALSE
    BY <2>1
  <2>3. FedAt(s.x, u, D)
    BY <1>4, <1>5 DEF FedAt
  <2> QED
    BY <1>3, <1>6, <2>2, <2>3 DEF Cared
<1>8. CASE s.abort
  <2>1. PICK a : a = a_Capi_conn_abort_by_url(s.x, u)
    OBVIOUS
  <2>2. PICK l : l = IF s.offer THEN Cache_entry_remove(a, u) ELSE a
    OBVIOUS
  <2>3. PICK y : y = IF Cached(l, u) THEN [l EXCEPT !.entries[u].spared = TRUE] ELSE l
    OBVIOUS
  <2>4. r = [x |-> y, null |-> TRUE]
    BY <1>8, <2>1, <2>2, <2>3 DEF Outcome
  <2>5. r.x = y /\ r.null = TRUE
    BY <2>4
  <2>6. /\ Sound(a, {}, {}) /\ a.conns = s.x.conns \ {u} /\ a \in StateType /\ QueuesOK(a)
        /\ u \in s.x.conns => ~Cached(a, u)
    <3>1. /\ Sound(a, {}, {}) /\ a.conns = s.x.conns \ {u}
          /\ u \in s.x.conns => ~Cached(a, u)
      BY <1>1, <2>1, AbortSound
    <3> QED
      BY <3>1 DEF Sound
  <2>7. Departs(s.x, a, u) /\ FineAt(a, u)
    BY <1>1, <1>3, <2>1, AbortDeparts
  <2>8. /\ Departs(s.x, l, u) /\ FineAt(l, u) /\ Sound(l, {}, {}) /\ l \in StateType
        /\ QueuesOK(l)
        /\ s.offer => ~Cached(l, u)
        /\ u \in s.x.conns => ~Cached(l, u)
    <3>1. CASE s.offer
      <4>1. u \notin a.conns \ {}
        BY <2>6
      <4>2. l = Cache_entry_remove(a, u)
        BY <2>2, <3>1
      <4>3. Sound(l, {}, {}) /\ l \in StateType /\ QueuesOK(l)
        <5>1. Sound(l, {}, {})
          BY <2>6, <4>1, <4>2, RemoveSound
        <5> QED
          BY <5>1 DEF Sound
      <4>4. /\ Departs(a, l, u) /\ l.conns = a.conns
            /\ l.entries[u] \in {a.entries[u], Nobody} /\ ~Cached(l, u)
        BY <2>6, <4>2, RemoveDeparts
      <4>5. FineAt(l, u)
        BY <2>7, <4>4 DEF FineAt, Nobody
      <4>6. Departs(s.x, l, u)
        BY <1>1, <2>7, <4>4, DepartsChain
      <4> QED
        BY <4>3, <4>4, <4>5, <4>6
    <3>2. CASE ~s.offer
      <4>1. l = a
        BY <2>2, <3>2
      <4> QED
        BY <2>6, <2>7, <3>2, <4>1
    <3> QED
      BY <3>1, <3>2
  <2>9. /\ Fine(l) /\ AllHeeded(l, {u}, D) /\ Fewer(s.x, l)
        /\ Weight(l, u) <= Weight(s.x, u) /\ l.shifted = s.x.shifted
    BY <1>1, <1>3, <2>8, DepartsCared
  <2>10. FedAt(l, u, D)
    <3>1. CASE ~s.x.entries[u].GotData
      <4>1. ~Cached(l, u)
        BY <1>5, <2>8, <3>1
      <4>2. \A n \in Places(l) : l.ClientQueue[n].url # u
        BY <2>8, <4>1, NoneLeft
      <4> QED
        BY <4>2 DEF FedAt
    <3>2. CASE s.x.entries[u].GotData
      BY <1>4, <2>9, <3>2 DEF FedAt, Fewer
    <3> QED
      BY <3>1, <3>2
  <2>11. CASE ~Cached(l, u)
    <3>1. y = l
      BY <2>3, <2>11
    <3>2. u \notin Waits(l)
      BY <2>8, <2>11, NoneLeft
    <3>3. Cared(s.x, l, u, D)
      BY <2>9, <2>10 DEF Cared
    <3> QED
      BY <2>5, <3>1, <3>2, <3>3
  <2>12. CASE Cached(l, u)
    <3>1. PICK e : e = [l.entries[u] EXCEPT !.spared = TRUE]
      OBVIOUS
    <3>2. PICK E : E = [l.entries EXCEPT ![u] = e]
      OBVIOUS
    <3>3. y = [l EXCEPT !.entries = E]
      BY <2>3, <2>12, <3>1, <3>2
    <3>4. l.entries[u] \in Entry /\ l.entries \in [Urls -> Entry]
      BY <2>8, MemberTypes
    <3>5. /\ e \in Entry /\ e.id = l.entries[u].id /\ e.header = l.entries[u].header
          /\ e.typed = l.entries[u].typed /\ e.GotData = l.entries[u].GotData
      BY <3>1, <3>4 DEF Entry
    <3>6. E \in [Urls -> Entry] /\ E[u] = e /\ \A v \in Urls \ {u} : E[v] = l.entries[v]
      BY <3>2, <3>4, <3>5
    <3>7. /\ y \in StateType /\ y.entries = E /\ y.ClientQueue = l.ClientQueue
          /\ y.DelayedQueue = l.DelayedQueue /\ y.idle = l.idle /\ y.conns = l.conns
          /\ y.shifted = l.shifted /\ y.level = l.level
      BY <2>8, <3>3, <3>6 DEF StateType
    <3>8. SameCare(l, y)
      BY <3>5, <3>6, <3>7 DEF SameCare
    <3>9. Fine(y) /\ AllHeeded(y, {u}, D)
      BY <2>9, <3>7, <3>8, CareKept
    <3>10. Places(y) = Places(l)
      BY <3>7 DEF Places
    <3>11. FedAt(y, u, D)
      BY <2>10, <3>5, <3>6, <3>7, <3>10 DEF FedAt
    <3>12. Weight(y, u) = Weight(l, u)
      BY <2>8, <3>7, <3>8, SameWeight DEF SameCare
    <3>13. Cared(s.x, y, u, D)
      BY <2>9, <3>7, <3>9, <3>11, <3>12 DEF Cared
    <3> QED
      BY <1>8, <2>5, <2>8, <2>12, <3>13
  <2> QED
    BY <2>11, <2>12
<1> QED
  BY <1>1, <1>7, <1>8

\* What there is before entry u is processed.
Ready(x, u, det, D) ==
  /\ \A v \in Urls \ {u} : FineAt(x, v)
  /\ AllHeeded(x, {u}, D)
  /\ ~x.entries[u].GotData => u \in x.conns
  /\ x.entries[u].header /\ x.entries[u].GotData => x.entries[u].typed \/ det # "doubt"

LEMMA ProcessHeeded ==
  ASSUME NEW x, Sound(x, {}, {}), NEW u \in Urls, Cached(x, u), NEW det,
         det # "doubt" => x.entries[u].data > 0 \/ x.entries[u].GotData,
         NEW D, Ready(x, u, det, D), NEW r, r = Cache_process_queue(x, u, det)
  PROVE  /\ Cared(x, r.x, u, D)
         /\ r.null /\ det = "doubt" => u \notin Waits(r.x)
<1>1. x \in StateType /\ PageOK(x.entries[u], u) /\ x.entries[u] \in Entry
  BY MemberTypes DEF Sound
<1>2. Weight(x, u) \in Nat
  BY <1>1, WeightType
<1>3. CASE ~x.entries[u].header \/ (~x.entries[u].typed /\ det = "doubt")
  <2>1. r = [x |-> x, null |-> FALSE]
    BY <1>3 DEF Cache_process_queue
  <2>2. r.x = x /\ r.null = FALSE
    BY <2>1
  <2>3. FineAt(x, u) /\ FedAt(x, u, D)
    BY <1>3 DEF Ready, FineAt, FedAt
  <2>4. Fine(x)
    BY <2>3 DEF Ready, Fine
  <2> QED
    BY <1>2, <2>2, <2>3, <2>4 DEF Cared, Ready
<1>4. CASE x.entries[u].header /\ (x.entries[u].typed \/ det # "doubt")
  <2>0. PICK N : N = 2 * Cardinality(Keys)
    OBVIOUS
  <2>1. PICK m, f : /\ m => det = "mismatch"
                    /\ IsLoop(f, FALSE, Start(x, u), u, m, N)
                    /\ r = Outcome(f[N], u)
    BY <1>4, <2>0, ProcessEnds
  <2>2. PICK e : e = [x.entries[u] EXCEPT !.typed = TRUE]
    OBVIOUS
  <2>3. PICK E : E = [x.entries EXCEPT ![u] = e]
    OBVIOUS
  <2>4. PICK y : y = [x EXCEPT !.entries = E]
    OBVIOUS
  <2>5. PICK b : b = Start(x, u)
    OBVIOUS
  <2>6. b = [x |-> y, i |-> 1, abort |-> FALSE, offer |-> FALSE]
    BY <2>2, <2>3, <2>4, <2>5 DEF Start
  <2>7. /\ e \in Entry /\ e.typed /\ e.id = x.entries[u].id /\ e.kind = x.entries[u].kind
        /\ e.to = x.entries[u].to /\ e.data = x.entries[u].data
        /\ e.GotData = x.entries[u].GotData /\ e.header = x.entries[u].header
    BY <1>1, <2>2 DEF Entry
  <2>8. SamePage(x.entries[u], e) /\ PageOK(e, u)
    BY <1>1, <1>4, <2>7 DEF SamePage, PageOK
  <2>9. u \in x.conns \ {} => ~e.GotData
    BY <2>7 DEF Sound, ConnsOK
  <2>10. Rewrites(x, y, u, e)
    BY <2>3, <2>4 DEF Rewrites
  <2>11. Sound(y, {}, {}) /\ y \in StateType
    <3>1. Sound(y, {}, {})
      BY <2>7, <2>8, <2>9, <2>10, EntrySound
    <3> QED
      BY <3>1 DEF Sound
  <2>12. /\ y.entries = E /\ y.ClientQueue = x.ClientQueue
         /\ y.DelayedQueue = x.DelayedQueue /\ y.idle = x.idle /\ y.conns = x.conns
         /\ y.shifted = x.shifted /\ y.level = x.level
    BY <1>1, <2>4 DEF StateType
  <2>13. E[u] = e /\ \A v \in Urls \ {u} : E[v] = x.entries[v]
    <3>1. x.entries \in [Urls -> Entry]
      BY <1>1, MemberTypes
    <3> QED
      BY <2>3, <3>1
  <2>14. Cached(y, u)
    BY <2>7, <2>12, <2>13 DEF Cached
  <2>15. b \in LoopState /\ b.x = y /\ b.i = 1 /\ ~b.abort
    BY <2>6, <2>11 DEF LoopState
  <2>16. Served(y, b, u)
    <3>1. Since(y, y, {})
      BY <2>11, SinceSame
    <3>2. Held(y, y, u)
      BY HeldSame
    <3> QED
      BY <2>11, <2>15, <3>1, <3>2 DEF Served
  <2>17. Fine(y)
    <3>1. FineAt(y, u)
      BY <2>7, <2>12, <2>13 DEF Ready, FineAt
    <3>2. \A v \in Urls \ {u} : FineAt(y, v)
      BY <2>12, <2>13 DEF Ready, FineAt, Cached
    <3> QED
      BY <3>1, <3>2 DEF Fine
  <2>18. Places(y) = Places(x) /\ Waits(y) = Waits(x)
    BY <2>12 DEF Places, Waits
  <2>19. AllHeeded(y, {u}, D)
    <3>1. \A v \in Urls \ {u} : Heeded(x, v, D) => Heeded(y, v, D)
      BY <2>12, <2>13, <2>18 DEF Heeded
    <3>2. \A n \in Places(x) : x.ClientQueue[n].url \in Urls
      BY <1>1, MemberTypes
    <3> QED
      BY <2>12, <2>18, <3>1, <3>2 DEF Ready, AllHeeded
  <2>20. Loops(b, u, D)
    <3>1. Passed(y, u, 1)
      <4>1. \A n \in Places(y) : ~(n < 1)
        BY <2>11, MemberTypes DEF Places
      <4> QED
        BY <4>1 DEF Passed
    <3> QED
      BY <2>15, <2>17, <2>19, <3>1 DEF Loops
  <2>21. Weight(y, u) = Weight(x, u)
    <3>1. \A w \in Urls : y.entries[w].GotData = x.entries[w].GotData
      BY <2>7, <2>12, <2>13
    <3> QED
      BY <1>1, <2>12, <3>1, SameWeight
  <2>22. PICK s : s = f[N]
    OBVIOUS
  <2>23. /\ Loops(s, u, D) /\ Served(y, s, u)
         /\ Weight(s.x, u) <= Weight(y, u) /\ y.shifted \subseteq s.x.shifted
         /\ ~m => (s.abort => s.offer)
         /\ y.entries[u].GotData => s.i > Len(s.x.ClientQueue)
    <3>1. Served(b.x, b, u) /\ b.x.entries[u].typed
      BY <2>7, <2>12, <2>13, <2>15, <2>16
    <3>2. IsLoop(f, FALSE, b, u, m, N)
      BY <2>1, <2>5
    <3>3. b.i = 1 /\ ~b.abort
      BY <2>15
    <3>4. Looped(b, s, u, m, D)
      BY ONLY u \in Urls, <2>0, <2>20, <2>22, <3>1, <3>2, <3>3, LoopHeeded
    <3> QED
      BY <2>15, <3>4 DEF Looped
  <2>24. s.x.entries[u].GotData => s.i > Len(s.x.ClientQueue)
    BY <2>23 DEF Served, Held, SameBut
  <2>25. /\ Cared(s.x, r.x, u, D)
         /\ r.null /\ (s.abort => s.offer) => u \notin Waits(r.x)
    BY <2>1, <2>14, <2>22, <2>23, <2>24, OutcomeHeeded
  <2>26. /\ Weight(s.x, u) \in Nat /\ Weight(y, u) \in Nat /\ Weight(r.x, u) \in Nat
    <3>1. s.x \in StateType
      BY <2>23 DEF Served, Sound
    <3>2. r.x \in StateType
      <4>1. Processed(x, r, u)
        BY ProcessSound
      <4> QED
        BY <4>1 DEF Processed, Sound
    <3> QED
      BY <2>11, <3>1, <3>2, WeightType
  <2>27. Cared(x, r.x, u, D)
    BY <1>2, <2>12, <2>21, <2>23, <2>25, <2>26 DEF Cared
  <2>28. det = "doubt" => ~m
    BY <2>1
  <2> QED
    BY <2>23, <2>25, <2>27, <2>28
<1> QED
  BY <1>3, <1>4

\* How long DelayedQueue may still be.
Size(x) == Cardinality(Waits(x)) + Cardinality(Tokens(x))

LEMMA SizeType ==
  ASSUME NEW x, x \in StateType, NEW u
  PROVE  /\ Size(x) \in Nat
         /\ u \notin Waits(x) => Size(x) = Weight(x, u)
         /\ u \in Waits(x) => Weight(x, u) = Size(x) - 1
<1>1. IsFiniteSet(Waits(x))
  BY WaitsFinite
<1>2. Cardinality(Waits(x)) \in Nat
  BY <1>1, FS_CardinalityType
<1>3. Cardinality(Tokens(x)) \in Nat
  BY WeightType
<1>4. ASSUME u \notin Waits(x) PROVE Size(x) = Weight(x, u)
  <2>1. Waits(x) \ {u} = Waits(x)
    BY <1>4
  <2> QED
    BY <2>1 DEF Size, Weight
<1>5. ASSUME u \in Waits(x) PROVE Weight(x, u) = Size(x) - 1
  <2>1. Cardinality(Waits(x) \ {u}) = Cardinality(Waits(x)) - 1
    BY <1>1, <1>5, FS_RemoveElement
  <2> QED
    BY <1>2, <1>3, <2>1 DEF Size, Weight
<1> QED
  BY <1>2, <1>3, <1>4, <1>5 DEF Size

\* A change to entry u that leaves alone what serves its clients.
LEMMA EntryCare ==
  ASSUME NEW x, x \in StateType, NEW u \in Urls, NEW e, NEW y, Rewrites(x, y, u, e),
         e.id = x.entries[u].id, e.header = x.entries[u].header,
         e.typed = x.entries[u].typed, e.GotData = x.entries[u].GotData
  PROVE  SameCare(x, y) /\ y.ClientQueue = x.ClientQueue /\ y.level = x.level
<1>1. x.entries \in [Urls -> Entry]
  BY MemberTypes
<1>2. PICK E : E = [x.entries EXCEPT ![u] = e]
  OBVIOUS
<1>3. E[u] = e /\ \A v \in Urls \ {u} : E[v] = x.entries[v]
  BY <1>1, <1>2
<1>4. y = [x EXCEPT !.entries = E]
  BY <1>2 DEF Rewrites
<1>5. /\ y.entries = E /\ y.ClientQueue = x.ClientQueue
      /\ y.DelayedQueue = x.DelayedQueue /\ y.idle = x.idle /\ y.conns = x.conns
      /\ y.shifted = x.shifted /\ y.level = x.level
  BY <1>4 DEF StateType
<1> QED
  BY <1>3, <1>5 DEF SameCare

LEMMA RefCare ==
  ASSUME NEW x, x \in StateType, NEW u \in Urls, NEW n, NEW y, y = Ref(x, u, n)
  PROVE  SameCare(x, y) /\ y.ClientQueue = x.ClientQueue /\ y.level = x.level
<1>1. x.entries[u] \in Entry
  BY MemberTypes
<1>2. PICK e : e = [x.entries[u] EXCEPT !.refs = @ + n]
  OBVIOUS
<1>3. Rewrites(x, y, u, e)
  BY <1>2 DEF Rewrites, Ref
<1>4. /\ e.id = x.entries[u].id /\ e.header = x.entries[u].header
      /\ e.typed = x.entries[u].typed /\ e.GotData = x.entries[u].GotData
  BY <1>1, <1>2 DEF Entry
<1> QED
  BY <1>3, <1>4, EntryCare

\* What is true of x is true of y, where the same care is taken of the same clients.
LEMMA SameCared ==
  ASSUME NEW x, x \in StateType, NEW y, y \in StateType, SameCare(x, y),
         y.ClientQueue = x.ClientQueue, y.level = x.level, NEW u \in Urls, NEW D
  PROVE  /\ Weight(y, u) = Weight(x, u) /\ Waits(y) = Waits(x)
         /\ FedAt(x, u, D) => FedAt(y, u, D)
         /\ Fine(x) => Fine(y)
         /\ \A U : AllHeeded(x, U, D) => AllHeeded(y, U, D)
         /\ Cached(y, u) <=> Cached(x, u)
<1>1. /\ Waits(y) = Waits(x)
      /\ Fine(x) => Fine(y)
  BY CareKept
<1>2. \A U : AllHeeded(x, U, D) => AllHeeded(y, U, D)
  BY CareKept
<1>3. /\ \A w \in Urls : y.entries[w].GotData = x.entries[w].GotData
      /\ y.DelayedQueue = x.DelayedQueue
  BY DEF SameCare
<1>4. Weight(y, u) = Weight(x, u)
  BY <1>3, SameWeight
<1>5. Places(y) = Places(x)
  BY DEF Places
<1>6. FedAt(x, u, D) => FedAt(y, u, D)
  BY <1>5 DEF SameCare, FedAt
<1>7. Cached(y, u) <=> Cached(x, u)
  BY DEF SameCare, Cached
<1> QED
  BY <1>1, <1>2, <1>4, <1>6, <1>7

\* The timeout takes the first of DelayedQueue out of it.
LEMMA NextHeeded ==
  ASSUME NEW x, Sound(x, {}, {}), Fine(x), NEW D, AllHeeded(x, {}, D),
         NEW y, y = DelayedNext(x), y \in StateType
  PROVE  /\ Fine(y) /\ AllHeeded(y, {}, D)
         /\ x.DelayedQueue # <<>> => Size(y) <= Size(x) - 1
<1>1. CASE x.DelayedQueue = <<>>
  BY <1>1 DEF DelayedNext
<1>2. CASE x.DelayedQueue # <<>>
  <2>1. x \in StateType /\ QueuesOK(x)
    BY DEF Sound
  <2>2. PICK u : u = Head(x.DelayedQueue)[1]
    OBVIOUS
  <2>3. 1 \in 1 .. Len(x.DelayedQueue) /\ Head(x.DelayedQueue) = x.DelayedQueue[1]
    <3>1. x.DelayedQueue \in Seq(Urls \X Nat)
      BY <2>1, MemberTypes
    <3> QED
      BY <1>2, <3>1
  <2>4. u \in Urls /\ Cached(x, u) /\ u \in Waits(x)
    BY <2>1, <2>2, <2>3, MemberTypes DEF QueuesOK, Cached, Waits
  <2>5. PICK a : a = Ref(x, u, 1)
    OBVIOUS
  <2>6. PICK r : r = Cache_process_queue(a, u, "doubt")
    OBVIOUS
  <2>7. y = IF r.null THEN r.x ELSE Undelay(Ref(r.x, u, -1), u)
    BY <1>2, <2>2, <2>5, <2>6 DEF DelayedNext
  <2>8. Sound(a, {}, {}) /\ a \in StateType
    <3>1. Sound(a, {}, {})
      BY <2>4, <2>5, RefSound
    <3> QED
      BY <3>1 DEF Sound
  <2>9. /\ SameCare(x, a) /\ a.ClientQueue = x.ClientQueue /\ a.level = x.level
    BY <2>1, <2>4, <2>5, RefCare
  <2>10. /\ Weight(a, u) = Weight(x, u) /\ Fine(a) /\ AllHeeded(a, {}, D) /\ Cached(a, u)
    BY <2>1, <2>4, <2>8, <2>9, SameCared
  <2>11. Ready(a, u, "doubt", D)
    <3>1. FineAt(a, u) /\ \A v \in Urls \ {u} : FineAt(a, v)
      BY <2>4, <2>10 DEF Fine
    <3>2. AllHeeded(a, {u}, D)
      BY <2>10 DEF AllHeeded
    <3> QED
      BY <2>10, <3>1, <3>2 DEF Ready, FineAt
  <2>12. Cared(a, r.x, u, D) /\ (r.null => u \notin Waits(r.x))
    BY <2>4, <2>6, <2>8, <2>10, <2>11, ProcessHeeded
  <2>13. Sound(r.x, {}, {}) /\ r.x \in StateType /\ QueuesOK(r.x)
    <3>1. Processed(a, r, u)
      BY <2>4, <2>6, <2>8, <2>10, ProcessSound
    <3> QED
      BY <3>1 DEF Processed, Sound
  <2>14. /\ Weight(x, u) = Size(x) - 1 /\ Size(x) \in Nat
         /\ u \notin Waits(y) => Size(y) = Weight(y, u)
    BY <2>1, <2>4, SizeType
  <2>15. /\ Fine(r.x) /\ AllHeeded(r.x, {u}, D) /\ FedAt(r.x, u, D)
         /\ Weight(r.x, u) <= Size(x) - 1
    BY <2>10, <2>12, <2>14 DEF Cared
  <2>16. CASE r.null
    <3>1. y = r.x /\ u \notin Waits(y)
      BY <2>7, <2>12, <2>16
    <3> QED
      BY <2>14, <2>15, <3>1, FedHeedsAll
  <2>17. CASE ~r.null
    <3>1. PICK d : d = Ref(r.x, u, -1)
      OBVIOUS
    <3>2. y = Undelay(d, u)
      BY <2>7, <2>17, <3>1
    <3>3. Sound(d, {}, {}) /\ d \in StateType /\ QueuesOK(d)
      <4>1. Sound(d, {}, {})
        BY <2>4, <2>13, <3>1, RefSound
      <4> QED
        BY <4>1 DEF Sound
    <3>4. SameCare(r.x, d) /\ d.ClientQueue = r.x.ClientQueue /\ d.level = r.x.level
      BY <2>4, <2>13, <3>1, RefCare
    <3>5. /\ Weight(d, u) = Weight(r.x, u) /\ FedAt(d, u, D)
          /\ Fine(d) /\ AllHeeded(d, {u}, D)
      BY <2>4, <2>13, <2>15, <3>3, <3>4, SameCared
    <3>6. SameRest(d, y) /\ y.ClientQueue = d.ClientQueue
      BY <3>2, <3>3, UndelayFields
    <3>7. Departs(d, y, u) /\ u \notin Waits(y)
      BY <3>2, <3>3, UndelayDeparts
    <3>8. FineAt(y, u)
      BY <2>4, <3>5, <3>6 DEF SameRest, Fine, FineAt, Cached
    <3>9. /\ Fine(y) /\ AllHeeded(y, {u}, D) /\ Weight(y, u) <= Weight(d, u)
      BY <2>4, <3>3, <3>5, <3>7, <3>8, DepartsCared
    <3>10. FedAt(y, u, D)
      BY <3>5, <3>6 DEF FedAt, SameRest, Places
    <3>11. AllHeeded(y, {}, D)
      BY <3>9, <3>10, FedHeedsAll
    <3>12. Weight(y, u) \in Nat /\ Weight(d, u) \in Nat
      BY <3>3, WeightType
    <3>13. Size(y) <= Size(x) - 1
      BY <2>14, <2>15, <3>5, <3>7, <3>9, <3>12
    <3> QED
      BY <3>9, <3>11, <3>13
  <2> QED
    BY <2>16, <2>17
<1> QED
  BY <1>1, <1>2

\* An empty queue is one that nothing waits in.
LEMMA NothingWaits ==
  ASSUME NEW x, x \in StateType
  PROVE  /\ x.DelayedQueue = <<>> => Waits(x) = {}
         /\ x.DelayedQueue # <<>> => Size(x) >= 1
<1>1. x.DelayedQueue \in Seq(Urls \X Nat) /\ Len(x.DelayedQueue) \in Nat
  BY MemberTypes
<1>2. ASSUME x.DelayedQueue = <<>> PROVE Waits(x) = {}
  <2>1. 1 .. Len(x.DelayedQueue) = {}
    BY <1>2
  <2> QED
    BY <2>1 DEF Waits
<1>3. ASSUME x.DelayedQueue # <<>> PROVE Size(x) >= 1
  <2>1. 1 \in 1 .. Len(x.DelayedQueue)
    BY <1>1, <1>3
  <2>2. PICK u : u = x.DelayedQueue[1][1]
    OBVIOUS
  <2>3. u \in Waits(x)
    BY <2>1, <2>2 DEF Waits
  <2>4. Weight(x, u) = Size(x) - 1 /\ Size(x) \in Nat /\ Weight(x, u) \in Nat
    BY <2>3, SizeType, WeightType
  <2> QED
    BY <2>4
<1> QED
  BY <1>2, <1>3

\* The loop of Cache_delayed_process_queue_callback is long enough: when the timeout is
\* over there is nothing left that waits for it.
LEMMA DelayedHeeded ==
  ASSUME NEW x, Sound(x, {}, {}), Balanced(x), Fine(x), NEW D, AllHeeded(x, {}, D),
         NEW y, y = Delayed(x), y \in StateType
  PROVE  Fine(y) /\ AllHeeded(y, {}, D)
<1>1. PICK N : N = Cardinality(Urls) + RedirectLimit * Cardinality(Keys)
  OBVIOUS
<1>2. N \in Nat
  BY <1>1, LoopLengths
<1>3. PICK f : IsLoop(f, TRUE, x, x, x, N) /\ y = [f[N] EXCEPT !.idle = FALSE]
  BY <1>1, DelayedEnds
<1>4. \A k \in 0 .. N : f[k] = IF k = 0 THEN x ELSE DelayedNext(f[k - 1])
  BY <1>3 DEF IsLoop, Step
<1> DEFINE P(z, k) == /\ Sound(z, {}, {}) /\ Balanced(z) /\ Fine(z) /\ AllHeeded(z, {}, D)
                      /\ z.DelayedQueue # <<>> => Size(z) <= N - k
           B == {k \in 0 .. N : ~P(f[k], k)}
<1>5. P(x, 0)
  <2>1. x \in StateType
    BY DEF Sound
  <2>2. PICK m : m = RedirectLimit * Cardinality(Keys)
    OBVIOUS
  <2>3. Cardinality(Tokens(x)) <= m /\ Cardinality(Tokens(x)) \in Nat
    BY <2>1, <2>2, TokensFinite, WeightType
  <2>4. PICK W : W = Waits(x)
    OBVIOUS
  <2>5. /\ IsFiniteSet(Urls) /\ W \in SUBSET Urls /\ IsFiniteSet(W)
    BY <2>1, <2>4, WaitsFinite, CacheAssumption
  <2>6. /\ Cardinality(W) <= Cardinality(Urls)
        /\ Cardinality(W) \in Nat /\ Cardinality(Urls) \in Nat
    BY <2>5, FS_Subset, FS_CardinalityType
  <2>7. m \in Nat
    <3>1. RedirectLimit \in Nat /\ Cardinality(Keys) \in Nat
      BY CacheAssumption, FS_CardinalityType
    <3> QED
      BY <2>2, <3>1
  <2>8. Size(x) = Cardinality(W) + Cardinality(Tokens(x)) /\ N = Cardinality(Urls) + m
    BY <1>1, <2>2, <2>4 DEF Size
  <2>9. Size(x) <= N - 0
    BY <2>3, <2>6, <2>7, <2>8
  <2> QED
    BY <2>9
<1>6. P(f[N], N)
  <2>1. SUFFICES ASSUME B # {} PROVE FALSE
    BY <1>2
  <2>2. PICK k \in B : \A j \in B : k <= j
    <3>1. B \in SUBSET Nat
      BY <1>2
    <3> QED
      BY <2>1, <3>1, LeastOf
  <2>3. k # 0
    BY <1>2, <1>4, <1>5, <2>2
  <2>4. k - 1 \in 0 .. N /\ k \in 0 .. N /\ ~(k <= k - 1)
    BY <1>2, <2>2, <2>3
  <2>5. P(f[k - 1], k - 1)
    BY <2>2, <2>4
  <2>6. PICK z : z = f[k - 1]
    OBVIOUS
  <2>7. PICK v : v = DelayedNext(z)
    OBVIOUS
  <2>8. f[k] = v
    BY <1>4, <2>3, <2>4, <2>6, <2>7
  <2>9. P(z, k - 1)
    BY <2>5, <2>6
  <2>10. Sound(v, {}, {}) /\ Balanced(v)
    BY <2>7, <2>9, DelayedNextSound
  <2>11. v \in StateType /\ z \in StateType
    BY <2>9, <2>10 DEF Sound
  <2>12. /\ Fine(v) /\ AllHeeded(v, {}, D)
         /\ z.DelayedQueue # <<>> => Size(v) <= Size(z) - 1
    BY <2>7, <2>9, <2>11, NextHeeded
  <2>13. z.DelayedQueue = <<>> => v = z
    BY <2>7 DEF DelayedNext
  <2>14. ASSUME v.DelayedQueue # <<>> PROVE Size(v) <= N - k
    <3>1. z.DelayedQueue # <<>>
      BY <2>13, <2>14
    <3>2. Size(v) \in Nat /\ Size(z) \in Nat
      BY <2>11, SizeType
    <3> QED
      BY <1>2, <2>4, <2>9, <2>12, <3>1, <3>2
  <2>15. P(v, k)
    BY <2>10, <2>12, <2>14
  <2> QED
    BY <2>2, <2>8, <2>15
<1>7. PICK z : z = f[N]
  OBVIOUS
<1>8. P(z, N) /\ z \in StateType
  BY <1>6, <1>7 DEF Sound
<1>9. Waits(z) = {}
  <2>1. Size(z) \in Nat /\ N - N = 0
    BY <1>2, <1>8, SizeType
  <2> QED
    BY <1>8, <2>1, NothingWaits
<1>10. /\ y.ClientQueue = z.ClientQueue /\ y.entries = z.entries
       /\ y.conns = z.conns /\ y.shifted = z.shifted
  BY <1>3, <1>7, <1>8 DEF StateType
<1>11. Fine(y)
  BY <1>8, <1>10 DEF Fine, FineAt, Cached
<1>12. \A w : Heeded(z, w, D) => Heeded(y, w, D)
  BY <1>9, <1>10 DEF Heeded
<1>13. AllHeeded(y, {}, D)
  BY <1>8, <1>10, <1>12 DEF AllHeeded, Places
<1> QED
  BY <1>11, <1>13

\* Whoever waits is served, and entries are received until they are at their end.
Heeds == Fine(c) /\ AllHeeded(c, {}, stopped)

\* Entry u of x, whose connection is there or over, is processed.
LEMMA ProcessHeeds ==
  ASSUME NEW x, Sound(x, {}, {}), NEW u \in Urls, Cached(x, u), NEW det,
         det # "doubt" => x.entries[u].data > 0 \/ x.entries[u].GotData,
         NEW D, Ready(x, u, det, D), NEW r, r = Cache_process_queue(x, u, det)
  PROVE  Fine(r.x) /\ AllHeeded(r.x, {}, D)
<1>1. Cared(x, r.x, u, D)
  BY ProcessHeeded
<1>2. Fine(r.x) /\ AllHeeded(r.x, {u}, D) /\ FedAt(r.x, u, D)
  BY <1>1 DEF Cared
<1> QED
  BY <1>2, FedHeedsAll

LEMMA OpenHeeds ==
  ASSUME IInv, Heeds, IInv', Open
  PROVE  Heeds'
<1>1. PICK k \in Keys, u \in Urls, root, reload \in BOOLEAN :
        New(k) /\ Notes(a_Cache_open_url(c, k, u, root, reload))
  BY DEF Open
<1>2. PICK y : y = a_Cache_open_url(c, k, u, root, reload)
  OBVIOUS
<1>3. c' = y /\ stopped' = stopped
  BY <1>1, <1>2 DEF Notes, Left
<1>4. Sound(c, {}, {}) /\ c \in StateType /\ y \in StateType
  BY <1>3 DEF IInv, Sound
<1>5. ~Has(c, k)
  BY <1>1, <1>4, KeysAre DEF New
<1>6. Opened(c, y, u, k)
  BY <1>1, <1>2, <1>4, <1>5, OpenOpened
<1>7. Fine(y) /\ AllHeeded(y, {}, stopped)
  BY <1>4, <1>6, OpenedHeeded DEF Heeds
<1> QED
  BY <1>3, <1>7 DEF Heeds

LEMMA HeaderHeeds ==
  ASSUME IInv, Heeds, IInv', Header
  PROVE  Heeds'
<1>1. PICK u \in c.conns :
        /\ Cached(c, u) /\ ~c.entries[u].header
        /\ \E kind \in Kinds \ {"loop"}, to \in Urls \ {u} :
             /\ kind \in CA_Redirect => kind \in May
             /\ Notes(Ref([c EXCEPT !.entries[u].header = TRUE,
                                    !.entries[u].kind = kind,
                                    !.entries[u].to = IF kind \in CA_Redirect
                                                      THEN to ELSE None], u, 1))
  BY Zenon DEF Header
<1>2. PICK kind \in Kinds \ {"loop"}, to \in Urls \ {u} :
        /\ kind \in CA_Redirect => kind \in May
        /\ Notes(Ref([c EXCEPT !.entries[u].header = TRUE,
                               !.entries[u].kind = kind,
                               !.entries[u].to = IF kind \in CA_Redirect
                                                 THEN to ELSE None], u, 1))
  BY <1>1, Zenon
<1>3. PICK t : t = IF kind \in CA_Redirect THEN to ELSE None
  OBVIOUS
<1>4. PICK h : h = [c EXCEPT !.entries[u].header = TRUE, !.entries[u].kind = kind,
                             !.entries[u].to = t]
  OBVIOUS
<1>5. PICK e : e = [c.entries[u] EXCEPT !.header = TRUE, !.kind = kind, !.to = t]
  OBVIOUS
<1>6. PICK y : y = Ref(h, u, 1)
  OBVIOUS
<1>7. c' = y /\ stopped' = stopped
  BY <1>2, <1>3, <1>4, <1>6 DEF Notes, Left
<1>8. /\ u \in c.conns /\ u \in Urls /\ ~c.entries[u].header /\ kind \in Kinds
      /\ t \in Urls \cup {None} /\ (kind \in CA_Redirect => t \in Urls \ {u})
      /\ c \in StateType /\ ConnsOK(c, {})
  BY <1>1, <1>2, <1>3, Parts
<1>9. HeaderOf(u, kind, t, e, h)
  BY <1>4, <1>5 DEF HeaderOf
<1>10. Rewrites(c, h, u, e) /\ Sound(h, {}, {}) /\ e.GotData = c.entries[u].GotData
  BY ONLY IInv, <1>8, <1>9, HeaderBegins
<1>11. h \in StateType /\ y \in StateType
  BY <1>7, <1>10 DEF IInv, Sound
<1>12. PICK E : E = [c.entries EXCEPT ![u] = e]
  OBVIOUS
<1>13. h = [c EXCEPT !.entries = E]
  BY <1>10, <1>12 DEF Rewrites
<1>14. /\ h.entries = E /\ h.ClientQueue = c.ClientQueue
       /\ h.DelayedQueue = c.DelayedQueue /\ h.idle = c.idle /\ h.conns = c.conns
       /\ h.shifted = c.shifted
  BY <1>8, <1>13 DEF StateType
<1>15. E[u] = e /\ \A v \in Urls \ {u} : E[v] = c.entries[v]
  <2>1. c.entries \in [Urls -> Entry]
    BY <1>8, MemberTypes
  <2> QED
    BY <1>8, <1>12, <2>1
<1>16. ~e.GotData
  BY <1>8, <1>10 DEF ConnsOK
<1>17. Waits(h) = Waits(c) /\ Places(h) = Places(c)
  BY <1>14 DEF Waits, Places
<1>18. Fine(h)
  <2>1. FineAt(h, u)
    BY <1>8, <1>14, <1>15, <1>16 DEF FineAt
  <2>2. \A v \in Urls \ {u} : FineAt(h, v)
    BY <1>14, <1>15 DEF Heeds, Fine, FineAt, Cached
  <2> QED
    BY <2>1, <2>2 DEF Fine
<1>19. AllHeeded(h, {}, stopped)
  <2>1. \A v \in Urls \ {u} : Heeded(c, v, stopped) => Heeded(h, v, stopped)
    BY <1>14, <1>15, <1>17 DEF Heeded
  <2>2. Heeded(h, u, stopped)
    BY <1>8, <1>14 DEF Heeded
  <2>3. \A n \in Places(c) : c.ClientQueue[n].url \in Urls
    BY <1>8, MemberTypes
  <2> QED
    BY <1>14, <1>17, <2>1, <2>2, <2>3 DEF Heeds, AllHeeded
<1>20. SameCare(h, y) /\ y.ClientQueue = h.ClientQueue /\ y.level = h.level
  BY <1>6, <1>8, <1>11, RefCare
<1>21. Fine(y) /\ AllHeeded(y, {}, stopped)
  BY <1>8, <1>11, <1>18, <1>19, <1>20, SameCared
<1> QED
  BY <1>7, <1>21 DEF Heeds

LEMMA ConnFailsHeeds ==
  ASSUME IInv, Heeds, IInv', ConnFails
  PROVE  Heeds'
<1>1. PICK u \in c.conns : Notes(a_Capi_conn_abort_by_url(c, u))
  BY DEF ConnFails
<1>2. PICK y : y = a_Capi_conn_abort_by_url(c, u)
  OBVIOUS
<1>3. c' = y /\ stopped' = stopped
  BY <1>1, <1>2 DEF Notes, Left
<1>4. /\ Sound(c, {}, {}) /\ c \in StateType /\ QueuesOK(c) /\ u \in Urls
      /\ y \in StateType /\ QueuesOK(y)
  BY <1>1, <1>3, Parts DEF IInv, Sound
<1>5. ~Cached(y, u)
  BY <1>1, <1>2, <1>4, AbortSound
<1>6. Departs(c, y, u) /\ FineAt(y, u)
  BY <1>2, <1>4, AbortDeparts DEF Heeds, Fine
<1>7. AllHeeded(c, {u}, stopped) /\ Fine(c)
  BY DEF Heeds, AllHeeded
<1>8. Fine(y) /\ AllHeeded(y, {u}, stopped)
  BY <1>4, <1>6, <1>7, DepartsCared
<1>9. FedAt(y, u, stopped)
  BY <1>4, <1>5, NoneLeft DEF FedAt
<1>10. AllHeeded(y, {}, stopped)
  BY <1>8, <1>9, FedHeedsAll
<1> QED
  BY <1>3, <1>8, <1>10 DEF Heeds

LEMMA TimeoutHeeds ==
  ASSUME IInv, Heeds, IInv', Timeout
  PROVE  Heeds'
<1>1. PICK y : y = Delayed(c)
  OBVIOUS
<1>2. c' = y /\ stopped' = stopped
  BY <1>1 DEF Timeout, Notes, Left
<1>3. Sound(c, {}, {}) /\ Balanced(c) /\ y \in StateType
  BY <1>2, Parts DEF IInv, Sound
<1>4. Fine(y) /\ AllHeeded(y, {}, stopped)
  BY <1>1, <1>3, DelayedHeeded DEF Heeds
<1> QED
  BY <1>2, <1>4 DEF Heeds

LEMMA DataHeeds ==
  ASSUME IInv, Heeds, IInv', Data
  PROVE  Heeds'
<1>1. PICK u \in c.conns, det \in Detected \cup {"doubt"} :
        /\ c.entries[u].header /\ c.entries[u].data < MaxData
        /\ c.entries[u].typed => det = "match"
        /\ Notes(Cache_process_queue([c EXCEPT !.entries[u].data = @ + 1], u, det).x)
  BY DEF Data
<1>2. PICK x : x = [c EXCEPT !.entries[u].data = @ + 1]
  OBVIOUS
<1>3. PICK e : e = [c.entries[u] EXCEPT !.data = @ + 1]
  OBVIOUS
<1>4. PICK r : r = Cache_process_queue(x, u, det)
  OBVIOUS
<1>5. c' = r.x /\ stopped' = stopped
  BY <1>1, <1>2, <1>4 DEF Notes, Left
<1>6. DataOf(u, e, x)
  BY <1>2, <1>3 DEF DataOf
<1>7. u \in c.conns /\ u \in Urls /\ c.entries[u].data < MaxData /\ c \in StateType
  BY <1>1, Parts
<1>8. /\ Rewrites(c, x, u, e) /\ Renewed(c.entries[u], e)
      /\ e.header = c.entries[u].header /\ e.GotData = c.entries[u].GotData
      /\ e.data > 0 /\ e.id # 0 /\ ~e.GotData /\ Sound(x, {}, {}) /\ x.entries[u] = e
      /\ x.conns = c.conns
  BY ONLY IInv, <1>6, <1>7, DataBegins
<1>9. x \in StateType
  BY <1>8 DEF Sound
<1>10. SameCare(c, x) /\ x.ClientQueue = c.ClientQueue /\ x.level = c.level
  BY <1>7, <1>8, EntryCare DEF Renewed
<1>11. Fine(x) /\ AllHeeded(x, {}, stopped)
  BY <1>7, <1>9, <1>10, SameCared DEF Heeds
<1>12. Ready(x, u, det, stopped)
  <2>1. \A v \in Urls \ {u} : FineAt(x, v)
    BY <1>11 DEF Fine
  <2>2. AllHeeded(x, {u}, stopped)
    BY <1>11 DEF AllHeeded
  <2> QED
    BY <1>7, <1>8, <2>1, <2>2 DEF Ready
<1>13. Cached(x, u) /\ x.entries[u].data > 0
  BY <1>8 DEF Cached
<1>14. Fine(r.x) /\ AllHeeded(r.x, {}, stopped)
  BY <1>4, <1>7, <1>8, <1>12, <1>13, ProcessHeeds
<1> QED
  BY <1>5, <1>14 DEF Heeds

LEMMA CloseHeeds ==
  ASSUME IInv, Heeds, IInv', Close
  PROVE  Heeds'
<1>1. PICK u \in c.conns, det \in Detected : Cached(c, u) /\ Notes(Cache_close(c, u, det))
  BY DEF Close
<1>2. PICK b : b = [c EXCEPT !.conns = @ \ {u}]
  OBVIOUS
<1>3. PICK e : e = [c.entries[u] EXCEPT !.GotData = TRUE]
  OBVIOUS
<1>4. PICK x : x = [b EXCEPT !.entries[u] = e]
  OBVIOUS
<1>5. PICK r : r = Cache_process_queue(x, u, det)
  OBVIOUS
<1>6. PICK y : y = IF ~r.null /\ c.entries[u].header THEN Ref(r.x, u, -1) ELSE r.x
  OBVIOUS
<1>7. u \in c.conns /\ u \in Urls /\ Cached(c, u) /\ c \in StateType
  BY <1>1, Parts
<1>8. c' = y /\ stopped' = stopped
  <2>1. x = [c EXCEPT !.entries[u].GotData = TRUE, !.conns = @ \ {u}]
    BY <1>2, <1>3, <1>4, <1>7 DEF StateType
  <2> QED
    BY <1>1, <1>5, <1>6, <2>1 DEF Notes, Left, Cache_close
<1>9. CloseOf(u, b, e, x)
  BY <1>2, <1>3, <1>4 DEF CloseOf
<1>10. /\ b \in StateType /\ b.conns = c.conns \ {u} /\ b.entries = c.entries
       /\ b.ClientQueue = c.ClientQueue /\ b.DelayedQueue = c.DelayedQueue
       /\ b.idle = c.idle /\ b.shifted = c.shifted /\ Rewrites(b, x, u, e)
  BY ONLY IInv, <1>7, <1>9, CloseBegins
<1>11. /\ Rewrites(b, x, u, e) /\ Renewed(c.entries[u], e) /\ e.GotData
       /\ Sound(x, {}, {}) /\ x.conns = b.conns
       /\ x.ClientQueue = b.ClientQueue /\ x.entries[u] = e
       /\ \A v \in Urls \ {u} : x.entries[v] = b.entries[v]
  BY ONLY IInv, <1>7, <1>9, CloseBegins
<1>12. /\ x.DelayedQueue = c.DelayedQueue /\ x.idle = c.idle /\ x.shifted = c.shifted
  <2>1. PICK E : E = [b.entries EXCEPT ![u] = e]
    OBVIOUS
  <2>2. x = [b EXCEPT !.entries = E]
    BY <1>10, <2>1 DEF Rewrites
  <2> QED
    BY <1>10, <2>2 DEF StateType
<1>13. Places(x) = Places(c) /\ Waits(x) = Waits(c)
  BY <1>10, <1>11, <1>12 DEF Places, Waits
<1>14. Ready(x, u, det, stopped)
  <2>1. \A v \in Urls \ {u} : FineAt(x, v)
    BY <1>10, <1>11 DEF Heeds, Fine, FineAt, Cached
  <2>2. \A v \in Urls \ {u} : Heeded(c, v, stopped) => Heeded(x, v, stopped)
    BY <1>10, <1>11, <1>12, <1>13 DEF Heeded
  <2>3. \A n \in Places(c) : c.ClientQueue[n].url \in Urls
    BY <1>7, MemberTypes
  <2>4. AllHeeded(x, {u}, stopped)
    BY <1>10, <1>11, <1>13, <2>2, <2>3 DEF Heeds, AllHeeded
  <2>5. det # "doubt"
    BY <1>1 DEF Detected
  <2> QED
    BY <1>11, <2>1, <2>4, <2>5 DEF Ready
<1>15. Cached(x, u) /\ x.entries[u].GotData
  BY <1>7, <1>11 DEF Cached, Renewed
<1>16. Fine(r.x) /\ AllHeeded(r.x, {}, stopped)
  BY <1>5, <1>7, <1>11, <1>14, <1>15, ProcessHeeds
<1>17. Fine(y) /\ AllHeeded(y, {}, stopped)
  <2>1. CASE y = r.x
    BY <1>16, <2>1
  <2>2. CASE y = Ref(r.x, u, -1)
    <3>1. Processed(x, r, u)
      BY <1>5, <1>7, <1>11, <1>15, ProcessSound
    <3>2. r.x \in StateType /\ y \in StateType
      BY <1>8, <3>1 DEF Processed, IInv, Sound
    <3>3. SameCare(r.x, y) /\ y.ClientQueue = r.x.ClientQueue /\ y.level = r.x.level
      BY <1>7, <2>2, <3>2, RefCare
    <3> QED
      BY <1>7, <1>16, <3>2, <3>3, SameCared
  <2> QED
    BY <1>6, <2>1, <2>2
<1> QED
  BY <1>8, <1>17 DEF Heeds

LEMMA StopHeeds ==
  ASSUME IInv, Heeds, IInv', Stop
  PROVE  Heeds'
<1>1. PICK n \in DOMAIN c.ClientQueue, force \in BOOLEAN :
        /\ Left(a_Cache_stop_client(c, c.ClientQueue[n], force))
        /\ stopped' = stopped \cup {c.ClientQueue[n].url}
  BY DEF Stop
<1>2. Sound(c, {}, {}) /\ c \in StateType /\ QueuesOK(c)
  BY Parts
<1>3. PICK cl : cl = c.ClientQueue[n]
  OBVIOUS
<1>4. PICK v : v = cl.url
  OBVIOUS
<1>5. v \in Urls
  <2>1. n \in Places(c)
    BY <1>1, <1>2, MemberTypes DEF Places
  <2> QED
    BY <1>2, <1>3, <1>4, <2>1, MemberTypes
<1>6. PICK y : y = a_Cache_stop_client(c, cl, force)
  OBVIOUS
<1>7. PICK a : /\ a \in {c, a_Capi_conn_abort_by_url(c, v)}
               /\ y = IF cl.key \in KeysIn(a) THEN Dequeue(Undelay(a, v), {cl.key}) ELSE a
  BY <1>4, <1>6 DEF a_Cache_stop_client
<1>8. PICK D : D = stopped \cup {v}
  OBVIOUS
<1>9. c' = y /\ stopped' = D /\ y \in StateType
  BY <1>1, <1>3, <1>4, <1>6, <1>8 DEF Left, IInv, Sound
<1>10. Departs(c, a, v) /\ FineAt(a, v) /\ a \in StateType /\ QueuesOK(a)
  <2>1. CASE a = c
    BY <1>2, <1>5, <2>1, DepartsSame DEF Heeds, Fine
  <2>2. CASE a = a_Capi_conn_abort_by_url(c, v)
    <3>1. Sound(a, {}, {})
      BY <1>2, <1>5, <2>2, AbortSound
    <3>2. Departs(c, a, v) /\ FineAt(a, v)
      BY <1>2, <1>5, <2>2, AbortDeparts DEF Heeds, Fine
    <3> QED
      BY <3>1, <3>2 DEF Sound
  <2> QED
    BY <1>7, <2>1, <2>2
<1>11. Departs(c, y, v) /\ FineAt(y, v)
  <2>1. CASE y = a
    BY <1>10, <2>1
  <2>2. CASE y = Dequeue(Undelay(a, v), {cl.key})
    <3>1. PICK d : d = Undelay(a, v)
      OBVIOUS
    <3>2. Departs(a, d, v) /\ d \in StateType /\ SameRest(a, d)
      BY <1>10, <3>1, UndelayDeparts, UndelayFields
    <3>3. PICK K : K = {cl.key}
      OBVIOUS
    <3>4. y = Dequeue(d, K)
      BY <2>2, <3>1, <3>3
    <3>5. Departs(d, y, v) /\ SameRest(d, y)
      BY <3>2, <3>4, DequeueDeparts, DequeueFields
    <3>6. Departs(c, y, v)
      BY <1>2, <1>10, <3>2, <3>5, DepartsChain
    <3>7. FineAt(y, v)
      BY <1>10, <3>2, <3>5 DEF SameRest, FineAt, Cached
    <3> QED
      BY <3>6, <3>7
  <2> QED
    BY <1>7, <2>1, <2>2
<1>12. AllHeeded(c, {v}, D) /\ Fine(c)
  BY <1>8 DEF Heeds, AllHeeded, Heeded
<1>13. Fine(y) /\ AllHeeded(y, {v}, D)
  BY <1>2, <1>5, <1>9, <1>11, <1>12, DepartsCared
<1>14. FedAt(y, v, D)
  BY <1>8 DEF FedAt
<1>15. AllHeeded(y, {}, D)
  BY <1>13, <1>14, FedHeedsAll
<1> QED
  BY <1>9, <1>13, <1>15 DEF Heeds

LEMMA InitHeeds ==
  ASSUME Init
  PROVE  Heeds
<1>1. c.entries = [u \in Urls |-> Nobody] /\ c.ClientQueue = <<>>
  BY DEF Init
<1>2. \A u \in Urls : c.entries[u] = Nobody
  BY <1>1
<1>3. Fine(c)
  BY <1>2 DEF Fine, FineAt, Cached, Nobody
<1>4. Places(c) = {}
  BY <1>1 DEF Places
<1> QED
  BY <1>3, <1>4 DEF Heeds, AllHeeded

\* The inductive invariant.
FInv == IInv /\ Heeds

LEMMA FInvHolds == Spec => []FInv
<1>1. Init => FInv
  BY InitHolds, InitHeeds DEF FInv
<1>2. FInv /\ [Next]_vars => FInv'
  <2>1. ASSUME IInv, Heeds, Next PROVE IInv' /\ Heeds'
    <3>1. IInv'
      BY <2>1, NextHolds
    <3> QED
      BY <2>1, <3>1, OpenHeeds, HeaderHeeds, DataHeeds, CloseHeeds, ConnFailsHeeds,
         TimeoutHeeds, StopHeeds DEF Next
  <2>2. ASSUME IInv, Heeds, UNCHANGED vars PROVE IInv' /\ Heeds'
    BY <2>2 DEF vars, IInv, Unborn, Heeds
  <2> QED
    BY <2>1, <2>2 DEF FInv
<1> QED
  BY <1>1, <1>2, PTL DEF Spec

\* Whoever waits for a page, as the first or later and before, between or after its
\* data, is served by its connection or by the timeout, unless a stop, a redirection
\* or an answer without a header disturbed the page: Cache_process_queue reaches
\* every client of the page and the timeout every page of DelayedQueue, whatever is
\* removed, opened and redirected under way.
THEOREM WaitersAreServed == Spec => []FedFromCache
<1>1. ASSUME FInv PROVE FedFromCache
  <2>1. /\ c \in StateType /\ QueuesOK(c) /\ AllHeeded(c, {}, stopped)
        /\ c.ClientQueue \in Seq(Client) /\ c.DelayedQueue \in Seq(Urls \X Nat)
    <3>1. c \in StateType /\ QueuesOK(c)
      BY <1>1 DEF FInv, IInv, Sound
    <3> QED
      BY <1>1, <3>1, MemberTypes DEF FInv, Heeds
  <2>2. ASSUME NEW n \in Places(c)
        PROVE  Awaited(c.ClientQueue[n]) \/ Disturbed(c.ClientQueue[n].url)
    <3>1. PICK cl : cl = c.ClientQueue[n]
      OBVIOUS
    <3>2. Heeded(c, cl.url, stopped) /\ cl.id = c.entries[cl.url].id
      BY <2>1, <3>1 DEF AllHeeded, QueuesOK
    <3>3. ASSUME cl.url \in Waits(c) PROVE <<cl.url, cl.id>> \in Range(c.DelayedQueue)
      <4>1. PICK i \in 1 .. Len(c.DelayedQueue) : c.DelayedQueue[i][1] = cl.url
        BY <3>3 DEF Waits
      <4>2. PICK d : d = c.DelayedQueue[i]
        OBVIOUS
      <4>3. d \in Urls \X Nat /\ d[1] = cl.url /\ d[2] = cl.id
        BY <2>1, <3>2, <4>1, <4>2 DEF QueuesOK
      <4>4. d = <<cl.url, cl.id>>
        BY <4>3
      <4>5. DOMAIN c.DelayedQueue = 1 .. Len(c.DelayedQueue)
        BY <2>1
      <4> QED
        BY <4>1, <4>2, <4>4, <4>5 DEF Range
    <3>4. Awaited(cl) \/ Disturbed(cl.url)
      BY <3>2, <3>3 DEF Heeded, Awaited, Disturbed
    <3> QED
      BY <3>1, <3>4
  <2>3. \A cl \in Range(c.ClientQueue) : \E n \in Places(c) : cl = c.ClientQueue[n]
    BY <2>1 DEF Range, Places
  <2> QED
    BY <2>2, <2>3 DEF FedFromCache
<1> QED
  BY <1>1, FInvHolds, PTL
=============================================================================
