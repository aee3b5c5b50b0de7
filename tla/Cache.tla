------------------------------- MODULE Cache -------------------------------
(***************************************************************************)
(* dillo's cache (cache.c) between those who ask for URLs and the          *)
(* connections that bring them: the entries, the queue of clients, and the *)
(* queue of entries whose clients are served from the main loop.  Clients  *)
(* and DelayedQueue point at entries; an entry that is removed and made    *)
(* again is another one, so every entry has an identity.  Connections are  *)
(* those of module Http, of which only their presence matters here.        *)
(***************************************************************************)
EXTENDS Integers, Sequences, SequencesExt, FiniteSets, FiniteSetsExt

CONSTANTS
  Urls,
  Keys,         \* clients, each asks once
  MaxData,      \* bound: pieces of data in an answer
  RedirectLimit, \* redirections that are followed in a row, 5 in the code
  May           \* what the surroundings may do: see the actions

ASSUME CacheAssumption == /\ IsFiniteSet(Urls) /\ IsFiniteSet(Keys)
                          /\ MaxData \in Nat \ {0}
                          /\ RedirectLimit \in Nat \ {0}
                          /\ May \subseteq {"reload", "stop", "fail", "headerless",
                                           "mismatch", "moved", "found"}

VARIABLES
  c,        \* the state of cache.c
  gone,     \* clients that were stopped, or removed with their entry
  stopped   \* URLs with a client that was stopped

vars == <<c, gone, stopped>>

None == "none"

\* What the header says of the page: it can be viewed or not, or it is to be
\* sought at another URL, for good (301) or for now (302).  CA_RedirectLoop turns
\* the last two into "loop".
Kinds == {"shown", "unknown", "moved", "found", "loop"}
CA_Redirect == {"moved", "found", "loop"}

\* typed: CA_GotContentType.  spared is of the model: the entry was to be aborted
\* and is still there.
Nobody == [id |-> 0, header |-> FALSE, kind |-> "shown", to |-> None, typed |-> FALSE,
           data |-> 0, GotData |-> FALSE, refs |-> 0, spared |-> FALSE]

Entry == [id : Nat, header : BOOLEAN, kind : Kinds, to : Urls \cup {None},
          typed : BOOLEAN, data : 0 .. MaxData, GotData : BOOLEAN, refs : Int,
          spared : BOOLEAN]

Client == [key : Keys, url : Urls, id : Nat, root : BOOLEAN, BufSize : Nat]

\* entries: CachedURLs; idle: DelayedQueueIdleId;
\* conns: the URLs with a connection; closed: clients that were sent
\* CA_Close; got: how much data each client was sent; level: redirect_level of
\* its window; shifted is of the model: the URLs that may have been passed over.
StateType ==
  [entries : [Urls -> Entry],
   ClientQueue : Seq(Client),
   DelayedQueue : Seq(Urls \X Nat), idle : BOOLEAN,
   conns : SUBSET Urls, closed : SUBSET Keys, got : [Keys -> 0 .. MaxData],
   level : [Keys -> 0 .. RedirectLimit], shifted : SUBSET Urls]

Init == /\ c = [entries |-> [u \in Urls |-> Nobody],
                ClientQueue |-> <<>>, DelayedQueue |-> <<>>, idle |-> FALSE,
                conns |-> {}, closed |-> {}, got |-> [k \in Keys |-> 0],
                level |-> [k \in Keys |-> 0], shifted |-> {}]
        /\ gone = {} /\ stopped = {}

Cached(x, u) == x.entries[u].id # 0

\* The queue q without the members of S.
Without(q, S) ==
  LET Kept[n \in 0 .. Len(q)] ==
        IF n = 0 THEN <<>>
        ELSE IF q[n] \in S THEN Kept[n - 1] ELSE Append(Kept[n - 1], q[n])
  IN  Kept[Len(q)]

Dequeue(x, keys) ==
  [x EXCEPT !.ClientQueue = Without(@, {cl \in Range(@) : cl.key \in keys})]

\* The clients of an entry.
KeysOf(x, u) == {cl.key : cl \in {d \in Range(x.ClientQueue) :
                                   d.url = u /\ d.id = x.entries[u].id}}

KeysIn(x) == {x.ClientQueue[n].key : n \in DOMAIN x.ClientQueue}

----------------------------------------------------------------------------
(* Operations of cache.c and, on connections, of capi.c                    *)

Undelay(x, u) ==
  [x EXCEPT !.DelayedQueue = Without(@, {<<u, x.entries[u].id>>})]

\* Leaves the entry in DelayedQueue, for the mutation tests.
Cache_entry_remove_keeps(x, u) ==
  IF ~Cached(x, u) THEN x
  ELSE [Dequeue(x, KeysOf(x, u)) EXCEPT !.entries[u] = Nobody]

\* All the clients of the entry are stopped.
Cache_entry_remove(x, u) ==
  IF ~Cached(x, u) THEN x
  ELSE [Undelay(Dequeue(x, KeysOf(x, u)), u)
          EXCEPT !.entries[u] = Nobody]

\* The answer branch removes the entry.
a_Capi_conn_abort_by_url(x, u) ==
  IF u \notin x.conns THEN x
  ELSE Cache_entry_remove([x EXCEPT !.conns = @ \ {u}], u)

\* The identity is one that nothing refers to.
Cache_entry_add(x, u) ==
  LET used == {x.entries[v].id : v \in Urls} \cup {cl.id : cl \in Range(x.ClientQueue)}
                \cup {d[2] : d \in Range(x.DelayedQueue)}
  IN  [x EXCEPT !.entries[u] = [Nobody EXCEPT !.id = Min((1 .. Cardinality(used)) \ used)]]

Cache_client_enqueue(x, k, u, root) ==
  [x EXCEPT !.ClientQueue = Append(@,
     [key |-> k, url |-> u, id |-> x.entries[u].id, root |-> root, BufSize |-> 0])]

\* Sets no timeout when something waits already, for the mutation tests.
Cache_delayed_without_timeout(x, u) ==
  [x EXCEPT !.DelayedQueue = IF Contains(@, <<u, x.entries[u].id>>) THEN @
                             ELSE Append(@, <<u, x.entries[u].id>>)]

Cache_delayed_process_queue(x, u) ==
  [x EXCEPT !.DelayedQueue = IF Contains(@, <<u, x.entries[u].id>>) THEN @
                             ELSE Append(@, <<u, x.entries[u].id>>),
            !.idle = TRUE]

\* a_Capi_open_url and a_Cache_open_url: a reload asks the server again.
a_Cache_open_url(x, k, u, root, reload) ==
  LET asks == reload \/ ~Cached(x, u)
      opened == IF asks THEN [a_Capi_conn_abort_by_url(x, u) EXCEPT !.conns = @ \cup {u}]
                ELSE x
      fresh == IF reload THEN Cache_entry_remove(opened, u) ELSE opened
  IN  IF Cached(fresh, u)
      THEN Cache_delayed_process_queue(Cache_client_enqueue(fresh, k, u, root), u)
      ELSE Cache_client_enqueue(Cache_entry_add(fresh, u), k, u, root)

\* a_Nav_push and Nav_open_url for a redirected client: its window, which expects the
\* old URL and has no other clients, asks for the new one.
Nav_open_url(x, k, u, reload) ==
  a_Cache_open_url([x EXCEPT !.closed = @ \ {k}, !.got[k] = 0], k, u, TRUE, reload)

\* Root clients are redirected, unless it happened too often.  If that removes
\* clients before position i, where Cache_process_queue is, it passes over others.
Cache_redirect(x, u, cl, i) ==
  LET e == x.entries[u]
      new == Nav_open_url(x, cl.key, e.to, e.kind = "found")
  IN  IF e.kind \notin CA_Redirect THEN x
      ELSE IF e.kind = "loop" \/ x.level[cl.key] >= RedirectLimit
      THEN [x EXCEPT !.entries[u].kind = "loop", !.level[cl.key] = 0]
      ELSE IF ~cl.root THEN x
      ELSE [new EXCEPT !.shifted =
              IF \E n \in 1 .. i - 1 : x.ClientQueue[n].key \notin KeysIn(new)
              THEN @ \cup {u} ELSE @]

\* A client gets all the data there are.
Feed(x, u, i) ==
  [x EXCEPT !.ClientQueue[i].BufSize = x.entries[u].data,
            !.got[x.ClientQueue[i].key] = x.entries[u].data]

\* Takes data for the end of the data, for the mutation tests.
ServeEndsEarly(x, u, i) ==
  LET cl == x.ClientQueue[i]
  IN  [x |-> Cache_redirect([Dequeue(x, {cl.key}) EXCEPT !.closed = @ \cup {cl.key}],
                            u, cl, i),
       i |-> i]

\* The client at position i gets the data, and leaves when it is whole.
Serve(x, u, i) ==
  LET cl == x.ClientQueue[i]
      fed == Feed(x, u, i)
  IN  IF ~x.entries[u].GotData THEN [x |-> fed, i |-> i + 1]
      ELSE [x |-> Cache_redirect([Dequeue(fed, {cl.key}) EXCEPT !.closed = @ \cup {cl.key}],
                                 u, cl, i),
            i |-> i]

\* A turn of the loop of Cache_process_queue, which is at position i.  A client that has no callback yet
\* (BufSize = 0) ends the entry if the page cannot be viewed or its type is wrong.
Turn(s, u, mismatch) ==
  LET cl == s.x.ClientQueue[s.i]
      e == s.x.entries[u]
      new == cl.BufSize = 0
      redirected == e.kind \in CA_Redirect
      counted == [s.x EXCEPT !.level[cl.key] =
                    IF ~cl.root THEN @
                    ELSE IF ~redirected THEN 0 ELSE IF new THEN @ + 1 ELSE @]
      aborts == /\ new /\ ~redirected
                /\ s.abort \/ mismatch \/ (cl.root /\ e.kind = "unknown")
      served == Serve(counted, u, s.i)
  IN  IF cl.url # u \/ cl.id # e.id THEN [s EXCEPT !.i = @ + 1]
      ELSE IF aborts THEN [x |-> Dequeue(counted, {cl.key}), i |-> s.i,
                           abort |-> TRUE, offer |-> s.offer \/ cl.root]
      ELSE [s EXCEPT !.x = served.x, !.i = served.i]

NextTurn(s, u, mismatch) ==
  IF s.i > Len(s.x.ClientQueue) THEN s ELSE Turn(s, u, mismatch)

\* After the loop: an aborted entry goes with its connection, or for the offer of a
\* download to a root client.  null: whether the result is NULL.
Outcome(end, u) ==
  LET aborted == a_Capi_conn_abort_by_url(end.x, u)
      left == IF end.offer THEN Cache_entry_remove(aborted, u) ELSE aborted
  IN  IF ~end.abort THEN [x |-> end.x, null |-> FALSE]
      ELSE [x |-> IF Cached(left, u) THEN [left EXCEPT !.entries[u].spared = TRUE]
                  ELSE left,
            null |-> TRUE]

\* Cache_process_queue: nothing happens before there is a header and the data tell
\* their type (det).
Cache_process_queue(x, u, det) ==
  LET e == x.entries[u]
      mismatch == ~e.typed /\ det = "mismatch"
      Loop[n \in 0 .. 2 * Cardinality(Keys)] ==
        IF n = 0 THEN [x |-> [x EXCEPT !.entries[u].typed = TRUE], i |-> 1,
                       abort |-> FALSE, offer |-> FALSE]
        ELSE NextTurn(Loop[n - 1], u, mismatch)
  IN  IF ~e.header \/ (~e.typed /\ det = "doubt") THEN [x |-> x, null |-> FALSE]
      ELSE Outcome(Loop[2 * Cardinality(Keys)], u)

Ref(x, u, n) == [x EXCEPT !.entries[u].refs = @ + n]

\* The first of DelayedQueue is served.
DelayedNext(x) ==
  LET u == Head(x.DelayedQueue)[1]
      after == Cache_process_queue(Ref(x, u, 1), u, "doubt")
  IN  IF x.DelayedQueue = <<>> THEN x
      ELSE IF after.null THEN after.x ELSE Undelay(Ref(after.x, u, -1), u)

\* Cache_delayed_process_queue_callback, until the queue is empty: a redirection
\* may add to it.
Delayed(x) ==
  LET most == Cardinality(Urls) + RedirectLimit * Cardinality(Keys)
      Loop[n \in 0 .. most] == IF n = 0 THEN x ELSE DelayedNext(Loop[n - 1])
  IN  [Loop[most] EXCEPT !.idle = FALSE]

\* Forgets the reference that the header took, for the mutation tests.
Cache_close_keeps_ref(x, u, det) ==
  Cache_process_queue([x EXCEPT !.entries[u].GotData = TRUE, !.conns = @ \ {u}],
                      u, det).x

\* OpEnd of capi.c, whose connection can no more be aborted, and
\* a_Cache_process_dbuf at the end of the data.
Cache_close(x, u, det) ==
  LET after == Cache_process_queue([x EXCEPT !.entries[u].GotData = TRUE,
                                             !.conns = @ \ {u}], u, det)
  IN  IF ~after.null /\ x.entries[u].header THEN Ref(after.x, u, -1) ELSE after.x

\* a_Capi_stop_client and a_Cache_stop_client.
a_Cache_stop_client(x, cl, force) ==
  LET only == {d \in Range(x.ClientQueue) : d.url = cl.url /\ d.id = cl.id} = {cl}
      y == IF only /\ (force \/ cl.BufSize = 0)
           THEN a_Capi_conn_abort_by_url(x, cl.url) ELSE x
  IN  IF cl.key \in KeysIn(y)
      THEN Dequeue(Undelay(y, cl.url), {cl.key}) ELSE y

----------------------------------------------------------------------------
(* Actions                                                                 *)

\* A client that leaves without the end of the data was stopped or removed.
Left(x) == /\ c' = x
           /\ gone' = gone \cup ((KeysIn(c) \ KeysIn(x)) \ x.closed)

Notes(x) == Left(x) /\ UNCHANGED stopped

New(k) == k \notin KeysIn(c) \cup c.closed \cup gone

Open == \E k \in Keys :
          /\ New(k)
          /\ \E u \in Urls, root, reload \in BOOLEAN :
               /\ reload => "reload" \in May
               /\ Notes(a_Cache_open_url(c, k, u, root, reload))

\* The header, whose type may not be viewable, and which may redirect.  (a_Nav_push
\* does not follow a redirection of a page to itself.)
Header == \E u \in c.conns :
            /\ Cached(c, u) /\ ~c.entries[u].header
            /\ \E kind \in Kinds \ {"loop"}, to \in Urls \ {u} :
                 /\ kind \in CA_Redirect => kind \in May
                 /\ Notes(Ref([c EXCEPT !.entries[u].header = TRUE,
                                        !.entries[u].kind = kind,
                                        !.entries[u].to = IF kind \in CA_Redirect
                                                          THEN to ELSE None], u, 1))

\* What a_Misc_get_content_type_from_data and a_Misc_content_type_check say.
Detected == {"match"} \cup ({"mismatch"} \cap May)

Data == \E u \in c.conns, det \in Detected \cup {"doubt"} :
          /\ c.entries[u].header /\ c.entries[u].data < MaxData
          /\ c.entries[u].typed => det = "match"
          /\ Notes(Cache_process_queue([c EXCEPT !.entries[u].data = @ + 1], u, det).x)

\* The server closes the connection, normally after a header.
Close == \E u \in c.conns, det \in Detected :
           /\ Cached(c, u)
           /\ c.entries[u].header \/ "headerless" \in May
           /\ c.entries[u].typed => det = "match"
           /\ Notes(Cache_close(c, u, det))

\* The name is not resolved, or the connection is not made.
ConnFails == \E u \in c.conns : /\ "fail" \in May /\ ~c.entries[u].header
                                /\ Notes(a_Capi_conn_abort_by_url(c, u))

Timeout == c.idle /\ Notes(Delayed(c))

Stop == /\ "stop" \in May
        /\ \E n \in DOMAIN c.ClientQueue, force \in BOOLEAN :
             /\ Left(a_Cache_stop_client(c, c.ClientQueue[n], force))
             /\ stopped' = stopped \cup {c.ClientQueue[n].url}

Next == Open \/ Header \/ Data \/ Close \/ ConnFails \/ Timeout \/ Stop

Spec == Init /\ [][Next]_vars

----------------------------------------------------------------------------
(* Properties                                                              *)

\* Every variable has its type.
TypeOK == c \in StateType /\ gone \subseteq Keys /\ stopped \subseteq Urls

\* What is queued is there: no client and no member of DelayedQueue, which
\* "holds weak pointers to cache entries", points at an entry that was removed;
\* and no client is queued twice, or after it was told the end or is gone.
NoDangling == /\ TypeOK
              /\ Len(c.ClientQueue) = Cardinality(KeysIn(c))
              /\ KeysIn(c) \cap (c.closed \cup gone) = {}
              /\ \A cl \in Range(c.ClientQueue) : cl.id = c.entries[cl.url].id
              /\ \A d \in Range(c.DelayedQueue) : d[2] = c.entries[d[1]].id

\* Between callbacks the data of an entry is referred to exactly while it is
\* being received: not dropped under a reader, not kept for ever, unless the entry
\* survives being aborted.
RefsBalanced ==
  \A u \in Urls : ~c.entries[u].spared =>
    c.entries[u].refs = IF c.entries[u].header /\ ~c.entries[u].GotData THEN 1 ELSE 0

\* A client is told the end once the connection is over, and with all the data
\* that came.  (A redirected client may be told the end at another URL.)
ClosedHaveAll ==
  [][\A cl \in Range(c.ClientQueue) :
       cl.key \in c'.closed \ c.closed /\ c.entries[cl.url].kind \notin CA_Redirect =>
       /\ cl.url \notin c.conns \cap c'.conns
       /\ c'.got[cl.key] = c.entries[cl.url].data]_vars

\* Somebody will serve a waiting client: the connection, or the timeout.
Awaited(cl) == \/ cl.url \in c.conns
               \/ c.idle /\ <<cl.url, cl.id>> \in Range(c.DelayedQueue)

\* What leaves clients behind: a stop takes the entry out of DelayedQueue for
\* everyone, an answer that ends before its header is never processed, and a
\* redirection can remove clients before the place where the queue is processed.
Disturbed(u) == \/ u \in stopped \cup c.shifted
                \/ c.entries[u].GotData /\ ~c.entries[u].header

\* "URL is cached: feed our client with cached data" (a_Cache_open_url): whoever
\* waits, as the first or later and before, between or after the data, is served
\* by a connection or the timeout; stops and reloads of other pages do not matter.
FedFromCache == \A cl \in Range(c.ClientQueue) : Awaited(cl) \/ Disturbed(cl.url)
============================================================================
