-------------------------------- MODULE Http --------------------------------
(***************************************************************************)
(* How dillo fetches URLs over HTTP: the connections of capi.c, the CCC    *)
(* chains that carry OpStart, OpSend, OpEnd and OpAbort (chain.c, and the  *)
(* ccc functions of capi.c, dpi.c, http.c and IO.c), the queue of sockets  *)
(* that wait for the limit of connections per host (http.c), and the       *)
(* descriptors and watches of IO.c.                                        *)
(*                                                                         *)
(* Everything runs in one thread: an action is a callback of the main loop *)
(* with all the calls it makes.  A call is an operator that takes the      *)
(* state w and gives the state after it.  Which requests meet a connect(2) *)
(* that fails is chosen at the start, as each connects at most once.       *)
(***************************************************************************)
EXTENDS Integers, Sequences, SequencesExt, FiniteSets, FiniteSetsExt

CONSTANTS
  Reqs,             \* requests: calls of a_Capi_open_url, each made once
  UrlOf, HostOf,    \* the URL of a request, the host it connects to
  http_max_conns,   \* limit of connections per host
  FDs,              \* file descriptors: consecutive numbers
  May               \* what the surroundings may do: see the actions

None == "none"

ASSUME HttpAssumption == /\ http_max_conns \in Nat \ {0}
                         /\ FDs \subseteq Nat /\ None \notin Reqs
                         /\ May \subseteq {"reload", "stop", "unviewable", "error"}

VARIABLE w

Urls == {UrlOf[r] : r \in Reqs}
Hosts == {HostOf[r] : r \in Reqs}

\* An IO without a descriptor has FD -1.
NoIO == [st |-> "none", fd |-> -1]
NewIO == [st |-> "new", fd |-> -1]
Submitted(fd) == [st |-> "submitted", fd |-> fd]

SocketStates == {"none", "resolving", "queued", "doomed", "connected", "dropped",
                 "freed"}

StateType ==
  [started : SUBSET Reqs,                   \* requests made so far
   web : SUBSET Reqs,                       \* requests whose web is valid
   clients : SUBSET Reqs,                   \* ClientQueue of the cache
   entry : SUBSET Urls,                     \* URLs with a cache entry
   done : SUBSET Urls,                      \* entries with CA_GotData
   send : SUBSET Reqs, recv : SUBSET Reqs,  \* conns with InfoSend, InfoRecv
   Ref : [Reqs -> 0 .. 2],
   sock : [Reqs -> SocketStates],           \* SocketData_t
   asked : SUBSET Reqs,                     \* answers that the resolver owes
   queue : [Hosts -> Seq(Reqs)], active_connections : [Hosts -> Int],
   wio : [Reqs -> [st : {"none", "new", "submitted", "freed"}, fd : FDs \cup {-1}]],
   rio : [Reqs -> [st : {"none", "new", "submitted", "freed"}, fd : FDs \cup {-1}]],
   open : [FDs -> Reqs \cup {None}],        \* whose socket is behind the number
   rwatch : [FDs -> Reqs \cup {None}], wwatch : [FDs -> Reqs \cup {None}],
   bad : SUBSET Reqs,                       \* connect(2) will fail for them
   failed : SUBSET Reqs,                    \* read(2) gave an error
   aborted : SUBSET Reqs]                   \* aborted after they were connected

Init == \E bad \in SUBSET Reqs :
        w = [bad |-> bad, started |-> {}, web |-> {}, clients |-> {},
             entry |-> {}, done |-> {}, send |-> {}, recv |-> {}, Ref |-> [r \in Reqs |-> 0],
             sock |-> [r \in Reqs |-> "none"], asked |-> {},
             queue |-> [h \in Hosts |-> <<>>],
             active_connections |-> [h \in Hosts |-> 0],
             wio |-> [r \in Reqs |-> NoIO], rio |-> [r \in Reqs |-> NoIO],
             open |-> [fd \in FDs |-> None], rwatch |-> [fd \in FDs |-> None],
             wwatch |-> [fd \in FDs |-> None], failed |-> {},
             aborted |-> {}]

----------------------------------------------------------------------------
(* IO.c                                                                    *)

\* dClose: the number is free again, whoever uses it.
dClose(x, fd) == [x EXCEPT !.open = [f \in FDs |-> IF f = fd THEN None ELSE @[f]]]

remove_fd(x, fd, read, write) ==
  [x EXCEPT !.rwatch = [f \in FDs |-> IF f = fd /\ read THEN None ELSE @[f]],
            !.wwatch = [f \in FDs |-> IF f = fd /\ write THEN None ELSE @[f]]]

IO_close_fd(x, fd, StopRdWr) ==
  remove_fd(IF StopRdWr THEN dClose(x, fd) ELSE x, fd, StopRdWr, TRUE)

Freed(io) == [io EXCEPT !.st = "freed"]

\* The writing end closes with the connection, for the mutation tests.
IO_end_write_closes(x, r) ==
  [IO_close_fd(x, x.wio[r].fd, TRUE) EXCEPT !.wio[r] = Freed(x.wio[r])]

\* a_IO_ccc, branch 1 backwards: OpEnd leaves the descriptor to the reader.
IO_end_write(x, r) ==
  [IO_close_fd(x, x.wio[r].fd, FALSE) EXCEPT !.wio[r] = Freed(x.wio[r])]

IO_abort_write(x, r) ==
  [IO_close_fd(x, x.wio[r].fd, TRUE) EXCEPT !.wio[r] = Freed(x.wio[r]),
     !.aborted = IF x.wio[r].fd = -1 THEN @ ELSE @ \cup {r}]

\* "IO_StopRd would leak FDs", for the mutation tests.
IO_stop_read_only(x, r) ==
  [remove_fd(x, x.rio[r].fd, TRUE, FALSE) EXCEPT !.rio[r] = Freed(x.rio[r])]

\* a_IO_ccc, branch 2: OpAbort backwards, and the end of OpEnd forwards.
IO_stop_read(x, r) ==
  [IO_close_fd(x, x.rio[r].fd, TRUE) EXCEPT !.rio[r] = Freed(x.rio[r])]

----------------------------------------------------------------------------
(* capi.c and dpi.c, the parts that http.c calls                           *)

\* One branch is left; the last one frees the conn.
Capi_conn_unref(x, r) == [x EXCEPT !.Ref[r] = @ - 1]

\* Cache_entry_remove, with all the clients of the entry.
Cache_entry_remove(x, u) ==
  LET gone == {r \in x.clients : UrlOf[r] = u}
  IN  IF u \notin x.entry THEN x
      ELSE [x EXCEPT !.entry = @ \ {u}, !.done = @ \ {u},
                     !.clients = @ \ gone, !.web = @ \ gone]

\* OpAbort on the answer branch: Capi, Dpi, IO, and the cache entry.
AbortAnswer(x, r) ==
  Capi_conn_unref(
    Cache_entry_remove(IO_stop_read([x EXCEPT !.recv = @ \ {r}], r), UrlOf[r]), r)

\* Leaves InfoSend, for the mutation tests.
AbortBothKeepsSend(x, r) ==
  LET back == IO_abort_write(x, r)
  IN  Capi_conn_unref(IF r \in back.recv THEN AbortAnswer(back, r) ELSE back, r)

\* a_Chain_bfcb(OpAbort, Info, NULL, "Both") from http.c: back to IO, then
\* forward to Capi, which aborts the answer branch too.
AbortBoth(x, r) ==
  LET back == [IO_abort_write(x, r) EXCEPT !.send = @ \ {r}]
  IN  Capi_conn_unref(IF r \in back.recv THEN AbortAnswer(back, r) ELSE back, r)

----------------------------------------------------------------------------
(* http.c                                                                  *)

FreeFDs(x) == {fd \in FDs : x.open[fd] = None}

\* Http_connect_socket, where it succeeds: socket(2) gives the lowest number,
\* both branches learn it, and the query is submitted.
Connected(x, r) ==
  LET fd == Min(FreeFDs(x))
  IN  [x EXCEPT !.open[fd] = r, !.sock[r] = "connected",
                !.wio[r] = Submitted(fd), !.rio[r] = Submitted(fd),
                !.rwatch[fd] = r, !.wwatch[fd] = r,
                !.active_connections[HostOf[r]] = @ + 1]

\* The loop of Http_connect_queued_sockets, once: a socket whose owner is gone is
\* freed; one whose web is gone is let go, and stays in ValidSocks.
ConnectNext(x, h) ==
  IF x.active_connections[h] >= http_max_conns \/ x.queue[h] = <<>> THEN x
  ELSE LET r == Head(x.queue[h])
           z == [x EXCEPT !.queue[h] = Tail(@)]
       IN  CASE z.sock[r] = "doomed" -> [z EXCEPT !.sock[r] = "freed"]
             [] z.sock[r] = "queued" /\ r \notin z.web
                  -> [z EXCEPT !.sock[r] = "dropped"]
             [] z.sock[r] = "queued" /\ r \in z.web
                /\ (r \in z.bad \/ FreeFDs(z) = {})
                  -> [AbortBoth(z, r) EXCEPT !.sock[r] = "freed"]
             [] OTHER -> Connected(z, r)

Http_connect_queued_sockets(x, h) ==
  LET Loop[n \in 0 .. Len(x.queue[h])] ==
        IF n = 0 THEN x ELSE ConnectNext(Loop[n - 1], h)
  IN  Loop[Len(x.queue[h])]

\* Does not start the next one, for the mutation tests.
Http_socket_free_only(x, r) ==
  CASE x.sock[r] = "queued" -> [x EXCEPT !.sock[r] = "doomed"]
    [] x.sock[r] = "connected" ->
         [x EXCEPT !.sock[r] = "freed", !.active_connections[HostOf[r]] = @ - 1]
    [] x.sock[r] \in {"resolving", "dropped"} -> [x EXCEPT !.sock[r] = "freed"]
    [] OTHER -> x

\* A queued socket is left to the queue.
Http_socket_free(x, r) ==
  CASE x.sock[r] = "queued" -> [x EXCEPT !.sock[r] = "doomed"]
    [] x.sock[r] = "connected" ->
         Http_connect_queued_sockets(
           [x EXCEPT !.sock[r] = "freed",
                     !.active_connections[HostOf[r]] = @ - 1], HostOf[r])
    [] x.sock[r] \in {"resolving", "dropped"} -> [x EXCEPT !.sock[r] = "freed"]
    [] OTHER -> x

\* A host that is not found ends the socket and nobody is told, for the mutation
\* tests.
Http_dns_cb_silent(x, r, solved) ==
  IF x.sock[r] = "resolving" /\ r \in x.web /\ solved
  THEN Http_connect_queued_sockets(
         [x EXCEPT !.sock[r] = "queued", !.queue[HostOf[r]] = Append(@, r)],
         HostOf[r])
  ELSE Http_socket_free(x, r)

\* Http_dns_cb; a socket that was freed in the meantime is not found.
Http_dns_cb(x, r, solved) ==
  CASE x.sock[r] # "resolving" -> x
    [] x.sock[r] = "resolving" /\ r \in x.web /\ solved ->
         Http_connect_queued_sockets(
           [x EXCEPT !.sock[r] = "queued", !.queue[HostOf[r]] = Append(@, r)],
           HostOf[r])
    [] OTHER -> Http_socket_free(AbortBoth(x, r), r)

----------------------------------------------------------------------------
(* capi.c                                                                  *)

\* OpAbort on the query branch: Capi, http, IO.
AbortQuery(x, r) ==
  Capi_conn_unref(
    Http_socket_free(IO_abort_write([x EXCEPT !.send = @ \ {r}], r), r), r)

EndQuery(x, r) ==
  Capi_conn_unref(
    Http_socket_free(IO_end_write([x EXCEPT !.send = @ \ {r}], r), r), r)

\* The conn of the URL, if it is in CapiConns.
a_Capi_conn_abort_by_url(x, u) ==
  LET found == {r \in Reqs : x.Ref[r] > 0 /\ UrlOf[r] = u}
      Query(y, r) == IF r \in y.send THEN AbortQuery(y, r) ELSE y
      Answer(y, r) == IF r \in y.recv THEN AbortAnswer(y, r) ELSE y
  IN  IF found = {} THEN x
      ELSE LET r == CHOOSE c \in found : TRUE
           IN  Answer(Query(x, r), r)

\* The answer branch is built first, then the query branch; the resolver may
\* answer at once.
OpenConn(x, r, cached) ==
  LET conn == [x EXCEPT !.recv = @ \cup {r}, !.send = @ \cup {r}, !.Ref[r] = 2,
                        !.rio[r] = NewIO, !.wio[r] = NewIO,
                        !.sock[r] = "resolving"]
  IN  IF cached THEN Http_dns_cb(conn, r, TRUE)
      ELSE [conn EXCEPT !.asked = @ \cup {r}]

\* a_Capi_open_url for http, with what a_Cache_open_url does of it: reload means
\* a new connection.  Without one the request joins those that wait for the
\* entry; a request that was aborted on the way gets no client.
a_Capi_open_url(x, r, reload, cached) ==
  LET u == UrlOf[r]
      asks == [x EXCEPT !.web = @ \cup {r}, !.started = @ \cup {r}]
      opened == IF reload
                THEN OpenConn(a_Capi_conn_abort_by_url(asks, u), r, cached)
                ELSE asks
      fresh == IF reload THEN Cache_entry_remove(opened, u) ELSE opened
  IN  IF reload /\ opened.Ref[r] = 0 THEN opened
      ELSE [fresh EXCEPT !.entry = @ \cup {u}, !.clients = @ \cup {r}]

\* a_Cache_process_dbuf, with the page not viewable: the entry is aborted.
Unviewable(x, u) ==
  Cache_entry_remove(a_Capi_conn_abort_by_url(x, u), u)

\* a_Cache_process_dbuf at the end of the data, of an answer that has a header
\* (module Cache has those without): the clients are done.
CacheClose(x, u) ==
  LET served == {r \in x.clients : UrlOf[r] = u}
  IN  IF u \notin x.entry THEN x
      ELSE [x EXCEPT !.done = @ \cup {u}, !.clients = @ \ served, !.web = @ \ served]

\* OpEnd from IO on the answer branch: Capi, the query branch, and only then IO
\* closes the descriptor.
EndAnswer(x, r, viewable) ==
  LET closing == [x EXCEPT !.recv = @ \ {r}]
      told == IF viewable \/ UrlOf[r] \notin x.entry THEN CacheClose(closing, UrlOf[r])
              ELSE Unviewable(closing, UrlOf[r])
      ended == IF r \in told.send THEN EndQuery(told, r) ELSE told
  IN  IO_stop_read(Capi_conn_unref(ended, r), r)

----------------------------------------------------------------------------
(* Actions                                                                 *)

\* A URL that is not cached, or that the user reloads.
Open == \E r \in Reqs \ w.started, cached \in BOOLEAN :
          /\ UrlOf[r] \in w.entry => "reload" \in May
          /\ w' = a_Capi_open_url(w, r, TRUE, cached)

Join == \E r \in Reqs \ w.started :
          /\ UrlOf[r] \in w.entry \ w.done
          /\ w' = a_Capi_open_url(w, r, FALSE, FALSE)

DnsAnswer == \E r \in w.asked, solved \in BOOLEAN :
               w' = Http_dns_cb([w EXCEPT !.asked = @ \ {r}], r, solved)

\* IO_fd_read_cb: data after which the page is given up.  The watch stays unless
\* the end was read too; IO_read does not find its IO any more then.
ReadData == \E fd \in FDs, last \in BOOLEAN :
  LET r == w.rwatch[fd]
  IN  /\ r # None /\ w.open[fd] # None
      /\ "unviewable" \in May /\ UrlOf[r] \in w.entry
      /\ w' = remove_fd(Unviewable(w, UrlOf[r]), fd, last, FALSE)

\* The end of the data: the watch is removed from the number it was for.
ReadEnd == \E fd \in FDs, viewable \in BOOLEAN :
  LET r == w.rwatch[fd]
  IN  /\ r # None /\ w.open[fd] # None
      /\ viewable \/ "unviewable" \in May
      /\ w' = remove_fd(EndAnswer(w, r, viewable), fd, TRUE, FALSE)

\* read(2) fails: IO_read notes the error in Status and the watch is removed.
ReadError == \E fd \in FDs :
  LET r == w.rwatch[fd]
  IN  /\ r # None /\ w.open[fd] # None
      /\ "error" \in May
      /\ w' = [remove_fd(w, fd, TRUE, FALSE) EXCEPT !.failed = @ \cup {r}]

\* IO_fd_write_cb: all is written, or write(2) fails.
WriteEnd == \E fd \in FDs :
              /\ w.wwatch[fd] # None /\ w.open[fd] # None
              /\ w' = remove_fd(w, fd, FALSE, TRUE)

\* a_Capi_stop_client: the connection goes with the last client, unless some data
\* came and it is not forced.
Stop == /\ "stop" \in May
        /\ \E r \in w.clients, keep \in BOOLEAN :
             LET only == {c \in w.clients : UrlOf[c] = UrlOf[r]} = {r}
                 x == IF only /\ ~keep
                      THEN a_Capi_conn_abort_by_url(w, UrlOf[r]) ELSE w
             IN  /\ keep => \E c \in Reqs : UrlOf[c] = UrlOf[r] /\ w.sock[c] = "connected"
                 /\ w' = [x EXCEPT !.clients = @ \ {r}, !.web = @ \ {r}]

Next == \/ Open \/ Join \/ DnsAnswer \/ ReadData \/ ReadEnd \/ ReadError
        \/ WriteEnd \/ Stop

Spec == Init /\ [][Next]_w

----------------------------------------------------------------------------
(* Properties                                                              *)

\* Every field has its type.
TypeOK == w \in StateType

\* A conn is referred to by its branches, and one with a query branch has an
\* answer branch: a_Capi_conn_abort_by_url may look at it after it has aborted the
\* query branch, and a host that answers at once has somewhere to send its
\* descriptor.
BranchesTogether ==
  /\ TypeOK
  /\ w.send \subseteq w.recv
  /\ \A r \in Reqs : w.Ref[r] = (IF r \in w.send THEN 1 ELSE 0)
                                + (IF r \in w.recv THEN 1 ELSE 0)

\* The limit of connections per host: the count is the number of sockets that
\* are connected, and within the limit, whatever ends, fails or is stopped; and a
\* socket waits for the limit only: no slot is free while the queue holds one.
\* (So Http_host_connection_remove's assertion holds.)
SlotsCounted ==
  \A h \in Hosts :
    LET conns == {r \in Reqs : HostOf[r] = h /\ w.sock[r] = "connected"}
    IN  /\ w.active_connections[h] = Cardinality(conns)
        /\ w.active_connections[h] <= http_max_conns
        /\ w.queue[h] # <<>> => w.active_connections[h] = http_max_conns

\* A descriptor is open for a request that still has its chains: none leaks.
NoLeak == \A fd \in FDs : w.open[fd] # None =>
            LET r == w.open[fd]
            IN  w.rio[r] = Submitted(fd) /\ r \in w.recv

\* "The file descriptor is closed twice, and it could be reused for something
\* else in between" (IO.c): until a connected request is aborted, the number that
\* an IO works on is its own socket.
OwnDescriptor == w.aborted = {} =>
  \A r \in Reqs : w.rio[r].st = "submitted" => w.open[w.rio[r].fd] = r

\* What leaves a client behind: an abort that closes the next one's descriptor, a
\* read that fails, and a socket let go because its first client is gone.
Disturbed == \/ w.aborted # {} \/ w.failed # {}
             \/ \E r \in Reqs : w.sock[r] = "dropped"

\* The main loop will hear of the request: the resolver owes an answer, a
\* connected socket ahead of it in the queue will end, or its own is watched.
Pursued(r) ==
  \/ w.sock[r] = "resolving" /\ r \in w.asked
  \/ w.sock[r] = "queued" /\ r \in Range(w.queue[HostOf[r]])
  \/ w.sock[r] = "connected" /\ w.rwatch[w.rio[r].fd] = r

\* No client waits for nothing (with SlotsCounted: every client is served or told
\* of a failure), also when hosts do not resolve or connect, pages are given up
\* and requests that wait in the queue are stopped.
NobodyForgotten ==
  ~Disturbed => \A c \in w.clients : \E r \in Reqs : UrlOf[r] = UrlOf[c] /\ Pursued(r)
============================================================================
