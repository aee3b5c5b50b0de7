-------------------------------- MODULE Dns --------------------------------
(***************************************************************************)
(* Dillo's resolver (dillo/src/dns.c, the threaded build).  The main       *)
(* thread takes requests and, when a byte arrives in the notification      *)
(* pipe, scans the channels for answers; a thread per channel looks its    *)
(* host up, stores what it found in the channel and writes to the pipe.    *)
(* No lock protects the channels.  Host names are compared without regard  *)
(* to case, so a host here is a class of names.                            *)
(***************************************************************************)
EXTENDS Integers, Sequences

CONSTANTS
  D_DNS_MAX_SERVERS,  \* channels
  Hosts,              \* host names; a host also stands for its addresses
  Clients,            \* cb_data values; each has one request at a time
  Threads,            \* bound on the threads alive at the same time
  NULL,               \* no list of addresses
  Waiting,            \* a callback that has not been called
  CreateFails         \* pthread_create may fail

ASSUME ChannelAssumption == D_DNS_MAX_SERVERS \in Nat \ {0}

ASSUME ValueAssumption == /\ NULL \notin Hosts
                          /\ Waiting \notin Hosts \cup {NULL}
                          /\ CreateFails \in BOOLEAN

Channels == 0 .. D_DNS_MAX_SERVERS - 1

\* The channel of a queued request that has none yet.
NoChannel == -2

VARIABLES
  dns_server,   \* the channels, written by both sides
  dns_queue,    \* requests in the order they came, main thread only
  dns_cache,    \* answers in the order they came, main thread only
  pipe,         \* there are bytes in dns_notify_pipe
  pc, i,        \* where the main thread is, and the channel it is at
  thread,       \* the threads
  asked,        \* the host a client asked for last
  answer,       \* what its callback was called with
  raced         \* hosts whose channel was reached by stores seen out of order, noted
                \* for the properties

main == <<dns_queue, dns_cache, pc, i>>
clients == <<asked, answer>>
vars == <<dns_server, main, pipe, thread, clients, raced>>

----------------------------------------------------------------------------
(* The request queue                                                       *)

Entry == [channel : Channels \cup {NoChannel}, hostname : Hosts, cb_data : Clients]

Dns_queue_add(channel, h, k) ==
  Append(dns_queue, [channel |-> channel, hostname |-> h, cb_data |-> k])

\* Removes the entry after the one it should, for the mutation tests.
Dns_queue_remove_next(j) ==
  [l \in 1 .. Len(dns_queue) - 1 |->
     IF l <= j THEN dns_queue[l] ELSE dns_queue[l + 1]]

Dns_queue_remove(j) ==
  [l \in 1 .. Len(dns_queue) - 1 |->
     IF l < j THEN dns_queue[l] ELSE dns_queue[l + 1]]

\* j is the first entry for host h.
Dns_queue_find(h, j) == /\ j \in 1 .. Len(dns_queue)
                        /\ dns_queue[j].hostname = h
                        /\ \A l \in 1 .. j - 1 : dns_queue[l].hostname # h

\* j is the last entry on channel c, for the mutation tests.
LastOn(c, j) == /\ j \in 1 .. Len(dns_queue)
                /\ dns_queue[j].channel = c
                /\ \A l \in j + 1 .. Len(dns_queue) : dns_queue[l].channel # c

\* j is the first entry on channel c.
FirstOn(c, j) == /\ j \in 1 .. Len(dns_queue)
                 /\ dns_queue[j].channel = c
                 /\ \A l \in 1 .. j - 1 : dns_queue[l].channel # c

Queued(h) == \E j \in 1 .. Len(dns_queue) : dns_queue[j].hostname = h

Cached(h) == \E n \in 1 .. Len(dns_cache) : dns_cache[n].hostname = h

----------------------------------------------------------------------------
(* Threads                                                                 *)

NoThread == [pc |-> "none", channel |-> NoChannel, hosts |-> NULL, todo |-> {}]

Stores == {"addr_list", "state"}

ThreadType == [pc : {"none", "lookup", "store"},
               channel : Channels \cup {NoChannel},
               hosts : Hosts \cup {NULL},
               todo : SUBSET Stores]

\* pthread_create, whose result nobody looks at.
Spawn(c) ==
  \/ \E t \in Threads :
       /\ thread[t].pc = "none"
       /\ thread' = [thread EXCEPT ![t] = [NoThread EXCEPT !.pc = "lookup",
                                                          !.channel = c]]
  \/ CreateFails /\ UNCHANGED thread

Dns_server_req(c, h) ==
  /\ dns_server' = [dns_server EXCEPT ![c] = [@ EXCEPT !.state = "PROCESSING",
                                                     !.hostname = h]]
  /\ Spawn(c)

\* getaddrinfo: a list of addresses, no usable address, or an error.
Lookup(t) ==
  /\ thread[t].pc = "lookup"
  /\ LET c == thread[t].channel
     IN  \E hosts \in {dns_server[c].hostname, NULL}, status \in {"ok", "error"} :
           /\ hosts # NULL => status = "ok"
           /\ dns_server' = [dns_server EXCEPT ![c] = [@ EXCEPT !.status = status]]
           /\ thread' = [thread EXCEPT ![t] = [@ EXCEPT !.pc = "store",
                                                        !.hosts = hosts,
                                                        !.todo = Stores]]
  /\ UNCHANGED <<main, pipe, clients, raced>>

StoreAddrList(t) ==
  /\ "addr_list" \in thread[t].todo
  /\ dns_server' = [dns_server EXCEPT ![thread[t].channel] =
                      [@ EXCEPT !.addr_list = thread[t].hosts]]
  /\ thread' = [thread EXCEPT ![t].todo = @ \ {"addr_list"}]
  /\ raced' = IF "state" \in thread[t].todo THEN raced
              ELSE raced \cup {dns_server[thread[t].channel].hostname}
  /\ UNCHANGED <<main, pipe, clients>>

\* The two stores are plain stores to different objects: without a barrier the
\* second may be seen before the first, and the first at any time after it.
StoreState(t) ==
  /\ "state" \in thread[t].todo
  /\ dns_server' = [dns_server EXCEPT ![thread[t].channel] =
                      [@ EXCEPT !.state = "RESOLVED"]]
  /\ thread' = [thread EXCEPT ![t].todo = @ \ {"state"}]
  /\ raced' = IF "addr_list" \notin thread[t].todo THEN raced
              ELSE raced \cup {dns_server[thread[t].channel].hostname}
  /\ UNCHANGED <<main, pipe, clients>>

\* The byte in the pipe; a system call, so both stores are done.
Notify(t) ==
  /\ thread[t].pc = "store" /\ thread[t].todo = {}
  /\ pipe' = TRUE
  /\ thread' = [thread EXCEPT ![t] = NoThread]
  /\ UNCHANGED <<dns_server, main, clients, raced>>

Dns_server(t) == Lookup(t) \/ StoreAddrList(t) \/ StoreState(t) \/ Notify(t)

----------------------------------------------------------------------------
(* Requests, on the main thread.  Only the main thread makes a channel idle *)
(* or busy, so that no thread can change what these steps read.             *)

Request(k, h) == /\ pc = "loop"
                 /\ answer[k] # Waiting
                 /\ asked' = [asked EXCEPT ![k] = h]
                 /\ UNCHANGED <<dns_cache, pc, i, pipe, raced>>

\* http.c's callback takes an answer for a success only with a list.
Callback(k, status, addr_list) ==
  answer' = [answer EXCEPT ![k] = IF status = "ok" THEN addr_list ELSE NULL]

NotYet(k) == answer' = [answer EXCEPT ![k] = Waiting]

ResolveCached(k, h) ==
  /\ Request(k, h)
  /\ \E n \in 1 .. Len(dns_cache) :
       /\ dns_cache[n].hostname = h
       /\ \A m \in 1 .. n - 1 : dns_cache[m].hostname # h
       /\ Callback(k, "ok", dns_cache[n].addr_list)
  /\ UNCHANGED <<dns_server, dns_queue, thread>>

\* The host has been asked for: share that request's channel, or its wait.
ResolveQueued(k, h) ==
  /\ Request(k, h)
  /\ ~Cached(h)
  /\ \E j \in 1 .. Len(dns_queue) :
       /\ Dns_queue_find(h, j)
       /\ dns_queue' = Dns_queue_add(dns_queue[j].channel, h, k)
  /\ NotYet(k)
  /\ UNCHANGED <<dns_server, thread>>

Idle(c) == dns_server[c].state = "IDLE"

\* Asks for the host on another channel, for the mutation tests.
ResolveOnChannelAlways(k, h) ==
  /\ Request(k, h)
  /\ ~Cached(h)
  /\ \E c \in Channels :
       /\ Idle(c) /\ \A d \in 0 .. c - 1 : ~Idle(d)
       /\ dns_queue' = Dns_queue_add(c, h, k)
       /\ Dns_server_req(c, h)
  /\ NotYet(k)

ResolveOnChannel(k, h) ==
  /\ Request(k, h)
  /\ ~Cached(h) /\ ~Queued(h)
  /\ \E c \in Channels :
       /\ Idle(c) /\ \A d \in 0 .. c - 1 : ~Idle(d)
       /\ dns_queue' = Dns_queue_add(c, h, k)
       /\ Dns_server_req(c, h)
  /\ NotYet(k)

ResolveLater(k, h) ==
  /\ Request(k, h)
  /\ ~Cached(h) /\ ~Queued(h)
  /\ \A c \in Channels : ~Idle(c)
  /\ dns_queue' = Dns_queue_add(NoChannel, h, k)
  /\ NotYet(k)
  /\ UNCHANGED <<dns_server, thread>>

a_Dns_resolve(k, h) == \/ ResolveCached(k, h) \/ ResolveQueued(k, h)
                       \/ ResolveOnChannel(k, h) \/ ResolveLater(k, h)

----------------------------------------------------------------------------
(* Dns_timeout_client, on the main thread, one channel or callback a step  *)

\* The pipe is emptied before the channels are looked at.
Drain == /\ pc = "loop" /\ pipe
         /\ pipe' = FALSE
         /\ pc' = "scan" /\ i' = 0
         /\ UNCHANGED <<dns_server, dns_queue, dns_cache, thread, clients, raced>>

Dns_cache_add == Append(dns_cache, [hostname |-> dns_server[i].hostname,
                                    addr_list |-> dns_server[i].addr_list])

\* Takes whatever a busy channel holds for its answer, for the mutation tests.
ScanResolvedBusy ==
  /\ pc = "scan" /\ i \in Channels
  /\ dns_server[i].state # "IDLE"
  /\ dns_cache' = IF dns_server[i].addr_list # NULL THEN Dns_cache_add
                  ELSE dns_cache
  /\ pc' = "serve"
  /\ UNCHANGED <<dns_server, dns_queue, i, pipe, thread, clients, raced>>

\* Caches failures too, for the mutation tests.
ScanResolvedCachesAll ==
  /\ pc = "scan" /\ i \in Channels
  /\ dns_server[i].state = "RESOLVED"
  /\ dns_cache' = Dns_cache_add
  /\ pc' = "serve"
  /\ UNCHANGED <<dns_server, dns_queue, i, pipe, thread, clients, raced>>

ScanResolved ==
  /\ pc = "scan" /\ i \in Channels
  /\ dns_server[i].state = "RESOLVED"
  /\ dns_cache' = IF dns_server[i].addr_list # NULL THEN Dns_cache_add
                  ELSE dns_cache
  /\ pc' = "serve"
  /\ UNCHANGED <<dns_server, dns_queue, i, pipe, thread, clients, raced>>

ScanOther ==
  /\ pc = "scan" /\ i \in Channels
  /\ dns_server[i].state # "RESOLVED"
  /\ i' = i + 1
  /\ UNCHANGED <<dns_server, dns_queue, dns_cache, pc, pipe, thread, clients, raced>>

\* The pipe is emptied after the channels were looked at, for the mutation tests.
ScanDoneDrains ==
  /\ pc = "scan" /\ i \notin Channels
  /\ pc' = "assign" /\ i' = 0
  /\ pipe' = FALSE
  /\ UNCHANGED <<dns_server, dns_queue, dns_cache, thread, clients, raced>>

ScanDone ==
  /\ pc = "scan" /\ i \notin Channels
  /\ pc' = "assign" /\ i' = 0
  /\ UNCHANGED <<dns_server, dns_queue, dns_cache, pipe, thread, clients, raced>>

\* One turn of the loop in Dns_serve_channel.
ServeClient ==
  /\ pc = "serve"
  /\ \E j \in 1 .. Len(dns_queue) :
       /\ FirstOn(i, j)
       /\ Callback(dns_queue[j].cb_data, dns_server[i].status,
                   dns_server[i].addr_list)
       /\ dns_queue' = Dns_queue_remove(j)
  /\ UNCHANGED <<dns_server, dns_cache, pc, i, pipe, thread, asked, raced>>

ServeDone ==
  /\ pc = "serve"
  /\ \A j \in 1 .. Len(dns_queue) : dns_queue[j].channel # i
  /\ dns_server' = [dns_server EXCEPT ![i] = [@ EXCEPT !.state = "IDLE"]]
  /\ pc' = "scan" /\ i' = i + 1
  /\ UNCHANGED <<dns_queue, dns_cache, pipe, thread, clients, raced>>

\* Every request that waits for host h gets channel c.
OnChannel(h, c) ==
  [j \in 1 .. Len(dns_queue) |->
     IF dns_queue[j].channel = NoChannel /\ dns_queue[j].hostname = h
     THEN [dns_queue[j] EXCEPT !.channel = c] ELSE dns_queue[j]]

AssignIdle ==
  /\ pc = "assign" /\ i \in Channels
  /\ Idle(i)
  /\ \E j \in 1 .. Len(dns_queue) :
       /\ FirstOn(NoChannel, j)
       /\ dns_queue' = OnChannel(dns_queue[j].hostname, i)
       /\ Dns_server_req(i, dns_queue[j].hostname)
  /\ i' = i + 1
  /\ UNCHANGED <<dns_cache, pc, pipe, clients, raced>>

\* Gives up at the first busy channel, for the mutation tests.
AssignBusyReturns ==
  /\ pc = "assign" /\ i \in Channels
  /\ ~Idle(i)
  /\ pc' = "loop" /\ i' = 0
  /\ UNCHANGED <<dns_server, dns_queue, dns_cache, pipe, thread, clients, raced>>

AssignBusy ==
  /\ pc = "assign" /\ i \in Channels
  /\ ~Idle(i)
  /\ i' = i + 1
  /\ UNCHANGED <<dns_server, dns_queue, dns_cache, pc, pipe, thread, clients, raced>>

AssignDone ==
  /\ pc = "assign"
  /\ \/ i \notin Channels
     \/ /\ i \in Channels /\ Idle(i)
        /\ \A j \in 1 .. Len(dns_queue) : dns_queue[j].channel # NoChannel
  /\ pc' = "loop" /\ i' = 0
  /\ UNCHANGED <<dns_server, dns_queue, dns_cache, pipe, thread, clients, raced>>

Dns_timeout_client == \/ Drain
                      \/ ScanResolved \/ ScanOther \/ ScanDone
                      \/ ServeClient \/ ServeDone
                      \/ AssignIdle \/ AssignBusy \/ AssignDone

----------------------------------------------------------------------------
a_Dns_init ==
  /\ dns_server = [c \in Channels |-> [state |-> "IDLE", addr_list |-> NULL,
                                       hostname |-> NULL, status |-> "ok"]]
  /\ dns_queue = <<>> /\ dns_cache = <<>>
  /\ pipe = FALSE

Init == /\ a_Dns_init
        /\ pc = "loop" /\ i = 0
        /\ thread = [t \in Threads |-> NoThread]
        /\ asked = [k \in Clients |-> NULL]
        /\ answer = [k \in Clients |-> NULL]
        /\ raced = {}

Next == \/ \E k \in Clients, h \in Hosts : a_Dns_resolve(k, h)
        \/ Dns_timeout_client
        \/ \E t \in Threads : Dns_server(t)

Spec == Init /\ [][Next]_vars

\* getaddrinfo gives up in the end and threads are scheduled; the event loop
\* returns to a readable pipe.  Nothing makes clients ask.
Fairness == /\ \A t \in Threads : WF_vars(Dns_server(t))
            /\ WF_vars(Dns_timeout_client)

FairSpec == Spec /\ Fairness

----------------------------------------------------------------------------
(* Properties                                                              *)

ServerType == [state : {"IDLE", "PROCESSING", "RESOLVED"},
               addr_list : Hosts \cup {NULL},
               hostname : Hosts \cup {NULL},
               status : {"ok", "error"}]

\* Every variable has its type.
TypeOK ==
  /\ dns_server \in [Channels -> ServerType]
  /\ dns_queue \in Seq(Entry)
  /\ dns_cache \in Seq([hostname : Hosts, addr_list : Hosts])
  /\ pipe \in BOOLEAN
  /\ pc \in {"loop", "scan", "serve", "assign"}
  /\ i \in 0 .. D_DNS_MAX_SERVERS
  /\ thread \in [Threads -> ThreadType]
  /\ asked \in [Clients -> Hosts \cup {NULL}]
  /\ answer \in [Clients -> Hosts \cup {NULL, Waiting}]
  /\ raced \subseteq Hosts

\* Two channels never look up the same host ("Fixed dns.c from solving the
\* same address on different channels", dillo/ChangeLog:1667), and the
\* requests for a host all wait for the same channel.
OneLookupPerHost ==
  /\ \A c, d \in Channels :
       ~Idle(c) /\ ~Idle(d) /\ dns_server[c].hostname = dns_server[d].hostname
         => c = d
  /\ \A j, l \in 1 .. Len(dns_queue) :
       dns_queue[j].hostname = dns_queue[l].hostname
         => dns_queue[j].channel = dns_queue[l].channel

\* The cache has each host once, and with its own addresses: nothing of the lookup that
\* used the channel before, unless the stores at the end of Dns_server were seen out of
\* order (raced).
CacheSound ==
  /\ \A n \in 1 .. Len(dns_cache) :
       dns_cache[n].hostname \notin raced
         => dns_cache[n].addr_list = dns_cache[n].hostname
  /\ \A n, m \in 1 .. Len(dns_cache) :
       dns_cache[n].hostname = dns_cache[m].hostname => n = m

\* An answer in a channel is always still going to be noticed: the byte for it
\* is in the pipe or will be written, or the scan under way has not passed it.
NoLostWakeUp ==
  \A c \in Channels :
    dns_server[c].state = "RESOLVED" =>
      \/ pipe
      \/ pc \in {"scan", "serve"} /\ i <= c
      \/ \E t \in Threads : thread[t].pc = "store" /\ thread[t].channel = c

\* Whenever the main thread is back in its event loop, requests wait without a
\* channel only while every channel is busy.
NoIdleChannelWasted ==
  pc = "loop" /\ (\E j \in 1 .. Len(dns_queue) : dns_queue[j].channel = NoChannel)
    => \A c \in Channels : ~Idle(c)

\* The resolver keeps its promise.
Service == INSTANCE DnsService WITH known <- {h \in Hosts : Cached(h)}, spoilt <- raced

ImplementsService == Service!Spec

\* Every request is answered.
EveryRequestAnswered ==
  \A k \in Clients : answer[k] = Waiting ~> answer[k] # Waiting

============================================================================
