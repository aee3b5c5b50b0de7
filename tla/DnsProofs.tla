----------------------------- MODULE DnsProofs -----------------------------
(***************************************************************************)
(* Proofs about Dns, for any number of channels, hosts, clients and        *)
(* threads, whether pthread_create fails or not and in whatever order the  *)
(* stores of the threads are seen.                                         *)
(***************************************************************************)
EXTENDS Dns, TLAPS

Positions == 1 .. Len(dns_queue)

\* The thread has not told the main thread about its channel yet.
Working(t) == thread[t].pc = "lookup" \/ "state" \in thread[t].todo

\* What a thread may rely on and what it has left to do.
ThreadsSound ==
  /\ \A t \in Threads :
       /\ thread[t].pc # "none" => /\ thread[t].channel \in Channels
                                   /\ dns_server[thread[t].channel].hostname \in Hosts
       /\ thread[t].pc # "store" => thread[t].todo = {}
       /\ Working(t) => dns_server[thread[t].channel].state = "PROCESSING"
  /\ \A t, u \in Threads :
       Working(t) /\ Working(u) /\ thread[t].channel = thread[u].channel => t = u

\* A list is the list of host h, and then the lookup has not failed.
Fits(list, status, h) == list \in {h, NULL} /\ (list # NULL => status = "ok")

\* A thread carries an answer for its channel's host, and leaves one there unless
\* stores were seen out of order.
AnswersSound ==
  /\ \A t \in Threads :
       "state" \in thread[t].todo =>
         LET s == dns_server[thread[t].channel]
         IN  /\ Fits(thread[t].hosts, s.status, s.hostname)
             /\ "addr_list" \notin thread[t].todo /\ s.hostname \notin raced
                  => s.addr_list = thread[t].hosts
  /\ \A c \in Channels :
       dns_server[c].state = "RESOLVED" /\ dns_server[c].hostname \notin raced =>
         Fits(dns_server[c].addr_list, dns_server[c].status, dns_server[c].hostname)

\* A channel is busy for the host of the requests queued on it, and there are
\* some unless they are just being answered.
ChannelsSound ==
  /\ \A j \in Positions :
       dns_queue[j].channel # NoChannel =>
         /\ ~Idle(dns_queue[j].channel)
         /\ dns_server[dns_queue[j].channel].hostname = dns_queue[j].hostname
  /\ \A c \in Channels :
       ~Idle(c) /\ ~(pc = "serve" /\ i = c) =>
         \E j \in Positions : dns_queue[j].channel = c
  /\ pc = "serve" => i \in Channels /\ dns_server[i].state = "RESOLVED"

\* Exactly the clients that wait are queued, each once and for its host.
ClientsSound ==
  /\ \A j \in Positions : /\ answer[dns_queue[j].cb_data] = Waiting
                          /\ asked[dns_queue[j].cb_data] = dns_queue[j].hostname
  /\ \A j, l \in Positions : dns_queue[j].cb_data = dns_queue[l].cb_data => j = l
  /\ \A k \in Clients : answer[k] = Waiting =>
       \E j \in Positions : dns_queue[j].cb_data = k

\* A host that somebody waits for is in the cache only while the channel that
\* found it is served, and then it is; the list can change under the main thread's
\* eyes only for a host that raced.
CacheFresh ==
  /\ \A j \in Positions :
       Cached(dns_queue[j].hostname) =>
         /\ pc = "serve" /\ dns_queue[j].channel = i
         /\ dns_server[i].addr_list # NULL \/ dns_queue[j].hostname \in raced
  /\ pc = "serve" /\ dns_server[i].addr_list # NULL
       => Cached(dns_server[i].hostname) \/ dns_server[i].hostname \in raced

\* Dns_assign_channels leaves no idle channel behind while requests wait.
AssignSound == pc = "assign" => \A c \in 0 .. i - 1 : ~Idle(c)

IInv == /\ TypeOK /\ ThreadsSound /\ AnswersSound /\ ChannelsSound
        /\ OneLookupPerHost /\ ClientsSound /\ CacheSound /\ CacheFresh

----------------------------------------------------------------------------
(* The threads                                                             *)

\* The object of thread t and of its channel before the step.
LEMMA ThreadFacts ==
  ASSUME IInv, NEW t \in Threads
  PROVE  /\ thread[t] \in ThreadType
         /\ thread[t].pc # "none" =>
              /\ thread[t].channel \in Channels
              /\ dns_server[thread[t].channel] \in ServerType
              /\ dns_server[thread[t].channel].hostname \in Hosts
         /\ thread[t].pc # "store" => thread[t].todo = {}
BY DEF IInv, TypeOK, ThreadsSound

\* The lists in the cache have their type.
LEMMA CacheTypes ==
  ASSUME TypeOK
  PROVE  \A n \in 1 .. Len(dns_cache) : dns_cache[n].addr_list \in Hosts
<1>1. ASSUME NEW S, dns_cache \in Seq(S) PROVE \A n \in 1 .. Len(dns_cache) : dns_cache[n] \in S
  BY <1>1
<1> DEFINE S == [hostname : Hosts, addr_list : Hosts]
<1>2. dns_cache \in Seq(S) /\ \A e \in S : e.addr_list \in Hosts
  BY DEF TypeOK
<1> HIDE DEF S
<1> QED
  BY <1>1, <1>2

\* The entries of the queue have their type.
LEMMA QueueTypes ==
  ASSUME TypeOK
  PROVE  /\ Len(dns_queue) \in Nat
         /\ \A j \in Positions : /\ dns_queue[j] \in Entry
                                 /\ dns_queue[j].channel \in Channels \cup {NoChannel}
                                 /\ dns_queue[j].hostname \in Hosts
                                 /\ dns_queue[j].cb_data \in Clients
<1>1. Len(dns_queue) \in Nat /\ \A j \in Positions : dns_queue[j] \in Entry
  BY DEF TypeOK, Positions
<1>2. \A e \in Entry : /\ e.channel \in Channels \cup {NoChannel}
                       /\ e.hostname \in Hosts /\ e.cb_data \in Clients
  BY DEF Entry
<1> QED
  BY <1>1, <1>2

\* Storing the addresses keeps the invariant.
LEMMA StoreAddrListKeeps ==
  ASSUME IInv, NEW t \in Threads, StoreAddrList(t)
  PROVE  IInv'
<1> USE ChannelAssumption, ValueAssumption
<1> DEFINE th == [thread[t] EXCEPT !.todo = @ \ {"addr_list"}]
           c == thread[t].channel
           s == [dns_server[c] EXCEPT !.addr_list = thread[t].hosts]
<1>t. /\ thread[t] \in ThreadType /\ c \in Channels /\ dns_server[c] \in ServerType
      /\ dns_server[c].hostname \in Hosts
  BY ThreadFacts DEF StoreAddrList, ThreadType
<1>a. th \in ThreadType /\ s \in ServerType
  BY <1>t DEF ThreadType, ServerType
<1>b. thread' = [thread EXCEPT ![t] = th]
  BY <1>t DEF StoreAddrList, IInv, TypeOK
<1>d. dns_server' = [dns_server EXCEPT ![c] = s]
  BY Zenon DEF StoreAddrList
<1>c. UNCHANGED <<dns_queue, dns_cache, pc, i, pipe, asked, answer>>
  BY DEF StoreAddrList, main, clients
<1>r. raced \subseteq raced' /\ raced' \subseteq Hosts
  BY <1>t DEF StoreAddrList, IInv, TypeOK
<1>1. TypeOK'
  <2> HIDE DEF th, s, c
  <2> QED BY <1>a, <1>b, <1>c, <1>d, <1>r, <1>t DEF IInv, TypeOK
<1>2. ThreadsSound'
  BY DEF IInv, TypeOK, StoreAddrList, ThreadsSound, ThreadType, ServerType, Stores,
         main, clients, Working
<1>3. AnswersSound'
  BY DEF IInv, TypeOK, StoreAddrList, ThreadsSound, AnswersSound, ThreadType,
         ServerType, Stores, main, clients, Working, Fits
<1>4. ChannelsSound' /\ OneLookupPerHost'
  BY DEF IInv, TypeOK, StoreAddrList, ThreadsSound, ChannelsSound, OneLookupPerHost,
         ThreadType, ServerType, Stores, main, clients, Working, Positions, Idle,
         Entry
<1>5. ClientsSound' /\ CacheSound'
  BY <1>c, <1>r DEF IInv, ClientsSound, CacheSound, Positions
<1>6. CacheFresh'
  <2>1. \A g : Cached(g)' <=> Cached(g)
    BY <1>c DEF Cached
  <2>2. /\ \A d \in Channels : dns_server'[d].hostname = dns_server[d].hostname
        /\ \A d \in Channels : d # c => dns_server'[d] = dns_server[d]
    BY <1>d, <1>t DEF IInv, TypeOK, ServerType
  <2>3. CASE pc # "serve" \/ c # i
    BY <1>c, <1>r, <2>1, <2>2, <2>3 DEF IInv, ChannelsSound, CacheFresh, Positions
  <2>4. CASE pc = "serve" /\ c = i
    <3>1. i \in Channels /\ dns_server[i].state = "RESOLVED"
      BY <2>4 DEF IInv, ChannelsSound
    <3>2. dns_server[i].hostname \in raced'
      BY <2>4, <3>1 DEF IInv, ThreadsSound, Working, StoreAddrList
    <3>3. \A j \in Positions : dns_queue[j].channel = i => dns_queue[j].hostname \in raced'
      BY <3>1, <3>2, ChannelAssumption DEF IInv, ChannelsSound, Channels, NoChannel
    <3> QED
      BY <1>c, <2>1, <2>2, <3>1, <3>2, <3>3 DEF IInv, CacheFresh, Positions
  <2> QED BY <2>3, <2>4
<1> QED
  BY <1>1, <1>2, <1>3, <1>4, <1>5, <1>6 DEF IInv

\* Storing the state keeps the invariant: the addresses are there, or the host raced.
LEMMA StoreStateKeeps ==
  ASSUME IInv, NEW t \in Threads, StoreState(t)
  PROVE  IInv'
<1> USE ChannelAssumption, ValueAssumption
<1> DEFINE th == [thread[t] EXCEPT !.todo = @ \ {"state"}]
           c == thread[t].channel
           s == [dns_server[c] EXCEPT !.state = "RESOLVED"]
<1>t. /\ thread[t] \in ThreadType /\ c \in Channels /\ dns_server[c] \in ServerType
      /\ dns_server[c].hostname \in Hosts
  BY ThreadFacts DEF StoreState, ThreadType
<1>a. th \in ThreadType /\ s \in ServerType
  BY <1>t DEF ThreadType, ServerType
<1>b. thread' = [thread EXCEPT ![t] = th]
  BY <1>t DEF StoreState, IInv, TypeOK
<1>d. dns_server' = [dns_server EXCEPT ![c] = s]
  BY Zenon DEF StoreState
<1>c. UNCHANGED <<dns_queue, dns_cache, pc, i, pipe, asked, answer>>
  BY DEF StoreState, main, clients
<1>r. raced \subseteq raced' /\ raced' \subseteq Hosts
  BY <1>t DEF StoreState, IInv, TypeOK
<1>1. TypeOK'
  <2> HIDE DEF th, s, c
  <2> QED BY <1>a, <1>b, <1>c, <1>d, <1>r, <1>t DEF IInv, TypeOK
<1>2. ThreadsSound'
  BY DEF IInv, TypeOK, StoreState, ThreadsSound, ThreadType, ServerType, Stores,
         main, clients, Working
<1>3. AnswersSound'
  BY DEF IInv, TypeOK, StoreState, ThreadsSound, AnswersSound, ThreadType,
         ServerType, Stores, main, clients, Working, Fits
<1>4. ChannelsSound' /\ OneLookupPerHost'
  <2>1. /\ \A d \in Channels : /\ Idle(d)' <=> Idle(d)
                               /\ dns_server'[d].hostname = dns_server[d].hostname
                               /\ dns_server[d].state = "RESOLVED" => dns_server'[d].state = "RESOLVED"
    <3>1. dns_server[c].state = "PROCESSING"
      BY DEF IInv, ThreadsSound, Working, StoreState
    <3> QED BY <1>d, <1>t, <3>1 DEF IInv, TypeOK, ServerType, Idle
  <2>2. \A j \in Positions : dns_queue[j].channel \in Channels \cup {NoChannel}
    BY QueueTypes DEF IInv
  <2> QED
    BY <1>c, <2>1, <2>2 DEF IInv, ChannelsSound, OneLookupPerHost, Positions
<1>5. ClientsSound' /\ CacheSound'
  BY <1>c, <1>r DEF IInv, ClientsSound, CacheSound, Positions
<1>6. CacheFresh'
  BY DEF IInv, TypeOK, StoreState, ThreadsSound, ChannelsSound, CacheFresh, Cached,
         ThreadType, ServerType, Stores, main, clients, Working, Positions
<1> QED
  BY <1>1, <1>2, <1>3, <1>4, <1>5, <1>6 DEF IInv

\* A lookup keeps the invariant: nobody else looks at the channel's status.
LEMMA LookupKeeps ==
  ASSUME IInv, NEW t \in Threads, Lookup(t)
  PROVE  IInv'
<1> USE ChannelAssumption, ValueAssumption
<1> DEFINE c == thread[t].channel
<1>t. /\ thread[t] \in ThreadType /\ c \in Channels /\ dns_server[c] \in ServerType
      /\ thread[t].pc = "lookup" /\ thread[t].todo = {}
  BY ThreadFacts DEF Lookup
<1>p. PICK hosts \in {dns_server[c].hostname, NULL}, status \in {"ok", "error"} :
        /\ hosts # NULL => status = "ok"
        /\ dns_server' = [dns_server EXCEPT ![c] = [@ EXCEPT !.status = status]]
        /\ thread' = [thread EXCEPT ![t] = [@ EXCEPT !.pc = "store",
                                                     !.hosts = hosts,
                                                     !.todo = Stores]]
  BY DEF Lookup
<1> DEFINE th == [thread[t] EXCEPT !.pc = "store", !.hosts = hosts, !.todo = Stores]
           s == [dns_server[c] EXCEPT !.status = status]
<1>a. th \in ThreadType /\ s \in ServerType
  BY <1>t DEF ThreadType, ServerType
<1>b. thread' = [thread EXCEPT ![t] = th] /\ dns_server' = [dns_server EXCEPT ![c] = s]
  BY <1>p
<1>c. UNCHANGED <<dns_queue, dns_cache, pc, i, pipe, asked, answer, raced>>
  BY DEF Lookup, main, clients
<1>1. TypeOK'
  <2> HIDE DEF th, s, c
  <2> QED BY <1>a, <1>b, <1>c, <1>t DEF IInv, TypeOK
<1>2. ThreadsSound'
  BY <1>t, <1>p DEF IInv, TypeOK, ThreadsSound, ThreadType, ServerType, Stores, Working
<1>3. AnswersSound'
  BY <1>c, <1>t, <1>p DEF IInv, TypeOK, ThreadsSound, AnswersSound, ThreadType, ServerType,
                    Stores, Working, Fits
<1>4. ChannelsSound' /\ OneLookupPerHost'
  BY <1>t, <1>p, <1>c DEF IInv, TypeOK, ThreadsSound, ChannelsSound, OneLookupPerHost,
                          ServerType, Positions, Idle, Entry
<1>5. ClientsSound' /\ CacheSound'
  BY <1>c DEF IInv, ClientsSound, CacheSound, Positions
<1>6. CacheFresh'
  BY <1>t, <1>p, <1>c DEF IInv, TypeOK, ThreadsSound, ChannelsSound, CacheFresh, Cached,
                          ServerType, Working, Positions
<1> QED
  BY <1>1, <1>2, <1>3, <1>4, <1>5, <1>6 DEF IInv

\* The byte in the pipe keeps the invariant.
LEMMA NotifyKeeps ==
  ASSUME IInv, NEW t \in Threads, Notify(t)
  PROVE  IInv'
<1>c. UNCHANGED <<dns_server, dns_queue, dns_cache, pc, i, asked, answer, raced>>
  BY DEF Notify, main, clients
<1>a. NoThread \in ThreadType
  BY DEF NoThread, ThreadType
<1>1. TypeOK'
  BY <1>a, <1>c DEF IInv, TypeOK, Notify
<1>2. ThreadsSound' /\ AnswersSound'
  BY <1>c DEF IInv, TypeOK, Notify, ThreadsSound, AnswersSound, NoThread, Working
<1>3. ChannelsSound' /\ OneLookupPerHost' /\ CacheFresh'
  BY <1>c DEF IInv, ChannelsSound, OneLookupPerHost, CacheFresh, Cached, Idle, Positions
<1>4. ClientsSound' /\ CacheSound'
  BY <1>c DEF IInv, ClientsSound, CacheSound, Positions
<1> QED
  BY <1>1, <1>2, <1>3, <1>4 DEF IInv

----------------------------------------------------------------------------
(* Requests                                                                *)

\* Dns_server_req on an idle channel: the types, and what the threads and the
\* answers rely on.
LEMMA ServerReqKeeps ==
  ASSUME IInv, NEW c \in Channels, NEW h \in Hosts, Idle(c), Dns_server_req(c, h),
         UNCHANGED raced
  PROVE  /\ dns_server' \in [Channels -> ServerType]
         /\ thread' \in [Threads -> ThreadType]
         /\ ThreadsSound' /\ AnswersSound'
         /\ \A d \in Channels : d # c => dns_server'[d] = dns_server[d]
         /\ dns_server'[c].hostname = h
         /\ dns_server'[c].state = "PROCESSING"
         /\ dns_server'[c].addr_list = dns_server[c].addr_list
<1> USE ChannelAssumption, ValueAssumption
<1> DEFINE s == [dns_server[c] EXCEPT !.state = "PROCESSING", !.hostname = h]
           new == [NoThread EXCEPT !.pc = "lookup", !.channel = c]
<1>a. s \in ServerType /\ new \in ThreadType
  <2>1. dns_server[c] \in ServerType
    BY DEF IInv, TypeOK
  <2>2. s \in ServerType
    BY <2>1 DEF ServerType
  <2>3. new \in ThreadType
    BY DEF ThreadType, NoThread
  <2> QED BY <2>2, <2>3
<1>b. dns_server' = [dns_server EXCEPT ![c] = s]
  BY DEF Dns_server_req
<1>1. dns_server' \in [Channels -> ServerType]
  <2> HIDE DEF s
  <2> QED BY <1>a, <1>b DEF IInv, TypeOK
<1>2. /\ \A d \in Channels : d # c => dns_server'[d] = dns_server[d]
      /\ dns_server'[c].hostname = h
      /\ dns_server'[c].state = "PROCESSING"
      /\ dns_server'[c].addr_list = dns_server[c].addr_list
  BY <1>b DEF IInv, TypeOK, ServerType
<1>3. thread' \in [Threads -> ThreadType] /\ ThreadsSound' /\ AnswersSound'
  <2>1. CASE UNCHANGED thread
    <3>1. thread' \in [Threads -> ThreadType]
      BY <2>1 DEF IInv, TypeOK
    <3>2. ThreadsSound'
      BY <1>2, <2>1, ZenonT(30) DEF IInv, TypeOK, ThreadType, ThreadsSound, Working, Idle
    <3>3. AnswersSound'
      BY <1>2, <2>1, ZenonT(30) DEF IInv, TypeOK, ThreadType, ThreadsSound, AnswersSound, Working, Idle
    <3> QED BY <3>1, <3>2, <3>3
  <2>2. CASE ~UNCHANGED thread
    <3>1. PICK t \in Threads : /\ thread[t].pc = "none"
                               /\ thread' = [thread EXCEPT ![t] = new]
      BY <2>2 DEF Dns_server_req, Spawn
    <3>2. thread' \in [Threads -> ThreadType]
      <4> HIDE DEF new
      <4> QED BY <1>a, <3>1 DEF IInv, TypeOK
    <3>3. ThreadsSound'
      BY <1>2, <3>1 DEF IInv, TypeOK, ThreadType, ThreadsSound, Working, Idle, NoThread
    <3>4. AnswersSound'
      BY <1>2, <3>1, ZenonT(30) DEF IInv, TypeOK, ThreadType, ThreadsSound, AnswersSound, Working,
                        Idle, NoThread
    <3> QED BY <3>2, <3>3, <3>4
  <2> QED BY <2>1, <2>2
<1> QED
  BY <1>1, <1>2, <1>3

\* What a request changes when it joins the queue.
LEMMA QueueAddFacts ==
  ASSUME IInv, NEW c \in Channels \cup {NoChannel}, NEW h \in Hosts, NEW k \in Clients,
         Request(k, h), NotYet(k), dns_queue' = Dns_queue_add(c, h, k)
  PROVE  /\ dns_queue' \in Seq(Entry)
         /\ Len(dns_queue') = Len(dns_queue) + 1
         /\ \A j \in Positions : dns_queue'[j] = dns_queue[j]
         /\ dns_queue'[Len(dns_queue) + 1].channel = c
         /\ dns_queue'[Len(dns_queue) + 1].hostname = h
         /\ dns_queue'[Len(dns_queue) + 1].cb_data = k
         /\ ClientsSound'
         /\ asked' \in [Clients -> Hosts \cup {NULL}]
         /\ answer' \in [Clients -> Hosts \cup {NULL, Waiting}]
<1> DEFINE e == [channel |-> c, hostname |-> h, cb_data |-> k]
<1>1. e \in Entry /\ e.channel = c /\ e.hostname = h /\ e.cb_data = k
  BY DEF Entry
<1>2. dns_queue \in Seq(Entry) /\ dns_queue' = Append(dns_queue, e)
  BY DEF IInv, TypeOK, Dns_queue_add
<1> HIDE DEF e
<1>3. /\ dns_queue' \in Seq(Entry)
      /\ Len(dns_queue') = Len(dns_queue) + 1
      /\ \A j \in Positions : dns_queue'[j] = dns_queue[j]
      /\ dns_queue'[Len(dns_queue) + 1] = e
  BY <1>1, <1>2 DEF Positions
<1>4. /\ asked' \in [Clients -> Hosts \cup {NULL}]
      /\ answer' \in [Clients -> Hosts \cup {NULL, Waiting}]
      /\ asked'[k] = h /\ answer'[k] = Waiting /\ answer[k] # Waiting
      /\ \A m \in Clients : m # k => asked'[m] = asked[m] /\ answer'[m] = answer[m]
  BY DEF IInv, TypeOK, Request, NotYet
<1>5. Len(dns_queue) \in Nat /\ \A j \in Positions : dns_queue[j].cb_data \in Clients
  BY QueueTypes DEF IInv
<1>6. \A j \in Positions : dns_queue[j].cb_data # k
  BY <1>4 DEF IInv, ClientsSound
<1>7. Positions' = Positions \cup {Len(dns_queue) + 1}
  BY <1>3, <1>5 DEF Positions
<1>8. ClientsSound'
  BY <1>1, <1>3, <1>4, <1>5, <1>6, <1>7, SMTT(30) DEF IInv, ClientsSound
<1> QED
  BY <1>1, <1>3, <1>4, <1>8

\* A request answered from the cache keeps the invariant.
LEMMA ResolveCachedKeeps ==
  ASSUME IInv, NEW k \in Clients, NEW h \in Hosts, ResolveCached(k, h)
  PROVE  IInv'
<1>c. UNCHANGED <<dns_server, dns_queue, dns_cache, pc, i, pipe, thread, raced>>
  BY DEF ResolveCached, Request
<1>1. PICK n \in 1 .. Len(dns_cache) : /\ dns_cache[n].hostname = h
                                       /\ Callback(k, "ok", dns_cache[n].addr_list)
  BY DEF ResolveCached
<1>2. dns_cache[n].addr_list \in Hosts
  BY <1>1, CacheTypes DEF IInv
<1>3. /\ asked' \in [Clients -> Hosts \cup {NULL}]
      /\ answer' \in [Clients -> Hosts \cup {NULL, Waiting}]
      /\ answer'[k] # Waiting /\ answer[k] # Waiting
      /\ \A m \in Clients : m # k => asked'[m] = asked[m] /\ answer'[m] = answer[m]
  BY <1>1, <1>2, ValueAssumption DEF IInv, TypeOK, ResolveCached, Request, Callback
<1>4. TypeOK'
  BY <1>c, <1>3 DEF IInv, TypeOK
<1>5. ThreadsSound' /\ AnswersSound'
  BY <1>c DEF IInv, ThreadsSound, AnswersSound, Working
<1>6. ChannelsSound' /\ OneLookupPerHost' /\ CacheFresh' /\ CacheSound'
  BY <1>c DEF IInv, ChannelsSound, OneLookupPerHost, CacheFresh, Cached, Idle, Positions,
              CacheSound
<1>7. ClientsSound'
  <2>1. \A j \in Positions : dns_queue[j].cb_data \in Clients
    BY QueueTypes DEF IInv
  <2>2. \A j \in Positions : dns_queue[j].cb_data # k
    BY <1>3 DEF IInv, ClientsSound
  <2> QED
    BY <1>c, <1>3, <2>1, <2>2 DEF IInv, ClientsSound, Positions
<1> QED
  BY <1>4, <1>5, <1>6, <1>7 DEF IInv

\* A request that shares an earlier one's channel or wait keeps the invariant.
LEMMA ResolveQueuedKeeps ==
  ASSUME IInv, NEW k \in Clients, NEW h \in Hosts, ResolveQueued(k, h)
  PROVE  IInv'
<1>c. /\ UNCHANGED <<dns_server, dns_cache, pc, i, pipe, thread, raced>>
      /\ Request(k, h) /\ NotYet(k) /\ pc = "loop" /\ ~Cached(h)
  BY DEF ResolveQueued, Request
<1>1. PICK j \in Positions : /\ dns_queue[j].hostname = h
                             /\ dns_queue' = Dns_queue_add(dns_queue[j].channel, h, k)
  BY DEF ResolveQueued, Dns_queue_find, Positions
<1> DEFINE c == dns_queue[j].channel
           n == Len(dns_queue) + 1
<1>2. c \in Channels \cup {NoChannel} /\ Len(dns_queue) \in Nat
  BY QueueTypes DEF IInv
<1>3. /\ dns_queue' \in Seq(Entry)
      /\ Len(dns_queue') = Len(dns_queue) + 1
      /\ \A l \in Positions : dns_queue'[l] = dns_queue[l]
      /\ dns_queue'[n].channel = c
      /\ dns_queue'[n].hostname = h
      /\ ClientsSound'
      /\ asked' \in [Clients -> Hosts \cup {NULL}]
      /\ answer' \in [Clients -> Hosts \cup {NULL, Waiting}]
  BY <1>c, <1>1, <1>2, QueueAddFacts
<1>4. Positions' = Positions \cup {n}
  BY <1>2, <1>3 DEF Positions
<1> HIDE DEF c, n
<1>5. TypeOK'
  BY <1>c, <1>3 DEF IInv, TypeOK
<1>6. ThreadsSound' /\ AnswersSound' /\ CacheSound'
  BY <1>c DEF IInv, ThreadsSound, AnswersSound, Working, CacheSound
<1>7. ChannelsSound'
  BY <1>c, <1>1, <1>3, <1>4 DEF IInv, ChannelsSound, Idle, c
<1>8. OneLookupPerHost'
  BY <1>c, <1>1, <1>3, <1>4, SMTT(30) DEF IInv, OneLookupPerHost, Idle, Positions, c
<1>9. CacheFresh'
  BY <1>c, <1>1, <1>3, <1>4 DEF IInv, CacheFresh, Cached
<1> QED
  BY <1>3, <1>5, <1>6, <1>7, <1>8, <1>9 DEF IInv

\* A request that gets a channel keeps the invariant: nobody waits for its host,
\* so no busy channel is looking it up.
LEMMA ResolveOnChannelKeeps ==
  ASSUME IInv, NEW k \in Clients, NEW h \in Hosts, ResolveOnChannel(k, h)
  PROVE  IInv'
<1>a. /\ UNCHANGED <<dns_cache, pc, i, pipe, raced>>
      /\ Request(k, h) /\ NotYet(k) /\ pc = "loop" /\ ~Cached(h) /\ ~Queued(h)
  BY DEF ResolveOnChannel, Request
<1>1. PICK c \in Channels : /\ Idle(c) /\ dns_queue' = Dns_queue_add(c, h, k)
                            /\ Dns_server_req(c, h)
  BY DEF ResolveOnChannel
<1> DEFINE n == Len(dns_queue) + 1
<1>2. /\ dns_server' \in [Channels -> ServerType]
      /\ thread' \in [Threads -> ThreadType]
      /\ ThreadsSound' /\ AnswersSound'
      /\ \A d \in Channels : d # c => dns_server'[d] = dns_server[d]
      /\ dns_server'[c].hostname = h /\ dns_server'[c].state = "PROCESSING"
  BY <1>a, <1>1, ServerReqKeeps
<1>3. /\ dns_queue' \in Seq(Entry)
      /\ Len(dns_queue') = Len(dns_queue) + 1
      /\ \A l \in Positions : dns_queue'[l] = dns_queue[l]
      /\ dns_queue'[n].channel = c
      /\ dns_queue'[n].hostname = h
      /\ ClientsSound'
      /\ asked' \in [Clients -> Hosts \cup {NULL}]
      /\ answer' \in [Clients -> Hosts \cup {NULL, Waiting}]
  BY <1>a, <1>1, QueueAddFacts
<1>4. Positions' = Positions \cup {n}
  BY <1>3, QueueTypes DEF Positions, IInv
<1> HIDE DEF n
<1>5. TypeOK' /\ CacheSound'
  BY <1>a, <1>2, <1>3 DEF IInv, TypeOK, CacheSound
<1>6. \A j \in Positions : /\ dns_queue[j].hostname # h /\ dns_queue[j].channel # c
                           /\ dns_queue[j].channel \in Channels \cup {NoChannel}
  BY <1>a, <1>1, QueueTypes, ChannelAssumption
  DEF Queued, Positions, IInv, ChannelsSound, Channels, NoChannel
<1>7. \A d \in Channels : ~Idle(d) => dns_server[d].hostname # h
  BY <1>a, <1>6, ChannelAssumption DEF IInv, ChannelsSound, Channels, NoChannel
<1>8. ChannelsSound'
  BY <1>a, <1>1, <1>2, <1>3, <1>4, <1>6 DEF IInv, ChannelsSound, Idle
<1>9. OneLookupPerHost'
  <2>1. \A d, e \in Channels : ~Idle(d)' /\ ~Idle(e)'
          /\ dns_server'[d].hostname = dns_server'[e].hostname => d = e
    BY <1>1, <1>2, <1>7 DEF IInv, OneLookupPerHost, Idle
  <2>2. \A j, l \in Positions' : dns_queue'[j].hostname = dns_queue'[l].hostname
          => dns_queue'[j].channel = dns_queue'[l].channel
    BY <1>3, <1>4, <1>6 DEF IInv, OneLookupPerHost, Positions
  <2> QED BY <2>1, <2>2 DEF OneLookupPerHost, Positions
<1>10. CacheFresh'
  BY <1>a, <1>3, <1>4 DEF IInv, CacheFresh, Cached
<1> QED
  BY <1>2, <1>3, <1>5, <1>8, <1>9, <1>10 DEF IInv

\* A request that has to wait for a channel keeps the invariant.
LEMMA ResolveLaterKeeps ==
  ASSUME IInv, NEW k \in Clients, NEW h \in Hosts, ResolveLater(k, h)
  PROVE  IInv'
<1>a. /\ UNCHANGED <<dns_server, dns_cache, pc, i, pipe, thread, raced>>
      /\ Request(k, h) /\ NotYet(k) /\ pc = "loop" /\ ~Cached(h) /\ ~Queued(h)
      /\ dns_queue' = Dns_queue_add(NoChannel, h, k)
  BY DEF ResolveLater, Request
<1> DEFINE n == Len(dns_queue) + 1
<1>3. /\ dns_queue' \in Seq(Entry)
      /\ Len(dns_queue') = Len(dns_queue) + 1
      /\ \A l \in Positions : dns_queue'[l] = dns_queue[l]
      /\ dns_queue'[n].channel = NoChannel
      /\ dns_queue'[n].hostname = h
      /\ ClientsSound'
      /\ asked' \in [Clients -> Hosts \cup {NULL}]
      /\ answer' \in [Clients -> Hosts \cup {NULL, Waiting}]
  BY <1>a, QueueAddFacts
<1>4. Positions' = Positions \cup {n}
  BY <1>3, QueueTypes DEF Positions, IInv
<1> HIDE DEF n
<1>5. TypeOK' /\ CacheSound'
  BY <1>a, <1>3 DEF IInv, TypeOK, CacheSound
<1>6. ThreadsSound' /\ AnswersSound'
  BY <1>a DEF IInv, ThreadsSound, AnswersSound, Working
<1>7. ChannelsSound'
  BY <1>a, <1>3, <1>4 DEF IInv, ChannelsSound, Idle
<1>8. OneLookupPerHost'
  BY <1>a, <1>3, <1>4 DEF IInv, OneLookupPerHost, Idle, Positions, Queued
<1>9. CacheFresh'
  BY <1>a, <1>3, <1>4 DEF IInv, CacheFresh, Cached
<1> QED
  BY <1>3, <1>5, <1>6, <1>7, <1>8, <1>9 DEF IInv

----------------------------------------------------------------------------
(* The scan of the channels                                                *)

\* Steps of the main thread that only move on: pc and i change and no client is
\* being served before or after.
LEMMA MovingOnKeeps ==
  ASSUME IInv, pc # "serve", pc' \in {"loop", "scan", "assign"},
         i' \in 0 .. D_DNS_MAX_SERVERS, pipe' \in BOOLEAN,
         UNCHANGED <<dns_server, dns_queue, dns_cache, thread, asked, answer, raced>>
  PROVE  IInv'
<1>1. TypeOK' /\ CacheSound'
  BY DEF IInv, TypeOK, CacheSound
<1>2. ThreadsSound' /\ AnswersSound'
  BY DEF IInv, ThreadsSound, AnswersSound, Working
<1>3. ChannelsSound' /\ OneLookupPerHost'
  BY DEF IInv, ChannelsSound, OneLookupPerHost, Idle, Positions
<1>4. ClientsSound'
  BY DEF IInv, ClientsSound, Positions
<1>5. CacheFresh'
  BY DEF IInv, CacheFresh, Cached, Positions
<1> QED
  BY <1>1, <1>2, <1>3, <1>4, <1>5 DEF IInv

\* An answer that is found is cached once: its host has a request waiting, so it
\* was not in the cache.
LEMMA ScanResolvedKeeps ==
  ASSUME IInv, ScanResolved
  PROVE  IInv'
<1> USE ChannelAssumption, ValueAssumption
<1> DEFINE h == dns_server[i].hostname
<1>a. /\ UNCHANGED <<dns_server, dns_queue, i, pipe, thread, asked, answer, raced>>
      /\ pc = "scan" /\ pc' = "serve" /\ i \in Channels
      /\ dns_server[i].state = "RESOLVED"
  BY DEF ScanResolved, clients
<1>1. PICK j \in Positions : dns_queue[j].channel = i
  BY <1>a DEF IInv, ChannelsSound, Idle
<1>2. dns_queue[j].hostname = h /\ h \in Hosts /\ dns_queue[j].channel # NoChannel
  BY <1>a, <1>1, QueueTypes DEF IInv, ChannelsSound, Channels, NoChannel
<1>3. ~Cached(h)
  BY <1>a, <1>2 DEF IInv, CacheFresh
<1>4. /\ dns_server[i].addr_list \in Hosts \cup {NULL}
      /\ h \notin raced => dns_server[i].addr_list \in {h, NULL}
  <2>1. dns_server[i] \in ServerType
    BY <1>a DEF IInv, TypeOK
  <2>2. dns_server[i].addr_list \in Hosts \cup {NULL}
    BY <2>1 DEF ServerType
  <2> QED BY <1>a, <2>2 DEF IInv, AnswersSound, Fits
<1> HIDE DEF h
<1>5. \A l \in Positions : dns_queue[l].hostname = h => dns_queue[l].channel = i
  BY <1>1, <1>2 DEF IInv, OneLookupPerHost, Positions
<1>6. ThreadsSound' /\ AnswersSound' /\ ClientsSound' /\ OneLookupPerHost' /\ ChannelsSound'
  BY <1>a DEF IInv, ThreadsSound, AnswersSound, ClientsSound, OneLookupPerHost,
              ChannelsSound, Working, Idle, Positions
<1>7. CASE dns_server[i].addr_list = NULL
  <2>1. dns_cache' = dns_cache
    BY <1>7 DEF ScanResolved
  <2>2. TypeOK' /\ CacheSound'
    BY <1>a, <2>1 DEF IInv, TypeOK, CacheSound
  <2>3. CacheFresh'
    BY <1>a, <1>7, <2>1 DEF IInv, CacheFresh, Cached, Positions
  <2> QED BY <1>6, <2>2, <2>3 DEF IInv
<1>8. CASE dns_server[i].addr_list # NULL
  <2> DEFINE e == [hostname |-> h, addr_list |-> dns_server[i].addr_list]
             n == Len(dns_cache) + 1
  <2>1. dns_cache' = Append(dns_cache, e)
    BY <1>8 DEF ScanResolved, Dns_cache_add, h
  <2>2. /\ e \in [hostname : Hosts, addr_list : Hosts]
        /\ e.hostname = h /\ (h \notin raced => e.addr_list = h)
    BY <1>2, <1>4, <1>8
  <2>3. dns_cache \in Seq([hostname : Hosts, addr_list : Hosts])
    BY DEF IInv, TypeOK
  <2> HIDE DEF e
  <2>4. /\ dns_cache' \in Seq([hostname : Hosts, addr_list : Hosts])
        /\ Len(dns_cache') = n /\ Len(dns_cache) \in Nat
        /\ \A m \in 1 .. Len(dns_cache) : dns_cache'[m] = dns_cache[m]
        /\ dns_cache'[n] = e
    BY <2>1, <2>2, <2>3
  <2>5. 1 .. Len(dns_cache') = (1 .. Len(dns_cache)) \cup {n}
    BY <2>4
  <2> HIDE DEF n
  <2>6. TypeOK'
    BY <1>a, <2>4 DEF IInv, TypeOK
  <2>7. CacheSound'
    BY <1>a, <1>3, <2>2, <2>4, <2>5 DEF IInv, CacheSound, Cached
  <2>8. \A g : Cached(g)' <=> Cached(g) \/ g = h
    BY <2>2, <2>4, <2>5 DEF Cached
  <2>9. CacheFresh'
    BY <1>a, <1>5, <1>8, <2>8 DEF IInv, CacheFresh, Positions, h
  <2> QED BY <1>6, <2>6, <2>7, <2>9 DEF IInv
<1> QED
  BY <1>7, <1>8

\* Answering one client keeps the invariant: the rest of the queue closes up.
LEMMA ServeClientKeeps ==
  ASSUME IInv, ServeClient
  PROVE  IInv'
<1> USE ChannelAssumption, ValueAssumption
<1>a. /\ UNCHANGED <<dns_server, dns_cache, pc, i, pipe, thread, asked, raced>>
      /\ pc = "serve"
  BY DEF ServeClient
<1>1. PICK j \in Positions :
        /\ dns_queue[j].channel = i
        /\ Callback(dns_queue[j].cb_data, dns_server[i].status, dns_server[i].addr_list)
        /\ dns_queue' = Dns_queue_remove(j)
  BY DEF ServeClient, FirstOn, Positions
<1> DEFINE From(l) == IF l < j THEN l ELSE l + 1
           k == dns_queue[j].cb_data
<1>2. Len(dns_queue) \in Nat /\ dns_queue \in Seq(Entry) /\ j \in 1 .. Len(dns_queue)
  BY QueueTypes DEF IInv, TypeOK, Positions
<1>3. /\ dns_queue' \in Seq(Entry)
      /\ Len(dns_queue') = Len(dns_queue) - 1
  <2>1. dns_queue' \in [1 .. Len(dns_queue) - 1 -> Entry]
    BY <1>1, <1>2 DEF Dns_queue_remove
  <2> QED BY <1>2, <2>1
<1>4. Positions' = 1 .. Len(dns_queue) - 1
  BY <1>3 DEF Positions
<1>5. \A l \in Positions' : /\ From(l) \in Positions /\ From(l) # j
                            /\ dns_queue'[l] = dns_queue[From(l)]
  BY <1>1, <1>2, <1>4 DEF Dns_queue_remove, Positions
<1>6. \A l, m \in Positions' : From(l) = From(m) => l = m
  BY <1>2, <1>4
<1>7. \A m \in Positions : m # j => \E l \in Positions' : From(l) = m
  <2> SUFFICES ASSUME NEW m \in Positions, m # j
               PROVE  \E l \in Positions' : From(l) = m
    OBVIOUS
  <2>1. CASE m < j
    BY <1>2, <1>4, <2>1 DEF Positions
  <2>2. CASE m > j
    <3>1. m - 1 \in Positions' /\ From(m - 1) = m
      BY <1>2, <1>4, <2>2 DEF Positions
    <3> QED BY <3>1
  <2> QED BY <1>2, <2>1, <2>2 DEF Positions
<1>8. k \in Clients /\ i \in Channels /\ dns_server[i] \in ServerType
  BY <1>a, QueueTypes DEF IInv, TypeOK, ChannelsSound
<1>9. /\ answer' \in [Clients -> Hosts \cup {NULL, Waiting}]
      /\ answer'[k] # Waiting
      /\ \A m \in Clients : m # k => answer'[m] = answer[m]
  <2>1. dns_server[i].addr_list \in Hosts \cup {NULL}
    BY <1>8 DEF ServerType
  <2> HIDE DEF k
  <2> QED BY <1>1, <1>8, <2>1 DEF IInv, TypeOK, Callback, k
<1> HIDE DEF From, k
<1>10. TypeOK' /\ CacheSound'
  BY <1>a, <1>3, <1>9 DEF IInv, TypeOK, CacheSound
<1>11. ThreadsSound' /\ AnswersSound'
  BY <1>a DEF IInv, ThreadsSound, AnswersSound, Working
<1>12. OneLookupPerHost'
  BY <1>a, <1>5 DEF IInv, OneLookupPerHost, Idle, Positions
<1>13. ChannelsSound'
  <2>1. \A c \in Channels : ~Idle(c) /\ c # i =>
          \E l \in Positions' : dns_queue'[l].channel = c
    BY <1>a, <1>1, <1>5, <1>7 DEF IInv, ChannelsSound
  <2>2. \A l \in Positions' : dns_queue'[l].channel # NoChannel =>
          /\ ~Idle(dns_queue'[l].channel)
          /\ dns_server[dns_queue'[l].channel].hostname = dns_queue'[l].hostname
    BY <1>5 DEF IInv, ChannelsSound
  <2> QED
    BY <1>a, <2>1, <2>2 DEF IInv, ChannelsSound, Idle
<1>14. ClientsSound'
  <2>1. \A l \in Positions' : dns_queue'[l].cb_data # k /\ dns_queue'[l].cb_data \in Clients
    BY <1>5, QueueTypes DEF IInv, ClientsSound, k
  <2>2. \A m \in Clients : answer'[m] = Waiting =>
          \E l \in Positions' : dns_queue'[l].cb_data = m
    BY <1>5, <1>7, <1>9 DEF IInv, ClientsSound, k
  <2>3. \A l, m \in Positions' : dns_queue'[l].cb_data = dns_queue'[m].cb_data => l = m
    BY <1>5, <1>6 DEF IInv, ClientsSound
  <2> QED
    BY <1>a, <1>5, <1>9, <2>1, <2>2, <2>3 DEF IInv, ClientsSound
<1>15. CacheFresh'
  BY <1>a, <1>5 DEF IInv, CacheFresh, Cached
<1> QED
  BY <1>10, <1>11, <1>12, <1>13, <1>14, <1>15 DEF IInv

\* A channel becomes idle once its clients are answered; its thread is done.
LEMMA ServeDoneKeeps ==
  ASSUME IInv, ServeDone
  PROVE  IInv'
<1> USE ChannelAssumption, ValueAssumption
<1> DEFINE s == [dns_server[i] EXCEPT !.state = "IDLE"]
<1>a. /\ UNCHANGED <<dns_queue, dns_cache, pipe, thread, asked, answer, raced>>
      /\ pc = "serve" /\ pc' = "scan" /\ i' = i + 1
      /\ dns_server' = [dns_server EXCEPT ![i] = s]
      /\ \A j \in Positions : dns_queue[j].channel # i
  BY DEF ServeDone, clients, Positions
<1>1. i \in Channels /\ dns_server[i].state = "RESOLVED" /\ dns_server[i] \in ServerType
  BY <1>a DEF IInv, TypeOK, ChannelsSound
<1>2. s \in ServerType /\ s.state = "IDLE" /\ s.hostname = dns_server[i].hostname
  BY <1>1 DEF ServerType
<1> HIDE DEF s
<1>3. /\ dns_server' \in [Channels -> ServerType]
      /\ dns_server'[i].state = "IDLE"
      /\ dns_server'[i].hostname = dns_server[i].hostname
      /\ \A c \in Channels : c # i => dns_server'[c] = dns_server[c]
  BY <1>a, <1>1, <1>2 DEF IInv, TypeOK
<1>4. TypeOK' /\ CacheSound'
  <2>1. i' \in 0 .. D_DNS_MAX_SERVERS
    BY <1>a, <1>1 DEF Channels
  <2> QED BY <1>a, <1>3, <2>1 DEF IInv, TypeOK, CacheSound
<1>5. ThreadsSound'
  BY <1>a, <1>1, <1>3 DEF IInv, TypeOK, ThreadType, ThreadsSound, Working
<1>6. AnswersSound'
  BY <1>a, <1>1, <1>3 DEF IInv, TypeOK, ThreadType, ThreadsSound, AnswersSound, Working
<1>7. ChannelsSound'
  BY <1>a, <1>1, <1>3, QueueTypes DEF IInv, ChannelsSound, Idle, Positions
<1>8. OneLookupPerHost'
  BY <1>a, <1>1, <1>3 DEF IInv, OneLookupPerHost, Idle
<1>9. ClientsSound'
  BY <1>a DEF IInv, ClientsSound, Positions
<1>10. CacheFresh'
  BY <1>a DEF IInv, CacheFresh, Cached, Positions
<1> QED
  BY <1>4, <1>5, <1>6, <1>7, <1>8, <1>9, <1>10 DEF IInv

\* An idle channel that is given a waiting host keeps the invariant: all the
\* requests for the host were waiting, and now all have the channel.
LEMMA AssignIdleKeeps ==
  ASSUME IInv, AssignIdle
  PROVE  IInv'
<1> USE ChannelAssumption, ValueAssumption
<1>a. /\ UNCHANGED <<dns_cache, pc, pipe, asked, answer, raced>>
      /\ pc = "assign" /\ i \in Channels /\ Idle(i) /\ i' = i + 1
  BY DEF AssignIdle, clients
<1>1. PICK j \in Positions : /\ dns_queue[j].channel = NoChannel
                             /\ dns_queue' = OnChannel(dns_queue[j].hostname, i)
                             /\ Dns_server_req(i, dns_queue[j].hostname)
  BY DEF AssignIdle, FirstOn, Positions
<1> DEFINE h == dns_queue[j].hostname
<1>2. h \in Hosts
  BY QueueTypes DEF IInv
<1>3. /\ dns_server' \in [Channels -> ServerType]
      /\ thread' \in [Threads -> ThreadType]
      /\ ThreadsSound' /\ AnswersSound'
      /\ \A d \in Channels : d # i => dns_server'[d] = dns_server[d]
      /\ dns_server'[i].hostname = h /\ dns_server'[i].state = "PROCESSING"
  BY <1>a, <1>1, <1>2, ServerReqKeeps
<1>4. \A l \in Positions : dns_queue[l].hostname = h => dns_queue[l].channel = NoChannel
  BY <1>1 DEF IInv, OneLookupPerHost, Positions
<1> HIDE DEF h
<1>5. /\ dns_queue' \in Seq(Entry)
      /\ Positions' = Positions
      /\ \A l \in Positions : /\ dns_queue'[l].cb_data = dns_queue[l].cb_data
                              /\ dns_queue'[l].hostname = dns_queue[l].hostname
                              /\ dns_queue'[l].channel =
                                   IF dns_queue[l].hostname = h THEN i
                                   ELSE dns_queue[l].channel
  <2>1. /\ dns_queue' = [l \in Positions |->
               IF dns_queue[l].channel = NoChannel /\ dns_queue[l].hostname = h
               THEN [dns_queue[l] EXCEPT !.channel = i] ELSE dns_queue[l]]
        /\ Len(dns_queue) \in Nat
        /\ \A l \in Positions : dns_queue[l] \in Entry
    BY <1>1, QueueTypes DEF OnChannel, Positions, h, IInv
  <2>2. \A e \in Entry : LET f == [e EXCEPT !.channel = i]
                         IN  /\ f \in Entry /\ f.channel = i
                             /\ f.cb_data = e.cb_data /\ f.hostname = e.hostname
    BY <1>a DEF Entry
  <2>3. dns_queue' \in [1 .. Len(dns_queue) -> Entry]
    BY <2>1, <2>2 DEF Positions
  <2>4. dns_queue' \in Seq(Entry) /\ Len(dns_queue') = Len(dns_queue)
    BY <2>1, <2>3
  <2> QED
    BY <1>4, <2>1, <2>2, <2>4 DEF Positions
<1>6. \A l \in Positions : dns_queue[l].channel # i
  BY <1>a, QueueTypes DEF IInv, ChannelsSound, Channels, NoChannel
<1>7. \A c \in Channels : ~Idle(c) => dns_server[c].hostname # h
  BY <1>a, <1>4 DEF IInv, ChannelsSound, Channels, NoChannel
<1>8. TypeOK' /\ CacheSound'
  BY <1>a, <1>3, <1>5 DEF IInv, TypeOK, CacheSound, Channels
<1>9. ChannelsSound'
  <2>1. \A l \in Positions' : dns_queue'[l].channel # NoChannel =>
          /\ dns_server'[dns_queue'[l].channel].state # "IDLE"
          /\ dns_server'[dns_queue'[l].channel].hostname = dns_queue'[l].hostname
    <3> SUFFICES ASSUME NEW l \in Positions, dns_queue'[l].channel # NoChannel
                 PROVE  /\ dns_server'[dns_queue'[l].channel].state # "IDLE"
                        /\ dns_server'[dns_queue'[l].channel].hostname =
                             dns_queue'[l].hostname
      BY <1>5
    <3>1. CASE dns_queue[l].hostname = h
      BY <1>3, <1>5, <3>1
    <3>2. CASE dns_queue[l].hostname # h
      <4> DEFINE c == dns_queue[l].channel
      <4>1. /\ c # NoChannel /\ c \in Channels /\ c # i
            /\ dns_queue'[l].channel = c
            /\ dns_queue'[l].hostname = dns_queue[l].hostname
        BY <1>5, <1>6, <3>2, QueueTypes DEF IInv
      <4>2. dns_server[c].state # "IDLE" /\ dns_server[c].hostname = dns_queue[l].hostname
        BY <4>1 DEF IInv, ChannelsSound, Idle
      <4> HIDE DEF c
      <4> QED BY <1>3, <4>1, <4>2
    <3> QED BY <3>1, <3>2
  <2>2. \A c \in Channels : ~Idle(c)' => \E l \in Positions' : dns_queue'[l].channel = c
    <3> SUFFICES ASSUME NEW c \in Channels, ~Idle(c)'
                 PROVE  \E l \in Positions' : dns_queue'[l].channel = c
      OBVIOUS
    <3>1. CASE c = i
      BY <1>5, <3>1 DEF h
    <3>2. CASE c # i
      <4>1. ~Idle(c)
        BY <1>3, <3>2 DEF Idle
      <4>2. PICK l \in Positions : dns_queue[l].channel = c
        BY <1>a, <4>1 DEF IInv, ChannelsSound
      <4>3. dns_queue[l].hostname # h
        BY <1>4, <4>2 DEF Channels, NoChannel
      <4> QED BY <1>5, <4>2, <4>3
    <3> QED BY <3>1, <3>2
  <2> QED
    BY <1>a, <2>1, <2>2 DEF ChannelsSound, Idle, Positions
<1>10. OneLookupPerHost'
  <2>1. \A c, d \in Channels : ~Idle(c)' /\ ~Idle(d)'
          /\ dns_server'[c].hostname = dns_server'[d].hostname => c = d
    BY <1>a, <1>3, <1>7 DEF IInv, OneLookupPerHost, Idle
  <2>2. \A l, m \in Positions' : dns_queue'[l].hostname = dns_queue'[m].hostname
          => dns_queue'[l].channel = dns_queue'[m].channel
    BY <1>5 DEF IInv, OneLookupPerHost, Positions
  <2> QED BY <2>1, <2>2 DEF OneLookupPerHost, Positions
<1>11. ClientsSound'
  BY <1>a, <1>5 DEF IInv, ClientsSound
<1>12. CacheFresh'
  BY <1>a, <1>5 DEF IInv, CacheFresh, Cached
<1> QED
  BY <1>3, <1>8, <1>9, <1>10, <1>11, <1>12 DEF IInv

----------------------------------------------------------------------------
(* The invariant                                                           *)

\* a_Dns_init establishes the invariant.
LEMMA InitIInv == Init => IInv
<1> USE ChannelAssumption, ValueAssumption
<1> SUFFICES ASSUME Init PROVE IInv
  OBVIOUS
<1>1. TypeOK
  <2>1. NoThread \in ThreadType
    BY DEF NoThread, ThreadType
  <2>2. [state |-> "IDLE", addr_list |-> NULL, hostname |-> NULL, status |-> "ok"]
          \in ServerType
    BY DEF ServerType
  <2>3. dns_server \in [Channels -> ServerType] /\ thread \in [Threads -> ThreadType]
    BY <2>1, <2>2 DEF Init, a_Dns_init
  <2>4. /\ dns_queue \in Seq(Entry)
        /\ dns_cache \in Seq([hostname : Hosts, addr_list : Hosts])
        /\ i \in 0 .. D_DNS_MAX_SERVERS
    BY DEF Init, a_Dns_init
  <2>5. pipe \in BOOLEAN
    BY Zenon DEF Init, a_Dns_init
  <2>6. /\ pc \in {"loop", "scan", "serve", "assign"}
        /\ asked \in [Clients -> Hosts \cup {NULL}]
        /\ answer \in [Clients -> Hosts \cup {NULL, Waiting}]
        /\ raced \subseteq Hosts
    BY DEF Init
  <2> QED
    BY <2>3, <2>4, <2>5, <2>6 DEF TypeOK
<1>2. ThreadsSound /\ AnswersSound
  BY DEF Init, a_Dns_init, ThreadsSound, AnswersSound, Working, NoThread
<1>3. ChannelsSound /\ OneLookupPerHost /\ CacheSound /\ CacheFresh
  BY DEF Init, a_Dns_init, ChannelsSound, OneLookupPerHost, CacheSound, CacheFresh,
         Cached, Idle, Positions
<1>4. ClientsSound
  BY DEF Init, a_Dns_init, ClientsSound, Positions
<1> QED
  BY <1>1, <1>2, <1>3, <1>4 DEF IInv

\* Every step keeps the invariant.
LEMMA NextIInv ==
  ASSUME IInv, [Next]_vars
  PROVE  IInv'
<1> USE ChannelAssumption, ValueAssumption
<1>1. CASE UNCHANGED vars
  <2>1. UNCHANGED <<dns_server, dns_queue, dns_cache, pc, i, pipe, thread, asked, answer,
              raced>>
    BY <1>1 DEF vars, main, clients
  <2>2. TypeOK' /\ CacheSound'
    BY <2>1 DEF IInv, TypeOK, CacheSound
  <2>3. ThreadsSound' /\ AnswersSound'
    BY <2>1 DEF IInv, ThreadsSound, AnswersSound, Working
  <2>4. ChannelsSound' /\ OneLookupPerHost' /\ ClientsSound' /\ CacheFresh'
    BY <2>1 DEF IInv, ChannelsSound, OneLookupPerHost, ClientsSound, CacheFresh, Cached,
                Idle, Positions
  <2> QED BY <2>2, <2>3, <2>4 DEF IInv
<1>2. ASSUME NEW k \in Clients, NEW h \in Hosts, a_Dns_resolve(k, h)
      PROVE  IInv'
  BY <1>2, ResolveCachedKeeps, ResolveQueuedKeeps, ResolveOnChannelKeeps,
     ResolveLaterKeeps DEF a_Dns_resolve
<1>3. ASSUME NEW t \in Threads, Dns_server(t)
      PROVE  IInv'
  BY <1>3, LookupKeeps, StoreAddrListKeeps, StoreStateKeeps, NotifyKeeps DEF Dns_server
<1>4. CASE Dns_timeout_client
  <2>0. pipe \in BOOLEAN /\ i \in 0 .. D_DNS_MAX_SERVERS
    BY DEF IInv, TypeOK
  <2>1. CASE Drain
    <3>1. pipe' \in BOOLEAN
      BY <2>1, Zenon DEF Drain
    <3> QED
      BY <2>0, <2>1, <3>1, MovingOnKeeps DEF Drain, clients
  <2>2. CASE ScanResolved
    BY <2>2, ScanResolvedKeeps
  <2>3. CASE ScanOther
    BY <2>0, <2>3, MovingOnKeeps DEF ScanOther, clients, Channels
  <2>4. CASE ScanDone
    BY <2>0, <2>4, MovingOnKeeps DEF ScanDone, clients
  <2>5. CASE ServeClient
    BY <2>5, ServeClientKeeps
  <2>6. CASE ServeDone
    BY <2>6, ServeDoneKeeps
  <2>7. CASE AssignIdle
    BY <2>7, AssignIdleKeeps
  <2>8. CASE AssignBusy
    BY <2>0, <2>8, MovingOnKeeps DEF AssignBusy, clients, Channels
  <2>9. CASE AssignDone
    BY <2>0, <2>9, MovingOnKeeps DEF AssignDone, clients
  <2> QED
    BY <1>4, <2>1, <2>2, <2>3, <2>4, <2>5, <2>6, <2>7, <2>8, <2>9 DEF Dns_timeout_client
<1> QED
  BY <1>1, <1>2, <1>3, <1>4 DEF Next

\* The inductive invariant holds in every reachable state.
THEOREM Invariant == Spec => []IInv
<1>1. IInv /\ [Next]_vars => IInv'
  BY NextIInv
<1> QED
  BY <1>1, InitIInv, PTL DEF Spec

\* Every variable has its type.
THEOREM TypeCorrect == Spec => []TypeOK
<1>1. IInv => TypeOK
  BY DEF IInv
<1> QED
  BY <1>1, Invariant, PTL

\* No host is ever looked up by two channels (Dns_queue_find, Dns_assign_channels).
THEOREM OneLookupAtATime == Spec => []OneLookupPerHost
<1>1. IInv => OneLookupPerHost
  BY DEF IInv
<1> QED
  BY <1>1, Invariant, PTL

\* The cache never holds a host twice, nor with another host's addresses unless stores at
\* the end of Dns_server were seen out of order on its channel.
THEOREM CacheStaysSound == Spec => []CacheSound
<1>1. IInv => CacheSound
  BY DEF IInv
<1> QED
  BY <1>1, Invariant, PTL

----------------------------------------------------------------------------
(* Wake-ups and idle channels                                              *)

\* No step loses a wake-up: a thread stores its answer before it writes to the
\* pipe, and the main thread empties the pipe before it looks for answers.
LEMMA NextNoLostWakeUp ==
  ASSUME IInv, NoLostWakeUp, [Next]_vars
  PROVE  NoLostWakeUp'
<1> USE ChannelAssumption, ValueAssumption
<1> SUFFICES ASSUME NEW c \in Channels, dns_server'[c].state = "RESOLVED"
             PROVE  \/ pipe'
                    \/ pc' \in {"scan", "serve"} /\ i' <= c
                    \/ \E t \in Threads :
                         thread'[t].pc = "store" /\ thread'[t].channel = c
  BY DEF NoLostWakeUp
<1>0. /\ dns_server \in [Channels -> ServerType] /\ thread \in [Threads -> ThreadType]
      /\ i \in 0 .. D_DNS_MAX_SERVERS
  BY DEF IInv, TypeOK
<1>a. dns_server[c].state = "RESOLVED" =>
        \/ pipe
        \/ pc \in {"scan", "serve"} /\ i <= c
        \/ \E t \in Threads : thread[t].pc = "store" /\ thread[t].channel = c
  BY DEF NoLostWakeUp
<1>1. CASE UNCHANGED vars
  BY <1>1, <1>a DEF vars, main, clients
<1>2. ASSUME NEW k \in Clients, NEW h \in Hosts, a_Dns_resolve(k, h)
      PROVE  \/ pipe' \/ \E t \in Threads : thread'[t].pc = "store" /\ thread'[t].channel = c
  <2>1. pc = "loop" /\ pipe' = pipe
    BY <1>2 DEF a_Dns_resolve, ResolveCached, ResolveQueued, ResolveOnChannel, ResolveLater,
                Request
  <2>2. CASE UNCHANGED <<dns_server, thread>>
    BY <1>a, <2>1, <2>2
  <2>3. CASE \E d \in Channels : Dns_server_req(d, h)
    BY <1>0, <1>a, <2>1, <2>3 DEF Dns_server_req, Spawn, ServerType, ThreadType
  <2> QED
    BY <1>2, <2>2, <2>3 DEF a_Dns_resolve, ResolveCached, ResolveQueued, ResolveOnChannel,
                            ResolveLater
<1>3. ASSUME NEW t \in Threads, Dns_server(t)
      PROVE  \/ pipe'
             \/ pc' \in {"scan", "serve"} /\ i' <= c
             \/ \E u \in Threads : thread'[u].pc = "store" /\ thread'[u].channel = c
  <2>1. UNCHANGED <<pc, i>>
    BY <1>3 DEF Dns_server, Lookup, StoreAddrList, StoreState, Notify, main
  <2>2. CASE Lookup(t)
    BY <1>0, <1>a, <2>1, <2>2, ThreadFacts DEF Lookup, ServerType, ThreadType
  <2>3. CASE StoreAddrList(t)
    BY <1>0, <1>a, <2>1, <2>3, ThreadFacts DEF StoreAddrList, ServerType, ThreadType
  <2>4. CASE StoreState(t)
    BY <1>0, <1>a, <2>1, <2>4, ThreadFacts DEF StoreState, ServerType, ThreadType
  <2>5. CASE Notify(t)
    BY <2>5 DEF Notify
  <2> QED BY <1>3, <2>2, <2>3, <2>4, <2>5 DEF Dns_server
<1>4. CASE Dns_timeout_client
  <2>1. CASE Drain
    BY <2>1 DEF Drain, Channels
  <2>2. CASE ScanResolved \/ ScanOther \/ ScanDone
    BY <1>0, <1>a, <2>2 DEF ScanResolved, ScanOther, ScanDone, Channels
  <2>3. CASE ServeClient \/ ServeDone
    <3>1. i \in Channels /\ (ServeDone => dns_server'[i].state = "IDLE")
      BY <1>0, <2>3 DEF ServeClient, ServeDone, ServerType, IInv, ChannelsSound
    <3>2. CASE ServeClient
      BY <1>a, <3>2 DEF ServeClient
    <3>3. CASE ServeDone
      <4>1. c # i
        BY <3>1, <3>3
      <4>2. dns_server'[c] = dns_server[c]
        BY <1>0, <3>3, <4>1 DEF ServeDone
      <4> QED BY <1>a, <3>1, <3>3, <4>1, <4>2 DEF ServeDone, Channels
    <3> QED BY <2>3, <3>2, <3>3
  <2>4. CASE AssignIdle
    BY <1>0, <1>a, <2>4 DEF AssignIdle, Dns_server_req, Spawn, ServerType, ThreadType
  <2>5. CASE AssignBusy \/ AssignDone
    BY <1>a, <2>5 DEF AssignBusy, AssignDone
  <2> QED
    BY <1>4, <2>1, <2>2, <2>3, <2>4, <2>5 DEF Dns_timeout_client
<1> QED
  BY <1>1, <1>2, <1>3, <1>4 DEF Next

\* Every answer in a channel is going to be noticed by Dns_timeout_client.
THEOREM NoWakeUpIsLost == Spec => []NoLostWakeUp
<1>1. Init => NoLostWakeUp
  BY DEF Init, a_Dns_init, NoLostWakeUp
<1>2. IInv /\ NoLostWakeUp /\ [Next]_vars => NoLostWakeUp'
  BY NextNoLostWakeUp
<1> QED
  BY <1>1, <1>2, Invariant, PTL DEF Spec

\* No step leaves a request waiting beside an idle channel when the main thread
\* returns to its event loop.
LEMMA NextNoIdleChannelWasted ==
  ASSUME IInv, AssignSound, NoIdleChannelWasted, [Next]_vars
  PROVE  AssignSound' /\ NoIdleChannelWasted'
<1> USE ChannelAssumption, ValueAssumption
<1> DEFINE SomeoneWaits == \E j \in Positions : dns_queue[j].channel = NoChannel
<1>0. /\ dns_server \in [Channels -> ServerType] /\ thread \in [Threads -> ThreadType]
      /\ i \in 0 .. D_DNS_MAX_SERVERS
  BY DEF IInv, TypeOK
<1>a. NoIdleChannelWasted <=> (pc = "loop" /\ SomeoneWaits => \A c \in Channels : ~Idle(c))
  BY DEF NoIdleChannelWasted, Positions
<1>b. NoIdleChannelWasted' <=>
        (pc' = "loop" /\ SomeoneWaits' => \A c \in Channels : ~Idle(c)')
  BY DEF NoIdleChannelWasted, Positions
<1>1. CASE UNCHANGED vars
  BY <1>1 DEF vars, main, clients, AssignSound, NoIdleChannelWasted, Idle
<1>2. ASSUME NEW k \in Clients, NEW h \in Hosts, a_Dns_resolve(k, h)
      PROVE  AssignSound' /\ NoIdleChannelWasted'
  <2>1. pc = "loop" /\ pc' = "loop"
    BY <1>2 DEF a_Dns_resolve, ResolveCached, ResolveQueued, ResolveOnChannel, ResolveLater,
                Request
  <2>2. CASE ResolveCached(k, h)
    BY <2>1, <2>2 DEF ResolveCached, AssignSound, NoIdleChannelWasted, Idle
  <2>3. CASE ResolveLater(k, h)
    BY <1>b, <2>1, <2>3 DEF ResolveLater, AssignSound, Idle
  <2>4. CASE ResolveQueued(k, h)
    <3>1. PICK j \in Positions : dns_queue' = Dns_queue_add(dns_queue[j].channel, h, k)
      BY <2>4 DEF ResolveQueued, Positions
    <3>2. dns_queue[j].channel \in Channels \cup {NoChannel}
      BY QueueTypes DEF IInv
    <3>3. /\ Len(dns_queue') = Len(dns_queue) + 1
          /\ \A l \in Positions : dns_queue'[l] = dns_queue[l]
          /\ dns_queue'[Len(dns_queue) + 1].channel = dns_queue[j].channel
      BY <2>4, <3>1, <3>2, QueueAddFacts DEF ResolveQueued
    <3>4. Positions' = Positions \cup {Len(dns_queue) + 1}
      BY <3>3, QueueTypes DEF Positions, IInv
    <3>5. SomeoneWaits' => SomeoneWaits
      BY <3>3, <3>4
    <3> QED
      BY <1>a, <1>b, <2>1, <2>4, <3>5 DEF ResolveQueued, AssignSound, Idle
  <2>5. CASE ResolveOnChannel(k, h)
    <3>1. PICK d \in Channels : /\ dns_queue' = Dns_queue_add(d, h, k)
                                /\ Dns_server_req(d, h) /\ Idle(d)
      BY <2>5 DEF ResolveOnChannel
    <3>3. /\ Len(dns_queue') = Len(dns_queue) + 1
          /\ \A l \in Positions : dns_queue'[l] = dns_queue[l]
          /\ dns_queue'[Len(dns_queue) + 1].channel = d
      BY <2>5, <3>1, QueueAddFacts DEF ResolveOnChannel
    <3>4. Positions' = Positions \cup {Len(dns_queue) + 1}
      BY <3>3, QueueTypes DEF Positions, IInv
    <3>5. SomeoneWaits' => SomeoneWaits
      BY <3>3, <3>4 DEF Channels, NoChannel
    <3> QED
      BY <1>a, <1>b, <2>1, <3>1, <3>5 DEF AssignSound, Idle
  <2> QED
    BY <1>2, <2>2, <2>3, <2>4, <2>5 DEF a_Dns_resolve
<1>3. ASSUME NEW t \in Threads, Dns_server(t)
      PROVE  AssignSound' /\ NoIdleChannelWasted'
  <2>1. UNCHANGED <<pc, i, dns_queue>>
    BY <1>3 DEF Dns_server, Lookup, StoreAddrList, StoreState, Notify, main
  <2>2. \A c \in Channels : ~Idle(c) => ~Idle(c)'
    <3>1. CASE Lookup(t)
      BY <1>0, <3>1, ThreadFacts DEF Lookup, ServerType, Idle
    <3>2. CASE StoreAddrList(t) \/ StoreState(t)
      BY <1>0, <3>2, ThreadFacts DEF StoreAddrList, StoreState, ServerType, Idle
    <3>3. CASE Notify(t)
      BY <3>3 DEF Notify, Idle
    <3> QED BY <1>3, <3>1, <3>2, <3>3 DEF Dns_server
  <2>3. \A c \in 0 .. i - 1 : c \in Channels
    BY <1>0 DEF Channels
  <2> QED
    BY <1>a, <1>b, <2>1, <2>2, <2>3 DEF AssignSound, Positions
<1>4. CASE Dns_timeout_client
  <2>1. CASE Drain \/ ScanResolved \/ ScanOther
    BY <2>1 DEF Drain, ScanResolved, ScanOther, AssignSound, NoIdleChannelWasted
  <2>2. CASE ScanDone \/ ServeClient \/ ServeDone
    BY <2>2 DEF ScanDone, ServeClient, ServeDone, AssignSound, NoIdleChannelWasted
  <2>3. CASE AssignIdle
    <3>1. PICK h : Dns_server_req(i, h)
      BY <2>3 DEF AssignIdle
    <3>2. pc' = "assign" /\ i' = i + 1 /\ i \in Channels
      BY <2>3 DEF AssignIdle
    <3>3. \A c \in 0 .. i : ~Idle(c)'
      BY <1>0, <2>3, <3>1, <3>2 DEF Dns_server_req, AssignIdle, AssignSound, Idle, Channels,
                                    ServerType
    <3> QED
      BY <1>0, <3>2, <3>3 DEF AssignSound, NoIdleChannelWasted, Channels
  <2>4. CASE AssignBusy
    BY <1>0, <2>4 DEF AssignBusy, AssignSound, NoIdleChannelWasted, Idle, Channels
  <2>5. CASE AssignDone
    <3>1. i \notin Channels => \A c \in Channels : ~Idle(c)
      BY <1>0, <2>5 DEF AssignDone, AssignSound, Channels
    <3> QED
      BY <1>b, <2>5, <3>1 DEF AssignDone, AssignSound, Idle, Positions
  <2> QED
    BY <1>4, <2>1, <2>2, <2>3, <2>4, <2>5 DEF Dns_timeout_client
<1> QED
  BY <1>1, <1>2, <1>3, <1>4 DEF Next

\* In its event loop the main thread has given every idle channel work.
THEOREM ChannelsAreUsed == Spec => []NoIdleChannelWasted
<1>1. Init => AssignSound /\ NoIdleChannelWasted
  BY DEF Init, a_Dns_init, AssignSound, NoIdleChannelWasted
<1>2. IInv /\ AssignSound /\ NoIdleChannelWasted /\ [Next]_vars
        => AssignSound' /\ NoIdleChannelWasted'
  BY NextNoIdleChannelWasted
<1> QED
  BY <1>1, <1>2, Invariant, PTL DEF Spec

----------------------------------------------------------------------------
(* The resolver keeps its promise                                          *)

\* What DnsService calls known.
Known == {h \in Hosts : Cached(h)}

\* Every step is a step of DnsService or leaves its variables alone.
LEMMA NextIsService ==
  ASSUME IInv, [Next]_vars
  PROVE  [Service!Next]_(Service!vars)
<1> USE ChannelAssumption, ValueAssumption
<1> DEFINE Stutter == UNCHANGED <<asked, answer, raced>> /\ Known' = Known
<1>0. Stutter => [Service!Next]_(Service!vars)
  BY DEF Service!vars, Known
<1>1. CASE UNCHANGED vars
  BY <1>0, <1>1 DEF vars, main, clients, Known, Cached
<1>2. ASSUME NEW k \in Clients, NEW h \in Hosts, a_Dns_resolve(k, h)
      PROVE  Service!Next
  <2>1. /\ Known' = Known /\ answer[k] # Waiting /\ raced' = raced
        /\ asked' = [asked EXCEPT ![k] = h]
    BY <1>2 DEF a_Dns_resolve, ResolveCached, ResolveQueued, ResolveOnChannel, ResolveLater,
                Request, Known, Cached
  <2>2. CASE ResolveCached(k, h)
    <3>1. PICK n \in 1 .. Len(dns_cache) : /\ dns_cache[n].hostname = h
                                           /\ Callback(k, "ok", dns_cache[n].addr_list)
      BY <2>2 DEF ResolveCached
    <3> DEFINE a == dns_cache[n].addr_list
    <3>2. a \in Service!Addresses(h) /\ h \in Known
      <4>1. a \in Hosts
        BY <3>1, CacheTypes DEF IInv
      <4>2. h \notin raced => a = h
        BY <3>1 DEF IInv, CacheSound
      <4> QED BY <3>1, <4>1, <4>2 DEF Cached, Known, Service!Addresses
    <3>3. answer' = [answer EXCEPT ![k] = a]
      BY <3>1 DEF Callback
    <3> HIDE DEF a
    <3> QED
      BY <2>1, <3>2, <3>3 DEF Service!Next, Service!Ask, Known
  <2>3. CASE ~ResolveCached(k, h)
    <3>1. answer' = [answer EXCEPT ![k] = Waiting] /\ h \notin Known
      BY <1>2, <2>3 DEF a_Dns_resolve, ResolveQueued, ResolveOnChannel, ResolveLater, NotYet,
                        Known
    <3> QED
      BY <2>1, <3>1 DEF Service!Next, Service!Ask, Known
  <2> QED BY <2>2, <2>3
<1>3. ASSUME NEW t \in Threads, Dns_server(t)
      PROVE  Stutter \/ Service!Next
  <2>1. UNCHANGED <<asked, answer>> /\ Known' = Known
    BY <1>3 DEF Dns_server, Lookup, StoreAddrList, StoreState, Notify, main, clients, Known,
                Cached
  <2>2. CASE UNCHANGED raced
    BY <2>1, <2>2
  <2>3. CASE ~UNCHANGED raced
    <3>1. PICK h : h \in Hosts /\ raced' = raced \cup {h}
      <4>1. thread[t].pc # "none" => dns_server[thread[t].channel].hostname \in Hosts
        BY ThreadFacts
      <4>2. thread[t].todo # {} => thread[t].pc # "none"
        BY ThreadFacts
      <4> QED
        BY <1>3, <2>3, <4>1, <4>2 DEF Dns_server, Lookup, StoreAddrList, StoreState, Notify
    <3> QED
      BY <2>1, <3>1 DEF Service!Next, Service!Spoil, Known
  <2> QED BY <2>2, <2>3
<1>4. CASE Dns_timeout_client
  <2>1. CASE ScanResolved
    <3> DEFINE h == dns_server[i].hostname
    <3>1. UNCHANGED <<asked, answer, raced>> /\ pc = "scan" /\ i \in Channels
      BY <2>1 DEF ScanResolved, clients
    <3>2. CASE dns_server[i].addr_list = NULL
      BY <1>0, <2>1, <3>1, <3>2 DEF ScanResolved, Known, Cached
    <3>3. CASE dns_server[i].addr_list # NULL
      <4>1. PICK j \in Positions : dns_queue[j].channel = i
        BY <2>1, <3>1 DEF IInv, ChannelsSound, Idle, ScanResolved
      <4>2. dns_queue[j].hostname = h /\ h \in Hosts /\ dns_queue[j].cb_data \in Clients
        BY <3>1, <4>1, QueueTypes DEF IInv, ChannelsSound, Channels, NoChannel
      <4>3. /\ answer[dns_queue[j].cb_data] = Waiting
            /\ asked[dns_queue[j].cb_data] = h
        BY <4>2 DEF IInv, ClientsSound
      <4>4. h \notin Known
        BY <3>1, <4>2 DEF IInv, CacheFresh, Known
      <4> DEFINE e == [hostname |-> h, addr_list |-> dns_server[i].addr_list]
      <4>5. dns_cache' = Append(dns_cache, e) /\ e.hostname = h
        BY <2>1, <3>3 DEF ScanResolved, Dns_cache_add
      <4> HIDE DEF e, h
      <4>6. \A g : Cached(g)' <=> Cached(g) \/ g = h
        <5>1. dns_cache \in Seq([hostname : Hosts, addr_list : Hosts])
          BY DEF IInv, TypeOK
        <5> DEFINE n == Len(dns_cache) + 1
        <5>2. /\ Len(dns_cache') = n /\ Len(dns_cache) \in Nat
              /\ \A m \in 1 .. Len(dns_cache) : dns_cache'[m] = dns_cache[m]
              /\ dns_cache'[n] = e
          BY <4>5, <5>1
        <5>3. 1 .. Len(dns_cache') = (1 .. Len(dns_cache)) \cup {n}
          BY <5>2
        <5> HIDE DEF n
        <5> QED BY <4>5, <5>2, <5>3 DEF Cached
      <4>7. Known' = Known \cup {h}
        BY <4>2, <4>6 DEF Known
      <4> QED
        BY <3>1, <4>2, <4>3, <4>4, <4>7 DEF Service!Next, Service!Learn, Known
    <3> QED BY <3>2, <3>3
  <2>2. CASE ServeClient
    <3>1. PICK j \in Positions :
            /\ dns_queue[j].channel = i
            /\ Callback(dns_queue[j].cb_data, dns_server[i].status, dns_server[i].addr_list)
      BY <2>2 DEF ServeClient, FirstOn, Positions
    <3> DEFINE k == dns_queue[j].cb_data
    <3>2. /\ k \in Clients /\ answer[k] = Waiting /\ asked[k] = dns_queue[j].hostname
          /\ asked[k] \in Hosts
      BY QueueTypes DEF IInv, ClientsSound
    <3>3. UNCHANGED <<asked, raced>> /\ Known' = Known /\ pc = "serve"
      BY <2>2 DEF ServeClient, Known, Cached
    <3>4. /\ i \in Channels /\ dns_server[i].hostname = asked[k]
          /\ asked[k] \notin raced
               => Fits(dns_server[i].addr_list, dns_server[i].status, asked[k])
          /\ dns_server[i].addr_list \in Hosts \cup {NULL}
      <4>1. i \in Channels /\ dns_server[i].hostname = asked[k] /\ dns_server[i].state = "RESOLVED"
        BY <3>1, <3>2, <3>3 DEF IInv, ChannelsSound, Channels, NoChannel
      <4>2. dns_server[i] \in ServerType
        BY <4>1 DEF IInv, TypeOK
      <4>3. dns_server[i].addr_list \in Hosts \cup {NULL}
        BY <4>2 DEF ServerType
      <4> QED BY <4>1, <4>3 DEF IInv, AnswersSound
    <3> DEFINE a == IF dns_server[i].status = "ok" THEN dns_server[i].addr_list ELSE NULL
    <3>a. answer' = [answer EXCEPT ![k] = a] /\ a \in Hosts \cup {NULL}
      BY <3>1, <3>4 DEF Callback
    <3>5. CASE a = NULL
      <4>1. asked[k] \notin Known \/ asked[k] \in raced
        BY <3>2, <3>4, <3>5 DEF IInv, CacheFresh, Known, Fits
      <4> QED
        BY <3>2, <3>3, <3>5, <3>a, <4>1 DEF Service!Next, Service!Refuse, Known
    <3>6. CASE a # NULL
      <4>1. asked[k] \in Known \cup raced
        BY <3>2, <3>3, <3>4, <3>6 DEF IInv, CacheFresh, Known
      <4>2. a \in Service!Addresses(asked[k])
        BY <3>4, <3>6, <3>a DEF Fits, Service!Addresses
      <4> HIDE DEF a
      <4> QED
        BY <3>2, <3>3, <3>a, <4>1, <4>2 DEF Service!Next, Service!Tell, Known
    <3> QED BY <3>5, <3>6
  <2>3. CASE ~ScanResolved /\ ~ServeClient
    <3>1. Stutter
      BY <1>4, <2>3 DEF Dns_timeout_client, Drain, ScanOther, ScanDone, ServeDone, AssignIdle,
                        AssignBusy, AssignDone, clients, Known, Cached
    <3> QED BY <1>0, <3>1
  <2> QED BY <2>1, <2>2, <2>3
<1> QED
  BY <1>0, <1>1, <1>2, <1>3, <1>4 DEF Next

\* The resolver implements its abstract specification: each request is answered
\* once, for its own host, and never with a failure once the host is known, unless the
\* stores of Dns_server were seen out of order on the host's channel; nothing is spoilt for
\* the other hosts then.
THEOREM ResolverKeepsPromise == Spec => ImplementsService
<1>1. Init => Service!Init
  BY DEF Init, a_Dns_init, Service!Init, Cached
<1>2. IInv /\ [Next]_vars => [Service!Next]_(Service!vars)
  BY NextIsService
<1> QED
  BY <1>1, <1>2, Invariant, PTL DEF Spec, ImplementsService, Service!Spec

============================================================================
