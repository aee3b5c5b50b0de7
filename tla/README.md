# A TLA+ verification of fltkcad

fltkcad collects FLTK experiments for a CAD user interface: a terminal widget
(`flterm/`), a layout test (`src/`), a node-graph widget (`Fl_OpDesk/`), a Lua
console (`fltkconsole/`), the Dillo browser (`dillo/`), and the copy of FLTK 1.3
they are built with (`fltk/`). Paths below are relative to the repository.

## Inventory

| Part | State | Operations | Interaction | Hard behaviour |
|---|---|---|---|---|
| GTerm screen (`flterm/gterm.*`, `utils.cpp`, `actions.cpp`) | text store, `linenumbers`, dirty ranges, pending scroll, margins, cursor, saved cursor, modes, tab stops | one method per control character and escape sequence; `Update`, `ExposeArea`, `ResizeTerminal`, `Reset` | called by the read callback and the timer; calls `MoveChars`, `DrawText`, `ClearChars`, `DrawCursor` of the widget | scrolls are carried out on the display later than on the text; margins change meanwhile; input is cut anywhere |
| GTerm parser (`states.cpp`, `vt52_states.cpp`, the `param` methods) | current state, parameters, `q_mode` | one table lookup per byte | calls the screen's methods | a sequence spread over several reads; control characters inside sequences; vt52 mode |
| Fl_Term widget (`Fl_Term.cxx`) | ring of lines, `topvis`, cursor | the drawing functions of GTerm, `draw`, `handle` | owns the GTerm | the ring must look like a screen that is copied and painted |
| Terminal session (`term_sh.cxx`, `pseudo.cpp`) | pseudo terminal, child, window | `spawn`, `mfd_cb`, `quit_cb`, `restore_ttyp` | FLTK's event loop; the child process | failing calls; a read that ends the session; the end of the child |
| Layout test (`src/`) | boxes of `Fl_BLayout`, `Fl_BGroup`, `Fl_GTree` | insert, resize, handle | FLTK groups | tiles must cover the window after any sequence of splits and resizes |
| Fl_OpDesk | boxes, buttons, connections, the connection being dragged | connect, disconnect, delete a box, drag | FLTK events | deleting a box while it is connected or dragged |
| Dillo DNS (`dillo/src/dns.c`) | request queue, channels, address cache | `a_Dns_resolve`, server threads, `Dns_timeout_client` | threads and the main loop through shared channels and a pipe | threads write what the main loop reads; wake-ups; more hosts than channels |
| Dillo HTTP, IO, CCC, cache, capi, nav, dicache | sockets, chains, cache entries and clients, navigation stack | open, send, receive, abort | callbacks in both directions | aborts racing answers, limits on connections |
| Dillo dpid and dpi | services, sockets, tokens | start, stop, register, terminate | processes and sockets | processes that die, restarts |
| Dillo dw, html, css, lout | page layout and containers | - | - | pure layout |
| FLTK core (`fltk/src`) | windows, timeouts, awake ring, deferred deletions, text buffer | - | callbacks, threads | reentrancy |
| FLTK tools, image libraries, documentation | - | - | - | third party |

What makes each part correct:

* the screen: the display shows the text whenever the host is quiet; a row is
  never lost or shared; no index leaves the store, but by a margin; what is shown
  does not depend on how the host's output is cut into reads;
* the widget: it behaves like the display GTerm's drawing functions describe;
* the parser: the parameters an operation uses are those of its own sequence;
* the session: it ends when the child ends and not before;
* the layout: the tiles partition the window;
* the graph: the three records of a connection agree, join existing buttons, and
  an input has one connection;
* HTTP: the count of connections per host is right, nobody waits for a free slot
  or for nothing, and what is opened is closed, once;
* the cache: nothing points at a removed page, clients get all the data and then
  the end, and somebody will serve whoever waits;
* FLTK's threads: one thread has the lock, and every registered handler is called
  once, in order, without anybody waiting for ever;
* DNS: every request is answered exactly once, with the answer for its host.

## Plan

Done:

1. `GTerm`, `GTermDisplay`, `Fl_Term`, with the first proofs.
2. `DnsService`, `Dns`: threads, channels, queue and cache of Dillo's resolver,
   with the proof that the resolver implements its service.
3. `GTermParser` (bytes to operations), `VT100Host` (does it decode what was
   meant?), `Terminal` (parser and screen composed, which implements the screen)
   and `TermSession` (pseudo terminal).
4. `Http` (connections, chains, descriptors, the queue per host) and `Cache`
   (pages, clients, the delayed queue, redirections).
5. `OpDesk`, with FLTK's deferred deletion.
6. `FlThreads`: FLTK's lock and awake ring.

7. Proofs about `FlThreads`, `TermSession`, `Http` and `Cache`, and of the bookkeeping between
   text and display (`DisplayTracks`).
8. Proofs about `OpDesk` and `VT100Host`, of `WrappedRunsAreOneByOne`, and of the
   refinements: `Terminal` implements `GTermDisplay`, and so does `Fl_Term` while the
   region is the screen.
9. A proof of `FedFromCache` of `Cache`.

Next, in this order:

10. FLTK's event loop: timeouts, checks and descriptors that callbacks add and
   remove while the loop walks over them.
11. Dillo's authentication and image cache on top of `Cache`; `BLayout`.

## Modules

* `GTerm` - the GTerm object as one record `gt`; every method is an operator
  from the state before to the state after, named as in the source, so that a
  method that calls others is their composition. `HostOutput` has one disjunct
  per operation the host can ask for. A cell is a pair of character and packed
  colour; characters and colours are small sets.
* `GTermDisplay` - a GTerm and a display that does literally what the drawing
  functions say: copy the rectangle, replace the cells. Actions: an operation of
  the host inside `ProcessInput`, a change of margins that first updates, the
  end of `ProcessInput`, `Update` (the timer), `ExposeArea`, `Resize`.
* `Fl_Term` - the same GTerm with the widget's ring of lines in place of the
  screen. `Shown` is what `draw` shows; `Display!Spec` is `GTermDisplay` with the
  screen mapped to it. `WholeScreen` says when the two agree: one size, and margins, if
  the host sets any, at the edges.
* `MCGTerm`, `MCFl_Term` - instances for TLC.
* `MCGTermLive` - the instance for liveness, a two by two screen of fixed size.
* `GTermProofs` - the proofs about `GTerm` (types, margins, rows), about
  `GTermDisplay` (what is shown), about `Terminal` (bytes drive the screen) and about
  `Fl_Term` (the ring is a screen).
* `GTermParser` - the state tables (a set of entries per state), the loop over
  bytes (`Turn`), the parameters and the switch between command sets. A byte is
  its number. `VT100Host` encodes commands with small numbers, sends them byte by
  byte and compares what the parser carries out.
* `Terminal` - `GTermDisplay` driven by `GTermParser`: a read is a sequence of
  bytes, and one step of the loop is one action. A run of printing characters is
  taken whole, as `normal_input` does; a change of margins first updates.
  `ScreenSpec` is `GTermDisplay` itself, with `in_input` mapped to the fact that
  an operation was carried out in this read. `Covered` says what this asks of the
  constants: that the screen's name every operation (`AllOps`), character, colour and
  rendition that bytes can select.
* `TermSession` - the application around it: child, pty with two finite buffers,
  read callback, answers, keys, the three ways to end: the session is `over` when its
  shell is, and `closed` when the user ends it. What is written is counted in pieces,
  and a query is a piece that is answered.
* `Http` - one record `w`. The chains are the sets `send` and `recv` of requests
  that have the branch; `rio` is the IO object of the answer branch; `open` says
  whose socket a descriptor number is, so that a number that is reused can be
  told from its former owner. A callback of the main loop is one action, and every
  call it makes is an operator from state to state, which is how aborts that
  free slots, connect others and fail again fit in one step. `ConnectNext` is one turn
  of the loop of `Http_connect_queued_sockets`.
* `Cache` - entries with an identity, so that a removed and remade page differs
  from the old one; `ClientQueue`, `DelayedQueue` and the timeout (`idle`).
  `Http`'s connections are the set `conns`. The walk over the clients goes by index,
  as in the source (`Turn`), because a redirection inside it changes the queue;
  `NextTurn` and `DelayedNext` are one turn of the loops of `Cache_process_queue` and of
  the timeout, `Outcome` is what follows the former, and `Without` is a queue from which
  members are taken out. A client is a request of a window and keeps its key when it is
  redirected; a client
  without a callback is one with `BufSize` 0, as data or the end follow at once. A
  window that already shows the target of a redirection would not load it again;
  here it does.
* `FlThreads` - the lock made of a plain mutex, an owner and a counter, the ring
  of handlers and the pipe. A step is one access to something shared. glibc
  defines `PTHREAD_MUTEX_RECURSIVE` as an enumerator and not as a macro, so the
  `#ifdef` selects this lock.
* `OpDesk` - the desk, its boxes with one input and one output each, and three
  records per connection. `ok` are the buttons whose `Connecting()` agrees. `moves`
  and `left` stand for a vector that grows while a pointer into it is kept, and
  for what is then read through the pointer. `doomed` are the deleted boxes that
  `Fl::do_widget_deletion` has still to free: it runs when a turn of the loop begins,
  and timeouts and any number of queued events follow in the same turn, so that any
  other action may come between. `redone` is a ghost variable that notes the pairs
  whose output has called `ConnectTo` again.
* `MCVT100Host`, `MCTerminal`, `MCTermSession`, `MCHttp`, `MCCache`, `MCFlThreads`,
  `MCOpDesk` - their instances.
* `DnsService` - what Dillo's resolver promises, with no threads, channels or
  queue: clients ask, addresses become known, clients are told or refused.
* `Dns` - the resolver. `dns_server`, `dns_queue` and `dns_cache` are the arrays
  of the source; `thread[t]` is a lookup thread with the stores it has still to
  do; `pc` and `i` say where the main thread is in `Dns_timeout_client`. A
  request (`a_Dns_resolve`) is one step, as it reads nothing that a thread may
  change meanwhile: only the main thread makes a channel idle or busy. The scan
  takes a step per channel and per callback, and the thread a step for the
  lookup, for each of its two stores and for the byte in the pipe.
* `MCDns` - instances of `Dns` for TLC.
* `DnsProofs`, `FlThreadsProofs`, `TermSessionProofs`, `HttpProofs`, `CacheProofs`,
  `OpDeskProofs`, `VT100HostProofs` - the proofs about the modules they are named after.

`doing_update` guards against the recursion of updates through exposures; no
display here causes one, so it is always 0 between actions. `reset` also returns
the parser to its first state and `set_mode`/`clear_mode` know a vt52 mode and a
request for another width (which the widget ignores): those belong to the parser.

In `Dns` a host stands for its names, which are compared without case, and for
the list of its addresses. The main thread sees the two stores at the end of a lookup
thread in either order, and the later one at any time, even when the channel is
already looking up another host: C promises nothing else, since no lock or barrier
separates them. `raced` is a ghost variable that notes the hosts whose channel such a
store reached. `CreateFails` says whether `pthread_create` may
fail. A callback does not itself ask the resolver: `Http_dns_cb`, the only one
there is, connects or aborts. `Threads` bounds the threads alive at a time; a
thread may outlive the service of its channel, so there can be more of them than
channels.

What is not the application's own is modelled by how it is used: the kernel's
pty, pipe and descriptors (the lowest free number is given out), mutexes, and the
host behind the terminal. Clients of Dillo's cache and the answers of servers are
reduced to asking, stopping, headers, pieces of data and ends.

## Runs

| Run | Properties | Shows |
|---|---|---|
| `gterm_screen` | `TypeOK`, `IndicesInStore`, `NoUninitShown`, `DisplayTracks`, `WrappedRunsAreOneByOne`, `ShownAfterInput` | all operations, with resizes, updates and exposes between them |
| `gterm_catch_up` | `CatchesUp` | liveness of deferred updates under a host that never stops, every state of a two by two screen |
| `fl_term_ring` | `ImplementsDisplay` | the ring is a screen while the region is the whole screen |
| `terminal_bytes` | `ImplementsScreen`, `LinesDistinct` | bytes in arbitrarily cut reads drive the screen as `GTermDisplay` says |
| `vt100_commands` | `DecodesWhatIsMeant`, `InStep` | commands of both command sets, one after the other, with cursor controls inside |
| `term_session` | `OutputIsProcessed`, `EndsWithShell`, `TypeOK` | no output lost at the end or in a deadlock over the two buffers, and an end |
| `dns_safe` | `OneLookupPerHost`, `CacheSound`, `NoLostWakeUp`, `NoIdleChannelWasted`, `TypeOK`, `ImplementsService` | the resolver with threads that finish at any moment, and stores seen in any order |
| `dns_live` | `EveryRequestAnswered` | no request starves, with one channel for three hosts |
| `http` | `BranchesTogether`, `SlotsCounted`, `NoLeak`, `OwnDescriptor`, `NobodyForgotten` | connections opened, joined, reloaded, stopped, refused and failing in every order |
| `cache` | `NoDangling`, `RefsBalanced`, `FedFromCache`, `ClosedHaveAll` | clients asking, reloading, being redirected and stopping while data, ends and the timeout come in every order |
| `fl_threads` | `OneHolder`, `CalledInOrder`, `HandlersCalled`, `CallsReturn` | the lock and the awake ring under every interleaving |
| `opdesk` | `BooksAgree`, `OneSource`, `NoDangling`, `CopiesAlike` | connecting from either side and again, refusing, copying, pasting and deleting, also in the middle of a drag whose box is deleted and not yet freed |

The type invariants of the parser, HTTP, the cache, FLTK's threads and the desk are
conjuncts of `InStep`, `BranchesTogether`, `NoDangling`, `OneHolder` and `BooksAgree`.

Bounds. The contents of the screen multiply quickly, so `gterm_screen` follows the
first `MaxHost` operations of the host, `terminal_bytes` its first `MaxReads` reads,
with the other actions anywhere among them and unbounded. Screens have two or
three rows and columns inside a store that is one larger: a region can be the
whole screen, a part of it or one line; a scroll can be smaller than, equal to and
larger than the region; the cursor can stand beyond the last column. `MaxPending`
bounds how far the display falls behind. Parameters include 0 (absent), a value
inside the screen, one at its edge and, in `gterm_screen`, one beyond the store, so that
a margin leads the cursor out of it. `gterm_catch_up` has no bound on the host.
The pieces of `terminal_bytes` cut sequences at every place that matters to the
parser: after the escape, inside the parameters, before the final byte.

`vt100_commands` is unbounded in the commands sent. Its numbers have no, one and
two digits' worth of state to leave behind, and its array of parameters is larger
than what a command sends by one. `term_session` lets the shell write more than
both a buffer and a read hold, and more than the buffers hold together.

The resolver has finitely many states for finitely many clients, each with one
request at a time, so its runs are unbounded in length. Two channels and three
hosts let one lookup finish while another is being served and a third host is
parked; three clients can share a host or be on different ones; with two
channels or fewer, two threads let the thread of a served channel linger beside
the next. Stores are seen out of order among two clients and two hosts, for one channel
(`Few` in `MCDns`), enough for a late list to reach the next host on the channel; with
three of each every store is seen in its turn, as in `dns_live`, which has one channel, where starvation
would be.

`http` has a limit of one connection per host, three requests to one host of which
two share a URL, so that one waits and another joins or reloads, one request to
another host, and two descriptor numbers, so that numbers are reused. `cache` has
two pages and three clients, so that two share a page while the third has its own,
and two pieces of data, so that a client can come between them; a redirection is
followed once (`RedirectLimit` is 2, 5 in the code), which lets it meet a second one, a
loop, and a page that others wait for or have. Requests and clients ask once.
`fl_threads` has two threads beside the main one, a ring of three slots, of
which two can be used, and a pipe for one message; one thread calls inside the
lock, and there are calls enough to overrun the ring. `opdesk` has two connections
apart from those of copies and two instances (`few` in `MCOpDesk`): one with three boxes
and one color, where buttons connect from either side, again, and in the middle of a drag
whose box has been deleted; one with four boxes, so that two can be pasted, and two
colors, where the application alone connects, from the outputs and once.
`gterm_screen` ends where the cursor is outside the store, `terminal_bytes` with its
reads, and the last four may come to rest, so these six do not check for deadlock;
`HandlersCalled` and `CallsReturn` say what `fl_threads` must not rest before.

Fairness. `CatchesUp` assumes weak fairness of the end of `ProcessInput` (a call
returns) and strong fairness of the timer: `Fl::repeat_timeout` re-arms it in each
call, and FLTK serves expired timeouts in every turn of its loop, between reads,
however many reads are ready. Nothing is assumed of the host, exposes or resizes.
`EveryRequestAnswered` assumes weak fairness of each lookup thread (threads are
scheduled, and `getaddrinfo` has timeouts of its own) and of the main thread's
`Dns_timeout_client` (the pipe is watched with `a_IOwatch_add_fd` and stays
readable until it is emptied). Nothing makes a client ask or stop asking.
The session assumes that the read callback is called again and again while there
is something to read (strong fairness: keys and the timer are served in between
by the same loop, and the descriptor stays ready), that a call under way returns,
and that the child comes up or fails; nothing of the shell or the user.
`fl_threads` assumes that threads run and unlock what they locked (weak fairness),
and that a thread which waits for a mutex that is free again and again gets it
(strong fairness of `lock_mutex`: the main thread gives it up only while it waits for
events, and glibc's mutexes do not promise the same under contention).

## Findings

What the code does against its documentation or the intent of a comment, and how
to see it in the models:

* `Fl_Term::MoveChars` (`Fl_Term.cxx:474`) turns the whole ring for a copy of part
  of the screen: give `fl_term_ring` a parameter that makes margins inside the
  screen (`Params = {0, 2}`, and no `ASSUME WholeScreen` in `MCFl_Term`) and
  `ImplementsDisplay` is violated.
* `set_margins` checks the bottom margin against the screen and the top one against
  nothing (`actions.cpp:337`). With a top margin far below, `ff` and relative addressing
  (`actions.cpp:268`) put the cursor's row outside the text store, which every method
  indexes with it. `IndicesInStore` says that this is the only way out: without
  `MarginTooLow` it is violated.
* `next_param` counts separators without a limit (`actions.cpp:227`), and `param_digit`
  and `set_colors` then reach outside `param`. `Terminal` has no step for such a byte
  (`Overruns`); what is checked and proved of it holds of the output before.
* `scroll_region` "does clear" (`gterm.hpp`), but a scroll by the height of the region
  (`utils.cpp:116`) clears nothing.
* Without line wrapping, which the application selects, characters beyond the
  last column are dropped if they arrive with the rest and overwrite the last
  column if they arrive in the next read (`actions.cpp:33`). `WrappedRunsAreOneByOne`
  is stated for the other mode.
* A lookup thread publishes its answer with two plain stores (`dns.c:340`); if they
  are seen in the other order, clients are called with the answer for the channel's
  earlier host, and the late list may reach the next host on the channel. `CacheSound`
  and `ImplementsService` except the hosts concerned (`raced`) and fail without the
  exception. Compilers and processors that keep the order hide it.
* The result of `pthread_create` is ignored (`dns.c:371`); a failure (`CreateFails =
  TRUE`) blocks the channel and every request for its host for good.
* "The file descriptor is closed twice" (`IO.c:122`): stopping a connected request
  frees its slot, the next socket gets the same number, and the second close hits
  it. `OwnDescriptor` without its condition is violated.
* A failing read (`IO.c:184`) ends neither the chain nor the use of the slot,
  although the process "finishes upon EOF (or on an error condition)" (`IO.txt:307`).
* A queued socket is let go when the web of its first client is gone
  (`http.c:171`), while another client may have joined the URL: it waits for ever.
* `a_Cache_stop_client` (`cache.c:1371`) takes the page out of `DelayedQueue` though
  other clients of the page wait there; an answer that ends before its header
  (`cache.c:1135`) leaves its clients in the queue. `FedFromCache` excludes both
  (`Disturbed`) and fails without the exclusion.
* `Cache_process_queue` goes on with its index after a temporary redirection
  (`cache.c:1263`), which removes the target's page with its clients. If one of them
  stood earlier in the queue, the next client of the redirecting page is passed over,
  and as the page is complete nobody serves it later. `FedFromCache` without `shifted`
  is violated in seven steps. ("We assert just one redirect call", `cache.c:1261`, holds
  of a client and not of a page.)
* "When conn is already done, the cache entry isn't removed" (`capi.c:192`): an answer
  whose type is found wrong at its end, as that of an empty image, and that no root
  client asked for, stays in the cache, and `a_Cache_process_dbuf` does not give back the
  reference of its header. `RefsBalanced` without `spared` is violated.
* The awake ring's test for being full (`Fl_lock.cxx:84`) misses head in the last slot
  and tail in the first; registering then empties the ring. `CalledInOrder` without
  `overrun` is violated. `ring_mutex` is created by two threads at once if they meet
  (`raced`).
* `Fl_OpButton::ConnectTo` "drops any existing connections *to dstbut*, then
  recreates" (`Fl_OpButton.C:206`), but the input that drops them empties the
  output's list too, so that only the input and the desk know of the connection.
  `BooksAgree` excepts the list of such an output (`redone`) and fails without the
  exception. Called on the input, `ConnectTo` lists the connection the wrong way round,
  so `OneSource` asks for two types and not for their order. `Fl_OpDesk::Connect` does
  neither.
* `CopyConnections` reads a connection's attributes through a pointer into the
  vector it has just appended to (`Fl_OpDesk.C:845`).

Seen while modelling and not stated as properties: `cursor_position` clamps a
parameter that counts from one with a bound that counts from zero, so that the
last row and column cannot be addressed; `reset` keeps BOLD and INVERSE;
`save_attrib` is not initialised; `ResizeTerminal` leaves a pending scroll
pending; `DrawText` turns some invisible combinations of colours into others.
An escape inside a sequence ends it and is swallowed; modes above 1000 alias those
with a question mark; row and column 0 cannot be addressed in vt52 mode; a status
report may name a column beyond the width; `normal_input` looks at the byte after
the data before it checks the length. A shell whose terminal cannot be opened leaves
the window open. A request that fails inside `a_Capi_open_url` leaks its web; a
failed connection to a dpi leaves the answer branch; an answer of the resolver for an
invalid web aborts other clients of the URL. `~Fl_OpButton` is said to disconnect
everything and does not (its box does); the desk goes on drawing a connection that
is dragged from a deleted box; `GetIndexForButton` and `FindButtonByPtr` look for
outputs among as many as there are inputs. `Fl::add_timeout` adds what a former
timeout missed; a check that removes and adds itself is called for ever; `fl_wait` skips
a descriptor when a callback removes one.

## Proofs

`GTermProofs` proves for every size of store and screen, every set of parameters
(`Params` may be all of `Nat`) and every sequence of operations (no `MaxHost`):

* `TypeCorrect`: `Spec => []TypeOK`;
* `LinesStayDistinct`: `Spec => []LinesDistinct`;
* `IndicesStayInStore`: `Spec => []IndicesInStore`.

The inductive invariant `IInv` adds to the types that the columns, the saved cursor and
the bottom margin are inside the store, that `linenumbers` is one-to-one (`Base`), and
that the cursor's row is in the store unless the top margin is too low (`Fit`).
`LinesDistinct` alone is not inductive: `scroll_region` rotates rows of the region it is
given, and it is given the cursor row and the bottom margin; a region that begins below
its end has no rows. Each method has a lemma that it keeps the object well formed: what
is well formed with the row in the store (`Good`) stays so, except that `ff` and
relative addressing, which count from the top margin, may leave it only `Fit`. Updates
and `ResizeTerminal` start from `Base`: they come also when the cursor is outside, and a
resize brings it back. A second family of lemmas says that no operation of the host
changes the size, which the type of the display needs.

Assumptions: screens are at least two by two and one column narrower than the
store (`DimensionAssumption`), which the code does not enforce, and numbers do not
overflow an `int` (`ParamAssumption`). A method that would index the store with a row
outside it has no step.

`DnsProofs` proves for every number of channels, hosts, clients and threads, with
`pthread_create` failing or not, and in whatever order the stores of the threads are
seen:

* `TypeCorrect`: `Spec => []TypeOK`;
* `OneLookupAtATime`: `Spec => []OneLookupPerHost`;
* `CacheStaysSound`: `Spec => []CacheSound`;
* `NoWakeUpIsLost`: `Spec => []NoLostWakeUp`;
* `ChannelsAreUsed`: `Spec => []NoIdleChannelWasted`;
* `ResolverKeepsPromise`: `Spec => ImplementsService`, the refinement of
  `DnsService`.

None of these is inductive by itself. The invariant `IInv` relates the
places that know of a request: the clients (`ClientsSound`: exactly the clients
that wait are queued, each once and for the host it asked for), the queue and the
channels (`ChannelsSound`: an entry on a channel is for the host the channel is
busy with), the threads (`ThreadsSound`: a channel has at most one thread that has
not reported, and is then processing; `AnswersSound`: what the thread holds is an
answer for that host, and so is what it leaves in the channel unless the host raced),
and the cache (`CacheFresh`: a host that somebody waits for is cached only while its
channel is served, and then it is). The hosts that raced are excepted from what
`CacheSound` says of addresses and, in `DnsService`, from what is promised beyond an
answer (`spoilt`); that a request is answered once, that a host is looked up once and
cached once, the wake-ups and the use of the channels need no exception. Each action has a
lemma that it preserves `IInv`, and a step of `DnsService` is found for each
action from `IInv` before it.

The second half of `GTermProofs` is about `GTermDisplay`, under the same assumptions:

* `NeverShowsUninit`: `Spec => []NoUninitShown`;
* `DisplayStaysTracked`: `Spec => []DisplayTracks`, when updates are never deferred or
  the window keeps its size;
* `InputIsShown`: `Spec => ShownAfterInput`;
* `RunsMayBeCut`: `Spec => []WrappedRunsAreOneByOne`.

`DisplayTracks` speaks of the visible cells; what keeps it (`Tracks`, for every method) is
that a row is found through the pending scroll exactly inside the margins. `TrackInv` adds
that no text in the store is raw (`Clean`), nor any cell of the display
(`NothingRaw`), and that without deferral nothing is left to scroll when a read has been
processed. The restriction of the second theorem is needed: `ResizeTerminal` moves the
bottom margin and leaves `pending_scroll` as it is (gterm.cpp:49, a hazard), and
with deferred updates the display is then wrong until the rows are drawn again. The other
results need no restriction. For the last, two characters taken by one call of
`normal_input` are followed through its loop by hand; it follows from the types alone, as
the cursor and the text are then what two calls leave, in insert mode too.

`FlThreadsProofs` proves for any number of threads, calls and ring places:

* `LockIsExclusive`: `Spec => []OneHolder`;
* `HandlersInOrder`: `Spec => []CalledInOrder`.

`OneHolder` is not inductive, as a thread reads counter and owner without the mutex.
`LockOK` says why it may: the owner is right from the moment it is stored to the release,
and a thread between the two reads finds its own name only when it holds the lock
already. `RingLockOK` says the same of the ring's mutex and that the copy a thread works
on is the ring's, `PendingOK` that the places between tail and head were stored.

`TermSessionProofs` proves for buffers and reads of any size:

* `TypeCorrect`: `Spec => []TypeOK`.

The types include that what is shown is what was written but for what the buffer holds;
`OwedOK` says that answers are owed exactly while they are being sent.

`HttpProofs` proves for any number of requests, URLs, hosts and descriptors, and any
limit:

* `ConnsHaveBranches`: `Spec => []BranchesTogether`;
* `LimitKeptAndUsed`: `Spec => []SlotsCounted`;
* `NoDescriptorLeaks`: `Spec => []NoLeak`;
* `DescriptorsAreOwn`: `Spec => []OwnDescriptor`;
* `ClientsArePursued`: `Spec => []NobodyForgotten`.

All five come from one invariant. A callback is one action, but inside it a request is
half gone while others are connected, fail and are aborted in turn. So the invariant
`Sound(x, d)` is stated of any state `x` between two calls and of the request `d` that is
on its way out: everybody but `d` is `Regular` (both branches, conn and socket, or none),
queues hold exactly the sockets that wait, counts are right, and open or watched
descriptors are an IO's. Each operator has a lemma that it leads from `Sound` to `Sound`,
with the same or another `d`; between callbacks `d` is nobody. The loop over the queue is
a recursive function, and what holds after it is proved by the least number of turns for
which it would fail (`LeastOf`), as induction cannot be cited with a property as parameter.

`CacheProofs` proves for any finite sets of URLs and clients, any amount of data and any
limit of redirections:

* `NothingDangles`: `Spec => []NoDangling`;
* `ReferencesBalance`: `Spec => []RefsBalanced`;
* `ToldTheEndWithAllData`: `Spec => ClosedHaveAll`;
* `WaitersAreServed`: `Spec => []FedFromCache`.

The sets are assumed finite because the identity of a new entry is one that nothing uses,
and such a number exists because the queues and entries are finitely many. As for HTTP,
the invariant `Sound(x, W, J)` is stated of any state between two calls: what is queued is
queued once, was not told the end and points at an entry that is there (`QueuesOK`); but
for the URLs in `W`, a connection has an entry that is not at its end (`ConnsOK`); but for
the clients in `J`, a client without data may still be redirected (`LevelsOK`, which keeps
the count of redirections in its range); and a redirecting page names another page, and a
page whose type is known has data or is over (`PageOK`). Two relations carry what the
loops do to everybody else: `Since(x, y, {})` says what became of every client (it waits at
the same page, was told the end with all the data of a page that is over, or is lost),
which gives `ClosedHaveAll` and the clients of `gone`; `Held(x, y, u)` says that the entry
that is being served keeps its references, connection and data, and that the references of
the others stay right. That the entry survives its own loop rests on `PageOK`: a page
never redirects to itself, so what a redirection removes is another entry.

`WaitersAreServed` needs more, `FInv`: every waiting client's page is served or was
disturbed (`AllHeeded`, of any state between two calls and with the exception of the page
that is being processed), and an entry that is not at its end has a connection, or if it
is and has a header then its type is known (`Fine`; without it the timeout would take a
page off `DelayedQueue` and serve nobody, as the type is never found again). It rests on
the loops being long enough, and so on two measures, since both loops add to what they
walk over. In `Cache_process_queue` a turn moves the place on or takes a client of the page
out, and a redirected client comes back at the end of the queue and at another page: the
length of the queue from the place on, and the number of clients of the page, together
grow less with every turn (`Turns`, at most twice the number of clients). In the delayed
callback every turn takes one page off the queue, but a redirection may put another on
it: a client at a page that is at its end has as many tokens left as redirections that its
level allows, one is spent for each, and the pages waiting together with the tokens grow
less with every turn (`Size`, at most `Cardinality(Urls) + RedirectLimit *
Cardinality(Keys)`). These are the lengths of the model's two loops, so the theorem also
says that no client is left behind because the model cuts the C loops short.

`OpDeskProofs` proves for any number of boxes, connections and selected boxes:

* `OpDeskBooksAgree`: `Spec => []BooksAgree`;
* `OpDeskOneSource`: `Spec => []OneSource`;
* `OpDeskNoDangling`: `Spec => []NoDangling`;
* `OpDeskCopiesAlike`: `Spec => []CopiesAlike`.

Nothing is assumed of who connects, from which side or how often, nor of what happens
before a deleted box is freed. The invariant `Good` is `Books(x, {})` (desk and buttons
record the same pairs, once each, an input at most one, between an output and an input of
boxes that are on the desk or still to be freed) and `Housed` (boxes, clipboard, pushed
button and the buttons alive fit together; what is freed is on no list, as `~Fl_OpBox`
disconnects its box once more). `Books(y, E)` allows the lists of the buttons to disagree
on the pairs in `E`, as they do in the middle of a disconnect. The methods loop over
vectors they shorten, so what a loop has done is stated as a relation that composes:
`Cut(y, z, P)`, the connections of the pairs in `P` are gone from all three records and
the others are there, in order; and for pasting `Pasted(m, z, ..., W)`, exactly the
connections in `W` were copied, each once, although one between two copied boxes is met
from both ends.

`VT100HostProofs` proves for any length of the array `param`, any number of parameters that
fits in it, numbers up to 99 and any height:

* `CommandsAreDecoded`: `Spec => []DecodesWhatIsMeant`;
* `TablesInStep`: `Spec => []InStep`.

The invariant `HostInv` says that parser and host are in the same `Phase`: either nothing is
under way, or the parser has read exactly those bytes of one command that are no longer in
`todo`. For a command with numbers, whose bytes are built by a recursive function, `Shaped`
says where each spelled number and each semicolon is (proved by induction over the
numbers), and `Reading` what `j` digits of number `n` have made of `param` and `nparam`:
complete before `n`, the value of the digits read at `n`, zero behind it. The zeros are what
a decoder forgets most easily, and what makes the invariant inductive: `param_digit` adds to
what it finds. A vt52 host counts rows from 32 in one byte, so it addresses only those
that fit (`32 + y <= 255`).

The last part of `GTermProofs` is about `Terminal`, where bytes arrive in reads that end
anywhere:

* `TerminalIsScreen`: `TSpec => ImplementsScreen`;
* `TerminalLinesDistinct`: `TSpec => []LinesDistinct`.

They assume `Covered`, which TLC evaluates for the instance (`MCTerminal`) and which says
that the screen's constants leave out nothing that bytes can ask for. `TInv` is `IInv` with
the parser added: its parameters are numbers of `Params` (which may be `Nat`), the data
left are bytes, and an operation was carried out only inside a read. `nparam` is any
number: the terminal stops only at a byte that would reach outside `param` (`Overruns`)
or, as the screen does, outside the text store. A run or an operation then
is a step inside `ProcessInput`, collecting a byte and starting a read are none, and the
return is `EndOfInput` or, with nothing done, `Update` or none. Two things had to be
shown besides. The definitions of the instance `ScreenSpec` are those of `GTerm`, which
the prover does not know (lemmas `Same...`, one for each method). And the parser takes a
run as long as the data when lines do not wrap, the screen one of a row at most:
`LongRun` proves that what does not fit in the row changes nothing.

And of the widget:

* `WidgetIsDisplay`: `FlSpec => ImplementsDisplay`, for a ring of any length that holds the
  screen.

It assumes `WholeScreen` (TLC evaluates it for `MCFl_Term`), which is where the widget is
right: with other margins the run described under Findings breaks `ImplementsDisplay`.
`FlInv` says that the region is the screen (`Whole`, with which no margin is too low; kept
by every method, `reset` and `set_margins` of the edges restoring it) and that what the
ring shows is tracked (`Kept`, the invariant of the display). The step that matters is
`FlUpdateShown`: after a turn by `pending_scroll` row `y` is the line that was row `y +
pending_scroll` (`TurnedRing`, arithmetic modulo the length of the ring), different rows
have different lines (`OwnLine`), and a row whose line was not on the screen before is
dirty from end to end, so that the old text the ring still holds there is never shown.

Only model-checked:

* liveness (`CatchesUp`, `EveryRequestAnswered`, `OutputIsProcessed`, `EndsWithShell`,
  `HandlersCalled`, `CallsReturn`), which the prover does not do.

## Not modelled

Drawing on the screen (fonts, clipping, colours), what keys send, the diagnostic
window; Dillo's authentication, decoders, image cache, navigation
stack and plugins; the page layout, whose data is out of TLC's reach; FLTK's events,
timeouts and widgets; and everything marked so in `PROJECT.json`: third-party
libraries, generated code, documentation, and the parts the plan has not reached.
The larger part of the repository is of that kind: vendored FLTK with its image
libraries and character tables, and Dillo's parsers and layout.
