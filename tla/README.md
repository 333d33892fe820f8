# svrNet: TLA+ models, checks and proofs

svrNet is a small TCP server library for Linux: clients send packages (a 10-byte
header and data), a user-supplied handler computes a response to each, and the library
sends it back. This directory models the concurrent core of it, checks the models with
TLC and proves their main properties with TLAPS.

## 1. The system

| Part | Source | State | Operations | Interacts through |
|---|---|---|---|---|
| Listening thread | `src/ep_svr.c` `listen_thread` | – | accept, insert in the table, register with epoll | table, epoll |
| Event loop | `src/ep_svr.c` `work_routine`, `handle_EPOLLIN_event`, `handle_EPOLLOUT_event` | receive buffer, send buffer | read, cut into packages, push to the pool; pop an entry, send it; clean up a closed connection | everything |
| Connection table | `src/conn/conn.cpp` | map identifier → connection | insert, remove, look up | called by loop, listener and send thread |
| Send queue, send thread | `src/helper/sendhelper.cpp` | list of entries, condition variable | push (merging small packages), pop, remove all of a connection; the thread asks epoll for EPOLLOUT for the front entry | queue filled by pool threads, emptied by the loop |
| Receive map | `src/helper/recvhelper.cpp` | map identifier → incomplete package | insert, find, remove | used by the loop only |
| Packages | `src/core/pack.c` | – | `parse_pack`, `create_pack` | loop, pool threads |
| Work pool | `src/core/engine.c` | – | `workpool_push_work`, `work_proc`, `thread_completed` | loop → pool → queue |
| Thread pool | `third/threadpool/threadpool.c` | task queue, exit semaphore, mutex, condition variable | push, run, shut down | called by engine.c |
| Queue | `third/queue/Gqueue.c` | doubly linked list with head node, tail and count | push, pop, clear, uninit | called by threadpool.c under its mutex |
| Life cycle | `net_create`, `net_start`, `net_destroy` | – | creates and frees all of the above | – |

The rest of the repository is vendored (`third/libuv`, `third/libxml2`), unused
(`third/list`) or test programs. The server's own code is under 2000 lines; the vendored
libraries make up more than 99 % of the lines of the repository, so that the share of all
lines that is modelled is small although nearly all of the server is.

A request goes client socket → event loop → thread pool → handler → send queue → (send
thread asks for EPOLLOUT) → event loop → client socket. Four kinds of threads share the
table, the queue and the kernel's descriptor and epoll tables, each behind a lock of its
own; what is hard is what happens *between* two locked calls:

* a connection is looked up by identifier and used by descriptor afterwards;
* a connection is taken down in several steps while the other threads go on;
* responses arrive in the queue after their connection is gone;
* events are edge-triggered, so what is not noticed at once is not noticed at all;
* the send thread and the pool threads sleep on condition variables;
* bytes of a package arrive over several events, with other connections in between;
* the pool is shut down, and the server destroyed, while threads run.

`PROJECT.json` lists each hazard with its line and the properties that guard it.

## 2. Modules

| Module | Models | Extends |
|---|---|---|
| `ConnTable` | conn.cpp | |
| `SendHelper` | sendhelper.cpp: queue, condition variable | `ConnTable` |
| `Engine` | engine.c: tasks, pool threads running `work_proc`; lengths of `create_pack` | `SendHelper` |
| `Sockets` | the kernel, external: clients, descriptors, socket buffers, epoll | `ConnTable` |
| `EpSvr` | the running server: all threads over the four above | `Engine`, `Sockets` |
| `Service` | abstract: what a client sees; `EpSvr` implements it | |
| `RecvPath` | byte level of `handle_EPOLLIN_event`, pack.c, recvhelper.cpp | |
| `ThreadPool` | threadpool.c, with shutdown | |
| `WorkPool` | abstract: what a work pool promises; `ThreadPool` implements it | |
| `NetSvr` | `net_create`, `net_start`, `net_destroy`: the life of a server | `ThreadPool` |
| `GQueue` | Gqueue.c: nodes, pointers, count | |
| `Fifo` | abstract: a first-in-first-out queue; `GQueue` implements it | |
| `EpSvrTypes`, `EpSvrQueue`, `EpSvrSafety`, `EpSvrDelivery` | theorems about `EpSvr` | each the one before |
| `RecvPathProofs`, `ThreadPoolProofs`, `GQueueProofs` | theorems about these | the module itself |
| `NetSvrProofs` | theorems about `NetSvr` | `NetSvr`, `ThreadPoolProofs` |
| `MCEpSvr`, `MCRecvPath`, `MCThreadPool` | instances for TLC | |
| `MCEpSvrLive` | instance for TLC: three scenarios of two clients | `EpSvr` |

Definitions keep the names of the functions they model; steps inside a function are named
after what they do (`InRmConn`, `OutPop`, `SendMod`). Definitions marked "Mutant" are the
same operation with a plausible mistake in it; each property is checked to fail for one.

### EpSvr

One step is one call that takes a lock or enters the kernel. `lis_pc`, `l_pc`, `s_pc` and
`w_pc` are the program counters of the listening thread, the loop, the send thread and
the pool threads; `a_*`, `l_*`, `s_*` are their locals. `conn_map` and `m_list` are the
table and the queue. `owner` is a history variable: the client an identifier was issued
to. A response is represented by the request it answers (`msgID` is copied), an entry of
the queue by the responses in it and its length. An unmatched lookup is `NoFd`, the -1 of
the code. `listen_thread` calls `listen` first and ends when that fails (`lis_pc = "ended"`);
nobody can connect before or without it. Its `inet_ntop` cannot fail, because the family is
`AF_INET` and the buffer long enough, so the return after it is not modelled. `accept` fails
and is called again while no descriptor is free, a step that changes nothing and is left out.

Kernel assumptions (`Sockets`): accept returns the lowest free descriptor; close removes
the descriptor from epoll; a ready list that every arrival, close, reset, ADD and MOD
feeds (edge-triggered) and `epoll_wait` empties; recv returns data before the error or
the end; a reset is reported once, by recv or send, and reads as end of stream after that; after a FIN
it is not reported at all (the end of the stream is).
The socket buffers hold `SNDBUF` responses the client has not read; a client need not read.
While they are full a send does not happen: the loop sleeps and retries, a step that changes
nothing and is left out. Reading is a step only when the buffers are full (`ClientRead`): any
other read is invisible to the server. A program that ignores SIGPIPE is assumed, so that a
send to a reset connection returns an error. `NET_PACK_SIZE_LIMIT` is the room a handler is
offered for its data, in units of `OutLen`. `ReuseIds` says whether the random generator may repeat an identifier; `MayDrop`
whether a handler may refuse to answer; `AddMayFail` and `CanReset` switch failures on.

The refinement mapping to `Service` (`Promise`) takes `nsent` and `rcvd`, what clients have
sent and were sent; the whole way in between is hidden.

### RecvPath

A byte is (connection, offset). `len_at` is the content of the streams: the length field a
header at an offset holds; streams keep the protocol's limit for packages. `taken` and
`parsed` count bytes received and handed on, `buf` is the used part of `recv_buff`,
`m_datamap` the incomplete packages. The push of a package to the pool is part of `Parse`
(it is retried until it succeeds, see `InPush` in `EpSvr`). `NDEBUG` says whether assertions
are compiled out. A reset after a FIN only wakes the loop once more, as in `Sockets`. In `EndOfStream` the four clean-up calls are one step: here nobody else
looks at what they change.

### ThreadPool

A critical section is one step; the semaphore operations, which take no lock, are others.
`queue` becomes `NULL` at the shutdown as in the code, and using it then sets `crashed`, after
which nothing happens. `released` counts the calls of `after_proc`, which frees the task.
`LatePush` says whether the callers go on pushing during the shutdown, as `net_destroy`
lets the event loop do. The refinement mapping to `WorkPool` is in the module (`Pool`):
`queue`, `element` and the tasks with `released > 0` are the abstract `pending`, `busy` and
`done`. `Engine` uses the abstract view: to take a task is one step of a pool thread, and a
push is refused when more than the limit wait.

### NetSvr

`n_pc` is the position of the program that calls the three functions, `live` the set of the
server's objects that exist, `started` the threads it has created besides the pool's. Pool
steps are those of `ThreadPool`, possible from `workpool_start` on; `workpool_stop` is its
shutdown. The send thread, the loop and the listening thread are reduced to the objects they
dereference: a use of one that is gone (`UseFreed`) sets `crashed`. `net_destroy` stops none
of the three, so it is safe for the pool only: that is what `PoolThreadsServed` says, and
`SafeUntilDestroyed` that nothing else goes wrong earlier. A failing `net_start` changes
nothing; a failing `listen`, in the thread that `net_start` created, ends that thread
(`ListenFails`). After a failing `epoll_create` the code goes on (it tests `svr_sock` again),
and so does the model. The objects are `net_svr_t`, its two descriptors and what its pointers
refer to; the descriptors of accepted clients are in `EpSvr` only. `net_destroy` gives back
less than the server has taken: the listening socket stays open, so do the descriptors of
connected clients (`release_conn_table` deletes the map and closes nothing, conn.cpp:162-166),
and the three threads go on. No property claims otherwise.

### GQueue

`alloc` is the set of nodes malloc has given out, `mem` their contents, `cursor` the local
variable of `easy_queue_clear`, which is split where it calls the handler. `Chain` follows
the next pointers. The mapping to `Fifo` takes the data along `Chain`; a node that is being
cleared has left the queue. The thread pool calls `easy_queue_uninit` after
`easy_queue_clear` only; so does the model.

## 3. Runs

| Run | Instance | Shows |
|---|---|---|
| `epsvr_safety` | 2 clients × 1 request, 2 descriptors, failing ADD, resets, batches of 2 events, 2 workers, handlers answer | `TypeOK`, `TableMatchesSockets`, `LoopServesOwner`, `RightClient`, `AtMostOnce`, `NothingLost`, `DescriptorAccounted`, `ImplementsService` |
| `epsvr_live` | `MCEpSvrLive`: 1 client × 2 requests with two response sizes, or 2 clients at a time, or 2 one after the other on a descriptor; room for 1 unread response, pool limit 0, resets, handlers that may drop a request, 1 worker, fair | `EntryFits`, `SleepOnlyWhenEmpty`, `EndIsNoticed`, `LoopGoesOn`, `FrontIsSent` |
| `recv` | streams of 7 and 2 bytes, header 2, packages 2–3, buffer 6, fair | `TypeOK`, `StreamIntact`, `RecvBuffBound`, `NoFalseDisconnect`, `AssertsHold`, `CompletePackageParsed`, `EndNoticed` |
| `lifecycle` | failing calls, 3 threads, 3 tasks, limit 1, late pushes, fair | `TypeOK`, `ReleasedOnce`, `SleepOnlyWhenEmpty`, `QueueBound`, `ImplementsWorkPool`, `EveryTaskReleased`, `ShutdownEnds` of the pool; `PoolThreadsServed`, `SafeUntilDestroyed` |
| `gqueue` | 4 nodes (3 elements), 2 contents × 2 lengths, buffers of 0–2, fair | `TypeOK`, `ListSound`, `NothingLeaked`, `ImplementsFifo`, `ClearEnds` |

Runs that are expected to fail state what a comment, a test or the bug list of the
repository says; TLC shows a behaviour of the code that contradicts it:

| Run | Property | What happens |
|---|---|---|
| `epsvr_lost_wakeup` | `NoLostWakeup` | push and signal fall between `QSend_connid_of_front` and `pthread_cond_wait`; the response waits until another request arrives |
| `epsvr_stale_entry` | `StaleEntriesCleared` | a response pushed after the clean-up stays at the front; the send thread spins on it and no other entry gets to the front |
| `epsvr_fd_aba` | `RegistrationNamesConnection` | the send thread's MOD hits a descriptor that belongs to another client by now and overwrites its identifier |
| `epsvr_id_reuse` | `RightClient` | with a recurring identifier a response goes to the wrong client |
| `epsvr_pack_limit` | `PackWithinLimit` | the limit for header and data together is offered to the handler for its data alone |
| `recv_ndebug` | `StreamIntact` | `MRecv_insert` is the argument of an `assert`; without assertions incomplete packages are lost |
| `pool_stop` | `StopsSafely` | a thread that missed the exit token pops from the freed queue |

**What the properties except.** `DescriptorAccounted` is about descriptors that no table entry
names any more. It allows the one leak of that kind the code has (and asks about in a
comment): a descriptor whose `EPOLL_CTL_ADD` failed. It does not say that an entry goes in
time: after a reset the code prints a message and keeps the connection (ep_svr.c:206-209), so
its descriptor stays open, registered and in the table unless a later event brings the loop
to `recv` again. `EndIsNoticed` promises a release after a FIN only, for the same reason.

The liveness properties have these exceptions, each of which occurs in the run (without any
one of them TLC finds a counterexample there):

* `Held`: a client that does not read its responses keeps the loop in the retry of `send`, and
  nobody else is served. `LoopGoesOn`, `EndIsNoticed` and `FrontIsSent` allow for that, whichever
  client it is.
* `Full(owner[c])` in `FrontIsSent`: the client of the entry itself does not read.
* `Misnamed` in `EndIsNoticed`: the stale `EPOLL_CTL_MOD` of `epsvr_fd_aba` has put a dead
  identifier on the descriptor of the connection (sendhelper.cpp:92), whose events are then
  looked up in vain. The connection is never taken down unless a later MOD names it again.
* `FrontIsSent` says nothing while the send thread sleeps (see `epsvr_lost_wakeup`).

`EveryTaskReleased` and `ShutdownEnds` allow for the crash of `pool_stop`.

**Bounds.** Two clients and one or two descriptors are what reuse of a descriptor or of an
identifier needs; one request each and two workers are enough for every race between two
connections, and two requests of one client (with a pool limit of 0 and room for one unread
response) for merging, a full pool, reordering and a client that holds the loop.

All that two clients can do is too much for liveness checking, so `epsvr_live` has three
scenarios (`MCEpSvrLive`), chosen at the start; in each only the clients are restricted, and
with two of them the length of responses, never a thread of the server. *Alone*: one client
does everything. *Together*: A need not read and does not end; B comes when A's requests are
answered, so that A can hold the loop while B's entry is at the front or B's end is waiting.
*After*: B connects when A has closed and A's descriptor is free, which the stale MOD needs.
Identifiers do not recur there, registration does not fail and there is one worker, because
the pool's threads meet the others only in the pool's queue and the send queue, under their
mutexes; a second is in `epsvr_safety`.

In `recv` 7 bytes over a buffer of 6 overflow it if a recv may use all of it, a header of 2
bytes and packages of 2 or 3 give every split of header and data over recvs and packages that
end exactly with a recv, and the second, short stream puts complete and incomplete packages of
another connection between. Three threads are needed for one to hold the exit token, one to
miss it and one to run. Three elements give `gqueue` a first, a last and one in between.
Clients, workers, identifiers, threads and tasks are symmetric and symmetry is used in the
runs without liveness.

**Deadlock** is checked in the `EpSvr` runs. In the others it is not: streams end, and a queue
or pool that is shut down (or a process that crashed) stops.

**Fairness.** Weak fairness per thread: a thread that can run does (POSIX scheduling, no
thread is ever blocked by a lock for ever because no lock is held across a blocking call),
and handlers return. Clients owe nothing: they need not send, read or close. Spurious
wakeups may happen and are not fair. The shutdown of the pool and the clearing of its queue
are fair only once they have begun; the rest of `net_destroy` is not fair at all, because
`release_send_helper` destroys a condition variable the send thread may be waiting on and
that call need not return.

## 4. Proofs

All for arbitrary constants (any number of clients, threads, identifiers, sizes), under the
named assumptions of the modules. A theorem that assumes `~ReuseIds` or `~MayDrop` says so in
its statement; both are values the constants take in the runs.

### EpSvr

* `EpSvrTypes`: `TypeCorrect`. `TypeOK` is inductive as it stands because it includes that
  a thread past its check of `conn_get_sockfd` holds a descriptor, and that the loop parses
  only a non-empty buffer.
* `EpSvrQueue`: `EntriesFit`; every entry after a step comes from one before it or from the
  push, which compares first; a package alone fits because header and `NET_PACK_SIZE_LIMIT`
  together are below the size of the send buffer (`EngineAssumption`). The lemmas on where
  tasks, work and entries come from (`TaskOrigin`, `WorkOrigin`, `EntryOrigin`) serve all
  proofs that follow.
* `EpSvrSafety`: `TableSafe`, from the inductive `TableInv`: table entries name open
  descriptors of their owner, no two name the same, the descriptor that the listening
  thread has not inserted yet is in no entry, and once the loop is about to close a
  descriptor no entry names it. This is the order of the clean-up: table first, close last.
  `LoopSafe` needs in addition that only the loop closes and that identifiers do not recur
  (with recurring identifiers the entry the loop removes may be another client's).
* `EpSvrSafety`: `DescriptorsSafe`, for identifiers that do not recur. `DescriptorAccounted` is not
  inductive: a thread that removed an entry whose descriptor nobody closes would break it.
  `AccountInv` excludes that. The entry the loop removes names the descriptor it goes on to
  close (`HolderInv`). The send thread removes an entry only after its `EPOLL_CTL_MOD` failed,
  and then there is none: every entry's descriptor is registered (`RegisteredInv`), except the
  one between `conn_insert` and `EPOLL_CTL_ADD`, whose identifier nobody else has seen yet
  (`UsedInv`, over everything that can hold an identifier). So, as long as identifiers do not
  recur, the `conn_remove` of the send thread never finds anything to remove.
* `EpSvrDelivery`: `SleepSafe`, from the invariant that the reserved identifier is issued to
  nobody and so reaches no event, task or entry (`IdInv`). `DeliverySafe`, from an invariant that
  follows a request along its whole way (`RouteInv`): whatever is in a buffer, task or entry
  labelled with an identifier belongs to the owner of that identifier. It needs that `owner`
  does not change once set, that is, `~ReuseIds`; `epsvr_id_reuse` shows that it fails
  otherwise.
* `EpSvrDelivery`: `HandledAtMostOnce`, without any assumption on identifiers. The seven kinds of
  places of a request (socket, receive buffer, pool, pool thread, queue, send buffer,
  client) are made one predicate, `IsPlace`, and every step of the server is shown to map
  the places after it injectively to places before it (`Conserves`); a request that nobody
  has sent yet has no place (`OnceInv`), so a new one gets its first. The cardinality in
  `AtMostOnce` comes in at the very end.
* `EpSvrDelivery`: `NothingIsLost`, for identifiers that do not recur and handlers that answer.
  The other direction: every step maps the places before it to places after it (`Keeps`),
  unless the client has gone. The loop's buffers are empty when they are filled
  (`BuffersInv`); data is dropped by a failing `send` only for a client that has reset; and
  entries are cleared from the queue only for a client that has gone (`EndInv` for the loop,
  `GoneInv` for the send thread: an identifier in use that is not in the table belongs to a
  client whose end the loop has seen). The last point rests on `AccountInv`: were there an
  entry the send thread could remove, it would remove the queue entries of a connected
  client with it.
* `EpSvrDelivery`: `ServiceImplemented`. `ClientSend` is `Ask`, `OutSend` is `Answer`: what is sent is
  the client's own (`RouteInv`), was asked, and is not yet among its answers (`OnceInv`); every
  other step is invisible to clients.

### The other components

* `RecvPathProofs`: `NoByteLost`, `RecvBuffSafe`, `DisconnectSafe`, `AssertsSafe` and
  `RecvTypeCorrect` from one invariant, `RecvInv`. The strengthening: what is left after parsing
  is shorter than the longest package (`RestIsShort`), so the next recv has room; nothing is
  kept in the map for the connection being handled (`BufferInUse`). It rests on lemmas about
  segments of a stream (adjacent ones concatenate, a package cut off leaves a segment), and
  on assertions being compiled in.
* `ThreadPoolProofs`: `TasksReleasedOnce`, `NoPoolWakeupLost`, `PoolBounded`, `PoolTypeCorrect`, and
  `PoolImplements`: every step of the thread pool is a step of `WorkPool` or none. The
  invariant (`InOnePlace`) says that a task is at one place of the queue or with one thread.
* `NetSvrProofs`: `TasksServed` and `NoCrashBeforeDestroy` from `NetInv`, which ties the position in the three calls to the objects that exist (`LiveAt`), the threads started
  (`StartedAt`) and the state of the pool (`PoolAt`: untouched before `workpool_start`, shut
  down only in `net_destroy`, all threads gone before the send helper goes). It contains
  `PoolInv` of `ThreadPoolProofs`, whose step lemmas are reused: a step of the server's life is
  a step of the pool or the crash of another thread (`NetStep`). So `PoolSafeInServer` and
  `ServerPoolImplements` carry the pool's theorems over to the specification the run
  `lifecycle` checks, in which the loop still pushes during `net_destroy`.
* `GQueueProofs`: `QueueTypes`, `QueueListSound`, `QueueNoLeak` and `QueueIsFifo` from one invariant,
  `QueueInv`: the nodes from the head to the one without a successor (`Linked`, without
  repetition) are what tail, prev pointers, counter and malloc describe. `Chain` is a
  recursive function of the pointers, and induction over it is not available to the
  provers; instead a least counterexample (`LeastNat`, from well-founded orders) shows that
  the walk along the pointers is determined by its equation and equals any sequence that is
  `Linked`. Each operation then only has to name its list after the step (`Append`, the list
  without its second or last node), not to compute it.

Only model-checked: liveness (`EndIsNoticed`, `LoopGoesOn`, `FrontIsSent`, `CompletePackageParsed`,
`EndNoticed`, `EveryTaskReleased`, `ShutdownEnds`, `ClearEnds`), because the prover does neither
fairness nor ENABLED; and the violations. Every safety property and every refinement that a
passing run checks has a theorem.

## 5. Not modelled, and the plan

Not modelled: magic, version and byte order of the package header; packages beyond the
protocol's limit (`RecvAssumption`); SIGPIPE; allocation failures, which the code does not
look at; `conn_find`, `QSend_size` and `third/list/Glist.c`, which nothing calls; libuv and
libxml2, which are vendored (the thread pool's use of libuv's mutex, condition variable and
semaphore is in `ThreadPool`); the test programs.

The server's own code is modelled, and its safety properties and refinements are proved.
What is left:

1. invariants behind the liveness properties that are safety and so within reach: the exit
   token of the pool is never lost or doubled (`ShutdownEnds`), and a registered descriptor
   with something to report is in the ready list, in the batch or being handled
   (`EndIsNoticed`);
2. what still holds when identifiers recur: which of the theorems that assume `~ReuseIds`
   survive under the weaker assumption that an identifier recurs only after everything
   labelled with it has left the server.
