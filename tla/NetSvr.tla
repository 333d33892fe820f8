------------------------------- MODULE NetSvr -------------------------------
(***************************************************************************)
(* The life of a server, from net_create through net_start to net_destroy  *)
(* (src/src/ep_svr.c): which of its objects exist, which of its threads    *)
(* have been started, and the thread pool of module ThreadPool that comes  *)
(* and goes with it.  One program thread makes the three calls, as         *)
(* src/test/test.c does.  Of what the send thread, the event loop and the  *)
(* listening thread do, this module keeps which objects they use; module   *)
(* EpSvr has the rest.                                                     *)
(***************************************************************************)
EXTENDS ThreadPool

CONSTANT Fallible   \* may socket, epoll_create and listen fail?

ASSUME NetAssumption == Fallible \in BOOLEAN /\ LatePush

VARIABLES
  n_pc,      \* where the program's thread is
  live,      \* the objects of the server that exist
  started    \* the threads that have been created and not ended, but for the pool's

netVars == <<n_pc, live, started>>
allVars == <<vars, netVars>>

(***************************************************************************)
(* The objects are net_svr_t itself, its two descriptors and what its      *)
(* pointers refer to.  The descriptors of accepted clients are not among   *)
(* them: they are in module EpSvr, and net_destroy does not look at them.  *)
(***************************************************************************)

\* What a thread dereferences.  (A closed ep_fd is an error that it survives.)
Uses(h) ==
  CASE h = "send"   -> {"svr", "shpr", "conntable"}
    [] h = "loop"   -> {"svr", "shpr", "conntable", "rhpr"}
    [] h = "listen" -> {"svr", "conntable"}

\* Creating and releasing objects, and going on.
Step(from, to, objects) ==
  /\ n_pc = from
  /\ n_pc' = to
  /\ live' = objects
  /\ UNCHANGED <<vars, started>>

-----------------------------------------------------------------------------
(* net_create *)

Socket == Step("socket", "epoll", live \cup {"svr_sock"})

\* Nothing but svr itself is there to be released.
SocketFails == Fallible /\ Step("socket", "failed", live \ {"svr"})

epoll_create == Step("epoll", "objects", live \cup {"ep_fd"})

\* The check looks at svr_sock once more, so the server goes on without epoll.
EpollFails == Fallible /\ Step("epoll", "objects", live)

CreateObjects == Step("objects", "send", live \cup {"conntable", "rhpr", "shpr"})

Start(h, from, to) ==
  /\ n_pc = from
  /\ n_pc' = to
  /\ started' = started \cup {h}
  /\ UNCHANGED <<vars, live>>

\* Mutant: the thread is started before the objects are created.
StartSendFirst == Start("send", "objects", "pool")

StartSend == Start("send", "send", "pool")

\* threadpool_init: from here on the pool's threads run.
workpool_start == Step("pool", "created", live)

net_create ==
  \/ Socket \/ SocketFails
  \/ epoll_create \/ EpollFails
  \/ CreateObjects \/ StartSend \/ workpool_start

-----------------------------------------------------------------------------
(* net_start: a call that fails, in inet_pton or bind, leaves the server as it *)
(* was; it may still be destroyed.                                             *)

StartLoop == Start("loop", "created", "listen")

StartListen == Start("listen", "listen", "started")

net_start == StartLoop \/ StartListen

-----------------------------------------------------------------------------
(* net_destroy *)

release_recv_helper ==
  \/ Step("created", "stop", live \ {"rhpr"})
  \/ Step("started", "stop", live \ {"rhpr"})

\* threadpool_uninit returns when the pool's threads have been joined.
workpool_stop ==
  /\ n_pc = "stop"
  /\ Uninit
  /\ UNCHANGED netVars

\* Mutant: the pool's threads are not waited for.
ReleaseSendEarly == u_pc # "up" /\ Step("stop", "conntable", live \ {"shpr"})

release_send_helper == u_pc = "done" /\ Step("stop", "conntable", live \ {"shpr"})

release_conn_table == Step("conntable", "close", live \ {"conntable"})

\* close(ep_fd) and free(svr).  The listening socket, the accepted descriptors and
\* the three threads stay.
Free == Step("close", "gone", live \ {"ep_fd", "svr"})

net_destroy ==
  \/ release_recv_helper
  \/ workpool_stop
  \/ release_send_helper
  \/ release_conn_table
  \/ Free

-----------------------------------------------------------------------------
(* The threads *)

\* listen_thread ends when listen fails, the first thing it does.
ListenFails ==
  /\ Fallible
  /\ "listen" \in started
  /\ "svr" \in live
  /\ started' = started \ {"listen"}
  /\ UNCHANGED <<vars, n_pc, live>>

\* None of them is told to stop.
UseFreed(h) ==
  /\ h \in started
  /\ Uses(h) \ live # {}
  /\ crashed' = TRUE
  /\ UNCHANGED <<exit_sem, queue, t_pc, element, u_pc, released, netVars>>

\* The event loop pushes what it has received.
LoopPush == "loop" \in started /\ Push /\ UNCHANGED netVars

PoolUp == n_pc \in {"created", "listen", "started", "stop"}

PoolRun(t) == PoolUp /\ Run(t) /\ UNCHANGED netVars

PoolWakeup(t) == PoolUp /\ Wakeup(t) /\ UNCHANGED netVars

NetInit ==
  /\ threadpool_init
  /\ n_pc = "socket"
  /\ live = {"svr"}
  /\ started = {}

NetNext ==
  \/ ~ crashed /\ (net_create \/ net_start \/ net_destroy)
  \/ ~ crashed /\ ListenFails
  \/ ~ crashed /\ \E h \in {"send", "loop", "listen"} : UseFreed(h)
  \/ LoopPush
  \/ \E t \in Thread : PoolRun(t) \/ PoolWakeup(t)

NetSpec == NetInit /\ [][NetNext]_allVars

(***************************************************************************)
(* As in ThreadPool: the pool's threads run, and a shutdown of the pool    *)
(* that has begun goes on.  Nothing is assumed of the rest of net_destroy: *)
(* release_send_helper destroys a condition variable the send thread may   *)
(* be waiting on, and that call need not return.                           *)
(***************************************************************************)
NetFairSpec ==
  /\ NetSpec
  /\ \A t \in Thread : WF_allVars(PoolRun(t))
  /\ WF_allVars(workpool_stop /\ u_pc # "up")

-----------------------------------------------------------------------------
(* Properties *)

\* The pool's threads put responses into the send queue and wake the send thread:
\* net_destroy keeps both until the last task has returned.
PoolThreadsServed ==
  \A t \in Thread : t_pc[t] = "proc" => {"svr", "shpr"} \subseteq live

Destroying == n_pc \in {"stop", "conntable", "close", "gone"}

\* No thread is started before what it uses exists, whatever fails on the way, and
\* as long as net_destroy is not called nobody uses what is gone.
SafeUntilDestroyed == crashed => Destroying
=============================================================================
