---------------------------- MODULE NetSvrProofs ----------------------------
(***************************************************************************)
(* Theorems about the life of a server, for any number of pool threads and *)
(* tasks.  The invariant behind them ties the program's position in        *)
(* net_create, net_start and net_destroy to what exists, to what has been  *)
(* started and to the state of the pool.                                   *)
(***************************************************************************)
EXTENDS NetSvr, ThreadPoolProofs

Creating == {"socket", "epoll", "objects", "send", "pool", "failed"}
Serving  == {"send", "pool", "created", "listen", "started"}
Stopped  == {"conntable", "close", "gone"}

Helpers == {"conntable", "rhpr", "shpr"}

\* The objects at every point, but for ep_fd, which may be missing.
LiveAt ==
  /\ n_pc = "socket" => live = {"svr"}
  /\ n_pc = "failed" => live = {}
  /\ n_pc \in {"epoll", "objects"} => live \ {"ep_fd"} = {"svr", "svr_sock"}
  /\ n_pc \in Serving => live \ {"ep_fd"} = {"svr", "svr_sock"} \cup Helpers
  /\ n_pc = "stop" => live \ {"ep_fd"} = {"svr", "svr_sock", "conntable", "shpr"}
  /\ n_pc = "conntable" => live \ {"ep_fd"} = {"svr", "svr_sock", "conntable"}
  /\ n_pc = "close" => live \ {"ep_fd"} = {"svr", "svr_sock"}
  /\ n_pc = "gone" => live = {"svr_sock"}

\* The threads that may have been started.
StartedAt ==
  /\ n_pc \in {"socket", "epoll", "objects", "send", "failed"} => started = {}
  /\ n_pc \in Serving \cup {"stop"} \cup Stopped => started \subseteq {"send", "loop", "listen"}
  /\ "loop" \in started => n_pc \notin Creating

\* The pool is as threadpool_init left it until it has been started, is only shut
\* down by workpool_stop, and its threads are gone when the rest is released.
PoolAt ==
  /\ n_pc \in Creating => \A t \in Thread : t_pc[t] = "trywait"
  /\ u_pc # "up" => n_pc \in {"stop"} \cup Stopped
  /\ n_pc \in Stopped => u_pc = "done"
  /\ u_pc = "done" => \A t \in Thread : t_pc[t] = "exited"

NetInv ==
  /\ PoolInv
  /\ n_pc \in Creating \cup Serving \cup {"stop"} \cup Stopped
  /\ LiveAt
  /\ StartedAt
  /\ PoolAt
  /\ SafeUntilDestroyed

-----------------------------------------------------------------------------

\* Before net_create nothing exists and nothing runs.
LEMMA NetInitInv == NetInit => NetInv
<1> SUFFICES ASSUME NetInit PROVE NetInv
  OBVIOUS
<1>1. PoolInv
  BY PoolInit DEF NetInit, Init
<1>2. PoolAt
  BY DEF NetInit, threadpool_init, PoolAt, Creating, Stopped
<1>3. LiveAt /\ StartedAt /\ SafeUntilDestroyed
  BY DEF NetInit, threadpool_init, LiveAt, StartedAt, SafeUntilDestroyed, Serving,
         Stopped, Creating, Helpers
<1> QED  BY <1>1, <1>2, <1>3 DEF NetInv, NetInit, Creating

\* The pool's variables do not change when the program creates or releases.
LEMMA PoolUnchanged == PoolInv /\ UNCHANGED vars => PoolInv'
BY PoolNext DEF Next

\* What the pool's threads and the callers do to the pool, as far as the life of the
\* server is concerned: the shutdown does not move, a thread that has left stays
\* away, and only a freed queue makes them crash.
LEMMA PoolSteps ==
  ASSUME PoolInv, Push \/ \E t \in Thread : Run(t) \/ Wakeup(t)
  PROVE  /\ PoolInv'
         /\ u_pc' = u_pc
         /\ \A t \in Thread : t_pc[t] = "exited" => t_pc'[t] = "exited"
         /\ crashed' => crashed \/ u_pc \in {"join", "done"}
<1>1. PoolInv'
  BY PoolNext DEF Next
<1>2. t_pc \in [Thread -> ThreadPC] /\ (queue = NULL => u_pc \in {"join", "done"})
  BY DEF PoolInv, TypeOK
<1>3. CASE Push
  BY <1>1, <1>2, <1>3 DEF Push, PushFreed, threadpool_push_work, Woken
<1>4. ASSUME NEW t \in Thread, Run(t) \/ Wakeup(t)
      PROVE  /\ u_pc' = u_pc
             /\ \A s \in Thread : t_pc[s] = "exited" => t_pc'[s] = "exited"
             /\ crashed' => crashed \/ u_pc \in {"join", "done"}
  BY <1>2, <1>4 DEF Run, thread_func, Wakeup, TryWait, Leave, Pop, PopEmpty, PopFreed,
       SpuriousWakeup, Proc, AfterProc, Goto
<1> QED  BY <1>1, <1>3, <1>4

\* threadpool_uninit: it never crashes, and is done when all threads have left.
LEMMA UninitSteps ==
  ASSUME PoolInv, Uninit
  PROVE  /\ PoolInv'
         /\ u_pc' = "done" => \A t \in Thread : t_pc'[t] = "exited"
         /\ u_pc # "done"
         /\ crashed' = crashed
<1>1. PoolInv'
  BY PoolNext DEF Next
<1> QED  BY <1>1 DEF Uninit, threadpool_uninit, CancelPost, CancelClear, CancelJoin

-----------------------------------------------------------------------------

\* The steps of the program that leave the pool alone.
LEMMA CreateSteps ==
  ASSUME NetInv, net_create \/ net_start \/ release_recv_helper
                 \/ release_send_helper \/ release_conn_table \/ Free
  PROVE  NetInv'
<1> USE DEF Creating, Serving, Stopped, Helpers
<1>1. UNCHANGED vars /\ PoolInv'
  <2>1. UNCHANGED vars
    BY DEF net_create, net_start, Socket, SocketFails, epoll_create, EpollFails, CreateObjects,
       StartSend, workpool_start, StartLoop, StartListen, release_recv_helper,
       release_send_helper, release_conn_table, Free, Step, Start
  <2> QED  BY <2>1, PoolUnchanged DEF NetInv
<1>2. UNCHANGED <<t_pc, u_pc, crashed>>
  BY <1>1 DEF vars
<1>3. CASE net_create
  BY <1>1, <1>2, <1>3 DEF net_create, Socket, SocketFails, epoll_create, EpollFails, CreateObjects,
     StartSend, workpool_start, Step, Start, NetInv, LiveAt, StartedAt, PoolAt,
     SafeUntilDestroyed, Destroying
<1>4. CASE net_start
  BY <1>1, <1>2, <1>4 DEF net_start, StartLoop, StartListen, Start, NetInv, LiveAt, StartedAt,
     PoolAt, SafeUntilDestroyed, Destroying
<1>5. CASE release_recv_helper
  BY <1>1, <1>2, <1>5 DEF release_recv_helper, Step, NetInv, LiveAt, StartedAt, PoolAt,
     SafeUntilDestroyed, Destroying
<1>6. CASE release_send_helper \/ release_conn_table \/ Free
  BY <1>1, <1>2, <1>6 DEF release_send_helper, release_conn_table, Free, Step, NetInv, LiveAt,
     StartedAt, PoolAt, SafeUntilDestroyed, Destroying
<1> QED  BY <1>3, <1>4, <1>5, <1>6

\* Steps of the pool or of a thread that uses what is gone.
LEMMA ThreadSteps ==
  ASSUME NetInv,
         \/ workpool_stop
         \/ ListenFails
         \/ \E h \in {"send", "loop", "listen"} : UseFreed(h)
         \/ LoopPush
         \/ \E t \in Thread : PoolRun(t) \/ PoolWakeup(t)
  PROVE  NetInv'
<1> USE DEF Creating, Serving, Stopped, Helpers
<1>0. UNCHANGED <<n_pc, live>> /\ started' \subseteq started
  BY DEF workpool_stop, ListenFails, UseFreed, LoopPush, PoolRun, PoolWakeup, netVars
<1>1. LiveAt' /\ StartedAt' /\ n_pc' = n_pc
  BY <1>0 DEF NetInv, LiveAt, StartedAt
<1>2. CASE workpool_stop
  <2>1. PoolInv /\ Uninit /\ n_pc = "stop"
    BY <1>2 DEF workpool_stop, NetInv
  <2>2. /\ PoolInv'
        /\ u_pc' = "done" => \A t \in Thread : t_pc'[t] = "exited"
        /\ crashed' = crashed
    BY <2>1, UninitSteps
  <2> QED  BY <1>1, <2>1, <2>2 DEF NetInv, PoolAt, SafeUntilDestroyed, Destroying
<1>3. ASSUME NEW h \in {"send", "loop", "listen"}, UseFreed(h) PROVE NetInv'
  <2>1. PoolInv'
    BY <1>3, PoolQuiet DEF UseFreed, NetInv, PoolInv, TypeOK
  <2>2. n_pc \notin Creating \cup Serving
    BY <1>3 DEF UseFreed, Uses, NetInv, LiveAt, StartedAt
  <2>3. UNCHANGED <<t_pc, u_pc>>
    BY <1>3 DEF UseFreed
  <2> QED  BY <1>1, <2>1, <2>2, <2>3 DEF NetInv, PoolAt, SafeUntilDestroyed, Destroying
<1>4. CASE LoopPush \/ \E t \in Thread : PoolRun(t) \/ PoolWakeup(t)
  <2>1. /\ PoolInv
        /\ Push \/ \E t \in Thread : Run(t) \/ Wakeup(t)
        /\ n_pc \notin Creating
    <3>1. CASE LoopPush
      BY <3>1 DEF LoopPush, NetInv, StartedAt
    <3>2. CASE \E t \in Thread : PoolRun(t) \/ PoolWakeup(t)
      BY <3>2 DEF PoolRun, PoolWakeup, PoolUp, NetInv
    <3> QED  BY <1>4, <3>1, <3>2
  <2>2. /\ PoolInv' /\ u_pc' = u_pc
        /\ \A t \in Thread : t_pc[t] = "exited" => t_pc'[t] = "exited"
        /\ crashed' => crashed \/ u_pc \in {"join", "done"}
    BY <2>1, PoolSteps
  <2> QED  BY <1>1, <2>1, <2>2 DEF NetInv, PoolAt, SafeUntilDestroyed, Destroying
<1>5. CASE ListenFails
  <2>1. PoolInv' /\ UNCHANGED <<t_pc, u_pc, crashed>>
    BY <1>5, PoolUnchanged DEF ListenFails, NetInv, vars
  <2> QED  BY <1>1, <2>1 DEF NetInv, PoolAt, SafeUntilDestroyed, Destroying
<1> QED  BY <1>2, <1>3, <1>4, <1>5

\* All steps together.
LEMMA NetAlways == NetSpec => []NetInv
<1>1. ASSUME NetInv, [NetNext]_allVars PROVE NetInv'
  <2>1. CASE UNCHANGED allVars
    <3>1. UNCHANGED vars /\ UNCHANGED netVars
      BY <2>1 DEF allVars
    <3>2. PoolInv' /\ UNCHANGED <<t_pc, u_pc, crashed>>
      BY <1>1, <3>1, PoolUnchanged DEF NetInv, vars
    <3> QED  BY <1>1, <3>1, <3>2 DEF netVars, NetInv, LiveAt, StartedAt, PoolAt,
                  SafeUntilDestroyed, Destroying
  <2>2. CASE NetNext
    BY <1>1, <2>2, CreateSteps, ThreadSteps DEF NetNext, net_destroy
  <2> QED  BY <1>1, <2>1, <2>2
<1> QED  BY <1>1, NetInitInv, PTL DEF NetSpec

-----------------------------------------------------------------------------

\* workpool_stop joins the pool's threads before release_send_helper: no task ever
\* finds the send queue or the send thread's condition variable gone.
THEOREM TasksServed == NetSpec => []PoolThreadsServed
<1>1. NetInv => PoolThreadsServed
  BY DEF NetInv, LiveAt, PoolAt, PoolThreadsServed, Creating, Serving, Stopped, Helpers
<1> QED  BY <1>1, NetAlways, PTL

\* Whatever fails in net_create, no thread meets an object that does not exist until
\* net_destroy is called.
THEOREM NoCrashBeforeDestroy == NetSpec => []SafeUntilDestroyed
<1>1. NetInv => SafeUntilDestroyed
  BY DEF NetInv
<1> QED  BY <1>1, NetAlways, PTL

-----------------------------------------------------------------------------
(* The pool inside the server. *)

\* What the life of the server does to the pool is a step of the pool, or the
\* crash of a thread that is not the pool's.
LEMMA NetStep ==
  ASSUME [NetNext]_allVars
  PROVE  [Next]_vars \/ UNCHANGED <<exit_sem, queue, t_pc, element, u_pc, released>>
<1>1. CASE UNCHANGED allVars
  BY <1>1 DEF allVars
<1>2. CASE net_create \/ net_start \/ ListenFails
  BY <1>2 DEF ListenFails, net_create, net_start, Socket, SocketFails, epoll_create, EpollFails, CreateObjects,
              StartSend, workpool_start, StartLoop, StartListen, Step, Start
<1>3. CASE workpool_stop
  BY <1>3 DEF workpool_stop, Next
<1>4. CASE release_recv_helper \/ release_send_helper \/ release_conn_table \/ Free
  BY <1>4 DEF release_recv_helper, release_send_helper, release_conn_table, Free, Step
<1>5. CASE \E h \in {"send", "loop", "listen"} : UseFreed(h)
  BY <1>5 DEF UseFreed
<1>6. CASE LoopPush \/ \E t \in Thread : PoolRun(t) \/ PoolWakeup(t)
  BY <1>6 DEF LoopPush, PoolRun, PoolWakeup, Next
<1> QED
  BY <1>1, <1>2, <1>3, <1>4, <1>5, <1>6 DEF NetNext, net_destroy

\* With the event loop still pushing while net_destroy stops the pool, and with
\* threads that are never told to stop, the pool still frees no task twice or
\* while it is used, loses no wakeup and keeps its queue within the limit.
THEOREM PoolSafeInServer == NetSpec => [](TypeOK /\ ReleasedOnce /\ SleepOnlyWhenEmpty /\ QueueBound)
<1> DEFINE Rest == SleepOnlyWhenEmpty /\ QueueBound
<1>1. NetInit => Rest
  BY PoolAssumption DEF NetInit, threadpool_init, SleepOnlyWhenEmpty, QueueBound
<1>2. ASSUME TypeOK, Rest, [NetNext]_allVars PROVE Rest'
  <2>1. CASE [Next]_vars
    BY <1>2, <2>1, SleepNext, BoundNext
  <2>2. CASE UNCHANGED <<exit_sem, queue, t_pc, element, u_pc, released>>
    BY <1>2, <2>2 DEF SleepOnlyWhenEmpty, QueueBound
  <2> QED  BY <1>2, <2>1, <2>2, NetStep
<1>3. NetInv => TypeOK /\ ReleasedOnce
  BY DEF NetInv, PoolInv
<1> QED  BY <1>1, <1>2, <1>3, NetAlways, PTL DEF NetSpec

\* The server's pool implements the abstract work pool throughout the server's
\* life, from net_create to net_destroy.
THEOREM ServerPoolImplements == NetSpec => ImplementsWorkPool
<1>1. NetInit => Pool!Init
  BY PoolInitMaps DEF NetInit, Init
<1>2. ASSUME NetInv, [NetNext]_allVars PROVE [Pool!Next]_(Pool!vars)
  <2>1. CASE [Next]_vars
    BY <1>2, <2>1, PoolStepMaps DEF NetInv
  <2>2. CASE UNCHANGED <<exit_sem, queue, t_pc, element, u_pc, released>>
    BY <2>2 DEF Pool!vars
  <2> QED  BY <1>2, <2>1, <2>2, NetStep
<1>3. NetSpec => Pool!Spec
  BY <1>1, <1>2, NetAlways, PTL DEF NetSpec, Pool!Spec
<1> QED  BY <1>3 DEF ImplementsWorkPool
=============================================================================
