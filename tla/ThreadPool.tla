----------------------------- MODULE ThreadPool -----------------------------
(***************************************************************************)
(* The thread pool of src/third/threadpool/threadpool.c over the queue of  *)
(* src/third/queue/Gqueue.c: its threads, the callers that push work, and  *)
(* the shutdown.  What happens between uv_mutex_lock and the unlock (or    *)
(* the uv_cond_wait that gives the mutex up) is one step; the operations   *)
(* on the exit semaphore, which take no lock, are steps of their own.      *)
(***************************************************************************)
EXTENDS Integers, Sequences, FiniteSets

CONSTANTS
  Thread,     \* tp->threads
  Job,        \* the tasks the callers push, each once
  NoJob,      \* not a task
  NULL,       \* tp->queue after the shutdown
  LIMIT,      \* the 64 of threadpool_push_work
  LatePush    \* may callers still push while the pool is being shut down?

ASSUME PoolAssumption ==
  /\ NoJob \notin Job
  /\ NULL \notin Seq(Job)
  /\ LIMIT \in Nat
  /\ LatePush \in BOOLEAN

VARIABLES
  exit_sem,   \* value of the exit semaphore
  queue,      \* tp->queue
  t_pc,       \* where each thread is
  element,    \* its local element
  u_pc,       \* where threadpool_uninit is
  released,   \* how often after_proc, which frees it, was called for a task
  crashed     \* has somebody used the queue after it was freed?

vars == <<exit_sem, queue, t_pc, element, u_pc, released, crashed>>

ThreadPC == {"trywait", "post", "pop", "waiting", "proc", "after", "exited"}
UninitPC == {"up", "clear", "join", "done"}

threadpool_init ==
  /\ exit_sem = 0
  /\ queue = <<>>
  /\ t_pc = [t \in Thread |-> "trywait"]
  /\ element = [t \in Thread |-> NoJob]
  /\ u_pc = "up"
  /\ released = [j \in Job |-> 0]
  /\ crashed = FALSE

\* Mutant: nobody is woken.
NobodyWoken == t_pc

\* uv_cond_broadcast: every waiting thread starts its loop over.
Woken == [t \in Thread |-> IF t_pc[t] = "waiting" THEN "trywait" ELSE t_pc[t]]

-----------------------------------------------------------------------------
(* thread_func *)

Goto(t, l) == t_pc' = [t_pc EXCEPT ![t] = l]

\* uv_sem_trywait takes the token that tells the threads to leave, if it is there.
TryWait(t) ==
  /\ t_pc[t] = "trywait"
  /\ IF exit_sem > 0
     THEN exit_sem' = exit_sem - 1 /\ Goto(t, "post")
     ELSE Goto(t, "pop") /\ UNCHANGED exit_sem
  /\ UNCHANGED <<queue, element, u_pc, released, crashed>>

\* A thread that leaves hands the token on to the next.
Leave(t) ==
  /\ t_pc[t] = "post"
  /\ exit_sem' = exit_sem + 1
  /\ Goto(t, "exited")
  /\ UNCHANGED <<queue, element, u_pc, released, crashed>>

\* Mutant: the queue's first element is read and stays.
PopKeeps(t) ==
  /\ t_pc[t] = "pop"
  /\ queue \notin {NULL, <<>>}
  /\ element' = [element EXCEPT ![t] = Head(queue)]
  /\ Goto(t, "proc")
  /\ UNCHANGED <<queue, exit_sem, u_pc, released, crashed>>

Pop(t) ==
  /\ t_pc[t] = "pop"
  /\ queue \notin {NULL, <<>>}
  /\ element' = [element EXCEPT ![t] = Head(queue)]
  /\ queue' = Tail(queue)
  /\ Goto(t, "proc")
  /\ UNCHANGED <<exit_sem, u_pc, released, crashed>>

\* Nothing to do: uv_cond_wait.
PopEmpty(t) ==
  /\ t_pc[t] = "pop"
  /\ queue = <<>>
  /\ Goto(t, "waiting")
  /\ UNCHANGED <<exit_sem, queue, element, u_pc, released, crashed>>

\* easy_queue_pop does not look whether there is a queue.
PopFreed(t) ==
  /\ t_pc[t] = "pop"
  /\ queue = NULL
  /\ crashed' = TRUE
  /\ UNCHANGED <<exit_sem, queue, t_pc, element, u_pc, released>>

\* uv_cond_wait may return although nobody signalled.
SpuriousWakeup(t) ==
  /\ t_pc[t] = "waiting"
  /\ Goto(t, "trywait")
  /\ UNCHANGED <<exit_sem, queue, element, u_pc, released, crashed>>

Proc(t) ==
  /\ t_pc[t] = "proc"
  /\ Goto(t, "after")
  /\ UNCHANGED <<exit_sem, queue, element, u_pc, released, crashed>>

AfterProc(t) ==
  /\ t_pc[t] = "after"
  /\ released' = [released EXCEPT ![element[t]] = @ + 1]
  /\ element' = [element EXCEPT ![t] = NoJob]
  /\ Goto(t, "trywait")
  /\ UNCHANGED <<exit_sem, queue, u_pc, crashed>>

thread_func(t) ==
  \/ TryWait(t) \/ Leave(t)
  \/ Pop(t) \/ PopEmpty(t) \/ PopFreed(t)
  \/ Proc(t) \/ AfterProc(t)

-----------------------------------------------------------------------------
(* threadpool_push_work *)

\* A task is allocated for one push; a push that is refused is tried again.
Unused(j) ==
  /\ released[j] = 0
  /\ queue # NULL => \A i \in DOMAIN queue : queue[i] # j
  /\ \A t \in Thread : element[t] # j

\* Mutant: the queue is not limited.
PushNoLimit(j) ==
  /\ u_pc = "up" \/ LatePush
  /\ Unused(j)
  /\ queue # NULL
  /\ queue' = Append(queue, j)
  /\ t_pc' = Woken
  /\ UNCHANGED <<exit_sem, element, u_pc, released, crashed>>

threadpool_push_work(j) ==
  /\ u_pc = "up" \/ LatePush
  /\ Unused(j)
  /\ queue # NULL /\ Len(queue) <= LIMIT
  /\ queue' = Append(queue, j)
  /\ t_pc' = Woken
  /\ UNCHANGED <<exit_sem, element, u_pc, released, crashed>>

PushFreed ==
  /\ LatePush
  /\ queue = NULL
  /\ crashed' = TRUE
  /\ UNCHANGED <<exit_sem, queue, t_pc, element, u_pc, released>>

-----------------------------------------------------------------------------
(* threadpool_uninit *)

CancelPost ==
  /\ u_pc = "up"
  /\ exit_sem' = exit_sem + 1
  /\ u_pc' = "clear"
  /\ UNCHANGED <<queue, t_pc, element, released, crashed>>

\* Mutant: the handler is not called for the elements that are freed.
ClearForgets == released

\* easy_queue_clear has queue_free_func call after_proc for every element.
easy_queue_clear ==
  [j \in Job |-> released[j] + Cardinality({i \in DOMAIN queue : queue[i] = j})]

\* Mutant: the pointer to the freed queue stays.
ClearDangling ==
  /\ u_pc = "clear"
  /\ t_pc' = Woken
  /\ released' = easy_queue_clear
  /\ queue' = <<>>
  /\ u_pc' = "join"
  /\ UNCHANGED <<exit_sem, element, crashed>>

\* Wake everybody; clear the queue and free it.
CancelClear ==
  /\ u_pc = "clear"
  /\ t_pc' = Woken
  /\ released' = easy_queue_clear
  /\ queue' = NULL
  /\ u_pc' = "join"
  /\ UNCHANGED <<exit_sem, element, crashed>>

\* All threads joined; the pool itself is freed.
CancelJoin ==
  /\ u_pc = "join"
  /\ \A t \in Thread : t_pc[t] = "exited"
  /\ u_pc' = "done"
  /\ UNCHANGED <<exit_sem, queue, t_pc, element, released, crashed>>

threadpool_uninit == CancelPost \/ CancelClear \/ CancelJoin

-----------------------------------------------------------------------------

Push == ~ crashed /\ (PushFreed \/ \E j \in Job : threadpool_push_work(j))

Run(t) == ~ crashed /\ thread_func(t)

Wakeup(t) == ~ crashed /\ SpuriousWakeup(t)

Uninit == ~ crashed /\ threadpool_uninit

Next ==
  \/ Push
  \/ Uninit
  \/ \E t \in Thread : Run(t) \/ Wakeup(t)

Init == threadpool_init

Spec == Init /\ [][Next]_vars

(***************************************************************************)
(* Threads that can run do run, tasks return, and a shutdown that has      *)
(* begun goes on.  Nobody needs to push or to shut the pool down.          *)
(***************************************************************************)
FairSpec ==
  /\ Spec
  /\ \A t \in Thread : WF_vars(Run(t))
  /\ WF_vars(Uninit /\ u_pc # "up")

-----------------------------------------------------------------------------
(* Properties *)

\* The pool's state has the shape its declarations give it; a thread that runs a
\* task has one.
TypeOK ==
  /\ exit_sem \in Nat
  /\ queue \in Seq(Job) \cup {NULL}
  /\ t_pc \in [Thread -> ThreadPC]
  /\ element \in [Thread -> Job \cup {NoJob}]
  /\ \A t \in Thread : element[t] # NoJob <=> t_pc[t] \in {"proc", "after"}
  /\ u_pc \in UninitPC
  /\ queue = NULL <=> u_pc \in {"join", "done"}
  /\ released \in [Job -> Nat]
  /\ crashed \in BOOLEAN

\* A task is never freed twice, and never while it waits or runs: between the
\* threads, and between them and the shutdown that frees what is left.
ReleasedOnce ==
  \A j \in Job :
    /\ released[j] <= 1
    /\ \A t \in Thread : element[t] = j => released[j] = 0
    /\ queue # NULL => \A i \in DOMAIN queue : queue[i] = j => released[j] = 0

\* No wakeup is lost: a thread sleeps only while there is nothing to do, and none
\* sleeps through the shutdown.
SleepOnlyWhenEmpty ==
  \A t \in Thread : t_pc[t] = "waiting" => queue = <<>>

\* The limit is checked before the push: at most one task more than it waits.
QueueBound == queue # NULL => Len(queue) <= LIMIT + 1

\* Every task that was pushed is freed in the end, also when the pool is shut
\* down, unless the process crashes.
EveryTaskReleased ==
  \A j \in Job : ~ Unused(j) ~> (released[j] = 1 \/ crashed)

\* A shutdown ends, unless it crashes: the token reaches every thread.
ShutdownEnds == u_pc = "clear" ~> (u_pc = "done" \/ crashed)

(***************************************************************************)
(* The pool implements the work pool of module WorkPool.  A crash is not a *)
(* step of it: nothing more happens.                                       *)
(***************************************************************************)
Pool == INSTANCE WorkPool WITH
  pending <- IF queue = NULL THEN <<>> ELSE queue,
  busy    <- element,
  done    <- {j \in Job : released[j] > 0},
  shut    <- queue = NULL

\* Every step of the code is a step of the work pool, or none of it: tasks are
\* taken in the order of the pushes, each by one thread, and freed once.
ImplementsWorkPool == Pool!Spec

-----------------------------------------------------------------------------
(* What a comment of the repository says, and the code does not do *)

\* ep_svr.c:406, "stop the thread pool": once the callers have stopped pushing,
\* the pool can be stopped without anybody using the freed queue.
StopsSafely == ~ crashed
=============================================================================
