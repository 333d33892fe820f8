------------------------------- MODULE Engine -------------------------------
(***************************************************************************)
(* The work pool of src/src/core/engine.c: the tasks that wait in the      *)
(* thread pool's queue and the pool threads that run work_proc on them.    *)
(* The pool's own mutex, condition variable and shutdown are the subject   *)
(* of module ThreadPool; here taking a task is one step.                   *)
(***************************************************************************)
EXTENDS SendHelper

CONSTANTS
  Worker,       \* the pool threads
  NoTask,       \* not a task
  POOL_LIMIT,   \* the 64 of threadpool_push_work
  HEAD_SIZE,    \* sizeof(net_pkg_t)
  NET_PACK_SIZE_LIMIT,  \* size of the buffer a handler writes its response to
  OutLen,       \* lengths of the response data a handler may produce
  MayDrop       \* may a handler return an error, so that no response is sent?

ASSUME EngineAssumption ==
  /\ POOL_LIMIT \in Nat
  /\ HEAD_SIZE \in Nat
  /\ MayDrop \in BOOLEAN
  /\ NET_PACK_SIZE_LIMIT \in Nat
  /\ HEAD_SIZE + NET_PACK_SIZE_LIMIT < NET_SEND_BUFF_SIZE
  /\ OutLen \subseteq 0 .. NET_PACK_SIZE_LIMIT

VARIABLES
  tasks,   \* the pool's queue
  w_pc,    \* what every pool thread is doing
  w_task   \* the task it works on

\* A task is a request together with the connection it was received on.
Task == [connid : CONNID, req : Response]

workpool_start ==
  /\ tasks  = <<>>
  /\ w_pc   = [w \in Worker |-> "idle"]
  /\ w_task = [w \in Worker |-> NoTask]

\* threadpool_push_work refuses a task when the queue holds more than 64.
PoolFull == Len(tasks) > POOL_LIMIT

workpool_push_work(c, r) ==
  /\ ~ PoolFull
  /\ tasks' = Append(tasks, [connid |-> c, req |-> r])

\* The length of the package create_pack puts around n bytes of data.
create_pack(n) == n + HEAD_SIZE

TakeWork(w) ==
  /\ w_pc[w] = "idle"
  /\ tasks # <<>>
  /\ tasks'  = Tail(tasks)
  /\ w_task' = [w_task EXCEPT ![w] = Head(tasks)]
  /\ w_pc'   = [w_pc EXCEPT ![w] = "run"]
  /\ UNCHANGED sendVars

\* The user's handler returns 0: its output, with the msgID of the request, is
\* queued for the connection the request came from.
work_proc_push(w, n) ==
  /\ w_pc[w] = "run"
  /\ QSend_push(w_task[w].connid, w_task[w].req, create_pack(n))
  /\ w_pc' = [w_pc EXCEPT ![w] = "signal"]
  /\ UNCHANGED <<tasks, w_task, s_pc, s_connid, s_fd>>

\* The handler returns an error, or there is none: no response.
work_proc_drop(w) ==
  /\ MayDrop
  /\ w_pc[w] = "run"
  /\ w_pc'   = [w_pc EXCEPT ![w] = "idle"]
  /\ w_task' = [w_task EXCEPT ![w] = NoTask]
  /\ UNCHANGED <<tasks, sendVars>>

\* Wake the send thread; then thread_completed releases the task.
work_proc_signal(w) ==
  /\ w_pc[w] = "signal"
  /\ send_signal
  /\ w_pc'   = [w_pc EXCEPT ![w] = "idle"]
  /\ w_task' = [w_task EXCEPT ![w] = NoTask]
  /\ UNCHANGED <<tasks, m_list, s_connid, s_fd>>

WorkerNext(w) ==
  \/ TakeWork(w)
  \/ \E n \in OutLen : work_proc_push(w, n)
  \/ work_proc_drop(w)
  \/ work_proc_signal(w)

EngineTypeOK ==
  /\ tasks \in Seq(Task)
  /\ w_pc \in [Worker -> {"idle", "run", "signal"}]
  /\ w_task \in [Worker -> Task \cup {NoTask}]
  /\ \A w \in Worker : w_pc[w] # "idle" => w_task[w] \in Task
=============================================================================
