----------------------------- MODULE EpSvrQueue -----------------------------
(***************************************************************************)
(* The path of a request through the pool and of its response through the  *)
(* send queue.  Where everything in them comes from is established once,   *)
(* for all steps; the theorems about entries build on it.                  *)
(***************************************************************************)
EXTENDS EpSvrTypes

USE DEF Fd, NoFd

\* What is left after erasing entries was there before.
LEMMA KeepOnlyOrigin ==
  ASSUME m_list \in Seq(Entry), NEW K \in SUBSET DOMAIN m_list, KeepOnly(K),
         NEW i \in DOMAIN m_list'
  PROVE  \E j \in DOMAIN m_list : m_list'[i] = m_list[j]
<1>1. PICK f \in [1 .. Cardinality(K) -> K] : m_list' = [k \in DOMAIN f |-> m_list[f[k]]]
  BY DEF KeepOnly
<1>2. i \in DOMAIN f /\ m_list'[i] = m_list[f[i]]
  BY <1>1
<1>3. f[i] \in DOMAIN m_list
  BY <1>2
<1> QED  BY <1>2, <1>3

NewEntry(c, x, len) == [conn_id |-> c, data |-> <<x>>, size |-> len]

MergedEntry(c, x, len) ==
  [conn_id |-> c, data |-> Append(m_list[1].data, x), size |-> m_list[1].size + len]

\* QSend_push adds one entry or extends the first.
LEMMA PushOrigin ==
  ASSUME m_list \in Seq(Entry),
         NEW c, NEW x, NEW len, QSend_push(c, x, len), NEW i \in DOMAIN m_list'
  PROVE  \/ \E j \in DOMAIN m_list : m_list'[i] = m_list[j]
         \/ m_list'[i] = NewEntry(c, x, len)
         \/ /\ 1 \in DOMAIN m_list
            /\ m_list[1].conn_id = c
            /\ m_list[1].size + len < NET_SEND_BUFF_SIZE
            /\ m_list'[i] = MergedEntry(c, x, len)
<1>1. CASE m_list' = Append(m_list, NewEntry(c, x, len))
  <2>1. \/ i \in DOMAIN m_list /\ m_list'[i] = m_list[i]
        \/ m_list'[i] = NewEntry(c, x, len)
    BY <1>1
  <2> QED  BY <2>1
<1>2. CASE /\ m_list # <<>>
           /\ m_list[1].conn_id = c
           /\ m_list[1].size + len < NET_SEND_BUFF_SIZE
           /\ m_list' = [m_list EXCEPT ![1] = MergedEntry(c, x, len)]
  <2>1. 1 \in DOMAIN m_list /\ i \in DOMAIN m_list
    BY <1>2
  <2>2. i # 1 => m_list'[i] = m_list[i]
    BY <1>2, <2>1
  <2>3. i = 1 => m_list'[i] = MergedEntry(c, x, len)
    BY <1>2, <2>1
  <2> QED  BY <1>2, <2>1, <2>2, <2>3
<1> QED  BY <1>1, <1>2 DEF QSend_push, NewEntry, MergedEntry

\* A pool thread at work puts the response to its task into the queue.
Pushes(w, n) == w_pc[w] = "run" /\ QSend_push(w_task[w].connid, w_task[w].req, create_pack(n))

\* In every step of the server, the queue stays as it is, or entries are erased
\* from it, or a pool thread pushes one response.
LEMMA QueueChange ==
  ASSUME [Next]_vars
  PROVE  \/ UNCHANGED m_list
         \/ \E K \in SUBSET DOMAIN m_list : KeepOnly(K)
         \/ \E w \in Worker, n \in OutLen : Pushes(w, n)
<1> USE DEF sendVars
<1>1. CASE UNCHANGED vars
  BY <1>1 DEF vars
<1>2. CASE Listen
  BY <1>2 DEF Listen, listen, Accept, Insert, Add, AddFails, Undo
<1>3. CASE Clients
  BY <1>3 DEF Clients
<1>4. CASE send_func \/ Wakeup
  <2>1. CASE SendRmQueue
    BY <2>1 DEF SendRmQueue, QSend_remove_all_by_connid
  <2> QED
    BY <1>4, <2>1 DEF send_func, QueueStep, SendFront, send_wait, SendLookup, SendMod,
                      SendModFails, SendRmConn, Wakeup, SpuriousWakeup
<1>5. ASSUME NEW w \in Worker, PoolThread(w)
      PROVE  UNCHANGED m_list \/ \E n \in OutLen : Pushes(w, n)
  BY <1>5 DEF PoolThread, WorkerNext, TakeWork, work_proc_push, work_proc_drop,
              work_proc_signal, Pushes
<1>6. CASE Loop
  <2>1. CASE InRmQueue
    BY <2>1 DEF InRmQueue, QSend_remove_all_by_connid
  <2>2. CASE OutPop
    BY <2>2 DEF OutPop, QSend_pop_first
  <2>3. CASE OutPopFails
    BY <2>3 DEF OutPopFails, QSend_pop_first_fails
  <2>4. CASE EpollWait \/ Dispatch
    BY <2>4 DEF EpollWait, Dispatch
  <2>5. CASE InFind \/ InRecv \/ InPush \/ InAgain \/ InError \/ InEof \/ InRmConn \/ InClose
    BY <2>5 DEF InFind, InRecv, InPush, InAgain, InError, InEof, InRmConn, InClose
  <2>6. CASE OutFind \/ OutSend \/ OutSendError \/ OutMod
    BY <2>6 DEF OutFind, OutSend, OutSendError, OutMod
  <2> QED
    BY <1>6, <2>1, <2>2, <2>3, <2>4, <2>5, <2>6
    DEF Loop, handle_EPOLLIN_event, handle_EPOLLOUT_event
<1> QED  BY <1>1, <1>2, <1>3, <1>4, <1>5, <1>6 DEF Next

\* An entry after a step was there before, or is a response alone, or a
\* response added to the first entry, which was for the same connection.
LEMMA EntryOrigin ==
  ASSUME TypeOK, [Next]_vars, NEW i \in DOMAIN m_list'
  PROVE  \/ \E j \in DOMAIN m_list : m_list'[i] = m_list[j]
         \/ \E w \in Worker, n \in OutLen :
              /\ w_pc[w] = "run"
              /\ m_list'[i] = NewEntry(w_task[w].connid, w_task[w].req, create_pack(n))
         \/ \E w \in Worker, n \in OutLen :
              /\ w_pc[w] = "run"
              /\ 1 \in DOMAIN m_list
              /\ m_list[1].conn_id = w_task[w].connid
              /\ m_list[1].size + create_pack(n) < NET_SEND_BUFF_SIZE
              /\ m_list'[i] = MergedEntry(w_task[w].connid, w_task[w].req, create_pack(n))
<1>0. m_list \in Seq(Entry)
  BY DEF TypeOK, SendTypeOK
<1>1. CASE UNCHANGED m_list
  BY <1>1
<1>2. CASE \E K \in SUBSET DOMAIN m_list : KeepOnly(K)
  BY <1>0, <1>2, KeepOnlyOrigin
<1>3. ASSUME NEW w \in Worker, NEW n \in OutLen, Pushes(w, n)
      PROVE  \/ \E j \in DOMAIN m_list : m_list'[i] = m_list[j]
             \/ m_list'[i] = NewEntry(w_task[w].connid, w_task[w].req, create_pack(n))
             \/ /\ 1 \in DOMAIN m_list
                /\ m_list[1].conn_id = w_task[w].connid
                /\ m_list[1].size + create_pack(n) < NET_SEND_BUFF_SIZE
                /\ m_list'[i] = MergedEntry(w_task[w].connid, w_task[w].req, create_pack(n))
  BY <1>0, <1>3, PushOrigin DEF Pushes
<1>4. ASSUME NEW w \in Worker, NEW n \in OutLen, Pushes(w, n) PROVE w_pc[w] = "run"
  BY <1>4 DEF Pushes
<1> QED  BY <1>1, <1>2, <1>3, <1>4, QueueChange

-----------------------------------------------------------------------------

\* Only QSend_push makes an entry longer, and it looks at the size before.
LEMMA FitsNext == TypeOK /\ EntryFits /\ [Next]_vars => EntryFits'
<1> SUFFICES ASSUME TypeOK, EntryFits, [Next]_vars, NEW i \in DOMAIN m_list'
             PROVE  m_list'[i].size <= NET_SEND_BUFF_SIZE
  BY DEF EntryFits
<1>1. ASSUME NEW n \in OutLen PROVE create_pack(n) \in Nat /\ create_pack(n) < NET_SEND_BUFF_SIZE
  <2>1. n \in 0 .. NET_PACK_SIZE_LIMIT
    BY EngineAssumption
  <2>2. /\ NET_PACK_SIZE_LIMIT \in Nat /\ HEAD_SIZE \in Nat /\ NET_SEND_BUFF_SIZE \in Nat
        /\ HEAD_SIZE + NET_PACK_SIZE_LIMIT < NET_SEND_BUFF_SIZE
    BY EngineAssumption, SendAssumption
  <2> QED  BY <2>1, <2>2 DEF create_pack
<1>2. CASE \E j \in DOMAIN m_list : m_list'[i] = m_list[j]
  BY <1>2 DEF EntryFits
<1>3. CASE \E w \in Worker, n \in OutLen :
             m_list'[i] = NewEntry(w_task[w].connid, w_task[w].req, create_pack(n))
  BY <1>1, <1>3, SendAssumption DEF NewEntry
<1>4. CASE \E w \in Worker, n \in OutLen :
             /\ 1 \in DOMAIN m_list
             /\ m_list[1].size + create_pack(n) < NET_SEND_BUFF_SIZE
             /\ m_list'[i] = MergedEntry(w_task[w].connid, w_task[w].req, create_pack(n))
  <2>1. PICK w \in Worker, n \in OutLen :
             /\ 1 \in DOMAIN m_list
             /\ m_list[1].size + create_pack(n) < NET_SEND_BUFF_SIZE
             /\ m_list'[i] = MergedEntry(w_task[w].connid, w_task[w].req, create_pack(n))
    BY <1>4
  <2>2. m_list[1] \in Entry
    BY <2>1 DEF TypeOK, SendTypeOK
  <2>3. m_list[1].size \in Nat
    BY <2>2 DEF Entry
  <2> QED  BY <1>1, <2>1, <2>3, SendAssumption DEF MergedEntry
<1> QED  BY <1>2, <1>3, <1>4, EntryOrigin

\* Whatever the handlers answer within the limit, every entry of the send queue
\* fits in the buffer of handle_EPOLLOUT_event: QSend_pop_first refuses none.
THEOREM EntriesFit == Spec => []EntryFits
<1>1. Init => EntryFits
  BY DEF Init, create_send_helper, EntryFits
<1> QED  BY <1>1, FitsNext, TypeCorrect, PTL DEF Spec

-----------------------------------------------------------------------------
(* The pool. *)

\* A task after a step was waiting before, or is the package the loop has just
\* parsed, with the connection it serves.
LEMMA TaskOrigin ==
  ASSUME TypeOK, [Next]_vars, NEW i \in DOMAIN tasks'
  PROVE  \/ \E j \in DOMAIN tasks : tasks'[i] = tasks[j]
         \/ l_pc = "push" /\ tasks'[i] = [connid |-> l_id, req |-> Head(l_reqs)]
<1>0. tasks \in Seq(Task)
  BY DEF TypeOK, EngineTypeOK
<1> USE DEF workVars
<1>1. CASE UNCHANGED tasks
  BY <1>1
<1>2. CASE UNCHANGED vars
  BY <1>1, <1>2 DEF vars
<1>3. CASE Listen
  BY <1>1, <1>3 DEF Listen, listen, Accept, Insert, Add, AddFails, Undo
<1>4. CASE Clients
  BY <1>1, <1>4 DEF Clients
<1>5. CASE send_func \/ Wakeup
  BY <1>1, <1>5 DEF send_func, QueueStep, SendLookup, SendMod, SendModFails, SendRmQueue,
                    SendRmConn, Wakeup
<1>6. ASSUME NEW w \in Worker, PoolThread(w)
      PROVE  \E j \in DOMAIN tasks : tasks'[i] = tasks[j]
  <2>1. CASE TakeWork(w)
    <3>1. tasks # <<>> /\ tasks' = Tail(tasks)
      BY <2>1 DEF TakeWork
    <3>2. i + 1 \in DOMAIN tasks /\ tasks'[i] = tasks[i + 1]
      BY <1>0, <3>1
    <3> QED  BY <3>2
  <2>2. CASE UNCHANGED tasks
    BY <2>2
  <2> QED
    BY <1>6, <2>1, <2>2
    DEF PoolThread, WorkerNext, work_proc_push, work_proc_drop, work_proc_signal
<1>7. CASE Loop
  <2>1. CASE InPush
    <3>1. tasks' = Append(tasks, [connid |-> l_id, req |-> Head(l_reqs)]) /\ l_pc = "push"
      BY <2>1 DEF InPush, workpool_push_work
    <3>2. \/ i \in DOMAIN tasks /\ tasks'[i] = tasks[i]
          \/ tasks'[i] = [connid |-> l_id, req |-> Head(l_reqs)]
      BY <1>0, <3>1
    <3> QED  BY <3>1, <3>2
  <2>2. CASE EpollWait \/ Dispatch
    BY <1>1, <2>2 DEF EpollWait, Dispatch
  <2>3. CASE InFind \/ InRecv \/ InAgain \/ InError \/ InEof \/ InRmQueue \/ InRmConn \/ InClose
    BY <1>1, <2>3 DEF InFind, InRecv, InAgain, InError, InEof, InRmQueue, InRmConn, InClose
  <2>4. CASE handle_EPOLLOUT_event
    BY <1>1, <2>4 DEF handle_EPOLLOUT_event, OutFind, OutPop, OutPopFails, OutSend,
                      OutSendError, OutMod
  <2> QED  BY <1>7, <2>1, <2>2, <2>3, <2>4 DEF Loop, handle_EPOLLIN_event
<1> QED  BY <1>2, <1>3, <1>4, <1>5, <1>6, <1>7 DEF Next

\* A busy pool thread keeps its task; a thread that becomes busy took one that
\* was waiting.
LEMMA WorkOrigin ==
  ASSUME TypeOK, [Next]_vars, NEW w \in Worker, w_pc'[w] # "idle"
  PROVE  \/ w_pc[w] # "idle" /\ w_task'[w] = w_task[w]
         \/ \E j \in DOMAIN tasks : w_task'[w] = tasks[j]
<1> USE DEF workVars
<1>1. CASE UNCHANGED <<w_pc, w_task>>
  BY <1>1
<1>2. CASE UNCHANGED vars
  BY <1>1, <1>2 DEF vars
<1>3. CASE Listen
  BY <1>1, <1>3 DEF Listen, listen, Accept, Insert, Add, AddFails, Undo
<1>4. CASE Clients
  BY <1>1, <1>4 DEF Clients
<1>5. CASE send_func \/ Wakeup
  BY <1>1, <1>5 DEF send_func, QueueStep, SendLookup, SendMod, SendModFails, SendRmQueue,
                    SendRmConn, Wakeup
<1>6. CASE Loop
  <2>1. CASE EpollWait \/ Dispatch
    BY <1>1, <2>1 DEF EpollWait, Dispatch
  <2>2. CASE handle_EPOLLIN_event
    BY <1>1, <2>2 DEF handle_EPOLLIN_event, InFind, InRecv, InPush, InAgain, InError, InEof,
                      InRmQueue, InRmConn, InClose
  <2>3. CASE handle_EPOLLOUT_event
    BY <1>1, <2>3 DEF handle_EPOLLOUT_event, OutFind, OutPop, OutPopFails, OutSend,
                      OutSendError, OutMod
  <2> QED  BY <1>6, <2>1, <2>2, <2>3 DEF Loop
<1>7. ASSUME NEW v \in Worker, PoolThread(v)
      PROVE  \/ w_pc[w] # "idle" /\ w_task'[w] = w_task[w]
             \/ \E j \in DOMAIN tasks : w_task'[w] = tasks[j]
  <2>0. w_pc \in [Worker -> {"idle", "run", "signal"}] /\ w_task \in [Worker -> Task \cup {NoTask}]
    BY DEF TypeOK, EngineTypeOK
  <2>1. CASE TakeWork(v)
    <3>1. 1 \in DOMAIN tasks /\ Head(tasks) = tasks[1]
      BY <2>1 DEF TakeWork, TypeOK, EngineTypeOK
    <3>2. w = v => w_task'[w] = Head(tasks)
      BY <2>0, <2>1 DEF TakeWork
    <3>3. w # v => w_pc'[w] = w_pc[w] /\ w_task'[w] = w_task[w]
      BY <2>0, <2>1 DEF TakeWork
    <3> QED  BY <3>1, <3>2, <3>3
  <2>2. ASSUME NEW n \in OutLen, work_proc_push(v, n)
        PROVE  w_pc[w] # "idle" /\ w_task'[w] = w_task[w]
    BY <2>0, <2>2 DEF work_proc_push
  <2>3. CASE work_proc_drop(v) \/ work_proc_signal(v)
    BY <2>0, <2>3 DEF work_proc_drop, work_proc_signal
  <2> QED  BY <1>7, <2>1, <2>2, <2>3 DEF PoolThread, WorkerNext
<1> QED  BY <1>2, <1>3, <1>4, <1>5, <1>6, <1>7 DEF Next
=============================================================================
