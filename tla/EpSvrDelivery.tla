---------------------------- MODULE EpSvrDelivery ----------------------------
(***************************************************************************)
(* The whole way of a request, from the client's socket through the loop,  *)
(* the pool and the send queue and back: the identifier it travels under   *)
(* is a real one and belongs to the client; it is in one place at most; as *)
(* long as the client is connected it is in one; and so what clients see   *)
(* is the abstract Service.                                                *)
(***************************************************************************)
EXTENDS EpSvrSafety

USE DEF Fd, NoFd

-----------------------------------------------------------------------------
(* The reserved identifier. *)

(***************************************************************************)
(* SVR_INVALID_CONNECT_ID, which stands for "no entry" at the head of the  *)
(* queue, is never in the table; so the loop never serves it, and no task  *)
(* and no entry carries it.                                                *)
(***************************************************************************)
IdInv ==
  /\ ~ InTable(SVR_INVALID_CONNECT_ID)
  /\ Serving => l_id # SVR_INVALID_CONNECT_ID
  /\ \A i \in DOMAIN tasks : tasks[i].connid # SVR_INVALID_CONNECT_ID
  /\ \A w \in Worker : w_pc[w] # "idle" => w_task[w].connid # SVR_INVALID_CONNECT_ID
  /\ \A i \in DOMAIN m_list : m_list[i].conn_id # SVR_INVALID_CONNECT_ID

\* conn_insert does not use the reserved identifier.
LEMMA ReservedNotInserted ==
  ASSUME TypeOK, [Next]_vars, ~ InTable(SVR_INVALID_CONNECT_ID)
  PROVE  ~ InTable(SVR_INVALID_CONNECT_ID)'
<1> USE ConnAssumption DEF connVars, InTable, TypeOK, ConnTypeOK
<1>1. CASE UNCHANGED conn_map
  BY <1>1
<1>2. ASSUME NEW c \in CONNID, conn_remove(c) PROVE ~ InTable(SVR_INVALID_CONNECT_ID)'
  BY <1>2 DEF conn_remove
<1>3. CASE Insert
  BY <1>3 DEF Insert, conn_insert
<1>4. CASE listen \/ Accept \/ Add \/ AddFails
  BY <1>1, <1>4 DEF listen, Accept, Add, AddFails
<1>5. CASE Undo
  BY <1>2, <1>5 DEF Undo, LisTypeOK, LisBusy
<1>6. CASE EpollWait \/ Dispatch
  BY <1>1, <1>6 DEF EpollWait, Dispatch
<1>7. CASE InRmConn
  BY <1>2, <1>7 DEF InRmConn, LoopTypeOK
<1>8. CASE InFind \/ InRecv \/ InPush \/ InAgain \/ InError \/ InEof \/ InRmQueue \/ InClose
  BY <1>1, <1>8 DEF InFind, InRecv, InPush, InAgain, InError, InEof, InRmQueue, InClose
<1>9. CASE handle_EPOLLOUT_event
  BY <1>1, <1>9 DEF handle_EPOLLOUT_event, OutFind, OutPop, OutPopFails, OutSend,
                    OutSendError, OutMod
<1>10. CASE SendRmConn
  BY <1>2, <1>10 DEF SendRmConn, SendTypeOK
<1>11. CASE QueueStep \/ SendLookup \/ SendMod \/ SendModFails \/ SendRmQueue \/ Wakeup
  BY <1>1, <1>11 DEF QueueStep, SendLookup, SendMod, SendModFails, SendRmQueue, Wakeup
<1>12. CASE Clients \/ UNCHANGED vars \/ \E w \in Worker : PoolThread(w)
  BY <1>1, <1>12 DEF Clients, PoolThread, vars
<1> HIDE DEF connVars, InTable, TypeOK, ConnTypeOK
<1> QED
  BY <1>3, <1>4, <1>5, <1>6, <1>7, <1>8, <1>9, <1>10, <1>11, <1>12
  DEF Next, Listen, Loop, handle_EPOLLIN_event, send_func

\* The conjuncts of IdInv follow a request from place to place.
LEMMA IdNext == TypeOK /\ IdInv /\ [Next]_vars => IdInv'
<1> SUFFICES ASSUME TypeOK, IdInv, [Next]_vars PROVE IdInv'
  OBVIOUS
<1>1. ~ InTable(SVR_INVALID_CONNECT_ID)'
  BY ReservedNotInserted DEF IdInv
<1>2. Serving' => l_id' # SVR_INVALID_CONNECT_ID
  BY ServeOrigin DEF IdInv
<1>3. ASSUME NEW i \in DOMAIN tasks' PROVE tasks'[i].connid # SVR_INVALID_CONNECT_ID
  <2>1. CASE \E j \in DOMAIN tasks : tasks'[i] = tasks[j]
    BY <2>1 DEF IdInv
  <2>2. CASE l_pc = "push" /\ tasks'[i] = [connid |-> l_id, req |-> Head(l_reqs)]
    BY <2>2 DEF IdInv, Serving, InPC
  <2> QED  BY <2>1, <2>2, TaskOrigin
<1>4. ASSUME NEW w \in Worker, w_pc'[w] # "idle"
      PROVE  w_task'[w].connid # SVR_INVALID_CONNECT_ID
  BY <1>4, WorkOrigin DEF IdInv
<1>5. ASSUME NEW i \in DOMAIN m_list' PROVE m_list'[i].conn_id # SVR_INVALID_CONNECT_ID
  <2>1. CASE \E j \in DOMAIN m_list : m_list'[i] = m_list[j]
    BY <2>1 DEF IdInv
  <2>2. CASE \E w \in Worker, n \in OutLen :
               /\ w_pc[w] = "run"
               /\ \/ m_list'[i] = NewEntry(w_task[w].connid, w_task[w].req, create_pack(n))
                  \/ m_list'[i] = MergedEntry(w_task[w].connid, w_task[w].req, create_pack(n))
    BY <2>2 DEF IdInv, NewEntry, MergedEntry
  <2> QED  BY <2>1, <2>2, EntryOrigin
<1> QED  BY <1>1, <1>2, <1>3, <1>4, <1>5 DEF IdInv

\* The reserved identifier is nowhere, throughout.
LEMMA IdAlways == Spec => []IdInv
<1>1. Init => IdInv
  BY ConnAssumption
  DEF Init, create_conn_table, create_send_helper, workpool_start, IdInv, InTable, Serving,
      InPC, OutPC
<1> QED  BY <1>1, IdNext, TypeCorrect, PTL DEF Spec

\* The send thread never takes a queue with something in it for an empty one, so
\* it only ever goes to sleep after it has seen the queue empty.
THEOREM SleepSafe == Spec => SleepOnlyWhenEmpty
<1>1. ASSUME TypeOK, IdInv, [Next]_vars
      PROVE  [s_pc = "front" /\ s_pc' = "prewait" => m_list = <<>>]_vars
  <2> SUFFICES ASSUME s_pc = "front", s_pc' = "prewait" PROVE m_list = <<>>
    OBVIOUS
  <2>1. CASE SendFront
    <3>1. QSend_connid_of_front = SVR_INVALID_CONNECT_ID
      BY <2>1 DEF SendFront
    <3>2. m_list # <<>> => 1 \in DOMAIN m_list
      BY <1>1 DEF TypeOK, SendTypeOK
    <3>3. m_list # <<>> => m_list[1].conn_id # SVR_INVALID_CONNECT_ID
      BY <1>1, <3>2 DEF IdInv
    <3> QED  BY <3>1, <3>3 DEF QSend_connid_of_front
  <2>2. CASE UNCHANGED s_pc
    BY <2>2
  <2> QED
    BY <1>1, <2>1, <2>2
    DEF Next, vars, sendVars, Listen, listen, Accept, Insert, Add, AddFails, Undo,
        Loop, EpollWait, Dispatch, handle_EPOLLIN_event, handle_EPOLLOUT_event,
        InFind, InRecv, InPush, InAgain, InError, InEof, InRmQueue, InRmConn, InClose,
        OutFind, OutPop, OutPopFails, OutSend, OutSendError, OutMod,
        send_func, QueueStep, send_wait, SendLookup, SendMod, SendModFails, SendRmQueue,
        SendRmConn, SendAgain, Wakeup, SpuriousWakeup, Clients,
        PoolThread, WorkerNext, TakeWork, work_proc_push, work_proc_drop, work_proc_signal,
        send_signal
<1> QED  BY <1>1, IdAlways, TypeCorrect, PTL DEF Spec, SleepOnlyWhenEmpty

-----------------------------------------------------------------------------
(* The client a response goes to. *)

\* A client puts its own requests into its socket.
OwnRequests == \A k \in Client : \A i \in DOMAIN rx[k] : rx[k][i].from = k

(***************************************************************************)
(* Wherever a request or a response is, the identifier it is filed under   *)
(* was issued to the client it comes from.                                 *)
(***************************************************************************)
RouteInv ==
  /\ OwnRequests
  /\ l_pc = "push" => \A i \in DOMAIN l_reqs : l_reqs[i].from = owner[l_id]
  /\ \A i \in DOMAIN tasks : tasks[i].req.from = owner[tasks[i].connid]
  /\ \A w \in Worker : w_pc[w] # "idle" => w_task[w].req.from = owner[w_task[w].connid]
  /\ \A i \in DOMAIN m_list : \A j \in DOMAIN m_list[i].data :
       m_list[i].data[j].from = owner[m_list[i].conn_id]
  /\ l_pc = "send" => \A i \in DOMAIN l_data : l_data[i].from = owner[l_id]
  /\ RightClient

\* What is in the receive buffer of a client's socket was sent by the client.
LEMMA RouteRx ==
  ASSUME TypeOK, OwnRequests, [Next]_vars
  PROVE  OwnRequests'
<1> USE DEF sockVars, peerVars
<1>0. rx \in [Client -> Seq(Request)]
  BY DEF TypeOK, SockTypeOK
<1>1. CASE UNCHANGED rx
  BY <1>1 DEF OwnRequests
<1>2. ASSUME NEW k \in Client, ClientSend(k)
      PROVE  OwnRequests'
  <2>1. PICK r : r = [from |-> k, n |-> nsent[k] + 1]
    OBVIOUS
  <2>2. rx' = [rx EXCEPT ![k] = Append(rx[k], r)]
    BY <1>2, <2>1 DEF ClientSend
  <2>3. \A c \in Client : c # k => rx'[c] = rx[c]
    BY <1>0, <2>2
  <2>4. rx'[k] = Append(rx[k], r)
    BY <1>0, <2>2
  <2>5. r.from = k
    BY <2>1
  <2>6. \A i \in DOMAIN rx'[k] : rx'[k][i] = r \/ (i \in DOMAIN rx[k] /\ rx'[k][i] = rx[k][i])
    BY <1>0, <2>4
  <2> QED  BY <2>3, <2>5, <2>6 DEF OwnRequests
<1>3. CASE Clients
  BY <1>1, <1>2, <1>3 DEF Clients, ClientNext, ClientConnect, ClientRead, ClientClose, ClientReset
<1>4. CASE InRecv
  <2>1. PICK k \in Client : \E m \in 1 .. Len(rx[k]) :
          rx' = [rx EXCEPT ![k] = SubSeq(rx[k], m + 1, Len(rx[k]))]
    BY <1>4 DEF InRecv
  <2>2. PICK m \in 1 .. Len(rx[k]) : rx' = [rx EXCEPT ![k] = SubSeq(rx[k], m + 1, Len(rx[k]))]
    BY <2>1
  <2>3. \A c \in Client : c # k => rx'[c] = rx[c]
    BY <1>0, <2>2
  <2>4. rx'[k] = SubSeq(rx[k], m + 1, Len(rx[k]))
    BY <1>0, <2>2
  <2>5. rx[k] \in Seq(Request) /\ Len(rx[k]) \in Nat
    BY <1>0
  <2>6. \A i \in DOMAIN rx'[k] : m + i \in DOMAIN rx[k] /\ rx'[k][i] = rx[k][m + i]
    BY <2>4, <2>5
  <2> QED  BY <2>3, <2>6 DEF OwnRequests
<1>5. CASE Listen
  BY <1>1, <1>5 DEF Listen, listen, Accept, Insert, Add, AddFails, Undo, accept, epoll_ctl_add
<1>6. CASE EpollWait \/ Dispatch
  BY <1>1, <1>6 DEF EpollWait, Dispatch
<1>7. CASE InFind \/ InPush \/ InAgain \/ InError \/ InEof \/ InRmQueue \/ InRmConn \/ InClose
  BY <1>1, <1>7 DEF InFind, InPush, InAgain, InError, InEof, InRmQueue, InRmConn, InClose, close
<1>8. CASE handle_EPOLLOUT_event
  BY <1>1, <1>8 DEF handle_EPOLLOUT_event, OutFind, OutPop, OutPopFails, OutSend,
                    OutSendError, OutMod, epoll_ctl_mod
<1>9. CASE send_func \/ Wakeup
  BY <1>1, <1>9 DEF send_func, QueueStep, SendLookup, SendMod, SendModFails, SendRmQueue,
                    SendRmConn, Wakeup, epoll_ctl_mod
<1>10. CASE UNCHANGED vars \/ \E w \in Worker : PoolThread(w)
  BY <1>1, <1>10 DEF PoolThread, vars
<1> QED
  BY <1>3, <1>4, <1>5, <1>6, <1>7, <1>8, <1>9, <1>10 DEF Next, Loop, handle_EPOLLIN_event

\* What is filed under an identifier stays with its client.
LEMMA OwnedStays ==
  ASSUME TypeOK, ~ ReuseIds, [Next]_vars,
         NEW c \in CONNID, NEW r \in Request, r.from = owner[c]
  PROVE  r.from = owner'[c]
<1>1. r.from \in Client
  BY DEF Request
<1> QED  BY <1>1, OwnerStable, ConnAssumption

\* The loop's two buffers hold what belongs to the connection it serves.
LEMMA RouteLoop ==
  ASSUME TypeOK, ~ ReuseIds, TableInv, LoopServesOwner, RouteInv, [Next]_vars
  PROVE  /\ l_pc' = "push" => \A i \in DOMAIN l_reqs' : l_reqs'[i].from = owner'[l_id']
         /\ l_pc' = "send" => \A i \in DOMAIN l_data' : l_data'[i].from = owner'[l_id']
<1>0. l_id \in CONNID /\ l_reqs \in Seq(Request) /\ l_data \in Seq(Request)
  BY DEF TypeOK, LoopTypeOK
<1>1. Serving => owner'[l_id] = owner[l_id]
  BY <1>0, OwnerStable, ConnAssumption DEF LoopServesOwner, Serving, TableInv
<1>2. CASE UNCHANGED <<l_pc, l_id, l_reqs, l_data>>
  BY <1>1, <1>2 DEF RouteInv, Serving, InPC, OutPC
<1>3. CASE l_pc' # "push" /\ l_pc' # "send"
  BY <1>3
<1>4. CASE InRecv
  <2>1. PICK k \in Client : k = sock[l_fd] /\ \E m \in 1 .. Len(rx[k]) : l_reqs' = SubSeq(rx[k], 1, m)
    BY <1>4 DEF InRecv
  <2>2. PICK m \in 1 .. Len(rx[k]) : l_reqs' = SubSeq(rx[k], 1, m)
    BY <2>1
  <2>3. rx[k] \in Seq(Request) /\ Len(rx[k]) \in Nat
    BY DEF TypeOK, SockTypeOK
  <2>4. \A i \in DOMAIN l_reqs' : i \in DOMAIN rx[k] /\ l_reqs'[i] = rx[k][i]
    BY <2>2, <2>3
  <2>5. \A i \in DOMAIN l_reqs' : l_reqs'[i].from = k
    BY <2>4 DEF RouteInv, OwnRequests
  <2>6. l_pc' = "push" /\ l_id' = l_id /\ Serving
    BY <1>4 DEF InRecv, Serving, InPC
  <2>7. owner[l_id] = k
    BY <2>1, <2>6 DEF LoopServesOwner, Serving
  <2> QED  BY <1>1, <2>5, <2>6, <2>7
<1>5. CASE InPush
  <2>1. l_reqs' = Tail(l_reqs) /\ l_id' = l_id /\ l_pc = "push" /\ l_pc' # "send"
    BY <1>5 DEF InPush
  <2>2. l_reqs # <<>>
    BY <2>1 DEF TypeOK, LoopTypeOK
  <2>3. \A i \in DOMAIN l_reqs' : i + 1 \in DOMAIN l_reqs /\ l_reqs'[i] = l_reqs[i + 1]
    BY <1>0, <2>1, <2>2
  <2>4. Serving
    BY <2>1 DEF Serving, InPC
  <2> QED  BY <1>1, <2>1, <2>3, <2>4 DEF RouteInv
<1>6. CASE OutPop
  <2>1. PICK i \in DOMAIN m_list : QSend_pop_first(l_id, i) /\ l_data' = m_list[i].data
    BY <1>6 DEF OutPop
  <2>2. m_list[i].conn_id = l_id
    BY <2>1 DEF QSend_pop_first, IsFirstOf, PositionsOf
  <2>3. l_pc' = "send" /\ l_id' = l_id /\ Serving
    BY <1>6 DEF OutPop, Serving, OutPC
  <2> QED  BY <1>1, <2>1, <2>2, <2>3 DEF RouteInv
<1>7. CASE OutSend
  <2>1. PICK m \in 1 .. Len(l_data) : l_data' = SubSeq(l_data, m + 1, Len(l_data))
    BY <1>7 DEF OutSend
  <2>2. \A i \in DOMAIN l_data' : m + i \in DOMAIN l_data /\ l_data'[i] = l_data[m + i]
    BY <1>0, <2>1
  <2>3. l_pc = "send" /\ l_pc' # "push" /\ l_id' = l_id /\ Serving
    BY <1>7 DEF OutSend, Serving, OutPC
  <2> QED  BY <1>1, <2>2, <2>3 DEF RouteInv
<1>8. CASE UNCHANGED loopVars
  BY <1>2, <1>8 DEF loopVars
<1>9. CASE Listen
  BY <1>8, <1>9 DEF Listen, listen, Accept, Insert, Add, AddFails, Undo
<1>10. CASE send_func \/ Wakeup
  BY <1>8, <1>10 DEF send_func, QueueStep, SendLookup, SendMod, SendModFails, SendRmQueue,
                     SendRmConn, Wakeup
<1>11. CASE Clients \/ UNCHANGED vars \/ \E w \in Worker : PoolThread(w)
  BY <1>8, <1>11 DEF Clients, PoolThread, vars
<1>12. CASE EpollWait \/ Dispatch
  BY <1>2, <1>3, <1>12 DEF EpollWait, Dispatch
<1>13. CASE InFind \/ InAgain \/ InError \/ InEof \/ InRmQueue \/ InRmConn \/ InClose
  BY <1>3, <1>13 DEF InFind, InAgain, InError, InEof, InRmQueue, InRmConn, InClose, InReturns
<1>14. CASE OutFind \/ OutPopFails \/ OutSendError \/ OutMod
  BY <1>3, <1>14 DEF OutFind, OutPopFails, OutSendError, OutMod, OutReturns
<1> QED
  BY <1>4, <1>5, <1>6, <1>7, <1>9, <1>10, <1>11, <1>12, <1>13, <1>14
  DEF Next, Loop, handle_EPOLLIN_event, handle_EPOLLOUT_event

\* What a step adds to what a client has received comes out of the loop's buffer.
LEMMA RouteRcvd ==
  ASSUME TypeOK, LoopServesOwner, RouteInv, [Next]_vars
  PROVE  RightClient'
<1> USE DEF sockVars, peerVars
<1>1. CASE UNCHANGED rcvd
  BY <1>1 DEF RouteInv, RightClient
<1>2. CASE OutSend
  <2>1. PICK k \in Client : /\ k = sock[l_fd]
                            /\ \E m \in 1 .. Len(l_data) : Deliver(k, m)
    BY <1>2 DEF OutSend
  <2>2. CASE peer[k] # "up"
    BY <1>1, <2>1, <2>2 DEF Deliver
  <2>3. CASE peer[k] = "up"
    <3>1. PICK m \in 1 .. Len(l_data) : rcvd' = [rcvd EXCEPT ![k] = @ \o SubSeq(l_data, 1, m)]
      BY <2>1, <2>3 DEF Deliver
    <3>2. rcvd \in [Client -> Seq(Request)] /\ l_data \in Seq(Request)
      BY DEF TypeOK, SockTypeOK, LoopTypeOK
    <3>3. \A c \in Client : c # k => rcvd'[c] = rcvd[c]
      BY <3>1, <3>2
    <3>4. rcvd'[k] = rcvd[k] \o SubSeq(l_data, 1, m)
      BY <3>1, <3>2
    <3>5. \A i \in DOMAIN rcvd'[k] :
            \/ i \in DOMAIN rcvd[k] /\ rcvd'[k][i] = rcvd[k][i]
            \/ \E j \in DOMAIN l_data : rcvd'[k][i] = l_data[j]
      <4> DEFINE p == SubSeq(l_data, 1, m)
      <4>1. p \in Seq(Request) /\ Len(p) = m /\ \A j \in 1 .. m : j \in DOMAIN l_data /\ p[j] = l_data[j]
        BY <3>2
      <4>2. rcvd[k] \in Seq(Request)
        BY <3>2
      <4> HIDE DEF p
      <4>3. \A i \in DOMAIN rcvd'[k] :
              \/ i \in DOMAIN rcvd[k] /\ rcvd'[k][i] = rcvd[k][i]
              \/ i - Len(rcvd[k]) \in 1 .. m /\ rcvd'[k][i] = p[i - Len(rcvd[k])]
        BY <3>4, <4>1, <4>2 DEF p
      <4> QED  BY <4>1, <4>3
    <3>6. \A j \in DOMAIN l_data : l_data[j].from = k
      BY <1>2, <2>1 DEF OutSend, RouteInv, LoopServesOwner, OutPC
    <3> QED  BY <3>3, <3>5, <3>6 DEF RouteInv, RightClient
  <2> QED  BY <2>2, <2>3
<1>3. CASE Clients
  BY <1>1, <1>3 DEF Clients, ClientNext, ClientConnect, ClientSend, ClientRead, ClientClose, ClientReset
<1>4. CASE Listen
  BY <1>1, <1>4 DEF Listen, listen, Accept, Insert, Add, AddFails, Undo, accept, epoll_ctl_add
<1>5. CASE EpollWait \/ Dispatch
  BY <1>1, <1>5 DEF EpollWait, Dispatch
<1>6. CASE handle_EPOLLIN_event
  BY <1>1, <1>6 DEF handle_EPOLLIN_event, InFind, InRecv, InPush, InAgain, InError, InEof,
                    InRmQueue, InRmConn, InClose, close
<1>7. CASE OutFind \/ OutPop \/ OutPopFails \/ OutSendError \/ OutMod
  BY <1>1, <1>7 DEF OutFind, OutPop, OutPopFails, OutSendError, OutMod, epoll_ctl_mod
<1>8. CASE send_func \/ Wakeup
  BY <1>1, <1>8 DEF send_func, QueueStep, SendLookup, SendMod, SendModFails, SendRmQueue,
                    SendRmConn, Wakeup, epoll_ctl_mod
<1>9. CASE UNCHANGED vars \/ \E w \in Worker : PoolThread(w)
  BY <1>1, <1>9 DEF PoolThread, vars
<1> QED
  BY <1>2, <1>3, <1>4, <1>5, <1>6, <1>7, <1>8, <1>9 DEF Next, Loop, handle_EPOLLOUT_event

\* All together: a request and its response are never filed under the identifier
\* of another client.
LEMMA RouteNext ==
  ASSUME TypeOK, ~ ReuseIds, TableInv, LoopServesOwner, RouteInv, [Next]_vars
  PROVE  RouteInv'
<1>0. EngineTypeOK /\ SendTypeOK /\ LoopTypeOK
  BY DEF TypeOK
<1>1. ASSUME NEW i \in DOMAIN tasks' PROVE tasks'[i].req.from = owner'[tasks'[i].connid]
  <2>1. CASE \E j \in DOMAIN tasks : tasks'[i] = tasks[j]
    <3>1. PICK j \in DOMAIN tasks : tasks'[i] = tasks[j]
      BY <2>1
    <3>2. tasks[j] \in Task
      BY <1>0 DEF EngineTypeOK
    <3>3. tasks[j].connid \in CONNID /\ tasks[j].req \in Request
      BY <3>2, EpSvrAssumption DEF Task
    <3> QED  BY <3>1, <3>3, OwnedStays DEF RouteInv
  <2>2. CASE l_pc = "push" /\ tasks'[i] = [connid |-> l_id, req |-> Head(l_reqs)]
    <3>1. l_reqs # <<>> /\ l_reqs \in Seq(Request) /\ l_id \in CONNID
      BY <1>0, <2>2 DEF LoopTypeOK
    <3>2. 1 \in DOMAIN l_reqs /\ Head(l_reqs) = l_reqs[1] /\ l_reqs[1] \in Request
      BY <3>1
    <3>3. Head(l_reqs).from = owner[l_id]
      BY <2>2, <3>2 DEF RouteInv
    <3> QED  BY <2>2, <3>1, <3>2, <3>3, OwnedStays
  <2> QED  BY <2>1, <2>2, TaskOrigin
<1>2. ASSUME NEW w \in Worker, w_pc[w] # "idle"
      PROVE  /\ w_task[w].connid \in CONNID /\ w_task[w].req \in Request
             /\ w_task[w].req.from = owner'[w_task[w].connid]
  <2>1. w_task[w] \in Task
    BY <1>0, <1>2 DEF EngineTypeOK
  <2>2. w_task[w].connid \in CONNID /\ w_task[w].req \in Request
    BY <2>1, EpSvrAssumption DEF Task
  <2> QED  BY <1>2, <2>2, OwnedStays DEF RouteInv
<1>3. ASSUME NEW w \in Worker, w_pc'[w] # "idle"
      PROVE  w_task'[w].req.from = owner'[w_task'[w].connid]
  <2>1. CASE w_pc[w] # "idle" /\ w_task'[w] = w_task[w]
    BY <1>2, <2>1
  <2>2. CASE \E j \in DOMAIN tasks : w_task'[w] = tasks[j]
    <3>1. PICK j \in DOMAIN tasks : w_task'[w] = tasks[j]
      BY <2>2
    <3>2. tasks[j] \in Task
      BY <1>0 DEF EngineTypeOK
    <3>3. tasks[j].connid \in CONNID /\ tasks[j].req \in Request
      BY <3>2, EpSvrAssumption DEF Task
    <3> QED  BY <3>1, <3>3, OwnedStays DEF RouteInv
  <2> QED  BY <1>3, <2>1, <2>2, WorkOrigin
<1>4. ASSUME NEW j \in DOMAIN m_list
      PROVE  /\ m_list[j].data \in Seq(Request)
             /\ \A d \in DOMAIN m_list[j].data :
                  m_list[j].data[d].from = owner'[m_list[j].conn_id]
  <2>1. m_list[j] \in Entry
    BY <1>0 DEF SendTypeOK
  <2>2. m_list[j].data \in Seq(Request) /\ m_list[j].conn_id \in CONNID
    BY <2>1, EpSvrAssumption DEF Entry
  <2>3. \A d \in DOMAIN m_list[j].data : m_list[j].data[d] \in Request
    BY <2>2
  <2> QED  BY <2>2, <2>3, OwnedStays DEF RouteInv
<1>5. ASSUME NEW i \in DOMAIN m_list', NEW d \in DOMAIN m_list'[i].data
      PROVE  m_list'[i].data[d].from = owner'[m_list'[i].conn_id]
  <2>1. CASE \E j \in DOMAIN m_list : m_list'[i] = m_list[j]
    BY <1>4, <2>1
  <2>2. ASSUME NEW w \in Worker, NEW n \in OutLen, w_pc[w] = "run",
               m_list'[i] = NewEntry(w_task[w].connid, w_task[w].req, create_pack(n))
        PROVE  m_list'[i].data[d].from = owner'[m_list'[i].conn_id]
    <3>1. /\ m_list'[i].data = <<w_task[w].req>>
          /\ m_list'[i].conn_id = w_task[w].connid
      BY <2>2 DEF NewEntry
    <3>2. m_list'[i].data[d] = w_task[w].req
      BY <3>1
    <3> QED  BY <1>2, <2>2, <3>1, <3>2
  <2>3. ASSUME NEW w \in Worker, NEW n \in OutLen, w_pc[w] = "run", 1 \in DOMAIN m_list,
               m_list[1].conn_id = w_task[w].connid,
               m_list'[i] = MergedEntry(w_task[w].connid, w_task[w].req, create_pack(n))
        PROVE  m_list'[i].data[d].from = owner'[m_list'[i].conn_id]
    <3>1. /\ m_list'[i].data = Append(m_list[1].data, w_task[w].req)
          /\ m_list'[i].conn_id = w_task[w].connid
      BY <2>3 DEF MergedEntry
    <3>2. m_list[1].data \in Seq(Request)
      BY <1>4, <2>3
    <3>3. \/ m_list'[i].data[d] = w_task[w].req
          \/ d \in DOMAIN m_list[1].data /\ m_list'[i].data[d] = m_list[1].data[d]
      BY <3>1, <3>2
    <3> QED  BY <1>2, <1>4, <2>3, <3>1, <3>3
  <2> QED  BY <2>1, <2>2, <2>3, EntryOrigin
<1> QED  BY <1>1, <1>3, <1>5, RouteRx, RouteLoop, RouteRcvd DEF RouteInv

\* It never is, throughout.
LEMMA RouteAlways == ~ ReuseIds /\ Spec => []RouteInv
<1> SUFFICES ASSUME ~ ReuseIds PROVE Spec => []RouteInv
  OBVIOUS
<1>1. Init => RouteInv
  BY DEF Init, create_send_helper, workpool_start, SockInit, RouteInv, OwnRequests, RightClient
<1>2. TypeOK /\ TableInv /\ LoopServesOwner /\ RouteInv /\ [Next]_vars => RouteInv'
  BY RouteNext
<1>3. Spec => []LoopServesOwner
  BY LoopSafe
<1> QED  BY <1>1, <1>2, <1>3, TypeCorrect, TableAlways, PTL DEF Spec

\* If Gen_ConnID never repeats an identifier, a client only ever receives
\* responses to its own requests, whatever the number of clients and threads
\* and however their steps interleave.
THEOREM DeliverySafe == ~ ReuseIds /\ Spec => []RightClient
<1> SUFFICES ASSUME ~ ReuseIds PROVE Spec => []RightClient
  OBVIOUS
<1>1. Spec => []RouteInv
  BY RouteAlways
<1>2. RouteInv => RightClient
  BY DEF RouteInv
<1> QED  BY <1>1, <1>2, PTL

-----------------------------------------------------------------------------
(* The places of a request. *)

(***************************************************************************)
(* The seven kinds of places that make up Copies(r), in the order in which *)
(* a request and the response to it pass through them.                     *)
(***************************************************************************)
InSocket(r, p) == \E i \in DOMAIN rx[r.from] : rx[r.from][i] = r /\ p = <<"rx", i>>
InBuffer(r, p) == \E i \in DOMAIN l_reqs : l_reqs[i] = r /\ p = <<"recv_buff", i>>
InPool(r, p)   == \E i \in DOMAIN tasks : tasks[i].req = r /\ p = <<"pool", i>>
AtWork(r, p)   == \E w \in Worker : w_pc[w] = "run" /\ w_task[w].req = r /\ p = <<"worker", w>>
InQueue(r, p)  == \E i \in DOMAIN m_list : \E j \in DOMAIN m_list[i].data :
                    m_list[i].data[j] = r /\ p = <<"queue", i, j>>
InSendbuf(r, p) == \E i \in DOMAIN l_data : l_data[i] = r /\ p = <<"sendbuf", i>>
AtClient(r, p) == \E k \in Client : \E i \in DOMAIN rcvd[k] :
                    rcvd[k][i] = r /\ p = <<"client", k, i>>

IsPlace(r, p) ==
  \/ InSocket(r, p) \/ InBuffer(r, p) \/ InPool(r, p) \/ AtWork(r, p)
  \/ InQueue(r, p) \/ InSendbuf(r, p) \/ AtClient(r, p)

\* They are what Copies collects.
LEMMA CopiesPlaces == ASSUME NEW r PROVE \A p : p \in Copies(r) <=> IsPlace(r, p)
<1> SUFFICES ASSUME NEW p PROVE p \in Copies(r) <=> IsPlace(r, p)
  OBVIOUS
<1>1. p \in SocketPlaces(r) <=> InSocket(r, p)
  BY DEF SocketPlaces, InSocket
<1>2. p \in BufferPlaces(r) <=> InBuffer(r, p)
  BY DEF BufferPlaces, InBuffer
<1>3. p \in PoolPlaces(r) <=> InPool(r, p)
  BY DEF PoolPlaces, InPool
<1>4. p \in WorkPlaces(r) <=> AtWork(r, p)
  BY DEF WorkPlaces, AtWork
<1>5. p \in QueuePlaces(r) <=> InQueue(r, p)
  BY DEF QueuePlaces, InQueue
<1>6. p \in SendbufPlaces(r) <=> InSendbuf(r, p)
  BY DEF SendbufPlaces, InSendbuf
<1>7. p \in ClientPlaces(r) <=> AtClient(r, p)
  BY DEF ClientPlaces, AtClient
<1> QED  BY <1>1, <1>2, <1>3, <1>4, <1>5, <1>6, <1>7 DEF Copies, IsPlace

\* A place tells its kind.
LEMMA PlaceKind ==
  ASSUME NEW r, NEW p
  PROVE  /\ InSocket(r, p) => p[1] = "rx"
         /\ InBuffer(r, p) => p[1] = "recv_buff"
         /\ InPool(r, p) => p[1] = "pool"
         /\ AtWork(r, p) => p[1] = "worker"
         /\ InQueue(r, p) => p[1] = "queue"
         /\ InSendbuf(r, p) => p[1] = "sendbuf"
         /\ AtClient(r, p) => p[1] = "client"
BY DEF InSocket, InBuffer, InPool, AtWork, InQueue, InSendbuf, AtClient

\* A kind of place that a step does not touch.
LEMMA PlaceKept ==
  ASSUME NEW r, NEW p
  PROVE  /\ UNCHANGED rx => (InSocket(r, p)' <=> InSocket(r, p))
         /\ UNCHANGED l_reqs => (InBuffer(r, p)' <=> InBuffer(r, p))
         /\ UNCHANGED tasks => (InPool(r, p)' <=> InPool(r, p))
         /\ UNCHANGED <<w_pc, w_task>> => (AtWork(r, p)' <=> AtWork(r, p))
         /\ UNCHANGED m_list => (InQueue(r, p)' <=> InQueue(r, p))
         /\ UNCHANGED l_data => (InSendbuf(r, p)' <=> InSendbuf(r, p))
         /\ UNCHANGED rcvd => (AtClient(r, p)' <=> AtClient(r, p))
<1>1. UNCHANGED rx => (InSocket(r, p)' <=> InSocket(r, p))
  BY DEF InSocket
<1>2. UNCHANGED l_reqs => (InBuffer(r, p)' <=> InBuffer(r, p))
  BY DEF InBuffer
<1>3. UNCHANGED tasks => (InPool(r, p)' <=> InPool(r, p))
  BY DEF InPool
<1>4. UNCHANGED <<w_pc, w_task>> => (AtWork(r, p)' <=> AtWork(r, p))
  BY DEF AtWork
<1>5. UNCHANGED m_list => (InQueue(r, p)' <=> InQueue(r, p))
  BY DEF InQueue
<1>6. UNCHANGED l_data => (InSendbuf(r, p)' <=> InSendbuf(r, p))
  BY DEF InSendbuf
<1>7. UNCHANGED rcvd => (AtClient(r, p)' <=> AtClient(r, p))
  BY DEF AtClient
<1> QED  BY <1>1, <1>2, <1>3, <1>4, <1>5, <1>6, <1>7

-----------------------------------------------------------------------------
(* No request is in two places. *)

Once(r)   == \A p, q : IsPlace(r, p) /\ IsPlace(r, q) => p = q
Absent(r) == \A p : ~ IsPlace(r, p)

\* What a step must not do to a request: double it, or make it from nothing.
Conserves(r) == (Once(r) => Once(r)') /\ (Absent(r) => Absent(r)')

\* Losing a request does not double it.
LEMMA FewerPlaces ==
  ASSUME NEW r, \A p : IsPlace(r, p)' => IsPlace(r, p)
  PROVE  Conserves(r)
BY DEF Conserves, Once, Absent

\* recv moves the first requests from the socket into the loop's buffer.
LEMMA RecvMoves ==
  ASSUME TypeOK, OwnRequests, InRecv, NEW r \in Request
  PROVE  Conserves(r)
<1>1. PICK k \in Client : \E m \in 1 .. Len(rx[k]) :
        /\ l_reqs' = SubSeq(rx[k], 1, m)
        /\ rx' = [rx EXCEPT ![k] = SubSeq(rx[k], m + 1, Len(rx[k]))]
  BY DEF InRecv
<1>2. PICK m \in 1 .. Len(rx[k]) :
        /\ l_reqs' = SubSeq(rx[k], 1, m)
        /\ rx' = [rx EXCEPT ![k] = SubSeq(rx[k], m + 1, Len(rx[k]))]
  BY <1>1
<1>3. rx \in [Client -> Seq(Request)] /\ rx[k] \in Seq(Request) /\ r.from \in Client
  BY DEF TypeOK, SockTypeOK, Request
<1>4. \A i \in DOMAIN l_reqs' : i \in DOMAIN rx[k] /\ i <= m /\ l_reqs'[i] = rx[k][i]
  BY <1>2, <1>3
<1>5. rx'[k] = SubSeq(rx[k], m + 1, Len(rx[k])) /\ \A c \in Client : c # k => rx'[c] = rx[c]
  BY <1>2, <1>3
<1>6. \A i \in DOMAIN rx'[k] : i \in Nat \ {0} /\ m + i \in DOMAIN rx[k] /\ rx'[k][i] = rx[k][m + i]
  BY <1>3, <1>5
<1>7. UNCHANGED <<tasks, w_pc, w_task, m_list, l_data, rcvd>>
  BY DEF InRecv, workVars, sendVars
<1>8. ASSUME NEW p, InBuffer(r, p)'
      PROVE  r.from = k /\ \E i \in 1 .. m : p = <<"recv_buff", i>> /\ InSocket(r, <<"rx", i>>)
  <2>1. PICK i \in DOMAIN l_reqs' : l_reqs'[i] = r /\ p = <<"recv_buff", i>>
    BY <1>8 DEF InBuffer
  <2>2. i \in DOMAIN rx[k] /\ rx[k][i] = r /\ i \in 1 .. m
    BY <1>3, <1>4, <2>1
  <2>3. r.from = k
    BY <2>2 DEF OwnRequests
  <2> QED  BY <2>1, <2>2, <2>3 DEF InSocket
<1>9. ASSUME NEW p, InSocket(r, p)'
      PROVE  IF r.from = k
             THEN \E i \in Nat \ {0} : p = <<"rx", i>> /\ InSocket(r, <<"rx", m + i>>)
             ELSE InSocket(r, p)
  BY <1>3, <1>5, <1>6, <1>9 DEF InSocket
<1> DEFINE From(p, s) ==
         \/ p = s /\ p[1] # "recv_buff" /\ (r.from = k => p[1] # "rx")
         \/ r.from = k /\ \E i \in 1 .. m : p = <<"recv_buff", i>> /\ s = <<"rx", i>>
         \/ r.from = k /\ \E i \in Nat \ {0} : p = <<"rx", i>> /\ s = <<"rx", m + i>>
<1>10. \A p : IsPlace(r, p)' => \E s : IsPlace(r, s) /\ From(p, s)
  <2> SUFFICES ASSUME NEW p, IsPlace(r, p)' PROVE \E s : IsPlace(r, s) /\ From(p, s)
    OBVIOUS
  <2>1. CASE InBuffer(r, p)'
    <3>1. PICK i \in 1 .. m : p = <<"recv_buff", i>> /\ InSocket(r, <<"rx", i>>)
      BY <1>8, <2>1
    <3> QED  BY <1>8, <2>1, <3>1 DEF IsPlace
  <2>2. CASE InSocket(r, p)' /\ r.from = k
    <3>1. PICK i \in Nat \ {0} : p = <<"rx", i>> /\ InSocket(r, <<"rx", m + i>>)
      BY <1>9, <2>2
    <3> QED  BY <2>2, <3>1 DEF IsPlace
  <2>3. CASE ~ InBuffer(r, p)' /\ ~ (InSocket(r, p)' /\ r.from = k)
    <3>1. IsPlace(r, p) /\ From(p, p)
      BY <1>7, <1>9, <2>3, PlaceKept, PlaceKind DEF IsPlace
    <3> QED  BY <3>1
  <2> QED  BY <2>1, <2>2, <2>3
<1>11. \A p, q, s : From(p, s) /\ From(q, s) => p = q
  BY <1>3
<1> HIDE DEF From
<1> QED  BY <1>10, <1>11 DEF Conserves, Once, Absent

\* workpool_push_work moves the first request of the buffer to the end of the
\* pool's queue.
LEMMA PushMoves ==
  ASSUME TypeOK, InPush, NEW r \in Request
  PROVE  Conserves(r)
<1>1. /\ l_reqs \in Seq(Request) /\ l_reqs # <<>> /\ l_reqs' = Tail(l_reqs)
      /\ tasks \in Seq(Task)
      /\ tasks' = Append(tasks, [connid |-> l_id, req |-> Head(l_reqs)])
      /\ UNCHANGED <<rx, w_pc, w_task, m_list, l_data, rcvd>>
  BY DEF InPush, workpool_push_work, TypeOK, LoopTypeOK, EngineTypeOK, sendVars, sockVars, peerVars
<1> DEFINE n == Len(tasks) + 1
<1>2. n \in Nat
  BY <1>1
<1>3. \A i \in DOMAIN l_reqs' : i \in Nat \ {0} /\ i + 1 \in DOMAIN l_reqs /\ l_reqs'[i] = l_reqs[i + 1]
  BY <1>1
<1>4. 1 \in DOMAIN l_reqs /\ Head(l_reqs) = l_reqs[1]
  BY <1>1
<1>5. \A i \in DOMAIN tasks' : IF i = n THEN tasks'[i].req = l_reqs[1]
                               ELSE i \in DOMAIN tasks /\ tasks'[i] = tasks[i]
  BY <1>1, <1>4
<1> HIDE DEF n
<1> DEFINE From(p, s) ==
         \/ p = s /\ p[1] # "recv_buff" /\ p # <<"pool", n>>
         \/ \E i \in Nat \ {0} : p = <<"recv_buff", i>> /\ s = <<"recv_buff", i + 1>>
         \/ p = <<"pool", n>> /\ s = <<"recv_buff", 1>>
<1>6. \A p : IsPlace(r, p)' => \E s : IsPlace(r, s) /\ From(p, s)
  <2> SUFFICES ASSUME NEW p, IsPlace(r, p)' PROVE \E s : IsPlace(r, s) /\ From(p, s)
    OBVIOUS
  <2>1. CASE InBuffer(r, p)'
    <3>1. PICK i \in DOMAIN l_reqs' : l_reqs'[i] = r /\ p = <<"recv_buff", i>>
      BY <2>1 DEF InBuffer
    <3>2. InBuffer(r, <<"recv_buff", i + 1>>) /\ i \in Nat \ {0}
      BY <1>3, <3>1 DEF InBuffer
    <3> QED  BY <3>1, <3>2 DEF IsPlace
  <2>2. CASE InPool(r, p)'
    <3>1. PICK i \in DOMAIN tasks' : tasks'[i].req = r /\ p = <<"pool", i>>
      BY <2>2 DEF InPool
    <3>2. CASE i = n
      <4>1. InBuffer(r, <<"recv_buff", 1>>)
        BY <1>4, <1>5, <3>1, <3>2 DEF InBuffer
      <4> QED  BY <3>1, <3>2, <4>1 DEF IsPlace
    <3>3. CASE i # n
      <4>1. InPool(r, p)
        BY <1>5, <3>1, <3>3 DEF InPool
      <4>2. From(p, p)
        BY <3>1, <3>3
      <4> QED  BY <4>1, <4>2 DEF IsPlace
    <3> QED  BY <3>2, <3>3
  <2>3. CASE ~ InBuffer(r, p)' /\ ~ InPool(r, p)'
    <3>1. IsPlace(r, p) /\ p[1] # "recv_buff" /\ p[1] # "pool"
      BY <1>1, <2>3, PlaceKept, PlaceKind DEF IsPlace
    <3> QED  BY <3>1
  <2> QED  BY <2>1, <2>2, <2>3
<1>7. \A p, q, s : From(p, s) /\ From(q, s) => p = q
  OBVIOUS
<1> HIDE DEF From
<1> QED  BY <1>6, <1>7 DEF Conserves, Once, Absent

\* A pool thread takes the first task.
LEMMA TakeMoves ==
  ASSUME TypeOK, NEW w \in Worker, PoolThread(w), TakeWork(w), NEW r \in Request
  PROVE  Conserves(r)
<1>1. /\ tasks \in Seq(Task) /\ tasks # <<>> /\ tasks' = Tail(tasks)
      /\ w_task' = [w_task EXCEPT ![w] = Head(tasks)]
      /\ w_pc' = [w_pc EXCEPT ![w] = "run"]
      /\ w_pc \in [Worker -> {"idle", "run", "signal"}]
      /\ w_task \in [Worker -> Task \cup {NoTask}]
      /\ UNCHANGED <<rx, l_reqs, m_list, l_data, rcvd>>
  BY DEF PoolThread, TakeWork, TypeOK, EngineTypeOK, sendVars, sockVars, peerVars, loopVars
<1>2. \A i \in DOMAIN tasks' : i \in Nat \ {0} /\ i + 1 \in DOMAIN tasks /\ tasks'[i] = tasks[i + 1]
  BY <1>1
<1>3. 1 \in DOMAIN tasks /\ Head(tasks) = tasks[1]
  BY <1>1
<1>4. /\ w_task'[w] = tasks[1]
      /\ \A v \in Worker : v # w => w_pc'[v] = w_pc[v] /\ w_task'[v] = w_task[v]
  BY <1>1, <1>3
<1> DEFINE From(p, s) ==
         \/ p = s /\ p[1] # "pool" /\ p # <<"worker", w>>
         \/ \E i \in Nat \ {0} : p = <<"pool", i>> /\ s = <<"pool", i + 1>>
         \/ p = <<"worker", w>> /\ s = <<"pool", 1>>
<1>5. \A p : IsPlace(r, p)' => \E s : IsPlace(r, s) /\ From(p, s)
  <2> SUFFICES ASSUME NEW p, IsPlace(r, p)' PROVE \E s : IsPlace(r, s) /\ From(p, s)
    OBVIOUS
  <2>1. CASE InPool(r, p)'
    <3>1. PICK i \in DOMAIN tasks' : tasks'[i].req = r /\ p = <<"pool", i>>
      BY <2>1 DEF InPool
    <3>2. InPool(r, <<"pool", i + 1>>) /\ i \in Nat \ {0}
      BY <1>2, <3>1 DEF InPool
    <3> QED  BY <3>1, <3>2 DEF IsPlace
  <2>2. CASE AtWork(r, p)'
    <3>1. PICK v \in Worker : w_pc'[v] = "run" /\ w_task'[v].req = r /\ p = <<"worker", v>>
      BY <2>2 DEF AtWork
    <3>2. CASE v = w
      <4>1. InPool(r, <<"pool", 1>>)
        BY <1>3, <1>4, <3>1, <3>2 DEF InPool
      <4> QED  BY <3>1, <3>2, <4>1 DEF IsPlace
    <3>3. CASE v # w
      <4>1. AtWork(r, p)
        BY <1>4, <3>1, <3>3 DEF AtWork
      <4>2. From(p, p)
        BY <3>1, <3>3
      <4> QED  BY <4>1, <4>2 DEF IsPlace
    <3> QED  BY <3>2, <3>3
  <2>3. CASE ~ InPool(r, p)' /\ ~ AtWork(r, p)'
    <3>1. IsPlace(r, p) /\ p[1] # "pool" /\ p[1] # "worker"
      BY <1>1, <2>3, PlaceKept, PlaceKind DEF IsPlace
    <3> QED  BY <3>1
  <2> QED  BY <2>1, <2>2, <2>3
<1>6. \A p, q, s : From(p, s) /\ From(q, s) => p = q
  OBVIOUS
<1> HIDE DEF From
<1> QED  BY <1>5, <1>6 DEF Conserves, Once, Absent

\* QSend_push puts the response at one new place of the queue and leaves
\* everything else in it where it is.
LEMMA PushPlaces ==
  ASSUME m_list \in Seq(Entry), NEW c, NEW x, NEW len, QSend_push(c, x, len)
  PROVE  \E a, b : \A r, p :
           InQueue(r, p)' => \/ p = <<"queue", a, b>> /\ r = x
                             \/ p # <<"queue", a, b>> /\ InQueue(r, p)
<1>1. CASE m_list' = Append(m_list, NewEntry(c, x, len))
  <2> DEFINE n == Len(m_list) + 1
  <2>1. \A i \in DOMAIN m_list' : IF i = n THEN m_list'[i] = NewEntry(c, x, len)
                                  ELSE i \in DOMAIN m_list /\ m_list'[i] = m_list[i]
    BY <1>1
  <2>2. NewEntry(c, x, len).data = <<x>>
    BY DEF NewEntry
  <2> HIDE DEF n
  <2>3. ASSUME NEW r, NEW p, InQueue(r, p)'
        PROVE  \/ p = <<"queue", n, 1>> /\ r = x
               \/ p # <<"queue", n, 1>> /\ InQueue(r, p)
    <3>1. PICK i \in DOMAIN m_list' : \E j \in DOMAIN m_list'[i].data :
                 m_list'[i].data[j] = r /\ p = <<"queue", i, j>>
      BY <2>3 DEF InQueue
    <3>2. CASE i = n
      BY <2>1, <2>2, <3>1, <3>2
    <3>3. CASE i # n
      <4>1. i \in DOMAIN m_list /\ m_list'[i] = m_list[i]
        BY <2>1, <3>3
      <4> QED  BY <3>1, <3>3, <4>1 DEF InQueue
    <3> QED  BY <3>2, <3>3
  <2> QED  BY <2>3
<1>2. CASE m_list # <<>> /\ m_list' = [m_list EXCEPT ![1] = MergedEntry(c, x, len)]
  <2> DEFINE n == Len(m_list[1].data) + 1
  <2>1. 1 \in DOMAIN m_list /\ m_list[1] \in Entry
    BY <1>2
  <2>2. m_list[1].data \in Seq(Response)
    BY <2>1 DEF Entry
  <2>3. \A i \in DOMAIN m_list' : i \in DOMAIN m_list /\ (i # 1 => m_list'[i] = m_list[i])
    BY <1>2
  <2>4. m_list'[1].data = Append(m_list[1].data, x)
    BY <1>2, <2>1 DEF MergedEntry
  <2>5. \A j \in DOMAIN m_list'[1].data :
          IF j = n THEN m_list'[1].data[j] = x
          ELSE j \in DOMAIN m_list[1].data /\ m_list'[1].data[j] = m_list[1].data[j]
    BY <2>2, <2>4
  <2> HIDE DEF n
  <2>6. ASSUME NEW r, NEW p, InQueue(r, p)'
        PROVE  \/ p = <<"queue", 1, n>> /\ r = x
               \/ p # <<"queue", 1, n>> /\ InQueue(r, p)
    <3>1. PICK i \in DOMAIN m_list' : \E j \in DOMAIN m_list'[i].data :
                 m_list'[i].data[j] = r /\ p = <<"queue", i, j>>
      BY <2>6 DEF InQueue
    <3>2. PICK j \in DOMAIN m_list'[i].data : m_list'[i].data[j] = r /\ p = <<"queue", i, j>>
      BY <3>1
    <3>3. CASE i = 1 /\ j = n
      BY <2>5, <3>2, <3>3
    <3>4. CASE i = 1 /\ j # n
      BY <2>1, <2>5, <3>2, <3>4 DEF InQueue
    <3>5. CASE i # 1
      BY <2>3, <3>2, <3>5 DEF InQueue
    <3> QED  BY <3>3, <3>4, <3>5
  <2> QED  BY <2>6
<1> QED  BY <1>1, <1>2 DEF QSend_push, NewEntry, MergedEntry

\* The response of a pool thread takes the place of the request.
LEMMA ResponseMoves ==
  ASSUME TypeOK, NEW w \in Worker, PoolThread(w), NEW n \in OutLen, work_proc_push(w, n),
         NEW r \in Request
  PROVE  Conserves(r)
<1>1. /\ m_list \in Seq(Entry)
      /\ QSend_push(w_task[w].connid, w_task[w].req, create_pack(n))
      /\ w_pc[w] = "run" /\ w_pc' = [w_pc EXCEPT ![w] = "signal"]
      /\ w_pc \in [Worker -> {"idle", "run", "signal"}]
      /\ UNCHANGED <<w_task, rx, l_reqs, tasks, l_data, rcvd>>
  BY DEF PoolThread, work_proc_push, TypeOK, EngineTypeOK, SendTypeOK, sockVars, peerVars, loopVars
<1>2. PICK a, b : \A x, p :
        InQueue(x, p)' => \/ p = <<"queue", a, b>> /\ x = w_task[w].req
                          \/ p # <<"queue", a, b>> /\ InQueue(x, p)
  BY <1>1, PushPlaces
<1>3. \A v \in Worker : w_pc'[v] = "run" => v # w /\ w_pc[v] = "run"
  BY <1>1
<1> DEFINE From(p, s) ==
         \/ p = s /\ p # <<"queue", a, b>> /\ p # <<"worker", w>>
         \/ p = <<"queue", a, b>> /\ s = <<"worker", w>>
<1>4. \A p : IsPlace(r, p)' => \E s : IsPlace(r, s) /\ From(p, s)
  <2> SUFFICES ASSUME NEW p, IsPlace(r, p)' PROVE \E s : IsPlace(r, s) /\ From(p, s)
    OBVIOUS
  <2>1. CASE InQueue(r, p)'
    <3>1. CASE p = <<"queue", a, b>> /\ r = w_task[w].req
      <4>1. AtWork(r, <<"worker", w>>)
        BY <1>1, <3>1 DEF AtWork
      <4> QED  BY <3>1, <4>1 DEF IsPlace
    <3>2. CASE p # <<"queue", a, b>> /\ InQueue(r, p)
      <4>1. p[1] = "queue"
        BY <3>2, PlaceKind
      <4>2. p # <<"worker", w>>
        BY <4>1
      <4> QED  BY <3>2, <4>2 DEF IsPlace
    <3> QED  BY <1>2, <2>1, <3>1, <3>2
  <2>2. CASE AtWork(r, p)'
    <3>1. PICK v \in Worker : w_pc'[v] = "run" /\ w_task'[v].req = r /\ p = <<"worker", v>>
      BY <2>2 DEF AtWork
    <3>2. AtWork(r, p) /\ p # <<"worker", w>> /\ p # <<"queue", a, b>>
      BY <1>1, <1>3, <3>1 DEF AtWork
    <3> QED  BY <3>2 DEF IsPlace
  <2>3. CASE ~ InQueue(r, p)' /\ ~ AtWork(r, p)'
    <3>1. IsPlace(r, p) /\ p[1] # "queue" /\ p[1] # "worker"
      BY <1>1, <2>3, PlaceKept, PlaceKind DEF IsPlace
    <3>2. p # <<"queue", a, b>> /\ p # <<"worker", w>>
      BY <3>1
    <3> QED  BY <3>1, <3>2
  <2> QED  BY <2>1, <2>2, <2>3
<1>5. \A p, q, s : From(p, s) /\ From(q, s) => p = q
  OBVIOUS
<1> HIDE DEF From
<1> QED  BY <1>4, <1>5 DEF Conserves, Once, Absent

\* A pool thread that gives up, or is done, holds nothing.
LEMMA WorkEnds ==
  ASSUME TypeOK, NEW w \in Worker, PoolThread(w), work_proc_drop(w) \/ work_proc_signal(w),
         NEW r \in Request
  PROVE  Conserves(r)
<1>1. /\ w_pc \in [Worker -> {"idle", "run", "signal"}]
      /\ w_task \in [Worker -> Task \cup {NoTask}]
      /\ w_pc' = [w_pc EXCEPT ![w] = "idle"]
      /\ w_task' = [w_task EXCEPT ![w] = NoTask]
      /\ UNCHANGED <<rx, l_reqs, tasks, m_list, l_data, rcvd>>
  BY DEF PoolThread, work_proc_drop, work_proc_signal, TypeOK, EngineTypeOK, sendVars,
         sockVars, peerVars, loopVars
<1>2. \A v \in Worker : w_pc'[v] = "run" => w_pc[v] = "run" /\ w_task'[v] = w_task[v]
  BY <1>1
<1>3. ASSUME NEW p PROVE AtWork(r, p)' => AtWork(r, p)
  BY <1>2 DEF AtWork
<1>4. \A p : IsPlace(r, p)' => IsPlace(r, p)
  BY <1>1, <1>3, PlaceKept DEF IsPlace
<1> QED  BY <1>4, FewerPlaces

\* Erasing entries moves the others up without putting two together.
LEMMA KeepOnlyMap ==
  ASSUME m_list \in Seq(Entry), NEW K \in SUBSET DOMAIN m_list, KeepOnly(K)
  PROVE  \E f : /\ \A i \in DOMAIN m_list' : f[i] \in K /\ m_list'[i] = m_list[f[i]]
                /\ \A i, j \in DOMAIN m_list' : f[i] = f[j] => i = j
<1>1. PICK f \in [1 .. Cardinality(K) -> K] :
        /\ \A i, j \in DOMAIN f : i < j => f[i] < f[j]
        /\ m_list' = [k \in DOMAIN f |-> m_list[f[k]]]
  BY DEF KeepOnly
<1>2. \A i \in DOMAIN f : i \in Int /\ f[i] \in Int
  <2>1. DOMAIN m_list \subseteq Int
    OBVIOUS
  <2>2. \A i \in DOMAIN f : i \in Int
    OBVIOUS
  <2> QED  BY <2>1, <2>2
<1>3. \A i, j \in DOMAIN f : f[i] = f[j] => i = j
  BY <1>1, <1>2
<1>4. DOMAIN m_list' = DOMAIN f /\ \A i \in DOMAIN f : f[i] \in K /\ m_list'[i] = m_list[f[i]]
  BY <1>1
<1> QED  BY <1>3, <1>4

\* Clearing a connection's entries loses what is in them and nothing else moves
\* to a place that is taken.
LEMMA EraseMoves ==
  ASSUME TypeOK, NEW K \in SUBSET DOMAIN m_list, KeepOnly(K),
         UNCHANGED <<rx, l_reqs, tasks, w_pc, w_task, l_data, rcvd>>, NEW r \in Request
  PROVE  Conserves(r)
<1>1. PICK f : /\ \A i \in DOMAIN m_list' : f[i] \in K /\ m_list'[i] = m_list[f[i]]
               /\ \A i, j \in DOMAIN m_list' : f[i] = f[j] => i = j
  BY KeepOnlyMap DEF TypeOK, SendTypeOK
<1> DEFINE From(p, s) ==
         \/ p = s /\ p[1] # "queue"
         \/ \E i \in DOMAIN m_list' : \E j : p = <<"queue", i, j>> /\ s = <<"queue", f[i], j>>
<1>2. \A p : IsPlace(r, p)' => \E s : IsPlace(r, s) /\ From(p, s)
  <2> SUFFICES ASSUME NEW p, IsPlace(r, p)' PROVE \E s : IsPlace(r, s) /\ From(p, s)
    OBVIOUS
  <2>1. CASE InQueue(r, p)'
    <3>1. PICK i \in DOMAIN m_list' : \E j \in DOMAIN m_list'[i].data :
                 m_list'[i].data[j] = r /\ p = <<"queue", i, j>>
      BY <2>1 DEF InQueue
    <3>2. PICK j \in DOMAIN m_list'[i].data : m_list'[i].data[j] = r /\ p = <<"queue", i, j>>
      BY <3>1
    <3>3. InQueue(r, <<"queue", f[i], j>>)
      BY <1>1, <3>2 DEF InQueue
    <3> QED  BY <3>2, <3>3 DEF IsPlace
  <2>2. CASE ~ InQueue(r, p)'
    <3>1. IsPlace(r, p) /\ p[1] # "queue"
      BY <2>2, PlaceKept, PlaceKind DEF IsPlace
    <3> QED  BY <3>1
  <2> QED  BY <2>1, <2>2
<1>3. \A p, q, s : From(p, s) /\ From(q, s) => p = q
  BY <1>1
<1> HIDE DEF From
<1> QED  BY <1>2, <1>3 DEF Conserves, Once, Absent

\* QSend_pop_first moves an entry into the loop's send buffer.
LEMMA PopMoves ==
  ASSUME TypeOK, OutPop, NEW r \in Request
  PROVE  Conserves(r)
<1>1. PICK e \in DOMAIN m_list : KeepOnly(DOMAIN m_list \ {e}) /\ l_data' = m_list[e].data
  BY DEF OutPop, QSend_pop_first
<1>2. UNCHANGED <<rx, l_reqs, tasks, w_pc, w_task, rcvd>>
  BY DEF OutPop, workVars, sockVars, peerVars
<1>3. PICK f : /\ \A i \in DOMAIN m_list' : f[i] \in DOMAIN m_list \ {e} /\ m_list'[i] = m_list[f[i]]
               /\ \A i, j \in DOMAIN m_list' : f[i] = f[j] => i = j
  BY <1>1, KeepOnlyMap DEF TypeOK, SendTypeOK
<1> DEFINE From(p, s) ==
         \/ p = s /\ p[1] # "queue" /\ p[1] # "sendbuf"
         \/ \E i \in DOMAIN m_list' : \E j : p = <<"queue", i, j>> /\ s = <<"queue", f[i], j>>
         \/ \E j : p = <<"sendbuf", j>> /\ s = <<"queue", e, j>>
<1>4. \A p : IsPlace(r, p)' => \E s : IsPlace(r, s) /\ From(p, s)
  <2> SUFFICES ASSUME NEW p, IsPlace(r, p)' PROVE \E s : IsPlace(r, s) /\ From(p, s)
    OBVIOUS
  <2>1. CASE InQueue(r, p)'
    <3>1. PICK i \in DOMAIN m_list' : \E j \in DOMAIN m_list'[i].data :
                 m_list'[i].data[j] = r /\ p = <<"queue", i, j>>
      BY <2>1 DEF InQueue
    <3>2. PICK j \in DOMAIN m_list'[i].data : m_list'[i].data[j] = r /\ p = <<"queue", i, j>>
      BY <3>1
    <3>3. InQueue(r, <<"queue", f[i], j>>)
      BY <1>3, <3>2 DEF InQueue
    <3> QED  BY <3>2, <3>3 DEF IsPlace
  <2>2. CASE InSendbuf(r, p)'
    <3>1. PICK j \in DOMAIN l_data' : l_data'[j] = r /\ p = <<"sendbuf", j>>
      BY <2>2 DEF InSendbuf
    <3>2. InQueue(r, <<"queue", e, j>>)
      BY <1>1, <3>1 DEF InQueue
    <3> QED  BY <3>1, <3>2 DEF IsPlace
  <2>3. CASE ~ InQueue(r, p)' /\ ~ InSendbuf(r, p)'
    <3>1. IsPlace(r, p) /\ p[1] # "queue" /\ p[1] # "sendbuf"
      BY <1>2, <2>3, PlaceKept, PlaceKind DEF IsPlace
    <3> QED  BY <3>1
  <2> QED  BY <2>1, <2>2, <2>3
<1>5. \A p, q, s : From(p, s) /\ From(q, s) => p = q
  BY <1>3
<1> HIDE DEF From
<1> QED  BY <1>4, <1>5 DEF Conserves, Once, Absent

\* send moves the first responses of the buffer to the end of what the client
\* has received, or they are gone with the client.
LEMMA SendMoves ==
  ASSUME TypeOK, OutSend, NEW r \in Request
  PROVE  Conserves(r)
<1>1. PICK k \in Client : \E m \in 1 .. Len(l_data) :
        Deliver(k, m) /\ l_data' = SubSeq(l_data, m + 1, Len(l_data))
  BY DEF OutSend
<1>2. PICK m \in 1 .. Len(l_data) : Deliver(k, m) /\ l_data' = SubSeq(l_data, m + 1, Len(l_data))
  BY <1>1
<1>3. l_data \in Seq(Request) /\ rcvd \in [Client -> Seq(Request)] /\ rcvd[k] \in Seq(Request)
  BY DEF TypeOK, LoopTypeOK, SockTypeOK
<1>4. UNCHANGED <<rx, l_reqs, tasks, w_pc, w_task, m_list>>
  BY DEF OutSend, workVars, sendVars
<1>5. \A i \in DOMAIN l_data' : i \in Nat \ {0} /\ m + i \in DOMAIN l_data /\ l_data'[i] = l_data[m + i]
  BY <1>2, <1>3
<1> DEFINE n == Len(rcvd[k])
<1>6. n \in Nat /\ m \in Nat /\ \A i \in DOMAIN rcvd[k] : i \in 1 .. n
  BY <1>3
<1>7. /\ \A c \in Client : c # k => rcvd'[c] = rcvd[c]
      /\ \A i \in DOMAIN rcvd'[k] :
           \/ i \in DOMAIN rcvd[k] /\ rcvd'[k][i] = rcvd[k][i]
           \/ i - n \in 1 .. m /\ i - n \in DOMAIN l_data /\ rcvd'[k][i] = l_data[i - n] /\ i \in Nat
  <2>1. CASE peer[k] # "up"
    BY <1>2, <2>1 DEF Deliver
  <2>2. CASE peer[k] = "up"
    <3> DEFINE d == SubSeq(l_data, 1, m)
    <3>1. d \in Seq(Request) /\ Len(d) = m /\ \A j \in 1 .. m : j \in DOMAIN l_data /\ d[j] = l_data[j]
      BY <1>3
    <3>2. rcvd' = [rcvd EXCEPT ![k] = rcvd[k] \o d]
      BY <1>2, <2>2 DEF Deliver
    <3> HIDE DEF d
    <3>3. rcvd'[k] = rcvd[k] \o d /\ \A c \in Client : c # k => rcvd'[c] = rcvd[c]
      BY <1>3, <3>2
    <3>4. \A i \in DOMAIN rcvd'[k] :
            \/ i \in DOMAIN rcvd[k] /\ rcvd'[k][i] = rcvd[k][i]
            \/ i - n \in 1 .. m /\ rcvd'[k][i] = d[i - n] /\ i \in Nat
      BY <1>3, <3>1, <3>3
    <3> QED  BY <3>1, <3>3, <3>4
  <2> QED  BY <2>1, <2>2
<1> HIDE DEF n
<1> DEFINE Fresh(p) == \E i \in 1 .. m : p = <<"client", k, n + i>>
           From(p, s) ==
         \/ p = s /\ p[1] # "sendbuf" /\ ~ Fresh(p)
         \/ \E i \in Nat \ {0} : p = <<"sendbuf", i>> /\ s = <<"sendbuf", m + i>>
         \/ \E i \in 1 .. m : p = <<"client", k, n + i>> /\ s = <<"sendbuf", i>>
<1>8. \A p : IsPlace(r, p)' => \E s : IsPlace(r, s) /\ From(p, s)
  <2> SUFFICES ASSUME NEW p, IsPlace(r, p)' PROVE \E s : IsPlace(r, s) /\ From(p, s)
    OBVIOUS
  <2>1. CASE InSendbuf(r, p)'
    <3>1. PICK i \in DOMAIN l_data' : l_data'[i] = r /\ p = <<"sendbuf", i>>
      BY <2>1 DEF InSendbuf
    <3>2. InSendbuf(r, <<"sendbuf", m + i>>) /\ i \in Nat \ {0}
      BY <1>5, <3>1 DEF InSendbuf
    <3> QED  BY <3>1, <3>2 DEF IsPlace
  <2>2. CASE AtClient(r, p)'
    <3>1. PICK c \in Client : \E i \in DOMAIN rcvd'[c] : rcvd'[c][i] = r /\ p = <<"client", c, i>>
      BY <2>2 DEF AtClient
    <3>2. PICK i \in DOMAIN rcvd'[c] : rcvd'[c][i] = r /\ p = <<"client", c, i>>
      BY <3>1
    <3>3. CASE i \in DOMAIN rcvd[c] /\ rcvd'[c][i] = rcvd[c][i]
      <4>1. AtClient(r, p)
        BY <3>2, <3>3 DEF AtClient
      <4>2. ~ Fresh(p)
        BY <1>6, <3>2, <3>3
      <4>3. p[1] # "sendbuf"
        BY <3>2
      <4> QED  BY <4>1, <4>2, <4>3 DEF IsPlace
    <3>4. CASE c = k /\ i - n \in 1 .. m /\ i - n \in DOMAIN l_data /\ rcvd'[k][i] = l_data[i - n] /\ i \in Nat
      <4>1. InSendbuf(r, <<"sendbuf", i - n>>)
        BY <3>2, <3>4 DEF InSendbuf
      <4>2. n + (i - n) = i
        BY <1>6, <3>4
      <4> QED  BY <3>2, <3>4, <4>1, <4>2 DEF IsPlace
    <3> QED  BY <1>7, <3>2, <3>3, <3>4
  <2>3. CASE ~ InSendbuf(r, p)' /\ ~ AtClient(r, p)'
    <3>1. IsPlace(r, p) /\ p[1] # "sendbuf" /\ p[1] # "client"
      BY <1>4, <2>3, PlaceKept, PlaceKind DEF IsPlace
    <3>2. ~ Fresh(p)
      BY <3>1
    <3> QED  BY <3>1, <3>2
  <2> QED  BY <2>1, <2>2, <2>3
<1>9. \A p, q, s : From(p, s) /\ From(q, s) => p = q
  BY <1>6
<1> HIDE DEF From
<1> QED  BY <1>8, <1>9 DEF Conserves, Once, Absent

\* What no step does: double a request, or make one nobody sent.
OnceInv == \A r \in Request : Once(r) /\ (r.n > nsent[r.from] => Absent(r))

\* The next request of a client is new.
LEMMA AskOnce ==
  ASSUME TypeOK, OnceInv, NEW k \in Client, ClientSend(k), Clients
  PROVE  OnceInv'
<1>0. PICK x : x = [from |-> k, n |-> nsent[k] + 1]
  OBVIOUS
<1>1. /\ rx \in [Client -> Seq(Request)] /\ nsent \in [Client -> 0 .. MaxReq]
      /\ nsent' = [nsent EXCEPT ![k] = @ + 1]
      /\ rx' = [rx EXCEPT ![k] = Append(rx[k], x)]
      /\ UNCHANGED <<l_reqs, tasks, w_pc, w_task, m_list, l_data, rcvd>>
  BY <1>0 DEF ClientSend, Clients, TypeOK, SockTypeOK, sendVars, workVars, loopVars
<1>2. /\ x.from = k /\ x.n = nsent[k] + 1 /\ nsent[k] \in Nat
      /\ nsent'[k] = nsent[k] + 1 /\ \A c \in Client : c # k => nsent'[c] = nsent[c]
      /\ rx'[k] = Append(rx[k], x) /\ \A c \in Client : c # k => rx'[c] = rx[c]
  BY <1>0, <1>1
<1> SUFFICES ASSUME NEW r \in Request
             PROVE  Once(r)' /\ (r.n > nsent'[r.from] => Absent(r)')
  BY DEF OnceInv
<1>3. r.from \in Client /\ r.n \in Nat /\ rx[k] \in Seq(Request)
  <2>1. r.from \in Client /\ r.n \in Nat
    BY DEF Request
  <2> QED  BY <1>1, <2>1
<1>4. Once(r) /\ (r.n > nsent[r.from] => Absent(r))
  BY DEF OnceInv
<1> DEFINE n == Len(rx[k]) + 1
<1>5. \A i \in DOMAIN rx'[k] : IF i = n THEN rx'[k][i] = x
                               ELSE i \in DOMAIN rx[k] /\ rx'[k][i] = rx[k][i]
  BY <1>2, <1>3
<1> HIDE DEF n
<1>6. CASE r # x
  <2>1. ASSUME NEW p PROVE InSocket(r, p)' => InSocket(r, p)
    BY <1>2, <1>3, <1>5, <1>6 DEF InSocket
  <2>2. \A p : IsPlace(r, p)' => IsPlace(r, p)
    BY <1>1, <2>1, PlaceKept DEF IsPlace
  <2>3. r.n > nsent'[r.from] => r.n > nsent[r.from]
    BY <1>1, <1>2, <1>3
  <2> QED  BY <1>4, <2>2, <2>3, FewerPlaces DEF Conserves
<1>7. CASE r = x
  <2>1. Absent(r) /\ ~ (r.n > nsent'[r.from])
    BY <1>2, <1>4, <1>7
  <2>2. ASSUME NEW p PROVE InSocket(r, p)' => p = <<"rx", n>>
    <3> SUFFICES ASSUME InSocket(r, p)' PROVE p = <<"rx", n>>
      OBVIOUS
    <3>1. PICK i \in DOMAIN rx'[k] : rx'[k][i] = r /\ p = <<"rx", i>>
      BY <1>2, <1>7 DEF InSocket
    <3>2. i # n => InSocket(r, p)
      BY <1>2, <1>5, <1>7, <3>1 DEF InSocket
    <3> QED  BY <2>1, <3>1, <3>2 DEF Absent, IsPlace
  <2>3. \A p : IsPlace(r, p)' => p = <<"rx", n>>
    BY <1>1, <2>1, <2>2, PlaceKept DEF IsPlace, Absent
  <2> QED  BY <2>1, <2>3 DEF Once
<1> QED  BY <1>6, <1>7

\* Every step of the server conserves every request.
LEMMA ServerConserves ==
  ASSUME TypeOK, OwnRequests, [Next]_vars, ~ Clients, NEW r \in Request
  PROVE  Conserves(r)
<1> USE DEF sendVars, workVars, sockVars, peerVars, loopVars
<1>1. ASSUME UNCHANGED <<rx, l_reqs, tasks, w_pc, w_task, m_list, l_data, rcvd>>
      PROVE  Conserves(r)
  <2>1. \A p : IsPlace(r, p)' => IsPlace(r, p)
    BY <1>1, PlaceKept DEF IsPlace
  <2> QED  BY <2>1, FewerPlaces
<1>2. CASE UNCHANGED vars
  BY <1>1, <1>2 DEF vars
<1>3. CASE Listen
  BY <1>1, <1>3 DEF Listen, listen, Accept, Insert, Add, AddFails, Undo, accept, epoll_ctl_add
<1>4. CASE EpollWait \/ Dispatch
  BY <1>1, <1>4 DEF EpollWait, Dispatch
<1>5. CASE InFind \/ InAgain \/ InError \/ InEof \/ InRmConn \/ InClose
  BY <1>1, <1>5 DEF InFind, InAgain, InError, InEof, InRmConn, InClose, close
<1>6. CASE InRmQueue
  <2>1. KeepOnly(DOMAIN m_list \ PositionsOf(l_id))
    BY <1>6 DEF InRmQueue, QSend_remove_all_by_connid
  <2> QED  BY <1>6, <2>1, EraseMoves DEF InRmQueue
<1>7. CASE OutFind \/ OutPopFails \/ OutMod
  BY <1>1, <1>7 DEF OutFind, OutPopFails, QSend_pop_first_fails, OutMod, epoll_ctl_mod
<1>8. CASE OutSendError
  <2>1. l_data' = <<>> /\ UNCHANGED <<rx, l_reqs, tasks, w_pc, w_task, m_list, rcvd>>
    BY <1>8 DEF OutSendError
  <2>2. ASSUME NEW p PROVE ~ InSendbuf(r, p)'
    BY <2>1 DEF InSendbuf
  <2>3. \A p : IsPlace(r, p)' => IsPlace(r, p)
    BY <2>1, <2>2, PlaceKept DEF IsPlace
  <2> QED  BY <2>3, FewerPlaces
<1>9. CASE SendRmQueue
  <2>1. KeepOnly(DOMAIN m_list \ PositionsOf(s_connid))
    BY <1>9 DEF SendRmQueue, QSend_remove_all_by_connid
  <2> QED  BY <1>9, <2>1, EraseMoves DEF SendRmQueue
<1>10. CASE QueueStep \/ SendLookup \/ SendMod \/ SendModFails \/ SendRmConn \/ Wakeup
  BY <1>1, <1>10 DEF QueueStep, SendFront, send_wait, SendLookup, SendMod, SendModFails,
                     SendRmConn, Wakeup, SpuriousWakeup, epoll_ctl_mod
<1>11. ASSUME NEW w \in Worker, PoolThread(w) PROVE Conserves(r)
  BY <1>11, TakeMoves, ResponseMoves, WorkEnds DEF PoolThread, WorkerNext
<1> QED
  BY <1>2, <1>3, <1>4, <1>5, <1>6, <1>7, <1>8, <1>9, <1>10, <1>11,
     RecvMoves, PushMoves, PopMoves, SendMoves
  DEF Next, Loop, handle_EPOLLIN_event, handle_EPOLLOUT_event, send_func

\* The steps of the clients: only ClientSend makes a request.
LEMMA ClientsOnce ==
  ASSUME TypeOK, OnceInv, Clients
  PROVE  OnceInv'
<1>1. CASE UNCHANGED <<rx, rcvd, nsent>>
  <2> SUFFICES ASSUME NEW r \in Request
               PROVE  Once(r)' /\ (r.n > nsent'[r.from] => Absent(r)')
    BY DEF OnceInv
  <2>1. \A p : IsPlace(r, p)' => IsPlace(r, p)
    BY <1>1, PlaceKept DEF Clients, sendVars, workVars, loopVars, IsPlace
  <2>2. Once(r) /\ (r.n > nsent[r.from] => Absent(r))
    BY DEF OnceInv
  <2> QED  BY <1>1, <2>1, <2>2, FewerPlaces DEF Conserves
<1> QED
  BY <1>1, AskOnce
  DEF Clients, ClientNext, ClientConnect, ClientRead, ClientClose, ClientReset

\* Only clients send requests.
LEMMA SentByClients ==
  ASSUME [Next]_vars, ~ Clients
  PROVE  UNCHANGED nsent
<1> USE DEF sockVars, peerVars
<1>1. CASE Listen
  BY <1>1 DEF Listen, listen, Accept, Insert, Add, AddFails, Undo, accept, epoll_ctl_add
<1>2. CASE EpollWait \/ Dispatch
  BY <1>2 DEF EpollWait, Dispatch
<1>3. CASE handle_EPOLLIN_event
  BY <1>3 DEF handle_EPOLLIN_event, InFind, InRecv, InPush, InAgain, InError, InEof,
              InRmQueue, InRmConn, InClose, close
<1>4. CASE handle_EPOLLOUT_event
  BY <1>4 DEF handle_EPOLLOUT_event, OutFind, OutPop, OutPopFails, OutSend,
              OutSendError, OutMod, epoll_ctl_mod
<1>5. CASE send_func \/ Wakeup
  BY <1>5 DEF send_func, QueueStep, SendLookup, SendMod, SendModFails, SendRmQueue,
              SendRmConn, Wakeup, epoll_ctl_mod
<1>6. CASE UNCHANGED vars \/ \E w \in Worker : PoolThread(w)
  BY <1>6 DEF PoolThread, vars
<1> QED  BY <1>1, <1>2, <1>3, <1>4, <1>5, <1>6 DEF Next, Loop

\* All steps together.
LEMMA OnceNext == TypeOK /\ OwnRequests /\ OnceInv /\ [Next]_vars => OnceInv'
<1> SUFFICES ASSUME TypeOK, OwnRequests, OnceInv, [Next]_vars, ~ Clients PROVE OnceInv'
  BY ClientsOnce
<1>1. UNCHANGED nsent
  BY SentByClients
<1>2. ASSUME NEW r \in Request PROVE Conserves(r)
  BY ServerConserves
<1> QED  BY <1>1, <1>2 DEF OnceInv, Conserves

\* A set without two different elements has at most one.
LEMMA AtMostOneElement ==
  ASSUME NEW S, \A p, q \in S : p = q
  PROVE  Cardinality(S) <= 1
<1>1. CASE S = {}
  BY <1>1, FS_EmptySet
<1>2. ASSUME NEW p \in S PROVE Cardinality(S) <= 1
  <2>1. S = {p}
    OBVIOUS
  <2>2. Cardinality({p}) = 1
    BY Zenon, FS_Singleton
  <2>3. Cardinality(S) = 1
    BY <2>1, <2>2
  <2> QED  BY <2>3
<1> QED  BY <1>1, <1>2

\* No request is in two places, throughout.
LEMMA OnceAlways == Spec => [](OwnRequests /\ OnceInv)
<1>1. Init => OwnRequests /\ OnceInv
  <2> SUFFICES ASSUME Init PROVE OwnRequests /\ OnceInv
    OBVIOUS
  <2>1. OwnRequests
    BY DEF Init, SockInit, OwnRequests
  <2>2. ASSUME NEW r \in Request PROVE Absent(r)
    <3> SUFFICES ASSUME NEW p PROVE ~ IsPlace(r, p)
      BY DEF Absent
    <3>0. r.from \in Client
      BY DEF Request
    <3>1. ~ InSocket(r, p) /\ ~ AtClient(r, p)
      BY <3>0 DEF Init, SockInit, InSocket, AtClient
    <3>2. ~ InBuffer(r, p) /\ ~ InSendbuf(r, p)
      BY DEF Init, InBuffer, InSendbuf
    <3>3. ~ InPool(r, p) /\ ~ AtWork(r, p)
      BY DEF Init, workpool_start, InPool, AtWork
    <3>4. ~ InQueue(r, p)
      BY DEF Init, create_send_helper, InQueue
    <3> QED  BY <3>1, <3>2, <3>3, <3>4 DEF IsPlace
  <2> QED  BY <2>1, <2>2 DEF OnceInv, Once, Absent
<1> QED  BY <1>1, OnceNext, RouteRx, TypeCorrect, PTL DEF Spec

\* Whatever the clients, the handlers and the network do, and whether or not
\* identifiers repeat: a request is in one place at most, so it is handed to one
\* pool thread, answered once, and its answer sent once.
THEOREM HandledAtMostOnce == Spec => []AtMostOnce
<1>1. OnceInv => AtMostOnce
  <2> SUFFICES ASSUME OnceInv, NEW r \in Request PROVE Cardinality(Copies(r)) <= 1
    BY DEF AtMostOnce
  <2>1. \A p, q \in Copies(r) : p = q
    BY CopiesPlaces DEF OnceInv, Once
  <2> QED  BY <2>1, AtMostOneElement
<1> QED  BY <1>1, OnceAlways, PTL

-----------------------------------------------------------------------------
(* The service. *)

\* The requests that were made, as module Service sees them.
Asked == {r \in Request : r.n <= nsent[r.from]}

\* At the start nothing was asked and nothing answered.
LEMMA ServiceInit == Init => Promise!Init
<1> SUFFICES ASSUME Init PROVE Promise!Init
  OBVIOUS
<1>1. nsent = [k \in Client |-> 0] /\ rcvd = [k \in Client |-> <<>>]
  BY DEF Init, SockInit
<1>2. \A r \in Request : ~ (r.n <= nsent[r.from])
  BY <1>1, SocketsAssumption DEF Request
<1> QED  BY <1>1, <1>2 DEF Promise!Init

\* ClientSend asks for something new.
LEMMA ServiceAsk ==
  ASSUME TypeOK, NEW k \in Client, ClientSend(k)
  PROVE  Promise!Next
<1>0. PICK x : x = [from |-> k, n |-> nsent[k] + 1]
  OBVIOUS
<1>1. nsent \in [Client -> 0 .. MaxReq] /\ nsent[k] < MaxReq /\ MaxReq \in Nat
  BY SocketsAssumption DEF TypeOK, SockTypeOK, ClientSend
<1>2. x \in Request /\ x.from = k /\ x.n = nsent[k] + 1
  BY <1>0, <1>1 DEF Request
<1>3. /\ nsent'[k] = nsent[k] + 1
      /\ \A c \in Client : c # k => nsent'[c] = nsent[c]
      /\ UNCHANGED rcvd
  BY <1>1 DEF ClientSend
<1>4. x \notin Asked
  BY <1>1, <1>2 DEF Asked
<1>5. ASSUME NEW r \in Request PROVE r.n <= nsent'[r.from] <=> r.n <= nsent[r.from] \/ r = x
  <2>1. r.from \in Client /\ r.n \in Nat /\ r = [from |-> r.from, n |-> r.n]
    BY DEF Request
  <2>2. CASE r.from # k
    BY <1>2, <1>3, <2>1, <2>2
  <2>3. CASE r.from = k
    <3>1. nsent[k] \in Nat
      BY <1>1
    <3>2. r.n = nsent[k] + 1 <=> r = x
      BY <1>0, <2>1, <2>3
    <3> QED  BY <1>3, <2>1, <2>3, <3>1, <3>2
  <2> QED  BY <2>2, <2>3
<1>6. Asked' = Asked \cup {x}
  BY <1>2, <1>5 DEF Asked
<1>7. Promise!Ask(x)
  BY <1>3, <1>4, <1>6 DEF Promise!Ask, Asked
<1> QED  BY <1>2, <1>7 DEF Promise!Next, Promise!Request, Request

\* What client k waits for, as module Service sees it, is finite.
LEMMA OutstandingFinite ==
  ASSUME NEW k \in Client
  PROVE  IsFiniteSet(Promise!Outstanding(k))
<1> DEFINE f == [i \in 1 .. MaxReq |-> [from |-> k, n |-> i]]
           T == {[from |-> k, n |-> i] : i \in 1 .. MaxReq}
<1>1. IsFiniteSet(1 .. MaxReq)
  BY FS_Interval, SocketsAssumption
<1>2. f \in Surjection(1 .. MaxReq, T)
  BY DEF Surjection
<1> HIDE DEF f
<1>3. IsFiniteSet(T)
  BY <1>1, <1>2, FS_Surjection
<1>4. Promise!Outstanding(k) \subseteq T
  <2> SUFFICES ASSUME NEW r \in Promise!Outstanding(k) PROVE r \in T
    OBVIOUS
  <2>1. r \in Request /\ r.from = k
    BY DEF Promise!Outstanding
  <2>2. r.n \in 1 .. MaxReq /\ r = [from |-> r.from, n |-> r.n]
    BY <2>1 DEF Request
  <2> QED  BY <2>1, <2>2
<1> QED  BY <1>3, <1>4, FS_Subset

\* send answers requests of the client that waits for them.
LEMMA ServiceAnswer ==
  ASSUME TypeOK, LoopServesOwner, RouteInv, OnceInv, OutSend
  PROVE  Promise!Next \/ UNCHANGED Promise!vars
<1>0. UNCHANGED nsent
  BY DEF OutSend
<1>1. PICK k \in Client : k = sock[l_fd] /\ \E m \in 1 .. Len(l_data) : Deliver(k, m)
  BY DEF OutSend
<1>2. PICK m \in 1 .. Len(l_data) : Deliver(k, m)
  BY <1>1
<1>3. CASE peer[k] # "up"
  BY <1>0, <1>2, <1>3 DEF Deliver, Promise!vars
<1>4. CASE peer[k] = "up"
  <2> DEFINE d == SubSeq(l_data, 1, m)
             O == Promise!Outstanding(k)
  <2>1. rcvd' = [rcvd EXCEPT ![k] = rcvd[k] \o d]
    BY <1>2, <1>4 DEF Deliver
  <2>2. l_data \in Seq(Request) /\ nsent \in [Client -> 0 .. MaxReq]
    BY DEF TypeOK, LoopTypeOK, SockTypeOK
  <2>3. /\ d \in [1 .. m -> Request] /\ m \in Nat \ {0}
        /\ \A i \in 1 .. m : i \in DOMAIN l_data /\ d[i] = l_data[i]
    <3>1. m \in Nat \ {0} /\ d \in Seq(Request) /\ Len(d) = m
      BY <2>2
    <3>2. \A i \in 1 .. m : i \in DOMAIN l_data /\ d[i] = l_data[i]
      BY <2>2
    <3> HIDE DEF d
    <3> QED  BY <3>1, <3>2
  <2> HIDE DEF d
  <2>4. \A i \in 1 .. m : d[i] \in Request /\ InSendbuf(d[i], <<"sendbuf", i>>)
    BY <2>3 DEF InSendbuf
  <2>5. ASSUME NEW i \in 1 .. m PROVE d[i] \in O
    <3>1. d[i] \in Request /\ Once(d[i]) /\ IsPlace(d[i], <<"sendbuf", i>>)
      BY <2>4 DEF OnceInv, IsPlace
    <3>2. d[i].from = k
      BY <1>1, <2>3 DEF OutSend, RouteInv, LoopServesOwner, OutPC
    <3>3. d[i].n \in Nat /\ nsent[k] \in Nat
      <4>1. d[i].n \in Nat
        BY <3>1 DEF Request
      <4> QED  BY <2>2, <4>1
    <3>4. d[i].n <= nsent[d[i].from]
      BY <3>1, <3>2, <3>3 DEF OnceInv, Absent
    <3>5. ASSUME NEW j \in DOMAIN rcvd[k], rcvd[k][j] = d[i] PROVE FALSE
      <4>1. IsPlace(d[i], <<"client", k, j>>)
        BY <3>5 DEF AtClient, IsPlace
      <4>2. <<"client", k, j>> = <<"sendbuf", i>>
        BY <3>1, <4>1 DEF Once
      <4> QED  BY <4>2
    <3> QED  BY <3>1, <3>2, <3>4, <3>5 DEF Promise!Outstanding
  <2>6. ASSUME NEW i \in 1 .. m, NEW j \in 1 .. m, d[i] = d[j] PROVE i = j
    <3>1. <<"sendbuf", i>> = <<"sendbuf", j>>
      BY <2>4, <2>6 DEF OnceInv, Once, IsPlace
    <3> QED  BY <3>1
  <2> HIDE DEF O
  <2>7. d \in [1 .. m -> O]
    BY <2>3, <2>5
  <2>8. d \in Injection(1 .. m, O)
    BY <2>6, <2>7 DEF Injection, IsInjective
  <2>9. m <= Cardinality(O) /\ Cardinality(O) \in Nat
    <3>1. IsFiniteSet(O)
      BY OutstandingFinite DEF O
    <3>2. Cardinality(1 .. m) <= Cardinality(O)
      BY <2>8, <3>1, FS_Injection
    <3>3. Cardinality(1 .. m) = m
      BY <2>3, FS_Interval
    <3> QED  BY <3>1, <3>2, <3>3, FS_CardinalityType
  <2>10. d \in Promise!Arrangements(O, m) /\ m \in 1 .. Cardinality(O)
    BY <2>3, <2>6, <2>7, <2>9 DEF Promise!Arrangements
  <2>11. Promise!Cardinality(O) = Cardinality(O)
    BY DEF Promise!Cardinality, Cardinality
  <2>12. Promise!Answer(k)
    BY <1>0, <2>1, <2>10, <2>11 DEF Promise!Answer, O
  <2> QED  BY <2>12 DEF Promise!Next
<1> QED  BY <1>3, <1>4

\* Every other step is one the clients do not see.
LEMMA ServiceStep ==
  ASSUME TypeOK, LoopServesOwner, RouteInv, OnceInv, [Next]_vars
  PROVE  Promise!Next \/ UNCHANGED Promise!vars
<1> USE DEF sockVars, peerVars
<1>1. ASSUME UNCHANGED <<nsent, rcvd>> PROVE UNCHANGED Promise!vars
  BY <1>1 DEF Promise!vars
<1>2. CASE Clients
  BY <1>1, <1>2, ServiceAsk DEF Clients, ClientNext, ClientConnect, ClientRead, ClientClose, ClientReset
<1>3. CASE Listen
  BY <1>1, <1>3 DEF Listen, listen, Accept, Insert, Add, AddFails, Undo, accept, epoll_ctl_add
<1>4. CASE EpollWait \/ Dispatch
  BY <1>1, <1>4 DEF EpollWait, Dispatch
<1>5. CASE handle_EPOLLIN_event
  BY <1>1, <1>5 DEF handle_EPOLLIN_event, InFind, InRecv, InPush, InAgain, InError, InEof,
                    InRmQueue, InRmConn, InClose, close
<1>6. CASE OutFind \/ OutPop \/ OutPopFails \/ OutSendError \/ OutMod
  BY <1>1, <1>6 DEF OutFind, OutPop, OutPopFails, OutSendError, OutMod, epoll_ctl_mod
<1>7. CASE send_func \/ Wakeup
  BY <1>1, <1>7 DEF send_func, QueueStep, SendLookup, SendMod, SendModFails, SendRmQueue,
                    SendRmConn, Wakeup, epoll_ctl_mod
<1>8. CASE UNCHANGED vars \/ \E w \in Worker : PoolThread(w)
  BY <1>1, <1>8 DEF PoolThread, vars
<1> QED
  BY <1>2, <1>3, <1>4, <1>5, <1>6, <1>7, <1>8, ServiceAnswer
  DEF Next, Loop, handle_EPOLLOUT_event

\* If Gen_ConnID never repeats an identifier, what clients see of the server is
\* the service: every step is a step of module Service or one that clients do
\* not see.
THEOREM ServiceImplemented == ~ ReuseIds /\ Spec => ImplementsService
<1> SUFFICES ASSUME ~ ReuseIds PROVE Spec => ImplementsService
  OBVIOUS
<1>1. TypeOK /\ LoopServesOwner /\ RouteInv /\ OnceInv /\ [Next]_vars
        => [Promise!Next]_(Promise!vars)
  BY ServiceStep
<1>2. Spec => []LoopServesOwner
  BY LoopSafe
<1>3. Spec => []RouteInv
  BY RouteAlways
<1> QED
  BY <1>1, <1>2, <1>3, ServiceInit, OnceAlways, TypeCorrect, PTL
  DEF Spec, ImplementsService, Promise!Spec

-----------------------------------------------------------------------------
(* Nothing is lost. *)

\* The client's end of the connection is closed or reset.
Ended(k) == peer[k] \notin {"idle", "up"}

(***************************************************************************)
(* A request can be lost in three ways, none of which happens while the    *)
(* client is connected: the loop overwrites a buffer that is not empty; a  *)
(* connection's entries are cleared from the queue; the data is sent to a  *)
(* socket whose other end is gone.  For the second one, the identifier the *)
(* loop or the send thread clears must belong to a client that has gone:   *)
(* an identifier in use leaves the table only after the loop has seen the  *)
(* end of the connection.                                                  *)
(***************************************************************************)
BuffersInv ==
  /\ l_pc # "push" => l_reqs = <<>>
  /\ l_pc # "send" => l_data = <<>>

EndInv == l_pc \in {"rm_queue", "rm_conn", "close"} => Ended(sock[l_fd])

GoneInv ==
  \A c \in CONNID : Used(c) /\ c # SVR_INVALID_CONNECT_ID /\ ~ InTable(c) => Ended(owner[c])

KeptInv ==
  \A r \in Request : r.n <= nsent[r.from] /\ ~ Ended(r.from) => \E p : IsPlace(r, p)

\* A connection that has ended does not come back.
LEMMA EndedStays ==
  ASSUME TypeOK, [Next]_vars, NEW k \in Client, Ended(k)
  PROVE  Ended(k)'
<1> USE DEF sockVars, peerVars, Ended
<1>0. peer \in [Client -> PeerState]
  BY DEF TypeOK, SockTypeOK
<1>1. CASE UNCHANGED peer
  BY <1>1
<1>2. ASSUME NEW c \in Client, peer' = [peer EXCEPT ![c] = "dead"] PROVE Ended(k)'
  BY <1>0, <1>2
<1>3. ASSUME NEW c \in Client, ClientConnect(c) \/ ClientClose(c) \/ ClientReset(c) PROVE Ended(k)'
  BY <1>0, <1>3 DEF ClientConnect, ClientClose, ClientReset
<1>4. CASE Clients
  BY <1>1, <1>3, <1>4 DEF Clients, ClientNext, ClientSend, ClientRead
<1>5. CASE InError
  BY <1>2, <1>5 DEF InError
<1>6. CASE OutSendError
  BY <1>2, <1>6 DEF OutSendError
<1>7. CASE Listen
  BY <1>1, <1>7 DEF Listen, listen, Accept, Insert, Add, AddFails, Undo, accept, epoll_ctl_add
<1>8. CASE EpollWait \/ Dispatch
  BY <1>1, <1>8 DEF EpollWait, Dispatch
<1>9. CASE InFind \/ InRecv \/ InPush \/ InAgain \/ InEof \/ InRmQueue \/ InRmConn \/ InClose
  BY <1>1, <1>9 DEF InFind, InRecv, InPush, InAgain, InEof, InRmQueue, InRmConn, InClose, close
<1>10. CASE OutFind \/ OutPop \/ OutPopFails \/ OutSend \/ OutMod
  BY <1>1, <1>10 DEF OutFind, OutPop, OutPopFails, OutSend, OutMod, epoll_ctl_mod
<1>11. CASE send_func \/ Wakeup
  BY <1>1, <1>11 DEF send_func, QueueStep, SendLookup, SendMod, SendModFails, SendRmQueue,
                     SendRmConn, Wakeup, epoll_ctl_mod
<1>12. CASE UNCHANGED vars \/ \E w \in Worker : PoolThread(w)
  BY <1>1, <1>12 DEF PoolThread, vars
<1> QED
  BY <1>4, <1>5, <1>6, <1>7, <1>8, <1>9, <1>10, <1>11, <1>12
  DEF Next, Loop, handle_EPOLLIN_event, handle_EPOLLOUT_event

\* The loop reads a buffer only while it is in the middle of handing it on.
LEMMA BuffersNext == TypeOK /\ BuffersInv /\ [Next]_vars => BuffersInv'
<1> SUFFICES ASSUME TypeOK, BuffersInv, [Next]_vars PROVE BuffersInv'
  OBVIOUS
<1> USE DEF BuffersInv, loopVars
<1>1. CASE Listen
  BY <1>1 DEF Listen, listen, Accept, Insert, Add, AddFails, Undo
<1>2. CASE EpollWait \/ Dispatch
  BY <1>2 DEF EpollWait, Dispatch
<1>3. CASE InFind \/ InRecv \/ InPush \/ InAgain \/ InError
  BY <1>3 DEF InFind, InRecv, InPush, InAgain, InError, InReturns
<1>4. CASE InEof \/ InRmQueue \/ InRmConn \/ InClose
  BY <1>4 DEF InEof, InRmQueue, InRmConn, InClose, InReturns
<1>5. CASE OutFind \/ OutPop \/ OutPopFails \/ OutSendError \/ OutMod
  BY <1>5 DEF OutFind, OutPop, OutPopFails, OutSendError, OutMod, OutReturns
<1>6. CASE OutSend
  <2>1. PICK m \in 1 .. Len(l_data) :
             /\ l_data' = SubSeq(l_data, m + 1, Len(l_data))
             /\ l_pc' = IF m = Len(l_data) THEN "mod" ELSE "send"
    BY <1>6 DEF OutSend
  <2>2. l_data \in Seq(Request)
    BY DEF TypeOK, LoopTypeOK
  <2>3. m = Len(l_data) => l_data' = <<>>
    BY <2>1, <2>2
  <2>4. l_pc = "send" /\ UNCHANGED l_reqs
    BY <1>6 DEF OutSend
  <2> QED  BY <2>1, <2>3, <2>4
<1>7. CASE send_func \/ Wakeup
  BY <1>7 DEF send_func, QueueStep, SendLookup, SendMod, SendModFails, SendRmQueue,
              SendRmConn, Wakeup
<1>8. CASE Clients \/ UNCHANGED vars \/ \E w \in Worker : PoolThread(w)
  BY <1>8 DEF Clients, PoolThread, vars
<1> QED
  BY <1>1, <1>2, <1>3, <1>4, <1>5, <1>6, <1>7, <1>8
  DEF Next, Loop, handle_EPOLLIN_event, handle_EPOLLOUT_event

\* The loop takes a connection down only when recv has returned 0.
LEMMA EndNext ==
  ASSUME TypeOK, TableInv, EndInv, [Next]_vars
  PROVE  EndInv'
<1> SUFFICES ASSUME l_pc' \in {"rm_queue", "rm_conn", "close"} PROVE Ended(sock[l_fd])'
  BY DEF EndInv
<1>1. Serving'
  BY DEF Serving, InPC
<1>2. /\ l_fd' = l_fd
      /\ Serving
      /\ l_pc \in {"rm_queue", "rm_conn", "close"} \/ InEof
  <2> USE DEF loopVars, Serving, InPC
  <2>1. CASE Listen
    BY <2>1 DEF Listen, listen, Accept, Insert, Add, AddFails, Undo
  <2>2. CASE EpollWait \/ Dispatch
    BY <2>2 DEF EpollWait, Dispatch
  <2>3. CASE handle_EPOLLIN_event
    BY <2>3 DEF handle_EPOLLIN_event, InFind, InRecv, InPush, InAgain, InError, InEof,
                InRmQueue, InRmConn, InClose, InReturns
  <2>4. CASE handle_EPOLLOUT_event
    BY <2>4 DEF handle_EPOLLOUT_event, OutFind, OutPop, OutPopFails, OutSend,
                OutSendError, OutMod, OutReturns
  <2>5. CASE send_func \/ Wakeup
    BY <2>5 DEF send_func, QueueStep, SendLookup, SendMod, SendModFails, SendRmQueue,
                SendRmConn, Wakeup
  <2>6. CASE Clients \/ UNCHANGED vars \/ \E w \in Worker : PoolThread(w)
    BY <2>6 DEF Clients, PoolThread, vars
  <2> QED  BY <2>1, <2>2, <2>3, <2>4, <2>5, <2>6 DEF Next, Loop
<1>3. Ended(sock[l_fd]) /\ sock[l_fd] \in Client
  BY <1>2 DEF EndInv, InEof, Ended, TableInv
<1>4. peer'[sock[l_fd]] \notin {"idle", "up"}
  <2>1. PICK k \in Client : k = sock[l_fd]
    BY <1>3
  <2>2. Ended(k)'
    BY <1>3, <2>1, EndedStays
  <2> QED  BY <2>1, <2>2 DEF Ended
<1>5. sock'[l_fd] = sock[l_fd]
  BY <1>1, <1>2, SocketStable
<1> QED  BY <1>2, <1>4, <1>5 DEF Ended

\* Who takes an entry out of the table.
LEMMA RemovalOrigin ==
  ASSUME TypeOK, [Next]_vars, NEW c \in CONNID, InTable(c), ~ InTable(c)'
  PROVE  (InRmConn /\ c = l_id) \/ (Undo /\ c = a_id) \/ (SendRmConn /\ c = s_connid)
<1>0. conn_map \in [CONNID -> Fd \cup {NoFd}] /\ l_id \in CONNID /\ a_id \in CONNID /\ s_connid \in CONNID
  BY DEF TypeOK, ConnTypeOK, LoopTypeOK, LisTypeOK, LisBusy, SendTypeOK
<1>1. ASSUME UNCHANGED conn_map PROVE FALSE
  BY <1>1 DEF InTable
<1>2. ASSUME NEW d \in CONNID, conn_remove(d) PROVE c = d
  BY <1>0, <1>2 DEF conn_remove, InTable
<1> USE DEF connVars
<1>3. ASSUME Insert PROVE FALSE
  <2>1. a_fd \in Fd
    BY <1>3 DEF Insert, TypeOK, LisTypeOK, LisBusy
  <2>2. PICK d \in CONNID : conn_map' = [conn_map EXCEPT ![d] = a_fd]
    BY <1>3 DEF Insert, conn_insert
  <2> QED  BY <1>0, <2>1, <2>2 DEF InTable
<1>4. CASE Listen
  BY <1>0, <1>1, <1>2, <1>3, <1>4 DEF Listen, listen, Accept, Add, AddFails, Undo
<1>5. CASE EpollWait \/ Dispatch
  BY <1>1, <1>5 DEF EpollWait, Dispatch
<1>6. CASE InRmConn
  <2>1. conn_remove(l_id)
    BY <1>6 DEF InRmConn
  <2> QED  BY <1>0, <1>2, <1>6, <2>1
<1>7. CASE InFind \/ InRecv \/ InPush \/ InAgain \/ InError \/ InEof \/ InRmQueue \/ InClose
  BY <1>1, <1>7 DEF InFind, InRecv, InPush, InAgain, InError, InEof, InRmQueue, InClose
<1>8. CASE handle_EPOLLOUT_event
  BY <1>1, <1>8 DEF handle_EPOLLOUT_event, OutFind, OutPop, OutPopFails, OutSend,
                    OutSendError, OutMod
<1>9. CASE SendRmConn
  <2>1. conn_remove(s_connid)
    BY <1>9 DEF SendRmConn
  <2> QED  BY <1>0, <1>2, <1>9, <2>1
<1>10. CASE QueueStep \/ SendLookup \/ SendMod \/ SendModFails \/ SendRmQueue \/ Wakeup
  BY <1>1, <1>10 DEF QueueStep, SendLookup, SendMod, SendModFails, SendRmQueue, Wakeup
<1>11. CASE Clients \/ UNCHANGED vars \/ \E w \in Worker : PoolThread(w)
  BY <1>1, <1>11 DEF Clients, PoolThread, vars
<1> QED
  BY <1>4, <1>5, <1>6, <1>7, <1>8, <1>9, <1>10, <1>11
  DEF Next, Loop, send_func, handle_EPOLLIN_event

\* An identifier in use that is not in the table belongs to a client that is gone.
LEMMA GoneNext ==
  ASSUME TypeOK, ~ ReuseIds, TableInv, LoopServesOwner, AccountInv, EndInv, GoneInv, [Next]_vars
  PROVE  GoneInv'
<1> SUFFICES ASSUME NEW c \in CONNID, Used(c)', c # SVR_INVALID_CONNECT_ID, ~ InTable(c)'
             PROVE  Ended(owner[c])'
  BY DEF GoneInv
<1>1. CASE Add /\ c = a_id
  <2>1. InTable(c) /\ UNCHANGED conn_map
    BY <1>1 DEF Add, connVars, AccountInv, RegisteredInv, Pending, InTable, TypeOK, LisTypeOK, LisBusy
  <2> QED  BY <2>1 DEF InTable
<1>2. CASE Used(c)
  <2>1. owner[c] # NoClient /\ (Pending => c # a_id)
    BY <1>2 DEF AccountInv, UsedInv
  <2>2. PICK k \in Client : owner[c] = k
    BY <2>1 DEF TypeOK, ConnTypeOK
  <2>3. owner'[c] = k
    BY <2>1, <2>2, OwnerStable
  <2>4. Ended(k)
    <3>1. CASE ~ InTable(c)
      BY <1>2, <2>2, <3>1 DEF GoneInv
    <3>2. CASE InRmConn /\ c = l_id
      BY <2>2, <3>2 DEF InRmConn, EndInv, LoopServesOwner, InPC
    <3>3. CASE Undo /\ c = a_id
      BY <2>1, <3>3 DEF Undo, Pending
    <3>4. CASE SendRmConn /\ c = s_connid
      BY <1>2, <2>2, <3>4 DEF SendRmConn, AccountInv, HolderInv, Erasing, GoneInv
    <3> QED  BY <3>1, <3>2, <3>3, <3>4, RemovalOrigin
  <2>5. Ended(k)'
    BY <2>4, EndedStays
  <2> QED  BY <2>3, <2>5 DEF Ended
<1> QED  BY <1>1, <1>2, UsedOrigin

-----------------------------------------------------------------------------

\* What a step must not do to the request of a connected client: lose it.
Keeps(r) == (\E p : IsPlace(r, p)) => (\E p : IsPlace(r, p)')

\* Cutting a sequence in two loses nothing.
LEMMA CutKeeps ==
  ASSUME NEW S, NEW q \in Seq(S), NEW m \in 1 .. Len(q), NEW i \in DOMAIN q
  PROVE  \/ i \in DOMAIN SubSeq(q, 1, m) /\ SubSeq(q, 1, m)[i] = q[i]
         \/ /\ i - m \in DOMAIN SubSeq(q, m + 1, Len(q))
            /\ SubSeq(q, m + 1, Len(q))[i - m] = q[i]
<1>1. m \in Nat /\ i \in Nat /\ Len(q) \in Nat /\ 1 <= i /\ i <= Len(q) /\ 1 <= m /\ m <= Len(q)
  OBVIOUS
<1>2. CASE i <= m
  BY <1>1, <1>2
<1>3. CASE i > m
  <2>1. Len(SubSeq(q, m + 1, Len(q))) = Len(q) - m
    BY <1>1
  <2>2. i - m \in 1 .. Len(SubSeq(q, m + 1, Len(q)))
    BY <1>1, <1>3, <2>1
  <2>3. SubSeq(q, m + 1, Len(q))[i - m] = q[(m + 1) + (i - m) - 1]
    BY <1>1, <2>1, <2>2
  <2> QED  BY <1>1, <2>2, <2>3
<1> QED  BY <1>1, <1>2, <1>3

\* recv loses nothing, because the buffer it fills is empty.
LEMMA RecvKeeps ==
  ASSUME TypeOK, BuffersInv, InRecv, NEW r \in Request
  PROVE  Keeps(r)
<1> SUFFICES ASSUME NEW p, IsPlace(r, p) PROVE \E q : IsPlace(r, q)'
  BY DEF Keeps
<1>1. PICK k \in Client : \E m \in 1 .. Len(rx[k]) :
        /\ l_reqs' = SubSeq(rx[k], 1, m)
        /\ rx' = [rx EXCEPT ![k] = SubSeq(rx[k], m + 1, Len(rx[k]))]
  BY DEF InRecv
<1>2. PICK m \in 1 .. Len(rx[k]) :
        /\ l_reqs' = SubSeq(rx[k], 1, m)
        /\ rx' = [rx EXCEPT ![k] = SubSeq(rx[k], m + 1, Len(rx[k]))]
  BY <1>1
<1>3. rx \in [Client -> Seq(Request)] /\ rx[k] \in Seq(Request) /\ r.from \in Client
  <2>1. r.from \in Client
    BY DEF Request
  <2> QED  BY <2>1 DEF TypeOK, SockTypeOK
<1>4. rx'[k] = SubSeq(rx[k], m + 1, Len(rx[k])) /\ \A c \in Client : c # k => rx'[c] = rx[c]
  BY <1>2, <1>3
<1>5. \A i \in DOMAIN rx[k] : \/ i \in DOMAIN l_reqs' /\ l_reqs'[i] = rx[k][i]
                              \/ i - m \in DOMAIN rx'[k] /\ rx'[k][i - m] = rx[k][i]
  BY <1>2, <1>3, <1>4, CutKeeps
<1>6. UNCHANGED <<tasks, w_pc, w_task, m_list, l_data, rcvd>> /\ l_reqs = <<>>
  BY DEF InRecv, workVars, sendVars, BuffersInv
<1>7. CASE InSocket(r, p) /\ r.from = k
  <2>1. PICK i \in DOMAIN rx[k] : rx[k][i] = r
    BY <1>7 DEF InSocket
  <2>2. CASE i \in DOMAIN l_reqs' /\ l_reqs'[i] = rx[k][i]
    <3>1. InBuffer(r, <<"recv_buff", i>>)'
      BY <2>1, <2>2 DEF InBuffer
    <3> QED  BY <3>1 DEF IsPlace
  <2>3. CASE i - m \in DOMAIN rx'[k] /\ rx'[k][i - m] = rx[k][i]
    <3>1. InSocket(r, <<"rx", i - m>>)'
      BY <1>7, <2>1, <2>3 DEF InSocket
    <3> QED  BY <3>1 DEF IsPlace
  <2> QED  BY <1>5, <2>2, <2>3
<1>8. CASE ~ (InSocket(r, p) /\ r.from = k)
  <2>1. ~ InBuffer(r, p)
    BY <1>6 DEF InBuffer
  <2>2. r.from # k => (InSocket(r, p) => InSocket(r, p)')
    BY <1>3, <1>4 DEF InSocket
  <2>3. IsPlace(r, p)'
    BY <1>6, <1>8, <2>1, <2>2, PlaceKept DEF IsPlace
  <2> QED  BY <2>3
<1> QED  BY <1>7, <1>8

\* workpool_push_work loses nothing: a package leaves the buffer when the pool
\* has taken it.
LEMMA PushKeeps ==
  ASSUME TypeOK, InPush, NEW r \in Request
  PROVE  Keeps(r)
<1> SUFFICES ASSUME NEW p, IsPlace(r, p) PROVE \E q : IsPlace(r, q)'
  BY DEF Keeps
<1>1. /\ l_reqs \in Seq(Request) /\ l_reqs # <<>> /\ l_reqs' = Tail(l_reqs)
      /\ tasks \in Seq(Task)
      /\ tasks' = Append(tasks, [connid |-> l_id, req |-> Head(l_reqs)])
      /\ UNCHANGED <<rx, w_pc, w_task, m_list, l_data, rcvd>>
  BY DEF InPush, workpool_push_work, TypeOK, LoopTypeOK, EngineTypeOK, sendVars, sockVars, peerVars
<1>2. \A i \in DOMAIN l_reqs : i # 1 => i - 1 \in DOMAIN l_reqs' /\ l_reqs'[i - 1] = l_reqs[i]
  BY <1>1
<1>3. Head(l_reqs) = l_reqs[1]
  BY <1>1
<1>4. \E n \in DOMAIN tasks' : tasks'[n].req = l_reqs[1]
  <2>1. /\ Len(tasks) + 1 \in DOMAIN tasks'
        /\ tasks'[Len(tasks) + 1] = [connid |-> l_id, req |-> Head(l_reqs)]
    BY <1>1
  <2> QED  BY <1>3, <2>1
<1>5. \A i \in DOMAIN tasks : i \in DOMAIN tasks' /\ tasks'[i] = tasks[i]
  BY <1>1
<1>6. CASE InBuffer(r, p)
  <2>1. PICK i \in DOMAIN l_reqs : l_reqs[i] = r
    BY <1>6 DEF InBuffer
  <2>2. CASE i = 1
    <3>1. PICK n \in DOMAIN tasks' : tasks'[n].req = r
      BY <1>4, <2>1, <2>2
    <3>2. InPool(r, <<"pool", n>>)'
      BY <3>1 DEF InPool
    <3> QED  BY <3>2 DEF IsPlace
  <2>3. CASE i # 1
    <3>1. InBuffer(r, <<"recv_buff", i - 1>>)'
      BY <1>2, <2>1, <2>3 DEF InBuffer
    <3> QED  BY <3>1 DEF IsPlace
  <2> QED  BY <2>2, <2>3
<1>7. CASE ~ InBuffer(r, p)
  <2>1. InPool(r, p) => InPool(r, p)'
    BY <1>5 DEF InPool
  <2>2. IsPlace(r, p)'
    BY <1>1, <1>7, <2>1, PlaceKept DEF IsPlace
  <2> QED  BY <2>2
<1> QED  BY <1>6, <1>7
\* A pool thread that takes a task was idle, so it does not lose another one.
LEMMA TakeKeeps ==
  ASSUME TypeOK, NEW w \in Worker, PoolThread(w), TakeWork(w), NEW r \in Request
  PROVE  Keeps(r)
<1> SUFFICES ASSUME NEW p, IsPlace(r, p) PROVE \E q : IsPlace(r, q)'
  BY DEF Keeps
<1>1. /\ tasks \in Seq(Task) /\ tasks # <<>> /\ tasks' = Tail(tasks)
      /\ w_task' = [w_task EXCEPT ![w] = Head(tasks)]
      /\ w_pc[w] = "idle" /\ w_pc' = [w_pc EXCEPT ![w] = "run"]
      /\ w_pc \in [Worker -> {"idle", "run", "signal"}]
      /\ w_task \in [Worker -> Task \cup {NoTask}]
      /\ UNCHANGED <<rx, l_reqs, m_list, l_data, rcvd>>
  BY DEF PoolThread, TakeWork, TypeOK, EngineTypeOK, sendVars, sockVars, peerVars, loopVars
<1>2. \A i \in DOMAIN tasks : i # 1 => i - 1 \in DOMAIN tasks' /\ tasks'[i - 1] = tasks[i]
  BY <1>1
<1>3. Head(tasks) = tasks[1]
  BY <1>1
<1>4. /\ w_task'[w] = tasks[1] /\ w_pc'[w] = "run"
      /\ \A v \in Worker : v # w => w_pc'[v] = w_pc[v] /\ w_task'[v] = w_task[v]
  BY <1>1, <1>3
<1>5. CASE InPool(r, p)
  <2>1. PICK i \in DOMAIN tasks : tasks[i].req = r
    BY <1>5 DEF InPool
  <2>2. CASE i = 1
    <3>1. AtWork(r, <<"worker", w>>)'
      BY <1>4, <2>1, <2>2 DEF AtWork
    <3> QED  BY <3>1 DEF IsPlace
  <2>3. CASE i # 1
    <3>1. InPool(r, <<"pool", i - 1>>)'
      BY <1>2, <2>1, <2>3 DEF InPool
    <3> QED  BY <3>1 DEF IsPlace
  <2> QED  BY <2>2, <2>3
<1>6. CASE ~ InPool(r, p)
  <2>1. AtWork(r, p) => AtWork(r, p)'
    BY <1>1, <1>4 DEF AtWork
  <2>2. IsPlace(r, p)'
    BY <1>1, <1>6, <2>1, PlaceKept DEF IsPlace
  <2> QED  BY <2>2
<1> QED  BY <1>5, <1>6

\* QSend_push adds the response to the queue and takes nothing out.
LEMMA PushAdds ==
  ASSUME m_list \in Seq(Entry), NEW c, NEW x, NEW len, QSend_push(c, x, len)
  PROVE  /\ \A r : r = x => \E q : InQueue(r, q)'
         /\ \A r, p : InQueue(r, p) => InQueue(r, p)'
<1>1. CASE m_list' = Append(m_list, NewEntry(c, x, len))
  <2>1. \A i \in DOMAIN m_list : i \in DOMAIN m_list' /\ m_list'[i] = m_list[i]
    BY <1>1
  <2>2. \E i \in DOMAIN m_list' : m_list'[i] = NewEntry(c, x, len)
    <3>1. /\ Len(m_list) + 1 \in DOMAIN m_list'
          /\ m_list'[Len(m_list) + 1] = NewEntry(c, x, len)
      BY <1>1
    <3> QED  BY <3>1
  <2>3. PICK i \in DOMAIN m_list' : m_list'[i] = NewEntry(c, x, len)
    BY <2>2
  <2>4. 1 \in DOMAIN m_list'[i].data /\ m_list'[i].data[1] = x
    BY <2>3 DEF NewEntry
  <2>5. ASSUME NEW r, r = x PROVE InQueue(r, <<"queue", i, 1>>)'
    BY <2>4, <2>5 DEF InQueue
  <2>6. ASSUME NEW r, NEW p, InQueue(r, p) PROVE InQueue(r, p)'
    <3>1. PICK e \in DOMAIN m_list : \E j \in DOMAIN m_list[e].data :
                 m_list[e].data[j] = r /\ p = <<"queue", e, j>>
      BY <2>6 DEF InQueue
    <3>2. e \in DOMAIN m_list' /\ m_list'[e] = m_list[e]
      BY <2>1
    <3> QED  BY <3>1, <3>2 DEF InQueue
  <2> QED  BY <2>5, <2>6
<1>2. CASE m_list # <<>> /\ m_list' = [m_list EXCEPT ![1] = MergedEntry(c, x, len)]
  <2>1. 1 \in DOMAIN m_list /\ m_list[1] \in Entry
    BY <1>2
  <2>2. m_list[1].data \in Seq(Response)
    BY <2>1 DEF Entry
  <2>3. DOMAIN m_list' = DOMAIN m_list /\ \A i \in DOMAIN m_list : i # 1 => m_list'[i] = m_list[i]
    BY <1>2
  <2>4. m_list'[1].data = Append(m_list[1].data, x)
    BY <1>2, <2>1 DEF MergedEntry
  <2> DEFINE n == Len(m_list[1].data) + 1
  <2>5. n \in DOMAIN m_list'[1].data /\ m_list'[1].data[n] = x
    <3>1. n \in DOMAIN Append(m_list[1].data, x) /\ Append(m_list[1].data, x)[n] = x
      BY <2>2
    <3> QED  BY <2>4, <3>1
  <2>6. \A j \in DOMAIN m_list[1].data :
          j \in DOMAIN m_list'[1].data /\ m_list'[1].data[j] = m_list[1].data[j]
    <3>1. \A j \in DOMAIN m_list[1].data :
            /\ j \in DOMAIN Append(m_list[1].data, x)
            /\ Append(m_list[1].data, x)[j] = m_list[1].data[j]
      BY <2>2
    <3> QED  BY <2>4, <3>1
  <2> HIDE DEF n
  <2>7. ASSUME NEW r, r = x PROVE \E q : InQueue(r, q)'
    <3>1. PICK j : j \in DOMAIN m_list'[1].data /\ m_list'[1].data[j] = r
      BY <2>5, <2>7
    <3>2. InQueue(r, <<"queue", 1, j>>)'
      BY <2>1, <2>3, <3>1 DEF InQueue
    <3> QED  BY <3>2
  <2>8. ASSUME NEW r, NEW p, InQueue(r, p) PROVE InQueue(r, p)'
    <3>1. PICK i \in DOMAIN m_list : \E j \in DOMAIN m_list[i].data :
                 m_list[i].data[j] = r /\ p = <<"queue", i, j>>
      BY <2>8 DEF InQueue
    <3>2. PICK j \in DOMAIN m_list[i].data : m_list[i].data[j] = r /\ p = <<"queue", i, j>>
      BY <3>1
    <3>3. CASE i = 1
      <4>1. j \in DOMAIN m_list'[i].data /\ m_list'[i].data[j] = r
        BY <2>6, <3>2, <3>3
      <4> QED  BY <2>3, <3>2, <4>1 DEF InQueue
    <3>4. CASE i # 1
      <4>1. m_list'[i] = m_list[i]
        BY <2>3, <3>4
      <4> QED  BY <2>3, <3>2, <4>1 DEF InQueue
    <3> QED  BY <3>3, <3>4
  <2> QED  BY <2>7, <2>8
<1> QED  BY <1>1, <1>2 DEF QSend_push, NewEntry, MergedEntry

\* So the response is in the queue before the pool thread lets go of the request.
LEMMA ResponseKeeps ==
  ASSUME TypeOK, NEW w \in Worker, PoolThread(w), NEW n \in OutLen, work_proc_push(w, n),
         NEW r \in Request
  PROVE  Keeps(r)
<1> SUFFICES ASSUME NEW p, IsPlace(r, p) PROVE \E q : IsPlace(r, q)'
  BY DEF Keeps
<1>1. /\ m_list \in Seq(Entry)
      /\ QSend_push(w_task[w].connid, w_task[w].req, create_pack(n))
      /\ w_pc[w] = "run" /\ w_pc' = [w_pc EXCEPT ![w] = "signal"]
      /\ w_pc \in [Worker -> {"idle", "run", "signal"}]
      /\ UNCHANGED <<w_task, rx, l_reqs, tasks, l_data, rcvd>>
  BY DEF PoolThread, work_proc_push, TypeOK, EngineTypeOK, SendTypeOK, sockVars, peerVars, loopVars
<1>2. /\ \A x : x = w_task[w].req => \E q : InQueue(x, q)'
      /\ \A x, q : InQueue(x, q) => InQueue(x, q)'
  BY <1>1, PushAdds
<1>3. \A v \in Worker : v # w => w_pc'[v] = w_pc[v]
  BY <1>1
<1>4. CASE AtWork(r, p)
  <2>1. PICK v \in Worker : w_pc[v] = "run" /\ w_task[v].req = r /\ p = <<"worker", v>>
    BY <1>4 DEF AtWork
  <2>2. CASE v = w
    <3>1. PICK q : InQueue(r, q)'
      BY <1>2, <2>1, <2>2
    <3> QED  BY <3>1 DEF IsPlace
  <2>3. CASE v # w
    <3>1. AtWork(r, p)'
      BY <1>1, <1>3, <2>1, <2>3 DEF AtWork
    <3> QED  BY <3>1 DEF IsPlace
  <2> QED  BY <2>2, <2>3
<1>5. CASE ~ AtWork(r, p)
  <2>1. IsPlace(r, p)'
    BY <1>1, <1>2, <1>5, PlaceKept DEF IsPlace
  <2> QED  BY <2>1
<1> QED  BY <1>4, <1>5

\* A pool thread that signals has already handed on its response.
LEMMA SignalKeeps ==
  ASSUME TypeOK, NEW w \in Worker, PoolThread(w), work_proc_signal(w), NEW r \in Request
  PROVE  Keeps(r)
<1>1. /\ w_pc \in [Worker -> {"idle", "run", "signal"}]
      /\ w_task \in [Worker -> Task \cup {NoTask}]
      /\ w_pc[w] = "signal" /\ w_pc' = [w_pc EXCEPT ![w] = "idle"]
      /\ w_task' = [w_task EXCEPT ![w] = NoTask]
      /\ UNCHANGED <<rx, l_reqs, tasks, m_list, l_data, rcvd>>
  BY DEF PoolThread, work_proc_signal, TypeOK, EngineTypeOK, sockVars, peerVars, loopVars
<1>2. \A v \in Worker : w_pc[v] = "run" => w_pc'[v] = "run" /\ w_task'[v] = w_task[v]
  BY <1>1
<1>3. ASSUME NEW p PROVE AtWork(r, p) => AtWork(r, p)'
  BY <1>2 DEF AtWork
<1>4. \A p : IsPlace(r, p) => IsPlace(r, p)'
  BY <1>1, <1>3, PlaceKept DEF IsPlace
<1> QED  BY <1>4 DEF Keeps
\* Erasing entries keeps all the others.
LEMMA KeepOnlyOnto ==
  ASSUME m_list \in Seq(Entry), NEW K \in SUBSET DOMAIN m_list, KeepOnly(K), NEW j \in K
  PROVE  \E i \in DOMAIN m_list' : m_list'[i] = m_list[j]
<1>1. PICK f \in [1 .. Cardinality(K) -> K] :
        /\ \A a, b \in DOMAIN f : a < b => f[a] < f[b]
        /\ m_list' = [k \in DOMAIN f |-> m_list[f[k]]]
  BY DEF KeepOnly
<1>2. \A i \in DOMAIN f : i \in Int /\ f[i] \in Int
  <2>1. DOMAIN m_list \subseteq Int
    OBVIOUS
  <2>2. \A i \in DOMAIN f : i \in Int
    OBVIOUS
  <2> QED  BY <2>1, <2>2
<1>3. f \in Injection(1 .. Cardinality(K), K)
  <2>1. \A a, b \in DOMAIN f : f[a] = f[b] => a = b
    BY <1>1, <1>2
  <2> QED  BY <2>1 DEF Injection, IsInjective
<1>4. IsFiniteSet(K)
  <2>1. DOMAIN m_list = 1 .. Len(m_list) /\ Len(m_list) \in Nat
    OBVIOUS
  <2>2. IsFiniteSet(DOMAIN m_list)
    BY <2>1, FS_Interval
  <2> QED  BY <2>2, FS_Subset
<1>5. Cardinality(1 .. Cardinality(K)) = Cardinality(K)
  BY <1>4, FS_CardinalityType, FS_Interval
<1>6. f \in Surjection(1 .. Cardinality(K), K)
  BY <1>3, <1>4, <1>5, FS_Injection
<1>7. PICK i \in DOMAIN f : f[i] = j
  BY <1>6 DEF Surjection
<1>8. DOMAIN m_list' = DOMAIN f /\ m_list'[i] = m_list[f[i]]
  BY <1>1
<1> QED  BY <1>7, <1>8

\* Clearing the entries of a connection loses only requests of a client that has
\* gone.
LEMMA EraseKeeps ==
  ASSUME TypeOK, RouteInv, NEW c \in CONNID, QSend_remove_all_by_connid(c),
         PositionsOf(c) # {} => Ended(owner[c]),
         UNCHANGED <<rx, l_reqs, tasks, w_pc, w_task, l_data, rcvd>>,
         NEW r \in Request, ~ Ended(r.from)
  PROVE  Keeps(r)
<1> SUFFICES ASSUME NEW p, IsPlace(r, p) PROVE \E q : IsPlace(r, q)'
  BY DEF Keeps
<1>1. CASE InQueue(r, p)
  <2>1. PICK i \in DOMAIN m_list : \E j \in DOMAIN m_list[i].data : m_list[i].data[j] = r
    BY <1>1 DEF InQueue
  <2>2. r.from = owner[m_list[i].conn_id]
    BY <2>1 DEF RouteInv
  <2>3. i \in DOMAIN m_list \ PositionsOf(c)
    BY <2>2 DEF PositionsOf
  <2>4. KeepOnly(DOMAIN m_list \ PositionsOf(c))
    BY DEF QSend_remove_all_by_connid
  <2>5. PICK a \in DOMAIN m_list' : m_list'[a] = m_list[i]
    BY <2>3, <2>4, KeepOnlyOnto DEF TypeOK, SendTypeOK
  <2>6. PICK j \in DOMAIN m_list'[a].data : m_list'[a].data[j] = r
    BY <2>1, <2>5
  <2>7. InQueue(r, <<"queue", a, j>>)'
    BY <2>6 DEF InQueue
  <2> QED  BY <2>7 DEF IsPlace
<1>2. CASE ~ InQueue(r, p)
  <2>1. IsPlace(r, p)'
    BY <1>2, PlaceKept DEF IsPlace
  <2> QED  BY <2>1
<1> QED  BY <1>1, <1>2

\* QSend_pop_first copies the whole entry, into a buffer that is empty.
LEMMA PopKeeps ==
  ASSUME TypeOK, BuffersInv, OutPop, NEW r \in Request
  PROVE  Keeps(r)
<1> SUFFICES ASSUME NEW p, IsPlace(r, p) PROVE \E q : IsPlace(r, q)'
  BY DEF Keeps
<1>1. PICK e \in DOMAIN m_list : KeepOnly(DOMAIN m_list \ {e}) /\ l_data' = m_list[e].data
  BY DEF OutPop, QSend_pop_first
<1>2. UNCHANGED <<rx, l_reqs, tasks, w_pc, w_task, rcvd>> /\ l_data = <<>>
  BY DEF OutPop, workVars, sockVars, peerVars, BuffersInv
<1>3. CASE InQueue(r, p)
  <2>1. PICK i \in DOMAIN m_list : \E j \in DOMAIN m_list[i].data : m_list[i].data[j] = r
    BY <1>3 DEF InQueue
  <2>2. CASE i = e
    <3>1. PICK j \in DOMAIN l_data' : l_data'[j] = r
      BY <1>1, <2>1, <2>2
    <3>2. InSendbuf(r, <<"sendbuf", j>>)'
      BY <3>1 DEF InSendbuf
    <3> QED  BY <3>2 DEF IsPlace
  <2>3. CASE i # e
    <3>1. i \in DOMAIN m_list \ {e}
      BY <2>3
    <3>2. PICK a \in DOMAIN m_list' : m_list'[a] = m_list[i]
      BY <1>1, <3>1, KeepOnlyOnto DEF TypeOK, SendTypeOK
    <3>3. PICK j \in DOMAIN m_list'[a].data : m_list'[a].data[j] = r
      BY <2>1, <3>2
    <3>4. InQueue(r, <<"queue", a, j>>)'
      BY <3>3 DEF InQueue
    <3> QED  BY <3>4 DEF IsPlace
  <2> QED  BY <2>2, <2>3
<1>4. CASE ~ InQueue(r, p)
  <2>1. ~ InSendbuf(r, p)
    BY <1>2 DEF InSendbuf
  <2>2. IsPlace(r, p)'
    BY <1>2, <1>4, <2>1, PlaceKept DEF IsPlace
  <2> QED  BY <2>2
<1> QED  BY <1>3, <1>4

\* The data in the loop's send buffer is for the client it serves.
LEMMA SendbufOwner ==
  ASSUME RouteInv, LoopServesOwner, l_pc = "send", NEW r, NEW p, InSendbuf(r, p)
  PROVE  r.from = sock[l_fd]
BY DEF RouteInv, LoopServesOwner, OutPC, InSendbuf

\* send takes nothing out of the buffer that does not reach a connected client.
LEMMA SendKeeps ==
  ASSUME TypeOK, RouteInv, LoopServesOwner, OutSend, NEW r \in Request, ~ Ended(r.from)
  PROVE  Keeps(r)
<1> SUFFICES ASSUME NEW p, IsPlace(r, p) PROVE \E q : IsPlace(r, q)'
  BY DEF Keeps
<1>0. PICK k \in Client : /\ k = sock[l_fd] /\ peer[k] \in {"up", "fin"}
                          /\ \E m \in 1 .. Len(l_data) :
                               Deliver(k, m) /\ l_data' = SubSeq(l_data, m + 1, Len(l_data))
  BY DEF OutSend
<1>1. PICK m \in 1 .. Len(l_data) : Deliver(k, m) /\ l_data' = SubSeq(l_data, m + 1, Len(l_data))
  BY <1>0
<1>2. l_data \in Seq(Request) /\ rcvd \in [Client -> Seq(Request)] /\ rcvd[k] \in Seq(Request)
  BY DEF TypeOK, LoopTypeOK, SockTypeOK
<1>3. UNCHANGED <<rx, l_reqs, tasks, w_pc, w_task, m_list>>
  BY DEF OutSend, workVars, sendVars
<1> DEFINE d == SubSeq(l_data, 1, m)
<1>4. d \in Seq(Request)
  BY <1>2
<1>5. peer[k] = "up" => rcvd' = [rcvd EXCEPT ![k] = rcvd[k] \o d]
  BY <1>1 DEF Deliver
<1>6. \A i \in DOMAIN l_data : \/ i \in DOMAIN d /\ d[i] = l_data[i]
                               \/ i - m \in DOMAIN l_data' /\ l_data'[i - m] = l_data[i]
  BY <1>1, <1>2, CutKeeps
<1> HIDE DEF d
<1>7. ASSUME peer[k] = "up", NEW i \in DOMAIN d PROVE \E n \in DOMAIN rcvd'[k] : rcvd'[k][n] = d[i]
  <2>1. rcvd'[k] = rcvd[k] \o d
    BY <1>2, <1>5, <1>7
  <2>2. /\ Len(rcvd[k]) + i \in DOMAIN (rcvd[k] \o d)
        /\ (rcvd[k] \o d)[Len(rcvd[k]) + i] = d[i]
    BY <1>2, <1>4
  <2> QED  BY <2>1, <2>2
<1>8. \A c \in Client : \A i \in DOMAIN rcvd[c] : i \in DOMAIN rcvd'[c] /\ rcvd'[c][i] = rcvd[c][i]
  <2>1. CASE peer[k] # "up"
    BY <1>1, <2>1 DEF Deliver
  <2>2. CASE peer[k] = "up"
    <3>1. rcvd'[k] = rcvd[k] \o d /\ \A c \in Client : c # k => rcvd'[c] = rcvd[c]
      BY <1>2, <1>5, <2>2
    <3>2. \A i \in DOMAIN rcvd[k] : i \in DOMAIN (rcvd[k] \o d) /\ (rcvd[k] \o d)[i] = rcvd[k][i]
      BY <1>2, <1>4
    <3> QED  BY <3>1, <3>2
  <2> QED  BY <2>1, <2>2
<1>9. CASE InSendbuf(r, p)
  <2>1. PICK i \in DOMAIN l_data : l_data[i] = r
    BY <1>9 DEF InSendbuf
  <2>2. peer[k] = "up"
    <3>1. r.from = k
      BY <1>0, <1>9, SendbufOwner DEF OutSend
    <3> QED  BY <1>0, <3>1 DEF Ended
  <2>3. CASE i \in DOMAIN d /\ d[i] = l_data[i]
    <3>1. PICK n \in DOMAIN rcvd'[k] : rcvd'[k][n] = r
      BY <1>7, <2>1, <2>2, <2>3
    <3>2. AtClient(r, <<"client", k, n>>)'
      BY <3>1 DEF AtClient
    <3> QED  BY <3>2 DEF IsPlace
  <2>4. CASE i - m \in DOMAIN l_data' /\ l_data'[i - m] = l_data[i]
    <3>1. InSendbuf(r, <<"sendbuf", i - m>>)'
      BY <2>1, <2>4 DEF InSendbuf
    <3> QED  BY <3>1 DEF IsPlace
  <2> QED  BY <1>6, <2>3, <2>4
<1>10. CASE ~ InSendbuf(r, p)
  <2>1. AtClient(r, p) => AtClient(r, p)'
    BY <1>8 DEF AtClient
  <2>2. IsPlace(r, p)'
    BY <1>3, <1>10, <2>1, PlaceKept DEF IsPlace
  <2> QED  BY <2>2
<1> QED  BY <1>9, <1>10
\* No step of the server loses the request of a connected client, as long as
\* handlers answer.
LEMMA ServerKeeps ==
  ASSUME TypeOK, ~ MayDrop, IdInv, LoopServesOwner, RouteInv, AccountInv, BuffersInv, EndInv,
         GoneInv, [Next]_vars, ~ Clients, NEW r \in Request, ~ Ended(r.from)
  PROVE  Keeps(r)
<1>0. l_id \in CONNID /\ s_connid \in CONNID
  BY DEF TypeOK, LoopTypeOK, SendTypeOK
<1> USE DEF sendVars, workVars, sockVars, peerVars, loopVars
<1>1. ASSUME UNCHANGED <<rx, l_reqs, tasks, w_pc, w_task, m_list, l_data, rcvd>>
      PROVE  Keeps(r)
  <2>1. \A p : IsPlace(r, p) => IsPlace(r, p)'
    BY <1>1, PlaceKept DEF IsPlace
  <2> QED  BY <2>1 DEF Keeps
<1>2. CASE UNCHANGED vars
  BY <1>1, <1>2 DEF vars
<1>3. CASE Listen
  BY <1>1, <1>3 DEF Listen, listen, Accept, Insert, Add, AddFails, Undo, accept, epoll_ctl_add
<1>4. CASE EpollWait \/ Dispatch
  BY <1>1, <1>4 DEF EpollWait, Dispatch
<1>5. CASE InFind \/ InAgain \/ InError \/ InEof \/ InRmConn \/ InClose
  BY <1>1, <1>5 DEF InFind, InAgain, InError, InEof, InRmConn, InClose, close
<1>6. CASE InRmQueue
  <2>1. Ended(owner[l_id])
    BY <1>6 DEF InRmQueue, EndInv, LoopServesOwner, InPC
  <2>2. QSend_remove_all_by_connid(l_id) /\ UNCHANGED <<rx, l_reqs, tasks, w_pc, w_task, l_data, rcvd>>
    BY <1>6 DEF InRmQueue
  <2> QED  BY <1>0, <2>1, <2>2, EraseKeeps
<1>7. CASE OutFind \/ OutPopFails \/ OutMod
  BY <1>1, <1>7 DEF OutFind, OutPopFails, QSend_pop_first_fails, OutMod, epoll_ctl_mod
<1>8. CASE OutSendError
  <2>1. UNCHANGED <<rx, l_reqs, tasks, w_pc, w_task, m_list, rcvd>>
    BY <1>8 DEF OutSendError
  <2>2. Ended(sock[l_fd]) /\ l_pc = "send"
    BY <1>8 DEF OutSendError, Ended
  <2>3. ASSUME NEW p PROVE ~ InSendbuf(r, p)
    BY <2>2, SendbufOwner
  <2>4. \A p : IsPlace(r, p) => IsPlace(r, p)'
    BY <2>1, <2>3, PlaceKept DEF IsPlace
  <2> QED  BY <2>4 DEF Keeps
<1>9. CASE SendRmQueue
  <2>1. QSend_remove_all_by_connid(s_connid) /\ UNCHANGED <<rx, l_reqs, tasks, w_pc, w_task, l_data, rcvd>>
    BY <1>9 DEF SendRmQueue
  <2>2. ~ InTable(s_connid)
    BY <1>9 DEF SendRmQueue, AccountInv, HolderInv, Erasing
  <2>3. Used(s_connid)
    BY DEF Used
  <2>4. PositionsOf(s_connid) # {} => s_connid # SVR_INVALID_CONNECT_ID
    BY DEF PositionsOf, IdInv
  <2>5. PositionsOf(s_connid) # {} => Ended(owner[s_connid])
    BY <1>0, <2>2, <2>3, <2>4 DEF GoneInv
  <2> QED  BY <1>0, <2>1, <2>5, EraseKeeps
<1>10. CASE QueueStep \/ SendLookup \/ SendMod \/ SendModFails \/ SendRmConn \/ Wakeup
  BY <1>1, <1>10 DEF QueueStep, SendFront, send_wait, SendLookup, SendMod, SendModFails,
                     SendRmConn, Wakeup, SpuriousWakeup, epoll_ctl_mod
<1>11. ASSUME NEW w \in Worker, PoolThread(w) PROVE Keeps(r)
  BY <1>11, TakeKeeps, ResponseKeeps, SignalKeeps DEF PoolThread, WorkerNext, work_proc_drop
<1> QED
  BY <1>2, <1>3, <1>4, <1>5, <1>6, <1>7, <1>8, <1>9, <1>10, <1>11,
     RecvKeeps, PushKeeps, PopKeeps, SendKeeps
  DEF Next, Loop, handle_EPOLLIN_event, handle_EPOLLOUT_event, send_func

\* A request that is sent is in the socket, and what was there stays.
LEMMA AskKeeps ==
  ASSUME TypeOK, NEW k \in Client, ClientSend(k), Clients, NEW r \in Request,
         r.n <= nsent[r.from] => \E p : IsPlace(r, p),
         r.n <= nsent'[r.from]
  PROVE  \E p : IsPlace(r, p)'
<1>0. PICK x : x = [from |-> k, n |-> nsent[k] + 1]
  OBVIOUS
<1>1. /\ rx \in [Client -> Seq(Request)] /\ nsent \in [Client -> 0 .. MaxReq]
      /\ nsent' = [nsent EXCEPT ![k] = @ + 1]
      /\ rx' = [rx EXCEPT ![k] = Append(rx[k], x)]
      /\ UNCHANGED <<l_reqs, tasks, w_pc, w_task, m_list, l_data, rcvd>>
  BY <1>0 DEF ClientSend, Clients, TypeOK, SockTypeOK, sendVars, workVars, loopVars
<1>2. /\ x.from = k /\ nsent[k] \in Nat /\ rx[k] \in Seq(Request)
      /\ nsent'[k] = nsent[k] + 1 /\ \A c \in Client : c # k => nsent'[c] = nsent[c]
      /\ rx'[k] = Append(rx[k], x) /\ \A c \in Client : c # k => rx'[c] = rx[c]
  BY <1>0, <1>1
<1>3. r.from \in Client /\ r.n \in Nat /\ r = [from |-> r.from, n |-> r.n]
  BY DEF Request
<1>4. CASE r = x
  <2>1. /\ Len(rx[k]) + 1 \in DOMAIN Append(rx[k], x)
        /\ Append(rx[k], x)[Len(rx[k]) + 1] = x
    BY <1>2
  <2>2. PICK n : n \in DOMAIN rx'[k] /\ rx'[k][n] = x
    BY <1>2, <2>1
  <2>3. InSocket(r, <<"rx", n>>)'
    BY <1>2, <1>4, <2>2 DEF InSocket
  <2> QED  BY <2>3 DEF IsPlace
<1>5. CASE r # x
  <2>1. r.n <= nsent[r.from]
    <3>1. CASE r.from = k
      <4>1. r.n # nsent[k] + 1
        BY <1>0, <1>3, <1>5, <3>1
      <4> QED  BY <1>2, <1>3, <3>1, <4>1
    <3>2. CASE r.from # k
      BY <1>2, <1>3, <3>2
    <3> QED  BY <3>1, <3>2
  <2>2. PICK p : IsPlace(r, p)
    BY <2>1
  <2>3. \A i \in DOMAIN rx[k] : i \in DOMAIN Append(rx[k], x) /\ Append(rx[k], x)[i] = rx[k][i]
    BY <1>2
  <2>4. \A i \in DOMAIN rx[r.from] : i \in DOMAIN rx'[r.from] /\ rx'[r.from][i] = rx[r.from][i]
    BY <1>2, <1>3, <2>3
  <2>5. InSocket(r, p) => InSocket(r, p)'
    BY <2>4 DEF InSocket
  <2>6. IsPlace(r, p)'
    BY <1>1, <2>2, <2>5, PlaceKept DEF IsPlace
  <2> QED  BY <2>6
<1> QED  BY <1>4, <1>5

\* All steps together.
LEMMA KeptNext ==
  ASSUME TypeOK, ~ MayDrop, IdInv, LoopServesOwner, RouteInv, AccountInv, BuffersInv, EndInv,
         GoneInv, KeptInv, [Next]_vars
  PROVE  KeptInv'
<1> SUFFICES ASSUME NEW r \in Request, r.n <= nsent'[r.from], ~ Ended(r.from)'
             PROVE  \E p : IsPlace(r, p)'
  BY DEF KeptInv
<1>1. r.from \in Client
  BY DEF Request
<1>2. ~ Ended(r.from)
  <2> SUFFICES ASSUME NEW k \in Client, k = r.from, Ended(k) PROVE FALSE
    BY <1>1
  <2>1. Ended(k)'
    BY EndedStays
  <2> QED  BY <2>1 DEF Ended
<1>3. r.n <= nsent[r.from] => \E p : IsPlace(r, p)
  BY <1>2 DEF KeptInv
<1>4. CASE Clients /\ UNCHANGED <<rx, rcvd, nsent>>
  <2>1. \A p : IsPlace(r, p) => IsPlace(r, p)'
    BY <1>4, PlaceKept DEF Clients, sendVars, workVars, loopVars, IsPlace
  <2> QED  BY <1>3, <1>4, <2>1
<1>5. CASE ~ Clients
  <2>1. UNCHANGED nsent
    BY <1>5, SentByClients
  <2>2. Keeps(r)
    BY <1>2, <1>5, ServerKeeps
  <2> QED  BY <1>3, <2>1, <2>2 DEF Keeps
<1> QED
  BY <1>3, <1>4, <1>5, AskKeeps
  DEF Clients, ClientNext, ClientConnect, ClientRead, ClientClose, ClientReset

\* If every handler answers and Gen_ConnID never repeats an identifier, then
\* every request of a client that is still connected is somewhere on its way or
\* its response has reached the client, whatever the other clients do and in
\* whatever order the threads clean up.
THEOREM NothingIsLost == ~ ReuseIds /\ ~ MayDrop /\ Spec => []NothingLost
<1> SUFFICES ASSUME ~ ReuseIds, ~ MayDrop PROVE Spec => []NothingLost
  OBVIOUS
<1> DEFINE Loss == BuffersInv /\ EndInv /\ GoneInv /\ KeptInv
<1>1. Init => Loss
  <2> SUFFICES ASSUME Init PROVE Loss
    OBVIOUS
  <2>1. BuffersInv /\ EndInv
    BY DEF Init, BuffersInv, EndInv
  <2>2. GoneInv
    <3>1. \A c \in CONNID : Used(c) => c = SVR_INVALID_CONNECT_ID
      BY DEF Init, create_send_helper, workpool_start, SockInit, Used
    <3> QED  BY <3>1 DEF GoneInv
  <2>3. KeptInv
    <3>1. \A r \in Request : ~ (r.n <= nsent[r.from])
      BY SocketsAssumption DEF Init, SockInit, Request
    <3> QED  BY <3>1 DEF KeptInv
  <2> QED  BY <2>1, <2>2, <2>3
<1>2. TypeOK /\ TableInv /\ LoopServesOwner /\ IdInv /\ RouteInv /\ AccountInv /\ Loss /\ [Next]_vars
        => Loss'
  BY BuffersNext, EndNext, GoneNext, KeptNext
<1>3. TypeOK /\ KeptInv => NothingLost
  <2> SUFFICES ASSUME TypeOK, KeptInv, NEW k \in Client, peer[k] = "up", NEW n \in 1 .. nsent[k]
               PROVE  Copies([from |-> k, n |-> n]) # {}
    BY DEF NothingLost
  <2>1. PICK r : r = [from |-> k, n |-> n]
    OBVIOUS
  <2>2. nsent[k] \in 0 .. MaxReq /\ MaxReq \in Nat
    BY SocketsAssumption DEF TypeOK, SockTypeOK
  <2>3. r \in Request /\ r.n <= nsent[r.from] /\ r.from = k
    BY <2>1, <2>2 DEF Request
  <2>4. PICK p : IsPlace(r, p)
    BY <2>3 DEF KeptInv, Ended
  <2> QED  BY <2>1, <2>4, CopiesPlaces
<1>4. Spec => []LoopServesOwner
  BY LoopSafe
<1>5. Spec => []RouteInv
  BY RouteAlways
<1>6. Spec => []AccountInv
  BY AccountAlways
<1> HIDE DEF Loss
<1>7. Loss => KeptInv
  BY DEF Loss
<1> QED
  BY <1>1, <1>2, <1>3, <1>4, <1>5, <1>6, <1>7, IdAlways, TypeCorrect, TableAlways, PTL DEF Spec
=============================================================================
