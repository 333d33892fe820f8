----------------------------- MODULE EpSvrTypes -----------------------------
(***************************************************************************)
(* Type correctness of EpSvr, for every number of clients, threads,        *)
(* identifiers and descriptors and every buffer size.                      *)
(***************************************************************************)
EXTENDS EpSvr, FiniteSetTheorems, TLAPS

USE DEF Fd, NoFd

\* Erasing entries from the send queue leaves a sequence of entries.
LEMMA KeepOnlyType ==
  ASSUME m_list \in Seq(Entry), NEW K \in SUBSET DOMAIN m_list, KeepOnly(K)
  PROVE  m_list' \in Seq(Entry)
<1>1. IsFiniteSet(DOMAIN m_list)
  <2>1. DOMAIN m_list = 1 .. Len(m_list) /\ Len(m_list) \in Nat
    OBVIOUS
  <2> QED  BY <2>1, FS_Interval
<1>2. Cardinality(K) \in Nat
  BY <1>1, FS_Subset, FS_CardinalityType
<1>3. PICK f \in [1 .. Cardinality(K) -> K] : m_list' = [k \in DOMAIN f |-> m_list[f[k]]]
  BY DEF KeepOnly
<1>4. \A k \in 1 .. Cardinality(K) : m_list[f[k]] \in Entry
  OBVIOUS
<1> QED  BY <1>2, <1>3, <1>4

\* QSend_push keeps the queue a sequence of entries.
LEMMA PushType ==
  ASSUME m_list \in Seq(Entry),
         NEW c \in CONNID, NEW x \in Response, NEW len \in Nat, QSend_push(c, x, len)
  PROVE  m_list' \in Seq(Entry)
<1> DEFINE e == [conn_id |-> c, data |-> <<x>>, size |-> len]
<1>1. e \in Entry
  BY DEF Entry
<1>2. CASE m_list' = Append(m_list, e)
  BY <1>1, <1>2
<1>3. CASE /\ m_list # <<>>
           /\ m_list' = [m_list EXCEPT ![1] = [conn_id |-> c,
                                               data    |-> Append(@.data, x),
                                               size    |-> @.size + len]]
  <2>1. m_list[1] \in Entry /\ 1 \in DOMAIN m_list
    BY <1>3
  <2>2. Append(m_list[1].data, x) \in Seq(Response) /\ m_list[1].size + len \in Nat
    BY <2>1 DEF Entry
  <2>3. [conn_id |-> c, data |-> Append(m_list[1].data, x),
         size |-> m_list[1].size + len] \in Entry
    BY <2>2 DEF Entry
  <2> QED  BY <1>3, <2>1, <2>3
<1> QED  BY <1>2, <1>3 DEF QSend_push

-----------------------------------------------------------------------------
(* What the calls of the shared components preserve. *)

\* A client's steps and the kernel's keep the sockets well typed.
LEMMA ClientType ==
  ASSUME SockTypeOK, ClientNext
  PROVE  SockTypeOK'
<1> USE SocketsAssumption DEF SockTypeOK, PeerState, Request, Registered, epVars
<1>1. ASSUME NEW k \in Client, ClientConnect(k) PROVE SockTypeOK'
  <2>1. peer' \in [Client -> PeerState] /\ backlog' \in Seq(Client)
    BY <1>1 DEF ClientConnect
  <2> QED  BY <1>1, <2>1 DEF ClientConnect
<1>2. ASSUME NEW k \in Client, ClientSend(k) PROVE SockTypeOK'
  <2>1. [from |-> k, n |-> nsent[k] + 1] \in Request /\ nsent[k] + 1 \in 0 .. MaxReq
    BY <1>2 DEF ClientSend
  <2>2. nsent' \in [Client -> 0 .. MaxReq]
    BY <1>2, <2>1 DEF ClientSend
  <2>3. rx' \in [Client -> Seq(Request)]
    <3> HIDE DEF Request
    <3>1. rx[k] \in Seq(Request)
      OBVIOUS
    <3>2. Append(rx[k], [from |-> k, n |-> nsent[k] + 1]) \in Seq(Request)
      BY <2>1, <3>1
    <3> QED  BY <1>2, <3>2 DEF ClientSend
  <2> QED  BY <1>2, <2>2, <2>3 DEF ClientSend
<1>3. ASSUME NEW k \in Client, ClientClose(k) PROVE SockTypeOK'
  BY <1>3 DEF ClientClose
<1>4. ASSUME NEW k \in Client, ClientReset(k) PROVE SockTypeOK'
  BY <1>4 DEF ClientReset
<1>5. ASSUME NEW k \in Client, ClientRead(k) PROVE SockTypeOK'
  <2>1. unread[k] \in 0 .. SNDBUF /\ unread[k] >= SNDBUF
    BY <1>5 DEF ClientRead, Full
  <2>2. unread' \in [Client -> 0 .. SNDBUF]
    BY <1>5, <2>1 DEF ClientRead
  <2> QED  BY <1>5, <2>2 DEF ClientRead
<1> QED  BY <1>1, <1>2, <1>3, <1>4, <1>5 DEF ClientNext

\* So do accept, epoll_ctl and close.
LEMMA SyscallType ==
  ASSUME SockTypeOK, NEW fd \in Fd, NEW id \in CONNID, NEW out \in BOOLEAN,
         accept(fd) \/ epoll_ctl_add(fd, id) \/ epoll_ctl_mod(fd, id, out) \/ close(fd)
  PROVE  SockTypeOK'
<1> USE ConnAssumption DEF SockTypeOK, PeerState, epVars, peerVars
<1>1. CASE accept(fd)
  <2>1. Head(backlog) \in Client /\ Tail(backlog) \in Seq(Client)
    BY <1>1 DEF accept
  <2>2. sock' \in [Fd -> Client \cup {NoClient}] /\ backlog' \in Seq(Client)
    BY <1>1, <2>1 DEF accept
  <2>3. UNCHANGED <<peer, nsent, rx, rcvd, unread, ep_fds, ep_id, ep_out, ready>>
    BY <1>1 DEF accept
  <2> QED  BY <2>2, <2>3
<1>2. CASE epoll_ctl_add(fd, id)
  BY <1>2 DEF epoll_ctl_add
<1>3. CASE epoll_ctl_mod(fd, id, out)
  BY <1>3 DEF epoll_ctl_mod
<1>4. CASE close(fd)
  BY <1>4 DEF close
<1> QED  BY <1>1, <1>2, <1>3, <1>4

\* A part of the state that a step leaves alone stays well typed.
LEMMA Untouched ==
  ASSUME TypeOK
  PROVE  /\ UNCHANGED connVars => ConnTypeOK'
         /\ UNCHANGED sendVars => SendTypeOK'
         /\ UNCHANGED workVars => EngineTypeOK'
         /\ UNCHANGED sockVars => SockTypeOK'
         /\ UNCHANGED lisVars => LisTypeOK'
         /\ UNCHANGED loopVars => LoopTypeOK'
<1>1. UNCHANGED connVars => ConnTypeOK'
  BY DEF TypeOK, ConnTypeOK, connVars
<1>2. UNCHANGED sendVars => SendTypeOK'
  BY DEF TypeOK, SendTypeOK, sendVars
<1>3. UNCHANGED workVars => EngineTypeOK'
  BY DEF TypeOK, EngineTypeOK, workVars
<1>4. UNCHANGED sockVars => SockTypeOK'
  BY DEF TypeOK, SockTypeOK, sockVars, peerVars, epVars
<1>5. UNCHANGED lisVars => LisTypeOK'
  BY DEF TypeOK, LisTypeOK, lisVars
<1>6. UNCHANGED loopVars => LoopTypeOK'
  BY DEF TypeOK, LoopTypeOK, loopVars
<1> QED  BY <1>1, <1>2, <1>3, <1>4, <1>5, <1>6

-----------------------------------------------------------------------------
(* The threads, one lemma each. *)

\* The steps of listen_thread keep the types.
LEMMA ListenType ==
  ASSUME TypeOK, Listen
  PROVE  TypeOK'
<1> USE ConnAssumption DEF TypeOK
<1>1. CASE Accept
  <2>1. SockTypeOK'
    BY <1>1, SyscallType DEF Accept
  <2>2. LisTypeOK'
    BY <1>1 DEF Accept, LisTypeOK, LisBusy
  <2> QED  BY <1>1, <2>1, <2>2, Untouched DEF Accept
<1>2. CASE Insert
  <2>1. ConnTypeOK'
    BY <1>2 DEF Insert, conn_insert, ConnTypeOK, LisTypeOK, LisBusy, SockTypeOK
  <2>2. LisTypeOK'
    BY <1>2 DEF Insert, LisTypeOK, LisBusy
  <2> QED  BY <1>2, <2>1, <2>2, Untouched DEF Insert
<1>3. CASE Add
  <2>1. SockTypeOK'
    BY <1>3, SyscallType DEF Add, LisTypeOK, LisBusy
  <2>2. LisTypeOK'
    BY <1>3 DEF Add, NextAccept, LisTypeOK, LisBusy
  <2> QED  BY <1>3, <2>1, <2>2, Untouched DEF Add
<1>4. CASE AddFails
  <2>1. LisTypeOK'
    BY <1>4 DEF AddFails, LisTypeOK, LisBusy
  <2> QED  BY <1>4, <2>1, Untouched DEF AddFails
<1>5. CASE Undo
  <2>1. ConnTypeOK'
    BY <1>5 DEF Undo, conn_remove, ConnTypeOK, LisTypeOK, LisBusy
  <2>2. LisTypeOK'
    BY <1>5 DEF Undo, NextAccept, LisTypeOK, LisBusy
  <2> QED  BY <1>5, <2>1, <2>2, Untouched DEF Undo
<1>6. CASE listen
  <2>1. LisTypeOK'
    BY <1>6 DEF listen, LisTypeOK, LisBusy
  <2> QED  BY <1>6, <2>1, Untouched DEF listen
<1> QED  BY <1>1, <1>2, <1>3, <1>4, <1>5, <1>6 DEF Listen

\* What the two ways out of a handler leave behind.
LEMMA ReturnType ==
  ASSUME LoopTypeOK, InReturns \/ OutReturns, UNCHANGED <<batch, l_reqs, l_data>>
  PROVE  LoopTypeOK'
BY ConnAssumption DEF LoopTypeOK, InReturns, OutReturns, InPC, OutPC

\* So do the steps of handle_EPOLLIN_event.
LEMMA InType ==
  ASSUME TypeOK, handle_EPOLLIN_event
  PROVE  TypeOK'
<1> USE DEF TypeOK
<1>1. CASE InFind
  <2>1. CASE InTable(l_id)
    <3>1. LoopTypeOK'
      BY <1>1, <2>1 DEF InFind, conn_get_sockfd, InTable, ConnTypeOK, LoopTypeOK, InPC, OutPC
    <3> QED  BY <1>1, <3>1, Untouched DEF InFind
  <2>2. CASE ~ InTable(l_id)
    BY <1>1, <2>2, ReturnType, Untouched DEF InFind
  <2> QED  BY <2>1, <2>2
<1>2. CASE InRecv
  <2>1. PICK k \in Client : \E m \in 1 .. Len(rx[k]) :
          /\ l_reqs' = SubSeq(rx[k], 1, m)
          /\ rx' = [rx EXCEPT ![k] = SubSeq(@, m + 1, Len(@))]
    BY <1>2 DEF InRecv
  <2>m. PICK m \in 1 .. Len(rx[k]) :
          /\ l_reqs' = SubSeq(rx[k], 1, m)
          /\ rx' = [rx EXCEPT ![k] = SubSeq(@, m + 1, Len(@))]
    BY <2>1
  <2>2. rx[k] \in Seq(Request) /\ Len(rx[k]) \in Nat
    BY DEF SockTypeOK
  <2>3. /\ SubSeq(rx[k], 1, m) \in Seq(Request) /\ SubSeq(rx[k], 1, m) # <<>>
        /\ SubSeq(rx[k], m + 1, Len(rx[k])) \in Seq(Request)
    BY <2>2
  <2>4. rx' \in [Client -> Seq(Request)]
    BY <2>m, <2>3 DEF SockTypeOK
  <2>5. SockTypeOK'
    BY <1>2, <2>4 DEF InRecv, SockTypeOK, epVars
  <2>6. LoopTypeOK'
    BY <1>2, <2>m, <2>3 DEF InRecv, LoopTypeOK, InPC, OutPC
  <2> QED  BY <1>2, <2>5, <2>6, Untouched DEF InRecv
<1>3. CASE InPush
  <2>1. l_reqs \in Seq(Request) /\ l_reqs # <<>>
    BY <1>3 DEF InPush, LoopTypeOK
  <2>2. Head(l_reqs) \in Request /\ Tail(l_reqs) \in Seq(Request)
    BY <2>1
  <2>3. [connid |-> l_id, req |-> Head(l_reqs)] \in Task
    BY <2>2, EpSvrAssumption DEF Task, LoopTypeOK
  <2>4. EngineTypeOK'
    BY <1>3, <2>3 DEF InPush, workpool_push_work, EngineTypeOK
  <2>5. LoopTypeOK'
    BY <1>3, <2>2 DEF InPush, LoopTypeOK, InPC, OutPC
  <2> QED  BY <1>3, <2>4, <2>5, Untouched DEF InPush
<1>4. CASE InAgain
  BY <1>4, ReturnType, Untouched DEF InAgain
<1>5. CASE InError
  <2>1. SockTypeOK'
    BY <1>5 DEF InError, SockTypeOK, PeerState, epVars
  <2> QED  BY <1>5, <2>1, ReturnType, Untouched DEF InError
<1>6. CASE InEof
  <2>1. LoopTypeOK'
    BY <1>6 DEF InEof, LoopTypeOK, InPC, OutPC
  <2> QED  BY <1>6, <2>1, Untouched DEF InEof
<1>7. CASE InRmQueue
  <2>1. m_list' \in Seq(Entry)
    BY <1>7, KeepOnlyType DEF InRmQueue, QSend_remove_all_by_connid, SendTypeOK
  <2>2. SendTypeOK'
    BY <1>7, <2>1 DEF InRmQueue, SendTypeOK
  <2>3. LoopTypeOK'
    BY <1>7 DEF InRmQueue, LoopTypeOK, InPC, OutPC
  <2> QED  BY <1>7, <2>2, <2>3, Untouched DEF InRmQueue
<1>8. CASE InRmConn
  <2>1. ConnTypeOK'
    BY <1>8 DEF InRmConn, conn_remove, ConnTypeOK
  <2>2. LoopTypeOK'
    BY <1>8 DEF InRmConn, LoopTypeOK, InPC, OutPC
  <2> QED  BY <1>8, <2>1, <2>2, Untouched DEF InRmConn
<1>9. CASE InClose
  <2>1. l_fd \in Fd
    BY <1>9 DEF InClose, LoopTypeOK, InPC
  <2>2. SockTypeOK'
    BY <1>9, <2>1, SyscallType, ConnAssumption DEF InClose
  <2> QED  BY <1>9, <2>2, ReturnType, Untouched DEF InClose
<1> QED
  BY <1>1, <1>2, <1>3, <1>4, <1>5, <1>6, <1>7, <1>8, <1>9 DEF handle_EPOLLIN_event

\* So do the steps of handle_EPOLLOUT_event.
LEMMA OutType ==
  ASSUME TypeOK, handle_EPOLLOUT_event
  PROVE  TypeOK'
<1> USE DEF TypeOK
<1>1. CASE OutFind
  <2>1. CASE InTable(l_id)
    <3>1. LoopTypeOK'
      BY <1>1, <2>1 DEF OutFind, conn_get_sockfd, InTable, ConnTypeOK, LoopTypeOK, InPC, OutPC
    <3> QED  BY <1>1, <3>1, Untouched DEF OutFind
  <2>2. CASE ~ InTable(l_id)
    BY <1>1, <2>2, ReturnType, Untouched DEF OutFind
  <2> QED  BY <2>1, <2>2
<1>2. CASE OutPop
  <2>1. PICK i \in DOMAIN m_list : QSend_pop_first(l_id, i) /\ l_data' = m_list[i].data
    BY <1>2 DEF OutPop
  <2>2. m_list[i] \in Entry
    BY DEF SendTypeOK
  <2>3. l_data' \in Seq(Request)
    BY <2>1, <2>2, EpSvrAssumption DEF Entry
  <2>4. m_list' \in Seq(Entry)
    BY <2>1, KeepOnlyType DEF QSend_pop_first, SendTypeOK
  <2>5. SendTypeOK'
    BY <1>2, <2>4 DEF OutPop, SendTypeOK
  <2>6. LoopTypeOK'
    BY <1>2, <2>3 DEF OutPop, LoopTypeOK, InPC, OutPC
  <2> QED  BY <1>2, <2>5, <2>6, Untouched DEF OutPop
<1>3. CASE OutPopFails
  <2>1. SendTypeOK'
    BY <1>3 DEF OutPopFails, QSend_pop_first_fails, SendTypeOK
  <2>2. LoopTypeOK'
    BY <1>3 DEF OutPopFails, LoopTypeOK, InPC, OutPC
  <2> QED  BY <1>3, <2>1, <2>2, Untouched DEF OutPopFails
<1>4. CASE OutSend
  <2>1. PICK k \in Client, m \in 1 .. Len(l_data) :
          /\ Deliver(k, m)
          /\ l_data' = SubSeq(l_data, m + 1, Len(l_data))
          /\ l_pc' = IF m = Len(l_data) THEN "mod" ELSE "send"
    BY <1>4 DEF OutSend
  <2>2. l_data \in Seq(Request) /\ Len(l_data) \in Nat /\ rcvd[k] \in Seq(Request)
    BY DEF LoopTypeOK, SockTypeOK
  <2>3. /\ SubSeq(l_data, 1, m) \in Seq(Request)
        /\ SubSeq(l_data, m + 1, Len(l_data)) \in Seq(Request)
    BY <2>2
  <2>4. rcvd[k] \o SubSeq(l_data, 1, m) \in Seq(Request)
    BY <2>2, <2>3
  <2>5. rcvd' \in [Client -> Seq(Request)]
    BY <2>1, <2>4 DEF SockTypeOK, Deliver
  <2>8. unread' \in [Client -> 0 .. SNDBUF]
    <3>1. unread \in [Client -> 0 .. SNDBUF] /\ m \in Nat
      BY <2>2 DEF SockTypeOK
    <3> QED  BY <2>1, <3>1, SocketsAssumption DEF Deliver
  <2>6. SockTypeOK'
    BY <1>4, <2>5, <2>8 DEF OutSend, SockTypeOK, epVars
  <2>7. LoopTypeOK'
    BY <1>4, <2>1, <2>3 DEF OutSend, LoopTypeOK, InPC, OutPC
  <2> QED  BY <1>4, <2>6, <2>7, Untouched DEF OutSend
<1>5. CASE OutSendError
  <2>1. SockTypeOK'
    BY <1>5 DEF OutSendError, SockTypeOK, PeerState, epVars
  <2>2. LoopTypeOK'
    BY <1>5 DEF OutSendError, LoopTypeOK, InPC, OutPC
  <2> QED  BY <1>5, <2>1, <2>2, Untouched DEF OutSendError
<1>6. CASE OutMod
  <2>1. l_fd \in Fd /\ l_id \in CONNID
    BY <1>6 DEF OutMod, LoopTypeOK, OutPC
  <2>2. SockTypeOK'
    BY <1>6, <2>1, SyscallType, Untouched DEF OutMod
  <2> QED  BY <1>6, <2>2, ReturnType, Untouched DEF OutMod
<1> QED  BY <1>1, <1>2, <1>3, <1>4, <1>5, <1>6 DEF handle_EPOLLOUT_event

\* So does all of the event loop.
LEMMA LoopType ==
  ASSUME TypeOK, Loop
  PROVE  TypeOK'
<1> USE DEF TypeOK
<1>1. CASE EpollWait
  <2>1. PICK S \in SUBSET ready :
          /\ batch' = {e \in {EventOf(fd) : fd \in S} : e.in \/ e.out}
          /\ ready' = ready \ S
    BY <1>1 DEF EpollWait
  <2>2. \A fd \in S : EventOf(fd) \in Event
    <3> TAKE fd \in S
    <3>1. fd \in Fd /\ ep_id[fd] \in CONNID
      BY DEF SockTypeOK
    <3>2. Readable(fd) \in BOOLEAN
      BY DEF Readable
    <3>3. (fd \in ep_out /\ Writable(fd)) \in BOOLEAN
      OBVIOUS
    <3> QED  BY <3>1, <3>2, <3>3, Zenon DEF EventOf, Event
  <2>3. batch' \subseteq Event
    BY <2>1, <2>2
  <2>4. SockTypeOK'
    BY <1>1, <2>1 DEF EpollWait, SockTypeOK, peerVars
  <2>5. LoopTypeOK'
    BY <1>1, <2>3 DEF EpollWait, LoopTypeOK
  <2> QED  BY <1>1, <2>4, <2>5, Untouched DEF EpollWait
<1>2. CASE Dispatch
  <2>1. LoopTypeOK'
    BY <1>2 DEF Dispatch, LoopTypeOK, Event, InPC, OutPC
  <2> QED  BY <1>2, <2>1, Untouched DEF Dispatch
<1> QED  BY <1>1, <1>2, InType, OutType DEF Loop

\* So do the steps of the send thread.
LEMMA SendFuncType ==
  ASSUME TypeOK, send_func \/ Wakeup
  PROVE  TypeOK'
<1> USE ConnAssumption DEF TypeOK, SendPC
<1>1. CASE QueueStep
  <2>1. QSend_connid_of_front \in CONNID
    <3>1. m_list # <<>> => m_list[1] \in Entry
      BY DEF SendTypeOK
    <3> QED  BY <3>1 DEF QSend_connid_of_front, Entry
  <2>2. SendTypeOK'
    BY <1>1, <2>1 DEF QueueStep, SendFront, send_wait, SendTypeOK
  <2> QED  BY <1>1, <2>2, Untouched DEF QueueStep
<1>2. CASE SendLookup
  <2>1. SendTypeOK'
    BY <1>2 DEF SendLookup, SendAgain, conn_get_sockfd, SendTypeOK, ConnTypeOK
  <2> QED  BY <1>2, <2>1, Untouched DEF SendLookup
<1>3. CASE SendMod
  <2>1. s_fd \in Fd /\ s_connid \in CONNID
    BY <1>3 DEF SendMod, epoll_ctl_mod, SockTypeOK, SendTypeOK
  <2>2. SockTypeOK'
    BY <1>3, <2>1, SyscallType DEF SendMod
  <2>3. SendTypeOK'
    BY <1>3 DEF SendMod, SendAgain, SendTypeOK
  <2> QED  BY <1>3, <2>2, <2>3, Untouched DEF SendMod
<1>4. CASE SendModFails
  <2>1. SendTypeOK'
    BY <1>4 DEF SendModFails, SendTypeOK
  <2> QED  BY <1>4, <2>1, Untouched DEF SendModFails
<1>5. CASE SendRmQueue
  <2>1. m_list' \in Seq(Entry)
    BY <1>5, KeepOnlyType DEF SendRmQueue, QSend_remove_all_by_connid, SendTypeOK
  <2>2. SendTypeOK'
    BY <1>5, <2>1 DEF SendRmQueue, SendTypeOK
  <2> QED  BY <1>5, <2>2, Untouched DEF SendRmQueue
<1>6. CASE SendRmConn
  <2>1. ConnTypeOK'
    BY <1>6 DEF SendRmConn, conn_remove, ConnTypeOK
  <2>2. SendTypeOK'
    BY <1>6 DEF SendRmConn, SendAgain, SendTypeOK
  <2> QED  BY <1>6, <2>1, <2>2, Untouched DEF SendRmConn
<1>7. CASE Wakeup
  <2>1. SendTypeOK'
    BY <1>7 DEF Wakeup, SpuriousWakeup, SendTypeOK
  <2> QED  BY <1>7, <2>1, Untouched DEF Wakeup
<1> QED  BY <1>1, <1>2, <1>3, <1>4, <1>5, <1>6, <1>7 DEF send_func

\* So do the steps of a pool thread.
LEMMA PoolThreadType ==
  ASSUME TypeOK, NEW w \in Worker, PoolThread(w)
  PROVE  TypeOK'
<1> USE DEF TypeOK
<1>0. /\ UNCHANGED <<connVars, sockVars, lisVars, loopVars>>
      /\ WorkerNext(w)
  BY DEF PoolThread
<1>1. CASE TakeWork(w)
  <2>1. Head(tasks) \in Task /\ Tail(tasks) \in Seq(Task)
    BY <1>1 DEF TakeWork, EngineTypeOK
  <2>2. EngineTypeOK'
    BY <1>1, <2>1 DEF TakeWork, EngineTypeOK
  <2> QED  BY <1>0, <1>1, <2>2, Untouched DEF TakeWork
<1>2. ASSUME NEW n \in OutLen, work_proc_push(w, n) PROVE TypeOK'
  <2>1. w_task[w] \in Task
    BY <1>2 DEF work_proc_push, EngineTypeOK
  <2>2. create_pack(n) \in Nat
    BY EngineAssumption DEF create_pack
  <2>3. m_list' \in Seq(Entry)
    BY <1>2, <2>1, <2>2, PushType DEF work_proc_push, Task, SendTypeOK
  <2>4. SendTypeOK'
    BY <1>2, <2>3 DEF work_proc_push, SendTypeOK
  <2>5. EngineTypeOK'
    BY <1>2, <2>1 DEF work_proc_push, EngineTypeOK
  <2> QED  BY <1>0, <2>4, <2>5, Untouched
<1>3. CASE work_proc_drop(w)
  <2>1. EngineTypeOK'
    BY <1>3 DEF work_proc_drop, EngineTypeOK
  <2> QED  BY <1>0, <1>3, <2>1, Untouched DEF work_proc_drop
<1>4. CASE work_proc_signal(w)
  <2>1. EngineTypeOK'
    BY <1>4 DEF work_proc_signal, EngineTypeOK
  <2>2. SendTypeOK'
    BY <1>4 DEF work_proc_signal, send_signal, SendTypeOK, SendPC
  <2> QED  BY <1>0, <2>1, <2>2, Untouched
<1> QED  BY <1>0, <1>1, <1>2, <1>3, <1>4 DEF WorkerNext

-----------------------------------------------------------------------------

\* The initial state is well typed.
LEMMA InitType == Init => TypeOK
<1> SUFFICES ASSUME Init PROVE TypeOK
  OBVIOUS
<1> USE ConnAssumption DEF Init
<1>1. ConnTypeOK
  BY DEF create_conn_table, ConnTypeOK
<1>2. SendTypeOK
  BY DEF create_send_helper, SendTypeOK, SendPC
<1>3. EngineTypeOK
  BY DEF workpool_start, EngineTypeOK
<1>4. SockTypeOK
  BY SocketsAssumption DEF SockInit, SockTypeOK, PeerState
<1>5. LisTypeOK
  BY DEF LisTypeOK, LisBusy
<1>6. LoopTypeOK
  <2>1. l_out \in BOOLEAN /\ batch \subseteq Event
    BY Zenon
  <2>2. l_reqs \in Seq(Request) /\ l_data \in Seq(Request)
    OBVIOUS
  <2> QED  BY <2>1, <2>2 DEF LoopTypeOK, InPC, OutPC
<1> QED  BY <1>1, <1>2, <1>3, <1>4, <1>5, <1>6 DEF TypeOK

\* Every step keeps the types.
LEMMA NextType == TypeOK /\ [Next]_vars => TypeOK'
<1> SUFFICES ASSUME TypeOK, [Next]_vars PROVE TypeOK'
  OBVIOUS
<1>1. CASE Clients
  BY <1>1, ClientType, Untouched DEF Clients, TypeOK
<1>2. CASE UNCHANGED vars
  BY <1>2, Untouched DEF vars, TypeOK
<1> QED
  BY <1>1, <1>2, ListenType, LoopType, SendFuncType, PoolThreadType DEF Next

\* Every reachable state of the server is well typed: in particular no handler
\* goes on with the -1 that conn_get_sockfd returns for a missing connection.
THEOREM TypeCorrect == Spec => []TypeOK
BY InitType, NextType, PTL DEF Spec
=============================================================================
