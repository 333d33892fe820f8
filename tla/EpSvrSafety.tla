----------------------------- MODULE EpSvrSafety -----------------------------
(***************************************************************************)
(* The safety of the server's shared state, for every value of the         *)
(* constants: the connection table and the descriptor table agree, the     *)
(* loop never uses a descriptor that is not its connection's, and every    *)
(* registered descriptor is one that somebody will close.                  *)
(***************************************************************************)
EXTENDS EpSvrQueue

USE DEF Fd, NoFd

-----------------------------------------------------------------------------
(* Connection table and descriptors. *)

Serving == l_pc \in InPC \cup OutPC

(***************************************************************************)
(* TableMatchesSockets is not inductive: the two threads that hold a       *)
(* descriptor outside the table come into it.  The listening thread's new  *)
(* descriptor is in no entry yet and is not the loop's; the descriptor of  *)
(* the loop is open, is in no entry but that of the connection the loop    *)
(* serves, and in none at all once the loop is about to close it.          *)
(***************************************************************************)
TableInv ==
  /\ TableMatchesSockets
  /\ \A id \in CONNID : InTable(id) => owner[id] \in Client
  /\ lis_pc = "insert" => /\ sock[a_fd] \in Client
                          /\ \A id \in CONNID : conn_map[id] # a_fd
                          /\ Serving => a_fd # l_fd
  /\ Serving => /\ sock[l_fd] \in Client
                /\ \A id \in CONNID : conn_map[id] = l_fd => id = l_id
  /\ l_pc = "close" => \A id \in CONNID : conn_map[id] # l_fd

\* A loop that is not serving needs nothing of its locals.
LEMMA TableReturn ==
  ASSUME TypeOK, TableInv, UNCHANGED <<connVars, sock, lisVars>>, l_pc' \notin InPC \cup OutPC
  PROVE  TableInv'
BY DEF TypeOK, TableInv, TableMatchesSockets, InTable, Serving, connVars, lisVars, InPC

\* Nor does anything change while the loop goes on with the same connection.
LEMMA TableKeep ==
  ASSUME TypeOK, TableInv, UNCHANGED <<connVars, sock, lisVars, l_id, l_fd>>,
         l_pc' = l_pc \/ (Serving /\ l_pc' # "close")
  PROVE  TableInv'
BY DEF TypeOK, TableInv, TableMatchesSockets, InTable, Serving, connVars, lisVars, InPC

\* After its lookup the loop holds the descriptor of the entry it found.
LEMMA TableFind ==
  ASSUME TypeOK, TableInv, UNCHANGED <<connVars, sock, lisVars, l_id>>,
         InTable(l_id), l_fd' = conn_map[l_id], l_pc' # "close"
  PROVE  TableInv'
BY DEF TypeOK, LoopTypeOK, ConnTypeOK, TableInv, TableMatchesSockets, InTable, Serving,
       connVars, lisVars, InPC

\* conn_remove, whoever calls it.
LEMMA TableRemove ==
  ASSUME TypeOK, TableInv, NEW c \in CONNID, conn_remove(c), UNCHANGED <<sock, l_id, l_fd>>,
         \/ UNCHANGED <<lisVars, l_pc>>
         \/ UNCHANGED lisVars /\ c = l_id /\ Serving /\ l_pc' = "close"
         \/ UNCHANGED l_pc /\ lis_pc' = "accept"
  PROVE  TableInv'
<1> USE DEF TypeOK, LoopTypeOK, LisTypeOK, LisBusy, ConnTypeOK
<1>1. /\ conn_map' = [conn_map EXCEPT ![c] = NoFd]
      /\ owner' = owner
  BY DEF conn_remove
<1>2. \A id \in CONNID : \/ conn_map'[id] = NoFd
                         \/ conn_map'[id] = conn_map[id] /\ id # c
  BY <1>1
<1>3. conn_map'[c] = NoFd
  BY <1>1
<1>4. TableMatchesSockets'
  BY <1>1, <1>2 DEF TableInv, TableMatchesSockets, InTable
<1>5. \A id \in CONNID : InTable(id)' => owner'[id] \in Client
  BY <1>1, <1>2 DEF TableInv, InTable
<1>6. lis_pc' = "insert" => lis_pc = "insert" /\ a_fd' = a_fd
  BY DEF lisVars
<1>7. l_pc = "close" => Serving
  BY DEF Serving, InPC
<1>8. Serving => l_fd \in Fd
  BY DEF Serving
<1>9. Serving' => Serving
  BY DEF Serving, lisVars
<1>10. lis_pc = "insert" => a_fd \in Fd
  OBVIOUS
<1> QED
  BY <1>1, <1>2, <1>3, <1>4, <1>5, <1>6, <1>7, <1>8, <1>9, <1>10 DEF TableInv

\* The table starts empty.
LEMMA TableInit == Init => TableInv
BY DEF Init, create_conn_table, TableInv, TableMatchesSockets, InTable, Serving, InPC, OutPC

\* A fresh descriptor enters the table under a fresh identifier.
LEMMA TableListen ==
  ASSUME TypeOK, TableInv, Listen
  PROVE  TableInv'
<1> USE DEF TypeOK, ConnTypeOK, SockTypeOK, LisTypeOK, LisBusy, LoopTypeOK
<1>0. Serving => l_fd \in Fd
  BY DEF Serving
<1>1. CASE Accept
  <2>1. PICK fd \in Fd : accept(fd) /\ a_fd' = fd
    BY <1>1 DEF Accept
  <2>2. /\ sock' = [sock EXCEPT ![fd] = Head(backlog)]
        /\ sock[fd] = NoClient
        /\ Head(backlog) \in Client
    BY <2>1 DEF accept, FreeFds
  <2>3. \A id \in CONNID : conn_map[id] # fd
    <3>1. \A id \in CONNID : InTable(id) => sock[conn_map[id]] # NoClient
      BY ConnAssumption DEF TableInv, TableMatchesSockets
    <3>2. fd # NoFd
      BY ConnAssumption
    <3> QED  BY <2>2, <3>1, <3>2 DEF InTable
  <2>4. Serving => l_fd # fd
    BY <2>2, ConnAssumption DEF TableInv
  <2>5. \A g \in Fd : g # fd => sock'[g] = sock[g]
    BY <2>2
  <2>6. \A id \in CONNID : InTable(id) => sock'[conn_map[id]] = sock[conn_map[id]]
    BY <2>3, <2>5 DEF InTable
  <2>7. sock'[fd] \in Client
    BY <2>2
  <2>8. UNCHANGED <<conn_map, owner, l_pc, l_fd, l_id>>
    BY <1>1 DEF Accept, connVars, loopVars
  <2>9. TableMatchesSockets'
    BY <2>6, <2>8 DEF TableInv, TableMatchesSockets, InTable
  <2> QED
    BY <1>0, <2>1, <2>3, <2>4, <2>5, <2>7, <2>8, <2>9 DEF TableInv, InTable, Serving
<1>2. CASE Insert
  <2>1. PICK id \in CONNID : conn_insert(id, a_fd, sock[a_fd])
    BY <1>2 DEF Insert
  <2>2. /\ ~ InTable(id)
        /\ conn_map' = [conn_map EXCEPT ![id] = a_fd]
        /\ owner' = [owner EXCEPT ![id] = sock[a_fd]]
        /\ a_fd \in Fd
        /\ UNCHANGED <<sock, l_pc, l_id, l_fd>>
        /\ lis_pc = "insert" /\ lis_pc' = "add"
    BY <1>2, <2>1 DEF Insert, conn_insert, sockVars, loopVars
  <2>3. /\ conn_map'[id] = a_fd /\ owner'[id] = sock[a_fd]
        /\ \A o \in CONNID : o # id => conn_map'[o] = conn_map[o] /\ owner'[o] = owner[o]
    BY <2>2
  <2>4. /\ sock[a_fd] \in Client
        /\ \A o \in CONNID : conn_map[o] # a_fd
        /\ Serving => a_fd # l_fd
    BY <2>2 DEF TableInv
  <2>5. TableMatchesSockets'
    BY <2>2, <2>3, <2>4 DEF TableInv, TableMatchesSockets, InTable
  <2>6. \A o \in CONNID : InTable(o)' => owner'[o] \in Client
    BY <2>3, <2>4 DEF TableInv, InTable
  <2>7. l_pc = "close" => Serving
    BY DEF Serving, InPC
  <2> QED
    BY <1>0, <2>2, <2>3, <2>4, <2>5, <2>6, <2>7 DEF TableInv, Serving
<1>3. CASE listen \/ Add \/ AddFails
  BY <1>3 DEF listen, Add, AddFails, NextAccept, epoll_ctl_add, TableInv, TableMatchesSockets,
              InTable, Serving, connVars, loopVars, sockVars
<1>4. CASE Undo
  BY <1>4, TableRemove DEF Undo, NextAccept, sockVars, loopVars
<1> QED  BY <1>1, <1>2, <1>3, <1>4 DEF Listen

\* The loop closes a descriptor only after its entry is gone.
LEMMA TableLoop ==
  ASSUME TypeOK, TableInv, Loop
  PROVE  TableInv'
<1> USE DEF sockVars
<1>1. CASE EpollWait
  BY <1>1, TableKeep DEF EpollWait
<1>2. CASE Dispatch
  <2>1. l_pc' \notin InPC \cup OutPC
    BY <1>2 DEF Dispatch, InPC, OutPC
  <2> QED  BY <1>2, <2>1, TableReturn DEF Dispatch
<1>3. ASSUME InReturns \/ OutReturns PROVE l_pc' \notin InPC \cup OutPC
  BY <1>3 DEF InReturns, OutReturns, InPC, OutPC
<1>4. CASE InFind
  BY <1>3, <1>4, TableReturn, TableFind DEF InFind, conn_get_sockfd
<1>5. CASE InRecv \/ InPush \/ InEof
  <2>1. Serving /\ l_pc' # "close"
    BY <1>5 DEF InRecv, InPush, InEof, Serving, InPC
  <2> QED  BY <1>5, <2>1, TableKeep DEF InRecv, InPush, InEof
<1>6. CASE InRmQueue
  <2>1. Serving /\ l_pc' # "close"
    BY <1>6 DEF InRmQueue, Serving, InPC
  <2> QED  BY <1>6, <2>1, TableKeep DEF InRmQueue
<1>7. CASE InAgain
  BY <1>3, <1>7, TableReturn DEF InAgain
<1>8. CASE InError
  BY <1>3, <1>8, TableReturn DEF InError
<1>9. CASE InRmConn
  <2>1. Serving /\ l_id \in CONNID
    BY <1>9 DEF InRmConn, Serving, InPC, TypeOK, LoopTypeOK
  <2> QED  BY <1>9, <2>1, TableRemove DEF InRmConn
<1>10. CASE InClose
  <2>1. /\ sock' = [sock EXCEPT ![l_fd] = NoClient]
        /\ UNCHANGED <<conn_map, owner, lis_pc, a_fd>>
        /\ l_pc = "close" /\ Serving /\ l_fd \in Fd
    BY <1>10 DEF InClose, close, connVars, lisVars, Serving, InPC, TypeOK, LoopTypeOK
  <2>2. \A fd \in Fd : fd # l_fd => sock'[fd] = sock[fd]
    BY <2>1 DEF TypeOK, SockTypeOK
  <2>3. \A id \in CONNID : InTable(id) => conn_map[id] \in Fd /\ conn_map[id] # l_fd
    BY <2>1 DEF TableInv, InTable, TypeOK, ConnTypeOK
  <2>4. TableMatchesSockets'
    BY <2>1, <2>2, <2>3 DEF TableInv, TableMatchesSockets, InTable
  <2>5. ~ Serving' /\ l_pc' # "close"
    BY <1>3, <1>10 DEF InClose, Serving, InPC
  <2>6. lis_pc = "insert" => a_fd \in Fd /\ a_fd # l_fd
    BY <2>1 DEF TableInv, TypeOK, LisTypeOK, LisBusy
  <2> QED  BY <2>1, <2>2, <2>4, <2>5, <2>6 DEF TableInv, InTable
<1>11. CASE OutFind
  BY <1>3, <1>11, TableReturn, TableFind DEF OutFind, conn_get_sockfd
<1>12. CASE OutPop \/ OutPopFails \/ OutSend \/ OutSendError
  <2>1. Serving /\ l_pc' # "close"
    BY <1>12 DEF OutPop, OutPopFails, OutSend, OutSendError, Serving, OutPC
  <2> QED  BY <1>12, <2>1, TableKeep DEF OutPop, OutPopFails, OutSend, OutSendError
<1>13. CASE OutMod
  <2>1. UNCHANGED sock
    BY <1>13 DEF OutMod, epoll_ctl_mod
  <2> QED  BY <1>3, <1>13, <2>1, TableReturn DEF OutMod
<1> QED
  BY <1>1, <1>2, <1>4, <1>5, <1>6, <1>7, <1>8, <1>9, <1>10, <1>11, <1>12, <1>13
  DEF Loop, handle_EPOLLIN_event, handle_EPOLLOUT_event

\* Every step keeps the table and the descriptors consistent.
LEMMA TableNext == TypeOK /\ TableInv /\ [Next]_vars => TableInv'
<1> SUFFICES ASSUME TypeOK, TableInv, [Next]_vars PROVE TableInv'
  OBVIOUS
<1> USE DEF sockVars, loopVars
<1>1. CASE QueueStep \/ SendLookup \/ SendModFails \/ SendRmQueue \/ Wakeup
  BY <1>1, TableKeep DEF QueueStep, SendLookup, SendModFails, SendRmQueue, Wakeup
<1>2. CASE SendMod
  BY <1>2, TableKeep DEF SendMod, epoll_ctl_mod
<1>3. CASE SendRmConn
  <2>1. s_connid \in CONNID
    BY DEF TypeOK, SendTypeOK
  <2> QED  BY <1>3, <2>1, TableRemove DEF SendRmConn
<1>4. ASSUME NEW w \in Worker, PoolThread(w) PROVE TableInv'
  BY <1>4, TableKeep DEF PoolThread
<1>5. CASE Clients
  <2>1. UNCHANGED sock
    BY <1>5 DEF Clients, ClientNext, ClientConnect, ClientSend, ClientRead, ClientClose, ClientReset
  <2> QED  BY <1>5, <2>1, TableKeep DEF Clients
<1>6. CASE UNCHANGED vars
  BY <1>6, TableKeep DEF vars
<1> QED
  BY <1>1, <1>2, <1>3, <1>4, <1>5, <1>6, TableListen, TableLoop DEF Next, send_func

\* They are consistent throughout.
LEMMA TableAlways == Spec => []TableInv
BY TableInit, TableNext, TypeCorrect, PTL DEF Spec

\* However many connections come and go, and whether or not identifiers repeat,
\* the connection table names every descriptor at most once and only while it
\* is open and belongs to the client of the entry.
THEOREM TableSafe == Spec => []TableMatchesSockets
BY TableAlways, PTL DEF TableInv

-----------------------------------------------------------------------------
(* The loop and its descriptor, when identifiers are not given out again. *)

\* An identifier that has been issued keeps its client.
LEMMA OwnerStable ==
  ASSUME TypeOK, ~ ReuseIds, [Next]_vars, NEW c \in CONNID, owner[c] # NoClient
  PROVE  owner'[c] = owner[c]
<1> USE DEF connVars
<1>1. CASE UNCHANGED owner
  BY <1>1
<1>2. CASE Insert
  BY <1>2 DEF Insert, conn_insert, TypeOK, ConnTypeOK
<1>3. CASE listen \/ Accept \/ Add \/ AddFails \/ Undo
  BY <1>1, <1>3 DEF listen, Accept, Add, AddFails, Undo, conn_remove
<1>4. CASE EpollWait \/ Dispatch
  BY <1>1, <1>4 DEF EpollWait, Dispatch
<1>5. CASE handle_EPOLLIN_event
  BY <1>1, <1>5 DEF handle_EPOLLIN_event, InFind, InRecv, InPush, InAgain, InError, InEof,
                    InRmQueue, InRmConn, InClose, conn_remove
<1>6. CASE handle_EPOLLOUT_event
  BY <1>1, <1>6 DEF handle_EPOLLOUT_event, OutFind, OutPop, OutPopFails, OutSend,
                    OutSendError, OutMod
<1>7. CASE send_func \/ Wakeup
  BY <1>1, <1>7 DEF send_func, QueueStep, SendLookup, SendMod, SendModFails, SendRmQueue,
                    SendRmConn, Wakeup, conn_remove
<1>8. CASE Clients \/ UNCHANGED vars \/ \E w \in Worker : PoolThread(w)
  BY <1>1, <1>8 DEF Clients, PoolThread, vars
<1> QED  BY <1>2, <1>3, <1>4, <1>5, <1>6, <1>7, <1>8 DEF Next, Listen, Loop

\* While the loop serves a connection, its descriptor is not closed nor given to
\* another client.
LEMMA SocketStable ==
  ASSUME TypeOK, TableInv, [Next]_vars, Serving, Serving'
  PROVE  sock'[l_fd] = sock[l_fd]
<1> USE DEF sockVars
<1>0. l_fd \in Fd /\ sock[l_fd] \in Client
  BY DEF Serving, TypeOK, LoopTypeOK, TableInv
<1>1. CASE UNCHANGED sock
  BY <1>1
<1>2. CASE Accept
  <2>1. PICK fd \in Fd : accept(fd)
    BY <1>2 DEF Accept
  <2>2. sock[fd] = NoClient /\ sock' = [sock EXCEPT ![fd] = Head(backlog)]
    BY <2>1 DEF accept, FreeFds
  <2> QED  BY <1>0, <2>2, ConnAssumption DEF TypeOK, SockTypeOK
<1>3. CASE listen \/ Insert \/ Add \/ AddFails \/ Undo
  BY <1>1, <1>3 DEF listen, Insert, Add, AddFails, Undo, epoll_ctl_add
<1>4. CASE EpollWait \/ Dispatch
  BY <1>1, <1>4 DEF EpollWait, Dispatch
<1>5. CASE InClose
  BY <1>5 DEF InClose, InReturns, Serving, InPC, OutPC
<1>6. CASE InFind \/ InRecv \/ InPush \/ InAgain \/ InError \/ InEof \/ InRmQueue \/ InRmConn
  BY <1>1, <1>6 DEF InFind, InRecv, InPush, InAgain, InError, InEof, InRmQueue, InRmConn
<1>7. CASE handle_EPOLLOUT_event
  BY <1>1, <1>7 DEF handle_EPOLLOUT_event, OutFind, OutPop, OutPopFails, OutSend,
                    OutSendError, OutMod, epoll_ctl_mod
<1>8. CASE send_func \/ Wakeup
  BY <1>1, <1>8 DEF send_func, QueueStep, SendLookup, SendMod, SendModFails, SendRmQueue,
                    SendRmConn, Wakeup, epoll_ctl_mod
<1>9. CASE Clients
  BY <1>1, <1>9 DEF Clients, ClientNext, ClientConnect, ClientSend, ClientRead, ClientClose, ClientReset
<1>10. CASE UNCHANGED vars \/ \E w \in Worker : PoolThread(w)
  BY <1>1, <1>10 DEF PoolThread, vars
<1> QED
  BY <1>2, <1>3, <1>4, <1>5, <1>6, <1>7, <1>8, <1>9, <1>10
  DEF Next, Listen, Loop, handle_EPOLLIN_event

\* The loop starts to serve a connection by finding it in the table, and goes on
\* with the same connection and descriptor.
LEMMA ServeOrigin ==
  ASSUME TypeOK, [Next]_vars, Serving'
  PROVE  \/ Serving /\ UNCHANGED <<l_id, l_fd>>
         \/ InTable(l_id) /\ l_fd' = conn_map[l_id] /\ UNCHANGED <<l_id, sock, owner>>
<1> USE DEF loopVars
<1>1. CASE UNCHANGED loopVars
  BY <1>1 DEF Serving
<1>2. CASE Listen
  BY <1>1, <1>2 DEF Listen, listen, Accept, Insert, Add, AddFails, Undo
<1>3. CASE send_func \/ Wakeup
  BY <1>1, <1>3 DEF send_func, QueueStep, SendLookup, SendMod, SendModFails, SendRmQueue,
                    SendRmConn, Wakeup
<1>4. CASE Clients \/ UNCHANGED vars \/ \E w \in Worker : PoolThread(w)
  BY <1>1, <1>4 DEF Clients, PoolThread, vars
<1>5. CASE EpollWait \/ Dispatch
  BY <1>5 DEF EpollWait, Dispatch, Serving, InPC, OutPC
<1>6. CASE InFind \/ OutFind
  BY <1>6 DEF InFind, OutFind, InReturns, OutReturns, conn_get_sockfd, Serving, InPC, OutPC,
              sockVars, connVars
<1>7. CASE InAgain \/ InError \/ InClose \/ OutMod
  BY <1>7 DEF InAgain, InError, InClose, OutMod, InReturns, OutReturns, Serving, InPC, OutPC
<1>8. CASE InRecv \/ InPush \/ InEof \/ InRmQueue \/ InRmConn
  BY <1>8 DEF InRecv, InPush, InEof, InRmQueue, InRmConn, Serving, InPC
<1>9. CASE OutPop \/ OutPopFails \/ OutSend \/ OutSendError
  BY <1>9 DEF OutPop, OutPopFails, OutSend, OutSendError, Serving, OutPC
<1> QED
  BY <1>2, <1>3, <1>4, <1>5, <1>6, <1>7, <1>8, <1>9
  DEF Next, Loop, handle_EPOLLIN_event, handle_EPOLLOUT_event

\* While the loop serves a connection nobody else closes its descriptor.
LEMMA ServeNext ==
  ~ ReuseIds /\ TypeOK /\ TableInv /\ LoopServesOwner /\ [Next]_vars => LoopServesOwner'
<1> SUFFICES ASSUME ~ ReuseIds, TypeOK, TableInv, LoopServesOwner, [Next]_vars, Serving'
             PROVE  sock'[l_fd'] = owner'[l_id']
  BY DEF LoopServesOwner, Serving
<1>1. CASE Serving /\ UNCHANGED <<l_id, l_fd>>
  <2>1. sock[l_fd] = owner[l_id] /\ sock[l_fd] \in Client /\ l_id \in CONNID
    BY <1>1 DEF LoopServesOwner, Serving, TableInv, TypeOK, LoopTypeOK
  <2>2. owner'[l_id] = owner[l_id]
    BY <2>1, OwnerStable, ConnAssumption
  <2>3. sock'[l_fd] = sock[l_fd]
    BY <1>1, SocketStable
  <2> QED  BY <1>1, <2>1, <2>2, <2>3
<1>2. CASE InTable(l_id) /\ l_fd' = conn_map[l_id] /\ UNCHANGED <<l_id, sock, owner>>
  BY <1>2 DEF TableInv, TableMatchesSockets, TypeOK, LoopTypeOK
<1> QED  BY <1>1, <1>2, ServeOrigin

\* If Gen_ConnID never repeats an identifier, the event loop uses its descriptor
\* only for the client whose event it handles: the descriptor is neither closed
\* nor given to somebody else under its hands.
THEOREM LoopSafe == ~ ReuseIds /\ Spec => []LoopServesOwner
<1> SUFFICES ASSUME ~ ReuseIds PROVE Spec => []LoopServesOwner
  OBVIOUS
<1>1. Init => LoopServesOwner
  BY DEF Init, LoopServesOwner, InPC, OutPC
<1>2. TypeOK /\ TableInv /\ LoopServesOwner /\ [Next]_vars => LoopServesOwner'
  BY ServeNext
<1> QED  BY <1>1, <1>2, TypeCorrect, TableAlways, PTL DEF Spec

-----------------------------------------------------------------------------
(* Identifiers in use. *)

\* Between conn_insert and the end of EPOLL_CTL_ADD, or of the clean-up after it.
Pending == lis_pc \in {"add", "undo"}

\* Everywhere an identifier can be, the table and the listening thread apart.
Used(c) ==
  \/ \E fd \in Fd : ep_id[fd] = c
  \/ \E e \in batch : e.id = c
  \/ l_id = c
  \/ s_connid = c
  \/ \E i \in DOMAIN tasks : tasks[i].connid = c
  \/ \E w \in Worker : w_pc[w] # "idle" /\ w_task[w].connid = c
  \/ \E i \in DOMAIN m_list : m_list[i].conn_id = c

\* epoll's record of a descriptor is set by EPOLL_CTL_ADD and EPOLL_CTL_MOD.
LEMMA RecordOrigin ==
  ASSUME TypeOK, [Next]_vars, NEW fd \in Fd
  PROVE  \/ ep_id'[fd] = ep_id[fd]
         \/ ep_id'[fd] = SVR_INVALID_CONNECT_ID
         \/ ep_id'[fd] \in {l_id, s_connid}
         \/ Add /\ ep_id'[fd] = a_id
<1> USE DEF sockVars, epVars
<1>0. ep_id \in [Fd -> CONNID]
  BY DEF TypeOK, SockTypeOK
<1>1. CASE UNCHANGED ep_id
  BY <1>1
<1>2. CASE listen \/ Accept \/ Insert \/ AddFails \/ Undo
  BY <1>1, <1>2 DEF listen, Accept, Insert, AddFails, Undo, accept
<1>3. CASE Add
  BY <1>0, <1>3 DEF Add, epoll_ctl_add
<1>4. CASE EpollWait \/ Dispatch
  BY <1>1, <1>4 DEF EpollWait, Dispatch
<1>5. CASE InFind \/ InRecv \/ InPush \/ InAgain \/ InError \/ InEof \/ InRmQueue \/ InRmConn
  BY <1>1, <1>5 DEF InFind, InRecv, InPush, InAgain, InError, InEof, InRmQueue, InRmConn
<1>6. CASE InClose
  BY <1>0, <1>6 DEF InClose, close
<1>7. CASE OutFind \/ OutPop \/ OutPopFails \/ OutSend \/ OutSendError
  BY <1>1, <1>7 DEF OutFind, OutPop, OutPopFails, OutSend, OutSendError
<1>8. CASE OutMod
  BY <1>0, <1>8 DEF OutMod, epoll_ctl_mod
<1>9. CASE SendMod
  BY <1>0, <1>9 DEF SendMod, epoll_ctl_mod
<1>10. CASE QueueStep \/ SendLookup \/ SendModFails \/ SendRmQueue \/ SendRmConn \/ Wakeup
  BY <1>1, <1>10 DEF QueueStep, SendLookup, SendModFails, SendRmQueue, SendRmConn, Wakeup
<1>11. CASE Clients
  BY <1>1, <1>11 DEF Clients, ClientNext, ClientConnect, ClientSend, ClientRead, ClientClose, ClientReset
<1>12. CASE UNCHANGED vars \/ \E w \in Worker : PoolThread(w)
  BY <1>1, <1>12 DEF PoolThread, vars
<1> QED
  BY <1>2, <1>3, <1>4, <1>5, <1>6, <1>7, <1>8, <1>9, <1>10, <1>11, <1>12
  DEF Next, Listen, Loop, handle_EPOLLIN_event, handle_EPOLLOUT_event, send_func

\* An event carries what epoll has recorded.
LEMMA BatchOrigin ==
  ASSUME TypeOK, [Next]_vars, NEW e \in batch'
  PROVE  e \in batch \/ \E fd \in Fd : e.id = ep_id[fd]
<1> USE DEF loopVars
<1>1. CASE batch' \subseteq batch
  BY <1>1
<1>2. CASE EpollWait
  <2>1. PICK S \in SUBSET ready : batch' = {d \in {EventOf(fd) : fd \in S} : d.in \/ d.out}
    BY <1>2 DEF EpollWait
  <2>2. PICK fd \in S : e = EventOf(fd)
    BY <2>1
  <2>3. fd \in Fd
    BY <2>2 DEF TypeOK, SockTypeOK
  <2> QED  BY <2>2, <2>3 DEF EventOf
<1>3. CASE Dispatch
  BY <1>1, <1>3 DEF Dispatch
<1>4. CASE handle_EPOLLIN_event
  BY <1>1, <1>4 DEF handle_EPOLLIN_event, InFind, InRecv, InPush, InAgain, InError, InEof,
                    InRmQueue, InRmConn, InClose
<1>5. CASE handle_EPOLLOUT_event
  BY <1>1, <1>5 DEF handle_EPOLLOUT_event, OutFind, OutPop, OutPopFails, OutSend,
                    OutSendError, OutMod
<1>6. CASE Listen
  BY <1>1, <1>6 DEF Listen, listen, Accept, Insert, Add, AddFails, Undo
<1>7. CASE send_func \/ Wakeup
  BY <1>1, <1>7 DEF send_func, QueueStep, SendLookup, SendMod, SendModFails, SendRmQueue,
                    SendRmConn, Wakeup
<1>8. CASE Clients \/ UNCHANGED vars \/ \E w \in Worker : PoolThread(w)
  BY <1>1, <1>8 DEF Clients, PoolThread, vars
<1> QED  BY <1>2, <1>3, <1>4, <1>5, <1>6, <1>7, <1>8 DEF Next, Loop

\* The loop takes its connection from an event, the send thread from the queue.
LEMMA LocalOrigin ==
  ASSUME TypeOK, [Next]_vars
  PROVE  /\ l_id' \in {l_id, SVR_INVALID_CONNECT_ID} \/ \E e \in batch : l_id' = e.id
         /\ \/ s_connid' \in {s_connid, SVR_INVALID_CONNECT_ID}
            \/ \E i \in DOMAIN m_list : s_connid' = m_list[i].conn_id
<1> USE DEF loopVars, sendVars
<1>1. CASE UNCHANGED <<l_id, s_connid>>
  BY <1>1
<1>2. CASE Listen
  BY <1>1, <1>2 DEF Listen, listen, Accept, Insert, Add, AddFails, Undo
<1>3. CASE EpollWait \/ Dispatch
  BY <1>3 DEF EpollWait, Dispatch
<1>4. CASE handle_EPOLLIN_event
  BY <1>4 DEF handle_EPOLLIN_event, InFind, InRecv, InPush, InAgain, InError, InEof,
              InRmQueue, InRmConn, InClose, InReturns
<1>5. CASE handle_EPOLLOUT_event
  BY <1>5 DEF handle_EPOLLOUT_event, OutFind, OutPop, OutPopFails, OutSend,
              OutSendError, OutMod, OutReturns
<1>6. CASE QueueStep
  <2>1. m_list # <<>> => 1 \in DOMAIN m_list
    BY DEF TypeOK, SendTypeOK
  <2> QED  BY <1>6, <2>1 DEF QueueStep, SendFront, send_wait, QSend_connid_of_front
<1>7. CASE SendLookup \/ SendMod \/ SendModFails \/ SendRmQueue \/ SendRmConn \/ Wakeup
  BY <1>7 DEF SendLookup, SendMod, SendModFails, SendRmQueue, SendRmConn, SendAgain, Wakeup,
              SpuriousWakeup
<1>8. ASSUME NEW w \in Worker, PoolThread(w) PROVE UNCHANGED <<l_id, s_connid>>
  BY <1>8 DEF PoolThread, WorkerNext, TakeWork, work_proc_push, work_proc_drop, work_proc_signal
<1>9. CASE Clients \/ UNCHANGED vars
  BY <1>1, <1>9 DEF Clients, vars
<1> QED  BY <1>1, <1>2, <1>3, <1>4, <1>5, <1>6, <1>7, <1>8, <1>9 DEF Next, Loop, send_func

\* Only EPOLL_CTL_ADD brings a new identifier into circulation.
LEMMA UsedOrigin ==
  ASSUME TypeOK, [Next]_vars, NEW c \in CONNID, c # SVR_INVALID_CONNECT_ID, Used(c)'
  PROVE  Used(c) \/ (Add /\ c = a_id)
<1>1. CASE \E fd \in Fd : ep_id'[fd] = c
  BY <1>1, RecordOrigin DEF Used
<1>2. CASE \E e \in batch' : e.id = c
  BY <1>2, BatchOrigin DEF Used
<1>3. CASE l_id' = c \/ s_connid' = c
  BY <1>3, LocalOrigin DEF Used
<1>4. CASE \E i \in DOMAIN tasks' : tasks'[i].connid = c
  <2>1. PICK i \in DOMAIN tasks' : tasks'[i].connid = c
    BY <1>4
  <2>2. CASE \E j \in DOMAIN tasks : tasks'[i] = tasks[j]
    BY <2>1, <2>2 DEF Used
  <2>3. CASE tasks'[i] = [connid |-> l_id, req |-> Head(l_reqs)]
    BY <2>1, <2>3 DEF Used
  <2> QED  BY <2>2, <2>3, TaskOrigin
<1>5. CASE \E w \in Worker : w_pc'[w] # "idle" /\ w_task'[w].connid = c
  BY <1>5, WorkOrigin DEF Used
<1>6. CASE \E i \in DOMAIN m_list' : m_list'[i].conn_id = c
  <2>1. PICK i \in DOMAIN m_list' : m_list'[i].conn_id = c
    BY <1>6
  <2>2. CASE \E j \in DOMAIN m_list : m_list'[i] = m_list[j]
    BY <2>1, <2>2 DEF Used
  <2>3. CASE \E w \in Worker, n \in OutLen :
               /\ w_pc[w] = "run"
               /\ \/ m_list'[i] = NewEntry(w_task[w].connid, w_task[w].req, create_pack(n))
                  \/ m_list'[i] = MergedEntry(w_task[w].connid, w_task[w].req, create_pack(n))
    BY <2>1, <2>3 DEF Used, NewEntry, MergedEntry
  <2> QED  BY <2>2, <2>3, EntryOrigin
<1> QED  BY <1>1, <1>2, <1>3, <1>4, <1>5, <1>6 DEF Used

-----------------------------------------------------------------------------
(* Descriptors, when identifiers are not given out again. *)

\* The send thread holds a descriptor it looked up, or knows that it is gone.
Sending == s_pc \in {"mod", "rm_queue", "rm_conn"}
Erasing == s_pc \in {"rm_queue", "rm_conn"}

(***************************************************************************)
(* DescriptorAccounted is not inductive, because either thread could take  *)
(* an entry out of the table that names a descriptor nobody closes.  The   *)
(* loop does not, since the descriptor in the entry it removes is the one  *)
(* it goes on to close.  The send thread does not, since it removes an     *)
(* entry only after EPOLL_CTL_MOD has failed, and then there is none: an   *)
(* entry is registered with epoll, except the one the listening thread has *)
(* just made, and that one's identifier nobody else has seen yet.          *)
(***************************************************************************)
UsedInv ==
  \A c \in CONNID : Used(c) /\ c # SVR_INVALID_CONNECT_ID =>
    owner[c] # NoClient /\ (Pending => c # a_id)

HolderInv ==
  /\ Serving /\ InTable(l_id) => conn_map[l_id] = l_fd
  /\ Sending /\ InTable(s_connid) => conn_map[s_connid] = s_fd
  /\ Erasing => ~ InTable(s_connid)

RegisteredInv ==
  /\ Pending => a_id # SVR_INVALID_CONNECT_ID /\ conn_map[a_id] = a_fd
  /\ lis_pc \in LisBusy => a_fd \notin ep_fds
  /\ lis_pc = "undo" => AddMayFail
  /\ \A fd \in ep_fds : sock[fd] # NoClient
  /\ \A c \in CONNID : InTable(c) => conn_map[c] \in ep_fds \/ (Pending /\ c = a_id)

AccountInv == UsedInv /\ HolderInv /\ RegisteredInv /\ DescriptorAccounted

\* Nobody has seen the identifier of a connection that is not registered yet.
LEMMA PendingUnused ==
  ASSUME TypeOK, AccountInv, Pending
  PROVE  l_id # a_id /\ s_connid # a_id
<1>1. a_id # SVR_INVALID_CONNECT_ID /\ a_id \in CONNID
  BY DEF AccountInv, RegisteredInv, TypeOK, LisTypeOK, LisBusy
<1>2. ~ Used(a_id)
  BY <1>1 DEF AccountInv, UsedInv
<1> QED  BY <1>2 DEF Used

\* An entry after a step was there before, or conn_insert has just made it, under
\* an identifier that was never issued.
LEMMA TableOrigin ==
  ASSUME TypeOK, ~ ReuseIds, [Next]_vars, NEW c \in CONNID, InTable(c)'
  PROVE  \/ conn_map'[c] = conn_map[c]
         \/ lis_pc = "insert" /\ c # SVR_INVALID_CONNECT_ID /\ owner[c] = NoClient
<1> USE DEF connVars
<1>1. CASE UNCHANGED conn_map
  BY <1>1
<1>2. ASSUME NEW d \in CONNID, conn_remove(d) PROVE conn_map'[c] = conn_map[c]
  BY <1>2 DEF conn_remove, InTable, TypeOK, ConnTypeOK
<1>3. CASE Insert
  BY <1>3 DEF Insert, conn_insert, TypeOK, ConnTypeOK
<1>4. CASE listen \/ Accept \/ Add \/ AddFails
  BY <1>1, <1>4 DEF listen, Accept, Add, AddFails
<1>5. CASE Undo
  BY <1>2, <1>5 DEF Undo, TypeOK, LisTypeOK, LisBusy
<1>6. CASE EpollWait \/ Dispatch
  BY <1>1, <1>6 DEF EpollWait, Dispatch
<1>7. CASE InRmConn
  BY <1>2, <1>7 DEF InRmConn, TypeOK, LoopTypeOK
<1>8. CASE InFind \/ InRecv \/ InPush \/ InAgain \/ InError \/ InEof \/ InRmQueue \/ InClose
  BY <1>1, <1>8 DEF InFind, InRecv, InPush, InAgain, InError, InEof, InRmQueue, InClose
<1>9. CASE handle_EPOLLOUT_event
  BY <1>1, <1>9 DEF handle_EPOLLOUT_event, OutFind, OutPop, OutPopFails, OutSend,
                    OutSendError, OutMod
<1>10. CASE SendRmConn
  BY <1>2, <1>10 DEF SendRmConn, TypeOK, SendTypeOK
<1>11. CASE QueueStep \/ SendLookup \/ SendMod \/ SendModFails \/ SendRmQueue \/ Wakeup
  BY <1>1, <1>11 DEF QueueStep, SendLookup, SendMod, SendModFails, SendRmQueue, Wakeup
<1>12. CASE Clients \/ UNCHANGED vars \/ \E w \in Worker : PoolThread(w)
  BY <1>1, <1>12 DEF Clients, PoolThread, vars
<1> QED
  BY <1>3, <1>4, <1>5, <1>6, <1>7, <1>8, <1>9, <1>10, <1>11, <1>12
  DEF Next, Listen, Loop, handle_EPOLLIN_event, send_func

\* The send thread gets a descriptor from the table and keeps it; it starts to
\* erase when the descriptor is not registered.
LEMMA SendOrigin ==
  ASSUME TypeOK, [Next]_vars, Sending'
  PROVE  /\ s_connid' = s_connid
         /\ \/ Sending /\ s_fd' = s_fd
            \/ InTable(s_connid) /\ s_fd' = conn_map[s_connid] /\ UNCHANGED conn_map
         /\ Erasing' => Erasing \/ (s_pc = "mod" /\ s_fd \notin ep_fds)
<1> USE DEF sendVars
<1>1. CASE UNCHANGED <<s_pc, s_connid, s_fd>>
  BY <1>1 DEF Sending, Erasing
<1>2. CASE Listen
  BY <1>1, <1>2 DEF Listen, listen, Accept, Insert, Add, AddFails, Undo
<1>3. CASE EpollWait \/ Dispatch
  BY <1>1, <1>3 DEF EpollWait, Dispatch
<1>4. CASE handle_EPOLLIN_event
  BY <1>1, <1>4 DEF handle_EPOLLIN_event, InFind, InRecv, InPush, InAgain, InError, InEof,
                    InRmQueue, InRmConn, InClose
<1>5. CASE handle_EPOLLOUT_event
  BY <1>1, <1>5 DEF handle_EPOLLOUT_event, OutFind, OutPop, OutPopFails, OutSend,
                    OutSendError, OutMod
<1>6. CASE QueueStep \/ SendMod \/ SendRmConn \/ Wakeup
  BY <1>6 DEF QueueStep, SendFront, send_wait, SendMod, SendRmConn, SendAgain, Wakeup,
              SpuriousWakeup, Sending
<1>7. CASE SendLookup
  BY <1>7 DEF SendLookup, SendAgain, conn_get_sockfd, connVars, Sending, Erasing
<1>8. CASE SendModFails \/ SendRmQueue
  BY <1>8 DEF SendModFails, SendRmQueue, Sending, Erasing
<1>9. ASSUME NEW w \in Worker, PoolThread(w)
      PROVE  s_connid' = s_connid /\ s_fd' = s_fd /\ s_pc = s_pc'
  <2>1. CASE work_proc_signal(w)
    BY <2>1 DEF work_proc_signal, send_signal, Sending
  <2> QED
    BY <1>9, <2>1 DEF PoolThread, WorkerNext, TakeWork, work_proc_push, work_proc_drop
<1>10. CASE Clients \/ UNCHANGED vars
  BY <1>1, <1>10 DEF Clients, vars
<1> QED
  BY <1>1, <1>2, <1>3, <1>4, <1>5, <1>6, <1>7, <1>8, <1>9, <1>10 DEF Next, Loop, send_func

\* An identifier is issued before it is used, and stays issued.
LEMMA UsedNext ==
  ASSUME TypeOK, ~ ReuseIds, TableInv, AccountInv, [Next]_vars
  PROVE  UsedInv'
<1> SUFFICES ASSUME NEW c \in CONNID, Used(c)', c # SVR_INVALID_CONNECT_ID
             PROVE  owner'[c] # NoClient /\ (Pending' => c # a_id')
  BY DEF UsedInv
<1>1. CASE Used(c)
  <2>1. owner[c] # NoClient /\ (Pending => c # a_id)
    BY <1>1 DEF AccountInv, UsedInv
  <2>2. owner'[c] # NoClient
    BY <2>1, OwnerStable
  <2>3. Pending' => \/ Pending /\ a_id' = a_id
                    \/ owner[a_id'] = NoClient
    <3> USE DEF lisVars, Pending
    <3>1. CASE UNCHANGED lisVars
      BY <3>1
    <3>2. CASE Listen
      BY <3>2 DEF Listen, listen, Accept, Insert, conn_insert, Add, NextAccept, AddFails, Undo
    <3>3. CASE Loop
      BY <3>1, <3>3
      DEF Loop, EpollWait, Dispatch, handle_EPOLLIN_event, handle_EPOLLOUT_event,
          InFind, InRecv, InPush, InAgain, InError, InEof, InRmQueue, InRmConn, InClose,
          OutFind, OutPop, OutPopFails, OutSend, OutSendError, OutMod
    <3>4. CASE send_func \/ Wakeup
      BY <3>1, <3>4 DEF send_func, QueueStep, SendLookup, SendMod, SendModFails, SendRmQueue,
                        SendRmConn, Wakeup
    <3>5. CASE Clients \/ UNCHANGED vars \/ \E w \in Worker : PoolThread(w)
      BY <3>1, <3>5 DEF Clients, PoolThread, vars
    <3> QED  BY <3>2, <3>3, <3>4, <3>5 DEF Next
  <2> QED  BY <2>1, <2>2, <2>3
<1>2. CASE Add /\ c = a_id
  <2>1. InTable(c) /\ ~ Pending'
    BY <1>2 DEF AccountInv, RegisteredInv, Add, NextAccept, Pending, InTable, TypeOK, LisTypeOK, LisBusy
  <2>2. owner[c] \in Client
    BY <2>1 DEF TableInv
  <2>3. owner'[c] # NoClient
    BY <2>2, OwnerStable, ConnAssumption
  <2> QED  BY <2>1, <2>3
<1> QED  BY <1>1, <1>2, UsedOrigin

\* What the loop and the send thread hold agrees with the table.
LEMMA HolderNext ==
  ASSUME TypeOK, ~ ReuseIds, AccountInv, [Next]_vars
  PROVE  HolderInv'
<1>0. /\ l_id \in CONNID /\ s_connid \in CONNID
      /\ \A c \in {l_id, s_connid} : c # SVR_INVALID_CONNECT_ID => owner[c] # NoClient
  BY DEF TypeOK, LoopTypeOK, SendTypeOK, AccountInv, UsedInv, Used
<1>1. \A c \in {l_id, s_connid} : InTable(c)' => conn_map'[c] = conn_map[c] /\ InTable(c)
  BY <1>0, TableOrigin DEF InTable
<1>2. Serving' => l_id' = l_id
  BY ServeOrigin
<1>3. Serving' /\ InTable(l_id)' => conn_map'[l_id'] = l_fd'
  BY <1>1, <1>2, ServeOrigin DEF AccountInv, HolderInv, InTable
<1>4. Sending' => s_connid' = s_connid
  BY SendOrigin
<1>5. Sending' /\ InTable(s_connid)' => conn_map'[s_connid'] = s_fd'
  BY <1>1, <1>4, SendOrigin DEF AccountInv, HolderInv, InTable
<1>6. s_pc = "mod" /\ s_fd \notin ep_fds => ~ InTable(s_connid)
  <2> SUFFICES ASSUME s_pc = "mod", s_fd \notin ep_fds, InTable(s_connid) PROVE FALSE
    OBVIOUS
  <2>1. conn_map[s_connid] = s_fd
    BY DEF AccountInv, HolderInv, Sending
  <2>2. Pending /\ s_connid = a_id
    BY <1>0, <2>1 DEF AccountInv, RegisteredInv
  <2> QED  BY <2>2, PendingUnused
<1>7. Erasing' => ~ InTable(s_connid)'
  <2>1. Erasing' => Sending'
    BY DEF Erasing, Sending
  <2>2. Erasing' => ~ InTable(s_connid)
    BY <1>6, <2>1, SendOrigin DEF AccountInv, HolderInv
  <2>3. Erasing' => s_connid' = s_connid
    BY <1>4, <2>1
  <2>4. InTable(s_connid)' => conn_map'[s_connid'] # NoFd
    BY DEF InTable
  <2>5. conn_map'[s_connid] # NoFd => InTable(s_connid)
    BY <1>0, <1>1 DEF InTable
  <2> QED  BY <2>2, <2>3, <2>4, <2>5
<1> QED  BY <1>2, <1>3, <1>4, <1>5, <1>7 DEF HolderInv

\* What the loop is about to close it does close, and it goes on with nothing else.
LEMMA CloseOrigin ==
  ASSUME [Next]_vars, l_pc = "close", ~ InClose
  PROVE  UNCHANGED <<l_pc, l_fd>>
<1> USE DEF loopVars
<1>1. CASE Listen
  BY <1>1 DEF Listen, listen, Accept, Insert, Add, AddFails, Undo
<1>2. CASE Loop
  BY <1>2
  DEF Loop, EpollWait, Dispatch, handle_EPOLLIN_event, handle_EPOLLOUT_event,
      InFind, InRecv, InPush, InAgain, InError, InEof, InRmQueue, InRmConn,
      OutFind, OutPop, OutPopFails, OutSend, OutSendError, OutMod
<1>3. CASE send_func \/ Wakeup
  BY <1>3 DEF send_func, QueueStep, SendLookup, SendMod, SendModFails, SendRmQueue,
              SendRmConn, Wakeup
<1>4. CASE Clients \/ UNCHANGED vars \/ \E w \in Worker : PoolThread(w)
  BY <1>4 DEF Clients, PoolThread, vars
<1> QED  BY <1>1, <1>2, <1>3, <1>4 DEF Next

\* The registrations and the listening thread after a step that touches neither
\* the table nor the descriptors.
LEMMA AccountKeep ==
  ASSUME AccountInv, UNCHANGED <<conn_map, sock, ep_fds, lisVars>>,
         l_pc = "close" => UNCHANGED <<l_pc, l_fd>>
  PROVE  (RegisteredInv /\ DescriptorAccounted)'
<1>1. RegisteredInv'
  BY DEF AccountInv, RegisteredInv, Pending, InTable, lisVars
<1>2. DescriptorAccounted'
  BY DEF AccountInv, DescriptorAccounted, lisVars
<1> QED  BY <1>1, <1>2

\* listen_thread: a new descriptor is in its hands, then in the table, and at the
\* end registered; or, if that fails, it is left open and nobody knows of it.
LEMMA AccountListen ==
  ASSUME TypeOK, ~ ReuseIds, TableInv, AccountInv, Listen
  PROVE  (RegisteredInv /\ DescriptorAccounted)'
<1> USE DEF TypeOK, ConnTypeOK, SockTypeOK, LisTypeOK, LisBusy, AccountInv, RegisteredInv, Pending
<1>1. CASE Accept
  <2>1. PICK fd \in Fd : accept(fd) /\ a_fd' = fd
    BY <1>1 DEF Accept
  <2>2. /\ sock' = [sock EXCEPT ![fd] = Head(backlog)]
        /\ sock[fd] = NoClient
        /\ Head(backlog) \in Client
        /\ UNCHANGED <<ep_fds, conn_map, l_pc, l_fd, a_id>>
        /\ lis_pc = "accept" /\ lis_pc' = "insert"
    BY <1>1, <2>1 DEF Accept, accept, FreeFds, epVars, connVars, loopVars
  <2>3. \A g \in Fd : g # fd => sock'[g] = sock[g]
    BY <2>2
  <2>4. fd \notin ep_fds
    BY <2>2
  <2>5. RegisteredInv'
    BY <2>1, <2>2, <2>3, <2>4 DEF InTable
  <2>6. DescriptorAccounted'
    BY <2>1, <2>2, <2>3 DEF DescriptorAccounted
  <2> QED  BY <2>5, <2>6
<1>2. CASE Insert
  <2>1. PICK id \in CONNID : conn_insert(id, a_fd, sock[a_fd]) /\ a_id' = id
    BY <1>2 DEF Insert
  <2>2. /\ ~ InTable(id) /\ id # SVR_INVALID_CONNECT_ID
        /\ conn_map' = [conn_map EXCEPT ![id] = a_fd]
        /\ UNCHANGED <<sock, ep_fds, l_pc, l_fd, a_fd>>
        /\ lis_pc = "insert" /\ lis_pc' = "add"
    BY <1>2, <2>1 DEF Insert, conn_insert, sockVars, epVars, loopVars
  <2>3. conn_map'[id] = a_fd /\ \A o \in CONNID : o # id => conn_map'[o] = conn_map[o]
    BY <2>2
  <2>4. RegisteredInv'
    BY <2>1, <2>2, <2>3 DEF InTable
  <2>5. \A fd \in Fd : (\E o \in CONNID : conn_map[o] = fd) => \E o \in CONNID : conn_map'[o] = fd
    BY <2>2, <2>3 DEF InTable
  <2>6. DescriptorAccounted'
    BY <2>2, <2>3, <2>5 DEF DescriptorAccounted
  <2> QED  BY <2>4, <2>6
<1>3. CASE Add
  <2>1. /\ ep_fds' = ep_fds \cup {a_fd}
        /\ UNCHANGED <<sock, conn_map, l_pc, l_fd>>
        /\ lis_pc = "add" /\ lis_pc' = "accept"
    BY <1>3 DEF Add, NextAccept, epoll_ctl_add, connVars, loopVars
  <2>2. conn_map[a_id] = a_fd /\ a_id \in CONNID /\ a_fd \in Fd
    BY <2>1
  <2>3. sock[a_fd] # NoClient
    BY <2>2, ConnAssumption DEF TableInv, TableMatchesSockets, InTable
  <2>4. RegisteredInv'
    BY <2>1, <2>2, <2>3 DEF InTable
  <2>5. DescriptorAccounted'
    BY <2>1, <2>2 DEF DescriptorAccounted
  <2> QED  BY <2>4, <2>5
<1>4. CASE AddFails
  <2>1. /\ UNCHANGED <<sock, ep_fds, conn_map, l_pc, l_fd, a_fd, a_id>>
        /\ lis_pc = "add" /\ lis_pc' = "undo" /\ AddMayFail
    BY <1>4 DEF AddFails, sockVars, epVars, connVars, loopVars
  <2>2. RegisteredInv'
    BY <2>1 DEF InTable
  <2>3. DescriptorAccounted'
    BY <2>1 DEF DescriptorAccounted
  <2> QED  BY <2>2, <2>3
<1>5. CASE Undo
  <2>1. /\ conn_map' = [conn_map EXCEPT ![a_id] = NoFd]
        /\ UNCHANGED <<sock, ep_fds, l_pc, l_fd>>
        /\ lis_pc = "undo" /\ lis_pc' = "accept" /\ AddMayFail
    BY <1>5 DEF Undo, conn_remove, NextAccept, sockVars, epVars, loopVars
  <2>2. conn_map[a_id] = a_fd /\ a_id \in CONNID /\ a_fd \notin ep_fds
    BY <2>1
  <2>3. /\ conn_map'[a_id] = NoFd
        /\ \A o \in CONNID : o # a_id => conn_map'[o] = conn_map[o]
    BY <2>1, <2>2
  <2>4. RegisteredInv'
    BY <2>1, <2>2, <2>3 DEF InTable
  <2>5. DescriptorAccounted'
    BY <2>1, <2>2, <2>3 DEF DescriptorAccounted
  <2> QED  BY <2>4, <2>5
<1>6. CASE listen
  <2>1. /\ UNCHANGED <<sock, ep_fds, conn_map, l_pc, l_fd, a_fd, a_id>>
        /\ lis_pc = "listen" /\ lis_pc' \in {"accept", "ended"}
    BY <1>6 DEF listen, sockVars, epVars, connVars, loopVars
  <2>2. RegisteredInv'
    BY <2>1 DEF InTable
  <2>3. DescriptorAccounted'
    BY <2>1 DEF DescriptorAccounted
  <2> QED  BY <2>2, <2>3
<1> QED  BY <1>1, <1>2, <1>3, <1>4, <1>5, <1>6 DEF Listen

\* The loop closes the descriptor whose entry it has removed.
LEMMA AccountRemove ==
  ASSUME TypeOK, AccountInv, InRmConn
  PROVE  (RegisteredInv /\ DescriptorAccounted)'
<1>1. /\ conn_map' = [conn_map EXCEPT ![l_id] = NoFd]
      /\ UNCHANGED <<sock, ep_fds, lis_pc, a_fd, a_id, l_fd>>
      /\ l_pc = "rm_conn" /\ l_pc' = "close"
  BY DEF InRmConn, conn_remove, sockVars, epVars, lisVars
<1>2. l_id \in CONNID /\ conn_map \in [CONNID -> Fd \cup {NoFd}]
  BY DEF TypeOK, LoopTypeOK, ConnTypeOK
<1>3. /\ conn_map'[l_id] = NoFd
      /\ \A c \in CONNID : c # l_id => conn_map'[c] = conn_map[c]
  BY <1>1, <1>2
<1>4. conn_map[l_id] \in {l_fd, NoFd}
  BY <1>1 DEF AccountInv, HolderInv, Serving, InPC, InTable
<1>5. RegisteredInv'
  BY <1>1, <1>2, <1>3, PendingUnused DEF AccountInv, RegisteredInv, Pending, InTable
<1>6. DescriptorAccounted'
  BY <1>1, <1>2, <1>3, <1>4 DEF AccountInv, DescriptorAccounted
<1> QED  BY <1>5, <1>6

\* The descriptor the loop closes is in no entry any more.
LEMMA AccountClose ==
  ASSUME TypeOK, TableInv, AccountInv, InClose
  PROVE  (RegisteredInv /\ DescriptorAccounted)'
<1>1. /\ sock' = [sock EXCEPT ![l_fd] = NoClient]
      /\ ep_fds' = ep_fds \ {l_fd}
      /\ UNCHANGED <<conn_map, lis_pc, a_fd, a_id>>
      /\ l_pc = "close"
  BY DEF InClose, close, connVars, lisVars
<1>2. l_fd \in Fd /\ sock \in [Fd -> Client \cup {NoClient}] /\ ep_fds \subseteq Fd
  BY <1>1 DEF TypeOK, LoopTypeOK, SockTypeOK, InPC
<1>3. /\ sock'[l_fd] = NoClient
      /\ \A fd \in Fd : fd # l_fd => sock'[fd] = sock[fd]
  BY <1>1, <1>2
<1>4. \A c \in CONNID : conn_map[c] # l_fd
  BY <1>1 DEF TableInv
<1>5. RegisteredInv'
  BY <1>1, <1>2, <1>3, <1>4 DEF AccountInv, RegisteredInv, Pending, InTable
<1>6. DescriptorAccounted'
  BY <1>1, <1>2, <1>3 DEF AccountInv, DescriptorAccounted
<1> QED  BY <1>5, <1>6

\* Every step keeps account of the descriptors.
LEMMA AccountNext ==
  ASSUME TypeOK, ~ ReuseIds, TableInv, AccountInv, [Next]_vars
  PROVE  AccountInv'
<1> USE DEF sockVars, epVars, connVars
<1>1. CASE InClose \/ InRmConn \/ Listen
  <2>1. (RegisteredInv /\ DescriptorAccounted)'
    BY <1>1, AccountClose, AccountRemove, AccountListen
  <2> QED  BY <2>1, UsedNext, HolderNext DEF AccountInv
<1>2. ASSUME UNCHANGED <<conn_map, sock, ep_fds, lisVars>>, ~ InClose
      PROVE  AccountInv'
  <2>1. l_pc = "close" => UNCHANGED <<l_pc, l_fd>>
    BY <1>2, CloseOrigin
  <2>2. (RegisteredInv /\ DescriptorAccounted)'
    BY <1>2, <2>1, AccountKeep
  <2> QED  BY <2>2, UsedNext, HolderNext DEF AccountInv
<1>3. CASE EpollWait \/ Dispatch
  BY <1>1, <1>2, <1>3 DEF EpollWait, Dispatch
<1>4. CASE InFind \/ InRecv \/ InPush \/ InAgain \/ InError \/ InEof \/ InRmQueue
  BY <1>1, <1>2, <1>4 DEF InFind, InRecv, InPush, InAgain, InError, InEof, InRmQueue
<1>5. CASE handle_EPOLLOUT_event
  BY <1>1, <1>2, <1>5 DEF handle_EPOLLOUT_event, OutFind, OutPop, OutPopFails, OutSend,
                          OutSendError, OutMod, epoll_ctl_mod
<1>6. CASE SendRmConn
  <2>1. s_connid \in CONNID /\ ~ InTable(s_connid) /\ conn_map \in [CONNID -> Fd \cup {NoFd}]
    BY <1>6 DEF SendRmConn, AccountInv, HolderInv, Erasing, TypeOK, SendTypeOK, ConnTypeOK
  <2>2. conn_map' = conn_map
    BY <1>6, <2>1 DEF SendRmConn, conn_remove, InTable
  <2> QED  BY <1>1, <1>2, <1>6, <2>2 DEF SendRmConn
<1>7. CASE QueueStep \/ SendLookup \/ SendMod \/ SendModFails \/ SendRmQueue \/ Wakeup
  BY <1>1, <1>2, <1>7 DEF QueueStep, SendLookup, SendMod, SendModFails, SendRmQueue, Wakeup,
                          epoll_ctl_mod
<1>8. CASE Clients
  BY <1>1, <1>2, <1>8
  DEF Clients, ClientNext, ClientConnect, ClientSend, ClientRead, ClientClose, ClientReset
<1>9. CASE UNCHANGED vars \/ \E w \in Worker : PoolThread(w)
  BY <1>1, <1>2, <1>9 DEF PoolThread, vars
<1> QED
  BY <1>1, <1>3, <1>4, <1>5, <1>6, <1>7, <1>8, <1>9
  DEF Next, Loop, handle_EPOLLIN_event, send_func

\* The account is right throughout.
LEMMA AccountAlways == ~ ReuseIds /\ Spec => []AccountInv
<1> SUFFICES ASSUME ~ ReuseIds PROVE Spec => []AccountInv
  OBVIOUS
<1>1. Init => AccountInv
  <2> SUFFICES ASSUME Init PROVE AccountInv
    OBVIOUS
  <2> USE DEF Init, create_conn_table, create_send_helper, workpool_start, SockInit
  <2>1. UsedInv
    BY DEF UsedInv, Used
  <2>2. HolderInv
    BY DEF HolderInv, Serving, Sending, Erasing, InPC, OutPC
  <2>3. RegisteredInv
    BY DEF RegisteredInv, Pending, InTable
  <2>4. DescriptorAccounted
    BY DEF DescriptorAccounted
  <2> QED  BY <2>1, <2>2, <2>3, <2>4 DEF AccountInv
<1>2. TypeOK /\ TableInv /\ AccountInv /\ [Next]_vars => AccountInv'
  BY AccountNext
<1> QED  BY <1>1, <1>2, TypeCorrect, TableAlways, PTL DEF Spec

\* If Gen_ConnID never repeats an identifier, an open descriptor is in the table,
\* or in the hands of the thread that is about to insert or to close it, unless
\* EPOLL_CTL_ADD failed for it: no order in which the loop and the send thread
\* take a connection down leaks a registered descriptor.
THEOREM DescriptorsSafe == ~ ReuseIds /\ Spec => []DescriptorAccounted
<1> SUFFICES ASSUME ~ ReuseIds PROVE Spec => []DescriptorAccounted
  OBVIOUS
<1>1. Spec => []AccountInv
  BY AccountAlways
<1>2. AccountInv => DescriptorAccounted
  BY DEF AccountInv
<1> QED  BY <1>1, <1>2, PTL
=============================================================================
