-------------------------------- MODULE EpSvr --------------------------------
(***************************************************************************)
(* The running server of src/src/ep_svr.c: the listening thread, the event *)
(* loop, the send thread and the pool threads, over the connection table,  *)
(* the send queue and the sockets they share.  Every thread's step is one  *)
(* call that takes a lock or enters the kernel, so that the threads are    *)
(* interleaved between any two of them.                                    *)
(***************************************************************************)
EXTENDS Engine, Sockets

CONSTANTS
  MaxEvents,    \* NET_EPOLL_EVENT_MAX_SIZE
  AddMayFail    \* may EPOLL_CTL_ADD fail?

ASSUME EpSvrAssumption ==
  /\ MaxEvents \in Nat \ {0}
  /\ AddMayFail \in BOOLEAN
  /\ Response = Request   \* a response carries the msgID of its request

VARIABLES
  lis_pc, a_fd, a_id,         \* listen_thread: its program counter, client_fd, connId
  batch,                      \* events epoll_wait returned that are not handled yet
  l_pc, l_id, l_out, l_fd,    \* the loop: program counter, connid, is EPOLLOUT set, curfd
  l_reqs,                     \* the packages in recv_buff
  l_data                      \* sendbuf from ptr on

lisVars  == <<lis_pc, a_fd, a_id>>
loopVars == <<batch, l_pc, l_id, l_out, l_fd, l_reqs, l_data>>
workVars == <<tasks, w_pc, w_task>>
vars     == <<connVars, sendVars, workVars, sockVars, lisVars, loopVars>>

Event == [fd : Fd, id : CONNID, in : BOOLEAN, out : BOOLEAN]

LisBusy == {"insert", "add", "undo"}   \* with an accepted descriptor

InPC  == {"recv", "push", "rm_queue", "rm_conn", "close"}
OutPC == {"pop", "send", "mod"}

Init ==
  /\ create_conn_table
  /\ create_send_helper
  /\ workpool_start
  /\ SockInit
  /\ lis_pc = "listen" /\ a_fd = NoFd /\ a_id = SVR_INVALID_CONNECT_ID
  /\ batch = {}
  /\ l_pc = "disp" /\ l_id = SVR_INVALID_CONNECT_ID /\ l_out = FALSE /\ l_fd = NoFd
  /\ l_reqs = <<>> /\ l_data = <<>>

-----------------------------------------------------------------------------
(***************************************************************************)
(* listen_thread.  (inet_ntop has nothing to fail on: the family is AF_INET *)
(* and the buffer holds the longest address, so the return after it is not *)
(* taken.  accept fails, and is called again, while no descriptor is free.) *)
(***************************************************************************)

\* A listen that fails ends the thread.
listen ==
  /\ lis_pc = "listen"
  /\ lis_pc' \in {"accept", "ended"}
  /\ UNCHANGED <<a_fd, a_id, connVars, sendVars, workVars, sockVars, loopVars>>

Accept ==
  /\ lis_pc = "accept"
  /\ \E fd \in Fd : accept(fd) /\ a_fd' = fd
  /\ lis_pc' = "insert"
  /\ UNCHANGED <<a_id, connVars, sendVars, workVars, loopVars>>

Insert ==
  /\ lis_pc = "insert"
  /\ \E id \in CONNID : conn_insert(id, a_fd, sock[a_fd]) /\ a_id' = id
  /\ lis_pc' = "add"
  /\ UNCHANGED <<a_fd, sendVars, workVars, sockVars, loopVars>>

NextAccept ==
  /\ lis_pc' = "accept"
  /\ a_fd' = NoFd
  /\ a_id' = SVR_INVALID_CONNECT_ID

Add ==
  /\ lis_pc = "add"
  /\ epoll_ctl_add(a_fd, a_id)
  /\ NextAccept
  /\ UNCHANGED <<connVars, sendVars, workVars, loopVars>>

AddFails ==
  /\ lis_pc = "add"
  /\ AddMayFail
  /\ lis_pc' = "undo"
  /\ UNCHANGED <<a_fd, a_id, connVars, sendVars, workVars, sockVars, loopVars>>

\* The entry goes, the descriptor stays open.
Undo ==
  /\ lis_pc = "undo"
  /\ conn_remove(a_id)
  /\ NextAccept
  /\ UNCHANGED <<sendVars, workVars, sockVars, loopVars>>

Listen == listen \/ Accept \/ Insert \/ Add \/ AddFails \/ Undo

-----------------------------------------------------------------------------
(* work_routine *)

\* What epoll_wait reports of a ready descriptor.
EventOf(fd) == [fd |-> fd, id |-> ep_id[fd], in |-> Readable(fd), out |-> fd \in ep_out /\ Writable(fd)]

EpollWait ==
  /\ l_pc = "disp"
  /\ batch = {}
  /\ \E S \in SUBSET ready :
       /\ S # {}
       /\ Cardinality(S) <= MaxEvents
       /\ S = ready \/ Cardinality(S) = MaxEvents
       /\ batch' = {e \in {EventOf(fd) : fd \in S} : e.in \/ e.out}
       /\ ready' = ready \ S
  /\ UNCHANGED <<peerVars, sock, ep_fds, ep_id, ep_out>>
  /\ UNCHANGED <<l_pc, l_id, l_out, l_fd, l_reqs, l_data>>
  /\ UNCHANGED <<connVars, sendVars, workVars, lisVars>>

Dispatch ==
  /\ l_pc = "disp"
  /\ \E e \in batch :
       /\ batch' = batch \ {e}
       /\ l_id' = e.id
       /\ l_out' = e.out
       /\ l_pc' = IF e.in THEN "in_find" ELSE "out_find"
  /\ UNCHANGED <<l_fd, l_reqs, l_data, connVars, sendVars, workVars, sockVars, lisVars>>

\* The EPOLLOUT half of an event is handled after the EPOLLIN half.
InReturns ==
  /\ l_pc' = IF l_out THEN "out_find" ELSE "disp"
  /\ l_id' = IF l_out THEN l_id ELSE SVR_INVALID_CONNECT_ID
  /\ l_fd' = NoFd
  /\ UNCHANGED l_out

OutReturns ==
  /\ l_pc' = "disp"
  /\ l_id' = SVR_INVALID_CONNECT_ID
  /\ l_fd' = NoFd
  /\ l_out' = FALSE

-----------------------------------------------------------------------------
(* handle_EPOLLIN_event *)

\* Mutant: the -1 of conn_get_sockfd is not looked at.
InFindUnchecked ==
  /\ l_pc = "in_find"
  /\ l_fd' = conn_get_sockfd(l_id)
  /\ l_pc' = "recv"
  /\ UNCHANGED <<l_id, l_out>>
  /\ UNCHANGED <<batch, l_reqs, l_data, connVars, sendVars, workVars, sockVars, lisVars>>

InFind ==
  /\ l_pc = "in_find"
  /\ IF InTable(l_id)
     THEN l_fd' = conn_get_sockfd(l_id) /\ l_pc' = "recv" /\ UNCHANGED <<l_id, l_out>>
     ELSE InReturns
  /\ UNCHANGED <<batch, l_reqs, l_data, connVars, sendVars, workVars, sockVars, lisVars>>

\* recv returns data: the packages parse_pack finds are handed on one by one.
InRecv ==
  /\ l_pc = "recv"
  /\ \E k \in Client : k = sock[l_fd] /\ \E m \in 1 .. Len(rx[k]) :
       /\ l_reqs' = SubSeq(rx[k], 1, m)
       /\ rx' = [rx EXCEPT ![k] = SubSeq(@, m + 1, Len(@))]
  /\ l_pc' = "push"
  /\ UNCHANGED <<peer, backlog, nsent, rcvd, unread, sock, epVars>>
  /\ UNCHANGED <<batch, l_id, l_out, l_fd, l_data, connVars, sendVars, workVars, lisVars>>

\* Mutant: a package the full pool does not take is skipped.
InPushSkips ==
  /\ l_pc = "push"
  /\ (PoolFull /\ UNCHANGED tasks) \/ workpool_push_work(l_id, Head(l_reqs))
  /\ l_reqs' = Tail(l_reqs)
  /\ l_pc' = IF Tail(l_reqs) = <<>> THEN "recv" ELSE "push"
  /\ UNCHANGED <<w_pc, w_task, batch, l_id, l_out, l_fd, l_data>>
  /\ UNCHANGED <<connVars, sendVars, sockVars, lisVars>>

\* Mutant: one recv for an event, not one after the other until EAGAIN.
InPushReturns ==
  /\ l_pc = "push"
  /\ workpool_push_work(l_id, Head(l_reqs))
  /\ l_reqs' = Tail(l_reqs)
  /\ IF Tail(l_reqs) = <<>> THEN InReturns ELSE UNCHANGED <<l_pc, l_id, l_out, l_fd>>
  /\ UNCHANGED <<w_pc, w_task, batch, l_data>>
  /\ UNCHANGED <<connVars, sendVars, sockVars, lisVars>>

\* workpool_push_work is retried until the pool takes the package.
InPush ==
  /\ l_pc = "push"
  /\ workpool_push_work(l_id, Head(l_reqs))
  /\ l_reqs' = Tail(l_reqs)
  /\ l_pc' = IF Tail(l_reqs) = <<>> THEN "recv" ELSE "push"
  /\ UNCHANGED <<w_pc, w_task, batch, l_id, l_out, l_fd, l_data>>
  /\ UNCHANGED <<connVars, sendVars, sockVars, lisVars>>

\* recv fails with EAGAIN.
InAgain ==
  /\ l_pc = "recv"
  /\ \E k \in Client : k = sock[l_fd] /\ rx[k] = <<>> /\ peer[k] = "up"
  /\ InReturns
  /\ UNCHANGED <<batch, l_reqs, l_data, connVars, sendVars, workVars, sockVars, lisVars>>

\* recv fails with ECONNRESET, which the socket reports once: only a message
\* is printed.
InError ==
  /\ l_pc = "recv"
  /\ \E k \in Client : k = sock[l_fd] /\ rx[k] = <<>> /\ peer[k] = "rst"
                       /\ peer' = [peer EXCEPT ![k] = "dead"]
  /\ InReturns
  /\ UNCHANGED <<backlog, nsent, rx, rcvd, unread, sock, epVars>>
  /\ UNCHANGED <<batch, l_reqs, l_data, connVars, sendVars, workVars, lisVars>>

\* recv returns 0: the connection is taken down in four steps.
InEof ==
  /\ l_pc = "recv"
  /\ \E k \in Client : k = sock[l_fd] /\ rx[k] = <<>> /\ peer[k] \in {"fin", "dead"}
  /\ l_pc' = "rm_queue"
  /\ UNCHANGED <<batch, l_id, l_out, l_fd, l_reqs, l_data>>
  /\ UNCHANGED <<connVars, sendVars, workVars, sockVars, lisVars>>

\* Mutant: the descriptor is closed and its table entry left behind.
InRmQueueOnly ==
  /\ l_pc = "rm_queue"
  /\ QSend_remove_all_by_connid(l_id)
  /\ l_pc' = "close"
  /\ UNCHANGED <<s_pc, s_connid, s_fd, batch, l_id, l_out, l_fd, l_reqs, l_data>>
  /\ UNCHANGED <<connVars, workVars, sockVars, lisVars>>

InRmQueue ==
  /\ l_pc = "rm_queue"
  /\ QSend_remove_all_by_connid(l_id)
  /\ l_pc' = "rm_conn"
  /\ UNCHANGED <<s_pc, s_connid, s_fd, batch, l_id, l_out, l_fd, l_reqs, l_data>>
  /\ UNCHANGED <<connVars, workVars, sockVars, lisVars>>

\* Mutant: the entry goes and the descriptor is not closed.
InRmConnOnly ==
  /\ l_pc = "rm_conn"
  /\ conn_remove(l_id)
  /\ InReturns
  /\ UNCHANGED <<batch, l_reqs, l_data, sendVars, workVars, sockVars, lisVars>>

InRmConn ==
  /\ l_pc = "rm_conn"
  /\ conn_remove(l_id)
  /\ l_pc' = "close"
  /\ UNCHANGED <<batch, l_id, l_out, l_fd, l_reqs, l_data>>
  /\ UNCHANGED <<sendVars, workVars, sockVars, lisVars>>

InClose ==
  /\ l_pc = "close"
  /\ close(l_fd)
  /\ InReturns
  /\ UNCHANGED <<batch, l_reqs, l_data, connVars, sendVars, workVars, lisVars>>

-----------------------------------------------------------------------------
(* handle_EPOLLOUT_event *)

OutFind ==
  /\ l_pc = "out_find"
  /\ IF InTable(l_id)
     THEN l_fd' = conn_get_sockfd(l_id) /\ l_pc' = "pop" /\ UNCHANGED <<l_id, l_out>>
     ELSE OutReturns
  /\ UNCHANGED <<batch, l_reqs, l_data, connVars, sendVars, workVars, sockVars, lisVars>>

OutPop ==
  /\ l_pc = "pop"
  /\ \E i \in DOMAIN m_list : QSend_pop_first(l_id, i) /\ l_data' = m_list[i].data
  /\ l_pc' = "send"
  /\ UNCHANGED <<s_pc, s_connid, s_fd, batch, l_id, l_out, l_fd, l_reqs>>
  /\ UNCHANGED <<connVars, workVars, sockVars, lisVars>>

OutPopFails ==
  /\ l_pc = "pop"
  /\ QSend_pop_first_fails(l_id)
  /\ l_pc' = "mod"
  /\ UNCHANGED <<s_pc, s_connid, s_fd, batch, l_id, l_out, l_fd, l_reqs, l_data>>
  /\ UNCHANGED <<connVars, workVars, sockVars, lisVars>>

\* The first m responses reach the socket buffers, which have room for them, of
\* client k; one that has closed does not get them.
Deliver(k, m) ==
  IF peer[k] = "up"
  THEN /\ unread[k] + m <= SNDBUF
       /\ unread' = [unread EXCEPT ![k] = @ + m]
       /\ rcvd' = [rcvd EXCEPT ![k] = @ \o SubSeq(l_data, 1, m)]
  ELSE UNCHANGED <<unread, rcvd>>

\* Mutant: ptr and buflen are not moved on.
OutSendAgain ==
  /\ l_pc = "send"
  /\ \E k \in Client : k = sock[l_fd] /\ peer[k] \in {"up", "fin"} /\
     \E m \in 1 .. Len(l_data) : Deliver(k, m)
  /\ UNCHANGED <<peer, backlog, nsent, rx, sock, epVars>>
  /\ UNCHANGED <<loopVars, connVars, sendVars, workVars, lisVars>>

\* send takes a part of the data.  (While the socket's buffer is full the loop
\* sleeps and tries again.)
OutSend ==
  /\ l_pc = "send"
  /\ \E k \in Client : k = sock[l_fd] /\ peer[k] \in {"up", "fin"} /\
     \E m \in 1 .. Len(l_data) :
       /\ Deliver(k, m)
       /\ l_data' = SubSeq(l_data, m + 1, Len(l_data))
       /\ l_pc' = IF m = Len(l_data) THEN "mod" ELSE "send"
  /\ UNCHANGED <<peer, backlog, nsent, rx, sock, epVars>>
  /\ UNCHANGED <<batch, l_id, l_out, l_fd, l_reqs, connVars, sendVars, workVars, lisVars>>

\* Mutant: any error is taken for a full buffer.
OutSendErrorRetries ==
  /\ l_pc = "send"
  /\ \E k \in Client : k = sock[l_fd] /\ peer[k] \in {"rst", "dead"}
                       /\ peer' = [peer EXCEPT ![k] = "dead"]
  /\ UNCHANGED <<backlog, nsent, rx, rcvd, unread, sock, epVars>>
  /\ UNCHANGED <<loopVars, connVars, sendVars, workVars, lisVars>>

\* send fails: the rest of the entry is dropped ("TODO: write it back").
OutSendError ==
  /\ l_pc = "send"
  /\ \E k \in Client : k = sock[l_fd] /\ peer[k] \in {"rst", "dead"}
                       /\ peer' = [peer EXCEPT ![k] = "dead"]
  /\ l_data' = <<>>
  /\ l_pc' = "mod"
  /\ UNCHANGED <<backlog, nsent, rx, rcvd, unread, sock, epVars>>
  /\ UNCHANGED <<batch, l_id, l_out, l_fd, l_reqs, connVars, sendVars, workVars, lisVars>>

\* The result of EPOLL_CTL_MOD is not looked at.
OutMod ==
  /\ l_pc = "mod"
  /\ IF l_fd \in ep_fds THEN epoll_ctl_mod(l_fd, l_id, FALSE) ELSE UNCHANGED sockVars
  /\ OutReturns
  /\ UNCHANGED <<batch, l_reqs, l_data, connVars, sendVars, workVars, lisVars>>

handle_EPOLLIN_event ==
  \/ InFind \/ InRecv \/ InPush \/ InAgain \/ InError
  \/ InEof \/ InRmQueue \/ InRmConn \/ InClose

handle_EPOLLOUT_event ==
  OutFind \/ OutPop \/ OutPopFails \/ OutSend \/ OutSendError \/ OutMod

Loop == EpollWait \/ Dispatch \/ handle_EPOLLIN_event \/ handle_EPOLLOUT_event

-----------------------------------------------------------------------------
(* send_func, the part of its loop that finds an entry in the queue *)

\* The end of the loop body: connid and socket are local to it.
SendAgain ==
  /\ s_pc' = "front"
  /\ s_connid' = SVR_INVALID_CONNECT_ID
  /\ s_fd' = NoFd

\* When the connection does not exist any more the loop starts over.
SendLookup ==
  /\ s_pc = "lookup"
  /\ IF InTable(s_connid)
     THEN s_fd' = conn_get_sockfd(s_connid) /\ s_pc' = "mod" /\ UNCHANGED s_connid
     ELSE SendAgain
  /\ UNCHANGED <<m_list, connVars, workVars, sockVars, lisVars, loopVars>>

\* Mutant: the interest does not include EPOLLOUT.
SendModNoOut ==
  /\ s_pc = "mod"
  /\ epoll_ctl_mod(s_fd, s_connid, FALSE)
  /\ SendAgain
  /\ UNCHANGED <<m_list, connVars, workVars, lisVars, loopVars>>

SendMod ==
  /\ s_pc = "mod"
  /\ epoll_ctl_mod(s_fd, s_connid, TRUE)
  /\ SendAgain
  /\ UNCHANGED <<m_list, connVars, workVars, lisVars, loopVars>>

SendModFails ==
  /\ s_pc = "mod"
  /\ s_fd \notin ep_fds
  /\ s_pc' = "rm_queue"
  /\ UNCHANGED <<m_list, s_connid, s_fd, connVars, workVars, sockVars, lisVars, loopVars>>

SendRmQueue ==
  /\ s_pc = "rm_queue"
  /\ QSend_remove_all_by_connid(s_connid)
  /\ s_pc' = "rm_conn"
  /\ UNCHANGED <<s_connid, s_fd, connVars, workVars, sockVars, lisVars, loopVars>>

\* Mutant: the send thread closes the descriptor as well.
SendRmConnCloses ==
  /\ s_pc = "rm_conn"
  /\ conn_remove(s_connid)
  /\ close(s_fd)
  /\ SendAgain
  /\ UNCHANGED <<m_list, workVars, lisVars, loopVars>>

SendRmConn ==
  /\ s_pc = "rm_conn"
  /\ conn_remove(s_connid)
  /\ SendAgain
  /\ UNCHANGED <<m_list, workVars, sockVars, lisVars, loopVars>>

QueueStep == (SendFront \/ send_wait) /\ UNCHANGED <<connVars, workVars, sockVars, lisVars, loopVars>>

send_func ==
  QueueStep \/ SendLookup \/ SendMod \/ SendModFails \/ SendRmQueue \/ SendRmConn

-----------------------------------------------------------------------------

Wakeup == SpuriousWakeup /\ UNCHANGED <<connVars, workVars, sockVars, lisVars, loopVars>>

PoolThread(w) == WorkerNext(w) /\ UNCHANGED <<connVars, sockVars, lisVars, loopVars>>

\* Nobody can connect to a socket that does not listen.
Clients ==
  /\ ClientNext
  /\ lis_pc \in {"listen", "ended"} => UNCHANGED backlog
  /\ UNCHANGED <<connVars, sendVars, workVars, lisVars, loopVars>>

Next ==
  \/ Listen
  \/ Loop
  \/ send_func
  \/ Wakeup
  \/ \E w \in Worker : PoolThread(w)
  \/ Clients

Spec == Init /\ [][Next]_vars

(***************************************************************************)
(* Threads that can run do run, and handlers return.  Clients need not do  *)
(* anything, and nobody can count on a spurious wakeup.                    *)
(***************************************************************************)
Fairness ==
  /\ WF_vars(Listen)
  /\ WF_vars(Loop)
  /\ WF_vars(send_func)
  /\ \A w \in Worker : WF_vars(PoolThread(w))

FairSpec == Spec /\ Fairness

-----------------------------------------------------------------------------
(* Properties *)

LisTypeOK ==
  /\ lis_pc \in {"listen", "accept", "ended"} \cup LisBusy
  /\ a_fd \in Fd \cup {NoFd}
  /\ lis_pc \in LisBusy => a_fd \in Fd
  /\ a_id \in CONNID

LoopTypeOK ==
  /\ batch \subseteq Event
  /\ l_pc \in {"disp", "in_find", "out_find"} \cup InPC \cup OutPC
  /\ l_id \in CONNID
  /\ l_out \in BOOLEAN
  /\ l_fd \in Fd \cup {NoFd}
  /\ l_pc \in InPC \cup OutPC => l_fd \in Fd
  /\ l_reqs \in Seq(Request)
  /\ l_pc = "push" => l_reqs # <<>>
  /\ l_data \in Seq(Request)

\* Every thread's locals and the shared state have the shape the declarations of
\* the code give them; a thread past its check of conn_get_sockfd's result holds
\* a descriptor, never the -1, and the loop parses only what it has received.
TypeOK ==
  /\ ConnTypeOK
  /\ SendTypeOK
  /\ EngineTypeOK
  /\ SockTypeOK
  /\ LisTypeOK
  /\ LoopTypeOK

\* No two connections in the table share a descriptor, and every descriptor in
\* it is open.  It is the order of the clean-up in handle_EPOLLIN_event (table
\* first, close last) that keeps accept from handing the number out again while
\* a table entry still names it.
TableMatchesSockets ==
  /\ \A id \in CONNID : InTable(id) => sock[conn_map[id]] = owner[id]
  /\ \A a, b \in CONNID : InTable(a) /\ conn_map[a] = conn_map[b] => a = b

\* The descriptor the event loop looked up still belongs to the connection it
\* serves at every recv, send, epoll_ctl and close that uses it, whatever the
\* other threads removed in the meantime.
LoopServesOwner ==
  l_pc \in InPC \cup OutPC => sock[l_fd] = owner[l_id]

\* A client only receives responses to its own requests: through the pool, the
\* queue and the merging of packages in QSend_push.
RightClient ==
  \A k \in Client : \A i \in DOMAIN rcvd[k] : rcvd[k][i].from = k

\* Everywhere a request, or the response to it, can be.
SocketPlaces(r)  == {<<"rx", i>> : i \in {i \in DOMAIN rx[r.from] : rx[r.from][i] = r}}
BufferPlaces(r)  == {<<"recv_buff", i>> : i \in {i \in DOMAIN l_reqs : l_reqs[i] = r}}
PoolPlaces(r)    == {<<"pool", i>> : i \in {i \in DOMAIN tasks : tasks[i].req = r}}
WorkPlaces(r)    == {<<"worker", w>> : w \in {w \in Worker : w_pc[w] = "run" /\ w_task[w].req = r}}
QueuePlaces(r)   ==
  UNION {{<<"queue", i, j>> : j \in {j \in DOMAIN m_list[i].data : m_list[i].data[j] = r}}
         : i \in DOMAIN m_list}
SendbufPlaces(r) == {<<"sendbuf", i>> : i \in {i \in DOMAIN l_data : l_data[i] = r}}
ClientPlaces(r)  ==
  UNION {{<<"client", k, i>> : i \in {i \in DOMAIN rcvd[k] : rcvd[k][i] = r}} : k \in Client}

Copies(r) ==
  SocketPlaces(r) \cup BufferPlaces(r) \cup PoolPlaces(r) \cup WorkPlaces(r)
  \cup QueuePlaces(r) \cup SendbufPlaces(r) \cup ClientPlaces(r)

\* A request is handled, and its response sent, at most once: no retry of a push
\* or a send and no clean-up duplicates it.
AtMostOnce == \A r \in Request : Cardinality(Copies(r)) <= 1

\* As long as the client is connected, and if every handler answers, nothing it
\* asked is lost between its socket and its socket.
NothingLost ==
  \A k \in Client : peer[k] = "up" =>
    \A n \in 1 .. nsent[k] : Copies([from |-> k, n |-> n]) # {}

\* The clean-up loses no descriptor: one that is registered is in the table, or
\* the loop is about to close it, whichever thread removed the connection.  Only
\* listen_thread gives up an open one, when EPOLL_CTL_ADD fails.  (That the table
\* gives its descriptors up is not said: that of a reset connection is still open,
\* registered and in the table if no later event brings the loop to recv.)
DescriptorAccounted ==
  \A fd \in Fd : sock[fd] # NoClient =>
    \/ \E id \in CONNID : conn_map[id] = fd
    \/ lis_pc = "insert" /\ a_fd = fd
    \/ l_pc = "close" /\ l_fd = fd
    \/ fd \notin ep_fds /\ AddMayFail

\* However QSend_push puts packages together, an entry fits in the buffer of
\* handle_EPOLLOUT_event, so QSend_pop_first never refuses one; it would stay at
\* the head of the queue for ever.
EntryFits == \A i \in DOMAIN m_list : m_list[i].size <= NET_SEND_BUFF_SIZE

\* The send thread goes to sleep only after it has seen an empty queue: an entry
\* never carries the identifier that stands for "no entry".
SleepOnlyWhenEmpty ==
  [][s_pc = "front" /\ s_pc' = "prewait" => m_list = <<>>]_vars

\* The loop tries again and again to send to a client that does not read.
Held == l_pc = "send" /\ \E k \in Client : k = sock[l_fd] /\ Full(k)

\* The loop comes back for further events: a full pool, a client that sends on
\* and failing calls hold it up but never for ever.  The exception is a client
\* that does not read its responses: it stops the service of everybody.
LoopGoesOn == []<>(l_pc = "disp") \/ <>[]Held

\* The stale EPOLL_CTL_MOD (see RegistrationNamesConnection) has put another
\* connection's identifier on the descriptor of client k.
Misnamed(k) == \E fd \in Registered(k) : owner[ep_id[fd]] # k

\* The end of a registered connection reaches the loop.  After a FIN the loop
\* releases the descriptor: with edge-triggered events, only because
\* handle_EPOLLIN_event reads until EAGAIN.  A reset it takes note of.  There are
\* two exceptions: a client that does not read keeps the loop for ever, and events
\* of a descriptor with a dead identifier are dropped, for ever too unless a later
\* EPOLL_CTL_MOD names the connection again.
EndIsNoticed ==
  \A k \in Client :
    \/ /\ peer[k] = "fin" /\ Registered(k) # {} ~> Registered(k) = {}
       /\ peer[k] = "rst" /\ Registered(k) # {} ~> peer[k] = "dead"
    \/ <>[]Held
    \/ <>[]Misnamed(k)

\* An entry at the front of the queue for a live connection is taken out, if the
\* send thread is not asleep: it keeps asking for EPOLLOUT, under the connection's
\* own identifier, until the loop has taken the entry.  There are two exceptions:
\* the client does not read what it got before, or another client, which does not
\* read either, keeps the loop for ever.
FrontIsSent ==
  \A c \in CONNID :
    \/ /\ m_list # <<>> /\ m_list[1].conn_id = c /\ InTable(c)
       /\ s_pc \notin {"prewait", "waiting"}
       ~> PositionsOf(c) = {} \/ ~ InTable(c) \/ Full(owner[c])
    \/ <>[]Held

(***************************************************************************)
(* The server implements the service of module Service.                    *)
(***************************************************************************)
Promise == INSTANCE Service WITH
  asked   <- {r \in Request : r.n <= nsent[r.from]},
  answers <- rcvd

\* What clients see is the service: every response answers a request the client
\* itself has made, and none is answered twice.
ImplementsService == Promise!Spec

-----------------------------------------------------------------------------
(* What comments and tests of the repository say, and the code does not do *)

\* engine.c:47, "notify the send thread, there is work": when a response waits
\* and the send thread sleeps, somebody is about to wake it.
NoLostWakeup ==
  s_pc = "waiting" /\ m_list # <<>> => \E w \in Worker : w_pc[w] = "signal"

\* config.h:14, "upper limit of the total length of header and user data": no
\* package in the queue is longer.
PackWithinLimit ==
  \A i \in DOMAIN m_list :
    Len(m_list[i].data) = 1 => m_list[i].size <= NET_PACK_SIZE_LIMIT

\* BUG.txt:5, "when a connection is found to be gone, all its response packages
\* are to be cleared": an entry whose connection left the table leaves the queue.
StaleEntriesCleared ==
  \A c \in CONNID :
    PositionsOf(c) # {} /\ ~ InTable(c) ~> PositionsOf(c) = {}

\* sendhelper.cpp:95, "it may have been cleaned up already, check once more": the
\* epoll_ctl of the send thread fails for a connection that is gone, so epoll's
\* record of a descriptor always names the connection it belongs to.
RegistrationNamesConnection ==
  \A fd \in ep_fds : owner[ep_id[fd]] = sock[fd]
=============================================================================
