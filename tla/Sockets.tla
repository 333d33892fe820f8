------------------------------- MODULE Sockets -------------------------------
(***************************************************************************)
(* The operating system as src/src/ep_svr.c and sendhelper.cpp use it: TCP *)
(* sockets, the descriptor table and one edge-triggered epoll instance.    *)
(* None of this is code of the repository; it is modelled from the calls   *)
(* the code makes and the results it distinguishes.                        *)
(*                                                                         *)
(* Requests travel as whole packages.  (How the event loop cuts packages   *)
(* out of the byte stream is the subject of module RecvPath.)              *)
(***************************************************************************)
EXTENDS ConnTable, Sequences, FiniteSets

CONSTANTS
  MaxReq,    \* bound: requests a client sends on its connection
  CanReset,  \* may connections end with a reset, not only with a FIN?
  SNDBUF     \* responses the socket buffers hold while the client does not read

ASSUME SocketsAssumption ==
  /\ MaxReq \in Nat
  /\ CanReset \in BOOLEAN
  /\ SNDBUF \in Nat \ {0}

Request == [from : Client, n : 1 .. MaxReq]

(***************************************************************************)
(* A client's end of the connection: not connected yet, connected, closed  *)
(* in order, reset, or dead: reset after its end was already known to the  *)
(* server, by a FIN or by the error that the socket reports once.          *)
(***************************************************************************)
PeerState == {"idle", "up", "fin", "rst", "dead"}

VARIABLES
  peer,      \* state of every client's end
  backlog,   \* established connections waiting for accept
  nsent,     \* number of requests the client has sent
  rx,        \* requests in the server's socket receive buffer
  rcvd,      \* responses that were sent to the client, in order
  unread,    \* number of them it has not read
  sock,      \* descriptor table: the connection a descriptor refers to
  ep_fds,    \* descriptors registered with epoll
  ep_id,     \* data.u64 of the registration
  ep_out,    \* registered descriptors whose interest includes EPOLLOUT
  ready      \* epoll's ready list

peerVars == <<peer, backlog, nsent, rx, rcvd, unread>>
epVars   == <<ep_fds, ep_id, ep_out, ready>>
sockVars == <<peerVars, sock, epVars>>

SockInit ==
  /\ peer    = [k \in Client |-> "idle"]
  /\ backlog = <<>>
  /\ nsent   = [k \in Client |-> 0]
  /\ rx      = [k \in Client |-> <<>>]
  /\ rcvd    = [k \in Client |-> <<>>]
  /\ unread  = [k \in Client |-> 0]
  /\ sock    = [fd \in Fd |-> NoClient]
  /\ ep_fds  = {}
  /\ ep_id   = [fd \in Fd |-> SVR_INVALID_CONNECT_ID]
  /\ ep_out  = {}
  /\ ready   = {}

\* The registered descriptors of client k: they become ready when something
\* happens on the connection.
Registered(k) == {fd \in ep_fds : sock[fd] = k}

\* A recv would not block.
Readable(fd) ==
  /\ sock[fd] # NoClient
  /\ rx[sock[fd]] # <<>> \/ peer[sock[fd]] # "up"

\* Nobody reads what fills the socket buffers.  (A client that has closed takes
\* everything.)
Full(k) == peer[k] = "up" /\ unread[k] >= SNDBUF

\* A send would not block.
Writable(fd) == sock[fd] # NoClient /\ ~ Full(sock[fd])

-----------------------------------------------------------------------------
(* The clients. *)

ClientConnect(k) ==
  /\ peer[k] = "idle"
  /\ peer' = [peer EXCEPT ![k] = "up"]
  /\ backlog' = Append(backlog, k)
  /\ UNCHANGED <<nsent, rx, rcvd, unread, sock, epVars>>

ClientSend(k) ==
  /\ peer[k] = "up"
  /\ nsent[k] < MaxReq
  /\ nsent' = [nsent EXCEPT ![k] = @ + 1]
  /\ rx' = [rx EXCEPT ![k] = Append(@, [from |-> k, n |-> nsent[k] + 1])]
  /\ ready' = ready \cup Registered(k)
  /\ UNCHANGED <<peer, backlog, rcvd, unread, sock, ep_fds, ep_id, ep_out>>

\* Reading makes room, which epoll reports for EPOLLOUT.  Only a read from full
\* buffers makes a difference to the server.
ClientRead(k) ==
  /\ Full(k)
  /\ unread' = [unread EXCEPT ![k] = @ - 1]
  /\ ready' = ready \cup (Registered(k) \cap ep_out)
  /\ UNCHANGED <<peer, backlog, nsent, rx, rcvd, sock, ep_fds, ep_id, ep_out>>

ClientClose(k) ==
  /\ peer[k] = "up"
  /\ peer' = [peer EXCEPT ![k] = "fin"]
  /\ ready' = ready \cup Registered(k)
  /\ UNCHANGED <<backlog, nsent, rx, rcvd, unread, sock, ep_fds, ep_id, ep_out>>

\* A reset, also one that answers data sent after the FIN: then recv goes on to
\* return 0 and only send fails.
ClientReset(k) ==
  /\ CanReset
  /\ peer[k] \in {"up", "fin"}
  /\ peer' = [peer EXCEPT ![k] = IF @ = "up" THEN "rst" ELSE "dead"]
  /\ ready' = ready \cup Registered(k)
  /\ UNCHANGED <<backlog, nsent, rx, rcvd, unread, sock, ep_fds, ep_id, ep_out>>

ClientNext ==
  \E k \in Client :
    \/ ClientConnect(k) \/ ClientSend(k) \/ ClientRead(k)
    \/ ClientClose(k) \/ ClientReset(k)

-----------------------------------------------------------------------------
(* The system calls. *)

FreeFds == {fd \in Fd : sock[fd] = NoClient}

\* accept returns the lowest descriptor that is not in use.
accept(fd) ==
  /\ backlog # <<>>
  /\ fd \in FreeFds /\ \A g \in FreeFds : fd <= g
  /\ sock' = [sock EXCEPT ![fd] = Head(backlog)]
  /\ backlog' = Tail(backlog)
  /\ UNCHANGED <<peer, nsent, rx, rcvd, unread, epVars>>

\* A fresh socket is writable, so it is ready at once.
epoll_ctl_add(fd, id) ==
  /\ ep_fds' = ep_fds \cup {fd}
  /\ ep_id'  = [ep_id EXCEPT ![fd] = id]
  /\ ep_out' = ep_out \cup {fd}
  /\ ready'  = ready \cup {fd}
  /\ UNCHANGED <<peerVars, sock>>

\* EPOLL_CTL_MOD replaces interest and data and polls the descriptor again; it
\* fails (ENOENT, EBADF) when the descriptor is not registered.
epoll_ctl_mod(fd, id, out) ==
  /\ fd \in ep_fds
  /\ ep_id'  = [ep_id EXCEPT ![fd] = id]
  /\ ep_out' = IF out THEN ep_out \cup {fd} ELSE ep_out \ {fd}
  /\ ready'  = IF (out /\ Writable(fd)) \/ Readable(fd) THEN ready \cup {fd} ELSE ready
  /\ UNCHANGED <<peerVars, sock, ep_fds>>

\* Closing the descriptor also takes it out of the epoll set.
close(fd) ==
  /\ sock'   = [sock EXCEPT ![fd] = NoClient]
  /\ ep_fds' = ep_fds \ {fd}
  /\ ep_id'  = [ep_id EXCEPT ![fd] = SVR_INVALID_CONNECT_ID]
  /\ ep_out' = ep_out \ {fd}
  /\ ready'  = ready \ {fd}
  /\ UNCHANGED peerVars

SockTypeOK ==
  /\ peer \in [Client -> PeerState]
  /\ backlog \in Seq(Client)
  /\ nsent \in [Client -> 0 .. MaxReq]
  /\ rx \in [Client -> Seq(Request)]
  /\ rcvd \in [Client -> Seq(Request)]
  /\ unread \in [Client -> 0 .. SNDBUF]
  /\ sock \in [Fd -> Client \cup {NoClient}]
  /\ ep_fds \subseteq Fd
  /\ ep_id \in [Fd -> CONNID]
  /\ ep_out \subseteq ep_fds
  /\ ready \subseteq ep_fds
=============================================================================
