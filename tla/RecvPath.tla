------------------------------ MODULE RecvPath ------------------------------
(***************************************************************************)
(* How handle_EPOLLIN_event (src/src/ep_svr.c) cuts packages out of the    *)
(* byte streams of its clients: its fixed receive buffer, parse_pack       *)
(* (src/src/core/pack.c), and the incomplete packages that recvhelper.cpp  *)
(* keeps between two events.  Only the event loop touches this state; it   *)
(* is interleaved with the arrival of bytes.                               *)
(*                                                                         *)
(* A byte is known by the connection and the offset at which it was sent.  *)
(* What parse_pack reads in the length field of a header that starts at a  *)
(* given offset is part of the stream: len_at.                             *)
(***************************************************************************)
EXTENDS Integers, Sequences

CONSTANTS
  Conn,                   \* the connections
  HEAD_SIZE,              \* sizeof(net_pkg_t)
  NET_RECV_BUFF_SIZE,     \* size of recv_buff
  NET_REMAIN_CACHE_SIZE,  \* size of cache_buf, and the limit for a package
  MaxBytes,               \* bound: bytes of the longest stream
  Sends,                  \* bound: bytes each client sends
  Streams,                \* the contents the streams may have
  NDEBUG                  \* are assertions compiled out?

\* The longest package the protocol allows fits in cache_buf, and there is at
\* least as much room in recv_buff besides it.
ASSUME RecvAssumption ==
  /\ HEAD_SIZE \in Nat \ {0}
  /\ NET_REMAIN_CACHE_SIZE \in Nat /\ HEAD_SIZE <= NET_REMAIN_CACHE_SIZE
  /\ NET_RECV_BUFF_SIZE \in Nat /\ 2 * NET_REMAIN_CACHE_SIZE <= NET_RECV_BUFF_SIZE
  /\ MaxBytes \in Nat /\ Sends \in [Conn -> 0 .. MaxBytes]
  /\ Streams \subseteq [Conn -> [0 .. MaxBytes -> 0 .. (NET_REMAIN_CACHE_SIZE - HEAD_SIZE)]]
  /\ NDEBUG \in BOOLEAN

\* Mutant: a recv may fill the whole buffer.
NoRoomForCache == NET_RECV_BUFF_SIZE

NET_RECV_SIZE_LIMIT == NET_RECV_BUFF_SIZE - NET_REMAIN_CACHE_SIZE

VARIABLES
  len_at,     \* the streams: the length field of a header at an offset
  sent,       \* bytes that have arrived at the server's socket
  peer,       \* the client's end: connected, closed, reset, reset and reported
  taken,      \* bytes recv has returned
  ready,      \* connections with an event that epoll has not reported
  open,       \* connections the server has not closed
  m_datamap,  \* recv_helper_t: the incomplete package kept for a connection
  pc, cur,    \* the handler: program counter and connection
  buf,        \* the used part of recv_buff
  parsed,     \* history: bytes handed on in packages
  failed      \* has an assertion failed?

kernelVars == <<len_at, sent, peer>>
vars == <<kernelVars, taken, ready, open, m_datamap, pc, cur, buf, parsed, failed>>

Byte == [conn : Conn, off : Nat]

\* The bytes of connection c from offset a up to, not including, offset b.
Seg(c, a, b) == [i \in 1 .. (b - a) |-> [conn |-> c, off |-> a + i - 1]]

\* An incomplete package is never empty, so <<>> stands for no entry.
Init ==
  /\ len_at \in Streams
  /\ sent = [c \in Conn |-> 0]
  /\ peer = [c \in Conn |-> "up"]
  /\ taken = [c \in Conn |-> 0]
  /\ ready = {}
  /\ open = Conn
  /\ m_datamap = [c \in Conn |-> <<>>]
  /\ pc = "wait"
  /\ cur \in Conn
  /\ buf = <<>>
  /\ parsed = [c \in Conn |-> 0]
  /\ failed = FALSE

-----------------------------------------------------------------------------
(* The other end, and epoll's edge-triggered report of what it does. *)

Arrive(c, n) ==
  /\ peer[c] = "up"
  /\ sent[c] + n <= Sends[c]
  /\ sent' = [sent EXCEPT ![c] = @ + n]
  /\ ready' = ready \cup {c}
  /\ UNCHANGED <<len_at, peer, taken, open, m_datamap, pc, cur, buf, parsed, failed>>

Finish(c) ==
  /\ peer[c] = "up"
  /\ peer' = [peer EXCEPT ![c] = "fin"]
  /\ ready' = ready \cup {c}
  /\ UNCHANGED <<len_at, sent, taken, open, m_datamap, pc, cur, buf, parsed, failed>>

\* A reset after the FIN is one more event; recv goes on to return what came
\* before the FIN, and then 0.
Reset(c) ==
  /\ peer[c] \in {"up", "fin"}
  /\ c \in open
  /\ peer' = [peer EXCEPT ![c] = IF @ = "up" THEN "rst" ELSE @]
  /\ ready' = ready \cup {c}
  /\ UNCHANGED <<len_at, sent, taken, open, m_datamap, pc, cur, buf, parsed, failed>>

-----------------------------------------------------------------------------
(* The outcomes of a recv with room for lim bytes. *)

Available == sent[cur] - taken[cur]

Received(lim) == IF Available < lim THEN Available ELSE lim

recv_data(lim)  == lim > 0 /\ Available > 0
recv_again(lim) == lim > 0 /\ Available = 0 /\ peer[cur] = "up"
recv_error(lim) == lim > 0 /\ Available = 0 /\ peer[cur] = "rst"
recv_zero(lim)  == lim = 0 \/ (Available = 0 /\ peer[cur] \in {"fin", "dead"})

\* The bytes it returns.
Chunk(lim) == Seg(cur, taken[cur], taken[cur] + Received(lim))

TakeBytes(lim) ==
  /\ taken' = [taken EXCEPT ![cur] = @ + Received(lim)]
  /\ UNCHANGED kernelVars

-----------------------------------------------------------------------------
(* recvhelper.cpp: the map of incomplete packages, after the call *)

\* MRecv_find copies the package out; without an entry there is nothing to copy.
MRecv_find(c) == m_datamap[c]

MRecv_insert(c, data) == [m_datamap EXCEPT ![c] = data]

\* Mutant: the incomplete package is not taken out of the map.
RemoveNothing(c) == m_datamap

MRecv_remove(c) == [m_datamap EXCEPT ![c] = <<>>]

-----------------------------------------------------------------------------
(* handle_EPOLLIN_event *)

Event(c) ==
  /\ pc = "wait"
  /\ c \in ready
  /\ ready' = ready \ {c}
  /\ cur' = c
  /\ pc' = "first"
  /\ UNCHANGED <<kernelVars, taken, open, m_datamap, buf, parsed, failed>>

(***************************************************************************)
(* The first recv: MRecv_find copies an incomplete package in front of     *)
(* what was received (and asserts that cache_buf holds it), MRecv_remove   *)
(* takes it out of the map.                                                *)
(***************************************************************************)
FirstRecv ==
  /\ pc = "first"
  /\ recv_data(NET_RECV_SIZE_LIMIT)
  /\ TakeBytes(NET_RECV_SIZE_LIMIT)
  /\ failed' = (failed \/ Len(MRecv_find(cur)) > NET_REMAIN_CACHE_SIZE)
  /\ buf' = MRecv_find(cur) \o Chunk(NET_RECV_SIZE_LIMIT)
  /\ m_datamap' = MRecv_remove(cur)
  /\ pc' = "parse"
  /\ UNCHANGED <<ready, open, cur, parsed>>

\* Nothing has been received and nothing is kept: what was in the map stays.
FirstAgain ==
  /\ pc = "first"
  /\ recv_again(NET_RECV_SIZE_LIMIT)
  /\ pc' = "wait"
  /\ UNCHANGED <<kernelVars, taken, ready, open, m_datamap, cur, buf, parsed, failed>>

\* The length of the package the header at the start of buf announces.
PackLen == HEAD_SIZE + len_at[buf[1].conn][buf[1].off]

\* Mutant: a package that ends with the last byte received is not complete.
CompleteStrict == Len(buf) >= HEAD_SIZE /\ PackLen < Len(buf)

\* parse_pack finds a complete package.
Complete == Len(buf) >= HEAD_SIZE /\ PackLen <= Len(buf)

\* Mutant: only the data is cut off, not the header.
ParseDataOnly ==
  /\ pc = "parse"
  /\ Complete
  /\ buf' = SubSeq(buf, PackLen - HEAD_SIZE + 1, Len(buf))
  /\ parsed' = [parsed EXCEPT ![cur] = @ + PackLen]
  /\ UNCHANGED <<kernelVars, taken, ready, open, m_datamap, pc, cur, failed>>

\* It goes to the pool, which takes it in the end; the rest moves to the front.
Parse ==
  /\ pc = "parse"
  /\ Complete
  /\ buf' = SubSeq(buf, PackLen + 1, Len(buf))
  /\ parsed' = [parsed EXCEPT ![cur] = @ + PackLen]
  /\ UNCHANGED <<kernelVars, taken, ready, open, m_datamap, pc, cur, failed>>

\* Mutant: the handler returns without another recv.
IncompleteReturns ==
  /\ pc = "parse"
  /\ ~ Complete
  /\ m_datamap' = MRecv_insert(cur, buf)
  /\ buf' = <<>>
  /\ pc' = "wait"
  /\ UNCHANGED <<kernelVars, taken, ready, open, cur, parsed, failed>>

Incomplete ==
  /\ pc = "parse"
  /\ ~ Complete
  /\ pc' = "more"
  /\ UNCHANGED <<kernelVars, taken, ready, open, m_datamap, cur, buf, parsed, failed>>

\* Mutant: room for one incomplete package, less what is there.
RoomTooSmall == NET_REMAIN_CACHE_SIZE - 1 - Len(buf)

\* Room for the following recvs: behind what has not been parsed.
Room == NET_RECV_SIZE_LIMIT - Len(buf)

MoreRecv ==
  /\ pc = "more"
  /\ recv_data(Room)
  /\ TakeBytes(Room)
  /\ buf' = buf \o Chunk(Room)
  /\ pc' = "parse"
  /\ UNCHANGED <<ready, open, m_datamap, cur, parsed, failed>>

(***************************************************************************)
(* EAGAIN: MRecv_insert keeps the rest for the next event.  It asserts     *)
(* that nothing is kept yet; and the call itself is the argument of an     *)
(* assert, so that it is gone from a build without assertions.             *)
(***************************************************************************)
MoreAgain ==
  /\ pc = "more"
  /\ recv_again(Room)
  /\ m_datamap' = IF buf # <<>> /\ ~ NDEBUG THEN MRecv_insert(cur, buf) ELSE m_datamap
  /\ failed' = (failed \/ (buf # <<>> /\ m_datamap[cur] # <<>>))
  /\ buf' = <<>>
  /\ pc' = "wait"
  /\ UNCHANGED <<kernelVars, taken, ready, open, cur, parsed>>

\* Any other error, which the socket reports once: a message is printed.  What
\* was not parsed is dropped, the connection stays open.
RecvError ==
  /\ \/ pc = "first" /\ recv_error(NET_RECV_SIZE_LIMIT)
     \/ pc = "more" /\ recv_error(Room)
  /\ peer' = [peer EXCEPT ![cur] = "dead"]
  /\ buf' = <<>>
  /\ pc' = "wait"
  /\ UNCHANGED <<len_at, sent, taken, ready, open, m_datamap, cur, parsed, failed>>

\* recv returned 0: the connection is closed and what was kept of it is removed.
EndOfStream ==
  /\ \/ pc = "first" /\ recv_zero(NET_RECV_SIZE_LIMIT)
     \/ pc = "more" /\ recv_zero(Room)
  /\ open' = open \ {cur}
  /\ ready' = ready \ {cur}
  /\ m_datamap' = MRecv_remove(cur)
  /\ buf' = <<>>
  /\ pc' = "wait"
  /\ UNCHANGED <<kernelVars, taken, cur, parsed, failed>>

handle_EPOLLIN_event ==
  \/ \E c \in Conn : Event(c)
  \/ FirstRecv \/ FirstAgain
  \/ Parse \/ Incomplete
  \/ MoreRecv \/ MoreAgain
  \/ RecvError \/ EndOfStream

Next ==
  \/ \E c \in Conn, n \in 1 .. MaxBytes : Arrive(c, n)
  \/ \E c \in Conn : Finish(c) \/ Reset(c)
  \/ handle_EPOLLIN_event

Spec == Init /\ [][Next]_vars

\* The loop runs when it can; clients need not send anything.
FairSpec == Spec /\ WF_vars(handle_EPOLLIN_event)

-----------------------------------------------------------------------------
(* Properties *)

\* The bytes of connection c that the server holds.
Held(c) == IF cur = c /\ pc \in {"parse", "more"} THEN buf ELSE m_datamap[c]

\* The locals and the map have the shape their declarations give them, and no
\* bytes are received that were not sent.
TypeOK ==
  /\ len_at \in Streams
  /\ sent \in [Conn -> 0 .. MaxBytes]
  /\ peer \in [Conn -> {"up", "fin", "rst", "dead"}]
  /\ taken \in [Conn -> 0 .. MaxBytes]
  /\ \A c \in Conn : taken[c] <= sent[c]
  /\ ready \subseteq open
  /\ open \subseteq Conn
  /\ m_datamap \in [Conn -> Seq(Byte)]
  /\ pc \in {"wait", "first", "parse", "more"}
  /\ cur \in Conn
  /\ buf \in Seq(Byte)
  /\ parsed \in [Conn -> 0 .. MaxBytes]
  /\ failed \in BOOLEAN

\* No byte is lost, repeated or moved on a working connection, however the stream is cut into recvs and
\* events: what the server holds of a stream, in recv_buff or in the map, is
\* exactly what follows the last package handed on, up to the last byte received.
StreamIntact ==
  \A c \in open : peer[c] # "dead" => Held(c) = Seg(c, parsed[c], taken[c])

\* A kept package and a full recv never overflow recv_buff.
RecvBuffBound == Len(buf) <= NET_RECV_BUFF_SIZE

\* The branch for a closed connection is taken only for a client that is gone,
\* and after everything it sent: recv is never called with no room.
NoFalseDisconnect ==
  \A c \in Conn \ open : peer[c] \in {"fin", "dead"} /\ taken[c] = sent[c]

\* No assertion about the map of incomplete packages fails.
AssertsHold == ~ failed

\* A package that has arrived completely is handed on, also when the client closes
\* or resets: with edge-triggered events there may be no other event to do it.
CompletePackageParsed ==
  \A c \in Conn : \A b \in 0 .. MaxBytes :
    (parsed[c] = b /\ b + HEAD_SIZE + len_at[c][b] <= sent[c]) ~> (parsed[c] > b)

\* The same for the end of the stream: it is noticed, and the connection closed,
\* also when a reset follows.
EndNoticed == \A c \in Conn : peer[c] = "fin" ~> c \notin open
=============================================================================
