--------------------------- MODULE RecvPathProofs ---------------------------
(***************************************************************************)
(* Theorems about RecvPath, for buffers and packages of any size and any   *)
(* number of connections, in a build with assertions.                      *)
(***************************************************************************)
EXTENDS RecvPath, SequenceTheorems, TLAPS

\* recv_buff holds something only while a connection that still works is handled,
\* and then nothing is kept for it in the map.
BufferInUse ==
  /\ pc # "wait" => cur \in open
  /\ pc \in {"parse", "more"} => peer[cur] # "dead" /\ m_datamap[cur] = <<>>
  /\ pc \in {"wait", "first"} => buf = <<>>

\* What is kept, and what is left after parsing, is shorter than the longest package.
RestIsShort ==
  /\ \A c \in Conn : Len(m_datamap[c]) < NET_REMAIN_CACHE_SIZE
  /\ pc = "more" => Len(buf) < NET_REMAIN_CACHE_SIZE
  /\ Len(buf) <= NET_RECV_BUFF_SIZE

\* Nothing is parsed that was not received, and an error is reported last.
InOrder ==
  /\ \A c \in Conn : parsed[c] <= taken[c]
  /\ \A c \in Conn : peer[c] = "dead" => taken[c] = sent[c]

RecvInv ==
  /\ TypeOK
  /\ BufferInUse
  /\ RestIsShort
  /\ InOrder
  /\ NoFalseDisconnect
  /\ StreamIntact
  /\ AssertsHold

-----------------------------------------------------------------------------
(* Segments of a stream *)

\* A segment is a sequence of bytes, as long as it says, that starts with its
\* first byte.
LEMMA SegFacts ==
  ASSUME NEW c \in Conn, NEW a \in Nat, NEW b \in Nat, a <= b
  PROVE  /\ Seg(c, a, b) \in Seq(Byte)
         /\ Len(Seg(c, a, b)) = b - a
         /\ \A i \in 1 .. (b - a) : Seg(c, a, b)[i] = [conn |-> c, off |-> a + i - 1]
<1>1. b - a \in Nat
  OBVIOUS
<1>2. \A i \in 1 .. (b - a) : [conn |-> c, off |-> a + i - 1] \in Byte
  BY DEF Byte
<1> QED
  BY <1>1, <1>2 DEF Seg

\* An empty segment.
LEMMA SegEmpty ==
  ASSUME NEW c \in Conn, NEW a \in Nat
  PROVE  Seg(c, a, a) = <<>>
BY SegFacts DEF Seg

\* A received chunk continues the segment before it.
LEMMA SegConcat ==
  ASSUME NEW c \in Conn, NEW a \in Nat, NEW b \in Nat, NEW d \in Nat, a <= b, b <= d
  PROVE  Seg(c, a, b) \o Seg(c, b, d) = Seg(c, a, d)
<1> DEFINE s == Seg(c, a, b)
           t == Seg(c, b, d)
           u == Seg(c, a, d)
<1>1. /\ s \in Seq(Byte) /\ Len(s) = b - a
      /\ \A i \in 1 .. (b - a) : s[i] = [conn |-> c, off |-> a + i - 1]
  BY SegFacts
<1>2. /\ t \in Seq(Byte) /\ Len(t) = d - b
      /\ \A i \in 1 .. (d - b) : t[i] = [conn |-> c, off |-> b + i - 1]
  BY SegFacts
<1>3. /\ u \in Seq(Byte) /\ Len(u) = d - a
      /\ \A i \in 1 .. (d - a) : u[i] = [conn |-> c, off |-> a + i - 1]
  BY SegFacts
<1> HIDE DEF s, t, u
<1>4. /\ s \o t \in Seq(Byte)
      /\ Len(s \o t) = Len(s) + Len(t)
      /\ \A i \in 1 .. Len(s) + Len(t) :
           (s \o t)[i] = IF i <= Len(s) THEN s[i] ELSE t[i - Len(s)]
  BY <1>1, <1>2, ConcatProperties
<1> DEFINE v == s \o t
<1>5. v \in Seq(Byte) /\ Len(v) = d - a
  BY <1>1, <1>2, <1>4
<1>6. \A i \in 1 .. (d - a) : v[i] = IF i <= b - a THEN s[i] ELSE t[i - (b - a)]
  BY <1>1, <1>2, <1>4
<1> HIDE DEF v
<1>7. ASSUME NEW i \in 1 .. (d - a) PROVE v[i] = u[i]
  <2>1. CASE i <= b - a
    <3>1. i \in 1 .. (b - a)
      BY <2>1
    <3>2. v[i] = s[i]
      BY <1>6, <2>1
    <3> QED
      BY <1>1, <1>3, <3>1, <3>2
  <2>2. CASE i > b - a
    <3>1. i - (b - a) \in 1 .. (d - b) /\ b + (i - (b - a)) - 1 = a + i - 1
      BY <2>2
    <3>2. v[i] = t[i - (b - a)]
      BY <1>6, <2>2
    <3> QED
      BY <1>2, <1>3, <3>1, <3>2
  <2> QED
    BY <2>1, <2>2
<1>8. v = u
  BY <1>3, <1>5, <1>7, SeqEqual
<1> QED
  BY <1>8 DEF v, s, t, u

\* What is left of a segment when n bytes are cut off.
LEMMA SegCut ==
  ASSUME NEW c \in Conn, NEW a \in Nat, NEW b \in Nat, a <= b, NEW n \in Nat, n <= b - a
  PROVE  SubSeq(Seg(c, a, b), n + 1, Len(Seg(c, a, b))) = Seg(c, a + n, b)
<1> DEFINE s == Seg(c, a, b)
           u == Seg(c, a + n, b)
           r == SubSeq(s, n + 1, Len(s))
<1>1. /\ s \in Seq(Byte) /\ Len(s) = b - a
      /\ \A i \in 1 .. (b - a) : s[i] = [conn |-> c, off |-> a + i - 1]
  BY SegFacts
<1>2. /\ u \in Seq(Byte) /\ Len(u) = b - (a + n)
      /\ \A i \in 1 .. (b - (a + n)) : u[i] = [conn |-> c, off |-> (a + n) + i - 1]
  <2>1. a + n \in Nat /\ a + n <= b
    OBVIOUS
  <2> QED
    BY <2>1, SegFacts
<1> HIDE DEF s, u
<1>3. r \in Seq(Byte) /\ Len(r) = b - (a + n)
  BY <1>1
<1>4. ASSUME NEW i \in 1 .. (b - (a + n)) PROVE r[i] = u[i]
  <2>1. r[i] = s[i + n]
    BY <1>1
  <2>2. i + n \in 1 .. (b - a) /\ a + (i + n) - 1 = (a + n) + i - 1
    OBVIOUS
  <2> QED
    BY <1>1, <1>2, <2>1, <2>2
<1> HIDE DEF r
<1>5. r = u
  BY <1>2, <1>3, <1>4
<1> QED
  BY <1>5 DEF r, s, u

-----------------------------------------------------------------------------
(* The invariant *)

\* The sizes of config.h, and what the handler relies on between them.
LEMMA Sizes ==
  /\ HEAD_SIZE \in Nat /\ HEAD_SIZE > 0 /\ HEAD_SIZE <= NET_REMAIN_CACHE_SIZE
  /\ NET_REMAIN_CACHE_SIZE \in Nat /\ NET_RECV_BUFF_SIZE \in Nat /\ MaxBytes \in Nat
  /\ NET_RECV_SIZE_LIMIT \in Nat
  /\ NET_REMAIN_CACHE_SIZE <= NET_RECV_SIZE_LIMIT
  /\ NET_REMAIN_CACHE_SIZE + NET_RECV_SIZE_LIMIT = NET_RECV_BUFF_SIZE
BY RecvAssumption DEF NET_RECV_SIZE_LIMIT

\* The declared type of the streams bounds every package.
LEMMA StreamTypes ==
  ASSUME TypeOK, NEW c \in Conn, NEW o \in 0 .. MaxBytes
  PROVE  len_at[c][o] \in 0 .. (NET_REMAIN_CACHE_SIZE - HEAD_SIZE)
<1>1. len_at \in [Conn -> [0 .. MaxBytes -> 0 .. (NET_REMAIN_CACHE_SIZE - HEAD_SIZE)]]
  BY RecvAssumption DEF TypeOK
<1>2. len_at[c] \in [0 .. MaxBytes -> 0 .. (NET_REMAIN_CACHE_SIZE - HEAD_SIZE)]
  BY <1>1
<1> QED
  BY <1>2

\* While packages are parsed, recv_buff holds the bytes between the last package and
\* the last byte received; the header there is the stream's.
LEMMA BufferIsSegment ==
  ASSUME RecvInv, pc \in {"parse", "more"}
  PROVE  /\ parsed[cur] \in Nat /\ taken[cur] \in Nat /\ parsed[cur] <= taken[cur]
         /\ taken[cur] <= MaxBytes /\ cur \in Conn
         /\ buf = Seg(cur, parsed[cur], taken[cur])
         /\ buf \in Seq(Byte)
         /\ Len(buf) = taken[cur] - parsed[cur]
         /\ Len(buf) > 0 => /\ PackLen \in Nat /\ HEAD_SIZE <= PackLen
                            /\ PackLen <= NET_REMAIN_CACHE_SIZE
<1>1. /\ parsed[cur] \in Nat /\ taken[cur] \in Nat /\ parsed[cur] <= taken[cur]
      /\ taken[cur] <= MaxBytes /\ cur \in Conn
  BY RecvAssumption DEF RecvInv, TypeOK, InOrder
<1>2. buf = Seg(cur, parsed[cur], taken[cur])
  BY DEF RecvInv, BufferInUse, StreamIntact, Held
<1>3. /\ buf \in Seq(Byte) /\ Len(buf) = taken[cur] - parsed[cur]
      /\ \A i \in 1 .. (taken[cur] - parsed[cur]) :
           buf[i] = [conn |-> cur, off |-> parsed[cur] + i - 1]
  BY <1>1, <1>2, SegFacts
<1>4. ASSUME Len(buf) > 0
      PROVE  PackLen \in Nat /\ HEAD_SIZE <= PackLen /\ PackLen <= NET_REMAIN_CACHE_SIZE
  <2>1. 1 \in 1 .. (taken[cur] - parsed[cur]) /\ parsed[cur] + 1 - 1 = parsed[cur]
    BY <1>1, <1>3, <1>4
  <2>2. buf[1].conn = cur /\ buf[1].off = parsed[cur]
    BY <1>3, <2>1
  <2>3. parsed[cur] \in 0 .. MaxBytes
    BY <1>1, <2>1, RecvAssumption
  <2>4. len_at[cur][parsed[cur]] \in 0 .. (NET_REMAIN_CACHE_SIZE - HEAD_SIZE)
    BY <1>1, <2>3, StreamTypes DEF RecvInv
  <2> QED
    BY <2>2, <2>4, RecvAssumption DEF PackLen
<1> QED
  BY <1>1, <1>2, <1>3, <1>4

\* A recv with room takes at most that much, and at most what has arrived.
LEMMA ReceivedFacts ==
  ASSUME RecvInv, NEW lim \in Nat
  PROVE  /\ Received(lim) \in Nat /\ Received(lim) <= lim
         /\ taken[cur] + Received(lim) <= sent[cur]
         /\ taken[cur] + Received(lim) \in 0 .. MaxBytes
         /\ Chunk(lim) \in Seq(Byte) /\ Len(Chunk(lim)) = Received(lim)
<1>1. /\ cur \in Conn /\ taken[cur] \in 0 .. MaxBytes /\ sent[cur] \in 0 .. MaxBytes
      /\ taken[cur] <= sent[cur]
  BY DEF RecvInv, TypeOK
<1>2. /\ Received(lim) \in Nat /\ Received(lim) <= lim
      /\ taken[cur] + Received(lim) <= sent[cur]
      /\ taken[cur] + Received(lim) \in 0 .. MaxBytes
  BY <1>1, RecvAssumption DEF Received, Available
<1>3. Chunk(lim) \in Seq(Byte) /\ Len(Chunk(lim)) = Received(lim)
  BY <1>1, <1>2, SegFacts DEF Chunk
<1> QED
  BY <1>2, <1>3

\* At the start nothing has been sent and nothing is kept.
LEMMA RecvInit == Init => RecvInv
<1> SUFFICES ASSUME Init PROVE RecvInv
  OBVIOUS
<1>0. <<>> \in Seq(Byte) /\ Len(<<>>) = 0
  OBVIOUS
<1>1. TypeOK
  <2>1. m_datamap \in [Conn -> Seq(Byte)] /\ buf \in Seq(Byte)
    BY <1>0 DEF Init
  <2>2. 0 \in 0 .. MaxBytes
    BY Sizes
  <2>3. /\ sent \in [Conn -> 0 .. MaxBytes] /\ taken \in [Conn -> 0 .. MaxBytes]
        /\ parsed \in [Conn -> 0 .. MaxBytes] /\ \A c \in Conn : taken[c] <= sent[c]
    BY <2>2 DEF Init
  <2>4. peer \in [Conn -> {"up", "fin", "rst", "dead"}] /\ ready \subseteq open
    BY DEF Init
  <2> QED
    BY <2>1, <2>3, <2>4 DEF Init, TypeOK
<1>2. BufferInUse /\ InOrder /\ NoFalseDisconnect /\ AssertsHold
  BY DEF Init, BufferInUse, InOrder, NoFalseDisconnect, AssertsHold
<1>3. RestIsShort
  <2>1. (\A c \in Conn : m_datamap[c] = <<>>) /\ buf = <<>> /\ pc = "wait"
    BY DEF Init
  <2> QED
    BY <1>0, <2>1, Sizes DEF RestIsShort
<1>4. StreamIntact
  BY SegEmpty DEF Init, StreamIntact, Held
<1> QED
  BY <1>1, <1>2, <1>3, <1>4 DEF RecvInv

\* What the clients do leaves the server's part alone; only a client that is
\* connected acts, so its connection is still open.
LEMMA RecvClients ==
  ASSUME RecvInv, NEW c \in Conn,
         (\E n \in 1 .. MaxBytes : Arrive(c, n)) \/ Finish(c) \/ Reset(c)
  PROVE  RecvInv'
<1>0. /\ c \in open /\ ready' = ready \cup {c}
      /\ UNCHANGED <<len_at, taken, open, m_datamap, pc, cur, buf, parsed, failed>>
  BY DEF Arrive, Finish, Reset, RecvInv, NoFalseDisconnect, TypeOK
<1>1. /\ peer' \in [Conn -> {"up", "fin", "rst", "dead"}]
      /\ \A k \in Conn : peer'[k] = "dead" <=> peer[k] = "dead"
      /\ \A k \in Conn \ open : peer'[k] = peer[k] /\ sent'[k] = sent[k]
      /\ \A k \in Conn : peer[k] = "dead" => sent'[k] = sent[k]
  BY <1>0 DEF Arrive, Finish, Reset, RecvInv, TypeOK
<1>2. sent' \in [Conn -> 0 .. MaxBytes] /\ \A k \in Conn : sent[k] <= sent'[k]
  <2>1. CASE \E n \in 1 .. MaxBytes : Arrive(c, n)
    <3>1. PICK n \in 1 .. MaxBytes : Arrive(c, n)
      BY <2>1
    <3>2. /\ sent \in [Conn -> 0 .. MaxBytes] /\ n \in Nat /\ sent[c] + n <= Sends[c]
          /\ sent' = [sent EXCEPT ![c] = @ + n]
      BY <3>1, Sizes DEF Arrive, RecvInv, TypeOK
    <3>3. Sends[c] \in 0 .. MaxBytes
      BY RecvAssumption
    <3> QED
      BY <3>2, <3>3, Sizes
  <2>2. CASE Finish(c) \/ Reset(c)
    <3>1. sent' = sent /\ sent \in [Conn -> 0 .. MaxBytes]
      BY <2>2 DEF Finish, Reset, RecvInv, TypeOK
    <3> QED
      BY <3>1, Sizes
  <2> QED
    BY <2>1, <2>2
<1>3. TypeOK'
  <2>1. \A k \in Conn : taken[k] <= sent'[k]
    BY <1>2, RecvAssumption DEF RecvInv, TypeOK
  <2> QED
    BY <1>0, <1>1, <1>2, <2>1 DEF RecvInv, TypeOK
<1>4. BufferInUse' /\ InOrder' /\ NoFalseDisconnect' /\ AssertsHold' /\ RestIsShort'
  BY <1>0, <1>1
     DEF RecvInv, TypeOK, BufferInUse, InOrder, NoFalseDisconnect, AssertsHold, RestIsShort
<1>5. StreamIntact'
  BY <1>0, <1>1 DEF RecvInv, TypeOK, StreamIntact, Held
<1> QED
  BY <1>3, <1>4, <1>5 DEF RecvInv

\* An event: the handler starts with an empty buffer.
LEMMA RecvEvent ==
  ASSUME RecvInv, NEW c \in Conn, Event(c)
  PROVE  RecvInv'
<1>1. TypeOK'
  BY DEF RecvInv, TypeOK, Event, kernelVars
<1>2. BufferInUse' /\ InOrder' /\ NoFalseDisconnect' /\ AssertsHold' /\ RestIsShort'
  BY DEF RecvInv, TypeOK, Event, kernelVars,
         BufferInUse, InOrder, NoFalseDisconnect, AssertsHold, RestIsShort
<1>3. StreamIntact'
  BY DEF RecvInv, TypeOK, Event, kernelVars, StreamIntact, Held
<1> QED
  BY <1>1, <1>2, <1>3 DEF RecvInv

\* The first recv: the kept package and the chunk are adjacent, and fit in recv_buff.
LEMMA RecvFirst ==
  ASSUME RecvInv, FirstRecv
  PROVE  RecvInv'
<1> DEFINE lim == NET_RECV_SIZE_LIMIT
<1>0. /\ pc = "first" /\ pc' = "parse" /\ cur' = cur /\ cur \in Conn /\ cur \in open
      /\ taken' = [taken EXCEPT ![cur] = @ + Received(lim)]
      /\ buf' = m_datamap[cur] \o Chunk(lim)
      /\ m_datamap' = [m_datamap EXCEPT ![cur] = <<>>]
      /\ failed' = (failed \/ Len(m_datamap[cur]) > NET_REMAIN_CACHE_SIZE)
      /\ UNCHANGED <<len_at, sent, peer, ready, open, parsed>>
  BY DEF RecvInv, TypeOK, BufferInUse, FirstRecv, TakeBytes, kernelVars, MRecv_find, MRecv_remove
<1>1. /\ Received(lim) \in Nat /\ Received(lim) <= lim
      /\ taken[cur] + Received(lim) <= sent[cur]
      /\ taken[cur] + Received(lim) \in 0 .. MaxBytes
      /\ Chunk(lim) \in Seq(Byte) /\ Len(Chunk(lim)) = Received(lim)
  BY ReceivedFacts, Sizes
<1>2. /\ Available > 0 /\ sent[cur] \in Nat /\ taken[cur] \in Nat /\ parsed[cur] \in Nat
      /\ parsed[cur] <= taken[cur]
  BY Sizes DEF FirstRecv, recv_data, RecvInv, TypeOK, InOrder
<1>3. peer[cur] # "dead"
  BY <1>0, <1>2 DEF RecvInv, InOrder, Available
<1>4. m_datamap[cur] = Seg(cur, parsed[cur], taken[cur])
  BY <1>0, <1>3 DEF RecvInv, StreamIntact, Held
<1>5. /\ m_datamap[cur] \in Seq(Byte) /\ Len(m_datamap[cur]) \in Nat
      /\ Len(m_datamap[cur]) < NET_REMAIN_CACHE_SIZE
  BY <1>0 DEF RecvInv, TypeOK, RestIsShort
<1>6. buf' \in Seq(Byte) /\ Len(buf') = Len(m_datamap[cur]) + Received(lim)
  <2>1. LET v == m_datamap[cur] \o Chunk(lim)
        IN  v \in Seq(Byte) /\ Len(v) = Len(m_datamap[cur]) + Len(Chunk(lim))
    BY <1>1, <1>5, ConcatProperties
  <2>2. buf' = m_datamap[cur] \o Chunk(lim)
    BY <1>0
  <2> QED
    BY <1>1, <2>1, <2>2
<1>7. buf' = Seg(cur, parsed[cur], taken[cur] + Received(lim))
  <2>1. taken[cur] + Received(lim) \in Nat /\ taken[cur] <= taken[cur] + Received(lim)
    BY <1>1, <1>2
  <2> QED
    <3>1. Seg(cur, parsed[cur], taken[cur]) \o Seg(cur, taken[cur], taken[cur] + Received(lim))
            = Seg(cur, parsed[cur], taken[cur] + Received(lim))
      BY <1>0, <1>2, <2>1, SegConcat
    <3>2. buf' = Seg(cur, parsed[cur], taken[cur]) \o Chunk(lim)
      BY <1>0, <1>4
    <3> QED
      BY <3>1, <3>2 DEF Chunk
<1> HIDE DEF lim
<1>8. /\ taken \in [Conn -> 0 .. MaxBytes] /\ taken'[cur] = taken[cur] + Received(lim)
      /\ \A c \in Conn : c # cur => taken'[c] = taken[c]
      /\ taken' \in [Conn -> 0 .. MaxBytes]
  BY <1>0, <1>1 DEF RecvInv, TypeOK
<1>9. m_datamap' \in [Conn -> Seq(Byte)] /\ m_datamap'[cur] = <<>>
      /\ \A c \in Conn : c # cur => m_datamap'[c] = m_datamap[c]
  <2>1. <<>> \in Seq(Byte)
    OBVIOUS
  <2> QED
    BY <1>0, <2>1 DEF RecvInv, TypeOK
<1>10. failed' = FALSE
  BY <1>0, <1>5, Sizes DEF RecvInv, AssertsHold, TypeOK
<1>11. TypeOK'
  BY <1>0, <1>1, <1>6, <1>8, <1>9, <1>10 DEF RecvInv, TypeOK
<1>12. BufferInUse' /\ AssertsHold'
  BY <1>0, <1>3, <1>9, <1>10 DEF BufferInUse, AssertsHold
<1>13. InOrder' /\ NoFalseDisconnect'
  BY <1>0, <1>1, <1>2, <1>3, <1>8 DEF RecvInv, TypeOK, InOrder, NoFalseDisconnect
<1>14. RestIsShort'
  <2>1. Len(buf') <= NET_RECV_BUFF_SIZE
    BY <1>1, <1>5, <1>6, Sizes DEF lim
  <2>2. Len(m_datamap'[cur]) < NET_REMAIN_CACHE_SIZE
    BY <1>9, Sizes
  <2> QED
    BY <1>0, <1>9, <2>1, <2>2 DEF RecvInv, RestIsShort
<1>15. StreamIntact'
  BY <1>0, <1>7, <1>8, <1>9 DEF RecvInv, TypeOK, StreamIntact, Held
<1> QED
  BY <1>11, <1>12, <1>13, <1>14, <1>15 DEF RecvInv

\* A complete package is cut off the front of the buffer.
LEMMA RecvParse ==
  ASSUME RecvInv, Parse
  PROVE  RecvInv'
<1>0. /\ pc = "parse" /\ cur \in Conn /\ cur \in open
      /\ Complete
      /\ buf' = SubSeq(buf, PackLen + 1, Len(buf))
      /\ parsed' = [parsed EXCEPT ![cur] = @ + PackLen]
      /\ UNCHANGED <<len_at, sent, peer, taken, ready, open, m_datamap, pc, cur, failed>>
  BY DEF RecvInv, TypeOK, BufferInUse, Parse, kernelVars
<1>1. /\ parsed[cur] \in Nat /\ taken[cur] \in Nat /\ parsed[cur] <= taken[cur]
      /\ taken[cur] <= MaxBytes
      /\ buf = Seg(cur, parsed[cur], taken[cur])
      /\ buf \in Seq(Byte)
      /\ Len(buf) = taken[cur] - parsed[cur]
      /\ Len(buf) > 0 => PackLen \in Nat
  BY <1>0, BufferIsSegment
<1> DEFINE n == PackLen
<1>2. n \in Nat /\ n <= taken[cur] - parsed[cur]
  BY <1>0, <1>1, Sizes DEF Complete
<1> HIDE DEF n
<1>3. buf' = Seg(cur, parsed[cur] + n, taken[cur])
  <2>1. buf' = SubSeq(buf, n + 1, Len(buf))
    BY <1>0 DEF n
  <2> QED
    BY <1>0, <1>1, <1>2, <2>1, SegCut
<1>4. /\ parsed[cur] + n \in 0 .. MaxBytes /\ parsed[cur] + n <= taken[cur]
      /\ parsed[cur] + n \in Nat
  BY <1>1, <1>2, Sizes
<1>5. buf' \in Seq(Byte) /\ Len(buf') = taken[cur] - (parsed[cur] + n)
  <2> DEFINE r == Seg(cur, parsed[cur] + n, taken[cur])
  <2>1. r \in Seq(Byte) /\ Len(r) = taken[cur] - (parsed[cur] + n)
    BY <1>0, <1>1, <1>4, SegFacts
  <2> HIDE DEF r
  <2>2. buf' = r
    BY <1>3 DEF r
  <2> QED
    BY <2>1, <2>2
<1>6. /\ parsed' \in [Conn -> 0 .. MaxBytes] /\ parsed'[cur] = parsed[cur] + n
      /\ \A c \in Conn : c # cur => parsed'[c] = parsed[c]
  BY <1>0, <1>4 DEF RecvInv, TypeOK, n
<1>7. TypeOK'
  BY <1>0, <1>5, <1>6 DEF RecvInv, TypeOK
<1>8. BufferInUse' /\ AssertsHold' /\ NoFalseDisconnect'
  BY <1>0 DEF RecvInv, BufferInUse, AssertsHold, NoFalseDisconnect
<1>9. InOrder'
  BY <1>0, <1>4, <1>6 DEF RecvInv, InOrder
<1>10. RestIsShort'
  <2>1. Len(buf') <= Len(buf) /\ Len(buf) <= NET_RECV_BUFF_SIZE
    BY <1>1, <1>2, <1>5 DEF RecvInv, RestIsShort
  <2>2. Len(buf') <= NET_RECV_BUFF_SIZE
    BY <2>1, <1>1, <1>2, <1>5, Sizes
  <2> QED
    BY <1>0, <2>2 DEF RecvInv, RestIsShort
<1>11. StreamIntact'
  BY <1>0, <1>3, <1>6 DEF RecvInv, TypeOK, StreamIntact, Held
<1> QED
  BY <1>7, <1>8, <1>9, <1>10, <1>11 DEF RecvInv

\* What is left then is shorter than a package can be.
LEMMA RecvIncomplete ==
  ASSUME RecvInv, Incomplete
  PROVE  RecvInv'
<1>0. /\ pc = "parse" /\ pc' = "more" /\ ~ Complete
      /\ UNCHANGED <<len_at, sent, peer, taken, ready, open, m_datamap, cur, buf, parsed, failed>>
  BY DEF Incomplete, kernelVars
<1>1. Len(buf) < NET_REMAIN_CACHE_SIZE
  <2>1. /\ Len(buf) \in Nat
        /\ Len(buf) > 0 => PackLen \in Nat /\ PackLen <= NET_REMAIN_CACHE_SIZE
    BY <1>0, BufferIsSegment
  <2> QED
    BY <1>0, <2>1, Sizes DEF Complete
<1>2. TypeOK' /\ InOrder' /\ NoFalseDisconnect' /\ AssertsHold'
  BY <1>0 DEF RecvInv, TypeOK, InOrder, NoFalseDisconnect, AssertsHold
<1>3. BufferInUse' /\ RestIsShort'
  BY <1>0, <1>1 DEF RecvInv, BufferInUse, RestIsShort
<1>4. StreamIntact'
  BY <1>0 DEF RecvInv, StreamIntact, Held
<1> QED
  BY <1>2, <1>3, <1>4 DEF RecvInv

\* There is always room behind what is left, so recv is never asked for 0 bytes.
LEMMA RoomLeft ==
  ASSUME RecvInv, pc = "more"
  PROVE  Room \in Nat /\ Room > 0 /\ Len(buf) \in Nat /\ Len(buf) + Room = NET_RECV_SIZE_LIMIT
<1>1. Len(buf) \in Nat /\ Len(buf) < NET_REMAIN_CACHE_SIZE
  BY DEF RecvInv, TypeOK, RestIsShort
<1> QED
  BY <1>1, Sizes DEF Room

\* A later recv continues the buffer and fills it no further than the first may.
LEMMA RecvMore ==
  ASSUME RecvInv, MoreRecv
  PROVE  RecvInv'
<1> DEFINE lim == Room
<1>0. /\ pc = "more" /\ pc' = "parse" /\ cur' = cur /\ cur \in Conn /\ cur \in open
      /\ peer[cur] # "dead"
      /\ taken' = [taken EXCEPT ![cur] = @ + Received(lim)]
      /\ buf' = buf \o Chunk(lim)
      /\ UNCHANGED <<len_at, sent, peer, ready, open, m_datamap, parsed, failed>>
  BY DEF RecvInv, TypeOK, BufferInUse, MoreRecv, TakeBytes, kernelVars
<1>1. lim \in Nat /\ Len(buf) \in Nat /\ Len(buf) + lim = NET_RECV_SIZE_LIMIT
  BY <1>0, RoomLeft
<1> HIDE DEF lim
<1>2. /\ Received(lim) \in Nat /\ Received(lim) <= lim
      /\ taken[cur] + Received(lim) <= sent[cur]
      /\ taken[cur] + Received(lim) \in 0 .. MaxBytes
      /\ Chunk(lim) \in Seq(Byte) /\ Len(Chunk(lim)) = Received(lim)
  BY <1>1, ReceivedFacts
<1>3. /\ parsed[cur] \in Nat /\ taken[cur] \in Nat /\ parsed[cur] <= taken[cur]
      /\ buf = Seg(cur, parsed[cur], taken[cur]) /\ buf \in Seq(Byte)
  BY <1>0, BufferIsSegment
<1>4. buf' \in Seq(Byte) /\ Len(buf') = Len(buf) + Received(lim)
  <2>1. LET v == buf \o Chunk(lim)
        IN  v \in Seq(Byte) /\ Len(v) = Len(buf) + Len(Chunk(lim))
    BY <1>2, <1>3, ConcatProperties
  <2>2. buf' = buf \o Chunk(lim)
    BY <1>0
  <2> QED
    BY <1>2, <2>1, <2>2
<1>5. buf' = Seg(cur, parsed[cur], taken[cur] + Received(lim))
  <2>1. taken[cur] + Received(lim) \in Nat /\ taken[cur] <= taken[cur] + Received(lim)
    BY <1>2, <1>3
  <2>2. Seg(cur, parsed[cur], taken[cur]) \o Seg(cur, taken[cur], taken[cur] + Received(lim))
          = Seg(cur, parsed[cur], taken[cur] + Received(lim))
    BY <1>0, <1>3, <2>1, SegConcat
  <2>3. buf' = Seg(cur, parsed[cur], taken[cur]) \o Chunk(lim)
    BY <1>0, <1>3
  <2> QED
    BY <2>2, <2>3 DEF Chunk
<1>6. /\ taken' \in [Conn -> 0 .. MaxBytes] /\ taken'[cur] = taken[cur] + Received(lim)
      /\ \A c \in Conn : c # cur => taken'[c] = taken[c]
  BY <1>0, <1>2 DEF RecvInv, TypeOK
<1>7. TypeOK'
  BY <1>0, <1>2, <1>4, <1>6 DEF RecvInv, TypeOK
<1>8. BufferInUse' /\ AssertsHold'
  BY <1>0 DEF RecvInv, BufferInUse, AssertsHold
<1>9. InOrder' /\ NoFalseDisconnect'
  BY <1>0, <1>2, <1>3, <1>6 DEF RecvInv, TypeOK, InOrder, NoFalseDisconnect
<1>10. RestIsShort'
  <2>1. Len(buf') <= NET_RECV_BUFF_SIZE
    BY <1>1, <1>2, <1>4, Sizes
  <2> QED
    BY <1>0, <2>1 DEF RecvInv, RestIsShort
<1>11. StreamIntact'
  BY <1>0, <1>5, <1>6 DEF RecvInv, TypeOK, StreamIntact, Held
<1> QED
  BY <1>7, <1>8, <1>9, <1>10, <1>11 DEF RecvInv

\* EAGAIN at the first recv changes nothing.
LEMMA RecvFirstAgain ==
  ASSUME RecvInv, FirstAgain
  PROVE  RecvInv'
<1>0. /\ pc = "first" /\ pc' = "wait"
      /\ UNCHANGED <<len_at, sent, peer, taken, ready, open, m_datamap, cur, buf, parsed, failed>>
  BY DEF FirstAgain, kernelVars
<1>1. TypeOK' /\ InOrder' /\ NoFalseDisconnect' /\ AssertsHold'
  BY <1>0 DEF RecvInv, TypeOK, InOrder, NoFalseDisconnect, AssertsHold
<1>2. BufferInUse' /\ RestIsShort'
  BY <1>0 DEF RecvInv, BufferInUse, RestIsShort
<1>3. StreamIntact'
  BY <1>0 DEF RecvInv, StreamIntact, Held
<1> QED
  BY <1>1, <1>2, <1>3 DEF RecvInv

\* EAGAIN later moves what is left from the buffer to the map, where nothing is
\* kept for the connection.
LEMMA RecvMoreAgain ==
  ASSUME RecvInv, ~ NDEBUG, MoreAgain
  PROVE  RecvInv'
<1>0. /\ pc = "more" /\ pc' = "wait" /\ buf' = <<>> /\ cur \in Conn
      /\ m_datamap[cur] = <<>>
      /\ m_datamap' = IF buf # <<>> THEN [m_datamap EXCEPT ![cur] = buf] ELSE m_datamap
      /\ failed' = failed
      /\ UNCHANGED <<len_at, sent, peer, taken, ready, open, cur, parsed>>
  BY DEF RecvInv, TypeOK, BufferInUse, MoreAgain, MRecv_insert, kernelVars
<1>1. /\ m_datamap' \in [Conn -> Seq(Byte)] /\ m_datamap'[cur] = buf
      /\ \A c \in Conn : c # cur => m_datamap'[c] = m_datamap[c]
  BY <1>0 DEF RecvInv, TypeOK
<1>2. <<>> \in Seq(Byte) /\ Len(<<>>) = 0
  OBVIOUS
<1>3. TypeOK'
  BY <1>0, <1>1, <1>2 DEF RecvInv, TypeOK
<1>4. InOrder' /\ NoFalseDisconnect' /\ AssertsHold' /\ BufferInUse'
  BY <1>0 DEF RecvInv, TypeOK, InOrder, NoFalseDisconnect, AssertsHold, BufferInUse
<1>5. RestIsShort'
  BY <1>0, <1>1, <1>2, Sizes DEF RecvInv, RestIsShort
<1>6. StreamIntact'
  BY <1>0, <1>1 DEF RecvInv, TypeOK, StreamIntact, Held
<1> QED
  BY <1>3, <1>4, <1>5, <1>6 DEF RecvInv

\* Another error comes after the last byte; the connection is not used any more.
LEMMA RecvErrorStep ==
  ASSUME RecvInv, RecvError
  PROVE  RecvInv'
<1>0. /\ pc' = "wait" /\ buf' = <<>> /\ cur \in Conn /\ cur \in open
      /\ Available = 0 /\ peer' = [peer EXCEPT ![cur] = "dead"]
      /\ UNCHANGED <<len_at, sent, taken, ready, open, m_datamap, cur, parsed, failed>>
  BY DEF RecvInv, TypeOK, BufferInUse, RecvError, recv_error
<1>1. taken[cur] = sent[cur]
  BY <1>0, Sizes DEF Available, RecvInv, TypeOK
<1>2. <<>> \in Seq(Byte) /\ Len(<<>>) = 0
  OBVIOUS
<1>3. TypeOK'
  BY <1>0, <1>2 DEF RecvInv, TypeOK
<1>4. InOrder' /\ NoFalseDisconnect' /\ AssertsHold' /\ BufferInUse'
  BY <1>0, <1>1 DEF RecvInv, TypeOK, InOrder, NoFalseDisconnect, AssertsHold, BufferInUse
<1>5. RestIsShort'
  BY <1>0, <1>2, Sizes DEF RecvInv, RestIsShort
<1>6. StreamIntact'
  BY <1>0 DEF RecvInv, TypeOK, StreamIntact, Held
<1> QED
  BY <1>3, <1>4, <1>5, <1>6 DEF RecvInv

\* recv returns 0 only for a client that is gone, after its last byte.
LEMMA RecvEnd ==
  ASSUME RecvInv, EndOfStream
  PROVE  RecvInv'
<1>0. /\ pc' = "wait" /\ buf' = <<>> /\ cur \in Conn
      /\ open' = open \ {cur} /\ ready' = ready \ {cur}
      /\ m_datamap' = [m_datamap EXCEPT ![cur] = <<>>]
      /\ UNCHANGED <<len_at, sent, peer, taken, cur, parsed, failed>>
  BY DEF RecvInv, TypeOK, EndOfStream, MRecv_remove, kernelVars
<1>1. Available = 0 /\ peer[cur] \in {"fin", "dead"}
  <2>1. CASE pc = "first" /\ recv_zero(NET_RECV_SIZE_LIMIT)
    BY <2>1, Sizes DEF recv_zero
  <2>2. CASE pc = "more" /\ recv_zero(Room)
    BY <2>2, RoomLeft DEF recv_zero
  <2> QED
    BY <2>1, <2>2 DEF EndOfStream
<1>2. taken[cur] = sent[cur]
  BY <1>0, <1>1, Sizes DEF Available, RecvInv, TypeOK
<1>3. <<>> \in Seq(Byte) /\ Len(<<>>) = 0
  OBVIOUS
<1>4. TypeOK'
  BY <1>0, <1>3 DEF RecvInv, TypeOK
<1>5. InOrder' /\ NoFalseDisconnect' /\ AssertsHold' /\ BufferInUse'
  BY <1>0, <1>1, <1>2
     DEF RecvInv, TypeOK, InOrder, NoFalseDisconnect, AssertsHold, BufferInUse
<1>6. RestIsShort'
  BY <1>0, <1>3, Sizes DEF RecvInv, TypeOK, RestIsShort
<1>7. StreamIntact'
  BY <1>0 DEF RecvInv, TypeOK, StreamIntact, Held
<1> QED
  BY <1>4, <1>5, <1>6, <1>7 DEF RecvInv

\* Every step keeps the invariant.
LEMMA RecvNext == ~ NDEBUG /\ RecvInv /\ [Next]_vars => RecvInv'
<1> SUFFICES ASSUME ~ NDEBUG, RecvInv, [Next]_vars PROVE RecvInv'
  OBVIOUS
<1>1. CASE UNCHANGED vars
  BY <1>1 DEF vars, kernelVars, RecvInv, TypeOK, BufferInUse, RestIsShort, InOrder,
              NoFalseDisconnect, StreamIntact, Held, AssertsHold
<1>2. CASE handle_EPOLLIN_event
  BY <1>2, RecvEvent, RecvFirst, RecvFirstAgain, RecvParse, RecvIncomplete, RecvMore,
     RecvMoreAgain, RecvErrorStep, RecvEnd DEF handle_EPOLLIN_event
<1> QED
  BY <1>1, <1>2, RecvClients DEF Next

\* The invariant holds throughout.
LEMMA RecvAlways == ~ NDEBUG /\ Spec => []RecvInv
<1> SUFFICES ASSUME ~ NDEBUG PROVE Spec => []RecvInv
  OBVIOUS
<1>1. RecvInv /\ [Next]_vars => RecvInv'
  BY RecvNext
<1> QED
  BY <1>1, RecvInit, PTL DEF Spec

-----------------------------------------------------------------------------

\* The handler's locals and the map of incomplete packages keep their types, and
\* no byte is taken that was not sent.
THEOREM RecvTypeCorrect == ~ NDEBUG /\ Spec => []TypeOK
BY RecvAlways, PTL DEF RecvInv

\* However the byte streams are cut into recvs, events and packages, the server
\* holds exactly the bytes after the last package it handed on.
THEOREM NoByteLost == ~ NDEBUG /\ Spec => []StreamIntact
BY RecvAlways, PTL DEF RecvInv

\* A kept package and the recv behind it fit in recv_buff: NET_RECV_SIZE_LIMIT leaves
\* room for the longest package.
THEOREM RecvBuffSafe == ~ NDEBUG /\ Spec => []RecvBuffBound
<1>1. RecvInv => RecvBuffBound
  BY DEF RecvInv, RestIsShort, RecvBuffBound
<1> QED
  BY <1>1, RecvAlways, PTL

\* No connection is closed before everything the client sent has been received.
THEOREM DisconnectSafe == ~ NDEBUG /\ Spec => []NoFalseDisconnect
BY RecvAlways, PTL DEF RecvInv

\* The assertions on the map of incomplete packages hold.
THEOREM AssertsSafe == ~ NDEBUG /\ Spec => []AssertsHold
BY RecvAlways, PTL DEF RecvInv
=============================================================================
