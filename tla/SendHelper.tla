----------------------------- MODULE SendHelper -----------------------------
(***************************************************************************)
(* The send queue of src/src/helper/sendhelper.cpp and the part of its     *)
(* send thread that works on the queue and on the condition variable.      *)
(* Every QSend_* function holds the queue's mutex throughout, so each is   *)
(* one atomic step.                                                        *)
(*                                                                         *)
(* An entry of the queue is a connection identifier and the packages that  *)
(* were put together for it, kept as the sequence of responses they carry  *)
(* and their total size.                                                   *)
(***************************************************************************)
EXTENDS ConnTable, Sequences, FiniteSets

CONSTANTS
  NET_SEND_BUFF_SIZE,  \* capacity of the buffer a queued entry is sent from
  Response             \* what a package can carry

ASSUME SendAssumption == NET_SEND_BUFF_SIZE \in Nat \ {0}

VARIABLES
  m_list,    \* send_queue_t: the entries, oldest first
  s_pc,      \* where the send thread is
  s_connid,  \* its local connid
  s_fd       \* its local socket

sendVars == <<m_list, s_pc, s_connid, s_fd>>

(***************************************************************************)
(* The send thread is about to read the front of the queue ("front"), has  *)
(* found it empty and not yet called pthread_cond_wait ("prewait"), waits  *)
(* ("waiting"), or is on its way through the rest of the loop body, which  *)
(* the composing module defines.                                           *)
(***************************************************************************)
SendPC == {"front", "prewait", "waiting", "lookup", "mod", "rm_queue", "rm_conn"}

Entry == [conn_id : CONNID, data : Seq(Response), size : Nat]

create_send_helper ==
  /\ m_list = <<>>
  /\ s_pc = "front"
  /\ s_connid = SVR_INVALID_CONNECT_ID
  /\ s_fd = NoFd

-----------------------------------------------------------------------------

\* Mutant: packages are put together without looking at the size.
QSendPushNoLimit(c, x, len) ==
  m_list' = IF m_list # <<>> /\ m_list[1].conn_id = c
            THEN [m_list EXCEPT ![1] = [conn_id |-> c,
                                        data    |-> Append(@.data, x),
                                        size    |-> @.size + len]]
            ELSE Append(m_list, [conn_id |-> c, data |-> <<x>>, size |-> len])

\* Mutant: packages are put together whatever connection they are for.
QSendPushAnyFront(c, x, len) ==
  m_list' = IF m_list # <<>> /\ m_list[1].size + len < NET_SEND_BUFF_SIZE
            THEN [m_list EXCEPT ![1].data = Append(@, x), ![1].size = @ + len]
            ELSE Append(m_list, [conn_id |-> c, data |-> <<x>>, size |-> len])

(***************************************************************************)
(* Small packages for the connection at the front are put together with    *)
(* the entry there, as long as the result is smaller than the send buffer; *)
(* everything else becomes an entry of its own at the back.                *)
(***************************************************************************)
QSend_push(c, x, len) ==
  m_list' = IF /\ m_list # <<>>
               /\ m_list[1].conn_id = c
               /\ m_list[1].size + len < NET_SEND_BUFF_SIZE
            THEN [m_list EXCEPT ![1] = [conn_id |-> c,
                                        data    |-> Append(@.data, x),
                                        size    |-> @.size + len]]
            ELSE Append(m_list, [conn_id |-> c, data |-> <<x>>, size |-> len])

\* The positions of the entries of connection c.
PositionsOf(c) == {i \in DOMAIN m_list : m_list[i].conn_id = c}

\* Erase everything but the entries at the positions K, keeping their order.
KeepOnly(K) ==
  \E f \in [1 .. Cardinality(K) -> K] :
    /\ \A i, j \in DOMAIN f : i < j => f[i] < f[j]
    /\ m_list' = [k \in DOMAIN f |-> m_list[f[k]]]

\* find_if: the first entry of connection c is at position i.
IsFirstOf(c, i) ==
  /\ i \in PositionsOf(c)
  /\ \A j \in PositionsOf(c) : i <= j

\* Mutant: the entry is copied out and stays in the list.
QSendPopKeeps(c, i) ==
  /\ IsFirstOf(c, i)
  /\ m_list[i].size <= NET_SEND_BUFF_SIZE
  /\ UNCHANGED m_list

(***************************************************************************)
(* QSend_pop_first hands out the first entry of c if the caller's buffer   *)
(* holds it; it fails, and leaves the queue alone, if c has no entry or    *)
(* the entry is larger than the buffer.                                    *)
(***************************************************************************)
QSend_pop_first(c, i) ==
  /\ IsFirstOf(c, i)
  /\ m_list[i].size <= NET_SEND_BUFF_SIZE
  /\ KeepOnly(DOMAIN m_list \ {i})

PopRefused(c) ==
  \E i \in PositionsOf(c) : IsFirstOf(c, i) /\ m_list[i].size > NET_SEND_BUFF_SIZE

QSend_pop_first_fails(c) ==
  /\ PositionsOf(c) = {} \/ PopRefused(c)
  /\ UNCHANGED m_list

QSend_remove_all_by_connid(c) == KeepOnly(DOMAIN m_list \ PositionsOf(c))

QSend_connid_of_front ==
  IF m_list = <<>> THEN SVR_INVALID_CONNECT_ID ELSE m_list[1].conn_id

-----------------------------------------------------------------------------

(***************************************************************************)
(* The head of send_func's loop: an empty queue sends the thread to        *)
(* send_wait, which waits whatever has been pushed in the meantime.        *)
(***************************************************************************)
SendFront ==
  /\ s_pc = "front"
  /\ s_connid' = QSend_connid_of_front
  /\ s_fd' = NoFd
  /\ s_pc' = IF QSend_connid_of_front = SVR_INVALID_CONNECT_ID THEN "prewait" ELSE "lookup"
  /\ UNCHANGED m_list

send_wait ==
  /\ s_pc = "prewait"
  /\ s_pc' = "waiting"
  /\ UNCHANGED <<m_list, s_connid, s_fd>>

\* pthread_cond_wait may return although nobody signalled.
SpuriousWakeup ==
  /\ s_pc = "waiting"
  /\ s_pc' = "front"
  /\ UNCHANGED <<m_list, s_connid, s_fd>>

send_signal == s_pc' = IF s_pc = "waiting" THEN "front" ELSE s_pc

SendTypeOK ==
  /\ m_list \in Seq(Entry)
  /\ s_pc \in SendPC
  /\ s_connid \in CONNID
  /\ s_fd \in Fd \cup {NoFd}
=============================================================================
