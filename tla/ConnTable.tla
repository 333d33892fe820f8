------------------------------ MODULE ConnTable ------------------------------
(***************************************************************************)
(* The connection table of src/src/conn/conn.cpp: a map from connection    *)
(* identifiers to the descriptor of the client.  Every operation holds the *)
(* table's rwlock from its first to its last statement, so each is one     *)
(* atomic step, which the threads that call it conjoin with their own.     *)
(*                                                                         *)
(* The map is kept as a total function; an identifier that is not in it is *)
(* mapped to NoFd, the -1 that conn_get_sockfd reports for it.             *)
(***************************************************************************)
EXTENDS Integers

CONSTANTS
  Client,                  \* the TCP connections clients make, each once
  NoClient,                \* not a client
  CONNID,                  \* every value of the type CONNID
  SVR_INVALID_CONNECT_ID,  \* the reserved one
  NFd,                     \* number of descriptors the process may hold
  ReuseIds                 \* may Gen_ConnID repeat an identifier it gave out?

ASSUME ConnAssumption ==
  /\ NoClient \notin Client
  /\ SVR_INVALID_CONNECT_ID \in CONNID
  /\ NFd \in Nat \ {0}
  /\ ReuseIds \in BOOLEAN

Fd   == 1 .. NFd
NoFd == -1

VARIABLES
  conn_map,   \* identifier -> descriptor, NoFd when absent
  owner       \* history: the client an identifier was last issued to

connVars == <<conn_map, owner>>

create_conn_table ==
  /\ conn_map = [id \in CONNID |-> NoFd]
  /\ owner    = [id \in CONNID |-> NoClient]

conn_get_sockfd(id) == conn_map[id]

InTable(id) == conn_map[id] # NoFd

\* Mutant: the reserved identifier is not avoided.
ConnInsertReserved(id, fd, k) ==
  /\ ~ InTable(id)
  /\ ReuseIds \/ owner[id] = NoClient
  /\ conn_map' = [conn_map EXCEPT ![id] = fd]
  /\ owner'    = [owner EXCEPT ![id] = k]

(***************************************************************************)
(* conn_insert.  Gen_ConnID may return any value; the loop draws again     *)
(* while the value is in the table or is the reserved one.  It is seeded   *)
(* with tv_sec + rand() % 10000, so nothing keeps it from repeating a      *)
(* value whose connection is gone: ReuseIds says whether the model lets it.*)
(***************************************************************************)
conn_insert(id, fd, k) ==
  /\ id # SVR_INVALID_CONNECT_ID
  /\ ~ InTable(id)
  /\ ReuseIds \/ owner[id] = NoClient
  /\ conn_map' = [conn_map EXCEPT ![id] = fd]
  /\ owner'    = [owner EXCEPT ![id] = k]

conn_remove(id) ==
  /\ conn_map' = [conn_map EXCEPT ![id] = NoFd]
  /\ UNCHANGED owner

ConnTypeOK ==
  /\ conn_map \in [CONNID -> Fd \cup {NoFd}]
  /\ owner \in [CONNID -> Client \cup {NoClient}]
=============================================================================
