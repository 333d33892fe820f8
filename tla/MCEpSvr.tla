------------------------------ MODULE MCEpSvr ------------------------------
(***************************************************************************)
(* Model-checking instances of EpSvr.  Client, Worker and the identifiers  *)
(* other than the reserved one are model values; the sizes are chosen so   *)
(* that two packages can be put together in the send queue and three       *)
(* cannot.                                                                 *)
(***************************************************************************)
EXTENDS EpSvr, TLC

MCResponse == Request

\* Clients and workers are interchangeable, and so are fresh identifiers.
Symmetry ==
  Permutations(Client) \cup Permutations(Worker)
    \cup Permutations(CONNID \ {SVR_INVALID_CONNECT_ID})
=============================================================================
