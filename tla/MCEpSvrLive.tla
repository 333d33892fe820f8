---------------------------- MODULE MCEpSvrLive ----------------------------
(***************************************************************************)
(* The model-checking instance of EpSvr for progress: two clients, A and B, *)
(* that may hold two connections at a time or use one descriptor after the *)
(* other.  All that two clients can do is too much for liveness checking,  *)
(* so every behaviour follows one of three scenarios, chosen at the start. *)
(* A scenario only narrows what clients do, and where there are two of     *)
(* them the length of the responses; the threads' steps are those of EpSvr.*)
(***************************************************************************)
EXTENDS EpSvr

CONSTANTS A, B

ASSUME LiveAssumption == A # B /\ Client = {A, B} /\ 1 \in OutLen

VARIABLE scenario

MCResponse == Request

\* A is the only client.
Alone == peer[B] = "idle"

Answered(r) == QueuePlaces(r) \cup SendbufPlaces(r) \cup ClientPlaces(r) # {}

\* B comes when responses to all A has asked are queued or on their way to A; A
\* may not read them, and does not end its connection.
Together ==
  /\ peer[A] \in {"idle", "up"}
  /\ peer[B] \in {"idle", "up", "fin"}
  /\ peer[B] # "idle" => \A n \in 1 .. MaxReq : Answered([from |-> A, n |-> n])
  /\ nsent[B] <= 1

\* B comes when A has closed and A's descriptor is free for it.
After ==
  /\ peer[A] \in {"idle", "up", "fin"}
  /\ peer[B] # "idle" => peer[A] = "fin" /\ \A fd \in Fd : sock[fd] # A
  /\ \A k \in Client : nsent[k] <= 1

ShortResponses ==
  \A i \in DOMAIN m_list : m_list[i].size = create_pack(1) * Len(m_list[i].data)

InScenario ==
  \/ scenario = "alone" /\ Alone
  \/ scenario = "together" /\ Together /\ ShortResponses
  \/ scenario = "after" /\ After /\ ShortResponses

LiveInit == Init /\ scenario \in {"alone", "together", "after"}

LiveNext == Next /\ UNCHANGED scenario /\ InScenario'

LiveSpec == LiveInit /\ [][LiveNext]_<<vars, scenario>> /\ Fairness
=============================================================================
