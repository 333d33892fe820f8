------------------------------- MODULE Service -------------------------------
(***************************************************************************)
(* What the server promises to its clients, and all that a client sees of  *)
(* it: a client makes requests, one after the other, and the service       *)
(* answers requests the client has made, in any order, each at most once.  *)
(* It may answer several at a time, and it need not answer all: a handler  *)
(* may return an error, and a connection may end.                          *)
(***************************************************************************)
EXTENDS Naturals, Sequences, FiniteSets

CONSTANTS Client, MaxReq

VARIABLES
  asked,    \* the requests that were made
  answers   \* what each client was answered, in order

vars == <<asked, answers>>

Request == [from : Client, n : 1 .. MaxReq]

Init ==
  /\ asked = {}
  /\ answers = [k \in Client |-> <<>>]

Ask(r) ==
  /\ r \notin asked
  /\ asked' = asked \cup {r}
  /\ UNCHANGED answers

\* What client k still waits for.
Outstanding(k) ==
  {r \in asked : r.from = k /\ \A i \in DOMAIN answers[k] : answers[k][i] # r}

\* The sequences of n elements of S without repetition.
Arrangements(S, n) ==
  {s \in [1 .. n -> S] : \A i, j \in 1 .. n : s[i] = s[j] => i = j}

Answer(k) ==
  /\ \E n \in 1 .. Cardinality(Outstanding(k)) : \E s \in Arrangements(Outstanding(k), n) :
       answers' = [answers EXCEPT ![k] = @ \o s]
  /\ UNCHANGED asked

Next == (\E r \in Request : Ask(r)) \/ (\E k \in Client : Answer(k))

Spec == Init /\ [][Next]_vars
=============================================================================
