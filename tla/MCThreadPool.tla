---------------------------- MODULE MCThreadPool ----------------------------
(***************************************************************************)
(* Model-checking instances of ThreadPool: threads and tasks are model     *)
(* values.                                                                 *)
(***************************************************************************)
EXTENDS ThreadPool, TLC

\* Threads and tasks are interchangeable.
Symmetry == Permutations(Thread) \cup Permutations(Job)
=============================================================================
