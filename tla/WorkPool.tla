------------------------------ MODULE WorkPool ------------------------------
(***************************************************************************)
(* What a work pool promises to the code that submits jobs to it: a job    *)
(* that is accepted waits in a bounded queue, first come first served;     *)
(* one thread takes it, and it is done when that thread has finished; and  *)
(* when the pool is shut, the jobs that still wait are done at once and    *)
(* nothing else is taken.  Every accepted job is thus done at most once,   *)
(* and never while a thread still works on it.                             *)
(***************************************************************************)
EXTENDS Naturals, Sequences

CONSTANTS
  Job,     \* what can be submitted, each once
  NoJob,   \* not a job
  Thread,  \* the threads of the pool
  LIMIT    \* a submission is refused when more than LIMIT jobs wait

VARIABLES
  pending,  \* jobs that wait, in order
  busy,     \* the job a thread works on
  done,     \* jobs that are done
  shut      \* has the pool been shut?

vars == <<pending, busy, done, shut>>

Init ==
  /\ pending = <<>>
  /\ busy = [t \in Thread |-> NoJob]
  /\ done = {}
  /\ shut = FALSE

Waiting == {pending[i] : i \in DOMAIN pending}

Fresh(j) ==
  /\ j \notin Waiting \cup done
  /\ \A t \in Thread : busy[t] # j

Submit(j) ==
  /\ ~ shut
  /\ Fresh(j)
  /\ Len(pending) <= LIMIT
  /\ pending' = Append(pending, j)
  /\ UNCHANGED <<busy, done, shut>>

Take(t) ==
  /\ busy[t] = NoJob
  /\ pending # <<>>
  /\ busy' = [busy EXCEPT ![t] = Head(pending)]
  /\ pending' = Tail(pending)
  /\ UNCHANGED <<done, shut>>

Finish(t) ==
  /\ busy[t] \notin done \cup {NoJob}
  /\ busy' = [busy EXCEPT ![t] = NoJob]
  /\ done' = done \cup {busy[t]}
  /\ UNCHANGED <<pending, shut>>

Shut ==
  /\ ~ shut
  /\ Waiting \cap done = {}
  /\ shut' = TRUE
  /\ done' = done \cup Waiting
  /\ pending' = <<>>
  /\ UNCHANGED busy

Next ==
  \/ \E j \in Job : Submit(j)
  \/ \E t \in Thread : Take(t) \/ Finish(t)
  \/ Shut

Spec == Init /\ [][Next]_vars
=============================================================================
