-------------------------- MODULE ThreadPoolProofs --------------------------
(***************************************************************************)
(* Theorems about ThreadPool, for any number of threads and tasks and any  *)
(* limit of the queue.  The invariant behind them says that a task is in   *)
(* one place only: at one position of the queue, or with one thread, or    *)
(* released.                                                               *)
(***************************************************************************)
EXTENDS ThreadPool, FiniteSetTheorems, TLAPS

\* Where a task is in the queue, and how often it is there.
PlacesOf(j) == {i \in DOMAIN queue : queue[i] = j}

\* Queue and threads hold every task at most once between them.
InOnePlace ==
  /\ queue # NULL =>
       /\ \A i, k \in DOMAIN queue : queue[i] = queue[k] => i = k
       /\ \A i \in DOMAIN queue : \A t \in Thread : queue[i] # element[t]
  /\ \A t, u \in Thread : element[t] = element[u] /\ element[t] # NoJob => t = u

PoolInv == TypeOK /\ ReleasedOnce /\ InOnePlace

-----------------------------------------------------------------------------

\* easy_queue_clear meets a task once if it is in the queue, else not at all.
LEMMA PlacesCounted ==
  ASSUME queue \in Seq(Job), NEW j \in Job,
         \A i, k \in DOMAIN queue : queue[i] = queue[k] => i = k
  PROVE  /\ PlacesOf(j) = {} => Cardinality(PlacesOf(j)) = 0
         /\ PlacesOf(j) # {} => Cardinality(PlacesOf(j)) = 1
<1>1. CASE PlacesOf(j) = {}
  BY <1>1, FS_EmptySet
<1>2. CASE PlacesOf(j) # {}
  <2>1. PICK i \in PlacesOf(j) : TRUE
    BY <1>2
  <2>2. PlacesOf(j) = {i}
    BY <2>1 DEF PlacesOf
  <2> QED
    BY <2>2, <1>2, FS_Singleton
<1> QED
  BY <1>1, <1>2

\* What is left of a sequence after its head: the same elements, one place on.
LEMMA TailOfQueue ==
  ASSUME queue \in Seq(Job), queue # <<>>
  PROVE  /\ Head(queue) = queue[1] /\ Head(queue) \in Job /\ 1 \in DOMAIN queue
         /\ Tail(queue) \in Seq(Job)
         /\ \A i \in DOMAIN Tail(queue) :
              i + 1 \in DOMAIN queue /\ i + 1 # 1 /\ Tail(queue)[i] = queue[i + 1]
OBVIOUS

-----------------------------------------------------------------------------

\* threadpool_init establishes the invariant.
LEMMA PoolInit == Init => PoolInv
<1> SUFFICES ASSUME Init PROVE PoolInv
  OBVIOUS
<1>0. queue \in Seq(Job) /\ queue # NULL
  <2>1. <<>> \in Seq(Job)
    OBVIOUS
  <2>2. queue \in Seq(Job)
    BY <2>1 DEF Init, threadpool_init
  <2> QED
    BY <2>2, PoolAssumption
<1>1. TypeOK
  BY <1>0 DEF Init, threadpool_init, TypeOK, ThreadPC, UninitPC
<1>2. ReleasedOnce
  BY DEF Init, threadpool_init, ReleasedOnce
<1>3. InOnePlace
  BY DEF Init, threadpool_init, InOnePlace
<1> QED
  BY <1>1, <1>2, <1>3 DEF PoolInv

\* The steps that leave queue, elements and counts alone keep the invariant.
LEMMA PoolQuiet ==
  ASSUME PoolInv, UNCHANGED <<queue, element, released>>,
         exit_sem' \in Nat, crashed' \in BOOLEAN,
         u_pc' \in UninitPC,
         u_pc' \in {"join", "done"} <=> u_pc \in {"join", "done"},
         t_pc' \in [Thread -> ThreadPC],
         \A t \in Thread : t_pc'[t] \in {"proc", "after"} <=> t_pc[t] \in {"proc", "after"}
  PROVE  PoolInv'
<1>1. TypeOK'
  BY DEF PoolInv, TypeOK
<1>2. ReleasedOnce'
  BY DEF PoolInv, ReleasedOnce
<1>3. InOnePlace'
  BY DEF PoolInv, InOnePlace
<1> QED
  BY <1>1, <1>2, <1>3 DEF PoolInv

\* A thread that takes the head of the queue moves it to its element.
LEMMA PoolPop ==
  ASSUME PoolInv, NEW t \in Thread, Pop(t)
  PROVE  PoolInv'
<1>0. /\ TypeOK /\ ReleasedOnce /\ InOnePlace
      /\ queue \in Seq(Job) /\ queue # <<>> /\ queue # NULL
      /\ queue' = Tail(queue) /\ element' = [element EXCEPT ![t] = Head(queue)]
      /\ t_pc' = [t_pc EXCEPT ![t] = "proc"]
      /\ UNCHANGED <<exit_sem, u_pc, released, crashed>>
  BY DEF PoolInv, TypeOK, Pop, Goto
<1>1. /\ Head(queue) = queue[1] /\ Head(queue) \in Job /\ 1 \in DOMAIN queue
      /\ queue' \in Seq(Job) /\ queue' # NULL
      /\ \A i \in DOMAIN queue' :
           i + 1 \in DOMAIN queue /\ i + 1 # 1 /\ queue'[i] = queue[i + 1]
  BY <1>0, TailOfQueue, PoolAssumption
<1>2. TypeOK'
  BY <1>0, <1>1, PoolAssumption DEF TypeOK, ThreadPC
<1>3. ReleasedOnce'
  BY <1>0, <1>1 DEF ReleasedOnce, TypeOK
<1>4. InOnePlace'
  <2>1. ASSUME NEW i \in DOMAIN queue', NEW k \in DOMAIN queue', queue'[i] = queue'[k]
        PROVE  i = k
    <3>1. i \in Nat /\ k \in Nat
      BY <1>1
    <3> QED
      BY <1>0, <1>1, <2>1, <3>1 DEF InOnePlace
  <2>2. ASSUME NEW i \in DOMAIN queue', NEW u \in Thread
        PROVE  queue'[i] # element'[u]
    BY <1>0, <1>1 DEF InOnePlace, TypeOK
  <2>3. ASSUME NEW u \in Thread, NEW v \in Thread,
               element'[u] = element'[v], element'[u] # NoJob
        PROVE  u = v
    BY <1>0, <1>1, <2>3 DEF InOnePlace, TypeOK
  <2> QED
    BY <2>1, <2>2, <2>3 DEF InOnePlace
<1> QED
  BY <1>2, <1>3, <1>4 DEF PoolInv

\* A thread that has finished releases its task, which nobody else holds.
LEMMA PoolAfter ==
  ASSUME PoolInv, NEW t \in Thread, AfterProc(t)
  PROVE  PoolInv'
<1>0. /\ TypeOK /\ ReleasedOnce /\ InOnePlace
      /\ element[t] \in Job /\ released[element[t]] = 0
      /\ element' = [element EXCEPT ![t] = NoJob]
      /\ released' = [released EXCEPT ![element[t]] = @ + 1]
      /\ t_pc' = [t_pc EXCEPT ![t] = "trywait"]
      /\ UNCHANGED <<exit_sem, queue, u_pc, crashed>>
  BY DEF PoolInv, TypeOK, ReleasedOnce, AfterProc, Goto
<1>2. TypeOK'
  BY <1>0, PoolAssumption DEF TypeOK, ThreadPC
<1>3. ReleasedOnce'
  BY <1>0, PoolAssumption DEF ReleasedOnce, TypeOK, InOnePlace
<1>4. InOnePlace'
  <2>1. queue # NULL => \A i \in DOMAIN queue : queue[i] \in Job
    BY <1>0 DEF TypeOK
  <2> QED
    BY <1>0, <2>1, PoolAssumption DEF InOnePlace, TypeOK
<1> QED
  BY <1>2, <1>3, <1>4 DEF PoolInv

\* A push adds a task that is nowhere else.
LEMMA PoolPush ==
  ASSUME PoolInv, NEW j \in Job, threadpool_push_work(j)
  PROVE  PoolInv'
<1>0. /\ TypeOK /\ ReleasedOnce /\ InOnePlace /\ Unused(j)
      /\ queue \in Seq(Job) /\ queue # NULL
      /\ queue' = Append(queue, j) /\ t_pc' = Woken
      /\ UNCHANGED <<exit_sem, element, u_pc, released, crashed>>
  BY DEF PoolInv, TypeOK, threadpool_push_work
<1>1. /\ queue' \in Seq(Job) /\ queue' # NULL /\ queue' # <<>>
      /\ \A i \in DOMAIN queue' :
           \/ i \in DOMAIN queue /\ queue'[i] = queue[i]
           \/ i = Len(queue) + 1 /\ queue'[i] = j
  BY <1>0, PoolAssumption
<1>2. TypeOK'
  <2>1. t_pc' \in [Thread -> ThreadPC]
    BY <1>0 DEF TypeOK, Woken, ThreadPC
  <2>2. \A t \in Thread : t_pc'[t] \in {"proc", "after"} <=> t_pc[t] \in {"proc", "after"}
    BY <1>0 DEF TypeOK, Woken, ThreadPC
  <2> QED
    BY <1>0, <1>1, <2>1, <2>2 DEF TypeOK
<1>3. ReleasedOnce'
  BY <1>0, <1>1 DEF ReleasedOnce, Unused
<1>4. InOnePlace'
  <2>1. ASSUME NEW i \in DOMAIN queue', NEW k \in DOMAIN queue', queue'[i] = queue'[k]
        PROVE  i = k
    BY <1>0, <1>1, <2>1 DEF InOnePlace, Unused
  <2>2. ASSUME NEW i \in DOMAIN queue', NEW u \in Thread
        PROVE  queue'[i] # element'[u]
    BY <1>0, <1>1 DEF InOnePlace, Unused
  <2> QED
    BY <1>0, <2>1, <2>2 DEF InOnePlace
<1> QED
  BY <1>2, <1>3, <1>4 DEF PoolInv

\* The shutdown releases what is in the queue, every task there once.
LEMMA PoolClear ==
  ASSUME PoolInv, CancelClear
  PROVE  PoolInv'
<1>0. /\ TypeOK /\ ReleasedOnce /\ InOnePlace
      /\ queue \in Seq(Job) /\ queue # NULL
      /\ queue' = NULL /\ t_pc' = Woken /\ u_pc' = "join"
      /\ released' = [j \in Job |-> released[j] + Cardinality(PlacesOf(j))]
      /\ UNCHANGED <<exit_sem, element, crashed>>
  BY DEF PoolInv, TypeOK, CancelClear, easy_queue_clear, PlacesOf
<1>1. \A j \in Job : /\ PlacesOf(j) = {} => Cardinality(PlacesOf(j)) = 0
                     /\ PlacesOf(j) # {} => Cardinality(PlacesOf(j)) = 1
  BY <1>0, PlacesCounted DEF InOnePlace
<1>2. TypeOK'
  <2>1. t_pc' \in [Thread -> ThreadPC]
    BY <1>0 DEF TypeOK, Woken, ThreadPC
  <2>2. \A t \in Thread : t_pc'[t] \in {"proc", "after"} <=> t_pc[t] \in {"proc", "after"}
    BY <1>0 DEF TypeOK, Woken, ThreadPC
  <2>3. released' \in [Job -> Nat]
    <3>1. ASSUME NEW j \in Job PROVE released[j] + Cardinality(PlacesOf(j)) \in Nat
      BY <1>0, <1>1 DEF TypeOK
    <3> QED
      BY <1>0, <3>1
  <2> QED
    BY <1>0, <2>1, <2>2, <2>3 DEF TypeOK, UninitPC
<1>3. ReleasedOnce'
  <2> SUFFICES ASSUME NEW j \in Job
               PROVE  /\ released'[j] <= 1
                      /\ \A t \in Thread : element[t] = j => released'[j] = 0
    BY <1>0 DEF ReleasedOnce
  <2>1. CASE PlacesOf(j) = {}
    BY <2>1, <1>0, <1>1 DEF ReleasedOnce, TypeOK
  <2>2. CASE PlacesOf(j) # {}
    <3>1. PICK i \in DOMAIN queue : queue[i] = j
      BY <2>2 DEF PlacesOf
    <3>2. released[j] = 0 /\ \A t \in Thread : element[t] # j
      BY <1>0, <3>1 DEF ReleasedOnce, InOnePlace
    <3> QED
      BY <3>2, <2>2, <1>0, <1>1
  <2> QED
    BY <2>1, <2>2
<1>4. InOnePlace'
  BY <1>0 DEF InOnePlace
<1> QED
  BY <1>2, <1>3, <1>4 DEF PoolInv

\* Every step keeps the invariant.
LEMMA PoolNext == PoolInv /\ [Next]_vars => PoolInv'
<1> SUFFICES ASSUME PoolInv, [Next]_vars PROVE PoolInv'
  OBVIOUS
<1>0. TypeOK
  BY DEF PoolInv
<1>1. CASE UNCHANGED vars
  BY <1>0, <1>1, PoolQuiet DEF vars, TypeOK
<1>2. CASE Push
  <2>1. CASE PushFreed
    BY <2>1, <1>0, PoolQuiet DEF PushFreed, TypeOK
  <2> QED
    BY <1>2, <2>1, PoolPush DEF Push
<1>3. CASE Uninit
  <2>1. CASE CancelPost
    BY <2>1, <1>0, PoolQuiet DEF CancelPost, TypeOK, UninitPC
  <2>2. CASE CancelJoin
    BY <2>2, <1>0, PoolQuiet DEF CancelJoin, TypeOK, UninitPC
  <2> QED
    BY <1>3, <2>1, <2>2, PoolClear DEF Uninit, threadpool_uninit
<1>4. ASSUME NEW t \in Thread, Run(t) \/ Wakeup(t) PROVE PoolInv'
  <2>1. CASE TryWait(t)
    BY <2>1, <1>0, PoolQuiet DEF TryWait, Goto, TypeOK, ThreadPC
  <2>2. CASE Leave(t)
    BY <2>2, <1>0, PoolQuiet DEF Leave, Goto, TypeOK, ThreadPC
  <2>3. CASE PopEmpty(t)
    BY <2>3, <1>0, PoolQuiet DEF PopEmpty, Goto, TypeOK, ThreadPC
  <2>4. CASE PopFreed(t)
    BY <2>4, <1>0, PoolQuiet DEF PopFreed, TypeOK
  <2>5. CASE SpuriousWakeup(t)
    BY <2>5, <1>0, PoolQuiet DEF SpuriousWakeup, Goto, TypeOK, ThreadPC
  <2>6. CASE Proc(t)
    BY <2>6, <1>0, PoolQuiet DEF Proc, Goto, TypeOK, ThreadPC
  <2> QED
    BY <1>4, <2>1, <2>2, <2>3, <2>4, <2>5, <2>6, PoolPop, PoolAfter
       DEF Run, Wakeup, thread_func
<1> QED
  BY <1>1, <1>2, <1>3, <1>4 DEF Next

\* The invariant holds throughout.
LEMMA PoolAlways == Spec => []PoolInv
BY PoolInit, PoolNext, PTL DEF Spec

-----------------------------------------------------------------------------

\* The pool's state and the locals of its threads always have their types; a
\* thread holds a task exactly from the pop to the end of after_proc, and the
\* queue is there exactly until the shutdown has cleared it.
THEOREM PoolTypeCorrect == Spec => []TypeOK
BY PoolAlways, PTL DEF PoolInv

\* after_proc frees no task twice, and none that waits or runs, whatever the order
\* of the threads, the pushes and the shutdown.
THEOREM TasksReleasedOnce == Spec => []ReleasedOnce
BY PoolAlways, PTL DEF PoolInv

\* A push and the shutdown wake everybody, so no thread sleeps on.
LEMMA SleepNext == TypeOK /\ SleepOnlyWhenEmpty /\ [Next]_vars => SleepOnlyWhenEmpty'
<1> SUFFICES ASSUME TypeOK, SleepOnlyWhenEmpty, [Next]_vars
             PROVE  SleepOnlyWhenEmpty'
  OBVIOUS
<1>0. t_pc \in [Thread -> ThreadPC]
  BY DEF TypeOK
<1>1. CASE UNCHANGED vars
  BY <1>1 DEF vars, SleepOnlyWhenEmpty
<1>2. CASE Push
  BY <1>0, <1>2 DEF Push, PushFreed, threadpool_push_work, Woken, SleepOnlyWhenEmpty
<1>3. CASE Uninit
  BY <1>0, <1>3 DEF Uninit, threadpool_uninit, CancelPost, CancelClear, CancelJoin,
                    Woken, SleepOnlyWhenEmpty
<1>4. ASSUME NEW t \in Thread, Run(t) \/ Wakeup(t) PROVE SleepOnlyWhenEmpty'
  <2>1. CASE Pop(t)
    BY <2>1, <1>0 DEF Pop, Goto, SleepOnlyWhenEmpty
  <2>2. CASE PopEmpty(t)
    BY <2>2, <1>0 DEF PopEmpty, Goto, SleepOnlyWhenEmpty
  <2>3. CASE TryWait(t) \/ Leave(t) \/ PopFreed(t)
    BY <2>3, <1>0 DEF TryWait, Leave, PopFreed, Goto, SleepOnlyWhenEmpty
  <2>4. CASE SpuriousWakeup(t) \/ Proc(t) \/ AfterProc(t)
    BY <2>4, <1>0 DEF SpuriousWakeup, Proc, AfterProc, Goto, SleepOnlyWhenEmpty
  <2> QED
    BY <1>4, <2>1, <2>2, <2>3, <2>4 DEF Run, Wakeup, thread_func
<1> QED
  BY <1>1, <1>2, <1>3, <1>4 DEF Next

\* A thread sleeps in uv_cond_wait only while the queue is empty: a push and the
\* shutdown wake everybody under the mutex the thread tested the queue under.
THEOREM NoPoolWakeupLost == Spec => []SleepOnlyWhenEmpty
<1>1. Init => SleepOnlyWhenEmpty
  BY DEF Init, threadpool_init, SleepOnlyWhenEmpty
<1> QED
  BY <1>1, SleepNext, PoolTypeCorrect, PTL DEF Spec

\* Only a push makes the queue longer.
LEMMA BoundNext == TypeOK /\ QueueBound /\ [Next]_vars => QueueBound'
<1> SUFFICES ASSUME TypeOK, QueueBound, [Next]_vars
             PROVE  QueueBound'
  OBVIOUS
<1>1. CASE UNCHANGED queue
  BY <1>1 DEF QueueBound
<1>2. ASSUME NEW j \in Job, threadpool_push_work(j) PROVE QueueBound'
  <2>1. queue \in Seq(Job) /\ Len(queue) <= LIMIT /\ queue' = Append(queue, j)
    BY <1>2 DEF TypeOK, threadpool_push_work
  <2> QED
    BY <2>1, PoolAssumption DEF QueueBound
<1>3. ASSUME NEW t \in Thread, Pop(t) PROVE QueueBound'
  <2>1. queue \in Seq(Job) /\ queue # <<>> /\ queue' = Tail(queue) /\ queue # NULL
    BY <1>3 DEF TypeOK, Pop
  <2>2. Len(queue') <= Len(queue) /\ Len(queue) \in Nat /\ Len(queue') \in Nat
    BY <2>1
  <2> QED
    BY <2>1, <2>2, PoolAssumption DEF QueueBound
<1>4. CASE CancelClear
  BY <1>4 DEF CancelClear, QueueBound
<1>5. \/ UNCHANGED queue
      \/ \E j \in Job : threadpool_push_work(j)
      \/ \E t \in Thread : Pop(t)
      \/ CancelClear
  BY DEF Next, vars, Push, PushFreed, Uninit, threadpool_uninit, CancelPost, CancelJoin,
         Run, Wakeup, thread_func, TryWait, Leave, PopEmpty, PopFreed, SpuriousWakeup,
         Proc, AfterProc
<1> QED
  BY <1>1, <1>2, <1>3, <1>4, <1>5

\* threadpool_push_work looks at the size before it pushes, so the queue holds at
\* most one task more than the limit.
THEOREM PoolBounded == Spec => []QueueBound
<1>1. Init => QueueBound
  BY PoolAssumption DEF Init, threadpool_init, QueueBound
<1> QED
  BY <1>1, BoundNext, PoolTypeCorrect, PTL DEF Spec

-----------------------------------------------------------------------------
(* The pool implements WorkPool. *)

\* The initial states correspond.
LEMMA PoolInitMaps == Init => Pool!Init
<1> SUFFICES ASSUME Init PROVE Pool!Init
  OBVIOUS
<1>1. (IF queue = NULL THEN <<>> ELSE queue) = <<>> /\ (queue = NULL) = FALSE
  BY PoolInit DEF Init, threadpool_init, PoolInv, TypeOK
<1>2. {j \in Job : released[j] > 0} = {}
  BY DEF Init, threadpool_init
<1>3. element = [t \in Thread |-> NoJob]
  BY DEF Init, threadpool_init
<1> QED
  BY <1>1, <1>2, <1>3 DEF Pool!Init

\* A push is Submit.
LEMMA PushMaps ==
  ASSUME PoolInv, NEW j \in Job, threadpool_push_work(j)
  PROVE  Pool!Submit(j)
<1>0. /\ queue \in Seq(Job) /\ queue # NULL /\ Len(queue) <= LIMIT
      /\ queue' = Append(queue, j) /\ queue' # NULL
      /\ Unused(j)
      /\ UNCHANGED <<element, released>>
  <2>1. queue \in Seq(Job) /\ queue' = Append(queue, j)
    BY DEF PoolInv, TypeOK, threadpool_push_work
  <2>2. queue' \in Seq(Job)
    BY <2>1
  <2> QED
    BY <2>1, <2>2, PoolAssumption DEF threadpool_push_work
<1>1. Pool!Fresh(j)
  BY <1>0 DEF Pool!Fresh, Pool!Waiting, Unused
<1> QED
  BY <1>0, <1>1 DEF Pool!Submit

\* A pop is Take.
LEMMA PopMaps ==
  ASSUME PoolInv, NEW t \in Thread, Pop(t)
  PROVE  Pool!Take(t)
<1>0. /\ queue \in Seq(Job) /\ queue # NULL /\ queue # <<>>
      /\ queue' = Tail(queue) /\ queue' # NULL
      /\ element[t] = NoJob /\ element' = [element EXCEPT ![t] = Head(queue)]
      /\ UNCHANGED released
  <2>1. queue \in Seq(Job) /\ queue # <<>> /\ queue' = Tail(queue)
    BY DEF PoolInv, TypeOK, Pop
  <2>2. queue' \in Seq(Job)
    BY <2>1
  <2>3. element[t] = NoJob
    BY DEF PoolInv, TypeOK, Pop
  <2> QED
    BY <2>1, <2>2, <2>3, PoolAssumption DEF Pop
<1> QED
  BY <1>0 DEF Pool!Take

\* after_proc is Finish.
LEMMA AfterMaps ==
  ASSUME PoolInv, NEW t \in Thread, AfterProc(t)
  PROVE  Pool!Finish(t)
<1>0. /\ element[t] \in Job /\ released[element[t]] = 0 /\ released \in [Job -> Nat]
      /\ element' = [element EXCEPT ![t] = NoJob]
      /\ released' = [released EXCEPT ![element[t]] = @ + 1]
      /\ UNCHANGED queue
  BY DEF PoolInv, TypeOK, ReleasedOnce, AfterProc
<1>1. {j \in Job : released'[j] > 0} = {j \in Job : released[j] > 0} \cup {element[t]}
  BY <1>0
<1>2. element[t] \notin {j \in Job : released[j] > 0} \cup {NoJob}
  BY <1>0, PoolAssumption
<1> QED
  BY <1>0, <1>1, <1>2 DEF Pool!Finish

\* Clearing the queue is Shut.
LEMMA ClearMaps ==
  ASSUME PoolInv, CancelClear
  PROVE  Pool!Shut
<1>0. /\ queue \in Seq(Job) /\ queue # NULL /\ queue' = NULL
      /\ released \in [Job -> Nat]
      /\ released' = [j \in Job |-> released[j] + Cardinality(PlacesOf(j))]
      /\ UNCHANGED element
  BY DEF PoolInv, TypeOK, CancelClear, easy_queue_clear, PlacesOf
<1>1. \A j \in Job : /\ PlacesOf(j) = {} => Cardinality(PlacesOf(j)) = 0
                     /\ PlacesOf(j) # {} => Cardinality(PlacesOf(j)) = 1
  BY <1>0, PlacesCounted DEF PoolInv, InOnePlace
<1>2. Pool!Waiting = {j \in Job : PlacesOf(j) # {}}
  <2>1. Pool!Waiting = {queue[i] : i \in DOMAIN queue}
    BY <1>0 DEF Pool!Waiting
  <2>2. \A i \in DOMAIN queue : queue[i] \in Job
    BY <1>0
  <2> QED
    BY <2>1, <2>2 DEF PlacesOf
<1>3. \A j \in Job : released'[j] > 0 <=> released[j] > 0 \/ PlacesOf(j) # {}
  <2> TAKE j \in Job
  <2>1. released'[j] = released[j] + Cardinality(PlacesOf(j)) /\ released[j] \in Nat
    BY <1>0
  <2> QED
    BY <2>1, <1>1
<1>4. {j \in Job : released'[j] > 0} = {j \in Job : released[j] > 0} \cup Pool!Waiting
  BY <1>2, <1>3
<1>5. Pool!Waiting \cap {j \in Job : released[j] > 0} = {}
  BY <1>0, <1>2 DEF PlacesOf, PoolInv, ReleasedOnce
<1> QED
  BY <1>0, <1>4, <1>5 DEF Pool!Shut

\* Every step of the pool is a step of WorkPool or leaves its state alone.
LEMMA PoolStepMaps == PoolInv /\ [Next]_vars => [Pool!Next]_(Pool!vars)
<1> SUFFICES ASSUME PoolInv, [Next]_vars PROVE [Pool!Next]_(Pool!vars)
  OBVIOUS
<1>1. CASE UNCHANGED <<queue, element, released>>
  BY <1>1 DEF Pool!vars
<1>2. \/ UNCHANGED <<queue, element, released>>
      \/ \E j \in Job : threadpool_push_work(j)
      \/ \E t \in Thread : Pop(t) \/ AfterProc(t)
      \/ CancelClear
  BY DEF Next, vars, Push, PushFreed, Uninit, threadpool_uninit, CancelPost, CancelJoin,
         Run, Wakeup, thread_func, TryWait, Leave, PopEmpty, PopFreed, SpuriousWakeup, Proc
<1> QED
  BY <1>1, <1>2, PushMaps, PopMaps, AfterMaps, ClearMaps DEF Pool!Next

\* threadpool.c keeps the promise of a work pool: accepted tasks are taken in order,
\* each by one thread, and released once; the shutdown releases the rest.
THEOREM PoolImplements == Spec => ImplementsWorkPool
<1>1. Spec => Pool!Spec
  BY PoolInitMaps, PoolStepMaps, PoolAlways, PTL DEF Spec, Pool!Spec
<1> QED
  BY <1>1 DEF ImplementsWorkPool
=============================================================================
