------------------------------- MODULE GQueue -------------------------------
(***************************************************************************)
(* The queue of src/third/queue/Gqueue.c, which holds the thread pool's    *)
(* tasks: a doubly linked list behind a head node that carries no data,    *)
(* with a pointer to its last node and a count.  Nodes are taken from and  *)
(* given back to malloc.  The thread pool holds its mutex around every     *)
(* call, so the calls follow each other; easy_queue_clear is taken apart   *)
(* where it calls the user's handler.                                      *)
(***************************************************************************)
EXTENDS Integers, Sequences, FiniteSets

CONSTANTS
  Node,      \* bound: what malloc can return for a node
  NULL,      \* the null pointer
  Payload,   \* contents of an element
  NoItem,    \* the data pointer of the head node
  DataLen,   \* lengths of the elements that are pushed
  BufLen     \* lengths of the buffers passed to easy_queue_pop, 0 for no buffer

ASSUME QueueAssumption ==
  /\ NULL \notin Node /\ IsFiniteSet(Node)
  /\ DataLen \subseteq Nat \ {0} /\ BufLen \subseteq Nat

\* An element, with its length: data and datalen of a node.
Element == Payload \X DataLen

NodeValue == [data : Element \cup {NoItem}, prev : Node \cup {NULL}, next : Node \cup {NULL}]

VARIABLES
  alloc,    \* the nodes malloc has given out
  mem,      \* their contents
  head,     \* queue_head
  tail,     \* queue_tail
  size,     \* size
  cursor,   \* local variable of easy_queue_clear
  pc,       \* "open", "clearing", "cleared" or "gone"
  result    \* what the last operation returned and gave out

vars == <<alloc, mem, head, tail, size, cursor, pc, result>>

\* Return value, data copied to the caller or shown to user_handler, its length,
\* and the length of the caller's buffer.
Result(r, x, n, buflen) == [ret |-> r, item |-> x, len |-> n, room |-> buflen]

\* The content of a freed node must not matter; this stands for all of them.
Blank == [data |-> NoItem, prev |-> NULL, next |-> NULL]


easy_queue_init ==
  /\ head \in Node
  /\ tail = head
  /\ alloc = {head}
  /\ mem = [p \in Node |-> Blank]
  /\ size = 0
  /\ cursor = NULL
  /\ pc = "open"
  /\ result = Result(0, NoItem, 0, 0)

-----------------------------------------------------------------------------

easy_queue_push(p, x) ==
  /\ pc = "open"
  /\ p \in Node \ alloc
  /\ alloc' = alloc \cup {p}
  /\ mem' = [mem EXCEPT ![p] = [data |-> x, prev |-> tail, next |-> NULL],
                        ![tail].next = p]
  /\ tail' = p
  /\ size' = size + 1
  /\ result' = Result(0, NoItem, 0, 0)
  /\ UNCHANGED <<head, cursor, pc>>

First == mem[head].next

\* Mutant: only a buffer without any room is refused.
FitsAlmost(buflen) == buflen > 0

Fits(buflen) == mem[First].data[2] <= buflen

\* Nothing there, or a buffer that is too small: the length is reported.
PopRefused(buflen) ==
  /\ pc = "open"
  /\ First # NULL => ~ Fits(buflen)
  /\ result' = Result(-1, NoItem, IF First = NULL THEN 0 ELSE mem[First].data[2], buflen)
  /\ UNCHANGED <<alloc, mem, head, tail, size, cursor, pc>>

\* Mutant: the second node still points back to the one that is freed.
UnlinkedPrevKept(m) == [m EXCEPT ![head].next = m[First].next, ![First] = Blank]

\* The list after its first node has been taken out and freed.
Unlinked(m) ==
  LET n == m[First].next
      l == [m EXCEPT ![head].next = n, ![First] = Blank]
  IN  IF n = NULL THEN l ELSE [l EXCEPT ![n].prev = head]

\* Mutant: the node that was last stays the tail.
TailKept == tail

\* A list without elements ends with its head.
TailWithoutFirst == IF mem[First].next = NULL THEN head ELSE tail

\* Mutant: the node is not freed.
NotFreed == alloc

WithoutFirst == alloc \ {First}

Pop(buflen) ==
  /\ pc = "open"
  /\ First # NULL
  /\ Fits(buflen)
  /\ result' = Result(0, mem[First].data, mem[First].data[2], buflen)
  /\ mem' = Unlinked(mem)
  /\ tail' = TailWithoutFirst
  /\ alloc' = WithoutFirst
  /\ size' = size - 1
  /\ UNCHANGED <<head, cursor, pc>>

easy_queue_pop(buflen) == PopRefused(buflen) \/ Pop(buflen)

-----------------------------------------------------------------------------
(* easy_queue_clear, from the tail to the head *)

ClearBegin ==
  /\ pc = "open"
  /\ pc' = "clearing"
  /\ UNCHANGED <<alloc, mem, head, tail, size, cursor, result>>

\* The last node leaves the list and is shown to user_handler.
ClearLast ==
  /\ pc = "clearing"
  /\ cursor = NULL
  /\ tail # head
  /\ cursor' = tail
  /\ tail' = mem[tail].prev
  /\ mem' = [mem EXCEPT ![mem[tail].prev].next = NULL]
  /\ result' = Result(0, mem[tail].data, mem[tail].data[2], 0)
  /\ UNCHANGED <<alloc, head, size, pc>>

\* Mutant: size is not counted down.
ClearFreeKeepsSize ==
  /\ pc = "clearing"
  /\ cursor # NULL
  /\ alloc' = alloc \ {cursor}
  /\ mem' = [mem EXCEPT ![cursor] = Blank]
  /\ cursor' = NULL
  /\ UNCHANGED <<size, head, tail, pc, result>>

\* Then it is freed.
ClearFree ==
  /\ pc = "clearing"
  /\ cursor # NULL
  /\ alloc' = alloc \ {cursor}
  /\ mem' = [mem EXCEPT ![cursor] = Blank]
  /\ cursor' = NULL
  /\ size' = size - 1
  /\ UNCHANGED <<head, tail, pc, result>>

ClearEnd ==
  /\ pc = "clearing"
  /\ cursor = NULL
  /\ tail = head
  /\ pc' = "cleared"
  /\ UNCHANGED <<alloc, mem, head, tail, size, cursor, result>>

easy_queue_clear == ClearBegin \/ ClearLast \/ ClearFree \/ ClearEnd

\* Only the head is freed: the pool calls this after easy_queue_clear.
easy_queue_uninit ==
  /\ pc = "cleared"
  /\ alloc' = alloc \ {head}
  /\ mem' = [mem EXCEPT ![head] = Blank]
  /\ pc' = "gone"
  /\ UNCHANGED <<head, tail, size, cursor, result>>

-----------------------------------------------------------------------------

Next ==
  \/ \E p \in Node, x \in Element : easy_queue_push(p, x)
  \/ \E buflen \in BufLen : easy_queue_pop(buflen)
  \/ easy_queue_clear
  \/ easy_queue_uninit

Init == easy_queue_init

Spec == Init /\ [][Next]_vars

\* A loop that has begun goes on.  Nobody needs to call the queue.
FairSpec == Spec /\ WF_vars(ClearLast \/ ClearFree \/ ClearEnd)

-----------------------------------------------------------------------------
(* Properties *)

\* Pointers point to nodes, the two of the queue to nodes that are not freed, and
\* the counter counts.
TypeOK ==
  /\ alloc \subseteq Node
  /\ mem \in [Node -> NodeValue]
  /\ head \in Node /\ tail \in Node /\ cursor \in Node \cup {NULL}
  /\ size \in Nat
  /\ pc \in {"open", "clearing", "cleared", "gone"}
  /\ pc # "gone" => {head, tail} \subseteq alloc

\* The nodes from the head h on, as far as the next pointers of m lead.
ChainOf(m, h) ==
  LET walk[n \in Nat] ==
        IF n = 0 THEN <<h>>
        ELSE LET w == walk[n - 1]
                 p == m[w[Len(w)]].next
             IN  IF p = NULL THEN w ELSE Append(w, p)
  IN  walk[Cardinality(Node)]

Chain == ChainOf(mem, head)

\* The elements the list holds.
Contents == [i \in 1 .. Len(Chain) - 1 |-> mem[Chain[i + 1]].data]

(***************************************************************************)
(* Whatever pushes, pops and refused pops came before, and also when the   *)
(* handler is called from inside easy_queue_clear: the next pointers lead  *)
(* from the head to queue_tail, the prev pointers lead back, and the size  *)
(* is the number of nodes that are not freed yet.                          *)
(***************************************************************************)
ListSound ==
  pc # "gone" =>
    /\ Chain[Len(Chain)] = tail
    /\ \A i \in 2 .. Len(Chain) : mem[Chain[i]].prev = Chain[i - 1]
    /\ size = Len(Chain) - 1 + Cardinality({cursor} \ {NULL})

\* The allocated nodes are those of the list and the one that is being cleared:
\* nothing in the list has been freed, and no node is lost.
NothingLeaked ==
  alloc = IF pc = "gone" THEN {}
          ELSE {Chain[i] : i \in DOMAIN Chain} \cup ({cursor} \ {NULL})

\* The assertion at the end of easy_queue_clear, and that the loop gets there.
ClearEnds == pc = "clearing" ~> (pc # "clearing" /\ size = 0)

LengthOf(x) == x[2]

\* The head has been freed with the queue.
Held == IF pc = "gone" THEN <<>> ELSE Contents

Queue == INSTANCE Fifo WITH
  Item <- Element, Size <- LengthOf, Room <- BufLen, items <- Held

\* The linked list is a first-in-first-out queue of the elements.
ImplementsFifo == Queue!Spec
=============================================================================
