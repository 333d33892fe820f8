---------------------------- MODULE GQueueProofs ----------------------------
(***************************************************************************)
(* Proofs about the linked list of GQueue, for every number of nodes and   *)
(* every sequence of calls: the pointers always describe one list from the *)
(* head to queue_tail, nothing is leaked or freed too early, and the list  *)
(* behaves like the abstract queue Fifo.                                   *)
(*                                                                         *)
(* Chain, the nodes the next pointers lead to, is a recursive function.    *)
(* LeastNat is what replaces induction over it: if two walks along the     *)
(* list differed, they would differ at a least step.                       *)
(***************************************************************************)
EXTENDS GQueue, FiniteSetTheorems, WellFoundedInduction, SequenceTheorems, TLAPS

\* Every set of natural numbers that is not empty has a least member.
LEMMA LeastNat ==
  ASSUME NEW T \in SUBSET Nat, T # {}
  PROVE  \E x \in T : \A y \in T : x <= y
<1> DEFINE R    == OpToRel(<, Nat)
           Less == {ss \in Nat \X Nat : ss[1] < ss[2]}
<1>1. R = Less
  BY DEF OpToRel
<1>2. IsWellFoundedOn(R, Nat)
  BY NatLessThanWellFounded
<1> HIDE DEF R
<1>3. \E x \in T : \A y \in T : ~ (<<y, x>> \in R)
  BY <1>2, WFMin
<1>4. ASSUME NEW x \in Nat, NEW y \in Nat, ~ (<<y, x>> \in Less)
      PROVE  x <= y
  <2>1. <<y, x>> \in Nat \X Nat /\ <<y, x>>[1] = y /\ <<y, x>>[2] = x
    OBVIOUS
  <2>2. ~ (y < x)
    BY <2>1, <1>4
  <2> QED
    BY <2>2
<1> HIDE DEF Less
<1>5. PICK x \in T : \A y \in T : ~ (<<y, x>> \in Less)
  BY <1>3, <1>1
<1>6. \A y \in T : x <= y
  BY <1>5, <1>4
<1> QED
  BY <1>6

-----------------------------------------------------------------------------
(* The chain of next pointers *)

\* s lists, without repetition, the nodes from h to the one that has no next.
Linked(m, h, s) ==
  /\ s \in Seq(Node)
  /\ Len(s) >= 1
  /\ s[1] = h
  /\ \A i \in 1 .. Len(s) - 1 : m[s[i]].next = s[i + 1]
  /\ m[s[Len(s)]].next = NULL
  /\ \A i, j \in 1 .. Len(s) : s[i] = s[j] => i = j

\* One more step along the next pointers of m, after the walk w.
Further(m, w) ==
  LET p == m[w[Len(w)]].next IN IF p = NULL THEN w ELSE Append(w, p)

\* The equation ChainOf's walk satisfies: f[n] is the walk of n steps from h.
IsWalk(m, h, f) == f = [n \in Nat |-> IF n = 0 THEN <<h>> ELSE Further(m, f[n - 1])]

\* The equation of ChainOf's walk determines the walk.
LEMMA WalkUnique ==
  ASSUME NEW m, NEW h, NEW f, NEW g, IsWalk(m, h, f), IsWalk(m, h, g)
  PROVE  f = g
<1> USE DEF IsWalk
<1> DEFINE T == {n \in Nat : f[n] # g[n]}
<1>1. ASSUME T # {} PROVE FALSE
  <2>1. T \in SUBSET Nat
    OBVIOUS
  <2>2. PICK k \in T : \A y \in T : k <= y
    <3> HIDE DEF T
    <3> QED BY <1>1, <2>1, LeastNat
  <2>3. k \in Nat /\ f[k] # g[k]
    BY <2>2
  <2>4. CASE k = 0
    <3>1. f[0] = <<h>> /\ g[0] = <<h>>
      OBVIOUS
    <3> QED BY <3>1, <2>4, <2>3
  <2>5. CASE k # 0
    <3>1. k - 1 \in Nat /\ ~ (k <= k - 1)
      BY <2>3, <2>5
    <3>2. f[k - 1] = g[k - 1]
      BY <2>2, <3>1
    <3>3. f[k] = Further(m, f[k - 1]) /\ g[k] = Further(m, g[k - 1])
      BY <2>3, <2>5
    <3> QED BY <3>2, <3>3, <2>3
  <2> QED
    BY <2>4, <2>5
<1>2. \A n \in Nat : f[n] = g[n]
  BY <1>1
<1>3. DOMAIN f = Nat /\ DOMAIN g = Nat
  OBVIOUS
<1>4. f = [n \in Nat |-> f[n]] /\ g = [n \in Nat |-> g[n]]
  OBVIOUS
<1> QED
  BY <1>2, <1>4

\* The first k members of a list are the walk of k - 1 steps.
LEMMA WalkStep ==
  ASSUME NEW m, NEW h, NEW s, Linked(m, h, s), NEW k \in Nat, k >= 1, QueueAssumption
  PROVE  LET Upto(n) == [i \in 1 .. n |-> s[i]]
         IN  Further(m, Upto(IF k <= Len(s) THEN k ELSE Len(s)))
               = Upto(IF k + 1 <= Len(s) THEN k + 1 ELSE Len(s))
<1> DEFINE Upto(n) == [i \in 1 .. n |-> s[i]]
<1>0. /\ s \in Seq(Node)
      /\ Len(s) \in Nat /\ Len(s) >= 1
      /\ \A i \in 1 .. Len(s) - 1 : m[s[i]].next = s[i + 1]
      /\ m[s[Len(s)]].next = NULL
      /\ \A i \in 1 .. Len(s) : s[i] \in Node
  BY DEF Linked
<1>1. ASSUME NEW n \in 1 .. Len(s)
      PROVE  Upto(n) \in Seq(Node) /\ Len(Upto(n)) = n /\ Upto(n)[n] = s[n]
  <2>1. Upto(n) \in [1 .. n -> Node]
    BY <1>0
  <2>2. n \in Nat
    BY <1>0
  <2> QED BY <2>1, <2>2
<1>2. CASE k + 1 <= Len(s)
  <2>1. k \in 1 .. Len(s) /\ k \in 1 .. Len(s) - 1 /\ k + 1 \in 1 .. Len(s)
    BY <1>2, <1>0
  <2>2. m[s[k]].next = s[k + 1] /\ s[k + 1] # NULL
    BY <2>1, <1>0 DEF QueueAssumption
  <2>3. Further(m, Upto(k)) = Append(Upto(k), s[k + 1])
    <3> HIDE DEF Upto
    <3> QED BY <2>1, <2>2, <1>1 DEF Further
  <2>4. Append(Upto(k), s[k + 1]) = Upto(k + 1)
    <3>1. /\ Append(Upto(k), s[k + 1]) \in Seq(Node)
          /\ Upto(k + 1) \in Seq(Node)
          /\ Len(Append(Upto(k), s[k + 1])) = k + 1
          /\ Len(Upto(k + 1)) = k + 1
      BY <2>1, <1>1, <1>0
    <3>2. ASSUME NEW i \in 1 .. k + 1
          PROVE  Append(Upto(k), s[k + 1])[i] = Upto(k + 1)[i]
      <4>1. Upto(k) \in Seq(Node) /\ Len(Upto(k)) = k
        BY <2>1, <1>1
      <4>2. CASE i = k + 1
        BY <4>2, <4>1
      <4>3. CASE i # k + 1
        BY <4>3, <4>1
      <4> QED BY <4>2, <4>3
    <3> HIDE DEF Upto
    <3> QED BY <3>1, <3>2, SeqEqual
  <2>5. k <= Len(s)
    BY <1>2, <1>0
  <2> QED BY <1>2, <2>3, <2>4, <2>5
<1>3. CASE ~ (k + 1 <= Len(s))
  <2>1. (IF k <= Len(s) THEN k ELSE Len(s)) = Len(s)
    BY <1>3, <1>0
  <2>2. Len(s) \in 1 .. Len(s)
    BY <1>0
  <2>3. Further(m, Upto(Len(s))) = Upto(Len(s))
    <3> HIDE DEF Upto
    <3> QED BY <2>2, <1>0, <1>1 DEF Further
  <2> QED BY <2>1, <2>3, <1>3
<1> QED
  BY <1>2, <1>3

\* A list without repetition is not longer than there are nodes.
LEMMA LinkedLength ==
  ASSUME NEW m, NEW h, NEW s, Linked(m, h, s), QueueAssumption
  PROVE  Cardinality(Node) \in Nat /\ Len(s) <= Cardinality(Node)
<1>1. s \in [1 .. Len(s) -> Node] /\ Len(s) \in Nat
  BY DEF Linked
<1>2. s \in Injection(1 .. Len(s), Node)
  BY <1>1 DEF Linked, Injection, IsInjective
<1>3. Cardinality(1 .. Len(s)) <= Cardinality(Node)
  BY <1>2, FS_Injection DEF QueueAssumption
<1>4. Cardinality(1 .. Len(s)) = Len(s)
  BY <1>1, FS_Interval
<1>5. Cardinality(Node) \in Nat
  BY FS_CardinalityType DEF QueueAssumption
<1> QED
  BY <1>3, <1>4, <1>5

\* What Chain computes: the list, whenever the pointers describe one.
LEMMA ChainIs ==
  ASSUME NEW m, NEW h, NEW s, Linked(m, h, s), QueueAssumption
  PROVE  ChainOf(m, h) = s
<1> DEFINE Upto(n) == [i \in 1 .. n |-> s[i]]
           Size(n) == IF n + 1 <= Len(s) THEN n + 1 ELSE Len(s)
           g == [n \in Nat |-> Upto(Size(n))]
<1>0. s \in Seq(Node) /\ Len(s) \in Nat /\ Len(s) >= 1 /\ s[1] = h
  BY DEF Linked
<1>1. Upto(Size(0)) = <<h>>
  <2>1. Size(0) = 1
    BY <1>0
  <2>2. Upto(1) = <<h>>
    BY <1>0
  <2> QED BY <2>1, <2>2
<1>2. ASSUME NEW n \in Nat, n # 0
      PROVE  Upto(Size(n)) = Further(m, Upto(Size(n - 1)))
  <2>1. n >= 1 /\ n - 1 \in Nat /\ (n - 1) + 1 = n
    BY <1>2
  <2>2. Further(m, Upto(IF n <= Len(s) THEN n ELSE Len(s)))
          = Upto(IF n + 1 <= Len(s) THEN n + 1 ELSE Len(s))
    BY <2>1, WalkStep
  <2>3. Size(n - 1) = IF n <= Len(s) THEN n ELSE Len(s)
    BY <2>1
  <2> QED BY <2>2, <2>3
<1>3. IsWalk(m, h, g)
  <2> HIDE DEF Upto, Size
  <2>1. ASSUME NEW n \in Nat
        PROVE  g[n] = IF n = 0 THEN <<h>> ELSE Further(m, g[n - 1])
    <3>1. CASE n = 0
      BY <3>1, <1>1
    <3>2. CASE n # 0
      <4>1. n - 1 \in Nat
        BY <3>2
      <4>2. g[n - 1] = Upto(Size(n - 1)) /\ g[n] = Upto(Size(n))
        BY <4>1
      <4> HIDE DEF g
      <4> QED BY <3>2, <4>2, <1>2
    <3> QED BY <3>1, <3>2
  <2>2. g = [n \in Nat |-> g[n]]
    OBVIOUS
  <2> HIDE DEF g
  <2> QED BY <2>1, <2>2 DEF IsWalk
<1>4. \A f : IsWalk(m, h, f) => f = g
  <2> HIDE DEF g
  <2> QED BY <1>3, WalkUnique
<1>5. ChainOf(m, h) = g[Cardinality(Node)]
  <2> DEFINE Step(f) == [n \in Nat |-> IF n = 0 THEN <<h>>
                                      ELSE LET w == f[n - 1]
                                               p == m[w[Len(w)]].next
                                           IN  IF p = NULL THEN w ELSE Append(w, p)]
  <2> HIDE DEF g
  <2>1. \A f : IsWalk(m, h, f) <=> f = Step(f)
    BY DEF Further, IsWalk
  <2>2. g = Step(g) /\ \A f : f = Step(f) => f = g
    <3> HIDE DEF Step
    <3> QED BY <2>1, <1>3, <1>4
  <2> QED
    BY <2>2 DEF ChainOf
<1>6. Cardinality(Node) \in Nat /\ Len(s) <= Cardinality(Node)
  BY LinkedLength
<1>7. Size(Cardinality(Node)) = Len(s)
  BY <1>6, <1>0
<1>8. Upto(Len(s)) = s
  BY <1>0
<1>9. g[Cardinality(Node)] = Upto(Len(s))
  <2>1. g[Cardinality(Node)] = Upto(Size(Cardinality(Node)))
    BY <1>6
  <2> QED BY <2>1, <1>7
<1> QED
  BY <1>5, <1>8, <1>9

-----------------------------------------------------------------------------
(* The invariant *)

Types ==
  /\ mem \in [Node -> NodeValue]
  /\ head \in Node /\ tail \in Node /\ cursor \in Node \cup {NULL}
  /\ size \in Nat
  /\ pc \in {"open", "clearing", "cleared", "gone"}

\* The list s is what all the pointers, the counter and malloc describe.
ListInv(s) ==
  /\ Linked(mem, head, s)
  /\ s[Len(s)] = tail
  /\ \A i \in 2 .. Len(s) : mem[s[i]].prev = s[i - 1]
  /\ \A i \in 2 .. Len(s) : mem[s[i]].data \in Element
  /\ \A i \in 1 .. Len(s) : s[i] # cursor
  /\ size = Len(s) - 1 + (IF cursor = NULL THEN 0 ELSE 1)
  /\ alloc = {s[i] : i \in 1 .. Len(s)} \cup ({cursor} \ {NULL})

QueueInv ==
  /\ Types
  /\ pc # "clearing" => cursor = NULL
  /\ pc = "cleared" => tail = head
  /\ pc = "gone" => alloc = {}
  /\ pc # "gone" => ListInv(Chain)

\* The list of the next state may be named by any sequence that fits it.
LEMMA NextList ==
  ASSUME QueueAssumption, NEW s, ListInv(s)'
  PROVE  Chain' = s /\ ListInv(Chain)'
<1>1. Linked(mem', head', s)
  BY DEF ListInv
<1>2. ChainOf(mem', head') = s
  BY <1>1, ChainIs
<1>3. Chain' = s
  BY <1>2 DEF Chain
<1> QED
  BY <1>3 DEF ListInv

\* Facts about a list that every step uses.
LEMMA ListFacts ==
  ASSUME QueueAssumption, Types, NEW s, ListInv(s)
  PROVE  /\ s \in [1 .. Len(s) -> Node] /\ Len(s) \in Nat /\ Len(s) >= 1
         /\ \A i \in 1 .. Len(s) : s[i] \in Node /\ s[i] # NULL /\ s[i] \in alloc
         /\ Len(s) = 1 => First = NULL
         /\ Len(s) >= 2 => First = s[2]
         /\ tail = head <=> Len(s) = 1
<1>1. /\ s \in [1 .. Len(s) -> Node] /\ Len(s) \in Nat /\ Len(s) >= 1
      /\ \A i \in 1 .. Len(s) : s[i] \in Node
  BY DEF ListInv, Linked
<1>2. \A i \in 1 .. Len(s) : s[i] # NULL /\ s[i] \in alloc
  BY <1>1 DEF ListInv, QueueAssumption
<1>3. Len(s) = 1 => First = NULL
  BY <1>1 DEF ListInv, Linked, First
<1>4. Len(s) >= 2 => First = s[2]
  <2>1. Len(s) >= 2 => 1 \in 1 .. Len(s) - 1 /\ 1 + 1 = 2
    BY <1>1
  <2>2. s[1] = head /\ \A i \in 1 .. Len(s) - 1 : mem[s[i]].next = s[i + 1]
    BY DEF ListInv, Linked
  <2> QED BY <2>1, <2>2 DEF First
<1>5. tail = head <=> Len(s) = 1
  <2>1. s[1] = head /\ s[Len(s)] = tail /\ 1 \in 1 .. Len(s) /\ Len(s) \in 1 .. Len(s)
    BY <1>1 DEF ListInv, Linked
  <2>2. \A i, j \in 1 .. Len(s) : s[i] = s[j] => i = j
    BY DEF ListInv, Linked
  <2> QED BY <2>1, <2>2
<1> QED
  BY <1>1, <1>2, <1>3, <1>4, <1>5

\* easy_queue_init leaves the head alone in the list.
LEMMA QueueInit ==
  ASSUME QueueAssumption, Init
  PROVE  QueueInv /\ Chain = <<head>>
<1> USE DEF Init, easy_queue_init
<1>1. Types
  BY DEF Types, NodeValue, Blank
<1>2. <<head>> \in Seq(Node) /\ Len(<<head>>) = 1 /\ <<head>>[1] = head
  OBVIOUS
<1>3. mem[head].next = NULL
  BY DEF Blank
<1>4. Linked(mem, head, <<head>>)
  BY <1>2, <1>3 DEF Linked
<1>5. Chain = <<head>>
  BY <1>4, ChainIs DEF Chain
<1>6. ListInv(<<head>>)
  <2>1. <<head>>[Len(<<head>>)] = tail
    BY <1>2
  <2>2. \A i \in 1 .. Len(<<head>>) : i = 1
    BY <1>2
  <2>3. alloc = {<<head>>[i] : i \in 1 .. Len(<<head>>)} \cup ({cursor} \ {NULL})
    BY <1>2, <2>2
  <2>4. cursor = NULL /\ head # NULL /\ size = 0
    BY DEF QueueAssumption
  <2>5. \A i \in 1 .. Len(<<head>>) : <<head>>[i] # cursor
    BY <1>2, <2>2, <2>4
  <2>6. size = Len(<<head>>) - 1 + (IF cursor = NULL THEN 0 ELSE 1)
    BY <2>4, <1>2
  <2>7. \A i \in 2 .. Len(<<head>>) : FALSE
    BY <1>2
  <2> QED BY <1>4, <2>1, <2>3, <2>5, <2>6, <2>7 DEF ListInv
<1> QED
  BY <1>1, <1>5, <1>6 DEF QueueInv

-----------------------------------------------------------------------------
(* One lemma per operation: the list after it *)

\* easy_queue_push appends its node.
LEMMA PushList ==
  ASSUME QueueAssumption, Types, NEW s, ListInv(s), pc # "clearing" => cursor = NULL,
         NEW p \in Node, NEW x \in Element, easy_queue_push(p, x)
  PROVE  Types' /\ ListInv([i \in 1 .. Len(s) + 1 |-> IF i <= Len(s) THEN s[i] ELSE p])'
<1> DEFINE t == [i \in 1 .. Len(s) + 1 |-> IF i <= Len(s) THEN s[i] ELSE p]
           n == Len(s)
<1>1. /\ n \in Nat /\ n >= 1
      /\ \A i \in 1 .. n : s[i] \in Node /\ s[i] # NULL /\ s[i] \in alloc
  BY ListFacts
<1>2. t \in Seq(Node) /\ Len(t) = n + 1
  <2>1. t \in [1 .. n + 1 -> Node]
    BY <1>1
  <2> QED BY <2>1, <1>1
<1>3. \A i \in 1 .. n : t[i] = s[i] /\ t[i] # p
  BY <1>1 DEF easy_queue_push
<1>4. t[n + 1] = p
  BY <1>1
<1>5. /\ s[1] = head /\ s[n] = tail /\ cursor = NULL
      /\ \A i \in 1 .. n - 1 : mem[s[i]].next = s[i + 1]
      /\ \A i, j \in 1 .. n : s[i] = s[j] => i = j
      /\ \A i \in 2 .. n : mem[s[i]].prev = s[i - 1] /\ mem[s[i]].data \in Element
      /\ size = n - 1
      /\ alloc = {s[i] : i \in 1 .. n}
  BY <1>1 DEF ListInv, Linked, easy_queue_push
<1>6. /\ mem' = [mem EXCEPT ![p] = [data |-> x, prev |-> tail, next |-> NULL],
                           ![tail].next = p]
      /\ alloc' = alloc \cup {p} /\ tail' = p /\ size' = size + 1
      /\ head' = head /\ cursor' = cursor /\ pc' = pc /\ p # tail
  BY <1>1, <1>5 DEF easy_queue_push
<1>7. /\ mem'[p] = [data |-> x, prev |-> tail, next |-> NULL]
      /\ mem'[tail] = [mem[tail] EXCEPT !.next = p]
      /\ \A q \in Node : q # p /\ q # tail => mem'[q] = mem[q]
  BY <1>6 DEF Types
<1>8. mem[tail] \in NodeValue /\ \A q \in Node : mem[q] \in NodeValue
  BY DEF Types
<1>9. /\ mem'[tail].next = p
      /\ mem'[tail].prev = mem[tail].prev
      /\ mem'[tail].data = mem[tail].data
      /\ mem'[tail] \in NodeValue
      /\ mem'[p] \in NodeValue
      /\ mem'[p].next = NULL /\ mem'[p].prev = tail /\ mem'[p].data = x
  BY <1>7, <1>8 DEF NodeValue, Types
<1>10. Types'
  <2>1. mem' \in [Node -> NodeValue]
    <3>1. \A q \in Node : mem'[q] \in NodeValue
      BY <1>7, <1>8, <1>9
    <3>2. DOMAIN mem' = Node /\ mem' = [q \in Node |-> mem'[q]]
      BY <1>6 DEF Types
    <3> QED BY <3>1, <3>2
  <2> QED BY <2>1, <1>6 DEF Types
<1> HIDE DEF t
<1>11. Linked(mem, head, t)'
  <2>1. t[1] = head
    BY <1>1, <1>3, <1>5
  <2>2. ASSUME NEW i \in 1 .. n PROVE mem'[t[i]].next = t[i + 1]
    <3>1. CASE i = n
      BY <3>1, <1>1, <1>3, <1>4, <1>5, <1>9
    <3>2. CASE i # n
      <4>1. i \in 1 .. n - 1 /\ i + 1 \in 1 .. n /\ n \in 1 .. n
        BY <3>2, <1>1
      <4>2. s[i] # tail /\ s[i] # p /\ s[i] \in Node
        BY <4>1, <1>1, <1>3, <1>5, <3>2
      <4>3. mem'[s[i]] = mem[s[i]]
        BY <4>2, <1>7
      <4> QED BY <4>1, <4>3, <1>3, <1>5
    <3> QED BY <3>1, <3>2
  <2>3. mem'[t[n + 1]].next = NULL
    BY <1>4, <1>9
  <2>4. ASSUME NEW i \in 1 .. n + 1, NEW j \in 1 .. n + 1, t[i] = t[j] PROVE i = j
    <3>1. (i \in 1 .. n \/ i = n + 1) /\ (j \in 1 .. n \/ j = n + 1)
      BY <1>1
    <3> QED BY <3>1, <2>4, <1>3, <1>4, <1>5
  <2>5. (n + 1) - 1 = n /\ n + 1 >= 1
    BY <1>1
  <2> QED BY <2>1, <2>2, <2>3, <2>4, <2>5, <1>2, <1>6 DEF Linked
<1>12. \A i \in 2 .. n + 1 : mem'[t[i]].prev = t[i - 1] /\ mem'[t[i]].data \in Element
  <2> SUFFICES ASSUME NEW i \in 2 .. n + 1
               PROVE  mem'[t[i]].prev = t[i - 1] /\ mem'[t[i]].data \in Element
    OBVIOUS
  <2>1. CASE i = n + 1
    <3>1. i - 1 = n /\ n \in 1 .. n
      BY <2>1, <1>1
    <3> QED BY <2>1, <3>1, <1>3, <1>4, <1>5, <1>9
  <2>2. CASE i # n + 1
    <3>1. i \in 2 .. n /\ i \in 1 .. n /\ i - 1 \in 1 .. n
      BY <2>2, <1>1
    <3>2. t[i] = s[i] /\ t[i - 1] = s[i - 1] /\ s[i] # p /\ s[i] \in Node
      BY <3>1, <1>1, <1>3
    <3>3. mem'[s[i]].prev = mem[s[i]].prev /\ mem'[s[i]].data = mem[s[i]].data
      BY <3>2, <1>7, <1>9
    <3> QED BY <3>1, <3>2, <3>3, <1>5
  <2> QED BY <2>1, <2>2
<1>13. {t[i] : i \in 1 .. n + 1} = {s[i] : i \in 1 .. n} \cup {p}
  <2>1. ASSUME NEW i \in 1 .. n + 1 PROVE t[i] \in {s[j] : j \in 1 .. n} \cup {p}
    <3>1. i \in 1 .. n \/ i = n + 1
      BY <1>1
    <3> QED BY <3>1, <1>3, <1>4
  <2>2. ASSUME NEW i \in 1 .. n PROVE s[i] \in {t[j] : j \in 1 .. n + 1}
    <3>1. i \in 1 .. n + 1 /\ t[i] = s[i]
      BY <1>1, <1>3
    <3> QED BY <3>1
  <2>3. p \in {t[j] : j \in 1 .. n + 1}
    BY <1>4, <1>1
  <2> QED BY <2>1, <2>2, <2>3
<1>14. \A i \in 1 .. n + 1 : t[i] # cursor'
  <2>1. cursor' = NULL /\ \A i \in 1 .. n + 1 : t[i] \in Node
    BY <1>2, <1>5, <1>6
  <2> QED BY <2>1 DEF QueueAssumption
<1>15. size' = (n + 1) - 1 + (IF cursor' = NULL THEN 0 ELSE 1)
  BY <1>1, <1>5, <1>6
<1>16. alloc' = {t[i] : i \in 1 .. n + 1} \cup ({cursor'} \ {NULL})
  BY <1>5, <1>6, <1>13
<1>17. t[n + 1] = tail'
  BY <1>4, <1>6
<1>18. ListInv(t)'
  BY <1>2, <1>11, <1>12, <1>14, <1>15, <1>16, <1>17 DEF ListInv
<1> QED
  BY <1>10, <1>18 DEF t

\* The pointers after the first node s[2] has been unlinked.
LEMMA UnlinkedMem ==
  ASSUME QueueAssumption, Types, NEW s, ListInv(s), Len(s) >= 2
  PROVE  LET m == Unlinked(mem)
         IN  /\ m \in [Node -> NodeValue]
             /\ m[head].next = IF Len(s) = 2 THEN NULL ELSE s[3]
             /\ \A q \in Node \ {head, s[2]} : m[q].next = mem[q].next /\ m[q].data = mem[q].data
             /\ \A q \in Node \ {head, s[2]} : (Len(s) >= 3 => q # s[3]) => m[q] = mem[q]
             /\ Len(s) >= 3 => m[s[3]].prev = head
             /\ mem[First].next = IF Len(s) = 2 THEN NULL ELSE s[3]
<1> DEFINE m == Unlinked(mem)
           n == Len(s)
           l == [mem EXCEPT ![head].next = mem[First].next, ![First] = Blank]
<1>1. n \in Nat /\ n >= 2 /\ First = s[2] /\ \A i \in 1 .. n : s[i] \in Node /\ s[i] # NULL
  BY ListFacts
<1>2. /\ s[1] = head
      /\ \A i \in 1 .. n - 1 : mem[s[i]].next = s[i + 1]
      /\ mem[s[n]].next = NULL
      /\ \A i, j \in 1 .. n : s[i] = s[j] => i = j
  BY DEF ListInv, Linked
<1>n. n = Len(s)
  OBVIOUS
<1> HIDE DEF n
<1>3. mem[First].next = IF n = 2 THEN NULL ELSE s[3]
  <2>1. CASE n = 2
    BY <2>1, <1>1, <1>2
  <2>2. CASE n # 2
    <3>1. 2 \in 1 .. n - 1 /\ 2 + 1 = 3
      BY <2>2, <1>1
    <3> QED BY <3>1, <2>2, <1>1, <1>2
  <2> QED BY <2>1, <2>2
<1>4. /\ 1 \in 1 .. n /\ 2 \in 1 .. n /\ head \in Node /\ s[2] \in Node /\ s[2] # head
      /\ n # 2 => 3 \in 1 .. n
  BY <1>1, <1>2
<1>5. n # 2 => s[3] \in Node /\ s[3] # NULL /\ s[3] # head /\ s[3] # s[2]
  BY <1>1, <1>2, <1>4
<1>6. \A q \in Node : mem[q] \in NodeValue
  BY DEF Types
<1>7. /\ l \in [Node -> NodeValue]
      /\ l[head] = [mem[head] EXCEPT !.next = mem[First].next]
      /\ \A q \in Node \ {head, s[2]} : l[q] = mem[q]
  <2>1. l[head] = [mem[head] EXCEPT !.next = mem[First].next]
    BY <1>1, <1>4 DEF Types
  <2>2. l[s[2]] = Blank
    BY <1>1, <1>4 DEF Types
  <2>3. \A q \in Node \ {head, s[2]} : l[q] = mem[q]
    BY <1>1, <1>4 DEF Types
  <2>4. Blank \in NodeValue
    BY DEF Blank, NodeValue
  <2>5. mem[First].next \in Node \cup {NULL}
    BY <1>1, <1>4, <1>6 DEF NodeValue
  <2>6. l[head] \in NodeValue
    BY <2>1, <2>5, <1>6, <1>4 DEF NodeValue
  <2>7. l = [q \in Node |-> l[q]]
    BY DEF Types
  <2> HIDE DEF l
  <2>8. \A q \in Node : l[q] \in NodeValue
    BY <2>2, <2>3, <2>4, <2>6, <1>6
  <2> QED BY <2>1, <2>3, <2>7, <2>8
<1>8. l[head].next = mem[First].next
  BY <1>7, <1>6, <1>4 DEF NodeValue
<1> HIDE DEF l
<1>9. CASE n = 2
  <2>1. m = l
    BY <1>9, <1>3 DEF Unlinked, l
  <2>2. ~ (n >= 3)
    BY <1>9
  <2>3. \A q \in Node \ {head, s[2]} : m[q] = mem[q]
    BY <2>1, <1>7
  <2>4. m \in [Node -> NodeValue] /\ m[head].next = NULL
    BY <2>1, <1>3, <1>7, <1>8, <1>9
  <2> HIDE DEF m
  <2> QED BY <2>2, <2>3, <2>4, <1>3, <1>9, <1>n DEF m
<1>10. CASE n # 2
  <2>1. m = [l EXCEPT ![s[3]].prev = head]
    BY <1>10, <1>3, <1>5 DEF Unlinked, l
  <2>2. /\ m[s[3]] = [mem[s[3]] EXCEPT !.prev = head]
        /\ \A q \in Node \ {s[3]} : m[q] = l[q]
        /\ m = [q \in Node |-> m[q]]
    BY <2>1, <1>5, <1>7, <1>10
  <2>3. /\ m[s[3]].prev = head /\ m[s[3]].next = mem[s[3]].next
        /\ m[s[3]].data = mem[s[3]].data /\ m[s[3]] \in NodeValue
    BY <2>2, <1>5, <1>6, <1>4, <1>10 DEF NodeValue
  <2> HIDE DEF m
  <2>4. \A q \in Node : m[q] \in NodeValue
    BY <2>2, <2>3, <1>7
  <2>5. m \in [Node -> NodeValue]
    BY <2>2, <2>4
  <2>6. m[head].next = s[3]
    BY <2>2, <1>5, <1>8, <1>3, <1>10, <1>4
  <2>7. \A q \in Node \ {head, s[2]} : m[q].next = mem[q].next /\ m[q].data = mem[q].data
    BY <2>2, <2>3, <1>7
  <2>8. \A q \in Node \ {head, s[2]} : q # s[3] => m[q] = mem[q]
    BY <2>2, <1>7
  <2>9. n >= 3
    BY <1>10, <1>1
  <2> QED BY <2>3, <2>5, <2>6, <2>7, <2>8, <2>9, <1>1, <1>3, <1>10, <1>n DEF m
<1> QED
  BY <1>9, <1>10

\* A pop that succeeds takes the first node out.
LEMMA PopList ==
  ASSUME QueueAssumption, Types, NEW s, ListInv(s), pc # "clearing" => cursor = NULL,
         NEW buflen, Pop(buflen)
  PROVE  /\ Len(s) >= 2
         /\ Types'
         /\ ListInv([i \in 1 .. Len(s) - 1 |-> IF i = 1 THEN s[1] ELSE s[i + 1]])'
         /\ \A i \in 2 .. Len(s) - 1 : mem'[s[i + 1]].data = mem[s[i + 1]].data
<1> DEFINE t == [i \in 1 .. Len(s) - 1 |-> IF i = 1 THEN s[1] ELSE s[i + 1]]
           n == Len(s)
<1>0. n >= 2 /\ n \in Nat
  <2>1. n \in Nat /\ n >= 1 /\ (n = 1 => First = NULL)
    BY ListFacts
  <2>2. n # 1
    BY <2>1 DEF Pop
  <2> HIDE DEF n
  <2> QED BY <2>1, <2>2
<1>1. /\ n \in Nat /\ First = s[2]
      /\ \A i \in 1 .. n : s[i] \in Node /\ s[i] # NULL /\ s[i] \in alloc
  BY ListFacts, <1>0
<1>2. /\ s[1] = head /\ s[n] = tail /\ cursor = NULL
      /\ \A i \in 1 .. n - 1 : mem[s[i]].next = s[i + 1]
      /\ mem[s[n]].next = NULL
      /\ \A i, j \in 1 .. n : s[i] = s[j] => i = j
      /\ \A i \in 2 .. n : mem[s[i]].prev = s[i - 1] /\ mem[s[i]].data \in Element
      /\ size = n - 1
      /\ alloc = {s[i] : i \in 1 .. n}
  BY <1>1 DEF ListInv, Linked, Pop
<1>3. /\ mem' = Unlinked(mem) /\ alloc' = alloc \ {s[2]} /\ size' = size - 1
      /\ tail' = (IF mem[First].next = NULL THEN head ELSE tail)
      /\ head' = head /\ cursor' = cursor /\ pc' = pc
  BY <1>1 DEF Pop, WithoutFirst, TailWithoutFirst
<1>4. /\ mem' \in [Node -> NodeValue]
      /\ mem'[head].next = IF n = 2 THEN NULL ELSE s[3]
      /\ \A q \in Node \ {head, s[2]} : mem'[q].next = mem[q].next /\ mem'[q].data = mem[q].data
      /\ \A q \in Node \ {head, s[2]} : (n >= 3 => q # s[3]) => mem'[q] = mem[q]
      /\ n >= 3 => mem'[s[3]].prev = head
      /\ mem[First].next = IF n = 2 THEN NULL ELSE s[3]
  BY <1>0, <1>3, UnlinkedMem
<1>5. t \in Seq(Node) /\ Len(t) = n - 1
  <2>1. t \in [1 .. n - 1 -> Node]
    BY <1>0, <1>1, <1>2 DEF Types
  <2> QED BY <2>1, <1>1, <1>0
<1>6. t[1] = head /\ \A i \in 2 .. n - 1 : t[i] = s[i + 1] /\ t[i] \in Node \ {head, s[2]}
  <2>1. t[1] = head
    BY <1>0, <1>1, <1>2
  <2>2. ASSUME NEW i \in 2 .. n - 1 PROVE t[i] = s[i + 1] /\ t[i] \in Node \ {head, s[2]}
    <3>1. /\ i \in 1 .. n - 1 /\ i # 1 /\ i + 1 \in 1 .. n /\ i + 1 # 1 /\ i + 1 # 2
          /\ 1 \in 1 .. n /\ 2 \in 1 .. n
      BY <1>1, <1>0
    <3> QED BY <3>1, <1>1, <1>2
  <2> QED BY <2>1, <2>2
<1>7. Types'
  <2>1. size' \in Nat
    BY <1>0, <1>1, <1>2, <1>3
  <2> QED BY <2>1, <1>3, <1>4 DEF Types
<1>n. n = Len(s)
  OBVIOUS
<1> HIDE DEF t, n
<1>8. Linked(mem, head, t)'
  <2>1. ASSUME NEW i \in 1 .. (n - 1) - 1 PROVE mem'[t[i]].next = t[i + 1]
    <3>1. CASE i = 1
      <4>1. n # 2 /\ 2 \in 2 .. n - 1 /\ 1 + 1 = 2 /\ 2 + 1 = 3
        BY <1>1, <3>1
      <4> QED BY <3>1, <4>1, <1>4, <1>6
    <3>2. CASE i # 1
      <4>1. /\ i \in 2 .. n - 1 /\ i + 1 \in 2 .. n - 1
            /\ i + 1 \in 1 .. n - 1
        BY <3>2, <1>1
      <4>2. mem'[t[i]].next = mem[t[i]].next
        BY <4>1, <1>6, <1>4
      <4> QED BY <4>1, <4>2, <1>6, <1>2
    <3> QED BY <3>1, <3>2
  <2>2. mem'[t[n - 1]].next = NULL
    <3>1. CASE n = 2
      BY <3>1, <1>4, <1>6
    <3>2. CASE n # 2
      <4>1. n - 1 \in 2 .. n - 1 /\ (n - 1) + 1 = n
        BY <3>2, <1>1, <1>0
      <4> QED BY <4>1, <1>2, <1>4, <1>6
    <3> QED BY <3>1, <3>2
  <2>3. ASSUME NEW i \in 1 .. n - 1, NEW j \in 1 .. n - 1, t[i] = t[j] PROVE i = j
    <3>1. (i = 1 \/ i \in 2 .. n - 1) /\ (j = 1 \/ j \in 2 .. n - 1)
      BY <1>1
    <3>2. CASE i \in 2 .. n - 1 /\ j \in 2 .. n - 1
      <4>1. i + 1 \in 1 .. n /\ j + 1 \in 1 .. n /\ s[i + 1] = s[j + 1]
        BY <3>2, <2>3, <1>1, <1>6
      <4>2. i + 1 = j + 1
        BY <4>1, <1>2
      <4> QED BY <4>2
    <3> QED BY <3>1, <3>2, <2>3, <1>6
  <2>4. n - 1 >= 1
    BY <1>0, <1>1
  <2> QED BY <2>1, <2>2, <2>3, <2>4, <1>3, <1>5, <1>6 DEF Linked
<1>9. ASSUME NEW i \in 2 .. n - 1
      PROVE  mem'[t[i]].prev = t[i - 1] /\ mem'[t[i]].data \in Element
  <2>1. /\ i + 1 \in 2 .. n /\ mem'[t[i]].data = mem[s[i + 1]].data
        /\ t[i] = s[i + 1] /\ (i + 1) - 1 = i /\ n >= 3
    BY <1>4, <1>6, <1>1
  <2>2. CASE i = 2
    <3>1. t[i] = s[3] /\ t[i - 1] = head
      BY <2>1, <2>2, <1>6
    <3> QED BY <2>1, <3>1, <1>2, <1>4
  <2>3. CASE i # 2
    <3>1. /\ i - 1 \in 2 .. n - 1 /\ (i - 1) + 1 = i /\ i + 1 # 3
          /\ i + 1 \in 1 .. n /\ 3 \in 1 .. n
      BY <2>3, <1>1
    <3>2. t[i - 1] = s[i] /\ s[i + 1] # s[3]
      BY <3>1, <1>2, <1>6
    <3>3. mem'[s[i + 1]] = mem[s[i + 1]]
      BY <3>2, <2>1, <1>4, <1>6
    <3> QED BY <2>1, <3>2, <3>3, <1>2
  <2> QED BY <2>2, <2>3
<1>10. t[n - 1] = tail'
  <2>1. CASE n = 2
    BY <2>1, <1>3, <1>4, <1>6
  <2>2. CASE n # 2
    <3>1. n - 1 \in 2 .. n - 1 /\ (n - 1) + 1 = n /\ 3 \in 1 .. n
      BY <2>2, <1>0, <1>1
    <3> QED BY <3>1, <2>2, <1>1, <1>2, <1>3, <1>4, <1>6
  <2> QED BY <2>1, <2>2
<1>11. alloc' = {t[i] : i \in 1 .. n - 1} \cup ({cursor'} \ {NULL})
  <2>1. ASSUME NEW i \in 1 .. n - 1 PROVE t[i] \in {s[j] : j \in 1 .. n} \ {s[2]}
    <3>1. CASE i = 1
      <4>1. 1 \in 1 .. n /\ 2 \in 1 .. n /\ s[1] # s[2]
        BY <1>0, <1>1, <1>2
      <4> QED BY <3>1, <4>1, <1>2, <1>6
    <3>2. CASE i # 1
      <4>1. i \in 2 .. n - 1 /\ i + 1 \in 1 .. n
        BY <3>2, <1>1
      <4> QED BY <4>1, <1>6
    <3> QED BY <3>1, <3>2
  <2>2. ASSUME NEW j \in 1 .. n, s[j] # s[2] PROVE s[j] \in {t[i] : i \in 1 .. n - 1}
    <3>1. CASE j = 1
      <4>1. 1 \in 1 .. n - 1 /\ t[1] = s[j]
        BY <3>1, <1>0, <1>1, <1>2, <1>6
      <4> QED BY <4>1
    <3>2. CASE j # 1
      <4>1. j # 2
        BY <2>2
      <4>2. j - 1 \in 2 .. n - 1 /\ (j - 1) + 1 = j /\ j - 1 \in 1 .. n - 1
        BY <4>1, <3>2, <1>1
      <4>3. t[j - 1] = s[j]
        BY <4>2, <1>6
      <4> QED BY <4>2, <4>3
    <3> QED BY <3>1, <3>2
  <2>3. {t[i] : i \in 1 .. n - 1} = {s[j] : j \in 1 .. n} \ {s[2]}
    BY <2>1, <2>2
  <2> QED BY <2>3, <1>2, <1>3
<1>12. \A i \in 1 .. n - 1 : t[i] # cursor'
  <2>1. cursor' = NULL /\ \A i \in 1 .. n - 1 : t[i] \in Node
    BY <1>2, <1>3, <1>5
  <2> QED BY <2>1 DEF QueueAssumption
<1>13. size' = (n - 1) - 1 + (IF cursor' = NULL THEN 0 ELSE 1)
  BY <1>1, <1>2, <1>3
<1>14. ListInv(t)'
  BY <1>5, <1>8, <1>9, <1>10, <1>11, <1>12, <1>13 DEF ListInv
<1>15. \A i \in 2 .. n - 1 : mem'[s[i + 1]].data = mem[s[i + 1]].data
  BY <1>4, <1>6
<1> QED
  BY <1>0, <1>7, <1>14, <1>15, <1>n DEF t

\* easy_queue_clear's loop body begins by unlinking the last node.
LEMMA ClearLastList ==
  ASSUME QueueAssumption, Types, NEW s, ListInv(s), ClearLast
  PROVE  /\ Len(s) >= 2
         /\ Types'
         /\ ListInv([i \in 1 .. Len(s) - 1 |-> s[i]])'
         /\ \A i \in 2 .. Len(s) - 1 : mem'[s[i]].data = mem[s[i]].data
<1> DEFINE t == [i \in 1 .. Len(s) - 1 |-> s[i]]
           n == Len(s)
<1>0. n >= 2 /\ n \in Nat
  <2>1. n \in Nat /\ n >= 1 /\ (n = 1 => tail = head)
    BY ListFacts
  <2>2. n # 1
    BY <2>1 DEF ClearLast
  <2> HIDE DEF n
  <2> QED BY <2>1, <2>2
<1>1. \A i \in 1 .. n : s[i] \in Node /\ s[i] # NULL /\ s[i] \in alloc
  BY ListFacts
<1>2. /\ s[1] = head /\ s[n] = tail /\ cursor = NULL
      /\ \A i \in 1 .. n - 1 : mem[s[i]].next = s[i + 1]
      /\ \A i, j \in 1 .. n : s[i] = s[j] => i = j
      /\ \A i \in 2 .. n : mem[s[i]].prev = s[i - 1] /\ mem[s[i]].data \in Element
      /\ size = n - 1
      /\ alloc = {s[i] : i \in 1 .. n}
  BY <1>1 DEF ListInv, Linked, ClearLast
<1>3. t \in Seq(Node) /\ Len(t) = n - 1 /\ \A i \in 1 .. n - 1 : t[i] = s[i]
  <2>1. t \in [1 .. n - 1 -> Node] /\ \A i \in 1 .. n - 1 : t[i] = s[i]
    BY <1>0, <1>1
  <2>2. n - 1 \in Nat
    BY <1>0
  <2> QED BY <2>1, <2>2
<1>n. n = Len(s)
  OBVIOUS
<1> HIDE DEF t, n
<1>4. mem[tail].prev = s[n - 1] /\ n - 1 \in 1 .. n - 1 /\ n \in 1 .. n /\ s[n - 1] \in Node
  <2>1. n \in 2 .. n /\ n - 1 \in 1 .. n
    BY <1>0
  <2> QED BY <2>1, <1>0, <1>1, <1>2
<1>5. /\ mem' = [mem EXCEPT ![s[n - 1]].next = NULL]
      /\ cursor' = tail /\ tail' = s[n - 1] /\ alloc' = alloc /\ size' = size
      /\ head' = head /\ pc' = pc
  BY <1>4 DEF ClearLast
<1>6. /\ mem'[s[n - 1]] = [mem[s[n - 1]] EXCEPT !.next = NULL]
      /\ \A q \in Node : q # s[n - 1] => mem'[q] = mem[q]
      /\ mem' = [q \in Node |-> mem'[q]]
  BY <1>4, <1>5 DEF Types
<1>7. \A q \in Node : mem[q] \in NodeValue
  BY DEF Types
<1>8. /\ mem'[s[n - 1]].next = NULL
      /\ mem'[s[n - 1]].prev = mem[s[n - 1]].prev
      /\ mem'[s[n - 1]].data = mem[s[n - 1]].data
      /\ mem'[s[n - 1]] \in NodeValue
  BY <1>4, <1>6, <1>7 DEF NodeValue
<1>9. \A q \in Node : mem'[q].prev = mem[q].prev /\ mem'[q].data = mem[q].data
  BY <1>6, <1>8
<1>10. Types'
  <2>1. \A q \in Node : mem'[q] \in NodeValue
    BY <1>6, <1>7, <1>8
  <2>2. mem' \in [Node -> NodeValue]
    BY <2>1, <1>6
  <2> QED BY <2>2, <1>4, <1>5 DEF Types
<1>11. Linked(mem, head, t)'
  <2>1. ASSUME NEW i \in 1 .. (n - 1) - 1 PROVE mem'[t[i]].next = t[i + 1]
    <3>1. i \in 1 .. n - 1 /\ i + 1 \in 1 .. n - 1 /\ i \in 1 .. n /\ n - 1 \in 1 .. n /\ i # n - 1
      BY <1>0
    <3>2. s[i] # s[n - 1] /\ s[i] \in Node
      BY <3>1, <1>1, <1>2
    <3> QED BY <3>1, <3>2, <1>2, <1>3, <1>6
  <2>2. mem'[t[n - 1]].next = NULL
    BY <1>3, <1>4, <1>8
  <2>3. ASSUME NEW i \in 1 .. n - 1, NEW j \in 1 .. n - 1, t[i] = t[j] PROVE i = j
    <3>1. i \in 1 .. n /\ j \in 1 .. n /\ s[i] = s[j]
      BY <2>3, <1>0, <1>3
    <3> QED BY <3>1, <1>2
  <2>4. n - 1 >= 1 /\ 1 \in 1 .. n - 1 /\ t[1] = head
    BY <1>0, <1>2, <1>3
  <2> QED BY <2>1, <2>2, <2>3, <2>4, <1>3, <1>5 DEF Linked
<1>12. ASSUME NEW i \in 2 .. n - 1
       PROVE  mem'[t[i]].prev = t[i - 1] /\ mem'[t[i]].data \in Element
  <2>1. i \in 1 .. n - 1 /\ i - 1 \in 1 .. n - 1 /\ i \in 2 .. n /\ i \in 1 .. n
    BY <1>0
  <2> QED BY <2>1, <1>1, <1>2, <1>3, <1>9
<1>13. t[n - 1] = tail'
  BY <1>3, <1>4, <1>5
<1>14. ASSUME NEW i \in 1 .. n - 1 PROVE t[i] # cursor'
  <2>1. i \in 1 .. n /\ i # n
    BY <1>0
  <2> QED BY <2>1, <1>2, <1>3, <1>4, <1>5
<1>15. tail # NULL
  BY <1>1, <1>2, <1>4
<1>16. alloc' = {t[i] : i \in 1 .. n - 1} \cup ({cursor'} \ {NULL})
  <2>1. ASSUME NEW i \in 1 .. n PROVE s[i] \in {t[j] : j \in 1 .. n - 1} \cup {tail}
    <3>1. CASE i = n
      BY <3>1, <1>2
    <3>2. CASE i # n
      <4>1. i \in 1 .. n - 1 /\ t[i] = s[i]
        BY <3>2, <1>0, <1>3
      <4> QED BY <4>1
    <3> QED BY <3>1, <3>2
  <2>2. ASSUME NEW i \in 1 .. n - 1 PROVE t[i] \in {s[j] : j \in 1 .. n}
    <3>1. i \in 1 .. n /\ t[i] = s[i]
      BY <1>0, <1>3
    <3> QED BY <3>1
  <2>3. tail \in {s[j] : j \in 1 .. n}
    BY <1>2, <1>4
  <2>4. alloc' = {t[i] : i \in 1 .. n - 1} \cup {tail}
    BY <2>1, <2>2, <2>3, <1>2, <1>5
  <2> QED BY <2>4, <1>5, <1>15
<1>17. size' = (n - 1) - 1 + (IF cursor' = NULL THEN 0 ELSE 1)
  BY <1>0, <1>2, <1>5, <1>15
<1>18. ListInv(t)'
  BY <1>3, <1>11, <1>12, <1>13, <1>14, <1>16, <1>17 DEF ListInv
<1>19. ASSUME NEW i \in 2 .. n - 1 PROVE mem'[s[i]].data = mem[s[i]].data
  <2>1. i \in 1 .. n
    BY <1>0
  <2> QED BY <2>1, <1>1, <1>9
<1> QED
  BY <1>0, <1>10, <1>18, <1>19, <1>n DEF t

\* Then it frees the node, which no pointer of the list reaches.
LEMMA ClearFreeList ==
  ASSUME QueueAssumption, Types, NEW s, ListInv(s), ClearFree
  PROVE  /\ Types'
         /\ ListInv(s)'
         /\ \A i \in 1 .. Len(s) : mem'[s[i]] = mem[s[i]]
<1>1. /\ Len(s) \in Nat /\ Len(s) >= 1
      /\ \A i \in 1 .. Len(s) : s[i] \in Node /\ s[i] # NULL
  BY ListFacts
<1>2. /\ cursor \in Node /\ cursor # NULL
      /\ mem' = [mem EXCEPT ![cursor] = Blank] /\ alloc' = alloc \ {cursor}
      /\ cursor' = NULL /\ size' = size - 1
      /\ head' = head /\ tail' = tail /\ pc' = pc
  BY DEF ClearFree, Types
<1>3. \A i \in 1 .. Len(s) : mem'[s[i]] = mem[s[i]]
  BY <1>1, <1>2 DEF ListInv, Types
<1>4. Types'
  <2>1. Blank \in NodeValue
    BY DEF Blank, NodeValue
  <2>2. mem' \in [Node -> NodeValue]
    BY <2>1, <1>2 DEF Types
  <2>3. size = Len(s) - 1 + 1
    BY <1>2 DEF ListInv
  <2>4. size' \in Nat
    BY <2>3, <1>1, <1>2
  <2> QED BY <2>2, <2>4, <1>2 DEF Types
<1>5. Linked(mem, head, s)'
  <2>1. Len(s) \in 1 .. Len(s) /\ \A i \in 1 .. Len(s) - 1 : i \in 1 .. Len(s)
    BY <1>1
  <2> QED BY <2>1, <1>2, <1>3 DEF ListInv, Linked
<1>6. ASSUME NEW i \in 2 .. Len(s)
      PROVE  mem'[s[i]].prev = s[i - 1] /\ mem'[s[i]].data \in Element
  <2>1. i \in 1 .. Len(s)
    BY <1>1
  <2> QED BY <2>1, <1>3 DEF ListInv
<1>7. s[Len(s)] = tail'
  BY <1>2 DEF ListInv
<1>8. \A i \in 1 .. Len(s) : s[i] # cursor'
  BY <1>1, <1>2
<1>9. size' = Len(s) - 1 + (IF cursor' = NULL THEN 0 ELSE 1)
  <2>1. size = Len(s) - 1 + 1
    BY <1>2 DEF ListInv
  <2> QED BY <2>1, <1>1, <1>2
<1>10. alloc' = {s[i] : i \in 1 .. Len(s)} \cup ({cursor'} \ {NULL})
  <2>1. alloc = {s[i] : i \in 1 .. Len(s)} \cup {cursor}
    BY <1>2 DEF ListInv
  <2>2. cursor \notin {s[i] : i \in 1 .. Len(s)}
    BY DEF ListInv
  <2> QED BY <2>1, <2>2, <1>2
<1>11. ListInv(s)'
  BY <1>5, <1>6, <1>7, <1>8, <1>9, <1>10 DEF ListInv
<1> QED
  BY <1>3, <1>4, <1>11

-----------------------------------------------------------------------------
(* The invariant holds, and each step is one of Fifo *)

\* The elements along a list, oldest first.
Elements(m, s) == [i \in 1 .. Len(s) - 1 |-> m[s[i + 1]].data]

\* The elements of a list that is at least as long as its head.
LEMMA ElementsFacts ==
  ASSUME QueueAssumption, Types, NEW s, ListInv(s)
  PROVE  /\ Elements(mem, s) \in Seq(Element)
         /\ Len(Elements(mem, s)) = Len(s) - 1
         /\ Elements(mem, s) = <<>> <=> Len(s) = 1
         /\ Len(s) >= 2 => Elements(mem, s)[1] = mem[First].data
         /\ Len(s) >= 2 => Elements(mem, s)[Len(s) - 1] = mem[tail].data
<1> DEFINE e == Elements(mem, s)
           n == Len(s)
<1>1. n \in Nat /\ n >= 1 /\ (n >= 2 => First = s[2])
  BY ListFacts
<1>2. s[n] = tail /\ \A i \in 2 .. n : mem[s[i]].data \in Element
  BY DEF ListInv
<1> HIDE DEF n
<1>n. n = Len(s)
  BY DEF n
<1>3. e = [i \in 1 .. n - 1 |-> mem[s[i + 1]].data]
  BY <1>n DEF Elements
<1> HIDE DEF e
<1>4. e \in [1 .. n - 1 -> Element]
  <2>1. \A i \in 1 .. n - 1 : i + 1 \in 2 .. n
    BY <1>1
  <2> QED BY <2>1, <1>2, <1>3
<1>5. n - 1 \in Nat
  BY <1>1
<1>6. e \in Seq(Element) /\ Len(e) = n - 1
  BY <1>4, <1>5
<1>7. e = <<>> <=> n = 1
  <2>1. e = <<>> <=> Len(e) = 0
    BY <1>6, EmptySeq
  <2> QED BY <2>1, <1>1, <1>6
<1>8. ASSUME n >= 2 PROVE e[1] = mem[First].data /\ e[n - 1] = mem[tail].data
  <2>1. 1 \in 1 .. n - 1 /\ n - 1 \in 1 .. n - 1 /\ 1 + 1 = 2 /\ (n - 1) + 1 = n
    BY <1>1, <1>8
  <2>2. e[1] = mem[s[2]].data /\ e[n - 1] = mem[s[n]].data
    BY <2>1, <1>3
  <2> QED BY <2>2, <1>1, <1>2, <1>8
<1> QED
  BY <1>6, <1>7, <1>8, <1>n DEF e

\* A step that leaves the list alone.
LEMMA SameList ==
  ASSUME QueueAssumption, Types, NEW s, ListInv(s),
         UNCHANGED <<alloc, mem, head, tail, size, cursor>>
  PROVE  ListInv(s)'
BY DEF ListInv, Linked

\* Held is the sequence of the elements along the chain.
LEMMA HeldIs ==
  ASSUME pc # "gone"
  PROVE  Held = Elements(mem, Chain)
BY DEF Held, Contents, Elements

\* easy_queue_push links the new node behind the tail: a Put of Fifo.
LEMMA PushStep ==
  ASSUME QueueAssumption, QueueInv, NEW p \in Node, NEW x \in Element, easy_queue_push(p, x)
  PROVE  QueueInv' /\ Queue!Put(x)
<1> SUFFICES ASSUME NEW c, c = Chain PROVE QueueInv' /\ Queue!Put(x)
  OBVIOUS
<1>1. Types /\ (pc # "clearing" => cursor = NULL) /\ pc = "open" /\ pc' = "open"
  BY DEF QueueInv, easy_queue_push
<1> DEFINE t == [i \in 1 .. Len(c) + 1 |-> IF i <= Len(c) THEN c[i] ELSE p]
<1>2. ListInv(c)
  BY <1>1 DEF QueueInv
<1>3. Types' /\ ListInv(t)'
  BY <1>1, <1>2, PushList
<1>4. Chain' = t /\ ListInv(Chain)'
  <2> HIDE DEF t
  <2> QED BY <1>3, NextList
<1>5. QueueInv'
  BY <1>1, <1>3, <1>4 DEF QueueInv, easy_queue_push
<1>6. /\ Len(c) \in Nat /\ Len(c) >= 1 /\ c[Len(c)] = tail
      /\ \A i \in 1 .. Len(c) : c[i] \in Node /\ c[i] \in alloc
  BY <1>1, <1>2, ListFacts DEF ListInv
<1>7. Elements(mem, c) \in Seq(Element) /\ Len(Elements(mem, c)) = Len(c) - 1
  BY <1>1, <1>2, ElementsFacts
<1>8. Held = Elements(mem, c) /\ Held' = Elements(mem', t)
  BY <1>1, <1>4, HeldIs DEF Held, Contents, Elements
<1>9. Elements(mem', t) = Append(Elements(mem, c), x)
  <2> DEFINE n == Len(c)
             e == Elements(mem, c)
             f == Elements(mem', t)
  <2>1. t \in Seq(Node) /\ Len(t) = n + 1
    <3>1. t \in [1 .. n + 1 -> Node] /\ n + 1 \in Nat
      BY <1>6
    <3> QED BY <3>1
  <2>2. /\ \A i \in 1 .. n : t[i] = c[i]
        /\ t[n + 1] = p
    BY <1>6
  <2> HIDE DEF t
  <2>3. f = [i \in 1 .. n |-> mem'[t[i + 1]].data]
    <3>1. Len(t) - 1 = n
      BY <2>1, <1>6
    <3> QED BY <3>1 DEF Elements
  <2>4. e = [i \in 1 .. n - 1 |-> mem[c[i + 1]].data]
    BY DEF Elements
  <2>5. mem'[p].data = x /\ \A q \in Node : q # p => mem'[q].data = mem[q].data
    <3>1. mem' = [mem EXCEPT ![p] = [data |-> x, prev |-> tail, next |-> NULL],
                             ![tail].next = p] /\ p \notin alloc
      BY DEF easy_queue_push
    <3>2. tail \in alloc /\ tail \in Node
      BY <1>1, <1>2, <1>6 DEF ListInv, Types
    <3>3. p # tail
      BY <3>1, <3>2
    <3>4. /\ mem'[p] = [data |-> x, prev |-> tail, next |-> NULL]
          /\ mem'[tail] = [mem[tail] EXCEPT !.next = p]
          /\ \A q \in Node : q # p /\ q # tail => mem'[q] = mem[q]
      BY <3>1, <3>2, <3>3, <1>1 DEF Types
    <3>5. mem[tail] \in NodeValue
      BY <3>2, <1>1 DEF Types
    <3>6. mem'[tail].data = mem[tail].data
      BY <3>4, <3>5 DEF NodeValue
    <3>7. mem'[p].data = x
      BY <3>4
    <3>8. ASSUME NEW q \in Node, q # p PROVE mem'[q].data = mem[q].data
      <4>1. CASE q = tail
        BY <4>1, <3>6
      <4>2. CASE q # tail
        BY <4>2, <3>4, <3>8
      <4> QED BY <4>1, <4>2
    <3> QED BY <3>7, <3>8
  <2>6. \A i \in 1 .. n : c[i] # p /\ c[i] \in Node
    BY <1>6 DEF easy_queue_push
  <2>7. ASSUME NEW i \in 1 .. n PROVE f[i] = Append(e, x)[i]
    <3>1. CASE i = n
      <4>1. Append(e, x)[n] = x
        <5>1. n = Len(e) + 1
          BY <1>6, <1>7
        <5> QED BY <5>1, <1>7
      <4> QED BY <3>1, <4>1, <2>2, <2>3, <2>5
    <3>2. CASE i # n
      <4>1. i \in 1 .. n - 1 /\ i + 1 \in 1 .. n
        BY <3>2, <1>6
      <4>2. Append(e, x)[i] = e[i]
        BY <4>1, <1>7
      <4>3. e[i] = mem[c[i + 1]].data
        BY <4>1, <2>4
      <4>4. f[i] = mem'[c[i + 1]].data
        BY <4>1, <2>2, <2>3
      <4> QED BY <4>1, <4>2, <4>3, <4>4, <2>5, <2>6
    <3> QED BY <3>1, <3>2
  <2>8. f \in Seq(Element) /\ Len(f) = n
    <3>1. \A i \in 1 .. n : Append(e, x)[i] \in Element
      <4>1. Append(e, x) \in Seq(Element) /\ Len(Append(e, x)) = n
        BY <1>6, <1>7
      <4> QED BY <4>1
    <3>2. f \in [1 .. n -> Element]
      BY <3>1, <2>3, <2>7
    <3> QED BY <3>2, <1>6
  <2>9. Append(e, x) \in Seq(Element) /\ Len(Append(e, x)) = n
    BY <1>6, <1>7
  <2> HIDE DEF e, f, n
  <2> QED BY <2>7, <2>8, <2>9, SeqEqual DEF e, f
<1>10. result' = Result(0, NoItem, 0, 0)
  BY DEF easy_queue_push
<1> QED
  BY <1>5, <1>8, <1>9, <1>10 DEF Queue!Put, Queue!Result, Result

\* A pop that has nothing to hand out, or too small a buffer, leaves the list alone.
LEMMA RefuseStep ==
  ASSUME QueueAssumption, QueueInv, NEW buflen \in BufLen, PopRefused(buflen)
  PROVE  QueueInv' /\ Queue!Refuse(buflen)
<1> SUFFICES ASSUME NEW c, c = Chain PROVE QueueInv' /\ Queue!Refuse(buflen)
  OBVIOUS
<1>1. Types /\ pc = "open" /\ UNCHANGED <<alloc, mem, head, tail, size, cursor, pc>>
  BY DEF QueueInv, PopRefused
<1>2. ListInv(c)
  BY <1>1 DEF QueueInv
<1>3. Chain' = c /\ ListInv(Chain)'
  BY <1>1, <1>2, SameList, NextList
<1>4. QueueInv'
  BY <1>1, <1>3 DEF QueueInv, Types
<1>5. Held = Elements(mem, c) /\ Held' = Held
  BY <1>1, <1>3, HeldIs DEF Held, Contents
<1>6. /\ Len(c) \in Nat /\ Len(c) >= 1
      /\ Len(c) = 1 => First = NULL
      /\ Len(c) >= 2 => First = c[2]
      /\ \A i \in 1 .. Len(c) : c[i] # NULL
  BY <1>1, <1>2, ListFacts
<1>7. /\ Elements(mem, c) = <<>> <=> Len(c) = 1
      /\ Len(c) >= 2 => Elements(mem, c)[1] = mem[First].data
  BY <1>1, <1>2, ElementsFacts
<1>8. CASE Len(c) = 1
  <2>1. result' = Result(-1, NoItem, 0, buflen)
    BY <1>6, <1>8 DEF PopRefused
  <2> QED BY <2>1, <1>4, <1>5, <1>7, <1>8 DEF Queue!Refuse, Queue!Result, Result
<1>9. CASE Len(c) # 1
  <2>1. Len(c) >= 2 /\ First # NULL
    <3> DEFINE n == Len(c)
    <3>1. n \in Nat /\ n >= 1 /\ n # 1
      BY <1>6, <1>9
    <3> HIDE DEF n
    <3>2. n >= 2 /\ 2 \in 1 .. n
      BY <3>1
    <3> QED BY <3>2, <1>6 DEF n
  <2>2. mem[First].data \in Element
    <3>1. First = c[2] /\ 2 \in 2 .. Len(c)
      BY <2>1, <1>6
    <3> QED BY <3>1, <1>2 DEF ListInv
  <2>3. mem[First].data[2] \in Nat /\ buflen \in Nat
    BY <2>2 DEF Element, QueueAssumption
  <2>4. mem[First].data[2] > buflen
    BY <2>1, <2>3 DEF PopRefused, Fits
  <2>5. result' = Result(-1, NoItem, mem[First].data[2], buflen)
    BY <2>1 DEF PopRefused
  <2>6. Held # <<>> /\ Held[1] = mem[First].data
    BY <2>1, <1>5, <1>7, <1>9
  <2> QED BY <2>4, <2>5, <2>6, <1>4, <1>5 DEF Queue!Refuse, Queue!Result, Result, LengthOf
<1> QED
  BY <1>8, <1>9

\* easy_queue_pop takes the node behind the head out: a Take of Fifo.
LEMMA PopStep ==
  ASSUME QueueAssumption, QueueInv, NEW buflen \in BufLen, Pop(buflen)
  PROVE  QueueInv' /\ Queue!Take(buflen)
<1> SUFFICES ASSUME NEW c, c = Chain PROVE QueueInv' /\ Queue!Take(buflen)
  OBVIOUS
<1>1. Types /\ (pc # "clearing" => cursor = NULL) /\ pc = "open" /\ pc' = "open"
  BY DEF QueueInv, Pop
<1> DEFINE t == [i \in 1 .. Len(c) - 1 |-> IF i = 1 THEN c[1] ELSE c[i + 1]]
<1>2. ListInv(c)
  BY <1>1 DEF QueueInv
<1>3. /\ Len(c) >= 2 /\ Types' /\ ListInv(t)'
      /\ \A i \in 2 .. Len(c) - 1 : mem'[c[i + 1]].data = mem[c[i + 1]].data
  BY <1>1, <1>2, PopList
<1>4. Chain' = t /\ ListInv(Chain)'
  <2> HIDE DEF t
  <2> QED BY <1>3, NextList
<1>5. QueueInv'
  BY <1>1, <1>3, <1>4 DEF QueueInv, Pop
<1>6. /\ Len(c) \in Nat
      /\ \A i \in 1 .. Len(c) : c[i] \in Node
  BY <1>1, <1>2, ListFacts
<1>7. /\ Elements(mem, c) \in Seq(Element) /\ Len(Elements(mem, c)) = Len(c) - 1
      /\ Elements(mem, c) = <<>> <=> Len(c) = 1
      /\ Elements(mem, c)[1] = mem[First].data
  BY <1>1, <1>2, <1>3, ElementsFacts
<1>8. Held = Elements(mem, c) /\ Held' = Elements(mem', t)
  BY <1>1, <1>4, HeldIs DEF Held, Contents, Elements
<1>9. Elements(mem', t) = Tail(Elements(mem, c))
  <2> DEFINE n == Len(c)
             e == Elements(mem, c)
             f == Elements(mem', t)
  <2>1. t \in Seq(Node) /\ Len(t) = n - 1
    <3>1. t \in [1 .. n - 1 -> Node] /\ n - 1 \in Nat
      BY <1>3, <1>6
    <3> HIDE DEF t, n
    <3> QED BY <3>1
  <2>2. \A i \in 2 .. n - 1 : t[i] = c[i + 1]
    BY <1>6
  <2> HIDE DEF t
  <2>3. f = [i \in 1 .. n - 2 |-> mem'[t[i + 1]].data]
    <3>1. Len(t) - 1 = n - 2
      BY <2>1, <1>6
    <3> QED BY <3>1 DEF Elements
  <2>4. e = [i \in 1 .. n - 1 |-> mem[c[i + 1]].data]
    BY DEF Elements
  <2>5. Tail(e) \in Seq(Element) /\ Len(Tail(e)) = n - 2 /\ \A i \in 1 .. n - 2 : Tail(e)[i] = e[i + 1]
    <3>1. Len(e) = n - 1 /\ e # <<>>
      BY <1>3, <1>6, <1>7
    <3>2. Len(e) - 1 = n - 2
      BY <3>1, <1>6
    <3> HIDE DEF e
    <3> QED BY <3>1, <3>2, <1>7, HeadTailProperties DEF e
  <2>6. ASSUME NEW i \in 1 .. n - 2 PROVE f[i] = Tail(e)[i]
    <3>1. i + 1 \in 2 .. n - 1 /\ i + 1 \in 1 .. n - 1
      BY <1>6
    <3>2. f[i] = mem'[c[(i + 1) + 1]].data
      BY <3>1, <2>2, <2>3
    <3>3. e[i + 1] = mem[c[(i + 1) + 1]].data
      BY <3>1, <2>4
    <3> QED BY <3>1, <3>2, <3>3, <2>5, <1>3
  <2>7. f \in Seq(Element) /\ Len(f) = n - 2
    <3>1. n - 2 \in Nat
      BY <1>3, <1>6
    <3>2. \A i \in 1 .. n - 2 : Tail(e)[i] \in Element
      BY <2>5
    <3>3. f \in [1 .. n - 2 -> Element]
      BY <3>2, <2>3, <2>6
    <3> QED BY <3>1, <3>3
  <2> HIDE DEF e, f, n
  <2> QED BY <2>5, <2>6, <2>7, SeqEqual DEF e, f
<1>10. /\ result' = Result(0, mem[First].data, mem[First].data[2], buflen)
       /\ mem[First].data[2] <= buflen
  BY DEF Pop, Fits
<1>11. Held # <<>> /\ Held[1] = mem[First].data
  <2>1. Len(c) # 1
    BY <1>3, <1>6
  <2> QED BY <2>1, <1>7, <1>8
<1>12. Queue!Take(buflen)
  BY <1>8, <1>9, <1>10, <1>11 DEF Queue!Take, Queue!Result, Result, LengthOf
<1> QED
  BY <1>5, <1>12

\* easy_queue_clear takes the last node out of the list before it calls the handler:
\* a Discard of Fifo.
LEMMA ClearLastStep ==
  ASSUME QueueAssumption, QueueInv, ClearLast
  PROVE  QueueInv' /\ Queue!Discard
<1> SUFFICES ASSUME NEW c, c = Chain PROVE QueueInv' /\ Queue!Discard
  OBVIOUS
<1>1. Types /\ pc = "clearing" /\ pc' = "clearing"
  BY DEF QueueInv, ClearLast
<1> DEFINE t == [i \in 1 .. Len(c) - 1 |-> c[i]]
<1>2. ListInv(c)
  BY <1>1 DEF QueueInv
<1>3. /\ Len(c) >= 2 /\ Types' /\ ListInv(t)'
      /\ \A i \in 2 .. Len(c) - 1 : mem'[c[i]].data = mem[c[i]].data
  BY <1>1, <1>2, ClearLastList
<1>4. Chain' = t /\ ListInv(Chain)'
  <2> HIDE DEF t
  <2> QED BY <1>3, NextList
<1>5. QueueInv'
  BY <1>1, <1>3, <1>4 DEF QueueInv
<1>6. /\ Len(c) \in Nat
      /\ \A i \in 1 .. Len(c) : c[i] \in Node
  BY <1>1, <1>2, ListFacts
<1>7. /\ Elements(mem, c) \in Seq(Element) /\ Len(Elements(mem, c)) = Len(c) - 1
      /\ Elements(mem, c) = <<>> <=> Len(c) = 1
      /\ Elements(mem, c)[Len(c) - 1] = mem[tail].data
  BY <1>1, <1>2, <1>3, ElementsFacts
<1>8. Held = Elements(mem, c) /\ Held' = Elements(mem', t)
  BY <1>1, <1>4, HeldIs DEF Held, Contents, Elements
<1>9. Elements(mem', t) = SubSeq(Elements(mem, c), 1, Len(Elements(mem, c)) - 1)
  <2> DEFINE n == Len(c)
             e == Elements(mem, c)
             f == Elements(mem', t)
  <2>1. t \in Seq(Node) /\ Len(t) = n - 1
    <3>1. t \in [1 .. n - 1 -> Node] /\ n - 1 \in Nat
      BY <1>3, <1>6
    <3> HIDE DEF t, n
    <3> QED BY <3>1
  <2>2. \A i \in 1 .. n - 1 : t[i] = c[i]
    BY <1>6
  <2> HIDE DEF t
  <2>3. f = [i \in 1 .. n - 2 |-> mem'[t[i + 1]].data]
    <3>1. Len(t) - 1 = n - 2
      BY <2>1, <1>6
    <3> QED BY <3>1 DEF Elements
  <2>4. e = [i \in 1 .. n - 1 |-> mem[c[i + 1]].data]
    BY DEF Elements
  <2>5. /\ SubSeq(e, 1, Len(e) - 1) = SubSeq(e, 1, n - 2)
        /\ SubSeq(e, 1, n - 2) = [i \in 1 .. n - 2 |-> e[i]]
    <3>1. Len(e) - 1 = n - 2 /\ n - 2 \in Nat
      BY <1>3, <1>6, <1>7
    <3>2. SubSeq(e, 1, n - 2) = [i \in 1 .. n - 2 |-> e[i]]
      <4> HIDE DEF e
      <4> QED BY <3>1, <1>7 DEF e
    <3> QED BY <3>1, <3>2
  <2>6. ASSUME NEW i \in 1 .. n - 2 PROVE f[i] = e[i]
    <3>1. i + 1 \in 2 .. n - 1 /\ i + 1 \in 1 .. n - 1 /\ i \in 1 .. n - 1
      BY <1>6
    <3>2. f[i] = mem'[c[i + 1]].data
      BY <3>1, <2>2, <2>3
    <3>3. e[i] = mem[c[i + 1]].data
      BY <3>1, <2>4
    <3> QED BY <3>1, <3>2, <3>3, <1>3
  <2>7. f = [i \in 1 .. n - 2 |-> f[i]]
    BY <2>3
  <2> HIDE DEF e, f, n
  <2>8. f = [i \in 1 .. n - 2 |-> e[i]]
    BY <2>6, <2>7
  <2> QED BY <2>5, <2>8 DEF e, f
<1>10. result' = Result(0, mem[tail].data, mem[tail].data[2], 0)
  BY DEF ClearLast
<1>11. Held # <<>> /\ Held[Len(Held)] = mem[tail].data
  <2>1. Len(c) # 1
    BY <1>3, <1>6
  <2> QED BY <2>1, <1>7, <1>8
<1>12. Queue!Discard
  BY <1>8, <1>9, <1>10, <1>11 DEF Queue!Discard, Queue!Result, Result, LengthOf
<1> QED
  BY <1>5, <1>12

\* After the handler the node is freed and counted; Fifo does not notice.
LEMMA ClearFreeStep ==
  ASSUME QueueAssumption, QueueInv, ClearFree
  PROVE  QueueInv' /\ UNCHANGED Queue!vars
<1> SUFFICES ASSUME NEW c, c = Chain PROVE QueueInv' /\ UNCHANGED Queue!vars
  OBVIOUS
<1>1. Types /\ pc = "clearing" /\ pc' = "clearing" /\ result' = result
  BY DEF QueueInv, ClearFree
<1>2. ListInv(c)
  BY <1>1 DEF QueueInv
<1>3. Types' /\ ListInv(c)' /\ \A i \in 1 .. Len(c) : mem'[c[i]] = mem[c[i]]
  BY <1>1, <1>2, ClearFreeList
<1>4. Chain' = c /\ ListInv(Chain)'
  BY <1>3, NextList
<1>5. QueueInv'
  BY <1>1, <1>3, <1>4 DEF QueueInv
<1>6. Held = Elements(mem, c) /\ Held' = Elements(mem', c)
  BY <1>1, <1>4, HeldIs DEF Held, Contents, Elements
<1>7. Elements(mem', c) = Elements(mem, c)
  <2>1. Len(c) \in Nat
    BY <1>1, <1>2, ListFacts
  <2>2. \A i \in 1 .. Len(c) - 1 : i + 1 \in 1 .. Len(c)
    BY <2>1
  <2>3. \A i \in 1 .. Len(c) - 1 : mem'[c[i + 1]].data = mem[c[i + 1]].data
    BY <2>2, <1>3
  <2> QED BY <2>3 DEF Elements
<1> QED
  BY <1>1, <1>5, <1>6, <1>7 DEF Queue!vars

\* The other steps of the clean-up leave the list alone, or free its head.
LEMMA EndStep ==
  ASSUME QueueAssumption, QueueInv,
         ClearBegin \/ ClearEnd \/ easy_queue_uninit \/ UNCHANGED vars
  PROVE  QueueInv' /\ UNCHANGED Queue!vars
<1> SUFFICES ASSUME NEW c, c = Chain PROVE QueueInv' /\ UNCHANGED Queue!vars
  OBVIOUS
<1>1. Types /\ (pc # "gone" => ListInv(c))
  BY DEF QueueInv
<1>2. CASE ClearBegin \/ ClearEnd \/ UNCHANGED vars
  <2>1. UNCHANGED <<alloc, mem, head, tail, size, cursor, result>>
    BY <1>2 DEF ClearBegin, ClearEnd, vars
  <2>2. pc' = "gone" <=> pc = "gone"
    BY <1>2 DEF ClearBegin, ClearEnd, vars
  <2>3. Chain' = Chain /\ Held' = Held
    BY <2>1, <2>2 DEF Chain, Held, Contents
  <2>4. pc' # "gone" => ListInv(c)'
    BY <2>1, <2>2, <1>1, SameList
  <2>5. pc' # "gone" => ListInv(Chain)'
    BY <2>4, NextList
  <2>6. Types'
    BY <1>1, <1>2, <2>1 DEF Types, ClearBegin, ClearEnd, vars
  <2>7. /\ pc' # "clearing" => cursor' = NULL
        /\ pc' = "cleared" => tail' = head'
        /\ pc' = "gone" => alloc' = {}
    BY <1>2, <2>1, <2>2 DEF QueueInv, ClearBegin, ClearEnd, vars
  <2> QED BY <2>1, <2>3, <2>5, <2>6, <2>7 DEF QueueInv, Queue!vars
<1>3. CASE easy_queue_uninit
  <2>1. /\ pc = "cleared" /\ tail = head /\ cursor = NULL /\ ListInv(c) /\ pc' = "gone"
        /\ alloc' = alloc \ {head} /\ mem' = [mem EXCEPT ![head] = Blank]
        /\ UNCHANGED <<head, tail, size, cursor, result>>
    BY <1>3, <1>1 DEF QueueInv, easy_queue_uninit
  <2>2. Len(c) = 1
    BY <1>1, <2>1, ListFacts
  <2>3. alloc = {head}
    <3>1. alloc = {c[i] : i \in 1 .. 1} \cup ({cursor} \ {NULL}) /\ c[1] = head
      BY <2>1, <2>2 DEF ListInv, Linked
    <3>2. 1 .. 1 = {1}
      OBVIOUS
    <3> QED BY <3>1, <3>2, <2>1
  <2>4. Held = <<>> /\ Held' = <<>>
    <3>1. Held = Elements(mem, c)
      BY <2>1, HeldIs
    <3>2. Elements(mem, c) = <<>>
      BY <1>1, <2>1, <2>2, ElementsFacts
    <3> QED BY <3>1, <3>2, <2>1 DEF Held
  <2>5. Blank \in NodeValue
    BY DEF Blank, NodeValue
  <2>6. Types'
    BY <1>1, <2>1, <2>5 DEF Types
  <2>7. QueueInv'
    BY <2>1, <2>3, <2>6 DEF QueueInv
  <2> QED BY <2>1, <2>4, <2>7 DEF Queue!vars
<1> QED
  BY <1>2, <1>3

\* Every step keeps the invariant, and is a step of Fifo or changes nothing there.
LEMMA QueueStep ==
  ASSUME QueueAssumption, QueueInv, [Next]_vars
  PROVE  QueueInv' /\ [Queue!Next]_(Queue!vars)
<1>1. ASSUME NEW p \in Node, NEW x \in Element, easy_queue_push(p, x)
      PROVE  QueueInv' /\ Queue!Next
  BY <1>1, PushStep DEF Queue!Next
<1>2. ASSUME NEW buflen \in BufLen, easy_queue_pop(buflen)
      PROVE  QueueInv' /\ Queue!Next
  <2>1. CASE PopRefused(buflen)
    BY <2>1, RefuseStep DEF Queue!Next
  <2>2. CASE Pop(buflen)
    BY <2>2, PopStep DEF Queue!Next
  <2> QED BY <2>1, <2>2, <1>2 DEF easy_queue_pop
<1>3. CASE ClearLast
  BY <1>3, ClearLastStep DEF Queue!Next
<1>4. CASE ClearFree
  BY <1>4, ClearFreeStep
<1>5. CASE ClearBegin \/ ClearEnd \/ easy_queue_uninit \/ UNCHANGED vars
  BY <1>5, EndStep
<1> QED
  BY <1>1, <1>2, <1>3, <1>4, <1>5 DEF Next, easy_queue_clear

\* What the invariant says about the properties of GQueue.
LEMMA QueueInvMeaning ==
  ASSUME QueueAssumption, QueueInv
  PROVE  TypeOK /\ ListSound /\ NothingLeaked
<1> SUFFICES ASSUME NEW c, c = Chain PROVE TypeOK /\ ListSound /\ NothingLeaked
  OBVIOUS
<1>1. Types /\ (pc # "gone" => ListInv(c)) /\ (pc = "gone" => alloc = {})
  BY DEF QueueInv
<1>2. ASSUME pc # "gone"
      PROVE  /\ c \in [1 .. Len(c) -> Node] /\ Len(c) \in Nat /\ Len(c) >= 1
             /\ \A i \in 1 .. Len(c) : c[i] \in alloc
             /\ c[1] = head /\ c[Len(c)] = tail /\ DOMAIN c = 1 .. Len(c)
             /\ alloc = {c[i] : i \in 1 .. Len(c)} \cup ({cursor} \ {NULL})
  BY <1>1, <1>2, ListFacts DEF ListInv, Linked
<1>3. pc # "gone" => {head, tail} \subseteq alloc
  BY <1>2
<1>4. alloc \subseteq Node
  <2>1. CASE pc = "gone"
    BY <2>1, <1>1
  <2>2. CASE pc # "gone"
    <3>1. \A i \in 1 .. Len(c) : c[i] \in Node
      BY <2>2, <1>2
    <3> QED BY <3>1, <2>2, <1>1, <1>2 DEF Types
  <2> QED BY <2>1, <2>2
<1>5. TypeOK
  BY <1>1, <1>3, <1>4 DEF TypeOK, Types
<1>6. Cardinality({cursor} \ {NULL}) = IF cursor = NULL THEN 0 ELSE 1
  <2>1. CASE cursor = NULL
    <3>1. {cursor} \ {NULL} = {}
      BY <2>1
    <3> QED BY <3>1, <2>1, FS_EmptySet
  <2>2. CASE cursor # NULL
    <3>1. {cursor} \ {NULL} = {cursor}
      BY <2>2
    <3> QED BY <3>1, <2>2, FS_Singleton
  <2> QED BY <2>1, <2>2
<1>7. ListSound
  BY <1>1, <1>6 DEF ListSound, ListInv
<1>8. NothingLeaked
  BY <1>1, <1>2 DEF NothingLeaked
<1> QED
  BY <1>5, <1>7, <1>8

-----------------------------------------------------------------------------
(* Theorems *)

\* The list is a list throughout.
LEMMA QueueAlways == Spec => []QueueInv
<1>1. Init => QueueInv
  BY QueueAssumption, QueueInit
<1>2. QueueInv /\ [Next]_vars => QueueInv'
  BY QueueAssumption, QueueStep
<1> QED
  BY <1>1, <1>2, PTL DEF Spec

(***************************************************************************)
(* Whatever is pushed, popped, refused and cleared, in queues of any       *)
(* length: head and queue_tail of Gqueue.c point to nodes that have not    *)
(* been freed, and the counter is a natural number.                        *)
(***************************************************************************)
THEOREM QueueTypes == Spec => []TypeOK
<1>1. QueueInv => TypeOK
  BY QueueAssumption, QueueInvMeaning
<1> QED
  BY <1>1, QueueAlways, PTL

\* The next pointers lead from the head to queue_tail, the prev pointers back, and
\* size counts the nodes, also while user_handler runs inside easy_queue_clear.
THEOREM QueueListSound == Spec => []ListSound
<1>1. QueueInv => ListSound
  BY QueueAssumption, QueueInvMeaning
<1> QED
  BY <1>1, QueueAlways, PTL

\* malloc and free balance: what is allocated is the list and the node being cleared.
THEOREM QueueNoLeak == Spec => []NothingLeaked
<1>1. QueueInv => NothingLeaked
  BY QueueAssumption, QueueInvMeaning
<1> QED
  BY <1>1, QueueAlways, PTL

\* The pointer manipulations of Gqueue.c implement a first-in-first-out queue.
THEOREM QueueIsFifo == Spec => ImplementsFifo
<1>1. Init => Queue!Init
  <2> SUFFICES ASSUME Init PROVE Queue!Init
    OBVIOUS
  <2>1. Chain = <<head>>
    BY QueueAssumption, QueueInit
  <2>2. pc # "gone" /\ result = Result(0, NoItem, 0, 0)
    BY DEF Init, easy_queue_init
  <2>3. Held = Elements(mem, <<head>>)
    BY <2>1, <2>2, HeldIs
  <2>4. Elements(mem, <<head>>) = <<>>
    BY DEF Elements
  <2> QED BY <2>2, <2>3, <2>4 DEF Queue!Init, Queue!Result, Result
<1>2. QueueInv /\ [Next]_vars => [Queue!Next]_(Queue!vars)
  BY QueueAssumption, QueueStep
<1> QED
  BY <1>1, <1>2, QueueAlways, PTL DEF Spec, ImplementsFifo, Queue!Spec
=============================================================================
