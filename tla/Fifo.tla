-------------------------------- MODULE Fifo --------------------------------
(***************************************************************************)
(* What easy_queue_t promises: items come out in the order they went in,   *)
(* each once; an item that does not fit in the caller's buffer stays and   *)
(* its length is reported; and the items that are left when the queue is   *)
(* cleared are handed, the last one first, to the owner's handler.         *)
(***************************************************************************)
EXTENDS Integers, Sequences

CONSTANTS
  Item,       \* what is queued
  NoItem,     \* not an item
  Size(_),    \* the length of an item
  Room        \* the sizes of the callers' buffers

VARIABLES
  items,     \* the queue, oldest first
  result     \* what the last operation was asked for and gave out

vars == <<items, result>>

\* Return value, item, length and the size of the caller's buffer.
Result(r, x, n, room) == [ret |-> r, item |-> x, len |-> n, room |-> room]

Init == items = <<>> /\ result = Result(0, NoItem, 0, 0)

Put(x) ==
  /\ items' = Append(items, x)
  /\ result' = Result(0, NoItem, 0, 0)

Take(room) ==
  /\ items # <<>>
  /\ Size(items[1]) <= room
  /\ items' = Tail(items)
  /\ result' = Result(0, items[1], Size(items[1]), room)

Refuse(room) ==
  /\ items # <<>> => Size(items[1]) > room
  /\ result' = Result(-1, NoItem, IF items = <<>> THEN 0 ELSE Size(items[1]), room)
  /\ UNCHANGED items

Discard ==
  /\ items # <<>>
  /\ items' = SubSeq(items, 1, Len(items) - 1)
  /\ result' = Result(0, items[Len(items)], Size(items[Len(items)]), 0)

Next ==
  \/ \E x \in Item : Put(x)
  \/ \E room \in Room : Take(room) \/ Refuse(room)
  \/ Discard

Spec == Init /\ [][Next]_vars
=============================================================================
