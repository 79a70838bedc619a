------------------------------- MODULE MaxHeap -------------------------------
(***************************************************************************)
(* Os::MaxHeap, the array that keeps the queue's order.  A node has a      *)
(* value (the message's priority), the value of the push counter `order'   *)
(* at its push, and an id.  The array is a sequence, so that the root is 1 *)
(* and the children of i are 2i and 2i+1.  A loop of the code is the       *)
(* function of its turns, which stay where they are once the loop's break  *)
(* is reached.                                                             *)
(***************************************************************************)
EXTENDS Integers, Sequences

CONSTANT OrderMod    \* 2^32, where the push counter wraps

Parent(i) == i \div 2
LChild(i) == 2 * i
RChild(i) == 2 * i + 1

Age(order, node) == (order - node.order) % OrderMod

(* Of two nodes of equal value the older one is the larger.                *)
Precedes(order, a, b) ==
    a.value > b.value \/ (a.value = b.value /\ Age(order, a) > Age(order, b))

(* The new node climbs past every parent of a smaller value.               *)
Climb(s, node) ==
    IF s.at = 1 \/ node.value <= s.heap[Parent(s.at)].value THEN s
    ELSE [heap |-> [s.heap EXCEPT ![s.at] = s.heap[Parent(s.at)]], at |-> Parent(s.at)]

Climbing(heap, node) ==
    LET turn[k \in 0 .. Len(heap)] ==
            IF k = 0 THEN [heap |-> Append(heap, node), at |-> Len(heap) + 1]
            ELSE Climb(turn[k - 1], node)
    IN  turn

HeapPush(heap, node) ==
    LET end == Climbing(heap, node)[Len(heap)] IN [end.heap EXCEPT ![end.at] = node]

(* MaxHeap::max.                                                           *)
Larger(heap, order, a, b) == IF Precedes(order, heap[a], heap[b]) THEN a ELSE b

Sink(s, order) ==
    LET i == s.at
        left == IF LChild(i) > Len(s.heap) THEN i ELSE Larger(s.heap, order, LChild(i), i)
        largest == IF RChild(i) > Len(s.heap) THEN left
                   ELSE Larger(s.heap, order, RChild(i), left)
    IN  [heap |-> [s.heap EXCEPT ![i] = s.heap[largest], ![largest] = s.heap[i]],
         at   |-> largest]

Sinking(heap, order) ==
    LET turn[k \in 0 .. Len(heap)] ==
            IF k = 0 THEN [heap |-> heap, at |-> 1] ELSE Sink(turn[k - 1], order)
    IN  turn

Heapify(heap, order) == Sinking(heap, order)[Len(heap)].heap

(* The last node takes the root's place and sinks.                         *)
HeapPop(heap, order) ==
    Heapify(SubSeq([heap EXCEPT ![1] = heap[Len(heap)]], 1, Len(heap) - 1), order)
=============================================================================
