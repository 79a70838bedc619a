------------------------- MODULE PriorityBufferQueue -------------------------
(***************************************************************************)
(* Os::BufferQueue as PriorityBufferQueue.cpp implements it: messages are  *)
(* stored in Depth slots, the free slots circulate in the ring `indexes',  *)
(* and a stable max heap holds the priorities and slots of what is queued. *)
(* Its callers hold the lock of Queue.cpp, so push and pop are steps.      *)
(***************************************************************************)
EXTENDS QueueMessages, MaxHeap, SequencesExt

CONSTANTS
    IndexMod,         \* 2^32, where startIndex and stopIndex wrap
    AgeBound          \* bound: pushes while one message stays queued

BufferAssumption ==
    OrderMod \in Nat /\ IndexMod \in Nat /\ Depth < OrderMod /\ Depth < IndexMod

(* The counters wrap where the code can stand it (README, section 5): the  *)
(* ring goes round a whole number of times, and no message sees as many    *)
(* pushes as the push counter counts.                                      *)
CountersFit == IndexMod % Depth = 0 /\ AgeBound \in Nat \ {0} /\ AgeBound < OrderMod

VARIABLES
    heap, order,                      \* the MaxHeap: nodes, push counter
    indexes, startIndex, stopIndex,   \* the ring of free slots
    data,                             \* what each slot stores
    count, maxCount,                  \* size and high-water mark
    popped                            \* the message handed out last

ring == <<indexes, startIndex, stopIndex>>
bufferVars == <<heap, order, ring, data, count, maxCount, popped>>

Slots == 0 .. Depth - 1

BufferInit ==
    /\ heap = <<>> /\ order = 0
    /\ indexes = [i \in Slots |-> i] /\ startIndex = 0 /\ stopIndex = Depth
    /\ data = [i \in Slots |-> NoMessage]
    /\ count = 0 /\ maxCount = 0 /\ popped = NoMessage

NewNode(pri, slot) == [value |-> pri, order |-> order, id |-> slot]

(* The bound on the pushes that a queued message sees.                     *)
AgesBounded == \A i \in DOMAIN heap : Age(order, heap[i]) < AgeBound

(* A mutant: startIndex is counted up before it is used.                   *)
MutantPush(m) ==
    /\ count # Depth /\ AgesBounded
    /\ startIndex' = (startIndex + 1) % IndexMod
    /\ LET slot == indexes[startIndex' % Depth]
       IN  /\ heap' = HeapPush(heap, NewNode(m.pri, slot))
           /\ data' = [data EXCEPT ![slot] = m]
    /\ order' = (order + 1) % OrderMod
    /\ count' = count + 1
    /\ maxCount' = IF count' > maxCount THEN count' ELSE maxCount
    /\ UNCHANGED <<indexes, stopIndex, popped>>

Push(m) ==
    /\ count # Depth /\ AgesBounded
    /\ LET slot == indexes[startIndex % Depth]
       IN  /\ heap' = HeapPush(heap, NewNode(m.pri, slot))
           /\ data' = [data EXCEPT ![slot] = m]
    /\ startIndex' = (startIndex + 1) % IndexMod
    /\ order' = (order + 1) % OrderMod
    /\ count' = count + 1
    /\ maxCount' = IF count' > maxCount THEN count' ELSE maxCount
    /\ UNCHANGED <<indexes, stopIndex, popped>>

Pop(capacity) ==
    /\ count # 0
    /\ data[heap[1].id].size <= capacity
    /\ popped' = [data[heap[1].id] EXCEPT !.pri = heap[1].value]
    /\ heap' = HeapPop(heap, order)
    /\ indexes' = [indexes EXCEPT ![stopIndex % Depth] = heap[1].id]
    /\ stopIndex' = (stopIndex + 1) % IndexMod
    /\ count' = count - 1
    /\ UNCHANGED <<order, startIndex, data, maxCount>>

(* A mutant: the slot goes back to the pool, though its message is kept.   *)
MutantPopTooSmall(capacity) ==
    /\ count # 0 /\ AgesBounded
    /\ data[heap[1].id].size > capacity
    /\ heap' = HeapPush(HeapPop(heap, order), NewNode(heap[1].value, heap[1].id))
    /\ order' = (order + 1) % OrderMod
    /\ indexes' = [indexes EXCEPT ![stopIndex % Depth] = heap[1].id]
    /\ stopIndex' = (stopIndex + 1) % IndexMod
    /\ UNCHANGED <<startIndex, data, count, maxCount, popped>>

(* The buffer is too small: the popped node is pushed back, as a new one.  *)
PopTooSmall(capacity) ==
    /\ count # 0 /\ AgesBounded
    /\ data[heap[1].id].size > capacity
    /\ heap' = HeapPush(HeapPop(heap, order), NewNode(heap[1].value, heap[1].id))
    /\ order' = (order + 1) % OrderMod
    /\ UNCHANGED <<ring, data, count, maxCount, popped>>

BufferNext ==
    \/ \E m \in Messages : Push(m)
    \/ \E c \in Capacities : Pop(c) \/ PopTooSmall(c)

BufferSpec == BufferInit /\ [][BufferNext]_bufferVars
-----------------------------------------------------------------------------
(* Every part of the state has its type.                                   *)
BufferTypeOK ==
    /\ heap \in Seq([value : Int, order : 0 .. OrderMod - 1, id : Slots])
    /\ order \in 0 .. OrderMod - 1
    /\ indexes \in [Slots -> Slots]
    /\ startIndex \in 0 .. IndexMod - 1 /\ stopIndex \in 0 .. IndexMod - 1
    /\ data \in [Slots -> Messages \cup {NoMessage}]
    /\ count \in 0 .. Depth /\ maxCount \in count .. Depth
    /\ popped \in Messages \cup {NoMessage}

(* checkoutIndex always gets an available index: the ring between          *)
(* startIndex and stopIndex holds every slot that no queued message uses,  *)
(* once, so that no message is stored over one that is still queued.       *)
PoolHoldsTheFreeSlots ==
    LET free == (stopIndex - startIndex) % IndexMod
        FreeSlot(k) == indexes[((startIndex + k) % IndexMod) % Depth]
        held == [k \in 1 .. free + Len(heap) |->
                    IF k <= free THEN FreeSlot(k - 1) ELSE heap[k - free].id]
    IN  BufferTypeOK /\ Len(heap) = count /\ Len(held) = Depth /\ IsInjective(held)
-----------------------------------------------------------------------------
(* The messages in the order of their nodes: by priority, then by age.     *)
Nodes     == ToSet(heap)
Ahead(x)  == {y \in Nodes : Precedes(order, y, x)}
Stored(x) == [data[x.id] EXCEPT !.pri = x.value]
Listed    == [k \in DOMAIN heap |-> Stored(CHOOSE x \in Nodes : Cardinality(Ahead(x)) = k - 1)]

Fifo == INSTANCE PriorityFifo WITH msgs <- Listed, last <- popped

(* Messages come out by priority, those of one priority first in first     *)
(* out unless a receive failed, each once and with its own content: the    *)
(* buffer queue implements the abstract one.                               *)
ImplementsFifo == Fifo!FifoSpec
=============================================================================
