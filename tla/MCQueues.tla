------------------------------- MODULE MCQueues -------------------------------
(* The message queue, by itself the buffer queue behind it, the buffer     *)
(* accumulator with its ring, and the queue without locks; a behaviour is  *)
(* one of one of them.  Two consumers and two other threads.  An urgent    *)
(* message, and of the others one that fits only the larger of two buffers.*)
EXTENDS OsQueue, PriorityBufferQueue, BufferAccumulator, LocklessQueue

VARIABLE part

Msg(pri, size, body) == [pri |-> pri, size |-> size, body |-> body]
MCMessages  == {Msg(2, 1, "urgent"), Msg(1, 2, "long"), Msg(1, 1, "short")}
MCSizes     == {1, 2}
MCConsumers == {"t1", "t2"}
MCThreads   == MCConsumers \cup {"t3", "t4"}
MCSendModes == {"block", "nonblock"}

(* Twice the buffers that the ring of the accumulator has places for.      *)
MCBuffers == {"b1", "b2", "b3", "b4"}

(* One node at the receiver's end and two more.                            *)
MCSenders == {"t3", "t4"}

ASSUME BufferAssumption /\ CountersFit /\ AccumulatorAssumption

QueuesInit ==
    /\ part \in {"queue", "buffer queue", "accumulator", "lockless"}
    /\ Init /\ BufferInit /\ AccumulatorInit
    /\ LocklessInit /\ (part # "lockless" => callers = {"t3"})

QueuesNext ==
    /\ UNCHANGED part
    /\ \/ part = "queue" /\ Next /\ UNCHANGED <<bufferVars, accumulatorVars, locklessVars>>
       \/ part = "buffer queue" /\ BufferNext /\ UNCHANGED <<vars, accumulatorVars, locklessVars>>
       \/ part = "accumulator" /\ AccumulatorNext /\ UNCHANGED <<vars, bufferVars, locklessVars>>
       \/ part = "lockless" /\ LocklessNext /\ UNCHANGED <<vars, bufferVars, accumulatorVars>>

(* Fairness is assumed of the threads of the message queue.                *)
QueuesSpec == /\ QueuesInit /\ [][QueuesNext]_<<part, vars, bufferVars, accumulatorVars, locklessVars>>
              /\ part = "queue" => Fairness

-----------------------------------------------------------------------------
(* Heaps of n nodes of two values; a node's id is its age when the push    *)
(* counter is at o, whether or not it has wrapped since its push.          *)
Heaps(n, o) ==
    {[i \in 1 .. n |-> [value |-> v[i], order |-> (o - a[i]) % OrderMod, id |-> a[i]]] :
        v \in [1 .. n -> 1 .. 2], a \in {f \in [1 .. n -> 1 .. n] : IsInjective(f)}}
Stable(h, o) == \A i \in 2 .. Len(h) : Larger(h, o, Parent(i), i) = Parent(i)

(* The nodes of h in the order in which repeated calls of pop return them. *)
Drained(h, o) ==
    LET PopOne(s, i) == [out |-> Append(s.out, s.heap[1]), heap |-> HeapPop(s.heap, o)]
    IN  FoldLeft(PopOne, [out |-> <<>>, heap |-> h], [i \in DOMAIN h |-> i]).out

(* The heap of MaxHeap.cpp by itself, wherever the push counter stands, on *)
(* every stable heap of up to five nodes, in which a node sinks two        *)
(* levels: what is popped comes out by value and then by age, and a push   *)
(* keeps the nodes that were there, adds its own and leaves a stable heap. *)
ASSUME HeapOperations ==
    \A o \in 0 .. OrderMod - 1, n \in 1 .. 5 :
    \A h \in {g \in Heaps(n, o) : Stable(g, o)} :
        /\ Drained(h, o) = SortSeq(h, LAMBDA a, b : \/ a.value > b.value
                                               \/ (a.value = b.value /\ a.id > b.id))
        /\ \A v \in 1 .. 3 :
              LET node == [value |-> v, order |-> o, id |-> 0]
              IN  /\ Stable(HeapPush(h, node), o)
                  /\ ToSet(HeapPush(h, node)) = ToSet(h) \cup {node}
=============================================================================
