--------------------------- MODULE BufferAccumulator ---------------------------
(* Svc::BufferAccumulator stores buffers in a ring and hands them to a     *)
(* receiver downstream, the next one when the last one comes back; in the  *)
(* mode ACCUMULATE it is meant to hold them.  Its three handlers run on    *)
(* its own thread.  A buffer on its way to or from it counts as being with *)
(* the one who sent it.                                                    *)
EXTENDS Naturals, Sequences, SequencesExt

CONSTANTS
    Buffers,     \* the buffers of the components upstream
    NoBuffer,    \* what a place of the ring holds at first
    Capacity     \* maxNumBuffers in allocateQueue

AccumulatorAssumption == Capacity \in Nat /\ NoBuffer \notin Buffers

VARIABLES
    mode,        \* "DRAIN" or "ACCUMULATE"
    bufferQueue, \* the ring: its elements, enqueueIndex, dequeueIndex, size
    send,        \* whether the next buffer is to be handed on
    upstream,    \* the buffers that are with the components upstream
    out,         \* the buffers that are with the receiver
    dropped,     \* the buffers that came when the ring was full
    stored       \* history: the accepted buffers that are not handed on yet

accumulatorVars == <<mode, bufferQueue, send, upstream, out, dropped, stored>>

Places == 0 .. Capacity - 1
Rings  == [elements : [Places -> Buffers \cup {NoBuffer}],
           enqueueIndex : Places \cup {0}, dequeueIndex : Places \cup {0}, size : 0 .. Capacity]

AccumulatorInit ==
    /\ mode = "DRAIN" /\ send = TRUE
    /\ bufferQueue = [elements |-> [i \in Places |-> NoBuffer],
                      enqueueIndex |-> 0, dequeueIndex |-> 0, size |-> 0]
    /\ upstream = Buffers /\ out = {} /\ dropped = {} /\ stored = <<>>

-----------------------------------------------------------------------------
(* The ring.                                                               *)

Enqueue(q, b) ==
    [elements |-> [q.elements EXCEPT ![q.enqueueIndex] = b],
     enqueueIndex |-> (q.enqueueIndex + 1) % Capacity,
     dequeueIndex |-> q.dequeueIndex, size |-> q.size + 1]

Dequeue(q) == [q EXCEPT !.dequeueIndex = (@ + 1) % Capacity, !.size = @ - 1]

(* The buffers of the ring, the oldest first.                              *)
Contents(q) == [i \in 1 .. q.size |-> q.elements[(q.dequeueIndex + i - 1) % Capacity]]

-----------------------------------------------------------------------------
(* sendStoredBuffer, on a ring q whose buffers are s, with send set: the   *)
(* oldest buffer goes on, and the next waits until it is back.             *)
SendStored(q, s, outside) ==
    IF q.size = 0
    THEN bufferQueue' = q /\ stored' = s /\ send' = TRUE /\ out' = outside
    ELSE /\ bufferQueue' = Dequeue(q) /\ stored' = Tail(s)
         /\ out' = outside \cup {q.elements[q.dequeueIndex]}
         /\ send' = FALSE

SendIfSet(q, s, outside) ==
    IF send THEN SendStored(q, s, outside)
    ELSE bufferQueue' = q /\ stored' = s /\ out' = outside /\ UNCHANGED send

bufferSendInFill(b) ==
    /\ b \in upstream /\ upstream' = upstream \ {b}
    /\ IF bufferQueue.size < Capacity
       THEN /\ SendIfSet(Enqueue(bufferQueue, b), Append(stored, b), out)
            /\ UNCHANGED dropped
       ELSE /\ dropped' = dropped \cup {b}
            /\ SendIfSet(bufferQueue, stored, out)
    /\ UNCHANGED mode

(* The buffer goes back upstream, and the next one on: in either mode.     *)
bufferSendInReturn(b) ==
    /\ b \in out /\ upstream' = upstream \cup {b}
    /\ SendStored(bufferQueue, stored, out \ {b})
    /\ UNCHANGED <<mode, dropped>>

(* A mutant: the command only sets the flag.                               *)
MutantSetMode(m) ==
    /\ mode' = m
    /\ send' = (m = "DRAIN")
    /\ UNCHANGED <<bufferQueue, stored, out, upstream, dropped>>

BA_SetMode(m) ==
    /\ mode' = m
    /\ IF m = "DRAIN" THEN SendStored(bufferQueue, stored, out)
       ELSE send' = FALSE /\ UNCHANGED <<bufferQueue, stored, out>>
    /\ UNCHANGED <<upstream, dropped>>

AccumulatorNext ==
    \/ \E b \in Buffers : bufferSendInFill(b) \/ bufferSendInReturn(b)
    \/ \E m \in {"DRAIN", "ACCUMULATE"} : BA_SetMode(m)

AccumulatorSpec == AccumulatorInit /\ [][AccumulatorNext]_accumulatorVars

-----------------------------------------------------------------------------
AccumulatorTypeOK ==
    /\ mode \in {"DRAIN", "ACCUMULATE"} /\ send \in BOOLEAN
    /\ bufferQueue \in Rings
    /\ upstream \subseteq Buffers /\ out \subseteq Buffers /\ dropped \subseteq Buffers
    /\ stored \in Seq(Buffers)

(* However buffers come, return and modes change, and however often the    *)
(* indexes have gone round: the ring holds the accepted buffers in the     *)
(* order in which they came; a buffer is in one place; and a draining      *)
(* accumulator does not sit on stored buffers: it waits for one to return, *)
(* which will send the next.                                               *)
DrainsInOrder ==
    /\ AccumulatorTypeOK
    /\ Contents(bufferQueue) = stored
    /\ LET places == <<upstream, out, dropped, ToSet(stored)>>
       IN  \A b \in Buffers : \E i \in 1 .. 4 : \A j \in 1 .. 4 : b \in places[j] <=> j = i
    /\ IsInjective(stored)
    /\ mode = "DRAIN" /\ stored # <<>> => out # {} /\ ~ send
=============================================================================
