----------------------------- MODULE PriorityFifo -----------------------------
(***************************************************************************)
(* What an Os::BufferQueue built on PriorityBufferQueue.cpp promises: at   *)
(* most Depth messages, handed out in order of decreasing priority and,    *)
(* among those of equal priority, in the order they came in, except that a *)
(* message counts as new when a receiver's buffer was too small for it.    *)
(* The queue is the sequence of its messages in the order they are to be   *)
(* handed out.                                                             *)
(***************************************************************************)
EXTENDS QueueMessages

VARIABLES msgs,      \* the messages in the queue, the next one first
          last       \* the message handed out last

(* A mutant: the least urgent message comes first.                        *)
MutantPlaced(q, m, s) ==
    \E k \in 0 .. Len(q) :
        /\ \A i \in 1 .. k : q[i].pri <= m.pri
        /\ \A i \in k + 1 .. Len(q) : q[i].pri > m.pri
        /\ s = [i \in 1 .. Len(q) + 1 |->
                    IF i <= k THEN q[i] ELSE IF i = k + 1 THEN m ELSE q[i - 1]]

(* m goes behind all that are at least as urgent and before all others.    *)
Placed(q, m, s) ==
    \E k \in 0 .. Len(q) :
        /\ \A i \in 1 .. k : q[i].pri >= m.pri
        /\ \A i \in k + 1 .. Len(q) : q[i].pri < m.pri
        /\ s = [i \in 1 .. Len(q) + 1 |->
                    IF i <= k THEN q[i] ELSE IF i = k + 1 THEN m ELSE q[i - 1]]

InitFifo == msgs = <<>> /\ last = NoMessage

Put(m) ==
    /\ Len(msgs) < Depth
    /\ Placed(msgs, m, msgs')
    /\ UNCHANGED last

Take ==
    /\ msgs # <<>>
    /\ last' = Head(msgs)
    /\ msgs' = Tail(msgs)

Requeue ==
    /\ msgs # <<>>
    /\ Placed(Tail(msgs), Head(msgs), msgs')
    /\ UNCHANGED last

FifoSpec == InitFifo /\ [][Take \/ Requeue \/ \E m \in Messages : Put(m)]_<<msgs, last>>
=============================================================================
