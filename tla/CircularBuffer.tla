---------------------------- MODULE CircularBuffer ----------------------------
(* Utils/Types/CircularBuffer: a ring over a store of bytes, as the record *)
(* of its members.  A U32 in the ring is one cell here.                    *)
EXTENDS Integers, Sequences

CONSTANTS Store, \* m_store_size
          Byte   \* the values of a cell

RingAssumption == Store \in Nat \ {0}

Rings == [m_store : [0 .. Store - 1 -> Byte], m_head_idx : 0 .. Store - 1, m_allocated_size : 0 .. Store]

GetFreeSize(ring) == Store - ring.m_allocated_size
AdvanceIdx(idx, amount) == (idx + amount) % Store

(* The value at an offset that holds one, and all the values there are.    *)
Peek(ring, offset) == ring.m_store[AdvanceIdx(ring.m_head_idx, offset)]
Contents(ring) == [i \in 1 .. ring.m_allocated_size |-> Peek(ring, i - 1)]

(* serialize of data that fits, and rotate by no more than there is.       *)
Serialize(ring, data) ==
    LET first == AdvanceIdx(ring.m_head_idx, ring.m_allocated_size)
    IN  [ring EXCEPT
           !.m_store = [idx \in 0 .. Store - 1 |->
               LET i == ((idx - first) % Store) + 1 IN IF i <= Len(data) THEN data[i] ELSE @[idx]],
           !.m_allocated_size = @ + Len(data)]

Rotate(ring, amount) ==
    [ring EXCEPT !.m_head_idx = AdvanceIdx(@, amount), !.m_allocated_size = @ - amount]
=============================================================================
