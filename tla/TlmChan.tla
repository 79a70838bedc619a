------------------------------- MODULE TlmChan -------------------------------
(* The telemetry store, Svc/TlmChan.  Components write and read channels   *)
(* through guarded ports, in one of two tables.  Run, on the component's   *)
(* thread, swaps the tables under the same lock, and then sends what was   *)
(* updated in the table it took away, without the lock.                    *)
(*                                                                         *)
(* A table keeps its buckets in the order in which they were taken, and a  *)
(* hash slot is the chain of its buckets.  A value is the number of the    *)
(* TlmRecv call that brought it; 0 is an empty buffer.                     *)
EXTENDS Integers, Sequences, FiniteSets

CONSTANTS
    Channels,   \* the ids of the channels
    doHash(_),  \* the slot of an id
    HashSlots,  \* TLMCHAN_NUM_TLM_HASH_SLOTS
    Buckets,    \* TLMCHAN_HASH_BUCKETS
    MaxWrites   \* bound: TlmRecv calls

TlmAssumption ==
    /\ Buckets \in Nat \ {0} /\ MaxWrites \in Nat
    /\ IsFiniteSet(Channels) /\ Cardinality(Channels) <= Buckets
    /\ \A id \in Channels : doHash(id) \in HashSlots

VARIABLES
    m_activeBuffer,   \* 0 or 1: the table that the ports use
    slots,            \* the chains of each table
    buckets,          \* the buckets of each table
    free,             \* buckets in use, of each table
    entry,            \* the bucket that Run looks at next, or 0 outside of Run
    sent,             \* the packets of the Run under way, or of the last one
    writes,           \* TlmRecv calls
    since,            \* the newest value of a channel written since the last swap, or 0
    atSwap            \* what `since` was at that swap

tables == <<slots, buckets, free>>
tlmVars == <<m_activeBuffer, tables, entry, sent, writes, since, atSwap>>

Tables  == {0, 1}
Unused  == [id |-> 0, used |-> FALSE, updated |-> FALSE, buffer |-> 0]
Nothing == [id \in Channels |-> 0]

TlmInit ==
    /\ m_activeBuffer = 0
    /\ slots = [t \in Tables |-> [s \in HashSlots |-> <<>>]]
    /\ buckets = [t \in Tables |-> [b \in 1 .. Buckets |-> Unused]]
    /\ free = [t \in Tables |-> 0]
    /\ entry = 0 /\ sent = <<>>
    /\ writes = 0 /\ since = Nothing /\ atSwap = Nothing

-----------------------------------------------------------------------------
(* The buckets of id's chain in the active table that hold id.             *)
Chain(id) == slots[m_activeBuffer][doHash(id)]
Found(id) == {b \in {Chain(id)[i] : i \in DOMAIN Chain(id)} : buckets[m_activeBuffer][b].id = id}

Update(id, b) ==
    /\ buckets' = [buckets EXCEPT ![m_activeBuffer][b] =
                      [id |-> id, used |-> TRUE, updated |-> TRUE, buffer |-> writes + 1]]
    /\ writes' = writes + 1
    /\ since' = [since EXCEPT ![id] = writes + 1]
    /\ UNCHANGED <<m_activeBuffer, entry, sent, atSwap>>

(* TlmRecv.  Channels fit the buckets, so that the assertion on `free`     *)
(* holds and a new channel has a bucket.                                   *)
TlmRecvKnown(id) ==
    /\ writes < MaxWrites
    /\ \E b \in Found(id) : Update(id, b)
    /\ UNCHANGED <<slots, free>>

TlmRecvNew(id) ==
    /\ writes < MaxWrites /\ Found(id) = {}
    /\ LET b == free[m_activeBuffer] + 1
       IN  /\ b <= Buckets
           /\ Update(id, b)
           /\ slots' = [slots EXCEPT ![m_activeBuffer][doHash(id)] = Append(@, b)]
           /\ free' = [free EXCEPT ![m_activeBuffer] = b]

(* Run: the swap, with the lock, then a bucket at a time, without it.      *)
RunSwap ==
    /\ entry = 0 /\ entry' = 1
    /\ m_activeBuffer' = 1 - m_activeBuffer
    /\ buckets' = [buckets EXCEPT ![1 - m_activeBuffer] =
                      [b \in 1 .. Buckets |-> [@[b] EXCEPT !.updated = FALSE]]]
    /\ sent' = <<>> /\ atSwap' = since /\ since' = Nothing
    /\ UNCHANGED <<slots, free, writes>>

(* A mutant: Run looks at the table that is active after the swap.         *)
MutantRunEntry ==
    /\ entry # 0
    /\ entry' = IF entry = Buckets THEN 0 ELSE entry + 1
    /\ LET b == buckets[m_activeBuffer][entry]
       IN  IF b.updated /\ b.used
           THEN /\ sent' = Append(sent, [id |-> b.id, buffer |-> b.buffer])
                /\ buckets' = [buckets EXCEPT ![m_activeBuffer][entry].updated = FALSE]
           ELSE UNCHANGED <<sent, buckets>>
    /\ UNCHANGED <<m_activeBuffer, slots, free, writes, since, atSwap>>

RunEntry ==
    /\ entry # 0
    /\ entry' = IF entry = Buckets THEN 0 ELSE entry + 1
    /\ LET b == buckets[1 - m_activeBuffer][entry]
       IN  IF b.updated /\ b.used
           THEN /\ sent' = Append(sent, [id |-> b.id, buffer |-> b.buffer])
                /\ buckets' = [buckets EXCEPT ![1 - m_activeBuffer][entry].updated = FALSE]
           ELSE UNCHANGED <<sent, buckets>>
    /\ UNCHANGED <<m_activeBuffer, slots, free, writes, since, atSwap>>

TlmNext == (\E id \in Channels : TlmRecvKnown(id) \/ TlmRecvNew(id)) \/ RunSwap \/ RunEntry

TlmSpec == TlmInit /\ [][TlmNext]_tlmVars

-----------------------------------------------------------------------------
TlmTypeOK ==
    /\ m_activeBuffer \in Tables
    /\ slots \in [Tables -> [HashSlots -> Seq(1 .. Buckets)]]
    /\ buckets \in [Tables -> [1 .. Buckets ->
                       [id : Channels \cup {0}, used : BOOLEAN, updated : BOOLEAN,
                        buffer : 0 .. MaxWrites]]]
    /\ free \in [Tables -> 0 .. Buckets] /\ entry \in 0 .. Buckets
    /\ writes \in 0 .. MaxWrites /\ sent \in Seq([id : Channels, buffer : 0 .. MaxWrites])
    /\ since \in [Channels -> 0 .. MaxWrites] /\ atSwap \in [Channels -> 0 .. MaxWrites]

Sent(id)   == {i \in DOMAIN sent : sent[i].id = id}
ToCome(id) == {b \in 1 .. Buckets : /\ entry # 0 /\ b >= entry
                                    /\ buckets[1 - m_activeBuffer][b].updated
                                    /\ buckets[1 - m_activeBuffer][b].id = id}
Copies(id) == Cardinality(Sent(id)) + Cardinality(ToCome(id))

(* The channels fit: a new channel of a table finds a free bucket (the     *)
(* assertion at TlmChanImplRecv.cpp:39), and a read finds at most one.     *)
BucketsSuffice == \A id \in Channels :
    /\ Cardinality(Found(id)) <= 1
    /\ Found(id) = {} => free[m_activeBuffer] < Buckets

(* A Run sends every channel that was written since the Run before it,     *)
(* with the newest value it had at the swap, once, whatever is written     *)
(* while it sends (TlmChanImplTask.cpp:33): each is sent already or still  *)
(* to come.  No write is lost to a full table.                             *)
SendsTheSwap ==
    /\ TlmTypeOK /\ BucketsSuffice
    /\ \A id \in Channels :
          /\ Copies(id) = IF atSwap[id] = 0 THEN 0 ELSE 1
          /\ \A i \in Sent(id) : sent[i].buffer = atSwap[id]
          /\ \A b \in ToCome(id) : buckets[1 - m_activeBuffer][b].buffer = atSwap[id]
=============================================================================
