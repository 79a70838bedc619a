---------------------------- MODULE BufferManager ----------------------------
(* The buffer manager, Svc/BufferManager: a pool of buffers, in bins of    *)
(* growing size, that components take and give back through guarded ports. *)
(* A buffer is known by its place in the pool, the id of its context.      *)
EXTENDS Integers, Sequences, FiniteSets

CONSTANT BufferSizes    \* the size of each buffer, in the order of setup
BuffersAssumption == BufferSizes \in Seq(Nat)

VARIABLES
    allocated,   \* the buffers whose allocated flag is set
    m_currBuffs, m_highWater, m_noBuffs, m_emptyBuffs

telemetry == <<m_currBuffs, m_highWater, m_noBuffs, m_emptyBuffs>>
bufferVars == <<allocated, telemetry>>

Init == allocated = {} /\ m_currBuffs = 0 /\ m_highWater = 0 /\ m_noBuffs = 0 /\ m_emptyBuffs = 0

(* bufferGetCallee: the first free buffer that is large enough.            *)
Fitting(request) == {id \in DOMAIN BufferSizes \ allocated : request <= BufferSizes[id]}
FirstOf(ids) == CHOOSE id \in ids : \A other \in ids : id <= other

Allocate(request) ==
    /\ Fitting(request) # {}
    /\ allocated' = allocated \cup {FirstOf(Fitting(request))}
    /\ m_currBuffs' = m_currBuffs + 1
    /\ m_highWater' = IF m_currBuffs + 1 > m_highWater THEN m_currBuffs + 1 ELSE m_highWater
    /\ UNCHANGED <<m_noBuffs, m_emptyBuffs>>

NoBuffsAvailable(request) ==
    /\ Fitting(request) = {}
    /\ m_noBuffs' = m_noBuffs + 1
    /\ UNCHANGED <<allocated, m_currBuffs, m_highWater, m_emptyBuffs>>

(* A mutant: the flag of a buffer that comes back stays set.               *)
MutantSendIn(id, bufferSize) ==
    IF bufferSize = 0
    THEN m_emptyBuffs' = m_emptyBuffs + 1 /\ UNCHANGED <<allocated, m_currBuffs, m_highWater, m_noBuffs>>
    ELSE m_currBuffs' = m_currBuffs - 1 /\ UNCHANGED <<allocated, m_highWater, m_noBuffs, m_emptyBuffs>>

(* bufferSendIn of a buffer that was allocated: the size it comes back     *)
(* with decides whether it is taken back.                                  *)
SendIn(id, bufferSize) ==
    IF bufferSize = 0
    THEN m_emptyBuffs' = m_emptyBuffs + 1 /\ UNCHANGED <<allocated, m_currBuffs, m_highWater, m_noBuffs>>
    ELSE /\ allocated' = allocated \ {id}
         /\ m_currBuffs' = m_currBuffs - 1
         /\ UNCHANGED <<m_highWater, m_noBuffs, m_emptyBuffs>>

(* Its assertions on a buffer that is returned.                            *)
MayReturn(id, bufferSize) == bufferSize = 0 \/ (id \in allocated /\ bufferSize <= BufferSizes[id])
=============================================================================
