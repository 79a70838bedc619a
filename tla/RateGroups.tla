------------------------------ MODULE RateGroups ------------------------------
(***************************************************************************)
(* Svc::RateGroupDriver divides the primary tick; every divided tick is    *)
(* sent to an active rate group (Svc::ActiveRateGroup), whose thread calls *)
(* the members of the group and reports a cycle slip when the next tick    *)
(* comes before it is done.                                                *)
(***************************************************************************)
EXTENDS Naturals, Sequences, FiniteSets

CONSTANTS
    Dividers,      \* m_dividers; a 0 means that the port is not used
    Rollover,      \* m_rollover, which configure() computes from them
    NumContexts,   \* m_numContexts: members in each rate group
    QueueDepth,    \* depth of the queue of each rate group
    Throttle,      \* ACTIVE_RATE_GROUP_OVERRUN_THROTTLE
    MaxPings       \* bound: pings under way for each rate group

Groups == DOMAIN Dividers

(* configure(): m_rollover is 1 and takes the dividers in turn; p[i] is its *)
(* value after i of them.                                                  *)
RolloverSteps(p) ==
    /\ p[0] = 1 /\ p[Len(Dividers)] = Rollover
    /\ \A i \in Groups : p[i] = IF Dividers[i] = 0 THEN p[i - 1] ELSE p[i - 1] * Dividers[i]

RateGroupsAssumption ==
    /\ Dividers \in Seq(Nat) /\ Dividers # <<>> /\ Rollover \in Nat
    /\ \E p \in [0 .. Len(Dividers) -> 1 .. Rollover] : RolloverSteps(p)
    /\ NumContexts \in Nat \ {0} /\ QueueDepth \in Nat \ {0}
    /\ Throttle \in Nat \ {0} /\ MaxPings \in Nat

VARIABLES
    m_ticks,         \* the driver's tick counter
    todo,            \* the driver: entries still to be called in this tick, in order
    hooked,          \* the driver has run preMsgHook of the first of them
    cycles,          \* per group, its message queue
    at,              \* per group, where its thread is, see Waits
    m_cycleStarted,  \* per group
    throttle,        \* per group, m_overrunThrottle
    groupHalted,     \* a ping found a full queue: its port call asserts
    age,             \* history: ticks since the group was last called
    gaps,            \* history: distances in ticks between the calls of a group
    early,           \* history: since the group was last idle, a tick was early
    overrun,         \* history: and one came while the members were called
    reported         \* history: and a slip was reported

driverVars == <<m_ticks, todo, hooked, age, gaps>>
groupVars  == <<at, throttle, reported>>
arrivalVars == <<early, overrun>>
rateVars == <<driverVars, cycles, groupVars, m_cycleStarted, groupHalted, arrivalVars>>

(* The thread of a group waits for messages, has taken a cycle from the    *)
(* queue, is about to call member at[g], or is about to check for a slip.  *)
Waits == 0
Check == NumContexts + 1
Taken == NumContexts + 2

RateInit ==
    /\ m_ticks = 0 /\ todo = {} /\ hooked = FALSE
    /\ cycles = [g \in Groups |-> <<>>]
    /\ at = [g \in Groups |-> Waits]
    /\ m_cycleStarted = [g \in Groups |-> FALSE]
    /\ throttle = [g \in Groups |-> 0]
    /\ groupHalted = FALSE
    /\ age = Dividers /\ gaps = {}
    /\ early = [g \in Groups |-> FALSE]
    /\ overrun = [g \in Groups |-> FALSE]
    /\ reported = [g \in Groups |-> FALSE]

-----------------------------------------------------------------------------
(* RateGroupDriver::CycleIn_handler.  m_ticks is private to it, so that it *)
(* may move on before the calls are made.                                  *)
Due(g) == Dividers[g] # 0 /\ m_ticks % Dividers[g] = 0

CycleIn ==
    /\ todo = {}
    /\ todo' = {g \in Groups : Due(g)}
    /\ m_ticks' = (m_ticks + 1) % Rollover
    /\ age' = [g \in Groups |-> IF Due(g) THEN 1
                                ELSE IF Dividers[g] = 0 THEN 0 ELSE age[g] + 1]
    /\ gaps' = gaps \cup {<<g, age[g]>> : g \in todo'}
    /\ UNCHANGED <<hooked, cycles, groupVars, m_cycleStarted, groupHalted, arrivalVars>>

(* CycleOut: the group's port runs CycleIn_preMsgHook on the driver's      *)
(* thread, then puts the cycle on the queue, or drops it.                  *)
Outstanding(g) == at[g] # Waits \/ \E i \in DOMAIN cycles[g] : cycles[g][i] = "cycle"

Arrival(g) ==
    IF Outstanding(g)
    THEN /\ early' = [early EXCEPT ![g] = TRUE]
         /\ overrun' = [overrun EXCEPT ![g] = @ \/ at[g] \in 1 .. Check]
         /\ UNCHANGED reported
    ELSE /\ early' = [early EXCEPT ![g] = FALSE]
         /\ overrun' = [overrun EXCEPT ![g] = FALSE]
         /\ reported' = [reported EXCEPT ![g] = FALSE]

First == CHOOSE g \in todo : \A h \in todo : g <= h

SetFlag(g) == m_cycleStarted' = [m_cycleStarted EXCEPT ![g] = TRUE]

Put(g, m) == cycles' = IF Len(cycles[g]) < QueueDepth
                      THEN [cycles EXCEPT ![g] = Append(@, m)] ELSE cycles

PreMsgHook ==
    /\ todo # {} /\ ~ hooked
    /\ hooked' = TRUE
    /\ Arrival(First) /\ SetFlag(First)
    /\ UNCHANGED <<m_ticks, todo, age, gaps, cycles, at, throttle, groupHalted>>

SendCycle ==
    /\ hooked
    /\ hooked' = FALSE /\ todo' = todo \ {First}
    /\ Put(First, "cycle")
    /\ UNCHANGED <<m_ticks, age, gaps, m_cycleStarted, groupVars, arrivalVars, groupHalted>>

(* Health's thread puts a ping on the queue.                               *)
PingIn(g) ==
    /\ Cardinality({i \in DOMAIN cycles[g] : cycles[g][i] = "ping"}) < MaxPings
    /\ Put(g, "ping")
    /\ groupHalted' = (Len(cycles[g]) = QueueDepth)
    /\ UNCHANGED <<driverVars, groupVars, m_cycleStarted, arrivalVars>>

-----------------------------------------------------------------------------
(* The thread of rate group g.  A ping is answered at once.                *)
Dispatch(g) ==
    /\ at[g] = Waits /\ cycles[g] # <<>>
    /\ cycles' = [cycles EXCEPT ![g] = Tail(@)]
    /\ at' = IF Head(cycles[g]) = "cycle" THEN [at EXCEPT ![g] = Taken] ELSE at
    /\ UNCHANGED <<driverVars, throttle, reported, m_cycleStarted, arrivalVars, groupHalted>>

(* A mutant: the flag is not cleared.                                      *)
MutantBegin(g) ==
    /\ at[g] = Taken
    /\ at' = [at EXCEPT ![g] = 1]
    /\ UNCHANGED <<driverVars, cycles, throttle, reported, arrivalVars, groupHalted, m_cycleStarted>>

Begin(g) ==
    /\ at[g] = Taken
    /\ at' = [at EXCEPT ![g] = 1]
    /\ m_cycleStarted' = [m_cycleStarted EXCEPT ![g] = FALSE]
    /\ UNCHANGED <<driverVars, cycles, throttle, reported, arrivalVars, groupHalted>>

CallMember(g) ==
    /\ at[g] \in 1 .. NumContexts
    /\ at' = [at EXCEPT ![g] = @ + 1]
    /\ UNCHANGED <<driverVars, cycles, throttle, reported, m_cycleStarted, arrivalVars, groupHalted>>

(* A slip is counted; its event is sent while the throttle allows it.      *)
CheckSlip(g) ==
    /\ at[g] = Check
    /\ at' = [at EXCEPT ![g] = Waits]
    /\ IF m_cycleStarted[g]
       THEN /\ reported' = [reported EXCEPT ![g] = TRUE]
            /\ throttle' = [throttle EXCEPT ![g] = IF @ < Throttle THEN @ + 1 ELSE @]
       ELSE /\ throttle' = [throttle EXCEPT ![g] = IF @ > 0 THEN @ - 1 ELSE 0]
            /\ UNCHANGED reported
    /\ UNCHANGED <<driverVars, cycles, m_cycleStarted, arrivalVars, groupHalted>>

Driver == CycleIn \/ PreMsgHook \/ SendCycle
Group(g) == Dispatch(g) \/ Begin(g) \/ CallMember(g) \/ CheckSlip(g)

RateNext ==
    /\ ~ groupHalted
    /\ Driver \/ \E g \in Groups : Group(g) \/ PingIn(g)

RateSpec == RateInit /\ [][RateNext]_rateVars
-----------------------------------------------------------------------------
(* Types; the throttle stays within its limit and no queue exceeds its     *)
(* depth.                                                                  *)
RateTypeOK ==
    /\ m_ticks \in 0 .. Rollover - 1
    /\ todo \subseteq Groups /\ hooked \in BOOLEAN /\ (hooked => todo # {})
    /\ cycles \in [Groups -> Seq({"cycle", "ping"})] /\ \A g \in Groups : Len(cycles[g]) <= QueueDepth
    /\ at \in [Groups -> Waits .. Taken] /\ throttle \in [Groups -> 0 .. Throttle]
    /\ {m_cycleStarted, early, overrun, reported} \subseteq [Groups -> BOOLEAN]
    /\ age \in [Groups -> Nat] /\ groupHalted \in BOOLEAN

(* Every rate group is called at its first tick and then exactly every     *)
(* Dividers[g] ticks, also where the tick counter rolls over.              *)
EvenlySpaced ==
    /\ \A g \in Groups : age[g] <= Dividers[g]
    /\ gaps \subseteq {<<g, Dividers[g]>> : g \in Groups}

(* A cycle slip is reported only when a tick really came before the cycles *)
(* of the earlier ones had ended.                                          *)
SlipsAreReal == \A g \in Groups : reported[g] => early[g]

(* ARG-004: when the group has caught up with its ticks and one of them    *)
(* came between the call of the first member and the check of the flag, a  *)
(* slip was reported.                                                      *)
OverrunsAreReported ==
    \A g \in Groups : ~ Outstanding(g) /\ overrun[g] => reported[g]

(* Together: a rate group's slips are reported, and no others.             *)
SlipsAreReported == SlipsAreReal /\ OverrunsAreReported

(* The rate groups' properties.                                            *)
TicksAreCycles == RateTypeOK /\ EvenlySpaced /\ SlipsAreReported
=============================================================================
