-------------------------------- MODULE Health --------------------------------
(***************************************************************************)
(* Svc::HealthImpl pings the active components and reports the ones that   *)
(* do not answer.  Its queue takes ping returns and commands from other    *)
(* threads; the periodic call of Run dispatches what is queued, at most    *)
(* queue_depth messages, and then goes through the table of ping entries.  *)
(***************************************************************************)
EXTENDS Naturals, Sequences, FiniteSets

CONSTANTS
    NumEntries,    \* m_numPingEntries: components in the ping table
    Warn, Fatal,   \* their warnCycles and fatalCycles in setPingEntries
    Commands,      \* commands that the ground may send, see Handle
    Repeating,     \* components that may return a ping more than once
    MaxCommands,   \* bound: commands and repeated returns in the program's life
    QueueDepth,    \* depth of Health's message queue
    KeyMod,        \* 2^32, where m_key wraps
    CycleCap       \* above every threshold: higher counts are not told apart

Comps == 1 .. NumEntries

ASSUME HealthAssumption ==
    /\ NumEntries \in Nat \ {0} /\ CycleCap \in Nat
    /\ Warn \in [Comps -> Nat] /\ Fatal \in [Comps -> Nat]
    /\ \A c \in Comps : Warn[c] <= Fatal[c] /\ Fatal[c] < CycleCap
    /\ \A m \in Commands :
          \/ m.kind = "HLTH_ENABLE" /\ m.enable \in BOOLEAN
          \/ m.kind = "HLTH_PING_ENABLE" /\ m.enable \in BOOLEAN
          \/ m.kind = "HLTH_CHNG_PING" /\ m.warn \in Nat /\ m.fatal \in 0 .. CycleCap - 1
    /\ MaxCommands \in Nat /\ QueueDepth \in Nat \ {0} /\ KeyMod \in Nat \ {0}
    /\ Repeating \subseteq Comps

VARIABLES
    enabled,    \* m_enabled
    mKey,       \* m_key, the next ping's key
    entries,    \* m_pingTrackerEntries
    queue,      \* the message queue
    running,    \* messages dispatched by the current Run, or Idle
    pinged,     \* per component, the pings that it has not returned yet
    sent,       \* commands and repeated returns so far
    halted,     \* the queue was full: its port calls assert
    fatals,     \* history: FATAL events so far, [event, comp]
    repeated,   \* history: components that returned a ping again
    queuedByRun \* history: components whose return the current Run found queued

vars == <<enabled, mKey, entries, queue, running, pinged, sent, halted, fatals, repeated,
          queuedByRun>>

Idle == QueueDepth + 1

Keys  == 0 .. KeyMod - 1
Entry == [on : BOOLEAN, cycleCount : 0 .. CycleCap, key : Keys, warn : Nat, fatal : Nat]
Return(c, k) == [kind |-> "PingReturn", comp |-> c, key |-> k]
Messages == Commands \cup {Return(c, k) : c \in Comps, k \in Keys}

Init ==
    /\ enabled = TRUE /\ mKey = 0
    /\ entries = [c \in Comps |-> [on |-> TRUE, cycleCount |-> 0, key |-> 0,
                                   warn |-> Warn[c], fatal |-> Fatal[c]]]
    /\ queue = <<>> /\ running = Idle
    /\ pinged = [c \in Comps |-> <<>>]
    /\ sent = 0 /\ halted = FALSE
    /\ fatals = {} /\ repeated = {} /\ queuedByRun = {}

-----------------------------------------------------------------------------
(* Other threads put messages on the queue; a full one asserts.            *)

Enqueue(m) ==
    /\ IF Len(queue) < QueueDepth THEN queue' = Append(queue, m) /\ UNCHANGED halted
       ELSE halted' = TRUE /\ UNCHANGED queue
    /\ UNCHANGED <<enabled, mKey, entries, running, fatals, queuedByRun>>

PingOut(c) ==
    /\ pinged[c] # <<>>
    /\ Enqueue(Return(c, Head(pinged[c])))
    /\ \/ pinged' = [pinged EXCEPT ![c] = Tail(@)] /\ UNCHANGED <<sent, repeated>>
       \/ /\ c \in Repeating /\ sent < MaxCommands
          /\ sent' = sent + 1 /\ repeated' = repeated \cup {c}
          /\ UNCHANGED pinged

SendCommand(m) ==
    /\ sent < MaxCommands
    /\ sent' = sent + 1
    /\ Enqueue(m)
    /\ UNCHANGED <<pinged, repeated>>

-----------------------------------------------------------------------------
(* Run, on the thread of its rate group.                                   *)
RunBegin ==
    /\ running = Idle
    /\ running' = 0
    /\ queuedByRun' = {c \in Comps : \E i \in DOMAIN queue :
                           queue[i].kind = "PingReturn" /\ queue[i].comp = c}
    /\ UNCHANGED <<enabled, mKey, entries, queue, pinged, sent, halted, fatals, repeated>>

PingReturn(c, k) ==
    /\ IF k = entries[c].key
       THEN /\ entries' = [entries EXCEPT ![c].cycleCount = 0, ![c].key = 0]
            /\ UNCHANGED fatals
       ELSE /\ fatals' = fatals \cup {[event |-> "HLTH_PING_WRONG_KEY", comp |-> c]}
            /\ UNCHANGED entries
    /\ UNCHANGED enabled

(* A mutant: switching an entry also restarts its count.                   *)
MutantHandle(m) ==
    \/ m.kind = "PingReturn" /\ PingReturn(m.comp, m.key)
    \/ /\ m.kind # "PingReturn"
       /\ entries' = IF m.kind = "HLTH_PING_ENABLE" /\ m.comp \in Comps
                     THEN [entries EXCEPT ![m.comp].on = m.enable, ![m.comp].cycleCount = 0]
                     ELSE entries
       /\ UNCHANGED <<enabled, fatals>>

(* A rejected command changes nothing.                                     *)
Handle(m) ==
    \/ m.kind = "PingReturn" /\ PingReturn(m.comp, m.key)
    \/ /\ m.kind = "HLTH_ENABLE"
       /\ enabled' = m.enable
       /\ UNCHANGED <<entries, fatals>>
    \/ /\ m.kind = "HLTH_PING_ENABLE"
       /\ entries' = IF m.comp \in Comps THEN [entries EXCEPT ![m.comp].on = m.enable]
                     ELSE entries
       /\ UNCHANGED <<enabled, fatals>>
    \/ /\ m.kind = "HLTH_CHNG_PING"
       /\ entries' = IF m.comp \in Comps /\ m.warn <= m.fatal
                     THEN [entries EXCEPT ![m.comp].warn = m.warn, ![m.comp].fatal = m.fatal]
                     ELSE entries
       /\ UNCHANGED <<enabled, fatals>>

(* A mutant: one message per Run.                                          *)
MutantDispatch ==
    /\ running = 0 /\ queue # <<>>
    /\ running' = QueueDepth
    /\ Handle(Head(queue))
    /\ queue' = Tail(queue)
    /\ UNCHANGED <<mKey, pinged, sent, halted, repeated, queuedByRun>>

RunDispatch ==
    /\ running < QueueDepth /\ queue # <<>>
    /\ running' = running + 1
    /\ Handle(Head(queue))
    /\ queue' = Tail(queue)
    /\ UNCHANGED <<mKey, pinged, sent, halted, repeated, queuedByRun>>

(* A mutant: the count stays at the threshold.                             *)
MutantChecked(e, newKey) ==
    IF ~ e.on THEN e
    ELSE IF e.cycleCount = 0 THEN [e EXCEPT !.key = newKey, !.cycleCount = 1]
    ELSE IF e.cycleCount = e.warn THEN e
    ELSE [e EXCEPT !.cycleCount = IF @ < CycleCap THEN @ + 1 ELSE @]

(* An entry that awaits no return is pinged, the cycles of others counted. *)
Due(e) == e.on /\ e.cycleCount = 0

Checked(e, newKey) ==
    IF ~ e.on THEN e
    ELSE IF e.cycleCount = 0 THEN [e EXCEPT !.key = newKey, !.cycleCount = 1]
    ELSE [e EXCEPT !.cycleCount = IF @ < CycleCap THEN @ + 1 ELSE @]

(* The count is compared with fatalCycles only when it is not warnCycles.  *)
Late(e) == e.on /\ e.cycleCount # 0 /\ e.cycleCount # e.warn /\ e.cycleCount = e.fatal

NewKey(c) == (mKey + Cardinality({d \in 1 .. c - 1 : Due(entries[d])})) % KeyMod

RunCheck ==
    /\ running # Idle
    /\ running = QueueDepth \/ queue = <<>>
    /\ running' = Idle /\ queuedByRun' = {}
    /\ IF enabled
       THEN /\ entries' = [c \in Comps |-> Checked(entries[c], NewKey(c))]
            /\ pinged' = [c \in Comps |->
                   IF Due(entries[c]) THEN Append(pinged[c], NewKey(c)) ELSE pinged[c]]
            /\ mKey' = NewKey(NumEntries + 1)
            /\ fatals' = fatals \cup
                   {[event |-> "HLTH_PING_LATE", comp |-> c] :
                        c \in {d \in Comps : Late(entries[d])}}
       ELSE UNCHANGED <<entries, pinged, mKey, fatals>>
    /\ UNCHANGED <<enabled, queue, sent, halted, repeated>>

Run == RunBegin \/ RunDispatch \/ RunCheck

Next ==
    /\ ~ halted
    /\ \/ \E c \in Comps : PingOut(c)
       \/ \E m \in Commands : SendCommand(m)
       \/ Run

Spec == Init /\ [][Next]_vars

(* The rate group calls Run again and again; a component need not answer.  *)
Fairness == WF_vars(~ halted /\ Run)
FairSpec == Spec /\ Fairness
-----------------------------------------------------------------------------
(* Every part of the state has its type, and the queue never holds more    *)
(* than its depth.                                                         *)
TypeOK ==
    /\ enabled \in BOOLEAN /\ mKey \in Keys
    /\ entries \in [Comps -> Entry]
    /\ queue \in Seq(Messages) /\ Len(queue) <= QueueDepth
    /\ running \in 0 .. Idle
    /\ pinged \in [Comps -> Seq(Keys)]
    /\ sent \in 0 .. MaxCommands /\ halted \in BOOLEAN
    /\ fatals \subseteq [event : {"HLTH_PING_LATE", "HLTH_PING_WRONG_KEY"}, comp : Comps]
    /\ repeated \subseteq Comps /\ queuedByRun \subseteq Comps

(* A component that returns every ping once is never accused of a wrong    *)
(* key, whatever commands switch its entry off and on and change its       *)
(* thresholds meanwhile, and whatever the other components return.         *)
NoWrongKey ==
    \A c \in Comps \ repeated : [event |-> "HLTH_PING_WRONG_KEY", comp |-> c] \notin fatals

(* When the return of such a component was queued before the Run began, it *)
(* is not late in this Run: what is queued is dispatched before the table  *)
(* is checked.                                                             *)
NoFalseLate ==
    [][\A c \in queuedByRun \ repeated :
          [event |-> "HLTH_PING_LATE", comp |-> c] \notin fatals' \ fatals]_vars

(* Health has at most one ping of such a component under way, so that the  *)
(* returns of well-behaved components cannot fill the queue.               *)
OnePingEach ==
    \A c \in Comps \ repeated :
        Len(pinged[c]) + Cardinality({i \in DOMAIN queue :
                             queue[i].kind = "PingReturn" /\ queue[i].comp = c})
            <= (IF entries[c].cycleCount = 0 THEN 0 ELSE 1)

(* Pings and returns match: what is under way is at most one ping for each *)
(* well-behaved component, and none of them is accused of a wrong key.     *)
PingsAreMatched == TypeOK /\ NoWrongKey /\ OnePingEach

(* HTH-003: a component that stays silent while it is monitored has its    *)
(* FATAL event in the end, when its warning threshold is below the fatal   *)
(* one and no command changes the two.                                     *)
SilenceIsReported ==
    \A c \in Comps :
        /\ Warn[c] < Fatal[c]
        /\ [](entries[c].warn = Warn[c] /\ entries[c].fatal = Fatal[c])
        /\ <>[](/\ pinged[c] # <<>> /\ c \notin repeated
                /\ enabled /\ entries[c].on /\ ~ halted)
        => <>([event |-> "HLTH_PING_LATE", comp |-> c] \in fatals)
=============================================================================
