----------------------------- MODULE HealthProofs -----------------------------
(* No component that answers is accused, for any number of components,     *)
(* thresholds, commands and queue depth, however ping returns, commands    *)
(* and Runs interleave and wherever the key counter wraps.                 *)
EXTENDS Health, FiniteSetTheorems, TLAPS

(* The places in the queue with a return of c.                             *)
ReturnsOf(c) == {i \in DOMAIN queue : queue[i].kind = "PingReturn" /\ queue[i].comp = c}

(* What a component that returns each ping once has to return is in one    *)
(* place, with the key that is expected of it, or nowhere.                 *)
Awaited(c) ==
    /\ entries[c].cycleCount = 0 => pinged[c] = <<>> /\ ReturnsOf(c) = {}
    /\ pinged[c] # <<>> => pinged[c] = <<entries[c].key>> /\ ReturnsOf(c) = {}
    /\ \A i, j \in ReturnsOf(c) : i = j
    /\ \A i \in ReturnsOf(c) : queue[i].key = entries[c].key

IInv == TypeOK /\ NoWrongKey /\ \A c \in Comps \ repeated : Awaited(c)

-----------------------------------------------------------------------------
LEMMA ConstantFacts ==
    /\ NumEntries \in Nat \ {0} /\ CycleCap \in Nat \ {0} /\ KeyMod \in Nat \ {0} /\ QueueDepth \in Nat \ {0}
    /\ \A c \in Comps : Warn[c] \in Nat /\ Fatal[c] \in Nat
    /\ MaxCommands \in Nat
<1>1. 1 \in Comps
  BY HealthAssumption DEF Comps
<1>. QED
  BY <1>1, HealthAssumption

LEMMA MessageKinds ==
    /\ \A m \in Commands : m.kind \in {"HLTH_ENABLE", "HLTH_PING_ENABLE", "HLTH_CHNG_PING"}
    /\ \A m \in Commands : m.kind \in {"HLTH_ENABLE", "HLTH_PING_ENABLE"} => m.enable \in BOOLEAN
    /\ \A m \in Commands : m.kind = "HLTH_CHNG_PING" => m.warn \in Nat /\ m.fatal \in Nat
    /\ \A m \in Messages \ Commands : m.kind = "PingReturn" /\ m.comp \in Comps /\ m.key \in Keys
  BY HealthAssumption, ConstantFacts DEF Messages, Return

LEMMA Remainder == ASSUME NEW a \in Int, NEW w \in Nat \ {0} PROVE a % w \in 0 .. w - 1
  OBVIOUS

LEMMA NewKeyType == ASSUME TypeOK, NEW c \in Nat \ {0} PROVE NewKey(c) \in Keys
<1>1. IsFiniteSet({d \in 1 .. c - 1 : Due(entries[d])})
  <2>1. IsFiniteSet(1 .. c - 1)
    BY FS_Interval
  <2>. QED
    BY <2>1, FS_Subset
<1>2. Cardinality({d \in 1 .. c - 1 : Due(entries[d])}) \in Nat
  BY <1>1, FS_CardinalityType
<1>3. mKey + Cardinality({d \in 1 .. c - 1 : Due(entries[d])}) \in Int
  BY <1>2, ConstantFacts DEF TypeOK, Keys
<1>. QED
  BY <1>3, ConstantFacts, Remainder DEF NewKey, Keys

-----------------------------------------------------------------------------
(* Types.                                                                  *)
LEMMA TypeInit == Init => TypeOK
<1>. SUFFICES ASSUME Init PROVE TypeOK
  OBVIOUS
<1>2. entries \in [Comps -> Entry]
  BY ConstantFacts DEF Init, Entry, Keys
<1>. QED
  <2>1. pinged \in [Comps -> Seq(Keys)] /\ queue \in Seq(Messages) /\ Len(queue) <= QueueDepth
    BY ConstantFacts DEF Init
  <2>2. mKey \in Keys /\ running \in 0 .. Idle /\ sent \in 0 .. MaxCommands
    BY ConstantFacts DEF Init, Keys, Idle
  <2>. QED
    BY <1>2, <2>1, <2>2 DEF Init, TypeOK

LEMMA EnqueueType ==
    ASSUME TypeOK, NEW m \in Messages, Enqueue(m)
    PROVE  queue' \in Seq(Messages) /\ Len(queue') <= QueueDepth /\ halted' \in BOOLEAN
<1>1. queue \in Seq(Messages) /\ Len(queue) \in Nat /\ QueueDepth \in Nat /\ Len(queue) <= QueueDepth
      /\ halted \in BOOLEAN
  BY ConstantFacts DEF TypeOK
<1>2. CASE Len(queue) < QueueDepth
  <2>1. queue' = Append(queue, m) /\ halted' = halted
    BY <1>2 DEF Enqueue
  <2>. QED
    BY <1>1, <1>2, <2>1
<1>3. CASE ~(Len(queue) < QueueDepth)
  <2>1. queue' = queue /\ halted' = TRUE
    BY <1>3 DEF Enqueue
  <2>. QED
    BY <1>1, <2>1
<1>. QED
  BY <1>2, <1>3

LEMMA PingOutType == ASSUME TypeOK, NEW c \in Comps, PingOut(c) PROVE TypeOK'
<1>1. Head(pinged[c]) \in Keys /\ Tail(pinged[c]) \in Seq(Keys)
  BY DEF PingOut, TypeOK
<1>2. Return(c, Head(pinged[c])) \in Messages
  BY <1>1 DEF Messages
<1>3. queue' \in Seq(Messages) /\ Len(queue') <= QueueDepth /\ halted' \in BOOLEAN
  BY <1>2, EnqueueType DEF PingOut
<1>4. pinged' \in [Comps -> Seq(Keys)] /\ sent' \in 0 .. MaxCommands /\ repeated' \subseteq Comps
  <2>1. pinged \in [Comps -> Seq(Keys)] /\ sent \in 0 .. MaxCommands /\ repeated \subseteq Comps
    BY DEF TypeOK
  <2>2. CASE pinged' = [pinged EXCEPT ![c] = Tail(@)] /\ UNCHANGED <<sent, repeated>>
    BY <1>1, <2>1, <2>2
  <2>3. CASE sent < MaxCommands /\ sent' = sent + 1 /\ repeated' = repeated \cup {c} /\ UNCHANGED pinged
    BY <2>1, <2>3, ConstantFacts
  <2>. QED
    BY <2>2, <2>3 DEF PingOut
<1>5. UNCHANGED <<enabled, mKey, entries, running, fatals, queuedByRun>>
  BY DEF PingOut, Enqueue
<1>. QED
  BY <1>3, <1>4, <1>5 DEF TypeOK

LEMMA SendCommandType == ASSUME TypeOK, NEW m \in Commands, SendCommand(m) PROVE TypeOK'
<1>1. queue' \in Seq(Messages) /\ Len(queue') <= QueueDepth /\ halted' \in BOOLEAN
  <2>1. m \in Messages
    BY DEF Messages
  <2>. QED
    BY <2>1, EnqueueType DEF SendCommand
<1>2. sent' \in 0 .. MaxCommands
  BY ConstantFacts DEF SendCommand, TypeOK
<1>3. UNCHANGED <<enabled, mKey, entries, running, fatals, queuedByRun, pinged, repeated>>
  BY DEF SendCommand, Enqueue
<1>. QED
  BY <1>1, <1>2, <1>3 DEF TypeOK

(* What may happen to an entry of the table.                               *)
LEMMA EntryChanges ==
    ASSUME NEW e \in Entry
    PROVE  /\ \A n \in 0 .. CycleCap : [e EXCEPT !.cycleCount = n] \in Entry
           /\ \A n \in 0 .. CycleCap, k \in Keys : /\ [e EXCEPT !.key = k, !.cycleCount = n] \in Entry
                                                  /\ [e EXCEPT !.cycleCount = n, !.key = k] \in Entry
           /\ \A on \in BOOLEAN : [e EXCEPT !.on = on] \in Entry
           /\ \A w, f \in Nat : [e EXCEPT !.warn = w, !.fatal = f] \in Entry
           /\ e.cycleCount \in 0 .. CycleCap /\ 0 \in 0 .. CycleCap /\ 1 \in 0 .. CycleCap /\ 0 \in Keys
<1>1. 0 \in 0 .. CycleCap /\ 1 \in 0 .. CycleCap /\ 0 \in Keys
  BY ConstantFacts DEF Keys
<1>. QED
  BY <1>1 DEF Entry

LEMMA CheckedType == ASSUME NEW e \in Entry, NEW k \in Keys PROVE Checked(e, k) \in Entry
<1>1. e.cycleCount < CycleCap => e.cycleCount + 1 \in 0 .. CycleCap
  <2>1. e.cycleCount \in 0 .. CycleCap /\ CycleCap \in Nat
    BY EntryChanges, ConstantFacts
  <2>. QED
    BY <2>1
<1>. DEFINE n == IF e.cycleCount < CycleCap THEN e.cycleCount + 1 ELSE e.cycleCount
<1>2. n \in 0 .. CycleCap
  BY <1>1, EntryChanges
<1>3. [e EXCEPT !.cycleCount = n] \in Entry /\ [e EXCEPT !.key = k, !.cycleCount = 1] \in Entry
  BY <1>2, EntryChanges
<1>. QED
  BY <1>3 DEF Checked

LEMMA HandleType ==
    ASSUME TypeOK, NEW m \in Messages, Handle(m)
    PROVE  /\ entries' \in [Comps -> Entry] /\ enabled' \in BOOLEAN
           /\ fatals' \subseteq [event : {"HLTH_PING_LATE", "HLTH_PING_WRONG_KEY"}, comp : Comps]
<1>1. CASE m.kind = "PingReturn"
  <2>1. m.comp \in Comps
    BY <1>1, MessageKinds
  <2>2. PingReturn(m.comp, m.key)
    BY <1>1 DEF Handle
  <2>3. entries' \in [Comps -> Entry]
    <3>1. CASE m.key = entries[m.comp].key
      <4>1. entries' = [entries EXCEPT ![m.comp] = [entries[m.comp] EXCEPT !.cycleCount = 0, !.key = 0]]
        BY <2>1, <2>2, <3>1 DEF PingReturn, TypeOK
      <4>2. [entries[m.comp] EXCEPT !.cycleCount = 0, !.key = 0] \in Entry
        BY <2>1, EntryChanges DEF TypeOK
      <4>. QED
        BY <4>1, <4>2 DEF TypeOK
    <3>2. CASE m.key # entries[m.comp].key
      BY <2>2, <3>2 DEF PingReturn, TypeOK
    <3>. QED
      BY <3>1, <3>2
  <2>. QED
    BY <2>1, <2>2, <2>3 DEF PingReturn, TypeOK
<1>2. CASE m.kind # "PingReturn"
  <2>1. m \in Commands
    BY <1>2, MessageKinds
  <2>2. CASE m.kind = "HLTH_ENABLE"
    BY <2>1, <2>2, MessageKinds DEF Handle, TypeOK
  <2>3. CASE m.kind = "HLTH_PING_ENABLE"
    <3>1. m.enable \in BOOLEAN
      BY <2>1, <2>3, MessageKinds
    <3>2. CASE m.comp \in Comps
      <4>1. entries' = [entries EXCEPT ![m.comp] = [entries[m.comp] EXCEPT !.on = m.enable]]
        BY <2>3, <3>2 DEF Handle, TypeOK
      <4>2. [entries[m.comp] EXCEPT !.on = m.enable] \in Entry
        BY <3>1, <3>2, EntryChanges DEF TypeOK
      <4>. QED
        BY <2>3, <4>1, <4>2 DEF TypeOK, Handle
    <3>3. CASE m.comp \notin Comps
      BY <2>3, <3>3 DEF Handle, TypeOK
    <3>. QED
      BY <3>2, <3>3
  <2>4. CASE m.kind = "HLTH_CHNG_PING"
    <3>1. m.warn \in Nat /\ m.fatal \in Nat
      BY <2>1, <2>4, MessageKinds
    <3>2. CASE m.comp \in Comps /\ m.warn <= m.fatal
      <4>1. entries' = [entries EXCEPT ![m.comp] = [entries[m.comp] EXCEPT !.warn = m.warn, !.fatal = m.fatal]]
        BY <2>4, <3>2 DEF Handle, TypeOK
      <4>2. [entries[m.comp] EXCEPT !.warn = m.warn, !.fatal = m.fatal] \in Entry
        BY <3>1, <3>2, EntryChanges DEF TypeOK
      <4>. QED
        BY <2>4, <4>1, <4>2 DEF TypeOK, Handle
    <3>3. CASE ~(m.comp \in Comps /\ m.warn <= m.fatal)
      BY <2>4, <3>3 DEF Handle, TypeOK
    <3>. QED
      BY <3>2, <3>3
  <2>. QED
    BY <2>1, <2>2, <2>3, <2>4, MessageKinds
<1>. QED
  BY <1>1, <1>2

LEMMA HeadTail ==
    ASSUME TypeOK, queue # <<>>
    PROVE  /\ Head(queue) \in Messages /\ Tail(queue) \in Seq(Messages)
           /\ Len(queue) \in Nat \ {0} /\ Len(Tail(queue)) = Len(queue) - 1
           /\ Head(queue) = queue[1]
           /\ \A i \in 1 .. Len(queue) - 1 : Tail(queue)[i] = queue[i + 1]
  BY DEF TypeOK

LEMMA DispatchType == ASSUME TypeOK, RunDispatch PROVE TypeOK'
<1>1. /\ entries' \in [Comps -> Entry] /\ enabled' \in BOOLEAN
      /\ fatals' \subseteq [event : {"HLTH_PING_LATE", "HLTH_PING_WRONG_KEY"}, comp : Comps]
  BY HandleType, HeadTail DEF RunDispatch
<1>2. queue' \in Seq(Messages) /\ Len(queue') <= QueueDepth
  <2>1. queue' = Tail(queue) /\ queue # <<>> /\ Len(queue) <= QueueDepth
    BY DEF RunDispatch, TypeOK
  <2>. QED
    BY <2>1, HeadTail, ConstantFacts
<1>3. running' \in 0 .. Idle
  BY ConstantFacts DEF RunDispatch, TypeOK, Idle
<1>. QED
  BY <1>1, <1>2, <1>3 DEF RunDispatch, TypeOK

LEMMA CheckType == ASSUME TypeOK, RunCheck PROVE TypeOK'
<1>1. running' \in 0 .. Idle /\ queuedByRun' \subseteq Comps /\ UNCHANGED <<enabled, queue, sent, halted, repeated>>
  BY ConstantFacts DEF RunCheck, Idle
<1>2. \A c \in Comps : NewKey(c) \in Keys
  BY NewKeyType DEF Comps
<1>3. CASE enabled
  <2>1. entries' \in [Comps -> Entry]
    <3>1. entries' = [c \in Comps |-> Checked(entries[c], NewKey(c))]
      BY <1>3 DEF RunCheck
    <3>2. \A c \in Comps : entries[c] \in Entry
      BY DEF TypeOK
    <3>3. \A c \in Comps : Checked(entries[c], NewKey(c)) \in Entry
      BY <1>2, <3>2, CheckedType
    <3>. QED
      BY <3>1, <3>3
  <2>2. pinged' \in [Comps -> Seq(Keys)]
    <3>1. pinged' = [c \in Comps |->
              IF Due(entries[c]) THEN Append(pinged[c], NewKey(c)) ELSE pinged[c]]
      BY <1>3 DEF RunCheck
    <3>2. \A c \in Comps : pinged[c] \in Seq(Keys)
      BY DEF TypeOK
    <3>3. \A c \in Comps : Append(pinged[c], NewKey(c)) \in Seq(Keys)
      BY <1>2, <3>2
    <3>. QED
      BY <3>1, <3>2, <3>3
  <2>3. mKey' \in Keys
    BY <1>3, ConstantFacts, NewKeyType DEF RunCheck
  <2>4. fatals' \subseteq [event : {"HLTH_PING_LATE", "HLTH_PING_WRONG_KEY"}, comp : Comps]
    BY <1>3 DEF RunCheck, TypeOK
  <2>. QED
    BY <1>1, <2>1, <2>2, <2>3, <2>4 DEF TypeOK
<1>4. CASE ~enabled
  BY <1>1, <1>4 DEF RunCheck, TypeOK
<1>. QED
  BY <1>3, <1>4

LEMMA TypeStep == ASSUME TypeOK, [Next]_vars PROVE TypeOK'
<1>1. ASSUME RunBegin PROVE TypeOK'
  BY <1>1, ConstantFacts DEF RunBegin, TypeOK, Idle
<1>2. ASSUME UNCHANGED vars PROVE TypeOK'
  BY <1>2 DEF vars, TypeOK
<1>. QED
  BY <1>1, <1>2, PingOutType, SendCommandType, DispatchType, CheckType DEF Next, Run

-----------------------------------------------------------------------------
(* Pings and their returns.                                                *)

(* A message at the end of the queue is a return of c only if it is one.   *)
LEMMA EnqueueReturns ==
    ASSUME TypeOK, NEW m \in Messages, Enqueue(m), NEW c \in Comps
    PROVE  \/ UNCHANGED queue
           \/ /\ queue' = Append(queue, m)
              /\ \A i \in 1 .. Len(queue) : queue'[i] = queue[i]
              /\ queue'[Len(queue) + 1] = m
              /\ DOMAIN queue' = 1 .. Len(queue) + 1 /\ Len(queue) \in Nat
              /\ ReturnsOf(c)' = ReturnsOf(c)
                     \cup (IF m.kind = "PingReturn" /\ m.comp = c THEN {Len(queue) + 1} ELSE {})
<1>1. queue \in Seq(Messages) /\ Len(queue) \in Nat
  BY DEF TypeOK
<1>2. CASE Len(queue) < QueueDepth
  <2>1. queue' = Append(queue, m)
    BY <1>2 DEF Enqueue
  <2>2. /\ \A i \in 1 .. Len(queue) : queue'[i] = queue[i]
        /\ queue'[Len(queue) + 1] = m
        /\ DOMAIN queue' = 1 .. Len(queue) + 1 /\ DOMAIN queue = 1 .. Len(queue)
    BY <1>1, <2>1
  <2>3. \A i : i \in 1 .. Len(queue) + 1 <=> i \in 1 .. Len(queue) \/ i = Len(queue) + 1
    BY <1>1
  <2>4. \A i : i \in ReturnsOf(c)' <=> \/ i \in ReturnsOf(c)
                                       \/ i = Len(queue) + 1 /\ m.kind = "PingReturn" /\ m.comp = c
    <3>1. \A i : i \in ReturnsOf(c)' <=> i \in 1 .. Len(queue) + 1
                     /\ queue'[i].kind = "PingReturn" /\ queue'[i].comp = c
      BY <2>2 DEF ReturnsOf
    <3>2. \A i : i \in ReturnsOf(c) <=> i \in 1 .. Len(queue)
                     /\ queue[i].kind = "PingReturn" /\ queue[i].comp = c
      BY <2>2 DEF ReturnsOf
    <3>. QED
      BY <2>2, <2>3, <3>1, <3>2
  <2>. QED
    BY <1>1, <2>1, <2>2, <2>4
<1>3. CASE ~(Len(queue) < QueueDepth)
  BY <1>3 DEF Enqueue
<1>. QED
  BY <1>2, <1>3

LEMMA AwaitedInit == Init => IInv
<1>. SUFFICES ASSUME Init PROVE IInv
  OBVIOUS
<1>1. ASSUME NEW c \in Comps PROVE Awaited(c)
  BY DEF Init, Awaited, ReturnsOf
<1>. QED
  BY <1>1, TypeInit DEF IInv, NoWrongKey, Init

(* What leaves c's entry, pings and returns as they were.                  *)
LEMMA AwaitedKept ==
    ASSUME NEW c \in Comps, Awaited(c), UNCHANGED queue,
           pinged'[c] = pinged[c], entries'[c].cycleCount = entries[c].cycleCount,
           entries'[c].key = entries[c].key
    PROVE  Awaited(c)'
<1>1. ReturnsOf(c)' = ReturnsOf(c)
  BY DEF ReturnsOf
<1>. QED
  BY <1>1 DEF Awaited

LEMMA PingOutAwaited ==
    ASSUME TypeOK, NEW d \in Comps, PingOut(d), NEW c \in Comps \ repeated', Awaited(c)
    PROVE  Awaited(c)'
<1>. DEFINE k == Head(pinged[d])
<1>1. Return(d, k) \in Messages /\ Enqueue(Return(d, k)) /\ UNCHANGED entries
  <2>1. k \in Keys
    BY DEF PingOut, TypeOK
  <2>. QED
    BY <2>1 DEF PingOut, Messages, Enqueue
<1>2. Return(d, k).kind = "PingReturn" /\ Return(d, k).comp = d /\ Return(d, k).key = k
  BY DEF Return
<1>3. c \in Comps /\ pinged \in [Comps -> Seq(Keys)]
  BY DEF TypeOK
<1>4. CASE d = c
  <2>1. pinged' = [pinged EXCEPT ![c] = Tail(@)] /\ pinged[c] # <<>>
    BY <1>4 DEF PingOut
  <2>2. pinged[c] = <<entries[c].key>> /\ ReturnsOf(c) = {} /\ entries[c].cycleCount # 0
    BY <2>1 DEF Awaited
  <2>3. pinged'[c] = <<>>
    BY <1>3, <2>1, <2>2
  <2>4. k = entries[c].key
    BY <1>4, <2>2
  <2>5. CASE UNCHANGED queue
    <3>1. ReturnsOf(c)' = {}
      BY <2>2, <2>5 DEF ReturnsOf
    <3>. QED
      BY <2>3, <3>1 DEF Awaited
  <2>6. CASE ~ UNCHANGED queue
    <3>1. ReturnsOf(c)' = {Len(queue) + 1} /\ queue'[Len(queue) + 1] = Return(d, k)
      BY <1>1, <1>2, <1>3, <1>4, <2>2, <2>6, EnqueueReturns
    <3>2. \A i \in ReturnsOf(c)' : queue'[i].key = entries'[c].key
      BY <1>1, <1>2, <2>4, <3>1
    <3>3. entries'[c].cycleCount # 0
      BY <1>1, <2>2
    <3>. QED
      BY <2>3, <3>1, <3>2, <3>3 DEF Awaited
  <2>. QED
    BY <2>5, <2>6
<1>5. CASE d # c
  <2>1. pinged'[c] = pinged[c]
    BY <1>3, <1>5 DEF PingOut
  <2>2. CASE UNCHANGED queue
    BY <1>1, <1>3, <2>1, <2>2, AwaitedKept
  <2>3. CASE ~ UNCHANGED queue
    <3>1. /\ ReturnsOf(c)' = ReturnsOf(c)
          /\ \A i \in 1 .. Len(queue) : queue'[i] = queue[i]
      <4>. DEFINE m == Return(d, k)
      <4>1. m \in Messages /\ Enqueue(m) /\ m.comp # c
        BY <1>1, <1>2, <1>5
      <4>. HIDE DEF m
      <4>. QED
        BY <1>3, <2>3, <4>1, EnqueueReturns
    <3>2. \A i \in ReturnsOf(c) : i \in 1 .. Len(queue)
      BY DEF ReturnsOf, TypeOK
    <3>. QED
      BY <1>1, <2>1, <3>1, <3>2 DEF Awaited
  <2>. QED
    BY <2>2, <2>3
<1>. QED
  BY <1>4, <1>5

LEMMA SendCommandAwaited ==
    ASSUME TypeOK, NEW m \in Commands, SendCommand(m), NEW c \in Comps, Awaited(c)
    PROVE  Awaited(c)'
<1>1. m \in Messages /\ m.kind # "PingReturn" /\ Enqueue(m) /\ UNCHANGED <<entries, pinged>>
  BY MessageKinds DEF Messages, SendCommand, Enqueue
<1>2. CASE UNCHANGED queue
  BY <1>1, <1>2, AwaitedKept
<1>3. CASE ~ UNCHANGED queue
  <2>1. /\ ReturnsOf(c)' = ReturnsOf(c)
        /\ \A i \in 1 .. Len(queue) : queue'[i] = queue[i]
    BY <1>1, <1>3, EnqueueReturns
  <2>2. \A i \in ReturnsOf(c) : i \in 1 .. Len(queue)
    BY DEF ReturnsOf, TypeOK
  <2>. QED
    BY <1>1, <2>1, <2>2 DEF Awaited
<1>. QED
  BY <1>2, <1>3

(* Taking the first message moves the others one place forward.            *)
LEMMA DispatchReturns ==
    ASSUME TypeOK, RunDispatch, NEW c \in Comps
    PROVE  /\ \A i \in ReturnsOf(c)' : i \in Nat \ {0} /\ i + 1 \in ReturnsOf(c) /\ queue'[i] = queue[i + 1]
           /\ Head(queue).kind = "PingReturn" /\ Head(queue).comp = c => 1 \in ReturnsOf(c)
           /\ Head(queue) = queue[1]
<1>1. queue # <<>> /\ queue' = Tail(queue) /\ queue \in Seq(Messages)
  BY DEF RunDispatch, TypeOK
<1>2. DOMAIN queue = 1 .. Len(queue) /\ DOMAIN queue' = 1 .. Len(queue) - 1
  BY <1>1, HeadTail
<1>3. ASSUME NEW i \in ReturnsOf(c)'
      PROVE  i \in Nat \ {0} /\ i + 1 \in ReturnsOf(c) /\ queue'[i] = queue[i + 1]
  <2>1. i \in 1 .. Len(queue) - 1 /\ queue'[i].kind = "PingReturn" /\ queue'[i].comp = c
    BY <1>2 DEF ReturnsOf
  <2>2. queue'[i] = queue[i + 1]
    BY <1>1, <2>1, HeadTail
  <2>3. i + 1 \in 1 .. Len(queue)
    BY <1>1, <2>1, HeadTail
  <2>. QED
    BY <1>2, <2>1, <2>2, <2>3 DEF ReturnsOf
<1>4. 1 \in 1 .. Len(queue)
  BY <1>1, HeadTail
<1>. QED
  BY <1>1, <1>2, <1>3, <1>4, HeadTail DEF ReturnsOf

(* What a message does to the entry of c: only its own return changes what *)
(* is expected of it.                                                      *)
LEMMA HandleEntry ==
    ASSUME TypeOK, NEW m \in Messages, Handle(m), NEW c \in Comps
    PROVE  /\ ~ (m.kind = "PingReturn" /\ m.comp = c) =>
                 /\ entries'[c].cycleCount = entries[c].cycleCount
                 /\ entries'[c].key = entries[c].key
                 /\ [event |-> "HLTH_PING_WRONG_KEY", comp |-> c] \in fatals' =>
                        [event |-> "HLTH_PING_WRONG_KEY", comp |-> c] \in fatals
           /\ m.kind = "PingReturn" /\ m.comp = c /\ m.key = entries[c].key =>
                 UNCHANGED fatals
<1>1. entries \in [Comps -> Entry] /\ \A d \in Comps : entries[d] \in Entry
  BY DEF TypeOK
<1>2. CASE m.kind = "PingReturn"
  <2>1. PingReturn(m.comp, m.key)
    BY <1>2 DEF Handle
  <2>2. m.comp = c /\ m.key = entries[c].key => UNCHANGED fatals
    BY <2>1 DEF PingReturn
  <2>3. m.comp # c => entries'[c] = entries[c]
    BY <1>1, <2>1 DEF PingReturn
  <2>4. m.comp # c => ([event |-> "HLTH_PING_WRONG_KEY", comp |-> c] \in fatals' =>
                           [event |-> "HLTH_PING_WRONG_KEY", comp |-> c] \in fatals)
    BY <2>1 DEF PingReturn
  <2>. QED
    BY <1>2, <2>2, <2>3, <2>4
<1>3. CASE m.kind # "PingReturn"
  <2>1. UNCHANGED fatals
    BY <1>3 DEF Handle
  <2>2. entries'[c].cycleCount = entries[c].cycleCount /\ entries'[c].key = entries[c].key
    <3>1. CASE m.kind = "HLTH_ENABLE"
      BY <3>1 DEF Handle
    <3>2. CASE m.kind = "HLTH_PING_ENABLE"
      <4>1. entries' = entries \/ entries' = [entries EXCEPT ![m.comp].on = m.enable]
        BY <3>2 DEF Handle
      <4>. QED
        BY <1>1, <4>1 DEF Entry
    <3>3. CASE m.kind = "HLTH_CHNG_PING"
      <4>1. \/ entries' = entries
            \/ entries' = [entries EXCEPT ![m.comp].warn = m.warn, ![m.comp].fatal = m.fatal]
        BY <3>3 DEF Handle
      <4>. QED
        BY <1>1, <4>1 DEF Entry
    <3>. QED
      BY <1>3, <3>1, <3>2, <3>3 DEF Handle
  <2>. QED
    BY <1>3, <2>1, <2>2
<1>. QED
  BY <1>2, <1>3

LEMMA DispatchAwaited ==
    ASSUME TypeOK, NoWrongKey, RunDispatch, NEW c \in Comps \ repeated, Awaited(c)
    PROVE  Awaited(c)' /\ [event |-> "HLTH_PING_WRONG_KEY", comp |-> c] \notin fatals'
<1>. DEFINE m == Head(queue)
<1>1. m \in Messages /\ Handle(m) /\ UNCHANGED pinged /\ c \in Comps
  BY HeadTail DEF RunDispatch
<1>2. [event |-> "HLTH_PING_WRONG_KEY", comp |-> c] \notin fatals
  BY DEF NoWrongKey
<1>3. \A i \in ReturnsOf(c)' : i \in Nat \ {0} /\ i + 1 \in ReturnsOf(c) /\ queue'[i] = queue[i + 1]
  BY <1>1, DispatchReturns
<1>4. CASE m.kind = "PingReturn" /\ m.comp = c
  <2>1. 1 \in ReturnsOf(c) /\ m = queue[1]
    BY <1>1, <1>4, DispatchReturns
  <2>2. m.key = entries[c].key /\ pinged[c] = <<>> /\ \A i \in ReturnsOf(c) : i = 1
    BY <2>1 DEF Awaited
  <2>3. UNCHANGED fatals
    BY <1>1, <1>4, <2>2, HandleEntry
  <2>4. ReturnsOf(c)' = {}
    BY <1>3, <2>2
  <2>. QED
    BY <1>1, <1>2, <2>2, <2>3, <2>4 DEF Awaited
<1>5. CASE ~ (m.kind = "PingReturn" /\ m.comp = c)
  <2>1. /\ entries'[c].cycleCount = entries[c].cycleCount /\ entries'[c].key = entries[c].key
        /\ [event |-> "HLTH_PING_WRONG_KEY", comp |-> c] \notin fatals'
    BY <1>1, <1>2, <1>5, HandleEntry
  <2>2. ReturnsOf(c) = {} => ReturnsOf(c)' = {}
    BY <1>3
  <2>3. \A i, j \in ReturnsOf(c)' : i = j
    <3>1. SUFFICES ASSUME NEW i \in ReturnsOf(c)', NEW j \in ReturnsOf(c)' PROVE i = j
      OBVIOUS
    <3>2. i \in Nat /\ j \in Nat /\ i + 1 = j + 1
      BY <1>3 DEF Awaited
    <3>. QED
      BY <3>2
  <2>4. \A i \in ReturnsOf(c)' : queue'[i].key = entries'[c].key
    BY <1>3, <2>1 DEF Awaited
  <2>. QED
    BY <1>1, <2>1, <2>2, <2>3, <2>4 DEF Awaited
<1>. QED
  BY <1>4, <1>5

LEMMA CheckAwaited ==
    ASSUME TypeOK, RunCheck, NEW c \in Comps, Awaited(c)
    PROVE  Awaited(c)'
<1>1. entries[c] \in Entry /\ pinged[c] \in Seq(Keys) /\ UNCHANGED queue /\ CycleCap \in Nat \ {0}
  BY ConstantFacts DEF RunCheck, TypeOK
<1>2. CASE ~enabled
  BY <1>1, <1>2, AwaitedKept DEF RunCheck
<1>3. CASE enabled
  <2>1. /\ entries'[c] = Checked(entries[c], NewKey(c))
        /\ pinged'[c] = IF Due(entries[c]) THEN Append(pinged[c], NewKey(c)) ELSE pinged[c]
    BY <1>3 DEF RunCheck
  <2>2. CASE Due(entries[c])
    <3>1. entries[c].cycleCount = 0 /\ entries[c].on
      BY <2>2 DEF Due
    <3>2. pinged[c] = <<>> /\ ReturnsOf(c)' = {}
      BY <1>1, <3>1 DEF Awaited, ReturnsOf
    <3>3. pinged'[c] = <<NewKey(c)>>
      BY <2>1, <2>2, <3>2
    <3>4. entries'[c].key = NewKey(c) /\ entries'[c].cycleCount = 1
      BY <1>1, <2>1, <3>1 DEF Checked, Entry
    <3>. QED
      BY <3>2, <3>3, <3>4 DEF Awaited
  <2>3. CASE ~ Due(entries[c])
    <3>1. CASE entries[c].on
      <4>1. entries[c].cycleCount # 0 /\ entries[c].cycleCount \in Nat
        BY <1>1, <2>3, <3>1 DEF Due, Entry
      <4>2. entries'[c].key = entries[c].key /\ entries'[c].cycleCount # 0
        BY <1>1, <2>1, <3>1, <4>1 DEF Checked, Entry
      <4>3. ReturnsOf(c)' = ReturnsOf(c)
        BY <1>1 DEF ReturnsOf
      <4>. QED
        BY <1>1, <2>1, <2>3, <4>1, <4>2, <4>3 DEF Awaited
    <3>2. CASE ~ entries[c].on
      <4>1. entries'[c] = entries[c]
        BY <2>1, <3>2 DEF Checked
      <4>. QED
        BY <1>1, <2>1, <2>3, <4>1, AwaitedKept
    <3>. QED
      BY <3>1, <3>2
  <2>. QED
    BY <2>2, <2>3
<1>. QED
  BY <1>2, <1>3

LEMMA AwaitedStep == ASSUME IInv, [Next]_vars PROVE IInv'
<1>1. TypeOK /\ NoWrongKey /\ \A c \in Comps \ repeated : Awaited(c)
  BY DEF IInv
<1>2. repeated \subseteq repeated'
  BY DEF Next, vars, Run, PingOut, SendCommand, RunBegin, RunDispatch, RunCheck
<1>. SUFFICES ASSUME NEW c \in Comps \ repeated'
              PROVE  Awaited(c)' /\ [event |-> "HLTH_PING_WRONG_KEY", comp |-> c] \notin fatals'
  BY <1>1, TypeStep DEF IInv, NoWrongKey
<1>3. Awaited(c) /\ c \in Comps \ repeated /\ [event |-> "HLTH_PING_WRONG_KEY", comp |-> c] \notin fatals
  BY <1>1, <1>2 DEF NoWrongKey
<1>4. ASSUME NEW d \in Comps, PingOut(d) PROVE Awaited(c)' /\ UNCHANGED fatals
  BY <1>1, <1>3, <1>4, PingOutAwaited DEF PingOut, Enqueue
<1>5. ASSUME NEW m \in Commands, SendCommand(m) PROVE Awaited(c)' /\ UNCHANGED fatals
  BY <1>1, <1>3, <1>5, SendCommandAwaited DEF SendCommand, Enqueue
<1>6. ASSUME RunBegin PROVE Awaited(c)' /\ UNCHANGED fatals
  BY <1>3, <1>6, AwaitedKept DEF RunBegin
<1>7. ASSUME RunDispatch
      PROVE  Awaited(c)' /\ [event |-> "HLTH_PING_WRONG_KEY", comp |-> c] \notin fatals'
  BY <1>1, <1>3, <1>7, DispatchAwaited
<1>8. ASSUME RunCheck
      PROVE  Awaited(c)' /\ [event |-> "HLTH_PING_WRONG_KEY", comp |-> c] \notin fatals'
  <2>1. Awaited(c)'
    BY <1>1, <1>3, <1>8, CheckAwaited
  <2>2. [event |-> "HLTH_PING_WRONG_KEY", comp |-> c] \notin fatals'
    BY <1>3, <1>8 DEF RunCheck
  <2>. QED
    BY <2>1, <2>2
<1>9. ASSUME UNCHANGED vars PROVE Awaited(c)' /\ UNCHANGED fatals
  BY <1>3, <1>9, AwaitedKept DEF vars
<1>. QED
  BY <1>3, <1>4, <1>5, <1>6, <1>7, <1>8, <1>9 DEF Next, Run

(* One place at most holds something to return.                            *)
LEMMA AwaitedCounts ==
    ASSUME TypeOK, NEW c \in Comps, Awaited(c)
    PROVE  Len(pinged[c]) + Cardinality(ReturnsOf(c))
               <= (IF entries[c].cycleCount = 0 THEN 0 ELSE 1)
<1>1. CASE ReturnsOf(c) = {}
  <2>1. Cardinality(ReturnsOf(c)) = 0
    BY <1>1, FS_EmptySet
  <2>2. pinged[c] = <<>> \/ (pinged[c] = <<entries[c].key>> /\ entries[c].cycleCount # 0)
    BY DEF Awaited
  <2>3. pinged[c] = <<>> => Len(pinged[c]) = 0
    OBVIOUS
  <2>4. pinged[c] = <<entries[c].key>> => Len(pinged[c]) = 1
    OBVIOUS
  <2>5. Len(pinged[c]) = 0 \/ (Len(pinged[c]) = 1 /\ entries[c].cycleCount # 0)
    BY <2>2, <2>3, <2>4
  <2>6. CASE Len(pinged[c]) = 0
    <3>1. Len(pinged[c]) + Cardinality(ReturnsOf(c)) = 0
      BY <2>1, <2>6
    <3>. QED
      BY <3>1
  <2>7. CASE Len(pinged[c]) = 1 /\ entries[c].cycleCount # 0
    <3>1. Len(pinged[c]) + Cardinality(ReturnsOf(c)) = 1
      BY <2>1, <2>7
    <3>. QED
      BY <2>7, <3>1
  <2>. QED
    BY <2>5, <2>6, <2>7
<1>2. CASE ReturnsOf(c) # {}
  <2>1. PICK i \in ReturnsOf(c) : ReturnsOf(c) = {i}
    BY <1>2 DEF Awaited
  <2>2. Cardinality(ReturnsOf(c)) = 1
    BY <2>1, FS_Singleton
  <2>3. pinged[c] = <<>> /\ entries[c].cycleCount # 0
    BY <1>2 DEF Awaited
  <2>4. Len(pinged[c]) = 0
    BY <2>3
  <2>. QED
    BY <2>2, <2>3, <2>4
<1>. QED
  BY <1>1, <1>2

(* PingsAreMatched for any number of components, thresholds, commands,     *)
(* queue depth and key width: Run_handler and PingReturn_handler accuse no *)
(* component that returns each ping once of a wrong key, and never have    *)
(* more than one ping of it under way.                                     *)
THEOREM PingsMatched == Spec => []PingsAreMatched
<1>1. IInv => PingsAreMatched
  <2>. SUFFICES ASSUME IInv PROVE PingsAreMatched
    OBVIOUS
  <2>1. ASSUME NEW c \in Comps \ repeated
        PROVE  Len(pinged[c]) + Cardinality(ReturnsOf(c))
                   <= (IF entries[c].cycleCount = 0 THEN 0 ELSE 1)
    BY AwaitedCounts DEF IInv
  <2>. QED
    BY <2>1 DEF IInv, PingsAreMatched, OnePingEach, ReturnsOf
<1>. QED
  BY <1>1, AwaitedInit, AwaitedStep, PTL DEF Spec

-----------------------------------------------------------------------------
(* What a Run found queued is handled before it checks the table: the      *)
(* return of c is still among the messages that this Run will take, or the *)
(* entry awaits nothing.                                                   *)
Prompt(c) ==
    /\ running # Idle
    /\ \/ entries[c].cycleCount = 0
       \/ \E i \in ReturnsOf(c) : i + running <= QueueDepth

PromptInv == IInv /\ \A c \in queuedByRun \ repeated : Prompt(c)

LEMMA EnqueuePrompt ==
    ASSUME TypeOK, NEW m \in Messages, Enqueue(m), NEW c \in Comps, Prompt(c)
    PROVE  Prompt(c)'
<1>1. UNCHANGED <<entries, running>>
  BY DEF Enqueue
<1>2. ReturnsOf(c) \subseteq ReturnsOf(c)'
  BY EnqueueReturns DEF ReturnsOf
<1>. QED
  BY <1>1, <1>2 DEF Prompt, Idle

LEMMA DispatchPrompt ==
    ASSUME TypeOK, RunDispatch, NEW c \in Comps, Awaited(c), Prompt(c)
    PROVE  Prompt(c)'
<1>. DEFINE m == Head(queue)
<1>1. /\ m \in Messages /\ Handle(m) /\ running < QueueDepth /\ running' = running + 1
      /\ running \in Nat /\ QueueDepth \in Nat \ {0}
      /\ queue # <<>> /\ queue' = Tail(queue) /\ entries \in [Comps -> Entry]
  BY HeadTail, ConstantFacts DEF RunDispatch, TypeOK, Idle
<1>2. running' # Idle'
  BY <1>1 DEF Idle
<1>3. CASE m.kind = "PingReturn" /\ m.comp = c
  <2>1. 1 \in ReturnsOf(c) /\ m = queue[1]
    BY <1>3, DispatchReturns
  <2>2. m.key = entries[c].key
    BY <2>1 DEF Awaited
  <2>3. entries' = [entries EXCEPT ![c].cycleCount = 0, ![c].key = 0]
    BY <1>1, <1>3, <2>2 DEF Handle, PingReturn
  <2>4. entries'[c].cycleCount = 0
    BY <1>1, <2>3 DEF Entry
  <2>. QED
    BY <1>2, <2>4 DEF Prompt
<1>4. CASE ~ (m.kind = "PingReturn" /\ m.comp = c)
  <2>1. entries'[c].cycleCount = entries[c].cycleCount
    BY <1>1, <1>4, HandleEntry
  <2>2. ASSUME NEW i \in ReturnsOf(c), i + running <= QueueDepth
        PROVE  \E j \in ReturnsOf(c)' : j + running' <= QueueDepth
    <3>1. i \in 1 .. Len(queue) /\ queue[i].kind = "PingReturn" /\ queue[i].comp = c
      BY DEF ReturnsOf, TypeOK
    <3>2. i # 1 /\ Len(queue) \in Nat
      BY <1>1, <1>4, <3>1, HeadTail
    <3>3. i - 1 \in 1 .. Len(queue) - 1 /\ Tail(queue)[i - 1] = queue[i]
      <4>1. i - 1 \in 1 .. Len(queue) - 1 /\ (i - 1) + 1 = i
        BY <3>1, <3>2
      <4>. QED
        BY <1>1, <4>1, HeadTail
    <3>4. DOMAIN queue' = 1 .. Len(queue) - 1
      BY <1>1, HeadTail
    <3>5. i - 1 \in ReturnsOf(c)'
      BY <1>1, <3>1, <3>3, <3>4 DEF ReturnsOf
    <3>6. (i - 1) + running' <= QueueDepth
      BY <1>1, <2>2, <3>1
    <3>. QED
      BY <3>5, <3>6
  <2>. QED
    BY <1>2, <2>1, <2>2 DEF Prompt
<1>. QED
  BY <1>3, <1>4

(* A Run starts with what is in the queue, which fits into one Run.        *)
LEMMA BeginPrompt ==
    ASSUME TypeOK, RunBegin, NEW c \in queuedByRun' PROVE Prompt(c)'
<1>1. /\ queue \in Seq(Messages) /\ Len(queue) \in Nat /\ Len(queue) <= QueueDepth
      /\ QueueDepth \in Nat \ {0} /\ running' = 0 /\ UNCHANGED queue
  BY ConstantFacts DEF TypeOK, RunBegin
<1>2. PICK i \in DOMAIN queue : queue[i].kind = "PingReturn" /\ queue[i].comp = c
  BY DEF RunBegin
<1>3. i \in ReturnsOf(c)' /\ i + running' <= QueueDepth
  BY <1>1, <1>2 DEF ReturnsOf
<1>. QED
  BY <1>1, <1>3 DEF Prompt, Idle

(* When the table is checked, nothing is left for this Run to take.        *)
LEMMA CheckPrompt ==
    ASSUME TypeOK, RunCheck, NEW c \in Comps, Prompt(c)
    PROVE  entries[c].cycleCount = 0
<1>1. queue \in Seq(Messages) /\ running \in Nat /\ QueueDepth \in Nat
  BY ConstantFacts DEF TypeOK, Idle
<1>2. ASSUME NEW i \in ReturnsOf(c), i + running <= QueueDepth PROVE FALSE
  <2>1. i \in Nat \ {0} /\ queue # <<>>
    BY <1>1 DEF ReturnsOf
  <2>. QED
    BY <1>1, <1>2, <2>1 DEF RunCheck
<1>. QED
  BY <1>2 DEF Prompt

LEMMA PromptStep == ASSUME PromptInv, [Next]_vars PROVE PromptInv'
<1>1. IInv /\ IInv' /\ TypeOK /\ \A c \in Comps \ repeated : Awaited(c)
  BY AwaitedStep DEF PromptInv, IInv
<1>2. repeated \subseteq repeated' /\ queuedByRun \subseteq Comps
  BY <1>1 DEF TypeOK, Next, vars, Run, PingOut, SendCommand, RunBegin, RunDispatch, RunCheck
<1>. SUFFICES ASSUME NEW c \in queuedByRun' \ repeated' PROVE Prompt(c)'
  BY <1>1 DEF PromptInv
<1>3. c \in queuedByRun => Prompt(c) /\ Awaited(c) /\ c \in Comps
  BY <1>1, <1>2 DEF PromptInv
<1>4. ASSUME NEW d \in Comps, PingOut(d) PROVE Prompt(c)'
  <2>1. Head(pinged[d]) \in Keys
    BY <1>1, <1>4 DEF PingOut, TypeOK
  <2>2. Return(d, Head(pinged[d])) \in Messages /\ Enqueue(Return(d, Head(pinged[d])))
    BY <1>4, <2>1 DEF Messages, PingOut
  <2>3. c \in queuedByRun
    BY <2>2 DEF Enqueue
  <2>. QED
    BY <1>1, <1>3, <2>2, <2>3, EnqueuePrompt
<1>5. ASSUME NEW m \in Commands, SendCommand(m) PROVE Prompt(c)'
  <2>1. m \in Messages /\ Enqueue(m) /\ c \in queuedByRun
    BY <1>5 DEF Messages, SendCommand, Enqueue
  <2>. QED
    BY <1>1, <1>3, <2>1, EnqueuePrompt
<1>6. CASE RunBegin
  BY <1>1, <1>6, BeginPrompt
<1>7. CASE RunDispatch
  <2>1. c \in queuedByRun
    BY <1>7 DEF RunDispatch
  <2>. QED
    BY <1>1, <1>3, <1>7, <2>1, DispatchPrompt
<1>8. CASE RunCheck
  BY <1>8 DEF RunCheck
<1>9. CASE UNCHANGED vars
  BY <1>3, <1>9 DEF vars, Prompt, ReturnsOf, Idle
<1>. QED
  BY <1>4, <1>5, <1>6, <1>7, <1>8, <1>9 DEF Next, Run

(* A component that returned its ping before a Run began, and returns no   *)
(* ping twice, is not late in that Run, for any table, queue and commands. *)
THEOREM NoneFalselyLate == Spec => NoFalseLate
<1>1. Init => PromptInv
  BY AwaitedInit DEF PromptInv, Init
<1>2. ASSUME PromptInv, [Next]_vars
      PROVE  [\A c \in queuedByRun \ repeated :
                  [event |-> "HLTH_PING_LATE", comp |-> c] \notin fatals' \ fatals]_vars
  <2>. SUFFICES ASSUME NEW c \in queuedByRun \ repeated, Next
                PROVE  [event |-> "HLTH_PING_LATE", comp |-> c] \notin fatals' \ fatals
    BY <1>2
  <2>1. TypeOK /\ c \in Comps /\ Prompt(c)
    BY <1>2 DEF PromptInv, IInv, TypeOK
  <2>2. CASE RunCheck
    <3>1. ~ Late(entries[c])
      BY <2>1, <2>2, CheckPrompt DEF Late
    <3>. QED
      BY <2>2, <3>1 DEF RunCheck
  <2>3. CASE RunDispatch
    <3>1. Handle(Head(queue))
      BY <2>3 DEF RunDispatch
    <3>. QED
      BY <3>1 DEF Handle, PingReturn
  <2>4. CASE UNCHANGED fatals
    BY <2>4
  <2>. QED
    BY <2>2, <2>3, <2>4 DEF Next, Run, PingOut, SendCommand, RunBegin, Enqueue
<1>3. PromptInv /\ [Next]_vars => PromptInv'
  BY PromptStep
<1>. QED
  BY <1>1, <1>2, <1>3, PTL DEF Spec, NoFalseLate
=============================================================================
