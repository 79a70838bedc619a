---------------------------- MODULE CommandProofs ----------------------------
(* The safety properties of CmdDispatcher and its refinement of the        *)
(* command service, for any sources, components, opcodes, table sizes and  *)
(* number of commands below the point where m_seq wraps; and the safety of *)
(* CmdSequencer, for any files, delays, timeout and commands, in either    *)
(* step mode and whatever arrives late.                                    *)
EXTENDS CmdDispatcher, CmdSequencer, WellFoundedInduction, SequenceTheorems, TLAPS

(* The dispatcher.                                                         *)
-----------------------------------------------------------------------------
(* The set of queued messages, and how the queue's operations change it.   *)
Queued == {queue[i] : i \in DOMAIN queue}

LEMMA PendingIs == Pending = Queued \cup {current}
  BY DEF Pending, Queued

LEMMA MessageKinds ==
    ASSUME NEW m \in Messages
    PROVE  /\ m.kind \in {"buff", "cmd", "stat"}
           /\ m.kind = "buff" => m.req \in Requests
           /\ m.kind = "cmd" => m \in Sends
           /\ m.kind = "stat" => m \in Statuses
  BY DEF Messages, Sends, Statuses

LEMMA TakenQueue ==
    ASSUME TypeOK, Take
    PROVE  /\ current' \in Messages /\ queue' \in Seq(Messages) /\ Len(queue') <= QueueDepth
           /\ Queued = Queued' \cup {current'}
           /\ DOMAIN queue = 1 .. Len(queue) /\ 1 \in DOMAIN queue /\ current' = queue[1]
           /\ DOMAIN queue' = 1 .. Len(queue) - 1
           /\ \A i \in DOMAIN queue' : i + 1 \in DOMAIN queue /\ queue'[i] = queue[i + 1]
<1>1. /\ queue \in Seq(Messages) /\ queue # <<>> /\ Len(queue) <= QueueDepth
      /\ queue' = Tail(queue) /\ current' = Head(queue)
  BY DEF TypeOK, Take
<1>2. /\ DOMAIN queue = 1 .. Len(queue) /\ Len(queue) \in Nat \ {0} /\ QueueDepth \in Nat
      /\ Len(queue') = Len(queue) - 1 /\ DOMAIN queue' = 1 .. Len(queue) - 1
      /\ \A i \in 1 .. Len(queue) - 1 : queue'[i] = queue[i + 1]
      /\ current' = queue[1] /\ current' \in Messages /\ queue' \in Seq(Messages)
  BY <1>1, DispatcherAssumption DEF DispatcherAssumption
<1>3. ASSUME NEW i \in DOMAIN queue, i # 1
      PROVE  i - 1 \in DOMAIN queue' /\ queue[i] = queue'[i - 1]
  <2>1. i - 1 \in 1 .. Len(queue) - 1 /\ (i - 1) + 1 = i
    BY <1>2, <1>3
  <2>2. queue'[i - 1] = queue[(i - 1) + 1]
    BY <1>2, <2>1
  <2>. QED
    BY <1>2, <2>1, <2>2
<1>4. \A i \in DOMAIN queue' : i + 1 \in DOMAIN queue /\ queue'[i] = queue[i + 1]
  BY <1>2
<1>5. 1 \in DOMAIN queue /\ Len(queue') <= QueueDepth
  BY <1>1, <1>2
<1>6. Queued \subseteq Queued' \cup {current'}
  <2>1. ASSUME NEW i \in DOMAIN queue PROVE queue[i] \in Queued' \cup {current'}
    BY <1>2, <1>3 DEF Queued
  <2>. QED
    BY <2>1 DEF Queued
<1>7. Queued' \cup {current'} \subseteq Queued
  BY <1>2, <1>4, <1>5 DEF Queued
<1>. QED
  BY <1>2, <1>4, <1>5, <1>6, <1>7

(* A message that is enqueued is the last one, unless the queue is full    *)
(* and the process ends.                                                   *)
LEMMA EnqueuedQueue ==
    ASSUME TypeOK, NEW m \in Messages, Enqueue(m)
    PROVE  /\ queue' \in Seq(Messages) /\ Len(queue') <= QueueDepth
           /\ halted' \in {halted, "queue full"}
           /\ \/ halted' = "queue full" /\ queue' = queue /\ Queued' = Queued
              \/ /\ halted' = halted /\ Queued' = Queued \cup {m}
                 /\ DOMAIN queue = 1 .. Len(queue) /\ Len(queue) \in Nat
                 /\ DOMAIN queue' = 1 .. Len(queue) + 1 /\ queue'[Len(queue) + 1] = m
                 /\ \A i \in DOMAIN queue : queue'[i] = queue[i]
<1>1. queue \in Seq(Messages) /\ Len(queue) <= QueueDepth /\ QueueDepth \in Nat
  BY DispatcherAssumption DEF TypeOK, DispatcherAssumption
<1>2. CASE Len(queue) < QueueDepth
  <2>1. queue' = Append(queue, m) /\ halted' = halted
    BY <1>2 DEF Enqueue
  <2>2. /\ queue' \in Seq(Messages) /\ Len(queue') = Len(queue) + 1
        /\ DOMAIN queue = 1 .. Len(queue) /\ Len(queue) \in Nat
        /\ DOMAIN queue' = 1 .. Len(queue) + 1 /\ queue'[Len(queue) + 1] = m
        /\ \A i \in DOMAIN queue : queue'[i] = queue[i]
    BY <1>1, <2>1
  <2>3. Len(queue) + 1 \in DOMAIN queue' /\ \A i \in DOMAIN queue : i \in DOMAIN queue'
    BY <2>2
  <2>4. \A i \in DOMAIN queue' : i \in DOMAIN queue \/ i = Len(queue) + 1
    BY <2>2
  <2>5. Queued' \subseteq Queued \cup {m}
    BY <2>2, <2>4 DEF Queued
  <2>6. Queued \subseteq Queued' /\ m \in Queued'
    BY <2>2, <2>3 DEF Queued
  <2>7. Queued' = Queued \cup {m}
    BY <2>5, <2>6
  <2>8. Len(queue') <= QueueDepth
    BY <1>1, <1>2, <2>2
  <2>. QED
    BY <2>1, <2>2, <2>7, <2>8
<1>3. CASE ~(Len(queue) < QueueDepth)
  BY <1>1, <1>3 DEF Enqueue, Queued
<1>. QED
  BY <1>2, <1>3

-----------------------------------------------------------------------------
(* Type correctness.                                                       *)
LEMMA ConstantFacts ==
    /\ SeqMod \in Nat /\ MaxSubmits \in Nat /\ MaxSubmits < SeqMod /\ TrackerSize \in Nat \ {0}
    /\ StatusPorts \subseteq SeqPorts /\ OwnOps \subseteq Opcodes /\ ClearOp \in OwnOps
    /\ "OK" \in Responses /\ Responses \cap Refusals = {} /\ Malformed \notin Opcodes
  BY DispatcherAssumption DEF DispatcherAssumption

LEMMA BumpType == ASSUME TypeOK PROVE mSeq \in Nat /\ Bump(mSeq) \in 0 .. SeqMod - 1
<1>1. mSeq \in 0 .. SeqMod - 1
  BY DEF TypeOK
<1>2. mSeq \in Nat /\ SeqMod \in Nat \ {0}
  BY <1>1, ConstantFacts
<1>. QED
  BY <1>2 DEF Bump

(* A command that is delivered has an opcode that was registered.          *)
LEMMA DeliverableOp ==
    ASSUME TypeOK, NEW op \in Opcodes \cup {Malformed}, Deliverable(op) PROVE op \in Opcodes
<1>1. PICK i \in DOMAIN entryTable : entryTable[i].op = op
  BY DEF Deliverable
<1>2. entryTable \in Seq(Registrations)
  BY DEF TypeOK
<1>3. i \in 1 .. Len(entryTable)
  BY <1>2
<1>4. entryTable[i] \in Registrations
  BY <1>2, <1>3
<1>. QED
  BY <1>1, <1>4, DispatcherAssumption DEF DispatcherAssumption

LEMMA SentType ==
    ASSUME TypeOK, NEW r \in Requests, r.op \in Opcodes
    PROVE  /\ Sent(r) \in Sends /\ Sent(r) \in Messages /\ Sent(r).kind = "cmd"
           /\ Sent(r).op = r.op /\ Sent(r).seq = mSeq /\ Sent(r).id = r.id
<1>1. mSeq \in 0 .. SeqMod - 1 /\ r.id \in 1 .. MaxSubmits
  BY DEF TypeOK, Requests
<1>2. Sent(r) = [kind |-> "cmd", op |-> r.op, seq |-> mSeq, id |-> r.id]
  BY DEF Sent
<1>3. Sent(r) \in Sends
  BY <1>1, <1>2 DEF Sends
<1>. QED
  BY <1>2, <1>3 DEF Messages

LEMMA StatType ==
    ASSUME NEW x \in Sends, NEW resp \in Responses
    PROVE  /\ Stat(x, resp) \in Statuses /\ Stat(x, resp) \in Messages /\ Stat(x, resp).kind = "stat"
           /\ Stat(x, resp).op = x.op /\ Stat(x, resp).seq = x.seq /\ Stat(x, resp).id = x.id
           /\ Stat(x, resp).response = resp
<1>1. Stat(x, resp) = [kind |-> "stat", op |-> x.op, seq |-> x.seq, id |-> x.id, response |-> resp]
  BY DEF Stat
<1>2. x.op \in Opcodes /\ x.seq \in 0 .. SeqMod - 1 /\ x.id \in 1 .. MaxSubmits
  BY DEF Sends
<1>3. Stat(x, resp) \in Statuses
  BY <1>1, <1>2 DEF Statuses
<1>. QED
  BY <1>1, <1>3 DEF Messages

(* The message at hand, by its kind.                                       *)
LEMMA HandledType ==
    ASSUME TypeOK, NEW kind \in {"buff", "cmd", "stat"}, Handling(kind)
    PROVE  /\ current \in Messages /\ current.kind = kind /\ current \in Pending
           /\ current' = Nothing /\ Nothing \notin Messages
           /\ UNCHANGED <<entryTable, submitted, lost>>
<1>1. current.kind = kind /\ current' = Nothing /\ UNCHANGED <<entryTable, submitted, lost>>
  BY DEF Handling
<1>2. Nothing.kind = "nothing"
  BY DEF Nothing
<1>3. Nothing \notin Messages
  BY <1>2, MessageKinds
<1>. QED
  BY <1>1, <1>2, <1>3 DEF TypeOK, Pending

LEMMA RequestAtHand ==
    ASSUME TypeOK, Handling("buff")
    PROVE  /\ current.req \in Requests /\ current.req.id \in 1 .. MaxSubmits
           /\ current.req.port \in SeqPorts /\ current.req.op \in Opcodes \cup {Malformed}
           /\ current.req.context \in Contexts
  BY HandledType, MessageKinds DEF Requests

LEMMA StatusType ==
    ASSUME NEW r \in Requests, NEW resp \in Responses \cup Refusals
    PROVE  Status(r, resp) \in [port : SeqPorts, op : Opcodes \cup {Malformed}, context : Contexts,
                                response : Responses \cup Refusals]
  BY DEF Status, Requests

LEMMA TypeInit == Init => TypeOK
<1>. SUFFICES ASSUME Init PROVE TypeOK
  OBVIOUS
<1>1. /\ entryTable \in Seq(Registrations) /\ Len(entryTable) <= EntryTableSize
      /\ queue \in Seq(Messages) /\ Len(queue) <= QueueDepth
      /\ mSeq \in 0 .. SeqMod - 1 /\ submitted \in 0 .. MaxSubmits
  BY DispatcherAssumption DEF Init, DispatcherAssumption
<1>2. /\ tracker \in [Slots -> Entries \cup {Unused}]
      /\ outcome \in [1 .. MaxSubmits -> SUBSET (Responses \cup Refusals)]
  BY DEF Init
<1>. QED
  BY <1>1, <1>2 DEF Init, TypeOK

LEMMA RefuseType ==
    ASSUME TypeOK, NEW resp \in Refusals, Handling("buff"), Refuse(current.req, resp),
           mSeq' \in 0 .. SeqMod - 1
    PROVE  TypeOK'
<1>1. outcome' \in [1 .. MaxSubmits -> SUBSET (Responses \cup Refusals)]
  BY DEF TypeOK, Refuse
<1>2. answer' \in [port : SeqPorts, op : Opcodes \cup {Malformed}, context : Contexts,
                   response : Responses \cup Refusals] \cup {NoAnswer}
  BY RequestAtHand, StatusType DEF TypeOK, Refuse
<1>. QED
  BY <1>1, <1>2, HandledType DEF TypeOK, Refuse

LEMMA TypeStep == TypeOK /\ [Next]_vars => TypeOK'
<1>. SUFFICES ASSUME TypeOK, [Next]_vars PROVE TypeOK'
  OBVIOUS
<1>. USE ConstantFacts
<1>1. ASSUME NEW reg \in Registrations, Register(reg) PROVE TypeOK'
  <2>a. entryTable \in Seq(Registrations) /\ Len(entryTable) <= EntryTableSize /\ EntryTableSize \in Nat
    BY DispatcherAssumption DEF TypeOK, DispatcherAssumption
  <2>b. \/ entryTable' = entryTable
        \/ entryTable' = Append(entryTable, reg) /\ Len(entryTable) < EntryTableSize
    BY <1>1 DEF Register
  <2>1. entryTable' \in Seq(Registrations) /\ Len(entryTable') <= EntryTableSize
    BY <2>a, <2>b
  <2>2. halted' \in {"no", "queue full", "duplicate opcode", "entry table full", "opcode mismatch"}
    BY <1>1 DEF Register
  <2>. QED
    BY <1>1, <2>1, <2>2 DEF Register, TypeOK
<1>2. ASSUME NEW p \in SeqPorts, NEW op \in Opcodes \cup {Malformed}, NEW x \in Contexts, Submit(p, op, x)
      PROVE  TypeOK'
  <2>. DEFINE r == [id |-> submitted + 1, port |-> p, op |-> op, context |-> x]
              m == [kind |-> "buff", req |-> r]
  <2>1. submitted + 1 \in 1 .. MaxSubmits /\ submitted' \in 0 .. MaxSubmits
    BY <1>2 DEF Submit, TypeOK
  <2>2. r \in Requests
    BY <2>1 DEF Requests
  <2>3. m \in Messages /\ Enqueue(m)
    BY <1>2, <2>2 DEF Messages, Submit
  <2>. HIDE DEF m
  <2>. QED
    BY <1>2, <2>1, <2>3, EnqueuedQueue DEF Submit, TypeOK, tables
<1>3. ASSUME NEW x \in executing, NEW resp \in Responses, Respond(x, resp) PROVE TypeOK'
  <2>1. x \in Sends /\ Stat(x, resp) \in Messages
    BY StatType DEF TypeOK
  <2>2. outcome' \in [1 .. MaxSubmits -> SUBSET (Responses \cup Refusals)]
    BY <1>3, <2>1 DEF TypeOK, Respond, Sends
  <2>. QED
    BY <1>3, <2>1, <2>2, EnqueuedQueue DEF Respond, TypeOK, tables
<1>4. ASSUME NEW x \in executing, Drop(x) PROVE TypeOK'
  BY <1>4 DEF Drop, TypeOK, Sends, tables
<1>5. CASE Take
  BY <1>5, TakenQueue DEF Take, TypeOK, tables
<1>6. CASE BuffMalformed
  BY <1>6, RefuseType DEF BuffMalformed, TypeOK, Refusals
<1>7. CASE BuffUnknown
  BY <1>7, RefuseType, BumpType DEF BuffUnknown, TypeOK, Refusals
<1>8. CASE BuffUntrackable
  BY <1>8, RefuseType DEF BuffUntrackable, TypeOK, Refusals
<1>9. CASE BuffDispatch
  <2>. DEFINE r == current.req
  <2>1. r \in Requests /\ r.op \in Opcodes /\ Sent(r) \in Sends /\ Sent(r) \in Messages
    BY <1>9, RequestAtHand, DeliverableOp, SentType DEF BuffDispatch
  <2>a. [kind |-> "used", seq |-> mSeq, req |-> r] \in Entries
    BY <2>1 DEF TypeOK, Entries
  <2>b. \/ tracker' = tracker
        \/ tracker' = [tracker EXCEPT ![FirstFree] = [kind |-> "used", seq |-> mSeq, req |-> r]]
    BY <1>9 DEF BuffDispatch
  <2>2. tracker' \in [Slots -> Entries \cup {Unused}]
    BY <2>a, <2>b DEF TypeOK
  <2>3. /\ queue' \in Seq(Messages) /\ Len(queue') <= QueueDepth /\ executing' \subseteq Sends
        /\ halted' \in {"no", "queue full", "duplicate opcode", "entry table full", "opcode mismatch"}
    <3>1. CASE Sent(r).op \in OwnOps
      BY <1>9, <2>1, <3>1, EnqueuedQueue DEF BuffDispatch, SendOut, TypeOK
    <3>2. CASE Sent(r).op \notin OwnOps
      BY <1>9, <2>1, <3>2 DEF BuffDispatch, SendOut, TypeOK
    <3>. QED
      BY <3>1, <3>2
  <2>4. mSeq' \in 0 .. SeqMod - 1
    BY <1>9, BumpType DEF BuffDispatch, TypeOK
  <2>. QED
    BY <1>9, <2>2, <2>3, <2>4, HandledType DEF BuffDispatch, TypeOK
<1>10. CASE StatTracked
  <2>1. current \in Statuses
    BY <1>10, HandledType, MessageKinds DEF StatTracked
  <2>2. PICK k \in Slots :
            /\ Matches(k, current)
            /\ IF tracker[k].req.op = current.op
               THEN /\ tracker' = [tracker EXCEPT ![k] = Unused]
                    /\ answer' = Status(tracker[k].req, current.response)
                    /\ UNCHANGED halted
               ELSE halted' = "opcode mismatch" /\ UNCHANGED <<tracker, answer>>
    BY <1>10 DEF StatTracked
  <2>3. tracker[k].req \in Requests
    <3>1. tracker[k] \in Entries \cup {Unused} /\ tracker[k].kind = "used"
      BY <2>2 DEF TypeOK, Matches
    <3>2. tracker[k] # Unused
      BY <3>1 DEF Unused
    <3>. QED
      BY <3>1, <3>2 DEF Entries
  <2>4. Status(tracker[k].req, current.response) \in
            [port : SeqPorts, op : Opcodes \cup {Malformed}, context : Contexts,
             response : Responses \cup Refusals]
    BY <2>1, <2>3, StatusType DEF Statuses
  <2>5. tracker' \in [Slots -> Entries \cup {Unused}]
    BY <2>2 DEF TypeOK
  <2>. QED
    BY <1>10, <2>2, <2>4, <2>5, HandledType DEF StatTracked, TypeOK
<1>11. CASE StatUntracked
  BY <1>11, HandledType DEF StatUntracked, TypeOK
<1>12. CASE OwnCommand
  <2>1. current \in Sends /\ Stat(current, "OK") \in Messages /\ current.id \in 1 .. MaxSubmits
    BY <1>12, HandledType, MessageKinds, StatType DEF OwnCommand, Sends
  <2>2. tracker' \in [Slots -> Entries \cup {Unused}]
    BY <1>12 DEF OwnCommand, TypeOK
  <2>3. outcome' \in [1 .. MaxSubmits -> SUBSET (Responses \cup Refusals)]
    BY <1>12, <2>1 DEF OwnCommand, TypeOK
  <2>. QED
    BY <1>12, <2>1, <2>2, <2>3, HandledType, EnqueuedQueue DEF OwnCommand, TypeOK
<1>13. CASE UNCHANGED vars
  BY <1>13 DEF vars, tables, TypeOK
<1>. QED
  BY <1>1, <1>2, <1>3, <1>4, <1>5, <1>6, <1>7, <1>8, <1>9, <1>10, <1>11, <1>12, <1>13
  DEF Next, Thread

-----------------------------------------------------------------------------
(* The numbers.  A command that was dispatched is known by the number it   *)
(* was sent with, its place among the submitted ones, and its opcode; the  *)
(* component that has it, its statuses and its slot all bear this label,   *)
(* and no two labels share a number or a command.                          *)
Carried == executing \cup {m \in Pending : m.kind \in {"cmd", "stat"}}

Label(x) == [seq |-> x.seq, id |-> x.id, op |-> x.op]
SlotLabel(k) == [seq |-> tracker[k].seq, id |-> tracker[k].req.id, op |-> tracker[k].req.op]
Known == {Label(x) : x \in Carried} \cup {SlotLabel(k) : k \in Used}

LabelsAgree == \A a, b \in Known : a.seq = b.seq \/ a.id = b.id => a = b

LabelsOld ==
    \A a \in Known :
        /\ a.seq < mSeq /\ a.id <= submitted
        /\ \A m \in Pending : m.kind = "buff" => a.id < m.req.id

SlotsDiffer == \A j, k \in Used : j # k => SlotLabel(j) # SlotLabel(k)

(* Queued commands wait in the order of their submission, and mSeq is      *)
(* behind them: it cannot have wrapped.                                    *)
Apart(m, n) ==
    /\ m.kind = "buff" /\ n.kind = "buff" => m.req.id < n.req.id
    /\ m.kind \in {"cmd", "stat"} /\ n.kind \in {"cmd", "stat"} /\ "cmd" \in {m.kind, n.kind}
          => m.id # n.id

InOrder ==
    /\ \A i, j \in DOMAIN queue : i < j => Apart(queue[i], queue[j])
    /\ \A m \in Queued : Apart(current, m)

BuffsAhead ==
    /\ mSeq <= submitted
    /\ \A m \in Pending : m.kind = "buff" => mSeq < m.req.id /\ m.req.id <= submitted

Labels == LabelsAgree /\ LabelsOld /\ SlotsDiffer /\ BuffsAhead

(* Types of what the invariants compare.                                   *)
LEMMA CarriedType ==
    ASSUME TypeOK
    PROVE  /\ \A x \in Carried : x \in Sends \cup Statuses /\ x.seq \in Nat /\ x.id \in 1 .. MaxSubmits
                              /\ x.op \in Opcodes
           /\ \A k \in Used : /\ tracker[k] \in Entries /\ tracker[k].kind = "used" /\ tracker[k].seq \in Nat
                            /\ tracker[k].req \in Requests /\ tracker[k].req.id \in 1 .. MaxSubmits
           /\ \A m \in Pending : m.kind = "buff" => m \in Messages /\ m.req \in Requests /\ m.req.id \in Nat
           /\ mSeq \in Nat /\ submitted \in 0 .. MaxSubmits
<1>1. ASSUME NEW m \in Pending, m.kind \in {"buff", "cmd", "stat"} PROVE m \in Messages
  <2>1. m \in Messages \cup {Nothing}
    <3>1. Queued \subseteq Messages
      <4>1. queue \in Seq(Messages)
        BY DEF TypeOK
      <4>2. \A i \in DOMAIN queue : queue[i] \in Messages
        BY <4>1
      <4>. QED
        BY <4>2 DEF Queued
    <3>. QED
      BY <3>1, PendingIs DEF TypeOK
  <2>2. Nothing.kind = "nothing"
    BY DEF Nothing
  <2>. QED
    BY <1>1, <2>1, <2>2
<1>2. \A x \in Carried : x \in Sends \cup Statuses
  <2>1. ASSUME NEW x \in Pending, x.kind \in {"cmd", "stat"} PROVE x \in Sends \cup Statuses
    BY <1>1, <2>1, MessageKinds
  <2>. QED
    BY <2>1 DEF Carried, TypeOK
<1>3. \A x \in Sends \cup Statuses : x.seq \in Nat /\ x.id \in 1 .. MaxSubmits /\ x.op \in Opcodes
  BY ConstantFacts DEF Sends, Statuses
<1>4. \A k \in Used : tracker[k] \in Entries
  BY DEF Used, TypeOK
<1>5. \A e \in Entries : e.kind = "used" /\ e.seq \in Nat /\ e.req \in Requests /\ e.req.id \in 1 .. MaxSubmits
  BY ConstantFacts DEF Entries, Requests
<1>6. \A m \in Pending : m.kind = "buff" => m \in Messages /\ m.req \in Requests /\ m.req.id \in Nat
  BY <1>1, MessageKinds DEF Requests
<1>7. mSeq \in Nat /\ submitted \in 0 .. MaxSubmits
  BY BumpType DEF TypeOK
<1>. QED
  BY <1>2, <1>3, <1>4, <1>5, <1>6, <1>7

LEMMA KnownType ==
    ASSUME TypeOK PROVE \A a \in Known : a.seq \in Nat /\ a.id \in Nat
  BY CarriedType DEF Known, Label, SlotLabel

SlotsKept == \A k \in Slots : tracker'[k] \in {tracker[k], Unused}

(* A step that sends no command: what is carried after it bears a label    *)
(* that was known, and a new buffer is the next submitted.                 *)
LEMMA QuietKnown ==
    ASSUME TypeOK, TypeOK', SlotsKept, executing' \subseteq executing,
           \A m \in Pending' : m.kind \in {"cmd", "stat"} => \E x \in Carried : Label(m) = Label(x)
    PROVE  Known' \subseteq Known /\ Used' \subseteq Used
<1>1. \A x \in Carried' : Label(x) \in {Label(y) : y \in Carried}
  <2>1. ASSUME NEW x \in executing' PROVE Label(x) \in {Label(y) : y \in Carried}
    BY DEF Carried
  <2>2. ASSUME NEW x \in Pending', x.kind \in {"cmd", "stat"} PROVE Label(x) \in {Label(y) : y \in Carried}
    BY <2>2
  <2>. QED
    BY <2>1, <2>2 DEF Carried
<1>2. \A k \in Used' : k \in Used /\ SlotLabel(k)' = SlotLabel(k)
  BY DEF Used, SlotsKept, SlotLabel
<1>. QED
  BY <1>1, <1>2 DEF Known

LEMMA QuietLabels ==
    ASSUME TypeOK, TypeOK', Labels, SlotsKept, executing' \subseteq executing,
           mSeq' = mSeq, submitted' \in {submitted, submitted + 1},
           \A m \in Pending' :
               /\ m.kind \in {"cmd", "stat"} => \E x \in Carried : Label(m) = Label(x)
               /\ m.kind = "buff" => m \in Pending \/ (m.req.id = submitted + 1 /\ submitted' = submitted + 1)
    PROVE  Labels'
<1>1. Known' \subseteq Known /\ Used' \subseteq Used
  BY QuietKnown
<1>2. mSeq \in Nat /\ submitted \in Nat /\ submitted' \in Nat /\ \A a \in Known : a.seq \in Nat /\ a.id \in Nat
  BY CarriedType, KnownType, ConstantFacts
<1>3. LabelsAgree'
  BY <1>1 DEF Labels, LabelsAgree
<1>4. LabelsOld'
  <2>1. ASSUME NEW a \in Known', NEW m \in Pending', m.kind = "buff" PROVE a.id < m.req.id
    BY <1>1, <1>2, <2>1 DEF Labels, LabelsOld
  <2>2. ASSUME NEW a \in Known' PROVE a.seq < mSeq' /\ a.id <= submitted'
    BY <1>1, <1>2 DEF Labels, LabelsOld
  <2>. QED
    BY <2>1, <2>2 DEF LabelsOld
<1>5. SlotsDiffer'
  <2>1. \A k \in Used' : SlotLabel(k)' = SlotLabel(k)
    BY DEF Used, SlotsKept, SlotLabel
  <2>. QED
    BY <1>1, <2>1 DEF Labels, SlotsDiffer
<1>6. BuffsAhead'
  <2>1. ASSUME NEW m \in Pending', m.kind = "buff" PROVE mSeq' < m.req.id /\ m.req.id <= submitted'
    BY <1>2, <2>1, CarriedType DEF Labels, BuffsAhead
  <2>2. mSeq' <= submitted'
    BY <1>2 DEF Labels, BuffsAhead
  <2>. QED
    BY <2>1, <2>2 DEF BuffsAhead
<1>. QED
  BY <1>3, <1>4, <1>5, <1>6 DEF Labels

(* A command is told by its opcode to be the dispatcher's own.             *)
OwnApart ==
    /\ \A x \in executing : x.op \notin OwnOps
    /\ \A m \in Pending : m.kind = "cmd" => m.op \in OwnOps

(* What is pending after a message was taken, handled or enqueued.         *)
LEMMA HandledPending ==
    ASSUME TypeOK, NEW kind \in {"buff", "cmd", "stat"}, Handling(kind), queue' = queue
    PROVE  Pending' = Queued \cup {Nothing} /\ Queued' = Queued
  BY PendingIs DEF Handling, Pending, Queued

LEMMA HandledEnqueued ==
    ASSUME TypeOK, NEW kind \in {"buff", "cmd", "stat"}, Handling(kind),
           NEW m \in Messages, Enqueue(m)
    PROVE  /\ Pending' \subseteq Queued \cup {Nothing, m}
           /\ halted' # "queue full" => Pending' = Queued \cup {Nothing, m}
  BY EnqueuedQueue DEF Handling, Pending, Queued

LEMMA EnqueuedPending ==
    ASSUME TypeOK, NEW m \in Messages, Enqueue(m), current' = current
    PROVE  /\ Pending' \subseteq Pending \cup {m}
           /\ halted' # "queue full" => Pending' = Pending \cup {m}
  BY EnqueuedQueue DEF Pending, Queued

LEMMA TakenPending ==
    ASSUME TypeOK, Take
    PROVE  Pending' \subseteq Pending /\ Pending = Pending' \cup {Nothing}
<1>1. Queued = Queued' \cup {current'} /\ current = Nothing
  BY TakenQueue DEF Take
<1>2. Pending' = Queued' \cup {current'}
  BY DEF Pending, Queued
<1>. QED
  BY <1>1, <1>2, PendingIs

LEMMA NothingKind == Nothing.kind = "nothing"
  BY DEF Nothing

-----------------------------------------------------------------------------
(* The order of the queue.                                                 *)
LEMMA EnqueuedOrder ==
    ASSUME TypeOK, InOrder, NEW m \in Messages, Enqueue(m), \A q \in Queued : Apart(q, m),
           current' \in {current, Nothing}, current' = Nothing \/ Apart(current, m)
    PROVE  InOrder'
<1>1. CASE queue' = queue /\ Queued' = Queued
  BY <1>1, NothingKind DEF InOrder, Apart
<1>2. CASE ~(queue' = queue /\ Queued' = Queued)
  <2>1. /\ Queued' = Queued \cup {m}
        /\ DOMAIN queue = 1 .. Len(queue) /\ Len(queue) \in Nat
        /\ DOMAIN queue' = 1 .. Len(queue) + 1 /\ queue'[Len(queue) + 1] = m
        /\ \A i \in DOMAIN queue : queue'[i] = queue[i]
    BY <1>2, EnqueuedQueue
  <2>2. ASSUME NEW i \in DOMAIN queue', NEW j \in DOMAIN queue', i < j PROVE Apart(queue'[i], queue'[j])
    <3>1. i \in DOMAIN queue /\ (j \in DOMAIN queue \/ j = Len(queue) + 1)
      BY <2>1, <2>2
    <3>2. queue[i] \in Queued
      BY <3>1 DEF Queued
    <3>3. CASE j \in DOMAIN queue
      BY <2>1, <2>2, <3>1, <3>3 DEF InOrder
    <3>4. CASE j = Len(queue) + 1
      BY <2>1, <3>1, <3>2, <3>4
    <3>. QED
      BY <3>1, <3>3, <3>4
  <2>3. ASSUME NEW q \in Queued' PROVE Apart(current', q)
    BY <2>1, NothingKind DEF InOrder, Apart
  <2>. QED
    BY <2>2, <2>3 DEF InOrder
<1>. QED
  BY <1>1, <1>2

LEMMA TakenOrder == ASSUME TypeOK, InOrder, Take PROVE InOrder'
<1>1. ASSUME NEW i \in DOMAIN queue', NEW j \in DOMAIN queue', i < j PROVE Apart(queue'[i], queue'[j])
  <2>1. /\ i + 1 \in DOMAIN queue /\ j + 1 \in DOMAIN queue /\ i + 1 < j + 1
        /\ queue'[i] = queue[i + 1] /\ queue'[j] = queue[j + 1]
    BY <1>1, TakenQueue
  <2>. QED
    BY <2>1 DEF InOrder
<1>2. ASSUME NEW m \in Queued' PROVE Apart(current', m)
  <2>1. PICK i \in DOMAIN queue' : m = queue'[i]
    BY <1>2 DEF Queued
  <2>2. /\ i + 1 \in DOMAIN queue /\ 1 \in DOMAIN queue /\ 1 < i + 1
        /\ m = queue[i + 1] /\ current' = queue[1]
    BY <2>1, TakenQueue
  <2>. QED
    BY <2>2 DEF InOrder
<1>. QED
  BY <1>1, <1>2 DEF InOrder

LEMMA OrderStep == TypeOK /\ InOrder /\ Labels /\ OwnApart /\ [Next]_vars => InOrder'
<1>. SUFFICES ASSUME TypeOK, InOrder, Labels, OwnApart, [Next]_vars PROVE InOrder'
  OBVIOUS
<1>1. ASSUME UNCHANGED <<queue, current>> PROVE InOrder'
  BY <1>1 DEF InOrder, Queued
<1>2. ASSUME NEW reg \in Registrations, Register(reg) PROVE InOrder'
  BY <1>1, <1>2 DEF Register
<1>3. ASSUME NEW p \in SeqPorts, NEW op \in Opcodes \cup {Malformed}, NEW x \in Contexts, Submit(p, op, x)
      PROVE  InOrder'
  <2>. DEFINE r == [id |-> submitted + 1, port |-> p, op |-> op, context |-> x]
              m == [kind |-> "buff", req |-> r]
  <2>1. submitted \in Nat /\ submitted + 1 \in 1 .. MaxSubmits
    BY <1>3, ConstantFacts, CarriedType DEF Submit
  <2>2. m \in Messages /\ Enqueue(m) /\ current' = current /\ m.kind = "buff" /\ m.req.id = submitted + 1
    BY <1>3, <2>1 DEF Messages, Requests, Submit
  <2>. HIDE DEF m
  <2>3. ASSUME NEW q \in Pending PROVE Apart(q, m)
    BY <2>1, <2>2, CarriedType DEF Labels, BuffsAhead, Apart
  <2>. QED
    BY <2>2, <2>3, PendingIs, EnqueuedOrder
<1>4. ASSUME NEW x \in executing, NEW resp \in Responses, Respond(x, resp) PROVE InOrder'
  <2>. DEFINE m == Stat(x, resp)
  <2>1. /\ m \in Messages /\ m.kind = "stat" /\ m.id = x.id /\ m.op = x.op /\ m.seq = x.seq
        /\ Enqueue(m) /\ current' = current
    BY <1>4, StatType DEF TypeOK, Respond
  <2>. HIDE DEF m
  <2>2. ASSUME NEW q \in Pending, q.kind = "cmd" PROVE q.id # x.id
    <3>1. Label(q) \in Known /\ Label(x) \in Known
      BY <2>2 DEF Known, Carried
    <3>2. Label(q).op # Label(x).op
      BY <2>2 DEF OwnApart, Label
    <3>. QED
      BY <3>1, <3>2 DEF Labels, LabelsAgree, Label
  <2>3. ASSUME NEW q \in Pending PROVE Apart(q, m)
    BY <2>1, <2>2 DEF Apart
  <2>. QED
    BY <2>1, <2>3, PendingIs, EnqueuedOrder
<1>5. ASSUME NEW x \in executing, Drop(x) PROVE InOrder'
  BY <1>1, <1>5 DEF Drop
<1>6. CASE Take
  BY <1>6, TakenOrder
<1>7. ASSUME NEW kind \in {"buff", "cmd", "stat"}, Handling(kind), queue' = queue PROVE InOrder'
  BY <1>7, HandledPending, NothingKind DEF InOrder, Apart, Handling
<1>8. CASE BuffMalformed \/ BuffUnknown \/ BuffUntrackable \/ StatTracked \/ StatUntracked
  BY <1>7, <1>8 DEF BuffMalformed, BuffUnknown, BuffUntrackable, StatTracked, StatUntracked, Refuse
<1>9. CASE BuffDispatch
  <2>. DEFINE r == current.req
  <2>1. r \in Requests /\ Handling("buff") /\ Sent(r) \in Messages /\ Sent(r).kind = "cmd" /\ Sent(r).id = r.id
    BY <1>9, RequestAtHand, DeliverableOp, SentType DEF BuffDispatch
  <2>2. CASE Sent(r).op \notin OwnOps
    BY <1>7, <1>9, <2>1, <2>2 DEF BuffDispatch, SendOut
  <2>3. CASE Sent(r).op \in OwnOps
    <3>1. Enqueue(Sent(r)) /\ current' = Nothing
      BY <1>9, <2>1, <2>3 DEF BuffDispatch, SendOut, Handling
    <3>2. ASSUME NEW q \in Queued, q.kind \in {"cmd", "stat"} PROVE q.id # r.id
      <4>1. Label(q) \in Known /\ current \in Pending /\ current.kind = "buff"
        BY <2>1, <3>2, PendingIs DEF Known, Carried, Handling
      <4>2. q.id < r.id /\ q.id \in Nat
        BY <3>2, <4>1, PendingIs, CarriedType DEF Labels, LabelsOld, Label, Carried
      <4>. QED
        BY <2>1, <4>1, <4>2, CarriedType
    <3>3. PICK m \in Messages : Enqueue(m) /\ m.kind = "cmd" /\ m.id = r.id
      BY <2>1, <3>1
    <3>4. \A q \in Queued : Apart(q, m)
      BY <3>2, <3>3 DEF Apart
    <3>5. current' \in {current, Nothing} /\ (current' = Nothing \/ Apart(current, m))
      BY <3>1
    <3>. QED
      BY <3>3, <3>4, <3>5, EnqueuedOrder
  <2>. QED
    BY <2>2, <2>3
<1>10. CASE OwnCommand
  <2>1. /\ current \in Sends /\ Handling("cmd") /\ current.kind = "cmd" /\ current' = Nothing
        /\ Enqueue(Stat(current, "OK"))
    BY <1>10, HandledType, MessageKinds DEF OwnCommand
  <2>2. /\ Stat(current, "OK") \in Messages /\ Stat(current, "OK").kind = "stat"
        /\ Stat(current, "OK").id = current.id
    BY <2>1, StatType, ConstantFacts
  <2>3. PICK m \in Messages : Enqueue(m) /\ m.kind = "stat" /\ m.id = current.id
    BY <2>1, <2>2
  <2>4. ASSUME NEW q \in Queued PROVE Apart(q, m)
    <3>1. Apart(current, q)
      BY DEF InOrder
    <3>. QED
      BY <2>1, <2>3, <3>1 DEF Apart
  <2>5. current' \in {current, Nothing} /\ (current' = Nothing \/ Apart(current, m))
    BY <2>1
  <2>. QED
    BY <2>3, <2>4, <2>5, EnqueuedOrder
<1>11. CASE UNCHANGED vars
  BY <1>1, <1>11 DEF vars
<1>. QED
  BY <1>2, <1>3, <1>4, <1>5, <1>6, <1>8, <1>9, <1>10, <1>11 DEF Next, Thread

-----------------------------------------------------------------------------
(* Only the dispatcher's own commands go through its queue.                *)
LEMMA OwnStep == TypeOK /\ OwnApart /\ [Next]_vars => OwnApart'
<1>. SUFFICES ASSUME TypeOK, OwnApart, [Next]_vars PROVE OwnApart'
  OBVIOUS
<1>1. ASSUME executing' \subseteq executing, \A m \in Pending' : m.kind = "cmd" => m \in Pending
      PROVE  OwnApart'
  BY <1>1 DEF OwnApart
<1>2. ASSUME NEW reg \in Registrations, Register(reg) PROVE OwnApart'
  BY <1>1, <1>2 DEF Register, Pending
<1>3. ASSUME NEW p \in SeqPorts, NEW op \in Opcodes \cup {Malformed}, NEW x \in Contexts, Submit(p, op, x)
      PROVE  OwnApart'
  <2>. DEFINE r == [id |-> submitted + 1, port |-> p, op |-> op, context |-> x]
              m == [kind |-> "buff", req |-> r]
  <2>1. submitted \in Nat /\ submitted + 1 \in 1 .. MaxSubmits
    BY <1>3, ConstantFacts, CarriedType DEF Submit
  <2>2. m \in Messages /\ Enqueue(m) /\ current' = current /\ m.kind = "buff" /\ executing' = executing
    BY <1>3, <2>1 DEF Messages, Requests, Submit
  <2>. HIDE DEF m
  <2>. QED
    BY <1>1, <2>2, EnqueuedPending
<1>4. ASSUME NEW x \in executing, NEW resp \in Responses, Respond(x, resp) PROVE OwnApart'
  <2>1. PICK m \in Messages : m.kind = "stat" /\ Enqueue(m)
    BY <1>4, StatType DEF TypeOK, Respond
  <2>2. current' = current /\ executing' \subseteq executing
    BY <1>4 DEF Respond
  <2>. QED
    BY <1>1, <2>1, <2>2, EnqueuedPending
<1>5. ASSUME NEW x \in executing, Drop(x) PROVE OwnApart'
  BY <1>1, <1>5 DEF Drop, Pending
<1>6. CASE Take
  BY <1>1, <1>6, TakenPending DEF Take
<1>7. ASSUME NEW kind \in {"buff", "cmd", "stat"}, Handling(kind), queue' = queue
      PROVE  \A m \in Pending' : m.kind = "cmd" => m \in Pending
  BY <1>7, HandledPending, PendingIs, NothingKind
<1>8. CASE BuffMalformed \/ BuffUnknown \/ BuffUntrackable \/ StatTracked \/ StatUntracked
  BY <1>1, <1>7, <1>8 DEF BuffMalformed, BuffUnknown, BuffUntrackable, StatTracked, StatUntracked, Refuse
<1>9. CASE BuffDispatch
  <2>. DEFINE r == current.req
  <2>1. r \in Requests /\ Handling("buff") /\ Sent(r) \in Messages
    BY <1>9, RequestAtHand, DeliverableOp, SentType DEF BuffDispatch
  <2>2. CASE Sent(r).op \notin OwnOps
    <3>1. queue' = queue /\ executing' = executing \cup {Sent(r)}
      BY <1>9, <2>2 DEF BuffDispatch, SendOut
    <3>. QED
      BY <1>7, <2>1, <2>2, <3>1 DEF OwnApart
  <2>3. CASE Sent(r).op \in OwnOps
    <3>1. executing' = executing
      BY <1>9, <2>3 DEF BuffDispatch, SendOut
    <3>2. PICK m \in Messages : Enqueue(m) /\ m.op \in OwnOps
      BY <1>9, <2>1, <2>3 DEF BuffDispatch, SendOut
    <3>3. Pending' \subseteq Queued \cup {Nothing, m}
      BY <2>1, <3>2, HandledEnqueued
    <3>. QED
      BY <3>1, <3>2, <3>3, PendingIs, NothingKind DEF OwnApart
  <2>. QED
    BY <2>2, <2>3
<1>10. CASE OwnCommand
  <2>1. current \in Sends /\ Handling("cmd") /\ Enqueue(Stat(current, "OK")) /\ executing' = executing
    BY <1>10, HandledType, MessageKinds DEF OwnCommand
  <2>2. PICK m \in Messages : Enqueue(m) /\ m.kind = "stat"
    BY <2>1, StatType, ConstantFacts
  <2>3. Pending' \subseteq Queued \cup {Nothing, m}
    BY <2>1, <2>2, HandledEnqueued
  <2>. QED
    BY <1>1, <2>1, <2>2, <2>3, PendingIs, NothingKind
<1>11. CASE UNCHANGED vars
  BY <1>1, <1>11 DEF vars, Pending
<1>. QED
  BY <1>2, <1>3, <1>4, <1>5, <1>6, <1>8, <1>9, <1>10, <1>11 DEF Next, Thread

-----------------------------------------------------------------------------
(* The label of the command at hand, should it be dispatched: neither its  *)
(* number nor its place is that of a command before it.                    *)
NewLabel == [seq |-> mSeq, id |-> current.req.id, op |-> current.req.op]

LEMMA BumpIsNext ==
    ASSUME TypeOK, BuffsAhead, Handling("buff")
    PROVE  /\ Bump(mSeq) = mSeq + 1 /\ mSeq < current.req.id /\ current.req.id <= submitted
           /\ current.req.id \in Nat /\ mSeq \in Nat /\ submitted \in Nat
<1>1. current \in Pending /\ current.kind = "buff" /\ current.req.id \in 1 .. MaxSubmits
  BY HandledType, RequestAtHand
<1>2. mSeq < current.req.id /\ current.req.id <= submitted
  BY <1>1 DEF BuffsAhead
<1>3. mSeq \in Nat /\ submitted \in 0 .. MaxSubmits /\ SeqMod \in Nat /\ MaxSubmits < SeqMod /\ MaxSubmits \in Nat
  BY CarriedType, ConstantFacts
<1>4. mSeq + 1 \in Nat /\ mSeq + 1 < SeqMod /\ current.req.id \in Nat /\ submitted \in Nat
  BY <1>1, <1>2, <1>3
<1>5. \A n \in Nat : n < SeqMod => n % SeqMod = n
  BY <1>3
<1>. QED
  BY <1>2, <1>3, <1>4, <1>5 DEF Bump

LEMMA BumpedLabels ==
    ASSUME TypeOK, TypeOK', Labels, InOrder, Handling("buff"), mSeq' = Bump(mSeq),
           \A m \in Pending' : m.kind = "buff" => m \in Queued,
           Known' \subseteq Known \cup {NewLabel},
           \A k \in Used' : \/ k \in Used /\ SlotLabel(k)' = SlotLabel(k)
                            \/ k = FirstFree /\ SlotLabel(k)' = NewLabel
    PROVE  Labels'
<1>1. /\ mSeq' = mSeq + 1 /\ mSeq < current.req.id /\ current.req.id <= submitted
      /\ current.req.id \in Nat /\ mSeq \in Nat /\ submitted \in Nat /\ submitted' = submitted
      /\ current.kind = "buff" /\ current \in Pending
  BY BumpIsNext, HandledType DEF Labels
<1>2. ASSUME NEW m \in Pending', m.kind = "buff"
      PROVE  m \in Pending /\ m.req.id \in Nat /\ current.req.id < m.req.id /\ m.req.id <= submitted
  <2>1. m \in Queued /\ m \in Pending
    BY <1>2, PendingIs
  <2>2. m.req.id \in Nat /\ m.req.id <= submitted
    BY <1>2, <2>1, CarriedType DEF Labels, BuffsAhead
  <2>3. Apart(current, m)
    BY <2>1 DEF InOrder
  <2>. QED
    BY <1>1, <1>2, <2>1, <2>2, <2>3 DEF Apart
<1>3. \A a \in Known : /\ a.seq \in Nat /\ a.id \in Nat /\ a.seq < mSeq /\ a.id < current.req.id
                       /\ a.id <= submitted
  BY <1>1, KnownType DEF Labels, LabelsOld
<1>4. NewLabel.seq = mSeq /\ NewLabel.id = current.req.id
  BY DEF NewLabel
<1>5. \A a \in Known : a.seq # NewLabel.seq /\ a.id # NewLabel.id /\ a # NewLabel
  BY <1>1, <1>3, <1>4
<1>6. LabelsAgree'
  <2>1. ASSUME NEW a \in Known', NEW b \in Known', a.seq = b.seq \/ a.id = b.id PROVE a = b
    BY <1>5, <2>1 DEF Labels, LabelsAgree
  <2>. QED
    BY <2>1 DEF LabelsAgree
<1>7. LabelsOld'
  <2>1. ASSUME NEW a \in Known' PROVE a.seq < mSeq' /\ a.id <= submitted'
    <3>1. CASE a \in Known
      BY <1>1, <1>3, <3>1
    <3>2. CASE a = NewLabel
      BY <1>1, <1>4, <3>2
    <3>. QED
      BY <2>1, <3>1, <3>2
  <2>2. ASSUME NEW a \in Known', NEW m \in Pending', m.kind = "buff" PROVE a.id < m.req.id
    <3>1. CASE a \in Known
      BY <1>2, <1>3, <2>2, <3>1, <1>1
    <3>2. CASE a = NewLabel
      BY <1>2, <1>4, <2>2, <3>2
    <3>. QED
      BY <2>2, <3>1, <3>2
  <2>. QED
    BY <2>1, <2>2 DEF LabelsOld
<1>8. SlotsDiffer'
  <2>1. \A k \in Used : SlotLabel(k) \in Known
    BY DEF Known
  <2>2. ASSUME NEW j \in Used', NEW k \in Used', j # k PROVE SlotLabel(j)' # SlotLabel(k)'
    <3>1. CASE j \in Used /\ k \in Used /\ SlotLabel(j)' = SlotLabel(j) /\ SlotLabel(k)' = SlotLabel(k)
      BY <2>2, <3>1 DEF Labels, SlotsDiffer
    <3>2. CASE ~(j \in Used /\ k \in Used /\ SlotLabel(j)' = SlotLabel(j) /\ SlotLabel(k)' = SlotLabel(k))
      BY <1>5, <2>1, <2>2, <3>2
    <3>. QED
      BY <3>1, <3>2
  <2>. QED
    BY <2>2 DEF SlotsDiffer
<1>9. BuffsAhead'
  <2>1. mSeq' <= submitted'
    BY <1>1
  <2>2. ASSUME NEW m \in Pending', m.kind = "buff" PROVE mSeq' < m.req.id /\ m.req.id <= submitted'
    BY <1>1, <1>2, <2>2
  <2>. QED
    BY <2>1, <2>2 DEF BuffsAhead
<1>. QED
  BY <1>6, <1>7, <1>8, <1>9 DEF Labels

(* What a dispatched command adds to the labels.                           *)
LEMMA DispatchedKnown ==
    ASSUME TypeOK, TypeOK', BuffDispatch
    PROVE  /\ Known' \subseteq Known \cup {NewLabel}
           /\ \A m \in Pending' : m.kind = "buff" => m \in Queued
           /\ \A k \in Used' : \/ k \in Used /\ SlotLabel(k)' = SlotLabel(k)
                               \/ k = FirstFree /\ SlotLabel(k)' = NewLabel
<1>. DEFINE r == current.req
<1>1. /\ r \in Requests /\ Handling("buff") /\ Sent(r) \in Messages /\ Sent(r).kind = "cmd"
      /\ Label(Sent(r)) = NewLabel
  BY RequestAtHand, DeliverableOp, SentType DEF BuffDispatch, Label, NewLabel
<1>2. \A m \in Pending' : m \in Queued \/ m = Nothing \/ (m.kind = "cmd" /\ Label(m) = NewLabel)
  <2>1. CASE Sent(r).op \notin OwnOps
    <3>1. queue' = queue
      BY <2>1 DEF BuffDispatch, SendOut
    <3>2. Pending' = Queued \cup {Nothing}
      BY <1>1, <3>1, HandledPending
    <3>. QED
      BY <3>2
  <2>2. CASE Sent(r).op \in OwnOps
    <3>1. PICK m \in Messages : Enqueue(m) /\ m.kind = "cmd" /\ Label(m) = NewLabel
      BY <1>1, <2>2 DEF BuffDispatch, SendOut
    <3>2. Pending' \subseteq Queued \cup {Nothing, m}
      BY <1>1, <3>1, HandledEnqueued
    <3>. QED
      BY <3>1, <3>2
  <2>. QED
    BY <2>1, <2>2
<1>e. \A x \in executing' : x \in executing \/ Label(x) = NewLabel
  <2>1. executing' \subseteq executing \cup {Sent(r)}
    BY DEF BuffDispatch, SendOut
  <2>. QED
    BY <1>1, <2>1
<1>3. \A k \in Used' : \/ k \in Used /\ SlotLabel(k)' = SlotLabel(k)
                       \/ k = FirstFree /\ SlotLabel(k)' = NewLabel
  <2>. DEFINE e == [kind |-> "used", seq |-> mSeq, req |-> r]
  <2>1. \A k \in Slots : tracker'[k] = tracker[k] \/ (k = FirstFree /\ tracker'[k] = e)
    <3>1. tracker' = tracker \/ tracker' = [tracker EXCEPT ![FirstFree] = e]
      BY DEF BuffDispatch
    <3>2. DOMAIN tracker = Slots
      BY DEF TypeOK
    <3>. QED
      BY <3>1, <3>2
  <2>2. ASSUME NEW k \in Used', tracker'[k] = tracker[k] PROVE k \in Used /\ SlotLabel(k)' = SlotLabel(k)
    BY <2>2 DEF Used, SlotLabel
  <2>3. ASSUME NEW k \in Used', tracker'[k] = e PROVE SlotLabel(k)' = NewLabel
    BY <2>3 DEF SlotLabel, NewLabel
  <2>4. Used' \subseteq Slots
    BY DEF Used
  <2>. QED
    BY <2>1, <2>2, <2>3, <2>4
<1>4. Known' \subseteq Known \cup {NewLabel}
  <2>1. \A x \in Carried' : x \in Carried \/ Label(x) = NewLabel
    <3>1. \A x \in Pending' : x.kind \in {"cmd", "stat"} => x \in Carried \/ Label(x) = NewLabel
      BY <1>2, PendingIs, NothingKind DEF Carried
    <3>. QED
      BY <1>e, <3>1 DEF Carried
  <2>. QED
    BY <1>3, <2>1 DEF Known
<1>. QED
  BY <1>2, <1>3, <1>4, NothingKind

(* A step that neither dispatches nor submits a command: a status joins    *)
(* the queue at most.                                                      *)
Quiet ==
    /\ SlotsKept /\ executing' \subseteq executing /\ mSeq' = mSeq /\ submitted' = submitted
    /\ \A m \in Pending' :
          m \in Pending \/ m = Nothing \/ (m.kind = "stat" /\ \E x \in Carried : Label(m) = Label(x))

LEMMA QuietStep == ASSUME TypeOK, TypeOK', Labels, Quiet PROVE Labels'
<1>1. \A m \in Pending' : /\ m.kind \in {"cmd", "stat"} => \E x \in Carried : Label(m) = Label(x)
                          /\ m.kind = "buff" => m \in Pending
  <2>1. ASSUME NEW m \in Pending', m.kind \in {"cmd", "stat"} PROVE \E x \in Carried : Label(m) = Label(x)
    BY <2>1, NothingKind DEF Quiet, Carried
  <2>2. ASSUME NEW m \in Pending', m.kind = "buff" PROVE m \in Pending
    BY <2>2, NothingKind DEF Quiet
  <2>. QED
    BY <2>1, <2>2
<1>2. SlotsKept /\ executing' \subseteq executing /\ mSeq' = mSeq /\ submitted' \in {submitted, submitted + 1}
  BY DEF Quiet
<1>. QED
  BY <1>1, <1>2, QuietLabels

LEMMA LabelsStep == TypeOK /\ TypeOK' /\ InOrder /\ Labels /\ [Next]_vars => Labels'
<1>. SUFFICES ASSUME TypeOK, TypeOK', InOrder, Labels, [Next]_vars PROVE Labels'
  OBVIOUS
<1>1. ASSUME Quiet PROVE Labels'
  BY <1>1, QuietStep
<1>2. ASSUME NEW reg \in Registrations, Register(reg) PROVE Labels'
  BY <1>1, <1>2 DEF Quiet, Register, Pending, SlotsKept
<1>3. ASSUME NEW p \in SeqPorts, NEW op \in Opcodes \cup {Malformed}, NEW x \in Contexts, Submit(p, op, x)
      PROVE  Labels'
  <2>. DEFINE r == [id |-> submitted + 1, port |-> p, op |-> op, context |-> x]
              m == [kind |-> "buff", req |-> r]
  <2>1. submitted \in Nat /\ submitted + 1 \in 1 .. MaxSubmits
    BY <1>3, ConstantFacts, CarriedType DEF Submit
  <2>2. /\ m \in Messages /\ Enqueue(m) /\ m.kind = "buff" /\ m.req.id = submitted + 1
        /\ UNCHANGED <<current, executing, tracker, mSeq>>
    BY <1>3, <2>1 DEF Messages, Requests, Submit, tables
  <2>3. /\ \/ queue' = queue /\ submitted' = submitted
           \/ submitted' = submitted + 1
    BY <1>3, <2>1 DEF Submit, Enqueue
  <2>. HIDE DEF m
  <2>4. Pending' \subseteq Pending \cup {m}
    BY <2>2, EnqueuedPending
  <2>5. CASE queue' = queue /\ submitted' = submitted
    BY <1>1, <2>2, <2>5 DEF Quiet, Pending, SlotsKept
  <2>6. CASE submitted' = submitted + 1
    <3>1. \A n \in Pending' : /\ n.kind \in {"cmd", "stat"} => \E y \in Carried : Label(n) = Label(y)
                              /\ n.kind = "buff" => n \in Pending \/ n.req.id = submitted + 1
      BY <2>2, <2>4 DEF Carried
    <3>2. SlotsKept
      BY <2>2 DEF SlotsKept
    <3>. QED
      BY <2>2, <2>6, <3>1, <3>2, QuietLabels
  <2>. QED
    BY <2>3, <2>5, <2>6
<1>4. ASSUME NEW x \in executing, NEW resp \in Responses, Respond(x, resp) PROVE Labels'
  <2>a. x \in Sends /\ Stat(x, resp) \in Messages /\ Enqueue(Stat(x, resp))
    BY <1>4, StatType DEF TypeOK, Respond
  <2>b. Stat(x, resp).kind = "stat" /\ Label(Stat(x, resp)) = Label(x)
    BY <2>a, StatType DEF Label
  <2>1. PICK m \in Messages : m.kind = "stat" /\ Label(m) = Label(x) /\ Enqueue(m)
    BY <2>a, <2>b
  <2>2. current' = current /\ executing' \subseteq executing /\ UNCHANGED <<tracker, mSeq, submitted>>
    BY <1>4 DEF Respond, tables
  <2>3. Pending' \subseteq Pending \cup {m} /\ x \in Carried
    BY <2>1, <2>2, EnqueuedPending DEF Carried
  <2>. QED
    BY <1>1, <2>1, <2>2, <2>3 DEF Quiet, SlotsKept
<1>5. ASSUME NEW x \in executing, Drop(x) PROVE Labels'
  BY <1>1, <1>5 DEF Quiet, Drop, Pending, SlotsKept, tables
<1>6. CASE Take
  BY <1>1, <1>6, TakenPending DEF Quiet, Take, SlotsKept, tables
<1>7. ASSUME NEW kind \in {"buff", "cmd", "stat"}, Handling(kind), queue' = queue
      PROVE  /\ \A m \in Pending' : (m \in Queued /\ m \in Pending) \/ m = Nothing
             /\ submitted' = submitted
  BY <1>7, HandledPending, PendingIs, HandledType
<1>8. CASE BuffMalformed \/ BuffUntrackable \/ StatUntracked
  <2>1. /\ Handling("buff") \/ Handling("stat")
        /\ UNCHANGED <<tracker, queue, executing, mSeq>>
    BY <1>8 DEF BuffMalformed, BuffUntrackable, StatUntracked, Refuse
  <2>. QED
    BY <1>1, <1>7, <2>1 DEF Quiet, SlotsKept
<1>9. CASE StatTracked
  <2>1. Handling("stat") /\ UNCHANGED <<queue, executing, mSeq>>
    BY <1>9 DEF StatTracked
  <2>2. SlotsKept
    <3>1. tracker' = tracker \/ \E k \in Slots : tracker' = [tracker EXCEPT ![k] = Unused]
      BY <1>9 DEF StatTracked
    <3>. QED
      BY <3>1 DEF SlotsKept, TypeOK
  <2>. QED
    BY <1>1, <1>7, <2>1, <2>2 DEF Quiet
<1>10. CASE OwnCommand
  <2>1. /\ current \in Sends /\ Handling("cmd") /\ Enqueue(Stat(current, "OK")) /\ current \in Carried
        /\ executing' = executing /\ mSeq' = mSeq /\ submitted' = submitted
    BY <1>10, HandledType, MessageKinds DEF OwnCommand, Carried
  <2>2. PICK m \in Messages : Enqueue(m) /\ m.kind = "stat" /\ Label(m) = Label(current)
    BY <2>1, StatType, ConstantFacts DEF Label
  <2>3. Pending' \subseteq Queued \cup {Nothing, m}
    BY <2>1, <2>2, HandledEnqueued
  <2>4. SlotsKept
    BY <1>10 DEF OwnCommand, SlotsKept
  <2>. QED
    BY <1>1, <2>1, <2>2, <2>3, <2>4, PendingIs DEF Quiet
<1>11. CASE BuffUnknown
  <2>1. Handling("buff") /\ UNCHANGED <<tracker, queue, executing>> /\ mSeq' = Bump(mSeq)
    BY <1>11 DEF BuffUnknown, Refuse
  <2>2. /\ \A m \in Pending' : m.kind \in {"cmd", "stat"} => \E x \in Carried : Label(m) = Label(x)
        /\ \A m \in Pending' : m.kind = "buff" => m \in Queued
    BY <1>7, <2>1, NothingKind DEF Carried
  <2>3. Known' \subseteq Known /\ \A k \in Used' : k \in Used /\ SlotLabel(k)' = SlotLabel(k)
    <3>1. SlotsKept
      BY <2>1 DEF SlotsKept
    <3>. QED
      BY <2>1, <2>2, <3>1, QuietKnown DEF SlotLabel
  <2>. QED
    BY <2>1, <2>2, <2>3, BumpedLabels
<1>12. CASE BuffDispatch
  BY <1>12, DispatchedKnown, BumpedLabels DEF BuffDispatch
<1>13. CASE UNCHANGED vars
  BY <1>1, <1>13 DEF Quiet, vars, tables, Pending, SlotsKept
<1>. QED
  BY <1>2, <1>3, <1>4, <1>5, <1>6, <1>8, <1>9, <1>10, <1>11, <1>12, <1>13 DEF Next, Thread

-----------------------------------------------------------------------------
(* The properties that rest on the labels.                                 *)
NoMismatch == halted # "opcode mismatch"

(* A status that matches a slot bears the slot's label.                    *)
LEMMA MatchedLabel ==
    ASSUME TypeOK, Labels, NEW m \in Pending, m.kind = "stat", NEW k \in Slots,
           tracker[k].kind = "used", tracker[k].seq = m.seq \/ tracker[k].req.id = m.id
    PROVE  k \in Used /\ SlotLabel(k) = Label(m)
<1>1. k \in Used
  BY DEF Used, Unused
<1>2. SlotLabel(k) \in Known /\ Label(m) \in Known
  BY <1>1 DEF Known, Carried
<1>3. SlotLabel(k).seq = tracker[k].seq /\ SlotLabel(k).id = tracker[k].req.id
  BY DEF SlotLabel
<1>4. Label(m).seq = m.seq /\ Label(m).id = m.id
  BY DEF Label
<1>. QED
  BY <1>1, <1>2, <1>3, <1>4 DEF Labels, LabelsAgree

LEMMA MismatchStep == TypeOK /\ Labels /\ NoMismatch /\ [Next]_vars => NoMismatch'
<1>. SUFFICES ASSUME TypeOK, Labels, NoMismatch, [Next]_vars PROVE NoMismatch'
  OBVIOUS
<1>1. ASSUME halted' \in {halted, "queue full", "duplicate opcode", "entry table full"} PROVE NoMismatch'
  BY <1>1 DEF NoMismatch
<1>2. ASSUME NEW reg \in Registrations, Register(reg) PROVE NoMismatch'
  BY <1>1, <1>2 DEF Register
<1>3. ASSUME NEW p \in SeqPorts, NEW op \in Opcodes \cup {Malformed}, NEW x \in Contexts, Submit(p, op, x)
      PROVE  NoMismatch'
  BY <1>1, <1>3 DEF Submit, Enqueue
<1>4. ASSUME NEW x \in executing, NEW resp \in Responses, Respond(x, resp) PROVE NoMismatch'
  BY <1>1, <1>4 DEF Respond, Enqueue
<1>5. ASSUME NEW x \in executing, Drop(x) PROVE NoMismatch'
  BY <1>1, <1>5 DEF Drop
<1>6. CASE Take \/ BuffMalformed \/ BuffUnknown \/ BuffUntrackable \/ StatUntracked
  BY <1>1, <1>6 DEF Take, BuffMalformed, BuffUnknown, BuffUntrackable, StatUntracked, Refuse
<1>7. CASE BuffDispatch \/ OwnCommand
  BY <1>1, <1>7 DEF BuffDispatch, OwnCommand, SendOut, Enqueue
<1>8. CASE StatTracked
  <2>1. current \in Pending /\ current.kind = "stat"
    BY <1>8, HandledType DEF StatTracked
  <2>2. PICK k \in Slots : /\ Matches(k, current)
                           /\ tracker[k].req.op = current.op => UNCHANGED halted
    BY <1>8 DEF StatTracked
  <2>3. SlotLabel(k) = Label(current)
    BY <2>1, <2>2, MatchedLabel DEF Matches
  <2>4. tracker[k].req.op = current.op
    BY <2>3 DEF SlotLabel, Label
  <2>. QED
    BY <1>1, <2>2, <2>4
<1>9. CASE UNCHANGED vars
  BY <1>1, <1>9 DEF vars
<1>. QED
  BY <1>2, <1>3, <1>4, <1>5, <1>6, <1>7, <1>8, <1>9 DEF Next, Thread

LEMMA StatusMatched == TypeOK /\ Labels /\ NoMismatch => StatusFindsItsCommand
<1>. SUFFICES ASSUME TypeOK, Labels, NoMismatch PROVE StatusFindsItsCommand
  OBVIOUS
<1>1. ASSUME NEW k \in Used, NEW m \in Pending, m.kind = "stat", Matches(k, m)
      PROVE  tracker[k].req.id = m.id
  <2>1. k \in Slots
    BY DEF Used
  <2>2. SlotLabel(k) = Label(m)
    BY <1>1, <2>1, MatchedLabel DEF Matches
  <2>. QED
    BY <2>2 DEF SlotLabel, Label
<1>. QED
  BY <1>1 DEF StatusFindsItsCommand, NoMismatch

(* A slot whose command someone still has, or a component has dropped.     *)
Covered(k) == tracker[k].req.id \in lost \/ \E m \in Carried : m.id = tracker[k].req.id

LEMMA LeaksAre == NoSlotLeaks <=> (halted = "no" => \A k \in Used : Covered(k))
  BY DEF NoSlotLeaks, Covered, Carried

(* Slots stay covered while those that carried their commands, or others   *)
(* with the same number, still do.                                         *)
LEMMA CoveredKept ==
    ASSUME TypeOK, NoSlotLeaks, halted = "no", lost \subseteq lost',
           \A k \in Used' : k \in Used /\ tracker'[k] = tracker[k],
           \A x \in Carried :
               (\A k \in Used' : tracker[k].req.id # x.id) \/ (x.id \in lost')
                   \/ (halted' = "no" => \E y \in Carried' : y.id = x.id)
    PROVE  NoSlotLeaks'
<1>1. ASSUME NEW k \in Used', halted' = "no" PROVE Covered(k)'
  <2>1. Covered(k) /\ tracker'[k].req.id = tracker[k].req.id
    BY <1>1, LeaksAre
  <2>. QED
    BY <1>1, <2>1 DEF Covered
<1>2. NoSlotLeaks' <=> (halted' = "no" => \A k \in Used' : Covered(k)')
  BY DEF NoSlotLeaks, Covered, Carried
<1>. QED
  BY <1>1, <1>2

LEMMA LeakStep == TypeOK /\ TypeOK' /\ Labels /\ NoSlotLeaks /\ [Next]_vars => NoSlotLeaks'
<1>. SUFFICES ASSUME TypeOK, TypeOK', Labels, NoSlotLeaks, [Next]_vars PROVE NoSlotLeaks'
  OBVIOUS
<1>1. ASSUME UNCHANGED <<tracker, lost, executing, queue, current>>, halted' = "no" => halted = "no"
      PROVE  NoSlotLeaks'
  BY <1>1 DEF NoSlotLeaks, Used, Pending
<1>2. ASSUME tracker' = tracker PROVE \A k \in Used' : k \in Used /\ tracker'[k] = tracker[k]
  BY <1>2 DEF Used
<1>3. ASSUME NEW reg \in Registrations, Register(reg) PROVE NoSlotLeaks'
  BY <1>1, <1>3 DEF Register
<1>4. ASSUME NEW p \in SeqPorts, NEW op \in Opcodes \cup {Malformed}, NEW x \in Contexts, Submit(p, op, x)
      PROVE  NoSlotLeaks'
  <2>. DEFINE r == [id |-> submitted + 1, port |-> p, op |-> op, context |-> x]
              m == [kind |-> "buff", req |-> r]
  <2>1. submitted \in Nat /\ submitted + 1 \in 1 .. MaxSubmits
    BY <1>4, ConstantFacts, CarriedType DEF Submit
  <2>2. /\ m \in Messages /\ Enqueue(m) /\ halted = "no"
        /\ UNCHANGED <<current, executing, tracker, lost>>
    BY <1>4, <2>1 DEF Messages, Requests, Submit, tables
  <2>. HIDE DEF m
  <2>3. halted' = "no" => Pending \subseteq Pending'
    BY <2>2, EnqueuedPending
  <2>4. halted' = "no" => Carried \subseteq Carried'
    BY <2>2, <2>3 DEF Carried
  <2>. QED
    BY <1>2, <2>2, <2>4, CoveredKept
<1>5. ASSUME NEW x \in executing, NEW resp \in Responses, Respond(x, resp) PROVE NoSlotLeaks'
  <2>1. x \in Sends /\ Stat(x, resp) \in Messages /\ Stat(x, resp).kind = "stat" /\ Stat(x, resp).id = x.id
    BY StatType DEF TypeOK
  <2>2. PICK m \in Messages : Enqueue(m) /\ m.kind = "stat" /\ m.id = x.id
    BY <1>5, <2>1 DEF Respond
  <2>3. halted = "no" /\ UNCHANGED <<current, tracker, lost>> /\ executing \ {x} \subseteq executing'
    BY <1>5 DEF Respond, tables
  <2>4. halted' = "no" => Pending' = Pending \cup {m}
    BY <2>2, <2>3, EnqueuedPending
  <2>5. halted' = "no" => \A y \in Carried : y \in Carried' \/ y.id = x.id
    BY <2>3, <2>4 DEF Carried
  <2>6. halted' = "no" => m \in Carried'
    BY <2>2, <2>4 DEF Carried
  <2>7. halted' = "no" => \A y \in Carried : \E z \in Carried' : z.id = y.id
    BY <2>2, <2>5, <2>6
  <2>. QED
    BY <1>2, <2>3, <2>7, CoveredKept
<1>6. ASSUME NEW x \in executing, Drop(x) PROVE NoSlotLeaks'
  <2>1. /\ halted = "no" /\ UNCHANGED <<current, queue, tracker, halted>>
        /\ executing' = executing \ {x} /\ lost' = lost \cup {x.id}
    BY <1>6 DEF Drop, tables
  <2>2. \A y \in Carried : y \in Carried' \/ y.id \in lost'
    BY <2>1 DEF Carried, Pending
  <2>. QED
    BY <1>2, <2>1, <2>2, CoveredKept
<1>7. CASE Take
  <2>1. halted = "no" /\ UNCHANGED <<tracker, executing, halted, lost>>
    BY <1>7 DEF Take, tables
  <2>2. Carried \subseteq Carried'
    BY <1>7, <2>1, TakenPending, NothingKind DEF Carried
  <2>. QED
    BY <1>2, <2>1, <2>2, CoveredKept
<1>8. CASE BuffMalformed \/ BuffUnknown \/ BuffUntrackable
  <2>1. /\ Handling("buff") /\ halted = "no"
        /\ UNCHANGED <<tracker, queue, executing, halted, lost>>
    BY <1>8 DEF BuffMalformed, BuffUnknown, BuffUntrackable, Refuse, Handling
  <2>2. Carried \subseteq Carried'
    BY <2>1, HandledPending, HandledType, PendingIs DEF Carried
  <2>. QED
    BY <1>2, <2>1, <2>2, CoveredKept
<1>9. CASE BuffDispatch
  <2>. DEFINE r == current.req
  <2>1. /\ r \in Requests /\ Handling("buff") /\ Sent(r) \in Messages /\ Sent(r).kind = "cmd" /\ Sent(r).id = r.id
        /\ halted = "no" /\ current.kind = "buff" /\ UNCHANGED lost
    BY <1>9, RequestAtHand, DeliverableOp, SentType, HandledType DEF BuffDispatch, Handling
  <2>2. halted' = "no" => Carried \subseteq Carried' /\ Sent(r) \in Carried'
    <3>1. CASE Sent(r).op \notin OwnOps
      <4>1. queue' = queue /\ executing' = executing \cup {Sent(r)}
        BY <1>9, <3>1 DEF BuffDispatch, SendOut
      <4>2. Pending' = Queued \cup {Nothing}
        BY <2>1, <4>1, HandledPending
      <4>. QED
        BY <2>1, <4>1, <4>2, PendingIs DEF Carried
    <3>2. CASE Sent(r).op \in OwnOps
      <4>1. executing' = executing
        BY <1>9, <3>2 DEF BuffDispatch, SendOut
      <4>2. PICK m \in Messages : Enqueue(m) /\ m = Sent(r)
        BY <1>9, <2>1, <3>2 DEF BuffDispatch, SendOut
      <4>3. halted' # "queue full" => Pending' = Queued \cup {Nothing, m}
        BY <2>1, <4>2, HandledEnqueued
      <4>. QED
        BY <2>1, <4>1, <4>2, <4>3, PendingIs DEF Carried
    <3>. QED
      BY <3>1, <3>2
  <2>3. ASSUME NEW k \in Used', halted' = "no" PROVE Covered(k)'
    <3>1. \/ k \in Used /\ tracker'[k].req.id = tracker[k].req.id
          \/ tracker'[k].req.id = r.id
      <4>1. \/ k \in Used /\ SlotLabel(k)' = SlotLabel(k)
            \/ SlotLabel(k)' = NewLabel
        BY <1>9, <2>3, DispatchedKnown
      <4>. QED
        BY <4>1 DEF SlotLabel, NewLabel
    <3>2. CASE k \in Used /\ tracker'[k].req.id = tracker[k].req.id
      <4>1. Covered(k)
        BY <2>1, <3>2, LeaksAre
      <4>. QED
        BY <2>1, <2>2, <2>3, <3>2, <4>1 DEF Covered
    <3>3. CASE tracker'[k].req.id = r.id
      BY <2>1, <2>2, <2>3, <3>3 DEF Covered
    <3>. QED
      BY <3>1, <3>2, <3>3
  <2>4. NoSlotLeaks' <=> (halted' = "no" => \A k \in Used' : Covered(k)')
    BY DEF NoSlotLeaks, Covered, Carried
  <2>. QED
    BY <2>3, <2>4
<1>10. CASE StatTracked \/ StatUntracked
  <2>1. /\ Handling("stat") /\ halted = "no" /\ current \in Pending /\ current.kind = "stat"
        /\ UNCHANGED <<queue, executing, lost>>
    BY <1>10, HandledType DEF StatTracked, StatUntracked, Handling
  <2>2. \A y \in Carried : y \in Carried' \/ y = current
    BY <2>1, HandledPending, PendingIs DEF Carried
  <2>3. \A k \in Used' : k \in Used /\ tracker'[k] = tracker[k]
    <3>1. tracker' = tracker \/ \E k \in Slots : tracker' = [tracker EXCEPT ![k] = Unused]
      BY <1>10 DEF StatTracked, StatUntracked
    <3>. QED
      BY <3>1 DEF Used, TypeOK
  <2>4. halted' = "no" => \A k \in Used' : tracker[k].req.id # current.id
    <3>. SUFFICES ASSUME NEW k \in Used', tracker[k].req.id = current.id, halted' = "no" PROVE FALSE
      OBVIOUS
    <3>1. k \in Used /\ k \in Slots /\ tracker'[k] = tracker[k] /\ tracker[k].kind = "used"
      BY <2>3, CarriedType DEF Used
    <3>2. SlotLabel(k) = Label(current)
      BY <2>1, <3>1, MatchedLabel
    <3>3. Matches(k, current)
      BY <3>1, <3>2 DEF Matches, SlotLabel, Label
    <3>4. CASE StatUntracked
      BY <3>1, <3>3, <3>4 DEF StatUntracked
    <3>5. CASE StatTracked
      <4>1. PICK j \in Slots : Matches(j, current) /\ (halted' = "no" => tracker' = [tracker EXCEPT ![j] = Unused])
        BY <3>5, <2>1 DEF StatTracked
      <4>2. j \in Used /\ SlotLabel(j) = Label(current)
        BY <2>1, <4>1, MatchedLabel DEF Matches
      <4>3. j = k
        BY <3>1, <3>2, <4>2 DEF Labels, SlotsDiffer
      <4>4. tracker'[k] = Unused
        BY <4>1, <4>3 DEF TypeOK
      <4>. QED
        BY <4>4 DEF Used
    <3>. QED
      BY <1>10, <3>4, <3>5
  <2>. QED
    BY <2>1, <2>2, <2>3, <2>4, CoveredKept
<1>11. CASE OwnCommand
  <2>1. /\ current \in Sends /\ Handling("cmd") /\ current.kind = "cmd" /\ Enqueue(Stat(current, "OK"))
        /\ halted = "no" /\ UNCHANGED <<executing, lost>>
    BY <1>11, HandledType, MessageKinds DEF OwnCommand, Handling
  <2>a. /\ Stat(current, "OK") \in Messages /\ Stat(current, "OK").kind = "stat"
        /\ Stat(current, "OK").id = current.id
    BY <2>1, StatType, ConstantFacts
  <2>2. PICK m \in Messages : Enqueue(m) /\ m.kind = "stat" /\ m.id = current.id
    BY <2>1, <2>a
  <2>3. halted' # "queue full" => Pending' = Queued \cup {Nothing, m}
    BY <2>1, <2>2, HandledEnqueued
  <2>4. halted' = "no" => m \in Carried' /\ \A y \in Carried : y \in Carried' \/ y = current
    BY <2>1, <2>2, <2>3, PendingIs DEF Carried
  <2>5. halted' = "no" => \A y \in Carried : \E z \in Carried' : z.id = y.id
    BY <2>2, <2>4
  <2>6. \A k \in Used' : k \in Used /\ tracker'[k] = tracker[k]
    BY <1>11 DEF OwnCommand, Used
  <2>. QED
    BY <2>1, <2>5, <2>6, CoveredKept
<1>12. CASE UNCHANGED vars
  BY <1>1, <1>12 DEF vars, tables
<1>. QED
  BY <1>3, <1>4, <1>5, <1>6, <1>7, <1>8, <1>9, <1>10, <1>11, <1>12 DEF Next, Thread

-----------------------------------------------------------------------------
(* What was told of each command.  Nothing is known of a command that is   *)
(* queued, or that the dispatcher is yet to carry out itself; one that a   *)
(* component has is never refused; and a status that is queued was given.  *)
Told ==
    /\ \A i \in 1 .. MaxSubmits : i > submitted => outcome[i] = {}
    /\ \A x \in executing : outcome[x.id] \cap Refusals = {}
    /\ \A m \in Pending :
          /\ m.kind = "buff" => outcome[m.req.id] = {}
          /\ m.kind = "cmd" => outcome[m.id] = {}
          /\ m.kind = "stat" => m.response \in outcome[m.id]

Invariants ==
    /\ TypeOK /\ InOrder /\ Labels /\ OwnApart /\ NoMismatch /\ NoSlotLeaks /\ Told

LEMMA InitInvariants == Init => Invariants
<1>. SUFFICES ASSUME Init PROVE Invariants
  OBVIOUS
<1>1. TypeOK
  BY TypeInit
<1>2. /\ Pending = {Nothing} /\ Queued = {} /\ Used = {} /\ executing = {} /\ mSeq = 0 /\ submitted = 0
      /\ halted = "no" /\ queue = <<>> /\ outcome = [i \in 1 .. MaxSubmits |-> {}]
  BY DEF Init, Pending, Queued, Used
<1>3. Carried = {} /\ Known = {}
  BY <1>2, NothingKind DEF Carried, Known
<1>4. InOrder
  BY <1>2 DEF InOrder
<1>5. Labels
  BY <1>2, <1>3, NothingKind DEF Labels, LabelsAgree, LabelsOld, SlotsDiffer, BuffsAhead
<1>6. OwnApart /\ NoMismatch /\ NoSlotLeaks
  BY <1>2, NothingKind DEF OwnApart, NoMismatch, NoSlotLeaks
<1>7. Told
  BY <1>2, NothingKind DEF Told
<1>. QED
  BY <1>1, <1>4, <1>5, <1>6, <1>7 DEF Invariants

(* The first free slot is one of the free ones.                            *)
LEMMA FirstFreeIsFree == ASSUME FreeSlots # {} PROVE FirstFree \in FreeSlots
<1>. DEFINE Less == OpToRel(<, Nat)
<1>1. IsWellFoundedOn(Less, Nat)
  BY NatLessThanWellFounded
<1>2. FreeSlots \subseteq Nat
  BY DEF FreeSlots, Slots
<1>3. Less = {ss \in Nat \X Nat : ss[1] < ss[2]}
  BY DEF OpToRel
<1>. HIDE DEF Less
<1>4. ASSUME NEW j \in Nat, NEW k \in Nat, j < k PROVE <<j, k>> \in Less
  <2>1. <<j, k>> \in Nat \X Nat /\ <<j, k>>[1] = j /\ <<j, k>>[2] = k
    OBVIOUS
  <2>. QED
    BY <1>3, <1>4, <2>1
<1>5. PICK k \in FreeSlots : \A j \in FreeSlots : ~ (<<j, k>> \in Less)
  BY <1>1, <1>2, WFMin
<1>6. ASSUME NEW j \in FreeSlots PROVE k <= j
  <2>1. ~ (j < k)
    BY <1>2, <1>4, <1>5
  <2>. QED
    BY <1>2, <2>1
<1>. QED
  BY <1>5, <1>6 DEF FirstFree

(* A command's number is its own: a buffer's is past those of all commands *)
(* that were dispatched, and a command of the dispatcher's is no other's.  *)
LEMMA OwnNumbers ==
    ASSUME TypeOK, InOrder, Labels, OwnApart
    PROVE  /\ \A x \in Carried : x.id \in 1 .. MaxSubmits /\ x.id <= submitted
           /\ \A x \in Carried, m \in Pending : m.kind = "buff" => x.id # m.req.id
           /\ \A x \in executing, m \in Pending : m.kind = "cmd" => x.id # m.id
           /\ \A k \in Used, m \in Pending : m.kind = "buff" => tracker[k].req.id # m.req.id
           /\ current.kind = "buff" => \A m \in Queued : m.kind = "buff" => m.req.id # current.req.id
           /\ current.kind = "cmd" => \A m \in Queued : m.kind \in {"cmd", "stat"} => m.id # current.id
<1>1. ASSUME NEW x \in Carried PROVE x.id \in 1 .. MaxSubmits /\ Label(x) \in Known /\ Label(x).id = x.id
  BY CarriedType DEF Known, Label
<1>2. ASSUME NEW x \in Carried PROVE x.id <= submitted
  BY <1>1 DEF Labels, LabelsOld
<1>3. ASSUME NEW x \in Carried, NEW m \in Pending, m.kind = "buff" PROVE x.id # m.req.id
  <2>1. x.id < m.req.id /\ x.id \in Nat /\ m.req.id \in Nat
    BY <1>1, <1>3, CarriedType DEF Labels, LabelsOld
  <2>. QED
    BY <2>1
<1>4. ASSUME NEW x \in executing, NEW m \in Pending, m.kind = "cmd" PROVE x.id # m.id
  <2>1. x \in Carried /\ m \in Carried
    BY <1>4 DEF Carried
  <2>2. Label(x).op # Label(m).op /\ Label(x).id = x.id /\ Label(m).id = m.id
    BY <1>4 DEF OwnApart, Label
  <2>. QED
    BY <1>1, <2>1, <2>2 DEF Labels, LabelsAgree
<1>5. ASSUME NEW k \in Used, NEW m \in Pending, m.kind = "buff" PROVE tracker[k].req.id # m.req.id
  <2>1. SlotLabel(k) \in Known /\ SlotLabel(k).id = tracker[k].req.id
    BY DEF Known, SlotLabel
  <2>2. tracker[k].req.id < m.req.id /\ tracker[k].req.id \in Nat /\ m.req.id \in Nat
    BY <1>5, <2>1, CarriedType DEF Labels, LabelsOld
  <2>. QED
    BY <2>2
<1>6. ASSUME current.kind = "buff", NEW m \in Queued, m.kind = "buff" PROVE m.req.id # current.req.id
  <2>1. Apart(current, m)
    BY DEF InOrder
  <2>2. current.req.id < m.req.id
    BY <1>6, <2>1 DEF Apart
  <2>3. current.req.id \in Nat /\ m.req.id \in Nat
    BY <1>6, PendingIs, CarriedType
  <2>. QED
    BY <2>2, <2>3
<1>7. ASSUME current.kind = "cmd", NEW m \in Queued, m.kind \in {"cmd", "stat"} PROVE m.id # current.id
  <2>1. Apart(current, m)
    BY DEF InOrder
  <2>. QED
    BY <1>7, <2>1 DEF Apart
<1>. QED
  BY <1>1, <1>2, <1>3, <1>4, <1>5, <1>6, <1>7

LEMMA ToldStep == TypeOK /\ InOrder /\ Labels /\ OwnApart /\ Told /\ [Next]_vars => Told'
<1>. SUFFICES ASSUME TypeOK, InOrder, Labels, OwnApart, Told, [Next]_vars PROVE Told'
  OBVIOUS
<1>n. submitted \in Nat
  BY CarriedType, ConstantFacts
<1>1. ASSUME outcome' = outcome, submitted' = submitted, executing' \subseteq executing,
             \A m \in Pending' : m \in Pending \/ m = Nothing
      PROVE  Told'
  BY <1>1, NothingKind DEF Told
<1>2. ASSUME NEW kind \in {"buff", "cmd", "stat"}, Handling(kind), queue' = queue
      PROVE  submitted' = submitted /\ \A m \in Pending' : m \in Pending \/ m = Nothing
  BY <1>2, HandledPending, PendingIs, HandledType
<1>3. ASSUME NEW reg \in Registrations, Register(reg) PROVE Told'
  BY <1>1, <1>3 DEF Register, Pending
<1>4. ASSUME NEW p \in SeqPorts, NEW op \in Opcodes \cup {Malformed}, NEW x \in Contexts, Submit(p, op, x)
      PROVE  Told'
  <2>. DEFINE r == [id |-> submitted + 1, port |-> p, op |-> op, context |-> x]
              m == [kind |-> "buff", req |-> r]
  <2>1. submitted + 1 \in 1 .. MaxSubmits
    BY <1>4, <1>n, ConstantFacts DEF Submit
  <2>2. /\ m \in Messages /\ Enqueue(m) /\ m.kind = "buff" /\ m.req.id = submitted + 1
        /\ UNCHANGED <<current, executing, outcome>>
        /\ submitted' \in {submitted, submitted + 1}
    BY <1>4, <2>1 DEF Messages, Requests, Submit
  <2>3. outcome[submitted + 1] = {}
    BY <1>n, <2>1 DEF Told
  <2>4. ASSUME NEW i \in 1 .. MaxSubmits, i > submitted' PROVE outcome[i] = {}
    BY <1>n, <2>2, <2>4 DEF Told
  <2>. HIDE DEF m
  <2>5. Pending' \subseteq Pending \cup {m}
    BY <2>2, EnqueuedPending
  <2>. QED
    BY <2>2, <2>3, <2>4, <2>5 DEF Told
<1>5. ASSUME NEW x \in executing, NEW resp \in Responses, Respond(x, resp) PROVE Told'
  <2>a. x \in Carried
    BY DEF Carried
  <2>1. x \in Carried /\ x.id \in 1 .. MaxSubmits /\ x.id <= submitted
    BY <2>a, OwnNumbers
  <2>b. x \in Sends /\ Stat(x, resp) \in Messages /\ Stat(x, resp).kind = "stat" /\ Stat(x, resp).id = x.id
        /\ Stat(x, resp).response = resp
    BY StatType DEF TypeOK
  <2>2. PICK m \in Messages : Enqueue(m) /\ m.kind = "stat" /\ m.id = x.id /\ m.response = resp
    BY <1>5, <2>b DEF Respond
  <2>3. UNCHANGED <<current, submitted>> /\ executing' \subseteq executing
    BY <1>5 DEF Respond
  <2>4. \A i \in 1 .. MaxSubmits : outcome'[i] = IF i = x.id THEN outcome[i] \cup {resp} ELSE outcome[i]
    BY <1>5 DEF Respond, TypeOK
  <2>5. Pending' \subseteq Pending \cup {m}
    BY <2>2, <2>3, EnqueuedPending
  <2>6. ASSUME NEW i \in 1 .. MaxSubmits, i > submitted' PROVE outcome'[i] = {}
    <3>1. i > submitted /\ i # x.id
      BY <1>n, <2>1, <2>3, <2>6
    <3>2. outcome[i] = {}
      BY <3>1 DEF Told
    <3>. QED
      BY <2>4, <3>1, <3>2
  <2>7. ASSUME NEW y \in executing' PROVE outcome'[y.id] \cap Refusals = {}
    <3>1. y \in executing /\ y.id \in 1 .. MaxSubmits /\ outcome[y.id] \cap Refusals = {}
      BY <2>3, OwnNumbers DEF Told, Carried
    <3>. QED
      BY <2>4, <3>1, ConstantFacts
  <2>8. ASSUME NEW n \in Pending', n.kind = "buff" PROVE outcome'[n.req.id] = {}
    <3>1. n \in Pending /\ n.req.id \in 1 .. MaxSubmits /\ n.req.id # x.id
      BY <2>1, <2>2, <2>5, <2>8, OwnNumbers, CarriedType DEF Requests
    <3>. QED
      BY <2>4, <2>8, <3>1 DEF Told
  <2>9. ASSUME NEW n \in Pending', n.kind = "cmd" PROVE outcome'[n.id] = {}
    <3>1. n \in Pending /\ n.id \in 1 .. MaxSubmits /\ n.id # x.id
      BY <2>2, <2>5, <2>9, OwnNumbers DEF Carried
    <3>. QED
      BY <2>4, <2>9, <3>1 DEF Told
  <2>10. ASSUME NEW n \in Pending', n.kind = "stat" PROVE n.response \in outcome'[n.id]
    <3>1. CASE n = m
      BY <2>1, <2>2, <2>4, <3>1
    <3>2. CASE n \in Pending
      <4>1. n.id \in 1 .. MaxSubmits
        BY <2>10, <3>2, OwnNumbers DEF Carried
      <4>. QED
        BY <2>4, <2>10, <3>2, <4>1 DEF Told
    <3>. QED
      BY <2>5, <3>1, <3>2
  <2>. QED
    BY <2>6, <2>7, <2>8, <2>9, <2>10 DEF Told
<1>6. ASSUME NEW x \in executing, Drop(x) PROVE Told'
  BY <1>1, <1>6 DEF Drop, Pending
<1>7. CASE Take
  BY <1>1, <1>7, TakenPending DEF Take
<1>8. CASE BuffMalformed \/ BuffUnknown \/ BuffUntrackable
  <2>. DEFINE r == current.req
  <2>1. PICK resp \in Refusals : Handling("buff") /\ Refuse(r, resp)
    BY <1>8 DEF BuffMalformed, BuffUnknown, BuffUntrackable, Refusals
  <2>2. /\ Pending' = Queued \cup {Nothing} /\ submitted' = submitted /\ executing' = executing
        /\ current \in Pending /\ current.kind = "buff" /\ r.id \in 1 .. MaxSubmits /\ r.id <= submitted
    BY <2>1, HandledPending, HandledType, RequestAtHand DEF Refuse, Labels, BuffsAhead
  <2>3. \A i \in 1 .. MaxSubmits : i # r.id => outcome'[i] = outcome[i]
    BY <2>1 DEF Refuse, TypeOK
  <2>4. ASSUME NEW i \in 1 .. MaxSubmits, i > submitted' PROVE outcome'[i] = {}
    BY <1>n, <2>2, <2>3, <2>4 DEF Told
  <2>5. ASSUME NEW y \in executing' PROVE outcome'[y.id] \cap Refusals = {}
    <3>1. y \in executing /\ y.id \in 1 .. MaxSubmits /\ y.id # r.id
      BY <2>2, OwnNumbers DEF Carried
    <3>. QED
      BY <2>3, <3>1 DEF Told
  <2>6. ASSUME NEW n \in Queued, n.kind = "buff" PROVE outcome'[n.req.id] = {}
    <3>1. n \in Pending /\ n.req.id \in 1 .. MaxSubmits /\ n.req.id # r.id
      BY <2>2, <2>6, OwnNumbers, PendingIs, CarriedType DEF Requests
    <3>. QED
      BY <2>3, <2>6, <3>1 DEF Told
  <2>7. ASSUME NEW n \in Queued, n.kind \in {"cmd", "stat"}
        PROVE  /\ n.kind = "cmd" => outcome'[n.id] = {}
               /\ n.kind = "stat" => n.response \in outcome'[n.id]
    <3>1. n \in Pending /\ n.id \in 1 .. MaxSubmits /\ n.id # r.id
      BY <2>2, <2>7, OwnNumbers, PendingIs DEF Carried
    <3>. QED
      BY <2>3, <2>7, <3>1 DEF Told
  <2>. QED
    BY <2>2, <2>4, <2>5, <2>6, <2>7, NothingKind DEF Told
<1>9. CASE BuffDispatch
  <2>. DEFINE r == current.req
  <2>1. /\ r \in Requests /\ Handling("buff") /\ Sent(r) \in Messages /\ Sent(r).kind = "cmd" /\ Sent(r).id = r.id
        /\ current.kind = "buff" /\ current \in Pending /\ outcome' = outcome /\ submitted' = submitted
        /\ outcome[r.id] = {}
    BY <1>9, RequestAtHand, DeliverableOp, SentType, HandledType DEF BuffDispatch, Told
  <2>2. executing' \subseteq executing \cup {Sent(r)}
    BY <1>9 DEF BuffDispatch, SendOut
  <2>3. Pending' \subseteq Queued \cup {Nothing, Sent(r)}
    <3>1. CASE Sent(r).op \notin OwnOps
      <4>1. queue' = queue
        BY <1>9, <3>1 DEF BuffDispatch, SendOut
      <4>. QED
        BY <2>1, <4>1, HandledPending
    <3>2. CASE Sent(r).op \in OwnOps
      <4>1. PICK m \in Messages : Enqueue(m) /\ m = Sent(r)
        BY <1>9, <2>1, <3>2 DEF BuffDispatch, SendOut
      <4>. QED
        BY <2>1, <4>1, HandledEnqueued
    <3>. QED
      BY <3>1, <3>2
  <2>. QED
    BY <2>1, <2>2, <2>3, PendingIs, NothingKind DEF Told
<1>10. CASE StatTracked \/ StatUntracked
  <2>1. Handling("stat") /\ UNCHANGED <<queue, executing, outcome>>
    BY <1>10 DEF StatTracked, StatUntracked
  <2>. QED
    BY <1>1, <1>2, <2>1
<1>11. CASE OwnCommand
  <2>1. /\ current \in Sends /\ Handling("cmd") /\ current.kind = "cmd" /\ Enqueue(Stat(current, "OK"))
        /\ current \in Pending /\ UNCHANGED <<executing, submitted>>
    BY <1>11, HandledType, MessageKinds DEF OwnCommand
  <2>a. /\ Stat(current, "OK") \in Messages /\ Stat(current, "OK").kind = "stat"
        /\ Stat(current, "OK").id = current.id /\ Stat(current, "OK").response = "OK"
    BY <2>1, StatType, ConstantFacts
  <2>2. PICK m \in Messages : Enqueue(m) /\ m.kind = "stat" /\ m.id = current.id /\ m.response = "OK"
    BY <2>1, <2>a
  <2>3. Pending' \subseteq Queued \cup {Nothing, m}
    BY <2>1, <2>2, HandledEnqueued
  <2>4. current \in Carried /\ current.id \in 1 .. MaxSubmits /\ current.id <= submitted
    BY <2>1, OwnNumbers DEF Carried
  <2>5. \A i \in 1 .. MaxSubmits :
            outcome'[i] = IF i = current.id THEN outcome[i] \cup {"OK"} ELSE outcome[i]
    BY <1>11 DEF OwnCommand, TypeOK
  <2>6. ASSUME NEW i \in 1 .. MaxSubmits, i > submitted' PROVE outcome'[i] = {}
    <3>1. i > submitted /\ i # current.id
      BY <1>n, <2>1, <2>4, <2>6
    <3>2. outcome[i] = {}
      BY <3>1 DEF Told
    <3>. QED
      BY <2>5, <3>1, <3>2
  <2>7. ASSUME NEW y \in executing' PROVE outcome'[y.id] \cap Refusals = {}
    <3>1. y \in executing /\ y.id \in 1 .. MaxSubmits /\ outcome[y.id] \cap Refusals = {}
      BY <2>1, OwnNumbers DEF Told, Carried
    <3>. QED
      BY <2>5, <3>1, ConstantFacts
  <2>8. ASSUME NEW n \in Queued, n.kind = "buff" PROVE outcome'[n.req.id] = {}
    <3>1. n \in Pending /\ n.req.id \in 1 .. MaxSubmits /\ n.req.id # current.id
      BY <2>4, <2>8, OwnNumbers, PendingIs, CarriedType DEF Requests
    <3>. QED
      BY <2>5, <2>8, <3>1 DEF Told
  <2>9. ASSUME NEW n \in Queued, n.kind \in {"cmd", "stat"}
        PROVE  /\ n.kind = "cmd" => outcome'[n.id] = {}
               /\ n.kind = "stat" => n.response \in outcome'[n.id]
    <3>1. n \in Pending /\ n.id \in 1 .. MaxSubmits /\ n.id # current.id
      BY <2>1, <2>9, OwnNumbers, PendingIs DEF Carried
    <3>. QED
      BY <2>5, <2>9, <3>1 DEF Told
  <2>10. m.response \in outcome'[m.id]
    BY <2>2, <2>4, <2>5
  <2>. QED
    BY <2>2, <2>3, <2>6, <2>7, <2>8, <2>9, <2>10, NothingKind DEF Told
<1>12. CASE UNCHANGED vars
  BY <1>1, <1>12 DEF vars, Pending
<1>. QED
  BY <1>3, <1>4, <1>5, <1>6, <1>7, <1>8, <1>9, <1>10, <1>11, <1>12 DEF Next, Thread

LEMMA InvariantsStep == Invariants /\ [Next]_vars => Invariants'
  BY TypeStep, OrderStep, LabelsStep, OwnStep, MismatchStep, LeakStep, ToldStep DEF Invariants

-----------------------------------------------------------------------------
(* No variable leaves its type, the registrations stay within their table  *)
(* and no tracker slot leaks: a slot in use has its command still under    *)
(* way, or its component dropped it (CommandDispatcherImpl.cpp:119).       *)
THEOREM TablesKept == ASSUME DispatcherAssumption PROVE Spec => []TablesAreKept
<1>1. Init => Invariants
  BY InitInvariants
<1>2. Invariants /\ [Next]_vars => Invariants'
  BY InvariantsStep
<1>3. Invariants => TablesAreKept
  BY DEF Invariants, TablesAreKept
<1>. QED
  BY <1>1, <1>2, <1>3, PTL DEF Spec

(* A status is matched with the very command it answers, and the assertion *)
(* on its opcode (CommandDispatcherImpl.cpp:63) never fails.               *)
THEOREM StatusFindsCorrect == ASSUME DispatcherAssumption PROVE Spec => []StatusFindsItsCommand
<1>1. Init => Invariants
  BY InitInvariants
<1>2. Invariants /\ [Next]_vars => Invariants'
  BY InvariantsStep
<1>3. Invariants => StatusFindsItsCommand
  BY StatusMatched DEF Invariants
<1>. QED
  BY <1>1, <1>2, <1>3, PTL DEF Spec

-----------------------------------------------------------------------------
(* The refinement of the command service.                                  *)
Buffs == {m \in Pending : m.kind = "buff" /\ m.req.port \in StatusPorts}

LEMMA OpenIs ==
    /\ Open = {m.req : m \in Buffs} \cup {tracker[k].req : k \in Used}
    /\ Open' = {m.req : m \in Buffs'} \cup {tracker'[k].req : k \in Used'}
  BY DEF Open, Buffs

LEMMA OpenKept ==
    ASSUME TypeOK, tracker' = tracker,
           \A m \in Pending \cup Pending' : m.kind = "buff" => (m \in Pending <=> m \in Pending')
    PROVE  Open' = Open
<1>1. Buffs' = Buffs /\ Used' = Used
  BY DEF Buffs, Used
<1>. QED
  BY <1>1, OpenIs

LEMMA RefusedOpen ==
    ASSUME Invariants, Handling("buff"), UNCHANGED <<queue, tracker>>
    PROVE  /\ Open' = Open \ {current.req}
           /\ current.req.port \in StatusPorts => current.req \in Open
<1>. DEFINE r == current.req
<1>1. /\ Pending' = Queued \cup {Nothing} /\ Pending = Queued \cup {current}
      /\ current.kind = "buff" /\ current \in Pending
  BY HandledPending, HandledType, PendingIs DEF Invariants
<1>2. Used' = Used
  BY DEF Used
<1>3. \A m \in Queued : m.kind = "buff" => m.req # r
  BY <1>1, OwnNumbers DEF Invariants
<1>4. \A k \in Used : tracker[k].req # r
  BY <1>1, OwnNumbers DEF Invariants
<1>5. Buffs' = {m \in Queued : m.kind = "buff" /\ m.req.port \in StatusPorts}
  BY <1>1, NothingKind DEF Buffs
<1>6. Buffs = {m \in Queued \cup {current} : m.kind = "buff" /\ m.req.port \in StatusPorts}
  BY <1>1 DEF Buffs
<1>. HIDE DEF r
<1>7. \A q \in Open' : q \in Open /\ q # r
  BY <1>2, <1>3, <1>4, <1>5, <1>6, OpenIs
<1>8. \A q \in Open : q # r => q \in Open'
  <2>1. ASSUME NEW m \in Buffs, m.req # r PROVE m \in Buffs'
    BY <1>5, <1>6, <2>1 DEF r
  <2>. QED
    BY <1>2, <2>1, OpenIs
<1>9. r.port \in StatusPorts => r \in Open
  <2>1. r.port \in StatusPorts => current \in Buffs
    BY <1>1, <1>6 DEF r
  <2>. QED
    BY <2>1, OpenIs DEF r
<1>. QED
  BY <1>7, <1>8, <1>9 DEF r

(* A tracked command is as open as it was when it was queued.              *)
LEMMA DispatchedOpen == ASSUME Invariants, BuffDispatch PROVE Open' = Open
<1>. DEFINE r == current.req
            e == [kind |-> "used", seq |-> mSeq, req |-> r]
<1>1. TypeOK /\ Handling("buff") /\ current.kind = "buff" /\ Pending = Queued \cup {current}
  BY HandledType, PendingIs DEF BuffDispatch, Invariants
<1>2. /\ r \in Requests /\ Sent(r) \in Messages /\ Sent(r).kind = "cmd"
  BY <1>1, RequestAtHand, DeliverableOp, SentType DEF BuffDispatch
<1>3. /\ Queued \subseteq Pending'
      /\ \A m \in Pending' : m \in Queued \/ m.kind # "buff"
  <2>1. CASE Sent(r).op \notin OwnOps
    <3>1. queue' = queue
      BY <2>1 DEF BuffDispatch, SendOut
    <3>2. Pending' = Queued \cup {Nothing}
      BY <1>1, <3>1, HandledPending
    <3>. QED
      BY <3>2, NothingKind
  <2>2. CASE Sent(r).op \in OwnOps
    <3>1. PICK m \in Messages : Enqueue(m) /\ m.kind = "cmd"
      BY <1>2, <2>2 DEF BuffDispatch, SendOut
    <3>2. Pending' \subseteq Queued \cup {Nothing, m}
      BY <1>1, <3>1, HandledEnqueued
    <3>3. Queued \subseteq Queued'
      BY <1>1, <3>1, EnqueuedQueue
    <3>4. Queued' \subseteq Pending'
      BY DEF Queued, Pending
    <3>. QED
      BY <3>1, <3>2, <3>3, <3>4, NothingKind
  <2>. QED
    BY <2>1, <2>2
<1>4. Buffs' = {m \in Queued : m.kind = "buff" /\ m.req.port \in StatusPorts}
  BY <1>3 DEF Buffs
<1>5. Buffs = {m \in Queued \cup {current} : m.kind = "buff" /\ m.req.port \in StatusPorts}
  BY <1>1 DEF Buffs
<1>6. CASE r.port \notin StatusPorts
  <2>1. Buffs' = Buffs
    BY <1>4, <1>5, <1>6
  <2>2. tracker' = tracker
    BY <1>6 DEF BuffDispatch
  <2>3. Used' = Used
    BY <2>2 DEF Used
  <2>. QED
    BY <2>1, <2>2, <2>3, OpenIs
<1>7. CASE r.port \in StatusPorts
  <2>1. FirstFree \in Slots /\ tracker[FirstFree] = Unused /\ tracker' = [tracker EXCEPT ![FirstFree] = e]
    BY <1>7, FirstFreeIsFree DEF BuffDispatch, FreeSlots
  <2>2. DOMAIN tracker = Slots /\ e # Unused
    BY <1>1 DEF TypeOK, Unused
  <2>3. /\ \A k \in Slots : k # FirstFree => tracker'[k] = tracker[k]
        /\ tracker'[FirstFree] = e
    BY <2>1, <2>2
  <2>4. Used' = Used \cup {FirstFree} /\ FirstFree \notin Used
    BY <2>1, <2>2, <2>3 DEF Used
  <2>5. tracker'[FirstFree].req = r /\ \A k \in Used : tracker'[k] = tracker[k]
    BY <2>3, <2>4 DEF Used
  <2>6. current \in Buffs /\ \A m \in Buffs : m \in Buffs' \/ m.req = r
    BY <1>1, <1>4, <1>5, <1>7
  <2>7. Buffs' \subseteq Buffs
    BY <1>4, <1>5
  <2>. HIDE DEF e
  <2>8. Open' \subseteq Open
    BY <2>4, <2>5, <2>6, <2>7, OpenIs
  <2>9. Open \subseteq Open'
    BY <2>4, <2>5, <2>6, OpenIs
  <2>. QED
    BY <2>8, <2>9
<1>. QED
  BY <1>6, <1>7

(* Freeing a slot ends its command only: no other slot or buffer has it.   *)
LEMMA FreedOpen ==
    ASSUME Invariants, Handling("stat"), queue' = queue, NEW k \in Used,
           tracker' = [tracker EXCEPT ![k] = Unused]
    PROVE  tracker[k].req \in Open /\ Open' = Open \ {tracker[k].req}
<1>1. /\ TypeOK /\ Pending' = Queued \cup {Nothing} /\ Pending = Queued \cup {current}
      /\ current.kind = "stat"
  BY HandledPending, HandledType, PendingIs DEF Invariants
<1>2. Buffs' = Buffs
  BY <1>1, NothingKind DEF Buffs
<1>3. DOMAIN tracker = Slots /\ k \in Slots
  BY <1>1 DEF TypeOK, Used
<1>4. Used' = Used \ {k} /\ \A j \in Used' : tracker'[j] = tracker[j]
  BY <1>3 DEF Used
<1>5. \A m \in Buffs : m.req # tracker[k].req
  BY OwnNumbers DEF Invariants, Buffs
<1>6. ASSUME NEW j \in Used, j # k PROVE tracker[j].req # tracker[k].req
  <2>1. SlotLabel(j) \in Known /\ SlotLabel(k) \in Known /\ SlotLabel(j) # SlotLabel(k)
    BY <1>6 DEF Known, Invariants, Labels, SlotsDiffer
  <2>2. SlotLabel(j).id # SlotLabel(k).id
    BY <2>1 DEF Invariants, Labels, LabelsAgree
  <2>. QED
    BY <2>2 DEF SlotLabel
<1>7. tracker[k].req \in Open
  BY OpenIs
<1>8. Open' \subseteq Open \ {tracker[k].req}
  <2>1. Open' = {m.req : m \in Buffs} \cup {tracker[j].req : j \in Used \ {k}}
    BY <1>2, <1>4, OpenIs
  <2>. QED
    BY <1>5, <1>6, <2>1, OpenIs
<1>9. Open \ {tracker[k].req} \subseteq Open'
  BY <1>2, <1>4, OpenIs
<1>. QED
  BY <1>7, <1>8, <1>9

(* Every step is one of the service's, or changes nothing that it shows.   *)
Stutters == UNCHANGED <<submitted, Open, outcome, answer>>

LEMMA ServiceInit == Init => Service!Init
<1>. SUFFICES ASSUME Init PROVE Service!Init
  OBVIOUS
<1>1. Buffs = {} /\ Used = {}
  BY NothingKind DEF Init, Buffs, Pending, Used
<1>2. Open = {}
  BY <1>1, OpenIs
<1>. QED
  BY <1>2 DEF Init, Service!Init, NoAnswer, Service!NoAnswer

LEMMA ServiceStep == Invariants /\ [Next]_vars => [Service!Next]_(Service!vars)
<1>. SUFFICES ASSUME Invariants, [Next]_vars PROVE Service!Next \/ Stutters
  BY DEF Service!vars, Stutters
<1>t. TypeOK /\ InOrder /\ Labels /\ OwnApart /\ NoMismatch /\ Told
  BY DEF Invariants
<1>n. submitted \in Nat
  BY <1>t, CarriedType, ConstantFacts
<1>1. ASSUME UNCHANGED <<queue, current, tracker, submitted, outcome, answer>> PROVE Stutters
  BY <1>1 DEF Stutters, Open, Pending, Used
<1>2. ASSUME NEW reg \in Registrations, Register(reg) PROVE Stutters
  BY <1>1, <1>2 DEF Register
<1>3. ASSUME NEW p \in SeqPorts, NEW op \in Opcodes \cup {Malformed}, NEW x \in Contexts, Submit(p, op, x)
      PROVE  Service!Next \/ Stutters
  <2>. DEFINE r == [id |-> submitted + 1, port |-> p, op |-> op, context |-> x]
              m == [kind |-> "buff", req |-> r]
  <2>1. submitted + 1 \in 1 .. MaxSubmits
    BY <1>3, <1>n, ConstantFacts DEF Submit
  <2>2. /\ r \in Requests /\ r.id = submitted + 1 /\ r.port = p
        /\ Enqueue(m) /\ m.kind = "buff" /\ m.req = r /\ m \in Messages
        /\ UNCHANGED <<current, tracker, outcome, answer>>
    BY <1>3, <2>1 DEF Requests, Messages, Submit, tables
  <2>3. \/ queue' = queue /\ submitted' = submitted
        \/ submitted' = submitted + 1 /\ halted' = halted
    BY <1>3 DEF Submit, Enqueue
  <2>4. CASE queue' = queue /\ submitted' = submitted
    BY <1>1, <2>2, <2>4
  <2>5. CASE submitted' = submitted + 1 /\ halted' = halted
    <3>1. halted' # "queue full"
      BY <1>3, <2>5 DEF Submit
    <3>2. Pending' = Pending \cup {m}
      BY <1>t, <2>2, <3>1, EnqueuedPending
    <3>3. Used' = Used
      BY <2>2 DEF Used
    <3>4. Buffs' = IF p \in StatusPorts THEN Buffs \cup {m} ELSE Buffs
      BY <2>2, <3>2 DEF Buffs
    <3>5. Open' = IF p \in StatusPorts THEN Open \cup {r} ELSE Open
      <4>. HIDE DEF m
      <4>. QED
        BY <2>2, <3>3, <3>4, OpenIs
    <3>6. Service!Submit(r)
      BY <2>2, <2>5, <3>5 DEF Service!Submit
    <3>. QED
      BY <2>2, <3>6 DEF Service!Next
  <2>. QED
    BY <2>3, <2>4, <2>5
<1>4. ASSUME NEW x \in executing, NEW resp \in Responses, Respond(x, resp) PROVE Service!Next
  <2>1. x \in Carried
    BY DEF Carried
  <2>2. x.id \in 1 .. submitted
    BY <1>t, <1>n, <2>1, OwnNumbers
  <2>3. PICK m \in Messages : Enqueue(m) /\ m.kind = "stat"
    BY <1>4, <1>t, StatType DEF TypeOK, Respond
  <2>4. UNCHANGED <<current, tracker, submitted, answer>>
    BY <1>4 DEF Respond, tables
  <2>5. Pending' \subseteq Pending \cup {m} /\ Pending \subseteq Pending'
    <3>1. Queued \subseteq Queued'
      BY <1>t, <2>3, EnqueuedQueue
    <3>2. Pending' = Queued' \cup {current'}
      BY DEF Pending, Queued
    <3>. QED
      BY <1>t, <2>3, <2>4, <3>1, <3>2, EnqueuedPending, PendingIs
  <2>6. Open' = Open
    BY <1>t, <2>3, <2>4, <2>5, OpenKept
  <2>7. outcome[x.id] \cap Refusals = {} /\ outcome' = [outcome EXCEPT ![x.id] = @ \cup {resp}]
    BY <1>t, <1>4 DEF Told, Respond
  <2>8. Service!CarryOut(x.id, resp)
    BY <2>2, <2>4, <2>6, <2>7 DEF Service!CarryOut
  <2>. QED
    BY <2>2, <2>8 DEF Service!Next
<1>5. ASSUME NEW x \in executing, Drop(x) PROVE Stutters
  BY <1>1, <1>5 DEF Drop, tables
<1>6. CASE Take
  <2>1. Pending = Pending' \cup {Nothing} /\ UNCHANGED <<tracker, submitted, outcome, answer>>
    BY <1>6, <1>t, TakenPending DEF Take, tables
  <2>2. Open' = Open
    BY <1>t, <2>1, NothingKind, OpenKept
  <2>. QED
    BY <2>1, <2>2 DEF Stutters
<1>7. CASE BuffMalformed \/ BuffUnknown \/ BuffUntrackable
  <2>. DEFINE r == current.req
  <2>1. PICK resp \in Refusals : Handling("buff") /\ Refuse(r, resp)
    BY <1>7 DEF BuffMalformed, BuffUnknown, BuffUntrackable, Refusals
  <2>2. /\ r \in Requests /\ current \in Pending /\ current.kind = "buff" /\ submitted' = submitted
        /\ r.id <= submitted /\ outcome[r.id] = {}
    BY <1>t, <2>1, HandledType, RequestAtHand DEF Labels, BuffsAhead, Told
  <2>3. Open' = Open \ {r} /\ (r.port \in StatusPorts => r \in Open)
    BY <2>1, RefusedOpen DEF Refuse
  <2>4. Status(r, resp) = Service!Status(r, resp)
    BY DEF Status, Service!Status
  <2>5. /\ outcome' = [outcome EXCEPT ![r.id] = {resp}]
        /\ r.port \in StatusPorts => answer' = Status(r, resp)
        /\ r.port \notin StatusPorts => answer' = answer
    BY <2>1 DEF Refuse
  <2>6. Service!Refuse(r, resp)
    BY <2>2, <2>3, <2>4, <2>5 DEF Service!Refuse
  <2>. QED
    BY <2>2, <2>6 DEF Service!Next
<1>8. CASE BuffDispatch
  <2>1. UNCHANGED <<submitted, outcome, answer>>
    BY <1>8 DEF BuffDispatch, Handling
  <2>. QED
    BY <1>8, <2>1, DispatchedOpen DEF Stutters
<1>9. CASE StatTracked
  <2>1. /\ Handling("stat") /\ current \in Statuses /\ current \in Pending /\ current.kind = "stat"
        /\ UNCHANGED <<queue, outcome, submitted>>
    BY <1>9, <1>t, HandledType, MessageKinds DEF StatTracked
  <2>2. PICK k \in Slots :
            /\ Matches(k, current)
            /\ tracker[k].req.op = current.op =>
                  /\ tracker' = [tracker EXCEPT ![k] = Unused]
                  /\ answer' = Status(tracker[k].req, current.response)
    BY <1>9 DEF StatTracked
  <2>3. k \in Used /\ SlotLabel(k) = Label(current)
    BY <1>t, <2>1, <2>2, MatchedLabel DEF Matches
  <2>4. tracker[k].req.op = current.op /\ tracker[k].req.id = current.id
    BY <2>3 DEF SlotLabel, Label
  <2>5. tracker[k].req \in Open /\ Open' = Open \ {tracker[k].req}
    BY <2>1, <2>2, <2>3, <2>4, FreedOpen
  <2>6. current.response \in outcome[tracker[k].req.id] \cap Responses
    BY <1>t, <2>1, <2>4 DEF Told, Statuses
  <2>7. answer' = Service!Status(tracker[k].req, current.response)
    BY <2>2, <2>4 DEF Status, Service!Status
  <2>8. Service!Answer(tracker[k].req)
    BY <2>1, <2>5, <2>6, <2>7 DEF Service!Answer
  <2>9. tracker[k].req \in Requests
    BY <1>t, <2>3, CarriedType
  <2>. QED
    BY <2>8, <2>9 DEF Service!Next
<1>10. CASE StatUntracked
  <2>1. /\ Handling("stat") /\ current.kind = "stat" /\ UNCHANGED <<queue, outcome, submitted, tracker, answer>>
    BY <1>10, <1>t, HandledType DEF StatUntracked
  <2>2. Pending' = Queued \cup {Nothing} /\ Pending = Queued \cup {current}
    BY <1>t, <2>1, HandledPending, PendingIs
  <2>3. Open' = Open
    BY <1>t, <2>1, <2>2, NothingKind, OpenKept
  <2>. QED
    BY <2>1, <2>3 DEF Stutters
<1>11. CASE OwnCommand
  <2>1. /\ current \in Sends /\ Handling("cmd") /\ current.kind = "cmd" /\ Enqueue(Stat(current, "OK"))
        /\ current \in Pending /\ UNCHANGED <<submitted, answer>>
    BY <1>11, <1>t, HandledType, MessageKinds DEF OwnCommand
  <2>2. current \in Carried
    BY <2>1 DEF Carried
  <2>3. current.id \in 1 .. submitted /\ current.id \in 1 .. MaxSubmits
    BY <1>t, <1>n, <2>2, OwnNumbers
  <2>4. outcome[current.id] = {} /\ outcome' = [outcome EXCEPT ![current.id] = {"OK"}]
    <3>1. outcome[current.id] = {}
      BY <1>t, <2>1 DEF Told
    <3>2. outcome' = [outcome EXCEPT ![current.id] = outcome[current.id] \cup {"OK"}]
      BY <1>11 DEF OwnCommand
    <3>. QED
      BY <3>1, <3>2
  <2>5. Open' \subseteq Open
    <3>1. PICK m \in Messages : Enqueue(m) /\ m.kind = "stat"
      BY <2>1, StatType, ConstantFacts
    <3>2. Pending' \subseteq Queued \cup {Nothing, m}
      BY <1>t, <2>1, <3>1, HandledEnqueued
    <3>3. Buffs' \subseteq Buffs
      BY <3>1, <3>2, PendingIs, NothingKind DEF Buffs
    <3>4. \A k \in Used' : k \in Used /\ tracker'[k] = tracker[k]
      BY <1>11 DEF OwnCommand, Used
    <3>. QED
      BY <3>3, <3>4, OpenIs
  <2>6. Service!Forget(current.id)
    BY <2>1, <2>3, <2>4, <2>5 DEF Service!Forget
  <2>. QED
    BY <2>3, <2>6 DEF Service!Next
<1>12. CASE UNCHANGED vars
  BY <1>1, <1>12 DEF vars, tables
<1>. QED
  BY <1>2, <1>3, <1>4, <1>5, <1>6, <1>7, <1>8, <1>9, <1>10, <1>11, <1>12 DEF Next, Thread

(* The dispatcher implements the command service: a command is refused and *)
(* never carried out, or carried out and answered at most once with what   *)
(* its component responded; only CMD_CLEAR_TRACKING forgets commands.      *)
THEOREM ServiceImplemented == ASSUME DispatcherAssumption PROVE Spec => ServiceSpec
<1>1. Init => Invariants /\ Service!Init
  BY InitInvariants, ServiceInit
<1>2. Invariants /\ [Next]_vars => Invariants'
  BY InvariantsStep
<1>3. Invariants /\ [Next]_vars => [Service!Next]_(Service!vars)
  BY ServiceStep
<1>. QED
  BY <1>1, <1>2, <1>3, PTL DEF Spec, ServiceSpec, Service!Spec

-----------------------------------------------------------------------------
(* The sequencer.  A handler is a chain of helpers from a state of the     *)
(* component to the next, so the invariants are operators on such a state, *)
(* and a lemma says of each helper what it leaves.                         *)

CmdTimers == {Off} \cup UNION {0 .. d : d \in Delays}
Timeouts  == {Off} \cup 0 .. SeqTimeout

States ==
    [runMode : {"STOPPED", "RUNNING"}, stepMode : {"AUTO", "MANUAL"},
     block : BOOLEAN, join : BOOLEAN, held : Ids \cup {0},
     recs : Seq(Records), pos : Nat, rec : Nat,
     cmdTimer : CmdTimers, timeout : Timeouts,
     failed : BOOLEAN, valid : BOOLEAN,
     flight : Nat, late : 0 .. MaxLate, sent : Nat, again : BOOLEAN, stray : BOOLEAN,
     reports : Nat, open : SUBSET Ids, twice : BOOLEAN,
     overtaken : SUBSET Ids, stale : BOOLEAN, disturbed : BOOLEAN]

(* The buffer: its position is one of a record or the end, none of the     *)
(* records of a valid sequence is bad, and a stopped sequencer has not     *)
(* begun to read it.                                                       *)
BufferOK(s) ==
    /\ s.pos \in 1 .. Len(s.recs) + 1
    /\ s.valid => \A i \in DOMAIN s.recs : s.recs[i] # "bad"
    /\ s.runMode = "STOPPED" /\ s.valid => s.pos = 1

(* A failed assertion has an excuse.                                       *)
Excused(s) == s.disturbed \/ ~s.valid \/ s.recs = <<>>

(* An undisturbed run waits for a response or for a time, never for both,  *)
(* and what it will dispatch comes after what it has dispatched.           *)
Waits(s) ==
    /\ s.reports = 0 /\ s.flight <= 1 /\ s.sent < s.pos
    /\ s.cmdTimer # Off => s.flight = 0 /\ s.timeout = Off /\ s.sent < s.rec /\ s.rec < s.pos
    /\ s.timeout # Off => s.flight = 1

(* When it is over, no timer of it is left.                                *)
Rests(s) == s.reports <= 1 /\ s.cmdTimer = Off /\ s.timeout = Off

Undisturbed(s) ==
    ~s.disturbed => /\ ~s.again /\ ~s.stray
                    /\ s.runMode = "RUNNING" => Waits(s)
                    /\ s.runMode = "STOPPED" => Rests(s)

(* A command that is to be answered when the run ends was not answered.    *)
Answerable(s) ==
    /\ s.join => s.runMode = "RUNNING"
    /\ ~s.twice
    /\ s.block \/ s.join => s.held \in s.open \/ s.stale

Sound(s) ==
    /\ s \in States /\ BufferOK(s) /\ (s.failed => Excused(s))
    /\ Undisturbed(s) /\ Answerable(s)

(* The commands that an answer is owed to are known, OwedIsHeld.           *)
Held(s) == ~s.failed => \A id \in s.open \ s.overtaken : id = s.held /\ (s.block \/ s.join)

SeqInv(s) == Sound(s) /\ Held(s)

-----------------------------------------------------------------------------
(* Every helper leaves a state; those of the buffer leave a sound one.     *)
LEMMA ClearedIs ==
  ASSUME NEW s \in States
  PROVE  /\ Cleared(s) \in States
         /\ Cleared(s).recs = <<>> /\ Cleared(s).pos = 1 /\ Cleared(s).valid = FALSE
         /\ \A k \in DOMAIN s \ {"recs", "pos", "valid"} : Cleared(s)[k] = s[k]
  <1>1. <<>> \in Seq(Records) OBVIOUS
  <1> QED BY <1>1 DEF States, Cleared

LEMMA LoadIs ==
  ASSUME SequencerAssumption, NEW s \in States, BufferOK(s), NEW f \in Files \cup {Missing}
  PROVE  /\ Load(s, f) \in States
         /\ Loads(f) => /\ Load(s, f).valid /\ Load(s, f).pos = 1
                        /\ \A i \in DOMAIN Load(s, f).recs : Load(s, f).recs[i] # "bad"
         /\ ~Loads(f) => Load(s, f) = s \/ ~Load(s, f).valid
         /\ Load(s, f).pos \in 1 .. Len(Load(s, f).recs) + 1
         /\ \A k \in DOMAIN s \ {"recs", "pos", "valid"} : Load(s, f)[k] = s[k]
  <1>1. CASE f = Missing BY <1>1 DEF Load, Loads, BufferOK
  <1>2. CASE f # Missing
    <2>1. /\ f.ok \in BOOLEAN /\ f.recs \in Seq(Records) /\ f.pos \in 1 .. Len(f.recs) + 1
          /\ f.ok => f.pos = 1 /\ \A i \in DOMAIN f.recs : f.recs[i] # "bad"
      BY <1>2 DEF SequencerAssumption
    <2>2. Load(s, f) = [s EXCEPT !.recs = f.recs, !.pos = f.pos, !.valid = f.ok]
      BY <1>2 DEF Load
    <2>3. f.pos \in Nat BY <2>1
    <2>4. Load(s, f) \in States
      <3> DEFINE r == f.recs
                 p == f.pos
                 v == f.ok
      <3>1. r \in Seq(Records) /\ p \in Nat /\ v \in BOOLEAN BY <2>1, <2>3
      <3>2. Load(s, f) = [s EXCEPT !.recs = r, !.pos = p, !.valid = v] BY <2>2
      <3> HIDE DEF r, p, v
      <3>3. [s EXCEPT !.recs = r, !.pos = p, !.valid = v] \in States BY <3>1, Zenon DEF States
      <3> QED BY <3>2, <3>3
    <2>5. Load(s, f).recs = f.recs /\ Load(s, f).pos = f.pos /\ Load(s, f).valid = f.ok
      BY <2>2 DEF States
    <2>6. \A k \in DOMAIN s \ {"recs", "pos", "valid"} : Load(s, f)[k] = s[k]
      BY <2>2 DEF States
    <2> QED BY <1>2, <2>1, <2>4, <2>5, <2>6 DEF Loads
  <1> QED BY <1>1, <1>2

LEMMA AnswerIs ==
  ASSUME NEW s \in States
  PROVE  /\ Answer(s) \in States
         /\ Answer(s).open = s.open \ {s.held}
         /\ Answer(s).twice = (s.twice \/ (s.held \notin s.open /\ ~s.stale))
         /\ \A k \in DOMAIN s \ {"open", "twice"} : Answer(s)[k] = s[k]
  <1> DEFINE o == s.open \ {s.held}
             t == s.twice \/ (s.held \notin s.open /\ ~s.stale)
  <1>1. Answer(s) = [s EXCEPT !.open = o, !.twice = t] BY DEF Answer
  <1>2. o \in SUBSET Ids /\ t \in BOOLEAN BY DEF States
  <1> HIDE DEF o, t
  <1>3. [s EXCEPT !.open = o, !.twice = t] \in States BY <1>2 DEF States
  <1>4. Answer(s).open = o /\ Answer(s).twice = t BY <1>1 DEF States
  <1>5. \A k \in DOMAIN s \ {"open", "twice"} : Answer(s)[k] = s[k] BY <1>1 DEF States
  <1> QED BY <1>1, <1>3, <1>4, <1>5 DEF o, t

(* What an end does to those who wait for it: they are answered, once, and *)
(* nobody waits any more.                                                  *)
Settled(s, t) ==
    /\ ~t.join /\ ~t.block /\ ~t.stale /\ t.held = s.held /\ t.overtaken = s.overtaken
    /\ ~s.block /\ ~s.join => t.open = s.open /\ t.twice = s.twice
    /\ s.block \/ s.join => /\ t.open = s.open \ {s.held}
                            /\ t.twice = (s.twice \/ (s.held \notin s.open /\ ~s.stale))

Waiters == {"open", "twice", "join", "block", "stale"}

LEMMA SettleIs ==
  ASSUME NEW s \in States
  PROVE  LET t == [AnswerIfWaiting(s) EXCEPT !.join = FALSE, !.block = FALSE, !.stale = FALSE]
         IN  t \in States /\ Settled(s, t) /\ \A k \in DOMAIN s \ Waiters : t[k] = s[k]
  <1> DEFINE a == AnswerIfWaiting(s)
             t == [a EXCEPT !.join = FALSE, !.block = FALSE, !.stale = FALSE]
  <1>1. /\ a \in States
        /\ ~s.block /\ ~s.join => a = s
        /\ s.block \/ s.join => /\ a.open = s.open \ {s.held}
                                /\ a.twice = (s.twice \/ (s.held \notin s.open /\ ~s.stale))
        /\ \A k \in DOMAIN s \ {"open", "twice"} : a[k] = s[k]
    BY AnswerIs DEF AnswerIfWaiting
  <1> HIDE DEF a
  <1>2. /\ t \in States /\ ~t.join /\ ~t.block /\ ~t.stale
        /\ \A k \in DOMAIN a \ {"join", "block", "stale"} : t[k] = a[k]
    <2>1. a \in States BY <1>1
    <2>2. t \in States
      <3>1. \A j \in BOOLEAN, b \in BOOLEAN, l \in BOOLEAN :
               [a EXCEPT !.join = j, !.block = b, !.stale = l] \in States
        BY <2>1, ZenonT(30) DEF States
      <3> QED BY <3>1
    <2>3. ~t.join /\ ~t.block /\ ~t.stale BY <2>1 DEF States
    <2>4. \A k \in DOMAIN a \ {"join", "block", "stale"} : t[k] = a[k] BY <2>1 DEF States
    <2> QED BY <2>2, <2>3, <2>4
  <1>3. DOMAIN a = DOMAIN s /\ {"open", "twice", "held", "overtaken"} \subseteq DOMAIN s
    BY <1>1 DEF States
  <1>4. Settled(s, t) BY <1>1, <1>2, <1>3 DEF Settled
  <1>5. \A k \in DOMAIN s \ Waiters : t[k] = s[k] BY <1>1, <1>2, <1>3 DEF Waiters
  <1> QED BY <1>2, <1>4, <1>5 DEF a

-----------------------------------------------------------------------------
Unsettled(s, t) ==
    /\ t.open = s.open /\ t.twice = s.twice /\ t.join = s.join /\ t.block = s.block
    /\ t.stale = s.stale /\ t.held = s.held /\ t.overtaken = s.overtaken

LEMMA HeldIsKept ==
  ASSUME NEW s, NEW t, Held(s), ~s.failed, Settled(s, t) \/ Unsettled(s, t)
  PROVE  Held(t)
  <1>1. CASE Settled(s, t) BY <1>1 DEF Held, Settled
  <1>2. CASE Unsettled(s, t) BY <1>2 DEF Held, Unsettled
  <1> QED BY <1>1, <1>2

(* A run that may end: nothing of it but a response is awaited.            *)
Calm(s) ==
    /\ s \in States /\ BufferOK(s) /\ ~s.failed /\ s.runMode = "RUNNING" /\ Answerable(s)
    /\ ~s.disturbed => ~s.again /\ ~s.stray /\ s.reports = 0 /\ s.cmdTimer = Off /\ s.timeout = Off

LEMMA CompleteIs ==
  ASSUME NEW s \in States
  PROVE  /\ Complete(s) \in States /\ Settled(s, Complete(s))
         /\ Complete(s).runMode = "STOPPED" /\ Complete(s).reports = s.reports + 1
         /\ Complete(s).pos = 1 /\ Complete(s).recs = <<>> /\ ~Complete(s).valid
         /\ \A k \in {"cmdTimer", "timeout", "failed", "again", "stray", "disturbed"} :
               Complete(s)[k] = s[k]
  <1> DEFINE r == [s EXCEPT !.runMode = "STOPPED", !.reports = @ + 1]
             t == Cleared(r)
             c == Complete(s)
  <1>1. r \in States /\ DOMAIN r = DOMAIN s
    <2>1. s.reports + 1 \in Nat BY DEF States
    <2>2. r \in States BY <2>1 DEF States
    <2> QED BY <2>2
  <1>2. /\ r.runMode = "STOPPED" /\ r.reports = s.reports + 1
        /\ \A k \in DOMAIN s \ {"runMode", "reports"} : r[k] = s[k]
    BY DEF States
  <1> HIDE DEF r
  <1>3. /\ t \in States /\ DOMAIN t = DOMAIN s /\ t.recs = <<>> /\ t.pos = 1 /\ t.valid = FALSE
        /\ \A k \in DOMAIN s \ {"recs", "pos", "valid"} : t[k] = r[k]
    BY <1>1, ClearedIs DEF States
  <1> HIDE DEF t
  <1>4. c = [AnswerIfWaiting(t) EXCEPT !.join = FALSE, !.block = FALSE, !.stale = FALSE]
    BY DEF Complete, t, r
  <1>5. c \in States /\ Settled(t, c) /\ \A k \in DOMAIN s \ Waiters : c[k] = t[k]
    BY <1>3, <1>4, SettleIs
  <1>6. {"runMode", "reports", "recs", "pos", "valid", "cmdTimer", "timeout", "failed", "again", "stray",
         "disturbed", "open", "twice", "join", "block", "stale", "held", "overtaken"} \subseteq DOMAIN s
    BY DEF States
  <1>7. /\ c.runMode = "STOPPED" /\ c.reports = s.reports + 1
        /\ c.pos = 1 /\ c.recs = <<>> /\ ~c.valid
    BY <1>2, <1>3, <1>5, <1>6 DEF Waiters
  <1>8. \A k \in {"cmdTimer", "timeout", "failed", "again", "stray", "disturbed"} : c[k] = s[k]
    BY <1>2, <1>3, <1>5, <1>6 DEF Waiters
  <1>9. /\ t.open = s.open /\ t.twice = s.twice /\ t.join = s.join /\ t.block = s.block
        /\ t.stale = s.stale /\ t.held = s.held /\ t.overtaken = s.overtaken
    BY <1>2, <1>3, <1>6
  <1>10. Settled(s, c) BY <1>5, <1>9 DEF Settled
  <1> QED BY <1>5, <1>7, <1>8, <1>10

LEMMA CompleteSound ==
  ASSUME NEW s, Calm(s) PROVE Sound(Complete(s)) /\ Settled(s, Complete(s))
  <1> DEFINE c == Complete(s)
  <1>1. s \in States BY DEF Calm
  <1>2. /\ c \in States /\ Settled(s, c) /\ c.runMode = "STOPPED" /\ c.reports = s.reports + 1
        /\ c.pos = 1 /\ c.recs = <<>> /\ ~c.valid
        /\ c.cmdTimer = s.cmdTimer /\ c.timeout = s.timeout /\ c.failed = s.failed
        /\ c.again = s.again /\ c.stray = s.stray /\ c.disturbed = s.disturbed
    BY <1>1, CompleteIs
  <1> HIDE DEF c
  <1>3. BufferOK(c) /\ (c.failed => Excused(c)) BY <1>2 DEF BufferOK, Calm, Excused
  <1>4. Undisturbed(c) BY <1>2 DEF Calm, Undisturbed, Rests
  <1>5. Answerable(c) BY <1>2 DEF Calm, Answerable, Settled
  <1> QED BY <1>2, <1>3, <1>4, <1>5 DEF Sound, c

LEMMA CancelSound ==
  ASSUME NEW s \in States, BufferOK(s), ~s.failed, Answerable(s),
         ~s.disturbed => ~s.again /\ ~s.stray /\ s.reports = 0
  PROVE  Sound(PerformCancel(s)) /\ Settled(s, PerformCancel(s))
  <1> DEFINE r == [s EXCEPT !.runMode = "STOPPED", !.reports = @ + 1,
                            !.cmdTimer = Off, !.timeout = Off]
             t == Reset(r)
             c == PerformCancel(s)
  <1>1. t \in States /\ DOMAIN t = DOMAIN s
    <2>1. s.reports + 1 \in Nat BY DEF States
    <2>2. r \in States BY <2>1 DEF States, CmdTimers, Timeouts
    <2>3. t \in States BY <2>2 DEF States, Reset
    <2>4. DOMAIN t = DOMAIN r BY DEF Reset
    <2> QED BY <2>3, <2>4
  <1>2. /\ t.runMode = "STOPPED" /\ t.reports = s.reports + 1 /\ t.pos = 1
        /\ t.cmdTimer = Off /\ t.timeout = Off
    BY DEF States, Reset
  <1>3. \A k \in DOMAIN s \ {"runMode", "reports", "pos", "cmdTimer", "timeout"} : t[k] = s[k]
    BY DEF States, Reset
  <1>4. c = [AnswerIfWaiting(t) EXCEPT !.join = FALSE, !.block = FALSE, !.stale = FALSE]
    BY DEF PerformCancel
  <1> HIDE DEF t, c
  <1>5. c \in States /\ Settled(t, c) /\ \A k \in DOMAIN s \ Waiters : c[k] = t[k]
    BY <1>1, <1>4, SettleIs
  <1>6. {"runMode", "reports", "recs", "pos", "valid", "cmdTimer", "timeout", "failed", "again", "stray",
         "disturbed", "open", "twice", "join", "block", "stale", "held", "overtaken"} \subseteq DOMAIN s
    BY DEF States
  <1>7. /\ c.runMode = "STOPPED" /\ c.reports = s.reports + 1 /\ c.pos = 1
        /\ c.cmdTimer = Off /\ c.timeout = Off
        /\ c.recs = s.recs /\ c.valid = s.valid /\ c.failed = s.failed
        /\ c.again = s.again /\ c.stray = s.stray /\ c.disturbed = s.disturbed
    BY <1>2, <1>3, <1>5, <1>6 DEF Waiters
  <1>8. /\ t.open = s.open /\ t.twice = s.twice /\ t.join = s.join /\ t.block = s.block
        /\ t.stale = s.stale /\ t.held = s.held /\ t.overtaken = s.overtaken
    BY <1>3, <1>6
  <1>9. Settled(s, c) BY <1>5, <1>8 DEF Settled
  <1>10. BufferOK(c) BY <1>7 DEF BufferOK, States
  <1>11. Undisturbed(c) BY <1>7 DEF Undisturbed, Rests
  <1>12. Answerable(c) BY <1>9 DEF Answerable, Settled
  <1> QED BY <1>5, <1>7, <1>9, <1>10, <1>11, <1>12 DEF Sound, c

-----------------------------------------------------------------------------
LEMMA DispatchIs ==
  ASSUME SequencerAssumption, NEW s \in States
  PROVE  /\ Dispatch(s) \in States
         /\ Dispatch(s).flight = s.flight + 1 /\ Dispatch(s).sent = s.rec
         /\ Dispatch(s).again <=> (s.again \/ (s.runMode = "RUNNING" /\ s.rec <= s.sent))
         /\ Dispatch(s).stray <=> (s.stray \/ s.runMode = "STOPPED")
         /\ \A k \in DOMAIN s \ {"flight", "sent", "again", "stray", "timeout"} :
               Dispatch(s)[k] = s[k]
  <1> DEFINE t == [s EXCEPT !.flight = @ + 1,
                            !.again = @ \/ (s.runMode = "RUNNING" /\ s.rec <= s.sent),
                            !.stray = @ \/ s.runMode = "STOPPED",
                            !.sent  = s.rec]
  <1>1. /\ s.flight + 1 \in Nat /\ s.rec \in Nat
        /\ (s.again \/ (s.runMode = "RUNNING" /\ s.rec <= s.sent)) \in BOOLEAN
        /\ (s.stray \/ s.runMode = "STOPPED") \in BOOLEAN
    BY DEF States
  <1>2. t \in States
    <2>1. \A n \in Nat, a \in BOOLEAN, y \in BOOLEAN, x \in Nat :
             [s EXCEPT !.flight = n, !.again = a, !.stray = y, !.sent = x] \in States
      BY ZenonT(30) DEF States
    <2> QED BY <1>1, <2>1
  <1>3. /\ t.flight = s.flight + 1 /\ t.sent = s.rec
        /\ t.again <=> (s.again \/ (s.runMode = "RUNNING" /\ s.rec <= s.sent))
        /\ t.stray <=> (s.stray \/ s.runMode = "STOPPED")
    BY DEF States
  <1>4. DOMAIN t = DOMAIN s /\ \A k \in DOMAIN s \ {"flight", "sent", "again", "stray"} : t[k] = s[k]
    BY DEF States
  <1>5. Dispatch(s) = t \/ Dispatch(s) = [t EXCEPT !.timeout = SeqTimeout]
    BY DEF Dispatch, SetTimeout
  <1> HIDE DEF t
  <1>6. [t EXCEPT !.timeout = SeqTimeout] \in States
    <2>1. SeqTimeout \in Timeouts BY DEF SequencerAssumption, Timeouts
    <2> QED BY <1>2, <2>1 DEF States
  <1>7. \A k \in DOMAIN s \ {"timeout"} : [t EXCEPT !.timeout = SeqTimeout][k] = t[k]
    BY <1>4
  <1>8. {"flight", "sent", "again", "stray"} \subseteq DOMAIN s \ {"timeout"} BY DEF States
  <1>9. CASE Dispatch(s) = t BY <1>2, <1>3, <1>4, <1>9
  <1>10. CASE Dispatch(s) = [t EXCEPT !.timeout = SeqTimeout]
    BY <1>3, <1>4, <1>6, <1>7, <1>8, <1>10
  <1> QED BY <1>5, <1>9, <1>10

(* The records that are next to be carried out are there, or that they are *)
(* not has an excuse.                                                      *)
Ready(s) ==
    /\ Calm(s)
    /\ ~s.disturbed => s.flight = 0 /\ s.sent < s.pos
    /\ HasMore(s) \/ Excused(s)

(* A command is dispatched that was not yet in this run, and no other is   *)
(* awaited.                                                                *)
LEMMA DispatchSound ==
  ASSUME SequencerAssumption, NEW s \in States, BufferOK(s), ~s.failed, Answerable(s),
         ~s.disturbed => /\ s.runMode = "RUNNING" /\ ~s.again /\ ~s.stray /\ s.reports = 0
                         /\ s.flight = 0 /\ s.cmdTimer = Off /\ s.sent < s.rec /\ s.rec < s.pos
  PROVE  Sound(Dispatch(s)) /\ Unsettled(s, Dispatch(s))
  <1> DEFINE c == Dispatch(s)
  <1>1. /\ c \in States /\ c.flight = s.flight + 1 /\ c.sent = s.rec
        /\ c.again <=> (s.again \/ (s.runMode = "RUNNING" /\ s.rec <= s.sent))
        /\ c.stray <=> (s.stray \/ s.runMode = "STOPPED")
        /\ \A k \in DOMAIN s \ {"flight", "sent", "again", "stray", "timeout"} : c[k] = s[k]
    BY DispatchIs
  <1> HIDE DEF c
  <1>2. {"runMode", "reports", "recs", "pos", "rec", "valid", "cmdTimer", "failed",
         "disturbed", "open", "twice", "join", "block", "stale", "held", "overtaken"} \subseteq DOMAIN s
    BY DEF States
  <1>3. /\ c.runMode = s.runMode /\ c.reports = s.reports /\ c.recs = s.recs /\ c.pos = s.pos
        /\ c.rec = s.rec /\ c.valid = s.valid /\ c.cmdTimer = s.cmdTimer /\ c.failed = s.failed
        /\ c.disturbed = s.disturbed
    BY <1>1, <1>2
  <1>4. Unsettled(s, c) BY <1>1, <1>2 DEF Unsettled
  <1>5. BufferOK(c) BY <1>3 DEF BufferOK
  <1>6. Undisturbed(c)
    <2> SUFFICES ASSUME ~c.disturbed PROVE ~c.again /\ ~c.stray /\ c.runMode = "RUNNING" /\ Waits(c)
      BY DEF Undisturbed
    <2>1. s.sent \in Nat /\ s.rec \in Nat BY DEF States
    <2>2. ~s.disturbed BY <1>3
    <2>3. ~c.again /\ ~c.stray /\ c.runMode = "RUNNING" BY <1>1, <1>3, <2>1, <2>2
    <2>4. Waits(c) BY <1>1, <1>3, <2>1, <2>2 DEF Waits
    <2> QED BY <2>3, <2>4
  <1>7. Answerable(c) BY <1>3, <1>4 DEF Answerable, Unsettled
  <1> QED BY <1>1, <1>3, <1>4, <1>5, <1>6, <1>7 DEF Sound, c

LEMMA StepSound ==
  ASSUME SequencerAssumption, NEW s, Ready(s), NEW d \in Delays
  PROVE  Sound(Step(s, d)) /\ (Settled(s, Step(s, d)) \/ Unsettled(s, Step(s, d)))
  <1> DEFINE next == [s EXCEPT !.pos = @ + 1]
             read == [next EXCEPT !.rec = s.pos]
  <1>1. /\ s \in States /\ BufferOK(s) /\ ~s.failed /\ s.runMode = "RUNNING" /\ Answerable(s)
        /\ s.pos \in Nat /\ s.pos + 1 \in Nat
    BY DEF Ready, Calm, States
  <1>2. CASE ~HasMore(s) \/ s.recs[s.pos] = "bad"
    <2> DEFINE c == [s EXCEPT !.failed = TRUE]
    <2>1. Step(s, d) = c BY <1>2 DEF Step
    <2>2. c \in States BY <1>1 DEF States
    <2>3. c.failed /\ DOMAIN c = DOMAIN s /\ \A k \in DOMAIN s \ {"failed"} : c[k] = s[k]
      BY <1>1 DEF States
    <2> HIDE DEF c
    <2>4. {"runMode", "reports", "recs", "pos", "rec", "sent", "valid", "cmdTimer", "timeout",
           "flight", "again", "stray",
           "disturbed", "open", "twice", "join", "block", "stale", "held", "overtaken"} \subseteq DOMAIN s
      BY <1>1 DEF States
    <2>5. Unsettled(s, c) BY <2>3, <2>4 DEF Unsettled
    <2>6. BufferOK(c) BY <1>1, <2>3, <2>4 DEF BufferOK
    <2>7. Excused(s)
      <3>1. HasMore(s) => s.pos \in DOMAIN s.recs BY <1>1 DEF HasMore, BufferOK, States
      <3> QED BY <1>1, <1>2, <3>1 DEF Ready, BufferOK, Excused
    <2>8. Excused(c) BY <2>3, <2>4, <2>7 DEF Excused
    <2>9. Undisturbed(c) BY <1>1, <2>3, <2>4 DEF Ready, Calm, Undisturbed, Waits
    <2>10. Answerable(c) BY <1>1, <2>3, <2>4 DEF Answerable
    <2> QED BY <2>1, <2>2, <2>5, <2>6, <2>8, <2>9, <2>10 DEF Sound
  <1>3. /\ next \in States /\ next.pos = s.pos + 1 /\ DOMAIN next = DOMAIN s
        /\ \A k \in DOMAIN s \ {"pos"} : next[k] = s[k]
    <2>1. next \in States BY <1>1 DEF States
    <2>2. next.pos = s.pos + 1 /\ \A k \in DOMAIN s \ {"pos"} : next[k] = s[k]
      BY <1>1 DEF States
    <2> QED BY <2>1, <2>2
  <1>4. /\ read \in States /\ read.pos = s.pos + 1 /\ read.rec = s.pos /\ DOMAIN read = DOMAIN s
        /\ \A k \in DOMAIN s \ {"pos", "rec"} : read[k] = s[k]
    <2> HIDE DEF next
    <2>1. read \in States BY <1>1, <1>3 DEF States
    <2>2. read.pos = s.pos + 1 /\ read.rec = s.pos BY <1>3 DEF States
    <2>3. \A k \in DOMAIN s \ {"pos", "rec"} : read[k] = s[k] BY <1>3
    <2> QED BY <1>3, <2>1, <2>2, <2>3
  <1>5. {"runMode", "reports", "recs", "valid", "cmdTimer", "timeout", "failed", "sent",
         "flight", "again", "stray",
         "disturbed", "open", "twice", "join", "block", "stale", "held", "overtaken"}
              \subseteq DOMAIN s \ {"pos", "rec"}
    BY <1>1 DEF States
  <1>6. ~HasMore(s) \/ s.pos + 1 \in 1 .. Len(s.recs) + 1
    BY <1>1 DEF HasMore, States
  <1>7. CASE HasMore(s) /\ s.recs[s.pos] = "end"
    <2>1. Step(s, d) = Complete(next) BY <1>7 DEF Step
    <2> HIDE DEF next
    <2>2. Calm(next)
      <3>1. BufferOK(next) BY <1>1, <1>3, <1>5, <1>6, <1>7 DEF BufferOK
      <3>2. Answerable(next) BY <1>1, <1>3, <1>5 DEF Answerable
      <3> QED BY <1>1, <1>3, <1>5, <3>1, <3>2 DEF Ready, Calm
    <2>3. Sound(Complete(next)) /\ Settled(next, Complete(next)) BY <2>2, CompleteSound
    <2>4. Settled(s, Complete(next)) BY <1>3, <1>5, <2>3 DEF Settled
    <2> QED BY <2>1, <2>3, <2>4
  <1>8. HasMore(s) => BufferOK(read) /\ Answerable(read) /\ Unsettled(s, read)
    <2> HIDE DEF read
    <2> SUFFICES ASSUME HasMore(s) PROVE BufferOK(read) /\ Answerable(read) /\ Unsettled(s, read)
      OBVIOUS
    <2>1. BufferOK(read) BY <1>1, <1>4, <1>5, <1>6 DEF BufferOK
    <2>2. Answerable(read) BY <1>1, <1>4, <1>5 DEF Answerable
    <2>3. Unsettled(s, read) BY <1>4, <1>5 DEF Unsettled
    <2> QED BY <2>1, <2>2, <2>3
  <1>9. CASE HasMore(s) /\ s.recs[s.pos] \notin {"bad", "end"} /\ d = 0
    <2>1. Step(s, d) = Dispatch(read) BY <1>9 DEF Step
    <2> HIDE DEF next, read
    <2>2. Sound(Dispatch(read)) /\ Unsettled(read, Dispatch(read))
      <3>1. ~read.disturbed =>
               /\ read.runMode = "RUNNING" /\ ~read.again /\ ~read.stray /\ read.reports = 0
               /\ read.flight = 0 /\ read.cmdTimer = Off
               /\ read.sent < read.rec /\ read.rec < read.pos
        BY <1>1, <1>4, <1>5 DEF Ready, Calm
      <3>2. ~read.failed BY <1>1, <1>4, <1>5
      <3> QED BY <1>4, <1>8, <1>9, <3>1, <3>2, DispatchSound
    <2>3. Unsettled(s, Dispatch(read)) BY <1>8, <1>9, <2>2 DEF Unsettled
    <2> QED BY <2>1, <2>2, <2>3
  <1>10. CASE HasMore(s) /\ s.recs[s.pos] \notin {"bad", "end"} /\ d # 0
    <2> DEFINE c == [read EXCEPT !.cmdTimer = d]
    <2>1. Step(s, d) = c BY <1>10 DEF Step
    <2>2. d \in CmdTimers
      BY DEF SequencerAssumption, CmdTimers
    <2> HIDE DEF next, read
    <2>3. c \in States BY <1>4, <2>2 DEF States
    <2>4. c.cmdTimer = d /\ \A k \in DOMAIN s \ {"cmdTimer"} : c[k] = read[k]
      BY <1>4 DEF States
    <2> HIDE DEF c
    <2>5. c.pos = s.pos + 1 /\ c.rec = s.pos
      BY SMTT(60), <1>1, <1>4, <2>4 DEF States
    <2>6. \A k \in DOMAIN s \ {"pos", "rec", "cmdTimer"} : c[k] = s[k]
      BY <1>4, <2>4
    <2>7. Unsettled(s, c) BY <1>5, <2>6 DEF Unsettled
    <2>8. BufferOK(c) BY <1>1, <1>5, <1>6, <1>10, <2>5, <2>6 DEF BufferOK
    <2>9. Undisturbed(c)
      <3>1. s.sent \in Nat BY <1>1 DEF States
      <3>2. /\ c.runMode = "RUNNING" /\ c.disturbed = s.disturbed /\ c.again = s.again
            /\ c.stray = s.stray /\ c.reports = s.reports /\ c.flight = s.flight
            /\ c.timeout = s.timeout /\ c.sent = s.sent
        BY <1>1, <1>5, <2>6
      <3> QED BY <1>1, <2>5, <3>1, <3>2 DEF Ready, Calm, Undisturbed, Waits
    <2>10. Answerable(c) BY <1>1, <1>5, <2>6 DEF Answerable
    <2>11. ~c.failed BY <1>1, <1>5, <2>6
    <2> QED BY <2>1, <2>3, <2>7, <2>8, <2>9, <2>10, <2>11 DEF Sound
  <1> QED BY <1>2, <1>7, <1>9, <1>10

-----------------------------------------------------------------------------
(* A stopped sequencer that may be started.                                *)
Startable(s) ==
    /\ s \in States /\ BufferOK(s) /\ ~s.failed /\ s.runMode = "STOPPED" /\ Answerable(s)
    /\ HasMore(s) \/ ~s.valid \/ s.recs = <<>>

(* A run that starts is undisturbed, unless a timer of an earlier one is   *)
(* still on.                                                               *)
LEMMA StartSound ==
  ASSUME SequencerAssumption, NEW s, Startable(s), NEW d \in Delays
  PROVE  Sound(StartRun(s, d)) /\ (Settled(s, StartRun(s, d)) \/ Unsettled(s, StartRun(s, d)))
  <1> DEFINE c == [s EXCEPT !.runMode = "RUNNING", !.late = CapLate(s.late + s.flight),
                            !.flight = 0, !.sent = 0, !.reports = 0, !.again = FALSE, !.stray = FALSE,
                            !.disturbed = s.cmdTimer # Off \/ s.timeout # Off]
  <1>1. s \in States /\ BufferOK(s) /\ ~s.failed /\ s.runMode = "STOPPED" /\ Answerable(s)
    BY DEF Startable
  <1>2. CapLate(s.late + s.flight) \in 0 .. MaxLate
    BY <1>1 DEF CapLate, States, SequencerAssumption
  <1>3. c \in States
    <2> DEFINE l == CapLate(s.late + s.flight)
               y == s.cmdTimer # Off \/ s.timeout # Off
               e == [s EXCEPT !.runMode = "RUNNING", !.late = l, !.flight = 0, !.sent = 0,
                              !.reports = 0, !.again = FALSE, !.stray = FALSE, !.disturbed = y]
    <2>1. l \in 0 .. MaxLate /\ y \in BOOLEAN BY <1>2
    <2> HIDE DEF l, y
    <2>2. e \in States BY <1>1, <2>1, Zenon DEF States
    <2> QED BY <2>2 DEF l, y
  <1>4. /\ c.runMode = "RUNNING" /\ c.flight = 0 /\ c.sent = 0 /\ c.reports = 0
        /\ ~c.again /\ ~c.stray /\ (c.disturbed <=> s.cmdTimer # Off \/ s.timeout # Off)
    BY <1>1 DEF States
  <1>5. /\ c.open = s.open /\ c.twice = s.twice /\ c.join = s.join /\ c.block = s.block
        /\ c.stale = s.stale /\ c.held = s.held /\ c.overtaken = s.overtaken
    BY <1>1 DEF States
  <1>6. /\ c.cmdTimer = s.cmdTimer /\ c.timeout = s.timeout /\ c.failed = s.failed
        /\ c.recs = s.recs /\ c.pos = s.pos /\ c.valid = s.valid
    BY <1>1 DEF States
  <1>7. StartRun(s, d) = Step(c, d) BY DEF StartRun
  <1> HIDE DEF c
  <1>8. BufferOK(c) BY <1>1, <1>4, <1>6 DEF BufferOK
  <1>9. Answerable(c) BY <1>1, <1>4, <1>5 DEF Answerable
  <1>10. 0 < s.pos BY <1>1 DEF BufferOK, States
  <1>11. HasMore(c) \/ Excused(c) BY <1>6 DEF Startable, HasMore, Excused
  <1>12. Ready(c) BY <1>1, <1>3, <1>4, <1>6, <1>8, <1>9, <1>10, <1>11 DEF Ready, Calm
  <1>13. Sound(Step(c, d)) /\ (Settled(c, Step(c, d)) \/ Unsettled(c, Step(c, d)))
    BY <1>12, StepSound
  <1> QED BY <1>5, <1>7, <1>13 DEF Settled, Unsettled

LEMMA StartIfAutoSound ==
  ASSUME SequencerAssumption, NEW s, Startable(s), Undisturbed(s), NEW d \in Delays
  PROVE  /\ Sound(StartIfAuto(s, d))
         /\ Settled(s, StartIfAuto(s, d)) \/ Unsettled(s, StartIfAuto(s, d))
  <1>1. CASE s.stepMode = "AUTO" BY <1>1, StartSound DEF StartIfAuto
  <1>2. CASE s.stepMode # "AUTO" BY <1>2 DEF StartIfAuto, Startable, Sound, Unsettled
  <1> QED BY <1>1, <1>2

(* A response moves an undisturbed run on by one record at most.           *)
LEMMA RespondSound ==
  ASSUME SequencerAssumption, NEW s \in States, BufferOK(s), ~s.failed, Answerable(s),
         NEW ok \in BOOLEAN, NEW d \in Delays,
         ~s.disturbed => /\ ~s.again /\ ~s.stray
                         /\ s.runMode = "STOPPED" => Rests(s)
                         /\ s.runMode = "RUNNING" =>
                               s.reports = 0 /\ s.flight = 0 /\ s.cmdTimer = Off /\ s.sent < s.pos
  PROVE  /\ Sound(Responded(s, ok, d))
         /\ Settled(s, Responded(s, ok, d)) \/ Unsettled(s, Responded(s, ok, d))
  <1> DEFINE t == [s EXCEPT !.timeout = Off]
             c == Responded(s, ok, d)
  <1>1. t \in States /\ t.timeout = Off /\ \A k \in DOMAIN s \ {"timeout"} : t[k] = s[k]
    <2>1. t \in States BY DEF States, Timeouts
    <2>2. t.timeout = Off /\ \A k \in DOMAIN s \ {"timeout"} : t[k] = s[k] BY DEF States
    <2> QED BY <2>1, <2>2
  <1>2. {"runMode", "reports", "recs", "pos", "valid", "cmdTimer", "failed", "sent",
         "flight", "again", "stray",
         "disturbed", "open", "twice", "join", "block", "stale", "held", "overtaken"}
              \subseteq DOMAIN s \ {"timeout"}
    BY DEF States
  <1>3. CASE s.runMode = "STOPPED"
    <2>1. c = s BY <1>3 DEF Responded
    <2> QED BY <1>3, <2>1 DEF Sound, Unsettled, Undisturbed
  <1>4. CASE s.runMode = "RUNNING"
    <2>1. c = IF ~ok THEN PerformCancel(t) ELSE IF ~HasMore(s) THEN Complete(t)
              ELSE IF s.stepMode = "AUTO" THEN Step(t, d) ELSE t
      BY <1>4 DEF Responded
    <2> HIDE DEF t, c
    <2>2. BufferOK(t) /\ Answerable(t) /\ Unsettled(s, t) /\ ~t.failed /\ t.runMode = "RUNNING"
      BY <1>1, <1>2, <1>4 DEF BufferOK, Answerable, Unsettled
    <2>3. ~t.disturbed => /\ ~t.again /\ ~t.stray /\ t.reports = 0 /\ t.flight = 0
                          /\ t.cmdTimer = Off /\ t.sent < t.pos
      BY <1>1, <1>2, <1>4
    <2>4. Calm(t) BY <1>1, <2>2, <2>3 DEF Calm
    <2>5. HasMore(s) <=> HasMore(t) BY <1>1, <1>2 DEF HasMore
    <2>6. CASE ~ok
      <3>1. Sound(c) /\ Settled(t, c) BY <1>1, <2>1, <2>2, <2>3, <2>6, CancelSound
      <3> QED BY <2>2, <3>1 DEF Settled, Unsettled, c
    <2>7. CASE ok /\ ~HasMore(s)
      <3>1. Sound(c) /\ Settled(t, c) BY <2>1, <2>4, <2>7, CompleteSound
      <3> QED BY <2>2, <3>1 DEF Settled, Unsettled, c
    <2>8. CASE ok /\ HasMore(s) /\ s.stepMode = "AUTO"
      <3>1. Ready(t) BY <2>3, <2>4, <2>5, <2>8 DEF Ready
      <3>2. Sound(c) /\ (Settled(t, c) \/ Unsettled(t, c)) BY <2>1, <2>8, <3>1, StepSound
      <3> QED BY <2>2, <3>2 DEF Settled, Unsettled, c
    <2>9. CASE ok /\ HasMore(s) /\ s.stepMode # "AUTO"
      <3>1. Undisturbed(t) BY <1>1, <2>2, <2>3 DEF Undisturbed, Waits
      <3> QED BY <1>1, <2>1, <2>2, <2>9, <3>1 DEF Sound, c
    <2> QED BY <2>6, <2>7, <2>8, <2>9
  <1> QED BY <1>3, <1>4 DEF States

-----------------------------------------------------------------------------
(* What loading a file leaves of a stopped sequencer.                      *)
LEMMA LoadSound ==
  ASSUME SequencerAssumption, NEW s, s \in States, BufferOK(s), ~s.failed, s.runMode = "STOPPED",
         Undisturbed(s), Answerable(s), NEW f \in Files
  PROVE  /\ Sound(Load(s, f)) /\ Unsettled(s, Load(s, f))
         /\ Load(s, f).stepMode = s.stepMode
         /\ Loads(f) => Startable(Load(s, f))
  <1> DEFINE l == Load(s, f)
  <1>1. /\ l \in States
        /\ Loads(f) => l.valid /\ l.pos = 1 /\ \A i \in DOMAIN l.recs : l.recs[i] # "bad"
        /\ ~Loads(f) => l = s \/ ~l.valid
        /\ l.pos \in 1 .. Len(l.recs) + 1
        /\ \A k \in DOMAIN s \ {"recs", "pos", "valid"} : l[k] = s[k]
    BY LoadIs
  <1> HIDE DEF l
  <1>2. {"runMode", "stepMode", "reports", "cmdTimer", "timeout", "failed", "again", "stray",
         "disturbed", "open", "twice", "join", "block", "stale", "held", "overtaken"}
              \subseteq DOMAIN s \ {"recs", "pos", "valid"}
    BY DEF States
  <1>3. BufferOK(l) BY <1>1 DEF BufferOK
  <1>4. Unsettled(s, l) /\ ~l.failed /\ l.runMode = "STOPPED" /\ l.stepMode = s.stepMode
    BY <1>1, <1>2 DEF Unsettled
  <1>5. Undisturbed(l) BY <1>1, <1>2 DEF Undisturbed, Rests
  <1>6. Answerable(l) BY <1>4 DEF Answerable, Unsettled
  <1>7. Loads(f) => HasMore(l) \/ l.recs = <<>>
    <2>1. l.recs \in Seq(Records) BY <1>1 DEF States
    <2>2. l.recs # <<>> => Len(l.recs) >= 1 BY <2>1
    <2> QED BY <1>1, <2>2 DEF HasMore
  <1> QED BY <1>1, <1>3, <1>4, <1>5, <1>6, <1>7 DEF Sound, Startable, l

LEMMA CsRunKeeps ==
  ASSUME SequencerAssumption, SeqInv(st),
         NEW f \in Files, NEW block \in Blocks, NEW id \in Ids, NEW d \in Delays,
         CsRun(f, block, id, d)
  PROVE  SeqInv(st')
  <1> DEFINE taken == [st EXCEPT !.block = block, !.held = id, !.open = @ \cup {id},
                                 !.stale = block /\ ~Loads(f), !.overtaken = st.open]
             l   == Load(taken, f)
             run == StartIfAuto(l, d)
  <1>1. /\ st \in States /\ BufferOK(st) /\ Undisturbed(st) /\ Answerable(st)
        /\ ~st.failed /\ st.runMode = "STOPPED" /\ id \notin st.open /\ ~st.join /\ ~st.twice
    BY DEF SeqInv, Sound, CsRun, Handler, Stopped, NewIds, Answerable
  <1>2. block \in BOOLEAN /\ (block /\ ~Loads(f)) \in BOOLEAN BY DEF SequencerAssumption
  <1>3. taken \in States
    <2> DEFINE o == st.open \cup {id}
               v == st.open
               w == block /\ ~Loads(f)
               e == [st EXCEPT !.block = block, !.held = id, !.open = o, !.stale = w,
                               !.overtaken = v]
    <2>1. o \in SUBSET Ids /\ v \in SUBSET Ids /\ w \in BOOLEAN BY <1>1, <1>2 DEF States
    <2> HIDE DEF o, v, w
    <2>2. e \in States BY <1>1, <1>2, <2>1, Zenon DEF States
    <2> QED BY <2>2 DEF o, v, w
  <1>4. /\ taken.block = block /\ taken.held = id /\ taken.open = st.open \cup {id}
        /\ (taken.stale <=> block /\ ~Loads(f)) /\ taken.overtaken = st.open
        /\ taken.join = st.join /\ taken.twice = st.twice
    BY <1>1 DEF States
  <1>5. \A k \in DOMAIN st \ {"block", "held", "open", "stale", "overtaken"} : taken[k] = st[k]
    BY <1>1 DEF States
  <1>6. st' = IF ~Loads(f) THEN Answer(l) ELSE IF run.failed \/ run.block THEN run
              ELSE [Answer([run EXCEPT !.stale = block]) EXCEPT !.stale = FALSE]
    BY DEF CsRun
  <1> HIDE DEF taken
  <1>7. {"runMode", "stepMode", "recs", "pos", "valid", "reports", "cmdTimer", "timeout", "failed",
         "again", "stray", "disturbed"} \subseteq DOMAIN st \ {"block", "held", "open", "stale", "overtaken"}
    BY <1>1 DEF States
  <1>8. BufferOK(taken) /\ Undisturbed(taken) /\ ~taken.failed /\ taken.runMode = "STOPPED"
    BY <1>1, <1>5, <1>7 DEF BufferOK, Undisturbed, Rests
  <1>9. Answerable(taken) BY <1>1, <1>4 DEF Answerable
  <1>10. Sound(l) /\ Unsettled(taken, l) /\ (Loads(f) => Startable(l))
    BY <1>3, <1>8, <1>9, LoadSound
  <1>11. /\ l.open \ l.overtaken = {id} /\ l.held = id /\ id \in l.open /\ ~l.twice /\ ~l.join
         /\ l.block = block
    BY <1>1, <1>4, <1>10 DEF Unsettled
  <1>12. CASE ~Loads(f)
    <2> DEFINE c == Answer(l)
    <2>1. l \in States BY <1>10 DEF Sound
    <2>2. /\ c \in States /\ c.open = l.open \ {l.held}
          /\ c.twice = (l.twice \/ (l.held \notin l.open /\ ~l.stale))
          /\ \A k \in DOMAIN l \ {"open", "twice"} : c[k] = l[k]
      BY <2>1, AnswerIs
    <2> HIDE DEF c, l
    <2>3. {"runMode", "reports", "recs", "pos", "rec", "valid", "cmdTimer", "timeout", "failed", "sent",
           "flight", "again", "stray",
           "disturbed", "join", "block", "stale", "held", "overtaken"} \subseteq DOMAIN l \ {"open", "twice"}
      BY <2>1 DEF States
    <2>4. ~c.twice BY <1>11, <2>2
    <2>5. Held(c) BY <1>11, <2>2, <2>3 DEF Held
    <2>6. BufferOK(c) /\ (c.failed => Excused(c)) BY <1>10, <2>2, <2>3 DEF Sound, BufferOK, Excused
    <2>7. Undisturbed(c) BY <1>10, <2>2, <2>3 DEF Sound, Undisturbed, Waits, Rests
    <2>8. c.block => c.stale BY <1>4, <1>10, <1>11, <1>12, <2>2, <2>3 DEF Unsettled
    <2>9. Answerable(c) BY <1>10, <1>11, <2>2, <2>3, <2>4, <2>8 DEF Sound, Answerable
    <2> QED BY <1>6, <1>12, <2>2, <2>5, <2>6, <2>7, <2>9 DEF SeqInv, Sound, c
  <1>13. CASE Loads(f)
    <2>1. Sound(run) /\ (Settled(l, run) \/ Unsettled(l, run))
      BY <1>10, <1>13, StartIfAutoSound DEF Sound
    <2> HIDE DEF run
    <2>2. CASE run.failed \/ run.block
      <3>1. ~run.failed => Held(run)
        <4>1. ~run.failed => Unsettled(l, run) /\ run.block BY <2>1, <2>2 DEF Settled
        <4> QED BY <1>11, <4>1 DEF Held, Unsettled
      <3> QED BY <1>6, <1>13, <2>1, <2>2, <3>1 DEF SeqInv, Held
    <2>3. CASE ~(run.failed \/ run.block)
      <3> DEFINE m == [run EXCEPT !.stale = block]
                 a == Answer(m)
                 c == [a EXCEPT !.stale = FALSE]
      <3>1. st' = c BY <1>6, <1>13, <2>3
      <3>2. run \in States BY <2>1 DEF Sound
      <3>3. m \in States /\ m.stale = block /\ \A k \in DOMAIN run \ {"stale"} : m[k] = run[k]
        <4>1. m \in States BY <1>2, <3>2 DEF States
        <4>2. m.stale = block /\ \A k \in DOMAIN run \ {"stale"} : m[k] = run[k] BY <3>2 DEF States
        <4> QED BY <4>1, <4>2
      <3> HIDE DEF m
      <3>4. /\ a \in States /\ a.open = m.open \ {m.held}
            /\ a.twice = (m.twice \/ (m.held \notin m.open /\ ~m.stale))
            /\ \A k \in DOMAIN m \ {"open", "twice"} : a[k] = m[k]
        BY <3>3, AnswerIs
      <3> HIDE DEF a
      <3>5. c \in States /\ ~c.stale /\ \A k \in DOMAIN a \ {"stale"} : c[k] = a[k]
        <4>1. c \in States BY <3>4 DEF States
        <4>2. ~c.stale /\ \A k \in DOMAIN a \ {"stale"} : c[k] = a[k] BY <3>4 DEF States
        <4> QED BY <4>1, <4>2
      <3> HIDE DEF c
      <3>6. DOMAIN m = DOMAIN run /\ DOMAIN a = DOMAIN run BY <3>2, <3>3, <3>4 DEF States
      <3>7. {"runMode", "reports", "recs", "pos", "rec", "valid", "cmdTimer", "timeout", "failed",
             "sent", "flight", "again", "stray",
             "disturbed", "join", "block", "held", "overtaken"} \subseteq DOMAIN run \ {"open", "twice", "stale"}
        BY <3>2 DEF States
      <3>8. \A k \in DOMAIN run \ {"open", "twice", "stale"} : c[k] = run[k]
        BY <3>3, <3>4, <3>5, <3>6
      <3>9. {"open", "twice"} \subseteq DOMAIN run \ {"stale"} BY <3>2 DEF States
      <3>10. c.open = run.open \ {run.held} /\ c.twice = a.twice /\ m.open = run.open
             /\ m.twice = run.twice /\ m.held = run.held
        BY <3>3, <3>4, <3>5, <3>6, <3>7, <3>9
      <3>11. ~run.join /\ run.held = id /\ run.overtaken = l.overtaken
        BY <1>11, <2>1 DEF Settled, Unsettled
      <3>12. ~run.twice BY <2>1 DEF Sound, Answerable
      <3>13. run.held \in run.open \/ block
        BY <1>11, <2>1, <2>3 DEF Settled, Unsettled
      <3>14. ~c.twice BY <3>3, <3>4, <3>10, <3>12, <3>13
      <3>15. Held(c)
        <4>1. run.open \subseteq l.open BY <2>1 DEF Settled, Unsettled
        <4> QED BY <1>11, <3>7, <3>8, <3>10, <3>11, <4>1 DEF Held
      <3>16. BufferOK(c) /\ (c.failed => Excused(c)) BY <2>1, <3>7, <3>8 DEF Sound, BufferOK, Excused
      <3>17. Undisturbed(c) BY <2>1, <3>7, <3>8 DEF Sound, Undisturbed, Waits, Rests
      <3>18. Answerable(c) BY <2>3, <3>7, <3>8, <3>11, <3>14 DEF Answerable
      <3> QED BY <3>1, <3>5, <3>15, <3>16, <3>17, <3>18 DEF SeqInv, Sound
    <2> QED BY <2>2, <2>3
  <1> QED BY <1>12, <1>13

LEMMA ValidateKeeps ==
  ASSUME SequencerAssumption, SeqInv(st), NEW f \in Files, CsValidate(f)
  PROVE  SeqInv(st')
  <1> DEFINE l == Load(st, f)
             c == Cleared(l)
  <1>1. st \in States /\ ~st.failed /\ st.runMode = "STOPPED" /\ Held(st)
    BY DEF SeqInv, Sound, CsValidate, Handler, Stopped
  <1>2. Sound(l) /\ Unsettled(st, l) BY <1>1, LoadSound DEF SeqInv, Sound
  <1>3. Held(l) BY <1>1, <1>2, HeldIsKept
  <1>4. st' = c \/ st' = l BY DEF CsValidate
  <1> HIDE DEF l
  <1>5. l \in States BY <1>2 DEF Sound
  <1>6. /\ c \in States /\ c.recs = <<>> /\ c.pos = 1 /\ c.valid = FALSE
        /\ \A k \in DOMAIN l \ {"recs", "pos", "valid"} : c[k] = l[k]
    BY <1>5, ClearedIs
  <1> HIDE DEF c
  <1>7. {"runMode", "reports", "cmdTimer", "timeout", "failed", "again", "stray",
         "disturbed", "open", "twice", "join", "block", "stale", "held", "overtaken"}
              \subseteq DOMAIN l \ {"recs", "pos", "valid"}
    BY <1>5 DEF States
  <1>8. BufferOK(c) /\ Excused(c) BY <1>6 DEF BufferOK, Excused
  <1>9. l.runMode = "STOPPED"
    <2>1. st \in States /\ BufferOK(st) BY DEF SeqInv, Sound
    <2>2. f \in Files \cup {Missing} OBVIOUS
    <2>3. \A k \in DOMAIN st \ {"recs", "pos", "valid"} : Load(st, f)[k] = st[k]
      BY <2>1, <2>2, LoadIs
    <2>4. "runMode" \in DOMAIN st \ {"recs", "pos", "valid"} BY <2>1 DEF States
    <2>5. Load(st, f).runMode = st.runMode BY <2>3, <2>4
    <2> QED BY <1>1, <2>5 DEF l
  <1>10. Undisturbed(c) BY <1>2, <1>6, <1>7, <1>9 DEF Sound, Undisturbed, Rests
  <1>11. Answerable(c) BY <1>2, <1>6, <1>7 DEF Sound, Answerable
  <1>12. Held(c) BY <1>3, <1>6, <1>7 DEF Held
  <1> QED BY <1>2, <1>3, <1>4, <1>6, <1>8, <1>10, <1>11, <1>12 DEF SeqInv, Sound

LEMMA SeqRunKeeps ==
  ASSUME SequencerAssumption, SeqInv(st), NEW d \in Delays,
         (\E f \in Files : SeqRunIn(f, d)) \/ SeqRunLoaded(d)
  PROVE  SeqInv(st')
  <1>1. /\ st \in States /\ ~st.failed /\ st.runMode = "STOPPED" /\ Held(st) /\ Sound(st)
    BY DEF SeqInv, Sound, SeqRunIn, SeqRunLoaded, Handler, Stopped
  <1>2. ASSUME NEW f \in Files, SeqRunIn(f, d) PROVE SeqInv(st')
    <2> DEFINE l == Load(st, f)
               r == StartIfAuto(l, d)
    <2>1. Sound(l) /\ Unsettled(st, l) /\ (Loads(f) => Startable(l))
      BY <1>1, LoadSound DEF Sound
    <2>2. Held(l) BY <1>1, <2>1, HeldIsKept
    <2>3. st' = IF Loads(f) THEN r ELSE l BY <1>2 DEF SeqRunIn
    <2> HIDE DEF l
    <2>4. CASE Loads(f)
      <3>1. Sound(r) /\ (Settled(l, r) \/ Unsettled(l, r))
        BY <2>1, <2>4, StartIfAutoSound DEF Sound
      <3>2. ~l.failed BY <2>1, <2>4 DEF Startable
      <3>3. Held(r) BY <2>2, <3>1, <3>2, HeldIsKept
      <3> QED BY <2>3, <2>4, <3>1, <3>3 DEF SeqInv
    <2> QED BY <2>1, <2>2, <2>3, <2>4 DEF SeqInv
  <1>3. CASE SeqRunLoaded(d)
    <2> DEFINE r == StartIfAuto(st, d)
    <2>1. Startable(st) BY <1>1, <1>3 DEF Sound, Startable, SeqRunLoaded
    <2>2. st' = r BY <1>3 DEF SeqRunLoaded
    <2>3. Sound(r) /\ (Settled(st, r) \/ Unsettled(st, r))
      BY <1>1, <2>1, StartIfAutoSound DEF Sound
    <2> QED BY <1>1, <2>2, <2>3, HeldIsKept DEF SeqInv
  <1> QED BY <1>2, <1>3

LEMMA CancelRunKeeps == ASSUME SequencerAssumption, SeqInv(st), CancelRun PROVE SeqInv(st')
  <1>1. st \in States /\ ~st.failed /\ st.runMode = "RUNNING" /\ Held(st) /\ Sound(st)
    BY DEF SeqInv, Sound, CancelRun, Handler, Stopped, States
  <1>2. st' = PerformCancel(st) BY DEF CancelRun
  <1>3. Sound(st') /\ Settled(st, st')
    BY <1>1, <1>2, CancelSound DEF Sound, Undisturbed, Waits
  <1> QED BY <1>1, <1>3, HeldIsKept DEF SeqInv

LEMMA JoinKeeps ==
  ASSUME SequencerAssumption, SeqInv(st), NEW id \in Ids, CsJoinWait(id) PROVE SeqInv(st')
  <1>1. st \in States /\ ~st.failed /\ st.runMode = "RUNNING" /\ Sound(st) /\ id \notin st.open
    BY DEF SeqInv, Sound, CsJoinWait, Handler, Stopped, States, NewIds
  <1>2. st' = [st EXCEPT !.join = TRUE, !.held = id, !.open = @ \cup {id}, !.overtaken = st.open]
    BY DEF CsJoinWait
  <1>3. st' \in States
    <2>1. st.open \cup {id} \in SUBSET Ids /\ st.open \in SUBSET Ids BY <1>1 DEF States
    <2> QED BY <1>1, <1>2, <2>1 DEF States
  <1>4. st'.join /\ st'.held = id /\ st'.open = st.open \cup {id} /\ st'.overtaken = st.open
    BY <1>1, <1>2 DEF States
  <1>5. \A k \in DOMAIN st \ {"join", "held", "open", "overtaken"} : st'[k] = st[k]
    BY <1>1, <1>2 DEF States
  <1>6. {"runMode", "reports", "recs", "pos", "rec", "valid", "cmdTimer", "timeout", "failed",
         "sent", "flight", "again", "stray", "disturbed", "twice", "block", "stale"}
           \subseteq DOMAIN st \ {"join", "held", "open", "overtaken"}
    BY <1>1 DEF States
  <1>7. BufferOK(st') /\ Undisturbed(st') /\ ~st'.failed
    BY <1>1, <1>5, <1>6 DEF Sound, BufferOK, Undisturbed, Waits
  <1>8. Answerable(st') BY <1>1, <1>4, <1>5, <1>6 DEF Sound, Answerable
  <1>9. Held(st') BY <1>1, <1>4 DEF Held
  <1> QED BY <1>3, <1>7, <1>8, <1>9 DEF SeqInv, Sound

LEMMA CsStartKeeps ==
  ASSUME SequencerAssumption, SeqInv(st), NEW d \in Delays, CsStart(d) PROVE SeqInv(st')
  <1> DEFINE s == [st EXCEPT !.block = FALSE, !.stale = FALSE, !.overtaken = st.open]
  <1>1. st \in States /\ ~st.failed /\ st.runMode = "STOPPED" /\ Sound(st) /\ HasMore(st)
    BY DEF SeqInv, Sound, CsStart, Handler, Stopped
  <1>2. s \in States
    <2>1. st.open \in SUBSET Ids BY <1>1 DEF States
    <2> QED BY <1>1, <2>1 DEF States
  <1>3. ~s.block /\ ~s.stale /\ s.overtaken = st.open BY <1>1 DEF States
  <1>4. \A k \in DOMAIN st \ {"block", "stale", "overtaken"} : s[k] = st[k] BY <1>1 DEF States
  <1>5. {"runMode", "recs", "pos", "valid", "failed", "join", "open", "held", "twice"}
           \subseteq DOMAIN st \ {"block", "stale", "overtaken"}
    BY <1>1 DEF States
  <1>6. st' = StartRun(s, d) BY DEF CsStart
  <1> HIDE DEF s
  <1>7. BufferOK(s) /\ HasMore(s) BY <1>1, <1>4, <1>5 DEF Sound, BufferOK, HasMore
  <1>8. Answerable(s) BY <1>1, <1>3, <1>4, <1>5 DEF Sound, Answerable
  <1>9. Startable(s) BY <1>1, <1>2, <1>4, <1>5, <1>7, <1>8 DEF Startable
  <1>10. Held(s) BY <1>3, <1>4, <1>5 DEF Held
  <1>11. Sound(st') /\ (Settled(s, st') \/ Unsettled(s, st')) BY <1>6, <1>9, StartSound
  <1>12. ~s.failed BY <1>9 DEF Startable
  <1> QED BY <1>10, <1>11, <1>12, HeldIsKept DEF SeqInv

LEMMA CsStepKeeps ==
  ASSUME SequencerAssumption, SeqInv(st), NEW d \in Delays, CsStep(d) PROVE SeqInv(st')
  <1> DEFINE misplaced == \/ st.stepMode = "AUTO" \/ ~HasMore(st)
                          \/ st.cmdTimer # Off \/ st.flight > 0
             s == [st EXCEPT !.disturbed = @ \/ misplaced]
  <1>1. st \in States /\ ~st.failed /\ st.runMode = "RUNNING" /\ Sound(st) /\ Held(st)
    BY DEF SeqInv, Sound, CsStep, Handler, Stopped, States
  <1>2. st' = Step(s, d) BY DEF CsStep
  <1> HIDE DEF misplaced
  <1>3. s \in States
    <2>1. (st.disturbed \/ misplaced) \in BOOLEAN OBVIOUS
    <2> QED BY <1>1, <2>1 DEF States
  <1>4. s.disturbed <=> (st.disturbed \/ misplaced) BY <1>1 DEF States
  <1>5. \A k \in DOMAIN st \ {"disturbed"} : s[k] = st[k] BY <1>1 DEF States
  <1>6. {"runMode", "reports", "recs", "pos", "rec", "valid", "cmdTimer", "timeout", "failed",
         "sent", "flight", "again", "stray",
         "open", "twice", "join", "block", "stale", "held", "overtaken"} \subseteq DOMAIN st \ {"disturbed"}
    BY <1>1 DEF States
  <1> HIDE DEF s
  <1>7. BufferOK(s) /\ Answerable(s) /\ Unsettled(st, s) /\ ~s.failed /\ s.runMode = "RUNNING"
    BY <1>1, <1>5, <1>6 DEF Sound, BufferOK, Answerable, Unsettled
  <1>8. HasMore(s) <=> HasMore(st) BY <1>5, <1>6 DEF HasMore
  <1>9. st.flight \in Nat BY <1>1 DEF States
  <1>10. Calm(s)
    BY <1>1, <1>3, <1>4, <1>5, <1>6, <1>7, <1>9 DEF Calm, Sound, Undisturbed, Waits, misplaced
  <1>11. Ready(s)
    BY <1>1, <1>4, <1>5, <1>6, <1>8, <1>9, <1>10 DEF Ready, Excused, Sound, Undisturbed, Waits, misplaced
  <1>12. Sound(st') /\ (Settled(s, st') \/ Unsettled(s, st')) BY <1>2, <1>11, StepSound
  <1>13. Settled(st, st') \/ Unsettled(st, st') BY <1>7, <1>12 DEF Settled, Unsettled
  <1> QED BY <1>1, <1>12, <1>13, HeldIsKept DEF SeqInv

LEMMA ModeKeeps == ASSUME SequencerAssumption, SeqInv(st), CsAuto \/ CsManual PROVE SeqInv(st')
  <1>1. st \in States BY DEF SeqInv, Sound
  <1>2. PICK mode \in {"AUTO", "MANUAL"} : st' = [st EXCEPT !.stepMode = mode]
    BY DEF CsAuto, CsManual
  <1>3. st' \in States BY <1>1, <1>2 DEF States
  <1>4. \A k \in DOMAIN st \ {"stepMode"} : st'[k] = st[k] BY <1>1, <1>2 DEF States
  <1>5. {"runMode", "reports", "recs", "pos", "rec", "valid", "cmdTimer", "timeout", "failed",
         "sent", "flight", "again", "stray", "disturbed",
         "open", "twice", "join", "block", "stale", "held", "overtaken"} \subseteq DOMAIN st \ {"stepMode"}
    BY <1>1 DEF States
  <1>6. BufferOK(st') /\ (st'.failed => Excused(st')) BY <1>4, <1>5 DEF SeqInv, Sound, BufferOK, Excused
  <1>7. Undisturbed(st') BY <1>4, <1>5 DEF SeqInv, Sound, Undisturbed, Waits, Rests
  <1>8. Answerable(st') /\ Held(st') BY <1>4, <1>5 DEF SeqInv, Sound, Answerable, Held
  <1> QED BY <1>3, <1>6, <1>7, <1>8 DEF SeqInv, Sound

LEMMA ResponseKeeps ==
  ASSUME SequencerAssumption, SeqInv(st), NEW ok \in BOOLEAN, NEW d \in Delays,
         CmdResponseIn(ok, d) \/ LateResponseIn(ok, d)
  PROVE  SeqInv(st')
  <1>1. st \in States /\ ~st.failed /\ Sound(st) /\ Held(st) /\ st.flight \in Nat
        /\ st.late \in 0 .. MaxLate /\ MaxLate \in Nat
    BY DEF SeqInv, Sound, CmdResponseIn, LateResponseIn, States, SequencerAssumption
  <1>2. PICK s \in States :
          /\ st' = Responded(s, ok, d)
          /\ \/ st.flight > 0 /\ s.flight = st.flight - 1 /\ (s.disturbed <=> st.disturbed)
             \/ s.disturbed <=> (st.disturbed \/ st.runMode # "STOPPED")
          /\ \A k \in DOMAIN st \ {"flight", "late", "disturbed"} : s[k] = st[k]
    <2>1. CASE CmdResponseIn(ok, d)
      <3> DEFINE s == [st EXCEPT !.flight = @ - 1]
      <3>1. st.flight > 0 /\ st' = Responded(s, ok, d) BY <2>1 DEF CmdResponseIn
      <3>2. st.flight - 1 \in Nat BY <1>1, <3>1
      <3>3. s \in States BY <1>1, <3>2 DEF States
      <3>4. s.flight = st.flight - 1 /\ (s.disturbed <=> st.disturbed)
        BY <1>1 DEF States
      <3>5. \A k \in DOMAIN st \ {"flight", "late", "disturbed"} : s[k] = st[k] BY <1>1 DEF States
      <3> HIDE DEF s
      <3> QED BY <3>1, <3>3, <3>4, <3>5
    <2>2. CASE LateResponseIn(ok, d)
      <3> DEFINE s == [st EXCEPT !.late = @ - 1, !.disturbed = @ \/ ~Stopped]
      <3>1. st.late > 0 /\ st' = Responded(s, ok, d) BY <2>2 DEF LateResponseIn
      <3>2. st.late - 1 \in 0 .. MaxLate /\ (st.disturbed \/ ~Stopped) \in BOOLEAN BY <1>1, <3>1
      <3>3. s \in States BY <1>1, <3>2 DEF States
      <3>4. s.disturbed <=> st.disturbed \/ st.runMode # "STOPPED" BY <1>1 DEF States, Stopped
      <3>5. \A k \in DOMAIN st \ {"flight", "late", "disturbed"} : s[k] = st[k] BY <1>1 DEF States
      <3> HIDE DEF s
      <3> QED BY <3>1, <3>3, <3>4, <3>5
    <2> QED BY <2>1, <2>2
  <1>3. {"runMode", "reports", "recs", "pos", "rec", "valid", "cmdTimer", "timeout", "failed",
         "sent", "again", "stray", "open", "twice", "join", "block", "stale", "held", "overtaken"}
              \subseteq DOMAIN st \ {"flight", "late", "disturbed"}
    BY <1>1 DEF States
  <1>4. BufferOK(s) /\ Answerable(s) /\ Unsettled(st, s) /\ ~s.failed
    BY <1>1, <1>2, <1>3 DEF Sound, BufferOK, Answerable, Unsettled
  <1>5. ~s.disturbed => ~st.disturbed /\ (st.runMode = "STOPPED" \/ (s.flight = st.flight - 1 /\ st.flight > 0))
    BY <1>2
  <1>6. ~s.disturbed => /\ ~s.again /\ ~s.stray
                        /\ s.runMode = "STOPPED" => Rests(s)
                        /\ s.runMode = "RUNNING" =>
                              s.reports = 0 /\ s.flight = 0 /\ s.cmdTimer = Off /\ s.sent < s.pos
    <2> SUFFICES ASSUME ~s.disturbed
                 PROVE  /\ ~s.again /\ ~s.stray
                        /\ s.runMode = "STOPPED" => Rests(s)
                        /\ s.runMode = "RUNNING" =>
                              s.reports = 0 /\ s.flight = 0 /\ s.cmdTimer = Off /\ s.sent < s.pos
      OBVIOUS
    <2>1. Undisturbed(st) /\ ~st.disturbed BY <1>1, <1>5 DEF Sound
    <2>2. ~s.again /\ ~s.stray /\ (s.runMode = "STOPPED" => Rests(s))
      BY <1>2, <1>3, <2>1 DEF Undisturbed, Rests
    <2>3. ASSUME s.runMode = "RUNNING"
          PROVE  s.reports = 0 /\ s.flight = 0 /\ s.cmdTimer = Off /\ s.sent < s.pos
      <3>1. st.runMode = "RUNNING" BY <1>2, <1>3, <2>3
      <3>2. Waits(st) /\ s.flight = st.flight - 1 /\ st.flight > 0 BY <1>5, <2>1, <3>1 DEF Undisturbed
      <3>3. st.flight = 1 BY <1>1, <3>2 DEF Waits
      <3> QED BY <1>2, <1>3, <3>2, <3>3 DEF Waits
    <2> QED BY <2>2, <2>3
  <1>7. Sound(st') /\ (Settled(s, st') \/ Unsettled(s, st'))
    BY <1>2, <1>4, <1>6, RespondSound
  <1>8. Settled(st, st') \/ Unsettled(st, st') BY <1>4, <1>7 DEF Settled, Unsettled
  <1> QED BY <1>1, <1>7, <1>8, HeldIsKept DEF SeqInv

LEMMA SchedInKeeps == ASSUME SequencerAssumption, SeqInv(st), SchedIn PROVE SeqInv(st')
  <1>1. st \in States /\ ~st.failed /\ Sound(st) /\ Held(st) /\ 0 # Off
    BY DEF SeqInv, Sound, SchedIn, Off
  <1>2. CASE st.cmdTimer = 0 /\ st' = Dispatch([st EXCEPT !.cmdTimer = Off])
    <2> DEFINE s == [st EXCEPT !.cmdTimer = Off]
    <2>1. s \in States BY <1>1 DEF States, CmdTimers
    <2>2. s.cmdTimer = Off /\ \A k \in DOMAIN st \ {"cmdTimer"} : s[k] = st[k] BY <1>1 DEF States
    <2>3. {"runMode", "reports", "recs", "pos", "rec", "valid", "timeout", "failed", "sent",
           "flight", "again", "stray", "disturbed",
           "open", "twice", "join", "block", "stale", "held", "overtaken"} \subseteq DOMAIN st \ {"cmdTimer"}
      BY <1>1 DEF States
    <2>4. st' = Dispatch(s) BY <1>2
    <2> HIDE DEF s
    <2>5. BufferOK(s) /\ Answerable(s) /\ Unsettled(st, s) /\ ~s.failed
      BY <1>1, <2>2, <2>3 DEF Sound, BufferOK, Answerable, Unsettled
    <2>6. ~st.disturbed => st.runMode = "RUNNING" /\ Waits(st) /\ ~st.again /\ ~st.stray
      BY <1>1, <1>2 DEF Sound, Undisturbed, Rests, States
    <2>7. ~s.disturbed => /\ s.runMode = "RUNNING" /\ ~s.again /\ ~s.stray /\ s.reports = 0
                          /\ s.flight = 0 /\ s.cmdTimer = Off /\ s.sent < s.rec /\ s.rec < s.pos
      BY <1>1, <1>2, <2>2, <2>3, <2>6 DEF Waits
    <2>8. Sound(st') /\ Unsettled(s, st') BY <2>1, <2>4, <2>5, <2>7, DispatchSound
    <2>9. Unsettled(st, st') BY <2>5, <2>8 DEF Unsettled
    <2> QED BY <1>1, <2>8, <2>9, HeldIsKept DEF SeqInv
  <1>3. CASE st.timeout = 0 /\ st' = PerformCancel(st)
    <2>1. ~st.disturbed => ~st.again /\ ~st.stray /\ st.reports = 0
      BY <1>1, <1>3 DEF Sound, Undisturbed, Rests, Waits, States
    <2>2. Sound(st') /\ Settled(st, st') BY <1>1, <1>3, <2>1, CancelSound DEF Sound
    <2> QED BY <1>1, <2>2, HeldIsKept DEF SeqInv
  <1> QED BY <1>2, <1>3 DEF SchedIn

LEMMA TickKeeps == ASSUME SequencerAssumption, SeqInv(st), Tick PROVE SeqInv(st')
  <1>1. st \in States BY DEF SeqInv, Sound
  <1>2. st' = [st EXCEPT !.cmdTimer = Elapse(@), !.timeout = Elapse(@)] BY DEF Tick
  <1>3. Elapse(st.cmdTimer) \in CmdTimers
        /\ (Elapse(st.cmdTimer) # Off => st.cmdTimer # Off)
    <2>1. CASE st.cmdTimer = Off BY <2>1 DEF Elapse, Off, CmdTimers
    <2>2. CASE st.cmdTimer # Off
      <3>0. st.cmdTimer \in CmdTimers BY <1>1 DEF States
      <3>1. PICK d \in Delays : st.cmdTimer \in 0 .. d BY <3>0, <2>2 DEF CmdTimers
      <3>2. d \in Nat BY DEF SequencerAssumption
      <3>3. Elapse(st.cmdTimer) \in 0 .. d BY <3>1, <3>2 DEF Elapse
      <3> QED BY <2>2, <3>3 DEF CmdTimers
    <2> QED BY <2>1, <2>2
  <1>4. Elapse(st.timeout) \in Timeouts /\ (Elapse(st.timeout) # Off => st.timeout # Off)
    <2>1. CASE st.timeout = Off BY <2>1 DEF Elapse, Off, Timeouts
    <2>2. CASE st.timeout # Off
      <3>0. st.timeout \in Timeouts BY <1>1 DEF States
      <3>1. st.timeout \in 0 .. SeqTimeout /\ SeqTimeout \in Nat
        BY <3>0, <2>2 DEF Timeouts, SequencerAssumption
      <3> QED BY <2>2, <3>1 DEF Elapse, Timeouts
    <2> QED BY <2>1, <2>2
  <1>5. st' \in States BY <1>1, <1>2, <1>3, <1>4 DEF States
  <1>6. st'.cmdTimer = Elapse(st.cmdTimer) /\ st'.timeout = Elapse(st.timeout)
    BY <1>1, <1>2 DEF States
  <1>7. \A k \in DOMAIN st \ {"cmdTimer", "timeout"} : st'[k] = st[k] BY <1>1, <1>2 DEF States
  <1>8. {"runMode", "reports", "recs", "pos", "rec", "valid", "failed", "sent", "flight", "again",
         "stray", "disturbed", "open", "twice", "join", "block", "stale", "held", "overtaken"}
              \subseteq DOMAIN st \ {"cmdTimer", "timeout"}
    BY <1>1 DEF States
  <1>9. BufferOK(st') /\ (st'.failed => Excused(st')) BY <1>7, <1>8 DEF SeqInv, Sound, BufferOK, Excused
  <1>10. (st.cmdTimer = Off => st'.cmdTimer = Off) /\ (st.timeout = Off => st'.timeout = Off)
    BY <1>3, <1>4, <1>6
  <1>11. Undisturbed(st') BY <1>7, <1>8, <1>10 DEF SeqInv, Sound, Undisturbed, Waits, Rests
  <1>12. Answerable(st') /\ Held(st') BY <1>7, <1>8 DEF SeqInv, Sound, Answerable, Held
  <1> QED BY <1>5, <1>9, <1>11, <1>12 DEF SeqInv, Sound

LEMMA SequencerStarts == ASSUME SequencerAssumption PROVE SequencerInit => SeqInv(st)
  <1> SUFFICES ASSUME SequencerInit PROVE SeqInv(st) OBVIOUS
  <1> DEFINE s == [runMode |-> "STOPPED", stepMode |-> "AUTO",
                   block |-> FALSE, join |-> FALSE, held |-> 0,
                   recs |-> <<>>, pos |-> 1, rec |-> 0,
                   cmdTimer |-> Off, timeout |-> Off,
                   failed |-> FALSE, valid |-> FALSE,
                   flight |-> 0, late |-> 0, sent |-> 0,
                   again |-> FALSE, stray |-> FALSE,
                   reports |-> 0, open |-> {}, twice |-> FALSE,
                   overtaken |-> {}, stale |-> FALSE, disturbed |-> FALSE]
  <1>1. PICK f \in {g \in Files : Loads(g)} \cup {Missing} : st = Load(s, f)
    BY DEF SequencerInit
  <1>2. s \in States
    <2>1. /\ <<>> \in Seq(Records) /\ 0 \in 0 .. MaxLate
          /\ Off \in CmdTimers /\ Off \in Timeouts
      BY DEF SequencerAssumption, CmdTimers, Timeouts
    <2> QED BY <2>1 DEF States
  <1>3. /\ s.runMode = "STOPPED" /\ ~s.failed /\ ~s.valid /\ s.pos = 1 /\ s.recs = <<>>
        /\ ~s.again /\ ~s.stray /\ s.reports = 0 /\ s.cmdTimer = Off /\ s.timeout = Off
        /\ ~s.join /\ ~s.block /\ ~s.twice /\ s.open = {}
    OBVIOUS
  <1> HIDE DEF s
  <1>4. BufferOK(s) /\ Undisturbed(s) /\ Answerable(s)
    BY <1>3 DEF BufferOK, Undisturbed, Rests, Answerable
  <1>5. Held(s) BY <1>3 DEF Held
  <1>6. CASE f = Missing
    <2>1. st = s BY <1>1, <1>6 DEF Load
    <2> QED BY <1>2, <1>3, <1>4, <1>5, <2>1 DEF SeqInv, Sound
  <1>7. CASE f # Missing
    <2>1. f \in Files BY <1>7
    <2>2. Sound(st) /\ Unsettled(s, st) BY <1>1, <1>2, <1>3, <1>4, <2>1, LoadSound
    <2> QED BY <1>3, <1>5, <2>2, HeldIsKept DEF SeqInv
  <1> QED BY <1>6, <1>7

LEMMA SequencerSteps == ASSUME SequencerAssumption, SeqInv(st), [SequencerNext]_st PROVE SeqInv(st')
  <1>1. CASE UNCHANGED st BY <1>1
  <1>2. ASSUME NEW d \in Delays, NEW f \in Files, NEW block \in Blocks, NEW id \in Ids,
               CsRun(f, block, id, d)
        PROVE  SeqInv(st')
    BY <1>2, CsRunKeeps
  <1>3. ASSUME NEW d \in Delays, (\E f \in Files : SeqRunIn(f, d)) \/ SeqRunLoaded(d) PROVE SeqInv(st')
    BY <1>3, SeqRunKeeps
  <1>4. ASSUME NEW d \in Delays, CsStart(d) PROVE SeqInv(st') BY <1>4, CsStartKeeps
  <1>5. ASSUME NEW d \in Delays, CsStep(d) PROVE SeqInv(st') BY <1>5, CsStepKeeps
  <1>6. ASSUME NEW d \in Delays, NEW ok \in BOOLEAN, CmdResponseIn(ok, d) \/ LateResponseIn(ok, d)
        PROVE  SeqInv(st')
    BY <1>6, ResponseKeeps
  <1>7. ASSUME NEW f \in Files, CsValidate(f) PROVE SeqInv(st') BY <1>7, ValidateKeeps
  <1>8. ASSUME NEW id \in Ids, CsJoinWait(id) PROVE SeqInv(st') BY <1>8, JoinKeeps
  <1>9. CASE CancelRun BY <1>9, CancelRunKeeps
  <1>10. CASE CsAuto \/ CsManual BY <1>10, ModeKeeps
  <1>11. CASE SchedIn BY <1>11, SchedInKeeps
  <1>12. CASE Tick BY <1>12, TickKeeps
  <1> QED BY <1>1, <1>2, <1>3, <1>4, <1>5, <1>6, <1>7, <1>8, <1>9, <1>10, <1>11, <1>12
          DEF SequencerNext

LEMMA SeqInvKept == ASSUME SequencerAssumption PROVE SequencerSpec => []SeqInv(st)
  <1>1. SequencerInit => SeqInv(st) BY SequencerStarts
  <1>2. SeqInv(st) /\ [SequencerNext]_st => SeqInv(st)' BY SequencerSteps
  <1> QED BY <1>1, <1>2, PTL DEF SequencerSpec

-----------------------------------------------------------------------------
(* A run that nothing disturbs carries out the records of its file one at  *)
(* a time, in order and once each, is reported once, and never reads a     *)
(* record that is not there, for any files, times and answers.             *)
THEOREM RunsInOrder == ASSUME SequencerAssumption PROVE SequencerSpec => []RunInOrder
  <1>1. SeqInv(st) => RunInOrder
    <2> SUFFICES ASSUME SeqInv(st) PROVE RunInOrder OBVIOUS
    <2>1. st \in States /\ Sound(st) /\ BufferOK(st) /\ Undisturbed(st) BY DEF SeqInv, Sound
    <2>2. SequencerTypeOK
      <3>1. \A b \in {"block", "join", "failed", "valid", "again", "stray", "twice",
                       "stale", "disturbed"} : st[b] \in BOOLEAN
        BY <2>1 DEF States
      <3>2. /\ st.runMode \in {"STOPPED", "RUNNING"} /\ st.stepMode \in {"AUTO", "MANUAL"}
            /\ st.held \in Ids \cup {0} /\ st.open \subseteq Ids /\ st.overtaken \subseteq Ids
            /\ st.recs \in Seq(Records) /\ st.rec \in Nat
            /\ st.cmdTimer \in {Off} \cup UNION {0 .. d : d \in Delays}
            /\ st.timeout \in {Off} \cup 0 .. SeqTimeout
            /\ st.flight \in Nat /\ st.late \in 0 .. MaxLate /\ st.sent \in Nat /\ st.reports \in Nat
        BY <2>1 DEF States, CmdTimers, Timeouts
      <3> QED BY <2>1, <3>1, <3>2 DEF SequencerTypeOK, BufferOK
    <2>3. StartsAtTheFirst BY <2>1 DEF StartsAtTheFirst, BufferOK, Stopped
    <2>4. NextRecordSucceeds BY <2>1 DEF NextRecordSucceeds, Sound, Excused
    <2>5. ~st.disturbed => /\ ~st.again /\ ~st.stray
                           /\ st.reports <= 1
                           /\ ~Stopped => st.flight <= 1 /\ st.reports = 0
      BY <2>1 DEF Undisturbed, Waits, Rests, Stopped, States
    <2> QED BY <2>2, <2>3, <2>4, <2>5 DEF RunInOrder, OneAtATime, OncePerRun, ReportedOnce
  <1> QED BY <1>1, SeqInvKept, PTL

(* Whoever waits for the end of a run is known until it ends, however it   *)
(* ends, and is answered then and not again.                               *)
THEOREM OwedAnswered == ASSUME SequencerAssumption PROVE SequencerSpec => []OwedIsAnswered
  <1>1. SeqInv(st) => OwedIsAnswered
    BY DEF SeqInv, Sound, Answerable, Held, OwedIsAnswered, JoinEndsWithRun, OwedIsHeld, AnsweredOnce,
           Stopped, States
  <1> QED BY <1>1, SeqInvKept, PTL
=============================================================================
