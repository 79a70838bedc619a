---------------------------- MODULE CmdDispatcher ----------------------------
(***************************************************************************)
(* Svc::CommandDispatcherImpl: an active component whose thread takes one  *)
(* message at a time off its queue.  A command buffer is looked up in      *)
(* m_entryTable, tracked in m_sequenceTracker under a sequence number and  *)
(* sent to the component that registered its opcode; the status that comes *)
(* back, in any order, is matched by that number and passed to the source. *)
(* FW_ASSERT ends the program; `halted' is the assertion that failed.      *)
(***************************************************************************)
EXTENDS Naturals, Sequences, FiniteSets

CONSTANTS
    SeqPorts,      \* seqCmdBuff ports: the sources of commands
    StatusPorts,   \* those whose seqCmdStatus port is connected
    CompPorts,     \* compCmdSend ports that are connected
    Registrations, \* the [op, port] pairs that components register
    Opcodes,       \* opcodes that sources send, registered or not
    OwnOps,        \* the dispatcher's own commands: CMD_NO_OP, ..., and
    ClearOp,       \* CMD_CLEAR_TRACKING
    Malformed,     \* a buffer that does not deserialize to a command
    Contexts,      \* the sources' context values
    Responses,     \* what components respond: "OK", "FAIL"
    EntryTableSize, TrackerSize,  \* CMD_DISPATCHER_..._TABLE_SIZE
    QueueDepth,    \* depth of the component's message queue
    SeqMod,        \* 2^32, where m_seq wraps
    MaxSubmits,    \* bound: command buffers in the life of the program
    Faults         \* of components: "drop" a status, "repeat" a status

Refusals == {"VALIDATION_ERROR", "EXECUTION_ERROR", "INVALID_OPCODE"}

ASSUME DispatcherAssumption ==
    /\ StatusPorts \subseteq SeqPorts
    /\ \A reg \in Registrations : reg = [op |-> reg.op, port |-> reg.port] /\ reg.op # Malformed
    /\ OwnOps \subseteq Opcodes /\ ClearOp \in OwnOps /\ Malformed \notin Opcodes
    /\ "OK" \in Responses /\ Responses \cap Refusals = {}
    /\ EntryTableSize \in Nat \ {0} /\ TrackerSize \in Nat \ {0} /\ QueueDepth \in Nat \ {0}
    /\ SeqMod \in Nat /\ MaxSubmits \in Nat /\ MaxSubmits < SeqMod
    /\ Faults \subseteq {"drop", "repeat"}

VARIABLES
    entryTable,  \* m_entryTable: the used entries, in slot order
    tracker,     \* m_sequenceTracker: per slot, Unused or [seq, req]
    mSeq,        \* m_seq
    queue,       \* the message queue
    current,     \* the message the thread is handling, or Nothing
    executing,   \* commands that components have been sent
    halted,      \* "no", or the assertion that failed
    submitted,   \* command buffers submitted so far
    outcome,     \* history: what became of each of them
    answer,      \* the last call of seqCmdStatus_out
    lost         \* history: commands that components dropped

tables == <<entryTable, tracker, mSeq>>
vars == <<tables, queue, current, executing, halted, submitted, outcome, answer, lost>>

Unused  == [kind |-> "unused"]
Nothing == [kind |-> "nothing"]
Slots   == 1 .. TrackerSize

Requests  == [id : 1 .. MaxSubmits, port : SeqPorts, op : Opcodes \cup {Malformed},
              context : Contexts]

(* A sent command and its status carry the number of the request they stem *)
(* from; only the properties look at it.                                   *)
Sent(r)    == [kind |-> "cmd", op |-> r.op, seq |-> mSeq, id |-> r.id]
Stat(x, p) == [kind |-> "stat", op |-> x.op, seq |-> x.seq, id |-> x.id, response |-> p]

Status(r, p) == [port |-> r.port, op |-> r.op, context |-> r.context, response |-> p]
NoAnswer     == [port |-> "none"]

Init ==
    /\ entryTable = <<>>
    /\ tracker = [k \in Slots |-> Unused]
    /\ mSeq = 0
    /\ queue = <<>> /\ current = Nothing
    /\ executing = {}
    /\ halted = "no"
    /\ submitted = 0
    /\ outcome = [i \in 1 .. MaxSubmits |-> {}]
    /\ answer = NoAnswer
    /\ lost = {}

(* Operators named Mutant... are no part of the specification: each is a   *)
(* plausible slip in the definition after it, for the mutated runs.        *)

(* The queue takes one message more than it has room for.                  *)
(* Sending to the component's own queue asserts when the queue is full.    *)
Enqueue(m) ==
    IF Len(queue) < QueueDepth
    THEN queue' = Append(queue, m) /\ UNCHANGED halted
    ELSE halted' = "queue full" /\ UNCHANGED queue

-----------------------------------------------------------------------------
(* compCmdReg_handler, called by the component behind `reg.port'.          *)
Registered(op) == \E i \in DOMAIN entryTable : entryTable[i].op = op

Register(reg) ==
    /\ halted = "no"
    /\ ~ \E i \in DOMAIN entryTable : entryTable[i] = reg
    /\ \/ /\ Registered(reg.op)
          /\ halted' = "duplicate opcode" /\ UNCHANGED entryTable
       \/ /\ ~Registered(reg.op) /\ Len(entryTable) < EntryTableSize
          /\ entryTable' = Append(entryTable, reg) /\ UNCHANGED halted
       \/ /\ ~Registered(reg.op) /\ Len(entryTable) = EntryTableSize
          /\ halted' = "entry table full" /\ UNCHANGED entryTable
    /\ UNCHANGED <<tracker, mSeq, queue, current, executing, submitted, outcome, answer, lost>>

(* A source sends a command buffer.                                        *)
Submit(port, op, context) ==
    /\ halted = "no" /\ submitted < MaxSubmits
    /\ Enqueue([kind |-> "buff", req |-> [id |-> submitted + 1, port |-> port, op |-> op,
                                          context |-> context]])
    /\ submitted' = IF Len(queue) < QueueDepth THEN submitted + 1 ELSE submitted
    /\ UNCHANGED <<tables, current, executing, outcome, answer, lost>>

(* A component ends a command, from its own thread.                        *)
Respond(x, resp) ==
    /\ halted = "no" /\ x \in executing
    /\ Enqueue(Stat(x, resp))
    /\ outcome' = [outcome EXCEPT ![x.id] = @ \cup {resp}]
    /\ \/ executing' = executing \ {x}
       \/ "repeat" \in Faults /\ UNCHANGED executing
    /\ UNCHANGED <<tables, current, submitted, answer, lost>>

Drop(x) ==
    /\ halted = "no" /\ "drop" \in Faults /\ x \in executing
    /\ executing' = executing \ {x} /\ lost' = lost \cup {x.id}
    /\ UNCHANGED <<tables, queue, current, halted, submitted, outcome, answer>>

-----------------------------------------------------------------------------
(* The component's thread takes a message; other threads may fill the      *)
(* queue again before it is done with it.                                  *)
Take ==
    /\ halted = "no" /\ current = Nothing /\ queue # <<>>
    /\ current' = Head(queue) /\ queue' = Tail(queue)
    /\ UNCHANGED <<tables, executing, halted, submitted, outcome, answer, lost>>

Handling(kind) ==
    /\ halted = "no" /\ current.kind = kind
    /\ current' = Nothing
    /\ UNCHANGED <<entryTable, submitted, lost>>

(* The sequence number is not advanced.                                    *)
MutantBump(n) == n

Bump(n) == (n + 1) % SeqMod

(* The error returns of seqCmdBuff_handler.                                *)
Refuse(r, resp) ==
    /\ outcome' = [outcome EXCEPT ![r.id] = {resp}]
    /\ answer' = IF r.port \in StatusPorts THEN Status(r, resp) ELSE answer
    /\ UNCHANGED <<tracker, queue, executing, halted>>

Deliverable(op) == \E i \in DOMAIN entryTable :
    entryTable[i].op = op /\ entryTable[i].port \in CompPorts

FreeSlots  == {k \in Slots : tracker[k] = Unused}
FirstFree  == CHOOSE k \in FreeSlots : \A j \in FreeSlots : k <= j

BuffMalformed ==
    /\ Handling("buff") /\ current.req.op = Malformed
    /\ Refuse(current.req, "VALIDATION_ERROR")
    /\ UNCHANGED mSeq

BuffUnknown ==
    /\ Handling("buff") /\ current.req.op # Malformed /\ ~Deliverable(current.req.op)
    /\ Refuse(current.req, "INVALID_OPCODE")
    /\ mSeq' = Bump(mSeq)

(* The status is reported but the handler goes on to send the command.     *)
MutantBuffUntrackable ==
    /\ Handling("buff") /\ Deliverable(current.req.op)
    /\ current.req.port \in StatusPorts /\ FreeSlots = {}
    /\ outcome' = [outcome EXCEPT ![current.req.id] = {"EXECUTION_ERROR"}]
    /\ answer' = Status(current.req, "EXECUTION_ERROR")
    /\ executing' = executing \cup {Sent(current.req)}
    /\ mSeq' = Bump(mSeq)
    /\ UNCHANGED <<tracker, queue, halted>>

BuffUntrackable ==
    /\ Handling("buff") /\ Deliverable(current.req.op)
    /\ current.req.port \in StatusPorts /\ FreeSlots = {}
    /\ Refuse(current.req, "EXECUTION_ERROR")
    /\ UNCHANGED mSeq

(* compCmdSend_out: a component gets the command on its own queue, and the *)
(* dispatcher itself is one of the components.                             *)
SendOut(x) ==
    IF x.op \in OwnOps THEN Enqueue(x) /\ UNCHANGED executing
    ELSE executing' = executing \cup {x} /\ UNCHANGED <<queue, halted>>

BuffDispatch ==
    /\ Handling("buff") /\ Deliverable(current.req.op)
    /\ LET r == current.req IN
       /\ \/ /\ r.port \in StatusPorts /\ FreeSlots # {}
             /\ tracker' = [tracker EXCEPT ![FirstFree] =
                               [kind |-> "used", seq |-> mSeq, req |-> r]]
          \/ r.port \notin StatusPorts /\ UNCHANGED tracker
       /\ SendOut(Sent(r))
    /\ mSeq' = Bump(mSeq)
    /\ UNCHANGED <<outcome, answer>>

(* compCmdStat_handler.                                                    *)
Matches(k, m) == tracker[k].kind = "used" /\ tracker[k].seq = m.seq

(* The slot stays in use after its command was answered.                   *)
MutantStatTracked ==
    /\ Handling("stat")
    /\ \E k \in Slots :
        /\ Matches(k, current)
        /\ answer' = Status(tracker[k].req, current.response)
    /\ UNCHANGED <<tracker, mSeq, queue, executing, halted, outcome>>

StatTracked ==
    /\ Handling("stat")
    /\ \E k \in Slots :
        /\ Matches(k, current) /\ \A j \in 1 .. k - 1 : ~Matches(j, current)
        /\ IF tracker[k].req.op = current.op
           THEN /\ tracker' = [tracker EXCEPT ![k] = Unused]
                /\ answer' = Status(tracker[k].req, current.response)
                /\ UNCHANGED halted
           ELSE halted' = "opcode mismatch" /\ UNCHANGED <<tracker, answer>>
    /\ UNCHANGED <<mSeq, queue, executing, outcome>>

StatUntracked ==
    /\ Handling("stat")
    /\ \A k \in Slots : ~Matches(k, current)
    /\ UNCHANGED <<tracker, mSeq, queue, executing, halted, outcome, answer>>

(* CMD_NO_OP... and CMD_CLEAR_TRACKING, whose response is queued like any  *)
(* component's.                                                            *)
OwnCommand ==
    /\ Handling("cmd")
    /\ tracker' = IF current.op = ClearOp THEN [k \in Slots |-> Unused] ELSE tracker
    /\ Enqueue(Stat(current, "OK"))
    /\ outcome' = [outcome EXCEPT ![current.id] = @ \cup {"OK"}]
    /\ UNCHANGED <<mSeq, executing, answer>>

Thread ==
    \/ Take
    \/ BuffMalformed \/ BuffUnknown \/ BuffUntrackable \/ BuffDispatch
    \/ StatTracked \/ StatUntracked \/ OwnCommand

Next ==
    \/ Thread
    \/ \E reg \in Registrations : Register(reg)
    \/ \E p \in SeqPorts, op \in Opcodes \cup {Malformed}, x \in Contexts : Submit(p, op, x)
    \/ \E x \in executing : (\E resp \in Responses : Respond(x, resp)) \/ Drop(x)

Spec == Init /\ [][Next]_vars

(* The thread runs as long as it has messages, and components finish what  *)
(* they were sent unless they drop it; sources and registrations are under *)
(* no obligation.                                                          *)
Fairness ==
    /\ WF_vars(Thread)
    /\ \A i \in 1 .. MaxSubmits :
         WF_vars(\E x \in {y \in executing : y.id = i}, resp \in Responses : Respond(x, resp))

FairSpec == Spec /\ Fairness

-----------------------------------------------------------------------------
Sends    == [kind : {"cmd"}, op : Opcodes, seq : 0 .. SeqMod - 1, id : 1 .. MaxSubmits]
Statuses == [kind : {"stat"}, op : Opcodes, seq : 0 .. SeqMod - 1, id : 1 .. MaxSubmits,
             response : Responses]
Messages == [kind : {"buff"}, req : Requests] \cup Sends \cup Statuses
Entries  == [kind : {"used"}, seq : 0 .. SeqMod - 1, req : Requests]

TypeOK ==
    /\ entryTable \in Seq(Registrations) /\ Len(entryTable) <= EntryTableSize
    /\ tracker \in [Slots -> Entries \cup {Unused}]
    /\ mSeq \in 0 .. SeqMod - 1
    /\ queue \in Seq(Messages) /\ Len(queue) <= QueueDepth
    /\ current \in Messages \cup {Nothing}
    /\ executing \subseteq Sends
    /\ halted \in {"no", "queue full", "duplicate opcode", "entry table full",
                   "opcode mismatch"}
    /\ submitted \in 0 .. MaxSubmits
    /\ outcome \in [1 .. MaxSubmits -> SUBSET (Responses \cup Refusals)]
    /\ answer \in [port : SeqPorts, op : Opcodes \cup {Malformed}, context : Contexts,
                   response : Responses \cup Refusals] \cup {NoAnswer}
    /\ lost \subseteq 1 .. MaxSubmits

Pending == {queue[i] : i \in DOMAIN queue} \cup {current}
Used    == {k \in Slots : tracker[k] # Unused}

(* The assertion of compCmdStat_handler never fails: a status is matched   *)
(* with the very command it answers, however statuses are reordered,       *)
(* repeated or overtaken by a cleared table.                               *)
StatusFindsItsCommand ==
    /\ halted # "opcode mismatch"
    /\ \A k \in Used : \A m \in {m \in Pending : m.kind = "stat"} :
          Matches(k, m) => tracker[k].req.id = m.id

(* No tracker slot leaks: a used slot has its command still under way or   *)
(* dropped by its component, so that the table is full only when as many   *)
(* commands are.                                                           *)
NoSlotLeaks == halted = "no" =>
    \A k \in Used :
        \/ tracker[k].req.id \in lost
        \/ \E m \in executing \cup {m \in Pending : m.kind \in {"cmd", "stat"}} :
              m.id = tracker[k].req.id

(* The tables hold what they are for: registrations within their limit,    *)
(* and in the tracker the commands that are still under way.               *)
TablesAreKept == TypeOK /\ NoSlotLeaks

(* The abstract service: `open' are the commands of connected sources that *)
(* are queued, being looked up, or tracked.                                *)
Open ==
    {m.req : m \in {m \in Pending : m.kind = "buff" /\ m.req.port \in StatusPorts}}
        \cup {tracker[k].req : k \in Used}

Service == INSTANCE CommandService
    WITH Ids <- 1 .. MaxSubmits, count <- submitted, open <- Open
ServiceSpec == Service!Spec

(* A command of a connected source is answered or forgotten in the end,    *)
(* unless its component drops it.                                          *)
EveryCommandEnds ==
    \A i \in 1 .. MaxSubmits :
        (\E r \in Open : r.id = i)
            ~> (halted # "no" \/ i \in lost \/ \A r \in Open : r.id # i)
=============================================================================
