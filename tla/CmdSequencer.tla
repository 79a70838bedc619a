---------------------------- MODULE CmdSequencer ----------------------------
(***************************************************************************)
(* Svc/CmdSequencer: loads a file of command records and dispatches them   *)
(* one after the other, waiting for the response to each, for the time in  *)
(* its record, or for CS_STEP.  The component's thread runs one handler at *)
(* a time, so a handler is one action; several helpers run inside one      *)
(* handler, so each is an operator from a state of the component to the    *)
(* state it leaves.  Commands that are refused change nothing and are left *)
(* out, as are events, telemetry and pings.                                *)
(***************************************************************************)
EXTENDS Integers, Sequences, FiniteSets

CONSTANTS
    Files,       \* what loadFile may meet, see SequencerAssumption
    Missing,     \* ... a file that cannot be opened
    Ops,         \* the operations that the environment uses
    Blocks,      \* the block arguments of CS_RUN in use: TRUE is BLOCK
    Delays,      \* ticks until a record's time, at the moment it is read
    SeqTimeout,  \* m_timeout in ticks, 0: none
    Ids,         \* the commands that await an answer (opcode and cmdSeq)
    MaxLate      \* bound: responses outstanding from runs that are over, 0:
                 \* a command whose run is over never responds

Operations == {"CS_RUN", "CS_VALIDATE", "seqRunIn", "CANCEL", "CS_START", "CS_STEP",
               "CS_AUTO", "CS_MANUAL", "CS_JOIN_WAIT"}

Records == {"cmd", "end", "bad"}

(* A file loads or leaves in the buffer what was read before the error:    *)
(* records, of which reading the "bad" ones fails, and the next one to be  *)
(* read, 1 but for an error in a record.                                   *)
SequencerAssumption ==
    /\ \A f \in Files \ {Missing} :
          f.ok \in BOOLEAN /\ f.recs \in Seq(Records) /\ f.pos \in 1 .. Len(f.recs) + 1
    /\ \A f \in Files \ {Missing} : f.ok => f.pos = 1 /\ \A i \in DOMAIN f.recs : f.recs[i] # "bad"
    /\ Ops \subseteq Operations /\ Blocks \subseteq BOOLEAN
    /\ Delays \subseteq Nat /\ SeqTimeout \in Nat /\ MaxLate \in Nat
    /\ Ids \subseteq Nat \ {0}

(* The members of the component, and after "valid" what its users see.     *)
VARIABLE st
    (* runMode, stepMode : m_runMode, m_stepMode                           *)
    (* block, join       : m_blockState = BLOCK, m_join_waiting            *)
    (* held              : m_opCode and m_cmdSeq                           *)
    (* recs, pos, rec    : the buffer, its read position, m_record         *)
    (* cmdTimer, timeout : ticks left on the two timers, or Off            *)
    (* failed            : an FW_ASSERT ended the process                  *)
    (* valid             : the buffer passed its checks                    *)
    (* flight, late      : commands awaiting a response, of the last run   *)
    (*                     and of earlier ones                             *)
    (* sent              : the last record of the run that was dispatched  *)
    (* again, stray      : a record was dispatched twice; with no run      *)
    (* reports           : seqDone calls since the run started             *)
    (* open, twice       : commands not answered; one was answered twice   *)
    (* overtaken         : commands that were not answered when a later    *)
    (*                     CS_JOIN_WAIT, CS_RUN or CS_START came          *)
    (* stale             : block is left over from a load that failed      *)
    (* disturbed         : CS_STEP in automatic mode, while a command is   *)
    (*                     awaited or past the end, or a late response,    *)
    (*                     acted on the run or on one whose timer is on    *)

Off == -1
CapLate(n) == IF n < MaxLate THEN n ELSE MaxLate

-----------------------------------------------------------------------------
(* m_buffer.                                                               *)
HasMore(s) == s.pos <= Len(s.recs)
Cleared(s) == [s EXCEPT !.recs = <<>>, !.pos = 1, !.valid = FALSE]
Reset(s)   == [s EXCEPT !.pos = 1]

Load(s, f) ==
    IF f = Missing THEN s
    ELSE [s EXCEPT !.recs = f.recs, !.pos = f.pos, !.valid = f.ok]

Loads(f) == f # Missing /\ f.ok

(* cmdResponse_out to the command in m_opCode and m_cmdSeq.                *)
Answer(s) == [s EXCEPT !.open  = @ \ {s.held},
                       !.twice = @ \/ (s.held \notin s.open /\ ~s.stale)]

MutantAnswerIfWaiting(s) == IF s.join THEN Answer(s) ELSE s

AnswerIfWaiting(s) == IF s.block \/ s.join THEN Answer(s) ELSE s

(* m_runMode = STOPPED and sequenceComplete: no timer is stopped.          *)
Complete(s) ==
    LET t == Cleared([s EXCEPT !.runMode = "STOPPED", !.reports = @ + 1])
    IN  [AnswerIfWaiting(t) EXCEPT !.join = FALSE, !.block = FALSE, !.stale = FALSE]

(* performCmd_Cancel.                                                      *)
PerformCancel(s) ==
    LET t == Reset([s EXCEPT !.runMode = "STOPPED", !.reports = @ + 1,
                             !.cmdTimer = Off, !.timeout = Off])
    IN  [AnswerIfWaiting(t) EXCEPT !.join = FALSE, !.block = FALSE, !.stale = FALSE]

SetTimeout(s) ==
    IF SeqTimeout > 0 /\ s.stepMode = "AUTO" THEN [s EXCEPT !.timeout = SeqTimeout] ELSE s

(* comCmdOut of m_record, with the timeout timer.                          *)
Dispatch(s) ==
    SetTimeout([s EXCEPT !.flight = @ + 1,
                         !.again = @ \/ (s.runMode = "RUNNING" /\ s.rec <= s.sent),
                         !.stray = @ \/ s.runMode = "STOPPED",
                         !.sent  = s.rec])

(* performCmd_Step; the time of the record it reads is d ticks away.  The  *)
(* command in m_record outlives the reading of an END_OF_SEQUENCE.         *)
Step(s, d) ==
    LET next == [s EXCEPT !.pos = @ + 1]
        read == [next EXCEPT !.rec = s.pos]
    IN  IF ~HasMore(s) \/ s.recs[s.pos] = "bad" THEN [s EXCEPT !.failed = TRUE]
        ELSE IF s.recs[s.pos] = "end" THEN Complete(next)
        ELSE IF d = 0 THEN Dispatch(read)
        ELSE [read EXCEPT !.cmdTimer = d]

(* m_runMode = RUNNING and the first record.                               *)
StartRun(s, d) ==
    Step([s EXCEPT !.runMode = "RUNNING", !.late = CapLate(s.late + s.flight),
                   !.flight = 0, !.sent = 0, !.reports = 0, !.again = FALSE, !.stray = FALSE,
                   !.disturbed = s.cmdTimer # Off \/ s.timeout # Off], d)

StartIfAuto(s, d) == IF s.stepMode = "AUTO" THEN StartRun(s, d) ELSE s

-----------------------------------------------------------------------------
(* loadSequence may have been called before the component's thread runs.   *)
SequencerInit ==
    \E f \in {g \in Files : Loads(g)} \cup {Missing} :
        st = Load([runMode |-> "STOPPED", stepMode |-> "AUTO",
                   block |-> FALSE, join |-> FALSE, held |-> 0,
                   recs |-> <<>>, pos |-> 1, rec |-> 0,
                   cmdTimer |-> Off, timeout |-> Off,
                   failed |-> FALSE, valid |-> FALSE,
                   flight |-> 0, late |-> 0, sent |-> 0,
                   again |-> FALSE, stray |-> FALSE,
                   reports |-> 0, open |-> {}, twice |-> FALSE,
                   overtaken |-> {}, stale |-> FALSE, disturbed |-> FALSE], f)

Handler(op) == op \in Ops /\ ~st.failed
Stopped == st.runMode = "STOPPED"
NewIds  == Ids \ (st.open \cup {st.held})

(* CS_RUN_cmdHandler.  A run with BLOCK that ends within the handler, at a *)
(* first record that is END_OF_SEQUENCE, is answered by sequenceComplete,  *)
(* which also sets NO_BLOCK, and then here once more.                      *)
CsRun(f, block, id, d) ==
    /\ Handler("CS_RUN") /\ Stopped /\ id \in NewIds
    /\ LET taken == [st EXCEPT !.block = block, !.held = id, !.open = @ \cup {id},
                                 !.stale = block /\ ~Loads(f), !.overtaken = st.open]
           run   == StartIfAuto(Load(taken, f), d)
       IN  st' = IF ~Loads(f) THEN Answer(Load(taken, f))
                 ELSE IF run.failed \/ run.block THEN run
                 ELSE [Answer([run EXCEPT !.stale = block]) EXCEPT !.stale = FALSE]

(* CS_VALIDATE_cmdHandler.                                                 *)
CsValidate(f) ==
    /\ Handler("CS_VALIDATE") /\ Stopped
    /\ st' = IF Loads(f) THEN Cleared(Load(st, f)) ELSE Load(st, f)

(* seqRunIn_handler, with a file and with the empty file name.             *)
SeqRunIn(f, d) ==
    /\ Handler("seqRunIn") /\ Stopped
    /\ st' = IF Loads(f) THEN StartIfAuto(Load(st, f), d) ELSE Load(st, f)

SeqRunLoaded(d) ==
    /\ Handler("seqRunIn") /\ Stopped /\ HasMore(st)
    /\ st' = StartIfAuto(st, d)

(* seqCancelIn_handler and CS_CANCEL_cmdHandler.                           *)
CancelRun ==
    /\ Handler("CANCEL") /\ ~Stopped
    /\ st' = PerformCancel(st)

(* CS_JOIN_WAIT_cmdHandler takes over m_opCode and m_cmdSeq.               *)
CsJoinWait(id) ==
    /\ Handler("CS_JOIN_WAIT") /\ ~Stopped /\ id \in NewIds
    /\ st' = [st EXCEPT !.join = TRUE, !.held = id, !.open = @ \cup {id},
                        !.overtaken = st.open]

(* CS_START_cmdHandler, in either step mode.                               *)
CsStart(d) ==
    /\ Handler("CS_START") /\ HasMore(st) /\ Stopped
    /\ st' = StartRun([st EXCEPT !.block = FALSE, !.stale = FALSE, !.overtaken = st.open], d)

(* CS_STEP_cmdHandler, in either step mode.                                *)
CsStep(d) ==
    /\ Handler("CS_STEP") /\ ~Stopped
    /\ LET misplaced == \/ st.stepMode = "AUTO" \/ ~HasMore(st)
                        \/ st.cmdTimer # Off \/ st.flight > 0
       IN  st' = Step([st EXCEPT !.disturbed = @ \/ misplaced], d)

CsAuto ==
    /\ Handler("CS_AUTO") /\ Stopped
    /\ st' = [st EXCEPT !.stepMode = "AUTO"]

CsManual ==
    /\ Handler("CS_MANUAL") /\ Stopped
    /\ st' = [st EXCEPT !.stepMode = "MANUAL"]

(* cmdResponseIn_handler: neither the opcode nor the sequence number is    *)
(* looked at, so that of an earlier run counts as well.                    *)
Responded(s, ok, d) ==
    LET t == [s EXCEPT !.timeout = Off]
    IN  IF s.runMode = "STOPPED" THEN s
        ELSE IF ~ok THEN PerformCancel(t)
        ELSE IF ~HasMore(s) THEN Complete(t)
        ELSE IF s.stepMode = "AUTO" THEN Step(t, d)
        ELSE t

CmdResponseIn(ok, d) ==
    /\ ~st.failed /\ st.flight > 0
    /\ st' = Responded([st EXCEPT !.flight = @ - 1], ok, d)

LateResponseIn(ok, d) ==
    /\ ~st.failed /\ st.late > 0
    /\ st' = Responded([st EXCEPT !.late = @ - 1, !.disturbed = @ \/ ~Stopped], ok, d)

MutantSchedInAgain ==
    /\ ~st.failed
    /\ \/ /\ st.cmdTimer = 0
          /\ st' = Dispatch(st)
       \/ /\ st.cmdTimer # 0 /\ st.timeout = 0
          /\ st' = PerformCancel(st)

MutantSchedIn ==
    /\ ~st.failed
    /\ st.cmdTimer = 0
    /\ st' = Dispatch([st EXCEPT !.cmdTimer = Off])

(* schedIn_handler: nothing to do unless a timer has expired.              *)
SchedIn ==
    /\ ~st.failed
    /\ \/ /\ st.cmdTimer = 0
          /\ st' = Dispatch([st EXCEPT !.cmdTimer = Off])
       \/ /\ st.cmdTimer # 0 /\ st.timeout = 0
          /\ st' = PerformCancel(st)

(* Time passes; what matters of it is when a timer expires.                *)
Elapse(t) == IF t > 0 THEN t - 1 ELSE t

Tick ==
    /\ ~st.failed /\ (st.cmdTimer > 0 \/ st.timeout > 0)
    /\ st' = [st EXCEPT !.cmdTimer = Elapse(@), !.timeout = Elapse(@)]

SequencerNext ==
    \/ \E d \in Delays :
         \/ \E f \in Files :
              \/ \E block \in Blocks, id \in Ids : CsRun(f, block, id, d)
              \/ SeqRunIn(f, d)
         \/ SeqRunLoaded(d) \/ CsStart(d) \/ CsStep(d)
         \/ \E ok \in BOOLEAN : CmdResponseIn(ok, d) \/ LateResponseIn(ok, d)
    \/ \E f \in Files : CsValidate(f)
    \/ \E id \in Ids : CsJoinWait(id)
    \/ CancelRun \/ CsAuto \/ CsManual \/ SchedIn \/ Tick

SequencerSpec == SequencerInit /\ [][SequencerNext]_st

(* Time goes on and the rate group keeps calling schedIn; no command has   *)
(* to respond.                                                             *)
SequencerFairness == WF_st(SchedIn) /\ WF_st(Tick)
SequencerFairSpec == SequencerSpec /\ SequencerFairness

-----------------------------------------------------------------------------
SequencerTypeOK ==
    /\ st.runMode \in {"STOPPED", "RUNNING"} /\ st.stepMode \in {"AUTO", "MANUAL"}
    /\ st.held \in Ids \cup {0} /\ st.open \subseteq Ids /\ st.overtaken \subseteq Ids
    /\ st.recs \in Seq(Records) /\ st.pos \in 1 .. Len(st.recs) + 1 /\ st.rec \in Nat
    /\ st.cmdTimer \in {Off} \cup UNION {0 .. d : d \in Delays} /\ st.timeout \in {Off} \cup 0 .. SeqTimeout
    /\ st.flight \in Nat /\ st.late \in 0 .. MaxLate /\ st.sent \in Nat /\ st.reports \in Nat
    /\ \A b \in {"block", "join", "failed", "valid", "again", "stray", "twice",
                "stale", "disturbed"} : st[b] \in BOOLEAN

(* With a timeout, every automatic run ends: it always has a timer that    *)
(* will move it on, even if no command responds and whatever arrives late. *)
AutoEnds == (~Stopped /\ st.stepMode = "AUTO") ~> (Stopped \/ st.failed)

(* The assertion of nextRecord fails only in a run that is disturbed, of a *)
(* file that failed its checks, or of one without records.                 *)
NextRecordSucceeds == st.failed => st.disturbed \/ ~st.valid \/ st.recs = <<>>

(* Whatever was run, stepped, cancelled or refused before, the valid       *)
(* sequence in the buffer of a stopped sequencer starts at its first       *)
(* record.                                                                 *)
StartsAtTheFirst == Stopped /\ st.valid => st.pos = 1

(* "If the command status is successful, the next command in the sequence  *)
(* is executed" (docs/sdd.md:75): an automatic run that is not disturbed   *)
(* waits for a command's response before it dispatches the next.           *)
OneAtATime == (st.stepMode = "AUTO" /\ ~Stopped /\ ~st.disturbed) => st.flight <= 1

(* The commands of a run that is not disturbed are dispatched once each,   *)
(* and only during it.                                                     *)
OncePerRun == ~st.disturbed => ~st.again /\ ~st.stray

(* A run that is not disturbed is reported on seqDone once, when it ends.  *)
ReportedOnce == ~st.disturbed => st.reports <= 1 /\ (~Stopped => st.reports = 0)

(* Together: a run that is not disturbed goes through its records in order *)
(* and is reported when it has.                                            *)
RunInOrder ==
    SequencerTypeOK /\ StartsAtTheFirst /\ NextRecordSucceeds /\ OneAtATime /\ OncePerRun
        /\ ReportedOnce

(* A wait for the end of a sequence never outlives the sequence, however   *)
(* it ends.                                                                *)
JoinEndsWithRun == st.join => ~Stopped

(* "Return command status when complete" (Commands.fppi:6): the sequencer  *)
(* still knows every command that it owes an answer to, but for those that *)
(* a later CS_JOIN_WAIT replaced or, in manual mode, CS_RUN or CS_START.   *)
OwedIsHeld ==
    ~st.failed => \A id \in st.open \ st.overtaken : id = st.held /\ (st.block \/ st.join)

(* ... and answers none of them twice, unless a CS_RUN with BLOCK whose    *)
(* file did not load was the last to set the block mode, or it is a CS_RUN *)
(* with BLOCK of a sequence without a command, which always is.            *)
AnsweredOnce == ~st.twice

(* Together: whoever waits for the end of a sequence is answered once,     *)
(* when it ends.                                                           *)
OwedIsAnswered == JoinEndsWithRun /\ OwedIsHeld /\ AnsweredOnce

(* "Shall validate the sequence files with a CRC" (docs/sdd.md:15,         *)
(* ISF-CMDS-002): what runs has passed its checks.                         *)
RunsValidated == ~Stopped => st.valid
=============================================================================
