----------------------------- MODULE FileDownlink -----------------------------
(* The file downlink component, Svc/FileDownlink.  Commands and a port put *)
(* requests in a queue; the component's thread takes one, sends the packets*)
(* of its file one at a time, each when the buffer of the one before is    *)
(* back, and answers the request.  A buffer that stays away too long ends  *)
(* the file; it may still come back later.                                 *)
(*                                                                         *)
(* A handler runs to its end on the component's thread and is one action;  *)
(* a message in the component's own queue has not arrived yet.  A file is  *)
(* its size; the data of a packet is the offsets that it carries, and the  *)
(* checksum the offsets it was computed over, in their order.              *)
EXTENDS Integers, Sequences, FiniteSets, SequencesExt

CONSTANTS
    Requests,     \* what clients ask for: [offset, length] of a file
    Sizes,        \* the sizes a file may have when it is opened
    MaxData,      \* bytes of file in a data packet
    Word,         \* 2^32: where U32 arithmetic wraps
    Timeout, Cooldown, CycleTime,
    FileQueueDepth,
    CommandFailuresDisabled,   \* FILEDOWNLINK_COMMAND_FAILURES_DISABLED
    MaxRequests   \* bound: requests made

DownlinkAssumption ==
    /\ MaxData \in Nat \ {0} /\ Word \in Nat \ {0}
    /\ Timeout \in Nat /\ Cooldown \in Nat /\ CycleTime \in Nat
    /\ FileQueueDepth \in Nat \ {0} /\ MaxRequests \in Nat
    /\ Requests \subseteq [offset : 0 .. Word - 1, length : 0 .. Word - 1]
    /\ Sizes \subseteq 0 .. Word - 1
    /\ CommandFailuresDisabled \in BOOLEAN

VARIABLES
    mode, fileQueue, curEntry, curTimer, lastCompletedType,
    lastBufferId, \* the context that the next buffer gets
    bufferId,     \* the context of `buffer`, used for all packets of a file but CANCEL
    byteOffset, endOffset, sequenceIndex,
    size, checksum,     \* of the open file
    memoryStore,  \* the packet that each of the two packet memories holds
    out,          \* the buffers sent and not returned
    asked,        \* requests made
    answers,      \* the answers to each
    sent,         \* the packets of the file sent last
    timedOut,     \* requests that ended with DownlinkTimeout
    halted        \* the assertion that ended the process, or "none"

control == <<mode, curTimer, lastCompletedType>>
file    == <<byteOffset, endOffset, sequenceIndex, size, checksum>>
buffers == <<lastBufferId, bufferId, memoryStore, sent>>
requests == <<fileQueue, curEntry, asked, answers>>
vars == <<control, file, buffers, requests, out, timedOut, halted>>

NoEntry == [id |-> 0, offset |-> 0, length |-> 0]
Fail(status) == IF CommandFailuresDisabled THEN "OK" ELSE status

Init ==
    /\ mode = "IDLE" /\ curTimer = 0 /\ lastCompletedType = "NONE"
    /\ byteOffset = 0 /\ endOffset = 0 /\ sequenceIndex = 0 /\ size = 0 /\ checksum = <<>>
    /\ lastBufferId = 0 /\ bufferId = 0 /\ sent = <<>>
    /\ memoryStore = [m \in {"FILE", "CANCEL"} |-> [type |-> "NONE"]]
    /\ fileQueue = <<>> /\ curEntry = NoEntry
    /\ asked = 0 /\ answers = [i \in 1 .. MaxRequests |-> <<>>]
    /\ out = {} /\ timedOut = {} /\ halted = "none"

-----------------------------------------------------------------------------
(* Helpers of the handlers.                                                *)

SendResponse(id, status) == answers' = [answers EXCEPT ![id] = Append(@, status)]

EnterCooldown == mode' = "COOLDOWN" /\ lastCompletedType' = "NONE" /\ curTimer' = 0

(* The component waits for the buffer of the packet it has just sent.      *)
WaitAfter(type) == mode' = "WAIT" /\ lastCompletedType' = type /\ curTimer' = 0

(* bufferSendOut: the packet is written to a memory and leaves with it.    *)
Buffer(id, context, memory, packet) ==
    [id |-> id, context |-> context, memory |-> memory, packet |-> packet]
SendFilePacket(buffer, before, others) ==
    /\ memoryStore' = [memoryStore EXCEPT ![buffer.memory] = buffer.packet]
    /\ sent' = Append(before, buffer.packet)
    /\ out' = others \cup {buffer}

(* Mutants: an end that takes the length as it comes, 0 too; no check for  *)
(* the end of the range; a return known by its mode only.                  *)
MutantEndOffset(entry, s) == (entry.offset + entry.length) % Word
MutantDataSize == MaxData
MutantCurrent(b) == mode # "IDLE"

(* The length that sendFile goes on with, and the end it computes from it. *)
Length(entry, s) == IF (entry.offset + entry.length) % Word > s THEN s - entry.offset ELSE entry.length
EndOffset(entry, s) == IF Length(entry, s) > 0 THEN (entry.offset + Length(entry, s)) % Word ELSE s

-----------------------------------------------------------------------------
(* SendFile and SendPartial, the commands, and SendFile, the port.         *)
Request(r) ==
    /\ asked < MaxRequests
    /\ asked' = asked + 1
    /\ IF Len(fileQueue) < FileQueueDepth
       THEN /\ fileQueue' = Append(fileQueue, [id |-> asked + 1, offset |-> r.offset, length |-> r.length])
            /\ UNCHANGED answers
       ELSE SendResponse(asked + 1, "EXECUTION_ERROR") /\ UNCHANGED fileQueue
    /\ UNCHANGED <<control, file, buffers, curEntry, out, timedOut, halted>>

(* The Cancel command.  No other handler runs while the mode is DOWNLINK.  *)
Cancel ==
    /\ mode = "WAIT" /\ mode' = "CANCEL"
    /\ UNCHANGED <<curTimer, lastCompletedType, file, buffers, requests, out, timedOut, halted>>

-----------------------------------------------------------------------------
(* Run: in IDLE a request is taken and its file opened, which may fail.    *)
TakeRequest ==
    /\ mode = "IDLE" /\ fileQueue # <<>>
    /\ curEntry' = Head(fileQueue) /\ fileQueue' = Tail(fileQueue)
    /\ UNCHANGED <<asked, timedOut, halted>>

(* A mutant: a file that does not open leaves its request unanswered.      *)
MutantOpenFails ==
    /\ TakeRequest
    /\ UNCHANGED <<answers, control, file, buffers, out>>

OpenFails ==
    /\ TakeRequest
    /\ SendResponse(curEntry'.id, Fail("EXECUTION_ERROR"))
    /\ UNCHANGED <<control, file, buffers, out>>

StartsBeyond(s) ==
    /\ TakeRequest /\ curEntry'.offset >= s
    /\ size' = s /\ checksum' = <<>>
    /\ EnterCooldown
    /\ SendResponse(curEntry'.id, Fail("VALIDATION_ERROR"))
    /\ UNCHANGED <<byteOffset, endOffset, sequenceIndex, buffers, out>>

SendStart(s) ==
    /\ TakeRequest /\ curEntry'.offset < s
    /\ size' = s /\ checksum' = <<>>
    /\ bufferId' = lastBufferId /\ lastBufferId' = lastBufferId + 1
    /\ SendFilePacket(Buffer(curEntry'.id, lastBufferId, "FILE", [type |-> "START", seq |-> 0, size |-> s]),
                      <<>>, out)
    /\ WaitAfter("START")
    /\ sequenceIndex' = 1 /\ byteOffset' = curEntry'.offset /\ endOffset' = EndOffset(curEntry', s)
    /\ UNCHANGED answers

RunIdle == OpenFails \/ \E s \in Sizes : StartsBeyond(s) \/ SendStart(s)

RunCooldown ==
    /\ mode = "COOLDOWN"
    /\ IF curTimer >= Cooldown
       THEN curTimer' = 0 /\ mode' = "IDLE"
       ELSE curTimer' = curTimer + CycleTime /\ UNCHANGED mode
    /\ UNCHANGED <<lastCompletedType, file, buffers, requests, out, timedOut, halted>>

RunWait ==
    /\ mode = "WAIT" /\ curTimer < Timeout
    /\ curTimer' = curTimer + CycleTime
    /\ UNCHANGED <<mode, lastCompletedType, file, buffers, requests, out, timedOut, halted>>

(* A mutant: the component keeps waiting for the buffer.                   *)
MutantRunTimeout ==
    /\ mode = "WAIT" /\ curTimer >= Timeout
    /\ curTimer' = 0
    /\ SendResponse(curEntry.id, Fail("EXECUTION_ERROR"))
    /\ timedOut' = timedOut \cup {curEntry.id}
    /\ UNCHANGED <<mode, lastCompletedType, file, buffers, fileQueue, curEntry, asked, out, halted>>

RunTimeout ==
    /\ mode = "WAIT" /\ curTimer >= Timeout
    /\ EnterCooldown
    /\ SendResponse(curEntry.id, Fail("EXECUTION_ERROR"))
    /\ timedOut' = timedOut \cup {curEntry.id}
    /\ UNCHANGED <<file, buffers, fileQueue, curEntry, asked, out, halted>>

Run == RunIdle \/ RunCooldown \/ RunWait \/ RunTimeout

-----------------------------------------------------------------------------
(* bufferReturn of b, which is taken off the buffers that are out.         *)
IgnoredReturn(b) ==
    /\ lastBufferId # b.context + 1 \/ mode = "IDLE"
    /\ out' = out \ {b}
    /\ UNCHANGED <<control, file, buffers, requests, timedOut, halted>>

Current(b) == lastBufferId = b.context + 1 /\ mode # "IDLE"

Halt(assertion, b) ==
    /\ halted' = assertion /\ out' = out \ {b}
    /\ UNCHANGED <<control, file, buffers, requests, timedOut>>

Expected(b) == Current(b) /\ mode \in {"WAIT", "CANCEL"} /\ lastCompletedType # "NONE"

(* The assertions on the mode, and in downlinkPacket on the last packet.   *)
RefusedReturn(b) ==
    /\ Current(b) /\ ~Expected(b)
    /\ Halt(IF mode \in {"WAIT", "CANCEL"} THEN "packet" ELSE "return", b)

FinishFile(b) ==
    /\ Expected(b) /\ lastCompletedType \in {"END", "CANCEL"}
    /\ EnterCooldown
    /\ SendResponse(curEntry.id, "OK")
    /\ out' = out \ {b}
    /\ UNCHANGED <<file, buffers, fileQueue, curEntry, asked, timedOut, halted>>

(* downlinkPacket, by what was sent last and whether there was a cancel.   *)
SendCancel(b) ==
    /\ Expected(b) /\ mode = "CANCEL" /\ lastCompletedType = "START"
    /\ SendFilePacket(Buffer(curEntry.id, lastBufferId, "CANCEL", [type |-> "CANCEL", seq |-> sequenceIndex]),
                      sent, out \ {b})
    /\ lastBufferId' = lastBufferId + 1
    /\ WaitAfter("CANCEL")
    /\ UNCHANGED <<file, bufferId, requests, timedOut, halted>>

NextData(b) == Expected(b) /\ mode = "WAIT" /\ lastCompletedType = "START"

EmptyRange(b) == NextData(b) /\ ~(byteOffset < endOffset) /\ Halt("range", b)

DataSize == IF (byteOffset + MaxData) % Word > endOffset THEN endOffset - byteOffset ELSE MaxData

(* What is read: the file may have become shorter, or the read may fail.   *)
ShortRead(b) == NextData(b) /\ byteOffset < endOffset /\ Halt("read", b)

ReadFails(b) ==
    /\ NextData(b) /\ byteOffset < endOffset
    /\ EnterCooldown
    /\ SendResponse(curEntry.id, Fail("EXECUTION_ERROR"))
    /\ out' = out \ {b}
    /\ UNCHANGED <<file, buffers, fileQueue, curEntry, asked, timedOut, halted>>

SendData(b) ==
    /\ NextData(b) /\ byteOffset < endOffset
    /\ LET data == [i \in 1 .. DataSize |-> byteOffset + i - 1]
       IN  /\ checksum' = checksum \o data
           /\ SendFilePacket(Buffer(curEntry.id, bufferId, "FILE",
                                    [type |-> "DATA", seq |-> sequenceIndex, data |-> data]),
                             sent, out \ {b})
    /\ sequenceIndex' = sequenceIndex + 1 /\ byteOffset' = (byteOffset + DataSize) % Word
    /\ WaitAfter(IF (DataSize + byteOffset) % Word = endOffset THEN "DATA" ELSE "START")
    /\ UNCHANGED <<endOffset, size, lastBufferId, bufferId, requests, timedOut, halted>>

SendEnd(b) ==
    /\ Expected(b) /\ lastCompletedType = "DATA"
    /\ SendFilePacket(Buffer(curEntry.id, bufferId, "FILE",
                             [type |-> "END", seq |-> sequenceIndex, checksum |-> checksum]),
                      sent, out \ {b})
    /\ WaitAfter("END")
    /\ UNCHANGED <<file, lastBufferId, bufferId, requests, timedOut, halted>>

BufferReturn(b) ==
    \/ IgnoredReturn(b) \/ RefusedReturn(b) \/ FinishFile(b) \/ SendCancel(b)
    \/ EmptyRange(b) \/ ShortRead(b) \/ ReadFails(b) \/ SendData(b) \/ SendEnd(b)

(* A buffer that never comes back.                                         *)
LoseBuffer(b) == out' = out \ {b} /\ UNCHANGED <<control, file, buffers, requests, timedOut, halted>>

Next ==
    /\ halted = "none"
    /\ \/ \E r \in Requests : Request(r)
       \/ Cancel \/ Run
       \/ \E b \in out : BufferReturn(b) \/ LoseBuffer(b)

Spec == Init /\ [][Next]_vars

(* The rate group calls Run again and again, and a buffer that is not lost *)
(* is returned.                                                            *)
Fairness == /\ WF_vars(halted = "none" /\ Run)
            /\ WF_vars(halted = "none" /\ \E b \in out : BufferReturn(b))
FairSpec == Spec /\ Fairness

-----------------------------------------------------------------------------
Types   == {"NONE", "START", "DATA", "END", "CANCEL"}
Entries == [id : 1 .. MaxRequests, offset : 0 .. Word - 1, length : 0 .. Word - 1]

TypeOK ==
    /\ mode \in {"IDLE", "CANCEL", "WAIT", "COOLDOWN"} /\ curTimer \in Nat
    /\ lastCompletedType \in Types
    /\ byteOffset \in Nat /\ endOffset \in Nat /\ sequenceIndex \in Nat /\ size \in Nat
    /\ checksum \in Seq(Nat)
    /\ lastBufferId \in Nat /\ bufferId \in Nat
    /\ fileQueue \in Seq(Entries) /\ Len(fileQueue) <= FileQueueDepth
    /\ curEntry \in Entries \cup {NoEntry}
    /\ asked \in 0 .. MaxRequests
    /\ answers \in [1 .. MaxRequests -> Seq({"OK", "EXECUTION_ERROR", "VALIDATION_ERROR"})]
    /\ timedOut \subseteq 1 .. MaxRequests
    /\ halted \in {"none", "return", "packet", "range", "read"}

(* Every request gets one answer and no second one, whatever becomes of    *)
(* its file: it is owed exactly while the request is in the queue or the   *)
(* component waits for a buffer of its file (FileDownlink.cpp:324).        *)
InWork == {fileQueue[i].id : i \in DOMAIN fileQueue} \cup
          IF mode \in {"WAIT", "CANCEL"} THEN {curEntry.id} ELSE {}
OneAnswerEach ==
    \A id \in 1 .. MaxRequests :
        Len(answers[id]) = IF id \in 1 .. asked /\ id \notin InWork THEN 1 ELSE 0

(* The packets of a file are a START, the bytes asked for one after the    *)
(* other, numbered, and an END with the checksum of all of them, or any    *)
(* part of that from the START on with a CANCEL after it (SendPartial:     *)
(* length 0 reads until the end of the file, FileDownlink.cpp:338).        *)
Wanted(entry) == LET stop == IF entry.length = 0 \/ entry.offset + entry.length > size
                             THEN size ELSE entry.offset + entry.length
                 IN  [i \in 1 .. stop - entry.offset |-> entry.offset + i - 1]
DataSent == FlattenSeq([i \in DOMAIN sent |-> IF sent[i].type = "DATA" THEN sent[i].data ELSE <<>>])
PacketsAreTheFile ==
    /\ TypeOK
    /\ mode \in {"WAIT", "CANCEL"} =>
         /\ sent[1] = [type |-> "START", seq |-> 0, size |-> size]
         /\ \A i \in 2 .. Len(sent) : sent[i].seq = i - 1
                                   /\ sent[i].type # "DATA" => i = Len(sent) /\ sent[i].type \in {"END", "CANCEL"}
         /\ IsPrefix(DataSent, Wanted(curEntry))
         /\ Last(sent).type = "END" => DataSent = Wanted(curEntry) /\ Last(sent).checksum = DataSent

(* A packet that is out is not overwritten before it is back, unless its   *)
(* request has timed out: both memories are used again for the next packet *)
(* (FileDownlink.cpp:557).                                                 *)
InFlightIntact ==
    \A b \in out : b.id \in timedOut \/ memoryStore[b.memory] = b.packet

(* The assertions of the component fail in three cases only: a buffer that *)
(* comes back in the cooldown of the file that timed out on it, a range    *)
(* whose end does not fit 32 bits, and a file that became shorter.         *)
AssertionsHold ==
    \/ halted \in {"none", "read"}
    \/ halted = "return" /\ timedOut # {} /\ mode = "COOLDOWN"
    \/ halted = "range" /\ curEntry.offset + curEntry.length >= Word

(* A buffer that timed out is ignored when it comes back: "If this is a    *)
(* stale buffer (old, timed-out, or both), then ignore its return"         *)
(* (FileDownlink.cpp:196).                                                 *)
StaleIsIgnored ==
    [][\A b \in out \ out' : b.id \in timedOut => UNCHANGED <<control, file, requests, halted>>]_vars

(* Every request is answered in the end - there is a time again and again  *)
(* when all that were made are - unless the process ends, or a buffer is   *)
(* lost after its file was cancelled: only WAIT has a timer                *)
(* (FileDownlink.cpp:132).                                                 *)
Stranded == mode = "CANCEL" /\ ~\E b \in out : Current(b)
RequestIsAnswered ==
    []<>((\A id \in 1 .. asked : answers[id] # <<>>) \/ halted # "none" \/ Stranded)
=============================================================================
