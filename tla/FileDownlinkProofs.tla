-------------------------- MODULE FileDownlinkProofs --------------------------
(* The safety properties of FileDownlink, for any files and requests, any  *)
(* depth of the queue, any timing and any number of requests.              *)
EXTENDS FileDownlink, SequenceTheorems, DataLemmas, TLAPS

Busy == mode \in {"WAIT", "CANCEL"}

(* Requests are taken in the order in which they were made, and the one in *)
(* work is none of those in the queue.                                     *)
QueueInOrder ==
    /\ \A i \in DOMAIN fileQueue : fileQueue[i].id \in 1 .. asked
    /\ \A i, j \in DOMAIN fileQueue : i < j => fileQueue[i].id < fileQueue[j].id
    /\ Busy => curEntry.id \in 1 .. asked /\ \A i \in DOMAIN fileQueue : fileQueue[i].id # curEntry.id

TimedOutIsOver == \A id \in timedOut : id \in 1 .. asked /\ id \notin InWork

(* A buffer whose request timed out has an old context as soon as another  *)
(* file is sent; at most one buffer is out whose request did not, and it   *)
(* is of the file in work.                                                 *)
ContextsTell ==
    /\ Busy => bufferId < lastBufferId
    /\ \A b \in out :
          /\ b.memory \in {"FILE", "CANCEL"} /\ b.context \in 0 .. lastBufferId - 1
          /\ IF b.id \in timedOut THEN Busy => b.context + 1 < lastBufferId
             ELSE Busy /\ b.id = curEntry.id

OneInFlight ==
    \A b, other \in out : b.id \notin timedOut /\ other.id \notin timedOut => b = other

MemoryIsKept == memoryStore = [m \in {"FILE", "CANCEL"} |-> memoryStore[m]]

(* While data is to be sent there is some left, unless the range asked for *)
(* does not fit the word.                                                  *)
DataIsLeft == Busy =>
    /\ lastCompletedType # "NONE" /\ endOffset <= Word - MaxData
    /\ lastCompletedType = "START" =>
          byteOffset < endOffset \/ curEntry.offset + curEntry.length >= Word

-----------------------------------------------------------------------------
(* Remainders, as the prover needs them.                                   *)
LEMMA Remainder ==
    ASSUME NEW a \in Nat, NEW w \in Nat \ {0}
    PROVE  a % w \in 0 .. w - 1 /\ (a < w => a % w = a)
  OBVIOUS

(* The end of the range lies in the file.                                  *)
LEMMA EndInFile ==
    ASSUME DownlinkAssumption, NEW entry \in Entries, NEW s \in Sizes, entry.offset < s
    PROVE  /\ EndOffset(entry, s) \in 0 .. s
           /\ entry.offset < EndOffset(entry, s) \/ entry.offset + entry.length >= Word
<1>. DEFINE total == entry.offset + entry.length
<1>1. /\ entry.offset \in 0 .. Word - 1 /\ entry.length \in 0 .. Word - 1
      /\ s \in 0 .. Word - 1 /\ Word \in Nat \ {0}
  BY DEF DownlinkAssumption, Entries
<1>a. total \in Nat
  BY <1>1
<1>. HIDE DEF total
<1>2. total % Word \in 0 .. Word - 1 /\ (total < Word => total % Word = total)
  BY <1>1, <1>a, Remainder
<1>3. CASE total % Word > s
  <2>1. Length(entry, s) = s - entry.offset
    BY <1>3 DEF Length, total
  <2>2. Length(entry, s) > 0 /\ entry.offset + Length(entry, s) = s
    BY <1>1, <2>1
  <2>b. s \in Nat /\ s < Word
    BY <1>1
  <2>3. s % Word = s
    BY <1>1, <2>b, Remainder
  <2>4. EndOffset(entry, s) = s
    BY <2>2, <2>3 DEF EndOffset
  <2>. QED
    BY <1>1, <2>4
<1>4. CASE ~(total % Word > s)
  <2>1. Length(entry, s) = entry.length
    BY <1>4 DEF Length, total
  <2>2. EndOffset(entry, s) = IF entry.length > 0 THEN total % Word ELSE s
    BY <2>1 DEF EndOffset, total
  <2>3. entry.offset < total % Word \/ total >= Word \/ entry.length = 0
    BY <1>1, <1>a, <1>2 DEF total
  <2>. QED
    BY <1>1, <1>2, <1>4, <2>2, <2>3 DEF total
<1>. QED
  BY <1>3, <1>4

(* What a data packet carries is a part of the range.                      *)
LEMMA DataSizeType ==
    ASSUME DownlinkAssumption, byteOffset \in Nat, endOffset \in Nat, byteOffset < endOffset
    PROVE  DataSize \in Nat
  BY DEF DownlinkAssumption, DataSize

-----------------------------------------------------------------------------
(* The helpers keep their types.                                           *)
Statuses == {"OK", "EXECUTION_ERROR", "VALIDATION_ERROR"}

LEMMA FailType == ASSUME NEW status \in Statuses PROVE Fail(status) \in Statuses
  BY DEF Fail, Statuses

LEMMA ResponseType ==
    ASSUME TypeOK, NEW id \in 1 .. MaxRequests, NEW status \in Statuses, SendResponse(id, status)
    PROVE  answers' \in [1 .. MaxRequests -> Seq(Statuses)]
  BY DEF TypeOK, SendResponse, Statuses

LEMMA TakenType ==
    ASSUME DownlinkAssumption, TypeOK, TakeRequest
    PROVE  /\ curEntry' \in Entries /\ curEntry'.id \in 1 .. MaxRequests
           /\ fileQueue' \in Seq(Entries) /\ Len(fileQueue') <= FileQueueDepth
           /\ UNCHANGED <<asked, timedOut, halted>>
<1>1. fileQueue \in Seq(Entries) /\ fileQueue # <<>> /\ Len(fileQueue) <= FileQueueDepth
  BY DEF TypeOK, TakeRequest
<1>2. /\ Head(fileQueue) \in Entries /\ Tail(fileQueue) \in Seq(Entries)
      /\ Len(Tail(fileQueue)) = Len(fileQueue) - 1
  BY <1>1
<1>3. Len(fileQueue') <= FileQueueDepth
  BY <1>1, <1>2 DEF TakeRequest, DownlinkAssumption
<1>. QED
  BY <1>2, <1>3 DEF TakeRequest, Entries

(* Type correctness of the steps that are no part of a file.               *)
LEMMA TypeInit == ASSUME DownlinkAssumption PROVE Init => TypeOK
<1>. SUFFICES ASSUME Init PROVE TypeOK
  OBVIOUS
<1>. USE DEF Init
<1>1. /\ checksum \in Seq(Nat) /\ fileQueue \in Seq(Entries) /\ Len(fileQueue) <= FileQueueDepth
      /\ answers \in [1 .. MaxRequests -> Seq(Statuses)] /\ asked \in 0 .. MaxRequests
  BY DEF DownlinkAssumption
<1>2. /\ mode \in {"IDLE", "CANCEL", "WAIT", "COOLDOWN"} /\ lastCompletedType \in Types
      /\ halted \in {"none", "return", "packet", "range", "read"}
      /\ timedOut \subseteq 1 .. MaxRequests /\ curEntry \in Entries \cup {NoEntry}
  BY DEF Types
<1>. QED
  BY <1>1, <1>2 DEF TypeOK, Statuses

LEMMA RequestType ==
    ASSUME DownlinkAssumption, TypeOK, NEW r \in Requests, Request(r) PROVE TypeOK'
<1>1. asked + 1 \in 1 .. MaxRequests /\ asked' \in 0 .. MaxRequests
  BY DEF Request, TypeOK, DownlinkAssumption
<1>2. r.offset \in 0 .. Word - 1 /\ r.length \in 0 .. Word - 1
  BY DEF DownlinkAssumption
<1>3. /\ fileQueue' \in Seq(Entries) /\ Len(fileQueue') <= FileQueueDepth
      /\ answers' \in [1 .. MaxRequests -> Seq(Statuses)]
  <2>1. CASE Len(fileQueue) < FileQueueDepth
    <3>. DEFINE e == [id |-> asked + 1, offset |-> r.offset, length |-> r.length]
    <3>1. e \in Entries
      BY <1>1, <1>2 DEF Entries
    <3>2. fileQueue' = Append(fileQueue, e) /\ answers' = answers
      BY <2>1 DEF Request
    <3>. HIDE DEF e
    <3>. QED
      BY <2>1, <3>1, <3>2 DEF TypeOK, DownlinkAssumption, Statuses
  <2>2. CASE ~(Len(fileQueue) < FileQueueDepth)
    <3>1. SendResponse(asked + 1, "EXECUTION_ERROR") /\ fileQueue' = fileQueue
      BY <2>2 DEF Request
    <3>. QED
      BY <1>1, <3>1, ResponseType DEF TypeOK, Statuses
  <2>. QED
    BY <2>1, <2>2
<1>. QED
  BY <1>1, <1>3 DEF Request, TypeOK, control, file, buffers, Statuses

LEMMA RunType == ASSUME DownlinkAssumption, TypeOK, QueueInOrder, Run PROVE TypeOK'
<1>. USE DEF DownlinkAssumption
<1>1. CASE OpenFails
  <2>1. answers' \in [1 .. MaxRequests -> Seq(Statuses)]
    BY <1>1, TakenType, ResponseType, FailType DEF OpenFails, Statuses
  <2>. QED
    BY <1>1, <2>1, TakenType DEF OpenFails, TypeOK, control, file, buffers, Statuses
<1>2. ASSUME NEW s \in Sizes, StartsBeyond(s) PROVE TypeOK'
  <2>1. answers' \in [1 .. MaxRequests -> Seq(Statuses)]
    BY <1>2, TakenType, ResponseType, FailType DEF StartsBeyond, Statuses
  <2>2. s \in Nat
    OBVIOUS
  <2>3. checksum' \in Seq(Nat)
    BY <1>2 DEF StartsBeyond
  <2>. QED
    BY <1>2, <2>1, <2>2, <2>3, TakenType
    DEF StartsBeyond, EnterCooldown, TypeOK, Types, buffers, Statuses
<1>3. ASSUME NEW s \in Sizes, SendStart(s) PROVE TypeOK'
  <2>1. /\ curEntry' \in Entries /\ curEntry'.offset < s /\ curEntry'.offset \in Nat /\ s \in Nat
    BY <1>3, TakenType DEF SendStart, Entries
  <2>2. EndOffset(curEntry', s) \in Nat
    BY <2>1, EndInFile
  <2>3. /\ mode' = "WAIT" /\ curTimer' = 0 /\ lastCompletedType' \in Types
        /\ size' = s /\ bufferId' = lastBufferId /\ lastBufferId' = lastBufferId + 1
        /\ sequenceIndex' = 1 /\ byteOffset' = curEntry'.offset /\ endOffset' = EndOffset(curEntry', s)
        /\ answers' = answers
    BY <1>3 DEF SendStart, WaitAfter, Types
  <2>4. checksum' \in Seq(Nat)
    BY <1>3 DEF SendStart
  <2>5. /\ fileQueue' \in Seq(Entries) /\ Len(fileQueue') <= FileQueueDepth
        /\ UNCHANGED <<asked, timedOut, halted>>
    BY <1>3, TakenType DEF SendStart
  <2>. QED
    BY <2>1, <2>2, <2>3, <2>4, <2>5 DEF TypeOK
<1>4. CASE RunCooldown
  BY <1>4 DEF RunCooldown, TypeOK, file, buffers, requests
<1>5. CASE RunWait
  BY <1>5 DEF RunWait, TypeOK, file, buffers, requests
<1>6. CASE RunTimeout
  <2>1. curEntry.id \in 1 .. MaxRequests
    BY <1>6 DEF RunTimeout, Busy, QueueInOrder, TypeOK
  <2>2. answers' \in [1 .. MaxRequests -> Seq(Statuses)]
    BY <1>6, <2>1, ResponseType, FailType DEF RunTimeout, Statuses
  <2>. QED
    BY <1>6, <2>1, <2>2 DEF RunTimeout, EnterCooldown, TypeOK, Types, file, buffers, Statuses
<1>. QED
  BY <1>1, <1>2, <1>3, <1>4, <1>5, <1>6 DEF Run, RunIdle

(* Type correctness of the steps of a file.                                *)
LEMMA AnswerType ==
    ASSUME DownlinkAssumption, TypeOK, QueueInOrder, Busy, NEW status \in Statuses, SendResponse(curEntry.id, status)
    PROVE  answers' \in [1 .. MaxRequests -> Seq(Statuses)]
<1>1. curEntry.id \in 1 .. MaxRequests
  BY DEF QueueInOrder, TypeOK, DownlinkAssumption
<1>. QED
  BY <1>1, ResponseType

LEMMA DataType ==
    ASSUME DownlinkAssumption, TypeOK, NEW b \in out, SendData(b)
    PROVE  checksum' \in Seq(Nat) /\ byteOffset' \in Nat
<1>. DEFINE data == [i \in 1 .. DataSize |-> byteOffset + i - 1]
<1>1. byteOffset \in Nat /\ endOffset \in Nat /\ byteOffset < endOffset /\ Word \in Nat \ {0}
  BY DEF TypeOK, SendData, DownlinkAssumption
<1>2. DataSize \in Nat
  BY <1>1, DataSizeType
<1>3. data \in Seq(Nat)
  BY <1>1, <1>2
<1>4. checksum' = checksum \o data /\ byteOffset' = (byteOffset + DataSize) % Word
  BY DEF SendData
<1>5. byteOffset + DataSize \in Nat
  BY <1>1, <1>2
<1>. HIDE DEF data
<1>6. checksum' \in Seq(Nat)
  BY <1>3, <1>4 DEF TypeOK
<1>7. (byteOffset + DataSize) % Word \in Nat
  BY <1>1, <1>5, Remainder
<1>. QED
  BY <1>4, <1>6, <1>7

LEMMA ReturnType ==
    ASSUME DownlinkAssumption, TypeOK, QueueInOrder, NEW b \in out, BufferReturn(b)
    PROVE  TypeOK'
<1>1. CASE IgnoredReturn(b) \/ RefusedReturn(b) \/ EmptyRange(b) \/ ShortRead(b)
  BY <1>1 DEF IgnoredReturn, RefusedReturn, EmptyRange, ShortRead, Halt, TypeOK, control, file,
              buffers, requests
<1>2. CASE FinishFile(b) \/ ReadFails(b)
  <2>1. Busy
    BY <1>2 DEF FinishFile, ReadFails, NextData, Expected, Busy
  <2>2. answers' \in [1 .. MaxRequests -> Seq(Statuses)]
    BY <1>2, <2>1, AnswerType, FailType DEF FinishFile, ReadFails, Statuses
  <2>3. /\ mode' = "COOLDOWN" /\ curTimer' = 0 /\ lastCompletedType' = "NONE"
        /\ UNCHANGED <<file, buffers, fileQueue, curEntry, asked, timedOut, halted>>
    BY <1>2 DEF FinishFile, ReadFails, EnterCooldown
  <2>. QED
    BY <2>2, <2>3 DEF TypeOK, Types, file, buffers, Statuses
<1>3. CASE SendCancel(b)
  BY <1>3 DEF SendCancel, SendFilePacket, WaitAfter, TypeOK, Types, file, requests
<1>4. CASE SendData(b)
  <2>1. /\ mode' = "WAIT" /\ curTimer' = 0 /\ lastCompletedType' \in Types
        /\ sequenceIndex' = sequenceIndex + 1
        /\ UNCHANGED <<endOffset, size, lastBufferId, bufferId, requests, timedOut, halted>>
    BY <1>4 DEF SendData, WaitAfter, Types
  <2>. QED
    BY <1>4, <2>1, DataType DEF TypeOK, requests
<1>5. CASE SendEnd(b)
  BY <1>5 DEF SendEnd, SendFilePacket, WaitAfter, TypeOK, Types, file, requests
<1>. QED
  BY <1>1, <1>2, <1>3, <1>4, <1>5 DEF BufferReturn

LEMMA TypeStep ==
    ASSUME DownlinkAssumption PROVE TypeOK /\ QueueInOrder /\ [Next]_vars => TypeOK'
<1>. SUFFICES ASSUME TypeOK, QueueInOrder, [Next]_vars PROVE TypeOK'
  OBVIOUS
<1>1. CASE Cancel
  BY <1>1 DEF Cancel, TypeOK, file, buffers, requests
<1>2. ASSUME NEW b \in out, LoseBuffer(b) PROVE TypeOK'
  BY <1>2 DEF LoseBuffer, TypeOK, control, file, buffers, requests
<1>3. CASE UNCHANGED vars
  BY <1>3 DEF vars, TypeOK, control, file, buffers, requests
<1>. QED
  BY <1>1, <1>2, <1>3, RequestType, RunType, ReturnType DEF Next

-----------------------------------------------------------------------------
(* The account of requests.  A step either leaves it alone, or it takes a  *)
(* request in, moves one from the queue to work, or answers one.           *)
Accounts == QueueInOrder /\ OneAnswerEach /\ TimedOutIsOver

QueueIds == {fileQueue[i].id : i \in DOMAIN fileQueue}

LEMMA InWorkCases ==
    /\ Busy => InWork = QueueIds \cup {curEntry.id}
    /\ ~Busy => InWork = QueueIds
  BY DEF InWork, QueueIds, Busy

LEMMA QuietAccounts ==
    ASSUME Accounts, UNCHANGED <<fileQueue, curEntry, asked, answers, timedOut>>, Busy' <=> Busy
    PROVE  Accounts'
<1>1. InWork' = InWork
  BY DEF InWork, Busy
<1>. QED
  BY <1>1 DEF Accounts, QueueInOrder, OneAnswerEach, TimedOutIsOver

(* One answer more, to a request that had none.                            *)
LEMMA AnswerCount ==
    ASSUME TypeOK, NEW id \in 1 .. MaxRequests, NEW status \in Statuses, SendResponse(id, status),
           Len(answers[id]) = 0
    PROVE  \A i \in 1 .. MaxRequests : Len(answers'[i]) = IF i = id THEN 1 ELSE Len(answers[i])
<1>1. answers \in [1 .. MaxRequests -> Seq(Statuses)]
  BY DEF TypeOK, Statuses
<1>2. Len(Append(answers[id], status)) = 1
  BY <1>1
<1>. QED
  BY <1>1, <1>2 DEF SendResponse

LEMMA AnsweredAccounts ==
    ASSUME DownlinkAssumption, TypeOK, Accounts, Busy, ~Busy',
           NEW status \in Statuses, SendResponse(curEntry.id, status),
           UNCHANGED <<fileQueue, asked>>, timedOut' \subseteq timedOut \cup {curEntry.id}
    PROVE  Accounts'
<1>1. curEntry.id \in 1 .. asked /\ curEntry.id \in 1 .. MaxRequests /\ curEntry.id \notin QueueIds
  BY DEF Accounts, QueueInOrder, QueueIds, TypeOK, DownlinkAssumption
<1>2. InWork = QueueIds \cup {curEntry.id} /\ InWork' = QueueIds
  BY DEF InWork, QueueIds, Busy
<1>3. Len(answers[curEntry.id]) = 0
  BY <1>1, <1>2 DEF Accounts, OneAnswerEach
<1>4. OneAnswerEach'
  BY <1>1, <1>2, <1>3, AnswerCount DEF Accounts, OneAnswerEach
<1>5. QueueInOrder'
  BY DEF Accounts, QueueInOrder
<1>6. TimedOutIsOver'
  BY <1>1, <1>2 DEF Accounts, TimedOutIsOver
<1>. QED
  BY <1>4, <1>5, <1>6 DEF Accounts

(* The head of the queue, and what is left without it.                     *)
LEMMA TakenAccounts ==
    ASSUME DownlinkAssumption, TypeOK, Accounts, TakeRequest
    PROVE  /\ ~Busy /\ InWork = QueueIds
           /\ curEntry'.id \in 1 .. asked /\ curEntry'.id \in 1 .. MaxRequests
           /\ QueueIds = QueueIds' \cup {curEntry'.id}
           /\ \A i \in DOMAIN fileQueue' : fileQueue'[i].id # curEntry'.id
           /\ QueueInOrder'
<1>1. /\ fileQueue \in Seq(Entries) /\ fileQueue # <<>>
      /\ fileQueue' = Tail(fileQueue) /\ curEntry' = Head(fileQueue) /\ asked' = asked
  BY DEF TypeOK, TakeRequest
<1>2. /\ DOMAIN fileQueue = 1 .. Len(fileQueue) /\ Len(fileQueue) \in Nat \ {0}
      /\ DOMAIN fileQueue' = 1 .. Len(fileQueue) - 1
      /\ \A i \in 1 .. Len(fileQueue) - 1 : fileQueue'[i] = fileQueue[i + 1]
      /\ curEntry' = fileQueue[1]
  BY <1>1
<1>3. \A i \in 1 .. Len(fileQueue) - 1 : i + 1 \in DOMAIN fileQueue /\ 1 < i + 1
  BY <1>2
<1>4. \A i \in DOMAIN fileQueue' : curEntry'.id < fileQueue'[i].id
  BY <1>2, <1>3 DEF Accounts, QueueInOrder
<1>5. \A i \in DOMAIN fileQueue : fileQueue[i].id \in 1 .. asked
  BY DEF Accounts, QueueInOrder
<1>6. asked \in 0 .. MaxRequests /\ MaxRequests \in Nat
  BY DEF TypeOK, DownlinkAssumption
<1>7. curEntry'.id \in 1 .. asked
  BY <1>2, <1>5
<1>8. \A i \in DOMAIN fileQueue' : fileQueue'[i].id \in 1 .. asked
  BY <1>2, <1>3, <1>5
<1>9. \A i \in DOMAIN fileQueue' : fileQueue'[i].id # curEntry'.id
  BY <1>4, <1>6, <1>7, <1>8
<1>10. \A i, j \in DOMAIN fileQueue' : i < j => fileQueue'[i].id < fileQueue'[j].id
  <2>1. \A i, j \in 1 .. Len(fileQueue) - 1 : i < j => i + 1 < j + 1
    BY <1>2
  <2>. QED
    BY <1>2, <1>3, <2>1 DEF Accounts, QueueInOrder
<1>11. QueueIds = QueueIds' \cup {curEntry'.id}
  <2>1. ASSUME NEW i \in DOMAIN fileQueue, i # 1
        PROVE  i - 1 \in DOMAIN fileQueue' /\ fileQueue[i] = fileQueue'[i - 1]
    <3>1. i - 1 \in 1 .. Len(fileQueue) - 1 /\ (i - 1) + 1 = i
      BY <1>2, <2>1
    <3>2. fileQueue'[i - 1] = fileQueue[(i - 1) + 1]
      BY <1>2, <3>1
    <3>. QED
      BY <1>2, <3>1, <3>2
  <2>2. \A i \in DOMAIN fileQueue' : i + 1 \in DOMAIN fileQueue /\ fileQueue'[i] = fileQueue[i + 1]
    BY <1>2
  <2>3. 1 \in DOMAIN fileQueue
    BY <1>2
  <2>4. ASSUME NEW i \in DOMAIN fileQueue PROVE fileQueue[i].id \in QueueIds' \cup {curEntry'.id}
    <3>1. CASE i = 1
      BY <1>2, <3>1
    <3>2. CASE i # 1
      <4>1. i - 1 \in DOMAIN fileQueue' /\ fileQueue[i] = fileQueue'[i - 1]
        BY <2>1, <3>2
      <4>. QED
        BY <4>1 DEF QueueIds
    <3>. QED
      BY <3>1, <3>2
  <2>5. QueueIds' \subseteq QueueIds
    BY <2>2 DEF QueueIds
  <2>6. curEntry'.id \in QueueIds
    BY <1>2, <2>3 DEF QueueIds
  <2>7. QueueIds \subseteq QueueIds' \cup {curEntry'.id}
    BY <2>4 DEF QueueIds
  <2>. QED
    BY <2>5, <2>6, <2>7
<1>12. ~Busy /\ InWork = QueueIds
  BY DEF TakeRequest, Busy, InWork, QueueIds
<1>. QED
  BY <1>1, <1>6, <1>7, <1>8, <1>9, <1>10, <1>11, <1>12 DEF QueueInOrder

LEMMA RequestAccounts ==
    ASSUME DownlinkAssumption, TypeOK, Accounts, NEW r \in Requests, Request(r)
    PROVE  Accounts'
<1>. DEFINE n == asked + 1
<1>1. /\ n \in 1 .. MaxRequests /\ asked \in 0 .. MaxRequests /\ n \notin 1 .. asked /\ asked' = n
      /\ \A i \in 1 .. MaxRequests : i \in 1 .. n <=> i \in 1 .. asked \/ i = n
      /\ 1 .. asked \subseteq 1 .. n
  BY DEF Request, TypeOK, DownlinkAssumption
<1>2. UNCHANGED <<curEntry, timedOut>> /\ Busy' = Busy
  BY DEF Request, Busy, control
<1>3. QueueIds \subseteq 1 .. asked /\ InWork \subseteq 1 .. asked
  BY InWorkCases DEF Accounts, QueueInOrder, QueueIds
<1>4. Len(answers[n]) = 0
  BY <1>1 DEF Accounts, OneAnswerEach
<1>5. CASE Len(fileQueue) < FileQueueDepth
  <2>. DEFINE e == [id |-> n, offset |-> r.offset, length |-> r.length]
  <2>1. fileQueue' = Append(fileQueue, e) /\ e.id = n /\ answers' = answers
    BY <1>5 DEF Request
  <2>2. /\ DOMAIN fileQueue = 1 .. Len(fileQueue) /\ Len(fileQueue) \in Nat
        /\ DOMAIN fileQueue' = 1 .. Len(fileQueue) + 1
        /\ \A i \in 1 .. Len(fileQueue) : fileQueue'[i] = fileQueue[i]
        /\ fileQueue'[Len(fileQueue) + 1].id = n
    BY <2>1 DEF TypeOK
  <2>. HIDE DEF e
  <2>3. \A i \in DOMAIN fileQueue' : i \in DOMAIN fileQueue \/ i = Len(fileQueue) + 1
    BY <2>2
  <2>4. QueueIds' = QueueIds \cup {n}
    <3>1. QueueIds' \subseteq QueueIds \cup {n}
      BY <2>2, <2>3 DEF QueueIds
    <3>2. QueueIds \subseteq QueueIds'
      <4>1. \A i \in DOMAIN fileQueue : i \in DOMAIN fileQueue' /\ fileQueue'[i] = fileQueue[i]
        BY <2>2
      <4>. QED
        BY <4>1 DEF QueueIds
    <3>3. Len(fileQueue) + 1 \in DOMAIN fileQueue'
      BY <2>2
    <3>4. n \in QueueIds'
      BY <2>2, <3>3 DEF QueueIds
    <3>. QED
      BY <3>1, <3>2, <3>4
  <2>5. InWork' = InWork \cup {n}
    BY <1>2, <2>4 DEF InWork, QueueIds, Busy
  <2>6. OneAnswerEach'
    BY <1>1, <1>3, <1>4, <2>1, <2>5 DEF Accounts, OneAnswerEach
  <2>7. TimedOutIsOver'
    BY <1>1, <1>2, <2>5 DEF Accounts, TimedOutIsOver
  <2>8. \A i \in DOMAIN fileQueue' : fileQueue'[i].id \in 1 .. n
    BY <1>1, <2>2, <2>3 DEF Accounts, QueueInOrder
  <2>9. \A i, j \in DOMAIN fileQueue' : i < j => fileQueue'[i].id < fileQueue'[j].id
    <3>1. \A i \in DOMAIN fileQueue : fileQueue[i].id \in 1 .. asked /\ fileQueue[i].id < n
      BY <1>1 DEF Accounts, QueueInOrder
    <3>2. ASSUME NEW i \in DOMAIN fileQueue', NEW j \in DOMAIN fileQueue', i < j
          PROVE  fileQueue'[i].id < fileQueue'[j].id
      <4>1. i \in DOMAIN fileQueue
        BY <2>2, <3>2
      <4>2. CASE j \in DOMAIN fileQueue
        BY <2>2, <3>2, <4>1, <4>2 DEF Accounts, QueueInOrder
      <4>3. CASE j = Len(fileQueue) + 1
        BY <2>2, <3>1, <4>1, <4>3
      <4>. QED
        BY <2>3, <4>2, <4>3
    <3>. QED
      BY <3>2
  <2>10. Busy' => /\ curEntry'.id \in 1 .. n
                  /\ \A i \in DOMAIN fileQueue' : fileQueue'[i].id # curEntry'.id
    BY <1>1, <1>2, <2>2, <2>3 DEF Accounts, QueueInOrder
  <2>. QED
    BY <1>1, <2>6, <2>7, <2>8, <2>9, <2>10 DEF Accounts, QueueInOrder
<1>6. CASE ~(Len(fileQueue) < FileQueueDepth)
  <2>1. SendResponse(n, "EXECUTION_ERROR") /\ fileQueue' = fileQueue
    BY <1>6 DEF Request
  <2>2. \A i \in 1 .. MaxRequests : Len(answers'[i]) = IF i = n THEN 1 ELSE Len(answers[i])
    BY <1>1, <1>4, <2>1, AnswerCount DEF Statuses
  <2>3. InWork' = InWork
    BY <1>2, <2>1 DEF InWork, Busy
  <2>4. OneAnswerEach'
    BY <1>1, <1>3, <2>2, <2>3 DEF Accounts, OneAnswerEach
  <2>5. TimedOutIsOver'
    BY <1>1, <1>2, <2>3 DEF Accounts, TimedOutIsOver
  <2>6. QueueInOrder'
    BY <1>1, <1>2, <2>1 DEF Accounts, QueueInOrder
  <2>. QED
    BY <2>4, <2>5, <2>6 DEF Accounts
<1>. QED
  BY <1>5, <1>6

LEMMA RunIdleAccounts ==
    ASSUME DownlinkAssumption, TypeOK, Accounts, RunIdle
    PROVE  Accounts'
<1>1. CASE TakeRequest /\ ~Busy' /\ \E status \in Statuses : SendResponse(curEntry'.id, status)
  <2>1. PICK status \in Statuses : SendResponse(curEntry'.id, status)
    BY <1>1
  <2>2. InWork' = QueueIds' /\ curEntry'.id \notin QueueIds'
    BY <1>1, TakenAccounts DEF InWork, QueueIds, Busy
  <2>3. Len(answers[curEntry'.id]) = 0
    BY <1>1, TakenAccounts DEF Accounts, OneAnswerEach
  <2>4. \A i \in 1 .. MaxRequests : Len(answers'[i]) = IF i = curEntry'.id THEN 1 ELSE Len(answers[i])
    BY <1>1, <2>1, <2>3, AnswerCount, TakenAccounts
  <2>5. UNCHANGED <<asked, timedOut>>
    BY <1>1 DEF TakeRequest
  <2>6. OneAnswerEach'
    BY <1>1, <2>2, <2>4, <2>5, TakenAccounts DEF Accounts, OneAnswerEach
  <2>7. TimedOutIsOver'
    BY <1>1, <2>2, <2>5, TakenAccounts DEF Accounts, TimedOutIsOver
  <2>. QED
    BY <1>1, <2>6, <2>7, TakenAccounts DEF Accounts
<1>2. CASE TakeRequest /\ Busy' /\ answers' = answers
  <2>1. InWork' = QueueIds' \cup {curEntry'.id}
    BY <1>2 DEF InWork, QueueIds, Busy
  <2>2. InWork' = InWork
    BY <1>2, <2>1, TakenAccounts
  <2>3. UNCHANGED <<asked, timedOut>>
    BY <1>2 DEF TakeRequest
  <2>. QED
    BY <1>2, <2>2, <2>3, TakenAccounts DEF Accounts, OneAnswerEach, TimedOutIsOver
<1>3. OpenFails => TakeRequest /\ ~Busy' /\ \E status \in Statuses : SendResponse(curEntry'.id, status)
  BY FailType DEF OpenFails, TakeRequest, Busy, control, Statuses
<1>4. ASSUME NEW s \in Sizes, StartsBeyond(s)
      PROVE  TakeRequest /\ ~Busy' /\ \E status \in Statuses : SendResponse(curEntry'.id, status)
  BY <1>4, FailType DEF StartsBeyond, EnterCooldown, Busy, Statuses
<1>5. ASSUME NEW s \in Sizes, SendStart(s) PROVE TakeRequest /\ Busy' /\ answers' = answers
  BY <1>5 DEF SendStart, WaitAfter, Busy
<1>. QED
  BY <1>1, <1>2, <1>3, <1>4, <1>5 DEF RunIdle

LEMMA AccountsStep ==
    ASSUME DownlinkAssumption PROVE TypeOK /\ Accounts /\ [Next]_vars => Accounts'
<1>. SUFFICES ASSUME TypeOK, Accounts, [Next]_vars PROVE Accounts'
  OBVIOUS
<1>1. CASE Cancel \/ RunCooldown \/ RunWait \/ UNCHANGED vars
  <2>1. UNCHANGED <<fileQueue, curEntry, asked, answers, timedOut>> /\ (Busy' <=> Busy)
    BY <1>1 DEF Cancel, RunCooldown, RunWait, vars, control, requests, Busy
  <2>. QED
    BY <2>1, QuietAccounts
<1>2. CASE RunTimeout
  <2>1. Busy /\ ~Busy' /\ UNCHANGED <<fileQueue, asked>> /\ timedOut' = timedOut \cup {curEntry.id}
    BY <1>2 DEF RunTimeout, EnterCooldown, Busy
  <2>. QED
    BY <1>2, <2>1, FailType, AnsweredAccounts DEF RunTimeout, Statuses
<1>3. ASSUME NEW b \in out,
             \/ LoseBuffer(b) \/ IgnoredReturn(b) \/ RefusedReturn(b) \/ EmptyRange(b)
             \/ ShortRead(b) \/ SendCancel(b) \/ SendData(b) \/ SendEnd(b)
      PROVE  Accounts'
  <2>1. UNCHANGED <<fileQueue, curEntry, asked, answers, timedOut>> /\ (Busy' <=> Busy)
    BY <1>3 DEF LoseBuffer, IgnoredReturn, RefusedReturn, EmptyRange, ShortRead, Halt, SendCancel,
                SendData, SendEnd, NextData, Expected, WaitAfter, control, requests, Busy
  <2>. QED
    BY <2>1, QuietAccounts
<1>4. ASSUME NEW b \in out, FinishFile(b) \/ ReadFails(b) PROVE Accounts'
  <2>1. /\ Busy /\ ~Busy' /\ UNCHANGED <<fileQueue, asked, timedOut>>
        /\ \E status \in Statuses : SendResponse(curEntry.id, status)
    BY <1>4, FailType DEF FinishFile, ReadFails, NextData, Expected, EnterCooldown, Busy, Statuses
  <2>. QED
    BY <2>1, AnsweredAccounts
<1>. QED
  BY <1>1, <1>2, <1>3, <1>4, RequestAccounts, RunIdleAccounts DEF Next, Run, BufferReturn

-----------------------------------------------------------------------------
(* The buffers.  A step leaves them alone or takes one off, or it ends the *)
(* file in work, or it sends one packet more.                              *)
Buffers == ContextsTell /\ OneInFlight /\ MemoryIsKept /\ InFlightIntact

LEMMA QuietBuffers ==
    ASSUME Buffers, out' \subseteq out, UNCHANGED <<lastBufferId, bufferId, memoryStore, timedOut>>,
           Busy' <=> Busy, Busy => curEntry' = curEntry
    PROVE  Buffers'
  BY DEF Buffers, ContextsTell, OneInFlight, MemoryIsKept, InFlightIntact

LEMMA EndedBuffers ==
    ASSUME Buffers, ~Busy', out' \subseteq out, UNCHANGED <<lastBufferId, bufferId, memoryStore>>,
           \A b \in out' : b.id \in timedOut'
    PROVE  Buffers'
  BY DEF Buffers, ContextsTell, OneInFlight, MemoryIsKept, InFlightIntact

(* A buffer that is taken for current is the one in flight.                *)
LEMMA CurrentIsInFlight ==
    ASSUME TypeOK, Accounts, Buffers, Busy, NEW b \in out, Current(b)
    PROVE  /\ b.id = curEntry.id /\ curEntry.id \notin timedOut
           /\ \A other \in out \ {b} : other.id \in timedOut /\ other.context + 1 < lastBufferId
<1>1. curEntry.id \notin timedOut
  BY InWorkCases DEF Accounts, TimedOutIsOver
<1>2. b.id \notin timedOut
  <2>1. b.id \in timedOut => b.context + 1 < lastBufferId
    BY DEF Buffers, ContextsTell
  <2>2. lastBufferId = b.context + 1 /\ lastBufferId \in Nat
    BY DEF Current, TypeOK
  <2>. QED
    BY <2>1, <2>2
<1>3. b.id = curEntry.id
  BY <1>2 DEF Buffers, ContextsTell
<1>4. \A other \in out \ {b} : other.id \in timedOut
  BY <1>2 DEF Buffers, OneInFlight
<1>. QED
  BY <1>1, <1>3, <1>4 DEF Buffers, ContextsTell

LEMMA SentBuffers ==
    ASSUME Buffers, Busy', NEW id, NEW context, NEW memory \in {"FILE", "CANCEL"}, NEW packet,
           NEW before, NEW others \in SUBSET out,
           SendFilePacket(Buffer(id, context, memory, packet), before, others),
           context \in 0 .. lastBufferId' - 1, bufferId' < lastBufferId',
           id = curEntry'.id, id \notin timedOut, timedOut' = timedOut,
           \A other \in others : /\ other.id \in timedOut /\ other.context \in 0 .. lastBufferId' - 1
                                 /\ other.context + 1 < lastBufferId'
    PROVE  Buffers'
<1>. DEFINE new == Buffer(id, context, memory, packet)
<1>1. /\ new.id = id /\ new.context = context /\ new.memory = memory /\ new.packet = packet
      /\ out' = others \cup {new} /\ memoryStore' = [memoryStore EXCEPT ![memory] = packet]
  BY DEF Buffer, SendFilePacket
<1>. HIDE DEF new
<1>2. ContextsTell'
  <2>1. ASSUME NEW other \in others
        PROVE  /\ other.memory \in {"FILE", "CANCEL"} /\ other.context \in 0 .. lastBufferId' - 1
               /\ other.id \in timedOut' /\ other.context + 1 < lastBufferId'
    BY <2>1 DEF Buffers, ContextsTell
  <2>. QED
    BY <1>1, <2>1 DEF ContextsTell
<1>3. OneInFlight'
  BY <1>1 DEF OneInFlight
<1>4. memoryStore'[memory] = packet /\ MemoryIsKept'
  BY <1>1 DEF Buffers, MemoryIsKept
<1>5. InFlightIntact'
  BY <1>1, <1>4 DEF InFlightIntact
<1>. QED
  BY <1>2, <1>3, <1>4, <1>5 DEF Buffers

LEMMA SendStartBuffers ==
    ASSUME DownlinkAssumption, TypeOK, Accounts, Buffers, NEW s \in Sizes, SendStart(s)
    PROVE  Buffers'
<1>1. /\ Busy' /\ UNCHANGED timedOut /\ bufferId' = lastBufferId /\ lastBufferId' = lastBufferId + 1
      /\ lastBufferId \in Nat
      /\ SendFilePacket(Buffer(curEntry'.id, lastBufferId, "FILE", [type |-> "START", seq |-> 0, size |-> s]),
                        <<>>, out)
  BY DEF SendStart, TakeRequest, WaitAfter, Busy, TypeOK
<1>2. ~Busy /\ curEntry'.id \notin timedOut
  BY TakenAccounts DEF SendStart, Accounts, TimedOutIsOver
<1>3. \A other \in out : other.id \in timedOut /\ other.context \in 0 .. lastBufferId - 1
  BY <1>2 DEF Buffers, ContextsTell
<1>4. \A other \in out : other.context \in 0 .. lastBufferId' - 1 /\ other.context + 1 < lastBufferId'
  BY <1>1, <1>3
<1>5. lastBufferId \in 0 .. lastBufferId' - 1 /\ bufferId' < lastBufferId'
  BY <1>1
<1>. QED
  BY <1>1, <1>2, <1>3, <1>4, <1>5, SentBuffers

LEMMA SendNextBuffers ==
    ASSUME TypeOK, Accounts, Buffers, NEW b \in out, SendCancel(b) \/ SendData(b) \/ SendEnd(b)
    PROVE  Buffers'
<1>1. Busy /\ Current(b) /\ Busy' /\ UNCHANGED <<curEntry, timedOut, bufferId>>
  BY DEF SendCancel, SendData, SendEnd, NextData, Expected, WaitAfter, Busy, requests
<1>2. /\ bufferId < lastBufferId /\ bufferId \in Nat /\ lastBufferId \in Nat
      /\ \A other \in out : other.context \in 0 .. lastBufferId - 1
  BY <1>1 DEF Buffers, ContextsTell, TypeOK
<1>3. /\ curEntry.id \notin timedOut
      /\ \A other \in out \ {b} : other.id \in timedOut /\ other.context + 1 < lastBufferId
  BY <1>1, CurrentIsInFlight
<1>4. CASE SendCancel(b)
  <2>1. /\ lastBufferId' = lastBufferId + 1
        /\ SendFilePacket(Buffer(curEntry.id, lastBufferId, "CANCEL", [type |-> "CANCEL", seq |-> sequenceIndex]),
                          sent, out \ {b})
    BY <1>4 DEF SendCancel
  <2>2. lastBufferId \in 0 .. lastBufferId' - 1 /\ bufferId' < lastBufferId'
    BY <1>1, <1>2, <2>1
  <2>3. \A other \in out \ {b} : /\ other.id \in timedOut /\ other.context \in 0 .. lastBufferId' - 1
                                 /\ other.context + 1 < lastBufferId'
    BY <1>2, <1>3, <2>1
  <2>. QED
    BY <1>1, <1>3, <2>1, <2>2, <2>3, SentBuffers
<1>5. CASE SendData(b) \/ SendEnd(b)
  <2>1. PICK packet : SendFilePacket(Buffer(curEntry.id, bufferId, "FILE", packet), sent, out \ {b})
    BY <1>5 DEF SendData, SendEnd
  <2>2. lastBufferId' = lastBufferId
    BY <1>5 DEF SendData, SendEnd
  <2>3. bufferId \in 0 .. lastBufferId' - 1 /\ bufferId' < lastBufferId'
    BY <1>1, <1>2, <2>2
  <2>4. \A other \in out \ {b} : /\ other.id \in timedOut /\ other.context \in 0 .. lastBufferId' - 1
                                 /\ other.context + 1 < lastBufferId'
    BY <1>2, <1>3, <2>2
  <2>. QED
    BY <1>1, <1>3, <2>1, <2>3, <2>4, SentBuffers
<1>. QED
  BY <1>4, <1>5

LEMMA BuffersStep ==
    ASSUME DownlinkAssumption PROVE TypeOK /\ Accounts /\ Buffers /\ [Next]_vars => Buffers'
<1>. SUFFICES ASSUME TypeOK, Accounts, Buffers, [Next]_vars PROVE Buffers'
  OBVIOUS
<1>. USE DEF buffers
<1>1. CASE Cancel \/ RunCooldown \/ RunWait \/ UNCHANGED vars
  BY <1>1, QuietBuffers DEF Cancel, RunCooldown, RunWait, vars, control, requests, Busy
<1>2. ASSUME NEW r \in Requests, Request(r) PROVE Buffers'
  BY <1>2, QuietBuffers DEF Request, control, Busy
<1>3. CASE OpenFails \/ \E s \in Sizes : StartsBeyond(s)
  BY <1>3, QuietBuffers DEF OpenFails, StartsBeyond, TakeRequest, EnterCooldown, control, Busy
<1>4. CASE RunTimeout
  <2>1. /\ Busy /\ ~Busy' /\ out' = out /\ timedOut' = timedOut \cup {curEntry.id}
        /\ UNCHANGED <<lastBufferId, bufferId, memoryStore>>
    BY <1>4 DEF RunTimeout, EnterCooldown, Busy
  <2>2. \A b \in out' : b.id \in timedOut'
    BY <2>1 DEF Buffers, ContextsTell
  <2>. QED
    BY <2>1, <2>2, EndedBuffers
<1>5. ASSUME NEW b \in out,
             \/ LoseBuffer(b) \/ IgnoredReturn(b) \/ RefusedReturn(b) \/ EmptyRange(b) \/ ShortRead(b)
      PROVE  Buffers'
  BY <1>5, QuietBuffers
  DEF LoseBuffer, IgnoredReturn, RefusedReturn, EmptyRange, ShortRead, Halt, control, requests, Busy
<1>6. ASSUME NEW b \in out, FinishFile(b) \/ ReadFails(b) PROVE Buffers'
  <2>1. /\ Busy /\ Current(b) /\ ~Busy' /\ out' = out \ {b}
        /\ UNCHANGED <<lastBufferId, bufferId, memoryStore, timedOut>>
    BY <1>6 DEF FinishFile, ReadFails, NextData, Expected, EnterCooldown, Busy
  <2>2. \A other \in out' : other.id \in timedOut'
    BY <2>1, CurrentIsInFlight
  <2>. QED
    BY <2>1, <2>2, EndedBuffers
<1>. QED
  BY <1>1, <1>2, <1>3, <1>4, <1>5, <1>6, SendStartBuffers, SendNextBuffers
  DEF Next, Run, RunIdle, BufferReturn

-----------------------------------------------------------------------------
(* The assertions.  A data packet ends in the word, so that the sum that   *)
(* is compared with the end of the range does not wrap.                    *)
FilesFit == \A s \in Sizes : s + MaxData <= Word

LEMMA DataStillLeft ==
    ASSUME DownlinkAssumption, TypeOK, DataIsLeft, NEW b \in out, SendData(b),
           lastCompletedType' = "START"
    PROVE  byteOffset' < endOffset
<1>1. /\ byteOffset \in Nat /\ endOffset \in Nat /\ byteOffset < endOffset
      /\ MaxData \in Nat \ {0} /\ Word \in Nat \ {0} /\ endOffset <= Word - MaxData
  BY DEF TypeOK, SendData, NextData, Expected, DownlinkAssumption, DataIsLeft, Busy
<1>2. byteOffset + MaxData \in Nat /\ byteOffset + MaxData < Word
  BY <1>1
<1>3. (byteOffset + MaxData) % Word = byteOffset + MaxData
  BY <1>1, <1>2, Remainder
<1>4. DataSize \in Nat /\ byteOffset + DataSize <= endOffset
  BY <1>1, <1>3 DEF DataSize
<1>5. byteOffset + DataSize \in Nat /\ byteOffset + DataSize < Word
  BY <1>1, <1>4
<1>6. (byteOffset + DataSize) % Word = byteOffset + DataSize
  BY <1>1, <1>5, Remainder
<1>7. DataSize + byteOffset \in Nat /\ DataSize + byteOffset < Word
  BY <1>1, <1>4, <1>5
<1>8. (DataSize + byteOffset) % Word = DataSize + byteOffset
  BY <1>1, <1>7, Remainder
<1>9. byteOffset' = byteOffset + DataSize /\ DataSize + byteOffset # endOffset
  BY <1>6, <1>8 DEF SendData, WaitAfter
<1>. QED
  BY <1>1, <1>4, <1>9

LEMMA RangeStep ==
    ASSUME DownlinkAssumption, FilesFit
    PROVE  TypeOK /\ DataIsLeft /\ [Next]_vars => DataIsLeft'
<1>. SUFFICES ASSUME TypeOK, DataIsLeft, [Next]_vars PROVE DataIsLeft'
  OBVIOUS
<1>1. ASSUME UNCHANGED <<file, curEntry, lastCompletedType>>, Busy' => Busy PROVE DataIsLeft'
  BY <1>1 DEF DataIsLeft, file
<1>2. CASE Cancel \/ RunCooldown \/ RunWait \/ UNCHANGED vars
  BY <1>1, <1>2 DEF Cancel, RunCooldown, RunWait, vars, control, requests, Busy
<1>3. ASSUME NEW r \in Requests, Request(r) PROVE DataIsLeft'
  BY <1>1, <1>3 DEF Request, control, Busy
<1>4. CASE OpenFails \/ RunTimeout \/ \E s \in Sizes : StartsBeyond(s)
  BY <1>4 DEF OpenFails, RunTimeout, StartsBeyond, TakeRequest, EnterCooldown, control, DataIsLeft, Busy
<1>5. ASSUME NEW s \in Sizes, SendStart(s) PROVE DataIsLeft'
  <2>1. /\ curEntry' \in Entries /\ curEntry'.offset < s /\ lastCompletedType' = "START"
        /\ byteOffset' = curEntry'.offset /\ endOffset' = EndOffset(curEntry', s)
    BY <1>5, TakenType DEF SendStart, WaitAfter
  <2>2. /\ endOffset' \in 0 .. s
        /\ byteOffset' < endOffset' \/ curEntry'.offset + curEntry'.length >= Word
    BY <2>1, EndInFile
  <2>3. s \in Nat /\ s <= Word - MaxData /\ Word \in Nat /\ MaxData \in Nat
    BY DEF FilesFit, DownlinkAssumption
  <2>. QED
    BY <2>1, <2>2, <2>3 DEF DataIsLeft
<1>6. ASSUME NEW b \in out,
             \/ LoseBuffer(b) \/ IgnoredReturn(b) \/ RefusedReturn(b) \/ EmptyRange(b) \/ ShortRead(b)
      PROVE  DataIsLeft'
  BY <1>1, <1>6
  DEF LoseBuffer, IgnoredReturn, RefusedReturn, EmptyRange, ShortRead, Halt, control, requests, Busy
<1>7. ASSUME NEW b \in out, FinishFile(b) \/ ReadFails(b) PROVE DataIsLeft'
  BY <1>7 DEF FinishFile, ReadFails, EnterCooldown, DataIsLeft, Busy
<1>8. ASSUME NEW b \in out, SendCancel(b) \/ SendEnd(b) PROVE DataIsLeft'
  BY <1>8 DEF SendCancel, SendEnd, Expected, WaitAfter, DataIsLeft, Busy, file, requests
<1>9. ASSUME NEW b \in out, SendData(b) PROVE DataIsLeft'
  <2>1. Busy /\ UNCHANGED <<endOffset, curEntry>> /\ lastCompletedType' \in {"START", "DATA"}
    BY <1>9 DEF SendData, NextData, Expected, WaitAfter, Busy, requests
  <2>2. lastCompletedType' = "START" => byteOffset' < endOffset'
    BY <1>9, <2>1, DataStillLeft
  <2>. QED
    BY <2>1, <2>2 DEF DataIsLeft
<1>. QED
  BY <1>2, <1>3, <1>4, <1>5, <1>6, <1>7, <1>8, <1>9 DEF Next, Run, RunIdle, BufferReturn

LEMMA AssertionsStep ==
    TypeOK /\ Buffers /\ DataIsLeft /\ AssertionsHold /\ [Next]_vars => AssertionsHold'
<1>. SUFFICES ASSUME TypeOK, Buffers, DataIsLeft, AssertionsHold, [Next]_vars PROVE AssertionsHold'
  OBVIOUS
<1>1. CASE UNCHANGED vars
  BY <1>1 DEF vars, control, requests, AssertionsHold
<1>2. ASSUME halted = "none", halted' = halted PROVE AssertionsHold'
  BY <1>2 DEF AssertionsHold
<1>3. ASSUME halted = "none", Cancel \/ Run \/ \E r \in Requests : Request(r) PROVE AssertionsHold'
  BY <1>2, <1>3 DEF Cancel, Run, RunIdle, OpenFails, StartsBeyond, SendStart, TakeRequest, RunCooldown,
                    RunWait, RunTimeout, Request
<1>4. ASSUME halted = "none", NEW b \in out,
             \/ LoseBuffer(b) \/ IgnoredReturn(b) \/ FinishFile(b) \/ SendCancel(b)
             \/ ReadFails(b) \/ SendData(b) \/ SendEnd(b)
      PROVE  AssertionsHold'
  BY <1>2, <1>4 DEF LoseBuffer, IgnoredReturn, FinishFile, SendCancel, ReadFails, SendData, SendEnd
<1>5. ASSUME NEW b \in out, RefusedReturn(b) PROVE AssertionsHold'
  <2>1. Current(b) /\ ~Expected(b) /\ UNCHANGED <<control, timedOut>>
    BY <1>5 DEF RefusedReturn, Halt
  <2>2. mode \notin {"WAIT", "CANCEL"}
    BY <2>1 DEF Expected, DataIsLeft, Busy
  <2>3. mode = "COOLDOWN" /\ b.id \in timedOut
    BY <2>1, <2>2 DEF Current, TypeOK, Buffers, ContextsTell, Busy
  <2>. QED
    BY <1>5, <2>1, <2>2, <2>3 DEF RefusedReturn, Halt, control, AssertionsHold
<1>6. ASSUME NEW b \in out, EmptyRange(b) PROVE AssertionsHold'
  <2>1. curEntry.offset + curEntry.length >= Word
    BY <1>6 DEF EmptyRange, NextData, Expected, DataIsLeft, Busy
  <2>. QED
    BY <1>6, <2>1 DEF EmptyRange, Halt, requests, AssertionsHold
<1>7. ASSUME NEW b \in out, ShortRead(b) PROVE AssertionsHold'
  BY <1>7 DEF ShortRead, Halt, AssertionsHold
<1>. QED
  BY <1>1, <1>3, <1>4, <1>5, <1>6, <1>7 DEF Next, BufferReturn

-----------------------------------------------------------------------------
LEMMA InitInvariants ==
    ASSUME DownlinkAssumption
    PROVE  Init => Accounts /\ Buffers /\ DataIsLeft /\ AssertionsHold
<1>. SUFFICES ASSUME Init PROVE Accounts /\ Buffers /\ DataIsLeft /\ AssertionsHold
  OBVIOUS
<1>1. ~Busy /\ InWork = {} /\ timedOut = {} /\ out = {} /\ halted = "none"
  BY DEF Init, Busy, InWork
<1>2. asked = 0 /\ DOMAIN fileQueue = {} /\ 1 .. asked = {}
  BY DEF Init
<1>3. \A id \in 1 .. MaxRequests : Len(answers[id]) = 0
  BY DEF Init
<1>4. Accounts
  BY <1>1, <1>2, <1>3 DEF Accounts, QueueInOrder, OneAnswerEach, TimedOutIsOver
<1>5. Buffers
  BY <1>1 DEF Init, Buffers, ContextsTell, OneInFlight, MemoryIsKept, InFlightIntact
<1>. QED
  BY <1>1, <1>4, <1>5 DEF DataIsLeft, AssertionsHold

Safe == TypeOK /\ Accounts /\ Buffers

LEMMA Safety == ASSUME DownlinkAssumption PROVE Spec => []Safe
<1>1. Init => Safe
  BY TypeInit, InitInvariants DEF Safe
<1>2. Safe /\ [Next]_vars => Safe'
  BY TypeStep, AccountsStep, BuffersStep DEF Safe, Accounts
<1>. QED
  BY <1>1, <1>2, PTL DEF Spec

(* Every variable keeps its type, whatever is asked for and whatever       *)
(* becomes of the files and the buffers.                                   *)
THEOREM TypeCorrect == ASSUME DownlinkAssumption PROVE Spec => []TypeOK
<1>1. Safe => TypeOK
  BY DEF Safe
<1>. QED
  BY <1>1, Safety, PTL

(* Every request is answered once at most, and has no answer exactly while *)
(* it waits in the queue or its file is in work (FileDownlink.cpp:324).    *)
THEOREM AnsweredOnce == ASSUME DownlinkAssumption PROVE Spec => []OneAnswerEach
<1>1. Safe => OneAnswerEach
  BY DEF Safe, Accounts
<1>. QED
  BY <1>1, Safety, PTL

(* No packet is overwritten before its buffer is back, unless its request  *)
(* timed out, although all packets share two memories (FileDownlink.cpp:557).*)
THEOREM PacketsIntact == ASSUME DownlinkAssumption PROVE Spec => []InFlightIntact
<1>1. Safe => InFlightIntact
  BY DEF Safe, Buffers
<1>. QED
  BY <1>1, Safety, PTL

(* Of files that end a packet before the word does, the assertions of the  *)
(* component fail in the three cases of AssertionsHold only.               *)
THEOREM AssertionsCorrect ==
    ASSUME DownlinkAssumption, FilesFit PROVE Spec => []AssertionsHold
<1>1. Init => DataIsLeft /\ AssertionsHold
  BY InitInvariants
<1>2. Safe /\ DataIsLeft /\ AssertionsHold /\ [Next]_vars => (DataIsLeft /\ AssertionsHold)'
  BY RangeStep, AssertionsStep DEF Safe
<1>. QED
  BY <1>1, <1>2, Safety, PTL DEF Spec

-----------------------------------------------------------------------------
(* The packets of the file in work.  Their data is the bytes from the      *)
(* offset asked for up to byteOffset, and the checksum is over the same.   *)
Packets ==
    [type : {"START"}, seq : Nat, size : Nat] \cup [type : {"DATA"}, seq : Nat, data : Seq(Nat)] \cup
    [type : {"END"}, seq : Nat, checksum : Seq(Nat)] \cup [type : {"CANCEL"}, seq : Nat]

DataOf(p)   == IF p.type = "DATA" THEN p.data ELSE <<>>
DataIn(ps)  == FlattenSeq([i \in DOMAIN ps |-> DataOf(ps[i])])
Bytes(a, b) == [i \in 1 .. b - a |-> a + i - 1]
Stop == IF curEntry.length = 0 \/ curEntry.offset + curEntry.length > size
        THEN size ELSE curEntry.offset + curEntry.length

Numbered == Busy =>
    /\ sent \in Seq(Packets) /\ Len(sent) >= 1
    /\ sent[1] = [type |-> "START", seq |-> 0, size |-> size]
    /\ \A i \in 2 .. Len(sent) : sent[i].seq = i - 1
    /\ \A i \in 2 .. Len(sent) : sent[i].type # "DATA" =>
          i = Len(sent) /\ sent[i].type = lastCompletedType /\ sent[i].type \in {"END", "CANCEL"}
    /\ lastCompletedType \in {"START", "DATA"} => sequenceIndex = Len(sent)
    /\ sent[Len(sent)].type = "END" => sent[Len(sent)].checksum = checksum

SentSoFar == Busy =>
    /\ curEntry \in Entries /\ curEntry.offset < size /\ curEntry.offset <= byteOffset
    /\ checksum = DataIn(sent) /\ checksum = Bytes(curEntry.offset, byteOffset)
    /\ \/ /\ endOffset = Stop /\ byteOffset <= endOffset
          /\ lastCompletedType \in {"DATA", "END"} => byteOffset = endOffset
       \/ /\ byteOffset = curEntry.offset /\ ~(byteOffset < endOffset)
          /\ lastCompletedType \in {"START", "CANCEL"}

LEMMA BytesType == ASSUME NEW a \in Nat, NEW b \in Nat, a <= b
                   PROVE  Bytes(a, b) \in Seq(Nat) /\ Len(Bytes(a, b)) = b - a
                          /\ \A i \in 1 .. b - a : Bytes(a, b)[i] = a + i - 1
<1>1. b - a \in Nat /\ \A i \in 1 .. b - a : a + i - 1 \in Nat
  OBVIOUS
<1>. QED
  BY <1>1 DEF Bytes

LEMMA BytesJoined ==
    ASSUME NEW a \in Nat, NEW b \in Nat, NEW c \in Nat, a <= b, b <= c
    PROVE  Bytes(a, b) \o Bytes(b, c) = Bytes(a, c)
<1>. DEFINE s == Bytes(a, b)
            t == Bytes(b, c)
            u == Bytes(a, c)
<1>1. s \in Seq(Nat) /\ Len(s) = b - a /\ \A i \in 1 .. b - a : s[i] = a + i - 1
  BY BytesType
<1>2. t \in Seq(Nat) /\ Len(t) = c - b /\ \A i \in 1 .. c - b : t[i] = b + i - 1
  BY BytesType
<1>3. u \in Seq(Nat) /\ Len(u) = c - a /\ \A i \in 1 .. c - a : u[i] = a + i - 1
  BY BytesType
<1>. HIDE DEF s, t, u
<1>4. /\ s \o t \in Seq(Nat) /\ Len(s \o t) = Len(s) + Len(t)
      /\ \A i \in 1 .. Len(s) : (s \o t)[i] = s[i]
      /\ \A i \in Len(s) + 1 .. Len(s) + Len(t) : (s \o t)[i] = t[i - Len(s)]
  BY <1>1, <1>2, ConcatIs
<1>5. Len(s \o t) = c - a
  BY <1>1, <1>2, <1>4
<1>6. ASSUME NEW i \in 1 .. c - a PROVE (s \o t)[i] = u[i]
  <2>1. CASE i <= b - a
    <3>1. i \in 1 .. b - a
      BY <2>1
    <3>. QED
      BY <1>1, <1>3, <1>4, <3>1
  <2>2. CASE i > b - a
    <3>1. i \in Len(s) + 1 .. Len(s) + Len(t) /\ i - Len(s) \in 1 .. c - b /\ b + (i - Len(s)) - 1 = a + i - 1
      BY <1>1, <1>2, <2>2
    <3>. QED
      BY <1>2, <1>3, <1>4, <3>1
  <2>3. i <= b - a \/ i > b - a
    OBVIOUS
  <2>. QED
    BY <2>1, <2>2, <2>3, Zenon
<1>7. s \o t = u
  BY <1>3, <1>4, <1>5, <1>6, SameSeq
<1>. QED
  BY <1>7 DEF s, t, u

LEMMA DataOfType == ASSUME NEW p \in Packets PROVE DataOf(p) \in Seq(Nat)
<1>1. <<>> \in Seq(Nat)
  OBVIOUS
<1>2. p.type = "DATA" => p.data \in Seq(Nat)
  BY DEF Packets
<1>. QED
  BY <1>1, <1>2 DEF DataOf

LEMMA DataInGrows ==
    ASSUME NEW ps \in Seq(Packets), NEW p \in Packets
    PROVE  DataIn(ps) \in Seq(Nat) /\ DataIn(Append(ps, p)) = DataIn(ps) \o DataOf(p)
<1>. DEFINE qs == Append(ps, p)
            n  == Len(ps)
            ss == [i \in DOMAIN ps |-> DataOf(ps[i])]
            tt == [i \in DOMAIN qs |-> DataOf(qs[i])]
            x  == DataOf(p)
<1>1. /\ DOMAIN ps = 1 .. n /\ DOMAIN qs = 1 .. n + 1 /\ n \in Nat /\ qs[n + 1] = p
      /\ \A i \in 1 .. n : qs[i] = ps[i] /\ ps[i] \in Packets
  OBVIOUS
<1>. HIDE DEF qs
<1>2. x \in Seq(Nat) /\ \A i \in 1 .. n : DataOf(ps[i]) \in Seq(Nat)
  BY <1>1, DataOfType
<1>. HIDE DEF n
<1>3. ss \in Seq(Seq(Nat)) /\ Len(ss) = n /\ \A i \in 1 .. n : ss[i] = DataOf(ps[i])
  BY <1>1, <1>2
<1>4. DOMAIN tt = 1 .. n + 1 /\ tt[n + 1] = x /\ \A i \in 1 .. n : tt[i] = DataOf(ps[i])
  BY <1>1
<1>5. tt \in Seq(Seq(Nat)) /\ Len(tt) = n + 1
  <2>1. ASSUME NEW i \in 1 .. n + 1 PROVE tt[i] \in Seq(Nat)
    <3>1. i \in 1 .. n \/ i = n + 1
      BY <1>1
    <3>. QED
      BY <1>2, <1>4, <3>1
  <2>2. tt = [i \in 1 .. n + 1 |-> tt[i]]
    BY <1>1
  <2>. HIDE DEF tt
  <2>. QED
    BY <1>1, <2>1, <2>2
<1>. HIDE DEF ss, tt, x
<1>6. /\ Append(ss, x) \in Seq(Seq(Nat)) /\ Len(Append(ss, x)) = n + 1 /\ Append(ss, x)[n + 1] = x
      /\ \A i \in 1 .. n : Append(ss, x)[i] = ss[i]
  BY <1>2, <1>3
<1>7. ASSUME NEW i \in 1 .. n + 1 PROVE tt[i] = Append(ss, x)[i]
  <2>1. i \in 1 .. n \/ i = n + 1
    BY <1>1
  <2>. QED
    BY <1>3, <1>4, <1>6, <2>1
<1>8. tt = Append(ss, x)
  BY <1>5, <1>6, <1>7, SameSeq
<1>9. FlattenSeq(ss) \in Seq(Nat) /\ FlattenSeq(Append(ss, x)) = FlattenSeq(ss) \o x
  BY <1>2, <1>3, FlattenIs, FlattenAppend
<1>. QED
  BY <1>8, <1>9 DEF DataIn, ss, tt, qs, x

(* The end that sendFile computes is the end of the range, or what is      *)
(* asked for does not fit the word, and then there is nothing to send.     *)
LEMMA EndIs ==
    ASSUME DownlinkAssumption, NEW entry \in Entries, NEW s \in Sizes, entry.offset < s
    PROVE  LET stop == IF entry.length = 0 \/ entry.offset + entry.length > s THEN s ELSE entry.offset + entry.length
           IN  \/ EndOffset(entry, s) = stop /\ entry.offset <= stop
               \/ ~(entry.offset < EndOffset(entry, s))
<1>. DEFINE total == entry.offset + entry.length
<1>1. /\ entry.offset \in 0 .. Word - 1 /\ entry.length \in 0 .. Word - 1
      /\ s \in 0 .. Word - 1 /\ Word \in Nat \ {0}
  BY DEF DownlinkAssumption, Entries
<1>2. total \in Nat /\ entry.offset <= total
  BY <1>1
<1>3. s % Word = s
  <2>1. s \in Nat /\ s < Word
    BY <1>1
  <2>. QED
    BY <1>1, <2>1, Remainder
<1>4. CASE total < Word
  <2>1. total % Word = total
    BY <1>1, <1>2, <1>4, Remainder
  <2>2. CASE total > s
    <3>1. Length(entry, s) = s - entry.offset
      BY <2>1, <2>2 DEF Length
    <3>2. Length(entry, s) > 0 /\ entry.offset + Length(entry, s) = s
      BY <1>1, <3>1
    <3>3. EndOffset(entry, s) = s
      BY <1>3, <3>2 DEF EndOffset
    <3>. QED
      BY <1>1, <2>2, <3>3
  <2>3. CASE ~(total > s)
    <3>1. Length(entry, s) = entry.length
      BY <2>1, <2>3 DEF Length
    <3>2. EndOffset(entry, s) = IF entry.length > 0 THEN total ELSE s
      BY <2>1, <3>1 DEF EndOffset
    <3>. QED
      BY <1>1, <1>2, <2>3, <3>2
  <2>. QED
    BY <2>2, <2>3
<1>5. CASE ~(total < Word)
  <2>. DEFINE r == total - Word
  <2>1. r \in 0 .. Word - 1 /\ r < entry.offset /\ ~(r > s) /\ entry.length > 0 /\ total = 1 * Word + r
    BY <1>1, <1>5
  <2>2. total % Word = r
    <3>. HIDE DEF r, total
    <3>. QED
      BY <1>1, <2>1, RemainderIs
  <2>. HIDE DEF r
  <2>3. Length(entry, s) = entry.length
    BY <2>1, <2>2 DEF Length
  <2>4. EndOffset(entry, s) = r
    BY <2>1, <2>2, <2>3 DEF EndOffset
  <2>. QED
    BY <1>1, <2>1, <2>4
<1>. QED
  BY <1>4, <1>5

LEMMA SentNext ==
    ASSUME NEW s \in Seq(Packets), NEW p \in Packets, Len(s) >= 1
    PROVE  /\ Append(s, p) \in Seq(Packets) /\ Len(Append(s, p)) = Len(s) + 1 /\ Len(s) \in Nat
           /\ Append(s, p)[1] = s[1] /\ Append(s, p)[Len(s) + 1] = p
           /\ \A i \in 2 .. Len(s) : Append(s, p)[i] = s[i]
  OBVIOUS

LEMMA QuietFile ==
    ASSUME Numbered, SentSoFar, UNCHANGED <<file, sent, curEntry, lastCompletedType>>, Busy' => Busy
    PROVE  Numbered' /\ SentSoFar'
<1>1. Numbered'
  BY DEF Numbered, file
<1>2. SentSoFar'
  BY DEF SentSoFar, file, Stop
<1>. QED
  BY <1>1, <1>2

LEMMA SendStartFile ==
    ASSUME DownlinkAssumption, TypeOK, NEW s \in Sizes, SendStart(s) PROVE Numbered' /\ SentSoFar'
<1>. DEFINE p == [type |-> "START", seq |-> 0, size |-> s]
<1>1. /\ curEntry' \in Entries /\ curEntry'.offset \in Nat /\ curEntry'.offset < s /\ s \in Nat
      /\ size' = s /\ checksum' = <<>> /\ lastCompletedType' = "START" /\ sequenceIndex' = 1
      /\ byteOffset' = curEntry'.offset /\ endOffset' = EndOffset(curEntry', s)
  BY TakenType DEF SendStart, WaitAfter, Entries, DownlinkAssumption
<1>2. sent' = Append(<<>>, p)
  BY DEF SendStart, SendFilePacket, Buffer
<1>3. p \in Packets /\ p.type = "START" /\ <<>> \in Seq(Packets)
  BY <1>1 DEF Packets
<1>4. DataIn(sent') = DataIn(<<>>) \o DataOf(p) /\ DataOf(p) = <<>>
  <2>1. DataOf(p) = <<>>
    BY <1>3 DEF DataOf
  <2>. HIDE DEF p
  <2>. QED
    BY <1>2, <1>3, <2>1, DataInGrows
<1>5. DataIn(<<>>) = <<>>
  <2>. DEFINE none == [i \in DOMAIN <<>> |-> DataOf(<<>>[i])]
  <2>1. none = <<>> /\ none \in Seq(Seq(Nat))
    OBVIOUS
  <2>2. FlattenSeq(none) = <<>>
    <3>1. Len(none) = 0
      BY <2>1
    <3>. HIDE DEF none
    <3>. QED
      BY <2>1, <3>1, FlattenIs
  <2>. QED
    BY <2>2 DEF DataIn
<1>. HIDE DEF p
<1>6. sent' \in Seq(Packets) /\ Len(sent') = 1 /\ sent'[1] = p
  BY <1>2, <1>3
<1>7. Numbered'
  <2>1. sent'[1] = [type |-> "START", seq |-> 0, size |-> size']
    BY <1>1, <1>6 DEF p
  <2>2. 2 .. Len(sent') = {} /\ sent'[Len(sent')].type # "END"
    BY <1>3, <1>6
  <2>. QED
    BY <1>1, <1>6, <2>1, <2>2 DEF Numbered
<1>8. SentSoFar'
  <2>1. Bytes(curEntry'.offset, byteOffset') = <<>>
    BY <1>1 DEF Bytes
  <2>2. DataIn(sent') = <<>>
    BY <1>4, <1>5
  <2>. DEFINE stop == IF curEntry'.length = 0 \/ curEntry'.offset + curEntry'.length > s
                      THEN s ELSE curEntry'.offset + curEntry'.length
  <2>3. Stop' = stop
    BY <1>1 DEF Stop
  <2>4. \/ EndOffset(curEntry', s) = stop /\ curEntry'.offset <= stop
        \/ ~(curEntry'.offset < EndOffset(curEntry', s))
    BY <1>1, EndIs
  <2>. HIDE DEF stop
  <2>5. \/ /\ endOffset' = Stop' /\ byteOffset' <= endOffset'
           /\ lastCompletedType' \in {"DATA", "END"} => byteOffset' = endOffset'
        \/ /\ byteOffset' = curEntry'.offset /\ ~(byteOffset' < endOffset')
           /\ lastCompletedType' \in {"START", "CANCEL"}
    BY <1>1, <2>3, <2>4
  <2>6. curEntry'.offset < size' /\ curEntry'.offset <= byteOffset'
    BY <1>1
  <2>. QED
    BY <1>1, <2>1, <2>2, <2>5, <2>6 DEF SentSoFar
<1>. QED
  BY <1>7, <1>8

(* The packet that ends a file, or breaks it off.                          *)
LEMMA SendLastFile ==
    ASSUME DownlinkAssumption, TypeOK, Numbered, SentSoFar, NEW b \in out, SendCancel(b) \/ SendEnd(b)
    PROVE  Numbered' /\ SentSoFar'
<1>. DEFINE cancel == [type |-> "CANCEL", seq |-> sequenceIndex]
            end    == [type |-> "END", seq |-> sequenceIndex, checksum |-> checksum]
            p      == IF SendCancel(b) THEN cancel ELSE end
            n      == Len(sent)
<1>1. /\ Busy /\ UNCHANGED <<file, curEntry>> /\ lastCompletedType' \in {"CANCEL", "END"}
      /\ lastCompletedType \in {"START", "DATA"}
      /\ lastCompletedType' = "END" => lastCompletedType = "DATA"
  BY DEF SendCancel, SendEnd, Expected, WaitAfter, Busy, requests
<1>2. sent' = Append(sent, p)
  BY DEF SendCancel, SendEnd, SendFilePacket, Buffer
<1>3. /\ p \in Packets /\ p.seq = sequenceIndex /\ p.type = lastCompletedType'
      /\ p.type = "END" => p.checksum = checksum
  <2>1. sequenceIndex \in Nat /\ checksum \in Seq(Nat)
    BY DEF TypeOK
  <2>2. CASE SendCancel(b)
    <3>1. p = cancel /\ lastCompletedType' = "CANCEL"
      BY <2>2 DEF SendCancel, WaitAfter
    <3>. QED
      BY <2>1, <3>1 DEF Packets
  <2>3. CASE ~SendCancel(b)
    <3>1. p = end /\ lastCompletedType' = "END"
      BY <2>3 DEF SendEnd, WaitAfter
    <3>. QED
      BY <2>1, <3>1 DEF Packets
  <2>. QED
    BY <2>2, <2>3
<1>. HIDE DEF p
<1>4. /\ sent \in Seq(Packets) /\ n >= 1 /\ sequenceIndex = n
      /\ sent[1] = [type |-> "START", seq |-> 0, size |-> size]
      /\ \A i \in 2 .. n : sent[i].seq = i - 1 /\ sent[i].type = "DATA"
  BY <1>1 DEF Numbered
<1>. HIDE DEF n
<1>5. /\ sent' \in Seq(Packets) /\ Len(sent') = n + 1 /\ n \in Nat
      /\ sent'[1] = sent[1] /\ sent'[n + 1] = p /\ \A i \in 2 .. n : sent'[i] = sent[i]
  BY <1>2, <1>3, <1>4, SentNext DEF n
<1>6. Numbered'
  <2>1. ASSUME NEW i \in 2 .. n + 1 PROVE i = n + 1 \/ i \in 2 .. n
    BY <1>5
  <2>2. \A i \in 2 .. n + 1 : sent'[i].seq = i - 1
    BY <1>3, <1>4, <1>5, <2>1
  <2>3. \A i \in 2 .. n + 1 : sent'[i].type # "DATA" =>
            i = n + 1 /\ sent'[i].type = lastCompletedType' /\ sent'[i].type \in {"END", "CANCEL"}
    BY <1>1, <1>3, <1>4, <1>5, <2>1
  <2>4. sent'[1] = [type |-> "START", seq |-> 0, size |-> size'] /\ checksum' = checksum /\ n + 1 >= 1
    BY <1>1, <1>4, <1>5 DEF file
  <2>. QED
    BY <1>1, <1>3, <1>5, <2>2, <2>3, <2>4 DEF Numbered
<1>7. SentSoFar'
  <2>1. DataIn(sent') = DataIn(sent)
    <3>1. DataIn(sent) \in Seq(Nat) /\ DataIn(sent') = DataIn(sent) \o DataOf(p)
      BY <1>2, <1>3, <1>4, DataInGrows
    <3>2. DataOf(p) = <<>>
      BY <1>1, <1>3 DEF DataOf
    <3>. QED
      BY <3>1, <3>2
  <2>2. Stop' = Stop
    BY <1>1 DEF Stop, file
  <2>. QED
    BY <1>1, <2>1, <2>2 DEF SentSoFar, file
<1>. QED
  BY <1>6, <1>7

LEMMA SendDataFile ==
    ASSUME DownlinkAssumption, TypeOK, DataIsLeft, Numbered, SentSoFar, NEW b \in out, SendData(b)
    PROVE  Numbered' /\ SentSoFar'
<1>. DEFINE next == byteOffset + DataSize
            data == [i \in 1 .. DataSize |-> byteOffset + i - 1]
            p    == [type |-> "DATA", seq |-> sequenceIndex, data |-> data]
            n    == Len(sent)
<1>1. /\ Busy /\ UNCHANGED <<endOffset, size, curEntry>> /\ lastCompletedType = "START"
      /\ sequenceIndex' = sequenceIndex + 1 /\ checksum' = checksum \o data
      /\ byteOffset' = (byteOffset + DataSize) % Word
      /\ lastCompletedType' = IF (DataSize + byteOffset) % Word = endOffset THEN "DATA" ELSE "START"
      /\ byteOffset < endOffset
  BY DEF SendData, NextData, Expected, WaitAfter, Busy, requests
<1>2. sent' = Append(sent, p)
  BY DEF SendData, SendFilePacket, Buffer
<1>3. /\ byteOffset \in Nat /\ endOffset \in Nat /\ Word \in Nat \ {0}
      /\ MaxData \in Nat \ {0} /\ endOffset <= Word - MaxData
  BY <1>1 DEF TypeOK, DownlinkAssumption, DataIsLeft
<1>4. (byteOffset + MaxData) % Word = byteOffset + MaxData
  <2>1. byteOffset + MaxData \in Nat /\ byteOffset + MaxData < Word
    BY <1>1, <1>3
  <2>. QED
    BY <1>3, <2>1, Remainder
<1>5. DataSize \in Nat /\ next \in Nat /\ next <= endOffset /\ byteOffset <= next /\ next < Word
  BY <1>1, <1>3, <1>4 DEF DataSize
<1>6. byteOffset' = next /\ (DataSize + byteOffset) % Word = next
  <2>1. DataSize + byteOffset = next
    BY <1>3, <1>5
  <2>2. next % Word = next
    <3>. HIDE DEF next
    <3>. QED
      BY <1>3, <1>5, Remainder
  <2>. QED
    BY <1>1, <2>1, <2>2
<1>7. data = Bytes(byteOffset, next) /\ data \in Seq(Nat)
  <2>1. next - byteOffset = DataSize
    BY <1>3, <1>5
  <2>2. data = Bytes(byteOffset, next)
    BY <2>1 DEF Bytes
  <2>. HIDE DEF data, next
  <2>. QED
    BY <1>3, <1>5, <2>2, BytesType
<1>. HIDE DEF data, next
<1>8. p \in Packets /\ p.type = "DATA" /\ p.seq = sequenceIndex /\ p.data = data
  BY <1>7 DEF Packets, TypeOK
<1>. HIDE DEF p
<1>9. /\ sent \in Seq(Packets) /\ n >= 1 /\ sequenceIndex = n
      /\ sent[1] = [type |-> "START", seq |-> 0, size |-> size]
      /\ \A i \in 2 .. n : sent[i].seq = i - 1 /\ sent[i].type = "DATA"
  BY <1>1 DEF Numbered
<1>. HIDE DEF n
<1>10. /\ sent' \in Seq(Packets) /\ Len(sent') = n + 1 /\ n \in Nat
       /\ sent'[1] = sent[1] /\ sent'[n + 1] = p /\ \A i \in 2 .. n : sent'[i] = sent[i]
  BY <1>2, <1>8, <1>9, SentNext DEF n
<1>11. Numbered'
  <2>1. ASSUME NEW i \in 2 .. n + 1 PROVE i = n + 1 \/ i \in 2 .. n
    BY <1>10
  <2>2. ASSUME NEW i \in 2 .. n + 1 PROVE sent'[i].seq = i - 1 /\ sent'[i].type = "DATA"
    <3>1. CASE i = n + 1
      BY <1>8, <1>9, <1>10, <3>1
    <3>2. CASE i \in 2 .. n
      BY <1>9, <1>10, <3>2
    <3>. QED
      BY <2>1, <3>1, <3>2
  <2>3. sent'[Len(sent')].type # "END"
    BY <1>8, <1>10
  <2>4. sent'[1] = [type |-> "START", seq |-> 0, size |-> size'] /\ n + 1 >= 1 /\ sequenceIndex' = n + 1
    BY <1>1, <1>9, <1>10
  <2>. QED
    BY <1>10, <2>2, <2>3, <2>4 DEF Numbered
<1>12. SentSoFar'
  <2>. DEFINE from == curEntry.offset
  <2>1. /\ curEntry \in Entries /\ from < size /\ from <= byteOffset
        /\ checksum = DataIn(sent) /\ checksum = Bytes(from, byteOffset) /\ endOffset = Stop
    BY <1>1 DEF SentSoFar
  <2>2. from \in Nat
    BY <2>1 DEF Entries, DownlinkAssumption
  <2>. HIDE DEF from
  <2>3. checksum' = Bytes(from, next) /\ from <= next
    <3>1. Bytes(from, byteOffset) \o Bytes(byteOffset, next) = Bytes(from, next)
      BY <1>3, <1>5, <2>1, <2>2, BytesJoined
    <3>2. from <= next
      BY <1>3, <1>5, <2>1, <2>2
    <3>. QED
      BY <1>1, <1>7, <2>1, <3>1, <3>2
  <2>4. DataIn(sent') = checksum'
    <3>1. DataIn(sent') = DataIn(sent) \o DataOf(p)
      BY <1>2, <1>8, <1>9, DataInGrows
    <3>2. DataOf(p) = data
      BY <1>8 DEF DataOf
    <3>. QED
      BY <1>1, <2>1, <3>1, <3>2
  <2>5. Stop' = Stop
    BY <1>1 DEF Stop
  <2>6. lastCompletedType' \in {"DATA", "END"} => next = endOffset
    BY <1>1, <1>6
  <2>. QED
    BY <1>1, <1>5, <1>6, <2>1, <2>3, <2>4, <2>5, <2>6 DEF SentSoFar, from
<1>. QED
  BY <1>11, <1>12

LEMMA FileStep ==
    ASSUME DownlinkAssumption, TypeOK, DataIsLeft, Numbered, SentSoFar, [Next]_vars
    PROVE  Numbered' /\ SentSoFar'
<1>1. CASE Cancel \/ RunCooldown \/ RunWait \/ UNCHANGED vars
  BY <1>1, QuietFile DEF Cancel, RunCooldown, RunWait, vars, control, buffers, requests, Busy
<1>2. ASSUME NEW r \in Requests, Request(r) PROVE Numbered' /\ SentSoFar'
  BY <1>2, QuietFile DEF Request, control, buffers, Busy
<1>3. ASSUME ~Busy' PROVE Numbered' /\ SentSoFar'
  BY <1>3 DEF Numbered, SentSoFar
<1>4. CASE OpenFails \/ RunTimeout \/ \E s \in Sizes : StartsBeyond(s)
  BY <1>3, <1>4 DEF OpenFails, RunTimeout, StartsBeyond, TakeRequest, EnterCooldown, control, Busy
<1>5. ASSUME NEW s \in Sizes, SendStart(s) PROVE Numbered' /\ SentSoFar'
  BY <1>5, SendStartFile
<1>6. ASSUME NEW b \in out,
             \/ LoseBuffer(b) \/ IgnoredReturn(b) \/ RefusedReturn(b) \/ EmptyRange(b) \/ ShortRead(b)
      PROVE  Numbered' /\ SentSoFar'
  BY <1>6, QuietFile
  DEF LoseBuffer, IgnoredReturn, RefusedReturn, EmptyRange, ShortRead, Halt, control, buffers, requests, Busy
<1>7. ASSUME NEW b \in out, FinishFile(b) \/ ReadFails(b) PROVE Numbered' /\ SentSoFar'
  BY <1>3, <1>7 DEF FinishFile, ReadFails, EnterCooldown, Busy
<1>8. ASSUME NEW b \in out, SendCancel(b) \/ SendEnd(b) PROVE Numbered' /\ SentSoFar'
  BY <1>8, SendLastFile
<1>9. ASSUME NEW b \in out, SendData(b) PROVE Numbered' /\ SentSoFar'
  BY <1>9, SendDataFile
<1>. QED
  BY <1>1, <1>2, <1>4, <1>5, <1>6, <1>7, <1>8, <1>9 DEF Next, Run, RunIdle, BufferReturn

LEMMA PrefixOfBytes ==
    ASSUME NEW a \in Nat, NEW b \in Nat, NEW c \in Nat, a <= b, b <= c
    PROVE  IsPrefix(Bytes(a, b), Bytes(a, c))
<1>. DEFINE s == Bytes(a, b)
            u == Bytes(a, c)
<1>1. s \in Seq(Nat) /\ Len(s) = b - a /\ \A i \in 1 .. b - a : s[i] = a + i - 1
  BY BytesType
<1>2. u \in Seq(Nat) /\ Len(u) = c - a /\ \A i \in 1 .. c - a : u[i] = a + i - 1
  <2>1. a <= c
    OBVIOUS
  <2>. QED
    BY <2>1, BytesType
<1>. HIDE DEF s, u
<1>3. Len(s) <= Len(u) /\ Len(s) \in Nat /\ 1 <= Len(s) + 1
  BY <1>1, <1>2
<1>. DEFINE n == Len(s)
            x == SubSeq(s, 1, n)
            y == SubSeq(u, 1, n)
<1>4. n = b - a /\ n \in Nat /\ n <= Len(u) /\ 1 \in Nat \ {0}
  BY <1>1, <1>3
<1>. HIDE DEF n
<1>5. /\ x \in Seq(Nat) /\ Len(x) = n - 1 + 1 /\ \A i \in 1 .. n - 1 + 1 : x[i] = s[1 + i - 1]
  BY <1>1, <1>3, <1>4, SubSeqIs DEF n
<1>6. /\ y \in Seq(Nat) /\ Len(y) = n - 1 + 1 /\ \A i \in 1 .. n - 1 + 1 : y[i] = u[1 + i - 1]
  BY <1>2, <1>3, <1>4, SubSeqIs DEF n
<1>. HIDE DEF x, y
<1>7. ASSUME NEW i \in 1 .. Len(x) PROVE x[i] = y[i]
  <2>1. i \in 1 .. n - 1 + 1 /\ 1 + i - 1 = i /\ i \in 1 .. b - a /\ i \in 1 .. c - a
    BY <1>4, <1>5
  <2>. QED
    BY <1>1, <1>2, <1>5, <1>6, <2>1
<1>8. x = y
  BY <1>5, <1>6, <1>7, SameSeq
<1>. QED
  BY <1>3, <1>8 DEF IsPrefix, x, y, n, s, u

LEMMA FileIsWanted ==
    ASSUME DownlinkAssumption, TypeOK, Numbered, SentSoFar PROVE PacketsAreTheFile
<1>. SUFFICES ASSUME Busy
     PROVE  /\ sent[1] = [type |-> "START", seq |-> 0, size |-> size]
            /\ \A i \in 2 .. Len(sent) : sent[i].seq = i - 1
                                      /\ sent[i].type # "DATA" => i = Len(sent) /\ sent[i].type \in {"END", "CANCEL"}
            /\ IsPrefix(DataSent, Wanted(curEntry))
            /\ Last(sent).type = "END" => DataSent = Wanted(curEntry) /\ Last(sent).checksum = DataSent
  BY DEF PacketsAreTheFile, Busy
<1>. DEFINE from == curEntry.offset
<1>1. /\ curEntry \in Entries /\ from < size /\ from <= byteOffset
      /\ checksum = DataIn(sent) /\ checksum = Bytes(from, byteOffset)
      /\ \/ /\ endOffset = Stop /\ byteOffset <= endOffset
            /\ lastCompletedType \in {"DATA", "END"} => byteOffset = endOffset
         \/ byteOffset = from /\ lastCompletedType \in {"START", "CANCEL"}
  BY DEF SentSoFar
<1>2. DataSent = DataIn(sent)
  BY DEF DataSent, DataIn, DataOf
<1>3. Wanted(curEntry) = Bytes(from, Stop)
  BY DEF Wanted, Bytes, Stop
<1>4. from \in Nat /\ byteOffset \in Nat /\ size \in Nat /\ curEntry.length \in Nat
  BY <1>1 DEF TypeOK, Entries, DownlinkAssumption
<1>5. Stop \in Nat /\ from <= Stop
  BY <1>1, <1>4 DEF Stop
<1>. HIDE DEF from
<1>6. byteOffset <= Stop
  BY <1>1, <1>4, <1>5
<1>7. IsPrefix(DataSent, Wanted(curEntry))
  BY <1>1, <1>2, <1>3, <1>4, <1>5, <1>6, PrefixOfBytes
<1>8. Last(sent).type = "END" => DataSent = Wanted(curEntry) /\ Last(sent).checksum = DataSent
  <2>. SUFFICES ASSUME Last(sent).type = "END"
                PROVE  DataSent = Wanted(curEntry) /\ Last(sent).checksum = DataSent
    OBVIOUS
  <2>1. sent[Len(sent)].type = "END" /\ Last(sent) = sent[Len(sent)]
    BY DEF Last
  <2>2. Len(sent) \in 2 .. Len(sent)
    <3>1. Len(sent) \in Nat /\ Len(sent) >= 1 /\ sent[1].type = "START"
      BY DEF Numbered
    <3>. QED
      BY <2>1, <3>1
  <2>3. lastCompletedType = "END" /\ sent[Len(sent)].checksum = checksum
    BY <2>1, <2>2 DEF Numbered
  <2>4. byteOffset = Stop
    BY <1>1, <2>3
  <2>. QED
    BY <1>1, <1>2, <1>3, <2>1, <2>3, <2>4
<1>. QED
  BY <1>7, <1>8 DEF Numbered

(* The packets of every file that ends a packet before the word does are   *)
(* what was asked for, whatever the range, the sizes and the cancels.      *)
THEOREM FileIsSent == ASSUME DownlinkAssumption, FilesFit PROVE Spec => []PacketsAreTheFile
<1>1. Init => DataIsLeft /\ Numbered /\ SentSoFar
  <2>1. Init => ~Busy
    BY DEF Init, Busy
  <2>. QED
    BY <2>1 DEF DataIsLeft, Numbered, SentSoFar
<1>2. Safe /\ DataIsLeft /\ [Next]_vars => DataIsLeft'
  BY RangeStep DEF Safe
<1>3. Safe /\ DataIsLeft /\ Numbered /\ SentSoFar /\ [Next]_vars => Numbered' /\ SentSoFar'
  BY FileStep DEF Safe
<1>4. Safe /\ Numbered /\ SentSoFar => PacketsAreTheFile
  BY FileIsWanted DEF Safe
<1>. QED
  BY <1>1, <1>2, <1>3, <1>4, Safety, PTL DEF Spec
=============================================================================
