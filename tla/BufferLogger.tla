----------------------------- MODULE BufferLogger -----------------------------
(* Svc::BufferLogger appends buffers, each behind its size, to files of at *)
(* most maxSize bytes.  Files are named by a base name that a command sets *)
(* and a counter.  Everything happens on the component's thread; the disk  *)
(* may refuse to open a file, and may write a part of what it is given.    *)
(*                                                                         *)
(* A name is the sequence of its characters, each a number, and of the     *)
(* number at its end: the first file of the base name a is a, the next one *)
(* a1, and so on to a9; another base name may be a1.  A byte is a digit in *)
(* base ByteBase.                                                          *)
EXTENDS Naturals, Sequences, SequencesExt

CONSTANTS
    BaseNames,   \* the base names that a command may give
    Buffers,     \* the buffers that come, sequences of bytes
    ByteBase,    \* 256: the values of a byte
    sizeOfSize,  \* in initLog: bytes of a buffer's size in the file
    maxSize,     \* in initLog: bytes of a file
    MaxLogs,     \* bound: buffers logged in the program's life
    MaxFailures, \* bound: files not opened and writes cut short
    MaxCommands  \* bound: commands

LoggerAssumption ==
    /\ ByteBase \in Nat \ {0, 1}
    /\ sizeOfSize \in 0 .. 4 /\ maxSize \in Nat /\ maxSize > sizeOfSize
    /\ Buffers \subseteq Seq(0 .. ByteBase - 1)
    /\ BaseNames \subseteq Seq(Nat) \ {<<>>}
    /\ {MaxLogs, MaxFailures, MaxCommands} \subseteq Nat

VARIABLES
    m_state,      \* whether LOGGING_ON
    mode,         \* m_file.mode: "OPEN" or "CLOSED"
    baseName,     \* <<>> until a command sets it
    fileCounter,
    logName,      \* the file that is open or was last
    bytesWritten,
    offset,       \* where the next byte goes in the open file
    logFiles,     \* the files: name to contents
    logHalted,    \* the assertion of writeBytes has failed
    logs, failures, commands,  \* so far
    logged,       \* history: the buffers written since the base name was set
    quiet         \* history: since then no write failed, no buffer was too long for its
                  \* size field, and no file that was opened was there already

fileVars == <<mode, baseName, fileCounter, logName, bytesWritten, offset, logFiles, logHalted,
              failures, logged, quiet>>
logVars == <<m_state, fileVars, logs, commands>>

NoFiles == [n \in {} |-> <<>>]

LogInit ==
    /\ m_state = TRUE
    /\ mode = "CLOSED" /\ baseName = <<>> /\ fileCounter = 0 /\ logName = <<>>
    /\ bytesWritten = 0 /\ offset = 0 /\ logFiles = NoFiles /\ logHalted = FALSE
    /\ logs = 0 /\ failures = 0 /\ commands = 0
    /\ logged = <<>> /\ quiet = TRUE

-----------------------------------------------------------------------------
(* The state of m_file as a record: the handlers make several calls on it. *)
File == [mode |-> mode, baseName |-> baseName, fileCounter |-> fileCounter, name |-> logName,
         bytesWritten |-> bytesWritten, offset |-> offset, disk |-> logFiles, halted |-> logHalted,
         failures |-> failures, logged |-> logged, quiet |-> quiet]

Becomes(f) ==
    /\ mode' = f.mode /\ baseName' = f.baseName /\ fileCounter' = f.fileCounter
    /\ logName' = f.name /\ bytesWritten' = f.bytesWritten /\ offset' = f.offset
    /\ logFiles' = f.disk /\ logHalted' = f.halted /\ failures' = f.failures
    /\ logged' = f.logged /\ quiet' = f.quiet

(* close, and the event about it.                                          *)
Close(f) == [f EXCEPT !.mode = "CLOSED"]

FileName(base, counter) == IF counter = 0 THEN base ELSE Append(base, counter)

(* open, which may fail.  OPEN_WRITE creates a file or takes the one there *)
(* is as it is.                                                            *)
Open(f) ==
    LET n == FileName(f.baseName, f.fileCounter)
    IN  IF f.baseName = <<>> THEN {f}
        ELSE {[f EXCEPT !.mode = "OPEN", !.name = n, !.fileCounter = @ + 1,
                        !.bytesWritten = 0, !.offset = 0,
                        !.disk = [x \in DOMAIN @ \cup {n} |-> IF x \in DOMAIN @ THEN @[x] ELSE <<>>],
                        !.quiet = @ /\ n \notin DOMAIN f.disk]}
             \cup (IF f.failures < MaxFailures
                   THEN {[f EXCEPT !.name = n, !.failures = @ + 1]} ELSE {})

Over(contents, at, bytes) ==
    SubSeq(contents, 1, at) \o bytes \o SubSeq(contents, at + Len(bytes) + 1, Len(contents))

(* What is on the disk after the first k of the bytes are written.         *)
Written(f, bytes, k) ==
    [f EXCEPT !.disk[f.name] = Over(@, f.offset, SubSeq(bytes, 1, k)), !.offset = @ + k]

(* writeBytes, as a set of what it leaves and whether it succeeded.        *)
WriteBytes(f, bytes) ==
    IF bytes = <<>> THEN {[f |-> [f EXCEPT !.halted = TRUE], ok |-> FALSE]}
    ELSE {[f |-> [Written(f, bytes, Len(bytes)) EXCEPT !.bytesWritten = @ + Len(bytes)], ok |-> TRUE]}
         \cup (IF f.failures < MaxFailures
               THEN {[f |-> [Written(f, bytes, k) EXCEPT !.failures = @ + 1, !.quiet = FALSE],
                      ok |-> FALSE] : k \in 0 .. Len(bytes) - 1}
               ELSE {})

(* sizeRegister after each turn of writeSize.                              *)
Register(size) ==
    LET shifted[k \in 0 .. sizeOfSize] == IF k = 0 THEN size ELSE shifted[k - 1] \div ByteBase
    IN  shifted

(* The last sizeOfSize digits of the size, the highest first.              *)
SizeBytes(size) == [i \in 1 .. sizeOfSize |-> Register(size)[sizeOfSize - i] % ByteBase]

(* What the last shift leaves is not written.                              *)
SizeFits(size) == Register(size)[sizeOfSize] = 0

(* A mutant: the bytes of the size are not counted.                        *)
MutantWriteBuffer(f, data) ==
    UNION {IF w.ok THEN {[v.f EXCEPT !.logged = IF v.ok THEN Append(@, data) ELSE @,
                                     !.quiet = @ /\ v.ok /\ SizeFits(Len(data)),
                                     !.bytesWritten = @ - sizeOfSize] :
                             v \in WriteBytes(w.f, data)}
           ELSE {w.f} : w \in WriteBytes(f, SizeBytes(Len(data)))}

WriteBuffer(f, data) ==
    UNION {IF w.ok THEN {[v.f EXCEPT !.logged = IF v.ok THEN Append(@, data) ELSE @,
                                     !.quiet = @ /\ v.ok /\ SizeFits(Len(data))] :
                             v \in WriteBytes(w.f, data)}
           ELSE {w.f} : w \in WriteBytes(f, SizeBytes(Len(data)))}

(* logBuffer.                                                              *)
CloseIfFull(f, size) ==
    IF f.mode = "OPEN" /\ f.bytesWritten + sizeOfSize + size > maxSize THEN Close(f) ELSE f

OpenIfClosed(f) == IF f.mode = "CLOSED" THEN Open(f) ELSE {f}

LogBuffer(f, data) ==
    UNION {IF g.mode = "OPEN" THEN WriteBuffer(g, data) ELSE {g} :
               g \in OpenIfClosed(CloseIfFull(f, Len(data)))}

-----------------------------------------------------------------------------
(* bufferSendIn and comIn, which differ in what becomes of the buffer.     *)
BufferIn(data) ==
    /\ logs < MaxLogs /\ logs' = logs + 1
    /\ IF m_state THEN \E f \in LogBuffer(File, data) : Becomes(f) ELSE UNCHANGED fileVars
    /\ UNCHANGED <<m_state, commands>>

BL_OpenFile(base) ==
    /\ \E f \in Open([Close(File) EXCEPT !.baseName = base, !.fileCounter = 0,
                                         !.logged = <<>>, !.quiet = TRUE]) : Becomes(f)
    /\ UNCHANGED m_state

BL_CloseFile == Becomes(Close(File)) /\ UNCHANGED m_state

BL_SetLogging(on) ==
    /\ m_state' = on
    /\ Becomes(IF on THEN File ELSE Close(File))

Command ==
    /\ commands < MaxCommands /\ commands' = commands + 1
    /\ \/ \E base \in BaseNames : BL_OpenFile(base)
       \/ BL_CloseFile
       \/ \E on \in BOOLEAN : BL_SetLogging(on)
    /\ UNCHANGED logs

LogNext == ~ logHalted /\ (Command \/ \E data \in Buffers : BufferIn(data))

LogSpec == LogInit /\ [][LogNext]_logVars

-----------------------------------------------------------------------------
LogTypeOK ==
    /\ m_state \in BOOLEAN /\ logHalted \in BOOLEAN /\ quiet \in BOOLEAN
    /\ mode \in {"OPEN", "CLOSED"}
    /\ baseName \in BaseNames \cup {<<>>} /\ fileCounter \in 0 .. MaxLogs + MaxCommands
    /\ bytesWritten \in Nat /\ offset \in Nat
    /\ \A n \in DOMAIN logFiles : logFiles[n] \in Seq(0 .. ByteBase - 1)
    /\ logged \in Seq(Buffers)
    /\ mode = "OPEN" => logName \in DOMAIN logFiles /\ offset <= Len(logFiles[logName])

(* What a reader of a file gets who takes a size and as many bytes, again  *)
(* and again.                                                              *)
Number(bytes) ==
    LET read[k \in 0 .. Len(bytes)] == IF k = 0 THEN 0 ELSE ByteBase * read[k - 1] + bytes[k]
    IN  read[Len(bytes)]

Torn == <<"torn">>
Records(contents) ==
    LET Size(i) == Number(SubSeq(contents, i, i + sizeOfSize - 1))
        From[i \in 1 .. Len(contents) + 1] ==
            IF i = Len(contents) + 1 THEN <<>>
            ELSE IF i + sizeOfSize - 1 > Len(contents) THEN <<Torn>>
            ELSE LET next == i + sizeOfSize + Size(i)
                 IN  IF next > Len(contents) + 1 THEN <<Torn>>
                     ELSE <<SubSeq(contents, i + sizeOfSize, next - 1)>> \o From[next]
    IN  From[1]

(* Read one after the other, the files of the base name hold the buffers   *)
(* that were logged since it was set, whole and in order, however logging  *)
(* was switched and files were filled, closed and not opened; and a file   *)
(* of more than maxSize bytes holds one buffer.  Not when a write failed,  *)
(* a buffer was too long for its size field, or a file was there already.  *)
LogReadsBack ==
    /\ LogTypeOK
    /\ quiet /\ sizeOfSize > 0 =>
          LET files == [i \in 1 .. fileCounter |-> Records(logFiles[FileName(baseName, i - 1)])]
          IN  /\ logHalted \/ FlattenSeq(files) = logged
              /\ logHalted \/ \A i \in DOMAIN files :
                    Len(logFiles[FileName(baseName, i - 1)]) > maxSize => Len(files[i]) = 1
=============================================================================
