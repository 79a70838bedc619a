------------------------------ MODULE FileUplink ------------------------------
(* The file uplink component, Svc/FileUplink: it writes the packets of     *)
(* files as they come from the ground to the disk.  The ground sends one   *)
(* file after the other; the link loses packets, repeats them and brings   *)
(* them in another order.                                                  *)
(*                                                                         *)
(* A byte is a number below ByteValues; a data packet carries one.  The    *)
(* file is open while the mode is DATA.                                    *)
EXTENDS Integers, Sequences, FiniteSets, SequencesExt

CONSTANTS
    Uploads,    \* what the ground sends: a sequence of [name, data]
    Disk,       \* what the disk holds at first: a function from names to bytes
    ByteValues, \* 256
    WordMod,    \* 2^32: offsets and sizes are U32
    Window,     \* bound: packets under way at a time
    MaxRepeats  \* bound: packets that come and come again

UplinkAssumption ==
    /\ ByteValues \in Nat \ {0, 1} /\ WordMod \in Nat
    /\ Window \in Nat /\ MaxRepeats \in Nat
    /\ DOMAIN Disk = {Uploads[u].name : u \in DOMAIN Uploads}
    /\ \A u \in DOMAIN Uploads : /\ Uploads[u].data \in Seq(0 .. ByteValues - 1)
                                 /\ Len(Uploads[u].data) < WordMod

VARIABLES
    upload, next,   \* the ground: the file it sends, and the number of the next packet
    link,           \* the packets under way
    receiveMode, lastSequenceIndex,
    name, size, checksum,    \* of the open file
    disk,
    warned,         \* a warning was issued since the last START packet
    received,       \* of the file closed last: the upload whose END closed it, its bytes, and no warning of it
    repeats,        \* packets that came and will come again
    halted          \* the assertion on the length of a write has failed

ground   == <<upload, next>>
openFile == <<name, size, checksum>>
vars == <<ground, link, receiveMode, lastSequenceIndex, openFile, disk, warned, received, repeats, halted>>

Init ==
    /\ upload = 1 /\ next = 0 /\ link = {}
    /\ receiveMode = "START" /\ lastSequenceIndex = 0
    /\ name = "" /\ size = 0 /\ checksum = 0
    /\ disk = Disk /\ warned = FALSE
    /\ received = [upload |-> 0, bytes |-> <<>>, quiet |-> FALSE]
    /\ repeats = 0 /\ halted = FALSE

-----------------------------------------------------------------------------
(* CFDP::Checksum: a byte counts by its place in a word of four.           *)
AddByteAtOffset(value, byte, offset) ==
    (value + byte * (ByteValues ^ (3 - (offset % 4)))) % (ByteValues ^ 4)
ChecksumOf(data) ==
    FoldLeft(LAMBDA value, i : AddByteAtOffset(value, data[i], i - 1), 0, [i \in DOMAIN data |-> i])

(* Packet n of upload u: START, a DATA for each byte, END.                 *)
Packet(u, n) ==
    LET data == Uploads[u].data
    IN  CASE n = 0 -> [type |-> "START", upload |-> u, name |-> Uploads[u].name, size |-> Len(data)]
          [] n \in DOMAIN data -> [type |-> "DATA", seq |-> n, offset |-> n - 1, byte |-> data[n]]
          [] OTHER -> [type |-> "END", upload |-> u, seq |-> n, checksum |-> ChecksumOf(data)]

Sending == upload <= Len(Uploads) /\ Cardinality(link) < Window

Send ==
    /\ Sending
    /\ link' = link \cup {Packet(upload, next)}
    /\ IF next > Len(Uploads[upload].data)
       THEN upload' = upload + 1 /\ next' = 0
       ELSE next' = next + 1 /\ UNCHANGED upload
    /\ UNCHANGED <<receiveMode, lastSequenceIndex, openFile, disk, warned, received, repeats, halted>>

(* The ground gives a file up.                                             *)
SendCancel ==
    /\ Sending /\ next > 0
    /\ link' = link \cup {[type |-> "CANCEL"]}
    /\ upload' = upload + 1 /\ next' = 0
    /\ UNCHANGED <<receiveMode, lastSequenceIndex, openFile, disk, warned, received, repeats, halted>>

Lose(p) ==
    /\ link' = link \ {p}
    /\ UNCHANGED <<ground, receiveMode, lastSequenceIndex, openFile, disk, warned, received, repeats, halted>>

(* p comes, and may come again.                                            *)
Arrive(p) ==
    /\ UNCHANGED ground
    /\ \/ link' = link \ {p} /\ UNCHANGED repeats
       \/ repeats < MaxRepeats /\ repeats' = repeats + 1 /\ UNCHANGED link

-----------------------------------------------------------------------------
GoToStartMode == receiveMode' = "START" /\ lastSequenceIndex' = 0

(* A START in DATA mode is warned of and closes the file that was open;    *)
(* whether or not it opens, the new file's attributes are set.             *)
HandleStart(p) ==
    /\ p.type = "START" /\ Arrive(p)
    /\ name' = p.name /\ size' = p.size /\ checksum' = 0
    /\ \/ /\ receiveMode' = "DATA" /\ lastSequenceIndex' = 0
          /\ warned' = FALSE
       \/ GoToStartMode /\ warned' = TRUE         \* fileOpen
    /\ UNCHANGED <<disk, received, halted>>

OutOfOrder(p) == p.seq # lastSequenceIndex + 1

(* The file on disk after one byte was written into it.                    *)
Written(bytes, offset, byte) ==
    [i \in 1 .. (IF offset + 1 > Len(bytes) THEN offset + 1 ELSE Len(bytes)) |->
        IF i = offset + 1 THEN byte ELSE IF i <= Len(bytes) THEN bytes[i] ELSE 0]

(* byteOffset + dataSize is a sum of 32 bits.  What the ground cuts from a *)
(* file has offsets below its size, so that the sum does not wrap.         *)
InBounds(p) == (p.offset + 1) % WordMod <= size

HandleData(p) ==
    /\ p.type = "DATA" /\ receiveMode = "DATA" /\ Arrive(p)
    /\ lastSequenceIndex' = p.seq
    /\ \/ /\ InBounds(p)
          /\ disk' = [disk EXCEPT ![name] = Written(@, p.offset, p.byte)]
          /\ checksum' = AddByteAtOffset(checksum, p.byte, p.offset)
          /\ warned' = (warned \/ OutOfOrder(p))
          /\ UNCHANGED halted
       \/ /\ ~InBounds(p)                         \* packetOutOfBounds
          /\ warned' = TRUE
          /\ UNCHANGED <<disk, checksum, halted>>
       \/ /\ InBounds(p)                          \* fileWrite
          /\ warned' = TRUE
          /\ UNCHANGED <<disk, checksum, halted>>
       \/ /\ InBounds(p)                          \* a write that is cut short
          /\ halted' = TRUE
          /\ UNCHANGED <<disk, checksum, warned>>
    /\ UNCHANGED <<receiveMode, name, size, received>>

(* A mutant: the numbers of the packets are checked, the checksum is not.  *)
MutantHandleEnd(p) ==
    /\ p.type = "END" /\ receiveMode = "DATA" /\ Arrive(p)
    /\ warned' = (warned \/ OutOfOrder(p))
    /\ received' = [upload |-> p.upload, bytes |-> disk[name], quiet |-> ~warned']
    /\ GoToStartMode
    /\ UNCHANGED <<openFile, disk, halted>>

HandleEnd(p) ==
    /\ p.type = "END" /\ receiveMode = "DATA" /\ Arrive(p)
    /\ warned' = (warned \/ OutOfOrder(p) \/ checksum # p.checksum)
    /\ received' = [upload |-> p.upload, bytes |-> disk[name], quiet |-> ~warned']
    /\ GoToStartMode
    /\ UNCHANGED <<openFile, disk, halted>>

(* DATA and END in START mode: invalidReceiveMode.                         *)
HandleUnexpected(p) ==
    /\ p.type \in {"DATA", "END"} /\ receiveMode = "START" /\ Arrive(p)
    /\ warned' = TRUE
    /\ IF p.type = "END" THEN GoToStartMode ELSE UNCHANGED <<receiveMode, lastSequenceIndex>>
    /\ UNCHANGED <<openFile, disk, received, halted>>

HandleCancel(p) ==
    /\ p.type = "CANCEL" /\ Arrive(p)
    /\ GoToStartMode
    /\ UNCHANGED <<openFile, disk, warned, received, halted>>

BufferSendIn(p) ==
    HandleStart(p) \/ HandleData(p) \/ HandleEnd(p) \/ HandleUnexpected(p) \/ HandleCancel(p)

Next ==
    /\ ~halted
    /\ Send \/ SendCancel \/ \E p \in link : Lose(p) \/ BufferSendIn(p)

Spec == Init /\ [][Next]_vars

-----------------------------------------------------------------------------
TypeOK ==
    /\ upload \in 1 .. Len(Uploads) + 1 /\ next \in Nat
    /\ receiveMode \in {"START", "DATA"} /\ lastSequenceIndex \in Nat
    /\ size \in Nat /\ checksum \in 0 .. (ByteValues ^ 4) - 1
    /\ receiveMode = "DATA" => name \in DOMAIN disk
    /\ disk \in [DOMAIN Disk -> Seq(0 .. ByteValues - 1)]
    /\ warned \in BOOLEAN /\ halted \in BOOLEAN /\ repeats \in 0 .. MaxRepeats

(* A file that is closed without a warning since its START begins with the *)
(* bytes of the file whose END closed it, every one in its place, whatever *)
(* the link did: a file may get another one's name, when the packets from  *)
(* one START to the next are lost together, but not a mixture of bytes     *)
(* (FileUplink.cpp:150).                                                   *)
QuietFileIsWhole ==
    received.quiet => IsPrefix(Uploads[received.upload].data, received.bytes)
=============================================================================
