------------------------------ MODULE UplinkPath ------------------------------
(* The way of uplinked bytes: Svc/Deframer with the deframing half of      *)
(* Svc/FramingProtocol/FprimeProtocol and its ring buffer, the pool of     *)
(* Svc/BufferManager that frames are copied into, and the threads that     *)
(* take file packets and give their buffers back.  The driver brings the   *)
(* stream in chunks of any length; framedIn and schedIn are guarded, and   *)
(* the pool is shared with the receivers, one guarded call at a time.      *)
(*                                                                         *)
(* A frame is a start word, the size of its packet, the packet and a hash  *)
(* over all of that: a word or a byte is one cell, a number.               *)
EXTENDS BufferManager, CircularBuffer, SequencesExt

CONSTANTS
    StartWord, PacketCommand, PacketFile,   \* cells with a meaning
    MaxCom,         \* the capacity of a ComBuffer
    MaxChunk,       \* bound: cells that come at once
    MaxStream       \* bound: cells that come

PathAssumption ==
    RingAssumption /\ BuffersAssumption /\ Byte \subseteq Nat /\ {0, StartWord, PacketCommand, PacketFile} \subseteq Byte

Header == 2     \* FpFrameHeader::SIZE
Digest == 1     \* HASH_DIGEST_LENGTH

VARIABLES
    m_inRing,
    data,        \* what is left of the chunk in processBuffer
    pc,          \* "idle", "fill", "deframe" or "route"
    turns,       \* turns of the loop in processRing
    packet,      \* the buffer that route gets: its id and its cells
    held,        \* the buffers that receivers hold, with the size they have
    stream,      \* every cell that came
    delivered,   \* every packet sent, in its order
    dropped,     \* the buffers that came back empty and stay allocated
    halted       \* the assertion that ended the process, or "none"

deframer == <<m_inRing, data, pc, turns, packet>>
history  == <<stream, delivered, dropped>>
pool     == bufferVars
vars == <<deframer, held, history, pool, halted>>

NoPacket == [id |-> 0, cells |-> <<>>]

PathInit ==
    /\ Init
    /\ m_inRing = [m_store |-> [i \in 0 .. Store - 1 |-> 0], m_head_idx |-> 0, m_allocated_size |-> 0]
    /\ data = <<>> /\ pc = "idle" /\ turns = 0 /\ packet = NoPacket
    /\ held = {} /\ stream = <<>> /\ delivered = <<>> /\ dropped = {} /\ halted = "none"

-----------------------------------------------------------------------------
(* Utils::Hash, of which only matters that it depends on every cell.       *)
Hash(cells) == FoldLeft(LAMBDA h, c : (h + c) % Cardinality(Byte), 0, cells)

(* A mutant: a size is not compared with the ring.                         *)
MutantStatus == LET end == Header + Peek(m_inRing, 1)
                IN  IF m_inRing.m_allocated_size < Header THEN "MORE_NEEDED"
                    ELSE IF Peek(m_inRing, 0) # StartWord THEN "INVALID_FORMAT"
                    ELSE IF m_inRing.m_allocated_size < end + Digest THEN "MORE_NEEDED"
                    ELSE IF Hash(SubSeq(Contents(m_inRing), 1, end)) # Peek(m_inRing, end) THEN "INVALID_CHECKSUM"
                    ELSE "SUCCESS"

(* FprimeDeframing::deframe, but for the copy of the packet.  A size that  *)
(* is too large for the ring comes before one that would overflow.         *)
Status == LET end == Header + Peek(m_inRing, 1)
          IN  IF m_inRing.m_allocated_size < Header THEN "MORE_NEEDED"
              ELSE IF Peek(m_inRing, 0) # StartWord THEN "INVALID_FORMAT"
              ELSE IF end + Digest > Store THEN "INVALID_SIZE"
              ELSE IF m_inRing.m_allocated_size < end + Digest THEN "MORE_NEEDED"
              ELSE IF Hash(SubSeq(Contents(m_inRing), 1, end)) # Peek(m_inRing, end) THEN "INVALID_CHECKSUM"
              ELSE "SUCCESS"

-----------------------------------------------------------------------------
(* framedIn, or schedIn with what it polled.                               *)
FramedIn(chunk) ==
    /\ pc = "idle" /\ Len(stream) + Len(chunk) <= MaxStream
    /\ data' = chunk /\ stream' = stream \o chunk /\ pc' = "fill"
    /\ UNCHANGED <<m_inRing, turns, packet, held, delivered, dropped, pool, halted>>

(* processBuffer: as much as the ring has room for.  A turn of its loop    *)
(* that has no room takes nothing, and then data is left at the end.       *)
FillRing ==
    /\ pc = "fill" /\ data # <<>>
    /\ LET n == IF GetFreeSize(m_inRing) <= Len(data) THEN GetFreeSize(m_inRing) ELSE Len(data)
       IN  /\ m_inRing' = Serialize(m_inRing, SubSeq(data, 1, n)) /\ data' = SubSeq(data, n + 1, Len(data))
           /\ halted' = IF n = 0 THEN "remaining" ELSE halted
    /\ pc' = "deframe" /\ turns' = 0
    /\ UNCHANGED <<packet, held, history, pool>>

BufferProcessed ==
    /\ pc = "fill" /\ data = <<>> /\ pc' = "idle"
    /\ UNCHANGED <<m_inRing, data, turns, packet, held, history, pool, halted>>

(* A turn of processRing's loop, by the status of deframe.                 *)
Turn == pc = "deframe" /\ turns < Store

(* The loop ends: without another turn, the assertion after it fails.      *)
Suspend ==
    /\ pc = "deframe"
    /\ turns = Store \/ m_inRing.m_allocated_size = 0 \/ Status = "MORE_NEEDED"
    /\ pc' = "fill" /\ turns' = 0
    /\ halted' = IF turns = Store THEN "remaining" ELSE halted
    /\ UNCHANGED <<m_inRing, data, packet, held, history, pool>>

SkipByte ==
    /\ Turn /\ m_inRing.m_allocated_size > 0
    /\ Status \in {"INVALID_FORMAT", "INVALID_SIZE", "INVALID_CHECKSUM"}
    /\ m_inRing' = Rotate(m_inRing, 1) /\ turns' = turns + 1
    /\ UNCHANGED <<data, pc, packet, held, history, pool, halted>>

Success == Turn /\ m_inRing.m_allocated_size > 0 /\ Status = "SUCCESS"

CopyPacket ==
    LET size == Peek(m_inRing, 1)
    IN  /\ Success /\ Allocate(size)
        /\ packet' = [id |-> FirstOf(Fitting(size)), cells |-> SubSeq(Contents(m_inRing), Header + 1, Header + size)]
        /\ pc' = "route"
        /\ UNCHANGED <<m_inRing, data, turns, held, history, halted>>

(* An empty buffer has no room, and no memory to copy nothing into.        *)
NoBuffer ==
    /\ Success /\ NoBuffsAvailable(Peek(m_inRing, 1))
    /\ halted' = "buffer"
    /\ UNCHANGED <<deframer, held, history>>

(* route: where the packet goes by its type, and what becomes of its buffer.*)
IsCommand(cells) == cells # <<>> /\ cells[1] = PacketCommand /\ Len(cells) <= MaxCom
IsFile(cells)    == cells # <<>> /\ cells[1] = PacketFile

Routed ==
    /\ pc = "route" /\ pc' = "deframe"
    /\ m_inRing' = Rotate(m_inRing, Header + Len(packet.cells) + Digest) /\ turns' = turns + 1
    /\ packet' = NoPacket
    /\ UNCHANGED <<data, stream>>

RouteFile ==
    /\ Routed /\ IsFile(packet.cells)
    /\ held' = held \cup {[id |-> packet.id, size |-> Len(packet.cells) - 1]}
    /\ delivered' = Append(delivered, packet.cells)
    /\ UNCHANGED <<dropped, pool, halted>>

(* A buffer of size n goes back to the pool, whose assertions may fail.    *)
GiveBack(id, n) ==
    /\ SendIn(id, n)
    /\ dropped' = IF n = 0 THEN dropped \cup {id} ELSE dropped
    /\ halted' = IF MayReturn(id, n) THEN halted ELSE "return"

RouteOther ==
    /\ Routed /\ ~IsFile(packet.cells)
    /\ delivered' = IF IsCommand(packet.cells) THEN Append(delivered, packet.cells) ELSE delivered
    /\ GiveBack(packet.id, Len(packet.cells))
    /\ UNCHANGED held

(* A receiver is done with a file packet.                                  *)
ReturnBuffer(b) ==
    /\ held' = held \ {b}
    /\ GiveBack(b.id, b.size)
    /\ UNCHANGED <<deframer, stream, delivered>>

PathNext ==
    /\ halted = "none"
    /\ \/ \E n \in 1 .. MaxChunk : \E chunk \in [1 .. n -> Byte] : FramedIn(chunk)
       \/ FillRing \/ BufferProcessed
       \/ Suspend \/ SkipByte \/ CopyPacket \/ NoBuffer \/ RouteFile \/ RouteOther
       \/ \E b \in held : ReturnBuffer(b)

PathSpec == PathInit /\ [][PathNext]_vars

-----------------------------------------------------------------------------
PathTypeOK ==
    /\ m_inRing \in Rings
    /\ data \in Seq(Byte) /\ stream \in Seq(Byte) /\ delivered \in Seq(Seq(Byte))
    /\ pc \in {"idle", "fill", "deframe", "route"} /\ turns \in 0 .. Store
    /\ packet \in [id : DOMAIN BufferSizes \cup {0}, cells : Seq(Byte)]
    /\ held \subseteq [id : DOMAIN BufferSizes, size : 0 .. Store]
    /\ allocated \subseteq DOMAIN BufferSizes /\ dropped \subseteq DOMAIN BufferSizes

(* The packets to send in a stream that lies open at once: a frame at its  *)
(* front that fits the ring and has its hash is taken, one that is not     *)
(* complete ends the search, and else the first cell is passed over.       *)
Sendable(cells) == IF IsFile(cells) \/ IsCommand(cells) THEN <<cells>> ELSE <<>>
PacketsIn[cells \in Seq(Byte)] ==
    LET end     == Header + cells[2]
        From(i) == PacketsIn[SubSeq(cells, i, Len(cells))]
    IN  IF Len(cells) < Header THEN <<>>
        ELSE IF cells[1] # StartWord \/ end + Digest > Store THEN From(2)
        ELSE IF Len(cells) < end + Digest THEN <<>>
        ELSE IF Hash(SubSeq(cells, 1, end)) # cells[end + 1] THEN From(2)
        ELSE Sendable(SubSeq(cells, Header + 1, end)) \o From(end + Digest + 1)

(* "shall accept a sequence of byte buffers and interpret their            *)
(* concatenated data as a sequence of uplink frames"                       *)
(* (Svc/Deframer/docs/sdd.md:80): wherever the chunks end and the ring     *)
(* wraps, what was sent and what is still to be parsed make up the packets *)
(* of the whole stream.  The process ends for want of a buffer only: the   *)
(* ring always has room for the next byte, the loop of processRing always  *)
(* has turns enough (Deframer.cpp:223, 301), and the pool gets back what   *)
(* it gave.                                                                *)
OnlyForWant == halted \in {"none", "buffer"}
DeframesTheStream ==
    /\ OnlyForWant
    /\ delivered \o PacketsIn[Contents(m_inRing) \o data] = PacketsIn[stream]

(* A buffer is allocated exactly while the deframer or a receiver has it,  *)
(* one of them, or after it came back with the size 0: of a frame without  *)
(* a packet, or with the type of a file packet only, which is cut off      *)
(* (BufferManagerComponentImpl.cpp:95, Deframer.cpp:159).                  *)
InHand == {b.id : b \in held} \cup IF pc = "route" THEN {packet.id} ELSE {}
BuffersAccounted ==
    /\ PathTypeOK
    /\ allocated = InHand \cup dropped /\ InHand \cap dropped = {}
    /\ Cardinality(InHand) = Cardinality(held) + IF pc = "route" THEN 1 ELSE 0
    /\ m_currBuffs = Cardinality(allocated)
=============================================================================
