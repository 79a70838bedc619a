---------------------------- MODULE ServiceProofs ----------------------------
(* Of the components of MCServices: who has a buffer of the pool, for      *)
(* buffers and rings of any size, any stream and any number of receivers;  *)
(* what a Run of each telemetry store sends; when the rate groups are      *)
(* called, and when a slip is reported; what the files of the buffer log   *)
(* hold; what a start of the process finds in the parameter file.          *)
EXTENDS UplinkPath, TlmChan, RateGroups, TlmPacketizer, BufferLogger, PrmDb, FiniteSetTheorems,
        DataLemmas, TLAPS

(* Who has a buffer.                                                       *)

HeldIds == {b.id : b \in held}

(* The frame of the packet at hand is still in the ring, and the loop that *)
(* found it has this turn.                                                 *)
FrameInRing == pc = "route" =>
    /\ Header + Len(packet.cells) + Digest <= m_inRing.m_allocated_size
    /\ turns < Store /\ packet.id \in DOMAIN BufferSizes

(* No two receivers have the same buffer, and none has the one at hand.    *)
Holders ==
    /\ IsFiniteSet(held) /\ Cardinality(HeldIds) = Cardinality(held)
    /\ \A b, other \in held : b.id = other.id => b = other
    /\ pc = "route" => packet.id \notin HeldIds

(* The flags of the pool, and its count of them.                           *)
Flags ==
    /\ allocated = InHand \cup dropped /\ InHand \cap dropped = {}
    /\ m_currBuffs = Cardinality(allocated)

IInv == PathTypeOK /\ FrameInRing /\ Holders /\ Flags

-----------------------------------------------------------------------------
(* The ring.                                                               *)
LEMMA Remainder == ASSUME NEW a \in Int, NEW w \in Nat \ {0} PROVE a % w \in 0 .. w - 1
  OBVIOUS

LEMMA RingFacts ==
    ASSUME PathAssumption, NEW ring \in Rings
    PROVE  /\ Store \in Nat \ {0} /\ ring.m_allocated_size \in 0 .. Store
           /\ ring.m_head_idx \in 0 .. Store - 1 /\ ring.m_store \in [0 .. Store - 1 -> Byte]
           /\ \A i \in Nat : Peek(ring, i) \in Byte
<1>1. /\ Store \in Nat \ {0} /\ ring.m_allocated_size \in 0 .. Store
      /\ ring.m_head_idx \in 0 .. Store - 1 /\ ring.m_store \in [0 .. Store - 1 -> Byte]
  BY DEF PathAssumption, RingAssumption, Rings
<1>2. ASSUME NEW i \in Nat PROVE Peek(ring, i) \in Byte
  <2>1. ring.m_head_idx + i \in Int
    BY <1>1
  <2>2. AdvanceIdx(ring.m_head_idx, i) \in 0 .. Store - 1
    BY <1>1, <2>1, Remainder DEF AdvanceIdx
  <2>. QED
    BY <1>1, <2>2 DEF Peek
<1>. QED
  BY <1>1, <1>2

LEMMA ContentsType ==
    ASSUME PathAssumption, NEW ring \in Rings
    PROVE  Contents(ring) \in Seq(Byte) /\ Len(Contents(ring)) = ring.m_allocated_size
<1>1. \A i \in 1 .. ring.m_allocated_size : Peek(ring, i - 1) \in Byte
  BY RingFacts
<1>2. ring.m_allocated_size \in Nat
  BY RingFacts
<1>. QED
  BY <1>1, <1>2 DEF Contents

LEMMA SubSeqType ==
    ASSUME NEW S, NEW s \in Seq(S), NEW a \in Nat \ {0}, NEW b \in Nat, a <= b + 1, b <= Len(s)
    PROVE  SubSeq(s, a, b) \in Seq(S) /\ Len(SubSeq(s, a, b)) = b - a + 1
  OBVIOUS

LEMMA NotEmpty == ASSUME NEW S, NEW s \in Seq(S), s # <<>> PROVE Len(s) \in Nat \ {0}
  OBVIOUS

LEMMA SerializeType ==
    ASSUME PathAssumption, NEW ring \in Rings, NEW new \in Seq(Byte), Len(new) <= GetFreeSize(ring)
    PROVE  Serialize(ring, new) \in Rings
<1>. DEFINE first == AdvanceIdx(ring.m_head_idx, ring.m_allocated_size)
            cell(idx) == LET i == ((idx - first) % Store) + 1
                         IN  IF i <= Len(new) THEN new[i] ELSE ring.m_store[idx]
<1>1. first \in Int
  <2>1. ring.m_head_idx + ring.m_allocated_size \in Int
    BY RingFacts
  <2>. QED
    BY <2>1, RingFacts, Remainder DEF AdvanceIdx
<1>2. ASSUME NEW idx \in 0 .. Store - 1 PROVE cell(idx) \in Byte
  <2>. DEFINE d == idx - first
  <2>1. d \in Int
    BY <1>1
  <2>2. d % Store \in 0 .. Store - 1
    BY <2>1, RingFacts, Remainder
  <2>. HIDE DEF first, d
  <2>3. (d % Store) + 1 <= Len(new) => new[(d % Store) + 1] \in Byte
    BY <2>2, RingFacts
  <2>4. ring.m_store[idx] \in Byte
    BY RingFacts
  <2>. QED
    BY <2>3, <2>4 DEF d
<1>3. [idx \in 0 .. Store - 1 |-> cell(idx)] \in [0 .. Store - 1 -> Byte]
  BY <1>2
<1>4. ring.m_allocated_size + Len(new) \in 0 .. Store
  BY RingFacts DEF GetFreeSize
<1>5. Serialize(ring, new) =
        [ring EXCEPT !.m_store = [idx \in 0 .. Store - 1 |-> cell(idx)],
                     !.m_allocated_size = ring.m_allocated_size + Len(new)]
  BY DEF Serialize, Rings
<1>. HIDE DEF cell
<1>. QED
  BY <1>3, <1>4, <1>5 DEF Rings

LEMMA RotateType ==
    ASSUME PathAssumption, NEW ring \in Rings, NEW amount \in 0 .. ring.m_allocated_size
    PROVE  Rotate(ring, amount) \in Rings
<1>1. amount \in Nat /\ ring.m_head_idx + amount \in Int /\ ring.m_allocated_size - amount \in 0 .. Store
  BY RingFacts
<1>2. AdvanceIdx(ring.m_head_idx, amount) \in 0 .. Store - 1
  BY <1>1, RingFacts, Remainder DEF AdvanceIdx
<1>. QED
  BY <1>1, <1>2 DEF Rotate, Rings

-----------------------------------------------------------------------------
(* The first buffer that fits is one that fits.                            *)
LEMMA FirstFits ==
    ASSUME PathAssumption, NEW n, Fitting(n) # {}
    PROVE  FirstOf(Fitting(n)) \in Fitting(n)
<1>1. Fitting(n) \in SUBSET Nat
  BY DEF Fitting, PathAssumption, BuffersAssumption
<1>2. \E x \in Fitting(n) : \A y \in Fitting(n) : x <= y
  BY <1>1, HasLeast
<1>. QED
  BY <1>2, Zenon DEF FirstOf

-----------------------------------------------------------------------------
(* Types.                                                                  *)
LEMMA StatusFits ==
    ASSUME PathAssumption, PathTypeOK, Status = "SUCCESS"
    PROVE  /\ Peek(m_inRing, 1) \in Nat
           /\ Header + Peek(m_inRing, 1) + Digest <= m_inRing.m_allocated_size
<1>1. Peek(m_inRing, 1) \in Nat
  BY RingFacts DEF PathTypeOK, PathAssumption
<1>2. ~(m_inRing.m_allocated_size < Header + Peek(m_inRing, 1) + Digest)
  BY DEF Status
<1>. QED
  BY <1>1, <1>2, RingFacts DEF PathTypeOK, Header, Digest

(* The cells behind the header of a frame that is in the ring.             *)
LEMMA CellsType ==
    ASSUME PathAssumption, PathTypeOK, NEW n \in Nat,
           Header + n + Digest <= m_inRing.m_allocated_size
    PROVE  /\ SubSeq(Contents(m_inRing), Header + 1, Header + n) \in Seq(Byte)
           /\ Len(SubSeq(Contents(m_inRing), Header + 1, Header + n)) = n
<1>. DEFINE q  == Contents(m_inRing)
            lo == Header + 1
            hi == Header + n
<1>1. q \in Seq(Byte) /\ Len(q) = m_inRing.m_allocated_size
  BY ContentsType DEF PathTypeOK
<1>2. m_inRing.m_allocated_size \in Nat
  BY RingFacts DEF PathTypeOK
<1>3. /\ lo \in Nat \ {0} /\ hi \in Nat /\ lo <= hi + 1 /\ hi <= m_inRing.m_allocated_size
      /\ hi - lo + 1 = n
  BY <1>2 DEF Header, Digest
<1>. HIDE DEF q, lo, hi
<1>4. SubSeq(q, lo, hi) \in Seq(Byte) /\ Len(SubSeq(q, lo, hi)) = n
  BY <1>1, <1>3, SubSeqType
<1>. QED
  BY <1>4 DEF q, lo, hi

(* What the calls of the pool leave of its types.                          *)
LEMMA PoolType ==
    ASSUME PathAssumption, PathTypeOK
    PROVE  /\ \A n : Allocate(n) => allocated' \subseteq DOMAIN BufferSizes
           /\ \A n : NoBuffsAvailable(n) => allocated' = allocated
           /\ \A id \in DOMAIN BufferSizes, n \in Nat : GiveBack(id, n) =>
                 allocated' \subseteq DOMAIN BufferSizes /\ dropped' \subseteq DOMAIN BufferSizes
<1>1. ASSUME NEW n, Allocate(n) PROVE allocated' \subseteq DOMAIN BufferSizes
  BY <1>1, FirstFits DEF Allocate, Fitting, PathTypeOK
<1>2. ASSUME NEW id \in DOMAIN BufferSizes, NEW n \in Nat, GiveBack(id, n)
      PROVE  allocated' \subseteq DOMAIN BufferSizes /\ dropped' \subseteq DOMAIN BufferSizes
  BY <1>2 DEF GiveBack, SendIn, PathTypeOK
<1>. QED
  BY <1>1, <1>2 DEF NoBuffsAvailable

LEMMA TypeInit == ASSUME PathAssumption PROVE PathInit => IInv
<1>. SUFFICES ASSUME PathInit PROVE IInv
  OBVIOUS
<1>1. m_inRing \in Rings
  BY DEF PathInit, PathAssumption, RingAssumption, Rings
<1>2. PathTypeOK
  BY <1>1 DEF PathInit, Init, PathTypeOK, NoPacket, PathAssumption, RingAssumption
<1>3. HeldIds = {} /\ InHand = {} /\ IsFiniteSet({}) /\ Cardinality({}) = 0
  BY FS_EmptySet DEF PathInit, HeldIds, InHand
<1>. QED
  BY <1>2, <1>3 DEF PathInit, Init, IInv, FrameInRing, Holders, Flags

(* The steps of the deframer that leave the pool alone.                    *)
LEMMA FramedInType ==
    ASSUME PathAssumption, PathTypeOK, NEW n \in 1 .. MaxChunk, NEW chunk \in [1 .. n -> Byte], FramedIn(chunk)
    PROVE  PathTypeOK'
<1>1. chunk \in Seq(Byte)
  OBVIOUS
<1>. QED
  BY <1>1 DEF FramedIn, PathTypeOK, pool, bufferVars

LEMMA FillRingType == ASSUME PathAssumption, PathTypeOK, FillRing PROVE PathTypeOK'
<1>. DEFINE n == IF GetFreeSize(m_inRing) <= Len(data) THEN GetFreeSize(m_inRing) ELSE Len(data)
<1>1. n \in Nat /\ n <= Len(data) /\ n <= GetFreeSize(m_inRing)
  BY RingFacts DEF PathTypeOK, GetFreeSize
<1>2. m_inRing' = Serialize(m_inRing, SubSeq(data, 1, n)) /\ data' = SubSeq(data, n + 1, Len(data))
  BY DEF FillRing
<1>. HIDE DEF n
<1>3. SubSeq(data, 1, n) \in Seq(Byte) /\ Len(SubSeq(data, 1, n)) = n /\ data' \in Seq(Byte)
  BY <1>1, <1>2, SubSeqType DEF PathTypeOK
<1>4. m_inRing' \in Rings
  BY <1>1, <1>2, <1>3, SerializeType DEF PathTypeOK
<1>. QED
  BY <1>3, <1>4, RingFacts DEF FillRing, PathTypeOK, history, pool, bufferVars

LEMMA TurnTypes ==
    ASSUME PathAssumption, PathTypeOK, BufferProcessed \/ Suspend \/ SkipByte
    PROVE  PathTypeOK'
<1>1. ASSUME SkipByte PROVE PathTypeOK'
  <2>1. m_inRing' \in Rings /\ turns' \in 0 .. Store
    BY <1>1, RotateType, RingFacts DEF SkipByte, Turn, PathTypeOK
  <2>. QED
    BY <1>1, <2>1 DEF SkipByte, PathTypeOK, history, pool, bufferVars
<1>2. ASSUME BufferProcessed \/ Suspend PROVE PathTypeOK'
  BY <1>2, RingFacts DEF BufferProcessed, Suspend, PathTypeOK, history, pool, bufferVars
<1>. QED
  BY <1>1, <1>2

LEMMA CopyPacketType ==
    ASSUME PathAssumption, PathTypeOK, CopyPacket
    PROVE  PathTypeOK' /\ FrameInRing' /\ packet'.id \in Fitting(Peek(m_inRing, 1))
<1>. DEFINE size == Peek(m_inRing, 1)
            cells == SubSeq(Contents(m_inRing), Header + 1, Header + size)
<1>1. /\ Allocate(size) /\ packet' = [id |-> FirstOf(Fitting(size)), cells |-> cells]
      /\ Turn /\ pc' = "route" /\ Status = "SUCCESS"
      /\ UNCHANGED <<m_inRing, data, turns, held, history, halted>>
  BY DEF CopyPacket, Success
<1>2. size \in Nat /\ Header + size + Digest <= m_inRing.m_allocated_size
  BY <1>1, StatusFits
<1>3. cells \in Seq(Byte) /\ Len(cells) = size
  BY <1>2, CellsType
<1>4. FirstOf(Fitting(size)) \in Fitting(size) /\ Fitting(size) \subseteq DOMAIN BufferSizes
  BY <1>1, FirstFits DEF Allocate, Fitting
<1>5. allocated' \subseteq DOMAIN BufferSizes
  BY <1>1, PoolType
<1>. HIDE DEF size, cells
<1>6. PathTypeOK'
  <2>. DEFINE id == FirstOf(Fitting(size))
  <2>1. id \in DOMAIN BufferSizes /\ packet' = [id |-> id, cells |-> cells]
    BY <1>1, <1>4
  <2>. HIDE DEF id
  <2>2. packet' \in [id : DOMAIN BufferSizes \cup {0}, cells : Seq(Byte)]
    BY <1>3, <2>1
  <2>3. /\ m_inRing' = m_inRing /\ data' = data /\ turns' = turns /\ held' = held
        /\ stream' = stream /\ delivered' = delivered /\ dropped' = dropped
    BY <1>1 DEF history
  <2>. QED
    BY <1>1, <1>5, <2>2, <2>3, Zenon DEF PathTypeOK
<1>7. FrameInRing'
  BY <1>1, <1>2, <1>3, <1>4 DEF FrameInRing, Turn
<1>. QED
  BY <1>1, <1>4, <1>6, <1>7 DEF size

LEMMA RoutedType ==
    ASSUME PathAssumption, PathTypeOK, FrameInRing, Routed
    PROVE  /\ m_inRing' \in Rings /\ turns' \in 0 .. Store /\ Len(packet.cells) \in 0 .. Store
           /\ packet.id \in DOMAIN BufferSizes /\ packet.cells \in Seq(Byte)
           /\ pc = "route" /\ pc' = "deframe" /\ packet' = NoPacket /\ UNCHANGED <<data, stream>>
<1>1. packet.cells \in Seq(Byte) /\ Len(packet.cells) \in Nat
  BY DEF PathTypeOK
<1>2. Header + Len(packet.cells) + Digest \in 0 .. m_inRing.m_allocated_size
  BY <1>1, RingFacts DEF Routed, FrameInRing, PathTypeOK, Header, Digest
<1>3. m_inRing' \in Rings
  BY <1>2, RotateType DEF Routed, PathTypeOK
<1>. QED
  BY <1>1, <1>2, <1>3, RingFacts DEF Routed, FrameInRing, PathTypeOK, Header, Digest

LEMMA RouteType ==
    ASSUME PathAssumption, PathTypeOK, FrameInRing, RouteFile \/ RouteOther
    PROVE  PathTypeOK'
<1>1. Routed
  BY DEF RouteFile, RouteOther
<1>2. NoPacket \in [id : DOMAIN BufferSizes \cup {0}, cells : Seq(Byte)]
  BY DEF NoPacket
<1>3. ASSUME RouteFile PROVE PathTypeOK'
  <2>1. /\ packet.cells # <<>> /\ dropped' = dropped /\ pool' = pool
        /\ held' = held \cup {[id |-> packet.id, size |-> Len(packet.cells) - 1]}
        /\ delivered' = Append(delivered, packet.cells)
    BY <1>3 DEF RouteFile, IsFile
  <2>2. Len(packet.cells) - 1 \in 0 .. Store
    BY <1>1, <2>1, RoutedType, NotEmpty, RingFacts DEF PathTypeOK
  <2>3. held' \subseteq [id : DOMAIN BufferSizes, size : 0 .. Store] /\ delivered' \in Seq(Seq(Byte))
    BY <1>1, <2>1, <2>2, RoutedType DEF PathTypeOK
  <2>. QED
    BY <1>1, <1>2, <2>1, <2>3, RoutedType DEF PathTypeOK, pool, bufferVars
<1>4. ASSUME RouteOther PROVE PathTypeOK'
  <2>1. delivered' \in Seq(Seq(Byte)) /\ held' = held
    BY <1>1, <1>4, RoutedType DEF RouteOther, PathTypeOK
  <2>2. allocated' \subseteq DOMAIN BufferSizes /\ dropped' \subseteq DOMAIN BufferSizes
    BY <1>1, <1>4, RoutedType, PoolType DEF RouteOther
  <2>. QED
    BY <1>1, <1>2, <2>1, <2>2, RoutedType DEF PathTypeOK
<1>. QED
  BY <1>3, <1>4

LEMMA ReturnType ==
    ASSUME PathAssumption, PathTypeOK, NEW b \in held, ReturnBuffer(b)
    PROVE  PathTypeOK'
<1>1. b.id \in DOMAIN BufferSizes /\ b.size \in Nat
  BY RingFacts DEF PathTypeOK
<1>2. allocated' \subseteq DOMAIN BufferSizes /\ dropped' \subseteq DOMAIN BufferSizes
  BY <1>1, PoolType DEF ReturnBuffer
<1>. QED
  BY <1>2 DEF ReturnBuffer, PathTypeOK, deframer

LEMMA TypeStep ==
    ASSUME PathAssumption, PathTypeOK, FrameInRing, [PathNext]_vars
    PROVE  PathTypeOK' /\ FrameInRing'
<1>1. CASE \E n \in 1 .. MaxChunk : \E chunk \in [1 .. n -> Byte] : FramedIn(chunk)
  <2>1. PathTypeOK'
    BY <1>1, FramedInType
  <2>2. FrameInRing'
    BY <1>1 DEF FramedIn, FrameInRing
  <2>. QED
    BY <2>1, <2>2
<1>2. CASE FillRing
  BY <1>2, FillRingType DEF FillRing, FrameInRing
<1>3. CASE BufferProcessed \/ Suspend \/ SkipByte
  BY <1>3, TurnTypes DEF BufferProcessed, Suspend, SkipByte, Turn, FrameInRing
<1>4. CASE CopyPacket
  BY <1>4, CopyPacketType
<1>5. CASE NoBuffer
  BY <1>5 DEF NoBuffer, NoBuffsAvailable, PathTypeOK, FrameInRing, deframer, history
<1>6. CASE RouteFile \/ RouteOther
  <2>1. pc' = "deframe"
    BY <1>6 DEF RouteFile, RouteOther, Routed
  <2>. QED
    BY <1>6, <2>1, RouteType DEF FrameInRing
<1>7. CASE \E b \in held : ReturnBuffer(b)
  <2>1. FrameInRing'
    BY <1>7 DEF ReturnBuffer, FrameInRing, deframer
  <2>. QED
    BY <1>7, <2>1, ReturnType
<1>8. CASE UNCHANGED vars
  BY <1>8 DEF vars, deframer, history, pool, bufferVars, PathTypeOK, FrameInRing
<1>. QED
  BY <1>1, <1>2, <1>3, <1>4, <1>5, <1>6, <1>7, <1>8 DEF PathNext

-----------------------------------------------------------------------------
(* Who has which buffer.                                                   *)
LEMMA InHandIs ==
    /\ pc = "route" => InHand = HeldIds \cup {packet.id}
    /\ pc # "route" => InHand = HeldIds
  BY DEF InHand, HeldIds

LEMMA FlagsFinite == ASSUME PathAssumption, PathTypeOK PROVE IsFiniteSet(allocated)
<1>1. DOMAIN BufferSizes = 1 .. Len(BufferSizes) /\ Len(BufferSizes) \in Nat
  BY DEF PathAssumption, BuffersAssumption
<1>2. IsFiniteSet(DOMAIN BufferSizes)
  BY <1>1, FS_Interval
<1>. QED
  BY <1>2, FS_Subset DEF PathTypeOK

(* Steps that change neither the pool nor who holds.                       *)
LEMMA QuietHolders ==
    ASSUME Holders, Flags, UNCHANGED <<held, dropped, allocated, m_currBuffs>>,
           (pc # "route" /\ pc' # "route") \/ UNCHANGED <<pc, packet>>
    PROVE  Holders' /\ Flags'
<1>1. HeldIds' = HeldIds /\ InHand' = InHand
  BY DEF HeldIds, InHand
<1>. QED
  BY <1>1 DEF Holders, Flags

LEMMA CopyPacketHolders ==
    ASSUME PathAssumption, PathTypeOK, FrameInRing, Holders, Flags, CopyPacket
    PROVE  Holders' /\ Flags'
<1>1. /\ pc = "deframe" /\ pc' = "route" /\ held' = held /\ dropped' = dropped
      /\ packet'.id \in DOMAIN BufferSizes \ allocated
      /\ allocated' = allocated \cup {packet'.id} /\ m_currBuffs' = m_currBuffs + 1
  BY CopyPacketType DEF CopyPacket, Success, Turn, Allocate, Fitting, history
<1>2. HeldIds' = HeldIds
  BY <1>1 DEF HeldIds
<1>3. InHand = HeldIds /\ InHand' = HeldIds \cup {packet'.id}
  BY <1>1, <1>2, InHandIs DEF InHand, HeldIds
<1>4. Cardinality(allocated') = Cardinality(allocated) + 1
  BY <1>1, FlagsFinite, FS_AddElement
<1>. QED
  BY <1>1, <1>2, <1>3, <1>4 DEF Holders, Flags

LEMMA RouteFileHolders ==
    ASSUME PathAssumption, PathTypeOK, FrameInRing, Holders, Flags, RouteFile
    PROVE  Holders' /\ Flags'
<1>. DEFINE new == [id |-> packet.id, size |-> Len(packet.cells) - 1]
<1>1. /\ pc = "route" /\ pc' = "deframe" /\ held' = held \cup {new} /\ new.id = packet.id
      /\ UNCHANGED <<dropped, allocated, m_currBuffs>>
  BY DEF RouteFile, Routed, pool, bufferVars, telemetry
<1>. HIDE DEF new
<1>2. HeldIds' = HeldIds \cup {packet.id}
  BY <1>1 DEF HeldIds
<1>3. new \notin held /\ packet.id \notin HeldIds
  BY <1>1 DEF Holders, HeldIds
<1>4. InHand' = InHand
  BY <1>1, <1>2, InHandIs DEF InHand, HeldIds
<1>5. IsFiniteSet(held') /\ Cardinality(held') = Cardinality(held) + 1
  BY <1>1, <1>3, FS_AddElement DEF Holders
<1>6. IsFiniteSet(HeldIds) /\ Cardinality(HeldIds \cup {packet.id}) = Cardinality(HeldIds) + 1
  <2>1. HeldIds \subseteq allocated
    BY InHandIs DEF Flags
  <2>. QED
    BY <2>1, <1>3, FlagsFinite, FS_Subset, FS_AddElement
<1>7. \A b, other \in held' : b.id = other.id => b = other
  BY <1>1, <1>3 DEF Holders, HeldIds
<1>. QED
  BY <1>1, <1>2, <1>4, <1>5, <1>6, <1>7 DEF Holders, Flags

(* A buffer in hand comes back.                                            *)
LEMMA GiveBackFlags ==
    ASSUME PathAssumption, PathTypeOK, Flags, NEW id \in InHand, NEW n, GiveBack(id, n), InHand' = InHand \ {id}
    PROVE  Flags'
<1>1. CASE n = 0
  BY <1>1 DEF GiveBack, SendIn, Flags
<1>2. CASE n # 0
  <2>1. allocated' = allocated \ {id} /\ dropped' = dropped /\ m_currBuffs' = m_currBuffs - 1
    BY <1>2 DEF GiveBack, SendIn
  <2>2. Cardinality(allocated') = Cardinality(allocated) - 1
    BY <2>1, FlagsFinite, FS_RemoveElement DEF Flags
  <2>. QED
    BY <2>1, <2>2 DEF Flags
<1>. QED
  BY <1>1, <1>2

LEMMA RouteOtherHolders ==
    ASSUME PathAssumption, PathTypeOK, FrameInRing, Holders, Flags, RouteOther
    PROVE  Holders' /\ Flags'
<1>1. pc = "route" /\ pc' = "deframe" /\ held' = held /\ GiveBack(packet.id, Len(packet.cells))
  BY DEF RouteOther, Routed
<1>2. HeldIds' = HeldIds /\ packet.id \notin HeldIds
  BY <1>1 DEF HeldIds, Holders
<1>3. packet.id \in InHand /\ InHand' = InHand \ {packet.id}
  BY <1>1, <1>2, InHandIs DEF InHand, HeldIds
<1>4. Flags'
  BY <1>1, <1>3, GiveBackFlags
<1>. QED
  BY <1>1, <1>2, <1>4 DEF Holders

LEMMA ReturnHolders ==
    ASSUME PathAssumption, PathTypeOK, FrameInRing, Holders, Flags, NEW b \in held, ReturnBuffer(b)
    PROVE  Holders' /\ Flags'
<1>1. pc' = pc /\ packet' = packet /\ held' = held \ {b} /\ GiveBack(b.id, b.size)
  BY DEF ReturnBuffer, deframer
<1>2. b.id \in HeldIds /\ HeldIds' = HeldIds \ {b.id}
  BY <1>1 DEF HeldIds, Holders
<1>3. b.id \in InHand /\ InHand' = InHand \ {b.id}
  BY <1>1, <1>2, InHandIs DEF InHand, HeldIds, Holders
<1>4. Flags'
  BY <1>1, <1>3, GiveBackFlags
<1>5. IsFiniteSet(held') /\ Cardinality(held') = Cardinality(held) - 1
  BY <1>1, FS_RemoveElement DEF Holders
<1>6. Cardinality(HeldIds') = Cardinality(HeldIds) - 1
  <2>1. HeldIds \subseteq allocated
    BY InHandIs DEF Flags
  <2>. QED
    BY <2>1, <1>2, FlagsFinite, FS_Subset, FS_RemoveElement
<1>. QED
  BY <1>1, <1>2, <1>4, <1>5, <1>6 DEF Holders

LEMMA HoldersStep ==
    ASSUME PathAssumption, PathTypeOK, FrameInRing, Holders, Flags, [PathNext]_vars
    PROVE  Holders' /\ Flags'
<1>1. CASE \/ \E n \in 1 .. MaxChunk : \E chunk \in [1 .. n -> Byte] : FramedIn(chunk)
           \/ FillRing \/ BufferProcessed \/ Suspend \/ SkipByte
  <2>1. /\ pc # "route" /\ pc' # "route"
        /\ UNCHANGED <<held, dropped, allocated, m_currBuffs>>
    BY <1>1 DEF FramedIn, FillRing, BufferProcessed, Suspend, SkipByte, Turn, history, pool, bufferVars, telemetry
  <2>. QED
    BY <2>1, QuietHolders
<1>2. CASE NoBuffer \/ UNCHANGED vars
  <2>1. UNCHANGED <<pc, packet, held, dropped, allocated, m_currBuffs>>
    BY <1>2 DEF NoBuffer, NoBuffsAvailable, vars, deframer, history, pool, bufferVars, telemetry
  <2>. QED
    BY <2>1, QuietHolders
<1>3. CASE CopyPacket
  BY <1>3, CopyPacketHolders
<1>4. CASE RouteFile
  BY <1>4, RouteFileHolders
<1>5. CASE RouteOther
  BY <1>5, RouteOtherHolders
<1>6. CASE \E b \in held : ReturnBuffer(b)
  BY <1>6, ReturnHolders
<1>. QED
  BY <1>1, <1>2, <1>3, <1>4, <1>5, <1>6 DEF PathNext

-----------------------------------------------------------------------------
LEMMA Accounted == ASSUME PathAssumption, IInv PROVE BuffersAccounted
<1>1. IsFiniteSet(HeldIds)
  <2>1. HeldIds \subseteq allocated
    BY InHandIs DEF IInv, Flags
  <2>. QED
    BY <2>1, FlagsFinite, FS_Subset DEF IInv
<1>2. Cardinality(InHand) = Cardinality(held) + IF pc = "route" THEN 1 ELSE 0
  <2>1. CASE pc = "route"
    BY <1>1, <2>1, InHandIs, FS_AddElement DEF IInv, Holders
  <2>2. CASE pc # "route"
    <3>1. Cardinality(held) \in Nat
      BY FS_CardinalityType DEF IInv, Holders
    <3>. QED
      BY <2>2, <3>1, InHandIs DEF IInv, Holders
  <2>. QED
    BY <2>1, <2>2
<1>. QED
  BY <1>2 DEF IInv, Flags, BuffersAccounted

LEMMA InvHolds == ASSUME PathAssumption PROVE PathSpec => []IInv
<1>1. PathInit => IInv
  BY TypeInit
<1>2. IInv /\ [PathNext]_vars => IInv'
  BY TypeStep, HoldersStep DEF IInv
<1>. QED
  BY <1>1, <1>2, PTL DEF PathSpec

(* BuffersAccounted, for any pool and ring, any stream and any number of   *)
(* receivers: an allocated buffer is at the deframer or at one receiver,   *)
(* or came back with the size 0 (BufferManagerComponentImpl.cpp:95), and   *)
(* the pool's counter is the number of its flags.                          *)
THEOREM BuffersAreAccounted == ASSUME PathAssumption PROVE PathSpec => []BuffersAccounted
<1>1. IInv => BuffersAccounted
  BY Accounted
<1>. QED
  BY <1>1, InvHolds, PTL

-----------------------------------------------------------------------------
(* The assertions.  While the ring is searched, the turns taken and the    *)
(* bytes left are no more than the ring holds, and a turn needs a header   *)
(* there; outside of the search there is room.  What is given back has no  *)
(* more than its buffer's size.                                            *)
TurnsAreLeft == pc \in {"deframe", "route"} =>
    turns + m_inRing.m_allocated_size <= Store /\ turns < Store

RoomIsLeft == pc \in {"idle", "fill"} => m_inRing.m_allocated_size < Store

SizesFit ==
    /\ pc = "route" => Len(packet.cells) <= BufferSizes[packet.id]
    /\ \A b \in held : b.size <= BufferSizes[b.id]

Asserted == TurnsAreLeft /\ RoomIsLeft /\ SizesFit /\ OnlyForWant

LEMMA StatusNeeds ==
    ASSUME PathAssumption, PathTypeOK, Store >= Header
    PROVE  /\ Status \in {"INVALID_FORMAT", "INVALID_SIZE", "INVALID_CHECKSUM", "SUCCESS"} =>
                 m_inRing.m_allocated_size >= Header
           /\ Status = "MORE_NEEDED" => m_inRing.m_allocated_size < Store
<1>1. m_inRing.m_allocated_size \in 0 .. Store /\ Store \in Nat /\ Peek(m_inRing, 1) \in Nat
  BY RingFacts DEF PathTypeOK, PathAssumption
<1>. QED
  BY <1>1 DEF Status, Header, Digest

LEMMA Rotated ==
    ASSUME PathAssumption, PathTypeOK, TurnsAreLeft, pc \in {"deframe", "route"},
           NEW n \in Nat \ {0}, n < m_inRing.m_allocated_size,
           m_inRing' = Rotate(m_inRing, n), turns' = turns + 1
    PROVE  turns' + m_inRing'.m_allocated_size <= Store /\ turns' < Store
<1>1. m_inRing'.m_allocated_size = m_inRing.m_allocated_size - n
  BY DEF Rotate, PathTypeOK, Rings
<1>2. m_inRing.m_allocated_size \in Nat /\ Store \in Nat /\ turns \in Nat
  BY RingFacts DEF PathTypeOK
<1>. QED
  BY <1>1, <1>2 DEF TurnsAreLeft

LEMMA SkipAsserted ==
    ASSUME PathAssumption, Store >= Header, IInv, Asserted, SkipByte
    PROVE  Asserted'
<1>1. m_inRing' = Rotate(m_inRing, 1) /\ turns' = turns + 1 /\ pc = "deframe"
      /\ UNCHANGED <<pc, packet, held, halted>>
  BY DEF SkipByte, Turn
<1>2. 1 < m_inRing.m_allocated_size
  BY StatusNeeds, RingFacts DEF SkipByte, IInv, PathTypeOK, Header
<1>3. turns' + m_inRing'.m_allocated_size <= Store /\ turns' < Store
  BY <1>1, <1>2, Rotated DEF IInv, Asserted
<1>. QED
  BY <1>1, <1>3 DEF Asserted, TurnsAreLeft, RoomIsLeft, SizesFit, OnlyForWant

LEMMA FillAsserted ==
    ASSUME PathAssumption, Store >= Header, IInv, Asserted, FillRing
    PROVE  Asserted'
<1>. DEFINE n == IF GetFreeSize(m_inRing) <= Len(data) THEN GetFreeSize(m_inRing) ELSE Len(data)
<1>1. /\ pc = "fill" /\ pc' = "deframe" /\ turns' = 0 /\ data # <<>>
      /\ m_inRing' = Serialize(m_inRing, SubSeq(data, 1, n))
      /\ halted' = (IF n = 0 THEN "remaining" ELSE halted) /\ UNCHANGED <<packet, held>>
  BY DEF FillRing
<1>2. m_inRing' \in Rings
  BY FillRingType DEF IInv, PathTypeOK
<1>3. n # 0
  BY <1>1, NotEmpty, RingFacts DEF IInv, PathTypeOK, Asserted, RoomIsLeft, GetFreeSize
<1>4. m_inRing'.m_allocated_size \in 0 .. Store /\ Store \in Nat \ {0}
  BY <1>2, RingFacts
<1>. QED
  BY <1>1, <1>3, <1>4 DEF Asserted, TurnsAreLeft, RoomIsLeft, SizesFit, OnlyForWant

LEMMA SuspendAsserted ==
    ASSUME PathAssumption, Store >= Header, IInv, Asserted, Suspend
    PROVE  Asserted'
<1>1. turns \in Nat /\ Store \in Nat \ {0} /\ turns < Store
  BY RingFacts DEF IInv, PathTypeOK, Suspend, Asserted, TurnsAreLeft
<1>2. /\ pc' = "fill" /\ halted' = halted /\ UNCHANGED <<m_inRing, packet, held>>
      /\ m_inRing.m_allocated_size = 0 \/ Status = "MORE_NEEDED"
  BY <1>1 DEF Suspend
<1>3. m_inRing.m_allocated_size < Store
  BY <1>1, <1>2, StatusNeeds DEF IInv
<1>. QED
  BY <1>2, <1>3 DEF Asserted, TurnsAreLeft, RoomIsLeft, SizesFit, OnlyForWant

LEMMA CopyAsserted ==
    ASSUME PathAssumption, Store >= Header, IInv, Asserted, CopyPacket
    PROVE  Asserted'
<1>1. /\ pc = "deframe" /\ pc' = "route" /\ UNCHANGED <<m_inRing, turns, held, halted>>
      /\ Status = "SUCCESS" /\ packet'.id \in Fitting(Peek(m_inRing, 1))
  BY CopyPacketType DEF CopyPacket, Success, Turn, IInv
<1>2. packet'.cells = SubSeq(Contents(m_inRing), Header + 1, Header + Peek(m_inRing, 1))
  BY DEF CopyPacket
<1>3. Peek(m_inRing, 1) \in Nat /\ Header + Peek(m_inRing, 1) + Digest <= m_inRing.m_allocated_size
  BY <1>1, StatusFits DEF IInv
<1>4. Len(packet'.cells) = Peek(m_inRing, 1)
  BY <1>2, <1>3, CellsType DEF IInv
<1>5. Len(packet'.cells) <= BufferSizes[packet'.id]
  BY <1>1, <1>4 DEF Fitting
<1>. QED
  BY <1>1, <1>5 DEF Asserted, TurnsAreLeft, RoomIsLeft, SizesFit, OnlyForWant

(* A buffer in hand is one the pool takes back.                            *)
LEMMA Returnable ==
    ASSUME IInv, NEW id \in InHand, NEW n, n <= BufferSizes[id], GiveBack(id, n)
    PROVE  halted' = halted
  BY DEF IInv, Flags, GiveBack, MayReturn

LEMMA RouteAsserted ==
    ASSUME PathAssumption, Store >= Header, IInv, Asserted, RouteFile \/ RouteOther
    PROVE  Asserted'
<1>. DEFINE n == Header + Len(packet.cells) + Digest
<1>1. /\ pc = "route" /\ pc' = "deframe" /\ turns' = turns + 1
      /\ m_inRing' = Rotate(m_inRing, n)
  BY DEF RouteFile, RouteOther, Routed
<1>2. Len(packet.cells) \in Nat /\ n <= m_inRing.m_allocated_size
  BY <1>1 DEF IInv, FrameInRing, PathTypeOK
<1>3. m_inRing.m_allocated_size \in Nat /\ Store \in Nat /\ turns \in Nat
  BY RingFacts DEF IInv, PathTypeOK
<1>4. m_inRing'.m_allocated_size = m_inRing.m_allocated_size - n
  BY <1>1 DEF Rotate, IInv, PathTypeOK, Rings
<1>5. turns' + m_inRing'.m_allocated_size <= Store /\ turns' < Store
  BY <1>1, <1>2, <1>3, <1>4 DEF Asserted, TurnsAreLeft, Header, Digest
<1>6. ASSUME RouteFile PROVE SizesFit' /\ halted' = halted
  <2>1. /\ held' = held \cup {[id |-> packet.id, size |-> Len(packet.cells) - 1]} /\ halted' = halted
    BY <1>6 DEF RouteFile
  <2>2. BufferSizes[packet.id] \in Nat
    BY <1>1 DEF IInv, FrameInRing, PathAssumption, BuffersAssumption
  <2>3. Len(packet.cells) - 1 <= BufferSizes[packet.id]
    BY <1>1, <1>2, <2>2 DEF Asserted, SizesFit
  <2>. QED
    BY <1>1, <2>1, <2>3 DEF Asserted, SizesFit
<1>7. ASSUME RouteOther PROVE SizesFit' /\ halted' = halted
  <2>1. held' = held /\ GiveBack(packet.id, Len(packet.cells))
    BY <1>7 DEF RouteOther
  <2>2. packet.id \in InHand /\ Len(packet.cells) <= BufferSizes[packet.id]
    BY <1>1, InHandIs DEF Asserted, SizesFit
  <2>3. halted' = halted
    BY <2>1, <2>2, Returnable
  <2>. QED
    BY <1>1, <2>1, <2>3 DEF Asserted, SizesFit
<1>. QED
  BY <1>1, <1>5, <1>6, <1>7 DEF Asserted, TurnsAreLeft, RoomIsLeft, OnlyForWant

LEMMA ReturnAsserted ==
    ASSUME PathAssumption, IInv, Asserted, NEW b \in held, ReturnBuffer(b)
    PROVE  Asserted'
<1>1. /\ held' = held \ {b} /\ GiveBack(b.id, b.size)
      /\ UNCHANGED <<m_inRing, pc, turns, packet>>
  BY DEF ReturnBuffer, deframer
<1>2. b.id \in InHand /\ b.size <= BufferSizes[b.id]
  BY DEF InHand, Asserted, SizesFit
<1>3. halted' = halted
  BY <1>1, <1>2, Returnable
<1>. QED
  BY <1>1, <1>3 DEF Asserted, TurnsAreLeft, RoomIsLeft, SizesFit, OnlyForWant

LEMMA AssertedStep ==
    ASSUME PathAssumption, Store >= Header, IInv, Asserted, [PathNext]_vars
    PROVE  Asserted'
<1>1. CASE \E n \in 1 .. MaxChunk : \E chunk \in [1 .. n -> Byte] : FramedIn(chunk)
  BY <1>1 DEF FramedIn, Asserted, TurnsAreLeft, RoomIsLeft, SizesFit, OnlyForWant
<1>2. CASE BufferProcessed
  BY <1>2 DEF BufferProcessed, Asserted, TurnsAreLeft, RoomIsLeft, SizesFit, OnlyForWant
<1>3. CASE NoBuffer
  BY <1>3 DEF NoBuffer, deframer, Asserted, TurnsAreLeft, RoomIsLeft, SizesFit, OnlyForWant
<1>4. CASE UNCHANGED vars
  BY <1>4 DEF vars, deframer, Asserted, TurnsAreLeft, RoomIsLeft, SizesFit, OnlyForWant
<1>. QED
  BY <1>1, <1>2, <1>3, <1>4, FillAsserted, SuspendAsserted, SkipAsserted, CopyAsserted, RouteAsserted,
     ReturnAsserted DEF PathNext

(* The assertions of the deframer and the pool, for any ring that holds a  *)
(* header: the loops always have room and turns enough (Deframer.cpp:223,  *)
(* 301), and the pool gets back what it gave; only a frame that finds no   *)
(* buffer ends the process.                                                *)
THEOREM AssertionsCorrect ==
    ASSUME PathAssumption, Store >= Header PROVE PathSpec => []OnlyForWant
<1>1. PathInit => Asserted
  BY RingFacts DEF PathInit, Asserted, TurnsAreLeft, RoomIsLeft, SizesFit, OnlyForWant, PathAssumption,
                   RingAssumption
<1>2. IInv /\ Asserted /\ [PathNext]_vars => Asserted'
  BY AssertedStep
<1>3. Asserted => OnlyForWant
  BY DEF Asserted
<1>. QED
  BY <1>1, <1>2, <1>3, InvHolds, PTL DEF PathSpec

-----------------------------------------------------------------------------
(* The packets in a stream.  They are found by recursion on its length.    *)
Cells == Seq(Byte)

(* One turn of the search, where f has the packets of the shorter streams. *)
Searched(f, cells) ==
    LET end     == Header + cells[2]
        From(i) == f[SubSeq(cells, i, Len(cells))]
    IN  IF Len(cells) < Header THEN <<>>
        ELSE IF cells[1] # StartWord \/ end + Digest > Store THEN From(2)
        ELSE IF Len(cells) < end + Digest THEN <<>>
        ELSE IF Hash(SubSeq(cells, 1, end)) # cells[end + 1] THEN From(2)
        ELSE Sendable(SubSeq(cells, Header + 1, end)) \o From(end + Digest + 1)

(* The rest of a stream behind its first cell, or behind a frame.          *)
LEMMA RestType ==
    ASSUME NEW S, NEW s \in Seq(S), NEW i \in Nat, 2 <= i, i <= Len(s) + 1
    PROVE  SubSeq(s, i, Len(s)) \in Seq(S) /\ Len(SubSeq(s, i, Len(s))) = Len(s) + 1 - i
<1>1. Len(s) \in Nat /\ i \in Nat \ {0}
  OBVIOUS
<1>. QED
  BY <1>1, SubSeqType

LEMMA SizeCell ==
    ASSUME PathAssumption, NEW cells \in Cells, ~(Len(cells) < Header)
    PROVE  cells[2] \in Nat /\ Len(cells) \in Nat /\ Header + cells[2] \in Nat
<1>1. Len(cells) \in Nat /\ 2 \in 1 .. Len(cells)
  BY DEF Cells, Header
<1>2. cells[2] \in Byte
  BY <1>1 DEF Cells
<1>3. cells[2] \in Nat
  BY <1>2 DEF PathAssumption
<1>. QED
  BY <1>1, <1>3 DEF Header

LEMMA SendableType == ASSUME NEW cells \in Cells PROVE Sendable(cells) \in Seq(Cells)
  BY DEF Sendable

LEMMA SearchedType ==
    ASSUME PathAssumption, NEW f \in [Cells -> Seq(Cells)], NEW cells \in Cells
    PROVE  Searched(f, cells) \in Seq(Cells)
<1>. DEFINE end == Header + cells[2]
            rest(i) == SubSeq(cells, i, Len(cells))
<1>1. CASE Len(cells) < Header
  BY <1>1 DEF Searched
<1>2. CASE ~(Len(cells) < Header)
  <2>1. Len(cells) \in Nat /\ end \in Nat /\ 2 <= Len(cells) /\ end >= 2
    BY <1>2, SizeCell DEF Header
  <2>2. rest(2) \in Cells
    BY <2>1, RestType DEF Cells
  <2>3. ASSUME ~(Len(cells) < end + Digest)
        PROVE  Sendable(SubSeq(cells, Header + 1, end)) \o f[rest(end + Digest + 1)] \in Seq(Cells)
    <3>1. /\ end + Digest + 1 \in Nat /\ 2 <= end + Digest + 1 /\ end + Digest + 1 <= Len(cells) + 1
          /\ Header + 1 \in Nat \ {0} /\ Header + 1 <= end + 1 /\ end <= Len(cells)
      BY <2>1, <2>3, <1>2, SizeCell DEF Header, Digest
    <3>2. rest(end + Digest + 1) \in Cells
      <4>. DEFINE i == end + Digest + 1
      <4>. HIDE DEF i
      <4>. QED
        BY <3>1, RestType DEF Cells, i
    <3>3. SubSeq(cells, Header + 1, end) \in Cells
      <4>. DEFINE i == Header + 1
      <4>. HIDE DEF i, end
      <4>. QED
        BY <2>1, <3>1, SubSeqType DEF Cells, i
    <3>. HIDE DEF end, rest
    <3>4. f[rest(end + Digest + 1)] \in Seq(Cells)
      BY <3>2
    <3>5. Sendable(SubSeq(cells, Header + 1, end)) \in Seq(Cells)
      BY <3>3, SendableType
    <3>. QED
      BY <3>4, <3>5
  <2>. HIDE DEF end, rest
  <2>4. Searched(f, cells) =
          IF cells[1] # StartWord \/ end + Digest > Store THEN f[rest(2)]
          ELSE IF Len(cells) < end + Digest THEN <<>>
          ELSE IF Hash(SubSeq(cells, 1, end)) # cells[end + 1] THEN f[rest(2)]
          ELSE Sendable(SubSeq(cells, Header + 1, end)) \o f[rest(end + Digest + 1)]
    BY <1>2, Zenon DEF Searched, end, rest
  <2>5. f[rest(2)] \in Seq(Cells)
    BY <2>2
  <2>. QED
    BY <2>3, <2>4, <2>5
<1>. QED
  BY <1>1, <1>2

LEMMA SearchedLocally ==
    ASSUME PathAssumption, NEW f, NEW g, NEW cells \in Cells,
           \A c \in Cells : Len(c) < Len(cells) => f[c] = g[c]
    PROVE  Searched(f, cells) = Searched(g, cells)
<1>. DEFINE end == Header + cells[2]
            rest(i) == SubSeq(cells, i, Len(cells))
<1>1. CASE Len(cells) < Header
  BY <1>1 DEF Searched
<1>2. CASE ~(Len(cells) < Header)
  <2>1. Len(cells) \in Nat /\ end \in Nat /\ 2 <= Len(cells) /\ end >= 2
    BY <1>2, SizeCell DEF Header
  <2>2. f[rest(2)] = g[rest(2)]
    <3>1. rest(2) \in Cells /\ Len(rest(2)) = Len(cells) + 1 - 2
      BY <2>1, RestType DEF Cells
    <3>2. Len(rest(2)) < Len(cells)
      BY <2>1, <3>1
    <3>. QED
      BY <3>1, <3>2
  <2>3. ~(Len(cells) < end + Digest) => f[rest(end + Digest + 1)] = g[rest(end + Digest + 1)]
    <3>. SUFFICES ASSUME ~(Len(cells) < end + Digest) PROVE f[rest(end + Digest + 1)] = g[rest(end + Digest + 1)]
      OBVIOUS
    <3>. DEFINE i == end + Digest + 1
    <3>1. i \in Nat /\ 2 <= i /\ i <= Len(cells) + 1
      BY <2>1 DEF Digest
    <3>2. rest(i) \in Cells /\ Len(rest(i)) = Len(cells) + 1 - i
      <4>. HIDE DEF i
      <4>. QED
        BY <3>1, RestType DEF Cells
    <3>. HIDE DEF i, rest
    <3>3. Len(rest(i)) < Len(cells)
      BY <2>1, <3>1, <3>2
    <3>. QED
      BY <3>2, <3>3 DEF i
  <2>. HIDE DEF end, rest
  <2>. QED
    BY <1>2, <2>2, <2>3 DEF Searched, end, rest
<1>. QED
  BY <1>1, <1>2

(* PacketsIn is the function that its recursive definition describes.      *)
LEMMA PacketsInIs ==
    ASSUME PathAssumption
    PROVE  PacketsIn \in [Cells -> Seq(Cells)] /\ \A cells \in Cells : PacketsIn[cells] = Searched(PacketsIn, cells)
<1>. DEFINE Val  == Seq(Cells)
            size == [c \in Cells |-> Len(c)]
            Body == [f \in [Cells -> Val] |-> [c \in Cells |-> Searched(f, c)]]
<1>1. size \in [Cells -> Nat] /\ \A c \in Cells : size[c] = Len(c)
  BY DEF Cells
<1>2. Body \in [[Cells -> Val] -> [Cells -> Val]]
  BY SearchedType
<1>3. <<>> \in Val
  OBVIOUS
<1>4. Recursive(Body, Cells, Val, size)
  <2>1. ASSUME NEW f \in [Cells -> Val], NEW g \in [Cells -> Val], NEW x \in Cells,
               \A y \in Cells : size[y] < size[x] => f[y] = g[y]
        PROVE  Body[f][x] = Body[g][x]
    BY <1>1, <2>1, SearchedLocally
  <2>. HIDE DEF Val, size, Body
  <2>. QED
    BY <1>1, <1>2, <1>3, <2>1 DEF Recursive
<1>5. \A f \in [Cells -> Val] : Body[f] = [c \in Cells |-> Searched(f, c)]
  OBVIOUS
<1>. HIDE DEF Val, size, Body
<1>6. PICK g \in [Cells -> Val] : g = Body[g]
  BY <1>4, RecursiveFunction
<1>7. g = [c \in Cells |-> Searched(g, c)]
  BY <1>5, <1>6
<1>8. PacketsIn = CHOOSE f : f = [c \in Cells |-> Searched(f, c)]
  BY Zenon DEF PacketsIn, Searched, Cells
<1>9. PacketsIn = [c \in Cells |-> Searched(PacketsIn, c)]
  BY <1>7, <1>8
<1>10. \A c \in Cells : PacketsIn[c] = Searched(PacketsIn, c) /\ g[c] = Searched(g, c)
  BY <1>7, <1>9
<1>11. ASSUME NEW c \in Cells, \A d \in Cells : size[d] < size[c] => PacketsIn[d] = g[d]
       PROVE  PacketsIn[c] = g[c]
  <2>1. \A d \in Cells : Len(d) < Len(c) => PacketsIn[d] = g[d]
    BY <1>1, <1>11
  <2>. QED
    BY <1>10, <2>1, SearchedLocally
<1>12. \A c \in Cells : PacketsIn[c] = g[c]
  <2>1. AgreeBySize(PacketsIn, g, Cells, size)
    BY <1>1, <1>11 DEF AgreeBySize
  <2>. QED
    BY <2>1, SameBySize
<1>13. PacketsIn \in [Cells -> Val]
  BY <1>9, <1>10, <1>12
<1>. QED
  BY <1>10, <1>13 DEF Val

(* The ring's contents.                                                    *)
LEMMA PlaceIs ==
    ASSUME PathAssumption, NEW ring \in Rings, NEW i \in 0 .. Store
    PROVE  AdvanceIdx(ring.m_head_idx, i) =
             IF ring.m_head_idx + i < Store THEN ring.m_head_idx + i ELSE ring.m_head_idx + i - Store
<1>1. PICK a \in Nat : a = ring.m_head_idx + i /\ a < 2 * Store
  BY RingFacts
<1>2. Store \in Nat \ {0}
  BY RingFacts
<1>3. AdvanceIdx(ring.m_head_idx, i) = a % Store
  BY <1>1 DEF AdvanceIdx
<1>4. a % Store = IF a < Store THEN a ELSE a - Store
  BY <1>1, <1>2, Wrapped
<1>5. AdvanceIdx(ring.m_head_idx, i) = IF a < Store THEN a ELSE a - Store
  BY <1>3, <1>4
<1>6. a = ring.m_head_idx + i /\ ring.m_head_idx \in Int /\ Store \in Int /\ i \in Int
  BY <1>1, RingFacts
<1>. DEFINE h == ring.m_head_idx
            place == AdvanceIdx(h, i)
<1>7. a = h + i /\ h \in Int /\ place = IF a < Store THEN a ELSE a - Store
  BY <1>5, <1>6
<1>. HIDE DEF place, h
<1>8. place = IF h + i < Store THEN h + i ELSE h + i - Store
  BY <1>6, <1>7
<1>. QED
  BY <1>8 DEF place, h

LEMMA ContentsIs ==
    ASSUME PathAssumption, NEW ring \in Rings, NEW i \in 1 .. ring.m_allocated_size
    PROVE  Contents(ring)[i] = Peek(ring, i - 1)
  BY DEF Contents

(* Data goes behind what there is.                                         *)
LEMMA Serialized ==
    ASSUME PathAssumption, NEW ring \in Rings, NEW new \in Seq(Byte), Len(new) <= GetFreeSize(ring)
    PROVE  Contents(Serialize(ring, new)) = Contents(ring) \o new
<1>. DEFINE to == Serialize(ring, new)
            h == ring.m_head_idx
            n == ring.m_allocated_size
            first == AdvanceIdx(h, n)
            cell(idx) == LET i == ((idx - first) % Store) + 1
                         IN  IF i <= Len(new) THEN new[i] ELSE ring.m_store[idx]
<1>1. /\ Store \in Nat \ {0} /\ h \in 0 .. Store - 1 /\ n \in 0 .. Store /\ Len(new) \in Nat
      /\ n + Len(new) <= Store
  BY RingFacts DEF GetFreeSize
<1>2. to \in Rings
  BY SerializeType
<1>3. to.m_head_idx = h /\ to.m_allocated_size = n + Len(new) /\ to.m_store = [idx \in 0 .. Store - 1 |-> cell(idx)]
  BY DEF Serialize, Rings
<1>4. first = IF h + n < Store THEN h + n ELSE h + n - Store
  BY <1>1, PlaceIs
<1>. HIDE DEF to
<1>5. ASSUME NEW i \in 0 .. n + Len(new) - 1
      PROVE  Peek(to, i) = IF i < n THEN Peek(ring, i) ELSE new[i - n + 1]
  <2>. DEFINE p == IF h + i < Store THEN h + i ELSE h + i - Store
              d == p - first
  <2>1. i \in 0 .. Store /\ p \in 0 .. Store - 1
    BY <1>1
  <2>2. AdvanceIdx(h, i) = p
    BY <2>1, PlaceIs
  <2>3. Peek(to, i) = cell(p)
    <3>1. Peek(to, i) = to.m_store[p]
      BY <1>3, <2>2 DEF Peek
    <3>. HIDE DEF cell, p
    <3>. QED
      BY <1>3, <2>1, <3>1
  <2>4. d % Store = IF i < n THEN Store + i - n ELSE i - n
    <3>. DEFINE r == IF i < n THEN Store + i - n ELSE i - n
    <3>1. r \in 0 .. Store - 1
      BY <1>1
    <3>2. d = r \/ d = r - Store \/ d = r + Store
      <4>. HIDE DEF first, cell, h, n
      <4>. QED
        BY <1>1, <1>4
    <3>3. PICK q \in Int : d = q * Store + r
      <4>1. d = 0 * Store + r \/ d = (-1) * Store + r \/ d = 1 * Store + r
        <5>. HIDE DEF d, r
        <5>. QED
          BY <1>1, <3>1, <3>2
      <4>. HIDE DEF d, r
      <4>. QED
        BY <4>1
    <3>. HIDE DEF d, r
    <3>4. (q * Store + r) % Store = r
      BY <1>1, <3>1, RemainderIs
    <3>. QED
      BY <3>3, <3>4 DEF r
  <2>. HIDE DEF first
  <2>5. cell(p) = IF (d % Store) + 1 <= Len(new) THEN new[(d % Store) + 1] ELSE ring.m_store[p]
    OBVIOUS
  <2>6. CASE i < n
    <3>1. ~((d % Store) + 1 <= Len(new))
      <4>. HIDE DEF d
      <4>. QED
        BY <1>1, <2>4, <2>6
    <3>2. cell(p) = ring.m_store[p]
      BY <2>5, <3>1
    <3>. QED
      BY <2>2, <2>3, <2>6, <3>2 DEF Peek
  <2>7. CASE ~(i < n)
    <3>. HIDE DEF d, cell, p
    <3>. QED
      BY <1>1, <2>3, <2>4, <2>5, <2>7
  <2>. QED
    BY <2>6, <2>7
<1>6. Contents(ring) \in Seq(Byte) /\ Len(Contents(ring)) = n
  BY ContentsType
<1>7. Contents(to) \in Seq(Byte) /\ Len(Contents(to)) = n + Len(new)
  BY <1>2, <1>3, ContentsType
<1>. HIDE DEF n
<1>8. /\ Contents(ring) \o new \in Seq(Byte) /\ Len(Contents(ring) \o new) = n + Len(new)
      /\ \A i \in 1 .. n : (Contents(ring) \o new)[i] = Contents(ring)[i]
      /\ \A i \in n + 1 .. n + Len(new) : (Contents(ring) \o new)[i] = new[i - n]
  <2>. DEFINE c == Contents(ring)
  <2>1. c \in Seq(Byte) /\ Len(c) = n
    BY <1>6
  <2>. HIDE DEF c
  <2>2. /\ c \o new \in Seq(Byte) /\ Len(c \o new) = Len(c) + Len(new)
        /\ \A i \in 1 .. Len(c) : (c \o new)[i] = c[i]
        /\ \A i \in Len(c) + 1 .. Len(c) + Len(new) : (c \o new)[i] = new[i - Len(c)]
    BY <2>1, ConcatIs
  <2>. QED
    BY <2>1, <2>2 DEF c
<1>9. ASSUME NEW i \in 1 .. n + Len(new) PROVE Contents(to)[i] = (Contents(ring) \o new)[i]
  <2>1. Contents(to)[i] = Peek(to, i - 1)
    BY <1>1, <1>2, <1>3, ContentsIs
  <2>2. i - 1 \in 0 .. n + Len(new) - 1
    BY <1>1
  <2>3. CASE i <= n
    <3>1. Peek(to, i - 1) = Peek(ring, i - 1)
      BY <1>1, <1>5, <2>2, <2>3
    <3>2. Contents(ring)[i] = Peek(ring, i - 1)
      BY <1>1, <2>3, ContentsIs DEF n
    <3>3. i \in 1 .. n
      BY <1>1, <2>3
    <3>. QED
      BY <1>8, <2>1, <3>1, <3>2, <3>3
  <2>4. CASE i > n
    <3>1. Peek(to, i - 1) = new[(i - 1) - n + 1] /\ (i - 1) - n + 1 = i - n
      BY <1>1, <1>5, <2>2, <2>4
    <3>2. i \in n + 1 .. n + Len(new)
      BY <1>1, <2>4
    <3>. QED
      BY <1>8, <2>1, <3>1, <3>2
  <2>5. i <= n \/ i > n
    BY <1>1 DEF n
  <2>. QED
    BY <2>3, <2>4, <2>5, Zenon
<1>. QED
  BY <1>7, <1>8, <1>9, SameSeq DEF to

(* Rotation takes what is in front away.                                   *)
LEMMA Rotates ==
    ASSUME PathAssumption, NEW ring \in Rings, NEW k \in 0 .. ring.m_allocated_size
    PROVE  Contents(Rotate(ring, k)) = SubSeq(Contents(ring), k + 1, Len(Contents(ring)))
<1>. DEFINE to == Rotate(ring, k)
            h == ring.m_head_idx
            n == ring.m_allocated_size
<1>1. Store \in Nat \ {0} /\ h \in 0 .. Store - 1 /\ n \in 0 .. Store
  BY RingFacts
<1>2. to \in Rings
  BY RotateType
<1>3. to.m_head_idx = AdvanceIdx(h, k) /\ to.m_allocated_size = n - k /\ to.m_store = ring.m_store
  BY DEF Rotate, Rings
<1>. HIDE DEF to
<1>4. ASSUME NEW i \in 0 .. n - k - 1 PROVE Peek(to, i) = Peek(ring, k + i)
  <2>1. AdvanceIdx(h, k) = IF h + k < Store THEN h + k ELSE h + k - Store
    BY <1>1, PlaceIs
  <2>2. AdvanceIdx(h, k + i) = IF h + (k + i) < Store THEN h + (k + i) ELSE h + (k + i) - Store
    <3>1. k + i \in 0 .. Store
      BY <1>1
    <3>. QED
      BY <3>1, PlaceIs
  <2>. DEFINE g == AdvanceIdx(h, k)
  <2>3. g \in 0 .. Store - 1 /\ g = to.m_head_idx /\ i \in 0 .. Store
    BY <1>1, <1>3, <2>1
  <2>4. AdvanceIdx(g, i) = IF g + i < Store THEN g + i ELSE g + i - Store
    BY <1>2, <2>3, PlaceIs
  <2>5. AdvanceIdx(g, i) = AdvanceIdx(h, k + i)
    BY <1>1, <2>1, <2>2, <2>3, <2>4
  <2>. QED
    BY <1>3, <2>3, <2>5 DEF Peek
<1>5. Contents(ring) \in Seq(Byte) /\ Len(Contents(ring)) = n
  BY ContentsType
<1>6. Contents(to) \in Seq(Byte) /\ Len(Contents(to)) = n - k
  BY <1>2, <1>3, ContentsType
<1>. DEFINE rest == SubSeq(Contents(ring), k + 1, Len(Contents(ring)))
<1>7. rest \in Seq(Byte) /\ Len(rest) = n - k /\ \A i \in 1 .. n - k : rest[i] = Contents(ring)[k + i]
  <2>. DEFINE a == k + 1
              c == Contents(ring)
  <2>1. a \in Nat \ {0} /\ n \in Nat /\ a <= n + 1 /\ n <= Len(c) /\ c \in Seq(Byte)
    BY <1>1, <1>5
  <2>. HIDE DEF a, c, n
  <2>2. /\ SubSeq(c, a, n) \in Seq(Byte) /\ Len(SubSeq(c, a, n)) = n - a + 1
        /\ \A i \in 1 .. n - a + 1 : SubSeq(c, a, n)[i] = c[a + i - 1]
    BY <2>1, SubSeqIs
  <2>3. n - a + 1 = n - k /\ \A i \in 1 .. n - k : a + i - 1 = k + i
    BY <1>1 DEF a
  <2>4. rest = SubSeq(c, a, n)
    BY <1>5 DEF a, c
  <2>. QED
    BY <2>2, <2>3, <2>4 DEF c
<1>. HIDE DEF rest, n
<1>8. ASSUME NEW i \in 1 .. n - k PROVE Contents(to)[i] = rest[i]
  <2>1. Contents(to)[i] = Peek(to, i - 1)
    BY <1>2, <1>3, ContentsIs
  <2>2. i - 1 \in 0 .. n - k - 1 /\ k + i \in 1 .. n
    BY <1>1 DEF n
  <2>3. Contents(ring)[k + i] = Peek(ring, (k + i) - 1) /\ (k + i) - 1 = k + (i - 1)
    BY <1>1, <2>2, ContentsIs DEF n
  <2>. QED
    BY <1>4, <1>7, <2>1, <2>2, <2>3
<1>. QED
  BY <1>6, <1>7, <1>8, SameSeq DEF to, rest

(* A frame, or a cell to pass over, lies in the front whatever follows.    *)
BadFront(c) ==
    \/ c[1] # StartWord \/ Header + c[2] + Digest > Store
    \/ ~(Len(c) < Header + c[2] + Digest) /\ Hash(SubSeq(c, 1, Header + c[2])) # c[Header + c[2] + 1]

GoodFront(c) ==
    /\ c[1] = StartWord /\ ~(Header + c[2] + Digest > Store)
    /\ ~(Len(c) < Header + c[2] + Digest) /\ Hash(SubSeq(c, 1, Header + c[2])) = c[Header + c[2] + 1]

LEMMA FrontStays ==
    ASSUME PathAssumption, NEW c \in Cells, NEW x \in Cells, ~(Len(c) < Header)
    PROVE  /\ c \o x \in Cells /\ ~(Len(c \o x) < Header) /\ (c \o x)[1] = c[1] /\ (c \o x)[2] = c[2]
           /\ SubSeq(c \o x, 2, Len(c \o x)) = SubSeq(c, 2, Len(c)) \o x
           /\ ~(Len(c) < Header + c[2] + Digest) =>
                 /\ ~(Len(c \o x) < Header + c[2] + Digest)
                 /\ (c \o x)[Header + c[2] + 1] = c[Header + c[2] + 1]
                 /\ SubSeq(c \o x, 1, Header + c[2]) = SubSeq(c, 1, Header + c[2])
                 /\ SubSeq(c \o x, Header + 1, Header + c[2]) = SubSeq(c, Header + 1, Header + c[2])
                 /\ SubSeq(c \o x, Header + c[2] + Digest + 1, Len(c \o x)) =
                       SubSeq(c, Header + c[2] + Digest + 1, Len(c)) \o x
<1>. DEFINE y == c \o x
            end == Header + c[2]
<1>1. /\ c \in Seq(Byte) /\ x \in Seq(Byte) /\ Len(c) \in Nat /\ Len(c) >= 2
      /\ end \in Nat /\ end >= 2 /\ Header = 2 /\ Digest = 1
  BY SizeCell DEF Cells, Header, Digest
<1>2. /\ y \in Seq(Byte) /\ Len(y) = Len(c) + Len(x) /\ Len(x) \in Nat
      /\ \A i \in 1 .. Len(c) : y[i] = c[i]
  BY <1>1, ConcatIs
<1>3. y \in Cells /\ ~(Len(y) < Header) /\ y[1] = c[1] /\ y[2] = c[2]
  <2>. HIDE DEF y
  <2>. QED
    BY <1>1, <1>2 DEF Cells
<1>4. SubSeq(y, 2, Len(y)) = SubSeq(c, 2, Len(c)) \o x
  <2>1. 2 \in Nat \ {0} /\ 2 <= Len(c) + 1
    BY <1>1
  <2>. QED
    BY <1>1, <2>1, RestOfFront
<1>5. ASSUME ~(Len(c) < end + Digest)
      PROVE  /\ ~(Len(y) < end + Digest) /\ y[end + 1] = c[end + 1]
             /\ SubSeq(y, 1, end) = SubSeq(c, 1, end)
             /\ SubSeq(y, Header + 1, end) = SubSeq(c, Header + 1, end)
             /\ SubSeq(y, end + Digest + 1, Len(y)) = SubSeq(c, end + Digest + 1, Len(c)) \o x
  <2>. HIDE DEF end
  <2>1. /\ end <= Len(c) /\ end + 1 \in 1 .. Len(c) /\ ~(Len(c) + Len(x) < end + Digest)
        /\ 1 \in Nat \ {0} /\ 1 <= end + 1 /\ Header + 1 \in Nat \ {0} /\ Header + 1 <= end + 1
        /\ end + Digest + 1 \in Nat \ {0} /\ end + Digest + 1 <= Len(c) + 1
    BY <1>1, <1>2, <1>5
  <2>2. ~(Len(y) < end + Digest) /\ y[end + 1] = c[end + 1]
    <3>. HIDE DEF y
    <3>. QED
      BY <1>2, <2>1
  <2>3. SubSeq(y, 1, end) = SubSeq(c, 1, end) /\ SubSeq(y, Header + 1, end) = SubSeq(c, Header + 1, end)
    <3>. DEFINE i == Header + 1
    <3>1. i \in Nat \ {0} /\ i <= end + 1
      BY <2>1
    <3>. HIDE DEF i
    <3>2. SubSeq(y, i, end) = SubSeq(c, i, end)
      BY <1>1, <2>1, <3>1, CutOfFront
    <3>3. SubSeq(y, 1, end) = SubSeq(c, 1, end)
      BY <1>1, <2>1, CutOfFront
    <3>. QED
      BY <3>2, <3>3 DEF i
  <2>4. SubSeq(y, end + Digest + 1, Len(y)) = SubSeq(c, end + Digest + 1, Len(c)) \o x
    <3>. DEFINE i == end + Digest + 1
    <3>1. i \in Nat \ {0} /\ i <= Len(c) + 1
      BY <2>1
    <3>. HIDE DEF i
    <3>2. SubSeq(y, i, Len(y)) = SubSeq(c, i, Len(c)) \o x
      BY <1>1, <3>1, RestOfFront
    <3>. QED
      BY <3>2 DEF i
  <2>. QED
    BY <2>2, <2>3, <2>4
<1>. QED
  BY <1>3, <1>4, <1>5

LEMMA PassedOver ==
    ASSUME PathAssumption, NEW c \in Cells, NEW x \in Cells, ~(Len(c) < Header), BadFront(c)
    PROVE  PacketsIn[c \o x] = PacketsIn[SubSeq(c, 2, Len(c)) \o x]
<1>. DEFINE y == c \o x
            end == Header + y[2]
            rest(i) == SubSeq(y, i, Len(y))
            g == PacketsIn
<1>1. y \in Cells /\ ~(Len(y) < Header) /\ y[1] = c[1] /\ y[2] = c[2] /\ rest(2) = SubSeq(c, 2, Len(c)) \o x
  BY FrontStays
<1>2. g[y] = Searched(g, y)
  <2>. HIDE DEF y
  <2>. QED
    BY <1>1, PacketsInIs
<1>3. \/ y[1] # StartWord \/ end + Digest > Store
      \/ ~(Len(y) < end + Digest) /\ Hash(SubSeq(y, 1, end)) # y[end + 1]
  <2>1. CASE c[1] # StartWord \/ Header + c[2] + Digest > Store
    BY <1>1, <2>1, Zenon
  <2>2. CASE ~(Len(c) < Header + c[2] + Digest) /\ Hash(SubSeq(c, 1, Header + c[2])) # c[Header + c[2] + 1]
    <3>1. /\ ~(Len(y) < Header + c[2] + Digest) /\ y[Header + c[2] + 1] = c[Header + c[2] + 1]
          /\ SubSeq(y, 1, Header + c[2]) = SubSeq(c, 1, Header + c[2])
      BY <2>2, FrontStays
    <3>. QED
      BY <1>1, <2>2, <3>1, Zenon
  <2>. QED
    BY <2>1, <2>2, Zenon DEF BadFront
<1>. HIDE DEF y, g, rest
<1>4. Searched(g, y) =
        IF Len(y) < Header THEN <<>>
        ELSE IF y[1] # StartWord \/ end + Digest > Store THEN g[rest(2)]
        ELSE IF Len(y) < end + Digest THEN <<>>
        ELSE IF Hash(SubSeq(y, 1, end)) # y[end + 1] THEN g[rest(2)]
        ELSE Sendable(SubSeq(y, Header + 1, end)) \o g[rest(end + Digest + 1)]
  BY Zenon DEF Searched, end, rest
<1>. HIDE DEF end
<1>5. g[y] = g[rest(2)]
  BY <1>1, <1>2, <1>3, <1>4, Zenon
<1>. QED
  BY <1>1, <1>5, Zenon DEF g, y

LEMMA FrameTaken ==
    ASSUME PathAssumption, NEW c \in Cells, NEW x \in Cells, ~(Len(c) < Header), GoodFront(c)
    PROVE  PacketsIn[c \o x] = Sendable(SubSeq(c, Header + 1, Header + c[2]))
                                 \o PacketsIn[SubSeq(c, Header + c[2] + Digest + 1, Len(c)) \o x]
<1>. DEFINE y == c \o x
            end == Header + y[2]
            rest(i) == SubSeq(y, i, Len(y))
            g == PacketsIn
<1>1. y \in Cells /\ ~(Len(y) < Header) /\ y[1] = c[1] /\ y[2] = c[2]
  BY FrontStays
<1>2. g[y] = Searched(g, y)
  <2>. HIDE DEF y
  <2>. QED
    BY <1>1, PacketsInIs
<1>3. /\ ~(Len(y) < Header + c[2] + Digest) /\ y[Header + c[2] + 1] = c[Header + c[2] + 1]
      /\ SubSeq(y, 1, Header + c[2]) = SubSeq(c, 1, Header + c[2])
      /\ SubSeq(y, Header + 1, Header + c[2]) = SubSeq(c, Header + 1, Header + c[2])
      /\ rest(Header + c[2] + Digest + 1) = SubSeq(c, Header + c[2] + Digest + 1, Len(c)) \o x
  BY FrontStays DEF GoodFront
<1>4. /\ y[1] = StartWord /\ ~(end + Digest > Store) /\ ~(Len(y) < end + Digest)
      /\ Hash(SubSeq(y, 1, end)) = y[end + 1]
  BY <1>1, <1>3, Zenon DEF GoodFront
<1>. HIDE DEF y, g, rest
<1>5. Searched(g, y) =
        IF Len(y) < Header THEN <<>>
        ELSE IF y[1] # StartWord \/ end + Digest > Store THEN g[rest(2)]
        ELSE IF Len(y) < end + Digest THEN <<>>
        ELSE IF Hash(SubSeq(y, 1, end)) # y[end + 1] THEN g[rest(2)]
        ELSE Sendable(SubSeq(y, Header + 1, end)) \o g[rest(end + Digest + 1)]
  BY Zenon DEF Searched, end, rest
<1>6. g[y] = Sendable(SubSeq(y, Header + 1, end)) \o g[rest(end + Digest + 1)]
  <2>. HIDE DEF end
  <2>. QED
    BY <1>1, <1>2, <1>4, <1>5, Zenon
<1>7. g[y] = Sendable(SubSeq(c, Header + 1, Header + c[2])) \o g[SubSeq(c, Header + c[2] + Digest + 1, Len(c)) \o x]
  BY <1>1, <1>3, <1>6, Zenon DEF end
<1>. QED
  BY <1>7, Zenon DEF g, y

(* What came is in the packets sent or still to be found, whatever comes   *)
(* next; the packet at hand is the frame at the front of the ring.         *)
StreamKept == \A more \in Cells :
    delivered \o PacketsIn[Contents(m_inRing) \o (data \o more)] = PacketsIn[stream \o more]
PacketIsFront == pc = "route" =>
    /\ Status = "SUCCESS"
    /\ packet.cells = SubSeq(Contents(m_inRing), Header + 1, Header + Peek(m_inRing, 1))
ChunkDone == pc = "idle" => data = <<>>

StreamInv == StreamKept /\ PacketIsFront /\ ChunkDone

LEMMA StatusMeans ==
    ASSUME PathAssumption, PathTypeOK
    PROVE  LET c == Contents(m_inRing)
           IN  /\ Status \in {"INVALID_FORMAT", "INVALID_SIZE", "INVALID_CHECKSUM"} => ~(Len(c) < Header) /\ BadFront(c)
               /\ Status = "SUCCESS" => ~(Len(c) < Header) /\ GoodFront(c) /\ Peek(m_inRing, 1) = c[2]
<1>. DEFINE c == Contents(m_inRing)
            n == m_inRing.m_allocated_size
            end == Header + Peek(m_inRing, 1)
<1>1. m_inRing \in Rings /\ n \in Nat /\ Len(c) = n
  BY RingFacts, ContentsType DEF PathTypeOK
<1>2. Peek(m_inRing, 1) \in Nat
  BY <1>1, RingFacts DEF PathAssumption
<1>3. ~(n < Header) => c[1] = Peek(m_inRing, 0) /\ c[2] = Peek(m_inRing, 1)
  <2>. SUFFICES ASSUME ~(n < Header) PROVE c[1] = Peek(m_inRing, 0) /\ c[2] = Peek(m_inRing, 1)
    OBVIOUS
  <2>1. 1 \in 1 .. n /\ 2 \in 1 .. n /\ 1 - 1 = 0 /\ 2 - 1 = 1
    BY <1>1 DEF Header
  <2>. HIDE DEF n
  <2>2. c[1] = Peek(m_inRing, 1 - 1) /\ c[2] = Peek(m_inRing, 2 - 1)
    BY <1>1, <2>1, ContentsIs DEF n
  <2>. QED
    BY <2>1, <2>2
<1>4. ~(n < end + Digest) => c[end + 1] = Peek(m_inRing, end)
  <2>. SUFFICES ASSUME ~(n < end + Digest) PROVE c[end + 1] = Peek(m_inRing, end)
    OBVIOUS
  <2>. DEFINE i == end + 1
  <2>1. i \in 1 .. n /\ i - 1 = end
    BY <1>1, <1>2 DEF Header, Digest
  <2>. HIDE DEF i, end
  <2>2. c[i] = Peek(m_inRing, i - 1)
    BY <1>1, <2>1, ContentsIs
  <2>. QED
    BY <2>1, <2>2 DEF i
<1>5. Status = IF n < Header THEN "MORE_NEEDED"
               ELSE IF Peek(m_inRing, 0) # StartWord THEN "INVALID_FORMAT"
               ELSE IF end + Digest > Store THEN "INVALID_SIZE"
               ELSE IF n < end + Digest THEN "MORE_NEEDED"
               ELSE IF Hash(SubSeq(c, 1, end)) # Peek(m_inRing, end) THEN "INVALID_CHECKSUM"
               ELSE "SUCCESS"
  BY Zenon DEF Status
<1>. DEFINE p1 == Peek(m_inRing, 1)
            p0 == Peek(m_inRing, 0)
            pe == Peek(m_inRing, end)
<1>. HIDE DEF c, n
<1>6. ASSUME Status \in {"INVALID_FORMAT", "INVALID_SIZE", "INVALID_CHECKSUM"}
      PROVE  /\ ~(n < Header)
             /\ \/ p0 # StartWord \/ end + Digest > Store
                \/ ~(n < end + Digest) /\ Hash(SubSeq(c, 1, end)) # pe
  <2>. HIDE DEF p0, pe, end
  <2>. QED
    BY <1>5, <1>6 DEF p0, pe
<1>7. ASSUME Status = "SUCCESS"
      PROVE  /\ ~(n < Header) /\ p0 = StartWord /\ ~(end + Digest > Store)
             /\ ~(n < end + Digest) /\ Hash(SubSeq(c, 1, end)) = pe
  <2>. HIDE DEF p0, pe, end
  <2>. QED
    BY <1>5, <1>7 DEF p0, pe
<1>8. ~(n < Header) => c[1] = p0 /\ c[2] = p1 /\ end = Header + c[2]
  BY <1>3
<1>9. ~(n < end + Digest) => c[end + 1] = pe
  BY <1>4
<1>. HIDE DEF p0, p1, pe, end
<1>10. ASSUME Status \in {"INVALID_FORMAT", "INVALID_SIZE", "INVALID_CHECKSUM"} PROVE ~(Len(c) < Header) /\ BadFront(c)
  <2>1. \/ c[1] # StartWord \/ end + Digest > Store
        \/ ~(n < end + Digest) /\ Hash(SubSeq(c, 1, end)) # c[end + 1]
    BY <1>6, <1>8, <1>9, <1>10, Zenon
  <2>. QED
    BY <1>1, <1>6, <1>8, <1>10, <2>1, Zenon DEF BadFront
<1>11. ASSUME Status = "SUCCESS" PROVE ~(Len(c) < Header) /\ GoodFront(c) /\ p1 = c[2]
  <2>1. /\ c[1] = StartWord /\ ~(end + Digest > Store)
        /\ ~(n < end + Digest) /\ Hash(SubSeq(c, 1, end)) = c[end + 1]
    BY <1>7, <1>8, <1>9, <1>11, Zenon
  <2>. QED
    BY <1>1, <1>7, <1>8, <1>11, <2>1, Zenon DEF GoodFront
<1>. QED
  BY <1>10, <1>11, Zenon DEF c, p1

LEMMA StreamInit == ASSUME PathAssumption, PathInit PROVE StreamInv
<1>1. Contents(m_inRing) = <<>> /\ data = <<>> /\ stream = <<>> /\ delivered = <<>> /\ pc = "idle"
  <2>1. m_inRing \in Rings /\ m_inRing.m_allocated_size = 0
    <3>1. PathTypeOK
      BY TypeInit DEF IInv
    <3>. QED
      BY <3>1 DEF PathInit, PathTypeOK
  <2>2. Contents(m_inRing) \in Seq(Byte) /\ Len(Contents(m_inRing)) = 0
    BY <2>1, ContentsType
  <2>. QED
    BY <2>2 DEF PathInit
<1>2. StreamKept
  <2>. SUFFICES ASSUME NEW more \in Cells PROVE <<>> \o PacketsIn[<<>> \o (<<>> \o more)] = PacketsIn[<<>> \o more]
    BY <1>1 DEF StreamKept
  <2>1. <<>> \o more = more
    BY DEF Cells
  <2>2. PacketsIn[more] \in Seq(Cells)
    BY PacketsInIs
  <2>3. <<>> \o PacketsIn[more] = PacketsIn[more]
    <3>. DEFINE p == PacketsIn[more]
    <3>. HIDE DEF p
    <3>1. p \in Seq(Cells)
      BY <2>2 DEF p
    <3>2. <<>> \o p = p
      BY <3>1
    <3>. QED
      BY <3>2 DEF p
  <2>. QED
    BY <2>1, <2>3
<1>. QED
  BY <1>1, <1>2 DEF StreamInv, PacketIsFront, ChunkDone

LEMMA FramedInKept ==
    ASSUME PathAssumption, PathTypeOK, StreamInv,
           NEW n \in 1 .. MaxChunk, NEW chunk \in [1 .. n -> Byte], FramedIn(chunk)
    PROVE  StreamInv'
<1>1. /\ pc = "idle" /\ data = <<>> /\ data' = chunk /\ stream' = stream \o chunk /\ pc' = "fill"
      /\ UNCHANGED <<m_inRing, delivered>>
  BY DEF FramedIn, StreamInv, ChunkDone
<1>2. chunk \in Cells /\ stream \in Cells /\ Contents(m_inRing) \in Cells
  BY ContentsType DEF PathTypeOK, Cells
<1>3. StreamKept'
  <2>. SUFFICES ASSUME NEW more \in Cells
                PROVE  delivered \o PacketsIn[Contents(m_inRing) \o (chunk \o more)] = PacketsIn[(stream \o chunk) \o more]
    BY <1>1 DEF StreamKept
  <2>1. chunk \o more \in Cells /\ <<>> \o (chunk \o more) = chunk \o more
    BY <1>2 DEF Cells
  <2>2. (stream \o chunk) \o more = stream \o (chunk \o more)
    BY <1>2, Assoc DEF Cells
  <2>3. delivered \o PacketsIn[Contents(m_inRing) \o (<<>> \o (chunk \o more))] = PacketsIn[stream \o (chunk \o more)]
    BY <1>1, <2>1, Zenon DEF StreamInv, StreamKept
  <2>. QED
    BY <2>1, <2>2, <2>3, Zenon
<1>. QED
  BY <1>1, <1>3 DEF StreamInv, PacketIsFront, ChunkDone

LEMMA FillRingKept ==
    ASSUME PathAssumption, PathTypeOK, StreamInv, FillRing PROVE StreamInv'
<1>. DEFINE room == GetFreeSize(m_inRing)
            n == IF room <= Len(data) THEN room ELSE Len(data)
            now == SubSeq(data, 1, n)
            then == SubSeq(data, n + 1, Len(data))
            c == Contents(m_inRing)
<1>1. /\ m_inRing' = Serialize(m_inRing, now) /\ data' = then /\ pc' = "deframe"
      /\ UNCHANGED <<stream, delivered>>
  BY DEF FillRing, history
<1>2. m_inRing \in Rings /\ data \in Seq(Byte) /\ Len(data) \in Nat /\ room \in Nat
  BY RingFacts DEF PathTypeOK, GetFreeSize
<1>3. n \in Nat /\ n <= Len(data) /\ n <= room
  <2>. HIDE DEF room
  <2>. QED
    BY <1>2
<1>. HIDE DEF n
<1>4. now \in Seq(Byte) /\ Len(now) = n /\ then \in Seq(Byte) /\ now \o then = data
  <2>1. now \in Seq(Byte) /\ Len(now) = n - 1 + 1 /\ \A i \in 1 .. n - 1 + 1 : now[i] = data[1 + i - 1]
    <3>1. 1 \in Nat \ {0} /\ 1 <= n + 1
      BY <1>3
    <3>. QED
      BY <1>2, <1>3, <3>1, SubSeqIs
  <2>2. /\ then \in Seq(Byte) /\ Len(then) = Len(data) - (n + 1) + 1
        /\ \A i \in 1 .. Len(data) - (n + 1) + 1 : then[i] = data[(n + 1) + i - 1]
    <3>. DEFINE a == n + 1
    <3>1. a \in Nat \ {0} /\ a <= Len(data) + 1 /\ Len(data) <= Len(data)
      BY <1>2, <1>3
    <3>. HIDE DEF a
    <3>2. /\ SubSeq(data, a, Len(data)) \in Seq(Byte) /\ Len(SubSeq(data, a, Len(data))) = Len(data) - a + 1
          /\ \A i \in 1 .. Len(data) - a + 1 : SubSeq(data, a, Len(data))[i] = data[a + i - 1]
      BY <1>2, <3>1, SubSeqIs
    <3>. QED
      BY <3>2 DEF a
  <2>. HIDE DEF now, then
  <2>3. Len(now) = n /\ Len(then) = Len(data) - n
    BY <1>2, <1>3, <2>1, <2>2
  <2>4. /\ now \o then \in Seq(Byte) /\ Len(now \o then) = Len(data)
        /\ \A i \in 1 .. n : (now \o then)[i] = now[i]
        /\ \A i \in n + 1 .. Len(data) : (now \o then)[i] = then[i - n]
    <3>1. /\ now \o then \in Seq(Byte) /\ Len(now \o then) = Len(now) + Len(then)
          /\ \A i \in 1 .. Len(now) : (now \o then)[i] = now[i]
          /\ \A i \in Len(now) + 1 .. Len(now) + Len(then) : (now \o then)[i] = then[i - Len(now)]
      BY <2>1, <2>2, ConcatIs
    <3>2. n + (Len(data) - n) = Len(data)
      BY <1>2, <1>3
    <3>. QED
      BY <2>3, <3>1, <3>2
  <2>5. ASSUME NEW i \in 1 .. Len(data) PROVE (now \o then)[i] = data[i]
    <3>1. CASE i <= n
      <4>1. i \in 1 .. n /\ i \in 1 .. n - 1 + 1 /\ 1 + i - 1 = i
        BY <1>2, <1>3, <3>1
      <4>2. now[i] = data[1 + i - 1]
        BY <2>1, <4>1
      <4>. QED
        BY <2>4, <4>1, <4>2
    <3>2. CASE i > n
      <4>1. i \in n + 1 .. Len(data) /\ i - n \in 1 .. Len(data) - (n + 1) + 1 /\ (n + 1) + (i - n) - 1 = i
        BY <1>2, <1>3, <3>2
      <4>2. then[i - n] = data[(n + 1) + (i - n) - 1]
        BY <2>2, <4>1
      <4>. QED
        BY <2>4, <4>1, <4>2
    <3>3. i <= n \/ i > n
      BY <1>3
    <3>. QED
      BY <3>1, <3>2, <3>3, Zenon
  <2>6. now \o then = data
    BY <1>2, <2>4, <2>5, SameSeq
  <2>. QED
    BY <2>1, <2>2, <2>3, <2>6
<1>5. Contents(m_inRing') = c \o now
  <2>. HIDE DEF now
  <2>1. Len(now) <= GetFreeSize(m_inRing)
    BY <1>3, <1>4
  <2>. QED
    BY <1>1, <1>2, <1>4, <2>1, Serialized
<1>6. StreamKept'
  <2>. SUFFICES ASSUME NEW more \in Cells
                PROVE  delivered \o PacketsIn[(c \o now) \o (then \o more)] = PacketsIn[stream \o more]
    BY <1>1, <1>5 DEF StreamKept
  <2>1. c \in Seq(Byte) /\ then \o more \in Seq(Byte) /\ more \in Seq(Byte)
    BY <1>2, <1>4, ContentsType, ConcatIs DEF Cells
  <2>. HIDE DEF c, now, then
  <2>2. now \in Seq(Byte) /\ then \in Seq(Byte)
    BY <1>4
  <2>3. (now \o then) \o more = now \o (then \o more)
    BY <2>1, <2>2, Assoc
  <2>. DEFINE after == then \o more
  <2>6. after \in Seq(Byte)
    BY <2>1
  <2>. HIDE DEF after
  <2>5. (c \o now) \o after = c \o (now \o after)
    BY <2>1, <2>2, <2>6, Assoc
  <2>4. delivered \o PacketsIn[c \o (data \o more)] = PacketsIn[stream \o more]
    BY DEF StreamInv, StreamKept, c
  <2>. QED
    BY <1>4, <2>3, <2>4, <2>5, Zenon DEF after
<1>. QED
  BY <1>1, <1>6 DEF StreamInv, PacketIsFront, ChunkDone

(* The steps that leave the ring and what is sent alone.                   *)
LEMMA SameStreamKept ==
    ASSUME StreamInv, UNCHANGED <<m_inRing, data, stream, delivered>>, PacketIsFront', ChunkDone'
    PROVE  StreamInv'
  BY DEF StreamInv, StreamKept

(* The ring is rotated: by one cell, or by the frame that was taken.       *)
LEMMA RotatedKept ==
    ASSUME PathAssumption, PathTypeOK, StreamInv, NEW k \in 0 .. m_inRing.m_allocated_size,
           m_inRing' = Rotate(m_inRing, k), UNCHANGED <<data, stream>>, pc' = "deframe",
           NEW taken, delivered' = delivered \o taken, delivered \in Seq(Cells), taken \in Seq(Cells),
           \A x \in Cells : PacketsIn[Contents(m_inRing) \o x] =
               taken \o PacketsIn[SubSeq(Contents(m_inRing), k + 1, Len(Contents(m_inRing))) \o x]
    PROVE  StreamInv'
<1>. DEFINE c == Contents(m_inRing)
            r == SubSeq(c, k + 1, Len(c))
<1>1. Contents(m_inRing') = r /\ r \in Cells /\ data \in Cells
  <2>1. m_inRing \in Rings /\ data \in Cells
    BY DEF PathTypeOK, Cells
  <2>2. m_inRing' \in Rings
    BY <2>1, RotateType
  <2>3. Contents(m_inRing') \in Cells
    BY <2>2, ContentsType DEF Cells
  <2>. QED
    BY <2>1, <2>3, Rotates
<1>2. StreamKept'
  <2>. SUFFICES ASSUME NEW more \in Cells
                PROVE  (delivered \o taken) \o PacketsIn[r \o (data \o more)] = PacketsIn[stream \o more]
    BY <1>1 DEF StreamKept
  <2>. DEFINE x == data \o more
              p == PacketsIn[r \o x]
  <2>1. x \in Cells /\ r \o x \in Cells
    BY <1>1, ConcatIs DEF Cells
  <2>2. p \in Seq(Cells)
    BY <2>1, PacketsInIs
  <2>. HIDE DEF p, r, c
  <2>3. delivered \o PacketsIn[c \o x] = PacketsIn[stream \o more]
    BY Zenon DEF StreamInv, StreamKept, c
  <2>. HIDE DEF x
  <2>4. PacketsIn[c \o x] = taken \o p
    BY <2>1 DEF p, r, c
  <2>5. (delivered \o taken) \o p = delivered \o (taken \o p)
    BY <2>2, Assoc
  <2>. QED
    BY <2>3, <2>4, <2>5, Zenon DEF p, x
<1>. QED
  BY <1>2 DEF StreamInv, PacketIsFront, ChunkDone

LEMMA SkipKept ==
    ASSUME PathAssumption, PathTypeOK, StreamInv, SkipByte PROVE StreamInv'
<1>. DEFINE c == Contents(m_inRing)
<1>1. /\ m_inRing' = Rotate(m_inRing, 1) /\ UNCHANGED <<data, stream, delivered>> /\ pc' = "deframe"
      /\ m_inRing.m_allocated_size > 0
  BY DEF SkipByte, Turn, history
<1>2. m_inRing \in Rings /\ 1 \in 0 .. m_inRing.m_allocated_size /\ c \in Cells /\ delivered \in Seq(Cells)
  BY <1>1, RingFacts, ContentsType DEF PathTypeOK, Cells
<1>3. ~(Len(c) < Header) /\ BadFront(c)
  BY StatusMeans DEF SkipByte
<1>. HIDE DEF c
<1>4. ASSUME NEW x \in Cells PROVE PacketsIn[c \o x] = <<>> \o PacketsIn[SubSeq(c, 1 + 1, Len(c)) \o x]
  <2>. DEFINE r == SubSeq(c, 2, Len(c)) \o x
              p == PacketsIn[r]
  <2>1. PacketsIn[c \o x] = p
    BY <1>2, <1>3, PassedOver
  <2>2. r \in Cells
    BY <1>2, <1>3, RestType, ConcatIs DEF Cells, Header
  <2>3. p \in Seq(Cells)
    BY <2>2, PacketsInIs
  <2>. HIDE DEF p
  <2>4. <<>> \o p = p
    BY <2>3
  <2>. QED
    BY <2>1, <2>4 DEF p
<1>5. <<>> \in Seq(Cells) /\ delivered' = delivered \o <<>>
  BY <1>1, <1>2
<1>. QED
  BY <1>1, <1>2, <1>4, <1>5, RotatedKept DEF c

LEMMA RoutedKept ==
    ASSUME PathAssumption, IInv, StreamInv, Routed,
           delivered' = delivered \o Sendable(packet.cells)
    PROVE  StreamInv'
<1>. DEFINE c == Contents(m_inRing)
            p == SubSeq(c, Header + 1, Header + c[2])
            k == Header + c[2] + Digest
<1>1. /\ pc = "route" /\ pc' = "deframe" /\ UNCHANGED <<data, stream>>
      /\ m_inRing' = Rotate(m_inRing, Header + Len(packet.cells) + Digest)
  BY DEF Routed
<1>2. Status = "SUCCESS" /\ packet.cells = SubSeq(c, Header + 1, Header + Peek(m_inRing, 1))
  BY <1>1 DEF StreamInv, PacketIsFront
<1>3. ~(Len(c) < Header) /\ GoodFront(c) /\ Peek(m_inRing, 1) = c[2]
  BY <1>2, StatusMeans DEF IInv
<1>4. m_inRing \in Rings /\ c \in Cells /\ delivered \in Seq(Cells) /\ Len(c) = m_inRing.m_allocated_size
  BY ContentsType DEF IInv, PathTypeOK, Cells
<1>5. c[2] \in Nat /\ Len(c) \in Nat /\ k <= Len(c)
  <2>. HIDE DEF c
  <2>1. c[2] \in Nat /\ Len(c) \in Nat
    BY <1>3, <1>4, SizeCell
  <2>. QED
    BY <1>3, <2>1 DEF GoodFront, Header, Digest
<1>. HIDE DEF c
<1>6. p \in Cells /\ Len(p) = c[2]
  <2>. DEFINE a == Header + 1
              b == Header + c[2]
  <2>1. a \in Nat \ {0} /\ b \in Nat /\ a <= b + 1 /\ b <= Len(c) /\ b - a + 1 = c[2]
    BY <1>5 DEF Header, Digest
  <2>. HIDE DEF a, b
  <2>2. SubSeq(c, a, b) \in Seq(Byte) /\ Len(SubSeq(c, a, b)) = b - a + 1
    BY <1>4, <2>1, SubSeqType DEF Cells
  <2>. QED
    BY <2>1, <2>2 DEF a, b, Cells
<1>7. packet.cells = p /\ m_inRing' = Rotate(m_inRing, k)
  <2>1. packet.cells = p
    BY <1>2, <1>3, Zenon
  <2>. QED
    BY <1>1, <1>6, <2>1, Zenon
<1>. HIDE DEF p
<1>8. k \in 0 .. m_inRing.m_allocated_size
  BY <1>4, <1>5 DEF Header, Digest
<1>9. ASSUME NEW x \in Cells
      PROVE  PacketsIn[c \o x] = Sendable(p) \o PacketsIn[SubSeq(c, k + 1, Len(c)) \o x]
  BY <1>3, <1>4, FrameTaken DEF p
<1>. HIDE DEF k
<1>10. Sendable(p) \in Seq(Cells) /\ delivered' = delivered \o Sendable(p)
  BY <1>6, <1>7, SendableType
<1>. QED
  BY <1>1, <1>4, <1>7, <1>8, <1>9, <1>10, RotatedKept DEF c, IInv

LEMMA StreamStep ==
    ASSUME PathAssumption, IInv, StreamInv, [PathNext]_vars PROVE StreamInv'
<1>1. PathTypeOK
  BY DEF IInv
<1>2. ASSUME NEW n \in 1 .. MaxChunk, NEW chunk \in [1 .. n -> Byte], FramedIn(chunk) PROVE StreamInv'
  BY <1>1, <1>2, FramedInKept
<1>3. CASE FillRing
  BY <1>1, <1>3, FillRingKept
<1>4. CASE BufferProcessed
  BY <1>4, SameStreamKept DEF BufferProcessed, PacketIsFront, ChunkDone, history
<1>5. CASE Suspend
  BY <1>5, SameStreamKept DEF Suspend, PacketIsFront, ChunkDone, history
<1>6. CASE SkipByte
  BY <1>1, <1>6, SkipKept
<1>7. CASE CopyPacket
  <2>1. /\ UNCHANGED <<m_inRing, data, stream, delivered>> /\ pc' = "route" /\ Status = "SUCCESS"
        /\ packet' = [id |-> FirstOf(Fitting(Peek(m_inRing, 1))),
                      cells |-> SubSeq(Contents(m_inRing), Header + 1, Header + Peek(m_inRing, 1))]
    BY <1>7 DEF CopyPacket, Success, history
  <2>2. packet'.cells = SubSeq(Contents(m_inRing), Header + 1, Header + Peek(m_inRing, 1))
    BY <2>1
  <2>3. Status' = Status
    BY <2>1 DEF Status
  <2>. QED
    BY <2>1, <2>2, <2>3, SameStreamKept DEF PacketIsFront, ChunkDone
<1>8. CASE NoBuffer
  <2>1. UNCHANGED <<m_inRing, data, stream, delivered, pc, packet>>
    BY <1>8 DEF NoBuffer, deframer, history
  <2>. QED
    BY <2>1, SameStreamKept DEF PacketIsFront, ChunkDone, StreamInv, Status
<1>9. CASE RouteFile
  <2>1. delivered' = delivered \o Sendable(packet.cells)
    <3>1. delivered' = Append(delivered, packet.cells) /\ Sendable(packet.cells) = <<packet.cells>>
      BY <1>9 DEF RouteFile, Sendable
    <3>2. delivered \in Seq(Cells) /\ packet.cells \in Cells
      BY <1>1 DEF PathTypeOK, Cells
    <3>. QED
      BY <3>1, <3>2
  <2>. QED
    BY <1>9, <2>1, RoutedKept DEF RouteFile
<1>10. CASE RouteOther
  <2>1. delivered' = delivered \o Sendable(packet.cells)
    <3>1. /\ delivered' = (IF IsCommand(packet.cells) THEN Append(delivered, packet.cells) ELSE delivered)
          /\ Sendable(packet.cells) = IF IsCommand(packet.cells) THEN <<packet.cells>> ELSE <<>>
      BY <1>10 DEF RouteOther, Sendable
    <3>2. delivered \in Seq(Cells) /\ packet.cells \in Cells
      BY <1>1 DEF PathTypeOK, Cells
    <3>. QED
      BY <3>1, <3>2
  <2>. QED
    BY <1>10, <2>1, RoutedKept DEF RouteOther
<1>11. ASSUME NEW b \in held, ReturnBuffer(b) PROVE StreamInv'
  <2>1. UNCHANGED <<m_inRing, data, stream, delivered, pc, packet>>
    BY <1>11 DEF ReturnBuffer, deframer
  <2>. QED
    BY <2>1, SameStreamKept DEF PacketIsFront, ChunkDone, StreamInv, Status
<1>12. CASE UNCHANGED vars
  <2>1. UNCHANGED <<m_inRing, data, stream, delivered, pc, packet>>
    BY <1>12 DEF vars, deframer, history
  <2>. QED
    BY <2>1, SameStreamKept DEF PacketIsFront, ChunkDone, StreamInv, Status
<1>. QED
  BY <1>2, <1>3, <1>4, <1>5, <1>6, <1>7, <1>8, <1>9, <1>10, <1>11, <1>12 DEF PathNext

(* Every packet of the stream is sent once, in its order, however the      *)
(* stream is cut into chunks and wherever the ring wraps: for any sizes    *)
(* of ring and buffers, any hash, and as long a stream as may come.        *)
THEOREM StreamIsDeframed ==
    ASSUME PathAssumption, Store >= Header PROVE PathSpec => []DeframesTheStream
<1>1. PathInit => StreamInv
  BY StreamInit
<1>2. IInv /\ StreamInv /\ [PathNext]_vars => StreamInv'
  BY StreamStep
<1>3. ASSUME IInv, StreamInv PROVE delivered \o PacketsIn[Contents(m_inRing) \o data] = PacketsIn[stream]
  <2>1. m_inRing \in Rings /\ data \in Cells /\ stream \in Cells /\ <<>> \in Cells
    BY <1>3 DEF IInv, PathTypeOK, Cells
  <2>2. data \o <<>> = data /\ stream \o <<>> = stream
    BY <2>1 DEF Cells
  <2>. QED
    BY <1>3, <2>1, <2>2, Zenon DEF StreamInv, StreamKept
<1>4. PathSpec => []IInv
  BY InvHolds
<1>5. PathSpec => []OnlyForWant
  BY AssertionsCorrect
<1>. QED
  BY <1>1, <1>2, <1>3, <1>4, <1>5, PTL DEF PathSpec, DeframesTheStream

-----------------------------------------------------------------------------
(* The telemetry store.                                                    *)

(* A table: its first n buckets are in use, one per channel and in the     *)
(* chain of its slot, and no other is in a chain or was updated.           *)
Indexed(chains, bs, n) ==
    /\ \A b \in 1 .. n : /\ bs[b].id \in Channels /\ bs[b].used
                         /\ \E i \in DOMAIN chains[doHash(bs[b].id)] :
                               chains[doHash(bs[b].id)][i] = b
    /\ \A b, c \in 1 .. n : bs[b].id = bs[c].id => b = c
    /\ \A s \in HashSlots : \A i \in DOMAIN chains[s] : chains[s][i] \in 1 .. n
    /\ \A b \in n + 1 .. Buckets : ~bs[b].updated

(* What was updated in a table is what is new, with its newest value.      *)
Reflects(bs, n, news) ==
    /\ \A b \in 1 .. n : /\ bs[b].updated <=> news[bs[b].id] # 0
                         /\ bs[b].updated => bs[b].buffer = news[bs[b].id]
    /\ \A id \in Channels : news[id] # 0 => \E b \in 1 .. n : bs[b].id = id

(* A channel that was new at the swap is sent or still to come.            *)
SentOrToCome ==
    \A id \in Channels :
        /\ atSwap[id] = 0 => Sent(id) = {} /\ ToCome(id) = {}
        /\ atSwap[id] # 0 => \/ Sent(id) = {} /\ \E b \in 1 .. Buckets : ToCome(id) = {b}
                             \/ ToCome(id) = {} /\ \E i \in DOMAIN sent : Sent(id) = {i}
        /\ \A i \in Sent(id) : sent[i].buffer = atSwap[id]
        /\ \A b \in ToCome(id) : buckets[1 - m_activeBuffer][b].buffer = atSwap[id]

TlmInv ==
    /\ TlmTypeOK
    /\ \A t \in Tables : Indexed(slots[t], buckets[t], free[t])
    /\ Reflects(buckets[m_activeBuffer], free[m_activeBuffer], since)
    /\ SentOrToCome

(* What a lookup finds.                                                    *)
LEMMA FoundAre ==
    ASSUME TlmAssumption, TlmInv, NEW id \in Channels
    PROVE  /\ m_activeBuffer \in Tables /\ free[m_activeBuffer] \in 0 .. Buckets
           /\ \A b \in 1 .. free[m_activeBuffer] :
                 b \in Found(id) <=> buckets[m_activeBuffer][b].id = id
           /\ Found(id) \subseteq 1 .. free[m_activeBuffer]
<1> DEFINE a == m_activeBuffer
<1>1. /\ a \in Tables /\ free[a] \in 0 .. Buckets /\ doHash(id) \in HashSlots
      /\ Indexed(slots[a], buckets[a], free[a])
  BY DEF TlmInv, TlmTypeOK, TlmAssumption
<1>2. Found(id) \subseteq 1 .. free[a] BY <1>1 DEF Found, Chain, Indexed
<1>3. \A b \in 1 .. free[a] : b \in Found(id) <=> buckets[a][b].id = id
  BY <1>1 DEF Found, Chain, Indexed
<1> QED BY <1>1, <1>2, <1>3

(* The same buckets in use, fewer of them updated.                         *)
LEMMA IndexedStays ==
    ASSUME NEW chains, NEW bs, NEW cs, NEW n \in 0 .. Buckets, Buckets \in Nat,
           Indexed(chains, bs, n),
           \A b \in 1 .. Buckets : /\ cs[b].id = bs[b].id /\ cs[b].used = bs[b].used
                                   /\ cs[b].updated => bs[b].updated
    PROVE  Indexed(chains, cs, n)
<1>1. \A b \in 1 .. n : b \in 1 .. Buckets OBVIOUS
<1>2. \A b \in n + 1 .. Buckets : b \in 1 .. Buckets OBVIOUS
<1>3. \A b \in 1 .. n : /\ cs[b].id \in Channels /\ cs[b].used
                        /\ \E i \in DOMAIN chains[doHash(cs[b].id)] :
                              chains[doHash(cs[b].id)][i] = b
  BY <1>1 DEF Indexed
<1>4. \A b, c \in 1 .. n : cs[b].id = cs[c].id => b = c BY <1>1 DEF Indexed
<1>5. \A b \in n + 1 .. Buckets : ~cs[b].updated BY <1>2 DEF Indexed
<1> QED BY <1>3, <1>4, <1>5 DEF Indexed

(* Bucket b of the active table takes id, and the first n are in use then. *)
Takes(id, b, n) ==
    LET a == m_activeBuffer
    IN  /\ slots' \in [Tables -> [HashSlots -> Seq(1 .. Buckets)]]
        /\ slots'[1 - a] = slots[1 - a]
        /\ free' = [free EXCEPT ![a] = n]
        /\ \A c \in 1 .. n : c # b => c \in 1 .. free[a] /\ buckets[a][c].id # id
        /\ \A c \in 1 .. free[a] : c \in 1 .. n
        /\ b \in 1 .. free[a] => buckets[a][b].id = id
        /\ \A s \in HashSlots : \A i \in DOMAIN slots'[a][s] : slots'[a][s][i] \in 1 .. n
        /\ \A c \in 1 .. n :
              LET s == doHash(IF c = b THEN id ELSE buckets[a][c].id)
              IN  \E i \in DOMAIN slots'[a][s] : slots'[a][s][i] = c

(* TlmRecv leaves the other table alone, and what Run has sent of it.      *)
LEMMA UpdateKeeps ==
    ASSUME TlmAssumption, TlmInv, NEW id \in Channels, NEW n \in 0 .. Buckets,
           NEW b \in 1 .. n, writes < MaxWrites, Update(id, b), Takes(id, b, n)
    PROVE  TlmInv'
<1> DEFINE a == m_activeBuffer
           o == 1 - m_activeBuffer
           new == [id |-> id, used |-> TRUE, updated |-> TRUE, buffer |-> writes + 1]
<1>1. /\ a \in Tables /\ o \in Tables /\ o # a /\ Tables = {a, o}
      /\ writes \in Nat /\ writes + 1 \in 1 .. MaxWrites /\ Buckets \in Nat
      /\ since \in [Channels -> 0 .. MaxWrites] /\ free[a] \in 0 .. Buckets
      /\ free \in [Tables -> 0 .. Buckets] /\ 0 \in Tables /\ 1 \in Tables
      /\ buckets \in [Tables -> [1 .. Buckets -> [id : Channels \cup {0}, used : BOOLEAN,
                                                  updated : BOOLEAN, buffer : 0 .. MaxWrites]]]
      /\ b \in 1 .. Buckets
  <2>1. TlmTypeOK /\ Buckets \in Nat /\ MaxWrites \in Nat BY DEF TlmInv, TlmAssumption
  <2>2. a \in Tables /\ o \in Tables /\ o # a /\ Tables = {a, o}
    BY <2>1 DEF TlmTypeOK, Tables
  <2>3. writes \in Nat /\ writes + 1 \in 1 .. MaxWrites BY <2>1 DEF TlmTypeOK
  <2>4. b \in 1 .. Buckets BY <2>1
  <2> QED BY <2>1, <2>2, <2>3, <2>4 DEF TlmTypeOK, Tables
<1>2. /\ buckets' = [buckets EXCEPT ![a][b] = new] /\ writes' = writes + 1
      /\ since' = [since EXCEPT ![id] = writes + 1]
      /\ m_activeBuffer' = a /\ entry' = entry /\ sent' = sent /\ atSwap' = atSwap
  BY DEF Update
<1>3. /\ buckets'[o] = buckets[o] /\ buckets'[a][b] = new
      /\ \A c \in 1 .. Buckets \ {b} : buckets'[a][c] = buckets[a][c]
      /\ slots'[o] = slots[o] /\ free'[o] = free[o] /\ free'[a] = n
      /\ \A i \in Channels \ {id} : since'[i] = since[i]
      /\ since'[id] = writes + 1
  BY <1>1, <1>2 DEF Takes
<1>4. new.id = id /\ new.used /\ new.updated /\ new.buffer = writes + 1 /\ writes + 1 # 0
  BY <1>1
<1>5. TlmTypeOK'
  <2>1. buckets' \in [Tables -> [1 .. Buckets -> [id : Channels \cup {0}, used : BOOLEAN,
                                                  updated : BOOLEAN, buffer : 0 .. MaxWrites]]]
    <3>1. new \in [id : Channels \cup {0}, used : BOOLEAN,
                   updated : BOOLEAN, buffer : 0 .. MaxWrites]
      BY <1>1
    <3> HIDE DEF new
    <3> QED BY <1>1, <1>2, <3>1
  <2>2. since' \in [Channels -> 0 .. MaxWrites] /\ writes' \in 0 .. MaxWrites BY <1>1, <1>2
  <2>3. free' \in [Tables -> 0 .. Buckets] BY <1>1 DEF Takes
  <2> QED BY <1>2, <2>1, <2>2, <2>3 DEF TlmInv, TlmTypeOK, Takes
<1> HIDE DEF new
<1>6. Indexed(slots'[o], buckets'[o], free'[o])
  BY <1>1, <1>3 DEF TlmInv
<1>7. Indexed(slots'[a], buckets'[a], free'[a])
  <2>1. \A c \in 1 .. n : buckets'[a][c].id = (IF c = b THEN id ELSE buckets[a][c].id)
    BY <1>1, <1>3, <1>4
  <2>2. Indexed(slots[a], buckets[a], free[a]) BY <1>1 DEF TlmInv
  <2>3. ASSUME NEW c \in 1 .. n
        PROVE  /\ buckets'[a][c].id \in Channels /\ buckets'[a][c].used
               /\ \E i \in DOMAIN slots'[a][doHash(buckets'[a][c].id)] :
                     slots'[a][doHash(buckets'[a][c].id)][i] = c
    <3>1. c \in 1 .. Buckets BY <1>1
    <3>2. CASE c = b BY <1>3, <1>4, <2>1, <3>2 DEF Takes
    <3>3. CASE c # b
      <4>1. c \in 1 .. free[a] /\ buckets'[a][c] = buckets[a][c] BY <1>3, <3>1, <3>3 DEF Takes
      <4>2. buckets[a][c].id \in Channels /\ buckets[a][c].used BY <4>1, <2>2 DEF Indexed
      <4>3. \E i \in DOMAIN slots'[a][doHash(buckets[a][c].id)] :
               slots'[a][doHash(buckets[a][c].id)][i] = c
        BY <3>3 DEF Takes
      <4> QED BY <4>1, <4>2, <4>3
    <3> QED BY <3>2, <3>3
  <2>4. ASSUME NEW c \in 1 .. n, NEW d \in 1 .. n, buckets'[a][c].id = buckets'[a][d].id
        PROVE  c = d
    <3>1. CASE c = b \/ d = b BY <2>1, <2>4, <3>1 DEF Takes
    <3>2. CASE c # b /\ d # b BY <2>1, <2>2, <2>4, <3>2 DEF Indexed, Takes
    <3> QED BY <3>1, <3>2
  <2>5. ASSUME NEW c \in n + 1 .. Buckets PROVE ~buckets'[a][c].updated
    <3>1. c \in free[a] + 1 .. Buckets /\ c # b /\ c \in 1 .. Buckets
      <4>1. c \in 1 .. Buckets /\ c \notin 1 .. n BY <1>1
      <4>2. c \notin 1 .. free[a] BY <4>1 DEF Takes
      <4> QED BY <4>1, <4>2, <1>1
    <3> QED BY <3>1, <1>3, <2>2 DEF Indexed
  <2> QED BY <1>3, <2>3, <2>4, <2>5 DEF Indexed, Takes
<1>8. Reflects(buckets'[a], free'[a], since')
  <2>1. Reflects(buckets[a], free[a], since) /\ Indexed(slots[a], buckets[a], free[a])
    BY <1>1 DEF TlmInv
  <2>2. ASSUME NEW c \in 1 .. n
        PROVE  /\ buckets'[a][c].updated <=> since'[buckets'[a][c].id] # 0
               /\ buckets'[a][c].updated => buckets'[a][c].buffer = since'[buckets'[a][c].id]
    <3>1. c \in 1 .. Buckets BY <1>1
    <3>2. CASE c = b BY <1>3, <1>4, <3>2
    <3>3. CASE c # b
      <4>1. /\ c \in 1 .. free[a] /\ buckets'[a][c] = buckets[a][c] /\ buckets[a][c].id # id
            /\ buckets[a][c].id \in Channels
        BY <1>3, <2>1, <3>1, <3>3 DEF Indexed, Takes
      <4> QED BY <4>1, <1>3, <2>1 DEF Reflects
    <3> QED BY <3>2, <3>3
  <2>3. ASSUME NEW j \in Channels, since'[j] # 0 PROVE \E c \in 1 .. n : buckets'[a][c].id = j
    <3>1. CASE j = id BY <1>3, <1>4, <3>1
    <3>2. CASE j # id
      <4>1. PICK c \in 1 .. free[a] : buckets[a][c].id = j
        BY <1>3, <2>1, <2>3, <3>2 DEF Reflects
      <4>2. c # b /\ c \in 1 .. n /\ c \in 1 .. Buckets BY <4>1, <3>2, <1>1 DEF Takes
      <4> QED BY <4>1, <4>2, <1>3
    <3> QED BY <3>1, <3>2
  <2> QED BY <1>3, <2>2, <2>3 DEF Reflects
<1>9. SentOrToCome'
  <2>1. \A j \in Channels : Sent(j)' = Sent(j) /\ ToCome(j)' = ToCome(j)
    BY <1>2, <1>3 DEF Sent, ToCome
  <2>2. SentOrToCome BY DEF TlmInv
  <2>3. buckets'[1 - m_activeBuffer'] = buckets[1 - m_activeBuffer] BY <1>2, <1>3
  <2> QED BY <1>2, <2>1, <2>2, <2>3 DEF SentOrToCome
<1> QED BY <1>1, <1>2, <1>5, <1>6, <1>7, <1>8, <1>9 DEF TlmInv

LEMMA TlmRecvKnownKeeps ==
    ASSUME TlmAssumption, TlmInv, NEW id \in Channels, TlmRecvKnown(id)
    PROVE  TlmInv'
<1> DEFINE a == m_activeBuffer
<1>1. PICK b \in Found(id) : Update(id, b) BY DEF TlmRecvKnown
<1>2. /\ a \in Tables /\ free[a] \in 0 .. Buckets /\ b \in 1 .. free[a]
      /\ buckets[a][b].id = id
      /\ Buckets \in Nat
  BY FoundAre DEF TlmAssumption
<1>3. /\ writes < MaxWrites /\ slots' = slots /\ free' = free
      /\ slots \in [Tables -> [HashSlots -> Seq(1 .. Buckets)]]
      /\ free \in [Tables -> 0 .. Buckets]
      /\ Indexed(slots[a], buckets[a], free[a])
  BY <1>2 DEF TlmRecvKnown, TlmInv, TlmTypeOK
<1>4. b \in 1 .. Buckets /\ free' = [free EXCEPT ![a] = free[a]] BY <1>2, <1>3
<1>5. \A c \in 1 .. free[a] : c # b => buckets[a][c].id # id BY <1>2, <1>3 DEF Indexed
<1>6. \A c \in 1 .. free[a] :
         LET s == doHash(IF c = b THEN id ELSE buckets[a][c].id)
         IN  \E i \in DOMAIN slots'[a][s] : slots'[a][s][i] = c
  BY <1>2, <1>3 DEF Indexed
<1>7. \A s \in HashSlots : \A i \in DOMAIN slots'[a][s] : slots'[a][s][i] \in 1 .. free[a]
  BY <1>3 DEF Indexed
<1>8. Takes(id, b, free[a]) BY <1>2, <1>3, <1>4, <1>5, <1>6, <1>7 DEF Takes
<1> QED BY <1>1, <1>2, <1>3, <1>8, UpdateKeeps

LEMMA TlmRecvNewKeeps ==
    ASSUME TlmAssumption, TlmInv, NEW id \in Channels, TlmRecvNew(id)
    PROVE  TlmInv'
<1> DEFINE a == m_activeBuffer
           b == free[a] + 1
           s == doHash(id)
<1>1. /\ a \in Tables /\ free[a] \in 0 .. Buckets /\ Buckets \in Nat /\ s \in HashSlots
      /\ \A c \in 1 .. free[a] : buckets[a][c].id # id
  BY FoundAre DEF TlmAssumption, TlmRecvNew
<1>2. /\ writes < MaxWrites /\ b <= Buckets /\ Update(id, b)
      /\ slots' = [slots EXCEPT ![a][s] = Append(@, b)]
      /\ free' = [free EXCEPT ![a] = b]
      /\ slots \in [Tables -> [HashSlots -> Seq(1 .. Buckets)]]
      /\ Indexed(slots[a], buckets[a], free[a])
  BY <1>1 DEF TlmRecvNew, TlmInv, TlmTypeOK
<1>3. /\ b \in 1 .. Buckets /\ b \in 1 .. b /\ b \in 0 .. Buckets
      /\ \A c \in 1 .. b : c = b \/ c \in 1 .. free[a]
      /\ b \notin 1 .. free[a] /\ \A c \in 1 .. free[a] : c \in 1 .. b
  BY <1>1, <1>2
<1> DEFINE q == slots[a][s]
<1>4. q \in Seq(1 .. Buckets) BY <1>1, <1>2
<1>5. /\ slots'[a][s] = Append(q, b)
      /\ \A r \in HashSlots \ {s} : slots'[a][r] = slots[a][r]
      /\ \A t \in Tables \ {a} : slots'[t] = slots[t]
  BY <1>1, <1>2
<1> HIDE DEF b
<1>6. /\ Append(q, b) \in Seq(1 .. Buckets) /\ Len(q) \in Nat
      /\ DOMAIN Append(q, b) = 1 .. Len(q) + 1 /\ DOMAIN q = 1 .. Len(q)
      /\ Append(q, b)[Len(q) + 1] = b /\ \A i \in 1 .. Len(q) : Append(q, b)[i] = q[i]
  BY <1>3, <1>4
<1> HIDE DEF q
<1>7. slots' \in [Tables -> [HashSlots -> Seq(1 .. Buckets)]]
  BY <1>1, <1>2, <1>6 DEF q
<1>8. \A r \in HashSlots : \A i \in DOMAIN slots'[a][r] : slots'[a][r][i] \in 1 .. b
  <2>1. ASSUME NEW i \in DOMAIN slots'[a][s] PROVE slots'[a][s][i] \in 1 .. b
    <3>1. i \in 1 .. Len(q) \/ i = Len(q) + 1 BY <1>5, <1>6
    <3>2. CASE i \in 1 .. Len(q)
      <4>1. slots'[a][s][i] = q[i] /\ q[i] \in 1 .. free[a]
        BY <3>2, <1>1, <1>2, <1>5, <1>6 DEF q, Indexed
      <4> QED BY <4>1, <1>3
    <3> QED BY <3>1, <3>2, <1>3, <1>5, <1>6
  <2>2. ASSUME NEW r \in HashSlots \ {s}, NEW i \in DOMAIN slots'[a][r]
        PROVE  slots'[a][r][i] \in 1 .. b
    <3>1. slots'[a][r] = slots[a][r] BY <1>5
    <3>2. slots[a][r][i] \in 1 .. free[a] BY <2>2, <3>1, <1>2 DEF Indexed
    <3> QED BY <3>1, <3>2, <1>3
  <2> QED BY <2>1, <2>2
<1>9. ASSUME NEW c \in 1 .. b
      PROVE  LET r == doHash(IF c = b THEN id ELSE buckets[a][c].id)
             IN  \E i \in DOMAIN slots'[a][r] : slots'[a][r][i] = c
  <2>1. CASE c = b
    <3>1. Len(q) + 1 \in DOMAIN slots'[a][s] BY <1>5, <1>6
    <3> QED BY <2>1, <3>1, <1>5, <1>6
  <2>2. CASE c # b
    <3>1. c \in 1 .. free[a] BY <2>2, <1>3
    <3> DEFINE r == doHash(buckets[a][c].id)
    <3>2. r \in HashSlots BY <3>1, <1>2 DEF Indexed, TlmAssumption
    <3>3. PICK i \in DOMAIN slots[a][r] : slots[a][r][i] = c BY <3>1, <1>2 DEF Indexed
    <3>4. i \in DOMAIN slots'[a][r] /\ slots'[a][r][i] = c
      <4>1. CASE r = s BY <4>1, <3>3, <1>5, <1>6 DEF q
      <4>2. CASE r # s BY <4>2, <3>2, <3>3, <1>5
      <4> QED BY <4>1, <4>2
    <3> QED BY <3>4, <2>2
  <2> QED BY <2>1, <2>2
<1>10. slots'[1 - a] = slots[1 - a] BY <1>1, <1>5 DEF Tables
<1>11. Takes(id, b, b) BY <1>1, <1>2, <1>3, <1>7, <1>8, <1>9, <1>10 DEF Takes
<1> QED BY <1>2, <1>3, <1>11, UpdateKeeps

LEMMA RunSwapKeeps ==
    ASSUME TlmAssumption, TlmInv, RunSwap PROVE TlmInv'
<1> DEFINE a == m_activeBuffer
           o == 1 - m_activeBuffer
           B == [id : Channels \cup {0}, used : BOOLEAN, updated : BOOLEAN,
                 buffer : 0 .. MaxWrites]
<1>1. /\ a \in Tables /\ o \in Tables /\ o # a /\ 1 - o = a /\ Tables = {a, o}
      /\ Buckets \in Nat \ {0} /\ free \in [Tables -> 0 .. Buckets]
      /\ buckets \in [Tables -> [1 .. Buckets -> B]]
  BY DEF TlmInv, TlmTypeOK, TlmAssumption, Tables
<1>2. /\ entry' = 1 /\ m_activeBuffer' = o /\ sent' = <<>> /\ atSwap' = since
      /\ since' = Nothing /\ slots' = slots /\ free' = free /\ writes' = writes
      /\ buckets' = [buckets EXCEPT ![o] =
                       [b \in 1 .. Buckets |-> [buckets[o][b] EXCEPT !.updated = FALSE]]]
  BY DEF RunSwap
<1>3. /\ buckets'[a] = buckets[a]
      /\ \A b \in 1 .. Buckets : buckets'[o][b] = [buckets[o][b] EXCEPT !.updated = FALSE]
  BY <1>1, <1>2
<1>4. \A b \in 1 .. Buckets : /\ buckets'[o][b].id = buckets[o][b].id
                              /\ buckets'[o][b].used = buckets[o][b].used
                              /\ buckets'[o][b].updated = FALSE
                              /\ buckets'[o][b] \in B
  <2>1. ASSUME NEW x \in B
        PROVE  /\ [x EXCEPT !.updated = FALSE].id = x.id /\ [x EXCEPT !.updated = FALSE].used = x.used
               /\ [x EXCEPT !.updated = FALSE].updated = FALSE
               /\ [x EXCEPT !.updated = FALSE] \in B
    OBVIOUS
  <2> HIDE DEF B
  <2> SUFFICES ASSUME NEW b \in 1 .. Buckets
               PROVE  /\ buckets'[o][b].id = buckets[o][b].id
                      /\ buckets'[o][b].used = buckets[o][b].used
                      /\ buckets'[o][b].updated = FALSE /\ buckets'[o][b] \in B
    OBVIOUS
  <2>2. PICK x \in B : x = buckets[o][b] BY <1>1
  <2>3. buckets'[o][b] = [x EXCEPT !.updated = FALSE] BY <1>3, <2>2
  <2> QED BY <2>1, <2>2, <2>3
<1>5. TlmTypeOK'
  <2>1. buckets' \in [Tables -> [1 .. Buckets -> B]] BY <1>1, <1>2, <1>3, <1>4
  <2>2. since' \in [Channels -> 0 .. MaxWrites] BY <1>2 DEF Nothing, TlmAssumption
  <2>3. sent' \in Seq([id : Channels, buffer : 0 .. MaxWrites]) BY <1>2
  <2> QED BY <1>1, <1>2, <2>1, <2>2, <2>3 DEF TlmInv, TlmTypeOK
<1>6. \A t \in Tables : Indexed(slots'[t], buckets'[t], free'[t])
  <2>1. Indexed(slots'[a], buckets'[a], free'[a]) BY <1>1, <1>2, <1>3 DEF TlmInv
  <2>2. Indexed(slots[o], buckets[o], free[o]) BY <1>1 DEF TlmInv
  <2>3. free[o] \in 0 .. Buckets /\ Buckets \in Nat BY <1>1
  <2>4. \A b \in 1 .. Buckets : /\ buckets'[o][b].id = buckets[o][b].id
                                /\ buckets'[o][b].used = buckets[o][b].used
                                /\ buckets'[o][b].updated => buckets[o][b].updated
    BY <1>4
  <2>5. Indexed(slots[o], buckets'[o], free[o]) BY <2>2, <2>3, <2>4, IndexedStays
  <2> QED BY <1>1, <1>2, <2>1, <2>5
<1>7. Reflects(buckets'[o], free'[o], since')
  <2>1. \A b \in 1 .. free[o] : b \in 1 .. Buckets /\ buckets[o][b].id \in Channels
    BY <1>1 DEF TlmInv, Indexed
  <2> QED BY <1>2, <1>4, <2>1 DEF Reflects, Nothing
<1>8. SentOrToCome'
  <2>1. Indexed(slots[a], buckets[a], free[a]) /\ Reflects(buckets[a], free[a], since)
    BY <1>1 DEF TlmInv
  <2>2. \A id \in Channels : Sent(id)' = {} BY <1>2 DEF Sent
  <2>3. \A id \in Channels :
           ToCome(id)' = {b \in 1 .. Buckets : buckets[a][b].updated /\ buckets[a][b].id = id}
    BY <1>1, <1>2, <1>3 DEF ToCome
  <2>4. \A b \in 1 .. Buckets : buckets[a][b].updated => b \in 1 .. free[a]
    BY <1>1, <2>1 DEF Indexed
  <2>5. ASSUME NEW id \in Channels, NEW b \in ToCome(id)'
        PROVE  since[id] # 0 /\ buckets[a][b].buffer = since[id]
    BY <2>1, <2>3, <2>4 DEF Reflects
  <2>6. ASSUME NEW id \in Channels, since[id] # 0
        PROVE  \E b \in 1 .. Buckets : ToCome(id)' = {b}
    <3>1. PICK b \in 1 .. free[a] : buckets[a][b].id = id BY <2>1, <2>6 DEF Reflects
    <3>2. buckets[a][b].updated BY <2>1, <2>6, <3>1 DEF Reflects
    <3>3. b \in 1 .. Buckets BY <1>1
    <3>4. ToCome(id)' = {b} BY <2>1, <2>3, <2>4, <3>1, <3>2, <3>3 DEF Indexed
    <3> QED BY <3>3, <3>4
  <2>7. buckets'[1 - m_activeBuffer'] = buckets[a] BY <1>1, <1>2, <1>3
  <2> QED BY <1>2, <2>2, <2>5, <2>6, <2>7 DEF SentOrToCome
<1> QED BY <1>2, <1>5, <1>6, <1>7, <1>8 DEF TlmInv

LEMMA RunEntryKeeps ==
    ASSUME TlmAssumption, TlmInv, RunEntry PROVE TlmInv'
<1> DEFINE a == m_activeBuffer
           o == 1 - m_activeBuffer
           e == entry
           old == buckets[o][e]
           sending == [id |-> old.id, buffer |-> old.buffer]
           sends == old.updated /\ old.used
           B == [id : Channels \cup {0}, used : BOOLEAN, updated : BOOLEAN,
                 buffer : 0 .. MaxWrites]
<1>1. /\ a \in Tables /\ o \in Tables /\ o # a /\ Tables = {a, o}
      /\ Buckets \in Nat \ {0} /\ free \in [Tables -> 0 .. Buckets]
      /\ buckets \in [Tables -> [1 .. Buckets -> B]] /\ e \in 1 .. Buckets
      /\ sent \in Seq([id : Channels, buffer : 0 .. MaxWrites])
      /\ Indexed(slots[o], buckets[o], free[o])
  BY DEF TlmInv, TlmTypeOK, TlmAssumption, Tables, RunEntry
<1>2. /\ entry' = (IF e = Buckets THEN 0 ELSE e + 1)
      /\ m_activeBuffer' = a /\ slots' = slots /\ free' = free /\ writes' = writes
      /\ since' = since /\ atSwap' = atSwap
      /\ sends => /\ sent' = Append(sent, sending)
                  /\ buckets' = [buckets EXCEPT ![o][e].updated = FALSE]
      /\ ~sends => sent' = sent /\ buckets' = buckets
  BY DEF RunEntry
<1>3. old.updated => old.used /\ old.id \in Channels
  <2>1. old.updated => e \in 1 .. free[o] BY <1>1 DEF Indexed
  <2> QED BY <1>1, <2>1 DEF Indexed
<1>4. /\ buckets'[a] = buckets[a]
      /\ \A b \in 1 .. Buckets : /\ buckets'[o][b].id = buckets[o][b].id
                                 /\ buckets'[o][b].used = buckets[o][b].used
                                 /\ buckets'[o][b].buffer = buckets[o][b].buffer
                                 /\ b # e => buckets'[o][b].updated = buckets[o][b].updated
                                 /\ buckets'[o][b].updated => buckets[o][b].updated
      /\ buckets' \in [Tables -> [1 .. Buckets -> B]]
  <2>1. CASE sends
    <3>1. buckets' = [buckets EXCEPT ![o][e].updated = FALSE] BY <1>2, <2>1
    <3> HIDE DEF old, sending, sends
    <3>2. \A b \in 1 .. Buckets : b # e => buckets'[o][b] = buckets[o][b] BY <1>1, <3>1
    <3>3. buckets'[o][e] = [buckets[o][e] EXCEPT !.updated = FALSE] BY <1>1, <3>1
    <3>4. buckets[o][e] \in B BY <1>1
    <3>5. /\ buckets'[o][e].id = buckets[o][e].id /\ buckets'[o][e].used = buckets[o][e].used
          /\ buckets'[o][e].buffer = buckets[o][e].buffer /\ buckets'[o][e].updated = FALSE
          /\ buckets'[o][e] \in B
      BY <3>3, <3>4
    <3>6. buckets'[a] = buckets[a] BY <1>1, <3>1
    <3>7. buckets' \in [Tables -> [1 .. Buckets -> B]]
      <4>1. [buckets[o][e] EXCEPT !.updated = FALSE] \in B BY <3>3, <3>5
      <4> HIDE DEF B
      <4> QED BY <1>1, <3>1, <4>1
    <3> HIDE DEF B
    <3> QED BY <3>2, <3>5, <3>6, <3>7
  <2>2. CASE ~sends BY <1>1, <1>2, <2>2
  <2> QED BY <2>1, <2>2
<1>5. TlmTypeOK'
  <2>1. sent' \in Seq([id : Channels, buffer : 0 .. MaxWrites])
    <3> DEFINE R == [id : Channels, buffer : 0 .. MaxWrites]
    <3>1. CASE sends
      <4>1. old \in B BY <1>1
      <4>2. sending \in R BY <1>3, <3>1, <4>1
      <4>3. sent \in Seq(R) /\ sent' = Append(sent, sending) BY <1>1, <1>2, <3>1
      <4> HIDE DEF sending, R
      <4>4. sent' \in Seq(R) BY <4>2, <4>3
      <4> QED BY <4>4 DEF R
    <3>2. CASE ~sends BY <1>1, <1>2, <3>2
    <3> QED BY <3>1, <3>2
  <2>2. entry' \in 0 .. Buckets BY <1>1, <1>2
  <2> QED BY <1>2, <1>4, <2>1, <2>2 DEF TlmInv, TlmTypeOK
<1>6. \A t \in Tables : Indexed(slots'[t], buckets'[t], free'[t])
  <2>1. Indexed(slots'[a], buckets'[a], free'[a]) BY <1>1, <1>2, <1>4 DEF TlmInv
  <2>2. free[o] \in 0 .. Buckets /\ Buckets \in Nat BY <1>1
  <2>3. Indexed(slots[o], buckets[o], free[o]) BY <1>1
  <2>4. \A b \in 1 .. Buckets : /\ buckets'[o][b].id = buckets[o][b].id
                                /\ buckets'[o][b].used = buckets[o][b].used
                                /\ buckets'[o][b].updated => buckets[o][b].updated
    BY <1>4
  <2>5. Indexed(slots[o], buckets'[o], free[o]) BY <2>2, <2>3, <2>4, IndexedStays
  <2> QED BY <1>1, <1>2, <2>1, <2>5
<1>7. Reflects(buckets'[a], free'[a], since') BY <1>2, <1>4 DEF TlmInv
<1>8. SentOrToCome'
  <2> DEFINE Left(b) == entry' # 0 /\ b >= entry'
  <2>1. \A b \in 1 .. Buckets : Left(b) <=> (b >= e /\ b # e) BY <1>1, <1>2
  <2> HIDE DEF Left
  <2>2. \A id \in Channels : ToCome(id)' = ToCome(id) \ {e}
    <3>1. \A id \in Channels :
            ToCome(id)' = {b \in 1 .. Buckets : /\ Left(b) /\ buckets'[o][b].updated
                                                /\ buckets'[o][b].id = id}
      BY <1>2 DEF ToCome, Left
    <3>2. \A id \in Channels :
            ToCome(id) = {b \in 1 .. Buckets : /\ b >= e /\ buckets[o][b].updated
                                               /\ buckets[o][b].id = id}
      BY <1>1 DEF ToCome
    <3> QED BY <2>1, <3>1, <3>2, <1>4
  <2>3. \A b \in 1 .. Buckets : buckets'[1 - m_activeBuffer'][b].buffer = buckets[o][b].buffer
    BY <1>2, <1>4
  <2>4. SentOrToCome BY DEF TlmInv
  <2>5. CASE sends
    <3> DEFINE k == Len(sent) + 1
    <3>1. /\ sent' = Append(sent, sending) /\ DOMAIN sent' = 1 .. k /\ k \in Nat
          /\ DOMAIN sent = 1 .. k - 1 /\ k \notin 1 .. k - 1 /\ k \in 1 .. k
          /\ \A i \in 1 .. k : i = k \/ i \in 1 .. k - 1
          /\ sent'[k] = sending /\ \A i \in 1 .. k - 1 : sent'[i] = sent[i] /\ i \in 1 .. k
      BY <1>1, <1>2, <2>5
    <3> HIDE DEF k
    <3>2. PICK id \in Channels : id = old.id /\ sending.id = id /\ sending.buffer = old.buffer
      BY <1>3, <2>5
    <3> HIDE DEF sending
    <3>3. e \in ToCome(id) BY <1>1, <2>5, <3>2 DEF ToCome
    <3>4. /\ atSwap[id] # 0 /\ Sent(id) = {} /\ ToCome(id) = {e}
          /\ old.buffer = atSwap[id]
      BY <2>4, <3>3 DEF SentOrToCome
    <3>5. Sent(id)' = {k}
      <4>1. \A i \in 1 .. k - 1 : sent[i].id # id BY <3>1, <3>4 DEF Sent
      <4>2. Sent(id)' = {i \in 1 .. k : sent'[i].id = id} BY <3>1 DEF Sent
      <4> QED BY <3>1, <3>2, <4>1, <4>2
    <3>6. ToCome(id)' = {} BY <2>2, <3>4
    <3> DEFINE OK(x) ==
           /\ atSwap'[x] = 0 => Sent(x)' = {} /\ ToCome(x)' = {}
           /\ atSwap'[x] # 0 => \/ Sent(x)' = {} /\ \E b \in 1 .. Buckets : ToCome(x)' = {b}
                                \/ ToCome(x)' = {} /\ \E i \in DOMAIN sent' : Sent(x)' = {i}
           /\ \A i \in Sent(x)' : sent'[i].buffer = atSwap'[x]
           /\ \A b \in ToCome(x)' : buckets'[1 - m_activeBuffer'][b].buffer = atSwap'[x]
    <3>7. OK(id) BY <1>2, <3>1, <3>2, <3>4, <3>5, <3>6
    <3>8. ASSUME NEW x \in Channels \ {id} PROVE OK(x)
      <4>1. Sent(x)' = Sent(x) /\ \A i \in Sent(x) : i \in DOMAIN sent' /\ sent'[i] = sent[i]
        BY <3>1, <3>2 DEF Sent
      <4>2. ToCome(x)' = ToCome(x) /\ ToCome(x) \subseteq 1 .. Buckets
        BY <2>2, <3>2 DEF ToCome
      <4>3. \A i \in DOMAIN sent : i \in DOMAIN sent' BY <3>1
      <4> QED BY <4>1, <4>2, <4>3, <1>2, <2>3, <2>4 DEF SentOrToCome
    <3>9. \A x \in Channels : OK(x) BY <3>7, <3>8
    <3> QED BY <3>9 DEF SentOrToCome
  <2>6. CASE ~sends
    <3>1. ~old.updated BY <1>3, <2>6
    <3>2. \A id \in Channels : ToCome(id)' = ToCome(id) /\ ToCome(id) \subseteq 1 .. Buckets
      BY <2>2, <3>1 DEF ToCome
    <3>3. sent' = sent /\ atSwap' = atSwap BY <1>2, <2>6
    <3>4. \A id \in Channels : Sent(id)' = Sent(id) BY <3>3 DEF Sent
    <3> QED BY <2>3, <2>4, <3>2, <3>3, <3>4 DEF SentOrToCome
  <2> QED BY <2>5, <2>6
<1> QED BY <1>2, <1>5, <1>6, <1>7, <1>8 DEF TlmInv

LEMMA TlmInvHolds ==
    ASSUME TlmAssumption PROVE TlmSpec => []TlmInv
<1>1. ASSUME TlmInit PROVE TlmInv
  <2>1. /\ 0 \in Tables /\ 1 \in Tables /\ 1 - 0 = 1 /\ Buckets \in Nat BY DEF Tables, TlmAssumption
  <2>2. TlmTypeOK
    BY <1>1, <2>1 DEF TlmInit, TlmTypeOK, TlmAssumption, Unused, Nothing
  <2>3. \A t \in Tables : \A b \in 1 .. Buckets : buckets[t][b].updated = FALSE
    BY <1>1 DEF TlmInit, Unused
  <2>4. \A t \in Tables : Indexed(slots[t], buckets[t], free[t])
    <3>1. \A t \in Tables : free[t] = 0 /\ \A s \in HashSlots : slots[t][s] = <<>>
      BY <1>1 DEF TlmInit
    <3> QED BY <2>3, <3>1 DEF Indexed
  <2>5. Reflects(buckets[0], free[0], since)
    BY <1>1, <2>1 DEF TlmInit, Reflects, Nothing
  <2>6. SentOrToCome
    BY <1>1 DEF TlmInit, SentOrToCome, Sent, ToCome, Nothing
  <2> QED BY <1>1, <2>2, <2>4, <2>5, <2>6 DEF TlmInit, TlmInv
<1>2. ASSUME TlmInv, [TlmNext]_tlmVars PROVE TlmInv'
  <2>1. CASE UNCHANGED tlmVars
    <3>1. /\ UNCHANGED <<m_activeBuffer, slots, buckets, free, entry>>
          /\ UNCHANGED <<sent, writes, since, atSwap>>
      BY <2>1 DEF tlmVars, tables
    <3>2. TlmTypeOK' BY <1>2, <3>1 DEF TlmInv, TlmTypeOK
    <3>3. \A id \in Channels : Sent(id)' = Sent(id) /\ ToCome(id)' = ToCome(id)
      BY <3>1 DEF Sent, ToCome
    <3>4. SentOrToCome' BY <1>2, <3>1, <3>3 DEF TlmInv, SentOrToCome
    <3> QED BY <1>2, <3>1, <3>2, <3>4 DEF TlmInv
  <2> QED BY <1>2, <2>1, TlmRecvKnownKeeps, TlmRecvNewKeeps, RunSwapKeeps, RunEntryKeeps DEF TlmNext
<1> QED BY <1>1, <1>2, PTL DEF TlmSpec

(* The first n buckets hold as many channels.                              *)
LEMMA BucketsAreEnough ==
    ASSUME TlmAssumption, TlmInv PROVE BucketsSuffice
<1> DEFINE a == m_activeBuffer
           n == free[a]
<1>1. n \in 0 .. Buckets /\ Buckets \in Nat /\ Indexed(slots[a], buckets[a], n)
  BY DEF TlmInv, TlmTypeOK, TlmAssumption
<1>2. ASSUME NEW id \in Channels PROVE Cardinality(Found(id)) <= 1
  <2>1. \A b, c \in Found(id) : b = c BY <1>1, FoundAre DEF Indexed
  <2>2. CASE Found(id) = {} BY <2>2, FS_EmptySet
  <2>3. ASSUME NEW b, Found(id) = {b} PROVE Cardinality(Found(id)) = 1
    BY <2>3, FS_Singleton, Zenon
  <2>4. Found(id) = {} \/ \E b : Found(id) = {b} BY <2>1
  <2> QED BY <2>2, <2>3, <2>4
<1>3. ASSUME NEW id \in Channels, Found(id) = {} PROVE n < Buckets
  <2> DEFINE f == [b \in 1 .. n |-> buckets[a][b].id]
             S == Channels \ {id}
  <2>1. \A b \in 1 .. n : buckets[a][b].id # id BY <1>3, FoundAre
  <2>2. f \in [1 .. n -> S] /\ \A b, c \in 1 .. n : f[b] = f[c] => b = c
    BY <1>1, <2>1 DEF Indexed
  <2>3. IsFiniteSet(Channels) /\ Cardinality(Channels) <= Buckets /\ Cardinality(Channels) \in Nat
    BY FS_CardinalityType DEF TlmAssumption
  <2>4. IsFiniteSet(S) /\ Cardinality(S) = Cardinality(Channels) - 1 BY <2>3, FS_RemoveElement
  <2>5. IsFiniteSet(1 .. n) /\ Cardinality(1 .. n) = n BY <1>1, FS_Interval
  <2> HIDE DEF f, S
  <2>6. ASSUME Cardinality(S) < Cardinality(1 .. n) PROVE FALSE
    <3> DEFINE D == 1 .. n
    <3>1. f \in [D -> S] /\ IsFiniteSet(D) /\ IsFiniteSet(S) /\ Cardinality(S) < Cardinality(D)
      BY <2>2, <2>4, <2>5, <2>6
    <3> HIDE DEF D
    <3>2. \E b, c \in D : b # c /\ f[b] = f[c] BY <3>1, FS_PigeonHole
    <3> QED BY <2>2, <3>2 DEF D
  <2> QED BY <1>1, <2>3, <2>4, <2>5, <2>6
<1> QED BY <1>2, <1>3 DEF BucketsSuffice

(* What was updated goes out once, with its newest value at the swap, for  *)
(* any channels, hash function and number of buckets that holds them.      *)
THEOREM SwapIsSent ==
    ASSUME TlmAssumption PROVE TlmSpec => []SendsTheSwap
<1>1. ASSUME TlmInv PROVE SendsTheSwap
  <2>1. ASSUME NEW id \in Channels
        PROVE  Copies(id) = IF atSwap[id] = 0 THEN 0 ELSE 1
    <3>1. \/ atSwap[id] = 0 /\ Sent(id) = {} /\ ToCome(id) = {}
          \/ atSwap[id] # 0 /\ Sent(id) = {} /\ \E b : ToCome(id) = {b}
          \/ atSwap[id] # 0 /\ ToCome(id) = {} /\ \E i : Sent(id) = {i}
      BY <1>1 DEF TlmInv, SentOrToCome
    <3>2. ASSUME NEW S, S = {} PROVE Cardinality(S) = 0 BY <3>2, FS_EmptySet, Zenon
    <3>3. ASSUME NEW S, NEW x, S = {x} PROVE Cardinality(S) = 1 BY <3>3, FS_Singleton, Zenon
    <3>4. \/ atSwap[id] = 0 /\ Cardinality(Sent(id)) = 0 /\ Cardinality(ToCome(id)) = 0
          \/ atSwap[id] # 0 /\ Cardinality(Sent(id)) = 0 /\ Cardinality(ToCome(id)) = 1
          \/ atSwap[id] # 0 /\ Cardinality(Sent(id)) = 1 /\ Cardinality(ToCome(id)) = 0
      BY <3>1, <3>2, <3>3, Zenon
    <3> QED BY <3>4 DEF Copies
  <2> QED BY <1>1, <2>1, BucketsAreEnough DEF TlmInv, SentOrToCome, SendsTheSwap
<1> QED BY <1>1, TlmInvHolds, PTL

-----------------------------------------------------------------------------
(* The rate groups.                                                        *)

(* A tick counter that rolls over at a multiple of d keeps counting by d.  *)
LEMMA NextTick ==
    ASSUME NEW d \in Nat \ {0}, NEW w \in Nat \ {0}, w % d = 0, NEW t \in 0 .. w - 1
    PROVE  ((t + 1) % w) % d = IF (t % d) + 1 = d THEN 0 ELSE (t % d) + 1
<1>1. (t + 1) % d = IF (t % d) + 1 = d THEN 0 ELSE (t % d) + 1 
  <2>1. t \in Nat OBVIOUS
  <2> QED BY <2>1, NextRemainder
<1>2. CASE t + 1 < w
  <2>1. t + 1 = 0 * w + (t + 1) /\ t + 1 \in 0 .. w - 1 BY <1>2
  <2>2. (t + 1) % w = t + 1 BY <2>1, RemainderIs
  <2> QED BY <1>1, <2>2
<1>3. CASE t + 1 = w
  <2>1. w = 1 * w + 0 /\ 0 = 0 * d + 0 /\ 0 \in 0 .. w - 1 /\ 0 \in 0 .. d - 1 OBVIOUS
  <2>2. w % w = 0 /\ 0 % d = 0 BY <2>1, RemainderIs
  <2>3. t % d \in Nat OBVIOUS
  <2> QED BY <1>1, <1>3, <2>2, <2>3
<1> QED BY <1>2, <1>3

LEMMA Reordered == ASSUME NEW q \in Nat, NEW d \in Nat, NEW e \in Nat PROVE (q * d) * e = (q * e) * d
  OBVIOUS

(* Every divider divides the value at which the counter rolls over.        *)
LEMMA RolloverIsMultiple ==
    ASSUME RateGroupsAssumption, NEW g \in Groups, Dividers[g] # 0
    PROVE  Rollover \in Nat \ {0} /\ Rollover % Dividers[g] = 0
<1> DEFINE d == Dividers[g]
           n == Len(Dividers)
<1>1. PICK p \in [0 .. n -> 1 .. Rollover] : RolloverSteps(p) BY DEF RateGroupsAssumption
<1>2. /\ n \in Nat /\ g \in 1 .. n /\ d \in Nat \ {0} /\ Rollover \in Nat /\ Groups = 1 .. n
      /\ \A i \in 1 .. n : Dividers[i] \in Nat
  BY DEF RateGroupsAssumption, Groups
<1>3. /\ p[n] = Rollover /\ \A i \in 0 .. n : p[i] \in Nat \ {0}
      /\ \A i \in 1 .. n : p[i] = IF Dividers[i] = 0 THEN p[i - 1] ELSE p[i - 1] * Dividers[i]
  BY <1>1, <1>2 DEF RolloverSteps
<1> DEFINE Bad == {i \in g .. n : p[i] % d # 0}
<1>4. Bad = {}
  <2> SUFFICES ASSUME Bad # {} PROVE FALSE OBVIOUS
  <2>1. PICK i \in Bad : \A j \in Bad : i <= j
    <3>1. Bad \in SUBSET Nat BY <1>2
    <3> HIDE DEF Bad
    <3> QED BY <3>1, HasLeast
  <2>2. i \in g .. n /\ p[i] % d # 0 /\ i \in 1 .. n /\ i - 1 \in 0 .. n BY <1>2, <2>1
  <2> HIDE DEF d
  <2>3. CASE i = g
    <3>1. p[i] = p[i - 1] * d + 0 BY <1>2, <1>3, <2>2, <2>3 DEF d
    <3>2. p[i - 1] \in Int /\ 0 \in 0 .. d - 1 BY <1>2, <1>3, <2>2
    <3>3. p[i] % d = 0 BY <1>2, <3>1, <3>2, RemainderIs
    <3> QED BY <2>2, <3>3
  <2>4. CASE i # g
    <3>1. i - 1 \in g .. n /\ p[i - 1] \in Nat BY <1>2, <1>3, <2>2, <2>4
    <3>2. p[i - 1] % d = 0 BY <2>1, <3>1
    <3> DEFINE m == p[i - 1]
               r == m % d
    <3>3. m \in Nat /\ r = 0 BY <3>1, <3>2
    <3> HIDE DEF m
    <3>4. PICK q \in Nat : m = q * d
      <4>1. PICK q \in Nat : m = q * d + r BY <1>2, <3>3, Decomposed
      <4> HIDE DEF r
      <4>2. m = q * d BY <1>2, <3>3, <4>1
      <4> QED BY <4>2
    <3>5. CASE Dividers[i] = 0
      <4>1. p[i] = p[i - 1] BY <1>3, <2>2, <3>5
      <4> QED BY <2>2, <3>2, <4>1
    <3>6. CASE Dividers[i] # 0
      <4>1. PICK e \in Nat : e = Dividers[i] /\ p[i] = m * e BY <1>2, <1>3, <2>2, <3>6 DEF m
      <4>2. m * e = (q * e) * d BY <1>2, <3>4, Reordered
      <4>3. q * e \in Int /\ 0 \in 0 .. d - 1 BY <1>2
      <4>4. ((q * e) * d + 0) % d = 0 BY <1>2, <4>3, RemainderIs
      <4>5. (q * e) * d + 0 = p[i] BY <1>2, <4>1, <4>2
      <4> QED BY <2>2, <4>4, <4>5
    <3> QED BY <3>5, <3>6
  <2> QED BY <2>3, <2>4
<1>5. n \in g .. n /\ p[n] \in Nat \ {0} BY <1>2, <1>3
<1> QED BY <1>3, <1>4, <1>5

(* How far the tick counter is from the last call of a group.              *)
OnTime == \A g \in Groups :
    /\ Dividers[g] = 0 => age[g] = 0
    /\ Dividers[g] # 0 =>
          /\ age[g] \in 1 .. Dividers[g]
          /\ m_ticks % Dividers[g] = IF age[g] = Dividers[g] THEN 0 ELSE age[g]

(* The flag that a thread will check was set by a tick that is on record.  *)
Flagged == \A g \in Groups :
    /\ at[g] \in 1 .. Check /\ m_cycleStarted[g] => early[g]
    /\ overrun[g] => reported[g] \/ (at[g] \in 1 .. Check /\ m_cycleStarted[g])

RateInv == RateTypeOK /\ OnTime /\ EvenlySpaced /\ Flagged /\ SlipsAreReal

LEMMA RateFacts ==
    ASSUME RateGroupsAssumption
    PROVE  /\ Groups \subseteq Nat /\ \A g \in Groups : Dividers[g] \in Nat
           /\ Dividers \in [Groups -> Nat] /\ Rollover \in Nat \ {0}
           /\ NumContexts \in Nat \ {0} /\ QueueDepth \in Nat \ {0} /\ Throttle \in Nat \ {0}
<1>1. PICK p \in [0 .. Len(Dividers) -> 1 .. Rollover] : RolloverSteps(p)
  BY DEF RateGroupsAssumption
<1>2. Len(Dividers) \in Nat /\ Rollover \in Nat BY DEF RateGroupsAssumption
<1>3. 0 \in 0 .. Len(Dividers) BY <1>2
<1>4. p[0] \in 1 .. Rollover BY <1>1, <1>3
<1>5. Rollover # 0 BY <1>2, <1>4
<1> QED BY <1>2, <1>5 DEF RateGroupsAssumption, Groups

LEMMA FirstIsToDo ==
    ASSUME RateGroupsAssumption, RateTypeOK, todo # {} PROVE First \in todo /\ First \in Groups
<1>1. todo \in SUBSET Nat /\ todo \subseteq Groups BY RateFacts DEF RateTypeOK
<1>2. \E g \in todo : \A h \in todo : g <= h BY <1>1, HasLeast
<1>3. First \in todo BY <1>2, Zenon DEF First
<1> QED BY <1>1, <1>3

LEMMA RateInitHolds ==
    ASSUME RateGroupsAssumption, RateInit PROVE RateInv
<1>1. RateTypeOK
  <2>1. /\ todo = {} /\ hooked = FALSE /\ age \in [Groups -> Nat] /\ groupHalted \in BOOLEAN
        /\ m_ticks = 0
    BY RateFacts DEF RateInit
  <2>5. m_ticks \in 0 .. Rollover - 1 BY <2>1, RateFacts
  <2>2. /\ cycles \in [Groups -> Seq({"cycle", "ping"})]
        /\ \A g \in Groups : Len(cycles[g]) <= QueueDepth
    BY RateFacts DEF RateInit
  <2>3. at \in [Groups -> Waits .. Taken] /\ throttle \in [Groups -> 0 .. Throttle]
    BY RateFacts DEF RateInit, Waits, Taken
  <2>4. {m_cycleStarted, early, overrun, reported} \subseteq [Groups -> BOOLEAN]
    BY DEF RateInit
  <2> QED BY <2>1, <2>2, <2>3, <2>4, <2>5 DEF RateTypeOK
<1>2. OnTime
  <2>1. ASSUME NEW g \in Groups, Dividers[g] # 0
        PROVE  age[g] = Dividers[g] /\ age[g] \in 1 .. Dividers[g] /\ 0 % Dividers[g] = 0
    <3>1. Dividers[g] \in Nat \ {0} /\ age[g] = Dividers[g] BY <2>1, RateFacts DEF RateInit
    <3>2. 0 = 0 * Dividers[g] + 0 /\ 0 \in 0 .. Dividers[g] - 1 BY <3>1
    <3>3. 0 % Dividers[g] = 0 BY <3>1, <3>2, RemainderIs
    <3> QED BY <3>1, <3>3
  <2> QED BY <2>1 DEF RateInit, OnTime
<1>3. EvenlySpaced BY RateFacts DEF RateInit, EvenlySpaced
<1>4. Flagged /\ SlipsAreReal BY DEF RateInit, Flagged, SlipsAreReal
<1> QED BY <1>1, <1>2, <1>3, <1>4 DEF RateInv

(* A tick of the driver.                                                   *)
LEMMA CycleInKeeps ==
    ASSUME RateGroupsAssumption, RateInv, CycleIn PROVE RateInv'
<1>1. /\ m_ticks \in 0 .. Rollover - 1 /\ todo = {} /\ m_ticks' = (m_ticks + 1) % Rollover
      /\ Rollover \in Nat \ {0} /\ age \in [Groups -> Nat]
      /\ hooked' = hooked /\ hooked = FALSE
  BY RateFacts DEF RateInv, RateTypeOK, CycleIn
<1>2. ASSUME NEW g \in Groups
      PROVE  /\ Dividers[g] = 0 => age'[g] = 0 /\ g \notin todo'
             /\ Dividers[g] # 0 =>
                   /\ age'[g] \in 1 .. Dividers[g]
                   /\ m_ticks' % Dividers[g] = IF age'[g] = Dividers[g] THEN 0 ELSE age'[g]
                   /\ g \in todo' => age[g] = Dividers[g]
             /\ age'[g] \in Nat
  <2> DEFINE d == Dividers[g]
             a == age[g]
             b == age'[g]
             t == m_ticks
             r == m_ticks % d
  <2>1. /\ d \in Nat /\ a \in Nat /\ (d = 0 => a = 0)
        /\ d # 0 => a \in 1 .. d /\ r = IF a = d THEN 0 ELSE a
    BY <1>1, RateFacts DEF RateInv, OnTime
  <2>2. g \in todo' <=> d # 0 /\ r = 0 BY DEF CycleIn, Due
  <2>3. b = IF d # 0 /\ r = 0 THEN 1 ELSE IF d = 0 THEN 0 ELSE a + 1 BY DEF CycleIn, Due
  <2>4. CASE d = 0 BY <2>1, <2>2, <2>3, <2>4
  <2>5. CASE d # 0
    <3>1. d \in Nat \ {0} /\ Rollover % d = 0 BY <2>1, <2>5, RolloverIsMultiple
    <3>2. m_ticks' % d = IF r + 1 = d THEN 0 ELSE r + 1
      <4> DEFINE w == Rollover
                 n == (m_ticks + 1) % w
      <4>1. w \in Nat \ {0} /\ w % d = 0 /\ m_ticks \in 0 .. w - 1 /\ m_ticks' = n BY <1>1, <3>1
      <4> HIDE DEF d, w
      <4>2. n % d = IF (m_ticks % d) + 1 = d THEN 0 ELSE (m_ticks % d) + 1
        BY <3>1, <4>1, NextTick
      <4> HIDE DEF n
      <4> QED BY <4>1, <4>2
    <3> DEFINE s == m_ticks' % d
    <3> HIDE DEF d, a, b, r, s
    <3>3. s = IF r + 1 = d THEN 0 ELSE r + 1 BY <3>2 DEF s
    <3>4. b \in 1 .. d /\ s = (IF b = d THEN 0 ELSE b) /\ (g \in todo' => a = d) /\ b \in Nat
      BY <2>1, <2>2, <2>3, <3>1, <3>3
    <3> QED BY <2>5, <3>4 DEF d, a, b, s
  <2> QED BY <2>4, <2>5
<1>3. todo' \subseteq Groups /\ age' \in [Groups -> Nat] /\ m_ticks' \in 0 .. Rollover - 1
  <2>1. m_ticks' \in 0 .. Rollover - 1 BY <1>1
  <2>2. DOMAIN age' = Groups /\ todo' \subseteq Groups BY DEF CycleIn
  <2>3. age' = [g \in Groups |-> age'[g]] BY DEF CycleIn
  <2> QED BY <1>2, <2>1, <2>2, <2>3
<1>4. /\ UNCHANGED <<cycles, at, throttle, reported, m_cycleStarted, groupHalted, early, overrun>>
      /\ gaps' = gaps \cup {<<g, age[g]>> : g \in todo'}
  BY DEF CycleIn, groupVars, arrivalVars
<1>5. RateTypeOK' BY <1>1, <1>3, <1>4 DEF RateInv, RateTypeOK
<1>6. OnTime' BY <1>2 DEF OnTime
<1>7. EvenlySpaced'
  <2>1. \A g \in Groups : age'[g] <= Dividers[g]
    <3> SUFFICES ASSUME NEW g \in Groups PROVE age'[g] <= Dividers[g] OBVIOUS
    <3>1. Dividers[g] \in Nat BY RateFacts
    <3> QED BY <1>2, <3>1
  <2>2. \A g \in todo' : <<g, age[g]>> = <<g, Dividers[g]>> BY <1>2, <1>3
  <2>3. gaps' \subseteq {<<g, Dividers[g]>> : g \in Groups}
    BY <1>3, <1>4, <2>2 DEF RateInv, EvenlySpaced
  <2> QED BY <2>1, <2>3 DEF EvenlySpaced
<1>8. Flagged' /\ SlipsAreReal' BY <1>4 DEF RateInv, Flagged, SlipsAreReal
<1> QED BY <1>5, <1>6, <1>7, <1>8 DEF RateInv

(* The rest leaves the ticks alone.                                        *)
LEMMA TicksKept ==
    ASSUME RateInv, UNCHANGED <<m_ticks, age, gaps>> PROVE OnTime' /\ EvenlySpaced'
  BY DEF RateInv, OnTime, EvenlySpaced

LEMMA PreMsgHookKeeps ==
    ASSUME RateGroupsAssumption, RateInv, PreMsgHook PROVE RateInv'
<1> DEFINE g == First
<1>1. g \in Groups /\ g \in todo BY FirstIsToDo DEF RateInv, PreMsgHook
<1>2. /\ m_cycleStarted' = [m_cycleStarted EXCEPT ![g] = TRUE] /\ hooked' = TRUE
      /\ UNCHANGED <<m_ticks, todo, age, gaps, cycles, at, throttle, groupHalted>>
  BY DEF PreMsgHook, SetFlag
<1>3. Arrival(g) BY DEF PreMsgHook
<1>4. /\ m_cycleStarted \in [Groups -> BOOLEAN] /\ early \in [Groups -> BOOLEAN]
      /\ overrun \in [Groups -> BOOLEAN] /\ reported \in [Groups -> BOOLEAN]
      /\ at \in [Groups -> Waits .. Taken]
  BY DEF RateInv, RateTypeOK
<1> HIDE DEF g
<1>5. /\ early' \in [Groups -> BOOLEAN] /\ overrun' \in [Groups -> BOOLEAN]
      /\ reported' \in [Groups -> BOOLEAN] /\ m_cycleStarted' \in [Groups -> BOOLEAN]
      /\ m_cycleStarted'[g]
      /\ \A h \in Groups \ {g} : /\ early'[h] = early[h] /\ overrun'[h] = overrun[h]
                                 /\ reported'[h] = reported[h]
                                 /\ m_cycleStarted'[h] = m_cycleStarted[h]
  BY <1>1, <1>2, <1>3, <1>4 DEF Arrival
<1>6. RateTypeOK'
  <2>1. todo # {} BY <1>1
  <2> QED BY <1>2, <1>5, <2>1 DEF RateInv, RateTypeOK
<1>7. \/ /\ early'[g] /\ reported'[g] = reported[g]
         /\ overrun'[g] => overrun[g] \/ at[g] \in 1 .. Check
      \/ at[g] = Waits /\ ~early'[g] /\ ~overrun'[g] /\ ~reported'[g]
  BY <1>1, <1>3, <1>4 DEF Arrival, Outstanding
<1>8. Flagged' /\ SlipsAreReal'
  <2>1. Flagged /\ SlipsAreReal BY DEF RateInv
  <2>2. Waits \notin 1 .. Check BY DEF Waits
  <2>3. ASSUME NEW h \in Groups \ {g}
        PROVE  /\ at[h] \in 1 .. Check /\ m_cycleStarted'[h] => early'[h]
               /\ overrun'[h] => reported'[h] \/ (at[h] \in 1 .. Check /\ m_cycleStarted'[h])
               /\ reported'[h] => early'[h]
    BY <1>5, <2>1 DEF Flagged, SlipsAreReal
  <2>4. /\ at[g] \in 1 .. Check /\ m_cycleStarted'[g] => early'[g]
        /\ overrun'[g] => reported'[g] \/ (at[g] \in 1 .. Check /\ m_cycleStarted'[g])
        /\ reported'[g] => early'[g]
    BY <1>1, <1>5, <1>7, <2>1, <2>2 DEF Flagged, SlipsAreReal
  <2> QED BY <1>2, <2>3, <2>4 DEF Flagged, SlipsAreReal
<1> QED BY <1>2, <1>6, <1>8, TicksKept DEF RateInv

LEMMA PutType ==
    ASSUME RateGroupsAssumption, RateTypeOK, NEW g \in Groups, NEW m \in {"cycle", "ping"}, Put(g, m)
    PROVE  /\ cycles' \in [Groups -> Seq({"cycle", "ping"})]
           /\ \A h \in Groups : Len(cycles'[h]) <= QueueDepth
<1> DEFINE M == {"cycle", "ping"}
           q == cycles[g]
<1>1. cycles \in [Groups -> Seq(M)] /\ \A h \in Groups : Len(cycles[h]) <= QueueDepth
  BY DEF RateTypeOK
<1>2. q \in Seq(M) /\ QueueDepth \in Nat BY <1>1, RateFacts
<1>3. CASE Len(q) < QueueDepth
  <2>1. cycles' = [cycles EXCEPT ![g] = Append(q, m)] BY <1>3 DEF Put
  <2> HIDE DEF q
  <2>2. Append(q, m) \in Seq(M) /\ Len(Append(q, m)) <= QueueDepth BY <1>2, <1>3
  <2> HIDE DEF M
  <2> QED BY <1>1, <2>1, <2>2 DEF M
<1>4. CASE ~(Len(q) < QueueDepth) BY <1>1, <1>4 DEF Put
<1> QED BY <1>3, <1>4

LEMMA SendCycleKeeps ==
    ASSUME RateGroupsAssumption, RateInv, SendCycle PROVE RateInv'
<1>1. First \in Groups BY FirstIsToDo DEF RateInv, RateTypeOK, SendCycle
<1>2. /\ Put(First, "cycle") /\ hooked' = FALSE /\ todo' \subseteq todo
      /\ UNCHANGED <<m_ticks, age, gaps, m_cycleStarted, at, throttle, reported, early, overrun,
                     groupHalted>>
  BY DEF SendCycle, groupVars, arrivalVars
<1>3. RateTypeOK' BY <1>1, <1>2, PutType DEF RateInv, RateTypeOK
<1>4. Flagged' /\ SlipsAreReal' BY <1>2 DEF RateInv, Flagged, SlipsAreReal
<1> QED BY <1>2, <1>3, <1>4, TicksKept DEF RateInv

LEMMA PingInKeeps ==
    ASSUME RateGroupsAssumption, RateInv, NEW g \in Groups, PingIn(g) PROVE RateInv'
<1>1. /\ Put(g, "ping") /\ groupHalted' \in BOOLEAN
      /\ UNCHANGED <<m_ticks, todo, hooked, age, gaps, m_cycleStarted, at, throttle, reported,
                     early, overrun>>
  BY DEF PingIn, driverVars, groupVars, arrivalVars
<1>2. RateTypeOK' BY <1>1, PutType DEF RateInv, RateTypeOK
<1>3. Flagged' /\ SlipsAreReal' BY <1>1 DEF RateInv, Flagged, SlipsAreReal
<1> QED BY <1>1, <1>2, <1>3, TicksKept DEF RateInv

(* The steps of a group's thread.                                          *)
LEMMA GroupKeeps ==
    ASSUME RateGroupsAssumption, RateInv, NEW g \in Groups, Group(g) PROVE RateInv'
<1>1. /\ NumContexts \in Nat \ {0} /\ QueueDepth \in Nat /\ Throttle \in Nat \ {0}
      /\ at \in [Groups -> Waits .. Taken] /\ throttle \in [Groups -> 0 .. Throttle]
      /\ m_cycleStarted \in [Groups -> BOOLEAN] /\ reported \in [Groups -> BOOLEAN]
      /\ cycles \in [Groups -> Seq({"cycle", "ping"})]
      /\ \A h \in Groups : Len(cycles[h]) <= QueueDepth
      /\ Flagged /\ SlipsAreReal
  BY RateFacts DEF RateInv, RateTypeOK
<1>2. UNCHANGED <<m_ticks, todo, hooked, age, gaps, early, overrun, groupHalted>>
  BY DEF Group, Dispatch, Begin, CallMember, CheckSlip, driverVars, arrivalVars
<1>3. CASE Dispatch(g)
  <2> DEFINE q == cycles[g]
  <2>1. /\ cycles' = [cycles EXCEPT ![g] = Tail(q)] /\ q # <<>> /\ at[g] = Waits
        /\ at' = [at EXCEPT ![g] = Taken] \/ at' = at
        /\ UNCHANGED <<throttle, reported, m_cycleStarted>>
    BY <1>3 DEF Dispatch
  <2>2. q \in Seq({"cycle", "ping"}) /\ Len(q) <= QueueDepth BY <1>1
  <2> HIDE DEF q
  <2>3. Tail(q) \in Seq({"cycle", "ping"}) /\ Len(Tail(q)) <= QueueDepth BY <1>1, <2>1, <2>2
  <2>4. /\ cycles' \in [Groups -> Seq({"cycle", "ping"})]
        /\ \A h \in Groups : Len(cycles'[h]) <= QueueDepth
    BY <1>1, <2>1, <2>3
  <2>5. /\ at' \in [Groups -> Waits .. Taken] /\ \A h \in Groups \ {g} : at'[h] = at[h]
        /\ at[g] \notin 1 .. Check /\ at'[g] \notin 1 .. Check
    BY <1>1, <2>1 DEF Waits, Taken, Check
  <2>6. RateTypeOK' BY <1>2, <2>1, <2>4, <2>5 DEF RateInv, RateTypeOK
  <2>7. Flagged' /\ SlipsAreReal' BY <1>1, <1>2, <2>1, <2>5 DEF Flagged, SlipsAreReal
  <2> QED BY <1>2, <2>6, <2>7, TicksKept DEF RateInv
<1>4. CASE Begin(g)
  <2>1. /\ at[g] = Taken /\ at' = [at EXCEPT ![g] = 1]
        /\ m_cycleStarted' = [m_cycleStarted EXCEPT ![g] = FALSE]
        /\ UNCHANGED <<cycles, throttle, reported>>
    BY <1>4 DEF Begin
  <2>2. /\ at' \in [Groups -> Waits .. Taken] /\ m_cycleStarted' \in [Groups -> BOOLEAN]
        /\ ~m_cycleStarted'[g] /\ at[g] \notin 1 .. Check
        /\ \A h \in Groups \ {g} : at'[h] = at[h] /\ m_cycleStarted'[h] = m_cycleStarted[h]
    BY <1>1, <2>1 DEF Waits, Taken, Check
  <2>3. RateTypeOK' BY <1>2, <2>1, <2>2 DEF RateInv, RateTypeOK
  <2>4. Flagged' /\ SlipsAreReal' BY <1>1, <1>2, <2>1, <2>2 DEF Flagged, SlipsAreReal
  <2> QED BY <1>2, <2>3, <2>4, TicksKept DEF RateInv
<1>5. CASE CallMember(g)
  <2>1. /\ at[g] \in 1 .. NumContexts /\ at' = [at EXCEPT ![g] = at[g] + 1]
        /\ UNCHANGED <<cycles, throttle, reported, m_cycleStarted>>
    BY <1>5 DEF CallMember
  <2>2. /\ at' \in [Groups -> Waits .. Taken] /\ at[g] \in 1 .. Check /\ at'[g] \in 1 .. Check
        /\ \A h \in Groups \ {g} : at'[h] = at[h]
    BY <1>1, <2>1 DEF Waits, Taken, Check
  <2>3. RateTypeOK' BY <1>2, <2>1, <2>2 DEF RateInv, RateTypeOK
  <2>4. Flagged' /\ SlipsAreReal' BY <1>1, <1>2, <2>1, <2>2 DEF Flagged, SlipsAreReal
  <2> QED BY <1>2, <2>3, <2>4, TicksKept DEF RateInv
<1>6. CASE CheckSlip(g)
  <2> DEFINE n == IF m_cycleStarted[g]
                  THEN IF throttle[g] < Throttle THEN throttle[g] + 1 ELSE throttle[g]
                  ELSE IF throttle[g] > 0 THEN throttle[g] - 1 ELSE 0
  <2>1. /\ at[g] = Check /\ at' = [at EXCEPT ![g] = Waits] /\ throttle' = [throttle EXCEPT ![g] = n]
        /\ UNCHANGED <<cycles, m_cycleStarted>>
    BY <1>1, <1>6 DEF CheckSlip
  <2>2. n \in 0 .. Throttle BY <1>1
  <2> HIDE DEF n
  <2>3. /\ at' \in [Groups -> Waits .. Taken] /\ throttle' \in [Groups -> 0 .. Throttle]
        /\ at[g] \in 1 .. Check /\ at'[g] \notin 1 .. Check
        /\ \A h \in Groups \ {g} : at'[h] = at[h]
    BY <1>1, <2>1, <2>2 DEF Waits, Taken, Check
  <2>4. /\ reported' \in [Groups -> BOOLEAN] /\ \A h \in Groups \ {g} : reported'[h] = reported[h]
        /\ m_cycleStarted[g] => reported'[g]
        /\ ~m_cycleStarted[g] => reported'[g] = reported[g]
    BY <1>1, <1>6 DEF CheckSlip
  <2>5. RateTypeOK' BY <1>2, <2>1, <2>3, <2>4 DEF RateInv, RateTypeOK
  <2>6. Flagged' /\ SlipsAreReal'
    BY <1>1, <1>2, <2>1, <2>3, <2>4 DEF Flagged, SlipsAreReal
  <2> QED BY <1>2, <2>5, <2>6, TicksKept DEF RateInv
<1> QED BY <1>3, <1>4, <1>5, <1>6 DEF Group

(* Every group comes on time and its slips are reported, and no others, for *)
(* any dividers, members and queue depth and however long a member takes.  *)
THEOREM CyclesOnTime ==
    ASSUME RateGroupsAssumption PROVE RateSpec => []TicksAreCycles
<1>1. RateInit => RateInv BY RateInitHolds
<1>2. RateInv /\ [RateNext]_rateVars => RateInv'
  <2> SUFFICES ASSUME RateInv, [RateNext]_rateVars PROVE RateInv' OBVIOUS
  <2>1. CASE UNCHANGED rateVars
    <3>1. /\ UNCHANGED <<m_ticks, todo, hooked, age, gaps, cycles, at, throttle, reported>>
          /\ UNCHANGED <<m_cycleStarted, groupHalted, early, overrun>>
      BY <2>1 DEF rateVars, driverVars, groupVars, arrivalVars
    <3>2. RateTypeOK' BY <3>1 DEF RateInv, RateTypeOK
    <3>3. Flagged' /\ SlipsAreReal' BY <3>1 DEF RateInv, Flagged, SlipsAreReal
    <3> QED BY <3>1, <3>2, <3>3, TicksKept DEF RateInv
  <2> QED BY <2>1, CycleInKeeps, PreMsgHookKeeps, SendCycleKeeps, PingInKeeps, GroupKeeps
          DEF RateNext, Driver
<1>3. RateInv => TicksAreCycles
  <2> SUFFICES ASSUME RateInv PROVE OverrunsAreReported
    BY DEF RateInv, TicksAreCycles, SlipsAreReported
  <2>1. Waits \notin 1 .. Check BY DEF Waits
  <2> QED BY <2>1 DEF RateInv, Flagged, OverrunsAreReported, Outstanding
<1> QED BY <1>1, <1>2, <1>3, PTL DEF RateSpec

-----------------------------------------------------------------------------
(* The packetizer.                                                         *)

(* What a packet on the fill side holds.                                   *)
Buffer(p)    == m_fillBuffers[p].buffer
Updated(p)   == m_fillBuffers[p].updated
Requested(p) == m_fillBuffers[p].requested

Fills == [buffer : PacketContents, updated : BOOLEAN, requested : BOOLEAN]

(* A packet without the flag has been sent as it is.                       *)
SentAsItIs == \A p \in Numbers : ~Updated(p) => last[p] = Buffer(p)

(* Values grow from what was sent through what is filled in to the newest. *)
Growing == \A p \in Numbers, id \in ChannelIds :
    last[p][id] <= Buffer(p)[id] /\ Buffer(p)[id] <= value[id]

(* A call has filled the packets of its channel but those still to fill,   *)
(* and the calls before it all of them.                                    *)
Filled == \A id \in ChannelIds :
    /\ toFill[id] \subseteq PacketsOf(id) /\ returned[id] <= value[id]
    /\ \A p \in PacketsOf(id) : /\ returned[id] <= Buffer(p)[id]
                                /\ p \notin toFill[id] => Buffer(p)[id] = value[id]

(* Why the flags of a packet are set.                                      *)
FlagsAreDue ==
    /\ \A p \in asked : Updated(p) /\ Requested(p)
    /\ updateMode = "ON_CHANGE" => \A p \in Numbers : Updated(p) => p \in fresh \cup asked

PacketInv == PacketTypeOK /\ SentAsItIs /\ Growing /\ Filled /\ FlagsAreDue

LEMMA PacketFacts ==
    ASSUME PacketizerAssumption
    PROVE  /\ MaxReceives \in Nat /\ Numbers \subseteq Nat
           /\ \A p \in Numbers : Packets[p].level \in Nat /\ Packets[p].list \subseteq ChannelIds
           /\ \A id \in ChannelIds : PacketsOf(id) \subseteq Numbers
<1> DEFINE Packet == [id : Nat, level : Nat, list : SUBSET ChannelIds]
<1>1. Packets \in Seq(Packet) /\ MaxReceives \in Nat BY DEF PacketizerAssumption
<1> HIDE DEF Packet
<1>2. Numbers \subseteq Nat /\ \A p \in Numbers : Packets[p] \in Packet BY <1>1 DEF Numbers
<1>3. \A r \in Packet : r.level \in Nat /\ r.list \subseteq ChannelIds BY DEF Packet
<1> QED BY <1>1, <1>2, <1>3 DEF PacketsOf

LEMMA PacketTypes ==
    ASSUME PacketizerAssumption, PacketTypeOK
    PROVE  /\ \A p \in Numbers : /\ m_fillBuffers[p] \in Fills /\ Buffer(p) \in PacketContents
                                 /\ Updated(p) \in BOOLEAN /\ Requested(p) \in BOOLEAN
                                 /\ \A id \in ChannelIds : Buffer(p)[id] \in Nat /\ last[p][id] \in Nat
           /\ \A id \in ChannelIds : /\ value[id] \in Nat /\ returned[id] \in Nat
                                     /\ toFill[id] \subseteq Numbers
<1>1. ASSUME NEW c \in PacketContents, NEW id \in ChannelIds PROVE c[id] \in Nat
  <2>1. c[id] \in 0 .. MaxReceives BY DEF PacketContents
  <2> QED BY <2>1, PacketFacts
<1>2. \A p \in Numbers : m_fillBuffers[p] \in Fills /\ last[p] \in PacketContents
  BY DEF PacketTypeOK, Fills
<1>3. \A p \in Numbers : /\ Buffer(p) \in PacketContents
                         /\ Updated(p) \in BOOLEAN /\ Requested(p) \in BOOLEAN
  BY <1>2 DEF Fills, Buffer, Updated, Requested
<1>4. /\ value \in PacketContents /\ returned \in PacketContents
      /\ \A id \in ChannelIds : toFill[id] \subseteq Numbers
  BY DEF PacketTypeOK
<1> QED BY <1>1, <1>2, <1>3, <1>4

LEMMA PacketInitHolds == ASSUME PacketizerAssumption, PacketInit PROVE PacketInv
<1>1. Cleared \in PacketContents /\ \A id \in ChannelIds : Cleared[id] = 0
  BY PacketFacts DEF Cleared, PacketContents
<1>2. \A p \in Numbers : Buffer(p) = Cleared /\ ~Updated(p) /\ last[p] = Cleared
  BY DEF PacketInit, Buffer, Updated
<1>3. PacketTypeOK BY <1>1 DEF PacketInit, PacketTypeOK
<1>4. SentAsItIs /\ FlagsAreDue BY <1>2 DEF SentAsItIs, FlagsAreDue, PacketInit
<1>5. /\ value = Cleared /\ returned = Cleared
      /\ \A id \in ChannelIds : toFill[id] = {} /\ PacketsOf(id) \subseteq Numbers
  BY PacketFacts DEF PacketInit
<1>6. Growing
  <2> SUFFICES ASSUME NEW p \in Numbers, NEW id \in ChannelIds
               PROVE  last[p][id] <= Buffer(p)[id] /\ Buffer(p)[id] <= value[id]
    BY DEF Growing
  <2>1. last[p][id] = 0 /\ Buffer(p)[id] = 0 /\ value[id] = 0 BY <1>1, <1>2, <1>5
  <2> QED BY <2>1
<1>7. Filled
  <2> SUFFICES ASSUME NEW id \in ChannelIds
               PROVE  /\ toFill[id] \subseteq PacketsOf(id) /\ returned[id] <= value[id]
                      /\ \A p \in PacketsOf(id) : /\ returned[id] <= Buffer(p)[id]
                                                  /\ p \notin toFill[id] => Buffer(p)[id] = value[id]
    BY DEF Filled
  <2>1. returned[id] = 0 /\ value[id] = 0 /\ \A p \in PacketsOf(id) : Buffer(p)[id] = 0
    BY <1>1, <1>2, <1>5
  <2> QED BY <1>5, <2>1
<1> QED BY <1>3, <1>4, <1>6, <1>7 DEF PacketInv

LEMMA RecvBeginKeeps ==
    ASSUME PacketizerAssumption, PacketInv, NEW id \in ChannelIds, TlmRecvBegin(id)
    PROVE  PacketInv'
<1>1. /\ toFill[id] = {} /\ toFill' = [toFill EXCEPT ![id] = PacketsOf(id)]
      /\ value' = [value EXCEPT ![id] = value[id] + 1] /\ value[id] < MaxReceives
      /\ UNCHANGED <<updateMode, m_fillBuffers, m_startLevel, returned, last, inRun, fresh, asked>>
  BY DEF TlmRecvBegin
<1>2. PacketTypeOK /\ Growing /\ Filled BY DEF PacketInv
<1>3. PacketTypeOK'
  <2>1. value' \in PacketContents
    BY <1>1, <1>2, PacketFacts DEF PacketTypeOK, PacketContents
  <2>2. toFill' \in [ChannelIds -> SUBSET Numbers]
    BY <1>1, <1>2, PacketFacts DEF PacketTypeOK
  <2> QED BY <1>1, <1>2, <2>1, <2>2 DEF PacketTypeOK
<1>4. \A p \in Numbers : Buffer(p)' = Buffer(p) /\ Updated(p)' = Updated(p) /\ Requested(p)' = Requested(p)
  BY <1>1 DEF Buffer, Updated, Requested
<1>5. \A i \in ChannelIds : /\ value[i] <= value'[i] /\ value'[i] \in Nat /\ (i # id => value'[i] = value[i])
                            /\ (i # id => toFill'[i] = toFill[i])
                            /\ toFill'[id] = PacketsOf(id)
  BY <1>1, <1>2, PacketTypes DEF PacketTypeOK, PacketContents
<1>6. SentAsItIs' /\ FlagsAreDue'
  BY <1>1, <1>4, PacketFacts DEF PacketInv, PacketTypeOK, SentAsItIs, FlagsAreDue
<1>7. Growing'
  <2> SUFFICES ASSUME NEW p \in Numbers, NEW i \in ChannelIds
               PROVE  last[p][i] <= Buffer(p)[i] /\ Buffer(p)[i] <= value'[i]
    BY <1>1, <1>4 DEF Growing
  <2>1. last[p][i] <= Buffer(p)[i] /\ Buffer(p)[i] <= value[i] /\ value[i] <= value'[i]
        /\ value'[i] \in Nat
    BY <1>2, <1>5 DEF Growing
  <2>2. Buffer(p)[i] \in Nat /\ last[p][i] \in Nat /\ value[i] \in Nat
    BY <1>2, PacketTypes
  <2> QED BY <2>1, <2>2
<1>8. Filled'
  <2> SUFFICES ASSUME NEW i \in ChannelIds
               PROVE  /\ toFill'[i] \subseteq PacketsOf(i) /\ returned[i] <= value'[i]
                      /\ \A p \in PacketsOf(i) : /\ returned[i] <= Buffer(p)[i]
                                                 /\ p \notin toFill'[i] => Buffer(p)[i] = value'[i]
    BY <1>1, <1>4, PacketFacts DEF Filled, PacketsOf
  <2>1. returned[i] <= value[i] /\ value[i] <= value'[i] /\ value'[i] \in Nat BY <1>2, <1>5 DEF Filled
  <2>2. returned[i] \in Nat /\ value[i] \in Nat
    BY <1>2, PacketTypes
  <2> QED BY <1>2, <1>5, <2>1, <2>2 DEF Filled
<1> QED BY <1>3, <1>6, <1>7, <1>8 DEF PacketInv

LEMMA RecvCopyKeeps ==
    ASSUME PacketizerAssumption, PacketInv, NEW id \in ChannelIds, NEW p \in Numbers, TlmRecvCopy(id, p)
    PROVE  PacketInv'
<1>1. /\ p \in toFill[id] /\ fresh' = fresh \cup {p}
      /\ toFill' = [toFill EXCEPT ![id] = toFill[id] \ {p}]
      /\ returned' = IF toFill'[id] = {} THEN [returned EXCEPT ![id] = value[id]] ELSE returned
      /\ UNCHANGED <<updateMode, m_startLevel, value, last, inRun, asked>>
  BY DEF TlmRecvCopy
<1>2. PacketTypeOK /\ Growing /\ Filled /\ SentAsItIs /\ FlagsAreDue BY DEF PacketInv
<1>3. /\ m_fillBuffers \in [Numbers -> Fills] /\ Buffer(p) \in PacketContents /\ value[id] \in 0 .. MaxReceives
      /\ Requested(p) \in BOOLEAN
  BY <1>2, PacketTypes DEF PacketTypeOK, Fills, PacketContents
<1>4. m_fillBuffers' = [m_fillBuffers EXCEPT ![p].updated = TRUE, ![p].buffer[id] = value[id]]
  BY DEF TlmRecvCopy
<1>5. /\ m_fillBuffers' \in [Numbers -> Fills]
      /\ m_fillBuffers'[p].buffer = [m_fillBuffers[p].buffer EXCEPT ![id] = value[id]]
      /\ m_fillBuffers'[p].updated = TRUE /\ m_fillBuffers'[p].requested = m_fillBuffers[p].requested
      /\ \A q \in Numbers \ {p} : m_fillBuffers'[q] = m_fillBuffers[q]
  BY <1>3, <1>4 DEF Fills, PacketContents
<1>6. /\ Buffer(p)' = [Buffer(p) EXCEPT ![id] = value[id]]
      /\ Updated(p)' = TRUE /\ Requested(p)' = Requested(p)
      /\ \A q \in Numbers \ {p} :
            Buffer(q)' = Buffer(q) /\ Updated(q)' = Updated(q) /\ Requested(q)' = Requested(q)
  BY <1>5 DEF Buffer, Updated, Requested
<1>7. Buffer(p)'[id] = value[id] /\ \A i \in ChannelIds \ {id} : Buffer(p)'[i] = Buffer(p)[i]
  BY <1>3, <1>6 DEF PacketContents
<1>8. PacketTypeOK'
  <2>1. returned' \in PacketContents /\ toFill' \in [ChannelIds -> SUBSET Numbers]
    BY <1>1, <1>2, <1>3 DEF PacketTypeOK, PacketContents
  <2> QED BY <1>1, <1>2, <1>5, <2>1 DEF PacketTypeOK, Fills
<1>9. /\ \A i \in ChannelIds \ {id} : returned'[i] = returned[i] /\ toFill'[i] = toFill[i]
      /\ toFill'[id] = toFill[id] \ {p}
      /\ returned'[id] = IF toFill'[id] = {} THEN value[id] ELSE returned[id]
  BY <1>1, <1>2 DEF PacketTypeOK, PacketContents
<1>10. SentAsItIs' BY <1>1, <1>2, <1>6 DEF SentAsItIs
<1>11. FlagsAreDue' BY <1>1, <1>2, <1>6 DEF FlagsAreDue, PacketTypeOK
<1>12. Growing'
  <2> SUFFICES ASSUME NEW q \in Numbers, NEW i \in ChannelIds
               PROVE  last[q][i] <= Buffer(q)'[i] /\ Buffer(q)'[i] <= value[i]
    BY <1>1 DEF Growing
  <2>1. /\ last[q][i] <= Buffer(q)[i] /\ Buffer(q)[i] <= value[i]
        /\ last[q][i] \in Nat /\ Buffer(q)[i] \in Nat /\ value[i] \in Nat
    BY <1>2, PacketTypes DEF Growing
  <2>2. Buffer(q)'[i] = Buffer(q)[i] \/ Buffer(q)'[i] = value[i] BY <1>6, <1>7
  <2> QED BY <2>1, <2>2
<1>13. Filled'
  <2> SUFFICES ASSUME NEW i \in ChannelIds
               PROVE  /\ toFill'[i] \subseteq PacketsOf(i) /\ returned'[i] <= value[i]
                      /\ \A q \in PacketsOf(i) : /\ returned'[i] <= Buffer(q)'[i]
                                                 /\ q \notin toFill'[i] => Buffer(q)'[i] = value[i]
    BY <1>1, PacketFacts DEF Filled, PacketsOf
  <2>1. /\ toFill[i] \subseteq PacketsOf(i) /\ returned[i] <= value[i] /\ PacketsOf(i) \subseteq Numbers
        /\ returned[i] \in Nat /\ value[i] \in Nat
        /\ \A q \in PacketsOf(i) : /\ returned[i] <= Buffer(q)[i]
                                   /\ q \notin toFill[i] => Buffer(q)[i] = value[i]
    BY <1>2, PacketTypes, PacketFacts DEF Filled
  <2>2. CASE i # id
    <3>1. \A q \in PacketsOf(i) : Buffer(q)'[i] = Buffer(q)[i] BY <1>6, <1>7, <2>1, <2>2
    <3> QED BY <1>9, <2>1, <2>2, <3>1
  <2>3. CASE i = id
    <3>1. \A q \in PacketsOf(id) : Buffer(q)'[id] = (IF q = p THEN value[id] ELSE Buffer(q)[id])
      BY <1>6, <1>7, <2>1, <2>3
    <3>2. \A q \in PacketsOf(id) : q \notin toFill'[id] => Buffer(q)'[id] = value[id]
      BY <1>9, <2>1, <2>3, <3>1
    <3>3. \A q \in PacketsOf(id) : returned[id] <= Buffer(q)'[id]
      BY <2>1, <2>3, <3>1
    <3>4. \A q \in PacketsOf(id) : returned'[id] <= Buffer(q)'[id]
      BY <1>9, <2>1, <2>3, <3>2, <3>3
    <3>5. returned'[id] <= value[id] BY <1>9, <2>1, <2>3
    <3> QED BY <1>9, <2>1, <2>3, <3>2, <3>4, <3>5
  <2> QED BY <2>2, <2>3
<1> QED BY <1>8, <1>10, <1>11, <1>12, <1>13 DEF PacketInv

(* What a Run does to one packet.                                          *)
LEMMA RunPacket ==
    ASSUME PacketizerAssumption, PacketTypeOK, Run, NEW p \in Numbers
    PROVE  /\ m_fillBuffers'[p] \in Fills /\ Buffer(p)' = Buffer(p)
           /\ Updated(p)' = (Updated(p) /\ ~(IsDue(p) /\ updateMode = "ON_CHANGE"))
           /\ last'[p] = IF p \in inRun' THEN Buffer(p) ELSE last[p]
           /\ p \in inRun' <=> IsDue(p) \/ SentAnyway(p)
<1>1. m_fillBuffers[p] \in Fills /\ m_fillBuffers'[p] = Copied(p) BY PacketTypes DEF Run
<1>2. /\ last'[p] = (IF p \in inRun' THEN Buffer(p) ELSE last[p])
      /\ p \in inRun' <=> IsDue(p) \/ SentAnyway(p)
  BY DEF Run, Buffer
<1>3. CASE IsDue(p)
  <2>1. m_fillBuffers'[p] = [m_fillBuffers[p] EXCEPT
            !.updated = m_fillBuffers[p].updated /\ updateMode # "ON_CHANGE", !.requested = FALSE]
    BY <1>1, <1>3 DEF Copied
  <2> DEFINE u == m_fillBuffers[p].updated /\ updateMode # "ON_CHANGE"
  <2>2. u \in BOOLEAN OBVIOUS
  <2>3. m_fillBuffers'[p] = [m_fillBuffers[p] EXCEPT !.updated = u, !.requested = FALSE] BY <2>1
  <2> HIDE DEF u
  <2>4. /\ m_fillBuffers'[p] \in Fills /\ m_fillBuffers'[p].buffer = m_fillBuffers[p].buffer
        /\ m_fillBuffers'[p].updated = u
    BY <1>1, <2>2, <2>3 DEF Fills
  <2> QED BY <1>2, <1>3, <2>4 DEF Buffer, Updated, u
<1>4. CASE ~IsDue(p)
  <2>1. m_fillBuffers'[p] = m_fillBuffers[p] BY <1>1, <1>4 DEF Copied
  <2>2. Updated(p) \in BOOLEAN BY PacketTypes
  <2> QED BY <1>1, <1>2, <1>4, <2>1, <2>2 DEF Buffer, Updated
<1> QED BY <1>3, <1>4

LEMMA RunKeeps ==
    ASSUME PacketizerAssumption, PacketInv, Run PROVE PacketInv'
<1>1. PacketTypeOK /\ Growing /\ Filled /\ SentAsItIs /\ FlagsAreDue BY DEF PacketInv
<1>2. /\ UNCHANGED <<updateMode, m_startLevel, toFill, value, returned>> /\ asked' = {}
      /\ fresh' = fresh \ inRun' /\ inRun' \subseteq Numbers
      /\ DOMAIN m_fillBuffers' = Numbers /\ DOMAIN last' = Numbers
      /\ m_fillBuffers' = [p \in Numbers |-> m_fillBuffers'[p]] /\ last' = [p \in Numbers |-> last'[p]]
  BY DEF Run, writers
<1>3. PacketTypeOK'
  <2>1. m_fillBuffers' \in [Numbers -> Fills] BY <1>1, <1>2, RunPacket
  <2>2. \A p \in Numbers : last'[p] \in PacketContents
    BY <1>1, RunPacket, PacketTypes DEF PacketTypeOK
  <2> QED BY <1>1, <1>2, <2>1, <2>2 DEF PacketTypeOK, Fills
<1>4. SentAsItIs'
  <2> SUFFICES ASSUME NEW p \in Numbers, ~Updated(p)' PROVE last'[p] = Buffer(p)'
    BY DEF SentAsItIs
  <2>1. CASE p \in inRun' BY <1>1, <2>1, RunPacket
  <2>2. CASE p \notin inRun'
    <3>1. ~Updated(p) BY <1>1, <2>2, RunPacket
    <3> QED BY <1>1, <2>2, <3>1, RunPacket DEF SentAsItIs
  <2> QED BY <2>1, <2>2
<1>5. Growing'
  <2> SUFFICES ASSUME NEW p \in Numbers, NEW id \in ChannelIds
               PROVE  last'[p][id] <= Buffer(p)'[id] /\ Buffer(p)'[id] <= value[id]
    BY <1>2 DEF Growing
  <2>1. /\ last[p][id] <= Buffer(p)[id] /\ Buffer(p)[id] <= value[id]
        /\ last[p][id] \in Nat /\ Buffer(p)[id] \in Nat /\ value[id] \in Nat
    BY <1>1, PacketTypes DEF Growing
  <2>2. Buffer(p)' = Buffer(p) /\ (last'[p] = Buffer(p) \/ last'[p] = last[p]) BY <1>1, RunPacket
  <2> QED BY <2>1, <2>2
<1>6. Filled'
  <2>1. \A id \in ChannelIds : \A p \in PacketsOf(id) : Buffer(p)' = Buffer(p)
    BY <1>1, RunPacket, PacketFacts
  <2> QED BY <1>1, <1>2, <2>1 DEF Filled, PacketsOf
<1>7. FlagsAreDue'
  <2> SUFFICES ASSUME updateMode = "ON_CHANGE", NEW p \in Numbers, Updated(p)' PROVE p \in fresh'
    BY <1>2 DEF FlagsAreDue
  <2>1. Updated(p) /\ ~IsDue(p) /\ ~SentAnyway(p) BY <1>1, RunPacket DEF SentAnyway
  <2>2. p \notin asked BY <1>1, <2>1 DEF FlagsAreDue, IsDue, Updated, Requested
  <2>3. p \in fresh BY <1>1, <2>1, <2>2 DEF FlagsAreDue
  <2>4. p \notin inRun' BY <1>1, <2>1, RunPacket
  <2> QED BY <1>2, <2>3, <2>4
<1> QED BY <1>3, <1>4, <1>5, <1>6, <1>7 DEF PacketInv

LEMMA SendPktKeeps ==
    ASSUME PacketizerAssumption, PacketInv, NEW id \in PacketIds, SEND_PKT(id) PROVE PacketInv'
<1>1. PacketTypeOK /\ Growing /\ Filled /\ SentAsItIs /\ FlagsAreDue BY DEF PacketInv
<1>2. PICK p \in Numbers :
          /\ m_fillBuffers' = [m_fillBuffers EXCEPT ![p].updated = TRUE, ![p].requested = TRUE]
          /\ asked' = asked \cup {p}
  BY DEF SEND_PKT
<1>3. /\ UNCHANGED <<updateMode, m_startLevel, toFill, value, returned, last, inRun, fresh>>
      /\ m_fillBuffers \in [Numbers -> Fills]
  BY <1>1 DEF SEND_PKT, writers, PacketTypeOK, Fills
<1>4. /\ m_fillBuffers' \in [Numbers -> Fills] /\ Updated(p)' = TRUE /\ Requested(p)' = TRUE
      /\ \A q \in Numbers : Buffer(q)' = Buffer(q)
      /\ \A q \in Numbers \ {p} : Updated(q)' = Updated(q) /\ Requested(q)' = Requested(q)
  BY <1>2, <1>3 DEF Buffer, Updated, Requested, Fills
<1>5. PacketTypeOK' BY <1>1, <1>2, <1>3, <1>4 DEF PacketTypeOK, Fills
<1>6. SentAsItIs' BY <1>1, <1>3, <1>4 DEF SentAsItIs
<1>7. Growing' BY <1>1, <1>3, <1>4 DEF Growing
<1>8. Filled'
  <2>1. \A i \in ChannelIds : \A q \in PacketsOf(i) : Buffer(q)' = Buffer(q) BY <1>4, PacketFacts
  <2> QED BY <1>1, <1>3, <2>1 DEF Filled, PacketsOf
<1>9. FlagsAreDue'
  <2>1. asked \subseteq Numbers BY <1>1 DEF PacketTypeOK
  <2> QED BY <1>1, <1>2, <1>3, <1>4, <2>1 DEF FlagsAreDue
<1> QED BY <1>5, <1>6, <1>7, <1>8, <1>9 DEF PacketInv

LEMMA OthersKeep ==
    ASSUME PacketInv, UNCHANGED <<updateMode, m_fillBuffers, writers, last, inRun, fresh, asked>>,
           m_startLevel' \in Levels \cup {StartLevel}
    PROVE  PacketInv'
<1>1. UNCHANGED <<updateMode, m_fillBuffers, toFill, value, returned, last, inRun, fresh, asked>>
  BY DEF writers
<1>2. PacketTypeOK' BY <1>1 DEF PacketInv, PacketTypeOK
<1>3. SentAsItIs' /\ Growing' /\ FlagsAreDue'
  BY <1>1 DEF PacketInv, SentAsItIs, Growing, FlagsAreDue, Buffer, Updated, Requested
<1>4. Filled' BY <1>1 DEF PacketInv, Filled, PacketsOf, Buffer
<1> QED BY <1>2, <1>3, <1>4 DEF PacketInv

LEMMA PacketStep ==
    ASSUME PacketizerAssumption, PacketInv, [PacketNext]_packetVars PROVE PacketInv'
<1>1. ASSUME NEW level \in Levels, SET_LEVEL(level) PROVE PacketInv'
  BY <1>1, OthersKeep DEF SET_LEVEL
<1>2. CASE UNCHANGED packetVars
  <2>1. m_startLevel \in Levels \cup {StartLevel} BY DEF PacketInv, PacketTypeOK
  <2> QED BY <1>2, <2>1, OthersKeep DEF packetVars
<1> QED BY <1>1, <1>2, RecvBeginKeeps, RecvCopyKeeps, RunKeeps, SendPktKeeps DEF PacketNext

(* A Run sends what it promises, for any packets, channels, levels and     *)
(* update mode and however many values come in meanwhile.                  *)
THEOREM LatestOnGround == ASSUME PacketizerAssumption PROVE PacketSpec => LatestIsSent
<1> DEFINE Sends ==
        /\ \A p \in Numbers : Packets[p].level <= m_startLevel \/ p \in asked =>
              \A id \in Packets[p].list \ Ignored : last'[p][id] >= returned[id]
        /\ asked \subseteq inRun'
        /\ \A p \in Numbers, id \in ChannelIds : last'[p][id] >= last[p][id]
        /\ updateMode = "ON_CHANGE" => inRun' \subseteq fresh \cup asked
<1>1. ASSUME PacketInv, Run PROVE Sends
  <2>1. PacketTypeOK /\ Growing /\ Filled /\ SentAsItIs /\ FlagsAreDue /\ asked \subseteq Numbers
    BY <1>1 DEF PacketInv, PacketTypeOK
  <2>2. ASSUME NEW p \in asked PROVE IsDue(p)
    BY <2>1, <2>2 DEF FlagsAreDue, IsDue, Updated, Requested
  <2>3. ASSUME NEW p \in Numbers, Packets[p].level <= m_startLevel \/ p \in asked
        PROVE  last'[p] = Buffer(p)
    <3>1. CASE p \in inRun' BY <1>1, <2>1, <3>1, RunPacket
    <3>2. CASE p \notin inRun'
      <4>1. ~IsDue(p) /\ last'[p] = last[p] BY <1>1, <2>1, <3>2, RunPacket
      <4>2. Packets[p].level <= m_startLevel BY <2>2, <2>3, <4>1
      <4>3. ~Updated(p) BY <4>1, <4>2 DEF IsDue, Updated
      <4> QED BY <2>1, <4>1, <4>3 DEF SentAsItIs
    <3> QED BY <3>1, <3>2
  <2>4. ASSUME NEW p \in Numbers, Packets[p].level <= m_startLevel \/ p \in asked,
               NEW id \in Packets[p].list \ Ignored
        PROVE  last'[p][id] >= returned[id]
    <3>1. id \in ChannelIds /\ p \in PacketsOf(id) BY PacketFacts DEF PacketsOf
    <3>2. returned[id] <= Buffer(p)[id] /\ last'[p] = Buffer(p) BY <2>1, <2>3, <2>4, <3>1 DEF Filled
    <3>3. returned[id] \in Nat /\ Buffer(p)[id] \in Nat BY <2>1, <3>1, PacketTypes
    <3> QED BY <3>2, <3>3
  <2>5. asked \subseteq inRun'
    <3> SUFFICES ASSUME NEW p \in asked PROVE p \in inRun' OBVIOUS
    <3> QED BY <1>1, <2>1, <2>2, RunPacket
  <2>6. ASSUME NEW p \in Numbers, NEW id \in ChannelIds PROVE last'[p][id] >= last[p][id]
    <3>1. last'[p] = Buffer(p) \/ last'[p] = last[p] BY <1>1, <2>1, RunPacket
    <3>2. last[p][id] <= Buffer(p)[id] /\ Buffer(p)[id] \in Nat /\ last[p][id] \in Nat
      BY <2>1, PacketTypes DEF Growing
    <3> QED BY <3>1, <3>2
  <2>7. ASSUME updateMode = "ON_CHANGE", NEW p \in inRun' PROVE p \in fresh \cup asked
    <3>1. p \in Numbers BY <1>1 DEF Run
    <3>2. IsDue(p) BY <1>1, <2>1, <2>7, <3>1, RunPacket DEF SentAnyway
    <3> QED BY <2>1, <2>7, <3>1, <3>2 DEF FlagsAreDue, IsDue, Updated
  <2> QED BY <2>4, <2>5, <2>6, <2>7
<1>2. ASSUME PacketInv, [PacketNext]_packetVars PROVE [Run => Sends]_packetVars
  BY <1>1, <1>2
<1>3. PacketInit => PacketInv BY PacketInitHolds
<1>4. PacketInv /\ [PacketNext]_packetVars => PacketInv' BY PacketStep
<1> QED BY <1>2, <1>3, <1>4, PTL DEF PacketSpec, LatestIsSent, Sends

-----------------------------------------------------------------------------
(* The buffer log.                                                         *)
LogBytes == 0 .. ByteBase - 1

(* The size of a buffer, as writeSize writes it and a reader reads it.     *)
LEMMA RegisterIs ==
    ASSUME LoggerAssumption, NEW n \in Nat
    PROVE  /\ Register(n) \in [0 .. sizeOfSize -> Nat] /\ Register(n)[0] = n
           /\ \A k \in 1 .. sizeOfSize : Register(n)[k] = Register(n)[k - 1] \div ByteBase
<1>. DEFINE s == sizeOfSize
            F == [x \in (1 .. s) \X Nat |-> x[2] \div ByteBase]
            Body(g) == [k \in 0 .. s |-> IF k = 0 THEN n ELSE g[k - 1] \div ByteBase]
<1>1. s \in Nat /\ ByteBase \in Nat \ {0, 1}
  BY DEF LoggerAssumption
<1>. HIDE DEF s
<1>2. F \in [(1 .. s) \X Nat -> Nat]
  <2>1. \A m \in Nat : m \div ByteBase \in Nat
    BY <1>1
  <2>. QED
    BY <2>1
<1>3. PICK g \in [0 .. s -> Nat] : StepsUp(g, s, n, F)
  <2>. HIDE DEF F
  <2>. QED
    BY <1>1, <1>2, RecursionUp
<1>4. ASSUME NEW k \in 1 .. s PROVE F[<<k, g[k - 1]>>] = g[k - 1] \div ByteBase
  <2>1. k - 1 \in 0 .. s /\ g[k - 1] \in Nat
    BY <1>1, <1>3
  <2>. QED
    BY <2>1
<1>5. g = Body(g)
  <2>1. ASSUME NEW k \in 0 .. s PROVE g[k] = IF k = 0 THEN n ELSE g[k - 1] \div ByteBase
    <3>1. g[k] = IF k = 0 THEN n ELSE F[<<k, g[k - 1]>>]
      BY <1>3 DEF StepsUp
    <3>2. k # 0 => k \in 1 .. s
      BY <1>1
    <3>. HIDE DEF F
    <3>. QED
      BY <1>4, <3>1, <3>2
  <2>2. g = [k \in 0 .. s |-> g[k]]
    BY <1>3, Zenon
  <2>. QED
    BY <2>1, <2>2
<1>6. Register(n) = CHOOSE f : f = Body(f)
  BY DEF Register, s
<1>7. Register(n) = Body(Register(n))
  <2>. HIDE DEF Body
  <2>. QED
    BY <1>5, <1>6, Zenon
<1>. DEFINE r == Register(n)
<1>. HIDE DEF r
<1>8. r = [k \in 0 .. s |-> IF k = 0 THEN n ELSE r[k - 1] \div ByteBase]
  BY <1>7 DEF r
<1>9. r[0] = n /\ \A k \in 1 .. s : r[k] = r[k - 1] \div ByteBase
  <2>1. 0 \in 0 .. s /\ \A k \in 1 .. s : k \in 0 .. s /\ k # 0
    BY <1>1
  <2>. QED
    BY <1>8, <2>1
<1>10. ASSUME NEW k \in 0 .. s PROVE r[k] \in Nat
  <2>. DEFINE Typed == {j \in Nat : j <= s => r[j] \in Nat}
  <2>1. 0 \in Typed
    BY <1>9
  <2>2. ASSUME NEW j \in Nat, j \in Typed PROVE j + 1 \in Typed
    <3>. SUFFICES ASSUME j + 1 <= s PROVE r[j + 1] \in Nat
      OBVIOUS
    <3>1. r[j] \in Nat /\ j + 1 \in 1 .. s /\ (j + 1) - 1 = j
      BY <2>2, <1>1
    <3>2. r[j + 1] = r[j] \div ByteBase
      BY <1>9, <3>1
    <3>3. \A m \in Nat : m \div ByteBase \in Nat
      BY <1>1
    <3>. QED
      BY <3>1, <3>2, <3>3
  <2>. HIDE DEF Typed
  <2>3. \A j \in Nat : j \in Typed
    BY <2>1, <2>2, Induction
  <2>. QED
    BY <1>1, <2>3 DEF Typed
<1>. QED
  BY <1>8, <1>9, <1>10 DEF r, s

LEMMA SizeBytesAre ==
    ASSUME LoggerAssumption, NEW n \in Nat
    PROVE  SizeBytes(n) \in Seq(LogBytes) /\ Len(SizeBytes(n)) = sizeOfSize /\ sizeOfSize \in Nat
<1>1. sizeOfSize \in Nat /\ ByteBase \in Nat \ {0, 1}
  BY DEF LoggerAssumption
<1>2. ASSUME NEW i \in 1 .. sizeOfSize PROVE Register(n)[sizeOfSize - i] % ByteBase \in LogBytes
  <2>1. Register(n)[sizeOfSize - i] \in Nat
    BY <1>1, RegisterIs
  <2>. QED
    BY <1>1, <2>1 DEF LogBytes
<1>. QED
  BY <1>1, <1>2 DEF SizeBytes

LEMMA NumberIs ==
    ASSUME LoggerAssumption, NEW bytes \in Seq(LogBytes)
    PROVE  \E read \in [0 .. Len(bytes) -> Nat] :
              /\ Number(bytes) = read[Len(bytes)] /\ read[0] = 0
              /\ \A k \in 1 .. Len(bytes) : read[k] = ByteBase * read[k - 1] + bytes[k]
<1>. DEFINE n == Len(bytes)
            F == [x \in (1 .. n) \X Nat |-> ByteBase * x[2] + bytes[x[1]]]
            Body(g) == [k \in 0 .. n |-> IF k = 0 THEN 0 ELSE ByteBase * g[k - 1] + bytes[k]]
<1>1. n \in Nat /\ ByteBase \in Nat /\ \A k \in 1 .. n : bytes[k] \in Nat
  BY DEF LoggerAssumption, LogBytes
<1>2. Number(bytes) = (CHOOSE f : f = Body(f))[n]
  BY DEF Number
<1>. HIDE DEF n
<1>3. F \in [(1 .. n) \X Nat -> Nat]
  <2>1. \A m, d \in Nat : ByteBase * m + d \in Nat
    BY <1>1
  <2>2. ASSUME NEW x \in (1 .. n) \X Nat PROVE ByteBase * x[2] + bytes[x[1]] \in Nat
    <3>1. x[2] \in Nat /\ bytes[x[1]] \in Nat
      BY <1>1
    <3>. QED
      BY <2>1, <3>1
  <2>. QED
    BY <2>2
<1>4. PICK g \in [0 .. n -> Nat] : StepsUp(g, n, 0, F)
  <2>. HIDE DEF F
  <2>. QED
    BY <1>1, <1>3, RecursionUp
<1>5. ASSUME NEW k \in 1 .. n PROVE F[<<k, g[k - 1]>>] = ByteBase * g[k - 1] + bytes[k]
  <2>1. k - 1 \in 0 .. n /\ g[k - 1] \in Nat
    BY <1>1, <1>4
  <2>. QED
    BY <2>1
<1>6. g = Body(g)
  <2>1. ASSUME NEW k \in 0 .. n PROVE g[k] = IF k = 0 THEN 0 ELSE ByteBase * g[k - 1] + bytes[k]
    <3>1. g[k] = IF k = 0 THEN 0 ELSE F[<<k, g[k - 1]>>]
      BY <1>4 DEF StepsUp
    <3>2. k # 0 => k \in 1 .. n
      BY <1>1
    <3>. HIDE DEF F
    <3>. QED
      BY <1>5, <3>1, <3>2
  <2>2. g = [k \in 0 .. n |-> g[k]]
    BY <1>4, Zenon
  <2>. QED
    BY <2>1, <2>2
<1>. DEFINE r == CHOOSE f : f = Body(f)
<1>7. r = Body(r)
  <2>. HIDE DEF Body
  <2>. QED
    BY <1>6, Zenon
<1>. HIDE DEF r
<1>8. r = [k \in 0 .. n |-> IF k = 0 THEN 0 ELSE ByteBase * r[k - 1] + bytes[k]]
  BY <1>7
<1>9. r[0] = 0 /\ \A k \in 1 .. n : r[k] = ByteBase * r[k - 1] + bytes[k]
  <2>1. 0 \in 0 .. n /\ \A k \in 1 .. n : k \in 0 .. n /\ k # 0
    BY <1>1
  <2>. QED
    BY <1>8, <2>1
<1>10. ASSUME NEW k \in 0 .. n PROVE r[k] \in Nat
  <2>. DEFINE Typed == {j \in Nat : j <= n => r[j] \in Nat}
  <2>1. 0 \in Typed
    BY <1>9
  <2>2. ASSUME NEW j \in Nat, j \in Typed PROVE j + 1 \in Typed
    <3>. SUFFICES ASSUME j + 1 <= n PROVE r[j + 1] \in Nat
      OBVIOUS
    <3>1. r[j] \in Nat /\ j + 1 \in 1 .. n /\ (j + 1) - 1 = j
      BY <2>2, <1>1
    <3>2. r[j + 1] = ByteBase * r[j] + bytes[j + 1] /\ bytes[j + 1] \in Nat
      BY <1>1, <1>9, <3>1
    <3>3. \A m, d \in Nat : ByteBase * m + d \in Nat
      BY <1>1
    <3>. QED
      BY <3>1, <3>2, <3>3
  <2>. HIDE DEF Typed
  <2>3. \A j \in Nat : j \in Typed
    BY <2>1, <2>2, Induction
  <2>. QED
    BY <1>1, <2>3 DEF Typed
<1>11. r \in [0 .. n -> Nat]
  BY <1>8, <1>10
<1>. QED
  BY <1>2, <1>9, <1>11 DEF n, r

(* A size that fits is read as it was written: the digit that is added is  *)
(* the one that the shift took away.                                       *)
LEMMA SizeIsRead ==
    ASSUME LoggerAssumption, NEW n \in Nat, SizeFits(n)
    PROVE  Number(SizeBytes(n)) = n
<1>. DEFINE s == sizeOfSize
            bytes == SizeBytes(n)
            reg == Register(n)
<1>1. s \in Nat /\ ByteBase \in Nat \ {0, 1} /\ bytes \in Seq(LogBytes) /\ Len(bytes) = s
  BY SizeBytesAre DEF LoggerAssumption
<1>2. /\ reg \in [0 .. s -> Nat] /\ reg[0] = n /\ reg[s] = 0
      /\ \A k \in 1 .. s : reg[k] = reg[k - 1] \div ByteBase
  BY RegisterIs DEF SizeFits
<1>3. \A i \in 1 .. s : bytes[i] = reg[s - i] % ByteBase
  BY DEF SizeBytes
<1>. HIDE DEF s, bytes, reg
<1>4. PICK read \in [0 .. s -> Nat] :
          /\ Number(bytes) = read[s] /\ read[0] = 0
          /\ \A k \in 1 .. s : read[k] = ByteBase * read[k - 1] + bytes[k]
  BY <1>1, NumberIs
<1>. DEFINE Right == {k \in Nat : k <= s => read[k] = reg[s - k]}
<1>5. 0 \in Right
  BY <1>1, <1>2, <1>4
<1>6. ASSUME NEW k \in Nat, k \in Right PROVE k + 1 \in Right
  <2>. SUFFICES ASSUME k + 1 <= s PROVE read[k + 1] = reg[s - (k + 1)]
    OBVIOUS
  <2>. DEFINE m == s - (k + 1)
              x == reg[m]
  <2>1. m \in 0 .. s /\ s - k \in 1 .. s /\ (s - k) - 1 = m /\ k + 1 \in 1 .. s /\ (k + 1) - 1 = k
    BY <1>1
  <2>2. x \in Nat /\ reg[s - k] = x \div ByteBase
    BY <1>2, <2>1
  <2>3. bytes[k + 1] = x % ByteBase
    BY <1>3, <2>1
  <2>4. read[k + 1] = ByteBase * read[k] + bytes[k + 1]
    <3>1. read[k + 1] = ByteBase * read[(k + 1) - 1] + bytes[k + 1]
      BY <1>4, <2>1, Zenon
    <3>. QED
      BY <2>1, <3>1, Zenon
  <2>5. read[k] = reg[s - k]
    BY <1>1, <1>6
  <2>. HIDE DEF m, x
  <2>6. ByteBase * (x \div ByteBase) + (x % ByteBase) = x
    BY <1>1, <2>2
  <2>7. read[k + 1] = x
    BY <2>2, <2>3, <2>4, <2>5, <2>6
  <2>. QED
    BY <2>7 DEF m, x
<1>7. s \in Right
  <2>. HIDE DEF Right
  <2>. QED
    BY <1>1, <1>5, <1>6, Induction
<1>. QED
  BY <1>1, <1>2, <1>4, <1>7 DEF bytes

(* What a reader finds in a file.                                          *)
SizeAt(c, i) == Number(SubSeq(c, i, i + sizeOfSize - 1))
ReadOn(f, c) ==
    [i \in 1 .. Len(c) + 1 |->
        IF i = Len(c) + 1 THEN <<>>
        ELSE IF i + sizeOfSize - 1 > Len(c) THEN <<Torn>>
        ELSE LET next == i + sizeOfSize + SizeAt(c, i)
             IN  IF next > Len(c) + 1 THEN <<Torn>>
                 ELSE <<SubSeq(c, i + sizeOfSize, next - 1)>> \o f[next]]
ReadFrom(c) == CHOOSE f : f = ReadOn(f, c)

LEMMA SizeAtIs ==
    ASSUME LoggerAssumption, NEW c \in Seq(LogBytes), NEW i \in Nat \ {0}, i + sizeOfSize - 1 <= Len(c)
    PROVE  SizeAt(c, i) \in Nat
<1>. DEFINE b == SubSeq(c, i, i + sizeOfSize - 1)
<1>1. sizeOfSize \in Nat
  BY DEF LoggerAssumption
<1>2. b \in Seq(LogBytes)
  BY <1>1, SubSeqIs
<1>. HIDE DEF b
<1>3. Len(b) \in 0 .. Len(b)
  BY <1>2
<1>4. PICK read \in [0 .. Len(b) -> Nat] : Number(b) = read[Len(b)]
  BY <1>2, NumberIs
<1>. QED
  <2>1. read[Len(b)] \in Nat
    BY <1>3, <1>4
  <2>. QED
    BY <1>4, <2>1 DEF b, SizeAt

LEMMA ReadFromIs ==
    ASSUME LoggerAssumption, sizeOfSize # 0, NEW c \in Seq(LogBytes)
    PROVE  ReadFrom(c) = ReadOn(ReadFrom(c), c)
<1>. DEFINE n    == Len(c)
            s    == sizeOfSize
            Dom  == 1 .. n + 1
            Val  == Seq(Seq(LogBytes) \cup {Torn})
            left == [i \in Dom |-> n + 1 - i]
            Body == [f \in [Dom -> Val] |-> ReadOn(f, c)]
            Next(i) == i + s + SizeAt(c, i)
            Stops(i) == i = n + 1 \/ i + s - 1 > n \/ Next(i) > n + 1
<1>1. n \in Nat /\ s \in Nat \ {0}
  BY DEF LoggerAssumption
<1>2. ASSUME NEW f, NEW i \in Dom
      PROVE  ReadOn(f, c)[i] = IF i = n + 1 THEN <<>> ELSE IF Stops(i) THEN <<Torn>>
                               ELSE <<SubSeq(c, i + s, Next(i) - 1)>> \o f[Next(i)]
  BY DEF ReadOn
<1>3. ASSUME NEW i \in Dom, ~Stops(i)
      PROVE  /\ Next(i) \in Dom /\ i < Next(i)
             /\ SubSeq(c, i + s, Next(i) - 1) \in Seq(LogBytes)
  <2>1. SizeAt(c, i) \in Nat
    BY <1>1, <1>3, SizeAtIs
  <2>. DEFINE a == i + s
              b == Next(i) - 1
  <2>2. a \in Nat \ {0} /\ b \in Nat /\ a <= b + 1 /\ b <= n
    BY <1>1, <1>3, <2>1
  <2>3. SubSeq(c, a, b) \in Seq(LogBytes)
    <3>. HIDE DEF a, b
    <3>. QED
      BY <2>2, SubSeqIs
  <2>. QED
    BY <1>1, <1>3, <2>1, <2>3
<1>4. ASSUME NEW f \in [Dom -> Val], NEW i \in Dom PROVE ReadOn(f, c)[i] \in Val
  <2>1. <<>> \in Val /\ <<Torn>> \in Val
    OBVIOUS
  <2>2. ASSUME ~Stops(i) PROVE <<SubSeq(c, i + s, Next(i) - 1)>> \o f[Next(i)] \in Val
    <3>1. <<SubSeq(c, i + s, Next(i) - 1)>> \in Val /\ f[Next(i)] \in Val
      BY <1>3, <2>2
    <3>. HIDE DEF Next
    <3>. QED
      BY <3>1, ConcatIs
  <2>. HIDE DEF Val, Stops, Next
  <2>. QED
    BY <1>2, <2>1, <2>2
<1>. HIDE DEF Stops, Next
<1>5. Body \in [[Dom -> Val] -> [Dom -> Val]]
  <2>. SUFFICES ASSUME NEW f \in [Dom -> Val] PROVE ReadOn(f, c) \in [Dom -> Val]
    OBVIOUS
  <2>1. ReadOn(f, c) = [i \in Dom |-> ReadOn(f, c)[i]]
    BY DEF ReadOn
  <2>. HIDE DEF Val
  <2>. QED
    BY <1>4, <2>1
<1>6. <<>> \in Val
  OBVIOUS
<1>7. left \in [Dom -> Nat] /\ \A i \in Dom : left[i] = n + 1 - i
  BY <1>1
<1>. HIDE DEF left
<1>8. ASSUME NEW f, NEW g, NEW i \in Dom, \A j \in Dom : left[j] < left[i] => f[j] = g[j]
      PROVE  ReadOn(f, c)[i] = ReadOn(g, c)[i]
  <2>1. CASE Stops(i)
    BY <1>2, <2>1
  <2>2. CASE ~Stops(i)
    <3>1. Next(i) \in Dom /\ left[Next(i)] < left[i]
      BY <1>1, <1>3, <1>7, <2>2
    <3>2. f[Next(i)] = g[Next(i)]
      BY <1>8, <3>1
    <3>. QED
      BY <1>2, <3>2
  <2>. QED
    BY <2>1, <2>2
<1>9. \A f \in [Dom -> Val] : Body[f] = ReadOn(f, c)
  OBVIOUS
<1>. HIDE DEF Dom, Val, Body
<1>10. Recursive(Body, Dom, Val, left)
  <2>1. ASSUME NEW f \in [Dom -> Val], NEW g \in [Dom -> Val], NEW i \in Dom,
               \A j \in Dom : left[j] < left[i] => f[j] = g[j]
        PROVE  Body[f][i] = Body[g][i]
    <3>1. ReadOn(f, c)[i] = ReadOn(g, c)[i]
      BY <1>8, <2>1, Zenon
    <3>. QED
      BY <1>9, <3>1
  <2>. QED
    BY <1>5, <1>6, <1>7, <2>1 DEF Recursive
<1>11. PICK g \in [Dom -> Val] : g = Body[g]
  BY <1>10, RecursiveFunction
<1>12. g = ReadOn(g, c)
  BY <1>9, <1>11
<1>. QED
  BY <1>12 DEF ReadFrom

(* The records of a file: where each begins, what its size field says.     *)
RecordAt(c, begins, recs, k) ==
    /\ begins[k + 1] = begins[k] + sizeOfSize + Len(recs[k])
    /\ SubSeq(c, begins[k], begins[k] + sizeOfSize - 1) = SizeBytes(Len(recs[k]))
    /\ SubSeq(c, begins[k] + sizeOfSize, begins[k + 1] - 1) = recs[k] /\ SizeFits(Len(recs[k]))

Encodes(c, recs) ==
    \E begins \in [1 .. Len(recs) + 1 -> 1 .. Len(c) + 1] :
        /\ begins[1] = 1 /\ begins[Len(recs) + 1] = Len(c) + 1
        /\ \A k \in 1 .. Len(recs) : RecordAt(c, begins, recs, k)

LEMMA ReadsBack ==
    ASSUME LoggerAssumption, sizeOfSize # 0, NEW c \in Seq(LogBytes), NEW recs \in Seq(Seq(LogBytes)),
           Encodes(c, recs)
    PROVE  Records(c) = recs
<1>. DEFINE n == Len(recs)
            f == ReadFrom(c)
            s == sizeOfSize
<1>1. n \in Nat /\ Len(c) \in Nat /\ s \in Nat \ {0} /\ \A k \in 1 .. n : Len(recs[k]) \in Nat
  BY DEF LoggerAssumption
<1>2. PICK begins \in [1 .. n + 1 -> 1 .. Len(c) + 1] :
          /\ begins[1] = 1 /\ begins[n + 1] = Len(c) + 1
          /\ \A k \in 1 .. n : RecordAt(c, begins, recs, k)
  BY DEF Encodes
<1>3. ASSUME NEW i \in 1 .. Len(c) + 1
      PROVE  f[i] = ReadOn(f, c)[i]
  <2>1. f = ReadOn(f, c)
    BY ReadFromIs
  <2>. HIDE DEF f
  <2>. QED
    BY <2>1, Zenon
<1>4. Records(c) = f[1]
  BY Zenon DEF Records, ReadFrom, ReadOn, SizeAt
<1>. HIDE DEF f
<1>5. ASSUME NEW k \in 1 .. n PROVE f[begins[k]] = <<recs[k]>> \o f[begins[k + 1]]
  <2>1. /\ begins[k] \in 1 .. Len(c) + 1 /\ begins[k + 1] \in 1 .. Len(c) + 1 /\ Len(recs[k]) \in Nat
        /\ begins[k + 1] = begins[k] + s + Len(recs[k])
    <3>1. k \in 1 .. n + 1 /\ k + 1 \in 1 .. n + 1
      BY <1>1
    <3>. QED
      BY <1>1, <1>2, <3>1 DEF RecordAt
  <2>2. begins[k] # Len(c) + 1 /\ ~(begins[k] + s - 1 > Len(c)) /\ ~(begins[k + 1] > Len(c) + 1)
    BY <1>1, <2>1
  <2>3. SizeAt(c, begins[k]) = Len(recs[k])
    <3>1. SubSeq(c, begins[k], begins[k] + s - 1) = SizeBytes(Len(recs[k])) /\ SizeFits(Len(recs[k]))
      BY <1>2 DEF RecordAt
    <3>2. Number(SizeBytes(Len(recs[k]))) = Len(recs[k])
      BY <2>1, <3>1, SizeIsRead
    <3>. QED
      BY <3>1, <3>2 DEF SizeAt
  <2>4. SubSeq(c, begins[k] + s, begins[k + 1] - 1) = recs[k]
    BY <1>2 DEF RecordAt
  <2>5. ReadOn(f, c)[begins[k]] = <<SubSeq(c, begins[k] + s, begins[k + 1] - 1)>> \o f[begins[k + 1]]
    BY <2>1, <2>2, <2>3 DEF ReadOn
  <2>. QED
    BY <1>3, <2>1, <2>4, <2>5
<1>6. f[begins[n + 1]] = <<>>
  <2>1. Len(c) + 1 \in 1 .. Len(c) + 1
    BY <1>1
  <2>. QED
    BY <1>2, <1>3, <2>1 DEF ReadOn
<1>. DEFINE Read == {j \in Nat : j <= n => f[begins[n + 1 - j]] = SubSeq(recs, n + 1 - j, n)}
<1>7. 0 \in Read
  <2>1. SubSeq(recs, n + 1, n) = <<>> /\ n + 1 - 0 = n + 1
    BY <1>1
  <2>. QED
    BY <1>6, <2>1
<1>8. ASSUME NEW j \in Nat, j \in Read PROVE j + 1 \in Read
  <2>0. j + 1 \in Nat
    BY <1>8
  <2>. SUFFICES ASSUME j + 1 <= n PROVE f[begins[n + 1 - (j + 1)]] = SubSeq(recs, n + 1 - (j + 1), n)
    BY <2>0
  <2>. DEFINE k == n - j
  <2>1. k \in 1 .. n /\ n + 1 - (j + 1) = k /\ n + 1 - j = k + 1 /\ j <= n
    BY <1>1
  <2>2. f[begins[k + 1]] = SubSeq(recs, k + 1, n)
    BY <1>8, <2>1
  <2>. HIDE DEF k
  <2>3. f[begins[k]] = <<recs[k]>> \o SubSeq(recs, k + 1, n)
    BY <1>5, <2>1, <2>2
  <2>4. <<recs[k]>> \o SubSeq(recs, k + 1, n) = SubSeq(recs, k, n)
    BY <1>1, <2>1, HeadOfCut
  <2>. QED
    BY <2>1, <2>3, <2>4
<1>9. f[begins[1]] = SubSeq(recs, 1, n)
  <2>1. n \in Read
    <3>. HIDE DEF Read
    <3>. QED
      BY <1>1, <1>7, <1>8, Induction
  <2>2. n + 1 - n = 1
    BY <1>1
  <2>. QED
    BY <1>1, <2>1, <2>2
<1>10. SubSeq(recs, 1, n) = recs
  OBVIOUS
<1>. QED
  BY <1>2, <1>4, <1>9, <1>10

LEMMA NothingEncoded ==
    ASSUME LoggerAssumption PROVE Encodes(<<>>, <<>>)
<1>. DEFINE begins == [k \in 1 .. 1 |-> 1]
<1>1. begins \in [1 .. Len(<<>>) + 1 -> 1 .. Len(<<>>) + 1] /\ begins[1] = 1 /\ begins[Len(<<>>) + 1] = Len(<<>>) + 1
  OBVIOUS
<1>2. \A k \in 1 .. Len(<<>>) : RecordAt(<<>>, begins, <<>>, k)
  OBVIOUS
<1>. HIDE DEF begins
<1>. QED
  BY <1>1, <1>2 DEF Encodes

LEMMA EmptyFile ==
    ASSUME LoggerAssumption, sizeOfSize # 0, NEW c \in Seq(LogBytes), Len(c) = 0,
           NEW recs \in Seq(Seq(LogBytes)), Encodes(c, recs)
    PROVE  recs = <<>>
<1>1. PICK begins \in [1 .. Len(recs) + 1 -> 1 .. Len(c) + 1] :
          \A k \in 1 .. Len(recs) : RecordAt(c, begins, recs, k)
  BY DEF Encodes
<1>0. Len(recs) \in Nat
  OBVIOUS
<1>. SUFFICES ASSUME Len(recs) # 0 PROVE FALSE
  OBVIOUS
<1>2. 1 \in 1 .. Len(recs) /\ 1 \in 1 .. Len(recs) + 1 /\ 2 \in 1 .. Len(recs) + 1
  BY <1>0
<1>5. Len(recs[1]) \in Nat /\ sizeOfSize \in Nat \ {0}
  BY <1>2 DEF LoggerAssumption
<1>3. begins[2] = begins[1] + sizeOfSize + Len(recs[1])
  <2>1. begins[1 + 1] = begins[1] + sizeOfSize + Len(recs[1])
    BY <1>1, <1>2 DEF RecordAt
  <2>. QED
    BY <2>1
<1>4. begins[1] = 1 /\ begins[2] = 1
  <2>1. \A x \in 1 .. Len(c) + 1 : x = 1
    OBVIOUS
  <2>2. begins[1] \in 1 .. Len(c) + 1 /\ begins[2] \in 1 .. Len(c) + 1
    BY <1>1, <1>2
  <2>. QED
    BY <2>1, <2>2, Zenon
<1>. DEFINE l == Len(recs[1])
<1>6. l \in Nat /\ 1 = 1 + sizeOfSize + l
  BY <1>3, <1>4, <1>5, Zenon
<1>. HIDE DEF l
<1>. QED
  BY <1>5, <1>6

(* A record more at the end of a file.                                     *)
LEMMA OneMoreRecord ==
    ASSUME LoggerAssumption, NEW c \in Seq(LogBytes), NEW recs \in Seq(Seq(LogBytes)), Encodes(c, recs),
           NEW d \in Seq(LogBytes), SizeFits(Len(d))
    PROVE  Encodes((c \o SizeBytes(Len(d))) \o d, Append(recs, d))
<1>. DEFINE n == Len(recs)
            m == Len(c)
            z == SizeBytes(Len(d))
            s == sizeOfSize
            e == (c \o z) \o d
            more == Append(recs, d)
<1>1. n \in Nat /\ m \in Nat /\ Len(d) \in Nat
  OBVIOUS
<1>2. z \in Seq(LogBytes) /\ Len(z) = s /\ s \in Nat
  BY <1>1, SizeBytesAre
<1>3. PICK begins \in [1 .. n + 1 -> 1 .. m + 1] :
          /\ begins[1] = 1 /\ begins[n + 1] = m + 1
          /\ \A k \in 1 .. n : RecordAt(c, begins, recs, k)
  BY DEF Encodes
<1>4. more \in Seq(Seq(LogBytes)) /\ Len(more) = n + 1 /\ more[n + 1] = d /\ \A k \in 1 .. n : more[k] = recs[k]
  OBVIOUS
<1>. HIDE DEF z, more
<1>5. /\ c \o z \in Seq(LogBytes) /\ Len(c \o z) = m + s
      /\ e \in Seq(LogBytes) /\ Len(e) = m + s + Len(d)
  <2>. DEFINE h == c \o z
  <2>1. h \in Seq(LogBytes) /\ Len(h) = m + s
    BY <1>2, ConcatIs
  <2>. HIDE DEF h
  <2>2. h \o d \in Seq(LogBytes) /\ Len(h \o d) = Len(h) + Len(d)
    BY <2>1, ConcatIs
  <2>. QED
    BY <2>1, <2>2 DEF h
<1>. DEFINE to == [k \in 1 .. n + 2 |-> IF k = n + 2 THEN m + s + Len(d) + 1 ELSE begins[k]]
<1>6. /\ to \in [1 .. n + 2 -> 1 .. m + s + Len(d) + 1]
      /\ to[1] = 1 /\ to[n + 2] = m + s + Len(d) + 1 /\ \A k \in 1 .. n + 1 : to[k] = begins[k]
  BY <1>1, <1>2, <1>3
<1>. HIDE DEF to, e
<1>7. ASSUME NEW k \in 1 .. n PROVE RecordAt(e, to, more, k)
  <2>1. /\ to[k] = begins[k] /\ to[k + 1] = begins[k + 1] /\ more[k] = recs[k] /\ RecordAt(c, begins, recs, k)
        /\ begins[k] \in 1 .. m + 1 /\ begins[k + 1] \in 1 .. m + 1 /\ Len(recs[k]) \in Nat
    <3>1. k \in 1 .. n + 1 /\ k + 1 \in 1 .. n + 1
      BY <1>1
    <3>2. recs[k] \in Seq(LogBytes)
      OBVIOUS
    <3>3. Len(recs[k]) \in Nat
      BY <3>2
    <3>4. begins[k] \in 1 .. m + 1 /\ begins[k + 1] \in 1 .. m + 1
      BY <1>3, <3>1
    <3>. QED
      BY <1>3, <1>4, <1>6, <3>1, <3>3, <3>4, Zenon
  <2>2. ASSUME NEW a \in Nat \ {0}, NEW b \in Nat, a <= b + 1, b <= m PROVE SubSeq(e, a, b) = SubSeq(c, a, b)
    <3>1. SubSeq(c \o z, a, b) = SubSeq(c, a, b)
      BY <1>2, <2>2, CutOfFront
    <3>2. SubSeq((c \o z) \o d, a, b) = SubSeq(c \o z, a, b)
      BY <1>1, <1>2, <1>5, <2>2, CutOfFront
    <3>. QED
      BY <3>1, <3>2 DEF e
  <2>3. begins[k + 1] = begins[k] + s + Len(recs[k])
    BY <2>1 DEF RecordAt
  <2>. DEFINE p == begins[k]
              q == begins[k + 1]
  <2>4. /\ p \in Nat \ {0} /\ p + s - 1 \in Nat /\ p <= (p + s - 1) + 1 /\ p + s - 1 <= m
        /\ p + s \in Nat \ {0} /\ q - 1 \in Nat /\ p + s <= (q - 1) + 1 /\ q - 1 <= m
    <3>. DEFINE l == Len(recs[k])
    <3>1. p \in 1 .. m + 1 /\ q \in 1 .. m + 1 /\ l \in Nat /\ q = p + s + l
      BY <2>1, <2>3
    <3>. HIDE DEF p, q, l, m, s
    <3>. QED
      BY <1>1, <1>2, <3>1
  <2>. HIDE DEF p, q
  <2>5. SubSeq(e, p, p + s - 1) = SubSeq(c, p, p + s - 1) /\ SubSeq(e, p + s, q - 1) = SubSeq(c, p + s, q - 1)
    BY <2>2, <2>4
  <2>. QED
    BY <2>1, <2>5 DEF RecordAt, p, q
<1>8. RecordAt(e, to, more, n + 1)
  <2>1. to[n + 1] = m + 1 /\ to[(n + 1) + 1] = m + s + Len(d) + 1 /\ more[n + 1] = d
    BY <1>1, <1>3, <1>4, <1>6
  <2>2. SubSeq(e, m + 1, m + s) = z
    <3>1. SubSeq((c \o z) \o d, m + 1, m + s) = SubSeq(c \o z, m + 1, m + s)
      <4>. DEFINE h == c \o z
                  p == m + 1
                  q == m + s
      <4>1. h \in Seq(LogBytes) /\ p \in Nat \ {0} /\ q \in Nat /\ p <= q + 1 /\ q <= Len(h)
        BY <1>1, <1>2, <1>5
      <4>. HIDE DEF h, p, q
      <4>2. SubSeq(h \o d, p, q) = SubSeq(h, p, q)
        BY <4>1, CutOfFront
      <4>. QED
        BY <4>2 DEF h, p, q
    <3>2. SubSeq(c \o z, m + 1, m + s) = z
      BY <1>1, <1>2, RestIs
    <3>. QED
      BY <3>1, <3>2 DEF e
  <2>3. SubSeq(e, m + s + 1, m + s + Len(d)) = d
    <3>. DEFINE h == c \o z
    <3>1. h \in Seq(LogBytes) /\ Len(h) = m + s
      BY <1>5
    <3>. HIDE DEF h
    <3>2. SubSeq(h \o d, Len(h) + 1, Len(h) + Len(d)) = d
      BY <3>1, RestIs
    <3>. QED
      BY <3>1, <3>2 DEF e, h
  <2>4. /\ (m + 1) + s - 1 = m + s /\ (m + 1) + s = m + s + 1
        /\ (m + s + Len(d) + 1) - 1 = m + s + Len(d) /\ m + s + Len(d) + 1 = (m + 1) + s + Len(d)
    BY <1>1, <1>2
  <2>. QED
    BY <2>1, <2>2, <2>3, <2>4 DEF RecordAt, z
<1>9. /\ to \in [1 .. Len(more) + 1 -> 1 .. Len(e) + 1]
      /\ to[1] = 1 /\ to[Len(more) + 1] = Len(e) + 1
      /\ \A k \in 1 .. Len(more) : RecordAt(e, to, more, k)
  <2>1. Len(more) + 1 = n + 2 /\ Len(e) + 1 = m + s + Len(d) + 1
    BY <1>1, <1>2, <1>4, <1>5
  <2>2. \A k \in 1 .. n + 1 : k = n + 1 \/ k \in 1 .. n
    BY <1>1
  <2>. QED
    BY <1>4, <1>6, <1>7, <1>8, <2>1, <2>2
<1>. QED
  BY <1>9 DEF Encodes, e, z, more

(* Names.                                                                  *)
LEMMA NamesDiffer ==
    ASSUME LoggerAssumption, NEW base \in BaseNames, NEW i \in Nat, NEW j \in Nat,
           FileName(base, i) = FileName(base, j)
    PROVE  i = j
<1>1. base \in Seq(Nat)
  BY DEF LoggerAssumption
<1>2. ASSUME NEW k \in Nat
      PROVE  Len(Append(base, k)) = Len(base) + 1 /\ Append(base, k)[Len(base) + 1] = k /\ Len(base) \in Nat
  BY <1>1
<1>3. CASE i # 0 /\ j # 0
  <2>1. Append(base, i) = Append(base, j)
    BY <1>3 DEF FileName
  <2>. QED
    BY <1>2, <2>1
<1>4. CASE i = 0 \/ j = 0
  <2>1. \A k \in Nat : base # Append(base, k)
    BY <1>2
  <2>. QED
    BY <1>4, <2>1 DEF FileName
<1>. QED
  BY <1>3, <1>4

-----------------------------------------------------------------------------
(* m_file, as the record that the handlers' calls take and leave: it has   *)
(* its fields, and they have their types.                                  *)
Whole(f) ==
    f = [mode |-> f.mode, baseName |-> f.baseName, fileCounter |-> f.fileCounter, name |-> f.name,
         bytesWritten |-> f.bytesWritten, offset |-> f.offset, disk |-> f.disk, halted |-> f.halted,
         failures |-> f.failures, logged |-> f.logged, quiet |-> f.quiet]

FileTypes(f) ==
    /\ Whole(f)
    /\ f.mode \in {"OPEN", "CLOSED"} /\ f.halted \in BOOLEAN /\ f.quiet \in BOOLEAN
    /\ f.baseName \in BaseNames \cup {<<>>} /\ f.fileCounter \in Nat
    /\ f.bytesWritten \in Nat /\ f.offset \in Nat
    /\ \A n \in DOMAIN f.disk : f.disk[n] \in Seq(LogBytes)
    /\ f.logged \in Seq(Buffers)
    /\ f.mode = "OPEN" => f.name \in DOMAIN f.disk /\ f.offset <= Len(f.disk[f.name])

(* Each file of the base name holds its part of what was logged, and the   *)
(* next record goes to the end of the one that is open.  This is so as     *)
(* long as no write failed and no file that was opened was there before.   *)
HoldsPart(f, parts, i) ==
    LET n == FileName(f.baseName, i - 1)
    IN  /\ n \in DOMAIN f.disk /\ Encodes(f.disk[n], parts[i])
        /\ Len(f.disk[n]) > maxSize => Len(parts[i]) = 1

InParts(f, parts) ==
    /\ Len(parts) = f.fileCounter /\ FlattenSeq(parts) = f.logged
    /\ \A i \in 1 .. f.fileCounter : HoldsPart(f, parts, i)

AtEnd(f) ==
    /\ f.fileCounter # 0 /\ f.baseName # <<>> /\ f.name = FileName(f.baseName, f.fileCounter - 1)
    /\ f.offset = Len(f.disk[f.name]) /\ f.bytesWritten = f.offset

Kept(f) ==
    /\ \E parts \in Seq(Seq(Buffers)) : InParts(f, parts)
    /\ f.baseName = <<>> => f.fileCounter = 0
    /\ f.mode = "OPEN" => AtEnd(f)

Sound(f) == FileTypes(f) /\ (f.quiet /\ ~f.halted /\ sizeOfSize # 0 => Kept(f))

LEMMA CloseKeeps ==
    ASSUME NEW f, Sound(f)
    PROVE  /\ Sound(Close(f)) /\ Close(f).mode = "CLOSED" /\ Close(f).fileCounter = f.fileCounter
<1>. DEFINE g == Close(f)
<1>1. Whole(f) /\ FileTypes(f)
  BY DEF Sound, FileTypes
<1>2. /\ Whole(g) /\ g.mode = "CLOSED" /\ g.baseName = f.baseName /\ g.fileCounter = f.fileCounter
      /\ g.name = f.name /\ g.bytesWritten = f.bytesWritten /\ g.offset = f.offset /\ g.disk = f.disk
      /\ g.halted = f.halted /\ g.logged = f.logged /\ g.quiet = f.quiet
  BY <1>1 DEF Close, Whole
<1>. HIDE DEF g
<1>3. FileTypes(g)
  BY <1>1, <1>2 DEF FileTypes
<1>4. ASSUME Kept(f) PROVE Kept(g)
  <2>1. \A parts, i : HoldsPart(f, parts, i) => HoldsPart(g, parts, i)
    BY <1>2 DEF HoldsPart
  <2>2. \A parts : InParts(f, parts) => InParts(g, parts)
    BY <1>2, <2>1, Zenon DEF InParts
  <2>. QED
    BY <1>2, <1>4, <2>2 DEF Kept
<1>. QED
  BY <1>2, <1>3, <1>4 DEF Sound, g

LEMMA OpenKeeps ==
    ASSUME LoggerAssumption, NEW f, Sound(f), f.mode = "CLOSED", NEW g \in Open(f)
    PROVE  /\ Sound(g) /\ g.fileCounter \in {f.fileCounter, f.fileCounter + 1}
           /\ g.halted = f.halted
           /\ g.mode = "OPEN" => g.bytesWritten = 0 /\ (g.quiet => Len(g.disk[g.name]) = 0)
<1>. DEFINE n == FileName(f.baseName, f.fileCounter)
            dk == [x \in DOMAIN f.disk \cup {n} |-> IF x \in DOMAIN f.disk THEN f.disk[x] ELSE <<>>]
<1>1. Whole(f) /\ FileTypes(f)
  BY DEF Sound, FileTypes
<1>2. CASE g = f
  BY <1>1, <1>2 DEF FileTypes
<1>3. ASSUME f.baseName # <<>>, g = [f EXCEPT !.name = n, !.failures = @ + 1] 
      PROVE  Sound(g) /\ g.mode = "CLOSED" /\ g.fileCounter = f.fileCounter /\ g.halted = f.halted
  <2>1. /\ Whole(g) /\ g.mode = "CLOSED" /\ g.baseName = f.baseName /\ g.fileCounter = f.fileCounter
        /\ g.bytesWritten = f.bytesWritten /\ g.offset = f.offset /\ g.disk = f.disk
        /\ g.halted = f.halted /\ g.logged = f.logged /\ g.quiet = f.quiet
    BY <1>1, <1>3 DEF Whole
  <2>2. FileTypes(g)
    BY <1>1, <2>1 DEF FileTypes
  <2>3. ASSUME Kept(f) PROVE Kept(g)
    <3>1. \A parts, i : HoldsPart(f, parts, i) => HoldsPart(g, parts, i)
      BY <2>1 DEF HoldsPart
    <3>2. \A parts : InParts(f, parts) => InParts(g, parts)
      BY <2>1, <3>1, Zenon DEF InParts
    <3>. QED
      BY <2>1, <2>3, <3>2 DEF Kept
  <2>. QED
    BY <2>1, <2>2, <2>3 DEF Sound
<1>4. ASSUME f.baseName # <<>>,
             g = [f EXCEPT !.mode = "OPEN", !.name = n, !.fileCounter = @ + 1,
                           !.bytesWritten = 0, !.offset = 0,
                           !.disk = [x \in DOMAIN @ \cup {n} |->
                                         IF x \in DOMAIN @ THEN @[x] ELSE <<>>],
                           !.quiet = @ /\ n \notin DOMAIN f.disk]
      PROVE  /\ Sound(g) /\ g.fileCounter = f.fileCounter + 1 /\ g.bytesWritten = 0
             /\ g.halted = f.halted /\ (g.quiet => Len(g.disk[g.name]) = 0)
  <2>1. /\ Whole(g) /\ g.mode = "OPEN" /\ g.baseName = f.baseName /\ g.fileCounter = f.fileCounter + 1
        /\ g.name = n /\ g.bytesWritten = 0 /\ g.offset = 0 /\ g.disk = dk
        /\ g.halted = f.halted /\ g.logged = f.logged
    <3>. HIDE DEF n
    <3>. QED
      BY <1>1, <1>4 DEF Whole
  <2>2. g.quiet = (f.quiet /\ n \notin DOMAIN f.disk)
    <3>. HIDE DEF n
    <3>. QED
      BY <1>1, <1>4, Zenon DEF Whole
  <2>. HIDE DEF n
  <2>3. /\ n \in DOMAIN dk /\ DOMAIN f.disk \subseteq DOMAIN dk
        /\ \A x \in DOMAIN f.disk : dk[x] = f.disk[x]
        /\ \A x \in DOMAIN dk : x \in DOMAIN f.disk \/ dk[x] = <<>>
        /\ n \notin DOMAIN f.disk => dk[n] = <<>>
    OBVIOUS
  <2>. HIDE DEF dk
  <2>4. FileTypes(g)
    <3>1. \A x \in DOMAIN g.disk : g.disk[x] \in Seq(LogBytes)
      <4>1. <<>> \in Seq(LogBytes)
        OBVIOUS
      <4>. QED
        BY <1>1, <2>1, <2>3, <4>1, Zenon DEF FileTypes
    <3>2. g.offset <= Len(g.disk[g.name])
      BY <2>1, <2>3, <3>1
    <3>3. g.quiet \in BOOLEAN
      BY <2>2
    <3>. QED
      BY <1>1, <2>1, <2>3, <3>1, <3>2, <3>3 DEF FileTypes
  <2>5. ASSUME Kept(f), g.quiet, sizeOfSize # 0 PROVE Kept(g)
    <3>1. PICK parts \in Seq(Seq(Buffers)) : InParts(f, parts)
      BY <2>5 DEF Kept
    <3>. DEFINE c == f.fileCounter
                more == Append(parts, <<>>)
    <3>2. c \in Nat /\ n \notin DOMAIN f.disk /\ Len(parts) = c /\ FlattenSeq(parts) = f.logged
      BY <1>1, <2>2, <2>5, <3>1 DEF FileTypes, InParts
    <3>3. /\ more \in Seq(Seq(Buffers)) /\ Len(more) = c + 1 /\ more[c + 1] = <<>>
          /\ \A i \in 1 .. c : more[i] = parts[i]
      BY <3>2
    <3>4. FlattenSeq(more) = f.logged
      <4>1. FlattenSeq(parts) \in Seq(Buffers) /\ <<>> \in Seq(Buffers)
        BY FlattenIs
      <4>2. FlattenSeq(more) = FlattenSeq(parts) \o <<>>
        BY <4>1, FlattenAppend
      <4>. QED
        BY <3>2, <4>1, <4>2
    <3>. HIDE DEF more
    <3>5. ASSUME NEW i \in 1 .. c PROVE HoldsPart(g, more, i)
      <4>1. HoldsPart(f, parts, i)
        BY <3>1, <3>2 DEF InParts
      <4>2. FileName(f.baseName, i - 1) \in DOMAIN f.disk
        BY <4>1 DEF HoldsPart
      <4>3. FileName(g.baseName, i - 1) \in DOMAIN g.disk
            /\ g.disk[FileName(g.baseName, i - 1)] = f.disk[FileName(f.baseName, i - 1)]
        BY <2>1, <2>3, <4>2
      <4>. QED
        BY <2>1, <3>3, <4>1, <4>3 DEF HoldsPart
    <3>6. HoldsPart(g, more, c + 1)
      <4>1. FileName(g.baseName, (c + 1) - 1) = n
        <5>1. (c + 1) - 1 = c
          BY <3>2
        <5>. QED
          BY <2>1, <5>1 DEF n
      <4>2. g.disk[n] = <<>> /\ n \in DOMAIN g.disk
        BY <2>1, <2>3, <3>2
      <4>3. ~(Len(<<>>) > maxSize)
        BY DEF LoggerAssumption
      <4>4. Encodes(g.disk[n], more[c + 1])
        BY <3>3, <4>2, NothingEncoded
      <4>. QED
        BY <4>1, <4>2, <4>3, <4>4 DEF HoldsPart
    <3>7. InParts(g, more)
      <4>1. \A i \in 1 .. c + 1 : i \in 1 .. c \/ i = c + 1
        BY <3>2
      <4>. QED
        BY <2>1, <3>3, <3>4, <3>5, <3>6, <4>1 DEF InParts
    <3>8. AtEnd(g)
      <4>1. g.fileCounter # 0 /\ g.fileCounter - 1 = c
        BY <2>1, <3>2
      <4>2. g.disk[n] = <<>>
        BY <2>1, <2>3, <3>2
      <4>3. Len(<<>>) = 0
        OBVIOUS
      <4>. QED
        BY <1>4, <2>1, <4>1, <4>2, <4>3 DEF AtEnd, n
    <3>. QED
      BY <1>4, <2>1, <3>3, <3>7, <3>8 DEF Kept
  <2>6. g.quiet => Len(g.disk[g.name]) = 0
    <3>1. Len(<<>>) = 0
      OBVIOUS
    <3>. QED
      BY <2>1, <2>2, <2>3, <3>1
  <2>7. Sound(g)
    BY <2>1, <2>2, <2>4, <2>5 DEF Sound
  <2>. QED
    BY <2>1, <2>6, <2>7
<1>5. \/ g = f
      \/ f.baseName # <<>> /\ g = [f EXCEPT !.name = n, !.failures = @ + 1]
      \/ /\ f.baseName # <<>>
         /\ g = [f EXCEPT !.mode = "OPEN", !.name = n, !.fileCounter = @ + 1,
                           !.bytesWritten = 0, !.offset = 0,
                           !.disk = [x \in DOMAIN @ \cup {n} |->
                                         IF x \in DOMAIN @ THEN @[x] ELSE <<>>],
                           !.quiet = @ /\ n \notin DOMAIN f.disk]
  BY Zenon DEF Open
<1>6. f.fileCounter \in Nat
  BY <1>1 DEF FileTypes
<1>. HIDE DEF n, dk
<1>. QED
  BY <1>2, <1>3, <1>4, <1>5, <1>6, Zenon

(* writeBytes leaves an open file, and says whether all is written.        *)
OverIs(f, bytes, k) == Over(f.disk[f.name], f.offset, SubSeq(bytes, 1, k))

LEMMA OverType ==
    ASSUME NEW S, NEW c \in Seq(S), NEW begins \in Nat, begins <= Len(c), NEW b \in Seq(S)
    PROVE  Over(c, begins, b) \in Seq(S) /\ begins + Len(b) <= Len(Over(c, begins, b))
<1>. DEFINE x == SubSeq(c, 1, begins)
            y == SubSeq(c, begins + Len(b) + 1, Len(c))
            z == x \o b
<1>1. x \in Seq(S) /\ Len(x) = begins /\ Len(b) \in Nat
  OBVIOUS
<1>2. y \in Seq(S)
  OBVIOUS
<1>. HIDE DEF x, y
<1>3. z \in Seq(S) /\ Len(z) = begins + Len(b)
  BY <1>1, ConcatIs
<1>. HIDE DEF z
<1>4. z \o y \in Seq(S) /\ Len(z \o y) = Len(z) + Len(y) /\ Len(y) \in Nat
  BY <1>2, <1>3, ConcatIs
<1>5. Over(c, begins, b) = z \o y
  BY DEF Over, x, y, z
<1>. QED
  BY <1>1, <1>3, <1>4, <1>5

LEMMA OverEnd ==
    ASSUME NEW S, NEW c \in Seq(S), NEW b \in Seq(S)
    PROVE  Over(c, Len(c), b) = c \o b
<1>1. SubSeq(c, 1, Len(c)) = c /\ SubSeq(c, Len(c) + Len(b) + 1, Len(c)) = <<>>
  OBVIOUS
<1>2. c \o b \in Seq(S)
  BY ConcatIs
<1>3. (c \o b) \o <<>> = c \o b
  <2>. DEFINE e == c \o b
  <2>. HIDE DEF e
  <2>1. e \in Seq(S)
    BY <1>2 DEF e
  <2>2. e \o <<>> = e
    BY <2>1
  <2>. QED
    BY <2>2 DEF e
<1>. QED
  BY <1>1, <1>3 DEF Over

LEMMA WrittenIs ==
    ASSUME NEW f, FileTypes(f), f.mode = "OPEN", NEW bytes \in Seq(LogBytes), NEW k \in 0 .. Len(bytes)
    PROVE  LET g == Written(f, bytes, k)
           IN  /\ FileTypes(g) /\ g.mode = "OPEN" /\ g.baseName = f.baseName
               /\ g.fileCounter = f.fileCounter /\ g.name = f.name /\ g.bytesWritten = f.bytesWritten
               /\ g.offset = f.offset + k /\ g.halted = f.halted /\ g.logged = f.logged
               /\ g.quiet = f.quiet /\ DOMAIN g.disk = DOMAIN f.disk
               /\ g.disk[f.name] = OverIs(f, bytes, k)
               /\ \A x \in DOMAIN f.disk : x # f.name => g.disk[x] = f.disk[x]
<1>. DEFINE g == Written(f, bytes, k)
            d == OverIs(f, bytes, k)
<1>1. f.name \in DOMAIN f.disk /\ f.offset \in Nat /\ f.offset <= Len(f.disk[f.name])
      /\ f.disk[f.name] \in Seq(LogBytes) /\ Whole(f)
  BY DEF FileTypes
<1>2. SubSeq(bytes, 1, k) \in Seq(LogBytes) /\ Len(SubSeq(bytes, 1, k)) = k /\ k \in Nat
  OBVIOUS
<1>3. d \in Seq(LogBytes) /\ f.offset + k <= Len(d)
  <2>. DEFINE b == SubSeq(bytes, 1, k)
              c == f.disk[f.name]
              o == f.offset
  <2>1. b \in Seq(LogBytes) /\ Len(b) = k /\ c \in Seq(LogBytes) /\ o \in Nat /\ o <= Len(c)
    BY <1>1, <1>2
  <2>. HIDE DEF b, c, o
  <2>2. Over(c, o, b) \in Seq(LogBytes) /\ o + Len(b) <= Len(Over(c, o, b))
    BY <2>1, OverType
  <2>. QED
    BY <2>1, <2>2 DEF OverIs, b, c, o
<1>4. g = [f EXCEPT !.disk = [f.disk EXCEPT ![f.name] = d], !.offset = f.offset + k]
  BY DEF Written, OverIs
<1>. HIDE DEF g, d
<1>5. /\ Whole(g) /\ g.mode = "OPEN" /\ g.baseName = f.baseName
      /\ g.fileCounter = f.fileCounter /\ g.name = f.name /\ g.bytesWritten = f.bytesWritten
      /\ g.offset = f.offset + k /\ g.halted = f.halted /\ g.logged = f.logged
      /\ g.quiet = f.quiet /\ g.disk = [f.disk EXCEPT ![f.name] = d]
  BY <1>1, <1>4 DEF Whole
<1>6. /\ DOMAIN g.disk = DOMAIN f.disk /\ g.disk[f.name] = d
      /\ \A x \in DOMAIN f.disk : x # f.name => g.disk[x] = f.disk[x]
  BY <1>1, <1>5
<1>7. FileTypes(g)
  <2>1. \A x \in DOMAIN g.disk : g.disk[x] \in Seq(LogBytes)
    BY <1>3, <1>6 DEF FileTypes
  <2>2. g.offset \in Nat /\ g.offset <= Len(g.disk[g.name])
    BY <1>1, <1>2, <1>3, <1>5, <1>6
  <2>. QED
    BY <1>1, <1>5, <1>6, <2>1, <2>2 DEF FileTypes
<1>. QED
  BY <1>5, <1>6, <1>7 DEF g, d

(* All of the bytes are written, and counted.                              *)
WroteAll(f, bytes, g) ==
    /\ bytes # <<>>
    /\ FileTypes(g) /\ g.mode = "OPEN" /\ g.baseName = f.baseName
    /\ g.fileCounter = f.fileCounter /\ g.name = f.name
    /\ g.bytesWritten = f.bytesWritten + Len(bytes)
    /\ g.offset = f.offset + Len(bytes) /\ g.halted = f.halted /\ g.logged = f.logged
    /\ g.quiet = f.quiet /\ DOMAIN g.disk = DOMAIN f.disk
    /\ g.disk[f.name] = Over(f.disk[f.name], f.offset, bytes)
    /\ \A x \in DOMAIN f.disk : x # f.name => g.disk[x] = f.disk[x]

(* Or not: the write fails, or the assertion does.                         *)
Failed(f, g) ==
    /\ FileTypes(g) /\ g.mode = "OPEN" /\ g.fileCounter = f.fileCounter /\ (g.halted \/ ~g.quiet)

LEMMA WriteBytesIs ==
    ASSUME NEW f, FileTypes(f), f.mode = "OPEN", NEW bytes \in Seq(LogBytes),
           NEW w \in WriteBytes(f, bytes)
    PROVE  (w.ok = TRUE /\ WroteAll(f, bytes, w.f)) \/ (w.ok = FALSE /\ Failed(f, w.f))
<1>. DEFINE n == Len(bytes)
<1>1. n \in Nat /\ Whole(f) /\ f.bytesWritten \in Nat
  BY DEF FileTypes
<1>2. CASE bytes = <<>>
  <2>0. PICK yes : yes = TRUE
    OBVIOUS
  <2>. DEFINE g == [f EXCEPT !.halted = yes]
  <2>1. w = [f |-> g, ok |-> FALSE]
    BY <1>2, <2>0, Zenon DEF WriteBytes
  <2>2. /\ Whole(g) /\ g.mode = f.mode /\ g.baseName = f.baseName
        /\ g.fileCounter = f.fileCounter /\ g.name = f.name /\ g.bytesWritten = f.bytesWritten
        /\ g.offset = f.offset /\ g.logged = f.logged
        /\ g.quiet = f.quiet /\ g.disk = f.disk
    BY <1>1 DEF Whole
  <2>4. g.halted = TRUE
    BY <1>1, <2>0, Zenon DEF Whole
  <2>. HIDE DEF g
  <2>3. FileTypes(g)
    BY <2>2, <2>4 DEF FileTypes
  <2>. QED
    BY <2>1, <2>2, <2>3, <2>4 DEF Failed
<1>3. ASSUME bytes # <<>>,
             w = [f |-> [Written(f, bytes, n) EXCEPT !.bytesWritten = @ + n], ok |-> TRUE]
      PROVE  w.ok = TRUE /\ WroteAll(f, bytes, w.f)
  <2>. DEFINE h == Written(f, bytes, n)
              g == [h EXCEPT !.bytesWritten = @ + n]
  <2>1. /\ FileTypes(h) /\ h.mode = "OPEN" /\ h.baseName = f.baseName
        /\ h.fileCounter = f.fileCounter /\ h.name = f.name /\ h.bytesWritten = f.bytesWritten
        /\ h.offset = f.offset + n /\ h.halted = f.halted /\ h.logged = f.logged
        /\ h.quiet = f.quiet /\ DOMAIN h.disk = DOMAIN f.disk
        /\ h.disk[f.name] = OverIs(f, bytes, n)
        /\ \A x \in DOMAIN f.disk : x # f.name => h.disk[x] = f.disk[x]
    <3>1. n \in 0 .. Len(bytes)
      BY <1>1
    <3>. QED
      BY <3>1, WrittenIs
  <2>2. SubSeq(bytes, 1, n) = bytes
    OBVIOUS
  <2>. HIDE DEF h, n
  <2>3. Whole(h)
    BY <2>1 DEF FileTypes
  <2>4. /\ Whole(g) /\ g.mode = h.mode /\ g.baseName = h.baseName
        /\ g.fileCounter = h.fileCounter /\ g.name = h.name /\ g.bytesWritten = h.bytesWritten + n
        /\ g.offset = h.offset /\ g.halted = h.halted /\ g.logged = h.logged
        /\ g.quiet = h.quiet /\ g.disk = h.disk
    BY <2>3 DEF Whole
  <2>5. w.ok = TRUE /\ w.f = g
    BY <1>3 DEF h
  <2>. HIDE DEF g
  <2>6. FileTypes(g)
    <3>1. g.bytesWritten \in Nat
      BY <1>1, <2>1, <2>4
    <3>. QED
      BY <2>1, <2>4, <3>1 DEF FileTypes
  <2>7. WroteAll(f, bytes, g)
    <3>1. h.disk[f.name] = Over(f.disk[f.name], f.offset, bytes)
      BY <2>1, <2>2 DEF OverIs
    <3>. QED
      BY <1>3, <2>1, <2>4, <2>6, <3>1 DEF WroteAll, n
  <2>. QED
    BY <2>5, <2>7
<1>4. ASSUME NEW k \in 0 .. n - 1,
             w = [f |-> [Written(f, bytes, k) EXCEPT !.failures = @ + 1, !.quiet = FALSE], ok |-> FALSE]
      PROVE  w.ok = FALSE /\ Failed(f, w.f)
  <2>. DEFINE h == Written(f, bytes, k)
  <2>0. PICK no, more : no = FALSE /\ more = h.failures + 1
    OBVIOUS
  <2>. DEFINE g == [h EXCEPT !.failures = more, !.quiet = no]
  <2>1. FileTypes(h) /\ h.mode = "OPEN" /\ h.fileCounter = f.fileCounter
    <3>1. k \in 0 .. Len(bytes)
      BY <1>1
    <3>. QED
      BY <3>1, WrittenIs
  <2>. HIDE DEF h, n
  <2>3. Whole(h)
    BY <2>1 DEF FileTypes
  <2>4. /\ Whole(g) /\ g.mode = h.mode /\ g.baseName = h.baseName
        /\ g.fileCounter = h.fileCounter /\ g.name = h.name /\ g.bytesWritten = h.bytesWritten
        /\ g.offset = h.offset /\ g.halted = h.halted /\ g.logged = h.logged
        /\ g.disk = h.disk
    <3>1. g = [mode |-> h.mode, baseName |-> h.baseName, fileCounter |-> h.fileCounter, name |-> h.name,
               bytesWritten |-> h.bytesWritten, offset |-> h.offset, disk |-> h.disk, halted |-> h.halted,
               failures |-> more, logged |-> h.logged, quiet |-> no]
      <4>. DEFINE e == [h EXCEPT !.failures = more]
      <4>1. e = [mode |-> h.mode, baseName |-> h.baseName, fileCounter |-> h.fileCounter, name |-> h.name,
                 bytesWritten |-> h.bytesWritten, offset |-> h.offset, disk |-> h.disk, halted |-> h.halted,
                 failures |-> more, logged |-> h.logged, quiet |-> h.quiet]
        BY <2>3 DEF Whole
      <4>2. g = [e EXCEPT !.quiet = no]
        OBVIOUS
      <4>. HIDE DEF e, g
      <4>. QED
        BY <4>1, <4>2
    <3>. HIDE DEF g
    <3>. QED
      BY <3>1 DEF Whole
  <2>7. g.quiet = FALSE
    BY <2>0, <2>3, Zenon DEF Whole
  <2>5. w.ok = FALSE /\ w.f = g
    BY <1>4, <2>0, Zenon DEF h
  <2>. HIDE DEF g
  <2>6. FileTypes(g)
    BY <2>1, <2>4, <2>7 DEF FileTypes
  <2>. QED
    BY <2>1, <2>4, <2>5, <2>6, <2>7 DEF Failed
<1>5. bytes # <<>> =>
         \/ w = [f |-> [Written(f, bytes, n) EXCEPT !.bytesWritten = @ + n], ok |-> TRUE]
         \/ \E k \in 0 .. n - 1 :
              w = [f |-> [Written(f, bytes, k) EXCEPT !.failures = @ + 1, !.quiet = FALSE], ok |-> FALSE]
  BY Zenon DEF WriteBytes
<1>. HIDE DEF n
<1>. QED
  BY <1>2, <1>3, <1>4, <1>5, Zenon

(* A buffer that fits, or the first of its file.                           *)
Room(f, d) == f.bytesWritten + sizeOfSize + Len(d) <= maxSize \/ (f.quiet => Len(f.disk[f.name]) = 0)

Logs(v, d, g) ==
    /\ FileTypes(g) /\ g.mode = "OPEN" /\ g.baseName = v.baseName /\ g.fileCounter = v.fileCounter
    /\ g.name = v.name /\ g.bytesWritten = v.bytesWritten /\ g.offset = v.offset
    /\ g.disk = v.disk /\ g.logged = Append(v.logged, d)

LEMMA RecordAdded ==
    ASSUME LoggerAssumption, sizeOfSize # 0, NEW d \in Buffers, SizeFits(Len(d)),
           NEW f, FileTypes(f), f.mode = "OPEN", Kept(f), f.quiet, Room(f, d),
           NEW h, WroteAll(f, SizeBytes(Len(d)), h), NEW v, WroteAll(h, d, v), NEW g, Logs(v, d, g)
    PROVE  Kept(g)
<1>. DEFINE n == f.fileCounter
            named == f.name
            c == f.disk[named]
            z == SizeBytes(Len(d))
            s == sizeOfSize
<1>1. Buffers \subseteq Seq(LogBytes) /\ d \in Seq(LogBytes) /\ Len(d) \in Nat /\ maxSize \in Nat
  BY DEF LoggerAssumption, LogBytes
<1>2. z \in Seq(LogBytes) /\ Len(z) = s /\ s \in Nat \ {0}
  BY <1>1, SizeBytesAre
<1>3. PICK parts \in Seq(Seq(Buffers)) : InParts(f, parts)
  BY DEF Kept
<1>4. /\ n \in Nat \ {0} /\ f.baseName \in BaseNames /\ named = FileName(f.baseName, n - 1)
      /\ f.offset = Len(c) /\ f.bytesWritten = Len(c) /\ named \in DOMAIN f.disk
      /\ c \in Seq(LogBytes) /\ Len(c) \in Nat
  BY DEF Kept, AtEnd, FileTypes
<1>. HIDE DEF c, z, s
<1>5. v.disk[named] = (c \o z) \o d
  <2>1. h.disk[named] = c \o z
    <3>1. h.disk[named] = Over(c, Len(c), z)
      BY <1>4 DEF WroteAll, c, z
    <3>. QED
      BY <1>2, <1>4, <3>1, OverEnd
  <2>. DEFINE e == c \o z
  <2>2. e \in Seq(LogBytes) /\ Len(e) = Len(c) + s
    BY <1>2, <1>4, ConcatIs
  <2>. HIDE DEF e
  <2>3. h.offset = Len(e) /\ h.name = named
    BY <1>2, <1>4, <2>2 DEF WroteAll, z
  <2>4. v.disk[named] = Over(e, Len(e), d)
    BY <2>1, <2>3 DEF WroteAll, e
  <2>5. Over(e, Len(e), d) = e \o d
    BY <1>1, <2>2, OverEnd
  <2>. QED
    BY <2>4, <2>5 DEF e
<1>6. Len((c \o z) \o d) = Len(c) + s + Len(d)
  <2>. DEFINE e == c \o z
  <2>1. e \in Seq(LogBytes) /\ Len(e) = Len(c) + s
    BY <1>2, <1>4, ConcatIs
  <2>. HIDE DEF e
  <2>2. Len(e \o d) = Len(e) + Len(d)
    BY <1>1, <2>1, ConcatIs
  <2>. QED
    BY <2>1, <2>2 DEF e
<1>7. /\ g.baseName = f.baseName /\ g.fileCounter = n /\ g.name = named /\ g.mode = "OPEN"
      /\ g.disk[named] = (c \o z) \o d /\ DOMAIN g.disk = DOMAIN f.disk
      /\ \A x \in DOMAIN f.disk : x # named => g.disk[x] = f.disk[x]
      /\ g.logged = Append(f.logged, d)
      /\ g.offset = Len(c) + s + Len(d) /\ g.bytesWritten = Len(c) + s + Len(d)
  <2>1. /\ h.baseName = f.baseName /\ h.fileCounter = n /\ h.name = named
        /\ DOMAIN h.disk = DOMAIN f.disk /\ \A x \in DOMAIN f.disk : x # named => h.disk[x] = f.disk[x]
        /\ h.logged = f.logged /\ h.offset = Len(c) + s /\ h.bytesWritten = Len(c) + s
    BY <1>2, <1>4 DEF WroteAll, z
  <2>2. /\ v.baseName = f.baseName /\ v.fileCounter = n /\ v.name = named
        /\ DOMAIN v.disk = DOMAIN f.disk /\ \A x \in DOMAIN f.disk : x # named => v.disk[x] = f.disk[x]
        /\ v.logged = f.logged /\ v.offset = Len(c) + s + Len(d)
        /\ v.bytesWritten = Len(c) + s + Len(d)
    BY <2>1 DEF WroteAll
  <2>. QED
    BY <1>5, <2>2 DEF Logs
<1>. DEFINE more == WithLast(parts, d)
<1>8. /\ more \in Seq(Seq(Buffers)) /\ Len(more) = n /\ more[n] = Append(parts[n], d)
      /\ \A i \in 1 .. n - 1 : more[i] = parts[i]
      /\ FlattenSeq(more) = Append(FlattenSeq(parts), d)
  <2>1. Len(parts) = n
    BY <1>3 DEF InParts
  <2>2. /\ more \in Seq(Seq(Buffers)) /\ Len(more) = Len(parts)
        /\ more[Len(parts)] = Append(parts[Len(parts)], d)
        /\ \A i \in 1 .. Len(parts) - 1 : more[i] = parts[i]
        /\ FlattenSeq(more) = Append(FlattenSeq(parts), d)
    <3>1. Len(parts) # 0
      BY <1>4, <2>1
    <3>. QED
      BY <3>1, FlattenLast, Zenon
  <2>. HIDE DEF more, n
  <2>. QED
    BY <2>1, <2>2
<1>. HIDE DEF more
<1>9. ASSUME NEW i \in 1 .. n - 1 PROVE HoldsPart(g, more, i)
  <2>. DEFINE x == FileName(f.baseName, i - 1)
  <2>1. HoldsPart(f, parts, i)
    BY <1>3, <1>4 DEF InParts
  <2>2. x # named
    <3>1. i - 1 \in Nat /\ n - 1 \in Nat /\ i - 1 # n - 1
      BY <1>4
    <3>. QED
      BY <1>4, <3>1, NamesDiffer
  <2>3. x \in DOMAIN f.disk
    BY <2>1 DEF HoldsPart
  <2>4. g.disk[x] = f.disk[x] /\ x = FileName(g.baseName, i - 1) /\ x \in DOMAIN g.disk
    BY <1>7, <2>2, <2>3
  <2>. HIDE DEF x
  <2>. QED
    BY <1>8, <2>1, <2>4 DEF HoldsPart, x
<1>10. HoldsPart(g, more, n)
  <2>1. HoldsPart(f, parts, n)
    BY <1>3, <1>4 DEF InParts
  <2>2. Encodes(c, parts[n])
    BY <1>4, <2>1 DEF HoldsPart, c
  <2>3. parts[n] \in Seq(Buffers) /\ parts[n] \in Seq(Seq(LogBytes))
    <3>1. n \in 1 .. Len(parts)
      BY <1>3, <1>4 DEF InParts
    <3>2. parts[n] \in Seq(Buffers)
      BY <3>1
    <3>. QED
      BY <1>1, <3>2
  <2>4. Encodes((c \o z) \o d, Append(parts[n], d))
    BY <1>1, <1>4, <2>2, <2>3, OneMoreRecord DEF z
  <2>5. Len(c) + s + Len(d) > maxSize => Len(Append(parts[n], d)) = 1
    <3>. SUFFICES ASSUME Len(c) + s + Len(d) > maxSize PROVE Len(Append(parts[n], d)) = 1
      OBVIOUS
    <3>1. Len(c) = 0
      BY <1>1, <1>2, <1>4 DEF Room, c, s
    <3>2. parts[n] = <<>>
      BY <1>2, <1>4, <2>2, <2>3, <3>1, EmptyFile DEF s
    <3>. QED
      BY <3>2
  <2>. QED
    BY <1>4, <1>6, <1>7, <1>8, <2>4, <2>5 DEF HoldsPart
<1>11. InParts(g, more)
  <2>1. \A i \in 1 .. n : i \in 1 .. n - 1 \/ i = n
    BY <1>4
  <2>2. FlattenSeq(parts) = f.logged
    BY <1>3 DEF InParts
  <2>. QED
    BY <1>7, <1>8, <1>9, <1>10, <2>1, <2>2 DEF InParts
<1>12. AtEnd(g)
  <2>1. f.baseName # <<>>
    BY DEF Kept, AtEnd
  <2>. QED
    BY <1>4, <1>6, <1>7, <2>1 DEF AtEnd
<1>. QED
  BY <1>8, <1>11, <1>12 DEF Kept, AtEnd

WithLog(v, l, q) == [v EXCEPT !.logged = l, !.quiet = q]

LEMMA LoggedIs ==
    ASSUME NEW v, FileTypes(v), v.mode = "OPEN", NEW l \in Seq(Buffers), NEW q \in BOOLEAN,
           NEW g, g = WithLog(v, l, q)
    PROVE  /\ FileTypes(g) /\ g.mode = v.mode /\ g.baseName = v.baseName
           /\ g.fileCounter = v.fileCounter /\ g.name = v.name /\ g.bytesWritten = v.bytesWritten
           /\ g.offset = v.offset /\ g.disk = v.disk /\ g.logged = l /\ g.quiet = q
           /\ g.halted = v.halted
<1>1. g = [mode |-> v.mode, baseName |-> v.baseName, fileCounter |-> v.fileCounter, name |-> v.name,
           bytesWritten |-> v.bytesWritten, offset |-> v.offset, disk |-> v.disk, halted |-> v.halted,
           failures |-> v.failures, logged |-> l, quiet |-> q]
  <2>. DEFINE e == [v EXCEPT !.logged = l]
  <2>1. e = [mode |-> v.mode, baseName |-> v.baseName, fileCounter |-> v.fileCounter, name |-> v.name,
             bytesWritten |-> v.bytesWritten, offset |-> v.offset, disk |-> v.disk, halted |-> v.halted,
             failures |-> v.failures, logged |-> l, quiet |-> v.quiet]
    <3>1. Whole(v)
      BY DEF FileTypes
    <3>. QED
      BY <3>1 DEF Whole
  <2>2. g = [e EXCEPT !.quiet = q]
    BY DEF WithLog
  <2>. HIDE DEF e
  <2>. QED
    BY <2>1, <2>2
<1>2. /\ Whole(g) /\ g.mode = v.mode /\ g.baseName = v.baseName
      /\ g.fileCounter = v.fileCounter /\ g.name = v.name /\ g.bytesWritten = v.bytesWritten
      /\ g.offset = v.offset /\ g.disk = v.disk /\ g.logged = l /\ g.quiet = q
      /\ g.halted = v.halted
  BY <1>1 DEF Whole
<1>3. FileTypes(g)
  BY <1>2 DEF FileTypes
<1>. QED
  BY <1>2, <1>3

LEMMA WriteBufferKeeps ==
    ASSUME LoggerAssumption, NEW f, Sound(f), f.mode = "OPEN", NEW d \in Buffers, Room(f, d),
           NEW g \in WriteBuffer(f, d)
    PROVE  Sound(g) /\ g.fileCounter = f.fileCounter
<1>. DEFINE z == SizeBytes(Len(d))
            fits == SizeFits(Len(d))
<1>1. FileTypes(f) /\ d \in Seq(LogBytes) /\ Len(d) \in Nat /\ z \in Seq(LogBytes)
  <2>1. d \in Seq(LogBytes)
    BY DEF LoggerAssumption, LogBytes
  <2>2. Len(d) \in Nat
    BY <2>1
  <2>. QED
    BY <2>1, <2>2, SizeBytesAre DEF Sound
<1>2. PICK w \in WriteBytes(f, z) :
          g \in IF w.ok THEN {[v.f EXCEPT !.logged = IF v.ok THEN Append(@, d) ELSE @,
                                          !.quiet = @ /\ v.ok /\ fits] : v \in WriteBytes(w.f, d)}
                ELSE {w.f}
  BY Zenon DEF WriteBuffer
<1>. HIDE DEF z, fits
<1>3. (w.ok = TRUE /\ WroteAll(f, z, w.f)) \/ (w.ok = FALSE /\ Failed(f, w.f))
  BY <1>1, WriteBytesIs
<1>4. CASE w.ok = FALSE /\ Failed(f, w.f)
  <2>1. g = w.f
    BY <1>2, <1>4
  <2>. QED
    BY <1>4, <2>1 DEF Failed, Sound
<1>5. CASE w.ok = TRUE /\ WroteAll(f, z, w.f)
  <2>. DEFINE h == w.f
  <2>1. PICK v \in WriteBytes(h, d) : g = [v.f EXCEPT !.logged = IF v.ok THEN Append(@, d) ELSE @,
                                                      !.quiet = @ /\ v.ok /\ fits]
    BY <1>2, <1>5, Zenon
  <2>. HIDE DEF h
  <2>2. WroteAll(f, z, h) /\ FileTypes(h) /\ h.mode = "OPEN"
    BY <1>5 DEF WroteAll, h
  <2>3. (v.ok = TRUE /\ WroteAll(h, d, v.f)) \/ (v.ok = FALSE /\ Failed(h, v.f))
    BY <1>1, <2>2, WriteBytesIs
  <2>. DEFINE u == v.f
  <2>4. CASE v.ok = TRUE /\ WroteAll(h, d, u)
    <3>1. PICK q \in BOOLEAN : q = (u.quiet /\ v.ok /\ fits)
      OBVIOUS
    <3>2. g = [u EXCEPT !.logged = Append(u.logged, d), !.quiet = q]
      BY <2>1, <2>4, <3>1, Zenon
    <3>. HIDE DEF u
    <3>3. FileTypes(u) /\ u.mode = "OPEN" /\ u.halted = f.halted /\ u.quiet = f.quiet /\ u.fileCounter = f.fileCounter
      BY <2>2, <2>4 DEF WroteAll
    <3>4. Logs(u, d, g) /\ g.quiet = q /\ g.halted = u.halted
      <4>1. Append(u.logged, d) \in Seq(Buffers)
        BY <3>3 DEF FileTypes
      <4>. DEFINE l == Append(u.logged, d)
      <4>2. l \in Seq(Buffers) /\ g = WithLog(u, l, q)
        BY <3>2, <4>1, Zenon DEF WithLog
      <4>. HIDE DEF l
      <4>3. /\ FileTypes(g) /\ g.mode = u.mode /\ g.baseName = u.baseName
            /\ g.fileCounter = u.fileCounter /\ g.name = u.name /\ g.bytesWritten = u.bytesWritten
            /\ g.offset = u.offset /\ g.disk = u.disk /\ g.logged = l /\ g.quiet = q
            /\ g.halted = u.halted
        BY <3>3, <4>2, LoggedIs
      <4>. QED
        BY <3>3, <4>3 DEF Logs, l
    <3>5. ASSUME g.quiet, ~g.halted, sizeOfSize # 0 PROVE Kept(g)
      <4>1. fits /\ f.quiet /\ ~f.halted
        BY <3>1, <3>3, <3>4, <3>5
      <4>2. Kept(f)
        BY <3>5, <4>1 DEF Sound
      <4>. QED
        BY <1>1, <2>2, <2>4, <3>4, <3>5, <4>1, <4>2, RecordAdded DEF z, fits
    <3>. QED
      BY <3>3, <3>4, <3>5 DEF Sound, Logs
  <2>5. CASE v.ok = FALSE /\ Failed(h, u)
    <3>1. PICK q \in BOOLEAN : q = (u.quiet /\ v.ok /\ fits)
      OBVIOUS
    <3>2. q = FALSE
      BY <2>5, <3>1, Zenon
    <3>3. g = [u EXCEPT !.logged = u.logged, !.quiet = q]
      BY <2>1, <2>5, <3>1, Zenon
    <3>. HIDE DEF u
    <3>4. FileTypes(u) /\ u.mode = "OPEN" /\ u.fileCounter = f.fileCounter
      BY <2>2, <2>5 DEF WroteAll, Failed
    <3>6. FileTypes(g) /\ g.fileCounter = u.fileCounter /\ g.quiet = FALSE
      <4>. DEFINE l == u.logged
      <4>0. l \in Seq(Buffers)
        BY <3>4 DEF FileTypes
      <4>1. l \in Seq(Buffers) /\ g = WithLog(u, l, q)
        BY <3>3, <4>0, Zenon DEF WithLog
      <4>. HIDE DEF l
      <4>2. FileTypes(g) /\ g.fileCounter = u.fileCounter /\ g.quiet = q
        BY <3>4, <4>1, LoggedIs
      <4>. QED
        BY <3>2, <4>2, Zenon
    <3>. QED
      BY <3>4, <3>6 DEF Sound
  <2>. QED
    BY <2>3, <2>4, <2>5
<1>. QED
  BY <1>3, <1>4, <1>5

LEMMA LogBufferKeeps ==
    ASSUME LoggerAssumption, NEW f, Sound(f), NEW d \in Buffers, NEW g \in LogBuffer(f, d)
    PROVE  Sound(g) /\ g.fileCounter \in {f.fileCounter, f.fileCounter + 1}
<1>. DEFINE e == CloseIfFull(f, Len(d))
<1>1. /\ f.fileCounter \in Nat /\ f.bytesWritten \in Nat /\ f.mode \in {"OPEN", "CLOSED"}
      /\ Len(d) \in Nat /\ sizeOfSize \in Nat /\ maxSize \in Nat
  <2>1. d \in Seq(LogBytes)
    BY DEF LoggerAssumption, LogBytes
  <2>2. Len(d) \in Nat
    BY <2>1
  <2>. QED
    BY <2>2 DEF Sound, FileTypes, LoggerAssumption
<1>2. /\ Sound(e) /\ e.fileCounter = f.fileCounter /\ e.mode \in {"OPEN", "CLOSED"}
      /\ e.mode = "OPEN" => e.bytesWritten + sizeOfSize + Len(d) <= maxSize
  <2>1. CASE f.mode = "OPEN" /\ f.bytesWritten + sizeOfSize + Len(d) > maxSize
    <3>1. e = Close(f)
      BY <2>1 DEF CloseIfFull
    <3>. QED
      BY <3>1, CloseKeeps
  <2>2. CASE ~(f.mode = "OPEN" /\ f.bytesWritten + sizeOfSize + Len(d) > maxSize)
    <3>1. e = f
      BY <2>2 DEF CloseIfFull
    <3>. QED
      BY <1>1, <2>2, <3>1
  <2>. QED
    BY <2>1, <2>2
<1>3. PICK h \in OpenIfClosed(e) : g \in IF h.mode = "OPEN" THEN WriteBuffer(h, d) ELSE {h}
  BY Zenon DEF LogBuffer
<1>. HIDE DEF e
<1>4. Sound(h) /\ h.fileCounter \in {f.fileCounter, f.fileCounter + 1} /\ (h.mode = "OPEN" => Room(h, d))
  <2>1. CASE e.mode = "OPEN"
    <3>1. h = e
      BY <2>1 DEF OpenIfClosed
    <3>. QED
      BY <1>2, <2>1, <3>1 DEF Room
  <2>2. CASE e.mode = "CLOSED"
    <3>1. h \in Open(e)
      BY <2>2 DEF OpenIfClosed
    <3>. QED
      BY <1>2, <2>2, <3>1, OpenKeeps DEF Room
  <2>. QED
    BY <1>2, <2>1, <2>2
<1>5. CASE h.mode = "OPEN"
  BY <1>3, <1>4, <1>5, WriteBufferKeeps
<1>6. CASE h.mode # "OPEN"
  BY <1>3, <1>4, <1>6
<1>. QED
  BY <1>5, <1>6

-----------------------------------------------------------------------------
(* The file stays sound, and no file is opened but by a buffer or command. *)
LogInv ==
    /\ m_state \in BOOLEAN /\ Sound(File)
    /\ logs \in 0 .. MaxLogs /\ commands \in 0 .. MaxCommands
    /\ fileCounter <= logs + commands

LEMMA FileIs ==
    /\ File.mode = mode /\ File.baseName = baseName /\ File.fileCounter = fileCounter
    /\ File.name = logName /\ File.bytesWritten = bytesWritten /\ File.offset = offset
    /\ File.disk = logFiles /\ File.halted = logHalted /\ File.logged = logged /\ File.quiet = quiet
    /\ Whole(File)
  BY DEF File, Whole

LEMMA BecomesIs ==
    ASSUME NEW f, Sound(f), Becomes(f) PROVE Sound(File)' /\ fileCounter' = f.fileCounter
<1>1. Whole(f) /\ f.fileCounter \in Nat
  BY DEF Sound, FileTypes
<1>2. File' = [mode |-> f.mode, baseName |-> f.baseName, fileCounter |-> f.fileCounter, name |-> f.name,
               bytesWritten |-> f.bytesWritten, offset |-> f.offset, disk |-> f.disk, halted |-> f.halted,
               failures |-> f.failures, logged |-> f.logged, quiet |-> f.quiet]
  BY DEF Becomes, File
<1>3. File' = f
  BY <1>1, <1>2, Zenon DEF Whole
<1>4. Sound(File')
  BY <1>3
<1>. QED
  BY <1>4 DEF Becomes

LEMMA NothingLogged == ASSUME NEW S PROVE <<>> \in Seq(Seq(S)) /\ FlattenSeq(<<>>) = <<>>
<1>1. <<>> \in Seq(Seq(S)) /\ Len(<<>>) = 0
  OBVIOUS
<1>. QED
  BY <1>1, FlattenIs

LEMMA SetBaseName ==
    ASSUME LoggerAssumption, NEW f, FileTypes(f), f.mode = "CLOSED", NEW base \in BaseNames
    PROVE  LET e == [f EXCEPT !.baseName = base, !.fileCounter = 0, !.logged = <<>>, !.quiet = TRUE]
           IN  Sound(e) /\ e.mode = "CLOSED" /\ e.fileCounter = 0
<1>0. PICK yes : yes = TRUE
  OBVIOUS
<1>. DEFINE e == [f EXCEPT !.baseName = base, !.fileCounter = 0, !.logged = <<>>, !.quiet = yes]
            g == [f EXCEPT !.baseName = base, !.fileCounter = 0, !.logged = <<>>]
<1>1. Whole(f)
  BY DEF FileTypes
<1>2. g = [mode |-> f.mode, baseName |-> base, fileCounter |-> 0, name |-> f.name,
           bytesWritten |-> f.bytesWritten, offset |-> f.offset, disk |-> f.disk, halted |-> f.halted,
           failures |-> f.failures, logged |-> <<>>, quiet |-> f.quiet]
  <2>. DEFINE b == [f EXCEPT !.baseName = base, !.fileCounter = 0]
  <2>1. b = [mode |-> f.mode, baseName |-> base, fileCounter |-> 0, name |-> f.name,
             bytesWritten |-> f.bytesWritten, offset |-> f.offset, disk |-> f.disk, halted |-> f.halted,
             failures |-> f.failures, logged |-> f.logged, quiet |-> f.quiet]
    <3>. DEFINE a == [f EXCEPT !.baseName = base]
    <3>1. a = [mode |-> f.mode, baseName |-> base, fileCounter |-> f.fileCounter, name |-> f.name,
               bytesWritten |-> f.bytesWritten, offset |-> f.offset, disk |-> f.disk, halted |-> f.halted,
               failures |-> f.failures, logged |-> f.logged, quiet |-> f.quiet]
      BY <1>1 DEF Whole
    <3>2. b = [a EXCEPT !.fileCounter = 0]
      OBVIOUS
    <3>. HIDE DEF a, b
    <3>. QED
      BY <3>1, <3>2
  <2>2. g = [b EXCEPT !.logged = <<>>]
    OBVIOUS
  <2>. HIDE DEF b, g
  <2>. QED
    BY <2>1, <2>2
<1>3. e = [g EXCEPT !.quiet = yes]
  OBVIOUS
<1>4. e = [f EXCEPT !.baseName = base, !.fileCounter = 0, !.logged = <<>>, !.quiet = TRUE]
  BY <1>0, Zenon
<1>. HIDE DEF e, g
<1>5. e = [mode |-> f.mode, baseName |-> base, fileCounter |-> 0, name |-> f.name,
           bytesWritten |-> f.bytesWritten, offset |-> f.offset, disk |-> f.disk, halted |-> f.halted,
           failures |-> f.failures, logged |-> <<>>, quiet |-> yes]
  BY <1>2, <1>3
<1>6. /\ Whole(e) /\ e.mode = "CLOSED" /\ e.baseName = base /\ e.fileCounter = 0
      /\ e.name = f.name /\ e.bytesWritten = f.bytesWritten /\ e.offset = f.offset /\ e.disk = f.disk
      /\ e.halted = f.halted /\ e.logged = <<>> /\ e.quiet = yes
  BY <1>5 DEF Whole
<1>7. FileTypes(e)
  <2>1. yes \in BOOLEAN /\ <<>> \in Seq(Buffers)
    BY <1>0
  <2>. QED
    BY <1>6, <2>1 DEF FileTypes
<1>8. Kept(e)
  <2>1. InParts(e, <<>>)
    <3>1. Len(<<>>) = 0 /\ \A i : i \notin 1 .. 0
      OBVIOUS
    <3>2. FlattenSeq(<<>>) = <<>>
      BY NothingLogged
    <3>. QED
      BY <1>6, <3>1, <3>2 DEF InParts
  <2>2. <<>> \in Seq(Seq(Buffers))
    BY NothingLogged
  <2>. QED
    BY <1>6, <2>1, <2>2 DEF Kept
<1>9. Sound(e)
  BY <1>7, <1>8 DEF Sound
<1>. QED
  BY <1>4, <1>6, <1>9, Zenon

LEMMA LogInitHolds == ASSUME LoggerAssumption, LogInit PROVE LogInv
<1>1. FileTypes(File)
  <2>1. <<>> \in Seq(Buffers) /\ DOMAIN NoFiles = {}
    BY DEF NoFiles
  <2>2. File.halted \in BOOLEAN /\ File.quiet \in BOOLEAN
    BY FileIs, Zenon DEF LogInit
  <2>3. /\ File.mode = "CLOSED" /\ File.baseName = <<>> /\ File.fileCounter = 0
        /\ File.bytesWritten = 0 /\ File.offset = 0 /\ File.disk = NoFiles /\ File.logged = <<>>
    BY FileIs, Zenon DEF LogInit
  <2>. QED
    BY <2>1, <2>2, <2>3, FileIs DEF FileTypes
<1>2. Kept(File)
  <2>1. InParts(File, <<>>)
    <3>1. Len(<<>>) = 0 /\ \A i : i \notin 1 .. 0
      OBVIOUS
    <3>2. FlattenSeq(<<>>) = <<>>
      BY NothingLogged
    <3>. QED
      BY <3>1, <3>2, FileIs DEF InParts, LogInit
  <2>2. <<>> \in Seq(Seq(Buffers))
    BY NothingLogged
  <2>. QED
    BY <2>1, <2>2, FileIs DEF Kept, LogInit
<1>. QED
  BY <1>1, <1>2 DEF LogInv, Sound, LogInit, LoggerAssumption

LEMMA LogStep == ASSUME LoggerAssumption, LogInv, [LogNext]_logVars PROVE LogInv'
<1>. DEFINE Grown(k) == Sound(File)' /\ fileCounter' \in Nat /\ fileCounter' <= fileCounter + k
<1>0. /\ fileCounter \in Nat /\ logs \in 0 .. MaxLogs /\ commands \in 0 .. MaxCommands
      /\ MaxLogs \in Nat /\ MaxCommands \in Nat /\ fileCounter <= logs + commands
      /\ Sound(File) /\ m_state \in BOOLEAN
  BY FileIs DEF LogInv, Sound, FileTypes, LoggerAssumption
<1>1. ASSUME NEW f, Sound(f), Becomes(f), NEW k \in {0, 1}, f.fileCounter <= fileCounter + k
      PROVE  Grown(k)
  <2>1. f.fileCounter \in Nat
    BY <1>1 DEF Sound, FileTypes
  <2>. QED
    BY <1>1, <2>1, BecomesIs
<1>2. ASSUME UNCHANGED fileVars PROVE Grown(0)
  <2>1. Becomes(File)
    BY <1>2 DEF fileVars, Becomes, File
  <2>. QED
    BY <1>0, <1>1, <2>1, FileIs
<1>3. ASSUME NEW d \in Buffers, BufferIn(d) PROVE LogInv'
  <2>1. logs < MaxLogs /\ logs' = logs + 1 /\ UNCHANGED <<m_state, commands>>
    BY <1>3 DEF BufferIn
  <2>2. Grown(1)
    <3>1. CASE m_state
      <4>1. PICK f \in LogBuffer(File, d) : Becomes(f)
        BY <1>3, <3>1 DEF BufferIn
      <4>2. Sound(f) /\ f.fileCounter \in {fileCounter, fileCounter + 1}
        BY <1>0, LogBufferKeeps, FileIs
      <4>. QED
        BY <1>0, <1>1, <4>1, <4>2
    <3>2. CASE ~m_state
      <4>1. UNCHANGED fileVars
        BY <1>3, <3>2 DEF BufferIn
      <4>. QED
        BY <1>0, <1>2, <4>1
    <3>. QED
      BY <3>1, <3>2
  <2>. QED
    BY <1>0, <2>1, <2>2 DEF LogInv
<1>4. ASSUME Command PROVE LogInv'
  <2>1. commands < MaxCommands /\ commands' = commands + 1 /\ UNCHANGED logs
    BY <1>4 DEF Command
  <2>2. Sound(Close(File)) /\ Close(File).mode = "CLOSED" /\ Close(File).fileCounter = fileCounter
    BY <1>0, CloseKeeps, FileIs
  <2>3. ASSUME NEW base \in BaseNames, BL_OpenFile(base) PROVE Grown(1) /\ m_state' \in BOOLEAN
    <3>. DEFINE e == [Close(File) EXCEPT !.baseName = base, !.fileCounter = 0, !.logged = <<>>, !.quiet = TRUE]
    <3>1. PICK f \in Open(e) : Becomes(f)
      BY <2>3, Zenon DEF BL_OpenFile
    <3>2. Sound(e) /\ e.mode = "CLOSED" /\ e.fileCounter = 0
      <4>1. FileTypes(Close(File))
        BY <2>2 DEF Sound
      <4>. QED
        BY <2>2, <4>1, SetBaseName, Zenon
    <3>. HIDE DEF e
    <3>3. Sound(f) /\ f.fileCounter \in {0, 1}
      BY <3>2, OpenKeeps
    <3>. QED
      BY <1>0, <1>1, <2>3, <3>1, <3>3 DEF BL_OpenFile
  <2>4. ASSUME BL_CloseFile PROVE Grown(1) /\ m_state' \in BOOLEAN
    <3>1. Becomes(Close(File)) /\ UNCHANGED m_state
      BY <2>4 DEF BL_CloseFile
    <3>. QED
      BY <1>0, <1>1, <2>2, <3>1
  <2>5. ASSUME NEW on \in BOOLEAN, BL_SetLogging(on) PROVE Grown(1) /\ m_state' \in BOOLEAN
    <3>1. m_state' = on /\ (Becomes(File) \/ Becomes(Close(File)))
      BY <2>5 DEF BL_SetLogging
    <3>. QED
      BY <1>0, <1>1, <2>2, <3>1, FileIs
  <2>6. Grown(1) /\ m_state' \in BOOLEAN
    BY <1>4, <2>3, <2>4, <2>5, Zenon DEF Command
  <2>. QED
    BY <1>0, <2>1, <2>6 DEF LogInv
<1>5. CASE UNCHANGED logVars
  <2>1. Grown(0)
    BY <1>2, <1>5 DEF logVars
  <2>. QED
    BY <1>0, <1>5, <2>1 DEF LogInv, logVars
<1>. QED
  BY <1>3, <1>4, <1>5 DEF LogNext

LEMMA LogIsSound == ASSUME LoggerAssumption, LogInv PROVE LogReadsBack
<1>1. /\ FileTypes(File) /\ m_state \in BOOLEAN /\ sizeOfSize \in Nat
      /\ fileCounter \in 0 .. MaxLogs + MaxCommands
  <2>1. /\ logs \in 0 .. MaxLogs /\ commands \in 0 .. MaxCommands /\ fileCounter <= logs + commands
        /\ MaxLogs \in Nat /\ MaxCommands \in Nat /\ fileCounter \in Nat
    BY FileIs DEF LogInv, Sound, FileTypes, LoggerAssumption
  <2>. QED
    BY <2>1 DEF LogInv, Sound, LoggerAssumption
<1>2. LogTypeOK
  BY <1>1, FileIs DEF LogTypeOK, FileTypes, LogBytes
<1>. DEFINE files == [i \in 1 .. fileCounter |-> Records(logFiles[FileName(baseName, i - 1)])]
<1>3. ASSUME quiet, sizeOfSize > 0, ~logHalted
      PROVE  /\ FlattenSeq(files) = logged
             /\ \A i \in DOMAIN files :
                   Len(logFiles[FileName(baseName, i - 1)]) > maxSize => Len(files[i]) = 1
  <2>1. sizeOfSize # 0
    BY <1>1, <1>3
  <2>2. Kept(File)
    BY <1>3, <2>1, FileIs DEF LogInv, Sound
  <2>3. PICK parts \in Seq(Seq(Buffers)) : InParts(File, parts)
    BY <2>2 DEF Kept
  <2>4. Len(parts) = fileCounter /\ FlattenSeq(parts) = logged
    BY <2>3, FileIs DEF InParts
  <2>5. ASSUME NEW i \in 1 .. fileCounter
        PROVE  files[i] = parts[i] /\ (Len(logFiles[FileName(baseName, i - 1)]) > maxSize => Len(parts[i]) = 1)
    <3>. DEFINE n == FileName(baseName, i - 1)
    <3>1. HoldsPart(File, parts, i)
      BY <2>3, FileIs DEF InParts
    <3>2. /\ n \in DOMAIN logFiles /\ Encodes(logFiles[n], parts[i])
          /\ Len(logFiles[n]) > maxSize => Len(parts[i]) = 1
      BY <3>1, FileIs DEF HoldsPart
    <3>3. logFiles[n] \in Seq(LogBytes) /\ parts[i] \in Seq(Seq(LogBytes))
      <4>1. parts[i] \in Seq(Buffers)
        BY <2>4
      <4>2. Buffers \subseteq Seq(LogBytes)
        BY DEF LoggerAssumption, LogBytes
      <4>. QED
        BY <1>1, <3>2, <4>1, <4>2, FileIs DEF FileTypes
    <3>4. Records(logFiles[n]) = parts[i]
      BY <2>1, <3>2, <3>3, ReadsBack
    <3>. QED
      BY <3>2, <3>4
  <2>6. files = parts
    <3>1. parts = [i \in 1 .. fileCounter |-> parts[i]]
      BY <2>4
    <3>. QED
      BY <2>5, <3>1, Zenon
  <2>7. DOMAIN files = 1 .. fileCounter
    OBVIOUS
  <2>. HIDE DEF files
  <2>. QED
    BY <2>4, <2>5, <2>6, <2>7
<1>. HIDE DEF files
<1>. QED
  BY <1>2, <1>3 DEF LogReadsBack, files

LEMMA LogInvHolds == ASSUME LoggerAssumption PROVE LogSpec => []LogInv
<1>1. LogInit => LogInv
  BY LogInitHolds
<1>2. LogInv /\ [LogNext]_logVars => LogInv'
  BY LogStep
<1>. QED
  BY <1>1, <1>2, PTL DEF LogSpec

(* The buffer log reads back: for any buffers, base names, size field and  *)
(* size of file, a reader of the files of the base name gets the buffers   *)
(* that were logged since it was set, whole and in order, unless a write   *)
(* failed, a buffer was too long for its size field or a file was there    *)
(* already; and a file of more than maxSize bytes holds one buffer.        *)
THEOREM LogIsReadBack == ASSUME LoggerAssumption PROVE LogSpec => []LogReadsBack
<1>1. LogInv => LogReadsBack
  BY LogIsSound
<1>. QED
  BY <1>1, LogInvHolds, PTL

-----------------------------------------------------------------------------
(* The parameter database.                                                 *)
Entries == [used : BOOLEAN, id : Params \cup {0}, val : Seq(FileCells)]
Dbs     == [1 .. NumEntries -> Entries]

(* The writes of the first entries, and the cells they leave.              *)
FirstWrites(db, e) == [x \in 1 .. e |-> IF db[x].used THEN Record(db[x]) ELSE <<>>]
FirstCells(db, e)  == FlattenSeq(FlattenSeq(FirstWrites(db, e)))
CellsOf(db)        == FirstCells(db, NumEntries)

(* The cells of one record, at a place in a sequence of cells.             *)
RecordStands(cells, p, item) ==
    /\ p + 2 + Len(item.val) <= Len(cells)
    /\ cells[p] = <<"delim", 0>> /\ cells[p + 1] = <<"size", Len(item.val)>> /\ cells[p + 2] = <<"id", item.id>>
    /\ \A i \in 1 .. Len(item.val) : cells[p + 2 + i] = item.val[i]

(* The fields of an entry, and the cells of its record.                    *)
LEMMA EntryTypes ==
    ASSUME NEW item \in Entries
    PROVE  /\ item.used \in BOOLEAN /\ item.id \in Params \cup {0} /\ item.val \in Seq(FileCells)
           /\ Len(item.val) \in Nat
           /\ <<"delim", 0>> \in FileCells /\ <<"size", Len(item.val)>> \in FileCells
           /\ <<"id", item.id>> \in FileCells
<1>1. item.used \in BOOLEAN /\ item.id \in Params \cup {0} /\ item.val \in Seq(FileCells)
  BY DEF Entries
<1>2. Len(item.val) \in Nat
  BY <1>1
<1>. QED
  BY <1>1, <1>2 DEF FileCells

(* The four writes of a record, and the cells that they leave together.    *)
LEMMA RecordIs ==
    ASSUME NEW item \in Entries
    PROVE  /\ Record(item) \in Seq(Seq(FileCells)) /\ Len(Record(item)) = 4 /\ Record(item)[4] = item.val
           /\ FlattenSeq(Record(item)) \in Seq(FileCells)
           /\ Len(FlattenSeq(Record(item))) = 3 + Len(item.val)
           /\ RecordStands(FlattenSeq(Record(item)), 1, item)
<1>. DEFINE v == item.val
            a == << <<"delim", 0>> >>
            b == << <<"size", Len(v)>> >>
            c == << <<"id", item.id>> >>
            F(ss) == FlattenSeq(ss)
<1>1. v \in Seq(FileCells) /\ a \in Seq(FileCells) /\ b \in Seq(FileCells) /\ c \in Seq(FileCells)
  BY EntryTypes
<1>2. Record(item) = <<a, b, c, v>>
  BY DEF Record
<1>. DEFINE abc == a \o b \o c
<1>3. /\ abc \in Seq(FileCells) /\ Len(abc) = 3
      /\ abc[1] = <<"delim", 0>> /\ abc[2] = <<"size", Len(v)>> /\ abc[3] = <<"id", item.id>>
  <2>. DEFINE x == <<"delim", 0>>
              y == <<"size", Len(v)>>
              z == <<"id", item.id>>
  <2>1. x \in FileCells /\ y \in FileCells /\ z \in FileCells
    BY EntryTypes
  <2>. HIDE DEF x, y, z
  <2>. DEFINE r == (<<x>> \o <<y>>) \o <<z>>
  <2>2. r \in Seq(FileCells) /\ Len(r) = 3 /\ r[1] = x /\ r[2] = y /\ r[3] = z
    BY <2>1, ThreeInARow
  <2>4. abc = r
    BY DEF x, y, z
  <2>. HIDE DEF abc, r
  <2>5. abc \in Seq(FileCells) /\ Len(abc) = 3 /\ abc[1] = x /\ abc[2] = y /\ abc[3] = z
    BY <2>2, <2>4
  <2>. QED
    BY <2>5 DEF x, y, z
<1>4. F(<<a, b, c, v>>) = abc \o v
  <2>. HIDE DEF a, b, c, v
  <2>1. /\ <<>> \in Seq(Seq(FileCells)) /\ <<a>> \in Seq(Seq(FileCells)) /\ <<a, b>> \in Seq(Seq(FileCells))
        /\ <<a, b, c>> \in Seq(Seq(FileCells))
    BY <1>1
  <2>2. F(<<>>) = <<>>
    <3>1. Len(<<>>) = 0
      OBVIOUS
    <3>2. FlattenSeq(<<>>) = <<>>
      BY <2>1, <3>1, FlattenIs
    <3>. QED
      BY <3>2
  <2>3. /\ <<a>> = Append(<<>>, a) /\ <<a, b>> = Append(<<a>>, b) /\ <<a, b, c>> = Append(<<a, b>>, c)
        /\ <<a, b, c, v>> = Append(<<a, b, c>>, v)
    BY <1>1
  <2>4. F(<<a>>) = <<>> \o a
    BY <1>1, <2>1, <2>2, <2>3, FlattenAppend
  <2>5. F(<<a, b>>) = F(<<a>>) \o b
    BY <1>1, <2>1, <2>3, FlattenAppend
  <2>6. F(<<a, b, c>>) = F(<<a, b>>) \o c
    BY <1>1, <2>1, <2>3, FlattenAppend
  <2>7. F(<<a, b, c, v>>) = F(<<a, b, c>>) \o v
    BY <1>1, <2>1, <2>3, FlattenAppend
  <2>8. <<>> \o a = a
    BY <1>1
  <2>. QED
    BY <2>4, <2>5, <2>6, <2>7, <2>8
<1>. HIDE DEF abc
<1>5. /\ abc \o v \in Seq(FileCells) /\ Len(abc \o v) = 3 + Len(v)
      /\ \A i \in 1 .. 3 : (abc \o v)[i] = abc[i]
      /\ \A i \in 4 .. 3 + Len(v) : (abc \o v)[i] = v[i - 3]
  <2>1. abc \in Seq(FileCells) /\ Len(abc) = 3 /\ v \in Seq(FileCells) /\ Len(v) \in Nat
    BY <1>1, <1>3
  <2>. HIDE DEF v
  <2>2. /\ abc \o v \in Seq(FileCells) /\ Len(abc \o v) = Len(abc) + Len(v)
        /\ \A i \in 1 .. Len(abc) : (abc \o v)[i] = abc[i]
        /\ \A i \in Len(abc) + 1 .. Len(abc) + Len(v) : (abc \o v)[i] = v[i - Len(abc)]
    BY <2>1, ConcatIs
  <2>3. /\ Len(abc) = 3 /\ 3 + 1 = 4
    BY <2>1
  <2>. QED
    BY <2>2, <2>3
<1>6. RecordStands(abc \o v, 1, item)
  <2>1. Len(v) \in Nat
    BY <1>1
  <2>2. ASSUME NEW i \in 1 .. Len(v) PROVE (abc \o v)[1 + 2 + i] = v[i]
    <3>1. 1 + 2 + i \in 4 .. 3 + Len(v) /\ (1 + 2 + i) - 3 = i
      BY <2>1
    <3>. QED
      BY <1>5, <3>1
  <2>3. /\ (abc \o v)[1] = abc[1] /\ (abc \o v)[1 + 1] = abc[2] /\ (abc \o v)[1 + 2] = abc[3]
        /\ 1 + 2 + Len(v) <= Len(abc \o v)
    BY <1>5, <2>1
  <2>. QED
    BY <1>3, <2>2, <2>3 DEF RecordStands
<1>7. Record(item) \in Seq(Seq(FileCells)) /\ Len(Record(item)) = 4 /\ Record(item)[4] = v
  <2>. HIDE DEF a, b, c, v
  <2>. QED
    BY <1>1, <1>2
<1>. QED
  BY <1>2, <1>4, <1>5, <1>6, <1>7

(* What one entry adds to the writes, and to the cells.                    *)
LEMMA FirstIs ==
    ASSUME PrmAssumption, NEW db \in Dbs
    PROVE  /\ \A e \in 0 .. NumEntries :
                 /\ FlattenSeq(FirstWrites(db, e)) \in Seq(Seq(FileCells))
                 /\ FirstCells(db, e) \in Seq(FileCells) /\ Len(FirstCells(db, e)) \in Nat
           /\ FirstCells(db, 0) = <<>>
           /\ \A e \in 1 .. NumEntries :
                 LET pieces == IF db[e].used THEN Record(db[e]) ELSE <<>>
                 IN  /\ pieces \in Seq(Seq(FileCells))
                     /\ FlattenSeq(FirstWrites(db, e)) = FlattenSeq(FirstWrites(db, e - 1)) \o pieces
                     /\ FirstCells(db, e) = FirstCells(db, e - 1) \o FlattenSeq(pieces)
           /\ Image(db) = FlattenSeq(FirstWrites(db, NumEntries))
<1>. DEFINE W(e) == IF db[e].used THEN Record(db[e]) ELSE <<>>
<1>1. NumEntries \in Nat \ {0}
  BY DEF PrmAssumption
<1>2. ASSUME NEW e \in 1 .. NumEntries PROVE W(e) \in Seq(Seq(FileCells))
  <2>1. db[e] \in Entries
    BY DEF Dbs
  <2>2. Record(db[e]) \in Seq(Seq(FileCells))
    BY <2>1, RecordIs
  <2>3. <<>> \in Seq(Seq(FileCells))
    OBVIOUS
  <2>. QED
    BY <2>2, <2>3
<1>3. \A e \in 0 .. NumEntries : FirstWrites(db, e) = [x \in 1 .. e |-> W(x)]
  BY DEF FirstWrites
<1>. HIDE DEF W
<1>4. ASSUME NEW e \in 0 .. NumEntries
      PROVE  FirstWrites(db, e) \in Seq(Seq(Seq(FileCells))) /\ Len(FirstWrites(db, e)) = e
  <2>1. \A x \in 1 .. e : W(x) \in Seq(Seq(FileCells))
    BY <1>1, <1>2
  <2>. QED
    BY <1>1, <1>3, <2>1
<1>5. ASSUME NEW e \in 0 .. NumEntries
      PROVE  /\ FlattenSeq(FirstWrites(db, e)) \in Seq(Seq(FileCells))
             /\ FirstCells(db, e) \in Seq(FileCells) /\ Len(FirstCells(db, e)) \in Nat
  <2>1. FlattenSeq(FirstWrites(db, e)) \in Seq(Seq(FileCells))
    BY <1>4, FlattenIs
  <2>2. FirstCells(db, e) \in Seq(FileCells)
    BY <2>1, FlattenIs DEF FirstCells
  <2>3. Len(FirstCells(db, e)) \in Nat
    BY <2>2
  <2>. QED
    BY <2>1, <2>2, <2>3
<1>6. FirstCells(db, 0) = <<>>
  <2>1. 0 \in 0 .. NumEntries
    BY <1>1
  <2>2. FlattenSeq(FirstWrites(db, 0)) = <<>>
    BY <1>4, <2>1, FlattenIs
  <2>3. <<>> \in Seq(Seq(FileCells)) /\ Len(<<>>) = 0
    OBVIOUS
  <2>4. FlattenSeq(<<>>) = <<>>
    BY <2>3, FlattenIs
  <2>. QED
    BY <2>2, <2>4 DEF FirstCells
<1>7. ASSUME NEW e \in 1 .. NumEntries
      PROVE  /\ FlattenSeq(FirstWrites(db, e)) = FlattenSeq(FirstWrites(db, e - 1)) \o W(e)
             /\ FirstCells(db, e) = FirstCells(db, e - 1) \o FlattenSeq(W(e))
  <2>1. e - 1 \in 0 .. NumEntries /\ e \in 0 .. NumEntries
    BY <1>1
  <2>2. FirstWrites(db, e) = Append(FirstWrites(db, e - 1), W(e))
    <3>. DEFINE a == FirstWrites(db, e)
                b == Append(FirstWrites(db, e - 1), W(e))
    <3>1. /\ b \in Seq(Seq(Seq(FileCells))) /\ Len(b) = e /\ b[e] = W(e)
          /\ \A x \in 1 .. e - 1 : b[x] = FirstWrites(db, e - 1)[x]
      <4>. DEFINE f == FirstWrites(db, e - 1)
      <4>1. f \in Seq(Seq(Seq(FileCells))) /\ Len(f) = e - 1 /\ W(e) \in Seq(Seq(FileCells))
        BY <1>2, <1>4, <2>1
      <4>. HIDE DEF f
      <4>2. (e - 1) + 1 = e
        BY <1>1
      <4>3. Append(f, W(e)) \in Seq(Seq(Seq(FileCells))) /\ Len(Append(f, W(e))) = (e - 1) + 1
        BY <4>1
      <4>4. Append(f, W(e))[e] = W(e) /\ \A x \in 1 .. e - 1 : Append(f, W(e))[x] = f[x]
        BY <4>1, <4>2
      <4>. QED
        BY <4>2, <4>3, <4>4 DEF f
    <3>2. a \in Seq(Seq(Seq(FileCells))) /\ Len(a) = e
      BY <1>4, <2>1
    <3>3. \A x \in 1 .. e : a[x] = W(x)
      BY <1>3, <2>1
    <3>4. \A x \in 1 .. e - 1 : FirstWrites(db, e - 1)[x] = W(x)
      BY <1>3, <2>1
    <3>. HIDE DEF a, b
    <3>5. \A x \in 1 .. e : a[x] = b[x]
      BY <3>1, <3>3, <3>4
    <3>6. a = b
      BY <3>1, <3>2, <3>5, SameSeq
    <3>. QED
      BY <3>6 DEF a, b
  <2>3. FlattenSeq(FirstWrites(db, e)) = FlattenSeq(FirstWrites(db, e - 1)) \o W(e)
    BY <1>2, <1>4, <2>1, <2>2, FlattenAppend
  <2>4. FlattenSeq(FlattenSeq(FirstWrites(db, e - 1)) \o W(e))
            = FlattenSeq(FlattenSeq(FirstWrites(db, e - 1))) \o FlattenSeq(W(e))
    BY <1>2, <1>5, <2>1, FlattenConcat
  <2>. QED
    BY <2>3, <2>4 DEF FirstCells
<1>8. Image(db) = FlattenSeq(FirstWrites(db, NumEntries))
  BY DEF Image, FirstWrites
<1>. QED
  BY <1>2, <1>5, <1>6, <1>7, <1>8 DEF W

(* What one entry adds to the cells: its record, if it is in use.          *)
LEMMA EntryAdds ==
    ASSUME PrmAssumption, NEW db \in Dbs, NEW e \in 1 .. NumEntries
    PROVE  /\ FirstCells(db, e - 1) \in Seq(FileCells) /\ Len(FirstCells(db, e - 1)) \in Nat
           /\ FirstCells(db, e) \in Seq(FileCells) /\ Len(FirstCells(db, e)) \in Nat
           /\ db[e].used => /\ Len(FirstCells(db, e)) = Len(FirstCells(db, e - 1)) + 3 + Len(db[e].val)
                            /\ RecordStands(FirstCells(db, e), Len(FirstCells(db, e - 1)) + 1, db[e])
           /\ ~db[e].used => FirstCells(db, e) = FirstCells(db, e - 1)
           /\ Len(FirstCells(db, e - 1)) <= Len(FirstCells(db, e))
           /\ \A i \in 1 .. Len(FirstCells(db, e - 1)) : FirstCells(db, e)[i] = FirstCells(db, e - 1)[i]
<1>. DEFINE old   == FirstCells(db, e - 1)
            new   == FirstCells(db, e)
            cells == FlattenSeq(IF db[e].used THEN Record(db[e]) ELSE <<>>)
<1>1. db[e] \in Entries /\ NumEntries \in Nat \ {0}
  BY DEF Dbs, PrmAssumption
<1>2. e - 1 \in 0 .. NumEntries /\ e \in 0 .. NumEntries
  BY <1>1
<1>3. old \in Seq(FileCells) /\ new \in Seq(FileCells) /\ new = old \o cells
  BY <1>2, FirstIs
<1>. HIDE DEF old, new
<1>4. /\ cells \in Seq(FileCells)
      /\ db[e].used => Len(cells) = 3 + Len(db[e].val) /\ RecordStands(cells, 1, db[e])
      /\ ~db[e].used => cells = <<>>
  <2>1. CASE db[e].used
    BY <1>1, <2>1, RecordIs
  <2>2. CASE ~db[e].used
    <3>1. <<>> \in Seq(Seq(FileCells)) /\ Len(<<>>) = 0 /\ <<>> \in Seq(FileCells)
      OBVIOUS
    <3>2. FlattenSeq(<<>>) = <<>>
      BY <3>1, FlattenIs
    <3>. QED
      BY <2>2, <3>1, <3>2
  <2>. QED
    BY <2>1, <2>2
<1>. HIDE DEF cells
<1>5. /\ Len(new) = Len(old) + Len(cells) /\ Len(old) \in Nat /\ Len(cells) \in Nat
      /\ \A i \in 1 .. Len(old) : new[i] = old[i]
      /\ \A i \in Len(old) + 1 .. Len(old) + Len(cells) : new[i] = cells[i - Len(old)]
  BY <1>3, <1>4, ConcatIs
<1>6. ASSUME db[e].used PROVE RecordStands(new, Len(old) + 1, db[e])
  <2>. DEFINE n == Len(db[e].val)
              q == Len(old)
  <2>1. n \in Nat /\ q \in Nat /\ Len(cells) = 3 + n
    BY <1>1, <1>4, <1>5, <1>6, EntryTypes
  <2>8. Len(new) = q + (3 + n)
    BY <1>5, <2>1
  <2>2. \A k \in 1 .. 3 + n : new[q + k] = cells[k]
    <3>1. ASSUME NEW k \in 1 .. 3 + n PROVE new[q + k] = cells[k]
      <4>1. q + k \in q + 1 .. q + Len(cells) /\ (q + k) - q = k
        BY <2>1
      <4>. QED
        BY <1>5, <4>1
    <3>. QED
      BY <3>1
  <2>3. /\ cells[1] = <<"delim", 0>> /\ cells[2] = <<"size", n>> /\ cells[3] = <<"id", db[e].id>>
        /\ \A i \in 1 .. n : cells[3 + i] = db[e].val[i]
    <3>1. /\ cells[1] = <<"delim", 0>> /\ cells[1 + 1] = <<"size", n>> /\ cells[1 + 2] = <<"id", db[e].id>>
          /\ \A i \in 1 .. n : cells[1 + 2 + i] = db[e].val[i]
      BY <1>4, <1>6 DEF RecordStands
    <3>2. 1 + 1 = 2 /\ 1 + 2 = 3
      OBVIOUS
    <3>. QED
      BY <3>1, <3>2
  <2>. HIDE DEF n, q
  <2>4. /\ 1 \in 1 .. 3 + n /\ 2 \in 1 .. 3 + n /\ 3 \in 1 .. 3 + n /\ \A i \in 1 .. n : 3 + i \in 1 .. 3 + n
        /\ (q + 1) + 1 = q + 2 /\ (q + 1) + 2 = q + 3 /\ \A i \in 1 .. n : (q + 1) + 2 + i = q + (3 + i)
        /\ (q + 1) + 2 + n <= q + (3 + n)
    BY <2>1
  <2>5. (q + 1) + 2 + n <= Len(new)
    BY <2>1, <2>4, <2>8
  <2>6. new[q + 1] = <<"delim", 0>> /\ new[(q + 1) + 1] = <<"size", n>> /\ new[(q + 1) + 2] = <<"id", db[e].id>>
    BY <2>2, <2>3, <2>4
  <2>7. ASSUME NEW i \in 1 .. n PROVE new[(q + 1) + 2 + i] = db[e].val[i]
    BY <2>2, <2>3, <2>4
  <2>. QED
    BY <2>5, <2>6, <2>7 DEF RecordStands, n, q
<1>7. ~db[e].used => new = old
  BY <1>3, <1>4
<1>8. db[e].used => Len(new) = Len(old) + 3 + Len(db[e].val)
  <2>1. Len(db[e].val) \in Nat
    BY <1>1, EntryTypes
  <2>. QED
    <3>. SUFFICES ASSUME db[e].used PROVE Len(new) = Len(old) + 3 + Len(db[e].val)
      OBVIOUS
    <3>. DEFINE n == Len(db[e].val)
    <3>1. Len(cells) = 3 + n /\ n \in Nat
      BY <1>4, <2>1
    <3>. HIDE DEF n
    <3>2. Len(new) = Len(old) + 3 + n
      BY <1>5, <3>1
    <3>. QED
      BY <3>2 DEF n
<1>9. Len(old) <= Len(new)
  BY <1>5
<1>. QED
  <2>1. Len(new) \in Nat
    BY <1>3
  <2>. QED
    BY <1>3, <1>5, <1>6, <1>7, <1>8, <1>9, <2>1, Zenon DEF old, new

(* The cells of the first entries are where those of all begin.            *)
LEMMA CellsBegin ==
    ASSUME PrmAssumption, NEW db \in Dbs
    PROVE  \A e \in 0 .. NumEntries :
               /\ Len(FirstCells(db, e)) <= Len(CellsOf(db))
               /\ \A i \in 1 .. Len(FirstCells(db, e)) : CellsOf(db)[i] = FirstCells(db, e)[i]
<1>. DEFINE N == NumEntries
            F(e) == FirstCells(db, e)
            Begins(e) == /\ Len(F(e)) <= Len(F(N))
                         /\ \A i \in 1 .. Len(F(e)) : F(N)[i] = F(e)[i]
            Good == {k \in Nat : k <= N => Begins(N - k)}
<1>1. N \in Nat \ {0}
  BY DEF PrmAssumption
<1>. HIDE DEF N
<1>2. \A e \in 0 .. N : F(e) \in Seq(FileCells) /\ Len(F(e)) \in Nat
  BY FirstIs, Zenon DEF N
<1>3. 0 \in Good
  <2>1. N - 0 = N /\ Len(F(N)) \in Nat
    BY <1>1, <1>2
  <2>. HIDE DEF F
  <2>2. Begins(N - 0)
    BY <2>1
  <2>. QED
    BY <2>2
<1>4. ASSUME NEW k \in Nat, k \in Good PROVE k + 1 \in Good
  <2>. SUFFICES ASSUME k + 1 <= N PROVE Begins(N - (k + 1))
    OBVIOUS
  <2>. DEFINE e == N - k
  <2>1. e \in 1 .. N /\ N - (k + 1) = e - 1 /\ e \in 0 .. N /\ e - 1 \in 0 .. N
    BY <1>1
  <2>2. Begins(e)
    BY <1>1, <1>4
  <2>. HIDE DEF e
  <2>3. Len(F(e - 1)) <= Len(F(e)) /\ \A i \in 1 .. Len(F(e - 1)) : F(e)[i] = F(e - 1)[i]
    BY <2>1, EntryAdds, Zenon DEF N
  <2>4. Len(F(e)) \in Nat /\ Len(F(e - 1)) \in Nat /\ Len(F(N)) \in Nat
    BY <1>1, <1>2, <2>1
  <2>. HIDE DEF F
  <2>5. Begins(e - 1)
    BY <2>2, <2>3, <2>4
  <2>. QED
    BY <2>1, <2>5
<1>5. \A k \in Nat : k \in Good
  <2>. HIDE DEF Good
  <2>. QED
    BY <1>3, <1>4, Induction
<1>6. ASSUME NEW e \in 0 .. N PROVE Begins(e)
  <2>1. N - e \in Nat /\ N - e <= N /\ N - (N - e) = e
    BY <1>1
  <2>2. N - e \in Good
    BY <1>5, <2>1
  <2>. HIDE DEF Begins
  <2>. QED
    BY <2>1, <2>2
<1>. QED
  BY <1>6 DEF N, CellsOf

(* A record stays where it is in a longer sequence.                        *)
LEMMA RecordStays ==
    ASSUME NEW s \in Seq(FileCells), NEW t \in Seq(FileCells), NEW p \in Nat \ {0}, NEW item \in Entries,
           RecordStands(s, p, item), Len(s) <= Len(t), \A i \in 1 .. Len(s) : t[i] = s[i]
    PROVE  RecordStands(t, p, item)
<1>. DEFINE n == Len(item.val)
<1>1. n \in Nat /\ Len(s) \in Nat /\ Len(t) \in Nat
  BY EntryTypes
<1>2. /\ p + 2 + n <= Len(s)
      /\ s[p] = <<"delim", 0>> /\ s[p + 1] = <<"size", n>> /\ s[p + 2] = <<"id", item.id>>
      /\ \A i \in 1 .. n : s[p + 2 + i] = item.val[i]
  BY DEF RecordStands
<1>. HIDE DEF n
<1>3. /\ p \in 1 .. Len(s) /\ p + 1 \in 1 .. Len(s) /\ p + 2 \in 1 .. Len(s) /\ p + 2 + n <= Len(t)
      /\ \A i \in 1 .. n : p + 2 + i \in 1 .. Len(s)
  BY <1>1, <1>2
<1>4. /\ p + 2 + n <= Len(t)
      /\ t[p] = <<"delim", 0>> /\ t[p + 1] = <<"size", n>> /\ t[p + 2] = <<"id", item.id>>
      /\ \A i \in 1 .. n : t[p + 2 + i] = item.val[i]
  BY <1>2, <1>3
<1>. QED
  BY <1>4 DEF RecordStands, n

(* Each used entry has its record behind those of the entries before it.   *)
LEMMA CellsHave ==
    ASSUME PrmAssumption, NEW db \in Dbs, NEW e \in 1 .. NumEntries, db[e].used
    PROVE  /\ RecordStands(CellsOf(db), Len(FirstCells(db, e - 1)) + 1, db[e])
           /\ Len(FirstCells(db, e)) = Len(FirstCells(db, e - 1)) + 3 + Len(db[e].val)
           /\ Len(FirstCells(db, e - 1)) \in Nat /\ Len(FirstCells(db, e)) \in Nat
<1>. DEFINE old == FirstCells(db, e - 1)
            new == FirstCells(db, e)
            all == CellsOf(db)
<1>1. NumEntries \in Nat \ {0} /\ db[e] \in Entries
  BY DEF PrmAssumption, Dbs
<1>2. /\ old \in Seq(FileCells) /\ new \in Seq(FileCells)
      /\ Len(old) \in Nat /\ Len(new) \in Nat
      /\ Len(new) = Len(old) + 3 + Len(db[e].val) /\ RecordStands(new, Len(old) + 1, db[e])
  BY EntryAdds, Zenon
<1>3. e \in 0 .. NumEntries /\ NumEntries \in 0 .. NumEntries
  BY <1>1
<1>4. all \in Seq(FileCells) /\ Len(new) <= Len(all) /\ \A i \in 1 .. Len(new) : all[i] = new[i]
  BY <1>3, FirstIs, CellsBegin DEF CellsOf
<1>6. Len(old) + 1 \in Nat \ {0}
  BY <1>2
<1>. HIDE DEF old, new, all
<1>7. RecordStands(all, Len(old) + 1, db[e])
  BY <1>1, <1>2, <1>4, <1>6, RecordStays
<1>. QED
  BY <1>2, <1>7 DEF old, new, all

(* Where no value holds what reads as a field, a delimiter is the first    *)
(* cell of a record.                                                       *)
LEMMA DelimitersBegin ==
    ASSUME PrmAssumption, NEW db \in Dbs, IsPlain(db), NEW p \in 1 .. Len(CellsOf(db)),
           CellsOf(db)[p][1] = "delim"
    PROVE  \E e \in 1 .. NumEntries : db[e].used /\ RecordStands(CellsOf(db), p, db[e])
<1>. DEFINE N == NumEntries
            F(e) == FirstCells(db, e)
            Begins(e) == \A q \in 1 .. Len(F(e)) : F(e)[q][1] = "delim" =>
                             \E x \in 1 .. N : db[x].used /\ q = Len(F(x - 1)) + 1
            Good == {e \in Nat : e <= N => Begins(e)}
<1>1. N \in Nat \ {0}
  BY DEF PrmAssumption
<1>. HIDE DEF N
<1>2. \A e \in 0 .. N : F(e) \in Seq(FileCells) /\ Len(F(e)) \in Nat
  BY FirstIs, Zenon DEF N
<1>3. 0 \in Good
  <2>1. F(0) = <<>>
    BY FirstIs
  <2>. HIDE DEF F
  <2>2. Begins(0)
    BY <2>1
  <2>. QED
    BY <2>2
<1>4. ASSUME NEW k \in Nat, k \in Good PROVE k + 1 \in Good
  <2>. SUFFICES ASSUME k + 1 <= N PROVE Begins(k + 1)
    OBVIOUS
  <2>. DEFINE e == k + 1
              n == Len(db[e].val)
  <2>1. e \in 1 .. N /\ e - 1 = k /\ k \in 0 .. N /\ e \in 0 .. N /\ Begins(k)
    BY <1>1, <1>4
  <2>. HIDE DEF e
  <2>2. /\ db[e].used => Len(F(e)) = Len(F(k)) + 3 + n /\ RecordStands(F(e), Len(F(k)) + 1, db[e])
        /\ ~db[e].used => F(e) = F(k)
        /\ \A i \in 1 .. Len(F(k)) : F(e)[i] = F(k)[i]
    <3>1. /\ db[e].used => Len(F(e)) = Len(F(e - 1)) + 3 + n /\ RecordStands(F(e), Len(F(e - 1)) + 1, db[e])
          /\ ~db[e].used => F(e) = F(e - 1)
          /\ \A i \in 1 .. Len(F(e - 1)) : F(e)[i] = F(e - 1)[i]
      BY <2>1, EntryAdds, Zenon DEF N
    <3>. QED
      BY <2>1, <3>1
  <2>3. db[e] \in Entries /\ n \in Nat /\ Len(F(k)) \in Nat
    BY <1>2, <2>1, EntryTypes DEF Dbs, N
  <2>4. ASSUME db[e].used, NEW q \in 1 .. Len(F(e)), F(e)[q][1] = "delim", q > Len(F(k))
        PROVE  q = Len(F(k)) + 1
    <3>. DEFINE j == Len(F(k)) + 1
    <3>1. Len(F(e)) = Len(F(k)) + 3 + n
      BY <2>2, <2>4
    <3>2. q = j \/ q = j + 1 \/ q = j + 2 \/ \E i \in 1 .. n : q = j + 2 + i
      <4>1. q \in Int /\ j \in Int /\ q >= j /\ q <= j + 2 + n
        <5>. DEFINE L == Len(F(k))
        <5>1. q \in 1 .. L + 3 + n /\ q > L /\ L \in Nat /\ n \in Nat /\ j = L + 1
          BY <2>3, <2>4, <3>1
        <5>. HIDE DEF L, n, j
        <5>. QED
          BY <5>1
      <4>. HIDE DEF j, n
      <4>2. n \in Nat
        BY <2>3 DEF n
      <4>3. q - (j + 2) \in 1 .. n \/ q = j \/ q = j + 1 \/ q = j + 2
        BY <4>1, <4>2
      <4>4. q = j + 2 + (q - (j + 2))
        BY <4>1
      <4>. QED
        BY <4>3, <4>4
    <3>3. /\ F(e)[j + 1] = <<"size", n>> /\ F(e)[j + 2] = <<"id", db[e].id>>
          /\ \A i \in 1 .. n : F(e)[j + 2 + i] = db[e].val[i]
      BY <2>2, <2>4 DEF RecordStands
    <3>4. \A i \in 1 .. n : db[e].val[i][1] = "val"
      <4>1. DOMAIN db[e].val = 1 .. n
        BY <2>3, EntryTypes
      <4>. QED
        BY <2>1, <2>4, <4>1 DEF IsPlain, N
    <3>5. <<"size", n>>[1] = "size" /\ <<"id", db[e].id>>[1] = "id"
      OBVIOUS
    <3>. HIDE DEF j, n, F
    <3>6. q # j + 1 /\ q # j + 2 /\ \A i \in 1 .. n : q # j + 2 + i
      BY <2>4, <3>3, <3>4, <3>5
    <3>. QED
      BY <3>2, <3>6 DEF j
  <2>5. ASSUME NEW q \in 1 .. Len(F(e)), F(e)[q][1] = "delim"
        PROVE  \E x \in 1 .. N : db[x].used /\ q = Len(F(x - 1)) + 1
    <3>1. CASE q <= Len(F(k))
      <4>1. q \in 1 .. Len(F(k)) /\ F(k)[q][1] = "delim"
        BY <2>2, <2>3, <2>5, <3>1
      <4>. QED
        BY <2>1, <4>1
    <3>2. CASE q > Len(F(k))
      <4>1. db[e].used
        BY <2>2, <2>3, <2>5, <3>2
      <4>2. q = Len(F(k)) + 1
        BY <2>4, <2>5, <3>2, <4>1
      <4>. QED
        BY <2>1, <4>1, <4>2
    <3>. QED
      BY <2>3, <3>1, <3>2
  <2>6. Begins(e)
    BY <2>5
  <2>. HIDE DEF Begins
  <2>. QED
    BY <2>6 DEF e
<1>5. N \in Good
  <2>. HIDE DEF Good
  <2>. QED
    BY <1>1, <1>3, <1>4, Induction
<1>6. PICK e \in 1 .. N : db[e].used /\ p = Len(F(e - 1)) + 1
  <2>1. Begins(N)
    BY <1>1, <1>5
  <2>. QED
    BY <2>1 DEF CellsOf, N
<1>. QED
  BY <1>6, CellsHave DEF N

(* Each used entry's value is one of the writes.                           *)
LEMMA WritesHave ==
    ASSUME PrmAssumption, NEW db \in Dbs, NEW e \in 1 .. NumEntries, db[e].used
    PROVE  \E i \in 1 .. Len(Image(db)) : Image(db)[i] = db[e].val
<1>. DEFINE N == NumEntries
            G(x) == FlattenSeq(FirstWrites(db, x))
            Has(x) == \E i \in 1 .. Len(G(x)) : G(x)[i] = db[e].val
            Good == {k \in Nat : e + k <= N => Has(e + k)}
<1>1. N \in Nat \ {0} /\ db[e] \in Entries /\ e \in 1 .. N
  BY DEF PrmAssumption, Dbs
<1>2. \A x \in 0 .. N : G(x) \in Seq(Seq(FileCells))
  BY FirstIs DEF N
<1>3. ASSUME NEW x \in 1 .. N
      PROVE  \E pieces \in Seq(Seq(FileCells)) :
                 G(x) = G(x - 1) \o pieces /\ (db[x].used => pieces = Record(db[x]))
  BY FirstIs DEF N
<1>4. Image(db) = G(N)
  BY FirstIs DEF N
<1>. HIDE DEF N, G
<1>5. 0 \in Good
  <2>1. PICK pieces \in Seq(Seq(FileCells)) : G(e) = G(e - 1) \o pieces /\ pieces = Record(db[e])
    BY <1>1, <1>3
  <2>2. Len(pieces) = 4 /\ pieces[4] = db[e].val
    BY <1>1, <2>1, RecordIs
  <2>3. e - 1 \in 0 .. N
    BY <1>1
  <2>. DEFINE g == G(e - 1)
  <2>4. g \in Seq(Seq(FileCells)) /\ G(e) = g \o pieces
    BY <1>2, <2>1, <2>3
  <2>. HIDE DEF g
  <2>5. Len(g) \in Nat /\ Len(G(e)) = Len(g) + 4 /\ G(e)[Len(g) + 4] = pieces[4]
    <3>1. /\ Len(g \o pieces) = Len(g) + Len(pieces) /\ Len(g) \in Nat
          /\ \A i \in Len(g) + 1 .. Len(g) + Len(pieces) : (g \o pieces)[i] = pieces[i - Len(g)]
      BY <2>1, <2>4, ConcatIs
    <3>2. Len(g) + 4 \in Len(g) + 1 .. Len(g) + Len(pieces) /\ (Len(g) + 4) - Len(g) = 4
      BY <2>2, <3>1
    <3>. QED
      BY <2>2, <2>4, <3>1, <3>2
  <2>6. Len(g) + 4 \in 1 .. Len(G(e))
    BY <2>5
  <2>7. Has(e) /\ e + 0 = e
    BY <1>1, <2>2, <2>5, <2>6
  <2>. HIDE DEF Has
  <2>. QED
    BY <2>7
<1>6. ASSUME NEW k \in Nat, k \in Good PROVE k + 1 \in Good
  <2>. SUFFICES ASSUME e + (k + 1) <= N PROVE Has(e + (k + 1))
    OBVIOUS
  <2>. DEFINE x == e + k + 1
  <2>1. x \in 1 .. N /\ x - 1 = e + k /\ x - 1 \in 0 .. N /\ e + (k + 1) = x /\ e + k <= N
    BY <1>1
  <2>2. Has(x - 1)
    BY <1>6, <2>1
  <2>. HIDE DEF x
  <2>3. PICK pieces \in Seq(Seq(FileCells)) : G(x) = G(x - 1) \o pieces
    BY <1>3, <2>1
  <2>. DEFINE g == G(x - 1)
  <2>4. g \in Seq(Seq(FileCells)) /\ G(x) = g \o pieces
    BY <1>2, <2>1, <2>3
  <2>5. PICK i \in 1 .. Len(g) : g[i] = db[e].val
    BY <2>2
  <2>. HIDE DEF g
  <2>6. i \in 1 .. Len(G(x)) /\ G(x)[i] = g[i]
    BY <2>4, <2>5, ConcatIs
  <2>7. Has(x)
    BY <2>5, <2>6
  <2>. HIDE DEF Has
  <2>. QED
    BY <2>1, <2>7
<1>7. N - e \in Good /\ N - e \in Nat
  <2>1. N - e \in Nat
    BY <1>1
  <2>. HIDE DEF Good
  <2>. QED
    BY <1>5, <1>6, <2>1, Induction
<1>8. Has(N)
  <2>1. e + (N - e) = N /\ N <= N
    BY <1>1
  <2>. HIDE DEF Has
  <2>. QED
    BY <1>7, <2>1
<1>. QED
  BY <1>4, <1>8

-----------------------------------------------------------------------------
(* What a load finds at a place of the file.                               *)
Readable(f, p) ==
    /\ p <= Len(f) /\ f[p][1] = "delim" /\ p + 1 <= Len(f) /\ f[p + 1][1] = "size" /\ p + 2 <= Len(f)
PiecesAt(f, p)  == f[p + 1][2]
IdAt(f, p)    == IF f[p + 2][1] = "id" THEN f[p + 2][2] ELSE 0
ValueAt(f, p) == [i \in 1 .. PiecesAt(f, p) |-> f[p + 2 + i]]
Full(f, p)    == Readable(f, p) /\ p + 2 + PiecesAt(f, p) <= Len(f) /\ PiecesAt(f, p) # 0

EntryOf(id, val) == [used |-> TRUE, id |-> id, val |-> val]
Loads == [db : Dbs, next : Nat \ {0}, records : Nat, going : BOOLEAN]

(* The numbers that a size and an id hold.                                 *)
LEMMA CellKinds ==
    ASSUME NEW f \in Seq(FileCells), NEW i \in 1 .. Len(f)
    PROVE  (f[i][1] = "size" => f[i][2] \in Nat) /\ (f[i][1] = "id" => f[i][2] \in Params \cup {0})
<1>1. f[i] \in FileCells
  OBVIOUS
<1>. QED
  BY <1>1 DEF FileCells

(* What is read where a record can be read.                                *)
LEMMA ReadableIs ==
    ASSUME NEW f \in Seq(FileCells), NEW p \in Nat \ {0}, Readable(f, p)
    PROVE  /\ PiecesAt(f, p) \in Nat /\ IdAt(f, p) \in Params \cup {0}
           /\ p + 2 + PiecesAt(f, p) <= Len(f) =>
                 ValueAt(f, p) \in Seq(FileCells) /\ Len(ValueAt(f, p)) = PiecesAt(f, p)
<1>1. Len(f) \in Nat
  OBVIOUS
<1>2. p + 1 \in 1 .. Len(f) /\ p + 2 \in 1 .. Len(f) /\ f[p + 1][1] = "size"
  BY <1>1 DEF Readable
<1>3. PiecesAt(f, p) \in Nat
  BY <1>2, CellKinds DEF PiecesAt
<1>4. IdAt(f, p) \in Params \cup {0}
  BY <1>2, CellKinds DEF IdAt
<1>5. ASSUME p + 2 + PiecesAt(f, p) <= Len(f)
      PROVE  ValueAt(f, p) \in Seq(FileCells) /\ Len(ValueAt(f, p)) = PiecesAt(f, p)
  <2>. DEFINE n == PiecesAt(f, p)
  <2>1. \A i \in 1 .. n : p + 2 + i \in 1 .. Len(f)
    BY <1>1, <1>3, <1>5
  <2>2. \A i \in 1 .. n : f[p + 2 + i] \in FileCells
    BY <2>1
  <2>3. n \in Nat /\ ValueAt(f, p) = [i \in 1 .. n |-> f[p + 2 + i]]
    BY <1>3 DEF ValueAt
  <2>. HIDE DEF n
  <2>4. ValueAt(f, p) \in Seq(FileCells) /\ Len(ValueAt(f, p)) = n
    BY <2>2, <2>3
  <2>. QED
    BY <2>4 DEF n
<1>. QED
  BY <1>3, <1>4, <1>5

LEMMA EntryOfTypes ==
    ASSUME NEW id \in Params \cup {0}, NEW val \in Seq(FileCells)
    PROVE  /\ EntryOf(id, val) \in Entries /\ EntryOf(id, val).used = TRUE
           /\ EntryOf(id, val).id = id /\ EntryOf(id, val).val = val
  BY DEF EntryOf, Entries

(* One turn of the loop: it stops, it stops with an entry in use that has  *)
(* no value, or it reads a record.                                         *)
LEMMA ReadRecordIs ==
    ASSUME PrmAssumption, file \in Seq(FileCells), NEW load \in Loads, NEW e \in 1 .. NumEntries, NEW fails
    PROVE  \/ /\ ReadRecord(load, e, fails) = LoadOf(load.db, load.next, load.records, FALSE)
              /\ load.going => fails = "header" \/ ~Readable(file, load.next)
           \/ /\ load.going /\ Readable(file, load.next) /\ (fails = "value" \/ ~Full(file, load.next))
              /\ ReadRecord(load, e, fails)
                    = LoadOf([load.db EXCEPT ![e] = EntryOf(IdAt(file, load.next), load.db[e].val)],
                             load.next, load.records, FALSE)
           \/ /\ load.going /\ Full(file, load.next)
              /\ ReadRecord(load, e, fails)
                    = LoadOf([load.db EXCEPT ![e] = EntryOf(IdAt(file, load.next), ValueAt(file, load.next))],
                             load.next + 3 + PiecesAt(file, load.next), load.records + 1, TRUE)
<1>. DEFINE p == load.next
            n == PiecesAt(file, p)
            id == IdAt(file, p)
            With(val) == [load.db EXCEPT ![e] = EntryOf(id, val)]
            Stopped(db) == LoadOf(db, p, load.records, FALSE)
            stop == ~load.going \/ fails = "header" \/ ~Readable(file, p)
            half == fails = "value" \/ p + 2 + n > Len(file) \/ n = 0
<1>1. load.db \in Dbs /\ p \in Nat \ {0} /\ load.records \in Nat /\ load.going \in BOOLEAN
  BY DEF Loads
<1>3. Len(file) \in Nat
  OBVIOUS
<1>4. stop <=> ~load.going \/ fails = "header" \/ ~At(p, "delim") \/ ~At(p + 1, "size") \/ p + 2 > Len(file)
  BY <1>1, <1>3 DEF At, Readable
<1>5. CASE stop
  <2>1. ReadRecord(load, e, fails) = Stopped(load.db)
    BY <1>4, <1>5 DEF ReadRecord
  <2>. QED
    BY <1>5, <2>1
<1>6. CASE ~stop
  <2>1. load.going /\ Readable(file, p)
    BY <1>6
  <2>2. (IF At(p + 2, "id") THEN file[p + 2][2] ELSE 0) = id
    BY <2>1 DEF At, Readable, IdAt
  <2>3. ReadRecord(load, e, fails) =
            IF half THEN Stopped(With(load.db[e].val))
            ELSE LoadOf(With([i \in 1 .. n |-> file[p + 2 + i]]), p + 3 + n, load.records + 1, TRUE)
    BY <1>4, <1>6, <2>2, Zenon DEF ReadRecord, PiecesAt, EntryOf
  <2>4. CASE half
    <3>1. ReadRecord(load, e, fails) = LoadOf(With(load.db[e].val), p, load.records, FALSE)
      BY <2>3, <2>4, Zenon
    <3>2. fails = "value" \/ ~Full(file, p)
      BY <1>1, <1>3, <2>1, <2>4, ReadableIs DEF Full
    <3>. QED
      BY <2>1, <3>1, <3>2
  <2>5. CASE ~half
    <3>1. ReadRecord(load, e, fails) = LoadOf(With(ValueAt(file, p)), p + 3 + n, load.records + 1, TRUE)
      BY <2>3, <2>5, Zenon DEF ValueAt
    <3>4. Full(file, p)
      BY <1>1, <1>3, <2>1, <2>5, ReadableIs DEF Full
    <3>. QED
      BY <2>1, <3>1, <3>4
  <2>. QED
    BY <2>4, <2>5
<1>. QED
  BY <1>5, <1>6

LEMMA LoadOfIs ==
    ASSUME NEW db, NEW next, NEW records, NEW going
    PROVE  /\ LoadOf(db, next, records, going).db = db /\ LoadOf(db, next, records, going).next = next
           /\ LoadOf(db, next, records, going).records = records
           /\ LoadOf(db, next, records, going).going = going
  BY DEF LoadOf

LEMMA LoadTypes ==
    ASSUME NEW db \in Dbs, NEW next \in Nat \ {0}, NEW records \in Nat, NEW going \in BOOLEAN
    PROVE  LoadOf(db, next, records, going) \in Loads
  BY DEF LoadOf, Loads

LEMMA LoadFields ==
    ASSUME NEW load \in Loads
    PROVE  /\ load.db \in Dbs /\ load.next \in Nat \ {0} /\ load.records \in Nat /\ load.going \in BOOLEAN
           /\ \A e \in 1 .. NumEntries : load.db[e] \in Entries /\ load.db[e].val \in Seq(FileCells)
  BY DEF Loads, Dbs, Entries

LEMMA EntryIn ==
    ASSUME NEW db \in Dbs, NEW e \in 1 .. NumEntries, NEW item \in Entries
    PROVE  /\ [db EXCEPT ![e] = item] \in Dbs /\ [db EXCEPT ![e] = item][e] = item
           /\ \A x \in 1 .. NumEntries : x # e => [db EXCEPT ![e] = item][x] = db[x]
  BY DEF Dbs

LEMMA ReadRecordTypes ==
    ASSUME PrmAssumption, file \in Seq(FileCells), NEW load \in Loads, NEW e \in 1 .. NumEntries, NEW fails
    PROVE  ReadRecord(load, e, fails) \in Loads
<1>. DEFINE p == load.next
<1>1. /\ load.db \in Dbs /\ p \in Nat \ {0} /\ load.records \in Nat /\ load.db[e].val \in Seq(FileCells)
  BY LoadFields
<1>2. TRUE \in BOOLEAN /\ FALSE \in BOOLEAN /\ load.records + 1 \in Nat
  BY <1>1
<1>3. ASSUME Readable(file, p)
      PROVE  [load.db EXCEPT ![e] = EntryOf(IdAt(file, p), load.db[e].val)] \in Dbs
  BY <1>1, <1>3, ReadableIs, EntryOfTypes, EntryIn
<1>4. ASSUME Full(file, p)
      PROVE  /\ [load.db EXCEPT ![e] = EntryOf(IdAt(file, p), ValueAt(file, p))] \in Dbs
             /\ p + 3 + PiecesAt(file, p) \in Nat \ {0}
  <2>1. Readable(file, p) /\ p + 2 + PiecesAt(file, p) <= Len(file)
    BY <1>4 DEF Full
  <2>2. PiecesAt(file, p) \in Nat /\ IdAt(file, p) \in Params \cup {0} /\ ValueAt(file, p) \in Seq(FileCells)
    BY <1>1, <2>1, ReadableIs
  <2>3. [load.db EXCEPT ![e] = EntryOf(IdAt(file, p), ValueAt(file, p))] \in Dbs
    BY <1>1, <2>2, EntryOfTypes, EntryIn
  <2>4. p + 3 + PiecesAt(file, p) \in Nat \ {0}
    BY <1>1, <2>2
  <2>. QED
    BY <2>3, <2>4
<1>5. CASE ReadRecord(load, e, fails) = LoadOf(load.db, p, load.records, FALSE)
  BY <1>1, <1>2, <1>5, LoadTypes
<1>6. CASE /\ Readable(file, p)
           /\ ReadRecord(load, e, fails)
                 = LoadOf([load.db EXCEPT ![e] = EntryOf(IdAt(file, p), load.db[e].val)], p, load.records, FALSE)
  BY <1>1, <1>2, <1>3, <1>6, LoadTypes
<1>7. CASE /\ Full(file, p)
           /\ ReadRecord(load, e, fails)
                 = LoadOf([load.db EXCEPT ![e] = EntryOf(IdAt(file, p), ValueAt(file, p))],
                          p + 3 + PiecesAt(file, p), load.records + 1, TRUE)
  BY <1>1, <1>2, <1>4, <1>7, LoadTypes
<1>. QED
  BY <1>5, <1>6, <1>7, ReadRecordIs

LEMMA ClearIs ==
    ASSUME PrmAssumption
    PROVE  Free \in Entries /\ Free.val = <<>> /\ Free.used = FALSE /\ Clear \in Dbs
           /\ \A e \in 1 .. NumEntries : Clear[e] = Free
<1>1. FALSE \in BOOLEAN /\ 0 \in Params \cup {0} /\ <<>> \in Seq(FileCells)
  OBVIOUS
<1>2. Free \in Entries /\ Free.val = <<>> /\ Free.used = FALSE
  BY <1>1 DEF Free, Entries
<1>. QED
  BY <1>2 DEF Clear, Dbs

(* The turns of readParamFile's loop.                                      *)
Failure(e, failing, fails) == IF e = failing THEN fails ELSE "none"

(* A load is a sequence of these turns.                                    *)
LEMMA LoadIs ==
    ASSUME PrmAssumption, file \in Seq(FileCells), NEW failing, NEW fails
    PROVE  \E read \in [0 .. NumEntries -> Loads] :
               /\ read[0] = LoadOf(Clear, 1, 0, TRUE) /\ Load(failing, fails) = read[NumEntries]
               /\ \A e \in 1 .. NumEntries :
                     read[e] = ReadRecord(read[e - 1], e, Failure(e, failing, fails))
<1>. DEFINE N == NumEntries
            start == LoadOf(Clear, 1, 0, TRUE)
            R(load, e) == ReadRecord(load, e, IF e = failing THEN fails ELSE "none")
            F == [x \in (1 .. N) \X Loads |-> R(x[2], x[1])]
            Body(g) == [e \in 0 .. N |-> IF e = 0 THEN start ELSE R(g[e - 1], e)]
<1>1. N \in Nat
  BY DEF PrmAssumption
<1>2. start \in Loads
  <2>1. 1 \in Nat \ {0} /\ 0 \in Nat /\ TRUE \in BOOLEAN
    OBVIOUS
  <2>. QED
    BY <2>1, ClearIs, LoadTypes
<1>. HIDE DEF start
<1>3. ASSUME NEW load \in Loads, NEW e \in 1 .. N PROVE R(load, e) \in Loads
  BY <1>3, ReadRecordTypes
<1>. HIDE DEF N, R
<1>4. F \in [(1 .. N) \X Loads -> Loads]
  BY <1>3
<1>5. PICK g \in [0 .. N -> Loads] : StepsUp(g, N, start, F)
  <2>. HIDE DEF F
  <2>. QED
    BY <1>1, <1>2, <1>4, RecursionUp
<1>6. ASSUME NEW e \in 1 .. N PROVE F[<<e, g[e - 1]>>] = R(g[e - 1], e)
  <2>1. e - 1 \in 0 .. N /\ g[e - 1] \in Loads
    BY <1>1, <1>5
  <2>. QED
    BY <2>1
<1>7. g = Body(g)
  <2>1. ASSUME NEW e \in 0 .. N PROVE g[e] = IF e = 0 THEN start ELSE R(g[e - 1], e)
    <3>1. g[e] = IF e = 0 THEN start ELSE F[<<e, g[e - 1]>>]
      BY <1>5 DEF StepsUp
    <3>2. e # 0 => e \in 1 .. N
      BY <1>1
    <3>. HIDE DEF F
    <3>. QED
      BY <1>6, <3>1, <3>2
  <2>2. g = [e \in 0 .. N |-> g[e]]
    BY <1>5, Zenon
  <2>. QED
    BY <2>1, <2>2
<1>. DEFINE read == CHOOSE f : f = Body(f)
<1>8. read = Body(read)
  <2>. HIDE DEF Body
  <2>. QED
    BY <1>7, Zenon
<1>9. Load(failing, fails) = read[N]
  BY Zenon DEF Load, N, R, start
<1>. HIDE DEF read
<1>10. /\ read[0] = start
       /\ \A e \in 1 .. N : read[e] = R(read[e - 1], e)
  <2>1. 0 \in 0 .. N /\ \A e \in 1 .. N : e \in 0 .. N /\ e # 0
    BY <1>1
  <2>. QED
    BY <1>8, <2>1
<1>11. read \in [0 .. N -> Loads]
  <2>. DEFINE Good == {e \in Nat : e <= N => read[e] \in Loads}
  <2>1. 0 \in Good
    BY <1>2, <1>10
  <2>2. ASSUME NEW e \in Nat, e \in Good PROVE e + 1 \in Good
    <3>. SUFFICES ASSUME e + 1 <= N PROVE read[e + 1] \in Loads
      OBVIOUS
    <3>1. e + 1 \in 1 .. N /\ (e + 1) - 1 = e /\ read[e] \in Loads
      BY <1>1, <2>2
    <3>. QED
      BY <1>3, <1>10, <3>1
  <2>3. \A e \in Nat : e \in Good
    <3>. HIDE DEF Good
    <3>. QED
      BY <2>1, <2>2, Induction
  <2>4. \A e \in 0 .. N : read[e] \in Loads
    BY <1>1, <2>3
  <2>5. read = [e \in 0 .. N |-> read[e]]
    BY <1>8
  <2>. QED
    BY <2>4, <2>5
<1>. QED
  BY <1>9, <1>10, <1>11 DEF N, R, start, Failure

(* After e turns: where the records begin that were read, what the entries *)
(* hold, and why the loop went no further.                                 *)
Read(load, s, x) ==
    /\ Full(file, s[x]) /\ load.db[x] = EntryOf(IdAt(file, s[x]), ValueAt(file, s[x]))
    /\ s[x + 1] = s[x] + 3 + PiecesAt(file, s[x])

HalfRead(load, s, x, failing) ==
    /\ x = load.records + 1 /\ ~load.going /\ Readable(file, s[x])
    /\ load.db[x] = EntryOf(IdAt(file, s[x]), <<>>) /\ (x = failing \/ ~Full(file, s[x]))

Shape(load, e, s, failing) ==
    /\ load \in Loads /\ s \in [1 .. NumEntries + 1 -> Nat \ {0}] /\ s[1] = 1
    /\ load.records <= e /\ (load.going => load.records = e) /\ s[load.records + 1] = load.next
    /\ ~load.going => ~Full(file, load.next) \/ failing \in 1 .. NumEntries
    /\ \A x \in 1 .. load.records : Read(load, s, x)
    /\ \A x \in load.records + 1 .. NumEntries : load.db[x] = Free \/ HalfRead(load, s, x, failing)

Fields(load, db, next, records, going) ==
    load.db = db /\ load.next = next /\ load.records = records /\ load.going = going

LEMMA LoadOfFields ==
    ASSUME NEW db, NEW next, NEW records, NEW going
    PROVE  Fields(LoadOf(db, next, records, going), db, next, records, going)
  BY LoadOfIs DEF Fields

(* One turn keeps the shape.                                               *)
LEMMA ShapeStep ==
    ASSUME PrmAssumption, file \in Seq(FileCells), NEW e \in 1 .. NumEntries, NEW load, NEW s,
           NEW failing, NEW fails \in {"none", "header", "value"}, Shape(load, e - 1, s, failing)
    PROVE  \E t : Shape(ReadRecord(load, e, Failure(e, failing, fails)), e, t, failing)
<1>. DEFINE new  == ReadRecord(load, e, Failure(e, failing, fails))
            p    == load.next
            k    == load.records
            what == Failure(e, failing, fails)
<1>1. /\ load \in Loads /\ s \in [1 .. NumEntries + 1 -> Nat \ {0}] /\ s[1] = 1
      /\ k <= e - 1 /\ (load.going => k = e - 1) /\ s[k + 1] = p
      /\ ~load.going => ~Full(file, p) \/ failing \in 1 .. NumEntries
      /\ \A x \in 1 .. k : Read(load, s, x)
      /\ \A x \in k + 1 .. NumEntries : load.db[x] = Free \/ HalfRead(load, s, x, failing)
  BY DEF Shape
<1>2. NumEntries \in Nat \ {0} /\ k \in Nat /\ p \in Nat \ {0} /\ load.db \in Dbs /\ load.going \in BOOLEAN
  BY <1>1, LoadFields DEF PrmAssumption
<1>3. new \in Loads
  BY <1>1, ReadRecordTypes
<1>4. what \in {"header", "value"} => e = failing
  BY DEF Failure
<1>5. ASSUME load.going
      PROVE  /\ k + 1 = e /\ s[e] = p /\ load.db[e] = Free
             /\ \A x \in e + 1 .. NumEntries : load.db[x] = Free
  <2>1. k + 1 = e /\ s[e] = p
    BY <1>1, <1>2, <1>5
  <2>2. ASSUME NEW x \in e .. NumEntries PROVE load.db[x] = Free
    <3>1. x \in k + 1 .. NumEntries
      BY <1>2, <2>1
    <3>. QED
      BY <1>1, <1>5, <3>1 DEF HalfRead
  <2>. QED
    BY <1>2, <2>1, <2>2
<1>6. CASE /\ new = LoadOf(load.db, p, k, FALSE)
           /\ load.going => what = "header" \/ ~Readable(file, p)
  <2>. DEFINE old == load.db
  <2>1. new.db = load.db /\ new.next = p /\ new.records = k /\ new.going = FALSE
    <3>1. Fields(LoadOf(old, p, k, FALSE), old, p, k, FALSE)
      BY LoadOfFields, Zenon
    <3>2. new = LoadOf(old, p, k, FALSE)
      BY <1>6
    <3>. HIDE DEF new, old, p, k
    <3>3. Fields(new, old, p, k, FALSE)
      BY <3>1, <3>2, Zenon
    <3>4. new.db = old /\ new.next = p /\ new.records = k /\ new.going = FALSE
      BY <3>3 DEF Fields
    <3>. QED
      BY <3>4, Zenon DEF old
  <2>2. ~Full(file, p) \/ failing \in 1 .. NumEntries
    BY <1>1, <1>4, <1>6 DEF Full
  <2>3. \A x \in 1 .. k : Read(new, s, x)
    BY <1>1, <2>1 DEF Read
  <2>4. \A x \in k + 1 .. NumEntries : new.db[x] = Free \/ HalfRead(new, s, x, failing)
    BY <1>1, <2>1 DEF HalfRead
  <2>5. k <= e
    BY <1>1, <1>2
  <2>. HIDE DEF new, k, p
  <2>6. Shape(new, e, s, failing)
    BY <1>1, <1>3, <2>1, <2>2, <2>3, <2>4, <2>5 DEF Shape
  <2>. QED
    BY <2>6 DEF new
<1>7. CASE /\ load.going /\ Readable(file, p) /\ (what = "value" \/ ~Full(file, p))
           /\ new = LoadOf([load.db EXCEPT ![e] = EntryOf(IdAt(file, p), load.db[e].val)], p, k, FALSE)
  <2>. DEFINE db == [load.db EXCEPT ![e] = EntryOf(IdAt(file, p), load.db[e].val)]
  <2>1. new.db = db /\ new.next = p /\ new.records = k /\ new.going = FALSE
    <3>1. Fields(LoadOf(db, p, k, FALSE), db, p, k, FALSE)
      BY LoadOfFields, Zenon
    <3>2. new = LoadOf(db, p, k, FALSE)
      BY <1>7
    <3>. HIDE DEF new, db, p, k
    <3>3. Fields(new, db, p, k, FALSE)
      BY <3>1, <3>2, Zenon
    <3>. QED
      BY <3>3 DEF Fields
  <2>2. load.db[e].val = <<>>
    BY <1>5, <1>7, ClearIs
  <2>3. EntryOf(IdAt(file, p), <<>>) \in Entries
    <3>1. <<>> \in Seq(FileCells)
      OBVIOUS
    <3>. QED
      BY <1>1, <1>2, <1>7, <3>1, ReadableIs, EntryOfTypes
  <2>4. /\ db[e] = EntryOf(IdAt(file, p), <<>>)
        /\ \A x \in 1 .. NumEntries : x # e => db[x] = load.db[x]
    <3>. DEFINE item == EntryOf(IdAt(file, p), <<>>)
                old == load.db
    <3>1. db = [old EXCEPT ![e] = item] /\ old \in Dbs /\ item \in Entries
      BY <1>2, <2>2, <2>3
    <3>. HIDE DEF item, old, db
    <3>2. db[e] = item /\ \A x \in 1 .. NumEntries : x # e => db[x] = old[x]
      BY <3>1 DEF Dbs
    <3>. QED
      BY <3>2, Zenon DEF item, old
  <2>5. ~Full(file, p) \/ failing \in 1 .. NumEntries
    BY <1>4, <1>7
  <2>6. ASSUME NEW x \in 1 .. k PROVE Read(new, s, x)
    <3>1. x \in 1 .. NumEntries /\ x # e
      BY <1>1, <1>2, <1>5, <1>7
    <3>. QED
      BY <1>1, <2>1, <2>4, <3>1 DEF Read
  <2>7. ASSUME NEW x \in k + 1 .. NumEntries PROVE new.db[x] = Free \/ HalfRead(new, s, x, failing)
    <3>1. CASE x = e
      BY <1>4, <1>5, <1>7, <2>1, <2>4, <3>1 DEF HalfRead
    <3>2. CASE x # e
      <4>1. x \in e + 1 .. NumEntries /\ x \in 1 .. NumEntries
        BY <1>2, <1>5, <1>7, <3>2
      <4>. QED
        BY <1>5, <1>7, <2>1, <2>4, <3>2, <4>1
    <3>. QED
      BY <3>1, <3>2
  <2>8. k <= e
    BY <1>1, <1>2
  <2>. HIDE DEF new, k, p
  <2>9. Shape(new, e, s, failing)
    BY <1>1, <1>3, <2>1, <2>5, <2>6, <2>7, <2>8 DEF Shape
  <2>. QED
    BY <2>9 DEF new
<1>8. CASE /\ load.going /\ Full(file, p)
           /\ new = LoadOf([load.db EXCEPT ![e] = EntryOf(IdAt(file, p), ValueAt(file, p))],
                           p + 3 + PiecesAt(file, p), k + 1, TRUE)
  <2>. DEFINE db == [load.db EXCEPT ![e] = EntryOf(IdAt(file, p), ValueAt(file, p))]
              next == p + 3 + PiecesAt(file, p)
              t == [s EXCEPT ![e + 1] = next]
  <2>1. new.db = db /\ new.next = next /\ new.records = e /\ new.going = TRUE
    <3>1. Fields(LoadOf(db, next, k + 1, TRUE), db, next, k + 1, TRUE)
      BY LoadOfFields, Zenon
    <3>2. new = LoadOf(db, next, k + 1, TRUE) /\ k + 1 = e
      BY <1>5, <1>8
    <3>. HIDE DEF new, db, k, next
    <3>3. Fields(new, db, next, e, TRUE)
      BY <3>1, <3>2, Zenon
    <3>. QED
      BY <3>3 DEF Fields
  <2>2. Readable(file, p) /\ p + 2 + PiecesAt(file, p) <= Len(file)
    BY <1>8 DEF Full
  <2>3. EntryOf(IdAt(file, p), ValueAt(file, p)) \in Entries /\ next \in Nat \ {0}
    <3>1. PiecesAt(file, p) \in Nat /\ IdAt(file, p) \in Params \cup {0} /\ ValueAt(file, p) \in Seq(FileCells)
      BY <1>1, <1>2, <2>2, ReadableIs
    <3>2. next \in Nat \ {0}
      BY <1>2, <3>1
    <3>. QED
      BY <3>1, <3>2, EntryOfTypes
  <2>4. /\ db[e] = EntryOf(IdAt(file, p), ValueAt(file, p))
        /\ \A x \in 1 .. NumEntries : x # e => db[x] = load.db[x]
    <3>. DEFINE item == EntryOf(IdAt(file, p), ValueAt(file, p))
                old == load.db
    <3>1. db = [old EXCEPT ![e] = item] /\ old \in Dbs /\ item \in Entries
      BY <1>2, <2>3
    <3>. HIDE DEF item, old, db
    <3>2. db[e] = item /\ \A x \in 1 .. NumEntries : x # e => db[x] = old[x]
      BY <3>1 DEF Dbs
    <3>. QED
      BY <3>2, Zenon DEF item, old
  <2>5. /\ t \in [1 .. NumEntries + 1 -> Nat \ {0}] /\ t[e + 1] = next
        /\ \A x \in 1 .. NumEntries + 1 : x # e + 1 => t[x] = s[x]
    <3>1. e + 1 \in 1 .. NumEntries + 1
      BY <1>2
    <3>. HIDE DEF next
    <3>. QED
      BY <1>1, <2>3, <3>1
  <2>6. t[1] = 1 /\ t[e] = p
    <3>1. 1 \in 1 .. NumEntries + 1 /\ e \in 1 .. NumEntries + 1 /\ 1 # e + 1 /\ e # e + 1
      BY <1>2
    <3>. QED
      BY <1>1, <1>5, <1>8, <2>5, <3>1
  <2>. HIDE DEF t, next, db
  <2>7. ASSUME NEW x \in 1 .. e PROVE Read(new, t, x)
    <3>1. CASE x = e
      BY <1>8, <2>1, <2>4, <2>5, <2>6, <3>1 DEF Read, next
    <3>2. CASE x # e
      <4>1. x \in 1 .. k /\ x \in 1 .. NumEntries /\ x \in 1 .. NumEntries + 1 /\ x + 1 \in 1 .. NumEntries + 1
            /\ x # e + 1 /\ x + 1 # e + 1
        BY <1>2, <1>5, <1>8, <3>2
      <4>2. t[x] = s[x] /\ t[x + 1] = s[x + 1] /\ new.db[x] = load.db[x]
        BY <2>1, <2>4, <2>5, <3>2, <4>1
      <4>3. Read(load, s, x)
        BY <1>1, <4>1
      <4>. QED
        BY <4>2, <4>3 DEF Read
    <3>. QED
      BY <3>1, <3>2
  <2>8. ASSUME NEW x \in e + 1 .. NumEntries PROVE new.db[x] = Free
    <3>1. x \in 1 .. NumEntries /\ x # e
      BY <1>2
    <3>. QED
      BY <1>5, <1>8, <2>1, <2>4, <3>1
  <2>9. e <= e
    BY <1>2
  <2>. HIDE DEF new
  <2>10. Shape(new, e, t, failing)
    BY <1>3, <2>1, <2>5, <2>6, <2>7, <2>8, <2>9 DEF Shape
  <2>. QED
    BY <2>10 DEF new
<1>9. \/ /\ new = LoadOf(load.db, p, k, FALSE)
         /\ load.going => what = "header" \/ ~Readable(file, p)
      \/ /\ load.going /\ Readable(file, p) /\ (what = "value" \/ ~Full(file, p))
         /\ new = LoadOf([load.db EXCEPT ![e] = EntryOf(IdAt(file, p), load.db[e].val)], p, k, FALSE)
      \/ /\ load.going /\ Full(file, p)
         /\ new = LoadOf([load.db EXCEPT ![e] = EntryOf(IdAt(file, p), ValueAt(file, p))],
                         p + 3 + PiecesAt(file, p), k + 1, TRUE)
  BY <1>1, ReadRecordIs, Zenon
<1>. QED
  BY <1>6, <1>7, <1>8, <1>9, Zenon

(* So a load has it.                                                       *)
LEMMA LoadShape ==
    ASSUME PrmAssumption, file \in Seq(FileCells), NEW failing, NEW fails \in {"none", "header", "value"}
    PROVE  \E s : Shape(Load(failing, fails), NumEntries, s, failing)
<1>. DEFINE N == NumEntries
<1>1. PICK read \in [0 .. N -> Loads] :
          /\ read[0] = LoadOf(Clear, 1, 0, TRUE) /\ Load(failing, fails) = read[N]
          /\ \A e \in 1 .. N : read[e] = ReadRecord(read[e - 1], e, Failure(e, failing, fails))
  BY LoadIs
<1>2. N \in Nat \ {0}
  BY DEF PrmAssumption
<1>. DEFINE Good == {e \in Nat : e <= N => \E s : Shape(read[e], e, s, failing)}
<1>3. 0 \in Good
  <2>. DEFINE s == [x \in 1 .. N + 1 |-> 1]
              load == read[0]
  <2>1. load \in Loads /\ load.db = Clear /\ load.next = 1 /\ load.records = 0 /\ load.going = TRUE
    <3>1. Fields(LoadOf(Clear, 1, 0, TRUE), Clear, 1, 0, TRUE)
      BY LoadOfFields, Zenon
    <3>2. load = LoadOf(Clear, 1, 0, TRUE) /\ load \in Loads
      <4>1. 0 \in 0 .. N
        BY <1>2
      <4>. HIDE DEF N
      <4>2. read[0] \in Loads
        BY <1>1, <4>1
      <4>. QED
        BY <1>1, <4>2
    <3>. HIDE DEF load
    <3>3. Fields(load, Clear, 1, 0, TRUE)
      BY <3>1, <3>2, Zenon
    <3>. QED
      BY <3>2, <3>3 DEF Fields
  <2>2. s \in [1 .. N + 1 -> Nat \ {0}] /\ s[1] = 1
    BY <1>2
  <2>3. \A x \in 1 .. N : load.db[x] = Free
    BY <2>1, ClearIs
  <2>. HIDE DEF s, load
  <2>4. Shape(load, 0, s, failing)
    BY <2>1, <2>2, <2>3 DEF Shape
  <2>. QED
    BY <2>4 DEF load
<1>4. ASSUME NEW e \in Nat, e \in Good PROVE e + 1 \in Good
  <2>. SUFFICES ASSUME e + 1 <= N PROVE \E t : Shape(read[e + 1], e + 1, t, failing)
    OBVIOUS
  <2>1. PICK s : Shape(read[e], e, s, failing)
    BY <1>2, <1>4
  <2>2. e + 1 \in 1 .. N /\ (e + 1) - 1 = e
    BY <1>2
  <2>3. read[e + 1] = ReadRecord(read[e], e + 1, Failure(e + 1, failing, fails))
    BY <1>1, <2>2
  <2>4. Shape(read[e], (e + 1) - 1, s, failing)
    BY <2>1, <2>2
  <2>. QED
    BY <2>2, <2>3, <2>4, ShapeStep
<1>5. N \in Good
  <2>. HIDE DEF Good
  <2>. QED
    BY <1>2, <1>3, <1>4, Induction
<1>. QED
  BY <1>1, <1>2, <1>5

(* A record that is there is what is read.                                 *)
LEMMA RecordReads ==
    ASSUME NEW f \in Seq(FileCells), NEW p \in Nat \ {0}, NEW item \in Entries, RecordStands(f, p, item)
    PROVE  /\ Readable(f, p) /\ PiecesAt(f, p) = Len(item.val) /\ IdAt(f, p) = item.id
           /\ ValueAt(f, p) = item.val /\ p + 2 + PiecesAt(f, p) <= Len(f)
           /\ item.val # <<>> => Full(f, p)
           /\ item.used => EntryOf(IdAt(f, p), ValueAt(f, p)) = item
<1>. DEFINE n == Len(item.val)
            v == item.val
<1>1. n \in Nat /\ Len(f) \in Nat /\ v \in Seq(FileCells)
  <2>1. Len(f) \in Nat
    OBVIOUS
  <2>2. Len(item.val) \in Nat /\ item.val \in Seq(FileCells)
    BY EntryTypes
  <2>. QED
    BY <2>1, <2>2
<1>2. /\ p + 2 + n <= Len(f)
      /\ f[p] = <<"delim", 0>> /\ f[p + 1] = <<"size", n>> /\ f[p + 2] = <<"id", item.id>>
      /\ \A i \in 1 .. n : f[p + 2 + i] = v[i]
  BY DEF RecordStands
<1>3. Readable(f, p)
  <2>1. p <= Len(f) /\ p + 1 <= Len(f) /\ p + 2 <= Len(f)
    <3>. DEFINE L == Len(f)
    <3>1. p + 2 + n <= L /\ n \in Nat /\ L \in Nat
      BY <1>1, <1>2
    <3>. HIDE DEF n, L
    <3>2. p <= L /\ p + 1 <= L /\ p + 2 <= L
      BY <3>1
    <3>. QED
      BY <3>2 DEF L
  <2>2. f[p][1] = "delim" /\ f[p + 1][1] = "size"
    BY <1>2
  <2>. QED
    BY <2>1, <2>2 DEF Readable
<1>4. PiecesAt(f, p) = n /\ IdAt(f, p) = item.id
  BY <1>2 DEF PiecesAt, IdAt
<1>5. ValueAt(f, p) = v
  <2>1. ValueAt(f, p) = [i \in 1 .. n |-> v[i]]
    BY <1>2, <1>4 DEF ValueAt
  <2>2. v = [i \in 1 .. n |-> v[i]]
    BY <1>1
  <2>. QED
    BY <2>1, <2>2
<1>6. v # <<>> => Full(f, p)
  <2>1. v # <<>> => n # 0
    BY <1>1
  <2>. QED
    BY <1>2, <1>3, <1>4, <2>1 DEF Full
<1>7. item.used => EntryOf(item.id, v) = item
  BY DEF Entries, EntryOf
<1>. QED
  BY <1>2, <1>3, <1>4, <1>5, <1>6, <1>7

(* Where a file begins with the cells of a table.                          *)
Begins(f, cells) == Len(cells) <= Len(f) /\ \A i \in 1 .. Len(cells) : f[i] = cells[i]

(* The entries in use are the first ones.                                  *)
UsedUpTo(db, k) == \A e \in 1 .. NumEntries : db[e].used <=> e <= k
Packed(db)      == \E k \in 0 .. NumEntries : UsedUpTo(db, k)
HasValues(db)   == \A e \in 1 .. NumEntries : db[e].used => db[e].val # <<>>

(* A load that meets no read error reads what a save wrote that ended      *)
(* well.                                                                   *)
LEMMA WholeIsRead ==
    ASSUME PrmAssumption, file \in Seq(FileCells), NEW db \in Dbs, NEW k \in 0 .. NumEntries, UsedUpTo(db, k),
           HasValues(db), Begins(file, CellsOf(db)), NEW load, NEW s, Shape(load, NumEntries, s, 0)
    PROVE  \A e \in 1 .. k : load.db[e] = db[e]
<1>. DEFINE N == NumEntries
            L(x) == Len(FirstCells(db, x))
            Sofar(x) == x <= load.records /\ s[x + 1] = L(x) + 1 /\ \A e \in 1 .. x : load.db[e] = db[e]
            Good == {x \in Nat : x <= k => Sofar(x)}
<1>1. N \in Nat \ {0} /\ k \in 0 .. N
  BY DEF PrmAssumption
<1>. HIDE DEF N
<1>2. /\ load \in Loads /\ s[1] = 1 /\ load.records \in Nat /\ load.records <= N
      /\ (load.going => load.records = N) /\ s[load.records + 1] = load.next
      /\ ~load.going => ~Full(file, load.next)
      /\ \A x \in 1 .. load.records : Read(load, s, x)
  <2>1. 0 \notin 1 .. NumEntries
    OBVIOUS
  <2>2. load \in Loads
    BY DEF Shape
  <2>3. load.records \in Nat
    BY <2>2, LoadFields
  <2>. QED
    BY <2>1, <2>3 DEF Shape, N
<1>3. 0 \in Good
  <2>1. L(0) = 0
    <3>1. FirstCells(db, 0) = <<>>
      BY FirstIs
    <3>. QED
      BY <3>1
  <2>. HIDE DEF L
  <2>2. Sofar(0)
    BY <1>2, <2>1
  <2>. QED
    BY <2>2
<1>4. ASSUME NEW x \in Nat, x \in Good PROVE x + 1 \in Good
  <2>. SUFFICES ASSUME x + 1 <= k PROVE Sofar(x + 1)
    OBVIOUS
  <2>. DEFINE e == x + 1
              p == s[e]
  <2>1. e \in 1 .. N /\ e <= k /\ e - 1 = x /\ Sofar(x)
    BY <1>1, <1>4
  <2>2. db[e].used /\ db[e] \in Entries /\ db[e].val # <<>>
    BY <2>1 DEF UsedUpTo, HasValues, Dbs, N
  <2>3. /\ RecordStands(CellsOf(db), L(x) + 1, db[e]) /\ L(e) = L(x) + 3 + Len(db[e].val)
        /\ L(x) \in Nat /\ L(e) \in Nat
    <3>. HIDE DEF e
    <3>1. /\ RecordStands(CellsOf(db), L(e - 1) + 1, db[e]) /\ L(e) = L(e - 1) + 3 + Len(db[e].val)
          /\ L(e - 1) \in Nat /\ L(e) \in Nat
      BY <2>1, <2>2, CellsHave DEF N
    <3>. QED
      BY <2>1, <3>1
  <2>. HIDE DEF L
  <2>4. p = L(x) + 1 /\ p \in Nat \ {0}
    BY <2>1, <2>3
  <2>5. RecordStands(file, p, db[e])
    <3>1. CellsOf(db) \in Seq(FileCells)
      <4>1. NumEntries \in 0 .. NumEntries
        BY <1>1 DEF N
      <4>. QED
        BY <4>1, FirstIs DEF CellsOf
    <3>2. RecordStands(CellsOf(db), p, db[e])
      BY <2>3, <2>4
    <3>. HIDE DEF p, e
    <3>. QED
      BY <2>2, <2>4, <3>1, <3>2, RecordStays DEF Begins
  <2>6. /\ Full(file, p) /\ PiecesAt(file, p) = Len(db[e].val) /\ EntryOf(IdAt(file, p), ValueAt(file, p)) = db[e]
    <3>. HIDE DEF p, e
    <3>. QED
      BY <2>2, <2>4, <2>5, RecordReads
  <2>7. e <= load.records
    <3>1. ASSUME load.records = x PROVE FALSE
      <4>1. load.next = p
        BY <1>2, <3>1
      <4>2. load.going
        BY <1>2, <2>6, <4>1
      <4>. QED
        BY <1>1, <1>2, <2>1, <3>1, <4>2
    <3>. QED
      BY <1>2, <2>1, <3>1
  <2>8. load.db[e] = db[e] /\ s[e + 1] = p + 3 + PiecesAt(file, p)
    <3>1. Read(load, s, e)
      BY <1>1, <1>2, <2>1, <2>7
    <3>. QED
      BY <2>6, <3>1 DEF Read
  <2>9. s[e + 1] = L(e) + 1
    <3>. DEFINE n == Len(db[e].val)
    <3>1. n \in Nat /\ s[e + 1] = p + 3 + n /\ L(e) = L(x) + 3 + n /\ p = L(x) + 1
      BY <2>2, <2>3, <2>4, <2>6, <2>8, EntryTypes
    <3>. HIDE DEF n, e, p
    <3>. QED
      BY <2>3, <3>1
  <2>10. \A y \in 1 .. e : load.db[y] = db[y]
    BY <2>1, <2>8
  <2>11. Sofar(e)
    BY <2>7, <2>9, <2>10
  <2>. QED
    BY <2>11
<1>5. k \in Good
  <2>. HIDE DEF Good
  <2>. QED
    BY <1>1, <1>3, <1>4, Induction
<1>. QED
  BY <1>1, <1>5

LEMMA FirstEntryIs ==
    ASSUME NEW n \in Nat, NEW S \in SUBSET (1 .. n), S # {}
    PROVE  FirstEntry(S) \in S /\ \A other \in S : FirstEntry(S) <= other
<1>1. \E e \in S : \A other \in S : e <= other
  <2>1. S \in SUBSET Nat
    OBVIOUS
  <2>. QED
    BY <2>1, HasLeast
<1>. QED
  BY <1>1, Zenon DEF FirstEntry

LEMMA FirstEntryAgrees ==
    ASSUME NEW n \in Nat, NEW S \in SUBSET (1 .. n), NEW T \in SUBSET (1 .. n), NEW e \in S, e \in T,
           \A other \in S : e <= other, \A other \in T : e <= other
    PROVE  FirstEntry(S) = e /\ FirstEntry(T) = e
<1>1. /\ FirstEntry(S) \in S /\ FirstEntry(S) <= e
      /\ FirstEntry(T) \in T /\ FirstEntry(T) <= e
  BY FirstEntryIs
<1>. DEFINE a == FirstEntry(S)
            b == FirstEntry(T)
<1>2. a \in S /\ a <= e /\ b \in T /\ b <= e
  BY <1>1
<1>. HIDE DEF a, b
<1>3. e <= a /\ e <= b /\ a \in Nat /\ b \in Nat /\ e \in Nat
  BY <1>2
<1>4. a = e /\ b = e
  BY <1>2, <1>3
<1>. QED
  BY <1>4 DEF a, b

(* Which entry getPrm looks at.                                            *)
LEMMA HoldingIs ==
    ASSUME PrmAssumption, NEW db \in Dbs, NEW p
    PROVE  /\ Holding(db, p) \in SUBSET (1 .. NumEntries)
           /\ Valid(db, p) => /\ FirstEntry(Holding(db, p)) \in 1 .. NumEntries
                              /\ db[FirstEntry(Holding(db, p))].used /\ db[FirstEntry(Holding(db, p))].id = p
                              /\ GetPrm(db, p) = db[FirstEntry(Holding(db, p))].val
<1>1. Holding(db, p) \in SUBSET (1 .. NumEntries)
  BY DEF Holding
<1>2. ASSUME Valid(db, p) PROVE FirstEntry(Holding(db, p)) \in Holding(db, p)
  <2>1. NumEntries \in Nat
    BY DEF PrmAssumption
  <2>2. Holding(db, p) # {}
    BY <1>2 DEF Valid
  <2>. QED
    BY <1>1, <2>1, <2>2, FirstEntryIs, Zenon
<1>. QED
  BY <1>1, <1>2 DEF Holding, GetPrm

(* Tables that agree on the entries in use of the one.                     *)
LEMMA SameForGetPrm ==
    ASSUME PrmAssumption, NEW one \in Dbs, NEW other \in Dbs, NEW k \in 0 .. NumEntries, UsedUpTo(one, k),
           \A e \in 1 .. k : other[e] = one[e], NEW p, Valid(one, p)
    PROVE  Valid(other, p) /\ GetPrm(other, p) = GetPrm(one, p)
<1>. DEFINE S == Holding(one, p)
            T == Holding(other, p)
            x == FirstEntry(S)
<1>1. NumEntries \in Nat \ {0}
  BY DEF PrmAssumption
<1>2. S \in SUBSET (1 .. NumEntries) /\ T \in SUBSET (1 .. NumEntries) /\ S # {}
  BY HoldingIs DEF Valid
<1>3. x \in S /\ \A e \in S : x <= e
  BY <1>1, <1>2, FirstEntryIs
<1>4. \A e \in S : e <= k
  BY <1>2 DEF Holding, UsedUpTo
<1>. HIDE DEF x
<1>5. x \in 1 .. k /\ x \in T
  <2>1. x \in 1 .. k
    BY <1>2, <1>3, <1>4
  <2>2. other[x] = one[x] /\ one[x].used /\ one[x].id = p /\ x \in 1 .. NumEntries
    BY <1>2, <1>3, <2>1 DEF Holding
  <2>. QED
    BY <2>1, <2>2 DEF Holding
<1>6. ASSUME NEW e \in T PROVE x <= e
  <2>1. CASE e <= k
    <3>1. e \in 1 .. k /\ other[e] = one[e] /\ other[e].used /\ other[e].id = p /\ e \in 1 .. NumEntries
      BY <1>2, <1>6, <2>1 DEF Holding
    <3>2. e \in S
      BY <3>1 DEF Holding
    <3>. QED
      BY <1>3, <3>2
  <2>2. CASE e > k
    BY <1>1, <1>2, <1>5, <1>6, <2>2
  <2>. QED
    BY <1>1, <1>2, <2>1, <2>2
<1>. HIDE DEF S, T
<1>7. FirstEntry(S) = x /\ FirstEntry(T) = x
  BY <1>1, <1>2, <1>3, <1>5, <1>6, FirstEntryAgrees
<1>8. other[x] = one[x]
  BY <1>5
<1>9. Valid(other, p) /\ GetPrm(other, p) = other[x].val /\ GetPrm(one, p) = one[x].val
  BY <1>5, <1>7 DEF Valid, GetPrm, S, T
<1>. QED
  BY <1>8, <1>9

(* The records that were read lie one behind the other.                    *)
LEMMA RecordsInOrder ==
    ASSUME PrmAssumption, file \in Seq(FileCells), NEW load, NEW s, NEW failing,
           Shape(load, NumEntries, s, failing)
    PROVE  \A y \in 1 .. load.records + 1 : \A x \in 1 .. y - 1 :
               s[x] + 3 + PiecesAt(file, s[x]) <= s[y] /\ PiecesAt(file, s[x]) \in Nat
<1>. DEFINE k == load.records
            size(x) == PiecesAt(file, s[x])
            Order(y) == \A x \in 1 .. y - 1 : s[x] + 3 + size(x) <= s[y]
            Good == {y \in Nat : y <= k + 1 => Order(y)}
<1>1. NumEntries \in Nat \ {0} /\ k \in Nat /\ k <= NumEntries
  <2>1. load \in Loads /\ k <= NumEntries
    BY DEF Shape
  <2>. QED
    BY <2>1, LoadFields DEF PrmAssumption
<1>2. ASSUME NEW x \in 1 .. k PROVE s[x] \in Nat \ {0} /\ s[x + 1] = s[x] + 3 + size(x) /\ size(x) \in Nat
  <2>1. Read(load, s, x) /\ s[x] \in Nat \ {0}
    <3>1. x \in 1 .. NumEntries + 1
      BY <1>1
    <3>. QED
      BY <3>1 DEF Shape
  <2>2. Readable(file, s[x]) /\ s[x + 1] = s[x] + 3 + size(x)
    BY <2>1 DEF Read, Full
  <2>3. size(x) \in Nat
    BY <2>1, <2>2, ReadableIs
  <2>. QED
    BY <2>1, <2>2, <2>3
<1>. HIDE DEF k, size
<1>3. 0 \in Good
  OBVIOUS
<1>4. ASSUME NEW y \in Nat, y \in Good PROVE y + 1 \in Good
  <2>. SUFFICES ASSUME y + 1 <= k + 1, NEW x \in 1 .. y PROVE s[x] + 3 + size(x) <= s[y + 1]
    OBVIOUS
  <2>1. y \in 1 .. k /\ x \in 1 .. k
    BY <1>1
  <2>2. /\ s[y] \in Nat \ {0} /\ s[y + 1] = s[y] + 3 + size(y) /\ size(y) \in Nat
        /\ s[x] \in Nat \ {0} /\ size(x) \in Nat
    BY <1>2, <2>1
  <2>3. x # y => s[x] + 3 + size(x) <= s[y]
    BY <1>1, <1>4, <2>1
  <2>. QED
    BY <2>2, <2>3
<1>5. \A y \in Nat : y \in Good
  <2>. HIDE DEF Good
  <2>. QED
    BY <1>3, <1>4, Induction
<1>6. ASSUME NEW y \in 1 .. k + 1, NEW x \in 1 .. y - 1 PROVE s[x] + 3 + size(x) <= s[y] /\ size(x) \in Nat
  <2>1. y \in Good /\ y <= k + 1 /\ x \in 1 .. k
    BY <1>1, <1>5
  <2>. QED
    BY <1>2, <2>1
<1>. QED
  BY <1>6 DEF k, size

(* Every record that begins behind a place, and that no save cut through,  *)
(* has a value that was given.                                             *)
Uncut(f, p, places) == \A b \in places : b < p \/ b >= p + 2 + PiecesAt(f, p)
SoundFrom(f, places, values, q) ==
    \A p \in Nat \ {0} :
        p > q /\ Readable(f, p) /\ IdAt(f, p) \in Params /\ Uncut(f, p, places)
            => p + 2 + PiecesAt(f, p) <= Len(f) /\ ValueAt(f, p) \in values[IdAt(f, p)]

Holder(db, p) == FirstEntry(Holding(db, p))
Odd(db) == {p \in Params : Valid(db, p) /\ GetPrm(db, p) \notin given[p]}

(* A parameter with a value that was never given to it: a save was cut     *)
(* short within its record, or the read failed there.                      *)
LEMMA OddIsCut ==
    ASSUME PrmAssumption, file \in Seq(FileCells), SoundFrom(file, torn, given, 0),
           NEW load, NEW s, NEW failing, Shape(load, NumEntries, s, failing), NEW p \in Odd(load.db)
    PROVE  /\ Holder(load.db, p) \in 1 .. NumEntries /\ Holder(load.db, p) <= load.records + 1
           /\ load.db[Holder(load.db, p)].id = p
           /\ s[Holder(load.db, p)] \in Nat \ {0} /\ PiecesAt(file, s[Holder(load.db, p)]) \in Nat
           /\ Holder(load.db, p) = failing \/ ~Uncut(file, s[Holder(load.db, p)], torn)
<1>. DEFINE k == load.records
            x == Holder(load.db, p)
            c == s[x]
<1>1. NumEntries \in Nat \ {0} /\ k \in Nat /\ k <= NumEntries /\ load.db \in Dbs
  <2>1. load \in Loads /\ k <= NumEntries
    BY DEF Shape
  <2>. QED
    BY <2>1, LoadFields DEF PrmAssumption
<1>2. p \in Params /\ Valid(load.db, p) /\ GetPrm(load.db, p) \notin given[p]
  BY DEF Odd
<1>3. x \in 1 .. NumEntries /\ load.db[x].used /\ load.db[x].id = p /\ load.db[x].val \notin given[p]
  BY <1>1, <1>2, HoldingIs DEF Holder
<1>. HIDE DEF x
<1>4. c \in Nat \ {0}
  <2>1. x \in 1 .. NumEntries + 1
    BY <1>1, <1>3
  <2>. QED
    BY <2>1 DEF Shape
<1>5. CASE x \in 1 .. k
  <2>1. Full(file, c) /\ load.db[x] = EntryOf(IdAt(file, c), ValueAt(file, c))
    BY <1>5 DEF Shape, Read
  <2>2. Readable(file, c) /\ c + 2 + PiecesAt(file, c) <= Len(file)
    BY <2>1 DEF Full
  <2>3. PiecesAt(file, c) \in Nat
    BY <1>4, <2>2, ReadableIs
  <2>4. IdAt(file, c) = p /\ ValueAt(file, c) \notin given[p]
    BY <1>3, <2>1 DEF EntryOf
  <2>5. c > 0
    BY <1>4
  <2>6. ~Uncut(file, c, torn)
    BY <1>2, <1>4, <2>2, <2>4, <2>5 DEF SoundFrom
  <2>7. x <= k + 1
    BY <1>1, <1>5
  <2>. QED
    BY <1>3, <1>4, <2>3, <2>6, <2>7 DEF x
<1>6. CASE x \notin 1 .. k
  <2>1. x \in k + 1 .. NumEntries
    BY <1>1, <1>3, <1>6
  <2>2. load.db[x] # Free
    BY <1>3, ClearIs
  <2>3. /\ x = k + 1 /\ Readable(file, c) /\ load.db[x] = EntryOf(IdAt(file, c), <<>>)
        /\ x = failing \/ ~Full(file, c)
    BY <2>1, <2>2 DEF Shape, HalfRead
  <2>4. PiecesAt(file, c) \in Nat
    BY <1>4, <2>3, ReadableIs
  <2>5. IdAt(file, c) = p /\ <<>> \notin given[p]
    BY <1>3, <2>3 DEF EntryOf
  <2>6. x = failing \/ ~Uncut(file, c, torn)
    <3>. SUFFICES ASSUME ~Full(file, c), Uncut(file, c, torn) PROVE FALSE
      BY <2>3
    <3>1. c > 0
      BY <1>4
    <3>2. c + 2 + PiecesAt(file, c) <= Len(file) /\ ValueAt(file, c) \in given[p]
      BY <1>2, <1>4, <2>3, <2>5, <3>1 DEF SoundFrom
    <3>3. PiecesAt(file, c) = 0
      BY <2>3, <3>2 DEF Full
    <3>4. ValueAt(file, c) = <<>>
      BY <1>4, <2>3, <3>2, <3>3, ReadableIs
    <3>. QED
      BY <2>5, <3>2, <3>4
  <2>. QED
    <3>1. x <= k + 1
      BY <1>1, <2>3
    <3>. QED
      BY <1>3, <1>4, <2>4, <2>6, <3>1 DEF x
<1>. QED
  BY <1>5, <1>6 DEF x

(* No two of them have the same cause.                                     *)
LEMMA OddAreCounted ==
    ASSUME PrmAssumption, file \in Seq(FileCells), torn \in SUBSET (0 .. Len(file)),
           SoundFrom(file, torn, given, 0), NEW load, NEW s, NEW failing, Shape(load, NumEntries, s, failing)
    PROVE  Cardinality(Odd(load.db)) <= Cardinality(torn) + (IF failing \in 1 .. NumEntries THEN 1 ELSE 0)
<1>. DEFINE odd == Odd(load.db)
            x(p) == Holder(load.db, p)
            c(p) == s[x(p)]
            size(p) == PiecesAt(file, c(p))
            cuts(p) == {b \in torn : c(p) <= b /\ b < c(p) + 2 + size(p)}
            extra == IF failing \in 1 .. NumEntries THEN {-1} ELSE {}
            cause == [p \in odd |-> IF cuts(p) # {} THEN CHOOSE b \in cuts(p) : TRUE ELSE -1]
<1>1. ASSUME NEW p \in odd
      PROVE  /\ x(p) \in 1 .. NumEntries /\ x(p) <= load.records + 1 /\ load.db[x(p)].id = p
             /\ c(p) \in Nat \ {0} /\ size(p) \in Nat
             /\ x(p) = failing \/ ~Uncut(file, c(p), torn)
  BY OddIsCut, Zenon
<1>2. NumEntries \in Nat \ {0} /\ load.records \in Nat /\ Len(file) \in Nat
  <2>1. load \in Loads
    BY DEF Shape
  <2>2. load.records \in Nat
    BY <2>1, LoadFields
  <2>. QED
    BY <2>2 DEF PrmAssumption
<1>3. ASSUME NEW p \in odd, NEW q \in odd, x(p) < x(q) PROVE c(p) + 3 + size(p) <= c(q)
  <2>. DEFINE a == x(p)
              b == x(q)
  <2>1. a \in 1 .. NumEntries /\ b \in 1 .. NumEntries /\ b <= load.records + 1 /\ a < b
    BY <1>1, <1>3
  <2>. HIDE DEF a, b
  <2>2. b \in 1 .. load.records + 1 /\ a \in 1 .. b - 1
    BY <1>2, <2>1
  <2>3. s[a] + 3 + PiecesAt(file, s[a]) <= s[b]
    BY <2>2, RecordsInOrder
  <2>. QED
    BY <2>3 DEF a, b
<1>4. ASSUME NEW p \in odd PROVE cuts(p) # {} \/ x(p) = failing
  <2>1. torn \in SUBSET Nat
    BY <1>2
  <2>. DEFINE cp == c(p)
              sp == size(p)
  <2>2. /\ cp \in Nat /\ sp \in Nat
        /\ x(p) = failing \/ ~Uncut(file, cp, torn)
    BY <1>1
  <2>3. ASSUME ~Uncut(file, cp, torn) PROVE \E b \in torn : cp <= b /\ b < cp + 2 + sp
    <3>1. PICK b \in torn : ~(b < cp \/ b >= cp + 2 + sp)
      BY <2>3 DEF Uncut
    <3>2. cp \in Nat /\ sp \in Nat /\ b \in Nat
      BY <1>1, <2>1
    <3>. HIDE DEF cp, sp
    <3>3. cp <= b /\ b < cp + 2 + sp
      BY <3>1, <3>2
    <3>. QED
      BY <3>3
  <2>. HIDE DEF cp, sp
  <2>4. x(p) = failing \/ \E b \in torn : cp <= b /\ b < cp + 2 + sp
    BY <2>2, <2>3
  <2>. QED
    BY <2>4 DEF cp, sp
<1>. HIDE DEF x, size, c
<1>5. ASSUME NEW p \in odd, cuts(p) # {} PROVE cause[p] \in cuts(p)
  <2>1. cause[p] = CHOOSE b \in cuts(p) : TRUE
    BY <1>5
  <2>. HIDE DEF cuts
  <2>. QED
    BY <1>5, <2>1, Zenon
<1>6. ASSUME NEW p \in odd, cuts(p) = {} PROVE cause[p] = -1 /\ x(p) = failing /\ failing \in 1 .. NumEntries
  BY <1>1, <1>4, <1>6
<1>. HIDE DEF cause
<1>6a. torn \in SUBSET Nat
  BY <1>2
<1>6b. ASSUME NEW p \in odd, cuts(p) # {}
       PROVE  cause[p] \in Nat /\ c(p) <= cause[p] /\ cause[p] < c(p) + 2 + size(p)
  <2>1. cause[p] \in torn /\ c(p) <= cause[p] /\ cause[p] < c(p) + 2 + size(p)
    BY <1>5, <1>6b
  <2>. QED
    BY <1>6a, <2>1
<1>7. ASSUME NEW p \in odd PROVE cause[p] \in torn \cup extra
  <2>1. CASE cuts(p) # {}
    BY <1>5, <2>1
  <2>2. CASE cuts(p) = {}
    BY <1>6, <2>2
  <2>. QED
    BY <2>1, <2>2
<1>8. ASSUME NEW p \in odd, NEW q \in odd, x(p) < x(q) PROVE cause[p] # cause[q]
  <2>1. /\ c(p) + 3 + size(p) <= c(q) /\ c(p) \in Nat /\ size(p) \in Nat /\ c(q) \in Nat /\ size(q) \in Nat
        /\ x(p) \in Nat /\ x(q) \in Nat
    BY <1>1, <1>3, <1>8
  <2>2. cuts(p) # {} => cause[p] \in Nat /\ cause[p] < c(p) + 2 + size(p)
    BY <1>6b
  <2>3. cuts(q) # {} => cause[q] \in Nat /\ c(q) <= cause[q]
    BY <1>6b
  <2>4. cuts(p) = {} => cause[p] = -1 /\ x(p) = failing
    BY <1>6
  <2>5. cuts(q) = {} => cause[q] = -1 /\ x(q) = failing
    BY <1>6
  <2>. DEFINE e == cuts(p) = {}
              f == cuts(q) = {}
              cp == cause[p]
              cq == cause[q]
  <2>6. /\ ~e => cp \in Nat /\ cp < c(p) + 2 + size(p)
        /\ ~f => cq \in Nat /\ c(q) <= cq
        /\ e => cp = -1 /\ x(p) = failing
        /\ f => cq = -1 /\ x(q) = failing
    BY <2>2, <2>3, <2>4, <2>5
  <2>. HIDE DEF e, f, cp, cq, cuts
  <2>7. cp # cq
    BY <1>8, <2>1, <2>6
  <2>. QED
    BY <2>7 DEF cp, cq
<1>9. cause \in Injection(odd, torn \cup extra)
  <2>1. cause \in [odd -> torn \cup extra]
    <3>1. cause = [p \in odd |-> cause[p]]
      BY DEF cause
    <3>. QED
      BY <1>7, <3>1
  <2>2. ASSUME NEW p \in odd, NEW q \in odd, cause[p] = cause[q] PROVE p = q
    <3>1. x(p) \in Nat /\ x(q) \in Nat /\ load.db[x(p)].id = p /\ load.db[x(q)].id = q
      BY <1>1
    <3>2. x(p) = x(q)
      BY <1>8, <2>2, <3>1
    <3>. QED
      BY <3>1, <3>2
  <2>. DEFINE T == torn \cup extra
  <2>. HIDE DEF T, odd
  <2>3. cause \in Injection(odd, T)
    <3>1. cause \in [odd -> T]
      BY <2>1 DEF T
    <3>. HIDE DEF T
    <3>. QED
      BY <2>2, <3>1 DEF Injection, IsInjective
  <2>. QED
    BY <2>3 DEF T
<1>10. IsFiniteSet(torn) /\ Cardinality(torn) \in Nat
  <2>1. IsFiniteSet(0 .. Len(file))
    <3>1. 0 \in Int /\ Len(file) \in Int
      BY <1>2
    <3>. QED
      BY <3>1, FS_Interval
  <2>2. IsFiniteSet(torn)
    BY <2>1, FS_Subset
  <2>. QED
    BY <2>2, FS_CardinalityType
<1>11. /\ IsFiniteSet(torn \cup extra)
       /\ Cardinality(torn \cup extra) <= Cardinality(torn) + (IF failing \in 1 .. NumEntries THEN 1 ELSE 0)
  <2>1. CASE failing \in 1 .. NumEntries
    <3>1. extra = {-1}
      BY <2>1
    <3>2. /\ IsFiniteSet(torn \cup {-1})
          /\ Cardinality(torn \cup {-1}) = IF -1 \in torn THEN Cardinality(torn) ELSE Cardinality(torn) + 1
      BY <1>10, FS_AddElement
    <3>. QED
      BY <1>10, <2>1, <3>1, <3>2
  <2>2. CASE failing \notin 1 .. NumEntries
    <3>1. torn \cup extra = torn
      BY <2>2
    <3>. DEFINE n == Cardinality(torn)
    <3>2. n \in Nat /\ n <= n + (IF failing \in 1 .. NumEntries THEN 1 ELSE 0)
      <4>1. n \in Nat
        BY <1>10
      <4>. HIDE DEF n
      <4>. QED
        BY <2>2, <4>1
    <3>. QED
      BY <1>10, <3>1, <3>2
  <2>. QED
    BY <2>1, <2>2
<1>12. IsFiniteSet(odd) /\ Cardinality(odd) <= Cardinality(torn \cup extra)
  <2>. HIDE DEF odd, extra
  <2>. QED
    BY <1>9, <1>11, FS_Injection
<1>13. Cardinality(odd) \in Nat /\ Cardinality(torn \cup extra) \in Nat
  BY <1>11, <1>12, FS_CardinalityType
<1>. QED
  <2>. DEFINE o == Cardinality(odd)
              t == Cardinality(torn \cup extra)
              u == Cardinality(torn) + (IF failing \in 1 .. NumEntries THEN 1 ELSE 0)
  <2>1. o \in Nat /\ t \in Nat /\ u \in Nat /\ o <= t /\ t <= u
    BY <1>10, <1>11, <1>12, <1>13
  <2>. HIDE DEF o, t, u
  <2>2. o <= u
    BY <2>1
  <2>. QED
    BY <2>2 DEF o, u

(* What a write leaves in the file.                                        *)
LEMMA OverwrittenIs ==
    ASSUME file \in Seq(FileCells), position \in 0 .. Len(file), NEW cells \in Seq(FileCells)
    PROVE  /\ Overwritten(cells) \in Seq(FileCells) /\ Len(Overwritten(cells)) \in Nat
           /\ Len(file) <= Len(Overwritten(cells)) /\ position + Len(cells) <= Len(Overwritten(cells))
           /\ Len(Overwritten(cells)) = Len(file) \/ Len(Overwritten(cells)) <= position + Len(cells)
           /\ \A i \in 1 .. Len(Overwritten(cells)) :
                 i > position + Len(cells) => i <= Len(file) /\ Overwritten(cells)[i] = file[i]
           /\ SubSeq(Overwritten(cells), 1, position + Len(cells)) = SubSeq(file, 1, position) \o cells
<1>. DEFINE q == position
            n == Len(cells)
            L == Len(file)
            top == IF q + n > L THEN q + n ELSE L
            new == Overwritten(cells)
            cellAt(i) == IF i > q /\ i <= q + n THEN cells[i - q] ELSE file[i]
<1>1. q \in Nat /\ n \in Nat /\ L \in Nat /\ q <= L
  OBVIOUS
<1>2. new = [i \in 1 .. top |-> cellAt(i)]
  BY DEF Overwritten
<1>3. \A i \in 1 .. n : cells[i] \in FileCells
  OBVIOUS
<1>4. \A i \in 1 .. L : file[i] \in FileCells
  OBVIOUS
<1>5. SubSeq(file, 1, q) \in Seq(FileCells) /\ Len(SubSeq(file, 1, q)) = q
      /\ \A i \in 1 .. q : SubSeq(file, 1, q)[i] = file[i]
  OBVIOUS
<1>. HIDE DEF q, n, L, new
<1>6. top \in Nat /\ L <= top /\ q + n <= top /\ (top = L \/ top <= q + n)
  BY <1>1
<1>. HIDE DEF top
<1>7. ASSUME NEW i \in 1 .. top PROVE cellAt(i) \in FileCells
  <2>1. CASE i > q /\ i <= q + n
    <3>1. i - q \in 1 .. n
      BY <1>1, <2>1
    <3>. QED
      BY <1>3, <2>1, <3>1
  <2>2. CASE ~(i > q /\ i <= q + n)
    <3>1. i \in 1 .. L
      BY <1>1, <1>6, <2>2
    <3>. QED
      BY <1>4, <2>2, <3>1
  <2>. QED
    BY <2>1, <2>2
<1>8. \A i \in 1 .. top : /\ (i > q /\ i <= q + n) => cellAt(i) = cells[i - q]
                          /\ (i <= q \/ i > q + n) => cellAt(i) = file[i]
  BY <1>1, <1>6
<1>. HIDE DEF cellAt
<1>9. new \in Seq(FileCells) /\ Len(new) = top /\ \A i \in 1 .. top : new[i] = cellAt(i)
  BY <1>2, <1>6, <1>7
<1>10. \A i \in 1 .. top : i > q + n => i <= L /\ new[i] = file[i]
  BY <1>1, <1>6, <1>8, <1>9
<1>11. SubSeq(new, 1, q + n) = SubSeq(file, 1, q) \o cells
  <2>. DEFINE a == SubSeq(new, 1, q + n)
              front == SubSeq(file, 1, q)
              b == front \o cells
  <2>1. a \in Seq(FileCells) /\ Len(a) = q + n /\ \A i \in 1 .. q + n : a[i] = new[i]
    BY <1>1, <1>6, <1>9
  <2>. HIDE DEF front
  <2>2. /\ b \in Seq(FileCells) /\ Len(b) = q + n
        /\ \A i \in 1 .. q : b[i] = front[i]
        /\ \A i \in q + 1 .. q + n : b[i] = cells[i - q]
    <3>1. front \in Seq(FileCells) /\ Len(front) = q /\ cells \in Seq(FileCells) /\ Len(cells) = n
      BY <1>5 DEF front, n
    <3>2. /\ front \o cells \in Seq(FileCells) /\ Len(front \o cells) = Len(front) + Len(cells)
          /\ \A i \in 1 .. Len(front) : (front \o cells)[i] = front[i]
          /\ \A i \in Len(front) + 1 .. Len(front) + Len(cells) : (front \o cells)[i] = cells[i - Len(front)]
      BY <3>1, ConcatIs
    <3>. QED
      BY <3>1, <3>2
  <2>. HIDE DEF a, b
  <2>3. ASSUME NEW i \in 1 .. q + n PROVE a[i] = b[i]
    <3>1. i \in 1 .. top /\ new[i] = cellAt(i)
      BY <1>1, <1>6, <1>9
    <3>2. CASE i <= q
      <4>1. i \in 1 .. q /\ b[i] = file[i]
        BY <1>1, <1>5, <2>2, <3>2 DEF front
      <4>. QED
        BY <1>8, <2>1, <3>1, <3>2, <4>1
    <3>3. CASE i > q
      <4>1. i \in q + 1 .. q + n
        BY <1>1, <3>3
      <4>. QED
        BY <1>8, <2>1, <2>2, <3>1, <3>3, <4>1
    <3>. QED
      BY <1>1, <3>2, <3>3
  <2>4. a = b
    BY <2>1, <2>2, <2>3, SameSeq
  <2>. QED
    BY <2>4 DEF a, b, front
<1>. QED
  BY <1>6, <1>9, <1>10, <1>11 DEF q, n, L, new

(* What lies behind the cells that were written is as sound as it was.     *)
LEMMA SoundBehind ==
    ASSUME NEW f \in Seq(FileCells), NEW g \in Seq(FileCells), NEW q \in Nat, NEW r \in Nat, q <= r,
           Len(g) = Len(f) \/ Len(g) <= r, \A i \in 1 .. Len(g) : i > r => i <= Len(f) /\ g[i] = f[i],
           NEW places \in SUBSET Nat, NEW others, \A b \in places : b > r => b \in others,
           NEW values, SoundFrom(f, places, values, q)
    PROVE  SoundFrom(g, others, values, r)
<1>. SUFFICES ASSUME NEW p \in Nat \ {0}, p > r, Readable(g, p), IdAt(g, p) \in Params, Uncut(g, p, others)
              PROVE  p + 2 + PiecesAt(g, p) <= Len(g) /\ ValueAt(g, p) \in values[IdAt(g, p)]
  BY DEF SoundFrom
<1>. DEFINE n == PiecesAt(g, p)
            L == Len(g)
<1>1. L \in Nat /\ p + 2 <= L /\ n \in Nat
  <2>1. n \in Nat
    BY ReadableIs
  <2>. QED
    BY <2>1 DEF Readable
<1>2. Len(f) = L
  <2>1. Len(g) = L /\ ~(L <= r)
    <3>. HIDE DEF n, L
    <3>1. ~(L <= r)
      BY <1>1
    <3>. QED
      BY <3>1 DEF L
  <2>. QED
    BY <2>1
<1>3. ASSUME NEW i \in Nat, p + i <= L PROVE g[p + i] = f[p + i]
  <2>1. p + i \in 1 .. L /\ p + i > r
    <3>. HIDE DEF n, L
    <3>. QED
      BY <1>1, <1>3
  <2>. QED
    BY <2>1
<1>4. g[p] = f[p] /\ g[p + 1] = f[p + 1] /\ g[p + 2] = f[p + 2]
  <2>1. 0 \in Nat /\ 1 \in Nat /\ 2 \in Nat /\ p + 0 = p /\ p + 0 <= L /\ p + 1 <= L /\ p + 2 <= L
    <3>. HIDE DEF n, L
    <3>. QED
      BY <1>1
  <2>. QED
    BY <1>3, <2>1
<1>5. Readable(f, p) /\ PiecesAt(f, p) = n /\ IdAt(f, p) = IdAt(g, p)
  BY <1>2, <1>4 DEF Readable, PiecesAt, IdAt
<1>6. Uncut(f, p, places)
  <2>1. ASSUME NEW b \in places PROVE b < p \/ b >= p + 2 + n
    <3>1. CASE b > r
      BY <3>1 DEF Uncut
    <3>2. CASE ~(b > r)
      <4>1. b \in Nat
        OBVIOUS
      <4>. QED
        BY <3>2, <4>1
    <3>. QED
      BY <3>1, <3>2
  <2>. QED
    BY <1>5, <2>1 DEF Uncut
<1>7. p > q
  OBVIOUS
<1>8. p + 2 + n <= L /\ ValueAt(f, p) \in values[IdAt(g, p)]
  BY <1>2, <1>5, <1>6, <1>7 DEF SoundFrom
<1>9. ValueAt(f, p) = ValueAt(g, p)
  <2>1. ASSUME NEW i \in 1 .. n PROVE g[p + 2 + i] = f[p + 2 + i]
    <3>1. 2 + i \in Nat /\ p + (2 + i) <= L /\ p + 2 + i = p + (2 + i)
      <4>. HIDE DEF n, L
      <4>. QED
        BY <1>1, <1>8
    <3>. QED
      BY <1>3, <3>1
  <2>. QED
    BY <1>5, <2>1 DEF ValueAt
<1>. QED
  BY <1>8, <1>9

HaveGiven(db, values) ==
    \A e \in 1 .. NumEntries : db[e].used /\ db[e].id \in Params => db[e].val \in values[db[e].id]

(* A save that ends: the file begins with a part of what it writes.        *)
LEMMA SoundAfter ==
    ASSUME PrmAssumption, NEW f \in Seq(FileCells), NEW db \in Dbs, IsPlain(db), NEW values, HaveGiven(db, values),
           NEW r \in Nat, r <= Len(f), r <= Len(CellsOf(db)), \A i \in 1 .. r : f[i] = CellsOf(db)[i],
           NEW places \in SUBSET Nat, SoundFrom(f, places, values, r), r \in places \/ r = Len(CellsOf(db))
    PROVE  SoundFrom(f, places, values, 0)
<1>. SUFFICES ASSUME NEW p \in Nat \ {0}, Readable(f, p), IdAt(f, p) \in Params, Uncut(f, p, places)
              PROVE  p + 2 + PiecesAt(f, p) <= Len(f) /\ ValueAt(f, p) \in values[IdAt(f, p)]
  BY DEF SoundFrom
<1>. DEFINE c == CellsOf(db)
<1>1. c \in Seq(FileCells) /\ Len(c) \in Nat /\ Len(f) \in Nat /\ PiecesAt(f, p) \in Nat
  <2>1. NumEntries \in 0 .. NumEntries
    BY DEF PrmAssumption
  <2>2. c \in Seq(FileCells) /\ Len(c) \in Nat
    BY <2>1, FirstIs DEF CellsOf
  <2>3. PiecesAt(f, p) \in Nat
    BY ReadableIs
  <2>. QED
    BY <2>2, <2>3
<1>2. CASE p > r
  BY <1>2 DEF SoundFrom
<1>3. CASE p <= r
  <2>. HIDE DEF c
  <2>1. p \in 1 .. Len(c) /\ p \in 1 .. r
    BY <1>1, <1>3 DEF c
  <2>2. c[p][1] = "delim"
    BY <2>1 DEF Readable, c
  <2>3. PICK e \in 1 .. NumEntries : db[e].used /\ RecordStands(c, p, db[e])
    BY <2>1, <2>2, DelimitersBegin DEF c
  <2>. DEFINE n == Len(db[e].val)
  <2>4. db[e] \in Entries /\ n \in Nat
    <3>1. db[e] \in Entries
      BY DEF Dbs
    <3>. QED
      BY <3>1, EntryTypes
  <2>5. /\ p + 2 + n <= Len(c)
        /\ c[p] = <<"delim", 0>> /\ c[p + 1] = <<"size", n>> /\ c[p + 2] = <<"id", db[e].id>>
        /\ \A i \in 1 .. n : c[p + 2 + i] = db[e].val[i]
    BY <2>3 DEF RecordStands
  <2>6. ASSUME p + 2 + n > r PROVE FALSE
    <3>1. r \in places
      <4>. DEFINE L == Len(c)
      <4>1. L \in Nat /\ p + 2 + n <= L /\ (r \in places \/ r = L)
        BY <1>1, <2>5 DEF c
      <4>. HIDE DEF L, n
      <4>. QED
        BY <2>4, <2>6, <4>1
    <3>2. r < p \/ r >= p + 2 + PiecesAt(f, p)
      BY <3>1 DEF Uncut
    <3>3. p + 1 \in 1 .. r /\ r >= p + 2 + PiecesAt(f, p)
      BY <1>1, <1>3, <3>2
    <3>4. PiecesAt(f, p) = n
      <4>1. f[p + 1] = <<"size", n>>
        BY <2>5, <3>3 DEF c
      <4>. QED
        BY <4>1 DEF PiecesAt
    <3>. HIDE DEF n
    <3>. QED
      BY <2>4, <2>6, <3>3, <3>4
  <2>7. RecordStands(f, p, db[e])
    <3>1. p + 2 + n <= r
      <4>. HIDE DEF n
      <4>. QED
        BY <2>4, <2>6
    <3>2. /\ p + 2 + n <= Len(f) /\ p \in 1 .. r /\ p + 1 \in 1 .. r /\ p + 2 \in 1 .. r
          /\ \A i \in 1 .. n : p + 2 + i \in 1 .. r
      <4>. DEFINE L == Len(f)
      <4>1. L \in Nat /\ r <= L
        BY <1>1
      <4>. HIDE DEF n, L
      <4>2. p + 2 + n <= L
        BY <2>4, <3>1, <4>1
      <4>3. p \in 1 .. r /\ p + 1 \in 1 .. r /\ p + 2 \in 1 .. r /\ \A i \in 1 .. n : p + 2 + i \in 1 .. r
        BY <2>4, <3>1
      <4>. QED
        BY <4>2, <4>3 DEF L
    <3>. HIDE DEF n
    <3>3. /\ f[p] = <<"delim", 0>> /\ f[p + 1] = <<"size", n>> /\ f[p + 2] = <<"id", db[e].id>>
          /\ \A i \in 1 .. n : f[p + 2 + i] = db[e].val[i]
      BY <2>5, <3>2 DEF c
    <3>. QED
      BY <3>2, <3>3 DEF RecordStands, n
  <2>8. IdAt(f, p) = db[e].id /\ ValueAt(f, p) = db[e].val /\ p + 2 + PiecesAt(f, p) <= Len(f)
    BY <2>4, <2>7, RecordReads
  <2>. QED
    BY <2>3, <2>8 DEF HaveGiven
<1>. QED
  BY <1>2, <1>3

(* More values that were given do no harm.                                 *)
LEMMA SoundGrows ==
    ASSUME NEW f, NEW places, NEW values, NEW more, NEW q, SoundFrom(f, places, values, q),
           \A p \in Params : values[p] \subseteq more[p]
    PROVE  SoundFrom(f, places, more, q)
  BY DEF SoundFrom

(* The places in a file are finitely many.                                 *)
LEMMA TornCount ==
    ASSUME NEW n \in Nat, NEW T \in SUBSET (0 .. n)
    PROVE  IsFiniteSet(T) /\ Cardinality(T) \in Nat /\ T \in SUBSET Nat
<1>1. IsFiniteSet(0 .. n)
  BY FS_Interval
<1>2. IsFiniteSet(T)
  BY <1>1, FS_Subset
<1>. QED
  BY <1>2, FS_CardinalityType

-----------------------------------------------------------------------------
(* The invariant.  While a save runs, the file begins with what was        *)
(* written, and what is still to come follows in the table's cells.        *)
Saving ==
    /\ ~loaded /\ saved = <<>> /\ (plain => IsPlain(m_db))
    /\ CellsOf(m_db) = SubSeq(file, 1, position) \o FlattenSeq(unwritten)
    /\ HasValues(m_db) \/ \E i \in 1 .. Len(unwritten) : unwritten[i] = <<>>

Idle ==
    /\ phase # "saving" => position = 0 /\ unwritten = <<>>
    /\ phase # "up" => ~loaded
    /\ ~loaded => strange = {}

WholeSave(db) == db \in Dbs /\ Packed(db) /\ HasValues(db) /\ Begins(file, CellsOf(db))

PrmInv ==
    /\ PrmTypeOK /\ given \in [Params -> SUBSET Seq(FileCells)]
    /\ Packed(m_db) /\ HaveGiven(m_db, given)
    /\ Idle
    /\ phase = "saving" => Saving
    /\ saved # <<>> => WholeSave(saved)
    /\ plain => SoundFrom(file, torn, given, position)
    /\ SavedIsLoaded /\ OneEntryTooMany /\ DamageIsBounded

(* What the steps below use of the types.                                  *)
LEMMA InvFacts ==
    ASSUME PrmAssumption, PrmInv
    PROVE  /\ NumEntries \in Nat \ {0}
           /\ m_db \in Dbs /\ file \in Seq(FileCells) /\ Len(file) \in Nat /\ position \in 0 .. Len(file)
           /\ unwritten \in Seq(Seq(FileCells)) /\ torn \in SUBSET (0 .. Len(file)) /\ torn \in SUBSET Nat
           /\ CellsOf(m_db) \in Seq(FileCells) /\ Len(CellsOf(m_db)) \in Nat
<1>1. /\ m_db \in Dbs /\ file \in Seq(FileCells) /\ position \in 0 .. Len(file)
      /\ unwritten \in Seq(Seq(FileCells)) /\ torn \in SUBSET (0 .. Len(file))
  BY DEF PrmInv, PrmTypeOK, Dbs, Entries
<1>2. NumEntries \in Nat \ {0} /\ NumEntries \in 0 .. NumEntries
  BY DEF PrmAssumption
<1>3. CellsOf(m_db) \in Seq(FileCells) /\ Len(CellsOf(m_db)) \in Nat
  BY <1>1, <1>2, FirstIs DEF CellsOf
<1>4. Len(file) \in Nat
  BY <1>1
<1>5. torn \in SUBSET Nat
  BY <1>1, <1>4, TornCount
<1>. QED
  BY <1>1, <1>2, <1>3, <1>4, <1>5

(* Where nothing was loaded, nothing is claimed of a load.                 *)
LEMMA NothingLoaded ==
    ASSUME PrmTypeOK', ~loaded', strange' = {}
    PROVE  SavedIsLoaded' /\ OneEntryTooMany' /\ DamageIsBounded'
<1>1. Cardinality(torn') \in Nat
  <2>1. Len(file') \in Nat /\ torn' \in SUBSET (0 .. Len(file'))
    BY DEF PrmTypeOK
  <2>. QED
    BY <2>1, TornCount
<1>2. Cardinality(strange') = 0
  BY FS_EmptySet
<1>3. DamageIsBounded'
  <2>. DEFINE n == Cardinality(torn')
  <2>1. n \in Nat /\ 0 <= n + (IF complete' THEN 0 ELSE 1)
    <3>1. n \in Nat
      BY <1>1
    <3>. HIDE DEF n
    <3>. QED
      BY <3>1
  <2>. QED
    BY <1>2, <2>1 DEF DamageIsBounded
<1>. QED
  BY <1>3 DEF SavedIsLoaded, OneEntryTooMany

(* setPrm takes the first entry that is free, so those in use stay the     *)
(* first.                                                                  *)
LEMMA EntryIsSet ==
    ASSUME PrmAssumption, m_db \in Dbs, given \in [Params -> SUBSET Seq(FileCells)], Packed(m_db),
           HaveGiven(m_db, given), NEW p \in Params, NEW v \in Seq(FileCells), Slots(p) # {}
    PROVE  LET db   == [m_db EXCEPT ![FirstEntry(Slots(p))] = [used |-> TRUE, id |-> p, val |-> v]]
               more == [given EXCEPT ![p] = @ \cup {v}]
           IN  /\ db \in Dbs /\ more \in [Params -> SUBSET Seq(FileCells)] /\ Packed(db)
               /\ HaveGiven(db, more) /\ \A q \in Params : given[q] \subseteq more[q]
<1>. DEFINE x == FirstEntry(Slots(p))
            item == [used |-> TRUE, id |-> p, val |-> v]
            db == [m_db EXCEPT ![x] = item]
            more == [given EXCEPT ![p] = @ \cup {v}]
<1>1. NumEntries \in Nat \ {0}
  BY DEF PrmAssumption
<1>2. Slots(p) \in SUBSET (1 .. NumEntries)
  BY HoldingIs DEF Slots
<1>3. x \in Slots(p) /\ \A e \in Slots(p) : x <= e
  BY <1>1, <1>2, FirstEntryIs
<1>. HIDE DEF x
<1>4. item \in Entries /\ item.used /\ item.id = p /\ item.val = v
  BY DEF Entries
<1>. HIDE DEF item
<1>5. db \in Dbs /\ db[x] = item /\ \A e \in 1 .. NumEntries : e # x => db[e] = m_db[e]
  BY <1>2, <1>3, <1>4, EntryIn
<1>6. /\ more \in [Params -> SUBSET Seq(FileCells)] /\ v \in more[p]
      /\ \A q \in Params : given[q] \subseteq more[q]
  OBVIOUS
<1>. HIDE DEF db, more
<1>7. HaveGiven(db, more)
  <2>1. ASSUME NEW e \in 1 .. NumEntries, db[e].used, db[e].id \in Params PROVE db[e].val \in more[db[e].id]
    <3>1. CASE e = x
      BY <1>4, <1>5, <1>6, <3>1
    <3>2. CASE e # x
      <4>1. db[e] = m_db[e] /\ m_db[e].val \in given[m_db[e].id]
        BY <1>5, <2>1, <3>2 DEF HaveGiven
      <4>. QED
        BY <1>6, <2>1, <4>1
    <3>. QED
      BY <3>1, <3>2
  <2>. QED
    BY <2>1 DEF HaveGiven
<1>8. Packed(db)
  <2>1. PICK k \in 0 .. NumEntries : UsedUpTo(m_db, k)
    BY DEF Packed
  <2>2. CASE Valid(m_db, p)
    <3>1. m_db[x].used /\ x \in 1 .. NumEntries
      BY <1>2, <1>3, <2>2 DEF Slots, Holding
    <3>2. UsedUpTo(db, k)
      <4>1. ASSUME NEW e \in 1 .. NumEntries PROVE db[e].used <=> m_db[e].used
        BY <1>4, <1>5, <3>1
      <4>. QED
        BY <2>1, <4>1 DEF UsedUpTo
    <3>. QED
      BY <3>2 DEF Packed
  <2>3. CASE ~Valid(m_db, p)
    <3>1. Slots(p) = {e \in 1 .. NumEntries : ~m_db[e].used}
      BY <2>3 DEF Slots
    <3>2. x \in 1 .. NumEntries /\ x > k
      BY <1>1, <1>3, <2>1, <3>1 DEF UsedUpTo
    <3>3. k + 1 \in Slots(p)
      <4>1. k + 1 \in 1 .. NumEntries /\ ~(k + 1 <= k)
        BY <1>1, <3>2
      <4>2. ~m_db[k + 1].used
        BY <2>1, <4>1 DEF UsedUpTo
      <4>. QED
        BY <3>1, <4>1, <4>2
    <3>4. x = k + 1
      BY <1>1, <1>3, <3>2, <3>3
    <3>5. UsedUpTo(db, k + 1)
      <4>1. ASSUME NEW e \in 1 .. NumEntries PROVE db[e].used <=> e <= k + 1
        <5>1. CASE e = x
          BY <1>4, <1>5, <3>4, <5>1
        <5>2. CASE e # x
          <6>1. (db[e].used <=> e <= k) /\ (e <= k <=> e <= k + 1)
            BY <1>5, <2>1, <3>4, <5>2 DEF UsedUpTo
          <6>. QED
            BY <6>1
        <5>. QED
          BY <5>1, <5>2
      <4>. QED
        BY <4>1 DEF UsedUpTo
    <3>6. k + 1 \in 0 .. NumEntries
      BY <1>1, <3>2
    <3>. QED
      BY <3>5, <3>6 DEF Packed
  <2>. QED
    BY <2>2, <2>3
<1>. QED
  BY <1>5, <1>6, <1>7, <1>8 DEF x, item, db, more

(* Each step keeps the invariant.                                          *)
LEMMA SetPrmKeeps ==
    ASSUME PrmAssumption, PrmInv, NEW p \in Params, NEW v \in Values, SetPrm(p, v)
    PROVE  PrmInv'
<1>1. /\ m_db \in Dbs /\ given \in [Params -> SUBSET Seq(FileCells)] /\ Packed(m_db) /\ HaveGiven(m_db, given)
      /\ v \in Seq(FileCells)
  BY InvFacts DEF PrmInv, PrmAssumption
<1>2. /\ phase = "up" /\ phase' = phase /\ file' = file /\ torn' = torn /\ plain' = plain /\ position' = position
      /\ unwritten' = unwritten /\ saved' = saved /\ loaded' = FALSE /\ recordNum' = 0 /\ complete' = TRUE
      /\ strange' = {}
  BY DEF SetPrm, ofFile, Forget
<1>3. /\ m_db' \in Dbs /\ given' \in [Params -> SUBSET Seq(FileCells)] /\ Packed(m_db') /\ HaveGiven(m_db', given')
      /\ \A q \in Params : given[q] \subseteq given'[q]
  <2>1. CASE Slots(p) = {}
    <3>1. m_db' = m_db /\ given' = given
      BY <2>1 DEF SetPrm
    <3>. QED
      BY <1>1, <3>1
  <2>2. CASE Slots(p) # {}
    <3>1. /\ m_db' = [m_db EXCEPT ![FirstEntry(Slots(p))] = [used |-> TRUE, id |-> p, val |-> v]]
          /\ given' = [given EXCEPT ![p] = @ \cup {v}]
      BY <2>2 DEF SetPrm
    <3>. QED
      BY <1>1, <2>2, <3>1, EntryIsSet
  <2>. QED
    BY <2>1, <2>2
<1>4. PrmTypeOK'
  <2>1. m_db' \in [1 .. NumEntries -> [used : BOOLEAN, id : Params \cup {0}, val : Seq(FileCells)]]
    BY <1>3 DEF Dbs, Entries
  <2>2. 0 \in 0 .. NumEntries
    BY DEF PrmAssumption
  <2>. QED
    BY <1>2, <2>1, <2>2 DEF PrmInv, PrmTypeOK
<1>5. plain' => SoundFrom(file', torn', given', position')
  <2>1. plain => SoundFrom(file, torn, given', position)
    BY <1>3, SoundGrows DEF PrmInv
  <2>. QED
    BY <1>2, <2>1
<1>6. Idle' /\ (phase' = "saving" => Saving')
  BY <1>2 DEF PrmInv, Idle
<1>7. saved' # <<>> => WholeSave(saved)'
  BY <1>2 DEF PrmInv, WholeSave, Begins
<1>8. SavedIsLoaded' /\ OneEntryTooMany' /\ DamageIsBounded'
  BY <1>2, <1>4, NothingLoaded
<1>. QED
  BY <1>3, <1>4, <1>5, <1>6, <1>7, <1>8 DEF PrmInv

LEMMA SaveFileKeeps ==
    ASSUME PrmAssumption, PrmInv, SaveFile
    PROVE  PrmInv'
<1>1. /\ phase = "up" /\ phase' = "saving" /\ file' = file /\ torn' = torn /\ position = 0 /\ position' = 0
      /\ unwritten' = Image(m_db) /\ saved' = <<>> /\ loaded' = FALSE /\ recordNum' = 0 /\ complete' = TRUE
      /\ strange' = {} /\ m_db' = m_db /\ given' = given /\ plain' = (plain /\ IsPlain(m_db))
  BY DEF SaveFile, Forget, PrmInv, Idle
<1>2. /\ m_db \in Dbs /\ file \in Seq(FileCells) /\ CellsOf(m_db) \in Seq(FileCells) /\ plain \in BOOLEAN
      /\ 0 \in 0 .. Len(file)
  BY InvFacts DEF PrmInv, PrmTypeOK
<1>3. Image(m_db) \in Seq(Seq(FileCells)) /\ CellsOf(m_db) = FlattenSeq(Image(m_db))
  <2>1. NumEntries \in 0 .. NumEntries
    BY DEF PrmAssumption
  <2>2. Image(m_db) = FlattenSeq(FirstWrites(m_db, NumEntries))
    BY <1>2, FirstIs
  <2>3. FlattenSeq(FirstWrites(m_db, NumEntries)) \in Seq(Seq(FileCells))
    BY <1>2, <2>1, FirstIs
  <2>. QED
    BY <2>2, <2>3 DEF CellsOf, FirstCells
<1>4. PrmTypeOK'
  <2>1. plain' \in BOOLEAN
    BY <1>1
  <2>2. 0 \in 0 .. NumEntries
    BY DEF PrmAssumption
  <2>. QED
    BY <1>1, <1>2, <1>3, <2>1, <2>2 DEF PrmInv, PrmTypeOK
<1>5. Saving'
  <2>1. SubSeq(file, 1, 0) \o CellsOf(m_db) = CellsOf(m_db)
    <3>. DEFINE c == CellsOf(m_db)
    <3>1. c \in Seq(FileCells) /\ SubSeq(file, 1, 0) = <<>>
      BY <1>2
    <3>. HIDE DEF c
    <3>2. <<>> \o c = c
      BY <3>1
    <3>. QED
      BY <3>1, <3>2 DEF c
  <2>2. CellsOf(m_db') = SubSeq(file', 1, position') \o FlattenSeq(unwritten')
    BY <1>1, <1>3, <2>1
  <2>3. HasValues(m_db') \/ \E i \in 1 .. Len(unwritten') : unwritten'[i] = <<>>
    <3>1. ASSUME NEW e \in 1 .. NumEntries, m_db[e].used, m_db[e].val = <<>>
          PROVE  \E i \in 1 .. Len(Image(m_db)) : Image(m_db)[i] = <<>>
      BY <1>2, <3>1, WritesHave
    <3>. QED
      BY <1>1, <3>1 DEF HasValues
  <2>4. plain' => IsPlain(m_db')
    BY <1>1
  <2>. QED
    BY <1>1, <2>2, <2>3, <2>4 DEF Saving
<1>6. plain' => SoundFrom(file', torn', given', position')
  BY <1>1 DEF PrmInv
<1>7. Idle' /\ Packed(m_db') /\ HaveGiven(m_db', given') /\ given' \in [Params -> SUBSET Seq(FileCells)]
  BY <1>1 DEF PrmInv, Idle
<1>8. SavedIsLoaded' /\ OneEntryTooMany' /\ DamageIsBounded'
  BY <1>1, <1>4, NothingLoaded
<1>. QED
  BY <1>1, <1>4, <1>5, <1>6, <1>7, <1>8 DEF PrmInv

LEMMA WriteKeeps ==
    ASSUME PrmAssumption, PrmInv, Write
    PROVE  PrmInv'
<1>. DEFINE h == Head(unwritten)
            rest == Tail(unwritten)
            front == SubSeq(file, 1, position)
<1>1. /\ phase = "saving" /\ unwritten # <<>> /\ h # <<>> /\ file' = Overwritten(h)
      /\ position' = position + Len(h) /\ unwritten' = rest
      /\ phase' = phase /\ m_db' = m_db /\ torn' = torn /\ plain' = plain /\ saved' = saved
      /\ given' = given /\ loaded' = loaded /\ recordNum' = recordNum /\ complete' = complete
      /\ strange' = strange
  BY DEF Write, ofLoad
<1>2. /\ m_db \in Dbs /\ file \in Seq(FileCells) /\ Len(file) \in Nat /\ position \in 0 .. Len(file)
      /\ unwritten \in Seq(Seq(FileCells)) /\ torn \in SUBSET (0 .. Len(file)) /\ torn \in SUBSET Nat
  BY InvFacts
<1>3. Saving /\ Idle /\ strange = {} /\ ~loaded
  BY <1>1 DEF PrmInv, Saving, Idle
<1>4. /\ h \in Seq(FileCells) /\ rest \in Seq(Seq(FileCells)) /\ FlattenSeq(rest) \in Seq(FileCells)
      /\ FlattenSeq(unwritten) = h \o FlattenSeq(rest) /\ Len(h) \in Nat
  <2>1. /\ Head(unwritten) \in Seq(FileCells) /\ Tail(unwritten) \in Seq(Seq(FileCells))
        /\ FlattenSeq(Tail(unwritten)) \in Seq(FileCells)
        /\ FlattenSeq(unwritten) = Head(unwritten) \o FlattenSeq(Tail(unwritten))
    BY <1>1, <1>2, FlattenHead
  <2>. QED
    BY <2>1
<1>. HIDE DEF h, rest
<1>5. /\ file' \in Seq(FileCells) /\ Len(file') \in Nat /\ Len(file) <= Len(file')
      /\ position + Len(h) <= Len(file')
      /\ Len(file') = Len(file) \/ Len(file') <= position + Len(h)
      /\ \A i \in 1 .. Len(file') : i > position + Len(h) => i <= Len(file) /\ file'[i] = file[i]
      /\ SubSeq(file', 1, position + Len(h)) = front \o h
  BY <1>1, <1>2, <1>4, OverwrittenIs
<1>6. PrmTypeOK'
  <2>1. position' \in 0 .. Len(file') /\ torn' \subseteq 0 .. Len(file')
    <3>1. torn' \subseteq 0 .. Len(file')
      BY <1>1, <1>2, <1>5
    <3>2. position + Len(h) \in 0 .. Len(file')
      <4>. DEFINE n == Len(h)
                  l == Len(file')
      <4>1. n \in Nat /\ l \in Nat /\ position \in Nat /\ position + n <= l
        BY <1>2, <1>4, <1>5
      <4>. HIDE DEF n, l
      <4>2. position + n \in 0 .. l
        BY <4>1
      <4>. QED
        BY <4>2 DEF n, l
    <3>. QED
      BY <1>1, <3>1, <3>2
  <2>. QED
    BY <1>1, <1>4, <1>5, <2>1 DEF PrmInv, PrmTypeOK
<1>7. Saving'
  <2>1. CellsOf(m_db) = front \o (h \o FlattenSeq(rest))
    BY <1>3, <1>4 DEF Saving
  <2>2. front \in Seq(FileCells)
    BY <1>2
  <2>3. (front \o h) \o FlattenSeq(rest) = front \o (h \o FlattenSeq(rest))
    <3>. DEFINE b == FlattenSeq(rest)
    <3>1. b \in Seq(FileCells) /\ front \in Seq(FileCells) /\ h \in Seq(FileCells)
      BY <1>4, <2>2
    <3>. HIDE DEF b, front
    <3>2. (front \o h) \o b = front \o (h \o b)
      BY <3>1, Assoc
    <3>. QED
      BY <3>2 DEF b
  <2>4. CellsOf(m_db') = SubSeq(file', 1, position') \o FlattenSeq(unwritten')
    BY <1>1, <1>5, <2>1, <2>3
  <2>5. HasValues(m_db') \/ \E i \in 1 .. Len(unwritten') : unwritten'[i] = <<>>
    <3>1. ASSUME NEW i \in 1 .. Len(unwritten), unwritten[i] = <<>>
          PROVE  \E j \in 1 .. Len(rest) : rest[j] = <<>>
      <4>1. i # 1
        BY <1>1, <1>2, <3>1 DEF h
      <4>2. i - 1 \in 1 .. Len(rest) /\ rest[i - 1] = unwritten[i]
        BY <1>1, <1>2, <4>1 DEF rest
      <4>. QED
        BY <3>1, <4>2
    <3>. QED
      BY <1>1, <1>3, <3>1 DEF Saving
  <2>. QED
    BY <1>1, <1>3, <2>4, <2>5 DEF Saving
<1>8. plain' => SoundFrom(file', torn', given', position')
  <2>. SUFFICES ASSUME plain PROVE SoundFrom(file', torn, given, position + Len(h))
    BY <1>1
  <2>. DEFINE r == position + Len(h)
  <2>1. position \in Nat /\ r \in Nat /\ position <= r
    BY <1>2, <1>4
  <2>2. SoundFrom(file, torn, given, position)
    BY DEF PrmInv
  <2>3. /\ Len(file') = Len(file) \/ Len(file') <= r
        /\ \A i \in 1 .. Len(file') : i > r => i <= Len(file) /\ file'[i] = file[i]
    BY <1>5
  <2>4. \A b \in torn : b > r => b \in torn
    OBVIOUS
  <2>. HIDE DEF r
  <2>5. SoundFrom(file', torn, given, r)
    BY <1>2, <1>5, <2>1, <2>2, <2>3, <2>4, SoundBehind
  <2>. QED
    BY <2>5 DEF r
<1>9. Idle' /\ Packed(m_db') /\ HaveGiven(m_db', given') /\ given' \in [Params -> SUBSET Seq(FileCells)]
  BY <1>1, <1>3 DEF PrmInv, Idle
<1>10. saved' # <<>> => WholeSave(saved)'
  BY <1>1, <1>3 DEF Saving
<1>11. SavedIsLoaded' /\ OneEntryTooMany' /\ DamageIsBounded'
  BY <1>1, <1>3, <1>6, NothingLoaded
<1>. QED
  BY <1>6, <1>7, <1>8, <1>9, <1>10, <1>11 DEF PrmInv

(* A save that ends, however it does: the file is sound again.             *)
LEMMA SaveEnds ==
    ASSUME PrmAssumption, PrmInv, phase = "saving", plain, NEW f \in Seq(FileCells), NEW r \in Nat, position <= r,
           r <= Len(f), Len(f) = Len(file) \/ Len(f) <= r,
           \A i \in 1 .. Len(f) : i > r => i <= Len(file) /\ f[i] = file[i],
           r <= Len(CellsOf(m_db)), \A i \in 1 .. r : f[i] = CellsOf(m_db)[i],
           NEW places \in SUBSET Nat, \A b \in torn : b > r => b \in places,
           r \in places \/ r = Len(CellsOf(m_db))
    PROVE  SoundFrom(f, places, given, 0)
<1>1. /\ m_db \in Dbs /\ file \in Seq(FileCells) /\ position \in Nat /\ torn \in SUBSET Nat
  BY InvFacts
<1>2. IsPlain(m_db) /\ HaveGiven(m_db, given) /\ SoundFrom(file, torn, given, position)
  BY DEF PrmInv, Saving
<1>3. SoundFrom(f, places, given, r)
  BY <1>1, <1>2, SoundBehind
<1>. QED
  BY <1>1, <1>2, <1>3, SoundAfter

LEMMA WriteFailsKeeps ==
    ASSUME PrmAssumption, PrmInv, WriteFails
    PROVE  PrmInv'
<1>. DEFINE h == Head(unwritten)
            rest == Tail(unwritten)
            front == SubSeq(file, 1, position)
<1>1. /\ phase = "saving" /\ unwritten # <<>> /\ position' = 0 /\ unwritten' = <<>>
      /\ phase' = "up" /\ m_db' = m_db /\ plain' = plain /\ saved' = saved /\ given' = given
      /\ loaded' = loaded /\ recordNum' = recordNum
      /\ complete' = complete /\ strange' = strange
  BY DEF WriteFails, ofLoad
<1>2. PICK n \in 0 .. Len(h) : file' = Overwritten(SubSeq(h, 1, n)) /\ torn' = CutAt(position + n)
  BY DEF WriteFails
<1>3. /\ m_db \in Dbs /\ file \in Seq(FileCells) /\ Len(file) \in Nat /\ position \in 0 .. Len(file)
      /\ unwritten \in Seq(Seq(FileCells)) /\ torn \in SUBSET (0 .. Len(file)) /\ torn \in SUBSET Nat
  BY InvFacts
<1>4. Saving /\ Idle /\ strange = {} /\ ~loaded
  BY <1>1 DEF PrmInv, Saving, Idle
<1>5. /\ h \in Seq(FileCells) /\ FlattenSeq(rest) \in Seq(FileCells)
      /\ FlattenSeq(unwritten) = h \o FlattenSeq(rest)
  <2>1. /\ Head(unwritten) \in Seq(FileCells) /\ Tail(unwritten) \in Seq(Seq(FileCells))
        /\ FlattenSeq(Tail(unwritten)) \in Seq(FileCells)
        /\ FlattenSeq(unwritten) = Head(unwritten) \o FlattenSeq(Tail(unwritten))
    BY <1>1, <1>3, FlattenHead
  <2>. QED
    BY <2>1
<1>. HIDE DEF h, rest
<1>. DEFINE part == SubSeq(h, 1, n)
            r == position + n
<1>6. part \in Seq(FileCells) /\ Len(part) = n /\ n \in Nat /\ r \in Nat /\ position <= r
  BY <1>3, <1>5
<1>. HIDE DEF part
<1>7. /\ file' \in Seq(FileCells) /\ Len(file') \in Nat /\ Len(file) <= Len(file') /\ r <= Len(file')
      /\ Len(file') = Len(file) \/ Len(file') <= r
      /\ \A i \in 1 .. Len(file') : i > r => i <= Len(file) /\ file'[i] = file[i]
      /\ SubSeq(file', 1, r) = front \o part
  <2>1. /\ Overwritten(part) \in Seq(FileCells) /\ Len(Overwritten(part)) \in Nat
        /\ Len(file) <= Len(Overwritten(part)) /\ position + Len(part) <= Len(Overwritten(part))
        /\ Len(Overwritten(part)) = Len(file) \/ Len(Overwritten(part)) <= position + Len(part)
        /\ \A i \in 1 .. Len(Overwritten(part)) :
              i > position + Len(part) => i <= Len(file) /\ Overwritten(part)[i] = file[i]
        /\ SubSeq(Overwritten(part), 1, position + Len(part)) = SubSeq(file, 1, position) \o part
    BY <1>3, <1>6, OverwrittenIs
  <2>2. file' = Overwritten(part) /\ position + Len(part) = r
    BY <1>2, <1>6 DEF part
  <2>. HIDE DEF r
  <2>. QED
    BY <2>1, <2>2
<1>8. r <= Len(CellsOf(m_db)) /\ \A i \in 1 .. r : file'[i] = CellsOf(m_db)[i]
  <2>. DEFINE b == FlattenSeq(rest)
              c == CellsOf(m_db)
  <2>1. c = front \o (h \o b) /\ front \in Seq(FileCells) /\ Len(front) = position
    BY <1>3, <1>4, <1>5 DEF Saving
  <2>2. b \in Seq(FileCells) /\ h \in Seq(FileCells)
    BY <1>5
  <2>. HIDE DEF b, c, front
  <2>3. /\ Len(front) + n <= Len(front \o (h \o b))
        /\ \A i \in 1 .. Len(front) + n : (front \o (h \o b))[i] = (front \o SubSeq(h, 1, n))[i]
    BY <2>1, <2>2, FrontAgrees
  <2>4. r <= Len(c) /\ \A i \in 1 .. r : c[i] = SubSeq(file', 1, r)[i]
    BY <1>7, <2>1, <2>3 DEF part
  <2>5. \A i \in 1 .. r : SubSeq(file', 1, r)[i] = file'[i]
    <3>. HIDE DEF r
    <3>. QED
      BY <1>6, <1>7
  <2>. QED
    BY <2>4, <2>5 DEF c
<1>9. /\ torn' \in SUBSET Nat /\ r \in torn' /\ \A b \in torn : b > r => b \in torn'
      /\ torn' \subseteq 0 .. Len(file')
  <2>1. torn' = {b \in torn : b > r} \cup {r}
    BY <1>2 DEF CutAt, TornBehind
  <2>2. r \in 0 .. Len(file') /\ torn \subseteq 0 .. Len(file')
    BY <1>3, <1>6, <1>7
  <2>. HIDE DEF r
  <2>. QED
    BY <1>3, <1>6, <2>1, <2>2
<1>. HIDE DEF r
<1>10. PrmTypeOK'
  <2>1. 0 \in 0 .. Len(file') /\ <<>> \in Seq(Seq(FileCells))
    BY <1>7
  <2>. QED
    BY <1>1, <1>7, <1>9, <2>1 DEF PrmInv, PrmTypeOK
<1>11. plain' => SoundFrom(file', torn', given', position')
  <2>. SUFFICES ASSUME plain PROVE SoundFrom(file', torn', given, 0)
    BY <1>1
  <2>. QED
    BY <1>1, <1>6, <1>7, <1>8, <1>9, SaveEnds
<1>12. Idle' /\ Packed(m_db') /\ HaveGiven(m_db', given') /\ given' \in [Params -> SUBSET Seq(FileCells)]
  BY <1>1, <1>4 DEF PrmInv, Idle
<1>13. (saved' # <<>> => WholeSave(saved)') /\ (phase' = "saving" => Saving')
  BY <1>1, <1>4 DEF Saving
<1>14. SavedIsLoaded' /\ OneEntryTooMany' /\ DamageIsBounded'
  BY <1>1, <1>4, <1>10, NothingLoaded
<1>. QED
  BY <1>10, <1>11, <1>12, <1>13, <1>14 DEF PrmInv

LEMMA SaveCompleteKeeps ==
    ASSUME PrmAssumption, PrmInv, SaveComplete
    PROVE  PrmInv'
<1>1. /\ phase = "saving" /\ unwritten = <<>> /\ position' = 0 /\ unwritten' = unwritten /\ phase' = "up"
      /\ m_db' = m_db /\ file' = file /\ torn' = TornBehind(position)
      /\ plain' = plain /\ saved' = m_db /\ given' = given /\ loaded' = loaded /\ recordNum' = recordNum
      /\ complete' = complete /\ strange' = strange
  BY DEF SaveComplete, ofLoad
<1>2. /\ m_db \in Dbs /\ file \in Seq(FileCells) /\ Len(file) \in Nat /\ position \in 0 .. Len(file)
      /\ torn \in SUBSET (0 .. Len(file)) /\ torn \in SUBSET Nat
      /\ CellsOf(m_db) \in Seq(FileCells)
  BY InvFacts
<1>3. Saving /\ Idle /\ strange = {} /\ ~loaded
  BY <1>1 DEF PrmInv, Saving, Idle
<1>4. CellsOf(m_db) = SubSeq(file, 1, position) /\ HasValues(m_db)
  <2>1. <<>> \in Seq(Seq(FileCells)) /\ Len(<<>>) = 0
    OBVIOUS
  <2>2. FlattenSeq(<<>>) = <<>>
    BY <2>1, FlattenIs
  <2>. DEFINE front == SubSeq(file, 1, position)
  <2>3. front \in Seq(FileCells)
    BY <1>2
  <2>4. front \o <<>> = front
    <3>. HIDE DEF front
    <3>. QED
      BY <2>3
  <2>5. CellsOf(m_db) = front \o FlattenSeq(unwritten)
    BY <1>3 DEF Saving
  <2>6. HasValues(m_db)
    BY <1>1, <1>3, <2>1 DEF Saving
  <2>. QED
    BY <1>1, <2>2, <2>4, <2>5, <2>6
<1>5. /\ Len(CellsOf(m_db)) = position
      /\ \A i \in 1 .. position : file[i] = CellsOf(m_db)[i]
  BY <1>2, <1>4
<1>6. torn' \in SUBSET Nat /\ (\A b \in torn : b > position => b \in torn') /\ torn' \subseteq 0 .. Len(file)
  BY <1>1, <1>2 DEF TornBehind
<1>7. WholeSave(saved)'
  <2>1. Begins(file, CellsOf(m_db))
    BY <1>2, <1>5 DEF Begins
  <2>. QED
    BY <1>1, <1>2, <1>4, <2>1 DEF WholeSave, PrmInv
<1>8. PrmTypeOK'
  <2>1. 0 \in 0 .. Len(file)
    BY <1>2
  <2>. QED
    BY <1>1, <1>6, <2>1 DEF PrmInv, PrmTypeOK
<1>9. plain' => SoundFrom(file', torn', given', position')
  <2>. SUFFICES ASSUME plain PROVE SoundFrom(file, torn', given, 0)
    BY <1>1
  <2>1. /\ position \in Nat /\ position <= position /\ position <= Len(file) /\ position <= Len(CellsOf(m_db))
        /\ position = Len(CellsOf(m_db))
    BY <1>2, <1>5
  <2>2. /\ Len(file) = Len(file) \/ Len(file) <= position
        /\ \A i \in 1 .. Len(file) : i > position => i <= Len(file) /\ file[i] = file[i]
    BY <1>2
  <2>. QED
    BY <1>1, <1>2, <1>5, <1>6, <2>1, <2>2, SaveEnds
<1>10. Idle' /\ Packed(m_db') /\ HaveGiven(m_db', given') /\ given' \in [Params -> SUBSET Seq(FileCells)]
  BY <1>1, <1>3 DEF PrmInv, Idle
<1>11. SavedIsLoaded' /\ OneEntryTooMany' /\ DamageIsBounded'
  BY <1>1, <1>3, <1>8, NothingLoaded
<1>. QED
  BY <1>1, <1>7, <1>8, <1>9, <1>10, <1>11 DEF PrmInv

LEMMA CrashKeeps ==
    ASSUME PrmAssumption, PrmInv, Crash
    PROVE  PrmInv'
<1>1. /\ phase # "down" /\ position' = 0 /\ unwritten' = <<>> /\ phase' = "down" /\ m_db' = Clear /\ file' = file
      /\ torn' = (IF phase = "saving" THEN CutAt(position) ELSE torn)
      /\ plain' = plain /\ saved' = saved /\ given' = given /\ loaded' = FALSE /\ recordNum' = 0
      /\ complete' = TRUE /\ strange' = {}
  BY DEF Crash, Forget
<1>2. /\ NumEntries \in Nat \ {0} /\ m_db \in Dbs /\ file \in Seq(FileCells) /\ Len(file) \in Nat
      /\ position \in 0 .. Len(file) /\ unwritten \in Seq(Seq(FileCells))
      /\ torn \in SUBSET (0 .. Len(file)) /\ torn \in SUBSET Nat
      /\ CellsOf(m_db) \in Seq(FileCells) /\ Len(CellsOf(m_db)) \in Nat
  BY InvFacts
<1>3. Clear \in Dbs /\ \A e \in 1 .. NumEntries : ~Clear[e].used
  BY ClearIs
<1>4. /\ torn' \in SUBSET (0 .. Len(file)) /\ torn' \in SUBSET Nat
      /\ phase = "saving" => position \in torn' /\ \A b \in torn : b > position => b \in torn'
  <2>1. CASE phase = "saving"
    <3>. DEFINE behind == {b \in torn : b > position}
    <3>1. torn' = behind \cup {position} /\ position \in Nat
      BY <1>1, <1>2, <2>1 DEF CutAt, TornBehind
    <3>2. /\ behind \in SUBSET (0 .. Len(file)) /\ behind \in SUBSET Nat
          /\ \A b \in torn : b > position => b \in behind
      BY <1>2
    <3>. HIDE DEF behind
    <3>. QED
      BY <1>2, <3>1, <3>2
  <2>2. CASE phase # "saving"
    BY <1>1, <1>2, <2>2
  <2>. QED
    BY <2>1, <2>2
<1>5. PrmTypeOK'
  <2>1. m_db' \in [1 .. NumEntries -> [used : BOOLEAN, id : Params \cup {0}, val : Seq(FileCells)]]
    BY <1>1, <1>3 DEF Dbs, Entries
  <2>2. 0 \in 0 .. NumEntries /\ 0 \in 0 .. Len(file) /\ <<>> \in Seq(Seq(FileCells))
    BY <1>2
  <2>. QED
    <3>1. torn' \subseteq 0 .. Len(file') /\ file' \in Seq(FileCells) /\ plain' \in BOOLEAN
      BY <1>1, <1>2, <1>4 DEF PrmInv, PrmTypeOK
    <3>2. position' \in 0 .. Len(file') /\ unwritten' \in Seq(Seq(FileCells)) /\ recordNum' \in 0 .. NumEntries
          /\ loaded' \in BOOLEAN /\ complete' \in BOOLEAN /\ strange' \subseteq Params
      BY <1>1, <2>2
    <3>. QED
      BY <1>1, <2>1, <3>1, <3>2 DEF PrmTypeOK
<1>6. Packed(m_db') /\ HaveGiven(m_db', given') /\ given' \in [Params -> SUBSET Seq(FileCells)]
  <2>1. UsedUpTo(Clear, 0) /\ 0 \in 0 .. NumEntries
    BY <1>2, <1>3 DEF UsedUpTo
  <2>2. HaveGiven(Clear, given)
    BY <1>3 DEF HaveGiven
  <2>. QED
    BY <1>1, <2>1, <2>2 DEF Packed, PrmInv
<1>7. plain' => SoundFrom(file', torn', given', position')
  <2>. SUFFICES ASSUME plain PROVE SoundFrom(file, torn', given, 0)
    BY <1>1
  <2>1. CASE phase # "saving"
    BY <1>1, <2>1 DEF PrmInv, Idle
  <2>2. CASE phase = "saving"
    <3>. DEFINE front == SubSeq(file, 1, position)
                c == CellsOf(m_db)
                b == FlattenSeq(unwritten)
    <3>1. c = front \o b /\ front \in Seq(FileCells) /\ Len(front) = position /\ b \in Seq(FileCells)
      <4>1. FlattenSeq(unwritten) \in Seq(FileCells)
        BY <1>2, FlattenIs
      <4>. QED
        BY <1>2, <2>2, <4>1 DEF PrmInv, Saving
    <3>2. \A i \in 1 .. position : front[i] = file[i]
      BY <1>2
    <3>. HIDE DEF front, c, b
    <3>3. /\ Len(front \o b) = Len(front) + Len(b) /\ Len(b) \in Nat
          /\ \A i \in 1 .. Len(front) : (front \o b)[i] = front[i]
      BY <3>1, ConcatIs
    <3>4. position <= Len(CellsOf(m_db)) /\ \A i \in 1 .. position : file[i] = CellsOf(m_db)[i]
      <4>1. position <= Len(c) /\ \A i \in 1 .. position : file[i] = c[i]
        BY <1>2, <3>1, <3>2, <3>3
      <4>. QED
        BY <4>1 DEF c
    <3>7. position \in torn' /\ \A q \in torn : q > position => q \in torn'
      BY <1>4, <2>2
    <3>5. /\ position \in Nat /\ position <= position /\ position <= Len(file)
      BY <1>2
    <3>6. /\ Len(file) = Len(file) \/ Len(file) <= position
          /\ \A i \in 1 .. Len(file) : i > position => i <= Len(file) /\ file[i] = file[i]
      BY <1>2
    <3>. QED
      BY <1>2, <1>4, <2>2, <3>4, <3>5, <3>6, <3>7, SaveEnds
  <2>. QED
    BY <2>1, <2>2
<1>8. Idle'
  BY <1>1 DEF Idle
<1>9. (saved' # <<>> => WholeSave(saved)') /\ (phase' = "saving" => Saving')
  BY <1>1 DEF PrmInv, WholeSave, Begins
<1>10. SavedIsLoaded' /\ OneEntryTooMany' /\ DamageIsBounded'
  BY <1>1, <1>5, NothingLoaded
<1>. QED
  BY <1>5, <1>6, <1>7, <1>8, <1>9, <1>10 DEF PrmInv

(* What a load leaves in the table.                                        *)
LEMMA ShapeGives ==
    ASSUME PrmAssumption, NEW load, NEW s, NEW failing, Shape(load, NumEntries, s, failing)
    PROVE  /\ load.db \in Dbs /\ load.records \in 0 .. NumEntries /\ Packed(load.db)
           /\ \A e \in 1 .. NumEntries : load.db[e].used => e <= load.records + 1
<1>1. load \in Loads /\ load.records <= NumEntries
  BY DEF Shape
<1>2. load.db \in Dbs /\ load.records \in Nat /\ NumEntries \in Nat \ {0}
  BY <1>1, LoadFields DEF PrmAssumption
<1>. DEFINE k == load.records
<1>3. \A e \in 1 .. k : load.db[e].used
  <2>1. ASSUME NEW e \in 1 .. k PROVE load.db[e].used
    <3>1. load.db[e] = EntryOf(IdAt(file, s[e]), ValueAt(file, s[e]))
      BY DEF Shape, Read
    <3>. QED
      BY <3>1 DEF EntryOf
  <2>. QED
    BY <2>1
<1>4. ASSUME NEW e \in k + 1 .. NumEntries, load.db[e].used PROVE e = k + 1
  <2>1. load.db[e] # Free
    BY <1>4, ClearIs
  <2>. QED
    BY <1>4, <2>1 DEF Shape, HalfRead
<1>. HIDE DEF k
<1>5. k \in Nat /\ k <= NumEntries
  BY <1>1, <1>2 DEF k
<1>6. ASSUME NEW e \in 1 .. NumEntries, load.db[e].used PROVE e <= k + 1
  <2>1. e \in 1 .. k \/ e \in k + 1 .. NumEntries
    BY <1>5
  <2>2. e \in 1 .. k => e <= k + 1
    BY <1>5
  <2>3. e \in k + 1 .. NumEntries => e = k + 1
    BY <1>4, <1>6
  <2>. QED
    BY <1>5, <2>1, <2>2, <2>3
<1>7. Packed(load.db)
  <2>. DEFINE final == IF k < NumEntries /\ load.db[k + 1].used THEN k + 1 ELSE k
  <2>1. final \in 0 .. NumEntries
    BY <1>2, <1>5
  <2>2. ASSUME NEW e \in 1 .. NumEntries PROVE load.db[e].used <=> e <= final
    <3>1. e \in 1 .. k \/ e = k + 1 \/ e > k + 1
      BY <1>5
    <3>2. CASE e \in 1 .. k
      <4>1. load.db[e].used /\ e <= final
        BY <1>3, <1>5, <3>2
      <4>. QED
        BY <4>1
    <3>3. CASE e = k + 1
      <4>1. k < NumEntries
        BY <1>5, <3>3
      <4>2. CASE load.db[k + 1].used
        <5>1. final = k + 1
          BY <4>1, <4>2
        <5>. QED
          BY <1>5, <3>3, <4>2, <5>1
      <4>3. CASE ~load.db[k + 1].used
        <5>1. final = k
          BY <4>3
        <5>. QED
          BY <1>5, <3>3, <4>3, <5>1
      <4>. QED
        BY <4>2, <4>3
    <3>4. CASE e > k + 1
      <4>1. ~load.db[e].used
        BY <1>5, <1>6, <3>4
      <4>2. ~(e <= final)
        BY <1>5, <3>4
      <4>. QED
        BY <4>1, <4>2
    <3>. QED
      BY <3>1, <3>2, <3>3, <3>4
  <2>. HIDE DEF final
  <2>3. UsedUpTo(load.db, final)
    BY <2>2 DEF UsedUpTo
  <2>. QED
    BY <2>1, <2>3 DEF Packed
<1>8. k \in 0 .. NumEntries
  BY <1>2, <1>5
<1>. QED
  BY <1>2, <1>6, <1>7, <1>8 DEF k

LEMMA StartKeeps ==
    ASSUME PrmAssumption, PrmInv, NEW failing \in 0 .. NumEntries, NEW fails \in {"none", "header", "value"},
           failing = 0 => fails = "none", Start(failing, fails)
    PROVE  PrmInv'
<1>. DEFINE load == Load(failing, fails)
<1>1. /\ phase = "down" /\ phase' = "up" /\ loaded' = TRUE /\ file' = file /\ torn' = torn /\ plain' = plain
      /\ position' = position /\ unwritten' = unwritten /\ saved' = saved
      /\ m_db' = load.db /\ recordNum' = load.records
      /\ strange' = {p \in Params : Valid(load.db, p) /\ GetPrm(load.db, p) \notin given[p]}
      /\ given' = [p \in Params |-> given[p] \cup {load.db[e].val : e \in Holding(load.db, p)}]
      /\ complete' = (load = Load(0, "none"))
  BY DEF Start, ofFile
<1>2. /\ NumEntries \in Nat \ {0} /\ file \in Seq(FileCells) /\ Len(file) \in Nat
      /\ torn \in SUBSET (0 .. Len(file)) /\ given \in [Params -> SUBSET Seq(FileCells)]
      /\ position = 0 /\ unwritten = <<>>
  BY <1>1, InvFacts DEF PrmInv, Idle
<1>3. PICK s : Shape(load, NumEntries, s, failing)
  BY <1>2, LoadShape
<1>4. PICK t : Shape(Load(0, "none"), NumEntries, t, 0)
  BY <1>2, LoadShape
<1>. HIDE DEF load
<1>5. /\ load.db \in Dbs /\ load.records \in 0 .. NumEntries /\ Packed(load.db)
      /\ \A e \in 1 .. NumEntries : load.db[e].used => e <= load.records + 1
  BY <1>3, ShapeGives
<1>6. /\ given' \in [Params -> SUBSET Seq(FileCells)] /\ \A p \in Params : given[p] \subseteq given'[p]
      /\ HaveGiven(load.db, given')
  <2>. DEFINE of(p) == {load.db[e].val : e \in Holding(load.db, p)}
  <2>1. ASSUME NEW p \in Params PROVE of(p) \in SUBSET Seq(FileCells)
    <3>1. \A e \in Holding(load.db, p) : load.db[e].val \in Seq(FileCells)
      BY <1>5 DEF Holding, Dbs, Entries
    <3>. QED
      BY <3>1
  <2>2. ASSUME NEW e \in 1 .. NumEntries, load.db[e].used, load.db[e].id \in Params
        PROVE  load.db[e].val \in of(load.db[e].id)
    <3>1. e \in Holding(load.db, load.db[e].id)
      BY <2>2 DEF Holding
    <3>. QED
      BY <3>1
  <2>3. given' = [p \in Params |-> given[p] \cup of(p)]
    BY <1>1
  <2>. HIDE DEF of
  <2>4. given' \in [Params -> SUBSET Seq(FileCells)] /\ \A p \in Params : given'[p] = given[p] \cup of(p)
    BY <1>2, <2>1, <2>3
  <2>5. HaveGiven(load.db, given')
    BY <2>2, <2>4 DEF HaveGiven
  <2>. QED
    BY <2>4, <2>5
<1>7. strange' = Odd(load.db)
  BY <1>1 DEF Odd
<1>8. complete' \in BOOLEAN
  BY <1>1
<1>9. PrmTypeOK'
  <2>1. m_db' \in [1 .. NumEntries -> [used : BOOLEAN, id : Params \cup {0}, val : Seq(FileCells)]]
    BY <1>1, <1>5 DEF Dbs, Entries
  <2>2. strange' \subseteq Params
    BY <1>7 DEF Odd
  <2>3. recordNum' \in 0 .. NumEntries /\ loaded' \in BOOLEAN /\ phase' \in {"down", "up", "saving"}
    BY <1>1, <1>5
  <2>4. /\ file' \in Seq(FileCells) /\ position' \in 0 .. Len(file') /\ unwritten' \in Seq(Seq(FileCells))
        /\ torn' \subseteq 0 .. Len(file') /\ plain' \in BOOLEAN
    BY <1>1 DEF PrmInv, PrmTypeOK
  <2>. QED
    BY <1>8, <2>1, <2>2, <2>3, <2>4 DEF PrmTypeOK
<1>10. plain' => SoundFrom(file', torn', given', position')
  <2>1. plain => SoundFrom(file, torn, given', position)
    BY <1>6, SoundGrows DEF PrmInv
  <2>. QED
    BY <1>1, <2>1
<1>11. DamageIsBounded'
  <2>. SUFFICES ASSUME plain
                PROVE  Cardinality(Odd(load.db)) <= Cardinality(torn) + (IF complete' THEN 0 ELSE 1)
    BY <1>1, <1>7 DEF DamageIsBounded
  <2>1. SoundFrom(file, torn, given, 0)
    BY <1>2 DEF PrmInv
  <2>2. Cardinality(torn) \in Nat
    BY <1>2, TornCount
  <2>3. CASE complete'
    <3>1. load = Load(0, "none")
      BY <1>1, <2>3
    <3>2. Shape(load, NumEntries, t, 0)
      BY <1>4, <3>1
    <3>3. Cardinality(Odd(load.db)) <= Cardinality(torn) + (IF 0 \in 1 .. NumEntries THEN 1 ELSE 0)
      BY <1>2, <2>1, <3>2, OddAreCounted
    <3>4. 0 \notin 1 .. NumEntries
      OBVIOUS
    <3>. QED
      BY <2>3, <3>3, <3>4
  <2>4. CASE ~complete'
    <3>1. Cardinality(Odd(load.db)) <= Cardinality(torn) + (IF failing \in 1 .. NumEntries THEN 1 ELSE 0)
      BY <1>2, <1>3, <2>1, OddAreCounted
    <3>2. failing \in 1 .. NumEntries
      <4>1. CASE failing = 0
        <5>1. load = Load(0, "none")
          BY <4>1 DEF load
        <5>. QED
          BY <1>1, <2>4, <5>1
      <4>. QED
        BY <1>2, <4>1
    <3>. QED
      BY <2>4, <3>1, <3>2
  <2>. QED
    BY <2>3, <2>4
<1>12. SavedIsLoaded'
  <2>. SUFFICES ASSUME complete', saved # <<>>, NEW p \in Params, Valid(saved, p)
                PROVE  Valid(load.db, p) /\ GetPrm(load.db, p) = GetPrm(saved, p)
    BY <1>1 DEF SavedIsLoaded
  <2>1. saved \in Dbs /\ Packed(saved) /\ HasValues(saved) /\ Begins(file, CellsOf(saved))
    BY DEF PrmInv, WholeSave
  <2>2. PICK k \in 0 .. NumEntries : UsedUpTo(saved, k)
    BY <2>1 DEF Packed
  <2>3. Shape(load, NumEntries, t, 0)
    BY <1>1, <1>4
  <2>4. \A e \in 1 .. k : load.db[e] = saved[e]
    BY <1>2, <2>1, <2>2, <2>3, WholeIsRead
  <2>. QED
    BY <1>5, <2>1, <2>2, <2>4, SameForGetPrm
<1>13. OneEntryTooMany'
  BY <1>1, <1>5 DEF OneEntryTooMany
<1>14. Idle' /\ (phase' = "saving" => Saving')
  BY <1>1, <1>2 DEF Idle
<1>15. saved' # <<>> => WholeSave(saved)'
  BY <1>1 DEF PrmInv, WholeSave, Begins
<1>16. Packed(m_db') /\ HaveGiven(m_db', given')
  BY <1>1, <1>5, <1>6
<1>. QED
  BY <1>6, <1>9, <1>10, <1>11, <1>12, <1>13, <1>14, <1>15, <1>16 DEF PrmInv

(* At first.                                                               *)
LEMMA PrmInvInit ==
    ASSUME PrmAssumption, PrmInit
    PROVE  PrmInv
<1>1. NumEntries \in Nat \ {0} /\ 0 \in 0 .. NumEntries
  BY DEF PrmAssumption
<1>2. /\ phase = "down" /\ m_db = Clear /\ file = <<>> /\ position = 0 /\ unwritten = <<>> /\ recordNum = 0
      /\ loaded = FALSE /\ complete = TRUE /\ saved = <<>> /\ given = [p \in Params |-> {}] /\ strange = {}
      /\ torn = {} /\ plain = TRUE
  BY DEF PrmInit
<1>3. Clear \in Dbs /\ \A e \in 1 .. NumEntries : ~Clear[e].used
  BY ClearIs
<1>4. file \in Seq(FileCells) /\ Len(file) = 0 /\ unwritten \in Seq(Seq(FileCells))
  BY <1>2
<1>5. PrmTypeOK
  <2>1. m_db \in [1 .. NumEntries -> [used : BOOLEAN, id : Params \cup {0}, val : Seq(FileCells)]]
    BY <1>2, <1>3 DEF Dbs, Entries
  <2>. QED
    <3>1. torn \subseteq 0 .. Len(file) /\ strange \subseteq Params /\ position \in 0 .. Len(file)
          /\ recordNum \in 0 .. NumEntries
      BY <1>1, <1>2, <1>4
    <3>. QED
      BY <1>2, <1>4, <2>1, <3>1 DEF PrmTypeOK
<1>6. given \in [Params -> SUBSET Seq(FileCells)]
  BY <1>2
<1>7. Packed(m_db) /\ HaveGiven(m_db, given)
  <2>1. UsedUpTo(Clear, 0)
    BY <1>1, <1>3 DEF UsedUpTo
  <2>. QED
    BY <1>1, <1>2, <1>3, <2>1 DEF Packed, HaveGiven
<1>8. SoundFrom(file, torn, given, position)
  <2>1. ASSUME NEW p \in Nat \ {0}, Readable(file, p) PROVE FALSE
    <3>1. p <= 0
      BY <1>4, <2>1 DEF Readable
    <3>. QED
      BY <3>1
  <2>. QED
    BY <2>1 DEF SoundFrom
<1>9. SavedIsLoaded /\ OneEntryTooMany /\ DamageIsBounded
  <2>1. Cardinality({}) = 0
    BY FS_EmptySet
  <2>. QED
    BY <1>2, <2>1 DEF SavedIsLoaded, OneEntryTooMany, DamageIsBounded
<1>. QED
  BY <1>2, <1>5, <1>6, <1>7, <1>8, <1>9 DEF PrmInv, Idle

(* All steps.                                                              *)
LEMMA PrmInvNext ==
    ASSUME PrmAssumption, PrmInv, [PrmNext]_prmVars
    PROVE  PrmInv'
<1>1. ASSUME NEW p \in Params, NEW v \in Values, SetPrm(p, v) PROVE PrmInv'
  BY <1>1, SetPrmKeeps
<1>2. CASE SaveFile
  BY <1>2, SaveFileKeeps
<1>3. CASE Write
  BY <1>3, WriteKeeps
<1>4. CASE WriteFails
  BY <1>4, WriteFailsKeeps
<1>5. CASE SaveComplete
  BY <1>5, SaveCompleteKeeps
<1>6. CASE Crash
  BY <1>6, CrashKeeps
<1>7. CASE StartUp
  <2>1. ASSUME Start(0, "none") PROVE PrmInv'
    <3>1. 0 \in 0 .. NumEntries /\ "none" \in {"none", "header", "value"}
      BY DEF PrmAssumption
    <3>. QED
      BY <2>1, <3>1, StartKeeps
  <2>2. ASSUME NEW e \in 1 .. NumEntries, NEW fails \in {"header", "value"}, Start(e, fails) PROVE PrmInv'
    <3>1. e \in 0 .. NumEntries /\ fails \in {"none", "header", "value"}
      BY DEF PrmAssumption
    <3>2. e # 0
      OBVIOUS
    <3>. QED
      BY <2>2, <3>1, <3>2, StartKeeps
  <2>. QED
    BY <1>7, <2>1, <2>2 DEF StartUp
<1>8. CASE UNCHANGED prmVars
  BY <1>8 DEF prmVars, ofFile, ofLoad, PrmInv, PrmTypeOK, Idle, Saving, WholeSave, Begins, SavedIsLoaded,
              OneEntryTooMany, DamageIsBounded
<1>. QED
  BY <1>1, <1>2, <1>3, <1>4, <1>5, <1>6, <1>7, <1>8 DEF PrmNext

(* For any parameters and values, a table of any size, and a process that  *)
(* may end at any time: what a save that ended well wrote is what the next *)
(* start reads, a start gives at most as many parameters a value that was  *)
(* never given to them as there are places in the file where a save was    *)
(* cut short (and one more if it meets a read error), unless a value was   *)
(* saved that holds what reads as a field, and at most one entry that was  *)
(* not loaded is in use (PrmDbImpl::PRM_SAVE_FILE_cmdHandler and           *)
(* readParamFile).                                                         *)
THEOREM SavesAreLoaded == PrmSpec => []LoadIsSound
<1>. USE PrmAssumption
<1>1. PrmInit => PrmInv
  BY PrmInvInit
<1>2. PrmInv /\ [PrmNext]_prmVars => PrmInv'
  BY PrmInvNext
<1>3. PrmInv => LoadIsSound
  BY DEF PrmInv, LoadIsSound
<1>. QED
  BY <1>1, <1>2, <1>3, PTL DEF PrmSpec
=============================================================================
