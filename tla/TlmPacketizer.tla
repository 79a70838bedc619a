---------------------------- MODULE TlmPacketizer ----------------------------
(* Svc::TlmPacketizer keeps telemetry in packets, a channel in any number  *)
(* of them.  TlmRecv, on the thread of the component whose channel it is,  *)
(* stores a value in one packet after the other, each under the lock; Run  *)
(* and the commands are on the component's own thread.  Run copies, under  *)
(* the lock, the packets that are due, and sends the copies.               *)
(*                                                                         *)
(* A value is the number of the TlmRecv call of its channel that brought   *)
(* it; 0 is the cleared packet.  A channel's calls are on one thread.      *)
EXTENDS Naturals, Sequences

CONSTANTS
    ChannelIds,  \* the ids of the channels
    Packets,     \* packetList: sequence of [id, level, list], list a set of channels
    Ignored,     \* ignoreList
    Levels,      \* levels that a command may set
    StartLevel,  \* startLevel in setPacketList
    PacketIds,   \* ids that a command may name
    Modes,       \* the values of PACKET_UPDATE_MODE to be built
    MaxReceives  \* bound: calls of TlmRecv for each channel

PacketizerAssumption ==
    /\ Ignored \subseteq ChannelIds /\ StartLevel \in Nat /\ Levels \subseteq Nat
    /\ MaxReceives \in Nat
    /\ Modes \subseteq {"ALWAYS", "ON_CHANGE", "AFTER_FIRST_CHANGE"}
    /\ Packets \in Seq([id : Nat, level : Nat, list : SUBSET ChannelIds])

Numbers == DOMAIN Packets

VARIABLES
    updateMode,    \* PACKET_UPDATE_MODE of this build
    m_fillBuffers, \* the packets that TlmRecv fills
    m_startLevel,
    toFill,        \* per channel, the packets that its TlmRecv under way is yet to fill
    value,         \* per channel, calls of TlmRecv so far
    returned,      \* history: per channel, the value whose TlmRecv returned last
    last,          \* history: per packet, the contents that were sent last
    inRun,         \* history: the packets that the last Run sent
    fresh,         \* history: packets that got a value since they were last sent
    asked          \* history: packets asked for since the last Run

writers == <<toFill, value, returned>>
packetVars == <<updateMode, m_fillBuffers, m_startLevel, writers, last, inRun, fresh, asked>>

Cleared == [id \in ChannelIds |-> 0]

PacketInit ==
    /\ updateMode \in Modes
    /\ m_fillBuffers = [p \in Numbers |-> [buffer |-> Cleared, updated |-> FALSE, requested |-> FALSE]]
    /\ m_startLevel = StartLevel
    /\ toFill = [id \in ChannelIds |-> {}] /\ value = Cleared /\ returned = Cleared
    /\ last = [p \in Numbers |-> Cleared]
    /\ inRun = {} /\ fresh = {} /\ asked = {}

-----------------------------------------------------------------------------
(* What the table that setPacketList builds says of a channel: the packets *)
(* with an offset for it, none if it is ignored.  A call for a channel     *)
(* without any changes nothing but the list of warnings.                   *)
PacketsOf(id) ==
    IF id \in Ignored THEN {} ELSE {p \in Numbers : id \in Packets[p].list}

TlmRecvBegin(id) ==
    /\ toFill[id] = {} /\ PacketsOf(id) # {} /\ value[id] < MaxReceives
    /\ toFill' = [toFill EXCEPT ![id] = PacketsOf(id)]
    /\ value' = [value EXCEPT ![id] = @ + 1]
    /\ UNCHANGED <<updateMode, m_fillBuffers, m_startLevel, returned, last, inRun, fresh, asked>>

(* The packets are filled in the order of their numbers.                   *)
TlmRecvCopy(id, p) ==
    /\ p \in toFill[id] /\ \A q \in toFill[id] : p <= q
    /\ m_fillBuffers' = [m_fillBuffers EXCEPT ![p].updated = TRUE, ![p].buffer[id] = value[id]]
    /\ fresh' = fresh \cup {p}
    /\ toFill' = [toFill EXCEPT ![id] = @ \ {p}]
    /\ returned' = IF toFill'[id] = {} THEN [returned EXCEPT ![id] = value[id]] ELSE returned
    /\ UNCHANGED <<updateMode, m_startLevel, value, last, inRun, asked>>

-----------------------------------------------------------------------------
IsDue(p) ==
    /\ m_fillBuffers[p].updated
    /\ Packets[p].level <= m_startLevel \/ m_fillBuffers[p].requested

(* A packet that is not due is sent with what it has in one mode.          *)
SentAnyway(p) ==
    ~ IsDue(p) /\ updateMode = "ALWAYS" /\ Packets[p].level <= m_startLevel

(* A mutant: a Run takes the flag of every packet.                         *)
MutantCopied(p) ==
    [m_fillBuffers[p] EXCEPT !.updated = @ /\ updateMode # "ON_CHANGE", !.requested = FALSE]

(* What Run leaves of a packet on the fill side.                           *)
Copied(p) ==
    IF IsDue(p)
    THEN [m_fillBuffers[p] EXCEPT !.updated = @ /\ updateMode # "ON_CHANGE", !.requested = FALSE]
    ELSE m_fillBuffers[p]

(* The copies belong to the one thread that sends them: copying and        *)
(* sending are one step.                                                   *)
Run ==
    LET sent == {p \in Numbers : IsDue(p) \/ SentAnyway(p)}
    IN  /\ m_fillBuffers' = [p \in Numbers |-> Copied(p)]
        /\ last' = [p \in Numbers |-> IF p \in sent THEN m_fillBuffers[p].buffer ELSE last[p]]
        /\ inRun' = sent /\ fresh' = fresh \ sent /\ asked' = {}
        /\ UNCHANGED <<updateMode, m_startLevel, writers>>

SET_LEVEL(level) ==
    /\ m_startLevel' = level
    /\ UNCHANGED <<updateMode, m_fillBuffers, writers, last, inRun, fresh, asked>>

(* The first packet with the id; an unknown id is refused.                 *)
SEND_PKT(id) ==
    /\ \E p \in Numbers :
          /\ Packets[p].id = id /\ \A q \in 1 .. p - 1 : Packets[q].id # id
          /\ m_fillBuffers' = [m_fillBuffers EXCEPT ![p].updated = TRUE, ![p].requested = TRUE]
          /\ asked' = asked \cup {p}
    /\ UNCHANGED <<updateMode, m_startLevel, writers, last, inRun, fresh>>

PacketNext ==
    \/ \E id \in ChannelIds : TlmRecvBegin(id) \/ \E p \in Numbers : TlmRecvCopy(id, p)
    \/ Run
    \/ \E level \in Levels : SET_LEVEL(level)
    \/ \E id \in PacketIds : SEND_PKT(id)

PacketSpec == PacketInit /\ [][PacketNext]_packetVars

-----------------------------------------------------------------------------
PacketContents == [ChannelIds -> 0 .. MaxReceives]
PacketTypeOK ==
    /\ updateMode \in Modes
    /\ m_fillBuffers \in [Numbers -> [buffer : PacketContents, updated : BOOLEAN, requested : BOOLEAN]]
    /\ m_startLevel \in Levels \cup {StartLevel}
    /\ toFill \in [ChannelIds -> SUBSET Numbers]
    /\ value \in PacketContents /\ returned \in PacketContents /\ last \in [Numbers -> PacketContents]
    /\ inRun \subseteq Numbers /\ fresh \subseteq Numbers /\ asked \subseteq Numbers

(* After a Run the ground has, in every packet up to the level, at least   *)
(* the values whose TlmRecv had returned, however long a packet waited     *)
(* above the level and whoever asked for it meanwhile; a packet that was   *)
(* asked for is sent in the next Run; values do not go back; and a build   *)
(* that sends on change sends nothing else.                                *)
LatestIsSent ==
    [][Run =>
          /\ \A p \in Numbers : Packets[p].level <= m_startLevel \/ p \in asked =>
                \A id \in Packets[p].list \ Ignored : last'[p][id] >= returned[id]
          /\ asked \subseteq inRun'
          /\ \A p \in Numbers, id \in ChannelIds : last'[p][id] >= last[p][id]
          /\ updateMode = "ON_CHANGE" => inRun' \subseteq fresh \cup asked]_packetVars
=============================================================================
