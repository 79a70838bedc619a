----------------------------- MODULE MCServices -----------------------------
(* Services that do not interact with each other here: the way of uplinked *)
(* bytes to the file uplink, the file uplink itself, the rate groups, the  *)
(* parameter database, the two telemetry stores and the buffer log; a      *)
(* behaviour is one of one of them.  The types come with their properties. *)
EXTENDS UplinkPath, TlmChan, RateGroups, TlmPacketizer, BufferLogger, PrmDb

VARIABLE part

(* A small buffer before a large one.                                      *)
MCSizes == <<1, 2>>

-----------------------------------------------------------------------------
(* Two files; under the name of the first there is a longer one on the     *)
(* disk already.                                                           *)
VARIABLES upload, next, link, receiveMode, lastSequenceIndex, name, size, checksum, disk,
          warned, received, repeats, writeCut

uploadVars == <<upload, next, link, receiveMode, lastSequenceIndex, name, size, checksum, disk,
                warned, received, repeats, writeCut>>

FilesSent == << [name |-> "a", data |-> <<1, 2>>], [name |-> "b", data |-> <<3, 1>>] >>
OnDisk    == [n \in {"a", "b"} |-> IF n = "a" THEN <<3, 3, 3>> ELSE <<>>]

F == INSTANCE FileUplink
        WITH Uploads <- FilesSent, Disk <- OnDisk, ByteValues <- 4, WordMod <- 4,
             Window <- 2, MaxRepeats <- 1, halted <- writeCut

QuietFileIsWhole == F!TypeOK /\ F!QuietFileIsWhole /\ PacketTypeOK

ASSUME PathAssumption /\ F!UplinkAssumption

-----------------------------------------------------------------------------
(* Rate groups with two dividers and an unused port; only the slower group *)
(* is pinged.                                                              *)
MCDividers == <<2, 0, 3>>

ASSUME RateGroupsAssumption

-----------------------------------------------------------------------------
(* Two parameters and a table of two; a value that is shorter than others, *)
(* and two of one length, whose pieces a save that is cut short may mix.   *)
MCParamValues == {<< <<"val", 1>> >>,
                  << <<"val", 1>>, <<"val", 2>> >>,
                  << <<"val", 2>>, <<"val", 1>> >>}

ASSUME PrmAssumption

-----------------------------------------------------------------------------
(* Three channels, two of which share a hash slot.                         *)
Modulo(id) == id % 2

ASSUME TlmAssumption

-----------------------------------------------------------------------------
(* Three packets of two levels, two of them with the same id, channels in  *)
(* one and in two of them, and one that is ignored.                        *)
MCPackets == << [id |-> 1, level |-> 1, list |-> {1, 2}], [id |-> 2, level |-> 2, list |-> {2, 3}],
                [id |-> 2, level |-> 1, list |-> {1}] >>

ASSUME PacketizerAssumption

-----------------------------------------------------------------------------
(* Two base names, one of which is the other's second file; an empty       *)
(* buffer, three that fit and one that is too long for its size field.     *)
MCBaseNames == {<<0>>, <<0, 1>>}
MCBuffers   == {<<>>, <<1>>, <<2, 0>>, <<1, 1, 2>>, <<0, 0, 0, 0>>}

ASSUME LoggerAssumption

-----------------------------------------------------------------------------
others == <<uploadVars, rateVars, prmVars, tlmVars, packetVars, logVars>>

ServicesInit ==
    /\ part \in {"path", "uplink", "rate groups", "parameters", "telemetry", "packets", "log"}
    /\ PathInit /\ F!Init /\ RateInit /\ PrmInit /\ TlmInit /\ PacketInit /\ LogInit
    /\ part # "packets" => updateMode = "ON_CHANGE"

ServicesNext ==
    /\ UNCHANGED part
    /\ \/ part = "path" /\ PathNext /\ UNCHANGED others
       \/ /\ UNCHANGED vars
          /\ \/ part = "uplink" /\ F!Next
                /\ UNCHANGED <<rateVars, prmVars, tlmVars, packetVars, logVars>>
             \/ part = "rate groups" /\ RateNext /\ "ping" \notin ToSet(cycles'[1])
                /\ UNCHANGED <<uploadVars, prmVars, tlmVars, packetVars, logVars>>
             \/ part = "parameters" /\ PrmNext
                /\ UNCHANGED <<uploadVars, rateVars, tlmVars, packetVars, logVars>>
             \/ part = "telemetry" /\ TlmNext
                /\ UNCHANGED <<uploadVars, rateVars, prmVars, packetVars, logVars>>
             \/ part = "packets" /\ PacketNext
                /\ UNCHANGED <<uploadVars, rateVars, prmVars, tlmVars, logVars>>
             \/ part = "log" /\ LogNext
                /\ UNCHANGED <<uploadVars, rateVars, prmVars, tlmVars, packetVars>>

ServicesSpec == ServicesInit /\ [][ServicesNext]_<<part, vars, others>>
=============================================================================
