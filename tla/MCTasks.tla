------------------------------- MODULE MCTasks -------------------------------
(* The file downlink and the command sequencer: each is moved on by a      *)
(* periodic call and by the answers to what it sent.  They do not interact *)
(* here; a behaviour is one of the one or of the other.                    *)
(*                                                                         *)
(* Downlink: a file that is empty and one of two packets; requests for all *)
(* of it, a part, more than it has, and a range that ends beyond the word. *)
EXTENDS FileDownlink, CmdSequencer

VARIABLE part

MCRequests == {[offset |-> 0, length |-> 0], [offset |-> 1, length |-> 1],
               [offset |-> 1, length |-> 4], [offset |-> 1, length |-> 7]}

(* Files of the sequencer: two commands, one and an END record, an END     *)
(* record alone, one command alone with a CRC error, one before a bad      *)
(* record, no record at all, one larger than the buffer.                   *)
Two      == [ok |-> TRUE,  recs |-> <<"cmd", "cmd">>, pos |-> 1]
WithEnd  == [ok |-> TRUE,  recs |-> <<"cmd", "end">>, pos |-> 1]
EndAlone == [ok |-> TRUE,  recs |-> <<"end">>,        pos |-> 1]
BadCrc   == [ok |-> FALSE, recs |-> <<"cmd">>,        pos |-> 1]
BadRec   == [ok |-> FALSE, recs |-> <<"cmd", "bad">>, pos |-> 2]
NoRecord == [ok |-> TRUE,  recs |-> <<>>,             pos |-> 1]
TooLarge == [ok |-> FALSE, recs |-> <<"bad">>,        pos |-> 1]

MCFiles == {Two, WithEnd, EndAlone, BadCrc, BadRec, NoRecord, TooLarge, Missing}
MCIds   == 1 .. 2

ASSUME DownlinkAssumption /\ SequencerAssumption

-----------------------------------------------------------------------------
TasksInit == /\ part \in {"sequencer", "downlink"} /\ Init /\ SequencerInit
             /\ part = "downlink" => ~st.valid

TasksNext ==
    /\ UNCHANGED part
    /\ \/ part = "sequencer" /\ SequencerNext /\ UNCHANGED vars
       \/ part = "downlink" /\ Next /\ UNCHANGED st

TasksSpec ==
    /\ TasksInit /\ [][TasksNext]_<<part, st, vars>>
    /\ (part = "sequencer" /\ SequencerFairness) \/ (part = "downlink" /\ Fairness)
=============================================================================
