--------------------------- MODULE MCCmdSequencer ---------------------------
(* A file of two commands, and one with a CRC error.                       *)
EXTENDS CmdSequencer

Two      == [ok |-> TRUE,  recs |-> <<"cmd", "cmd">>, pos |-> 1]
BadCrc   == [ok |-> FALSE, recs |-> <<"cmd">>,        pos |-> 1]

MCCrc    == {Two, BadCrc}
MCIds    == 1 .. 3
MCDelays == {0, 2}
MCStart  == {"CS_RUN", "CS_START"}
=============================================================================
