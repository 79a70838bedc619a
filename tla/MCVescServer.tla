--------------------------- MODULE MCVescServer ---------------------------
(* Two connections, and just what it takes to stop a motor that runs.      *)
EXTENDS VescServer

Line(v)     == [verb |-> v, val |-> Bad]
DutyLine(x) == [verb |-> "duty", val |-> x]

MCStopChunks == {<<Line("enable")>>, <<DutyLine(3)>>, <<Line("stop")>>}
=============================================================================
