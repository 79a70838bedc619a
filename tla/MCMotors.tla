------------------------------- MODULE MCMotors -------------------------------
(* The two other programs that drive the motor, side by side; a behaviour  *)
(* is one of the minimum-duty server or of the F' bridge and its server.   *)
(*                                                                         *)
(* Minimum-duty server: two connections; duties below, inside and above    *)
(* the range in which the motor spins, not-a-number, and two lines at once.*)
EXTENDS VescServer, MotorLink

VARIABLE program

Line(v)     == [verb |-> v, val |-> Bad]
DutyLine(x) == [verb |-> "duty", val |-> x]

MCChunks == {<<Line("enable")>>, <<Line("disable")>>, <<Line("stop")>>,
             <<DutyLine(-1)>>, <<DutyLine(3)>>, <<DutyLine(9)>>, <<DutyLine(NaN)>>,
             <<Line("ping")>>, <<DutyLine(3), Line("stop")>>}

(* Bridge: a telemetry line of rpm and duty, the latter in two cells, so   *)
(* that a read can end within it; a buffer that is no multiple of a line,  *)
(* as 255 bytes are none; a duty beyond the clamp and NaN, which reach its *)
(* two ends.                                                               *)
MCLayout == <<"rpm", "duty", "duty">>
MCDuties == {-9, FloatNaN}

ASSUME VescAssumption /\ LinkAssumption

MotorsInit ==
    /\ program \in {"minimum duty", "bridge"} /\ Init /\ LinkInit
    /\ program = "minimum duty" => ~shared

MotorsNext ==
    /\ UNCHANGED program
    /\ \/ program = "minimum duty" /\ Next /\ UNCHANGED linkVars
       \/ program = "bridge" /\ LinkNext /\ UNCHANGED vars

(* Fairness is assumed of the bridge and its server, whose liveness is     *)
(* checked.                                                                *)
MotorsSpec ==
    /\ MotorsInit /\ [][MotorsNext]_<<program, vars, linkVars>>
    /\ program = "bridge" => LinkFairness
=============================================================================
