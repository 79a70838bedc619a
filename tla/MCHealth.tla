------------------------------- MODULE MCHealth -------------------------------
EXTENDS Health

MCWarn  == <<1, 1>>
MCFatal == <<2, 3>>

Switch(c, on) == [kind |-> "HLTH_PING_ENABLE", comp |-> c, enable |-> on]
All(on)       == [kind |-> "HLTH_ENABLE", enable |-> on]
Change(c, w, f) == [kind |-> "HLTH_CHNG_PING", comp |-> c, warn |-> w, fatal |-> f]

(* Component 3 does not exist, and thresholds 3 and 1 are refused.         *)
MCCommands == {Switch(1, TRUE), Switch(1, FALSE), Switch(3, FALSE), All(TRUE), All(FALSE),
               Change(1, 2, 3), Change(2, 3, 1)}
=============================================================================
