---------------------------- MODULE MCConnections ----------------------------
(* Two programs of several threads behind a TCP connection: the hard-safe  *)
(* server, and a driver of the framework with its read task.  They do not  *)
(* interact; a behaviour is one of the one or of the other.                *)
(*                                                                         *)
(* Server: two connections, a duty below the band, and data in which a     *)
(* second line was coalesced with the first, whose argument is no number.  *)
(* Driver: a message takes two calls of ::send.                            *)
EXTENDS HardSafeServer, SocketTask

VARIABLE part

Line(v)     == [verb |-> v, val |-> Bad]
DutyLine(x) == [verb |-> "duty", val |-> x]

MCChunks == {<<Line("enable")>>, <<Line("disable")>>, <<Line("stop")>>,
             <<DutyLine(-9)>>, <<DutyLine(1), Line("stop")>>,
             <<Line("ping")>>, <<Line("other")>>}

(* The second connection sends less than the first.                        *)
SecondChunks == {<<>>, <<Line("enable")>>, <<Line("stop")>>, <<DutyLine(-9)>>}

ASSUME SocketAssumption

ConnectionsInit == /\ part \in {"server", "driver"} /\ Init /\ SocketInit
                   /\ part = "server" => ~server /\ ~m_reconnect

ConnectionsNext ==
    /\ UNCHANGED part
    /\ \/ part = "server" /\ Next /\ chunk'["c2"] \in SecondChunks /\ UNCHANGED socketVars
       \/ part = "driver" /\ SocketNext /\ UNCHANGED vars

ConnectionsSpec ==
    /\ ConnectionsInit /\ [][ConnectionsNext]_<<part, vars, socketVars>>
    /\ (part = "server" /\ Fairness) \/ (part = "driver" /\ SocketFairness)
=============================================================================
