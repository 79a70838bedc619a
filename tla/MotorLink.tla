------------------------------ MODULE MotorLink ------------------------------
(***************************************************************************)
(* The F' component Stage9MotorBridge and julia_vesc_server.jl, joined by  *)
(* a TCP connection.  The bridge connects once, when it is initialised;    *)
(* its commands send a line each, waiting for room, and its run handler    *)
(* reads at most one buffer of telemetry without waiting.  The server      *)
(* serves one connection at a time in a 20 Hz loop: at most one command    *)
(* line, then one telemetry line, written as room allows; any error makes  *)
(* it accept the next connection.                                          *)
(***************************************************************************)
EXTENDS Integers, Sequences

CONSTANTS
    MaxDuty,     \* the clamp of SET_DUTY, in thousandths
    Duties,      \* arguments of SET_DUTY, NaN among them
    Currents,    \* arguments of SET_CURRENT
    FloatNaN,    \* the float that compares false with every number
    Layout,      \* the field to which each cell of a telemetry line belongs
    BufLen,      \* cells of the bridge's receive buffer (255 bytes)
    WireLen,     \* cells the connection holds before println blocks
    CmdLen,      \* command lines the connection holds before send blocks
    Crashes      \* processes that may end at any time: "bridge", "server"

(* The place of each field in the format; the time and the newline belong  *)
(* to the last one.                                                        *)
Rank == [rpm |-> 1, duty |-> 2, current |-> 3, volt |-> 4, fault |-> 5]

LinkAssumption ==
    /\ MaxDuty \in Nat \ {0}
    /\ Duties \subseteq Int \cup {FloatNaN} /\ FloatNaN \notin Int /\ Currents \subseteq Int
    /\ Layout \in Seq(DOMAIN Rank) /\ Layout # <<>>
    /\ \A i, j \in DOMAIN Layout : i < j => Rank[Layout[i]] <= Rank[Layout[j]]
    /\ BufLen \in Nat \ {0} /\ WireLen \in Nat \ {0} /\ CmdLen \in Nat \ {0}
    /\ Crashes \subseteq {"bridge", "server"}

VARIABLES
    bridge,         \* the bridge's process: "up" or "down"
    sock,           \* its socket: "none" (-1), "open", "broken" (peer gone)
    sending,        \* the line a command's handler is sending
    shared,         \* run takes its turn on the thread of the commands
                    \* (an async port); otherwise on its caller's
    tlm,            \* the telemetry last written to its channels
    asked,          \* history: the last duty sent since the bridge started
    stopAsked,      \* history: a STOP was carried out after that
    link, pend,     \* connections: the accepted one and one that waits
    wire,           \* telemetry cells under way to the bridge
    server,         \* where the server is: "down", "accept", "top", "print"
    printed,        \* cells of its telemetry line that println has written
    script,         \* it is run as a script; otherwise its text is
                    \* evaluated interactively
    duty, current   \* its globals of the same names

bridgeVars == <<bridge, sock, sending, shared, tlm, asked, stopAsked>>
netVars    == <<link, pend, wire>>
serverVars == <<server, printed, script, duty, current>>
linkVars == <<bridgeVars, netVars, serverVars>>

None   == [kind |-> "none"]
NoConn == [live |-> FALSE]
Conn(lines, live) == [lines |-> lines, live |-> live]

(* std::max(-0.05f, std::min(0.05f, d)): both keep their first argument    *)
(* when the comparison with NaN is false.                                  *)
Clamp(d) == IF d = FloatNaN \/ d > MaxDuty THEN MaxDuty ELSE IF d < -MaxDuty THEN -MaxDuty ELSE d

LineLen == Len(Layout)
Fields  == {Layout[i] : i \in 1 .. LineLen}

(* A telemetry line: rpm = round(duty * 1000), that is the duty in         *)
(* thousandths, in which duty itself is given here; no command of the      *)
(* bridge sets the fault.  A cell is text: its place in the line and the   *)
(* value of the field it is a part of; the line it was written for is      *)
(* history.                                                                *)
Telemetry(d, c) ==
    [f \in Fields |-> [rpm |-> d, duty |-> d, current |-> c, volt |-> 24, fault |-> 0][f]]
Cell(i, line) == [place |-> i, val |-> line[Layout[i]], line |-> line]

LinkInit ==
    /\ bridge = "down" /\ sock = "none" /\ sending = None /\ shared \in BOOLEAN
    /\ tlm = None /\ asked = None /\ stopAsked = FALSE
    /\ link = NoConn /\ pend = NoConn /\ wire = <<>>
    /\ server = "down" /\ printed = 0 /\ script = FALSE /\ duty = 0 /\ current = 0

-----------------------------------------------------------------------------
(* Stage9MotorBridge::init and connectSocket: connect succeeds as soon as  *)
(* the server listens, whether or not it accepts.  Bound: one connection   *)
(* waits at a time.                                                        *)
StartBridge ==
    /\ bridge = "down" /\ pend = NoConn
    /\ bridge' = "up" /\ tlm' = None /\ asked' = None /\ stopAsked' = FALSE
    /\ IF server = "down"
       THEN sock' = "none" /\ UNCHANGED pend
       ELSE sock' = "open" /\ pend' = Conn(<<>>, TRUE)
    /\ UNCHANGED <<sending, shared, link, wire, serverVars>>

(* The bridge's process ends: what it sent is read by the server, or lost  *)
(* to a reset.                                                             *)
Closed(conn) == {Conn(conn.lines, FALSE), Conn(<<>>, FALSE)}

EndBridge ==
    /\ bridge' = "down" /\ sock' = "none" /\ sending' = None
    /\ tlm' = None /\ asked' = None /\ stopAsked' = FALSE /\ wire' = <<>>
    /\ IF pend # NoConn /\ pend.live
       THEN pend' \in Closed(pend) /\ UNCHANGED link
       ELSE IF link.live THEN link' \in Closed(link) /\ UNCHANGED pend
       ELSE UNCHANGED <<link, pend>>
    /\ UNCHANGED <<shared, serverVars>>

CrashBridge == "bridge" \in Crashes /\ bridge = "up" /\ EndBridge

(* A command's handler begins: it formats its line and calls send, which   *)
(* waits for room on the component's only thread.  Without a socket        *)
(* sendCmd returns at once, and the command changes nothing.               *)
Command(line) ==
    /\ bridge = "up" /\ sending = None /\ sock # "none"
    /\ sending' = line
    /\ UNCHANGED <<bridge, sock, shared, tlm, asked, stopAsked, netVars, serverVars>>

SetDuty(d)    == Command([key |-> "duty", val |-> Clamp(d)])
SetCurrent(c) == Command([key |-> "current", val |-> c])

(* The line is "stop=0.000000".                                            *)
SendStop == Command([key |-> "stop", val |-> 0])

Room(conn) == conn.live /\ Len(conn.lines) < CmdLen

(* send returns: the line is on the connection, or lost because the server *)
(* is gone.  The command is answered OK in either case.  Bounds: a line    *)
(* goes in one piece, and CmdLen of them fill the connection.              *)
Send ==
    /\ sending # None /\ sending' = None
    /\ \/ sock = "broken" /\ UNCHANGED <<link, pend>>
       \/ /\ sock = "open" /\ pend # NoConn /\ Room(pend)
          /\ pend' = Conn(Append(pend.lines, sending), TRUE)
          /\ UNCHANGED link
       \/ /\ sock = "open" /\ Room(link)
          /\ link' = Conn(Append(link.lines, sending), TRUE)
          /\ UNCHANGED pend
    /\ asked' = IF sock = "open" /\ sending.key = "duty" THEN sending ELSE asked
    /\ stopAsked' = (/\ sock = "open"
                     /\ IF stopAsked THEN sending.key # "duty" ELSE sending.key = "stop")
    /\ UNCHANGED <<bridge, sock, shared, tlm, wire, serverVars>>

(* Or send raises SIGPIPE.                                                 *)
SigPipe == sending # None /\ sock = "broken" /\ EndBridge

(* The buffer begins with the first k cells of a line, and no more.        *)
Begun(buf, k) ==
    /\ \A i \in 1 .. k : buf[i].place = i
    /\ k < Len(buf) => buf[k + 1].place # k + 1

(* A number whose text is cut short.                                       *)
Cut(v) == IF v >= 0 THEN 0 .. v ELSE v .. 0

(* A parser that looks for each key wherever it is in the buffer.          *)
MutantParse(buf, k) ==
    {[f \in Fields |->
        LET found == {i \in DOMAIN buf : Layout[buf[i].place] = f}
        IN  IF found = {} THEN 0 ELSE buf[CHOOSE i \in found : \A j \in found : i <= j].val]}

(* parseTelemetry, of a buffer that begins with k cells of a line: sscanf  *)
(* reads the fields they hold, the number in the last of them perhaps cut  *)
(* short, and leaves the others zero.                                      *)
Parse(buf, k) ==
    LET whole(f) == \A i \in 1 .. LineLen : Layout[i] = f => i <= k
        last(f)  == CHOOSE i \in 1 .. k : Layout[i] = f
    IN  {[f \in Fields |-> IF whole(f) THEN buf[last(f)].val
                           ELSE IF k > 0 /\ Layout[k] = f THEN part ELSE 0] :
            part \in Cut(IF k > 0 THEN buf[k].val ELSE 0)}

(* run_handler: what the server wrote before it went can still be read.    *)
Run ==
    /\ bridge = "up" /\ sock # "none" /\ (shared => sending = None) /\ wire # <<>>
    /\ LET n   == IF Len(wire) < BufLen THEN Len(wire) ELSE BufLen
           buf == SubSeq(wire, 1, n)
       IN  /\ \E k \in 0 .. n : Begun(buf, k) /\ tlm' \in Parse(buf, k)
           /\ wire' = SubSeq(wire, n + 1, Len(wire))
    /\ UNCHANGED <<bridge, sock, sending, shared, asked, stopAsked, link, pend, serverVars>>

-----------------------------------------------------------------------------
StartServer ==
    /\ server = "down"
    /\ server' = "accept" /\ script' \in BOOLEAN /\ duty' = 0 /\ current' = 0
    /\ UNCHANGED <<bridgeVars, netVars, printed>>

(* The server's process ends and takes both connections with it: its       *)
(* telemetry is read by the bridge, or lost to a reset.                    *)
EndServer ==
    /\ server' = "down" /\ printed' = 0 /\ duty' = 0 /\ current' = 0
    /\ link' = NoConn /\ pend' = NoConn /\ wire' \in {wire, <<>>}
    /\ sock' = IF sock = "open" THEN "broken" ELSE sock
    /\ UNCHANGED <<bridge, sending, shared, tlm, asked, stopAsked, script>>

CrashServer == "server" \in Crashes /\ server # "down" /\ EndServer

(* The accept before the loop and the one in its catch clause: the state   *)
(* of the motor is what the last connection left.                          *)
AcceptLink ==
    /\ server = "accept" /\ pend # NoConn
    /\ link' = pend /\ pend' = NoConn
    /\ server' = "top"
    /\ UNCHANGED <<bridgeVars, wire, printed, script, duty, current>>

(* As a script, the assignments inside the loop's try make duty, current   *)
(* and fault locals of it, undefined when the telemetry line reads them;   *)
(* its catch makes sock one as well, so that close(sock) ends the script.  *)
TopOfScript == server = "top" /\ script /\ EndServer

MutantObey(line) ==
    /\ duty' = line.val
    /\ UNCHANGED current

(* "stop=..." is not "stop": it is an unknown command.                     *)
Obey(line) ==
    /\ duty' = IF line.key = "duty" THEN line.val ELSE duty
    /\ current' = IF line.key = "current" THEN line.val ELSE current

MutantTopDiscards ==
    /\ server = "top" /\ ~script
    /\ server' = "print"
    /\ \/ link.lines = <<>> /\ UNCHANGED <<link, duty, current>>
       \/ /\ link.lines # <<>>
          /\ Obey(Head(link.lines))
          /\ link' = Conn(<<>>, link.live)
    /\ UNCHANGED <<bridgeVars, pend, wire, printed, script>>

Top ==
    /\ server = "top" /\ ~script
    /\ server' = "print"
    /\ \/ link.lines = <<>> /\ UNCHANGED <<link, duty, current>>
       \/ /\ link.lines # <<>>
          /\ Obey(Head(link.lines))
          /\ link' = Conn(Tail(link.lines), link.live)
    /\ UNCHANGED <<bridgeVars, pend, wire, printed, script>>

(* println, while the bridge is there: the kernel takes as many of the     *)
(* line's remaining cells as it likes of those it has room for, and        *)
(* println waits to write the others.                                      *)
Println ==
    /\ server = "print" /\ link.live
    /\ \E n \in printed + 1 .. LineLen :
         /\ Len(wire) + (n - printed) <= WireLen
         /\ wire' = wire \o [i \in 1 .. n - printed |-> Cell(printed + i, Telemetry(duty, current))]
         /\ IF n = LineLen THEN printed' = 0 /\ server' = "top"
            ELSE printed' = n /\ UNCHANGED server
    /\ UNCHANGED <<bridgeVars, link, pend, script, duty, current>>

(* Once it is gone, the write is still absorbed by the kernel ...          *)
PrintAbsorbed ==
    /\ server = "print" /\ ~link.live
    /\ server' = "top" /\ printed' = 0
    /\ UNCHANGED <<bridgeVars, netVars, script, duty, current>>

(* ... or raises: the catch clause closes the connection.                  *)
PrintFails ==
    /\ server = "print" /\ ~link.live
    /\ link' = NoConn /\ server' = "accept" /\ printed' = 0
    /\ UNCHANGED <<bridgeVars, pend, wire, script, duty, current>>

Serve == AcceptLink \/ TopOfScript \/ Top \/ Println \/ PrintAbsorbed \/ PrintFails

LinkNext ==
    \/ StartBridge \/ CrashBridge \/ SigPipe
    \/ (\E d \in Duties : SetDuty(d)) \/ (\E c \in Currents : SetCurrent(c)) \/ SendStop
    \/ Send \/ Run
    \/ StartServer \/ CrashServer \/ Serve

LinkSpec == LinkInit /\ [][LinkNext]_linkVars

(* The rate group keeps calling run, whose message takes its turn in the   *)
(* component's queue when it is one; send returns when there is room; the  *)
(* server keeps looping, and writing to a connection that is gone fails in *)
(* the end.  Nobody has to start, command, stop or kill anything.          *)
LinkFairness ==
    /\ SF_linkVars(Run) /\ WF_linkVars(Send) /\ WF_linkVars(Serve)
    /\ SF_linkVars(PrintFails)

LinkFairSpec == LinkSpec /\ LinkFairness

-----------------------------------------------------------------------------
Band     == -MaxDuty .. MaxDuty
CmdLines == [key : {"duty"}, val : Band] \cup [key : {"current"}, val : Currents]
                \cup [key : {"stop"}, val : {0}]
TlmLines == {Telemetry(d, c) : d \in Band, c \in Currents \cup {0}}
TlmCells == {Cell(i, line) : i \in 1 .. LineLen, line \in TlmLines}
Conns    == [lines : Seq(CmdLines), live : BOOLEAN] \cup {NoConn}

LinkTypeOK ==
    /\ shared \in BOOLEAN /\ script \in BOOLEAN
    /\ bridge \in {"up", "down"} /\ sock \in {"none", "open", "broken"}
    /\ sending \in CmdLines \cup {None}
    /\ tlm \in [Fields -> Int] \cup {None}
    /\ asked \in [key : {"duty"}, val : Band] \cup {None} /\ stopAsked \in BOOLEAN
    /\ link \in Conns /\ pend \in Conns
    /\ wire \in Seq(TlmCells) /\ Len(wire) <= WireLen
    /\ server \in {"down", "accept", "top", "print"}
    /\ printed \in 0 .. LineLen - 1 /\ (server # "print" => printed = 0)
    /\ duty \in Band /\ current \in Currents \cup {0}

(* Commands are neither lost nor reordered while the connection lasts: the *)
(* server that has read everything runs at the last duty sent.             *)
LastDutyWins ==
    (sock = "open" /\ pend = NoConn /\ link.live /\ link.lines = <<>> /\ asked # None)
        => duty = asked.val

(* A bridge without a connection - it came up before the server, or the    *)
(* server was restarted under it - has no hold on the motor, and nothing   *)
(* else moves it: it rests, until the bridge itself is restarted.          *)
UnconnectedRests == (bridge = "up" /\ sock # "open") => duty = 0

(* The last duty sent reaches the motor, and only while the bridge that    *)
(* sent it is connected, whatever crashes between.                         *)
LinkIsKept == LinkTypeOK /\ LastDutyWins /\ UnconnectedRests

(* What a read that ends within a line leaves of it: the fields up to one, *)
(* that one perhaps cut short, and zeros.                                  *)
CutShort(t, line) ==
    \E f \in Fields :
        /\ \A g \in Fields : Rank[g] < Rank[f] => t[g] = line[g]
        /\ t[f] \in Cut(line[f])
        /\ \A g \in Fields : Rank[g] > Rank[f] => t[g] = 0

(* Wherever the server's writes and the bridge's reads cut the stream, and *)
(* however far the bridge lags behind, it publishes the beginning of one   *)
(* line the server wrote, and zeros after it: never fields of two lines.   *)
OneLinePublished ==
    [][tlm' # tlm /\ tlm' # None => CutShort(tlm', wire[1].line)]_linkVars

(* The mutual wait: the thread that would read telemetry waits for room to *)
(* send, and the server, which would make that room, for room to print.    *)
Interlocked ==
    /\ shared /\ sending # None /\ link.live /\ ~Room(link)
    /\ server = "print" /\ Len(wire) = WireLen

(* If the last duty sent stays the same, the connection lasts and the two  *)
(* do not end in a mutual wait, the server comes to run at that duty.      *)
Connected(d) == sock = "open" /\ asked = [key |-> "duty", val |-> d]
DutyArrives == \A d \in Band : <>[](Connected(d) /\ ~Interlocked) => <>[](duty = d)

(* A bridge that stays connected to an interactive server publishes        *)
(* telemetry sooner or later.                                              *)
TelemetryFlows == (~script /\ sock = "open") ~> (tlm # None \/ sock # "open" \/ Interlocked)

(* A command waits for room only for a while.                              *)
CommandsReturn == (sending # None) ~> (sending = None \/ Interlocked)

(* Duties reach the server, its telemetry comes back and commands return:  *)
(* of all the ways in which two full buffers meet, only the mutual wait on *)
(* a bridge of one thread lasts.                                           *)
BothWaysFlow == DutyArrives /\ TelemetryFlows /\ CommandsReturn

-----------------------------------------------------------------------------
(* "STOP command" under "Safety" (Architecture.md:24): a STOP that a       *)
(* connected bridge carried out rests the motor.                           *)
StopCommandRests == (~script /\ stopAsked) ~> (duty = 0 \/ ~stopAsked \/ Interlocked)
=============================================================================
