---------------------------- MODULE MotorProofs ----------------------------
(***************************************************************************)
(* The safety of the minimum-duty server, for any number of clients, any   *)
(* received data, any band of duties and any driver outcome, and of the    *)
(* bridge and its server, whoever crashes and restarts.                    *)
(***************************************************************************)
EXTENDS VescServer, MotorLink, SequenceTheorems, TLAPS

(* What carries DisabledIsAtRest: the motor of a disabled server rests at  *)
(* every moment, also within the critical sections.                        *)
RestUnlessFailed == ~enabled /\ ~failed => motor = 0

-----------------------------------------------------------------------------
(* What is written for any float is a pace, not-a-number included.         *)
LEMMA PaceIsPaced ==
    ASSUME VescAssumption, NEW v \in Int \cup {NaN}
    PROVE  Pace(v) \in Paced
<1>. USE DEF VescAssumption
<1>1. CASE v = NaN
  BY <1>1 DEF Pace, Paced
<1>2. CASE v # NaN
  <2>. DEFINE a == IF v < 0 THEN -v ELSE v
              m == IF a < MinDuty THEN MinDuty ELSE IF a > TopDuty THEN TopDuty ELSE a
  <2>1. v \in Int /\ a \in Int
    BY <1>2
  <2>2. m \in Int /\ MinDuty <= m /\ m <= TopDuty
    BY <2>1
  <2>3. Pace(v) = IF v < 0 THEN -m ELSE m
    BY <1>2 DEF Pace
  <2>4. -m \in -TopDuty .. -MinDuty /\ m \in MinDuty .. TopDuty
    BY <2>2
  <2>. HIDE DEF m
  <2>. QED
    BY <2>3, <2>4 DEF Paced
<1>. QED
  BY <1>1, <1>2

(* What a duty line carries once float() accepts it.                       *)
LEMMA ValueType ==
    ASSUME VescAssumption, NEW ch \in Chunks \cup {<<>>}
    PROVE  Value(ch) \in Int \cup {NaN}
<1>1. CASE Len(ch) = 1 /\ ch[1].val # Bad
  <2>1. ch \in Seq(Lines)
    BY <1>1 DEF VescAssumption
  <2>2. ch[1] \in Lines
    BY <1>1, <2>1
  <2>. QED
    BY <1>1, <2>2 DEF Value, Lines
<1>2. CASE ~ (Len(ch) = 1 /\ ch[1].val # Bad)
  BY <1>2 DEF Value
<1>. QED
  BY <1>1, <1>2

-----------------------------------------------------------------------------
LEMMA InitInvariant == ASSUME VescAssumption PROVE Init => TypeOK /\ RestUnlessFailed
<1>. SUFFICES ASSUME Init PROVE TypeOK /\ RestUnlessFailed
  OBVIOUS
<1>. USE DEF Init
<1>1. 0 \in Int /\ 0 \in Paced
  BY DEF Paced
<1>2. /\ pc \in [Clients -> {"idle", "recv", "lock", "reply", "except", "force_stop"}]
      /\ peer \in [Clients -> {"up", "gone"}]
      /\ chunk \in [Clients -> Chunks \cup {<<>>}]
  OBVIOUS
<1>. QED
  BY <1>1, <1>2 DEF TypeOK, RestUnlessFailed

(* Type correctness, one step per action.                                  *)
LEMMA TypeStep == ASSUME VescAssumption PROVE TypeOK /\ [Next]_vars => TypeOK'
<1>. SUFFICES ASSUME TypeOK, [Next]_vars PROVE TypeOK'
  OBVIOUS
<1>. USE DEF TypeOK
<1>z. 0 \in Paced
  BY DEF Paced
<1>1. CASE SenderStep
  <2>1. Pace(lastDuty) \in Paced
    BY PaceIsPaced
  <2>. QED
    BY <1>1, <1>z, <2>1 DEF SenderStep, Wrote, Raised, connVars
<1>2. ASSUME NEW c \in Clients, Accept(c) PROVE TypeOK'
  BY <1>2 DEF Accept
<1>3. ASSUME NEW c \in Clients, ClientGone(c) PROVE TypeOK'
  BY <1>3 DEF ClientGone
<1>4. ASSUME NEW c \in Clients, Eof(c) PROVE TypeOK'
  BY <1>4 DEF Eof, Hangup
<1>5. ASSUME NEW c \in Clients, Recv(c) PROVE TypeOK'
  BY <1>5 DEF Recv
<1>6. ASSUME NEW c \in Clients, Enable(c) PROVE TypeOK'
  BY <1>6 DEF Enable, Enter, connVars
<1>7. ASSUME NEW c \in Clients, Disable(c) PROVE TypeOK'
  <2>1. enabled' = FALSE /\ lastDuty' = 0 /\ UNCHANGED <<connVars, sender>> /\ lock' = c
    BY <1>7 DEF Disable, Enter
  <2>2. pc' = [pc EXCEPT ![c] = "reply"] \/ pc' = [pc EXCEPT ![c] = "except"]
    BY <1>7 DEF Disable, Enter
  <2>3. failed' \in BOOLEAN /\ motor' \in Paced
    BY <1>7, <1>z DEF Disable, Wrote, Raised
  <2>4. pc' \in [Clients -> {"idle", "recv", "lock", "reply", "except", "force_stop"}]
    BY <2>2
  <2>5. lastDuty' \in Int \cup {NaN}
    BY <2>1
  <2>6. enabled' \in BOOLEAN /\ lock' \in Clients \cup {Free}
    BY <2>1
  <2>7. UNCHANGED <<peer, chunk, sender>>
    BY <2>1 DEF connVars
  <2>. QED
    BY <2>3, <2>4, <2>5, <2>6, <2>7
<1>8. ASSUME NEW c \in Clients, Stop(c) PROVE TypeOK'
  BY <1>8 DEF Stop, Enter, connVars
<1>9. ASSUME NEW c \in Clients, Duty(c) PROVE TypeOK'
  <2>1. Value(chunk[c]) \in Int \cup {NaN}
    BY ValueType
  <2>. QED
    BY <1>9, <2>1 DEF Duty, Enter, connVars
<1>10. ASSUME NEW c \in Clients, PingOrOther(c) PROVE TypeOK'
  BY <1>10 DEF PingOrOther, Enter, connVars
<1>11. ASSUME NEW c \in Clients, Reply(c) PROVE TypeOK'
  BY <1>11 DEF Reply, Hangup
<1>12. CASE UNCHANGED vars
  BY <1>12 DEF vars, connVars
<1>. QED
  BY <1>1, <1>2, <1>3, <1>4, <1>5, <1>6, <1>7, <1>8, <1>9, <1>10, <1>11, <1>12 DEF Next, Handle

(* Only the sender moves the motor of an enabled server, and only a failed *)
(* write leaves the motor running when the flag is cleared.                *)
LEMMA RestStep == RestUnlessFailed /\ [Next]_vars => RestUnlessFailed'
<1>. SUFFICES ASSUME RestUnlessFailed, [Next]_vars PROVE RestUnlessFailed'
  OBVIOUS
<1>. USE DEF RestUnlessFailed
<1>1. CASE SenderStep
  BY <1>1 DEF SenderStep, Wrote, Raised
<1>2. ASSUME NEW c \in Clients, Disable(c) PROVE RestUnlessFailed'
  BY <1>2 DEF Disable, Wrote, Raised
<1>3. ASSUME NEW c \in Clients, Enable(c) PROVE RestUnlessFailed'
  BY <1>3 DEF Enable
<1>4. ASSUME NEW c \in Clients,
             \/ Accept(c) \/ ClientGone(c) \/ Eof(c) \/ Recv(c)
             \/ Stop(c) \/ Duty(c) \/ PingOrOther(c) \/ Reply(c)
      PROVE  RestUnlessFailed'
  BY <1>4 DEF Accept, ClientGone, Eof, Recv, Stop, Duty, PingOrOther, Reply
<1>5. CASE UNCHANGED vars
  BY <1>5 DEF vars
<1>. QED
  BY <1>1, <1>2, <1>3, <1>4, <1>5 DEF Next, Handle

-----------------------------------------------------------------------------
(* Every variable keeps its type: the controller never gets a duty between *)
(* rest and the slowest pace, nor one beyond the full duty.                *)
THEOREM TypeCorrect == ASSUME VescAssumption PROVE Spec => []TypeOK
<1>1. Init => TypeOK
  BY InitInvariant
<1>2. TypeOK /\ [Next]_vars => TypeOK'
  BY TypeStep
<1>. QED
  BY <1>1, <1>2, PTL DEF Spec

(* Outside the critical sections a disabled server has put the motor to    *)
(* rest, unless the last serial write failed (vesc/vesc_tcp_server.py:4).  *)
THEOREM DisabledRests == ASSUME VescAssumption PROVE Spec => []DisabledIsAtRest
<1>1. Init => RestUnlessFailed
  BY InitInvariant
<1>2. RestUnlessFailed /\ [Next]_vars => RestUnlessFailed'
  BY RestStep
<1>3. TypeOK /\ RestUnlessFailed => DisabledIsAtRest
  BY DEF RestUnlessFailed, DisabledIsAtRest
<1>. QED
  BY <1>1, <1>2, <1>3, TypeCorrect, PTL DEF Spec

-----------------------------------------------------------------------------
(* The bridge and its server.                                              *)

(* Which connection is the bridge's.                                       *)
Wiring ==
    /\ bridge = "down" => sock = "none" /\ sending = None
    /\ sock = "open" => \/ pend # NoConn /\ pend.live /\ ~link.live
                        \/ pend = NoConn /\ link.live
    /\ sock # "open" => ~link.live /\ ~pend.live
    /\ server = "down" => link = NoConn /\ pend = NoConn /\ duty = 0
    /\ server = "accept" => link = NoConn
    /\ server \in {"top", "print"} => link # NoConn

(* Without a connection there is none at the server either, and nothing    *)
(* has moved the motor since it came up.                                   *)
UnconnectedIdle == (bridge = "up" /\ sock # "open") => link = NoConn /\ pend = NoConn /\ duty = 0

(* The last line with a duty among those on their way carries the last one *)
(* sent; when there is none the server has it.                             *)
IsDuty(lines, i) == i \in DOMAIN lines /\ lines[i].key = "duty"
HasDuty(lines)   == \E i \in Nat : IsDuty(lines, i)
LastDuty(lines, v) ==
    \A i \in Nat : IsDuty(lines, i) /\ (\A j \in Nat : j > i => ~IsDuty(lines, j))
                      => lines[i].val = v

AskedIsLast ==
    (sock = "open" /\ asked # None) =>
        /\ pend # NoConn => HasDuty(pend.lines) /\ LastDuty(pend.lines, asked.val)
        /\ pend = NoConn => /\ LastDuty(link.lines, asked.val)
                            /\ HasDuty(link.lines) \/ duty = asked.val

(* Cells on the wire that follow each other in their line as they do there *)
(* are of one line, and so are those that the rest of the server's line    *)
(* will follow: what its partial writes and the bridge's reads keep.       *)
InOneLine ==
    /\ \A i, j \in DOMAIN wire :
          wire[j].place = wire[i].place + (j - i) => wire[i].line = wire[j].line
    /\ \A i \in DOMAIN wire :
          wire[i].place = printed - (Len(wire) - i) => wire[i].line = Telemetry(duty, current)

LinkInv == LinkTypeOK /\ Wiring /\ UnconnectedIdle /\ AskedIsLast /\ InOneLine

-----------------------------------------------------------------------------
LEMMA ConnFacts ==
  /\ NoConn.live = FALSE /\ NoConn \in Conns
  /\ \A l \in Seq(CmdLines), b \in BOOLEAN :
        /\ Conn(l, b) \in Conns /\ Conn(l, b) # NoConn
        /\ Conn(l, b).lines = l /\ Conn(l, b).live = b
<1>1. ASSUME NEW l, NEW b PROVE Conn(l, b) # NoConn
  <2>1. "lines" \in DOMAIN Conn(l, b) BY DEF Conn
  <2>2. "lines" \notin DOMAIN NoConn BY DEF NoConn
  <2> QED BY <2>1, <2>2
<1>2. \A l \in Seq(CmdLines), b \in BOOLEAN :
        Conn(l, b) \in Conns /\ Conn(l, b).lines = l /\ Conn(l, b).live = b
  BY DEF Conns, Conn
<1>3. NoConn.live = FALSE /\ NoConn \in Conns BY DEF NoConn, Conns
<1> QED BY <1>1, <1>2, <1>3

LEMMA ConnType ==
  ASSUME NEW conn \in Conns, conn # NoConn
  PROVE  conn.lines \in Seq(CmdLines) /\ conn.live \in BOOLEAN /\ conn = Conn(conn.lines, conn.live)
  BY DEF Conns, Conn

LEMMA ClampedDuty ==
  ASSUME LinkAssumption, NEW d \in Duties
  PROVE  Clamp(d) \in Band /\ 0 \in Band
  BY DEF LinkAssumption, Clamp, Band

LEMMA LayoutFacts ==
  ASSUME LinkAssumption
  PROVE  /\ LineLen \in Nat /\ LineLen >= 1 /\ DOMAIN Layout = 1 .. LineLen
         /\ \A i \in 1 .. LineLen : Layout[i] \in Fields /\ Layout[i] \in DOMAIN Rank
         /\ \A f \in Fields : f \in DOMAIN Rank
         /\ \A f \in DOMAIN Rank : Rank[f] \in Int
         /\ \A f, g \in DOMAIN Rank : Rank[f] = Rank[g] => f = g
         /\ \A i, j \in 1 .. LineLen : i < j => Rank[Layout[i]] <= Rank[Layout[j]]
  <1>1. Layout \in Seq(DOMAIN Rank) /\ Layout # <<>> BY DEF LinkAssumption
  <1>2. LineLen \in Nat /\ LineLen >= 1 /\ DOMAIN Layout = 1 .. LineLen
    BY <1>1 DEF LineLen
  <1>3. \A i \in 1 .. LineLen : Layout[i] \in DOMAIN Rank BY <1>1, <1>2
  <1>4. \A f \in DOMAIN Rank : Rank[f] \in Int BY DEF Rank
  <1>5. \A f, g \in DOMAIN Rank : Rank[f] = Rank[g] => f = g BY DEF Rank
  <1>6. \A i, j \in 1 .. LineLen : i < j => Rank[Layout[i]] <= Rank[Layout[j]]
    BY <1>2 DEF LinkAssumption
  <1> QED BY <1>2, <1>3, <1>4, <1>5, <1>6 DEF Fields

LEMMA TelemetryType ==
  ASSUME LinkAssumption
  PROVE  /\ \A line \in TlmLines : line \in [Fields -> Int]
         /\ \A d \in Band, c \in Currents \cup {0} : Telemetry(d, c) \in TlmLines
  <1>1. ASSUME NEW d \in Band, NEW c \in Currents \cup {0}
        PROVE  Telemetry(d, c) \in [Fields -> Int]
    <2>1. d \in Int /\ c \in Int BY DEF LinkAssumption, Band
    <2>2. \A f \in DOMAIN Rank :
            [rpm |-> d, duty |-> d, current |-> c, volt |-> 24, fault |-> 0][f] \in Int
      BY <2>1 DEF Rank
    <2> QED BY <2>2, LayoutFacts DEF Telemetry
  <1> QED BY <1>1 DEF TlmLines

(* Without cells that println has written, nothing on the wire awaits the  *)
(* rest of a line.                                                         *)
LEMMA NothingPrinted ==
  ASSUME LinkTypeOK, InOneLine, wire' \in {wire, <<>>}, printed' = 0, LineLen \in Nat
  PROVE  InOneLine' /\ wire' \in Seq(TlmCells) /\ Len(wire') <= Len(wire)
  <1>1. wire \in Seq(TlmCells) BY DEF LinkTypeOK
  <1>2. CASE wire' = wire
    <2>1. \A i \in DOMAIN wire : wire[i].place \in 1 .. LineLen /\ Len(wire) - i >= 0
      BY <1>1 DEF TlmCells, Cell
    <2> QED BY <1>1, <1>2, <2>1 DEF InOneLine
  <1>3. CASE wire' = <<>> BY <1>1, <1>3 DEF InOneLine
  <1> QED BY <1>2, <1>3

LEMMA InitLink == ASSUME LinkAssumption PROVE LinkInit => LinkInv
  <1> SUFFICES ASSUME LinkInit PROVE LinkInv OBVIOUS
  <1>1. 0 \in Band /\ <<>> \in Seq(TlmCells) /\ Len(<<>>) = 0 /\ 0 \in 0 .. LineLen - 1
    BY LayoutFacts DEF LinkAssumption, Band
  <1>2. stopAsked \in BOOLEAN /\ script \in BOOLEAN /\ shared \in BOOLEAN BY Zenon DEF LinkInit
  <1>3. LinkTypeOK
    BY <1>1, <1>2, ConnFacts DEF LinkInit, LinkTypeOK, LinkAssumption
  <1>4. Wiring /\ UnconnectedIdle /\ AskedIsLast /\ InOneLine
    BY ConnFacts DEF LinkInit, Wiring, UnconnectedIdle, AskedIsLast, InOneLine
  <1> QED BY <1>3, <1>4 DEF LinkInv

-----------------------------------------------------------------------------
LEMMA StartBridgeKeeps == ASSUME LinkAssumption, LinkInv, StartBridge PROVE LinkInv'
  <1>1. Conn(<<>>, TRUE) \in Conns /\ Conn(<<>>, TRUE) # NoConn /\ Conn(<<>>, TRUE).live = TRUE
    <2>1. <<>> \in Seq(CmdLines) /\ TRUE \in BOOLEAN OBVIOUS
    <2> QED BY <2>1, ConnFacts
  <1> USE DEF StartBridge, LinkInv, serverVars
  <1>2. LinkTypeOK' BY <1>1 DEF LinkTypeOK
  <1>3. Wiring' BY <1>1, ConnFacts DEF Wiring
  <1>4. UnconnectedIdle' BY ConnFacts DEF UnconnectedIdle, Wiring
  <1>5. AskedIsLast' /\ InOneLine' BY DEF AskedIsLast, InOneLine
  <1> QED BY <1>2, <1>3, <1>4, <1>5

LEMMA ClosedConn ==
  ASSUME NEW conn \in Conns, conn.live, NEW c \in Closed(conn)
  PROVE  c \in Conns /\ c # NoConn /\ c.live = FALSE
  <1>1. conn # NoConn BY ConnFacts
  <1>2. conn.lines \in Seq(CmdLines) /\ <<>> \in Seq(CmdLines) BY <1>1, ConnType
  <1>3. c = Conn(conn.lines, FALSE) \/ c = Conn(<<>>, FALSE) BY DEF Closed
  <1> QED BY <1>2, <1>3, ConnFacts

LEMMA EndBridgeKeeps == ASSUME LinkAssumption, LinkInv, EndBridge PROVE LinkInv'
  <1> USE DEF EndBridge, LinkInv, serverVars
  <1>1. link \in Conns /\ pend \in Conns BY DEF LinkTypeOK
  <1>2. link' \in Conns /\ pend' \in Conns BY <1>1, ClosedConn
  <1>0. <<>> \in Seq(TlmCells) /\ Len(<<>>) = 0 /\ 0 <= WireLen BY DEF LinkAssumption
  <1>3. LinkTypeOK' BY <1>0, <1>2 DEF LinkTypeOK
  <1>4. ~link'.live /\ ~pend'.live
    <2>1. CASE pend # NoConn /\ pend.live
      BY <1>1, <2>1, ClosedConn DEF Wiring
    <2>2. CASE ~(pend # NoConn /\ pend.live) /\ link.live
      BY <1>1, <2>2, ClosedConn, ConnFacts DEF Wiring
    <2>3. CASE ~(pend # NoConn /\ pend.live) /\ ~link.live
      BY <1>1, <2>3, ConnFacts DEF Wiring
    <2> QED BY <2>1, <2>2, <2>3
  <1>5. (link' = NoConn <=> link = NoConn) /\ (pend' = NoConn <=> pend = NoConn)
    BY <1>1, ClosedConn, ConnFacts
  <1>6. Wiring' BY <1>4, <1>5 DEF Wiring
  <1>7. UnconnectedIdle' /\ AskedIsLast' /\ InOneLine'
    BY DEF UnconnectedIdle, AskedIsLast, InOneLine
  <1> QED BY <1>3, <1>6, <1>7

(* The line is appended to the bridge's connection, or nothing happens.    *)
LEMMA Appended ==
  ASSUME LinkInv, Send
  PROVE  /\ sending \in CmdLines
         /\ link' \in Conns /\ pend' \in Conns /\ Wiring' /\ UnconnectedIdle'
         /\ (link' = NoConn <=> link = NoConn) /\ (pend' = NoConn <=> pend = NoConn)
         /\ sock # "open" => UNCHANGED <<link, pend>>
         /\ sock = "open" /\ pend # NoConn => pend'.lines = Append(pend.lines, sending)
         /\ sock = "open" /\ pend = NoConn => link'.lines = Append(link.lines, sending)
  <1> USE DEF LinkInv, Send, Room, serverVars
  <1>1. link \in Conns /\ pend \in Conns /\ sending \in CmdLines BY DEF LinkTypeOK
  <1>2. CASE sock # "open"
    BY <1>1, <1>2 DEF Wiring, UnconnectedIdle
  <1>3. CASE sock = "open" /\ pend # NoConn
    <2>1. pend.live /\ ~link.live BY <1>3 DEF Wiring
    <2>2. pend' = Conn(Append(pend.lines, sending), TRUE) /\ link' = link
      BY <1>3, <2>1
    <2>3. Append(pend.lines, sending) \in Seq(CmdLines) BY <1>1, <1>3, ConnType
    <2>4. pend' \in Conns BY <2>2, <2>3, ConnFacts
    <2> QED BY <1>1, <1>3, <2>1, <2>2, <2>3, <2>4, ConnFacts DEF Wiring, UnconnectedIdle
  <1>4. CASE sock = "open" /\ pend = NoConn
    <2>1. link.live BY <1>4 DEF Wiring
    <2>2. link' = Conn(Append(link.lines, sending), TRUE) /\ pend' = pend
      BY <1>4, <2>1
    <2>3. Append(link.lines, sending) \in Seq(CmdLines) BY <1>1, <2>1, ConnType, ConnFacts
    <2>4. link' \in Conns BY <2>2, <2>3, ConnFacts
    <2> QED BY <1>1, <1>4, <2>1, <2>2, <2>3, <2>4, ConnFacts DEF Wiring, UnconnectedIdle
  <1> QED BY <1>2, <1>3, <1>4

(* What an appended line does to the last duty.                            *)
LEMMA AppendDuty ==
  ASSUME NEW lines \in Seq(CmdLines), NEW line \in CmdLines, NEW v
  PROVE  /\ line.key = "duty" =>
               HasDuty(Append(lines, line)) /\ (line.val = v => LastDuty(Append(lines, line), v))
         /\ line.key # "duty" =>
               /\ HasDuty(lines) => HasDuty(Append(lines, line))
               /\ LastDuty(lines, v) => LastDuty(Append(lines, line), v)
  <1> DEFINE n == Len(lines)
             new == Append(lines, line)
  <1>1. n \in Nat /\ DOMAIN lines = 1 .. n OBVIOUS
  <1>2. DOMAIN new = 1 .. n + 1 /\ new[n + 1] = line /\ \A i \in 1 .. n : new[i] = lines[i]
    OBVIOUS
  <1> HIDE DEF n, new
  <1>3. \A i \in Nat : IsDuty(new, i) <=> IsDuty(lines, i) \/ (i = n + 1 /\ line.key = "duty")
    BY <1>1, <1>2 DEF IsDuty
  <1>4. \A i \in Nat : IsDuty(lines, i) => i <= n /\ new[i] = lines[i]
    BY <1>1, <1>2 DEF IsDuty
  <1>5. CASE line.key = "duty"
    <2>1. IsDuty(new, n + 1) BY <1>1, <1>3, <1>5
    <2>2. HasDuty(new) BY <2>1, <1>1 DEF HasDuty
    <2>3. ASSUME line.val = v PROVE LastDuty(new, v)
      BY <1>1, <1>2, <1>3, <1>4, <2>1, <2>3 DEF LastDuty
    <2> QED BY <1>5, <2>2, <2>3 DEF new
  <1>6. CASE line.key # "duty"
    <2>1. \A i \in Nat : IsDuty(new, i) <=> IsDuty(lines, i) BY <1>3, <1>6
    <2>2. HasDuty(lines) => HasDuty(new) BY <2>1 DEF HasDuty
    <2>3. LastDuty(lines, v) => LastDuty(new, v) BY <1>4, <2>1 DEF LastDuty
    <2> QED BY <1>6, <2>2, <2>3 DEF new
  <1> QED BY <1>5, <1>6

LEMMA CommandTypes ==
  /\ \A v \in Band : [key |-> "duty", val |-> v] \in CmdLines
  /\ \A c \in Currents : [key |-> "current", val |-> c] \in CmdLines
  /\ [key |-> "stop", val |-> 0] \in CmdLines
  BY DEF CmdLines

LEMMA CommandKeeps ==
  ASSUME LinkAssumption, LinkInv,
         (\E d \in Duties : SetDuty(d)) \/ (\E c \in Currents : SetCurrent(c)) \/ SendStop
  PROVE  LinkInv'
  <1>1. PICK line \in CmdLines : Command(line)
    BY ClampedDuty, CommandTypes DEF SetDuty, SetCurrent, SendStop
  <1> USE <1>1 DEF Command, LinkInv, netVars, serverVars
  <1>2. LinkTypeOK' BY DEF LinkTypeOK
  <1>3. Wiring' /\ UnconnectedIdle' /\ AskedIsLast' /\ InOneLine'
    BY DEF Wiring, UnconnectedIdle, AskedIsLast, InOneLine
  <1> QED BY <1>2, <1>3

LEMMA SendKeeps == ASSUME LinkAssumption, LinkInv, Send PROVE LinkInv'
  <1>1. /\ sending \in CmdLines /\ UNCHANGED <<bridge, sock, shared, tlm, wire, serverVars>>
        /\ sending' = None /\ link \in Conns /\ pend \in Conns
        /\ asked' = IF sock = "open" /\ sending.key = "duty" THEN sending ELSE asked
    BY Appended DEF Send, LinkInv, LinkTypeOK
  <1>2. sending.key = "duty" => sending \in [key : {"duty"}, val : Band]
    BY <1>1 DEF CmdLines
  <1>3. stopAsked' \in BOOLEAN BY Zenon DEF Send
  <1>4. LinkTypeOK'
    BY <1>1, <1>2, <1>3, Appended DEF LinkInv, LinkTypeOK, serverVars
  <1>5. ASSUME sock = "open", pend # NoConn, asked' # None
        PROVE  HasDuty(pend'.lines) /\ LastDuty(pend'.lines, asked'.val)
    <2>1. pend'.lines = Append(pend.lines, sending) /\ pend.lines \in Seq(CmdLines)
      BY <1>1, <1>5, Appended, ConnType
    <2> QED BY <1>1, <1>5, <2>1, AppendDuty DEF LinkInv, AskedIsLast
  <1>6. ASSUME sock = "open", pend = NoConn, asked' # None
        PROVE  /\ LastDuty(link'.lines, asked'.val)
               /\ HasDuty(link'.lines) \/ duty' = asked'.val
    <2>1. link # NoConn BY <1>6, ConnFacts DEF LinkInv, Wiring
    <2>2. link'.lines = Append(link.lines, sending) /\ link.lines \in Seq(CmdLines)
      BY <1>1, <1>6, <2>1, Appended, ConnType
    <2> QED BY <1>1, <1>6, <2>2, AppendDuty DEF LinkInv, AskedIsLast, serverVars
  <1>7. AskedIsLast' BY <1>1, <1>5, <1>6, Appended DEF AskedIsLast
  <1>8. InOneLine' BY <1>1 DEF LinkInv, InOneLine, serverVars
  <1> QED BY <1>4, <1>7, <1>8, Appended DEF LinkInv

-----------------------------------------------------------------------------
(* What sscanf makes of a buffer is the beginning of the line the buffer   *)
(* begins with: its cells in their places are all of that line.            *)
LEMMA ParsedLine ==
  ASSUME LinkAssumption, NEW buf \in Seq(TlmCells), buf # <<>>,
         \A i, j \in DOMAIN buf :
            buf[j].place = buf[i].place + (j - i) => buf[i].line = buf[j].line,
         NEW k \in 0 .. Len(buf), Begun(buf, k), NEW t \in Parse(buf, k)
  PROVE  t \in [Fields -> Int] /\ CutShort(t, buf[1].line)
  <1> DEFINE line == buf[1].line
  <1>1. DOMAIN buf = 1 .. Len(buf) /\ Len(buf) \in Nat /\ Len(buf) >= 1 OBVIOUS
  <1>2. buf[1] \in TlmCells BY <1>1
  <1>3. line \in [Fields -> Int] BY <1>2, TelemetryType DEF TlmCells, Cell
  <1>4. \A i \in 1 .. k : i <= LineLen /\ Layout[i] \in Fields /\ buf[i].val = line[Layout[i]]
    <2> SUFFICES ASSUME NEW i \in 1 .. k
                 PROVE  i <= LineLen /\ Layout[i] \in Fields /\ buf[i].val = line[Layout[i]]
      OBVIOUS
    <2>1. i \in DOMAIN buf /\ 1 \in DOMAIN buf /\ 1 \in 1 .. k BY <1>1
    <2>2. buf[i].place = i /\ buf[1].place = 1 BY <2>1 DEF Begun
    <2>3. buf[i].line = line BY <2>1, <2>2
    <2>4. buf[i] \in TlmCells BY <2>1
    <2>5. i \in 1 .. LineLen /\ buf[i].val = buf[i].line[Layout[i]]
      BY <2>2, <2>4 DEF TlmCells, Cell
    <2> QED BY <2>3, <2>5, LayoutFacts
  <1> HIDE DEF line
  <1> DEFINE whole(f) == \A i \in 1 .. LineLen : Layout[i] = f => i <= k
             last(f)  == CHOOSE i \in 1 .. k : Layout[i] = f
  <1>5. PICK part \in Cut(IF k > 0 THEN buf[k].val ELSE 0) :
          t = [f \in Fields |-> IF whole(f) THEN buf[last(f)].val
                                ELSE IF k > 0 /\ Layout[k] = f THEN part ELSE 0]
    BY Zenon DEF Parse
  <1>6. ASSUME NEW f \in Fields, whole(f) PROVE buf[last(f)].val = line[f]
    <2>1. PICK i \in 1 .. LineLen : Layout[i] = f BY DEF Fields
    <2>2. i \in 1 .. k BY <1>6, <2>1, LayoutFacts
    <2>3. last(f) \in 1 .. k /\ Layout[last(f)] = f BY <2>1, <2>2
    <2> QED BY <1>4, <2>3
  <1> HIDE DEF last
  <1>7. CASE k = 0
    <2>1. \A f \in Fields : ~whole(f)
      <3> SUFFICES ASSUME NEW f \in Fields, whole(f) PROVE FALSE OBVIOUS
      <3>1. PICK i \in 1 .. LineLen : Layout[i] = f BY DEF Fields
      <3> QED BY <1>7, <3>1, LayoutFacts
    <2>2. t = [f \in Fields |-> 0] BY <1>5, <1>7, <2>1
    <2>3. 1 \in 1 .. LineLen /\ Layout[1] \in Fields BY LayoutFacts
    <2>4. \A g \in Fields : Rank[g] < Rank[Layout[1]] => FALSE
      <3> SUFFICES ASSUME NEW g \in Fields, Rank[g] < Rank[Layout[1]] PROVE FALSE OBVIOUS
      <3>1. PICK i \in 1 .. LineLen : Layout[i] = g BY DEF Fields
      <3>2. i = 1 \/ Rank[Layout[1]] <= Rank[Layout[i]] BY <2>3, <3>1, LayoutFacts
      <3> QED BY <2>3, <3>1, <3>2, LayoutFacts
    <2>5. 0 \in Cut(line[Layout[1]]) BY <1>3, <2>3 DEF Cut
    <2> QED BY <2>2, <2>3, <2>4, <2>5 DEF CutShort, line
  <1>8. CASE k > 0
    <2> DEFINE f == Layout[k]
    <2>1. k \in 1 .. k /\ k \in 1 .. LineLen /\ f \in Fields /\ buf[k].val = line[f]
      BY <1>4, <1>8, LayoutFacts
    <2>2. part \in Cut(line[f]) BY <1>5, <1>8, <2>1
    <2>3. line[f] \in Int BY <1>3, <2>1
    <2>4. part \in Int /\ line[f] \in Cut(line[f]) BY <2>2, <2>3 DEF Cut
    <2>5. t[f] \in Cut(line[f]) /\ t[f] \in Int
      <3>1. CASE whole(f) BY <1>5, <1>6, <2>1, <2>3, <2>4, <3>1
      <3>2. CASE ~whole(f) BY <1>5, <1>8, <2>1, <2>2, <2>4, <3>2
      <3> QED BY <3>1, <3>2
    <2>6. ASSUME NEW g \in Fields, Rank[g] < Rank[f] PROVE t[g] = line[g]
      <3>1. \A i \in 1 .. LineLen : Layout[i] = g => i <= k
        BY <2>1, <2>6, LayoutFacts
      <3> QED BY <1>5, <1>6, <3>1
    <2>7. ASSUME NEW g \in Fields, Rank[g] > Rank[f] PROVE t[g] = 0
      <3>1. PICK i \in 1 .. LineLen : Layout[i] = g BY DEF Fields
      <3>2. ~(i <= k) /\ g # f BY <2>1, <2>7, <3>1, LayoutFacts
      <3>3. ~whole(g) BY <3>1, <3>2
      <3> QED BY <1>5, <3>2, <3>3
    <2>8. ASSUME NEW g \in Fields PROVE t[g] \in Int
      <3>1. Rank[g] \in Int /\ Rank[f] \in Int /\ (Rank[g] = Rank[f] => g = f)
        BY <2>1, LayoutFacts
      <3>2. line[g] \in Int BY <1>3
      <3> QED BY <2>5, <2>6, <2>7, <3>1, <3>2
    <2>9. t \in [Fields -> Int]
      <3>1. t = [g \in Fields |-> t[g]] BY <1>5
      <3> QED BY <2>8, <3>1
    <2>10. CutShort(t, line) BY <2>1, <2>5, <2>6, <2>7 DEF CutShort
    <2> QED BY <2>9, <2>10 DEF line
  <1> QED BY <1>7, <1>8

(* What a run of the bridge publishes and leaves on the wire.              *)
LEMMA RunReads ==
  ASSUME LinkAssumption, LinkInv, Run
  PROVE  /\ tlm' \in [Fields -> Int] /\ CutShort(tlm', wire[1].line)
         /\ wire' \in Seq(TlmCells) /\ Len(wire') <= WireLen /\ InOneLine'
  <1> DEFINE n   == IF Len(wire) < BufLen THEN Len(wire) ELSE BufLen
             buf == SubSeq(wire, 1, n)
  <1>1. /\ wire \in Seq(TlmCells) /\ Len(wire) <= WireLen /\ wire # <<>>
        /\ printed \in Int /\ printed' = printed /\ duty' = duty /\ current' = current
    BY LayoutFacts DEF LinkInv, LinkTypeOK, Run, serverVars
  <1>2. BufLen \in Nat /\ BufLen >= 1 /\ WireLen \in Nat BY DEF LinkAssumption
  <1>3. /\ \E k \in 0 .. n : Begun(buf, k) /\ tlm' \in Parse(buf, k)
        /\ wire' = SubSeq(wire, n + 1, Len(wire))
    BY DEF Run
  <1>4. n \in 1 .. Len(wire) BY <1>1, <1>2
  <1> HIDE DEF n
  <1>5. buf \in Seq(TlmCells) /\ Len(buf) = n /\ \A i \in 1 .. n : buf[i] = wire[i]
    BY <1>1, <1>4
  <1> HIDE DEF buf
  <1>6. \A i, j \in DOMAIN buf : buf[j].place = buf[i].place + (j - i) => buf[i].line = buf[j].line
    <2>1. DOMAIN buf = 1 .. n /\ \A i \in 1 .. n : i \in DOMAIN wire BY <1>1, <1>4, <1>5
    <2> QED BY <1>5, <2>1 DEF LinkInv, InOneLine
  <1>7. tlm' \in [Fields -> Int] /\ CutShort(tlm', wire[1].line)
    <2>1. PICK k \in 0 .. n : Begun(buf, k) /\ tlm' \in Parse(buf, k) BY <1>3
    <2>2. buf # <<>> /\ buf[1] = wire[1] /\ k \in 0 .. Len(buf) BY <1>4, <1>5
    <2> QED BY <1>5, <1>6, <2>1, <2>2, ParsedLine
  <1>8. /\ wire' \in Seq(TlmCells) /\ Len(wire') = Len(wire) - n
        /\ \A i \in 1 .. Len(wire) - n : wire'[i] = wire[i + n]
    BY <1>1, <1>3, <1>4
  <1>9. Len(wire') <= WireLen BY <1>1, <1>2, <1>4, <1>8
  <1>10. DOMAIN wire' = 1 .. Len(wire) - n
         /\ \A i \in 1 .. Len(wire) - n : i + n \in DOMAIN wire
    BY <1>1, <1>4, <1>8
  <1>11. ASSUME NEW i \in DOMAIN wire', NEW j \in DOMAIN wire',
                wire'[j].place = wire'[i].place + (j - i)
         PROVE  wire'[i].line = wire'[j].line
    <2>1. wire'[i] = wire[i + n] /\ wire'[j] = wire[j + n]
          /\ i + n \in DOMAIN wire /\ j + n \in DOMAIN wire BY <1>8, <1>10
    <2>2. (j + n) - (i + n) = j - i BY <1>4, <1>10
    <2> QED BY <1>11, <2>1, <2>2 DEF LinkInv, InOneLine
  <1>12. ASSUME NEW i \in DOMAIN wire', wire'[i].place = printed' - (Len(wire') - i)
         PROVE  wire'[i].line = Telemetry(duty', current')
    <2>1. wire'[i] = wire[i + n] /\ i + n \in DOMAIN wire BY <1>8, <1>10
    <2>2. Len(wire') - i = Len(wire) - (i + n) BY <1>1, <1>4, <1>8, <1>10
    <2> QED BY <1>1, <1>12, <2>1, <2>2 DEF LinkInv, InOneLine
  <1>13. InOneLine' BY <1>11, <1>12 DEF InOneLine, Telemetry
  <1> QED BY <1>7, <1>8, <1>9, <1>13

LEMMA RunKeeps == ASSUME LinkAssumption, LinkInv, Run PROVE LinkInv'
  <1>1. LinkTypeOK' BY RunReads DEF LinkInv, Run, LinkTypeOK, serverVars
  <1>2. Wiring' /\ UnconnectedIdle' /\ AskedIsLast'
    BY DEF LinkInv, Run, Wiring, UnconnectedIdle, AskedIsLast, serverVars
  <1> QED BY <1>1, <1>2, RunReads DEF LinkInv

-----------------------------------------------------------------------------
LEMMA ServerEnds == ASSUME LinkAssumption, LinkInv, StartServer \/ EndServer PROVE LinkInv'
  <1> USE DEF LinkInv, bridgeVars, netVars
  <1>1. 0 \in Band /\ 0 \in 0 .. LineLen - 1 /\ WireLen \in Nat
    BY LayoutFacts DEF LinkAssumption, Band
  <1>2. CASE StartServer
    <2>1. LinkTypeOK' BY <1>1, <1>2 DEF StartServer, LinkTypeOK
    <2>2. Wiring' /\ UnconnectedIdle' /\ AskedIsLast'
      BY <1>2, ConnFacts DEF StartServer, Wiring, UnconnectedIdle, AskedIsLast
    <2>3. printed' = 0 BY <1>2 DEF StartServer, LinkTypeOK
    <2>4. InOneLine' BY <1>2, <2>3, LayoutFacts, NothingPrinted DEF StartServer
    <2> QED BY <2>1, <2>2, <2>4
  <1>3. CASE EndServer
    <2>1. sock' \in {"none", "broken"} /\ (sock = "none" => sock' = "none")
      BY <1>3 DEF EndServer, LinkTypeOK
    <2>2. InOneLine' /\ wire' \in Seq(TlmCells) /\ Len(wire') <= Len(wire)
      BY <1>3, LayoutFacts, NothingPrinted DEF EndServer
    <2>3. Len(wire') <= WireLen BY <1>1, <2>2 DEF LinkTypeOK
    <2>4. LinkTypeOK' BY <1>1, <1>3, <2>1, <2>2, <2>3, ConnFacts DEF EndServer, LinkTypeOK
    <2>5. Wiring' BY <1>3, <2>1, ConnFacts DEF EndServer, Wiring
    <2>6. UnconnectedIdle' BY <1>3 DEF EndServer, UnconnectedIdle
    <2>7. AskedIsLast' BY <2>1 DEF AskedIsLast
    <2> QED BY <2>2, <2>4, <2>5, <2>6, <2>7
  <1> QED BY <1>2, <1>3

LEMMA AcceptKeeps == ASSUME LinkAssumption, LinkInv, AcceptLink PROVE LinkInv'
  <1> USE DEF AcceptLink, LinkInv, bridgeVars
  <1>1. LinkTypeOK' BY ConnFacts DEF LinkTypeOK
  <1>2. Wiring' BY ConnFacts DEF Wiring
  <1>3. UnconnectedIdle' BY DEF UnconnectedIdle
  <1>4. AskedIsLast' /\ InOneLine' BY DEF AskedIsLast, InOneLine
  <1> QED BY <1>1, <1>2, <1>3, <1>4

(* What is left of the last duty when the first line is taken.             *)
LEMMA TailDuty ==
  ASSUME NEW lines \in Seq(CmdLines), lines # <<>>, NEW v, LastDuty(lines, v)
  PROVE  /\ LastDuty(Tail(lines), v)
         /\ HasDuty(lines) => \/ HasDuty(Tail(lines))
                              \/ Head(lines).key = "duty" /\ Head(lines).val = v
         /\ ~HasDuty(lines) => Head(lines).key # "duty"
  <1> DEFINE n == Len(lines)
             rest == Tail(lines)
  <1>1. n \in Nat /\ n >= 1 /\ DOMAIN lines = 1 .. n /\ Head(lines) = lines[1] OBVIOUS
  <1>2. DOMAIN rest = 1 .. n - 1 /\ \A i \in 1 .. n - 1 : rest[i] = lines[i + 1] OBVIOUS
  <1> HIDE DEF n, rest
  <1>3. \A i \in Nat \ {0} : IsDuty(rest, i) <=> IsDuty(lines, i + 1)
    BY <1>1, <1>2 DEF IsDuty
  <1>4. \A i \in Nat : IsDuty(rest, i) => i >= 1 /\ rest[i] = lines[i + 1]
    BY <1>1, <1>2 DEF IsDuty
  <1>5. ASSUME NEW i \in Nat, IsDuty(rest, i), \A j \in Nat : j > i => ~IsDuty(rest, j)
        PROVE  rest[i].val = v
    <2>1. i >= 1 /\ i + 1 \in Nat /\ IsDuty(lines, i + 1) /\ rest[i] = lines[i + 1]
      BY <1>3, <1>4, <1>5
    <2>2. ASSUME NEW j \in Nat, j > i + 1 PROVE ~IsDuty(lines, j)
      <3>1. j - 1 \in Nat \ {0} /\ j - 1 > i /\ (j - 1) + 1 = j BY <2>1, <2>2
      <3> QED BY <1>3, <1>5, <3>1
    <2> QED BY <2>1, <2>2 DEF LastDuty
  <1>6. LastDuty(rest, v) BY <1>5 DEF LastDuty
  <1>7. ASSUME HasDuty(lines), ~HasDuty(rest) PROVE lines[1].key = "duty" /\ lines[1].val = v
    <2>1. \A j \in Nat : j > 1 => ~IsDuty(lines, j)
      <3> SUFFICES ASSUME NEW j \in Nat, j > 1 PROVE ~IsDuty(lines, j) OBVIOUS
      <3>1. j - 1 \in Nat \ {0} /\ (j - 1) + 1 = j OBVIOUS
      <3> QED BY <1>3, <1>7, <3>1 DEF HasDuty
    <2>2. IsDuty(lines, 1) BY <1>1, <1>7, <2>1 DEF HasDuty, IsDuty
    <2> QED BY <2>1, <2>2 DEF LastDuty, IsDuty
  <1>8. ASSUME ~HasDuty(lines) PROVE lines[1].key # "duty"
    BY <1>1, <1>8 DEF HasDuty, IsDuty
  <1> QED BY <1>1, <1>6, <1>7, <1>8 DEF rest

LEMMA TopKeeps == ASSUME LinkAssumption, LinkInv, Top PROVE LinkInv'
  <1> USE DEF LinkInv, bridgeVars
  <1>1. link \in Conns /\ link # NoConn /\ sock' = sock /\ asked' = asked /\ pend' = pend
    BY DEF Top, LinkTypeOK, Wiring
  <1>2. link.lines \in Seq(CmdLines) /\ link.live \in BOOLEAN BY <1>1, ConnType
  <1>0. InOneLine'
    BY LayoutFacts, NothingPrinted DEF Top, LinkTypeOK
  <1>3. CASE link.lines = <<>> /\ UNCHANGED <<link, duty, current>>
    <2>1. LinkTypeOK' BY <1>3 DEF Top, LinkTypeOK
    <2>2. Wiring' /\ UnconnectedIdle' /\ AskedIsLast'
      BY <1>3 DEF Top, Wiring, UnconnectedIdle, AskedIsLast
    <2> QED BY <1>0, <2>1, <2>2
  <1>4. CASE link.lines # <<>> /\ Obey(Head(link.lines)) /\ link' = Conn(Tail(link.lines), link.live)
    <2>1. Head(link.lines) \in CmdLines /\ Tail(link.lines) \in Seq(CmdLines)
      BY <1>2, <1>4
    <2>2. /\ link' \in Conns /\ link' # NoConn /\ link'.live = link.live
          /\ link'.lines = Tail(link.lines)
      BY <1>2, <1>4, <2>1, ConnFacts
    <2>3. duty' \in Band /\ current' \in Currents \cup {0}
      BY <1>4, <2>1 DEF Obey, CmdLines, LinkTypeOK
    <2>4. LinkTypeOK' BY <2>2, <2>3 DEF Top, LinkTypeOK
    <2>5. Wiring' BY <2>2 DEF Top, Wiring
    <2>6. UnconnectedIdle' BY <1>1 DEF Top, UnconnectedIdle
    <2>7. ASSUME sock = "open", asked # None, pend = NoConn
          PROVE  /\ LastDuty(link'.lines, asked.val)
                 /\ HasDuty(link'.lines) \/ duty' = asked.val
      <3>1. LastDuty(link.lines, asked.val) /\ (HasDuty(link.lines) \/ duty = asked.val)
        BY <2>7 DEF AskedIsLast
      <3>2. duty' = IF Head(link.lines).key = "duty" THEN Head(link.lines).val ELSE duty
        BY <1>4 DEF Obey
      <3> QED BY <1>2, <1>4, <2>2, <3>1, <3>2, TailDuty
    <2>8. AskedIsLast' BY <1>1, <2>7 DEF AskedIsLast
    <2> QED BY <1>0, <2>4, <2>5, <2>6, <2>8
  <1> QED BY <1>3, <1>4 DEF Top

(* A partial write goes on where the last one stopped.                     *)
LEMMA PrintKeeps == ASSUME LinkAssumption, LinkInv, Println PROVE LinkInv'
  <1> DEFINE line == Telemetry(duty, current)
             L == Len(wire)
  <1>1. /\ wire \in Seq(TlmCells) /\ L \in Nat /\ DOMAIN wire = 1 .. L
        /\ printed \in 0 .. LineLen - 1 /\ LineLen \in Nat /\ LineLen >= 1 /\ WireLen \in Nat
    BY LayoutFacts DEF LinkInv, LinkTypeOK, LinkAssumption
  <1>2. PICK n \in printed + 1 .. LineLen :
          /\ L + (n - printed) <= WireLen
          /\ wire' = wire \o [i \in 1 .. n - printed |-> Cell(printed + i, line)]
          /\ IF n = LineLen THEN printed' = 0 /\ server' = "top"
             ELSE printed' = n /\ UNCHANGED server
    BY DEF Println
  <1> DEFINE m == n - printed
             new == [i \in 1 .. m |-> Cell(printed + i, line)]
  <1>3. m \in Nat /\ m >= 1 /\ \A i \in 1 .. m : printed + i \in 1 .. LineLen BY <1>1, <1>2
  <1>4. line \in TlmLines BY TelemetryType DEF LinkInv, LinkTypeOK
  <1> HIDE DEF line, L
  <1>5. new \in [1 .. m -> TlmCells] BY <1>3, <1>4 DEF TlmCells
  <1>6. new \in Seq(TlmCells) /\ Len(new) = m
    <2>1. \A k \in Nat : \A q \in [1 .. k -> TlmCells] : q \in Seq(TlmCells) /\ Len(q) = k
      BY SeqDef
    <2> QED BY <1>3, <1>5, <2>1
  <1>7. \A i \in 1 .. m : new[i].place = printed + i /\ new[i].line = line
    BY <1>3 DEF Cell
  <1> HIDE DEF m, new
  <1>8. wire' = wire \o new BY <1>2 DEF m, new
  <1>9. /\ wire' \in Seq(TlmCells) /\ Len(wire') = L + m /\ DOMAIN wire' = 1 .. L + m
        /\ \A i \in 1 .. L : wire'[i] = wire[i]
        /\ \A i \in L + 1 .. L + m : wire'[i] = new[i - L]
    <2>1. \A q \in Seq(TlmCells) : \A r \in Seq(TlmCells) :
            /\ q \o r \in Seq(TlmCells) /\ Len(q \o r) = Len(q) + Len(r)
            /\ DOMAIN (q \o r) = 1 .. Len(q) + Len(r)
            /\ \A i \in 1 .. Len(q) : (q \o r)[i] = q[i]
            /\ \A i \in Len(q) + 1 .. Len(q) + Len(r) : (q \o r)[i] = r[i - Len(q)]
      OBVIOUS
    <2>2. wire \in Seq(TlmCells) /\ new \in Seq(TlmCells) /\ Len(wire) = L /\ Len(new) = m
      BY <1>1, <1>6 DEF L
    <2> QED BY <1>8, <2>1, <2>2
  <1>10. L + m <= WireLen /\ n = printed + m BY <1>1, <1>2 DEF m
  <1>11. /\ printed' \in 0 .. LineLen - 1 /\ server' \in {"top", "print"}
         /\ server' # "print" => printed' = 0
         /\ printed' = n \/ printed' = 0
    BY <1>1, <1>2 DEF Println
  <1>12. UNCHANGED <<bridgeVars, link, pend, script, duty, current>> BY DEF Println
  <1>13. LinkTypeOK' BY <1>9, <1>10, <1>11, <1>12 DEF LinkInv, LinkTypeOK, bridgeVars
  <1>14. Wiring' /\ UnconnectedIdle' /\ AskedIsLast'
    BY <1>11, <1>12 DEF LinkInv, Println, Wiring, UnconnectedIdle, AskedIsLast, bridgeVars
  <1>15. \A i \in L + 1 .. L + m : wire'[i].place = printed + (i - L) /\ wire'[i].line = line
    <2> SUFFICES ASSUME NEW i \in L + 1 .. L + m
                 PROVE  wire'[i].place = printed + (i - L) /\ wire'[i].line = line
      OBVIOUS
    <2>1. i - L \in 1 .. m BY <1>1, <1>3
    <2> QED BY <1>7, <1>9, <2>1
  <1>16. \A i \in 1 .. L : wire'[i].place \in Int BY <1>1, <1>9 DEF TlmCells, Cell
  <1>17. /\ \A i, j \in 1 .. L : wire[j].place = wire[i].place + (j - i) => wire[i].line = wire[j].line
         /\ \A i \in 1 .. L : wire[i].place = printed - (L - i) => wire[i].line = line
    BY <1>1 DEF LinkInv, InOneLine, line, L
  <1>18. \A i \in 1 .. L : wire'[i].place = printed - (L - i) => wire'[i].line = line
    BY <1>9, <1>17
  <1>19. ASSUME NEW i \in 1 .. L + m, NEW j \in 1 .. L + m,
                wire'[j].place = wire'[i].place + (j - i)
         PROVE  wire'[i].line = wire'[j].line
    <2>1. CASE i \in 1 .. L /\ j \in 1 .. L
      BY <1>9, <1>17, <1>19, <2>1
    <2>2. CASE i \in 1 .. L /\ j \in L + 1 .. L + m
      <3>1. wire'[i].place = printed - (L - i)
        BY <1>1, <1>3, <1>15, <1>16, <1>19, <2>2
      <3> QED BY <1>15, <1>18, <2>2, <3>1
    <2>3. CASE i \in L + 1 .. L + m /\ j \in 1 .. L
      <3>1. wire'[j].place = printed - (L - j)
        BY <1>1, <1>3, <1>15, <1>16, <1>19, <2>3
      <3> QED BY <1>15, <1>18, <2>3, <3>1
    <2>4. CASE i \in L + 1 .. L + m /\ j \in L + 1 .. L + m
      BY <1>15, <2>4
    <2> QED BY <1>1, <1>3, <2>1, <2>2, <2>3, <2>4
  <1>20. ASSUME NEW i \in 1 .. L + m, wire'[i].place = printed' - (L + m - i)
         PROVE  wire'[i].line = line
    <2>1. CASE i \in L + 1 .. L + m BY <1>15, <2>1
    <2>2. CASE i \in 1 .. L /\ printed' = n
      <3>1. wire'[i].place = printed - (L - i)
        BY <1>1, <1>3, <1>10, <1>20, <2>2
      <3> QED BY <1>18, <2>2, <3>1
    <2>3. CASE i \in 1 .. L /\ printed' = 0
      <3>1. wire'[i].place >= 1 BY <1>1, <1>9, <2>3 DEF TlmCells, Cell
      <3> QED BY <1>1, <1>3, <1>16, <1>20, <2>3, <3>1
    <2> QED BY <1>1, <1>3, <1>11, <2>1, <2>2, <2>3
  <1>21. InOneLine'
    <2>1. Len(wire') = L + m /\ DOMAIN wire' = 1 .. L + m BY <1>9
    <2>2. Telemetry(duty', current') = line BY <1>12 DEF line, Telemetry
    <2>3. ASSUME NEW i \in DOMAIN wire', wire'[i].place = printed' - (Len(wire') - i)
          PROVE  wire'[i].line = Telemetry(duty', current')
      <3>1. i \in 1 .. L + m /\ wire'[i].place = printed' - (L + m - i)
        BY <1>1, <1>3, <1>11, <2>1, <2>3
      <3>2. wire'[i].line = line BY <1>20, <3>1
      <3> QED BY <2>2, <3>2
    <2> QED BY <1>19, <2>1, <2>3 DEF InOneLine, Telemetry
  <1> QED BY <1>13, <1>14, <1>21 DEF LinkInv

(* Printing to a connection that is gone leaves the wire alone.            *)
LEMMA PrintEnds == ASSUME LinkAssumption, LinkInv, PrintAbsorbed \/ PrintFails PROVE LinkInv'
  <1>1. /\ UNCHANGED <<bridgeVars, pend, wire, script, duty, current>> /\ printed' = 0
        /\ \/ link' = link /\ server' = "top"
           \/ link' = NoConn /\ server' = "accept"
        /\ ~link.live /\ link # NoConn
    BY DEF PrintAbsorbed, PrintFails, netVars, LinkInv, Wiring
  <1>2. 0 \in 0 .. LineLen - 1 BY LayoutFacts
  <1> USE DEF LinkInv, bridgeVars
  <1>3. LinkTypeOK' BY <1>1, <1>2, ConnFacts DEF LinkTypeOK
  <1>4. Wiring' /\ UnconnectedIdle' BY <1>1, ConnFacts DEF Wiring, UnconnectedIdle
  <1>5. AskedIsLast' BY <1>1 DEF AskedIsLast, Wiring
  <1>6. InOneLine' BY <1>1, LayoutFacts, NothingPrinted
  <1> QED BY <1>3, <1>4, <1>5, <1>6

-----------------------------------------------------------------------------
LEMMA LinkInvStep == ASSUME LinkAssumption, LinkInv, [LinkNext]_linkVars PROVE LinkInv'
  <1>1. CASE StartBridge BY <1>1, StartBridgeKeeps
  <1>2. CASE CrashBridge \/ SigPipe BY <1>2, EndBridgeKeeps DEF CrashBridge, SigPipe
  <1>3. CASE (\E d \in Duties : SetDuty(d)) \/ (\E c \in Currents : SetCurrent(c)) \/ SendStop
    BY <1>3, CommandKeeps
  <1>4. CASE Send BY <1>4, SendKeeps
  <1>5. CASE Run BY <1>5, RunKeeps
  <1>6. CASE StartServer \/ CrashServer BY <1>6, ServerEnds DEF CrashServer
  <1>7. CASE AcceptLink BY <1>7, AcceptKeeps
  <1>8. CASE TopOfScript BY <1>8, ServerEnds DEF TopOfScript
  <1>9. CASE Top BY <1>9, TopKeeps
  <1>10. CASE Println BY <1>10, PrintKeeps
  <1>11. CASE PrintAbsorbed \/ PrintFails BY <1>11, PrintEnds
  <1>12. CASE UNCHANGED linkVars
    BY <1>12 DEF linkVars, bridgeVars, netVars, serverVars, LinkInv, LinkTypeOK, Wiring,
                 UnconnectedIdle, AskedIsLast, InOneLine
  <1> QED BY <1>1, <1>2, <1>3, <1>4, <1>5, <1>6, <1>7, <1>8, <1>9, <1>10, <1>11, <1>12
          DEF LinkNext, Serve

LEMMA LinkInvIsKept == ASSUME LinkAssumption PROVE LinkSpec => []LinkInv
  <1>1. LinkInit => LinkInv BY InitLink
  <1>2. LinkInv /\ [LinkNext]_linkVars => LinkInv' BY LinkInvStep
  <1> QED BY <1>1, <1>2, PTL DEF LinkSpec

(* Whoever crashes and restarts in whatever order, the server that has     *)
(* read everything runs at the last duty sent, and a bridge without a      *)
(* connection leaves the motor at rest.                                    *)
THEOREM LinkKept == ASSUME LinkAssumption PROVE LinkSpec => []LinkIsKept
  <1>1. LinkInv => LinkIsKept
    <2> SUFFICES ASSUME LinkInv PROVE LinkIsKept OBVIOUS
    <2>1. ASSUME sock = "open", pend = NoConn, link.lines = <<>>, asked # None
          PROVE  duty = asked.val
      <3>1. ~HasDuty(link.lines) BY <2>1 DEF HasDuty, IsDuty
      <3> QED BY <2>1, <3>1 DEF LinkInv, AskedIsLast
    <2>2. UnconnectedRests BY DEF LinkInv, UnconnectedIdle, UnconnectedRests
    <2> QED BY <2>1, <2>2 DEF LinkInv, LinkIsKept, LastDutyWins
  <1> QED BY <1>1, LinkInvIsKept, PTL

(* Whatever the server's partial writes, the bridge's reads and the ends   *)
(* of connections do to the stream, what the bridge publishes is the       *)
(* beginning of one line of the server's, for every layout of the line and *)
(* every size of the buffers.                                              *)
THEOREM OneLineIsPublished == ASSUME LinkAssumption PROVE LinkSpec => OneLinePublished
  <1> DEFINE OneLine == tlm' # tlm /\ tlm' # None => CutShort(tlm', wire[1].line)
  <1>1. ASSUME LinkInv, [LinkNext]_linkVars PROVE [OneLine]_linkVars
    <2>1. CASE Run
      <3>1. CutShort(tlm', wire[1].line) BY <2>1, <1>1, RunReads
      <3> QED BY <3>1
    <2>2. CASE ~Run
      <3>1. tlm' = None \/ tlm' = tlm
        BY <1>1, <2>2 DEF LinkNext, Serve, StartBridge, CrashBridge, SigPipe, EndBridge, SetDuty,
                          SetCurrent, SendStop, Command, Send, StartServer, CrashServer, EndServer,
                          AcceptLink, TopOfScript, Top, Println, PrintAbsorbed, PrintFails,
                          bridgeVars, linkVars
      <3> QED BY <3>1
    <2> QED BY <2>1, <2>2
  <1> QED BY <1>1, LinkInvIsKept, PTL DEF LinkSpec, OneLinePublished
=============================================================================
