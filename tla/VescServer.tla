----------------------------- MODULE VescServer -----------------------------
(***************************************************************************)
(* vesc/vesc_tcp_server.py, the server for motors that need a minimum duty *)
(* to spin.  Unlike HardSafeServer the sender talks to the controller      *)
(* while it holds the lock, a disable does so too, and the stop command    *)
(* calls force_stop, which takes the (non-reentrant) lock its caller holds.*)
(***************************************************************************)
EXTENDS Integers, Sequences

CONSTANTS
    Clients,           \* connection slots
    Free,              \* the holder of the lock when nobody holds it
    MinDuty, TopDuty,  \* MIN_DUTY and full duty, in hundredths
    NaN, Bad,          \* float("nan"); an argument that float() rejects
    Chunks,            \* what one recv(1024) may return: runs of lines
    Outcomes           \* what a serial write may do: "sent", "raised"

Verbs == {"enable", "disable", "stop", "duty", "ping", "other"}
Lines == [verb : Verbs, val : Int \cup {NaN, Bad}]

VescAssumption ==
    /\ Free \notin Clients
    /\ MinDuty \in Nat \ {0} /\ TopDuty \in Nat /\ MinDuty <= TopDuty
    /\ NaN \notin Int /\ Bad \notin Int /\ NaN # Bad
    /\ Chunks \subseteq Seq(Lines) \ {<<>>}
    /\ Outcomes \subseteq {"sent", "raised"}

VARIABLES
    enabled, lastDuty,  \* the globals of the same names
    lock,               \* the holder of `lock' across a reply or a stop
    pc, peer, chunk,    \* handler, client end and received data
    sender,             \* "up", or "dead" of an uncaught exception
    motor,              \* the last duty written to the controller
    failed              \* history: the last serial write raised

connVars == <<peer, chunk>>
vars == <<enabled, lastDuty, lock, pc, connVars, sender, motor, failed>>

Value(ch) == IF Len(ch) = 1 /\ ch[1].val # Bad THEN ch[1].val ELSE 0

(* Operators named Mutant... are no part of the specification: each is a   *)
(* plausible slip in the definition after it, for the mutated runs.        *)

(* max(MIN_DUTY, min(abs(v), 1.0)) with the sign of v; NaN compares false. *)
Pace(v) ==
    IF v = NaN THEN MinDuty
    ELSE LET a == IF v < 0 THEN -v ELSE v
             m == IF a < MinDuty THEN MinDuty ELSE IF a > TopDuty THEN TopDuty ELSE a
         IN  IF v < 0 THEN -m ELSE m

Init ==
    /\ enabled = FALSE /\ lastDuty = 0
    /\ lock = Free
    /\ pc = [c \in Clients |-> "idle"]
    /\ peer = [c \in Clients |-> "gone"]
    /\ chunk = [c \in Clients |-> <<>>]
    /\ sender = "up" /\ motor = 0 /\ failed = FALSE

(* vesc.set_duty_cycle(d), with what the caller does when it is sent and   *)
(* when it raises.                                                         *)
Wrote(d) ==
    /\ "sent" \in Outcomes
    /\ motor' = d /\ failed' = FALSE

Raised ==
    /\ "raised" \in Outcomes
    /\ failed' = TRUE /\ UNCHANGED motor

-----------------------------------------------------------------------------
(* One turn of duty_sender: nothing catches what the write raises.         *)
SenderStep ==
    /\ sender = "up" /\ lock = Free
    /\ \/ Wrote(IF enabled THEN Pace(lastDuty) ELSE 0) /\ UNCHANGED sender
       \/ Raised /\ sender' = "dead"
    /\ UNCHANGED <<enabled, lastDuty, lock, pc, connVars>>

-----------------------------------------------------------------------------
(* The greeting is part of it: should it raise, the thread is gone again.  *)
Accept(c) ==
    /\ pc[c] = "idle"
    /\ pc' = [pc EXCEPT ![c] = "recv"]
    /\ peer' = [peer EXCEPT ![c] = "up"]
    /\ UNCHANGED <<enabled, lastDuty, lock, chunk, sender, motor, failed>>

ClientGone(c) ==
    /\ peer[c] = "up"
    /\ peer' = [peer EXCEPT ![c] = "gone"]
    /\ UNCHANGED <<enabled, lastDuty, lock, pc, chunk, sender, motor, failed>>

Hangup(c) ==
    /\ pc' = [pc EXCEPT ![c] = "idle"]
    /\ peer' = [peer EXCEPT ![c] = "gone"]
    /\ chunk' = [chunk EXCEPT ![c] = <<>>]

Eof(c) ==
    /\ pc[c] = "recv" /\ peer[c] = "gone"
    /\ Hangup(c)
    /\ UNCHANGED <<enabled, lastDuty, lock, sender, motor, failed>>

Recv(c) ==
    /\ pc[c] = "recv"
    /\ \E ch \in Chunks : chunk' = [chunk EXCEPT ![c] = ch]
    /\ pc' = [pc EXCEPT ![c] = "lock"]
    /\ UNCHANGED <<enabled, lastDuty, lock, peer, sender, motor, failed>>

(* `with lock' up to the call that ends the branch taken, at `next'.       *)
Enter(c, verb, next) ==
    /\ pc[c] = "lock" /\ lock = Free
    /\ chunk[c][1].verb = verb
    /\ lock' = c
    /\ pc' = [pc EXCEPT ![c] = next]
    /\ UNCHANGED <<connVars, sender>>

Enable(c) ==
    /\ Enter(c, "enable", "reply")
    /\ enabled' = TRUE
    /\ UNCHANGED <<lastDuty, motor, failed>>

(* The write of the zero duty is left to the sender.                       *)
MutantDisable(c) ==
    /\ enabled' = FALSE /\ lastDuty' = 0
    /\ Enter(c, "disable", "reply")
    /\ UNCHANGED <<motor, failed>>

Disable(c) ==
    /\ enabled' = FALSE /\ lastDuty' = 0
    /\ \/ Enter(c, "disable", "reply") /\ Wrote(0)
       \/ Enter(c, "disable", "except") /\ Raised

(* force_stop waits for the lock of its own thread: lines 50-52 and the    *)
(* acknowledgement are never reached, so no action leaves "force_stop".    *)
Stop(c) ==
    /\ Enter(c, "stop", "force_stop")
    /\ UNCHANGED <<enabled, lastDuty, motor, failed>>

Duty(c) ==
    /\ Enter(c, "duty", "reply")
    /\ lastDuty' = IF enabled THEN Value(chunk[c]) ELSE lastDuty
    /\ UNCHANGED <<enabled, motor, failed>>

PingOrOther(c) ==
    /\ \E v \in {"ping", "other"} : Enter(c, v, "reply")
    /\ UNCHANGED <<enabled, lastDuty, motor, failed>>

(* The end of the `with' block after the sendall, or after an exception.   *)
Reply(c) ==
    /\ pc[c] \in {"reply", "except"}
    /\ \/ /\ pc[c] = "reply"
          /\ pc' = [pc EXCEPT ![c] = "recv"]
          /\ chunk' = [chunk EXCEPT ![c] = <<>>]
          /\ UNCHANGED peer
       \/ (pc[c] = "except" \/ peer[c] = "gone") /\ Hangup(c)
    /\ lock' = Free
    /\ UNCHANGED <<enabled, lastDuty, sender, motor, failed>>

Handle(c) == Enable(c) \/ Disable(c) \/ Stop(c) \/ Duty(c) \/ PingOrOther(c)

Next ==
    \/ SenderStep
    \/ \E c \in Clients : Accept(c) \/ ClientGone(c) \/ Eof(c) \/ Recv(c) \/ Handle(c) \/ Reply(c)

Spec == Init /\ [][Next]_vars

(* Every thread that can go on does; clients owe nothing.                  *)
FairSpec ==
    /\ Spec
    /\ SF_vars(SenderStep)
    /\ \A c \in Clients : WF_vars(Eof(c)) /\ SF_vars(Handle(c)) /\ WF_vars(Reply(c))

-----------------------------------------------------------------------------
Paced == {0} \cup MinDuty .. TopDuty \cup -TopDuty .. -MinDuty

TypeOK ==
    /\ enabled \in BOOLEAN /\ failed \in BOOLEAN
    /\ lastDuty \in Int \cup {NaN} /\ motor \in Paced
    /\ lock \in Clients \cup {Free}
    /\ pc \in [Clients -> {"idle", "recv", "lock", "reply", "except", "force_stop"}]
    /\ peer \in [Clients -> {"up", "gone"}]
    /\ chunk \in [Clients -> Chunks \cup {<<>>}]
    /\ sender \in {"up", "dead"}

(* "Enable/disable/stop safety": outside the critical sections a disabled  *)
(* server has put the motor to rest, unless the last serial write was      *)
(* lost, also when an earlier one has killed the sender; and it is never   *)
(* given a duty at which it would not spin.                                *)
DisabledIsAtRest == TypeOK /\ (lock = Free /\ ~enabled /\ ~failed => motor = 0)

-----------------------------------------------------------------------------
(* "Enable/disable/stop safety" (vesc/vesc_tcp_server.py:4) and "Emergency *)
(* stop" (:45): a stop command that is being carried out rests the motor.  *)
StopRests == \A c \in Clients : pc[c] = "force_stop" ~> motor = 0
=============================================================================
