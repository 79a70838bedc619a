--------------------------- MODULE HardSafeServer ---------------------------
(***************************************************************************)
(* vesc_tcp_server.py, the "HARD SAFE MODE" server: one thread per TCP     *)
(* client parses commands and, under state_lock, changes the two globals   *)
(* `enabled' and `last_duty'; a sender thread copies them under the same   *)
(* lock and then, outside the lock, commands the motor controller.  The    *)
(* main thread accepts clients until a KeyboardInterrupt, after which the  *)
(* process exits and its daemon threads die wherever they are.             *)
(***************************************************************************)
EXTENDS Integers, Sequences

CONSTANTS
    Clients,    \* connection slots; a slot is reused once its handler returns
    Free,       \* the holder of state_lock when nobody holds it
    MaxDuty,    \* MAX_DUTY, in thousandths
    NaN,        \* what float("nan") returns
    Bad,        \* an argument that float() rejects, or a missing one
    Chunks,     \* what one recv(1024) may return: non-empty runs of lines
    ReplyRoom,  \* replies that fit between sendall and the reading client
    Outcomes    \* what vesc.set_duty may do: "sent", "raised"

Verbs == {"enable", "disable", "stop", "duty", "ping", "other"}
Lines == [verb : Verbs, val : Int \cup {NaN, Bad}]

ASSUME ServerAssumption ==
    /\ Free \notin Clients
    /\ MaxDuty \in Nat \ {0}
    /\ NaN \notin Int /\ Bad \notin Int /\ NaN # Bad
    /\ Chunks \subseteq Seq(Lines) \ {<<>>}
    /\ ReplyRoom \in Nat \ {0}
    /\ Outcomes \subseteq {"sent", "raised"}

VARIABLES
    enabled, lastDuty,  \* the globals of the same names
    lock,               \* the holder of state_lock while it replies
    running,            \* the global `running'
    alive,              \* the process exists
    pc,                 \* where each handler thread is; "idle": no connection
    peer,               \* "up" or "gone": the client end of the connection
    chunk,              \* the data the handler received
    reply,              \* the reply it is about to send
    unread,             \* replies the client has not read yet
    spc, duty,          \* the sender thread and its local `duty'
    motor,              \* the last duty the motor controller was given
    stale               \* history: non-zero sends since `enabled' was cleared

handlerVars == <<pc, peer, chunk, reply, unread>>
senderVars  == <<spc, duty, motor>>
vars == <<enabled, lastDuty, lock, running, alive, handlerVars, senderVars, stale>>

-----------------------------------------------------------------------------
Lesser(a, b)  == IF b < a THEN b ELSE a
Greater(a, b) == IF b > a THEN b ELSE a

(* max(-MAX_DUTY, min(MAX_DUTY, v)): Python's min and max keep their first *)
(* argument when a comparison with NaN is false.                           *)
Clamp(v) == IF v = NaN THEN MaxDuty ELSE Greater(-MaxDuty, Lesser(MaxDuty, v))

(* strip() and split(maxsplit=1): only the first word of the data is the   *)
(* command, and every further line becomes part of its argument.           *)
Verb(ch)     == ch[1].verb
Argument(ch) == IF Len(ch) = 1 THEN ch[1].val ELSE Bad

StopAck == "ACK STOPPED"
Replies == {"none", "ACK ENABLED", "ACK DISABLED", StopAck, "ERR NOT_ENABLED",
            "ERR BAD_VALUE", "ACK DUTY", "PONG", "ERR UNKNOWN_CMD"}

StaleCap == 2   \* the history counter saturates here

Init ==
    /\ enabled = FALSE /\ lastDuty = 0
    /\ lock = Free
    /\ running = TRUE /\ alive = TRUE
    /\ pc = [c \in Clients |-> "idle"]
    /\ peer = [c \in Clients |-> "gone"]
    /\ chunk = [c \in Clients |-> <<>>]
    /\ reply = [c \in Clients |-> "none"]
    /\ unread = [c \in Clients |-> 0]
    /\ spc = "check" /\ duty = 0 /\ motor = 0
    /\ stale = 0

-----------------------------------------------------------------------------
(* Operators named Mutant... are not part of the specification: each is a  *)
(* plausible slip in the definition that follows it, and a run in which it *)
(* replaces that definition must violate a property.                       *)

(* The sender thread: `while running'.                                     *)
SenderCheck ==
    /\ alive /\ spc = "check"
    /\ spc' = IF running THEN "read" ELSE "done"
    /\ UNCHANGED <<enabled, lastDuty, lock, running, alive, handlerVars, duty, motor, stale>>

(* The sender polls the lock and sends its old duty again if it is busy.   *)
MutantSenderRead ==
    /\ alive /\ spc = "read"
    /\ duty' = IF lock # Free THEN duty ELSE IF enabled THEN Clamp(lastDuty) ELSE 0
    /\ spc' = "send"
    /\ UNCHANGED <<enabled, lastDuty, lock, running, alive, handlerVars, motor, stale>>

(* The critical section never blocks, so it is a step.                     *)
SenderRead ==
    /\ alive /\ spc = "read" /\ lock = Free
    /\ duty' = IF enabled THEN Clamp(lastDuty) ELSE 0
    /\ spc' = "send"
    /\ UNCHANGED <<enabled, lastDuty, lock, running, alive, handlerVars, motor, stale>>

SenderSend ==
    /\ alive /\ spc = "send"
    /\ spc' = "check"
    /\ \/ /\ "sent" \in Outcomes
          /\ motor' = duty
          /\ stale' = IF ~enabled /\ duty # 0 THEN Lesser(stale + 1, StaleCap)
                                              ELSE stale
       \/ /\ "raised" \in Outcomes
          /\ UNCHANGED <<motor, stale>>
    /\ UNCHANGED <<enabled, lastDuty, lock, running, alive, handlerVars, duty>>

-----------------------------------------------------------------------------
(* The main thread.                                                        *)
Accept(c) ==
    /\ alive /\ running /\ pc[c] = "idle"
    /\ pc' = [pc EXCEPT ![c] = "hello"]
    /\ peer' = [peer EXCEPT ![c] = "up"]
    /\ UNCHANGED <<enabled, lastDuty, lock, running, alive, chunk, reply, unread,
                   senderVars, stale>>

Interrupt ==
    /\ alive /\ running
    /\ running' = FALSE
    /\ UNCHANGED <<enabled, lastDuty, lock, alive, handlerVars, senderVars, stale>>

Exit ==
    /\ alive /\ ~running
    /\ alive' = FALSE
    /\ UNCHANGED <<enabled, lastDuty, lock, running, handlerVars, senderVars, stale>>

-----------------------------------------------------------------------------
(* The client end, as seen by the handler.                                 *)
ClientRead(c) ==
    /\ peer[c] = "up" /\ unread[c] > 0
    /\ unread' = [unread EXCEPT ![c] = @ - 1]
    /\ UNCHANGED <<enabled, lastDuty, lock, running, alive, pc, peer, chunk, reply,
                   senderVars, stale>>

ClientGone(c) ==
    /\ peer[c] = "up"
    /\ peer' = [peer EXCEPT ![c] = "gone"]
    /\ UNCHANGED <<enabled, lastDuty, lock, running, alive, pc, chunk, reply, unread,
                   senderVars, stale>>

-----------------------------------------------------------------------------
(* handle_client.  Hangup is the `finally': no global is touched.          *)
Hangup(c) ==
    /\ pc' = [pc EXCEPT ![c] = "idle"]
    /\ peer' = [peer EXCEPT ![c] = "gone"]
    /\ chunk' = [chunk EXCEPT ![c] = <<>>]
    /\ reply' = [reply EXCEPT ![c] = "none"]
    /\ unread' = [unread EXCEPT ![c] = 0]

Delivered(c) ==
    /\ unread[c] < ReplyRoom
    /\ unread' = [unread EXCEPT ![c] = @ + 1]
    /\ pc' = [pc EXCEPT ![c] = "recv"]
    /\ chunk' = [chunk EXCEPT ![c] = <<>>]
    /\ reply' = [reply EXCEPT ![c] = "none"]
    /\ UNCHANGED peer

(* sendall to a vanished client raises, or is still absorbed by the kernel. *)
SendAll(c) == Delivered(c) \/ (peer[c] = "gone" /\ Hangup(c))

Hello(c) ==
    /\ alive /\ pc[c] = "hello"
    /\ SendAll(c)
    /\ UNCHANGED <<enabled, lastDuty, lock, running, alive, senderVars, stale>>

Recv(c) ==
    /\ alive /\ pc[c] = "recv"
    /\ \E ch \in Chunks : chunk' = [chunk EXCEPT ![c] = ch]
    /\ pc' = [pc EXCEPT ![c] = "lock"]
    /\ UNCHANGED <<enabled, lastDuty, lock, running, alive, peer, reply, unread,
                   senderVars, stale>>

Eof(c) ==
    /\ alive /\ pc[c] = "recv" /\ peer[c] = "gone"
    /\ Hangup(c)
    /\ UNCHANGED <<enabled, lastDuty, lock, running, alive, senderVars, stale>>

(* The lock is given back before the reply is sent.                        *)
MutantEnter(c, verb, ans) ==
    /\ alive /\ pc[c] = "lock" /\ lock = Free
    /\ Verb(chunk[c]) = verb
    /\ pc' = [pc EXCEPT ![c] = "reply"]
    /\ reply' = [reply EXCEPT ![c] = ans]
    /\ UNCHANGED <<lock, running, alive, peer, chunk, unread, senderVars>>

(* `with state_lock' up to the sendall of the branch taken.                *)
Enter(c, verb, ans) ==
    /\ alive /\ pc[c] = "lock" /\ lock = Free
    /\ Verb(chunk[c]) = verb
    /\ lock' = c
    /\ pc' = [pc EXCEPT ![c] = "reply"]
    /\ reply' = [reply EXCEPT ![c] = ans]
    /\ UNCHANGED <<running, alive, peer, chunk, unread, senderVars>>

Enable(c) ==
    /\ Enter(c, "enable", "ACK ENABLED")
    /\ enabled' = TRUE /\ stale' = 0
    /\ UNCHANGED lastDuty

(* The flag is cleared and the duty is left for the next enable.           *)
MutantCleared ==
    /\ enabled' = FALSE
    /\ UNCHANGED <<lastDuty, stale>>

Cleared ==
    /\ enabled' = FALSE /\ lastDuty' = 0
    /\ UNCHANGED stale

Disable(c) == Enter(c, "disable", "ACK DISABLED") /\ Cleared

Stop(c) == Enter(c, "stop", StopAck) /\ Cleared

DutyRefused(c) ==
    /\ ~enabled
    /\ Enter(c, "duty", "ERR NOT_ENABLED")
    /\ UNCHANGED <<enabled, lastDuty, stale>>

DutyUnparsed(c) ==
    /\ enabled /\ Argument(chunk[c]) = Bad
    /\ Enter(c, "duty", "ERR BAD_VALUE")
    /\ UNCHANGED <<enabled, lastDuty, stale>>

DutySet(c) ==
    /\ enabled /\ Argument(chunk[c]) # Bad
    /\ Enter(c, "duty", "ACK DUTY")
    /\ lastDuty' = Clamp(Argument(chunk[c]))
    /\ UNCHANGED <<enabled, stale>>

Ping(c)  == Enter(c, "ping", "PONG") /\ UNCHANGED <<enabled, lastDuty, stale>>
Other(c) == Enter(c, "other", "ERR UNKNOWN_CMD") /\ UNCHANGED <<enabled, lastDuty, stale>>

(* An explicit release that an exception in sendall skips.                 *)
MutantReply(c) ==
    /\ alive /\ pc[c] = "reply"
    /\ SendAll(c)
    /\ lock' = IF pc'[c] = "idle" THEN lock ELSE Free
    /\ UNCHANGED <<enabled, lastDuty, running, alive, senderVars, stale>>

(* The sendall under the lock and the end of the `with' block.             *)
Reply(c) ==
    /\ alive /\ pc[c] = "reply"
    /\ SendAll(c)
    /\ lock' = Free
    /\ UNCHANGED <<enabled, lastDuty, running, alive, senderVars, stale>>

Handle(c) ==
    \/ Enable(c) \/ Disable(c) \/ Stop(c)
    \/ DutyRefused(c) \/ DutyUnparsed(c) \/ DutySet(c)
    \/ Ping(c) \/ Other(c)

Sender == SenderCheck \/ SenderRead \/ SenderSend
Client(c) == ClientRead(c) \/ ClientGone(c)
Handler(c) == Hello(c) \/ Recv(c) \/ Eof(c) \/ Handle(c) \/ Reply(c)

Next ==
    \/ Sender \/ Interrupt \/ Exit
    \/ \E c \in Clients : Accept(c) \/ Client(c) \/ Handler(c)

Spec == Init /\ [][Next]_vars

(* The lock gives no turn to a waiter but the sender keeps coming back for *)
(* it, hence strong fairness; clients read what they are sent, as the      *)
(* receive thread of motor_client_stage9.py does; the serial port does not *)
(* fail for ever.  Nothing obliges a client to send or to leave, or the    *)
(* operator to interrupt.                                                  *)
Fairness ==
    /\ WF_vars(SenderCheck) /\ SF_vars(SenderRead)
    /\ WF_vars(SenderSend) /\ SF_vars(SenderSend /\ motor' = duty) /\ WF_vars(Exit)
    /\ \A c \in Clients : /\ WF_vars(Hello(c)) /\ WF_vars(Eof(c)) /\ WF_vars(Handle(c))
                          /\ WF_vars(Reply(c)) /\ WF_vars(ClientRead(c))

FairSpec == Spec /\ Fairness

-----------------------------------------------------------------------------
Band == -MaxDuty .. MaxDuty

TypeOK ==
    /\ enabled \in BOOLEAN /\ running \in BOOLEAN /\ alive \in BOOLEAN
    /\ lastDuty \in Band /\ duty \in Band /\ motor \in Band
    /\ lock \in Clients \cup {Free}
    /\ pc \in [Clients -> {"idle", "hello", "recv", "lock", "reply"}]
    /\ peer \in [Clients -> {"up", "gone"}]
    /\ chunk \in [Clients -> Chunks \cup {<<>>}]
    /\ reply \in [Clients -> Replies]
    /\ unread \in [Clients -> 0 .. ReplyRoom]
    /\ spc \in {"check", "read", "send", "done"}
    /\ stale \in 0 .. StaleCap

(* Rule 1 of the server's header, "enabled flag REQUIRED to move": after   *)
(* the flag is cleared at most the one duty the sender had already copied  *)
(* out of the critical section reaches the motor, and no duty beyond the   *)
(* clamp ever does.                                                        *)
AtMostOneStaleSend == TypeOK /\ (~enabled => stale <= 1)

(* A reply describes the state it is sent in: no other client can enable,  *)
(* disable or move between a handler's change and its acknowledgement.     *)
AckMatchesState ==
    \A c \in Clients : pc[c] = "reply" =>
        /\ reply[c] = "ACK ENABLED" => enabled
        /\ reply[c] \in {StopAck, "ACK DISABLED"} => ~enabled /\ lastDuty = 0
        /\ reply[c] = "ERR NOT_ENABLED" => ~enabled
        /\ reply[c] = "ACK DUTY" => enabled /\ lastDuty = Clamp(Argument(chunk[c]))

(* Enabling never resumes motion: a duty set before a stop, whoever sent   *)
(* either, is not what the next enable starts from.                        *)
EnableStartsAtRest == [][~enabled /\ enabled' => lastDuty' = 0]_vars

(* Once the flag is cleared the motor is at rest sooner or later, unless a *)
(* client enables it again or the operator ends the server.                *)
DisabledComesToRest == ~enabled ~> (motor = 0 \/ enabled \/ ~running)
=============================================================================
