-------------------------- MODULE ConnectionProofs --------------------------
(***************************************************************************)
(* The safety properties of HardSafeServer, for any number of clients, any *)
(* received data, any duty limit and any driver outcome.  None of them is  *)
(* inductive: what carries them is that a cleared flag leaves no duty      *)
(* behind, that the sender holds at most one copied duty, and that a       *)
(* handler is between its change and its reply exactly while it holds the  *)
(* lock.                                                                   *)
(***************************************************************************)
EXTENDS HardSafeServer, SocketTask, TLAPS

RestWhenDisabled == ~enabled => lastDuty = 0

Pending == IF spc = "send" /\ duty # 0 THEN 1 ELSE 0

StaleAccount ==
    /\ enabled => stale = 0
    /\ ~enabled => stale + Pending <= 1

LockIsReplying == \A c \in Clients : pc[c] = "reply" <=> lock = c

IInv == TypeOK /\ RestWhenDisabled /\ StaleAccount /\ LockIsReplying /\ AckMatchesState

-----------------------------------------------------------------------------
(* The clamp lands in the band for every float, not-a-number included.     *)
LEMMA ClampInBand == ASSUME NEW v \in Int \cup {NaN} PROVE Clamp(v) \in Band
  BY ServerAssumption DEF ServerAssumption, Clamp, Greater, Lesser, Band

(* Zero is left alone by the clamp: a cleared duty is sent as zero.        *)
LEMMA ClampZero == Clamp(0) = 0 /\ 0 \in Band
  BY ServerAssumption DEF ServerAssumption, Clamp, Greater, Lesser, Band

(* What a duty line carries once float() accepts it.                       *)
LEMMA ArgumentType ==
    ASSUME NEW ch \in Chunks \cup {<<>>}, Argument(ch) # Bad
    PROVE  Argument(ch) \in Int \cup {NaN}
<1>1. Len(ch) = 1
  BY DEF Argument
<1>2. ch \in Chunks => ch \in Seq(Lines)
  BY ServerAssumption DEF ServerAssumption
<1>3. ch # <<>>
  BY <1>1
<1>4. ch[1] \in Lines
  BY <1>1, <1>2, <1>3
<1>. QED
  BY <1>1, <1>4 DEF Argument, Lines

(* What the invariance proof needs of the constants.                       *)
LEMMA ConstantFacts ==
    Free \notin Clients /\ MaxDuty \in Nat \ {0} /\ ReplyRoom \in Nat \ {0}
  BY ServerAssumption DEF ServerAssumption

LEMMA InitInvariant == Init => IInv
<1>. SUFFICES ASSUME Init PROVE IInv
  OBVIOUS
<1>. USE ConstantFacts DEF Init
<1>0. enabled \in BOOLEAN /\ running \in BOOLEAN /\ alive \in BOOLEAN
  OBVIOUS
<1>1. /\ lastDuty \in Band /\ duty \in Band /\ motor \in Band
      /\ lock \in Clients \cup {Free} /\ spc \in {"check", "read", "send", "done"}
      /\ stale \in 0 .. StaleCap
  BY DEF Band, StaleCap
<1>2. /\ pc \in [Clients -> {"idle", "hello", "recv", "lock", "reply"}]
      /\ peer \in [Clients -> {"up", "gone"}]
      /\ chunk \in [Clients -> Chunks \cup {<<>>}]
      /\ reply \in [Clients -> Replies]
      /\ unread \in [Clients -> 0 .. ReplyRoom]
  BY DEF Replies
<1>3. TypeOK
  BY <1>0, <1>1, <1>2 DEF TypeOK
<1>4. RestWhenDisabled /\ StaleAccount /\ LockIsReplying /\ AckMatchesState
  BY DEF RestWhenDisabled, StaleAccount, Pending, LockIsReplying, AckMatchesState
<1>. QED
  BY <1>3, <1>4 DEF IInv

(* A send and a hang-up keep the connection variables in their ranges, and *)
(* leave the handler at its next recv or without a connection.             *)
LEMMA SendAllType ==
    ASSUME TypeOK, NEW c \in Clients, SendAll(c) \/ Hangup(c)
    PROVE  /\ pc' \in [Clients -> {"idle", "hello", "recv", "lock", "reply"}]
           /\ peer' \in [Clients -> {"up", "gone"}]
           /\ chunk' \in [Clients -> Chunks \cup {<<>>}]
           /\ reply' \in [Clients -> Replies]
           /\ unread' \in [Clients -> 0 .. ReplyRoom]
           /\ pc'[c] # "reply"
           /\ \A d \in Clients \ {c} :
                 pc'[d] = pc[d] /\ reply'[d] = reply[d] /\ chunk'[d] = chunk[d]
<1>1. CASE Delivered(c)
  <2>1. unread' \in [Clients -> 0 .. ReplyRoom]
    BY <1>1, ConstantFacts DEF Delivered, TypeOK
  <2>. QED
    BY <1>1, <2>1 DEF Delivered, TypeOK, Replies
<1>2. CASE Hangup(c)
  <2>1. unread' \in [Clients -> 0 .. ReplyRoom]
    BY <1>2, ConstantFacts DEF Hangup, TypeOK
  <2>. QED
    BY <1>2, <2>1 DEF Hangup, TypeOK, Replies
<1>. QED
  BY <1>1, <1>2 DEF SendAll

LEMMA StepInvariant == IInv /\ [Next]_vars => IInv'
<1>. SUFFICES ASSUME IInv, [Next]_vars PROVE IInv'
  OBVIOUS
<1>. USE ConstantFacts DEF IInv
<1>1. CASE SenderRead
  <2>. USE <1>1 DEF SenderRead
  <2>1. Clamp(lastDuty) \in Band /\ (lastDuty = 0 => Clamp(lastDuty) = 0)
    <3>1. lastDuty \in Int \cup {NaN}
      BY DEF TypeOK, Band
    <3>2. Clamp(lastDuty) \in Band
      BY <3>1, ClampInBand, Zenon
    <3>. QED
      BY <3>2, ClampZero, Zenon
  <2>2. TypeOK'
    BY <2>1 DEF TypeOK, Band, handlerVars
  <2>3. StaleAccount'
    BY <2>1 DEF StaleAccount, Pending, TypeOK
  <2>4. (RestWhenDisabled /\ LockIsReplying /\ AckMatchesState)'
    BY DEF RestWhenDisabled, LockIsReplying, AckMatchesState, handlerVars
  <2>. QED
    BY <2>2, <2>3, <2>4
<1>2. CASE SenderSend
  <2>. USE <1>2 DEF SenderSend
  <2>1. TypeOK'
    BY DEF TypeOK, Band, handlerVars, Lesser, StaleCap
  <2>2. StaleAccount'
    BY DEF StaleAccount, Pending, TypeOK, Lesser, StaleCap
  <2>3. (RestWhenDisabled /\ LockIsReplying /\ AckMatchesState)'
    BY DEF RestWhenDisabled, LockIsReplying, AckMatchesState, handlerVars
  <2>. QED
    BY <2>1, <2>2, <2>3
<1>3. CASE SenderCheck \/ Interrupt \/ Exit
  <2>1. /\ UNCHANGED <<enabled, lastDuty, lock, pc, peer, chunk, reply, unread>>
        /\ UNCHANGED <<duty, motor, stale>>
        /\ UNCHANGED spc \/ (spc = "check" /\ spc' \in {"read", "done"})
        /\ running' \in BOOLEAN /\ alive' \in BOOLEAN
    BY <1>3 DEF SenderCheck, Interrupt, Exit, handlerVars, senderVars, TypeOK
  <2>2. TypeOK'
    BY <2>1 DEF TypeOK
  <2>3. StaleAccount'
    BY <2>1 DEF StaleAccount, Pending, TypeOK
  <2>4. (RestWhenDisabled /\ LockIsReplying /\ AckMatchesState)'
    BY <2>1 DEF RestWhenDisabled, LockIsReplying, AckMatchesState
  <2>. QED
    BY <2>2, <2>3, <2>4
<1>4. ASSUME NEW c \in Clients,
             Accept(c) \/ Client(c) \/ Recv(c) \/ Eof(c) \/ Hello(c)
      PROVE  IInv'
  <2>1. UNCHANGED <<enabled, lastDuty, lock, running, alive, spc, duty, motor, stale>>
    BY <1>4 DEF Accept, Client, ClientRead, ClientGone, Recv, Eof, Hello, senderVars
  <2>2. /\ pc' \in [Clients -> {"idle", "hello", "recv", "lock", "reply"}]
        /\ peer' \in [Clients -> {"up", "gone"}]
        /\ chunk' \in [Clients -> Chunks \cup {<<>>}]
        /\ reply' \in [Clients -> Replies]
        /\ unread' \in [Clients -> 0 .. ReplyRoom]
        /\ pc[c] = "reply" => UNCHANGED <<pc, reply, chunk>>
        /\ pc[c] # "reply" => pc'[c] # "reply"
        /\ \A d \in Clients \ {c} :
              pc'[d] = pc[d] /\ reply'[d] = reply[d] /\ chunk'[d] = chunk[d]
    <3>1. CASE Eof(c) \/ Hello(c)
      BY <3>1, SendAllType DEF Eof, Hello
    <3>2. CASE Accept(c)
      BY <3>2 DEF Accept, TypeOK
    <3>3. CASE Recv(c)
      BY <3>3 DEF Recv, TypeOK
    <3>4. CASE Client(c)
      <4>1. unread' \in [Clients -> 0 .. ReplyRoom]
        <5>0. unread \in [Clients -> 0 .. ReplyRoom] /\ ReplyRoom \in Nat
          BY DEF TypeOK
        <5>1. CASE ClientRead(c)
          <6>1. unread[c] - 1 \in 0 .. ReplyRoom /\ unread' = [unread EXCEPT ![c] = unread[c] - 1]
            BY <5>0, <5>1 DEF ClientRead
          <6>. QED
            BY <5>0, <6>1
        <5>2. CASE ClientGone(c)
          BY <5>0, <5>2 DEF ClientGone
        <5>. QED
          BY <3>4, <5>1, <5>2 DEF Client
      <4>. QED
        BY <3>4, <4>1 DEF Client, ClientRead, ClientGone, TypeOK
    <3>. QED
      BY <1>4, <3>1, <3>2, <3>3, <3>4
  <2>3. TypeOK'
    BY <2>1, <2>2 DEF TypeOK
  <2>4. (RestWhenDisabled /\ StaleAccount)'
    BY <2>1 DEF RestWhenDisabled, StaleAccount, Pending
  <2>5. LockIsReplying'
    BY <2>1, <2>2 DEF LockIsReplying
  <2>6. AckMatchesState'
    BY <2>1, <2>2 DEF AckMatchesState
  <2>. QED
    BY <2>3, <2>4, <2>5, <2>6
<1>5. ASSUME NEW c \in Clients, Handle(c)
      PROVE  IInv'
  <2>. DEFINE Entered(ans) ==
         /\ pc[c] = "lock" /\ lock = Free /\ lock' = c
         /\ pc' = [pc EXCEPT ![c] = "reply"]
         /\ reply' = [reply EXCEPT ![c] = ans]
         /\ UNCHANGED <<running, alive, peer, chunk, unread, spc, duty, motor>>
  <2>1. \A verb, ans : Enter(c, verb, ans) => Entered(ans)
    BY DEF Enter, senderVars
  <2>2. \A ans \in Replies : Entered(ans) =>
          /\ lock' \in Clients \cup {Free}
          /\ pc' \in [Clients -> {"idle", "hello", "recv", "lock", "reply"}]
          /\ reply' \in [Clients -> Replies]
          /\ LockIsReplying'
    BY DEF LockIsReplying, TypeOK
  <2>3. \A ans \in Replies : Entered(ans) =>
          \A d \in Clients : pc'[d] = "reply" => d = c /\ reply'[d] = ans /\ chunk'[d] = chunk[c]
    BY DEF LockIsReplying, TypeOK
  <2>. HIDE DEF Entered
  <2>4. CASE Enable(c)
    <3>1. Entered("ACK ENABLED") /\ "ACK ENABLED" \in Replies
      BY <2>1, <2>4 DEF Enable, Replies
    <3>a. enabled' \in BOOLEAN /\ stale' = 0 /\ UNCHANGED lastDuty
      BY <2>4, Zenon DEF Enable
    <3>b. stale' \in 0 .. StaleCap
      BY <3>a DEF StaleCap
    <3>2. TypeOK'
      BY <3>a, <3>b, <3>1, <2>2 DEF TypeOK, Entered
    <3>3. (RestWhenDisabled /\ StaleAccount)'
      BY <2>4 DEF Enable, RestWhenDisabled, StaleAccount
    <3>4. AckMatchesState'
      BY <3>1, <2>3, <2>4 DEF Enable, AckMatchesState, StopAck
    <3>. QED
      BY <3>1, <3>2, <3>3, <3>4, <2>2
  <2>d. stale + Pending <= 1
    BY DEF TypeOK, StaleAccount, Pending
  <2>5. CASE Disable(c) \/ Stop(c)
    <3>1. PICK ans \in {"ACK DISABLED", StopAck} : Entered(ans) /\ Cleared
      BY <2>1, <2>5 DEF Disable, Stop
    <3>2. ans \in Replies
      BY DEF Replies, StopAck
    <3>a. enabled' \in BOOLEAN /\ ~enabled'
      BY <3>1 DEF Cleared
    <3>b. lastDuty' = 0 /\ UNCHANGED <<stale, spc, duty>>
      BY <3>1, Zenon DEF Cleared, Entered
    <3>c. lastDuty' \in Band
      BY <3>b, ClampZero
    <3>3. TypeOK'
      BY <3>1, <3>a, <3>b, <3>c, <3>2, <2>2 DEF TypeOK, Entered
    <3>e. Pending' = Pending
      BY <3>b DEF Pending
    <3>4. (RestWhenDisabled /\ StaleAccount)'
      BY <3>a, <3>b, <2>d, <3>e DEF RestWhenDisabled, StaleAccount
    <3>5. AckMatchesState'
      BY <3>1, <3>2, <2>3 DEF Cleared, AckMatchesState, StopAck
    <3>. QED
      BY <3>1, <3>2, <3>3, <3>4, <3>5, <2>2
  <2>6. CASE DutySet(c)
    <3>1. Entered("ACK DUTY") /\ "ACK DUTY" \in Replies
      BY <2>1, <2>6 DEF DutySet, Replies
    <3>2. Clamp(Argument(chunk[c])) \in Band
      BY <2>6, ArgumentType, ClampInBand DEF DutySet, TypeOK
    <3>3. TypeOK'
      BY <3>1, <3>2, <2>2, <2>6 DEF DutySet, TypeOK, Entered
    <3>4. (RestWhenDisabled /\ StaleAccount)'
      BY <2>6 DEF DutySet, RestWhenDisabled, StaleAccount
    <3>5. AckMatchesState'
      BY <3>1, <2>3, <2>6 DEF DutySet, AckMatchesState, StopAck
    <3>. QED
      BY <3>1, <3>3, <3>4, <3>5, <2>2
  <2>7. CASE DutyRefused(c) \/ DutyUnparsed(c) \/ Ping(c) \/ Other(c)
    <3>1. PICK ans \in {"ERR NOT_ENABLED", "ERR BAD_VALUE", "PONG", "ERR UNKNOWN_CMD"} :
            /\ Entered(ans)
            /\ UNCHANGED <<enabled, lastDuty, stale>>
            /\ ans = "ERR NOT_ENABLED" => ~enabled
      BY <2>1, <2>7 DEF DutyRefused, DutyUnparsed, Ping, Other
    <3>2. ans \in Replies
      BY DEF Replies
    <3>3. TypeOK'
      BY <3>1, <3>2, <2>2 DEF TypeOK, Entered
    <3>4. (RestWhenDisabled /\ StaleAccount)'
      BY <3>1 DEF Entered, RestWhenDisabled, StaleAccount, Pending
    <3>5. AckMatchesState'
      BY <3>1, <3>2, <2>3 DEF AckMatchesState, StopAck
    <3>. QED
      BY <3>1, <3>2, <3>3, <3>4, <3>5, <2>2
  <2>. QED
    BY <1>5, <2>4, <2>5, <2>6, <2>7 DEF Handle
<1>6. ASSUME NEW c \in Clients, Reply(c)
      PROVE  IInv'
  <2>1. /\ UNCHANGED <<enabled, lastDuty, running, alive, spc, duty, motor, stale>>
        /\ lock' = Free /\ pc[c] = "reply"
    BY <1>6 DEF Reply, senderVars
  <2>2. TypeOK'
    BY <1>6, <2>1, SendAllType DEF Reply, TypeOK
  <2>3. (RestWhenDisabled /\ StaleAccount)'
    BY <2>1 DEF RestWhenDisabled, StaleAccount, Pending
  <2>4. \A d \in Clients : pc'[d] # "reply"
    BY <1>6, <2>1, SendAllType DEF LockIsReplying, Reply
  <2>. QED
    BY <2>1, <2>2, <2>3, <2>4 DEF LockIsReplying, AckMatchesState
<1>7. CASE UNCHANGED vars
  BY <1>7 DEF vars, handlerVars, senderVars, TypeOK, RestWhenDisabled, StaleAccount, Pending,
              LockIsReplying, AckMatchesState
<1>. QED
  BY <1>1, <1>2, <1>3, <1>4, <1>5, <1>6, <1>7 DEF Next, Sender, Handler

(* The strengthening holds in every reachable state.                       *)
THEOREM Invariance == Spec => []IInv
  BY InitInvariant, StepInvariant, PTL DEF Spec

(* Every variable keeps its range: in particular no duty beyond MAX_DUTY   *)
(* is ever stored, copied or given to the motor, whatever a client sends.  *)
THEOREM TypeCorrect == Spec => []TypeOK
<1>1. IInv => TypeOK
  BY DEF IInv
<1>. QED
  BY Invariance, <1>1, PTL

(* After the flag is cleared at most one more non-zero duty is sent.       *)
THEOREM StaleSendBound == Spec => []AtMostOneStaleSend
<1>1. IInv => AtMostOneStaleSend
  BY DEF IInv, TypeOK, StaleAccount, Pending, AtMostOneStaleSend
<1>. QED
  BY Invariance, <1>1, PTL

(* A reply describes the state in which it is sent.                        *)
THEOREM AckTruthful == Spec => []AckMatchesState
<1>1. IInv => AckMatchesState
  BY DEF IInv
<1>. QED
  BY Invariance, <1>1, PTL

(* An enable starts from rest.                                             *)
THEOREM EnableRest == Spec => EnableStartsAtRest
<1>1. IInv /\ [Next]_vars => [~enabled /\ enabled' => lastDuty' = 0]_vars
  <2>. SUFFICES ASSUME IInv, Next, ~enabled, enabled' PROVE lastDuty' = 0
    BY DEF vars
  <2>1. PICK c \in Clients : Enable(c)
    BY DEF Next, Sender, SenderCheck, SenderRead, SenderSend, Interrupt, Exit, Accept, Client,
           ClientRead, ClientGone, Handler, Hello, Recv, Eof, Reply, Handle, Disable, Stop,
           Cleared, DutyRefused, DutyUnparsed, DutySet, Ping, Other
  <2>. QED
    BY <2>1 DEF IInv, RestWhenDisabled, Enable
<1>. QED
  BY Invariance, <1>1, PTL DEF Spec, EnableStartsAtRest

-----------------------------------------------------------------------------
(* The read task of the TCP driver, whatever sends, closes and peers do.   *)
(* Only the task publishes a connection, so that one which it found dead   *)
(* is not replaced behind its back: its status is good, or nobody is there.*)
DeadStatus == {"disconnected", "error"}

(* What the task knows of the connection at each of its steps.             *)
SocketInv ==
    /\ SocketIsKept
    /\ status \in DeadStatus => m_fd # "up"
    /\ task = "hangup" => m_fd # "up"
    /\ task = "final" => m_stop \/ status \in DeadStatus
    /\ snd \in {"send", "blocked", "cut"} => left > 0

-----------------------------------------------------------------------------
LEMMA Closed == ASSUME CloseFd PROVE m_fd' = "none" /\ ~m_open' /\ m_open' \in BOOLEAN
  BY Zenon DEF CloseFd

LEMMA SocketInitInv == ASSUME SocketAssumption PROVE SocketInit => SocketInv
  <1> SUFFICES ASSUME SocketInit PROVE SocketInv OBVIOUS
  <1>1. server \in BOOLEAN /\ listening \in BOOLEAN /\ m_stop \in BOOLEAN
    BY Zenon DEF SocketInit
  <1>2. m_open \in BOOLEAN /\ ~m_open
    BY Zenon DEF SocketInit
  <1>3. /\ m_reconnect \in BOOLEAN /\ m_fd = "none" /\ fd = "none" /\ status = "ok" /\ halted = "none"
        /\ task = "top" /\ owner = "idle" /\ snd = "idle" /\ left = 0
    BY DEF SocketInit
  <1> QED BY <1>1, <1>2, <1>3 DEF SocketAssumption, SocketInv, SocketIsKept, SocketTypeOK, DeadStatus

LEMMA TaskStep == ASSUME SocketAssumption, SocketInv, ReadTask PROVE SocketInv'
  <1> USE DEF SocketAssumption, SocketInv, SocketIsKept, SocketTypeOK, DeadStatus, Task, Alone, Close, Woken,
              rest, sendVars
  <1>1. CASE TaskTop    BY <1>1 DEF TaskTop
  <1>2. CASE Publish    BY <1>2 DEF Publish
  <1>3. CASE TaskCheck  BY <1>3 DEF TaskCheck
  <1>4. CASE RecvCheck  BY <1>4 DEF RecvCheck
  <1>5. CASE RecvHangup BY <1>5, Closed DEF RecvHangup
  <1>6. CASE Received   BY <1>6, Closed DEF Received
  <1>7. CASE TaskLoop   BY <1>7 DEF TaskLoop
  <1>8. CASE TaskEnd    BY <1>8, Closed DEF TaskEnd
  <1> QED BY <1>1, <1>2, <1>3, <1>4, <1>5, <1>6, <1>7, <1>8 DEF ReadTask

LEMMA CallStep ==
  ASSUME SocketAssumption, SocketInv, OpenFails \/ Opens \/ Reads \/ ReadFails PROVE SocketInv'
  <1> USE DEF SocketAssumption, SocketInv, SocketIsKept, SocketTypeOK, DeadStatus, Task, Alone, rest, sendVars
  <1>1. CASE OpenFails BY <1>1 DEF OpenFails
  <1>2. CASE Opens     BY <1>2 DEF Opens
  <1>3. CASE Reads     BY <1>3 DEF Reads
  <1>4. CASE ReadFails BY <1>4 DEF ReadFails
  <1> QED BY <1>1, <1>2, <1>3, <1>4

SendStep == SendStart \/ SendCall \/ SendPiece \/ SendRetry \/ SendFails \/ SendCut \/ SendReset

LEMMA SenderStep == ASSUME SocketAssumption, SocketInv, SendStep PROVE SocketInv'
  <1> USE DEF SocketAssumption, SocketInv, SocketIsKept, SocketTypeOK, DeadStatus, Sending, rest, taskVars
  <1>1. CASE SendStart BY <1>1 DEF SendStart
  <1>2. CASE SendCall  BY <1>2 DEF SendCall
  <1>3. CASE SendPiece BY <1>3 DEF SendPiece
  <1>4. CASE SendRetry BY <1>4 DEF SendRetry
  <1>5. CASE SendFails BY <1>5 DEF SendFails
  <1>6. CASE SendCut   BY <1>6 DEF SendCut
  <1>7. CASE SendReset BY <1>7, Closed DEF SendReset
  <1> QED BY <1>1, <1>2, <1>3, <1>4, <1>5, <1>6, <1>7 DEF SendStep

OwnerStep == SetStop \/ StopClose \/ CloseCall \/ Shutdown \/ ShutdownClose

LEMMA OwnerOrPeer == ASSUME SocketAssumption, SocketInv, OwnerStep \/ PeerGone PROVE SocketInv'
  <1> USE DEF SocketAssumption, SocketInv, SocketIsKept, SocketTypeOK, DeadStatus, Owner, Close, Woken,
              rest, taskVars, sendVars
  <1>1. CASE SetStop       BY <1>1 DEF SetStop
  <1>2. CASE StopClose     BY <1>2, Closed DEF StopClose
  <1>3. CASE CloseCall     BY <1>3, Closed DEF CloseCall
  <1>4. CASE Shutdown
    <2>1. listening' \in BOOLEAN BY <1>4, Zenon DEF Shutdown
    <2>2. Owner("idle", "shutting") /\ UNCHANGED <<m_stop, m_fd, m_open, sendVars>>
      BY <1>4 DEF Shutdown
    <2> QED BY <2>1, <2>2
  <1>5. CASE ShutdownClose BY <1>5, Closed DEF ShutdownClose
  <1>6. CASE PeerGone      BY <1>6 DEF PeerGone
  <1> QED BY <1>1, <1>2, <1>3, <1>4, <1>5, <1>6 DEF OwnerStep

LEMMA SocketInvStep == ASSUME SocketAssumption, SocketInv, [SocketNext]_socketVars PROVE SocketInv'
  <1>1. CASE UNCHANGED socketVars
    BY <1>1 DEF SocketInv, SocketIsKept, SocketTypeOK, socketVars, rest, taskVars, sendVars
  <1>2. CASE SocketNext
    BY <1>2, TaskStep, CallStep, SenderStep, OwnerOrPeer DEF SocketNext, SendStep, OwnerStep
  <1> QED BY <1>1, <1>2

LEMMA SocketInvHolds == ASSUME SocketAssumption PROVE SocketSpec => []SocketInv
  <1>1. SocketInit => SocketInv BY SocketInitInv
  <1>2. SocketInv /\ [SocketNext]_socketVars => SocketInv' BY SocketInvStep
  <1> QED BY <1>1, <1>2, PTL DEF SocketSpec

-----------------------------------------------------------------------------
(* Descriptor, flag and task agree, whatever a message takes (Pieces): the *)
(* assertions of IpSocket::open never fail, and a task that has ended has  *)
(* left no connection open.                                                *)
THEOREM SocketKept == ASSUME SocketAssumption PROVE SocketSpec => []SocketIsKept
  <1>1. SocketInv => SocketIsKept BY DEF SocketInv
  <1> QED BY <1>1, SocketInvHolds, PTL

(* Of the task's own steps only four close the connection; three of them   *)
(* know that it is dead, and the last comes after a stop, or after a read  *)
(* that failed, when there is none.                                        *)
LEMMA ClosesTheDead ==
  ASSUME SocketAssumption, SocketInv, [SocketNext]_socketVars,
         m_fd = "up", m_fd' = "none", task' # task
  PROVE  m_stop
  <1> USE DEF SocketInv, DeadStatus
  <1>1. CASE ReadTask
    BY <1>1 DEF ReadTask, TaskTop, Publish, TaskCheck, RecvCheck, RecvHangup, Received, TaskLoop,
                TaskEnd, Task, Alone, SocketIsKept, SocketTypeOK
  <1>2. CASE OpenFails \/ Opens \/ Reads \/ ReadFails
    BY <1>2 DEF OpenFails, Opens, Reads, ReadFails, Alone
  <1>3. CASE SendStep
    BY <1>3 DEF SendStep, SendStart, SendCall, SendPiece, SendRetry, SendFails, SendCut, SendReset,
                Sending, taskVars
  <1>4. CASE OwnerStep \/ PeerGone
    BY <1>4 DEF OwnerStep, SetStop, StopClose, CloseCall, Shutdown, ShutdownClose, PeerGone, Owner,
                taskVars
  <1>5. CASE UNCHANGED socketVars BY <1>5 DEF socketVars, taskVars
  <1> QED BY <1>1, <1>2, <1>3, <1>4, <1>5 DEF SocketNext, SendStep, OwnerStep

(* The read task closes no connection whose peer is there unless it was    *)
(* told to stop.                                                           *)
THEOREM DeadClosed == ASSUME SocketAssumption PROVE SocketSpec => TaskClosesTheDead
  <1>1. SocketInv /\ [SocketNext]_socketVars
           => [m_fd = "up" /\ m_fd' = "none" /\ task' # task => m_stop]_socketVars
    BY ClosesTheDead
  <1> QED BY <1>1, SocketInvHolds, PTL DEF SocketSpec, TaskClosesTheDead
=============================================================================
