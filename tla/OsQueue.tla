------------------------------- MODULE OsQueue -------------------------------
(***************************************************************************)
(* Os::Queue on POSIX threads (Os/Pthreads/Queue.cpp): the message queue   *)
(* of every active component.  Any thread may send and receive, blocking   *)
(* or not; a section under queueLock is one step, and a thread in          *)
(* pthread_cond_wait has let go of the lock.  The buffer queue behind it   *)
(* is the abstract PriorityFifo, which PriorityBufferQueue implements.     *)
(***************************************************************************)
EXTENDS PriorityFifo, FiniteSets

CONSTANTS Threads,
          Consumers,   \* those that only loop on a blocking receive, as the
                       \* threads of active components do
          SendModes,   \* of the callers of send: "block", "nonblock"
          Spurious     \* may pthread_cond_wait return without a signal?

ASSUME ThreadsAssumption ==
    /\ IsFiniteSet(Threads) /\ Consumers \subseteq Threads
    /\ SendModes \subseteq {"block", "nonblock"}
    /\ Spurious \in BOOLEAN

VARIABLES waiting,   \* per condition variable, the threads that wait on it
          woken,     \* those that were woken and have not got the lock yet
          arg,       \* a waiting or woken thread's message or capacity
          wasted     \* history: a woken receiver left without a message

vars == <<msgs, last, waiting, woken, arg, wasted>>

NoArg == [op |-> "none"]
Conds == {"queueNotEmpty", "queueNotFull"}
Idle(t) == \A c \in Conds : t \notin waiting[c] \cup woken[c]

Init ==
    /\ InitFifo
    /\ waiting = [c \in Conds |-> {}] /\ woken = [c \in Conds |-> {}]
    /\ arg = [t \in Threads |-> NoArg]
    /\ wasted = FALSE

(* pthread_cond_wait on c, by a thread that holds the lock.                *)
Wait(t, c, a) ==
    /\ waiting' = [waiting EXCEPT ![c] = @ \cup {t}]
    /\ woken' = [woken EXCEPT ![c] = @ \ {t}]
    /\ arg' = [arg EXCEPT ![t] = a]
    /\ UNCHANGED <<msgs, last, wasted>>

(* A mutant: no signal when other threads have been woken already.         *)
MutantSignal(t, c, d) ==
    /\ \/ /\ waiting[d] = {} \/ woken[d] # {}
          /\ woken' = [woken EXCEPT ![c] = @ \ {t}]
          /\ UNCHANGED waiting
       \/ \E w \in waiting[d] :
             /\ woken[d] = {}
             /\ waiting' = [waiting EXCEPT ![d] = @ \ {w}]
             /\ woken' = [woken EXCEPT ![c] = @ \ {t}, ![d] = @ \cup {w}]
    /\ arg' = [arg EXCEPT ![t] = NoArg]
    /\ UNCHANGED wasted

(* t, which may have been woken from c, leaves with a signal of d.         *)
SignalAndLeave(t, c, d) ==
    /\ \/ /\ waiting[d] = {}
          /\ woken' = [woken EXCEPT ![c] = @ \ {t}]
          /\ UNCHANGED waiting
       \/ \E w \in waiting[d] :
             /\ waiting' = [waiting EXCEPT ![d] = @ \ {w}]
             /\ woken' = [woken EXCEPT ![c] = @ \ {t}, ![d] = @ \cup {w}]
    /\ arg' = [arg EXCEPT ![t] = NoArg]
    /\ UNCHANGED wasted

SendNow(t, m) == Put(m) /\ SignalAndLeave(t, "queueNotFull", "queueNotEmpty")

(* The receiver's buffer is too small: the message goes back behind those  *)
(* of its priority and nobody is signalled.                                *)
TooSmall(t) ==
    /\ Requeue
    /\ woken' = [woken EXCEPT !["queueNotEmpty"] = @ \ {t}]
    /\ arg' = [arg EXCEPT ![t] = NoArg]
    /\ wasted' = (wasted \/ t \in woken["queueNotEmpty"])
    /\ UNCHANGED waiting

ReceiveNow(t, capacity) ==
    /\ msgs # <<>>
    /\ \/ Head(msgs).size <= capacity /\ Take /\ SignalAndLeave(t, "queueNotEmpty", "queueNotFull")
       \/ Head(msgs).size > capacity /\ TooSmall(t)

SendOrWait(t, m) ==
    \/ SendNow(t, m)
    \/ Len(msgs) = Depth /\ Wait(t, "queueNotFull", m)

ReceiveOrWait(t, capacity) ==
    \/ ReceiveNow(t, capacity)
    \/ msgs = <<>> /\ Wait(t, "queueNotEmpty", [capacity |-> capacity])

(* QUEUE_FULL and QUEUE_NO_MORE_MSGS change nothing.                       *)
SendNonBlock(t, m) ==
    /\ Idle(t) /\ "nonblock" \in SendModes
    /\ SendNow(t, m) \/ (Len(msgs) = Depth /\ UNCHANGED vars)

ReceiveNonBlock(t, capacity) ==
    /\ Idle(t)
    /\ ReceiveNow(t, capacity) \/ (msgs = <<>> /\ UNCHANGED vars)

SendBlock(t, m) == Idle(t) /\ "block" \in SendModes /\ SendOrWait(t, m)
ReceiveBlock(t, capacity) == Idle(t) /\ ReceiveOrWait(t, capacity)

(* A woken thread gets the lock and looks at the queue again.              *)
ResumeSend(t) == t \in woken["queueNotFull"] /\ SendOrWait(t, arg[t])
ResumeReceive(t) == t \in woken["queueNotEmpty"] /\ ReceiveOrWait(t, arg[t].capacity)

SpuriousWakeup(t, c) ==
    /\ Spurious /\ t \in waiting[c]
    /\ waiting' = [waiting EXCEPT ![c] = @ \ {t}]
    /\ woken' = [woken EXCEPT ![c] = @ \cup {t}]
    /\ UNCHANGED <<msgs, last, arg, wasted>>

Next ==
    \/ \E t \in Threads \ Consumers :
          \/ \E m \in Messages : SendNonBlock(t, m) \/ SendBlock(t, m)
          \/ \E n \in Capacities : ReceiveNonBlock(t, n)
          \/ ResumeSend(t)
    \/ \E t \in Threads :
          \/ \E n \in Capacities : ReceiveBlock(t, n)
          \/ ResumeReceive(t)
          \/ \E c \in Conds : SpuriousWakeup(t, c)

Spec == Init /\ [][Next]_vars

(* A woken thread gets the lock at last, and a consumer comes back.        *)
Fairness ==
    /\ \A t \in Threads : WF_vars(ResumeSend(t)) /\ WF_vars(ResumeReceive(t))
    /\ \A t \in Consumers : WF_vars(\E n \in Capacities : ReceiveBlock(t, n))

FairSpec == Spec /\ Fairness
-----------------------------------------------------------------------------
(* Every part of the state has its type: a thread is in at most one call,  *)
(* and one that waits or was woken keeps the argument of its call.         *)
TypeOK ==
    /\ msgs \in Seq(Messages) /\ Len(msgs) <= Depth
    /\ last \in Messages \cup {NoMessage}
    /\ waiting \in [Conds -> SUBSET Threads] /\ woken \in [Conds -> SUBSET Threads]
    /\ \A c \in Conds : waiting[c] \cap woken[c] = {}
    /\ (waiting["queueNotEmpty"] \cup woken["queueNotEmpty"])
          \cap (waiting["queueNotFull"] \cup woken["queueNotFull"]) = {}
    /\ arg \in [Threads -> Messages \cup [capacity : Capacities] \cup {NoArg}]
    /\ \A t \in waiting["queueNotEmpty"] \cup woken["queueNotEmpty"] :
          arg[t] \in [capacity : Capacities]
    /\ \A t \in waiting["queueNotFull"] \cup woken["queueNotFull"] : arg[t] \in Messages
    /\ wasted \in BOOLEAN

(* While a receiver waits there are as many woken receivers as messages,   *)
(* unless a woken one left with too small a buffer, and while a sender     *)
(* waits as many woken senders as free places.                             *)
EnoughAwake ==
    /\ waiting["queueNotEmpty"] # {} =>
          wasted \/ Cardinality(woken["queueNotEmpty"]) >= Len(msgs)
    /\ waiting["queueNotFull"] # {} => Cardinality(woken["queueNotFull"]) >= Depth - Len(msgs)

(* No wakeup is lost, as long as no woken receiver left with too small a   *)
(* buffer: pthread_cond_signal once per message is enough.                 *)
NoLostWakeup == TypeOK /\ EnoughAwake

(* What is most urgent and fits every buffer is handed out, whatever else  *)
(* is sent meanwhile, unless a wakeup was wasted.                          *)
Urgent == {m \in Messages : /\ \A v \in Messages : m.pri >= v.pri
                            /\ \A n \in Capacities : m.size <= n}
UrgentIsDelivered ==
    \A m \in Urgent : (\E i \in DOMAIN msgs : msgs[i] = m) ~> (last = m \/ wasted)
=============================================================================
