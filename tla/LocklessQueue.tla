----------------------------- MODULE LocklessQueue -----------------------------
(* Os::LocklessQueue: many senders and one receiver on a linked list and a *)
(* list of free nodes, without a lock.  A step is one access to what the   *)
(* threads share.  The size checks of Send and Receive, which return       *)
(* before any of it, are left out.                                         *)
EXTENDS Naturals, Sequences, FiniteSets, SequencesExt

CONSTANTS
    Senders,     \* the threads that call Send; a message holds the name of its sender
    Blank,       \* what a node holds at first
    MaxMsg       \* maxmsg, the number of nodes

ASSUME LocklessAssumption == MaxMsg \in Nat \ {0, 1} /\ Blank \notin Senders

VARIABLES
    callers,     \* the threads that call Send on this queue
    m_first, m_last, m_free_head,
    m_index,     \* of each node, its next node and its data
    sender,      \* of each sender, where it is in Send and its local variables
    receiver,    \* the same for Receive
    published,   \* history: the nodes since m_first in the order of m_last, with
                 \* what was to be sent in each
    free,        \* history: the free nodes, in the order of the pushes and pops
    aba          \* history: whether a pop has put a stale next into m_free_head

freeList == <<m_free_head, free>>
locklessVars == <<callers, m_first, m_last, freeList, m_index, sender, receiver, published, aba>>

Null  == 0
Node  == 1 .. MaxMsg
Links == 0 .. MaxMsg

(* my_node of Send, and what it has read for its next compare-and-swap.    *)
SenderStates ==
    [at : {"idle", "pop", "next", "cas", "fill", "last", "publish", "link"},
     node : Links, read : Links]
ReceiverStates ==
    [at : {"idle", "next", "push", "chain", "cas", "copy"},
     node : Links, old : Links, read : Links]

(* A local variable is Null when it has not been set or is not read again. *)
NotSending   == [at |-> "idle", node |-> Null, read |-> Null]
NotReceiving == [at |-> "idle", node |-> Null, old |-> Null, read |-> Null]

LocklessInit ==
    /\ callers \in SUBSET Senders \ {{}}
    /\ m_first = 1 /\ m_last = 1 /\ m_free_head = 2
    /\ m_index = [n \in Node |->
          [next |-> IF n \in {1, MaxMsg} THEN Null ELSE n + 1, data |-> Blank]]
    /\ sender = [s \in Senders |-> NotSending] /\ receiver = NotReceiving
    /\ published = <<[node |-> 1, body |-> Blank]>>
    /\ free = [i \in 1 .. MaxMsg - 1 |-> i + 1] /\ aba = FALSE

-----------------------------------------------------------------------------
(* Send.  A step of a sender leaves the receiver's variables alone.        *)
Goes(s, at) == sender' = [sender EXCEPT ![s] = [@ EXCEPT !.at = at, !.read = Null]]
SenderOnly == UNCHANGED <<callers, m_first, receiver>>

Send(s) ==
    /\ sender[s].at = "idle"
    /\ Goes(s, "pop")
    /\ SenderOnly /\ UNCHANGED <<m_last, freeList, m_index, published, aba>>

(* PopFree: QUEUE_FULL if there is no head.                                *)
PopRead(s) ==
    /\ sender[s].at = "pop"
    /\ IF m_free_head = Null
       THEN sender' = [sender EXCEPT ![s] = NotSending]
       ELSE sender' = [sender EXCEPT ![s] = [@ EXCEPT !.at = "next", !.node = m_free_head]]
    /\ SenderOnly /\ UNCHANGED <<m_last, freeList, m_index, published, aba>>

PopNext(s) ==
    /\ sender[s].at = "next"
    /\ sender' = [sender EXCEPT ![s] = [@ EXCEPT !.at = "cas",
                                                 !.read = m_index[sender[s].node].next]]
    /\ SenderOnly /\ UNCHANGED <<m_last, freeList, m_index, published, aba>>

PopCAS(s) ==
    LET my == sender[s] IN
    /\ my.at = "cas"
    /\ IF m_free_head = my.node
       THEN /\ m_free_head' = my.read /\ free' = Tail(free) /\ Goes(s, "fill")
            /\ aba' = (m_index[my.node].next # my.read)
       ELSE /\ sender' = [sender EXCEPT ![s] = [NotSending EXCEPT !.at = "pop"]]
            /\ UNCHANGED <<freeList, aba>>
    /\ SenderOnly /\ UNCHANGED <<m_last, m_index, published>>

(* A mutant: the node keeps the link that it had in the free list.         *)
MutantFill(s) ==
    /\ sender[s].at = "fill"
    /\ m_index' = [m_index EXCEPT ![sender[s].node].data = s]
    /\ Goes(s, "last")
    /\ SenderOnly /\ UNCHANGED <<m_last, freeList, published, aba>>

(* The message is copied into the node, which is this sender's alone.      *)
Fill(s) ==
    /\ sender[s].at = "fill"
    /\ m_index' = [m_index EXCEPT ![sender[s].node] = [next |-> Null, data |-> s]]
    /\ Goes(s, "last")
    /\ SenderOnly /\ UNCHANGED <<m_last, freeList, published, aba>>

LastRead(s) ==
    /\ sender[s].at = "last"
    /\ sender' = [sender EXCEPT ![s] = [@ EXCEPT !.at = "publish", !.read = m_last]]
    /\ SenderOnly /\ UNCHANGED <<m_last, freeList, m_index, published, aba>>

LastCAS(s) ==
    LET my == sender[s] IN
    /\ my.at = "publish"
    /\ IF m_last = my.read
       THEN /\ m_last' = my.node /\ sender' = [sender EXCEPT ![s].at = "link"]
            /\ published' = Append(published, [node |-> my.node, body |-> s])
       ELSE Goes(s, "last") /\ UNCHANGED <<m_last, published>>
    /\ SenderOnly /\ UNCHANGED <<freeList, m_index, aba>>

Link(s) ==
    LET my == sender[s] IN
    /\ my.at = "link"
    /\ m_index' = [m_index EXCEPT ![my.read].next = my.node]
    /\ sender' = [sender EXCEPT ![s] = NotSending]
    /\ SenderOnly /\ UNCHANGED <<m_last, freeList, published, aba>>

-----------------------------------------------------------------------------
(* Receive, by one thread at a time.                                       *)
ReceiverOnly == UNCHANGED <<callers, m_last, sender, aba>>

(* QUEUE_NO_MORE_MSGS if m_last is m_first, which only this thread moves.  *)
Receive ==
    /\ receiver.at = "idle" /\ m_first # m_last
    /\ receiver' = [receiver EXCEPT !.at = "next"]
    /\ ReceiverOnly /\ UNCHANGED <<m_first, freeList, m_index, published>>

(* Or if the sender of the next message has not linked it yet.             *)
TakeFirst ==
    LET next == m_index[m_first].next IN
    /\ receiver.at = "next"
    /\ IF next = Null
       THEN receiver' = [receiver EXCEPT !.at = "idle"] /\ UNCHANGED <<m_first, published>>
       ELSE /\ receiver' = [receiver EXCEPT !.at = "push", !.node = next, !.old = m_first]
            /\ m_first' = next /\ published' = Tail(published)
    /\ ReceiverOnly /\ UNCHANGED <<freeList, m_index>>

(* PushFree of the node before it.                                         *)
PushRead ==
    /\ receiver.at = "push"
    /\ receiver' = [receiver EXCEPT !.at = "chain", !.read = m_free_head]
    /\ ReceiverOnly /\ UNCHANGED <<m_first, freeList, m_index, published>>

PushLink ==
    /\ receiver.at = "chain"
    /\ m_index' = [m_index EXCEPT ![receiver.old].next = receiver.read]
    /\ receiver' = [receiver EXCEPT !.at = "cas"]
    /\ ReceiverOnly /\ UNCHANGED <<m_first, freeList, published>>

PushCAS ==
    /\ receiver.at = "cas"
    /\ IF m_free_head = receiver.read
       THEN /\ m_free_head' = receiver.old /\ free' = <<receiver.old>> \o free
            /\ receiver' = [NotReceiving EXCEPT !.at = "copy", !.node = receiver.node]
       ELSE receiver' = [receiver EXCEPT !.at = "push", !.read = Null] /\ UNCHANGED freeList
    /\ ReceiverOnly /\ UNCHANGED <<m_first, m_index, published>>

(* The caller gets the data of receiver.node.                              *)
Copy ==
    /\ receiver.at = "copy"
    /\ receiver' = NotReceiving
    /\ ReceiverOnly /\ UNCHANGED <<m_first, freeList, m_index, published>>

(* The model goes no further once a stale link is in m_free_head.          *)
LocklessNext ==
    \/ /\ ~ aba
       /\ \/ \E s \in callers :
                \/ Send(s) \/ PopRead(s) \/ PopNext(s) \/ PopCAS(s)
                \/ Fill(s) \/ LastRead(s) \/ LastCAS(s) \/ Link(s)
          \/ Receive \/ TakeFirst \/ PushRead \/ PushLink \/ PushCAS \/ Copy
    \/ aba /\ UNCHANGED locklessVars

LocklessSpec == LocklessInit /\ [][LocklessNext]_locklessVars

-----------------------------------------------------------------------------
LocklessTypeOK ==
    /\ callers \subseteq Senders
    /\ m_first \in Node /\ m_last \in Node /\ m_free_head \in Node \cup {Null}
    /\ m_index \in [Node -> [next : Node \cup {Null}, data : Senders \cup {Blank}]]
    /\ sender \in [Senders -> SenderStates] /\ receiver \in ReceiverStates
    /\ published \in Seq([node : Node, body : Senders \cup {Blank}])
    /\ free \in Seq(Node) /\ aba \in BOOLEAN

(* The node that a sender, and the one that the receiver, has taken and    *)
(* not given on.                                                           *)
Held(s) == IF sender[s].at \in {"fill", "last", "publish"} THEN {sender[s].node} ELSE {}
Returning == IF receiver.at \in {"push", "chain", "cas"} THEN {receiver.old} ELSE {}
Queued == [i \in DOMAIN published |-> published[i].node]

(* No node is lost or in two places, so that QUEUE_FULL is never said of a *)
(* queue that has room.                                                    *)
NodesKeptApart ==
    /\ IsInjective(free) /\ IsInjective(Queued)
    /\ ToSet(free) \cap ToSet(Queued) = {}
    /\ Returning \cap (ToSet(free) \cup ToSet(Queued)) = {}
    /\ \A s \in Senders : Held(s) \cap (ToSet(free) \cup ToSet(Queued) \cup Returning) = {}
    /\ \A s, t \in Senders : s # t => Held(s) \cap Held(t) = {}
    /\ \A n \in Node : \/ n \in ToSet(free) \cup ToSet(Queued) \cup Returning
                       \/ \E s \in Senders : n \in Held(s)

(* The free nodes are linked from m_free_head on.                          *)
FreeNodesLinked ==
    /\ m_free_head = IF free = <<>> THEN Null ELSE Head(free)
    /\ \A i \in DOMAIN free :
          m_index[free[i]].next = IF i = Len(free) THEN Null ELSE free[i + 1]

(* The messages are linked in the order that m_last gave them, but for     *)
(* those that a sender is about to link.                                   *)
AboutToLink(s, n, m) == sender[s].at = "link" /\ sender[s].read = n /\ sender[s].node = m

MessagesLinked ==
    /\ published # <<>> /\ m_first = Queued[1] /\ m_last = Queued[Len(published)]
    /\ \A i \in 1 .. Len(published) - 1 :
          \/ m_index[Queued[i]].next = Queued[i + 1]
          \/ /\ m_index[Queued[i]].next = Null
             /\ \E s \in Senders : AboutToLink(s, Queued[i], Queued[i + 1])
    /\ m_index[m_last].next = Null

(* Each node, the one that the receiver is about to copy included, still   *)
(* holds what was sent in it.                                              *)
MessagesIntact ==
    /\ \A i \in DOMAIN published : m_index[Queued[i]].data = published[i].body
    /\ receiver.at \in {"push", "chain", "cas", "copy"} => receiver.node = m_first

(* However senders and the receiver overlap, until a pop has put a stale   *)
(* link into m_free_head, which one sender alone never does: both lists    *)
(* are as they should be, and so is what is in them.                       *)
NothingLostOrMixed ==
    /\ LocklessTypeOK
    /\ \A s \in Senders : callers = {s} => ~ aba
    /\ ~ aba => NodesKeptApart /\ FreeNodesLinked /\ MessagesLinked /\ MessagesIntact
=============================================================================
