---------------------------- MODULE QueueMessages ----------------------------
(* What a message queue is created for and used with.                      *)
EXTENDS Integers, Sequences

CONSTANTS Depth,       \* number of messages that the queue was created for
          Messages,    \* records with a priority pri, a size and a body
          Capacities   \* sizes of the receivers' buffers

ASSUME QueueAssumption ==
    /\ Depth \in Nat \ {0}
    /\ Messages \subseteq [pri : Int, size : Nat, body : STRING]
    /\ Capacities \subseteq Nat

NoMessage == [pri |-> 0, size |-> 0, body |-> "none"]
=============================================================================
