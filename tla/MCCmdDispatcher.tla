-------------------------- MODULE MCCmdDispatcher --------------------------
(* A source that wants answers and one that does not; an opcode that two   *)
(* components claim, one of them behind an unconnected port; more opcodes  *)
(* than the table has entries.                                             *)
EXTENDS CmdDispatcher

MCRegistrations ==
    {[op |-> "A", port |-> 1], [op |-> "A", port |-> 9], [op |-> "B", port |-> 2],
     [op |-> "Clear", port |-> 2]}

(* A bound: the dispatcher itself registers first, if it does, and the     *)
(* component with "B" last; the table is looked up by opcode, whatever the *)
(* order of its entries.                                                   *)
RegisteredInOrder ==
    \A i \in DOMAIN entryTable' :
        entryTable'[i].op # "B" /\ (entryTable'[i].op = "Clear" => i = 1)

DispatcherSpec ==
    /\ Init /\ [][Next /\ RegisteredInOrder]_vars
    /\ Fairness
=============================================================================
