--------------------------- MODULE CommandService ---------------------------
(***************************************************************************)
(* What Svc::CmdDispatcher promises the sources of commands (ground link,  *)
(* sequencers): a command is either refused, and then never carried out,   *)
(* or carried out, and then answered with a response its component gave,   *)
(* on the port and with the context it came with, and at most once.  Only  *)
(* clearing the tracking table makes the service forget commands.          *)
(***************************************************************************)
EXTENDS Naturals

CONSTANTS Ids,           \* the numbers that commands may get
          Requests,      \* records with at least id, port, op and context
          StatusPorts,   \* the sources that want to be answered
          Responses,     \* what a component may respond
          Refusals       \* what the service may refuse a command with

VARIABLES count,    \* commands submitted so far; they are numbered from 1
          open,     \* commands whose source is waiting for an answer
          outcome,  \* what is known of each command, by number
          answer    \* the last answer given

vars == <<count, open, outcome, answer>>

Status(r, resp) == [port |-> r.port, op |-> r.op, context |-> r.context, response |-> resp]

NoAnswer == [port |-> "none"]

Init ==
    /\ count = 0 /\ open = {}
    /\ outcome = [i \in Ids |-> {}]
    /\ answer = NoAnswer

Submit(r) ==
    /\ r.id = count + 1
    /\ count' = count + 1
    /\ open' = IF r.port \in StatusPorts THEN open \cup {r} ELSE open
    /\ UNCHANGED <<outcome, answer>>

Refuse(r, resp) ==
    /\ r.id <= count /\ outcome[r.id] = {}
    /\ outcome' = [outcome EXCEPT ![r.id] = {resp}]
    /\ r.port \in StatusPorts => r \in open /\ answer' = Status(r, resp)
    /\ r.port \notin StatusPorts => UNCHANGED answer
    /\ open' = open \ {r}
    /\ UNCHANGED count

CarryOut(i, resp) ==
    /\ i \in 1 .. count /\ outcome[i] \cap Refusals = {}
    /\ outcome' = [outcome EXCEPT ![i] = @ \cup {resp}]
    /\ UNCHANGED <<count, open, answer>>

Answer(r) ==
    /\ r \in open
    /\ \E resp \in outcome[r.id] \cap Responses : answer' = Status(r, resp)
    /\ open' = open \ {r}
    /\ UNCHANGED <<count, outcome>>

(* CMD_CLEAR_TRACKING is itself a command that is carried out, once.       *)
Forget(i) ==
    /\ i \in 1 .. count /\ outcome[i] = {}
    /\ outcome' = [outcome EXCEPT ![i] = {"OK"}]
    /\ open' \subseteq open
    /\ UNCHANGED <<count, answer>>

Next ==
    \/ \E r \in Requests : Submit(r) \/ Answer(r) \/ (\E resp \in Refusals : Refuse(r, resp))
    \/ \E i \in 1 .. count : (\E resp \in Responses : CarryOut(i, resp)) \/ Forget(i)

Spec == Init /\ [][Next]_vars
=============================================================================
