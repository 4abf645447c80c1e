----------------------------- MODULE ActionOnce -----------------------------
(***************************************************************************)
(* What the action ledger promises about every key, that is a tool and its *)
(* arguments within one inbound turn: the tool is executed at most once,   *)
(* however often the turn is replayed, and the model is told the outcome   *)
(* of that execution or that it is not known.                              *)
(***************************************************************************)
EXTENDS Integers

CONSTANT Keys

VARIABLES
  status,      (* none, running, succeeded or failed, per key                *)
  executions,  (* how often the tool of the key was executed                 *)
  told         (* the answers the model got for the key                      *)

vars == <<status, executions, told>>

Init ==
  /\ status = [k \in Keys |-> "none"]
  /\ executions = [k \in Keys |-> 0]
  /\ told = [k \in Keys |-> {}]

Execute(k) ==
  /\ status[k] = "none"
  /\ status' = [status EXCEPT ![k] = "running"]
  /\ executions' = [executions EXCEPT ![k] = 1]
  /\ UNCHANGED told

Finish(k, outcome) ==
  /\ status[k] = "running"
  /\ status' = [status EXCEPT ![k] = outcome]
  /\ told' = [told EXCEPT ![k] = @ \cup {outcome}]
  /\ UNCHANGED executions

(* A further request for the key is answered and executes nothing.         *)
Answer(k) ==
  /\ status[k] # "none"
  /\ told' = [told EXCEPT ![k] =
                @ \cup {IF status[k] = "running" THEN "unknown" ELSE status[k]}]
  /\ UNCHANGED <<status, executions>>

Next ==
  \E k \in Keys :
    Execute(k) \/ Answer(k) \/ \E outcome \in {"succeeded", "failed"} : Finish(k, outcome)

Spec == Init /\ [][Next]_vars
=============================================================================
