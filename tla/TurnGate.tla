------------------------------ MODULE TurnGate ------------------------------
(***************************************************************************)
(* What the turn coordinator promises its callers, without promises,       *)
(* timers or queues: a bounded number of turns is admitted, a bounded      *)
(* number runs, and the turns of one session run one at a time in the      *)
(* order in which they were admitted.                                      *)
(*                                                                         *)
(* TurnCoordinator implements this specification.                          *)
(***************************************************************************)
EXTENDS Naturals, FiniteSets

CONSTANTS Turns,  (* numbers, in the order in which turns ask to be admitted *)
          Sessions, NoSession, MaxConcurrent, MaxPending

VARIABLES stage,    (* how far each turn is                                  *)
          session   (* the session it was admitted to                        *)

vars == <<stage, session>>

In(stages) == {t \in Turns : stage[t] \in stages}
Inside == In({"waiting", "running", "leaving"})

(* Nobody of t's session was admitted before t and is still inside.        *)
First(t) == \A u \in Inside : session[u] = session[t] => u >= t

Move(t, to) == stage' = [stage EXCEPT ![t] = to] /\ UNCHANGED session

Init ==
  /\ stage = [t \in Turns |-> "idle"]
  /\ session = [t \in Turns |-> NoSession]

Asks(t) == stage[t] = "idle" /\ \A u \in Turns : u < t => stage[u] # "idle"

Admit(t, s) ==
  /\ Asks(t)
  /\ Cardinality(Inside) < MaxPending
  /\ stage' = [stage EXCEPT ![t] = "waiting"]
  /\ session' = [session EXCEPT ![t] = s]

Refuse(t) ==
  /\ Asks(t)
  /\ Cardinality(Inside) >= MaxPending
  /\ Move(t, "refused")

Start(t) ==
  /\ stage[t] = "waiting" /\ First(t)
  /\ Cardinality(In({"running"})) < MaxConcurrent
  /\ Move(t, "running")

Drop(t) == stage[t] = "waiting" /\ First(t) /\ Move(t, "leaving")

Finish(t) == stage[t] = "running" /\ Move(t, "leaving")

(* A turn ends and hands its place to one that waits.                      *)
HandOver(t, u) ==
  /\ stage[t] = "running"
  /\ stage[u] = "waiting" /\ First(u)
  /\ stage' = [stage EXCEPT ![t] = "leaving", ![u] = "running"]
  /\ UNCHANGED session

Leave(t) == stage[t] = "leaving" /\ Move(t, "done")

Next ==
  \E t \in Turns :
    \/ \E s \in Sessions : Admit(t, s)
    \/ Refuse(t) \/ Start(t) \/ Drop(t) \/ Finish(t) \/ Leave(t)
    \/ \E u \in Turns : HandOver(t, u)

Spec == Init /\ [][Next]_vars
=============================================================================
