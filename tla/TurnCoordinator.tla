--------------------------- MODULE TurnCoordinator ---------------------------
(***************************************************************************)
(* agent/turn-coordinator.ts: every agent turn goes through run(), which   *)
(* chains the turns of a session one behind the other and lets a bounded   *)
(* number of turns of all sessions run at a time.                          *)
(*                                                                         *)
(* A turn goes through the promise callbacks of run(): its .then callback  *)
(* (Enter) runs once the previous turn of the session is settled, its task *)
(* ends (Finish), its .finally callback runs later (Settle).  Each is one  *)
(* synchronous segment; callbacks of other turns, new calls of run() and   *)
(* timers may come in between.  The promise of acquireSlot resolves in the *)
(* segment that grants the slot, after which nothing can happen to the     *)
(* turn before its task starts: both are one step.                         *)
(***************************************************************************)
EXTENDS Naturals, Sequences, FiniteSets

CONSTANTS
  MaxTurns,       (* bound on the calls of run()                             *)
  Sessions,       (* session keys                                            *)
  NoSession,
  MaxConcurrent,
  MaxPending,
  MaxQueueWait    (* maxQueueWaitMs, in ticks of the clock                   *)

ASSUME CoordinatorAssumption ==
  /\ NoSession \notin Sessions
  /\ MaxTurns \in Nat
  /\ MaxConcurrent \in Nat \ {0}
  /\ MaxPending \in Nat \ {0}
  /\ MaxQueueWait \in Nat \ {0}

(* The calls of run() are numbered in the order in which they are made.    *)
Turns == 1 .. MaxTurns
NoTurn == 0  (* Promise.resolve() in place of a previous turn                *)

VARIABLES
  chains,       (* session -> the last turn of its chain                     *)
  slotWaiters,  (* the turns waiting for a slot, first come first            *)
  cancelled,    (* the waiters whose timer has fired                         *)
  active,       (* the counter of taken slots                                *)
  pending,      (* the counter of admitted turns                             *)
  pc,           (* where each turn is in run()                               *)
  session,      (* its session key                                           *)
  previous,     (* the turn it is chained behind                             *)
  waited,       (* ticks since enqueuedAt, up to MaxQueueWait                *)
  draining,     (* drain(): idle, waiting or done                            *)
  awaited,      (* the snapshot drain() waits for                            *)
  owed          (* history: the turns in the coordinator when drain() began  *)

slots == <<slotWaiters, cancelled, active>>
turn == <<pc, session, previous, waited>>
drainer == <<draining, awaited, owed>>
vars == <<chains, slots, pending, turn, drainer>>

Stages == {"idle", "refused", "chained", "queued", "running", "settling", "done"}

At(stages) == {t \in Turns : pc[t] \in stages}
Running == At({"running"})
Live == At({"chained", "queued", "running", "settling"})

Settled(t) == t # NoTurn => pc[t] = "done"

Init ==
  /\ chains = [s \in Sessions |-> NoTurn]
  /\ slotWaiters = <<>> /\ cancelled = {} /\ active = 0
  /\ pending = 0
  /\ pc = [t \in Turns |-> "idle"]
  /\ session = [t \in Turns |-> NoSession]
  /\ previous = [t \in Turns |-> NoTurn]
  /\ waited = [t \in Turns |-> 0]
  /\ draining = "idle" /\ awaited = {} /\ owed = {}

-----------------------------------------------------------------------------
Called(t) == pc[t] = "idle" /\ \A u \in Turns : u < t => pc[u] # "idle"

(* run(): refused at once when the coordinator is full ...                 *)
Refuse(t) ==
  /\ Called(t)
  /\ pending >= MaxPending
  /\ pc' = [pc EXCEPT ![t] = "refused"]
  /\ UNCHANGED <<chains, slots, pending, session, previous, waited, drainer>>

(* ... otherwise chained behind the last turn of its session.              *)
AdmitBehind(t, s, last) ==
  /\ Called(t)
  /\ pending < MaxPending
  /\ pending' = pending + 1
  /\ previous' = [previous EXCEPT ![t] = last]
  /\ chains' = [chains EXCEPT ![s] = t]
  /\ session' = [session EXCEPT ![t] = s]
  /\ pc' = [pc EXCEPT ![t] = "chained"]
  /\ UNCHANGED <<slots, waited, drainer>>

AdmitBehindItself(t, s) == AdmitBehind(t, s, t)
Admit(t, s) == AdmitBehind(t, s, chains[s])

(* The .then callback: drop the turn if it waited too long, else           *)
(* acquireSlot takes a free slot or joins the queue.  What a turn no       *)
(* longer needs (its predecessor, its age) is forgotten.                   *)
Enter(t, stage, age) ==
  /\ pc[t] = "chained"
  /\ Settled(previous[t])
  /\ pc' = [pc EXCEPT ![t] = stage]
  /\ previous' = [previous EXCEPT ![t] = NoTurn]
  /\ waited' = [waited EXCEPT ![t] = age]
  /\ UNCHANGED <<chains, cancelled, session, drainer>>

EnterExpiredCountedOff(t) ==
  /\ waited[t] >= MaxQueueWait
  /\ Enter(t, "settling", 0)
  /\ pending' = pending - 1
  /\ UNCHANGED <<slotWaiters, active>>
EnterExpired(t) ==
  /\ waited[t] >= MaxQueueWait
  /\ Enter(t, "settling", 0)
  /\ UNCHANGED <<slotWaiters, active, pending>>

TakeSlot(t, limit) ==
  /\ waited[t] < MaxQueueWait
  /\ active < limit
  /\ active' = active + 1
  /\ Enter(t, "running", 0)
  /\ UNCHANGED <<slotWaiters, pending>>
EnterRunningOneMore(t) == TakeSlot(t, MaxConcurrent + 1)
EnterRunning(t) == TakeSlot(t, MaxConcurrent)

EnterQueue(t) ==
  /\ waited[t] < MaxQueueWait
  /\ active >= MaxConcurrent
  /\ slotWaiters' = Append(slotWaiters, t)
  /\ Enter(t, "queued", waited[t])
  /\ UNCHANGED <<active, pending>>

(* The timer of a queued turn fires.  The waiter stays in the queue,       *)
(* marked.                                                                 *)
Timeout(t) ==
  /\ pc[t] = "queued"
  /\ waited[t] >= MaxQueueWait
  /\ cancelled' = cancelled \cup {t}
  /\ pc' = [pc EXCEPT ![t] = "settling"]
  /\ waited' = [waited EXCEPT ![t] = 0]
  /\ UNCHANGED <<chains, slotWaiters, active, pending, session, previous, drainer>>

(* releaseSlot: the place in the queue of the first waiter that is not     *)
(* cancelled, 0 without one.                                               *)
Eligible == {i \in DOMAIN slotWaiters : slotWaiters[i] \notin cancelled}

NextEligibleOrCancelled == IF slotWaiters = <<>> THEN 0 ELSE 1
NextEligibleAtHead == IF 1 \in Eligible THEN 1 ELSE 0
NextEligible ==
  IF Eligible = {} THEN 0 ELSE CHOOSE i \in Eligible : \A j \in Eligible : i <= j

(* The task ends (or throws).  Its slot is freed, the cancelled waiters at *)
(* the head of the queue are thrown away and the first other one, if any,  *)
(* takes the slot; its timer is cleared.                                   *)
Finish(t) ==
  /\ pc[t] = "running"
  /\ LET i == NextEligible
     IN  IF i = 0
         THEN /\ active' = active - 1
              /\ slotWaiters' = <<>>
              /\ pc' = [pc EXCEPT ![t] = "settling"]
              /\ UNCHANGED waited
         ELSE /\ active' = (active - 1) + 1
              /\ slotWaiters' = SubSeq(slotWaiters, i + 1, Len(slotWaiters))
              /\ pc' = [pc EXCEPT ![t] = "settling", ![slotWaiters[i]] = "running"]
              /\ waited' = [waited EXCEPT ![slotWaiters[i]] = 0]
  /\ cancelled' = {u \in cancelled : \E i \in DOMAIN slotWaiters' : slotWaiters'[i] = u}
  /\ UNCHANGED <<chains, pending, session, previous, drainer>>

(* The .finally callback: the chain of the session ends with its last      *)
(* turn only.                                                              *)
UnchainAlways(t) == [chains EXCEPT ![session[t]] = NoTurn]
Unchain(t) == IF chains[session[t]] = t THEN [chains EXCEPT ![session[t]] = NoTurn] ELSE chains

Settle(t) ==
  /\ pc[t] = "settling"
  /\ pending' = pending - 1
  /\ chains' = Unchain(t)
  /\ pc' = [pc EXCEPT ![t] = "done"]
  /\ UNCHANGED <<slots, session, previous, waited, drainer>>

-----------------------------------------------------------------------------
(* drain(): wait for the turns that end the chains now.                    *)
DrainBegins ==
  /\ draining = "idle"
  /\ draining' = "waiting"
  /\ awaited' = {chains[s] : s \in Sessions} \ {NoTurn}
  /\ owed' = Live
  /\ UNCHANGED <<chains, slots, pending, turn>>

DrainEnds ==
  /\ draining = "waiting"
  /\ \A t \in awaited : Settled(t)
  /\ draining' = "done"
  /\ awaited' = {} /\ owed' = {}
  /\ UNCHANGED <<chains, slots, pending, turn>>

Tick ==
  /\ waited' = [t \in Turns |-> IF pc[t] \in {"chained", "queued"} /\ waited[t] < MaxQueueWait
                                THEN waited[t] + 1 ELSE waited[t]]
  /\ waited' # waited
  /\ UNCHANGED <<chains, slots, pending, pc, session, previous, drainer>>

Step(t) ==
  \/ EnterExpired(t) \/ EnterRunning(t) \/ EnterQueue(t)
  \/ Timeout(t) \/ Finish(t) \/ Settle(t)

Next ==
  \/ \E t \in Turns :
       \/ Refuse(t)
       \/ \E s \in Sessions : Admit(t, s)
       \/ Step(t)
  \/ DrainBegins \/ DrainEnds
  \/ Tick

(* Promise callbacks and timers run, and every task ends: the agentic loop *)
(* bounds its iterations and its requests time out.                        *)
Fairness == WF_vars(Tick) /\ WF_vars(DrainEnds) /\ \A t \in Turns : WF_vars(Step(t))

Spec == Init /\ [][Next]_vars
FairSpec == Spec /\ Fairness

-----------------------------------------------------------------------------
TypeOK ==
  /\ chains \in [Sessions -> Turns \cup {NoTurn}]
  /\ slotWaiters \in Seq(Turns)
  /\ cancelled \subseteq Turns
  /\ active \in Nat
  /\ pending \in Nat
  /\ pc \in [Turns -> Stages]
  /\ session \in [Turns -> Sessions \cup {NoSession}]
  /\ previous \in [Turns -> Turns \cup {NoTurn}]
  /\ waited \in [Turns -> 0 .. MaxQueueWait]
  /\ draining \in {"idle", "waiting", "done"}
  /\ awaited \subseteq Turns
  /\ owed \subseteq Turns

(* "It serializes conversation state by session": no two turns of a        *)
(* session are at work, in their task or waiting for a slot, at the same   *)
(* time, and the one at work is the oldest.  The chain entry of a session  *)
(* must survive the end of every turn but the last.                        *)
OneTurnPerSession ==
  \A t \in At({"queued", "running"}), u \in Live :
    (t # u /\ session[t] = session[u]) => t < u /\ pc[u] = "chained"

(* The two counters that bound the coordinator count what they stand for:  *)
(* no timeout, expiry or handover of a slot loses or invents one.          *)
CountersExact == active = Cardinality(Running) /\ pending = Cardinality(Live)

(* No lost wakeup: nobody waits for a slot while one is free, however many *)
(* cancelled waiters are in the queue.                                     *)
NoIdleSlot == At({"queued"}) # {} => active = MaxConcurrent

(* When drain() ends, every turn that was in the coordinator when it began *)
(* is over, although it waits only for the last turn of each session.      *)
DrainCoversAll == [][DrainEnds => \A t \in owed : pc[t] = "done"]_vars

(* Every admitted turn is settled, run or dropped.                         *)
EveryTurnSettles == \A t \in Turns : pc[t] = "chained" ~> pc[t] = "done"

(* The coordinator implements the abstract gate.                           *)
GateStage(t) ==
  CASE pc[t] \in {"chained", "queued"} -> "waiting"
    [] pc[t] = "settling" -> "leaving"
    [] OTHER -> pc[t]
Gated == [t \in Turns |-> GateStage(t)]

Gate == INSTANCE TurnGate WITH stage <- Gated
ImplementsGate == Gate!Spec
=============================================================================
