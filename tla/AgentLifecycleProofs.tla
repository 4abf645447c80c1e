------------------------ MODULE AgentLifecycleProofs ------------------------
(***************************************************************************)
(* Theorems about AgentLifecycle for any number of callers, provided that  *)
(* no two stop() calls ever wait for the same start.                       *)
(***************************************************************************)
EXTENDS AgentLifecycle, TLAPS

LEMMA NoCallIsNone == NoCall \notin Calls
  BY LifecycleAssumption

(* The inductive invariant is a disjunction: in each state of the machine  *)
(* at most one call runs a callback, and everybody else is idle or waits   *)
(* for exactly that call.                                                  *)
Stopped ==
  /\ state = "stopped" /\ (agent = "down" \/ remains)
  /\ startPromise = NoCall /\ stopPromise = NoCall
  /\ \A c \in Calls : pc[c] = "idle"

Starting ==
  /\ state = "starting"
  /\ startPromise \in Calls /\ stopPromise = NoCall
  /\ pc[startPromise] \in {"startFn", "cleanup"}
  /\ \A c \in Calls \ {startPromise} :
       \/ pc[c] = "idle"
       \/ pc[c] \in {"joinStart", "awaitStart"} /\ on[c] = startPromise
  /\ \A c, d \in At({"awaitStart"}) : c = d

Running ==
  /\ state = "running" /\ agent = "up"
  /\ startPromise = NoCall /\ stopPromise = NoCall
  /\ \A c \in Calls : pc[c] \in {"idle", "resume"}
  /\ \A c, d \in At({"resume"}) : c = d

Stopping ==
  /\ state = "stopping"
  /\ startPromise = NoCall /\ stopPromise \in Calls
  /\ pc[stopPromise] = "stopFn"
  /\ \A c \in Calls \ {stopPromise} :
       \/ pc[c] = "idle"
       \/ pc[c] = "joinStop" /\ on[c] = stopPromise

Phases == Stopped \/ Starting \/ Running \/ Stopping

-----------------------------------------------------------------------------
(* Every variable keeps its type.                                          *)
THEOREM LifecycleTypeCorrect == Spec => []TypeOK
<1>1. Init => TypeOK
  BY DEF Init, TypeOK, Doing
<1>2. TypeOK /\ [Next]_vars => TypeOK'
  <2> SUFFICES ASSUME TypeOK, [Next]_vars PROVE TypeOK'
    OBVIOUS
  <2> USE DEF TypeOK, Doing
  <2>1. ASSUME NEW c \in Calls, CallStep(c) PROVE TypeOK'
    BY <2>1 DEF CallStep, BeginStart, JoinStart, Stop, JoinStop, StopWaits, Wait, BeginStop
  <2>2. ASSUME NEW c \in Calls, NEW next \in {"idle", "resume"}, Settle(c, next)
        PROVE  /\ pc' \in [Calls -> Doing]
               /\ on' \in [Calls -> Calls \cup {NoCall}]
    BY <2>2 DEF Settle, SettleFor
  <2>3. ASSUME NEW c \in Calls, Progress(c) PROVE TypeOK'
    BY <2>2, <2>3 DEF Progress, StartSucceeds, EndStart, StartFails, CleanupEnds, CleanupBreaks,
                      EndCleanup, Resume, BeginStop, StopEnds, StopBreaks, EndStop, TakenDown
  <2>4. CASE UNCHANGED vars
    BY <2>4 DEF vars
  <2> QED BY <2>1, <2>3, <2>4 DEF Next
<1> QED BY <1>1, <1>2, PTL DEF Spec

LEMMA NothingHidden ==
  ASSUME NEW r \in BOOLEAN, TakenDown(r)
  PROVE  agent' = "down" \/ remains'
<1>1. CASE r = TRUE
  BY <1>1, Zenon DEF TakenDown
<1>2. CASE r = FALSE
  BY <1>2, Zenon DEF TakenDown
<1> QED BY <1>1, <1>2

LEMMA PhaseStep ==
  ASSUME ~ManyStops, TypeOK, Phases, [Next]_vars
  PROVE  Phases'
<1> USE NoCallIsNone DEF TypeOK
<1>1. ASSUME NEW c \in Calls, BeginStart(c) PROVE Phases'
  <2>1. Stopped
    BY <1>1 DEF BeginStart, Phases, Starting, Running, Stopping
  <2>2. Starting'
    BY <1>1, <2>1 DEF BeginStart, Stopped, Starting, At
  <2> QED BY <2>2 DEF Phases
<1>2. ASSUME NEW c \in Calls, JoinStart(c) \/ StopWaits(c) PROVE Phases'
  <2>1. Starting
    BY <1>2 DEF JoinStart, StopWaits, Phases, Stopped, Running, Stopping
  <2>2. Starting'
    BY <1>2, <2>1 DEF JoinStart, StopWaits, Wait, Starting, At
  <2> QED BY <2>2 DEF Phases
<1>3. ASSUME NEW c \in Calls, StartSucceeds(c) PROVE Phases'
  <2>1. Starting /\ c = startPromise
    BY <1>3 DEF StartSucceeds, EndStart, Phases, Stopped, Starting, Running, Stopping
  <2>2. \A d \in Calls : pc'[d] = IF pc[d] = "awaitStart" THEN "resume" ELSE "idle"
    BY <1>3, <2>1 DEF StartSucceeds, EndStart, Settle, SettleFor, Starting
  <2>3. Running'
    BY <1>3, <2>1, <2>2 DEF StartSucceeds, EndStart, Running, Starting, At
  <2> QED BY <2>3 DEF Phases
<1>4. ASSUME NEW c \in Calls, StartFails(c) PROVE Phases'
  <2>1. Starting /\ c = startPromise
    BY <1>4 DEF StartFails, Phases, Stopped, Starting, Running, Stopping
  <2>2. Starting'
    BY <1>4, <2>1 DEF StartFails, Starting, At
  <2> QED BY <2>2 DEF Phases
<1>5. ASSUME NEW c \in Calls, CleanupEnds(c) \/ CleanupBreaks(c) PROVE Phases'
  <2>1. EndCleanup(c, "stopped") /\ (agent' = "down" \/ remains')
    BY <1>5, NothingHidden, Zenon DEF CleanupEnds, CleanupBreaks
  <2>2. Starting /\ c = startPromise
    BY <2>1 DEF EndCleanup, Phases, Stopped, Starting, Running, Stopping
  <2>3. \A d \in Calls : pc'[d] = "idle"
    BY <2>1, <2>2 DEF EndCleanup, Settle, SettleFor, Starting
  <2>4. Stopped'
    BY <2>1, <2>2, <2>3 DEF EndCleanup, Stopped, Starting
  <2> QED BY <2>4 DEF Phases
<1>6. ASSUME NEW c \in Calls, Stop(c) \/ Resume(c) PROVE Phases'
  <2>1. Running /\ \A d \in Calls \ {c} : pc[d] = "idle"
    BY <1>6 DEF Stop, Resume, Quiet, At, Phases, Stopped, Starting, Running, Stopping
  <2>2. Stopping'
    BY <1>6, <2>1 DEF Stop, Resume, BeginStop, Running, Stopping
  <2> QED BY <2>2 DEF Phases
<1>7. ASSUME NEW c \in Calls, JoinStop(c) PROVE Phases'
  <2>1. Stopping
    BY <1>7 DEF JoinStop, Phases, Stopped, Starting, Running
  <2>2. Stopping'
    BY <1>7, <2>1 DEF JoinStop, Wait, Stopping
  <2> QED BY <2>2 DEF Phases
<1>8. ASSUME NEW c \in Calls, StopEnds(c) \/ StopBreaks(c) PROVE Phases'
  <2>1. EndStop(c) /\ (agent' = "down" \/ remains')
    BY <1>8, NothingHidden, Zenon DEF StopEnds, StopBreaks
  <2>2. Stopping /\ c = stopPromise
    BY <2>1 DEF EndStop, Phases, Stopped, Starting, Running, Stopping
  <2>3. \A d \in Calls : pc'[d] = "idle"
    BY <2>1, <2>2 DEF EndStop, Settle, SettleFor, Stopping
  <2>4. Stopped'
    BY <2>1, <2>2, <2>3 DEF EndStop, Stopped, Stopping
  <2> QED BY <2>4 DEF Phases
<1>9. CASE UNCHANGED vars
  BY <1>9 DEF vars, Phases, Stopped, Starting, Running, Stopping, At
<1> QED BY <1>1, <1>2, <1>3, <1>4, <1>5, <1>6, <1>7, <1>8, <1>9 DEF Next, CallStep, Progress

(* The lifecycle is always in one of the four phases.                      *)
THEOREM PhasesHold ==
  ASSUME ~ManyStops
  PROVE  Spec => []Phases
<1>1. Init => Phases
  BY DEF Init, Phases, Stopped
<1>2. TypeOK /\ Phases /\ [Next]_vars => Phases'
  BY PhaseStep
<1> QED BY <1>1, <1>2, LifecycleTypeCorrect, PTL DEF Spec

(* At most one start, cleanup or stop callback is under way at any time.   *)
THEOREM CallbacksExclusive ==
  ASSUME ~ManyStops
  PROVE  Spec => []OneCallback
<1>1. Phases => OneCallback
  BY DEF Phases, Stopped, Starting, Running, Stopping, OneCallback, InCallback, At
<1> QED BY <1>1, PhasesHold, PTL

(* The reported state agrees with what the callbacks left behind: a        *)
(* stopped agent is down, or a stop callback failed on what remains.       *)
THEOREM StateIsTruthful ==
  ASSUME ~ManyStops
  PROVE  Spec => []StateTruthful
<1>1. Phases => StateTruthful
  BY NoCallIsNone DEF Phases, Stopped, Starting, Running, Stopping, StateTruthful
<1> QED BY <1>1, PhasesHold, PTL

(* A stop() call returns only when no callback runs and the agent is down, *)
(* but for what a stop callback failed on.                                 *)
THEOREM StopsReturnWhenDown ==
  ASSUME ~ManyStops
  PROVE  Spec => StopReturnsWhenDown
<1>1. TypeOK /\ Phases /\ Phases' /\ [Next]_vars
        => [\A c \in At({"stopFn", "joinStop", "awaitStart", "resume"}) :
              pc'[c] = "idle" => (agent' = "down" \/ remains') /\ InCallback' = {}]_vars
  <2> USE NoCallIsNone DEF TypeOK
  <2> SUFFICES ASSUME TypeOK, Phases, Phases', [Next]_vars, NEW d \in Calls, pc[d] \in {"stopFn", "joinStop", "awaitStart", "resume"},
                      pc'[d] = "idle"
               PROVE  Stopped'
    BY DEF At, Stopped, InCallback
  <2>1. ASSUME NEW c \in Calls, CallStep(c) PROVE pc'[d] = pc[d] \/ pc[d] = "idle"
    BY <2>1 DEF CallStep, BeginStart, JoinStart, Stop, JoinStop, StopWaits, Wait, BeginStop
  <2>2. ASSUME NEW c \in Calls, StartSucceeds(c) PROVE FALSE
    <3>1. Starting /\ c = startPromise
      BY <2>2 DEF StartSucceeds, EndStart, Phases, Stopped, Starting, Running, Stopping
    <3>2. pc[d] = "awaitStart" /\ on[d] = c /\ d # c
      BY <2>2, <3>1 DEF Starting, StartSucceeds, EndStart
    <3> QED BY <2>2, <3>2 DEF StartSucceeds, EndStart, Settle, SettleFor
  <2>3. ASSUME NEW c \in Calls, StartFails(c) \/ Resume(c) PROVE FALSE
    BY <2>3 DEF StartFails, Resume, BeginStop
  <2>4. ASSUME NEW c \in Calls,
               CleanupEnds(c) \/ CleanupBreaks(c) \/ StopEnds(c) \/ StopBreaks(c)
        PROVE  Stopped'
    BY <2>4 DEF CleanupEnds, CleanupBreaks, EndCleanup, StopEnds, StopBreaks, EndStop,
                Phases, Starting, Running, Stopping
  <2>5. CASE UNCHANGED vars
    BY <2>5 DEF vars
  <2> QED BY <2>1, <2>2, <2>3, <2>4, <2>5 DEF Next, Progress
<1> QED BY <1>1, PhasesHold, LifecycleTypeCorrect, PTL DEF Spec, StopReturnsWhenDown
=============================================================================
