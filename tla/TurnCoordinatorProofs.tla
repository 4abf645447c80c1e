------------------------ MODULE TurnCoordinatorProofs ------------------------
(***************************************************************************)
(* Theorems about TurnCoordinator for any number of calls, sessions and    *)
(* slots, any limits and any patience.                                     *)
(***************************************************************************)
EXTENDS TurnCoordinator, FiniteSetTheorems, SequenceTheorems, TLAPS

LEMMA Limits ==
  /\ NoSession \notin Sessions
  /\ MaxTurns \in Nat
  /\ MaxConcurrent \in Nat \ {0}
  /\ MaxPending \in Nat
  /\ MaxQueueWait \in Nat
  BY CoordinatorAssumption

LEMMA TurnNumbers == \A t \in Turns : t \in Nat /\ t # NoTurn
  BY Limits DEF Turns, NoTurn

(* Types of the variables, for a start without the claim that the counters *)
(* never fall below zero.                                                  *)
Types ==
  /\ chains \in [Sessions -> Turns \cup {NoTurn}]
  /\ slotWaiters \in Seq(Turns)
  /\ cancelled \subseteq Turns
  /\ active \in Int
  /\ pending \in Int
  /\ pc \in [Turns -> Stages]
  /\ session \in [Turns -> Sessions \cup {NoSession}]
  /\ previous \in [Turns -> Turns \cup {NoTurn}]
  /\ waited \in [Turns -> 0 .. MaxQueueWait]
  /\ draining \in {"idle", "waiting", "done"}
  /\ awaited \subseteq Turns
  /\ owed \subseteq Turns

-----------------------------------------------------------------------------
(* releaseSlot takes the first eligible waiter.                            *)
LEMMA FirstEligible ==
  ASSUME slotWaiters \in Seq(Turns), Eligible # {}
  PROVE  /\ NextEligible \in Eligible
         /\ NextEligible \in 1 .. Len(slotWaiters)
         /\ \A j \in Eligible : NextEligible <= j
<1>1. Eligible \subseteq Nat
  BY DEF Eligible
<1>2. \E i \in Eligible : \A j \in Eligible : ~(<<j, i>> \in OpToRel(<, Nat))
  BY <1>1, NatLessThanWellFounded, WFMin
<1>3. \A i, j \in Nat : j < i => <<j, i>> \in OpToRel(<, Nat)
  BY DEF OpToRel
<1>4. PICK i \in Eligible : \A j \in Eligible : i <= j
  <2>1. PICK i \in Eligible : \A j \in Eligible : ~(<<j, i>> \in OpToRel(<, Nat))
    BY <1>2
  <2>2. \A j \in Eligible : ~(j < i)
    BY <1>1, <1>3, <2>1
  <2> QED BY <1>1, <2>2
<1>5. NextEligible = CHOOSE k \in Eligible : \A j \in Eligible : k <= j
  BY DEF NextEligible
<1>6. NextEligible \in Eligible /\ \A j \in Eligible : NextEligible <= j
  BY <1>4, <1>5
<1> QED BY <1>6 DEF Eligible

LEMMA NobodyEligible == Eligible = {} => NextEligible = 0
  BY DEF NextEligible

(* The queue behind its i-th place.                                        *)
LEMMA Behind ==
  ASSUME NEW q \in Seq(Turns), NEW i \in 1 .. Len(q), NEW rest, rest = SubSeq(q, i + 1, Len(q))
  PROVE  /\ rest \in Seq(Turns)
         /\ Len(rest) = Len(q) - i
         /\ \A j \in 1 .. Len(rest) : i + j \in 1 .. Len(q) /\ rest[j] = q[i + j]
<1>1. \A j \in i + 1 .. Len(q) : q[j] \in Turns
  OBVIOUS
<1>2. /\ rest \in Seq(Turns)
      /\ Len(rest) = IF i + 1 <= Len(q) THEN Len(q) - (i + 1) + 1 ELSE 0
      /\ \A j \in 1 .. Len(q) - (i + 1) + 1 : rest[j] = q[i + 1 + j - 1]
  BY <1>1, SubSeqProperties
<1> QED BY <1>2

(* What Finish does, by whether somebody waits.                            *)
FreeSlot(t) ==
  /\ pc[t] = "running"
  /\ active' = active - 1
  /\ slotWaiters' = <<>>
  /\ pc' = [pc EXCEPT ![t] = "settling"]
  /\ waited' = waited

PassSlot(t, i) ==
  /\ pc[t] = "running"
  /\ i \in Eligible
  /\ i \in 1 .. Len(slotWaiters)
  /\ \A j \in Eligible : i <= j
  /\ active' = (active - 1) + 1
  /\ slotWaiters' = SubSeq(slotWaiters, i + 1, Len(slotWaiters))
  /\ pc' = [pc EXCEPT ![t] = "settling", ![slotWaiters[i]] = "running"]
  /\ waited' = [waited EXCEPT ![slotWaiters[i]] = 0]

LEMMA FinishCases ==
  ASSUME slotWaiters \in Seq(Turns), NEW t \in Turns, Finish(t)
  PROVE  /\ \/ Eligible = {} /\ FreeSlot(t)
            \/ PassSlot(t, NextEligible)
         /\ cancelled' \subseteq cancelled
         /\ \A u \in cancelled, j \in DOMAIN slotWaiters' :
              slotWaiters'[j] = u => u \in cancelled'
         /\ UNCHANGED <<chains, pending, session, previous, draining, awaited, owed>>
<1>1. CASE Eligible = {}
  BY <1>1, NobodyEligible DEF Finish, FreeSlot, drainer
<1>2. CASE Eligible # {}
  <2>1. /\ NextEligible \in Eligible
        /\ NextEligible \in 1 .. Len(slotWaiters)
        /\ \A j \in Eligible : NextEligible <= j
    BY <1>2, FirstEligible
  <2>2. NextEligible # 0
    BY <2>1
  <2> QED BY <2>1, <2>2 DEF Finish, PassSlot, drainer
<1> QED BY <1>1, <1>2

-----------------------------------------------------------------------------
LEMMA TypesStep == Types /\ [Next]_vars => Types'
<1> SUFFICES ASSUME Types, [Next]_vars PROVE Types'
  OBVIOUS
<1> USE Limits DEF Types, Stages, slots, turn, drainer
<1>1. ASSUME NEW t \in Turns, Refuse(t) PROVE Types'
  BY <1>1 DEF Refuse
<1>2. ASSUME NEW t \in Turns, NEW s \in Sessions, Admit(t, s) PROVE Types'
  BY <1>2 DEF Admit, AdmitBehind
<1>3. ASSUME NEW t \in Turns, NEW stage \in Stages, NEW age \in 0 .. MaxQueueWait, Enter(t, stage, age)
      PROVE  /\ pc' \in [Turns -> Stages]
             /\ previous' \in [Turns -> Turns \cup {NoTurn}]
             /\ waited' \in [Turns -> 0 .. MaxQueueWait]
             /\ UNCHANGED <<chains, cancelled, session, draining, awaited, owed>>
  BY <1>3 DEF Enter
<1>3a. ASSUME NEW t \in Turns, EnterExpired(t) \/ EnterRunning(t) PROVE Types'
  <2>1. PICK stage \in Stages : Enter(t, stage, 0)
    BY <1>3a DEF EnterExpired, EnterRunning, TakeSlot
  <2>2. 0 \in 0 .. MaxQueueWait
    OBVIOUS
  <2>3. active' \in Int /\ pending' \in Int /\ UNCHANGED slotWaiters
    BY <1>3a DEF EnterExpired, EnterRunning, TakeSlot
  <2> QED BY <1>3, <2>1, <2>2, <2>3
<1>4. ASSUME NEW t \in Turns, EnterQueue(t) PROVE Types'
  <2>1. Enter(t, "queued", waited[t]) /\ UNCHANGED <<active, pending>>
    BY <1>4 DEF EnterQueue
  <2>2. slotWaiters' \in Seq(Turns)
    BY <1>4, AppendProperties DEF EnterQueue
  <2> QED BY <1>3, <2>1, <2>2
<1>5. ASSUME NEW t \in Turns, Timeout(t) PROVE Types'
  BY <1>5 DEF Timeout
<1>6. ASSUME NEW t \in Turns, Finish(t) PROVE Types'
  <2>1. CASE FreeSlot(t)
    BY <1>6, <2>1, FinishCases DEF FreeSlot
  <2>2. CASE PassSlot(t, NextEligible)
    <3> DEFINE i == NextEligible
    <3>1. i \in 1 .. Len(slotWaiters) /\ slotWaiters[i] \in Turns
      BY <2>2 DEF PassSlot
    <3>2. slotWaiters' \in Seq(Turns)
      BY <2>2, <3>1, Behind DEF PassSlot
    <3> HIDE DEF i
    <3>3. pc' \in [Turns -> Stages]
      BY <2>2, <3>1 DEF PassSlot, i
    <3>4. waited' \in [Turns -> 0 .. MaxQueueWait]
      BY <2>2, <3>1 DEF PassSlot, i
    <3>5. active' \in Int
      BY <2>2 DEF PassSlot
    <3> QED BY <1>6, <3>2, <3>3, <3>4, <3>5, FinishCases
  <2> QED BY <1>6, <2>1, <2>2, FinishCases
<1>7. ASSUME NEW t \in Turns, Settle(t) PROVE Types'
  <2>1. CASE chains' = chains
    BY <1>7, <2>1 DEF Settle
  <2>2. CASE chains' = [chains EXCEPT ![session[t]] = NoTurn]
    <3>1. chains' \in [Sessions -> Turns \cup {NoTurn}]
      BY <2>2
    <3> QED BY <1>7, <3>1 DEF Settle
  <2> QED BY <1>7, <2>1, <2>2 DEF Settle, Unchain
<1>8. CASE DrainBegins
  BY <1>8 DEF DrainBegins, Live, At
<1>9. CASE DrainEnds
  BY <1>9 DEF DrainEnds
<1>10. CASE Tick
  BY <1>10 DEF Tick
<1>11. CASE UNCHANGED vars
  BY <1>11 DEF vars
<1> QED BY <1>1, <1>2, <1>3a, <1>4, <1>5, <1>6, <1>7, <1>8, <1>9, <1>10, <1>11 DEF Next, Step

LEMMA TypesInit == Init => Types
  BY Limits, EmptySeq DEF Init, Types, Stages

-----------------------------------------------------------------------------
(* The queue: every queued turn is in it exactly once, every waiter that   *)
(* is not queued any more is marked, and nobody waits for a free slot.     *)
Waiters ==
  /\ \A i \in 1 .. Len(slotWaiters) :
       slotWaiters[i] \notin cancelled => pc[slotWaiters[i]] = "queued"
  /\ \A t \in cancelled : pc[t] \in {"settling", "done"}
  /\ \A i, j \in 1 .. Len(slotWaiters) : slotWaiters[i] = slotWaiters[j] => i = j

EveryoneQueued ==
  \A t \in Turns : pc[t] = "queued" =>
    t \notin cancelled /\ \E i \in 1 .. Len(slotWaiters) : slotWaiters[i] = t

NobodyWaitsForAFreeSlot ==
  /\ active <= MaxConcurrent
  /\ \A t \in Turns : pc[t] = "queued" => active = MaxConcurrent

Queue == Waiters /\ EveryoneQueued /\ NobodyWaitsForAFreeSlot

LEMMA QueueStep == Types /\ Queue /\ [Next]_vars => Queue'
<1> SUFFICES ASSUME Types, Queue, [Next]_vars PROVE Queue'
  OBVIOUS
<1> USE Limits DEF slots, turn, drainer
<1>0. /\ slotWaiters \in Seq(Turns)
      /\ cancelled \subseteq Turns
      /\ active \in Int
      /\ pc \in [Turns -> Stages]
      /\ Waiters /\ EveryoneQueued /\ NobodyWaitsForAFreeSlot
      /\ \A i \in 1 .. Len(slotWaiters) : slotWaiters[i] \in Turns
  BY DEF Types, Queue
(* Steps of a turn that is not queued before or after.                     *)
<1>1. ASSUME UNCHANGED slots, NEW t \in Turns, pc[t] \notin {"queued"}, NEW to \in Stages,
             pc' = [pc EXCEPT ![t] = to], to # "queued",
             pc[t] \in {"settling", "done"} => to \in {"settling", "done"}
      PROVE  Queue'
  <2>1. \A u \in Turns : pc'[u] = "queued" <=> pc[u] = "queued"
    BY <1>0, <1>1
  <2>2. Waiters'
    BY <1>0, <1>1 DEF Waiters
  <2>3. EveryoneQueued'
    BY <1>0, <1>1, <2>1 DEF EveryoneQueued
  <2>4. NobodyWaitsForAFreeSlot'
    BY <1>0, <1>1, <2>1 DEF NobodyWaitsForAFreeSlot
  <2> QED BY <2>2, <2>3, <2>4 DEF Queue
<1>2. ASSUME NEW t \in Turns, Refuse(t) PROVE Queue'
  BY <1>1, <1>2 DEF Refuse, Called, Stages
<1>3. ASSUME NEW t \in Turns, NEW s \in Sessions, Admit(t, s) PROVE Queue'
  BY <1>1, <1>3 DEF Admit, AdmitBehind, Called, Stages
<1>4. ASSUME NEW t \in Turns, EnterExpired(t) PROVE Queue'
  BY <1>1, <1>4 DEF EnterExpired, Enter, Stages
<1>5. ASSUME NEW t \in Turns, EnterRunning(t) PROVE Queue'
  <2>1. /\ UNCHANGED <<slotWaiters, cancelled>>
        /\ pc[t] = "chained" /\ pc' = [pc EXCEPT ![t] = "running"]
        /\ active < MaxConcurrent /\ active' = active + 1
    BY <1>5 DEF EnterRunning, TakeSlot, Enter
  <2>2. \A u \in Turns : pc[u] # "queued" /\ pc'[u] # "queued"
    BY <1>0, <2>1 DEF NobodyWaitsForAFreeSlot
  <2>3. Waiters'
    BY <1>0, <2>1 DEF Waiters
  <2>4. EveryoneQueued'
    BY <2>2 DEF EveryoneQueued
  <2>5. NobodyWaitsForAFreeSlot'
    BY <1>0, <2>1, <2>2 DEF NobodyWaitsForAFreeSlot
  <2> QED BY <2>3, <2>4, <2>5 DEF Queue
<1>6. ASSUME NEW t \in Turns, EnterQueue(t) PROVE Queue'
  <2>1. /\ slotWaiters' = Append(slotWaiters, t)
        /\ UNCHANGED <<cancelled, active>>
        /\ pc[t] = "chained" /\ pc' = [pc EXCEPT ![t] = "queued"]
        /\ active >= MaxConcurrent
    BY <1>6 DEF EnterQueue, Enter
  <2>2. /\ Len(slotWaiters') = Len(slotWaiters) + 1
        /\ \A i \in 1 .. Len(slotWaiters) : slotWaiters'[i] = slotWaiters[i]
        /\ slotWaiters'[Len(slotWaiters) + 1] = t
        /\ Len(slotWaiters) \in Nat
    BY <1>0, <2>1, AppendProperties
  <2>3. t \notin cancelled /\ \A i \in 1 .. Len(slotWaiters) : slotWaiters[i] # t
    <3>1. \A i \in 1 .. Len(slotWaiters) : slotWaiters[i] # t
      BY <1>0, <2>1 DEF Waiters
    <3>2. t \notin cancelled
      BY <1>0, <2>1 DEF Waiters
    <3> QED BY <3>1, <3>2
  <2>4. Waiters'
    BY <1>0, <2>1, <2>2, <2>3 DEF Waiters
  <2>5. EveryoneQueued'
    <3> SUFFICES ASSUME NEW u \in Turns, pc'[u] = "queued"
                 PROVE  u \notin cancelled' /\ \E i \in 1 .. Len(slotWaiters') : slotWaiters'[i] = u
      BY DEF EveryoneQueued
    <3>1. CASE u = t
      BY <2>1, <2>2, <2>3, <3>1
    <3>2. CASE u # t
      BY <1>0, <2>1, <2>2, <3>2 DEF EveryoneQueued
    <3> QED BY <3>1, <3>2
  <2>6. NobodyWaitsForAFreeSlot'
    BY <1>0, <2>1 DEF NobodyWaitsForAFreeSlot
  <2> QED BY <2>4, <2>5, <2>6 DEF Queue
<1>7. ASSUME NEW t \in Turns, Timeout(t) PROVE Queue'
  <2>1. /\ cancelled' = cancelled \cup {t}
        /\ UNCHANGED <<slotWaiters, active>>
        /\ pc[t] = "queued" /\ pc' = [pc EXCEPT ![t] = "settling"]
    BY <1>7 DEF Timeout
  <2>2. Waiters'
    BY <1>0, <2>1 DEF Waiters
  <2>3. EveryoneQueued'
    BY <1>0, <2>1 DEF EveryoneQueued
  <2>4. NobodyWaitsForAFreeSlot'
    BY <1>0, <2>1 DEF NobodyWaitsForAFreeSlot
  <2> QED BY <2>2, <2>3, <2>4 DEF Queue
<1>8. ASSUME NEW t \in Turns, Finish(t) PROVE Queue'
  <2>1. /\ cancelled' \subseteq cancelled
        /\ \A u \in cancelled, j \in 1 .. Len(slotWaiters') :
             slotWaiters' \in Seq(Turns) /\ slotWaiters'[j] = u => u \in cancelled'
    BY <1>0, <1>8, FinishCases
  <2>2. CASE Eligible = {} /\ FreeSlot(t)
    <3>1. /\ active' = active - 1 /\ slotWaiters' = <<>>
          /\ pc[t] = "running" /\ pc' = [pc EXCEPT ![t] = "settling"]
      BY <2>2 DEF FreeSlot
    <3>2. \A u \in Turns : pc[u] # "queued"
      BY <1>0, <2>2 DEF Eligible, EveryoneQueued
    <3>3. \A u \in Turns : pc'[u] # "queued"
      BY <1>0, <3>1, <3>2
    <3>4. Waiters' /\ EveryoneQueued'
      <4>1. Len(slotWaiters') = 0
        BY <3>1
      <4>2. \A u \in cancelled' : pc'[u] \in {"settling", "done"}
        BY <1>0, <2>1, <3>1 DEF Waiters
      <4>3. 1 .. Len(slotWaiters') = {}
        BY <4>1
      <4> QED BY <3>3, <4>2, <4>3 DEF Waiters, EveryoneQueued
    <3>5. NobodyWaitsForAFreeSlot'
      BY <1>0, <3>1, <3>3 DEF NobodyWaitsForAFreeSlot
    <3> QED BY <3>4, <3>5 DEF Queue
  <2>3. CASE PassSlot(t, NextEligible)
    <3> DEFINE i == NextEligible
               w == slotWaiters[i]
    <3>1. /\ i \in 1 .. Len(slotWaiters) /\ w \in Turns /\ w \notin cancelled
          /\ pc[w] = "queued" /\ w # t
          /\ \A j \in 1 .. Len(slotWaiters) : slotWaiters[j] \notin cancelled => i <= j
      BY <1>0, <2>3 DEF PassSlot, Eligible, Waiters
    <3>2. /\ pc[t] = "running" /\ active' = active
          /\ slotWaiters' = SubSeq(slotWaiters, i + 1, Len(slotWaiters))
          /\ pc' = [pc EXCEPT ![t] = "settling", ![w] = "running"]
      BY <1>0, <2>3 DEF PassSlot
    <3> HIDE DEF i
    <3>3. /\ slotWaiters' \in Seq(Turns)
          /\ Len(slotWaiters') = Len(slotWaiters) - i
          /\ \A j \in 1 .. Len(slotWaiters') :
               i + j \in 1 .. Len(slotWaiters) /\ slotWaiters'[j] = slotWaiters[i + j]
      BY <1>0, <3>1, <3>2, Behind
    <3>4. \A j \in 1 .. Len(slotWaiters') : slotWaiters'[j] # w /\ slotWaiters'[j] # t
      <4>1. \A j \in 1 .. Len(slotWaiters) : slotWaiters[j] # t
        BY <1>0, <3>2 DEF Waiters
      <4>2. \A j \in 1 .. Len(slotWaiters') : i + j # i
        BY <3>1
      <4> SUFFICES ASSUME NEW j \in 1 .. Len(slotWaiters'), slotWaiters'[j] = w PROVE FALSE
        BY <3>3, <4>1
      <4>3. slotWaiters[i + j] = slotWaiters[i] /\ i + j \in 1 .. Len(slotWaiters)
        BY <3>3
      <4>4. i + j = i
        BY <1>0, <3>1, <4>3 DEF Waiters
      <4> QED BY <4>2, <4>4
    <3>5. \A j \in 1 .. Len(slotWaiters') :
            pc'[slotWaiters'[j]] = pc[slotWaiters'[j]]
      BY <1>0, <3>2, <3>3, <3>4
    <3>6. Waiters'
      <4>1. \A j \in 1 .. Len(slotWaiters') :
              slotWaiters'[j] \in cancelled' <=> slotWaiters'[j] \in cancelled
        BY <2>1, <3>3
      <4>2. \A j, k \in 1 .. Len(slotWaiters') : slotWaiters'[j] = slotWaiters'[k] => j = k
        <5> SUFFICES ASSUME NEW j \in 1 .. Len(slotWaiters'), NEW k \in 1 .. Len(slotWaiters'),
                            slotWaiters'[j] = slotWaiters'[k]
                     PROVE  j = k
          OBVIOUS
        <5>1. /\ i + j \in 1 .. Len(slotWaiters) /\ i + k \in 1 .. Len(slotWaiters)
              /\ slotWaiters[i + j] = slotWaiters[i + k]
          BY <3>3
        <5>2. \A m, n \in 1 .. Len(slotWaiters) : slotWaiters[m] = slotWaiters[n] => m = n
          BY <1>0 DEF Waiters
        <5>3. i + j = i + k
          BY <5>1, <5>2
        <5> QED BY <3>1, <5>3
      <4>3. \A u \in cancelled' : pc'[u] \in {"settling", "done"}
        BY <1>0, <2>1, <3>1, <3>2 DEF Waiters
      <4>4. \A j \in 1 .. Len(slotWaiters') : slotWaiters'[j] \notin cancelled' => pc'[slotWaiters'[j]] = "queued"
        BY <1>0, <3>3, <3>5, <4>1 DEF Waiters
      <4> QED BY <4>2, <4>3, <4>4 DEF Waiters
    <3>7. EveryoneQueued'
      <4> SUFFICES ASSUME NEW u \in Turns, pc'[u] = "queued"
                   PROVE  u \notin cancelled' /\ \E j \in 1 .. Len(slotWaiters') : slotWaiters'[j] = u
        BY DEF EveryoneQueued
      <4>1. pc[u] = "queued" /\ u # w
        BY <1>0, <3>1, <3>2
      <4>2. PICK k \in 1 .. Len(slotWaiters) : slotWaiters[k] = u
        BY <1>0, <4>1 DEF EveryoneQueued
      <4>3. u \notin cancelled /\ i < k
        BY <1>0, <3>1, <4>1, <4>2 DEF EveryoneQueued
      <4>4. k - i \in 1 .. Len(slotWaiters') /\ i + (k - i) = k
        BY <3>1, <3>3, <4>3
      <4> QED BY <2>1, <3>3, <4>2, <4>3, <4>4
    <3>8. NobodyWaitsForAFreeSlot'
      <4>1. active = MaxConcurrent
        BY <1>0, <3>1 DEF NobodyWaitsForAFreeSlot
      <4> QED BY <3>2, <4>1 DEF NobodyWaitsForAFreeSlot
    <3> QED BY <3>6, <3>7, <3>8 DEF Queue
  <2> QED BY <1>0, <1>8, <2>2, <2>3, FinishCases
<1>9. ASSUME NEW t \in Turns, Settle(t) PROVE Queue'
  BY <1>1, <1>9 DEF Settle, Stages
<1>10. ASSUME UNCHANGED <<slots, pc>> PROVE Queue'
  BY <1>0, <1>10 DEF Queue, Waiters, EveryoneQueued, NobodyWaitsForAFreeSlot
<1>11. CASE DrainBegins \/ DrainEnds \/ Tick \/ UNCHANGED vars
  BY <1>10, <1>11 DEF DrainBegins, DrainEnds, Tick, vars
<1> QED BY <1>2, <1>3, <1>4, <1>5, <1>6, <1>7, <1>8, <1>9, <1>11 DEF Next, Step

-----------------------------------------------------------------------------
(* The counters.                                                           *)
LEMMA TurnsFinite ==
  \A S \in SUBSET Turns : IsFiniteSet(S) /\ Cardinality(S) \in Nat
<1>1. IsFiniteSet(Turns)
  BY Limits, FS_Interval DEF Turns
<1> QED BY <1>1, FS_Subset, FS_CardinalityType

(* A set of turns that gains or loses one of them.                         *)
LEMMA CountAdded ==
  ASSUME NEW S \in SUBSET Turns, NEW t \in Turns, t \notin S
  PROVE  Cardinality(S \cup {t}) = Cardinality(S) + 1
  BY TurnsFinite, FS_AddElement

LEMMA CountRemoved ==
  ASSUME NEW S \in SUBSET Turns, NEW t \in S
  PROVE  Cardinality(S \ {t}) = Cardinality(S) - 1
  BY TurnsFinite, FS_RemoveElement

LEMMA CountersStep == Types /\ Queue /\ CountersExact /\ [Next]_vars => CountersExact'
<1> SUFFICES ASSUME Types, Queue, CountersExact, [Next]_vars PROVE CountersExact'
  OBVIOUS
<1> USE DEF slots, turn, drainer
<1>0. /\ slotWaiters \in Seq(Turns)
      /\ pc \in [Turns -> Stages]
      /\ Running \in SUBSET Turns /\ Live \in SUBSET Turns
      /\ active = Cardinality(Running) /\ pending = Cardinality(Live)
      /\ Cardinality(Running) \in Nat /\ Cardinality(Live) \in Nat
  BY TurnsFinite DEF Types, Running, Live, At, CountersExact
<1>1. ASSUME UNCHANGED <<active, pending>>, Running' = Running, Live' = Live PROVE CountersExact'
  BY <1>0, <1>1 DEF CountersExact
<1>3. ASSUME NEW t \in Turns, Refuse(t) PROVE CountersExact'
  <2>1. pc[t] = "idle" /\ pc' = [pc EXCEPT ![t] = "refused"]
    BY <1>3 DEF Refuse, Called
  <2>2. Running' = Running /\ Live' = Live
    BY <1>0, <2>1 DEF Running, Live, At, Stages
  <2> QED BY <1>1, <1>3, <2>2 DEF Refuse
<1>4. ASSUME NEW t \in Turns, NEW s \in Sessions, Admit(t, s) PROVE CountersExact'
  <2>1. pc[t] = "idle" /\ pc' = [pc EXCEPT ![t] = "chained"]
    BY <1>4 DEF Admit, AdmitBehind, Called
  <2>2. t \notin Live /\ Running' = Running /\ Live' = Live \cup {t}
    BY <1>0, <2>1 DEF Running, Live, At, Stages
  <2>3. Cardinality(Live') = Cardinality(Live) + 1
    BY <1>0, <2>2, CountAdded
  <2> QED BY <1>0, <1>4, <2>2, <2>3 DEF Admit, AdmitBehind, CountersExact
<1>5. ASSUME NEW t \in Turns, EnterExpired(t) \/ EnterQueue(t) \/ Timeout(t) PROVE CountersExact'
  <2>1. /\ pc[t] \in {"chained", "queued"}
        /\ \/ pc' = [pc EXCEPT ![t] = "settling"]
           \/ pc' = [pc EXCEPT ![t] = "queued"]
    BY <1>5 DEF EnterExpired, EnterQueue, Timeout, Enter
  <2>2. Running' = Running /\ Live' = Live
    BY <1>0, <2>1 DEF Running, Live, At, Stages
  <2> QED BY <1>1, <1>5, <2>2 DEF EnterExpired, EnterQueue, Timeout
<1>6. ASSUME NEW t \in Turns, EnterRunning(t) PROVE CountersExact'
  <2>1. /\ pc[t] = "chained" /\ pc' = [pc EXCEPT ![t] = "running"]
        /\ active' = active + 1 /\ pending' = pending
    BY <1>6 DEF EnterRunning, TakeSlot, Enter
  <2>2. t \notin Running
    BY <2>1 DEF Running, At
  <2>3. Running' = Running \cup {t} /\ Live' = Live
    BY <1>0, <2>1 DEF Running, Live, At, Stages
  <2>4. Cardinality(Running') = Cardinality(Running) + 1
    BY <1>0, <2>2, <2>3, CountAdded
  <2> QED BY <1>0, <2>1, <2>3, <2>4 DEF CountersExact
<1>7. ASSUME NEW t \in Turns, Finish(t) PROVE CountersExact'
  <2>0. pending' = pending
    BY <1>0, <1>7, FinishCases
  <2>1. CASE FreeSlot(t)
    <3>0. pc[t] = "running" /\ pc' = [pc EXCEPT ![t] = "settling"]
      BY <2>1 DEF FreeSlot
    <3>1. t \in Running
      BY <3>0 DEF Running, At
    <3>2. Running' = Running \ {t} /\ Live' = Live
      BY <1>0, <3>0 DEF Running, Live, At, Stages
    <3>3. Cardinality(Running') = Cardinality(Running) - 1
      BY <1>0, <3>1, <3>2, CountRemoved
    <3> QED BY <1>0, <2>0, <2>1, <3>2, <3>3 DEF FreeSlot, CountersExact
  <2>2. CASE PassSlot(t, NextEligible)
    <3> DEFINE w == slotWaiters[NextEligible]
    <3>1. w \in Turns /\ pc[w] = "queued" /\ pc[t] = "running" /\ w # t
      BY <1>0, <2>2 DEF PassSlot, Eligible, Queue, Waiters
    <3>2. pc' = [pc EXCEPT ![t] = "settling", ![w] = "running"] /\ active' = active
      BY <1>0, <2>2 DEF PassSlot
    <3> HIDE DEF w
    <3>3. /\ t \in Running /\ w \notin Running \ {t}
          /\ Running' = (Running \ {t}) \cup {w}
          /\ Live' = Live
      BY <1>0, <3>1, <3>2 DEF Running, Live, At, Stages
    <3>4. /\ Running \ {t} \in SUBSET Turns
          /\ Cardinality(Running \ {t}) = Cardinality(Running) - 1
          /\ Cardinality((Running \ {t}) \cup {w}) = Cardinality(Running \ {t}) + 1
      BY <1>0, <3>1, <3>3, CountAdded, CountRemoved
    <3> QED BY <1>0, <2>0, <3>2, <3>3, <3>4 DEF CountersExact
  <2> QED BY <1>0, <1>7, <2>1, <2>2, FinishCases
<1>8. ASSUME NEW t \in Turns, Settle(t) PROVE CountersExact'
  <2>0. pc[t] = "settling" /\ pc' = [pc EXCEPT ![t] = "done"]
    BY <1>8 DEF Settle
  <2>1. t \in Live
    BY <2>0 DEF Live, At
  <2>2. Running' = Running /\ Live' = Live \ {t}
    BY <1>0, <2>0 DEF Running, Live, At, Stages
  <2>3. Cardinality(Live') = Cardinality(Live) - 1
    BY <1>0, <2>1, <2>2, CountRemoved
  <2> QED BY <1>0, <1>8, <2>2, <2>3 DEF Settle, CountersExact
<1>9. ASSUME UNCHANGED <<pc, active, pending>> PROVE CountersExact'
  BY <1>1, <1>9 DEF Running, Live, At
<1>10. CASE DrainBegins \/ DrainEnds \/ Tick \/ UNCHANGED vars
  BY <1>9, <1>10 DEF DrainBegins, DrainEnds, Tick, vars
<1> QED BY <1>3, <1>4, <1>5, <1>6, <1>7, <1>8, <1>10 DEF Next, Step

-----------------------------------------------------------------------------
LEMMA BooksKept == Spec => [](Types /\ Queue /\ CountersExact)
<1>1. ASSUME Init PROVE Queue /\ CountersExact
  <2>1. Running = {} /\ Live = {} /\ \A t \in Turns : pc[t] = "idle"
    BY <1>1 DEF Init, Running, Live, At
  <2>2. CountersExact
    BY <1>1, <2>1, FS_EmptySet DEF Init, CountersExact
  <2>3. Len(slotWaiters) = 0 /\ cancelled = {} /\ active = 0
    BY <1>1 DEF Init
  <2>4. Queue
    BY <2>1, <2>3, Limits DEF Queue, Waiters, EveryoneQueued, NobodyWaitsForAFreeSlot
  <2> QED BY <2>2, <2>4
<1> QED BY <1>1, TypesInit, TypesStep, QueueStep, CountersStep, PTL DEF Spec

(* Every variable keeps its type; in particular no counter falls below     *)
(* zero.                                                                   *)
THEOREM CoordinatorTypeCorrect == Spec => []TypeOK
<1>1. Types /\ CountersExact => TypeOK
  <2> SUFFICES ASSUME Types, CountersExact PROVE TypeOK
    OBVIOUS
  <2>1. Running \in SUBSET Turns /\ Live \in SUBSET Turns
    BY DEF Running, Live, At
  <2>2. active \in Nat /\ pending \in Nat
    BY <2>1, TurnsFinite DEF CountersExact
  <2> QED BY <2>2 DEF Types, TypeOK
<1> QED BY <1>1, BooksKept, PTL

(* The counters count running and admitted turns.                          *)
THEOREM CountersAlwaysExact == Spec => []CountersExact
  BY BooksKept, PTL

(* Nobody waits for a slot while one is free.                              *)
THEOREM NoSlotIdles == Spec => []NoIdleSlot
<1>1. Queue => NoIdleSlot
  BY DEF Queue, NobodyWaitsForAFreeSlot, NoIdleSlot, At
<1> QED BY <1>1, BooksKept, PTL
-----------------------------------------------------------------------------
(* The chains.  Calls are made in the order of their numbers; the live     *)
(* turns of a session are linked, each behind a live one, and the chain    *)
(* entry names the youngest.  The oldest live turn is behind nobody, the   *)
(* only one whose place may be other than "chained".                       *)
Order == \A t, u \in Turns : t < u /\ pc[u] # "idle" => pc[t] # "idle"

Homes == \A t \in Turns : pc[t] \notin {"idle", "refused"} => session[t] \in Sessions

Linked ==
  \A t, u \in Live : t < u /\ session[t] = session[u] =>
    /\ pc[u] = "chained"
    /\ previous[u] \in Live
    /\ session[previous[u]] = session[u]
    /\ t <= previous[u]

Last ==
  \A t \in Live :
    /\ chains[session[t]] \in Live
    /\ session[chains[session[t]]] = session[t]
    /\ t <= chains[session[t]]

OldestFirst ==
  \A t \in Live, a \in Turns : pc[a] = "done" /\ session[a] = session[t] => a < t

Chain == Order /\ Homes /\ Linked /\ Last /\ OldestFirst

LEMMA LiveTurns == \A t : t \in Live <=> t \in Turns /\ pc[t] \in {"chained", "queued", "running", "settling"}
  BY DEF Live, At

(* A turn whose predecessor is settled, or that is not chained any more,   *)
(* is the oldest live turn of its session.                                 *)
LEMMA Oldest ==
  ASSUME Chain, NEW t \in Live, pc[t] # "chained" \/ Settled(previous[t])
  PROVE  \A a \in Live : session[a] = session[t] => t <= a
<1> SUFFICES ASSUME NEW a \in Live, session[a] = session[t], ~(t <= a) PROVE FALSE
  OBVIOUS
<1>1. a < t
  BY LiveTurns, TurnNumbers
<1>2. pc[t] = "chained" /\ previous[t] \in Live
  BY <1>1 DEF Chain, Linked
<1>3. pc[previous[t]] # "done" /\ previous[t] # NoTurn
  BY <1>2, LiveTurns, TurnNumbers
<1> QED BY <1>2, <1>3 DEF Settled

(* Steps that leave the set of live turns and its links alone, and after   *)
(* which only the oldest turn of a session may have left "chained".        *)
LEMMA ChainKept ==
  ASSUME Types, Chain, Live' = Live, UNCHANGED <<chains, session>>,
         \A t \in Turns : pc'[t] = "idle" <=> pc[t] = "idle",
         \A t \in Turns : pc'[t] = "refused" <=> pc[t] = "refused",
         \A t \in Turns : pc'[t] = "done" <=> pc[t] = "done",
         \A u \in Live : \/ \A a \in Live : session[a] = session[u] => u <= a
                         \/ pc'[u] = pc[u] /\ previous'[u] = previous[u]
  PROVE  Chain'
<1>1. Order'
  BY DEF Chain, Order
<1>2. Homes'
  BY DEF Chain, Homes
<1>3. Linked'
  <2> SUFFICES ASSUME NEW t \in Live, NEW u \in Live, t < u, session[t] = session[u]
               PROVE  /\ pc'[u] = "chained"
                      /\ previous'[u] \in Live
                      /\ session[previous'[u]] = session[u]
                      /\ t <= previous'[u]
    BY DEF Linked
  <2>1. ~(u <= t)
    BY LiveTurns, TurnNumbers
  <2>2. pc'[u] = pc[u] /\ previous'[u] = previous[u]
    BY <2>1
  <2> QED BY <2>2 DEF Chain, Linked
<1>4. Last'
  BY DEF Chain, Last
<1>5. OldestFirst'
  BY DEF Chain, OldestFirst
<1> QED BY <1>1, <1>2, <1>3, <1>4, <1>5 DEF Chain

LEMMA ChainStep == Types /\ Queue /\ Chain /\ [Next]_vars => Chain'
<1> SUFFICES ASSUME Types, Queue, Chain, [Next]_vars PROVE Chain'
  OBVIOUS
<1> USE DEF slots, turn, drainer
<1>0. /\ slotWaiters \in Seq(Turns)
      /\ pc \in [Turns -> Stages]
      /\ chains \in [Sessions -> Turns \cup {NoTurn}]
      /\ session \in [Turns -> Sessions \cup {NoSession}]
      /\ previous \in [Turns -> Turns \cup {NoTurn}]
      /\ Order /\ Homes /\ Linked /\ Last /\ OldestFirst
  BY DEF Types, Chain
<1>1. ASSUME NEW t \in Turns, Refuse(t) PROVE Chain'
  <2>1. /\ \A u \in Turns : u < t => pc[u] # "idle"
        /\ pc[t] = "idle" /\ pc' = [pc EXCEPT ![t] = "refused"]
        /\ UNCHANGED <<chains, session, previous>>
    BY <1>1 DEF Refuse, Called
  <2>2. Live' = Live
    BY <1>0, <2>1 DEF Live, At
  <2>3. Order'
    BY <1>0, <2>1 DEF Order
  <2>4. Homes'
    BY <1>0, <2>1 DEF Homes
  <2>5. \A u \in Live : pc'[u] = pc[u]
    BY <1>0, <2>1, LiveTurns
  <2>6. Linked'
    BY <1>0, <2>1, <2>2, <2>5 DEF Linked
  <2>7. Last'
    BY <1>0, <2>1, <2>2 DEF Last
  <2>8. OldestFirst'
    BY <1>0, <2>1, <2>2 DEF OldestFirst
  <2> QED BY <2>3, <2>4, <2>6, <2>7, <2>8 DEF Chain
<1>2. ASSUME NEW t \in Turns, NEW s \in Sessions, Admit(t, s) PROVE Chain'
  <2>1. /\ \A u \in Turns : u < t => pc[u] # "idle"
        /\ pc[t] = "idle" /\ pc' = [pc EXCEPT ![t] = "chained"]
        /\ previous' = [previous EXCEPT ![t] = chains[s]]
        /\ chains' = [chains EXCEPT ![s] = t]
        /\ session' = [session EXCEPT ![t] = s]
    BY <1>2 DEF Admit, AdmitBehind, Called
  <2>2. t \notin Live /\ Live' = Live \cup {t}
    BY <1>0, <2>1 DEF Live, At
  <2>3. \A u \in Turns : pc[u] # "idle" => u < t
    BY <1>0, <2>1, TurnNumbers DEF Order
  <2>4. \A u \in Live : u \in Turns /\ u < t /\ u # t
    BY <2>2, <2>3, LiveTurns
  <2>5. \A u \in Live : pc'[u] = pc[u] /\ previous'[u] = previous[u] /\ session'[u] = session[u]
    BY <1>0, <2>1, <2>4
  <2>6. pc'[t] = "chained" /\ previous'[t] = chains[s] /\ session'[t] = s
    BY <1>0, <2>1
  <2>7. Order'
    BY <1>0, <2>1, <2>3, TurnNumbers DEF Order
  <2>8. Homes'
    BY <1>0, <2>1 DEF Homes
  <2>9. Linked'
    <3> SUFFICES ASSUME NEW a \in Live', NEW u \in Live', a < u, session'[a] = session'[u]
                 PROVE  /\ pc'[u] = "chained"
                        /\ previous'[u] \in Live'
                        /\ session'[previous'[u]] = session'[u]
                        /\ a <= previous'[u]
      BY DEF Linked
    <3>1. a \in Live
      BY <2>2, <2>4, TurnNumbers
    <3>2. CASE u = t
      <4>1. session[a] = s
        BY <2>5, <2>6, <3>1, <3>2
      <4>2. chains[s] \in Live /\ session[chains[s]] = s /\ a <= chains[s]
        BY <1>0, <3>1, <4>1 DEF Last
      <4> QED BY <2>2, <2>5, <2>6, <3>2, <4>2
    <3>3. CASE u \in Live
      <4>1. /\ pc[u] = "chained" /\ previous[u] \in Live
            /\ session[previous[u]] = session[u] /\ a <= previous[u]
        BY <1>0, <2>5, <3>1, <3>3 DEF Linked
      <4> QED BY <2>2, <2>5, <3>3, <4>1
    <3> QED BY <2>2, <3>2, <3>3
  <2>10. Last'
    <3> SUFFICES ASSUME NEW a \in Live'
                 PROVE  /\ chains'[session'[a]] \in Live'
                        /\ session'[chains'[session'[a]]] = session'[a]
                        /\ a <= chains'[session'[a]]
      BY DEF Last
    <3>1. CASE session'[a] = s
      <4>1. chains'[session'[a]] = t
        BY <1>0, <2>1, <3>1
      <4> QED BY <2>2, <2>4, <2>6, <3>1, <4>1, TurnNumbers
    <3>2. CASE session'[a] # s
      <4>1. a \in Live /\ session'[a] = session[a] /\ session[a] \in Sessions
        BY <1>0, <2>2, <2>5, <2>6, <3>2, LiveTurns DEF Homes
      <4>2. chains'[session[a]] = chains[session[a]]
        BY <1>0, <2>1, <3>2, <4>1
      <4>3. /\ chains[session[a]] \in Live
            /\ session[chains[session[a]]] = session[a]
            /\ a <= chains[session[a]]
        BY <1>0, <4>1 DEF Last
      <4> QED BY <2>2, <2>5, <4>1, <4>2, <4>3
    <3> QED BY <3>1, <3>2
  <2>11. OldestFirst'
    <3> SUFFICES ASSUME NEW u \in Live', NEW a \in Turns, pc'[a] = "done", session'[a] = session'[u]
                 PROVE  a < u
      BY DEF OldestFirst
    <3>1. a # t /\ pc[a] = "done" /\ session'[a] = session[a]
      BY <1>0, <2>1
    <3>2. CASE u = t
      BY <2>3, <3>1, <3>2
    <3>3. CASE u \in Live
      BY <1>0, <2>5, <3>1, <3>3 DEF OldestFirst
    <3> QED BY <2>2, <3>2, <3>3
  <2> QED BY <2>7, <2>8, <2>9, <2>10, <2>11 DEF Chain
<1>3. ASSUME NEW t \in Turns, NEW stage \in {"queued", "running", "settling"}, NEW age, Enter(t, stage, age)
      PROVE  Chain'
  <2>1. /\ pc[t] = "chained" /\ pc' = [pc EXCEPT ![t] = stage]
        /\ previous' = [previous EXCEPT ![t] = NoTurn]
        /\ Settled(previous[t])
        /\ UNCHANGED <<chains, session>>
    BY <1>3 DEF Enter
  <2>2. t \in Live /\ Live' = Live
    BY <1>0, <2>1 DEF Live, At
  <2>3. \A a \in Live : session[a] = session[t] => t <= a
    BY <2>1, <2>2, Oldest
  <2>4. \A u \in Turns : u # t => pc'[u] = pc[u] /\ previous'[u] = previous[u]
    BY <1>0, <2>1
  <2>5. \A u \in Live : \/ \A a \in Live : session[a] = session[u] => u <= a
                        \/ pc'[u] = pc[u] /\ previous'[u] = previous[u]
    BY <2>3, <2>4, LiveTurns
  <2>6. \A u \in Turns : /\ pc'[u] = "idle" <=> pc[u] = "idle"
                         /\ pc'[u] = "refused" <=> pc[u] = "refused"
                         /\ pc'[u] = "done" <=> pc[u] = "done"
    BY <1>0, <2>1
  <2> QED BY <2>1, <2>2, <2>5, <2>6, ChainKept
<1>4. ASSUME NEW t \in Turns, EnterExpired(t) \/ EnterRunning(t) \/ EnterQueue(t) PROVE Chain'
  BY <1>3, <1>4 DEF EnterExpired, EnterRunning, TakeSlot, EnterQueue
(* Turns that are not chained take the next place.                         *)
<1>5. ASSUME UNCHANGED <<chains, session, previous>>, Live' = Live,
             \A u \in Turns : \/ pc'[u] = pc[u]
                              \/ pc[u] \in {"queued", "running"} /\ pc'[u] \in {"running", "settling"}
      PROVE  Chain'
  <2>1. \A u \in Live : \/ \A a \in Live : session[a] = session[u] => u <= a
                        \/ pc'[u] = pc[u] /\ previous'[u] = previous[u]
    <3> SUFFICES ASSUME NEW u \in Live, pc'[u] # pc[u]
                 PROVE  \A a \in Live : session[a] = session[u] => u <= a
      BY <1>5
    <3>1. pc[u] # "chained"
      BY <1>5, LiveTurns
    <3> QED BY <3>1, Oldest
  <2>2. \A u \in Turns : /\ pc'[u] = "idle" <=> pc[u] = "idle"
                         /\ pc'[u] = "refused" <=> pc[u] = "refused"
                         /\ pc'[u] = "done" <=> pc[u] = "done"
    BY <1>5
  <2> QED BY <1>5, <2>1, <2>2, ChainKept
<1>6. ASSUME NEW t \in Turns, Timeout(t) PROVE Chain'
  <2>1. /\ pc[t] = "queued" /\ pc' = [pc EXCEPT ![t] = "settling"]
        /\ UNCHANGED <<chains, session, previous>>
    BY <1>6 DEF Timeout
  <2>2. Live' = Live
    BY <1>0, <2>1 DEF Live, At
  <2>3. \A u \in Turns : \/ pc'[u] = pc[u]
                         \/ pc[u] \in {"queued", "running"} /\ pc'[u] \in {"running", "settling"}
    BY <1>0, <2>1
  <2> QED BY <1>5, <2>1, <2>2, <2>3
<1>7. ASSUME NEW t \in Turns, Finish(t) PROVE Chain'
  <2>1. UNCHANGED <<chains, session, previous>>
    BY <1>7 DEF Finish
  <2>2. PICK w \in Turns : /\ pc[t] = "running" /\ pc[w] \in {"queued", "running"}
                           /\ \/ pc' = [pc EXCEPT ![t] = "settling"]
                              \/ pc' = [pc EXCEPT ![t] = "settling", ![w] = "running"]
    <3>1. CASE FreeSlot(t)
      BY <3>1 DEF FreeSlot
    <3>2. CASE PassSlot(t, NextEligible)
      BY <1>0, <3>2 DEF PassSlot, Eligible, Queue, Waiters
    <3> QED BY <1>0, <1>7, <3>1, <3>2, FinishCases
  <2>3. Live' = Live
    BY <1>0, <2>2 DEF Live, At
  <2>4. \A u \in Turns : \/ pc'[u] = pc[u]
                         \/ pc[u] \in {"queued", "running"} /\ pc'[u] \in {"running", "settling"}
    BY <1>0, <2>2
  <2> QED BY <1>5, <2>1, <2>3, <2>4
<1>8. ASSUME NEW t \in Turns, Settle(t) PROVE Chain'
  <2>1. /\ pc[t] = "settling" /\ pc' = [pc EXCEPT ![t] = "done"]
        /\ chains' = Unchain(t)
        /\ UNCHANGED <<session, previous>>
    BY <1>8 DEF Settle
  <2>2. t \in Live /\ Live' = Live \ {t}
    BY <1>0, <2>1 DEF Live, At
  <2>3. \A a \in Live : session[a] = session[t] => t <= a
    BY <2>1, <2>2, Oldest
  <2>4. \A u \in Live' : u \in Turns /\ u # t /\ pc'[u] = pc[u]
    BY <1>0, <2>1, <2>2, LiveTurns
  <2>5. Order'
    BY <1>0, <2>1 DEF Order
  <2>6. Homes'
    BY <1>0, <2>1 DEF Homes
  <2>7. Linked'
    <3> SUFFICES ASSUME NEW a \in Live', NEW u \in Live', a < u, session[a] = session[u]
                 PROVE  /\ pc'[u] = "chained"
                        /\ previous[u] \in Live'
                        /\ session[previous[u]] = session[u]
                        /\ a <= previous[u]
      BY <2>1 DEF Linked
    <3>1. /\ pc[u] = "chained" /\ previous[u] \in Live
          /\ session[previous[u]] = session[u] /\ a <= previous[u]
      BY <1>0, <2>2 DEF Linked
    <3>2. previous[u] # t
      <4> SUFFICES ASSUME previous[u] = t PROVE FALSE
        OBVIOUS
      <4>1. a <= t /\ t <= a
        BY <2>2, <2>3, <3>1
      <4> QED BY <2>4, <4>1, TurnNumbers
    <3> QED BY <2>2, <2>4, <3>1, <3>2
  <2>8. Last'
    <3> SUFFICES ASSUME NEW a \in Live'
                 PROVE  /\ chains'[session[a]] \in Live'
                        /\ session[chains'[session[a]]] = session[a]
                        /\ a <= chains'[session[a]]
      BY <2>1 DEF Last
    <3>1. /\ chains[session[a]] \in Live /\ session[a] \in Sessions
          /\ session[chains[session[a]]] = session[a]
          /\ a <= chains[session[a]]
      BY <1>0, <2>2, LiveTurns DEF Last, Homes
    <3>2. chains[session[a]] # t
      <4> SUFFICES ASSUME chains[session[a]] = t PROVE FALSE
        OBVIOUS
      <4>1. a <= t /\ t <= a
        BY <2>2, <2>3, <3>1
      <4> QED BY <2>4, <4>1, TurnNumbers
    <3>3. chains'[session[a]] = chains[session[a]]
      <4>1. CASE chains[session[t]] = t
        BY <1>0, <2>1, <3>1, <3>2, <4>1 DEF Unchain
      <4>2. CASE chains[session[t]] # t
        BY <2>1, <4>2 DEF Unchain
      <4> QED BY <4>1, <4>2
    <3> QED BY <2>2, <3>1, <3>2, <3>3
  <2>9. OldestFirst'
    <3> SUFFICES ASSUME NEW u \in Live', NEW a \in Turns, pc'[a] = "done", session[a] = session[u]
                 PROVE  a < u
      BY <2>1 DEF OldestFirst
    <3>1. CASE a = t
      <4>1. t <= u /\ u # t
        BY <2>2, <2>3, <2>4, <3>1
      <4> QED BY <2>4, <3>1, <4>1, TurnNumbers
    <3>2. CASE a # t
      <4>1. pc[a] = "done"
        BY <1>0, <2>1, <3>2
      <4> QED BY <1>0, <2>2, <4>1 DEF OldestFirst
    <3> QED BY <3>1, <3>2
  <2> QED BY <2>5, <2>6, <2>7, <2>8, <2>9 DEF Chain
<1>9. CASE UNCHANGED <<chains, pc, session, previous>>
  BY <1>0, <1>9 DEF Chain, Order, Homes, Linked, Last, OldestFirst, Live, At
<1>10. CASE DrainBegins \/ DrainEnds \/ Tick \/ UNCHANGED vars
  BY <1>9, <1>10 DEF DrainBegins, DrainEnds, Tick, vars
<1> QED BY <1>1, <1>2, <1>4, <1>6, <1>7, <1>8, <1>10 DEF Next, Step

LEMMA ChainsKept == Spec => [](Types /\ Queue /\ CountersExact /\ Chain)
<1>1. Init => Chain
  <2> SUFFICES ASSUME Init PROVE Chain
    OBVIOUS
  <2>1. Live = {} /\ \A t \in Turns : pc[t] = "idle"
    BY DEF Init, Live, At
  <2> QED BY <2>1 DEF Chain, Order, Homes, Linked, Last, OldestFirst
<1> QED BY <1>1, BooksKept, ChainStep, PTL DEF Spec

(* No two turns of a session are at work, and the one at work is the       *)
(* oldest, whatever the limits, timeouts and interleavings.                *)
THEOREM SessionsNeverInterleave == Spec => []OneTurnPerSession
<1>1. Chain => OneTurnPerSession
  <2> SUFFICES ASSUME Chain, NEW t \in At({"queued", "running"}), NEW u \in Live,
                      t # u, session[t] = session[u]
               PROVE  t < u /\ pc[u] = "chained"
    BY DEF OneTurnPerSession
  <2>1. t \in Live /\ pc[t] # "chained"
    BY DEF At, Live
  <2>2. t <= u
    BY <2>1, Oldest
  <2>3. t < u
    BY <2>1, <2>2, LiveTurns, TurnNumbers
  <2> QED BY <2>1, <2>3 DEF Chain, Linked
<1> QED BY <1>1, ChainsKept, PTL
-----------------------------------------------------------------------------
(* drain() snapshots the youngest turn of every session: each turn it owes *)
(* is over, or is followed in its session by one it still awaits.          *)
Owed ==
  \A t \in owed : pc[t] # "done" =>
    t \in Live /\ \E a \in awaited : pc[a] # "idle" /\ session[a] = session[t] /\ t <= a

Drain == draining = "waiting" => Owed

LEMMA DrainStep == Types /\ Queue /\ Chain /\ Drain /\ [Next]_vars => Drain'
<1> SUFFICES ASSUME Types, Queue, Chain, Drain, [Next]_vars, draining' = "waiting" PROVE Owed'
  BY DEF Drain
<1> USE DEF slots, turn, drainer
<1>0. /\ slotWaiters \in Seq(Turns)
      /\ pc \in [Turns -> Stages] /\ session \in [Turns -> Sessions \cup {NoSession}]
      /\ chains \in [Sessions -> Turns \cup {NoTurn}]
      /\ owed \subseteq Turns /\ awaited \subseteq Turns
      /\ Homes /\ Last
  BY DEF Types, Chain
(* Turns only move forward, and keep their session once they are called.   *)
<1>1. ASSUME UNCHANGED drainer,
             \A u \in Turns : pc[u] # "idle" => pc'[u] # "idle" /\ session'[u] = session[u],
             \A u \in Turns : /\ pc[u] = "done" => pc'[u] = "done"
                              /\ u \in Live => u \in Live' \/ pc'[u] = "done"
      PROVE  Owed'
  <2>1. Owed
    BY <1>1 DEF Drain
  <2> SUFFICES ASSUME NEW t \in owed, pc'[t] # "done"
               PROVE  t \in Live' /\ \E a \in awaited : pc'[a] # "idle" /\ session'[a] = session'[t] /\ t <= a
    BY <1>1 DEF Owed
  <2>2. t \in Live /\ pc[t] # "done"
    BY <1>0, <1>1, <2>1 DEF Owed
  <2>3. PICK a \in awaited : pc[a] # "idle" /\ session[a] = session[t] /\ t <= a
    BY <2>1, <2>2 DEF Owed
  <2>4. t \in Live' /\ session'[t] = session[t]
    BY <1>0, <1>1, <2>2, LiveTurns
  <2>5. pc'[a] # "idle" /\ session'[a] = session[a]
    BY <1>0, <1>1, <2>3
  <2> QED BY <2>3, <2>4, <2>5
<1>2. ASSUME UNCHANGED <<session, drainer>>, NEW t \in Turns, NEW w \in Turns,
             pc[t] # "done", pc[w] = "queued" \/ w = t,
             \E to \in Stages \ {"idle"} :
               /\ to \notin {"refused"} \/ pc[t] = "idle"
               /\ pc' = [pc EXCEPT ![t] = to] \/ pc' = [pc EXCEPT ![t] = to, ![w] = "running"]
      PROVE  Owed'
  <2>1. PICK to \in Stages \ {"idle"} :
          /\ to \notin {"refused"} \/ pc[t] = "idle"
          /\ pc' = [pc EXCEPT ![t] = to] \/ pc' = [pc EXCEPT ![t] = to, ![w] = "running"]
    BY <1>2
  <2>2. \A u \in Turns : /\ pc[u] # "idle" => pc'[u] # "idle"
                         /\ pc[u] = "done" => pc'[u] = "done"
    BY <1>0, <1>2, <2>1
  <2>3. \A u \in Turns : u \in Live => u \in Live' \/ pc'[u] = "done"
    BY <1>0, <1>2, <2>1 DEF Live, At, Stages
  <2> QED BY <1>1, <1>2, <2>2, <2>3
<1>3. ASSUME NEW t \in Turns, Refuse(t) PROVE Owed'
  BY <1>2, <1>3 DEF Refuse, Called, Stages
<1>4. ASSUME NEW t \in Turns, NEW s \in Sessions, Admit(t, s) PROVE Owed'
  <2>1. /\ pc[t] = "idle" /\ pc' = [pc EXCEPT ![t] = "chained"]
        /\ session' = [session EXCEPT ![t] = s] /\ UNCHANGED drainer
    BY <1>4 DEF Admit, AdmitBehind, Called
  <2>2. \A u \in Turns : pc[u] # "idle" => pc'[u] # "idle" /\ session'[u] = session[u]
    BY <1>0, <2>1
  <2>3. \A u \in Turns : /\ pc[u] = "done" => pc'[u] = "done"
                         /\ u \in Live => u \in Live' \/ pc'[u] = "done"
    BY <1>0, <2>1 DEF Live, At
  <2> QED BY <1>1, <2>1, <2>2, <2>3
<1>5. ASSUME NEW t \in Turns, Timeout(t) \/ Settle(t) PROVE Owed'
  BY <1>2, <1>5 DEF Timeout, Settle, Stages
<1>6. ASSUME NEW t \in Turns, NEW stage \in {"settling", "running", "queued"}, NEW age, Enter(t, stage, age)
      PROVE  Owed'
  BY <1>2, <1>6 DEF Enter, Stages
<1>7. ASSUME NEW t \in Turns, EnterExpired(t) \/ EnterRunning(t) \/ EnterQueue(t) PROVE Owed'
  BY <1>6, <1>7 DEF EnterExpired, EnterRunning, TakeSlot, EnterQueue
<1>8. ASSUME NEW t \in Turns, Finish(t) PROVE Owed'
  <2>1. UNCHANGED <<session, drainer>>
    BY <1>8 DEF Finish
  <2>2. CASE FreeSlot(t)
    BY <1>2, <2>1, <2>2 DEF FreeSlot, Stages
  <2>3. CASE PassSlot(t, NextEligible)
    <3> DEFINE w == slotWaiters[NextEligible]
    <3>1. w \in Turns /\ pc[w] = "queued" /\ pc[t] = "running"
      BY <1>0, <2>3 DEF PassSlot, Eligible, Queue, Waiters
    <3>2. pc' = [pc EXCEPT ![t] = "settling", ![w] = "running"]
      BY <2>3 DEF PassSlot
    <3> HIDE DEF w
    <3> QED BY <1>2, <2>1, <3>1, <3>2 DEF Stages
  <2> QED BY <1>0, <1>8, <2>2, <2>3, FinishCases
<1>9. ASSUME DrainBegins PROVE Owed'
  <2>1. /\ awaited' = {chains[s] : s \in Sessions} \ {NoTurn}
        /\ owed' = Live /\ UNCHANGED <<pc, session>> /\ Live' = Live
    BY <1>9 DEF DrainBegins, Live, At
  <2> SUFFICES ASSUME NEW t \in Live
               PROVE  \E a \in awaited' : pc[a] # "idle" /\ session[a] = session[t] /\ t <= a
    BY <2>1 DEF Owed
  <2>2. session[t] \in Sessions
    BY <1>0, LiveTurns DEF Homes
  <2>3. /\ chains[session[t]] \in Live
        /\ session[chains[session[t]]] = session[t]
        /\ t <= chains[session[t]]
    BY <1>0 DEF Last
  <2> QED BY <2>1, <2>2, <2>3, LiveTurns, TurnNumbers
<1>10. CASE DrainEnds
  BY <1>10 DEF DrainEnds
<1>11. CASE Tick \/ UNCHANGED vars
  <2>1. UNCHANGED <<pc, session, drainer>>
    BY <1>11 DEF Tick, vars
  <2> QED BY <1>0, <1>1, <2>1 DEF Live, At
<1> QED BY <1>3, <1>4, <1>5, <1>7, <1>8, <1>9, <1>10, <1>11 DEF Next, Step

(* When drain() ends, every turn that was in the coordinator when it began *)
(* is over.                                                                *)
THEOREM DrainWaitsForAll == Spec => DrainCoversAll
<1>1. Init => Drain
  BY DEF Init, Drain
<1>2. Chain /\ Types /\ Drain /\ [Next]_vars => [DrainEnds => \A t \in owed : pc[t] = "done"]_vars
  <2> SUFFICES ASSUME Chain, Types, Drain, DrainEnds, NEW t \in owed, pc[t] # "done" PROVE FALSE
    OBVIOUS
  <2>1. Owed
    BY DEF Drain, DrainEnds
  <2>2. PICK a \in awaited : session[a] = session[t] /\ t <= a
    BY <2>1 DEF Owed
  <2>3. a \in Turns /\ t \in Live /\ t \in Turns
    BY <2>1, LiveTurns DEF Types, Owed
  <2>4. pc[a] = "done"
    BY <2>2, <2>3, TurnNumbers DEF DrainEnds, Settled
  <2>5. a < t
    BY <2>2, <2>3, <2>4 DEF Chain, OldestFirst
  <2> QED BY <2>2, <2>3, <2>5, TurnNumbers
<1> QED BY <1>1, <1>2, ChainsKept, DrainStep, PTL DEF Spec, DrainCoversAll

-----------------------------------------------------------------------------
(* Refinement of the abstract gate.                                        *)
LEMMA GateCounts == \A S : Gate!Cardinality(S) = Cardinality(S)
  BY DEF Gate!Cardinality, Cardinality

LEMMA GateSees ==
  ASSUME pc \in [Turns -> Stages]
  PROVE  /\ Gate!Inside = Live
         /\ Gate!In({"running"}) = Running
         /\ \A t \in Turns : Gated[t] = GateStage(t)
<1>1. Gate!Inside = {t \in Turns : Gated[t] \in {"waiting", "running", "leaving"}}
  BY DEF Gate!Inside, Gate!In
<1>2. Gate!In({"running"}) = {t \in Turns : Gated[t] \in {"running"}}
  BY DEF Gate!In
<1>3. \A t \in Turns : Gated[t] = GateStage(t)
  BY DEF Gated
<1>4. \A t \in Turns : /\ GateStage(t) \in {"waiting", "running", "leaving"}
                           <=> pc[t] \in {"chained", "queued", "running", "settling"}
                       /\ GateStage(t) \in {"running"} <=> pc[t] \in {"running"}
  BY DEF GateStage, Stages
<1> QED BY <1>1, <1>2, <1>3, <1>4 DEF Live, Running, At
(* A turn that leaves its place in the chain is the first of its session.  *)
LEMMA FirstOfSession ==
  ASSUME Types, Chain, NEW t \in Live, pc[t] # "chained" \/ Settled(previous[t])
  PROVE  Gate!First(t)
<1>1. \A u \in Live : session[u] = session[t] => t <= u
  BY Oldest
<1>2. pc \in [Turns -> Stages]
  BY DEF Types
<1>3. \A u \in Live : session[u] = session[t] => u >= t
  BY <1>1, LiveTurns, TurnNumbers
<1> QED BY <1>2, <1>3, GateSees DEF Gate!First

(* One turn moves in the coordinator as in the gate.                       *)
LEMMA GateMove ==
  ASSUME pc \in [Turns -> Stages], NEW t \in Turns, NEW to \in Stages, NEW place,
         pc' = [pc EXCEPT ![t] = to],
         place = IF to \in {"chained", "queued"} THEN "waiting"
                 ELSE IF to = "settling" THEN "leaving" ELSE to
  PROVE  Gated' = [Gated EXCEPT ![t] = place]
<1>1. \A u \in Turns : GateStage(u)' = IF u = t THEN place ELSE GateStage(u)
  BY DEF GateStage, Stages
<1> QED BY <1>1 DEF Gated

LEMMA GateInit == Init => Gate!Init
<1> SUFFICES ASSUME Init PROVE Gate!Init
  OBVIOUS
<1>1. \A t \in Turns : GateStage(t) = "idle"
  BY DEF Init, GateStage
<1>2. Gated = [t \in Turns |-> "idle"]
  BY <1>1 DEF Gated
<1> QED BY <1>2 DEF Gate!Init, Init

LEMMA GateStep ==
  Types /\ Queue /\ CountersExact /\ Chain /\ [Next]_vars => [Gate!Next]_(Gate!vars)
<1> SUFFICES ASSUME Types, Queue, CountersExact, Chain, [Next]_vars
             PROVE  [Gate!Next]_(Gate!vars)
  OBVIOUS
<1> USE DEF slots, turn, drainer
<1>0. /\ slotWaiters \in Seq(Turns)
      /\ pc \in [Turns -> Stages]
      /\ Gate!Inside = Live /\ Gate!In({"running"}) = Running
      /\ active = Cardinality(Running) /\ pending = Cardinality(Live)
      /\ \A t \in Turns : Gated[t] = GateStage(t)
  BY GateSees DEF Types, CountersExact
<1>a. ASSUME NEW t \in Turns, NEW to, Gated' = [Gated EXCEPT ![t] = to], UNCHANGED session
      PROVE  Gate!Move(t, to)
  BY <1>a DEF Gate!Move
<1>s. ASSUME Gated' = Gated, UNCHANGED session PROVE UNCHANGED Gate!vars
  BY <1>s DEF Gate!vars
<1>c. ASSUME NEW t \in Turns, Called(t) PROVE Gate!Asks(t) /\ pc[t] = "idle"
  <2>1. \A u \in Turns : pc[u] # "idle" => Gated[u] # "idle"
    BY <1>0 DEF GateStage
  <2>2. Gated[t] = "idle" /\ pc[t] = "idle"
    BY <1>0, <1>c DEF GateStage, Called
  <2>3. Gated[t] = "idle" /\ \A u \in Turns : u < t => Gated[u] # "idle"
    BY <1>c, <2>1, <2>2 DEF Called
  <2> QED BY <2>2, <2>3 DEF Gate!Asks
<1>1. ASSUME NEW t \in Turns, Refuse(t) PROVE Gate!Next
  <2>1. Called(t) /\ pc' = [pc EXCEPT ![t] = "refused"] /\ pending >= MaxPending /\ UNCHANGED session
    BY <1>1 DEF Refuse
  <2>2. Gated' = [Gated EXCEPT ![t] = "refused"]
    BY <1>0, <2>1, GateMove DEF Stages
  <2>3. Gate!Refuse(t)
    BY <1>0, <1>a, <1>c, <2>1, <2>2, GateCounts DEF Gate!Refuse
  <2> QED BY <2>3 DEF Gate!Next
<1>2. ASSUME NEW t \in Turns, NEW s \in Sessions, Admit(t, s) PROVE Gate!Next
  <2>1. /\ Called(t) /\ pc' = [pc EXCEPT ![t] = "chained"]
        /\ pending < MaxPending /\ session' = [session EXCEPT ![t] = s]
    BY <1>2 DEF Admit, AdmitBehind
  <2>2. Gated' = [Gated EXCEPT ![t] = "waiting"]
    BY <1>0, <2>1, GateMove DEF Stages
  <2>3. Gate!Asks(t) /\ Gate!Cardinality(Gate!Inside) < MaxPending
    BY <1>0, <1>c, <2>1, GateCounts
  <2>4. Gate!Admit(t, s)
    BY <2>1, <2>2, <2>3 DEF Gate!Admit
  <2> QED BY <2>4 DEF Gate!Next
(* A turn whose predecessor is settled.                                    *)
<1>3. ASSUME NEW t \in Turns, NEW stage \in Stages, NEW age, Enter(t, stage, age)
      PROVE  /\ pc[t] = "chained" /\ pc' = [pc EXCEPT ![t] = stage] /\ UNCHANGED session
             /\ Gated[t] = "waiting" /\ Gate!First(t)
  <2>1. pc[t] = "chained" /\ Settled(previous[t])
    BY <1>3 DEF Enter
  <2>2. t \in Live
    BY <2>1, LiveTurns
  <2>3. Gate!First(t)
    BY <2>1, <2>2, FirstOfSession
  <2>4. Gated[t] = "waiting"
    BY <1>0, <2>1 DEF GateStage
  <2> QED BY <1>3, <2>1, <2>3, <2>4 DEF Enter
<1>4. ASSUME NEW t \in Turns, EnterExpired(t) PROVE Gate!Next
  <2>1. /\ pc' = [pc EXCEPT ![t] = "settling"] /\ UNCHANGED session
        /\ Gated[t] = "waiting" /\ Gate!First(t)
    BY <1>3, <1>4 DEF EnterExpired, Stages
  <2>2. Gated' = [Gated EXCEPT ![t] = "leaving"]
    BY <1>0, <2>1, GateMove DEF Stages
  <2>3. Gate!Drop(t)
    BY <1>a, <2>1, <2>2 DEF Gate!Drop
  <2> QED BY <2>3 DEF Gate!Next
<1>5. ASSUME NEW t \in Turns, EnterRunning(t) PROVE Gate!Next
  <2>1. /\ pc' = [pc EXCEPT ![t] = "running"] /\ UNCHANGED session
        /\ Gated[t] = "waiting" /\ Gate!First(t)
    BY <1>3, <1>5 DEF EnterRunning, TakeSlot, Stages
  <2>2. Gated' = [Gated EXCEPT ![t] = "running"]
    BY <1>0, <2>1, GateMove DEF Stages
  <2>3. Gate!Cardinality(Gate!In({"running"})) < MaxConcurrent
    BY <1>0, <1>5, GateCounts DEF EnterRunning, TakeSlot
  <2>4. Gate!Start(t)
    BY <1>a, <2>1, <2>2, <2>3 DEF Gate!Start
  <2> QED BY <2>4 DEF Gate!Next
<1>6. ASSUME NEW t \in Turns, EnterQueue(t) PROVE UNCHANGED Gate!vars
  <2>1. /\ pc' = [pc EXCEPT ![t] = "queued"] /\ UNCHANGED session
        /\ Gated[t] = "waiting"
    BY <1>3, <1>6 DEF EnterQueue, Stages
  <2>2. Gated' = [Gated EXCEPT ![t] = "waiting"]
    BY <1>0, <2>1, GateMove DEF Stages
  <2>3. Gated' = Gated
    BY <2>1, <2>2 DEF Gated
  <2> QED BY <1>s, <2>1, <2>3
<1>7. ASSUME NEW t \in Turns, Timeout(t) PROVE Gate!Next
  <2>1. pc[t] = "queued" /\ pc' = [pc EXCEPT ![t] = "settling"] /\ UNCHANGED session
    BY <1>7 DEF Timeout
  <2>2. Gated' = [Gated EXCEPT ![t] = "leaving"] /\ Gated[t] = "waiting"
    BY <1>0, <2>1, GateMove DEF Stages, GateStage
  <2>3. t \in Live /\ Gate!First(t)
    BY <2>1, LiveTurns, FirstOfSession
  <2>4. Gate!Drop(t)
    BY <1>a, <2>1, <2>2, <2>3 DEF Gate!Drop
  <2> QED BY <2>4 DEF Gate!Next
<1>8. ASSUME NEW t \in Turns, Finish(t) PROVE Gate!Next
  <2>1. UNCHANGED session
    BY <1>8 DEF Finish
  <2>2. CASE FreeSlot(t)
    <3>1. pc[t] = "running" /\ pc' = [pc EXCEPT ![t] = "settling"]
      BY <2>2 DEF FreeSlot
    <3>2. Gated' = [Gated EXCEPT ![t] = "leaving"] /\ Gated[t] = "running"
      BY <1>0, <3>1, GateMove DEF Stages, GateStage
    <3>3. Gate!Finish(t)
      BY <1>a, <2>1, <3>2 DEF Gate!Finish
    <3> QED BY <3>3 DEF Gate!Next
  <2>3. CASE PassSlot(t, NextEligible)
    <3>1. PICK w \in Turns : /\ pc[w] = "queued" /\ pc[t] = "running"
                             /\ pc' = [pc EXCEPT ![t] = "settling", ![w] = "running"]
      BY <1>0, <2>3 DEF PassSlot, Eligible, Queue, Waiters
    <3>3. w \in Live /\ Gate!First(w)
      BY <3>1, LiveTurns, FirstOfSession
    <3>4. \A u \in Turns : GateStage(u)' = IF u = w THEN "running" ELSE IF u = t THEN "leaving" ELSE GateStage(u)
      BY <1>0, <3>1 DEF GateStage
    <3>5. /\ Gated' = [Gated EXCEPT ![t] = "leaving", ![w] = "running"]
          /\ Gated[t] = "running" /\ Gated[w] = "waiting"
      BY <1>0, <3>1, <3>4 DEF Gated, GateStage
    <3>6. Gate!HandOver(t, w)
      BY <2>1, <3>3, <3>5 DEF Gate!HandOver
    <3> QED BY <3>1, <3>6 DEF Gate!Next
  <2> QED BY <1>0, <1>8, <2>2, <2>3, FinishCases
<1>9. ASSUME NEW t \in Turns, Settle(t) PROVE Gate!Next
  <2>1. pc[t] = "settling" /\ pc' = [pc EXCEPT ![t] = "done"] /\ UNCHANGED session
    BY <1>9 DEF Settle
  <2>2. Gated' = [Gated EXCEPT ![t] = "done"] /\ Gated[t] = "leaving"
    BY <1>0, <2>1, GateMove DEF Stages, GateStage
  <2>3. Gate!Leave(t)
    BY <1>a, <2>1, <2>2 DEF Gate!Leave
  <2> QED BY <2>3 DEF Gate!Next
<1>10. CASE DrainBegins \/ DrainEnds \/ Tick \/ UNCHANGED vars
  <2>1. UNCHANGED <<pc, session>>
    BY <1>10 DEF DrainBegins, DrainEnds, Tick, vars
  <2>2. Gated' = Gated
    BY <2>1 DEF Gated, GateStage
  <2> QED BY <1>s, <2>1, <2>2
<1> QED BY <1>1, <1>2, <1>4, <1>5, <1>6, <1>7, <1>8, <1>9, <1>10 DEF Next, Step

(* The coordinator, with its promises, timers, cancelled waiters and       *)
(* handovers, implements the abstract gate.                                *)
THEOREM CoordinatorImplementsGate == Spec => ImplementsGate
<1>1. Init => Gate!Init
  BY GateInit
<1>2. Types /\ Queue /\ CountersExact /\ Chain /\ [Next]_vars => [Gate!Next]_(Gate!vars)
  BY GateStep
<1> QED BY <1>1, <1>2, ChainsKept, PTL DEF Spec, ImplementsGate, Gate!Spec
=============================================================================
