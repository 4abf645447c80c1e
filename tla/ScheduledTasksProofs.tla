------------------------ MODULE ScheduledTasksProofs ------------------------
(***************************************************************************)
(* Theorems about ScheduledTasks for any number of tasks, runs, duplicate  *)
(* messages, edits and restarts.                                           *)
(***************************************************************************)
EXTENDS ScheduledTasks, FunctionTheorems, FiniteSetTheorems, TLAPS

RowTypes ==
  /\ status \in [Tasks -> Statuses]
  /\ parents \in [Tasks -> SUBSET Tasks]
  /\ \A t \in Tasks : parents[t] \subseteq {p \in 1 .. t - 1 : Exists(p)}
  /\ keep \in SUBSET Tasks
MessageTypes ==
  /\ wire \in [Tasks -> Nat] /\ sent \in [Tasks -> Nat]
  /\ again \in SUBSET Tasks /\ tainted \in SUBSET Tasks /\ missed \in SUBSET Tasks
  /\ duplicates \in 0 .. MaxDuplicates /\ edits \in 0 .. MaxEdits /\ crashes \in 0 .. MaxCrashes
RunTypes ==
  /\ runs \in [Tasks -> 0 .. MaxRuns]
  /\ at \in [Executions -> {"none", "agent", "triggering", "over"}]
  /\ todo \in [Executions -> Seq(Tasks)]
  /\ \A e \in Executions :
       /\ at[e] = "none" <=> e[2] > runs[e[1]]
       /\ at[e] = "triggering" <=> todo[e] # <<>>
       /\ IsInjective(todo[e])
Types == RowTypes /\ MessageTypes /\ RunTypes

-----------------------------------------------------------------------------
(* Why a task gets one message: it is collected when all its parents are   *)
(* done, and each of them has then an execution behind it; a parent that   *)
(* runs once cannot complete after that.                                   *)
Finished == {t \in Tasks : \E e \in Executions : e[1] = t /\ at[e] \in {"triggering", "over"}}
Calling == [t \in Tasks |-> {e \in Executions : t \in Range(todo[e])}]
Suspect == again \cup tainted

Unborn ==
  \A t \in Tasks : status[t] = "absent" =>
    sent[t] = 0 /\ wire[t] = 0 /\ runs[t] = 0 /\ Calling[t] = {}
RunInOrder ==
  \A t \in Tasks :
    /\ status[t] \in {"in_progress", "done"} => runs[t] > 0
    /\ runs[t] > 0 => \A p \in parents[t] : status[p] \in Ended
DoneIsFinished == \A t \in Tasks : status[t] = "done" => t \in Finished
CalledAfterParents ==
  \A t \in Tasks : sent[t] > 0 \/ Calling[t] # {} => parents[t] \subseteq Finished
OneCall ==
  \A t \in Tasks \ tainted :
    /\ sent[t] <= 1
    /\ \A e \in Calling[t] : e[1] \notin Suspect =>
         sent[t] = 0 /\ \A f \in Calling[t] : f[1] \notin Suspect => f = e
RunsCounted == \A t \in Tasks \ again : runs[t] + wire[t] <= sent[t]

Order == Unborn /\ RunInOrder /\ DoneIsFinished
Calls == CalledAfterParents /\ OneCall /\ RunsCounted
Inv == Types /\ Order /\ Calls

LEMMA Constants ==
  /\ MaxTasks \in Nat /\ MaxRuns \in Nat /\ MaxRuns > 0
  /\ MaxDuplicates \in Nat /\ MaxEdits \in Nat /\ MaxCrashes \in Nat
BY TaskAssumption

LEMMA ExecutionParts == \A e \in Executions : e[1] \in Tasks /\ e[2] \in 1 .. MaxRuns /\ e = <<e[1], e[2]>>
BY DEF Executions

-----------------------------------------------------------------------------
(* Sequences of tasks without repetition.                                  *)
LEMMA EmptyList == <<>> \in Seq(Tasks) /\ IsInjective(<<>>) /\ Range(<<>>) = {}
<1>1. DOMAIN <<>> = {}
  OBVIOUS
<1> QED BY <1>1 DEF IsInjective, Range

LEMMA TailKeeps ==
  ASSUME NEW q \in Seq(Tasks), IsInjective(q), q # <<>>
  PROVE  /\ Head(q) \in Tasks /\ Tail(q) \in Seq(Tasks) /\ IsInjective(Tail(q))
         /\ Head(q) \in Range(q) /\ Range(Tail(q)) = Range(q) \ {Head(q)}
<1>1. /\ Len(q) \in Nat /\ DOMAIN q = 1 .. Len(q) /\ Len(q) >= 1 /\ Head(q) = q[1]
      /\ Tail(q) \in Seq(Tasks) /\ DOMAIN Tail(q) = 1 .. Len(q) - 1
      /\ \A i \in 1 .. Len(q) - 1 : Tail(q)[i] = q[i + 1]
  OBVIOUS
<1>2. 1 \in 1 .. Len(q) /\ \A i \in 1 .. Len(q) - 1 : i + 1 \in 1 .. Len(q) /\ i + 1 # 1
  BY <1>1
<1>3. \A i \in 1 .. Len(q) : i = 1 \/ (i - 1 \in 1 .. Len(q) - 1 /\ (i - 1) + 1 = i)
  BY <1>1
<1>4. IsInjective(Tail(q))
  <2>1. ASSUME NEW i \in 1 .. Len(q) - 1, NEW j \in 1 .. Len(q) - 1, Tail(q)[i] = Tail(q)[j]
        PROVE  i = j
    <3>1. i + 1 = j + 1
      BY <1>1, <1>2, <2>1 DEF IsInjective
    <3> QED BY <3>1
  <2> QED BY <1>1, <2>1 DEF IsInjective
<1>5. ASSUME NEW x \in Range(Tail(q)) PROVE x \in Range(q) \ {Head(q)}
  <2>1. PICK i \in 1 .. Len(q) - 1 : x = q[i + 1]
    BY <1>1 DEF Range
  <2> QED BY <1>1, <1>2, <2>1 DEF Range, IsInjective
<1>6. ASSUME NEW x \in Range(q) \ {Head(q)} PROVE x \in Range(Tail(q))
  <2>1. PICK i \in 1 .. Len(q) : x = q[i] /\ i # 1
    BY <1>1 DEF Range
  <2>2. i - 1 \in 1 .. Len(q) - 1 /\ Tail(q)[i - 1] = q[i]
    BY <1>1, <1>3, <2>1
  <2> QED BY <1>1, <2>1, <2>2 DEF Range
<1>7. Range(Tail(q)) = Range(q) \ {Head(q)}
  BY <1>5, <1>6
<1>8. Head(q) \in Range(q) /\ Head(q) \in Tasks
  BY <1>1, <1>2 DEF Range
<1> QED BY <1>1, <1>4, <1>7, <1>8

LEMMA ToTriggerGives ==
  ASSUME NEW t, NEW st
  PROVE  /\ ToTrigger(t, st) \in Seq(Tasks) /\ IsInjective(ToTrigger(t, st))
         /\ Range(ToTrigger(t, st)) \subseteq Dependents(t) \cap Ready(st)
<1> DEFINE S == Dependents(t) \cap Ready(st)
<1>1. S \subseteq Tasks
  BY DEF Dependents
<1>2. IsFiniteSet(Tasks)
  <2>1. 1 \in Int /\ MaxTasks \in Int
    BY Constants
  <2> QED BY <2>1, FS_Interval DEF Tasks
<1>3. IsFiniteSet(S)
  BY <1>1, <1>2, FS_Subset
<1> HIDE DEF S
<1>4. Cardinality(S) \in Nat /\ ExistsBijection(1 .. Cardinality(S), S)
  BY <1>3, FS_CardinalityType
<1>5. \E f \in [1 .. Cardinality(S) -> S] : IsInjective(f)
  <2>1. PICK f \in Bijection(1 .. Cardinality(S), S) : TRUE
    BY <1>4, Fun_ExistsBij
  <2>2. /\ f \in [1 .. Cardinality(S) -> S]
        /\ \A i, j \in 1 .. Cardinality(S) : f[i] = f[j] => i = j
    BY <2>1, Fun_BijectionProperties
  <2> QED BY <2>2 DEF IsInjective
<1>6. SetToSeq(S) \in [1 .. Cardinality(S) -> S] /\ IsInjective(SetToSeq(S))
  BY <1>5 DEF SetToSeq
<1>7. SetToSeq(S) \in [1 .. Cardinality(S) -> Tasks]
  BY <1>1, <1>6
<1>8. Range(SetToSeq(S)) \subseteq S
  BY <1>6 DEF Range
<1>9. \A n \in Nat : \A f \in [1 .. n -> Tasks] : f \in Seq(Tasks)
  OBVIOUS
<1>10. SetToSeq(S) \in Seq(Tasks)
  BY <1>4, <1>7, <1>9
<1>11. ToTrigger(t, st) = SetToSeq(S)
  BY DEF ToTrigger, S
<1> QED BY <1>6, <1>8, <1>10, <1>11 DEF S

-----------------------------------------------------------------------------
(* Types.                                                                  *)
LEMMA MarkGives ==
  ASSUME RowTypes, NEW t \in Tasks, NEW new \in Ended
  PROVE  /\ Mark(status, t, new) \in [Tasks -> Statuses]
         /\ \A c \in Tasks : \/ Mark(status, t, new)[c] = status[c]
                             \/ c = t /\ Exists(t) /\ Mark(status, t, new)[c] = new
BY DEF Mark, RowTypes, Statuses

(* Rows stay, and none comes back, in every step but that of their own.    *)
LEMMA RowsStay ==
  ASSUME RowTypes, UNCHANGED <<parents, keep>>, status' \in [Tasks -> Statuses],
         \A t \in Tasks : Exists(t) => status'[t] \notin {"absent", "deleted"}
  PROVE  RowTypes'
BY DEF RowTypes, Exists

LEMMA InsertKeepsRows ==
  ASSUME RowTypes, NEW t \in Tasks, NEW ps, NEW kept \in BOOLEAN,
         ps \subseteq {p \in 1 .. t - 1 : Exists(p)}, Insert(t, ps, kept)
  PROVE  /\ RowTypes' /\ status[t] = "absent" /\ status'[t] = "pending" /\ parents'[t] = ps
         /\ \A c \in Tasks \ {t} : status'[c] = status[c] /\ parents'[c] = parents[c]
         /\ Forgotten({t}, status', parents') \subseteq Tasks
         /\ UNCHANGED <<execs, again, tainted, bounds>>
<1>1. /\ status[t] = "absent" /\ status' = [status EXCEPT ![t] = "pending"]
      /\ parents' = [parents EXCEPT ![t] = ps]
      /\ keep' \in {keep, keep \cup {t}}
      /\ UNCHANGED <<execs, again, tainted, bounds>>
  BY DEF Insert
<1>2. /\ status'[t] = "pending" /\ parents'[t] = ps
      /\ \A c \in Tasks \ {t} : status'[c] = status[c] /\ parents'[c] = parents[c]
  BY <1>1 DEF RowTypes
<1>3. 1 .. t - 1 \subseteq Tasks
  BY Constants DEF Tasks
<1>4. ps \in SUBSET Tasks
  BY <1>3
<1>5. status' \in [Tasks -> Statuses] /\ parents' \in [Tasks -> SUBSET Tasks] /\ keep' \in SUBSET Tasks
  BY <1>1, <1>4 DEF RowTypes, Statuses
<1>6. \A p \in Tasks : Exists(p) => Exists(p)'
  BY <1>1, <1>2 DEF Exists
<1>7. \A c \in Tasks : parents'[c] \subseteq {p \in 1 .. c - 1 : Exists(p)'}
  <2>1. ASSUME NEW c \in Tasks, NEW p \in parents'[c] PROVE p \in 1 .. c - 1 /\ Exists(p)'
    <3>1. p \in 1 .. c - 1 /\ Exists(p) /\ p \in Tasks
      BY <1>2, <1>4, <2>1 DEF RowTypes
    <3> QED BY <1>6, <3>1
  <2> QED BY <2>1
<1>8. Forgotten({t}, status', parents') \subseteq Tasks
  BY DEF Forgotten
<1> QED BY <1>1, <1>2, <1>5, <1>7, <1>8 DEF RowTypes

LEMMA CreateKeepsTypes ==
  ASSUME Types, NEW t \in Tasks, Create(t)
  PROVE  Types'
<1> USE DEF Types
<1>1. CASE Schedule(t)
  <2>1. RowTypes' /\ UNCHANGED <<execs, again, tainted, bounds>>
    BY <1>1, InsertKeepsRows DEF Schedule
  <2>2. MessageTypes'
    BY <1>1, <2>1 DEF Schedule, MessageTypes, bounds
  <2>3. RunTypes'
    BY <2>1 DEF RunTypes, execs
  <2> QED BY <2>1, <2>2, <2>3
<1>2. ASSUME NEW ps \in SUBSET (1 .. t - 1), NEW kept \in BOOLEAN,
             CreateDependent(t, ps, kept) \/ CreateBroken(t, ps, kept)
      PROVE  Types'
  <2>1. /\ ps \subseteq {p \in 1 .. t - 1 : Exists(p)} /\ Insert(t, ps, kept)
        /\ missed' = missed \cup Forgotten({t}, status', parents') /\ UNCHANGED <<wire, sent>>
    BY <1>2 DEF CreateDependent, CreateBroken
  <2>2. /\ RowTypes' /\ UNCHANGED <<execs, again, tainted, bounds>>
        /\ Forgotten({t}, status', parents') \subseteq Tasks
    BY <2>1, InsertKeepsRows
  <2>3. MessageTypes'
    BY <2>1, <2>2 DEF MessageTypes, bounds
  <2>4. RunTypes'
    BY <2>2 DEF RunTypes, execs
  <2> QED BY <2>2, <2>3, <2>4
<1> QED BY <1>1, <1>2 DEF Create

LEMMA DeliverKeepsTypes ==
  ASSUME Types, NEW t \in Tasks, Deliver(t)
  PROVE  Types'
<1> USE DEF Types
<1>1. wire' = [wire EXCEPT ![t] = @ - 1] /\ wire[t] > 0
  BY DEF Deliver, Skip, Start, Take
<1>2. wire' \in [Tasks -> Nat]
  BY <1>1 DEF MessageTypes
<1>3. CASE Skip(t)
  <2>1. UNCHANGED <<rows, sent, execs, ghosts, bounds>>
    BY <1>3 DEF Skip
  <2> QED BY <1>2, <2>1 DEF RowTypes, MessageTypes, RunTypes, rows, execs, ghosts, bounds, Exists
<1>4. CASE Start(t)
  <2>1. /\ status[t] \in {"pending", "in_progress"} /\ runs[t] < MaxRuns
        /\ status' = [status EXCEPT ![t] = "in_progress"]
        /\ runs' = [runs EXCEPT ![t] = @ + 1]
        /\ at' = [at EXCEPT ![<<t, runs[t] + 1>>] = "agent"]
        /\ UNCHANGED <<parents, keep, sent, todo, ghosts, bounds>>
    BY <1>4 DEF Start
  <2>2. RowTypes'
    <3>1. /\ status' \in [Tasks -> Statuses]
          /\ \A c \in Tasks : status'[c] = status[c] \/ status'[c] = "in_progress"
      BY <2>1 DEF RowTypes, Statuses
    <3> QED BY <2>1, <3>1, RowsStay DEF Exists
  <2>3. MessageTypes'
    BY <1>2, <2>1 DEF MessageTypes, ghosts, bounds
  <2>4. RunTypes'
    <3>1. runs[t] \in 0 .. MaxRuns /\ runs[t] + 1 \in 1 .. MaxRuns
      BY <2>1, Constants DEF RunTypes
    <3>2. <<t, runs[t] + 1>> \in Executions
      BY <3>1 DEF Executions
    <3>3. runs' \in [Tasks -> 0 .. MaxRuns] /\ runs'[t] = runs[t] + 1
          /\ \A c \in Tasks \ {t} : runs'[c] = runs[c]
      BY <2>1, <3>1, Constants DEF RunTypes
    <3>4. at[<<t, runs[t] + 1>>] = "none" /\ todo[<<t, runs[t] + 1>>] = <<>>
      BY <3>1, <3>2 DEF RunTypes
    <3>5. ASSUME NEW e \in Executions
          PROVE  /\ at'[e] = "none" <=> e[2] > runs'[e[1]]
                 /\ at'[e] = "triggering" <=> todo[e] # <<>>
      <4>1. e[1] \in Tasks /\ e[2] \in 1 .. MaxRuns /\ e = <<e[1], e[2]>>
        BY ExecutionParts
      <4>2. CASE e = <<t, runs[t] + 1>>
        <5>1. at'[e] = "agent" /\ e[1] = t /\ e[2] = runs[t] + 1
          BY <2>1, <3>2, <4>2 DEF RunTypes
        <5> QED BY <3>1, <3>3, <3>4, <4>2, <5>1
      <4>3. CASE e # <<t, runs[t] + 1>>
        <5>1. at'[e] = at[e]
          BY <2>1, <4>3 DEF RunTypes
        <5>2. e[2] > runs'[e[1]] <=> e[2] > runs[e[1]]
          <6>1. CASE e[1] = t
            <7>1. e[2] # runs[t] + 1
              BY <4>1, <4>3, <6>1
            <7> QED BY <3>1, <3>3, <4>1, <6>1, <7>1
          <6>2. CASE e[1] # t
            BY <3>3, <4>1, <6>2
          <6> QED BY <6>1, <6>2
        <5> QED BY <5>1, <5>2 DEF RunTypes
      <4> QED BY <4>2, <4>3
    <3>6. at' \in [Executions -> {"none", "agent", "triggering", "over"}]
      BY <2>1 DEF RunTypes
    <3> QED BY <2>1, <3>3, <3>5, <3>6 DEF RunTypes
  <2> QED BY <2>2, <2>3, <2>4
<1> QED BY <1>3, <1>4 DEF Deliver

LEMMA WorkKeepsTypes ==
  ASSUME Types, NEW e \in Executions, Work(e)
  PROVE  Types'
<1> USE DEF Types
<1>0. e[1] \in Tasks /\ {"done", "failed"} \subseteq Ended
  BY ExecutionParts DEF Ended
<1>1. CASE Complete(e)
  <2>1. /\ at[e] = "agent" /\ status' = Mark(status, e[1], "done")
        /\ todo' = [todo EXCEPT ![e] = ToTrigger(e[1], status')]
        /\ at' = [at EXCEPT ![e] = IF todo'[e] = <<>> THEN "over" ELSE "triggering"]
        /\ UNCHANGED <<parents, keep, wire, sent, runs, ghosts, bounds>>
    BY <1>1 DEF Complete
  <2>2. RowTypes'
    <3>1. status' \in [Tasks -> Statuses] /\ \A c \in Tasks : status'[c] = status[c] \/ status'[c] = "done"
      BY <1>0, <2>1, MarkGives
    <3> QED BY <2>1, <3>1, RowsStay DEF Exists
  <2>3. MessageTypes'
    BY <2>1 DEF MessageTypes, ghosts, bounds
  <2>4. RunTypes'
    <3>1. ToTrigger(e[1], status') \in Seq(Tasks) /\ IsInjective(ToTrigger(e[1], status'))
      BY ToTriggerGives
    <3>2. /\ todo' \in [Executions -> Seq(Tasks)] /\ todo'[e] = ToTrigger(e[1], status')
          /\ at' \in [Executions -> {"none", "agent", "triggering", "over"}]
          /\ at'[e] = IF todo'[e] = <<>> THEN "over" ELSE "triggering"
          /\ \A f \in Executions \ {e} : at'[f] = at[f] /\ todo'[f] = todo[f]
      BY <2>1, <3>1 DEF RunTypes
    <3> QED BY <2>1, <3>1, <3>2 DEF RunTypes
  <2> QED BY <2>2, <2>3, <2>4
<1>2. CASE Fail(e)
  <2>1. /\ at[e] = "agent" /\ at' = [at EXCEPT ![e] = "over"]
        /\ status' = [t \in Tasks |-> IF t \in Cascade(e[1]) THEN "cancelled"
                                      ELSE Mark(status, e[1], "failed")[t]]
        /\ UNCHANGED <<parents, keep, wire, sent, runs, todo, ghosts, bounds>>
    BY <1>2 DEF Fail
  <2>2. RowTypes'
    <3>1. \A c \in Tasks : /\ Mark(status, e[1], "failed")[c] \in Statuses
                           /\ \/ Mark(status, e[1], "failed")[c] = status[c]
                              \/ Mark(status, e[1], "failed")[c] = "failed"
      BY <1>0, MarkGives
    <3>2. \A c \in Tasks : status'[c] \in Statuses /\ status'[c] \in {status[c], "failed", "cancelled"}
      BY <2>1, <3>1 DEF Statuses, Ended
    <3>3. status' \in [Tasks -> Statuses]
      BY <2>1, <3>2
    <3> QED BY <2>1, <3>2, <3>3, RowsStay DEF Exists
  <2>3. MessageTypes'
    BY <2>1 DEF MessageTypes, ghosts, bounds
  <2>4. RunTypes'
    BY <2>1 DEF RunTypes
  <2> QED BY <2>2, <2>3, <2>4
<1>3. CASE Trigger(e)
  <2> DEFINE c == Head(todo[e])
  <2>1. /\ at[e] = "triggering"
        /\ todo' = [todo EXCEPT ![e] = Tail(@)]
        /\ at' = [at EXCEPT ![e] = IF Tail(todo[e]) = <<>> THEN "over" ELSE @]
        /\ UNCHANGED <<parents, keep, runs, again, bounds>>
    BY <1>3 DEF Trigger, Advance
  <2>2. todo[e] \in Seq(Tasks) /\ IsInjective(todo[e]) /\ todo[e] # <<>>
    BY <2>1 DEF RunTypes
  <2>3. c \in Tasks /\ Tail(todo[e]) \in Seq(Tasks) /\ IsInjective(Tail(todo[e]))
    BY <2>2, TailKeeps
  <2> HIDE DEF c
  <2>4. /\ wire' \in {wire, [wire EXCEPT ![c] = @ + 1]} /\ sent' \in {sent, [sent EXCEPT ![c] = @ + 1]}
        /\ tainted' \in {tainted, tainted \cup {c}}
        /\ status' \in {status, Mark(status, c, "failed")}
        /\ missed' \in {missed, missed \cup Dependents(c)}
    BY <1>3 DEF Trigger, Send, GiveUp, c
  <2>5. RowTypes'
    <3>1. status' \in [Tasks -> Statuses] /\ \A t \in Tasks : status'[t] = status[t] \/ status'[t] = "failed"
      BY <1>0, <2>3, <2>4, MarkGives DEF RowTypes
    <3> QED BY <2>1, <3>1, RowsStay DEF Exists
  <2>6. MessageTypes'
    <3>1. [wire EXCEPT ![c] = @ + 1] \in [Tasks -> Nat] /\ [sent EXCEPT ![c] = @ + 1] \in [Tasks -> Nat]
      <4>1. wire \in [Tasks -> Nat] /\ sent \in [Tasks -> Nat]
        BY DEF MessageTypes
      <4>2. wire[c] + 1 \in Nat /\ sent[c] + 1 \in Nat
        BY <2>3, <4>1
      <4> QED BY <4>1, <4>2
    <3>2. wire' \in [Tasks -> Nat] /\ sent' \in [Tasks -> Nat]
      BY <2>4, <3>1 DEF MessageTypes
    <3>3. tainted' \in SUBSET Tasks /\ missed' \in SUBSET Tasks
      BY <2>3, <2>4 DEF MessageTypes, Dependents
    <3> QED BY <2>1, <3>2, <3>3 DEF MessageTypes, bounds
  <2>7. RunTypes'
    <3>1. /\ todo' \in [Executions -> Seq(Tasks)] /\ todo'[e] = Tail(todo[e])
          /\ at' \in [Executions -> {"none", "agent", "triggering", "over"}]
          /\ at'[e] = IF todo'[e] = <<>> THEN "over" ELSE "triggering"
          /\ \A f \in Executions \ {e} : at'[f] = at[f] /\ todo'[f] = todo[f]
      BY <2>1, <2>3 DEF RunTypes
    <3> QED BY <2>1, <2>3, <3>1 DEF RunTypes
  <2> QED BY <2>5, <2>6, <2>7
<1> QED BY <1>1, <1>2, <1>3 DEF Work

LEMMA EditKeepsTypes ==
  ASSUME Types, NEW t \in Tasks, Duplicate(t) \/ Cancel(t) \/ Delete(t)
  PROVE  Types'
<1> USE DEF Types
<1>1. CASE Duplicate(t)
  <2>1. UNCHANGED <<rows, sent, execs, tainted, missed, edits, crashes>>
    BY <1>1 DEF Duplicate
  <2>2. MessageTypes'
    BY <1>1, <2>1, Constants DEF Duplicate, MessageTypes
  <2> QED BY <2>1, <2>2 DEF RowTypes, RunTypes, rows, execs, Exists
<1>2. CASE Cancel(t)
  <2>1. /\ Exists(t) /\ edits < MaxEdits /\ edits' = edits + 1
        /\ status' = [status EXCEPT ![t] = "cancelled"]
        /\ missed' = missed \cup Dependents(t)
        /\ UNCHANGED <<parents, keep, wire, sent, execs, again, tainted, duplicates, crashes>>
    BY <1>2 DEF Cancel, Edit
  <2>2. RowTypes'
    <3>1. /\ status' \in [Tasks -> Statuses]
          /\ \A c \in Tasks : status'[c] = status[c] \/ status'[c] = "cancelled"
      BY <2>1 DEF RowTypes, Statuses, Ended
    <3> QED BY <2>1, <3>1, RowsStay DEF Exists
  <2>3. MessageTypes'
    BY <2>1, Constants DEF MessageTypes, Dependents
  <2> QED BY <2>1, <2>2, <2>3 DEF RunTypes, execs
<1>3. CASE Delete(t)
  <2>1. /\ Exists(t) /\ edits < MaxEdits /\ edits' = edits + 1
        /\ status' = [status EXCEPT ![t] = "deleted"]
        /\ parents' = [c \in Tasks |-> IF c = t THEN {} ELSE parents[c] \ {t}]
        /\ missed' = missed \cup Forgotten(Dependents(t), status', parents')
        /\ UNCHANGED <<keep, wire, sent, execs, again, tainted, duplicates, crashes>>
    BY <1>3 DEF Delete, Edit
  <2>2. RowTypes'
    <3>1. status' \in [Tasks -> Statuses] /\ \A c \in Tasks \ {t} : status'[c] = status[c]
      BY <2>1 DEF RowTypes, Statuses
    <3>2. parents' \in [Tasks -> SUBSET Tasks]
      BY <2>1 DEF RowTypes
    <3>3. \A c \in Tasks : parents'[c] \subseteq {p \in 1 .. c - 1 : Exists(p)'}
      <4>1. ASSUME NEW c \in Tasks, NEW p \in parents'[c] PROVE p \in 1 .. c - 1 /\ Exists(p)'
        <5>1. p \in parents[c] /\ p # t
          BY <2>1, <4>1
        <5>2. p \in 1 .. c - 1 /\ Exists(p) /\ p \in Tasks
          BY <5>1 DEF RowTypes
        <5> QED BY <3>1, <5>1, <5>2 DEF Exists
      <4> QED BY <4>1
    <3> QED BY <2>1, <3>1, <3>2, <3>3 DEF RowTypes
  <2>3. MessageTypes'
    BY <2>1, Constants DEF MessageTypes, Dependents, Forgotten
  <2> QED BY <2>1, <2>2, <2>3 DEF RunTypes, execs
<1> QED BY <1>1, <1>2, <1>3

LEMMA CrashKeepsTypes ==
  ASSUME Types, Crash
  PROVE  Types'
<1> DEFINE live == {e \in Executions : at[e] \in {"agent", "triggering"}}
<1>1. /\ crashes < MaxCrashes /\ crashes' = crashes + 1
      /\ at' = [e \in Executions |-> IF e \in live THEN "over" ELSE at[e]]
      /\ todo' = [e \in Executions |-> <<>>]
      /\ missed' \ missed \subseteq Tasks /\ missed' \subseteq missed \cup Tasks
      /\ UNCHANGED <<rows, wire, sent, runs, again, tainted, duplicates, edits>>
  BY DEF Crash
<1>2. RowTypes'
  BY <1>1 DEF Types, RowTypes, rows, Exists
<1>3. MessageTypes'
  BY <1>1, Constants DEF Types, MessageTypes
<1>4. RunTypes'
  <2>1. at' \in [Executions -> {"none", "agent", "triggering", "over"}] /\ todo' \in [Executions -> Seq(Tasks)]
    BY <1>1, EmptyList DEF Types, RunTypes
  <2>2. \A e \in Executions : /\ (at'[e] = "none" <=> at[e] = "none") /\ at'[e] # "triggering"
                              /\ todo'[e] = <<>>
    BY <1>1 DEF Types, RunTypes
  <2> QED BY <1>1, <2>1, <2>2, EmptyList DEF Types, RunTypes
<1> QED BY <1>2, <1>3, <1>4 DEF Types

-----------------------------------------------------------------------------
(* What a step does to the executions that are over and to the calls.      *)
LEMMA FinishedGrows ==
  ASSUME \A e \in Executions : at[e] \in {"triggering", "over"} => at'[e] \in {"triggering", "over"}
  PROVE  Finished \subseteq Finished'
BY DEF Finished

LEMMA CallsOf ==
  /\ \A t \in Tasks : Calling[t] = {e \in Executions : t \in Range(todo[e])}
  /\ \A t \in Tasks : Calling'[t] = {e \in Executions : t \in Range(todo'[e])}
BY DEF Calling

LEMMA OrderKept ==
  ASSUME Types, Order,
         \A t \in Tasks : status'[t] = "absent" =>
           /\ status[t] = "absent"
           /\ sent'[t] = 0 /\ wire'[t] = 0 /\ Calling'[t] = {},
         \A t \in Tasks : status'[t] \in {"in_progress", "done"} => status'[t] = status[t],
         runs' = runs,
         \A t \in Tasks : /\ parents'[t] \subseteq parents[t]
                          /\ \A p \in parents'[t] : status'[p] = status[p] \/ status'[p] \in Ended,
         Finished \subseteq Finished'
  PROVE  Order'
<1>1. Unborn'
  BY DEF Order, Unborn
<1>2. RunInOrder'
  BY DEF Order, RunInOrder
<1>3. DoneIsFinished'
  BY DEF Order, DoneIsFinished
<1> QED BY <1>1, <1>2, <1>3 DEF Order

LEMMA CallsKept ==
  ASSUME Types, Types', Calls,
         sent' = sent, \A t \in Tasks : Calling'[t] \subseteq Calling[t],
         \A t \in Tasks : parents'[t] \subseteq parents[t],
         Finished \subseteq Finished',
         again \subseteq again', tainted \subseteq tainted',
         \A t \in Tasks \ again' : runs'[t] + wire'[t] <= runs[t] + wire[t]
  PROVE  Calls'
<1>1. CalledAfterParents'
  BY DEF Calls, CalledAfterParents
<1>2. OneCall'
  <2>1. Suspect \subseteq Suspect'
    BY DEF Suspect
  <2> QED BY <2>1 DEF Calls, OneCall
<1>3. RunsCounted'
  <2>1. ASSUME NEW t \in Tasks \ again' PROVE runs'[t] + wire'[t] <= sent'[t]
    <3>1. /\ runs[t] \in Nat /\ wire[t] \in Nat /\ sent[t] \in Nat
          /\ runs'[t] \in Nat /\ wire'[t] \in Nat
      BY Constants DEF Types, MessageTypes, RunTypes
    <3>2. runs[t] + wire[t] <= sent[t]
      BY DEF Calls, RunsCounted
    <3> QED BY <3>1, <3>2
  <2> QED BY <2>1 DEF RunsCounted
<1> QED BY <1>1, <1>2, <1>3 DEF Calls

LEMMA CreateKeepsInv ==
  ASSUME Inv, Types', NEW t \in Tasks, Create(t)
  PROVE  Inv'
<1> USE DEF Inv
<1>1. PICK ps \in SUBSET (1 .. t - 1), kept \in BOOLEAN :
        /\ ps \subseteq {p \in 1 .. t - 1 : Exists(p)} /\ Insert(t, ps, kept)
        /\ \/ UNCHANGED <<wire, sent>>
           \/ ps = {} /\ wire' = [wire EXCEPT ![t] = 1] /\ sent' = [sent EXCEPT ![t] = 1]
  <2>1. CASE Schedule(t)
    BY <2>1 DEF Schedule
  <2>2. ASSUME NEW ps \in SUBSET (1 .. t - 1), NEW kept \in BOOLEAN,
               CreateDependent(t, ps, kept) \/ CreateBroken(t, ps, kept)
        PROVE  /\ ps \subseteq {p \in 1 .. t - 1 : Exists(p)} /\ Insert(t, ps, kept)
               /\ UNCHANGED <<wire, sent>>
    BY <2>2 DEF CreateDependent, CreateBroken
  <2> QED BY <2>1, <2>2 DEF Create
<1>2. /\ status[t] = "absent" /\ status'[t] = "pending" /\ parents'[t] = ps
      /\ \A c \in Tasks \ {t} : status'[c] = status[c] /\ parents'[c] = parents[c]
      /\ UNCHANGED <<execs, again, tainted, bounds>>
  <2>1. /\ ps \subseteq {p \in 1 .. t - 1 : Exists(p)} /\ Insert(t, ps, kept)
        /\ kept \in BOOLEAN /\ RowTypes
    BY <1>1 DEF Types
  <2> QED BY <2>1, InsertKeepsRows
<1>3. /\ sent[t] = 0 /\ wire[t] = 0 /\ runs[t] = 0 /\ Calling[t] = {}
  BY <1>2 DEF Order, Unborn
<1>4. /\ \A c \in Tasks \ {t} : sent'[c] = sent[c] /\ wire'[c] = wire[c]
      /\ \/ sent'[t] = 0 /\ wire'[t] = 0
         \/ sent'[t] = 1 /\ wire'[t] = 1 /\ ps = {}
  BY <1>1, <1>3 DEF Types, MessageTypes
<1>5. runs' = runs /\ Finished' = Finished /\ Calling' = Calling /\ Suspect' = Suspect
      /\ again' = again /\ tainted' = tainted
  BY <1>2 DEF Finished, Calling, Suspect, execs
<1>6. Order'
  <2>1. Unborn'
    BY <1>2, <1>4, <1>5 DEF Order, Unborn
  <2>2. RunInOrder'
    <3>1. \A c \in Tasks \ {t} : \A p \in parents[c] : p \in Tasks \ {t}
      BY <1>2 DEF Types, RowTypes, Exists
    <3> QED BY <1>2, <1>3, <1>5, <3>1 DEF Order, RunInOrder
  <2>3. DoneIsFinished'
    BY <1>2, <1>5 DEF Order, DoneIsFinished
  <2> QED BY <2>1, <2>2, <2>3 DEF Order
<1>7. Calls'
  <2>1. CalledAfterParents'
    BY <1>2, <1>3, <1>4, <1>5 DEF Calls, CalledAfterParents
  <2>2. OneCall'
    BY <1>3, <1>4, <1>5 DEF Calls, OneCall
  <2>3. RunsCounted'
    BY <1>3, <1>4, <1>5 DEF Calls, RunsCounted
  <2> QED BY <2>1, <2>2, <2>3 DEF Calls
<1> QED BY <1>6, <1>7

LEMMA DeliverKeepsInv ==
  ASSUME Inv, Types', NEW t \in Tasks, Deliver(t)
  PROVE  Inv'
<1> USE DEF Inv
<1>1. wire[t] > 0 /\ wire[t] \in Nat /\ wire'[t] = wire[t] - 1
      /\ \A c \in Tasks \ {t} : wire'[c] = wire[c]
  BY DEF Deliver, Skip, Start, Take, Types, MessageTypes
<1>2. status[t] # "absent"
  BY <1>1 DEF Order, Unborn
<1>3. CASE Skip(t)
  <2>1. UNCHANGED <<rows, sent, execs, ghosts, bounds>>
    BY <1>3 DEF Skip
  <2>2. /\ UNCHANGED <<status, parents, keep, sent, runs, at, todo, again, tainted>>
        /\ Finished' = Finished /\ Calling' = Calling
    BY <2>1 DEF rows, execs, ghosts, Finished, Calling
  <2>3. Order'
    BY <1>1, <1>2, <2>2, OrderKept DEF Order, Unborn
  <2>4. \A c \in Tasks : runs'[c] + wire'[c] <= runs[c] + wire[c]
    <3>1. \A c \in Tasks : runs[c] \in Nat /\ wire[c] \in Nat
      BY Constants DEF Types, MessageTypes, RunTypes
    <3> QED BY <1>1, <2>2, <3>1
  <2>5. Calls'
    BY <2>2, <2>4, CallsKept
  <2> QED BY <2>3, <2>5
<1>4. CASE Start(t)
  <2>1. /\ status[t] \in {"pending", "in_progress"} /\ runs[t] < MaxRuns /\ CanExecute(status, t)
        /\ status' = [status EXCEPT ![t] = "in_progress"]
        /\ runs' = [runs EXCEPT ![t] = @ + 1]
        /\ at' = [at EXCEPT ![<<t, runs[t] + 1>>] = "agent"]
        /\ UNCHANGED <<parents, keep, sent, todo, ghosts, bounds>>
    BY <1>4 DEF Start
  <2>2. /\ status'[t] = "in_progress" /\ \A c \in Tasks \ {t} : status'[c] = status[c]
        /\ runs[t] \in Nat /\ runs'[t] = runs[t] + 1 /\ \A c \in Tasks \ {t} : runs'[c] = runs[c]
    BY <2>1, Constants DEF Types, RowTypes, RunTypes
  <2>3. UNCHANGED <<parents, sent, todo, again, tainted>> /\ Calling' = Calling
    BY <2>1 DEF ghosts, Calling
  <2>4. Finished \subseteq Finished'
    <3>1. \A e \in Executions : e = <<t, runs[t] + 1>> => at[e] = "none"
      <4>1. ASSUME NEW e \in Executions, e = <<t, runs[t] + 1>> PROVE at[e] = "none"
        <5>1. e[1] = t /\ e[2] = runs[t] + 1 /\ e[2] > runs[e[1]]
          BY <2>2, <4>1
        <5> QED BY <5>1 DEF Types, RunTypes
      <4> QED BY <4>1
    <3>2. \A e \in Executions : e # <<t, runs[t] + 1>> => at'[e] = at[e]
      BY <2>1 DEF Types, RunTypes
    <3> QED BY <3>1, <3>2, FinishedGrows
  <2>5. Order'
    <3>1. Unborn'
      BY <1>1, <2>2, <2>3 DEF Order, Unborn
    <3>2. RunInOrder'
      <4>1. \A p \in parents[t] : p \in Tasks \ {t} /\ status[p] = "done"
        BY <2>1 DEF Types, RowTypes, CanExecute
      <4>2. \A c \in Tasks : runs[c] > 0 => t \notin parents[c]
        BY <2>1 DEF Order, RunInOrder, Ended
      <4>3. \A c \in Tasks : parents[c] \subseteq Tasks
        BY DEF Types, RowTypes
      <4>4. \A c \in Tasks : runs'[c] > 0 => \A p \in parents'[c] : status'[p] \in Ended
        BY <2>2, <2>3, <4>1, <4>2, <4>3 DEF Order, RunInOrder, Ended
      <4>5. \A c \in Tasks : status'[c] \in {"in_progress", "done"} => runs'[c] > 0
        BY <2>2 DEF Order, RunInOrder
      <4> QED BY <4>4, <4>5 DEF RunInOrder
    <3>3. DoneIsFinished'
      BY <2>2, <2>4 DEF Order, DoneIsFinished
    <3> QED BY <3>1, <3>2, <3>3 DEF Order
  <2>6. \A c \in Tasks : runs'[c] + wire'[c] <= runs[c] + wire[c]
    <3>1. \A c \in Tasks : runs[c] \in Nat /\ wire[c] \in Nat
      BY Constants DEF Types, MessageTypes, RunTypes
    <3> QED BY <1>1, <2>2, <3>1
  <2>7. Calls'
    BY <2>3, <2>4, <2>6, CallsKept
  <2> QED BY <2>5, <2>7
<1> QED BY <1>3, <1>4 DEF Deliver

LEMMA CompleteKeepsInv ==
  ASSUME Inv, Types', NEW e \in Executions, Complete(e)
  PROVE  Inv'
<1> USE DEF Inv
<1> DEFINE t == e[1]
<1>0. t \in Tasks /\ e[2] \in 1 .. MaxRuns /\ "done" \in Ended
  BY ExecutionParts DEF Ended
<1>1. /\ at[e] = "agent" /\ status' = Mark(status, t, "done")
      /\ todo' = [todo EXCEPT ![e] = ToTrigger(t, status')]
      /\ at' = [at EXCEPT ![e] = IF todo'[e] = <<>> THEN "over" ELSE "triggering"]
      /\ UNCHANGED <<parents, keep, wire, sent, runs, ghosts, bounds>>
  BY DEF Complete
<1>2. UNCHANGED <<parents, keep, wire, sent, runs, again, tainted>> /\ Suspect' = Suspect
  BY <1>1 DEF ghosts, Suspect
<1>3. /\ at'[e] \in {"triggering", "over"} /\ \A f \in Executions \ {e} : at'[f] = at[f]
      /\ todo'[e] = ToTrigger(t, status') /\ \A f \in Executions \ {e} : todo'[f] = todo[f]
      /\ todo[e] = <<>>
  BY <1>1 DEF Types, RunTypes
<1>4. runs[t] > 0 /\ e[2] <= runs[t]
  BY <1>0, <1>1, Constants DEF Types, RunTypes
<1>5. status[t] # "absent"
  BY <1>0, <1>4 DEF Order, Unborn
<1>6. \A c \in Tasks : status'[c] = status[c] \/ (c = t /\ Exists(t) /\ status'[c] = "done")
  BY <1>0, <1>1, MarkGives DEF Types
<1>7. Range(todo'[e]) \subseteq {c \in Tasks : /\ t \in parents[c] /\ status'[c] = "pending"
                                               /\ \A p \in parents[c] : status'[p] = "done"}
  <2>1. Range(todo'[e]) \subseteq Dependents(t) \cap Ready(status')
    BY <1>3, ToTriggerGives
  <2> QED BY <2>1 DEF Dependents, Ready, CanExecute
<1>8. \A c \in Tasks : Calling'[c] = IF c \in Range(todo'[e]) THEN Calling[c] \cup {e} ELSE Calling[c]
  <2>1. Range(todo[e]) = {}
    BY <1>3, EmptyList
  <2>2. \A f \in Executions : Range(todo'[f]) = IF f = e THEN Range(todo'[e]) ELSE Range(todo[f])
    BY <1>3
  <2>3. \A c \in Tasks : \A f \in Executions :
          f \in Calling'[c] <=> (f \in Calling[c] \/ (f = e /\ c \in Range(todo'[e])))
    BY <2>1, <2>2, CallsOf
  <2>4. \A c \in Tasks : Calling[c] \subseteq Executions /\ Calling'[c] \subseteq Executions
    BY CallsOf
  <2> QED BY <2>3, <2>4
<1> HIDE DEF t
<1>9. Finished \subseteq Finished' /\ t \in Finished'
  <2>1. t \in Finished'
    BY <1>0, <1>3 DEF Finished, t
  <2> QED BY <1>3, <2>1, FinishedGrows
<1>10. Order'
  <2>1. Unborn'
    BY <1>2, <1>5, <1>6, <1>7, <1>8 DEF Order, Unborn
  <2>2. RunInOrder'
    <3>1. \A c \in Tasks : parents[c] \subseteq Tasks
      BY DEF Types, RowTypes
    <3>2. \A c \in Tasks : status[c] \in Ended => status'[c] \in Ended
      BY <1>0, <1>6
    <3> QED BY <1>2, <1>4, <1>6, <3>1, <3>2 DEF Order, RunInOrder
  <2>3. DoneIsFinished'
    BY <1>6, <1>9 DEF Order, DoneIsFinished
  <2> QED BY <2>1, <2>2, <2>3 DEF Order
<1>11. CalledAfterParents'
  <2>1. ASSUME NEW c \in Range(todo'[e]) PROVE parents[c] \subseteq Finished'
    <3>1. c \in Tasks /\ parents[c] \subseteq Tasks /\ \A p \in parents[c] : status'[p] = "done"
      BY <1>7, <2>1 DEF Types, RowTypes
    <3> QED BY <1>10, <3>1 DEF Order, DoneIsFinished
  <2> QED BY <1>2, <1>8, <1>9, <2>1 DEF Calls, CalledAfterParents
(* The task that completes, if it runs once, has not completed before.     *)
<1>12. ASSUME t \notin Suspect, NEW c \in Range(todo'[e])
       PROVE  c \in Tasks /\ sent[c] = 0 /\ Calling[c] = {}
  <2>1. sent[t] <= 1 /\ runs[t] + wire[t] <= sent[t]
    BY <1>0, <1>12 DEF Suspect, Calls, OneCall, RunsCounted
  <2>2. runs[t] = 1
    <3>1. runs[t] \in Nat /\ wire[t] \in Nat /\ sent[t] \in Nat
      BY <1>0, Constants DEF Types, MessageTypes, RunTypes
    <3> QED BY <1>4, <2>1, <3>1
  <2>3. ASSUME NEW f \in Executions, f[1] = t, at[f] # "none" PROVE f = e
    <3>1. f[2] \in 1 .. MaxRuns /\ f = <<t, f[2]>> /\ f[2] <= runs[t]
      BY <2>2, <2>3, ExecutionParts DEF Types, RunTypes
    <3>2. f[2] = 1 /\ e[2] = 1 /\ e = <<t, e[2]>>
      BY <1>0, <1>4, <2>2, <3>1, ExecutionParts DEF t
    <3> QED BY <3>1, <3>2
  <2>4. t \notin Finished
    BY <1>1, <2>3 DEF Finished
  <2>5. c \in Tasks /\ t \in parents[c]
    BY <1>7, <1>12
  <2> QED BY <2>4, <2>5, Constants DEF Calls, CalledAfterParents, Types, MessageTypes
<1>13. OneCall'
  <2>1. \A c \in Tasks \ tainted : sent'[c] <= 1
    BY <1>2 DEF Calls, OneCall
  <2>2. ASSUME NEW c \in Tasks \ tainted, NEW f \in Calling'[c], f[1] \notin Suspect
        PROVE  sent[c] = 0 /\ \A g \in Calling'[c] : g[1] \notin Suspect => g = f
    <3>1. CASE t \notin Suspect /\ c \in Range(todo'[e])
      <4>1. sent[c] = 0 /\ Calling[c] = {}
        BY <1>12, <3>1
      <4>2. Calling'[c] = {e}
        BY <1>8, <3>1, <4>1
      <4> QED BY <2>2, <4>1, <4>2
    <3>2. CASE t \in Suspect \/ c \notin Range(todo'[e])
      <4>1. \A g \in Calling'[c] : g[1] \notin Suspect => g \in Calling[c]
        BY <1>8, <3>2 DEF t
      <4> QED BY <2>2, <4>1 DEF Calls, OneCall
    <3> QED BY <3>1, <3>2
  <2> QED BY <1>2, <2>1, <2>2 DEF OneCall
<1>14. RunsCounted'
  BY <1>2 DEF Calls, RunsCounted
<1> QED BY <1>10, <1>11, <1>13, <1>14 DEF Calls

LEMMA FailKeepsInv ==
  ASSUME Inv, Types', NEW e \in Executions, Fail(e)
  PROVE  Inv'
<1> USE DEF Inv
<1>0. e[1] \in Tasks /\ "failed" \in Ended
  BY ExecutionParts DEF Ended
<1>1. /\ at[e] = "agent" /\ at' = [at EXCEPT ![e] = "over"]
      /\ status' = [t \in Tasks |-> IF t \in Cascade(e[1]) THEN "cancelled"
                                    ELSE Mark(status, e[1], "failed")[t]]
      /\ UNCHANGED <<parents, keep, wire, sent, runs, todo, ghosts, bounds>>
  BY DEF Fail
<1>2. UNCHANGED <<parents, wire, sent, runs, todo, again, tainted>> /\ Calling' = Calling
  BY <1>1 DEF ghosts, Calling
<1>3. \A c \in Tasks : status'[c] = status[c] \/ status'[c] \in {"failed", "cancelled"}
  <2>1. \A c \in Tasks : \/ Mark(status, e[1], "failed")[c] = status[c]
                         \/ Mark(status, e[1], "failed")[c] = "failed"
    BY <1>0, MarkGives DEF Types
  <2> QED BY <1>1, <2>1
<1>4. Finished \subseteq Finished'
  BY <1>1, FinishedGrows DEF Types, RunTypes
<1>5. Order'
  <2>1. \A t \in Tasks : parents[t] \subseteq Tasks
    BY DEF Types, RowTypes
  <2>2. \A t \in Tasks : status'[t] = "absent" =>
          status[t] = "absent" /\ sent'[t] = 0 /\ wire'[t] = 0 /\ Calling'[t] = {}
    BY <1>2, <1>3 DEF Order, Unborn
  <2>3. \A t \in Tasks : \A p \in parents'[t] : status'[p] = status[p] \/ status'[p] \in Ended
    BY <1>2, <1>3, <2>1 DEF Ended
  <2> QED BY <1>2, <1>3, <1>4, <2>2, <2>3, OrderKept
<1>6. \A c \in Tasks : runs'[c] + wire'[c] <= runs[c] + wire[c]
  <2>1. \A c \in Tasks : runs[c] \in Nat /\ wire[c] \in Nat
    BY Constants DEF Types, MessageTypes, RunTypes
  <2> QED BY <1>2, <2>1
<1>7. Calls'
  BY <1>2, <1>4, <1>6, CallsKept
<1> QED BY <1>5, <1>7

LEMMA TriggerKeepsInv ==
  ASSUME Inv, Types', NEW e \in Executions, Trigger(e)
  PROVE  Inv'
<1> USE DEF Inv
<1> DEFINE c == Head(todo[e])
<1>0. e[1] \in Tasks /\ "failed" \in Ended
  BY ExecutionParts DEF Ended
<1>1. /\ at[e] = "triggering" /\ todo' = [todo EXCEPT ![e] = Tail(@)]
      /\ at' = [at EXCEPT ![e] = IF Tail(todo[e]) = <<>> THEN "over" ELSE @]
      /\ UNCHANGED <<parents, keep, runs, again, bounds>>
  BY DEF Trigger, Advance
<1>2. c \in Tasks /\ c \in Range(todo[e]) /\ Range(Tail(todo[e])) = Range(todo[e]) \ {c}
  BY <1>1, TailKeeps DEF Types, RunTypes
<1>3. /\ \A t \in Tasks \ {c} : Calling'[t] = Calling[t]
      /\ e \in Calling[c] /\ Calling'[c] = Calling[c] \ {e}
  <2>1. todo'[e] = Tail(todo[e]) /\ \A f \in Executions \ {e} : todo'[f] = todo[f]
    BY <1>1 DEF Types, RunTypes
  <2>2. \A f \in Executions : Range(todo'[f]) = IF f = e THEN Range(todo[f]) \ {c} ELSE Range(todo[f])
    BY <1>2, <2>1
  <2>3. e \in Calling[c] /\ e \notin Calling'[c]
    BY <1>2, <2>2, CallsOf
  <2>4. \A t \in Tasks : \A f \in Executions : f \in Calling'[t] <=> f \in Calling[t] /\ ~(f = e /\ t = c)
    <3> HIDE DEF c
    <3> SUFFICES ASSUME NEW t \in Tasks, NEW f \in Executions
                 PROVE  f \in Calling'[t] <=> f \in Calling[t] /\ ~(f = e /\ t = c)
      OBVIOUS
    <3>1. /\ f \in Calling'[t] <=> t \in Range(todo'[f])
          /\ f \in Calling[t] <=> t \in Range(todo[f])
      BY CallsOf
    <3> QED BY <2>2, <3>1
  <2>5. \A t \in Tasks : Calling[t] \subseteq Executions /\ Calling'[t] \subseteq Executions
    BY CallsOf
  <2> HIDE DEF c
  <2>6. \A t \in Tasks \ {c} : Calling'[t] = Calling[t]
    BY <2>4, <2>5
  <2> QED BY <1>2, <2>3, <2>4, <2>5, <2>6
<1>4. /\ status' \in {status, Mark(status, c, "failed")}
      /\ \/ UNCHANGED <<wire, sent, tainted>>
         \/ /\ wire' = [wire EXCEPT ![c] = @ + 1] /\ sent' = [sent EXCEPT ![c] = @ + 1]
            /\ tainted' = IF e[1] \in again \cup tainted THEN tainted \cup {c} ELSE tainted
  BY DEF Trigger, Send, GiveUp
<1> HIDE DEF c
<1>5. \A t \in Tasks : status'[t] = status[t] \/ status'[t] = "failed"
  BY <1>0, <1>2, <1>4, MarkGives DEF Types
<1>6. /\ \A t \in Tasks \ {c} : wire'[t] = wire[t] /\ sent'[t] = sent[t]
      /\ \/ UNCHANGED <<wire, sent, tainted>>
         \/ /\ wire'[c] = wire[c] + 1 /\ sent'[c] = sent[c] + 1
            /\ e[1] \in Suspect => c \in tainted'
      /\ tainted \subseteq tainted' /\ Suspect \subseteq Suspect'
  BY <1>1, <1>2, <1>4 DEF Types, MessageTypes, Suspect
<1>7. Finished \subseteq Finished'
  BY <1>1, FinishedGrows DEF Types, RunTypes
<1>8. status[c] # "absent"
  BY <1>2, <1>3 DEF Order, Unborn
<1>9. Order'
  <2>1. \A t \in Tasks : parents[t] \subseteq Tasks
    BY DEF Types, RowTypes
  <2>2. \A t \in Tasks : status'[t] = "absent" =>
          status[t] = "absent" /\ sent'[t] = 0 /\ wire'[t] = 0 /\ Calling'[t] = {}
    BY <1>3, <1>5, <1>6, <1>8 DEF Order, Unborn
  <2>3. \A t \in Tasks : \A p \in parents'[t] : status'[p] = status[p] \/ status'[p] \in Ended
    BY <1>0, <1>1, <1>5, <2>1
  <2> QED BY <1>1, <1>5, <1>7, <2>2, <2>3, OrderKept
<1>10. CalledAfterParents'
  <2>1. parents[c] \subseteq Finished
    BY <1>2, <1>3 DEF Calls, CalledAfterParents
  <2>2. \A t \in Tasks \ {c} : sent'[t] > 0 \/ Calling'[t] # {} => parents[t] \subseteq Finished
    BY <1>3, <1>6 DEF Calls, CalledAfterParents
  <2> QED BY <1>1, <1>7, <2>1, <2>2 DEF CalledAfterParents
<1>11. OneCall'
  <2>1. ASSUME NEW t \in Tasks \ tainted', t # c
        PROVE  /\ sent'[t] <= 1
               /\ \A f \in Calling'[t] : f[1] \notin Suspect' =>
                    sent'[t] = 0 /\ \A g \in Calling'[t] : g[1] \notin Suspect' => g = f
    BY <1>3, <1>6, <2>1 DEF Calls, OneCall
  <2>2. ASSUME c \notin tainted'
        PROVE  /\ sent'[c] <= 1
               /\ \A f \in Calling'[c] : f[1] \notin Suspect' =>
                    sent'[c] = 0 /\ \A g \in Calling'[c] : g[1] \notin Suspect' => g = f
    <3>1. c \in Tasks \ tainted
      BY <1>2, <1>6, <2>2
    <3>2. CASE UNCHANGED <<wire, sent, tainted>>
      BY <1>3, <1>6, <3>1, <3>2 DEF Calls, OneCall
    <3>3. CASE sent'[c] = sent[c] + 1 /\ e[1] \notin Suspect
      <4>1. sent[c] = 0 /\ \A f \in Calling[c] : f[1] \notin Suspect => f = e
        BY <1>3, <3>1, <3>3 DEF Calls, OneCall
      <4>2. \A f \in Calling'[c] : f[1] \in Suspect'
        BY <1>3, <1>6, <4>1
      <4> QED BY <3>3, <4>1, <4>2
    <3> QED BY <1>6, <2>2, <3>2, <3>3
  <2> QED BY <2>1, <2>2 DEF OneCall
<1>12. RunsCounted'
  <2>1. \A t \in Tasks : runs[t] \in Nat /\ wire[t] \in Nat /\ sent[t] \in Nat
    BY Constants DEF Types, MessageTypes, RunTypes
  <2>2. ASSUME NEW t \in Tasks \ again PROVE runs[t] + wire'[t] <= sent'[t]
    <3>1. runs[t] + wire[t] <= sent[t]
      BY DEF Calls, RunsCounted
    <3> QED BY <1>6, <2>1, <3>1
  <2> QED BY <1>1, <2>2 DEF RunsCounted
<1> QED BY <1>9, <1>10, <1>11, <1>12 DEF Calls

LEMMA EditKeepsInv ==
  ASSUME Inv, Types', NEW t \in Tasks, Duplicate(t) \/ Cancel(t) \/ Delete(t)
  PROVE  Inv'
<1> USE DEF Inv
<1>0. \A c \in Tasks : parents[c] \subseteq Tasks /\ runs[c] \in Nat /\ wire[c] \in Nat
  BY Constants DEF Types, RowTypes, MessageTypes, RunTypes
<1>1. UNCHANGED <<sent, runs, at, todo, tainted>> /\ Finished' = Finished /\ Calling' = Calling
  <2>1. UNCHANGED <<sent, runs, at, todo, tainted>>
    BY DEF Duplicate, Cancel, Delete, execs
  <2> QED BY <2>1 DEF Finished, Calling
<1>2. CASE Duplicate(t)
  <2>1. /\ UNCHANGED <<status, parents>> /\ sent[t] > 0 /\ again' = again \cup {t}
        /\ \A c \in Tasks \ {t} : wire'[c] = wire[c]
    BY <1>2 DEF Duplicate, rows, Types, MessageTypes
  <2>2. Order'
    BY <1>1, <2>1, OrderKept DEF Order, Unborn
  <2>3. \A c \in Tasks \ again' : runs'[c] + wire'[c] <= runs[c] + wire[c]
    BY <1>0, <1>1, <2>1
  <2>4. Calls'
    BY <1>1, <2>1, <2>3, CallsKept
  <2> QED BY <2>2, <2>4
<1>3. CASE Cancel(t) \/ Delete(t)
  <2>1. /\ Exists(t) /\ UNCHANGED <<wire, again>>
        /\ status'[t] \in {"cancelled", "deleted"} /\ \A c \in Tasks \ {t} : status'[c] = status[c]
        /\ \A c \in Tasks : parents'[c] \subseteq parents[c]
        /\ status'[t] = "deleted" => \A c \in Tasks : t \notin parents'[c]
    BY <1>3 DEF Cancel, Delete, Edit, Types, RowTypes
  <2>2. Order'
    <3>1. \A c \in Tasks : status'[c] = "absent" =>
            status[c] = "absent" /\ sent'[c] = 0 /\ wire'[c] = 0 /\ Calling'[c] = {}
      BY <1>1, <2>1 DEF Order, Unborn
    <3>2. \A c \in Tasks : \A p \in parents'[c] : status'[p] = status[p] \/ status'[p] \in Ended
      BY <1>0, <2>1 DEF Ended
    <3>3. \A c \in Tasks : status'[c] \in {"in_progress", "done"} => status'[c] = status[c]
      BY <2>1
    <3> QED BY <1>1, <2>1, <3>1, <3>2, <3>3, OrderKept
  <2>3. \A c \in Tasks : runs'[c] + wire'[c] <= runs[c] + wire[c]
    BY <1>0, <1>1, <2>1
  <2>4. Calls'
    BY <1>1, <2>1, <2>3, CallsKept
  <2> QED BY <2>2, <2>4
<1> QED BY <1>2, <1>3

LEMMA CrashKeepsInv ==
  ASSUME Inv, Types', Crash
  PROVE  Inv'
<1> USE DEF Inv
<1>1. /\ \A e \in Executions : at'[e] = IF at[e] \in {"agent", "triggering"} THEN "over" ELSE at[e]
      /\ \A e \in Executions : todo'[e] = <<>>
      /\ UNCHANGED <<rows, wire, sent, runs, again, tainted>>
  BY DEF Crash
<1>2. UNCHANGED <<status, parents>>
  BY <1>1 DEF rows
<1>3. \A t \in Tasks : Calling'[t] = {}
  BY <1>1, CallsOf, EmptyList
<1>4. Finished \subseteq Finished'
  BY <1>1, FinishedGrows
<1>5. Order'
  BY <1>1, <1>2, <1>3, <1>4, OrderKept DEF Order, Unborn
<1>6. \A c \in Tasks : runs'[c] + wire'[c] <= runs[c] + wire[c]
  <2>1. \A c \in Tasks : runs[c] \in Nat /\ wire[c] \in Nat
    BY Constants DEF Types, MessageTypes, RunTypes
  <2> QED BY <1>1, <2>1
<1>7. Calls'
  BY <1>1, <1>2, <1>3, <1>4, <1>6, CallsKept
<1> QED BY <1>5, <1>7

-----------------------------------------------------------------------------
LEMMA InitSound == Init => Inv
<1> SUFFICES ASSUME Init PROVE Inv
  OBVIOUS
<1>1. /\ \A t \in Tasks : /\ status[t] = "absent" /\ parents[t] = {}
                          /\ wire[t] = 0 /\ sent[t] = 0 /\ runs[t] = 0
      /\ \A e \in Executions : at[e] = "none" /\ todo[e] = <<>>
  BY DEF Init
<1>2. RowTypes
  BY DEF Init, RowTypes, Statuses
<1>3. MessageTypes
  BY Constants DEF Init, MessageTypes
<1>4. RunTypes
  <2>1. /\ runs \in [Tasks -> 0 .. MaxRuns] /\ todo \in [Executions -> Seq(Tasks)]
        /\ at \in [Executions -> {"none", "agent", "triggering", "over"}]
    BY Constants, EmptyList DEF Init
  <2>2. \A e \in Executions : e[2] > runs[e[1]]
    BY <1>1, ExecutionParts
  <2> QED BY <1>1, <2>1, <2>2, EmptyList DEF RunTypes
<1>5. \A t \in Tasks : Calling[t] = {}
  BY <1>1, CallsOf, EmptyList
<1>6. Order
  BY <1>1, <1>5 DEF Order, Unborn, RunInOrder, DoneIsFinished
<1>7. Calls
  BY <1>1, <1>5 DEF Calls, CalledAfterParents, OneCall, RunsCounted
<1> QED BY <1>2, <1>3, <1>4, <1>6, <1>7 DEF Inv, Types

LEMMA StepSound == Inv /\ [Next]_vars => Inv'
<1> SUFFICES ASSUME Inv, [Next]_vars PROVE Inv'
  OBVIOUS
<1>0. Types
  BY DEF Inv
<1>1. ASSUME NEW t \in Tasks, Create(t) PROVE Inv'
  BY <1>0, <1>1, CreateKeepsTypes, CreateKeepsInv
<1>2. ASSUME NEW t \in Tasks, Deliver(t) PROVE Inv'
  BY <1>0, <1>2, DeliverKeepsTypes, DeliverKeepsInv
<1>3. ASSUME NEW t \in Tasks, Duplicate(t) \/ Cancel(t) \/ Delete(t) PROVE Inv'
  BY <1>0, <1>3, EditKeepsTypes, EditKeepsInv
<1>4. ASSUME NEW e \in Executions, Work(e) PROVE Inv'
  <2>1. Types'
    BY <1>0, <1>4, WorkKeepsTypes
  <2> QED BY <1>4, <2>1, CompleteKeepsInv, FailKeepsInv, TriggerKeepsInv DEF Work
<1>5. CASE Crash
  BY <1>0, <1>5, CrashKeepsTypes, CrashKeepsInv
<1>6. CASE UNCHANGED vars
  <2>1. UNCHANGED <<status, parents, keep, wire, sent, runs, at, todo, again, tainted, missed>>
        /\ UNCHANGED <<duplicates, edits, crashes>>
    BY <1>6 DEF vars, rows, execs, ghosts, bounds
  <2>2. Finished' = Finished /\ Calling' = Calling /\ Suspect' = Suspect
    BY <2>1 DEF Finished, Calling, Suspect
  <2>3. Types'
    BY <1>0, <2>1 DEF Types, RowTypes, MessageTypes, RunTypes, Exists
  <2>4. Order'
    BY <2>1, <2>2 DEF Inv, Order, Unborn, RunInOrder, DoneIsFinished
  <2>5. Calls'
    BY <2>1, <2>2 DEF Inv, Calls, CalledAfterParents, OneCall, RunsCounted
  <2> QED BY <2>3, <2>4, <2>5 DEF Inv
<1> QED BY <1>1, <1>2, <1>3, <1>4, <1>5, <1>6 DEF Next

LEMMA InvGives == Inv => TypeOK /\ OneRunInOrder
<1> SUFFICES ASSUME Inv PROVE TypeOK /\ OneRunInOrder
  OBVIOUS
<1>1. TypeOK
  BY DEF Inv, Types, RowTypes, MessageTypes, RunTypes, TypeOK
<1>2. OneMessageOneRun
  <2>1. ASSUME NEW t \in Tasks, runs[t] > 1, t \notin again \cup tainted PROVE FALSE
    <3>1. runs[t] + wire[t] <= sent[t] /\ sent[t] <= 1
      BY <2>1 DEF Inv, Calls, OneCall, RunsCounted
    <3>2. runs[t] \in Nat /\ wire[t] \in Nat /\ sent[t] \in Nat
      BY Constants DEF Inv, Types, MessageTypes, RunTypes
    <3> QED BY <2>1, <3>1, <3>2
  <2>2. ASSUME NEW t \in Tasks, sent[t] > 1, t \notin tainted PROVE FALSE
    <3>1. sent[t] \in Nat /\ sent[t] <= 1
      BY <2>2 DEF Inv, Calls, OneCall, Types, MessageTypes
    <3> QED BY <2>2, <3>1
  <2> QED BY <2>1, <2>2 DEF OneMessageOneRun
<1>3. RunsAfterParents
  BY DEF Inv, Order, RunInOrder, RunsAfterParents
<1> QED BY <1>1, <1>2, <1>3 DEF OneRunInOrder

LEMMA InvHolds == Spec => []Inv
BY InitSound, StepSound, PTL DEF Spec

(* The rows of the task table and of its dependencies, the messages and    *)
(* the executions keep their types; a dependency is always on an earlier   *)
(* task whose row exists, also while the operator deletes rows             *)
(* (memory/agent/tasks.ts).                                                *)
THEOREM TasksTypeCorrect == Spec => []TypeOK
BY InvHolds, InvGives, PTL

(* Whatever the order in which parents complete, fail, are cancelled or    *)
(* deleted: a task gets one message and runs once, unless Telegram         *)
(* delivered a message of it, or of a task that triggers it, twice; and it *)
(* runs, and stays done, on parents that are over (onTaskComplete,         *)
(* triggerTask and execute).                                               *)
THEOREM TasksRunOnceInOrder == Spec => []OneRunInOrder
BY InvHolds, InvGives, PTL
=============================================================================
