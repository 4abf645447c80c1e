--------------------------- MODULE ScheduledTasks ---------------------------
(***************************************************************************)
(* scheduled-tasks.ts, telegram/task-dependency-resolver.ts and            *)
(* memory/agent/tasks.ts: tasks that the agent creates for itself and that *)
(* a [TASK:id] message to its own chat executes, when their time has come  *)
(* or the last of their parents is done.  User mode; tasks that were       *)
(* stored without their creator are left out.                              *)
(*                                                                         *)
(* The messages come back from Telegram like any others, but they leave    *)
(* the pipeline before its check for duplicates: one may come twice.       *)
(***************************************************************************)
EXTENDS Integers, FiniteSets, SequencesExt

CONSTANTS
  MaxTasks,
  MaxDependents,    (* MAX_DEPENDENTS_PER_TASK                               *)
  MaxRuns,          (* bound on the runs of a task                           *)
  MaxDuplicates,    (* bound on the deliveries that come twice               *)
  MaxEdits,         (* bound on cancellations and deletions by the operator  *)
  MaxCrashes        (* bound on the restarts                                 *)

ASSUME TaskAssumption ==
  /\ {MaxTasks, MaxDependents, MaxRuns} \subseteq Nat \ {0}
  /\ {MaxDuplicates, MaxEdits, MaxCrashes} \subseteq Nat

VARIABLES
  status,      (* of every task, absent before and deleted after its row     *)
  parents,     (* the rows of task_dependencies                              *)
  keep,        (* the tasks with skipOnParentFailure = false                 *)
  wire,        (* deliveries of messages of a task still to come             *)
  sent,        (* messages sent for a task                                   *)
  runs,        (* executions of a task begun                                 *)
  at, todo,    (* where an execution is, and the tasks it has to trigger     *)
  again,       (* tasks with a message that came twice                       *)
  tainted,     (* tasks triggered by a task that may have run twice          *)
  missed,      (* tasks whose message or cancellation nobody owes any more   *)
  duplicates, edits, crashes

rows == <<status, parents, keep>>
execs == <<runs, at, todo>>
ghosts == <<again, tainted, missed>>
bounds == <<duplicates, edits, crashes>>
vars == <<rows, wire, sent, execs, ghosts, bounds>>

Tasks == 1 .. MaxTasks
Executions == Tasks \X (1 .. MaxRuns)
Ended == {"done", "failed", "cancelled"}
Statuses == {"absent", "pending", "in_progress", "deleted"} \cup Ended

Init ==
  /\ status = [t \in Tasks |-> "absent"]
  /\ parents = [t \in Tasks |-> {}] /\ keep = {}
  /\ wire = [t \in Tasks |-> 0] /\ sent = wire /\ runs = wire
  /\ at = [e \in Executions |-> "none"]
  /\ todo = [e \in Executions |-> <<>>]
  /\ again = {} /\ tainted = {} /\ missed = {}
  /\ duplicates = 0 /\ edits = 0 /\ crashes = 0

-----------------------------------------------------------------------------
(* TaskStore.  updateTask changes nothing when the row is gone.            *)
Exists(t) == status[t] \notin {"absent", "deleted"}
Mark(st, t, new) == IF Exists(t) THEN [st EXCEPT ![t] = new] ELSE st
Dependents(t) == {c \in Tasks : t \in parents[c]}
CanExecute(st, t) == \A p \in parents[t] : st[p] = "done"

-----------------------------------------------------------------------------
(* telegramCreateScheduledTaskExecutor.  Ids are those of earlier tasks,   *)
(* so that there are no cycles.                                            *)
Insert(t, ps, kept) ==
  /\ status[t] = "absent" /\ \A p \in 1 .. t - 1 : status[p] # "absent"
  /\ status' = [status EXCEPT ![t] = "pending"]
  /\ parents' = [parents EXCEPT ![t] = ps]
  /\ keep' = IF kept THEN keep \cup {t} ELSE keep
  /\ UNCHANGED <<execs, again, tainted, bounds>>

(* The message is scheduled after the row was inserted; that may fail.     *)
Schedule(t) ==
  /\ Insert(t, {}, FALSE)
  /\ \/ wire' = [wire EXCEPT ![t] = 1] /\ sent' = [sent EXCEPT ![t] = 1]
        /\ UNCHANGED missed
     \/ missed' = missed \cup {t} /\ UNCHANGED <<wire, sent>>

(* A task with parents gets its message from the last of them that         *)
(* completes, from nobody when there is none to complete, and is cancelled *)
(* by one that fails, by nobody when it had failed before.                 *)
Forgotten(cs, st, ps) ==
  {c \in cs : \/ \A p \in ps[c] : st[p] = "done"
              \/ \E p \in ps[c] : st[p] \in {"failed", "cancelled"}}
CreateDependent(t, ps, kept) ==
  /\ ps # {} /\ ps \subseteq 1 .. t - 1
  /\ \A p \in ps : Exists(p) /\ Cardinality(Dependents(p)) < MaxDependents
  /\ Insert(t, ps, kept)
  /\ missed' = missed \cup Forgotten({t}, status', parents')
  /\ UNCHANGED <<wire, sent>>

(* A parent that is gone breaks off the insertion of the dependencies; the *)
(* row of the task stays.                                                  *)
CreateBroken(t, ps, kept) ==
  /\ \E p \in 1 .. t - 1 : status[p] = "deleted"
  /\ ps \subseteq {p \in 1 .. t - 1 : Exists(p)}
  /\ Insert(t, ps, kept)
  /\ missed' = missed \cup Forgotten({t}, status', parents')
  /\ UNCHANGED <<wire, sent>>

-----------------------------------------------------------------------------
(* ScheduledTaskHandler.execute, up to the turn of the agent.              *)
Take(t) == wire[t] > 0 /\ wire' = [wire EXCEPT ![t] = @ - 1]
Skip(t) ==
  /\ Take(t)
  /\ ~Exists(t) \/ status[t] \in Ended \/ ~CanExecute(status, t)
  /\ UNCHANGED <<rows, sent, execs, ghosts, bounds>>
Start(t) ==
  /\ Take(t)
  /\ status[t] \in {"pending", "in_progress"}
  /\ CanExecute(status, t)
  /\ runs[t] < MaxRuns
  /\ status' = [status EXCEPT ![t] = "in_progress"]
  /\ runs' = [runs EXCEPT ![t] = @ + 1]
  /\ at' = [at EXCEPT ![<<t, runs[t] + 1>>] = "agent"]
  /\ UNCHANGED <<parents, keep, sent, todo, ghosts, bounds>>

(* After the turn: the task is done, whatever became of it in between, and *)
(* onTaskComplete collects, in the same step, the dependents to trigger;   *)
(* the query for them asks for no order.                                   *)
ReadyUnlessStarted(st) == {c \in Tasks : st[c] = "pending"}
Ready(st) == {c \in Tasks : st[c] = "pending" /\ CanExecute(st, c)}
ToTrigger(t, st) == SetToSeq(Dependents(t) \cap Ready(st))
Complete(e) ==
  /\ at[e] = "agent"
  /\ status' = Mark(status, e[1], "done")
  /\ todo' = [todo EXCEPT ![e] = ToTrigger(e[1], status')]
  /\ at' = [at EXCEPT ![e] = IF todo'[e] = <<>> THEN "over" ELSE "triggering"]
  /\ UNCHANGED <<parents, keep, wire, sent, runs, ghosts, bounds>>

(* The turn or the delivery of its answer throws: the task failed, and     *)
(* onTaskFail cancels what waits for it, through all generations, but not  *)
(* a task that was to be kept.                                             *)
CascadeChildren(f) ==
  {c \in Tasks : status[c] = "pending" /\ c \notin keep /\ f \in parents[c]}
Cascade(f) ==
  LET hit[c \in Tasks] ==
        /\ status[c] = "pending" /\ c \notin keep
        /\ \E p \in parents[c] : p = f \/ hit[p]
  IN {c \in Tasks : hit[c]}
Fail(e) ==
  /\ at[e] = "agent"
  /\ at' = [at EXCEPT ![e] = "over"]
  /\ status' = [t \in Tasks |-> IF t \in Cascade(e[1]) THEN "cancelled"
                                ELSE Mark(status, e[1], "failed")[t]]
  /\ UNCHANGED <<parents, keep, wire, sent, runs, todo, ghosts, bounds>>

(* triggerTask: a message for the first of the collected tasks.  When      *)
(* sending throws, the task is marked as failed, but not what waits for    *)
(* it; the message may have been sent.                                     *)
Advance(e) ==
  /\ at[e] = "triggering"
  /\ todo' = [todo EXCEPT ![e] = Tail(@)]
  /\ at' = [at EXCEPT ![e] = IF Tail(todo[e]) = <<>> THEN "over" ELSE @]
  /\ UNCHANGED <<parents, keep, runs, again, bounds>>
Send(c, from) ==
  /\ wire' = [wire EXCEPT ![c] = @ + 1]
  /\ sent' = [sent EXCEPT ![c] = @ + 1]
  /\ tainted' = IF from \in again \cup tainted THEN tainted \cup {c} ELSE tainted
GiveUp(c) ==
  /\ status' = Mark(status, c, "failed")
  /\ missed' = missed \cup Dependents(c)
Trigger(e) ==
  LET c == Head(todo[e])
  IN /\ Advance(e)
     /\ IF Exists(c)
        THEN \/ Send(c, e[1]) /\ UNCHANGED <<status, missed>>
             \/ Send(c, e[1]) /\ GiveUp(c)
             \/ GiveUp(c) /\ UNCHANGED <<wire, sent, tainted>>
        ELSE UNCHANGED <<status, missed, wire, sent, tainted>>

-----------------------------------------------------------------------------
(* Telegram delivers a message again.                                      *)
Duplicate(t) ==
  /\ duplicates < MaxDuplicates
  /\ sent[t] > 0
  /\ duplicates' = duplicates + 1
  /\ wire' = [wire EXCEPT ![t] = @ + 1]
  /\ again' = again \cup {t}
  /\ UNCHANGED <<rows, sent, execs, tainted, missed, edits, crashes>>

(* webui/routes/tasks.ts: any task is cancelled or deleted, whatever it is *)
(* doing.  The dependencies on a deleted task go with it.                  *)
Edit(t) == Exists(t) /\ edits < MaxEdits /\ edits' = edits + 1
Cancel(t) ==
  /\ Edit(t)
  /\ status' = [status EXCEPT ![t] = "cancelled"]
  /\ missed' = missed \cup Dependents(t)
  /\ UNCHANGED <<parents, keep, wire, sent, execs, again, tainted, duplicates, crashes>>
DeleteRowOnly(t) ==
  /\ Edit(t)
  /\ status' = [status EXCEPT ![t] = "deleted"]
  /\ UNCHANGED <<parents, keep, wire, sent, execs, ghosts, duplicates, crashes>>
Delete(t) ==
  /\ Edit(t)
  /\ status' = [status EXCEPT ![t] = "deleted"]
  /\ parents' = [c \in Tasks |-> IF c = t THEN {} ELSE parents[c] \ {t}]
  /\ missed' = missed \cup Forgotten(Dependents(t), status', parents')
  /\ UNCHANGED <<keep, wire, sent, execs, again, tainted, duplicates, crashes>>

(* A restart drops the executions.                                         *)
Crash ==
  LET live == {e \in Executions : at[e] \in {"agent", "triggering"}}
  IN /\ live # {}
     /\ crashes < MaxCrashes
     /\ crashes' = crashes + 1
     /\ at' = [e \in Executions |-> IF e \in live THEN "over" ELSE at[e]]
     /\ todo' = [e \in Executions |-> <<>>]
     /\ missed' = missed \cup {t \in Tasks : \E e \in live :
                               t \in Range(todo[e]) \/ (at[e] = "agent" /\ t = e[1])}
     /\ UNCHANGED <<rows, wire, sent, runs, again, tainted, duplicates, edits>>

-----------------------------------------------------------------------------
Create(t) ==
  \/ Schedule(t)
  \/ \E ps \in SUBSET (1 .. t - 1), kept \in BOOLEAN :
       CreateDependent(t, ps, kept) \/ CreateBroken(t, ps, kept)
Deliver(t) == Skip(t) \/ Start(t)
Work(e) == Complete(e) \/ Fail(e) \/ Trigger(e)
Next ==
  \/ \E t \in Tasks : Create(t) \/ Deliver(t) \/ Duplicate(t) \/ Cancel(t) \/ Delete(t)
  \/ \E e \in Executions : Work(e)
  \/ Crash

(* Messages arrive, turns and requests to Telegram settle.                 *)
Progress == (\E t \in Tasks : Deliver(t)) \/ \E e \in Executions : Work(e)
Spec == Init /\ [][Next]_vars /\ WF_vars(Progress)

-----------------------------------------------------------------------------
TypeOK ==
  /\ status \in [Tasks -> Statuses]
  /\ \A t \in Tasks : parents[t] \subseteq {p \in 1 .. t - 1 : Exists(p)}
  /\ keep \subseteq Tasks
  /\ wire \in [Tasks -> Nat] /\ sent \in [Tasks -> Nat]
  /\ runs \in [Tasks -> 0 .. MaxRuns]
  /\ at \in [Executions -> {"none", "agent", "triggering", "over"}]
  /\ \A e \in Executions :
       /\ (at[e] = "none") = (e[2] > runs[e[1]])
       /\ (at[e] = "triggering") = (todo[e] # <<>>)
  /\ again \cup tainted \cup missed \subseteq Tasks
  /\ duplicates \in 0 .. MaxDuplicates /\ edits \in 0 .. MaxEdits
  /\ crashes \in 0 .. MaxCrashes

(* However the runs of its parents interleave, one message is sent for a   *)
(* task, and it runs once: the last parent to complete is the only one to  *)
(* find all of them done.  And it runs, and stays done, on parents that    *)
(* are over.  Only a message that came twice makes a task run twice, and   *)
(* its dependents may get two messages then.                               *)
OneMessageOneRun ==
  \A t \in Tasks :
    /\ sent[t] > 1 => t \in tainted
    /\ runs[t] > 1 => t \in again \cup tainted
RunsAfterParents ==
  \A t \in Tasks : status[t] \in {"in_progress", "done"} =>
    \A p \in parents[t] : status[p] \in Ended
OneRunInOrder == OneMessageOneRun /\ RunsAfterParents

(* No task waits for ever but for a cause: its message was lost, or nobody *)
(* owes it one, or it is to be kept though a parent failed, or a parent    *)
(* waits for ever for such a cause.  A failure reaches all the others.     *)
Stranded(t) ==
  LET stuck[c \in Tasks] ==
        \/ c \in missed
        \/ \E p \in parents[c] :
             \/ status[p] \in {"failed", "cancelled"} /\ c \in keep
             \/ status[p] # "done" /\ stuck[p]
  IN stuck[t]
EveryoneElseRuns ==
  \A t \in Tasks : status[t] = "pending" ~> (status[t] # "pending" \/ Stranded(t))
=============================================================================
