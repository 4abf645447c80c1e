----------------------------- MODULE AgentTurn -----------------------------
(***************************************************************************)
(* agent/runtime.ts with agent/loop/, the action ledger, the tool registry *)
(* and the session store: the turns of one session, that the turn          *)
(* coordinator runs one after the other.  A turn is named by its inbound   *)
(* message; a restart may bring the message again, and with it a further   *)
(* attempt at the turn.  /clear comes at any time, it does not go through  *)
(* the coordinator.                                                        *)
(*                                                                         *)
(* A turn that is blocked before it reaches the session changes nothing    *)
(* and is left out.  The arguments of a tool call are part of the tool.    *)
(***************************************************************************)
EXTENDS Transcript

CONSTANTS
  MaxTurns,         (* inbound messages, numbered as they first arrive       *)
  Actions, Reads,   (* tool calls that do and do not act on the outside      *)
  Requests,         (* what a response may ask for: its calls, those that a  *)
                    (* hook will block, and whether its text is silent       *)
  MaxRetries,       (* retries per kind of error that may pass               *)
  Fallbacks,        (* number of further providers                           *)
  MaxIterations, ToolConcurrency, KeepRecent,
  MaxAttempts       (* bound on the attempts at turns                        *)

ASSUME TurnAssumption ==
  /\ Actions \cap Reads = {}
  /\ \A q \in Requests :
       /\ q.calls \in Seq(Actions \cup Reads) \ {<<>>}
       /\ q.blocked \subseteq DOMAIN q.calls /\ q.silent \in BOOLEAN
  /\ MaxRetries \in [{"rate_limit", "server_error"} -> Nat] /\ Fallbacks \in Nat
  /\ MaxTurns \in Nat
  /\ {MaxIterations, ToolConcurrency, KeepRecent, MaxAttempts} \subseteq Nat \ {0}

VARIABLES
  pc,          (* where the attempt in progress is                           *)
  run,         (* its local variables                                        *)
  seen,        (* the turns this process has begun                           *)
  attempts,    (* number of attempts begun                                   *)
  cache, file, (* the transcript of the session, in memory and on disk       *)
  cold,        (* is there none in memory?                                   *)
  flushed,     (* number of entries known to be on disk                      *)
  status, executions, told,  (* the action ledger, as in ActionOnce          *)
  cleared,     (* the attempts over when the history was last cleared        *)
  revived,     (* did a compaction bring them back?                          *)
  torn         (* tool calls that are not in the transcript with the results *)
               (* of their whole batch: left out of it, or never recorded    *)

loopVars == <<pc, run, seen, attempts>>
logVars == <<cache, file, cold, flushed>>
ledgerVars == <<status, executions, told>>
ghosts == <<cleared, revived, torn>>
vars == <<loopVars, logVars, ledgerVars, ghosts>>

Tools == Actions \cup Reads
Turns == 1 .. MaxTurns
Keys == Turns \X Actions
Attempts == 1 .. MaxAttempts

NoRetries == [kind \in DOMAIN MaxRetries |-> 0]
Fresh(t, history) ==
  [turn |-> t, context |-> history, current |-> TRUE, iteration |-> 0,
   overflows |-> 0, retries |-> NoRetries, fallback |-> 0, attempted |-> FALSE,
   acted |-> FALSE, batch |-> <<>>, out |-> <<>>]
Nothing == [i \in {} |-> FALSE]

Init ==
  /\ pc = "idle" /\ run = Nothing
  /\ seen = {} /\ attempts = 0
  /\ cache = <<>> /\ file = <<>> /\ cold = FALSE /\ flushed = 0
  /\ status = [k \in Keys |-> "none"]
  /\ executions = [k \in Keys |-> 0]
  /\ told = [k \in Keys |-> {}]
  /\ cleared = 0 /\ revived = FALSE /\ torn = {}

-----------------------------------------------------------------------------
(* session/store.ts and session/transcript.ts.  A session has an id of its *)
(* own and nobody returns to an earlier one, so only the transcript of the *)
(* session in the database is kept.  A turn stays with the id it read:     *)
(* run.current says whether that is still the one in the database.         *)
NewSession(log, onDisk) ==
  cache' = log /\ file' = log /\ cold' = FALSE /\ flushed' = onDisk

(* appendToTranscript: in memory at once, in the file in this order.       *)
AppendTo(entries) ==
  /\ cache' = (IF run.current THEN cache \o entries ELSE cache)
  /\ file' = (IF run.current THEN file \o entries ELSE file)
  /\ UNCHANGED <<cold, flushed>>

EndTurn == pc' = "idle" /\ run' = Nothing
EnterLoop == pc' = "head"

(* buildTurnContext: the session is read, or reset first when the policy   *)
(* says so, and its transcript loaded.                                     *)
BeginWith(t, history) ==
  /\ pc = "idle"
  /\ t \notin seen /\ t <= attempts + 1
  /\ attempts < MaxAttempts
  /\ attempts' = attempts + 1
  /\ seen' = seen \cup {t}
  /\ pc' = "preparing"
  /\ run' = Fresh(t, history)
  /\ UNCHANGED <<ledgerVars, ghosts>>
Begin(t) ==
  /\ BeginWith(t, IF cold THEN Sanitize(file) ELSE cache)
  /\ cache' = run'.context
  /\ cold' = FALSE
  /\ UNCHANGED <<file, flushed>>
BeginAfterReset(t) == BeginWith(t, <<>>) /\ NewSession(<<>>, 0)

Said == UserMessage(attempts)
AppendUser ==
  /\ pc = "preparing"
  /\ EnterLoop
  /\ AppendTo(<<Said>>)
  /\ run' = [run EXCEPT !.context = Append(@, Said)]
  /\ UNCHANGED <<seen, attempts, ledgerVars, ghosts>>

(* Preemptive compaction: the summary is awaited, then the compacted       *)
(* transcript, which holds the user message already, becomes that of the   *)
(* session and the user message is appended.                               *)
StartCompaction ==
  /\ pc = "preparing"
  /\ pc' = "compacting"
  /\ UNCHANGED <<run, seen, attempts, logVars, ledgerVars, ghosts>>
EndCompaction ==
  LET compacted == Compact(Append(run.context, Said), KeepRecent)
  IN /\ pc = "compacting"
     /\ EnterLoop
     /\ run' = [run EXCEPT !.current = TRUE, !.context = Append(compacted, Said)]
     /\ NewSession(run'.context, Len(compacted))
     /\ revived' = (revived \/ ~run.current)
     /\ UNCHANGED <<seen, attempts, ledgerVars, cleared, torn>>

-----------------------------------------------------------------------------
(* runAgenticLoop: the budgets are looked at before every call of the      *)
(* model; a turn that is out of time ends, with the last response or,      *)
(* before the first, with an error.                                        *)
OutOfTime ==
  /\ pc = "head"
  /\ EndTurn
  /\ UNCHANGED <<seen, attempts, logVars, ledgerVars, ghosts>>
CallModel ==
  /\ pc = "head"
  /\ run.iteration < MaxIterations
  /\ pc' = "model"
  /\ run' = [run EXCEPT !.iteration = @ + 1]
  /\ UNCHANGED <<seen, attempts, logVars, ledgerVars, ghosts>>

(* client.ts: a response whose text is silent is not written to the        *)
(* transcript, with the tool calls it makes.                               *)
Persist(silent, entry) == AppendTo(IF silent THEN <<>> ELSE <<entry>>)
ModelReplies(silent) ==
  /\ pc = "model"
  /\ Persist(silent, Reply(attempts))
  /\ EndTurn
  /\ UNCHANGED <<seen, attempts, ledgerVars, ghosts>>

CallId(i) == <<attempts, run.iteration, i>>
ModelAsks(q) ==
  LET ids == {CallId(i) : i \in DOMAIN q.calls}
  IN /\ pc = "model"
     /\ Persist(q.silent, ToolCalls(attempts, ids))
     /\ torn' = torn \cup IF q.silent THEN ids ELSE {}
     /\ pc' = "tools"
     /\ run' = [run EXCEPT
                  !.context = Append(@, ToolCalls(attempts, ids)),
                  !.batch = q.calls,
                  !.out = [i \in DOMAIN q.calls |->
                             IF i \in q.blocked THEN "blocked" ELSE "open"]]
     /\ UNCHANGED <<seen, attempts, ledgerVars,
                    cleared, revived>>

(* recoverLlmError: after a rate limit or a server error the call is made  *)
(* again.  That gives the iteration back, only the counters of the attempt *)
(* with this provider bound it.                                            *)
RecoverWithFreshCounters(counters) ==
  /\ EnterLoop
  /\ run' = [counters EXCEPT !.iteration = @ - 1, !.retries = NoRetries]
Recover(counters) ==
  /\ EnterLoop
  /\ run' = [counters EXCEPT !.iteration = @ - 1]
Retry(kind) ==
  /\ pc = "model"
  /\ run.retries[kind] < MaxRetries[kind]
  /\ Recover([run EXCEPT !.retries[kind] = @ + 1])
  /\ UNCHANGED <<seen, attempts, logVars, ledgerVars, ghosts>>

(* A first overflow: the transcript is archived, then the session starts   *)
(* again with the user message.                                            *)
ContextOverflows ==
  /\ pc = "model"
  /\ run.overflows = 0
  /\ pc' = "archiving"
  /\ run' = [run EXCEPT !.overflows = 1]
  /\ UNCHANGED <<seen, attempts, logVars, ledgerVars, ghosts>>
RestartSession ==
  /\ pc = "archiving"
  /\ Recover([run EXCEPT !.current = TRUE, !.context = <<Said>>])
  /\ NewSession(<<Said>>, 0)
  /\ UNCHANGED <<seen, attempts, ledgerVars, ghosts>>

(* resolveProviderFallback: retries are used up, no action was attempted.  *)
FallBack ==
  /\ pc = "model"
  /\ \E kind \in DOMAIN MaxRetries : run.retries[kind] >= MaxRetries[kind]
  /\ run.fallback < Fallbacks
  /\ ~run.attempted
  /\ Recover([run EXCEPT !.fallback = @ + 1, !.overflows = 0, !.retries = NoRetries])
  /\ UNCHANGED <<seen, attempts, logVars, ledgerVars, ghosts>>

(* Any other error, and one that is out of retries, ends the turn.         *)
TurnFails ==
  /\ pc = "model"
  /\ EndTurn
  /\ UNCHANGED <<seen, attempts, logVars, ledgerVars, ghosts>>

-----------------------------------------------------------------------------
(* executeToolBatch: calls run in the order of the response; only reads    *)
(* that follow each other run together.                                    *)
Over == {"blocked", "over"}
IsRead(i) == run.batch[i] \in Reads
Running == {i \in DOMAIN run.out : run.out[i] = "running"}
MayStart(i) ==
  /\ pc = "tools"
  /\ run.out[i] = "open"
  /\ \A j \in 1 .. i - 1 :
       \/ run.out[j] \in Over
       \/ run.out[j] = "running" /\ IsRead(j) /\ IsRead(i)
            /\ \A k \in j .. i : IsRead(k) /\ run.out[k] # "blocked"
  /\ Cardinality(Running) < ToolConcurrency

Settle(i) == run' = [run EXCEPT !.out[i] = "over"]
KeyOf(i) == <<run.turn, run.batch[i]>>
Tell(k, answer) == told' = [told EXCEPT ![k] = @ \cup {answer}]

(* ToolRegistry.execute refuses an unknown tool, a caller without access   *)
(* and arguments that do not fit.                                          *)
Refuse(i) ==
  /\ MayStart(i)
  /\ Settle(i)
  /\ UNCHANGED <<pc, seen, attempts, logVars, ledgerVars, ghosts>>

StartRead(i) ==
  /\ MayStart(i)
  /\ IsRead(i)
  /\ run' = [run EXCEPT !.out[i] = "running"]
  /\ UNCHANGED <<pc, seen, attempts, logVars, ledgerVars, ghosts>>
(* A read is raced against a timeout.                                      *)
EndRead(i) ==
  /\ pc = "tools"
  /\ run.out[i] = "running"
  /\ IsRead(i)
  /\ Settle(i)
  /\ UNCHANGED <<pc, seen, attempts, logVars, ledgerVars, ghosts>>

(* reserveActionExecution: the row of the key is inserted before the tool  *)
(* runs; if there is one, its outcome is replayed or not known.            *)
Execute(i, k) ==
  /\ status[k] = "none"
  /\ status' = [status EXCEPT ![k] = "running"]
  /\ executions' = [executions EXCEPT ![k] = @ + 1]
  /\ run' = [run EXCEPT !.out[i] = "running", !.acted = TRUE]
  /\ UNCHANGED told
Replay(i, k) ==
  /\ status[k] \in {"succeeded", "failed"}
  /\ Settle(i)
  /\ Tell(k, status[k])
  /\ UNCHANGED <<status, executions>>
RefuseUnknownReruns(i, k) ==
  /\ status[k] = "running"
  /\ executions' = [executions EXCEPT ![k] = @ + 1]
  /\ run' = [run EXCEPT !.out[i] = "running", !.acted = TRUE]
  /\ UNCHANGED <<status, told>>
RefuseUnknown(i, k) ==
  /\ status[k] = "running"
  /\ Settle(i)
  /\ Tell(k, "unknown")
  /\ UNCHANGED <<status, executions>>
StartAction(i) ==
  /\ MayStart(i)
  /\ ~IsRead(i)
  /\ Execute(i, KeyOf(i)) \/ Replay(i, KeyOf(i)) \/ RefuseUnknown(i, KeyOf(i))
  /\ UNCHANGED <<pc, seen, attempts, logVars, ghosts>>

(* An action is never cut off; completeActionExecution records how it      *)
(* ended, by its result or by an exception.                                *)
EndAction(i, outcome) ==
  /\ pc = "tools"
  /\ run.out[i] = "running"
  /\ ~IsRead(i)
  /\ Settle(i)
  /\ status' = [status EXCEPT ![KeyOf(i)] = outcome]
  /\ Tell(KeyOf(i), outcome)
  /\ UNCHANGED <<pc, seen, attempts, executions, logVars, ghosts>>

(* recordToolResults; then the time budget or that of iterations may end   *)
(* the turn.                                                               *)
AttemptedActionSucceeded ==
  \E i \in DOMAIN run.out : ~IsRead(i) /\ status[KeyOf(i)] = "succeeded"
AttemptedAction == \E i \in DOMAIN run.out : run.out[i] # "blocked" /\ ~IsRead(i)
Results == [i \in DOMAIN run.batch |-> ToolResult(attempts, CallId(i))]
RecordResults ==
  /\ pc = "tools"
  /\ \A i \in DOMAIN run.out : run.out[i] \in Over
  /\ AppendTo(Results)
  /\ \/ EndTurn
     \/ /\ run.iteration < MaxIterations
        /\ EnterLoop
        /\ run' = [run EXCEPT !.context = @ \o Results,
                               !.attempted = @ \/ AttemptedAction,
                               !.batch = <<>>, !.out = <<>>]
  /\ UNCHANGED <<seen, attempts, ledgerVars, ghosts>>

(* A batch may fail without the process: the tools are missing, or the     *)
(* hooks leave arguments that cannot be copied, before anything runs; or,  *)
(* while results are recorded, one that cannot be copied or serialized.    *)
(* The turn ends and the transcript stays as it is.                        *)
BatchIds == {CallId(i) : i \in DOMAIN run.batch}
ToolPhaseFails ==
  /\ pc = "tools"
  /\ \E k \in 0 .. Len(run.batch) - 1 :
       /\ \/ \A i \in DOMAIN run.out : run.out[i] \in Over
          \/ k = 0 /\ \A i \in DOMAIN run.out : run.out[i] \in {"blocked", "open"}
       /\ AppendTo(SubSeq(Results, 1, k))
  /\ EndTurn
  /\ torn' = torn \cup BatchIds
  /\ UNCHANGED <<seen, attempts, ledgerVars, cleared, revived>>

-----------------------------------------------------------------------------
(* clearHistory, from the /clear command.                                  *)
Clear ==
  /\ NewSession(<<>>, 0)
  /\ run' = IF pc = "idle" THEN run ELSE [run EXCEPT !.current = FALSE]
  /\ cleared' = IF pc = "idle" THEN attempts ELSE attempts - 1
  /\ revived' = FALSE
  /\ UNCHANGED <<pc, seen, attempts, ledgerVars, torn>>

(* The process ends and starts again.  What was appended to the transcript *)
(* of the session and not flushed may be lost, from some entry on, or one  *)
(* entry, whose write failed.                                              *)
SurvivorsUnflushed(log, n) == {SubSeq(log, 1, k) : k \in 0 .. Len(log)}
Survivors(log, n) ==
  {SubSeq(log, 1, k) : k \in n .. Len(log)} \cup {RemoveAt(log, k) : k \in n + 1 .. Len(log)}
Crash ==
  /\ pc # "idle"
  /\ EndTurn
  /\ seen' = {}
  /\ cold' = TRUE
  /\ cache' = <<>>
  /\ file' \in Survivors(file, flushed)
  /\ UNCHANGED <<attempts, flushed, ledgerVars, ghosts>>

-----------------------------------------------------------------------------
ToolStep(i) == Refuse(i) \/ StartRead(i) \/ EndRead(i) \/ StartAction(i)
ActionEnds ==
  \E i \in DOMAIN run.out, outcome \in {"succeeded", "failed"} : EndAction(i, outcome)
Progress ==
  \/ AppendUser \/ StartCompaction \/ EndCompaction
  \/ OutOfTime \/ CallModel
  \/ \E silent \in BOOLEAN : ModelReplies(silent)
  \/ \E q \in Requests : ModelAsks(q)
  \/ \E kind \in DOMAIN MaxRetries : Retry(kind)
  \/ ContextOverflows \/ RestartSession
  \/ FallBack \/ TurnFails
  \/ pc = "tools" /\ \E i \in DOMAIN run.out : ToolStep(i)
  \/ RecordResults \/ ToolPhaseFails

Next ==
  \/ \E t \in Turns : Begin(t) \/ BeginAfterReset(t)
  \/ Progress
  \/ pc = "tools" /\ ActionEnds
  \/ Clear \/ Crash

Spec == Init /\ [][Next]_vars
(* Every promise of a turn settles in time but that of an action.          *)
FairSpec == Spec /\ WF_vars(Progress)

-----------------------------------------------------------------------------
TypeOK ==
  /\ pc \in {"idle", "preparing", "compacting", "head", "model", "archiving", "tools"}
  /\ pc # "idle" =>
       /\ run.turn \in Turns /\ run.current \in BOOLEAN
       /\ run.iteration \in 0 .. MaxIterations
       /\ \A kind \in DOMAIN MaxRetries : run.retries[kind] \in 0 .. MaxRetries[kind]
       /\ run.overflows \in 0 .. 1 /\ run.fallback \in 0 .. Fallbacks
       /\ DOMAIN run.out = DOMAIN run.batch
  /\ seen \subseteq Turns /\ attempts \in 0 .. MaxAttempts
  /\ cold \in BOOLEAN /\ flushed \in 0 .. Len(file)
  /\ status \in [Keys -> {"none", "running", "succeeded", "failed"}]
  /\ executions \in [Keys -> Nat]
  /\ told \in [Keys -> SUBSET {"succeeded", "failed", "unknown"}]
  /\ cleared \in 0 .. attempts /\ revived \in BOOLEAN
  /\ torn \subseteq Attempts \X (1 .. MaxIterations) \X Nat

(* Every call of the model shows it the results of every tool call right   *)
(* behind the call, and no others, whatever was lost in a restart or cut   *)
(* off by a compaction.  The calls of a batch that was left out of the     *)
(* transcript, or whose turn failed before all results were recorded, are  *)
(* the one exception: they never make any other call lose its results.     *)
IntactWellFormed == pc = "model" => WellFormed(Without(run.context, torn))

(* Nor does the context hold what an attempt that was over left in a       *)
(* history that was cleared since, unless the turn began before that, or a *)
(* compaction that was running at the time brought it back.                *)
ClearedIsForgotten ==
  pc = "model" /\ run.current /\ ~revived =>
    \A e \in Range(run.context) : e.from \cap 1 .. cleared = {}

ContextSound == IntactWellFormed /\ ClearedIsForgotten

(* What a turn reads from the disk after a restart is well formed without  *)
(* any exception: the sanitizer repairs what crashes, lost writes, silent  *)
(* responses and failed batches left there.                                *)
RestartRepairs ==
  [][pc = "idle" /\ cold /\ pc' = "preparing" => WellFormed(run'.context)]_vars

(* A turn does not go to another provider once it has acted.               *)
NoFallbackAfterAction ==
  [][pc = "model" /\ pc' = "head" /\ run'.fallback # run.fallback => ~run.acted]_vars

(* Every tool, with its arguments, is executed once per inbound message,   *)
(* through repeated calls, replays of the turn, crashes and overflows, and *)
(* the model is told the outcome of that execution or that it is unknown.  *)
Once == INSTANCE ActionOnce
ImplementsActionOnce == Once!Spec

(* No mix of retries, fallbacks and budgets keeps a turn going for ever:   *)
(* only an action, which is never cut off, can.                            *)
ActionRuns == pc = "tools" /\ \E i \in Running : ~IsRead(i)
HangsOnlyInActions == []<>(pc = "idle" \/ ActionRuns)

-----------------------------------------------------------------------------
(* A statement the code does not keep.  "Sanitize messages to remove       *)
(* orphaned [...] toolResults": no call of the model shows it results of a *)
(* call that it is not shown.                                              *)
ResultsHaveCalls == pc = "model" => ~HasOrphanedToolResults(run.context)
=============================================================================
