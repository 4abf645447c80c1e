-------------------------- MODULE AgentTurnProofs --------------------------
(***************************************************************************)
(* Theorems about AgentTurn for any tools, requests, retries, fallbacks    *)
(* and budgets, and any number of turns, attempts, crashes and clears.     *)
(***************************************************************************)
EXTENDS AgentTurn, TranscriptProofs

LEMMA Constants ==
  /\ \A q \in Requests : /\ q.calls \in Seq(Tools) /\ q.calls # <<>>
                         /\ q.silent \in BOOLEAN
  /\ DOMAIN MaxRetries = {"rate_limit", "server_error"}
  /\ \A kind \in DOMAIN MaxRetries : MaxRetries[kind] \in Nat
  /\ Fallbacks \in Nat /\ MaxTurns \in Nat
  /\ MaxIterations \in Nat \ {0} /\ MaxAttempts \in Nat \ {0} /\ KeepRecent \in Nat \ {0}
  /\ \A i \in Tools : i \notin Actions => i \in Reads
  /\ \A i \in Tools : i \notin Reads <=> i \in Actions
  BY TurnAssumption DEF Tools

Ids == Attempts \X (1 .. MaxIterations) \X (Nat \ {0})
Entries == {e \in [kind : {"user", "reply", "calls", "result", "summary"},
                   from : SUBSET Attempts, ids : SUBSET Ids] : Proper(e)}
Outs == {"blocked", "open", "running", "over"}
Runs ==
  [turn : Turns, context : Seq(Entries), current : BOOLEAN, iteration : 0 .. MaxIterations,
   overflows : 0 .. 1, retries : [DOMAIN MaxRetries -> Nat], fallback : 0 .. Fallbacks,
   attempted : BOOLEAN, acted : BOOLEAN, batch : Seq(Tools), out : Seq(Outs)]

(* The type invariant with the types of the local variables and of the     *)
(* transcripts, and what the other parts of it rest on: only a call of the *)
(* model gives an iteration back.                                          *)
LogTypes == /\ cache \in Seq(Entries) /\ file \in Seq(Entries)
            /\ cold \in BOOLEAN /\ flushed \in 0 .. Len(file)
RunTypes ==
  /\ pc \in {"idle", "preparing", "compacting", "head", "model", "archiving", "tools"}
  /\ attempts \in 0 .. MaxAttempts
  /\ pc # "idle" =>
       /\ run \in Runs /\ attempts \in Attempts
       /\ \A kind \in DOMAIN MaxRetries : run.retries[kind] \in 0 .. MaxRetries[kind]
       /\ Len(run.out) = Len(run.batch)
       /\ pc \in {"model", "archiving", "tools"} => run.iteration # 0
LedgerTypes ==
  /\ status \in [Keys -> {"none", "running", "succeeded", "failed"}]
  /\ executions \in [Keys -> Nat]
  /\ told \in [Keys -> SUBSET {"succeeded", "failed", "unknown"}]
GhostTypes ==
  /\ seen \subseteq Turns
  /\ cleared \in 0 .. attempts /\ revived \in BOOLEAN
  /\ pc # "idle" => cleared < attempts
  /\ torn \subseteq Ids
Types == RunTypes /\ LogTypes /\ LedgerTypes /\ GhostTypes

LEMMA TypesImplyTypeOK == Types => TypeOK
<1> SUFFICES ASSUME Types PROVE TypeOK
  OBVIOUS
<1>1. torn \subseteq Attempts \X (1 .. MaxIterations) \X Nat
  BY DEF Types, GhostTypes, Ids
<1>2. ASSUME pc # "idle"
      PROVE  /\ run.turn \in Turns /\ run.current \in BOOLEAN
             /\ run.iteration \in 0 .. MaxIterations
             /\ \A kind \in DOMAIN MaxRetries : run.retries[kind] \in 0 .. MaxRetries[kind]
             /\ run.overflows \in 0 .. 1 /\ run.fallback \in 0 .. Fallbacks
             /\ DOMAIN run.out = DOMAIN run.batch
  <2>1. run \in Runs
    BY <1>2 DEF Types, RunTypes
  <2>2. run.out \in Seq(Outs) /\ run.batch \in Seq(Tools) /\ Len(run.out) = Len(run.batch)
    BY <1>2, <2>1 DEF Types, RunTypes, Runs
  <2> QED BY <1>2, <2>1, <2>2 DEF Types, RunTypes, Runs
<1> QED BY <1>1, <1>2 DEF Types, RunTypes, LogTypes, LedgerTypes, GhostTypes, TypeOK

(* What is written to a transcript.                                        *)
LEMMA EntryTypes ==
  /\ \A a \in Attempts : UserMessage(a) \in Entries /\ Reply(a) \in Entries
  /\ \A a \in Attempts, ids \in SUBSET Ids :
       IsFiniteSet(ids) /\ ids # {} => ToolCalls(a, ids) \in Entries
  /\ \A a \in Attempts, id \in Ids : ToolResult(a, id) \in Entries
  /\ \A old \in SUBSET Entries : Summary(old) \in Entries
<1>1. \A a \in Attempts : {a} \in SUBSET Attempts
  OBVIOUS
<1>2. \A old \in SUBSET Entries : UNION {e.from : e \in old} \in SUBSET Attempts
  BY DEF Entries
<1>3. IsFiniteSet({}) /\ \A id : IsFiniteSet({id})
  BY FS_EmptySet, FS_Singleton
<1>4. \A a \in Attempts : UserMessage(a) \in Entries /\ Reply(a) \in Entries
  BY <1>1, <1>3 DEF UserMessage, Reply, Entries, Proper
<1>5. \A a \in Attempts, ids \in SUBSET Ids :
        IsFiniteSet(ids) /\ ids # {} => ToolCalls(a, ids) \in Entries
  BY <1>1 DEF ToolCalls, Entries, Proper
<1>6. \A a \in Attempts, id \in Ids : ToolResult(a, id) \in Entries
  BY <1>1, <1>3 DEF ToolResult, Entries, Proper
<1>7. \A old \in SUBSET Entries : Summary(old) \in Entries
  BY <1>2, <1>3 DEF Summary, Entries, Proper
<1> QED BY <1>4, <1>5, <1>6, <1>7

LEMMA CallIdType ==
  ASSUME RunTypes, pc \in {"model", "tools"}, NEW i \in Nat \ {0}
  PROVE  CallId(i) \in Ids
<1>1. attempts \in Attempts /\ run \in Runs /\ run.iteration # 0
  BY DEF RunTypes
<1>2. run.iteration \in 0 .. MaxIterations
  BY <1>1 DEF Runs
<1>3. run.iteration \in 1 .. MaxIterations
  BY <1>1, <1>2, Constants
<1> QED BY <1>1, <1>3 DEF CallId, Ids

(* A batch has as many ids as it has calls.                                *)
LEMMA CallIdsCount ==
  ASSUME NEW n \in Nat
  PROVE  LET ids == {CallId(i) : i \in 1 .. n} IN IsFiniteSet(ids) /\ Cardinality(ids) = n
<1> DEFINE ids == {CallId(i) : i \in 1 .. n}
           f == [i \in 1 .. n |-> CallId(i)]
<1>1. \A i, j : CallId(i) = CallId(j) => i = j
  BY DEF CallId
<1>2. f \in Bijection(1 .. n, ids)
  BY <1>1 DEF Bijection, Injection, Surjection, IsInjective
<1>3. ExistsBijection(1 .. n, ids)
  BY <1>2 DEF ExistsBijection
<1>4. IsFiniteSet(1 .. n) /\ Cardinality(1 .. n) = n
  BY FS_Interval
<1> QED BY <1>3, <1>4, FS_Bijection

LEMMA ResultsType ==
  ASSUME RunTypes, pc = "tools"
  PROVE  Results \in Seq(Entries) /\ Len(Results) = Len(run.batch)
<1>1. run.batch \in Seq(Tools)
  BY DEF RunTypes, Runs
<1>2. Len(run.batch) \in Nat /\ DOMAIN run.batch = 1 .. Len(run.batch)
  BY <1>1, LenProperties
<1>3. \A i \in 1 .. Len(run.batch) : ToolResult(attempts, CallId(i)) \in Entries
  BY <1>2, CallIdType, EntryTypes DEF RunTypes
<1> QED BY <1>2, <1>3 DEF Results

-----------------------------------------------------------------------------
(* Types of the transcripts are kept by what is done to them.              *)
LEMMA AppendKeepsTypes ==
  ASSUME LogTypes, NEW entries \in Seq(Entries), AppendTo(entries)
  PROVE  LogTypes'
<1>1. cache \o entries \in Seq(Entries) /\ file \o entries \in Seq(Entries)
      /\ Len(file \o entries) = Len(file) + Len(entries)
      /\ Len(file) \in Nat /\ Len(entries) \in Nat
  BY ConcatProperties, LenProperties DEF LogTypes
<1>2. file' = file \/ file' = file \o entries
  BY DEF AppendTo
<1>3. flushed' \in 0 .. Len(file')
  BY <1>1, <1>2 DEF LogTypes, AppendTo
<1> QED BY <1>1, <1>3 DEF LogTypes, AppendTo

LEMMA NewSessionTypes ==
  ASSUME NEW log \in Seq(Entries), NEW n \in 0 .. Len(log), NewSession(log, n)
  PROVE  LogTypes'
  BY DEF NewSession, LogTypes

LEMMA SurvivorsTypes ==
  ASSUME NEW E, NEW log \in Seq(E), NEW n \in 0 .. Len(log), NEW left \in Survivors(log, n)
  PROVE  left \in Seq(E) /\ n <= Len(left)
<1>1. Len(log) \in Nat /\ n \in Nat /\ \A i \in 1 .. Len(log) : log[i] \in E
  BY LenProperties, ElementOfSeq
<1>2. ASSUME NEW k \in n .. Len(log), left = SubSeq(log, 1, k)
      PROVE  left \in Seq(E) /\ n <= Len(left)
  <2>1. k \in Nat /\ n <= k /\ k <= Len(log)
    BY <1>1
  <2>2. \A i \in 1 .. k : log[i] \in E
    BY <1>1, <2>1
  <2>3. SubSeq(log, 1, k) \in Seq(E) /\ Len(SubSeq(log, 1, k)) = IF 1 <= k THEN k - 1 + 1 ELSE 0
    BY <2>1, <2>2, SubSeqProperties
  <2> QED BY <1>1, <1>2, <2>1, <2>3
<1>3. ASSUME NEW k \in n + 1 .. Len(log), left = RemoveAt(log, k)
      PROVE  left \in Seq(E) /\ n <= Len(left)
  <2>1. k \in Nat /\ n + 1 <= k /\ k <= Len(log) /\ 1 <= k
    BY <1>1
  <2>2. /\ \A i \in 1 .. k - 1 : log[i] \in E
        /\ \A i \in k + 1 .. Len(log) : log[i] \in E
    BY <1>1, <2>1
  <2>3. /\ SubSeq(log, 1, k - 1) \in Seq(E)
        /\ Len(SubSeq(log, 1, k - 1)) = IF 1 <= k - 1 THEN k - 1 - 1 + 1 ELSE 0
    BY <2>1, <2>2, SubSeqProperties
  <2>4. /\ SubSeq(log, k + 1, Len(log)) \in Seq(E)
        /\ Len(SubSeq(log, k + 1, Len(log))) \in Nat
    BY <1>1, <2>1, <2>2, SubSeqProperties, LenProperties
  <2>5. left \in Seq(E)
        /\ Len(left) = Len(SubSeq(log, 1, k - 1)) + Len(SubSeq(log, k + 1, Len(log)))
    BY <1>3, <2>3, <2>4, ConcatProperties DEF RemoveAt
  <2>6. Len(SubSeq(log, 1, k - 1)) = k - 1 /\ n <= k - 1
    BY <1>1, <2>1, <2>3
  <2> HIDE DEF RemoveAt
  <2>7. ASSUME NEW a, NEW b \in Nat, a = k - 1, Len(left) = a + b PROVE n <= Len(left)
    BY <1>1, <2>1, <2>6, <2>7
  <2> QED BY <2>4, <2>5, <2>6, <2>7
<1> QED BY <1>2, <1>3 DEF Survivors

-----------------------------------------------------------------------------
(* Types are kept by every step.                                           *)
LEMMA BeginKeepsTypes ==
  ASSUME Types, NEW t \in Turns, Begin(t) \/ BeginAfterReset(t)
  PROVE  Types'
<1> USE Constants DEF Types
<1>1. PICK history \in Seq(Entries) :
        /\ BeginWith(t, history)
        /\ LogTypes'
  <2>1. Sanitize(file) \in Seq(Entries)
    BY SanitizeType DEF LogTypes
  <2>2. CASE Begin(t)
    <3> DEFINE history == IF cold THEN Sanitize(file) ELSE cache
    <3>1. history \in Seq(Entries) /\ BeginWith(t, history)
      BY <2>1, <2>2 DEF Begin, LogTypes
    <3>2. run'.context = history
      BY <3>1 DEF BeginWith, Fresh
    <3>3. LogTypes'
      BY <2>2, <3>1, <3>2 DEF Begin, LogTypes
    <3> QED BY <3>1, <3>3
  <2>3. CASE BeginAfterReset(t)
    <3>1. <<>> \in Seq(Entries) /\ 0 \in 0 .. Len(<<>>)
      OBVIOUS
    <3> QED BY <2>3, <3>1, NewSessionTypes DEF BeginAfterReset
  <2> QED BY <2>2, <2>3
<1>2. Fresh(t, history) \in Runs
  <2>1. <<>> \in Seq(Tools) /\ <<>> \in Seq(Outs)
    OBVIOUS
  <2> QED BY <2>1 DEF Fresh, NoRetries, Runs
<1>3. RunTypes'
  <2>1. pc' = "preparing" /\ run' = Fresh(t, history) /\ attempts' \in Attempts
    BY <1>1 DEF BeginWith, RunTypes, Attempts
  <2>2. \A kind \in DOMAIN MaxRetries : run'.retries[kind] = 0
    BY <2>1 DEF Fresh, NoRetries
  <2>3. run'.out = <<>> /\ run'.batch = <<>>
    BY <2>1 DEF Fresh
  <2> QED BY <1>1, <1>2, <2>1, <2>2, <2>3 DEF RunTypes, BeginWith, Attempts
<1>4. LedgerTypes'
  BY <1>1 DEF BeginWith, LedgerTypes, ledgerVars
<1>5. GhostTypes'
  BY <1>1 DEF BeginWith, GhostTypes, ghosts, RunTypes
<1> QED BY <1>1, <1>3, <1>4, <1>5

(* A step that leaves the ledger and the ghosts alone and ends the turn or *)
(* goes on with it.                                                        *)
LEMMA EndKeepsRunTypes ==
  ASSUME RunTypes, EndTurn, UNCHANGED attempts
  PROVE  RunTypes'
  BY DEF RunTypes, EndTurn

LEMMA AppendUserKeepsTypes ==
  ASSUME Types, AppendUser
  PROVE  Types'
<1> USE DEF Types
<1>1. Said \in Entries
  BY EntryTypes DEF Said, RunTypes, AppendUser
<1>2. LogTypes'
  <2>1. <<Said>> \in Seq(Entries)
    BY <1>1
  <2> QED BY <2>1, AppendKeepsTypes DEF AppendUser
<1>3. RunTypes'
  <2>1. Append(run.context, Said) \in Seq(Entries)
    BY <1>1 DEF RunTypes, Runs, AppendUser
  <2> QED BY <2>1 DEF RunTypes, Runs, AppendUser, EnterLoop
<1> QED BY <1>2, <1>3 DEF AppendUser, EnterLoop, LedgerTypes, GhostTypes, ledgerVars, ghosts

LEMMA StartCompactionKeepsTypes == Types /\ StartCompaction => Types'
  BY DEF Types, StartCompaction, RunTypes, LogTypes, LedgerTypes, GhostTypes, logVars,
         ledgerVars, ghosts

LEMMA EndCompactionKeepsTypes ==
  ASSUME Types, EndCompaction
  PROVE  Types'
<1> USE DEF Types
<1> DEFINE compacted == Compact(Append(run.context, Said), KeepRecent)
<1>1. Said \in Entries
  BY EntryTypes DEF Said, RunTypes, EndCompaction
<1>2. compacted \in Seq(Entries)
  <2>1. Append(run.context, Said) \in Seq(Entries)
    BY <1>1 DEF RunTypes, Runs, EndCompaction
  <2> QED BY <2>1, CompactType, EntryTypes, Constants
<1>3. /\ pc = "compacting" /\ pc' = "head"
      /\ run' = [run EXCEPT !.current = TRUE, !.context = Append(compacted, Said)]
      /\ NewSession(run'.context, Len(compacted))
      /\ revived' = (revived \/ ~run.current)
      /\ UNCHANGED <<seen, attempts, ledgerVars, cleared, torn>>
  BY DEF EndCompaction, EnterLoop
<1> HIDE DEF compacted
<1>4. /\ Append(compacted, Said) \in Seq(Entries)
      /\ Len(compacted) \in 0 .. Len(Append(compacted, Said))
  BY <1>1, <1>2
<1>5. run'.context = Append(compacted, Said)
  BY <1>3 DEF RunTypes, Runs
<1>6. LogTypes'
  BY <1>3, <1>4, <1>5, NewSessionTypes
<1>7. RunTypes'
  BY <1>3, <1>4 DEF RunTypes, Runs
<1> QED BY <1>3, <1>6, <1>7 DEF RunTypes, Runs, LedgerTypes, GhostTypes, ledgerVars

(* The iteration given back by recoverLlmError.                            *)
LEMMA RecoverKeepsRunTypes ==
  ASSUME RunTypes, pc \in {"model", "archiving"}, UNCHANGED attempts,
         NEW counters \in Runs, Recover(counters),
         counters.iteration = run.iteration,
         counters.out = run.out, counters.batch = run.batch,
         \A kind \in DOMAIN MaxRetries : counters.retries[kind] \in 0 .. MaxRetries[kind]
  PROVE  RunTypes'
<1> DEFINE left == counters.iteration - 1
<1>1. left \in 0 .. MaxIterations
  <2>1. run.iteration \in 0 .. MaxIterations /\ run.iteration # 0
    BY DEF RunTypes, Runs
  <2> QED BY <2>1, Constants
<1>2. pc' = "head" /\ run' = [counters EXCEPT !.iteration = left]
  BY DEF Recover, EnterLoop
<1> HIDE DEF left
<1>3. /\ run' \in Runs
      /\ run'.retries = counters.retries /\ run'.out = run.out /\ run'.batch = run.batch
  BY <1>1, <1>2 DEF Runs
<1> QED BY <1>2, <1>3 DEF RunTypes

LEMMA LoopKeepsTypes ==
  ASSUME Types,
         \/ OutOfTime \/ CallModel \/ \E kind \in DOMAIN MaxRetries : Retry(kind)
         \/ ContextOverflows \/ FallBack \/ TurnFails
  PROVE  Types'
<1> USE DEF Types
<1>1. UNCHANGED <<seen, attempts, cache, file, cold, flushed, status, executions, told,
                  cleared, revived, torn>>
  BY DEF OutOfTime, CallModel, Retry, ContextOverflows, FallBack, TurnFails, logVars,
         ledgerVars, ghosts
<1>2. RunTypes'
  <2>1. CASE OutOfTime \/ TurnFails
    BY <1>1, <2>1, EndKeepsRunTypes DEF OutOfTime, TurnFails
  <2>2. CASE CallModel
    <3>1. run \in Runs /\ run.iteration < MaxIterations
      BY <2>2 DEF CallModel, RunTypes
    <3> DEFINE next == run.iteration + 1
    <3>2. next \in 0 .. MaxIterations /\ next # 0
      BY <3>1, Constants DEF Runs
    <3>3. pc' = "model" /\ run' = [run EXCEPT !.iteration = next]
      BY <2>2 DEF CallModel
    <3> HIDE DEF next
    <3>4. /\ run' \in Runs /\ run'.iteration = next
          /\ run'.retries = run.retries /\ run'.out = run.out /\ run'.batch = run.batch
      BY <3>1, <3>2, <3>3 DEF Runs
    <3> QED BY <1>1, <2>2, <3>2, <3>3, <3>4 DEF RunTypes, CallModel
  <2>3. ASSUME NEW kind \in DOMAIN MaxRetries, Retry(kind) PROVE RunTypes'
    <3> DEFINE more == run.retries[kind] + 1
               counters == [run EXCEPT !.retries[kind] = more]
    <3>1. more \in 0 .. MaxRetries[kind] /\ more \in Nat
      <4>1. run.retries[kind] < MaxRetries[kind] /\ pc # "idle"
        BY <2>3 DEF Retry
      <4>2. run.retries[kind] \in 0 .. MaxRetries[kind]
        BY <2>3, <4>1 DEF RunTypes
      <4>3. MaxRetries[kind] \in Nat
        BY <2>3, Constants
      <4> QED BY <4>1, <4>2, <4>3
    <3>2. Recover(counters)
      BY <2>3 DEF Retry
    <3>3. run \in Runs /\ pc = "model"
      BY <2>3 DEF Retry, RunTypes
    <3> HIDE DEF more
    <3>4. /\ counters \in Runs
          /\ counters.retries = [run.retries EXCEPT ![kind] = more]
          /\ counters.iteration = run.iteration
          /\ counters.out = run.out /\ counters.batch = run.batch
      BY <3>1, <3>3 DEF Runs
    <3>5. \A other \in DOMAIN MaxRetries : counters.retries[other] \in 0 .. MaxRetries[other]
      BY <3>1, <3>3, <3>4 DEF RunTypes, Runs
    <3> HIDE DEF counters
    <3> QED BY <1>1, <3>2, <3>3, <3>4, <3>5, RecoverKeepsRunTypes
  <2>4. CASE ContextOverflows
    <3>1. run \in Runs /\ pc = "model" /\ pc' = "archiving"
      BY <2>4 DEF ContextOverflows, RunTypes
    <3>2. 1 \in 0 .. 1 /\ run' = [run EXCEPT !.overflows = 1]
      BY <2>4 DEF ContextOverflows
    <3>3. /\ run' \in Runs /\ run'.iteration = run.iteration
          /\ run'.retries = run.retries /\ run'.out = run.out /\ run'.batch = run.batch
      BY <3>1, <3>2 DEF Runs
    <3> QED BY <1>1, <3>1, <3>3 DEF RunTypes
  <2>5. CASE FallBack
    <3> DEFINE next == run.fallback + 1
               counters == [run EXCEPT !.fallback = next, !.overflows = 0, !.retries = NoRetries]
    <3>1. pc = "model" /\ Recover(counters) /\ run \in Runs
      BY <2>5 DEF FallBack, RunTypes
    <3>2. next \in 0 .. Fallbacks /\ 0 \in 0 .. 1
      <4>1. run.fallback < Fallbacks
        BY <2>5 DEF FallBack
      <4>2. run.fallback \in 0 .. Fallbacks
        BY <3>1 DEF Runs
      <4>3. Fallbacks \in Nat
        BY Constants
      <4> QED BY <4>1, <4>2, <4>3
    <3>3. /\ NoRetries \in [DOMAIN MaxRetries -> Nat]
          /\ \A kind \in DOMAIN MaxRetries : NoRetries[kind] \in 0 .. MaxRetries[kind]
      BY Constants DEF NoRetries
    <3> HIDE DEF next
    <3>4. /\ counters \in Runs /\ counters.retries = NoRetries
          /\ counters.iteration = run.iteration
          /\ counters.out = run.out /\ counters.batch = run.batch
      BY <3>1, <3>2, <3>3 DEF Runs
    <3> HIDE DEF counters
    <3> QED BY <1>1, <3>1, <3>3, <3>4, RecoverKeepsRunTypes
  <2> QED BY <2>1, <2>2, <2>3, <2>4, <2>5
<1> QED BY <1>1, <1>2 DEF LogTypes, LedgerTypes, GhostTypes, OutOfTime, CallModel, Retry,
                          ContextOverflows, FallBack, TurnFails

LEMMA RestartSessionKeepsTypes ==
  ASSUME Types, RestartSession
  PROVE  Types'
<1> USE DEF Types
<1>1. Said \in Entries
  BY EntryTypes DEF Said, RunTypes, RestartSession
<1>2. <<Said>> \in Seq(Entries) /\ 0 \in 0 .. Len(<<Said>>)
  BY <1>1
<1>3. LogTypes'
  BY <1>2, NewSessionTypes DEF RestartSession
<1>4. RunTypes'
  <2> DEFINE counters == [run EXCEPT !.current = TRUE, !.context = <<Said>>]
  <2>1. pc = "archiving" /\ Recover(counters) /\ run \in Runs /\ UNCHANGED attempts
    BY DEF RestartSession, RunTypes
  <2>2. /\ counters \in Runs /\ counters.retries = run.retries
        /\ counters.iteration = run.iteration
        /\ counters.out = run.out /\ counters.batch = run.batch
    BY <1>2, <2>1 DEF Runs
  <2>3. \A kind \in DOMAIN MaxRetries : run.retries[kind] \in 0 .. MaxRetries[kind]
    BY <2>1 DEF RunTypes
  <2> HIDE DEF counters
  <2> QED BY <2>1, <2>2, <2>3, RecoverKeepsRunTypes
<1> QED BY <1>3, <1>4 DEF RestartSession, Recover, EnterLoop, LedgerTypes, GhostTypes,
                          ledgerVars, ghosts

LEMMA ModelRepliesKeepsTypes ==
  ASSUME Types, NEW silent \in BOOLEAN, ModelReplies(silent)
  PROVE  Types'
<1> USE DEF Types
<1>1. Reply(attempts) \in Entries
  BY EntryTypes DEF RunTypes, ModelReplies
<1>2. <<>> \in Seq(Entries) /\ <<Reply(attempts)>> \in Seq(Entries)
  BY <1>1
<1>3. LogTypes'
  BY <1>2, AppendKeepsTypes DEF ModelReplies, Persist
<1>4. RunTypes'
  BY EndKeepsRunTypes DEF ModelReplies
<1> QED BY <1>3, <1>4 DEF ModelReplies, EndTurn, LedgerTypes, GhostTypes, ledgerVars, ghosts

LEMMA ModelAsksKeepsTypes ==
  ASSUME Types, NEW q \in Requests, ModelAsks(q)
  PROVE  Types'
<1> USE DEF Types
<1> DEFINE ids == {CallId(i) : i \in DOMAIN q.calls}
           outs == [i \in DOMAIN q.calls |-> IF i \in q.blocked THEN "blocked" ELSE "open"]
<1>1. /\ pc = "model" /\ pc' = "tools"
      /\ Persist(q.silent, ToolCalls(attempts, ids))
      /\ torn' = torn \cup IF q.silent THEN ids ELSE {}
      /\ run' = [run EXCEPT !.context = Append(@, ToolCalls(attempts, ids)),
                            !.batch = q.calls, !.out = outs]
      /\ UNCHANGED <<seen, attempts, ledgerVars, cleared, revived>>
  BY DEF ModelAsks
<1>2. q.calls \in Seq(Tools) /\ DOMAIN q.calls = 1 .. Len(q.calls) /\ Len(q.calls) \in Nat
  BY Constants, LenProperties
<1>3. ids \in SUBSET Ids /\ IsFiniteSet(ids) /\ ids # {}
  <2>2. IsFiniteSet(ids)
    BY <1>2, CallIdsCount
  <2>3. Len(q.calls) # 0
    BY <1>2, Constants, EmptySeq
  <2> QED BY <1>1, <1>2, <2>2, <2>3, CallIdType
<1>4. outs \in Seq(Outs) /\ Len(outs) = Len(q.calls)
  BY <1>2 DEF Outs
<1> HIDE DEF ids, outs
<1>5. ToolCalls(attempts, ids) \in Entries
  BY <1>1, <1>3, EntryTypes DEF RunTypes
<1>6. LogTypes'
  <2>1. <<>> \in Seq(Entries) /\ <<ToolCalls(attempts, ids)>> \in Seq(Entries)
    BY <1>5
  <2> QED BY <1>1, <2>1, AppendKeepsTypes DEF Persist
<1>7. RunTypes'
  <2>1. run \in Runs
    BY <1>1 DEF RunTypes
  <2>2. Append(run.context, ToolCalls(attempts, ids)) \in Seq(Entries)
    BY <1>5, <2>1 DEF Runs
  <2>3. run' \in Runs /\ run'.out = outs /\ run'.batch = q.calls
        /\ run'.retries = run.retries /\ run'.iteration = run.iteration
    BY <1>1, <1>2, <1>4, <2>1, <2>2 DEF Runs
  <2> QED BY <1>1, <1>4, <2>3 DEF RunTypes
<1> QED BY <1>1, <1>3, <1>6, <1>7 DEF LedgerTypes, GhostTypes, ledgerVars

-----------------------------------------------------------------------------
(* A step of a tool changes how far its call is, and perhaps that the turn *)
(* has acted.                                                              *)
SetsOut(i, o, acted) == run' = [run EXCEPT !.out[i] = o, !.acted = acted]

LEMMA OutKeepsRunTypes ==
  ASSUME RunTypes, pc = "tools", UNCHANGED <<pc, attempts>>,
         NEW i \in DOMAIN run.out, NEW o \in Outs, NEW acted \in BOOLEAN, SetsOut(i, o, acted)
  PROVE  /\ RunTypes'
         /\ run'.out = [run.out EXCEPT ![i] = o] /\ run'.acted = acted
         /\ run'.turn = run.turn /\ run'.batch = run.batch /\ run'.attempted = run.attempted
         /\ run'.context = run.context /\ run'.current = run.current
         /\ run'.iteration = run.iteration
<1>1. run \in Runs /\ run.out \in Seq(Outs) /\ i \in 1 .. Len(run.out)
  BY DEF RunTypes, Runs
<1> DEFINE out == [run.out EXCEPT ![i] = o]
<1>2. out \in Seq(Outs) /\ Len(out) = Len(run.out)
  BY <1>1, ExceptSeq
<1>3. run' = [run EXCEPT !.out = out, !.acted = acted]
  BY <1>1 DEF SetsOut, Runs
<1> HIDE DEF out
<1>4. /\ run' \in Runs /\ run'.out = out /\ run'.acted = acted
      /\ run'.turn = run.turn /\ run'.batch = run.batch /\ run'.attempted = run.attempted
      /\ run'.context = run.context /\ run'.current = run.current
      /\ run'.iteration = run.iteration /\ run'.retries = run.retries
  BY <1>1, <1>2, <1>3 DEF Runs
<1>5. RunTypes'
  BY <1>2, <1>4 DEF RunTypes
<1> QED BY <1>4, <1>5 DEF out

LEMMA SettleSets ==
  ASSUME RunTypes, pc = "tools", NEW i \in DOMAIN run.out
  PROVE  /\ Settle(i) => SetsOut(i, "over", run.acted)
         /\ run' = [run EXCEPT !.out[i] = "running"] => SetsOut(i, "running", run.acted)
         /\ run' = [run EXCEPT !.out[i] = "running", !.acted = TRUE] => SetsOut(i, "running", TRUE)
         /\ run.acted \in BOOLEAN
  BY DEF RunTypes, Runs, Settle, SetsOut

LEMMA ReadKeepsTypes ==
  ASSUME Types, pc = "tools", NEW i \in DOMAIN run.out, Refuse(i) \/ StartRead(i) \/ EndRead(i)
  PROVE  /\ Types'
         /\ \E o \in {"running", "over"} : SetsOut(i, o, run.acted)
<1> USE DEF Types
<1>1. PICK o \in {"running", "over"} : SetsOut(i, o, run.acted)
  BY SettleSets DEF Refuse, StartRead, EndRead
<1>2. UNCHANGED <<pc, seen, attempts, cache, file, cold, flushed, status, executions, told,
                  cleared, revived, torn>>
  BY DEF Refuse, StartRead, EndRead, logVars, ledgerVars, ghosts
<1>3. RunTypes'
  BY <1>1, <1>2, SettleSets, OutKeepsRunTypes DEF Outs
<1> QED BY <1>1, <1>2, <1>3 DEF LogTypes, LedgerTypes, GhostTypes

(* The key of a call that acts.                                            *)
LEMMA KeyType ==
  ASSUME RunTypes, pc = "tools", NEW i \in DOMAIN run.out
  PROVE  /\ run.batch[i] \in Tools /\ i \in DOMAIN run.batch /\ i \in 1 .. Len(run.out)
         /\ ~IsRead(i) => KeyOf(i) \in Keys
<1>1. run.out \in Seq(Outs) /\ run.batch \in Seq(Tools) /\ Len(run.out) = Len(run.batch)
      /\ run.turn \in Turns
  BY DEF RunTypes, Runs
<1>2. i \in 1 .. Len(run.batch) /\ i \in 1 .. Len(run.out)
  BY <1>1
<1>3. run.batch[i] \in Tools
  BY <1>1, <1>2
<1> QED BY <1>1, <1>2, <1>3, Constants DEF IsRead, KeyOf, Keys

LEMMA ActionKeepsTypes ==
  ASSUME Types, pc = "tools", NEW i \in DOMAIN run.out,
         StartAction(i) \/ \E outcome \in {"succeeded", "failed"} : EndAction(i, outcome)
  PROVE  Types'
<1> USE DEF Types
<1> DEFINE k == KeyOf(i)
<1>1. k \in Keys
  BY KeyType DEF StartAction, EndAction
<1> HIDE DEF k
<1>2. CASE StartAction(i)
  <2>1. \E o \in {"running", "over"}, acted \in BOOLEAN : SetsOut(i, o, acted)
    BY <1>2, SettleSets DEF StartAction, Execute, Replay, RefuseUnknown
  <2>2. RunTypes'
    BY <1>2, <2>1, OutKeepsRunTypes DEF StartAction, Outs
  <2>3. LedgerTypes'
    <3>1. CASE Execute(i, k)
      BY <1>1, <3>1 DEF Execute, LedgerTypes
    <3>2. CASE Replay(i, k)
      BY <1>1, <3>2 DEF Replay, LedgerTypes, Tell
    <3>3. CASE RefuseUnknown(i, k)
      BY <1>1, <3>3 DEF RefuseUnknown, LedgerTypes, Tell
    <3> QED BY <1>2, <3>1, <3>2, <3>3 DEF StartAction, k
  <2> QED BY <1>2, <2>2, <2>3 DEF StartAction, LogTypes, GhostTypes, logVars, ghosts
<1>3. ASSUME NEW outcome \in {"succeeded", "failed"}, EndAction(i, outcome) PROVE Types'
  <2>1. SetsOut(i, "over", run.acted)
    BY <1>3, SettleSets DEF EndAction
  <2>2. RunTypes'
    BY <1>3, <2>1, OutKeepsRunTypes, SettleSets DEF EndAction, Outs
  <2>3. LedgerTypes'
    BY <1>1, <1>3 DEF EndAction, LedgerTypes, Tell, k
  <2> QED BY <1>3, <2>2, <2>3 DEF EndAction, LogTypes, GhostTypes, logVars, ghosts
<1> QED BY <1>2, <1>3

LEMMA RecordResultsKeepsTypes ==
  ASSUME Types, RecordResults
  PROVE  Types'
<1> USE DEF Types
<1>1. Results \in Seq(Entries) /\ pc = "tools" /\ run \in Runs
  BY ResultsType DEF RecordResults, RunTypes
<1>2. LogTypes'
  BY <1>1, AppendKeepsTypes DEF RecordResults
<1>3. UNCHANGED <<seen, attempts, status, executions, told, cleared, revived, torn>>
  BY DEF RecordResults, ledgerVars, ghosts
<1>4. RunTypes'
  <2>1. CASE EndTurn
    BY <1>3, <2>1, EndKeepsRunTypes
  <2>2. CASE /\ EnterLoop
             /\ run' = [run EXCEPT !.context = @ \o Results, !.attempted = @ \/ AttemptedAction,
                                   !.batch = <<>>, !.out = <<>>]
    <3>1. /\ run.context \o Results \in Seq(Entries)
          /\ (run.attempted \/ AttemptedAction) \in BOOLEAN
          /\ <<>> \in Seq(Tools) /\ <<>> \in Seq(Outs)
      BY <1>1, ConcatProperties DEF Runs, AttemptedAction
    <3>2. /\ run' \in Runs /\ run'.batch = <<>> /\ run'.out = <<>>
          /\ run'.retries = run.retries
      BY <1>1, <2>2, <3>1 DEF Runs
    <3> QED BY <1>1, <1>3, <2>2, <3>2 DEF RunTypes, EnterLoop
  <2> QED BY <2>1, <2>2 DEF RecordResults
<1>5. GhostTypes'
  BY <1>1, <1>3 DEF GhostTypes
<1> QED BY <1>2, <1>3, <1>4, <1>5 DEF LedgerTypes

(* A batch that fails has written some of its results, from the first on.  *)
LEMMA ToolPhaseFailsMeans ==
  ASSUME RunTypes, ToolPhaseFails
  PROVE  /\ pc = "tools" /\ EndTurn /\ torn' = torn \cup BatchIds
         /\ UNCHANGED <<seen, attempts, ledgerVars, cleared, revived>>
         /\ \E rs \in Seq(Entries) : AppendTo(rs) /\ Range(rs) \subseteq Range(Results)
<1>1. PICK k \in 0 .. Len(run.batch) - 1 : AppendTo(SubSeq(Results, 1, k))
  BY DEF ToolPhaseFails
<1>2. PICK all \in Seq(Entries) : all = Results /\ Len(all) = Len(run.batch)
  BY ResultsType DEF ToolPhaseFails
<1>3. k \in 0 .. Len(all)
  BY <1>2, LenProperties
<1>4. SubSeq(all, 1, k) \in Seq(Entries) /\ Range(SubSeq(all, 1, k)) \subseteq Range(all)
  BY <1>3, CutSound
<1> QED BY <1>1, <1>2, <1>4 DEF ToolPhaseFails

LEMMA BatchIdsType ==
  ASSUME RunTypes, pc = "tools"
  PROVE  BatchIds \subseteq Ids
<1>1. run.batch \in Seq(Tools)
  BY DEF RunTypes, Runs
<1>2. \A i \in DOMAIN run.batch : i \in Nat \ {0}
  BY <1>1
<1> QED BY <1>2, CallIdType DEF BatchIds

LEMMA ToolPhaseFailsKeepsTypes ==
  ASSUME Types, ToolPhaseFails
  PROVE  Types'
<1> USE DEF Types
<1>1. LogTypes'
  BY ToolPhaseFailsMeans, AppendKeepsTypes
<1>2. RunTypes'
  BY ToolPhaseFailsMeans, EndKeepsRunTypes
<1>3. GhostTypes'
  BY ToolPhaseFailsMeans, BatchIdsType DEF EndTurn, GhostTypes
<1> QED BY <1>1, <1>2, <1>3, ToolPhaseFailsMeans DEF LedgerTypes, ledgerVars

LEMMA ClearKeepsTypes ==
  ASSUME Types, Clear
  PROVE  Types'
<1> USE DEF Types
<1>1. LogTypes'
  <2>1. <<>> \in Seq(Entries) /\ 0 \in 0 .. Len(<<>>)
    OBVIOUS
  <2> QED BY <2>1, NewSessionTypes DEF Clear
<1>2. RunTypes'
  BY DEF Clear, RunTypes, Runs
<1>3. GhostTypes'
  <2>1. attempts \in Nat /\ (pc # "idle" => attempts - 1 \in 0 .. attempts)
    BY Constants DEF RunTypes, Attempts
  <2>2. cleared' \in 0 .. attempts /\ (pc # "idle" => cleared' < attempts)
    BY <2>1 DEF Clear
  <2> QED BY <2>2 DEF Clear, GhostTypes
<1> QED BY <1>1, <1>2, <1>3 DEF Clear, LedgerTypes, ledgerVars

LEMMA CrashKeepsTypes ==
  ASSUME Types, Crash
  PROVE  Types'
<1> USE DEF Types
<1>1. file' \in Seq(Entries) /\ flushed <= Len(file')
  BY SurvivorsTypes DEF Crash, LogTypes
<1>2. LogTypes'
  <2>1. flushed \in Nat /\ Len(file') \in Nat
    BY <1>1, LenProperties DEF LogTypes
  <2> QED BY <1>1, <2>1 DEF Crash, LogTypes
<1>3. RunTypes'
  BY EndKeepsRunTypes DEF Crash
<1> QED BY <1>2, <1>3 DEF Crash, EndTurn, LedgerTypes, GhostTypes, ledgerVars, ghosts

LEMMA TypesInit == Init => Types
<1> SUFFICES ASSUME Init PROVE Types
  OBVIOUS
<1>1. <<>> \in Seq(Entries) /\ Len(<<>>) = 0
  OBVIOUS
<1>2. 0 \in 0 .. 0 /\ 0 \in 0 .. MaxAttempts
  BY Constants
<1>3. RunTypes
  BY <1>2 DEF Init, RunTypes
<1>4. LogTypes
  BY <1>1, <1>2 DEF Init, LogTypes
<1>5. LedgerTypes
  BY DEF Init, LedgerTypes
<1>6. GhostTypes
  BY <1>2 DEF Init, GhostTypes
<1> QED BY <1>3, <1>4, <1>5, <1>6 DEF Types

LEMMA TypesStep == Types /\ [Next]_vars => Types'
<1> SUFFICES ASSUME Types, [Next]_vars PROVE Types'
  OBVIOUS
<1>1. ASSUME NEW t \in Turns, Begin(t) \/ BeginAfterReset(t) PROVE Types'
  BY <1>1, BeginKeepsTypes
<1>2. ASSUME pc = "tools", NEW i \in DOMAIN run.out, ToolStep(i) PROVE Types'
  BY <1>2, ReadKeepsTypes, ActionKeepsTypes DEF ToolStep
<1>3. CASE Progress
  BY <1>2, <1>3, AppendUserKeepsTypes, StartCompactionKeepsTypes, EndCompactionKeepsTypes,
     LoopKeepsTypes, RestartSessionKeepsTypes, ModelRepliesKeepsTypes, ModelAsksKeepsTypes,
     RecordResultsKeepsTypes, ToolPhaseFailsKeepsTypes DEF Progress
<1>4. ASSUME pc = "tools", ActionEnds PROVE Types'
  BY <1>4, ActionKeepsTypes DEF ActionEnds
<1>5. CASE Clear \/ Crash
  BY <1>5, ClearKeepsTypes, CrashKeepsTypes
<1>6. CASE UNCHANGED vars
  BY <1>6 DEF vars, loopVars, logVars, ledgerVars, ghosts, Types, RunTypes, LogTypes,
              LedgerTypes, GhostTypes
<1> QED BY <1>1, <1>3, <1>4, <1>5, <1>6 DEF Next

(* The variables keep their types, the number of flushed entries never     *)
(* exceeds the transcript on disk, and no mix of retries and fallbacks     *)
(* takes a counter beyond its limit or gives back an iteration that was    *)
(* not used.                                                               *)
THEOREM TypeCorrect == Spec => []TypeOK
<1>1. Spec => []Types
  BY TypesInit, TypesStep, PTL DEF Spec
<1> QED BY <1>1, TypesImplyTypeOK, PTL

-----------------------------------------------------------------------------
(* Where a turn may have acted, and how the calls of a batch run: nothing  *)
(* runs before the calls in front of it were looked at, and an action runs *)
(* alone.                                                                  *)
ActsKnowingly ==
  /\ pc \in {"preparing", "compacting", "head", "model", "archiving"} =>
       (run.acted => run.attempted)
  /\ pc = "tools" => (run.acted => run.attempted \/ AttemptedAction)

InOrder ==
  \A i, j \in DOMAIN run.out : j < i /\ run.out[i] = "running" => run.out[j] # "open"
ActionsAlone ==
  \A i, j \in DOMAIN run.out :
    i # j /\ run.out[i] = "running" /\ ~IsRead(i) => run.out[j] # "running"
RowsOpen ==
  \A i \in DOMAIN run.out : run.out[i] = "running" /\ ~IsRead(i) => status[KeyOf(i)] = "running"
BatchRuns == pc = "tools" => InOrder /\ ActionsAlone /\ RowsOpen

OneExecution == \A k \in Keys : executions[k] = IF status[k] = "none" THEN 0 ELSE 1

LEMMA ActsKnowinglyStep == Types /\ ActsKnowingly /\ [Next]_vars => ActsKnowingly'
<1> SUFFICES ASSUME Types, ActsKnowingly, [Next]_vars PROVE ActsKnowingly'
  OBVIOUS
<1>0. pc # "idle" => run \in Runs
  BY DEF Types, RunTypes
<1>1. ASSUME NEW t \in Turns, Begin(t) \/ BeginAfterReset(t) PROVE ActsKnowingly'
  BY <1>1 DEF Begin, BeginAfterReset, BeginWith, Fresh, ActsKnowingly
<1>2. ASSUME pc = "tools", NEW i \in DOMAIN run.out, NEW o \in {"running", "over"},
             NEW acted \in BOOLEAN, SetsOut(i, o, acted), UNCHANGED <<pc, attempts>>,
             acted => run.acted \/ ~IsRead(i)
      PROVE  ActsKnowingly'
  <2>1. /\ run'.out = [run.out EXCEPT ![i] = o] /\ run'.acted = acted
        /\ run'.batch = run.batch /\ run'.attempted = run.attempted
    BY <1>2, OutKeepsRunTypes DEF Types, Outs
  <2>2. run.out \in Seq(Outs)
    BY <1>0, <1>2 DEF Runs
  <2>3. AttemptedAction \/ ~IsRead(i) => AttemptedAction'
    BY <2>1, <2>2 DEF AttemptedAction, IsRead
  <2> QED BY <1>2, <2>1, <2>3 DEF ActsKnowingly
<1>3. ASSUME pc = "tools", NEW i \in DOMAIN run.out, ToolStep(i) PROVE ActsKnowingly'
  <2>1. CASE Refuse(i) \/ StartRead(i) \/ EndRead(i)
    <3>1. PICK o \in {"running", "over"} : SetsOut(i, o, run.acted)
      BY <1>3, <2>1, ReadKeepsTypes
    <3>2. UNCHANGED <<pc, attempts>>
      BY <2>1 DEF Refuse, StartRead, EndRead
    <3> QED BY <1>2, <1>3, <3>1, <3>2, SettleSets DEF Types
  <2>2. CASE StartAction(i)
    <3>1. \E o \in {"running", "over"}, acted \in BOOLEAN : SetsOut(i, o, acted)
      BY <1>3, <2>2, SettleSets DEF StartAction, Execute, Replay, RefuseUnknown, Types
    <3> QED BY <1>2, <1>3, <2>2, <3>1 DEF StartAction
  <2> QED BY <1>3, <2>1, <2>2 DEF ToolStep
<1>4. ASSUME pc = "tools", ActionEnds PROVE ActsKnowingly'
  <2>1. PICK i \in DOMAIN run.out, outcome \in {"succeeded", "failed"} : EndAction(i, outcome)
    BY <1>4 DEF ActionEnds
  <2>2. SetsOut(i, "over", run.acted)
    BY <1>4, <2>1, SettleSets DEF EndAction, Types
  <2> QED BY <1>2, <1>4, <2>1, <2>2, SettleSets DEF EndAction, Types
<1>5. CASE Progress /\ ~(pc = "tools" /\ \E i \in DOMAIN run.out : ToolStep(i))
  <2>1. CASE AppendUser \/ StartCompaction \/ EndCompaction \/ CallModel \/ ContextOverflows
    BY <1>0, <2>1 DEF AppendUser, StartCompaction, EndCompaction, CallModel, ContextOverflows,
                      EnterLoop, ActsKnowingly, Runs
  <2>2. CASE OutOfTime \/ TurnFails \/ ToolPhaseFails \/ \E silent \in BOOLEAN : ModelReplies(silent)
    BY <2>2 DEF OutOfTime, TurnFails, ToolPhaseFails, ModelReplies, EndTurn, ActsKnowingly
  <2>3. ASSUME NEW q \in Requests, ModelAsks(q) PROVE ActsKnowingly'
    BY <1>0, <2>3 DEF ModelAsks, ActsKnowingly, Runs
  <2>4. CASE RestartSession \/ FallBack \/ \E kind \in DOMAIN MaxRetries : Retry(kind)
    BY <1>0, <2>4 DEF RestartSession, FallBack, Retry, Recover, EnterLoop, ActsKnowingly, Runs
  <2>5. CASE RecordResults
    <3>1. CASE EndTurn
      BY <3>1 DEF EndTurn, ActsKnowingly
    <3>2. CASE ~EndTurn
      <4>1. /\ pc = "tools" /\ pc' = "head"
            /\ run' = [run EXCEPT !.context = @ \o Results, !.attempted = @ \/ AttemptedAction,
                                  !.batch = <<>>, !.out = <<>>]
        BY <2>5, <3>2 DEF RecordResults, EnterLoop
      <4>2. run'.acted = run.acted /\ run'.attempted = (run.attempted \/ AttemptedAction)
        BY <1>0, <4>1 DEF Runs
      <4> QED BY <4>1, <4>2 DEF ActsKnowingly
    <3> QED BY <3>1, <3>2
  <2> QED BY <1>5, <2>1, <2>2, <2>3, <2>4, <2>5 DEF Progress
<1>6. CASE Clear
  BY <1>0, <1>6 DEF Clear, ActsKnowingly, AttemptedAction, IsRead, Runs
<1>7. CASE Crash
  BY <1>7 DEF Crash, EndTurn, ActsKnowingly
<1>8. CASE UNCHANGED vars
  BY <1>8 DEF vars, loopVars, ActsKnowingly, AttemptedAction, IsRead
<1> QED BY <1>1, <1>3, <1>4, <1>5, <1>6, <1>7, <1>8 DEF Next

(* A turn goes to another provider only before it acted, whatever became   *)
(* of the calls it made: an action that was asked for and not blocked      *)
(* counts as attempted once its results are recorded.                      *)
THEOREM NoFallback == Spec => NoFallbackAfterAction
<1>1. Types /\ ActsKnowingly /\ [Next]_vars =>
        [pc = "model" /\ pc' = "head" /\ run'.fallback # run.fallback => ~run.acted]_vars
  <2> SUFFICES ASSUME Types, ActsKnowingly, Next, pc = "model", pc' = "head",
                      run'.fallback # run.fallback
               PROVE  ~run.acted
    OBVIOUS
  <2>0. run \in Runs
    BY DEF Types, RunTypes
  <2>1. Progress
    BY DEF Next, Begin, BeginAfterReset, BeginWith, Clear, Crash, EndTurn
  <2>2. CASE FallBack
    BY <2>2 DEF FallBack, ActsKnowingly
  <2>3. ASSUME NEW kind \in DOMAIN MaxRetries, Retry(kind) PROVE FALSE
    BY <2>0, <2>3 DEF Retry, Recover, Runs
  <2> QED BY <2>1, <2>2, <2>3 DEF Progress, AppendUser, StartCompaction, EndCompaction,
        OutOfTime, CallModel, ModelReplies, ModelAsks, ContextOverflows, RestartSession,
        TurnFails, RecordResults, ToolPhaseFails, EndTurn
<1>2. Init => ActsKnowingly
  BY DEF Init, ActsKnowingly
<1> QED BY <1>1, <1>2, TypesInit, TypesStep, ActsKnowinglyStep, PTL
        DEF Spec, NoFallbackAfterAction

-----------------------------------------------------------------------------
LEMMA BatchRunsStep == Types /\ BatchRuns /\ [Next]_vars => BatchRuns'
<1> SUFFICES ASSUME Types, BatchRuns, [Next]_vars PROVE BatchRuns'
  OBVIOUS
<1>0. pc = "tools" => /\ run \in Runs /\ run.out \in Seq(Outs)
                      /\ \A i \in DOMAIN run.out : i \in Nat
  BY DEF Types, RunTypes, Runs
(* A call starts. *)
<1>1. ASSUME pc = "tools", NEW i \in DOMAIN run.out, MayStart(i), UNCHANGED <<pc, attempts>>,
             NEW acted \in BOOLEAN, SetsOut(i, "running", acted),
             ~IsRead(i) => status'[KeyOf(i)] = "running",
             \A k \in Keys : status[k] = "running" => status'[k] = "running"
      PROVE  BatchRuns'
  <2>1. /\ run'.out = [run.out EXCEPT ![i] = "running"]
        /\ run'.batch = run.batch /\ run'.turn = run.turn
    BY <1>1, OutKeepsRunTypes DEF Types, Outs
  <2>2. InOrder /\ ActionsAlone /\ RowsOpen /\ run.out[i] = "open"
    BY <1>1 DEF BatchRuns, MayStart
  <2>3. ASSUME NEW j \in DOMAIN run.out, run.out[j] = "running"
        PROVE  j < i /\ IsRead(j) /\ IsRead(i)
    <3>1. j # i /\ ~(i < j)
      BY <2>2, <2>3 DEF InOrder
    <3>2. j < i /\ j \in 1 .. i - 1
      BY <1>0, <1>1, <3>1
    <3>3. "running" \notin Over
      BY DEF Over
    <3> QED BY <1>1, <2>3, <3>2, <3>3 DEF MayStart
  <2>4. ASSUME NEW j \in DOMAIN run.out, j < i PROVE run.out[j] # "open"
    <3>1. j \in 1 .. i - 1
      BY <1>0, <1>1, <2>4
    <3> QED BY <1>1, <3>1 DEF MayStart, Over
  <2>5. /\ DOMAIN run'.out = DOMAIN run.out /\ run'.out[i] = "running"
        /\ \A j \in DOMAIN run.out : j # i => run'.out[j] = run.out[j]
        /\ \A j \in DOMAIN run.out : (IsRead(j))' = IsRead(j) /\ (KeyOf(j))' = KeyOf(j)
    BY <1>0, <1>1, <2>1 DEF IsRead, KeyOf
  <2>6. InOrder'
    BY <2>2, <2>4, <2>5 DEF InOrder
  <2>7. ActionsAlone'
    BY <2>2, <2>3, <2>5 DEF ActionsAlone
  <2>8. RowsOpen'
    BY <1>1, <2>3, <2>5 DEF RowsOpen
  <2> QED BY <2>6, <2>7, <2>8 DEF BatchRuns
(* A call is settled. *)
<1>2. ASSUME pc = "tools", NEW i \in DOMAIN run.out, UNCHANGED <<pc, attempts>>,
             SetsOut(i, "over", run.acted), UNCHANGED status \/
               /\ run.out[i] = "running" /\ ~IsRead(i)
               /\ \E outcome : status' = [status EXCEPT ![KeyOf(i)] = outcome]
      PROVE  BatchRuns'
  <2>1. /\ run'.out = [run.out EXCEPT ![i] = "over"]
        /\ run'.batch = run.batch /\ run'.turn = run.turn
    BY <1>1, <1>2, OutKeepsRunTypes, SettleSets DEF Types, Outs
  <2>2. InOrder /\ ActionsAlone /\ RowsOpen
    BY <1>2 DEF BatchRuns
  <2>3. /\ DOMAIN run'.out = DOMAIN run.out /\ run'.out[i] = "over"
        /\ \A j \in DOMAIN run.out : j # i => run'.out[j] = run.out[j]
        /\ \A j \in DOMAIN run.out : (IsRead(j))' = IsRead(j) /\ (KeyOf(j))' = KeyOf(j)
    BY <1>0, <1>2, <2>1 DEF IsRead, KeyOf
  <2>4. InOrder' /\ ActionsAlone'
    BY <2>2, <2>3 DEF InOrder, ActionsAlone
  <2>5. RowsOpen'
    <3> SUFFICES ASSUME NEW j \in DOMAIN run.out, run'.out[j] = "running", ~IsRead(j)
                 PROVE  status'[KeyOf(j)] = "running"
      BY <2>3 DEF RowsOpen
    <3>1. j # i /\ run.out[j] = "running"
      BY <2>3
    <3>2. status[KeyOf(j)] = "running"
      BY <2>2, <3>1 DEF RowsOpen
    <3>3. ~(run.out[i] = "running" /\ ~IsRead(i))
      BY <2>2, <3>1 DEF ActionsAlone
    <3> QED BY <1>2, <3>2, <3>3
  <2> QED BY <2>4, <2>5 DEF BatchRuns
<1>3. ASSUME pc = "tools", NEW i \in DOMAIN run.out, ToolStep(i) PROVE BatchRuns'
  <2>0. RunTypes /\ run.acted \in BOOLEAN
    BY <1>3, SettleSets DEF Types
  <2>1. CASE StartRead(i)
    <3>1. SetsOut(i, "running", run.acted)
      BY <1>3, <2>0, <2>1, SettleSets DEF StartRead
    <3> QED BY <1>1, <1>3, <2>0, <2>1, <3>1 DEF StartRead, ledgerVars
  <2>2. CASE Refuse(i) \/ EndRead(i)
    <3>1. SetsOut(i, "over", run.acted)
      BY <1>3, <2>0, <2>2, SettleSets DEF Refuse, EndRead
    <3> QED BY <1>2, <1>3, <2>2, <3>1 DEF Refuse, EndRead, ledgerVars
  <2>3. CASE StartAction(i)
    <3>1. MayStart(i) /\ ~IsRead(i) /\ UNCHANGED <<pc, attempts>> /\ KeyOf(i) \in Keys
      BY <1>3, <2>0, <2>3, KeyType DEF StartAction
    <3>2. CASE Execute(i, KeyOf(i))
      <4>1. SetsOut(i, "running", TRUE)
        BY <1>3, <2>0, <3>2, SettleSets DEF Execute
      <4>2. /\ status'[KeyOf(i)] = "running"
            /\ \A k \in Keys : status[k] = "running" => status'[k] = "running"
        BY <3>1, <3>2 DEF Execute, Types, LedgerTypes
      <4> QED BY <1>1, <1>3, <3>1, <4>1, <4>2
    <3>3. CASE Replay(i, KeyOf(i)) \/ RefuseUnknown(i, KeyOf(i))
      <4>1. SetsOut(i, "over", run.acted) /\ UNCHANGED status
        BY <1>3, <2>0, <3>3, SettleSets DEF Replay, RefuseUnknown
      <4> QED BY <1>2, <1>3, <3>1, <4>1
    <3> QED BY <2>3, <3>2, <3>3 DEF StartAction
  <2> QED BY <1>3, <2>1, <2>2, <2>3 DEF ToolStep
<1>4. ASSUME pc = "tools", ActionEnds PROVE BatchRuns'
  <2>1. PICK i \in DOMAIN run.out, outcome \in {"succeeded", "failed"} : EndAction(i, outcome)
    BY <1>4 DEF ActionEnds
  <2>2. SetsOut(i, "over", run.acted)
    BY <1>4, <2>1, SettleSets DEF EndAction, Types
  <2> QED BY <1>2, <1>4, <2>1, <2>2 DEF EndAction
<1>5. CASE pc' # "tools"
  BY <1>5 DEF BatchRuns
<1>6. ASSUME NEW q \in Requests, ModelAsks(q) PROVE BatchRuns'
  <2>1. run'.out = [i \in DOMAIN q.calls |-> IF i \in q.blocked THEN "blocked" ELSE "open"]
    BY <1>6 DEF ModelAsks, Types, RunTypes, Runs
  <2>2. \A i \in DOMAIN run'.out : run'.out[i] # "running"
    BY <2>1
  <2> QED BY <2>2 DEF BatchRuns, InOrder, ActionsAlone, RowsOpen
<1>7. CASE Clear
  <2>1. pc' = pc /\ status' = status /\
        (pc = "tools" => run'.out = run.out /\ run'.batch = run.batch /\ run'.turn = run.turn)
    BY <1>0, <1>7 DEF Clear, Runs, ledgerVars
  <2> QED BY <2>1 DEF BatchRuns, InOrder, ActionsAlone, RowsOpen, IsRead, KeyOf
<1>8. CASE UNCHANGED vars
  BY <1>8 DEF vars, loopVars, ledgerVars, BatchRuns, InOrder, ActionsAlone, RowsOpen, IsRead, KeyOf
<1>9. CASE RecordResults \/ ToolPhaseFails
  BY <1>5, <1>9 DEF RecordResults, ToolPhaseFails, EndTurn, EnterLoop
<1> QED BY <1>3, <1>4, <1>5, <1>6, <1>7, <1>8, <1>9 DEF Next, Begin, BeginAfterReset, BeginWith,
      Progress, AppendUser, StartCompaction, EndCompaction, EnterLoop, OutOfTime, EndTurn,
      CallModel, ModelReplies, Retry, Recover, ContextOverflows, RestartSession, FallBack,
      TurnFails, Crash

LEMMA OneExecutionStep == Types /\ BatchRuns /\ OneExecution /\ [Next]_vars => OneExecution'
<1> SUFFICES ASSUME Types, BatchRuns, OneExecution, [Next]_vars, ~UNCHANGED <<status, executions>>
             PROVE  OneExecution'
  BY DEF OneExecution
<1>1. CASE pc = "tools" /\ \E i \in DOMAIN run.out : StartAction(i)
  <2>1. PICK i \in DOMAIN run.out : StartAction(i)
    BY <1>1
  <2>2. Execute(i, KeyOf(i)) /\ KeyOf(i) \in Keys
    BY <1>1, <2>1, KeyType DEF StartAction, Replay, RefuseUnknown, Types
  <2> QED BY <2>2 DEF Execute, OneExecution, Types, LedgerTypes
<1>2. CASE pc = "tools" /\ ActionEnds
  <2>1. PICK i \in DOMAIN run.out, outcome \in {"succeeded", "failed"} : EndAction(i, outcome)
    BY <1>2 DEF ActionEnds
  <2>2. pc = "tools" /\ run.out[i] = "running" /\ ~IsRead(i) /\ KeyOf(i) \in Keys
    BY <2>1, KeyType DEF EndAction, Types
  <2>3. status[KeyOf(i)] = "running"
    BY <2>2 DEF BatchRuns, RowsOpen
  <2> QED BY <2>1, <2>2, <2>3 DEF EndAction, OneExecution, Types, LedgerTypes
<1> QED BY <1>1, <1>2 DEF Next, Begin, BeginAfterReset, BeginWith, Progress, ToolStep, Refuse,
      StartRead, EndRead, AppendUser, StartCompaction, EndCompaction, OutOfTime, CallModel,
      ModelReplies, ModelAsks, Retry, ContextOverflows, RestartSession, FallBack, TurnFails,
      RecordResults, ToolPhaseFails, Clear, Crash, vars, ledgerVars

(* Every step of a turn is a step of the abstract ledger, or none.         *)
LEMMA LedgerStep == Types /\ BatchRuns /\ OneExecution /\ [Next]_vars => [Once!Next]_(Once!vars)
<1> SUFFICES ASSUME Types, BatchRuns, OneExecution, [Next]_vars, ~UNCHANGED Once!vars
             PROVE  Once!Next
  OBVIOUS
<1> USE DEF Once!vars
<1>1. CASE pc = "tools" /\ \E i \in DOMAIN run.out : StartAction(i)
  <2>1. PICK i \in DOMAIN run.out : StartAction(i)
    BY <1>1
  <2> DEFINE k == KeyOf(i)
  <2>2. k \in Keys /\ (Execute(i, k) \/ Replay(i, k) \/ RefuseUnknown(i, k))
    BY <1>1, <2>1, KeyType DEF StartAction, Types
  <2> HIDE DEF k
  <2>3. CASE Execute(i, k)
    <3>1. executions[k] = 0
      BY <2>2, <2>3 DEF Execute, OneExecution
    <3>2. Once!Execute(k)
      BY <2>3, <3>1 DEF Execute, Once!Execute
    <3> QED BY <2>2, <3>2 DEF Once!Next
  <2>4. CASE Replay(i, k)
    <3>1. Once!Answer(k)
      BY <2>4 DEF Replay, Tell, Once!Answer
    <3> QED BY <2>2, <3>1 DEF Once!Next
  <2>5. CASE RefuseUnknown(i, k)
    <3>1. Once!Answer(k)
      BY <2>5 DEF RefuseUnknown, Tell, Once!Answer
    <3> QED BY <2>2, <3>1 DEF Once!Next
  <2> QED BY <2>2, <2>3, <2>4, <2>5
<1>2. CASE pc = "tools" /\ ActionEnds
  <2>1. PICK i \in DOMAIN run.out, outcome \in {"succeeded", "failed"} : EndAction(i, outcome)
    BY <1>2 DEF ActionEnds
  <2>2. pc = "tools" /\ run.out[i] = "running" /\ ~IsRead(i) /\ KeyOf(i) \in Keys
    BY <2>1, KeyType DEF EndAction, Types
  <2>3. status[KeyOf(i)] = "running"
    BY <2>2 DEF BatchRuns, RowsOpen
  <2>4. Once!Finish(KeyOf(i), outcome)
    BY <2>1, <2>3 DEF EndAction, Tell, Once!Finish
  <2> QED BY <2>2, <2>4 DEF Once!Next
<1> QED BY <1>1, <1>2 DEF Next, Begin, BeginAfterReset, BeginWith, Progress, ToolStep, Refuse,
      StartRead, EndRead, AppendUser, StartCompaction, EndCompaction, OutOfTime, CallModel,
      ModelReplies, ModelAsks, Retry, ContextOverflows, RestartSession, FallBack, TurnFails,
      RecordResults, ToolPhaseFails, Clear, Crash, vars, ledgerVars

(* Every tool, with its arguments, is executed at most once per inbound    *)
(* message, through replays of the turn, crashes and overflows, and the    *)
(* model is told the outcome of that execution or that it is not known:    *)
(* the turns implement the abstract ledger.  It rests on actions running   *)
(* alone, so that the row a call finishes is the one it opened.            *)
THEOREM TurnsImplementActionOnce == Spec => ImplementsActionOnce
<1>1. Init => BatchRuns /\ OneExecution
  BY DEF Init, BatchRuns, OneExecution
<1>2. Init => Once!Init
  BY DEF Init, Once!Init
<1> QED BY <1>1, <1>2, TypesInit, TypesStep, BatchRunsStep, OneExecutionStep, LedgerStep, PTL
        DEF Spec, ImplementsActionOnce, Once!Spec

-----------------------------------------------------------------------------
(* The ids that calls have by now: those of earlier attempts and of the    *)
(* iterations of this one in which the model has answered.  A call of the  *)
(* model that is made again has its iteration back, and no id of it yet.   *)
UsedUp == IF pc \in {"model", "archiving"} THEN run.iteration - 1 ELSE run.iteration
Used == {id \in Ids : id[1] <= attempts /\ (pc # "idle" /\ id[1] = attempts => id[2] <= UsedUp)}

(* The transcripts of the session and of the turn, with the results that   *)
(* are still to be recorded; which of them are stored; and what the        *)
(* history was cleared of.                                                 *)
CacheSeen == IF pc = "tools" /\ run.current THEN cache \o Results ELSE cache
ContextSeen == IF pc = "tools" THEN run.context \o Results ELSE run.context
Stored ==
  /\ torn \subseteq Used
  /\ Storable(cache, Used, torn) /\ Storable(file, Used, torn)
  /\ pc \in {"preparing", "compacting"} => Storable(run.context, Used, torn)
Shown ==
  /\ Presentable(CacheSeen, Used, torn)
  /\ pc # "idle" => Presentable(ContextSeen, Used, torn)
Clean(log, n) == \A e \in Range(log) : e.from \cap 1 .. n = {}
Forgotten ==
  ~revived => /\ Clean(cache, cleared) /\ Clean(file, cleared)
              /\ pc # "idle" /\ run.current => Clean(run.context, cleared)
LogsSound == Stored /\ Shown /\ Forgotten

(* A batch may fail at any time: its calls can be taken out as well.       *)
Unfinished == torn \cup BatchIds
Breakable ==
  pc = "tools" =>
    /\ Unfinished \subseteq Used
    /\ Storable(cache, Used, Unfinished) /\ Storable(file, Used, Unfinished)
    /\ Presentable(cache, Used, Unfinished)

LEMMA EntriesProper == AllProper(Entries) /\ Summarizes(Entries)
  BY EntryTypes DEF AllProper, Summarizes, Entries

LEMMA LogsSoundMeans ==
  ASSUME LogsSound
  PROVE  ContextSound
<1>1. IntactWellFormed
  BY DEF LogsSound, Shown, ContextSeen, Presentable, IntactWellFormed
<1>2. ClearedIsForgotten
  BY DEF LogsSound, Forgotten, Clean, ClearedIsForgotten
<1> QED BY <1>1, <1>2 DEF ContextSound

LEMMA UsedGrows ==
  ASSUME Types, Types',
         \/ pc = "idle" /\ attempts' = attempts + 1
         \/ attempts' = attempts /\ pc' = "idle"
         \/ attempts' = attempts /\ pc # "idle" /\ pc' # "idle" /\ UsedUp <= UsedUp'
  PROVE  Used \subseteq Used'
<1>1. attempts \in Int /\ attempts' \in Int
  BY Constants DEF Types, RunTypes
<1>2. /\ pc # "idle" => UsedUp \in Int
      /\ pc' # "idle" => UsedUp' \in Int
  BY Constants DEF Types, RunTypes, Runs, UsedUp
<1>3. \A id \in Ids : id[1] \in Int /\ id[2] \in Int
  BY DEF Ids, Attempts
<1>4. ASSUME NEW id \in Used PROVE id \in Used'
  <2>1. id \in Ids /\ id[1] <= attempts /\ (pc # "idle" /\ id[1] = attempts => id[2] <= UsedUp)
    BY DEF Used
  <2>2. id[1] \in Int /\ id[2] \in Int
    BY <1>3, <2>1
  <2>3. id[1] <= attempts' /\ (pc' # "idle" /\ id[1] = attempts' => id[2] <= UsedUp')
    BY <1>1, <1>2, <2>1, <2>2
  <2> QED BY <2>1, <2>3 DEF Used
<1> QED BY <1>4

(* A step that leaves the transcripts alone.                               *)
LEMMA QuietKeepsLogs ==
  ASSUME LogsSound, UNCHANGED <<cache, file, torn, cleared, revived>>,
         Used \subseteq Used', CacheSeen' = CacheSeen,
         \/ pc' = "idle"
         \/ /\ pc # "idle" /\ run'.context = run.context /\ run'.current = run.current
            /\ pc' \in {"preparing", "compacting"} => pc \in {"preparing", "compacting"}
            /\ ContextSeen' = ContextSeen
  PROVE  LogsSound'
<1>1. Stored'
  BY SoundGrows DEF LogsSound, Stored
<1>2. Shown'
  BY SoundGrows DEF LogsSound, Shown
<1>3. Forgotten'
  BY DEF LogsSound, Forgotten, Clean
<1> QED BY <1>1, <1>2, <1>3 DEF LogsSound

LEMMA LoopKeepsLogs ==
  ASSUME Types, LogsSound,
         \/ StartCompaction \/ OutOfTime \/ CallModel
         \/ \E kind \in DOMAIN MaxRetries : Retry(kind)
         \/ ContextOverflows \/ FallBack \/ TurnFails
  PROVE  LogsSound'
<1>1. UNCHANGED <<attempts, cache, file, torn, cleared, revived>>
  BY DEF StartCompaction, OutOfTime, CallModel, Retry, ContextOverflows, FallBack, TurnFails,
         logVars, ledgerVars, ghosts
<1>2. /\ pc # "idle" /\ pc # "tools" /\ pc' # "tools"
      /\ pc' \in {"preparing", "compacting"} => pc \in {"preparing", "compacting"}
  BY DEF StartCompaction, OutOfTime, CallModel, Retry, ContextOverflows, FallBack, TurnFails,
         EndTurn, EnterLoop, Recover
<1>3. pc' # "idle" => /\ run'.context = run.context /\ run'.current = run.current
                      /\ UsedUp <= UsedUp'
  <2>1. run \in Runs /\ run.iteration \in Int
    BY <1>2 DEF Types, RunTypes, Runs
  <2>2. CASE StartCompaction
    BY <2>1, <2>2 DEF StartCompaction, UsedUp
  <2>3. CASE CallModel
    BY <2>1, <2>3 DEF CallModel, UsedUp, Runs
  <2>4. ASSUME NEW kind \in DOMAIN MaxRetries, Retry(kind)
        PROVE  /\ run'.context = run.context /\ run'.current = run.current
               /\ UsedUp <= UsedUp'
    <3> DEFINE counters == [run EXCEPT !.retries[kind] = @ + 1]
    <3>1. /\ DOMAIN counters = DOMAIN run
          /\ counters.context = run.context /\ counters.current = run.current
          /\ counters.iteration = run.iteration
      BY <2>1 DEF Runs
    <3>2. /\ pc = "model" /\ pc' = "head"
          /\ run' = [counters EXCEPT !.iteration = counters.iteration - 1]
      BY <2>4 DEF Retry, Recover, EnterLoop
    <3> HIDE DEF counters
    <3> QED BY <2>1, <3>1, <3>2 DEF UsedUp, Runs
  <2>5. CASE ContextOverflows
    BY <2>1, <2>5 DEF ContextOverflows, UsedUp, Runs
  <2>6. CASE FallBack
    BY <2>1, <2>6 DEF FallBack, Recover, EnterLoop, UsedUp, Runs
  <2>7. CASE OutOfTime \/ TurnFails
    BY <2>7 DEF OutOfTime, TurnFails, EndTurn
  <2> QED BY <2>2, <2>3, <2>4, <2>5, <2>6, <2>7
<1>4. Types'
  BY LoopKeepsTypes, StartCompactionKeepsTypes
<1>5. Used \subseteq Used'
  BY <1>1, <1>2, <1>3, <1>4, UsedGrows
<1>6. CacheSeen' = CacheSeen /\ (pc' # "idle" => ContextSeen' = ContextSeen)
  BY <1>1, <1>2, <1>3 DEF CacheSeen, ContextSeen
<1> QED BY <1>1, <1>2, <1>3, <1>5, <1>6, QuietKeepsLogs

LEMMA ToolsKeepLogs ==
  ASSUME Types, LogsSound, Breakable, pc = "tools", NEW i \in DOMAIN run.out,
         ToolStep(i) \/ \E outcome \in {"succeeded", "failed"} : EndAction(i, outcome)
  PROVE  LogsSound' /\ Breakable'
<1>1. UNCHANGED <<pc, attempts, cache, file, torn, cleared, revived>>
  BY DEF ToolStep, Refuse, StartRead, EndRead, StartAction, EndAction, logVars, ledgerVars, ghosts
<1>2. \E o \in Outs, acted \in BOOLEAN : SetsOut(i, o, acted)
  BY SettleSets DEF ToolStep, Refuse, StartRead, EndRead, StartAction, EndAction, Execute, Replay,
                    RefuseUnknown, Types, Outs
<1>3. /\ run'.batch = run.batch /\ run'.context = run.context /\ run'.current = run.current
      /\ run'.iteration = run.iteration
  BY <1>1, <1>2, OutKeepsRunTypes DEF Types
<1>4. Used' = Used
  BY <1>1, <1>3 DEF Used, UsedUp
<1>5. Results' = Results
  BY <1>1, <1>3 DEF Results, CallId
<1>6. CacheSeen' = CacheSeen /\ ContextSeen' = ContextSeen
  BY <1>1, <1>3, <1>5 DEF CacheSeen, ContextSeen
<1>7. Unfinished' = Unfinished
  BY <1>1, <1>3 DEF Unfinished, BatchIds, CallId
<1>8. Breakable'
  BY <1>1, <1>4, <1>7 DEF Breakable
<1> QED BY <1>1, <1>3, <1>4, <1>6, <1>8, QuietKeepsLogs

-----------------------------------------------------------------------------
(* The steps that write to the transcripts.                                *)
LEMMA BeginKeepsLogs ==
  ASSUME Types, LogsSound, NEW t \in Turns, Begin(t) \/ BeginAfterReset(t)
  PROVE  LogsSound'
<1>1. /\ pc = "idle" /\ pc' = "preparing" /\ attempts' = attempts + 1
      /\ UNCHANGED <<cleared, revived, torn>>
  BY DEF Begin, BeginAfterReset, BeginWith, ghosts
<1>2. Types'
  BY BeginKeepsTypes
<1>3. Used \subseteq Used'
  BY <1>1, <1>2, UsedGrows
<1>4. \E log \in Seq(Entries) :
        /\ cache' = log /\ run'.context = log
        /\ Storable(log, Used, torn) /\ Presentable(log, Used, torn)
        /\ ~revived => Clean(log, cleared)
        /\ file' = file \/ file' = <<>>
  <2>1. CASE Begin(t) /\ cold
    <3>1. PICK log \in Seq(Entries) :
            /\ log = Sanitize(file) /\ Range(log) \subseteq Range(file)
            /\ Storable(log, Used, torn) /\ Presentable(log, Used, torn)
      BY SanitizedSound, EntriesProper DEF LogsSound, Stored, Types, LogTypes
    <3>2. ~revived => Clean(log, cleared)
      BY <3>1 DEF LogsSound, Forgotten, Clean
    <3>3. cache' = log /\ run'.context = log /\ file' = file
      BY <2>1, <3>1 DEF Begin, BeginWith, Fresh
    <3> QED BY <3>1, <3>2, <3>3
  <2>2. CASE Begin(t) /\ ~cold
    <3>1. cache' = cache /\ run'.context = cache /\ file' = file
      BY <2>2 DEF Begin, BeginWith, Fresh
    <3>2. Presentable(cache, Used, torn)
      BY <1>1 DEF LogsSound, Shown, CacheSeen
    <3> QED BY <3>1, <3>2 DEF LogsSound, Stored, Forgotten, Types, LogTypes
  <2>3. CASE BeginAfterReset(t)
    <3>1. cache' = <<>> /\ run'.context = <<>> /\ file' = <<>> /\ <<>> \in Seq(Entries)
      BY <2>3 DEF BeginAfterReset, BeginWith, NewSession, Fresh
    <3>2. Clean(<<>>, cleared)
      BY RangeShort DEF Clean
    <3> QED BY <3>1, <3>2, EmptySound
  <2> QED BY <2>1, <2>2, <2>3
<1>5. PICK log \in Seq(Entries) :
        /\ cache' = log /\ run'.context = log
        /\ Storable(log, Used, torn) /\ Presentable(log, Used, torn)
        /\ ~revived => Clean(log, cleared)
        /\ file' = file \/ file' = <<>>
  BY <1>4
<1>6. Storable(file', Used', torn') /\ (~revived => Clean(file', cleared))
  <2>1. Storable(file, Used', torn') /\ (~revived => Clean(file, cleared))
    BY <1>1, <1>3, SoundGrows DEF LogsSound, Stored, Forgotten
  <2>2. Storable(<<>>, Used', torn') /\ Clean(<<>>, cleared)
    BY EmptySound, RangeShort DEF Clean
  <2> QED BY <1>5, <2>1, <2>2
<1>7. Storable(log, Used', torn') /\ Presentable(log, Used', torn')
  BY <1>1, <1>3, <1>5, SoundGrows
<1>8. Stored'
  BY <1>1, <1>3, <1>5, <1>6, <1>7 DEF LogsSound, Stored
<1>9. Shown'
  BY <1>1, <1>5, <1>7 DEF Shown, CacheSeen, ContextSeen
<1>10. Forgotten'
  BY <1>1, <1>5, <1>6 DEF Forgotten
<1> QED BY <1>8, <1>9, <1>10 DEF LogsSound

LEMMA CleanConcat ==
  ASSUME NEW one \in Seq(Entries), NEW two \in Seq(Entries), NEW n
  PROVE  Clean(one \o two, n) <=> Clean(one, n) /\ Clean(two, n)
<1>1. Range(one \o two) = Range(one) \cup Range(two)
  BY RangeConcatenation
<1> QED BY <1>1 DEF Clean

LEMMA AppendKeepsStored ==
  ASSUME LogTypes, NEW entries \in Seq(Entries), AppendTo(entries),
         NEW used, NEW hidden, Storable(cache, used, hidden), Storable(file, used, hidden),
         Storable(entries, used, hidden), Across(cache, entries), Across(file, entries)
  PROVE  Storable(cache', used, hidden) /\ Storable(file', used, hidden)
<1>1. /\ Storable(cache \o entries, used, hidden) /\ Storable(file \o entries, used, hidden)
  BY StorableConcat DEF LogTypes
<1> QED BY <1>1 DEF AppendTo

LEMMA AppendKeepsClean ==
  ASSUME LogTypes, NEW entries \in Seq(Entries), AppendTo(entries),
         NEW n, Clean(cache, n), Clean(file, n), Clean(entries, n)
  PROVE  Clean(cache', n) /\ Clean(file', n)
<1>1. Clean(cache \o entries, n) /\ Clean(file \o entries, n)
  BY CleanConcat DEF LogTypes
<1> QED BY <1>1 DEF AppendTo

(* What an attempt in progress writes is not what the history was cleared  *)
(* of.                                                                     *)
LEMMA OwnIsClean ==
  ASSUME Types, pc # "idle", NEW log, \A e \in Range(log) : e.from = {attempts}
  PROVE  Clean(log, cleared)
<1>1. attempts \notin 1 .. cleared
  BY Constants DEF Types, RunTypes, GhostTypes
<1> QED BY <1>1 DEF Clean

LEMMA SaidSound ==
  ASSUME Types, pc # "idle"
  PROVE  /\ Said \in Entries /\ <<Said>> \in Seq(Entries) /\ Clean(<<Said>>, cleared)
         /\ \A used, hidden : Storable(<<Said>>, used, hidden) /\ Presentable(<<Said>>, used, hidden)
         /\ \A log : Across(log, <<Said>>)
<1>1. Said \in Entries /\ Said.kind = "user" /\ Said.from = {attempts}
  BY EntryTypes DEF Said, UserMessage, Types, RunTypes
<1>2. Clean(<<Said>>, cleared)
  BY <1>1, RangeShort, OwnIsClean
<1> QED BY <1>1, <1>2, PlainSound, EntriesProper

LEMMA AppendUserKeepsLogs ==
  ASSUME Types, LogsSound, AppendUser
  PROVE  LogsSound'
<1>1. /\ pc = "preparing" /\ pc' = "head" /\ AppendTo(<<Said>>)
      /\ UNCHANGED <<attempts, torn, cleared, revived>>
      /\ run \in Runs
      /\ run' = [run EXCEPT !.context = Append(@, Said)]
  BY DEF AppendUser, EnterLoop, ghosts, Types, RunTypes
<1>2. /\ run'.context = run.context \o <<Said>> /\ run'.current = run.current
      /\ run'.iteration = run.iteration /\ run.context \in Seq(Entries)
      /\ run.iteration \in Int
  BY <1>1, SaidSound, AppendIsConcat DEF Runs
<1>3. Types'
  BY AppendUserKeepsTypes
<1>4. Used \subseteq Used'
  BY <1>1, <1>2, <1>3, UsedGrows DEF UsedUp
<1>5. PICK used, hidden : used = Used' /\ hidden = torn'
  OBVIOUS
<1>6. PICK one \in Seq(Entries) :
        /\ one = <<Said>> /\ Clean(one, cleared) /\ Across(cache, one) /\ Across(file, one)
        /\ Storable(one, used, hidden) /\ Presentable(one, used, hidden)
  BY <1>1, SaidSound
<1>7. /\ Storable(cache, used, hidden) /\ Storable(file, used, hidden)
      /\ Presentable(cache, used, hidden) /\ Presentable(run.context, used, hidden)
  BY <1>1, <1>4, <1>5, SoundGrows DEF LogsSound, Stored, Shown, CacheSeen, ContextSeen
<1>8. Stored'
  <2>1. Storable(cache', used, hidden) /\ Storable(file', used, hidden)
    BY <1>1, <1>6, <1>7, AppendKeepsStored DEF Types
  <2> QED BY <1>1, <1>4, <1>5, <2>1 DEF LogsSound, Stored
<1>9. Shown'
  <2>1. Presentable(cache \o one, used, hidden) /\ Presentable(run.context \o one, used, hidden)
    BY <1>2, <1>6, <1>7, PresentableConcat, EntriesProper DEF Types, LogTypes
  <2>2. Presentable(cache', used, hidden) /\ Presentable(run'.context, used, hidden)
    BY <1>1, <1>2, <1>6, <1>7, <2>1 DEF AppendTo
  <2> QED BY <1>1, <1>5, <2>2 DEF Shown, CacheSeen, ContextSeen
<1>10. Forgotten'
  <2>1. ASSUME ~revived
        PROVE  /\ Clean(cache', cleared) /\ Clean(file', cleared)
               /\ run.current => Clean(run'.context, cleared)
    <3>1. Clean(cache, cleared) /\ Clean(file, cleared)
          /\ (run.current => Clean(run.context, cleared))
      BY <1>1, <2>1 DEF LogsSound, Forgotten
    <3>2. Clean(cache', cleared) /\ Clean(file', cleared)
      BY <1>1, <1>6, <3>1, AppendKeepsClean DEF Types
    <3>3. Clean(run.context \o one, cleared) <=> Clean(run.context, cleared) /\ Clean(one, cleared)
      BY <1>2, CleanConcat
    <3>4. run'.context = run.context \o one
      BY <1>2, <1>6
    <3> QED BY <1>6, <3>1, <3>2, <3>3, <3>4
  <2> QED BY <1>1, <1>2, <2>1 DEF Forgotten
<1> QED BY <1>8, <1>9, <1>10 DEF LogsSound

LEMMA ModelRepliesKeepsLogs ==
  ASSUME Types, LogsSound, NEW silent \in BOOLEAN, ModelReplies(silent)
  PROVE  LogsSound'
<1>1. /\ pc = "model" /\ pc' = "idle"
      /\ AppendTo(IF silent THEN <<>> ELSE <<Reply(attempts)>>)
      /\ UNCHANGED <<attempts, torn, cleared, revived>>
  BY DEF ModelReplies, Persist, EndTurn, ghosts
<1>2. Used \subseteq Used'
  BY <1>1, ModelRepliesKeepsTypes, UsedGrows
<1>3. PICK used, hidden : used = Used' /\ hidden = torn'
  OBVIOUS
<1>4. PICK more \in Seq(Entries) :
        /\ AppendTo(more) /\ Clean(more, cleared) /\ Across(cache, more) /\ Across(file, more)
        /\ Storable(more, used, hidden) /\ Presentable(more, used, hidden)
  <2>1. Reply(attempts) \in Entries /\ Reply(attempts).kind = "reply"
        /\ Reply(attempts).from = {attempts}
    BY <1>1, EntryTypes DEF Reply, Types, RunTypes
  <2>2. Clean(<<Reply(attempts)>>, cleared)
    BY <1>1, <2>1, RangeShort, OwnIsClean
  <2>3. CASE silent
    <3>1. <<>> \in Seq(Entries) /\ AppendTo(<<>>) /\ Clean(<<>>, cleared)
          /\ \A log : Across(log, <<>>)
      BY <1>1, <2>3, RangeShort DEF Clean, Across
    <3> QED BY <3>1, EmptySound
  <2>4. CASE ~silent
    <3>1. AppendTo(<<Reply(attempts)>>)
      BY <1>1, <2>4
    <3> QED BY <2>1, <2>2, <3>1, PlainSound, EntriesProper
  <2> QED BY <2>3, <2>4
<1>5. /\ Storable(cache, used, hidden) /\ Storable(file, used, hidden)
      /\ Presentable(cache, used, hidden)
  BY <1>1, <1>2, <1>3, SoundGrows DEF LogsSound, Stored, Shown, CacheSeen
<1>6. Stored'
  <2>1. Storable(cache', used, hidden) /\ Storable(file', used, hidden)
    BY <1>4, <1>5, AppendKeepsStored DEF Types
  <2> QED BY <1>1, <1>2, <1>3, <2>1 DEF LogsSound, Stored
<1>7. Shown'
  <2>1. Presentable(cache \o more, used, hidden)
    BY <1>4, <1>5, PresentableConcat, EntriesProper DEF Types, LogTypes
  <2>2. Presentable(cache', used, hidden)
    BY <1>4, <1>5, <2>1 DEF AppendTo
  <2> QED BY <1>1, <1>3, <2>2 DEF Shown, CacheSeen
<1>8. Forgotten'
  <2>1. ASSUME ~revived PROVE Clean(cache', cleared) /\ Clean(file', cleared)
    BY <1>4, <2>1, AppendKeepsClean DEF LogsSound, Forgotten, Types
  <2> QED BY <1>1, <2>1 DEF Forgotten
<1> QED BY <1>6, <1>7, <1>8 DEF LogsSound

LEMMA RestartSessionKeepsLogs ==
  ASSUME Types, LogsSound, RestartSession
  PROVE  LogsSound'
<1>1. /\ pc = "archiving" /\ pc' = "head" /\ run \in Runs
      /\ cache' = <<Said>> /\ file' = <<Said>>
      /\ run' = [[run EXCEPT !.current = TRUE, !.context = <<Said>>] EXCEPT !.iteration = @ - 1]
      /\ UNCHANGED <<attempts, torn, cleared, revived>>
  BY DEF RestartSession, Recover, EnterLoop, NewSession, ghosts, Types, RunTypes
<1>2. run'.context = <<Said>> /\ run'.iteration = run.iteration - 1 /\ run.iteration \in Int
  BY <1>1 DEF Runs
<1>3. Types'
  BY RestartSessionKeepsTypes
<1>4. Used \subseteq Used'
  BY <1>1, <1>2, <1>3, UsedGrows DEF UsedUp
<1>5. PICK used, hidden : used = Used' /\ hidden = torn'
  OBVIOUS
<1>6. /\ Clean(<<Said>>, cleared)
      /\ Storable(<<Said>>, used, hidden) /\ Presentable(<<Said>>, used, hidden)
  BY <1>1, SaidSound
<1>7. Stored'
  BY <1>1, <1>4, <1>5, <1>6 DEF LogsSound, Stored
<1>8. Shown'
  BY <1>1, <1>2, <1>5, <1>6 DEF Shown, CacheSeen, ContextSeen
<1>9. Forgotten'
  BY <1>1, <1>2, <1>6 DEF Forgotten
<1> QED BY <1>7, <1>8, <1>9 DEF LogsSound

LEMMA ClearKeepsLogs ==
  ASSUME Types, LogsSound, Breakable, Clear
  PROVE  LogsSound' /\ Breakable'
<1>1. /\ cache' = <<>> /\ file' = <<>> /\ revived' = FALSE
      /\ UNCHANGED <<pc, attempts, torn>>
      /\ run' = IF pc = "idle" THEN run ELSE [run EXCEPT !.current = FALSE]
  BY DEF Clear, NewSession
<1>2. pc # "idle" => /\ run'.context = run.context /\ run'.batch = run.batch
                     /\ run'.iteration = run.iteration /\ run'.current = FALSE
  BY <1>1 DEF Types, RunTypes, Runs
<1>3. Used' = Used
  BY <1>1, <1>2 DEF Used, UsedUp
<1>4. pc = "tools" => Results' = Results
  BY <1>1, <1>2 DEF Results, CallId
<1>5. pc # "idle" => ContextSeen' = ContextSeen
  BY <1>1, <1>2, <1>4 DEF ContextSeen
<1>6. CacheSeen' = <<>>
  BY <1>1, <1>2 DEF CacheSeen
<1>7. Stored'
  BY <1>1, <1>2, <1>3, EmptySound DEF LogsSound, Stored
<1>8. Shown'
  BY <1>1, <1>3, <1>5, <1>6, EmptySound DEF LogsSound, Shown
<1>9. Forgotten'
  <2>1. \A n : Clean(<<>>, n)
    BY RangeShort DEF Clean
  <2> QED BY <1>1, <1>2, <2>1 DEF Forgotten
<1>10. Breakable'
  <2>1. pc = "tools" => Unfinished' = Unfinished
    BY <1>1, <1>2 DEF Unfinished, BatchIds, CallId
  <2> QED BY <1>1, <1>3, <2>1, EmptySound DEF Breakable
<1> QED BY <1>7, <1>8, <1>9, <1>10 DEF LogsSound

LEMMA CrashKeepsLogs ==
  ASSUME Types, LogsSound, Crash
  PROVE  LogsSound'
<1>1. /\ pc # "idle" /\ pc' = "idle" /\ cache' = <<>> /\ file' \in Survivors(file, flushed)
      /\ UNCHANGED <<attempts, torn, cleared, revived>>
  BY DEF Crash, EndTurn, ghosts
<1>2. Types'
  BY CrashKeepsTypes
<1>3. Used \subseteq Used'
  BY <1>1, <1>2, UsedGrows
<1>4. PICK log \in Seq(Entries), left \in Seq(Entries) : log = file /\ left = file'
  BY <1>2 DEF Types, LogTypes
<1>5. \/ \E k \in 0 .. Len(log) : left = SubSeq(log, 1, k)
      \/ \E k \in 1 .. Len(log) : left = RemoveAt(log, k)
  <2>1. flushed \in Nat /\ Len(log) \in Nat
    BY <1>4, LenProperties DEF Types, LogTypes
  <2>2. \A k : /\ k \in flushed .. Len(log) => k \in 0 .. Len(log)
               /\ k \in flushed + 1 .. Len(log) => k \in 1 .. Len(log)
    BY <2>1
  <2> QED BY <1>1, <1>4, <2>2 DEF Survivors
<1>6. PICK used, hidden : used = Used' /\ hidden = torn'
  OBVIOUS
<1>7. Storable(log, used, hidden)
  BY <1>1, <1>3, <1>4, <1>6, SoundGrows DEF LogsSound, Stored
<1>8. Range(left) \subseteq Range(log) /\ Storable(left, used, hidden)
  BY <1>5, <1>7, CutStorable
<1>9. Stored'
  BY <1>1, <1>3, <1>4, <1>6, <1>8, EmptySound DEF LogsSound, Stored
<1>10. Shown'
  BY <1>1, <1>6, EmptySound DEF Shown, CacheSeen
<1>11. Forgotten'
  <2>1. Clean(<<>>, cleared)
    BY RangeShort DEF Clean
  <2>2. ~revived => Clean(left, cleared)
    BY <1>4, <1>8 DEF LogsSound, Forgotten, Clean
  <2> QED BY <1>1, <1>4, <2>1, <2>2 DEF Forgotten
<1> QED BY <1>9, <1>10, <1>11 DEF LogsSound

(* A compaction puts what it made of the context in the place of the       *)
(* transcript: it must be fit to be stored and shown itself.               *)
LEMMA EndCompactionKeepsLogs ==
  ASSUME Types, LogsSound, EndCompaction
  PROVE  LogsSound'
<1>1. PICK old \in Seq(Entries), one \in Seq(Entries) :
        /\ old = run.context \o <<Said>> /\ one = <<Said>>
        /\ run.context \in Seq(Entries) /\ Append(run.context, Said) = old
  <2>1. run.context \in Seq(Entries) /\ <<Said>> \in Seq(Entries) /\ Said \in Entries
    BY SaidSound DEF EndCompaction, Types, RunTypes, Runs
  <2> QED BY <2>1, AppendIsConcat, ConcatProperties
<1>2. PICK short : short = Compact(old, KeepRecent)
  OBVIOUS
<1>3. /\ pc = "compacting" /\ pc' = "head" /\ run \in Runs
      /\ run' = [run EXCEPT !.current = TRUE, !.context = Append(short, Said)]
      /\ cache' = run'.context /\ file' = run'.context
      /\ revived' = (revived \/ ~run.current)
      /\ UNCHANGED <<attempts, torn, cleared>>
  BY <1>1, <1>2 DEF EndCompaction, EnterLoop, NewSession, Types, RunTypes
<1>4. run'.iteration = run.iteration /\ run.iteration \in Int
  BY <1>3 DEF Runs
<1>5. Types'
  BY EndCompactionKeepsTypes
<1>6. Used \subseteq Used'
  BY <1>3, <1>4, <1>5, UsedGrows DEF UsedUp
<1>7. PICK used, hidden : used = Used' /\ hidden = torn'
  OBVIOUS
<1>8. /\ Clean(one, cleared) /\ \A log : Across(log, one)
      /\ Storable(one, used, hidden) /\ Presentable(one, used, hidden)
  BY <1>1, <1>3, SaidSound
<1>9. Storable(old, used, hidden) /\ Presentable(old, used, hidden)
  <2>1. Storable(run.context, used, hidden) /\ Presentable(run.context, used, hidden)
    BY <1>3, <1>6, <1>7, SoundGrows DEF LogsSound, Stored, Shown, ContextSeen
  <2> QED BY <1>1, <1>8, <2>1, StorableConcat, PresentableConcat, EntriesProper
<1>10. /\ short \in Seq(Entries)
       /\ Storable(short, used, hidden) /\ Presentable(short, used, hidden)
       /\ \A e \in Range(short) : e \in Range(old) \/ \E s \in SUBSET Range(old) : e = Summary(s)
  BY <1>2, <1>9, CompactedSound, EntriesProper, Constants
<1>11. PICK new \in Seq(Entries) : new = short \o one
  BY <1>10, ConcatProperties
<1>12. run'.context = new
  BY <1>1, <1>3, <1>10, <1>11, SaidSound, AppendIsConcat DEF Runs
<1>13. Storable(new, used, hidden) /\ Presentable(new, used, hidden)
  BY <1>8, <1>10, <1>11, StorableConcat, PresentableConcat, EntriesProper
<1>14. Stored'
  BY <1>3, <1>6, <1>7, <1>12, <1>13 DEF LogsSound, Stored
<1>15. Shown'
  BY <1>3, <1>7, <1>12, <1>13 DEF Shown, CacheSeen, ContextSeen
<1>16. ASSUME ~revived, run.current PROVE Clean(new, cleared)
  <2>1. Clean(run.context, cleared)
    BY <1>3, <1>16 DEF LogsSound, Forgotten
  <2>2. Clean(old, cleared)
    <3>1. Clean(run.context \o one, cleared) <=> Clean(run.context, cleared) /\ Clean(one, cleared)
      BY <1>1, CleanConcat
    <3> QED BY <1>1, <1>8, <2>1, <3>1
  <2>3. Clean(short, cleared)
    <3>1. \A s \in SUBSET Range(old) : Summary(s).from \cap 1 .. cleared = {}
      BY <2>2 DEF Summary, Clean
    <3> QED BY <1>10, <2>2, <3>1 DEF Clean
  <2> QED BY <1>8, <1>10, <1>11, <2>3, CleanConcat
<1>17. Forgotten'
  BY <1>3, <1>12, <1>16 DEF Forgotten
<1> QED BY <1>14, <1>15, <1>17 DEF LogsSound

(* The results of a batch, one per call.                                   *)
LEMMA ResultsBlock ==
  ASSUME Types, pc \in {"model", "tools"},
         NEW calls \in Seq(Tools), calls # <<>>,
         NEW rs, rs = [i \in DOMAIN calls |-> ToolResult(attempts, CallId(i))],
         NEW ids, ids = {CallId(i) : i \in DOMAIN calls}
  PROVE  /\ rs \in Seq(Entries) /\ ToolCalls(attempts, ids) \in Entries
         /\ IsBlock(ToolCalls(attempts, ids), rs)
         /\ \A e \in Range(rs) : e.kind = "result" /\ e.from = {attempts}
<1>1. Len(calls) \in Nat /\ DOMAIN calls = 1 .. Len(calls) /\ Len(calls) # 0
  BY LenProperties, EmptySeq
<1>2. ids \in SUBSET Ids /\ ids # {}
  BY <1>1, CallIdType DEF Types
<1>3. IsFiniteSet(ids) /\ Cardinality(ids) = Len(calls)
  BY <1>1, CallIdsCount
<1>4. attempts \in Attempts
  BY DEF Types, RunTypes
<1>5. \A i \in 1 .. Len(calls) : ToolResult(attempts, CallId(i)) \in Entries
  BY <1>1, <1>2, <1>4, EntryTypes
<1>6. rs \in Seq(Entries) /\ Len(rs) = Len(calls)
  BY <1>1, <1>5
<1>7. Range(rs) = {ToolResult(attempts, CallId(i)) : i \in DOMAIN calls}
  BY <1>1 DEF Range
<1>8. UNION {e.ids : e \in Range(rs)} = ids
  <2>1. \A i : ToolResult(attempts, CallId(i)).ids = {CallId(i)}
    BY DEF ToolResult
  <2>2. \A e \in Range(rs) : \E i \in DOMAIN calls : e.ids = {CallId(i)}
    BY <1>7, <2>1
  <2>3. \A i \in DOMAIN calls : \E e \in Range(rs) : e.ids = {CallId(i)}
    BY <1>7, <2>1
  <2>4. ASSUME NEW id \in UNION {e.ids : e \in Range(rs)} PROVE id \in ids
    <3>1. PICK e \in Range(rs) : id \in e.ids
      BY <2>4
    <3>2. PICK i \in DOMAIN calls : e.ids = {CallId(i)}
      BY <2>2, <3>1
    <3> QED BY <3>1, <3>2
  <2>5. ASSUME NEW id \in ids PROVE id \in UNION {e.ids : e \in Range(rs)}
    <3>1. PICK i \in DOMAIN calls : id = CallId(i)
      BY <2>5
    <3>2. PICK e \in Range(rs) : e.ids = {CallId(i)}
      BY <2>3, <3>1
    <3> QED BY <3>1, <3>2
  <2> QED BY <2>4, <2>5
<1>9. \A e \in Range(rs) : e.kind = "result" /\ e.from = {attempts}
  BY <1>7 DEF ToolResult
<1> QED BY <1>2, <1>3, <1>4, <1>6, <1>8, <1>9, EntryTypes DEF IsBlock, ToolCalls

LEMMA RecordResultsKeepsLogs ==
  ASSUME Types, LogsSound, RecordResults
  PROVE  LogsSound'
<1>1. /\ pc = "tools" /\ AppendTo(Results) /\ run \in Runs
      /\ UNCHANGED <<attempts, torn, cleared, revived>>
      /\ \/ pc' = "idle"
         \/ /\ pc' = "head"
            /\ run' = [run EXCEPT !.context = @ \o Results, !.attempted = @ \/ AttemptedAction,
                                  !.batch = <<>>, !.out = <<>>]
  BY DEF RecordResults, EndTurn, EnterLoop, ghosts, Types, RunTypes
<1>2. run.context \in Seq(Entries) /\ run.iteration \in Int
  BY <1>1 DEF Runs
<1>3. PICK rs \in Seq(Entries) : rs = Results
  BY <1>1, ResultsType DEF Types
<1>4. pc' # "idle" => /\ run'.context = run.context \o rs /\ run'.current = run.current
                      /\ run'.iteration = run.iteration
  BY <1>1, <1>3 DEF Runs
<1>5. Types'
  BY RecordResultsKeepsTypes
<1>6. Used \subseteq Used'
  BY <1>1, <1>2, <1>4, <1>5, UsedGrows DEF UsedUp
<1>7. PICK used, hidden : used = Used' /\ hidden = torn'
  OBVIOUS
<1>8. \A e \in Range(rs) : e.kind = "result" /\ e.from = {attempts}
  BY <1>3 DEF Results, ToolResult, Range
<1>9. /\ Storable(cache, used, hidden) /\ Storable(file, used, hidden)
      /\ Presentable(CacheSeen, used, hidden) /\ Presentable(ContextSeen, used, hidden)
  BY <1>1, <1>6, <1>7, SoundGrows DEF LogsSound, Stored, Shown
<1>10. Storable(rs, used, hidden)
  <2>1. PICK both \in Seq(Entries) :
          both = run.context \o rs /\ Range(both) = Range(run.context) \cup Range(rs)
    <3>1. run.context \o rs \in Seq(Entries)
      BY <1>2, ConcatProperties
    <3>2. Range(run.context \o rs) = Range(run.context) \cup Range(rs)
      BY <1>2, RangeConcatenation
    <3> QED BY <3>1, <3>2
  <2>2. Within(rs, used)
    BY <1>1, <1>3, <1>9, <2>1 DEF ContextSeen, Presentable, Within
  <2>3. Logged(rs, hidden)
    BY <1>8 DEF Logged, Unsplit
  <2>4. Disjoint(rs)
    <3>1. \A i \in DOMAIN rs : rs[i] \in Range(rs)
      BY DEF Range
    <3> QED BY <1>8, <3>1 DEF Disjoint
  <2> QED BY <2>2, <2>3, <2>4 DEF Storable
<1>11. \A log : Across(log, rs)
  BY <1>8 DEF Across
<1>12. Clean(rs, cleared)
  BY <1>1, <1>8, OwnIsClean
<1>13. Stored'
  <2>1. Storable(cache', used, hidden) /\ Storable(file', used, hidden)
    BY <1>1, <1>3, <1>9, <1>10, <1>11, AppendKeepsStored DEF Types
  <2> QED BY <1>1, <1>6, <1>7, <2>1 DEF LogsSound, Stored
<1>14. Shown'
  <2>1. CacheSeen' = CacheSeen
    BY <1>1 DEF CacheSeen, AppendTo
  <2>2. pc' # "idle" => ContextSeen' = ContextSeen
    BY <1>1, <1>3, <1>4 DEF ContextSeen
  <2> QED BY <1>7, <1>9, <2>1, <2>2 DEF Shown
<1>15. Forgotten'
  <2>1. ASSUME ~revived
        PROVE  /\ Clean(cache', cleared) /\ Clean(file', cleared)
               /\ run.current => Clean(run.context \o rs, cleared)
    <3>1. Clean(cache, cleared) /\ Clean(file, cleared)
          /\ (run.current => Clean(run.context, cleared))
      BY <1>1, <2>1 DEF LogsSound, Forgotten
    <3>2. Clean(cache', cleared) /\ Clean(file', cleared)
      BY <1>1, <1>3, <1>12, <3>1, AppendKeepsClean DEF Types
    <3>3. Clean(run.context \o rs, cleared) <=> Clean(run.context, cleared) /\ Clean(rs, cleared)
      BY <1>2, CleanConcat
    <3> QED BY <1>12, <3>1, <3>2, <3>3
  <2> QED BY <1>1, <1>4, <2>1 DEF Forgotten
<1> QED BY <1>13, <1>14, <1>15 DEF LogsSound

(* The ids of a batch are new.                                             *)
LEMMA CallIdsFresh ==
  ASSUME Types, pc = "model", pc' = "tools", UNCHANGED attempts,
         run'.iteration = run.iteration,
         NEW n \in Nat, NEW ids, ids = {CallId(i) : i \in 1 .. n}
  PROVE  ids \cap Used = {} /\ ids \subseteq Used'
<1>1. run.iteration \in Int /\ attempts \in Int
  BY Constants DEF Types, RunTypes, Runs
<1>2. ids \subseteq Ids
  BY CallIdType DEF Types
<1>3. \A id \in ids : id[1] = attempts /\ id[2] = run.iteration
  BY DEF CallId
<1>4. \A id \in ids : id \notin Used
  BY <1>1, <1>3 DEF Used, UsedUp
<1>5. \A id \in ids : id \in Used'
  BY <1>1, <1>2, <1>3 DEF Used, UsedUp
<1> QED BY <1>4, <1>5

LEMMA Regroup ==
  ASSUME NEW s \in Seq(Entries), NEW one \in Seq(Entries), NEW rs \in Seq(Entries)
  PROVE  (s \o one) \o rs = s \o (one \o rs)
  BY ConcatAssociative

(* A message with calls that is left out of the transcript is followed     *)
(* there by results that answer nothing, and both by those alone.          *)
LEMMA ModelAsksKeepsLogs ==
  ASSUME Types, LogsSound, NEW q \in Requests, ModelAsks(q)
  PROVE  LogsSound' /\ Breakable'
<1>1. PICK ids, rs : /\ ids = {CallId(i) : i \in DOMAIN q.calls}
                     /\ rs = [i \in DOMAIN q.calls |-> ToolResult(attempts, CallId(i))]
  OBVIOUS
<1>2. /\ pc = "model" /\ pc' = "tools" /\ run \in Runs
      /\ AppendTo(IF q.silent THEN <<>> ELSE <<ToolCalls(attempts, ids)>>)
      /\ torn' = torn \cup IF q.silent THEN ids ELSE {}
      /\ \E out : run' = [run EXCEPT !.context = Append(@, ToolCalls(attempts, ids)),
                                     !.batch = q.calls, !.out = out]
      /\ UNCHANGED <<attempts, cleared, revived>>
  BY <1>1 DEF ModelAsks, Persist, Types, RunTypes
<1>3. /\ q.calls \in Seq(Tools) /\ q.calls # <<>> /\ Len(q.calls) \in Nat
      /\ DOMAIN q.calls = 1 .. Len(q.calls)
  BY Constants, LenProperties
<1>4. PICK c \in Entries, block \in Seq(Entries) :
        /\ c = ToolCalls(attempts, ids) /\ block = rs /\ IsBlock(c, block)
        /\ \A e \in Range(block) : e.kind = "result" /\ e.from = {attempts}
  <2>1. /\ rs \in Seq(Entries) /\ ToolCalls(attempts, ids) \in Entries
        /\ IsBlock(ToolCalls(attempts, ids), rs)
        /\ \A e \in Range(rs) : e.kind = "result" /\ e.from = {attempts}
    <3>1. PICK calls \in Seq(Tools) : calls = q.calls /\ calls # <<>>
      BY <1>3
    <3>2. /\ ids = {CallId(i) : i \in DOMAIN calls}
          /\ rs = [i \in DOMAIN calls |-> ToolResult(attempts, CallId(i))]
      BY <1>1, <3>1
    <3>3. pc \in {"model", "tools"}
      BY <1>2
    <3> QED BY <3>1, <3>2, <3>3, ResultsBlock
  <2> QED BY <2>1
<1>5. c.kind = "calls" /\ c.ids = ids /\ c.from = {attempts}
  BY <1>4 DEF ToolCalls
<1>6. PICK one \in Seq(Entries) : one = <<c>>
  <2>1. <<c>> \in Seq(Entries)
    OBVIOUS
  <2> QED BY <2>1
<1>7. /\ run.context \in Seq(Entries) /\ run'.context = run.context \o one
      /\ run'.batch = q.calls /\ run'.current = run.current
      /\ run'.iteration = run.iteration /\ run.iteration \in Int
  <2>1. run.context \in Seq(Entries) /\ run.iteration \in Int
    BY <1>2 DEF Runs
  <2>2. Append(run.context, c) = run.context \o one
    BY <1>6, <2>1, AppendIsConcat
  <2> QED BY <1>2, <1>4, <2>1, <2>2 DEF Runs
<1>8. Results' = block
  BY <1>1, <1>2, <1>4, <1>7 DEF Results, CallId
<1>9. ids \cap Used = {} /\ ids \subseteq Used'
  BY <1>1, <1>2, <1>3, <1>7, CallIdsFresh
<1>10. Used \subseteq Used'
  BY <1>2, <1>7, ModelAsksKeepsTypes, UsedGrows DEF UsedUp
<1>11. PICK used, hidden, more :
         /\ used = Used' /\ hidden = torn' /\ more = (IF q.silent THEN ids ELSE {})
         /\ hidden = torn \cup more
  BY <1>2
<1>12. more \cap Used = {}
  BY <1>9, <1>11
<1>13. /\ Storable(cache, used, hidden) /\ Storable(file, used, hidden)
       /\ Presentable(cache, used, hidden) /\ Presentable(run.context, used, hidden)
  <2>1. /\ Storable(cache, Used, torn) /\ Storable(file, Used, torn)
        /\ Presentable(cache, Used, torn) /\ Presentable(run.context, Used, torn)
    BY <1>2 DEF LogsSound, Stored, Shown, CacheSeen, ContextSeen
  <2>2. Storable(cache, used, torn \cup more) /\ Storable(file, used, torn \cup more)
    BY <1>10, <1>11, <1>12, <2>1, StorableLater
  <2>3. cache \in Seq(Entries)
    BY DEF Types, LogTypes
  <2>4. Presentable(cache, used, torn \cup more)
    BY <1>10, <1>11, <1>12, <2>1, <2>3, PresentableLater
  <2>5. Presentable(run.context, used, torn \cup more)
    BY <1>7, <1>10, <1>11, <1>12, <2>1, PresentableLater
  <2> QED BY <1>11, <2>2, <2>4, <2>5
<1>14. IF q.silent THEN ids \subseteq hidden ELSE ids \cap hidden = {}
  BY <1>9, <1>11 DEF LogsSound, Stored
<1>15. /\ Presentable(one \o block, used, hidden) /\ one \o block \in Seq(Entries)
       /\ q.silent => Presentable(block, used, hidden)
  <2>1. ids \subseteq used /\ (ids \subseteq hidden \/ ids \cap hidden = {})
    BY <1>9, <1>11, <1>14
  <2> QED BY <1>4, <1>5, <1>6, <1>14, <2>1, BlockPresentable, EntriesProper
<1>16. cache \in Seq(Entries) /\ file \in Seq(Entries) /\ cache \o <<>> = cache /\ file \o <<>> = file
  BY ConcatEmptySeq DEF Types, LogTypes
<1>17. Stored'
  <2>1. CASE q.silent
    <3>1. cache' = cache /\ file' = file
      BY <1>2, <1>16, <2>1 DEF AppendTo
    <3>2. hidden \subseteq used
      BY <1>9, <1>10, <1>11 DEF LogsSound, Stored
    <3> QED BY <1>2, <1>11, <1>13, <3>1, <3>2 DEF Stored
  <2>2. CASE ~q.silent
    <3>1. AppendTo(one)
      BY <1>2, <1>4, <1>6, <2>2
    <3>2. Storable(one, used, hidden)
      <4>1. Range(one) = {c} /\ Disjoint(one)
        BY <1>6, RangeShort DEF Disjoint
      <4> QED BY <1>5, <1>9, <1>11, <1>14, <2>2, <4>1 DEF Storable, Logged, Unsplit, Within
    <3>3. Across(cache, one) /\ Across(file, one)
      <4>1. \A e \in Range(cache) \cup Range(file) : e.ids \subseteq Used
        BY DEF LogsSound, Stored, Storable, Within
      <4>2. Range(one) = {c}
        BY <1>6, RangeShort
      <4> QED BY <1>5, <1>9, <4>1, <4>2 DEF Across
    <3>4. Storable(cache', used, hidden) /\ Storable(file', used, hidden)
      BY <1>13, <3>1, <3>2, <3>3, AppendKeepsStored DEF Types
    <3>5. hidden \subseteq used
      BY <1>10, <1>11, <2>2 DEF LogsSound, Stored
    <3> QED BY <1>2, <1>11, <3>4, <3>5 DEF Stored
  <2> QED BY <2>1, <2>2
<1>18. Shown'
  <2>1. Presentable(ContextSeen', used, hidden)
    <3>1. ContextSeen' = run.context \o (one \o block)
      <4>1. ContextSeen' = (run.context \o one) \o block
        BY <1>2, <1>7, <1>8 DEF ContextSeen
      <4>2. (run.context \o one) \o block = run.context \o (one \o block)
        BY <1>7, Regroup
      <4> QED BY <4>1, <4>2
    <3> QED BY <1>7, <1>13, <1>15, <3>1, PresentableConcat, EntriesProper
  <2>2. Presentable(CacheSeen', used, hidden)
    <3>1. CASE ~run.current
      BY <1>2, <1>7, <1>13, <3>1 DEF CacheSeen, AppendTo
    <3>2. CASE run.current /\ q.silent
      <4>1. CacheSeen' = cache \o block
        BY <1>2, <1>7, <1>8, <1>16, <3>2 DEF CacheSeen, AppendTo
      <4> QED BY <1>13, <1>15, <1>16, <3>2, <4>1, PresentableConcat, EntriesProper
    <3>3. CASE run.current /\ ~q.silent
      <4>1. CacheSeen' = (cache \o one) \o block
        BY <1>2, <1>4, <1>6, <1>7, <1>8, <3>3 DEF CacheSeen, AppendTo
      <4>2. CacheSeen' = cache \o (one \o block)
        BY <1>16, <4>1, Regroup
      <4> QED BY <1>13, <1>15, <1>16, <4>2, PresentableConcat, EntriesProper
    <3> QED BY <3>1, <3>2, <3>3
  <2> QED BY <1>11, <2>1, <2>2 DEF Shown
<1>19. Forgotten'
  <2>1. Clean(one, cleared)
    BY <1>2, <1>5, <1>6, RangeShort, OwnIsClean
  <2>2. ASSUME ~revived
        PROVE  /\ Clean(cache', cleared) /\ Clean(file', cleared)
               /\ run.current => Clean(run.context \o one, cleared)
    <3>1. Clean(cache, cleared) /\ Clean(file, cleared)
          /\ (run.current => Clean(run.context, cleared))
      BY <1>2, <2>2 DEF LogsSound, Forgotten
    <3>2. Clean(cache', cleared) /\ Clean(file', cleared)
      <4>1. CASE q.silent
        BY <1>2, <1>16, <3>1, <4>1 DEF AppendTo
      <4>2. CASE ~q.silent
        <5>1. AppendTo(one)
          BY <1>2, <1>4, <1>6, <4>2
        <5> QED BY <2>1, <3>1, <5>1, AppendKeepsClean DEF Types
      <4> QED BY <4>1, <4>2
    <3>3. Clean(run.context \o one, cleared) <=> Clean(run.context, cleared) /\ Clean(one, cleared)
      BY <1>7, CleanConcat
    <3> QED BY <2>1, <3>1, <3>2, <3>3
  <2> QED BY <1>2, <1>7, <2>2 DEF Forgotten
<1>20. Breakable'
  <2>1. PICK all : all = torn \cup ids /\ all = Unfinished'
    <3>1. BatchIds' = ids
      BY <1>1, <1>2, <1>7 DEF BatchIds, CallId
    <3> QED BY <1>2, <3>1 DEF Unfinished
  <2>2. /\ Storable(cache, used, all) /\ Storable(file, used, all)
        /\ Presentable(cache, used, all)
    <3>1. /\ Storable(cache, Used, torn) /\ Storable(file, Used, torn)
          /\ Presentable(cache, Used, torn)
      BY <1>2 DEF LogsSound, Stored, Shown, CacheSeen
    <3>2. Storable(cache, used, torn \cup ids) /\ Storable(file, used, torn \cup ids)
      BY <1>9, <1>10, <1>11, <3>1, StorableLater
    <3>3. Presentable(cache, used, torn \cup ids)
      BY <1>9, <1>10, <1>11, <1>16, <3>1, PresentableLater
    <3> QED BY <2>1, <3>2, <3>3
  <2>3. all \subseteq used
    BY <1>9, <1>10, <1>11, <2>1 DEF LogsSound, Stored
  <2>4. CASE q.silent
    <3>1. cache' = cache /\ file' = file
      BY <1>2, <1>16, <2>4 DEF AppendTo
    <3> QED BY <1>11, <2>1, <2>2, <2>3, <3>1 DEF Breakable
  <2>5. CASE ~q.silent
    <3>1. AppendTo(one) /\ Range(one) = {c} /\ Disjoint(one)
      BY <1>2, <1>4, <1>6, <2>5, RangeShort DEF Disjoint
    <3>2. Storable(one, used, all)
      BY <1>5, <1>9, <1>11, <2>1, <3>1 DEF Storable, Logged, Unsplit, Within
    <3>3. Across(cache, one) /\ Across(file, one)
      <4>1. \A e \in Range(cache) \cup Range(file) : e.ids \subseteq Used
        BY DEF LogsSound, Stored, Storable, Within
      <4> QED BY <1>5, <1>9, <3>1, <4>1 DEF Across
    <3>4. Storable(cache', used, all) /\ Storable(file', used, all)
      BY <2>2, <3>1, <3>2, <3>3, AppendKeepsStored DEF Types
    <3>5. Presentable(one, used, all)
      <4>1. c.ids # {}
        BY <1>4, <1>5, EntriesProper DEF AllProper, Proper
      <4>2. \A e \in Range(one) : Drops(all, e)
        BY <1>5, <2>1, <3>1, <4>1 DEF Drops
      <4>3. Without(one, all) = <<>>
        BY <4>2, WithoutDropsAll
      <4> QED BY <3>2, <4>3, WellFormedShort DEF Presentable, Storable
    <3>6. Presentable(cache \o one, used, all)
      BY <1>16, <2>2, <3>5, PresentableConcat, EntriesProper
    <3>7. Presentable(cache', used, all)
      BY <2>2, <3>1, <3>6 DEF AppendTo
    <3> QED BY <1>11, <2>1, <2>3, <3>4, <3>7 DEF Breakable
  <2> QED BY <2>4, <2>5
<1> QED BY <1>17, <1>18, <1>19, <1>20 DEF LogsSound

(* A batch that fails leaves only what is about its own calls.             *)
LEMMA ToolPhaseFailsKeepsLogs ==
  ASSUME Types, LogsSound, Breakable, ToolPhaseFails
  PROVE  LogsSound'
<1>1. /\ pc = "tools" /\ pc' = "idle" /\ UNCHANGED <<attempts, cleared, revived>>
      /\ torn' = Unfinished
  BY ToolPhaseFailsMeans DEF EndTurn, Unfinished, Types
<1>2. PICK rs \in Seq(Entries) : AppendTo(rs) /\ Range(rs) \subseteq Range(Results)
  BY ToolPhaseFailsMeans DEF Types
<1>3. Used \subseteq Used'
  BY <1>1, ToolPhaseFailsKeepsTypes, UsedGrows
<1>4. \A e \in Range(rs) :
        /\ e.kind = "result" /\ e.from = {attempts}
        /\ e.ids \subseteq BatchIds /\ e.ids # {}
  <2>1. \A e \in Range(Results) :
          \E i \in DOMAIN run.batch : e = ToolResult(attempts, CallId(i))
    BY DEF Results, Range
  <2> QED BY <1>2, <2>1 DEF ToolResult, BatchIds
<1>5. PICK used, hidden : used = Used' /\ hidden = torn' /\ BatchIds \subseteq hidden
  BY <1>1 DEF Unfinished
<1>6. /\ hidden \subseteq used /\ Storable(cache, used, hidden) /\ Storable(file, used, hidden)
      /\ Presentable(cache, used, hidden)
  BY <1>1, <1>3, <1>5, SoundGrows DEF Breakable
<1>7. Storable(rs, used, hidden)
  <2>1. \A i \in DOMAIN rs : rs[i] \in Range(rs)
    BY DEF Range
  <2>2. Disjoint(rs)
    BY <1>4, <2>1 DEF Disjoint
  <2>3. Logged(rs, hidden)
    BY <1>4 DEF Logged, Unsplit
  <2>4. Within(rs, used)
    BY <1>4, <1>5, <1>6 DEF Within
  <2> QED BY <2>2, <2>3, <2>4 DEF Storable
<1>8. Across(cache, rs) /\ Across(file, rs) /\ Clean(rs, cleared)
  <2>1. Across(cache, rs) /\ Across(file, rs)
    BY <1>4 DEF Across
  <2> QED BY <1>1, <1>4, <2>1, OwnIsClean
<1>9. Stored'
  BY <1>1, <1>2, <1>5, <1>6, <1>7, <1>8, AppendKeepsStored DEF Types, Stored
<1>10. Shown'
  <2>1. \A e \in Range(rs) : Drops(hidden, e)
    BY <1>4, <1>5 DEF Drops
  <2>2. Without(rs, hidden) = <<>>
    BY <2>1, WithoutDropsAll
  <2>3. Presentable(rs, used, hidden)
    BY <1>7, <2>2, WellFormedShort DEF Presentable, Storable
  <2>4. Presentable(cache \o rs, used, hidden)
    BY <1>6, <2>3, PresentableConcat, EntriesProper DEF Types, LogTypes
  <2>5. Presentable(cache', used, hidden)
    BY <1>2, <1>6, <2>4 DEF AppendTo
  <2> QED BY <1>1, <1>5, <2>5 DEF Shown, CacheSeen
<1>11. Forgotten'
  <2>1. ASSUME ~revived PROVE Clean(cache', cleared) /\ Clean(file', cleared)
    BY <1>2, <1>8, <2>1, AppendKeepsClean DEF LogsSound, Forgotten, Types
  <2> QED BY <1>1, <2>1 DEF Forgotten
<1> QED BY <1>9, <1>10, <1>11 DEF LogsSound

-----------------------------------------------------------------------------
LEMMA LogsSoundInit == Init => LogsSound /\ Breakable
<1> SUFFICES ASSUME Init PROVE LogsSound /\ Breakable
  OBVIOUS
<1>1. Stored
  BY EmptySound DEF Init, Stored
<1>2. Shown
  BY EmptySound DEF Init, Shown, CacheSeen
<1>3. Forgotten
  BY RangeShort DEF Init, Forgotten, Clean
<1>4. Breakable
  BY DEF Init, Breakable
<1> QED BY <1>1, <1>2, <1>3, <1>4 DEF LogsSound

LEMMA LogsSoundStep ==
  Types /\ LogsSound /\ Breakable /\ [Next]_vars => LogsSound' /\ Breakable'
<1> SUFFICES ASSUME Types, LogsSound, Breakable, [Next]_vars PROVE LogsSound' /\ Breakable'
  OBVIOUS
<1>1. ASSUME NEW t \in Turns, Begin(t) \/ BeginAfterReset(t) PROVE LogsSound' /\ pc' # "tools"
  BY <1>1, BeginKeepsLogs DEF Begin, BeginAfterReset, BeginWith
<1>2. CASE Progress
  <2>1. ASSUME NEW q \in Requests, ModelAsks(q) PROVE LogsSound' /\ Breakable'
    BY <2>1, ModelAsksKeepsLogs
  <2>2. ASSUME pc = "tools", NEW i \in DOMAIN run.out, ToolStep(i) PROVE LogsSound' /\ Breakable'
    BY <2>2, ToolsKeepLogs
  <2>3. CASE StartCompaction \/ OutOfTime \/ CallModel \/ ContextOverflows \/ FallBack \/ TurnFails
             \/ \E kind \in DOMAIN MaxRetries : Retry(kind)
    BY <2>3, LoopKeepsLogs DEF StartCompaction, OutOfTime, CallModel, ContextOverflows, FallBack,
       TurnFails, Retry, Recover, EnterLoop, EndTurn, Breakable
  <2>4. CASE AppendUser \/ EndCompaction \/ RestartSession
    BY <2>4, AppendUserKeepsLogs, EndCompactionKeepsLogs, RestartSessionKeepsLogs
       DEF AppendUser, EndCompaction, RestartSession, Recover, EnterLoop, Breakable
  <2>5. ASSUME NEW silent \in BOOLEAN, ModelReplies(silent) PROVE LogsSound' /\ Breakable'
    BY <2>5, ModelRepliesKeepsLogs DEF ModelReplies, EndTurn, Breakable
  <2>6. CASE RecordResults
    BY <2>6, RecordResultsKeepsLogs DEF RecordResults, EnterLoop, EndTurn, Breakable
  <2>7. CASE ToolPhaseFails
    BY <2>7, ToolPhaseFailsKeepsLogs DEF ToolPhaseFails, EndTurn, Breakable
  <2> QED BY <1>2, <2>1, <2>2, <2>3, <2>4, <2>5, <2>6, <2>7 DEF Progress
<1>3. ASSUME pc = "tools", ActionEnds PROVE LogsSound' /\ Breakable'
  BY <1>3, ToolsKeepLogs DEF ActionEnds
<1>4. CASE Clear \/ Crash
  BY <1>4, ClearKeepsLogs, CrashKeepsLogs DEF Crash, EndTurn, Breakable
<1>5. CASE UNCHANGED vars
  <2>1. UNCHANGED <<pc, run, attempts, cache, file, torn, cleared, revived>>
    BY <1>5 DEF vars, loopVars, logVars, ghosts
  <2>2. UNCHANGED <<Used, CacheSeen, ContextSeen, Unfinished>>
    BY <2>1 DEF Used, UsedUp, CacheSeen, ContextSeen, Results, CallId, Unfinished, BatchIds
  <2>3. Stored' /\ Shown' /\ Forgotten' /\ Breakable'
    BY <2>1, <2>2 DEF LogsSound, Stored, Shown, Forgotten, Clean, Breakable
  <2> QED BY <2>3 DEF LogsSound
<1>6. pc' # "tools" => Breakable'
  BY DEF Breakable
<1> QED BY <1>1, <1>2, <1>3, <1>4, <1>5, <1>6 DEF Next

(* Every call of the model is shown the results of each batch that is      *)
(* whole in the transcript right behind it and no others, whatever a crash *)
(* cut off or lost from the file, a batch that failed left behind and      *)
(* however often the session was compacted, cleared or begun again; and    *)
(* nothing of an attempt that was over when the history was cleared,       *)
(* unless a compaction that was running brought it back.  Batches that a   *)
(* silent response left out, or whose turn failed, are the exception that  *)
(* the formula names: for these the program does not keep the promise.     *)
THEOREM ContextsAreSound == Spec => []ContextSound
<1>1. Types /\ LogsSound /\ Breakable /\ [Next]_vars => (Types /\ LogsSound /\ Breakable)'
  BY TypesStep, LogsSoundStep
<1>2. Spec => [](Types /\ LogsSound /\ Breakable)
  BY TypesInit, LogsSoundInit, <1>1, PTL DEF Spec
<1> QED BY <1>2, LogsSoundMeans, PTL

(* The first turn after a restart reads a transcript in which every batch  *)
(* has all its results, whatever was left on the disk: the sanitizer makes *)
(* up for crashes, lost writes, silent responses and batches that failed.  *)
THEOREM RestartsRepair == Spec => RestartRepairs
<1>1. Types /\ [Next]_vars =>
        [pc = "idle" /\ cold /\ pc' = "preparing" => WellFormed(run'.context)]_vars
  <2> SUFFICES ASSUME Types, Next, pc = "idle", cold, pc' = "preparing"
               PROVE  WellFormed(run'.context)
    OBVIOUS
  <2>1. PICK t \in Turns : Begin(t) \/ BeginAfterReset(t)
    BY DEF Next, Progress, AppendUser, StartCompaction, EndCompaction, OutOfTime, CallModel,
       ModelReplies, ModelAsks, Retry, ContextOverflows, RestartSession, FallBack, TurnFails,
       RecordResults, ToolPhaseFails, Clear, Crash
  <2>2. CASE Begin(t)
    <3>1. run'.context = Sanitize(file)
      BY <2>2 DEF Begin, BeginWith, Fresh
    <3>2. WellFormed(Sanitize(file))
      BY SanitizeSound, EntriesProper DEF AllProper, Types, LogTypes
    <3> QED BY <3>1, <3>2
  <2>3. CASE BeginAfterReset(t)
    <3>1. run'.context = <<>>
      BY <2>3 DEF BeginAfterReset, BeginWith, Fresh
    <3> QED BY <3>1, WellFormedShort
  <2> QED BY <2>1, <2>2, <2>3
<1> QED BY <1>1, TypesInit, TypesStep, PTL DEF Spec, RestartRepairs
=============================================================================
