----------------------------- MODULE Transcript -----------------------------
(***************************************************************************)
(* session/transcript.ts and memory/compaction.ts: the transcript of a     *)
(* session as a sequence of entries, what a restart makes of it and how it *)
(* is compacted.                                                           *)
(*                                                                         *)
(* An entry says what it is, from which attempts at a turn its content     *)
(* comes, and the ids of the tool calls it makes (calls) or answers        *)
(* (result).                                                               *)
(***************************************************************************)
EXTENDS Integers, FiniteSets, SequencesExt

UserMessage(attempt) == [kind |-> "user", from |-> {attempt}, ids |-> {}]
Reply(attempt) == [kind |-> "reply", from |-> {attempt}, ids |-> {}]
ToolCalls(attempt, ids) == [kind |-> "calls", from |-> {attempt}, ids |-> ids]
ToolResult(attempt, id) == [kind |-> "result", from |-> {attempt}, ids |-> {id}]
Summary(old) ==
  [kind |-> "summary", from |-> UNION {e.from : e \in old}, ids |-> {}]

(* The assistant and tool messages of a log are well formed when every     *)
(* message with tool calls is followed at once by the results of all of    *)
(* them and there is no other result.                                      *)
Batch(log, i) == i + 1 .. i + Cardinality(log[i].ids)
WellFormed(log) ==
  /\ \A i \in DOMAIN log : log[i].kind = "calls" =>
       /\ Batch(log, i) \subseteq DOMAIN log
       /\ \A j \in Batch(log, i) : log[j].kind = "result"
       /\ UNION {log[j].ids : j \in Batch(log, i)} = log[i].ids
  /\ \A j \in DOMAIN log : log[j].kind = "result" =>
       \E i \in DOMAIN log : log[i].kind = "calls" /\ j \in Batch(log, i)

(* The log without what is about given tool calls only.                    *)
Without(log, ids) ==
  LET Keep(kept, entry) ==
        IF entry.ids # {} /\ entry.ids \subseteq ids THEN kept ELSE Append(kept, entry)
  IN FoldLeft(Keep, <<>>, log)

-----------------------------------------------------------------------------
(* sanitizeTranscriptMessages: batch holds the calls and the results so    *)
(* far of a message that still has open ones; it is kept once all are      *)
(* answered and discarded when another message comes first or the log      *)
(* ends.  Results outside a batch are dropped.                             *)
Closed == [kept |-> <<>>, batch |-> <<>>, open |-> {}]
TakeOutside(acc, entry) ==
  CASE entry.kind = "result" -> acc
    [] entry.kind = "calls" -> [acc EXCEPT !.batch = <<entry>>, !.open = entry.ids]
    [] OTHER -> [acc EXCEPT !.kept = Append(@, entry)]
TakeResult(acc, entry) ==
  IF acc.open = entry.ids
  THEN [kept |-> acc.kept \o Append(acc.batch, entry), batch |-> <<>>, open |-> {}]
  ELSE [acc EXCEPT !.batch = Append(@, entry), !.open = @ \ entry.ids]
DiscardNothing(acc) == [acc EXCEPT !.kept = @ \o acc.batch, !.batch = <<>>, !.open = {}]
DiscardBatch(acc) == [acc EXCEPT !.batch = <<>>, !.open = {}]
SanitizeEntry(acc, entry) ==
  IF entry.kind = "result" /\ entry.ids \subseteq acc.open
  THEN TakeResult(acc, entry)
  ELSE TakeOutside(DiscardBatch(acc), entry)
Sanitize(log) == DiscardBatch(FoldLeft(SanitizeEntry, Closed, log)).kept

-----------------------------------------------------------------------------
(* compactContext: the entries before a cut become a summary.  The cut     *)
(* keeps the given number of entries and moves back until no kept result   *)
(* has lost its call; without such a cut the log stays as it is.           *)
HasOrphanedToolResults(log) ==
  \E e \in Range(log) :
    e.kind = "result" /\ ~\E c \in Range(log) : c.kind = "calls" /\ e.ids \subseteq c.ids
After(log, cut) == SubSeq(log, cut + 1, Len(log))
Cuts(log, keep) == {i \in 0 .. Len(log) - keep : ~HasOrphanedToolResults(After(log, i))}
Compact(log, keep) ==
  IF Len(log) <= keep \/ Cuts(log, keep) = {} THEN log
  ELSE LET cut == Max(Cuts(log, keep))
       IN <<Summary(Range(SubSeq(log, 1, cut)))>> \o After(log, cut)
=============================================================================
