-------------------------- MODULE TranscriptProofs --------------------------
(***************************************************************************)
(* Lemmas about Transcript for logs of any length: what sanitizing and     *)
(* compacting a log returns.  A fold is a recursive function that is       *)
(* chosen; FoldExists shows that there is one, and Induction, which is     *)
(* stated about a set and not about a predicate, carries what each step    *)
(* preserves to its end.                                                   *)
(***************************************************************************)
EXTENDS Transcript, SequenceTheorems, FiniteSetTheorems, WellFoundedInduction, TLAPS

LEMMA Induction ==
  ASSUME NEW S, 0 \in S, \A k \in Nat : k \in S => k + 1 \in S
  PROVE  \A k \in Nat : k \in S
<1> SUFFICES ASSUME Nat \ S # {} PROVE FALSE
  OBVIOUS
<1>1. \E k \in Nat \ S : \A j \in Nat \ S : ~(<<j, k>> \in OpToRel(<, Nat))
  <2>1. Nat \ S \in SUBSET Nat /\ Nat \ S # {}
    OBVIOUS
  <2> QED BY <2>1, NatLessThanWellFounded, WFMin
<1>2. \A j, k \in Nat : j < k => <<j, k>> \in OpToRel(<, Nat)
  BY DEF OpToRel
<1> HIDE DEF OpToRel
<1>3. PICK k \in Nat \ S : \A j \in Nat \ S : ~(j < k)
  <2>1. PICK k \in Nat \ S : \A j \in Nat \ S : ~(<<j, k>> \in OpToRel(<, Nat))
    BY <1>1
  <2> QED BY <1>2, <2>1
<1>4. k # 0 /\ k \in Nat
  BY <1>3
<1>5. k - 1 \in Nat /\ k - 1 < k /\ (k - 1) + 1 = k
  BY <1>4
<1> QED BY <1>3, <1>5

LEMMA MaxOfInterval ==
  ASSUME NEW n \in Nat
  PROVE  \A s \in SUBSET (0 .. n) : s # {} => Max(s) \in s /\ \A x \in s : x <= Max(s)
<1> DEFINE S == {k \in Nat : \A s \in SUBSET (0 .. k) : s # {} => \E m \in s : \A x \in s : x <= m}
<1>1. 0 \in S
  <2>1. \A x \in 0 .. 0 : x = 0
    OBVIOUS
  <2>2. ASSUME NEW s \in SUBSET (0 .. 0), s # {} PROVE 0 \in s /\ \A x \in s : x <= 0
    <3>1. PICK x \in s : TRUE
      BY <2>2
    <3>2. \A y \in s : y = 0
      BY <2>1
    <3> QED BY <3>1, <3>2
  <2> QED BY <2>2
<1>2. ASSUME NEW k \in Nat, k \in S PROVE k + 1 \in S
  <2>1. ASSUME NEW s \in SUBSET (0 .. k + 1), s # {} PROVE \E m \in s : \A x \in s : x <= m
    <3>1. CASE k + 1 \in s
      BY <3>1
    <3>2. CASE k + 1 \notin s
      <4>1. s \in SUBSET (0 .. k)
        BY <3>2
      <4> QED BY <1>2, <2>1, <4>1
    <3> QED BY <3>1, <3>2
  <2> QED BY <2>1
<1> HIDE DEF S
<1>3. n \in S
  BY <1>1, <1>2, Induction
<1>4. ASSUME NEW s \in SUBSET (0 .. n), s # {} PROVE Max(s) \in s /\ \A x \in s : x <= Max(s)
  <2>1. PICK m \in s : \A x \in s : x <= m
    BY <1>3, <1>4 DEF S
  <2>2. \A x \in s : m >= x
    BY <2>1
  <2>3. Max(s) \in s /\ \A x \in s : Max(s) >= x
    BY <2>2 DEF Max
  <2> QED BY <2>3
<1> QED BY <1>4

LEMMA MaxOfPositive ==
  ASSUME NEW n \in Nat
  PROVE  \A s \in SUBSET (1 .. n) : s # {} => Max(s) \in s /\ \A x \in s : x <= Max(s)
<1>1. \A s \in SUBSET (1 .. n) : s \in SUBSET (0 .. n)
  OBVIOUS
<1> QED BY <1>1, MaxOfInterval

IsFold(f, n, base, step) ==
  f = [s \in SUBSET (1 .. n) |-> IF s = {} THEN base ELSE step[<<Max(s), f[s \ {Max(s)}]>>]]

LEMMA FoldExists ==
  ASSUME NEW n \in Nat, NEW A, NEW base \in A, NEW step \in [(1 .. n) \X A -> A]
  PROVE  \E f \in [SUBSET (1 .. n) -> A] : IsFold(f, n, base, step)
<1> DEFINE
      Value(f, s) == IF s = {} THEN base ELSE step[<<Max(s), f[s \ {Max(s)}]>>]
      Fold(k) == \E f \in [SUBSET (1 .. k) -> A] : \A s \in SUBSET (1 .. k) : f[s] = Value(f, s)
      S == {k \in Nat : k <= n => Fold(k)}
<1>1. Fold(0)
  <2> DEFINE f == [s \in SUBSET (1 .. 0) |-> base]
  <2>1. f \in [SUBSET (1 .. 0) -> A] /\ \A s \in SUBSET (1 .. 0) : s = {} /\ f[s] = base
    OBVIOUS
  <2> QED BY <2>1
<1>2. ASSUME NEW k \in Nat, Fold(k), k + 1 <= n PROVE Fold(k + 1)
  <2>1. PICK f \in [SUBSET (1 .. k) -> A] : \A s \in SUBSET (1 .. k) : f[s] = Value(f, s)
    BY <1>2
  <2> DEFINE g == [s \in SUBSET (1 .. k + 1) |->
                     IF k + 1 \in s THEN step[<<k + 1, f[s \ {k + 1}]>>] ELSE f[s]]
  <2>2. \A s \in SUBSET (1 .. k + 1) :
          IF k + 1 \in s THEN s \ {k + 1} \in SUBSET (1 .. k) ELSE s \in SUBSET (1 .. k)
    OBVIOUS
  <2>3. g \in [SUBSET (1 .. k + 1) -> A]
    <3>1. k + 1 \in 1 .. n
      BY <1>2
    <3>2. \A a \in A : step[<<k + 1, a>>] \in A
      BY <3>1
    <3>3. ASSUME NEW s \in SUBSET (1 .. k + 1)
          PROVE  (IF k + 1 \in s THEN step[<<k + 1, f[s \ {k + 1}]>>] ELSE f[s]) \in A
      BY <2>2, <3>2
    <3> QED BY <3>3
  <2>4. ASSUME NEW s \in SUBSET (1 .. k + 1) PROVE g[s] = Value(g, s)
    <3>1. CASE s = {}
      <4>1. s \in SUBSET (1 .. k) /\ k + 1 \notin s
        BY <3>1
      <4> QED BY <2>1, <3>1, <4>1
    <3>2. CASE s # {}
      <4>1. Max(s) \in s /\ \A x \in s : x <= Max(s)
        <5>1. k + 1 \in Nat
          OBVIOUS
        <5> QED BY <3>2, <5>1, MaxOfPositive
      <4>2. s \ {Max(s)} \in SUBSET (1 .. k)
        <5>1. Max(s) \in 1 .. k + 1
          BY <4>1
        <5>2. ASSUME NEW x \in s, x # Max(s) PROVE x \in 1 .. k
          <6>1. x \in 1 .. k + 1 /\ x <= Max(s)
            BY <4>1
          <6> QED BY <5>1, <5>2, <6>1
        <5> QED BY <5>2
      <4>3. g[s \ {Max(s)}] = f[s \ {Max(s)}]
        <5>1. k + 1 \notin s \ {Max(s)} /\ s \ {Max(s)} \in SUBSET (1 .. k + 1)
          BY <4>2
        <5> QED BY <5>1
      <4>4. CASE k + 1 \in s
        <5>1. Max(s) = k + 1
          <6>1. Max(s) \in 1 .. k + 1 /\ k + 1 <= Max(s)
            BY <4>1, <4>4
          <6> QED BY <6>1
        <5> QED BY <3>2, <4>3, <4>4, <5>1
      <4>5. CASE k + 1 \notin s
        <5>1. s \in SUBSET (1 .. k)
          BY <4>5
        <5> QED BY <2>1, <3>2, <4>3, <4>5, <5>1
      <4> QED BY <4>4, <4>5
    <3> QED BY <3>1, <3>2
  <2> QED BY <2>3, <2>4
<1> HIDE DEF Fold
<1>3. n \in S
  <2>1. 0 \in S /\ \A k \in Nat : k \in S => k + 1 \in S
    BY <1>1, <1>2
  <2> HIDE DEF S
  <2> QED BY <2>1, Induction
<1>4. Fold(n)
  BY <1>3
<1>5. PICK f \in [SUBSET (1 .. n) -> A] : \A s \in SUBSET (1 .. n) : f[s] = Value(f, s)
  BY <1>4 DEF Fold
<1>6. f = [s \in SUBSET (1 .. n) |-> f[s]]
  OBVIOUS
<1>7. f = [s \in SUBSET (1 .. n) |-> Value(f, s)]
  BY <1>5, <1>6
<1> QED BY <1>7 DEF IsFold

-----------------------------------------------------------------------------
(* What sanitizing has in hand: the entries kept, the batch and its open   *)
(* calls.                                                                  *)
Accs(E) == [kept : Seq(E), batch : Seq(E), open : SUBSET UNION {e.ids : e \in E}]

LEMMA SanitizeEntryType ==
  ASSUME NEW E, NEW acc \in Accs(E), NEW e \in E
  PROVE  SanitizeEntry(acc, e) \in Accs(E)
<1>1. /\ acc.kept \in Seq(E) /\ acc.batch \in Seq(E)
      /\ acc.open \in SUBSET UNION {x.ids : x \in E}
      /\ e.ids \in SUBSET UNION {x.ids : x \in E}
      /\ <<>> \in Seq(E) /\ <<e>> \in Seq(E)
  BY DEF Accs
<1>2. \A s, t \in Seq(E) : s \o t \in Seq(E) /\ Append(s, e) \in Seq(E)
  OBVIOUS
<1>3. DiscardBatch(acc) \in Accs(E)
  BY <1>1 DEF DiscardBatch, Accs
<1>4. ASSUME NEW a \in Accs(E) PROVE TakeOutside(a, e) \in Accs(E)
  <2>1. CASE e.kind = "result"
    BY <2>1 DEF TakeOutside
  <2>2. CASE e.kind = "calls"
    BY <1>1, <2>2 DEF TakeOutside, Accs
  <2>3. CASE e.kind \notin {"result", "calls"}
    BY <1>2, <2>3 DEF TakeOutside, Accs
  <2> QED BY <2>1, <2>2, <2>3
<1>5. TakeResult(acc, e) \in Accs(E)
  <2>1. acc.kept \o Append(acc.batch, e) \in Seq(E) /\ Append(acc.batch, e) \in Seq(E)
    BY <1>1, <1>2
  <2> QED BY <1>1, <2>1 DEF TakeResult, Accs
<1> QED BY <1>3, <1>4, <1>5 DEF SanitizeEntry

(* Sanitizing goes through the log entry by entry.                         *)
Scan(log) == FoldLeft(SanitizeEntry, Closed, log)
Scans(acc, E, log) ==
  /\ acc \in [0 .. Len(log) -> Accs(E)]
  /\ acc[0] = Closed
  /\ \A k \in 0 .. Len(log) - 1 : acc[k + 1] = SanitizeEntry(acc[k], log[k + 1])
  /\ Scan(log) = acc[Len(log)]

LEMMA SanitizeSteps ==
  ASSUME NEW E, NEW log \in Seq(E)
  PROVE  \E acc : Scans(acc, E, log)
<1> DEFINE
      n == Len(log)
      Steps(f) == [s \in SUBSET (1 .. n) |->
                     IF s = {} THEN Closed ELSE SanitizeEntry(f[s \ {Max(s)}], log[Max(s)])]
      fold == CHOOSE f : f = Steps(f)
      step == [p \in (1 .. n) \X Accs(E) |-> SanitizeEntry(p[2], log[p[1]])]
<1>1. n \in Nat /\ DOMAIN log = 1 .. n
  OBVIOUS
<1>2. Closed \in Accs(E)
  BY DEF Closed, Accs
<1>3. step \in [(1 .. n) \X Accs(E) -> Accs(E)]
  <2>1. \A p \in (1 .. n) \X Accs(E) : log[p[1]] \in E /\ p[2] \in Accs(E)
    OBVIOUS
  <2> QED BY <2>1, SanitizeEntryType
<1>4. PICK f \in [SUBSET (1 .. n) -> Accs(E)] : IsFold(f, n, Closed, step)
  <2> HIDE DEF step, n
  <2> QED BY <1>1, <1>2, <1>3, FoldExists
<1>5. \A s \in SUBSET (1 .. n) : s # {} =>
        step[<<Max(s), f[s \ {Max(s)}]>>] = SanitizeEntry(f[s \ {Max(s)}], log[Max(s)])
  <2>1. ASSUME NEW s \in SUBSET (1 .. n), s # {}
        PROVE  <<Max(s), f[s \ {Max(s)}]>> \in (1 .. n) \X Accs(E)
    BY <1>1, <2>1, MaxOfPositive
  <2> QED BY <2>1
<1>6. f = Steps(f)
  BY <1>4, <1>5 DEF IsFold
<1>7. fold = Steps(fold)
  <2> HIDE DEF Steps
  <2> QED BY <1>6
<1>8. Scan(log) = fold[1 .. n]
  BY <1>1 DEF Scan, FoldLeft, MapThenFoldSet
<1>9. fold[1 .. 0] = Closed
  <2>1. 1 .. 0 = {} /\ {} \in SUBSET (1 .. n)
    OBVIOUS
  <2> HIDE DEF fold
  <2> QED BY <1>7, <2>1
<1>10. ASSUME NEW k \in 0 .. n - 1
       PROVE  fold[1 .. k + 1] = SanitizeEntry(fold[1 .. k], log[k + 1])
  <2>1. 1 .. k + 1 \in SUBSET (1 .. n) /\ 1 .. k + 1 # {} /\ k + 1 \in 1 .. k + 1
    <3>1. k \in Nat /\ k + 1 <= n
      BY <1>1
    <3>2. k + 1 \in 1 .. k + 1
      BY <3>1
    <3> HIDE DEF n
    <3>3. \A x \in 1 .. k + 1 : x \in 1 .. n
      BY <1>1, <3>1
    <3> QED BY <3>2, <3>3
  <2>2. Max(1 .. k + 1) \in 1 .. k + 1 /\ \A x \in 1 .. k + 1 : x <= Max(1 .. k + 1)
    BY <1>1, <2>1, MaxOfPositive
  <2>3. Max(1 .. k + 1) = k + 1
    BY <2>1, <2>2
  <2>4. (1 .. k + 1) \ {k + 1} = 1 .. k
    BY <1>1
  <2> HIDE DEF fold, n
  <2> QED BY <1>7, <2>1, <2>3, <2>4
<1>11. \A k \in Nat : k <= n => fold[1 .. k] \in Accs(E)
  <2> HIDE DEF fold
  <2> DEFINE S == {k \in Nat : k <= n => fold[1 .. k] \in Accs(E)}
  <2>1. 0 \in S
    BY <1>2, <1>9
  <2>2. ASSUME NEW k \in Nat, k \in S PROVE k + 1 \in S
    <3>1. CASE k + 1 <= n
      <4>1. k \in 0 .. n - 1 /\ k <= n /\ log[k + 1] \in E
        BY <1>1, <3>1
      <4>2. fold[1 .. k] \in Accs(E)
        BY <2>2, <4>1
      <4> HIDE DEF n
      <4> QED BY <1>10, <4>1, <4>2, SanitizeEntryType
    <3>2. CASE ~(k + 1 <= n)
      BY <3>2
    <3> QED BY <3>1, <3>2
  <2> HIDE DEF S
  <2>3. \A k \in Nat : k \in S
    BY <2>1, <2>2, Induction
  <2> QED BY <2>3 DEF S
<1> HIDE DEF fold, n
<1> DEFINE acc == [k \in 0 .. n |-> fold[1 .. k]]
<1>12. acc \in [0 .. n -> Accs(E)]
  BY <1>1, <1>11
<1>13. \A k \in 0 .. n - 1 : acc[k + 1] = SanitizeEntry(acc[k], log[k + 1])
  BY <1>1, <1>10
<1>14. acc[0] = Closed /\ acc[n] = fold[1 .. n]
  BY <1>1, <1>9
<1> QED BY <1>8, <1>12, <1>13, <1>14 DEF n, Scans

LEMMA ScanType ==
  ASSUME NEW E, NEW log \in Seq(E)
  PROVE  Scan(log) \in Accs(E) /\ Sanitize(log) = Scan(log).kept
<1>1. PICK acc : Scans(acc, E, log)
  BY SanitizeSteps
<1>2. Scan(log) \in Accs(E)
  <2>1. Len(log) \in 0 .. Len(log)
    BY LenProperties
  <2> QED BY <1>1, <2>1 DEF Scans
<1>3. Sanitize(log) = DiscardBatch(Scan(log)).kept
  BY DEF Sanitize, Scan
<1> QED BY <1>2, <1>3 DEF DiscardBatch, Accs

(* A sanitized log holds entries of the log and no others.                 *)
LEMMA SanitizeType ==
  ASSUME NEW E, NEW log \in Seq(E)
  PROVE  Sanitize(log) \in Seq(E)
  BY ScanType DEF Accs

-----------------------------------------------------------------------------
(* Compacting leaves a log as it is, or makes a summary of what comes      *)
(* before a cut behind which no result has lost its call.                  *)
LEMMA CompactCases ==
  ASSUME NEW E, NEW log \in Seq(E), NEW keep \in Nat
  PROVE  \/ Compact(log, keep) = log
         \/ \E cut \in 0 .. Len(log) :
              /\ ~HasOrphanedToolResults(After(log, cut))
              /\ Compact(log, keep) = <<Summary(Range(SubSeq(log, 1, cut)))>> \o After(log, cut)
<1> DEFINE cut == Max(Cuts(log, keep))
<1>1. Len(log) - keep \in Int /\ Len(log) \in Nat
  BY LenProperties
<1>2. CASE Len(log) <= keep \/ Cuts(log, keep) = {}
  BY <1>2 DEF Compact
<1>3. CASE ~(Len(log) <= keep) /\ Cuts(log, keep) # {}
  <2>1. Len(log) - keep \in Nat
    BY <1>1, <1>3
  <2>2. Cuts(log, keep) \in SUBSET (0 .. Len(log) - keep)
    BY DEF Cuts
  <2>3. cut \in Cuts(log, keep)
    BY <1>3, <2>1, <2>2, MaxOfInterval
  <2>4. cut \in 0 .. Len(log) /\ ~HasOrphanedToolResults(After(log, cut))
    BY <1>1, <2>3 DEF Cuts
  <2>5. Compact(log, keep) = <<Summary(Range(SubSeq(log, 1, cut)))>> \o After(log, cut)
    BY <1>3 DEF Compact
  <2> QED BY <2>4, <2>5
<1> QED BY <1>2, <1>3

LEMMA AfterType ==
  ASSUME NEW E, NEW log \in Seq(E), NEW cut \in 0 .. Len(log)
  PROVE  /\ After(log, cut) \in Seq(E)
         /\ Len(After(log, cut)) = Len(log) - cut
         /\ \A i \in 1 .. Len(log) - cut : After(log, cut)[i] = log[cut + i]
<1>1. Len(log) \in Nat /\ cut \in Nat /\ cut <= Len(log)
  BY LenProperties
<1>2. \A i \in cut + 1 .. Len(log) : log[i] \in E
  BY <1>1, ElementOfSeq
<1>3. /\ SubSeq(log, cut + 1, Len(log)) \in Seq(E)
      /\ Len(SubSeq(log, cut + 1, Len(log))) =
           IF cut + 1 <= Len(log) THEN Len(log) - (cut + 1) + 1 ELSE 0
      /\ \A i \in 1 .. Len(log) - (cut + 1) + 1 :
           SubSeq(log, cut + 1, Len(log))[i] = log[cut + 1 + i - 1]
  BY <1>1, <1>2, SubSeqProperties
<1> QED BY <1>1, <1>3 DEF After

(* A log of entries, summaries of entries among them, stays one.           *)
LEMMA CompactType ==
  ASSUME NEW E, NEW log \in Seq(E), NEW keep \in Nat,
         \A old \in SUBSET E : Summary(old) \in E
  PROVE  Compact(log, keep) \in Seq(E)
<1> SUFFICES ASSUME NEW cut \in 0 .. Len(log),
                    Compact(log, keep) = <<Summary(Range(SubSeq(log, 1, cut)))>> \o After(log, cut)
             PROVE  Compact(log, keep) \in Seq(E)
  BY CompactCases
<1>1. Range(SubSeq(log, 1, cut)) \in SUBSET E
  <2>1. \A i \in 1 .. cut : log[i] \in E
    BY LenProperties, ElementOfSeq
  <2>2. SubSeq(log, 1, cut) \in Seq(E)
    BY <2>1, SubSeqProperties
  <2> QED BY <2>2, RangeOfSeq
<1>2. <<Summary(Range(SubSeq(log, 1, cut)))>> \in Seq(E)
  BY <1>1
<1> QED BY <1>2, AfterType, ConcatProperties

-----------------------------------------------------------------------------
(* Well-formed logs.  A message that makes calls has ids, a result has     *)
(* one, and no other message has any.                                      *)
Proper(e) ==
  /\ IsFiniteSet(e.ids)
  /\ e.kind = "result" => \E id : e.ids = {id}
  /\ e.kind = "calls" => e.ids # {}
  /\ e.kind \notin {"calls", "result"} => e.ids = {}

Answered(log, i) ==
  /\ Batch(log, i) \subseteq DOMAIN log
  /\ \A j \in Batch(log, i) : log[j].kind = "result"
  /\ UNION {log[j].ids : j \in Batch(log, i)} = log[i].ids

LEMMA WellFormedMeans ==
  ASSUME NEW log
  PROVE  WellFormed(log) <=>
           /\ \A i \in DOMAIN log : log[i].kind = "calls" => Answered(log, i)
           /\ \A j \in DOMAIN log : log[j].kind = "result" =>
                \E i \in DOMAIN log : log[i].kind = "calls" /\ j \in Batch(log, i)
  BY DEF WellFormed, Answered

LEMMA ShiftedInterval ==
  ASSUME NEW a \in Int, NEW n \in Nat, NEW k \in Int
  PROVE  /\ \A j \in Int : j \in a + 1 .. a + n <=> j + k \in (a + k) + 1 .. (a + k) + n
         /\ \A j \in (a + k) + 1 .. (a + k) + n : j \in Int /\ j - k \in Int /\ (j - k) + k = j
  OBVIOUS

(* A call that is answered in one log is answered in another that holds    *)
(* the same entries k places further on.                                   *)
LEMMA AnsweredShifted ==
  ASSUME NEW E, \A e \in E : Proper(e), NEW one \in Seq(E), NEW two \in Seq(E),
         NEW k \in Int, NEW i \in DOMAIN one, i + k \in DOMAIN two, two[i + k] = one[i],
         Answered(one, i),
         \A j \in Batch(one, i) : j + k \in DOMAIN two /\ two[j + k] = one[j]
  PROVE  /\ Answered(two, i + k)
         /\ \A j \in Int : j \in Batch(one, i) <=> j + k \in Batch(two, i + k)
<1> DEFINE n == Cardinality(one[i].ids)
<1>1. n \in Nat /\ i \in Int
  <2>1. one[i] \in E
    OBVIOUS
  <2> QED BY <2>1, FS_CardinalityType DEF Proper
<1>2. Batch(one, i) = i + 1 .. i + n /\ Batch(two, i + k) = (i + k) + 1 .. (i + k) + n
  BY DEF Batch
<1> HIDE DEF n
<1>3. /\ \A j \in Int : j \in Batch(one, i) <=> j + k \in Batch(two, i + k)
      /\ \A j \in Batch(two, i + k) : j \in Int /\ j - k \in Int /\ (j - k) + k = j
      /\ \A j \in Batch(one, i) : j \in Int
  <2>1. i \in Int /\ n \in Nat /\ k \in Int
    BY <1>1
  <2>2. /\ \A j \in Int : j \in i + 1 .. i + n <=> j + k \in (i + k) + 1 .. (i + k) + n
        /\ \A j \in (i + k) + 1 .. (i + k) + n : j \in Int /\ j - k \in Int /\ (j - k) + k = j
    <3>1. PICK a \in Int : a = i
      BY <2>1
    <3>2. /\ \A j \in Int : j \in a + 1 .. a + n <=> j + k \in (a + k) + 1 .. (a + k) + n
          /\ \A j \in (a + k) + 1 .. (a + k) + n : j \in Int /\ j - k \in Int /\ (j - k) + k = j
      BY <2>1, ShiftedInterval
    <3> QED BY <3>1, <3>2
  <2>3. \A j \in i + 1 .. i + n : j \in Int
    BY <2>1
  <2> QED BY <1>2, <2>2, <2>3
<1>4. ASSUME NEW j \in Batch(two, i + k)
      PROVE  j - k \in Batch(one, i) /\ j \in DOMAIN two /\ two[j] = one[j - k]
  <2>1. j \in Int /\ j - k \in Int /\ (j - k) + k = j
    BY <1>3, <1>4
  <2>2. j - k \in Batch(one, i)
    BY <1>3, <2>1
  <2> QED BY <2>1, <2>2
<1>5. \A x : (\E j \in Batch(two, i + k) : x \in two[j].ids)
               <=> (\E j \in Batch(one, i) : x \in one[j].ids)
  <2>1. ASSUME NEW x, NEW j \in Batch(one, i), x \in one[j].ids
        PROVE  \E l \in Batch(two, i + k) : x \in two[l].ids
    <3>1. j \in Int
      BY <1>3
    <3>2. j + k \in Batch(two, i + k) /\ two[j + k] = one[j]
      BY <1>3, <3>1
    <3> QED BY <2>1, <3>2
  <2> QED BY <1>4, <2>1
<1>6. UNION {two[j].ids : j \in Batch(two, i + k)} = two[i + k].ids
  <2>1. UNION {one[j].ids : j \in Batch(one, i)} = one[i].ids
    BY DEF Answered
  <2>2. \A x : x \in UNION {two[j].ids : j \in Batch(two, i + k)}
                 <=> x \in UNION {one[j].ids : j \in Batch(one, i)}
    BY <1>5
  <2>3. UNION {two[j].ids : j \in Batch(two, i + k)} = UNION {one[j].ids : j \in Batch(one, i)}
    BY <2>2
  <2> QED BY <2>1, <2>3
<1>7. /\ Batch(two, i + k) \subseteq DOMAIN two
      /\ \A j \in Batch(two, i + k) : two[j].kind = "result"
  BY <1>4 DEF Answered
<1> QED BY <1>3, <1>6, <1>7 DEF Answered

(* The places of the entries of two logs in their concatenation.           *)
Places(one, two, both, m) ==
  /\ m \in Nat /\ Len(two) \in Nat
  /\ DOMAIN one = 1 .. m /\ DOMAIN two = 1 .. Len(two) /\ DOMAIN both = 1 .. m + Len(two)
  /\ \A i \in 1 .. m : i \in 1 .. m + Len(two) /\ both[i] = one[i]
  /\ \A i \in 1 .. Len(two) :
       i + m \in 1 .. m + Len(two) /\ i + m \notin 1 .. m /\ both[i + m] = two[i]
  /\ \A j \in 1 .. m + Len(two) :
       j \in 1 .. m \/ (j - m \in 1 .. Len(two) /\ (j - m) + m = j)

LEMMA ConcatPlaces ==
  ASSUME NEW E, NEW one \in Seq(E), NEW two \in Seq(E), NEW both, both = one \o two
  PROVE  \E m \in Nat : Places(one, two, both, m)
<1> DEFINE m == Len(one)
<1>1. /\ both \in Seq(E) /\ m \in Nat /\ Len(two) \in Nat /\ Len(both) = m + Len(two)
      /\ \A i \in 1 .. m + Len(two) : both[i] = IF i <= m THEN one[i] ELSE two[i - m]
  BY ConcatProperties, LenProperties
<1>2. DOMAIN one = 1 .. m /\ DOMAIN two = 1 .. Len(two) /\ DOMAIN both = 1 .. Len(both)
  BY <1>1, LenProperties
<1> HIDE DEF m
<1>3. \A i \in 1 .. m : i \in 1 .. m + Len(two) /\ i <= m
  BY <1>1
<1>4. \A i \in 1 .. Len(two) : /\ i + m \in 1 .. m + Len(two) /\ ~(i + m <= m)
                               /\ (i + m) - m = i /\ i + m \notin 1 .. m
  BY <1>1
<1>5. \A j \in 1 .. m + Len(two) :
        j \in 1 .. m \/ (j - m \in 1 .. Len(two) /\ (j - m) + m = j)
  BY <1>1
<1>6. Places(one, two, both, m)
  BY <1>1, <1>2, <1>3, <1>4, <1>5 DEF Places
<1> QED BY <1>1, <1>6

LEMMA WellFormedConcat ==
  ASSUME NEW E, \A e \in E : Proper(e), NEW s \in Seq(E), NEW t \in Seq(E),
         WellFormed(s), WellFormed(t)
  PROVE  WellFormed(s \o t)
<1>0. PICK u \in Seq(E) : u = s \o t
  BY ConcatProperties
<1>1. PICK m \in Nat : Places(s, t, u, m)
  BY <1>0, ConcatPlaces
<1> USE DEF Places
<1>2. ASSUME NEW i \in DOMAIN s, s[i].kind = "calls"
      PROVE  /\ i \in DOMAIN u /\ u[i].kind = "calls" /\ Answered(u, i)
             /\ \A j \in Int : j \in Batch(s, i) => j \in Batch(u, i)
  <2>1. Answered(s, i)
    BY <1>2, WellFormedMeans
  <2>2. \A j \in 1 .. m : j \in Int /\ j + 0 = j /\ j \in 1 .. m + Len(t)
    BY <1>1
  <2>3. \A j \in Batch(s, i) : j + 0 \in DOMAIN u /\ u[j + 0] = s[j]
    BY <1>1, <2>1, <2>2 DEF Answered
  <2>4. i + 0 = i /\ i \in DOMAIN u /\ u[i] = s[i]
    BY <1>1, <2>2
  <2>5. Answered(u, i + 0) /\ \A j \in Int : j \in Batch(s, i) <=> j + 0 \in Batch(u, i + 0)
    <3>1. PICK k \in Int : k = 0
      OBVIOUS
    <3>2. i + k \in DOMAIN u /\ u[i + k] = s[i]
      BY <2>4, <3>1
    <3>3. \A j \in Batch(s, i) : j + k \in DOMAIN u /\ u[j + k] = s[j]
      BY <2>3, <3>1
    <3>4. Answered(u, i + k) /\ \A j \in Int : j \in Batch(s, i) <=> j + k \in Batch(u, i + k)
      BY <2>1, <3>2, <3>3, AnsweredShifted
    <3> QED BY <3>1, <3>4
  <2>6. \A j \in Int : j + 0 = j
    OBVIOUS
  <2> QED BY <1>2, <2>4, <2>5, <2>6
<1>3. ASSUME NEW i \in DOMAIN t, t[i].kind = "calls"
      PROVE  /\ i + m \in DOMAIN u /\ u[i + m].kind = "calls" /\ Answered(u, i + m)
             /\ \A j \in Int : j \in Batch(t, i) => j + m \in Batch(u, i + m)
  <2>1. Answered(t, i)
    BY <1>3, WellFormedMeans
  <2>2. \A j \in 1 .. Len(t) : j + m \in 1 .. m + Len(t)
    BY <1>1
  <2>3. \A j \in Batch(t, i) : j + m \in DOMAIN u /\ u[j + m] = t[j]
    BY <1>1, <2>1, <2>2 DEF Answered
  <2>4. i + m \in DOMAIN u /\ u[i + m] = t[i]
    BY <1>1, <2>2
  <2>5. Answered(u, i + m) /\ \A j \in Int : j \in Batch(t, i) <=> j + m \in Batch(u, i + m)
    <3>1. m \in Int /\ u \in Seq(E)
      BY <1>1
    <3> QED BY <1>3, <2>1, <2>3, <2>4, <3>1, AnsweredShifted
  <2> QED BY <1>3, <2>4, <2>5
<1>4. ASSUME NEW j \in DOMAIN u
      PROVE  \/ j \in DOMAIN s /\ u[j] = s[j]
             \/ j - m \in DOMAIN t /\ u[j] = t[j - m] /\ (j - m) + m = j
  BY <1>1
<1>5. ASSUME NEW i \in DOMAIN u, u[i].kind = "calls" PROVE Answered(u, i)
  BY <1>2, <1>3, <1>4, <1>5
<1>6. ASSUME NEW j \in DOMAIN u, u[j].kind = "result"
      PROVE  \E i \in DOMAIN u : u[i].kind = "calls" /\ j \in Batch(u, i)
  <2>1. CASE j \in DOMAIN s /\ u[j] = s[j]
    <3>1. PICK i \in DOMAIN s : s[i].kind = "calls" /\ j \in Batch(s, i)
      BY <1>6, <2>1, WellFormedMeans
    <3>2. j \in Int
      BY <1>1
    <3> QED BY <1>2, <3>1, <3>2
  <2>2. CASE /\ j - m \in DOMAIN t /\ u[j] = t[j - m] /\ (j - m) + m = j
    <3>1. PICK i \in DOMAIN t : t[i].kind = "calls" /\ j - m \in Batch(t, i)
      BY <1>6, <2>2, WellFormedMeans
    <3>2. j - m \in Int
      BY <1>1
    <3>3. /\ i + m \in DOMAIN u /\ u[i + m].kind = "calls"
          /\ (j - m) + m \in Batch(u, i + m)
      BY <1>3, <3>1, <3>2
    <3> QED BY <2>2, <3>3
  <2> QED BY <1>4, <2>1, <2>2
<1> QED BY <1>0, <1>5, <1>6, WellFormedMeans


-----------------------------------------------------------------------------
(* Sequences, by induction along Append.                                   *)
LEMMA SeqInduction ==
  ASSUME NEW E, NEW S, <<>> \in S,
         \A s \in Seq(E), e \in E : s \in S => Append(s, e) \in S
  PROVE  \A s \in Seq(E) : s \in S
<1> DEFINE N == {n \in Nat : \A s \in Seq(E) : Len(s) = n => s \in S}
<1>1. 0 \in N
  <2>1. \A s \in Seq(E) : Len(s) = 0 => s = <<>>
    OBVIOUS
  <2> QED BY <2>1
<1>2. ASSUME NEW n \in Nat, n \in N PROVE n + 1 \in N
  <2> SUFFICES ASSUME NEW s \in Seq(E), Len(s) = n + 1 PROVE s \in S
    OBVIOUS
  <2>1. s # <<>>
    BY EmptySeq
  <2>2. PICK t \in Seq(E), e \in E : s = Append(t, e)
    BY <2>1, SequenceEmptyOrAppend
  <2>3. Len(t) = n
    BY <2>2, LenProperties, AppendProperties
  <2> QED BY <1>2, <2>2, <2>3
<1> HIDE DEF N
<1>3. \A n \in Nat : n \in N
  BY <1>1, <1>2, Induction
<1> QED BY <1>3, LenProperties DEF N

LEMMA IntervalMax ==
  ASSUME NEW n \in Nat, NEW k \in 0 .. n - 1
  PROVE  /\ 1 .. k + 1 \in SUBSET (1 .. n) /\ 1 .. k + 1 # {} /\ 1 .. k \in SUBSET (1 .. n)
         /\ Max(1 .. k + 1) = k + 1 /\ (1 .. k + 1) \ {k + 1} = 1 .. k
<1>1. k \in Nat /\ k + 1 <= n /\ k + 1 \in 1 .. k + 1
  OBVIOUS
<1>2. 1 .. k + 1 \in SUBSET (1 .. n) /\ 1 .. k + 1 # {} /\ 1 .. k \in SUBSET (1 .. n)
  BY <1>1
<1>3. Max(1 .. k + 1) \in 1 .. k + 1 /\ \A x \in 1 .. k + 1 : x <= Max(1 .. k + 1)
  BY <1>2, MaxOfPositive
<1>4. Max(1 .. k + 1) = k + 1
  BY <1>1, <1>3
<1> QED BY <1>1, <1>2, <1>4

-----------------------------------------------------------------------------
(* Without goes through the log entry by entry, too.                       *)
Drops(ids, e) == e.ids # {} /\ e.ids \subseteq ids
Take(ids, kept, e) == IF Drops(ids, e) THEN kept ELSE Append(kept, e)

Passes(acc, E, log, ids) ==
  /\ acc \in [0 .. Len(log) -> Seq(E)]
  /\ acc[0] = <<>>
  /\ \A k \in 0 .. Len(log) - 1 : acc[k + 1] = Take(ids, acc[k], log[k + 1])
  /\ Without(log, ids) = acc[Len(log)]

LEMMA WithoutSteps ==
  ASSUME NEW E, NEW log \in Seq(E), NEW ids
  PROVE  \E acc : Passes(acc, E, log, ids)
<1> DEFINE
      n == Len(log)
      Steps(f) == [s \in SUBSET (1 .. n) |->
                     IF s = {} THEN <<>> ELSE Take(ids, f[s \ {Max(s)}], log[Max(s)])]
      fold == CHOOSE f : f = Steps(f)
      step == [p \in (1 .. n) \X Seq(E) |-> Take(ids, p[2], log[p[1]])]
<1>1. n \in Nat /\ DOMAIN log = 1 .. n /\ \A k \in 1 .. n : log[k] \in E
  OBVIOUS
<1>2. \A s \in Seq(E), e \in E : Take(ids, s, e) \in Seq(E)
  BY AppendProperties DEF Take
<1>3. step \in [(1 .. n) \X Seq(E) -> Seq(E)]
  <2>1. \A p \in (1 .. n) \X Seq(E) : log[p[1]] \in E /\ p[2] \in Seq(E)
    OBVIOUS
  <2> QED BY <1>2, <2>1
<1>4. PICK f \in [SUBSET (1 .. n) -> Seq(E)] : IsFold(f, n, <<>>, step)
  <2> HIDE DEF step, n
  <2>1. <<>> \in Seq(E)
    OBVIOUS
  <2> QED BY <1>1, <1>3, <2>1, FoldExists
<1>5. \A s \in SUBSET (1 .. n) : s # {} =>
        step[<<Max(s), f[s \ {Max(s)}]>>] = Take(ids, f[s \ {Max(s)}], log[Max(s)])
  <2>1. ASSUME NEW s \in SUBSET (1 .. n), s # {}
        PROVE  <<Max(s), f[s \ {Max(s)}]>> \in (1 .. n) \X Seq(E)
    BY <1>1, <2>1, MaxOfPositive
  <2> QED BY <2>1
<1>6. f = Steps(f)
  BY <1>4, <1>5 DEF IsFold
<1>7. fold = Steps(fold)
  <2> HIDE DEF Steps
  <2> QED BY <1>6
<1>8. Without(log, ids) = fold[1 .. n]
  BY <1>1 DEF Without, FoldLeft, MapThenFoldSet, Take, Drops
<1>9. fold[1 .. 0] = <<>>
  <2>1. 1 .. 0 = {} /\ {} \in SUBSET (1 .. n)
    OBVIOUS
  <2> HIDE DEF fold
  <2> QED BY <1>7, <2>1
<1> HIDE DEF fold, n
<1>10. ASSUME NEW k \in 0 .. n - 1
       PROVE  fold[1 .. k + 1] = Take(ids, fold[1 .. k], log[k + 1])
  <2>1. /\ 1 .. k + 1 \in SUBSET (1 .. n) /\ 1 .. k + 1 # {}
        /\ Max(1 .. k + 1) = k + 1 /\ (1 .. k + 1) \ {k + 1} = 1 .. k
    BY <1>1, IntervalMax
  <2> QED BY <1>7, <2>1
<1>11. \A k \in Nat : k <= n => fold[1 .. k] \in Seq(E)
  <2> DEFINE S == {k \in Nat : k <= n => fold[1 .. k] \in Seq(E)}
  <2>0. <<>> \in Seq(E)
    OBVIOUS
  <2>1. 0 \in S
    BY <1>9, <2>0
  <2>2. ASSUME NEW k \in Nat, k \in S PROVE k + 1 \in S
    <3>1. CASE k + 1 <= n
      <4>1. k \in 0 .. n - 1 /\ k <= n /\ log[k + 1] \in E
        BY <1>1, <3>1
      <4>2. fold[1 .. k] \in Seq(E)
        BY <2>2, <4>1
      <4>3. fold[1 .. k + 1] = Take(ids, fold[1 .. k], log[k + 1])
        BY <1>10, <4>1
      <4>4. fold[1 .. k + 1] \in Seq(E)
        BY <1>2, <4>1, <4>2, <4>3
      <4>5. k + 1 \in Nat
        OBVIOUS
      <4> HIDE DEF Take
      <4> QED BY <4>4, <4>5
    <3>2. CASE ~(k + 1 <= n)
      BY <3>2
    <3> QED BY <3>1, <3>2
  <2> HIDE DEF S
  <2>3. \A k \in Nat : k \in S
    BY <2>1, <2>2, Induction
  <2> QED BY <2>3 DEF S
<1> DEFINE acc == [k \in 0 .. n |-> fold[1 .. k]]
<1>12. acc \in [0 .. n -> Seq(E)]
  BY <1>1, <1>11
<1>13. \A k \in 0 .. n - 1 : acc[k + 1] = Take(ids, acc[k], log[k + 1])
  BY <1>1, <1>10
<1>14. acc[0] = <<>> /\ acc[n] = fold[1 .. n]
  BY <1>1, <1>9
<1> QED BY <1>8, <1>12, <1>13, <1>14 DEF n, Passes

(* Two folds over the same entries pass through the same values.           *)
LEMMA SameSteps ==
  ASSUME NEW n \in Nat, NEW one, NEW two, one[0] = two[0],
         \A k \in 0 .. n - 1 : one[k] = two[k] => one[k + 1] = two[k + 1]
  PROVE  one[n] = two[n]
<1> DEFINE S == {k \in Nat : k <= n => one[k] = two[k]}
<1>1. 0 \in S
  OBVIOUS
<1>2. ASSUME NEW k \in Nat, k \in S PROVE k + 1 \in S
  <2>1. CASE k + 1 <= n
    <3>1. k \in 0 .. n - 1 /\ one[k] = two[k]
      BY <1>2, <2>1
    <3> QED BY <3>1
  <2> QED BY <2>1
<1> HIDE DEF S
<1>3. n \in S
  BY <1>1, <1>2, Induction
<1> QED BY <1>3 DEF S

LEMMA WithoutAppend ==
  ASSUME NEW E, NEW log \in Seq(E), NEW e \in E, NEW ids
  PROVE  /\ Without(<<>>, ids) = <<>>
         /\ Without(log, ids) \in Seq(E)
         /\ Without(Append(log, e), ids) = Take(ids, Without(log, ids), e)
<1> DEFINE n == Len(log)
<1>0. PICK more \in Seq(E) : more = Append(log, e)
  BY AppendProperties
<1>8. PICK next : Passes(next, E, more, ids)
  BY WithoutSteps
<1>9. PICK start : Passes(start, E, log, ids)
  BY WithoutSteps
<1>1. /\ n \in Nat /\ more \in Seq(E) /\ Len(more) = n + 1 /\ more[n + 1] = e
      /\ \A k \in 1 .. n : more[k] = log[k]
  BY <1>0, LenProperties, AppendProperties
<1>2. PICK one \in [0 .. n -> Seq(E)] :
        /\ one[0] = <<>>
        /\ \A k \in 0 .. n - 1 : one[k + 1] = Take(ids, one[k], log[k + 1])
        /\ Without(log, ids) = one[n]
  BY <1>9 DEF Passes
<1> HIDE DEF n
<1>3. PICK two \in [0 .. n + 1 -> Seq(E)] :
        /\ two[0] = <<>>
        /\ \A k \in 0 .. n : two[k + 1] = Take(ids, two[k], more[k + 1])
        /\ Without(more, ids) = two[n + 1]
  <2>1. (n + 1) - 1 = n
    BY <1>1
  <2>2. Len(more) = n + 1 /\ Len(more) - 1 = n
    BY <1>1, <2>1
  <2> QED BY <1>8, <2>2 DEF Passes
<1>4. one[n] = two[n]
  <2>1. \A k \in 0 .. n - 1 : k \in 0 .. n /\ k + 1 \in 1 .. n
    BY <1>1
  <2>2. \A k \in 0 .. n - 1 : one[k] = two[k] => one[k + 1] = two[k + 1]
    BY <1>1, <1>2, <1>3, <2>1
  <2>3. one[0] = two[0] /\ n \in Nat
    BY <1>1, <1>2, <1>3
  <2> QED BY <2>2, <2>3, SameSteps
<1>5. n \in 0 .. n /\ one[n] \in Seq(E)
  BY <1>1, <1>2
<1>6. Without(more, ids) = Take(ids, Without(log, ids), e)
  BY <1>1, <1>2, <1>3, <1>4, <1>5
<1>7. Without(<<>>, ids) = <<>>
  <2>1. PICK none : none = <<>>
    OBVIOUS
  <2>2. none \in Seq(E) /\ Len(none) = 0
    BY <2>1, EmptySeq
  <2>3. PICK acc : Passes(acc, E, none, ids)
    BY <2>2, WithoutSteps
  <2> QED BY <2>1, <2>2, <2>3 DEF Passes
<1> QED BY <1>0, <1>2, <1>5, <1>6, <1>7

LEMMA ScanAppend ==
  ASSUME NEW E, NEW log \in Seq(E), NEW e \in E
  PROVE  /\ Scan(<<>>) = Closed
         /\ Scan(Append(log, e)) = SanitizeEntry(Scan(log), e)
<1> DEFINE n == Len(log)
<1>0. PICK more \in Seq(E) : more = Append(log, e)
  BY AppendProperties
<1>1. /\ n \in Nat /\ Len(more) = n + 1 /\ more[n + 1] = e
      /\ \A k \in 1 .. n : more[k] = log[k]
  BY <1>0, LenProperties, AppendProperties
<1>2. PICK one : Scans(one, E, log)
  BY SanitizeSteps
<1>3. PICK two : Scans(two, E, more)
  BY SanitizeSteps
<1>4. /\ one[0] = Closed /\ Scan(log) = one[n]
      /\ \A k \in 0 .. n - 1 : one[k + 1] = SanitizeEntry(one[k], log[k + 1])
  BY <1>2 DEF Scans
<1> HIDE DEF n
<1>5. /\ two[0] = Closed /\ Scan(more) = two[n + 1]
      /\ \A k \in 0 .. n : two[k + 1] = SanitizeEntry(two[k], more[k + 1])
  <2>1. Len(more) = n + 1 /\ Len(more) - 1 = n
    BY <1>1
  <2> QED BY <1>3, <2>1 DEF Scans
<1>6. one[n] = two[n]
  <2>1. \A k \in 0 .. n - 1 : k \in 0 .. n /\ k + 1 \in 1 .. n
    BY <1>1
  <2>2. \A k \in 0 .. n - 1 : one[k] = two[k] => one[k + 1] = two[k + 1]
    BY <1>1, <1>4, <1>5, <2>1
  <2>3. one[0] = two[0] /\ n \in Nat
    BY <1>1, <1>4, <1>5
  <2> QED BY <2>2, <2>3, SameSteps
<1>7. n \in 0 .. n
  BY <1>1
<1>8. Scan(more) = SanitizeEntry(Scan(log), e)
  BY <1>1, <1>4, <1>5, <1>6, <1>7
<1>9. Scan(<<>>) = Closed
  <2>1. PICK none : none = <<>>
    OBVIOUS
  <2>2. none \in Seq(E) /\ Len(none) = 0
    BY <2>1, EmptySeq
  <2>3. PICK acc : Scans(acc, E, none)
    BY <2>2, SanitizeSteps
  <2> QED BY <2>1, <2>2, <2>3 DEF Scans
<1> QED BY <1>0, <1>8, <1>9

-----------------------------------------------------------------------------
(* What Without leaves of a log.                                           *)
LEMMA RangeShort == Range(<<>>) = {} /\ \A e : Range(<<e>>) = {e}
  BY DEF Range

LEMMA RangeAppend ==
  ASSUME NEW E, NEW log \in Seq(E), NEW e \in E
  PROVE  Range(Append(log, e)) = Range(log) \cup {e}
<1>1. Range(<<e>>) = {e}
  BY RangeShort
<1>2. <<e>> \in Seq(E)
  OBVIOUS
<1>3. Append(log, e) = log \o <<e>>
  BY AppendIsConcat
<1>4. Range(log \o <<e>>) = Range(log) \cup Range(<<e>>)
  <2>1. PICK one \in Seq(E) : one = <<e>>
    BY <1>2, Zenon
  <2>2. Range(log \o one) = Range(log) \cup Range(one)
    BY RangeConcatenation
  <2> QED BY <2>1, <2>2
<1> QED BY <1>1, <1>3, <1>4

(* Concatenation is associative and passes an Append through.  Each fact   *)
(* has a name, so that a proof can take the instance it needs.             *)
Associates(E) == \A s, t, u \in Seq(E) : (s \o t) \o u = s \o (t \o u) /\ s \o t \in Seq(E)
LEMMA Concats ==
  ASSUME NEW E
  PROVE  Associates(E)
<1>1. \A s, t, u \in Seq(E) : (s \o t) \o u = s \o (t \o u)
  BY ConcatAssociative
<1>2. \A s, t \in Seq(E) : s \o t \in Seq(E)
  BY ConcatProperties
<1> QED BY <1>1, <1>2 DEF Associates

AppendsLast(E) == \A s, t \in Seq(E) : \A e \in E : Append(s \o t, e) = s \o Append(t, e)
LEMMA ConcatAppends ==
  ASSUME NEW E
  PROVE  AppendsLast(E)
<1>0. Associates(E)
  BY Concats
<1>1. \A s, t, u \in Seq(E) : (s \o t) \o u = s \o (t \o u) /\ s \o t \in Seq(E)
  BY <1>0 DEF Associates
<1>2. \A s \in Seq(E) : \A e \in E : Append(s, e) = s \o <<e>> /\ <<e>> \in Seq(E)
  BY AppendIsConcat
<1> SUFFICES ASSUME NEW s \in Seq(E), NEW t \in Seq(E), NEW e \in E
             PROVE  Append(s \o t, e) = s \o Append(t, e)
  BY DEF AppendsLast
<1>3. <<e>> \in Seq(E) /\ s \o t \in Seq(E)
  BY <1>1, <1>2
<1>4. Append(s \o t, e) = (s \o t) \o <<e>> /\ Append(t, e) = t \o <<e>>
  BY <1>2, <1>3
<1> QED BY <1>1, <1>3, <1>4

LEMMA WithoutConcat ==
  ASSUME NEW E, NEW one \in Seq(E), NEW ids
  PROVE  \A two \in Seq(E) : Without(one \o two, ids) = Without(one, ids) \o Without(two, ids)
<1>0. AppendsLast(E)
  BY ConcatAppends
<1> DEFINE S == {two \in Seq(E) :
                   Without(one \o two, ids) = Without(one, ids) \o Without(two, ids)}
<1>1. <<>> \in S
  <2>1. <<>> \in Seq(E) /\ one \o <<>> = one
    BY ConcatEmptySeq
  <2>2. \A e \in E : Without(<<>>, ids) = <<>> /\ Without(one, ids) \in Seq(E)
    BY WithoutAppend
  <2>3. CASE E = {}
    <3>1. one = <<>>
      BY <2>3, EmptySeq, LenProperties
    <3>2. Without(<<>>, ids) = <<>>
      <4>1. <<>> \in Seq({{}}) /\ {} \in {{}}
        OBVIOUS
      <4> QED BY <4>1, WithoutAppend
    <3> QED BY <2>1, <3>1, <3>2
  <2>4. CASE E # {}
    BY <2>1, <2>2, <2>4, ConcatEmptySeq
  <2> QED BY <2>3, <2>4
<1>2. ASSUME NEW two \in Seq(E), NEW e \in E, two \in S PROVE Append(two, e) \in S
  <2>1. Append(two, e) \in Seq(E)
    BY AppendProperties
  <2>2. one \o Append(two, e) = Append(one \o two, e) /\ one \o two \in Seq(E)
    BY ConcatProperties
  <2>3. Without(one \o Append(two, e), ids) = Take(ids, Without(one \o two, ids), e)
    <3>1. PICK both \in Seq(E) : both = one \o two
      BY <2>2
    <3>2. Without(Append(both, e), ids) = Take(ids, Without(both, ids), e)
      BY WithoutAppend
    <3> QED BY <2>2, <3>1, <3>2
  <2>4. Without(Append(two, e), ids) = Take(ids, Without(two, ids), e)
    BY WithoutAppend
  <2>5. Without(one, ids) \in Seq(E) /\ Without(two, ids) \in Seq(E)
    BY WithoutAppend
  <2>6. \A s, t \in Seq(E) : Take(ids, s \o t, e) = s \o Take(ids, t, e)
    BY <1>0 DEF Take, AppendsLast
  <2>7. PICK s \in Seq(E), t \in Seq(E) : s = Without(one, ids) /\ t = Without(two, ids)
    BY <2>5
  <2>8. Without(one \o two, ids) = s \o t
    BY <1>2, <2>7
  <2>9. Without(one \o Append(two, e), ids) = s \o Without(Append(two, e), ids)
    BY <2>3, <2>4, <2>6, <2>7, <2>8
  <2> QED BY <2>1, <2>7, <2>9
<1> HIDE DEF S
<1>3. \A two \in Seq(E) : two \in S
  BY <1>1, <1>2, SeqInduction
<1> QED BY <1>3 DEF S

Sieves(one, two, ids) == Without(one \o two, ids) = Without(one, ids) \o Without(two, ids)
LEMMA WithoutSieves ==
  ASSUME NEW E, NEW one \in Seq(E), NEW two \in Seq(E), NEW ids
  PROVE  Sieves(one, two, ids)
  BY WithoutConcat DEF Sieves

LEMMA WithoutRange ==
  ASSUME NEW E, NEW ids
  PROVE  \A log \in Seq(E) : Range(Without(log, ids)) = {e \in Range(log) : ~Drops(ids, e)}
<1> DEFINE S == {log \in Seq(E) : Range(Without(log, ids)) = {e \in Range(log) : ~Drops(ids, e)}}
<1>1. <<>> \in S
  <2>1. Range(<<>>) = {}
    BY RangeShort
  <2>2. <<>> \in Seq({{}}) /\ {} \in {{}}
    OBVIOUS
  <2>3. Without(<<>>, ids) = <<>>
    BY <2>2, WithoutAppend
  <2>4. <<>> \in Seq(E)
    OBVIOUS
  <2>5. Range(Without(<<>>, ids)) = {e \in Range(<<>>) : ~Drops(ids, e)}
    BY <2>1, <2>3
  <2> QED BY <2>4, <2>5
<1>2. ASSUME NEW log \in Seq(E), NEW e \in E, log \in S PROVE Append(log, e) \in S
  <2>1. Append(log, e) \in Seq(E) /\ Without(log, ids) \in Seq(E)
    BY AppendProperties, WithoutAppend
  <2>2. Without(Append(log, e), ids) = Take(ids, Without(log, ids), e)
    BY WithoutAppend
  <2>3. /\ Range(Append(log, e)) = Range(log) \cup {e}
        /\ Range(Append(Without(log, ids), e)) = Range(Without(log, ids)) \cup {e}
    <3>1. \A s \in Seq(E) : Range(Append(s, e)) = Range(s) \cup {e}
      BY RangeAppend
    <3> QED BY <2>1, <3>1
  <2>4. Range(Without(log, ids)) = {x \in Range(log) : ~Drops(ids, x)}
    BY <1>2
  <2>5. CASE Drops(ids, e)
    BY <2>1, <2>2, <2>3, <2>4, <2>5 DEF Take
  <2>6. CASE ~Drops(ids, e)
    <3>1. Range(Without(Append(log, e), ids)) = Range(Without(log, ids)) \cup {e}
      BY <2>2, <2>3, <2>6 DEF Take
    <3>2. {x \in Range(log) : ~Drops(ids, x)} \cup {e}
            = {x \in Range(log) \cup {e} : ~Drops(ids, x)}
      BY <2>6
    <3> QED BY <2>1, <2>3, <2>4, <3>1, <3>2
  <2> QED BY <2>5, <2>6
<1> HIDE DEF S
<1>3. \A log \in Seq(E) : log \in S
  BY <1>1, <1>2, SeqInduction
<1> QED BY <1>3 DEF S

LEMMA WithoutNothing ==
  ASSUME NEW ids
  PROVE  Without(<<>>, ids) = <<>>
<1>1. <<>> \in Seq({{}}) /\ {} \in {{}}
  OBVIOUS
<1> QED BY <1>1, WithoutAppend

LEMMA WithoutType ==
  ASSUME NEW E, NEW log \in Seq(E), NEW ids
  PROVE  Without(log, ids) \in Seq(E)
<1>1. CASE log = <<>>
  BY <1>1, WithoutNothing
<1>2. CASE log # <<>>
  <2>1. PICK e \in E : TRUE
    BY <1>2, SequenceEmptyOrAppend
  <2> QED BY <2>1, WithoutAppend
<1> QED BY <1>1, <1>2

(* What is left depends only on which entries are left out.                *)
LEMMA WithoutSame ==
  ASSUME NEW E, NEW one, NEW two
  PROVE  \A log \in Seq(E) :
           (\A e \in Range(log) : Drops(one, e) <=> Drops(two, e))
             => Without(log, one) = Without(log, two)
<1> DEFINE Same(log) == \A e \in Range(log) : Drops(one, e) <=> Drops(two, e)
           S == {log \in Seq(E) : Same(log) => Without(log, one) = Without(log, two)}
<1>1. <<>> \in S
  BY WithoutNothing
<1>2. ASSUME NEW log \in Seq(E), NEW e \in E, log \in S PROVE Append(log, e) \in S
  <2>1. Append(log, e) \in Seq(E) /\ Range(Append(log, e)) = Range(log) \cup {e}
    <3>1. Append(log, e) \in Seq(E)
      BY AppendProperties
    <3> QED BY <3>1, RangeAppend
  <2>2. ASSUME Same(Append(log, e))
        PROVE  Without(Append(log, e), one) = Without(Append(log, e), two)
    <3>1. Same(log) /\ (Drops(one, e) <=> Drops(two, e))
      BY <2>1, <2>2
    <3>2. Without(log, one) = Without(log, two)
      BY <1>2, <3>1
    <3>3. /\ Without(Append(log, e), one) = Take(one, Without(log, one), e)
          /\ Without(Append(log, e), two) = Take(two, Without(log, two), e)
      BY WithoutAppend
    <3> QED BY <3>1, <3>2, <3>3 DEF Take
  <2> QED BY <2>1, <2>2
<1> HIDE DEF S
<1>3. \A log \in Seq(E) : log \in S
  BY <1>1, <1>2, SeqInduction
<1> QED BY <1>3 DEF S

LEMMA WithoutKeepsAll ==
  ASSUME NEW E, NEW ids
  PROVE  \A log \in Seq(E) :
           (\A e \in Range(log) : ~Drops(ids, e)) => Without(log, ids) = log
<1> DEFINE All(log) == \A e \in Range(log) : ~Drops(ids, e)
           S == {log \in Seq(E) : All(log) => Without(log, ids) = log}
<1>1. <<>> \in S
  BY WithoutNothing
<1>2. ASSUME NEW log \in Seq(E), NEW e \in E, log \in S PROVE Append(log, e) \in S
  <2>1. Append(log, e) \in Seq(E) /\ Range(Append(log, e)) = Range(log) \cup {e}
    <3>1. Append(log, e) \in Seq(E)
      BY AppendProperties
    <3> QED BY <3>1, RangeAppend
  <2>2. ASSUME All(Append(log, e)) PROVE Without(Append(log, e), ids) = Append(log, e)
    <3>1. All(log) /\ ~Drops(ids, e)
      BY <2>1, <2>2
    <3>2. Without(log, ids) = log
      BY <1>2, <3>1
    <3>3. Without(Append(log, e), ids) = Take(ids, Without(log, ids), e)
      BY WithoutAppend
    <3> QED BY <3>1, <3>2, <3>3 DEF Take
  <2> QED BY <2>1, <2>2
<1> HIDE DEF S
<1>3. \A log \in Seq(E) : log \in S
  BY <1>1, <1>2, SeqInduction
<1> QED BY <1>3 DEF S

LEMMA WithoutDropsAll ==
  ASSUME NEW E, NEW ids
  PROVE  \A log \in Seq(E) :
           (\A e \in Range(log) : Drops(ids, e)) => Without(log, ids) = <<>>
<1> SUFFICES ASSUME NEW log \in Seq(E), \A e \in Range(log) : Drops(ids, e)
             PROVE  Without(log, ids) = <<>>
  OBVIOUS
<1>1. Without(log, ids) \in Seq(E) /\ Range(Without(log, ids)) = {}
  BY WithoutType, WithoutRange
<1>2. PICK left \in Seq(E) : left = Without(log, ids)
  BY <1>1
<1>3. left # <<>> => \E t \in Seq(E), e \in E : left = Append(t, e)
  BY SequenceEmptyOrAppend
<1>4. \A t \in Seq(E), e \in E : Range(Append(t, e)) = Range(t) \cup {e}
  BY RangeAppend
<1>5. \A t \in Seq(E), e \in E : e \in Range(Append(t, e))
  BY <1>4
<1> QED BY <1>1, <1>2, <1>3, <1>5

-----------------------------------------------------------------------------
(* Logs in which no two messages make the same call.                       *)
Disjoint(log) ==
  \A i, j \in DOMAIN log :
    i # j /\ log[i].kind = "calls" /\ log[j].kind = "calls" => log[i].ids \cap log[j].ids = {}
Across(one, two) ==
  \A c \in Range(one), d \in Range(two) :
    c.kind = "calls" /\ d.kind = "calls" => c.ids \cap d.ids = {}

LEMMA DisjointConcat ==
  ASSUME NEW E, NEW one \in Seq(E), NEW two \in Seq(E)
  PROVE  Disjoint(one \o two) <=> Disjoint(one) /\ Disjoint(two) /\ Across(one, two)
<1>0. PICK log \in Seq(E) : log = one \o two
  BY ConcatProperties
<1>1. PICK m \in Nat : Places(one, two, log, m)
  BY <1>0, ConcatPlaces
<1> USE DEF Places
<1>3. \A i, j \in DOMAIN two : i # j <=> i + m # j + m
  BY <1>1
<1>4. ASSUME Disjoint(log) PROVE Disjoint(one) /\ Disjoint(two) /\ Across(one, two)
  <2>1. Disjoint(one)
    BY <1>1, <1>4 DEF Disjoint
  <2>2. Disjoint(two)
    <3> SUFFICES ASSUME NEW i \in DOMAIN two, NEW j \in DOMAIN two, i # j,
                        two[i].kind = "calls", two[j].kind = "calls"
                 PROVE  two[i].ids \cap two[j].ids = {}
      BY DEF Disjoint
    <3>1. /\ i + m \in DOMAIN log /\ j + m \in DOMAIN log /\ i + m # j + m
          /\ log[i + m] = two[i] /\ log[j + m] = two[j]
      BY <1>1, <1>3
    <3> QED BY <1>4, <3>1 DEF Disjoint
  <2>3. Across(one, two)
    <3> SUFFICES ASSUME NEW i \in DOMAIN one, NEW j \in DOMAIN two,
                        one[i].kind = "calls", two[j].kind = "calls"
                 PROVE  one[i].ids \cap two[j].ids = {}
      BY DEF Across, Range
    <3>1. /\ i \in DOMAIN log /\ j + m \in DOMAIN log /\ i # j + m
          /\ log[i] = one[i] /\ log[j + m] = two[j]
      BY <1>1
    <3> QED BY <1>4, <3>1 DEF Disjoint
  <2> QED BY <2>1, <2>2, <2>3
<1>5. ASSUME Disjoint(one), Disjoint(two), Across(one, two) PROVE Disjoint(log)
  <2> SUFFICES ASSUME NEW i \in DOMAIN log, NEW j \in DOMAIN log, i # j,
                      log[i].kind = "calls", log[j].kind = "calls"
               PROVE  log[i].ids \cap log[j].ids = {}
    BY DEF Disjoint
  <2>1. \A k \in DOMAIN log : \/ k \in DOMAIN one /\ log[k] = one[k]
                              \/ \E l \in DOMAIN two : k = l + m /\ log[k] = two[l]
    BY <1>1
  <2>2. CASE i \in DOMAIN one /\ log[i] = one[i]
    <3>1. CASE j \in DOMAIN one /\ log[j] = one[j]
      BY <1>5, <2>2, <3>1 DEF Disjoint
    <3>2. ASSUME NEW l \in DOMAIN two, log[j] = two[l] PROVE log[i].ids \cap log[j].ids = {}
      BY <1>5, <2>2, <3>2 DEF Across, Range
    <3> QED BY <2>1, <3>1, <3>2
  <2>3. ASSUME NEW k \in DOMAIN two, i = k + m, log[i] = two[k]
        PROVE  log[i].ids \cap log[j].ids = {}
    <3>1. CASE j \in DOMAIN one /\ log[j] = one[j]
      <4>1. two[k].ids \cap one[j].ids = one[j].ids \cap two[k].ids
        OBVIOUS
      <4>2. one[j].ids \cap two[k].ids = {}
        BY <1>5, <2>3, <3>1 DEF Across, Range
      <4> QED BY <2>3, <3>1, <4>1, <4>2
    <3>2. ASSUME NEW l \in DOMAIN two, j = l + m, log[j] = two[l]
          PROVE  log[i].ids \cap log[j].ids = {}
      <4>1. k # l
        BY <2>3, <3>2
      <4> QED BY <1>5, <2>3, <3>2, <4>1 DEF Disjoint
    <3> QED BY <2>1, <3>1, <3>2
  <2> QED BY <2>1, <2>2, <2>3
<1> QED BY <1>0, <1>4, <1>5

-----------------------------------------------------------------------------
(* Parts of well-formed logs.                                              *)
LEMMA WellFormedShort ==
  /\ WellFormed(<<>>)
  /\ \A e : e.kind \notin {"calls", "result"} => WellFormed(<<e>>)
<1>1. WellFormed(<<>>)
  BY WellFormedMeans
<1>2. ASSUME NEW e, e.kind \notin {"calls", "result"} PROVE WellFormed(<<e>>)
  <2>1. \A i \in DOMAIN <<e>> : <<e>>[i] = e
    OBVIOUS
  <2> QED BY <1>2, <2>1, WellFormedMeans
<1> QED BY <1>1, <1>2

(* A message with calls and their results.                                 *)
IsBlock(c, rs) ==
  /\ c.kind = "calls" /\ \A e \in Range(rs) : e.kind = "result"
  /\ UNION {e.ids : e \in Range(rs)} = c.ids
  /\ Len(rs) = Cardinality(c.ids)

LEMMA WellFormedBlock ==
  ASSUME NEW E, NEW c \in E, NEW rs \in Seq(E), IsBlock(c, rs)
  PROVE  WellFormed(<<c>> \o rs)
<1> DEFINE n == Len(rs)
<1>1. PICK log \in Seq(E) : log = <<c>> \o rs
  <2>1. <<c>> \in Seq(E)
    OBVIOUS
  <2> QED BY <2>1, ConcatProperties
<1>2. /\ n \in Nat /\ DOMAIN log = 1 .. n + 1 /\ DOMAIN rs = 1 .. n
      /\ log[1] = c /\ \A i \in 1 .. n : log[i + 1] = rs[i]
  <2>1. <<c>> \in Seq(E) /\ Len(<<c>>) = 1 /\ <<c>>[1] = c
    OBVIOUS
  <2>2. /\ n \in Nat /\ Len(log) = 1 + n
        /\ \A i \in 1 .. 1 + n : log[i] = IF i <= 1 THEN <<c>>[i] ELSE rs[i - 1]
    BY <1>1, <2>1, ConcatProperties, LenProperties
  <2>3. DOMAIN log = 1 .. Len(log) /\ DOMAIN rs = 1 .. n
    BY LenProperties
  <2> HIDE DEF n
  <2>4. log[1] = c
    BY <2>1, <2>2
  <2>5. \A i \in 1 .. n : i + 1 \in 1 .. 1 + n /\ ~(i + 1 <= 1) /\ (i + 1) - 1 = i
    BY <2>2
  <2>6. 1 + n = n + 1
    BY <2>2
  <2> QED BY <2>2, <2>3, <2>4, <2>5, <2>6
<1> HIDE DEF n
<1>3. Batch(log, 1) = 2 .. n + 1
  <2>1. Cardinality(log[1].ids) = n
    BY <1>2 DEF IsBlock, n
  <2>2. 1 + 1 = 2 /\ 1 + n = n + 1
    BY <1>2
  <2> QED BY <2>1, <2>2 DEF Batch
<1>4. \A j \in 2 .. n + 1 : j \in DOMAIN log /\ j - 1 \in DOMAIN rs /\ log[j] = rs[j - 1]
  <2>1. \A j \in 2 .. n + 1 : j \in 1 .. n + 1 /\ j - 1 \in 1 .. n /\ (j - 1) + 1 = j
    BY <1>2
  <2> QED BY <1>2, <2>1
<1>5. \A j \in 2 .. n + 1 : log[j].kind = "result"
  BY <1>4 DEF IsBlock, Range
<1>6. UNION {log[j].ids : j \in 2 .. n + 1} = c.ids
  <2>1. \A i \in DOMAIN rs : i + 1 \in 2 .. n + 1 /\ log[i + 1] = rs[i]
    BY <1>2
  <2>2. \A x : (\E j \in 2 .. n + 1 : x \in log[j].ids) <=> (\E i \in DOMAIN rs : x \in rs[i].ids)
    BY <1>4, <2>1
  <2>3. \A x : (\E i \in DOMAIN rs : x \in rs[i].ids) <=> x \in UNION {e.ids : e \in Range(rs)}
    BY DEF Range
  <2>4. \A x : x \in UNION {log[j].ids : j \in 2 .. n + 1} <=> x \in c.ids
    BY <2>2, <2>3 DEF IsBlock
  <2> QED BY <2>4
<1>7. Answered(log, 1)
  BY <1>2, <1>3, <1>4, <1>5, <1>6 DEF Answered
<1>8. \A j \in DOMAIN log : j = 1 \/ j \in 2 .. n + 1
  BY <1>2
<1>9. 1 \in DOMAIN log /\ log[1].kind = "calls"
  BY <1>2 DEF IsBlock
<1>10. WellFormed(log)
  BY <1>3, <1>5, <1>7, <1>8, <1>9, WellFormedMeans
<1> QED BY <1>1, <1>10

(* What follows a cut that separates no result from its call.              *)
LEMMA WellFormedSuffix ==
  ASSUME NEW E, \A e \in E : Proper(e), NEW s \in Seq(E), NEW t \in Seq(E),
         WellFormed(s \o t), Disjoint(s \o t),
         \A e \in Range(t) : e.kind = "result" =>
           \E c \in Range(t) : c.kind = "calls" /\ e.ids \subseteq c.ids
  PROVE  WellFormed(t)
<1>0. PICK u \in Seq(E) : u = s \o t
  BY ConcatProperties
<1>1. PICK m \in Nat : Places(s, t, u, m)
  BY <1>0, ConcatPlaces
<1> USE DEF Places
<1>2. ASSUME NEW i \in DOMAIN t, t[i].kind = "calls"
      PROVE  /\ Answered(t, i) /\ i + m \in DOMAIN u /\ u[i + m] = t[i]
             /\ \A j \in DOMAIN t : j + m \in Batch(u, i + m) => j \in Batch(t, i)
  <2>1. i + m \in DOMAIN u /\ u[i + m] = t[i]
    BY <1>1
  <2>2. Answered(u, i + m)
    BY <1>0, <1>2, <2>1, WellFormedMeans
  <2>3. \A j \in Batch(u, i + m) : j \in Int /\ j > m
    <3>1. \A j \in Batch(u, i + m) : j \in (i + m) + 1 .. (i + m) + Cardinality(u[i + m].ids)
      BY DEF Batch
    <3>2. i \in Nat /\ i > 0
      BY <1>1
    <3>3. ASSUME NEW j \in Batch(u, i + m) PROVE j \in DOMAIN u /\ j \in Int /\ (i + m) + 1 <= j
      <4>1. j \in DOMAIN u /\ j \in Int
        BY <1>1, <2>2 DEF Answered
      <4>2. u[i + m] \in E
        BY <2>1
      <4>3. Cardinality(u[i + m].ids) \in Nat
        BY <4>2, FS_CardinalityType DEF Proper
      <4> QED BY <3>1, <3>2, <4>1, <4>3
    <3> QED BY <3>2, <3>3
  <2>4. \A j \in Batch(u, i + m) : j + (0 - m) \in DOMAIN t /\ t[j + (0 - m)] = u[j]
    <3> SUFFICES ASSUME NEW j \in Batch(u, i + m)
                 PROVE  j + (0 - m) \in DOMAIN t /\ t[j + (0 - m)] = u[j]
      OBVIOUS
    <3>1. j \in DOMAIN u /\ j \in Int /\ j > m
      BY <2>2, <2>3 DEF Answered
    <3>2. j \notin 1 .. m /\ j + (0 - m) = j - m
      BY <3>1
    <3>3. j - m \in 1 .. Len(t) /\ (j - m) + m = j
      BY <1>1, <3>1, <3>2
    <3>4. u[(j - m) + m] = t[j - m]
      BY <1>1, <3>3
    <3> QED BY <1>1, <3>2, <3>3, <3>4
  <2>5. (i + m) + (0 - m) = i /\ 0 - m \in Int
    BY <1>1
  <2>6. /\ Answered(t, (i + m) + (0 - m))
        /\ \A j \in Int : j \in Batch(u, i + m) <=> j + (0 - m) \in Batch(t, (i + m) + (0 - m))
    <3>1. (i + m) + (0 - m) \in DOMAIN t /\ t[(i + m) + (0 - m)] = u[i + m]
      BY <2>1, <2>5
    <3>2. PICK k \in Int : k = 0 - m
      BY <2>5
    <3>3. PICK p \in DOMAIN u : p = i + m
      BY <2>1
    <3>4. p + k \in DOMAIN t /\ t[p + k] = u[p] /\ Answered(u, p)
      BY <2>2, <3>1, <3>2, <3>3
    <3>5. \A j \in Batch(u, p) : j + k \in DOMAIN t /\ t[j + k] = u[j]
      BY <2>4, <3>2, <3>3
    <3>6. Answered(t, p + k) /\ \A j \in Int : j \in Batch(u, p) <=> j + k \in Batch(t, p + k)
      BY <3>4, <3>5, AnsweredShifted
    <3> QED BY <3>2, <3>3, <3>6
  <2>7. \A j \in DOMAIN t : j + m \in Int /\ (j + m) + (0 - m) = j
    <3>1. \A j \in DOMAIN t : j \in Int
      BY <1>1
    <3>2. \A j \in Int : j + m \in Int /\ (j + m) + (0 - m) = j
      OBVIOUS
    <3> QED BY <3>1, <3>2
  <2> QED BY <2>1, <2>5, <2>6, <2>7
<1>3. ASSUME NEW j \in DOMAIN t, t[j].kind = "result"
      PROVE  \E i \in DOMAIN t : t[i].kind = "calls" /\ j \in Batch(t, i)
  <2>1. j + m \in DOMAIN u /\ u[j + m] = t[j]
    BY <1>1
  <2>2. PICK i \in DOMAIN u : u[i].kind = "calls" /\ j + m \in Batch(u, i)
    BY <1>0, <1>3, <2>1, WellFormedMeans
  <2>3. CASE i \in 1 .. m
    <3>1. Answered(u, i)
      BY <1>0, <2>2, WellFormedMeans
    <3>2. u[j + m].ids \subseteq u[i].ids
      BY <2>2, <3>1 DEF Answered
    <3>3. PICK l \in DOMAIN t : t[l].kind = "calls" /\ t[j].ids \subseteq t[l].ids
      <4>1. t[j] \in Range(t)
        BY <1>3 DEF Range
      <4>2. PICK c \in Range(t) : c.kind = "calls" /\ t[j].ids \subseteq c.ids
        BY <1>3, <4>1
      <4> QED BY <4>2 DEF Range
    <3>4. /\ l + m \in DOMAIN u /\ u[l + m] = t[l] /\ l + m # i
      BY <1>1, <2>3
    <3>5. u[l + m].ids \cap u[i].ids = {}
      BY <1>0, <2>2, <3>3, <3>4 DEF Disjoint
    <3>6. t[j] \in E
      OBVIOUS
    <3>7. t[j].ids # {}
      BY <1>3, <3>6 DEF Proper
    <3> QED BY <2>1, <3>2, <3>3, <3>4, <3>5, <3>7
  <2>4. CASE i - m \in 1 .. Len(t) /\ (i - m) + m = i
    <3>1. i - m \in DOMAIN t /\ t[i - m] = u[i]
      BY <1>1, <2>4
    <3> QED BY <1>2, <2>2, <2>4, <3>1
  <2> QED BY <1>1, <2>3, <2>4
<1> QED BY <1>2, <1>3, WellFormedMeans

Joins(one, two, both) ==
  /\ Range(both) = Range(one) \cup Range(two)
  /\ Disjoint(both) <=> Disjoint(one) /\ Disjoint(two) /\ Across(one, two)

LEMMA ConcatJoins ==
  ASSUME NEW E, NEW one \in Seq(E), NEW two \in Seq(E)
  PROVE  one \o two \in Seq(E) /\ Joins(one, two, one \o two)
  BY ConcatProperties, RangeConcatenation, DisjointConcat DEF Joins

-----------------------------------------------------------------------------
(* What holds of a transcript whose calls have ids of a set used and where  *)
(* the batches of the calls of a set hidden are not complete: as it is     *)
(* stored, and as it is shown to the model.                                *)
Within(log, used) == \A e \in Range(log) : e.ids \subseteq used
Unsplit(e, ids) == e.kind = "calls" => e.ids \cap ids = {} \/ e.ids \subseteq ids
Logged(log, ids) == \A e \in Range(log) : Unsplit(e, ids)
Storable(log, used, hidden) ==
  Disjoint(log) /\ Logged(log, hidden) /\ Within(log, used)
Presentable(log, used, hidden) ==
  WellFormed(Without(log, hidden)) /\ Within(log, used)

AllProper(E) == \A e \in E : Proper(e)
LEMMA PresentableConcat ==
  ASSUME NEW E, AllProper(E), NEW one \in Seq(E), NEW two \in Seq(E), NEW used, NEW hidden,
         Presentable(one, used, hidden), Presentable(two, used, hidden)
  PROVE  Presentable(one \o two, used, hidden)
<1>1. PICK both \in Seq(E) : both = one \o two /\ Joins(one, two, both)
  BY ConcatJoins
<1>2. PICK u \in Seq(E), v \in Seq(E) : u = Without(one, hidden) /\ v = Without(two, hidden)
  BY WithoutType
<1>3. WellFormed(u \o v)
  BY <1>2, WellFormedConcat DEF AllProper, Presentable
<1>4. Without(both, hidden) = u \o v
  <2>1. Sieves(one, two, hidden)
    BY WithoutSieves
  <2> QED BY <1>1, <1>2, <2>1 DEF Sieves
<1>5. Within(both, used)
  BY <1>1 DEF Joins, Presentable, Within
<1> QED BY <1>1, <1>3, <1>4, <1>5 DEF Presentable

(* A message with calls, and their results, when they are all hidden or    *)
(* none is.                                                                *)
LEMMA BlockPresentable ==
  ASSUME NEW E, AllProper(E), NEW c \in E, NEW rs \in Seq(E), IsBlock(c, rs),
         NEW used, c.ids \subseteq used, NEW hidden,
         c.ids \subseteq hidden \/ c.ids \cap hidden = {}
  PROVE  /\ <<c>> \o rs \in Seq(E) /\ Presentable(<<c>> \o rs, used, hidden)
         /\ c.ids \subseteq hidden => Presentable(rs, used, hidden)
<1>1. <<c>> \in Seq(E)
  OBVIOUS
<1>2. PICK one \in Seq(E) : one = <<c>>
  BY <1>1
<1>3. PICK block \in Seq(E) : block = one \o rs /\ Joins(one, rs, block)
  BY ConcatJoins
<1>4. WellFormed(block)
  BY <1>2, <1>3, WellFormedBlock
<1>5. Range(rs) \in SUBSET E
  BY RangeOfSeq
<1>6. Range(block) = {c} \cup Range(rs)
  BY <1>2, <1>3, RangeShort DEF Joins
<1>7. \A e \in Range(block) : e.ids \subseteq c.ids /\ e.ids # {}
  <2>1. c.ids # {}
    BY DEF AllProper, Proper, IsBlock
  <2>2. ASSUME NEW e \in Range(rs) PROVE e.ids \subseteq c.ids /\ e.ids # {}
    <3>1. e \in E /\ e.kind = "result"
      BY <1>5 DEF IsBlock
    <3>2. e.ids # {}
      BY <3>1 DEF AllProper, Proper
    <3>3. e.ids \subseteq UNION {x.ids : x \in Range(rs)}
      OBVIOUS
    <3> QED BY <3>2, <3>3 DEF IsBlock
  <2> QED BY <1>6, <2>1, <2>2
<1>8. Within(block, used) /\ Within(rs, used)
  BY <1>6, <1>7 DEF Within
<1>9. CASE c.ids \cap hidden = {}
  <2>1. \A e \in Range(block) : ~Drops(hidden, e)
    BY <1>7, <1>9 DEF Drops
  <2>2. Without(block, hidden) = block
    BY <2>1, WithoutKeepsAll
  <2>3. ~(c.ids \subseteq hidden)
    <3>1. c \in Range(block)
      BY <1>6
    <3> QED BY <1>7, <1>9, <3>1
  <2> QED BY <1>2, <1>3, <1>4, <1>8, <2>2, <2>3 DEF Presentable
<1>10. CASE c.ids \subseteq hidden
  <2>1. \A e \in Range(block) : Drops(hidden, e)
    BY <1>7, <1>10 DEF Drops
  <2>2. \A e \in Range(rs) : Drops(hidden, e)
    BY <1>6, <2>1
  <2>3. Without(block, hidden) = <<>> /\ Without(rs, hidden) = <<>>
    BY <2>1, <2>2, WithoutDropsAll
  <2> QED BY <1>2, <1>3, <1>8, <2>3, WellFormedShort DEF Presentable
<1> QED BY <1>9, <1>10

-----------------------------------------------------------------------------
(* Sanitizing keeps entries in their order, so that calls stay disjoint.   *)
Held(acc) == acc.kept \o acc.batch

LEMMA DiscardType ==
  ASSUME NEW E, NEW acc \in Accs(E)
  PROVE  /\ DiscardBatch(acc) \in Accs(E) /\ DiscardBatch(acc).kept = acc.kept
         /\ DiscardBatch(acc).batch = <<>> /\ DiscardBatch(acc).open = {}
<1>1. <<>> \in Seq(E)
  OBVIOUS
<1> QED BY <1>1 DEF DiscardBatch, Accs

LEMMA HeldCases ==
  ASSUME NEW E, NEW acc \in Accs(E), NEW e \in E
  PROVE  /\ acc.kept \in Seq(E) /\ acc.batch \in Seq(E) /\ <<e>> \in Seq(E)
         /\ Held(SanitizeEntry(acc, e)) \in
              {acc.kept, acc.kept \o <<e>>, Held(acc) \o <<e>>}
<1>1. acc.kept \in Seq(E) /\ acc.batch \in Seq(E) /\ <<e>> \in Seq(E) /\ <<>> \in Seq(E)
  BY DEF Accs
<1>2. CASE e.kind = "result" /\ e.ids \subseteq acc.open
  <2>1. Append(acc.batch, e) = acc.batch \o <<e>>
    BY <1>1, AppendIsConcat
  <2>2. acc.batch \o <<e>> \in Seq(E)
    BY <1>1, ConcatProperties
  <2>3. acc.kept \o (acc.batch \o <<e>>) = (acc.kept \o acc.batch) \o <<e>>
    <3>0. Associates(E)
      BY Concats
    <3>1. \A s, t, u \in Seq(E) : (s \o t) \o u = s \o (t \o u)
      BY <3>0 DEF Associates
    <3> QED BY <1>1, <3>1
  <2>4. SanitizeEntry(acc, e) = TakeResult(acc, e)
    BY <1>2 DEF SanitizeEntry
  <2>5. CASE acc.open = e.ids
    <3>1. Held(TakeResult(acc, e)) = (acc.kept \o (acc.batch \o <<e>>)) \o <<>>
      BY <2>1, <2>5 DEF TakeResult, Held
    <3>2. acc.kept \o (acc.batch \o <<e>>) \in Seq(E)
      BY <1>1, <2>2, ConcatProperties
    <3>3. \A s \in Seq(E) : s \o <<>> = s
      BY ConcatEmptySeq
    <3> QED BY <1>1, <2>3, <2>4, <3>1, <3>2, <3>3 DEF Held
  <2>6. CASE acc.open # e.ids
    <3>1. Held(TakeResult(acc, e)) = acc.kept \o (acc.batch \o <<e>>)
      BY <2>1, <2>6 DEF TakeResult, Held, Accs
    <3> QED BY <1>1, <2>3, <2>4, <3>1 DEF Held
  <2> QED BY <2>5, <2>6
<1>3. CASE ~(e.kind = "result" /\ e.ids \subseteq acc.open)
  <2> DEFINE rest == DiscardBatch(acc)
  <2>1. rest \in Accs(E) /\ rest.kept = acc.kept /\ rest.batch = <<>>
    BY DiscardType
  <2> HIDE DEF rest
  <2>2. SanitizeEntry(acc, e) = TakeOutside(rest, e)
    BY <1>3 DEF SanitizeEntry, rest
  <2>3. acc.kept \o <<>> = acc.kept
    BY <1>1, ConcatEmptySeq
  <2>4. CASE e.kind = "result"
    BY <1>1, <2>1, <2>2, <2>3, <2>4 DEF TakeOutside, Held
  <2>5. CASE e.kind = "calls"
    <3>1. TakeOutside(rest, e).kept = acc.kept /\ TakeOutside(rest, e).batch = <<e>>
      BY <2>1, <2>5 DEF TakeOutside, Accs
    <3> QED BY <1>1, <2>2, <3>1 DEF Held
  <2>6. CASE e.kind \notin {"result", "calls"}
    <3>1. TakeOutside(rest, e).kept = Append(acc.kept, e) /\ TakeOutside(rest, e).batch = <<>>
      BY <2>1, <2>6 DEF TakeOutside, Accs
    <3>2. Append(acc.kept, e) = acc.kept \o <<e>> /\ Append(acc.kept, e) \in Seq(E)
      BY <1>1, AppendIsConcat, AppendProperties
    <3>3. \A s \in Seq(E) : s \o <<>> = s
      BY ConcatEmptySeq
    <3> QED BY <1>1, <2>2, <3>1, <3>2, <3>3 DEF Held
  <2> QED BY <2>4, <2>5, <2>6
<1> QED BY <1>1, <1>2, <1>3

LEMMA ScanHolds ==
  ASSUME NEW E
  PROVE  \A log \in Seq(E) :
           /\ Range(Held(Scan(log))) \subseteq Range(log)
           /\ Disjoint(log) => Disjoint(Held(Scan(log)))
<1> DEFINE Good(log) == /\ Range(Held(Scan(log))) \subseteq Range(log)
                        /\ Disjoint(log) => Disjoint(Held(Scan(log)))
           S == {log \in Seq(E) : Good(log)}
<1>1. ASSUME NEW log \in Seq(E), NEW e \in E, log \in S PROVE Append(log, e) \in S
  <2> DEFINE acc == Scan(log)
  <2>1. /\ acc \in Accs(E) /\ Scan(Append(log, e)) = SanitizeEntry(acc, e)
        /\ Append(log, e) = log \o <<e>> /\ Append(log, e) \in Seq(E)
    BY ScanType, ScanAppend, AppendIsConcat, AppendProperties
  <2>2. PICK kept \in Seq(E), held \in Seq(E), one \in Seq(E) :
          kept = acc.kept /\ held = Held(acc) /\ one = <<e>>
    <3>1. acc.kept \in Seq(E) /\ acc.batch \in Seq(E) /\ <<e>> \in Seq(E)
      BY <2>1, HeldCases
    <3> QED BY <3>1, ConcatProperties DEF Held
  <2>3. Held(Scan(Append(log, e))) \in {kept, kept \o one, held \o one}
    BY <2>1, <2>2, HeldCases
  <2>4. \E batch \in Seq(E) : held = kept \o batch
    BY <2>1, <2>2, HeldCases DEF Held
  <2>5. /\ Range(held) \subseteq Range(log) /\ Range(kept) \subseteq Range(held)
        /\ Range(one) = {e}
        /\ \A s \in Seq(E) : Range(s \o one) = Range(s) \cup {e}
    <3>1. Range(one) = {e}
      BY <2>2, RangeShort
    <3>2. \A s, t \in Seq(E) : Range(s \o t) = Range(s) \cup Range(t)
      BY RangeConcatenation
    <3>3. Range(held) \subseteq Range(log)
      BY <1>1, <2>2
    <3> QED BY <2>4, <3>1, <3>2, <3>3
  <2>6. Range(Held(Scan(Append(log, e)))) \subseteq Range(Append(log, e))
    <3>1. Range(Append(log, e)) = Range(log) \cup {e}
      BY <2>1, <2>2, <2>5
    <3> QED BY <2>3, <2>5, <3>1
  <2>7. ASSUME Disjoint(Append(log, e)) PROVE Disjoint(Held(Scan(Append(log, e))))
    <3>1. Disjoint(log) /\ Disjoint(one) /\ Across(log, one)
      BY <2>1, <2>2, <2>7, DisjointConcat
    <3>2. Disjoint(held)
      BY <1>1, <2>2, <3>1
    <3>3. Disjoint(kept)
      BY <2>4, <3>2, DisjointConcat
    <3>4. Across(kept, one) /\ Across(held, one)
      BY <2>5, <3>1 DEF Across
    <3>5. Disjoint(kept \o one) /\ Disjoint(held \o one)
      BY <3>1, <3>2, <3>3, <3>4, DisjointConcat
    <3> QED BY <2>3, <3>2, <3>3, <3>5
  <2> QED BY <2>1, <2>6, <2>7
<1>2. <<>> \in S
  <2>1. Scan(<<>>) = Closed
    <3>1. <<>> \in Seq({{}}) /\ {} \in {{}}
      OBVIOUS
    <3> QED BY <3>1, ScanAppend
  <2>2. Held(Closed) = <<>>
    BY DEF Held, Closed
  <2>3. <<>> \in Seq(E)
    OBVIOUS
  <2> QED BY <2>1, <2>2, <2>3
<1> HIDE DEF S
<1>3. \A log \in Seq(E) : log \in S
  BY <1>1, <1>2, SeqInduction
<1> QED BY <1>3 DEF S

(* A batch in hand is a message with the results of those of its calls     *)
(* that are not open any more.                                             *)
Partial(c, rs, open) ==
  /\ c.kind = "calls" /\ \A e \in Range(rs) : e.kind = "result"
  /\ open \subseteq c.ids
  /\ UNION {e.ids : e \in Range(rs)} = c.ids \ open
  /\ Len(rs) = Cardinality(c.ids \ open)

LEMMA PartialGrows ==
  ASSUME NEW E, \A x \in E : Proper(x), NEW c \in E, NEW rs \in Seq(E), NEW e \in E,
         NEW open, Partial(c, rs, open), e.kind = "result", e.ids \subseteq open
  PROVE  Partial(c, Append(rs, e), open \ e.ids)
<1>1. PICK id : e.ids = {id} /\ id \in open /\ id \in c.ids
  BY DEF Proper, Partial
<1>2. c.ids \ (open \ e.ids) = (c.ids \ open) \cup {id} /\ id \notin c.ids \ open
  BY <1>1 DEF Partial
<1>3. IsFiniteSet(c.ids \ open)
  <2>1. IsFiniteSet(c.ids)
    BY DEF Proper
  <2> QED BY <2>1, FS_Difference
<1>4. Cardinality((c.ids \ open) \cup {id}) = Cardinality(c.ids \ open) + 1
  BY <1>2, <1>3, FS_AddElement
<1>5. Len(Append(rs, e)) = Len(rs) + 1 /\ Range(Append(rs, e)) = Range(rs) \cup {e}
  BY AppendProperties, RangeAppend
<1>6. UNION {x.ids : x \in Range(rs) \cup {e}} = (UNION {x.ids : x \in Range(rs)}) \cup e.ids
  OBVIOUS
<1>7. UNION {x.ids : x \in Range(Append(rs, e))} = (c.ids \ open) \cup {id}
  BY <1>1, <1>5, <1>6 DEF Partial
<1>8. \A x \in Range(Append(rs, e)) : x.kind = "result"
  BY <1>5 DEF Partial
<1>9. c.kind = "calls" /\ open \ e.ids \subseteq c.ids
  BY DEF Partial
<1> QED BY <1>2, <1>4, <1>5, <1>7, <1>8, <1>9 DEF Partial

(* What a log keeps is well formed, and stays so without the calls of a    *)
(* set that no batch is split by.                                          *)
WellSifted(log, ids) == WellFormed(log) /\ WellFormed(Without(log, ids))
InHand(acc, E, ids) ==
  \/ acc.batch = <<>> /\ acc.open = {}
  \/ \E c \in E, rs \in Seq(E) :
       /\ acc.batch = <<c>> \o rs /\ Partial(c, rs, acc.open)
       /\ acc.open # {} /\ Unsplit(c, ids)
Sifted(acc, E, ids) == WellSifted(acc.kept, ids) /\ InHand(acc, E, ids)

LEMMA SiftedConcat ==
  ASSUME NEW E, \A x \in E : Proper(x), NEW one \in Seq(E), NEW two \in Seq(E), NEW ids,
         WellSifted(one, ids), WellSifted(two, ids)
  PROVE  WellSifted(one \o two, ids)
<1>1. PICK u \in Seq(E), v \in Seq(E) : u = Without(one, ids) /\ v = Without(two, ids)
  BY WithoutType
<1>2. WellFormed(one \o two) /\ WellFormed(u \o v)
  BY <1>1, WellFormedConcat DEF WellSifted
<1>3. Sieves(one, two, ids)
  BY WithoutSieves
<1> QED BY <1>1, <1>2, <1>3 DEF WellSifted, Sieves

LEMMA ResultSifts ==
  ASSUME NEW E, \A x \in E : Proper(x), NEW acc \in Accs(E), NEW e \in E, NEW ids,
         Sifted(acc, E, ids), e.kind = "result", e.ids \subseteq acc.open
  PROVE  Sifted(TakeResult(acc, e), E, ids)
<1>1. acc.kept \in Seq(E) /\ acc.batch \in Seq(E)
  BY DEF Accs
<1>2. e.ids # {}
  BY DEF Proper
<1>3. PICK c \in E, rs \in Seq(E) :
        /\ acc.batch = <<c>> \o rs /\ Partial(c, rs, acc.open)
        /\ acc.open # {} /\ Unsplit(c, ids)
  BY <1>2 DEF Sifted, InHand
<1>4. PICK more \in Seq(E) : more = Append(rs, e)
  BY AppendProperties
<1>5. Partial(c, more, acc.open \ e.ids)
  BY <1>3, <1>4, PartialGrows
<1>6. Append(acc.batch, e) = <<c>> \o more /\ <<c>> \o more \in Seq(E)
  <2>0. Associates(E)
    BY Concats
  <2>1. \A s, t, u \in Seq(E) : (s \o t) \o u = s \o (t \o u) /\ s \o t \in Seq(E)
    BY <2>0 DEF Associates
  <2>2. \A s \in Seq(E) : Append(s, e) = s \o <<e>>
    BY AppendIsConcat
  <2>3. PICK head \in Seq(E), last \in Seq(E) : head = <<c>> /\ last = <<e>>
    <3>1. <<c>> \in Seq(E) /\ <<e>> \in Seq(E)
      OBVIOUS
    <3> QED BY <3>1, Zenon
  <2>4. Append(acc.batch, e) = (head \o rs) \o last /\ more = rs \o last
    BY <1>1, <1>3, <1>4, <2>2, <2>3
  <2>5. (head \o rs) \o last = head \o (rs \o last)
    BY <2>1
  <2> QED BY <2>1, <2>3, <2>4, <2>5
<1>7. CASE acc.open = e.ids
  <2>1. IsBlock(c, more)
    <3>1. acc.open \ e.ids = {} /\ c.ids \ {} = c.ids
      BY <1>7
    <3> QED BY <1>5, <3>1 DEF Partial, IsBlock
  <2>2. PICK block \in Seq(E) : block = <<c>> \o more
    BY <1>6
  <2>3. WellFormed(block)
    BY <2>1, <2>2, WellFormedBlock
  <2>4. WellFormed(Without(block, ids))
    <3>1. c.ids \subseteq ids \/ c.ids \cap ids = {}
      BY <1>3, <2>1 DEF Unsplit, IsBlock
    <3>2. Presentable(<<c>> \o more, c.ids, ids)
      BY <2>1, <3>1, BlockPresentable DEF AllProper
    <3> QED BY <2>2, <3>2 DEF Presentable
  <2>5. WellSifted(acc.kept \o block, ids)
    BY <1>1, <2>3, <2>4, SiftedConcat DEF Sifted, WellSifted
  <2>6. TakeResult(acc, e) = [kept |-> acc.kept \o block, batch |-> <<>>, open |-> {}]
    BY <1>6, <1>7, <2>2 DEF TakeResult
  <2> QED BY <2>5, <2>6 DEF Sifted, InHand
<1>8. CASE acc.open # e.ids
  <2>1. TakeResult(acc, e) = [acc EXCEPT !.batch = <<c>> \o more, !.open = acc.open \ e.ids]
    BY <1>6, <1>8 DEF TakeResult, Accs
  <2>2. /\ TakeResult(acc, e).kept = acc.kept
        /\ TakeResult(acc, e).batch = <<c>> \o more
        /\ TakeResult(acc, e).open = acc.open \ e.ids
    BY <2>1 DEF Accs
  <2>3. acc.open \ e.ids # {}
    BY <1>8
  <2>4. InHand(TakeResult(acc, e), E, ids)
    BY <1>3, <1>5, <2>2, <2>3 DEF InHand
  <2> QED BY <2>2, <2>4 DEF Sifted
<1> QED BY <1>7, <1>8

LEMMA OutsideSifts ==
  ASSUME NEW E, \A x \in E : Proper(x), NEW acc \in Accs(E), NEW e \in E, NEW ids,
         Sifted(acc, E, ids), Unsplit(e, ids)
  PROVE  Sifted(TakeOutside(DiscardBatch(acc), e), E, ids)
<1>0. <<>> \in Seq(E)
  OBVIOUS
<1>1. PICK rest \in Accs(E) : /\ rest = DiscardBatch(acc) /\ rest.kept = acc.kept
                              /\ rest.batch = <<>> /\ rest.open = {}
  BY DiscardType
<1> SUFFICES Sifted(TakeOutside(rest, e), E, ids)
  BY <1>1
<1>2. WellSifted(rest.kept, ids) /\ rest.kept \in Seq(E)
  BY <1>1 DEF Sifted, Accs
<1>3. CASE e.kind = "result"
  BY <1>1, <1>2, <1>3 DEF TakeOutside, Sifted, InHand
<1>4. CASE e.kind = "calls"
  <2>1. /\ TakeOutside(rest, e).kept = rest.kept /\ TakeOutside(rest, e).batch = <<e>>
        /\ TakeOutside(rest, e).open = e.ids
    BY <1>1, <1>4 DEF TakeOutside, Accs
  <2>2. PICK none \in Seq(E) : none = <<>>
    BY <1>0
  <2>3. <<e>> = <<e>> \o none
    BY <2>2, ConcatEmptySeq
  <2>4. Partial(e, none, e.ids)
    <3>1. Range(none) = {} /\ Len(none) = 0
      BY <2>2, RangeShort, EmptySeq
    <3>2. e.ids \ e.ids = {} /\ Cardinality({}) = 0
      BY FS_EmptySet
    <3> QED BY <1>4, <3>1, <3>2 DEF Partial
  <2>5. e.ids # {}
    BY <1>4 DEF Proper
  <2>6. InHand(TakeOutside(rest, e), E, ids)
    BY <1>4, <2>1, <2>3, <2>4, <2>5 DEF InHand
  <2> QED BY <1>2, <2>1, <2>6 DEF Sifted
<1>5. CASE e.kind \notin {"result", "calls"}
  <2>1. /\ TakeOutside(rest, e).kept = Append(rest.kept, e)
        /\ TakeOutside(rest, e).batch = <<>> /\ TakeOutside(rest, e).open = {}
    BY <1>1, <1>5 DEF TakeOutside, Accs
  <2>2. <<e>> \in Seq(E) /\ Range(<<e>>) = {e} /\ WellFormed(<<e>>)
    BY <1>5, RangeShort, WellFormedShort
  <2>3. WellSifted(<<e>>, ids)
    <3>1. PICK one \in Seq(E) : one = <<e>>
      BY <2>2
    <3>2. \A x \in Range(one) : ~Drops(ids, x)
      BY <1>5, <2>2, <3>1 DEF Drops, Proper
    <3>3. Without(one, ids) = one
      BY <3>2, WithoutKeepsAll
    <3> QED BY <2>2, <3>1, <3>3 DEF WellSifted
  <2>4. Append(rest.kept, e) = rest.kept \o <<e>>
    BY <1>2, AppendIsConcat
  <2>5. WellSifted(rest.kept \o <<e>>, ids)
    BY <1>2, <2>2, <2>3, SiftedConcat
  <2> QED BY <2>1, <2>4, <2>5 DEF Sifted, InHand
<1> QED BY <1>3, <1>4, <1>5

LEMMA ScanSifts ==
  ASSUME NEW E, \A x \in E : Proper(x), NEW ids
  PROVE  \A log \in Seq(E) : Logged(log, ids) => Sifted(Scan(log), E, ids)
<1> DEFINE S == {log \in Seq(E) : Logged(log, ids) => Sifted(Scan(log), E, ids)}
<1>1. <<>> \in S
  <2>1. Scan(<<>>) = Closed
    <3>1. <<>> \in Seq({{}}) /\ {} \in {{}}
      OBVIOUS
    <3> QED BY <3>1, ScanAppend
  <2>2. Sifted(Closed, E, ids)
    BY WellFormedShort, WithoutNothing DEF Sifted, WellSifted, InHand, Closed
  <2>3. <<>> \in Seq(E)
    OBVIOUS
  <2> QED BY <2>1, <2>2, <2>3
<1>2. ASSUME NEW log \in Seq(E), NEW e \in E, log \in S PROVE Append(log, e) \in S
  <2>1. Append(log, e) \in Seq(E)
    BY AppendProperties
  <2>2. ASSUME Logged(Append(log, e), ids) PROVE Sifted(Scan(Append(log, e)), E, ids)
    <3>1. Range(Append(log, e)) = Range(log) \cup {e}
      BY RangeAppend
    <3>2. Logged(log, ids) /\ Unsplit(e, ids)
      BY <2>2, <3>1 DEF Logged
    <3>3. PICK acc \in Accs(E) : acc = Scan(log)
      BY ScanType
    <3>4. Sifted(acc, E, ids)
      BY <1>2, <3>2, <3>3
    <3>5. Scan(Append(log, e)) = SanitizeEntry(acc, e)
      BY <3>3, ScanAppend
    <3>6. CASE e.kind = "result" /\ e.ids \subseteq acc.open
      <4>1. Sifted(TakeResult(acc, e), E, ids)
        BY <3>4, <3>6, ResultSifts
      <4> QED BY <3>5, <3>6, <4>1 DEF SanitizeEntry
    <3>7. CASE ~(e.kind = "result" /\ e.ids \subseteq acc.open)
      <4>1. Sifted(TakeOutside(DiscardBatch(acc), e), E, ids)
        BY <3>2, <3>4, OutsideSifts
      <4> QED BY <3>5, <3>7, <4>1 DEF SanitizeEntry
    <3> QED BY <3>6, <3>7
  <2> QED BY <2>1, <2>2
<1> HIDE DEF S
<1>3. \A log \in Seq(E) : log \in S
  BY <1>1, <1>2, SeqInduction
<1> QED BY <1>3 DEF S

(* A sanitized log is well formed, keeps only entries of the log, keeps    *)
(* disjoint calls disjoint, and stays well formed without calls of which   *)
(* the log has whole batches or none.                                      *)
LEMMA SanitizeSound ==
  ASSUME NEW E, \A x \in E : Proper(x), NEW log \in Seq(E), NEW ids
  PROVE  /\ Sanitize(log) \in Seq(E) /\ Range(Sanitize(log)) \subseteq Range(log)
         /\ Disjoint(log) => Disjoint(Sanitize(log))
         /\ WellFormed(Sanitize(log))
         /\ Logged(log, ids) => WellFormed(Without(Sanitize(log), ids))
<1>1. PICK acc \in Accs(E) : acc = Scan(log) /\ Sanitize(log) = acc.kept
  BY ScanType
<1>2. acc.kept \in Seq(E) /\ acc.batch \in Seq(E)
  BY DEF Accs
<1>3. /\ Range(Held(acc)) \subseteq Range(log)
      /\ Disjoint(log) => Disjoint(Held(acc))
  BY <1>1, ScanHolds
<1>4. Range(Held(acc)) = Range(acc.kept) \cup Range(acc.batch)
  BY <1>2, RangeConcatenation DEF Held
<1>5. Disjoint(Held(acc)) => Disjoint(acc.kept)
  BY <1>2, DisjointConcat DEF Held
<1>6. Logged(log, {}) => WellFormed(acc.kept)
  BY <1>1, ScanSifts DEF Sifted, WellSifted
<1>7. Logged(log, {})
  BY DEF Logged, Unsplit
<1>8. Logged(log, ids) => WellFormed(Without(acc.kept, ids))
  BY <1>1, ScanSifts DEF Sifted, WellSifted
<1> QED BY <1>1, <1>2, <1>3, <1>4, <1>5, <1>6, <1>7, <1>8

-----------------------------------------------------------------------------
(* Cutting a log, in a compaction or in a crash.                           *)
LEMMA Split ==
  ASSUME NEW E, NEW log \in Seq(E), NEW cut \in 0 .. Len(log)
  PROVE  /\ SubSeq(log, 1, cut) \in Seq(E) /\ After(log, cut) \in Seq(E)
         /\ log = SubSeq(log, 1, cut) \o After(log, cut)
<1>1. Len(log) \in Nat /\ cut \in Nat /\ cut <= Len(log)
  BY LenProperties
<1>2. \A i \in 1 .. cut : log[i] \in E
  BY <1>1, ElementOfSeq
<1>3. SubSeq(log, 1, cut) \in Seq(E)
  BY <1>1, <1>2, SubSeqProperties
<1>4. 1 \in 1 .. Len(log) + 1 /\ cut \in 1 - 1 .. Len(log) /\ Len(log) \in cut .. Len(log)
  BY <1>1
<1>5. SubSeq(log, 1, cut) \o SubSeq(log, cut + 1, Len(log)) = SubSeq(log, 1, Len(log))
  BY <1>4, ConcatAdjacentSubSeq
<1>6. SubSeq(log, 1, Len(log)) = log
  BY SubSeqFull
<1> QED BY <1>3, <1>5, <1>6, AfterType DEF After

LEMMA CutSound ==
  ASSUME NEW E, NEW log \in Seq(E), NEW left,
         \/ \E k \in 0 .. Len(log) : left = SubSeq(log, 1, k)
         \/ \E k \in 1 .. Len(log) : left = RemoveAt(log, k)
  PROVE  /\ left \in Seq(E) /\ Range(left) \subseteq Range(log)
         /\ Disjoint(log) => Disjoint(left)
<1>1. Len(log) \in Nat
  BY LenProperties
<1>3. ASSUME NEW k \in 0 .. Len(log), left = SubSeq(log, 1, k)
      PROVE  /\ left \in Seq(E) /\ Range(left) \subseteq Range(log)
             /\ Disjoint(log) => Disjoint(left)
  <2>1. PICK a \in Seq(E), b \in Seq(E) : a = left /\ log = a \o b
    BY <1>3, Split
  <2>2. Joins(a, b, log)
    BY <2>1, ConcatJoins
  <2> QED BY <2>1, <2>2 DEF Joins
<1>4. ASSUME NEW k \in 1 .. Len(log), left = RemoveAt(log, k)
      PROVE  /\ left \in Seq(E) /\ Range(left) \subseteq Range(log)
             /\ Disjoint(log) => Disjoint(left)
  <2>1. k \in 0 .. Len(log) /\ k - 1 \in 0 .. Len(log) /\ 1 \in 1 .. Len(log) /\ k \in 1 .. Len(log)
    BY <1>1
  <2>2. PICK b \in Seq(E) : b = After(log, k) /\ log = SubSeq(log, 1, k) \o b
    BY <2>1, Split
  <2>3. PICK a \in Seq(E) : a = SubSeq(log, 1, k - 1)
    BY <2>1, Split
  <2>4. PICK x \in Seq(E) : x = <<log[k]>>
    <3>1. log[k] \in E
      BY <2>1, ElementOfSeq
    <3>2. \A e \in E : <<e>> \in Seq(E)
      OBVIOUS
    <3> QED BY <3>1, <3>2
  <2>5. PICK c \in Seq(E) : c = a \o x
    BY ConcatJoins
  <2>6. SubSeq(log, 1, k) = c
    BY <2>1, <2>3, <2>4, <2>5, SubSeqRecursiveSecond
  <2>7. left = a \o b
    BY <1>4, <2>2, <2>3 DEF RemoveAt, After
  <2>8. Joins(a, x, c)
    BY <2>5, ConcatJoins
  <2>9. Joins(c, b, log)
    BY <2>2, <2>6, ConcatJoins
  <2>10. left \in Seq(E) /\ Joins(a, b, left)
    BY <2>7, ConcatJoins
  <2>11. Range(a) \subseteq Range(c)
    BY <2>8 DEF Joins
  <2>12. Across(c, b) => Across(a, b)
    BY <2>11 DEF Across
  <2> QED BY <2>8, <2>9, <2>10, <2>11, <2>12 DEF Joins
<1> QED BY <1>3, <1>4

LEMMA WithoutDisjoint ==
  ASSUME NEW E, NEW ids
  PROVE  \A log \in Seq(E) : Disjoint(log) => Disjoint(Without(log, ids))
<1> DEFINE S == {log \in Seq(E) : Disjoint(log) => Disjoint(Without(log, ids))}
<1>1. <<>> \in S
  <2>1. <<>> \in Seq(E)
    OBVIOUS
  <2> QED BY <2>1, WithoutNothing
<1>2. ASSUME NEW log \in Seq(E), NEW e \in E, log \in S PROVE Append(log, e) \in S
  <2>1. Append(log, e) \in Seq(E) /\ Append(log, e) = log \o <<e>> /\ <<e>> \in Seq(E)
    BY AppendProperties, AppendIsConcat
  <2>2. PICK left \in Seq(E) : left = Without(log, ids)
    BY WithoutType
  <2>3. ASSUME Disjoint(Append(log, e)) PROVE Disjoint(Without(Append(log, e), ids))
    <3>1. PICK one \in Seq(E) : one = <<e>>
      BY <2>1
    <3>2. Disjoint(log) /\ Disjoint(one) /\ Across(log, one)
      BY <2>1, <2>3, <3>1, DisjointConcat
    <3>3. Disjoint(left)
      BY <1>2, <2>2, <3>2
    <3>4. Range(left) \subseteq Range(log)
      BY <2>2, WithoutRange
    <3>5. Across(left, one)
      BY <3>2, <3>4 DEF Across
    <3>6. Disjoint(left \o one)
      BY <3>2, <3>3, <3>5, DisjointConcat
    <3>7. Append(left, e) = left \o one
      BY <3>1, AppendIsConcat
    <3>8. Without(Append(log, e), ids) = Take(ids, left, e)
      BY <2>2, WithoutAppend
    <3> QED BY <3>3, <3>6, <3>7, <3>8 DEF Take
  <2> QED BY <2>1, <2>3
<1> HIDE DEF S
<1>3. \A log \in Seq(E) : log \in S
  BY <1>1, <1>2, SeqInduction
<1> QED BY <1>3 DEF S

(* Compacting a log keeps what it should.                                  *)
Summarizes(E) == \A old \in SUBSET E : Summary(old) \in E

LEMMA CompactSound ==
  ASSUME NEW E, AllProper(E), Summarizes(E),
         NEW log \in Seq(E), NEW keep \in Nat, NEW ids,
         Disjoint(log), WellFormed(Without(log, ids))
  PROVE  /\ Compact(log, keep) \in Seq(E)
         /\ Disjoint(Compact(log, keep)) /\ WellFormed(Without(Compact(log, keep), ids))
         /\ \A e \in Range(Compact(log, keep)) :
              e \in Range(log) \/ \E old \in SUBSET Range(log) : e = Summary(old)
<1> SUFFICES ASSUME NEW cut \in 0 .. Len(log),
                    ~HasOrphanedToolResults(After(log, cut)),
                    Compact(log, keep) = <<Summary(Range(SubSeq(log, 1, cut)))>> \o After(log, cut)
             PROVE  /\ Compact(log, keep) \in Seq(E)
                    /\ Disjoint(Compact(log, keep)) /\ WellFormed(Without(Compact(log, keep), ids))
                    /\ \A e \in Range(Compact(log, keep)) :
                         e \in Range(log) \/ \E old \in SUBSET Range(log) : e = Summary(old)
  <2>1. Compact(log, keep) \in Seq(E)
    BY CompactType DEF Summarizes
  <2>2. Compact(log, keep) = log => \A e \in Range(Compact(log, keep)) : e \in Range(log)
    OBVIOUS
  <2> QED BY <2>1, <2>2, CompactCases
<1>1. PICK pre \in Seq(E), rest \in Seq(E) :
        pre = SubSeq(log, 1, cut) /\ rest = After(log, cut) /\ log = pre \o rest
  BY Split
<1>2. Joins(pre, rest, log)
  BY <1>1, ConcatJoins
<1>3. Range(pre) \in SUBSET E /\ Range(rest) \in SUBSET E
  BY RangeOfSeq
<1>4. PICK sum \in E : sum = Summary(Range(pre))
  BY <1>3 DEF Summarizes
<1>5. sum.kind = "summary" /\ sum.ids = {}
  BY <1>4 DEF Summary
<1>6. PICK one \in Seq(E) : one = <<sum>>
  <2>1. <<sum>> \in Seq(E)
    OBVIOUS
  <2> QED BY <2>1
<1>7. Range(one) = {sum} /\ WellFormed(one) /\ Disjoint(one)
  <2>1. Range(one) = {sum} /\ WellFormed(one)
    BY <1>5, <1>6, RangeShort, WellFormedShort
  <2>2. Disjoint(one)
    BY <1>5, <1>6 DEF Disjoint
  <2> QED BY <2>1, <2>2
<1>8. PICK short \in Seq(E) : short = one \o rest /\ Joins(one, rest, short)
  BY ConcatJoins
<1>0. Compact(log, keep) = short
  BY <1>1, <1>4, <1>6, <1>8
<1>9. Disjoint(Compact(log, keep))
  <2>1. Disjoint(rest)
    BY <1>2 DEF Joins
  <2>2. Across(one, rest)
    BY <1>5, <1>7 DEF Across
  <2> QED BY <1>0, <1>7, <1>8, <2>1, <2>2 DEF Joins
<1>10. WellFormed(Without(Compact(log, keep), ids))
  <2>1. PICK u \in Seq(E), v \in Seq(E) :
          u = Without(pre, ids) /\ v = Without(rest, ids) /\ Without(log, ids) = u \o v
    <3>1. Without(pre, ids) \in Seq(E) /\ Without(rest, ids) \in Seq(E)
      BY WithoutType
    <3>2. Without(log, ids) = Without(pre, ids) \o Without(rest, ids)
      <4>1. Sieves(pre, rest, ids)
        BY WithoutSieves
      <4> QED BY <1>1, <4>1 DEF Sieves
    <3> QED BY <1>1, <3>1, <3>2
  <2>2. Disjoint(u \o v) /\ WellFormed(u \o v)
    BY <2>1, WithoutDisjoint
  <2>3. ASSUME NEW e \in Range(v), e.kind = "result"
        PROVE  \E c \in Range(v) : c.kind = "calls" /\ e.ids \subseteq c.ids
    <3>1. \A x : x \in Range(v) <=> x \in Range(rest) /\ ~Drops(ids, x)
      BY <2>1, WithoutRange
    <3>2. e \in Range(rest) /\ ~Drops(ids, e) /\ e \in E
      BY <1>3, <3>1
    <3>3. PICK c \in Range(rest) : c.kind = "calls" /\ e.ids \subseteq c.ids
      BY <1>1, <2>3, <3>2 DEF HasOrphanedToolResults
    <3>4. e.ids # {}
      BY <2>3, <3>2 DEF AllProper, Proper
    <3>5. ~Drops(ids, c)
      BY <3>2, <3>3, <3>4 DEF Drops
    <3> QED BY <3>1, <3>3, <3>5
  <2>4. WellFormed(v)
    BY <2>2, <2>3, WellFormedSuffix DEF AllProper
  <2>5. Without(one, ids) = one
    <3>1. \A x \in Range(one) : ~Drops(ids, x)
      BY <1>5, <1>7 DEF Drops
    <3> QED BY <3>1, WithoutKeepsAll
  <2>6. Without(short, ids) = one \o v
    <3>1. Without(short, ids) = Without(one, ids) \o Without(rest, ids)
      <4>1. Sieves(one, rest, ids)
        BY WithoutSieves
      <4> QED BY <1>8, <4>1 DEF Sieves
    <3> QED BY <2>1, <2>5, <3>1
  <2>7. WellFormed(one \o v)
    BY <1>7, <2>4, WellFormedConcat DEF AllProper
  <2> QED BY <1>0, <1>8, <2>6, <2>7
<1>11. ASSUME NEW e \in Range(Compact(log, keep))
       PROVE  e \in Range(log) \/ \E old \in SUBSET Range(log) : e = Summary(old)
  BY <1>0, <1>2, <1>4, <1>7, <1>8, <1>11 DEF Joins
<1> QED BY <1>0, <1>9, <1>10, <1>11


-----------------------------------------------------------------------------
LEMMA SoundGrows ==
  ASSUME NEW log, NEW used, NEW hidden, NEW later, used \subseteq later
  PROVE  /\ Storable(log, used, hidden) => Storable(log, later, hidden)
         /\ Presentable(log, used, hidden) => Presentable(log, later, hidden)
  BY DEF Storable, Presentable, Within

LEMMA StorableLater ==
  ASSUME NEW log, NEW used, NEW hidden, Storable(log, used, hidden),
         NEW later, used \subseteq later, NEW more, more \cap used = {}
  PROVE  Storable(log, later, hidden \cup more)
<1>1. \A e \in Range(log) : e.ids \cap more = {}
  BY DEF Storable, Within
<1>2. \A e \in Range(log) : Unsplit(e, hidden) => Unsplit(e, hidden \cup more)
  BY <1>1 DEF Unsplit
<1> QED BY <1>2 DEF Storable, Logged, Within

LEMMA StorableConcat ==
  ASSUME NEW E, NEW one \in Seq(E), NEW two \in Seq(E), NEW used, NEW hidden,
         Storable(one, used, hidden), Storable(two, used, hidden), Across(one, two)
  PROVE  Storable(one \o two, used, hidden)
<1>1. PICK both \in Seq(E) : both = one \o two /\ Joins(one, two, both)
  BY ConcatJoins
<1> QED BY <1>1 DEF Joins, Storable, Logged, Within

LEMMA PresentableLater ==
  ASSUME NEW E, NEW log \in Seq(E), NEW used, NEW hidden, Presentable(log, used, hidden),
         NEW later, used \subseteq later, NEW more, more \cap used = {}
  PROVE  Presentable(log, later, hidden \cup more)
<1>0. PICK both : both = hidden \cup more
  OBVIOUS
<1>1. \A e \in Range(log) : Drops(hidden, e) <=> Drops(both, e)
  BY <1>0 DEF Presentable, Within, Drops
<1>2. Without(log, hidden) = Without(log, both)
  <2>1. \A t \in Seq(E) : (\A e \in Range(t) : Drops(hidden, e) <=> Drops(both, e))
                           => Without(t, hidden) = Without(t, both)
    BY WithoutSame
  <2> QED BY <1>1, <2>1
<1> QED BY <1>0, <1>2 DEF Presentable, Within

LEMMA EmptySound ==
  ASSUME NEW used, NEW hidden
  PROVE  Storable(<<>>, used, hidden) /\ Presentable(<<>>, used, hidden)
<1>1. Disjoint(<<>>)
  BY DEF Disjoint
<1>2. WellFormed(Without(<<>>, hidden))
  BY WithoutNothing, WellFormedShort
<1> QED BY <1>1, <1>2, RangeShort DEF Storable, Presentable, Logged, Within

(* A message that neither makes nor answers calls.                         *)
LEMMA PlainSound ==
  ASSUME NEW E, AllProper(E), NEW e \in E, e.kind \notin {"calls", "result"},
         NEW used, NEW hidden
  PROVE  /\ <<e>> \in Seq(E)
         /\ Storable(<<e>>, used, hidden) /\ Presentable(<<e>>, used, hidden)
         /\ \A log : Across(log, <<e>>)
<1>1. <<e>> \in Seq(E)
  OBVIOUS
<1>2. PICK one \in Seq(E) : one = <<e>>
  BY <1>1
<1>3. e.ids = {} /\ Range(one) = {e}
  BY <1>2, RangeShort DEF AllProper, Proper
<1>4. Without(one, hidden) = one
  <2>1. \A x \in Range(one) : ~Drops(hidden, x)
    BY <1>3 DEF Drops
  <2> QED BY <2>1, WithoutKeepsAll
<1>5. Disjoint(one)
  BY <1>2 DEF Disjoint
<1>6. WellFormed(one)
  BY <1>2, WellFormedShort
<1>7. \A log : Across(log, one)
  BY <1>3 DEF Across
<1> QED BY <1>1, <1>2, <1>3, <1>4, <1>5, <1>6, <1>7 DEF Storable, Presentable, Logged, Unsplit, Within

(* What a restart, a lost write and a compaction make of a transcript.     *)
LEMMA SanitizedSound ==
  ASSUME NEW E, AllProper(E), NEW log \in Seq(E), NEW used, NEW hidden,
         Storable(log, used, hidden)
  PROVE  /\ Sanitize(log) \in Seq(E) /\ Range(Sanitize(log)) \subseteq Range(log)
         /\ Storable(Sanitize(log), used, hidden)
         /\ WellFormed(Sanitize(log)) /\ Presentable(Sanitize(log), used, hidden)
<1>1. PICK clean \in Seq(E) :
        /\ clean = Sanitize(log) /\ Range(clean) \subseteq Range(log)
        /\ Disjoint(clean) /\ WellFormed(clean) /\ WellFormed(Without(clean, hidden))
  BY SanitizeSound DEF AllProper, Storable
<1> QED BY <1>1 DEF Storable, Presentable, Logged, Within

LEMMA CutStorable ==
  ASSUME NEW E, NEW log \in Seq(E), NEW used, NEW hidden, Storable(log, used, hidden),
         NEW left,
         \/ \E k \in 0 .. Len(log) : left = SubSeq(log, 1, k)
         \/ \E k \in 1 .. Len(log) : left = RemoveAt(log, k)
  PROVE  Range(left) \subseteq Range(log) /\ Storable(left, used, hidden)
<1>1. Range(left) \subseteq Range(log) /\ Disjoint(left)
  BY CutSound DEF Storable
<1> QED BY <1>1 DEF Storable, Logged, Within

LEMMA CompactedSound ==
  ASSUME NEW E, AllProper(E), Summarizes(E), NEW log \in Seq(E), NEW keep \in Nat,
         NEW used, NEW hidden, Storable(log, used, hidden), Presentable(log, used, hidden)
  PROVE  /\ Compact(log, keep) \in Seq(E)
         /\ Storable(Compact(log, keep), used, hidden)
         /\ Presentable(Compact(log, keep), used, hidden)
         /\ \A e \in Range(Compact(log, keep)) :
              e \in Range(log) \/ \E old \in SUBSET Range(log) : e = Summary(old)
<1>1. PICK short \in Seq(E) :
        /\ short = Compact(log, keep)
        /\ Disjoint(short) /\ WellFormed(Without(short, hidden))
        /\ \A e \in Range(short) :
             e \in Range(log) \/ \E old \in SUBSET Range(log) : e = Summary(old)
  BY CompactSound DEF Storable, Presentable
<1>2. \A old : Summary(old).kind = "summary" /\ Summary(old).ids = {}
  BY DEF Summary
<1>3. Logged(short, hidden) /\ Within(short, used)
  BY <1>1, <1>2 DEF Storable, Logged, Unsplit, Within
<1> QED BY <1>1, <1>3 DEF Storable, Presentable
=============================================================================
