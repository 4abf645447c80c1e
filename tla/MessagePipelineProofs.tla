------------------------ MODULE MessagePipelineProofs ------------------------
(***************************************************************************)
(* Theorems about MessagePipeline for any chats and messages, any number   *)
(* of deliveries and restarts, and any limits.                             *)
(***************************************************************************)
EXTENDS MessagePipeline, Integers, SequenceTheorems, FiniteSetTheorems, WellFoundedInduction, TLAPS

Types ==
  /\ msg \in [Deliveries -> Messages \cup {None}]
  /\ pc \in [Deliveries -> Stages]
  /\ after \in [Deliveries -> Deliveries \cup {None}]
  /\ buffers \in [Chats -> SUBSET Deliveries]
  /\ recent \in Seq(Messages) /\ Len(recent) <= MaxRecent
  /\ history \in [Chats -> Seq(Messages)]
  /\ \A c \in Chats : Len(history[c]) <= MaxHistory
  /\ chains \in [Chats -> Deliveries \cup {None}]
  /\ active \in Nat /\ pending \in Nat
  /\ waiting \in Seq(Deliveries)
  /\ offset \in [Chats -> Messages \cup {0}]
  /\ saved \in [Chats -> Messages \cup {0}]
  /\ stage \in {"running", "quiescing", "flushing", "draining", "stopped"}
  /\ toFlush \in SUBSET Chats
  /\ awaited \in SUBSET Deliveries
  /\ restarts \in 0 .. MaxRestarts

(* What lies in a buffer has not gone further.                             *)
Buffered ==
  /\ \A d \in Deliveries : pc[d] # "absent" => msg[d] \in Messages
  /\ \A c \in Chats : \A d \in buffers[c] : pc[d] = "buffered" /\ Chat(d) = c

-----------------------------------------------------------------------------
LEMMA Constants ==
  /\ MaxDeliveries \in Nat /\ MaxRestarts \in Nat
  /\ MaxRecent \in Nat /\ MaxRecent > 0 /\ MaxHistory \in Nat /\ MaxHistory > 0
  /\ MaxConcurrent \in Nat /\ MaxConcurrent > 0 /\ MaxPending \in Nat
  /\ \A m \in Messages : m \in Nat /\ m > 0 /\ m # None /\ ChatOf[m] \in Chats
  /\ \A d \in Deliveries : d \in Nat /\ d # None
BY PipelineAssumption DEF Deliveries, None

LEMMA Places ==
  /\ \A x \in Queued : x \in Stages /\ x \in InWork /\ x \notin Ended /\ x # "absent"
  /\ \A x \in Ended : x \in Stages /\ x \notin Queued /\ x # "absent"
  /\ Queued = {"chained", "waiting", "started", "turn"}
  /\ Ended = {"dropped", "answered", "failed"}
  /\ {"absent", "lost", "gone", "buffered", "blocked", "batched", "storing"} \subseteq Stages
  /\ {"absent", "lost", "gone", "buffered", "blocked", "batched", "storing"} \cap Queued = {}
BY DEF Queued, Ended, InWork, Stages

-----------------------------------------------------------------------------
(* The order of the messages of a batch has a first and a last one, and    *)
(* the one before each.                                                    *)
Dated(s) == \A d \in s : d \in Nat /\ msg[d] \in Nat

LEMMA Induction ==
  ASSUME NEW S, 0 \in S, \A k \in Nat : k \in S => k + 1 \in S
  PROVE  \A k \in Nat : k \in S
<1> SUFFICES ASSUME Nat \ S # {} PROVE FALSE
  OBVIOUS
<1>1. \E k \in Nat \ S : \A j \in Nat \ S : ~(<<j, k>> \in OpToRel(<, Nat))
  <2>1. Nat \ S \in SUBSET Nat /\ Nat \ S # {}
    OBVIOUS
  <2> QED BY <2>1, NatLessThanWellFounded, WFMin
<1>2. \A j, k \in Nat : j < k => <<j, k>> \in OpToRel(<, Nat)
  BY DEF OpToRel
<1> HIDE DEF OpToRel
<1>3. PICK k \in Nat \ S : \A j \in Nat \ S : ~(j < k)
  <2>1. PICK k \in Nat \ S : \A j \in Nat \ S : ~(<<j, k>> \in OpToRel(<, Nat))
    BY <1>1
  <2> QED BY <1>2, <2>1
<1>4. k # 0 /\ k \in Nat
  BY <1>3
<1>5. k - 1 \in Nat /\ k - 1 < k /\ (k - 1) + 1 = k
  BY <1>4
<1> QED BY <1>3, <1>5

LEMMA BeforeOrders ==
  ASSUME NEW s, Dated(s)
  PROVE  /\ \A d, e \in s : d # e => Before(d, e) \/ Before(e, d)
         /\ \A d, e \in s : ~(Before(d, e) /\ Before(e, d))
         /\ \A d, e, f \in s : Before(d, e) /\ Before(e, f) => Before(d, f)
BY DEF Dated, Before

Extremes(s) ==
  /\ \E d \in s : \A e \in s \ {d} : Before(d, e)
  /\ \E d \in s : \A e \in s \ {d} : Before(e, d)

LEMMA BatchesHaveExtremes ==
  ASSUME NEW s \in SUBSET Deliveries, s # {}, Dated(s)
  PROVE  Extremes(s)
<1> DEFINE S == {n \in Nat : \A t \in SUBSET (1 .. n) : t # {} /\ Dated(t) => Extremes(t)}
<1>1. 0 \in S
  <2>1. 1 .. 0 = {}
    OBVIOUS
  <2> QED BY <2>1
<1>2. ASSUME NEW n \in Nat, n \in S PROVE n + 1 \in S
  <2>1. ASSUME NEW t \in SUBSET (1 .. n + 1), t # {}, Dated(t) PROVE Extremes(t)
    <3>1. CASE n + 1 \notin t
      <4>1. t \in SUBSET (1 .. n)
        BY <3>1
      <4> QED BY <1>2, <2>1, <4>1
    <3>2. CASE t = {n + 1}
      BY <3>2 DEF Extremes
    <3>3. CASE n + 1 \in t /\ t # {n + 1}
      <4> DEFINE r == t \ {n + 1}
      <4>1. r \in SUBSET (1 .. n) /\ r # {} /\ Dated(r) /\ r \subseteq t
        BY <2>1, <3>3 DEF Dated
      <4>2. Extremes(r)
        BY <1>2, <4>1
      <4>3. PICK a \in r, b \in r : /\ \A e \in r \ {a} : Before(a, e)
                                    /\ \A e \in r \ {b} : Before(e, b)
        BY <4>2 DEF Extremes
      <4>4. /\ \A d, e \in t : d # e => Before(d, e) \/ Before(e, d)
            /\ \A d, e, f \in t : Before(d, e) /\ Before(e, f) => Before(d, f)
        BY <2>1, BeforeOrders
      <4>5. \E d \in t : \A e \in t \ {d} : Before(d, e)
        <5>1. CASE Before(a, n + 1)
          BY <4>1, <4>3, <5>1
        <5>2. CASE Before(n + 1, a)
          <6>1. \A e \in t \ {n + 1} : e \in r /\ (e = a \/ Before(a, e))
            BY <4>3
          <6>2. \A e \in t \ {n + 1} : Before(n + 1, e)
            BY <3>3, <4>1, <4>4, <5>2, <6>1
          <6> QED BY <3>3, <6>2
        <5> QED BY <3>3, <4>1, <4>4, <5>1, <5>2
      <4>6. \E d \in t : \A e \in t \ {d} : Before(e, d)
        <5>1. CASE Before(n + 1, b)
          BY <4>1, <4>3, <5>1
        <5>2. CASE Before(b, n + 1)
          <6>1. \A e \in t \ {n + 1} : e \in r /\ (e = b \/ Before(e, b))
            BY <4>3
          <6>2. \A e \in t \ {n + 1} : Before(e, n + 1)
            BY <3>3, <4>1, <4>4, <5>2, <6>1
          <6> QED BY <3>3, <6>2
        <5> QED BY <3>3, <4>1, <4>4, <5>1, <5>2
      <4> QED BY <4>5, <4>6 DEF Extremes
    <3> QED BY <2>1, <3>1, <3>2, <3>3
  <2> QED BY <2>1
<1> HIDE DEF S
<1>3. MaxDeliveries \in S
  BY <1>1, <1>2, Induction, Constants
<1> QED BY <1>3 DEF S, Deliveries

LEMMA BatchOrder ==
  ASSUME Types, Buffered, NEW c \in Chats, buffers[c] # {}
  PROVE  /\ FirstOf(c) \in buffers[c] /\ LastOf(c) \in buffers[c]
         /\ \A d \in buffers[c] : Predecessor(c, d) \in Deliveries \cup {None}
<1> DEFINE b == buffers[c]
<1>1. b \in SUBSET Deliveries /\ \A d \in b : msg[d] \in Messages
  BY Places DEF Types, Buffered
<1>2. Dated(b)
  BY <1>1, Constants DEF Dated
<1>3. /\ \A d, e \in b : d # e => Before(d, e) \/ Before(e, d)
      /\ \A d, e \in b : ~(Before(d, e) /\ Before(e, d))
  BY <1>2, BeforeOrders
<1>4. Extremes(b)
  BY <1>1, <1>2, BatchesHaveExtremes
<1>5. LastOf(c) \in b
  BY <1>4 DEF LastOf, Extremes
<1>6. FirstOf(c) \in b /\ Earlier(c, FirstOf(c)) = {}
  <2>1. PICK d \in b : \A e \in b \ {d} : Before(d, e)
    BY <1>4 DEF Extremes
  <2>2. \A e \in b : ~Before(e, d)
    BY <1>3, <2>1
  <2>3. Earlier(c, d) = {}
    BY <2>2 DEF Earlier
  <2> QED BY <2>3 DEF FirstOf
<1>7. ASSUME NEW d \in b, d # FirstOf(c) PROVE Predecessor(c, d) \in b
  <2>1. FirstOf(c) \in Earlier(c, d)
    <3>1. ~Before(d, FirstOf(c))
      BY <1>6 DEF Earlier
    <3> QED BY <1>3, <1>6, <1>7, <3>1 DEF Earlier
  <2>2. Earlier(c, d) \in SUBSET Deliveries /\ Earlier(c, d) \subseteq b /\ Dated(Earlier(c, d))
    BY <1>1, <1>2 DEF Earlier, Dated
  <2>3. Extremes(Earlier(c, d))
    BY <2>1, <2>2, BatchesHaveExtremes
  <2>4. \E e \in Earlier(c, d) : \A f \in Earlier(c, d) \ {e} : Before(f, e)
    BY <2>3 DEF Extremes
  <2>5. Predecessor(c, d) \in Earlier(c, d)
    BY <1>7, <2>4 DEF Predecessor
  <2> QED BY <2>2, <2>5
<1>8. Predecessor(c, FirstOf(c)) = None
  BY DEF Predecessor
<1> QED BY <1>1, <1>5, <1>6, <1>7, <1>8

-----------------------------------------------------------------------------
(* Sequences with a limit.                                                 *)
LEMMA RememberingFits ==
  ASSUME Types, NEW m \in Messages
  PROVE  Remembering(m) \in Seq(Messages) /\ Len(Remembering(m)) <= MaxRecent
<1> DEFINE more == Append(recent, m)
<1>1. /\ recent \in Seq(Messages) /\ Len(recent) \in Nat /\ Len(recent) <= MaxRecent
      /\ more \in Seq(Messages) /\ Len(more) = Len(recent) + 1
  BY DEF Types
<1> HIDE DEF more
<1>2. CASE Len(more) > MaxRecent
  <2> DEFINE h == Len(more) \div 2
             rest == SubSeq(more, h + 1, Len(more))
  <2>1. Len(more) \in Nat /\ Len(more) = MaxRecent + 1 /\ Len(more) >= 2
    BY <1>1, <1>2, Constants
  <2>2. h \in Nat /\ h >= 1 /\ h <= Len(more)
    BY <2>1
  <2> HIDE DEF h
  <2>3. \A i \in h + 1 .. Len(more) : more[i] \in Messages
    BY <1>1, <2>1, <2>2
  <2>4. /\ rest \in Seq(Messages)
        /\ Len(rest) = IF h + 1 <= Len(more) THEN Len(more) - (h + 1) + 1 ELSE 0
    BY <2>1, <2>2, <2>3, SubSeqProperties
  <2>5. Len(rest) <= MaxRecent
    BY <2>1, <2>2, <2>4, Constants
  <2> QED BY <1>1, <2>4, <2>5 DEF Remembering, more, h
<1>3. CASE Len(more) <= MaxRecent
  BY <1>1, <1>3 DEF Remembering, more
<1>4. Len(more) > MaxRecent \/ Len(more) <= MaxRecent
  BY <1>1, Constants
<1> QED BY <1>2, <1>3, <1>4

LEMMA NotedFits ==
  ASSUME Types, NEW c \in Chats, NEW m \in Messages
  PROVE  /\ Noted(c, m) \in [Chats -> Seq(Messages)]
         /\ \A b \in Chats \ {c} : Noted(c, m)[b] = history[b]
         /\ Len(Noted(c, m)[c]) <= MaxHistory
         /\ Elements(Noted(c, m)[c]) \subseteq Elements(history[c]) \cup {m}
<1> DEFINE h == history[c]
           n == MaxHistory - 1
           tail == SubSeq(h, Len(h) - n + 1, Len(h))
           room == IF Len(h) < MaxHistory THEN h ELSE tail
<1>1. h \in Seq(Messages) /\ Len(h) \in Nat /\ Len(h) <= MaxHistory
      /\ DOMAIN h = 1 .. Len(h) /\ \A i \in 1 .. Len(h) : h[i] \in Messages
  BY DEF Types
<1>2. room \in Seq(Messages) /\ Len(room) < MaxHistory /\ Elements(room) \subseteq Elements(h)
  <2>1. CASE Len(h) < MaxHistory
    BY <1>1, <2>1
  <2>2. CASE ~(Len(h) < MaxHistory)
    <3> HIDE DEF h
    <3>1. Len(h) = MaxHistory /\ Len(h) - n + 1 = 2
      <4>1. \A k, l \in Nat : k <= l /\ ~(k < l) => k = l /\ k - (l - 1) + 1 = 2
        OBVIOUS
      <4> QED BY <1>1, <2>2, <4>1, Constants
    <3>2. \A i \in 2 .. Len(h) : h[i] \in Messages
      BY <1>1
    <3>3. /\ tail \in Seq(Messages)
          /\ Len(tail) = IF 2 <= Len(h) THEN Len(h) - 2 + 1 ELSE 0
          /\ \A i \in 1 .. Len(h) - 2 + 1 : tail[i] = h[2 + i - 1]
      BY <1>1, <3>1, <3>2, SubSeqProperties
    <3> HIDE DEF tail
    <3>4. Len(tail) = Len(h) - 1 /\ DOMAIN tail = 1 .. Len(h) - 1
      BY <1>1, <3>1, <3>3, Constants
    <3>5. \A i \in 1 .. Len(h) - 1 : tail[i] = h[i + 1] /\ i + 1 \in 1 .. Len(h)
      <4>1. \A k \in Nat : \A i \in 1 .. k - 1 : i \in 1 .. k - 2 + 1 /\ 2 + i - 1 = i + 1 /\ i + 1 \in 1 .. k
        OBVIOUS
      <4> QED BY <1>1, <3>3, <4>1
    <3>6. Elements(tail) \subseteq Elements(h)
      BY <1>1, <3>4, <3>5 DEF Elements
    <3>7. Len(tail) < MaxHistory
      BY <3>1, <3>4, Constants
    <3> QED BY <2>2, <3>3, <3>6, <3>7
  <2> QED BY <2>1, <2>2
<1>3. Noted(c, m) = [history EXCEPT ![c] = Append(room, m)]
  BY DEF Noted, NotedKeeping
<1> HIDE DEF room
<1>4. /\ Append(room, m) \in Seq(Messages) /\ Len(Append(room, m)) = Len(room) + 1
      /\ Len(room) \in Nat /\ DOMAIN room = 1 .. Len(room)
      /\ DOMAIN Append(room, m) = 1 .. Len(room) + 1
      /\ \A i \in 1 .. Len(room) : Append(room, m)[i] = room[i]
      /\ Append(room, m)[Len(room) + 1] = m
  BY <1>2
<1>5. Elements(Append(room, m)) \subseteq Elements(h) \cup {m}
  <2>1. \A i \in 1 .. Len(room) + 1 : i \in 1 .. Len(room) \/ i = Len(room) + 1
    BY <1>4
  <2>2. \A i \in 1 .. Len(room) : room[i] \in Elements(room)
    BY <1>4 DEF Elements
  <2>3. \A i \in 1 .. Len(room) + 1 : Append(room, m)[i] \in Elements(h) \cup {m}
    BY <1>2, <1>4, <2>1, <2>2
  <2> QED BY <1>4, <2>3 DEF Elements
<1>6. Len(Append(room, m)) <= MaxHistory
  BY <1>2, <1>4, Constants
<1> QED BY <1>3, <1>4, <1>5, <1>6 DEF Types

LEMMA FlushGives ==
  ASSUME Types, Buffered, NEW c \in Chats, buffers[c] # {}
  PROVE  /\ FlushedPc(c) \in [Deliveries -> Stages]
         /\ \A d \in Deliveries : \/ d \notin buffers[c] /\ FlushedPc(c)[d] = pc[d]
                                  \/ /\ d \in buffers[c] /\ pc[d] = "buffered"
                                     /\ FlushedPc(c)[d] \in {"dropped", "storing", "batched"}
         /\ FlushedAfter(c) \in [Deliveries -> Deliveries \cup {None}]
         /\ \A d \in Deliveries : d \notin buffers[c] => FlushedAfter(c)[d] = after[d]
         /\ LastOf(c) \in Deliveries
         /\ Remembering(msg[FirstOf(c)]) \in Seq(Messages)
         /\ Len(Remembering(msg[FirstOf(c)])) <= MaxRecent
<1>1. /\ FirstOf(c) \in buffers[c] /\ LastOf(c) \in buffers[c] /\ buffers[c] \subseteq Deliveries
      /\ \A d \in buffers[c] : Predecessor(c, d) \in Deliveries \cup {None}
  BY BatchOrder DEF Types
<1>2. msg[FirstOf(c)] \in Messages
  BY <1>1 DEF Buffered
<1>3. FirstStage(msg[FirstOf(c)]) \in {"dropped", "storing"}
  BY DEF FirstStage
<1>4. \A d \in Deliveries : \/ d \notin buffers[c] /\ FlushedPc(c)[d] = pc[d]
                            \/ /\ d \in buffers[c] /\ pc[d] = "buffered"
                               /\ FlushedPc(c)[d] \in {"dropped", "storing", "batched"}
  BY <1>1, <1>3 DEF FlushedPc, Buffered
<1>5. FlushedPc(c) \in [Deliveries -> Stages]
  <2>1. \A d \in Deliveries : FlushedPc(c)[d] \in Stages
    BY <1>4, Places DEF Types
  <2> QED BY <2>1 DEF FlushedPc
<1>6. /\ FlushedAfter(c) \in [Deliveries -> Deliveries \cup {None}]
      /\ \A d \in Deliveries : d \notin buffers[c] => FlushedAfter(c)[d] = after[d]
  BY <1>1 DEF FlushedAfter, Types
<1> QED BY <1>1, <1>2, <1>4, <1>5, <1>6, RememberingFits

-----------------------------------------------------------------------------
(* Steps that move nothing in the queues and no offset: those of the       *)
(* debouncer, of a message that gets no turn, and of stopAgent.            *)
Settled == Queued \cup {"answered"}
Quiet ==
  /\ UNCHANGED <<queue, offsets>>
  /\ \A d \in Deliveries :
       /\ pc[d] # "absent" => pc'[d] # "absent" /\ msg'[d] = msg[d]
       /\ pc[d] \in Settled \/ pc'[d] \in Settled => pc'[d] = pc[d]
       /\ pc[d] \in Queued => after'[d] = after[d]
  /\ \A c \in Chats : \A m \in Elements(history'[c]) :
       m \in Elements(history[c]) \/ m \notin Addressed \/ m <= offset[c]

Sound == Types /\ Buffered

LEMMA SettledPlaces ==
  /\ Settled = {"chained", "waiting", "started", "turn", "answered"}
  /\ \A x \in Settled : x \notin {"absent", "lost", "gone", "buffered", "blocked", "batched", "storing", "dropped"}
BY Places DEF Settled

LEMMA ArriveGives ==
  ASSUME Sound, NEW d \in Deliveries, NEW m \in Messages, Arrives(d, m)
  PROVE  /\ pc[d] = "absent" /\ msg'[d] = m /\ \A e \in Deliveries \ {d} : msg'[e] = msg[e]
         /\ msg' \in [Deliveries -> Messages \cup {None}]
         /\ \A c \in Chats : d \notin buffers[c]
         /\ UNCHANGED <<history, queue, offsets, shutdown>>
BY DEF Arrives, Sound, Types, Buffered

(* What is left to show of a step that adds nothing to the queues.         *)
LEMMA QuietTypes ==
  ASSUME Sound, UNCHANGED <<queue, offsets, stage, toFlush, awaited, restarts>>,
         msg' \in [Deliveries -> Messages \cup {None}],
         pc' \in [Deliveries -> Stages],
         after' \in [Deliveries -> Deliveries \cup {None}],
         buffers' \in [Chats -> SUBSET Deliveries],
         recent' \in Seq(Messages), Len(recent') <= MaxRecent,
         history' \in [Chats -> Seq(Messages)], \A c \in Chats : Len(history'[c]) <= MaxHistory
  PROVE  Types'
BY DEF Sound, Types, queue, offsets

LEMMA ArriveQuiet ==
  ASSUME Sound, NEW d \in Deliveries, NEW m \in Messages, Arrive(d, m)
  PROVE  Sound' /\ Quiet
<1> USE DEF Sound
<1> DEFINE c == ChatOf[m]
<1>0. c \in Chats /\ m # None
  BY Constants
<1>1. /\ pc[d] = "absent" /\ msg'[d] = m /\ \A e \in Deliveries \ {d} : msg'[e] = msg[e]
      /\ msg' \in [Deliveries -> Messages \cup {None}]
      /\ \A b \in Chats : d \notin buffers[b]
      /\ UNCHANGED <<history, queue, offsets, shutdown>>
  BY ArriveGives DEF Arrive, ArriveAtOnce, ArriveBuffered, ArriveFlushing
<1>2. UNCHANGED <<history, queue, offsets, stage, toFlush, awaited, restarts>>
  BY <1>1 DEF shutdown
<1>3. pc[d] \notin Settled
  BY <1>1, SettledPlaces
<1>4. CASE ArriveAtOnce(d, m)
  <2>1. /\ pc' = [pc EXCEPT ![d] = FirstStage(m)] /\ recent' = Remembering(m)
        /\ UNCHANGED <<after, buffers>> /\ FirstStage(m) \in {"dropped", "storing"}
    BY <1>4 DEF ArriveAtOnce, FirstStage
  <2>2. pc' \in [Deliveries -> Stages] /\ pc'[d] \in {"dropped", "storing"}
        /\ \A e \in Deliveries \ {d} : pc'[e] = pc[e]
    BY <2>1, Places DEF Types
  <2>3. Types'
    BY <1>1, <1>2, <2>1, <2>2, RememberingFits, QuietTypes DEF Types
  <2>4. Buffered'
    <3>1. \A e \in Deliveries : pc'[e] # "absent" => msg'[e] \in Messages
      BY <1>1, <2>2 DEF Buffered
    <3>2. ASSUME NEW b \in Chats, NEW e \in buffers[b] PROVE pc'[e] = "buffered" /\ ChatOf[msg'[e]] = b
      <4>1. e \in Deliveries \ {d}
        BY <1>1, <3>2 DEF Types
      <4> QED BY <1>1, <2>2, <4>1 DEF Buffered, Chat
    <3> QED BY <2>1, <3>1, <3>2 DEF Buffered, Chat
  <2>5. Quiet
    BY <1>1, <1>2, <1>3, <2>1, <2>2, SettledPlaces DEF Quiet, Settled
  <2> QED BY <2>3, <2>4, <2>5
<1>5. CASE ArriveBuffered(d, m)
  <2>1. /\ pc' = [pc EXCEPT ![d] = "buffered"]
        /\ buffers' = [buffers EXCEPT ![c] = @ \cup {d}]
        /\ UNCHANGED <<after, recent>>
    BY <1>5 DEF ArriveBuffered
  <2>2. pc' \in [Deliveries -> Stages] /\ pc'[d] = "buffered"
        /\ \A e \in Deliveries \ {d} : pc'[e] = pc[e]
    BY <2>1, Places DEF Types
  <2>3. buffers' \in [Chats -> SUBSET Deliveries] /\ buffers'[c] = buffers[c] \cup {d}
        /\ \A b \in Chats \ {c} : buffers'[b] = buffers[b]
    BY <1>0, <2>1 DEF Types
  <2>4. Types'
    BY <1>1, <1>2, <2>1, <2>2, <2>3, QuietTypes DEF Types
  <2>5. Buffered'
    <3>1. \A e \in Deliveries : pc'[e] # "absent" => msg'[e] \in Messages
      BY <1>1, <2>2 DEF Buffered
    <3>2. ASSUME NEW b \in Chats, NEW e \in buffers'[b] PROVE pc'[e] = "buffered" /\ ChatOf[msg'[e]] = b
      <4>1. CASE e = d
        BY <1>1, <2>2, <2>3, <3>2, <4>1
      <4>2. CASE e # d
        <5>1. e \in buffers[b]
          <6>1. CASE b = c
            BY <2>3, <3>2, <4>2, <6>1
          <6>2. CASE b # c
            BY <2>3, <3>2, <6>2
          <6> QED BY <6>1, <6>2
        <5>2. e \in Deliveries \ {d}
          BY <4>2, <5>1 DEF Types
        <5> QED BY <1>1, <2>2, <5>1, <5>2 DEF Buffered, Chat
      <4> QED BY <4>1, <4>2
    <3> QED BY <3>1, <3>2 DEF Buffered, Chat
  <2>6. Quiet
    BY <1>1, <1>2, <1>3, <2>1, <2>2, SettledPlaces DEF Quiet, Settled
  <2> QED BY <2>4, <2>5, <2>6
<1>6. CASE ArriveFlushing(d, m)
  <2>1. /\ buffers[c] # {}
        /\ pc' = [FlushedPc(c) EXCEPT ![d] = IF m \in Debounced THEN "blocked" ELSE "batched"]
        /\ after' = [FlushedAfter(c) EXCEPT ![d] = LastOf(c)]
        /\ recent' = Remembering(msg[FirstOf(c)]) /\ buffers' = [buffers EXCEPT ![c] = {}]
    BY <1>6 DEF ArriveFlushing, Flushes
  <2>2. /\ FlushedPc(c) \in [Deliveries -> Stages]
        /\ \A e \in Deliveries : \/ e \notin buffers[c] /\ FlushedPc(c)[e] = pc[e]
                                 \/ /\ e \in buffers[c] /\ pc[e] = "buffered"
                                    /\ FlushedPc(c)[e] \in {"dropped", "storing", "batched"}
        /\ FlushedAfter(c) \in [Deliveries -> Deliveries \cup {None}]
        /\ \A e \in Deliveries : e \notin buffers[c] => FlushedAfter(c)[e] = after[e]
        /\ LastOf(c) \in Deliveries
        /\ recent' \in Seq(Messages) /\ Len(recent') <= MaxRecent
    BY <1>0, <2>1, FlushGives
  <2> HIDE DEF c
  <2>3. /\ pc' \in [Deliveries -> Stages] /\ after' \in [Deliveries -> Deliveries \cup {None}]
        /\ pc'[d] \in {"blocked", "batched"}
        /\ \A e \in Deliveries \ {d} :
             \/ e \notin buffers[c] /\ pc'[e] = pc[e] /\ after'[e] = after[e]
             \/ e \in buffers[c] /\ pc[e] = "buffered" /\ pc'[e] \in {"dropped", "storing", "batched"}
    BY <2>1, <2>2, Places
  <2>4. buffers' \in [Chats -> SUBSET Deliveries] /\ buffers'[c] = {}
        /\ \A b \in Chats \ {c} : buffers'[b] = buffers[b]
    BY <1>0, <2>1 DEF Types
  <2>5. Types'
    BY <1>1, <1>2, <2>2, <2>3, <2>4, QuietTypes DEF Types
  <2>6. Buffered'
    <3>1. \A e \in Deliveries : pc'[e] # "absent" => msg'[e] \in Messages
      BY <1>1, <2>3 DEF Buffered
    <3>2. ASSUME NEW b \in Chats, NEW e \in buffers'[b] PROVE pc'[e] = "buffered" /\ ChatOf[msg'[e]] = b
      <4>1. b # c /\ e \in buffers[b] /\ e \in Deliveries \ {d}
        BY <1>1, <2>4, <3>2 DEF Types
      <4>2. pc[e] = "buffered" /\ ChatOf[msg[e]] = b /\ e \notin buffers[c]
        BY <1>0, <4>1 DEF Buffered, Chat
      <4> QED BY <1>1, <2>3, <4>1, <4>2
    <3> QED BY <3>1, <3>2 DEF Buffered, Chat
  <2>7. Quiet
    BY <1>1, <1>2, <1>3, <2>3, SettledPlaces DEF Quiet, Settled
  <2> QED BY <2>5, <2>6, <2>7
<1> QED BY <1>4, <1>5, <1>6 DEF Arrive

(* The timer and flushAll.                                                 *)
LEMMA FlushQuiet ==
  ASSUME Sound, NEW c \in Chats, buffers[c] # {},
         pc' = FlushedPc(c), after' = FlushedAfter(c), Flushes(c), UNCHANGED <<msg, history, queue, offsets>>
  PROVE  /\ Buffered' /\ Quiet
         /\ msg' \in [Deliveries -> Messages \cup {None}]
         /\ pc' \in [Deliveries -> Stages]
         /\ after' \in [Deliveries -> Deliveries \cup {None}]
         /\ buffers' \in [Chats -> SUBSET Deliveries]
         /\ recent' \in Seq(Messages) /\ Len(recent') <= MaxRecent
         /\ LastOf(c) \in Deliveries
<1> USE DEF Sound
<1>1. recent' = Remembering(msg[FirstOf(c)]) /\ buffers' = [buffers EXCEPT ![c] = {}]
  BY DEF Flushes
<1>2. /\ pc' \in [Deliveries -> Stages] /\ after' \in [Deliveries -> Deliveries \cup {None}]
      /\ \A e \in Deliveries :
           \/ e \notin buffers[c] /\ pc'[e] = pc[e] /\ after'[e] = after[e]
           \/ e \in buffers[c] /\ pc[e] = "buffered" /\ pc'[e] \in {"dropped", "storing", "batched"}
      /\ recent' \in Seq(Messages) /\ Len(recent') <= MaxRecent /\ LastOf(c) \in Deliveries
  BY <1>1, FlushGives
<1>3. buffers' \in [Chats -> SUBSET Deliveries] /\ buffers'[c] = {}
      /\ \A b \in Chats \ {c} : buffers'[b] = buffers[b]
  BY <1>1 DEF Types
<1>4. Buffered'
  <2>1. \A e \in Deliveries : pc'[e] # "absent" => msg'[e] \in Messages
    BY <1>2 DEF Buffered
  <2>2. ASSUME NEW b \in Chats, NEW e \in buffers'[b] PROVE pc'[e] = "buffered" /\ ChatOf[msg'[e]] = b
    <3>1. b # c /\ e \in buffers[b] /\ e \in Deliveries
      BY <1>3, <2>2 DEF Types
    <3>2. pc[e] = "buffered" /\ ChatOf[msg[e]] = b /\ e \notin buffers[c]
      BY <3>1 DEF Buffered, Chat
    <3> QED BY <1>2, <3>1, <3>2
  <2> QED BY <2>1, <2>2 DEF Buffered, Chat
<1>5. Quiet
  BY <1>2, SettledPlaces DEF Quiet, Settled
<1> QED BY <1>2, <1>3, <1>4, <1>5 DEF Types

LEMMA TimerQuiet ==
  ASSUME Sound, NEW c \in Chats, FlushTimer(c)
  PROVE  Sound' /\ Quiet
<1>1. /\ buffers[c] # {} /\ pc' = FlushedPc(c) /\ after' = FlushedAfter(c) /\ Flushes(c)
      /\ UNCHANGED <<msg, history, queue, offsets>> /\ UNCHANGED shutdown
  BY DEF FlushTimer
<1>2. /\ Buffered' /\ Quiet
      /\ msg' \in [Deliveries -> Messages \cup {None}]
      /\ pc' \in [Deliveries -> Stages]
      /\ after' \in [Deliveries -> Deliveries \cup {None}]
      /\ buffers' \in [Chats -> SUBSET Deliveries]
      /\ recent' \in Seq(Messages) /\ Len(recent') <= MaxRecent
  BY <1>1, FlushQuiet
<1>3. Types'
  BY <1>1, <1>2, QuietTypes DEF Sound, Types, shutdown
<1> QED BY <1>2, <1>3 DEF Sound

LEMMA StopQuiet ==
  ASSUME Sound, Stop
  PROVE  Sound' /\ Quiet
<1> USE DEF Sound
<1>1. CASE StopBegins \/ FlushAllBegins \/ DrainBegins \/ Disconnect
  <2>1. UNCHANGED <<deliveries, debouncer, history, queue, offsets, restarts>>
    BY <1>1 DEF StopBegins, FlushAllBegins, DrainBegins, Disconnect, Shutdown
  <2>2. /\ stage' \in {"running", "quiescing", "flushing", "draining", "stopped"}
        /\ toFlush' \in SUBSET Chats /\ awaited' \in SUBSET Deliveries
    BY <1>1 DEF StopBegins, FlushAllBegins, DrainBegins, Disconnect, Shutdown, Types, None
  <2>3. Types'
    BY <2>1, <2>2 DEF Types, deliveries, debouncer, queue, offsets
  <2>4. Buffered'
    BY <2>1 DEF Buffered, Chat, deliveries, debouncer
  <2>5. Quiet
    BY <2>1 DEF Quiet, deliveries
  <2> QED BY <2>3, <2>4, <2>5
<1>2. ASSUME NEW c \in Chats, FlushAllNext(c) PROVE Sound' /\ Quiet
  <2>1. /\ stage' = "flushing" /\ toFlush' = toFlush \ {c} /\ UNCHANGED <<restarts, msg, history, queue, offsets>>
    BY <1>2 DEF FlushAllNext, Shutdown
  <2>2. CASE buffers[c] = {}
    <3>1. awaited' = {} /\ UNCHANGED <<pc, after, buffers, recent>>
      BY <1>2, <2>2 DEF FlushAllNext, debouncer
    <3>2. Types'
      BY <2>1, <3>1 DEF Types, queue, offsets
    <3>3. Buffered'
      BY <2>1, <3>1 DEF Buffered, Chat
    <3>4. Quiet
      BY <2>1, <3>1 DEF Quiet
    <3> QED BY <3>2, <3>3, <3>4
  <2>3. CASE buffers[c] # {}
    <3>1. awaited' = {LastOf(c)} /\ pc' = FlushedPc(c) /\ after' = FlushedAfter(c) /\ Flushes(c)
      BY <1>2, <2>3 DEF FlushAllNext
    <3>2. /\ Buffered' /\ Quiet
          /\ msg' \in [Deliveries -> Messages \cup {None}]
          /\ pc' \in [Deliveries -> Stages]
          /\ after' \in [Deliveries -> Deliveries \cup {None}]
          /\ buffers' \in [Chats -> SUBSET Deliveries]
          /\ recent' \in Seq(Messages) /\ Len(recent') <= MaxRecent
          /\ LastOf(c) \in Deliveries
      BY <2>1, <2>3, <3>1, FlushQuiet
    <3>3. Types'
      BY <2>1, <3>1, <3>2 DEF Types, queue, offsets
    <3> QED BY <3>2, <3>3
  <2> QED BY <2>2, <2>3
<1> QED BY <1>1, <1>2 DEF Stop

LEMMA DeliveryQuiet ==
  ASSUME Sound, NEW d \in Deliveries,
         Rebuffer(d) \/ Continue(d) \/ Ignore(d) \/ Turned(d)
  PROVE  Sound' /\ Quiet
<1> USE DEF Sound
<1>1. CASE Rebuffer(d)
  <2> DEFINE c == Chat(d)
  <2>1. /\ pc[d] = "blocked"
        /\ pc' = [e \in Deliveries |-> IF e = d THEN "buffered" ELSE IF e \in buffers[c] THEN "lost" ELSE pc[e]]
        /\ after' = [after EXCEPT ![d] = None]
        /\ buffers' = [buffers EXCEPT ![c] = {d}]
        /\ UNCHANGED <<msg, recent, history, queue, offsets, shutdown>>
    BY <1>1 DEF Rebuffer
  <2>2. msg[d] \in Messages /\ c \in Chats
    BY <2>1, Constants DEF Buffered, Chat
  <2>3. /\ pc'[d] = "buffered"
        /\ \A e \in Deliveries \ {d} : \/ e \notin buffers[c] /\ pc'[e] = pc[e]
                                       \/ e \in buffers[c] /\ pc[e] = "buffered" /\ pc'[e] = "lost"
        /\ \A e \in Deliveries \ {d} : after'[e] = after[e]
    BY <2>1, <2>2 DEF Buffered, Types
  <2>4. pc' \in [Deliveries -> Stages]
    BY <2>1, Places DEF Types
  <2>5. buffers' \in [Chats -> SUBSET Deliveries] /\ buffers'[c] = {d}
        /\ \A b \in Chats \ {c} : buffers'[b] = buffers[b]
    BY <2>1, <2>2 DEF Types
  <2>6. Types'
    BY <2>1, <2>4, <2>5, QuietTypes DEF Types, shutdown
  <2>7. Buffered'
    <3>1. \A e \in Deliveries : pc'[e] # "absent" => msg'[e] \in Messages
      BY <2>1, <2>3 DEF Buffered
    <3>2. ASSUME NEW b \in Chats, NEW e \in buffers'[b] PROVE pc'[e] = "buffered" /\ ChatOf[msg'[e]] = b
      <4>1. CASE b = c
        BY <2>1, <2>3, <2>5, <3>2, <4>1 DEF Chat
      <4>2. CASE b # c
        <5>1. e \in buffers[b] /\ e \in Deliveries
          BY <2>5, <3>2, <4>2 DEF Types
        <5>2. pc[e] = "buffered" /\ ChatOf[msg[e]] = b /\ e # d
          BY <2>1, <5>1 DEF Buffered, Chat
        <5>3. e \notin buffers[c]
          BY <2>2, <4>2, <5>2 DEF Buffered, Chat
        <5> QED BY <2>1, <2>3, <5>1, <5>2, <5>3
      <4> QED BY <4>1, <4>2
    <3> QED BY <3>1, <3>2 DEF Buffered, Chat
  <2> HIDE DEF c
  <2>8. Quiet
    BY <2>1, <2>3, SettledPlaces DEF Quiet, Settled
  <2> QED BY <2>6, <2>7, <2>8
<1>2. CASE Continue(d)
  <2>1. /\ pc[d] = "batched" /\ pc' = [pc EXCEPT ![d] = FirstStage(msg[d])]
        /\ FirstStage(msg[d]) \in {"dropped", "storing"}
        /\ after' = [after EXCEPT ![d] = None] /\ recent' = Remembering(msg[d])
        /\ UNCHANGED <<msg, buffers, history, queue, offsets, shutdown>>
    BY <1>2 DEF Continue, FirstStage
  <2>2. msg[d] \in Messages
    BY <2>1 DEF Buffered
  <2>3. pc' \in [Deliveries -> Stages] /\ pc'[d] \in {"dropped", "storing"}
        /\ \A e \in Deliveries \ {d} : pc'[e] = pc[e] /\ after'[e] = after[e]
    BY <2>1, Places DEF Types
  <2>4. Types'
    BY <2>1, <2>2, <2>3, RememberingFits, QuietTypes DEF Types, shutdown
  <2>5. Buffered'
    BY <2>1, <2>3 DEF Buffered, Chat, Types
  <2>6. Quiet
    BY <2>1, <2>3, SettledPlaces DEF Quiet, Settled
  <2> QED BY <2>4, <2>5, <2>6
<1>3. CASE Ignore(d) \/ Turned(d)
  <2>1. /\ pc[d] = "storing" /\ pc' = [pc EXCEPT ![d] = "dropped"]
        /\ UNCHANGED <<msg, after, debouncer, queue, offsets, shutdown>>
        /\ \/ history' = history
           \/ MayIgnore(d) /\ history' = Noted(Chat(d), msg[d])
    BY <1>3 DEF Ignore, Turned, Note
  <2>2. msg[d] \in Messages /\ Chat(d) \in Chats
    BY <2>1, Constants DEF Buffered, Chat
  <2>3. pc' \in [Deliveries -> Stages] /\ pc'[d] = "dropped"
        /\ \A e \in Deliveries \ {d} : pc'[e] = pc[e]
    BY <2>1, Places DEF Types
  <2>4. /\ history' \in [Chats -> Seq(Messages)] /\ \A c \in Chats : Len(history'[c]) <= MaxHistory
        /\ \A c \in Chats : \A m \in Elements(history'[c]) :
             \/ m \in Elements(history[c])
             \/ MayIgnore(d) /\ c = Chat(d) /\ m = msg[d]
    <3>1. CASE history' = history
      BY <3>1 DEF Types
    <3>2. CASE MayIgnore(d) /\ history' = Noted(Chat(d), msg[d])
      <4>1. /\ history' \in [Chats -> Seq(Messages)]
            /\ \A b \in Chats \ {Chat(d)} : history'[b] = history[b]
            /\ Len(history'[Chat(d)]) <= MaxHistory
            /\ Elements(history'[Chat(d)]) \subseteq Elements(history[Chat(d)]) \cup {msg[d]}
        <5>1. Types
          OBVIOUS
        <5>3. PICK c \in Chats, m \in Messages : c = Chat(d) /\ m = msg[d]
          BY <2>2
        <5>4. history' = Noted(c, m)
          BY <3>2, <5>3
        <5>4a. Elements(history'[c]) = Elements(Noted(c, m)[c])
          BY <5>4 DEF Elements
        <5>4b. /\ Noted(c, m) \in [Chats -> Seq(Messages)]
               /\ \A b \in Chats \ {c} : Noted(c, m)[b] = history[b]
               /\ Len(Noted(c, m)[c]) <= MaxHistory
               /\ Elements(Noted(c, m)[c]) \subseteq Elements(history[c]) \cup {m}
          BY <5>1, NotedFits
        <5>5. /\ history' \in [Chats -> Seq(Messages)]
              /\ \A b \in Chats \ {c} : history'[b] = history[b]
              /\ Len(history'[c]) <= MaxHistory
              /\ Elements(history'[c]) \subseteq Elements(history[c]) \cup {m}
          BY <5>4, <5>4a, <5>4b
        <5> QED BY <5>3, <5>5
      <4> QED BY <3>2, <4>1 DEF Types
    <3> QED BY <2>1, <3>1, <3>2
  <2>5. \A c \in Chats : \A m \in Elements(history'[c]) :
          m \in Elements(history[c]) \/ m \notin Addressed \/ m <= offset[c]
    BY <2>4 DEF MayIgnore, Processed
  <2>6. Types'
    BY <2>1, <2>3, <2>4, QuietTypes DEF Types, debouncer, shutdown
  <2>7. Buffered'
    BY <2>1, <2>3 DEF Buffered, Chat, Types, debouncer
  <2>8. Quiet
    BY <2>1, <2>3, <2>5, SettledPlaces DEF Quiet, Settled
  <2> QED BY <2>6, <2>7, <2>8
<1> QED BY <1>1, <1>2, <1>3

-----------------------------------------------------------------------------
(* Steps of the chat queue, by what they do to one delivery.               *)
Moves(d, from, to) ==
  /\ pc[d] \in from /\ pc'[d] \in to
  /\ \A e \in Deliveries \ {d} : pc'[e] = pc[e]

(* The end of a task, which may give its slot to another one.              *)
Ends(d, to) ==
  /\ pc[d] \in {"started", "turn"} /\ pc'[d] = to
  /\ \A e \in Deliveries \ {d} : pc'[e] = pc[e] \/ (pc[e] = "waiting" /\ pc'[e] = "started")

Lined ==
  /\ \A i \in DOMAIN waiting : pc[waiting[i]] = "waiting"
  /\ \A i, j \in DOMAIN waiting : waiting[i] = waiting[j] => i = j
Counted ==
  /\ active = Cardinality(At({"started", "turn"})) /\ active <= MaxConcurrent
  /\ pending = Cardinality(At(Queued)) /\ pending <= MaxPending
  /\ waiting # <<>> => active = MaxConcurrent
Slots == Lined /\ Counted

LEMMA Counting ==
  ASSUME NEW s \in SUBSET Deliveries
  PROVE  /\ Cardinality(s) \in Nat
         /\ \A d \in Deliveries : d \notin s => Cardinality(s \cup {d}) = Cardinality(s) + 1
         /\ \A d \in s : Cardinality(s \ {d}) = Cardinality(s) - 1 /\ Cardinality(s) >= 1
<1>1. IsFiniteSet(Deliveries)
  <2>1. 1 \in Int /\ MaxDeliveries \in Int
    BY Constants
  <2> QED BY <2>1, FS_Interval DEF Deliveries
<1>2. IsFiniteSet(s) /\ Cardinality(s) \in Nat
  BY <1>1, FS_Subset, FS_CardinalityType
<1>3. ASSUME NEW d \in s PROVE Cardinality(s \ {d}) = Cardinality(s) - 1 /\ Cardinality(s) >= 1
  <2>1. Cardinality(s \ {d}) = Cardinality(s) - 1
    BY <1>2, FS_RemoveElement
  <2>2. IsFiniteSet(s \ {d}) /\ Cardinality(s \ {d}) \in Nat
    BY <1>2, FS_Subset, FS_CardinalityType
  <2> QED BY <1>2, <2>1, <2>2
<1> QED BY <1>2, <1>3, FS_AddElement

(* The queue gains nobody, or one delivery.                                *)
LEMMA AtMoves ==
  ASSUME NEW d \in Deliveries, NEW places, \A e \in Deliveries \ {d} : pc'[e] \in places <=> pc[e] \in places
  PROVE  /\ At(places) \in SUBSET Deliveries
         /\ pc[d] \in places /\ pc'[d] \in places => At(places)' = At(places)
         /\ pc[d] \notin places /\ pc'[d] \notin places => At(places)' = At(places)
         /\ pc[d] \notin places /\ pc'[d] \in places =>
              At(places)' = At(places) \cup {d} /\ d \notin At(places)
         /\ pc[d] \in places /\ pc'[d] \notin places =>
              At(places)' = At(places) \ {d} /\ d \in At(places)
BY DEF At

LEMMA EnqueueSlots ==
  ASSUME Sound, Slots, NEW d \in Deliveries, Enqueue(d)
  PROVE  /\ Sound' /\ Slots' /\ Moves(d, {"storing"}, {"chained"})
         /\ UNCHANGED <<msg, history, offsets>>
<1> USE DEF Sound
<1>1. /\ pc[d] = "storing" /\ pending < MaxPending /\ pending' = pending + 1
      /\ pc' = [pc EXCEPT ![d] = "chained"]
      /\ after' = [after EXCEPT ![d] = chains[Chat(d)]]
      /\ chains' = [chains EXCEPT ![Chat(d)] = d]
      /\ UNCHANGED <<msg, debouncer, history, active, waiting, offsets, shutdown>>
  BY DEF Enqueue, EnqueueUnnoted
<1>2. Chat(d) \in Chats
  BY <1>1, Constants DEF Buffered, Chat
<1>3. pc' \in [Deliveries -> Stages] /\ Moves(d, {"storing"}, {"chained"})
  BY <1>1, Places DEF Types, Moves
<1>4. Types'
  BY <1>1, <1>2, <1>3 DEF Types, debouncer, offsets, shutdown
<1>5. Buffered'
  BY <1>1, <1>3 DEF Buffered, Chat, Types, debouncer, Moves
<1>6. Lined'
  BY <1>1, <1>3 DEF Slots, Lined, Moves, Types
<1>7. Counted'
  <2>1. At({"started", "turn"})' = At({"started", "turn"})
    BY <1>3, AtMoves DEF Moves
  <2>2. At(Queued)' = At(Queued) \cup {d} /\ d \notin At(Queued) /\ At(Queued) \in SUBSET Deliveries
    BY <1>3, Places, AtMoves DEF Moves
  <2>3. Cardinality(At(Queued) \cup {d}) = Cardinality(At(Queued)) + 1
    BY <2>2, Counting
  <2>4. pending + 1 <= MaxPending
    BY <1>1, Constants DEF Types
  <2> QED BY <1>1, <2>1, <2>2, <2>3, <2>4 DEF Slots, Counted
<1> QED BY <1>1, <1>3, <1>4, <1>5, <1>6, <1>7 DEF Slots

LEMMA AcquireSlots ==
  ASSUME Sound, Slots, NEW d \in Deliveries, AcquireSlot(d)
  PROVE  /\ Sound' /\ Slots' /\ Moves(d, {"chained"}, {"started", "waiting"})
         /\ UNCHANGED <<msg, history, offsets>>
<1> USE DEF Sound
<1>1. /\ pc[d] = "chained" /\ after' = [after EXCEPT ![d] = None]
      /\ UNCHANGED <<msg, debouncer, history, chains, pending, offsets, shutdown>>
      /\ \/ /\ active < MaxConcurrent /\ active' = active + 1
            /\ pc' = [pc EXCEPT ![d] = "started"] /\ UNCHANGED waiting
         \/ /\ active >= MaxConcurrent /\ waiting' = Append(waiting, d)
            /\ pc' = [pc EXCEPT ![d] = "waiting"] /\ UNCHANGED active
  BY DEF AcquireSlot
<1>2. pc' \in [Deliveries -> Stages] /\ Moves(d, {"chained"}, {"started", "waiting"})
  BY <1>1, Places DEF Types, Moves
<1>3. Types'
  <2>1. waiting' \in Seq(Deliveries) /\ active' \in Nat
    <3>1. Append(waiting, d) \in Seq(Deliveries)
      BY DEF Types
    <3>2. active + 1 \in Nat /\ waiting \in Seq(Deliveries) /\ active \in Nat
      BY DEF Types
    <3> QED BY <1>1, <3>1, <3>2
  <2>2. after' \in [Deliveries -> Deliveries \cup {None}]
    BY <1>1 DEF Types
  <2> QED BY <1>1, <1>2, <2>1, <2>2 DEF Types, debouncer, offsets, shutdown
<1>4. Buffered'
  BY <1>1, <1>2 DEF Buffered, Chat, Types, debouncer, Moves
<1>5. waiting \in Seq(Deliveries) /\ Len(waiting) \in Nat /\ DOMAIN waiting = 1 .. Len(waiting)
  BY DEF Types
<1>5a. \A i \in 1 .. Len(waiting) : waiting[i] \in Deliveries \ {d} /\ pc'[waiting[i]] = "waiting"
  <2>1. \A i \in 1 .. Len(waiting) : waiting[i] \in Deliveries /\ pc[waiting[i]] = "waiting"
    BY <1>5 DEF Slots, Lined
  <2> QED BY <1>1, <1>2, <2>1 DEF Moves
<1>6. Lined'
  <2>1. CASE UNCHANGED waiting
    BY <1>5, <1>5a, <2>1 DEF Slots, Lined
  <2>2. CASE waiting' = Append(waiting, d) /\ pc' = [pc EXCEPT ![d] = "waiting"]
    <3>1. /\ DOMAIN waiting' = 1 .. Len(waiting) + 1 /\ waiting'[Len(waiting) + 1] = d
          /\ \A i \in 1 .. Len(waiting) : waiting'[i] = waiting[i]
      BY <1>5, <2>2
    <3>2. \A i \in 1 .. Len(waiting) + 1 : i \in 1 .. Len(waiting) \/ i = Len(waiting) + 1
      BY <1>5
    <3>4. pc'[d] = "waiting"
      BY <2>2 DEF Types
    <3>5. \A i, j \in 1 .. Len(waiting) : waiting[i] = waiting[j] => i = j
      BY <1>5 DEF Slots, Lined
    <3>6. \A i \in 1 .. Len(waiting) : waiting'[i] # d /\ pc'[waiting'[i]] = "waiting"
      BY <1>5a, <3>1
    <3>7. \A i \in 1 .. Len(waiting) + 1 : pc'[waiting'[i]] = "waiting"
      BY <3>1, <3>2, <3>4, <3>6
    <3>8. \A i, j \in 1 .. Len(waiting) + 1 : waiting'[i] = waiting'[j] => i = j
      BY <3>1, <3>2, <3>5, <3>6
    <3> QED BY <3>1, <3>7, <3>8 DEF Lined
  <2> QED BY <1>1, <2>1, <2>2
<1>7. Counted'
  <2>1. At(Queued)' = At(Queued)
    BY <1>2, Places, AtMoves DEF Moves
  <2>2. CASE active < MaxConcurrent /\ active' = active + 1 /\ pc' = [pc EXCEPT ![d] = "started"] /\ UNCHANGED waiting
    <3>1. pc'[d] = "started"
      BY <2>2 DEF Types
    <3>2. /\ At({"started", "turn"})' = At({"started", "turn"}) \cup {d}
          /\ d \notin At({"started", "turn"}) /\ At({"started", "turn"}) \in SUBSET Deliveries
      BY <1>1, <1>2, <3>1, AtMoves DEF Moves
    <3>3. Cardinality(At({"started", "turn"}) \cup {d}) = Cardinality(At({"started", "turn"})) + 1
      BY <3>2, Counting
    <3>4. active + 1 <= MaxConcurrent /\ waiting = <<>>
      BY <2>2, Constants DEF Types, Slots, Counted
    <3> QED BY <1>1, <2>1, <2>2, <3>2, <3>3, <3>4 DEF Slots, Counted
  <2>3. CASE active >= MaxConcurrent /\ pc' = [pc EXCEPT ![d] = "waiting"] /\ UNCHANGED active
    <3>1. pc'[d] = "waiting"
      BY <2>3 DEF Types
    <3>2. At({"started", "turn"})' = At({"started", "turn"})
      BY <1>1, <1>2, <3>1, AtMoves DEF Moves
    <3>3. active = MaxConcurrent
      BY <2>3, Constants DEF Types, Slots, Counted
    <3> QED BY <1>1, <2>1, <2>3, <3>2, <3>3 DEF Slots, Counted
  <2> QED BY <1>1, <2>2, <2>3
<1> QED BY <1>1, <1>2, <1>3, <1>4, <1>6, <1>7 DEF Slots

LEMMA StartSlots ==
  ASSUME Sound, Slots, NEW d \in Deliveries, StartTurn(d)
  PROVE  /\ Sound' /\ Slots' /\ Moves(d, {"started"}, {"turn"})
         /\ history' = [history EXCEPT ![Chat(d)] = <<>>]
         /\ UNCHANGED <<msg, offsets, after, chains>> /\ Chat(d) \in Chats
<1> USE DEF Sound
<1>1. /\ pc[d] = "started" /\ pc' = [pc EXCEPT ![d] = "turn"]
      /\ history' = [history EXCEPT ![Chat(d)] = <<>>]
      /\ UNCHANGED <<msg, after, debouncer, queue, offsets, shutdown>>
  BY DEF StartTurn, StartTurnUnchecked
<1>2. Chat(d) \in Chats
  BY <1>1, Constants DEF Buffered, Chat
<1>3. pc' \in [Deliveries -> Stages] /\ Moves(d, {"started"}, {"turn"})
  BY <1>1, Places DEF Types, Moves
<1>4. history' \in [Chats -> Seq(Messages)] /\ \A c \in Chats : Len(history'[c]) <= MaxHistory
  BY <1>1, <1>2, Constants DEF Types
<1>5. Types'
  BY <1>1, <1>3, <1>4 DEF Types, debouncer, queue, offsets, shutdown
<1>6. Buffered'
  BY <1>1, <1>3 DEF Buffered, Chat, Types, debouncer, Moves
<1>7. Lined'
  BY <1>1, <1>3 DEF Slots, Lined, Moves, Types, queue
<1>8. At(Queued)' = At(Queued) /\ At({"started", "turn"})' = At({"started", "turn"})
  BY <1>3, Places, AtMoves DEF Moves
<1>9. Counted'
  BY <1>1, <1>8 DEF Slots, Counted, queue
<1> QED BY <1>1, <1>2, <1>3, <1>5, <1>6, <1>7, <1>9 DEF Slots, queue

(* EndTask, whatever becomes of the history and the offsets.               *)
LEMMA EndSlots ==
  ASSUME Sound, Slots, NEW d \in Deliveries, NEW to \in Ended, pc[d] \in {"started", "turn"}, EndTask(d, to),
         history' \in [Chats -> Seq(Messages)], \A c \in Chats : Len(history'[c]) <= MaxHistory,
         offset' \in [Chats -> Messages \cup {0}], saved' \in [Chats -> Messages \cup {0}]
  PROVE  /\ Sound' /\ Slots' /\ Ends(d, to) /\ UNCHANGED <<msg, after>>
         /\ chains' = [chains EXCEPT ![Chat(d)] = IF @ = d THEN None ELSE @] /\ Chat(d) \in Chats
<1> USE DEF Sound
<1>1. /\ pending' = pending - 1
      /\ chains' = [chains EXCEPT ![Chat(d)] = IF @ = d THEN None ELSE @]
      /\ UNCHANGED <<msg, after, debouncer, shutdown>>
      /\ \/ /\ waiting = <<>> /\ active' = active - 1
            /\ pc' = [pc EXCEPT ![d] = to] /\ UNCHANGED waiting
         \/ /\ waiting # <<>> /\ active' = active
            /\ pc' = [pc EXCEPT ![d] = to, ![Head(waiting)] = "started"]
            /\ waiting' = Tail(waiting)
  BY DEF EndTask, ReleaseSlot, ReleaseSlotTo, Unchain
<1>2. Chat(d) \in Chats
  BY Constants DEF Buffered, Chat
<1>3. to \in Stages /\ to \notin Queued /\ to # "buffered" /\ to # "absent"
  BY Places
<1>4. /\ At({"started", "turn"}) \in SUBSET Deliveries /\ d \in At({"started", "turn"})
      /\ At(Queued) \in SUBSET Deliveries /\ d \in At(Queued)
  BY Places DEF At
<1>5. /\ Cardinality(At({"started", "turn"}) \ {d}) = active - 1 /\ active >= 1
      /\ Cardinality(At(Queued) \ {d}) = pending - 1 /\ pending >= 1
  <2>1. active = Cardinality(At({"started", "turn"})) /\ pending = Cardinality(At(Queued))
    BY DEF Slots, Counted
  <2>2. /\ Cardinality(At({"started", "turn"}) \ {d}) = Cardinality(At({"started", "turn"})) - 1
        /\ Cardinality(At({"started", "turn"})) >= 1
    BY <1>4, Counting
  <2>3. /\ Cardinality(At(Queued) \ {d}) = Cardinality(At(Queued)) - 1
        /\ Cardinality(At(Queued)) >= 1
    BY <1>4, Counting
  <2> QED BY <2>1, <2>2, <2>3
<1>6. /\ active' \in Nat /\ pending' \in Nat /\ active' <= MaxConcurrent /\ pending' <= MaxPending
  <2>1. /\ active \in Nat /\ pending \in Nat /\ active >= 1 /\ pending >= 1
        /\ active <= MaxConcurrent /\ pending <= MaxPending
    BY <1>5 DEF Types, Slots, Counted
  <2>2. pending' = pending - 1 /\ active' \in {active, active - 1}
    BY <1>1
  <2>3. MaxConcurrent \in Nat /\ MaxPending \in Nat
    BY Constants
  <2> QED BY <2>1, <2>2, <2>3
<1>7. chains' \in [Chats -> Deliveries \cup {None}]
  BY <1>1, <1>2 DEF Types
<1>8. CASE waiting = <<>>
  <2>1. active' = active - 1 /\ pc' = [pc EXCEPT ![d] = to] /\ waiting' = waiting
    BY <1>1, <1>8
  <2>2. /\ pc' \in [Deliveries -> Stages] /\ pc'[d] = to
        /\ \A e \in Deliveries \ {d} : pc'[e] = pc[e]
    BY <1>3, <2>1 DEF Types
  <2>3. Ends(d, to)
    BY <2>2 DEF Ends
  <2>4. Types'
    BY <1>1, <1>6, <1>7, <2>1, <2>2 DEF Types, debouncer, shutdown
  <2>5. Buffered'
    BY <1>1, <1>3, <2>2 DEF Buffered, Chat, Types, debouncer
  <2>6. Lined'
    BY <1>8, <2>1 DEF Lined
  <2>7. Counted'
    <3>1. /\ At({"started", "turn"})' = At({"started", "turn"}) \ {d}
          /\ At(Queued)' = At(Queued) \ {d}
      BY <1>3, <2>2, Places DEF At
    <3> QED BY <1>1, <1>5, <1>6, <1>8, <2>1, <3>1 DEF Counted
  <2> QED BY <1>1, <1>2, <2>3, <2>4, <2>5, <2>6, <2>7 DEF Slots
<1>9. CASE waiting # <<>>
  <2> DEFINE h == Head(waiting)
  <2>1. active' = active /\ waiting' = Tail(waiting) /\ pc' = [pc EXCEPT ![d] = to, ![h] = "started"]
    BY <1>1, <1>9
  <2>2. /\ Len(waiting) \in Nat /\ Len(waiting) >= 1 /\ DOMAIN waiting = 1 .. Len(waiting)
        /\ h = waiting[1] /\ h \in Deliveries
        /\ waiting' \in Seq(Deliveries) /\ DOMAIN waiting' = 1 .. Len(waiting) - 1
        /\ \A i \in 1 .. Len(waiting) - 1 : /\ waiting'[i] = waiting[i + 1] /\ i + 1 \in DOMAIN waiting
                                            /\ i + 1 # 1 /\ 1 \in DOMAIN waiting /\ i + 1 \in Nat
    BY <1>9, <2>1 DEF Types
  <2>3. pc[h] = "waiting" /\ h # d
    BY <2>2 DEF Slots, Lined
  <2> HIDE DEF h
  <2>4. /\ pc' \in [Deliveries -> Stages] /\ pc'[d] = to /\ pc'[h] = "started"
        /\ \A e \in Deliveries \ {d, h} : pc'[e] = pc[e]
    BY <1>3, <2>1, <2>2, <2>3, Places DEF Types
  <2>5. Ends(d, to)
    BY <2>3, <2>4 DEF Ends
  <2>6. Types'
    BY <1>1, <1>6, <1>7, <2>1, <2>2, <2>4 DEF Types, debouncer, shutdown
  <2>7. Buffered'
    <3>1. \A e \in Deliveries : pc'[e] # "absent" => msg[e] \in Messages
      BY <2>3, <2>4 DEF Buffered
    <3>2. \A c \in Chats : \A e \in buffers[c] : e \in Deliveries \ {d, h} /\ pc[e] = "buffered" /\ ChatOf[msg[e]] = c
      BY <2>3 DEF Buffered, Chat, Types
    <3> QED BY <1>1, <2>4, <3>1, <3>2 DEF Buffered, Chat, debouncer
  <2>8. Lined'
    <3>1. \A i, j \in DOMAIN waiting : waiting[i] = waiting[j] => i = j
      BY DEF Slots, Lined
    <3>2. \A i \in DOMAIN waiting' : waiting'[i] \in Deliveries \ {d, h} /\ pc[waiting'[i]] = "waiting"
      <4>1. ASSUME NEW i \in 1 .. Len(waiting) - 1 PROVE waiting[i + 1] \in Deliveries \ {d, h} /\ pc[waiting[i + 1]] = "waiting"
        <5>1. pc[waiting[i + 1]] = "waiting" /\ waiting[i + 1] # h
          BY <2>2, <3>1 DEF Slots, Lined
        <5>2. waiting[i + 1] \in Deliveries
          BY <2>2 DEF Types
        <5> QED BY <5>1, <5>2
      <4> QED BY <2>2, <4>1
    <3>3. \A i, j \in DOMAIN waiting' : waiting'[i] = waiting'[j] => i = j
      <4>1. ASSUME NEW i \in 1 .. Len(waiting) - 1, NEW j \in 1 .. Len(waiting) - 1, waiting'[i] = waiting'[j]
            PROVE  i = j
        <5>1. /\ i + 1 \in DOMAIN waiting /\ waiting'[i] = waiting[i + 1]
              /\ j + 1 \in DOMAIN waiting /\ waiting'[j] = waiting[j + 1]
          BY <2>2, <4>1
        <5>2. i + 1 = j + 1
          BY <3>1, <4>1, <5>1
        <5> QED BY <5>2
      <4> QED BY <2>2, <4>1
    <3> QED BY <2>4, <3>2, <3>3 DEF Lined
  <2>9. Counted'
    <3>1. At(Queued)' = At(Queued) \ {d}
      BY <1>3, <2>2, <2>3, <2>4, Places DEF At
    <3>2. /\ At({"started", "turn"})' = (At({"started", "turn"}) \ {d}) \cup {h}
          /\ h \notin At({"started", "turn"})
      BY <1>3, <2>2, <2>3, <2>4, Places DEF At
    <3>3. Cardinality((At({"started", "turn"}) \ {d}) \cup {h}) = active - 1 + 1
      <4>1. At({"started", "turn"}) \ {d} \in SUBSET Deliveries /\ h \notin At({"started", "turn"}) \ {d}
        BY <1>4, <3>2
      <4> QED BY <1>5, <2>2, <4>1, Counting
    <3>4. active = MaxConcurrent
      BY <1>9 DEF Slots, Counted
    <3>5. active - 1 + 1 = active
      BY DEF Types
    <3> QED BY <1>1, <1>5, <1>6, <2>1, <3>1, <3>2, <3>3, <3>4, <3>5 DEF Counted
  <2> QED BY <1>1, <1>2, <2>5, <2>6, <2>7, <2>8, <2>9 DEF Slots
<1> QED BY <1>8, <1>9

-----------------------------------------------------------------------------
(* The chains.  The queued deliveries of a chat are ranked in the order in *)
(* which they were enqueued; all but the first are chained behind one that *)
(* is queued too, and the chain of the chat names the last one.            *)
Ranked(r) ==
  \A d \in At(Queued) :
    /\ chains[Chat(d)] \in At(Queued)
    /\ Chat(chains[Chat(d)]) = Chat(d)
    /\ r[d] <= r[chains[Chat(d)]]
    /\ \A e \in At(Queued) \ {d} : Chat(e) = Chat(d) =>
         /\ r[d] # r[e]
         /\ r[d] < r[e] => /\ pc[e] = "chained" /\ after[e] \in At(Queued)
                           /\ Chat(after[e]) = Chat(d)
                           /\ r[d] <= r[after[e]] /\ r[after[e]] < r[e]
Chained == \E r \in [Deliveries -> Nat] : Ranked(r)

(* The offset of a chat covers what is answered, not the turn under way.   *)
Answers ==
  \A d \in Deliveries :
    /\ pc[d] = "answered" => msg[d] <= offset[Chat(d)]
    /\ pc[d] = "turn" => msg[d] > offset[Chat(d)]

Inv == Sound /\ Slots /\ Chained /\ Answers /\ PromptIsNotContext

LEMMA AtPlaces == \A places : \A d : d \in At(places) <=> d \in Deliveries /\ pc[d] \in places
BY DEF At
LEMMA AtPlacesNext == \A places : \A d : d \in At(places)' <=> d \in Deliveries /\ pc'[d] \in places
BY DEF At

(* The first delivery of a chat in the queue: one that has left the chain, *)
(* or whose predecessor is over.                                           *)
LEMMA FirstInLine ==
  ASSUME NEW r \in [Deliveries -> Nat], Ranked(r), NEW d \in At(Queued),
         pc[d] # "chained" \/ Over(after[d])
  PROVE  \A e \in At(Queued) \ {d} : Chat(e) = Chat(d) => r[d] < r[e] /\ pc[e] = "chained"
<1> SUFFICES ASSUME NEW e \in At(Queued) \ {d}, Chat(e) = Chat(d)
             PROVE  r[d] < r[e] /\ pc[e] = "chained"
  OBVIOUS
<1>1. r[d] \in Nat /\ r[e] \in Nat /\ r[d] # r[e]
  BY AtPlaces DEF Ranked
<1>2. ~(r[e] < r[d])
  <2>1. SUFFICES ASSUME r[e] < r[d] PROVE FALSE
    OBVIOUS
  <2>2. pc[d] = "chained" /\ after[d] \in At(Queued)
    BY <2>1 DEF Ranked
  <2>3. after[d] # None /\ pc[after[d]] \notin Ended
    BY <2>2, AtPlaces, Constants, Places
  <2> QED BY <2>2, <2>3 DEF Over
<1>3. r[d] < r[e]
  BY <1>1, <1>2
<1> QED BY <1>3 DEF Ranked

LEMMA OneTask == Chained => OneTaskPerChat
<1> SUFFICES ASSUME Chained, NEW d \in At(Queued), NEW e \in At(Queued),
                    d # e, Chat(d) = Chat(e), pc[d] # "chained"
             PROVE  pc[e] = "chained"
  BY DEF OneTaskPerChat
<1>1. PICK r \in [Deliveries -> Nat] : Ranked(r)
  BY DEF Chained
<1> QED BY <1>1, FirstInLine

LEMMA QuietKeeps ==
  ASSUME Sound, Quiet, Slots, Chained, Answers, PromptIsNotContext
  PROVE  Slots' /\ Chained' /\ Answers' /\ PromptIsNotContext'
<1>0. UNCHANGED <<chains, active, waiting, pending, offset, saved>>
  BY DEF Quiet, queue, offsets
<1>1. \A d \in Deliveries : pc[d] \in Settled \/ pc'[d] \in Settled => pc'[d] = pc[d] /\ msg'[d] = msg[d]
  BY SettledPlaces DEF Quiet
<1>2. \A d \in Deliveries : pc[d] \in Queued => after'[d] = after[d]
  BY DEF Quiet
<1>3. /\ At(Queued)' = At(Queued) /\ At({"started", "turn"})' = At({"started", "turn"})
  <2>1. \A d \in Deliveries : /\ pc'[d] \in Queued <=> pc[d] \in Queued
                              /\ pc'[d] \in {"started", "turn"} <=> pc[d] \in {"started", "turn"}
    BY <1>1, Places DEF Settled
  <2> QED BY <2>1 DEF At
<1>4. Slots'
  <2>1. \A i \in DOMAIN waiting : pc'[waiting[i]] = "waiting"
    <3>1. \A i \in DOMAIN waiting : waiting[i] \in Deliveries /\ pc[waiting[i]] = "waiting"
      BY DEF Sound, Types, Slots, Lined
    <3> QED BY <1>1, <3>1, SettledPlaces
  <2> QED BY <1>0, <1>3, <2>1 DEF Slots, Lined, Counted
<1>5. Chained'
  <2>1. PICK r \in [Deliveries -> Nat] : Ranked(r)
    BY DEF Chained
  <2>2. \A d \in At(Queued) : pc'[d] = pc[d] /\ msg'[d] = msg[d] /\ after'[d] = after[d]
    BY <1>1, <1>2, AtPlaces DEF Settled
  <2>3. \A d \in At(Queued) : Chat(d)' = Chat(d)
    BY <2>2 DEF Chat
  <2>4. Ranked(r)'
    BY <1>0, <1>3, <2>1, <2>2 DEF Ranked, Chat
  <2> QED BY <2>4 DEF Chained
<1>6. Answers'
  BY <1>0, <1>1, SettledPlaces DEF Answers, Chat
<1>7. PromptIsNotContext'
  <2>1. \A c \in Chats : \A m \in Elements(history'[c]) :
          m \in Elements(history[c]) \/ m \notin Addressed \/ m <= offset[c]
    BY DEF Quiet
  <2>2. \A c \in Chats : \A m \in Elements(history[c]) : m \in Addressed => m <= offset[c]
    BY DEF PromptIsNotContext
  <2>3. \A c \in Chats : \A m \in Elements(history'[c]) : m \in Addressed => m <= offset'[c]
    BY <1>0, <2>1, <2>2
  <2> QED BY <2>3 DEF PromptIsNotContext
<1> QED BY <1>4, <1>5, <1>6, <1>7

(* A delivery that moves within the queue, the first of its chat.          *)
LEMMA RankKept ==
  ASSUME NEW r \in [Deliveries -> Nat], Ranked(r), UNCHANGED <<msg, chains>>,
         NEW first \in SUBSET At(Queued),
         \A d \in first : \A e \in At(Queued) \ {d} : Chat(e) = Chat(d) => r[d] < r[e],
         At(Queued)' = At(Queued),
         \A e \in At(Queued) \ first : pc'[e] = pc[e] /\ after'[e] = after[e]
  PROVE  Ranked(r)'
<1>1. \A e \in At(Queued) : r[e] \in Nat
  BY AtPlaces
<1>2. \A d, e \in At(Queued) : Chat(d) = Chat(e) /\ r[d] < r[e] => e \notin first
  BY <1>1
<1> QED BY <1>1, <1>2 DEF Ranked, Chat

LEMMA EnqueueKeeps ==
  ASSUME Inv, NEW d \in Deliveries, Enqueue(d)
  PROVE  Inv'
<1> USE DEF Inv
<1>1. /\ Sound' /\ Slots' /\ Moves(d, {"storing"}, {"chained"}) /\ UNCHANGED <<msg, history, offsets>>
  BY EnqueueSlots
<1>2. /\ pc[d] = "storing" /\ pc'[d] = "chained" /\ \A e \in Deliveries \ {d} : pc'[e] = pc[e]
  BY <1>1 DEF Moves
<1>3. msg[d] \in Messages /\ Chat(d) \in Chats
  BY <1>2, Constants DEF Sound, Buffered, Chat
<1>4. /\ after'[d] = chains[Chat(d)] /\ \A e \in Deliveries \ {d} : after'[e] = after[e]
      /\ chains'[Chat(d)] = d /\ \A c \in Chats \ {Chat(d)} : chains'[c] = chains[c]
  BY <1>3 DEF Enqueue, EnqueueUnnoted, Sound, Types
<1>5. Chained'
  <2>1. PICK r \in [Deliveries -> Nat] : Ranked(r)
    BY DEF Chained
  <2> DEFINE last == chains[Chat(d)]
             top == IF last = None THEN 0 ELSE r[last] + 1
  <2>2. last \in Deliveries \cup {None} /\ top \in Nat
    BY <1>3 DEF Sound, Types
  <2>3. PICK s \in [Deliveries -> Nat] : s[d] = top /\ \A e \in Deliveries \ {d} : s[e] = r[e]
    <3>1. [r EXCEPT ![d] = top] \in [Deliveries -> Nat]
      BY <2>2
    <3> QED BY <3>1
  <2>4. d \notin At(Queued) /\ At(Queued)' = At(Queued) \cup {d} /\ At(Queued) \subseteq Deliveries
    BY <1>2, Places DEF At
  <2>5. \A e \in At(Queued) : /\ e \in Deliveries \ {d} /\ pc'[e] = pc[e] /\ after'[e] = after[e]
                              /\ s[e] = r[e] /\ s[e] \in Nat /\ Chat(e) \in Chats
    <3>1. \A e \in At(Queued) : e \in Deliveries \ {d} /\ msg[e] \in Messages
      BY <2>4, AtPlaces, Places DEF Sound, Buffered
    <3> QED BY <1>2, <1>4, <2>3, <3>1, Constants DEF Chat
  <2>6. \A e \in At(Queued) : Chat(e) = Chat(d) =>
          last \in At(Queued) /\ Chat(last) = Chat(d) /\ r[e] <= r[last] /\ top = r[last] + 1 /\ r[last] \in Nat
    BY <2>1, <2>4, Constants DEF Ranked
  <2> HIDE DEF last, top
  <2>7. \A e \in At(Queued) : Chat(e) = Chat(d) => s[e] < top /\ s[e] <= s[last]
    BY <2>5, <2>6
  <2>8. after'[d] = last /\ pc'[d] = "chained"
    BY <1>2, <1>4 DEF last
  <2>9. ASSUME NEW a \in At(Queued) \cup {d}
        PROVE  /\ chains'[Chat(a)] \in At(Queued) \cup {d}
               /\ Chat(chains'[Chat(a)]) = Chat(a)
               /\ s[a] <= s[chains'[Chat(a)]]
               /\ \A e \in (At(Queued) \cup {d}) \ {a} : Chat(e) = Chat(a) =>
                    /\ s[a] # s[e]
                    /\ s[a] < s[e] => /\ pc'[e] = "chained" /\ after'[e] \in At(Queued) \cup {d}
                                      /\ Chat(after'[e]) = Chat(a)
                                      /\ s[a] <= s[after'[e]] /\ s[after'[e]] < s[e]
    <3>1. CASE a = d
      <4>1. chains'[Chat(a)] = d /\ s[a] = top /\ top \in Nat
        BY <1>4, <2>2, <2>3, <3>1
      <4>2. \A e \in At(Queued) : Chat(e) = Chat(a) => s[a] # s[e] /\ ~(s[a] < s[e])
        BY <2>2, <2>5, <2>7, <3>1, <4>1
      <4> QED BY <3>1, <4>1, <4>2
    <3>2. CASE a \in At(Queued)
      <4>1. /\ chains'[Chat(a)] \in At(Queued) \cup {d}
            /\ Chat(chains'[Chat(a)]) = Chat(a)
            /\ s[a] <= s[chains'[Chat(a)]]
        <5>1. CASE Chat(a) = Chat(d)
          BY <1>4, <2>2, <2>3, <2>5, <2>7, <3>2, <5>1
        <5>2. CASE Chat(a) # Chat(d)
          <6>1. chains'[Chat(a)] = chains[Chat(a)]
            BY <1>4, <2>5, <3>2, <5>2
          <6> QED BY <2>1, <2>5, <3>2, <6>1 DEF Ranked
        <5> QED BY <5>1, <5>2
      <4>2. ASSUME NEW e \in At(Queued) \ {a}, Chat(e) = Chat(a)
            PROVE  /\ s[a] # s[e]
                   /\ s[a] < s[e] => /\ pc'[e] = "chained" /\ after'[e] \in At(Queued) \cup {d}
                                     /\ Chat(after'[e]) = Chat(a)
                                     /\ s[a] <= s[after'[e]] /\ s[after'[e]] < s[e]
        <5>1. /\ r[a] # r[e]
              /\ r[a] < r[e] => /\ pc[e] = "chained" /\ after[e] \in At(Queued)
                                /\ Chat(after[e]) = Chat(a)
                                /\ r[a] <= r[after[e]] /\ r[after[e]] < r[e]
          BY <2>1, <3>2, <4>2 DEF Ranked
        <5> QED BY <2>5, <3>2, <4>2, <5>1
      <4>3. Chat(d) = Chat(a) =>
              /\ s[a] # s[d]
              /\ s[a] < s[d] => /\ pc'[d] = "chained" /\ after'[d] \in At(Queued) \cup {d}
                                /\ Chat(after'[d]) = Chat(a)
                                /\ s[a] <= s[after'[d]] /\ s[after'[d]] < s[d]
        <5>1. SUFFICES ASSUME Chat(d) = Chat(a)
                       PROVE  /\ s[a] # s[d] /\ last \in At(Queued) /\ Chat(last) = Chat(a)
                              /\ s[a] <= s[last] /\ s[last] < s[d]
          BY <2>8
        <5>2. last \in At(Queued) /\ Chat(last) = Chat(a)
          BY <2>6, <3>2, <5>1
        <5> QED BY <2>2, <2>3, <2>5, <2>7, <3>2, <5>1, <5>2
      <4> QED BY <4>1, <4>2, <4>3
    <3> QED BY <3>1, <3>2
  <2>10. Ranked(s)'
    BY <1>1, <2>4, <2>9 DEF Ranked, Chat
  <2> QED BY <2>3, <2>10 DEF Chained
<1>6. Answers'
  BY <1>1, <1>2 DEF Answers, Chat, offsets
<1>7. PromptIsNotContext'
  BY <1>1 DEF PromptIsNotContext, offsets
<1> QED BY <1>1, <1>5, <1>6, <1>7

LEMMA AcquireKeeps ==
  ASSUME Inv, NEW d \in Deliveries, AcquireSlot(d)
  PROVE  Inv'
<1> USE DEF Inv
<1>1. /\ Sound' /\ Slots' /\ Moves(d, {"chained"}, {"started", "waiting"})
      /\ UNCHANGED <<msg, history, offsets>>
  BY AcquireSlots
<1>2. /\ pc[d] = "chained" /\ pc'[d] \in {"started", "waiting"}
      /\ \A e \in Deliveries \ {d} : pc'[e] = pc[e]
  BY <1>1 DEF Moves
<1>3. /\ Over(after[d]) /\ \A e \in Deliveries \ {d} : after'[e] = after[e]
      /\ UNCHANGED chains
  BY DEF AcquireSlot, Sound, Types
<1>4. Chained'
  <2>1. PICK r \in [Deliveries -> Nat] : Ranked(r)
    BY DEF Chained
  <2>2. d \in At(Queued) /\ At(Queued)' = At(Queued) /\ \A e \in At(Queued) : e \in Deliveries
    BY <1>2, Places DEF At
  <2>3. \A e \in At(Queued) \ {d} : Chat(e) = Chat(d) => r[d] < r[e]
    BY <1>3, <2>1, <2>2, FirstInLine
  <2> DEFINE first == {d}
  <2>4. /\ first \in SUBSET At(Queued)
        /\ \A a \in first : \A e \in At(Queued) \ {a} : Chat(e) = Chat(a) => r[a] < r[e]
        /\ \A e \in At(Queued) \ first : pc'[e] = pc[e] /\ after'[e] = after[e]
    BY <1>2, <1>3, <2>2, <2>3
  <2> HIDE DEF first
  <2>5. Ranked(r)'
    BY <1>1, <1>3, <2>1, <2>2, <2>4, RankKept
  <2> QED BY <2>5 DEF Chained
<1>5. Answers'
  BY <1>1, <1>2 DEF Answers, Chat, offsets
<1>6. PromptIsNotContext'
  BY <1>1 DEF PromptIsNotContext, offsets
<1> QED BY <1>1, <1>4, <1>5, <1>6

LEMMA Unanswered ==
  ASSUME NEW offsetOf \in [Chats -> Messages \cup {0}], NEW c \in Chats, NEW m \in Messages,
         ~(m <= offsetOf[c])
  PROVE  m > offsetOf[c]
<1>1. m \in Nat /\ offsetOf[c] \in Nat
  BY Constants
<1> QED BY <1>1

LEMMA StartKeeps ==
  ASSUME Inv, NEW d \in Deliveries, StartTurn(d)
  PROVE  Inv'
<1> USE DEF Inv
<1>1. /\ Sound' /\ Slots' /\ Moves(d, {"started"}, {"turn"})
      /\ history' = [history EXCEPT ![Chat(d)] = <<>>]
      /\ UNCHANGED <<msg, offsets, after, chains>> /\ Chat(d) \in Chats
  BY StartSlots
<1>2. /\ pc[d] = "started" /\ pc'[d] = "turn" /\ \A e \in Deliveries \ {d} : pc'[e] = pc[e]
  BY <1>1 DEF Moves
<1>3. Chained'
  <2>1. PICK r \in [Deliveries -> Nat] : Ranked(r)
    BY DEF Chained
  <2>2. d \in At(Queued) /\ At(Queued)' = At(Queued) /\ \A e \in At(Queued) : e \in Deliveries
    BY <1>2, Places DEF At
  <2>3. \A e \in At(Queued) \ {d} : Chat(e) = Chat(d) => r[d] < r[e]
    BY <1>2, <2>1, <2>2, FirstInLine
  <2> DEFINE first == {d}
  <2>4. /\ first \in SUBSET At(Queued)
        /\ \A a \in first : \A e \in At(Queued) \ {a} : Chat(e) = Chat(a) => r[a] < r[e]
        /\ \A e \in At(Queued) \ first : pc'[e] = pc[e] /\ after'[e] = after[e]
    BY <1>1, <1>2, <2>2, <2>3
  <2> HIDE DEF first
  <2>5. Ranked(r)'
    BY <1>1, <2>1, <2>2, <2>4, RankKept
  <2> QED BY <2>5 DEF Chained
<1>4. Answers'
  <2>1. msg[d] > offset[Chat(d)]
    <3>1. ~(msg[d] <= offset[Chat(d)])
      BY DEF StartTurn, Processed
    <3>2. msg[d] \in Messages
      BY <1>2 DEF Sound, Buffered
    <3>3. offset \in [Chats -> Messages \cup {0}]
      BY DEF Sound, Types
    <3> QED BY <1>1, <3>1, <3>2, <3>3, Unanswered
  <2> QED BY <1>1, <1>2, <2>1 DEF Answers, Chat, offsets
<1>5. PromptIsNotContext'
  <2>1. \A c \in Chats : history'[c] = history[c] \/ history'[c] = <<>>
    BY <1>1 DEF Sound, Types
  <2>2. Elements(<<>>) = {}
    BY DEF Elements
  <2> QED BY <1>1, <2>1, <2>2 DEF PromptIsNotContext, offsets
<1> QED BY <1>1, <1>3, <1>4, <1>5

(* The end of a task, and what it does to the offsets: the mark of the     *)
(* chat moves to its message, or stays.                                    *)
WritesOffset(d) ==
  /\ offset' = [offset EXCEPT ![Chat(d)] = msg[d]]
  /\ saved' \in {offset', saved}

LEMMA TurnCases ==
  ASSUME Inv, NEW d \in Deliveries, SkipTurn(d) \/ EndTurn(d)
  PROVE  \E to \in Ended :
           /\ pc[d] \in {"started", "turn"} /\ EndTask(d, to)
           /\ \A c \in Chats : history'[c] \in {history[c], <<>>}
           /\ history' \in [Chats -> Seq(Messages)]
           /\ \/ UNCHANGED offsets /\ to # "answered"
              \/ pc[d] = "turn" /\ WritesOffset(d) /\ to = "answered"
<1> USE DEF Inv
<1>1. history \in [Chats -> Seq(Messages)] /\ <<>> \in Seq(Messages)
  BY DEF Sound, Types
<1>2. CASE SkipTurn(d)
  BY <1>1, <1>2, Places DEF SkipTurn
<1>3. CASE Fail(d)
  BY <1>1, <1>3, Places DEF Fail
<1>4. pc[d] = "turn" => msg[d] > offset[Chat(d)]
  BY DEF Answers
<1>5. CASE Answer(d)
  <2>1. pc[d] = "turn" /\ EndTask(d, "answered") /\ history' = [history EXCEPT ![Chat(d)] = <<>>] /\ WriteOffset(d)
    BY <1>5 DEF Answer
  <2>2. WritesOffset(d)
    BY <1>4, <2>1 DEF WriteOffset, WritesOffset
  <2>3. /\ \A c \in Chats : history'[c] \in {history[c], <<>>}
        /\ history' \in [Chats -> Seq(Messages)]
    BY <1>1, <2>1
  <2> QED BY <2>1, <2>2, <2>3, Places
<1>6. CASE Apologize(d)
  <2>1. pc[d] = "turn" /\ EndTask(d, "answered") /\ history' = history /\ WriteOffset(d)
    BY <1>6 DEF Apologize
  <2>2. WritesOffset(d)
    BY <1>4, <2>1 DEF WriteOffset, WritesOffset
  <2> QED BY <1>1, <2>1, <2>2, Places
<1> QED BY <1>2, <1>3, <1>5, <1>6 DEF EndTurn

LEMMA EndKeeps ==
  ASSUME Inv, NEW d \in Deliveries, SkipTurn(d) \/ EndTurn(d)
  PROVE  Inv'
<1> USE DEF Inv
<1>1. PICK to \in Ended :
        /\ pc[d] \in {"started", "turn"} /\ EndTask(d, to)
        /\ \A c \in Chats : history'[c] \in {history[c], <<>>}
        /\ history' \in [Chats -> Seq(Messages)]
        /\ \/ UNCHANGED offsets /\ to # "answered"
           \/ pc[d] = "turn" /\ WritesOffset(d) /\ to = "answered"
  BY TurnCases
<1>2. msg[d] \in Messages /\ Chat(d) \in Chats /\ msg[d] \in Nat
  BY <1>1, Constants DEF Sound, Buffered, Chat
<1>3. /\ offset' \in [Chats -> Messages \cup {0}] /\ saved' \in [Chats -> Messages \cup {0}]
  BY <1>1, <1>2 DEF WritesOffset, Sound, Types, offsets
<1>4. \A c \in Chats : Len(history'[c]) <= MaxHistory
  <2>1. Len(<<>>) <= MaxHistory
    BY Constants
  <2> QED BY <1>1, <2>1 DEF Sound, Types
<1>5. /\ Sound' /\ Slots' /\ Ends(d, to) /\ UNCHANGED <<msg, after>>
      /\ chains' = [chains EXCEPT ![Chat(d)] = IF @ = d THEN None ELSE @]
  BY <1>1, <1>3, <1>4, EndSlots
<1>6. /\ pc'[d] = to /\ to \in Ended
      /\ \A e \in Deliveries \ {d} : pc'[e] = pc[e] \/ (pc[e] = "waiting" /\ pc'[e] = "started")
  BY <1>5 DEF Ends
<1>7. d \in At(Queued) /\ At(Queued)' = At(Queued) \ {d} /\ \A e \in At(Queued) : e \in Deliveries
  BY <1>1, <1>6, Places DEF At
<1>8. Chained'
  <2>1. PICK r \in [Deliveries -> Nat] : Ranked(r)
    BY DEF Chained
  <2>2. \A e \in At(Queued) \ {d} : Chat(e) = Chat(d) => r[d] < r[e] /\ pc[e] = "chained"
    <3>1. pc[d] # "chained"
      BY <1>1
    <3> QED BY <1>7, <2>1, <3>1, FirstInLine
  <2>3. \A e \in Deliveries : r[e] \in Nat
    OBVIOUS
  <2>4. ASSUME NEW a \in At(Queued) \ {d}
        PROVE  /\ chains'[Chat(a)] \in At(Queued) \ {d}
               /\ Chat(chains'[Chat(a)]) = Chat(a)
               /\ r[a] <= r[chains'[Chat(a)]]
    <3>1. /\ chains[Chat(a)] \in At(Queued) /\ Chat(chains[Chat(a)]) = Chat(a)
          /\ r[a] <= r[chains[Chat(a)]]
      BY <2>1 DEF Ranked
    <3>2. chains[Chat(a)] # d
      BY <1>7, <2>2, <2>3, <3>1
    <3>3. Chat(a) \in Chats
      BY <1>7, AtPlaces, Places, Constants DEF Sound, Buffered, Chat
    <3>4. chains'[Chat(a)] = chains[Chat(a)]
      BY <1>2, <1>5, <3>2, <3>3 DEF Sound, Types
    <3> QED BY <3>1, <3>2, <3>4
  <2>5. ASSUME NEW a \in At(Queued) \ {d}, NEW e \in At(Queued) \ {d}, e # a, Chat(e) = Chat(a)
        PROVE  /\ r[a] # r[e]
               /\ r[a] < r[e] => /\ pc'[e] = "chained" /\ after[e] \in At(Queued) \ {d}
                                 /\ Chat(after[e]) = Chat(a)
                                 /\ r[a] <= r[after[e]] /\ r[after[e]] < r[e]
    <3>1. /\ r[a] # r[e]
          /\ r[a] < r[e] => /\ pc[e] = "chained" /\ after[e] \in At(Queued)
                            /\ Chat(after[e]) = Chat(a)
                            /\ r[a] <= r[after[e]] /\ r[after[e]] < r[e]
      BY <2>1, <2>5 DEF Ranked
    <3>2. r[a] < r[e] => after[e] # d
      BY <1>7, <2>2, <2>3, <3>1
    <3>3. pc[e] = "chained" => pc'[e] = "chained"
      BY <1>6, <1>7
    <3> QED BY <3>1, <3>2, <3>3
  <2>6. Ranked(r)'
    <3>1. At(Queued)' = At(Queued) \ {d} /\ after' = after /\ msg' = msg
      BY <1>5, <1>7
    <3>2. ASSUME NEW a \in At(Queued)'
          PROVE  /\ chains'[Chat(a)] \in At(Queued)'
                 /\ Chat(chains'[Chat(a)]) = Chat(a)
                 /\ r[a] <= r[chains'[Chat(a)]]
      BY <2>4, <3>1, <3>2
    <3>3. ASSUME NEW a \in At(Queued)', NEW e \in At(Queued)' \ {a}, Chat(e) = Chat(a)
          PROVE  /\ r[a] # r[e]
                 /\ r[a] < r[e] => /\ pc'[e] = "chained" /\ after'[e] \in At(Queued)'
                                   /\ Chat(after'[e]) = Chat(a)
                                   /\ r[a] <= r[after'[e]] /\ r[after'[e]] < r[e]
      BY <2>5, <3>1, <3>3
    <3> QED BY <3>1, <3>2, <3>3 DEF Ranked, Chat
  <2> QED BY <2>6 DEF Chained
<1>9. \A e \in Deliveries : pc[e] = "turn" /\ e # d => ~(pc[d] = "turn" /\ Chat(e) = Chat(d))
  <2>1. OneTaskPerChat
    BY OneTask
  <2> QED BY <2>1, AtPlaces, Places DEF OneTaskPerChat
<1>10. /\ \A c \in Chats : offset[c] <= offset'[c]
       /\ to = "answered" => msg[d] <= offset'[Chat(d)]
       /\ \A c \in Chats : offset'[c] # offset[c] => pc[d] = "turn" /\ c = Chat(d)
  <2>1. \A c \in Chats : offset[c] \in Nat
    BY Constants DEF Sound, Types
  <2>2. CASE UNCHANGED offsets /\ to # "answered"
    BY <2>1, <2>2 DEF offsets
  <2>3. CASE pc[d] = "turn" /\ WritesOffset(d) /\ to = "answered"
    <3>1. msg[d] > offset[Chat(d)]
      BY <2>3 DEF Answers
    <3>2. offset'[Chat(d)] = msg[d] /\ \A c \in Chats \ {Chat(d)} : offset'[c] = offset[c]
      BY <1>2, <2>3 DEF WritesOffset, Sound, Types
    <3> QED BY <1>2, <2>1, <2>3, <3>1, <3>2
  <2> QED BY <1>1, <2>2, <2>3
<1>11. Answers'
  <2>1. ASSUME NEW e \in Deliveries, pc'[e] \in {"answered", "turn"}
        PROVE  /\ pc'[e] = "answered" => msg[e] <= offset'[Chat(e)]
               /\ pc'[e] = "turn" => msg[e] > offset'[Chat(e)]
    <3>1. CASE e = d
      BY <1>6, <1>10, <3>1, Places
    <3>2. CASE e # d
      <4>1. pc'[e] = pc[e]
        BY <1>6, <2>1, <3>2
      <4>2. msg[e] \in Messages /\ msg[e] \in Nat /\ Chat(e) \in Chats
        BY <2>1, <4>1, Constants DEF Sound, Buffered, Chat
      <4>3. offset[Chat(e)] \in Nat /\ offset'[Chat(e)] \in Nat
        BY <1>3, <4>2, Constants DEF Sound, Types
      <4>4. /\ pc[e] = "answered" => msg[e] <= offset[Chat(e)]
            /\ pc[e] = "turn" => msg[e] > offset[Chat(e)]
        BY DEF Answers
      <4>5. pc[e] = "turn" => offset'[Chat(e)] = offset[Chat(e)]
        BY <1>9, <1>10, <3>2, <4>2
      <4> QED BY <1>10, <4>1, <4>2, <4>3, <4>4, <4>5
    <3> QED BY <3>1, <3>2
  <2> QED BY <1>5, <2>1 DEF Answers, Chat
<1>12. PromptIsNotContext'
  <2>1. Elements(<<>>) = {}
    BY DEF Elements
  <2>2. ASSUME NEW c \in Chats, NEW m \in Elements(history'[c]), m \in Addressed PROVE m <= offset'[c]
    <3>1. m \in Elements(history[c])
      <4>1. history'[c] = history[c] \/ history'[c] = <<>>
        BY <1>1
      <4> QED BY <2>1, <2>2, <4>1
    <3>2. m <= offset[c]
      BY <2>2, <3>1 DEF PromptIsNotContext
    <3>3. m \in Nat /\ offset[c] \in Nat /\ offset'[c] \in Nat
      <4>1. m \in Messages
        BY <2>2, PipelineAssumption
      <4> QED BY <1>3, <4>1, Constants DEF Sound, Types
    <3> QED BY <1>10, <3>2, <3>3
  <2> QED BY <2>2 DEF PromptIsNotContext
<1> QED BY <1>5, <1>8, <1>11, <1>12

LEMMA RestartKeeps ==
  ASSUME Inv, Restart
  PROVE  Inv'
<1> USE DEF Inv
<1>1. /\ restarts < MaxRestarts /\ restarts' = restarts + 1
      /\ pc' = [d \in Deliveries |->
                  IF pc[d] \in InWork \/ (pc[d] = "answered" /\ msg[d] > saved[Chat(d)]) THEN "gone" ELSE pc[d]]
      /\ after' = [d \in Deliveries |-> None] /\ buffers' = [c \in Chats |-> {}]
      /\ recent' = <<>> /\ history' = [c \in Chats |-> <<>>] /\ chains' = [c \in Chats |-> None]
      /\ active' = 0 /\ waiting' = <<>> /\ pending' = 0 /\ offset' = saved
      /\ stage' = "running" /\ toFlush' = {} /\ awaited' = {} /\ UNCHANGED <<msg, saved>>
  BY DEF Restart
<1>2. \A d \in Deliveries : /\ pc'[d] \in Stages /\ pc'[d] \notin Queued
                            /\ pc'[d] # "absent" => pc[d] # "absent"
                            /\ pc'[d] = "answered" => pc[d] = "answered" /\ ~(msg[d] > saved[Chat(d)])
  <2> SUFFICES ASSUME NEW d \in Deliveries
               PROVE  /\ pc'[d] \in Stages /\ pc'[d] \notin Queued
                      /\ pc'[d] # "absent" => pc[d] # "absent"
                      /\ pc'[d] = "answered" => pc[d] = "answered" /\ ~(msg[d] > saved[Chat(d)])
    OBVIOUS
  <2>1. pc[d] \in Stages /\ "gone" \in Stages /\ "gone" \notin Queued /\ "answered" \notin Queued
        /\ "absent" \notin InWork
    BY Places DEF Sound, Types, InWork
  <2>2. CASE pc[d] \in InWork \/ (pc[d] = "answered" /\ msg[d] > saved[Chat(d)])
    <3>1. pc'[d] = "gone"
      BY <1>1, <2>2
    <3> QED BY <2>1, <2>2, <3>1
  <2>3. CASE ~(pc[d] \in InWork \/ (pc[d] = "answered" /\ msg[d] > saved[Chat(d)]))
    <3>1. pc'[d] = pc[d]
      BY <1>1, <2>3
    <3> QED BY <2>1, <2>3, <3>1, Places
  <2> QED BY <2>2, <2>3
<1>3. Types'
  <2>1. recent' \in Seq(Messages) /\ Len(recent') <= MaxRecent /\ waiting' \in Seq(Deliveries)
    BY <1>1, Constants
  <2>2. history' \in [Chats -> Seq(Messages)] /\ \A c \in Chats : Len(history'[c]) <= MaxHistory
    BY <1>1, Constants
  <2>3. pc' \in [Deliveries -> Stages] /\ restarts' \in 0 .. MaxRestarts
    BY <1>1, <1>2, Constants DEF Sound, Types
  <2> QED BY <1>1, <2>1, <2>2, <2>3 DEF Sound, Types
<1>4. Buffered'
  BY <1>1, <1>2 DEF Sound, Buffered
<1>5. At(Queued)' = {} /\ At({"started", "turn"})' = {}
  BY <1>2, Places DEF At
<1>6. Slots'
  <2>1. Lined'
    BY <1>1 DEF Lined
  <2>2. Cardinality({}) = 0
    BY FS_EmptySet
  <2>3. Cardinality(At(Queued)') = 0 /\ Cardinality(At({"started", "turn"})') = 0
    BY <1>5, <2>2
  <2>4. active' = 0 /\ pending' = 0 /\ ~(waiting' # <<>>)
    BY <1>1
  <2>5. 0 <= MaxConcurrent /\ 0 <= MaxPending
    BY Constants
  <2>6. Counted'
    BY <2>3, <2>4, <2>5 DEF Counted
  <2> QED BY <2>1, <2>6 DEF Slots
<1>7. Chained'
  <2>1. [d \in Deliveries |-> 0] \in [Deliveries -> Nat]
    OBVIOUS
  <2> QED BY <1>5, <2>1 DEF Chained, Ranked
<1>8. Answers'
  <2>1. ASSUME NEW d \in Deliveries, pc'[d] = "answered" PROVE msg[d] <= saved[Chat(d)]
    <3>1. msg[d] \in Messages /\ Chat(d) \in Chats /\ ~(msg[d] > saved[Chat(d)])
      BY <1>2, <2>1, Constants DEF Sound, Buffered, Chat
    <3>2. msg[d] \in Nat /\ saved[Chat(d)] \in Nat
      BY <3>1, Constants DEF Sound, Types
    <3> QED BY <3>1, <3>2
  <2> QED BY <1>1, <1>2, <2>1, Places DEF Answers, Chat
<1>9. PromptIsNotContext'
  BY <1>1 DEF PromptIsNotContext, Elements
<1> QED BY <1>3, <1>4, <1>6, <1>7, <1>8, <1>9 DEF Sound

LEMMA StepSound == Inv /\ [Next]_vars => Inv'
<1> SUFFICES ASSUME Inv, [Next]_vars PROVE Inv'
  OBVIOUS
<1>0. Sound /\ Slots /\ Chained /\ Answers /\ PromptIsNotContext
  BY DEF Inv
<1>1. ASSUME Sound', Quiet PROVE Inv'
  BY <1>0, <1>1, QuietKeeps DEF Inv
<1>2. ASSUME NEW d \in Deliveries, Step(d) PROVE Inv'
  <2>1. CASE Rebuffer(d) \/ Continue(d) \/ Ignore(d) \/ Turned(d)
    BY <1>0, <1>1, <2>1, DeliveryQuiet
  <2>2. CASE Enqueue(d)
    BY <2>2, EnqueueKeeps
  <2>3. CASE AcquireSlot(d)
    BY <2>3, AcquireKeeps
  <2>4. CASE StartTurn(d)
    BY <2>4, StartKeeps
  <2>5. CASE SkipTurn(d) \/ EndTurn(d)
    BY <2>5, EndKeeps
  <2> QED BY <1>2, <2>1, <2>2, <2>3, <2>4, <2>5 DEF Step
<1>3. ASSUME NEW d \in Deliveries, NEW m \in Messages, Arrive(d, m) PROVE Inv'
  BY <1>0, <1>1, <1>3, ArriveQuiet
<1>4. ASSUME NEW c \in Chats, FlushTimer(c) PROVE Inv'
  BY <1>0, <1>1, <1>4, TimerQuiet
<1>5. CASE Stop
  BY <1>0, <1>1, <1>5, StopQuiet
<1>6. CASE Restart
  BY <1>6, RestartKeeps
<1>7. CASE UNCHANGED vars
  <2>1. UNCHANGED <<msg, pc, after, buffers, recent, history, queue, offsets, stage, toFlush, awaited, restarts>>
    BY <1>7 DEF vars, deliveries, debouncer, shutdown
  <2>2. Sound'
    BY <1>0, <2>1 DEF Sound, Types, Buffered, Chat, queue, offsets
  <2>3. Quiet
    BY <2>1 DEF Quiet
  <2> QED BY <1>1, <2>2, <2>3
<1> QED BY <1>2, <1>3, <1>4, <1>5, <1>6, <1>7 DEF Next

LEMMA InitSound == Init => Inv
<1> SUFFICES ASSUME Init PROVE Inv
  OBVIOUS
<1> USE DEF Init
<1>1. Types
  <2>1. recent \in Seq(Messages) /\ Len(recent) <= MaxRecent /\ waiting \in Seq(Deliveries)
    BY Constants
  <2>2. history \in [Chats -> Seq(Messages)] /\ \A c \in Chats : Len(history[c]) <= MaxHistory
    BY Constants
  <2> QED BY <2>1, <2>2, Constants, Places DEF Types
<1>2. \A d \in Deliveries : pc[d] = "absent"
  OBVIOUS
<1>3. Buffered
  BY <1>2 DEF Buffered
<1>4. At(Queued) = {} /\ At({"started", "turn"}) = {}
  BY <1>2, Places DEF At
<1>5. Slots
  <2>1. Lined
    BY DEF Lined
  <2>2. Cardinality({}) = 0
    BY FS_EmptySet
  <2>3. Cardinality(At(Queued)) = 0 /\ Cardinality(At({"started", "turn"})) = 0
    BY <1>4, <2>2
  <2>4. 0 <= MaxConcurrent /\ 0 <= MaxPending
    BY Constants
  <2>5. Counted
    BY <2>3, <2>4 DEF Counted
  <2> QED BY <2>1, <2>5 DEF Slots
<1>6. Chained
  <2>1. [d \in Deliveries |-> 0] \in [Deliveries -> Nat]
    OBVIOUS
  <2> QED BY <1>4, <2>1 DEF Chained, Ranked
<1>7. Answers
  BY <1>2 DEF Answers
<1>8. PromptIsNotContext
  BY DEF PromptIsNotContext, Elements
<1> QED BY <1>1, <1>3, <1>5, <1>6, <1>7, <1>8 DEF Inv, Sound

LEMMA InvHolds == Spec => []Inv
BY InitSound, StepSound, PTL DEF Spec

(* A delivery joins a buffer that has room, or begins a new one.           *)
BuffersFit == \A c \in Chats : Cardinality(buffers[c]) <= MaxBuffer

LEMMA SmallSets ==
  /\ MaxBuffer \in Nat
  /\ Cardinality({}) <= MaxBuffer
  /\ \A d : Cardinality({d}) <= MaxBuffer
<1>1. \A d : Cardinality({d}) = 1
  BY FS_Singleton
<1> QED BY <1>1, FS_EmptySet, PipelineAssumption

LEMMA BuffersStayInBounds == Inv /\ BuffersFit /\ [Next]_vars => BuffersFit'
<1> SUFFICES ASSUME Inv, BuffersFit, [Next]_vars, NEW c \in Chats
             PROVE  Cardinality(buffers'[c]) <= MaxBuffer
  BY DEF BuffersFit
<1>0. /\ buffers = [b \in Chats |-> buffers[b]] /\ MaxBuffer \in Nat
      /\ buffers[c] \subseteq Deliveries /\ Cardinality(buffers[c]) <= MaxBuffer
  BY SmallSets DEF Inv, Sound, Types, BuffersFit
<1>1. CASE buffers'[c] = buffers[c]
  BY <1>0, <1>1
<1>2. CASE buffers'[c] = {}
  BY <1>2, SmallSets
<1>3. CASE \E d \in Deliveries : buffers'[c] = {d}
  BY <1>3, SmallSets
<1>4. CASE \E d \in Deliveries : buffers'[c] = buffers[c] \cup {d} /\ Cardinality(buffers[c]) < MaxBuffer
  <2>1. PICK d \in Deliveries : buffers'[c] = buffers[c] \cup {d} /\ Cardinality(buffers[c]) < MaxBuffer
    BY <1>4
  <2>2. IsFiniteSet(Deliveries)
    BY FS_Interval, Constants DEF Deliveries
  <2>3. IsFiniteSet(buffers[c])
    BY <1>0, <2>2, FS_Subset
  <2>4. /\ Cardinality(buffers[c]) \in Nat
        /\ Cardinality(buffers'[c]) \in {Cardinality(buffers[c]), Cardinality(buffers[c]) + 1}
    BY <2>1, <2>3, FS_CardinalityType, FS_AddElement
  <2> QED BY <1>0, <2>1, <2>4
<1> DEFINE Fits == \/ buffers'[c] = buffers[c] \/ buffers'[c] = {}
                   \/ \E d \in Deliveries : buffers'[c] = {d}
                   \/ \E d \in Deliveries : buffers'[c] = buffers[c] \cup {d}
                                           /\ Cardinality(buffers[c]) < MaxBuffer
<1>5. \A b : Flushes(b) => Fits
  BY <1>0 DEF Flushes
<1>6. ASSUME NEW d \in Deliveries, NEW m \in Messages, Arrive(d, m) PROVE Fits
  <2>1. CASE ArriveBuffered(d, m)
    <3>1. /\ buffers' = [buffers EXCEPT ![ChatOf[m]] = @ \cup {d}]
          /\ Cardinality(buffers[ChatOf[m]]) < MaxBuffer
      BY <2>1 DEF ArriveBuffered
    <3> QED BY <1>0, <3>1
  <2> QED BY <1>5, <1>6, <2>1 DEF Arrive, ArriveAtOnce, ArriveFlushing
<1>7. ASSUME NEW d \in Deliveries, Step(d) PROVE Fits
  <2>1. CASE Rebuffer(d)
    <3>1. buffers' = [buffers EXCEPT ![Chat(d)] = {d}]
      BY <2>1 DEF Rebuffer
    <3> QED BY <1>0, <3>1
  <2>2. CASE ~Rebuffer(d)
    <3>1. UNCHANGED buffers
      BY <1>7, <2>2 DEF Step, Continue, Ignore, Turned, Enqueue, EnqueueUnnoted, AcquireSlot, StartTurn,
                        StartTurnUnchecked, SkipTurn, EndTurn, EndTask, Answer, Apologize, Fail, debouncer
    <3> QED BY <3>1
  <2> QED BY <2>1, <2>2
<1>8. ASSUME Stop PROVE Fits
  <2>1. UNCHANGED buffers \/ \E b \in Chats : Flushes(b)
    BY <1>8 DEF Stop, StopBegins, FlushAllBegins, DrainBegins, Disconnect, FlushAllNext, debouncer
  <2> QED BY <1>5, <2>1
<1>9. ASSUME NEW b \in Chats, FlushTimer(b) PROVE Fits
  BY <1>5, <1>9 DEF FlushTimer
<1>10. ASSUME Restart PROVE Fits
  BY <1>10 DEF Restart
<1>11. ASSUME UNCHANGED vars PROVE Fits
  BY <1>11 DEF vars, debouncer
<1>12. Fits
  BY <1>6, <1>7, <1>8, <1>9, <1>10, <1>11 DEF Next
<1> QED BY <1>1, <1>2, <1>3, <1>4, <1>12

LEMMA BuffersInBounds == Spec => []BuffersFit
<1>1. Init => BuffersFit
  BY SmallSets DEF Init, BuffersFit
<1> QED BY <1>1, InvHolds, BuffersStayInBounds, PTL DEF Spec

LEMMA InvGives == Inv => QueueExact /\ OneTaskPerChat /\ PromptIsNotContext
<1> SUFFICES ASSUME Inv PROVE QueueExact /\ OneTaskPerChat /\ PromptIsNotContext
  OBVIOUS
<1>1. QueueExact
  BY DEF Inv, Slots, Counted, QueueExact
<1> QED BY <1>1, OneTask DEF Inv

(* Messages, queues and offsets keep their types; the debounce buffers,    *)
(* the deduplication list, the pending history and the counters of the     *)
(* chat queue keep within their limits (debounce.ts, handlers.ts).         *)
THEOREM PipelineTypeCorrect == Spec => []TypeOK
<1>1. Inv /\ BuffersFit => TypeOK
  <2> SUFFICES ASSUME Inv, BuffersFit PROVE TypeOK
    OBVIOUS
  <2>1. active \in 0 .. MaxConcurrent /\ pending \in 0 .. MaxPending
    BY Constants DEF Inv, Sound, Types, Slots, Counted
  <2> QED BY <2>1 DEF Inv, Sound, Types, TypeOK, BuffersFit
<1> QED BY <1>1, InvHolds, BuffersInBounds, PTL

(* ChatQueue's counters count the tasks under way, also when a task hands  *)
(* its slot to one that waits, and nobody waits while a slot is free.      *)
THEOREM QueueCountsExactly == Spec => []QueueExact
BY InvHolds, InvGives, PTL

(* The promise chain of a chat lets one task at a time past it.            *)
THEOREM ChatsNeverInterleave == Spec => []OneTaskPerChat
BY InvHolds, InvGives, PTL

(* The pending history that goes into a prompt holds no message every      *)
(* event of which is for the agent, unless it was answered: such a message *)
(* is a prompt and not context (handlers.ts, pending-history.ts).          *)
THEOREM HistoryIsNotPrompted == Spec => []PromptIsNotContext
BY InvHolds, InvGives, PTL

-----------------------------------------------------------------------------
(* A turn begins beyond the offset of its chat.                            *)
LEMMA TurnsBegin ==
  ASSUME Inv, [Next]_vars, NEW d \in Deliveries, pc[d] # "turn", pc'[d] = "turn"
  PROVE  StartTurn(d)
<1> USE DEF Inv
<1>1. ~Quiet
  BY SettledPlaces DEF Quiet
<1>2. ASSUME NEW e \in Deliveries, Step(e) PROVE StartTurn(d)
  <2>1. CASE Rebuffer(e) \/ Continue(e) \/ Ignore(e) \/ Turned(e)
    BY <1>1, <2>1, DeliveryQuiet
  <2>2. CASE Enqueue(e)
    <3>1. Moves(e, {"storing"}, {"chained"})
      BY <2>2, EnqueueSlots
    <3> QED BY <3>1 DEF Moves
  <2>3. CASE AcquireSlot(e)
    <3>1. Moves(e, {"chained"}, {"started", "waiting"})
      BY <2>3, AcquireSlots
    <3> QED BY <3>1 DEF Moves
  <2>4. CASE StartTurn(e)
    <3>1. Moves(e, {"started"}, {"turn"})
      BY <2>4, StartSlots
    <3>2. e = d
      BY <3>1 DEF Moves
    <3> QED BY <2>4, <3>2
  <2>5. CASE SkipTurn(e) \/ EndTurn(e)
    <3>1. PICK to \in Ended : EndTask(e, to) /\ pc[e] \in {"started", "turn"}
      BY <2>5, TurnCases
    <3>2. \A f \in Deliveries : pc'[f] \in {pc[f], to, "started"}
      BY <3>1 DEF EndTask, ReleaseSlot, ReleaseSlotTo, Sound, Types
    <3>3. to # "turn"
      BY Places
    <3> QED BY <3>2, <3>3
  <2> QED BY <1>2, <2>1, <2>2, <2>3, <2>4, <2>5 DEF Step
<1>3. ASSUME NEW e \in Deliveries, NEW m \in Messages, Arrive(e, m) PROVE StartTurn(d)
  BY <1>1, <1>3, ArriveQuiet
<1>4. ASSUME NEW c \in Chats, FlushTimer(c) PROVE StartTurn(d)
  BY <1>1, <1>4, TimerQuiet
<1>5. CASE Stop
  BY <1>1, <1>5, StopQuiet
<1>6. CASE Restart
  BY <1>6 DEF Restart
<1>7. CASE UNCHANGED vars
  BY <1>7 DEF vars, deliveries
<1> QED BY <1>2, <1>3, <1>4, <1>5, <1>6, <1>7 DEF Next

LEMMA NoneTwice ==
  ASSUME Inv, [Next]_vars, NEW d \in Deliveries, NEW e \in Deliveries,
         pc[d] # "turn", pc'[d] = "turn", pc[e] = "answered"
  PROVE  msg[d] # msg[e]
<1>1. ~(msg[d] <= offset[Chat(d)])
  BY TurnsBegin DEF StartTurn, Processed
<1>2. msg[e] <= offset[Chat(e)]
  BY DEF Inv, Answers
<1> QED BY <1>1, <1>2 DEF Chat

(* Deduplication list, offsets and queue together: once a message is       *)
(* answered and its offset written, no delivery of it begins a turn.       *)
THEOREM AnsweredOnce == Spec => NoSecondTurn
<1>1. Inv /\ [Next]_vars =>
        [\A d, e \in Deliveries :
           (pc[d] # "turn" /\ pc'[d] = "turn" /\ pc[e] = "answered") => msg[d] # msg[e]]_vars
  BY NoneTwice
<1> QED BY <1>1, InvHolds, PTL DEF Spec, NoSecondTurn

-----------------------------------------------------------------------------
(* The pipeline implements Inbox.                                          *)
TurnTells ==
  \A c \in Chats :
    /\ (\A d \in Deliveries : ~(pc[d] = "turn" /\ Chat(d) = c)) => TurnOf[c] = 0
    /\ \A d \in Deliveries : pc[d] = "turn" /\ Chat(d) = c => TurnOf[c] = msg[d]

LEMMA TurnIs == OneTaskPerChat => TurnTells
<1> SUFFICES ASSUME OneTaskPerChat, NEW c \in Chats
             PROVE  /\ (\A d \in Deliveries : ~(pc[d] = "turn" /\ Chat(d) = c)) => TurnOf[c] = 0
                    /\ \A d \in Deliveries : pc[d] = "turn" /\ Chat(d) = c => TurnOf[c] = msg[d]
  BY DEF TurnTells
<1>1. TurnOf[c] = Turn(c)
  BY DEF TurnOf
<1>2. ASSUME NEW d \in Deliveries, pc[d] = "turn", Chat(d) = c PROVE Turn(c) = msg[d]
  <2>1. d \in Answering(c)
    BY <1>2 DEF Answering, At
  <2>2. \A e \in Answering(c) : e = d
    <3>1. SUFFICES ASSUME NEW e \in Answering(c), e # d PROVE FALSE
      OBVIOUS
    <3>2. e \in Deliveries /\ pc[e] = "turn" /\ Chat(e) = c
      BY <3>1 DEF Answering, At
    <3>3. d \in At(Queued) /\ e \in At(Queued)
      BY <1>2, <3>2, Places, AtPlaces
    <3> QED BY <1>2, <3>1, <3>2, <3>3 DEF OneTaskPerChat
  <2>3. (CHOOSE e \in Answering(c) : TRUE) = d
    BY <2>1, <2>2
  <2> QED BY <2>1, <2>3 DEF Turn
<1>3. (\A d \in Deliveries : ~(pc[d] = "turn" /\ Chat(d) = c)) => Turn(c) = 0
  <2>1. (\A d \in Deliveries : ~(pc[d] = "turn" /\ Chat(d) = c)) => Answering(c) = {}
    BY DEF Answering, At
  <2> QED BY <2>1 DEF Turn
<1> QED BY <1>1, <1>2, <1>3

LEMMA InvTells == Inv => TurnTells
BY OneTask, TurnIs DEF Inv

LEMMA TurnFunction == TurnOf = [c \in Chats |-> TurnOf[c]]
BY DEF TurnOf
LEMMA TurnFunctionNext == TurnOf' = [c \in Chats |-> TurnOf'[c]]
BY DEF TurnOf

(* A step by which no turn begins or ends.                                 *)
LEMMA SameTurns ==
  ASSUME TurnTells, TurnTells',
         \A d \in Deliveries : /\ pc'[d] = "turn" <=> pc[d] = "turn"
                               /\ pc[d] = "turn" => msg'[d] = msg[d]
  PROVE  TurnOf' = TurnOf
<1>1. ASSUME NEW c \in Chats PROVE TurnOf'[c] = TurnOf[c]
  <2>1. CASE \A d \in Deliveries : ~(pc[d] = "turn" /\ ChatOf[msg[d]] = c)
    <3>1. \A d \in Deliveries : ~(pc'[d] = "turn" /\ ChatOf[msg'[d]] = c)
      BY <2>1
    <3> QED BY <2>1, <3>1 DEF TurnTells, Chat
  <2>2. ASSUME NEW d \in Deliveries, pc[d] = "turn", ChatOf[msg[d]] = c PROVE TurnOf'[c] = TurnOf[c]
    <3>1. pc'[d] = "turn" /\ ChatOf[msg'[d]] = c /\ msg'[d] = msg[d]
      BY <2>2
    <3>2. TurnOf[c] = msg[d]
      BY <2>2 DEF TurnTells, Chat
    <3>3. TurnOf'[c] = msg'[d]
      BY <3>1 DEF TurnTells, Chat
    <3> QED BY <3>1, <3>2, <3>3
  <2> QED BY <2>1, <2>2
<1> QED BY <1>1, TurnFunction, TurnFunctionNext

(* A step by which the turn of one chat begins or ends.                    *)
LEMMA OtherTurns ==
  ASSUME TurnTells, TurnTells', NEW d \in Deliveries, UNCHANGED msg, Chat(d) \in Chats,
         \A e \in Deliveries \ {d} : pc'[e] = "turn" <=> pc[e] = "turn",
         pc[d] = "turn" \/ pc'[d] = "turn",
         \A e \in Deliveries \ {d} : Chat(e) = Chat(d) => pc[e] # "turn"
  PROVE  /\ TurnOf[Chat(d)] = (IF pc[d] = "turn" THEN msg[d] ELSE 0)
         /\ TurnOf' = [TurnOf EXCEPT ![Chat(d)] = IF pc'[d] = "turn" THEN msg[d] ELSE 0]
<1>1. PICK b \in Chats : b = ChatOf[msg[d]]
  BY DEF Chat
<1>2. TurnOf[b] = (IF pc[d] = "turn" THEN msg[d] ELSE 0)
  BY <1>1 DEF TurnTells, Chat
<1>3. TurnOf'[b] = (IF pc'[d] = "turn" THEN msg[d] ELSE 0)
  <2>1. \A e \in Deliveries \ {d} : ChatOf[msg'[e]] = b => pc'[e] # "turn"
    BY <1>1 DEF Chat
  <2>2. CASE pc'[d] = "turn"
    BY <1>1, <2>2 DEF TurnTells, Chat
  <2>3. CASE pc'[d] # "turn"
    <3>1. \A e \in Deliveries : ~(pc'[e] = "turn" /\ ChatOf[msg'[e]] = b)
      BY <2>1, <2>3
    <3> QED BY <2>3, <3>1 DEF TurnTells, Chat
  <2> QED BY <2>2, <2>3
<1>4. ASSUME NEW c \in Chats, c # b PROVE TurnOf'[c] = TurnOf[c]
  <2>1. CASE \A e \in Deliveries : ~(pc[e] = "turn" /\ ChatOf[msg[e]] = c)
    <3>1. \A e \in Deliveries : ~(pc'[e] = "turn" /\ ChatOf[msg'[e]] = c)
      BY <1>1, <1>4, <2>1
    <3> QED BY <2>1, <3>1 DEF TurnTells, Chat
  <2>2. ASSUME NEW e \in Deliveries, pc[e] = "turn", ChatOf[msg[e]] = c PROVE TurnOf'[c] = TurnOf[c]
    <3>1. pc'[e] = "turn" /\ ChatOf[msg'[e]] = c /\ msg'[e] = msg[e]
      BY <1>1, <1>4, <2>2
    <3>2. TurnOf[c] = msg[e]
      BY <2>2 DEF TurnTells, Chat
    <3>3. TurnOf'[c] = msg'[e]
      BY <3>1 DEF TurnTells, Chat
    <3> QED BY <3>1, <3>2, <3>3
  <2> QED BY <2>1, <2>2
<1>5. TurnOf' = [TurnOf EXCEPT ![b] = IF pc'[d] = "turn" THEN msg[d] ELSE 0]
  <2> DEFINE v == IF pc'[d] = "turn" THEN msg[d] ELSE 0
  <2>1. TurnOf'[b] = v
    BY <1>3
  <2> HIDE DEF v
  <2>2. TurnOf' = [TurnOf EXCEPT ![b] = v]
    BY <1>1, <1>4, <2>1, TurnFunction, TurnFunctionNext
  <2> QED BY <2>2 DEF v
<1> QED BY <1>1, <1>2, <1>5 DEF Chat

LEMMA InboxInit == Init => Abstract!Init
<1> SUFFICES ASSUME Init PROVE Abstract!Init
  OBVIOUS
<1>1. \A c \in Chats : TurnOf[c] = 0
  <2>1. TurnTells
    BY InitSound, InvTells
  <2> QED BY <2>1 DEF TurnTells, Init
<1>2. TurnOf = [c \in Chats |-> 0]
  BY <1>1, TurnFunction
<1> QED BY <1>2 DEF Init, Abstract!Init

LEMMA InboxStep == Inv /\ TurnTells /\ TurnTells' /\ [Next]_vars => [Abstract!Next]_(Abstract!vars)
<1> SUFFICES ASSUME Inv, TurnTells, TurnTells', [Next]_vars
             PROVE  Abstract!Next \/ UNCHANGED <<offset, saved, TurnOf>>
  BY DEF Abstract!vars
<1>0. /\ Sound /\ Slots /\ Chained /\ Answers /\ TurnTells /\ TurnTells' /\ OneTaskPerChat
  BY OneTask DEF Inv
<1>1. ASSUME Quiet PROVE UNCHANGED <<offset, saved, TurnOf>>
  <2>1. \A d \in Deliveries : /\ pc'[d] = "turn" <=> pc[d] = "turn"
                              /\ pc[d] = "turn" => msg'[d] = msg[d]
    BY <1>1, SettledPlaces DEF Quiet
  <2> QED BY <1>0, <1>1, <2>1, SameTurns DEF Quiet, offsets
<1>2. ASSUME NEW d \in Deliveries, StartTurn(d) PROVE Abstract!Next
  <2>1. /\ pc[d] = "started" /\ pc'[d] = "turn" /\ \A e \in Deliveries \ {d} : pc'[e] = pc[e]
        /\ UNCHANGED <<msg, offset, saved>> /\ Chat(d) \in Chats
    BY <1>0, <1>2, StartSlots DEF Moves, offsets
  <2>2. msg[d] \in Messages
    BY <1>0, <2>1 DEF Sound, Buffered
  <2>3. \A e \in Deliveries \ {d} : Chat(e) = Chat(d) => pc[e] # "turn"
    <3>1. d \in At(Queued) /\ \A e \in Deliveries : pc[e] = "turn" => e \in At(Queued)
      BY <2>1, Places, AtPlaces
    <3> QED BY <1>0, <2>1, <3>1 DEF OneTaskPerChat
  <2>4. TurnOf[Chat(d)] = 0 /\ TurnOf' = [TurnOf EXCEPT ![Chat(d)] = msg[d]]
    BY <1>0, <2>1, <2>3, OtherTurns
  <2>5. msg[d] > offset[Chat(d)]
    <3>1. ~(msg[d] <= offset[Chat(d)])
      BY <1>2 DEF StartTurn, Processed
    <3>2. msg[d] \in Nat /\ offset[Chat(d)] \in Nat
      BY <1>0, <2>1, <2>2, Constants DEF Sound, Types
    <3> QED BY <3>1, <3>2
  <2>6. Abstract!Begin(msg[d])
    BY <2>1, <2>4, <2>5 DEF Abstract!Begin, Chat
  <2> QED BY <2>2, <2>6 DEF Abstract!Next
<1>3. ASSUME NEW d \in Deliveries, SkipTurn(d) \/ EndTurn(d)
      PROVE  Abstract!Next \/ UNCHANGED <<offset, saved, TurnOf>>
  <2>1. PICK to \in Ended :
          /\ pc[d] \in {"started", "turn"} /\ EndTask(d, to)
          /\ \/ UNCHANGED offsets
             \/ pc[d] = "turn" /\ WritesOffset(d)
    BY <1>3, TurnCases
  <2>2. /\ UNCHANGED msg /\ to # "turn"
        /\ pc'[d] = to
        /\ \A e \in Deliveries \ {d} : pc'[e] = "turn" <=> pc[e] = "turn"
    <3>1. /\ UNCHANGED msg
          /\ \/ waiting = <<>> /\ pc' = [pc EXCEPT ![d] = to]
             \/ waiting # <<>> /\ pc' = [pc EXCEPT ![d] = to, ![Head(waiting)] = "started"]
      BY <2>1 DEF EndTask, ReleaseSlot, ReleaseSlotTo
    <3>2. waiting # <<>> => Head(waiting) \in Deliveries \ {d} /\ pc[Head(waiting)] = "waiting"
      <4>1. waiting # <<>> => 1 \in DOMAIN waiting /\ Head(waiting) = waiting[1] /\ waiting[1] \in Deliveries
        BY <1>0 DEF Sound, Types
      <4> QED BY <1>0, <2>1, <4>1 DEF Slots, Lined
    <3>3. to # "turn"
      BY Places
    <3>4. CASE waiting = <<>>
      BY <1>0, <3>1, <3>3, <3>4 DEF Sound, Types
    <3>5. CASE waiting # <<>>
      <4> DEFINE h == Head(waiting)
      <4>1. h \in Deliveries \ {d} /\ pc[h] = "waiting" /\ pc' = [pc EXCEPT ![d] = to, ![h] = "started"]
        BY <3>1, <3>2, <3>5
      <4> HIDE DEF h
      <4>2. pc'[d] = to /\ pc'[h] = "started" /\ \A e \in Deliveries \ {d, h} : pc'[e] = pc[e]
        BY <1>0, <4>1 DEF Sound, Types
      <4> QED BY <3>1, <3>3, <4>1, <4>2
    <3> QED BY <3>4, <3>5
  <2>3. Chat(d) \in Chats /\ msg[d] \in Messages
    BY <1>0, <2>1, Constants DEF Sound, Buffered, Chat
  <2>4. CASE pc[d] = "started"
    <3>1. TurnOf' = TurnOf
      BY <1>0, <2>2, <2>4, SameTurns
    <3> QED BY <2>1, <2>4, <3>1 DEF offsets
  <2>5. CASE pc[d] = "turn"
    <3>1. \A e \in Deliveries \ {d} : Chat(e) = Chat(d) => pc[e] # "turn"
      <4>1. d \in At(Queued) /\ \A e \in Deliveries : pc[e] = "turn" => e \in At(Queued)
        BY <2>5, Places, AtPlaces
      <4> QED BY <1>0, <2>5, <4>1 DEF OneTaskPerChat
    <3>2. TurnOf[Chat(d)] = msg[d] /\ TurnOf' = [TurnOf EXCEPT ![Chat(d)] = 0]
      BY <1>0, <2>2, <2>3, <2>5, <3>1, OtherTurns
    <3>3. msg[d] > offset[Chat(d)]
      BY <1>0, <2>5 DEF Answers
    <3>4. CASE UNCHANGED offsets
      <4>1. Abstract!Failed(Chat(d))
        BY <2>3, <3>2, <3>4, Constants DEF Abstract!Failed, offsets
      <4> QED BY <2>3, <4>1 DEF Abstract!Next
    <3>5. CASE WritesOffset(d)
      <4>1. Abstract!Handled(Chat(d))
        BY <3>2, <3>3, <3>5 DEF Abstract!Handled, WritesOffset
      <4> QED BY <2>3, <4>1 DEF Abstract!Next
    <3> QED BY <2>1, <3>4, <3>5
  <2> QED BY <2>1, <2>4, <2>5
<1>4. ASSUME NEW d \in Deliveries, NEW from, NEW to, Moves(d, from, to), "turn" \notin from, "turn" \notin to,
             UNCHANGED <<msg, offsets>>
      PROVE  UNCHANGED <<offset, saved, TurnOf>>
  <2>1. \A e \in Deliveries : pc'[e] = "turn" <=> pc[e] = "turn"
    BY <1>4 DEF Moves
  <2> QED BY <1>0, <1>4, <2>1, SameTurns DEF offsets
<1>5. ASSUME NEW d \in Deliveries, Step(d) PROVE Abstract!Next \/ UNCHANGED <<offset, saved, TurnOf>>
  <2>1. CASE Rebuffer(d) \/ Continue(d) \/ Ignore(d) \/ Turned(d)
    BY <1>0, <1>1, <2>1, DeliveryQuiet
  <2>2. CASE Enqueue(d)
    <3>1. Moves(d, {"storing"}, {"chained"}) /\ UNCHANGED <<msg, offsets>>
      BY <1>0, <2>2, EnqueueSlots
    <3> QED BY <1>4, <3>1
  <2>3. CASE AcquireSlot(d)
    <3>1. Moves(d, {"chained"}, {"started", "waiting"}) /\ UNCHANGED <<msg, offsets>>
      BY <1>0, <2>3, AcquireSlots
    <3> QED BY <1>4, <3>1
  <2> QED BY <1>2, <1>3, <1>5, <2>1, <2>2, <2>3 DEF Step
<1>6. CASE Restart
  <2>1. \A d \in Deliveries : pc'[d] # "turn"
    BY <1>6 DEF Restart, InWork, Queued
  <2>2. \A c \in Chats : TurnOf'[c] = 0
    BY <1>0, <2>1 DEF TurnTells, Chat
  <2>3. TurnOf' = [c \in Chats |-> 0]
    BY <2>2, TurnFunctionNext
  <2>4. Abstract!Restart
    BY <1>6, <2>3 DEF Restart, Abstract!Restart
  <2> QED BY <2>4 DEF Abstract!Next
<1>7. CASE UNCHANGED vars
  <2>1. UNCHANGED <<msg, pc, offset, saved>>
    BY <1>7 DEF vars, deliveries, offsets
  <2> QED BY <1>0, <2>1, SameTurns
<1>8. ASSUME NEW d \in Deliveries, NEW m \in Messages, Arrive(d, m) PROVE UNCHANGED <<offset, saved, TurnOf>>
  BY <1>0, <1>1, <1>8, ArriveQuiet
<1>9. ASSUME NEW c \in Chats, FlushTimer(c) PROVE UNCHANGED <<offset, saved, TurnOf>>
  BY <1>0, <1>1, <1>9, TimerQuiet
<1>10. CASE Stop
  BY <1>0, <1>1, <1>10, StopQuiet
<1> QED BY <1>5, <1>6, <1>7, <1>8, <1>9, <1>10 DEF Next

(* Whatever the debouncer, the deduplication, the queues, stopAgent and    *)
(* restarts do, the pipeline behaves like the inbox: one turn at a time in *)
(* a chat, for a message beyond its mark, and marks that only move to the  *)
(* message of a turn that ended.                                           *)
THEOREM PipelineImplementsInbox == Spec => ImplementsInbox
<1>1. Inv /\ TurnTells /\ TurnTells' /\ [Next]_vars => [Abstract!Next]_(Abstract!vars)
  BY InboxStep
<1> QED BY <1>1, InboxInit, InvHolds, InvTells, PTL DEF Spec, ImplementsInbox, Abstract!Spec
=============================================================================
