------------------------ MODULE OutgoingTrackerProofs ------------------------
(***************************************************************************)
(* Theorems about OutgoingTracker for every set of random ids, calls,      *)
(* chats and message ids, every window and every number of restarts.       *)
(***************************************************************************)
EXTENDS OutgoingTracker, TLAPS

USE DEF Keys

(* The assumptions on the constants, in the portions the proofs need.      *)
LEMMA Bounds ==
  /\ AmbiguousTtl \in Nat
  /\ MaxRetries \in Nat
  /\ MaxDisconnects \in Nat
  /\ 0 \in 0 .. AmbiguousTtl + 1
  BY TrackerAssumption

LEMMA Names ==
  /\ ChatOf \in [RandomIds -> Chats]
  /\ NoMsg \notin MsgIds
  /\ Manual \notin RandomIds
  /\ Nobody \notin RandomIds
  /\ Manual # Nobody
  BY TrackerAssumption

-----------------------------------------------------------------------------
(* What the record operators return.                                       *)

LEMMA FirstRecords == NoRecord \in Records /\ Reserved \in Records
  BY Bounds DEF NoRecord, Reserved, Records, States

LEMMA RecordOperators ==
  ASSUME NEW rec \in Records
  PROVE  /\ Begin(rec) \in Records
         /\ End(rec) \in Records
         /\ MarkAmbiguous(rec) \in Records
         /\ Seen(rec) \in Records
         /\ Older(rec) \in Records
         /\ \A n \in MsgIds : Bind(rec, n) \in Records
<1> USE Bounds DEF Records, States
<1>2. Begin(rec) \in Records
  BY FirstRecords DEF Begin
<1>3. End(rec) \in Records /\ MarkAmbiguous(rec) \in Records
  BY DEF End, MarkAmbiguous
<1>4. Seen(rec) \in Records
  BY DEF Seen
<1>5. Older(rec) \in Records
  BY DEF Older
<1>6. \A n \in MsgIds : Bind(rec, n) \in Records
  BY DEF Bind
<1> QED BY <1>2, <1>3, <1>4, <1>5, <1>6

(* An absent record keeps nothing of an earlier one.                       *)
Blank(rec) == rec.state = "ABSENT" => rec.msg = NoMsg /\ ~rec.inFlight

(* The message a record is bound to, its state and its flight mark, through *)
(* each of them.                                                           *)
LEMMA FirstRecordFields ==
  /\ NoRecord.state = "ABSENT" /\ NoRecord.msg = NoMsg /\ ~NoRecord.inFlight
  /\ Reserved.state = "RESERVED" /\ Reserved.msg = NoMsg /\ ~Reserved.inFlight
  BY DEF NoRecord, Reserved

LEMMA RecordFields ==
  ASSUME NEW rec \in Records, Blank(rec)
  PROVE  /\ Begin(rec).msg = rec.msg
         /\ Begin(rec).state = "SENDING"
         /\ Begin(rec).inFlight
         /\ End(rec).msg = rec.msg
         /\ End(rec).state = rec.state
         /\ ~End(rec).inFlight
         /\ MarkAmbiguous(rec).msg = rec.msg
         /\ MarkAmbiguous(rec).state = IF rec.state = "ABSENT" THEN "ABSENT" ELSE "AMBIGUOUS"
         /\ MarkAmbiguous(rec).inFlight = rec.inFlight
         /\ Seen(rec).msg = rec.msg
         /\ Seen(rec).state = IF rec.state = "ACKNOWLEDGED" THEN "OBSERVED" ELSE rec.state
         /\ Seen(rec).inFlight = rec.inFlight
         /\ Older(rec).msg = rec.msg
         /\ Older(rec).state = rec.state
         /\ Older(rec).inFlight = rec.inFlight
<1> USE DEF Records, Blank
<1>1. Begin(rec).msg = rec.msg /\ Begin(rec).state = "SENDING" /\ Begin(rec).inFlight
  BY DEF Begin, Reserved
<1>2. End(rec).msg = rec.msg /\ End(rec).state = rec.state /\ ~End(rec).inFlight
  BY DEF End
<1>3. /\ MarkAmbiguous(rec).msg = rec.msg
      /\ MarkAmbiguous(rec).state = IF rec.state = "ABSENT" THEN "ABSENT" ELSE "AMBIGUOUS"
      /\ MarkAmbiguous(rec).inFlight = rec.inFlight
  BY DEF MarkAmbiguous
<1>4. /\ Seen(rec).msg = rec.msg
      /\ Seen(rec).state = IF rec.state = "ACKNOWLEDGED" THEN "OBSERVED" ELSE rec.state
      /\ Seen(rec).inFlight = rec.inFlight
  BY DEF Seen
<1>5. /\ Older(rec).msg = rec.msg
      /\ Older(rec).state = rec.state
      /\ Older(rec).inFlight = rec.inFlight
  BY DEF Older
<1> QED BY <1>1, <1>2, <1>3, <1>4, <1>5

LEMMA BindFields ==
  ASSUME NEW rec \in Records, NEW n \in MsgIds
  PROVE  /\ Bind(rec, n).msg = IF Binds(rec) THEN n ELSE rec.msg
         /\ Bind(rec, n).state = IF Binds(rec) THEN "ACKNOWLEDGED" ELSE rec.state
         /\ Bind(rec, n).inFlight = rec.inFlight
  BY DEF Bind, Binds, Records

LEMMA BindBlank ==
  ASSUME NEW rec \in Records, NEW n \in MsgIds, Blank(rec)
  PROVE  Blank(Bind(rec, n))
<1>1. CASE Binds(rec)
  BY <1>1, BindFields DEF Blank
<1>2. CASE ~Binds(rec)
  BY <1>2 DEF Bind
<1> QED BY <1>1, <1>2

-----------------------------------------------------------------------------
(* Every variable keeps its type.                                          *)
THEOREM TypeCorrect == Spec => []TypeOK
<1>1. Init => TypeOK
  BY Bounds, FirstRecords DEF Init, TypeOK
<1>2. TypeOK /\ [Next]_vars => TypeOK'
  <2> SUFFICES ASSUME TypeOK, [Next]_vars PROVE TypeOK'
    OBVIOUS
  <2> USE Bounds, Names DEF TypeOK, tracker, bridge, calls, events
  <2>1. ASSUME NEW o \in Ops, NEW r \in RandomIds, StartSend(o, r) PROVE TypeOK'
    <3>1. Begin(byRandomId[r]) \in Records
      BY RecordOperators
    <3> QED BY <2>1, <3>1 DEF StartSend
  <2>2. ASSUME NEW o \in Ops, NEW r \in RandomIds, AbandonSend(o, r) PROVE TypeOK'
    BY <2>2, FirstRecords DEF AbandonSend
  <2>3. ASSUME NEW o \in Ops, Request(o) PROVE TypeOK'
    BY <2>3 DEF Request
  <2>4. ASSUME NEW o \in Ops, ServerAccepts(o) PROVE TypeOK'
    BY <2>4 DEF ServerAccepts
  <2>5. ASSUME NEW o \in Ops, RpcOk(o) PROVE TypeOK'
    <3>1. PICK n \in MsgIds :
            /\ byRandomId' = [byRandomId EXCEPT ![target[o]] = End(Bind(@, n))]
            /\ byMessageKey' = Index(target[o], n)
      BY <2>5 DEF RpcOk
    <3>2. target[o] \in RandomIds => End(Bind(byRandomId[target[o]], n)) \in Records
      BY RecordOperators
    <3>3. byRandomId' \in [RandomIds -> Records]
      BY <3>1, <3>2
    <3>4. byMessageKey' \in [Keys -> RandomIds \cup {Nobody}]
      BY <3>1 DEF Index
    <3> QED BY <2>5, <3>3, <3>4 DEF RpcOk, Return
  <2>6. ASSUME NEW o \in Ops, RpcFloodWait(o) PROVE TypeOK'
    BY <2>6 DEF RpcFloodWait, FloodRetryAfter
  <2>7. ASSUME NEW o \in Ops, RpcRejected(o) PROVE TypeOK'
    <3>1. byRandomId' \in [RandomIds -> Records]
      BY <2>7, FirstRecords DEF RpcRejected
    <3>2. byMessageKey' \in [Keys -> RandomIds \cup {Nobody}]
      BY <2>7 DEF RpcRejected, Unindex
    <3>3. /\ pc' \in [Ops -> {"idle", "waiting", "network", "done"}]
          /\ attempt' \in [Ops -> 0 .. MaxRetries]
          /\ wire' \in [Ops -> {"none", "sent", "accepted"}]
          /\ UNCHANGED <<connected, disconnects, target, origin, polling, verdict>>
      BY <2>7 DEF RpcRejected, Return
    <3> QED BY <3>1, <3>2, <3>3
  <2>8. ASSUME NEW o \in Ops, RpcAmbiguous(o) PROVE TypeOK'
    <3>1. ASSUME NEW r \in RandomIds PROVE End(MarkAmbiguous(byRandomId[r])) \in Records
      BY RecordOperators
    <3>2. byRandomId' \in [RandomIds -> Records]
      BY <2>8, <3>1 DEF RpcAmbiguous
    <3> QED BY <2>8, <3>2 DEF RpcAmbiguous, Return
  <2>9. ASSUME NEW k \in Keys, ManualMessage(k) PROVE TypeOK'
    BY <2>9 DEF ManualMessage
  <2>10. ASSUME NEW k \in Keys, Observe(k)
         PROVE  /\ byRandomId' \in [RandomIds -> Records]
                /\ verdict' \in [Keys -> {"none", "programmatic", "creator_manual"}]
    BY <2>10, RecordOperators DEF Observe
  <2>11. ASSUME NEW k \in Keys, OutgoingEvent(k) PROVE TypeOK'
    BY <2>10, <2>11 DEF OutgoingEvent
  <2>12. ASSUME NEW k \in Keys, PollFinds(k) PROVE TypeOK'
    BY <2>10, <2>12 DEF PollFinds
  <2>13. ASSUME NEW k \in Keys, PollGivesUp(k) PROVE TypeOK'
    BY <2>13 DEF PollGivesUp, PollGivesUpUnchecked
  <2>14. ASSUME NEW r \in RandomIds, NEW n \in MsgIds, RawAck(r, n) PROVE TypeOK'
    <3>1. Bind(byRandomId[r], n) \in Records
      BY RecordOperators
    <3>2. Index(r, n) \in [Keys -> RandomIds \cup {Nobody}]
      BY DEF Index
    <3> QED BY <2>14, <3>1, <3>2 DEF RawAck
  <2>15. CASE CleanupStale
    BY <2>15, FirstRecords DEF CleanupStale, Unindex
  <2>16. CASE Tick
    BY <2>16, RecordOperators DEF Tick
  <2>17. CASE Disconnect
    <3>1. /\ byRandomId' \in [RandomIds -> Records]
          /\ byMessageKey' \in [Keys -> RandomIds \cup {Nobody}]
          /\ UNCHANGED <<pc, target, attempt, wire, origin, polling, verdict>>
      BY <2>17, FirstRecords DEF Disconnect
    <3>2. connected' \in BOOLEAN
      BY <2>17 DEF Disconnect
    <3>3. disconnects' \in 0 .. MaxDisconnects
      <4>1. disconnects \in 0 .. MaxDisconnects /\ disconnects < MaxDisconnects
        BY <2>17 DEF Disconnect
      <4>2. disconnects' = disconnects + 1
        BY <2>17 DEF Disconnect
      <4> QED BY <4>1, <4>2, Bounds
    <3> QED BY <3>1, <3>2, <3>3
  <2>18. CASE Connect
    BY <2>18 DEF Connect
  <2>19. CASE UNCHANGED vars
    BY <2>19 DEF vars
  <2> QED BY <2>1, <2>2, <2>3, <2>4, <2>5, <2>6, <2>7, <2>8, <2>9, <2>11, <2>12, <2>13,
             <2>14, <2>15, <2>16, <2>17, <2>18, <2>19
          DEF Next, CallStep, EventStep
<1> QED BY <1>1, <1>2, PTL DEF Spec

-----------------------------------------------------------------------------
(* The inductive core of the safety properties: absent records are blank,  *)
(* the two maps agree, and a record is only ever bound to a message that   *)
(* its own random id produced.                                             *)
BlankRecords == \A r \in RandomIds : Blank(byRandomId[r])

BindingsTrue ==
  \A r \in RandomIds, n \in MsgIds :
    byRandomId[r].msg = n => origin[<<ChatOf[r], n>>] = r

Core == BlankRecords /\ IndexesAgree /\ BindingsTrue /\ ExactClassification

(* Messages are never rewritten.                                           *)
OriginGrows == \A k \in Keys : origin[k] # Nobody => origin'[k] = origin[k]

(* Three kinds of step cover every action: those that leave all bindings   *)
(* alone, those that bind one record, and those that remove records.       *)

LEMMA KeepingStep ==
  ASSUME TypeOK, Core, OriginGrows,
         \A r \in RandomIds :
           byRandomId'[r].msg = byRandomId[r].msg /\ Blank(byRandomId'[r]),
         byMessageKey' = byMessageKey
  PROVE  /\ (BlankRecords /\ IndexesAgree /\ BindingsTrue)'
         /\ verdict' = verdict => ExactClassification'
<1> USE Names DEF Core, TypeOK
<1>1. BlankRecords'
  BY DEF BlankRecords
<1>2. IndexesAgree'
  <2> SUFFICES ASSUME NEW r \in RandomIds, NEW c \in Chats, NEW n \in MsgIds
               PROVE  byMessageKey'[<<c, n>>] = r <=> byRandomId'[r].msg = n /\ ChatOf[r] = c
    BY DEF IndexesAgree
  <2>1. byMessageKey[<<c, n>>] = r <=> byRandomId[r].msg = n /\ ChatOf[r] = c
    BY DEF IndexesAgree
  <2>2. byMessageKey'[<<c, n>>] = byMessageKey[<<c, n>>] /\ byRandomId'[r].msg = byRandomId[r].msg
    OBVIOUS
  <2> QED BY <2>1, <2>2
<1>3. BindingsTrue'
  BY DEF BindingsTrue, OriginGrows
<1>4. verdict' = verdict => ExactClassification'
  BY DEF ExactClassification, OriginGrows
<1> QED BY <1>1, <1>2, <1>3, <1>4

LEMMA BindingStep ==
  ASSUME TypeOK, Core,
         NEW r \in RandomIds, NEW n \in MsgIds,
         origin[<<ChatOf[r], n>>] = r,
         \A s \in RandomIds \ {r} : byRandomId'[s] = byRandomId[s],
         byRandomId'[r].msg = Bind(byRandomId[r], n).msg,
         byRandomId'[r].state = Bind(byRandomId[r], n).state,
         byRandomId'[r].state = "ABSENT" => ~byRandomId'[r].inFlight,
         byMessageKey' = Index(r, n),
         origin' = origin, verdict' = verdict
  PROVE  Core'
<1> USE Names DEF TypeOK
<1>1. CASE Binds(byRandomId[r])
  <2>1. byRandomId'[r].msg = n /\ byRandomId'[r].state = "ACKNOWLEDGED"
    BY <1>1, BindFields
  <2>2. byMessageKey' = [byMessageKey EXCEPT ![<<ChatOf[r], n>>] = r]
    BY <1>1 DEF Index, MessageKey
  <2>3. BlankRecords'
    BY <2>1 DEF Core, BlankRecords, Blank
  <2>4. BindingsTrue'
    BY <2>1 DEF Core, BindingsTrue
  <2>5. ASSUME NEW s \in RandomIds, NEW c \in Chats, NEW m \in MsgIds
        PROVE  byMessageKey'[<<c, m>>] = s <=> byRandomId'[s].msg = m /\ ChatOf[s] = c
    <3>1. CASE c = ChatOf[r] /\ m = n
      <4>1. byMessageKey'[<<c, m>>] = r
        BY <3>1, <2>2
      <4>2. s # r => ~(byRandomId[s].msg = n /\ ChatOf[s] = ChatOf[r])
        BY DEF Core, BindingsTrue
      <4> QED BY <3>1, <4>1, <4>2, <2>1
    <3>2. CASE ~(c = ChatOf[r] /\ m = n)
      <4>1. byMessageKey'[<<c, m>>] = byMessageKey[<<c, m>>]
        BY <3>2, <2>2
      <4>2. byRandomId[r].msg = NoMsg
        BY <1>1 DEF Binds
      <4>3. byMessageKey[<<c, m>>] = s <=> byRandomId[s].msg = m /\ ChatOf[s] = c
        BY DEF Core, IndexesAgree
      <4> QED BY <3>2, <4>1, <4>2, <4>3, <2>1
    <3> QED BY <3>1, <3>2
  <2>6. IndexesAgree'
    BY <2>5 DEF IndexesAgree
  <2>7. ExactClassification'
    BY DEF Core, ExactClassification
  <2> QED BY <2>3, <2>4, <2>6, <2>7 DEF Core
<1>2. CASE ~Binds(byRandomId[r])
  <2>1. byRandomId'[r].msg = byRandomId[r].msg /\ byRandomId'[r].state = byRandomId[r].state
    BY <1>2, BindFields
  <2>2. byMessageKey' = byMessageKey
    BY <1>2 DEF Index
  <2>3. \A s \in RandomIds : byRandomId'[s].msg = byRandomId[s].msg /\ Blank(byRandomId'[s])
    BY <2>1 DEF Core, BlankRecords, Blank
  <2> QED BY <2>2, <2>3, KeepingStep DEF Core, OriginGrows
<1> QED BY <1>1, <1>2

LEMMA RemovingStep ==
  ASSUME TypeOK, Core,
         NEW gone \in SUBSET RandomIds,
         byRandomId' = [r \in RandomIds |-> IF r \in gone THEN NoRecord ELSE byRandomId[r]],
         byMessageKey' = Unindex(gone),
         origin' = origin, verdict' = verdict
  PROVE  Core'
<1> USE Names, FirstRecordFields DEF TypeOK
<1>1. BlankRecords'
  BY DEF Core, BlankRecords, Blank
<1>2. BindingsTrue'
  BY DEF Core, BindingsTrue
<1>3. ExactClassification'
  BY DEF Core, ExactClassification
<1>4. ASSUME NEW s \in RandomIds, NEW c \in Chats, NEW m \in MsgIds
      PROVE  byMessageKey'[<<c, m>>] = s <=> byRandomId'[s].msg = m /\ ChatOf[s] = c
  <2>1. \A t \in RandomIds :
          byMessageKey[<<c, m>>] = t <=> byRandomId[t].msg = m /\ ChatOf[t] = c
    BY DEF Core, IndexesAgree
  <2>2. CASE \E t \in gone : byRandomId[t].msg # NoMsg /\ <<c, m>> = MessageKey(t, byRandomId[t].msg)
    <3>1. PICK t \in gone : byRandomId[t].msg = m /\ ChatOf[t] = c
      BY <2>2 DEF MessageKey
    <3>2. byMessageKey[<<c, m>>] = t
      BY <3>1, <2>1
    <3>3. byMessageKey'[<<c, m>>] = Nobody
      BY <2>2 DEF Unindex
    <3> QED BY <3>1, <3>2, <3>3, <2>1
  <2>3. CASE ~\E t \in gone : byRandomId[t].msg # NoMsg /\ <<c, m>> = MessageKey(t, byRandomId[t].msg)
    <3>1. byMessageKey'[<<c, m>>] = byMessageKey[<<c, m>>]
      BY <2>3 DEF Unindex
    <3>2. s \in gone => ~(byRandomId[s].msg = m /\ ChatOf[s] = c)
      BY <2>3 DEF MessageKey
    <3> QED BY <3>1, <3>2, <2>1
  <2> QED BY <2>2, <2>3
<1>5. IndexesAgree'
  BY <1>4 DEF IndexesAgree
<1> QED BY <1>1, <1>2, <1>3, <1>5 DEF Core

-----------------------------------------------------------------------------
(* What a call has done so far and what its request may be doing.          *)
CallsConsistent ==
  \A o \in Ops :
    /\ pc[o] = "idle" => target[o] = Nobody
    /\ pc[o] # "idle" => target[o] \in RandomIds
    /\ pc[o] \in {"idle", "waiting"} => wire[o] = "none"
    /\ wire[o] = "accepted" => pc[o] = "network"

LEMMA CallsStep == TypeOK /\ CallsConsistent /\ [Next]_vars => CallsConsistent'
<1> SUFFICES ASSUME TypeOK, CallsConsistent, [Next]_vars PROVE CallsConsistent'
  OBVIOUS
<1> USE Names DEF calls
<1>0. /\ pc \in [Ops -> {"idle", "waiting", "network", "done"}]
      /\ target \in [Ops -> RandomIds \cup {Nobody}]
      /\ wire \in [Ops -> {"none", "sent", "accepted"}]
  BY DEF TypeOK
<1>1. ASSUME NEW o \in Ops, NEW r \in RandomIds, StartSend(o, r) \/ AbandonSend(o, r)
      PROVE  CallsConsistent'
  BY <1>0, <1>1 DEF StartSend, AbandonSend, CallsConsistent
<1>2. ASSUME NEW o \in Ops, Request(o) PROVE CallsConsistent'
  BY <1>0, <1>2 DEF Request, CallsConsistent
<1>3. ASSUME NEW o \in Ops, ServerAccepts(o) PROVE CallsConsistent'
  BY <1>0, <1>3 DEF ServerAccepts, CallsConsistent
<1>4. ASSUME NEW o \in Ops, RpcOk(o) PROVE CallsConsistent'
  BY <1>0, <1>4 DEF RpcOk, Return, CallsConsistent
<1>5. ASSUME NEW o \in Ops, RpcFloodWait(o) PROVE CallsConsistent'
  BY <1>0, <1>5 DEF RpcFloodWait, FloodRetryAfter, CallsConsistent
<1>6. ASSUME NEW o \in Ops, RpcRejected(o) PROVE CallsConsistent'
  BY <1>0, <1>6 DEF RpcRejected, Return, CallsConsistent
<1>7. ASSUME NEW o \in Ops, RpcAmbiguous(o) PROVE CallsConsistent'
  BY <1>0, <1>7 DEF RpcAmbiguous, Return, CallsConsistent
<1>8. ASSUME UNCHANGED calls PROVE CallsConsistent'
  BY <1>8 DEF CallsConsistent
<1>9. ASSUME NEW k \in Keys, EventStep(k) PROVE UNCHANGED calls
  BY <1>9 DEF EventStep, ManualMessage, OutgoingEvent, PollFinds, PollGivesUp,
              PollGivesUpUnchecked
<1>10. ASSUME NEW r \in RandomIds, NEW n \in MsgIds, RawAck(r, n) PROVE UNCHANGED calls
  BY <1>10 DEF RawAck
<1>11. CleanupStale \/ Tick \/ Disconnect \/ Connect => UNCHANGED calls
  BY DEF CleanupStale, Tick, Disconnect, Connect
<1>12. UNCHANGED vars => UNCHANGED calls
  BY DEF vars
<1> QED BY <1>1, <1>2, <1>3, <1>4, <1>5, <1>6, <1>7, <1>8, <1>9, <1>10, <1>11, <1>12
        DEF Next, CallStep

(* Init establishes the core and every step keeps it.                      *)
LEMMA CoreInit == Init => Core
<1> SUFFICES ASSUME Init PROVE Core
  OBVIOUS
<1> USE Names, FirstRecordFields DEF Init
<1>1. BlankRecords
  BY DEF BlankRecords, Blank
<1>2. IndexesAgree
  BY DEF IndexesAgree
<1>3. BindingsTrue
  BY DEF BindingsTrue
<1>4. ExactClassification
  BY DEF ExactClassification
<1> QED BY <1>1, <1>2, <1>3, <1>4 DEF Core

LEMMA CoreStep == TypeOK /\ CallsConsistent /\ Core /\ [Next]_vars => Core'
<1> SUFFICES ASSUME TypeOK, CallsConsistent, Core, [Next]_vars PROVE Core'
  OBVIOUS
<1> USE Names DEF tracker, bridge, calls, events
<1>0. /\ byRandomId \in [RandomIds -> Records]
      /\ byMessageKey \in [Keys -> RandomIds \cup {Nobody}]
      /\ target \in [Ops -> RandomIds \cup {Nobody}]
      /\ origin \in [Keys -> RandomIds \cup {Manual, Nobody}]
      /\ \A r \in RandomIds : byRandomId[r] \in Records /\ Blank(byRandomId[r])
  BY DEF TypeOK, Core, BlankRecords
<1>1. ASSUME NEW o \in Ops, NEW r \in RandomIds, StartSend(o, r) PROVE Core'
  <2>1. \A s \in RandomIds : byRandomId'[s].msg = byRandomId[s].msg /\ Blank(byRandomId'[s])
    BY <1>0, <1>1, RecordFields DEF StartSend, Blank
  <2> QED BY <1>1, <2>1, KeepingStep DEF StartSend, OriginGrows, Core
<1>2. ASSUME NEW o \in Ops, NEW r \in RandomIds, AbandonSend(o, r) PROVE Core'
  <2>1. \A s \in RandomIds : byRandomId'[s].msg = byRandomId[s].msg /\ Blank(byRandomId'[s])
    BY <1>0, <1>2, FirstRecordFields DEF AbandonSend, Blank
  <2> QED BY <1>2, <2>1, KeepingStep DEF AbandonSend, OriginGrows, Core
<1>3. ASSUME UNCHANGED <<byRandomId, byMessageKey, verdict>>, OriginGrows PROVE Core'
  BY <1>0, <1>3, KeepingStep DEF Core
<1>4. ASSUME NEW o \in Ops, Request(o) PROVE Core'
  BY <1>3, <1>4 DEF Request, OriginGrows
<1>5. ASSUME NEW o \in Ops, ServerAccepts(o) PROVE Core'
  <2>1. UNCHANGED <<byRandomId, byMessageKey, verdict>>
    BY <1>5 DEF ServerAccepts
  <2>2. OriginGrows
    BY <1>0, <1>5 DEF ServerAccepts, OriginGrows
  <2> QED BY <2>1, <2>2, <1>3
<1>6. ASSUME NEW o \in Ops, RpcOk(o) PROVE Core'
  <2>1. PICK n \in MsgIds :
          /\ origin[<<ChatOf[target[o]], n>>] = target[o]
          /\ byRandomId' = [byRandomId EXCEPT ![target[o]] = End(Bind(@, n))]
          /\ byMessageKey' = Index(target[o], n)
    BY <1>6 DEF RpcOk
  <2>2. origin' = origin /\ verdict' = verdict
    BY <1>6 DEF RpcOk
  <2>3. target[o] \in RandomIds
    BY <1>6 DEF RpcOk, CallsConsistent
  <2> DEFINE rec == Bind(byRandomId[target[o]], n)
  <2>4. rec \in Records
    BY <1>0, <2>3, RecordOperators
  <2>5. Blank(rec)
    BY <1>0, <2>3, BindFields DEF Blank, Binds
  <2>6. End(rec).msg = rec.msg /\ End(rec).state = rec.state /\ ~End(rec).inFlight
    BY <2>4, <2>5, RecordFields
  <2> HIDE DEF rec
  <2>7. byRandomId' = [byRandomId EXCEPT ![target[o]] = End(rec)]
    BY <2>1 DEF rec
  <2> QED BY <1>0, <2>1, <2>2, <2>3, <2>6, <2>7, BindingStep DEF rec
<1>7. ASSUME NEW o \in Ops, RpcFloodWait(o) PROVE Core'
  BY <1>3, <1>7 DEF RpcFloodWait, FloodRetryAfter, OriginGrows
<1>8. ASSUME NEW o \in Ops, RpcRejected(o) PROVE Core'
  <2>1. target[o] \in RandomIds
    BY <1>8 DEF RpcRejected, CallsConsistent
  <2>2. byRandomId' = [r \in RandomIds |-> IF r \in {target[o]} THEN NoRecord ELSE byRandomId[r]]
    BY <1>0, <1>8, <2>1 DEF RpcRejected
  <2> QED BY <1>8, <2>1, <2>2, RemovingStep DEF RpcRejected
<1>9. ASSUME NEW o \in Ops, RpcAmbiguous(o) PROVE Core'
  <2>1. \A r \in RandomIds : /\ MarkAmbiguous(byRandomId[r]) \in Records
                            /\ Blank(MarkAmbiguous(byRandomId[r]))
    BY <1>0, RecordOperators, RecordFields DEF Blank
  <2>2. \A r \in RandomIds : /\ End(MarkAmbiguous(byRandomId[r])).msg = byRandomId[r].msg
                            /\ Blank(End(MarkAmbiguous(byRandomId[r])))
    BY <1>0, <2>1, RecordFields DEF Blank
  <2>3. \A s \in RandomIds : byRandomId'[s].msg = byRandomId[s].msg /\ Blank(byRandomId'[s])
    BY <1>0, <1>9, <2>2 DEF RpcAmbiguous
  <2> QED BY <1>9, <2>3, KeepingStep DEF RpcAmbiguous, OriginGrows, Core
<1>10. ASSUME NEW k \in Keys, ManualMessage(k) PROVE Core'
  BY <1>0, <1>3, <1>10 DEF ManualMessage, OriginGrows
<1>11. ASSUME NEW k \in Keys, Observe(k), UNCHANGED <<byMessageKey, origin>> PROVE Core'
  <2>1. \A s \in RandomIds : byRandomId'[s].msg = byRandomId[s].msg /\ Blank(byRandomId'[s])
    BY <1>0, <1>11, RecordFields DEF Observe, Blank
  <2>2. (BlankRecords /\ IndexesAgree /\ BindingsTrue)'
    BY <1>11, <2>1, KeepingStep DEF OriginGrows
  <2>3. origin[k] \in RandomIds
    <3>1. PICK c \in Chats, n \in MsgIds : k = <<c, n>>
      OBVIOUS
    <3>2. byMessageKey[k] \in RandomIds
      BY <1>0, <1>11 DEF Observe
    <3>3. byRandomId[byMessageKey[k]].msg = n /\ ChatOf[byMessageKey[k]] = c
      BY <3>1, <3>2 DEF Core, IndexesAgree
    <3> QED BY <3>1, <3>2, <3>3 DEF Core, BindingsTrue
  <2>4. ExactClassification'
    BY <1>11, <2>3 DEF Observe, Core, ExactClassification, TypeOK
  <2> QED BY <2>2, <2>4 DEF Core
<1>12. ASSUME NEW k \in Keys, OutgoingEvent(k) PROVE Core'
  BY <1>3, <1>11, <1>12 DEF OutgoingEvent, OriginGrows
<1>13. ASSUME NEW k \in Keys, PollFinds(k) PROVE Core'
  BY <1>11, <1>13 DEF PollFinds
<1>14. ASSUME NEW k \in Keys, PollGivesUp(k) PROVE Core'
  <2>1. \A s \in RandomIds : byRandomId'[s].msg = byRandomId[s].msg /\ Blank(byRandomId'[s])
    BY <1>0, <1>14 DEF PollGivesUp, PollGivesUpUnchecked
  <2>2. (BlankRecords /\ IndexesAgree /\ BindingsTrue)'
    BY <1>14, <2>1, KeepingStep DEF PollGivesUp, PollGivesUpUnchecked, OriginGrows
  <2>3. ExactClassification'
    BY <1>14 DEF PollGivesUp, PollGivesUpUnchecked, Core, ExactClassification, TypeOK
  <2> QED BY <2>2, <2>3 DEF Core
<1>15. ASSUME NEW r \in RandomIds, NEW n \in MsgIds, RawAck(r, n) PROVE Core'
  <2>1. Blank(Bind(byRandomId[r], n))
    BY <1>0, BindFields DEF Blank, Binds
  <2> QED BY <1>0, <1>15, <2>1, BindingStep DEF RawAck, Blank
<1>16. CASE CleanupStale
  BY <1>16, RemovingStep DEF CleanupStale
<1>17. CASE Tick
  <2>1. \A s \in RandomIds : byRandomId'[s].msg = byRandomId[s].msg /\ Blank(byRandomId'[s])
    BY <1>0, <1>17, RecordFields DEF Tick, Blank
  <2> QED BY <1>17, <2>1, KeepingStep DEF Tick, OriginGrows, Core
<1>18. CASE Disconnect
  <2>1. BlankRecords'
    BY <1>18, FirstRecordFields DEF Disconnect, BlankRecords, Blank
  <2>2. IndexesAgree'
    BY <1>18, FirstRecordFields DEF Disconnect, IndexesAgree
  <2>3. BindingsTrue'
    BY <1>18, FirstRecordFields DEF Disconnect, BindingsTrue
  <2>4. ExactClassification'
    BY <1>18 DEF Disconnect, Core, ExactClassification
  <2> QED BY <2>1, <2>2, <2>3, <2>4 DEF Core
<1>19. CASE Connect
  BY <1>3, <1>19 DEF Connect, OriginGrows
<1>20. CASE UNCHANGED vars
  BY <1>3, <1>20 DEF vars, OriginGrows
<1> QED BY <1>1, <1>2, <1>4, <1>5, <1>6, <1>7, <1>8, <1>9, <1>10, <1>12, <1>13, <1>14,
           <1>15, <1>16, <1>17, <1>18, <1>19, <1>20
        DEF Next, CallStep, EventStep

THEOREM CoreCorrect == Spec => [](CallsConsistent /\ Core)
<1>1. Init => CallsConsistent
  BY Names DEF Init, CallsConsistent
<1> QED BY <1>1, CoreInit, CoreStep, CallsStep, TypeCorrect, PTL DEF Spec

(* The two maps of the tracker always hold the same bindings.              *)
THEOREM IndexesAlwaysAgree == Spec => []IndexesAgree
<1>1. Core => IndexesAgree
  BY DEF Core
<1> QED BY <1>1, CoreCorrect, PTL

(* No message of the owner is ever called programmatic.                    *)
THEOREM ClassificationIsExact == Spec => []ExactClassification
<1>1. Core => ExactClassification
  BY DEF Core
<1> QED BY <1>1, CoreCorrect, PTL

-----------------------------------------------------------------------------
(* A record left in SENDING by finished calls is bound.  Whatever leaves   *)
(* SENDING unbound is a call on its way: its own end moves the record on.  *)
LEMMA IdleStep ==
  TypeOK /\ CallsConsistent /\ Core /\ IdleSendingIsBound /\ [Next]_vars => IdleSendingIsBound'
<1> SUFFICES ASSUME TypeOK, CallsConsistent, Core, IdleSendingIsBound, [Next]_vars,
                    NEW r \in RandomIds, byRandomId'[r].state = "SENDING", Active(r)' = {}
             PROVE  byRandomId'[r].msg # NoMsg
  BY DEF IdleSendingIsBound
<1> USE Names DEF tracker, bridge, calls, events
<1>0. /\ byRandomId \in [RandomIds -> Records]
      /\ pc \in [Ops -> {"idle", "waiting", "network", "done"}]
      /\ target \in [Ops -> RandomIds \cup {Nobody}]
      /\ \A s \in RandomIds : byRandomId[s] \in Records /\ Blank(byRandomId[s])
      /\ Active(r) = {} /\ byRandomId[r].state = "SENDING" => byRandomId[r].msg # NoMsg
  BY DEF TypeOK, Core, BlankRecords, IdleSendingIsBound
(* A step that leaves the state, the binding and the calls of r alone.     *)
<1>1. ASSUME UNCHANGED <<pc, target>>,
             byRandomId'[r].state = "SENDING" => byRandomId'[r].msg = byRandomId[r].msg
                                                 /\ byRandomId[r].state = "SENDING"
      PROVE  byRandomId'[r].msg # NoMsg
  BY <1>0, <1>1 DEF Active
<1>2. ASSUME NEW o \in Ops, NEW s \in RandomIds, StartSend(o, s) PROVE byRandomId'[r].msg # NoMsg
  <2>1. s # r
    BY <1>0, <1>2 DEF StartSend, Active
  <2> QED BY <1>0, <1>2, <2>1 DEF StartSend, Active
<1>3. ASSUME NEW o \in Ops, NEW s \in RandomIds, AbandonSend(o, s) PROVE byRandomId'[r].msg # NoMsg
  <2>1. byRandomId'[r] = byRandomId[r]
    BY <1>0, <1>3, FirstRecordFields DEF AbandonSend
  <2>2. Active(r) = {}
    BY <1>0, <1>3 DEF AbandonSend, Active
  <2> QED BY <1>0, <2>1, <2>2
<1>4. ASSUME NEW o \in Ops, Request(o) PROVE byRandomId'[r].msg # NoMsg
  BY <1>0, <1>4 DEF Request, Active
<1>5. ASSUME NEW o \in Ops, ServerAccepts(o) PROVE byRandomId'[r].msg # NoMsg
  BY <1>1, <1>5 DEF ServerAccepts
<1>6. ASSUME NEW o \in Ops, RpcOk(o) PROVE byRandomId'[r].msg # NoMsg
  <2>0. target[o] \in RandomIds
    BY <1>6 DEF RpcOk, CallsConsistent
  <2>1. CASE target[o] = r
    <3>1. PICK n \in MsgIds : byRandomId' = [byRandomId EXCEPT ![r] = End(Bind(@, n))]
      BY <1>6, <2>1 DEF RpcOk
    <3>2. Bind(byRandomId[r], n) \in Records /\ Blank(Bind(byRandomId[r], n))
      BY <1>0, RecordOperators, BindBlank
    <3>3. /\ byRandomId'[r].msg = Bind(byRandomId[r], n).msg
          /\ byRandomId'[r].state = Bind(byRandomId[r], n).state
      BY <1>0, <3>1, <3>2, RecordFields
    <3> QED BY <1>0, <3>3, BindFields DEF Binds
  <2>2. CASE target[o] # r
    BY <1>0, <1>6, <2>2 DEF RpcOk, Return, Active
  <2> QED BY <2>1, <2>2
<1>7. ASSUME NEW o \in Ops, RpcFloodWait(o) PROVE byRandomId'[r].msg # NoMsg
  BY <1>0, <1>7 DEF RpcFloodWait, FloodRetryAfter, Active
<1>8. ASSUME NEW o \in Ops, RpcRejected(o) PROVE byRandomId'[r].msg # NoMsg
  <2>1. target[o] # r
    BY <1>0, <1>8, FirstRecordFields DEF RpcRejected
  <2> QED BY <1>0, <1>8, <2>1 DEF RpcRejected, Return, Active
<1>9. ASSUME NEW o \in Ops, RpcAmbiguous(o) PROVE byRandomId'[r].msg # NoMsg
  <2>1. target[o] # r
    <3> SUFFICES ASSUME target[o] = r PROVE FALSE
      OBVIOUS
    <3>1. MarkAmbiguous(byRandomId[r]) \in Records /\ Blank(MarkAmbiguous(byRandomId[r]))
      BY <1>0, RecordOperators, RecordFields DEF Blank
    <3>2. byRandomId'[r].state = MarkAmbiguous(byRandomId[r]).state
      BY <1>0, <1>9, <3>1, RecordFields DEF RpcAmbiguous
    <3>3. MarkAmbiguous(byRandomId[r]).state # "SENDING"
      BY <1>0, RecordFields
    <3> QED BY <3>2, <3>3
  <2> QED BY <1>0, <1>9, <2>1 DEF RpcAmbiguous, Return, Active
<1>10. ASSUME NEW k \in Keys, Observe(k), UNCHANGED <<pc, target>> PROVE byRandomId'[r].msg # NoMsg
  BY <1>0, <1>1, <1>10, RecordFields DEF Observe
<1>11. ASSUME NEW k \in Keys, EventStep(k) PROVE byRandomId'[r].msg # NoMsg
  BY <1>1, <1>10, <1>11 DEF EventStep, ManualMessage, OutgoingEvent, PollFinds, PollGivesUp,
                            PollGivesUpUnchecked
<1>12. ASSUME NEW s \in RandomIds, NEW n \in MsgIds, RawAck(s, n) PROVE byRandomId'[r].msg # NoMsg
  BY <1>0, <1>1, <1>12, BindFields DEF RawAck
<1>13. CASE CleanupStale
  BY <1>1, <1>13, FirstRecordFields DEF CleanupStale
<1>14. CASE Tick
  BY <1>0, <1>1, <1>14, RecordFields DEF Tick
<1>15. CASE Disconnect
  BY <1>15, FirstRecordFields DEF Disconnect
<1>16. CASE Connect
  BY <1>1, <1>16 DEF Connect
<1>17. CASE UNCHANGED vars
  BY <1>1, <1>17 DEF vars
<1> QED BY <1>2, <1>3, <1>4, <1>5, <1>6, <1>7, <1>8, <1>9, <1>11, <1>12, <1>13, <1>14, <1>15,
           <1>16, <1>17
        DEF Next, CallStep

THEOREM IdleSendingAlwaysBound == Spec => []IdleSendingIsBound
<1>1. Init => IdleSendingIsBound
  BY FirstRecordFields DEF Init, IdleSendingIsBound
<1> QED BY <1>1, IdleStep, CoreCorrect, TypeCorrect, PTL DEF Spec

-----------------------------------------------------------------------------
(* As long as no caller reuses a random id while an earlier call with it   *)
(* is running, each running call is the only one of its id and its record, *)
(* if a restart has not cleared it, is marked in flight.                   *)
Running(o) == pc[o] \in {"waiting", "network"}

InFlightMarked ==
  \A o \in Ops : Running(o) =>
    /\ \A p \in Ops : Running(p) /\ target[p] = target[o] => p = o
    /\ Present(target[o]) => byRandomId[target[o]].inFlight

LEMMA FlightStep ==
  ASSUME ~Overlap, TypeOK, CallsConsistent, Core, InFlightMarked, [Next]_vars
  PROVE  InFlightMarked'
<1> USE Names DEF tracker, bridge, calls, events
<1>0. /\ byRandomId \in [RandomIds -> Records]
      /\ pc \in [Ops -> {"idle", "waiting", "network", "done"}]
      /\ target \in [Ops -> RandomIds \cup {Nobody}]
      /\ \A s \in RandomIds : byRandomId[s] \in Records /\ Blank(byRandomId[s])
      /\ \A o \in Ops : Running(o) => target[o] \in RandomIds
  BY DEF TypeOK, Core, BlankRecords, CallsConsistent, Running
(* Records only ever lose their mark when they go or when their call ends. *)
<1>1. ASSUME UNCHANGED target, \A o \in Ops : Running(o)' => Running(o),
             \A s \in RandomIds :
               byRandomId'[s].state # "ABSENT" /\ (\E o \in Ops : Running(o)' /\ target[o] = s)
                 => /\ byRandomId[s].state # "ABSENT"
                    /\ byRandomId'[s].inFlight = byRandomId[s].inFlight
      PROVE  InFlightMarked'
  BY <1>0, <1>1 DEF InFlightMarked, Present
<1>2. ASSUME NEW o \in Ops, NEW s \in RandomIds, StartSend(o, s) PROVE InFlightMarked'
  <2>1. \A p \in Ops : Running(p) => target[p] # s
    BY <1>2 DEF StartSend, MayUse, Active, Running
  <2>2. byRandomId'[s].inFlight /\ \A t \in RandomIds \ {s} : byRandomId'[t] = byRandomId[t]
    BY <1>0, <1>2, RecordFields DEF StartSend
  <2>3. /\ target' = [target EXCEPT ![o] = s]
        /\ \A p \in Ops \ {o} : Running(p)' <=> Running(p)
    BY <1>0, <1>2 DEF StartSend, Running
  <2> QED BY <1>0, <2>1, <2>2, <2>3 DEF InFlightMarked, Present
<1>3. ASSUME NEW o \in Ops, NEW s \in RandomIds, AbandonSend(o, s) PROVE InFlightMarked'
  <2>1. \A p \in Ops : Running(p) => target[p] # s
    BY <1>3 DEF AbandonSend, MayUse, Active, Running
  <2>2. /\ \A t \in RandomIds \ {s} : byRandomId'[t] = byRandomId[t]
        /\ \A p \in Ops : Running(p)' => Running(p) /\ p # o
        /\ target' = [target EXCEPT ![o] = s]
    BY <1>0, <1>3 DEF AbandonSend, Running
  <2> QED BY <1>0, <2>1, <2>2 DEF InFlightMarked, Present
<1>4. ASSUME NEW o \in Ops, Request(o) \/ ServerAccepts(o) \/ RpcFloodWait(o) PROVE InFlightMarked'
  BY <1>0, <1>1, <1>4 DEF Request, ServerAccepts, RpcFloodWait, FloodRetryAfter, Running
<1>5. ASSUME NEW o \in Ops, RpcOk(o) \/ RpcRejected(o) \/ RpcAmbiguous(o) PROVE InFlightMarked'
  <2>1. /\ UNCHANGED target
        /\ Running(o) /\ ~Running(o)'
        /\ \A p \in Ops \ {o} : Running(p)' <=> Running(p)
    BY <1>0, <1>5 DEF RpcOk, RpcRejected, RpcAmbiguous, Return, Running
  <2>2. \A s \in RandomIds \ {target[o]} : byRandomId'[s] = byRandomId[s]
    BY <1>0, <1>5 DEF RpcOk, RpcRejected, RpcAmbiguous
  <2>3. \A p \in Ops \ {o} : Running(p) => target[p] # target[o]
    BY <2>1 DEF InFlightMarked
  <2> QED BY <1>0, <2>1, <2>2, <2>3 DEF InFlightMarked, Present
<1>6. ASSUME NEW k \in Keys, Observe(k), UNCHANGED <<pc, target>> PROVE InFlightMarked'
  BY <1>0, <1>1, <1>6, RecordFields DEF Observe, Running
<1>7. ASSUME NEW k \in Keys, EventStep(k) PROVE InFlightMarked'
  BY <1>1, <1>6, <1>7 DEF EventStep, ManualMessage, OutgoingEvent, PollFinds, PollGivesUp,
                          PollGivesUpUnchecked, Running
<1>8. ASSUME NEW s \in RandomIds, NEW n \in MsgIds, RawAck(s, n) PROVE InFlightMarked'
  <2>1. \A t \in RandomIds : byRandomId'[t] = IF t = s THEN Bind(byRandomId[t], n) ELSE byRandomId[t]
    BY <1>0, <1>8 DEF RawAck
  <2>2. \A t \in RandomIds : byRandomId'[t].state # "ABSENT"
          => byRandomId[t].state # "ABSENT" /\ byRandomId'[t].inFlight = byRandomId[t].inFlight
    <3> SUFFICES ASSUME NEW t \in RandomIds, byRandomId'[t].state # "ABSENT"
                 PROVE  /\ byRandomId[t].state # "ABSENT"
                        /\ byRandomId'[t].inFlight = byRandomId[t].inFlight
      OBVIOUS
    <3>1. CASE t = s
      <4>1. byRandomId'[t] = Bind(byRandomId[t], n)
        BY <2>1, <3>1
      <4>2. /\ Bind(byRandomId[t], n).inFlight = byRandomId[t].inFlight
            /\ Bind(byRandomId[t], n).state # "ABSENT" => byRandomId[t].state # "ABSENT"
        BY <1>0, BindFields DEF Binds
      <4> QED BY <4>1, <4>2
    <3>2. CASE t # s
      BY <2>1, <3>2
    <3> QED BY <3>1, <3>2
  <2> QED BY <1>1, <1>8, <2>2 DEF RawAck, Running
<1>9. CASE CleanupStale
  BY <1>0, <1>1, <1>9, FirstRecordFields DEF CleanupStale, Running
<1>10. CASE Tick
  BY <1>0, <1>1, <1>10, RecordFields DEF Tick, Running
<1>11. CASE Disconnect
  BY <1>0, <1>1, <1>11, FirstRecordFields DEF Disconnect, Running
<1>12. CASE Connect \/ UNCHANGED vars
  BY <1>1, <1>12 DEF Connect, vars, Running
<1> QED BY <1>2, <1>3, <1>4, <1>5, <1>7, <1>8, <1>9, <1>10, <1>11, <1>12 DEF Next, CallStep

(* Without overlapping calls the sweep never takes a running call's        *)
(* correlation away.                                                       *)
THEOREM ActiveSendsSurviveCleanup ==
  ASSUME ~Overlap
  PROVE  Spec => ActiveSendNeverExpired
<1>1. Init => InFlightMarked
  BY DEF Init, InFlightMarked, Running
<1>2. TypeOK /\ CallsConsistent /\ Core /\ InFlightMarked /\ [Next]_vars => InFlightMarked'
  BY FlightStep
<1>3. CallsConsistent /\ InFlightMarked /\ [Next]_vars
        => [\A r \in RandomIds :
              (CleanupStale /\ Present(r) /\ ~Present(r)') => Active(r) = {}]_vars
  <2> SUFFICES ASSUME InFlightMarked, NEW r \in RandomIds, CleanupStale, Present(r), ~Present(r)',
                      NEW o \in Active(r)
               PROVE  FALSE
    OBVIOUS
  <2>1. Expired(r)
    BY DEF CleanupStale, Present
  <2>2. byRandomId[r].inFlight
    BY DEF InFlightMarked, Active, Running
  <2> QED BY <2>1, <2>2 DEF Expired
<1> QED BY <1>1, <1>2, <1>3, CoreCorrect, TypeCorrect, PTL DEF Spec, ActiveSendNeverExpired

-----------------------------------------------------------------------------
(* Every message of the agent was made by a request that is either still   *)
(* awaited as accepted or belongs to a call that is over.                  *)
MessagesHaveRequests ==
  \A k \in Keys : origin[k] \in RandomIds =>
    \E p \in Ops : target[p] = origin[k] /\ (wire[p] = "accepted" \/ pc[p] = "done")

LEMMA RequestsStep ==
  TypeOK /\ CallsConsistent /\ MessagesHaveRequests /\ [Next]_vars => MessagesHaveRequests'
<1> SUFFICES ASSUME TypeOK, CallsConsistent, MessagesHaveRequests, [Next]_vars
             PROVE  MessagesHaveRequests'
  OBVIOUS
<1> USE Names DEF calls, CallsConsistent, MessagesHaveRequests
<1>0. /\ pc \in [Ops -> {"idle", "waiting", "network", "done"}]
      /\ target \in [Ops -> RandomIds \cup {Nobody}]
      /\ wire \in [Ops -> {"none", "sent", "accepted"}]
      /\ origin \in [Keys -> RandomIds \cup {Manual, Nobody}]
  BY DEF TypeOK
<1>1. ASSUME origin' = origin,
             \A p \in Ops : (wire[p] = "accepted" \/ pc[p] = "done")
               => target'[p] = target[p] /\ (wire'[p] = "accepted" \/ pc'[p] = "done")
      PROVE  MessagesHaveRequests'
  BY <1>1
<1>2. ASSUME NEW o \in Ops, NEW r \in RandomIds, StartSend(o, r) \/ AbandonSend(o, r)
      PROVE  MessagesHaveRequests'
  BY <1>0, <1>1, <1>2 DEF StartSend, AbandonSend
<1>3. ASSUME NEW o \in Ops, Request(o) \/ RpcFloodWait(o) PROVE MessagesHaveRequests'
  BY <1>0, <1>1, <1>3 DEF Request, RpcFloodWait, FloodRetryAfter
<1>4. ASSUME NEW o \in Ops, RpcOk(o) \/ RpcRejected(o) \/ RpcAmbiguous(o) PROVE MessagesHaveRequests'
  BY <1>0, <1>1, <1>4 DEF RpcOk, RpcRejected, RpcAmbiguous, Return
<1>5. ASSUME NEW o \in Ops, ServerAccepts(o) PROVE MessagesHaveRequests'
  <2>1. /\ UNCHANGED <<pc, target>>
        /\ wire[o] = "sent"
        /\ wire' = [wire EXCEPT ![o] = IF pc[o] = "network" THEN "accepted" ELSE "none"]
    BY <1>5 DEF ServerAccepts
  <2>2. pc[o] \in {"network", "done"}
    BY <1>0, <2>1
  <2>3. wire'[o] = "accepted" \/ pc'[o] = "done"
    BY <1>0, <2>1, <2>2
  <2>4. \A p \in Ops \ {o} : wire'[p] = wire[p]
    BY <1>0, <2>1
  <2>5. \A k \in Keys : origin'[k] = origin[k] \/ origin'[k] = target[o]
    <3>1. CASE UNCHANGED origin
      BY <3>1
    <3>2. CASE \E n \in MsgIds : origin' = [origin EXCEPT ![<<ChatOf[target[o]], n>>] = target[o]]
      <4>1. PICK n \in MsgIds : origin' = [origin EXCEPT ![<<ChatOf[target[o]], n>>] = target[o]]
        BY <3>2
      <4> DEFINE j == <<ChatOf[target[o]], n>>
      <4>2. origin' = [origin EXCEPT ![j] = target[o]]
        BY <4>1
      <4> HIDE DEF j
      <4> QED BY <1>0, <4>2
    <3>3. UNCHANGED origin
            \/ \E n \in MsgIds : origin' = [origin EXCEPT ![<<ChatOf[target[o]], n>>] = target[o]]
      BY <1>5 DEF ServerAccepts
    <3> QED BY <3>1, <3>2, <3>3
  <2> QED BY <2>1, <2>3, <2>4, <2>5
<1>6. ASSUME NEW k \in Keys, ManualMessage(k) PROVE MessagesHaveRequests'
  BY <1>0, <1>6 DEF ManualMessage
<1>7. ASSUME NEW k \in Keys, OutgoingEvent(k) \/ PollFinds(k) \/ PollGivesUp(k)
      PROVE  MessagesHaveRequests'
  BY <1>1, <1>7 DEF OutgoingEvent, PollFinds, PollGivesUp, PollGivesUpUnchecked
<1>8. ASSUME NEW r \in RandomIds, NEW n \in MsgIds, RawAck(r, n) PROVE MessagesHaveRequests'
  BY <1>1, <1>8 DEF RawAck
<1>9. CASE CleanupStale \/ Tick \/ Disconnect \/ Connect \/ UNCHANGED vars
  BY <1>1, <1>9 DEF CleanupStale, Tick, Disconnect, Connect, vars
<1> QED BY <1>2, <1>3, <1>4, <1>5, <1>6, <1>7, <1>8, <1>9 DEF Next, CallStep, EventStep

(* A rejection of the only call of a random id leaves no message behind.   *)
THEOREM FirstRejectionsAreFinal == Spec => FirstRejectionMeansNeverSent
<1>1. Init => MessagesHaveRequests
  BY Names DEF Init, MessagesHaveRequests
<1>2. CallsConsistent /\ MessagesHaveRequests /\ [Next]_vars
        => [\A o \in Ops : (RpcRejected(o) /\ \A p \in Ops \ {o} : target[p] # target[o])
                             => \A k \in Keys : origin[k] # target[o]]_vars
  BY DEF CallsConsistent, MessagesHaveRequests, RpcRejected
<1> QED BY <1>1, <1>2, RequestsStep, CoreCorrect, TypeCorrect, PTL
        DEF Spec, FirstRejectionMeansNeverSent

-----------------------------------------------------------------------------
(* The tracker implements the abstract classifier.  The refinement maps    *)
(* its knowledge to the set of indexed messages; the inductive core gives  *)
(* what the abstract steps ask for, above all that only messages of the    *)
(* agent are ever learnt.                                                  *)
Known == {k \in Keys : byMessageKey[k] # Nobody}

PolledExist == \A k \in polling : origin[k] # Nobody

LEMMA PolledStep == TypeOK /\ PolledExist /\ [Next]_vars => PolledExist'
<1> SUFFICES ASSUME TypeOK, PolledExist, [Next]_vars PROVE PolledExist'
  OBVIOUS
<1> USE Names DEF PolledExist, calls, events
<1>0. /\ target \in [Ops -> RandomIds \cup {Nobody}]
      /\ origin \in [Keys -> RandomIds \cup {Manual, Nobody}]
      /\ polling \subseteq Keys
  BY DEF TypeOK
<1>1. ASSUME polling' \subseteq polling, origin' = origin PROVE PolledExist'
  BY <1>1
<1>2. ASSUME NEW o \in Ops, NEW r \in RandomIds, StartSend(o, r) \/ AbandonSend(o, r)
      PROVE  PolledExist'
  BY <1>1, <1>2 DEF StartSend, AbandonSend
<1>3. ASSUME NEW o \in Ops, ServerAccepts(o) PROVE PolledExist'
  <2>1. CASE UNCHANGED origin
    BY <1>1, <1>3, <2>1 DEF ServerAccepts
  <2>2. CASE \E n \in MsgIds : /\ origin[<<ChatOf[target[o]], n>>] = Nobody
                              /\ origin' = [origin EXCEPT ![<<ChatOf[target[o]], n>>] = target[o]]
    <3>1. PICK j : origin[j] = Nobody /\ origin' = [origin EXCEPT ![j] = target[o]]
      BY <2>2
    <3>2. \A k \in polling : k # j
      BY <3>1
    <3> QED BY <1>0, <1>3, <3>1, <3>2 DEF ServerAccepts
  <2> QED BY <1>3, <2>1, <2>2 DEF ServerAccepts
<1>4. ASSUME NEW o \in Ops, Request(o) \/ RpcOk(o) \/ RpcFloodWait(o) \/ RpcRejected(o) \/ RpcAmbiguous(o)
      PROVE  PolledExist'
  BY <1>1, <1>4 DEF Request, RpcOk, RpcFloodWait, FloodRetryAfter, RpcRejected, RpcAmbiguous
<1>5. ASSUME NEW k \in Keys, ManualMessage(k) PROVE PolledExist'
  BY <1>0, <1>5 DEF ManualMessage
<1>6. ASSUME NEW k \in Keys, OutgoingEvent(k) PROVE PolledExist'
  BY <1>6 DEF OutgoingEvent
<1>7. ASSUME NEW k \in Keys, PollFinds(k) \/ PollGivesUp(k) PROVE PolledExist'
  BY <1>1, <1>7 DEF PollFinds, PollGivesUp, PollGivesUpUnchecked
<1>8. ASSUME NEW r \in RandomIds, NEW n \in MsgIds, RawAck(r, n) PROVE PolledExist'
  BY <1>1, <1>8 DEF RawAck
<1>9. CASE CleanupStale \/ Tick \/ Disconnect \/ Connect \/ UNCHANGED vars
  BY <1>1, <1>9 DEF CleanupStale, Tick, Disconnect, Connect, vars
<1> QED BY <1>2, <1>3, <1>4, <1>5, <1>6, <1>7, <1>8, <1>9 DEF Next, CallStep, EventStep

(* The steps of the classifier, in terms of the tracker's variables.       *)
Learns(k) ==
  /\ origin[k] \in RandomIds
  /\ Known' = Known \cup {k}
  /\ UNCHANGED <<origin, verdict>>

Forgets == Known' \subseteq Known /\ UNCHANGED <<origin, verdict>>

Judges(k) ==
  /\ origin[k] # Nobody
  /\ verdict' = [verdict EXCEPT ![k] = IF k \in Known THEN "programmatic" ELSE "creator_manual"]
  /\ UNCHANGED origin
  /\ Known' = Known

Creates(k) ==
  /\ origin[k] = Nobody
  /\ \E who \in RandomIds \cup {Manual} : origin' = [origin EXCEPT ![k] = who]
  /\ UNCHANGED verdict
  /\ Known' = Known

AbstractStep ==
  \/ \E k \in Keys : Learns(k) \/ Judges(k) \/ Creates(k)
  \/ Forgets

LEMMA AbstractStepsAreClassifierSteps == AbstractStep => [Classifier!Next]_(Classifier!vars)
<1> SUFFICES ASSUME AbstractStep PROVE [Classifier!Next]_(Classifier!vars)
  OBVIOUS
<1>1. ASSUME NEW k \in Keys, Learns(k) PROVE Classifier!Learn(k)
  BY <1>1 DEF Learns, Known, Classifier!Learn
<1>2. ASSUME NEW k \in Keys, Judges(k) PROVE Classifier!Judge(k)
  BY <1>2 DEF Judges, Known, Classifier!Judge
<1>3. ASSUME NEW k \in Keys, Creates(k) PROVE Classifier!Create(k)
  BY <1>3 DEF Creates, Known, Classifier!Create
<1>4. ASSUME Forgets PROVE \E gone \in SUBSET Keys : Classifier!Forget(gone)
  <2>1. Known \ Known' \in SUBSET Keys
    BY DEF Known
  <2>2. Known' = Known \ (Known \ Known')
    BY <1>4 DEF Forgets
  <2>3. PICK gone \in SUBSET Keys : Known' = Known \ gone
    BY <2>1, <2>2
  <2>4. Classifier!Forget(gone)
    BY <1>4, <2>3 DEF Forgets, Known, Classifier!Forget
  <2> QED BY <2>4
<1> QED BY <1>1, <1>2, <1>3, <1>4 DEF AbstractStep, Classifier!Next

LEMMA IndexStep ==
  ASSUME TypeOK, NEW r \in RandomIds, NEW n \in MsgIds,
         origin[<<ChatOf[r], n>>] = r,
         byMessageKey' = Index(r, n),
         UNCHANGED <<origin, verdict>>
  PROVE  AbstractStep
<1> USE Names DEF TypeOK
<1>1. CASE Binds(byRandomId[r])
  <2> DEFINE k == <<ChatOf[r], n>>
  <2>1. k \in Keys /\ origin[k] = r
    OBVIOUS
  <2>2. byMessageKey' = [byMessageKey EXCEPT ![k] = r]
    BY <1>1 DEF Index, MessageKey
  <2> HIDE DEF k
  <2>3. Known' = Known \cup {k}
    BY <2>1, <2>2 DEF Known
  <2> QED BY <2>1, <2>3 DEF AbstractStep, Learns
<1>2. CASE ~Binds(byRandomId[r])
  BY <1>2 DEF Index, AbstractStep, Forgets, Known
<1> QED BY <1>1, <1>2

LEMMA ClassifierStep ==
  TypeOK /\ CallsConsistent /\ PolledExist /\ [Next]_vars => AbstractStep
<1> SUFFICES ASSUME TypeOK, CallsConsistent, PolledExist, [Next]_vars PROVE AbstractStep
  OBVIOUS
<1> USE Names DEF tracker, events
<1>0. /\ byMessageKey \in [Keys -> RandomIds \cup {Nobody}]
      /\ origin \in [Keys -> RandomIds \cup {Manual, Nobody}]
      /\ target \in [Ops -> RandomIds \cup {Nobody}]
      /\ polling \subseteq Keys
  BY DEF TypeOK
<1>1. ASSUME UNCHANGED <<byMessageKey, origin, verdict>> PROVE AbstractStep
  BY <1>1 DEF AbstractStep, Forgets, Known
<1>2. ASSUME NEW gone \in SUBSET RandomIds, byMessageKey' = Unindex(gone), UNCHANGED <<origin, verdict>>
      PROVE  AbstractStep
  <2>1. Known' \subseteq Known
    BY <1>2 DEF Unindex, Known
  <2> QED BY <1>2, <2>1 DEF AbstractStep, Forgets
<1>3. ASSUME NEW o \in Ops, NEW r \in RandomIds, StartSend(o, r) \/ AbandonSend(o, r) PROVE AbstractStep
  BY <1>1, <1>3 DEF StartSend, AbandonSend
<1>4. ASSUME NEW o \in Ops, Request(o) \/ RpcFloodWait(o) \/ RpcAmbiguous(o) PROVE AbstractStep
  BY <1>1, <1>4 DEF Request, RpcFloodWait, FloodRetryAfter, RpcAmbiguous
<1>5. ASSUME NEW o \in Ops, ServerAccepts(o) PROVE AbstractStep
  <2>1. UNCHANGED <<byMessageKey, verdict>> /\ Known' = Known
    BY <1>5 DEF ServerAccepts, Known
  <2>2. target[o] \in RandomIds
    BY <1>5 DEF ServerAccepts, CallsConsistent
  <2>3. CASE UNCHANGED origin
    BY <1>1, <2>1, <2>3
  <2>4. CASE \E n \in MsgIds : /\ origin[<<ChatOf[target[o]], n>>] = Nobody
                              /\ origin' = [origin EXCEPT ![<<ChatOf[target[o]], n>>] = target[o]]
    <3>1. PICK n \in MsgIds : /\ origin[<<ChatOf[target[o]], n>>] = Nobody
                             /\ origin' = [origin EXCEPT ![<<ChatOf[target[o]], n>>] = target[o]]
      BY <2>4
    <3>2. <<ChatOf[target[o]], n>> \in Keys
      BY <2>2
    <3>3. Creates(<<ChatOf[target[o]], n>>)
      BY <2>1, <2>2, <3>1 DEF Creates
    <3> QED BY <3>2, <3>3 DEF AbstractStep
  <2> QED BY <1>5, <2>3, <2>4 DEF ServerAccepts
<1>6. ASSUME NEW o \in Ops, RpcOk(o) PROVE AbstractStep
  <2>1. target[o] \in RandomIds
    BY <1>6 DEF RpcOk, CallsConsistent
  <2> QED BY <1>6, <2>1, IndexStep DEF RpcOk
<1>7. ASSUME NEW o \in Ops, RpcRejected(o) PROVE AbstractStep
  <2>1. target[o] \in RandomIds
    BY <1>7 DEF RpcRejected, CallsConsistent
  <2> QED BY <1>2, <1>7, <2>1 DEF RpcRejected
<1>8. ASSUME NEW k \in Keys, ManualMessage(k) PROVE AbstractStep
  BY <1>8 DEF ManualMessage, AbstractStep, Creates, Known
<1>9. ASSUME NEW k \in Keys, origin[k] # Nobody, Observe(k), UNCHANGED <<byMessageKey, origin>>
      PROVE  AbstractStep
  <2>1. k \in Known /\ Known' = Known
    BY <1>9 DEF Observe, Known
  <2>2. Judges(k)
    BY <1>9, <2>1 DEF Observe, Judges
  <2> QED BY <2>2 DEF AbstractStep
<1>10. ASSUME NEW k \in Keys, OutgoingEvent(k) PROVE AbstractStep
  BY <1>1, <1>9, <1>10 DEF OutgoingEvent
<1>11. ASSUME NEW k \in Keys, PollFinds(k) PROVE AbstractStep
  BY <1>9, <1>11 DEF PollFinds, PolledExist
<1>12. ASSUME NEW k \in Keys, PollGivesUp(k) PROVE AbstractStep
  <2>1. k \notin Known /\ Known' = Known /\ origin[k] # Nobody
    BY <1>12 DEF PollGivesUp, PollGivesUpUnchecked, Known, PolledExist
  <2>2. Judges(k)
    BY <1>12, <2>1 DEF PollGivesUp, PollGivesUpUnchecked, Judges
  <2> QED BY <2>2 DEF AbstractStep
<1>13. ASSUME NEW r \in RandomIds, NEW n \in MsgIds, RawAck(r, n) PROVE AbstractStep
  BY <1>13, IndexStep DEF RawAck
<1>14. CASE CleanupStale
  BY <1>2, <1>14 DEF CleanupStale
<1>15. CASE Disconnect
  <2>1. Known' \subseteq Known
    BY <1>15 DEF Disconnect, Known
  <2> QED BY <1>15, <2>1 DEF Disconnect, AbstractStep, Forgets
<1>16. CASE Tick \/ Connect \/ UNCHANGED vars
  BY <1>1, <1>16 DEF Tick, Connect, vars
<1> QED BY <1>3, <1>4, <1>5, <1>6, <1>7, <1>8, <1>10, <1>11, <1>12, <1>13, <1>14, <1>15, <1>16
        DEF Next, CallStep, EventStep

(* Every behaviour of the tracker is one of the abstract classifier.       *)
THEOREM TrackerImplementsClassifier == Spec => ImplementsClassifier
<1>1. Init => Classifier!Init
  BY DEF Init, Classifier!Init
<1>2. Init => PolledExist
  BY DEF Init, PolledExist
<1>3. TypeOK /\ CallsConsistent /\ PolledExist /\ [Next]_vars => [Classifier!Next]_(Classifier!vars)
  BY ClassifierStep, AbstractStepsAreClassifierSteps
<1> QED BY <1>1, <1>2, <1>3, PolledStep, CoreCorrect, TypeCorrect, PTL
        DEF Spec, ImplementsClassifier, Classifier!Spec
=============================================================================
