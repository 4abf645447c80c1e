--------------------------- MODULE OutgoingTracker ---------------------------
(***************************************************************************)
(* The correlation store for the agent's own Telegram sends                *)
(* (telegram/outgoing-tracker.ts) together with everything that drives it: *)
(* the tracked sends of the user bridge and their flood retries            *)
(* (telegram/bridges/user.ts, telegram/flood-retry.ts), the raw            *)
(* UpdateMessageID stream, the classification of outgoing events and the   *)
(* periodic cleanup.  The Telegram servers are the environment.            *)
(*                                                                         *)
(* An action is one synchronous segment of the event loop: whatever the    *)
(* code does between two awaits happens in one step.                       *)
(***************************************************************************)
EXTENDS Naturals

CONSTANTS
  RandomIds,     (* transport random ids, one per logical send               *)
  Ops,           (* calls of a send method of the bridge, each made once     *)
  Chats,
  MsgIds,        (* message ids within a chat                                *)
  ChatOf,        (* the chat of each logical send                            *)
  Manual,        (* author of a message typed by the owner                   *)
  Nobody,        (* no author, no record                                     *)
  NoMsg,         (* telegramMessageId is undefined                           *)
  MaxRetries,    (* DEFAULT_MAX_RETRIES of withFloodRetry                    *)
  ReservedTtl,   (* the three windows of cleanupStale, in clock ticks        *)
  ObservedTtl,
  AmbiguousTtl,
  Retry,         (* may a caller pass a transportRandomId it used before?    *)
  Overlap,       (* ... even while an earlier call with it is active?        *)
  MaxDisconnects (* bound on bridge restarts                                 *)

Keys == Chats \X MsgIds

ASSUME TrackerAssumption ==
  /\ ChatOf \in [RandomIds -> Chats]
  /\ NoMsg \notin MsgIds
  /\ Manual \notin RandomIds
  /\ Nobody \notin RandomIds
  /\ Manual # Nobody
  /\ MaxRetries \in Nat
  /\ ReservedTtl \in Nat
  /\ ObservedTtl \in Nat
  /\ AmbiguousTtl \in Nat
  /\ ReservedTtl <= AmbiguousTtl
  /\ ObservedTtl <= AmbiguousTtl
  /\ Retry \in BOOLEAN
  /\ Overlap \in BOOLEAN
  /\ MaxDisconnects \in Nat

VARIABLES
  byRandomId,    (* random id -> its record (state ABSENT: no record)        *)
  byMessageKey,  (* (chat, message id) -> random id of the bound record      *)
  connected,     (* the bridge is connected and its cleanup timer runs       *)
  disconnects,   (* restarts so far (bounded by MaxDisconnects)              *)
  pc,            (* where each call is                                       *)
  target,        (* the random id each call sends with                       *)
  attempt,       (* flood-retry attempt of each call                         *)
  wire,          (* its last request: none, sent, or accepted (and awaited)  *)
  origin,        (* the messages on the servers: key -> author               *)
  polling,       (* outgoing events waiting for an acknowledgement           *)
  verdict        (* the last classification given for each message           *)

tracker == <<byRandomId, byMessageKey>>
bridge == <<connected, disconnects>>
calls == <<pc, target, attempt, wire>>
events == <<polling, verdict>>
vars == <<tracker, bridge, calls, origin, events>>

-----------------------------------------------------------------------------
(* Records.  age counts the ticks since stateUpdatedAt and stops once it   *)
(* is past every window.                                                   *)

States == {"ABSENT", "RESERVED", "SENDING", "ACKNOWLEDGED", "OBSERVED", "AMBIGUOUS"}
Records == [state : States, msg : MsgIds \cup {NoMsg}, inFlight : BOOLEAN,
            age : 0 .. AmbiguousTtl + 1]

NoRecord == [state |-> "ABSENT", msg |-> NoMsg, inFlight |-> FALSE, age |-> 0]
Reserved == [state |-> "RESERVED", msg |-> NoMsg, inFlight |-> FALSE, age |-> 0]

Present(r) == byRandomId[r].state # "ABSENT"

MessageKeyNoChat(r, n) == <<CHOOSE c \in Chats : TRUE, n>>
MessageKey(r, n) == <<ChatOf[r], n>>

Active(r) == {o \in Ops : pc[o] \in {"waiting", "network"} /\ target[o] = r}

(* resolveTransportRandomId followed by beginOperation and markSending:    *)
(* an absent record is reserved afresh, an existing one is reused as it    *)
(* is.                                                                     *)
Begin(rec) ==
  [(IF rec.state = "ABSENT" THEN Reserved ELSE rec)
     EXCEPT !.state = "SENDING", !.inFlight = TRUE, !.age = 0]

End(rec) ==
  IF rec.state = "ABSENT" THEN rec ELSE [rec EXCEPT !.inFlight = FALSE, !.age = 0]

MarkAmbiguousAsFailed(rec) ==
  IF rec.state = "ABSENT" THEN rec ELSE [rec EXCEPT !.state = "FAILED", !.age = 0]
MarkAmbiguousKeepsState(rec) ==
  IF rec.state = "ABSENT" THEN rec ELSE [rec EXCEPT !.age = 0]
MarkAmbiguous(rec) ==
  IF rec.state = "ABSENT" THEN rec ELSE [rec EXCEPT !.state = "AMBIGUOUS", !.age = 0]

(* acknowledge: only a present record without a message id is bound; a     *)
(* repeated or conflicting acknowledgement changes nothing.                *)
Binds(rec) == rec.state # "ABSENT" /\ rec.msg = NoMsg

Bind(rec, n) ==
  IF Binds(rec) THEN [rec EXCEPT !.msg = n, !.state = "ACKNOWLEDGED", !.age = 0] ELSE rec

Index(r, n) ==
  IF Binds(byRandomId[r])
  THEN [byMessageKey EXCEPT ![MessageKey(r, n)] = r]
  ELSE byMessageKey

(* The index without the entries of the records in gone.                   *)
UnindexNothing(gone) == byMessageKey
Unindex(gone) ==
  [k \in Keys |->
     IF \E r \in gone : byRandomId[r].msg # NoMsg /\ k = MessageKey(r, byRandomId[r].msg)
     THEN Nobody ELSE byMessageKey[k]]

-----------------------------------------------------------------------------
Init ==
  /\ byRandomId = [r \in RandomIds |-> NoRecord]
  /\ byMessageKey = [k \in Keys |-> Nobody]
  /\ connected = TRUE
  /\ disconnects = 0
  /\ pc = [o \in Ops |-> "idle"]
  /\ target = [o \in Ops |-> Nobody]
  /\ attempt = [o \in Ops |-> 0]
  /\ wire = [o \in Ops |-> "none"]
  /\ origin = [k \in Keys |-> Nobody]
  /\ polling = {}
  /\ verdict = [k \in Keys |-> "none"]

(* Which random ids a caller may send with: a fresh one, or its own again  *)
(* unless the record says the message is already there (the code throws).  *)
MayUse(r) ==
  /\ byRandomId[r].state \notin {"ACKNOWLEDGED", "OBSERVED"}
  /\ \/ \A o \in Ops : target[o] # r
     \/ Retry /\ (Overlap \/ Active(r) = {})

(* sendMessage / sendPhoto / ...: resolve the random id, then the part of  *)
(* runTrackedSend up to the wait for the chat's flood gate.                *)
StartSend(o, r) ==
  /\ pc[o] = "idle"
  /\ MayUse(r)
  /\ byRandomId' = [byRandomId EXCEPT ![r] = Begin(@)]
  /\ pc' = [pc EXCEPT ![o] = "waiting"]
  /\ target' = [target EXCEPT ![o] = r]
  /\ UNCHANGED <<byMessageKey, bridge, attempt, wire, origin, events>>

(* sendMessage reserves the random id before it builds the inline keyboard *)
(* and a malformed button throws in between: the record stays RESERVED.    *)
AbandonSend(o, r) ==
  /\ pc[o] = "idle"
  /\ MayUse(r)
  /\ byRandomId' = [byRandomId EXCEPT ![r] = IF @.state = "ABSENT" THEN Reserved ELSE @]
  /\ pc' = [pc EXCEPT ![o] = "done"]
  /\ target' = [target EXCEPT ![o] = r]
  /\ UNCHANGED <<byMessageKey, bridge, attempt, wire, origin, events>>

(* The gate (or the flood wait of a retry) has passed: one more request.   *)
Request(o) ==
  /\ pc[o] = "waiting"
  /\ pc' = [pc EXCEPT ![o] = "network"]
  /\ wire' = [wire EXCEPT ![o] = IF connected THEN "sent" ELSE "none"]
  /\ UNCHANGED <<tracker, bridge, target, attempt, origin, events>>

(* Telegram executes a request, even one its caller has given up on.  The  *)
(* server knows a random id it has seen and makes no second message.       *)
ServerAccepts(o) ==
  /\ wire[o] = "sent"
  /\ wire' = [wire EXCEPT ![o] = IF pc[o] = "network" THEN "accepted" ELSE "none"]
  /\ \/ /\ \E k \in Keys : origin[k] = target[o]
        /\ UNCHANGED origin
     \/ /\ \A k \in Keys : origin[k] # target[o]
        /\ \E n \in MsgIds :
             LET k == <<ChatOf[target[o]], n>>
             IN  /\ origin[k] = Nobody
                 /\ origin' = [origin EXCEPT ![k] = target[o]]
  /\ UNCHANGED <<tracker, bridge, pc, target, attempt, events>>

(* A call returns or throws: its local attempt counter is gone.            *)
Return(o) ==
  /\ pc' = [pc EXCEPT ![o] = "done"]
  /\ attempt' = [attempt EXCEPT ![o] = 0]

(* The RPC result carries the message id: acknowledge, then the finally    *)
(* block.                                                                  *)
RpcOk(o) ==
  LET r == target[o]
  IN  /\ pc[o] = "network"
      /\ connected
      /\ wire[o] = "accepted"
      /\ \E n \in MsgIds :
           /\ origin[<<ChatOf[r], n>>] = r
           /\ byRandomId' = [byRandomId EXCEPT ![r] = End(Bind(@, n))]
           /\ byMessageKey' = Index(r, n)
      /\ Return(o)
      /\ wire' = [wire EXCEPT ![o] = "none"]
      /\ UNCHANGED <<bridge, target, origin, events>>

(* FLOOD_WAIT within the limits: the request was refused, wait and try the *)
(* same random id again.                                                   *)
FloodRetryAfter(o, outcomes) ==
  /\ pc[o] = "network"
  /\ connected
  /\ wire[o] \in outcomes
  /\ attempt[o] < MaxRetries
  /\ pc' = [pc EXCEPT ![o] = "waiting"]
  /\ attempt' = [attempt EXCEPT ![o] = @ + 1]
  /\ wire' = [wire EXCEPT ![o] = "none"]
  /\ UNCHANGED <<tracker, bridge, target, origin, events>>
RpcRetryAnyError(o) == FloodRetryAfter(o, {"sent", "accepted"})
RpcFloodWait(o) == FloodRetryAfter(o, {"sent"})

(* A rejection (or a flood wait too long, or one too many): the request    *)
(* was refused.  markDefiniteFailure removes the record and its binding;   *)
(* endOperation then finds no record.                                      *)
RpcRejected(o) ==
  LET r == target[o]
  IN  /\ pc[o] = "network"
      /\ connected
      /\ wire[o] = "sent"
      /\ byMessageKey' = Unindex({r})
      /\ byRandomId' = [byRandomId EXCEPT ![r] = NoRecord]
      /\ Return(o)
      /\ wire' = [wire EXCEPT ![o] = "none"]
      /\ UNCHANGED <<bridge, target, origin, events>>

(* Timeout, lost connection, 5xx, RANDOM_ID_DUPLICATE or a result without  *)
(* a message id: the outcome is unknown.  The request may still be         *)
(* accepted later.                                                         *)
RpcAmbiguous(o) ==
  LET r == target[o]
  IN  /\ pc[o] = "network"
      /\ byRandomId' = [byRandomId EXCEPT ![r] = End(MarkAmbiguous(@))]
      /\ Return(o)
      /\ wire' = [wire EXCEPT ![o] = IF @ = "accepted" THEN "none" ELSE @]
      /\ UNCHANGED <<byMessageKey, bridge, target, origin, events>>

(* The raw UpdateMessageID handler.  The update names the random id and    *)
(* the message id, not the chat; it may arrive again at any time.          *)
RawAck(r, n) ==
  /\ connected
  /\ origin[<<ChatOf[r], n>>] = r
  /\ byRandomId' = [byRandomId EXCEPT ![r] = Bind(@, n)]
  /\ byMessageKey' = Index(r, n)
  /\ UNCHANGED <<bridge, calls, origin, events>>

-----------------------------------------------------------------------------
(* observe: a bound message is programmatic, and its record, once          *)
(* acknowledged, is OBSERVED.                                              *)
Seen(rec) ==
  IF rec.state = "ACKNOWLEDGED" THEN [rec EXCEPT !.state = "OBSERVED", !.age = 0] ELSE rec

Observe(k) ==
  LET r == byMessageKey[k]
  IN  /\ r # Nobody
      /\ verdict' = [verdict EXCEPT ![k] = "programmatic"]
      /\ byRandomId' = [byRandomId EXCEPT ![r] = Seen(@)]

(* The owner types a message on another device.                            *)
ManualMessage(k) ==
  /\ origin[k] = Nobody
  /\ origin' = [origin EXCEPT ![k] = Manual]
  /\ UNCHANGED <<tracker, bridge, calls, events>>

(* classifyOutgoing on a new or edited outgoing message: an exact binding  *)
(* answers at once, anything else starts the bounded wait.                 *)
OutgoingEvent(k) ==
  /\ connected
  /\ origin[k] # Nobody
  /\ \/ /\ Observe(k)
        /\ UNCHANGED polling
     \/ /\ byMessageKey[k] = Nobody
        /\ polling' = polling \cup {k}
        /\ UNCHANGED <<byRandomId, verdict>>
  /\ UNCHANGED <<byMessageKey, bridge, calls, origin>>

(* A poll finds the binding.                                               *)
PollFinds(k) ==
  /\ k \in polling
  /\ Observe(k)
  /\ polling' = polling \ {k}
  /\ UNCHANGED <<byMessageKey, bridge, calls, origin>>

(* The last poll before the deadline finds none.                           *)
PollGivesUpUnchecked(k) ==
  /\ k \in polling
  /\ verdict' = [verdict EXCEPT ![k] = "creator_manual"]
  /\ polling' = polling \ {k}
  /\ UNCHANGED <<tracker, bridge, calls, origin>>
PollGivesUp(k) ==
  /\ byMessageKey[k] = Nobody
  /\ PollGivesUpUnchecked(k)

-----------------------------------------------------------------------------
Window(state) ==
  CASE state = "RESERVED" -> ReservedTtl
    [] state = "AMBIGUOUS" -> AmbiguousTtl
    [] OTHER -> ObservedTtl

ExpiredEvenInFlight(r) ==
  /\ byRandomId[r].state \notin {"ABSENT", "SENDING"}
  /\ byRandomId[r].age > Window(byRandomId[r].state)
ExpiredSparesAcknowledged(r) ==
  /\ ~byRandomId[r].inFlight
  /\ byRandomId[r].state \notin {"ABSENT", "SENDING", "ACKNOWLEDGED"}
  /\ byRandomId[r].age > Window(byRandomId[r].state)
Expired(r) ==
  /\ ~byRandomId[r].inFlight
  /\ byRandomId[r].state \notin {"ABSENT", "SENDING"}
  /\ byRandomId[r].age > Window(byRandomId[r].state)

(* cleanupStale: one sweep removes every expired record.                   *)
CleanupStale ==
  LET gone == {r \in RandomIds : Expired(r)}
  IN  /\ connected
      /\ gone # {}
      /\ byMessageKey' = Unindex(gone)
      /\ byRandomId' = [r \in RandomIds |-> IF r \in gone THEN NoRecord ELSE byRandomId[r]]
      /\ UNCHANGED <<bridge, calls, origin, events>>

Older(rec) ==
  IF rec.state # "ABSENT" /\ rec.age <= AmbiguousTtl THEN [rec EXCEPT !.age = @ + 1] ELSE rec

Tick ==
  /\ byRandomId' = [r \in RandomIds |-> Older(byRandomId[r])]
  /\ byRandomId' # byRandomId
  /\ UNCHANGED <<byMessageKey, bridge, calls, origin, events>>

(* disconnect: stopCleanup and clear, whatever is still being sent.        *)
Disconnect ==
  /\ connected
  /\ disconnects < MaxDisconnects
  /\ connected' = FALSE
  /\ disconnects' = disconnects + 1
  /\ byRandomId' = [r \in RandomIds |-> NoRecord]
  /\ byMessageKey' = [k \in Keys |-> Nobody]
  /\ UNCHANGED <<calls, origin, events>>

Connect ==
  /\ ~connected
  /\ connected' = TRUE
  /\ UNCHANGED <<tracker, disconnects, calls, origin, events>>

-----------------------------------------------------------------------------
CallStep(o) ==
  \/ \E r \in RandomIds : StartSend(o, r) \/ AbandonSend(o, r)
  \/ Request(o)
  \/ ServerAccepts(o)
  \/ RpcOk(o)
  \/ RpcFloodWait(o)
  \/ RpcRejected(o)
  \/ RpcAmbiguous(o)

EventStep(k) ==
  \/ ManualMessage(k)
  \/ OutgoingEvent(k)
  \/ PollFinds(k)
  \/ PollGivesUp(k)

Next ==
  \/ \E o \in Ops : CallStep(o)
  \/ \E k \in Keys : EventStep(k)
  \/ \E r \in RandomIds, n \in MsgIds : RawAck(r, n)
  \/ CleanupStale
  \/ Tick
  \/ Disconnect
  \/ Connect

(* The clock runs and the sweep timer fires while the bridge is connected. *)
(* Nothing is assumed of Telegram or of the callers.                       *)
Fairness == WF_vars(Tick) /\ WF_vars(CleanupStale)

Spec == Init /\ [][Next]_vars
FairSpec == Spec /\ Fairness

-----------------------------------------------------------------------------
TypeOK ==
  /\ byRandomId \in [RandomIds -> Records]
  /\ byMessageKey \in [Keys -> RandomIds \cup {Nobody}]
  /\ connected \in BOOLEAN
  /\ disconnects \in 0 .. MaxDisconnects
  /\ pc \in [Ops -> {"idle", "waiting", "network", "done"}]
  /\ target \in [Ops -> RandomIds \cup {Nobody}]
  /\ attempt \in [Ops -> 0 .. MaxRetries]
  /\ wire \in [Ops -> {"none", "sent", "accepted"}]
  /\ origin \in [Keys -> RandomIds \cup {Manual, Nobody}]
  /\ polling \subseteq Keys
  /\ verdict \in [Keys -> {"none", "programmatic", "creator_manual"}]

(* The two maps of the tracker hold the same bindings: an index entry      *)
(* leads to a record bound to exactly that message, and every bound record *)
(* is found under its message.  Five code paths write one or both maps     *)
(* (acknowledge, markDefiniteFailure, cleanupStale, clear and the retry    *)
(* that reserves again).                                                   *)
IndexesAgree ==
  \A r \in RandomIds, c \in Chats, n \in MsgIds :
    byMessageKey[<<c, n>>] = r <=> byRandomId[r].msg = n /\ ChatOf[r] = c

(* "Classification is EXACT ONLY": whatever is called programmatic was     *)
(* written by a send of this process, even when message ids of different   *)
(* chats coincide and acknowledgements come late, twice or after a         *)
(* restart.                                                                *)
ExactClassification ==
  \A k \in Keys : verdict[k] = "programmatic" => origin[k] \in RandomIds

(* A record left in SENDING by a call that is over has been bound before   *)
(* (a repeated acknowledgement does not touch the state): a retry that     *)
(* succeeds after an ambiguous failure does that.  cleanupStale never      *)
(* expires SENDING, so any other such record would be a leak.              *)
IdleSendingIsBound ==
  \A r \in RandomIds :
    (byRandomId[r].state = "SENDING" /\ Active(r) = {}) => byRandomId[r].msg # NoMsg

(* The sweep never takes the correlation of a call that is still running,  *)
(* however long its uploads, flood waits and network delays last.          *)
ActiveSendNeverExpired ==
  [][\A r \in RandomIds : (CleanupStale /\ Present(r) /\ ~Present(r)') => Active(r) = {}]_vars

(* "Only then may the pending correlation be dropped": when the only call  *)
(* that ever sent with a random id is rejected, after any number of flood  *)
(* waits, there is no message of that id whose correlation would be lost.  *)
(* With an earlier ambiguous call of the same id the code cannot promise   *)
(* this.                                                                   *)
FirstRejectionMeansNeverSent ==
  [][\A o \in Ops :
       (RpcRejected(o) /\ \A p \in Ops \ {o} : target[p] # target[o])
         => \A k \in Keys : origin[k] # target[o]]_vars

(* Every abandoned correlation goes away (SENDING excepted, see            *)
(* IdleSendingIsBound): nothing is retained for ever once its call is over, *)
(* unless it is used again or the bridge is disconnected.                  *)
AbandonedRecordsExpire ==
  \A r \in RandomIds :
    (Present(r) /\ byRandomId[r].state # "SENDING" /\ Active(r) = {})
      ~> (~Present(r) \/ Active(r) # {} \/ ~connected)

(* The tracker implements the abstract classifier: its knowledge is the    *)
(* set of indexed messages.                                                *)
Classifier ==
  INSTANCE OutgoingClassifier WITH known <- {k \in Keys : byMessageKey[k] # Nobody}
ImplementsClassifier == Classifier!Spec
=============================================================================
