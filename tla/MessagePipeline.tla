--------------------------- MODULE MessagePipeline ---------------------------
(***************************************************************************)
(* The way of an incoming message to the agent: the debouncer              *)
(* (telegram/debounce.ts), the message handler with its deduplication,     *)
(* pending group history and per-chat queue (telegram/handlers.ts,         *)
(* memory/pending-history.ts), the persisted offsets                       *)
(* (telegram/offset-store.ts) and the shutdown of index.ts.                *)
(*                                                                         *)
(* A delivery is one event of the client; a message may be delivered again *)
(* (other update channels, edits, reconnections, restarts).  An action is  *)
(* one synchronous segment of the event loop; what waits for another       *)
(* delivery goes on in a step of its own, so that anything may come in     *)
(* between.  The messages are those that reach handleMessage from a bridge *)
(* that needs offsets: commands, gifts and paused agents are left out.     *)
(*                                                                         *)
(* Whether the agent may answer is decided for each event, from the text   *)
(* it brings and the policies of that moment.  A message that is edited    *)
(* (a mention comes or goes), or delivered again after a policy changed,   *)
(* is Fickle: each of its events may be decided either way.                *)
(***************************************************************************)
EXTENDS Naturals, Sequences, FiniteSets

CONSTANTS
  Chats,
  Messages,       (* message ids; they grow with the time of sending         *)
  ChatOf,
  Groups,         (* the chats that are groups                               *)
  Debounced,      (* messages shouldDebounce holds for                       *)
  Addressed,      (* messages every event of which is for the agent          *)
  Fickle,         (* messages of which some events are, others not           *)
  MaxDeliveries,  (* bound on the events                                     *)
  MaxBuffer,      (* maxBufferSize                                           *)
  MaxRecent,      (* DEDUP_MAX_SIZE                                          *)
  MaxHistory,     (* MAX_PENDING_PER_CHAT                                    *)
  MaxConcurrent, MaxPending,  (* of the chat queue                           *)
  MaxRestarts     (* bound on process restarts                               *)

ASSUME PipelineAssumption ==
  /\ Messages \subseteq Nat \ {0}
  /\ ChatOf \in [Messages -> Chats]
  /\ Groups \subseteq Chats
  /\ Debounced \subseteq {m \in Messages : ChatOf[m] \in Groups}
  /\ Addressed \subseteq Messages
  /\ Fickle \subseteq Messages \ Addressed
  /\ {MaxDeliveries, MaxRestarts} \subseteq Nat
  /\ {MaxBuffer, MaxRecent, MaxHistory, MaxConcurrent, MaxPending} \subseteq Nat \ {0}

(* Deliveries are numbered in the order in which they reach the debouncer. *)
Deliveries == 1 .. MaxDeliveries
None == 0

VARIABLES
  msg,       (* the message of each delivery                                 *)
  pc,        (* where each delivery is                                       *)
  after,     (* the delivery that must end before it goes on                 *)
  buffers,   (* the debounce buffer of each chat                             *)
  recent,    (* recentMessageIds, oldest first                               *)
  history,   (* the pending history of each chat, oldest first               *)
  chains,    (* the last delivery in the queue of each chat                  *)
  active,    (* activeTasks                                                  *)
  waiting,   (* waitQueue                                                    *)
  pending,   (* pendingTasks                                                 *)
  offset,    (* the cached offsets                                           *)
  saved,     (* the offsets on disk                                          *)
  stage,     (* running, or how far stopAgent is                             *)
  toFlush,   (* the chats flushAll still has to flush                        *)
  awaited,   (* the deliveries stopAgent waits for                           *)
  restarts

deliveries == <<msg, pc, after>>
debouncer == <<buffers, recent>>
queue == <<chains, active, waiting, pending>>
offsets == <<offset, saved>>
shutdown == <<stage, toFlush, awaited, restarts>>
vars == <<deliveries, debouncer, history, queue, offsets, shutdown>>

Queued == {"chained", "waiting", "started", "turn"}
InWork == {"buffered", "blocked", "batched", "storing"} \cup Queued
Ended == {"dropped", "answered", "failed"}
Stages == {"absent", "lost", "gone"} \cup InWork \cup Ended

At(places) == {d \in Deliveries : pc[d] \in places}
Chat(d) == ChatOf[msg[d]]
Over(d) == d # None => pc[d] \in Ended

Elements(s) == {s[i] : i \in DOMAIN s}

Init ==
  /\ msg = [d \in Deliveries |-> None]
  /\ pc = [d \in Deliveries |-> "absent"]
  /\ after = [d \in Deliveries |-> None]
  /\ buffers = [c \in Chats |-> {}]
  /\ recent = <<>>
  /\ history = [c \in Chats |-> <<>>]
  /\ chains = [c \in Chats |-> None]
  /\ active = 0 /\ waiting = <<>> /\ pending = 0
  /\ offset = [c \in Chats |-> 0]
  /\ saved = [c \in Chats |-> 0]
  /\ stage = "running" /\ toFlush = {} /\ awaited = {}
  /\ restarts = 0

-----------------------------------------------------------------------------
(* handleMessage up to its first await: a message seen recently is         *)
(* dropped, any other is remembered, and the older half is forgotten when  *)
(* there are too many.                                                     *)
FirstStage(m) == IF m \in Elements(recent) THEN "dropped" ELSE "storing"

Remembering(m) ==
  LET more == Append(recent, m)
  IN  IF m \in Elements(recent) THEN recent
      ELSE IF Len(more) <= MaxRecent THEN more
      ELSE SubSeq(more, (Len(more) \div 2) + 1, Len(more))

(* flushKey: the messages of the buffer, by time of sending, become a      *)
(* batch that is handled one after the other, the first one at once.       *)
Before(d, e) == msg[d] < msg[e] \/ (msg[d] = msg[e] /\ d < e)
Earlier(c, d) == {e \in buffers[c] : Before(e, d)}

FirstOf(c) == CHOOSE d \in buffers[c] : Earlier(c, d) = {}
LastOf(c) == CHOOSE d \in buffers[c] : \A e \in buffers[c] \ {d} : Before(e, d)
Predecessor(c, d) ==
  IF d = FirstOf(c) THEN None
  ELSE CHOOSE e \in Earlier(c, d) : \A f \in Earlier(c, d) \ {e} : Before(f, e)

FlushedPc(c) ==
  [d \in Deliveries |-> IF d \notin buffers[c] THEN pc[d]
                        ELSE IF d = FirstOf(c) THEN FirstStage(msg[d]) ELSE "batched"]
FlushedAfter(c) ==
  [d \in Deliveries |-> IF d \in buffers[c] THEN Predecessor(c, d) ELSE after[d]]

Flushes(c) ==
  /\ recent' = Remembering(msg[FirstOf(c)])
  /\ buffers' = [buffers EXCEPT ![c] = {}]

-----------------------------------------------------------------------------
(* onNewMessage and onEditedMessage: the debouncer's enqueue.              *)
Arrives(d, m) ==
  /\ stage = "running"
  /\ pc[d] = "absent"
  /\ \A e \in Deliveries : e < d => pc[e] # "absent"
  /\ msg' = [msg EXCEPT ![d] = m]
  /\ UNCHANGED <<history, queue, offsets, shutdown>>

ArriveAtOnce(d, m) ==
  /\ Arrives(d, m)
  /\ m \notin Debounced
  /\ buffers[ChatOf[m]] = {}
  /\ pc' = [pc EXCEPT ![d] = FirstStage(m)]
  /\ recent' = Remembering(m)
  /\ UNCHANGED <<after, buffers>>

ArriveBuffered(d, m) ==
  /\ Arrives(d, m)
  /\ m \in Debounced
  /\ Cardinality(buffers[ChatOf[m]]) < MaxBuffer
  /\ pc' = [pc EXCEPT ![d] = "buffered"]
  /\ buffers' = [buffers EXCEPT ![ChatOf[m]] = @ \cup {d}]
  /\ UNCHANGED <<after, recent>>

(* An immediate message, or one that finds the buffer full, flushes the    *)
(* buffer and waits until the batch is handled.                            *)
ArriveFlushing(d, m) ==
  LET c == ChatOf[m]
  IN  /\ Arrives(d, m)
      /\ buffers[c] # {}
      /\ m \in Debounced => Cardinality(buffers[c]) >= MaxBuffer
      /\ pc' = [FlushedPc(c) EXCEPT ![d] = IF m \in Debounced THEN "blocked" ELSE "batched"]
      /\ after' = [FlushedAfter(c) EXCEPT ![d] = LastOf(c)]
      /\ Flushes(c)

(* The debounce timer.                                                     *)
FlushTimer(c) ==
  /\ buffers[c] # {}
  /\ pc' = FlushedPc(c)
  /\ after' = FlushedAfter(c)
  /\ Flushes(c)
  /\ UNCHANGED <<msg, history, queue, offsets, shutdown>>

(* The batch a blocked message waited for is handled: a new buffer takes   *)
(* the place of whatever buffer there is now.                              *)
Rebuffer(d) ==
  LET c == Chat(d)
  IN  /\ pc[d] = "blocked"
      /\ Over(after[d])
      /\ pc' = [e \in Deliveries |-> IF e = d THEN "buffered"
                                     ELSE IF e \in buffers[c] THEN "lost" ELSE pc[e]]
      /\ after' = [after EXCEPT ![d] = None]
      /\ buffers' = [buffers EXCEPT ![c] = {d}]
      /\ UNCHANGED <<msg, recent, history, queue, offsets, shutdown>>

(* The next message of a batch.                                            *)
Continue(d) ==
  /\ pc[d] = "batched"
  /\ Over(after[d])
  /\ pc' = [pc EXCEPT ![d] = FirstStage(msg[d])]
  /\ after' = [after EXCEPT ![d] = None]
  /\ recent' = Remembering(msg[d])
  /\ UNCHANGED <<msg, buffers, history, queue, offsets, shutdown>>

-----------------------------------------------------------------------------
(* handleMessage once the message is stored in the feed.                   *)
Processed(d) == msg[d] <= offset[Chat(d)]

(* analyzeMessage                                                          *)
MayAnswer(d) == msg[d] \in Addressed \cup Fickle /\ ~Processed(d)
MayIgnore(d) == msg[d] \notin Addressed \/ Processed(d)

(* addMessage: the oldest messages make room.                              *)
NotedKeeping(c, m, n) ==
  LET room == IF Len(history[c]) < MaxHistory THEN history[c]
              ELSE SubSeq(history[c], Len(history[c]) - n + 1, Len(history[c]))
  IN  [history EXCEPT ![c] = Append(room, m)]
NotedOneTooMany(c, m) == NotedKeeping(c, m, MaxHistory)
Noted(c, m) == NotedKeeping(c, m, MaxHistory - 1)

Note(d) == history' = IF Chat(d) \in Groups THEN Noted(Chat(d), msg[d]) ELSE history

Ignore(d) ==
  /\ pc[d] = "storing"
  /\ MayIgnore(d)
  /\ Note(d)
  /\ pc' = [pc EXCEPT ![d] = "dropped"]
  /\ UNCHANGED <<msg, after, debouncer, queue, offsets, shutdown>>

(* The rate limiter, or a chat queue that is full.                         *)
Turned(d) ==
  /\ pc[d] = "storing"
  /\ MayAnswer(d)
  /\ pc' = [pc EXCEPT ![d] = "dropped"]
  /\ UNCHANGED <<msg, after, debouncer, history, queue, offsets, shutdown>>

EnqueueUnnoted(d) ==
  /\ pc[d] = "storing"
  /\ MayAnswer(d)
  /\ pending < MaxPending
  /\ pending' = pending + 1
  /\ pc' = [pc EXCEPT ![d] = "chained"]
  /\ after' = [after EXCEPT ![d] = chains[Chat(d)]]
  /\ chains' = [chains EXCEPT ![Chat(d)] = d]
  /\ UNCHANGED <<msg, debouncer, active, waiting, offsets, shutdown>>

EnqueueNotingAll(d) == EnqueueUnnoted(d) /\ Note(d)
Enqueue(d) == EnqueueUnnoted(d) /\ UNCHANGED history

(* acquireSlot, once the previous message of the chat is done.             *)
AcquireSlot(d) ==
  /\ pc[d] = "chained"
  /\ Over(after[d])
  /\ after' = [after EXCEPT ![d] = None]
  /\ \/ /\ active < MaxConcurrent
        /\ active' = active + 1
        /\ pc' = [pc EXCEPT ![d] = "started"]
        /\ UNCHANGED waiting
     \/ /\ active >= MaxConcurrent
        /\ waiting' = Append(waiting, d)
        /\ pc' = [pc EXCEPT ![d] = "waiting"]
        /\ UNCHANGED active
  /\ UNCHANGED <<msg, debouncer, history, chains, pending, offsets, shutdown>>

(* The task: check the offset again, take the pending history, run the     *)
(* agent.                                                                  *)
StartTurnUnchecked(d) ==
  /\ pc[d] = "started"
  /\ pc' = [pc EXCEPT ![d] = "turn"]
  /\ history' = [history EXCEPT ![Chat(d)] = <<>>]
  /\ UNCHANGED <<msg, after, debouncer, queue, offsets, shutdown>>
StartTurn(d) == StartTurnUnchecked(d) /\ ~Processed(d)

(* The task ends.  releaseSlot gives the slot to the first that waits.     *)
ReleaseSlotTo(d, to, left) ==
  IF waiting = <<>>
  THEN /\ active' = active - 1
       /\ pc' = [pc EXCEPT ![d] = to]
       /\ UNCHANGED waiting
  ELSE /\ active' = left
       /\ pc' = [pc EXCEPT ![d] = to, ![Head(waiting)] = "started"]
       /\ waiting' = Tail(waiting)

ReleaseSlotUncounted(d, to) == ReleaseSlotTo(d, to, active - 1)
ReleaseSlotSilently(d, to) ==
  active' = active - 1 /\ pc' = [pc EXCEPT ![d] = to] /\ UNCHANGED waiting
ReleaseSlot(d, to) == ReleaseSlotTo(d, to, active)

(* The chain of the chat ends with its last message.                       *)
UnchainAlways(d) == chains' = [chains EXCEPT ![Chat(d)] = None]
Unchain(d) == chains' = [chains EXCEPT ![Chat(d)] = IF @ = d THEN None ELSE @]

EndTask(d, to) ==
  /\ pending' = pending - 1
  /\ ReleaseSlot(d, to)
  /\ Unchain(d)
  /\ UNCHANGED <<msg, after, debouncer, shutdown>>

SkipTurn(d) ==
  /\ pc[d] = "started"
  /\ Processed(d)
  /\ EndTask(d, "dropped")
  /\ UNCHANGED <<history, offsets>>

(* writeOffset: never backwards; the write to the disk may fail.           *)
WriteOffsetGlobally(d) ==
  /\ offset' = [c \in Chats |-> IF msg[d] > offset[c] THEN msg[d] ELSE offset[c]]
  /\ saved' = offset'
WriteOffset(d) ==
  IF msg[d] > offset[Chat(d)]
  THEN /\ offset' = [offset EXCEPT ![Chat(d)] = msg[d]]
       /\ saved' \in {offset', saved}
  ELSE UNCHANGED offsets

(* The reply is sent and stored; what came into the pending history        *)
(* meanwhile is thrown away.                                               *)
Answer(d) ==
  /\ pc[d] = "turn"
  /\ EndTask(d, "answered")
  /\ history' = [history EXCEPT ![Chat(d)] = <<>>]
  /\ WriteOffset(d)

(* The provider fails and the user is told so.                             *)
Apologize(d) ==
  /\ pc[d] = "turn"
  /\ EndTask(d, "answered")
  /\ WriteOffset(d)
  /\ UNCHANGED history

(* The reply, or the apology, cannot be sent.                              *)
Fail(d) ==
  /\ pc[d] = "turn"
  /\ EndTask(d, "failed")
  /\ UNCHANGED <<history, offsets>>

-----------------------------------------------------------------------------
(* stopAgent: no more messages, flush the buffers, wait for the queues as  *)
(* they are then, disconnect.                                              *)
Shutdown(from, to) ==
  /\ stage = from
  /\ \A d \in awaited : Over(d)
  /\ stage' = to
  /\ UNCHANGED restarts

StopBegins ==
  /\ Shutdown("running", "quiescing")
  /\ UNCHANGED <<deliveries, debouncer, history, queue, offsets, toFlush, awaited>>

FlushAllBegins ==
  /\ Shutdown("quiescing", "flushing")
  /\ toFlush' = {c \in Chats : buffers[c] # {}}
  /\ UNCHANGED <<deliveries, debouncer, history, queue, offsets, awaited>>

FlushAllNext(c) ==
  /\ Shutdown("flushing", "flushing")
  /\ c \in toFlush
  /\ toFlush' = toFlush \ {c}
  /\ IF buffers[c] = {}
     THEN awaited' = {} /\ UNCHANGED <<pc, after, debouncer>>
     ELSE /\ awaited' = {LastOf(c)}
          /\ pc' = FlushedPc(c)
          /\ after' = FlushedAfter(c)
          /\ Flushes(c)
  /\ UNCHANGED <<msg, history, queue, offsets>>

DrainBegins ==
  /\ Shutdown("flushing", "draining")
  /\ toFlush = {}
  /\ awaited' = {chains[c] : c \in Chats} \ {None}
  /\ UNCHANGED <<deliveries, debouncer, history, queue, offsets, toFlush>>

Disconnect ==
  /\ Shutdown("draining", "stopped")
  /\ awaited' = {}
  /\ UNCHANGED <<deliveries, debouncer, history, queue, offsets, toFlush>>

(* The process ends, in whatever state it is, and starts again: only the   *)
(* offsets on disk are left, and a message beyond them counts as never     *)
(* answered.                                                               *)
Restart ==
  /\ restarts < MaxRestarts
  /\ restarts' = restarts + 1
  /\ pc' = [d \in Deliveries |->
              IF pc[d] \in InWork \/ (pc[d] = "answered" /\ msg[d] > saved[Chat(d)])
              THEN "gone" ELSE pc[d]]
  /\ after' = [d \in Deliveries |-> None]
  /\ buffers' = [c \in Chats |-> {}]
  /\ recent' = <<>>
  /\ history' = [c \in Chats |-> <<>>]
  /\ chains' = [c \in Chats |-> None]
  /\ active' = 0 /\ waiting' = <<>> /\ pending' = 0
  /\ offset' = saved
  /\ stage' = "running" /\ toFlush' = {} /\ awaited' = {}
  /\ UNCHANGED <<msg, saved>>

-----------------------------------------------------------------------------
Arrive(d, m) == ArriveAtOnce(d, m) \/ ArriveBuffered(d, m) \/ ArriveFlushing(d, m)
EndTurn(d) == Answer(d) \/ Apologize(d) \/ Fail(d)
Step(d) ==
  \/ Rebuffer(d) \/ Continue(d)
  \/ Ignore(d) \/ Turned(d) \/ Enqueue(d)
  \/ AcquireSlot(d) \/ StartTurn(d) \/ SkipTurn(d) \/ EndTurn(d)
Stop ==
  \/ StopBegins \/ FlushAllBegins \/ DrainBegins \/ Disconnect
  \/ \E c \in Chats : FlushAllNext(c)

Next ==
  \/ \E d \in Deliveries : Step(d) \/ \E m \in Messages : Arrive(d, m)
  \/ \E c \in Chats : FlushTimer(c)
  \/ Stop
  \/ Restart

(* Timers fire, promise callbacks run, and the feed, the agent and         *)
(* Telegram answer sooner or later.                                        *)
Fairness ==
  /\ \A d \in Deliveries : WF_vars(Step(d))
  /\ \A c \in Chats : WF_vars(FlushTimer(c))

Spec == Init /\ [][Next]_vars
FairSpec == Spec /\ Fairness

-----------------------------------------------------------------------------
TypeOK ==
  /\ msg \in [Deliveries -> Messages \cup {None}]
  /\ pc \in [Deliveries -> Stages]
  /\ after \in [Deliveries -> Deliveries \cup {None}]
  /\ buffers \in [Chats -> SUBSET Deliveries]
  /\ \A c \in Chats : Cardinality(buffers[c]) <= MaxBuffer
  /\ recent \in Seq(Messages) /\ Len(recent) <= MaxRecent
  /\ history \in [Chats -> Seq(Messages)]
  /\ \A c \in Chats : Len(history[c]) <= MaxHistory
  /\ chains \in [Chats -> Deliveries \cup {None}]
  /\ active \in 0 .. MaxConcurrent /\ pending \in 0 .. MaxPending
  /\ waiting \in Seq(Deliveries)
  /\ offset \in [Chats -> Messages \cup {0}]
  /\ saved \in [Chats -> Messages \cup {0}]
  /\ stage \in {"running", "quiescing", "flushing", "draining", "stopped"}
  /\ toFlush \subseteq Chats
  /\ awaited \subseteq Deliveries
  /\ restarts \in 0 .. MaxRestarts

(* The counters of the chat queue count the tasks under way, and no task   *)
(* waits for a slot while one is free.                                     *)
QueueExact ==
  /\ active = Cardinality(At({"started", "turn"}))
  /\ pending = Cardinality(At(Queued))
  /\ waiting # <<>> => active = MaxConcurrent

(* "Messages wait their turn per chat": at most one message of a chat is   *)
(* past the queue, and all others that are queued came after it.           *)
OneTaskPerChat ==
  \A d, e \in At(Queued) :
    (d # e /\ Chat(d) = Chat(e) /\ pc[d] # "chained") => pc[e] = "chained"

(* A message that is for the agent is never shown to it as "chat messages  *)
(* since your last reply" while it may still get a turn of its own: it     *)
(* comes into the history only as already answered, whatever duplicates,   *)
(* overtaking and edits of other messages do.  A message that an edit or a *)
(* policy turns into one for the agent (Fickle) may have been shown.       *)
PromptIsNotContext ==
  \A c \in Chats : \A m \in Elements(history[c]) : m \in Addressed => m <= offset[c]

(* No message is answered twice: once the offset of an answer is on the    *)
(* disk, no duplicate event, edit, queue wait, forgotten deduplication     *)
(* entry or restart gives the message a second turn.                       *)
NoSecondTurn ==
  [][\A d, e \in Deliveries :
       (pc[d] # "turn" /\ pc'[d] = "turn" /\ pc[e] = "answered") => msg[d] # msg[e]]_vars

(* Every delivery gets through the pipeline, unless a restart or a buffer  *)
(* overwritten while it was being flushed swallows it: batches, chains and *)
(* slots never wait for each other.                                        *)
EveryDeliveryEnds == \A d \in Deliveries : pc[d] \in InWork ~> pc[d] \notin InWork

(* The pipeline implements the abstract inbox.                             *)
Answering(c) == {d \in At({"turn"}) : Chat(d) = c}
Turn(c) == IF Answering(c) = {} THEN 0 ELSE msg[CHOOSE d \in Answering(c) : TRUE]
TurnOf == [c \in Chats |-> Turn(c)]

Abstract == INSTANCE Inbox WITH mark <- offset, durable <- saved, turn <- TurnOf
ImplementsInbox == Abstract!Spec

-----------------------------------------------------------------------------
(* Statements the code does not keep.                                      *)

(* "Keeps the update retryable when the error notification cannot be       *)
(* delivered": an event for a message whose turn failed, that nothing else *)
(* has answered or is answering, is not thrown away as a duplicate.        *)
FailedStaysRetryable ==
  [][\A d, e \in Deliveries :
       (/\ pc[e] = "failed" /\ msg[e] > offset[Chat(e)]
        /\ \A f \in Deliveries : msg[f] = msg[e] => pc[f] \notin {"storing"} \cup Queued
        /\ msg'[d] = msg[e] /\ pc'[d] # pc[d])
         => pc'[d] # "dropped"]_vars

(* "Drain in-flight message processing before disconnecting": no message   *)
(* that was accepted is still on its way when the bridge disconnects.      *)
NothingLeftWhenStopped == stage = "stopped" => At(InWork) = {}
=============================================================================
