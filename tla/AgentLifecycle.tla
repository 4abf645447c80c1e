--------------------------- MODULE AgentLifecycle ---------------------------
(***************************************************************************)
(* agent/lifecycle.ts: the state machine behind start() and stop(), called *)
(* at any time by the process signals, the web UI, the management API and  *)
(* the mode switch.                                                        *)
(*                                                                         *)
(* Promise callbacks (Resume) run before anything else happens: a call,    *)
(* the end of a start or stop callback and its failure all wait until no   *)
(* resumption is pending.  Start and stop callbacks are registered, as     *)
(* they are by the application.                                            *)
(***************************************************************************)
CONSTANTS
  Calls,     (* callers of start() and stop(), one call at a time each       *)
  NoCall,    (* null                                                         *)
  ManyStops  (* may several stop() calls wait for the same start?            *)

ASSUME LifecycleAssumption == NoCall \notin Calls /\ ManyStops \in BOOLEAN

VARIABLES
  state,         (* the lifecycle's state                                    *)
  startPromise,  (* the call whose start is in progress                      *)
  stopPromise,   (* the call whose stop is in progress                       *)
  pc,            (* what each call is doing                                  *)
  on,            (* the call whose promise it waits for                      *)
  agent,         (* what the callbacks did to the agent: down, partial or up *)
  remains        (* parts are up that a stop callback failed to take down    *)

vars == <<state, startPromise, stopPromise, pc, on, agent, remains>>

Doing == {"idle", "startFn", "cleanup", "stopFn",  (* runs a callback        *)
          "joinStart", "joinStop",                 (* shares a promise       *)
          "awaitStart", "resume"}                  (* stop() behind a start  *)

At(places) == {c \in Calls : pc[c] \in places}
InCallback == At({"startFn", "cleanup", "stopFn"})
Quiet == At({"resume"}) = {}

Init ==
  /\ state = "stopped"
  /\ startPromise = NoCall /\ stopPromise = NoCall
  /\ pc = [c \in Calls |-> "idle"]
  /\ on = [c \in Calls |-> NoCall]
  /\ agent = "down" /\ remains = FALSE

(* The promise of call c settles: the calls that share it return, the      *)
(* stop() calls that wait for it go on as next says.                       *)
SettleFor(c, sharing, next) ==
  /\ pc' = [d \in Calls |-> CASE d = c -> "idle"
                              [] d # c /\ on[d] = c /\ pc[d] \in sharing -> "idle"
                              [] d # c /\ on[d] = c /\ pc[d] = "awaitStart" -> next
                              [] OTHER -> pc[d]]
  /\ on' = [d \in Calls |-> IF on[d] = c /\ pc[d] \in sharing \cup {"awaitStart"}
                            THEN NoCall ELSE on[d]]
SettleStarters(c, next) == SettleFor(c, {"joinStart"}, next)
Settle(c, next) == SettleFor(c, {"joinStart", "joinStop"}, next)

Wait(c, place, promise) ==
  /\ pc' = [pc EXCEPT ![c] = place]
  /\ on' = [on EXCEPT ![c] = promise]
  /\ UNCHANGED <<state, startPromise, stopPromise, agent, remains>>

(* The stop callback is over, r says whether something remains up.         *)
TakenDown(r) ==
  /\ agent' = IF r THEN "partial" ELSE "down"
  /\ remains' = r

-----------------------------------------------------------------------------
(* start(): a no-op while running, an error while stopping.                *)
BeginStart(c) ==
  /\ Quiet
  /\ pc[c] = "idle"
  /\ state = "stopped"
  /\ state' = "starting"
  /\ startPromise' = c
  /\ pc' = [pc EXCEPT ![c] = "startFn"]
  /\ agent' = "partial"
  /\ UNCHANGED <<stopPromise, on, remains>>

JoinStart(c) ==
  /\ Quiet
  /\ pc[c] = "idle"
  /\ state = "starting"
  /\ Wait(c, "joinStart", startPromise)

EndStart(c, next) ==
  /\ Quiet
  /\ pc[c] = "startFn"
  /\ state' = "running"
  /\ startPromise' = NoCall
  /\ agent' = "up"
  /\ Settle(c, next)
  /\ UNCHANGED <<stopPromise, remains>>
StartSucceedsAndStopsReturn(c) == EndStart(c, "idle")
StartSucceeds(c) == EndStart(c, "resume")

(* A failed start runs the registered stop callback before it reports.     *)
StartFailsUncleaned(c) ==
  /\ Quiet
  /\ pc[c] = "startFn"
  /\ state' = "stopped"
  /\ startPromise' = NoCall
  /\ Settle(c, "idle")
  /\ UNCHANGED <<stopPromise, agent, remains>>
StartFails(c) ==
  /\ Quiet
  /\ pc[c] = "startFn"
  /\ pc' = [pc EXCEPT ![c] = "cleanup"]
  /\ UNCHANGED <<state, startPromise, stopPromise, on, agent, remains>>

EndCleanup(c, final) ==
  /\ Quiet
  /\ pc[c] = "cleanup"
  /\ state' = final
  /\ startPromise' = NoCall
  /\ Settle(c, "idle")
  /\ UNCHANGED stopPromise

(* It may reach what an earlier one left up, or not.                       *)
CleanupEndsFailed(c) == EndCleanup(c, "failed") /\ \E r \in {FALSE, remains} : TakenDown(r)
CleanupEnds(c) == EndCleanup(c, "stopped") /\ \E r \in {FALSE, remains} : TakenDown(r)

(* It throws, or one of its parts fails and is logged: nobody is told.     *)
CleanupBreaks(c) == EndCleanup(c, "stopped") /\ TakenDown(TRUE)

-----------------------------------------------------------------------------
(* stop(): a no-op while stopped.                                          *)
BeginStop(c) ==
  /\ state' = "stopping"
  /\ stopPromise' = c
  /\ pc' = [pc EXCEPT ![c] = "stopFn"]
  /\ agent' = "partial"
  /\ UNCHANGED <<startPromise, on, remains>>

StopWithoutWaiting(c) ==
  /\ Quiet
  /\ pc[c] = "idle"
  /\ state \in {"running", "starting"}
  /\ BeginStop(c)
Stop(c) ==
  /\ Quiet
  /\ pc[c] = "idle"
  /\ state = "running"
  /\ BeginStop(c)

JoinStop(c) ==
  /\ Quiet
  /\ pc[c] = "idle"
  /\ state = "stopping"
  /\ Wait(c, "joinStop", stopPromise)

StopWaits(c) ==
  /\ Quiet
  /\ pc[c] = "idle"
  /\ state = "starting"
  /\ ManyStops \/ At({"awaitStart"}) = {}
  /\ Wait(c, "awaitStart", startPromise)

(* The awaited start has succeeded.  The state is not looked at again.     *)
Resume(c) == pc[c] = "resume" /\ BeginStop(c)

EndStop(c) ==
  /\ Quiet
  /\ pc[c] = "stopFn"
  /\ state' = "stopped"
  /\ stopPromise' = NoCall
  /\ Settle(c, "idle")
  /\ UNCHANGED startPromise
StopEnds(c) == EndStop(c) /\ \E r \in {FALSE, remains} : TakenDown(r)

(* A stop callback that throws is logged, and the state is "stopped".      *)
StopBreaks(c) == EndStop(c) /\ TakenDown(TRUE)

-----------------------------------------------------------------------------
CallStep(c) == BeginStart(c) \/ JoinStart(c) \/ Stop(c) \/ JoinStop(c) \/ StopWaits(c)
Progress(c) ==
  \/ StartSucceeds(c) \/ StartFails(c) \/ CleanupEnds(c) \/ CleanupBreaks(c)
  \/ Resume(c) \/ StopEnds(c) \/ StopBreaks(c)

Next == \E c \in Calls : CallStep(c) \/ Progress(c)

(* Callbacks end.                                                          *)
Fairness == \A c \in Calls : WF_vars(Progress(c))

Spec == Init /\ [][Next]_vars
FairSpec == Spec /\ Fairness

-----------------------------------------------------------------------------
TypeOK ==
  /\ state \in {"stopped", "starting", "running", "stopping"}
  /\ startPromise \in Calls \cup {NoCall}
  /\ stopPromise \in Calls \cup {NoCall}
  /\ pc \in [Calls -> Doing]
  /\ on \in [Calls -> Calls \cup {NoCall}]
  /\ agent \in {"down", "partial", "up"}
  /\ remains \in BOOLEAN

(* The callbacks build and tear down the same bridge, database handles and *)
(* plugins: no two of them are ever under way together, whoever calls      *)
(* start() and stop() meanwhile.                                           *)
OneCallback == \A c, d \in InCallback : c = d

(* What getState() reports is what the callbacks left behind, and the      *)
(* promise of a start or stop in progress is there to be shared: "stopped" *)
(* is never said of an agent that nobody has tried to take down, only of   *)
(* one that is down or that a stop callback failed on.                     *)
StateTruthful ==
  /\ state = "starting" <=> startPromise # NoCall
  /\ state = "stopping" <=> stopPromise # NoCall
  /\ state = "running" => agent = "up"
  /\ state = "stopped" => agent = "down" \/ remains

(* After "await lifecycle.stop()" the application closes the database: a   *)
(* stop() call, whether it ran the callback, joined another or waited for  *)
(* a start, returns only when no callback runs and the agent is down, but  *)
(* for what a stop callback failed on, which is logged and not reported.   *)
StopReturnsWhenDown ==
  [][\A c \in At({"stopFn", "joinStop", "awaitStart", "resume"}) :
       pc'[c] = "idle" => (agent' = "down" \/ remains') /\ InCallback' = {}]_vars

(* Every call returns and the lifecycle never stays between two states.    *)
EveryCallReturns == \A c \in Calls : pc[c] # "idle" ~> pc[c] = "idle"

-----------------------------------------------------------------------------
(* A statement the code does not keep when two stop() calls wait for the   *)
(* same start.  "Returns existing promise if already stopping": there is   *)
(* one stop callback at a time.                                            *)
OneStopAtATime == \A c, d \in At({"stopFn"}) : c = d
=============================================================================
