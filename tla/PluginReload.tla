---------------------------- MODULE PluginReload ----------------------------
(***************************************************************************)
(* agent/tools/plugin-watcher.ts with what it moves about: the loaded      *)
(* modules, the tools of agent/tools/registry.ts, the hooks of             *)
(* sdk/hooks/registry.ts and the runtime that adaptPlugin wraps.  A plugin *)
(* whose file changes is read, checked, and put in the place of the        *)
(* running one; when that fails half way the old one is put back.          *)
(*                                                                         *)
(* A step lasts from one await to the next.                                *)
(***************************************************************************)
EXTENDS Integers, SequencesExt

CONSTANTS
  Dirs,        (* directories of plugins                                     *)
  Names,       (* names in manifests                                         *)
  NamesOf,     (* of a directory: the names its manifests may give           *)
  Factories,   (* modules that make their tools by a function, from the SDK  *)
  None,
  MaxEdits     (* bound on the changes of files                              *)

(* The watcher looks a module up by directory or by name: no manifest has  *)
(* the name of another directory.                                          *)
ASSUME PluginAssumption ==
  /\ MaxEdits \in Nat
  /\ NamesOf \in [Dirs -> SUBSET Names \ {{}}]
  /\ \A d \in Dirs, e \in Dirs : e \in NamesOf[d] => e = d
  /\ Factories \subseteq [dir : Dirs, try : 0 .. MaxEdits, name : Names]
  /\ None \notin [dir : Dirs, try : 0 .. MaxEdits, name : Names]

VARIABLES
  file,        (* of a directory: version and name in the manifest           *)
  tried,       (* the version that the last reload saw                       *)
  tries,       (* reloads of a directory that read it                        *)
  edits,
  modules,     (* the module loaded from a directory                         *)
  tools,       (* under a name: the module whose tools are registered        *)
  hooks,       (* under a name: the modules that registered a hook           *)
  active,      (* modules between start and stop                             *)
  db,          (* <<module, handle>>: pluginDb                               *)
  open,        (* <<module, handle>>: handles not closed                     *)
  late,        (* <<module, handle>>: what a stop that timed out will close  *)
  sdk,         (* <<module, handle>>: pluginSdk, 0 when made without database *)
  overdue,     (* modules whose start timed out when they were put back      *)
  noticed,     (* changes that the file watcher has still to report          *)
  timers,      (* reloadTimers                                               *)
  pending,     (* pendingReloads                                             *)
  reload,      (* the reload in progress                                     *)
  watcher      (* on, and the stages of stop: closing, draining, off         *)

disk == <<file, edits>>
attempts == <<tried, tries>>
registries == <<tools, hooks>>
runtime == <<active, db, open, late, sdk, overdue>>
queue == <<noticed, timers, pending>>
vars == <<disk, attempts, modules, registries, runtime, queue, reload, watcher>>

Instances == [dir : Dirs, try : 0 .. MaxEdits, name : Names]
Handles == 1 .. MaxEdits + 1
Idle == [at |-> "idle"]
Phases == {"deps", "import", "stopping", "starting", "restoring"}

(* Every directory holds a plugin; one that failed at boot is not loaded.  *)
Init ==
  /\ file \in [Dirs -> [ver : {0}, name : Names]]
  /\ \A d \in Dirs : file[d].name \in NamesOf[d]
  /\ tried = [d \in Dirs |-> 0] /\ tries = tried /\ edits = 0
  /\ modules \in [Dirs -> Instances \cup {None}]
  /\ \A d \in Dirs : modules[d] \in
       {None, [dir |-> d, try |-> 0, name |-> file[d].name]}
  /\ \A d, e \in Dirs : d # e /\ None \notin {modules[d], modules[e]} =>
       modules[d].name # modules[e].name
  /\ active = {modules[d] : d \in Dirs} \ {None}
  /\ tools = [n \in Names |-> IF \E m \in active : m.name = n
                              THEN CHOOSE m \in active : m.name = n ELSE None]
  /\ hooks = [n \in Names |-> IF tools[n] = None THEN <<>> ELSE <<tools[n]>>]
  /\ db = active \X {1} /\ open = db /\ late = {} /\ sdk = db /\ overdue = {}
  /\ noticed = {} /\ timers = {} /\ pending = <<>>
  /\ reload = Idle /\ watcher = "on"

-----------------------------------------------------------------------------
(* adaptPlugin.  migrate opens the database of the plugin; stop takes it   *)
(* away at once and closes it when the plugin has stopped.  The SDK is made *)
(* with the database of the moment when it is first asked for, and kept.   *)
HandleOf(m) == {x \in db : x[1] = m}
SdkOf(m) == {x \in sdk : x[1] = m}
GetSdk(s, m, o) ==
  IF \E x \in s : x[1] = m THEN s
  ELSE s \cup (IF \E x \in o : x[1] = m THEN {x \in o : x[1] = m} ELSE {<<m, 0>>})
Migrate(m, o) ==
  LET h == <<m, CHOOSE x \in Handles : <<m, x>> \notin o>>
  IN db' = (db \ HandleOf(m)) \cup {h} /\ open' = o \cup {h}
CallStop(m) ==
  /\ active' = active \ {m}
  /\ db' = db \ HandleOf(m)
  /\ reload' = [reload EXCEPT !.at = "stopping", !.held = HandleOf(m)]

(* ToolRegistry and HookRegistry.  A plugin of the first load registers    *)
(* its hooks with the registry in use, a candidate with one of its own.    *)
RemoveTools(t, ns) == [n \in Names |-> IF n \in ns THEN None ELSE t[n]]
Unregister(h, ns) == [n \in Names |-> IF n \in ns THEN <<>> ELSE h[n]]
ReplayHooks(h, m) == IF m.try = 0 THEN [h EXCEPT ![m.name] = Append(@, m)] ELSE h

-----------------------------------------------------------------------------
(* Files change; the watcher reports a change when the file has settled.   *)
Edit(d, n) ==
  /\ edits < MaxEdits
  /\ edits' = edits + 1
  /\ file' = [file EXCEPT ![d] = [ver |-> @.ver + 1, name |-> n]]
  /\ noticed' = IF watcher \in {"on", "closing"} THEN noticed \cup {d} ELSE noticed
  /\ UNCHANGED <<attempts, modules, registries, runtime, timers, pending, reload, watcher>>

(* scheduleReload, with a timer that every change starts anew.             *)
Stopping == watcher # "on"
Notice(d) ==
  /\ d \in noticed /\ noticed' = noticed \ {d}
  /\ timers' = IF Stopping THEN timers ELSE timers \cup {d}
  /\ UNCHANGED <<disk, attempts, modules, registries, runtime, pending, reload, watcher>>

-----------------------------------------------------------------------------
(* reloadPlugin, begun by the timer.  One at a time, the others queue.     *)
EnqueueAlways(q, d) == Append(q, d)
Enqueue(q, d) == IF d \in Range(q) THEN q ELSE Append(q, d)
Begin(d) ==
  LET m == modules[d]
  IN reload' = [at |-> "deps", dir |-> d, old |-> m, cand |-> None, held |-> {},
                hooks |-> IF m = None THEN <<>> ELSE hooks[m.name]]
Fire(d) ==
  /\ d \in timers /\ timers' = timers \ {d}
  /\ IF reload = Idle
     THEN Begin(d) /\ UNCHANGED pending
     ELSE pending' = Enqueue(pending, d) /\ UNCHANGED reload
  /\ UNCHANGED <<disk, attempts, modules, registries, runtime, noticed, watcher>>

(* The finally block: the first of the queue gets a timer.                 *)
FinishAndForget ==
  /\ reload' = Idle
  /\ pending' = <<>>
  /\ UNCHANGED <<noticed, timers>>
Finish ==
  /\ reload' = Idle
  /\ IF Stopping \/ pending = <<>>
     THEN UNCHANGED <<timers, pending>>
     ELSE timers' = timers \cup {Head(pending)} /\ pending' = Tail(pending)
  /\ UNCHANGED noticed

(* Dependencies are installed, the file is read and evaluated.             *)
Read ==
  LET d == reload.dir
  IN /\ reload.at = "deps"
     /\ tried' = [tried EXCEPT ![d] = file[d].ver]
     /\ tries' = [tries EXCEPT ![d] = @ + 1]
     /\ reload' = [reload EXCEPT !.at = "import",
                     !.cand = [dir |-> d, try |-> tries'[d], name |-> file[d].name]]
     /\ UNCHANGED <<disk, modules, registries, runtime, queue, watcher>>

(* It is missing, not trusted, does not load or does not validate: the old *)
(* one has not been touched.                                               *)
Reject ==
  /\ reload.at = "import"
  /\ Finish
  /\ UNCHANGED <<disk, attempts, modules, registries, runtime, watcher>>

(* It is valid, as the tools that it returns show: when they come from a   *)
(* function, the call makes its SDK.  A running plugin is stopped first.   *)
AfterTools(c) == IF c \in Factories THEN GetSdk(sdk, c, db) ELSE sdk
Conflict(c) == \E d \in Dirs \ {c.dir} : modules[d] # None /\ modules[d].name = c.name
Valid == reload.at = "import" /\ ~Conflict(reload.cand)
Validate ==
  /\ Valid
  /\ reload.old # None
  /\ CallStop(reload.old)
  /\ sdk' = AfterTools(reload.cand) \ SdkOf(reload.old)
  /\ UNCHANGED <<disk, attempts, modules, registries, open, late, overdue, queue, watcher>>

-----------------------------------------------------------------------------
(* The database is migrated, tools and hooks are replaced, and start is    *)
(* called, all in one step.                                                *)
OldName == IF reload.old = None THEN reload.dir ELSE reload.old.name
Replace(o, s) ==
  LET c == reload.cand
  IN /\ Migrate(c, o)
     /\ tools' = [RemoveTools(tools, {OldName} \cap Names) EXCEPT ![c.name] = c]
     /\ hooks' = [Unregister(hooks, {OldName} \cap Names) EXCEPT ![c.name] = <<c>>]
     /\ active' = active \cup {c}
     /\ sdk' = GetSdk(s, c, db')
     /\ reload' = [reload EXCEPT !.at = "starting"]
     /\ UNCHANGED <<modules, queue>>

(* The catch block.  The old plugin gets its database, tools and start     *)
(* again; if one of these throws, the plugin is disabled.  A module that   *)
(* is dropped takes its SDK along.                                         *)
Restore(o) ==
  LET m == reload.old
      c == reload.cand
  IN /\ Migrate(m, o)
     /\ tools' = [RemoveTools(tools, {c.name}) EXCEPT ![m.name] = m]
     /\ hooks' = ReplayHooks(Unregister(hooks, {c.name}), m)
     /\ active' = active \cup {m}
     /\ sdk' = GetSdk(sdk \ SdkOf(c), m, db')
     /\ reload' = [reload EXCEPT !.at = "restoring"]
     /\ UNCHANGED <<modules, queue>>
Disable ==
  LET ns == {reload.cand.name, reload.old.name}
  IN /\ tools' = RemoveTools(tools, ns)
     /\ hooks' = Unregister(hooks, ns)
     /\ modules' = [modules EXCEPT ![reload.dir] = None]
     /\ sdk' = sdk \ (SdkOf(reload.cand) \cup SdkOf(reload.old))
     /\ Finish
GiveUp(o) ==
  /\ Disable
  /\ Migrate(reload.old, o) \/ (open' = o /\ UNCHANGED db)
  /\ UNCHANGED active
RollBack(o) == Restore(o) \/ GiveUp(o)

Rest == <<disk, attempts, overdue, watcher>>
Stopped ==
  /\ reload.at = "stopping"
  /\ Replace(open \ reload.held, sdk) \/ RollBack(open \ reload.held)
  /\ UNCHANGED <<Rest, late>>
StopTimesOut ==
  /\ reload.at = "stopping" /\ reload.held # {}
  /\ Replace(open, sdk) \/ RollBack(open)
  /\ late' = late \cup reload.held
  /\ UNCHANGED Rest

(* A plugin that was not loaded.  A migration that fails leaves nothing.   *)
ValidateNew ==
  /\ Valid /\ reload.old = None
  /\ Replace(open, AfterTools(reload.cand))
  /\ UNCHANGED <<Rest, late>>

Started ==
  /\ reload.at = "starting"
  /\ hooks' = [hooks EXCEPT ![reload.cand.name] = <<reload.cand>>]
  /\ modules' = [modules EXCEPT ![reload.dir] = reload.cand]
  /\ Finish
  /\ UNCHANGED <<Rest, tools, runtime>>
StartFails == reload.at = "starting" /\ reload.old # None /\ RollBack(open) /\ UNCHANGED <<Rest, late>>
Withdraw ==
  /\ reload.at = "starting" /\ reload.old = None
  /\ tools' = RemoveTools(tools, {reload.cand.name})
  /\ hooks' = Unregister(hooks, {reload.cand.name})
  /\ sdk' = sdk \ SdkOf(reload.cand)
  /\ Finish
  /\ UNCHANGED <<Rest, modules, active, db, open, late>>

(* Building the tools may have registered the hooks of the old plugin a    *)
(* second time: they are put back as they were.                            *)
ReplayedHooks == hooks
RestoredHooks == [hooks EXCEPT ![OldName] = reload.hooks]
Restored ==
  /\ reload.at = "restoring"
  /\ hooks' = RestoredHooks
  /\ Finish
  /\ UNCHANGED <<Rest, modules, tools, runtime>>
RestoreFails ==
  /\ reload.at = "restoring"
  /\ Disable
  /\ overdue' \in {overdue, overdue \cup {m \in {reload.old} : m.try = 0}}
  /\ UNCHANGED <<disk, attempts, active, db, open, late, watcher>>

(* A stop that timed out ends after all and closes what it took away.      *)
LateStop(x) ==
  /\ x \in late /\ late' = late \ {x}
  /\ open' = open \ {x}
  /\ UNCHANGED <<Rest, modules, registries, active, db, sdk, queue, reload>>

(* A start that timed out goes on.  One of a plugin of the first load may  *)
(* still register hooks, with the registry in use.                         *)
LateStart(m) ==
  /\ m \in overdue /\ m \notin Range(hooks[m.name])
  /\ hooks' = [hooks EXCEPT ![m.name] = Append(@, m)]
  /\ UNCHANGED <<Rest, modules, tools, runtime, queue, reload>>

-----------------------------------------------------------------------------
(* stop(): the timers go at once, then the watcher is closed, and then the *)
(* reload in progress is waited for.                                       *)
BeginStop ==
  /\ watcher = "on" /\ watcher' = "closing"
  /\ timers' = {}
  /\ UNCHANGED <<disk, attempts, modules, registries, runtime, noticed, pending, reload>>
Closed ==
  /\ watcher = "closing" /\ watcher' = "draining"
  /\ noticed' = {}
  /\ UNCHANGED <<disk, attempts, modules, registries, runtime, timers, pending, reload>>
ReloadsIgnored == TRUE
ReloadsSettled == reload = Idle
Drained ==
  /\ watcher = "draining" /\ ReloadsSettled
  /\ watcher' = "off"
  /\ pending' = <<>>
  /\ UNCHANGED <<disk, attempts, modules, registries, runtime, noticed, timers, reload>>

-----------------------------------------------------------------------------
Reload ==
  \/ Read \/ Reject \/ Validate \/ ValidateNew
  \/ Stopped \/ StopTimesOut \/ Started \/ StartFails \/ Withdraw
  \/ Restored \/ RestoreFails
Next ==
  \/ \E d \in Dirs : Notice(d) \/ Fire(d) \/ \E n \in NamesOf[d] : Edit(d, n)
  \/ Reload
  \/ \E x \in late : LateStop(x)
  \/ \E m \in overdue : LateStart(m)
  \/ BeginStop \/ Closed \/ Drained

(* Timers fire; a stop or start settles or times out, an import settles.   *)
Progress == Reload \/ Closed \/ Drained \/ \E d \in Dirs : Notice(d) \/ Fire(d)
Spec == Init /\ [][Next]_vars /\ WF_vars(Progress)

-----------------------------------------------------------------------------
TypeOK ==
  /\ \A d \in Dirs : file[d].ver \in 0 .. edits /\ file[d].name \in NamesOf[d]
  /\ \A d \in Dirs : tried[d] \in 0 .. file[d].ver /\ tries[d] \in 0 .. file[d].ver
  /\ edits \in 0 .. MaxEdits
  /\ \A d \in Dirs : modules[d] = None \/ (modules[d] \in Instances /\ modules[d].dir = d)
  /\ \A n \in Names : tools[n] = None \/ (tools[n] \in Instances /\ tools[n].name = n)
  /\ hooks \in [Names -> Seq(Instances)]
  /\ active \subseteq Instances
  /\ db \cup open \cup late \subseteq Instances \X Handles
  /\ sdk \subseteq Instances \X ({0} \cup Handles) /\ overdue \subseteq Instances
  /\ \A x, y \in db : x[1] = y[1] => x = y
  /\ noticed \cup timers \subseteq Dirs
  /\ pending \in Seq(Dirs) /\ IsInjective(pending)
  /\ reload = Idle \/ reload.at \in Phases
  /\ watcher \in {"on", "closing", "draining", "off"}

(* Whenever no reload is in progress, however the last one ended, the      *)
(* plugins are whole: a loaded one has its own tools, its hooks just once, *)
(* it has a database that nobody has closed or will close, and the SDK it  *)
(* was given is for that database, or, when it came by a reload and its    *)
(* tools are made by a function, for none.  Nothing is registered under a  *)
(* name that no loaded one has.  What a plugin registers whose start timed *)
(* out when it was put back comes on top, before and after it is disabled. *)
OnlyBy(h, o) == \A i \in DOMAIN h : h[i] \in o
JustOnce(h, m, o) == m \notin o /\ \E i \in DOMAIN h : h[i] = m /\ \A j \in DOMAIN h \ {i} : h[j] \in o
Whole(m) ==
  /\ tools[m.name] = m
  /\ JustOnce(hooks[m.name], m, overdue)
  /\ m \in active
  /\ HandleOf(m) # {} /\ HandleOf(m) \subseteq open \ late
  /\ SdkOf(m) = HandleOf(m) \/ (m \in Factories /\ m.try # 0 /\ SdkOf(m) = {<<m, 0>>})
RestIsConsistent ==
  reload = Idle =>
    /\ \A d \in Dirs : modules[d] # None => Whole(modules[d])
    /\ \A n \in Names : (\A d \in Dirs : modules[d] = None \/ modules[d].name # n) =>
                          tools[n] = None /\ OnlyBy(hooks[n], overdue)

(* packages/sdk/README.md:68-69 says that migrate is called before tools:  *)
(* the SDK of a loaded plugin would be for the database that it has.       *)
SdkHasDatabase ==
  reload = Idle => \A d \in Dirs : modules[d] # None => SdkOf(modules[d]) \subseteq db

(* After stop() has returned nothing is loaded, replaced or put back: the  *)
(* modules can be stopped, and a new watcher started.  Only a start that   *)
(* timed out in an earlier reload may still add its hooks.                 *)
StopIsFinal ==
  [][watcher = "off" =>
       /\ UNCHANGED <<modules, tools, active, db, sdk, reload>>
       /\ \A n \in Names : hooks'[n] # hooks[n] => \E m \in overdue : hooks'[n] = Append(hooks[n], m)]_vars

(* Every change of a plugin is seen by a reload, also one that comes while *)
(* a reload of the same plugin, or of another, is in progress.             *)
EveryEditIsTried ==
  \A d \in Dirs : tried[d] # file[d].ver ~> (tried[d] = file[d].ver \/ Stopping)
=============================================================================
