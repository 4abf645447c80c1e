------------------------- MODULE PluginReloadProofs -------------------------
(***************************************************************************)
(* Theorems about PluginReload for any plugins, names and edits.  What     *)
(* RestIsConsistent says of a state between two reloads follows from what  *)
(* a reload has taken down and put up in each of its phases.               *)
(***************************************************************************)
EXTENDS PluginReload, FiniteSetTheorems, SequenceTheorems, TLAPS

Reloads ==
  [at : Phases, dir : Dirs, old : Instances \cup {None}, cand : Instances \cup {None},
   held : SUBSET (Instances \X Handles), hooks : Seq(Instances)]

DiskTypes ==
  /\ file \in [Dirs -> [ver : Nat, name : Names]]
  /\ tried \in [Dirs -> Nat] /\ tries \in [Dirs -> Nat]
  /\ edits \in 0 .. MaxEdits
PluginTypes ==
  /\ modules \in [Dirs -> Instances \cup {None}]
  /\ tools \in [Names -> Instances \cup {None}]
  /\ hooks \in [Names -> Seq(Instances)]
  /\ active \in SUBSET Instances
  /\ db \in SUBSET (Instances \X Handles)
  /\ open \in SUBSET (Instances \X Handles)
  /\ late \in SUBSET (Instances \X Handles)
  /\ sdk \in SUBSET (Instances \X ({0} \cup Handles))
  /\ overdue \in SUBSET Instances
WatcherTypes ==
  /\ noticed \in SUBSET Dirs /\ timers \in SUBSET Dirs
  /\ pending \in Seq(Dirs) /\ IsInjective(pending)
  /\ reload \in Reloads \cup {Idle}
  /\ watcher \in {"on", "closing", "draining", "off"}
Types == DiskTypes /\ PluginTypes /\ WatcherTypes

-----------------------------------------------------------------------------
(* Every read of a file goes back to a change of it of its own.            *)
One(p) == IF p THEN 1 ELSE 0
Reading(d) == reload.at = "deps" /\ reload.dir = d
Due == [d \in Dirs |->
  One(d \in noticed) + One(d \in timers) + One(d \in Range(pending)) + One(Reading(d))]
ReadsCounted ==
  \A d \in Dirs :
    /\ tries[d] + Due[d] <= file[d].ver
    /\ tried[d] <= file[d].ver /\ file[d].ver <= edits
    /\ file[d].name \in NamesOf[d]

(* The loaded modules belong where they are and have names of their own.   *)
Loaded(d) == modules[d] # None
Own ==
  /\ \A d \in Dirs : Loaded(d) =>
       modules[d].dir = d /\ modules[d].name \in NamesOf[d] /\ modules[d].try <= tries[d]
  /\ \A d, e \in Dirs : d # e /\ Loaded(d) /\ Loaded(e) => modules[d].name # modules[e].name
  /\ \A n \in Names : tools[n] # None => tools[n].name = n

(* Handles.  A module is given one that is not open; there is one because  *)
(* each reload opens at most one more of the module that it may put back.  *)
InUse(m, o) == {x \in Handles : <<m, x>> \in o}
Busy(d) == reload.at \in {"import", "stopping", "starting"} /\ reload.dir = d
HandlesOwned ==
  /\ db \subseteq open /\ late \subseteq open /\ db \cap late = {}
  /\ \A x, y \in db : x[1] = y[1] => x = y
HandlesKnown == \A x \in open : x[1].try <= tries[x[1].dir]
HandlesFew ==
  \A d \in Dirs : Loaded(d) =>
    Cardinality(InUse(modules[d], open)) + modules[d].try + One(Busy(d)) <= tries[d] + 1
HandlesSound == HandlesOwned /\ HandlesKnown /\ HandlesFew

(* What plugins that are gone may still have: an SDK, a start that goes on. *)
Kept ==
  /\ \A x \in sdk : x[1].try <= tries[x[1].dir]
  /\ \A m \in overdue : m.try = 0

(* What a reload relies on, phase by phase.                                *)
Named(n, ds) == \E d \in ds : Loaded(d) /\ modules[d].name = n
Empty(n) == tools[n] = None /\ OnlyBy(hooks[n], overdue)
Bare(c) == c \in Factories /\ SdkOf(c) = {<<c, 0>>}
RestExcept(ds) == \A d \in Dirs \ ds : Loaded(d) => Whole(modules[d])
Runs(m) == m \in active /\ HandleOf(m) # {}
AtRest ==
  /\ RestExcept({})
  /\ \A n \in Names : ~Named(n, Dirs) => Empty(n)
Reloading ==
  LET d == reload.dir
      c == reload.cand
      m == reload.old
  IN /\ m = modules[d]
     /\ m # None => JustOnce(reload.hooks, m, overdue)
     /\ reload.at = "deps" <=> c = None
     /\ reload.at # "deps" =>
          /\ c.dir = d /\ c.try = tries[d] /\ c.try > 0 /\ c.name \in NamesOf[d]
          /\ m # None => m.try < tries[d]
     /\ reload.at \in {"import", "stopping"} => \A x \in open : x[1] # c
     /\ reload.at = "import" => SdkOf(c) = {}
     /\ reload.at \in {"stopping", "starting"} /\ m # None => SdkOf(m) = {}
     /\ reload.at \in {"stopping", "starting", "restoring"} =>
          RestExcept({d}) /\ ~Named(c.name, Dirs \ {d})
     /\ reload.at \in {"deps", "import"} => AtRest
     /\ reload.at = "stopping" =>
          /\ m # None /\ HandleOf(m) = {}
          /\ SdkOf(c) = {} \/ Bare(c)
          /\ reload.held \subseteq ({m} \X Handles) \cap (open \ late)
          /\ \A n \in Names : ~Named(n, Dirs) => Empty(n)
     /\ reload.at = "starting" =>
          /\ tools[c.name] = c /\ Runs(c) /\ Cardinality(InUse(c, open)) <= 1
          /\ SdkOf(c) = HandleOf(c) \/ Bare(c)
          /\ \A n \in Names \ {c.name} : ~Named(n, Dirs \ {d}) => Empty(n)
     /\ reload.at = "restoring" =>
          /\ m # None /\ tools[m.name] = m /\ Runs(m) /\ SdkOf(m) = HandleOf(m)
          /\ \A n \in Names \ {m.name} : ~Named(n, Dirs \ {d}) => Empty(n)
Sound == IF reload = Idle THEN AtRest ELSE Reloading

StopOrder ==
  /\ watcher # "on" => timers = {}
  /\ watcher \in {"draining", "off"} => noticed = {}
  /\ watcher = "off" => reload = Idle

QueueTypes ==
  /\ noticed \in SUBSET Dirs /\ timers \in SUBSET Dirs
  /\ pending \in Seq(Dirs) /\ IsInjective(pending)
  /\ watcher \in {"on", "closing", "draining", "off"}
Queues == DiskTypes /\ QueueTypes /\ ReadsCounted /\ StopOrder
ReloadType == reload \in Reloads \cup {Idle}
Plugins == ReloadType /\ PluginTypes /\ Own /\ HandlesSound /\ Kept /\ Sound
Inv == Queues /\ Plugins

LEMMA Constants ==
  /\ MaxEdits \in Nat
  /\ NamesOf \in [Dirs -> SUBSET Names]
  /\ \A d \in Dirs, e \in Dirs : e \in NamesOf[d] => e = d
  /\ None \notin Instances
BY PluginAssumption DEF Instances

LEMMA PhasesOfReloads ==
  ASSUME NEW r \in Reloads
  PROVE  r.at \in Phases /\ r.at # "idle" /\ r # Idle /\ r.dir \in Dirs
BY DEF Reloads, Phases, Idle

LEMMA IdleIsIdle == Idle.at = "idle" /\ Idle \notin Reloads
BY DEF Reloads, Phases, Idle

-----------------------------------------------------------------------------
(* The queue of reloads.                                                   *)
LEMMA EnqueueKeeps ==
  ASSUME NEW q \in Seq(Dirs), IsInjective(q), NEW d \in Dirs
  PROVE  /\ Enqueue(q, d) \in Seq(Dirs) /\ IsInjective(Enqueue(q, d))
         /\ Range(Enqueue(q, d)) = Range(q) \cup {d}
<1>1. CASE d \in Range(q)
  BY <1>1 DEF Enqueue
<1>2. CASE d \notin Range(q)
  <2>1. Enqueue(q, d) = Append(q, d)
    BY <1>2 DEF Enqueue
  <2>2. /\ Append(q, d) \in Seq(Dirs) /\ DOMAIN Append(q, d) = 1 .. Len(q) + 1
        /\ \A i \in 1 .. Len(q) : Append(q, d)[i] = q[i]
        /\ Append(q, d)[Len(q) + 1] = d
        /\ Len(q) \in Nat /\ DOMAIN q = 1 .. Len(q)
    OBVIOUS
  <2>3. \A i \in 1 .. Len(q) + 1 : i = Len(q) + 1 \/ i \in 1 .. Len(q)
    BY <2>2
  <2>4. \A i \in 1 .. Len(q) : q[i] # d
    BY <1>2, <2>2 DEF Range
  <2>5. IsInjective(Append(q, d))
    BY <2>2, <2>3, <2>4 DEF IsInjective
  <2>6. Range(Append(q, d)) = Range(q) \cup {d}
    <3>1. \A x \in Range(Append(q, d)) : x \in Range(q) \cup {d}
      BY <2>2, <2>3 DEF Range
    <3>2. \A x \in Range(q) \cup {d} : x \in Range(Append(q, d))
      BY <2>2 DEF Range
    <3> QED BY <3>1, <3>2
  <2> QED BY <2>1, <2>2, <2>5, <2>6
<1> QED BY <1>1, <1>2

LEMMA DequeueKeeps ==
  ASSUME NEW q \in Seq(Dirs), IsInjective(q), q # <<>>
  PROVE  /\ Head(q) \in Dirs /\ Tail(q) \in Seq(Dirs) /\ IsInjective(Tail(q))
         /\ Head(q) \in Range(q) /\ Range(Tail(q)) = Range(q) \ {Head(q)}
<1>1. /\ Len(q) \in Nat /\ DOMAIN q = 1 .. Len(q) /\ Len(q) >= 1 /\ Head(q) = q[1]
      /\ Tail(q) \in Seq(Dirs) /\ DOMAIN Tail(q) = 1 .. Len(q) - 1
      /\ \A i \in 1 .. Len(q) - 1 : Tail(q)[i] = q[i + 1]
  OBVIOUS
<1>2. 1 \in 1 .. Len(q) /\ \A i \in 1 .. Len(q) - 1 : i + 1 \in 1 .. Len(q) /\ i + 1 # 1
  BY <1>1
<1>3. \A i \in 1 .. Len(q) : i = 1 \/ (i - 1 \in 1 .. Len(q) - 1 /\ (i - 1) + 1 = i)
  BY <1>1
<1>4. IsInjective(Tail(q))
  <2>1. ASSUME NEW i \in 1 .. Len(q) - 1, NEW j \in 1 .. Len(q) - 1, Tail(q)[i] = Tail(q)[j]
        PROVE  i = j
    <3>1. i + 1 = j + 1
      BY <1>1, <1>2, <2>1 DEF IsInjective
    <3> QED BY <3>1
  <2> QED BY <1>1, <2>1 DEF IsInjective
<1>5. ASSUME NEW x \in Range(Tail(q)) PROVE x \in Range(q) \ {Head(q)}
  <2>1. PICK i \in 1 .. Len(q) - 1 : x = q[i + 1]
    BY <1>1 DEF Range
  <2> QED BY <1>1, <1>2, <2>1 DEF Range, IsInjective
<1>6. ASSUME NEW x \in Range(q) \ {Head(q)} PROVE x \in Range(Tail(q))
  <2>1. PICK i \in 1 .. Len(q) : x = q[i] /\ i # 1
    BY <1>1 DEF Range
  <2>2. i - 1 \in 1 .. Len(q) - 1 /\ Tail(q)[i - 1] = q[i]
    BY <1>1, <1>3, <2>1
  <2> QED BY <1>1, <2>1, <2>2 DEF Range
<1>7. Range(Tail(q)) = Range(q) \ {Head(q)}
  BY <1>5, <1>6
<1>8. Head(q) \in Range(q) /\ Head(q) \in Dirs
  BY <1>1, <1>2 DEF Range
<1> QED BY <1>1, <1>4, <1>7, <1>8

LEMMA EmptyQueue == <<>> \in Seq(Dirs) /\ IsInjective(<<>>) /\ Range(<<>>) = {}
<1>1. DOMAIN <<>> = {}
  OBVIOUS
<1> QED BY <1>1 DEF IsInjective, Range

LEMMA OneValues == \A p : One(p) \in Nat
BY DEF One

LEMMA FinishKeepsQueues ==
  ASSUME Queues, ReloadType, Finish, reload # Idle, UNCHANGED <<disk, attempts, watcher>>
  PROVE  Queues'
<1> USE DEF Queues
<1>1. \A d : ~Reading(d)'
  BY IdleIsIdle DEF Finish, Reading, Idle
<1>2. CASE Stopping \/ pending = <<>>
  <2>1. UNCHANGED <<noticed, timers, pending>>
    BY <1>2 DEF Finish
  <2>2. ReadsCounted'
    <3>1. \A d \in Dirs : Due'[d] <= Due[d] /\ Due[d] \in Nat /\ Due'[d] \in Nat
      BY <1>1, <2>1 DEF Due, One
    <3> QED BY <3>1 DEF ReadsCounted, disk, attempts, DiskTypes
  <2> QED BY <2>1, <2>2 DEF DiskTypes, QueueTypes, disk, attempts, StopOrder, Finish
<1>3. CASE ~(Stopping \/ pending = <<>>)
  <2>1. timers' = timers \cup {Head(pending)} /\ pending' = Tail(pending) /\ UNCHANGED noticed
    BY <1>3 DEF Finish
  <2>2. /\ Head(pending) \in Dirs /\ Tail(pending) \in Seq(Dirs) /\ IsInjective(Tail(pending))
        /\ Head(pending) \in Range(pending)
        /\ Range(Tail(pending)) = Range(pending) \ {Head(pending)}
    BY <1>3, DequeueKeeps DEF QueueTypes
  <2>3. ReadsCounted'
    <3>1. \A d \in Dirs : Due'[d] <= Due[d] /\ Due[d] \in Nat /\ Due'[d] \in Nat
      BY <1>1, <2>1, <2>2 DEF Due, One
    <3> QED BY <3>1 DEF ReadsCounted, disk, attempts, DiskTypes
  <2>4. watcher' = "on"
    BY <1>3 DEF Stopping
  <2> QED BY <2>1, <2>2, <2>3, <2>4 DEF DiskTypes, QueueTypes, disk, attempts, StopOrder
<1> QED BY <1>2, <1>3

(* The steps of a reload between its begin and its end leave the queue.    *)
LEMMA PhaseKeepsQueues ==
  ASSUME Queues, ReloadType, UNCHANGED <<disk, attempts, queue, watcher>>, reload # Idle,
         \A d \in Dirs : ~Reading(d)'
  PROVE  Queues'
<1>1. ReadsCounted'
  <2>1. \A d \in Dirs : Due'[d] <= Due[d] /\ Due[d] \in Nat /\ Due'[d] \in Nat
    BY DEF Due, One, queue
  <2> QED BY <2>1 DEF Queues, ReadsCounted, disk, attempts, DiskTypes
<1> QED BY <1>1 DEF Queues, DiskTypes, QueueTypes, StopOrder, disk, attempts, queue

LEMMA EditKeepsQueues ==
  ASSUME Queues, NEW d \in Dirs, NEW n \in NamesOf[d], Edit(d, n)
  PROVE  Queues'
<1> USE DEF Queues
<1>1. n \in Names
  BY Constants
<1>2. /\ DiskTypes' /\ file'[d].ver = file[d].ver + 1 /\ file'[d].name = n
      /\ \A e \in Dirs \ {d} : file'[e] = file[e]
  BY <1>1, Constants DEF DiskTypes, Edit, attempts
<1>3. ReadsCounted'
  <2>1. \A e \in Dirs : /\ Due[e] \in Nat /\ Due'[e] \in Nat /\ (e # d => Due'[e] = Due[e])
                        /\ Due'[e] <= Due[e] + 1
    BY DEF Due, One, Edit, Reading
  <2> QED BY <1>2, <2>1 DEF ReadsCounted, DiskTypes, Edit, attempts
<1>4. QueueTypes' /\ StopOrder'
  BY DEF QueueTypes, StopOrder, Edit
<1> QED BY <1>2, <1>3, <1>4

LEMMA NoticeKeepsQueues ==
  ASSUME Queues, NEW d \in Dirs, Notice(d)
  PROVE  Queues'
<1> USE DEF Queues
<1>1. ReadsCounted'
  <2>1. \A e \in Dirs : Due'[e] <= Due[e] /\ Due[e] \in Nat /\ Due'[e] \in Nat
    BY DEF Due, One, Notice, Reading
  <2> QED BY <2>1 DEF ReadsCounted, disk, attempts, DiskTypes, Notice
<1>2. DiskTypes' /\ QueueTypes' /\ StopOrder'
  BY DEF DiskTypes, QueueTypes, StopOrder, Notice, disk, attempts, Stopping
<1> QED BY <1>1, <1>2

LEMMA FireKeepsQueues ==
  ASSUME Queues, ReloadType, NEW d \in Dirs, Fire(d)
  PROVE  Queues'
<1> USE DEF Queues
<1>1. d \in timers /\ timers' = timers \ {d} /\ UNCHANGED <<disk, attempts, noticed, watcher>>
  BY DEF Fire
<1>2. CASE reload = Idle
  <2>1. UNCHANGED pending /\ \A e : Reading(e)' <=> e = d
    BY <1>2 DEF Fire, Begin, Reading
  <2>2. ReadsCounted'
    <3>1. \A e \in Dirs : Due'[e] <= Due[e] /\ Due[e] \in Nat /\ Due'[e] \in Nat
      BY <1>1, <1>2, <2>1 DEF Due, One
    <3> QED BY <1>1, <3>1 DEF ReadsCounted, disk, attempts, DiskTypes
  <2> QED BY <1>1, <2>1, <2>2 DEF DiskTypes, QueueTypes, StopOrder, disk, attempts
<1>3. CASE reload # Idle
  <2>1. pending' = Enqueue(pending, d) /\ UNCHANGED reload
    BY <1>3 DEF Fire
  <2>2. /\ Enqueue(pending, d) \in Seq(Dirs) /\ IsInjective(Enqueue(pending, d))
        /\ Range(Enqueue(pending, d)) = Range(pending) \cup {d}
    BY EnqueueKeeps DEF QueueTypes
  <2>3. ReadsCounted'
    <3>1. \A e \in Dirs : Due'[e] <= Due[e] /\ Due[e] \in Nat /\ Due'[e] \in Nat
      BY <1>1, <2>1, <2>2 DEF Due, One, Reading
    <3> QED BY <1>1, <3>1 DEF ReadsCounted, disk, attempts, DiskTypes
  <2> QED BY <1>1, <2>1, <2>2, <2>3 DEF DiskTypes, QueueTypes, StopOrder, disk, attempts
<1> QED BY <1>2, <1>3

LEMMA ReadKeepsQueues ==
  ASSUME Queues, ReloadType, Read
  PROVE  /\ Queues'
         /\ reload.dir \in Dirs /\ tries'[reload.dir] = tries[reload.dir] + 1
         /\ tries[reload.dir] + 1 <= MaxEdits /\ file[reload.dir].name \in NamesOf[reload.dir]
<1> USE DEF Queues
<1> DEFINE d == reload.dir
<1>1. d \in Dirs /\ Reading(d) /\ reload # Idle /\ UNCHANGED <<disk, queue, watcher>>
  BY IdleIsIdle, PhasesOfReloads DEF Read, ReloadType, Reading
<1>2. \A e \in Dirs : Reading(e) => e = d
  BY DEF Reading
<1>3. \A e : ~Reading(e)'
  BY <1>1, IdleIsIdle DEF ReloadType, Reloads, Read, Reading
<1> HIDE DEF d
<1>4. /\ \A e \in Dirs : Due[e] \in Nat /\ Due'[e] \in Nat /\ (e # d => Due'[e] = Due[e])
      /\ Due[d] = Due'[d] + 1 /\ Due'[d] \in Nat
  <2>1. /\ One(Reading(d)) = 1
        /\ \A e \in Dirs : One(Reading(e)') = 0 /\ (e # d => One(Reading(e)) = 0)
    BY <1>1, <1>2, <1>3 DEF One
  <2> DEFINE Others(e) == One(e \in noticed) + One(e \in timers) + One(e \in Range(pending))
  <2>2. \A e \in Dirs : Others(e) \in Nat /\ Others(e)' = Others(e)
    BY <1>1 DEF One, queue
  <2>3. \A e \in Dirs : Due'[e] = Others(e)
    <3>1. ASSUME NEW e \in Dirs PROVE Due'[e] = Others(e)' + 0
      BY <1>3 DEF Due, One
    <3> QED BY <2>2, <3>1
  <2>4. \A e \in Dirs : Due[e] = Others(e) + One(Reading(e))
    BY DEF Due
  <2> HIDE DEF Others
  <2>5. \A e \in Dirs : e # d => Due[e] = Others(e)
    BY <2>1, <2>2, <2>4
  <2>6. Due[d] = Others(d) + 1
    BY <1>1, <2>1, <2>2, <2>4
  <2> QED BY <1>1, <2>2, <2>3, <2>5, <2>6
<1>5. /\ tries' = [tries EXCEPT ![d] = @ + 1] /\ tried' = [tried EXCEPT ![d] = file[d].ver]
  BY DEF Read, d
<1>6. ReadsCounted' /\ DiskTypes'
  <2>1. /\ DiskTypes' /\ tries'[d] = tries[d] + 1 /\ tried'[d] = file[d].ver
        /\ \A e \in Dirs \ {d} : tries'[e] = tries[e] /\ tried'[e] = tried[e]
    BY <1>1, <1>5 DEF DiskTypes, disk
  <2>2. ASSUME NEW e \in Dirs PROVE tries'[e] + Due'[e] = tries[e] + Due[e]
    <3>1. tries[e] \in Nat /\ Due[e] \in Nat /\ Due'[e] \in Nat
      BY <1>4 DEF DiskTypes
    <3>2. CASE e = d
      BY <1>4, <2>1, <3>1, <3>2
    <3>3. CASE e # d
      BY <1>4, <2>1, <3>3
    <3> QED BY <3>2, <3>3
  <2>3. \A e \in Dirs : tried'[e] <= file[e].ver
    BY <2>1 DEF ReadsCounted, DiskTypes
  <2> QED BY <1>1, <2>1, <2>2, <2>3 DEF ReadsCounted, disk
<1>7. QueueTypes' /\ StopOrder'
  BY <1>1, IdleIsIdle DEF QueueTypes, StopOrder, queue
<1>8. tries[d] + 1 <= MaxEdits
  <2>1. tries[d] + Due[d] <= file[d].ver /\ file[d].ver <= edits /\ edits <= MaxEdits
    BY <1>1 DEF ReadsCounted, DiskTypes
  <2>2. Due[d] >= 1
    BY <1>4
  <2> QED BY <1>1, <1>4, <2>1, <2>2, Constants DEF DiskTypes
<1> QED BY <1>1, <1>5, <1>6, <1>7, <1>8 DEF ReadsCounted, DiskTypes, d

LEMMA StoppingKeepsQueues ==
  ASSUME Queues, BeginStop \/ Closed \/ Drained
  PROVE  Queues'
<1> USE DEF Queues
<1>1. ReadsCounted'
  <2>1. \A e \in Dirs : Due'[e] <= Due[e] /\ Due[e] \in Nat /\ Due'[e] \in Nat
    BY EmptyQueue DEF Due, One, BeginStop, Closed, Drained, Reading
  <2>2. UNCHANGED <<disk, attempts>>
    BY DEF BeginStop, Closed, Drained
  <2> QED BY <2>1, <2>2 DEF ReadsCounted, disk, attempts, DiskTypes
<1>2. DiskTypes'
  BY DEF DiskTypes, disk, attempts, BeginStop, Closed, Drained
<1>3. StopOrder'
  BY DEF StopOrder, BeginStop, Closed, Drained, ReloadsSettled
<1>4. QueueTypes'
  <2>1. noticed' \in SUBSET Dirs /\ timers' \in SUBSET Dirs /\ watcher' \in {"closing", "draining", "off"}
    BY DEF QueueTypes, BeginStop, Closed, Drained
  <2>2. pending' = pending \/ pending' = <<>>
    BY DEF BeginStop, Closed, Drained
  <2> QED BY <2>1, <2>2, EmptyQueue DEF QueueTypes
<1> QED BY <1>1, <1>2, <1>3, <1>4

-----------------------------------------------------------------------------
(* Handles of databases.                                                   *)
LEMMA InUseFinite ==
  ASSUME NEW m, NEW o
  PROVE  /\ IsFiniteSet(InUse(m, o)) /\ Cardinality(InUse(m, o)) \in Nat
         /\ IsFiniteSet(Handles) /\ Cardinality(Handles) = MaxEdits + 1
<1>1. IsFiniteSet(Handles) /\ Cardinality(Handles) = MaxEdits + 1
  <2>1. 1 \in Int /\ MaxEdits + 1 \in Int /\ ~(1 > MaxEdits + 1) /\ (MaxEdits + 1) - 1 + 1 = MaxEdits + 1
    BY Constants
  <2> QED BY <2>1, FS_Interval DEF Handles
<1>2. InUse(m, o) \subseteq Handles
  BY DEF InUse
<1> QED BY <1>1, <1>2, FS_Subset, FS_CardinalityType

LEMMA InUseFewer ==
  ASSUME NEW m, NEW o, NEW p, o \subseteq p
  PROVE  Cardinality(InUse(m, o)) <= Cardinality(InUse(m, p))
<1>1. InUse(m, o) \subseteq InUse(m, p)
  BY DEF InUse
<1> QED BY <1>1, InUseFinite, FS_Subset

LEMMA MigrateGives ==
  ASSUME NEW m, NEW o, Cardinality(InUse(m, o)) <= MaxEdits, Migrate(m, o)
  PROVE  \E h \in Handles :
           /\ <<m, h>> \notin o
           /\ db' = (db \ HandleOf(m)) \cup {<<m, h>>} /\ open' = o \cup {<<m, h>>}
           /\ Cardinality(InUse(m, open')) <= Cardinality(InUse(m, o)) + 1
<1>1. \E x \in Handles : <<m, x>> \notin o
  <2>1. SUFFICES ASSUME \A x \in Handles : <<m, x>> \in o PROVE FALSE
    OBVIOUS
  <2>2. InUse(m, o) = Handles
    BY <2>1 DEF InUse
  <2> QED BY <2>2, InUseFinite, Constants
<1> DEFINE h == CHOOSE x \in Handles : <<m, x>> \notin o
<1>2. h \in Handles /\ <<m, h>> \notin o
  BY <1>1
<1>3. db' = (db \ HandleOf(m)) \cup {<<m, h>>} /\ open' = o \cup {<<m, h>>}
  BY DEF Migrate
<1>4. Cardinality(InUse(m, open')) <= Cardinality(InUse(m, o)) + 1
  <2> HIDE DEF h
  <2>1. InUse(m, open') = InUse(m, o) \cup {h} /\ h \notin InUse(m, o)
    BY <1>2, <1>3 DEF InUse
  <2>2. Cardinality(InUse(m, o) \cup {h}) = Cardinality(InUse(m, o)) + 1
    BY <2>1, InUseFinite, FS_AddElement
  <2> QED BY <2>1, <2>2, InUseFinite
<1> HIDE DEF h
<1> QED BY <1>2, <1>3, <1>4

LEMMA MigrateSound ==
  ASSUME Queues, PluginTypes, HandlesOwned, HandlesKnown,
         NEW m \in Instances, m.dir \in Dirs, m.try <= tries[m.dir],
         NEW o \in SUBSET open, db \subseteq o, late' \subseteq o, late' \cap db = {},
         Cardinality(InUse(m, o)) <= MaxEdits, Migrate(m, o), UNCHANGED attempts
  PROVE  /\ HandlesOwned' /\ HandlesKnown' /\ HandleOf(m)' # {}
         /\ db' \in SUBSET (Instances \X Handles) /\ open' \in SUBSET (Instances \X Handles)
         /\ late' \in SUBSET (Instances \X Handles)
         /\ Cardinality(InUse(m, open')) <= Cardinality(InUse(m, o)) + 1
         /\ \A n \in Instances \ {m} : InUse(n, open') = InUse(n, o)
         /\ \A x \in db : x[1] # m => x \in db'
         /\ \A x \in open' : x[1] = m \/ x \in o
<1>1. PICK h \in Handles :
        /\ <<m, h>> \notin o
        /\ db' = (db \ HandleOf(m)) \cup {<<m, h>>} /\ open' = o \cup {<<m, h>>}
        /\ Cardinality(InUse(m, open')) <= Cardinality(InUse(m, o)) + 1
  BY MigrateGives
<1>2. HandleOf(m) = {x \in db : x[1] = m} /\ HandleOf(m)' = {x \in db' : x[1] = m}
  BY DEF HandleOf
<1>3. HandlesOwned'
  <2>1. db' \subseteq open' /\ late' \subseteq open' /\ db' \cap late' = {}
    BY <1>1 DEF HandlesOwned
  <2>2. \A x, y \in db' : x[1] = y[1] => x = y
    BY <1>1, <1>2 DEF HandlesOwned
  <2> QED BY <2>1, <2>2 DEF HandlesOwned
<1>4. HandlesKnown'
  BY <1>1 DEF HandlesKnown, attempts
<1>5. HandleOf(m)' # {}
  BY <1>1, <1>2
<1>6. db' \in SUBSET (Instances \X Handles) /\ open' \in SUBSET (Instances \X Handles)
  BY <1>1 DEF PluginTypes
<1>7. late' \in SUBSET (Instances \X Handles)
  BY DEF PluginTypes
<1>8. \A n \in Instances \ {m} : InUse(n, open') = InUse(n, o)
  BY <1>1 DEF InUse
<1>9. \A x \in db : x[1] # m => x \in db'
  BY <1>1, <1>2
<1>10. \A x \in open' : x[1] = m \/ x \in o
  BY <1>1
<1> QED BY <1>1, <1>3, <1>4, <1>5, <1>6, <1>7, <1>8, <1>9, <1>10

(* Hooks of a plugin, and what the overdue starts of others add to them.   *)
LEMMA HooksAlone ==
  ASSUME NEW m, NEW o
  PROVE  OnlyBy(<<>>, o) /\ (m \notin o => JustOnce(<<m>>, m, o))
<1>1. DOMAIN <<>> = {} /\ DOMAIN <<m>> = {1} /\ <<m>>[1] = m
  OBVIOUS
<1> QED BY <1>1 DEF OnlyBy, JustOnce

LEMMA HooksOverdue ==
  ASSUME NEW h, NEW o, NEW p, o \subseteq p
  PROVE  /\ OnlyBy(h, o) => OnlyBy(h, p)
         /\ \A m : JustOnce(h, m, o) /\ m \notin p => JustOnce(h, m, p)
BY DEF OnlyBy, JustOnce

LEMMA HooksAppended ==
  ASSUME NEW h \in Seq(Instances), NEW o, NEW x \in o
  PROVE  /\ OnlyBy(h, o) => OnlyBy(Append(h, x), o)
         /\ \A m : JustOnce(h, m, o) => JustOnce(Append(h, x), m, o)
<1>1. /\ DOMAIN h = 1 .. Len(h) /\ DOMAIN Append(h, x) = 1 .. Len(h) + 1 /\ Len(h) \in Nat
      /\ \A i \in 1 .. Len(h) : Append(h, x)[i] = h[i]
      /\ Append(h, x)[Len(h) + 1] = x
  OBVIOUS
<1>2. DOMAIN Append(h, x) = DOMAIN h \cup {Len(h) + 1} /\ Len(h) + 1 \notin DOMAIN h
  BY <1>1
<1> QED BY <1>1, <1>2 DEF OnlyBy, JustOnce

(* The SDK of one module is made: the others keep theirs.                  *)
LEMMA GetSdkGives ==
  ASSUME NEW s \in SUBSET (Instances \X ({0} \cup Handles)), NEW m \in Instances,
         NEW o \in SUBSET (Instances \X Handles)
  PROVE  /\ GetSdk(s, m, o) \in SUBSET (Instances \X ({0} \cup Handles))
         /\ \A x : x[1] # m => (x \in GetSdk(s, m, o) <=> x \in s)
         /\ (\E x \in s : x[1] = m) => GetSdk(s, m, o) = s
         /\ (\A x \in s : x[1] # m) /\ (\E x \in o : x[1] = m) =>
              {x \in GetSdk(s, m, o) : x[1] = m} = {x \in o : x[1] = m}
         /\ (\A x \in s : x[1] # m) /\ (\A x \in o : x[1] # m) =>
              {x \in GetSdk(s, m, o) : x[1] = m} = {<<m, 0>>}
<1>1. <<m, 0>> \in Instances \X ({0} \cup Handles) /\ <<m, 0>>[1] = m
  OBVIOUS
<1>2. CASE \E x \in s : x[1] = m
  BY <1>2 DEF GetSdk
<1>3. CASE (\A x \in s : x[1] # m) /\ \E x \in o : x[1] = m
  <2>1. GetSdk(s, m, o) = s \cup {x \in o : x[1] = m}
    BY <1>3 DEF GetSdk
  <2> QED BY <1>3, <2>1
<1>4. CASE (\A x \in s : x[1] # m) /\ \A x \in o : x[1] # m
  <2>1. GetSdk(s, m, o) = s \cup {<<m, 0>>}
    BY <1>4 DEF GetSdk
  <2> QED BY <1>1, <1>4, <2>1
<1> QED BY <1>2, <1>3, <1>4

LEMMA OthersStayWhole ==
  ASSUME NEW ds, RestExcept(ds), HandlesOwned', overdue \subseteq overdue',
         \A e \in Dirs \ ds : modules'[e] = modules[e],
         \A e \in Dirs \ ds : Loaded(e) =>
           /\ tools'[modules[e].name] = tools[modules[e].name]
           /\ hooks'[modules[e].name] = hooks[modules[e].name]
           /\ modules[e] \in overdue' => modules[e] \in overdue
           /\ modules[e] \in active => modules[e] \in active'
           /\ \A x \in db : x[1] = modules[e] => x \in db'
           /\ \A x : x[1] = modules[e] => (x \in sdk' <=> x \in sdk)
  PROVE  RestExcept(ds)'
<1> SUFFICES ASSUME NEW e \in Dirs \ ds, modules'[e] # None PROVE Whole(modules[e])'
  BY DEF RestExcept, Loaded
<1>1. modules'[e] = modules[e] /\ Loaded(e) /\ Whole(modules[e])
  BY DEF RestExcept, Loaded
<1> DEFINE m == modules[e]
<1>2. /\ Whole(m) /\ tools'[m.name] = tools[m.name] /\ hooks'[m.name] = hooks[m.name]
      /\ (m \in overdue' => m \in overdue)
      /\ (m \in active => m \in active') /\ (\A x \in db : x[1] = m => x \in db')
      /\ \A x : x[1] = m => (x \in sdk' <=> x \in sdk)
  BY <1>1
<1> HIDE DEF m
<1>3. tools'[m.name] = m /\ m \in active' /\ \E x \in db' : x[1] = m
  BY <1>2 DEF Whole, HandleOf
<1>4. \A x \in db' : x \in open' \ late'
  BY DEF HandlesOwned
<1>5. JustOnce(hooks'[m.name], m, overdue')
  <2>1. JustOnce(hooks[m.name], m, overdue) /\ m \notin overdue'
    BY <1>2 DEF Whole, JustOnce
  <2> QED BY <1>2, <2>1, HooksOverdue
<1>6. {x \in sdk' : x[1] = m} = {x \in sdk : x[1] = m}
  BY <1>2
<1>7. {x \in db' : x[1] = m} = {x \in db : x[1] = m}
  <2>1. PICK y \in db : y[1] = m
    BY <1>2 DEF Whole, HandleOf
  <2>2. \A x \in db' : x[1] = m => x = y
    BY <1>2, <2>1 DEF HandlesOwned
  <2> QED BY <1>2, <2>1, <2>2
<1>8. \/ {x \in sdk : x[1] = m} = {x \in db : x[1] = m}
      \/ m \in Factories /\ m.try # 0 /\ {x \in sdk : x[1] = m} = {<<m, 0>>}
  BY <1>2 DEF Whole, HandleOf, SdkOf
<1>9. modules'[e] = m
  BY <1>1 DEF m
<1> QED BY <1>3, <1>4, <1>5, <1>6, <1>7, <1>8, <1>9 DEF Whole, HandleOf, SdkOf

-----------------------------------------------------------------------------
(* A reload that has read its file.                                        *)
LEMMA ReloadFacts ==
  ASSUME Inv, reload \in Reloads, reload.at # "deps",
         NEW d, d = reload.dir, NEW c, c = reload.cand, NEW m, m = reload.old
  PROVE  /\ d \in Dirs /\ c \in Instances /\ c.dir = d /\ c.try = tries[d] /\ c.try > 0
         /\ c.name \in NamesOf[d] /\ c.name \in Names /\ c \notin overdue
         /\ m = modules[d] /\ m \in Instances \cup {None}
         /\ m # None => /\ m \in Instances /\ m.dir = d /\ m.name \in NamesOf[d] /\ m.name \in Names
                        /\ m.try < tries[d] /\ m.try \in Nat /\ m # c
         /\ \A e \in Dirs \ {d} : Loaded(e) =>
              /\ modules[e] \in Instances /\ modules[e].dir = e /\ modules[e].name \in Names
              /\ modules[e] # c /\ modules[e] # m /\ modules[e].name # d
              /\ m # None => modules[e].name # m.name
<1>1. Reloading
  BY IdleIsIdle DEF Inv, Plugins, Sound
<1>2. /\ d \in Dirs /\ c \in Instances /\ c.dir = d /\ c.try = tries[d] /\ c.name \in NamesOf[d]
      /\ c.try > 0
  <2>1. c # None
    BY <1>1 DEF Reloading
  <2>2. d \in Dirs /\ c \in Instances
    BY <2>1 DEF Reloads
  <2> QED BY <1>1, <2>2 DEF Reloading
<1>3. m = modules[d] /\ m \in Instances \cup {None} /\ (m # None => m.try < tries[d])
  BY <1>1 DEF Reloading, Reloads
<1>4. \A e \in Dirs : NamesOf[e] \subseteq Names
  BY Constants
<1>5. m # None => /\ m \in Instances /\ m.dir = d /\ m.name \in NamesOf[d] /\ m.try \in Nat
  BY <1>2, <1>3, Constants DEF Inv, Plugins, Own, Loaded, Instances
<1>6. m # None => m # c
  <2>1. SUFFICES ASSUME m # None, m = c PROVE FALSE
    OBVIOUS
  <2>2. m.try < tries[d] /\ m.try = tries[d] /\ m.try \in Nat
    BY <1>2, <1>3, <1>5, <2>1
  <2> QED BY <2>2
<1>7. ASSUME NEW e \in Dirs \ {d}, Loaded(e)
      PROVE  /\ modules[e] \in Instances /\ modules[e].dir = e /\ modules[e].name \in NamesOf[e]
             /\ m # None => modules[e].name # m.name
  BY <1>2, <1>3, <1>7 DEF Inv, Plugins, Own, Loaded, PluginTypes
<1>8. ASSUME NEW e \in Dirs \ {d}, Loaded(e)
      PROVE  modules[e] # c /\ modules[e] # m /\ modules[e].name # d
  BY <1>2, <1>5, <1>7, <1>8, Constants DEF Loaded
<1>9. c \notin overdue
  BY <1>2 DEF Inv, Plugins, Kept
<1> QED BY <1>2, <1>3, <1>4, <1>5, <1>6, <1>7, <1>8, <1>9

(* What is registered when neither of the two is sure to be.               *)
Cleared ==
  LET d == reload.dir
      c == reload.cand
      m == reload.old
  IN /\ RestExcept({d}) /\ ~Named(c.name, Dirs \ {d})
     /\ \A n \in Names : n # c.name /\ (m # None => n # m.name) /\ ~Named(n, Dirs \ {d}) => Empty(n)

LEMMA ClearedWhen ==
  ASSUME Inv, reload \in Reloads, reload.at # "deps",
         reload.at = "import" => ~Conflict(reload.cand)
  PROVE  Cleared
<1> DEFINE d == reload.dir
           c == reload.cand
           m == reload.old
<1>1. Reloading
  BY IdleIsIdle DEF Inv, Plugins, Sound
<1>2. /\ c.dir = d /\ m = modules[d]
  BY ReloadFacts
<1>3. RestExcept({d}) /\ ~Named(c.name, Dirs \ {d})
  <2>1. CASE reload.at = "import"
    BY <1>1, <1>2, <2>1 DEF Reloading, AtRest, RestExcept, Conflict, Named, Loaded
  <2>2. CASE reload.at # "import"
    BY <1>1, <2>2, PhasesOfReloads DEF Reloading, Phases
  <2> QED BY <2>1, <2>2
<1>4. ASSUME NEW n \in Names, n # c.name, m # None => n # m.name, ~Named(n, Dirs \ {d})
      PROVE  Empty(n)
  <2>1. ~Named(n, Dirs)
    BY <1>2, <1>4 DEF Named, Loaded
  <2>2. CASE reload.at \in {"import", "stopping"}
    BY <1>1, <2>1, <2>2 DEF Reloading, AtRest
  <2>3. CASE reload.at \in {"starting", "restoring"}
    BY <1>1, <1>4, <2>3 DEF Reloading
  <2> QED BY <2>2, <2>3, PhasesOfReloads DEF Phases
<1> QED BY <1>3, <1>4 DEF Cleared

LEMMA Room ==
  ASSUME Inv, reload \in Reloads, reload.at \in {"import", "stopping", "starting"},
         reload.old # None, NEW o \in SUBSET open
  PROVE  /\ Cardinality(InUse(reload.old, o)) + reload.old.try <= tries[reload.dir]
         /\ Cardinality(InUse(reload.old, o)) <= MaxEdits
<1> DEFINE d == reload.dir
           m == reload.old
           k == Cardinality(InUse(m, open))
           j == Cardinality(InUse(m, o))
<1>1. d \in Dirs /\ m = modules[d] /\ m.try \in Nat
  BY ReloadFacts
<1>2. One(Busy(d)) = 1
  BY DEF Busy, One
<1>3. k + m.try + One(Busy(d)) <= tries[d] + 1
  BY <1>1 DEF Inv, Plugins, HandlesSound, HandlesFew, Loaded
<1>4. tries[d] <= MaxEdits /\ tries[d] \in Nat
  <2>1. tries[d] + Due[d] <= file[d].ver /\ file[d].ver <= edits /\ edits <= MaxEdits /\ Due[d] \in Nat
    BY <1>1 DEF Inv, Queues, ReadsCounted, DiskTypes, Due, One
  <2>2. tries[d] \in Nat /\ file[d].ver \in Nat /\ edits \in Nat
    BY <1>1 DEF Inv, Queues, DiskTypes
  <2> QED BY <2>1, <2>2, Constants
<1>5. j <= k /\ j \in Nat /\ k \in Nat
  BY InUseFewer, InUseFinite
<1> HIDE DEF k, j, m, d
<1>6. j + m.try <= tries[d] /\ j <= MaxEdits
  BY <1>1, <1>2, <1>3, <1>4, <1>5, Constants
<1> QED BY <1>6 DEF k, j, m, d

(* The SDKs before the database of the candidate is opened.                *)
Untold(s, c) ==
  /\ \A x : x[1] # c => (x \in s <=> x \in sdk)
  /\ s \in SUBSET (Instances \X ({0} \cup Handles))
  /\ \/ \A x \in s : x[1] # c
     \/ c \in Factories /\ {x \in s : x[1] = c} = {<<c, 0>>}

(* Tools and hooks of the candidate take the place of the old ones.        *)
LEMMA ReplaceSound ==
  ASSUME Inv, reload \in Reloads, reload.at \in {"import", "stopping"}, Cleared,
         reload.at = "import" => reload.old = None,
         NEW o \in SUBSET open, db \subseteq o, late' \subseteq o, late' \cap db = {},
         NEW s, Untold(s, reload.cand), Replace(o, s), UNCHANGED <<disk, attempts, overdue>>
  PROVE  Plugins'
<1> SUFFICES ASSUME NEW d, d = reload.dir, NEW c, c = reload.cand, NEW m, m = reload.old
             PROVE  Plugins'
  OBVIOUS
<1>1. /\ d \in Dirs /\ c \in Instances /\ c.dir = d /\ c.try = tries[d] /\ c.try > 0
      /\ c.name \in NamesOf[d] /\ c.name \in Names /\ c \notin overdue
      /\ m = modules[d] /\ m \in Instances \cup {None}
      /\ m # None => m.name \in Names /\ m # c /\ m.try < tries[d]
      /\ \A e \in Dirs \ {d} : Loaded(e) =>
              /\ modules[e] \in Instances /\ modules[e].name \in Names
              /\ modules[e] # c /\ modules[e].name # d
              /\ m # None => modules[e].name # m.name
  BY ReloadFacts DEF Inv
<1>2. Reloading
  BY IdleIsIdle DEF Inv, Plugins, Sound
<1>3. /\ \A x \in open : x[1] # c
      /\ RestExcept({d}) /\ ~Named(c.name, Dirs \ {d})
      /\ \A n \in Names : n # c.name /\ (m # None => n # m.name) /\ ~Named(n, Dirs \ {d}) => Empty(n)
  BY <1>2 DEF Reloading, Cleared
<1>4. /\ Migrate(c, o) /\ sdk' = GetSdk(s, c, db') /\ overdue' = overdue
      /\ tools' = [RemoveTools(tools, {OldName} \cap Names) EXCEPT ![c.name] = c]
      /\ hooks' = [Unregister(hooks, {OldName} \cap Names) EXCEPT ![c.name] = <<c>>]
      /\ active' = active \cup {c}
      /\ reload' = [reload EXCEPT !.at = "starting"]
      /\ UNCHANGED <<modules, queue>>
  BY DEF Replace
<1>5. OldName = IF m = None THEN d ELSE m.name
  BY DEF OldName
<1>6. PluginTypes /\ HandlesOwned /\ HandlesKnown /\ Queues /\ Own /\ Kept
  BY DEF Inv, Plugins, HandlesSound
<1>7. InUse(c, o) = {} /\ Cardinality(InUse(c, o)) = 0
  <2>1. InUse(c, o) = {}
    BY <1>3 DEF InUse
  <2> QED BY <2>1, FS_EmptySet
<1>8. /\ HandlesOwned' /\ HandlesKnown' /\ HandleOf(c)' # {}
      /\ db' \in SUBSET (Instances \X Handles) /\ open' \in SUBSET (Instances \X Handles)
      /\ late' \in SUBSET (Instances \X Handles)
      /\ Cardinality(InUse(c, open')) <= Cardinality(InUse(c, o)) + 1
      /\ \A n \in Instances \ {c} : InUse(n, open') = InUse(n, o)
      /\ \A x \in db : x[1] # c => x \in db'
  <2>1. c \in Instances /\ c.dir \in Dirs /\ c.try <= tries[c.dir]
    BY <1>1 DEF Inv, Queues, DiskTypes
  <2>2. Cardinality(InUse(c, o)) <= MaxEdits
    BY <1>7, Constants
  <2> QED BY <1>4, <1>6, <2>1, <2>2, MigrateSound
<1>9. tools' \in [Names -> Instances \cup {None}] /\ hooks' \in [Names -> Seq(Instances)]
  <2>1. RemoveTools(tools, {OldName} \cap Names) \in [Names -> Instances \cup {None}]
    BY <1>6 DEF RemoveTools, PluginTypes
  <2>2. Unregister(hooks, {OldName} \cap Names) \in [Names -> Seq(Instances)]
    BY <1>6 DEF Unregister, PluginTypes
  <2>3. <<c>> \in Seq(Instances)
    BY <1>1
  <2> QED BY <1>1, <1>4, <2>1, <2>2, <2>3
<1>17. /\ sdk' \in SUBSET (Instances \X ({0} \cup Handles))
       /\ \A x : x[1] # c => (x \in sdk' <=> x \in sdk)
       /\ (SdkOf(c) = HandleOf(c))' \/ Bare(c)'
  <2>1. /\ s \in SUBSET (Instances \X ({0} \cup Handles)) /\ \A x : x[1] # c => (x \in s <=> x \in sdk)
        /\ \/ \A x \in s : x[1] # c
           \/ c \in Factories /\ {x \in s : x[1] = c} = {<<c, 0>>}
    BY DEF Untold
  <2>2. \E x \in db' : x[1] = c
    BY <1>8 DEF HandleOf
  <2>3. CASE \A x \in s : x[1] # c
    <3>1. sdk' = GetSdk(s, c, db') /\ c \in Instances /\ db' \in SUBSET (Instances \X Handles)
      BY <1>1, <1>4, <1>8
    <3>2. {x \in sdk' : x[1] = c} = {x \in db' : x[1] = c}
      BY <2>1, <2>2, <2>3, <3>1, GetSdkGives
    <3>3. /\ sdk' \in SUBSET (Instances \X ({0} \cup Handles))
          /\ \A x : x[1] # c => (x \in sdk' <=> x \in s)
      BY <2>1, <3>1, GetSdkGives
    <3> QED BY <2>1, <3>2, <3>3 DEF SdkOf, HandleOf
  <2>4. CASE c \in Factories /\ {x \in s : x[1] = c} = {<<c, 0>>}
    <3>1. \E x \in s : x[1] = c
      BY <2>4
    <3>2. sdk' = s
      BY <1>4, <3>1 DEF GetSdk
    <3> QED BY <2>1, <2>4, <3>2 DEF Bare, SdkOf
  <2> QED BY <2>1, <2>3, <2>4
<1>10. /\ tools'[c.name] = c /\ hooks'[c.name] = <<c>>
       /\ \A n \in Names : n # c.name /\ n = OldName => tools'[n] = None /\ hooks'[n] = <<>>
       /\ \A n \in Names : n # c.name /\ n # OldName => tools'[n] = tools[n] /\ hooks'[n] = hooks[n]
  BY <1>1, <1>4, <1>6 DEF RemoveTools, Unregister, PluginTypes
<1>11. PluginTypes' /\ Kept'
  <2>1. PluginTypes'
    BY <1>1, <1>4, <1>6, <1>8, <1>9, <1>17 DEF PluginTypes
  <2>2. ASSUME NEW x \in sdk' PROVE x[1].try <= tries[x[1].dir]
    <3>1. CASE x[1] = c
      BY <1>1, <1>6, <3>1 DEF Queues, DiskTypes
    <3>2. CASE x[1] # c
      BY <1>6, <1>17, <3>2 DEF Kept
    <3> QED BY <3>1, <3>2
  <2> QED BY <1>4, <1>6, <2>1, <2>2 DEF Kept, attempts
<1>12. reload' \in Reloads /\ reload'.at = "starting" /\ reload'.dir = d /\ reload'.cand = c
       /\ reload'.old = m /\ reload'.hooks = reload.hooks
  <2>1. "starting" \in Phases
    BY DEF Phases
  <2> QED BY <1>4, <2>1 DEF Reloads
<1>13. Own'
  <2>1. \A n \in Names : tools'[n] # None => tools'[n].name = n
    BY <1>1, <1>6, <1>10 DEF Own
  <2> QED BY <1>4, <1>6, <2>1 DEF Own, Loaded, attempts
<1>14. HandlesFew'
  <2>1. ASSUME NEW e \in Dirs, modules[e] # None, NEW n, n = modules[e]
        PROVE  Cardinality(InUse(n, open')) + n.try + One(Busy(e)') <= tries[e] + 1
    <3>1. n \in Instances /\ n # c /\ n.try \in Nat
      BY <1>1, <1>6, <2>1 DEF PluginTypes, Loaded, Instances
    <3>2. Cardinality(InUse(n, open')) <= Cardinality(InUse(n, open))
      BY <1>8, <3>1, InUseFewer
    <3>3. One(Busy(e)') <= One(Busy(e)) /\ One(Busy(e)') \in Nat /\ One(Busy(e)) \in Nat
      BY <1>12 DEF One, Busy
    <3>4. Cardinality(InUse(n, open)) + n.try + One(Busy(e)) <= tries[e] + 1
      BY <2>1 DEF Inv, Plugins, HandlesSound, HandlesFew, Loaded
    <3>5. tries[e] \in Nat
      BY <1>6 DEF Queues, DiskTypes
    <3>6. Cardinality(InUse(n, open)) \in Nat /\ Cardinality(InUse(n, open')) \in Nat
      BY InUseFinite
    <3> QED BY <3>1, <3>2, <3>3, <3>4, <3>5, <3>6
  <2> QED BY <1>4, <2>1 DEF HandlesFew, Loaded, attempts
<1>15. RestExcept({d})'
  <2>1. \A e \in Dirs \ {d} : Loaded(e) =>
          /\ tools'[modules[e].name] = tools[modules[e].name]
          /\ hooks'[modules[e].name] = hooks[modules[e].name]
          /\ modules[e] \in active => modules[e] \in active'
          /\ \A x \in db : x[1] = modules[e] => x \in db'
          /\ \A x : x[1] = modules[e] => (x \in sdk' <=> x \in sdk)
    <3>1. ASSUME NEW e \in Dirs \ {d}, Loaded(e)
          PROVE  modules[e].name # c.name /\ modules[e].name # OldName /\ modules[e] # c
      BY <1>1, <1>3, <1>5, <3>1 DEF Named
    <3> QED BY <1>1, <1>4, <1>8, <1>10, <1>17, <3>1
  <2> QED BY <1>3, <1>4, <1>8, <2>1, OthersStayWhole
<1>16. Reloading'
  <2>1. ~Named(c.name, Dirs \ {d})'
    BY <1>3, <1>4 DEF Named, Loaded
  <2>2. \A n \in Names \ {c.name} : ~Named(n, Dirs \ {d})' => Empty(n)'
    <3>1. ASSUME NEW n \in Names \ {c.name}, ~Named(n, Dirs \ {d})'
          PROVE  tools'[n] = None /\ OnlyBy(hooks'[n], overdue')
      <4>1. ~Named(n, Dirs \ {d})
        BY <1>4, <3>1 DEF Named, Loaded
      <4>2. CASE n = OldName
        BY <1>10, <4>2, HooksAlone
      <4>3. CASE n # OldName
        <5>1. Empty(n)
          BY <1>3, <1>5, <4>1, <4>3
        <5> QED BY <1>4, <1>10, <4>3, <5>1 DEF Empty
      <4> QED BY <4>2, <4>3
    <3> QED BY <3>1 DEF Empty
  <2>3. Runs(c)'
    BY <1>4, <1>8 DEF Runs
  <2>4. Cardinality(InUse(c, open')) <= 1
    BY <1>7, <1>8, InUseFinite
  <2>5. m = modules'[d] /\ (m # None => JustOnce(reload'.hooks, m, overdue')) /\ c # None
    BY <1>1, <1>2, <1>4, <1>12, Constants DEF Reloading
  <2>6. /\ c.dir = d /\ c.try = tries'[d] /\ c.try > 0 /\ c.name \in NamesOf[d]
        /\ m # None => m.try < tries'[d]
    BY <1>1 DEF attempts
  <2>7. m # None => SdkOf(m)' = {}
    <3>1. m # None => SdkOf(m) = {}
      BY <1>2 DEF Reloading
    <3> QED BY <1>1, <1>17, <3>1 DEF SdkOf
  <2> QED BY <1>10, <1>12, <1>15, <1>17, <2>7, <2>1, <2>2, <2>3, <2>4, <2>5, <2>6 DEF Reloading
<1> QED BY <1>8, <1>11, <1>12, <1>13, <1>14, <1>16, IdleIsIdle
        DEF Plugins, ReloadType, HandlesSound, Sound

(* The old plugin is put back.                                             *)
LEMMA RestoreSound ==
  ASSUME Inv, reload \in Reloads, reload.at \in {"stopping", "starting"}, reload.old # None, Cleared,
         NEW o \in SUBSET open, db \subseteq o, late' \subseteq o, late' \cap db = {},
         Restore(o), UNCHANGED <<disk, attempts, overdue>>
  PROVE  Plugins'
<1> SUFFICES ASSUME NEW d, d = reload.dir, NEW c, c = reload.cand, NEW m, m = reload.old
             PROVE  Plugins'
  OBVIOUS
<1>1. /\ d \in Dirs /\ c \in Instances /\ c.dir = d /\ c.try = tries[d]
      /\ c.name \in NamesOf[d] /\ c.name \in Names
      /\ m = modules[d] /\ m \in Instances /\ m.dir = d /\ m.name \in Names /\ m # c /\ m # None
      /\ m.try < tries[d] /\ m.try \in Nat /\ c.try > 0
      /\ \A e \in Dirs \ {d} : Loaded(e) =>
              /\ modules[e] \in Instances /\ modules[e].name \in Names
              /\ modules[e] # m /\ modules[e].name # m.name /\ modules[e] # c
  BY ReloadFacts DEF Inv
<1>2. Reloading
  BY IdleIsIdle DEF Inv, Plugins, Sound
<1>3. /\ RestExcept({d}) /\ ~Named(c.name, Dirs \ {d})
      /\ \A n \in Names : n # c.name /\ n # m.name /\ ~Named(n, Dirs \ {d}) => Empty(n)
  BY <1>1 DEF Cleared
<1>4. /\ Migrate(m, o) /\ sdk' = GetSdk(sdk \ SdkOf(c), m, db') /\ overdue' = overdue
      /\ tools' = [RemoveTools(tools, {c.name}) EXCEPT ![m.name] = m]
      /\ hooks' = ReplayHooks(Unregister(hooks, {c.name}), m)
      /\ active' = active \cup {m}
      /\ reload' = [reload EXCEPT !.at = "restoring"]
      /\ UNCHANGED <<modules, queue>>
  BY DEF Restore
<1>5. PluginTypes /\ HandlesOwned /\ HandlesKnown /\ Queues /\ Own /\ Kept
  BY DEF Inv, Plugins, HandlesSound
<1>6. /\ Cardinality(InUse(m, o)) + m.try <= tries[d]
      /\ Cardinality(InUse(m, o)) <= MaxEdits
  BY <1>1, Room
<1>7. /\ HandlesOwned' /\ HandlesKnown' /\ HandleOf(m)' # {}
      /\ db' \in SUBSET (Instances \X Handles) /\ open' \in SUBSET (Instances \X Handles)
      /\ late' \in SUBSET (Instances \X Handles)
      /\ Cardinality(InUse(m, open')) <= Cardinality(InUse(m, o)) + 1
      /\ \A n \in Instances \ {m} : InUse(n, open') = InUse(n, o)
      /\ \A x \in db : x[1] # m => x \in db'
  <2>1. m \in Instances /\ m.dir \in Dirs /\ m.try <= tries[m.dir]
    BY <1>1, <1>5 DEF Queues, DiskTypes
  <2> QED BY <1>4, <1>5, <1>6, <2>1, MigrateSound
<1>8. tools' \in [Names -> Instances \cup {None}] /\ hooks' \in [Names -> Seq(Instances)]
  <2>1. RemoveTools(tools, {c.name}) \in [Names -> Instances \cup {None}]
    BY <1>5 DEF RemoveTools, PluginTypes
  <2>2. Unregister(hooks, {c.name}) \in [Names -> Seq(Instances)]
    BY <1>5 DEF Unregister, PluginTypes
  <2>3. ASSUME NEW h \in [Names -> Seq(Instances)] PROVE ReplayHooks(h, m) \in [Names -> Seq(Instances)]
    <3>1. Append(h[m.name], m) \in Seq(Instances)
      BY <1>1
    <3> QED BY <3>1 DEF ReplayHooks
  <2> QED BY <1>1, <1>4, <2>1, <2>2, <2>3
<1>16. /\ sdk' \in SUBSET (Instances \X ({0} \cup Handles))
       /\ \A x : x[1] # m /\ x[1] # c => (x \in sdk' <=> x \in sdk)
       /\ \A x \in sdk' : x[1] = m \/ x \in sdk
       /\ (SdkOf(m) = HandleOf(m))'
  <2> DEFINE s == sdk \ SdkOf(c)
  <2>1. \A x \in sdk : x[1] # m
    <3>1. SdkOf(m) = {}
      BY <1>1, <1>2 DEF Reloading
    <3> QED BY <3>1 DEF SdkOf
  <2>2. s \in SUBSET (Instances \X ({0} \cup Handles)) /\ (\A x \in s : x[1] # m)
        /\ \A x : x[1] # c => (x \in s <=> x \in sdk)
    BY <1>5, <2>1 DEF SdkOf, PluginTypes
  <2>3. \E x \in db' : x[1] = m
    BY <1>7 DEF HandleOf
  <2> HIDE DEF s
  <2>4. sdk' = GetSdk(s, m, db')
    BY <1>4 DEF s
  <2>5. {x \in sdk' : x[1] = m} = {x \in db' : x[1] = m}
    BY <1>1, <1>7, <2>2, <2>3, <2>4, GetSdkGives
  <2>6. sdk' \in SUBSET (Instances \X ({0} \cup Handles)) /\ \A x : x[1] # m => (x \in sdk' <=> x \in s)
    BY <1>1, <1>7, <2>2, <2>4, GetSdkGives
  <2> QED BY <2>2, <2>5, <2>6 DEF SdkOf, HandleOf, s
<1>9. /\ tools'[m.name] = m
      /\ \A n \in Names : n # m.name /\ n = c.name => tools'[n] = None /\ hooks'[n] = <<>>
      /\ \A n \in Names : n # m.name /\ n # c.name => tools'[n] = tools[n] /\ hooks'[n] = hooks[n]
  BY <1>1, <1>4, <1>5 DEF RemoveTools, Unregister, ReplayHooks, PluginTypes
<1>10. PluginTypes' /\ Kept'
  <2>1. PluginTypes'
    BY <1>1, <1>4, <1>5, <1>7, <1>8, <1>16 DEF PluginTypes
  <2>2. ASSUME NEW x \in sdk' PROVE x[1].try <= tries[x[1].dir]
    <3>1. CASE x[1] = m
      BY <1>1, <1>5, <3>1 DEF Queues, DiskTypes
    <3>2. CASE x[1] # m
      BY <1>5, <1>16, <3>2 DEF Kept
    <3> QED BY <3>1, <3>2
  <2> QED BY <1>4, <1>5, <2>1, <2>2 DEF Kept, attempts
<1>11. reload' \in Reloads /\ reload'.at = "restoring" /\ reload'.dir = d /\ reload'.cand = c
       /\ reload'.old = m /\ reload'.hooks = reload.hooks
  <2>1. "restoring" \in Phases
    BY DEF Phases
  <2> QED BY <1>4, <2>1 DEF Reloads
<1>12. Own'
  <2>1. \A n \in Names : tools'[n] # None => tools'[n].name = n
    BY <1>1, <1>5, <1>9 DEF Own
  <2> QED BY <1>4, <1>5, <2>1 DEF Own, Loaded, attempts
<1>13. HandlesFew'
  <2>1. ASSUME NEW e \in Dirs, modules[e] # None, NEW n, n = modules[e]
        PROVE  Cardinality(InUse(n, open')) + n.try + One(Busy(e)') <= tries[e] + 1
    <3>1. One(Busy(e)') = 0
      BY <1>11 DEF One, Busy
    <3>2. n \in Instances /\ n.try \in Nat /\ tries[e] \in Nat
      BY <1>5, <2>1 DEF PluginTypes, Instances, Queues, DiskTypes
    <3>3. Cardinality(InUse(n, open)) \in Nat /\ Cardinality(InUse(n, open')) \in Nat
      BY InUseFinite
    <3>4. CASE e = d
      <4>1. n = m /\ Cardinality(InUse(m, o)) \in Nat
        BY <1>1, <2>1, <3>4, InUseFinite
      <4> QED BY <1>6, <1>7, <3>1, <3>2, <3>3, <3>4, <4>1
    <3>5. CASE e # d
      <4>1. Cardinality(InUse(n, open')) <= Cardinality(InUse(n, open))
        BY <1>1, <1>7, <2>1, <3>2, <3>5, InUseFewer DEF Loaded
      <4>2. Cardinality(InUse(n, open)) + n.try + One(Busy(e)) <= tries[e] + 1
        BY <2>1 DEF Inv, Plugins, HandlesSound, HandlesFew, Loaded
      <4>3. One(Busy(e)) \in Nat
        BY DEF One
      <4> QED BY <3>1, <3>2, <3>3, <4>1, <4>2, <4>3
    <3> QED BY <3>4, <3>5
  <2> QED BY <1>4, <2>1 DEF HandlesFew, Loaded, attempts
<1>14. RestExcept({d})'
  <2>1. \A e \in Dirs \ {d} : Loaded(e) =>
          /\ tools'[modules[e].name] = tools[modules[e].name]
          /\ hooks'[modules[e].name] = hooks[modules[e].name]
          /\ modules[e] \in active => modules[e] \in active'
          /\ \A x \in db : x[1] = modules[e] => x \in db'
          /\ \A x : x[1] = modules[e] => (x \in sdk' <=> x \in sdk)
    <3>1. ASSUME NEW e \in Dirs \ {d}, Loaded(e)
          PROVE  modules[e].name # c.name /\ modules[e].name # m.name /\ modules[e] # m /\ modules[e] # c
      BY <1>1, <1>3, <3>1 DEF Named
    <3> QED BY <1>1, <1>4, <1>7, <1>9, <1>16, <3>1
  <2> QED BY <1>3, <1>4, <1>7, <2>1, OthersStayWhole
<1>15. Reloading'
  <2>1. ~Named(c.name, Dirs \ {d})'
    BY <1>3, <1>4 DEF Named, Loaded
  <2>2. \A n \in Names \ {m.name} : ~Named(n, Dirs \ {d})' => Empty(n)'
    <3>1. ASSUME NEW n \in Names \ {m.name}, ~Named(n, Dirs \ {d})'
          PROVE  tools'[n] = None /\ OnlyBy(hooks'[n], overdue')
      <4>1. ~Named(n, Dirs \ {d})
        BY <1>4, <3>1 DEF Named, Loaded
      <4>2. CASE n = c.name
        BY <1>9, <4>2, HooksAlone
      <4>3. CASE n # c.name
        <5>1. Empty(n)
          BY <1>3, <4>1, <4>3
        <5> QED BY <1>4, <1>9, <4>3, <5>1 DEF Empty
      <4> QED BY <4>2, <4>3
    <3> QED BY <3>1 DEF Empty
  <2>3. Runs(m)'
    BY <1>4, <1>7 DEF Runs
  <2>4. m = modules'[d] /\ JustOnce(reload'.hooks, m, overdue') /\ c # None
    BY <1>1, <1>2, <1>4, <1>11, Constants DEF Reloading
  <2>5. c.dir = d /\ c.try = tries'[d] /\ c.try > 0 /\ c.name \in NamesOf[d] /\ m.try < tries'[d]
    BY <1>1 DEF attempts
  <2> QED BY <1>16, <1>1, <1>9, <1>11, <1>14, <2>1, <2>2, <2>3, <2>4, <2>5 DEF Reloading
<1> QED BY <1>7, <1>10, <1>11, <1>12, <1>13, <1>15, IdleIsIdle
        DEF Plugins, ReloadType, HandlesSound, Sound

(* The plugin is disabled: nothing is loaded from its directory.           *)
LEMMA DisableSound ==
  ASSUME Inv, reload \in Reloads, reload.at # "deps", reload.old # None, Cleared,
         HandlesOwned', HandlesKnown',
         db' \in SUBSET (Instances \X Handles), open' \in SUBSET (Instances \X Handles),
         late' \in SUBSET (Instances \X Handles),
         \A n \in Instances : n # reload.old => InUse(n, open') \subseteq InUse(n, open),
         \A x \in db : x[1] # reload.old => x \in db',
         overdue' \in {overdue, overdue \cup {n \in {reload.old} : n.try = 0}},
         Disable, UNCHANGED <<disk, attempts, active>>
  PROVE  Plugins'
<1> SUFFICES ASSUME NEW d, d = reload.dir, NEW c, c = reload.cand, NEW m, m = reload.old
             PROVE  Plugins'
  OBVIOUS
<1>1. /\ d \in Dirs /\ m = modules[d] /\ m # None /\ m \in Instances
      /\ c.name \in Names /\ m.name \in Names
      /\ \A e \in Dirs \ {d} : Loaded(e) =>
              /\ modules[e] \in Instances /\ modules[e].name \in Names
              /\ modules[e] # m /\ modules[e].name # m.name /\ modules[e] # c
  BY ReloadFacts DEF Inv
<1>2. /\ RestExcept({d}) /\ ~Named(c.name, Dirs \ {d})
      /\ \A n \in Names : n # c.name /\ n # m.name /\ ~Named(n, Dirs \ {d}) => Empty(n)
  BY <1>1 DEF Cleared
<1>3. /\ tools' = RemoveTools(tools, {c.name, m.name})
      /\ hooks' = Unregister(hooks, {c.name, m.name})
      /\ modules' = [modules EXCEPT ![d] = None]
      /\ sdk' = sdk \ (SdkOf(c) \cup SdkOf(m))
      /\ reload' = Idle
  BY DEF Disable, Finish
<1>4. PluginTypes /\ Queues /\ Own /\ Kept
  BY DEF Inv, Plugins
<1>12. overdue \subseteq overdue' /\ \A n \in overdue' : n \in overdue \/ (n = m /\ m.try = 0)
  OBVIOUS
<1>13. sdk' \subseteq sdk /\ \A x : x[1] # m /\ x[1] # c => (x \in sdk' <=> x \in sdk)
  BY <1>3 DEF SdkOf
<1>5. /\ \A n \in {c.name, m.name} : tools'[n] = None /\ hooks'[n] = <<>>
      /\ \A n \in Names \ {c.name, m.name} : tools'[n] = tools[n] /\ hooks'[n] = hooks[n]
  BY <1>1, <1>3 DEF RemoveTools, Unregister
<1>6. /\ modules'[d] = None /\ \A e \in Dirs \ {d} : modules'[e] = modules[e]
  BY <1>1, <1>3, <1>4 DEF PluginTypes
<1>7. PluginTypes'
  <2>1. modules' \in [Dirs -> Instances \cup {None}]
    BY <1>3, <1>4 DEF PluginTypes
  <2>2. tools' \in [Names -> Instances \cup {None}]
    BY <1>3, <1>4 DEF PluginTypes, RemoveTools
  <2>3. hooks' \in [Names -> Seq(Instances)]
    BY <1>3, <1>4 DEF PluginTypes, Unregister
  <2>4. sdk' \in SUBSET (Instances \X ({0} \cup Handles)) /\ overdue' \in SUBSET Instances
    BY <1>1, <1>4, <1>12, <1>13 DEF PluginTypes
  <2> QED BY <1>4, <2>1, <2>2, <2>3, <2>4 DEF PluginTypes
<1>14. Kept'
  BY <1>4, <1>12, <1>13 DEF Kept, attempts
<1>8. Own'
  <2>1. \A n \in Names : tools'[n] # None => tools'[n].name = n
    BY <1>4, <1>5 DEF Own
  <2> QED BY <1>4, <1>6, <2>1 DEF Own, Loaded, attempts
<1>9. HandlesFew'
  <2>1. ASSUME NEW e \in Dirs, modules'[e] # None, NEW n, n = modules'[e]
        PROVE  Cardinality(InUse(n, open')) + n.try + One(Busy(e)') <= tries[e] + 1
    <3>1. n = modules[e] /\ n # m /\ n \in Instances /\ n.try \in Nat /\ tries[e] \in Nat
      <4>1. e # d
        BY <1>6, <2>1
      <4> QED BY <1>1, <1>4, <1>6, <2>1, <4>1 DEF Loaded, Instances, Queues, DiskTypes
    <3>2. One(Busy(e)') = 0
      BY <1>3, IdleIsIdle DEF One, Busy
    <3>3. Cardinality(InUse(n, open)) \in Nat /\ Cardinality(InUse(n, open')) \in Nat
      BY InUseFinite
    <3>4. Cardinality(InUse(n, open')) <= Cardinality(InUse(n, open))
      BY <3>1, InUseFinite, FS_Subset
    <3>5. Cardinality(InUse(n, open)) + n.try + One(Busy(e)) <= tries[e] + 1 /\ One(Busy(e)) \in Nat
      BY <2>1, <3>1, OneValues DEF Inv, Plugins, HandlesSound, HandlesFew, Loaded
    <3> QED BY <3>1, <3>2, <3>3, <3>4, <3>5
  <2> QED BY <2>1 DEF HandlesFew, Loaded, attempts
<1>10. RestExcept({d})'
  <2>1. \A e \in Dirs \ {d} : Loaded(e) =>
          /\ tools'[modules[e].name] = tools[modules[e].name]
          /\ hooks'[modules[e].name] = hooks[modules[e].name]
          /\ modules[e] \in active => modules[e] \in active'
          /\ \A x \in db : x[1] = modules[e] => x \in db'
          /\ modules[e] \in overdue' => modules[e] \in overdue
          /\ \A x : x[1] = modules[e] => (x \in sdk' <=> x \in sdk)
    <3>1. ASSUME NEW e \in Dirs \ {d}, Loaded(e)
          PROVE  modules[e].name # c.name /\ modules[e].name # m.name /\ modules[e] # m /\ modules[e] # c
      BY <1>1, <1>2, <3>1 DEF Named
    <3> QED BY <1>1, <1>5, <1>12, <1>13, <3>1
  <2> QED BY <1>2, <1>6, <1>12, <2>1, OthersStayWhole
<1>11. AtRest'
  <2>1. RestExcept({})'
    BY <1>6, <1>10 DEF RestExcept, Loaded
  <2>2. ASSUME NEW n \in Names, ~Named(n, Dirs)' PROVE tools'[n] = None /\ OnlyBy(hooks'[n], overdue')
    <3>1. ~Named(n, Dirs \ {d})
      BY <1>6, <2>2 DEF Named, Loaded
    <3>2. CASE n \in {c.name, m.name}
      BY <1>5, <3>2, HooksAlone
    <3>3. CASE n \notin {c.name, m.name}
      <4>1. tools'[n] = None /\ hooks'[n] = hooks[n] /\ OnlyBy(hooks[n], overdue)
        BY <1>2, <1>5, <3>1, <3>3 DEF Empty
      <4> QED BY <1>12, <4>1, HooksOverdue
    <3> QED BY <3>2, <3>3
  <2> QED BY <2>1, <2>2 DEF AtRest, Empty
<1> QED BY <1>3, <1>7, <1>8, <1>9, <1>11, <1>14 DEF Plugins, ReloadType, HandlesSound, Sound

(* What RollBack does to the old plugin, put back or not.                  *)
LEMMA RollBackSound ==
  ASSUME Inv, reload \in Reloads, reload.at \in {"stopping", "starting"}, reload.old # None, Cleared,
         NEW o \in SUBSET open, db \subseteq o, late' \subseteq o, late' \cap db = {},
         RollBack(o), UNCHANGED <<disk, attempts, overdue>>
  PROVE  Plugins'
<1>1. CASE Restore(o)
  BY <1>1, RestoreSound
<1>2. CASE GiveUp(o)
  <2> SUFFICES ASSUME NEW m, m = reload.old PROVE Plugins'
    OBVIOUS
  <2>1. m \in Instances /\ m.dir \in Dirs /\ m.try <= tries[m.dir] /\ m # None
    BY ReloadFacts DEF Inv, Queues, DiskTypes
  <2>2. PluginTypes /\ HandlesOwned /\ HandlesKnown /\ Queues
    BY DEF Inv, Plugins, HandlesSound
  <2>3. /\ HandlesOwned' /\ HandlesKnown'
        /\ db' \in SUBSET (Instances \X Handles) /\ open' \in SUBSET (Instances \X Handles)
        /\ late' \in SUBSET (Instances \X Handles)
        /\ \A n \in Instances : n # m => InUse(n, open') \subseteq InUse(n, open)
        /\ \A x \in db : x[1] # m => x \in db'
    <3>1. CASE Migrate(m, o)
      <4>1. Cardinality(InUse(m, o)) <= MaxEdits
        BY Room
      <4>2. \A n : InUse(n, o) \subseteq InUse(n, open)
        BY DEF InUse
      <4>3. /\ HandlesOwned' /\ HandlesKnown'
            /\ db' \in SUBSET (Instances \X Handles) /\ open' \in SUBSET (Instances \X Handles)
            /\ late' \in SUBSET (Instances \X Handles)
            /\ \A n \in Instances \ {m} : InUse(n, open') = InUse(n, o)
            /\ \A x \in db : x[1] # m => x \in db'
        BY <2>1, <2>2, <3>1, <4>1, MigrateSound
      <4> QED BY <4>2, <4>3
    <3>2. CASE open' = o /\ UNCHANGED db
      <4>1. HandlesOwned' /\ HandlesKnown'
        BY <2>2, <3>2 DEF HandlesOwned, HandlesKnown, attempts
      <4>2. db' \in SUBSET (Instances \X Handles) /\ open' \in SUBSET (Instances \X Handles)
        BY <2>2, <3>2 DEF PluginTypes
      <4>3. late' \in SUBSET (Instances \X Handles)
        BY <2>2 DEF PluginTypes
      <4>4. \A n : InUse(n, open') \subseteq InUse(n, open)
        BY <3>2 DEF InUse
      <4> QED BY <3>2, <4>1, <4>2, <4>3, <4>4
    <3> QED BY <1>2, <3>1, <3>2 DEF GiveUp
  <2>4. reload.at # "deps" /\ Disable /\ UNCHANGED active
    BY <1>2 DEF GiveUp
  <2> QED BY <2>1, <2>3, <2>4, DisableSound
<1> QED BY <1>1, <1>2 DEF RollBack

(* stop() has ended, or its time is over.                                  *)
LEMMA StopSound ==
  ASSUME Inv, Stopped \/ StopTimesOut
  PROVE  Inv'
<1>1. reload \in Reloads /\ reload.at = "stopping" /\ reload # Idle
  BY IdleIsIdle DEF Inv, Plugins, ReloadType, Stopped, StopTimesOut
<1>2. Reloading
  BY <1>1 DEF Inv, Plugins, Sound
<1>3. reload.old # None /\ reload.held \subseteq open \ late /\ reload.held \cap db = {}
  <2>1. reload.old # None /\ HandleOf(reload.old) = {}
        /\ reload.held \subseteq ({reload.old} \X Handles) \cap (open \ late)
    BY <1>1, <1>2 DEF Reloading
  <2> QED BY <2>1 DEF HandleOf
<1>4. Cleared
  BY <1>1, ClearedWhen
<1>5. UNCHANGED <<disk, attempts, overdue, watcher>>
  BY DEF Stopped, StopTimesOut, Rest
<1>10. Untold(sdk, reload.cand)
  BY <1>1, <1>2 DEF Untold, Reloading, Bare, SdkOf, Inv, Plugins, PluginTypes
<1>6. HandlesOwned
  BY DEF Inv, Plugins, HandlesSound
<1>7. ASSUME NEW o \in SUBSET open, db \subseteq o, late' \subseteq o, late' \cap db = {},
             Replace(o, sdk) \/ RollBack(o)
      PROVE  Plugins'
  BY <1>1, <1>3, <1>4, <1>5, <1>7, <1>10, ReplaceSound, RollBackSound
<1>8. Plugins'
  <2>1. CASE Stopped
    <3>1. LET o == open \ reload.held
          IN  /\ o \in SUBSET open /\ db \subseteq o /\ late' \subseteq o /\ late' \cap db = {}
              /\ Replace(o, sdk) \/ RollBack(o)
      BY <1>3, <1>6, <2>1 DEF Stopped, HandlesOwned
    <3> QED BY <1>7, <3>1
  <2>2. CASE StopTimesOut
    <3>1. /\ db \subseteq open /\ late' \subseteq open /\ late' \cap db = {}
          /\ Replace(open, sdk) \/ RollBack(open)
      BY <1>3, <1>6, <2>2 DEF StopTimesOut, HandlesOwned
    <3> QED BY <1>7, <3>1
  <2> QED BY <2>1, <2>2
<1>9. Queues'
  <2>1. CASE reload' = Idle
    <3>1. Finish
      <4>1. \A a : [reload EXCEPT !.at = a].at = a
        BY <1>1 DEF Reloads
      <4>2. reload' # [reload EXCEPT !.at = "starting"] /\ reload' # [reload EXCEPT !.at = "restoring"]
        BY <2>1, <4>1, IdleIsIdle
      <4> QED BY <4>2 DEF Stopped, StopTimesOut, Replace, RollBack, Restore, GiveUp, Disable
    <3> QED BY <1>1, <1>5, <3>1, FinishKeepsQueues DEF Inv, Plugins
  <2>2. CASE reload' # Idle
    <3>1. UNCHANGED queue /\ reload'.at # "deps"
      BY <1>1, <2>2, IdleIsIdle DEF Stopped, StopTimesOut, Replace, RollBack, Restore, GiveUp, Disable, Finish, Reloads
    <3> QED BY <1>1, <1>5, <3>1, PhaseKeepsQueues DEF Inv, Plugins, Reading
  <2> QED BY <2>1, <2>2
<1> QED BY <1>8, <1>9 DEF Inv

(* The tools of a candidate may make its SDK, which then has no database.  *)
LEMMA ToolsTell ==
  ASSUME Inv, reload \in Reloads, reload.at = "import"
  PROVE  Untold(AfterTools(reload.cand), reload.cand)
<1> SUFFICES ASSUME NEW c, c = reload.cand PROVE Untold(AfterTools(c), c)
  OBVIOUS
<1>1. c \in Instances
  BY ReloadFacts
<1>2. /\ sdk \in SUBSET (Instances \X ({0} \cup Handles)) /\ db \in SUBSET (Instances \X Handles)
      /\ db \subseteq open
  BY DEF Inv, Plugins, PluginTypes, HandlesSound, HandlesOwned
<1>3. (\A x \in sdk : x[1] # c) /\ (\A x \in db : x[1] # c)
  <2>1. SdkOf(c) = {} /\ \A x \in open : x[1] # c
    BY IdleIsIdle DEF Inv, Plugins, Sound, Reloading
  <2> QED BY <1>2, <2>1 DEF SdkOf
<1>4. CASE c \notin Factories
  BY <1>2, <1>3, <1>4 DEF AfterTools, Untold
<1>5. CASE c \in Factories
  <2>1. AfterTools(c) = GetSdk(sdk, c, db)
    BY <1>5 DEF AfterTools
  <2> QED BY <1>1, <1>2, <1>3, <1>5, <2>1, GetSdkGives DEF Untold
<1> QED BY <1>4, <1>5

LEMMA ValidateNewSound ==
  ASSUME Inv, ValidateNew
  PROVE  Inv'
<1>1. reload \in Reloads /\ reload.at = "import" /\ reload # Idle /\ ~Conflict(reload.cand)
  BY IdleIsIdle DEF Inv, Plugins, ReloadType, ValidateNew, Valid
<1>2. Cleared
  BY <1>1, ClearedWhen
<1>3. /\ Replace(open, AfterTools(reload.cand)) /\ reload.old = None
      /\ UNCHANGED <<disk, attempts, overdue, watcher, late>>
  BY DEF ValidateNew, Rest
<1>4. db \subseteq open /\ late' \subseteq open /\ late' \cap db = {}
  BY <1>3 DEF Inv, Plugins, HandlesSound, HandlesOwned
<1>8. Untold(AfterTools(reload.cand), reload.cand)
  BY <1>1, ToolsTell
<1>5. Plugins'
  BY <1>1, <1>2, <1>3, <1>4, <1>8, ReplaceSound
<1>6. UNCHANGED queue /\ reload'.at # "deps"
  BY <1>1, <1>3 DEF Replace, Reloads
<1>7. Queues'
  BY <1>1, <1>3, <1>6, PhaseKeepsQueues DEF Inv, Plugins, Reading
<1> QED BY <1>5, <1>7 DEF Inv

LEMMA StartFailsSound ==
  ASSUME Inv, StartFails
  PROVE  Inv'
<1>1. reload \in Reloads /\ reload.at = "starting" /\ reload # Idle /\ reload.old # None
  BY IdleIsIdle DEF Inv, Plugins, ReloadType, StartFails
<1>2. Cleared
  BY <1>1, ClearedWhen
<1>3. RollBack(open) /\ UNCHANGED <<disk, attempts, overdue, watcher, late>>
  BY DEF StartFails, Rest
<1>4. db \subseteq open /\ late' \subseteq open /\ late' \cap db = {}
  BY <1>3 DEF Inv, Plugins, HandlesSound, HandlesOwned
<1>5. Plugins'
  BY <1>1, <1>2, <1>3, <1>4, RollBackSound
<1>6. Queues'
  <2>1. CASE GiveUp(open)
    <3>1. Finish
      BY <2>1 DEF GiveUp, Disable
    <3> QED BY <1>1, <1>3, <3>1, FinishKeepsQueues DEF Inv, Plugins
  <2>2. CASE Restore(open)
    <3>1. UNCHANGED queue /\ reload'.at # "deps"
      BY <1>1, <2>2 DEF Restore, Reloads
    <3> QED BY <1>1, <1>3, <3>1, PhaseKeepsQueues DEF Inv, Plugins, Reading
  <2> QED BY <1>3, <2>1, <2>2 DEF RollBack
<1> QED BY <1>5, <1>6 DEF Inv

LEMMA RestoreFailsSound ==
  ASSUME Inv, RestoreFails
  PROVE  Inv'
<1>1. reload \in Reloads /\ reload.at = "restoring" /\ reload # Idle
  BY IdleIsIdle DEF Inv, Plugins, ReloadType, RestoreFails
<1>2. Cleared /\ reload.old # None
  BY <1>1, ClearedWhen, IdleIsIdle DEF Inv, Plugins, Sound, Reloading
<1>3. /\ Disable /\ UNCHANGED <<disk, attempts, watcher, active, db, open, late>>
      /\ overdue' \in {overdue, overdue \cup {n \in {reload.old} : n.try = 0}}
  BY DEF RestoreFails
<1>4. /\ HandlesOwned' /\ HandlesKnown'
      /\ db' \in SUBSET (Instances \X Handles) /\ open' \in SUBSET (Instances \X Handles)
      /\ late' \in SUBSET (Instances \X Handles) /\ open' = open /\ db' = db /\ active' = active
  BY <1>3 DEF Inv, Plugins, PluginTypes, HandlesSound, HandlesOwned, HandlesKnown, attempts
<1>5. Plugins'
  BY <1>1, <1>2, <1>3, <1>4, DisableSound
<1>6. Finish
  BY <1>3 DEF Disable
<1>7. Queues'
  BY <1>1, <1>3, <1>6, FinishKeepsQueues DEF Inv, Plugins
<1> QED BY <1>5, <1>7 DEF Inv

(* The candidate has started.                                              *)
LEMMA StartedSound ==
  ASSUME Inv, Started
  PROVE  Inv'
<1> SUFFICES ASSUME NEW d, d = reload.dir, NEW c, c = reload.cand, NEW m, m = reload.old
             PROVE  Inv'
  OBVIOUS
<1>1. reload \in Reloads /\ reload.at = "starting" /\ reload # Idle
  BY IdleIsIdle DEF Inv, Plugins, ReloadType, Started
<1>2. /\ d \in Dirs /\ c \in Instances /\ c.dir = d /\ c.try = tries[d] /\ c.try > 0
      /\ c.name \in NamesOf[d] /\ c.name \in Names /\ c \notin overdue
  BY <1>1, ReloadFacts
<1>3. /\ RestExcept({d}) /\ ~Named(c.name, Dirs \ {d})
      /\ tools[c.name] = c /\ Runs(c) /\ Cardinality(InUse(c, open)) <= 1
      /\ SdkOf(c) = HandleOf(c) \/ Bare(c)
      /\ \A n \in Names \ {c.name} : ~Named(n, Dirs \ {d}) => Empty(n)
  BY <1>1 DEF Inv, Plugins, Sound, Reloading
<1>4. /\ hooks' = [hooks EXCEPT ![c.name] = <<c>>]
      /\ modules' = [modules EXCEPT ![d] = c]
      /\ reload' = Idle
      /\ UNCHANGED <<disk, attempts, watcher, tools, runtime>>
  BY DEF Started, Finish, Rest
<1>5. PluginTypes /\ Own /\ HandlesOwned /\ HandlesKnown /\ Queues /\ Kept
  BY DEF Inv, Plugins, HandlesSound
<1>14. Kept'
  BY <1>4, <1>5 DEF Kept, runtime, attempts
<1>6. /\ modules'[d] = c /\ \A e \in Dirs \ {d} : modules'[e] = modules[e]
      /\ hooks'[c.name] = <<c>> /\ \A n \in Names \ {c.name} : hooks'[n] = hooks[n]
      /\ c # None
  BY <1>2, <1>4, <1>5, Constants DEF PluginTypes
<1>7. PluginTypes'
  <2>1. modules' \in [Dirs -> Instances \cup {None}]
    BY <1>2, <1>4, <1>5 DEF PluginTypes
  <2>2. hooks' \in [Names -> Seq(Instances)]
    <3>1. <<c>> \in Seq(Instances)
      BY <1>2
    <3> QED BY <1>4, <1>5, <3>1 DEF PluginTypes
  <2> QED BY <1>4, <1>5, <2>1, <2>2 DEF PluginTypes, runtime
<1>8. Own'
  <2>1. \A e \in Dirs \ {d} : Loaded(e) => modules[e].name # c.name
    BY <1>3 DEF Named
  <2>2. c.try <= tries[d]
    BY <1>2, <1>5 DEF Queues, DiskTypes
  <2> QED BY <1>2, <1>4, <1>5, <1>6, <2>1, <2>2 DEF Own, Loaded, attempts
<1>9. HandlesOwned' /\ HandlesKnown'
  BY <1>4, <1>5 DEF HandlesOwned, HandlesKnown, runtime, attempts
<1>10. HandlesFew'
  <2>1. ASSUME NEW e \in Dirs, modules'[e] # None, NEW n, n = modules'[e]
        PROVE  Cardinality(InUse(n, open)) + n.try + One(Busy(e)') <= tries[e] + 1
    <3>1. One(Busy(e)') = 0
      BY <1>4, IdleIsIdle DEF One, Busy
    <3>2. Cardinality(InUse(n, open)) \in Nat /\ n.try \in Nat /\ tries[e] \in Nat
      BY <1>5, <1>7, <2>1, InUseFinite DEF PluginTypes, Instances, Queues, DiskTypes
    <3>3. CASE e = d
      BY <1>2, <1>3, <1>6, <2>1, <3>1, <3>2, <3>3
    <3>4. CASE e # d
      <4>1. Cardinality(InUse(n, open)) + n.try + One(Busy(e)) <= tries[e] + 1 /\ One(Busy(e)) \in Nat
        BY <1>6, <2>1, <3>4, OneValues DEF Inv, Plugins, HandlesSound, HandlesFew, Loaded
      <4> QED BY <3>1, <3>2, <4>1
    <3> QED BY <3>3, <3>4
  <2> QED BY <1>4, <2>1 DEF HandlesFew, Loaded, attempts, runtime
<1>11. AtRest'
  <2>1. RestExcept({d})'
    <3>1. \A e \in Dirs \ {d} : Loaded(e) => modules[e].name \in Names \ {c.name}
      BY <1>1, <1>3, ReloadFacts DEF Named
    <3> QED BY <1>3, <1>4, <1>6, <1>9, <3>1, OthersStayWhole DEF runtime
  <2>2. Whole(c)'
    <3>1. HandleOf(c)' # {} /\ HandleOf(c)' \subseteq open' \ late'
      BY <1>3, <1>4, <1>9 DEF Runs, HandleOf, HandlesOwned, runtime
    <3>2. JustOnce(hooks'[c.name], c, overdue')
      BY <1>2, <1>4, <1>6, HooksAlone DEF runtime
    <3>3. SdkOf(c)' = HandleOf(c)' \/ (c \in Factories /\ c.try # 0 /\ SdkOf(c)' = {<<c, 0>>})
      BY <1>2, <1>3, <1>4 DEF Bare, SdkOf, HandleOf, runtime
    <3>4. tools'[c.name] = c /\ c \in active'
      BY <1>3, <1>4 DEF Runs, runtime
    <3> QED BY <3>1, <3>2, <3>3, <3>4 DEF Whole
  <2>3. RestExcept({})'
    BY <1>6, <2>1, <2>2 DEF RestExcept, Loaded, Whole, HandleOf, SdkOf
  <2>4. ASSUME NEW n \in Names, ~Named(n, Dirs)' PROVE tools'[n] = None /\ OnlyBy(hooks'[n], overdue')
    <3>1. n # c.name
      BY <1>2, <1>6, <2>4 DEF Named, Loaded
    <3>2. ~Named(n, Dirs \ {d})
      BY <1>6, <2>4 DEF Named, Loaded
    <3> QED BY <1>3, <1>4, <1>6, <3>1, <3>2 DEF Empty, runtime
  <2> QED BY <2>3, <2>4 DEF AtRest, Empty
<1>12. Plugins'
  BY <1>4, <1>7, <1>8, <1>9, <1>10, <1>11, <1>14 DEF Plugins, ReloadType, HandlesSound, Sound
<1>13. Queues'
  <2>1. Finish
    BY DEF Started
  <2> QED BY <1>1, <1>4, <2>1, FinishKeepsQueues DEF Inv, Plugins
<1> QED BY <1>12, <1>13 DEF Inv

(* A reload that ends with the modules and the handles as they are.        *)
LEMMA EndSound ==
  ASSUME Inv, reload \in Reloads, Finish,
         UNCHANGED <<disk, attempts, watcher, modules, active, db, open, late, overdue>>,
         sdk' \subseteq sdk,
         tools' \in [Names -> Instances \cup {None}], hooks' \in [Names -> Seq(Instances)],
         \A n \in Names : tools'[n] # None => tools'[n].name = n,
         AtRest'
  PROVE  Inv'
<1>1. reload' = Idle /\ reload # Idle
  BY IdleIsIdle DEF Finish
<1>2. HandlesFew'
  <2>1. ASSUME NEW e \in Dirs, modules[e] # None, NEW n, n = modules[e]
        PROVE  Cardinality(InUse(n, open)) + n.try + One(Busy(e)') <= tries[e] + 1
    <3>1. One(Busy(e)') = 0
      BY <1>1, IdleIsIdle DEF One, Busy
    <3>2. Cardinality(InUse(n, open)) \in Nat /\ n.try \in Nat /\ tries[e] \in Nat
      BY <2>1, InUseFinite DEF Inv, Plugins, PluginTypes, Instances, Queues, DiskTypes
    <3>3. Cardinality(InUse(n, open)) + n.try + One(Busy(e)) <= tries[e] + 1 /\ One(Busy(e)) \in Nat
      BY <2>1, OneValues DEF Inv, Plugins, HandlesSound, HandlesFew, Loaded
    <3> QED BY <3>1, <3>2, <3>3
  <2> QED BY <2>1 DEF HandlesFew, Loaded, attempts
<1>3. HandlesOwned' /\ HandlesKnown' /\ Kept'
  BY DEF Inv, Plugins, HandlesSound, HandlesOwned, HandlesKnown, Kept, attempts
<1>4. PluginTypes'
  BY DEF Inv, Plugins, PluginTypes
<1>5. Own'
  BY DEF Inv, Plugins, Own, Loaded, attempts
<1>6. Queues'
  BY <1>1, FinishKeepsQueues DEF Inv, Plugins
<1> QED BY <1>1, <1>2, <1>3, <1>4, <1>5, <1>6 DEF Inv, Plugins, ReloadType, HandlesSound, Sound

LEMMA RejectSound ==
  ASSUME Inv, Reject
  PROVE  Inv'
<1>1. reload \in Reloads /\ reload.at = "import" /\ reload # Idle
  BY IdleIsIdle DEF Inv, Plugins, ReloadType, Reject
<1>2. AtRest
  BY <1>1 DEF Inv, Plugins, Sound, Reloading
<1>3. Finish /\ UNCHANGED <<disk, attempts, watcher, modules, registries, runtime>>
  BY DEF Reject
<1>4. AtRest'
  BY <1>2, <1>3 DEF AtRest, RestExcept, Named, Empty, Loaded, Whole, HandleOf, SdkOf, registries, runtime
<1>5. /\ UNCHANGED <<disk, attempts, watcher, modules, active, db, open, late, overdue>>
      /\ sdk' \subseteq sdk /\ UNCHANGED registries
  BY <1>3 DEF runtime
<1> QED BY <1>1, <1>3, <1>4, <1>5, EndSound DEF Inv, Plugins, PluginTypes, Own, registries

LEMMA WithdrawSound ==
  ASSUME Inv, Withdraw
  PROVE  Inv'
<1> SUFFICES ASSUME NEW d, d = reload.dir, NEW c, c = reload.cand
             PROVE  Inv'
  OBVIOUS
<1>1. reload \in Reloads /\ reload.at = "starting" /\ reload # Idle /\ reload.old = None
  BY IdleIsIdle DEF Inv, Plugins, ReloadType, Withdraw
<1>2. /\ d \in Dirs /\ c.name \in Names /\ modules[d] = None
      /\ \A e \in Dirs \ {d} : Loaded(e) => modules[e] # c
  BY <1>1, ReloadFacts
<1>3. /\ RestExcept({d}) /\ ~Named(c.name, Dirs \ {d})
      /\ \A n \in Names \ {c.name} : ~Named(n, Dirs \ {d}) => Empty(n)
  BY <1>1 DEF Inv, Plugins, Sound, Reloading
<1>4. /\ tools' = RemoveTools(tools, {c.name})
      /\ hooks' = Unregister(hooks, {c.name})
      /\ sdk' = sdk \ SdkOf(c)
      /\ Finish /\ UNCHANGED <<disk, attempts, watcher, modules, active, db, open, late, overdue>>
  BY DEF Withdraw, Rest
<1>5. /\ tools'[c.name] = None /\ hooks'[c.name] = <<>>
      /\ \A n \in Names \ {c.name} : tools'[n] = tools[n] /\ hooks'[n] = hooks[n]
  BY <1>2, <1>4 DEF RemoveTools, Unregister
<1>6. tools' \in [Names -> Instances \cup {None}] /\ hooks' \in [Names -> Seq(Instances)]
  <2>1. tools' \in [Names -> Instances \cup {None}]
    BY <1>4 DEF RemoveTools, Inv, Plugins, PluginTypes
  <2>2. hooks' \in [Names -> Seq(Instances)]
    BY <1>4 DEF Unregister, Inv, Plugins, PluginTypes
  <2> QED BY <2>1, <2>2
<1>7. \A n \in Names : tools'[n] # None => tools'[n].name = n
  BY <1>5 DEF Inv, Plugins, Own
<1>8. AtRest'
  <2>1. HandlesOwned'
    BY <1>4 DEF Inv, Plugins, HandlesSound, HandlesOwned
  <2>2. RestExcept({d})'
    <3>1. \A e \in Dirs \ {d} : Loaded(e) => modules[e].name \in Names \ {c.name}
      BY <1>1, <1>3, ReloadFacts DEF Named
    <3>2. \A x : x[1] # c => (x \in sdk' <=> x \in sdk)
      BY <1>4 DEF SdkOf
    <3>3. \A e \in Dirs \ {d} : Loaded(e) =>
            /\ tools'[modules[e].name] = tools[modules[e].name]
            /\ hooks'[modules[e].name] = hooks[modules[e].name]
            /\ \A x : x[1] = modules[e] => (x \in sdk' <=> x \in sdk)
      BY <1>2, <1>5, <3>1, <3>2
    <3> QED BY <1>3, <1>4, <2>1, <3>3, OthersStayWhole
  <2>3. RestExcept({})'
    BY <1>2, <1>4, <2>2 DEF RestExcept, Loaded
  <2>4. ASSUME NEW n \in Names, ~Named(n, Dirs)' PROVE tools'[n] = None /\ OnlyBy(hooks'[n], overdue')
    <3>1. ~Named(n, Dirs \ {d})
      BY <1>4, <2>4 DEF Named, Loaded
    <3> QED BY <1>3, <1>4, <1>5, <3>1, HooksAlone DEF Empty
  <2> QED BY <2>3, <2>4 DEF AtRest, Empty
<1>9. sdk' \subseteq sdk
  BY <1>4
<1> QED BY <1>1, <1>4, <1>6, <1>7, <1>8, <1>9, EndSound

LEMMA RestoredSound ==
  ASSUME Inv, Restored
  PROVE  Inv'
<1> SUFFICES ASSUME NEW d, d = reload.dir, NEW m, m = reload.old
             PROVE  Inv'
  OBVIOUS
<1>1. reload \in Reloads /\ reload.at = "restoring" /\ reload # Idle
  BY IdleIsIdle DEF Inv, Plugins, ReloadType, Restored
<1>2. Reloading
  BY <1>1 DEF Inv, Plugins, Sound
<1>3. /\ m # None /\ m = modules[d] /\ JustOnce(reload.hooks, m, overdue) /\ RestExcept({d})
      /\ tools[m.name] = m /\ Runs(m) /\ SdkOf(m) = HandleOf(m)
      /\ \A n \in Names \ {m.name} : ~Named(n, Dirs \ {d}) => Empty(n)
  BY <1>1, <1>2 DEF Reloading
<1>4. d \in Dirs /\ m \in Instances /\ m.name \in Names
  BY <1>1, <1>3, ReloadFacts
<1>5. /\ hooks' = [hooks EXCEPT ![m.name] = reload.hooks]
      /\ Finish /\ UNCHANGED <<disk, attempts, watcher, modules, tools, runtime>>
  BY <1>3 DEF Restored, RestoredHooks, OldName, Rest
<1>6. PluginTypes
  BY DEF Inv, Plugins
<1>7. hooks' \in [Names -> Seq(Instances)]
  <2>1. reload.hooks \in Seq(Instances)
    BY <1>1 DEF Reloads
  <2> QED BY <1>5, <1>6, <2>1 DEF PluginTypes
<1>8. hooks'[m.name] = reload.hooks /\ \A n \in Names \ {m.name} : hooks'[n] = hooks[n]
  BY <1>4, <1>5, <1>6 DEF PluginTypes
<1>9. AtRest'
  <2>1. HandlesOwned' /\ HandlesOwned
    BY <1>5 DEF Inv, Plugins, HandlesSound, HandlesOwned, runtime
  <2>2. RestExcept({d})'
    <3>1. \A e \in Dirs \ {d} : Loaded(e) => modules[e].name \in Names \ {m.name}
      BY <1>1, <1>3, ReloadFacts
    <3> QED BY <1>3, <1>5, <1>8, <2>1, <3>1, OthersStayWhole DEF runtime
  <2>3. HandleOf(m) # {} /\ HandleOf(m) \subseteq open \ late
    BY <1>3, <2>1 DEF Runs, HandleOf, HandlesOwned
  <2>4. RestExcept({})'
    <3>1. ASSUME NEW e \in Dirs, modules'[e] # None PROVE Whole(modules[e])'
      <4>1. CASE e = d
        BY <1>3, <1>5, <1>8, <2>3, <4>1 DEF Whole, HandleOf, SdkOf, Runs, runtime
      <4>2. CASE e # d
        BY <2>2, <3>1, <4>2 DEF RestExcept, Loaded
      <4> QED BY <4>1, <4>2
    <3> QED BY <3>1 DEF RestExcept, Loaded
  <2>5. ASSUME NEW n \in Names, ~Named(n, Dirs)' PROVE tools'[n] = None /\ OnlyBy(hooks'[n], overdue')
    <3>1. ~Named(n, Dirs \ {d}) /\ n # m.name
      BY <1>3, <1>4, <1>5, <2>5 DEF Named, Loaded
    <3> QED BY <1>3, <1>5, <1>8, <3>1 DEF Empty, runtime
  <2> QED BY <2>4, <2>5 DEF AtRest, Empty
<1>10. \A n \in Names : tools'[n] # None => tools'[n].name = n
  BY <1>5 DEF Inv, Plugins, Own
<1>11. /\ UNCHANGED <<disk, attempts, watcher, modules, active, db, open, late, overdue>>
       /\ sdk' \subseteq sdk
  BY <1>5 DEF runtime
<1> QED BY <1>1, <1>5, <1>6, <1>7, <1>9, <1>10, <1>11, EndSound DEF PluginTypes

-----------------------------------------------------------------------------
(* The old plugin is told to stop.                                         *)
LEMMA ValidateSound ==
  ASSUME Inv, Validate
  PROVE  Inv'
<1> SUFFICES ASSUME NEW d, d = reload.dir, NEW c, c = reload.cand, NEW m, m = reload.old
             PROVE  Inv'
  OBVIOUS
<1>1. reload \in Reloads /\ reload.at = "import" /\ reload # Idle /\ m # None /\ ~Conflict(c)
  BY IdleIsIdle DEF Inv, Plugins, ReloadType, Validate, Valid
<1>2. /\ d \in Dirs /\ c.dir = d
      /\ m = modules[d] /\ m \in Instances /\ m # c /\ c \in Instances /\ c.try = tries[d]
      /\ \A e \in Dirs \ {d} : Loaded(e) => modules[e] # m /\ modules[e] # c
  BY <1>1, ReloadFacts
<1>3. Cleared
  BY <1>1, ClearedWhen
<1>4. Reloading
  BY <1>1 DEF Inv, Plugins, Sound
<1>5. /\ active' = active \ {m} /\ db' = db \ HandleOf(m)
      /\ reload' = [reload EXCEPT !.at = "stopping", !.held = HandleOf(m)]
      /\ sdk' = AfterTools(c) \ SdkOf(m)
      /\ UNCHANGED <<disk, attempts, modules, registries, open, late, overdue, queue, watcher>>
  BY DEF Validate, CallStop
<1>6. PluginTypes /\ Own /\ HandlesOwned /\ HandlesKnown /\ Queues /\ Kept
  BY DEF Inv, Plugins, HandlesSound
<1>15. /\ sdk' \in SUBSET (Instances \X ({0} \cup Handles))
       /\ \A x : x[1] # m /\ x[1] # c => (x \in sdk' <=> x \in sdk)
       /\ \A x \in sdk' : x[1] # m /\ (x[1] = c \/ x \in sdk)
       /\ SdkOf(c)' = {} \/ Bare(c)'
  <2>1. Untold(AfterTools(c), c)
    BY <1>1, ToolsTell
  <2>2. SdkOf(m) = {x \in sdk : x[1] = m}
    BY DEF SdkOf
  <2>3. \A x : x[1] # m => (x \in sdk' <=> x \in AfterTools(c))
    BY <1>5, <2>2
  <2>4. \A x \in sdk' : x \in AfterTools(c) /\ x[1] # m
    BY <1>2, <1>5, <2>1, <2>2 DEF Untold
  <2>5. {x \in sdk' : x[1] = c} = {x \in AfterTools(c) : x[1] = c}
    BY <1>2, <2>3, <2>4
  <2>6. SdkOf(c)' = {} \/ Bare(c)'
    BY <2>1, <2>5 DEF Untold, SdkOf, Bare
  <2> QED BY <2>1, <2>3, <2>4, <2>6 DEF Untold
<1>7. HandleOf(m) = {x \in db : x[1] = m}
  BY DEF HandleOf
<1>8. reload' \in Reloads /\ reload'.at = "stopping" /\ reload'.dir = d /\ reload'.cand = c
      /\ reload'.old = m /\ reload'.hooks = reload.hooks /\ reload'.held = HandleOf(m)
  <2>1. "stopping" \in Phases
    BY DEF Phases
  <2>2. HandleOf(m) \in SUBSET (Instances \X Handles)
    BY <1>6, <1>7 DEF PluginTypes
  <2> QED BY <1>1, <1>5, <2>1, <2>2 DEF Reloads
<1>9. PluginTypes' /\ Own' /\ HandlesOwned' /\ HandlesKnown' /\ Kept'
  <2>1. PluginTypes'
    BY <1>5, <1>6, <1>15 DEF PluginTypes, registries
  <2>4. Kept'
    <3>1. ASSUME NEW x \in sdk' PROVE x[1].try <= tries[x[1].dir]
      <4>1. CASE x[1] = c
        BY <1>2, <1>6, <4>1 DEF Queues, DiskTypes
      <4>2. CASE x[1] # c
        BY <1>6, <1>15, <4>2 DEF Kept
      <4> QED BY <4>1, <4>2
    <3> QED BY <1>5, <1>6, <3>1 DEF Kept, attempts
  <2>2. Own'
    BY <1>5, <1>6 DEF Own, Loaded, registries, attempts
  <2>3. HandlesOwned' /\ HandlesKnown'
    BY <1>5, <1>6 DEF HandlesOwned, HandlesKnown, attempts
  <2> QED BY <2>1, <2>2, <2>3, <2>4
<1>10. HandlesFew'
  <2>1. \A e \in Dirs : One(Busy(e))' = One(Busy(e))
    BY <1>1, <1>8 DEF One, Busy
  <2> QED BY <1>5, <2>1 DEF Inv, Plugins, HandlesSound, HandlesFew, Loaded, attempts
<1>11. RestExcept({d})'
  <2>1. \A e \in Dirs \ {d} : Loaded(e) =>
          /\ modules[e] \in active => modules[e] \in active'
          /\ \A x \in db : x[1] = modules[e] => x \in db'
          /\ \A x : x[1] = modules[e] => (x \in sdk' <=> x \in sdk)
    BY <1>2, <1>5, <1>7, <1>15
  <2> QED BY <1>3, <1>5, <1>9, <2>1, OthersStayWhole DEF Cleared, registries
<1>12. Reloading'
  <2>1. ~Named(c.name, Dirs \ {d})'
    BY <1>3, <1>5 DEF Cleared, Named, Loaded
  <2>2. \A x \in open' : x[1] # c
    BY <1>1, <1>4, <1>5 DEF Reloading
  <2>3. HandleOf(m)' = {}
    BY <1>5, <1>7 DEF HandleOf
  <2>4. HandleOf(m) \subseteq ({m} \X Handles) \cap (open' \ late')
    BY <1>5, <1>6, <1>7 DEF HandlesOwned, PluginTypes
  <2>5. \A n \in Names : ~Named(n, Dirs)' => Empty(n)'
    BY <1>1, <1>4, <1>5 DEF Reloading, AtRest, Named, Empty, Loaded, registries
  <2>6. /\ c # None /\ m = modules'[d] /\ JustOnce(reload'.hooks, m, overdue')
        /\ c.dir = d /\ c.try = tries'[d] /\ c.try > 0 /\ c.name \in NamesOf[d] /\ m.try < tries'[d]
    BY <1>1, <1>4, <1>5, <1>8 DEF Reloading, attempts
  <2>7. SdkOf(m)' = {}
    BY <1>15 DEF SdkOf
  <2> QED BY <1>1, <1>8, <1>11, <1>15, <2>7, <2>1, <2>2, <2>3, <2>4, <2>5, <2>6 DEF Reloading
<1>13. Plugins'
  BY <1>8, <1>9, <1>10, <1>12, IdleIsIdle DEF Plugins, ReloadType, HandlesSound, Sound
<1>14. Queues'
  BY <1>1, <1>5, <1>8, PhaseKeepsQueues DEF Inv, Plugins, Reading
<1> QED BY <1>13, <1>14 DEF Inv

(* The file of the plugin is read.                                         *)
LEMMA ReadSound ==
  ASSUME Inv, Read
  PROVE  Inv'
<1> SUFFICES ASSUME NEW d, d = reload.dir, NEW m, m = reload.old
             PROVE  Inv'
  OBVIOUS
<1>1. reload \in Reloads /\ reload.at = "deps" /\ reload # Idle
  BY IdleIsIdle DEF Inv, Plugins, ReloadType, Read
<1>2. /\ Queues' /\ d \in Dirs /\ tries'[d] = tries[d] + 1 /\ tries[d] + 1 <= MaxEdits
      /\ file[d].name \in NamesOf[d]
  BY ReadKeepsQueues DEF Inv, Plugins
<1>3. PluginTypes /\ Own /\ HandlesOwned /\ HandlesKnown /\ Queues /\ Kept
  BY DEF Inv, Plugins, HandlesSound
<1>4. Reloading /\ AtRest /\ m = modules[d] /\ (m # None => JustOnce(reload.hooks, m, overdue))
  BY <1>1 DEF Inv, Plugins, Sound, Reloading
<1>5. /\ tries' = [tries EXCEPT ![d] = @ + 1]
      /\ reload' = [reload EXCEPT !.at = "import",
                      !.cand = [dir |-> d, try |-> tries'[d], name |-> file[d].name]]
      /\ UNCHANGED <<disk, modules, registries, runtime, queue, watcher>>
  BY DEF Read
<1>6. tries \in [Dirs -> Nat] /\ \A e \in Dirs \ {d} : tries'[e] = tries[e]
  BY <1>2, <1>3, <1>5 DEF Queues, DiskTypes
<1> DEFINE c == [dir |-> d, try |-> tries[d] + 1, name |-> file[d].name]
<1>7. c \in Instances /\ c # None /\ c.dir = d /\ c.try = tries[d] + 1 /\ c.name = file[d].name
  <2>1. tries[d] + 1 \in 0 .. MaxEdits
    BY <1>2, <1>6, Constants
  <2>2. file[d].name \in Names
    BY <1>2, Constants
  <2>3. c \in Instances
    BY <1>2, <2>1, <2>2 DEF Instances
  <2> QED BY <2>3, Constants
<1> SUFFICES ASSUME NEW k, k = c PROVE Inv'
  OBVIOUS
<1>8. reload' \in Reloads /\ reload'.at = "import" /\ reload'.dir = d /\ reload'.cand = k
      /\ reload'.old = m /\ reload'.hooks = reload.hooks
  <2>1. "import" \in Phases
    BY DEF Phases
  <2>2. reload' = [reload EXCEPT !.at = "import", !.cand = k]
    BY <1>2, <1>5
  <2> HIDE DEF c
  <2> QED BY <1>1, <1>7, <2>1, <2>2 DEF Reloads
<1>9. PluginTypes'
  BY <1>3, <1>5 DEF PluginTypes, registries, runtime
<1>10. \A e \in Dirs : tries[e] <= tries'[e] /\ tries[e] \in Nat /\ tries'[e] \in Nat
  BY <1>2, <1>6
<1>11. Own'
  <2>1. \A e \in Dirs : Loaded(e) => modules[e].try \in Nat
    BY <1>3 DEF PluginTypes, Loaded, Instances
  <2> QED BY <1>3, <1>5, <1>10, <2>1 DEF Own, Loaded, registries
<1>12. HandlesOwned' /\ HandlesKnown'
  <2>1. \A x \in open : x[1].dir \in Dirs /\ x[1].try \in Nat
    BY <1>3 DEF PluginTypes, Instances
  <2> QED BY <1>3, <1>5, <1>10, <2>1 DEF HandlesOwned, HandlesKnown, runtime
<1>15. Kept'
  <2>1. \A x \in sdk : x[1].dir \in Dirs /\ x[1].try \in Nat
    BY <1>3 DEF PluginTypes, Instances
  <2> QED BY <1>3, <1>5, <1>10, <2>1 DEF Kept, runtime
<1>13. HandlesFew'
  <2>1. ASSUME NEW e \in Dirs, modules[e] # None, NEW n, n = modules[e]
        PROVE  Cardinality(InUse(n, open)) + n.try + One(Busy(e)') <= tries'[e] + 1
    <3>1. Cardinality(InUse(n, open)) + n.try + One(Busy(e)) <= tries[e] + 1
      BY <2>1 DEF Inv, Plugins, HandlesSound, HandlesFew, Loaded
    <3>2. One(Busy(e)) = 0
      BY <1>1 DEF One, Busy
    <3>3. Cardinality(InUse(n, open)) \in Nat /\ n.try \in Nat
      BY <1>3, <2>1, InUseFinite DEF PluginTypes, Instances
    <3>4. CASE e = d
      <4>1. One(Busy(e)') = 1
        BY <1>8, <3>4 DEF One, Busy
      <4> QED BY <1>2, <1>6, <1>10, <3>1, <3>2, <3>3, <3>4, <4>1
    <3>5. CASE e # d
      <4>1. One(Busy(e)') = 0
        BY <1>8, <3>5 DEF One, Busy
      <4> QED BY <1>6, <3>1, <3>2, <3>3, <3>5, <4>1
    <3> QED BY <3>4, <3>5
  <2> QED BY <1>5, <2>1 DEF HandlesFew, Loaded, runtime
<1>14. Reloading'
  <2>1. \A x \in open : x[1] # k
    <3>1. ASSUME NEW x \in open, x[1] = k PROVE FALSE
      <4>1. x[1].try <= tries[d] /\ x[1].try = tries[d] + 1 /\ tries[d] \in Nat
        BY <1>2, <1>3, <1>6, <1>7, <3>1 DEF HandlesKnown
      <4> QED BY <4>1
    <3> QED BY <3>1
  <2>2. m # None => m.try < tries'[d]
    <3>1. m # None => m.try <= tries[d] /\ m.try \in Nat
      BY <1>2, <1>3, <1>4 DEF Own, Loaded, PluginTypes, Instances
    <3> QED BY <1>2, <1>6, <3>1
  <2>3. AtRest'
    BY <1>4, <1>5 DEF AtRest, RestExcept, Named, Empty, Loaded, Whole, HandleOf, SdkOf, registries, runtime
  <2>4. k # None /\ k.dir = d /\ k.try = tries'[d] /\ k.try > 0 /\ k.name \in NamesOf[d]
    BY <1>2, <1>6, <1>7
  <2>5. m = modules'[d] /\ (m # None => JustOnce(reload'.hooks, m, overdue'))
    BY <1>4, <1>5, <1>8 DEF runtime
  <2>6. open' = open
    BY <1>5 DEF runtime
  <2>7. SdkOf(k)' = {}
    <3>1. ASSUME NEW x \in sdk, x[1] = k PROVE FALSE
      <4>1. x[1].try <= tries[d] /\ x[1].try = tries[d] + 1 /\ tries[d] \in Nat
        BY <1>2, <1>3, <1>6, <1>7, <3>1 DEF Kept
      <4> QED BY <4>1
    <3> QED BY <1>5, <3>1 DEF SdkOf, runtime
  <2> HIDE DEF c
  <2> QED BY <1>8, <2>1, <2>2, <2>3, <2>4, <2>5, <2>6, <2>7 DEF Reloading
<1> QED BY <1>2, <1>8, <1>9, <1>11, <1>12, <1>13, <1>14, <1>15, IdleIsIdle
        DEF Inv, Plugins, ReloadType, HandlesSound, Sound

(* Steps that leave the plugins and the reload alone.                      *)
LEMMA PluginsStay ==
  ASSUME Plugins, UNCHANGED <<tries, modules, registries, runtime, reload>>
  PROVE  Plugins'
<1>1. ReloadType' /\ PluginTypes' /\ Own'
  BY DEF Plugins, ReloadType, PluginTypes, Own, Loaded, registries, runtime
<1>2. HandlesSound' /\ Kept'
  BY DEF Plugins, HandlesSound, HandlesOwned, HandlesKnown, HandlesFew, Kept, Loaded, Busy, runtime
<1>3. AtRest' <=> AtRest
  BY DEF AtRest, RestExcept, Named, Empty, Loaded, Whole, HandleOf, SdkOf, registries, runtime
<1>4. Reloading' <=> Reloading
  BY <1>3 DEF Reloading, RestExcept, Named, Empty, Loaded, Whole, Runs, Bare, HandleOf, SdkOf, registries, runtime
<1> QED BY <1>1, <1>2, <1>3, <1>4 DEF Plugins, Sound

LEMMA FireSound ==
  ASSUME Inv, NEW d \in Dirs, Fire(d)
  PROVE  Inv'
<1>1. Queues'
  BY FireKeepsQueues DEF Inv, Plugins
<1>2. UNCHANGED <<disk, attempts, modules, registries, runtime>>
  BY DEF Fire
<1>3. CASE reload # Idle
  BY <1>1, <1>2, <1>3, PluginsStay DEF Inv, Fire, attempts
<1>4. CASE reload = Idle
  <2> SUFFICES ASSUME NEW m, m = modules[d] PROVE Inv'
    OBVIOUS
  <2> DEFINE r == [at |-> "deps", dir |-> d, old |-> m, cand |-> None, held |-> {},
                   hooks |-> IF m = None THEN <<>> ELSE hooks[m.name]]
  <2>1. reload' = r
    BY <1>4 DEF Fire, Begin
  <2>2. AtRest /\ PluginTypes /\ Own
    BY <1>4 DEF Inv, Plugins, Sound
  <2>3. m \in Instances \cup {None} /\ (m # None => m \in Instances /\ m.name \in Names)
    BY <2>2, Constants DEF PluginTypes, Own, Loaded
  <2>4. m # None => JustOnce(r.hooks, m, overdue)
    BY <2>2 DEF AtRest, RestExcept, Loaded, Whole
  <2>5. r \in Reloads
    <3>1. "deps" \in Phases /\ {} \in SUBSET (Instances \X Handles)
      BY DEF Phases
    <3>2. r.hooks \in Seq(Instances)
      BY <2>2, <2>3 DEF PluginTypes
    <3> QED BY <2>3, <3>1, <3>2 DEF Reloads
  <2>6. PluginTypes' /\ Own' /\ HandlesOwned' /\ HandlesKnown' /\ Kept'
    BY <1>2 DEF Inv, Plugins, PluginTypes, Own, Loaded, HandlesSound, HandlesOwned, HandlesKnown, Kept,
                registries, runtime, attempts
  <2>7. HandlesFew'
    <3>1. \A e \in Dirs : One(Busy(e))' = One(Busy(e))
      BY <1>4, <2>1, IdleIsIdle DEF One, Busy
    <3> QED BY <1>2, <3>1 DEF Inv, Plugins, HandlesSound, HandlesFew, Loaded, attempts, runtime
  <2>8. AtRest'
    BY <1>2, <2>2 DEF AtRest, RestExcept, Named, Empty, Loaded, Whole, HandleOf, SdkOf, registries, runtime
  <2>9. /\ reload'.at = "deps" /\ reload'.cand = None /\ reload'.old = m /\ reload'.dir = d
        /\ m # None => JustOnce(reload'.hooks, m, overdue')
    BY <1>2, <2>1, <2>4 DEF runtime
  <2>10. reload' \in Reloads /\ m = modules'[d]
    BY <1>2, <2>1, <2>5
  <2> HIDE DEF r
  <2>11. Reloading'
    BY <2>8, <2>9, <2>10 DEF Reloading
  <2> QED BY <1>1, <2>6, <2>7, <2>10, <2>11, IdleIsIdle
          DEF Inv, Plugins, ReloadType, HandlesSound, Sound
<1> QED BY <1>3, <1>4

(* A stop that is over late closes a handle that nobody uses.              *)
LEMMA LateStopSound ==
  ASSUME Inv, NEW x \in late, LateStop(x)
  PROVE  Inv'
<1>1. /\ late' = late \ {x} /\ open' = open \ {x}
      /\ UNCHANGED <<disk, attempts, watcher, modules, registries, active, db, sdk, overdue, queue, reload>>
  BY DEF LateStop, Rest
<1>2. PluginTypes /\ Own /\ HandlesOwned /\ HandlesKnown /\ Queues /\ Kept
  BY DEF Inv, Plugins, HandlesSound
<1>3. Queues'
  BY <1>1, <1>2 DEF Queues, DiskTypes, QueueTypes, ReadsCounted, StopOrder, Due, Reading, disk, attempts, queue
<1>4. PluginTypes' /\ Own' /\ ReloadType'
  BY <1>1 DEF Inv, Plugins, PluginTypes, Own, Loaded, registries, attempts, ReloadType
<1>5. HandlesOwned' /\ HandlesKnown' /\ Kept'
  BY <1>1, <1>2 DEF HandlesOwned, HandlesKnown, Kept, attempts
<1>6. \A n : /\ Cardinality(InUse(n, open')) <= Cardinality(InUse(n, open))
             /\ Cardinality(InUse(n, open')) \in Nat /\ Cardinality(InUse(n, open)) \in Nat
  BY <1>1, InUseFewer, InUseFinite
<1>7. HandlesFew'
  <2>1. ASSUME NEW e \in Dirs, modules[e] # None, NEW n, n = modules[e]
        PROVE  Cardinality(InUse(n, open')) + n.try + One(Busy(e)) <= tries[e] + 1
    <3>1. Cardinality(InUse(n, open)) + n.try + One(Busy(e)) <= tries[e] + 1 /\ One(Busy(e)) \in Nat
      BY <2>1, OneValues DEF Inv, Plugins, HandlesSound, HandlesFew, Loaded
    <3>2. n.try \in Nat /\ tries[e] \in Nat
      BY <1>2, <2>1 DEF PluginTypes, Instances, Queues, DiskTypes
    <3> QED BY <1>6, <3>1, <3>2
  <2>2. \A e \in Dirs : One(Busy(e))' = One(Busy(e))
    BY <1>1 DEF One, Busy
  <2> QED BY <1>1, <2>1, <2>2 DEF HandlesFew, Loaded, attempts
<1>9. RestExcept({}) => RestExcept({})'
  <2>1. \A e \in Dirs : Loaded(e) =>
          /\ modules[e] \in active => modules[e] \in active'
          /\ \A y \in db : y[1] = modules[e] => y \in db'
    BY <1>1
  <2> QED BY <1>1, <1>5, <2>1, OthersStayWhole DEF registries
<1>10. AtRest => AtRest'
  BY <1>1, <1>9 DEF AtRest, Named, Empty, Loaded, registries
<1>11. reload # Idle => Reloading'
  <2> SUFFICES ASSUME Reloading, NEW d, d = reload.dir, NEW c, c = reload.cand, NEW m, m = reload.old
               PROVE  Reloading'
    BY DEF Inv, Plugins, Sound
  <2>1. /\ reload'.dir = d /\ reload'.cand = c /\ reload'.old = m
        /\ reload' = reload /\ modules' = modules /\ tries' = tries
    BY <1>1 DEF attempts
  <2>2. /\ m = modules[d]
        /\ m # None => JustOnce(reload.hooks, m, overdue')
        /\ reload.at = "deps" <=> c = None
        /\ reload.at # "deps" =>
             /\ c.dir = d /\ c.try = tries[d] /\ c.try > 0 /\ c.name \in NamesOf[d]
             /\ m # None => m.try < tries[d]
        /\ reload.at \in {"import", "stopping"} => \A y \in open' : y[1] # c
        /\ reload.at = "import" => SdkOf(c)' = {}
        /\ reload.at \in {"stopping", "starting"} /\ m # None => SdkOf(m)' = {}
    BY <1>1 DEF Reloading, SdkOf
  <2>3. reload.at \in {"stopping", "starting", "restoring"} =>
          RestExcept({d})' /\ ~Named(c.name, Dirs \ {d})'
    <3>1. RestExcept({d}) => RestExcept({d})'
      <4>1. \A e \in Dirs \ {d} : Loaded(e) =>
              /\ modules[e] \in active => modules[e] \in active'
              /\ \A y \in db : y[1] = modules[e] => y \in db'
        BY <1>1
      <4> QED BY <1>1, <1>5, <4>1, OthersStayWhole DEF registries
    <3>2. ~Named(c.name, Dirs \ {d}) => ~Named(c.name, Dirs \ {d})'
      BY <1>1 DEF Named, Loaded
    <3> QED BY <3>1, <3>2 DEF Reloading
  <2>4. reload.at \in {"deps", "import"} => AtRest'
    BY <1>10 DEF Reloading
  <2>5. reload.at = "stopping" =>
          /\ m # None /\ HandleOf(m)' = {}
          /\ SdkOf(c)' = {} \/ Bare(c)'
          /\ reload.held \subseteq ({m} \X Handles) \cap (open' \ late')
          /\ \A n \in Names : ~Named(n, Dirs)' => Empty(n)'
    BY <1>1 DEF Reloading, HandleOf, SdkOf, Bare, Named, Loaded, Empty, registries
  <2>6. reload.at = "starting" =>
          /\ tools'[c.name] = c /\ Runs(c)' /\ Cardinality(InUse(c, open')) <= 1
          /\ (SdkOf(c) = HandleOf(c))' \/ Bare(c)'
          /\ \A n \in Names \ {c.name} : ~Named(n, Dirs \ {d})' => Empty(n)'
    <3> SUFFICES ASSUME reload.at = "starting"
                 PROVE  /\ tools'[c.name] = c /\ Runs(c)' /\ Cardinality(InUse(c, open')) <= 1
                        /\ (SdkOf(c) = HandleOf(c))' \/ Bare(c)'
                        /\ \A n \in Names \ {c.name} : ~Named(n, Dirs \ {d})' => Empty(n)'
      OBVIOUS
    <3>1. Cardinality(InUse(c, open')) <= 1
      BY <1>6 DEF Reloading
    <3>2. tools'[c.name] = c /\ Runs(c)' /\ ((SdkOf(c) = HandleOf(c))' \/ Bare(c)')
      BY <1>1 DEF Reloading, Runs, HandleOf, SdkOf, Bare, registries
    <3>3. \A n \in Names \ {c.name} : ~Named(n, Dirs \ {d})' => Empty(n)'
      BY <1>1 DEF Reloading, Named, Loaded, Empty, registries
    <3> QED BY <3>1, <3>2, <3>3
  <2>7. reload.at = "restoring" =>
          /\ m # None /\ tools'[m.name] = m /\ Runs(m)' /\ (SdkOf(m) = HandleOf(m))'
          /\ \A n \in Names \ {m.name} : ~Named(n, Dirs \ {d})' => Empty(n)'
    BY <1>1 DEF Reloading, Runs, HandleOf, SdkOf, Named, Loaded, Empty, registries
  <2> QED BY <2>1, <2>2, <2>3, <2>4, <2>5, <2>6, <2>7 DEF Reloading
<1>12. Sound'
  BY <1>1, <1>10, <1>11 DEF Inv, Plugins, Sound
<1> QED BY <1>3, <1>4, <1>5, <1>7, <1>12 DEF Inv, Plugins, HandlesSound

(* A start that is over late only adds hooks of a plugin that is gone.     *)
LEMMA LateStartSound ==
  ASSUME Inv, NEW y \in overdue, LateStart(y)
  PROVE  Inv'
<1>1. /\ hooks' = [hooks EXCEPT ![y.name] = Append(@, y)]
      /\ UNCHANGED <<disk, attempts, watcher, modules, tools, active, db, open, late, sdk, overdue,
                     queue, reload>>
  BY DEF LateStart, Rest, runtime
<1>2. PluginTypes /\ Own /\ HandlesSound /\ Queues /\ Kept /\ y \in Instances /\ y.name \in Names
  BY DEF Inv, Plugins, PluginTypes, Instances
<1>3. Queues'
  BY <1>1, <1>2 DEF Queues, DiskTypes, QueueTypes, ReadsCounted, StopOrder, Due, Reading, disk, attempts, queue
<1>4. \A n \in Names : hooks'[n] = hooks[n] \/ (n = y.name /\ hooks'[n] = Append(hooks[n], y))
  BY <1>1, <1>2 DEF PluginTypes
<1>5. PluginTypes'
  <2>1. Append(hooks[y.name], y) \in Seq(Instances)
    BY <1>2 DEF PluginTypes
  <2>2. hooks' \in [Names -> Seq(Instances)]
    BY <1>1, <1>2, <2>1 DEF PluginTypes
  <2> QED BY <1>1, <1>2, <2>2 DEF PluginTypes
<1>6. Own' /\ HandlesSound' /\ Kept' /\ ReloadType'
  BY <1>1 DEF Inv, Plugins, Own, Loaded, HandlesSound, HandlesOwned, HandlesKnown, HandlesFew, Busy,
              Kept, ReloadType, attempts
<1>7. \A n \in Names : /\ OnlyBy(hooks[n], overdue) => OnlyBy(hooks'[n], overdue)
                       /\ \A m : JustOnce(hooks[n], m, overdue) => JustOnce(hooks'[n], m, overdue)
  <2>1. ASSUME NEW n \in Names
        PROVE  /\ OnlyBy(hooks[n], overdue) => OnlyBy(hooks'[n], overdue)
               /\ \A m : JustOnce(hooks[n], m, overdue) => JustOnce(hooks'[n], m, overdue)
    <3>1. hooks[n] \in Seq(Instances)
      BY <1>2 DEF PluginTypes
    <3> QED BY <1>4, <3>1, HooksAppended
  <2> QED BY <2>1
<1>8. \A m \in Instances : Whole(m) => Whole(m)'
  BY <1>1, <1>7 DEF Whole, HandleOf, SdkOf, Instances
<1>9. \A ds : RestExcept(ds) => RestExcept(ds)'
  <2>1. \A e \in Dirs : Loaded(e) => modules[e] \in Instances
    BY <1>2 DEF PluginTypes, Loaded
  <2> QED BY <1>1, <1>8, <2>1 DEF RestExcept, Loaded, Whole, HandleOf, SdkOf
<1>10. \A n \in Names : Empty(n) => Empty(n)'
  BY <1>1, <1>7 DEF Empty
<1>11. \A n, ds : Named(n, ds)' <=> Named(n, ds)
  BY <1>1 DEF Named, Loaded
<1>12. AtRest => AtRest'
  BY <1>9, <1>10, <1>11 DEF AtRest
<1>13. Reloading => Reloading'
  <2> SUFFICES ASSUME Reloading, NEW d, d = reload.dir, NEW c, c = reload.cand, NEW m, m = reload.old
               PROVE  Reloading'
    OBVIOUS
  <2>1. /\ reload'.dir = d /\ reload'.cand = c /\ reload'.old = m
        /\ reload' = reload /\ modules' = modules /\ tries' = tries /\ tools' = tools
        /\ open' = open /\ late' = late /\ overdue' = overdue
    BY <1>1 DEF attempts
  <2>2. \A n : /\ HandleOf(n)' = HandleOf(n) /\ SdkOf(n)' = SdkOf(n)
               /\ Runs(n)' <=> Runs(n)
               /\ Bare(n)' <=> Bare(n)
    BY <1>1 DEF HandleOf, SdkOf, Runs, Bare
  <2> QED BY <1>9, <1>10, <1>11, <1>12, <2>1, <2>2 DEF Reloading
<1>14. Sound'
  BY <1>1, <1>12, <1>13 DEF Inv, Plugins, Sound
<1> QED BY <1>3, <1>5, <1>6, <1>14 DEF Inv, Plugins

-----------------------------------------------------------------------------
LEMMA InitSound == Init => Inv
<1> SUFFICES ASSUME Init PROVE Inv
  OBVIOUS
<1>1. /\ file \in [Dirs -> [ver : {0}, name : Names]] /\ \A d \in Dirs : file[d].name \in NamesOf[d]
      /\ tried = [d \in Dirs |-> 0] /\ tries = tried /\ edits = 0
      /\ noticed = {} /\ timers = {} /\ pending = <<>> /\ reload = Idle /\ watcher = "on"
  BY DEF Init
<1>2. DiskTypes
  <2>1. \A d \in Dirs : file[d] \in [ver : Nat, name : Names]
    BY <1>1
  <2>2. file = [d \in Dirs |-> file[d]]
    BY <1>1
  <2> QED BY <1>1, <2>1, <2>2, Constants DEF DiskTypes
<1>3. QueueTypes /\ StopOrder
  BY <1>1, EmptyQueue DEF QueueTypes, StopOrder
<1>4. ReadsCounted
  <2>1. \A d \in Dirs : Due[d] = 0
    BY <1>1, EmptyQueue, IdleIsIdle DEF Due, One, Reading
  <2> QED BY <1>1, <2>1 DEF ReadsCounted
<1>5. /\ modules \in [Dirs -> Instances \cup {None}]
      /\ \A d \in Dirs : modules[d] # None =>
           modules[d] = [dir |-> d, try |-> 0, name |-> file[d].name]
      /\ \A d, e \in Dirs : d # e /\ Loaded(d) /\ Loaded(e) => modules[d].name # modules[e].name
      /\ active = {modules[d] : d \in Dirs} \ {None}
      /\ tools = [n \in Names |-> IF \E m \in active : m.name = n
                                  THEN CHOOSE m \in active : m.name = n ELSE None]
      /\ hooks = [n \in Names |-> IF tools[n] = None THEN <<>> ELSE <<tools[n]>>]
      /\ db = active \X {1} /\ open = db /\ late = {} /\ sdk = db /\ overdue = {}
  BY DEF Init, Loaded
<1>6. active \in SUBSET Instances /\ \A m \in active : m.try = 0 /\ m # None
  BY <1>5
<1>7. \A n \in Names : \/ tools[n] \in active /\ tools[n].name = n
                       \/ tools[n] = None /\ \A m \in active : m.name # n
  BY <1>5
<1>8. \A d \in Dirs : Loaded(d) => modules[d] \in active
  BY <1>5 DEF Loaded
<1>14. \A a \in active : \E e \in Dirs : a = modules[e] /\ Loaded(e)
  <2>1. active = {modules[d] : d \in Dirs} \ {None}
    BY <1>5
  <2> QED BY <2>1 DEF Loaded
<1>9. 1 \in Handles
  BY Constants DEF Handles
<1>10. PluginTypes
  <2>1. tools \in [Names -> Instances \cup {None}]
    BY <1>5, <1>6, <1>7
  <2>2. \A n \in Names : hooks[n] \in Seq(Instances)
    <3>1. \A m \in Instances : <<m>> \in Seq(Instances)
      OBVIOUS
    <3> QED BY <1>5, <1>6, <1>7, <3>1
  <2>3. hooks \in [Names -> Seq(Instances)]
    BY <1>5, <2>2
  <2>4. db \in SUBSET (Instances \X Handles)
    BY <1>5, <1>6, <1>9
  <2>5. sdk \in SUBSET (Instances \X ({0} \cup Handles)) /\ overdue \in SUBSET Instances
    BY <1>5, <2>4
  <2> QED BY <1>5, <1>6, <2>1, <2>3, <2>4, <2>5 DEF PluginTypes
<1>15. Kept
  <2>1. \A x \in sdk : x[1].try = 0 /\ x[1].dir \in Dirs
    BY <1>5, <1>6 DEF Instances
  <2> QED BY <1>1, <1>5, <2>1 DEF Kept
<1>11. Own
  <2>1. \A d \in Dirs : Loaded(d) =>
          modules[d].dir = d /\ modules[d].name \in NamesOf[d] /\ modules[d].try = 0 /\ tries[d] = 0
    BY <1>1, <1>5 DEF Loaded
  <2> QED BY <1>5, <1>7, <2>1 DEF Own
<1>12. HandlesSound
  <2>1. HandlesOwned
    BY <1>5 DEF HandlesOwned
  <2>2. HandlesKnown
    <3>1. \A x \in open : x[1].try = 0 /\ x[1].dir \in Dirs
      BY <1>5, <1>6 DEF Instances
    <3> QED BY <1>1, <3>1 DEF HandlesKnown
  <2>3. ASSUME NEW d \in Dirs, Loaded(d)
        PROVE  Cardinality(InUse(modules[d], open)) + modules[d].try + One(Busy(d)) <= tries[d] + 1
    <3>1. modules[d].try = 0 /\ tries[d] = 0
      BY <1>1, <1>5, <2>3 DEF Loaded
    <3>2. One(Busy(d)) = 0
      BY <1>1, IdleIsIdle DEF One, Busy
    <3>3. InUse(modules[d], open) = {1}
      BY <1>5, <1>8, <1>9, <2>3 DEF InUse
    <3>4. Cardinality({1}) = 1
      BY FS_Singleton
    <3> QED BY <3>1, <3>2, <3>3, <3>4
  <2> QED BY <2>1, <2>2, <2>3 DEF HandlesSound, HandlesFew
<1>13. AtRest
  <2>1. ASSUME NEW d \in Dirs, Loaded(d), NEW m, m = modules[d] PROVE Whole(m)
    <3>1. m \in active /\ m.name \in Names
      BY <1>6, <1>8, <2>1 DEF Instances
    <3>2. tools[m.name] = m
      <4>1. tools[m.name] \in active /\ tools[m.name].name = m.name
        BY <1>7, <3>1
      <4>2. PICK e \in Dirs : tools[m.name] = modules[e] /\ Loaded(e)
        BY <1>14, <4>1
      <4> QED BY <1>5, <2>1, <4>1, <4>2
    <3>3. JustOnce(hooks[m.name], m, overdue)
      <4>1. hooks[m.name] = <<m>> /\ m \notin overdue
        BY <1>5, <1>6, <3>1, <3>2
      <4> QED BY <4>1, HooksAlone
    <3>5. SdkOf(m) = HandleOf(m)
      BY <1>5 DEF SdkOf, HandleOf
    <3>4. HandleOf(m) # {} /\ HandleOf(m) \subseteq open \ late
      <4>1. <<m, 1>> \in db /\ <<m, 1>>[1] = m
        BY <1>5, <3>1
      <4>2. HandleOf(m) # {}
        BY <4>1 DEF HandleOf
      <4>3. HandleOf(m) \subseteq db /\ db = open /\ late = {}
        BY <1>5 DEF HandleOf
      <4> QED BY <4>2, <4>3
    <3> QED BY <3>1, <3>2, <3>3, <3>4, <3>5 DEF Whole
  <2>2. ASSUME NEW n \in Names, ~Named(n, Dirs) PROVE Empty(n)
    <3>1. \A m \in active : m.name # n
      BY <1>5, <2>2 DEF Named, Loaded
    <3> QED BY <1>5, <1>7, <3>1, HooksAlone DEF Empty
  <2> QED BY <2>1, <2>2 DEF AtRest, RestExcept
<1> QED BY <1>1, <1>2, <1>3, <1>4, <1>10, <1>11, <1>12, <1>13, <1>15
        DEF Inv, Queues, Plugins, ReloadType, Sound

LEMMA NextSound == Inv /\ [Next]_vars => Inv'
<1> SUFFICES ASSUME Inv, [Next]_vars PROVE Inv'
  OBVIOUS
<1>1. ASSUME NEW d \in Dirs, NEW n \in NamesOf[d], Edit(d, n) PROVE Inv'
  BY <1>1, EditKeepsQueues, PluginsStay DEF Inv, Edit, attempts
<1>2. ASSUME NEW d \in Dirs, Notice(d) PROVE Inv'
  BY <1>2, NoticeKeepsQueues, PluginsStay DEF Inv, Notice, attempts
<1>3. ASSUME NEW d \in Dirs, Fire(d) PROVE Inv'
  BY <1>3, FireSound
<1>4. CASE Reload
  BY <1>4, ReadSound, RejectSound, ValidateSound, ValidateNewSound, StopSound, StartedSound,
     StartFailsSound, WithdrawSound, RestoredSound, RestoreFailsSound DEF Reload
<1>5. ASSUME NEW x \in late, LateStop(x) PROVE Inv'
  BY <1>5, LateStopSound
<1>8. ASSUME NEW m \in overdue, LateStart(m) PROVE Inv'
  BY <1>8, LateStartSound
<1>6. CASE BeginStop \/ Closed \/ Drained
  BY <1>6, StoppingKeepsQueues, PluginsStay DEF Inv, BeginStop, Closed, Drained, attempts
<1>7. CASE UNCHANGED vars
  <2>1. Queues'
    BY <1>7 DEF Inv, Queues, DiskTypes, QueueTypes, ReadsCounted, StopOrder, Due, Reading,
                vars, disk, attempts, queue
  <2> QED BY <1>7, <2>1, PluginsStay DEF Inv, vars, attempts
<1> QED BY <1>1, <1>2, <1>3, <1>4, <1>5, <1>6, <1>7, <1>8 DEF Next

LEMMA InvHolds == Spec => []Inv
BY InitSound, NextSound, PTL DEF Spec

-----------------------------------------------------------------------------
(* Every variable keeps its type: no plugin is reloaded more often than    *)
(* its file changed, no plugin ever has two databases, a directory waits   *)
(* once in the queue, and one handle more than there are changes is always *)
(* enough (adaptPlugin's migrate, and the queue of reloadPlugin).          *)
THEOREM ReloadTypeCorrect == Spec => []TypeOK
<1>1. Inv => TypeOK
  <2> SUFFICES ASSUME Inv PROVE TypeOK
    OBVIOUS
  <2>1. \A d \in Dirs : file[d].ver \in 0 .. edits /\ file[d].name \in NamesOf[d]
    BY Constants DEF Inv, Queues, DiskTypes, ReadsCounted
  <2>2. \A d \in Dirs : tried[d] \in 0 .. file[d].ver /\ tries[d] \in 0 .. file[d].ver
    <3>1. ASSUME NEW d \in Dirs PROVE tried[d] \in 0 .. file[d].ver /\ tries[d] \in 0 .. file[d].ver
      <4>1. /\ tries[d] + Due[d] <= file[d].ver /\ tried[d] <= file[d].ver /\ file[d].ver <= edits
            /\ edits \in 0 .. MaxEdits /\ tries[d] \in Nat /\ tried[d] \in Nat /\ file[d].ver \in Nat
        BY DEF Inv, Queues, DiskTypes, ReadsCounted
      <4>2. Due[d] \in Nat
        BY DEF Due, One
      <4> QED BY <4>1, <4>2, Constants
    <3> QED BY <3>1
  <2>3. \A d \in Dirs : modules[d] = None \/ (modules[d] \in Instances /\ modules[d].dir = d)
    BY DEF Inv, Plugins, PluginTypes, Own, Loaded
  <2>4. \A n \in Names : tools[n] = None \/ (tools[n] \in Instances /\ tools[n].name = n)
    BY DEF Inv, Plugins, PluginTypes, Own
  <2>5. /\ edits \in 0 .. MaxEdits /\ hooks \in [Names -> Seq(Instances)] /\ active \subseteq Instances
        /\ db \cup open \cup late \subseteq Instances \X Handles
        /\ sdk \subseteq Instances \X ({0} \cup Handles) /\ overdue \subseteq Instances
        /\ \A x, y \in db : x[1] = y[1] => x = y
    BY DEF Inv, Queues, DiskTypes, Plugins, PluginTypes, HandlesSound, HandlesOwned
  <2>6. /\ noticed \cup timers \subseteq Dirs
        /\ pending \in Seq(Dirs) /\ IsInjective(pending)
        /\ watcher \in {"on", "closing", "draining", "off"}
    BY DEF Inv, Queues, QueueTypes
  <2>7. reload = Idle \/ reload.at \in Phases
    BY PhasesOfReloads DEF Inv, Plugins, ReloadType
  <2> QED BY <2>1, <2>2, <2>3, <2>4, <2>5, <2>6, <2>7 DEF TypeOK
<1> QED BY <1>1, InvHolds, PTL

(* However a reload ends (in place, rejected, rolled back, disabled), and  *)
(* whatever a stop that timed out closes later, every loaded plugin is     *)
(* whole: its own tools, its hooks just once, a database that stays open,  *)
(* and an SDK for that database or, after a reload of a plugin whose tools *)
(* come from a function, for none.  Under a name that no loaded plugin has *)
(* no tools are registered, and hooks only by a start that timed out (the  *)
(* try and catch blocks of reloadPlugin, and getSdk of adaptPlugin).       *)
THEOREM ReloadsLeavePluginsWhole == Spec => []RestIsConsistent
<1>1. Inv => RestIsConsistent
  BY DEF Inv, Plugins, Sound, AtRest, RestExcept, Named, Empty, Loaded, RestIsConsistent
<1> QED BY <1>1, InvHolds, PTL

(* Once stop() of the watcher has returned no step loads, replaces, starts *)
(* or stops a plugin: no timer is left, no change is still to be reported  *)
(* and the reload in progress is over.  Only a start that timed out in an  *)
(* earlier reload still registers its hooks.                               *)
THEOREM NothingReloadsAfterStop == Spec => StopIsFinal
<1> DEFINE Same == UNCHANGED <<modules, tools, active, db, sdk, reload>>
           Added(n) == \E m \in overdue : hooks'[n] = Append(hooks[n], m)
<1>1. Inv /\ [Next]_vars => (watcher = "off" => Same /\ \A n \in Names : hooks'[n] # hooks[n] => Added(n))
  <2> SUFFICES ASSUME Inv, [Next]_vars, watcher = "off"
               PROVE  (Same /\ UNCHANGED hooks) \/ (Same /\ \A n \in Names : hooks'[n] # hooks[n] => Added(n))
    OBVIOUS
  <2>1. timers = {} /\ noticed = {} /\ reload = Idle
    BY DEF Inv, Queues, StopOrder
  <2>2. ASSUME NEW d \in Dirs, NEW n \in NamesOf[d], Edit(d, n)
        PROVE  Same /\ UNCHANGED hooks
    BY <2>2 DEF Edit, registries, runtime
  <2>3. ASSUME NEW d \in Dirs PROVE ~Notice(d) /\ ~Fire(d)
    BY <2>1 DEF Notice, Fire
  <2>4. ~Reload
    BY <2>1, IdleIsIdle DEF Reload, Read, Reject, Validate, ValidateNew, Valid, Stopped, StopTimesOut,
       Started, StartFails, Withdraw, Restored, RestoreFails
  <2>5. ASSUME NEW x \in late, LateStop(x) PROVE Same /\ UNCHANGED hooks
    BY <2>5 DEF LateStop, registries
  <2>6. ASSUME BeginStop \/ Closed \/ Drained PROVE Same /\ UNCHANGED hooks
    BY <2>6 DEF BeginStop, Closed, Drained, registries, runtime
  <2>7. ASSUME UNCHANGED vars PROVE Same /\ UNCHANGED hooks
    BY <2>7 DEF vars, registries, runtime
  <2>8. ASSUME NEW m \in overdue, LateStart(m)
        PROVE  Same /\ \A n \in Names : hooks'[n] # hooks[n] => Added(n)
    <3>1. hooks' = [hooks EXCEPT ![m.name] = Append(@, m)] /\ Same
      BY <2>8 DEF LateStart, runtime
    <3>2. hooks \in [Names -> Seq(Instances)]
      BY DEF Inv, Plugins, PluginTypes
    <3> QED BY <3>1, <3>2
  <2> HIDE DEF Same, Added
  <2> QED BY <2>2, <2>3, <2>4, <2>5, <2>6, <2>7, <2>8 DEF Next
<1> QED BY <1>1, InvHolds, PTL DEF Spec, StopIsFinal
=============================================================================
