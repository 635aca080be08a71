------------------------ MODULE SandboxRegistryProofs ------------------------
(***************************************************************************)
(* Theorems about SandboxRegistry, for every number of executions of the   *)
(* invocation and of backend processes they run in.  As long as no record  *)
(* is revived and no execution joins or ends what another began, each      *)
(* works with its own sandbox from the start to the end, and nothing       *)
(* starts once its execution is over.                                      *)
(***************************************************************************)
EXTENDS SandboxRegistry, TLAPS

----------------------------------------------------------------------------
(* Types.                                                                  *)

Used(m) == man[m].state # "unused"

\* Managers that were made have a lifecycle and a process; what works with them has
\* something to work with.
ManagerShape ==
  \A m \in Managers :
    /\ Used(m) => man[m].life \in Executions /\ man[m].proc \in Processes
    /\ init[m] # "none" => Used(m)
    /\ init[m] \in {"catch", "update", "save", "close", "mark", "unlist"} => seen[m] \in Records
    /\ notice[m] # "none" => Used(m)
    /\ notice[m] = "save" => noticed[m] \in Records

ExecutionShape ==
  \A e \in Executions :
    /\ uses[e] # None => Used(uses[e])
    /\ at[e] \in {"using", "ensure", "kill"} => uses[e] # None
    /\ at[e] \in {"delete", "mark", "unlist"} => mine[e] \in Records

CacheShape ==
  \A p \in Processes :
    /\ cache[p] # None => Used(cache[p])
    /\ \A m \in tasks[p] : Used(m)

TypeInv == TypeOK /\ ManagerShape /\ ExecutionShape /\ CacheShape


Mans == [life : Executions \union {None}, proc : Processes \union {None},
         from : Managers \union {None},
         state : {"unused", "new", "starting", "booting", "ready", "failed", "orphan"}]

\* None is not the name of anything.
LEMMA Names ==
  /\ None \notin Executions /\ None \notin Managers
  /\ \A e \in Executions : <<e, "create">> \in Managers
  /\ \A e \in Executions : <<e, "shutdown">> \in Managers
  /\ NoRecord \notin Records /\ Idle \in Mans
  /\ \A rec \in Records : rec.life \in Executions /\ rec.life # None
BY NoneAssumption DEF Managers, NoRecord, Records, Idle, Mans

\* The initial states have their types.
LEMMA TypeInit == Init => TypeInv
<1> SUFFICES ASSUME Init PROVE TypeInv
  OBVIOUS
<1>1. TypeOK BY Names DEF Init, TypeOK, Mans
<1>2. ManagerShape /\ ExecutionShape /\ CacheShape
  BY DEF Init, ManagerShape, ExecutionShape, CacheShape, Used, Idle
<1> QED BY <1>1, <1>2 DEF TypeInv

\* The managers after a shutdown: one of them, and its state alone.
ShutState(s) == IF s = "starting" THEN "orphan" ELSE IF s \in {"booting", "ready"} THEN "new" ELSE s

\* What a shutdown does to the managers.
LEMMA ShutDownDoes ==
  ASSUME TypeOK, NEW m \in Managers, ShutDown(m)
  PROVE  /\ man' \in [Managers -> Mans]
         /\ \A n \in Managers : n # m => man'[n] = man[n]
         /\ man'[m].life = man[m].life /\ man'[m].proc = man[m].proc /\ man'[m].from = man[m].from
         /\ man'[m].state = ShutState(man[m].state)
         /\ man[m].state \in {"booting", "ready"} => running' = running \ {Sandbox(m)}
         /\ man[m].state \notin {"booting", "ready"} => running' = running
         /\ running' \subseteq running
<1>0. man \in [Managers -> Mans] BY DEF TypeOK, Mans
<1>1. ShutState(man[m].state) = CASE man[m].state = "starting" -> "orphan"
                                  [] man[m].state \in {"booting", "ready"} -> "new"
                                  [] OTHER -> man[m].state
  BY DEF ShutState
<1>2. man' = [man EXCEPT ![m].state = ShutState(@)]
  BY <1>1 DEF ShutDown
<1>3. ShutState(man[m].state) \in {"unused", "new", "starting", "booting", "ready", "failed", "orphan"}
  BY <1>0 DEF ShutState, Mans
<1> HIDE DEF ShutState
<1>4. /\ man' \in [Managers -> Mans]
      /\ \A n \in Managers : n # m => man'[n] = man[n]
      /\ man'[m].life = man[m].life /\ man'[m].proc = man[m].proc /\ man'[m].from = man[m].from
      /\ man'[m].state = ShutState(man[m].state)
  BY <1>0, <1>2, <1>3 DEF Mans
<1> QED BY <1>4 DEF ShutDown

\* What ensuring that a manager is started does to it.
LEMMA EnsuredDoes ==
  ASSUME NEW ms \in [Managers -> Mans], NEW m \in Managers
  PROVE  /\ Ensured(ms, m) \in [Managers -> Mans]
         /\ \A n \in Managers : n # m => Ensured(ms, m)[n] = ms[n]
         /\ Ensured(ms, m)[m].life = ms[m].life /\ Ensured(ms, m)[m].proc = ms[m].proc
         /\ Ensured(ms, m)[m].from = ms[m].from
         /\ Ensured(ms, m)[m].state = IF ms[m].state = "new" THEN "starting" ELSE ms[m].state
BY DEF Ensured, Mans

\* What the start of a sandbox does.
LEMMA StartDoes ==
  ASSUME TypeOK, NEW ms \in [Managers -> Mans], NEW m \in Managers, NEW p \in Processes, NEW rec,
         Start(ms, p, m, rec)
  PROVE  /\ man' \in [Managers -> Mans]
         /\ \A n \in Managers : n # m => man'[n] = ms[n]
         /\ man'[m].life = ms[m].life /\ man'[m].proc = ms[m].proc /\ man'[m].from = ms[m].from
         /\ man'[m].state \in {ms[m].state, IF ms[m].state = "new" THEN "starting" ELSE ms[m].state}
         /\ tasks' \in [Processes -> SUBSET Managers]
         /\ \A q \in Processes : tasks'[q] \subseteq tasks[q] \union {m}
         /\ \A q \in Processes : q # p => tasks'[q] = tasks[q]
         /\ init' = init \/ init' = [init EXCEPT ![m] = "ensure"]
<1>1. CASE rec.status = "initializing" /\ \A t \in tasks[p] : man[t].life # rec.life
  <2>1. man' = Ensured(ms, m) /\ tasks' = [tasks EXCEPT ![p] = @ \union {m}]
        /\ init' = [init EXCEPT ![m] = "ensure"]
    BY <1>1 DEF Start
  <2> QED BY <2>1, EnsuredDoes DEF TypeOK
<1>2. CASE ~(rec.status = "initializing" /\ \A t \in tasks[p] : man[t].life # rec.life)
  <2>1. man' = ms /\ UNCHANGED <<tasks, init>> BY <1>2 DEF Start
  <2> QED BY <2>1 DEF TypeOK
<1> QED BY <1>1, <1>2

\* What a manager made for a record is.
LEMMA ManageDoes ==
  ASSUME TypeOK, NEW m \in Managers, NEW p \in Processes, NEW rec \in Records, Manage(p, m, rec)
  PROVE  /\ man' \in [Managers -> Mans]
         /\ \A n \in Managers : n # m => man'[n] = man[n]
         /\ man'[m].life = rec.life /\ man'[m].proc = p /\ man'[m].from = rec.sandbox
         /\ man'[m].state \in {"new", "starting"}
         /\ cache' = [cache EXCEPT ![p] = m]
         /\ tasks' \in [Processes -> SUBSET Managers]
         /\ \A q \in Processes : tasks'[q] \subseteq tasks[q] \union {m}
         /\ init' = init \/ init' = [init EXCEPT ![m] = "ensure"]
<1> DEFINE r == [life |-> rec.life, proc |-> p, from |-> rec.sandbox, state |-> "new"]
           ms == [man EXCEPT ![m] = r]
<1>0. man \in [Managers -> Mans] BY DEF TypeOK, Mans
<1>1. r \in Mans BY DEF Records, Mans
<1>2. /\ ms \in [Managers -> Mans] /\ ms[m] = r
      /\ \A n \in Managers : n # m => ms[n] = man[n]
  BY <1>0, <1>1
<1>3. Start(ms, p, m, rec) /\ cache' = [cache EXCEPT ![p] = m] BY DEF Manage
<1>4. ms[m].life = rec.life /\ ms[m].proc = p /\ ms[m].from = rec.sandbox /\ ms[m].state = "new"
  BY <1>2
<1> HIDE DEF ms, r
<1> QED BY <1>2, <1>3, <1>4, StartDoes

\* What clearing the cache takes away.
LEMMA ClearDoes ==
  ASSUME TypeOK, NEW p \in Processes, NEW life, ClearCache(p, life)
  PROVE  /\ cache' \in [Processes -> Managers \union {None}]
         /\ tasks' \in [Processes -> SUBSET Managers]
         /\ \A q \in Processes : tasks'[q] \subseteq tasks[q] /\ cache'[q] \in {cache[q], None}
         /\ \A q \in Processes : cache[q] # None /\ man[cache[q]].life # life => cache'[q] = cache[q]
BY DEF TypeOK, ClearCache

\* What a save of the record leaves.
LEMMA SaveDoes ==
  ASSUME TypeOK, NEW rec \in Records, Save(rec)
  PROVE  /\ record' \in Records \union {NoRecord} /\ revived' \in BOOLEAN
         /\ record'.life = record.life
         /\ record' = NoRecord <=> record = NoRecord
         /\ record.life # rec.life => record' = record
         /\ record.life = rec.life => record' = rec
         /\ ~revived' => ~revived /\ (record.status \in Terminal => record'.status \in Terminal)
<1>1. record \in Records \union {NoRecord} /\ NoRecord.life = None /\ rec.life # None
  BY Names DEF TypeOK, NoRecord
<1>2. record' = IF record.life = rec.life THEN rec ELSE record
  BY DEF Save
<1>3. /\ record' \in Records \union {NoRecord} /\ record'.life = record.life
      /\ record' = NoRecord <=> record = NoRecord
  BY <1>1, <1>2
<1>4. ~revived' => ~revived /\ (record.status \in Terminal => record'.status \in Terminal)
  BY <1>2 DEF Save
<1> QED BY <1>2, <1>3, <1>4 DEF Save

\* The parts of the types in the next state.
RecordTyped == record' \in Records \union {NoRecord} /\ {revived, listed}' \subseteq BOOLEAN

ManagersTyped ==
  /\ man' \in [Managers -> Mans]
  /\ \A m \in Managers :
       /\ Used(m) => man'[m].state # "unused"
       /\ man'[m].state # "unused" => man'[m].life \in Executions /\ man'[m].proc \in Processes

Writing == {"catch", "update", "save", "close", "mark", "unlist"}

StartsTyped ==
  /\ init' \in [Managers -> {"none", "ensure", "catch", "update", "save", "retire",
                             "close", "mark", "unlist", "over"}]
  /\ seen' \in [Managers -> Records \union {NoRecord}]
  /\ \A m \in Managers : /\ init'[m] # "none" => man'[m].state # "unused"
                         /\ init'[m] \in Writing => seen'[m] \in Records

NoticesTyped ==
  /\ notice' \in [Managers -> {"none", "read", "save"}]
  /\ noticed' \in [Managers -> Records \union {NoRecord}]
  /\ \A m \in Managers : /\ notice'[m] # "none" => man'[m].state # "unused"
                         /\ notice'[m] = "save" => noticed'[m] \in Records

ExecutionsTyped ==
  /\ at' \in [Executions -> {"new", "set", "added", "exists", "delete", "using", "ending",
                             "mark", "unlist", "ensure", "kill", "done"}]
  /\ uses' \in [Executions -> Managers \union {None}]
  /\ mine' \in [Executions -> Records \union {NoRecord}]
  /\ shared' \in BOOLEAN
  /\ \A e \in Executions :
       /\ uses'[e] # None => man'[uses'[e]].state # "unused"
       /\ at'[e] \in {"using", "ensure", "kill"} => uses'[e] # None
       /\ at'[e] \in {"delete", "mark", "unlist"} => mine'[e] \in Records

LocalTyped ==
  /\ cache' \in [Processes -> Managers \union {None}]
  /\ tasks' \in [Processes -> SUBSET Managers]
  /\ \A p \in Processes : /\ cache'[p] # None => man'[cache'[p]].state # "unused"
                          /\ \A m \in tasks'[p] : man'[m].state # "unused"

\* The parts make up TypeInv.
LEMMA StepTyped ==
  ASSUME RecordTyped, ManagersTyped, StartsTyped, NoticesTyped, ExecutionsTyped, LocalTyped,
         running' \subseteq Managers
  PROVE  TypeInv'
<1>1. TypeOK'
  BY DEF TypeOK, RecordTyped, ManagersTyped, StartsTyped, NoticesTyped, ExecutionsTyped, LocalTyped, Mans
<1>2. ManagerShape'
  BY DEF ManagerShape, Used, ManagersTyped, StartsTyped, NoticesTyped, Writing
<1>3. ExecutionShape' /\ CacheShape'
  BY DEF ExecutionShape, CacheShape, Used, ExecutionsTyped, LocalTyped
<1> QED BY <1>1, <1>2, <1>3 DEF TypeInv

\* What a step that leaves them alone keeps.
LEMMA SameTyped ==
  ASSUME TypeInv
  PROVE  /\ UNCHANGED store => RecordTyped
         /\ UNCHANGED man => ManagersTyped
         /\ ManagersTyped /\ UNCHANGED starts => StartsTyped
         /\ ManagersTyped /\ UNCHANGED notices => NoticesTyped
         /\ ManagersTyped /\ UNCHANGED executions => ExecutionsTyped
         /\ ManagersTyped /\ UNCHANGED local => LocalTyped
         /\ running \subseteq Managers
<1> USE DEF TypeInv, TypeOK, Used
<1>1. UNCHANGED store => RecordTyped BY DEF store, RecordTyped
<1>2. UNCHANGED man => ManagersTyped BY DEF ManagersTyped, Mans, ManagerShape
<1>3. ManagersTyped /\ UNCHANGED starts => StartsTyped
  BY DEF starts, ManagersTyped, StartsTyped, ManagerShape, Writing
<1>4. ManagersTyped /\ UNCHANGED notices => NoticesTyped
  BY DEF notices, ManagersTyped, NoticesTyped, ManagerShape
<1>5. ManagersTyped /\ UNCHANGED executions => ExecutionsTyped
  BY DEF executions, ManagersTyped, ExecutionsTyped, ExecutionShape
<1>6. ManagersTyped /\ UNCHANGED local => LocalTyped
  BY DEF local, ManagersTyped, LocalTyped, CacheShape
<1> QED BY <1>1, <1>2, <1>3, <1>4, <1>5, <1>6

\* Types of the managers that are there.
LEMMA UsedTyped ==
  ASSUME TypeInv, NEW m \in Managers, Used(m)
  PROVE  man[m] \in Mans /\ man[m].life \in Executions /\ man[m].proc \in Processes
         /\ Sandbox(m) \in Managers
BY DEF TypeInv, TypeOK, ManagerShape, Mans, Sandbox

\* A manager that changes its state stays the manager it is.
LEMMA StateTyped ==
  ASSUME TypeInv, NEW m \in Managers, Used(m),
         NEW s \in {"new", "starting", "booting", "ready", "failed", "orphan"},
         man' = [man EXCEPT ![m].state = s]
  PROVE  /\ ManagersTyped
         /\ \A n \in Managers : n # m => man'[n] = man[n]
         /\ man'[m].life = man[m].life /\ man'[m].proc = man[m].proc /\ man'[m].from = man[m].from
         /\ man'[m].state = s
<1>1. man \in [Managers -> Mans] BY DEF TypeInv, TypeOK, Mans
<1>2. /\ man' \in [Managers -> Mans]
      /\ \A n \in Managers : n # m => man'[n] = man[n]
      /\ man'[m].life = man[m].life /\ man'[m].proc = man[m].proc /\ man'[m].from = man[m].from
      /\ man'[m].state = s
  BY <1>1 DEF Mans
<1> QED BY <1>2 DEF TypeInv, ManagerShape, ManagersTyped, Used

\* A shutdown keeps the types.
LEMMA ShutDownTyped ==
  ASSUME TypeInv, NEW m \in Managers, Used(m), ShutDown(m)
  PROVE  ManagersTyped /\ running' \subseteq Managers
BY ShutDownDoes DEF TypeInv, TypeOK, ManagerShape, ManagersTyped, Used, ShutState

\* Clearing the cache keeps the types.
LEMMA ClearTyped ==
  ASSUME TypeInv, NEW p \in Processes, NEW life, ClearCache(p, life), ManagersTyped
  PROVE  LocalTyped
BY ClearDoes DEF TypeInv, TypeOK, CacheShape, ManagersTyped, LocalTyped, Used

\* The end of an initialisation keeps the types.
LEMMA InitEndsTyped ==
  ASSUME TypeInv, NEW m \in Managers, Used(m), InitEnds(m), ManagersTyped
  PROVE  StartsTyped /\ LocalTyped
<1>1. LocalTyped BY UsedTyped, ClearTyped DEF InitEnds
<1>2. StartsTyped
  BY DEF InitEnds, TypeInv, TypeOK, ManagerShape, ManagersTyped, StartsTyped, Used, Writing
<1> QED BY <1>1, <1>2

\* The types after Boot.
LEMMA BootTyped ==
  ASSUME TypeInv, NEW m \in Managers, Boot(m)
  PROVE  TypeInv'
<1>u. Used(m) BY DEF Boot, SandboxStarts, SandboxReady, SandboxFails, Used
<1>1. CASE SandboxStarts(m)
  <2>1. ManagersTyped
    <3>1. PICK s \in {"new", "booting", "failed"} : man' = [man EXCEPT ![m].state = s]
      BY <1>1 DEF SandboxStarts, TypeInv, TypeOK
    <3> QED BY <1>u, <3>1, StateTyped
  <2>2. NoticesTyped
    BY <1>1, <1>u, <2>1 DEF SandboxStarts, TypeInv, TypeOK, ManagerShape, ManagersTyped, NoticesTyped, Used
  <2>3. running' \subseteq Managers BY <1>1, <1>u, UsedTyped, SameTyped DEF SandboxStarts
  <2> QED BY <1>1, <2>1, <2>2, <2>3, SameTyped, StepTyped DEF SandboxStarts
<1>2. CASE SandboxReady(m)
  <2>1. ManagersTyped BY <1>2, <1>u, StateTyped DEF SandboxReady
  <2> QED BY <1>2, <2>1, SameTyped, StepTyped DEF SandboxReady
<1>3. CASE SandboxFails(m)
  <2>1. ManagersTyped BY <1>3, <1>u, StateTyped DEF SandboxFails
  <2>2. running' \subseteq Managers BY <1>3, SameTyped DEF SandboxFails
  <2> QED BY <1>3, <2>1, <2>2, SameTyped, StepTyped DEF SandboxFails
<1> QED BY <1>1, <1>2, <1>3 DEF Boot

\* The types after Notice.
LEMMA NoticeTyped ==
  ASSUME TypeInv, NEW m \in Managers, Notice(m)
  PROVE  TypeInv'
<1>u. Used(m)
  BY DEF Notice, NoticeReads, NoticeSaves, TypeInv, ManagerShape
<1>s. ManagersTyped BY SameTyped DEF Notice, NoticeReads, NoticeSaves
<1>1. CASE NoticeReads(m)
  <2>1. Updatable(man[m].life) => record \in Records
    BY <1>u, UsedTyped, Names DEF Updatable, TypeInv, TypeOK, NoRecord
  <2>2. NoticesTyped
    BY <1>1, <1>u, <1>s, <2>1
    DEF NoticeReads, TypeInv, TypeOK, ManagerShape, ManagersTyped, NoticesTyped, Used
  <2> QED BY <1>1, <1>s, <2>2, SameTyped, StepTyped DEF NoticeReads
<1>2. CASE NoticeSaves(m)
  <2>1. [noticed[m] EXCEPT !.sandbox = Sandbox(m)] \in Records
    BY <1>2, <1>u, UsedTyped DEF NoticeSaves, TypeInv, ManagerShape, Records
  <2>2. RecordTyped BY <1>2, <2>1, SaveDoes DEF NoticeSaves, TypeInv, TypeOK, RecordTyped
  <2>3. NoticesTyped
    BY <1>2, <1>u, <1>s
    DEF NoticeSaves, TypeInv, TypeOK, ManagerShape, ManagersTyped, NoticesTyped, Used
  <2> QED BY <1>2, <1>s, <2>2, <2>3, SameTyped, StepTyped DEF NoticeSaves
<1> QED BY <1>1, <1>2 DEF Notice

\* The types after InitTask.
LEMMA InitTaskTyped ==
  ASSUME TypeInv, NEW m \in Managers, InitTask(m)
  PROVE  TypeInv'
<1>u. Used(m)
  BY DEF InitTask, InitSettles, CatchReads, InitReads, InitSaves, Retire, Close, CloseMarks,
         CloseUnlists, TypeInv, ManagerShape
<1>t. /\ man[m].life \in Executions /\ man[m].proc \in Processes /\ Sandbox(m) \in Managers
      /\ Updatable(man[m].life) => record \in Records
      /\ record.life = man[m].life => record \in Records
      /\ init[m] \in Writing => seen[m] \in Records
  BY <1>u, UsedTyped, Names DEF Updatable, TypeInv, TypeOK, NoRecord, ManagerShape, Writing
<1>1. CASE InitSettles(m)
  <2>s. ManagersTyped BY <1>1, SameTyped DEF InitSettles
  <2>1. StartsTyped
    BY <1>1, <1>u, <1>t, <2>s
    DEF InitSettles, TypeInv, TypeOK, ManagerShape, ManagersTyped, StartsTyped, Used, Records, Statuses, Writing
  <2> QED BY <1>1, <2>s, <2>1, SameTyped, StepTyped DEF InitSettles
<1>2. CASE CatchReads(m)
  <2>s. ManagersTyped BY <1>2, SameTyped DEF CatchReads
  <2>1. StartsTyped /\ LocalTyped
    <3>1. CASE Updatable(man[m].life)
      BY <1>2, <1>u, <1>t, <2>s, <3>1, SameTyped
      DEF CatchReads, TypeInv, TypeOK, ManagerShape, ManagersTyped, StartsTyped, Used, Writing
    <3>2. CASE ~Updatable(man[m].life)
      BY <1>2, <1>u, <2>s, <3>2, InitEndsTyped DEF CatchReads
    <3> QED BY <3>1, <3>2
  <2> QED BY <1>2, <2>s, <2>1, SameTyped, StepTyped DEF CatchReads
<1>3. CASE InitReads(m)
  <2>s. ManagersTyped BY <1>3, SameTyped DEF InitReads
  <2>1. StartsTyped
    <3>1. PICK place \in {"save", "close", "retire"}, rec \in Records \union {NoRecord} :
            /\ init' = [init EXCEPT ![m] = place] /\ seen' = [seen EXCEPT ![m] = rec]
            /\ place \in Writing => rec \in Records
      <4>0. seen \in [Managers -> Records \union {NoRecord}] BY DEF TypeInv, TypeOK
      <4>1. CASE Updatable(man[m].life)
        <5>1. init[m] = "update" /\ init' = [init EXCEPT ![m] = "save"] /\ seen' = seen
          BY <1>3, <4>1 DEF InitReads
        <5>2. seen' = [seen EXCEPT ![m] = seen[m]] /\ seen[m] \in Records
          BY <1>t, <4>0, <5>1 DEF Writing
        <5> QED BY <5>1, <5>2
      <4>2. CASE ~Updatable(man[m].life)
        BY <1>3, <1>t, <4>2 DEF InitReads, Writing
      <4> QED BY <4>1, <4>2
    <3> QED
      BY <1>u, <2>s, <3>1
      DEF TypeInv, TypeOK, ManagerShape, ManagersTyped, StartsTyped, Used, Writing
  <2> QED BY <1>3, <2>s, <2>1, SameTyped, StepTyped DEF InitReads
<1>4. CASE InitSaves(m)
  <2>s. ManagersTyped BY <1>4, SameTyped DEF InitSaves
  <2>1. StartsTyped
    <3>1. PICK place \in {"retire", "over"} :
            init' = [init EXCEPT ![m] = place] /\ seen' = [seen EXCEPT ![m] = NoRecord]
      BY <1>4 DEF InitSaves
    <3> QED
      BY <1>u, <2>s, <3>1
      DEF TypeInv, TypeOK, ManagerShape, ManagersTyped, StartsTyped, Used, Writing
  <2>2. RecordTyped
    BY <1>4, <1>t, SaveDoes DEF InitSaves, TypeInv, TypeOK, RecordTyped, Writing
  <2>3. LocalTyped
    <3>1. cache' = cache /\ \E ts \in SUBSET Managers :
            ts \subseteq tasks[man[m].proc] /\ tasks' = [tasks EXCEPT ![man[m].proc] = ts]
      <4>1. CASE tasks' = tasks
        <5>1. tasks' = [tasks EXCEPT ![man[m].proc] = tasks[man[m].proc]]
              /\ tasks[man[m].proc] \in SUBSET Managers
          BY <1>t, <4>1 DEF TypeInv, TypeOK
        <5> QED BY <1>4, <5>1 DEF InitSaves
      <4>2. CASE tasks' = [tasks EXCEPT ![man[m].proc] = @ \ {m}]
        BY <1>4, <1>t, <4>2 DEF InitSaves, TypeInv, TypeOK
      <4> QED BY <1>4, <4>1, <4>2 DEF InitSaves
    <3> QED BY <1>t, <2>s, <3>1 DEF TypeInv, TypeOK, CacheShape, ManagersTyped, LocalTyped, Used
  <2> QED BY <1>4, <2>s, <2>1, <2>2, <2>3, SameTyped, StepTyped DEF InitSaves
<1>5. CASE Retire(m)
  <2>s. ManagersTyped /\ running' \subseteq Managers BY <1>5, <1>u, ShutDownTyped DEF Retire
  <2>1. StartsTyped /\ LocalTyped BY <1>5, <1>u, <2>s, InitEndsTyped DEF Retire
  <2> QED BY <1>5, <2>s, <2>1, SameTyped, StepTyped DEF Retire
<1>6. CASE Close(m)
  <2>s. ManagersTyped /\ running' \subseteq Managers BY <1>6, <1>u, ShutDownTyped DEF Close
  <2>1. StartsTyped /\ LocalTyped
    <3>1. CASE seen[m].status = "error" BY <1>6, <1>u, <2>s, <3>1, InitEndsTyped DEF Close
    <3>2. CASE seen[m].status # "error"
      BY <1>6, <1>u, <1>t, <2>s, <3>2, SameTyped
      DEF Close, TypeInv, TypeOK, ManagerShape, ManagersTyped, StartsTyped, Used, Writing
    <3> QED BY <3>1, <3>2
  <2> QED BY <1>6, <2>s, <2>1, SameTyped, StepTyped DEF Close
<1>7. CASE CloseMarks(m)
  <2>s. ManagersTyped BY <1>7, SameTyped DEF CloseMarks
  <2>1. [seen[m] EXCEPT !.status = "shutdown"] \in Records
    BY <1>7, <1>t DEF CloseMarks, Writing, Records, Statuses
  <2>2. RecordTyped BY <1>7, <2>1, SaveDoes DEF CloseMarks, TypeInv, TypeOK, RecordTyped
  <2>3. StartsTyped /\ LocalTyped
    <3>1. CASE record.life = man[m].life
      BY <1>7, <1>u, <1>t, <2>s, <3>1, SameTyped
      DEF CloseMarks, TypeInv, TypeOK, ManagerShape, ManagersTyped, StartsTyped, Used, Writing
    <3>2. CASE record.life # man[m].life
      BY <1>7, <1>u, <2>s, <3>2, InitEndsTyped DEF CloseMarks
    <3> QED BY <3>1, <3>2
  <2> QED BY <1>7, <2>s, <2>2, <2>3, SameTyped, StepTyped DEF CloseMarks
<1>8. CASE CloseUnlists(m)
  <2>s. ManagersTyped BY <1>8, SameTyped DEF CloseUnlists
  <2>1. RecordTyped BY <1>8 DEF CloseUnlists, TypeInv, TypeOK, RecordTyped
  <2>2. StartsTyped /\ LocalTyped BY <1>8, <1>u, <2>s, InitEndsTyped DEF CloseUnlists
  <2> QED BY <1>8, <2>s, <2>1, <2>2, SameTyped, StepTyped DEF CloseUnlists
<1> QED BY <1>1, <1>2, <1>3, <1>4, <1>5, <1>6, <1>7, <1>8 DEF InitTask

\* An execution that moves on, with what it needs.
LEMMA MovesTyped ==
  ASSUME TypeInv, ManagersTyped, NEW e \in Executions,
         NEW place \in {"new", "set", "added", "exists", "delete", "using", "ending",
                        "mark", "unlist", "ensure", "kill", "done"},
         NEW m \in Managers \union {None}, NEW rec \in Records \union {NoRecord},
         at' = [at EXCEPT ![e] = place], uses' = [uses EXCEPT ![e] = m],
         mine' = [mine EXCEPT ![e] = rec],
         m # None => man'[m].state # "unused",
         shared' = shared \/ shared' \in BOOLEAN,
         place \in {"using", "ensure", "kill"} => m # None,
         place \in {"delete", "mark", "unlist"} => rec \in Records
  PROVE  ExecutionsTyped
BY DEF TypeInv, TypeOK, ExecutionShape, ManagersTyped, ExecutionsTyped, Used

\* Locals that are left alone are what they were.
LEMMA SameUses ==
  ASSUME TypeInv, NEW e \in Executions
  PROVE  /\ UNCHANGED uses => uses' = [uses EXCEPT ![e] = uses[e]]
         /\ UNCHANGED mine => mine' = [mine EXCEPT ![e] = mine[e]]
         /\ uses[e] \in Managers \union {None} /\ mine[e] \in Records \union {NoRecord}
         /\ ManagersTyped /\ uses[e] # None => man'[uses[e]].state # "unused"
BY DEF TypeInv, TypeOK, ExecutionShape, ManagersTyped, Used

\* An execution that moves on with what it has.
LEMMA GoesTyped ==
  ASSUME TypeInv, ManagersTyped, NEW e \in Executions,
         NEW place \in {"new", "set", "added", "exists", "delete", "using", "ending",
                        "mark", "unlist", "ensure", "kill", "done"},
         at' = [at EXCEPT ![e] = place], UNCHANGED <<uses, mine>>,
         shared' = shared \/ shared' \in BOOLEAN,
         place \in {"using", "ensure", "kill"} => uses[e] # None,
         place \in {"delete", "mark", "unlist"} => mine[e] \in Records
  PROVE  ExecutionsTyped
BY DEF TypeInv, TypeOK, ExecutionShape, ManagersTyped, ExecutionsTyped, Used

\* A manager that is cached, and perhaps started.
LEMMA AddsTyped ==
  ASSUME TypeInv, ManagersTyped, NEW m \in Managers, man'[m].state # "unused", NEW p \in Processes,
         cache' = [cache EXCEPT ![p] = m] \/ cache' = cache,
         tasks' \in [Processes -> SUBSET Managers],
         \A q \in Processes : tasks'[q] \subseteq tasks[q] \union {m},
         init' = init \/ init' = [init EXCEPT ![m] = "ensure"], seen' = seen
  PROVE  LocalTyped /\ StartsTyped
<1>0. /\ cache \in [Processes -> Managers \union {None}] /\ seen \in [Managers -> Records \union {NoRecord}]
      /\ init \in [Managers -> {"none", "ensure", "catch", "update", "save", "retire",
                                "close", "mark", "unlist", "over"}]
  BY DEF TypeInv, TypeOK
<1>1. /\ cache' \in [Processes -> Managers \union {None}]
      /\ \A q \in Processes : cache'[q] \in {cache[q], m}
  BY <1>0
<1>2. \A q \in Processes : /\ cache'[q] # None => man'[cache'[q]].state # "unused"
                           /\ \A n \in tasks'[q] : man'[n].state # "unused"
  <2> SUFFICES ASSUME NEW q \in Processes
      PROVE  /\ cache'[q] # None => man'[cache'[q]].state # "unused"
             /\ \A n \in tasks'[q] : man'[n].state # "unused"
    OBVIOUS
  <2>1. /\ cache[q] # None => cache[q] \in Managers /\ Used(cache[q])
        /\ \A n \in tasks[q] : n \in Managers /\ Used(n)
    BY DEF TypeInv, TypeOK, CacheShape
  <2> QED BY <1>1, <2>1 DEF ManagersTyped
<1>3. LocalTyped BY <1>1, <1>2 DEF LocalTyped
<1>4. /\ init' \in [Managers -> {"none", "ensure", "catch", "update", "save", "retire",
                                 "close", "mark", "unlist", "over"}]
      /\ \A n \in Managers : init'[n] = init[n] \/ (n = m /\ init'[n] = "ensure")
  BY <1>0
<1>5. StartsTyped
  BY <1>0, <1>4 DEF TypeInv, ManagerShape, ManagersTyped, StartsTyped, Used, Writing
<1> QED BY <1>3, <1>5

\* The types after Create.
LEMMA CreateTyped ==
  ASSUME TypeInv, NEW e \in Executions, Begin(e) \/ Create(e) \/ Use(e)
  PROVE  TypeInv'
<1>t. TypeOK /\ Home[e] \in Processes /\ <<e, "create">> \in Managers
  BY HomeAssumption, Names DEF TypeInv
<1>m. man \in [Managers -> Mans] BY <1>t DEF TypeOK, Mans
<1> USE DEF Goto
<1>1. CASE Begin(e)
  <2>s. ManagersTyped BY <1>1, SameTyped DEF Begin
  <2>1. ExecutionsTyped
    <3>1. CASE at' = [at EXCEPT ![e] = "set"] BY <1>1, <2>s, <3>1, GoesTyped DEF Begin
    <3>2. CASE at' = [at EXCEPT ![e] = "ending"] BY <1>1, <2>s, <3>2, GoesTyped DEF Begin
    <3> QED BY <1>1, <3>1, <3>2 DEF Begin
  <2> QED BY <1>1, <2>s, <2>1, SameTyped, StepTyped DEF Begin
<1>2. CASE CreateSets(e)
  <2>s. ManagersTyped BY <1>2, SameTyped DEF CreateSets
  <2>1. ExecutionsTyped
    <3>1. CASE at' = [at EXCEPT ![e] = "added"]
      BY <1>2, <2>s, <3>1, GoesTyped DEF CreateSets
    <3>2. CASE at' = [at EXCEPT ![e] = "exists"]
      BY <1>2, <2>s, <3>2, GoesTyped DEF CreateSets
    <3> QED BY <1>2, <3>1, <3>2 DEF CreateSets
  <2>2. RecordTyped
    BY <1>2, <1>t DEF CreateSets, TypeOK, RecordTyped, Records, Statuses
  <2> QED BY <1>2, <2>s, <2>1, <2>2, SameTyped, StepTyped DEF CreateSets
<1>3. CASE CreateLists(e)
  <2> DEFINE rec == [life |-> e, status |-> "initializing", sandbox |-> None]
  <2>0. rec \in Records BY DEF Records, Statuses
  <2>1. Manage(Home[e], <<e, "create">>, rec) BY <1>3 DEF CreateLists
  <2>2. /\ man' \in [Managers -> Mans]
        /\ \A n \in Managers : n # <<e, "create">> => man'[n] = man[n]
        /\ man'[<<e, "create">>].life = rec.life /\ man'[<<e, "create">>].proc = Home[e]
        /\ man'[<<e, "create">>].state \in {"new", "starting"}
        /\ cache' = [cache EXCEPT ![Home[e]] = <<e, "create">>]
        /\ tasks' \in [Processes -> SUBSET Managers]
        /\ \A q \in Processes : tasks'[q] \subseteq tasks[q] \union {<<e, "create">>}
        /\ init' = init \/ init' = [init EXCEPT ![<<e, "create">>] = "ensure"]
    BY <1>t, <2>0, <2>1, ManageDoes
  <2>s. ManagersTyped
    BY <1>t, <2>2 DEF TypeInv, ManagerShape, ManagersTyped, Used
  <2>3. /\ seen' = seen /\ mine' = mine /\ shared' = shared /\ at' = [at EXCEPT ![e] = "using"]
        /\ uses' = [uses EXCEPT ![e] = <<e, "create">>]
    BY <1>3 DEF CreateLists
  <2>4. LocalTyped /\ StartsTyped
    <3> HIDE DEF rec
    <3> QED BY <1>t, <2>2, <2>3, <2>s, AddsTyped
  <2>5. ExecutionsTyped
    <3>1. mine' = [mine EXCEPT ![e] = mine[e]] /\ mine[e] \in Records \union {NoRecord}
      BY <2>3, SameUses
    <3>2. <<e, "create">> # None /\ man'[<<e, "create">>].state # "unused"
      BY <1>t, <2>2, Names
    <3> QED BY <1>t, <2>3, <2>s, <3>1, <3>2, MovesTyped
  <2>6. RecordTyped BY <1>3, <1>t DEF CreateLists, TypeOK, RecordTyped
  <2> QED BY <1>3, <2>s, <2>4, <2>5, <2>6, SameTyped, StepTyped DEF CreateLists
<1>4. CASE CreateReads(e) /\ record = NoRecord
  <2>1. /\ UNCHANGED <<local, man, init, uses, mine, shared, store, seen, notices, running>>
        /\ at' = [at EXCEPT ![e] = "set"]
    BY <1>4 DEF CreateReads, NoRecord, Terminal
  <2>s. ManagersTyped BY <2>1, SameTyped
  <2>2. ExecutionsTyped BY <2>1, <2>s, GoesTyped
  <2> QED BY <2>1, <2>2, <2>s, SameTyped, StepTyped DEF starts
<1>5. CASE CreateReads(e) /\ record # NoRecord /\ record.status \in Terminal
  <2>1. /\ UNCHANGED <<man, init, uses, shared, store, seen, notices, running>>
        /\ at' = [at EXCEPT ![e] = "delete"] /\ mine' = [mine EXCEPT ![e] = record]
        /\ ClearCache(Home[e], record.life)
    BY <1>5 DEF CreateReads
  <2>s. ManagersTyped BY <2>1, SameTyped
  <2>2. LocalTyped BY <1>t, <2>1, <2>s, ClearTyped
  <2>3. record \in Records BY <1>5, <1>t DEF TypeOK
  <2>4. ExecutionsTyped BY <2>1, <2>3, <2>s, SameUses, MovesTyped
  <2> QED BY <2>1, <2>2, <2>4, <2>s, SameTyped, StepTyped DEF starts
<1>6. CASE CreateReads(e) /\ record # NoRecord /\ record.status \notin Terminal
  <2> DEFINE cached == Cached(Home[e], record.life)
             m == IF cached # None THEN cached ELSE <<e, "create">>
  <2>0. record \in Records BY <1>6, <1>t DEF TypeOK
  <2>1. /\ UNCHANGED <<mine, store, seen, notices, running>> /\ shared' = TRUE
        /\ at' = [at EXCEPT ![e] = "using"] /\ uses' = [uses EXCEPT ![e] = m]
        /\ cached # None => Start(man, Home[e], cached, record) /\ UNCHANGED cache
        /\ cached = None => Manage(Home[e], <<e, "create">>, record)
    BY <1>6 DEF CreateReads
  <2>2. m \in Managers /\ (cached # None => Used(m) /\ cached \in Managers)
    BY <1>t, Names DEF Cached, TypeInv, TypeOK, CacheShape
  <2>3. /\ man' \in [Managers -> Mans]
        /\ \A n \in Managers : n # m => man'[n] = man[n]
        /\ man'[m].life \in Executions /\ man'[m].proc \in Processes /\ man'[m].state # "unused"
        /\ cache' = [cache EXCEPT ![Home[e]] = m] \/ cache' = cache
        /\ tasks' \in [Processes -> SUBSET Managers]
        /\ \A q \in Processes : tasks'[q] \subseteq tasks[q] \union {m}
        /\ init' = init \/ init' = [init EXCEPT ![m] = "ensure"]
    <3>1. CASE cached # None
      <4>1. Start(man, Home[e], m, record) /\ UNCHANGED cache /\ Used(m) BY <2>1, <2>2, <3>1
      <4> HIDE DEF m, cached
      <4>2. man[m].life \in Executions /\ man[m].proc \in Processes BY <2>2, <4>1, UsedTyped
      <4> QED BY <1>t, <1>m, <2>2, <4>1, <4>2, StartDoes DEF Used
    <3>2. CASE cached = None
      <4>1. Manage(Home[e], m, record) BY <2>1, <3>2
      <4> HIDE DEF m, cached
      <4> QED BY <1>t, <2>0, <2>2, <4>1, ManageDoes, Names
    <3> QED BY <3>1, <3>2
  <2> HIDE DEF m, cached
  <2>s. ManagersTyped
    BY <2>2, <2>3 DEF TypeInv, ManagerShape, ManagersTyped, Used
  <2>4. LocalTyped /\ StartsTyped BY <1>t, <2>1, <2>2, <2>3, <2>s, AddsTyped
  <2>5. ExecutionsTyped
    <3>1. mine' = [mine EXCEPT ![e] = mine[e]] /\ mine[e] \in Records \union {NoRecord}
      BY <2>1, SameUses
    <3>2. m # None /\ man'[m].state # "unused" BY <2>2, <2>3, Names
    <3> QED BY <2>1, <2>2, <2>s, <3>1, <3>2, MovesTyped
  <2> QED BY <2>1, <2>s, <2>4, <2>5, SameTyped, StepTyped
<1>7. CASE CreateDeletes(e)
  <2>s. ManagersTyped BY <1>7, SameTyped DEF CreateDeletes
  <2>1. RecordTyped BY <1>7, <1>t DEF CreateDeletes, TypeOK, RecordTyped
  <2>2. ExecutionsTyped BY <1>7, <2>s, SameUses, MovesTyped DEF CreateDeletes
  <2> QED BY <1>7, <2>s, <2>1, <2>2, SameTyped, StepTyped DEF CreateDeletes
<1>8. CASE Use(e)
  <2>1. uses[e] \in Managers /\ Used(uses[e]) /\ man[uses[e]].state = "new"
    BY <1>8 DEF Use, TypeInv, TypeOK, ExecutionShape
  <2>2. man' = [man EXCEPT ![uses[e]].state = "starting"]
    BY <1>8, <2>1 DEF Use, Ensured
  <2>s. ManagersTyped BY <2>1, <2>2, StateTyped
  <2> QED BY <1>8, <2>s, SameTyped, StepTyped DEF Use
<1> QED BY <1>1, <1>2, <1>3, <1>4, <1>5, <1>6, <1>7, <1>8 DEF Create

\* The types after Shutdown.
LEMMA ShutdownTyped ==
  ASSUME TypeInv, NEW e \in Executions, End(e) \/ Shutdown(e)
  PROVE  TypeInv'
<1>t. TypeOK /\ Home[e] \in Processes /\ <<e, "shutdown">> \in Managers
  BY HomeAssumption, Names DEF TypeInv
<1>m. man \in [Managers -> Mans] BY <1>t DEF TypeOK, Mans
<1> USE DEF Goto
<1>1. CASE End(e)
  <2>s. ManagersTyped BY <1>1, SameTyped DEF End
  <2>1. ExecutionsTyped BY <1>1, <2>s, GoesTyped DEF End
  <2> QED BY <1>1, <2>s, <2>1, SameTyped, StepTyped DEF End
<1>2. CASE ShutdownReads(e) /\ record = NoRecord
  <2>1. /\ UNCHANGED <<man, uses, mine, store, starts, notices, running>> /\ shared' \in BOOLEAN
        /\ at' = [at EXCEPT ![e] = "done"]
        /\ cache' = [cache EXCEPT ![Home[e]] = None] /\ tasks' = [tasks EXCEPT ![Home[e]] = {}]
    BY <1>2 DEF ShutdownReads, NoRecord
  <2>s. ManagersTyped BY <2>1, SameTyped
  <2>2. LocalTyped BY <1>t, <2>1, <2>s DEF TypeInv, TypeOK, CacheShape, LocalTyped, ManagersTyped, Used
  <2>3. ExecutionsTyped BY <2>1, <2>s, GoesTyped
  <2> QED BY <2>1, <2>2, <2>3, <2>s, SameTyped, StepTyped
<1>3. CASE ShutdownReads(e) /\ record # NoRecord /\ record.status = "error"
  <2>1. /\ UNCHANGED <<man, local, store, starts, notices, running>> /\ shared' \in BOOLEAN
        /\ at' = [at EXCEPT ![e] = "mark"] /\ mine' = [mine EXCEPT ![e] = record]
        /\ uses' = [uses EXCEPT ![e] = None]
    BY <1>3 DEF ShutdownReads
  <2>s. ManagersTyped BY <2>1, SameTyped
  <2>2. record \in Records BY <1>3, <1>t DEF TypeOK
  <2>3. ExecutionsTyped BY <2>1, <2>2, <2>s, MovesTyped
  <2> QED BY <2>1, <2>3, <2>s, SameTyped, StepTyped
<1>4. CASE ShutdownReads(e) /\ record # NoRecord /\ record.status # "error"
  <2> DEFINE cached == Cached(Home[e], record.life)
             joins == cached = None /\ record.sandbox # None
             m == <<e, "shutdown">>
             r == [life |-> record.life, proc |-> Home[e], from |-> record.sandbox, state |-> "new"]
  <2>1. /\ UNCHANGED <<local, store, starts, notices, running>> /\ shared' \in BOOLEAN
        /\ at' = [at EXCEPT ![e] = "mark"] /\ mine' = [mine EXCEPT ![e] = record]
        /\ joins => man' = [man EXCEPT ![m] = r] /\ uses' = [uses EXCEPT ![e] = m]
        /\ ~joins => UNCHANGED man /\ uses' = [uses EXCEPT ![e] = cached]
    BY <1>4 DEF ShutdownReads
  <2>2. record \in Records BY <1>4, <1>t DEF TypeOK
  <2>3. cached \in Managers \union {None} /\ (cached # None => Used(cached))
    BY <1>t DEF Cached, TypeInv, TypeOK, CacheShape
  <2>4. CASE joins
    <3>1. r \in Mans /\ r.life \in Executions /\ r.proc \in Processes /\ r.state # "unused"
      BY <1>t, <2>2, Names DEF Mans, Records
    <3>2. man' = [man EXCEPT ![m] = r] /\ uses' = [uses EXCEPT ![e] = m] BY <2>1, <2>4
    <3>3. m \in Managers BY <1>t
    <3> HIDE DEF r, m, joins, cached
    <3>4. /\ man' \in [Managers -> Mans] /\ man'[m] = r
          /\ \A n \in Managers : n # m => man'[n] = man[n]
      BY <1>m, <3>1, <3>2, <3>3
    <3>s. ManagersTyped
      BY <3>1, <3>3, <3>4 DEF TypeInv, ManagerShape, ManagersTyped, Used
    <3>5. ExecutionsTyped BY <2>1, <2>2, <3>1, <3>2, <3>3, <3>4, <3>s, MovesTyped
    <3> QED BY <2>1, <3>s, <3>5, SameTyped, StepTyped
  <2>5. CASE ~joins
    <3>1. UNCHANGED man /\ uses' = [uses EXCEPT ![e] = cached] BY <2>1, <2>5
    <3>s. ManagersTyped BY <3>1, SameTyped
    <3> HIDE DEF joins, cached, m, r
    <3>2. cached # None => man'[cached].state # "unused" BY <2>3, <3>1 DEF Used
    <3>3. ExecutionsTyped BY <2>1, <2>2, <2>3, <3>1, <3>2, <3>s, MovesTyped
    <3> QED BY <2>1, <3>s, <3>3, SameTyped, StepTyped
  <2> QED BY <2>4, <2>5
<1>5. CASE ShutdownMarks(e)
  <2> DEFINE rec == [mine[e] EXCEPT !.status = IF @ = "error" THEN @ ELSE "shutdown"]
  <2>s. ManagersTyped BY <1>5, SameTyped DEF ShutdownMarks
  <2>1. mine[e] \in Records BY <1>5 DEF ShutdownMarks, TypeInv, ExecutionShape
  <2>2. rec \in Records BY <2>1 DEF Records, Statuses
  <2>3. Save(rec) /\ listed' = listed BY <1>5 DEF ShutdownMarks
  <2>4. RecordTyped BY <1>t, <2>2, <2>3, SaveDoes DEF TypeOK, RecordTyped
  <2>5. CASE record.life = mine[e].life
    <3>1. /\ UNCHANGED <<local, mine, man, starts, notices, uses, shared, running>>
          /\ at' = [at EXCEPT ![e] = "unlist"]
      BY <1>5, <2>5 DEF ShutdownMarks
    <3>2. ExecutionsTyped BY <2>1, <2>s, <3>1, GoesTyped
    <3> QED BY <2>4, <2>s, <3>1, <3>2, SameTyped, StepTyped
  <2>6. CASE record.life # mine[e].life
    <3>1. /\ UNCHANGED <<man, starts, notices, uses, shared, running>>
          /\ at' = [at EXCEPT ![e] = "done"] /\ mine' = [mine EXCEPT ![e] = NoRecord]
          /\ ClearCache(Home[e], mine[e].life)
      BY <1>5, <2>6 DEF ShutdownMarks
    <3>2. ExecutionsTyped BY <2>s, <3>1, SameUses, MovesTyped
    <3>3. LocalTyped BY <1>t, <2>s, <3>1, ClearTyped
    <3> QED BY <2>4, <2>s, <3>1, <3>2, <3>3, SameTyped, StepTyped
  <2> QED BY <2>5, <2>6
<1>6. CASE ShutdownUnlists(e)
  <2>1. /\ UNCHANGED <<record, revived, starts, notices, uses, shared, running>> /\ listed' = FALSE
        /\ mine' = [mine EXCEPT ![e] = NoRecord] /\ ClearCache(Home[e], mine[e].life)
    BY <1>6 DEF ShutdownUnlists
  <2>2. RecordTyped BY <1>t, <2>1 DEF TypeOK, RecordTyped
  <2>3. CASE uses[e] = None
    <3>1. UNCHANGED man /\ at' = [at EXCEPT ![e] = "done"] BY <1>6, <2>3 DEF ShutdownUnlists
    <3>s. ManagersTyped BY <3>1, SameTyped
    <3>2. ExecutionsTyped BY <2>1, <3>1, <3>s, SameUses, MovesTyped
    <3>3. LocalTyped BY <1>t, <2>1, <3>s, ClearTyped
    <3> QED BY <2>1, <2>2, <3>s, <3>2, <3>3, SameTyped, StepTyped
  <2>4. CASE uses[e] # None
    <3>1. man' = Ensured(man, uses[e]) /\ at' = [at EXCEPT ![e] = "ensure"]
      BY <1>6, <2>4 DEF ShutdownUnlists
    <3>2. uses[e] \in Managers /\ Used(uses[e]) BY <1>t, <2>4 DEF TypeInv, TypeOK, ExecutionShape
    <3>s. ManagersTyped
      BY <1>m, <3>1, <3>2, EnsuredDoes DEF TypeInv, ManagerShape, ManagersTyped, Used
    <3>3. ExecutionsTyped BY <2>1, <2>4, <3>1, <3>s, SameUses, MovesTyped
    <3>4. LocalTyped BY <1>t, <2>1, <3>s, ClearTyped
    <3> QED BY <2>1, <2>2, <3>s, <3>3, <3>4, SameTyped, StepTyped
  <2> QED BY <2>3, <2>4
<1>7. CASE ShutdownEnsures(e)
  <2>s. ManagersTyped BY <1>7, SameTyped DEF ShutdownEnsures
  <2>0. uses[e] # None BY <1>7 DEF ShutdownEnsures, TypeInv, ExecutionShape
  <2>1. ExecutionsTyped BY <1>7, <2>0, <2>s, GoesTyped DEF ShutdownEnsures
  <2> QED BY <1>7, <2>s, <2>1, SameTyped, StepTyped DEF ShutdownEnsures
<1>8. CASE ShutdownKills(e)
  <2>0. uses[e] \in Managers /\ Used(uses[e])
    BY <1>8, <1>t DEF ShutdownKills, TypeInv, TypeOK, ExecutionShape
  <2>s. ManagersTyped /\ running' \subseteq Managers BY <1>8, <2>0, ShutDownTyped DEF ShutdownKills
  <2>1. ExecutionsTyped BY <1>8, <2>s, GoesTyped DEF ShutdownKills
  <2> QED BY <1>8, <2>s, <2>1, SameTyped, StepTyped DEF ShutdownKills
<1> QED BY <1>1, <1>2, <1>3, <1>4, <1>5, <1>6, <1>7, <1>8 DEF Shutdown

\* Every step keeps the types.
LEMMA NextTyped ==
  ASSUME TypeInv, [Next]_vars
  PROVE  TypeInv'
<1>1. CASE UNCHANGED vars
  BY <1>1, SameTyped, StepTyped DEF vars
<1>2. CASE Next
  BY <1>2, CreateTyped, ShutdownTyped, BootTyped, NoticeTyped, InitTaskTyped DEF Next, Proceed
<1> QED BY <1>1, <1>2

\* The type invariant holds.
LEMMA RegistryTypesHold == Spec => []TypeInv
<1>1. Init => TypeInv BY TypeInit
<1>2. TypeInv /\ [Next]_vars => TypeInv' BY NextTyped
<1> QED BY <1>1, <1>2, PTL DEF Spec

\* TypeOK: the record, the caches, the managers and the executions keep their types.
THEOREM RegistryTypeCorrect == Spec => []TypeOK
<1>1. TypeInv => TypeOK BY DEF TypeInv
<1> QED BY <1>1, RegistryTypesHold, PTL

----------------------------------------------------------------------------
(* The record of the invocation and the executions that work on it.        *)

\* An execution creates its sandbox when those before it are past that.
Turns == \A e, f \in Executions : at[e] # "new" /\ f < e => at[f] \notin Creating \union {"new"}

\* What an execution has added to Redis is there until it is listed; what it is about to
\* delete has ended.
Added == \A e \in Executions : at[e] = "added" => record # NoRecord /\ record.life = e
DeletesEnded ==
  ~revived => \A e \in Executions :
    at[e] = "delete" /\ record.life = mine[e].life => record.status \in Terminal

\* The workspace lists the invocation only for an execution at work, and a record lives
\* only with one unless it was revived.
Marking(e) == at[e] = "mark" /\ mine[e].life = record.life

ListedByWorker ==
  listed => \E e \in Executions : \/ at[e] \in Creating \union {"unlist"} \/ Marking(e)
                                  \/ at[e] \in {"using", "ending"} /\ record # NoRecord

LivingHasWorker ==
  ~revived /\ record # NoRecord /\ record.status \notin Terminal =>
    \E e \in Executions : at[e] \in {"added", "using", "ending"} \/ Marking(e)

PlacesInv == Turns /\ Added /\ DeletesEnded /\ ListedByWorker /\ LivingHasWorker

\* What a manager's step, or the write of anyone at all, may do to the record.
RecordKept ==
  /\ record' = NoRecord <=> record = NoRecord
  /\ record'.life = record.life
  /\ ~revived' => ~revived /\ (record.status \in Terminal => record'.status \in Terminal)
  /\ listed' => listed

\* A step that leaves the executions alone and keeps the record keeps PlacesInv.
LEMMA KeptPlaces ==
  ASSUME TypeInv, PlacesInv, RecordKept, UNCHANGED executions
  PROVE  PlacesInv'
<1>1. Turns' BY DEF PlacesInv, Turns, executions
<1>2. Added' BY DEF PlacesInv, Added, RecordKept, executions
<1>3. DeletesEnded' BY DEF PlacesInv, DeletesEnded, RecordKept, executions
<1>4. ListedByWorker' BY DEF PlacesInv, ListedByWorker, Marking, RecordKept, executions
<1>5. LivingHasWorker' BY DEF PlacesInv, LivingHasWorker, Marking, RecordKept, executions
<1> QED BY <1>1, <1>2, <1>3, <1>4, <1>5 DEF PlacesInv

\* Steps of managers keep the record, and list nothing.
LEMMA ManagersKeep ==
  ASSUME TypeInv, NEW m \in Managers, Boot(m) \/ Notice(m) \/ InitTask(m)
  PROVE  RecordKept /\ UNCHANGED executions
<1>0. TypeOK BY DEF TypeInv
<1>s. UNCHANGED store => RecordKept BY DEF store, RecordKept
<1>1. CASE Boot(m)
  BY <1>1, <1>s DEF Boot, SandboxStarts, SandboxReady, SandboxFails
<1>2. CASE NoticeReads(m) BY <1>2, <1>s DEF NoticeReads
<1>3. CASE NoticeSaves(m)
  <2>1. Used(m) BY <1>3 DEF NoticeSaves, TypeInv, ManagerShape
  <2>2. [noticed[m] EXCEPT !.sandbox = Sandbox(m)] \in Records
    BY <1>3, <2>1, UsedTyped DEF NoticeSaves, TypeInv, ManagerShape, Records
  <2> QED BY <1>0, <1>3, <2>2, SaveDoes DEF NoticeSaves, RecordKept
<1>4. CASE InitSettles(m) \/ CatchReads(m) \/ InitReads(m) \/ Retire(m) \/ Close(m)
  BY <1>4, <1>s DEF InitSettles, CatchReads, InitReads, Retire, Close
<1>5. CASE InitSaves(m)
  <2>1. seen[m] \in Records BY <1>5 DEF InitSaves, TypeInv, ManagerShape
  <2> QED BY <1>0, <1>5, <2>1, SaveDoes DEF InitSaves, RecordKept
<1>6. CASE CloseMarks(m)
  <2>1. [seen[m] EXCEPT !.status = "shutdown"] \in Records
    BY <1>6 DEF CloseMarks, TypeInv, ManagerShape, Records, Statuses
  <2> QED BY <1>0, <1>6, <2>1, SaveDoes DEF CloseMarks, RecordKept
<1>7. CASE CloseUnlists(m)
  BY <1>7 DEF CloseUnlists, RecordKept
<1> QED BY <1>1, <1>2, <1>3, <1>4, <1>5, <1>6, <1>7 DEF Notice, InitTask

\* An execution that creates its sandbox is the only one that does.
LEMMA Alone ==
  ASSUME PlacesInv, NEW e \in Executions, at[e] \in Creating
  PROVE  \A f \in Executions : f # e => at[f] \notin Creating
<1> SUFFICES ASSUME NEW f \in Executions, f # e PROVE at[f] \notin Creating
  OBVIOUS
<1>1. e \in Nat /\ f \in Nat BY ExecutionsAssumption
<1>2. e < f \/ f < e BY <1>1
<1>3. "new" \notin Creating BY DEF Creating
<1> QED BY <1>2, <1>3 DEF PlacesInv, Turns

\* One execution moves, and does not create its sandbox a second time.
LEMMA MovesInTurn ==
  ASSUME TypeInv, PlacesInv, NEW e \in Executions, NEW place, at' = [at EXCEPT ![e] = place],
         at[e] # "new", place # "new", at[e] \in Creating \/ place \notin Creating
  PROVE  Turns' /\ \A f \in Executions : at'[f] = IF f = e THEN place ELSE at[f]
<1>1. \A f \in Executions : at'[f] = IF f = e THEN place ELSE at[f]
  BY DEF TypeInv, TypeOK
<1>2. Turns'
  <2> SUFFICES ASSUME NEW g \in Executions, NEW f \in Executions, at'[g] # "new", f < g
      PROVE  at'[f] \notin Creating \union {"new"}
    BY DEF Turns
  <2>1. at[g] # "new" BY <1>1
  <2>2. at[f] \notin Creating \union {"new"} BY <2>1 DEF PlacesInv, Turns
  <2> QED BY <1>1, <2>2
<1> QED BY <1>1, <1>2

\* PlacesInv after Begin.
LEMMA BeginPlaces ==
  ASSUME TypeInv, PlacesInv, NEW e \in Executions, Begin(e)
  PROVE  PlacesInv'
<1>1. PICK place \in {"set", "ending"} :
        /\ UNCHANGED <<store, mine>> /\ at[e] = "new"
        /\ \A f \in Executions : at'[f] = IF f = e THEN place ELSE at[f]
        /\ \A f \in Executions : f < e => at[f] \notin Creating \union {"new"}
  BY DEF Begin, Goto, TypeInv, TypeOK
<1>2. Turns'
  <2> SUFFICES ASSUME NEW g \in Executions, NEW f \in Executions, at'[g] # "new", f < g
      PROVE  at'[f] \notin Creating \union {"new"}
    BY DEF Turns
  <2>1. e \in Nat /\ f \in Nat /\ g \in Nat BY ExecutionsAssumption
  <2>2. CASE g = e BY <1>1, <2>1, <2>2
  <2>3. CASE g # e
    <3>1. at[f] \notin Creating \union {"new"} BY <1>1, <2>3 DEF PlacesInv, Turns
    <3> QED BY <1>1, <3>1
  <2> QED BY <2>2, <2>3
<1>3. Added' BY <1>1 DEF PlacesInv, Added, store
<1>4. DeletesEnded' BY <1>1 DEF PlacesInv, DeletesEnded, store
<1>5. ListedByWorker'
  BY <1>1 DEF PlacesInv, ListedByWorker, Marking, Creating, store
<1>6. LivingHasWorker' BY <1>1 DEF PlacesInv, LivingHasWorker, Marking, store
<1> QED BY <1>2, <1>3, <1>4, <1>5, <1>6 DEF PlacesInv

\* PlacesInv after Create.
LEMMA CreatePlaces ==
  ASSUME TypeInv, PlacesInv, NEW e \in Executions, Create(e) \/ Use(e)
  PROVE  PlacesInv'
<1> USE DEF Goto
<1>0. record \in Records \union {NoRecord} /\ NoRecord.life = None /\ None \notin Executions
  BY Names DEF TypeInv, TypeOK, NoRecord
<1>1. CASE CreateSets(e)
  <2>1. PICK place \in {"added", "exists"} :
          /\ at' = [at EXCEPT ![e] = place] /\ at[e] = "set" /\ UNCHANGED <<revived, listed, mine>>
          /\ \/ /\ record = NoRecord /\ place = "added"
                /\ record' = [life |-> e, status |-> "initializing", sandbox |-> None]
             \/ record # NoRecord /\ place = "exists" /\ UNCHANGED record
    BY <1>1 DEF CreateSets
  <2>2. at[e] \in Creating /\ place \in Creating BY <2>1 DEF Creating
  <2>3. Turns' /\ \A f \in Executions : at'[f] = IF f = e THEN place ELSE at[f]
    BY <2>1, <2>2, MovesInTurn
  <2>4. \A f \in Executions : f # e => at[f] \notin {"added", "delete"}
    BY <2>2, Alone DEF Creating
  <2>5. Added' BY <2>1, <2>3, <2>4, Names DEF Added, NoRecord
  <2>6. DeletesEnded' BY <2>1, <2>3, <2>4 DEF DeletesEnded
  <2>7. ListedByWorker' BY <2>2, <2>3 DEF ListedByWorker
  <2>8. LivingHasWorker'
    <3>1. CASE place = "added" BY <2>3, <3>1 DEF LivingHasWorker
    <3>2. CASE place = "exists"
      BY <2>1, <2>3, <3>2 DEF PlacesInv, LivingHasWorker, Marking
    <3> QED BY <3>1, <3>2
  <2> QED BY <2>3, <2>5, <2>6, <2>7, <2>8 DEF PlacesInv
<1>2. CASE CreateLists(e)
  <2>1. /\ at' = [at EXCEPT ![e] = "using"] /\ at[e] = "added" /\ UNCHANGED <<record, revived, mine>>
    BY <1>2 DEF CreateLists
  <2>2. at[e] \in Creating BY <2>1 DEF Creating
  <2>3. Turns' /\ \A f \in Executions : at'[f] = IF f = e THEN "using" ELSE at[f]
    BY <2>1, <2>2, MovesInTurn
  <2>4. Added' BY <2>1, <2>3 DEF PlacesInv, Added
  <2>5. DeletesEnded' BY <2>1, <2>3 DEF PlacesInv, DeletesEnded
  <2>6. record' # NoRecord BY <2>1 DEF PlacesInv, Added
  <2>7. ListedByWorker' /\ LivingHasWorker' BY <2>3, <2>6 DEF ListedByWorker, LivingHasWorker
  <2> QED BY <2>3, <2>4, <2>5, <2>7 DEF PlacesInv
<1>3. CASE CreateReads(e)
  <2>0. at[e] = "exists" /\ UNCHANGED store BY <1>3 DEF CreateReads
  <2>1. PICK place \in {"set", "delete", "using"} :
          /\ at' = [at EXCEPT ![e] = place]
          /\ place = "using" => record # NoRecord
          /\ place = "delete" => record.status \in Terminal
          /\ UNCHANGED mine \/ mine' = [mine EXCEPT ![e] = record]
    <3>1. CASE record = NoRecord
      <4>1. at' = [at EXCEPT ![e] = "set"] /\ UNCHANGED mine
        BY <1>3, <3>1 DEF CreateReads, NoRecord, Terminal
      <4> QED BY <4>1
    <3>2. CASE record # NoRecord /\ record.status \in Terminal
      <4>1. at' = [at EXCEPT ![e] = "delete"] /\ mine' = [mine EXCEPT ![e] = record]
        BY <1>3, <3>2 DEF CreateReads
      <4> QED BY <3>2, <4>1
    <3>3. CASE record # NoRecord /\ record.status \notin Terminal
      <4>1. at' = [at EXCEPT ![e] = "using"] /\ UNCHANGED mine
        BY <1>3, <3>3 DEF CreateReads
      <4> QED BY <3>3, <4>1
    <3> QED BY <3>1, <3>2, <3>3
  <2>2. at[e] \in Creating BY <2>0 DEF Creating
  <2>3. Turns' /\ \A f \in Executions : at'[f] = IF f = e THEN place ELSE at[f]
    <3>1. at' = [at EXCEPT ![e] = place] /\ at[e] # "new" /\ place # "new" BY <2>0, <2>1
    <3> QED BY <2>2, <3>1, MovesInTurn
  <2>4. \A f \in Executions : f # e => mine'[f] = mine[f] /\ at[f] \notin {"added", "delete"}
    BY <2>1, <2>2, Alone DEF TypeInv, TypeOK, Creating
  <2>5. Added' BY <2>1, <2>3, <2>4 DEF Added
  <2>6. DeletesEnded' BY <2>0, <2>1, <2>3, <2>4 DEF DeletesEnded, store
  <2>7. ListedByWorker' BY <2>0, <2>1, <2>3 DEF ListedByWorker, Creating, store
  <2>8. LivingHasWorker'
    BY <2>0, <2>3, <2>4 DEF PlacesInv, LivingHasWorker, Marking, store
  <2> QED BY <2>3, <2>5, <2>6, <2>7, <2>8 DEF PlacesInv
<1>4. CASE CreateDeletes(e)
  <2>1. /\ at' = [at EXCEPT ![e] = "set"] /\ at[e] = "delete" /\ UNCHANGED <<revived, listed>>
        /\ mine' = [mine EXCEPT ![e] = NoRecord]
        /\ record' \in {record, NoRecord}
    BY <1>4 DEF CreateDeletes
  <2>2. at[e] \in Creating /\ "set" \in Creating BY <2>1 DEF Creating
  <2>3. Turns' /\ \A f \in Executions : at'[f] = IF f = e THEN "set" ELSE at[f]
    BY <2>1, <2>2, MovesInTurn
  <2>4. \A f \in Executions : f # e => mine'[f] = mine[f] /\ at[f] \notin {"added", "delete"}
    BY <2>1, <2>2, Alone DEF TypeInv, TypeOK, Creating
  <2>5. Added' /\ DeletesEnded' BY <2>3, <2>4 DEF Added, DeletesEnded
  <2>6. ListedByWorker' BY <2>2, <2>3 DEF ListedByWorker
  <2>7. LivingHasWorker'
    BY <2>1, <2>3, <2>4 DEF PlacesInv, LivingHasWorker, Marking
  <2> QED BY <2>3, <2>5, <2>6, <2>7 DEF PlacesInv
<1>5. CASE Use(e)
  <2>1. RecordKept /\ UNCHANGED executions BY <1>5 DEF Use, RecordKept, store
  <2> QED BY <2>1, KeptPlaces
<1> QED BY <1>1, <1>2, <1>3, <1>4, <1>5 DEF Create

\* PlacesInv after Shutdown.
LEMMA ShutdownPlaces ==
  ASSUME TypeInv, PlacesInv, NEW e \in Executions, End(e) \/ Shutdown(e)
  PROVE  PlacesInv'
<1> USE DEF Goto
<1>1. CASE End(e)
  <2>1. at' = [at EXCEPT ![e] = "ending"] /\ at[e] = "using" /\ UNCHANGED <<store, mine>>
    BY <1>1 DEF End
  <2>2. Turns' /\ \A f \in Executions : at'[f] = IF f = e THEN "ending" ELSE at[f]
    BY <2>1, MovesInTurn DEF Creating
  <2>3. Added' /\ DeletesEnded' BY <2>1, <2>2 DEF PlacesInv, Added, DeletesEnded, store
  <2>4. ListedByWorker' BY <2>1, <2>2 DEF PlacesInv, ListedByWorker, Marking, Creating, store
  <2>5. LivingHasWorker' BY <2>1, <2>2 DEF PlacesInv, LivingHasWorker, Marking, store
  <2> QED BY <2>2, <2>3, <2>4, <2>5 DEF PlacesInv
<1>2. CASE ShutdownReads(e)
  <2>0. at[e] = "ending" /\ UNCHANGED store BY <1>2 DEF ShutdownReads
  <2>1. PICK place \in {"mark", "done"} :
          /\ at' = [at EXCEPT ![e] = place]
          /\ place = "done" => record = NoRecord /\ mine' = mine
          /\ place = "mark" => mine' = [mine EXCEPT ![e] = record]
    <3>1. CASE record = NoRecord
      <4>1. at' = [at EXCEPT ![e] = "done"] /\ mine' = mine
        BY <1>2, <3>1 DEF ShutdownReads, NoRecord
      <4> QED BY <3>1, <4>1
    <3>2. CASE record # NoRecord
      <4>1. at' = [at EXCEPT ![e] = "mark"] /\ mine' = [mine EXCEPT ![e] = record]
        BY <1>2, <3>2 DEF ShutdownReads
      <4> QED BY <4>1
    <3> QED BY <3>1, <3>2
  <2>2. Turns' /\ \A f \in Executions : at'[f] = IF f = e THEN place ELSE at[f]
    BY <2>0, <2>1, MovesInTurn DEF Creating
  <2>3. /\ \A f \in Executions : f # e => mine'[f] = mine[f]
        /\ place = "mark" => mine'[e] = record
    BY <2>1 DEF TypeInv, TypeOK
  <2>4. Added' /\ DeletesEnded' BY <2>0, <2>2, <2>3 DEF PlacesInv, Added, DeletesEnded, store
  <2>5. ListedByWorker' /\ LivingHasWorker'
    <3>1. CASE place = "mark"
      <4>1. Marking(e)' BY <2>0, <2>2, <2>3, <3>1 DEF Marking, store
      <4> QED BY <4>1 DEF ListedByWorker, LivingHasWorker
    <3>2. CASE place = "done"
      <4>1. record' = NoRecord /\ record = NoRecord BY <2>0, <2>1, <3>2 DEF store
      <4>2. LivingHasWorker' BY <4>1 DEF LivingHasWorker
      <4>3. ListedByWorker'
        BY <2>0, <2>2, <2>3, <4>1 DEF PlacesInv, ListedByWorker, Marking, Creating, store
      <4> QED BY <4>2, <4>3
    <3> QED BY <3>1, <3>2
  <2> QED BY <2>2, <2>4, <2>5 DEF PlacesInv
<1>3. CASE ShutdownMarks(e)
  <2> DEFINE rec == [mine[e] EXCEPT !.status = IF @ = "error" THEN @ ELSE "shutdown"]
  <2>1. at[e] = "mark" /\ mine[e] \in Records /\ TypeOK
    BY <1>3 DEF ShutdownMarks, TypeInv, ExecutionShape
  <2>2. rec \in Records /\ rec.life = mine[e].life /\ rec.status \in Terminal
    BY <2>1 DEF Records, Statuses, Terminal
  <2>3. Save(rec) /\ listed' = listed BY <1>3 DEF ShutdownMarks
  <2>4. PICK place \in {"unlist", "done"} :
          /\ at' = [at EXCEPT ![e] = place]
          /\ place = "unlist" <=> record.life = mine[e].life
          /\ mine' = mine \/ mine' = [mine EXCEPT ![e] = NoRecord]
    <3>1. CASE record.life = mine[e].life
      <4>1. at' = [at EXCEPT ![e] = "unlist"] /\ mine' = mine BY <1>3, <3>1 DEF ShutdownMarks
      <4> QED BY <3>1, <4>1
    <3>2. CASE record.life # mine[e].life
      <4>1. at' = [at EXCEPT ![e] = "done"] /\ mine' = [mine EXCEPT ![e] = NoRecord]
        BY <1>3, <3>2 DEF ShutdownMarks
      <4> QED BY <3>2, <4>1
    <3> QED BY <3>1, <3>2
  <2>5. RecordKept /\ (record.life = mine[e].life => record' = rec)
        /\ (record.life # mine[e].life => record' = record)
    <3> HIDE DEF rec
    <3> QED BY <2>1, <2>2, <2>3, SaveDoes DEF RecordKept
  <2>6. Turns' /\ \A f \in Executions : at'[f] = IF f = e THEN place ELSE at[f]
    <3> HIDE DEF rec
    <3> QED BY <2>1, <2>4, MovesInTurn DEF Creating
  <2>7. \A f \in Executions : f # e => mine'[f] = mine[f] BY <2>1, <2>4 DEF TypeOK
  <2> HIDE DEF rec
  <2>8. Added' BY <2>5, <2>6 DEF PlacesInv, Added, RecordKept
  <2>9. DeletesEnded' BY <2>5, <2>6, <2>7 DEF PlacesInv, DeletesEnded, RecordKept
  <2>10. ListedByWorker'
    <3>1. CASE place = "unlist" BY <2>6, <3>1 DEF ListedByWorker
    <3>2. CASE place = "done"
      <4>1. ~Marking(e) BY <2>4, <3>2 DEF Marking
      <4> QED
        BY <2>1, <2>5, <2>6, <2>7, <4>1 DEF PlacesInv, ListedByWorker, Marking, RecordKept, Creating
    <3> QED BY <3>1, <3>2
  <2>11. LivingHasWorker'
    <3>1. CASE place = "unlist" BY <2>2, <2>4, <2>5, <3>1 DEF LivingHasWorker
    <3>2. CASE place = "done"
      <4>1. ~Marking(e) BY <2>4, <3>2 DEF Marking
      <4> QED
        BY <2>1, <2>5, <2>6, <2>7, <4>1 DEF PlacesInv, LivingHasWorker, Marking, RecordKept
    <3> QED BY <3>1, <3>2
  <2> QED BY <2>6, <2>8, <2>9, <2>10, <2>11 DEF PlacesInv
<1>4. CASE ShutdownUnlists(e) \/ ShutdownEnsures(e) \/ ShutdownKills(e)
  <2>1. PICK place \in {"done", "ensure", "kill"} :
          /\ at' = [at EXCEPT ![e] = place] /\ UNCHANGED <<record, revived>>
          /\ at[e] \in {"unlist", "ensure", "kill"}
          /\ \A f \in Executions : f # e => mine'[f] = mine[f]
          /\ listed' = FALSE \/ (listed' = listed /\ at[e] # "unlist")
    <3>1. CASE ShutdownUnlists(e)
      <4>1. /\ UNCHANGED <<record, revived>> /\ at[e] = "unlist" /\ listed' = FALSE
            /\ mine' = [mine EXCEPT ![e] = NoRecord]
            /\ at' = [at EXCEPT ![e] = "done"] \/ at' = [at EXCEPT ![e] = "ensure"]
        BY <3>1 DEF ShutdownUnlists
      <4> QED BY <4>1 DEF TypeInv, TypeOK
    <3>2. CASE ShutdownEnsures(e)
      <4>1. /\ UNCHANGED <<store, mine>> /\ at[e] = "ensure" /\ at' = [at EXCEPT ![e] = "kill"]
        BY <3>2 DEF ShutdownEnsures
      <4> QED BY <4>1 DEF store
    <3>3. CASE ShutdownKills(e)
      <4>1. /\ UNCHANGED <<store, mine>> /\ at[e] = "kill" /\ at' = [at EXCEPT ![e] = "done"]
        BY <3>3 DEF ShutdownKills
      <4> QED BY <4>1 DEF store
    <3> QED BY <1>4, <3>1, <3>2, <3>3
  <2>2. Turns' /\ \A f \in Executions : at'[f] = IF f = e THEN place ELSE at[f]
    <3>1. at[e] # "new" /\ place # "new" /\ place \notin Creating BY <2>1 DEF Creating
    <3>2. at' = [at EXCEPT ![e] = place] BY <2>1
    <3> QED BY <3>1, <3>2, MovesInTurn
  <2>3. Added' /\ DeletesEnded' BY <2>1, <2>2 DEF PlacesInv, Added, DeletesEnded
  <2>4. ListedByWorker' BY <2>1, <2>2 DEF PlacesInv, ListedByWorker, Marking, Creating
  <2>5. LivingHasWorker' BY <2>1, <2>2 DEF PlacesInv, LivingHasWorker, Marking
  <2> QED BY <2>2, <2>3, <2>4, <2>5 DEF PlacesInv
<1> QED BY <1>1, <1>2, <1>3, <1>4 DEF Shutdown

\* PlacesInv holds.
LEMMA PlacesHold == Spec => [](TypeInv /\ PlacesInv)
<1>1. Init => PlacesInv
  BY Names
  DEF Init, PlacesInv, Turns, Added, DeletesEnded, ListedByWorker, LivingHasWorker, Creating
<1>2. TypeInv /\ PlacesInv /\ [Next]_vars => PlacesInv'
  <2> SUFFICES ASSUME TypeInv, PlacesInv, [Next]_vars PROVE PlacesInv'
    OBVIOUS
  <2>1. CASE UNCHANGED vars BY <2>1, KeptPlaces DEF vars, store, RecordKept
  <2>2. CASE Next
    BY <2>2, BeginPlaces, CreatePlaces, ShutdownPlaces, ManagersKeep, KeptPlaces DEF Next, Proceed
  <2> QED BY <2>1, <2>2
<1> QED BY <1>1, <1>2, RegistryTypesHold, PTL DEF Spec

\* Unlisted: the workspace counts no invocation as having a sandbox when none of its
\* executions is at work.
THEOREM NotListedAtRest == Spec => []Unlisted
<1>1. PlacesInv => Unlisted
  BY DEF PlacesInv, ListedByWorker, Marking, Creating, Unlisted, Quiet
<1> QED BY <1>1, PlacesHold, PTL

\* EndedRecord: what the executions leave behind is a record that ended, unless a late
\* update revived it.
THEOREM RecordsEnd == Spec => []EndedRecord
<1>1. TypeInv /\ PlacesInv => EndedRecord
  BY DEF PlacesInv, LivingHasWorker, Marking, EndedRecord, Quiet, NoRecord
<1> QED BY <1>1, PlacesHold, PTL

----------------------------------------------------------------------------
(* An execution and its own sandbox, as long as executions stay apart.     *)

\* The manager an execution makes for its own sandbox, and the one it makes for a sandbox
\* that it finds in the record.
Sb(e) == <<e, "create">>
Sd(e) == <<e, "shutdown">>

\* Apart from each other, executions join nothing: a manager starts the sandbox of its
\* execution, and what it writes is of that execution's lifecycle.
OwnManager(e) ==
  /\ ~Used(Sd(e))
  /\ Used(Sb(e)) => man[Sb(e)].life = e /\ man[Sb(e)].proc = Home[e] /\ man[Sb(e)].from = None
  /\ init[Sb(e)] \in Writing => seen[Sb(e)].life = e
  /\ init[Sb(e)] \in {"catch", "update", "save"} => seen[Sb(e)].status \in {"ready", "error"}
  /\ notice[Sb(e)] = "save" => noticed[Sb(e)].life = e /\ noticed[Sb(e)].status \notin Terminal

OwnPlaces(e) ==
  /\ at[e] \in {"mark", "unlist"} => mine[e].life = e
  /\ at[e] \in {"new", "set", "added", "exists", "delete"} => ~Used(Sb(e))
  /\ record.life = e => at[e] = "added" \/ Used(Sb(e))
  /\ at[e] \in {"using", "ensure", "kill"} => uses[e] = Sb(e)
  /\ at[e] = "ending" => uses[e] = Sb(e) \/ ~Used(Sb(e))
  /\ at[e] \in {"mark", "unlist"} => uses[e] = Sb(e) \/ (uses[e] = None /\ man[Sb(e)].state = "failed")

\* While the execution is at work, its record ends only when its sandbox failed, and
\* nothing closes the sandbox; another record is there only after that.
AtWork(e) ==
  /\ at[e] = "added" => record.status \notin Terminal
  /\ at[e] \in {"using", "ending", "mark"} =>
       record.life = e \/ man[Sb(e)].state \in {"unused", "failed"}
  /\ at[e] \in {"using", "ending", "mark"} /\ record.life = e =>
       /\ record.status \in Terminal => record.status = "error" /\ man[Sb(e)].state = "failed"
       /\ at[e] = "mark" \/ cache[Home[e]] = Sb(e) \/ record.status = "error"
       /\ init[Sb(e)] \notin {"close", "mark", "unlist"}
       /\ init[Sb(e)] \in {"catch", "update", "save"} =>
            record.status \notin Terminal
            /\ (seen[Sb(e)].status = "ready" \/ man[Sb(e)].state = "failed")
       /\ init[Sb(e)] = "ensure" => record.status \notin Terminal
       /\ init[Sb(e)] = "retire" => record.status = "error"

\* A sandbox runs when its manager says so; it is not given up while it starts, nor begun
\* again when its execution is over.
Runs(e) ==
  /\ Sb(e) \in running <=> man[Sb(e)].state \in {"booting", "ready"}
  /\ Sd(e) \notin running
  /\ man[Sb(e)].state # "orphan"
  /\ init[Sb(e)] \in {"catch", "update", "save", "close", "retire"} =>
       man[Sb(e)].state \in {"new", "ready", "failed"}
  /\ init[Sb(e)] \in {"ensure", "catch", "update", "save", "close", "retire"}
       /\ man[Sb(e)].state = "new" => at[e] = "done"
  /\ at[e] = "kill" => man[Sb(e)].state \in {"new", "ready", "failed"}
  /\ at[e] = "done" => man[Sb(e)].state \in {"new", "failed", "unused"}
  /\ init[Sb(e)] = "catch" => man[Sb(e)].state = "failed"

OwnExec(e) == OwnManager(e) /\ OwnPlaces(e) /\ AtWork(e) /\ Runs(e)
Own == Apart => \A e \in Executions : OwnExec(e)

OwnInv == TypeInv /\ PlacesInv /\ \A e \in Executions : OwnExec(e)

\* Every execution has a manager of its own, and one to shut down with.
LEMMA Sandboxes ==
  /\ \A e \in Executions : Sb(e) \in Managers /\ Sd(e) \in Managers /\ Sd(e) # Sb(e)
  /\ \A e, f \in Executions : e # f => Sb(e) # Sb(f) /\ Sd(e) # Sb(f)
  /\ \A m \in Managers : m[1] \in Executions /\ m \in {Sb(m[1]), Sd(m[1])}
  /\ \A e \in Executions : Sb(e) # None
BY Names DEF Sb, Sd, Managers

\* A step leaves an execution its record until that has ended, and the cache as well.
Leaves(f) ==
  /\ \/ record' = record
     \/ record.life # f /\ record'.life # f
     \/ record.status \in Terminal /\ record'.life # f
  /\ record.life = f /\ record.status \notin Terminal /\ cache[Home[f]] = Sb(f)
       => cache'[Home[f]] = Sb(f)

\* What an execution's step, or its manager's, leaves to the others.
Only(e) ==
  /\ \A f \in Executions : f # e => at'[f] = at[f] /\ uses'[f] = uses[f] /\ mine'[f] = mine[f]
  /\ \A m \in Managers : m # Sb(e) =>
       /\ man'[m] = man[m] /\ init'[m] = init[m] /\ seen'[m] = seen[m]
       /\ notice'[m] = notice[m] /\ noticed'[m] = noticed[m]
       /\ m \in running' <=> m \in running
  /\ \A f \in Executions : f # e => Leaves(f)

\* A step about one execution keeps what the others own.
LEMMA OthersOwn ==
  ASSUME OwnInv, NEW e \in Executions, Only(e), NEW f \in Executions, f # e
  PROVE  OwnExec(f)'
<1>0. Sb(f) \in Managers /\ Sd(f) \in Managers /\ Sb(f) # Sb(e) /\ Sd(f) # Sb(e)
  BY Sandboxes
<1>1. /\ at'[f] = at[f] /\ uses'[f] = uses[f] /\ mine'[f] = mine[f]
      /\ man'[Sb(f)] = man[Sb(f)] /\ init'[Sb(f)] = init[Sb(f)] /\ seen'[Sb(f)] = seen[Sb(f)]
      /\ notice'[Sb(f)] = notice[Sb(f)] /\ noticed'[Sb(f)] = noticed[Sb(f)]
      /\ Sb(f) \in running' <=> Sb(f) \in running
      /\ man'[Sd(f)] = man[Sd(f)] /\ (Sd(f) \in running' <=> Sd(f) \in running)
      /\ Leaves(f)
  BY <1>0 DEF Only
<1>2. OwnManager(f) /\ OwnPlaces(f) /\ AtWork(f) /\ Runs(f) BY DEF OwnInv, OwnExec
<1>3. OwnManager(f)' BY <1>1, <1>2 DEF OwnManager, Used
<1>4. OwnPlaces(f)' BY <1>1, <1>2 DEF OwnPlaces, Leaves, Used
<1>a. at[f] = "added" => record.life = f
  BY <1>1 DEF OwnInv, PlacesInv, Added
<1>5. AtWork(f)'
  <2>1. at[f] = "added" => record.status \notin Terminal /\ record' = record
    BY <1>1, <1>2, <1>a DEF AtWork, Leaves
  <2>2. ASSUME at[f] \in {"using", "ending", "mark"}, record'.life # f
        PROVE  man[Sb(f)].state \in {"unused", "failed"}
    BY <1>1, <1>2, <2>2 DEF AtWork, Leaves
  <2>3. ASSUME at[f] \in {"using", "ending", "mark"}, record'.life = f
        PROVE  record' = record /\ (at[f] = "mark" \/ cache'[Home[f]] = Sb(f) \/ record.status = "error")
    BY <1>1, <1>2, <2>3 DEF AtWork, Leaves
  <2> QED BY <1>1, <1>2, <2>1, <2>2, <2>3 DEF AtWork
<1>6. Runs(f)' BY <1>1, <1>2 DEF Runs
<1> QED BY <1>3, <1>4, <1>5, <1>6 DEF OwnExec

\* A manager at work is the one of its execution's own sandbox.
LEMMA OwnedBy ==
  ASSUME OwnInv, NEW m \in Managers, Used(m)
  PROVE  m[1] \in Executions /\ m = Sb(m[1])
BY Sandboxes DEF OwnInv, OwnExec, OwnManager

\* What OwnInv says of one execution.
LEMMA OwnFacts ==
  ASSUME OwnInv, NEW e \in Executions
  PROVE  /\ TypeInv /\ TypeOK /\ Home[e] \in Processes
         /\ OwnManager(e) /\ OwnPlaces(e) /\ AtWork(e) /\ Runs(e)
         /\ Sb(e) \in Managers /\ Sd(e) \in Managers /\ man \in [Managers -> Mans]
         /\ init[Sb(e)] # "none" => Used(Sb(e))
         /\ notice[Sb(e)] # "none" => Used(Sb(e))
BY Sandboxes, HomeAssumption DEF OwnInv, OwnExec, TypeInv, TypeOK, ManagerShape, Mans

\* The record of another execution at work is not the one that is written.
LEMMA OthersRecord ==
  ASSUME OwnInv, NEW e \in Executions, NEW rec, rec.life = e, Save(rec)
  PROVE  /\ \A f \in Executions :
              f # e /\ (cache[Home[f]] = Sb(f) => cache'[Home[f]] = Sb(f)) => Leaves(f)
         /\ record'.life = record.life
         /\ record.life # e => record' = record
         /\ record.life = e => record' = rec
         /\ ~revived' => ~(record.life = e /\ record.status \in Terminal /\ rec.status \notin Terminal)
BY DEF Save, Leaves

\* Clearing the cache for one execution leaves the others cached.
LEMMA OthersCache ==
  ASSUME OwnInv, NEW e \in Executions, ClearCache(Home[e], e)
  PROVE  \A f \in Executions : f # e /\ cache[Home[f]] = Sb(f) => cache'[Home[f]] = Sb(f)
<1> SUFFICES ASSUME NEW f \in Executions, f # e, cache[Home[f]] = Sb(f)
    PROVE  cache'[Home[f]] = Sb(f)
  OBVIOUS
<1>1. TypeOK /\ Home[f] \in Processes /\ Home[e] \in Processes /\ Sb(f) # None /\ Sb(f) \in Managers
  BY Sandboxes, OwnFacts
<1>2. Used(Sb(f)) BY <1>1 DEF OwnInv, TypeInv, CacheShape
<1>3. man[Sb(f)].life = f BY <1>2 DEF OwnInv, OwnExec, OwnManager
<1> QED BY <1>1, <1>3, ClearDoes

\* Steps of the sandbox.
LEMMA BootOwn ==
  ASSUME OwnInv, NEW e \in Executions, Boot(Sb(e))
  PROVE  OwnExec(e)' /\ Only(e)
<1> DEFINE s == Sb(e)
<1>0. /\ TypeInv /\ OwnManager(e) /\ OwnPlaces(e) /\ AtWork(e) /\ Runs(e) /\ s \in Managers
      /\ Sd(e) \in Managers /\ Sd(e) # s
  BY OwnFacts, Sandboxes
<1>u. Used(s) BY DEF Boot, SandboxStarts, SandboxReady, SandboxFails, Used
<1>1. man[s].from = None /\ Sandbox(s) = s
  BY <1>0, <1>u DEF OwnManager, Sandbox
<1> HIDE DEF s
<1>2. PICK state \in {"booting", "ready", "failed"} :
        /\ man' = [man EXCEPT ![s].state = state]
        /\ man[s].state \in {"starting", "booting"}
        /\ running' = IF state = "failed" THEN running \ {s} ELSE running \union {s}
        /\ notice' = notice \/ notice' = [notice EXCEPT ![s] = "read"]
        /\ UNCHANGED <<store, local, starts, noticed, executions>>
  <2>1. CASE SandboxStarts(s)
    <3>1. man[s].state = "starting" BY <2>1, <1>0 DEF SandboxStarts, Runs, s
    <3>2. man' = [man EXCEPT ![s].state = "booting"] /\ running' = running \union {s}
      BY <2>1, <1>1, <3>1 DEF SandboxStarts
    <3> QED BY <2>1, <3>1, <3>2 DEF SandboxStarts
  <2>2. CASE SandboxReady(s)
    <3>1. s \in running BY <2>2, <1>0 DEF SandboxReady, Runs, s
    <3> QED BY <2>2, <3>1 DEF SandboxReady, notices
  <2>3. CASE SandboxFails(s) BY <2>3, <1>1 DEF SandboxFails, notices
  <2> QED BY <2>1, <2>2, <2>3 DEF Boot, s
<1>3. /\ \A n \in Managers : n # s => man'[n] = man[n]
      /\ man'[s].life = man[s].life /\ man'[s].proc = man[s].proc /\ man'[s].from = man[s].from
      /\ man'[s].state = state
  BY <1>0, <1>u, <1>2, StateTyped
<1>4. /\ \A n \in Managers : n # s => notice'[n] = notice[n]
      /\ notice'[s] \in {notice[s], "read"}
      /\ \A n \in Managers : n # s => (n \in running' <=> n \in running)
      /\ s \in running' <=> state # "failed"
  BY <1>0, <1>2 DEF TypeInv, TypeOK
<1>5. /\ UNCHANGED <<record, cache, init, seen, noticed, at, uses, mine>>
  BY <1>2 DEF store, local, starts, executions
<1>6. Only(e) BY <1>3, <1>4, <1>5 DEF Only, Leaves, s
<1>7. OwnManager(e)'
  BY <1>0, <1>u, <1>3, <1>4, <1>5 DEF OwnManager, Used, s
<1>8. OwnPlaces(e)'
  BY <1>0, <1>u, <1>2, <1>3, <1>5 DEF OwnPlaces, Used, s
<1>9. AtWork(e)' BY <1>0, <1>2, <1>3, <1>5 DEF AtWork, Runs, s
<1>10. Runs(e)' BY <1>0, <1>2, <1>3, <1>4, <1>5 DEF Runs, s
<1> QED BY <1>6, <1>7, <1>8, <1>9, <1>10 DEF OwnExec

\* Its id is written down.
LEMMA NoticeOwn ==
  ASSUME OwnInv, NEW e \in Executions, Notice(Sb(e)), ~revived'
  PROVE  OwnExec(e)' /\ Only(e)
<1> DEFINE s == Sb(e)
<1>0. /\ TypeInv /\ OwnManager(e) /\ OwnPlaces(e) /\ AtWork(e) /\ Runs(e) /\ s \in Managers
      /\ Sd(e) \in Managers /\ Sd(e) # s
  BY OwnFacts, Sandboxes
<1>u. Used(s) BY OwnFacts DEF Notice, NoticeReads, NoticeSaves
<1>l. man[s].life = e BY <1>0, <1>u DEF OwnManager
<1>t. /\ notice \in [Managers -> {"none", "read", "save"}]
      /\ noticed \in [Managers -> Records \union {NoRecord}]
  BY <1>0 DEF TypeInv, TypeOK
<1> HIDE DEF s
<1>1. CASE NoticeReads(s)
  <2>1. PICK rec \in Records \union {NoRecord}, word \in {"none", "save"} :
          /\ notice' = [notice EXCEPT ![s] = word] /\ noticed' = [noticed EXCEPT ![s] = rec]
          /\ word = "save" => rec.life = e /\ rec.status \notin Terminal
    <3>1. CASE Updatable(e)
      <4>1. notice' = [notice EXCEPT ![s] = "save"] /\ noticed' = [noticed EXCEPT ![s] = record]
        BY <1>1, <1>l, <3>1 DEF NoticeReads
      <4>2. record.life = e /\ record.status \notin Terminal /\ record \in Records \union {NoRecord}
        BY <1>0, <3>1 DEF Updatable, TypeInv, TypeOK
      <4> QED BY <4>1, <4>2
    <3>2. CASE ~Updatable(e)
      <4>1. notice' = [notice EXCEPT ![s] = "none"] /\ noticed' = [noticed EXCEPT ![s] = NoRecord]
        BY <1>1, <1>l, <3>2 DEF NoticeReads
      <4> QED BY <4>1
    <3> QED BY <3>1, <3>2
  <2>2. UNCHANGED <<record, cache, man, init, seen, at, uses, mine, running>>
    BY <1>1 DEF NoticeReads, store, local, starts, executions
  <2>3. /\ \A n \in Managers : n # s => notice'[n] = notice[n] /\ noticed'[n] = noticed[n]
        /\ notice'[s] = word /\ noticed'[s] = rec
    BY <1>0, <1>t, <2>1
  <2>4. Only(e) BY <2>2, <2>3 DEF Only, Leaves, s
  <2>5. OwnManager(e)' BY <1>0, <2>1, <2>2, <2>3 DEF OwnManager, Used, s
  <2>6. OwnPlaces(e)' /\ AtWork(e)' /\ Runs(e)'
    BY <1>0, <2>2 DEF OwnPlaces, AtWork, Runs, Used
  <2> QED BY <2>4, <2>5, <2>6 DEF OwnExec
<1>2. CASE NoticeSaves(s)
  <2> DEFINE rec == [noticed[s] EXCEPT !.sandbox = Sandbox(s)]
  <2>1. noticed[s].life = e /\ noticed[s].status \notin Terminal /\ noticed[s] \in Records
    BY <1>0, <1>2 DEF NoticeSaves, OwnManager, TypeInv, ManagerShape, s
  <2>2. rec.life = e /\ rec.status \notin Terminal BY <2>1 DEF Records
  <2>3. Save(rec) /\ UNCHANGED <<cache, man, init, seen, at, uses, mine, running>>
        /\ notice' = [notice EXCEPT ![s] = "none"] /\ noticed' = [noticed EXCEPT ![s] = NoRecord]
    BY <1>2 DEF NoticeSaves, local, starts, executions
  <2> HIDE DEF rec
  <2>4. /\ \A n \in Managers : n # s => notice'[n] = notice[n] /\ noticed'[n] = noticed[n]
        /\ notice'[s] = "none"
    BY <1>0, <1>t, <2>3
  <2>5. /\ \A f \in Executions : f # e => Leaves(f)
        /\ record.life = e => record' = rec /\ record.status \notin Terminal
        /\ record'.life = record.life
    BY <2>2, <2>3, OthersRecord
  <2>6. Only(e) BY <2>3, <2>4, <2>5 DEF Only, s
  <2>7. OwnManager(e)' BY <1>0, <2>3, <2>4 DEF OwnManager, Used, s
  <2>8. OwnPlaces(e)' BY <1>0, <2>2, <2>3, <2>5 DEF OwnPlaces, Used, s
  <2>9. AtWork(e)'
    BY <1>0, <1>u, <2>2, <2>3, <2>5 DEF AtWork, OwnPlaces, Terminal, s
  <2>10. Runs(e)' BY <1>0, <2>3 DEF Runs, s
  <2> QED BY <2>6, <2>7, <2>8, <2>9, <2>10 DEF OwnExec
<1> QED BY <1>1, <1>2 DEF Notice, s

\* Its initialization, that ends or goes on.
LEMMA InitEndsOwn ==
  ASSUME OwnInv, NEW e \in Executions, Used(Sb(e)), InitEnds(Sb(e))
  PROVE  /\ init'[Sb(e)] = "over"
         /\ \A n \in Managers : n # Sb(e) => init'[n] = init[n] /\ seen'[n] = seen[n]
         /\ \A f \in Executions : f # e /\ cache[Home[f]] = Sb(f) => cache'[Home[f]] = Sb(f)
<1>1. man[Sb(e)].life = e /\ man[Sb(e)].proc = Home[e] /\ Sb(e) \in Managers /\ TypeOK
  BY OwnFacts DEF OwnManager
<1>2. ClearCache(Home[e], e) BY <1>1 DEF InitEnds
<1>3. init' = [init EXCEPT ![Sb(e)] = "over"] /\ seen' = [seen EXCEPT ![Sb(e)] = NoRecord]
  BY DEF InitEnds
<1> QED BY <1>1, <1>2, <1>3, OthersCache DEF TypeOK

\* A sandbox that its manager gives up no longer runs.
LEMMA ShutDownOwn ==
  ASSUME OwnInv, NEW e \in Executions, Used(Sb(e)), ShutDown(Sb(e)),
         man[Sb(e)].state \in {"new", "ready", "failed"}
  PROVE  /\ \A n \in Managers : n # Sb(e) => man'[n] = man[n] /\ (n \in running' <=> n \in running)
         /\ man'[Sb(e)].life = man[Sb(e)].life /\ man'[Sb(e)].proc = man[Sb(e)].proc
         /\ man'[Sb(e)].from = man[Sb(e)].from
         /\ man'[Sb(e)].state = IF man[Sb(e)].state = "failed" THEN "failed" ELSE "new"
         /\ Sb(e) \notin running'
<1>1. man[Sb(e)].from = None /\ Sb(e) \in Managers /\ TypeOK /\ Runs(e)
  BY OwnFacts DEF OwnManager
<1>2. Sandbox(Sb(e)) = Sb(e) BY <1>1 DEF Sandbox
<1> QED BY <1>1, <1>2, ShutDownDoes DEF ShutState, Runs

\* What executions own after Init.
LEMMA InitOwn ==
  ASSUME OwnInv, NEW e \in Executions, InitTask(Sb(e)), ~revived'
  PROVE  OwnExec(e)' /\ Only(e)
<1> DEFINE s == Sb(e)
           working == at[e] \in {"using", "ending", "mark"} /\ record.life = e
<1>0. /\ TypeInv /\ OwnManager(e) /\ OwnPlaces(e) /\ AtWork(e) /\ Runs(e) /\ s \in Managers
      /\ Sd(e) \in Managers /\ Sd(e) # s
  BY OwnFacts, Sandboxes
<1>n. init[s] # "none"
  BY DEF InitTask, InitSettles, CatchReads, InitReads, InitSaves, Retire, Close, CloseMarks,
         CloseUnlists
<1>u. Used(s) BY <1>n, OwnFacts
<1>l. /\ man[s].life = e /\ man[s].proc = Home[e] /\ man[s].from = None
      /\ Used(s)' <=> man'[s].state # "unused"
  BY <1>0, <1>u DEF OwnManager, Used
<1>t. /\ init \in [Managers -> {"none", "ensure", "catch", "update", "save", "retire",
                                "close", "mark", "unlist", "over"}]
      /\ seen \in [Managers -> Records \union {NoRecord}]
      /\ init[s] \in Writing => seen[s] \in Records /\ seen[s].life = e
  BY <1>0 DEF TypeInv, TypeOK, ManagerShape, Writing, OwnManager
<1>w. /\ at[e] \in {"using", "ending", "mark"} /\ ~working => man[s].state = "failed"
      /\ at[e] # "added"
  BY <1>0, <1>u DEF AtWork, OwnPlaces, Used, s
<1> HIDE DEF s
<1>1. CASE InitSettles(s)
  <2>1. PICK rec \in Records \union {NoRecord}, place \in {"catch", "update"} :
          /\ init[s] = "ensure" /\ man[s].state \in {"new", "ready", "failed"}
          /\ init' = [init EXCEPT ![s] = place] /\ seen' = [seen EXCEPT ![s] = rec]
          /\ rec.life = e
          /\ rec.status = IF man[s].state = "failed" THEN "error" ELSE "ready"
          /\ place = "catch" <=> man[s].state = "failed"
    <3> DEFINE failed == man[s].state = "failed"
               rec == [life |-> e, status |-> IF failed THEN "error" ELSE "ready",
                       sandbox |-> IF man[s].state = "ready" THEN Sandbox(s) ELSE None]
    <3>1. /\ init[s] = "ensure" /\ man[s].state \in {"new", "ready", "failed"}
          /\ init' = [init EXCEPT ![s] = IF failed THEN "catch" ELSE "update"]
          /\ seen' = [seen EXCEPT ![s] = rec]
      BY <1>1, <1>l DEF InitSettles
    <3>2. rec \in Records BY <1>0, <1>u, UsedTyped DEF Records, Statuses
    <3>3. rec.life = e /\ rec.status = IF failed THEN "error" ELSE "ready" OBVIOUS
    <3> HIDE DEF rec
    <3> QED BY <3>1, <3>2, <3>3
  <2>2. UNCHANGED <<record, cache, man, notice, noticed, at, uses, mine, running>>
    BY <1>1 DEF InitSettles, store, local, notices, executions
  <2>3. /\ \A n \in Managers : n # s => init'[n] = init[n] /\ seen'[n] = seen[n]
        /\ init'[s] = place /\ seen'[s] = rec
    BY <1>0, <1>t, <2>1
  <2>4. Only(e) BY <2>2, <2>3 DEF Only, Leaves, s
  <2>5. OwnManager(e)' BY <1>0, <2>1, <2>2, <2>3 DEF OwnManager, Used, s
  <2>6. OwnPlaces(e)' BY <1>0, <2>2 DEF OwnPlaces, Used
  <2>7. AtWork(e)' BY <1>0, <2>1, <2>2, <2>3 DEF AtWork, s
  <2>8. Runs(e)' BY <1>0, <2>1, <2>2, <2>3 DEF Runs, s
  <2> QED BY <2>4, <2>5, <2>6, <2>7, <2>8 DEF OwnExec
<1>2. CASE CatchReads(s)
  <2>1. /\ init[s] = "catch"
        /\ UNCHANGED <<record, man, notice, noticed, at, uses, mine, running>>
    BY <1>2 DEF CatchReads, store, notices, executions
  <2>2. CASE Updatable(e)
    <3>1. init' = [init EXCEPT ![s] = "update"] /\ UNCHANGED <<cache, seen>>
      BY <1>2, <1>l, <2>2 DEF CatchReads, local
    <3>2. /\ \A n \in Managers : n # s => init'[n] = init[n]
          /\ init'[s] = "update"
      BY <1>0, <1>t, <3>1
    <3>4. Only(e) BY <2>1, <3>1, <3>2 DEF Only, Leaves, s
    <3>5. OwnManager(e)' BY <1>0, <2>1, <3>1, <3>2 DEF OwnManager, Used, Writing, s
    <3>6. OwnPlaces(e)' BY <1>0, <2>1 DEF OwnPlaces, Used
    <3>7. AtWork(e)' BY <1>0, <2>1, <3>1, <3>2 DEF AtWork, s
    <3>8. Runs(e)' BY <1>0, <2>1, <3>2 DEF Runs, s
    <3> QED BY <3>4, <3>5, <3>6, <3>7, <3>8 DEF OwnExec
  <2>3. CASE ~Updatable(e)
    <3>1. InitEnds(s) BY <1>2, <1>l, <2>3 DEF CatchReads
    <3>2. /\ init'[s] = "over"
          /\ \A n \in Managers : n # s => init'[n] = init[n] /\ seen'[n] = seen[n]
          /\ \A f \in Executions : f # e /\ cache[Home[f]] = Sb(f) => cache'[Home[f]] = Sb(f)
      BY <1>u, <3>1, InitEndsOwn DEF s
    <3>3. ~working BY <1>0, <1>w, <2>1, <2>3 DEF AtWork, Updatable, s
    <3>4. Only(e) BY <2>1, <3>2 DEF Only, Leaves, s
    <3>5. OwnManager(e)' BY <1>0, <2>1, <3>2 DEF OwnManager, Used, Writing, s
    <3>6. OwnPlaces(e)' BY <1>0, <2>1 DEF OwnPlaces, Used
    <3>7. AtWork(e)' BY <1>0, <1>w, <2>1, <3>2, <3>3 DEF AtWork, s
    <3>8. Runs(e)' BY <1>0, <2>1, <3>2 DEF Runs, s
    <3> QED BY <3>4, <3>5, <3>6, <3>7, <3>8 DEF OwnExec
  <2> QED BY <2>2, <2>3
<1>3. CASE InitReads(s)
  <2>1. /\ init[s] = "update" /\ seen[s] \in Records
        /\ UNCHANGED <<record, cache, man, notice, noticed, at, uses, mine, running>>
    BY <1>3, <1>t DEF InitReads, store, local, notices, executions, Writing
  <2>2. PICK place \in {"save", "close", "retire"}, rec \in Records \union {NoRecord} :
          /\ init' = [init EXCEPT ![s] = place] /\ seen' = [seen EXCEPT ![s] = rec]
          /\ place = "save" => rec = seen[s]
          /\ place = "close" => rec.life = e
          /\ place # "save" => ~Updatable(e)
    <3>1. CASE Updatable(e)
      <4>1. init' = [init EXCEPT ![s] = "save"] /\ seen' = seen
        BY <1>3, <1>l, <3>1 DEF InitReads
      <4>2. seen' = [seen EXCEPT ![s] = seen[s]] BY <1>t, <4>1
      <4> QED BY <2>1, <4>1, <4>2
    <3>2. CASE ~Updatable(e) /\ seen[s].status = "ready" /\ record.life = e
      <4>1. init' = [init EXCEPT ![s] = "close"] /\ seen' = [seen EXCEPT ![s] = record]
        BY <1>3, <1>l, <3>2 DEF InitReads
      <4>2. record \in Records \union {NoRecord} BY <1>0 DEF TypeInv, TypeOK
      <4> QED BY <3>2, <4>1, <4>2
    <3>3. CASE ~Updatable(e) /\ ~(seen[s].status = "ready" /\ record.life = e)
      <4>1. init' = [init EXCEPT ![s] = "retire"] /\ seen' = [seen EXCEPT ![s] = NoRecord]
        BY <1>3, <1>l, <3>3 DEF InitReads
      <4> QED BY <3>3, <4>1
    <3> QED BY <3>1, <3>2, <3>3
  <2>3. /\ \A n \in Managers : n # s => init'[n] = init[n] /\ seen'[n] = seen[n]
        /\ init'[s] = place /\ seen'[s] = rec
    BY <1>0, <1>t, <2>2
  <2>4. place # "save" => ~working BY <1>0, <1>w, <2>1, <2>2 DEF AtWork, Updatable, s
  <2>5. Only(e) BY <2>1, <2>3 DEF Only, Leaves, s
  <2>6. OwnManager(e)' BY <1>0, <1>t, <2>1, <2>2, <2>3 DEF OwnManager, Used, Writing, s
  <2>7. OwnPlaces(e)' BY <1>0, <2>1 DEF OwnPlaces, Used
  <2>8. AtWork(e)' BY <1>0, <1>w, <2>1, <2>2, <2>3, <2>4 DEF AtWork, s
  <2>9. Runs(e)' BY <1>0, <2>1, <2>3 DEF Runs, s
  <2> QED BY <2>5, <2>6, <2>7, <2>8, <2>9 DEF OwnExec
<1>4. CASE InitSaves(s)
  <2>1. /\ init[s] = "save" /\ Save(seen[s]) /\ seen' = [seen EXCEPT ![s] = NoRecord]
        /\ UNCHANGED <<cache, man, notice, noticed, at, uses, mine, running>>
    BY <1>4 DEF InitSaves, notices, executions
  <2>2. /\ seen[s].life = e /\ seen[s].status \in {"ready", "error"}
    BY <1>0, <2>1 DEF OwnManager, Writing, s
  <2>3. PICK place \in {"retire", "over"} :
          /\ init' = [init EXCEPT ![s] = place]
          /\ place = "retire" => seen[s].status = "error" \/ record.life # e
    <3>1. CASE seen[s].status = "error" \/ record.life # e
      <4>1. init' = [init EXCEPT ![s] = "retire"] BY <1>4, <1>l, <3>1 DEF InitSaves
      <4> QED BY <3>1, <4>1
    <3>2. CASE ~(seen[s].status = "error" \/ record.life # e)
      <4>1. init' = [init EXCEPT ![s] = "over"] BY <1>4, <1>l, <3>2 DEF InitSaves
      <4> QED BY <4>1
    <3> QED BY <3>1, <3>2
  <2>4. /\ \A n \in Managers : n # s => init'[n] = init[n] /\ seen'[n] = seen[n]
        /\ init'[s] = place
    BY <1>0, <1>t, <2>1, <2>3
  <2>5. /\ \A f \in Executions : f # e => Leaves(f)
        /\ record'.life = record.life
        /\ record.life = e => record' = seen[s]
        /\ record.life # e => record' = record
    BY <2>1, <2>2, OthersRecord
  <2>6. Only(e) BY <2>1, <2>4, <2>5 DEF Only, s
  <2>7. OwnManager(e)' BY <1>0, <2>1, <2>4 DEF OwnManager, Used, Writing, s
  <2>8. OwnPlaces(e)' BY <1>0, <2>1, <2>2, <2>5 DEF OwnPlaces, Used
  <2>9. AtWork(e)'
    <3>1. working => record' = seen[s] /\ cache' = cache /\ record.status \notin Terminal
                     /\ (seen[s].status = "ready" \/ man[s].state = "failed")
      BY <1>0, <1>w, <2>1, <2>5 DEF AtWork, s
    <3> QED BY <1>0, <1>u, <1>w, <2>1, <2>2, <2>3, <2>4, <2>5, <3>1 DEF AtWork, Terminal, s
  <2>10. Runs(e)' BY <1>0, <2>1, <2>4 DEF Runs, s
  <2> QED BY <2>6, <2>7, <2>8, <2>9, <2>10 DEF OwnExec
<1>5. CASE Retire(s)
  <2>1. /\ init[s] = "retire" /\ ShutDown(s) /\ InitEnds(s)
        /\ UNCHANGED <<record, notice, noticed, at, uses, mine>>
    BY <1>5 DEF Retire, store, notices, executions
  <2>2. man[s].state \in {"new", "ready", "failed"} BY <1>0, <2>1 DEF Runs, s
  <2>3. /\ \A n \in Managers : n # s => man'[n] = man[n] /\ (n \in running' <=> n \in running)
        /\ man'[s].life = man[s].life /\ man'[s].proc = man[s].proc /\ man'[s].from = man[s].from
        /\ man'[s].state = IF man[s].state = "failed" THEN "failed" ELSE "new"
        /\ s \notin running'
    BY <1>u, <2>1, <2>2, ShutDownOwn DEF s
  <2>4. /\ init'[s] = "over"
        /\ \A n \in Managers : n # s => init'[n] = init[n] /\ seen'[n] = seen[n]
        /\ \A f \in Executions : f # e /\ cache[Home[f]] = Sb(f) => cache'[Home[f]] = Sb(f)
    BY <1>u, <2>1, InitEndsOwn DEF s
  <2>5. Only(e) BY <2>1, <2>3, <2>4 DEF Only, Leaves, s
  <2>6. OwnManager(e)' BY <1>0, <1>l, <2>1, <2>3, <2>4 DEF OwnManager, Used, Writing, s
  <2>7. OwnPlaces(e)' BY <1>0, <1>u, <2>1, <2>3 DEF OwnPlaces, Used, s
  <2>8. AtWork(e)'
    <3>1. working => record.status = "error" /\ man[s].state = "failed"
      BY <1>0, <2>1 DEF AtWork, Terminal, s
    <3> QED BY <1>0, <1>w, <2>1, <2>3, <2>4, <3>1 DEF AtWork, s
  <2>9. Runs(e)' BY <1>0, <2>1, <2>2, <2>3, <2>4 DEF Runs, s
  <2> QED BY <2>5, <2>6, <2>7, <2>8, <2>9 DEF OwnExec
<1>6. CASE Close(s)
  <2>1. /\ init[s] = "close" /\ ShutDown(s) /\ UNCHANGED <<record, notice, noticed, at, uses, mine>>
    BY <1>6 DEF Close, store, notices, executions
  <2>2. man[s].state \in {"new", "ready", "failed"} /\ ~working
    BY <1>0, <2>1 DEF Runs, AtWork, s
  <2>3. /\ \A n \in Managers : n # s => man'[n] = man[n] /\ (n \in running' <=> n \in running)
        /\ man'[s].life = man[s].life /\ man'[s].proc = man[s].proc /\ man'[s].from = man[s].from
        /\ man'[s].state = IF man[s].state = "failed" THEN "failed" ELSE "new"
        /\ s \notin running'
    BY <1>u, <2>1, <2>2, ShutDownOwn DEF s
  <2>4. /\ init'[s] = "over" \/ (init'[s] = "mark" /\ seen'[s] = seen[s])
        /\ \A n \in Managers : n # s => init'[n] = init[n] /\ seen'[n] = seen[n]
        /\ \A f \in Executions : f # e /\ cache[Home[f]] = Sb(f) => cache'[Home[f]] = Sb(f)
    <3>1. CASE seen[s].status = "error"
      <4>1. InitEnds(s) BY <1>6, <3>1 DEF Close
      <4> QED BY <1>u, <4>1, InitEndsOwn DEF s
    <3>2. CASE seen[s].status # "error"
      <4>1. init' = [init EXCEPT ![s] = "mark"] /\ UNCHANGED <<cache, seen>>
        BY <1>6, <3>2 DEF Close, local
      <4> QED BY <1>0, <1>t, <4>1
    <3> QED BY <3>1, <3>2
  <2>5. Only(e) BY <2>1, <2>3, <2>4 DEF Only, Leaves, s
  <2>6. OwnManager(e)' BY <1>0, <1>l, <1>t, <2>1, <2>3, <2>4 DEF OwnManager, Used, Writing, s
  <2>7. OwnPlaces(e)' BY <1>0, <1>u, <2>1, <2>3 DEF OwnPlaces, Used, s
  <2>8. AtWork(e)' BY <1>0, <1>w, <2>1, <2>2, <2>3 DEF AtWork, s
  <2>9. Runs(e)' BY <1>0, <2>1, <2>2, <2>3, <2>4 DEF Runs, s
  <2> QED BY <2>5, <2>6, <2>7, <2>8, <2>9 DEF OwnExec
<1>7. CASE CloseMarks(s) \/ CloseUnlists(s)
  <2>1. /\ init[s] \in {"mark", "unlist"}
        /\ UNCHANGED <<man, notice, noticed, at, uses, mine, running>>
    BY <1>7 DEF CloseMarks, CloseUnlists, notices, executions
  <2>2. ~working BY <1>0, <2>1 DEF AtWork, s
  <2>4. /\ init'[s] = "over" \/ (init'[s] = "unlist" /\ seen'[s] = seen[s])
        /\ \A n \in Managers : n # s => init'[n] = init[n] /\ seen'[n] = seen[n]
        /\ \A f \in Executions : f # e /\ cache[Home[f]] = Sb(f) => cache'[Home[f]] = Sb(f)
    <3>1. CASE InitEnds(s) BY <1>u, <3>1, InitEndsOwn DEF s
    <3>2. CASE ~InitEnds(s)
      <4>1. init' = [init EXCEPT ![s] = "unlist"] /\ UNCHANGED <<cache, seen>>
        BY <1>7, <3>2 DEF CloseMarks, CloseUnlists, local
      <4> QED BY <1>0, <1>t, <4>1
    <3> QED BY <3>1, <3>2
  <2>3. /\ \A f \in Executions : f # e => Leaves(f)
        /\ record'.life = record.life
    <3>1. CASE CloseMarks(s)
      <4> DEFINE rec == [seen[s] EXCEPT !.status = "shutdown"]
      <4>1. seen[s] \in Records /\ seen[s].life = e BY <1>t, <3>1 DEF CloseMarks, Writing
      <4>2. rec.life = e /\ Save(rec) BY <3>1, <4>1 DEF CloseMarks, Records
      <4> HIDE DEF rec
      <4> QED BY <2>4, <4>2, OthersRecord
    <3>2. CASE CloseUnlists(s) BY <2>4, <3>2 DEF CloseUnlists, Leaves
    <3> QED BY <1>7, <3>1, <3>2
  <2>5. Only(e) BY <2>1, <2>3, <2>4 DEF Only, s
  <2>6. OwnManager(e)' BY <1>0, <1>l, <1>t, <2>1, <2>4 DEF OwnManager, Used, Writing, s
  <2>7. OwnPlaces(e)' BY <1>0, <1>u, <2>1, <2>3 DEF OwnPlaces, Used, s
  <2>8. AtWork(e)' BY <1>0, <1>w, <2>1, <2>2, <2>3 DEF AtWork, s
  <2>9. Runs(e)' BY <1>0, <2>1, <2>4 DEF Runs, s
  <2> QED BY <2>5, <2>6, <2>7, <2>8, <2>9 DEF OwnExec
<1> QED BY <1>1, <1>2, <1>3, <1>4, <1>5, <1>6, <1>7 DEF InitTask, s

\* What the step of an execution has to leave alone.
LEMMA TurnOnly ==
  ASSUME NEW e \in Executions, \A f \in Executions : f # e => Leaves(f),
         \A f \in Executions : f # e => at'[f] = at[f] /\ uses'[f] = uses[f] /\ mine'[f] = mine[f],
         \A m \in Managers : m # Sb(e) =>
           /\ man'[m] = man[m] /\ init'[m] = init[m] /\ (m \in running' <=> m \in running),
         UNCHANGED <<seen, notices>>
  PROVE  Only(e)
BY DEF Only, notices

\* The record and the cache, when they are left alone.
LEMMA SameLeaves == UNCHANGED <<record, cache>> => \A f \in Executions : Leaves(f)
BY DEF Leaves

\* What executions own after Create.
LEMMA CreateOwn ==
  ASSUME OwnInv, NEW e \in Executions, Begin(e) \/ Create(e) \/ Use(e), Apart'
  PROVE  OwnExec(e)' /\ Only(e)
<1> DEFINE s == Sb(e)
<1>0. /\ TypeInv /\ OwnManager(e) /\ OwnPlaces(e) /\ AtWork(e) /\ Runs(e) /\ s \in Managers
      /\ Sd(e) \in Managers /\ Sd(e) # s /\ Home[e] \in Processes /\ TypeOK
      /\ s = <<e, "create">>
  BY OwnFacts, Sandboxes DEF Sb
<1>a. PlacesInv /\ record \in Records \union {NoRecord} /\ NoRecord.life = None /\ None \notin Executions
  BY Names DEF OwnInv, TypeInv, TypeOK, NoRecord
<1>t. /\ \A x : at' = [at EXCEPT ![e] = x] => at'[e] = x /\ \A f \in Executions : f # e => at'[f] = at[f]
      /\ \A x : uses' = [uses EXCEPT ![e] = x] =>
                uses'[e] = x /\ \A f \in Executions : f # e => uses'[f] = uses[f]
      /\ \A x : mine' = [mine EXCEPT ![e] = x] =>
                mine'[e] = x /\ \A f \in Executions : f # e => mine'[f] = mine[f]
  BY <1>0 DEF TypeOK
<1> HIDE DEF s
<1> USE DEF Goto
<1>1. CASE Begin(e)
  <2>1. PICK place \in {"set", "ending"} :
          /\ at[e] = "new" /\ at' = [at EXCEPT ![e] = place]
          /\ UNCHANGED <<record, cache, man, init, seen, notices, notice, noticed, uses, mine, running>>
    BY <1>1 DEF Begin, store, local, starts, notices
  <2>2. at'[e] = place /\ \A f \in Executions : f # e => at'[f] = at[f] BY <1>t, <2>1
  <2>3. Only(e) BY <2>1, <2>2, SameLeaves, TurnOnly
  <2>4. OwnManager(e)' BY <1>0, <2>1 DEF OwnManager, Used
  <2>5. OwnPlaces(e)' BY <1>0, <2>1, <2>2 DEF OwnPlaces, Used, s
  <2>6. AtWork(e)' BY <1>0, <2>1, <2>2 DEF AtWork, OwnPlaces, Used, s
  <2>7. Runs(e)' BY <1>0, <2>1, <2>2 DEF Runs
  <2> QED BY <2>3, <2>4, <2>5, <2>6, <2>7 DEF OwnExec
<1>2. CASE CreateSets(e)
  <2>1. PICK place \in {"added", "exists"} :
          /\ at' = [at EXCEPT ![e] = place] /\ at[e] = "set"
          /\ place = "added" => record'.life = e /\ record'.status = "initializing" /\ record = NoRecord
          /\ place = "exists" => record' = record
          /\ UNCHANGED <<cache, man, init, seen, notices, notice, noticed, uses, mine, running>>
    BY <1>2 DEF CreateSets, local, starts, notices
  <2>2. at'[e] = place /\ \A f \in Executions : f # e => at'[f] = at[f] BY <1>t, <2>1
  <2>3. \A f \in Executions : f # e => Leaves(f) BY <1>a, <2>1 DEF Leaves
  <2>4. Only(e) BY <2>1, <2>2, <2>3, TurnOnly
  <2>5. OwnManager(e)' BY <1>0, <2>1 DEF OwnManager, Used
  <2>6. OwnPlaces(e)' BY <1>0, <2>1, <2>2 DEF OwnPlaces, Used
  <2>7. AtWork(e)' BY <2>1, <2>2 DEF AtWork, Terminal
  <2>8. Runs(e)' BY <1>0, <2>1, <2>2 DEF Runs
  <2> QED BY <2>4, <2>5, <2>6, <2>7, <2>8 DEF OwnExec
<1>3. CASE CreateLists(e)
  <2> DEFINE rec == [life |-> e, status |-> "initializing", sandbox |-> None]
  <2>0. rec \in Records /\ rec.life = e /\ rec.sandbox = None BY DEF Records, Statuses
  <2>1. /\ Manage(Home[e], s, rec) /\ at[e] = "added"
        /\ at' = [at EXCEPT ![e] = "using"] /\ uses' = [uses EXCEPT ![e] = s]
        /\ UNCHANGED <<record, seen, notices, notice, noticed, mine, running>>
    BY <1>0, <1>3 DEF CreateLists, notices
  <2> HIDE DEF rec
  <2>2. /\ man' \in [Managers -> Mans]
        /\ \A n \in Managers : n # s => man'[n] = man[n]
        /\ man'[s].life = e /\ man'[s].proc = Home[e] /\ man'[s].from = None
        /\ man'[s].state \in {"new", "starting"}
        /\ cache' = [cache EXCEPT ![Home[e]] = s]
        /\ init' = init \/ init' = [init EXCEPT ![s] = "ensure"]
    BY <1>0, <2>0, <2>1, ManageDoes
  <2>3. /\ at'[e] = "using" /\ \A f \in Executions : f # e => at'[f] = at[f]
        /\ uses'[e] = s /\ \A f \in Executions : f # e => uses'[f] = uses[f]
    BY <1>t, <2>1
  <2>4. ~Used(s) /\ record.life = e /\ record.status \notin Terminal
    BY <1>0, <1>a, <2>1 DEF OwnPlaces, AtWork, PlacesInv, Added, s
  <2>5. init[s] = "none" /\ notice[s] = "none" /\ s \notin running
    BY <1>0, <2>4, OwnFacts DEF Runs, Used, s
  <2>6. cache'[Home[e]] = s BY <1>0, <2>2 DEF TypeOK
  <2>7. /\ init'[s] = "none" \/ (init'[s] = "ensure" /\ man'[s].state = "starting")
        /\ \A n \in Managers : n # s => init'[n] = init[n]
    <3> DEFINE ms == [man EXCEPT ![s] = [life |-> rec.life, proc |-> Home[e], from |-> rec.sandbox,
                                         state |-> "new"]]
    <3>1. Start(ms, Home[e], s, rec) BY <2>1 DEF Manage
    <3>2. ms[s].state = "new" /\ ms \in [Managers -> Mans]
      BY <1>0, <2>0, OwnFacts DEF Mans, Records
    <3> HIDE DEF ms
    <3>3. init' = init \/ (init' = [init EXCEPT ![s] = "ensure"] /\ man' = Ensured(ms, s))
      BY <3>1 DEF Start
    <3> QED BY <1>0, <2>5, <3>2, <3>3, EnsuredDoes DEF TypeOK
  <2>8. \A f \in Executions : f # e => Leaves(f) BY <2>1, <2>4 DEF Leaves
  <2>9. Only(e) BY <2>1, <2>2, <2>3, <2>7, <2>8, TurnOnly DEF s
  <2>10. OwnManager(e)' BY <1>0, <2>1, <2>2, <2>5, <2>7 DEF OwnManager, Used, Writing, s
  <2>11. OwnPlaces(e)' BY <2>1, <2>2, <2>3, <2>4 DEF OwnPlaces, Used, s
  <2>12. AtWork(e)' BY <2>1, <2>3, <2>4, <2>6, <2>7 DEF AtWork, s
  <2>13. Runs(e)' BY <1>0, <2>1, <2>2, <2>3, <2>5, <2>7 DEF Runs, s
  <2> QED BY <2>9, <2>10, <2>11, <2>12, <2>13 DEF OwnExec
<1>4. CASE CreateReads(e)
  <2>0. at[e] = "exists" /\ ~shared' BY <1>4 DEF CreateReads, Apart
  <2>8. ~(record # NoRecord /\ record.status \notin Terminal) BY <1>4, <2>0 DEF CreateReads
  <2>1. PICK place \in {"set", "delete"} :
          /\ at' = [at EXCEPT ![e] = place]
          /\ mine' = mine \/ mine' = [mine EXCEPT ![e] = record]
          /\ UNCHANGED <<record, man, init, seen, notices, notice, noticed, uses, running>>
          /\ cache' = cache \/ (record.status \in Terminal /\ ClearCache(Home[e], record.life))
    <3>1. CASE record = NoRecord
      <4>1. at' = [at EXCEPT ![e] = "set"] /\ mine' = mine
            /\ UNCHANGED <<record, cache, man, init, seen, notices, notice, noticed, uses, running>>
        BY <1>4, <3>1 DEF CreateReads, NoRecord, Terminal, store, local, notices
      <4> QED BY <4>1
    <3>2. CASE record # NoRecord
      <4>1. at' = [at EXCEPT ![e] = "delete"] /\ mine' = [mine EXCEPT ![e] = record]
            /\ UNCHANGED <<record, man, init, seen, notices, notice, noticed, uses, running>>
            /\ record.status \in Terminal /\ ClearCache(Home[e], record.life)
        BY <1>4, <2>8, <3>2 DEF CreateReads, store, notices
      <4> QED BY <4>1
    <3> QED BY <3>1, <3>2
  <2>2. /\ at'[e] = place /\ \A f \in Executions : f # e => at'[f] = at[f]
        /\ \A f \in Executions : f # e => mine'[f] = mine[f]
    BY <1>t, <2>1
  <2>9. \A f \in Executions : f # e => Leaves(f) BY <2>1 DEF Leaves
  <2>3. Only(e) BY <2>1, <2>2, <2>9, TurnOnly
  <2>4. OwnManager(e)' BY <1>0, <2>1 DEF OwnManager, Used
  <2>5. OwnPlaces(e)' BY <1>0, <2>0, <2>1, <2>2 DEF OwnPlaces, Used, s
  <2>6. AtWork(e)' BY <2>2 DEF AtWork
  <2>7. Runs(e)' BY <1>0, <2>0, <2>1, <2>2 DEF Runs
  <2> QED BY <2>3, <2>4, <2>5, <2>6, <2>7 DEF OwnExec
<1>5. CASE CreateDeletes(e)
  <2>1. /\ at[e] = "delete" /\ at' = [at EXCEPT ![e] = "set"] /\ mine' = [mine EXCEPT ![e] = NoRecord]
        /\ UNCHANGED <<cache, man, init, seen, notices, notice, noticed, uses, running>>
    BY <1>5 DEF CreateDeletes, local, starts, notices
  <2>2. /\ at'[e] = "set" /\ \A f \in Executions : f # e => at'[f] = at[f]
        /\ \A f \in Executions : f # e => mine'[f] = mine[f]
    BY <1>t, <2>1
  <2>8. record' = record \/ (record' = NoRecord /\ record.status \in Terminal)
    <3>1. ~revived BY <1>5 DEF CreateDeletes, Apart
    <3>2. record.life = mine[e].life => record.status \in Terminal
      BY <1>a, <2>1, <3>1 DEF PlacesInv, DeletesEnded
    <3> QED BY <1>5, <3>2 DEF CreateDeletes
  <2>9. \A f \in Executions : f # e => Leaves(f) BY <1>a, <2>1, <2>8 DEF Leaves
  <2>3. Only(e) BY <2>1, <2>2, <2>9, TurnOnly
  <2>4. OwnManager(e)' BY <1>0, <2>1 DEF OwnManager, Used
  <2>5. OwnPlaces(e)' BY <1>0, <1>a, <2>1, <2>2, <2>8 DEF OwnPlaces, Used
  <2>6. AtWork(e)' BY <2>2 DEF AtWork
  <2>7. Runs(e)' BY <1>0, <2>1, <2>2 DEF Runs
  <2> QED BY <2>3, <2>4, <2>5, <2>6, <2>7 DEF OwnExec
<1>6. CASE Use(e)
  <2>1. at[e] = "using" /\ uses[e] = s /\ man[s].state = "new" /\ Used(s)
    BY <1>0, <1>6 DEF Use, OwnPlaces, Used, s
  <2>2. /\ man' = [man EXCEPT ![s].state = "starting"]
        /\ UNCHANGED <<record, cache, init, seen, notices, notice, noticed, at, uses, mine, running>>
    BY <1>6, <2>1 DEF Use, Ensured, store, local, starts, notices, executions
  <2>3. /\ \A n \in Managers : n # s => man'[n] = man[n]
        /\ man'[s].life = man[s].life /\ man'[s].proc = man[s].proc /\ man'[s].from = man[s].from
        /\ man'[s].state = "starting"
    BY <1>0, <2>1, <2>2, StateTyped
  <2>4. Only(e) BY <2>2, <2>3, SameLeaves, TurnOnly DEF s
  <2>5. OwnManager(e)' BY <1>0, <2>1, <2>2, <2>3 DEF OwnManager, Used, s
  <2>6. OwnPlaces(e)' BY <1>0, <2>1, <2>2 DEF OwnPlaces, Used, s
  <2>7. AtWork(e)' BY <1>0, <2>1, <2>2, <2>3 DEF AtWork, OwnPlaces, s
  <2>8. Runs(e)' BY <1>0, <2>1, <2>2, <2>3 DEF Runs, s
  <2> QED BY <2>4, <2>5, <2>6, <2>7, <2>8 DEF OwnExec
<1> QED BY <1>1, <1>2, <1>3, <1>4, <1>5, <1>6 DEF Create

\* What executions own after Shutdown.
LEMMA ShutdownOwn ==
  ASSUME OwnInv, NEW e \in Executions, End(e) \/ Shutdown(e), Apart'
  PROVE  OwnExec(e)' /\ Only(e)
<1> DEFINE s == Sb(e)
<1>0. /\ TypeInv /\ OwnManager(e) /\ OwnPlaces(e) /\ AtWork(e) /\ Runs(e) /\ s \in Managers
      /\ Sd(e) \in Managers /\ Sd(e) # s /\ Home[e] \in Processes /\ TypeOK /\ s # None
  BY OwnFacts, Sandboxes
<1>a. /\ PlacesInv /\ record \in Records \union {NoRecord} /\ NoRecord.life = None
      /\ None \notin Executions
  BY Names DEF OwnInv, TypeInv, TypeOK, NoRecord
<1>t. /\ \A x : at' = [at EXCEPT ![e] = x] => at'[e] = x /\ \A f \in Executions : f # e => at'[f] = at[f]
      /\ \A x : uses' = [uses EXCEPT ![e] = x] =>
                uses'[e] = x /\ \A f \in Executions : f # e => uses'[f] = uses[f]
      /\ \A x : mine' = [mine EXCEPT ![e] = x] =>
                mine'[e] = x /\ \A f \in Executions : f # e => mine'[f] = mine[f]
  BY <1>0 DEF TypeOK
<1> HIDE DEF s
<1> USE DEF Goto
<1>1. CASE End(e)
  <2>1. /\ at[e] = "using" /\ at' = [at EXCEPT ![e] = "ending"]
        /\ UNCHANGED <<record, cache, man, init, seen, notices, notice, noticed, uses, mine, running>>
    BY <1>1 DEF End, store, local, starts, notices
  <2>2. at'[e] = "ending" /\ \A f \in Executions : f # e => at'[f] = at[f] BY <1>t, <2>1
  <2>3. Only(e) BY <2>1, <2>2, SameLeaves, TurnOnly
  <2>4. OwnManager(e)' BY <1>0, <2>1 DEF OwnManager, Used
  <2>5. OwnPlaces(e)' BY <1>0, <2>1, <2>2 DEF OwnPlaces, Used
  <2>6. AtWork(e)' BY <1>0, <2>1, <2>2 DEF AtWork
  <2>7. Runs(e)' BY <1>0, <2>1, <2>2 DEF Runs
  <2> QED BY <2>3, <2>4, <2>5, <2>6, <2>7 DEF OwnExec
<1>2. CASE ShutdownReads(e) /\ record = NoRecord
  <2>1. /\ at[e] = "ending" /\ at' = [at EXCEPT ![e] = "done"]
        /\ UNCHANGED <<record, man, init, seen, notices, notice, noticed, uses, mine, running>>
    BY <1>2 DEF ShutdownReads, NoRecord, store, starts, notices
  <2>2. at'[e] = "done" /\ \A f \in Executions : f # e => at'[f] = at[f] BY <1>t, <2>1
  <2>3. man[s].state \in {"unused", "failed"} BY <1>0, <1>a, <1>2, <2>1 DEF AtWork, s
  <2>4. \A f \in Executions : f # e => Leaves(f) BY <1>a, <1>2, <2>1 DEF Leaves
  <2>5. Only(e) BY <2>1, <2>2, <2>4, TurnOnly
  <2>6. OwnManager(e)' BY <1>0, <2>1 DEF OwnManager, Used
  <2>7. OwnPlaces(e)' BY <1>0, <2>1, <2>2 DEF OwnPlaces, Used
  <2>8. AtWork(e)' BY <2>2 DEF AtWork
  <2>9. Runs(e)' BY <1>0, <2>1, <2>2, <2>3 DEF Runs, s
  <2> QED BY <2>5, <2>6, <2>7, <2>8, <2>9 DEF OwnExec
<1>7. CASE ShutdownReads(e) /\ record # NoRecord
  <2>0. at[e] = "ending" /\ record # NoRecord /\ record.life = e
    BY <1>7 DEF ShutdownReads, Apart
  <2>1. /\ at[e] = "ending" /\ record # NoRecord /\ record.life = e /\ uses[e] = s /\ Used(s)
    BY <1>0, <2>0 DEF OwnPlaces, s
  <2>2. man[s].life = e
    BY <1>0, <2>1 DEF OwnManager, s
  <2>3. PICK m \in Managers \union {None} :
          /\ at' = [at EXCEPT ![e] = "mark"] /\ mine' = [mine EXCEPT ![e] = record]
          /\ uses' = [uses EXCEPT ![e] = m]
          /\ UNCHANGED <<record, cache, man, init, seen, notices, notice, noticed, running>>
          /\ m = s \/ (m = None /\ record.status = "error")
    <3>1. CASE record.status = "error"
      <4>1. /\ at' = [at EXCEPT ![e] = "mark"] /\ mine' = [mine EXCEPT ![e] = record]
            /\ uses' = [uses EXCEPT ![e] = None]
            /\ UNCHANGED <<record, cache, man, init, seen, notices, notice, noticed, running>>
        BY <1>7, <2>1, <3>1 DEF ShutdownReads, store, local, starts, notices
      <4> QED BY <3>1, <4>1
    <3>2. CASE record.status # "error"
      <4>1. cache[Home[e]] = s BY <1>0, <2>1, <3>2 DEF AtWork, s
      <4>2. Cached(Home[e], record.life) = s BY <1>0, <2>1, <2>2, <4>1 DEF Cached
      <4>3. /\ at' = [at EXCEPT ![e] = "mark"] /\ mine' = [mine EXCEPT ![e] = record]
            /\ uses' = [uses EXCEPT ![e] = s]
            /\ UNCHANGED <<record, cache, man, init, seen, notices, notice, noticed, running>>
        BY <1>0, <1>7, <2>1, <3>2, <4>2 DEF ShutdownReads, store, local, starts, notices
      <4> QED BY <1>0, <4>3
    <3> QED BY <3>1, <3>2
  <2>4. /\ at'[e] = "mark" /\ \A f \in Executions : f # e => at'[f] = at[f]
        /\ mine'[e] = record /\ \A f \in Executions : f # e => mine'[f] = mine[f]
        /\ uses'[e] = m /\ \A f \in Executions : f # e => uses'[f] = uses[f]
    BY <1>t, <2>3
  <2>5. Only(e) BY <2>3, <2>4, SameLeaves, TurnOnly
  <2>6. OwnManager(e)' BY <1>0, <2>3 DEF OwnManager, Used
  <2>7. OwnPlaces(e)'
    <3>1. record.status = "error" => man[s].state = "failed"
      BY <1>0, <2>1 DEF AtWork, Terminal, s
    <3> QED BY <1>0, <2>1, <2>3, <2>4, <3>1 DEF OwnPlaces, Used, s
  <2>8. AtWork(e)' BY <1>0, <2>1, <2>3, <2>4 DEF AtWork
  <2>9. Runs(e)' BY <1>0, <2>1, <2>3, <2>4 DEF Runs
  <2> QED BY <2>5, <2>6, <2>7, <2>8, <2>9 DEF OwnExec
<1>3. CASE ShutdownMarks(e)
  <2> DEFINE rec == [mine[e] EXCEPT !.status = IF @ = "error" THEN @ ELSE "shutdown"]
  <2>1. at[e] = "mark" /\ mine[e].life = e /\ mine[e] \in Records
    BY <1>0, <1>3 DEF ShutdownMarks, OwnPlaces, TypeInv, ExecutionShape
  <2>2. rec.life = e /\ Save(rec) BY <1>3, <2>1 DEF ShutdownMarks, Records
  <2> HIDE DEF rec
  <2>3. PICK place \in {"unlist", "done"} :
          /\ at' = [at EXCEPT ![e] = place] /\ (place = "unlist" <=> record.life = e)
          /\ mine' = mine \/ (place = "done" /\ mine' = [mine EXCEPT ![e] = NoRecord])
          /\ UNCHANGED <<man, init, seen, notices, notice, noticed, uses, running>>
          /\ cache' = cache \/ ClearCache(Home[e], e)
    <3>1. CASE record.life = e
      <4>1. /\ at' = [at EXCEPT ![e] = "unlist"] /\ mine' = mine
            /\ UNCHANGED <<cache, man, init, seen, notices, notice, noticed, uses, running>>
        BY <1>3, <2>1, <3>1 DEF ShutdownMarks, local, starts, notices
      <4> QED BY <3>1, <4>1
    <3>2. CASE record.life # e
      <4>1. /\ at' = [at EXCEPT ![e] = "done"] /\ mine' = [mine EXCEPT ![e] = NoRecord]
            /\ UNCHANGED <<man, init, seen, notices, notice, noticed, uses, running>>
            /\ ClearCache(Home[e], e)
        BY <1>3, <2>1, <3>2 DEF ShutdownMarks, starts, notices
      <4> QED BY <3>2, <4>1
    <3> QED BY <3>1, <3>2
  <2>4. /\ at'[e] = place /\ \A f \in Executions : f # e => at'[f] = at[f]
        /\ place = "unlist" => mine' = mine
        /\ \A f \in Executions : f # e => mine'[f] = mine[f]
    BY <1>t, <2>3
  <2>5. \A f \in Executions : f # e /\ cache[Home[f]] = Sb(f) => cache'[Home[f]] = Sb(f)
    BY <2>3, OthersCache
  <2>6. (\A f \in Executions : f # e => Leaves(f)) /\ record'.life = record.life
    BY <2>2, <2>5, OthersRecord
  <2>7. Only(e) BY <2>3, <2>4, <2>6, TurnOnly
  <2>8. OwnManager(e)' BY <1>0, <2>3 DEF OwnManager, Used
  <2>9. OwnPlaces(e)' BY <1>0, <2>1, <2>3, <2>4, <2>6 DEF OwnPlaces, Used
  <2>10. AtWork(e)' BY <2>4 DEF AtWork
  <2>11. Runs(e)'
    <3>1. place = "done" => man[s].state \in {"unused", "failed"} BY <1>0, <2>1, <2>3 DEF AtWork, s
    <3> QED BY <1>0, <2>1, <2>3, <2>4, <3>1 DEF Runs, s
  <2> QED BY <2>7, <2>8, <2>9, <2>10, <2>11 DEF OwnExec
<1>4. CASE ShutdownUnlists(e)
  <2>1. /\ at[e] = "unlist" /\ mine[e].life = e /\ ClearCache(Home[e], mine[e].life)
        /\ mine' = [mine EXCEPT ![e] = NoRecord]
        /\ UNCHANGED <<record, init, seen, notices, notice, noticed, uses, running>>
    BY <1>0, <1>4 DEF ShutdownUnlists, OwnPlaces, starts, notices
  <2>2. \A f \in Executions : f # e => Leaves(f)
    <3>1. \A f \in Executions : f # e /\ cache[Home[f]] = Sb(f) => cache'[Home[f]] = Sb(f)
      BY <2>1, OthersCache
    <3> QED BY <2>1, <3>1 DEF Leaves
  <2>3. \A f \in Executions : f # e => mine'[f] = mine[f] BY <1>t, <2>1
  <2>4. CASE uses[e] = None
    <3>1. at' = [at EXCEPT ![e] = "done"] /\ UNCHANGED man BY <1>4, <2>4 DEF ShutdownUnlists
    <3>2. at'[e] = "done" /\ \A f \in Executions : f # e => at'[f] = at[f] BY <1>t, <3>1
    <3>3. man[s].state = "failed" BY <1>0, <2>1, <2>4 DEF OwnPlaces, s
    <3>5. Only(e) BY <2>1, <2>2, <2>3, <3>1, <3>2, TurnOnly
    <3>6. OwnManager(e)' BY <1>0, <2>1, <3>1 DEF OwnManager, Used
    <3>7. OwnPlaces(e)' BY <1>0, <2>1, <2>4, <3>1, <3>2, <3>3 DEF OwnPlaces, Used, s
    <3>8. AtWork(e)' BY <3>2 DEF AtWork
    <3>9. Runs(e)' BY <1>0, <2>1, <3>1, <3>2, <3>3 DEF Runs, s
    <3> QED BY <3>5, <3>6, <3>7, <3>8, <3>9 DEF OwnExec
  <2>5. CASE uses[e] # None
    <3>0. uses[e] = s BY <1>0, <2>1, <2>5 DEF OwnPlaces, s
    <3>1. at' = [at EXCEPT ![e] = "ensure"] /\ man' = Ensured(man, s)
      BY <1>4, <2>5, <3>0 DEF ShutdownUnlists
    <3>2. at'[e] = "ensure" /\ \A f \in Executions : f # e => at'[f] = at[f] BY <1>t, <3>1
    <3>3. /\ \A n \in Managers : n # s => man'[n] = man[n]
          /\ man'[s].life = man[s].life /\ man'[s].proc = man[s].proc
          /\ man'[s].from = man[s].from
          /\ man'[s].state = IF man[s].state = "new" THEN "starting" ELSE man[s].state
      BY <1>0, <3>1, EnsuredDoes, OwnFacts
    <3>4. Used(s) BY <1>0, <2>5, <3>0 DEF TypeInv, ExecutionShape
    <3>5. Only(e) BY <2>1, <2>2, <2>3, <3>2, <3>3, TurnOnly DEF s
    <3>6. OwnManager(e)' BY <1>0, <2>1, <3>3, <3>4 DEF OwnManager, Used, s
    <3>7. OwnPlaces(e)' BY <1>0, <2>1, <3>0, <3>2, <3>3, <3>4 DEF OwnPlaces, Used, s
    <3>8. AtWork(e)' BY <3>2 DEF AtWork
    <3>9. Runs(e)' BY <1>0, <2>1, <3>2, <3>3 DEF Runs, s
    <3> QED BY <3>5, <3>6, <3>7, <3>8, <3>9 DEF OwnExec
  <2> QED BY <2>4, <2>5
<1>5. CASE ShutdownEnsures(e)
  <2>1. /\ at[e] = "ensure" /\ uses[e] = s /\ man[s].state \in {"new", "ready", "failed"}
        /\ at' = [at EXCEPT ![e] = "kill"]
        /\ UNCHANGED <<record, cache, man, init, seen, notices, notice, noticed, uses, mine, running>>
    BY <1>0, <1>5 DEF ShutdownEnsures, OwnPlaces, store, local, starts, notices, s
  <2>2. at'[e] = "kill" /\ \A f \in Executions : f # e => at'[f] = at[f] BY <1>t, <2>1
  <2>3. Only(e) BY <2>1, <2>2, SameLeaves, TurnOnly
  <2>4. OwnManager(e)' BY <1>0, <2>1 DEF OwnManager, Used
  <2>5. OwnPlaces(e)' BY <1>0, <2>1, <2>2 DEF OwnPlaces, Used, s
  <2>6. AtWork(e)' BY <2>2 DEF AtWork
  <2>7. Runs(e)' BY <1>0, <2>1, <2>2 DEF Runs, s
  <2> QED BY <2>3, <2>4, <2>5, <2>6, <2>7 DEF OwnExec
<1>6. CASE ShutdownKills(e)
  <2>1. /\ at[e] = "kill" /\ uses[e] = s /\ man[s].state \in {"new", "ready", "failed"}
        /\ at' = [at EXCEPT ![e] = "done"] /\ ShutDown(s) /\ Used(s)
        /\ UNCHANGED <<record, cache, init, seen, notices, notice, noticed, uses, mine>>
    BY <1>0, <1>6
    DEF ShutdownKills, OwnPlaces, Runs, TypeInv, ExecutionShape, store, local, starts, notices, s
  <2>2. at'[e] = "done" /\ \A f \in Executions : f # e => at'[f] = at[f] BY <1>t, <2>1
  <2>3. /\ \A n \in Managers : n # s => man'[n] = man[n] /\ (n \in running' <=> n \in running)
        /\ man'[s].life = man[s].life /\ man'[s].proc = man[s].proc /\ man'[s].from = man[s].from
        /\ man'[s].state = IF man[s].state = "failed" THEN "failed" ELSE "new"
        /\ s \notin running'
    BY <2>1, ShutDownOwn DEF s
  <2>4. Only(e) BY <2>1, <2>2, <2>3, SameLeaves, TurnOnly DEF s
  <2>5. OwnManager(e)' BY <1>0, <2>1, <2>3 DEF OwnManager, Used, s
  <2>6. OwnPlaces(e)' BY <1>0, <2>1, <2>2, <2>3 DEF OwnPlaces, Used, s
  <2>7. AtWork(e)' BY <2>2 DEF AtWork
  <2>8. Runs(e)' BY <1>0, <2>1, <2>2, <2>3 DEF Runs, s
  <2> QED BY <2>4, <2>5, <2>6, <2>7, <2>8 DEF OwnExec
<1> QED BY <1>1, <1>2, <1>3, <1>4, <1>5, <1>6, <1>7 DEF Shutdown

\* Executions that met, and a record that was revived, are remembered.
LEMMA ApartBefore ==
  ASSUME TypeInv, [Next]_vars, Apart'
  PROVE  Apart
<1> USE DEF Apart
<1>1. CASE UNCHANGED vars BY <1>1 DEF vars, store, executions
<1>2. ASSUME NEW m \in Managers, Boot(m) \/ Notice(m) \/ InitTask(m) PROVE Apart
  BY <1>2, ManagersKeep DEF RecordKept, executions
<1>3. ASSUME NEW e \in Executions, Begin(e) \/ Create(e) \/ Use(e) PROVE Apart
  <2>1. CASE CreateReads(e)
    <3>1. ~revived BY <2>1 DEF CreateReads, store
    <3>2. shared' = shared \/ shared' = TRUE
      <4>1. CASE record = NoRecord BY <2>1, <4>1 DEF CreateReads, NoRecord, Terminal
      <4>2. CASE record # NoRecord /\ record.status \in Terminal BY <2>1, <4>2 DEF CreateReads
      <4>3. CASE record # NoRecord /\ record.status \notin Terminal BY <2>1, <4>3 DEF CreateReads
      <4> QED BY <4>1, <4>2, <4>3
    <3> QED BY <3>1, <3>2
  <2>2. CASE ~CreateReads(e)
    BY <1>3, <2>2 DEF Begin, Create, CreateSets, CreateLists, CreateDeletes, Use, store, executions
  <2> QED BY <2>1, <2>2
<1>4. ASSUME NEW e \in Executions, End(e) \/ Shutdown(e) PROVE Apart
  <2>1. CASE ShutdownReads(e)
    <3>1. ~revived /\ shared' = (shared \/ (record # NoRecord /\ record.life # e))
      BY <2>1 DEF ShutdownReads, store
    <3> QED BY <3>1 DEF TypeInv, TypeOK
  <2>2. CASE ShutdownMarks(e) BY <2>2 DEF ShutdownMarks, Save
  <2>3. CASE End(e) \/ ShutdownUnlists(e) \/ ShutdownEnsures(e) \/ ShutdownKills(e)
    BY <2>3 DEF End, ShutdownUnlists, ShutdownEnsures, ShutdownKills, store
  <2> QED BY <1>4, <2>1, <2>2, <2>3 DEF Shutdown
<1> QED BY <1>1, <1>2, <1>3, <1>4 DEF Next, Proceed

\* Own holds.
LEMMA OwnHolds == Spec => [](TypeInv /\ PlacesInv /\ Own)
<1>1. Init => Own
  <2> SUFFICES ASSUME Init, NEW e \in Executions PROVE OwnExec(e)
    BY DEF Own
  <2>1. Sb(e) \in Managers /\ Sd(e) \in Managers BY Sandboxes
  <2> QED
    BY <2>1, Names
    DEF Init, OwnExec, OwnManager, OwnPlaces, AtWork, Runs, Used, Idle, Writing, NoRecord
<1>2. TypeInv /\ PlacesInv /\ Own /\ [Next]_vars => Own'
  <2> SUFFICES ASSUME TypeInv, PlacesInv, Own, [Next]_vars, Apart', NEW f \in Executions
      PROVE  OwnExec(f)'
    BY DEF Own
  <2>0. OwnInv BY ApartBefore DEF Own, OwnInv
  <2>1. CASE UNCHANGED vars
    BY <2>0, <2>1
    DEF OwnInv, OwnExec, OwnManager, OwnPlaces, AtWork, Runs, Used, vars, store, local, starts,
        notices, executions
  <2>2. ASSUME NEW e \in Executions, OwnExec(e)' /\ Only(e) PROVE OwnExec(f)'
    BY <2>0, <2>2, OthersOwn
  <2>3. ASSUME NEW e \in Executions,
               Begin(e) \/ Create(e) \/ Use(e) \/ End(e) \/ Shutdown(e)
        PROVE  OwnExec(f)'
    BY <2>0, <2>2, <2>3, CreateOwn, ShutdownOwn
  <2>4. ASSUME NEW m \in Managers, Boot(m) \/ Notice(m) \/ InitTask(m)
        PROVE  OwnExec(f)'
    <3>1. Used(m)
      BY <2>4 DEF Boot, SandboxStarts, SandboxReady, SandboxFails, Notice, NoticeReads, NoticeSaves,
         InitTask, InitSettles, CatchReads, InitReads, InitSaves, Retire, Close, CloseMarks,
         CloseUnlists, TypeInv, ManagerShape, Used
    <3>2. m[1] \in Executions /\ m = Sb(m[1]) BY <2>0, <3>1, OwnedBy
    <3>3. PICK e \in Executions : m = Sb(e) BY <3>2
    <3> QED BY <2>0, <2>2, <2>4, <3>3, BootOwn, NoticeOwn, InitOwn DEF Apart
  <2> QED BY <2>1, <2>3, <2>4 DEF Next, Proceed
<1> QED BY <1>1, <1>2, PlacesHold, PTL DEF Spec

\* OwnSandboxKept: as long as executions stay apart and no record is revived, the sandbox
\* an execution began is not shut down under it.
THEOREM OwnSandboxStays == Spec => []OwnSandboxKept
<1>1. TypeInv /\ PlacesInv /\ Own => OwnSandboxKept
  <2> SUFFICES ASSUME TypeInv, Own, Apart, NEW e \in Executions,
                      at[e] = "using", man[uses[e]].state = "ready"
      PROVE  Sandbox(uses[e]) \in running
    BY DEF OwnSandboxKept
  <2>1. OwnManager(e) /\ OwnPlaces(e) /\ Runs(e) BY DEF Own, OwnExec
  <2>2. uses[e] = Sb(e) /\ Used(Sb(e)) BY <2>1 DEF OwnPlaces, Used
  <2> QED BY <2>1, <2>2 DEF OwnManager, Runs, Sandbox
<1> QED BY <1>1, OwnHolds, PTL

\* NoLeak: as long as executions stay apart and no record is revived, no sandbox runs when
\* they are over and every start has come to its end.
THEOREM NothingLeaks == Spec => []NoLeak
<1>1. TypeInv /\ PlacesInv /\ Own => NoLeak
  <2> SUFFICES ASSUME TypeInv, Own, Apart, Quiet, NEW m \in Managers, m \in running
      PROVE  FALSE
    BY DEF NoLeak, TypeInv, TypeOK
  <2>1. PICK e \in Executions : m \in {Sb(e), Sd(e)} BY Sandboxes
  <2>2. OwnPlaces(e) /\ Runs(e) BY DEF Own, OwnExec
  <2>3. m = Sb(e) /\ man[m].state = "ready" BY <2>1, <2>2 DEF Runs, Quiet
  <2> QED BY <2>2, <2>3 DEF Quiet, Runs, OwnPlaces, Used
<1> QED BY <1>1, OwnHolds, PTL

=============================================================================
