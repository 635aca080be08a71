--------------------------- MODULE SandboxRegistry ---------------------------
(***************************************************************************)
(* The sandboxes of one invocation (backend/app/services/                  *)
(* sandbox_registry.ts, backend/libs/agent/sandbox/index.ts).              *)
(*                                                                         *)
(* An execution of the invocation creates its sandbox or joins the one of  *)
(* the record in Redis, and shuts it down at its end.  One asks a          *)
(* question, the next resumes with the answer, in any backend process and  *)
(* whether or not the one before is over.  Every Redis command is a step;  *)
(* a command that compares the lifecycle is a Lua script, and atomic.      *)
(***************************************************************************)
EXTENDS Naturals

CONSTANTS
  Executions,   \* bounds the runs of the invocation: numbers, in order
  Processes,    \* backend processes
  Home,         \* the process of each execution
  None

ASSUME ExecutionsAssumption == Executions \subseteq Nat
ASSUME HomeAssumption == Home \in [Executions -> Processes]

\* SandboxManager objects: an execution makes at most one when it creates its
\* sandbox and one when it shuts it down.
Managers == Executions \X {"create", "shutdown"}

ASSUME NoneAssumption == None \notin Executions \union Managers

VARIABLES
  record,    \* the record of the invocation
  revived,   \* has a record that ended been written over by a late update?
  listed,    \* is the invocation in workspace_invocations?
  cache,     \* per process: the entry of invocationManagers
  tasks,     \* per process: invocationInitTasks
  man,       \* SandboxManager objects
  init,      \* per manager: where its initializeInvocationSandbox stands
  seen,      \*   what it has to write, or the record it has read
  notice,    \* per manager: where the update of onSandboxId stands
  noticed,   \*   the record it has read
  at,        \* per execution: the await it is at
  uses,      \*   the manager it got, or shuts down
  mine,      \*   the record it has read
  shared,    \* has an execution joined or ended a lifecycle it did not begin?
  running    \* sandboxes that run, named after the manager that started them

store == <<record, revived, listed>>
local == <<cache, tasks>>
starts == <<init, seen>>
notices == <<notice, noticed>>
executions == <<at, uses, mine, shared>>
vars == <<store, local, man, starts, notices, executions, running>>

\* Lifecycles are named after the execution that began them.
Statuses == {"initializing", "ready", "shutdown", "error"}
Terminal == {"shutdown", "error"}
Records == [life : Executions, status : Statuses, sandbox : Managers \union {None}]
NoRecord == [life |-> None, status |-> "none", sandbox |-> None]

Idle == [life |-> None, proc |-> None, from |-> None, state |-> "unused"]

TypeOK ==
  /\ record \in Records \union {NoRecord}
  /\ {revived, listed} \subseteq BOOLEAN
  /\ cache \in [Processes -> Managers \union {None}]
  /\ tasks \in [Processes -> SUBSET Managers]
  /\ man \in [Managers ->
       [life : Executions \union {None}, proc : Processes \union {None},
        from : Managers \union {None},
        state : {"unused", "new", "starting", "booting", "ready", "failed", "orphan"}]]
  /\ init \in [Managers -> {"none", "ensure", "catch", "update", "save", "retire",
                            "close", "mark", "unlist", "over"}]
  /\ seen \in [Managers -> Records \union {NoRecord}]
  /\ notice \in [Managers -> {"none", "read", "save"}]
  /\ noticed \in [Managers -> Records \union {NoRecord}]
  /\ at \in [Executions -> {"new", "set", "added", "exists", "delete", "using", "ending",
                            "mark", "unlist", "ensure", "kill", "done"}]
  /\ uses \in [Executions -> Managers \union {None}]
  /\ mine \in [Executions -> Records \union {NoRecord}]
  /\ shared \in BOOLEAN
  /\ running \subseteq Managers

Init ==
  /\ record = NoRecord /\ revived = FALSE /\ listed = FALSE
  /\ cache = [p \in Processes |-> None] /\ tasks = [p \in Processes |-> {}]
  /\ man = [m \in Managers |-> Idle]
  /\ init = [m \in Managers |-> "none"] /\ seen = [m \in Managers |-> NoRecord]
  /\ notice = [m \in Managers |-> "none"] /\ noticed = [m \in Managers |-> NoRecord]
  /\ at = [e \in Executions |-> "new"] /\ uses = [e \in Executions |-> None]
  /\ mine = [e \in Executions |-> NoRecord] /\ shared = FALSE
  /\ running = {}

----------------------------------------------------------------------------
(* Managers (SandboxManager), caches and tasks.                            *)

\* The sandbox a manager has started or is connected to.
Sandbox(m) == IF man[m].from = None THEN m ELSE man[m].from

\* ensureInitialized: a started manager, also a failed one, is left alone.
Ensured(ms, m) == IF ms[m].state = "new" THEN [ms EXCEPT ![m].state = "starting"] ELSE ms

\* shutdown: an initialization in flight goes on without its manager.
ShutDown(m) ==
  /\ man' = [man EXCEPT ![m].state =
       CASE @ = "starting" -> "orphan" [] @ \in {"booting", "ready"} -> "new" [] OTHER -> @]
  /\ running' = IF man[m].state \in {"booting", "ready"} THEN running \ {Sandbox(m)} ELSE running

\* clearInvocationCache.
ClearCache(p, life) ==
  /\ cache' = IF cache[p] # None /\ man[cache[p]].life = life THEN [cache EXCEPT ![p] = None]
              ELSE cache
  /\ tasks' = [tasks EXCEPT ![p] = {m \in @ : man[m].life # life}]

\* startInvocationInitialization, for a record that is still initializing.
Start(ms, p, m, rec) ==
  LET due == rec.status = "initializing" /\ \A t \in tasks[p] : man[t].life # rec.life
  IN IF due THEN /\ man' = Ensured(ms, m)
                 /\ tasks' = [tasks EXCEPT ![p] = @ \union {m}]
                 /\ init' = [init EXCEPT ![m] = "ensure"]
            ELSE man' = ms /\ UNCHANGED <<tasks, init>>

\* A manager for a record, cached and started.
Manage(p, m, rec) ==
  /\ cache' = [cache EXCEPT ![p] = m]
  /\ Start([man EXCEPT ![m] = [life |-> rec.life, proc |-> p, from |-> rec.sandbox,
                               state |-> "new"]], p, m, rec)

\* The sandbox gets its id, and onSandboxId begins to write it down.  One that
\* is to be joined may be gone.
SandboxStarts(m) ==
  /\ man[m].state \in {"starting", "orphan"}
  /\ notice' = [notice EXCEPT ![m] = "read"]
  /\ IF man[m].from \in {None} \union running
       THEN /\ man' = [man EXCEPT ![m].state = IF @ = "orphan" THEN "new" ELSE "booting"]
            /\ running' = running \union {Sandbox(m)}
       ELSE man' = [man EXCEPT ![m].state = "failed"] /\ UNCHANGED running
  /\ UNCHANGED <<store, local, starts, noticed, executions>>

SandboxReady(m) ==
  /\ man[m].state = "booting"
  /\ man' = [man EXCEPT ![m].state = "ready"]
  /\ UNCHANGED <<store, local, starts, notices, executions, running>>

\* cleanupFailedSandbox.
SandboxFails(m) ==
  /\ man[m].state = "booting"
  /\ man' = [man EXCEPT ![m].state = "failed"]
  /\ running' = running \ {Sandbox(m)}
  /\ UNCHANGED <<store, local, starts, notices, executions>>

----------------------------------------------------------------------------
(* Updates of the record.                                                  *)


\* saveInvocationRecordIfLifecycle.
Save(rec) ==
  /\ record' = IF record.life = rec.life THEN rec ELSE record
  /\ revived' = (revived \/ (record.life = rec.life /\ record.status \in Terminal
                                                  /\ rec.status \notin Terminal))

\* updateInvocationRecord writes nothing for a missing, replaced or ended record.
Updatable(life) == record.life = life /\ record.status \notin Terminal

\* Mutant of NoticeReads: a record that is missing is not noticed.
NoticeReadsMissing(m) ==
  /\ notice[m] = "read"
  /\ LET writes == record.status \notin Terminal /\ record.life \in {None, man[m].life} IN
     /\ notice' = [notice EXCEPT ![m] = IF writes THEN "save" ELSE "none"]
     /\ noticed' = [noticed EXCEPT ![m] = IF writes THEN record ELSE NoRecord]
  /\ UNCHANGED <<store, local, man, starts, executions, running>>

NoticeReads(m) ==
  /\ notice[m] = "read"
  /\ notice' = [notice EXCEPT ![m] = IF Updatable(man[m].life) THEN "save" ELSE "none"]
  /\ noticed' = [noticed EXCEPT ![m] = IF Updatable(man[m].life) THEN record ELSE NoRecord]
  /\ UNCHANGED <<store, local, man, starts, executions, running>>

NoticeSaves(m) ==
  /\ notice[m] = "save"
  /\ Save([noticed[m] EXCEPT !.sandbox = Sandbox(m)])
  /\ notice' = [notice EXCEPT ![m] = "none"] /\ noticed' = [noticed EXCEPT ![m] = NoRecord]
  /\ UNCHANGED <<listed, local, man, starts, executions, running>>

----------------------------------------------------------------------------
(* initializeInvocationSandbox.                                            *)

InitEnds(m) ==
  /\ init' = [init EXCEPT ![m] = "over"] /\ seen' = [seen EXCEPT ![m] = NoRecord]
  /\ ClearCache(man[m].proc, man[m].life)

\* ensureInitialized resolves or rejects: what there is to write down.
InitSettles(m) ==
  LET failed == man[m].state = "failed" IN
  /\ init[m] = "ensure" /\ man[m].state \in {"new", "ready", "failed"}
  /\ seen' = [seen EXCEPT ![m] =
       [life |-> man[m].life, status |-> IF failed THEN "error" ELSE "ready",
        sandbox |-> IF man[m].state = "ready" THEN Sandbox(m) ELSE None]]
  /\ init' = [init EXCEPT ![m] = IF failed THEN "catch" ELSE "update"]
  /\ UNCHANGED <<store, local, man, notices, executions, running>>

\* The catch block looks at the record once more.
CatchReads(m) ==
  /\ init[m] = "catch"
  /\ IF Updatable(man[m].life)
       THEN init' = [init EXCEPT ![m] = "update"] /\ UNCHANGED <<local, seen>>
       ELSE InitEnds(m)
  /\ UNCHANGED <<store, man, notices, executions, running>>

InitReads(m) ==
  /\ init[m] = "update"
  /\ \/ /\ Updatable(man[m].life)
        /\ init' = [init EXCEPT ![m] = "save"] /\ UNCHANGED seen
     \/ /\ ~Updatable(man[m].life)
        /\ IF seen[m].status = "ready" /\ record.life = man[m].life
             THEN init' = [init EXCEPT ![m] = "close"] /\ seen' = [seen EXCEPT ![m] = record]
             ELSE init' = [init EXCEPT ![m] = "retire"] /\ seen' = [seen EXCEPT ![m] = NoRecord]
  /\ UNCHANGED <<store, local, man, notices, executions, running>>

\* A failed start writes 'error'.  A save that finds another lifecycle retires
\* the sandbox.
InitSaves(m) ==
  /\ init[m] = "save"
  /\ Save(seen[m])
  /\ IF seen[m].status = "error" \/ record.life # man[m].life
       THEN init' = [init EXCEPT ![m] = "retire"] /\ UNCHANGED tasks
       ELSE /\ init' = [init EXCEPT ![m] = "over"]
            /\ tasks' = [tasks EXCEPT ![man[m].proc] = @ \ {m}]
  /\ seen' = [seen EXCEPT ![m] = NoRecord]
  /\ UNCHANGED <<listed, cache, man, notices, executions, running>>

Retire(m) ==
  /\ init[m] = "retire"
  /\ ShutDown(m) /\ InitEnds(m)
  /\ UNCHANGED <<store, notices, executions>>

\* The record ended while the sandbox was being started.
Close(m) ==
  /\ init[m] = "close"
  /\ ShutDown(m)
  /\ IF seen[m].status = "error" THEN InitEnds(m)
     ELSE init' = [init EXCEPT ![m] = "mark"] /\ UNCHANGED <<local, seen>>
  /\ UNCHANGED <<store, notices, executions>>

CloseMarks(m) ==
  /\ init[m] = "mark"
  /\ Save([seen[m] EXCEPT !.status = "shutdown"])
  /\ IF record.life = man[m].life
       THEN init' = [init EXCEPT ![m] = "unlist"] /\ UNCHANGED <<local, seen>>
       ELSE InitEnds(m)
  /\ UNCHANGED <<listed, man, notices, executions, running>>

CloseUnlists(m) ==
  /\ init[m] = "unlist"
  /\ listed' = FALSE
  /\ InitEnds(m)
  /\ UNCHANGED <<record, revived, man, notices, executions, running>>

----------------------------------------------------------------------------
(* createInvocationSandbox.                                                *)

Goto(e, place) == at' = [at EXCEPT ![e] = place]

Creating == {"set", "added", "exists", "delete"}

\* An execution resumes what another has asked: that one got its sandbox before,
\* and may be anywhere from there on.  A turn told to stop by then creates no
\* sandbox, and cleans up all the same.
Begin(e) ==
  /\ at[e] = "new"
  /\ \A f \in Executions : f < e => at[f] \notin Creating \union {"new"}
  /\ Goto(e, "set") \/ Goto(e, "ending")
  /\ UNCHANGED <<store, local, man, starts, notices, uses, mine, shared, running>>

\* SET NX.
CreateSets(e) ==
  /\ at[e] = "set"
  /\ IF record = NoRecord
       THEN /\ record' = [life |-> e, status |-> "initializing", sandbox |-> None]
            /\ Goto(e, "added")
       ELSE Goto(e, "exists") /\ UNCHANGED record
  /\ UNCHANGED <<revived, listed, local, man, starts, notices, uses, mine, shared, running>>

CreateLists(e) ==
  /\ at[e] = "added"
  /\ listed' = TRUE
  /\ Manage(Home[e], <<e, "create">>, [life |-> e, status |-> "initializing", sandbox |-> None])
  /\ uses' = [uses EXCEPT ![e] = <<e, "create">>]
  /\ Goto(e, "using")
  /\ UNCHANGED <<record, revived, seen, notices, mine, shared, running>>

Cached(p, life) ==
  IF cache[p] # None /\ man[cache[p]].life = life THEN cache[p] ELSE None


\* Mutant of CreateReads: only a record that failed is deleted.
CreateReadsJoins(e) ==
  LET cached == Cached(Home[e], record.life) IN
  /\ at[e] = "exists" /\ record.status # "error"
  /\ IF cached # None
       THEN Start(man, Home[e], cached, record) /\ UNCHANGED cache
       ELSE Manage(Home[e], <<e, "create">>, record)
  /\ uses' = [uses EXCEPT ![e] = IF cached # None THEN cached ELSE <<e, "create">>]
  /\ Goto(e, "using")
  /\ UNCHANGED <<store, mine, shared, seen, notices, running>>

\* GET: a record that ended is deleted, one that lives is joined.
CreateReads(e) ==
  /\ at[e] = "exists"
  /\ CASE record = NoRecord ->
            Goto(e, "set") /\ UNCHANGED <<local, man, init, uses, mine, shared>>
       [] record.status \in Terminal ->
            /\ ClearCache(Home[e], record.life)
            /\ mine' = [mine EXCEPT ![e] = record] /\ Goto(e, "delete")
            /\ UNCHANGED <<man, init, uses, shared>>
       [] OTHER ->
            LET cached == Cached(Home[e], record.life) IN
            /\ IF cached # None
                 THEN Start(man, Home[e], cached, record) /\ UNCHANGED cache
                 ELSE Manage(Home[e], <<e, "create">>, record)
            /\ uses' = [uses EXCEPT ![e] = IF cached # None THEN cached ELSE <<e, "create">>]
            /\ Goto(e, "using") /\ shared' = TRUE /\ UNCHANGED mine
  /\ UNCHANGED <<store, seen, notices, running>>


\* Mutant of CreateDeletes: it compares with the lifecycle it is about to begin.
CreateDeletesOwn(e) ==
  /\ at[e] = "delete"
  /\ record' = IF record.life = e THEN NoRecord ELSE record
  /\ mine' = [mine EXCEPT ![e] = NoRecord] /\ Goto(e, "set")
  /\ UNCHANGED <<revived, listed, local, man, starts, notices, uses, shared, running>>

CreateDeletes(e) ==
  /\ at[e] = "delete"
  /\ record' = IF record.life = mine[e].life THEN NoRecord ELSE record
  /\ mine' = [mine EXCEPT ![e] = NoRecord] /\ Goto(e, "set")
  /\ UNCHANGED <<revived, listed, local, man, starts, notices, uses, shared, running>>

\* A tool of the agent needs the sandbox.
Use(e) ==
  /\ at[e] = "using" /\ man[uses[e]].state = "new"
  /\ man' = Ensured(man, uses[e])
  /\ UNCHANGED <<store, local, starts, notices, executions, running>>

----------------------------------------------------------------------------
(* shutdownInvocationSandbox, at the end of the execution.                 *)

Settled(m) == init[m] \in {"none", "over"} /\ notice[m] = "none"

End(e) ==
  /\ at[e] = "using"
  /\ Goto(e, "ending")
  /\ UNCHANGED <<store, local, man, starts, notices, uses, mine, shared, running>>

\* It takes whichever lifecycle the record is of.
ShutdownReads(e) ==
  LET cached == Cached(Home[e], record.life) IN
  /\ at[e] = "ending"
  /\ shared' = (shared \/ (record # NoRecord /\ record.life # e))
  /\ CASE record = NoRecord ->
            /\ cache' = [cache EXCEPT ![Home[e]] = None]
            /\ tasks' = [tasks EXCEPT ![Home[e]] = {}]
            /\ Goto(e, "done") /\ UNCHANGED <<man, uses, mine>>
       [] record.status = "error" ->
            /\ mine' = [mine EXCEPT ![e] = record] /\ Goto(e, "mark")
            /\ uses' = [uses EXCEPT ![e] = None] /\ UNCHANGED <<local, man>>
       [] OTHER ->
            /\ mine' = [mine EXCEPT ![e] = record] /\ Goto(e, "mark")
            /\ IF cached = None /\ record.sandbox # None
                 THEN /\ man' = [man EXCEPT ![<<e, "shutdown">>] =
                           [life |-> record.life, proc |-> Home[e], from |-> record.sandbox,
                            state |-> "new"]]
                      /\ uses' = [uses EXCEPT ![e] = <<e, "shutdown">>]
                 ELSE uses' = [uses EXCEPT ![e] = cached] /\ UNCHANGED man
            /\ UNCHANGED local
  /\ UNCHANGED <<store, starts, notices, running>>


\* Mutant of ShutdownMarks: it gives way to a record that changed meanwhile.
ShutdownMarksUnchanged(e) ==
  /\ at[e] = "mark"
  /\ IF record = mine[e]
       THEN /\ Save([mine[e] EXCEPT !.status = IF @ = "error" THEN @ ELSE "shutdown"])
            /\ Goto(e, "unlist") /\ UNCHANGED <<local, mine>>
       ELSE /\ ClearCache(Home[e], mine[e].life)
            /\ Goto(e, "done") /\ mine' = [mine EXCEPT ![e] = NoRecord]
            /\ UNCHANGED <<record, revived>>
  /\ UNCHANGED <<listed, man, starts, notices, uses, shared, running>>

\* markInvocationShutdown, or the end of a record that keeps its 'error'.
ShutdownMarks(e) ==
  /\ at[e] = "mark"
  /\ Save([mine[e] EXCEPT !.status = IF @ = "error" THEN @ ELSE "shutdown"])
  /\ IF record.life = mine[e].life
       THEN Goto(e, "unlist") /\ UNCHANGED <<local, mine>>
       ELSE /\ ClearCache(Home[e], mine[e].life)
            /\ Goto(e, "done") /\ mine' = [mine EXCEPT ![e] = NoRecord]
  /\ UNCHANGED <<listed, man, starts, notices, uses, shared, running>>


\* Mutants of ShutdownUnlists: a start that is under way is not waited for; a
\* record that failed stays listed.
ShutdownUnlistsAtOnce(e) ==
  /\ at[e] = "unlist"
  /\ listed' = FALSE
  /\ ClearCache(Home[e], mine[e].life)
  /\ mine' = [mine EXCEPT ![e] = NoRecord]
  /\ Goto(e, IF uses[e] = None THEN "done" ELSE "kill")
  /\ UNCHANGED <<record, revived, man, starts, notices, uses, shared, running>>
ShutdownUnlistsReady(e) ==
  /\ at[e] = "unlist"
  /\ listed' = (mine[e].status = "error" /\ listed)
  /\ ClearCache(Home[e], mine[e].life)
  /\ mine' = [mine EXCEPT ![e] = NoRecord]
  /\ IF uses[e] = None THEN Goto(e, "done") /\ UNCHANGED man
                       ELSE Goto(e, "ensure") /\ man' = Ensured(man, uses[e])
  /\ UNCHANGED <<record, revived, starts, notices, uses, shared, running>>

\* SREM, and the sandbox once it is up.
ShutdownUnlists(e) ==
  /\ at[e] = "unlist"
  /\ listed' = FALSE
  /\ ClearCache(Home[e], mine[e].life)
  /\ mine' = [mine EXCEPT ![e] = NoRecord]
  /\ IF uses[e] = None THEN Goto(e, "done") /\ UNCHANGED man
                       ELSE Goto(e, "ensure") /\ man' = Ensured(man, uses[e])
  /\ UNCHANGED <<record, revived, starts, notices, uses, shared, running>>

ShutdownEnsures(e) ==
  /\ at[e] = "ensure" /\ man[uses[e]].state \in {"new", "ready", "failed"}
  /\ Goto(e, "kill")
  /\ UNCHANGED <<store, local, man, starts, notices, uses, mine, shared, running>>

ShutdownKills(e) ==
  /\ at[e] = "kill"
  /\ ShutDown(uses[e])
  /\ Goto(e, "done")
  /\ UNCHANGED <<store, local, starts, notices, uses, mine, shared>>

----------------------------------------------------------------------------
Create(e) == CreateSets(e) \/ CreateLists(e) \/ CreateReads(e) \/ CreateDeletes(e)
Shutdown(e) == \/ ShutdownReads(e) \/ ShutdownMarks(e)
               \/ ShutdownUnlists(e) \/ ShutdownEnsures(e) \/ ShutdownKills(e)
Boot(m) == SandboxStarts(m) \/ SandboxReady(m) \/ SandboxFails(m)
Notice(m) == NoticeReads(m) \/ NoticeSaves(m)
InitTask(m) == \/ InitSettles(m) \/ CatchReads(m) \/ InitReads(m) \/ InitSaves(m)
               \/ Retire(m) \/ Close(m) \/ CloseMarks(m) \/ CloseUnlists(m)

Proceed ==
  \/ \E e \in Executions : Create(e) \/ End(e) \/ Shutdown(e)
  \/ \E m \in Managers : Boot(m) \/ Notice(m) \/ InitTask(m)

Next == Proceed \/ \E e \in Executions : Begin(e) \/ Use(e)

\* Something that is under way goes on; which of them, is not said.  That an
\* execution begins, or uses its sandbox, is not promised.
Fairness == WF_vars(Proceed)

Spec == Init /\ [][Next]_vars /\ Fairness

----------------------------------------------------------------------------
(* Properties.                                                             *)

\* Nothing of the invocation is under way.
Quiet == /\ \A e \in Executions : at[e] \in {"new", "done"}
         /\ \A m \in Managers : Settled(m) /\ man[m].state \notin {"starting", "booting", "orphan"}

\* No execution worked on a lifecycle that another began, and no late update wrote
\* over a record that had ended.
Apart == ~revived /\ ~shared

\* When its executions are over and every start has come to its end, no
\* sandbox of the invocation runs: neither one that was still starting when its
\* execution ended, nor one that failed half-way.  An execution that joins the
\* lifecycle of the one before may start its sandbox again after that one has
\* ended it, and then nobody ends it.
NoLeak == Quiet /\ Apart => running = {}

\* The workspace does not count an invocation as having a sandbox when none
\* of its executions is at work.
Unlisted == Quiet => ~listed

\* Unless a late update has written over a record that ended, what the
\* executions leave is one, so that the next execution begins a new lifecycle.
EndedRecord == Quiet /\ ~revived => record.status \in Terminal \union {"none"}

\* The sandbox an execution began is not shut down under it, not by an
\* initialization that comes late and not by the clean-up of the execution
\* before, unless that one found the new lifecycle in the record.
OwnSandboxKept ==
  Apart => \A e \in Executions :
    at[e] = "using" /\ man[uses[e]].state = "ready" => Sandbox(uses[e]) \in running

\* Again and again the invocation comes to rest: no execution goes round for ever
\* between SET NX, GET and the deletion of a record that others write, and no
\* clean-up waits for a start that never settles.
ComesToRest == []<>Quiet

=============================================================================
