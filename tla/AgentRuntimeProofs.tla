------------------------- MODULE AgentRuntimeProofs -------------------------
(***************************************************************************)
(* Theorems about AgentRuntime, for every number of invocations of the     *)
(* task, of executions and of processes, and for everything that may       *)
(* happen to them.  The invariant behind them is AgentInv: of the          *)
(* executions of an invocation the last one leads, unless one that it has  *)
(* overtaken wrote all the same, and until it knows better the leading     *)
(* execution owns the row and has its state on the way to it.              *)
(***************************************************************************)
EXTENDS AgentRuntime, TLAPS

USE DEF thread, SetTask, Remember

----------------------------------------------------------------------------
(* Types.                                                                  *)

\* The task knows its root as long as its latest invocation; both were created.
TaskShape ==
  /\ task.root = None <=> task.latest = None
  /\ task.root = None => ~task.archived /\ task.status = "initiated"
  /\ task.latest # None => row[task.latest].born
  /\ sweep.inv # None => row[sweep.inv].born
  /\ command.inv # None => row[command.inv].born

\* An execution is of an invocation that was created; before, nothing of it runs.
ExecutionShape ==
  \A x \in Executions :
    /\ pc[x] = "unused" <=> inv[x] = None
    /\ inv[x] = None <=> proc[x] = None
    /\ inv[x] # None => row[inv[x]].born
    /\ pc[x] = "unused" => save[x].phase = "idle" /\ beat[x] = "idle" /\ x \notin asked

\* What the types of the next state follow from.
TypeInv == TypeOK /\ TaskShape /\ ExecutionShape

\* The initial values.
LEMMA ConstantsTyped ==
  /\ NoState \in AgentStates /\ Unborn \in Rows
  /\ IdleSave \in [phase : {"idle", "check", "write"}, message : AgentStates]
  /\ NoSweep \in [inv : Invocations \union {None}, act : {"recover", "release"}]
  /\ NoCommand \in [inv : Invocations \union {None}, at : {"publish", "recover"}]
BY DEF NoState, AgentStates, Kinds, Unborn, Rows, IdleSave, NoSweep, NoCommand

\* The initial state is typed.
LEMMA TypeInit == Init => TypeInv
<1> SUFFICES ASSUME Init PROVE TypeInv
  OBVIOUS
<1>1. TypeOK
  <2>1. row \in [Invocations -> Rows] BY ConstantsTyped DEF Init
  <2>2. /\ task \in [root : Invocations \union {None}, latest : Invocations \union {None},
                    status : Running \union Terminal, archived : BOOLEAN]
        /\ listed \in BOOLEAN
    BY DEF Init, Running
  <2>3. /\ inv \in [Executions -> Invocations \union {None}]
        /\ proc \in [Executions -> Processes \union {None}]
        /\ pc \in [Executions -> Places]
    BY DEF Init, Places
  <2>4. /\ mem \in [Executions -> AgentStates] /\ next \in [Executions -> AgentStates]
        /\ known \in [Executions -> Kinds]
        /\ save \in [Executions -> [phase : {"idle", "check", "write"}, message : AgentStates]]
        /\ beat \in [Executions -> {"idle", "refresh"}]
    BY ConstantsTyped DEF Init, Kinds
  <2>5. /\ sweep \in [inv : Invocations \union {None}, act : {"recover", "release"}]
        /\ command \in [inv : Invocations \union {None}, at : {"publish", "recover"}]
        /\ cancels \in 0..MaxCancels
    BY ConstantsTyped, CancelsAssumption DEF Init
  <2>6. /\ old = {} /\ raced = {} /\ crashed = {}
        /\ asked = {} /\ aborted = {} /\ failed = {}
    BY DEF Init
  <2> QED BY <2>1, <2>2, <2>3, <2>4, <2>5, <2>6 DEF TypeOK
<1>2. TaskShape /\ ExecutionShape
  BY DEF Init, TaskShape, ExecutionShape, NoSweep, NoCommand, IdleSave
<1> QED BY <1>1, <1>2 DEF TypeInv

----------------------------------------------------------------------------
(* The rows of the invocations table that an action writes.                *)

Table == [Invocations -> Rows]

\* The row of i becomes r, and no other row changes.
Rewrites(i, r) ==
  /\ row' \in Table /\ r \in Rows /\ row'[i] = r
  /\ \A j \in Invocations : j # i => row'[j] = row[j]

\* One row replaced by another keeps the table a table.
LEMMA RowRewritten ==
  ASSUME row \in Table, NEW i \in Invocations, NEW r \in Rows, row' = [row EXCEPT ![i] = r]
  PROVE  Rewrites(i, r)
BY DEF Table, Rewrites

\* The state of an execution's agent is stored.
LEMMA StateRewritten ==
  ASSUME row \in Table, NEW i \in Invocations, NEW s \in AgentStates,
         row' = [row EXCEPT ![i].state = s]
  PROVE  Rewrites(i, [row[i] EXCEPT !.state = s])
<1>1. row' = [row EXCEPT ![i] = [row[i] EXCEPT !.state = s]] BY DEF Table
<1>2. [row[i] EXCEPT !.state = s] \in Rows BY DEF Table, Rows
<1> QED BY <1>1, <1>2, RowRewritten

\* The lease of an invocation is taken, renewed or given back.
LEMMA LeaseRewritten ==
  ASSUME row \in Table, NEW i \in Invocations, NEW l \in {"none", "live", "expired"},
         row' = [row EXCEPT ![i].lease = l]
  PROVE  Rewrites(i, [row[i] EXCEPT !.lease = l])
<1>1. row' = [row EXCEPT ![i] = [row[i] EXCEPT !.lease = l]] BY DEF Table
<1>2. [row[i] EXCEPT !.lease = l] \in Rows BY DEF Table, Rows
<1> QED BY <1>1, <1>2, RowRewritten

\* A process takes the lease, and the invocation counts as started.
LEMMA OwnerRewritten ==
  ASSUME row \in Table, NEW i \in Invocations, NEW p \in Processes,
         row' = [row EXCEPT ![i].owner = p, ![i].started = TRUE, ![i].lease = "live"]
  PROVE  Rewrites(i, [row[i] EXCEPT !.owner = p, !.started = TRUE, !.lease = "live"])
<1>1. row' = [row EXCEPT ![i] = [row[i] EXCEPT !.owner = p, !.started = TRUE, !.lease = "live"]]
  BY DEF Table
<1>2. [row[i] EXCEPT !.owner = p, !.started = TRUE, !.lease = "live"] \in Rows BY DEF Table, Rows
<1> QED BY <1>1, <1>2, RowRewritten

\* The lease is given back, by its owner or by a sweep.
LEMMA ReleaseRewritten ==
  ASSUME row \in Table, NEW i \in Invocations,
         row' = [row EXCEPT ![i].owner = None, ![i].lease = "none"]
  PROVE  Rewrites(i, [row[i] EXCEPT !.owner = None, !.lease = "none"])
<1>1. row' = [row EXCEPT ![i] = [row[i] EXCEPT !.owner = None, !.lease = "none"]] BY DEF Table
<1>2. [row[i] EXCEPT !.owner = None, !.lease = "none"] \in Rows BY DEF Table, Rows
<1> QED BY <1>1, <1>2, RowRewritten

\* An invocation is recovered.
LEMMA RecoveryRewritten ==
  ASSUME row \in Table, NEW i \in Invocations, NEW s \in AgentStates,
         row' = [row EXCEPT ![i].state = s, ![i].recovered = TRUE, ![i].owner = None,
                            ![i].lease = "none"]
  PROVE  Rewrites(i, [row[i] EXCEPT !.state = s, !.recovered = TRUE, !.owner = None,
                                    !.lease = "none"])
<1>1. row' = [row EXCEPT ![i] = [row[i] EXCEPT !.state = s, !.recovered = TRUE, !.owner = None,
                                               !.lease = "none"]]
  BY DEF Table
<1>2. [row[i] EXCEPT !.state = s, !.recovered = TRUE, !.owner = None, !.lease = "none"] \in Rows
  BY DEF Table, Rows
<1> QED BY <1>1, <1>2, RowRewritten

\* An invocation is created.
LEMMA BirthRewritten ==
  ASSUME row \in Table, NEW i \in Invocations, NEW s \in AgentStates,
         NEW parent \in Invocations \union {None},
         row' = [row EXCEPT ![i].born = TRUE, ![i].parent = parent, ![i].state = s]
  PROVE  Rewrites(i, [row[i] EXCEPT !.born = TRUE, !.parent = parent, !.state = s])
<1>1. row' = [row EXCEPT ![i] = [row[i] EXCEPT !.born = TRUE, !.parent = parent, !.state = s]]
  BY DEF Table
<1>2. [row[i] EXCEPT !.born = TRUE, !.parent = parent, !.state = s] \in Rows BY DEF Table, Rows
<1> QED BY <1>1, <1>2, RowRewritten

\* An answer starts the invocation over.
LEMMA AnswerRewritten ==
  ASSUME row \in Table, NEW i \in Invocations, NEW s \in AgentStates, NEW b \in BOOLEAN,
         row' = [row EXCEPT ![i].state = s, ![i].owner = None, ![i].lease = "none",
                            ![i].cancel = FALSE, ![i].started = b /\ @]
  PROVE  Rewrites(i, [row[i] EXCEPT !.state = s, !.owner = None, !.lease = "none",
                                    !.cancel = FALSE, !.started = b /\ @])
<1>1. row' = [row EXCEPT ![i] = [row[i] EXCEPT !.state = s, !.owner = None, !.lease = "none",
                                               !.cancel = FALSE, !.started = b /\ @]]
  BY DEF Table, Rows
<1>2. [row[i] EXCEPT !.state = s, !.owner = None, !.lease = "none", !.cancel = FALSE,
                     !.started = b /\ @] \in Rows
  BY DEF Table, Rows
<1> QED BY <1>1, <1>2, RowRewritten

\* A cancel is requested, unless the invocation was recovered.
LEMMA CancelRewritten ==
  ASSUME row \in Table, NEW i \in Invocations,
         row' = [row EXCEPT ![i].cancel = (@ \/ ~row[i].recovered)]
  PROVE  Rewrites(i, [row[i] EXCEPT !.cancel = (@ \/ ~row[i].recovered)])
<1>1. row' = [row EXCEPT ![i] = [row[i] EXCEPT !.cancel = (@ \/ ~row[i].recovered)]]
  BY DEF Table, Rows
<1>2. [row[i] EXCEPT !.cancel = (@ \/ ~row[i].recovered)] \in Rows BY DEF Table, Rows
<1> QED BY <1>1, <1>2, RowRewritten

\* What is left of the table of an invocation that was rewritten: typed, and
\* nothing forgets that it was created.
LEMMA TableKept ==
  ASSUME row \in Table, NEW i \in Invocations, NEW r, Rewrites(i, r), row[i].born => r.born
  PROVE  /\ row' \in Table
         /\ \A j \in Invocations : row[j].born => row'[j].born
BY DEF Rewrites, Table, Rows

\* The row of the thread in the tasks table.
Tasks == [root : Invocations \union {None}, latest : Invocations \union {None},
          status : Running \union Terminal, archived : BOOLEAN]

\* What the agents of the executions hold.
AgentTyped ==
  /\ mem \in [Executions -> AgentStates]
  /\ known \in [Executions -> Kinds]
  /\ save \in [Executions -> [phase : {"idle", "check", "write"}, message : AgentStates]]
  /\ next \in [Executions -> AgentStates]
  /\ asked \subseteq Executions /\ aborted \subseteq Executions /\ failed \subseteq Executions
  /\ beat \in [Executions -> {"idle", "refresh"}]

\* The rows stay rows, and of invocations that were created.
RowsKept ==
  /\ row' \in Table
  /\ \A j \in Invocations : row[j].born => row'[j].born

\* A task that exists keeps its root and its latest invocation.
TaskKept ==
  /\ task' \in Tasks
  /\ task'.root = task.root /\ task'.latest = task.latest
  /\ task.root = None => task' = task

\* No execution comes into use, and none goes out of it.
PlacesKept ==
  /\ pc' \in [Executions -> Places]
  /\ \A y \in Executions : pc'[y] = "unused" <=> pc[y] = "unused"

\* What has not been dispatched stays idle.
IdleKept ==
  \A y \in Executions :
    pc[y] = "unused" => save'[y].phase = "idle" /\ beat'[y] = "idle" /\ y \notin asked'

\* Where the task stands among the running ones, and the races so far.
NotesTyped == listed \in BOOLEAN /\ raced \subseteq Invocations

\* What keeps the types in a step that creates nothing.
LEMMA StepTyped ==
  ASSUME TypeInv, RowsKept, TaskKept, PlacesKept, IdleKept, AgentTyped', NotesTyped',
         UNCHANGED <<inv, proc>>, old' \subseteq Invocations, cancels' \in 0..MaxCancels,
         crashed' \subseteq Processes,
         sweep' \in [inv : Invocations \union {None}, act : {"recover", "release"}],
         command' \in [inv : Invocations \union {None}, at : {"publish", "recover"}],
         sweep'.inv # None => row[sweep'.inv].born,
         command'.inv # None => row[command'.inv].born
  PROVE  TypeInv'
<1>1. TypeOK'
  BY DEF TypeInv, TypeOK, RowsKept, TaskKept, PlacesKept, AgentTyped, NotesTyped, Table, Tasks
<1>2. TaskShape'
  <2>1. (task.root = None <=> task.latest = None)'
    BY DEF TypeInv, TaskShape, TaskKept
  <2>2. (task.root = None => ~task.archived /\ task.status = "initiated")'
    BY DEF TypeInv, TaskShape, TaskKept
  <2>3. (task.latest # None => row[task.latest].born)'
    BY DEF TypeInv, TypeOK, TaskShape, TaskKept, RowsKept
  <2>4. (sweep.inv # None => row[sweep.inv].born)' /\ (command.inv # None => row[command.inv].born)'
    BY DEF RowsKept
  <2> QED BY <2>1, <2>2, <2>3, <2>4 DEF TaskShape
<1>3. ExecutionShape'
  BY DEF TypeInv, TypeOK, ExecutionShape, RowsKept, PlacesKept, IdleKept
<1> QED BY <1>1, <1>2, <1>3 DEF TypeInv

\* A step of an executor leaves requests and dispatches alone.
LEMMA ExecutorStepTyped ==
  ASSUME TypeInv, RowsKept, TaskKept, PlacesKept, IdleKept, AgentTyped', NotesTyped',
         UNCHANGED <<old, inv, proc, requests, crashed>>
  PROVE  TypeInv'
BY StepTyped DEF TypeInv, TypeOK, TaskShape, requests

\* The table, the task and the places of a step that leaves them alone.
LEMMA SameKept ==
  ASSUME TypeInv
  PROVE  /\ UNCHANGED row => RowsKept
         /\ UNCHANGED task => TaskKept
         /\ UNCHANGED pc => PlacesKept
         /\ UNCHANGED agent /\ UNCHANGED beat => AgentTyped' /\ IdleKept
BY DEF TypeInv, TypeOK, ExecutionShape, RowsKept, TaskKept, PlacesKept, AgentTyped, IdleKept, Table,
       Tasks, agent

\* An execution in use moves on.
LEMMA MovedKept ==
  ASSUME TypeInv, NEW x \in Executions, NEW place \in Places \ {"unused"},
         pc[x] # "unused", pc' = [pc EXCEPT ![x] = place]
  PROVE  PlacesKept
BY DEF TypeInv, TypeOK, PlacesKept

\* A step of one execution keeps the others idle that were.
LEMMA OthersIdle ==
  ASSUME TypeInv, NEW x \in Executions, pc[x] # "unused",
         Execute(x) \/ Converse(x) \/ Saver(x) \/ Heartbeat(x) \/ MarkWaiting(x)
  PROVE  IdleKept
<1>1. \A y \in Executions \ {x} :
        save'[y] = save[y] /\ beat'[y] = beat[y] /\ (y \in asked' => y \in asked)
  <2> USE DEF TypeInv, TypeOK, agent
  <2>1. CASE Execute(x)
    BY <2>1 DEF Execute, MarkBlocked, Subscribe, AcquireLease, Prepare, Start, Interrupted, Emit,
         QueueState, HandOver, PersistFinal, Flush, FailureChecked, FailureSaved, Verdict,
         ReleaseChecked, ReleaseSaved, Unsubscribe
  <2>2. CASE Converse(x)
    BY <2>2 DEF Converse, Progress, AskQuestion, Complete, AgentFails, Emit, QueueState
  <2>3. CASE Saver(x) \/ Heartbeat(x) \/ MarkWaiting(x)
    BY <2>3 DEF Saver, SaverChecks, SaverWrites, NextSave, Heartbeat, HeartbeatReads, HeartbeatSaves,
         MarkWaiting
  <2> QED BY <2>1, <2>2, <2>3
<1> QED BY <1>1 DEF TypeInv, ExecutionShape, IdleKept

\* A row rewritten without forgetting that it was created.
LEMMA RewriteKept ==
  ASSUME TypeInv, NEW i \in Invocations, NEW r, Rewrites(i, r), row[i].born => r.born
  PROVE  RowsKept
BY TableKept DEF TypeInv, TypeOK, Table, RowsKept

\* What the tasks of an execution do with the task.
LEMMA TaskMarked ==
  ASSUME TypeInv, NEW i \in Invocations, NEW status \in Running \union Terminal,
         MarkInProgress(i, status) \/ MarkTerminal(i, status)
  PROVE  /\ TaskKept
         /\ task'.archived = task.archived
         /\ task'.status \in {task.status, status}
         /\ task' # task => task.latest = i /\ ~task.archived /\ task.status \notin Terminal
<1>1. task \in Tasks BY DEF TypeInv, TypeOK, Tasks
<1>2. CASE task' = task BY <1>1, <1>2 DEF TypeInv, TaskShape, TaskKept
<1>3. CASE task' # task
  <2>1. /\ task' = [task EXCEPT !.status = status]
        /\ task.latest = i /\ ~task.archived /\ task.status \notin Terminal
    BY <1>3 DEF MarkInProgress, MarkTerminal
  <2>2. task' \in Tasks BY <1>1, <2>1 DEF Tasks
  <2>3. task.root # None BY <2>1, NoneAssumption DEF TypeInv, TaskShape
  <2> QED BY <1>1, <2>1, <2>2, <2>3 DEF TypeInv, TaskShape, TaskKept, Tasks
<1> QED BY <1>2, <1>3

\* An execution that is in use has an invocation that was created, and a process.
LEMMA Dispatched ==
  ASSUME TypeInv, NEW x \in Executions, pc[x] # "unused"
  PROVE  /\ inv[x] \in Invocations /\ proc[x] \in Processes
         /\ row \in Table /\ row[inv[x]] \in Rows /\ row[inv[x]].born
BY DEF TypeInv, TypeOK, ExecutionShape, Table

\* The queue of state saves.
LEMMA QueueTyped ==
  ASSUME AgentTyped, NEW x \in Executions, NEW m \in AgentStates, QueueState(x, m)
  PROVE  /\ save' \in [Executions -> [phase : {"idle", "check", "write"}, message : AgentStates]]
         /\ next' \in [Executions -> AgentStates]
BY DEF AgentTyped, QueueState

\* The save that follows one that is done.
LEMMA NextSaveTyped ==
  ASSUME AgentTyped, NEW x \in Executions, NextSave(x)
  PROVE  /\ save' \in [Executions -> [phase : {"idle", "check", "write"}, message : AgentStates]]
         /\ next' \in [Executions -> AgentStates]
BY ConstantsTyped DEF AgentTyped, NextSave

\* An event of the agent.
LEMMA EmitTyped ==
  ASSUME TypeInv, NotesTyped', NEW x \in Executions, pc[x] # "unused",
         NEW e \in Kinds, NEW place \in Places \ {"unused"}, Emit(x, e, place), IdleKept
  PROVE  TypeInv'
<1>0. AgentTyped BY DEF TypeInv, TypeOK, AgentTyped
<1> DEFINE m == [event |-> e, pending |-> mem[x].pending \/ e = "asked"]
<1>1. m \in AgentStates BY <1>0 DEF AgentStates, AgentTyped
<1>2. QueueState(x, m) BY DEF Emit
<1>3. AgentTyped'
  BY <1>0, <1>1, <1>2, QueueTyped DEF Emit, AgentTyped
<1>4. UNCHANGED <<row, task, old, inv, proc, requests, crashed>> BY DEF Emit, tables, dispatch
<1>5. PlacesKept BY MovedKept DEF Emit
<1> QED BY <1>3, <1>4, <1>5, ExecutorStepTyped, SameKept

\* The state that a lost or failed execution ends with.
LEMMA ErrorStateTyped ==
  ASSUME row \in Table, NEW i \in Invocations
  PROVE  ErrorState(i) \in AgentStates /\ ErrorState(i).event = "error"
BY DEF Table, Rows, ErrorState, AgentStates, Kinds

----------------------------------------------------------------------------
(* What the steps note about races, and about the place of the task.       *)

\* The steps of one execution.
ExecutionStep(x) == Execute(x) \/ Converse(x) \/ Saver(x) \/ Heartbeat(x) \/ MarkWaiting(x)

\* The steps of users, of sweeps and of time.
OtherStep ==
  \/ Request
  \/ PublishCancel \/ CancelRecovers \/ OthersMove \/ SweepReads \/ SweepActs
  \/ \E i \in Invocations : LeaseExpires(i) \/ GraceOver(i)
  \/ \E p \in Processes : Crash(p)
  \/ UNCHANGED vars

\* An execution that writes its row or its task remembers a race, and no other does.
LEMMA ExecutionRemembers ==
  ASSUME NEW x \in Executions, ExecutionStep(x)
  PROVE  Remember(x)
<1> USE DEF dispatch, agent, tables
<1>1. CASE MarkBlocked(x) \/ AcquireLease(x) \/ Start(x) \/ SaverWrites(x) \/ MarkWaiting(x)
           \/ FailureSaved(x) \/ Verdict(x) \/ ReleaseSaved(x) \/ HeartbeatSaves(x)
  BY <1>1 DEF MarkBlocked, AcquireLease, Start, SaverWrites, MarkWaiting, FailureSaved, Verdict,
       ReleaseSaved, HeartbeatSaves
<1>2. CASE Subscribe(x) \/ Prepare(x) \/ HandOver(x) \/ PersistFinal(x) \/ Flush(x)
           \/ FailureChecked(x) \/ ReleaseChecked(x) \/ Unsubscribe(x)
  BY <1>2 DEF Subscribe, Prepare, HandOver, PersistFinal, Flush, FailureChecked, ReleaseChecked,
       Unsubscribe
<1>3. CASE Interrupted(x) \/ Converse(x)
  BY <1>3 DEF Interrupted, Converse, Progress, AskQuestion, Complete, AgentFails, Emit
<1>4. CASE SaverChecks(x) \/ HeartbeatReads(x)
  BY <1>4 DEF SaverChecks, HeartbeatReads
<1> QED BY <1>1, <1>2, <1>3, <1>4 DEF ExecutionStep, Execute, Saver, Heartbeat

\* No other step notes a race.
LEMMA OthersRemember ==
  ASSUME OtherStep
  PROVE  UNCHANGED raced
<1> USE DEF dispatch
<1>1. CASE Request
  <2>1. ASSUME NEW x, NEW i, NEW e, NEW place, Dispatch(x, i, e, place) PROVE UNCHANGED raced
    BY <2>1 DEF Dispatch
  <2>2. ASSUME NEW i, NEW j, NEW x, NEW blocked, Invoke(i, j, x, blocked) PROVE UNCHANGED raced
    BY <2>1, <2>2 DEF Invoke
  <2>3. ASSUME NEW i, NEW x, NEW blocked, AnswerQuestion(i, x, blocked) PROVE UNCHANGED raced
    BY <2>1, <2>3 DEF AnswerQuestion
  <2>4. CASE Archive \/ \E i \in Invocations : RequestCancel(i)
    BY <2>4 DEF RequestCancel, Archive
  <2> QED BY <1>1, <2>2, <2>3, <2>4 DEF Request, NewTask, FollowUp, Edit
<1>2. CASE PublishCancel \/ CancelRecovers \/ OthersMove \/ SweepReads \/ SweepActs
  BY <1>2 DEF PublishCancel, CancelRecovers, OthersMove, SweepReads, SweepActs
<1>3. CASE \/ \E i \in Invocations : LeaseExpires(i) \/ GraceOver(i)
           \/ \E p \in Processes : Crash(p)
           \/ UNCHANGED vars
  BY <1>3 DEF LeaseExpires, GraceOver, Crash, vars
<1> QED BY <1>1, <1>2, <1>3 DEF OtherStep

\* The place of the task among those that run.
LEMMA ListedTyped ==
  ASSUME TypeInv, [Next]_vars
  PROVE  listed' \in BOOLEAN
<1> USE DEF TypeInv, TypeOK, tables
<1>1. ASSUME NEW x \in Executions, ExecutionStep(x)
      PROVE  listed' \in BOOLEAN
  <2>1. CASE MarkBlocked(x) \/ Start(x) \/ MarkWaiting(x) \/ Verdict(x)
    BY <2>1 DEF MarkBlocked, Start, MarkWaiting, Verdict, MarkInProgress, MarkTerminal
  <2>2. CASE AcquireLease(x) \/ SaverWrites(x) \/ FailureSaved(x) \/ ReleaseSaved(x) \/ HeartbeatSaves(x)
    BY <2>2 DEF AcquireLease, SaverWrites, FailureSaved, ReleaseSaved, HeartbeatSaves
  <2>3. CASE Subscribe(x) \/ Prepare(x) \/ HandOver(x) \/ PersistFinal(x) \/ Flush(x)
             \/ FailureChecked(x) \/ ReleaseChecked(x) \/ Unsubscribe(x)
    BY <2>3 DEF Subscribe, Prepare, HandOver, PersistFinal, Flush, FailureChecked, ReleaseChecked,
         Unsubscribe
  <2>4. CASE Interrupted(x) \/ Converse(x)
    BY <2>4 DEF Interrupted, Converse, Progress, AskQuestion, Complete, AgentFails, Emit
  <2>5. CASE SaverChecks(x) \/ HeartbeatReads(x)
    BY <2>5 DEF SaverChecks, HeartbeatReads
  <2> QED BY <1>1, <2>1, <2>2, <2>3, <2>4, <2>5 DEF ExecutionStep, Execute, Saver, Heartbeat
<1>2. CASE Request
  <2>1. ASSUME NEW t, SetTask(t) PROVE listed' \in BOOLEAN BY <2>1
  <2>2. ASSUME NEW i, NEW j, AttachInvocation(i) \/ Rebranch(j, i) PROVE listed' \in BOOLEAN
    BY <2>1, <2>2 DEF AttachInvocation, Rebranch
  <2>3. ASSUME NEW i, NEW x, NEW blocked, AnswerQuestion(i, x, blocked) PROVE listed' \in BOOLEAN
    BY <2>1, <2>3 DEF AnswerQuestion
  <2>4. CASE Archive BY <2>1, <2>4 DEF Archive
  <2>5. CASE \E i \in Invocations : RequestCancel(i) BY <2>5 DEF RequestCancel
  <2> QED BY <1>2, <2>2, <2>3, <2>4, <2>5 DEF Request, NewTask, FollowUp, Edit
<1>3. ASSUME NEW i, Recover(i) \/ Release(i)
      PROVE  listed' \in BOOLEAN
  BY <1>3 DEF Recover, Release
<1>4. CASE PublishCancel \/ CancelRecovers \/ OthersMove \/ SweepReads \/ SweepActs
  BY <1>3, <1>4 DEF PublishCancel, CancelRecovers, OthersMove, SweepReads, SweepActs
<1>5. ASSUME NEW i \in Invocations, LeaseExpires(i) \/ GraceOver(i)
      PROVE  listed' \in BOOLEAN
  BY <1>5 DEF LeaseExpires, GraceOver
<1>6. ASSUME NEW p \in Processes, Crash(p)
      PROVE  listed' \in BOOLEAN
  BY <1>6 DEF Crash
<1>7. CASE UNCHANGED vars BY <1>7 DEF vars
<1> QED BY <1>1, <1>2, <1>4, <1>5, <1>6, <1>7 DEF Next, ExecutionStep

\* Only an execution in use steps.
LEMMA StepsInUse ==
  ASSUME TypeInv, NEW x \in Executions, ExecutionStep(x)
  PROVE  pc[x] # "unused"
BY DEF ExecutionStep, Execute, MarkBlocked, Subscribe, AcquireLease, Prepare, Start, Interrupted,
       HandOver, PersistFinal, Flush, FailureChecked, FailureSaved, Verdict, ReleaseChecked,
       ReleaseSaved, Unsubscribe, Converse, Progress, AskQuestion, Complete, AgentFails, Saver,
       SaverChecks, SaverWrites, Heartbeat, HeartbeatReads, HeartbeatSaves, MarkWaiting, TypeInv,
       ExecutionShape, Beating

\* The notes of every step.
LEMMA NotesKept ==
  ASSUME TypeInv, [Next]_vars
  PROVE  NotesTyped' /\ raced \subseteq raced'
<1>1. listed' \in BOOLEAN BY ListedTyped
<1>2. raced \subseteq Invocations BY DEF TypeInv, TypeOK
<1>3. ASSUME NEW x \in Executions, ExecutionStep(x)
      PROVE  raced' \subseteq Invocations /\ raced \subseteq raced'
  <2>1. inv[x] \in Invocations BY <1>3, StepsInUse, Dispatched
  <2>2. Remember(x) BY <1>3, ExecutionRemembers
  <2>3. raced' = raced \/ raced' = raced \union {inv[x]} BY <2>2
  <2> QED BY <1>2, <2>1, <2>3
<1>4. CASE OtherStep BY <1>1, <1>2, <1>4, OthersRemember DEF NotesTyped
<1>5. (\E x \in Executions : ExecutionStep(x)) \/ OtherStep BY DEF Next, ExecutionStep, OtherStep
<1> QED BY <1>1, <1>3, <1>4, <1>5 DEF NotesTyped

----------------------------------------------------------------------------
(* Every action keeps the types.                                           *)

\* The steps of the executor.
LEMMA ExecuteTyped ==
  ASSUME TypeInv, NotesTyped', NEW x \in Executions, Execute(x)
  PROVE  TypeInv'
<1> DEFINE i == inv[x]
<1>i. pc[x] # "unused"
  BY DEF Execute, Interrupted, MarkBlocked, Subscribe, AcquireLease, Prepare, Start, HandOver,
         PersistFinal,
         Flush, FailureChecked, FailureSaved, Verdict, ReleaseChecked, ReleaseSaved, Unsubscribe
<1>j. /\ i \in Invocations /\ proc[x] \in Processes /\ row \in Table
      /\ row[i] \in Rows /\ row[i].born
  BY <1>i, Dispatched
<1>k. AgentTyped BY DEF TypeInv, TypeOK, AgentTyped
<1>l. IdleKept BY <1>i, OthersIdle
<1> USE DEF tables, dispatch, agent, requests
<1>1. CASE MarkBlocked(x)
  <2>1. TaskKept BY <1>1, <1>j, TaskMarked DEF MarkBlocked, Terminal
  <2>2. PlacesKept BY <1>1, MovedKept DEF MarkBlocked, Places
  <2> QED BY <1>1, <2>1, <2>2, <1>l, SameKept, ExecutorStepTyped DEF MarkBlocked
<1>2. CASE Subscribe(x)
  <2>1. PlacesKept BY <1>2, MovedKept DEF Subscribe, Places, Subscribed
  <2> QED BY <1>2, <2>1, <1>l, SameKept, ExecutorStepTyped DEF Subscribe
<1>3. CASE AcquireLease(x)
  <2>1. PlacesKept BY <1>3, MovedKept DEF AcquireLease, Places, Subscribed, Beating
  <2>2. RowsKept
    <3>1. CASE UNCHANGED row BY <3>1, SameKept
    <3>2. CASE row' = [row EXCEPT ![i].owner = proc[x], ![i].started = TRUE, ![i].lease = "live"]
      <4>1. Rewrites(i, [row[i] EXCEPT !.owner = proc[x], !.started = TRUE, !.lease = "live"])
        BY <1>3, <1>j, <3>2, OwnerRewritten DEF AcquireLease
      <4> QED BY <1>3, <1>j, <4>1, RewriteKept DEF AcquireLease, Rows
    <3> QED BY <1>3, <3>1, <3>2 DEF AcquireLease
  <2> QED BY <1>3, <2>1, <2>2, <1>l, SameKept, ExecutorStepTyped DEF AcquireLease
<1>4. CASE Prepare(x)
  <2>1. PlacesKept BY <1>4, MovedKept DEF Prepare, Places, Subscribed, Beating
  <2>2. mem' \in [Executions -> AgentStates]
    <3>1. (known[x] # "answered" /\ row[i].parent # None /\ row[row[i].parent].state.pending) \in BOOLEAN
      OBVIOUS
    <3>2. PICK b \in BOOLEAN : mem' = [mem EXCEPT ![x].pending = b]
      BY <1>4, <3>1 DEF Prepare
    <3> QED BY <1>k, <3>2 DEF AgentTyped, AgentStates
  <2>3. AgentTyped' BY <1>4, <1>k, <2>2 DEF Prepare, AgentTyped
  <2> QED BY <1>4, <2>1, <2>3, <1>l, SameKept, ExecutorStepTyped DEF Prepare
<1>5. CASE Start(x)
  <2>1. TaskKept BY <1>5, <1>j, TaskMarked DEF Start, Running
  <2>2. PlacesKept BY <1>5, MovedKept DEF Start, Places, Subscribed, Beating
  <2> QED BY <1>5, <2>1, <2>2, <1>l, SameKept, ExecutorStepTyped DEF Start
<1>6. CASE Interrupted(x)
  BY <1>6, <1>l, EmitTyped DEF Interrupted, Kinds, Places, Subscribed, Beating
<1>7. CASE HandOver(x)
  <2>1. PlacesKept BY <1>7, MovedKept DEF HandOver, Places, Subscribed, Beating
  <2> QED BY <1>7, <2>1, <1>l, SameKept, ExecutorStepTyped DEF HandOver
<1>8. CASE PersistFinal(x)
  <2>1. PlacesKept BY <1>8, MovedKept DEF PersistFinal, Places, Subscribed
  <2>2. mem[x] \in AgentStates BY <1>k DEF AgentTyped
  <2>3. AgentTyped' BY <1>8, <1>k, <2>2, QueueTyped DEF PersistFinal, AgentTyped
  <2> QED BY <1>8, <2>1, <2>3, <1>l, SameKept, ExecutorStepTyped DEF PersistFinal
<1>9. CASE Flush(x)
  <2>1. PlacesKept BY <1>9, MovedKept DEF Flush, Places, Subscribed
  <2> QED BY <1>9, <2>1, <1>l, SameKept, ExecutorStepTyped DEF Flush
<1>10. CASE FailureChecked(x)
  <2>1. PlacesKept BY <1>10, MovedKept DEF FailureChecked, Places, Subscribed
  <2>2. ErrorState(i) \in AgentStates BY <1>10, <1>j, ErrorStateTyped DEF FailureChecked
  <2>3. AgentTyped' BY <1>10, <1>k, <2>2 DEF FailureChecked, AgentTyped
  <2> QED BY <1>10, <2>1, <2>3, <1>l, SameKept, ExecutorStepTyped DEF FailureChecked
<1>11. CASE FailureSaved(x)
  <2>1. PlacesKept BY <1>11, MovedKept DEF FailureSaved, Places, Subscribed
  <2>2. AgentTyped' BY <1>11, <1>k, ConstantsTyped DEF FailureSaved, AgentTyped
  <2>3. Rewrites(i, [row[i] EXCEPT !.state = save[x].message])
    BY <1>11, <1>j, <1>k, StateRewritten DEF FailureSaved, AgentTyped
  <2>4. RowsKept BY <1>11, <1>j, <2>3, RewriteKept DEF FailureSaved, Rows
  <2> QED BY <1>11, <2>1, <2>2, <2>4, <1>l, SameKept, ExecutorStepTyped DEF FailureSaved
<1>12. CASE Verdict(x)
  <2>1. TaskKept BY <1>12, <1>j, TaskMarked, SameKept DEF Verdict, Terminal
  <2>2. PlacesKept BY <1>12, MovedKept DEF Verdict, Places, Subscribed
  <2> QED BY <1>12, <2>1, <2>2, <1>l, SameKept, ExecutorStepTyped DEF Verdict
<1>13. CASE ReleaseChecked(x)
  <2>1. PlacesKept BY <1>13, MovedKept DEF ReleaseChecked, Places, Subscribed
  <2> QED BY <1>13, <2>1, <1>l, SameKept, ExecutorStepTyped DEF ReleaseChecked
<1>14. CASE ReleaseSaved(x)
  <2>1. PlacesKept BY <1>14, MovedKept DEF ReleaseSaved, Places, Subscribed
  <2>2. Rewrites(i, [row[i] EXCEPT !.owner = None, !.lease = "none"])
    BY <1>14, <1>j, ReleaseRewritten DEF ReleaseSaved
  <2>3. RowsKept BY <1>14, <1>j, <2>2, RewriteKept DEF ReleaseSaved, Rows
  <2> QED BY <1>14, <2>1, <2>3, <1>l, SameKept, ExecutorStepTyped DEF ReleaseSaved
<1>15. CASE Unsubscribe(x)
  <2>1. PlacesKept BY <1>15, MovedKept DEF Unsubscribe, Places
  <2>2. AgentTyped' BY <1>15, <1>k, ConstantsTyped DEF Unsubscribe, AgentTyped, Kinds
  <2> QED BY <1>15, <2>1, <2>2, <1>l, SameKept, ExecutorStepTyped DEF Unsubscribe
<1> QED
  BY <1>1, <1>2, <1>3, <1>4, <1>5, <1>6, <1>7, <1>8, <1>9, <1>10, <1>11, <1>12, <1>13, <1>14,
     <1>15 DEF Execute

\* The events of its agent.
LEMMA ConverseTyped ==
  ASSUME TypeInv, NotesTyped', NEW x \in Executions, Converse(x)
  PROVE  TypeInv'
BY OthersIdle, EmitTyped
DEF Converse, Progress, AskQuestion, Complete, AgentFails, Kinds, Places, Subscribed, Beating

\* Its saver, its heartbeat and its status queue.
LEMMA BackgroundTyped ==
  ASSUME TypeInv, NotesTyped', NEW x \in Executions, Saver(x) \/ Heartbeat(x) \/ MarkWaiting(x)
  PROVE  TypeInv'
<1> DEFINE i == inv[x]
<1>i. pc[x] # "unused"
  BY DEF TypeInv, ExecutionShape, Saver, SaverChecks, SaverWrites, Heartbeat, HeartbeatReads,
         HeartbeatSaves, MarkWaiting, Beating
<1>j. /\ i \in Invocations /\ row \in Table /\ row[i] \in Rows /\ row[i].born
  BY <1>i, Dispatched
<1>k. AgentTyped BY DEF TypeInv, TypeOK, AgentTyped
<1>l. IdleKept BY <1>i, OthersIdle
<1> USE DEF tables, dispatch, agent, requests
<1>1. CASE SaverChecks(x)
  <2>1. /\ save' \in [Executions -> [phase : {"idle", "check", "write"}, message : AgentStates]]
        /\ next' \in [Executions -> AgentStates]
    <3>1. CASE Owns(x) BY <1>1, <1>k, <3>1 DEF SaverChecks, AgentTyped
    <3>2. CASE ~Owns(x) BY <1>1, <1>k, <3>2, NextSaveTyped DEF SaverChecks
    <3> QED BY <3>1, <3>2
  <2>2. AgentTyped' BY <1>1, <1>k, <2>1 DEF SaverChecks, AgentTyped
  <2> QED BY <1>1, <2>2, <1>l, SameKept, ExecutorStepTyped DEF SaverChecks
<1>2. CASE SaverWrites(x)
  <2>1. save[x].message \in AgentStates BY <1>k DEF AgentTyped
  <2>2. AgentTyped' BY <1>2, <1>k, <2>1, NextSaveTyped DEF SaverWrites, AgentTyped, AgentStates
  <2>3. Rewrites(i, [row[i] EXCEPT !.state = save[x].message])
    BY <1>2, <1>j, <2>1, StateRewritten DEF SaverWrites
  <2>4. RowsKept BY <1>j, <2>3, RewriteKept DEF Rows
  <2> QED BY <1>2, <2>2, <2>4, <1>l, SameKept, ExecutorStepTyped DEF SaverWrites
<1>3. CASE HeartbeatReads(x)
  <2>1. AgentTyped' BY <1>3, <1>k DEF HeartbeatReads, AgentTyped
  <2> QED BY <1>3, <2>1, <1>l, SameKept, ExecutorStepTyped DEF HeartbeatReads
<1>4. CASE HeartbeatSaves(x)
  <2>1. AgentTyped' BY <1>4, <1>k DEF HeartbeatSaves, AgentTyped
  <2>2. Rewrites(i, [row[i] EXCEPT !.lease = "live"])
    BY <1>4, <1>j, LeaseRewritten DEF HeartbeatSaves
  <2>3. RowsKept BY <1>j, <2>2, RewriteKept DEF Rows
  <2> QED BY <1>4, <2>1, <2>3, <1>l, SameKept, ExecutorStepTyped DEF HeartbeatSaves
<1>5. CASE MarkWaiting(x)
  <2>1. AgentTyped' BY <1>5, <1>k DEF MarkWaiting, AgentTyped
  <2>2. TaskKept BY <1>5, <1>j, TaskMarked DEF MarkWaiting, Running
  <2> QED BY <1>5, <2>1, <2>2, <1>l, SameKept, ExecutorStepTyped DEF MarkWaiting
<1> QED BY <1>1, <1>2, <1>3, <1>4, <1>5 DEF Saver, Heartbeat

\* A dispatch takes an execution that was never used.
LEMMA DispatchTyped ==
  ASSUME TypeInv, NEW x \in Executions, NEW i \in Invocations,
         NEW e \in {"none", "error", "answered"}, NEW place \in {"new", "blocked"},
         Dispatch(x, i, e, place)
  PROVE  /\ inv' \in [Executions -> Invocations \union {None}]
         /\ proc' \in [Executions -> Processes \union {None}]
         /\ pc' \in [Executions -> Places]
         /\ known' \in [Executions -> Kinds]
         /\ UNCHANGED <<mem, save, next, asked, aborted, failed>>
         /\ pc[x] = "unused" /\ pc'[x] = place /\ inv'[x] = i /\ known'[x] = e
         /\ proc'[x] \in Processes
         /\ \A y \in Executions : y # x => /\ inv'[y] = inv[y] /\ proc'[y] = proc[y]
                                           /\ pc'[y] = pc[y] /\ known'[y] = known[y]
BY NoneAssumption DEF TypeInv, TypeOK, Dispatch, Places, Subscribed, Kinds

\* The state an invocation is created with.
BirthState(parent, blocked) ==
  IF blocked THEN [event |-> "error", pending |-> parent # None /\ row[parent].state.pending]
             ELSE NoState

\* An invocation that is created is dispatched at once.
LEMMA InvokeTyped ==
  ASSUME TypeInv, NEW i \in Invocations, NEW parent \in Invocations \union {None},
         NEW x \in Executions, NEW blocked \in Blocking, Invoke(i, parent, x, blocked)
  PROVE  /\ Rewrites(i, [row[i] EXCEPT !.born = TRUE, !.parent = parent,
                                       !.state = BirthState(parent, blocked)])
         /\ Dispatch(x, i, IF blocked THEN "error" ELSE "none", IF blocked THEN "blocked" ELSE "new")
         /\ UNCHANGED <<old, beat, requests, crashed>>
<1>1. BirthState(parent, blocked) \in AgentStates
  BY ConstantsTyped DEF BirthState, AgentStates, Kinds
<1>2. row' = [row EXCEPT ![i].born = TRUE, ![i].parent = parent,
                         ![i].state = BirthState(parent, blocked)]
  BY DEF Invoke, BirthState
<1>3. row \in Table BY DEF TypeInv, TypeOK, Table
<1>4. Rewrites(i, [row[i] EXCEPT !.born = TRUE, !.parent = parent,
                                 !.state = BirthState(parent, blocked)])
  BY <1>1, <1>2, <1>3, BirthRewritten
<1> QED BY <1>4 DEF Invoke

\* The task of a new invocation: created, followed up, left alone or branched.
LEMMA AttachTyped ==
  ASSUME TypeInv, NEW i \in Invocations, NEW j \in Invocations, AttachInvocation(i) \/ Rebranch(j, i)
  PROVE  /\ task' \in Tasks
         /\ task'.root # None /\ task'.latest # None /\ task'.latest \in {task.latest, i}
         /\ task'.status \in {task.status, "processing"}
         /\ task'.archived = task.archived
<1> USE NoneAssumption DEF TypeInv, TypeOK, TaskShape, Tasks, Running
<1>1. CASE AttachInvocation(i)
  <2>1. CASE task.root = None BY <1>1, <2>1 DEF AttachInvocation
  <2>2. CASE task.root # None /\ task.archived BY <1>1, <2>2 DEF AttachInvocation
  <2>3. CASE task.root # None /\ ~task.archived BY <1>1, <2>3 DEF AttachInvocation
  <2> QED BY <2>1, <2>2, <2>3
<1>2. CASE Rebranch(j, i)
  BY <1>2 DEF Rebranch
<1> QED BY <1>1, <1>2

\* What keeps the types when an execution is dispatched.
LEMMA DispatchStepTyped ==
  ASSUME TypeInv, NotesTyped', NEW x \in Executions, NEW i \in Invocations,
         NEW e \in {"none", "error", "answered"}, NEW place \in {"new", "blocked"},
         Dispatch(x, i, e, place), RowsKept, row'[i].born, task' \in Tasks,
         task'.root # None, task'.latest # None, task'.latest \in {task.latest, i},
         UNCHANGED <<old, beat, requests, crashed>>
  PROVE  TypeInv'
<1>1. TypeOK'
  BY DispatchTyped DEF TypeInv, TypeOK, RowsKept, NotesTyped, Table, Tasks, requests
<1>2. TaskShape'
  BY DEF TypeInv, TypeOK, TaskShape, RowsKept, requests
<1>3. ExecutionShape'
  <2> SUFFICES ASSUME NEW y \in Executions
      PROVE  /\ pc'[y] = "unused" <=> inv'[y] = None
             /\ inv'[y] = None <=> proc'[y] = None
             /\ inv'[y] # None => row'[inv'[y]].born
             /\ pc'[y] = "unused" => save'[y].phase = "idle" /\ beat'[y] = "idle" /\ y \notin asked'
    BY DEF ExecutionShape
  <2>1. CASE y = x BY <2>1, DispatchTyped, NoneAssumption
  <2>2. CASE y # x
    <3>1. /\ inv'[y] = inv[y] /\ proc'[y] = proc[y] /\ pc'[y] = pc[y]
          /\ save'[y] = save[y] /\ beat'[y] = beat[y] /\ asked' = asked
      BY <2>2, DispatchTyped
    <3>2. inv[y] # None => inv[y] \in Invocations BY DEF TypeInv, TypeOK
    <3> QED BY <3>1, <3>2 DEF TypeInv, ExecutionShape, RowsKept
  <2> QED BY <2>1, <2>2
<1> QED BY <1>1, <1>2, <1>3 DEF TypeInv

\* The requests of the users.
LEMMA RequestTyped ==
  ASSUME TypeInv, NotesTyped', Request
  PROVE  TypeInv'
<1>1. ASSUME NEW i \in Invocations, NEW j \in Invocations, NEW x \in Executions,
             NEW blocked \in Blocking,
             NewTask(i, x, blocked) \/ FollowUp(i, j, x, blocked) \/ Edit(i, j, x, blocked)
      PROVE  TypeInv'
  <2>1. PICK parent \in Invocations \union {None} : Invoke(i, parent, x, blocked)
    BY <1>1 DEF NewTask, FollowUp, Edit, TypeInv, TypeOK, Rows
  <2>2. AttachInvocation(i) \/ Rebranch(j, i) BY <1>1 DEF NewTask, FollowUp, Edit
  <2> DEFINE r == [row[i] EXCEPT !.born = TRUE, !.parent = parent,
                                 !.state = BirthState(parent, blocked)]
  <2>3. Rewrites(i, r) /\ r.born
    <3>1. Rewrites(i, r) BY <2>1, InvokeTyped
    <3>2. row[i] \in Rows BY DEF TypeInv, TypeOK
    <3> QED BY <3>1, <3>2 DEF Rows
  <2>4. RowsKept /\ row'[i].born BY <2>3, RewriteKept DEF Rewrites
  <2>5. CASE blocked
    BY <2>1, <2>2, <2>4, <2>5, InvokeTyped, AttachTyped, DispatchStepTyped
  <2>6. CASE ~blocked
    BY <2>1, <2>2, <2>4, <2>6, InvokeTyped, AttachTyped, DispatchStepTyped
  <2> QED BY <2>5, <2>6
<1>2. ASSUME NEW i \in Invocations, NEW x \in Executions, NEW blocked \in Blocking,
             AnswerQuestion(i, x, blocked)
      PROVE  TypeInv'
  <2> DEFINE s == [event |-> IF blocked THEN "error" ELSE "answered", pending |-> FALSE]
             r == [row[i] EXCEPT !.state = s, !.owner = None, !.lease = "none",
                                 !.cancel = FALSE, !.started = blocked /\ @]
  <2>1. s \in AgentStates /\ blocked \in BOOLEAN /\ row \in Table
    BY BlockingAssumption DEF AgentStates, Kinds, TypeInv, TypeOK, Table
  <2>2. row' = [row EXCEPT ![i].state = s, ![i].owner = None, ![i].lease = "none",
                           ![i].cancel = FALSE, ![i].started = blocked /\ @]
    BY <1>2 DEF AnswerQuestion
  <2>3. Rewrites(i, r) BY <2>1, <2>2, AnswerRewritten
  <2>4. RowsKept /\ row'[i].born
    <3>1. r.born <=> row[i].born BY DEF TypeInv, TypeOK, Rows
    <3>2. row'[i] = r BY <2>3 DEF Rewrites
    <3>3. row[i].born BY <1>2 DEF AnswerQuestion, Answerable
    <3> QED BY <2>3, <3>1, <3>2, <3>3, RewriteKept
  <2>5. TaskKept /\ task'.root # None /\ task'.latest # None /\ task'.latest \in {task.latest, i}
    BY <1>2, NoneAssumption
    DEF AnswerQuestion, Answerable, TypeInv, TypeOK, TaskShape, TaskKept, Tasks, Running, Terminal
  <2>6. UNCHANGED <<old, beat, requests, crashed>> BY <1>2 DEF AnswerQuestion
  <2>7. CASE blocked
    <3>1. UNCHANGED <<dispatch, pc, agent>> BY <1>2, <2>7 DEF AnswerQuestion
    <3> QED BY <2>4, <2>5, <2>6, <3>1, SameKept, ExecutorStepTyped DEF dispatch
  <2>8. CASE ~blocked
    <3>1. Dispatch(x, i, "answered", "new") BY <1>2, <2>8 DEF AnswerQuestion
    <3> QED BY <2>4, <2>5, <2>6, <3>1, DispatchStepTyped DEF TaskKept
  <2> QED BY <2>7, <2>8
<1>3. ASSUME NEW i \in Invocations, RequestCancel(i)
      PROVE  TypeInv'
  <2> DEFINE r == [row[i] EXCEPT !.cancel = (@ \/ ~row[i].recovered)]
  <2>1. Rewrites(i, r) BY <1>3, CancelRewritten DEF RequestCancel, TypeInv, TypeOK, Table
  <2>2. RowsKept
    <3>1. r.born <=> row[i].born BY DEF TypeInv, TypeOK, Rows
    <3> QED BY <2>1, <3>1, RewriteKept
  <2>3. cancels' \in 0..MaxCancels /\ row[i].born /\ command' = [inv |-> i, at |-> "publish"]
    BY <1>3, CancelsAssumption DEF RequestCancel, TypeInv, TypeOK
  <2>4. UNCHANGED <<task, old, inv, proc, pc, agent, beat, sweep, crashed>>
    BY <1>3 DEF RequestCancel, dispatch
  <2> QED BY <2>2, <2>3, <2>4, SameKept, StepTyped DEF TypeInv, TypeOK, TaskShape
<1>4. CASE Archive
  <2>1. TaskKept BY <1>4 DEF Archive, TypeInv, TypeOK, TaskKept, Tasks
  <2>2. AgentTyped' /\ IdleKept
    BY <1>4 DEF Archive, Listening, TypeInv, TypeOK, ExecutionShape, AgentTyped, IdleKept
  <2>3. UNCHANGED <<row, old, dispatch, pc, requests, crashed>> BY <1>4 DEF Archive
  <2> QED BY <2>1, <2>2, <2>3, SameKept, ExecutorStepTyped DEF dispatch
<1> QED BY <1>1, <1>2, <1>3, <1>4 DEF Request

\* Recovery and release write the row of one invocation, that was created.
LEMMA RecoverTyped ==
  ASSUME TypeInv, NEW i \in Invocations, row[i].born, Recover(i) \/ Release(i)
  PROVE  RowsKept /\ TaskKept
<1>0. row \in Table /\ row[i] \in Rows BY DEF TypeInv, TypeOK, Table
<1>1. CASE UNCHANGED tables BY <1>1, SameKept DEF tables
<1>2. CASE Recover(i) /\ ~UNCHANGED tables
  <2> DEFINE r == [row[i] EXCEPT !.state = ErrorState(i), !.recovered = TRUE, !.owner = None,
                                 !.lease = "none"]
  <2>1. Rewrites(i, r) BY <1>0, <1>2, ErrorStateTyped, RecoveryRewritten DEF Recover
  <2>2. r.born <=> row[i].born BY <1>0 DEF Rows
  <2>3. TaskKept
    <3>1. task' = [task EXCEPT !.status = "error"] /\ task.latest = i BY <1>2 DEF Recover
    <3> QED BY <3>1, NoneAssumption DEF TypeInv, TypeOK, TaskShape, TaskKept, Tasks, Terminal
  <2> QED BY <2>1, <2>2, <2>3, RewriteKept
<1>3. CASE Release(i) /\ ~UNCHANGED tables
  <2> DEFINE r == [row[i] EXCEPT !.owner = None, !.lease = "none"]
  <2>1. Rewrites(i, r) BY <1>0, <1>3, ReleaseRewritten DEF Release
  <2>2. r.born <=> row[i].born BY <1>0 DEF Rows
  <2>3. TaskKept
    <3>1. task' = task \/ (task' = [task EXCEPT !.status = "waiting"] /\ task.latest = i)
      BY <1>3 DEF Release
    <3> QED BY <3>1, NoneAssumption DEF TypeInv, TypeOK, TaskShape, TaskKept, Tasks, Running
  <2> QED BY <2>1, <2>2, <2>3, RewriteKept
<1> QED BY <1>1, <1>2, <1>3

\* Cancels and sweeps.
LEMMA RecoveryTyped ==
  ASSUME TypeInv, NotesTyped',
         PublishCancel \/ CancelRecovers \/ OthersMove \/ SweepReads \/ SweepActs
  PROVE  TypeInv'
<1> USE DEF dispatch
<1>1. CASE PublishCancel
  <2>1. AgentTyped' /\ IdleKept
    BY <1>1 DEF PublishCancel, Listening, TypeInv, TypeOK, ExecutionShape, AgentTyped, IdleKept
  <2>2. UNCHANGED <<row, task, old, inv, proc, pc, sweep, cancels, crashed>>
    BY <1>1 DEF PublishCancel, tables
  <2>3. /\ command' \in [inv : Invocations \union {None}, at : {"publish", "recover"}]
        /\ command'.inv # None => row[command'.inv].born
    BY <1>1, ConstantsTyped DEF PublishCancel, TypeInv, TypeOK, TaskShape, NoCommand
  <2> QED BY <2>1, <2>2, <2>3, SameKept, StepTyped DEF TypeInv, TypeOK, TaskShape
<1>2. CASE CancelRecovers
  <2>1. RowsKept /\ TaskKept
    <3>1. CASE UNCHANGED tables BY <3>1, SameKept DEF tables
    <3>2. CASE Recover(command.inv)
      BY <1>2, <3>2, RecoverTyped DEF CancelRecovers, TypeInv, TypeOK, TaskShape
    <3> QED BY <1>2, <3>1, <3>2 DEF CancelRecovers
  <2>2. UNCHANGED <<old, inv, proc, pc, agent, beat, sweep, cancels, crashed>> /\ command' = NoCommand
    BY <1>2 DEF CancelRecovers
  <2> QED BY <2>1, <2>2, SameKept, StepTyped, ConstantsTyped DEF TypeInv, TypeOK, TaskShape, NoCommand
<1>3. CASE SweepReads
  <2>1. /\ sweep' \in [inv : Invocations \union {None}, act : {"recover", "release"}]
        /\ sweep'.inv # None => row[sweep'.inv].born
    BY <1>3 DEF SweepReads, TypeInv, TypeOK, TaskShape
  <2>2. UNCHANGED <<row, task, old, inv, proc, pc, agent, beat, command, cancels, crashed>>
    BY <1>3 DEF SweepReads, tables
  <2> QED BY <2>1, <2>2, SameKept, StepTyped DEF TypeInv, TypeOK, TaskShape
<1>4. CASE SweepActs
  <2>1. RowsKept /\ TaskKept
    BY <1>4, RecoverTyped DEF SweepActs, TypeInv, TypeOK, TaskShape
  <2>2. UNCHANGED <<old, inv, proc, pc, agent, beat, command, cancels, crashed>> /\ sweep' = NoSweep
    BY <1>4 DEF SweepActs
  <2> QED BY <2>1, <2>2, SameKept, StepTyped, ConstantsTyped DEF TypeInv, TypeOK, TaskShape, NoSweep
<1>5. CASE OthersMove
  <2>1. UNCHANGED <<row, task, old, inv, proc, pc, agent, beat, requests, crashed>>
    BY <1>5 DEF OthersMove
  <2> QED BY <2>1, SameKept, ExecutorStepTyped
<1> QED BY <1>1, <1>2, <1>3, <1>4, <1>5

\* What time does.
LEMMA TimeTyped ==
  ASSUME TypeInv, NotesTyped', NEW i \in Invocations, LeaseExpires(i) \/ GraceOver(i)
  PROVE  TypeInv'
<1> USE DEF dispatch, requests
<1>1. CASE LeaseExpires(i)
  <2>1. Rewrites(i, [row[i] EXCEPT !.lease = "expired"])
    BY <1>1, LeaseRewritten DEF LeaseExpires, TypeInv, TypeOK, Table
  <2>2. RowsKept BY <2>1, RewriteKept DEF TypeInv, TypeOK, Rows
  <2>3. UNCHANGED <<task, old, dispatch, pc, agent, beat, requests, crashed>>
    BY <1>1 DEF LeaseExpires
  <2> QED BY <2>2, <2>3, SameKept, ExecutorStepTyped
<1>2. CASE GraceOver(i)
  <2>1. old' \subseteq Invocations BY <1>2 DEF GraceOver, TypeInv, TypeOK
  <2>2. UNCHANGED <<row, task, inv, proc, pc, agent, beat, sweep, command, cancels, crashed>>
    BY <1>2 DEF GraceOver, tables
  <2> QED BY <2>1, <2>2, SameKept, StepTyped DEF TypeInv, TypeOK, TaskShape
<1> QED BY <1>1, <1>2

\* A process that dies ends its executions.
LEMMA CrashTyped ==
  ASSUME TypeInv, NotesTyped', NEW p \in Processes, Crash(p)
  PROVE  TypeInv'
<1>1. AgentTyped' /\ IdleKept
  BY ConstantsTyped
  DEF Crash, TypeInv, TypeOK, ExecutionShape, AgentTyped, IdleKept, IdleSave, Kinds
<1>2. PlacesKept
  BY NoneAssumption DEF Crash, TypeInv, TypeOK, ExecutionShape, PlacesKept, Places
<1>3. /\ UNCHANGED <<row, task, old, inv, proc, sweep, cancels>>
      /\ crashed' \subseteq Processes /\ command' \in {command, NoCommand}
  BY DEF Crash, tables, dispatch, TypeInv, TypeOK
<1> QED
  BY <1>1, <1>2, <1>3, SameKept, StepTyped, ConstantsTyped DEF TypeInv, TypeOK, TaskShape, NoCommand

\* Nothing happens.
LEMMA StutterTyped ==
  ASSUME TypeInv, NotesTyped', UNCHANGED vars
  PROVE  TypeInv'
BY SameKept, ExecutorStepTyped DEF vars, tables, dispatch

\* Every step.
LEMMA NextTyped ==
  ASSUME TypeInv, [Next]_vars
  PROVE  TypeInv'
BY NotesKept, ExecuteTyped, ConverseTyped, BackgroundTyped, RequestTyped, RecoveryTyped, TimeTyped,
   CrashTyped, StutterTyped DEF Next

\* The types of AgentRuntime, with the shape of the task and of the executions.
THEOREM AgentTypesHold == Spec => []TypeInv
<1>1. Init => TypeInv BY TypeInit
<1>2. TypeInv /\ [Next]_vars => TypeInv' BY NextTyped
<1> QED BY <1>1, <1>2, PTL DEF Spec

\* TypeOK: the tables, the executors and the requests keep their types.
THEOREM AgentTypeCorrect == Spec => []TypeOK
<1>1. TypeInv => TypeOK BY DEF TypeInv
<1> QED BY <1>1, AgentTypesHold, PTL

----------------------------------------------------------------------------
(* The invariant behind the action properties and CompleteIsStored.        *)

\* A recovered invocation has no owner.
RecoveredUnowned == \A i \in Invocations : row[i].recovered => row[i].owner = None

ActiveAt(place) == place \notin {"unused", "done", "dead"}
Active(x) == ActiveAt(pc[x])

\* Executions are dispatched in their order.
InOrder == \A x, y \in Executions : y < x /\ pc[x] # "unused" => pc[y] # "unused"

\* Of the executions of an invocation the last one leads, unless one that it has
\* overtaken wrote the row or the task all the same.
Leads(x) == ~Overtaken(x) /\ inv[x] \notin raced

\* The verdict on the task is no longer open to an execution of i.
Closed(i) == task.latest # i \/ task.archived \/ task.status \in Terminal

EndsWell == {"completed", "interrupted"}

\* Before the agent runs; where its state may be on its way to the row; where the
\* lease is held; after the verdict.
Quiet == {"unused", "new", "blocked", "subscribed", "leased", "ready"}
Storing == {"running", "asked", "ended", "stopping", "failWrite"}
Held == {"leased", "ready", "running", "asked", "ended", "stopping", "failing", "failWrite",
         "verdict"}
Leaving == {"release", "releasing", "cleanup"}

\* Where the agent of an execution, its saver and its failure can be.
ShapeOf(x) ==
  /\ pc[x] \in Quiet => mem[x].event = "none"
  /\ pc[x] \in {"asked", "ended"} => mem[x].event # "none"
  /\ save[x].phase # "idle" => pc[x] \in Storing /\ save[x].message.event # "none"
  /\ x \in failed => /\ pc[x] \notin Quiet \union {"running", "asked", "ended"}
                     /\ mem[x].event \in {"none", "error"}
  /\ pc[x] \in {"failing", "failWrite"} => x \in failed

\* What the leading execution knows to be stored as the end of the turn is stored.
KnownOf(x) ==
  Leads(x) /\ Active(x) /\ known[x] \in EndsWell /\ ~Closed(inv[x]) =>
    row[inv[x]].state.event = known[x] /\ pc[x] # "failWrite"

\* When it stored nothing it still owns the row, and its state is on the way.
NothingOf(x) ==
  Leads(x) /\ pc[x] \in Held \union {"new", "subscribed"} /\ known[x] = "none" /\ x \notin failed
  /\ ~Closed(inv[x]) =>
    /\ row[inv[x]].state = NoState
    /\ pc[x] \in Held =>
         /\ row[inv[x]].owner = proc[x] /\ ~row[inv[x]].recovered
         /\ mem[x].event # "none" => save[x].phase # "idle"

ExecutionInv == \A x \in Executions : ShapeOf(x) /\ KnownOf(x) /\ NothingOf(x)

\* A complete task has its end stored, and only those left who could store another
\* that were overtaken.
CompleteIsFinal ==
  task.status = "complete" /\ task.latest \notin raced =>
    /\ row[task.latest].state.event \in EndsWell
    /\ \A x \in Executions :
         Active(x) /\ inv[x] = task.latest /\ ~Overtaken(x) => pc[x] \in Leaving

AgentInv == TypeInv /\ InOrder /\ ExecutionInv /\ CompleteIsFinal

\* Before the first message nothing runs.
LEMMA AgentInvInit == Init => AgentInv
<1> SUFFICES ASSUME Init PROVE AgentInv
  OBVIOUS
<1>1. InOrder BY DEF Init, InOrder
<1>2. ExecutionInv
  BY DEF Init, ExecutionInv, ShapeOf, KnownOf, NothingOf, Active, ActiveAt, NoState, IdleSave, Quiet,
         Storing, Held
<1>3. CompleteIsFinal BY DEF Init, CompleteIsFinal
<1> QED BY <1>1, <1>2, <1>3, TypeInit DEF AgentInv

----------------------------------------------------------------------------
(* What a step of one execution leaves alone.                              *)

\* It moves its own agent and no other; it is never created, and over for good.
OthersAlone(x) ==
  /\ inv' = inv /\ proc' = proc
  /\ \A y \in Executions : y # x =>
       /\ pc'[y] = pc[y] /\ mem'[y] = mem[y] /\ known'[y] = known[y] /\ save'[y] = save[y]
       /\ y \in failed' <=> y \in failed
  /\ ActiveAt(pc'[x]) => Active(x)
  /\ pc[x] \in Leaving => ~ActiveAt(pc'[x]) \/ pc'[x] \in Leaving

\* It writes the row of its own invocation, and the state of it only while it has one to store.
OwnRow(x) ==
  \A i \in Invocations :
    \/ row'[i] = row[i]
    \/ /\ i = inv[x]
       /\ row'[i].state # row[i].state => pc[x] \in Storing
       /\ row'[i].owner # row[i].owner => Active(x)
       /\ row'[i].recovered = row[i].recovered
       /\ row'[i].recovered /\ row[i].owner = None => row'[i].owner = None

\* It leaves a task that is over alone, and completes it with a verdict only.
OwnTask(x) ==
  /\ task'.latest = task.latest /\ task'.archived = task.archived
  /\ task.status \in Terminal => task'.status = task.status
  /\ task'.status = "complete" => task.status = "complete" \/ Verdict(x)

\* The order of the executions stays.
LEMMA OrderKept ==
  ASSUME TypeInv, InOrder, TypeInv', [Next]_vars
  PROVE  InOrder'
<1>1. CASE inv' = inv
  BY <1>1 DEF TypeInv, ExecutionShape, InOrder
<1>2. ASSUME NEW x \in Executions, NEW i, NEW e, NEW place, Dispatch(x, i, e, place)
      PROVE  InOrder'
  <2>1. pc \in [Executions -> Places] /\ pc' = [pc EXCEPT ![x] = place] /\ pc[x] = "unused"
    BY <1>2 DEF Dispatch, TypeInv, TypeOK
  <2>2. \A y \in Executions : y < x => pc[y] # "unused" BY <1>2 DEF Dispatch
  <2>3. inv' = [inv EXCEPT ![x] = i] /\ inv \in [Executions -> Invocations \union {None}]
    BY <1>2 DEF Dispatch, TypeInv, TypeOK
  <2>4. ASSUME NEW a \in Executions, NEW b \in Executions, b < a, pc'[a] # "unused"
        PROVE  pc'[b] # "unused"
    <3>1. a \in Nat /\ b \in Nat /\ x \in Nat BY NumbersAssumption
    <3>2. CASE a = x BY <2>1, <2>2, <2>4, <3>1, <3>2
    <3>3. CASE a # x
      <4>1. pc[b] # "unused" BY <2>1, <2>4, <3>3 DEF InOrder
      <4> QED BY <2>1, <4>1
    <3> QED BY <3>2, <3>3
  <2> QED BY <2>4 DEF InOrder
<1>3. ASSUME NEW x \in Executions, ExecutionStep(x)
      PROVE  InOrder'
  BY <1>1, <1>3, ExecutionRemembers
<1>4. CASE Request
  <2>1. ASSUME NEW i, NEW j, NEW x \in Executions, NEW blocked, Invoke(i, j, x, blocked)
        PROVE  InOrder'
    BY <1>2, <2>1 DEF Invoke
  <2>2. ASSUME NEW i, NEW x \in Executions, NEW blocked, AnswerQuestion(i, x, blocked)
        PROVE  InOrder'
    BY <1>1, <1>2, <2>2 DEF AnswerQuestion, dispatch
  <2>3. CASE Archive \/ \E i \in Invocations : RequestCancel(i)
    BY <1>1, <2>3 DEF RequestCancel, Archive, dispatch
  <2> QED BY <1>4, <2>1, <2>2, <2>3 DEF Request, NewTask, FollowUp, Edit
<1>5. CASE PublishCancel \/ CancelRecovers \/ OthersMove \/ SweepReads \/ SweepActs
  BY <1>1, <1>5 DEF PublishCancel, CancelRecovers, OthersMove, SweepReads, SweepActs, dispatch
<1>6. ASSUME NEW i \in Invocations, LeaseExpires(i) \/ GraceOver(i)
      PROVE  InOrder'
  BY <1>1, <1>6 DEF LeaseExpires, GraceOver, dispatch
<1>7. ASSUME NEW p \in Processes, Crash(p)
      PROVE  InOrder'
  BY <1>1, <1>7 DEF Crash, dispatch
<1>8. CASE UNCHANGED vars BY <1>1, <1>8 DEF vars, dispatch
<1> QED BY <1>3, <1>4, <1>5, <1>6, <1>7, <1>8 DEF Next, ExecutionStep

\* Of two executions of an invocation one is overtaken.
LEMMA OneLeads ==
  ASSUME NEW x \in Executions, NEW y \in Executions, x # y, inv[x] = inv[y], ~Overtaken(y)
  PROVE  Overtaken(x)
<1>1. x \in Nat /\ y \in Nat BY NumbersAssumption
<1>2. x < y \/ y < x BY <1>1
<1> QED BY <1>1, <1>2 DEF Overtaken

\* A leading execution led before, in a step that dispatches nothing.
LEMMA LedBefore ==
  ASSUME inv' = inv, raced \subseteq raced', NEW x \in Executions
  PROVE  /\ Overtaken(x)' <=> Overtaken(x)
         /\ Leads(x)' => Leads(x)
BY DEF Leads, Overtaken

\* Every step of an execution moves it alone.
LEMMA LeavesOthers ==
  ASSUME TypeInv, NEW x \in Executions, ExecutionStep(x)
  PROVE  OthersAlone(x)
<1> USE DEF TypeInv, TypeOK, OthersAlone, Active, ActiveAt, Leaving, agent
<1>0. inv' = inv /\ proc' = proc BY ExecutionRemembers
<1>1. CASE Execute(x)
  <2>1. CASE MarkBlocked(x) \/ Subscribe(x) \/ AcquireLease(x) \/ Prepare(x) \/ Start(x) \/ HandOver(x)
             \/ Flush(x)
    BY <1>0, <2>1 DEF MarkBlocked, Subscribe, AcquireLease, Prepare, Start, HandOver, Flush
  <2>2. CASE Interrupted(x) \/ PersistFinal(x)
    BY <1>0, <2>2 DEF Interrupted, Emit, QueueState, PersistFinal
  <2>3. CASE FailureChecked(x) \/ FailureSaved(x) \/ Verdict(x)
    BY <1>0, <2>3 DEF FailureChecked, FailureSaved, Verdict
  <2>4. CASE ReleaseChecked(x) \/ ReleaseSaved(x) \/ Unsubscribe(x)
    BY <1>0, <2>4 DEF ReleaseChecked, ReleaseSaved, Unsubscribe
  <2> QED BY <1>1, <2>1, <2>2, <2>3, <2>4 DEF Execute
<1>2. CASE Converse(x)
  BY <1>0, <1>2 DEF Converse, Progress, AskQuestion, Complete, AgentFails, Emit, QueueState
<1>3. CASE Saver(x) \/ Heartbeat(x) \/ MarkWaiting(x)
  BY <1>0, <1>3 DEF Saver, SaverChecks, SaverWrites, NextSave, Heartbeat, HeartbeatReads, HeartbeatSaves,
       MarkWaiting
<1> QED BY <1>1, <1>2, <1>3 DEF ExecutionStep

\* What it writes is in the row of its own invocation.
LEMMA WritesOwnRow ==
  ASSUME TypeInv, RecoveredUnowned, NEW x \in Executions, ShapeOf(x), ExecutionStep(x)
  PROVE  OwnRow(x)
<1> DEFINE i == inv[x]
<1>i. pc[x] # "unused"
  BY DEF ExecutionStep, Execute, MarkBlocked, Subscribe, AcquireLease, Prepare, Start, Interrupted,
         HandOver, PersistFinal, Flush, FailureChecked, FailureSaved, Verdict, ReleaseChecked,
         ReleaseSaved, Unsubscribe, Converse, Progress, AskQuestion, Complete, AgentFails, Saver,
         SaverChecks, SaverWrites, Heartbeat, HeartbeatReads, HeartbeatSaves, MarkWaiting, TypeInv,
         ExecutionShape, Beating
<1>j. /\ i \in Invocations /\ proc[x] \in Processes /\ row \in Table /\ row[i] \in Rows
  BY <1>i, Dispatched
<1>k. save[x].message \in AgentStates BY DEF TypeInv, TypeOK
<1>1. CASE UNCHANGED row
  BY <1>1 DEF OwnRow
<1>2. CASE AcquireLease(x) /\ ~UNCHANGED row
  <2>1. Rewrites(i, [row[i] EXCEPT !.owner = proc[x], !.started = TRUE, !.lease = "live"])
    BY <1>2, <1>j, OwnerRewritten DEF AcquireLease
  <2>2. Active(x) /\ ~row[i].recovered BY <1>2 DEF AcquireLease, Refused, Active, ActiveAt
  <2>3. row'[i].state = row[i].state /\ row'[i].recovered = row[i].recovered
    BY <1>j, <2>1 DEF Rewrites, Rows
  <2>4. \A j \in Invocations : j # i => row'[j] = row[j] BY <2>1 DEF Rewrites
  <2> QED BY <2>2, <2>3, <2>4 DEF OwnRow
<1>3. CASE SaverWrites(x) \/ FailureSaved(x)
  <2>1. Rewrites(i, [row[i] EXCEPT !.state = save[x].message])
    BY <1>3, <1>j, <1>k, StateRewritten DEF SaverWrites, FailureSaved
  <2>2. pc[x] \in Storing BY <1>3 DEF SaverWrites, FailureSaved, ShapeOf, Storing
  <2>3. row'[i].owner = row[i].owner /\ row'[i].recovered = row[i].recovered
    BY <1>j, <2>1 DEF Rewrites, Rows
  <2>4. \A j \in Invocations : j # i => row'[j] = row[j] BY <2>1 DEF Rewrites
  <2> QED BY <2>2, <2>3, <2>4 DEF OwnRow
<1>4. CASE ReleaseSaved(x)
  <2>1. Rewrites(i, [row[i] EXCEPT !.owner = None, !.lease = "none"])
    BY <1>4, <1>j, ReleaseRewritten DEF ReleaseSaved
  <2>2. Active(x) BY <1>4 DEF ReleaseSaved, Active, ActiveAt
  <2>3. /\ row'[i].state = row[i].state /\ row'[i].recovered = row[i].recovered
        /\ row'[i].owner = None
    BY <1>j, <2>1 DEF Rewrites, Rows
  <2>4. \A j \in Invocations : j # i => row'[j] = row[j] BY <2>1 DEF Rewrites
  <2> QED BY <2>2, <2>3, <2>4 DEF OwnRow
<1>5. CASE HeartbeatSaves(x)
  <2>1. Rewrites(i, [row[i] EXCEPT !.lease = "live"])
    BY <1>5, <1>j, LeaseRewritten DEF HeartbeatSaves
  <2>2. /\ row'[i].state = row[i].state /\ row'[i].recovered = row[i].recovered
        /\ row'[i].owner = row[i].owner
    BY <1>j, <2>1 DEF Rewrites, Rows
  <2>3. \A j \in Invocations : j # i => row'[j] = row[j] BY <2>1 DEF Rewrites
  <2> QED BY <2>2, <2>3 DEF OwnRow
<1>6. UNCHANGED row \/ AcquireLease(x) \/ SaverWrites(x) \/ FailureSaved(x) \/ ReleaseSaved(x)
      \/ HeartbeatSaves(x)
  BY DEF ExecutionStep, Execute, MarkBlocked, Subscribe, Prepare, Start, Interrupted, Emit,
         HandOver, PersistFinal, Flush, FailureChecked, Verdict, ReleaseChecked,
         Unsubscribe, Converse, Progress, AskQuestion, Complete, AgentFails, Saver,
         SaverChecks, Heartbeat, HeartbeatReads, MarkWaiting, tables
<1> QED BY <1>1, <1>2, <1>3, <1>4, <1>5, <1>6

\* Every step of an execution leaves a task that is over alone.
LEMMA LeavesTaskOver ==
  ASSUME TypeInv, NEW x \in Executions, ExecutionStep(x)
  PROVE  OwnTask(x)
<1>1. CASE UNCHANGED task
  BY <1>1 DEF OwnTask
<1>2. CASE MarkBlocked(x)
  <2>1. inv[x] \in Invocations BY <1>2, Dispatched DEF MarkBlocked
  <2> QED BY <1>2, <2>1, TaskMarked DEF MarkBlocked, OwnTask, TaskKept, Terminal
<1>3. CASE Start(x)
  <2>1. inv[x] \in Invocations BY <1>3, Dispatched DEF Start
  <2> QED BY <1>3, <2>1, TaskMarked DEF Start, OwnTask, TaskKept, Running
<1>4. CASE Verdict(x)
  <2>1. inv[x] \in Invocations BY <1>4, Dispatched DEF Verdict
  <2>2. MarkTerminal(inv[x], "complete") \/ MarkTerminal(inv[x], "error") \/ UNCHANGED task
    BY <1>4 DEF Verdict
  <2> QED BY <1>1, <1>4, <2>1, <2>2, TaskMarked DEF OwnTask, TaskKept, Terminal
<1>5. CASE MarkWaiting(x)
  <2>1. inv[x] \in Invocations
    BY <1>5, Dispatched DEF MarkWaiting, TypeInv, ExecutionShape
  <2> QED BY <1>5, <2>1, TaskMarked DEF MarkWaiting, OwnTask, TaskKept, Running
<1>6. UNCHANGED task \/ MarkBlocked(x) \/ Start(x) \/ Verdict(x) \/ MarkWaiting(x)
  BY DEF ExecutionStep, Execute, Subscribe, AcquireLease, Prepare, Interrupted, Emit,
         HandOver, PersistFinal, Flush, FailureChecked, FailureSaved, ReleaseChecked, ReleaseSaved,
         Unsubscribe, Converse, Progress, AskQuestion, Complete, AgentFails, Saver,
         SaverChecks, SaverWrites, Heartbeat, HeartbeatReads, HeartbeatSaves, tables
<1> QED BY <1>1, <1>2, <1>3, <1>4, <1>5, <1>6

\* What is true of the other executions stays true.
LEMMA OthersKept ==
  ASSUME AgentInv, NEW x \in Executions, OthersAlone(x), OwnRow(x), OwnTask(x), Remember(x),
         raced \subseteq raced', NEW y \in Executions, y # x
  PROVE  ShapeOf(y)' /\ KnownOf(y)' /\ NothingOf(y)'
<1> USE DEF AgentInv, ExecutionInv
<1>1. ShapeOf(y)' BY DEF OthersAlone, ShapeOf
<1>2. Active(y)' <=> Active(y) BY DEF OthersAlone, Active
<1>3. Closed(inv[y]) => Closed(inv[y])' BY DEF OthersAlone, OwnTask, Closed
<1>4. Active(y) => inv[y] \in Invocations BY Dispatched DEF Active, ActiveAt
<1>l. Leads(y)' => Leads(y) BY LedBefore
<1>5. Active(y) /\ Leads(y)' =>
        /\ row'[inv[y]].state = row[inv[y]].state
        /\ row'[inv[y]].owner = row[inv[y]].owner
        /\ row'[inv[y]].recovered = row[inv[y]].recovered
  <2> SUFFICES ASSUME Active(y), Leads(y)'
      PROVE  /\ row'[inv[y]].state = row[inv[y]].state
             /\ row'[inv[y]].owner = row[inv[y]].owner
             /\ row'[inv[y]].recovered = row[inv[y]].recovered
    OBVIOUS
  <2>1. CASE inv[y] # inv[x] BY <1>4, <2>1 DEF OwnRow
  <2>2. CASE inv[y] = inv[x]
    <3>1. ~Overtaken(y) /\ inv[y] \notin raced' BY <1>l DEF Leads
    <3>2. Overtaken(x) BY <2>2, <3>1, OneLeads
    <3> QED BY <2>2, <3>1, <3>2
  <2> QED BY <2>1, <2>2
<1>6. KnownOf(y)' BY <1>2, <1>3, <1>5, <1>l DEF KnownOf, OthersAlone
<1>7. NothingOf(y)'
  BY <1>2, <1>3, <1>5, <1>l DEF NothingOf, OthersAlone, Active, ActiveAt, Held
<1> QED BY <1>1, <1>6, <1>7

\* A complete task stays so with its end, when no verdict is given.
LEMMA CompleteStays ==
  ASSUME AgentInv, NEW x \in Executions, OthersAlone(x), OwnRow(x), OwnTask(x), Remember(x),
         raced \subseteq raced', pc[x] # "unused", ~Verdict(x)
  PROVE  CompleteIsFinal'
<1> SUFFICES ASSUME task'.status = "complete", task'.latest \notin raced'
    PROVE  /\ row'[task'.latest].state.event \in EndsWell
           /\ \A y \in Executions :
                Active(y)' /\ inv'[y] = task'.latest /\ ~Overtaken(y)' => pc'[y] \in Leaving
  BY DEF CompleteIsFinal
<1>1. task.status = "complete" /\ task'.latest = task.latest BY DEF OwnTask
<1>2. /\ row[task.latest].state.event \in EndsWell
      /\ \A y \in Executions :
           Active(y) /\ inv[y] = task.latest /\ ~Overtaken(y) => pc[y] \in Leaving
  BY <1>1 DEF AgentInv, CompleteIsFinal
<1>3. task.latest \in Invocations BY <1>1 DEF AgentInv, TypeInv, TypeOK, TaskShape
<1>4. row'[task.latest].state = row[task.latest].state
  <2>1. CASE row' = row BY <2>1
  <2>2. CASE inv[x] = task.latest /\ row' # row
    <3>1. ~Overtaken(x) BY <1>1, <2>2
    <3>2. pc[x] \notin Storing
      BY <1>2, <2>2, <3>1 DEF Active, ActiveAt, Storing, Leaving
    <3> QED BY <1>3, <3>2 DEF OwnRow
  <2>3. CASE inv[x] # task.latest BY <1>3, <2>3 DEF OwnRow
  <2> QED BY <2>1, <2>2, <2>3
<1>5. ASSUME NEW y \in Executions, Active(y)', inv'[y] = task.latest, ~Overtaken(y)'
      PROVE  pc'[y] \in Leaving
  <2>1. ~Overtaken(y) BY <1>5, LedBefore DEF OthersAlone
  <2> QED BY <1>2, <1>5, <2>1 DEF OthersAlone, Active
<1> QED BY <1>1, <1>2, <1>4, <1>5

----------------------------------------------------------------------------
(* What a step of an execution makes of the execution itself.              *)

\* The part of the invariant that is about x.
Sound(x) == ShapeOf(x) /\ KnownOf(x) /\ NothingOf(x)

\* The steps of the executor.
LEMMA ExecuteSound ==
  ASSUME AgentInv, NEW x \in Executions, Execute(x), OwnTask(x), Leads(x)' => Leads(x)
  PROVE  Sound(x)'
<1> DEFINE i == inv[x]
<1>a. TypeInv /\ ShapeOf(x) /\ KnownOf(x) /\ NothingOf(x)
  BY DEF AgentInv, ExecutionInv
<1>b. ExecutionStep(x) BY DEF ExecutionStep
<1>c. inv' = inv /\ proc' = proc BY ExecutionRemembers DEF ExecutionStep
<1>d. Closed(i) => Closed(i)' BY <1>c DEF OwnTask, Closed
<1>e. /\ pc \in [Executions -> Places] /\ mem \in [Executions -> AgentStates]
      /\ known \in [Executions -> Kinds] /\ next \in [Executions -> AgentStates]
      /\ save \in [Executions -> [phase : {"idle", "check", "write"}, message : AgentStates]]
      /\ failed \subseteq Executions
  BY <1>a DEF TypeInv, TypeOK
<1>f. pc[x] # "unused" => i \in Invocations /\ proc[x] \in Processes /\ row \in Table /\ row[i] \in Rows
  BY <1>a, Dispatched
<1> USE DEF dispatch, agent, Sound, ShapeOf, KnownOf, NothingOf, Active, ActiveAt, Quiet, Storing, Held
<1>1. CASE MarkBlocked(x) BY <1>a, <1>c, <1>d, <1>e, <1>1 DEF MarkBlocked
<1>2. CASE Subscribe(x) BY <1>a, <1>c, <1>d, <1>e, <1>2 DEF Subscribe, tables
<1>3. CASE AcquireLease(x)
  <2>1. CASE Refused(i, proc[x]) BY <1>a, <1>c, <1>d, <1>e, <1>3, <2>1 DEF AcquireLease
  <2>2. CASE ~Refused(i, proc[x])
    <3>1. Rewrites(i, [row[i] EXCEPT !.owner = proc[x], !.started = TRUE, !.lease = "live"])
      BY <1>3, <1>f, <2>2, OwnerRewritten DEF AcquireLease
    <3>2. /\ row'[i].state = row[i].state /\ row'[i].owner = proc[x] /\ ~row'[i].recovered
      BY <1>3, <1>f, <2>2, <3>1 DEF AcquireLease, Refused, Rewrites, Rows
    <3>3. pc'[x] = "leased" /\ pc[x] = "subscribed" /\ UNCHANGED <<mem, known, save, failed>>
      BY <1>3, <1>e, <2>2 DEF AcquireLease
    <3> QED BY <1>a, <1>c, <1>d, <3>2, <3>3
  <2> QED BY <2>1, <2>2
<1>4. CASE Prepare(x)
  <2>1. mem'[x].event = "none" /\ pc[x] = "leased"
    <3>1. mem[x] \in AgentStates /\ mem[x].event = "none" /\ pc[x] = "leased"
      BY <1>a, <1>e, <1>4 DEF Prepare
    <3> QED BY <1>e, <1>4, <3>1 DEF Prepare, AgentStates
  <2>2. /\ UNCHANGED <<row, task, known, save>>
        /\ \/ pc'[x] = "ready" /\ UNCHANGED failed
           \/ pc'[x] = "stopping" /\ failed' = failed \union {x}
    BY <1>4, <1>e DEF Prepare, tables
  <2> QED BY <1>a, <1>c, <1>d, <2>1, <2>2
<1>5. CASE Start(x) BY <1>a, <1>c, <1>d, <1>e, <1>5 DEF Start
<1>6. CASE Interrupted(x)
  <2>1. /\ mem'[x].event = "interrupted" /\ pc[x] \in {"running", "asked"} /\ pc'[x] = "ended"
        /\ UNCHANGED <<row, task, known, failed>>
    BY <1>6, <1>e DEF Interrupted, Emit, tables
  <2>2. save'[x].phase # "idle" /\ save'[x].message.event # "none"
    BY <1>a, <1>6, <1>e DEF Interrupted, Emit, QueueState
  <2> QED BY <1>a, <1>c, <1>d, <2>1, <2>2
<1>7. CASE HandOver(x) BY <1>a, <1>c, <1>d, <1>e, <1>7 DEF HandOver, tables
<1>8. CASE PersistFinal(x)
  <2>1. /\ pc[x] = "ended" /\ pc'[x] = "stopping" /\ UNCHANGED <<row, task, mem, known, failed>>
    BY <1>8, <1>e DEF PersistFinal, tables
  <2>2. save'[x].phase # "idle" /\ save'[x].message.event # "none"
    BY <1>a, <1>8, <1>e DEF PersistFinal, QueueState
  <2> QED BY <1>a, <1>c, <1>d, <2>1, <2>2
<1>9. CASE Flush(x) BY <1>a, <1>c, <1>d, <1>e, <1>9 DEF Flush, tables
<1>10. CASE FailureChecked(x)
  <2>1. CASE Owns(x) /\ row[i].state.event \notin AgentEnds
    <3>1. /\ pc[x] = "failing" /\ pc'[x] = "failWrite" /\ UNCHANGED <<row, task, mem, known, failed>>
          /\ save'[x].phase = "write" /\ save'[x].message = ErrorState(i)
      BY <1>10, <1>e, <2>1 DEF FailureChecked, tables
    <3>2. ErrorState(i).event = "error" BY <3>1, <1>f, ErrorStateTyped
    <3> QED BY <1>a, <1>c, <1>d, <2>1, <3>1, <3>2 DEF AgentEnds, EndsWell
  <2>2. CASE ~(Owns(x) /\ row[i].state.event \notin AgentEnds)
    BY <1>a, <1>c, <1>d, <1>e, <1>10, <2>2 DEF FailureChecked, tables
  <2> QED BY <2>1, <2>2
<1>11. CASE FailureSaved(x)
  <2>1. /\ pc[x] = "failWrite" /\ pc'[x] = "verdict" /\ UNCHANGED <<task, mem, known, failed>>
        /\ save'[x].phase = "idle"
    BY <1>11, <1>e DEF FailureSaved, IdleSave
  <2> QED BY <1>a, <1>c, <1>d, <2>1
<1>12. CASE Verdict(x) BY <1>a, <1>c, <1>d, <1>e, <1>12 DEF Verdict
<1>13. CASE ReleaseChecked(x) BY <1>a, <1>c, <1>d, <1>e, <1>13 DEF ReleaseChecked, tables
<1>14. CASE ReleaseSaved(x)
  <2>1. Rewrites(i, [row[i] EXCEPT !.owner = None, !.lease = "none"])
    BY <1>14, <1>f, ReleaseRewritten DEF ReleaseSaved
  <2>2. row'[i].state = row[i].state
    <3>1. row[i] \in Rows /\ row'[i] = [row[i] EXCEPT !.owner = None, !.lease = "none"]
      BY <1>14, <1>f, <2>1 DEF ReleaseSaved, Rewrites
    <3> QED BY <3>1 DEF Rows
  <2>3. pc[x] = "releasing" /\ pc'[x] = "cleanup" /\ UNCHANGED <<task, mem, known, save, failed>>
    BY <1>14, <1>e DEF ReleaseSaved
  <2> QED BY <1>a, <1>c, <1>d, <2>2, <2>3
<1>15. CASE Unsubscribe(x) BY <1>a, <1>c, <1>d, <1>e, <1>15 DEF Unsubscribe, NoState
<1> QED
  BY <1>1, <1>2, <1>3, <1>4, <1>5, <1>6, <1>7, <1>8, <1>9, <1>10, <1>11, <1>12, <1>13, <1>14,
     <1>15 DEF Execute

\* The events of its agent.
LEMMA ConverseSound ==
  ASSUME AgentInv, NEW x \in Executions, Converse(x), OwnTask(x), Leads(x)' => Leads(x)
  PROVE  Sound(x)'
<1>a. TypeInv /\ ShapeOf(x) /\ KnownOf(x) /\ NothingOf(x)
  BY DEF AgentInv, ExecutionInv
<1>c. inv' = inv /\ proc' = proc BY ExecutionRemembers DEF ExecutionStep
<1>e. /\ pc \in [Executions -> Places] /\ mem \in [Executions -> AgentStates]
      /\ save \in [Executions -> [phase : {"idle", "check", "write"}, message : AgentStates]]
      /\ next \in [Executions -> AgentStates]
  BY <1>a DEF TypeInv, TypeOK
<1>1. \E event \in {"progress", "asked", "completed", "error"},
         place \in {"running", "asked", "ended", "stopping"} :
        /\ Emit(x, event, place)
        /\ event = "error" <=> place = "stopping"
        /\ pc[x] = "running"
  BY DEF Converse, Progress, AskQuestion, Complete, AgentFails
<1>2. PICK event \in {"progress", "asked", "completed", "error"},
           place \in {"running", "asked", "ended", "stopping"} :
        /\ Emit(x, event, place)
        /\ event = "error" <=> place = "stopping"
        /\ pc[x] = "running"
  BY <1>1
<1>3. /\ mem'[x].event = event /\ pc'[x] = place /\ UNCHANGED <<row, task, known>>
      /\ failed' = IF event = "error" THEN failed \union {x} ELSE failed
  BY <1>2, <1>e DEF Emit, tables
<1>4. save'[x].phase # "idle" /\ save'[x].message.event # "none"
  BY <1>a, <1>2, <1>e DEF Emit, QueueState, ShapeOf
<1> QED
  BY <1>a, <1>c, <1>2, <1>3, <1>4
  DEF Sound, ShapeOf, KnownOf, NothingOf, Active, ActiveAt, Quiet, Storing, Held, Closed

\* Its saver, its heartbeat and its status queue.
LEMMA BackgroundSound ==
  ASSUME AgentInv, NEW x \in Executions, Saver(x) \/ Heartbeat(x) \/ MarkWaiting(x), OwnTask(x), Leads(x)' => Leads(x)
  PROVE  Sound(x)'
<1> DEFINE i == inv[x]
<1>a. TypeInv /\ ShapeOf(x) /\ KnownOf(x) /\ NothingOf(x)
  BY DEF AgentInv, ExecutionInv
<1>c. inv' = inv /\ proc' = proc BY ExecutionRemembers DEF ExecutionStep
<1>d. Closed(i) => Closed(i)' BY <1>c DEF OwnTask, Closed
<1>e. /\ pc \in [Executions -> Places] /\ known \in [Executions -> Kinds]
      /\ next \in [Executions -> AgentStates]
      /\ save \in [Executions -> [phase : {"idle", "check", "write"}, message : AgentStates]]
  BY <1>a DEF TypeInv, TypeOK
<1>f. pc[x] # "unused" => i \in Invocations /\ row \in Table /\ row[i] \in Rows
  BY <1>a, Dispatched
<1> USE DEF Sound, ShapeOf, KnownOf, NothingOf, Active, ActiveAt, Quiet, Storing, Held
<1>1. CASE SaverChecks(x)
  <2>0. /\ UNCHANGED <<row, task, pc, mem, known, failed>> /\ save[x].phase = "check"
        /\ pc[x] \in Storing
    BY <1>a, <1>1 DEF SaverChecks, tables
  <2>1. CASE Owns(x)
    <3>1. save'[x].phase = "write" /\ save'[x].message = save[x].message
      BY <1>1, <1>e, <2>1 DEF SaverChecks
    <3> QED BY <1>a, <1>c, <1>d, <2>0, <3>1
  <2>2. CASE ~Owns(x)
    <3>1. save'[x].phase # "idle" => save'[x].message.event # "none"
      BY <1>1, <1>e, <2>2 DEF SaverChecks, NextSave, IdleSave
    <3> QED BY <1>a, <1>c, <1>d, <2>0, <2>2, <3>1 DEF Owns
  <2> QED BY <2>1, <2>2
<1>2. CASE SaverWrites(x)
  <2>0. /\ UNCHANGED <<task, pc, mem, failed>> /\ pc[x] \in Storing /\ pc[x] # "failWrite"
        /\ known'[x] = save[x].message.event /\ save[x].message.event # "none"
    BY <1>a, <1>2, <1>e DEF SaverWrites
  <2>1. save[x].message \in AgentStates BY <1>e
  <2>2. Rewrites(i, [row[i] EXCEPT !.state = save[x].message])
    BY <1>2, <1>f, <2>0, <2>1, StateRewritten DEF SaverWrites
  <2>3. row'[i].state = save[x].message BY <1>f, <2>0, <2>2 DEF Rewrites, Rows
  <2>4. save'[x].phase # "idle" => save'[x].message.event # "none"
    BY <1>2, <1>e DEF SaverWrites, NextSave, IdleSave
  <2> QED BY <1>a, <1>c, <1>d, <2>0, <2>3, <2>4
<1>3. CASE HeartbeatReads(x)
  BY <1>a, <1>c, <1>d, <1>3 DEF HeartbeatReads, tables
<1>4. CASE HeartbeatSaves(x)
  <2>0. UNCHANGED <<task, pc, mem, known, save, failed>> BY <1>4 DEF HeartbeatSaves
  <2>1. pc[x] # "unused" =>
          /\ row'[i].state = row[i].state /\ row'[i].owner = row[i].owner
          /\ row'[i].recovered = row[i].recovered
    <3> HAVE pc[x] # "unused"
    <3>1. Rewrites(i, [row[i] EXCEPT !.lease = "live"])
      BY <1>4, <1>f, LeaseRewritten DEF HeartbeatSaves
    <3> QED BY <1>f, <3>1 DEF Rewrites, Rows
  <2> QED BY <1>a, <1>c, <1>d, <2>0, <2>1
<1>5. CASE MarkWaiting(x)
  BY <1>a, <1>c, <1>d, <1>5 DEF MarkWaiting
<1> QED BY <1>1, <1>2, <1>3, <1>4, <1>5 DEF Saver, Heartbeat

\* A verdict that completes the task finds the end of the turn in its row.
LEMMA VerdictFinal ==
  ASSUME AgentInv, NEW x \in Executions, Verdict(x), raced \subseteq raced'
  PROVE  CompleteIsFinal'
<1> DEFINE i == inv[x]
<1> SUFFICES ASSUME task'.status = "complete", task'.latest \notin raced'
    PROVE  /\ row'[task'.latest].state.event \in EndsWell
           /\ \A y \in Executions :
                Active(y)' /\ inv'[y] = task'.latest /\ ~Overtaken(y)' => pc'[y] \in Leaving
  BY DEF CompleteIsFinal
<1>a. TypeInv /\ ShapeOf(x) /\ KnownOf(x) /\ NothingOf(x) /\ CompleteIsFinal
  BY DEF AgentInv, ExecutionInv
<1>b. /\ pc[x] = "verdict" /\ pc' = [pc EXCEPT ![x] = "release"] /\ pc \in [Executions -> Places]
      /\ UNCHANGED <<row, inv, known, mem, failed>> /\ i \in Invocations
      /\ task \in Tasks
  BY <1>a, Dispatched DEF Verdict, agent, TypeInv, TypeOK, Tasks
<1>o. \A y \in Executions : Overtaken(y)' <=> Overtaken(y) BY <1>b, LedBefore
<1>1. CASE UNCHANGED task
  BY <1>a, <1>b, <1>o, <1>1 DEF CompleteIsFinal, Active, ActiveAt, Leaving
<1>2. CASE MarkTerminal(i, "complete") /\ ~UNCHANGED task
  <2>1. LastEvent(x) \in EndsWell
    <3> SUFFICES ASSUME LastEvent(x) \notin EndsWell PROVE FALSE
      OBVIOUS
    <3>1. MarkTerminal(i, "error") BY <1>2 DEF Verdict, EndsWell
    <3>2. task'.status = "error" BY <1>2, <1>b, <3>1 DEF MarkTerminal, Tasks
    <3> QED BY <3>2
  <2>2. task.latest = i /\ ~Closed(i) /\ task'.latest = i
    BY <1>b, <1>2 DEF MarkTerminal, Closed, Tasks
  <2>l. Leads(x)
    <3>1. ~Overtaken(x) BY <1>2, <2>2 DEF Verdict
    <3> QED BY <2>2, <3>1 DEF Leads
  <2>3. row[i].state.event \in EndsWell
    <3>1. CASE known[x] # "none"
      BY <1>2, <1>a, <1>b, <2>1, <2>2, <2>l, <3>1 DEF LastEvent, KnownOf, Active, ActiveAt
    <3>2. CASE known[x] = "none"
      <4>1. mem[x].event \in EndsWell BY <1>2, <2>1, <3>2 DEF LastEvent
      <4>2. x \notin failed BY <1>a, <4>1 DEF ShapeOf, EndsWell
      <4>3. save[x].phase = "idle" BY <1>a, <1>b DEF ShapeOf, Storing
      <4> QED BY <1>a, <1>b, <2>2, <2>l, <3>2, <4>1, <4>2, <4>3 DEF NothingOf, Held, EndsWell
    <3> QED BY <3>1, <3>2
  <2>4. ASSUME NEW y \in Executions, inv'[y] = i, ~Overtaken(y)'
        PROVE  pc'[y] \in Leaving
    <3>1. y = x BY <1>b, <1>o, <2>l, <2>4, OneLeads DEF Leads
    <3> QED BY <1>b, <3>1 DEF Leaving
  <2> QED BY <1>b, <2>2, <2>3, <2>4
<1>3. CASE MarkTerminal(i, "error") /\ ~UNCHANGED task
  BY <1>3, <1>b DEF MarkTerminal, Tasks
<1> QED BY <1>1, <1>2, <1>3 DEF Verdict

\* Every step of an execution keeps the invariant.
LEMMA ExecutionStepKept ==
  ASSUME AgentInv, RecoveredUnowned, NEW x \in Executions, ExecutionStep(x)
  PROVE  AgentInv'
<1>0. TypeInv /\ InOrder /\ ShapeOf(x) /\ [Next]_vars
  BY DEF AgentInv, ExecutionInv, ExecutionStep, Next
<1>n. NotesTyped' /\ raced \subseteq raced' BY <1>0, NotesKept
<1>r. Remember(x) /\ pc[x] # "unused" BY <1>0, ExecutionRemembers, StepsInUse
<1>1. OthersAlone(x) /\ OwnRow(x) /\ OwnTask(x)
  BY <1>0, LeavesOthers, WritesOwnRow, LeavesTaskOver
<1>2. TypeInv'
  BY <1>0, <1>n, ExecuteTyped, ConverseTyped, BackgroundTyped DEF ExecutionStep
<1>3. InOrder' BY <1>0, <1>2, OrderKept
<1>l. Leads(x)' => Leads(x) BY <1>n, <1>r, LedBefore
<1>4. ExecutionInv'
  <2>1. Sound(x)'
    BY <1>1, <1>l, ExecuteSound, ConverseSound, BackgroundSound DEF ExecutionStep
  <2> QED BY <1>1, <1>n, <1>r, <2>1, OthersKept DEF ExecutionInv, Sound
<1>5. CompleteIsFinal' BY <1>1, <1>n, <1>r, CompleteStays, VerdictFinal
<1> QED BY <1>2, <1>3, <1>4, <1>5 DEF AgentInv

----------------------------------------------------------------------------
(* The steps of users, of sweeps and of crashes.                           *)

\* Nothing is recovered before it is created.
LEMMA OwnersInit == Init => RecoveredUnowned
<1> SUFFICES ASSUME Init PROVE RecoveredUnowned
  OBVIOUS
<1>1. row = [i \in Invocations |-> Unborn] BY DEF Init
<1> QED BY <1>1 DEF RecoveredUnowned, Unborn

\* A step that leaves the executions where they are, or ends them.
Ends ==
  /\ inv' = inv /\ proc' = proc /\ raced' = raced
  /\ \A y \in Executions :
       \/ /\ pc'[y] = pc[y] /\ mem'[y] = mem[y] /\ known'[y] = known[y] /\ save'[y] = save[y]
          /\ y \in failed' <=> y \in failed
       \/ pc'[y] = "dead" /\ save'[y].phase = "idle" /\ y \notin failed'

\* Where the task stays open to an invocation, its row keeps state and owner, unless
\* nothing runs that has not stored a state; where it is complete, the row keeps its end.
LEMMA EndsKept ==
  ASSUME AgentInv, Ends,
         task'.latest = task.latest, task.archived => task'.archived,
         task.status \in Terminal => task'.status = task.status,
         task'.status = "complete" => task.status = "complete",
         \A i \in Invocations :
           \/ /\ row'[i].state = row[i].state /\ row'[i].owner = row[i].owner
              /\ row'[i].recovered = row[i].recovered
           \/ row[i].state.pending /\ row'[i].state = row[i].state
           \/ i = task.latest /\ task.status \in Running /\ task'.status \in Terminal
  PROVE  ExecutionInv' /\ CompleteIsFinal'
<1>a. TypeInv /\ ExecutionInv /\ CompleteIsFinal BY DEF AgentInv
<1>1. \A y \in Executions : (Overtaken(y)' <=> Overtaken(y)) /\ (Leads(y)' => Leads(y))
  BY LedBefore DEF Ends
<1>2. ASSUME NEW y \in Executions
      PROVE  ShapeOf(y)' /\ KnownOf(y)' /\ NothingOf(y)'
  <2>1. CASE pc'[y] = "dead" /\ save'[y].phase = "idle" /\ y \notin failed'
    BY <2>1 DEF ShapeOf, KnownOf, NothingOf, Active, ActiveAt, Quiet, Held
  <2>2. CASE /\ pc'[y] = pc[y] /\ mem'[y] = mem[y] /\ known'[y] = known[y] /\ save'[y] = save[y]
             /\ y \in failed' <=> y \in failed
    <3>a. ShapeOf(y) /\ KnownOf(y) /\ NothingOf(y) BY <1>a DEF ExecutionInv
    <3>b. inv'[y] = inv[y] /\ proc'[y] = proc[y] BY DEF Ends
    <3>1. ShapeOf(y)' BY <2>2, <3>a DEF ShapeOf
    <3>2. Closed(inv[y]) => Closed(inv[y])' BY <3>b DEF Closed
    <3>3. Active(y) => inv[y] \in Invocations BY <1>a, Dispatched DEF Active, ActiveAt
    <3>4. ASSUME Active(y), ~Closed(inv[y])'
          PROVE  /\ row'[inv[y]].state = row[inv[y]].state
                 /\ ~row[inv[y]].state.pending =>
                      row'[inv[y]].owner = row[inv[y]].owner
                      /\ row'[inv[y]].recovered = row[inv[y]].recovered
      BY <3>3, <3>4, <3>b DEF Closed
    <3>5. KnownOf(y)' BY <1>1, <2>2, <3>a, <3>b, <3>2, <3>4 DEF KnownOf, Active
    <3>6. NothingOf(y)'
      BY <1>1, <2>2, <3>a, <3>b, <3>2, <3>4 DEF NothingOf, Active, ActiveAt, Held, NoState
    <3> QED BY <3>1, <3>5, <3>6
  <2> QED BY <2>1, <2>2 DEF Ends
<1>3. CompleteIsFinal'
  <2> SUFFICES ASSUME task'.status = "complete", task'.latest \notin raced'
      PROVE  /\ row'[task'.latest].state.event \in EndsWell
             /\ \A y \in Executions :
                  Active(y)' /\ inv'[y] = task'.latest /\ ~Overtaken(y)' => pc'[y] \in Leaving
    BY DEF CompleteIsFinal
  <2>1. task.status = "complete" /\ task.latest \in Invocations
    BY <1>a DEF TypeInv, TypeOK, TaskShape
  <2>2. row'[task.latest].state = row[task.latest].state BY <2>1 DEF Running
  <2> QED BY <1>a, <1>1, <2>1, <2>2 DEF CompleteIsFinal, Ends, Active, ActiveAt
<1> QED BY <1>2, <1>3 DEF ExecutionInv

\* An execution that is dispatched overtakes the others of its invocation.
LEMMA DispatchKept ==
  ASSUME AgentInv, NEW x \in Executions, NEW i \in Invocations,
         NEW e \in {"none", "error", "answered"}, NEW place \in {"new", "blocked"},
         Dispatch(x, i, e, place), raced' = raced,
         e = "none" => place = "blocked" \/ row'[i].state = NoState,
         task.latest = i => task.status # "complete",
         task'.latest = task.latest \/ (task'.latest = i /\ task'.status # "complete"),
         task'.latest = task.latest =>
           /\ task.archived => task'.archived
           /\ task.status \in Terminal => task'.status = task.status
           /\ task'.status = "complete" => task.status = "complete",
         \A j \in Invocations : j # i => row'[j] = row[j]
  PROVE  ExecutionInv' /\ CompleteIsFinal'
<1>a. TypeInv /\ InOrder /\ ExecutionInv /\ CompleteIsFinal BY DEF AgentInv
<1>b. /\ UNCHANGED <<mem, save, next, asked, aborted, failed>>
      /\ pc[x] = "unused" /\ pc'[x] = place /\ inv'[x] = i /\ known'[x] = e
      /\ \A y \in Executions : y # x => /\ inv'[y] = inv[y] /\ proc'[y] = proc[y]
                                        /\ pc'[y] = pc[y] /\ known'[y] = known[y]
  BY <1>a, DispatchTyped
<1>1. ASSUME NEW y \in Executions, inv[y] = i
      PROVE  Overtaken(y)'
  <2>1. pc[y] # "unused" /\ y # x BY <1>a, <1>b, <1>1, NoneAssumption DEF TypeInv, ExecutionShape
  <2>2. ~(x < y) BY <1>a, <1>b, <2>1 DEF InOrder
  <2>3. x \in Nat /\ y \in Nat BY NumbersAssumption
  <2>4. y < x BY <2>1, <2>2, <2>3
  <2> QED BY <1>b, <1>1, <2>1, <2>4 DEF Overtaken
<1>o. ASSUME NEW y \in Executions, Active(y), ~Overtaken(y)'
      PROVE  inv[y] # i /\ ~Overtaken(y)
  <2>1. inv[x] = None /\ inv[y] # None /\ y # x
    BY <1>a, <1>b, <1>o DEF TypeInv, ExecutionShape, Active, ActiveAt
  <2>2. ASSUME NEW z \in Executions, z > y, inv[z] = inv[y]
        PROVE  FALSE
    <3>1. z # x BY <2>1, <2>2
    <3>2. inv'[z] = inv'[y] BY <1>b, <2>1, <2>2, <3>1
    <3> QED BY <1>o, <2>2, <3>2 DEF Overtaken
  <2> QED BY <1>1, <1>o, <2>2 DEF Overtaken
<1>2. ASSUME NEW y \in Executions
      PROVE  ShapeOf(y)' /\ KnownOf(y)' /\ NothingOf(y)'
  <2>a. ShapeOf(y) /\ KnownOf(y) /\ NothingOf(y) BY <1>a DEF ExecutionInv
  <2>1. CASE y = x
    BY <1>b, <2>a, <2>1 DEF ShapeOf, KnownOf, NothingOf, Active, ActiveAt, Quiet, Storing, Held, EndsWell
  <2>2. CASE y # x
    <3>1. /\ inv'[y] = inv[y] /\ proc'[y] = proc[y] /\ pc'[y] = pc[y] /\ known'[y] = known[y]
          /\ UNCHANGED <<mem, save, failed>>
      BY <1>b, <2>2
    <3>2. Active(y) /\ Leads(y)' => inv[y] \in Invocations /\ inv[y] # i /\ Leads(y)
      BY <1>a, <1>o, <3>1, Dispatched DEF Active, ActiveAt, Leads
    <3>3. Active(y) /\ Leads(y)' =>
            row'[inv[y]] = row[inv[y]] /\ (Closed(inv[y]) => Closed(inv[y])')
      BY <3>1, <3>2 DEF Closed
    <3>4. ShapeOf(y)' BY <2>a, <3>1 DEF ShapeOf
    <3>5. KnownOf(y)' BY <2>a, <3>1, <3>2, <3>3 DEF KnownOf, Active
    <3>6. NothingOf(y)' BY <2>a, <3>1, <3>2, <3>3 DEF NothingOf, Active, ActiveAt, Held
    <3> QED BY <3>4, <3>5, <3>6
  <2> QED BY <2>1, <2>2
<1>3. CompleteIsFinal'
  <2> SUFFICES ASSUME task'.status = "complete", task'.latest \notin raced'
      PROVE  /\ row'[task'.latest].state.event \in EndsWell
             /\ \A y \in Executions :
                  Active(y)' /\ inv'[y] = task'.latest /\ ~Overtaken(y)' => pc'[y] \in Leaving
    BY DEF CompleteIsFinal
  <2>1. task'.latest = task.latest /\ task.status = "complete" /\ task.latest # i
    OBVIOUS
  <2>2. task.latest \in Invocations
    BY <1>a, <2>1 DEF TypeInv, TypeOK, TaskShape
  <2>3. row[task.latest].state.event \in EndsWell /\ row'[task.latest] = row[task.latest]
    BY <1>a, <2>1, <2>2 DEF CompleteIsFinal
  <2>4. ASSUME NEW y \in Executions, Active(y)', inv'[y] = task.latest, ~Overtaken(y)'
        PROVE  pc'[y] \in Leaving
    <3>1. y # x BY <1>b, <2>1, <2>4
    <3>2. Active(y) /\ inv[y] = task.latest BY <1>b, <2>4, <3>1 DEF Active
    <3>3. ~Overtaken(y) BY <1>o, <2>4, <3>2
    <3> QED BY <1>a, <1>b, <2>1, <3>1, <3>2, <3>3 DEF CompleteIsFinal
  <2> QED BY <2>1, <2>3, <2>4
<1> QED BY <1>2, <1>3 DEF ExecutionInv

\* The rows that a step leaves alone, but for what this invariant does not read.
LEMMA Untouched ==
  ASSUME AgentInv, Ends, UNCHANGED task,
         \A i \in Invocations : /\ row'[i].state = row[i].state /\ row'[i].owner = row[i].owner
                                /\ row'[i].recovered = row[i].recovered
  PROVE  ExecutionInv' /\ CompleteIsFinal'
BY EndsKept

\* Executions that stay where they are.
LEMMA StillEnds ==
  ASSUME UNCHANGED <<dispatch, pc, mem, known, save, failed>>
  PROVE  Ends
BY DEF Ends, dispatch

\* The requests of the users.
LEMMA RequestKept ==
  ASSUME AgentInv, Request
  PROVE  AgentInv'
<1>a. TypeInv /\ InOrder BY DEF AgentInv
<1>n. NotesTyped' /\ raced' = raced BY <1>a, NotesKept, OthersRemember DEF Next, OtherStep
<1>b. TypeInv' BY <1>a, <1>n, RequestTyped
<1>o. InOrder' BY <1>a, <1>b, OrderKept DEF Next
<1>c. row \in Table /\ task \in Tasks BY <1>a DEF TypeInv, TypeOK, Table, Tasks
<1> SUFFICES ExecutionInv' /\ CompleteIsFinal'
  BY <1>b, <1>o DEF AgentInv
<1>1. ASSUME NEW i \in Invocations, NEW j \in Invocations, NEW x \in Executions,
             NEW blocked \in Blocking,
             NewTask(i, x, blocked) \/ FollowUp(i, j, x, blocked) \/ Edit(i, j, x, blocked)
      PROVE  ExecutionInv' /\ CompleteIsFinal'
  <2>1. PICK parent \in Invocations \union {None} : Invoke(i, parent, x, blocked)
    BY <1>1, <1>c DEF NewTask, FollowUp, Edit, Table, Rows
  <2> DEFINE r == [row[i] EXCEPT !.born = TRUE, !.parent = parent,
                                 !.state = BirthState(parent, blocked)]
  <2>2. /\ Rewrites(i, r)
        /\ Dispatch(x, i, IF blocked THEN "error" ELSE "none", IF blocked THEN "blocked" ELSE "new")
    BY <1>a, <2>1, InvokeTyped
  <2>3. /\ row'[i].state = BirthState(parent, blocked)
        /\ \A k \in Invocations : k # i => row'[k] = row[k]
    <3>1. row[i] \in Rows /\ row'[i] = r BY <1>c, <2>2 DEF Table, Rewrites
    <3> QED BY <2>2, <3>1 DEF Rewrites, Rows
  <2>4. ~row[i].born BY <2>1 DEF Invoke
  <2>5. task.latest # i /\ \A y \in Executions : inv[y] # i
    BY <1>a, <2>4, NoneAssumption DEF TypeInv, TaskShape, ExecutionShape
  <2>6. \/ task'.latest = i /\ task'.status # "complete"
        \/ task' = task
    <3>1. CASE Rebranch(j, i) BY <1>c, <3>1 DEF Rebranch, Tasks
    <3>2. CASE AttachInvocation(i)
      <4>1. CASE task.root = None
        BY <1>a, <1>c, <3>2, <4>1 DEF AttachInvocation, Tasks, TypeInv, TaskShape
      <4>2. CASE task.root # None /\ task.archived BY <3>2, <4>2 DEF AttachInvocation
      <4>3. CASE task.root # None /\ ~task.archived BY <1>c, <3>2, <4>3 DEF AttachInvocation, Tasks
      <4> QED BY <4>1, <4>2, <4>3
    <3> QED BY <1>1, <3>1, <3>2 DEF NewTask, FollowUp, Edit
  <2>t. /\ task.latest = i => task.status # "complete"
        /\ task'.latest = task.latest \/ (task'.latest = i /\ task'.status # "complete")
        /\ task'.latest = task.latest =>
             /\ task.archived => task'.archived
             /\ task.status \in Terminal => task'.status = task.status
             /\ task'.status = "complete" => task.status = "complete"
    <3>1. CASE task' = task BY <2>5, <3>1
    <3>2. CASE task'.latest = i /\ task'.status # "complete" BY <2>5, <3>2
    <3> QED BY <2>6, <3>1, <3>2
  <2> HIDE DEF r
  <2>7. CASE blocked
    <3>1. Dispatch(x, i, "error", "blocked") BY <2>2, <2>7
    <3> QED BY <1>n, <2>3, <2>t, <3>1, DispatchKept
  <2>8. CASE ~blocked
    <3>1. row'[i].state = NoState BY <2>3, <2>8 DEF BirthState
    <3>2. Dispatch(x, i, "none", "new") BY <2>2, <2>8
    <3> QED BY <1>n, <2>3, <2>t, <3>1, <3>2, DispatchKept
  <2> QED BY <2>7, <2>8
<1>2. ASSUME NEW i \in Invocations, NEW x \in Executions, NEW blocked \in Blocking,
             AnswerQuestion(i, x, blocked)
      PROVE  ExecutionInv' /\ CompleteIsFinal'
  <2> DEFINE s == [event |-> IF blocked THEN "error" ELSE "answered", pending |-> FALSE]
             r == [row[i] EXCEPT !.state = s, !.owner = None, !.lease = "none",
                                 !.cancel = FALSE, !.started = blocked /\ @]
  <2>1. \A k \in Invocations : k # i => row'[k] = row[k]
    <3>1. s \in AgentStates /\ blocked \in BOOLEAN
      BY BlockingAssumption DEF AgentStates, Kinds
    <3>2. row' = [row EXCEPT ![i].state = s, ![i].owner = None, ![i].lease = "none",
                             ![i].cancel = FALSE, ![i].started = blocked /\ @]
      BY <1>2 DEF AnswerQuestion
    <3>3. Rewrites(i, r) BY <1>c, <3>1, <3>2, AnswerRewritten
    <3> QED BY <3>3 DEF Rewrites
  <2>2. /\ task.latest = i /\ task.status \in Running /\ ~task.archived
        /\ task'.latest = i /\ task'.archived = task.archived
        /\ task'.status = IF blocked THEN "error" ELSE "processing"
    BY <1>2, <1>c DEF AnswerQuestion, Answerable, Tasks
  <2>3. CASE blocked
    <3>1. Ends BY <1>2, <2>3, StillEnds DEF AnswerQuestion, agent
    <3> QED BY <2>1, <2>2, <2>3, <3>1, EndsKept DEF Running, Terminal
  <2>4. CASE ~blocked
    <3>1. Dispatch(x, i, "answered", "new") BY <1>2, <2>4 DEF AnswerQuestion
    <3> QED BY <1>n, <2>1, <2>2, <2>4, <3>1, DispatchKept DEF Running, Terminal
  <2> QED BY <2>3, <2>4
<1>3. ASSUME NEW i \in Invocations, RequestCancel(i)
      PROVE  ExecutionInv' /\ CompleteIsFinal'
  <2>1. Rewrites(i, [row[i] EXCEPT !.cancel = (@ \/ ~row[i].recovered)])
    BY <1>3, <1>c, CancelRewritten DEF RequestCancel
  <2>2. \A k \in Invocations : /\ row'[k].state = row[k].state /\ row'[k].owner = row[k].owner
                               /\ row'[k].recovered = row[k].recovered
    BY <1>c, <2>1 DEF Rewrites, Table, Rows
  <2>3. Ends BY <1>3, StillEnds DEF RequestCancel, agent
  <2> QED BY <1>3, <2>2, <2>3, Untouched DEF RequestCancel
<1>4. CASE Archive
  <2>1. Ends BY <1>4, StillEnds DEF Archive
  <2>2. /\ row' = row /\ task'.latest = task.latest /\ task'.archived /\ task'.status = task.status
    BY <1>4, <1>c DEF Archive, Tasks
  <2> QED BY <2>1, <2>2, EndsKept
<1> QED BY <1>1, <1>2, <1>3, <1>4 DEF Request

\* recoverInvocation and releaseStaleWaitingQuestionInvocation.
LEMMA RecoverKept ==
  ASSUME AgentInv, NEW i \in Invocations, Recover(i) \/ Release(i) \/ UNCHANGED tables, Ends
  PROVE  ExecutionInv' /\ CompleteIsFinal'
<1>c. row \in Table /\ row[i] \in Rows /\ task \in Tasks
  BY DEF AgentInv, TypeInv, TypeOK, Table, Tasks
<1>1. CASE UNCHANGED tables BY <1>1, Untouched DEF tables
<1>2. CASE Recover(i) /\ ~UNCHANGED tables
  <2>1. Rewrites(i, [row[i] EXCEPT !.state = ErrorState(i), !.recovered = TRUE, !.owner = None,
                                   !.lease = "none"])
    BY <1>2, <1>c, ErrorStateTyped, RecoveryRewritten DEF Recover
  <2>2. \A k \in Invocations : k # i => row'[k] = row[k] BY <2>1 DEF Rewrites
  <2>3. /\ task.latest = i /\ task.status \in Running /\ task'.latest = i
        /\ task'.archived = task.archived /\ task'.status = "error"
    BY <1>2, <1>c DEF Recover, Tasks
  <2> QED BY <2>2, <2>3, EndsKept DEF Terminal, Running
<1>3. CASE Release(i) /\ ~UNCHANGED tables
  <2>1. Rewrites(i, [row[i] EXCEPT !.owner = None, !.lease = "none"])
    BY <1>3, <1>c, ReleaseRewritten DEF Release
  <2>2. row'[i].state = row[i].state
    <3>1. row'[i] = [row[i] EXCEPT !.owner = None, !.lease = "none"] BY <2>1 DEF Rewrites
    <3> QED BY <1>c, <3>1 DEF Rows
  <2>3. \A k \in Invocations : k # i => row'[k] = row[k] BY <2>1 DEF Rewrites
  <2>4. row[i].state.pending BY <1>3 DEF Release
  <2>5. /\ task'.latest = task.latest /\ task'.archived = task.archived
        /\ task' = task \/ (task.status \in Running /\ task'.status = "waiting")
    <3>1. task' = IF task.latest = i /\ ~task.archived /\ task.status \in Running
                    THEN [task EXCEPT !.status = "waiting"] ELSE task
      BY <1>3 DEF Release
    <3>2. CASE task' = task BY <3>2
    <3>3. CASE task.status \in Running /\ task' = [task EXCEPT !.status = "waiting"]
      BY <1>c, <3>3 DEF Tasks
    <3> QED BY <3>1, <3>2, <3>3
  <2> QED BY <2>2, <2>3, <2>4, <2>5, EndsKept DEF Terminal, Running
<1> QED BY <1>1, <1>2, <1>3

\* Cancels and sweeps.
LEMMA RecoveryKept ==
  ASSUME AgentInv, PublishCancel \/ CancelRecovers \/ OthersMove \/ SweepReads \/ SweepActs
  PROVE  AgentInv'
<1>a. TypeInv /\ InOrder /\ [Next]_vars BY DEF AgentInv, Next
<1>n. NotesTyped' BY <1>a, NotesKept
<1>t. TypeInv' BY <1>a, <1>n, RecoveryTyped
<1>b. TypeInv' /\ InOrder' BY <1>a, <1>t, OrderKept
<1>c. Ends BY StillEnds DEF PublishCancel, CancelRecovers, OthersMove, SweepReads, SweepActs, agent
<1>1. CASE PublishCancel \/ OthersMove \/ SweepReads
  BY <1>1, <1>b, <1>c, Untouched DEF PublishCancel, OthersMove, SweepReads, AgentInv, tables
<1>2. CASE CancelRecovers
  <2>1. command.inv \in Invocations BY <1>2, <1>a DEF CancelRecovers, TypeInv, TypeOK
  <2> QED BY <1>2, <1>b, <1>c, <2>1, RecoverKept DEF CancelRecovers, AgentInv
<1>3. CASE SweepActs
  <2>1. sweep.inv \in Invocations BY <1>3, <1>a DEF SweepActs, TypeInv, TypeOK
  <2> QED BY <1>3, <1>b, <1>c, <2>1, RecoverKept DEF SweepActs, AgentInv
<1> QED BY <1>1, <1>2, <1>3

\* What time does.
LEMMA TimeKept ==
  ASSUME AgentInv, NEW i \in Invocations, LeaseExpires(i) \/ GraceOver(i)
  PROVE  AgentInv'
<1>a. TypeInv /\ InOrder /\ [Next]_vars BY DEF AgentInv, Next
<1>n. NotesTyped' BY <1>a, NotesKept
<1>t. TypeInv' BY <1>a, <1>n, TimeTyped
<1>b. TypeInv' /\ InOrder' BY <1>a, <1>t, OrderKept
<1>c. Ends BY StillEnds DEF LeaseExpires, GraceOver, agent
<1>1. CASE LeaseExpires(i)
  <2>1. row \in Table BY <1>a DEF TypeInv, TypeOK, Table
  <2>2. Rewrites(i, [row[i] EXCEPT !.lease = "expired"])
    BY <1>1, <2>1, LeaseRewritten DEF LeaseExpires
  <2>3. \A k \in Invocations : /\ row'[k].state = row[k].state /\ row'[k].owner = row[k].owner
                               /\ row'[k].recovered = row[k].recovered
    BY <2>1, <2>2 DEF Rewrites, Table, Rows
  <2> QED BY <1>1, <1>b, <1>c, <2>3, Untouched DEF LeaseExpires, AgentInv
<1>2. CASE GraceOver(i)
  BY <1>2, <1>b, <1>c, Untouched DEF GraceOver, AgentInv, tables
<1> QED BY <1>1, <1>2

\* Crashes.
LEMMA CrashKept ==
  ASSUME AgentInv, NEW p \in Processes, Crash(p)
  PROVE  AgentInv'
<1>a. TypeInv /\ InOrder /\ [Next]_vars BY DEF AgentInv, Next
<1>n. NotesTyped' BY <1>a, NotesKept
<1>t. TypeInv' BY <1>a, <1>n, CrashTyped
<1>b. TypeInv' /\ InOrder' BY <1>a, <1>t, OrderKept
<1>c. Ends BY <1>a DEF Ends, Crash, dispatch, TypeInv, TypeOK, IdleSave
<1> QED BY <1>b, <1>c, Untouched DEF Crash, tables, AgentInv

\* Nothing happens.
LEMMA StutterKept ==
  ASSUME AgentInv, UNCHANGED vars
  PROVE  AgentInv'
<1>0. TypeInv /\ InOrder /\ [Next]_vars BY DEF AgentInv
<1>n. NotesTyped' BY <1>0, NotesKept
<1>t. TypeInv' BY <1>0, <1>n, StutterTyped
<1>1. TypeInv' /\ InOrder' BY <1>0, <1>t, OrderKept
<1>2. Ends BY StillEnds DEF vars, agent
<1> QED BY <1>1, <1>2, Untouched DEF vars, tables, AgentInv

----------------------------------------------------------------------------
(* Recovered invocations.                                                  *)

\* A row that is recovered stays so, without owner.
StaysLost ==
  \A i \in Invocations :
    /\ row[i].recovered => row'[i].recovered /\ row'[i].owner = None
    /\ row'[i].recovered /\ ~row[i].recovered => row'[i].owner = None

\* An execution takes no lease of a recovered row.
LEMMA LostByExecutions ==
  ASSUME AgentInv, RecoveredUnowned, NEW x \in Executions, ExecutionStep(x)
  PROVE  StaysLost
<1>1. TypeInv /\ ShapeOf(x) BY DEF AgentInv, ExecutionInv
<1>2. OwnRow(x) BY <1>1, WritesOwnRow
<1> QED BY <1>2 DEF OwnRow, StaysLost, RecoveredUnowned

\* Nor does what keeps the owner of the row, or takes it away.
LEMMA LostByRewriting ==
  ASSUME RecoveredUnowned, row \in Table, NEW i \in Invocations, NEW r \in Rows, Rewrites(i, r),
         \/ r.recovered = row[i].recovered /\ r.owner \in {row[i].owner, None}
         \/ r.owner = None /\ r.recovered
  PROVE  StaysLost
BY DEF RecoveredUnowned, Rewrites, StaysLost, Table, Rows

\* Nor does a request, a sweep or a crash.
LEMMA LostByOthers ==
  ASSUME TypeInv, RecoveredUnowned, OtherStep
  PROVE  StaysLost
<1>c. row \in Table BY DEF TypeInv, TypeOK, Table
<1>d. ASSUME NEW i \in Invocations PROVE row[i] \in Rows BY <1>c DEF Table
<1>0. UNCHANGED row => StaysLost BY DEF StaysLost, RecoveredUnowned
<1>1. ASSUME NEW i \in Invocations, NEW j \in Invocations, NEW x \in Executions,
             NEW blocked \in Blocking,
             NewTask(i, x, blocked) \/ FollowUp(i, j, x, blocked) \/ Edit(i, j, x, blocked)
      PROVE  StaysLost
  <2>1. PICK parent \in Invocations \union {None} : Invoke(i, parent, x, blocked)
    BY <1>1, <1>c DEF NewTask, FollowUp, Edit, Table, Rows
  <2> DEFINE r == [row[i] EXCEPT !.born = TRUE, !.parent = parent,
                                 !.state = BirthState(parent, blocked)]
  <2>2. Rewrites(i, r) BY <2>1, InvokeTyped
  <2>3. r \in Rows BY <2>2 DEF Rewrites
  <2>4. r.recovered = row[i].recovered /\ r.owner = row[i].owner BY <1>d DEF Rows
  <2> HIDE DEF r
  <2> QED BY <1>c, <2>2, <2>3, <2>4, LostByRewriting
<1>2. ASSUME NEW i \in Invocations, NEW x \in Executions, NEW blocked \in Blocking,
             AnswerQuestion(i, x, blocked)
      PROVE  StaysLost
  <2> DEFINE s == [event |-> IF blocked THEN "error" ELSE "answered", pending |-> FALSE]
             r == [row[i] EXCEPT !.state = s, !.owner = None, !.lease = "none",
                                 !.cancel = FALSE, !.started = blocked /\ @]
  <2>1. s \in AgentStates /\ blocked \in BOOLEAN
    BY BlockingAssumption DEF AgentStates, Kinds
  <2>2. row' = [row EXCEPT ![i].state = s, ![i].owner = None, ![i].lease = "none",
                           ![i].cancel = FALSE, ![i].started = blocked /\ @]
    BY <1>2 DEF AnswerQuestion
  <2>3. Rewrites(i, r) BY <1>c, <2>1, <2>2, AnswerRewritten
  <2>4. r \in Rows BY <2>3 DEF Rewrites
  <2>5. r.recovered = row[i].recovered /\ r.owner = None BY <1>d DEF Rows
  <2> HIDE DEF r
  <2> QED BY <1>c, <2>3, <2>4, <2>5, LostByRewriting
<1>3. ASSUME NEW i \in Invocations, RequestCancel(i)
      PROVE  StaysLost
  <2> DEFINE r == [row[i] EXCEPT !.cancel = (@ \/ ~row[i].recovered)]
  <2>1. Rewrites(i, r) BY <1>3, <1>c, CancelRewritten DEF RequestCancel
  <2>2. r \in Rows BY <2>1 DEF Rewrites
  <2>3. r.recovered = row[i].recovered /\ r.owner = row[i].owner BY <1>d DEF Rows
  <2> HIDE DEF r
  <2> QED BY <1>c, <2>1, <2>2, <2>3, LostByRewriting
<1>4. ASSUME NEW i \in Invocations, LeaseExpires(i)
      PROVE  StaysLost
  <2> DEFINE r == [row[i] EXCEPT !.lease = "expired"]
  <2>1. Rewrites(i, r) BY <1>4, <1>c, LeaseRewritten DEF LeaseExpires
  <2>2. r \in Rows BY <2>1 DEF Rewrites
  <2>3. r.recovered = row[i].recovered /\ r.owner = row[i].owner BY <1>d DEF Rows
  <2> HIDE DEF r
  <2> QED BY <1>c, <2>1, <2>2, <2>3, LostByRewriting
<1>5. ASSUME NEW i \in Invocations, Recover(i), ~UNCHANGED tables
      PROVE  StaysLost
  <2> DEFINE r == [row[i] EXCEPT !.state = ErrorState(i), !.recovered = TRUE, !.owner = None,
                                 !.lease = "none"]
  <2>1. Rewrites(i, r) BY <1>5, <1>c, ErrorStateTyped, RecoveryRewritten DEF Recover
  <2>2. r \in Rows BY <2>1 DEF Rewrites
  <2>3. r.recovered /\ r.owner = None BY <1>d DEF Rows
  <2> HIDE DEF r
  <2> QED BY <1>c, <2>1, <2>2, <2>3, LostByRewriting
<1>6. ASSUME NEW i \in Invocations, Release(i), ~UNCHANGED tables
      PROVE  StaysLost
  <2> DEFINE r == [row[i] EXCEPT !.owner = None, !.lease = "none"]
  <2>1. Rewrites(i, r) BY <1>6, <1>c, ReleaseRewritten DEF Release
  <2>2. r \in Rows BY <2>1 DEF Rewrites
  <2>3. r.recovered = row[i].recovered /\ r.owner = None BY <1>d DEF Rows
  <2> HIDE DEF r
  <2> QED BY <1>c, <2>1, <2>2, <2>3, LostByRewriting
<1>7. CASE CancelRecovers
  <2>1. command.inv \in Invocations BY <1>7 DEF CancelRecovers, TypeInv, TypeOK
  <2> QED BY <1>0, <1>5, <1>7, <2>1 DEF CancelRecovers, tables
<1>8. CASE SweepActs
  <2>1. sweep.inv \in Invocations BY <1>8 DEF SweepActs, TypeInv, TypeOK
  <2> QED BY <1>0, <1>5, <1>6, <1>8, <2>1 DEF SweepActs, tables
<1>9. CASE Archive \/ PublishCancel \/ OthersMove \/ SweepReads \/ (\E i \in Invocations : GraceOver(i))
           \/ (\E p \in Processes : Crash(p)) \/ UNCHANGED vars
  BY <1>0, <1>9 DEF Archive, PublishCancel, OthersMove, SweepReads, GraceOver, Crash, vars, tables
<1> QED BY <1>1, <1>2, <1>3, <1>4, <1>7, <1>8, <1>9 DEF OtherStep, Request

\* Every step keeps the invariant, and the recovered rows lost.
LEMMA AgentStepKept ==
  ASSUME AgentInv, RecoveredUnowned, [Next]_vars
  PROVE  AgentInv' /\ RecoveredUnowned' /\ StaysLost
<1>1. (\E x \in Executions : ExecutionStep(x)) \/ OtherStep BY DEF Next, ExecutionStep, OtherStep
<1>2. AgentInv'
  BY <1>1, ExecutionStepKept, RequestKept, RecoveryKept, TimeKept, CrashKept, StutterKept
  DEF OtherStep
<1>3. StaysLost
  BY <1>1, LostByExecutions, LostByOthers DEF AgentInv
<1>4. RecoveredUnowned' BY <1>3 DEF StaysLost, RecoveredUnowned
<1> QED BY <1>2, <1>3, <1>4

\* The invariant of AgentRuntime.
LEMMA AgentInvHolds == Spec => [](AgentInv /\ RecoveredUnowned)
<1>1. Init => AgentInv /\ RecoveredUnowned BY AgentInvInit, OwnersInit
<1>2. AgentInv /\ RecoveredUnowned /\ [Next]_vars => (AgentInv /\ RecoveredUnowned)'
  BY AgentStepKept
<1> QED BY <1>1, <1>2, PTL DEF Spec

----------------------------------------------------------------------------
(* The theorems about invocations and tasks.                               *)

\* CompleteIsStored: a task that is complete has a stored timeline that says so.
THEOREM CompleteTaskStored == Spec => []CompleteIsStored
<1>1. AgentInv => CompleteIsStored
  BY DEF AgentInv, CompleteIsFinal, CompleteIsStored, EndsWell
<1> QED BY <1>1, AgentInvHolds, PTL

\* RecoveredStaysLost: a recovered invocation is never owned again, by an executor
\* that comes late as little as by one that was slow.
THEOREM LostStaysLost == Spec => RecoveredStaysLost
<1>1. AgentInv /\ RecoveredUnowned /\ [Next]_vars
        => [\A i \in Invocations :
              row[i].recovered => row'[i].recovered /\ row'[i].owner = None]_vars
  BY AgentStepKept DEF StaysLost
<1> QED BY <1>1, AgentInvHolds, PTL DEF Spec, RecoveredStaysLost

\* A task that is over gets another status with another latest invocation only.
LEMMA TaskOverStays ==
  ASSUME AgentInv, RecoveredUnowned, [Next]_vars, task.status \in Terminal,
         task'.latest = task.latest
  PROVE  task'.status = task.status
<1>a. TypeInv /\ task \in Tasks /\ task.status \notin Running /\ task.latest # None
  BY DEF AgentInv, TypeInv, TypeOK, TaskShape, Tasks, Running, Terminal
<1>1. ASSUME NEW x \in Executions, ExecutionStep(x)
      PROVE  task'.status = task.status
  BY <1>a, <1>1, LeavesTaskOver DEF OwnTask
<1>2. ASSUME NEW i \in Invocations, NEW j \in Invocations, NEW x \in Executions,
             NEW blocked \in Blocking,
             NewTask(i, x, blocked) \/ FollowUp(i, j, x, blocked) \/ Edit(i, j, x, blocked)
      PROVE  task'.status = task.status
  <2>1. ~row[i].born BY <1>2 DEF NewTask, FollowUp, Edit, Invoke
  <2>2. task.latest # i BY <1>a, <2>1 DEF TypeInv, TaskShape
  <2>3. task.root # None BY <1>a DEF TypeInv, TaskShape
  <2> QED BY <1>2, <1>a, <2>2, <2>3 DEF NewTask, FollowUp, Edit, AttachInvocation, Rebranch, Tasks
<1>3. ASSUME NEW i \in Invocations, NEW x \in Executions, NEW blocked \in Blocking,
             AnswerQuestion(i, x, blocked)
      PROVE  task'.status = task.status
  BY <1>3 DEF AnswerQuestion, Answerable
<1>4. CASE Archive BY <1>4, <1>a DEF Archive, Tasks
<1>5. ASSUME NEW i, Recover(i) \/ Release(i) \/ UNCHANGED tables
      PROVE  task'.status = task.status
  BY <1>5, <1>a DEF Recover, Release, tables
<1>6. CASE CancelRecovers \/ SweepActs BY <1>5, <1>6 DEF CancelRecovers, SweepActs
<1>7. CASE UNCHANGED task BY <1>7
<1>8. ASSUME NEW i \in Invocations, RequestCancel(i) \/ LeaseExpires(i) \/ GraceOver(i)
      PROVE  UNCHANGED task
  BY <1>8 DEF RequestCancel, LeaseExpires, GraceOver, tables
<1>9. ASSUME NEW p \in Processes, Crash(p)
      PROVE  UNCHANGED task
  BY <1>9 DEF Crash, tables
<1>10. PublishCancel \/ OthersMove \/ SweepReads \/ UNCHANGED vars => UNCHANGED task
  BY DEF PublishCancel, OthersMove, SweepReads, vars, tables
<1>11. Next \/ UNCHANGED vars OBVIOUS
<1> QED
  BY <1>1, <1>2, <1>3, <1>4, <1>6, <1>7, <1>8, <1>9, <1>10, <1>11 DEF Next, Request, ExecutionStep

\* TerminalTaskFinal: the status of a task never leaves complete or error, but for
\* a new message.
THEOREM TaskOverStaysOver == Spec => TerminalTaskFinal
<1>1. AgentInv /\ RecoveredUnowned /\ [Next]_vars
        => [task.status \in Terminal /\ task'.latest = task.latest
              => task'.status = task.status]_vars
  BY TaskOverStays
<1> QED BY <1>1, AgentInvHolds, PTL DEF Spec, TerminalTaskFinal

====
