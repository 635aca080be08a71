---------------------------- MODULE AgentRuntime ----------------------------
(***************************************************************************)
(* Agent invocations of one task: the runtime lease, the executor, the     *)
(* recovery of lost executors and the status of the task (backend/app/     *)
(* services/agent_runtime_service.ts, task_lifecycle_service.ts,           *)
(* listeners/start_agent.ts, controllers/agent_invocations_controller.ts). *)
(*                                                                         *)
(* Backend processes meet in two tables.  A transaction with FOR UPDATE is *)
(* one step.  A method that reads a row and saves it later is two: the     *)
(* save writes the changed columns, whatever the row has become.           *)
(* The agent state of an invocation is its last event, and whether its     *)
(* timeline holds a question nobody has answered.                          *)
(***************************************************************************)
EXTENDS Naturals

CONSTANTS
  Invocations,   \* bounds the messages of the thread: taken in the order of their numbers
  Executions,    \* handled AgentInvoked events: bounds the dispatches, taken in order
  Processes,     \* backend processes, which own leases: taken in order
  None,
  MaxCancels,    \* bounds the cancel requests
  Blocking,      \* the outcomes of the usage gate: TRUE blocks
  AnsweredAt,    \* bounds how early users answer: where the execution that asked may stand
  Happens        \* what may happen beside the requests of the thread

ASSUME NumbersAssumption == Invocations \union Executions \union Processes \subseteq Nat
ASSUME BlockingAssumption == Blocking \subseteq BOOLEAN
ASSUME HappensAssumption == Happens \subseteq {"crash", "leaseExpires", "graceOver", "archive", "manyTasks"}
ASSUME NoneAssumption == None \notin Invocations \union Processes \union Executions
ASSUME CancelsAssumption == MaxCancels \in Nat

VARIABLES
  row,      \* the invocations table
  task,     \* the row of the thread in the tasks table
  listed,   \* a hundred other running tasks at most were updated before it
  old,      \* invocations created longer than NEVER_STARTED_GRACE_MS ago
  inv,      \* per execution: its invocation
  proc,     \*   the process it runs in
  raced,    \* invocations that an execution wrote after a later one of them was dispatched
  pc,       \*   where executeAgent stands
  mem,      \*   the state of its agent
  known,    \*   the last event it knows to be in the row
  save,     \*   the state save in flight
  next,     \*   pendingAgentState
  asked,    \* executions with a 'waiting' update in their status queue
  aborted,  \* executions whose agent was told to stop
  failed,   \* executions whose try block threw
  beat,     \* per execution: where its heartbeat stands
  sweep,    \* what recoverStaleInvocations has read and not acted upon
  command,  \* the cancel request that is handled
  cancels,  \* cancel requests so far
  crashed   \* processes that died

thread == <<task, listed>>
tables == <<row, thread>>
dispatch == <<inv, proc, raced>>
agent == <<mem, known, save, next, asked, aborted, failed>>
requests == <<sweep, command, cancels>>
vars == <<tables, old, dispatch, pc, agent, beat, requests, crashed>>

Kinds == {"none", "progress", "asked", "answered", "completed", "interrupted", "error"}
AgentStates == [event : Kinds, pending : BOOLEAN]
NoState == [event |-> "none", pending |-> FALSE]

Running == {"initiated", "processing", "waiting"}
Terminal == {"complete", "error"}

\* From the lease to the finally block the heartbeat is on.
Beating == {"leased", "ready", "running", "asked", "ended"}
Subscribed == Beating \union {"subscribed", "stopping", "flushed", "failing",
                              "failWrite", "verdict", "release", "releasing", "cleanup"}
Places == Subscribed \union {"unused", "new", "blocked", "done", "dead"}

Rows == [born : BOOLEAN, parent : Invocations \union {None}, state : AgentStates,
         owner : Processes \union {None}, started : BOOLEAN,
         lease : {"none", "live", "expired"}, cancel : BOOLEAN, recovered : BOOLEAN]

TypeOK ==
  /\ row \in [Invocations -> Rows]
  /\ task \in [root : Invocations \union {None}, latest : Invocations \union {None},
               status : Running \union Terminal, archived : BOOLEAN]
  /\ listed \in BOOLEAN
  /\ old \subseteq Invocations
  /\ inv \in [Executions -> Invocations \union {None}]
  /\ proc \in [Executions -> Processes \union {None}]
  /\ raced \subseteq Invocations
  /\ pc \in [Executions -> Places]
  /\ mem \in [Executions -> AgentStates]
  /\ known \in [Executions -> Kinds]
  /\ save \in [Executions -> [phase : {"idle", "check", "write"}, message : AgentStates]]
  /\ next \in [Executions -> AgentStates]
  /\ asked \subseteq Executions /\ aborted \subseteq Executions /\ failed \subseteq Executions
  /\ beat \in [Executions -> {"idle", "refresh"}]
  /\ sweep \in [inv : Invocations \union {None}, act : {"recover", "release"}]
  /\ command \in [inv : Invocations \union {None}, at : {"publish", "recover"}]
  /\ cancels \in 0..MaxCancels
  /\ crashed \subseteq Processes

NoSweep == [inv |-> None, act |-> "recover"]
NoCommand == [inv |-> None, at |-> "publish"]
IdleSave == [phase |-> "idle", message |-> NoState]

Unborn == [born |-> FALSE, parent |-> None, state |-> NoState, owner |-> None,
           started |-> FALSE, lease |-> "none", cancel |-> FALSE, recovered |-> FALSE]

Init ==
  /\ row = [i \in Invocations |-> Unborn]
  /\ task = [root |-> None, latest |-> None, status |-> "initiated", archived |-> FALSE]
  /\ listed \in IF "manyTasks" \in Happens THEN BOOLEAN ELSE {TRUE}
  /\ old = {}
  /\ inv = [x \in Executions |-> None] /\ proc = [x \in Executions |-> None]
  /\ raced = {}
  /\ pc = [x \in Executions |-> "unused"]
  /\ mem = [x \in Executions |-> NoState]
  /\ known = [x \in Executions |-> "none"]
  /\ save = [x \in Executions |-> IdleSave]
  /\ next = [x \in Executions |-> NoState]
  /\ asked = {} /\ aborted = {} /\ failed = {}
  /\ beat = [x \in Executions |-> "idle"]
  /\ sweep = NoSweep /\ command = NoCommand /\ cancels = 0
  /\ crashed = {}

----------------------------------------------------------------------------
(* The task (task_lifecycle_service.ts).                                   *)

\* A save of the row moves the task behind the others that run.
SetTask(t) ==
  /\ task' = t
  /\ listed' \in IF t # task /\ "manyTasks" \in Happens THEN {listed, FALSE} ELSE {listed}

MarkInProgressAnyway(i, status) ==   \* mutant: a terminal status is overwritten
  SetTask(IF task.latest = i /\ ~task.archived
             THEN [task EXCEPT !.status = status] ELSE task)

\* markInvocationProcessing and markInvocationWaiting.
MarkInProgress(i, status) ==
  SetTask(IF task.latest = i /\ ~task.archived /\ task.status \notin Terminal
             THEN [task EXCEPT !.status = status] ELSE task)

MarkTaskTerminal(i, status) ==   \* mutant: the latest invocation is not looked at
  SetTask(IF ~task.archived /\ task.status \notin Terminal
             THEN [task EXCEPT !.status = status] ELSE task)

MarkTerminalUnmapped(i, status) ==   \* mutant: the event type becomes the status
  SetTask(IF task.latest = i /\ ~task.archived /\ task.status \notin Terminal
             THEN [task EXCEPT !.status = IF status = "complete" THEN "completed" ELSE status]
             ELSE task)

MarkTerminal(i, status) ==
  SetTask(IF task.latest = i /\ ~task.archived /\ task.status \notin Terminal
             THEN [task EXCEPT !.status = status] ELSE task)

\* createTaskForNewInvocation, attachFollowUpInvocation.
AttachInvocation(i) ==
  SetTask(CASE task.root = None -> [task EXCEPT !.root = i, !.latest = i]
            [] task.archived -> task
            [] OTHER -> [task EXCEPT !.latest = i, !.status = "processing"])

\* The invocations a later one descends from, itself included.
Lineage(i) ==
  {j \in Invocations :
     \A S \in SUBSET Invocations :
       (i \in S /\ \A k \in S : row[k].parent # None => row[k].parent \in S) => j \in S}

\* rebranchTaskFromEditedInvocation.
Rebranch(edited, i) ==
  /\ task.root # None /\ ~task.archived
  /\ edited \in Lineage(task.latest)
  /\ task.status \in Terminal
  /\ SetTask([task EXCEPT !.root = IF @ = edited THEN i ELSE @,
                          !.latest = i, !.status = "processing"])

----------------------------------------------------------------------------
(* New invocations (agent_invocations_controller.ts).                      *)

Dispatch(x, i, event, place) ==
  \E p \in Processes \ crashed :
    /\ pc[x] = "unused" /\ \A y \in Executions : y < x => pc[y] # "unused"
    /\ \A q \in Processes : q < p => q \in crashed \/ \E y \in Executions : proc[y] = q
    /\ inv' = [inv EXCEPT ![x] = i]
    /\ proc' = [proc EXCEPT ![x] = p]
    /\ pc' = [pc EXCEPT ![x] = place]
    /\ known' = [known EXCEPT ![x] = event]
    /\ UNCHANGED <<raced, mem, save, next, asked, aborted, failed>>

\* A later execution resumes what x was dispatched for: the question of x was
\* answered before x was over.
Overtaken(x) == \E y \in Executions : y > x /\ inv[y] = inv[x]

\* An execution that writes its row or its task although it was overtaken.
Remember(x) ==
  /\ raced' = IF Overtaken(x) /\ (row' # row \/ task' # task)
                THEN raced \union {inv[x]} ELSE raced
  /\ UNCHANGED <<inv, proc>>

\* invoke: a first message, a follow-up or an edit.  Without usage left the
\* invocation is born with an error, and its task marked by the same request.
Invoke(i, parent, x, blocked) ==
  /\ ~row[i].born /\ \A j \in Invocations : j < i => row[j].born
  /\ row' = [row EXCEPT ![i].born = TRUE, ![i].parent = parent,
               ![i].state = IF blocked
                 THEN [event |-> "error",
                       pending |-> parent # None /\ row[parent].state.pending]
                 ELSE NoState]
  /\ IF blocked THEN Dispatch(x, i, "error", "blocked") ELSE Dispatch(x, i, "none", "new")
  /\ UNCHANGED <<old, beat, requests, crashed>>

NewTask(i, x, blocked) ==
  task.root = None /\ Invoke(i, None, x, blocked) /\ AttachInvocation(i)

FollowUp(i, parent, x, blocked) ==
  row[parent].born /\ Invoke(i, parent, x, blocked) /\ AttachInvocation(i)

Edit(i, edited, x, blocked) ==
  Rebranch(edited, i) /\ Invoke(i, row[edited].parent, x, blocked)

MarkBlocked(x) ==
  /\ pc[x] = "blocked"
  /\ MarkTerminal(inv[x], "error")
  /\ pc' = [pc EXCEPT ![x] = "done"]
  /\ UNCHANGED <<row, old, agent, beat, requests, crashed>>
  /\ Remember(x)

Answerable(i) ==
  /\ row[i].born /\ ~row[i].recovered /\ row[i].state.pending
  /\ task.latest = i /\ ~task.archived /\ task.status \notin Terminal

\* answerQuestion: the invocation starts over from its own state, whether the
\* execution that asked is over or not.
AnswerQuestion(i, x, blocked) ==
  /\ Answerable(i) /\ \A y \in Executions : inv[y] = i => pc[y] \in AnsweredAt
  /\ row' = [row EXCEPT ![i].state = [event |-> IF blocked THEN "error" ELSE "answered",
                                      pending |-> FALSE],
                        ![i].owner = None, ![i].lease = "none", ![i].cancel = FALSE,
                        ![i].started = blocked /\ @]
  /\ SetTask([task EXCEPT !.status = IF blocked THEN "error" ELSE "processing"])
  /\ IF blocked THEN UNCHANGED <<dispatch, pc, agent>> ELSE Dispatch(x, i, "answered", "new")
  /\ UNCHANGED <<old, beat, requests, crashed>>

----------------------------------------------------------------------------
(* Leases (agent_runtime_service.ts).                                      *)

RefusedLive(i, p) ==   \* mutant: agentRecoveredAt is not looked at
  row[i].owner \notin {None, p} /\ row[i].lease = "live"

\* The rows acquireLease refuses: recovered ones, and those of a live owner.
Refused(i, p) ==
  \/ row[i].recovered
  \/ row[i].owner \notin {None, p} /\ row[i].lease = "live"

AcquireLease(x) ==
  LET i == inv[x] IN
  /\ pc[x] = "subscribed"
  /\ IF Refused(i, proc[x])
       THEN /\ pc' = [pc EXCEPT ![x] = "cleanup"]
            /\ UNCHANGED row
       ELSE /\ pc' = [pc EXCEPT ![x] = "leased"]
            /\ row' = [row EXCEPT ![i].owner = proc[x], ![i].started = TRUE,
                                  ![i].lease = "live"]
  /\ UNCHANGED <<thread, old, agent, beat, requests, crashed>>
  /\ Remember(x)

\* The query of refreshLease, releaseLease and the state saves.
Owns(x) == row[inv[x]].owner = proc[x] /\ ~row[inv[x]].recovered

CancelSeen(i) == row[i].cancel /\ ~row[i].recovered

HeartbeatIgnores(x) ==   \* mutant: a lost lease does not abort
  /\ pc[x] \in Beating /\ beat[x] = "idle" /\ Owns(x)
  /\ beat' = [beat EXCEPT ![x] = "refresh"]
  /\ UNCHANGED <<tables, old, dispatch, pc, agent, requests, crashed>>

\* The heartbeat reads the row, then saves the lease and looks for a cancel request.
HeartbeatReads(x) ==
  /\ pc[x] \in Beating /\ beat[x] = "idle"
  /\ IF Owns(x)
       THEN beat' = [beat EXCEPT ![x] = "refresh"] /\ UNCHANGED aborted
       ELSE aborted' = aborted \union {x} /\ UNCHANGED beat
  /\ UNCHANGED <<tables, old, dispatch, pc, mem, known, save, next, asked, failed,
                 requests, crashed>>

HeartbeatSaves(x) ==
  /\ pc[x] # "dead" /\ beat[x] = "refresh"
  /\ row' = [row EXCEPT ![inv[x]].lease = "live"]
  /\ aborted' = IF CancelSeen(inv[x]) THEN aborted \union {x} ELSE aborted
  /\ beat' = [beat EXCEPT ![x] = "idle"]
  /\ UNCHANGED <<thread, old, pc, mem, known, save, next, asked, failed,
                 requests, crashed>>
  /\ Remember(x)

\* LEASE_TTL_MS pass without a heartbeat, or the owner's process shuts down and
\* calls expireLeasesForOwner.
LeaseExpires(i) ==
  /\ "leaseExpires" \in Happens
  /\ row[i].lease = "live"
  /\ row' = [row EXCEPT ![i].lease = "expired"]
  /\ UNCHANGED <<thread, old, dispatch, pc, agent, beat, requests, crashed>>

GraceOver(i) ==
  /\ "graceOver" \in Happens
  /\ row[i].born /\ ~row[i].started /\ i \notin old
  /\ old' = old \union {i}
  /\ UNCHANGED <<tables, dispatch, pc, agent, beat, requests, crashed>>

----------------------------------------------------------------------------
(* The executor (listeners/start_agent.ts).                                *)

Subscribe(x) ==
  /\ pc[x] = "new"
  /\ pc' = [pc EXCEPT ![x] = "subscribed"]
  /\ UNCHANGED <<tables, old, dispatch, agent, beat, requests, crashed>>

\* The agent loads a state: that of the invocation itself when a question was
\* answered, or that of the parent.  Loading forgets that it was told to stop.
Hydrates(x) ==
  LET parent == row[inv[x]].parent IN
  known[x] = "answered" \/ (parent # None /\ row[parent].state.event # "none")

\* The state the agent starts from, and applyPendingCancel after it.
Prepare(x) ==
  LET parent == row[inv[x]].parent IN
  /\ pc[x] = "leased"
  /\ aborted' = IF CancelSeen(inv[x]) THEN aborted \union {x}
                ELSE IF Hydrates(x) THEN aborted \ {x} ELSE aborted
  /\ mem' = [mem EXCEPT ![x].pending =
               known[x] # "answered" /\ parent # None /\ row[parent].state.pending]
  /\ \/ pc' = [pc EXCEPT ![x] = "ready"] /\ UNCHANGED failed
     \/ pc' = [pc EXCEPT ![x] = "stopping"] /\ failed' = failed \union {x}
  /\ UNCHANGED <<tables, old, dispatch, known, save, next, asked, beat, requests, crashed>>

Start(x) ==
  /\ pc[x] = "ready"
  /\ MarkInProgress(inv[x], "processing")
  /\ pc' = [pc EXCEPT ![x] = "running"]
  /\ UNCHANGED <<row, old, agent, beat, requests, crashed>>
  /\ Remember(x)

\* saver.queue: the newest state waits for the save in flight.
QueueState(x, message) ==
  IF save[x].phase = "idle"
    THEN /\ save' = [save EXCEPT ![x] = [phase |-> "check", message |-> message]]
         /\ UNCHANGED next
    ELSE /\ next' = [next EXCEPT ![x] = message]
         /\ UNCHANGED save

\* An agent event: the state is queued, and a status for a question.
Emit(x, event, place) ==
  LET message == [event |-> event, pending |-> mem[x].pending \/ event = "asked"] IN
  /\ mem' = [mem EXCEPT ![x] = message]
  /\ QueueState(x, message)
  /\ asked' = IF event = "asked" THEN asked \union {x} ELSE asked
  /\ failed' = IF event = "error" THEN failed \union {x} ELSE failed
  /\ pc' = [pc EXCEPT ![x] = place]
  /\ UNCHANGED <<tables, old, dispatch, known, aborted, beat, requests, crashed>>

Progress(x) == pc[x] = "running" /\ mem[x].event # "progress" /\ Emit(x, "progress", "running")

AskQuestion(x) == pc[x] = "running" /\ Emit(x, "asked", "asked")

Complete(x) == pc[x] = "running" /\ Emit(x, "completed", "ended")

Interrupted(x) ==
  pc[x] \in {"running", "asked"} /\ x \in aborted /\ Emit(x, "interrupted", "ended")

\* The exception skips the final state.
AgentFails(x) == pc[x] = "running" /\ x \notin aborted /\ Emit(x, "error", "stopping")

\* A question ends the run of the agent.
HandOver(x) ==
  /\ pc[x] = "asked"
  /\ pc' = [pc EXCEPT ![x] = "ended"]
  /\ UNCHANGED <<tables, old, dispatch, agent, beat, requests, crashed>>

PersistFinal(x) ==
  /\ pc[x] = "ended"
  /\ QueueState(x, mem[x])
  /\ pc' = [pc EXCEPT ![x] = "stopping"]
  /\ UNCHANGED <<tables, old, dispatch, mem, known, asked, aborted, failed, beat,
                 requests, crashed>>

NextSave(x) ==
  /\ save' = [save EXCEPT ![x] =
       IF next[x].event = "none" THEN IdleSave ELSE [phase |-> "check", message |-> next[x]]]
  /\ next' = [next EXCEPT ![x] = NoState]

\* persistAgentStateIfOwned: the query and the save.
SaverChecks(x) ==
  /\ pc[x] # "dead" /\ save[x].phase = "check"
  /\ IF Owns(x) THEN save' = [save EXCEPT ![x].phase = "write"] /\ UNCHANGED next
                ELSE NextSave(x)
  /\ UNCHANGED <<tables, old, dispatch, pc, mem, known, asked, aborted, failed, beat,
                 requests, crashed>>

SaverWrites(x) ==
  /\ pc[x] \notin {"dead", "failWrite"} /\ save[x].phase = "write"
  /\ row' = [row EXCEPT ![inv[x]].state = save[x].message]
  /\ known' = [known EXCEPT ![x] = save[x].message.event]
  /\ NextSave(x)
  /\ UNCHANGED <<thread, old, pc, mem, asked, aborted, failed, beat,
                 requests, crashed>>
  /\ Remember(x)

\* updateTaskFromAgentEvent.
MarkWaiting(x) ==
  /\ pc[x] # "dead" /\ x \in asked
  /\ MarkInProgress(inv[x], "waiting")
  /\ asked' = asked \ {x}
  /\ UNCHANGED <<row, old, pc, mem, known, save, next, aborted, failed, beat,
                 requests, crashed>>
  /\ Remember(x)

\* The finally block waits for the saves and for the status updates.
Flush(x) ==
  /\ pc[x] = "stopping" /\ save[x].phase = "idle" /\ x \notin asked
  /\ pc' = [pc EXCEPT ![x] = IF x \in failed THEN "failing" ELSE "verdict"]
  /\ UNCHANGED <<tables, old, dispatch, agent, beat, requests, crashed>>

\* buildErrorAgentState.
ErrorState(i) ==
  [event |-> "error",
   pending |-> IF row[i].state.event # "none" THEN row[i].state.pending
               ELSE row[i].parent # None /\ row[row[i].parent].state.pending]

AgentEnds == {"completed", "interrupted", "error"}

\* persistExecutionErrorIfMissing, in two steps.
FailureChecked(x) ==
  /\ pc[x] = "failing"
  /\ IF Owns(x) /\ row[inv[x]].state.event \notin AgentEnds
       THEN /\ pc' = [pc EXCEPT ![x] = "failWrite"]
            /\ save' = [save EXCEPT ![x] = [phase |-> "write", message |-> ErrorState(inv[x])]]
       ELSE pc' = [pc EXCEPT ![x] = "verdict"] /\ UNCHANGED save
  /\ UNCHANGED <<tables, old, dispatch, mem, known, next, asked, aborted, failed, beat,
                 requests, crashed>>

FailureSaved(x) ==
  /\ pc[x] = "failWrite"
  /\ row' = [row EXCEPT ![inv[x]].state = save[x].message]
  /\ save' = [save EXCEPT ![x] = IdleSave]
  /\ pc' = [pc EXCEPT ![x] = "verdict"]
  /\ UNCHANGED <<thread, old, mem, known, next, asked, aborted, failed, beat,
                 requests, crashed>>
  /\ Remember(x)

\* updateTaskAfterExecution.
LastEvent(x) == IF known[x] # "none" THEN known[x] ELSE mem[x].event

Verdict(x) ==
  /\ pc[x] = "verdict"
  /\ CASE LastEvent(x) \in {"completed", "interrupted"} -> MarkTerminal(inv[x], "complete")
       [] LastEvent(x) = "error" \/ x \in failed        -> MarkTerminal(inv[x], "error")
       [] OTHER                                         -> UNCHANGED thread
  /\ pc' = [pc EXCEPT ![x] = "release"]
  /\ UNCHANGED <<row, old, agent, beat, requests, crashed>>
  /\ Remember(x)

\* releaseLease, in two steps.
ReleaseChecked(x) ==
  /\ pc[x] = "release"
  /\ pc' = [pc EXCEPT ![x] = IF Owns(x) THEN "releasing" ELSE "cleanup"]
  /\ UNCHANGED <<tables, old, dispatch, agent, beat, requests, crashed>>

ReleaseSaved(x) ==
  /\ pc[x] = "releasing"
  /\ row' = [row EXCEPT ![inv[x]].owner = None, ![inv[x]].lease = "none"]
  /\ pc' = [pc EXCEPT ![x] = "cleanup"]
  /\ UNCHANGED <<thread, old, agent, beat, requests, crashed>>
  /\ Remember(x)

\* The agent is dropped.
Unsubscribe(x) ==
  /\ pc[x] = "cleanup"
  /\ pc' = [pc EXCEPT ![x] = "done"]
  /\ mem' = [mem EXCEPT ![x] = NoState] /\ known' = [known EXCEPT ![x] = "none"]
  /\ aborted' = aborted \ {x} /\ failed' = failed \ {x}
  /\ UNCHANGED <<tables, old, dispatch, save, next, asked, beat, requests, crashed>>

----------------------------------------------------------------------------
(* Cancel requests, archiving, recovery and crashes.                       *)

Listening(i) == {x \in Executions : inv[x] = i /\ pc[x] \in Subscribed}

\* command, and the cancel that archiving a running task sends.
RequestCancel(i) ==
  /\ row[i].born /\ cancels < MaxCancels /\ command = NoCommand
  /\ row' = [row EXCEPT ![i].cancel = (@ \/ ~row[i].recovered)]
  /\ command' = [inv |-> i, at |-> "publish"]
  /\ cancels' = cancels + 1
  /\ UNCHANGED <<thread, old, dispatch, pc, agent, beat, sweep, crashed>>

\* Without a subscriber, recoverIfStartedWithoutSubscribers looks at the question.
PublishCancel ==
  LET i == command.inv IN
  /\ i # None /\ command.at = "publish"
  /\ aborted' = aborted \union Listening(i)
  /\ command' = IF Listening(i) = {} /\ ~row[i].state.pending
                  THEN [inv |-> i, at |-> "recover"] ELSE NoCommand
  /\ UNCHANGED <<tables, old, dispatch, pc, mem, known, save, next, asked, failed, beat,
                 sweep, cancels, crashed>>

\* recoverInvocation.
Recover(i) ==
  IF ~row[i].recovered /\ task.latest = i /\ ~task.archived /\ task.status \in Running
    THEN /\ row' = [row EXCEPT ![i].state = ErrorState(i), ![i].recovered = TRUE,
                               ![i].owner = None, ![i].lease = "none"]
         /\ SetTask([task EXCEPT !.status = "error"])
    ELSE UNCHANGED tables

CancelRecovers ==
  /\ command.inv # None /\ command.at = "recover"
  /\ IF row[command.inv].started THEN Recover(command.inv) ELSE UNCHANGED tables
  /\ command' = NoCommand
  /\ UNCHANGED <<old, dispatch, pc, agent, beat, sweep, cancels, crashed>>

\* archive: the cancel of a running task is published, never written to its row.
Archive ==
  /\ "archive" \in Happens /\ task.root # None /\ ~task.archived
  /\ aborted' = IF task.status \in Running
                  THEN aborted \union Listening(task.latest) ELSE aborted
  /\ SetTask([task EXCEPT !.archived = TRUE])
  /\ UNCHANGED <<row, old, dispatch, pc, mem, known, save, next, asked, failed, beat,
                 requests, crashed>>

NeverStartedOwned(i) ==   \* mutant: only an invocation somebody owned counts
  ~row[i].started /\ i \in old /\ row[i].owner # None

CancelUnheardOwned(i) ==   \* mutant: a cancel counts only while somebody owns the run
  row[i].cancel /\ Listening(i) = {} /\ row[i].owner # None

\* What recoverStaleInvocations decides from the rows it reads.
NeverStarted(i) == ~row[i].started /\ i \in old

LeaseOver(i) == row[i].lease = "expired"

CancelUnheard(i) == row[i].cancel /\ Listening(i) = {}

SweepSkipsWaiting ==   \* mutant: waiting tasks are left alone
  LET i == task.latest IN
  /\ sweep = NoSweep /\ listed
  /\ i # None /\ ~task.archived /\ task.status \in Running \ {"waiting"} /\ ~row[i].recovered
  /\ NeverStarted(i) \/ LeaseOver(i) \/ CancelUnheard(i)
  /\ sweep' = [inv |-> i, act |-> "recover"]
  /\ UNCHANGED <<tables, old, dispatch, pc, agent, beat, command, cancels, crashed>>

\* recoverStaleInvocations reads the hundred running tasks updated longest ago.
SweepReads ==
  LET i == task.latest IN
  /\ sweep = NoSweep /\ listed
  /\ i # None /\ ~task.archived /\ task.status \in Running /\ ~row[i].recovered
  /\ NeverStarted(i) \/ LeaseOver(i) \/ CancelUnheard(i)
  /\ sweep' = [inv |-> i, act |-> IF ~NeverStarted(i) /\ LeaseOver(i) /\ row[i].state.pending
                                   THEN "release" ELSE "recover"]
  /\ UNCHANGED <<tables, old, dispatch, pc, agent, beat, command, cancels, crashed>>

\* Other tasks end or are updated, and this one is among the first hundred.  Waiting
\* tasks stay where they are, for as long as their users do not answer.
OthersMove ==
  /\ ~listed /\ listed' = TRUE
  /\ UNCHANGED <<row, task, old, dispatch, pc, agent, beat, requests, crashed>>

\* releaseStaleWaitingQuestionInvocation.
Release(i) ==
  IF ~row[i].recovered /\ row[i].state.pending
    THEN /\ row' = [row EXCEPT ![i].owner = None, ![i].lease = "none"]
         /\ SetTask(IF task.latest = i /\ ~task.archived /\ task.status \in Running
                      THEN [task EXCEPT !.status = "waiting"] ELSE task)
    ELSE UNCHANGED tables

SweepActs ==
  /\ sweep.inv # None
  /\ IF sweep.act = "recover" THEN Recover(sweep.inv) ELSE Release(sweep.inv)
  /\ sweep' = NoSweep
  /\ UNCHANGED <<old, dispatch, pc, agent, beat, command, cancels, crashed>>

\* A process dies, with its executors and perhaps with the command it handles; the
\* one that replaces it has another owner id.  A sweep that dies might as well not
\* have read.
Crash(p) ==
  LET lost == {x \in Executions : proc[x] = p /\ pc[x] # "done"} IN
  /\ "crash" \in Happens /\ p \notin crashed /\ crashed \union {p} # Processes
  /\ lost # {} \/ command # NoCommand
  /\ crashed' = crashed \union {p}
  /\ pc' = [x \in Executions |-> IF x \in lost THEN "dead" ELSE pc[x]]
  /\ mem' = [x \in Executions |-> IF x \in lost THEN NoState ELSE mem[x]]
  /\ known' = [x \in Executions |-> IF x \in lost THEN "none" ELSE known[x]]
  /\ save' = [x \in Executions |-> IF x \in lost THEN IdleSave ELSE save[x]]
  /\ next' = [x \in Executions |-> IF x \in lost THEN NoState ELSE next[x]]
  /\ asked' = asked \ lost /\ aborted' = aborted \ lost /\ failed' = failed \ lost
  /\ beat' = [x \in Executions |-> IF x \in lost THEN "idle" ELSE beat[x]]
  /\ command' \in {command, NoCommand}
  /\ UNCHANGED <<tables, old, dispatch, sweep, cancels>>

----------------------------------------------------------------------------
Execute(x) ==
  \/ MarkBlocked(x) \/ Subscribe(x) \/ AcquireLease(x) \/ Prepare(x) \/ Start(x)
  \/ Interrupted(x) \/ HandOver(x) \/ PersistFinal(x)
  \/ Flush(x) \/ FailureChecked(x) \/ FailureSaved(x) \/ Verdict(x)
  \/ ReleaseChecked(x) \/ ReleaseSaved(x) \/ Unsubscribe(x)

Converse(x) == Progress(x) \/ AskQuestion(x) \/ Complete(x) \/ AgentFails(x)
Saver(x) == SaverChecks(x) \/ SaverWrites(x)
Heartbeat(x) == HeartbeatReads(x) \/ HeartbeatSaves(x)

Request ==
  \/ \E i, j \in Invocations, x \in Executions, blocked \in Blocking :
       NewTask(i, x, blocked) \/ FollowUp(i, j, x, blocked) \/ Edit(i, j, x, blocked)
  \/ \E i \in Invocations, x \in Executions, blocked \in Blocking : AnswerQuestion(i, x, blocked)
  \/ \E i \in Invocations : RequestCancel(i)
  \/ Archive

Next ==
  \/ Request
  \/ \E x \in Executions : Execute(x) \/ Converse(x) \/ Saver(x) \/ Heartbeat(x) \/ MarkWaiting(x)
  \/ \E i \in Invocations : LeaseExpires(i) \/ GraceOver(i)
  \/ PublishCancel \/ CancelRecovers \/ OthersMove \/ SweepReads \/ SweepActs
  \/ \E p \in Processes : Crash(p)

\* No heartbeat is left to renew the lease.
LeaseLapses(i) ==
  (\A x \in Executions : inv[x] = i /\ pc[x] # "dead" => pc[x] \notin Beating /\ beat[x] = "idle")
  /\ LeaseExpires(i)

\* Every process runs its executors, and the scheduler its sweeps; an agent that
\* was aborted stops.  Nothing makes an agent end by itself, or a user act.
Fairness ==
  /\ \A x \in Executions : /\ WF_vars(Execute(x)) /\ WF_vars(Saver(x))
                           /\ WF_vars(Heartbeat(x)) /\ WF_vars(MarkWaiting(x))
  /\ \A i \in Invocations : WF_vars(LeaseLapses(i)) /\ WF_vars(GraceOver(i))
  /\ WF_vars(PublishCancel) /\ WF_vars(CancelRecovers)
  /\ WF_vars(SweepReads) /\ WF_vars(SweepActs)

Spec == Init /\ [][Next]_vars /\ Fairness

----------------------------------------------------------------------------
(* Properties.                                                             *)

\* A task that is complete has a stored timeline that says so: the final state is
\* in the row before the verdict, and neither a late save nor an executor of
\* another message of the thread takes them apart.  Only an execution whose
\* question was answered before it was over may, when it writes after that.
CompleteIsStored ==
  task.status = "complete" =>
    \/ row[task.latest].state.event \in {"completed", "interrupted"}
    \/ task.latest \in raced

\* The status of a task never leaves complete or error, but for a new message:
\* late executors, recoveries and answers find it closed.
TerminalTaskFinal ==
  [][task.status \in Terminal /\ task'.latest = task.latest => task'.status = task.status]_vars

\* A recovered invocation is never owned again: an executor that comes late or was
\* only slow neither leases it nor brings its lease back.
RecoveredStaysLost ==
  [][\A i \in Invocations :
       row[i].recovered => row'[i].recovered /\ row'[i].owner = None]_vars

\* A task the sweep reads never stays in progress without an executor: whatever
\* died, the sweep closes it or leaves it waiting for its user.
Executing(i) == \E x \in Executions : inv[x] = i /\ pc[x] \in Subscribed \union {"new"}
LostTaskSettles ==
  (/\ task.root # None /\ task.status \in {"initiated", "processing"} /\ ~task.archived
   /\ ~Executing(task.latest) /\ listed)
    ~> (\/ task.status \in Terminal \union {"waiting"} \/ task.archived
        \/ Executing(task.latest) \/ task.latest \in raced)

\* The sweep does not come to the task: nobody executes its latest invocation, and
\* a hundred running tasks were updated before it.
OutOfReach == ~listed /\ ~Executing(task.latest)

\* A requested cancel ends the turn, even when nobody hears it or its executor
\* dies, as soon as the sweep reads the task.
CancelHonoured ==
  \A i \in Invocations :
    (row[i].cancel /\ task.latest = i /\ task.status \in Running)
      ~> (\/ task.status \in Terminal \/ task.archived \/ task.latest # i \/ ~row[i].cancel
          \/ OutOfReach \/ i \in raced)

\* A task that waits has a question to answer, or stops waiting: a question whose
\* state was never stored is not waited for, once the sweep reads the task.
WaitingAnswerable ==
  task.status = "waiting" ~>
    (\/ task.status # "waiting" \/ row[task.latest].state.pending \/ task.archived
     \/ OutOfReach \/ task.latest \in raced)

\* An executor that lost its invocation stops.
EvictedStops ==
  \A x \in Executions :
    (pc[x] \in {"running", "asked"} /\ row[inv[x]].recovered) ~> pc[x] \notin {"running", "asked"}

=============================================================================
