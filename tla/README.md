# Verification of Kanwas

TLA+ models, TLC configurations and TLAPS proofs for Kanwas, a collaborative
workspace: a React client edits Yjs documents through a Yjs server, a backend
runs agents and tasks, and sandboxes (execenv) mirror workspaces as files.

Paths below are relative to the repository.

## The system

| Part | State | Operations | What is hard |
|---|---|---|---|
| Yjs server, room (`yjs-server/src/room.ts`) | root document, one document per attached note, dirty and deleted note ids, save timer, persistence queue, sockets and their subscriptions | load, attach, root and note updates, note bundles, save, snapshot replacement, flush, destroy | every save is a chain of awaits; clients edit, detach and restore notes at each of them; store calls fail in the middle |
| Yjs server, lifecycle (`room-manager.ts`, `socket-connection.ts`, `http-request-handler.ts`) | `rooms`, `initTasks`, `destroyTasks`; the await each socket and request is at | getRoom, replaceDocument, destroyRoomIfEmpty, connect, disconnect | state read before an await and used after it; destruction racing attachment |
| Yjs server, sync protocol (`room.ts`, `sync-v2.ts`) and client providers (`shared/src/workspace/*provider.ts`) | subscriptions, note generations, pending bundles and updates | bootstrap, update, broadcast, create bundle, reload, reconnect | stale generations, bundles whose answer is late, reconnects in the middle |
| Stores (`storage.ts`, `migrating-document-store.ts`) | one root blob and one blob per note and workspace | save, load, delete, migrate a legacy document | calls that fail after they took effect, concurrent migration |
| Backend, agent runtime (`agent_runtime_service.ts`, `start_agent.ts`, `background_agent_execution_service.ts`) | invocation rows: owner, lease, agent state, cancel request, recovery mark | acquire, heartbeat, persist, cancel, recover | read-then-save without a lock, executors that outlive their lease |
| Backend, tasks (`task_lifecycle_service.ts`) and suggestions | task status, generation status | follow the invocation, complete, fail | late results, retries on unique violations, generations out of order |
| Backend, sandboxes (`sandbox_registry.ts`) | Redis records with a lifecycle, local managers | create, attach, update, shut down | two processes on one record, shutdown during initialization |
| Backend, organizations and shares | invites, memberships, share links | accept, revoke, create | unique conflicts, sockets that outlive a revoked share |
| execenv (`sync-manager.ts`) | shadow and base copies, suppression entries, metadata retries | file change, document change, rename, delete | three-way merge across awaits, echoes, retries beside new events |
| frontend, cli | user interface | | undo restores notes that were removed |

How they interact: clients and execenv are sockets of a room; the backend
replaces snapshots over HTTP (`POST /documents/:id/replace`) and is notified of
saves; the room is the only writer of the stores; backend and executors meet in
database rows and Redis records.

What makes them correct: an edit that was accepted is stored in the end; the
store can always be opened again; clients and room agree on a document when
nothing is under way; a workspace has one live room; a socket that
is attached is served; a recovered invocation keeps its verdict; a sandbox that
was shut down stays so; a file and its note converge.

## Modules

| Module | Models | Instances (`MC...`) and runs |
|---|---|---|
| `RoomPersistence` | a room, its documents and its store | `RoomPersistence`, `RoomCrashes`, `RoomUndoDeletesBlob` |
| `Workspace`, `RoomRefinement` | what a room with its store promises its clients, and the mapping | in `RoomPersistence` (`RoomIsWorkspace`) |
| `RoomLifecycle` | rooms, sockets and replacement requests of one workspace | `RoomLifecycle`, `RoomReplacedUnderSocket` |
| `NoteSync` | the protocol between room and client providers, for one note | `NoteSync`, `NoteOfflineRemoval` |
| `AgentRuntime` | invocations of one task: leases, executors, recovery, task status | `AgentRecovery`, `AgentAnswers`, `AgentThread` |
| `SandboxRegistry` | the sandboxes of one invocation, over Redis | `SandboxRegistry` |
| `MarkdownSync` | one markdown file and its note, in execenv | `MarkdownSync` |
| `RoomPersistenceProofs`, `RoomFlushProofs`, `RoomRefinementProofs`, `RoomLifecycleProofs`, `NoteSyncProofs`, `AgentRuntimeProofs`, `SandboxRegistryProofs`, `MarkdownSyncProofs` | theorems | |

A definition commented `mutant` is a plausible wrong form of the one it stands
before; no specification uses it.  It shows that the property named with it
in PROJECT.json would catch that error.

Ghost variables: where the code has a race or a failure that it does not mend,
the model takes it, remembers it, and a property says what holds until it
happens: `mishaps` (MarkdownSync, NoteSync), `lost` and `stale` (NoteSync),
`lapsed` (RoomPersistence), `raced` (AgentRuntime), `revived` and `shared`
(SandboxRegistry), `failed` (RoomLifecycle). Each is reachable in the runs that
check the property, and each is described below its module. Bounds that keep
such a case out of a run altogether are constants (`Faults`, `UndoRestore`,
`Overlap`, `AnsweredAt`, `Happens`), and named with the runs.

### RoomPersistence: a room and the store

One workspace room and its blobs. A Yjs document is the set of edits it holds:
applying an update is union, encoding it is reading the set. Every client
update carries a fresh edit. `root` is `rootState.doc` (the notes it attaches
and its own edits), `doc` and `loaded` are `noteStates`, `loads` are the
`store.loadNote` calls in flight, `rootDirty`, `dirtyNoteIds`,
`deletedNoteIds`, `saveTimer` and `blocked` are the fields of those names,
`queue` is the `persistenceQueue`, `pc` the await at which its head stands, and
`storedRoot`, `blobs`, `blob` are the store.

Every store call is a step of its own, on the bytes that were encoded when the
call was issued. `BeginSave`, `NoteSaved`, `RootSaved`, `DeleteBlob` and
`FinishSave` are the pieces of `queueSave` between its awaits, `SaveFails` its
catch block (with `SaveNoteFails`, `SaveRootFails`, `DeleteNoteFails`, which may
have taken effect, and `RootNotPersistable`, `BeginSaveThrows` for
`assertPersistableRootReferences`); `ReplaceDocument`, `BeginSnapshot`,
`SnapshotNoteSettles`, `SaveSnapshotRoot`, `ReplaceSucceeds` and `ReplaceFails`
are `replaceDocument` and `persistSnapshotBundle`, `SnapshotRejected` is
`replaceDocument` with a snapshot `hydrateSnapshotBundle` throws at; `OpenRoom`, `Close`,
`Destroy` and `Crash` are the life of the room. Client actions are one per kind
of update: `EditNote`, `EditRoot`, `RemoveNote`, `CreateNote` (a bundle) and
`ReplaceNoteDoc` (a new document under an attached note id, which undo sends).

`UndoRestore` says whether clients attach note ids again that were attached
before. New notes get random ids, so only undo (`frontend/src/lib/workspaceUndo.ts`)
does. `Faults` lists the store calls that may fail, `"badSnapshot"` (a bundle
that cannot be read) and `"crash"`. `Overlap` says whether a replacement may be
asked for during another: one flag blocks the room for all of them, so the first
to end unblocks it while the next is queued, and a save behind that one runs
under it, with the documents and dirty sets from before (`ReplaceUnderSave`).

`lapsed` remembers that dirty documents are left with no timer armed and no task
queued: after a save that failed (`room.ts:1105` only logs), after a replacement
that failed, and after a bundle that could not be read, since `replaceDocument`
clears the timer first (`room.ts:353`) and does not arm it again. The next
change, or the save in front of the room's end, stores them.

| Run | Instance | What it shows |
|---|---|---|
| `RoomPersistence` | 2 notes, 3 edits, failing saves and deletions, bad snapshots; 175,049 states | accepted changes stay tracked, no stored edit is lost, no referenced blob is deleted, a flushed room has stored everything, a closed workspace can be opened again, and all of it implements `Workspace` |
| `RoomCrashes` | 2 notes, 2 edits, all faults, undo, overlapping replacements; 381,400 states | an edit in a dirty note is stored in the end, unless a failure has left it behind (`lapsed`); the root of a snapshot is stored after all of its notes |
| `RoomUndoDeletesBlob` | 2 notes, no faults, undo | a violation: see Findings |

Two notes are needed for a save that is at one note while another is removed or
restored; three edits for a change before, during and after a save. The run
also passes with four edits (1,099,392 states up to symmetry). Deadlock is not
checked: when all edits are made and nobody is connected, the system rests.

`EditsReachStore` accepts that a document goes with its room: that a room does
not go before everything is stored is `FlushedStoresEverything`. Fairness
(`FairSpec`): the timer fires, and the steps of the running save and snapshot
are taken. Node's event loop runs timers and settled promises, and the run
assumes a store whose calls return, well or badly. Clients, loads and connections
have none.

The properties that compare documents with blobs (`EditsTracked`, `RootTracked`,
`BlobsOutliveReferences`, `DurableEditsKept`, `FlushedStoresEverything`,
`ColdStoreLoads`, `RoomIsWorkspace`) are checked with one replacement at a time
and with a store that does not fail within one: what a failed replacement, or
one of two, owes to the edits before it the repository does not say. They do
allow bundles that cannot be read.

### Workspace and RoomRefinement: what a room promises

`Workspace` knows no room, blob, load or save: a root that attaches notes and
one text per note, changed by clients (`EditNote`, `EditRoot`, `CreateNote`,
`RemoveNote`) and by replacements, which are asked for and happen in order.
`RoomRefinement` maps a room to it: the documents are the room's while it is
`InMemory` and the store's otherwise, and the text of a note that is not loaded
is its blob. `RoomIsWorkspace` is then that loading, saving, failing store
calls, flushing, closing and reopening are invisible: a client that joins gets
exactly what those before it made. It holds without crashes (what the debounce
has not stored is lost with the process), without `UndoRestore`, without
overlapping replacements and without a store that fails in one.

### RoomLifecycle: rooms, sockets and requests

One workspace in `RoomManager`. A client is a socket or a replacement request;
`at` is the await it is at, `room` the room it waits for or has got. `rooms`,
`initTask` and `destroyTask` are the entries of the three maps, `state`,
`loading` and `sockets` belong to each room object. Actions that need
`resumed = {}` are events (a connection, a disconnect, a store call that
returns); `Continue(c)` is the microtask of a client whose promise settled, up
to its next await. All of them run before the next event, in any order: a model
of the event loop that allows more orders than Node does, where promise chains
have different lengths. The replacements and loads are single steps here; their
inside is RoomPersistence.

`MakeRoom`, `UseRoom` and `GetRoom` are `getRoom` and `replaceDocument`, with
`AwaitDestroyOrUseRoom` the part behind the retry; `DestroyRoomIfEmpty`,
`FlushDone` and `FlushFails` the destruction; `SocketHasRoom`, `AttachDone`,
`AttachFails` and `Disconnect` the handlers in `socket-connection.ts`;
`Request`, `ReplaceDone`, `ReplaceFails` and `Replaced` the HTTP handler.

| Run | Instance | What it shows |
|---|---|---|
| `RoomLifecycle` | 2 sockets, 2 requests, 4 rooms, early departures, failing flushes and cold replacements; 89,931 states | one live room; attached sockets keep it; every client settles; an idle room is destroyed |
| `RoomReplacedUnderSocket` | 1 socket, 1 request | a violation: see Findings |

A client makes at most one room, so as many rooms as clients are enough. Two
waiters behind one promise and a third client that comes later are the
interesting cases; two sockets and two requests have them. The safety
properties also hold with three sockets and two requests. Fairness: a microtask
runs, and every store call a room or a client waits for settles.

The conditions in the properties are where the code's guarantees end.

* `OneLiveRoomKept` holds until a cold replacement fails. `initTasks` is read
  before the await of `destroyTasks` only: a socket and a request that both
  waited initialize the same new room, and when the replacement fails it
  unregisters the room although the socket gets it.
* `ServedUndisturbed` holds until somebody asks for a replacement (Findings, 2)
  or a socket leaves while it waits (place `left`): of two sockets that wait for
  one load, the one that left destroys the room (`socket-connection.ts:438`)
  before the other attaches.
* `IdleRoomDestroyed` accepts that after a failed flush or replacement an empty
  room stays until the next client comes.

### NoteSync: the protocol between room and providers

One note and the clients of its workspace. A document is what it has received,
merged by union. `root` and `sroot` hold, of the root documents of clients and
room, the values that were set for the key of the note and those deleted
(`Latest` is the last, with Yjs' rule that a value waits for the ones before it,
`Instance` the one that counts); `note` and `snote` are the `NoteState` and `DocState` with
their `generation` and `ready`; `conn` is `connected` with `rootSynced`;
`resync` holds `pendingRootDocResync` and `pendingDocResync`; `kept` is the
document that undo has remembered. `up` and `down` are the messages under way on
a connection: ordered, and lost with it.

`Follow` is `syncAttachedNotes` of both sides with `createNoteState` (a new
document under the key begins the next generation). `EditNote` is the update
handler of a note document; `CreateNote`, `RemoveNote` and `UndoRemoval` make a
root change that goes through `ChangeRoot` (`handleRootDocumentUpdate`);
`Connect`, `Drop`, `ReopenRoom` are connections and the end of an empty room;
`ReceiveBootstrap` is `applyBootstrap` with `flushUnsyncedLocalState`;
`ReceiveRootUpdate`, `ReceiveNoteUpdate` are `applyDocMessage`;
`AcceptRootUpdate`, `AcceptBundle`, `AcceptNoteUpdate` the room's handlers with
validation, generation check and broadcast.

| Run | Instance | What it shows |
|---|---|---|
| `NoteSync` | 2 clients, 1 edit, 1 broken connection; 87,025 states | at rest, clients and room agree on the note, its text and its generation; a client that connects gets ready; offline edits arrive |
| `NoteOfflineRemoval` | the same | a violation: see Findings |

Two clients are one that acts and one that only hears of it; the note may
exist at the start or be created, be removed and brought back once. The safety
properties also hold with two edits and with two broken connections (185,585 and
211,983 states up to symmetry), and with three clients (4.7 million).
Fairness: messages on a connection are handled and socket.io reconnects; nothing makes a user act. Deadlock is not checked:
users may stop.

What the properties do not cover, because the protocol does not mend it:

* A removal, a bundle or an undo that is lost with its connection (`mishaps`),
  and edits lost likewise (`lost`): updates are sent once, without
  acknowledgement.
* A note that is made before the bootstrap, or offline: `applyBootstrap`
  attaches it, so `flushUnsyncedLocalState` (`socketio-provider.ts:596`) finds
  no introduced note and sends a plain update, which the room refuses
  ("Root update introduced unknown note", `yjs-server/tests/unit/room.spec.ts:364`). The
  room's undo leaves the key deleted, and the next bootstrap takes the note from
  its creator.
* Undo of a removal puts two documents under the key, one after the other: the
  client is at generation 3 and the room at 2, and each drops the other's
  updates until the client's next bootstrap. A client that joined while the note
  was removed counts from 1 and has the same trouble (`stale`).

Abstractions: the bootstrap is read when the socket is attached, in one step;
notes are created with their content, so that a bundle never waits. Left out:
awareness, readonly sockets and shared links, rooms of a single note,
replacement and reload, roots that fail validation for another reason, a
locked-out client's further life.

### AgentRuntime: invocations, executors and their task

The messages of one thread. `row` is the invocations table (owner, lease, agent
state, cancel request, recovery mark), `task` the row of the thread; a method
that reads and later saves is two steps, a transaction with `FOR UPDATE` one.
`pc` is the await at which `executeAgent` stands, with its saver (`save`,
`next`), its status queue (`asked`) and its heartbeat (`beat`); `sweep` is what
`recoverStaleInvocations` has read, `command` the cancel request being handled.
`Happens` says what else may happen: a process crashes, a lease lapses under a
live executor (`leaseExpires`), the grace of an invocation that never started is
over (`graceOver`), the thread is archived, and `manyTasks`, that there are more
running tasks than the sweep reads.

The sweep reads the hundred running tasks updated longest ago
(`agent_runtime_service.ts:206`). `listed` says whether this one is among them.
A save of the row moves it to the end (`SetTask`), where it may fall out;
`OthersMove` is that it comes back, which depends on other users: waiting tasks
the sweep leaves alone stay at the head. `SweepReads` takes only a task that is
`listed`, it is fair only in that case, and nothing makes `OthersMove` happen.

A question reaches the client before its executor has saved and cleaned up, and
the controller does not look whether it has. `AnswerQuestion` may come wherever
the execution that asked stands; the second execution then runs beside the rest
of the first, perhaps under the same owner id. `raced` remembers the invocations
that an execution wrote (its row or the task) after a later one was dispatched
for the same invocation (`Remember`). `AnsweredAt` bounds in each run where
the first may stand when the answer comes.

| Run | Instance | What it shows |
|---|---|---|
| `AgentRecovery` | 1 invocation, 1 execution, 2 processes, 1 cancel, the usage gate, crashes, lapsing leases, many tasks; 154,311 states | a closed task stays closed, a recovered invocation is not taken back, cancels are honoured, evicted executors stop |
| `AgentAnswers` | 1 invocation, 2 executions, 2 processes, the usage gate, crashes, lapsing leases, many tasks, answers from the first one's clean-up on; 241,339 states | lost tasks settle, waiting tasks can be answered |
| `AgentThread` | 2 invocations, 2 executions, 2 processes, archiving, answers at any time; 1,522,401 states | a task that is complete has a stored timeline that says so, whichever executor of the thread comes late |

One execution with a second process is the smallest instance in which an
executor and the recovery run beside each other; an answer needs a second
execution of the invocation, follow-ups and edits two invocations. In
`AgentAnswers` the first execution may still have its release to do, the sweep
may read the task between the answer and the new lease
(`agent_invocations_controller.ts:854` resets `agentStartedAt`), and either
process may die; that an answer comes earlier than the clean-up is in
`AgentThread`, which also passes with the usage gate (2,524,750 states).
`RecoveredStaysLost` and its companions are about one invocation,
`CompleteIsStored` about the latest of several. One sweep at a time, and an
archive's publish and save are one step.

Fairness: the steps of an executor, its saver, heartbeat and status queue are
taken unless its process died; a lease that nobody renews lapses; the grace ends;
Redis delivers a cancel; the sweep runs again and again, and reads a task that
stays listed. Nothing makes an agent end by itself, a user act, or a task come
among the first hundred.

What the properties leave out, because the code does not mend it:

* A task the sweep does not reach (`OutOfReach`): more than a hundred others
  were updated before it. `LostTaskSettles`, `CancelHonoured` and
  `WaitingAnswerable` speak of it once it is listed.
* An execution that writes after it was overtaken (`raced`). Its last save may
  put a question over the completed state, and its release
  (`agent_runtime_service.ts:94`), under the owner id both share, clears the
  lease of the second, whose saver and heartbeat then find no row of theirs: it
  stops without a verdict, and the task stays in progress.
* `persistAgentStateIfOwned` looks for owner and recovery in one query and saves
  by primary key in another (`agent_runtime_service.ts:150-164`). A sweep in
  between recovers the invocation, and the late save replaces the error timeline
  it stored; the test at `agent_runtime_service.spec.ts:204` saves only after
  the recovery. The model has these two steps, and TLC finds the case when asked
  whether a recovered row keeps its state; `CompleteIsStored` and
  `TerminalTaskFinal` hold nevertheless.

### SandboxRegistry: the sandboxes of one invocation

`record` is the JSON record in Redis with its lifecycle, `listed` the
membership in `workspace_invocations`, `cache` and `tasks` the maps of each
process, `man` the `SandboxManager` objects, `running` the sandboxes that the
provider runs. Every Redis command is a step, a compare-and-set script is atomic.
`Create...` are the pieces of `createInvocationSandbox`, `Init...`, `Retire`,
`Close...` those of the initialization in the background, `Notice...` the update
by `onSandboxId`, `Shutdown...` those of `shutdownInvocationSandbox`, and
`Sandbox...` the provider.

| Run | Instance | What it shows |
|---|---|---|
| `SandboxRegistry` | 2 executions in one process (`OneHome`), a second process idle; 1,010,539 states | at rest no sandbox runs on, the invocation is not listed and its record has ended; the sandbox in use is not shut down; the invocation comes to rest |

Two executions are a lifecycle and its successor. Two processes
(`TwoHomes`, 7,024,196 states) also pass; the shared maps of one process are the
harder case.
Fairness: something that is under way goes on (`WF_vars(Proceed)`), no more.

An execution asks its question with a sandbox in hand, and the next may begin
as soon as it has one, at any point of its use and clean-up (`Begin`); a turn that
was told to stop before it creates a sandbox only cleans up (`agent.ts:237`).

What the properties leave out, because the code does not mend it:

* `revived`: `updateInvocationRecord` leaves ended records alone ("avoids
  resurrection", `sandbox_registry.ts:201`), but looks at the record it has read
  and compares only the lifecycle when it saves, so an update that was read
  before the record ended writes `ready` over `shutdown`.
* `shared`: an execution that begins before the one before it has cleaned up joins
  that one's lifecycle, and a clean-up shuts down whichever lifecycle the record
  names (`sandbox_registry.ts:629`). The sandbox then goes under the execution
  that uses it; its manager starts another when it is used again, under a
  record that has ended, and nobody ends that one.

`NoLeak` and `OwnSandboxKept` hold until one of the two happens (`Apart`),
`EndedRecord` until a record is revived, `Unlisted` and `ComesToRest` always.
Left out: the debug sandbox, a join without creation, the expiry of ended
records.

### MarkdownSync: a file and its note

One note and the file it is mapped to. A text is the set of its lines; `doc` is
the note, known by the lines it prints as, `shadow` the markdown both last agreed
on, `suppressed` the bag of contents whose echo is expected, `timers` the
deletions that wait for the rename window, `queue` the handler's queue, and `at`
the await of its handler.

The conversion is lossy. `Printed` gives for each line what a note prints once
the line has been put into it (`tryParseMarkdownToBlocks`, then
`blocksToMarkdownLossy`): the line itself, another spelling of it (`- one` as
`* one`), or nothing. `Shown(text)` is the print of a text; after `Apply` the note
is `Shown(job.put)`, and after `RefreshShadow` the shadow is the note's print
while the file keeps the agent's text until a write-back or a restore. So a file
may say more than its note, and spell it otherwise, for as long as the agent's
writes are simply applied. What is assumed of printing (`PrintedAssumption`): what
was printed prints the same again, and a line that users typed prints as it is
(users edit blocks, not markdown). A line stands for itself wherever it is; what
surrounds it does not change its print.

`Merged` is `mergeMarkdown3Way` on the texts as they are: the base and the note
are prints, the file is not. Whether a conflict arises when both sides changed
is left open, with one exception: where users removed a line that the file
spells its own way, the merge sees a change and a removal of the same place and
must refuse (`Clash`). Whether a file has exactly the bytes of the note
(`exact`) is open too.

| Run | Instance | What it shows |
|---|---|---|
| `MarkdownSync` | agent's lines that print as they are, in another spelling, and not at all, 2 lines of users, 2 changes of the file, 2 of the note; 720,799 states | at rest the shadow is the print of the file's text, the note holds what was written and not taken away as far as it can, an agent's file has a note; users' lines are never dropped on the way; watcher and handler come to rest |

Two changes of the file are a create and an update that meets what users did, or
a delete that meets the write-back of the first; two changes of users come
before and after it. By hand, with the same result: 3 and 1 changes with two
lines of the agent, one of them respelled (656,529 states). Bounds: the agent
writes no text that says one thing twice (`Single`), and users do not type the
agent's lines. Fairness: the watcher looks and the handler goes on; nothing is
said of agent and users.

`mishaps` names the races the handler does not see, each reachable: an edit
between the handler's look at the note and its change; a file written again
before the write-back; a change taken for an echo; a deletion that was due for
an earlier file; a note that went; a Kanwas.md restored past its shadow; a
removal nobody saw; a change before the watchers started. `NoteAsWanted`,
`ShadowIsFile` and `UserLinesKept` hold until one has happened, `FileHasNote`
until one of two, `ComesToRest` always. `Contested` are the lines both sides have
ever taken away (`removed`).

What the note cannot say is in the file only, and the next write-back or restore
drops it there without a word. The code promises no more than the note can hold,
and `NoteAsWanted` speaks of that; a change that is refused as a conflict counts
as not made.

Not in the model: the order of lines, what printing loses of users' own
formatting, renames, placement intents, sections, metadata.yaml and its
retries, other file types, writes of the file that fail. Users' edits reach the
file only when the agent changes it: `execenv/README.md:179` speaks of
bidirectional sync, the code has no listener that writes them.

## Findings

1. **Undo can delete the blob of an attached note** (`RoomUndoDeletesBlob`).
   `queueSave` fixes the blobs to delete when it starts and encodes the root
   later. A note that is restored in between is attached by the stored root, and
   its blob is deleted. The note is dirty and saved again later; a crash or a
   failed save before that leaves a workspace that does not load.
2. **A replacement destroys the room of a socket that is joining it**
   (`RoomReplacedUnderSocket`). The socket awaits the initialization the request
   runs and does not count as a connection yet; the flush does not look again.
   The socket stays connected to a room that drops its updates.
3. **Removing a note offline locks the client out** (`NoteOfflineRemoval`). A
   note whose removal has not reached the room (made offline, or under way when
   the connection broke) is in the next bootstrap and not in the merged root.
   `applyBootstrap` throws at it, before it sends what is pending, and
   `handleBootstrap` disconnects the socket. Every later connection of that
   provider ends the same way.

## Proofs

The theorems hold for all values of the constants: any number of notes, edits,
sockets, requests, rooms, invocations, executions, processes, lines and changes.
Each follows from an inductive invariant, which TLC checked first on the runs'
instances. What a theorem assumes of the constants is named with it. The rest is
in the properties themselves: those that hold until a remembered race or failure
(the ghosts above) say no more when they are proved. The modules' `ASSUME`s say
that bounds are numbers and that names are different (`None` is nobody's name, no
line is both the agent's and a user's), and, in `MarkdownSync`, that printing is
stable (`PrintedAssumption`).

### A room and its store

* `RoomPersistenceProofs!TypeCorrect`: `[]TypeOK`, for all constants.
* `SnapshotsWhole`: `SnapshotRootAfterNotes`, for all constants: also with
  overlapping replacements and saves under them. `SnapshotInv` says what is
  stored at each await of a snapshot.
* `NoForgottenEdit`, `NoForgottenRootChange`, `DeletionAfterRoot`,
  `SavesKeepEdits`: `EditsTracked`, `RootTracked`, `BlobsOutliveReferences` and
  `DurableEditsKept`, for rooms whose notes are not restored, whose
  replacements do not overlap and whose store does not fail in one
  (`~UndoRestore`, `~Overlap`, `"snapshot" \notin Faults`); saves and deletions
  may fail, bundles be unreadable and the process crash at any point.
  `ReplacementInv` is what `~Overlap` gives: one replacement at most is queued,
  and the room is blocked until it is over, so that no save begins under it. The inductive invariant
  `SaveInv` adds to the properties what a save relies on: at each await, what is
  in `batch`, `left`, `writes` and `deletes` (`SaveShape`), that a detached note
  id never comes back (`UsedIds`, `QueuedNotes`), that a tracked document holds
  its blob once loaded (`LoadedNotes`, `StoredEdits`), and that the stored root
  attaches no more than the room's (`RootFollowed`). None of the properties is
  inductive alone: `EditsTracked` breaks at the end of a save unless what the
  save wrote is what it took over.
* `RoomFlushProofs!FlushIsComplete`: `FlushedStoresEverything`, under the assumptions of
  `NoForgottenEdit`. `QueueShape` says that there is one flush at most, that only
  saves queue up behind it, and that the head of the queue is what is being
  done; `FlushedClean` that the flush ends with nothing dirty.
* `ColdRoomOpens`: `ColdStoreLoads`, when the process does not crash either (a
  crash may leave a root whose notes never were stored). `UnloadedStored`: every
  note of the root is loaded or has its blob.
* `RoomRefinementProofs!RoomImplementsWorkspace`: `RoomIsWorkspace`, under the
  same assumptions. Each step is a step of `Workspace` (`ClientStepSeen`,
  `SnapshotStepSeen`) or unseen (`RoomStepUnseen`, `SaveStepUnseen`). That a
  note which is not loaded has the text of its blob is `ColdRoomOpens`; that an
  unseen close loses nothing is `FlushIsComplete`. `AskedIn` is a function on the
  prefixes of the queue, whose values are proved by induction: the least number
  at which a statement about sequences fails (`WFMin`) is none (`QueueInduction`).

### Rooms, sockets and requests

* `RoomLifecycleProofs!TypeCorrect`, and `OneRoom`: `OneLiveRoomKept`, for
  all constants. `LiveInv` says what stands behind each map entry until a cold
  replacement fails: an `initTasks` entry is a load of an empty room or a cold
  replacement (`InitTaskServed`, `ColdReplaces`), a `destroyTasks` entry is an
  initialized room (`DestroyedRoom`), and a client that got a room got one that
  was initialized (`ClientRooms`).
* `NobodyLosesTheRoom`: `ServedUndisturbed`, for all constants. `ServedInv`
  adds that a room is destroyed only while it has no sockets and no client is
  about to continue (`Quiet`). It holds while nothing has come of a request or
  of an early leaver (`Calm`), which unlike `Undisturbed` is never true again
  once it is false. `EverybodyServed`: in systems without requests and early
  departures that is always, so `AttachedServed` holds.
* `EveryPromiseSettles`: `NoPromiseDropped`, for all constants. (It is a
  definition of the proof module and no run's property: what breaks it shows in
  `EveryClientSettles`. By hand, TLC agrees on the instance of the run.) Most of
  `LiveInv` is lost with a failed cold replacement, but what is behind the map
  entries is not: `Awaited` says in its place that the room that is being
  initialized is the registered one, and that only a room that was given up is
  empty without an initialization. With fairness of the tasks it is what
  `EveryClientSettles` rests on.

### Invocations and their task

For all constants: with every crash, lapse, cancel and archive, any number of
other tasks, and questions answered wherever the execution that asked stands.

* `AgentRuntimeProofs!AgentTypeCorrect`: `[]TypeOK`.
* `CompleteTaskStored`: `CompleteIsStored`, which excepts invocations that are
  `raced`. Of the executions of an invocation the last one `Leads`, unless one
  it has overtaken wrote all the same. `AgentInv` says of every execution where
  its agent, saver and failure can be (`ShapeOf`), and of the leading one that
  what it knows to be stored is stored (`KnownOf`) and that until it stored
  anything it owns the row, with its state on the way (`NothingOf`). When the
  task is complete, the executions that could still store something were
  overtaken (`CompleteIsFinal`): the executor, its saver and its status queue
  each read the row before they write it, so the property needs to know of
  all three what they have read.
* `LostStaysLost`: `RecoveredStaysLost`, with `RecoveredUnowned`.
* `TaskOverStaysOver`: `TerminalTaskFinal`.

### Sandboxes

For all constants, in any distribution of executions over processes (`Home`):

* `SandboxRegistryProofs!RegistryTypeCorrect`: `[]TypeOK`.
* `NotListedAtRest`, `RecordsEnd`: `Unlisted` and `EndedRecord` (which excepts
  revived records). `PlacesInv`: one execution creates its sandbox at a time
  (`Turns`); one that has set its record has it (`Added`); the listing
  (`ListedByWorker`) and a living record (`LivingHasWorker`) have an execution
  at work, be it the first or the one that overtook it.
* `OwnSandboxStays`, `NothingLeaks`: `OwnSandboxKept` and `NoLeak`, for executions
  that are `Apart`. `Own` says of each of them: the manager made for it is the
  only one that uses its lifecycle, its sandbox runs exactly while that manager
  is booting or ready, and what is cached, pending or recorded of it fits the
  place where the execution is. A step about one execution leaves what the others
  own (`Only`, `OthersOwn`). `Apart` is false for good once a record was revived
  or a lifecycle shared.

### A file and its note

For all lines, any number of changes, and any printing that is stable
(`PrintedAssumption`):

* `MarkdownSyncProofs!MarkdownTypeCorrect`: `[]TypeOK`.
* `NoUserLineLost`: `UserLinesKept`. `ShadowInv`: what the shadow has and the
  file does not show, the agent took away. A merge takes from the note what the
  file has lost since the shadow, so nothing but that; at the await before
  `Apply` the same holds of what was read. `CleanInv` is what stability gives:
  note, shadow and base are prints, so that they print as they are.
* `ShadowFollowsFile`: `ShadowIsFile`. `OwnText` says that a file the manager
  wrote is what the shadow says and is never applied again, `FileSeen` that a
  file is as the manager knows it, in the handler's hands or to be reported yet.
* `AgentFileMapped`: `FileHasNote`, from `FileReached`.
* `NoteIsAsWanted`: `NoteAsWanted`. `WantedInv` says at each place of the handler
  of which text the note and the print of the file are changes (`Follows`): of
  the shadow, while the handler is idle, of what was read, once the note has it.
  A line that one side put on top of that text or dropped from it is wanted, or
  not, as that side has it. `ShownMerge` is why respelling does not matter to a
  merge that is not refused: the print of what `Merged` makes is the note less
  the lines of the base that the file does not show, with those it shows and the
  base has not; a `Clash` would break it. The await before the note is written
  (`PutInv`) and the one before the file is (`BackInv`) also know what has not
  been read.

### A note and its clients

For any number of clients, edits, removals and broken connections:

* `NoteSyncProofs!NoteTypeCorrect`: `[]TypeOK`. A generation is at most 4: no
  side counts further than the last value its root has seen (`CountInv`, with
  the same of each message under way).
* `SidesCountAlike`: `GenerationsAgree`. `RootInv` holds until a removal, a bundle
  or an undo is lost with its connection. It says where every key can stand
  (`Legal`: a note, its removal, the two documents that undo sets, removal of the
  last), and of each connection that what is under way fits what its receiver
  will hold when it gets there (`GoesUp`, `GoesDown`: `Ahead(s, q, i)` is that
  key after `i` messages). So at most one client is ahead of the room as to
  what was set (`Known`), the room never refuses a change (`RoomAccepts`), and
  at rest the roots are the same (`RootsAgree`). `CountedAlike` then relates the
  generations: each side that is not `stale` has counted all the documents of
  its root but `Offset`, which is the same for all, as every client takes over
  the room's generation with the bootstrap.
* `ClientsConverge`: `Converged`, until such a loss. `Gens` says of every text
  under way that its generation is the one its receiver will be at by then, unless
  that client counts one more since it undid a removal (`Holds`), and that no
  text reaches the room before the note. `Texted` then says where a
  text is: each edit a client has is lost, in the room, still to be flushed, or in a
  message of the note or bundle it has now (`TextUp`, `CarriesUp`); each edit of
  the room is with a client that listens, or in a message or bootstrap to it
  (`TextDown`, `CarriesDown`); and nothing is under way, for the note
  as it is now, that its sender has not (`OwnUp`, `OwnDown`). The last part is what
  makes the others inductive: the room tells an edit to all but the client that
  sent it. At rest nothing is under way, so both texts are the same.

### Only model-checked

Beyond the prover, the liveness properties
(`EditsReachStore`, `EveryClientSettles`, `IdleRoomDestroyed`, `ClientsSync`,
`OfflineEditsArrive`, `LostTaskSettles`, `CancelHonoured`, `WaitingAnswerable`,
`EvictedStops`, `ComesToRest`) and all violations.

## Not modelled

* Awareness, reload, rooms of a single note and validation of updates beyond its
  outcome; the backend notifier; the shutdown of the server; the legacy
  migration; time (a debounce timer may fire at any moment).
* Suggested tasks, organizations, invites and shares: each operation is one
  row-locked transaction, whose correctness is that of single statements and
  unique constraints.
* The rest of the backend (controllers, agent tools, model calls,
  integrations), the frontend and the cli: input and output without a protocol
  of their own. They are most of the lines of the repository.
* `shared/src/workspace/filesystem-syncer.ts` and its neighbours: conversions
  between trees and paths, whose properties are those of the conversion.

## Plan

The behaviour is modelled, and all safety properties of the runs are proved, as
is the refinement. What would follow:

1. The safety parts of the liveness properties, as `NoPromiseDropped` is that of
   `EveryClientSettles`: what is to happen has an action that is enabled, or a
   task under way that will enable it. First `EditsReachStore`, `CancelHonoured`
   and `ComesToRest` of the sandboxes.
2. Renames in `MarkdownSync`, whose hazards are listed without a property.
