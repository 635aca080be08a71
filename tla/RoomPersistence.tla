-------------------------- MODULE RoomPersistence --------------------------
(***************************************************************************)
(* How one workspace room of the Yjs server keeps its documents and the    *)
(* blob store in step (yjs-server/src/room.ts).                            *)
(*                                                                         *)
(* A workspace is a root document, which attaches notes, and one document  *)
(* per attached note.  A Yjs document is abstracted to the set of edits it *)
(* holds: applying an update is set union, encoding it is reading the set. *)
(* Every update a client sends carries an edit no earlier update carried.  *)
(*                                                                         *)
(* All persistence runs through one promise chain (persistenceQueue); its  *)
(* head is the running task.  Every call to the store is a step of its own *)
(* that works on bytes encoded when the call was issued, so that client    *)
(* updates, note loads, replacements and disconnects interleave with it.   *)
(***************************************************************************)
EXTENDS Integers, Sequences, FiniteSets

CONSTANTS
  Notes,        \* note ids
  Edits,        \* edits: bounds how many client updates and snapshots there are
  Faults,       \* store operations that may fail, "badSnapshot" and "crash"
  UndoRestore,  \* whether clients re-attach note ids that were attached before
  Overlap       \* whether a replacement may be asked for during another one

FaultKinds == {"saveNote", "saveRoot", "deleteNote", "snapshot", "badSnapshot",
               "crash"}

ASSUME NotesAssumption == Notes # {}
ASSUME FaultsAssumption == Faults \subseteq FaultKinds
ASSUME UndoRestoreAssumption == UndoRestore \in BOOLEAN
ASSUME OverlapAssumption == Overlap \in BOOLEAN

VARIABLES
  root,           \* rootState.doc: the notes it attaches and its own edits
  doc,            \* noteStates: the edits in the tracked doc of each note
  loaded,         \* notes whose tracked state is loaded
  loads,          \* noteLoadTasks: store.loadNote calls in flight, with their bytes
  rootDirty, dirtyNoteIds, deletedNoteIds,
  saveTimer,      \* is the debounce timer armed?
  lapsed,         \* ghost: has a failure left dirty documents, with no timer
                  \* armed and no task queued, and nobody changed them since?
  blocked,        \* blockedForReplacement
  queue,          \* persistenceQueue: the tasks, the running one first
  pc,             \* where the running task is
  batch,          \* noteIdsToSave of the running save
  left,           \* those of batch the loop has not stored or skipped
  writes,         \* the store.saveNote call of the loop in flight, if any
  withRoot,       \* rootShouldSave of the running save
  rootImage,      \* the root bytes passed to the store.saveRoot call in flight
  deletes,        \* noteIdsToDelete not deleted yet
  snapFailed,     \* has a note save of the running replacement failed?
  storedRoot,     \* the root blob
  blobs, blob,    \* the note ids that have a blob, and what it holds
  status,         \* life of the room as its manager sees it
  clients,        \* the widest kind of socket that is attached
  fresh,          \* edits no client has made yet
  used            \* note ids that were attached at some time

memory == <<root, doc, loaded>>
dirt   == <<rootDirty, dirtyNoteIds, deletedNoteIds>>
timer  == <<saveTimer, lapsed>>
save   == <<batch, left, writes, withRoot, rootImage, deletes, snapFailed>>
store  == <<storedRoot, blobs, blob>>
ids    == <<fresh, used>>
vars   == <<memory, loads, dirt, timer, blocked, queue, pc, save, store,
            status, clients, ids>>

RootDoc == [notes : SUBSET Notes, edits : SUBSET Edits]
Task    == [kind : {"save", "flush", "replace"},
            notes : SUBSET Notes, edits : SUBSET Edits]
NoteBytes == [note : Notes, edits : SUBSET Edits]

SaveTask  == [kind |-> "save",  notes |-> {}, edits |-> {}]
FlushTask == [kind |-> "flush", notes |-> {}, edits |-> {}]
EmptyRoot == [notes |-> {}, edits |-> {}]
NoDocs    == [n \in Notes |-> {}]

TypeOK ==
  /\ root \in RootDoc /\ storedRoot \in RootDoc /\ rootImage \in RootDoc
  /\ doc \in [Notes -> SUBSET Edits] /\ blob \in [Notes -> SUBSET Edits]
  /\ loaded \subseteq root.notes
  /\ loads \subseteq NoteBytes /\ writes \subseteq NoteBytes
  /\ rootDirty \in BOOLEAN /\ saveTimer \in BOOLEAN /\ blocked \in BOOLEAN
  /\ withRoot \in BOOLEAN /\ snapFailed \in BOOLEAN /\ lapsed \in BOOLEAN
  /\ dirtyNoteIds \subseteq Notes /\ deletedNoteIds \subseteq Notes
  /\ queue \in Seq(Task)
  /\ pc \in {"idle", "notes", "root", "deletes", "snapNotes", "snapRoot"}
  /\ batch \subseteq Notes /\ left \subseteq Notes /\ deletes \subseteq Notes
  /\ blobs \subseteq Notes /\ used \subseteq Notes /\ fresh \subseteq Edits
  /\ status \in {"cold", "replacing", "live", "closing", "flushed"}
  /\ clients \in {"none", "note", "workspace"}

----------------------------------------------------------------------------
(* Rooms start, and restart, from what is stored.                          *)

\* A room object with nothing in it: constructor and teardownWorkspaceState.
EmptyRoom ==
  /\ root' = EmptyRoot /\ doc' = NoDocs /\ loaded' = {} /\ loads' = {}
  /\ rootDirty' = FALSE /\ dirtyNoteIds' = {} /\ deletedNoteIds' = {}
  /\ saveTimer' = FALSE /\ lapsed' = FALSE
  /\ pc' = "idle" /\ batch' = {} /\ left' = {} /\ writes' = {}
  /\ withRoot' = FALSE /\ rootImage' = EmptyRoot /\ deletes' = {}
  /\ snapFailed' = FALSE

\* A stored workspace every note of which has its blob, and no room yet.
Init ==
  /\ root = EmptyRoot /\ doc = NoDocs /\ loaded = {} /\ loads = {}
  /\ rootDirty = FALSE /\ dirtyNoteIds = {} /\ deletedNoteIds = {}
  /\ saveTimer = FALSE /\ lapsed = FALSE /\ blocked = FALSE /\ queue = << >>
  /\ pc = "idle" /\ batch = {} /\ left = {} /\ writes = {}
  /\ withRoot = FALSE /\ rootImage = EmptyRoot /\ deletes = {}
  /\ snapFailed = FALSE
  /\ blobs \in SUBSET Notes /\ blob = NoDocs
  /\ storedRoot = [notes |-> blobs, edits |-> {}]
  /\ status = "cold" /\ clients = "none"
  /\ fresh = Edits /\ used = blobs

\* RoomManager.getRoom on a workspace without a room: initialize.  The notes
\* of the root get an unloaded state each.
OpenRoom ==
  /\ status = "cold"
  /\ status' = "live"
  /\ root' = storedRoot
  /\ UNCHANGED <<doc, loaded, loads, dirt, timer, blocked, queue, pc,
                 save, store, clients, ids>>

\* loadNoteState up to its await.  A missing blob makes the attachment that
\* asked for the note fail and changes nothing.
LoadNote(n) ==
  /\ status = "live" /\ n \in root.notes \ loaded /\ n \in blobs
  /\ \A l \in loads : l.note # n
  /\ loads' = loads \union {[note |-> n, edits |-> blob[n]]}
  /\ UNCHANGED <<memory, dirt, timer, blocked, queue, pc, save, store,
                 status, clients, ids>>

\* loadNoteState after its await, the tracked state being still the same.
NoteLoaded(l) ==
  /\ loads' = loads \ {l}
  /\ doc' = [doc EXCEPT ![l.note] = @ \union l.edits]
  /\ loaded' = loaded \union {l.note}
  /\ UNCHANGED <<root, dirt, timer, blocked, queue, pc, save, store,
                 status, clients, ids>>

\* attachSocket: a workspace socket is subscribed once every attached note is
\* loaded, a note socket once its note is.
AttachUnloaded(kind) ==   \* mutant: subscribed before the notes are loaded
  /\ status = "live" /\ kind = "workspace"
  /\ clients' = kind
  /\ UNCHANGED <<memory, loads, dirt, timer, blocked, queue, pc, save,
                 store, status, ids>>

Attach(kind) ==
  /\ status = "live"
  /\ \/ /\ kind = "workspace"
        /\ root.notes \subseteq loaded
     \/ /\ kind = "note"
        /\ loaded # {} /\ clients = "none"
  /\ clients' = kind
  /\ UNCHANGED <<memory, loads, dirt, timer, blocked, queue, pc, save,
                 store, status, ids>>

\* The last workspace socket leaves, note sockets stay.
WorkspaceSocketsLeave ==
  /\ clients = "workspace" /\ loaded # {}
  /\ clients' = "note"
  /\ UNCHANGED <<memory, loads, dirt, timer, blocked, queue, pc, save,
                 store, status, ids>>

----------------------------------------------------------------------------
(* Client updates.                                                         *)

\* handleSocketDocEnvelope and handleCreateNoteBundle drop everything while a
\* replacement is in progress and once the room is gone.
Accepting == status = "live" /\ ~blocked

\* A change arms the timer, anew if it is armed.
ScheduleSave == saveTimer' = TRUE /\ lapsed' = FALSE

\* A root update that was validated and applied: handleRootDocumentUpdate.
ChangeRoot(notes, e) ==
  /\ Accepting /\ clients = "workspace" /\ e \in fresh
  /\ fresh' = fresh \ {e}
  /\ root' = [notes |-> notes, edits |-> root.edits \union {e}]
  /\ rootDirty' = TRUE
  /\ ScheduleSave
  /\ UNCHANGED <<blocked, queue, pc, save, store, status, clients>>

\* handleUpdate on a note: handleNoteDocumentUpdate.
EditNote(n, e) ==
  /\ Accepting /\ e \in fresh
  /\ n \in root.notes
  /\ clients = "workspace" \/ (clients = "note" /\ n \in loaded)
  /\ fresh' = fresh \ {e}
  /\ doc' = [doc EXCEPT ![n] = @ \union {e}]
  /\ loaded' = loaded \union {n}
  /\ dirtyNoteIds' = dirtyNoteIds \union {n}
  /\ deletedNoteIds' = deletedNoteIds \ {n}
  /\ ScheduleSave
  /\ UNCHANGED <<root, loads, rootDirty, blocked, queue, pc, save, store,
                 status, clients, used>>

\* handleUpdate on the root, attaching and detaching nothing.
EditRoot(e) ==
  /\ ChangeRoot(root.notes, e)
  /\ UNCHANGED <<doc, loaded, loads, dirtyNoteIds, deletedNoteIds, used>>

\* syncAttachedNotes tears a tracked doc down; a load of it in flight finds
\* another doc, or none, when it returns.
ForgetNoteKeepsState(n) ==   \* mutant: noteStates keeps the entry
  /\ doc' = [doc EXCEPT ![n] = {}]
  /\ loads' = {l \in loads : l.note # n}
  /\ UNCHANGED loaded

ForgetNote(n) ==
  /\ doc' = [doc EXCEPT ![n] = {}]
  /\ loaded' = loaded \ {n}
  /\ loads' = {l \in loads : l.note # n}

\* handleUpdate on the root, detaching a note: syncAttachedNotes drops its
\* state and queues its blob for deletion.
RemoveNote(n, e) ==
  /\ n \in root.notes
  /\ ChangeRoot(root.notes \ {n}, e)
  /\ ForgetNote(n)
  /\ dirtyNoteIds' = dirtyNoteIds \ {n}
  /\ deletedNoteIds' = deletedNoteIds \union {n}
  /\ UNCHANGED used

\* handleUpdate on the root, putting a new doc under an attached note id (what
\* undoing a deletion does on the client): syncAttachedNotes tracks the new
\* doc, which is not loaded.
ReplaceNoteDoc(n, e) ==
  /\ UndoRestore /\ n \in root.notes
  /\ ChangeRoot(root.notes, e)
  /\ ForgetNote(n)
  /\ UNCHANGED <<dirtyNoteIds, deletedNoteIds, used>>

\* handleCreateNoteBundle: root update and note snapshot are one step.
CreateNote(n, e) ==
  /\ n \notin root.notes
  /\ UndoRestore \/ n \notin used
  /\ ChangeRoot(root.notes \union {n}, e)
  /\ doc' = [doc EXCEPT ![n] = {e}]
  /\ loaded' = loaded \union {n}
  /\ dirtyNoteIds' = dirtyNoteIds \union {n}
  /\ deletedNoteIds' = deletedNoteIds \ {n}
  /\ used' = used \union {n}
  /\ UNCHANGED loads

----------------------------------------------------------------------------
(* The save task: queueSave.                                               *)

Running(kinds) == queue # << >> /\ Head(queue).kind \in kinds

\* The debounce timer set by scheduleSave fires.
SaveTimerFires ==
  /\ saveTimer
  /\ saveTimer' = FALSE
  /\ queue' = Append(queue, SaveTask)
  /\ UNCHANGED <<lapsed, memory, loads, dirt, blocked, pc, save, store, status,
                 clients, ids>>

Dirty == rootDirty \/ dirtyNoteIds # {} \/ deletedNoteIds # {}

\* What becomes of the room when the task at the head of the queue ends well:
\* flushAndDestroy goes on once its own save is done.
StatusAfter(task) ==
  IF task.kind = "flush" /\ status = "closing" THEN "flushed" ELSE status

\* The task returns at once: blocked for replacement, or nothing is dirty.
SkipSave ==
  /\ pc = "idle" /\ Running({"save", "flush"})
  /\ blocked \/ ~Dirty
  /\ queue' = Tail(queue)
  /\ status' = StatusAfter(Head(queue))
  /\ UNCHANGED <<memory, loads, dirt, timer, blocked, pc, save, store,
                 clients, ids>>

\* The store's objects: a blob takes the bytes it is given, or goes.
PutBlob(n, edits) ==
  /\ blobs' = blobs \union {n}
  /\ blob' = [blob EXCEPT ![n] = edits]

RemoveBlob(n) ==
  /\ blobs' = blobs \ {n}
  /\ blob' = [blob EXCEPT ![n] = {}]

\* From one await to the next, the loop over the notes: it skips notes that
\* were detached since, and encodes the note it saves next as it is now.
SaveNote(n, remaining) ==
  /\ n \in remaining \intersect root.notes
  /\ \E skipped \in SUBSET (remaining \ root.notes) : left' = remaining \ skipped
  /\ writes' = {[note |-> n, edits |-> doc[n]]}
  /\ pc' = "notes"
  /\ UNCHANGED rootImage

\* assertPersistableRootReferences
RootPersistable == root.notes \subseteq loaded

\* After the notes, the root as it is now.
SaveRoot ==
  /\ RootPersistable
  /\ rootImage' = root
  /\ pc' = "root"

\* What follows the await of a store call, or the start, of a save: the next
\* note, the root if it is to be saved, or what comes after the root.
GoOn(remaining, rootShouldSave) ==
  \/ \E n \in Notes : SaveNote(n, remaining)
  \/ /\ remaining \intersect root.notes = {}
     /\ left' = {} /\ writes' = {}
     /\ \/ rootShouldSave /\ SaveRoot
        \/ ~rootShouldSave /\ pc' = "deletes" /\ UNCHANGED rootImage

SaveThrows(remaining, rootShouldSave) ==
  /\ remaining \intersect root.notes = {}
  /\ rootShouldSave /\ ~RootPersistable

NoteIdsToSave == dirtyNoteIds \intersect root.notes
RootShouldSave == rootDirty \/ deletedNoteIds # {}

\* The task takes over the dirty sets and resets them.
BeginSave ==
  /\ pc = "idle" /\ Running({"save", "flush"})
  /\ ~blocked /\ Dirty
  /\ batch' = NoteIdsToSave
  /\ withRoot' = RootShouldSave
  /\ deletes' = deletedNoteIds
  /\ rootDirty' = FALSE /\ dirtyNoteIds' = {} /\ deletedNoteIds' = {}
  /\ GoOn(NoteIdsToSave, RootShouldSave)
  /\ UNCHANGED <<memory, loads, timer, blocked, queue, snapFailed, store,
                 status, clients, ids>>

NoteSaved(w) ==
  /\ pc = "notes"
  /\ PutBlob(w.note, w.edits)
  /\ GoOn(left \ {w.note}, withRoot)
  /\ UNCHANGED <<memory, loads, dirt, timer, blocked, queue, batch,
                 withRoot, deletes, snapFailed, storedRoot, status, clients,
                 ids>>

RootSavedClean ==   \* mutant: the dirty flag is reset after the await
  /\ pc = "root"
  /\ storedRoot' = rootImage
  /\ rootDirty' = FALSE
  /\ pc' = "deletes"
  /\ UNCHANGED <<memory, loads, dirtyNoteIds, deletedNoteIds, timer, blocked,
                 queue, save, blobs, blob, status, clients, ids>>

RootSaved ==
  /\ pc = "root"
  /\ storedRoot' = rootImage
  /\ pc' = "deletes"
  /\ UNCHANGED <<memory, loads, dirt, timer, blocked, queue, save, blobs,
                 blob, status, clients, ids>>

\* Only then are the blobs of removed notes deleted, one by one.
DeleteBlobEarly(n) ==   \* mutant: blobs go while the notes are being saved
  /\ pc \in {"notes", "deletes"} /\ n \in deletes
  /\ RemoveBlob(n)
  /\ deletes' = deletes \ {n}
  /\ UNCHANGED <<memory, loads, dirt, timer, blocked, queue, pc, batch,
                 left, writes, withRoot, rootImage, snapFailed, storedRoot,
                 status, clients, ids>>

DeleteBlob(n) ==
  /\ pc = "deletes" /\ n \in deletes
  /\ RemoveBlob(n)
  /\ deletes' = deletes \ {n}
  /\ UNCHANGED <<memory, loads, dirt, timer, blocked, queue, pc, batch,
                 left, writes, withRoot, rootImage, snapFailed, storedRoot,
                 status, clients, ids>>

\* The save is done and re-arms the timer when something became dirty since.
FinishSaveClean ==   \* mutant: the dirty notes are reset after the awaits
  /\ pc = "deletes" /\ deletes = {}
  /\ pc' = "idle" /\ dirtyNoteIds' = {}
  /\ queue' = Tail(queue)
  /\ status' = StatusAfter(Head(queue))
  /\ UNCHANGED <<memory, loads, rootDirty, deletedNoteIds, timer, blocked,
                 save, store, clients, ids>>

FinishSaveUnarmed ==   \* mutant: the timer is left as it is
  /\ pc = "deletes" /\ deletes = {}
  /\ pc' = "idle"
  /\ queue' = Tail(queue)
  /\ status' = StatusAfter(Head(queue))
  /\ lapsed' = FALSE
  /\ UNCHANGED <<memory, loads, dirt, saveTimer, blocked, save, store, clients,
                 ids>>

FinishSave ==
  /\ pc = "deletes" /\ deletes = {}
  /\ pc' = "idle"
  /\ queue' = Tail(queue)
  /\ status' = StatusAfter(Head(queue))
  /\ saveTimer' = (saveTimer \/ Dirty) /\ lapsed' = FALSE
  /\ UNCHANGED <<memory, loads, dirt, blocked, save, store, clients, ids>>

\* The catch block of queueSave: what was not stored becomes dirty again, the
\* timer stays as it is.  A flush that fails leaves the room alive.
SaveLapses == lapsed' = (lapsed \/ (~saveTimer /\ Len(queue) = 1))

FlushedAnyway(task) ==   \* mutant: a failed flush destroys the room all the same
  IF task.kind = "flush" /\ status = "closing" THEN "flushed" ELSE status

StatusAfterFailure(task) ==
  IF task.kind = "flush" /\ status = "closing" THEN "live" ELSE status

SaveFails ==
  /\ IF pc = "deletes"
       THEN UNCHANGED <<rootDirty, dirtyNoteIds>>
       ELSE /\ rootDirty' = (rootDirty \/ withRoot)
            /\ dirtyNoteIds' = dirtyNoteIds \union batch
  /\ deletedNoteIds' = deletedNoteIds \union deletes
  /\ pc' = "idle" /\ writes' = {} /\ left' = {} /\ deletes' = {}
  /\ queue' = Tail(queue)
  /\ status' = StatusAfterFailure(Head(queue))
  /\ SaveLapses
  /\ UNCHANGED <<memory, loads, saveTimer, blocked, batch, withRoot, rootImage,
                 snapFailed, clients, ids>>

\* A store call throws.  It may have taken effect all the same.
SaveNoteFails(w) ==
  /\ "saveNote" \in Faults /\ pc = "notes"
  /\ SaveFails
  /\ storedRoot' = storedRoot
  /\ \/ PutBlob(w.note, w.edits)
     \/ UNCHANGED <<blobs, blob>>

SaveRootFails ==
  /\ "saveRoot" \in Faults /\ pc = "root"
  /\ SaveFails
  /\ storedRoot' \in {storedRoot, rootImage}
  /\ UNCHANGED <<blobs, blob>>

DeleteNoteFails(n) ==
  /\ "deleteNote" \in Faults /\ pc = "deletes" /\ n \in deletes
  /\ SaveFails
  /\ storedRoot' = storedRoot
  /\ \/ RemoveBlob(n)
     \/ UNCHANGED <<blobs, blob>>

\* assertPersistableRootReferences throws after the last note was saved, or,
\* with no note to save, at once: the dirty sets are then as before, but for
\* the root, which deletions make dirty.
RootNotPersistable(w) ==
  /\ pc = "notes" /\ SaveThrows(left \ {w.note}, withRoot)
  /\ SaveFails
  /\ PutBlob(w.note, w.edits)
  /\ UNCHANGED storedRoot

BeginSaveThrows ==
  /\ pc = "idle" /\ Running({"save", "flush"})
  /\ ~blocked /\ SaveThrows(NoteIdsToSave, RootShouldSave)
  /\ rootDirty' = TRUE
  /\ dirtyNoteIds' = NoteIdsToSave
  /\ queue' = Tail(queue)
  /\ status' = StatusAfterFailure(Head(queue))
  /\ SaveLapses
  /\ UNCHANGED <<memory, loads, deletedNoteIds, saveTimer, blocked, pc, save,
                 store, clients, ids>>

----------------------------------------------------------------------------
(* Snapshot replacement: replaceDocument.                                  *)

ReplaceTask(notes, e) == [kind |-> "replace", notes |-> notes, edits |-> {e}]

\* POST /documents/:id/replace on a live room, or on a workspace without one.
\* One flag blocks the room for all replacements.
ReplaceDocument(notes, e) ==
  /\ status \in {"live", "cold"} /\ e \in fresh
  /\ blocked => Overlap
  /\ fresh' = fresh \ {e} /\ used' = used \union notes
  /\ status' = IF status = "cold" THEN "replacing" ELSE status
  /\ saveTimer' = FALSE
  /\ blocked' = TRUE
  /\ queue' = Append(queue, ReplaceTask(notes, e))
  /\ UNCHANGED <<memory, loads, dirt, lapsed, pc, save, store, clients>>

\* hydrateSnapshotBundle throws at the snapshot, after the timer was cleared:
\* what is dirty waits for the next change.  A room made for the replacement is
\* dropped again.
SnapshotRejected ==
  /\ "badSnapshot" \in Faults /\ status = "live"
  /\ blocked => Overlap
  /\ saveTimer' = FALSE
  /\ blocked' = FALSE
  /\ lapsed' = (lapsed \/ (Dirty /\ queue = << >>))
  /\ UNCHANGED <<memory, loads, dirt, queue, pc, save, store, status, clients,
                 ids>>

\* persistSnapshotBundle saves all notes in parallel, then the root.
BeginSnapshot ==
  /\ pc = "idle" /\ Running({"replace"})
  /\ pc' = "snapNotes"
  /\ left' = Head(queue).notes /\ snapFailed' = FALSE
  /\ UNCHANGED <<memory, loads, dirt, timer, blocked, queue, batch,
                 writes, withRoot, rootImage, deletes, store, status, clients,
                 ids>>

\* Promise.allSettled: every store call is waited for, also when one threw.
SnapshotNoteSettles(n) ==
  /\ pc = "snapNotes" /\ n \in left
  /\ left' = left \ {n}
  /\ \/ /\ snapFailed' = snapFailed
        /\ PutBlob(n, Head(queue).edits)
     \/ /\ "snapshot" \in Faults
        /\ snapFailed' = TRUE
        /\ \/ PutBlob(n, Head(queue).edits)
           \/ UNCHANGED <<blobs, blob>>
  /\ UNCHANGED <<memory, loads, dirt, timer, blocked, queue, pc, batch,
                 writes, withRoot, rootImage, deletes, storedRoot, status,
                 clients, ids>>

SaveSnapshotRootAnyway ==   \* mutant: failed note saves are not looked at
  /\ pc = "snapNotes" /\ left = {}
  /\ pc' = "snapRoot"
  /\ rootImage' = [notes |-> Head(queue).notes, edits |-> Head(queue).edits]
  /\ UNCHANGED <<memory, loads, dirt, timer, blocked, queue, batch, left,
                 writes, withRoot, deletes, snapFailed, store, status,
                 clients, ids>>

SaveSnapshotRoot ==
  /\ pc = "snapNotes" /\ left = {} /\ ~snapFailed
  /\ pc' = "snapRoot"
  /\ rootImage' = [notes |-> Head(queue).notes, edits |-> Head(queue).edits]
  /\ UNCHANGED <<memory, loads, dirt, timer, blocked, queue, batch, left,
                 writes, withRoot, deletes, snapFailed, store, status,
                 clients, ids>>

\* The task behind a replacement starts one microtask before replaceDocument
\* goes on.  A save finds the room blocked and returns at once, unless another
\* replacement has unblocked it.
NextIsSave == Len(queue) > 1 /\ queue[2].kind # "replace"
NextIsSkipped == NextIsSave /\ blocked
NextSaves == NextIsSave /\ ~blocked /\ Dirty
QueueAfterReplace == IF NextIsSkipped THEN Tail(Tail(queue)) ELSE Tail(queue)
StatusAfterReplace == IF NextIsSkipped THEN StatusAfter(queue[2]) ELSE status

\* The room takes the snapshot over, whose notes are loaded, and disconnects
\* its sockets, the last of which closes the room.
TakeOver(queueNext, statusNext) ==
  /\ storedRoot' = rootImage
  /\ root' = rootImage
  /\ doc' = [n \in Notes |-> IF n \in rootImage.notes THEN rootImage.edits ELSE {}]
  /\ loaded' = rootImage.notes /\ loads' = {}
  /\ rootDirty' = FALSE /\ dirtyNoteIds' = {} /\ deletedNoteIds' = {}
  /\ lapsed' = FALSE
  /\ blocked' = FALSE
  /\ clients' = "none"
  /\ IF clients # "none"
       THEN /\ status' = "closing" /\ saveTimer' = FALSE
            /\ queue' = Append(queueNext, FlushTask)
       ELSE /\ status' = IF status = "replacing" THEN "live" ELSE statusNext
            /\ queue' = queueNext
            /\ UNCHANGED saveTimer
  /\ UNCHANGED <<blobs, blob, ids>>

\* The root is stored.
ReplaceSucceeds ==
  /\ pc = "snapRoot" /\ ~NextSaves
  /\ TakeOver(QueueAfterReplace, StatusAfterReplace)
  /\ pc' = "idle"
  /\ UNCHANGED save

\* The same behind the back of a save, which has begun with the documents and
\* dirty sets from before.
ReplaceUnderSave ==
  /\ pc = "snapRoot" /\ NextSaves
  /\ \/ /\ GoOn(NoteIdsToSave, RootShouldSave)
        /\ batch' = NoteIdsToSave
        /\ withRoot' = RootShouldSave
        /\ deletes' = deletedNoteIds
        /\ TakeOver(Tail(queue), status)
        /\ UNCHANGED snapFailed
     \/ /\ SaveThrows(NoteIdsToSave, RootShouldSave)
        /\ pc' = "idle"
        /\ TakeOver(Tail(Tail(queue)), StatusAfterFailure(queue[2]))
        /\ UNCHANGED save

\* A store call of the replacement threw: the room keeps its documents and its
\* dirty sets.  A room made for the replacement is dropped.
ReplaceFails ==
  /\ "snapshot" \in Faults
  /\ \/ /\ pc = "snapNotes" /\ left = {} /\ snapFailed
        /\ UNCHANGED storedRoot
     \/ /\ pc = "snapRoot"
        /\ storedRoot' \in {storedRoot, rootImage}
  /\ pc' = "idle" /\ blocked' = FALSE
  /\ queue' = QueueAfterReplace
  /\ status' = IF status = "replacing" THEN "cold" ELSE StatusAfterReplace
  /\ lapsed' = (lapsed \/ (Dirty /\ ~saveTimer /\ QueueAfterReplace = << >>))
  /\ UNCHANGED <<memory, loads, dirt, saveTimer, save, blobs, blob, clients, ids>>

----------------------------------------------------------------------------
(* The end of a room.                                                      *)

\* The last socket goes, or none was attached: destroyRoomIfEmpty starts
\* flushAndDestroy.
Close ==
  /\ status = "live"
  /\ clients' = "none"
  /\ status' = "closing"
  /\ saveTimer' = FALSE
  /\ queue' = Append(queue, FlushTask)
  /\ UNCHANGED <<memory, loads, dirt, lapsed, blocked, pc, save, store, ids>>

\* flushAndDestroy after its awaits: the queue is drained, the room torn down.
Destroy ==
  /\ status = "flushed" /\ queue = << >>
  /\ status' = "cold"
  /\ EmptyRoom
  /\ UNCHANGED <<blocked, queue, store, clients, ids>>

\* The process dies and comes back with nothing in memory.
Crash ==
  /\ "crash" \in Faults /\ status # "cold"
  /\ status' = "cold" /\ clients' = "none"
  /\ queue' = << >> /\ blocked' = FALSE
  /\ EmptyRoom
  /\ UNCHANGED <<store, ids>>

----------------------------------------------------------------------------
RoomStep ==
  \/ OpenRoom \/ Close \/ Destroy \/ Crash \/ SnapshotRejected
  \/ \E n \in Notes : LoadNote(n)
  \/ \E l \in loads : NoteLoaded(l)
  \/ \E kind \in {"note", "workspace"} : Attach(kind)
  \/ WorkspaceSocketsLeave

ClientStep ==
  \E e \in Edits :
    \/ EditRoot(e)
    \/ \E n \in Notes :
         EditNote(n, e) \/ RemoveNote(n, e) \/ ReplaceNoteDoc(n, e)
           \/ CreateNote(n, e)
    \/ \E notes \in SUBSET Notes : ReplaceDocument(notes, e)

\* The steps of the running persistence task that no fault causes.
SaveStep ==
  \/ SkipSave \/ BeginSave \/ BeginSaveThrows \/ RootSaved \/ FinishSave
  \/ \E w \in writes : NoteSaved(w) \/ RootNotPersistable(w)
  \/ \E n \in Notes : DeleteBlob(n)

SnapshotStep ==
  \/ BeginSnapshot \/ SaveSnapshotRoot
  \/ ReplaceSucceeds \/ ReplaceUnderSave \/ ReplaceFails
  \/ \E n \in Notes : SnapshotNoteSettles(n)

FaultStep ==
  \/ SaveRootFails
  \/ \E w \in writes : SaveNoteFails(w)
  \/ \E n \in Notes : DeleteNoteFails(n)

Next == RoomStep \/ ClientStep \/ SaveTimerFires \/ SaveStep \/ SnapshotStep
          \/ FaultStep

Spec == Init /\ [][Next]_vars

\* Timers fire and store calls return: the event loop is never starved.
Fairness ==
  /\ WF_vars(SaveTimerFires)
  /\ WF_vars(SaveStep)
  /\ WF_vars(SnapshotStep)

FairSpec == Spec /\ Fairness

----------------------------------------------------------------------------
(* Properties.                                                             *)

Replacing == pc \in {"snapNotes", "snapRoot"}

\* No accepted edit is forgotten: a loaded note that differs from its blob is
\* dirty, or still ahead of the running save.  queueSave resets dirtyNoteIds
\* before its awaits and restores it when a store call throws; a client may
\* edit the note at any of these points.
EditsTracked ==
  \A n \in loaded :
    \/ n \in blobs /\ blob[n] = doc[n]
    \/ n \in dirtyNoteIds
    \/ pc = "notes" /\ n \in left
    \/ Replacing

\* The same for the root: when it differs from the stored one it is dirty, or
\* the running save has not encoded it yet, or is storing it as it is.
RootTracked ==
  status \in {"live", "closing", "flushed"} =>
    \/ storedRoot = root
    \/ rootDirty
    \/ pc = "notes" /\ withRoot
    \/ pc = "root" /\ rootImage = root
    \/ Replacing

\* A note blob is deleted only when the stored root no longer attaches the
\* note, whatever clients, failures and restarts do meanwhile: 'persists root
\* changes before deleting removed note blobs' (room.spec.ts).
BlobsOutliveReferences ==
  [][\A n \in blobs \ blobs' : n \notin storedRoot'.notes]_vars

\* Saving a note never drops an edit its blob holds.  Only a snapshot
\* replacement does; loadNoteState, which merges the blob into the tracked doc,
\* must win over every save of that doc.
DurableEditsKept ==
  [][~Replacing => \A n \in blobs \intersect blobs' : blob[n] \subseteq blob'[n]]_vars

\* A room whose flush is over has nothing left to lose: flushAndDestroy tears
\* it down only in this state.
FlushedStoresEverything ==
  status = "flushed" =>
    /\ storedRoot = root
    /\ \A n \in loaded : n \in blobs /\ blob[n] = doc[n]

\* A workspace without a room can be opened: loadNoteState throws for an
\* attached note that has no blob.  Not so after a crash, which may come
\* between a root that attaches a new note and the save of that note.
ColdStoreLoads == status = "cold" => storedRoot.notes \subseteq blobs

\* The root of a snapshot is stored after all of its notes, each with the
\* bytes of the snapshot (persistSnapshotBundle waits for every note).
SnapshotRootAfterNotes ==
  pc = "snapRoot" =>
    \A n \in rootImage.notes : n \in blobs /\ blob[n] = Head(queue).edits

\* Every edit that a room accepts, and so has in a dirty note, is stored sooner
\* or later, unless the note goes or is replaced: what becomes dirty while a save
\* runs is left for the next one.  Where a save or a replacement fails and
\* nothing else is queued, no timer is left either (lapsed), and the edit waits
\* for the next change.
EditsReachStore ==
  \A n \in Notes, e \in Edits :
    (n \in dirtyNoteIds /\ e \in doc[n]) ~>
      \/ e \notin doc[n]
      \/ n \in blobs /\ e \in blob[n]
      \/ lapsed

=============================================================================
