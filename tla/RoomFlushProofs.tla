--------------------------- MODULE RoomFlushProofs ---------------------------
(***************************************************************************)
(* More theorems about RoomPersistence: a flushed room has stored          *)
(* everything, and a workspace without a room can be opened.  They rest on *)
(* what the persistence queue may hold.                                    *)
(***************************************************************************)
EXTENDS RoomPersistenceProofs

----------------------------------------------------------------------------
(* What the queue holds.  The running task is one that its place belongs   *)
(* to; the room is blocked only while a replacement is queued; a flush is  *)
(* queued exactly while the room is closing, and behind it nothing but     *)
(* saves comes; no replacement is left when the flush is over.             *)

QueueShape ==
  /\ Saving => Head(queue).kind \in {"save", "flush"}
  /\ Replacing => Head(queue).kind = "replace"
  /\ blocked => Has(queue, "replace")
  /\ SavesAfterFlush(queue)
  /\ Has(queue, "flush") <=> status = "closing"
  /\ status = "flushed" => ~Has(queue, "replace")

\* A step that leaves the queue alone: what it may change else.
LEMMA QueueKept ==
  ASSUME QueueShape, queue' = queue, blocked' => blocked,
         status' = "closing" <=> status = "closing",
         status' = "flushed" => status = "flushed",
         Saving' => Saving \/ Running({"save", "flush"}),
         Replacing' => Replacing \/ Running({"replace"})
  PROVE  QueueShape'
BY DEF QueueShape, Running, Has, SavesAfterFlush, Behind

\* A step that queues a task.
LEMMA QueueGrows ==
  ASSUME TypeInv, QueueShape, NEW t \in Task, queue' = Append(queue, t), pc' = pc,
         blocked' => blocked \/ t.kind = "replace",
         Has(queue, "flush") => t.kind = "save",
         t.kind = "flush" <=> status # "closing" /\ status' = "closing",
         status = "closing" => status' = "closing",
         status' = "flushed" => status = "flushed" /\ t.kind = "save"
  PROVE  QueueShape'
<1>1. queue \in Seq(Task) /\ (pc # "idle" => queue # << >>)
  BY DEF TypeInv, TypeOK, RoomShape
<1>2. /\ Has(queue', "flush") <=> Has(queue, "flush") \/ t.kind = "flush"
      /\ Has(queue', "replace") <=> Has(queue, "replace") \/ t.kind = "replace"
      /\ queue # << >> => Head(queue') = Head(queue)
  BY <1>1, HasAppend
<1>3. SavesAfterFlush(queue') BY <1>1, SavesAfterFlushAppend DEF QueueShape
<1> QED BY <1>1, <1>2, <1>3 DEF QueueShape, Saving, Replacing

\* A step that ends a save or a flush.
LEMMA QueueShrinks ==
  ASSUME TypeInv, QueueShape, queue # << >>, Head(queue).kind \in {"save", "flush"},
         queue' = Tail(queue), blocked' = blocked, pc' = "idle",
         status' = IF Head(queue).kind = "flush" /\ status = "closing"
                     THEN status' ELSE status,
         Head(queue).kind = "flush" => status' # "closing"
  PROVE  QueueShape'
<1>1. queue \in Seq(Task) BY DEF TypeInv, TypeOK
<1>2. /\ Has(queue, "flush") <=> Head(queue).kind = "flush" \/ Has(queue', "flush")
      /\ Has(queue, "replace") <=> Head(queue).kind = "replace" \/ Has(queue', "replace")
  BY <1>1, HasTail
<1>3. /\ SavesAfterFlush(queue')
      /\ Head(queue).kind = "flush" =>
           ~Has(queue', "flush") /\ ~Has(queue', "replace")
  BY <1>1, SavesAfterFlushTail DEF QueueShape
<1> QED BY <1>2, <1>3 DEF QueueShape, Saving, Replacing

\* What may follow a replacement, once the save behind it was skipped.
LEMMA QueueAfterReplaceFacts ==
  ASSUME queue \in Seq(Task), queue # << >>, SavesAfterFlush(queue)
  PROVE  /\ QueueAfterReplace \in Seq(Task)
         /\ SavesAfterFlush(QueueAfterReplace)
         /\ Has(QueueAfterReplace, "flush") => Has(queue, "flush")
         /\ Has(QueueAfterReplace, "replace") => Has(queue, "replace")
         /\ NextIsSkipped /\ queue[2].kind = "flush" =>
              ~Has(QueueAfterReplace, "flush") /\ ~Has(QueueAfterReplace, "replace")
         /\ Has(queue, "flush") /\ Head(queue).kind = "replace"
              /\ ~(NextIsSkipped /\ queue[2].kind = "flush") =>
                Has(QueueAfterReplace, "flush")
<1>1. Tail(queue) \in Seq(Task) /\ SavesAfterFlush(Tail(queue))
  BY QueueTyped, SavesAfterFlushTail
<1>2. \A kind \in {"flush", "replace"} :
        Has(queue, kind) <=> Head(queue).kind = kind \/ Has(Tail(queue), kind)
  BY HasTail
<1>3. CASE ~NextIsSkipped BY <1>1, <1>2, <1>3 DEF QueueAfterReplace
<1>4. CASE NextIsSkipped
  <2>1. /\ Tail(queue) # << >> /\ queue[2] = Head(Tail(queue))
        /\ QueueAfterReplace = Tail(Tail(queue))
    BY <1>4, QueueTyped, SecondTask DEF NextIsSkipped, NextIsSave, QueueAfterReplace
  <2>2. /\ Tail(Tail(queue)) \in Seq(Task) /\ SavesAfterFlush(Tail(Tail(queue)))
        /\ Head(Tail(queue)).kind = "flush" =>
             ~Has(Tail(Tail(queue)), "flush") /\ ~Has(Tail(Tail(queue)), "replace")
    BY <1>1, <2>1, QueueTyped, SavesAfterFlushTail
  <2>3. \A kind \in {"flush", "replace"} :
          Has(Tail(queue), kind) <=>
            Head(Tail(queue)).kind = kind \/ Has(Tail(Tail(queue)), kind)
    BY <1>1, <2>1, HasTail
  <2>4. "flush" \in {"flush", "replace"} /\ "replace" \in {"flush", "replace"}
        /\ "flush" # "replace"
    OBVIOUS
  <2> HIDE DEF NextIsSkipped
  <2> QED BY <1>2, <1>4, <2>1, <2>2, <2>3, <2>4
<1> QED BY <1>3, <1>4

\* Every step keeps the queue in shape.
LEMMA QueueShapeStep ==
  ASSUME ReplacementInv, QueueShape, [Next]_vars
  PROVE  QueueShape'
<1>0. TypeInv /\ queue \in Seq(Task) /\ (pc # "idle" => queue # << >>)
  BY DEF ReplacementInv, TypeInv, TypeOK, RoomShape
<1> USE TasksTyped, <1>0 DEF Saving, Replacing
<1>1. CASE UNCHANGED vars BY <1>1, QueueKept DEF vars
<1>2. CASE RoomStep
  <2>1. CASE Close
    BY <2>1, QueueGrows DEF Close, FlushTask, QueueShape
  <2>2. CASE Crash
    <3>1. SavesAfterFlush(<< >>) BY EmptySeq DEF SavesAfterFlush, Behind
    <3> QED BY <2>2, <3>1, HasEmpty DEF Crash, EmptyRoom, QueueShape
  <2>3. CASE ~Close /\ ~Crash
    BY <1>2, <2>3, QueueKept
       DEF RoomStep, OpenRoom, Destroy, EmptyRoom, LoadNote, NoteLoaded, Attach,
           WorkspaceSocketsLeave, SnapshotRejected
  <2> QED BY <2>1, <2>2, <2>3
<1>3. CASE ClientStep
  <2>1. PICK e \in Edits :
          \/ EditRoot(e)
          \/ \E n \in Notes :
               EditNote(n, e) \/ RemoveNote(n, e) \/ ReplaceNoteDoc(n, e)
                 \/ CreateNote(n, e)
          \/ \E notes \in SUBSET Notes : ReplaceDocument(notes, e)
    BY <1>3 DEF ClientStep
  <2>2. ASSUME NEW notes \in SUBSET Notes, ReplaceDocument(notes, e)
        PROVE  QueueShape'
    <3>1. ReplaceTask(notes, e).kind = "replace" BY DEF ReplaceTask
    <3> QED BY <2>2, <3>1, QueueGrows DEF ReplaceDocument, QueueShape
  <2>3. ASSUME EditRoot(e)
                 \/ \E n \in Notes :
                      EditNote(n, e) \/ RemoveNote(n, e) \/ ReplaceNoteDoc(n, e)
                        \/ CreateNote(n, e)
        PROVE  QueueShape'
    BY <2>3, QueueKept
       DEF EditRoot, EditNote, RemoveNote, ReplaceNoteDoc, CreateNote, ChangeRoot
  <2> QED BY <2>1, <2>2, <2>3
<1>4. CASE SaveTimerFires
  BY <1>4, QueueGrows DEF SaveTimerFires, SaveTask
<1>5. CASE SaveStep
  <2>1. CASE SkipSave
    BY <2>1, QueueShrinks DEF SkipSave, Running, StatusAfter
  <2>2. CASE BeginSaveThrows
    BY <2>2, QueueShrinks DEF BeginSaveThrows, Running, StatusAfterFailure
  <2>3. CASE FinishSave
    BY <1>0, <2>3, QueueShrinks DEF FinishSave, StatusAfter, QueueShape
  <2>4. ASSUME NEW w \in writes, RootNotPersistable(w)
        PROVE  QueueShape'
    BY <1>0, <2>4, QueueShrinks
       DEF RootNotPersistable, SaveFails, StatusAfterFailure, QueueShape
  <2>5. ASSUME BeginSave \/ RootSaved \/ (\E w \in writes : NoteSaved(w))
                 \/ \E n \in Notes : DeleteBlob(n)
        PROVE  QueueShape'
    BY <2>5, QueueKept
       DEF BeginSave, RootSaved, NoteSaved, DeleteBlob, GoOn, SaveNote, SaveRoot
  <2> QED BY <1>5, <2>1, <2>2, <2>3, <2>4, <2>5 DEF SaveStep
<1>6. CASE SnapshotStep
  <2>1. ASSUME ReplaceSucceeds \/ ReplaceFails
        PROVE  QueueShape'
    <3>1. /\ Head(queue).kind = "replace" /\ queue # << >>
          /\ SavesAfterFlush(queue)
      BY <1>0, <2>1 DEF ReplaceSucceeds, ReplaceFails, QueueShape
    <3>2. /\ QueueAfterReplace \in Seq(Task)
          /\ SavesAfterFlush(QueueAfterReplace)
          /\ Has(QueueAfterReplace, "flush") => Has(queue, "flush")
          /\ Has(QueueAfterReplace, "replace") => Has(queue, "replace")
          /\ NextIsSkipped /\ queue[2].kind = "flush" =>
               ~Has(QueueAfterReplace, "flush") /\ ~Has(QueueAfterReplace, "replace")
          /\ Has(queue, "flush") /\ ~(NextIsSkipped /\ queue[2].kind = "flush") =>
               Has(QueueAfterReplace, "flush")
      BY <1>0, <3>1, QueueAfterReplaceFacts
    <3>3. CASE /\ queue' = QueueAfterReplace /\ pc' = "idle" /\ blocked' = FALSE
               /\ \/ status = "replacing" /\ status' \in {"live", "cold"}
                  \/ status # "replacing" /\ status' = StatusAfterReplace
      <4> HIDE DEF NextIsSkipped, QueueAfterReplace
      <4>1. CASE status = "replacing"
        <5>1. ~Has(queue', "flush") /\ status' \notin {"closing", "flushed"}
          BY <3>2, <3>3, <4>1 DEF QueueShape
        <5> QED BY <3>2, <3>3, <4>1, <5>1 DEF QueueShape
      <4>2. CASE status # "replacing" /\ NextIsSkipped /\ queue[2].kind = "flush"
        <5>1. ~Has(queue', "flush") /\ ~Has(queue', "replace")
          BY <3>2, <3>3, <4>2
        <5>2. status' # "closing"
          BY <3>3, <4>2 DEF StatusAfterReplace, StatusAfter
        <5> QED BY <3>2, <3>3, <5>1, <5>2 DEF QueueShape
      <4>3. CASE status # "replacing" /\ ~(NextIsSkipped /\ queue[2].kind = "flush")
        <5>1. status' = status
          BY <3>3, <4>3 DEF StatusAfterReplace, StatusAfter
        <5>2. Has(queue', "flush") <=> Has(queue, "flush")
          BY <3>2, <3>3, <4>3
        <5>3. Has(queue', "replace") => Has(queue, "replace")
          BY <3>2, <3>3
        <5> QED BY <3>2, <3>3, <5>1, <5>2, <5>3 DEF QueueShape
      <4> QED BY <3>3, <4>1, <4>2, <4>3
    <3>4. CASE ReplaceSucceeds /\ clients # "none"
      <4>1. status = "live" BY <3>4 DEF TypeInv, RoomShape
      <4>2. ~Has(QueueAfterReplace, "flush") BY <3>2, <4>1 DEF QueueShape
      <4>3. FlushTask \in Task /\ FlushTask.kind = "flush" BY DEF FlushTask
      <4>4. /\ SavesAfterFlush(Append(QueueAfterReplace, FlushTask))
            /\ Has(Append(QueueAfterReplace, FlushTask), "flush")
        BY <3>2, <4>2, <4>3, SavesAfterFlushAppend, HasAppend
      <4> QED BY <3>4, <4>4 DEF ReplaceSucceeds, TakeOver, QueueShape
    <3> QED BY <2>1, <3>3, <3>4 DEF ReplaceSucceeds, TakeOver, ReplaceFails
  <2>3. ~ReplaceUnderSave BY NoSaveUnder
  <2>2. ASSUME BeginSnapshot \/ SaveSnapshotRoot
                 \/ \E n \in Notes : SnapshotNoteSettles(n)
        PROVE  QueueShape'
    BY <2>2, QueueKept DEF BeginSnapshot, SaveSnapshotRoot, SnapshotNoteSettles
  <2> QED BY <1>6, <2>1, <2>2, <2>3 DEF SnapshotStep
<1>7. CASE FaultStep
  <2>1. SaveFails /\ Saving
    BY <1>7 DEF FaultStep, SaveRootFails, SaveNoteFails, DeleteNoteFails
  <2> QED BY <1>0, <2>1, QueueShrinks DEF SaveFails, StatusAfterFailure, QueueShape
<1> QED BY <1>1, <1>2, <1>3, <1>4, <1>5, <1>6, <1>7 DEF Next

\* The empty queue is in shape.
LEMMA QueueShapeInit == Init => QueueShape
<1>1. SavesAfterFlush(<< >>) BY EmptySeq DEF SavesAfterFlush, Behind
<1> QED BY <1>1, HasEmpty DEF Init, QueueShape, Saving, Replacing

----------------------------------------------------------------------------
(* A flush leaves nothing dirty: while it runs no client is attached, and  *)
(* the room is not blocked, for no replacement is queued behind a flush.   *)

FlushedClean ==
  /\ status = "flushed" => ~Dirty /\ pc = "idle"
  /\ Saving /\ Head(queue).kind = "flush" => ~Dirty

\* A step of nobody's save.
LEMMA FlushedKept ==
  ASSUME TypeInv, FlushedClean,
         status' = "flushed" => status = "flushed" \/ ~Dirty',
         status \in {"closing", "flushed"} => UNCHANGED dirt \/ ~Dirty',
         Has(queue, "flush") => status = "closing",
         Saving' => Saving /\ Head(queue') = Head(queue),
         status' = "flushed" => pc' = "idle"
  PROVE  FlushedClean'
<1>1. Saving' /\ Head(queue).kind = "flush" => Has(queue, "flush")
  <2>1. queue \in Seq(Task) /\ (Saving' => queue # << >>)
    BY DEF TypeInv, TypeOK, RoomShape, Saving
  <2>2. "flush" \in {"flush", "replace"} OBVIOUS
  <2>3. \A kind \in {"flush", "replace"} : queue # << >> =>
          (Has(queue, kind) <=> Head(queue).kind = kind \/ Has(Tail(queue), kind))
    BY <2>1, HasTail
  <2> QED BY <2>1, <2>2, <2>3
<1> QED BY <1>1 DEF FlushedClean, Dirty, dirt

\* Every step keeps the flushed room clean.
LEMMA FlushedCleanStep ==
  ASSUME "snapshot" \notin Faults, ReplacementInv, QueueShape, FlushedClean, [Next]_vars
  PROVE  FlushedClean'
<1>0. /\ TypeInv /\ queue \in Seq(Task) /\ (pc # "idle" => queue # << >>)
      /\ \A t \in Task : queue # << >> => Head(Append(queue, t)) = Head(queue)
  BY HasAppend DEF ReplacementInv, TypeInv, TypeOK, RoomShape
<1>h. queue # << >> /\ Head(queue).kind = "flush" => Has(queue, "flush") /\ ~blocked
  <2>1. ASSUME queue # << >>
        PROVE  \A kind \in {"flush", "replace"} :
                 Has(queue, kind) <=> Head(queue).kind = kind \/ Has(Tail(queue), kind)
    BY <1>0, <2>1, HasTail
  <2>2. ASSUME queue # << >>, Head(queue).kind = "flush"
        PROVE  ~Has(Tail(queue), "replace")
    BY <1>0, <2>2, SavesAfterFlushTail DEF QueueShape
  <2>3. /\ "flush" \in {"flush", "replace"} /\ "replace" \in {"flush", "replace"}
        /\ "flush" # "replace"
    OBVIOUS
  <2> QED BY <2>1, <2>2, <2>3 DEF QueueShape
<1>s. Has(queue, "flush") => status = "closing" BY DEF QueueShape
<1> USE TasksTyped
<1>1. CASE UNCHANGED vars
  BY <1>1, <1>s, FlushedKept
     DEF vars, Saving, dirt, FlushedClean, Dirty
<1>2. CASE RoomStep
  <2>1. CASE OpenRoom \/ Close \/ Destroy \/ Crash
    BY <1>0, <1>s, <2>1, FlushedKept
       DEF OpenRoom, Close, Destroy, Crash, EmptyRoom, Saving, Dirty, FlushedClean
  <2>2. ASSUME \/ \E n \in Notes : LoadNote(n)
               \/ \E l \in loads : NoteLoaded(l)
               \/ \E kind \in {"note", "workspace"} : Attach(kind)
               \/ WorkspaceSocketsLeave \/ SnapshotRejected
        PROVE  FlushedClean'
    BY <1>0, <1>s, <2>2, FlushedKept
       DEF LoadNote, NoteLoaded, Attach, WorkspaceSocketsLeave, SnapshotRejected, Saving,
           FlushedClean
  <2> QED BY <1>2, <2>1, <2>2 DEF RoomStep
<1>3. CASE ClientStep
  <2>1. /\ status \notin {"closing", "flushed"}
        /\ status' # "flushed" /\ pc' = pc
        /\ \/ queue' = queue
           \/ \E t \in Task : queue' = Append(queue, t)
    BY <1>3
       DEF ClientStep, EditRoot, EditNote, RemoveNote, ReplaceNoteDoc, CreateNote,
           ChangeRoot, ReplaceDocument, Accepting
  <2> QED BY <1>0, <1>s, <2>1, FlushedKept DEF Saving
<1>4. CASE SaveTimerFires
  BY <1>0, <1>s, <1>4, FlushedKept DEF SaveTimerFires, Saving, FlushedClean
<1>5. CASE SaveStep
  <2>1. CASE SkipSave
    BY <1>h, <2>1
       DEF SkipSave, Running, StatusAfter, FlushedClean, Saving, Dirty, dirt
  <2>2. CASE BeginSave
    BY <1>h, <1>s, <2>2, FlushedKept DEF BeginSave, FlushedClean, Saving, Dirty
  <2>3. CASE BeginSaveThrows
    BY <2>3 DEF BeginSaveThrows, Running, StatusAfterFailure, FlushedClean, Saving,
       Dirty, SaveThrows, RootShouldSave
  <2>4. CASE FinishSave
    BY <2>4 DEF FinishSave, StatusAfter, FlushedClean, Saving, Dirty, dirt
  <2>5. ASSUME NEW w \in writes, RootNotPersistable(w)
        PROVE  FlushedClean'
    BY <2>5
       DEF RootNotPersistable, SaveFails, StatusAfterFailure, FlushedClean, Saving
  <2>6. ASSUME RootSaved \/ (\E w \in writes : NoteSaved(w))
                 \/ \E n \in Notes : DeleteBlob(n)
        PROVE  FlushedClean'
    <3>1. Saving /\ UNCHANGED <<dirt, queue, status>>
      BY <2>6 DEF RootSaved, NoteSaved, DeleteBlob, Saving
    <3> QED BY <3>1 DEF FlushedClean, Saving, Dirty, dirt
  <2> QED BY <1>5, <2>1, <2>2, <2>3, <2>4, <2>5, <2>6 DEF SaveStep
<1>6. CASE SnapshotStep
  <2>1. CASE ReplaceSucceeds
    BY <2>1 DEF ReplaceSucceeds, TakeOver, FlushedClean, Saving, Dirty
  <2>2. ~ReplaceFails /\ ~ReplaceUnderSave BY NoSaveUnder DEF ReplaceFails
  <2>3. ASSUME BeginSnapshot \/ SaveSnapshotRoot
                 \/ \E n \in Notes : SnapshotNoteSettles(n)
        PROVE  FlushedClean'
    <3>1. status # "flushed"
      <4>1. BeginSnapshot => Has(queue, "replace")
        <5>1. "replace" \in {"flush", "replace"} OBVIOUS
        <5>2. queue # << >> => \A kind \in {"flush", "replace"} :
                Has(queue, kind) <=> Head(queue).kind = kind \/ Has(Tail(queue), kind)
          BY <1>0, HasTail
        <5> QED BY <5>1, <5>2 DEF BeginSnapshot, Running
      <4> QED BY <2>3, <4>1
              DEF SaveSnapshotRoot, SnapshotNoteSettles, FlushedClean, QueueShape
    <3> QED BY <2>3, <3>1
            DEF BeginSnapshot, SaveSnapshotRoot, SnapshotNoteSettles, FlushedClean,
                Saving
  <2> QED BY <1>6, <2>1, <2>2, <2>3 DEF SnapshotStep
<1>7. CASE FaultStep
  <2>1. SaveFails /\ Saving
    BY <1>7 DEF FaultStep, SaveRootFails, SaveNoteFails, DeleteNoteFails, Saving
  <2> QED BY <2>1 DEF SaveFails, StatusAfterFailure, FlushedClean, Saving
<1> QED BY <1>1, <1>2, <1>3, <1>4, <1>5, <1>6, <1>7 DEF Next

\* The notes of the stored root, or of the room's own root as long as
\* there is a room, have a blob or are loaded, so that a save can store them.
UnloadedStored ==
  IF status \in {"cold", "replacing"}
    THEN storedRoot.notes \subseteq blobs
    ELSE root.notes \subseteq loaded \union blobs

\* Every step keeps what the store has of the notes the room has not loaded.
LEMMA UnloadedStoredStep ==
  ASSUME ~UndoRestore, Faults \intersect {"snapshot", "crash"} = {},
         SaveInv, ReplacementInv, FlushedClean, UnloadedStored, [Next]_vars
  PROVE  UnloadedStored'
<1>0. /\ TypeInv /\ ColdRoom /\ QueuedNotes
      /\ loaded \subseteq root.notes
  BY DEF SaveInv, TypeInv, TypeOK
<1> USE DEF UnloadedStored
<1>1. CASE UNCHANGED vars BY <1>1 DEF vars, memory, store
<1>2. CASE RoomStep
  <2>1. CASE Destroy
    <3>1. storedRoot = root /\ loaded \subseteq blobs
      BY <2>1 DEF Destroy, SaveInv, RootFollowed, EditsTracked, FlushedClean, Dirty,
         Replacing
    <3> QED BY <2>1, <3>1 DEF Destroy, EmptyRoom, store
  <2>2. ~Crash BY DEF Crash
  <2>3. CASE OpenRoom BY <2>3 DEF OpenRoom, store
  <2>4. CASE Close BY <2>4 DEF Close, store, memory
  <2>5. ASSUME NEW n \in Notes, LoadNote(n) PROVE UnloadedStored'
    BY <2>5 DEF LoadNote, memory, store
  <2>6. ASSUME NEW l \in loads, NoteLoaded(l) PROVE UnloadedStored'
    <3>1. status \notin {"cold", "replacing"}
      BY <1>0, <2>6 DEF TypeInv, RoomShape
    <3> QED BY <2>6, <3>1 DEF NoteLoaded, store
  <2>7. ASSUME NEW kind \in {"note", "workspace"}, Attach(kind) PROVE UnloadedStored'
    BY <2>7 DEF Attach, memory, store
  <2>8. CASE WorkspaceSocketsLeave BY <2>8 DEF WorkspaceSocketsLeave, memory, store
  <2>9. CASE SnapshotRejected BY <2>9 DEF SnapshotRejected, memory, store
  <2> QED BY <1>2, <2>1, <2>2, <2>3, <2>4, <2>5, <2>6, <2>7, <2>8, <2>9 DEF RoomStep
<1>3. CASE ClientStep
  <2> PICK e \in Edits :
        \/ EditRoot(e)
        \/ \E n \in Notes :
             EditNote(n, e) \/ RemoveNote(n, e) \/ ReplaceNoteDoc(n, e)
               \/ CreateNote(n, e)
        \/ \E notes \in SUBSET Notes : ReplaceDocument(notes, e)
    BY <1>3 DEF ClientStep
  <2> USE DEF ChangeRoot, Accepting, ForgetNote, store, memory
  <2>1. CASE EditRoot(e) BY <2>1 DEF EditRoot
  <2>2. ASSUME NEW n \in Notes, EditNote(n, e) PROVE UnloadedStored'
    BY <2>2 DEF EditNote
  <2>3. ASSUME NEW n \in Notes, RemoveNote(n, e) PROVE UnloadedStored'
    BY <2>3 DEF RemoveNote
  <2>4. ASSUME NEW n \in Notes, CreateNote(n, e) PROVE UnloadedStored'
    BY <2>4 DEF CreateNote
  <2>5. ASSUME NEW notes \in SUBSET Notes, ReplaceDocument(notes, e)
        PROVE  UnloadedStored'
    BY <2>5 DEF ReplaceDocument
  <2>6. \A n \in Notes : ~ReplaceNoteDoc(n, e) BY DEF ReplaceNoteDoc
  <2> QED BY <2>1, <2>2, <2>3, <2>4, <2>5, <2>6
<1>4. CASE SaveTimerFires BY <1>4 DEF SaveTimerFires, memory, store
<1>5. ASSUME SaveStep \/ FaultStep
      PROVE  UnloadedStored'
  <2>1. /\ status \notin {"cold", "replacing"} => status' \notin {"cold", "replacing"}
        /\ UNCHANGED memory
    BY <1>5
       DEF SaveStep, FaultStep, SkipSave, BeginSave, BeginSaveThrows, RootSaved,
           FinishSave, NoteSaved, RootNotPersistable, DeleteBlob, SaveRootFails,
           SaveNoteFails, DeleteNoteFails, SaveFails, StatusAfter, StatusAfterFailure
  <2>2. blobs \subseteq blobs' \/ \E n \in deletes : blobs' = blobs \ {n}
    BY <1>5
       DEF SaveStep, FaultStep, SkipSave, BeginSave, BeginSaveThrows, RootSaved,
           FinishSave, NoteSaved, RootNotPersistable, DeleteBlob, SaveRootFails,
           SaveNoteFails, DeleteNoteFails, PutBlob, RemoveBlob, store
  <2>3. deletes \intersect root.notes = {} BY <1>0 DEF QueuedNotes
  <2>4. CASE status \in {"cold", "replacing"}
    <3>1. SkipSave
      BY <1>0, <1>5, <2>4
         DEF SaveStep, FaultStep, BeginSave, BeginSaveThrows, RootSaved, FinishSave,
             NoteSaved, RootNotPersistable, DeleteBlob, SaveRootFails, SaveNoteFails,
             DeleteNoteFails, ColdRoom, Saving, Dirty, SaveThrows, RootShouldSave
    <3> QED BY <2>4, <3>1 DEF SkipSave, StatusAfter, store, memory
  <2> QED BY <2>1, <2>2, <2>3, <2>4 DEF memory
<1>6. CASE SnapshotStep
  <2>1. CASE ReplaceSucceeds
    <3>1. root'.notes \subseteq loaded' BY <2>1 DEF ReplaceSucceeds, TakeOver
    <3>2. status' \notin {"cold", "replacing"}
      BY <1>0, <2>1
         DEF ReplaceSucceeds, TakeOver, StatusAfterReplace, StatusAfter, ColdRoom
    <3> QED BY <3>1, <3>2
  <2>2. ~ReplaceFails /\ ~ReplaceUnderSave BY NoSaveUnder DEF ReplaceFails
  <2>3. ASSUME BeginSnapshot \/ SaveSnapshotRoot
                 \/ \E n \in Notes : SnapshotNoteSettles(n)
        PROVE  UnloadedStored'
    BY <2>3 DEF BeginSnapshot, SaveSnapshotRoot, SnapshotNoteSettles, PutBlob, memory,
       store
  <2> QED BY <1>6, <2>1, <2>2, <2>3 DEF SnapshotStep
<1> QED BY <1>1, <1>2, <1>3, <1>4, <1>5, <1>6 DEF Next

----------------------------------------------------------------------------
(* What follows.                                                           *)

FlushInv == SaveInv /\ ReplacementInv /\ SnapshotInv /\ QueueShape /\ FlushedClean

\* The invariant behind FlushIsComplete.
LEMMA FlushInvariant ==
  ASSUME ~UndoRestore, ~Overlap, "snapshot" \notin Faults
  PROVE  Spec => []FlushInv
<1>1. Init => FlushInv
  BY SaveInit, TypeInit, QueueShapeInit, ReplacementInit
     DEF Init, FlushInv, SnapshotInv, FlushedClean, Saving
<1>2. ASSUME FlushInv, [Next]_vars PROVE FlushInv'
  BY <1>2, SaveInvStep, ReplacementInvStep, SnapshotInvStep, QueueShapeStep,
     FlushedCleanStep DEF FlushInv
<1> QED BY <1>1, <1>2, PTL DEF Spec

\* A room is torn down only when everything it holds is stored: flushAndDestroy,
\* racing with saves, replacements, failures and reconnecting clients, never
\* gives up an edit.
THEOREM FlushIsComplete ==
  ASSUME ~UndoRestore, ~Overlap, "snapshot" \notin Faults
  PROVE  Spec => []FlushedStoresEverything
<1>1. FlushInv => FlushedStoresEverything
  BY DEF FlushInv, FlushedClean, Dirty, SaveInv, RootFollowed, EditsTracked,
         Replacing, FlushedStoresEverything
<1> QED BY <1>1, FlushInvariant, PTL

\* Unless the process dies, a workspace without a room can always be opened:
\* every note its stored root attaches has a blob.
THEOREM ColdRoomOpens ==
  ASSUME ~UndoRestore, ~Overlap, Faults \intersect {"snapshot", "crash"} = {}
  PROVE  Spec => []ColdStoreLoads
<1>0. "snapshot" \notin Faults OBVIOUS
<1>1. Init => UnloadedStored BY DEF Init, UnloadedStored
<1>2. FlushInv /\ UnloadedStored /\ [Next]_vars => UnloadedStored'
  BY UnloadedStoredStep DEF FlushInv
<1>3. UnloadedStored => ColdStoreLoads BY DEF UnloadedStored, ColdStoreLoads
<1>4. Spec => []FlushInv BY <1>0, FlushInvariant
<1> QED BY <1>1, <1>2, <1>3, <1>4, PTL DEF Spec

=============================================================================
