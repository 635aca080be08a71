------------------------ MODULE RoomPersistenceProofs ------------------------
(***************************************************************************)
(* Theorems about RoomPersistence that hold for every set of notes and of  *)
(* edits.                                                                  *)
(***************************************************************************)
EXTENDS RoomPersistence, SequenceTheorems, TLAPS

----------------------------------------------------------------------------
(* Tasks in the queue.                                                     *)

\* The tasks and the empty documents have their types.
LEMMA TasksTyped ==
  /\ SaveTask \in Task /\ FlushTask \in Task
  /\ \A notes \in SUBSET Notes, e \in Edits : ReplaceTask(notes, e) \in Task
  /\ EmptyRoot \in RootDoc /\ NoDocs \in [Notes -> SUBSET Edits]
BY DEF SaveTask, FlushTask, ReplaceTask, Task, EmptyRoot, RootDoc, NoDocs

\* What the queue operations return.
LEMMA SeqTyped ==
  ASSUME NEW T, NEW q \in Seq(T)
  PROVE  /\ \A t \in T : Append(q, t) \in Seq(T) /\ Append(q, t) # << >>
         /\ q # << >> => Head(q) \in T /\ Tail(q) \in Seq(T)
         /\ Len(q) > 1 => /\ q # << >> /\ Tail(q) # << >>
                          /\ Tail(Tail(q)) \in Seq(T) /\ q[2] \in T
<1>1. ASSUME NEW t \in T
      PROVE  Append(q, t) \in Seq(T) /\ Append(q, t) # << >>
  <2>1. /\ Append(q, t) \in Seq(T)
        /\ Len(Append(q, t)) = Len(q) + 1
    BY AppendProperties
  <2> QED BY <2>1, LenProperties, EmptySeq
<1>2. q # << >> => /\ Head(q) \in T /\ Tail(q) \in Seq(T)
                   /\ Len(Tail(q)) = Len(q) - 1
  BY HeadTailProperties
<1>3. ASSUME Len(q) > 1
      PROVE  /\ q # << >> /\ Tail(q) # << >>
             /\ Tail(Tail(q)) \in Seq(T) /\ q[2] \in T
  <2>1. q # << >> BY <1>3, EmptySeq
  <2>2. Tail(q) # << >>
    <3> DEFINE len == Len(q)  rest == Len(Tail(q))
    <3>1. rest = len - 1 /\ len \in Nat /\ len > 1
      BY <1>2, <1>3, <2>1, LenProperties
    <3> HIDE DEF len, rest
    <3>2. rest # 0 BY <3>1
    <3>3. Tail(q) = << >> => rest = 0 BY EmptySeq, Zenon DEF rest
    <3> QED BY <3>2, <3>3
  <2>3. Tail(Tail(q)) \in Seq(T) BY <1>2, <2>1, <2>2, HeadTailProperties
  <2>4. q[2] \in T
    <3>1. 2 \in 1 .. Len(q) BY <1>3, LenProperties
    <3> QED BY <3>1, ElementOfSeq
  <2> QED BY <2>1, <2>2, <2>3, <2>4
<1> QED BY <1>1, <1>2, <1>3

\* The same, of a queue of tasks.
LEMMA QueueTyped ==
  ASSUME NEW q \in Seq(Task)
  PROVE  /\ Len(q) \in Nat /\ (q = << >> <=> Len(q) = 0)
         /\ \A t \in Task : /\ Append(q, t) \in Seq(Task) /\ Append(q, t) # << >>
                            /\ Len(Append(q, t)) = Len(q) + 1
         /\ q # << >> => /\ Head(q) \in Task /\ Tail(q) \in Seq(Task)
                         /\ Len(Tail(q)) = Len(q) - 1
         /\ Len(q) > 1 => /\ q # << >> /\ Tail(q) # << >>
                          /\ Tail(Tail(q)) \in Seq(Task) /\ q[2] \in Task
<1>1. Len(q) \in Nat /\ (q = << >> <=> Len(q) = 0) BY LenProperties, EmptySeq
<1>2. \A t \in Task : Len(Append(q, t)) = Len(q) + 1 BY AppendProperties
<1>3. q # << >> => Len(Tail(q)) = Len(q) - 1 BY HeadTailProperties
<1> QED BY <1>1, <1>2, <1>3, SeqTyped

----------------------------------------------------------------------------
(* Type correctness.  A loaded note is attached because its load started   *)
(* when it was, and a detached note loses its load; a workspace without a  *)
(* room has no loads, nothing to save and at most one replacement queued.  *)

Saving == pc \in {"notes", "root", "deletes"}

RoomShape ==
  /\ pc # "idle" => queue # << >>
  /\ status # "live" => clients = "none"
  /\ status \in {"cold", "replacing"} =>
       /\ loaded = {} /\ loads = {} /\ ~Dirty /\ ~saveTimer /\ ~Saving
       /\ Len(queue) <= 1
  /\ status = "cold" => queue = << >>
  /\ \A l \in loads : l.note \in root.notes

TypeInv == TypeOK /\ RoomShape

\* The initial states have their types.
LEMMA TypeInit == Init => TypeInv
<1> SUFFICES ASSUME Init PROVE TypeInv
  OBVIOUS
<1>1. queue \in Seq(Task)
  <2>1. << >> \in Seq(Task) BY EmptySeq
  <2> QED BY <2>1 DEF Init
<1>2. /\ root \in RootDoc /\ storedRoot \in RootDoc /\ rootImage \in RootDoc
      /\ doc \in [Notes -> SUBSET Edits] /\ blob \in [Notes -> SUBSET Edits]
  BY TasksTyped DEF Init, RootDoc
<1>3. Len(queue) <= 1 BY EmptySeq DEF Init
<1> QED BY <1>1, <1>2, <1>3 DEF Init, TypeInv, TypeOK, RoomShape, Dirty, Saving

\* The types after Room.
LEMMA TypeRoomStep == TypeInv /\ RoomStep => TypeInv'
<1> SUFFICES ASSUME TypeInv, RoomStep PROVE TypeInv'
  OBVIOUS
<1> USE TasksTyped, QueueTyped
    DEF TypeInv, TypeOK, RoomShape, Dirty, Saving, memory, dirt, timer, save, store, ids
<1>1. CASE OpenRoom BY <1>1 DEF OpenRoom
<1>2. CASE Close BY <1>2 DEF Close
<1>e. << >> \in Seq(Task) /\ Len(<< >>) <= 1 BY EmptySeq
<1>3. CASE Destroy BY <1>3, <1>e DEF Destroy, EmptyRoom
<1>4. CASE Crash BY <1>4, <1>e DEF Crash, EmptyRoom
<1>5. ASSUME NEW n \in Notes, LoadNote(n) PROVE TypeInv'
  BY <1>5 DEF LoadNote, NoteBytes
<1>6. ASSUME NEW l \in loads, NoteLoaded(l) PROVE TypeInv'
  BY <1>6 DEF NoteLoaded, NoteBytes
<1>7. ASSUME NEW kind \in {"note", "workspace"}, Attach(kind) PROVE TypeInv'
  BY <1>7 DEF Attach
<1>8. CASE WorkspaceSocketsLeave BY <1>8 DEF WorkspaceSocketsLeave
<1>9. CASE SnapshotRejected BY <1>9 DEF SnapshotRejected
<1> QED BY <1>1, <1>2, <1>3, <1>4, <1>5, <1>6, <1>7, <1>8, <1>9 DEF RoomStep

\* The types after Client.
LEMMA TypeClientStep == TypeInv /\ ClientStep => TypeInv'
<1> SUFFICES ASSUME TypeInv, NEW e \in Edits,
                    \/ EditRoot(e)
                    \/ \E n \in Notes :
                         EditNote(n, e) \/ RemoveNote(n, e)
                           \/ ReplaceNoteDoc(n, e) \/ CreateNote(n, e)
                    \/ \E notes \in SUBSET Notes : ReplaceDocument(notes, e)
             PROVE  TypeInv'
  BY DEF ClientStep
<1> USE TasksTyped, QueueTyped
    DEF TypeInv, TypeOK, RoomShape, memory, dirt, timer, save, store, ids, ChangeRoot,
        ScheduleSave, Dirty, Saving, Accepting, RootDoc
<1>1. CASE EditRoot(e) BY <1>1 DEF EditRoot
<1>2. ASSUME NEW n \in Notes, EditNote(n, e) PROVE TypeInv'
  BY <1>2 DEF EditNote
<1>3. ASSUME NEW n \in Notes, RemoveNote(n, e) PROVE TypeInv'
  BY <1>3 DEF RemoveNote, ForgetNote
<1>4. ASSUME NEW n \in Notes, ReplaceNoteDoc(n, e) PROVE TypeInv'
  BY <1>4 DEF ReplaceNoteDoc, ForgetNote
<1>5. ASSUME NEW n \in Notes, CreateNote(n, e) PROVE TypeInv'
  BY <1>5 DEF CreateNote
<1>6. ASSUME NEW notes \in SUBSET Notes, ReplaceDocument(notes, e)
      PROVE  TypeInv'
  <2>1. ReplaceTask(notes, e) \in Task BY TasksTyped
  <2>2. /\ queue' \in Seq(Task) /\ queue' # << >>
        /\ Len(queue') = Len(queue) + 1 /\ Len(queue) \in Nat
        /\ status = "cold" => Len(queue) = 0
    BY <1>6, <2>1 DEF ReplaceDocument
  <2>3. /\ status' \in {"replacing", "live"} /\ status \in {"cold", "live"}
        /\ status' = "live" <=> status = "live"
        /\ status' = "replacing" => status = "cold" /\ Len(queue') <= 1
    BY <1>6, <2>2 DEF ReplaceDocument
  <2> HIDE QueueTyped
  <2> QED BY <1>6, <2>2, <2>3 DEF ReplaceDocument
<1> QED BY <1>1, <1>2, <1>3, <1>4, <1>5, <1>6

\* What a save does between two awaits keeps its variables in their types.
LEMMA GoOnTyped ==
  ASSUME TypeInv, NEW remaining \in SUBSET Notes, NEW r \in BOOLEAN,
         GoOn(remaining, r)
  PROVE  /\ left' \subseteq remaining /\ writes' \subseteq NoteBytes
         /\ rootImage' \in RootDoc
         /\ pc' \in {"notes", "root", "deletes"}
<1> USE DEF TypeInv, TypeOK
<1>1. CASE \E n \in Notes : SaveNote(n, remaining)
  <2> PICK n \in Notes : SaveNote(n, remaining) BY <1>1
  <2>1. [note |-> n, edits |-> doc[n]] \in NoteBytes BY DEF NoteBytes
  <2> QED BY <2>1 DEF SaveNote
<1>2. CASE /\ left' = {} /\ writes' = {}
           /\ \/ r /\ SaveRoot
              \/ ~r /\ pc' = "deletes" /\ UNCHANGED rootImage
  BY <1>2 DEF SaveRoot
<1> QED BY <1>1, <1>2 DEF GoOn

\* What the catch block of a save restores.
LEMMA SaveFailsTyped ==
  ASSUME TypeInv, queue # << >>, Saving, SaveFails,
         blobs' \subseteq Notes, blob' \in [Notes -> SUBSET Edits],
         storedRoot' \in RootDoc, UNCHANGED ids
  PROVE  TypeInv'
BY QueueTyped
   DEF TypeInv, TypeOK, RoomShape, SaveFails, SaveLapses, StatusAfterFailure, Dirty,
       Saving, memory, ids

\* The types after Save.
LEMMA TypeSaveStep == TypeInv /\ SaveStep => TypeInv'
<1> SUFFICES ASSUME TypeInv, SaveStep PROVE TypeInv'
  OBVIOUS
<1> USE QueueTyped
    DEF TypeInv, TypeOK, RoomShape, memory, dirt, timer, save, store, ids, Running,
        Dirty, Saving, StatusAfter
<1>1. CASE SkipSave BY <1>1 DEF SkipSave
<1>2. CASE BeginSave
  <2>1. /\ left' \subseteq NoteIdsToSave /\ writes' \subseteq NoteBytes
        /\ rootImage' \in RootDoc /\ pc' \in {"notes", "root", "deletes"}
    BY <1>2, GoOnTyped DEF BeginSave, NoteIdsToSave, RootShouldSave
  <2> QED BY <1>2, <2>1 DEF BeginSave, NoteIdsToSave, RootShouldSave
<1>3. CASE BeginSaveThrows
  BY <1>3 DEF BeginSaveThrows, NoteIdsToSave, SaveThrows, RootShouldSave, SaveLapses,
     StatusAfterFailure
<1>4. CASE RootSaved BY <1>4 DEF RootSaved
<1>5. CASE FinishSave BY <1>5 DEF FinishSave, Dirty
<1>6. ASSUME NEW w \in writes, NoteSaved(w) PROVE TypeInv'
  <2>1. /\ left' \subseteq left \ {w.note} /\ writes' \subseteq NoteBytes
        /\ rootImage' \in RootDoc /\ pc' \in {"notes", "root", "deletes"}
    BY <1>6, GoOnTyped DEF NoteSaved
  <2>2. w.note \in Notes /\ w.edits \subseteq Edits BY DEF NoteBytes
  <2> QED BY <1>6, <2>1, <2>2 DEF NoteSaved, PutBlob
<1>7. ASSUME NEW w \in writes, RootNotPersistable(w) PROVE TypeInv'
  <2>1. w.note \in Notes /\ w.edits \subseteq Edits BY DEF NoteBytes
  <2>2. SaveFails /\ queue # << >> /\ Saving /\ UNCHANGED ids /\ storedRoot' \in RootDoc
    BY <1>7 DEF RootNotPersistable, SaveFails
  <2> QED BY <1>7, <2>1, <2>2, SaveFailsTyped DEF RootNotPersistable, PutBlob
<1>8. ASSUME NEW n \in Notes, DeleteBlob(n) PROVE TypeInv'
  BY <1>8 DEF DeleteBlob, RemoveBlob
<1> QED BY <1>1, <1>2, <1>3, <1>4, <1>5, <1>6, <1>7, <1>8 DEF SaveStep

\* The types after Snapshot.
LEMMA TypeSnapshotStep == TypeInv /\ SnapshotStep => TypeInv'
<1> SUFFICES ASSUME TypeInv, SnapshotStep PROVE TypeInv'
  OBVIOUS
<1> USE QueueTyped, TasksTyped
    DEF TypeInv, TypeOK, RoomShape, Dirty, Saving, memory, dirt, timer, save, store, ids,
        Running
<1>1. CASE BeginSnapshot BY <1>1 DEF BeginSnapshot, Task
<1>2. CASE SaveSnapshotRoot BY <1>2 DEF SaveSnapshotRoot, Task, RootDoc
<1>3. CASE ReplaceSucceeds
  <2>1. QueueAfterReplace \in Seq(Task)
    BY <1>3 DEF ReplaceSucceeds, QueueAfterReplace, NextIsSkipped, NextIsSave
  <2>2. /\ queue' \in Seq(Task)
        /\ saveTimer' \in BOOLEAN
        /\ status' \in {"live", "closing", "flushed"}
    BY <1>3, <2>1
       DEF ReplaceSucceeds, TakeOver, StatusAfterReplace, StatusAfter, NextIsSkipped
  <2> QED BY <1>3, <2>2 DEF ReplaceSucceeds, TakeOver, RootDoc
<1>4. CASE ReplaceFails
  <2>1. QueueAfterReplace \in Seq(Task)
    BY <1>4 DEF ReplaceFails, QueueAfterReplace, NextIsSkipped, NextIsSave
  <2>2. /\ status' \in {"cold", "live", "closing", "flushed"}
        /\ status' = "live" <=> status = "live"
        /\ status' = "cold" => status = "replacing" /\ QueueAfterReplace = << >>
    BY <1>4, <2>1
       DEF ReplaceFails, StatusAfterReplace, StatusAfter, QueueAfterReplace,
           NextIsSkipped, NextIsSave
  <2>3. QueueAfterReplace = << >> => Len(QueueAfterReplace) <= 1 BY <2>1
  <2> HIDE QueueTyped DEF QueueAfterReplace
  <2> QED BY <1>4, <2>1, <2>2, <2>3 DEF ReplaceFails
<1>6. CASE ReplaceUnderSave
  <2>1. /\ Tail(queue) \in Seq(Task) /\ Tail(Tail(queue)) \in Seq(Task)
        /\ status \in {"live", "closing", "flushed"}
    BY <1>6 DEF ReplaceUnderSave, NextSaves, NextIsSave
  <2>2. ASSUME NEW q \in Seq(Task), NEW st \in {"live", "closing", "flushed"},
               TakeOver(q, st), pc' # "idle" => q # << >>,
               pc' \in {"idle", "notes", "root", "deletes"},
               left' \subseteq Notes, batch' \subseteq Notes, deletes' \subseteq Notes,
               writes' \subseteq NoteBytes, rootImage' \in RootDoc,
               withRoot' \in BOOLEAN, snapFailed' \in BOOLEAN
        PROVE  TypeInv'
    <3>1. /\ queue' \in Seq(Task) /\ saveTimer' \in BOOLEAN
          /\ status' \in {"live", "closing", "flushed"}
          /\ pc' # "idle" => queue' # << >>
      BY <2>1, <2>2 DEF TakeOver
    <3> QED BY <2>2, <3>1 DEF TakeOver, RootDoc
  <2>3. ASSUME GoOn(NoteIdsToSave, RootShouldSave), batch' = NoteIdsToSave,
               withRoot' = RootShouldSave, deletes' = deletedNoteIds,
               TakeOver(Tail(queue), status), UNCHANGED snapFailed
        PROVE  TypeInv'
    <3>1. /\ left' \subseteq NoteIdsToSave /\ writes' \subseteq NoteBytes
          /\ rootImage' \in RootDoc /\ pc' \in {"notes", "root", "deletes"}
      BY <2>3, GoOnTyped DEF NoteIdsToSave, RootShouldSave
    <3>2. Tail(queue) # << >> BY <1>6 DEF ReplaceUnderSave, NextSaves, NextIsSave
    <3> QED BY <2>1, <2>2, <2>3, <3>1, <3>2 DEF NoteIdsToSave, RootShouldSave
  <2>4. ASSUME pc' = "idle", TakeOver(Tail(Tail(queue)), StatusAfterFailure(queue[2])),
               UNCHANGED save
        PROVE  TypeInv'
    <3>1. StatusAfterFailure(queue[2]) \in {"live", "closing", "flushed"}
      BY <2>1 DEF StatusAfterFailure
    <3> QED BY <2>1, <2>2, <2>4, <3>1
  <2> QED BY <1>6, <2>3, <2>4 DEF ReplaceUnderSave
<1>5. ASSUME NEW n \in Notes, SnapshotNoteSettles(n) PROVE TypeInv'
  BY <1>5 DEF SnapshotNoteSettles, PutBlob, Task
<1> QED BY <1>1, <1>2, <1>3, <1>4, <1>5, <1>6 DEF SnapshotStep

\* The types after Fault.
LEMMA TypeFaultStep == TypeInv /\ FaultStep => TypeInv'
<1> SUFFICES ASSUME TypeInv, FaultStep PROVE TypeInv'
  OBVIOUS
<1> USE DEF TypeInv, TypeOK, RoomShape, Saving
<1>1. CASE SaveRootFails
  <2>1. SaveFails /\ queue # << >> /\ Saving BY <1>1 DEF SaveRootFails
  <2> QED BY <1>1, <2>1, SaveFailsTyped DEF SaveRootFails, SaveFails
<1>2. ASSUME NEW w \in writes, SaveNoteFails(w) PROVE TypeInv'
  <2>1. SaveFails /\ queue # << >> /\ Saving BY <1>2 DEF SaveNoteFails
  <2>2. w.note \in Notes /\ w.edits \subseteq Edits BY DEF NoteBytes
  <2> QED BY <1>2, <2>1, <2>2, SaveFailsTyped
          DEF SaveNoteFails, SaveFails, PutBlob
<1>3. ASSUME NEW n \in Notes, DeleteNoteFails(n) PROVE TypeInv'
  <2>1. SaveFails /\ queue # << >> /\ Saving BY <1>3 DEF DeleteNoteFails
  <2> QED BY <1>3, <2>1, SaveFailsTyped DEF DeleteNoteFails, SaveFails, RemoveBlob
<1> QED BY <1>1, <1>2, <1>3 DEF FaultStep

\* Every step keeps the types.
LEMMA TypeStep == TypeInv /\ [Next]_vars => TypeInv'
<1> SUFFICES ASSUME TypeInv, [Next]_vars PROVE TypeInv'
  OBVIOUS
<1>1. CASE SaveTimerFires
  BY <1>1, QueueTyped, TasksTyped
     DEF TypeInv, TypeOK, RoomShape, Dirty, Saving, SaveTimerFires, memory, dirt, timer, save, store, ids
<1>2. CASE UNCHANGED vars
  BY <1>2 DEF TypeInv, TypeOK, RoomShape, Dirty, Saving, vars, memory, dirt, timer, save,
     store, ids
<1> QED BY <1>1, <1>2, TypeRoomStep, TypeClientStep, TypeSaveStep,
           TypeSnapshotStep, TypeFaultStep DEF Next

\* Every behaviour of a room is well typed, with every fault and with undo; in
\* particular the notes with a loaded state are always attached.
THEOREM TypeCorrect == Spec => []TypeOK
<1>1. TypeInv => TypeOK BY DEF TypeInv
<1> QED BY <1>1, TypeInit, TypeStep, PTL DEF Spec

----------------------------------------------------------------------------
(* Tasks in a queue.                                                       *)

\* The queue holds a task of the kind.
Has(q, kind) == \E i \in 1 .. Len(q) : q[i].kind = kind

\* Behind a task of the kind there are only tasks of these kinds.
Behind(q, kind, kinds) ==
  \A i, j \in 1 .. Len(q) : i < j /\ q[i].kind = kind => q[j].kind \in kinds

SavesAfterFlush(q) == Behind(q, "flush", {"save"})
OneReplacement(q) == Behind(q, "replace", {"save", "flush"})

\* What is in a queue: nothing in the empty one.
LEMMA HasEmpty == \A kind : ~Has(<< >>, kind)
<1>1. Len(<< >>) = 0 BY EmptySeq
<1> QED BY <1>1 DEF Has

\* The last task is in the queue, with those that were.
LEMMA HasAppend ==
  ASSUME NEW q \in Seq(Task), NEW t \in Task, NEW kind
  PROVE  /\ Has(Append(q, t), kind) <=> Has(q, kind) \/ t.kind = kind
         /\ q # << >> => Head(Append(q, t)) = Head(q)
<1> DEFINE a == Append(q, t)
<1>1. /\ Len(a) = Len(q) + 1 /\ Len(q) \in Nat
      /\ \A i \in 1 .. Len(q) : a[i] = q[i]
      /\ a[Len(q) + 1] = t
  BY AppendProperties, LenProperties
<1>2. q # << >> => Head(a) = Head(q)
  BY HeadTailAppend
<1> HIDE DEF a
<1> QED BY <1>1, <1>2 DEF Has

\* A task that is in the tail was in the queue.
LEMMA HasTail ==
  ASSUME NEW q \in Seq(Task), q # << >>, NEW kind
  PROVE  Has(q, kind) <=> Head(q).kind = kind \/ Has(Tail(q), kind)
<1> DEFINE r == Tail(q)
<1>1. /\ Len(r) = Len(q) - 1 /\ Len(q) \in Nat \ {0}
      /\ \A i \in 1 .. Len(r) : r[i] = q[i + 1]
      /\ Head(q) = q[1]
  BY HeadTailProperties, EmptySeq
<1> HIDE DEF r
<1>2. ASSUME NEW i \in 1 .. Len(q), q[i].kind = kind
      PROVE  q[1].kind = kind \/ Has(r, kind)
  <2>1. CASE i = 1 BY <1>2, <2>1
  <2>2. CASE i # 1
    <3>1. i - 1 \in 1 .. Len(r) /\ r[i - 1] = q[i] BY <1>1, <2>2
    <3> QED BY <1>2, <3>1 DEF Has
  <2> QED BY <2>1, <2>2
<1>3. ASSUME NEW i \in 1 .. Len(r), r[i].kind = kind
      PROVE  Has(q, kind)
  BY <1>1, <1>3 DEF Has
<1>4. ASSUME q[1].kind = kind PROVE Has(q, kind) BY <1>1, <1>4 DEF Has
<1> QED BY <1>1, <1>2, <1>3, <1>4 DEF Has, r

\* What may queue up behind it.
LEMMA BehindAppend ==
  ASSUME NEW q \in Seq(Task), NEW t \in Task, NEW kind, NEW kinds,
         Behind(q, kind, kinds), Has(q, kind) => t.kind \in kinds
  PROVE  Behind(Append(q, t), kind, kinds)
<1> DEFINE a == Append(q, t)
<1>1. /\ Len(a) = Len(q) + 1 /\ Len(q) \in Nat
      /\ \A i \in 1 .. Len(q) : a[i] = q[i]
      /\ a[Len(q) + 1] = t
  BY AppendProperties, LenProperties
<1> HIDE DEF a
<1>2. ASSUME NEW i \in 1 .. Len(a), NEW j \in 1 .. Len(a), i < j,
             a[i].kind = kind
      PROVE  a[j].kind \in kinds
  <2>1. i \in 1 .. Len(q) /\ q[i].kind = kind BY <1>1, <1>2
  <2>2. CASE j \in 1 .. Len(q) BY <1>1, <1>2, <2>1, <2>2 DEF Behind
  <2>3. CASE j = Len(q) + 1 BY <1>1, <2>1, <2>3 DEF Has
  <2> QED BY <1>1, <2>2, <2>3
<1>3. Behind(a, kind, kinds) BY <1>2 DEF Behind
<1> QED BY <1>3 DEF a

\* The rest of such a queue is one; behind a head of the kind it holds none of
\* the other kinds.
LEMMA BehindTail ==
  ASSUME NEW q \in Seq(Task), q # << >>, NEW kind, NEW kinds, Behind(q, kind, kinds)
  PROVE  /\ Behind(Tail(q), kind, kinds)
         /\ \A other : Head(q).kind = kind /\ other \notin kinds => ~Has(Tail(q), other)
<1> DEFINE r == Tail(q)
<1>1. /\ Len(r) = Len(q) - 1 /\ Len(q) \in Nat \ {0}
      /\ \A i \in 1 .. Len(r) : r[i] = q[i + 1]
      /\ Head(q) = q[1]
  BY HeadTailProperties, EmptySeq
<1> HIDE DEF r
<1>2. Behind(r, kind, kinds)
  <2>1. ASSUME NEW i \in 1 .. Len(r), NEW j \in 1 .. Len(r), i < j,
               r[i].kind = kind
        PROVE  r[j].kind \in kinds
    <3>1. /\ i + 1 \in 1 .. Len(q) /\ j + 1 \in 1 .. Len(q) /\ i + 1 < j + 1
          /\ r[i] = q[i + 1] /\ r[j] = q[j + 1]
      BY <1>1, <2>1
    <3> QED BY <2>1, <3>1 DEF Behind
  <2> QED BY <2>1 DEF Behind
<1>3. ASSUME q[1].kind = kind, NEW i \in 1 .. Len(r)
      PROVE  r[i].kind \in kinds
  <2>1. i + 1 \in 1 .. Len(q) /\ 1 < i + 1 /\ 1 \in 1 .. Len(q) BY <1>1
  <2> QED BY <1>1, <1>3, <2>1 DEF Behind
<1>4. \A other : q[1].kind = kind /\ other \notin kinds => ~Has(r, other)
  BY <1>3 DEF Has
<1> QED BY <1>1, <1>2, <1>4 DEF r

\* A save may queue up behind a flush.
LEMMA SavesAfterFlushAppend ==
  ASSUME NEW q \in Seq(Task), NEW t \in Task, SavesAfterFlush(q),
         Has(q, "flush") => t.kind = "save"
  PROVE  SavesAfterFlush(Append(q, t))
<1>1. Has(q, "flush") => t.kind \in {"save"} OBVIOUS
<1> QED BY <1>1, BehindAppend DEF SavesAfterFlush

\* The rest of such a queue is one, and holds no second flush.
LEMMA SavesAfterFlushTail ==
  ASSUME NEW q \in Seq(Task), q # << >>, SavesAfterFlush(q)
  PROVE  /\ SavesAfterFlush(Tail(q))
         /\ Head(q).kind = "flush" =>
              ~Has(Tail(q), "flush") /\ ~Has(Tail(q), "replace")
<1>1. /\ Behind(Tail(q), "flush", {"save"})
      /\ \A other : Head(q).kind = "flush" /\ other \notin {"save"} => ~Has(Tail(q), other)
  BY BehindTail DEF SavesAfterFlush
<1> QED BY <1>1 DEF SavesAfterFlush

\* The second task of a queue is the head of its tail.
LEMMA SecondTask ==
  ASSUME NEW q \in Seq(Task), Len(q) > 1
  PROVE  q[2] = Head(Tail(q))
<1>1. q # << >> /\ Tail(q) # << >> /\ Tail(q) \in Seq(Task)
  BY QueueTyped
<1>2. /\ Len(Tail(q)) = Len(q) - 1 /\ Len(q) \in Nat
      /\ \A i \in 1 .. Len(Tail(q)) : Tail(q)[i] = q[i + 1]
  BY <1>1, HeadTailProperties, LenProperties
<1>3. Tail(q)[1] = q[2] BY <1>2
<1>4. Head(Tail(q)) = Tail(q)[1] BY <1>1, HeadTailProperties
<1> QED BY <1>3, <1>4

----------------------------------------------------------------------------
(* Snapshots.  Of the notes of the running replacement, those whose store  *)
(* call has settled well hold the snapshot; the root is only encoded when  *)
(* none has failed.                                                        *)

SnapshotHeld(notes, edits) == \A n \in notes : n \in blobs /\ blob[n] = edits

SnapshotInv ==
  /\ TypeInv
  /\ pc = "snapNotes" /\ ~snapFailed =>
       SnapshotHeld(Head(queue).notes \ left, Head(queue).edits)
  /\ pc = "snapRoot" =>
       /\ rootImage = [notes |-> Head(queue).notes, edits |-> Head(queue).edits]
       /\ SnapshotHeld(Head(queue).notes, Head(queue).edits)

\* While a replacement runs, nothing else touches the blobs, its variables or
\* the head of the queue.
LEMMA SnapshotUndisturbed ==
  ASSUME TypeInv, Replacing, Replacing',
         RoomStep \/ ClientStep \/ SaveTimerFires \/ SaveStep \/ FaultStep
  PROVE  /\ UNCHANGED <<pc, left, snapFailed, rootImage, blobs, blob>>
         /\ Head(queue') = Head(queue)
<1>1. queue \in Seq(Task) /\ queue # << >>
  BY DEF TypeInv, TypeOK, RoomShape, Replacing
<1>2. \A t \in Task : Head(Append(queue, t)) = Head(queue)
  BY <1>1, HasAppend
<1> USE <1>1, <1>2, TasksTyped DEF Replacing, save, store
<1>3. CASE RoomStep
  BY <1>3 DEF RoomStep, OpenRoom, Close, Destroy, Crash, EmptyRoom, LoadNote,
     NoteLoaded, Attach, WorkspaceSocketsLeave, SnapshotRejected
<1>4. CASE ClientStep
  <2>1. PICK e \in Edits :
          \/ EditRoot(e)
          \/ \E n \in Notes :
               EditNote(n, e) \/ RemoveNote(n, e) \/ ReplaceNoteDoc(n, e)
                 \/ CreateNote(n, e)
          \/ \E notes \in SUBSET Notes : ReplaceDocument(notes, e)
    BY <1>4 DEF ClientStep
  <2> QED
    BY <2>1 DEF EditRoot, EditNote, RemoveNote, ReplaceNoteDoc, CreateNote,
       ChangeRoot, ReplaceDocument
<1>5. CASE SaveTimerFires BY <1>5 DEF SaveTimerFires
<1>6. CASE SaveStep
  BY <1>6 DEF SaveStep, SkipSave, BeginSave, BeginSaveThrows, RootSaved, FinishSave,
     NoteSaved, RootNotPersistable, DeleteBlob
<1>7. CASE FaultStep
  BY <1>7 DEF FaultStep, SaveRootFails, SaveNoteFails, DeleteNoteFails
<1> QED BY <1>3, <1>4, <1>5, <1>6, <1>7

\* A replacement begins as one: no other step comes to its places.
LEMMA SnapshotBegins ==
  ASSUME TypeInv, ~Replacing, Next, ~BeginSnapshot
  PROVE  ~Replacing'
<1> USE DEF Replacing, save, store
<1>1. CASE RoomStep
  BY <1>1 DEF RoomStep, OpenRoom, Close, Destroy, Crash, EmptyRoom, LoadNote,
     NoteLoaded, Attach, WorkspaceSocketsLeave, SnapshotRejected
<1>2. CASE ClientStep
  BY <1>2 DEF ClientStep, EditRoot, EditNote, RemoveNote, ReplaceNoteDoc, CreateNote,
     ChangeRoot, ReplaceDocument
<1>3. CASE SaveTimerFires BY <1>3 DEF SaveTimerFires
<1>4. CASE SaveStep
  BY <1>4 DEF SaveStep, SkipSave, BeginSave, BeginSaveThrows, RootSaved, FinishSave,
     NoteSaved, RootNotPersistable, SaveFails, DeleteBlob, GoOn, SaveNote, SaveRoot
<1>5. CASE FaultStep
  BY <1>5 DEF FaultStep, SaveRootFails, SaveNoteFails, DeleteNoteFails, SaveFails
<1>6. CASE SnapshotStep
  BY <1>6 DEF SnapshotStep, SaveSnapshotRoot, ReplaceSucceeds, ReplaceUnderSave,
     ReplaceFails, SnapshotNoteSettles
<1> QED BY <1>1, <1>2, <1>3, <1>4, <1>5, <1>6 DEF Next

\* Every step keeps what a snapshot in the making holds.
LEMMA SnapshotInvStep ==
  ASSUME SnapshotInv, [Next]_vars
  PROVE  SnapshotInv'
<1>0. TypeInv /\ TypeInv' BY TypeStep DEF SnapshotInv
<1>1. CASE UNCHANGED vars
  BY <1>0, <1>1 DEF SnapshotInv, SnapshotHeld, vars, save, store
<1>2. CASE ~Replacing'
  BY <1>0, <1>2 DEF SnapshotInv, Replacing
<1>3. ASSUME Next, ~SnapshotStep, Replacing'
      PROVE  SnapshotInv'
  <2>1. Replacing BY <1>0, <1>3, SnapshotBegins DEF SnapshotStep
  <2>2. /\ UNCHANGED <<pc, left, snapFailed, rootImage, blobs, blob>>
        /\ Head(queue') = Head(queue)
    BY <1>0, <1>3, <2>1, SnapshotUndisturbed DEF Next
  <2> QED BY <1>0, <2>2 DEF SnapshotInv, SnapshotHeld
<1>4. ASSUME SnapshotStep, Replacing'
      PROVE  SnapshotInv'
  <2> USE <1>0 DEF SnapshotInv, SnapshotHeld
  <2>1. CASE BeginSnapshot BY <2>1 DEF BeginSnapshot
  <2>2. CASE SaveSnapshotRoot BY <2>2 DEF SaveSnapshotRoot, store
  <2>3. ASSUME NEW n \in Notes, SnapshotNoteSettles(n) PROVE SnapshotInv'
    <3>1. /\ queue' = queue /\ pc' = "snapNotes" /\ left' = left \ {n}
          /\ ~snapFailed' => ~snapFailed /\ PutBlob(n, Head(queue).edits)
      BY <2>3 DEF SnapshotNoteSettles
    <3>2. blob \in [Notes -> SUBSET Edits] /\ Head(queue).notes \subseteq Notes
      BY <3>1, QueueTyped DEF TypeInv, TypeOK, RoomShape, SnapshotNoteSettles, Task
    <3>3. ASSUME ~snapFailed', NEW m \in Head(queue).notes \ left'
          PROVE  m \in blobs' /\ blob'[m] = Head(queue).edits
      <4>1. pc = "snapNotes" BY <2>3 DEF SnapshotNoteSettles
      <4> QED BY <3>1, <3>2, <3>3, <4>1 DEF PutBlob
    <3> QED BY <3>1, <3>3
  <2>4. ~ReplaceSucceeds /\ ~ReplaceUnderSave /\ ~ReplaceFails
    BY <1>4 DEF ReplaceSucceeds, ReplaceUnderSave, ReplaceFails, Replacing, GoOn,
       SaveNote, SaveRoot
  <2> QED BY <1>4, <2>1, <2>2, <2>3, <2>4 DEF SnapshotStep
<1> QED BY <1>1, <1>2, <1>3, <1>4

\* So it always holds it.
LEMMA SnapshotInvariant == Spec => []SnapshotInv
<1>1. Init => SnapshotInv BY TypeInit DEF Init, SnapshotInv
<1>2. SnapshotInv /\ [Next]_vars => SnapshotInv' BY SnapshotInvStep
<1> QED BY <1>1, <1>2, PTL DEF Spec

\* A stored snapshot is whole: its root is stored after all of its notes, and
\* each has the bytes of the snapshot, with every fault and with undo.
THEOREM SnapshotsWhole == Spec => []SnapshotRootAfterNotes
<1>1. SnapshotInv => SnapshotRootAfterNotes
  BY DEF SnapshotInv, SnapshotHeld, SnapshotRootAfterNotes
<1> QED BY <1>1, SnapshotInvariant, PTL

----------------------------------------------------------------------------
(* One replacement at a time.  As long as none is asked for during another  *)
(* one, the room is blocked until the only replacement queued is over, so   *)
(* that no save begins behind its back.                                     *)

ReplacementInv ==
  /\ TypeInv
  /\ Replacing => Head(queue).kind = "replace"
  /\ Has(queue, "replace") => blocked
  /\ OneReplacement(queue)

\* The task behind a replacement, and what is behind that, are none.
LEMMA NoneBehind ==
  ASSUME TypeInv, OneReplacement(queue), queue # << >>, Head(queue).kind = "replace"
  PROVE  /\ OneReplacement(QueueAfterReplace) /\ ~Has(QueueAfterReplace, "replace")
         /\ QueueAfterReplace \in Seq(Task) /\ Has(queue, "replace")
<1>0. queue \in Seq(Task) BY DEF TypeInv, TypeOK
<1>1. /\ Behind(Tail(queue), "replace", {"save", "flush"})
      /\ ~Has(Tail(queue), "replace") /\ Tail(queue) \in Seq(Task)
  <2>1. "replace" \notin {"save", "flush"} OBVIOUS
  <2> QED BY <1>0, <2>1, BehindTail, QueueTyped DEF OneReplacement
<1>2. Has(queue, "replace") BY <1>0, HasTail
<1>3. CASE ~NextIsSkipped BY <1>1, <1>2, <1>3 DEF QueueAfterReplace, OneReplacement
<1>4. CASE NextIsSkipped
  <2>1. Tail(queue) # << >> /\ QueueAfterReplace = Tail(Tail(queue))
    BY <1>0, <1>4, QueueTyped DEF NextIsSkipped, NextIsSave, QueueAfterReplace
  <2>2. /\ Behind(Tail(Tail(queue)), "replace", {"save", "flush"})
        /\ ~Has(Tail(Tail(queue)), "replace") /\ Tail(Tail(queue)) \in Seq(Task)
    BY <1>1, <2>1, BehindTail, HasTail, QueueTyped
  <2> QED BY <1>2, <2>1, <2>2 DEF OneReplacement
<1> QED BY <1>3, <1>4

\* No save is at work, or comes to work, during a replacement.
LEMMA NoSaveUnder == ReplacementInv => ~ReplaceUnderSave
<1> SUFFICES ASSUME ReplacementInv, ReplaceUnderSave PROVE FALSE
  OBVIOUS
<1>1. queue \in Seq(Task) /\ queue # << >> /\ Head(queue).kind = "replace" /\ ~blocked
  BY DEF ReplacementInv, ReplaceUnderSave, NextSaves, TypeInv, TypeOK, RoomShape,
     Replacing
<1>2. Has(queue, "replace") BY <1>1, HasTail
<1> QED BY <1>1, <1>2 DEF ReplacementInv

\* A step that leaves the queue alone.
LEMMA ReplacementKept ==
  ASSUME ReplacementInv, TypeInv', queue' = queue,
         blocked' = blocked \/ ~Has(queue, "replace"),
         Replacing' => Replacing \/ Running({"replace"})
  PROVE  ReplacementInv'
BY DEF ReplacementInv, OneReplacement, Behind, Has, Running

\* A step that queues a task.
LEMMA ReplacementGrows ==
  ASSUME ReplacementInv, TypeInv', NEW t \in Task, queue' = Append(queue, t), pc' = pc,
         blocked' = blocked \/ blocked', t.kind = "replace" => ~blocked /\ blocked'
  PROVE  ReplacementInv'
<1>1. queue \in Seq(Task) /\ (pc # "idle" => queue # << >>)
  BY DEF ReplacementInv, TypeInv, TypeOK, RoomShape
<1>2. /\ Has(queue', "replace") <=> Has(queue, "replace") \/ t.kind = "replace"
      /\ queue # << >> => Head(queue') = Head(queue)
  BY <1>1, HasAppend
<1>3. OneReplacement(queue')
  <2>1. Has(queue, "replace") => t.kind \in {"save", "flush"}
    BY DEF ReplacementInv, Task
  <2> QED BY <1>1, <2>1, BehindAppend DEF ReplacementInv, OneReplacement
<1> QED BY <1>1, <1>2, <1>3 DEF ReplacementInv, Replacing

\* A step that ends a task that is no replacement.
LEMMA ReplacementShrinks ==
  ASSUME ReplacementInv, TypeInv', queue # << >>, queue' = Tail(queue),
         blocked' = blocked, pc' = "idle"
  PROVE  ReplacementInv'
<1>1. queue \in Seq(Task) BY DEF ReplacementInv, TypeInv, TypeOK
<1>2. Has(queue', "replace") => Has(queue, "replace") BY <1>1, HasTail
<1>3. OneReplacement(queue') BY <1>1, BehindTail DEF ReplacementInv, OneReplacement
<1> QED BY <1>2, <1>3 DEF ReplacementInv, Replacing

\* Every step keeps it so.
LEMMA ReplacementInvStep ==
  ASSUME ~Overlap, ReplacementInv, [Next]_vars
  PROVE  ReplacementInv'
<1>0. /\ TypeInv /\ TypeInv' /\ queue \in Seq(Task) /\ (pc # "idle" => queue # << >>)
  BY TypeStep DEF ReplacementInv, TypeInv, TypeOK, RoomShape
<1> USE <1>0, TasksTyped DEF Replacing
<1>1. CASE UNCHANGED vars BY <1>1, ReplacementKept DEF vars
<1>2. CASE RoomStep
  <2>1. CASE Close BY <2>1, ReplacementGrows DEF Close, FlushTask
  <2>2. CASE Crash
    <3>1. OneReplacement(<< >>) BY EmptySeq DEF OneReplacement, Behind
    <3> QED BY <2>2, <3>1, HasEmpty DEF Crash, EmptyRoom, ReplacementInv
  <2>3. CASE SnapshotRejected
    BY <2>3, ReplacementKept DEF SnapshotRejected, ReplacementInv
  <2>4. CASE ~Close /\ ~Crash /\ ~SnapshotRejected
    BY <1>2, <2>4, ReplacementKept
       DEF RoomStep, OpenRoom, Destroy, EmptyRoom, LoadNote, NoteLoaded, Attach,
           WorkspaceSocketsLeave
  <2> QED BY <2>1, <2>2, <2>3, <2>4
<1>3. CASE ClientStep
  <2>1. PICK e \in Edits :
          \/ EditRoot(e)
          \/ \E n \in Notes :
               EditNote(n, e) \/ RemoveNote(n, e) \/ ReplaceNoteDoc(n, e)
                 \/ CreateNote(n, e)
          \/ \E notes \in SUBSET Notes : ReplaceDocument(notes, e)
    BY <1>3 DEF ClientStep
  <2>2. ASSUME NEW notes \in SUBSET Notes, ReplaceDocument(notes, e)
        PROVE  ReplacementInv'
    BY <2>2, ReplacementGrows DEF ReplaceDocument
  <2>3. ASSUME EditRoot(e)
                 \/ \E n \in Notes :
                      EditNote(n, e) \/ RemoveNote(n, e) \/ ReplaceNoteDoc(n, e)
                        \/ CreateNote(n, e)
        PROVE  ReplacementInv'
    BY <2>3, ReplacementKept
       DEF EditRoot, EditNote, RemoveNote, ReplaceNoteDoc, CreateNote, ChangeRoot
  <2> QED BY <2>1, <2>2, <2>3
<1>4. CASE SaveTimerFires BY <1>4, ReplacementGrows DEF SaveTimerFires, SaveTask
<1>5. CASE SaveStep
  <2>1. ASSUME SkipSave \/ BeginSaveThrows \/ FinishSave
                 \/ \E w \in writes : RootNotPersistable(w)
        PROVE  ReplacementInv'
    BY <2>1, ReplacementShrinks
       DEF SkipSave, BeginSaveThrows, FinishSave, RootNotPersistable, SaveFails, Running
  <2>2. ASSUME BeginSave \/ RootSaved \/ (\E w \in writes : NoteSaved(w))
                 \/ \E n \in Notes : DeleteBlob(n)
        PROVE  ReplacementInv'
    BY <2>2, ReplacementKept
       DEF BeginSave, RootSaved, NoteSaved, DeleteBlob, GoOn, SaveNote, SaveRoot
  <2> QED BY <1>5, <2>1, <2>2 DEF SaveStep
<1>6. CASE SnapshotStep
  <2>1. ASSUME ReplaceSucceeds \/ ReplaceFails
        PROVE  ReplacementInv'
    <3>1. queue # << >> /\ Head(queue).kind = "replace" /\ OneReplacement(queue)
      BY <2>1 DEF ReplaceSucceeds, ReplaceFails, ReplacementInv
    <3>2. /\ OneReplacement(QueueAfterReplace) /\ ~Has(QueueAfterReplace, "replace")
          /\ QueueAfterReplace \in Seq(Task)
      BY <3>1, NoneBehind
    <3>3. /\ OneReplacement(Append(QueueAfterReplace, FlushTask))
          /\ ~Has(Append(QueueAfterReplace, FlushTask), "replace")
      BY <3>2, BehindAppend, HasAppend DEF OneReplacement, FlushTask
    <3>4. /\ queue' \in {QueueAfterReplace, Append(QueueAfterReplace, FlushTask)}
          /\ pc' = "idle"
      BY <2>1 DEF ReplaceSucceeds, TakeOver, ReplaceFails
    <3> QED BY <3>2, <3>3, <3>4 DEF ReplacementInv
  <2>2. ~ReplaceUnderSave BY NoSaveUnder
  <2>3. ASSUME BeginSnapshot \/ SaveSnapshotRoot
                 \/ \E n \in Notes : SnapshotNoteSettles(n)
        PROVE  ReplacementInv'
    BY <2>3, ReplacementKept DEF BeginSnapshot, SaveSnapshotRoot, SnapshotNoteSettles
  <2> QED BY <1>6, <2>1, <2>2, <2>3 DEF SnapshotStep
<1>7. CASE FaultStep
  BY <1>7, ReplacementShrinks
     DEF FaultStep, SaveRootFails, SaveNoteFails, DeleteNoteFails, SaveFails
<1> QED BY <1>1, <1>2, <1>3, <1>4, <1>5, <1>6, <1>7 DEF Next

\* The empty queue holds no replacement.
LEMMA ReplacementInit == Init => ReplacementInv
<1>1. OneReplacement(<< >>) BY EmptySeq DEF OneReplacement, Behind
<1> QED BY <1>1, HasEmpty, TypeInit DEF Init, ReplacementInv, Replacing

----------------------------------------------------------------------------
(* What a save relies on.  The invariant below holds as long as clients do *)
(* not attach a note id twice, the stores of a snapshot succeed and no     *)
(* replacement is asked for during another one: with any of these the room *)
(* loses track (see the README).                                           *)

\* A workspace without a room has nothing queued, dirty or running.
ColdRoom ==
  /\ status \in {"cold", "replacing"} =>
       /\ ~rootDirty /\ dirtyNoteIds = {} /\ deletedNoteIds = {}
       /\ ~saveTimer /\ doc = NoDocs /\ ~Saving
  /\ status = "cold" => queue = << >> /\ pc = "idle"

\* The variables of the running save fit the place it is at.
SaveShape ==
  /\ \A w \in writes : pc = "notes" /\ w.note \in left
  /\ pc = "notes" => left \subseteq batch
  /\ pc = "root" => withRoot
  /\ deletes # {} => Saving /\ withRoot

\* An id that is in use somewhere was attached at some time.
UsedTask == {t \in Task : t.notes \subseteq used}

UsedIds ==
  /\ root.notes \subseteq used /\ storedRoot.notes \subseteq used
  /\ rootImage.notes \subseteq used /\ blobs \subseteq used
  /\ dirtyNoteIds \subseteq used /\ batch \subseteq used
  /\ left \subseteq used
  /\ deletedNoteIds \subseteq used /\ deletes \subseteq used
  /\ queue \in Seq(UsedTask)

\* A note queued for saving is loaded while it is attached, one queued for
\* deletion is detached from the room, and from the root that is stored first.
QueuedNotes ==
  /\ dirtyNoteIds \intersect root.notes \subseteq loaded
  /\ pc \in {"notes", "root"} => batch \intersect root.notes \subseteq loaded
  /\ (deletedNoteIds \union deletes) \intersect root.notes = {}
  /\ pc = "root" => deletes \intersect rootImage.notes = {}
  /\ pc = "deletes" => deletes \intersect storedRoot.notes = {}

\* A note that is not loaded has an empty doc, no workspace socket sees it, and
\* a load of it in flight brings what its blob holds.
LoadedNotes ==
  /\ \A n \in Notes \ loaded : doc[n] = {}
  /\ clients = "workspace" => root.notes \subseteq loaded
  /\ ~Replacing =>
       \A l \in loads : /\ l.note \notin loaded /\ l.note \in blobs
                        /\ l.edits = blob[l.note]

\* A loaded doc holds what its blob holds; so does the write in flight, which
\* is up to date or will be followed by another.
StoredEdits ==
  /\ ~Replacing => \A n \in loaded \intersect blobs : blob[n] \subseteq doc[n]
  /\ \A w \in writes :
       /\ w.note \in blobs => blob[w.note] \subseteq w.edits
       /\ w.note \in loaded => /\ w.edits \subseteq doc[w.note]
                               /\ w.edits = doc[w.note] \/ w.note \in dirtyNoteIds

\* RootTracked, where the root being stored counts only if nothing changed since.
RootFollowed ==
  status \in {"live", "closing", "flushed"} =>
    IF pc = "root"
      THEN rootDirty \/ rootImage = root
      ELSE storedRoot = root \/ rootDirty \/ Replacing \/ (pc = "notes" /\ withRoot)

SaveInv ==
  /\ TypeInv /\ ColdRoom /\ SaveShape /\ UsedIds /\ QueuedNotes /\ LoadedNotes
  /\ StoredEdits /\ EditsTracked /\ RootFollowed

\* What the queue of a step is made of.
LEMMA UsedQueue ==
  ASSUME queue \in Seq(UsedTask), used \subseteq used'
  PROVE  /\ queue \in Seq(UsedTask')
         /\ \A t \in UsedTask' : Append(queue, t) \in Seq(UsedTask')
         /\ queue # << >> => /\ Head(queue).notes \subseteq used
                             /\ Tail(queue) \in Seq(UsedTask')
                             /\ QueueAfterReplace \in Seq(UsedTask')
         /\ << >> \in Seq(UsedTask')
         /\ SaveTask \in UsedTask' /\ FlushTask \in UsedTask'
<1>1. UsedTask \subseteq UsedTask' BY DEF UsedTask
<1>2. queue \in Seq(UsedTask') BY <1>1, SeqMonotonic
<1>3. \A t \in UsedTask' : Append(queue, t) \in Seq(UsedTask')
  BY <1>2, SeqTyped
<1>4. ASSUME queue # << >>
      PROVE  /\ Head(queue).notes \subseteq used
             /\ Tail(queue) \in Seq(UsedTask')
             /\ QueueAfterReplace \in Seq(UsedTask')
  <2>1. Head(queue) \in UsedTask BY <1>4, SeqTyped
  <2>2. Tail(queue) \in Seq(UsedTask') BY <1>2, <1>4, SeqTyped
  <2>3. Len(queue) > 1 => Tail(Tail(queue)) \in Seq(UsedTask') BY <1>2, SeqTyped
  <2> QED BY <2>1, <2>2, <2>3 DEF UsedTask, QueueAfterReplace, NextIsSkipped, NextIsSave
<1>5. << >> \in Seq(UsedTask') BY EmptySeq
<1>6. SaveTask \in UsedTask' /\ FlushTask \in UsedTask'
  BY TasksTyped DEF UsedTask, SaveTask, FlushTask
<1> QED BY <1>2, <1>3, <1>4, <1>5, <1>6

\* SaveInv, at the start.
LEMMA SaveInit == Init => SaveInv
<1> SUFFICES ASSUME Init PROVE SaveInv
  OBVIOUS
<1>1. << >> \in Seq(UsedTask) BY EmptySeq
<1> QED
  BY <1>1, TypeInit
     DEF Init, SaveInv, ColdRoom, SaveShape, UsedIds, QueuedNotes, LoadedNotes,
         StoredEdits, EditsTracked, RootFollowed, Saving, Replacing, EmptyRoot,
         NoDocs

\* SaveInv after Room.
LEMMA SaveRoomStep == SaveInv /\ RoomStep => SaveInv'
<1> SUFFICES ASSUME SaveInv, RoomStep PROVE SaveInv'
  OBVIOUS
<1>q. used \subseteq used' /\ queue' \in Seq(UsedTask')
  <2>1. used' = used
    BY DEF RoomStep, OpenRoom, Close, Destroy, Crash, LoadNote, NoteLoaded,
           Attach, WorkspaceSocketsLeave, SnapshotRejected, ids, EmptyRoom
  <2>2. queue' = queue \/ queue' = << >> \/ queue' = Append(queue, FlushTask)
    BY DEF RoomStep, OpenRoom, Close, Destroy, Crash, LoadNote, NoteLoaded,
           Attach, WorkspaceSocketsLeave, SnapshotRejected
  <2>3. queue \in Seq(UsedTask) /\ used \subseteq used'
    BY <2>1 DEF SaveInv, UsedIds
  <2> QED BY <2>2, <2>3, UsedQueue, Zenon
<1> USE DEF SaveInv, ColdRoom, SaveShape, UsedIds, QueuedNotes, LoadedNotes,
            StoredEdits, EditsTracked, RootFollowed, Saving, Replacing, TypeOK,
            RoomShape, memory, dirt, timer, save, store, ids
<1>0. TypeInv /\ TypeInv' BY TypeRoomStep
<1> USE DEF TypeInv
<1>1. CASE OpenRoom BY <1>0, <1>q, <1>1 DEF OpenRoom
<1>2. CASE Close BY <1>0, <1>q, <1>2 DEF Close
<1>3. CASE Destroy
  BY <1>0, <1>q, <1>3 DEF Destroy, EmptyRoom, EmptyRoot, NoDocs
<1>4. CASE Crash BY <1>0, <1>q, <1>4 DEF Crash, EmptyRoom, EmptyRoot, NoDocs
<1>5. ASSUME NEW n \in Notes, LoadNote(n) PROVE SaveInv'
  BY <1>0, <1>q, <1>5 DEF LoadNote, NoteBytes
<1>6. ASSUME NEW l \in loads, NoteLoaded(l) PROVE SaveInv'
  <2>1. l.note \in root.notes /\ l.note \in Notes BY <1>0 DEF NoteBytes
  <2>2. ~Replacing => /\ l.note \notin loaded /\ l.note \in blobs
                      /\ l.edits = blob[l.note] /\ doc[l.note] = {}
    BY <2>1
  <2>3. ~Replacing => \A w \in writes : w.note # l.note
    BY <2>1, <2>2
  <2>4. ~Replacing => \A m \in loads' : m.note # l.note
    BY <1>6, <2>2 DEF NoteLoaded, NoteBytes
  <2>5. doc' \in [Notes -> SUBSET Edits] /\ \A n \in Notes \ {l.note} : doc'[n] = doc[n]
    BY <1>0, <1>6, <2>1 DEF NoteLoaded
  <2>6. LoadedNotes' BY <1>0, <1>6, <2>1, <2>2, <2>4, <2>5 DEF NoteLoaded
  <2>7. StoredEdits' BY <1>0, <1>6, <2>1, <2>2, <2>3, <2>5 DEF NoteLoaded
  <2>8. EditsTracked'
    <3>1. doc'[l.note] = doc[l.note] \union l.edits
      BY <1>0, <1>6, <2>1 DEF NoteLoaded
    <3>2. \A s : {} \union s = s OBVIOUS
    <3>3. ~Replacing => doc'[l.note] = blob[l.note] BY <2>2, <3>1, <3>2
    <3>4. /\ loaded' = loaded \union {l.note}
          /\ UNCHANGED <<pc, blobs, blob, dirtyNoteIds, left>>
      BY <1>6 DEF NoteLoaded
    <3>5. loaded \subseteq Notes BY <1>0 DEF RootDoc
    <3> QED BY <2>2, <2>5, <3>3, <3>4, <3>5
  <2> QED BY <1>0, <1>q, <1>6, <2>6, <2>7, <2>8 DEF NoteLoaded
<1>7. ASSUME NEW kind \in {"note", "workspace"}, Attach(kind) PROVE SaveInv'
  BY <1>0, <1>q, <1>7 DEF Attach
<1>8. CASE WorkspaceSocketsLeave BY <1>0, <1>q, <1>8 DEF WorkspaceSocketsLeave
<1>9. CASE SnapshotRejected BY <1>0, <1>q, <1>9 DEF SnapshotRejected
<1> QED BY <1>1, <1>2, <1>3, <1>4, <1>5, <1>6, <1>7, <1>8, <1>9 DEF RoomStep

\* SaveInv after Client.
LEMMA SaveClientStep ==
  ASSUME ~UndoRestore, SaveInv, ClientStep
  PROVE  SaveInv'
<1> PICK e \in Edits :
      \/ EditRoot(e)
      \/ \E n \in Notes :
           EditNote(n, e) \/ RemoveNote(n, e) \/ ReplaceNoteDoc(n, e)
             \/ CreateNote(n, e)
      \/ \E notes \in SUBSET Notes : ReplaceDocument(notes, e)
  BY DEF ClientStep
<1>0. TypeInv /\ TypeInv' BY TypeClientStep DEF SaveInv
<1>u. queue \in Seq(UsedTask) BY DEF SaveInv, UsedIds
<1>q. ASSUME queue' = queue, used \subseteq used' PROVE queue' \in Seq(UsedTask')
  BY <1>u, <1>q, UsedQueue, Zenon
<1> USE DEF SaveInv, ColdRoom, SaveShape, UsedIds, QueuedNotes, LoadedNotes,
            StoredEdits, EditsTracked, RootFollowed, Saving, Replacing, TypeOK,
            RoomShape, memory, dirt, timer, save, store, ids, ChangeRoot, Accepting,
            ScheduleSave, TypeInv
<1>1. CASE EditRoot(e) BY <1>0, <1>q, <1>1 DEF EditRoot
<1>2. ASSUME NEW n \in Notes, EditNote(n, e) PROVE SaveInv'
  BY <1>0, <1>q, <1>2 DEF EditNote
<1>3. ASSUME NEW n \in Notes, RemoveNote(n, e) PROVE SaveInv'
  BY <1>0, <1>q, <1>3 DEF RemoveNote, ForgetNote
<1>4. ASSUME NEW n \in Notes, ReplaceNoteDoc(n, e) PROVE SaveInv'
  BY <1>4 DEF ReplaceNoteDoc
<1>5. ASSUME NEW n \in Notes, CreateNote(n, e) PROVE SaveInv'
  BY <1>0, <1>q, <1>5 DEF CreateNote
<1>6. ASSUME NEW notes \in SUBSET Notes, ReplaceDocument(notes, e)
      PROVE  SaveInv'
  <2>1. ReplaceTask(notes, e) \in UsedTask'
    BY <1>6, TasksTyped DEF ReplaceDocument, UsedTask, ReplaceTask
  <2>2. queue' \in Seq(UsedTask')
    <3>1. used \subseteq used' BY <1>6 DEF ReplaceDocument
    <3>2. queue' = Append(queue, ReplaceTask(notes, e))
      BY <1>6 DEF ReplaceDocument
    <3> QED BY <1>u, <2>1, <3>1, <3>2, UsedQueue, Zenon
  <2> QED BY <1>0, <1>6, <2>2 DEF ReplaceDocument
<1> QED BY <1>1, <1>2, <1>3, <1>4, <1>5, <1>6

\* What a save may find when it goes on: the notes it still has to save are of
\* its batch, and those of them that are attached are loaded.
LEMMA GoOnFacts ==
  ASSUME SaveInv, ~Replacing, NEW remaining \in SUBSET Notes, NEW r \in BOOLEAN,
         remaining \intersect root.notes \subseteq loaded,
         GoOn(remaining, r)
  PROVE  /\ left' \subseteq remaining
         /\ remaining \intersect root.notes \subseteq left'
         /\ \A w \in writes' :
              /\ pc' = "notes" /\ w.note \in left' \intersect loaded
              /\ w.edits = doc[w.note]
              /\ w.note \in blobs => blob[w.note] \subseteq w.edits
         /\ pc' # "notes" => remaining \intersect root.notes = {}
         /\ \/ pc' = "notes" /\ rootImage' = rootImage
            \/ pc' = "root" /\ r /\ rootImage' = root
            \/ pc' = "deletes" /\ ~r /\ rootImage' = rootImage
<1> USE DEF SaveInv, StoredEdits, TypeInv, TypeOK
<1>1. CASE \E n \in Notes : SaveNote(n, remaining)
  BY <1>1 DEF SaveNote
<1>2. CASE /\ remaining \intersect root.notes = {}
           /\ left' = {} /\ writes' = {}
           /\ \/ r /\ SaveRoot
              \/ ~r /\ pc' = "deletes" /\ UNCHANGED rootImage
  BY <1>2 DEF SaveRoot
<1> QED BY <1>1, <1>2 DEF GoOn

\* SaveInv after Task.
LEMMA SaveTaskStep ==
  ASSUME SaveInv, SaveStep
  PROVE  SaveInv'
<1>0. TypeInv /\ TypeInv' BY TypeSaveStep DEF SaveInv
<1>u. /\ used' = used /\ queue \in Seq(UsedTask) /\ queue # << >>
      /\ queue' = queue \/ queue' = Tail(queue)
  BY <1>0
     DEF SaveInv, UsedIds, SaveStep, SkipSave, BeginSave, BeginSaveThrows,
         RootSaved, FinishSave, NoteSaved, RootNotPersistable, DeleteBlob,
         SaveFails, Running, ids, TypeInv, RoomShape
<1>q. queue' \in Seq(UsedTask')
  <2>1. used \subseteq used' BY <1>u
  <2> QED BY <1>u, <2>1, UsedQueue, Zenon
<1> USE DEF SaveInv, ColdRoom, SaveShape, UsedIds, QueuedNotes, LoadedNotes,
            StoredEdits, EditsTracked, RootFollowed, Saving, Replacing, TypeOK,
            RoomShape, memory, dirt, timer, save, store, ids, Running, StatusAfter,
            StatusAfterFailure, TypeInv
<1>1. CASE SkipSave BY <1>0, <1>u, <1>q, <1>1 DEF SkipSave
<1>2. CASE BeginSave
  <2>1. /\ left' \subseteq NoteIdsToSave
        /\ NoteIdsToSave \intersect root.notes \subseteq left'
        /\ \A w \in writes' :
             /\ pc' = "notes" /\ w.note \in left' \intersect loaded
             /\ w.edits = doc[w.note]
             /\ w.note \in blobs => blob[w.note] \subseteq w.edits
        /\ pc' # "notes" => NoteIdsToSave \intersect root.notes = {}
        /\ \/ pc' = "notes" /\ rootImage' = rootImage
           \/ pc' = "root" /\ RootShouldSave /\ rootImage' = root
           \/ pc' = "deletes" /\ ~RootShouldSave /\ rootImage' = rootImage
    <3> HIDE DEF SaveInv, Replacing
    <3>1. NoteIdsToSave \in SUBSET Notes /\ RootShouldSave \in BOOLEAN
      BY <1>0 DEF NoteIdsToSave, RootShouldSave
    <3>2. NoteIdsToSave \intersect root.notes \subseteq loaded /\ ~Replacing
      BY <1>2 DEF NoteIdsToSave, SaveInv, Replacing, BeginSave
    <3>3. GoOn(NoteIdsToSave, RootShouldSave) BY <1>2 DEF BeginSave
    <3> QED BY <3>1, <3>2, <3>3, GoOnFacts
  <2> USE <1>0, <1>u, <1>2, <2>1
      DEF BeginSave, Dirty, NoteIdsToSave, RootShouldSave
  <2>2. ColdRoom' /\ SaveShape' OBVIOUS
  <2>3. UsedIds' BY <1>q
  <2>4. QueuedNotes' OBVIOUS
  <2>5. LoadedNotes' OBVIOUS
  <2>6. StoredEdits' OBVIOUS
  <2>7. EditsTracked' OBVIOUS
  <2>8. RootFollowed' OBVIOUS
  <2> QED BY <2>2, <2>3, <2>4, <2>5, <2>6, <2>7, <2>8
<1>3. CASE BeginSaveThrows
  BY <1>0, <1>u, <1>q, <1>3 DEF BeginSaveThrows, NoteIdsToSave, RootShouldSave,
     SaveThrows
<1>4. CASE RootSaved BY <1>0, <1>u, <1>q, <1>4 DEF RootSaved
<1>5. CASE FinishSave BY <1>0, <1>u, <1>q, <1>5 DEF FinishSave, Dirty
<1>6. ASSUME NEW w \in writes, NoteSaved(w) PROVE SaveInv'
  <2>1. /\ left' \subseteq left \ {w.note}
        /\ (left \ {w.note}) \intersect root.notes \subseteq left'
        /\ \A v \in writes' :
             /\ pc' = "notes" /\ v.note \in left' \intersect loaded
             /\ v.edits = doc[v.note]
             /\ v.note \in blobs => blob[v.note] \subseteq v.edits
        /\ pc' # "notes" => (left \ {w.note}) \intersect root.notes = {}
        /\ \/ pc' = "notes" /\ rootImage' = rootImage
           \/ pc' = "root" /\ withRoot /\ rootImage' = root
           \/ pc' = "deletes" /\ ~withRoot /\ rootImage' = rootImage
    <3> HIDE DEF SaveInv, Replacing
    <3>1. left \ {w.note} \in SUBSET Notes /\ withRoot \in BOOLEAN
      BY <1>0
    <3>2. (left \ {w.note}) \intersect root.notes \subseteq loaded /\ ~Replacing
      BY <1>6 DEF NoteSaved, SaveInv, Replacing
    <3>3. GoOn(left \ {w.note}, withRoot) BY <1>6 DEF NoteSaved
    <3> QED BY <3>1, <3>2, <3>3, GoOnFacts
  <2> USE <1>0, <1>u, <1>6, <2>1 DEF NoteSaved, PutBlob, NoteBytes
  <2>2. ColdRoom' /\ SaveShape' OBVIOUS
  <2>3. UsedIds' BY <1>q
  <2>4. QueuedNotes' OBVIOUS
  <2>5. LoadedNotes' OBVIOUS
  <2>6. StoredEdits' OBVIOUS
  <2>7. EditsTracked' OBVIOUS
  <2>8. RootFollowed' OBVIOUS
  <2> QED BY <2>2, <2>3, <2>4, <2>5, <2>6, <2>7, <2>8
<1>7. ASSUME NEW w \in writes, RootNotPersistable(w) PROVE SaveInv'
  <2> USE <1>0, <1>u, <1>7
      DEF RootNotPersistable, SaveFails, SaveThrows, PutBlob, NoteBytes
  <2>2. ColdRoom' /\ SaveShape' OBVIOUS
  <2>3. UsedIds' BY <1>q
  <2>4. QueuedNotes' OBVIOUS
  <2>5. LoadedNotes' OBVIOUS
  <2>6. StoredEdits' OBVIOUS
  <2>7. EditsTracked' OBVIOUS
  <2>8. RootFollowed' OBVIOUS
  <2> QED BY <2>2, <2>3, <2>4, <2>5, <2>6, <2>7, <2>8
<1>8. ASSUME NEW n \in Notes, DeleteBlob(n) PROVE SaveInv'
  BY <1>0, <1>u, <1>q, <1>8 DEF DeleteBlob, RemoveBlob
<1> QED BY <1>1, <1>2, <1>3, <1>4, <1>5, <1>6, <1>7, <1>8 DEF SaveStep

\* SaveInv after Snapshot: the notes a replacement has stored are as the room
\* takes them over.
LEMMA SaveSnapshotStep ==
  ASSUME "snapshot" \notin Faults, ReplacementInv, SnapshotInv, SaveInv, SnapshotStep
  PROVE  SaveInv'
<1>0. TypeInv /\ TypeInv' BY TypeSnapshotStep DEF SaveInv
<1>r. ~ReplaceUnderSave BY NoSaveUnder
<1>u. /\ used' = used /\ queue \in Seq(UsedTask) /\ queue # << >>
      /\ Head(queue).notes \subseteq used
  <2>1. used' = used /\ queue # << >>
    BY <1>0, <1>r
       DEF SnapshotStep, BeginSnapshot, SaveSnapshotRoot, ReplaceSucceeds, TakeOver,
           ReplaceFails, SnapshotNoteSettles, Running, ids, TypeInv, RoomShape
  <2>2. queue \in Seq(UsedTask) BY DEF SaveInv, UsedIds
  <2>3. Head(queue) \in UsedTask BY <2>1, <2>2, SeqTyped
  <2> QED BY <2>1, <2>2, <2>3 DEF UsedTask
<1>q. /\ queue \in Seq(UsedTask') /\ QueueAfterReplace \in Seq(UsedTask')
      /\ FlushTask \in UsedTask'
      /\ Append(QueueAfterReplace, FlushTask) \in Seq(UsedTask')
  <2>1. used \subseteq used' BY <1>u
  <2>2. /\ queue \in Seq(UsedTask') /\ QueueAfterReplace \in Seq(UsedTask')
        /\ FlushTask \in UsedTask'
    BY <1>u, <2>1, UsedQueue, Zenon
  <2> QED BY <2>2, SeqTyped
<1> USE DEF SaveInv, ColdRoom, SaveShape, UsedIds, QueuedNotes, LoadedNotes,
            StoredEdits, EditsTracked, RootFollowed, Saving, Replacing, TypeOK,
            RoomShape, memory, dirt, timer, save, store, ids, Running, TypeInv
<1>1. CASE BeginSnapshot BY <1>0, <1>u, <1>q, <1>1 DEF BeginSnapshot
<1>2. CASE SaveSnapshotRoot BY <1>0, <1>u, <1>q, <1>2 DEF SaveSnapshotRoot
<1>3. CASE ReplaceSucceeds
  <2>1. status' \notin {"cold", "replacing"}
    BY <1>0, <1>3 DEF ReplaceSucceeds, TakeOver, StatusAfterReplace, StatusAfter
  <2>2. queue' \in Seq(UsedTask') BY <1>q, <1>3 DEF ReplaceSucceeds, TakeOver
  <2>3. /\ \A n \in Notes : doc'[n] = IF n \in loaded' THEN rootImage.edits ELSE {}
        /\ loaded' = rootImage.notes /\ loads' = {} /\ root' = storedRoot'
        /\ root' = rootImage /\ clients' = "none" /\ pc' = "idle"
        /\ dirtyNoteIds' = {} /\ deletedNoteIds' = {} /\ ~rootDirty'
        /\ UNCHANGED <<blobs, blob, used, save>>
    BY <1>3 DEF ReplaceSucceeds, TakeOver
  <2>4. \A n \in loaded' : n \in Notes /\ n \in blobs /\ blob[n] = rootImage.edits
    <3>1. \A n \in rootImage.notes : n \in blobs /\ blob[n] = rootImage.edits
      BY <1>3 DEF ReplaceSucceeds, SnapshotInv, SnapshotHeld
    <3>2. rootImage.notes \subseteq Notes BY <1>0 DEF RootDoc
    <3> QED BY <2>3, <3>1, <3>2
  <2>5. writes = {} /\ deletes = {} BY <1>3 DEF ReplaceSucceeds
  <2> QED BY <1>0, <1>u, <2>1, <2>2, <2>3, <2>4, <2>5
<1>4. CASE ReplaceFails BY <1>4 DEF ReplaceFails
<1>5. ASSUME NEW n \in Notes, SnapshotNoteSettles(n) PROVE SaveInv'
  BY <1>0, <1>u, <1>q, <1>5 DEF SnapshotNoteSettles, PutBlob
<1> QED BY <1>r, <1>1, <1>2, <1>3, <1>4, <1>5 DEF SnapshotStep

\* SaveInv after Fault.
LEMMA SaveFaultStep ==
  ASSUME SaveInv, FaultStep
  PROVE  SaveInv'
<1>0. TypeInv /\ TypeInv' BY TypeFaultStep DEF SaveInv
<1>u. /\ used' = used /\ queue \in Seq(UsedTask) /\ queue # << >>
      /\ queue' = Tail(queue) /\ SaveFails
      /\ pc \in {"notes", "root", "deletes"}
  BY <1>0 DEF SaveInv, UsedIds, FaultStep, SaveRootFails, SaveNoteFails,
     DeleteNoteFails, SaveFails, ids, TypeInv, RoomShape
<1>q. queue' \in Seq(UsedTask')
  <2>1. used \subseteq used' BY <1>u
  <2> QED BY <1>u, <2>1, UsedQueue, Zenon
<1> USE DEF SaveInv, ColdRoom, SaveShape, UsedIds, QueuedNotes, LoadedNotes,
            StoredEdits, EditsTracked, RootFollowed, Saving, Replacing, TypeOK,
            RoomShape, memory, ids, StatusAfterFailure, TypeInv, SaveFails
<1>1. CASE SaveRootFails
  <2> USE <1>0, <1>u, <1>1 DEF SaveRootFails
  <2>1. storedRoot' \in {storedRoot, rootImage} /\ rootDirty' /\ pc' = "idle"
    OBVIOUS
  <2>2. ColdRoom' /\ SaveShape' OBVIOUS
  <2>3. UsedIds' BY <1>q, <2>1
  <2>4. QueuedNotes' OBVIOUS
  <2>5. LoadedNotes' /\ StoredEdits' /\ EditsTracked' OBVIOUS
  <2>6. RootFollowed' BY <2>1
  <2> QED BY <2>2, <2>3, <2>4, <2>5, <2>6
<1>2. ASSUME NEW w \in writes, SaveNoteFails(w) PROVE SaveInv'
  <2> USE <1>0, <1>u, <1>2 DEF SaveNoteFails, PutBlob, NoteBytes
  <2>2. ColdRoom' /\ SaveShape' OBVIOUS
  <2>3. UsedIds' BY <1>q
  <2>4. QueuedNotes' OBVIOUS
  <2>5. LoadedNotes' OBVIOUS
  <2>6. StoredEdits' OBVIOUS
  <2>7. EditsTracked' OBVIOUS
  <2>8. RootFollowed' OBVIOUS
  <2> QED BY <2>2, <2>3, <2>4, <2>5, <2>6, <2>7, <2>8
<1>3. ASSUME NEW n \in Notes, DeleteNoteFails(n) PROVE SaveInv'
  BY <1>0, <1>u, <1>q, <1>3 DEF DeleteNoteFails, RemoveBlob
<1> QED BY <1>1, <1>2, <1>3 DEF FaultStep

\* SaveInv, after every step.
LEMMA SaveInvStep ==
  ASSUME ~UndoRestore, "snapshot" \notin Faults, ReplacementInv, SnapshotInv, SaveInv,
         [Next]_vars
  PROVE  SaveInv'
<1>0. TypeInv /\ TypeInv' BY TypeStep DEF SaveInv
<1>1. CASE UNCHANGED vars
  <2>1. UsedTask' = UsedTask BY <1>1 DEF UsedTask, vars, ids
  <2> QED
    BY <1>0, <1>1, <2>1
       DEF SaveInv, ColdRoom, SaveShape, UsedIds, QueuedNotes, LoadedNotes,
           StoredEdits, EditsTracked, RootFollowed, Saving, Replacing, vars,
           memory, dirt, timer, save, store, ids
<1>2. CASE SaveTimerFires
  <2>1. used \subseteq used' /\ queue' = Append(queue, SaveTask)
    BY <1>2 DEF SaveTimerFires, ids
  <2>2. queue \in Seq(UsedTask) BY DEF SaveInv, UsedIds
  <2>3. queue' \in Seq(UsedTask') BY <2>1, <2>2, UsedQueue, Zenon
  <2> QED
    BY <1>0, <1>2, <2>3
       DEF SaveTimerFires, SaveInv, ColdRoom, SaveShape, UsedIds, QueuedNotes,
           LoadedNotes, StoredEdits, EditsTracked, RootFollowed, Saving,
           Replacing, memory, dirt, timer, save, store, ids
<1> QED BY <1>1, <1>2, SaveRoomStep, SaveClientStep, SaveTaskStep,
           SaveSnapshotStep, SaveFaultStep DEF Next

----------------------------------------------------------------------------
(* What follows from it.                                                   *)

\* So it always does.
LEMMA SaveInvariant ==
  ASSUME ~UndoRestore, ~Overlap, "snapshot" \notin Faults
  PROVE  Spec => [](SaveInv /\ ReplacementInv)
<1>1. ReplacementInv /\ [Next]_vars => ReplacementInv' BY ReplacementInvStep
<1>2. SnapshotInv /\ ReplacementInv /\ SaveInv /\ [Next]_vars => SaveInv' BY SaveInvStep
<1> QED BY <1>1, <1>2, SaveInit, ReplacementInit, SnapshotInvariant, PTL DEF Spec

\* No accepted edit of a loaded note is ever forgotten by the server, whatever
\* saves, loads, deletions and restarts interleave with it.
THEOREM NoForgottenEdit ==
  ASSUME ~UndoRestore, ~Overlap, "snapshot" \notin Faults
  PROVE  Spec => []EditsTracked
<1>1. SaveInv => EditsTracked BY DEF SaveInv
<1> QED BY <1>1, SaveInvariant, PTL

\* Nor is a change of the root.
THEOREM NoForgottenRootChange ==
  ASSUME ~UndoRestore, ~Overlap, "snapshot" \notin Faults
  PROVE  Spec => []RootTracked
<1>1. SaveInv => RootTracked
  BY DEF SaveInv, RootFollowed, RootTracked, Replacing
<1> QED BY <1>1, SaveInvariant, PTL

\* A blob goes only after a root without its note was stored.
THEOREM DeletionAfterRoot ==
  ASSUME ~UndoRestore, ~Overlap, "snapshot" \notin Faults
  PROVE  Spec => BlobsOutliveReferences
<1>1. ASSUME SaveInv, [Next]_vars
      PROVE  [\A n \in blobs \ blobs' : n \notin storedRoot'.notes]_vars
  <2> USE DEF memory, dirt, timer, save, store, ids
  <2>1. ASSUME NEW n \in Notes, DeleteBlob(n)
        PROVE  \A m \in blobs \ blobs' : m \notin storedRoot'.notes
    BY <1>1, <2>1 DEF DeleteBlob, RemoveBlob, SaveInv, QueuedNotes
  <2>2. ASSUME NEW n \in Notes, DeleteNoteFails(n)
        PROVE  \A m \in blobs \ blobs' : m \notin storedRoot'.notes
    BY <1>1, <2>2 DEF DeleteNoteFails, RemoveBlob, SaveInv, QueuedNotes
  <2>3. ASSUME RoomStep \/ ClientStep \/ SaveTimerFires
        PROVE  blobs' = blobs
    BY <2>3 DEF RoomStep, OpenRoom, Close, Destroy, Crash, LoadNote, NoteLoaded,
       Attach, WorkspaceSocketsLeave, SnapshotRejected, ClientStep, EditRoot, EditNote,
       RemoveNote, ReplaceNoteDoc, CreateNote, ReplaceDocument, ChangeRoot, SaveTimerFires
  <2>4. ASSUME SaveStep, \A n \in Notes : ~DeleteBlob(n)
        PROVE  blobs \subseteq blobs'
    BY <2>4 DEF SaveStep, SkipSave, BeginSave, BeginSaveThrows, RootSaved,
       FinishSave, NoteSaved, RootNotPersistable, PutBlob
  <2>5. ASSUME SnapshotStep
        PROVE  blobs \subseteq blobs'
    BY <2>5 DEF SnapshotStep, BeginSnapshot, SaveSnapshotRoot, ReplaceSucceeds,
       ReplaceUnderSave, TakeOver, ReplaceFails, SnapshotNoteSettles, PutBlob
  <2>6. ASSUME FaultStep, \A n \in Notes : ~DeleteNoteFails(n)
        PROVE  blobs \subseteq blobs'
    BY <2>6 DEF FaultStep, SaveRootFails, SaveNoteFails, PutBlob
  <2> QED BY <1>1, <2>1, <2>2, <2>3, <2>4, <2>5, <2>6 DEF Next, vars
<1> QED BY <1>1, SaveInvariant, PTL DEF Spec, BlobsOutliveReferences

\* Saving a note keeps every edit its blob holds.
THEOREM SavesKeepEdits ==
  ASSUME ~UndoRestore, ~Overlap, "snapshot" \notin Faults
  PROVE  Spec => DurableEditsKept
<1> DEFINE Kept == \A n \in blobs \intersect blobs' : blob[n] \subseteq blob'[n]
<1>1. ASSUME SaveInv, [Next]_vars
      PROVE  [~Replacing => Kept]_vars
  <2> USE DEF memory, dirt, timer, save, store, ids, SaveInv, TypeInv, TypeOK
  <2>1. ASSUME NEW w \in writes,
               NoteSaved(w) \/ RootNotPersistable(w) \/ SaveNoteFails(w)
        PROVE  Kept
    BY <1>1, <2>1 DEF NoteSaved, RootNotPersistable, SaveNoteFails, PutBlob,
       StoredEdits, NoteBytes
  <2>2. ASSUME NEW n \in Notes, DeleteBlob(n) \/ DeleteNoteFails(n)
        PROVE  Kept
    BY <1>1, <2>2 DEF DeleteBlob, DeleteNoteFails, RemoveBlob
  <2>3. ASSUME RoomStep \/ ClientStep \/ SaveTimerFires
        PROVE  blob' = blob
    BY <2>3 DEF RoomStep, OpenRoom, Close, Destroy, Crash, LoadNote, NoteLoaded,
       Attach, WorkspaceSocketsLeave, SnapshotRejected, ClientStep, EditRoot, EditNote,
       RemoveNote, ReplaceNoteDoc, CreateNote, ReplaceDocument, ChangeRoot, SaveTimerFires
  <2>4. ASSUME SkipSave \/ BeginSave \/ BeginSaveThrows \/ RootSaved
                 \/ FinishSave \/ SaveRootFails \/ BeginSnapshot
                 \/ SaveSnapshotRoot \/ ReplaceSucceeds \/ ReplaceUnderSave \/ ReplaceFails
        PROVE  blob' = blob
    BY <2>4 DEF SkipSave, BeginSave, BeginSaveThrows, RootSaved, FinishSave,
       SaveRootFails, BeginSnapshot, SaveSnapshotRoot, ReplaceSucceeds,
       ReplaceUnderSave, TakeOver, ReplaceFails
  <2>5. ASSUME NEW n \in Notes, SnapshotNoteSettles(n)
        PROVE  Replacing
    BY <2>5 DEF SnapshotNoteSettles, Replacing
  <2>6. blob' = blob => Kept OBVIOUS
  <2> QED BY <1>1, <2>1, <2>2, <2>3, <2>4, <2>5, <2>6
          DEF Next, SaveStep, SnapshotStep, FaultStep, vars
<1> QED BY <1>1, SaveInvariant, PTL DEF Spec, DurableEditsKept

=============================================================================
