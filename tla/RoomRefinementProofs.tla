------------------------ MODULE RoomRefinementProofs ------------------------
(***************************************************************************)
(* A room over its store implements a workspace: every step of             *)
(* RoomPersistence is a step of Workspace, or is not seen by a client.     *)
(***************************************************************************)
EXTENDS RoomRefinement, RoomFlushProofs, WellFoundedInduction

----------------------------------------------------------------------------
(* Induction on the naturals.                                              *)

Less == {p \in Nat \X Nat : p[1] < p[2]}

\* A set of numbers has a least one.
LEMMA LeastNat ==
  ASSUME NEW T \in SUBSET Nat, T # {}
  PROVE  \E m \in T : \A k \in T : m <= k
<1>1. IsWellFoundedOn(Less, Nat) BY NatLessThanWellFounded DEF OpToRel, Less
<1>2. \E m \in T : \A k \in T : <<k, m>> \notin Less BY <1>1, WFMin
<1>3. ASSUME NEW m \in Nat, NEW k \in Nat, <<k, m>> \notin Less PROVE m <= k
  BY <1>3 DEF Less
<1> QED BY <1>2, <1>3

\* What holds of the empty queue, and of a queue with a task more, holds of all.
LEMMA QueueInduction ==
  ASSUME NEW Good, << >> \in Good,
         \A q \in Seq(Task), t \in Task : q \in Good => Append(q, t) \in Good
  PROVE  Seq(Task) \subseteq Good
<1> DEFINE T == {n \in Nat : \E q \in Seq(Task) : Len(q) = n /\ q \notin Good}
<1> SUFFICES ASSUME T # {} PROVE FALSE
  BY LenProperties
<1>1. PICK m \in T : \A k \in T : m <= k 
  <2> HIDE DEF T
  <2>1. T \in SUBSET Nat BY DEF T
  <2> QED BY <2>1, LeastNat
<1>2. PICK q \in Seq(Task) : Len(q) = m /\ q \notin Good BY <1>1
<1>3. q # << >> BY <1>2
<1>4. PICK p \in Seq(Task), t \in Task : q = Append(p, t)
  BY <1>3, SequenceEmptyOrAppend
<1>5. Len(p) \in Nat /\ Len(q) = Len(p) + 1 BY <1>4, LenProperties, AppendProperties
<1>6. p \notin Good BY <1>2, <1>4
<1>7. Len(p) \in T BY <1>5, <1>6
<1> QED BY <1>1, <1>2, <1>5, <1>7

\* first of AskedIn.
Firsts(f, q) ==
  f = [i \in 0 .. Len(q) |-> IF i = 0 THEN << >> ELSE WithAsked(f[i - 1], q[i])]

\* A task more is a prefix more.
LEMMA FirstsAppend ==
  ASSUME NEW q \in Seq(Task), NEW t \in Task, NEW f, Firsts(f, q)
  PROVE  \E g : Firsts(g, Append(q, t))
<1> DEFINE r == Append(q, t)  
           g == [i \in 0 .. Len(q) + 1 |->
                   IF i <= Len(q) THEN f[i] ELSE WithAsked(f[Len(q)], t)]
<1>1. /\ Len(r) = Len(q) + 1 /\ Len(q) \in Nat
      /\ \A i \in 1 .. Len(q) : r[i] = q[i]
      /\ r[Len(q) + 1] = t
  BY AppendProperties, LenProperties
<1> HIDE DEF r
<1>2. ASSUME NEW i \in 0 .. Len(r)
      PROVE  g[i] = IF i = 0 THEN << >> ELSE WithAsked(g[i - 1], r[i])
  <2>1. CASE i = 0 BY <1>1, <2>1 DEF Firsts
  <2>2. CASE i \in 1 .. Len(q)
    <3>1. f[i] = WithAsked(f[i - 1], q[i]) BY <1>1, <2>2 DEF Firsts
    <3>2. g[i] = f[i] /\ g[i - 1] = f[i - 1] BY <1>1, <2>2
    <3> QED BY <1>1, <2>2, <3>1, <3>2
  <2>3. CASE i = Len(q) + 1 BY <1>1, <2>3
  <2> QED BY <1>1, <2>1, <2>2, <2>3
<1>3. g = [i \in 0 .. Len(r) |-> g[i]] BY <1>1
<1> HIDE DEF g
<1>4. g = [i \in 0 .. Len(r) |-> IF i = 0 THEN << >> ELSE WithAsked(g[i - 1], r[i])]
  BY <1>2, <1>3
<1>5. Firsts(g, r) BY <1>4 DEF Firsts
<1> QED BY <1>5 DEF r

\* Every queue has its prefixes.
LEMMA FirstsExist == \A q \in Seq(Task) : \E f : Firsts(f, q)
<1> DEFINE Good == {q \in Seq(Task) : \E f : Firsts(f, q)}
<1>1. << >> \in Good
  <2> DEFINE f == [i \in 0 .. 0 |-> << >>]
  <2>1. Len(<< >>) = 0 /\ << >> \in Seq(Task) BY EmptySeq
  <2>2. f = [i \in 0 .. 0 |-> IF i = 0 THEN << >> ELSE WithAsked(f[i - 1], << >>[i])]
    OBVIOUS
  <2>3. Firsts(f, << >>) BY <2>1, <2>2 DEF Firsts
  <2> QED BY <2>1, <2>3
<1>2. ASSUME NEW q \in Seq(Task), NEW t \in Task, q \in Good PROVE Append(q, t) \in Good
  BY <1>2, FirstsAppend, AppendProperties
<1> HIDE DEF Good
<1>3. Seq(Task) \subseteq Good BY <1>1, <1>2, QueueInduction
<1> QED BY <1>3 DEF Good

\* And no two ways of having them.
LEMMA FirstsUnique ==
  ASSUME NEW q \in Seq(Task), NEW r \in Seq(Task), NEW f, NEW g,
         Firsts(f, q), Firsts(g, r), Len(q) <= Len(r),
         \A i \in 1 .. Len(q) : q[i] = r[i]
  PROVE  f[Len(q)] = g[Len(q)]
<1> DEFINE T == {i \in 0 .. Len(q) : f[i] # g[i]}
<1>0. Len(q) \in Nat /\ Len(r) \in Nat BY LenProperties
<1> SUFFICES ASSUME T # {} PROVE FALSE
  BY <1>0
<1>1. PICK m \in T : \A k \in T : m <= k
  <2> HIDE DEF T
  <2>1. T \in SUBSET Nat BY <1>0 DEF T
  <2> QED BY <2>1, LeastNat
<1>2. CASE m = 0 BY <1>0, <1>1, <1>2 DEF Firsts
<1>3. CASE m # 0
  <2>1. m - 1 \in 0 .. Len(q) /\ m \in 1 .. Len(q) BY <1>0, <1>1, <1>3
  <2>2. f[m - 1] = g[m - 1] BY <1>1, <2>1
  <2>3. m \in 0 .. Len(q) /\ m \in 0 .. Len(r) /\ m \in 1 .. Len(q)
    BY <1>0, <2>1
  <2>4. f[m] = WithAsked(f[m - 1], q[m]) BY <1>3, <2>3 DEF Firsts
  <2>5. g[m] = WithAsked(g[m - 1], r[m]) BY <1>3, <2>3 DEF Firsts
  <2> QED BY <1>1, <2>2, <2>3, <2>4, <2>5
<1> QED BY <1>2, <1>3

\* AskedIn is the last of the prefixes.
LEMMA AskedInFirsts ==
  ASSUME NEW q \in Seq(Task)
  PROVE  \E f : Firsts(f, q) /\ AskedIn(q) = f[Len(q)]
<1> DEFINE f == CHOOSE f : Firsts(f, q)
<1>1. AskedIn(q) = f[Len(q)] BY DEF AskedIn, Firsts
<1>2. Firsts(f, q) BY FirstsExist
<1> QED BY <1>1, <1>2

\* A task more adds what it asks for.
LEMMA AskedInAppend ==
  ASSUME NEW q \in Seq(Task), NEW t \in Task
  PROVE  AskedIn(Append(q, t)) = WithAsked(AskedIn(q), t)
<1> DEFINE r == Append(q, t)
<1>1. /\ r \in Seq(Task) /\ Len(r) = Len(q) + 1 /\ Len(q) \in Nat
      /\ \A i \in 1 .. Len(q) : r[i] = q[i]
      /\ r[Len(q) + 1] = t
  BY AppendProperties, LenProperties
<1> HIDE DEF r
<1>2. PICK f : Firsts(f, q) /\ AskedIn(q) = f[Len(q)] BY AskedInFirsts
<1>3. PICK g : Firsts(g, r) /\ AskedIn(r) = g[Len(r)] BY <1>1, AskedInFirsts
<1>4. f[Len(q)] = g[Len(q)] BY <1>1, <1>2, <1>3, FirstsUnique
<1>5. g[Len(r)] = WithAsked(g[Len(q)], t) BY <1>1, <1>3 DEF Firsts
<1> QED BY <1>2, <1>3, <1>4, <1>5 DEF r

\* Nothing is asked for in an empty queue.
LEMMA AskedInEmpty == AskedIn(<< >>) = << >>
<1>1. << >> \in Seq(Task) /\ Len(<< >>) = 0 BY EmptySeq
<1>2. PICK f : Firsts(f, << >>) /\ AskedIn(<< >>) = f[Len(<< >>)] BY <1>1, AskedInFirsts
<1> QED BY <1>1, <1>2 DEF Firsts

AskedHead(q) ==
  /\ AskedIn(q) \in Seq(Clients!Snapshot)
  /\ q # << >> /\ Head(q).kind = "replace" =>
       /\ AskedIn(q) # << >>
       /\ Head(AskedIn(q)) = SnapshotOf(Head(q))
       /\ Tail(AskedIn(q)) = AskedIn(Tail(q))
  /\ q # << >> /\ Head(q).kind # "replace" => AskedIn(q) = AskedIn(Tail(q))

\* What the first task asks for comes first.
LEMMA AskedInHead == \A q \in Seq(Task) : AskedHead(q)
<1> DEFINE Good == {q \in Seq(Task) : AskedHead(q)}
<1>1. << >> \in Good
  <2>1. << >> \in Seq(Task) /\ << >> \in Seq(Clients!Snapshot) BY EmptySeq
  <2> QED BY <2>1, AskedInEmpty DEF AskedHead
<1>2. ASSUME NEW q \in Seq(Task), NEW t \in Task, q \in Good PROVE Append(q, t) \in Good
  <2> DEFINE r == Append(q, t)  a == AskedIn(q)  b == AskedIn(Tail(q))
             s == SnapshotOf(t)
  <2>1. /\ r \in Seq(Task) /\ r # << >>
        /\ Head(r) = IF q = << >> THEN t ELSE Head(q)
        /\ Tail(r) = IF q = << >> THEN << >> ELSE Append(Tail(q), t)
    BY AppendProperties, HeadTailAppend
  <2>2. AskedIn(r) = IF t.kind = "replace" THEN Append(a, s) ELSE a
    BY AskedInAppend DEF WithAsked
  <2>3. a \in Seq(Clients!Snapshot) /\ s \in Clients!Snapshot
    BY <1>2 DEF AskedHead, SnapshotOf, Task, Clients!Snapshot
  <2> HIDE DEF r, a, s
  <2>4. Append(a, s) \in Seq(Clients!Snapshot) /\ Append(a, s) # << >>
    BY <2>3, AppendProperties
  <2>5. /\ Head(Append(a, s)) = IF a = << >> THEN s ELSE Head(a)
        /\ Tail(Append(a, s)) = IF a = << >> THEN << >> ELSE Append(Tail(a), s)
    BY <2>3, HeadTailAppend
  <2>6. ASSUME q = << >> PROVE AskedHead(r)
    <3>1. a = << >> /\ AskedIn(Tail(r)) = << >> BY <2>1, <2>6, AskedInEmpty DEF a
    <3>2. Head(r) = t BY <2>1, <2>6
    <3> QED BY <2>1, <2>2, <2>3, <2>4, <2>5, <3>1, <3>2 DEF AskedHead, s
  <2>7. ASSUME q # << >> PROVE AskedHead(r)
    <3>1. Tail(q) \in Seq(Task) BY <2>7, HeadTailProperties
    <3>2. AskedIn(Tail(r)) = IF t.kind = "replace" THEN Append(b, s) ELSE b
      BY <2>1, <2>7, <3>1, AskedInAppend DEF WithAsked, s
    <3>3. /\ Head(q).kind = "replace" =>
               a # << >> /\ Head(a) = SnapshotOf(Head(q)) /\ Tail(a) = b
          /\ Head(q).kind # "replace" => a = b
      BY <1>2, <2>7 DEF AskedHead, a
    <3>4. Head(r) = Head(q) BY <2>1, <2>7
    <3> HIDE DEF b
    <3> DEFINE c == AskedIn(r)  d == AskedIn(Tail(r))
    <3>5. c \in Seq(Clients!Snapshot) BY <2>2, <2>3, <2>4
    <3>6. ASSUME Head(q).kind = "replace"
          PROVE  c # << >> /\ Head(c) = SnapshotOf(Head(q)) /\ Tail(c) = d
      <4> HIDE DEF c, d
      <4>1. CASE t.kind = "replace"
        <5>1. c = Append(a, s) /\ d = Append(b, s) BY <2>2, <3>2, <4>1 DEF c, d
        <5> QED BY <2>4, <2>5, <3>3, <3>6, <5>1
      <4>2. CASE t.kind # "replace"
        <5>1. c = a /\ d = b BY <2>2, <3>2, <4>2 DEF c, d
        <5> QED BY <3>3, <3>6, <5>1
      <4> QED BY <4>1, <4>2
    <3>7. Head(q).kind # "replace" => c = d BY <2>2, <3>2, <3>3
    <3> QED BY <2>1, <3>4, <3>5, <3>6, <3>7 DEF AskedHead
  <2> QED BY <2>1, <2>6, <2>7 DEF r
<1> HIDE DEF Good
<1>3. Seq(Task) \subseteq Good BY <1>1, <1>2, QueueInduction
<1> QED BY <1>3 DEF Good

\* What a step does to the replacements that are asked for.
LEMMA AskedOf ==
  ASSUME queue \in Seq(Task)
  PROVE  /\ queue' = queue => Asked' = Asked
         /\ \A t \in Task : queue' = Append(queue, t) => Asked' = WithAsked(Asked, t)
         /\ queue # << >> /\ Head(queue).kind \in {"save", "flush"}
              /\ queue' = Tail(queue) => Asked' = Asked
BY AskedInAppend, AskedInHead DEF Asked, AskedHead

\* A replacement that ends takes its own snapshot from those asked for.
LEMMA AskedAfterReplace ==
  ASSUME queue \in Seq(Task), queue # << >>, Head(queue).kind = "replace"
  PROVE  /\ QueueAfterReplace \in Seq(Task)
         /\ AskedIn(QueueAfterReplace) = Tail(Asked)
         /\ Asked # << >> /\ Head(Asked) = SnapshotOf(Head(queue))
<1>1. /\ AskedIn(Tail(queue)) = Tail(Asked) /\ Tail(queue) \in Seq(Task)
      /\ Asked # << >> /\ Head(Asked) = SnapshotOf(Head(queue))
  BY AskedInHead, QueueTyped DEF Asked, AskedHead
<1>2. CASE ~NextIsSkipped BY <1>1, <1>2 DEF QueueAfterReplace
<1>3. CASE NextIsSkipped
  <2>1. /\ Tail(queue) # << >> /\ queue[2] = Head(Tail(queue))
        /\ QueueAfterReplace = Tail(Tail(queue)) /\ queue[2].kind # "replace"
        /\ Tail(Tail(queue)) \in Seq(Task)
    BY <1>3, QueueTyped, SecondTask DEF NextIsSkipped, NextIsSave, QueueAfterReplace
  <2>2. AskedIn(Tail(queue)) = AskedIn(Tail(Tail(queue)))
    BY <1>1, <2>1, AskedInHead DEF AskedHead
  <2> QED BY <1>1, <2>1, <2>2
<1> QED BY <1>2, <1>3

----------------------------------------------------------------------------
(* What the clients see.                                                   *)

\* Clients see the same while the room has the same notes and texts.
LEMMA SameView ==
  ASSUME (Replacing' <=> Replacing),
         ~Replacing => /\ CurrentRoot' = CurrentRoot
                       /\ \A n \in Notes \intersect CurrentRoot.notes :
                            CurrentText(n)' = CurrentText(n)
  PROVE  ClientView' = ClientView
<1>1. CASE Replacing BY <1>1 DEF ClientView, NoDocs
<1>2. CASE ~Replacing
  <2>1. \A n \in Notes : CurrentText(n)' = CurrentText(n)
    <3> TAKE n \in Notes
    <3>1. CASE n \in CurrentRoot.notes BY <1>2, <3>1
    <3>2. CASE n \notin CurrentRoot.notes BY <1>2, <3>2 DEF CurrentText
    <3> QED BY <3>1, <3>2
  <2> QED BY <1>2, <2>1 DEF ClientView
<1> QED BY <1>1, <1>2

Unseen == UNCHANGED <<ClientView, Asked>>

\* Opening, loading and closing a room is not seen.
LEMMA RoomStepUnseen ==
  ASSUME "crash" \notin Faults, FlushInv, RoomStep
  PROVE  Unseen
<1>0. TypeInv /\ ColdRoom /\ LoadedNotes /\ queue \in Seq(Task)
  BY DEF FlushInv, SaveInv, TypeInv, TypeOK
<1> USE <1>0, AskedOf DEF Unseen, TypeInv, RoomShape, CurrentRoot, InMemory, CurrentText
<1>1. CASE OpenRoom
  BY <1>1, SameView DEF OpenRoom, Replacing, store
<1>2. CASE Close
  <2>1. Asked' = Asked BY <1>2, TasksTyped DEF Close, WithAsked, FlushTask
  <2>2. ClientView' = ClientView
    BY <1>2, SameView DEF Close, memory, store, Replacing
  <2> QED BY <2>1, <2>2
<1>3. CASE Destroy
  <2>1. /\ storedRoot = root /\ ~Replacing
        /\ \A n \in loaded : n \in blobs /\ blob[n] = doc[n]
    BY <1>3
       DEF Destroy, FlushInv, SaveInv, RootFollowed, EditsTracked, FlushedClean, Dirty,
           Replacing
  <2>2. ClientView' = ClientView
    BY <1>3, <2>1, SameView DEF Destroy, EmptyRoom, store, Replacing
  <2> QED BY <1>3, <2>2 DEF Destroy
<1>4. ~Crash BY DEF Crash
<1>5. ASSUME NEW n \in Notes, LoadNote(n) PROVE Unseen
  BY <1>5, SameView DEF LoadNote, memory, store, Replacing
<1>6. ASSUME NEW l \in loads, NoteLoaded(l) PROVE Unseen
  <2>1. /\ l.note \in root.notes /\ l.note \in Notes
        /\ status \notin {"cold", "replacing"}
        /\ doc \in [Notes -> SUBSET Edits]
    BY DEF TypeOK, NoteBytes
  <2>2. ~Replacing => doc'[l.note] = blob[l.note]
    <3>1. ASSUME ~Replacing
          PROVE  l.note \notin loaded /\ l.edits = blob[l.note] /\ doc[l.note] = {}
      BY <2>1, <3>1 DEF LoadedNotes
    <3>2. doc'[l.note] = doc[l.note] \union l.edits BY <1>6, <2>1 DEF NoteLoaded
    <3>3. \A s : {} \union s = s OBVIOUS
    <3> QED BY <3>1, <3>2, <3>3
  <2>3. \A n \in Notes \ {l.note} : doc'[n] = doc[n] BY <1>6, <2>1 DEF NoteLoaded
  <2>4. ~Replacing => l.note \notin loaded BY DEF LoadedNotes
  <2>5. ~Replacing => \A n \in Notes \intersect root.notes : CurrentText(n)' = CurrentText(n)
    BY <1>6, <2>1, <2>2, <2>3, <2>4 DEF NoteLoaded, store
  <2>6. /\ (Replacing' <=> Replacing) /\ CurrentRoot' = CurrentRoot
        /\ CurrentRoot = root
    BY <1>6, <2>1 DEF NoteLoaded, store, Replacing, TypeOK
  <2>7. ClientView' = ClientView BY <2>5, <2>6, SameView
  <2> QED BY <1>6, <2>7 DEF NoteLoaded
<1>7. ASSUME NEW kind \in {"note", "workspace"}, Attach(kind) PROVE Unseen
  BY <1>7, SameView DEF Attach, memory, store, Replacing
<1>8. CASE WorkspaceSocketsLeave
  BY <1>8, SameView DEF WorkspaceSocketsLeave, memory, store, Replacing
<1>9. CASE SnapshotRejected
  BY <1>9, SameView DEF SnapshotRejected, memory, store, Replacing
<1> QED BY <1>1, <1>2, <1>3, <1>4, <1>5, <1>6, <1>7, <1>8, <1>9 DEF RoomStep

\* Nor is saving.
LEMMA SaveStepUnseen ==
  ASSUME FlushInv, SaveStep \/ FaultStep \/ SaveTimerFires
  PROVE  Unseen
<1>0. /\ TypeInv /\ ColdRoom /\ QueuedNotes /\ SaveShape
      /\ queue \in Seq(Task) /\ (pc # "idle" => queue # << >>)
  BY DEF FlushInv, SaveInv, TypeInv, TypeOK, RoomShape
<1>1. ASSUME ~Replacing, ~Replacing',
             (InMemory' <=> InMemory), ~InMemory => UNCHANGED store,
             UNCHANGED memory,
             \A n \in root.notes \ loaded : blob'[n] = blob[n]
      PROVE  ClientView' = ClientView
  <2>1. (Replacing' <=> Replacing) /\ CurrentRoot' = CurrentRoot
    BY <1>1 DEF CurrentRoot, memory, store
  <2>2. ASSUME NEW n \in Notes \intersect CurrentRoot.notes
        PROVE  CurrentText(n)' = CurrentText(n)
    <3>1. CASE InMemory BY <1>1, <2>1, <3>1 DEF CurrentRoot, CurrentText, memory
    <3>2. CASE ~InMemory BY <1>1, <2>1, <3>2 DEF CurrentText, memory, store
    <3> QED BY <3>1, <3>2
  <2> QED BY <2>1, <2>2, SameView
<1>2. ASSUME Saving
      PROVE  ~Replacing /\ status \notin {"cold", "replacing"} /\ InMemory
  BY <1>0, <1>2 DEF ColdRoom, TypeInv, TypeOK, Saving, Replacing, InMemory
<1> USE <1>0 DEF Unseen
<1>3. CASE SaveTimerFires
  <2>1. Asked' = Asked BY <1>3, AskedOf, TasksTyped DEF SaveTimerFires, WithAsked, SaveTask
  <2>2. ClientView' = ClientView
    BY <1>3, SameView
       DEF SaveTimerFires, CurrentRoot, CurrentText, InMemory, Replacing, memory, store
  <2> QED BY <2>1, <2>2
<1>4. CASE SkipSave \/ BeginSaveThrows
  <2>1. Asked' = Asked
    BY <1>4, AskedOf DEF SkipSave, BeginSaveThrows, Running
  <2>2. /\ ~Replacing /\ ~Replacing' /\ UNCHANGED store /\ UNCHANGED memory
        /\ (InMemory' <=> InMemory)
    BY <1>4 DEF SkipSave, BeginSaveThrows, Replacing, InMemory, StatusAfter,
                StatusAfterFailure
  <2>3. ClientView' = ClientView BY <1>1, <2>2 DEF store
  <2> QED BY <2>1, <2>3
<1>5. CASE BeginSave
  <2>1. Asked' = Asked BY <1>5, AskedOf DEF BeginSave
  <2>2. /\ ~Replacing /\ ~Replacing' /\ UNCHANGED store /\ UNCHANGED memory
        /\ (InMemory' <=> InMemory)
    BY <1>5 DEF BeginSave, Replacing, InMemory, GoOn, SaveNote, SaveRoot
  <2>3. ClientView' = ClientView BY <1>1, <2>2 DEF store
  <2> QED BY <2>1, <2>3
<1>6. CASE FinishSave
  <2>1. Saving BY <1>6 DEF FinishSave, Saving
  <2>2. Asked' = Asked BY <1>6, <2>1, AskedOf DEF FinishSave, FlushInv, QueueShape
  <2>3. /\ ~Replacing' /\ UNCHANGED store /\ UNCHANGED memory /\ (InMemory' <=> InMemory)
    BY <1>6, <2>1 DEF FinishSave, Replacing, InMemory, StatusAfter, save
  <2>4. ClientView' = ClientView BY <1>1, <1>2, <2>1, <2>3 DEF store
  <2> QED BY <2>2, <2>4
<1>7. ASSUME NEW n \in Notes, DeleteBlob(n) \/ DeleteNoteFails(n)
      PROVE  Unseen
  <2>1. Saving BY <1>7 DEF DeleteBlob, DeleteNoteFails, Saving
  <2>2. Asked' = Asked
    BY <1>7, <2>1, AskedOf DEF DeleteBlob, DeleteNoteFails, SaveFails, FlushInv, QueueShape
  <2>3. /\ ~Replacing' /\ UNCHANGED memory /\ InMemory'
    BY <1>2, <1>7, <2>1
       DEF DeleteBlob, DeleteNoteFails, SaveFails, StatusAfterFailure, Replacing, InMemory
  <2>4. n \notin root.notes BY <1>7 DEF DeleteBlob, DeleteNoteFails, QueuedNotes
  <2>5. \A m \in root.notes \ loaded : blob'[m] = blob[m]
    BY <1>7, <2>4 DEF DeleteBlob, DeleteNoteFails, RemoveBlob, TypeInv, TypeOK, RootDoc
  <2>6. ClientView' = ClientView BY <1>1, <1>2, <2>1, <2>3, <2>5
  <2> QED BY <2>2, <2>6
<1>8. ASSUME NEW w \in writes, NoteSaved(w) \/ RootNotPersistable(w) \/ SaveNoteFails(w)
      PROVE  Unseen
  <2>1. pc = "notes" /\ Saving
    BY <1>8 DEF NoteSaved, RootNotPersistable, SaveNoteFails, Saving
  <2>2. Asked' = Asked
    BY <1>8, <2>1, AskedOf
       DEF NoteSaved, RootNotPersistable, SaveNoteFails, SaveFails, FlushInv, QueueShape
  <2>3. /\ ~Replacing' /\ UNCHANGED memory /\ InMemory'
    BY <1>2, <1>8, <2>1
       DEF NoteSaved, RootNotPersistable, SaveNoteFails, SaveFails, StatusAfterFailure,
           Replacing, InMemory, GoOn, SaveNote, SaveRoot
  <2>4. w.note \notin root.notes \ loaded
    BY <2>1 DEF QueuedNotes, SaveShape
  <2>5. \A m \in root.notes \ loaded : blob'[m] = blob[m]
    BY <1>8, <2>4
       DEF NoteSaved, RootNotPersistable, SaveNoteFails, PutBlob, TypeInv, TypeOK,
           RootDoc
  <2>6. ClientView' = ClientView BY <1>1, <1>2, <2>1, <2>3, <2>5
  <2> QED BY <2>2, <2>6
<1>9. CASE RootSaved \/ SaveRootFails
  <2>1. Saving BY <1>9 DEF RootSaved, SaveRootFails, Saving
  <2>2. Asked' = Asked
    BY <1>9, <2>1, AskedOf DEF RootSaved, SaveRootFails, SaveFails, FlushInv, QueueShape
  <2>3. /\ ~Replacing' /\ UNCHANGED memory /\ InMemory' /\ blob' = blob
    BY <1>2, <1>9, <2>1
       DEF RootSaved, SaveRootFails, SaveFails, StatusAfterFailure, Replacing, InMemory
  <2>4. ClientView' = ClientView BY <1>1, <1>2, <2>1, <2>3
  <2> QED BY <2>2, <2>4
<1> QED
  BY <1>3, <1>4, <1>5, <1>6, <1>7, <1>8, <1>9 DEF SaveStep, FaultStep

\* A client step is a step of the workspace.
LEMMA ClientStepSeen ==
  ASSUME ~UndoRestore, FlushInv, ClientStep
  PROVE  Clients!Next \/ Unseen
<1> PICK e \in Edits :
      \/ EditRoot(e)
      \/ \E n \in Notes :
           EditNote(n, e) \/ RemoveNote(n, e) \/ ReplaceNoteDoc(n, e)
             \/ CreateNote(n, e)
      \/ \E notes \in SUBSET Notes : ReplaceDocument(notes, e)
  BY DEF ClientStep
<1>0. /\ TypeInv /\ LoadedNotes /\ queue \in Seq(Task)
      /\ doc \in [Notes -> SUBSET Edits] /\ loaded \subseteq root.notes
  BY DEF FlushInv, SaveInv, TypeInv, TypeOK
<1> DEFINE T == [m \in Notes |-> CurrentText(m)]
<1>t. status = "live" =>
        \A m \in Notes : T[m] = IF m \notin root.notes THEN {}
                                ELSE IF m \in loaded THEN doc[m] ELSE blob[m]
  BY DEF CurrentText, CurrentRoot, InMemory
<1>u. status' = "live" =>
        \A m \in Notes : T'[m] = IF m \notin root'.notes THEN {}
                                 ELSE IF m \in loaded' THEN doc'[m] ELSE blob'[m]
  BY DEF CurrentText, CurrentRoot, InMemory
<1>v. \* Edits of the room itself.
  ASSUME status = "live", status' = "live", pc' = pc, queue' = queue
  PROVE  /\ Asked' = Asked
         /\ Replacing => Unseen
         /\ ~Replacing =>
              /\ ClientView = [notes |-> root.notes, edits |-> root.edits, text |-> T]
              /\ ClientView' = [notes |-> root'.notes, edits |-> root'.edits, text |-> T']
  <2>1. Asked' = Asked BY <1>v DEF Asked
  <2>2. /\ ClientView = IF Replacing THEN Clients!Overwritten
                          ELSE [notes |-> root.notes, edits |-> root.edits, text |-> T]
        /\ ClientView' = IF Replacing' THEN Clients!Overwritten'
                           ELSE [notes |-> root'.notes, edits |-> root'.edits, text |-> T']
    BY <1>v
       DEF ClientView, CurrentRoot, InMemory, Clients!Overwritten, NoDocs
  <2>3. Replacing' <=> Replacing BY <1>v DEF Replacing
  <2>4. Clients!Overwritten' = Clients!Overwritten BY DEF Clients!Overwritten
  <2> QED BY <2>1, <2>2, <2>3, <2>4 DEF Unseen
<1>f. T = [m \in Notes |-> T[m]] /\ T' = [m \in Notes |-> T'[m]] OBVIOUS
<1> HIDE DEF T
<1>1. CASE EditRoot(e)
  <2>1. /\ status = "live" /\ status' = "live" /\ pc' = pc /\ queue' = queue
        /\ root' = [notes |-> root.notes, edits |-> root.edits \union {e}]
        /\ UNCHANGED <<doc, loaded, blob>>
    BY <1>1 DEF EditRoot, ChangeRoot, Accepting, store
  <2>2. T' = T BY <1>t, <1>u, <1>f, <2>1
  <2>3. ~Replacing => Clients!EditRoot(e)
    BY <1>v, <2>1, <2>2 DEF Clients!EditRoot
  <2> QED BY <1>v, <2>1, <2>3 DEF Clients!Next
<1>2. ASSUME NEW n \in Notes, EditNote(n, e) PROVE Clients!Next \/ Unseen
  <2>1. /\ status = "live" /\ status' = "live" /\ pc' = pc /\ queue' = queue
        /\ root' = root /\ n \in root.notes
        /\ doc' = [doc EXCEPT ![n] = @ \union {e}] /\ loaded' = loaded \union {n}
        /\ blob' = blob
        /\ n \in loaded
    BY <1>0, <1>2 DEF EditNote, Accepting, store, LoadedNotes
  <2>2. \A m \in Notes : T'[m] = IF m = n THEN T[m] \union {e} ELSE T[m]
    BY <1>0, <1>t, <1>u, <2>1
  <2>3. T' = [T EXCEPT ![n] = @ \union {e}] BY <1>f, <2>2
  <2>4. ~Replacing => Clients!EditNote(n, e)
    BY <1>v, <2>1, <2>3 DEF Clients!EditNote
  <2> QED BY <1>v, <2>1, <2>4 DEF Clients!Next
<1>3. ASSUME NEW n \in Notes, RemoveNote(n, e) PROVE Clients!Next \/ Unseen
  <2>1. /\ status = "live" /\ status' = "live" /\ pc' = pc /\ queue' = queue
        /\ root' = [notes |-> root.notes \ {n}, edits |-> root.edits \union {e}]
        /\ n \in root.notes
        /\ doc' = [doc EXCEPT ![n] = {}] /\ loaded' = loaded \ {n}
        /\ blob' = blob
    BY <1>3 DEF RemoveNote, ForgetNote, ChangeRoot, Accepting, store
  <2>2. \A m \in Notes : T'[m] = IF m = n THEN {} ELSE T[m]
    BY <1>0, <1>t, <1>u, <2>1
  <2>3. T' = [T EXCEPT ![n] = {}] BY <1>f, <2>2
  <2>4. ~Replacing => Clients!RemoveNote(n, e)
    BY <1>v, <2>1, <2>3 DEF Clients!RemoveNote
  <2> QED BY <1>v, <2>1, <2>4 DEF Clients!Next
<1>4. ASSUME NEW n \in Notes, CreateNote(n, e) PROVE Clients!Next \/ Unseen
  <2>1. /\ status = "live" /\ status' = "live" /\ pc' = pc /\ queue' = queue
        /\ root' = [notes |-> root.notes \union {n}, edits |-> root.edits \union {e}]
        /\ n \notin root.notes
        /\ doc' = [doc EXCEPT ![n] = {e}] /\ loaded' = loaded \union {n}
        /\ blob' = blob
    BY <1>4 DEF CreateNote, ChangeRoot, Accepting, store
  <2>2. \A m \in Notes : T'[m] = IF m = n THEN {e} ELSE T[m]
    BY <1>0, <1>t, <1>u, <2>1
  <2>3. T' = [T EXCEPT ![n] = {e}] BY <1>f, <2>2
  <2>4. ~Replacing => Clients!CreateNote(n, e)
    BY <1>v, <2>1, <2>3 DEF Clients!CreateNote
  <2> QED BY <1>v, <2>1, <2>4 DEF Clients!Next
<1>5. ASSUME NEW notes \in SUBSET Notes, ReplaceDocument(notes, e)
      PROVE  Clients!Next \/ Unseen
  <2>1. Asked' = Append(Asked, SnapshotOf(ReplaceTask(notes, e)))
    BY <1>0, <1>5, TasksTyped, AskedOf DEF ReplaceDocument, WithAsked, ReplaceTask
  <2>2. SnapshotOf(ReplaceTask(notes, e)) \in Clients!Snapshot
    BY DEF SnapshotOf, ReplaceTask, Clients!Snapshot
  <2>3. ClientView' = ClientView
    BY <1>5, SameView
       DEF ReplaceDocument, CurrentRoot, CurrentText, InMemory, Replacing, memory, store
  <2> QED BY <2>1, <2>2, <2>3 DEF Clients!Next, Clients!AskToReplace
<1>6. \A n \in Notes : ~ReplaceNoteDoc(n, e) BY DEF ReplaceNoteDoc
<1> QED BY <1>1, <1>2, <1>3, <1>4, <1>5, <1>6

\* A replacement is asked for, and done, in the workspace too.
LEMMA SnapshotStepSeen ==
  ASSUME "snapshot" \notin Faults, FlushInv, SnapshotStep
  PROVE  Clients!Next \/ Unseen
<1>0. /\ TypeInv /\ ColdRoom /\ SnapshotInv
      /\ queue \in Seq(Task) /\ (pc # "idle" => queue # << >>)
  BY DEF FlushInv, SaveInv, TypeInv, TypeOK, RoomShape
<1>1. CASE BeginSnapshot
  <2>1. Asked' = Asked /\ Asked # << >>
    BY <1>0, <1>1, AskedOf, AskedAfterReplace DEF BeginSnapshot, Running
  <2>2. ClientView' = Clients!Overwritten
    BY <1>1 DEF BeginSnapshot, ClientView, Replacing, Clients!Overwritten, NoDocs
  <2> QED BY <2>1, <2>2 DEF Clients!Next, Clients!BeginReplacing
<1>2. ASSUME SaveSnapshotRoot \/ \E n \in Notes : SnapshotNoteSettles(n)
      PROVE  Unseen
  <2>1. Replacing /\ Replacing' /\ queue' = queue
    BY <1>2 DEF SaveSnapshotRoot, SnapshotNoteSettles, Replacing
  <2> QED BY <1>0, <2>1, AskedOf, SameView DEF Unseen
<1>3. CASE ReplaceSucceeds
  <2> DEFINE s == Head(queue)
  <2>1. /\ pc = "snapRoot" /\ queue # << >> /\ s.kind = "replace" /\ s \in Task
        /\ rootImage = SnapshotOf(s)
        /\ \A n \in s.notes : blob[n] = s.edits
    BY <1>0, <1>3, QueueTyped
       DEF ReplaceSucceeds, SnapshotInv, SnapshotHeld, FlushInv, QueueShape, Replacing,
           SnapshotOf
  <2>2. /\ Asked # << >> /\ Head(Asked) = SnapshotOf(s)
        /\ AskedIn(QueueAfterReplace) = Tail(Asked)
        /\ QueueAfterReplace \in Seq(Task)
    BY <1>0, <2>1, AskedAfterReplace
  <2>3. Asked' = Tail(Asked)
    <3>1. AskedIn(Append(QueueAfterReplace, FlushTask)) = AskedIn(QueueAfterReplace)
      BY <2>2, TasksTyped, AskedInAppend DEF WithAsked, FlushTask
    <3>2. queue' \in {QueueAfterReplace, Append(QueueAfterReplace, FlushTask)}
      BY <1>3 DEF ReplaceSucceeds, TakeOver
    <3> QED BY <2>2, <3>1, <3>2 DEF Asked
  <2>4. /\ InMemory' /\ ~Replacing'
        /\ root' = SnapshotOf(s) /\ loaded' = s.notes
        /\ \A n \in s.notes : doc'[n] = s.edits
    BY <1>0, <1>3, <2>1
       DEF ReplaceSucceeds, TakeOver, SnapshotOf, Task, StatusAfterReplace, StatusAfter, InMemory, Replacing, ColdRoom,
           TypeInv, TypeOK
  <2> HIDE DEF s
  <2>5. ASSUME NEW n \in Notes
        PROVE  CurrentText(n)' = IF n \in s.notes THEN s.edits ELSE {}
    BY <2>1, <2>4 DEF CurrentText, CurrentRoot, SnapshotOf
  <2>6. ClientView' = [notes |-> s.notes, edits |-> s.edits,
                       text  |-> [n \in Notes |-> IF n \in s.notes THEN s.edits ELSE {}]]
    BY <2>4, <2>5 DEF ClientView, CurrentRoot, SnapshotOf
  <2>7. Head(Asked).notes = s.notes /\ Head(Asked).edits = s.edits
    BY <2>2 DEF SnapshotOf
  <2>8. Clients!Replace BY <2>2, <2>3, <2>6, <2>7 DEF Clients!Replace
  <2> QED BY <2>8 DEF Clients!Next
<1>4. ~ReplaceFails /\ ~ReplaceUnderSave
  BY NoSaveUnder DEF ReplaceFails, FlushInv
<1> QED BY <1>1, <1>2, <1>3, <1>4 DEF SnapshotStep

----------------------------------------------------------------------------

\* The initial states are those of the workspace.
LEMMA RoomInit == Init => Clients!Init
<1> SUFFICES ASSUME Init PROVE Clients!Init
  OBVIOUS
<1>1. Asked = << >> BY AskedInEmpty DEF Init, Asked
<1>2. ~Replacing /\ ~InMemory /\ CurrentRoot = [notes |-> blobs, edits |-> {}]
  BY DEF Init, Replacing, InMemory, CurrentRoot
<1>3. \A n \in Notes : CurrentText(n) = {}
  BY <1>2 DEF CurrentText, Init, NoDocs
<1>4. ClientView = [notes |-> blobs, edits |-> {}, text |-> [n \in Notes |-> {}]]
  BY <1>2, <1>3 DEF ClientView
<1>5. ClientView = [Clients!Overwritten EXCEPT !.notes = blobs]
  BY <1>4 DEF Clients!Overwritten
<1>6. blobs \in SUBSET Notes BY DEF Init
<1> QED BY <1>1, <1>5, <1>6 DEF Clients!Init

\* A room over its store is a workspace, for every number of notes and edits:
\* what saves that fail, loads, flushes and reopenings do between two changes of
\* a client is never seen in the documents a client gets.
THEOREM RoomImplementsWorkspace ==
  ASSUME ~UndoRestore, ~Overlap, Faults \intersect {"snapshot", "crash"} = {}
  PROVE  Spec => RoomIsWorkspace
<1>0. "snapshot" \notin Faults /\ "crash" \notin Faults OBVIOUS
<1>1. FlushInv /\ [Next]_vars => [Clients!Next]_<<ClientView, Asked>>
  <2> SUFFICES ASSUME FlushInv, [Next]_vars
               PROVE  Clients!Next \/ Unseen
    BY DEF Unseen
  <2>1. CASE UNCHANGED vars
    BY <2>1, SameView
       DEF Unseen, Asked, CurrentRoot, CurrentText, InMemory, Replacing, vars, memory, store
  <2> QED BY <1>0, <2>1, RoomStepUnseen, ClientStepSeen, SaveStepUnseen, SnapshotStepSeen
          DEF Next
<1>2. Spec => []FlushInv BY <1>0, FlushInvariant
<1> QED BY <1>1, <1>2, RoomInit, PTL DEF Spec, RoomIsWorkspace, Clients!Spec

=============================================================================
