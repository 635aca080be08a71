------------------------- MODULE MarkdownSyncProofs -------------------------
(***************************************************************************)
(* Theorems about MarkdownSync, for all sets of lines, whatever the note   *)
(* prints of them (as long as it prints again what it printed), and any    *)
(* number of changes: what the shadow and the watcher's events say of the  *)
(* file, and why a merge takes no line of the users from the note.         *)
(***************************************************************************)
EXTENDS MarkdownSync, TLAPS

----------------------------------------------------------------------------
(* Types.                                                                  *)

Jobs == [lines : Texts, exact : BOOLEAN, by : {"sync", "agent"},
         current : Texts, put : Texts, back : BOOLEAN]
Files == [lines : Texts, by : {"sync", "agent"}]
Suppressions(bag) == IsABag(bag) /\ BagToSet(bag) \subseteq Texts

\* A text is not the absence of one, nor is a file.
LEMMA TextsAreThere == None \notin Texts
BY MarkdownSyncAssumption DEF Texts, Lines

\* A file is not the absence of one.
LEMMA FilesAreThere == None \notin Files
BY MarkdownSyncAssumption DEF Files, Texts, Lines

\* What a text is shown as: the prints of its lines, a text itself.
LEMMA ShownIs ==
  ASSUME NEW text
  PROVE  \A l : l \in Shown(text) <=> \E m \in text : l \in Printed[m]
BY DEF Shown

\* The print of a text is a text.
LEMMA ShownTyped ==
  ASSUME NEW text \in Texts
  PROVE  Shown(text) \in Texts
BY ShownIs, PrintedAssumption DEF Texts, Lines

\* A text whose lines print as they are.
Clean(text) == \A l \in text : Printed[l] = {l}

\* It is shown as it is.
LEMMA CleanShown ==
  ASSUME NEW text, Clean(text)
  PROVE  Shown(text) = text
<1>1. \A l : l \in Shown(text) <=> l \in text BY ShownIs DEF Clean
<1> QED BY <1>1

\* What was printed once is printed as it is.
LEMMA ShownClean ==
  ASSUME NEW text \in Texts
  PROVE  Clean(Shown(text))
BY ShownIs, PrintedAssumption DEF Clean, Texts, Lines

\* The text that a merge makes, shown: the lines the base has and the file does not show go,
\* those the file shows and the base has not come, as long as no line of the base that the
\* note has lost is in the file in another spelling.
LEMMA ShownMerge ==
  ASSUME NEW lines, NEW base, NEW current, Clean(base), Clean(current),
         (base \ current) \intersect Shown(lines \ base) = {}
  PROVE  Shown((current \ (base \ lines)) \union (lines \ base))
           = (current \ (base \ Shown(lines))) \union (Shown(lines) \ base)
<1> DEFINE merged == (current \ (base \ lines)) \union (lines \ base)
           shown == (current \ (base \ Shown(lines))) \union (Shown(lines) \ base)
<1>1. ASSUME NEW l \in Shown(merged) PROVE l \in shown
  <2>1. PICK m \in merged : l \in Printed[m] BY ShownIs
  <2>2. CASE m \in current \ (base \ lines)
    <3>1. l = m BY <2>1, <2>2 DEF Clean
    <3>2. l \in lines => l \in Shown(lines) BY <2>1, <3>1, ShownIs
    <3> QED BY <2>2, <3>1, <3>2
  <2>3. CASE m \in lines \ base
    <3>1. l \in Shown(lines) /\ l \in Shown(lines \ base) BY <2>1, <2>3, ShownIs
    <3> QED BY <3>1
  <2> QED BY <2>2, <2>3
<1>2. ASSUME NEW l \in shown PROVE l \in Shown(merged)
  <2>1. CASE l \in current /\ (l \notin base \/ l \in lines)
    <3>1. l \in merged /\ l \in Printed[l] BY <2>1 DEF Clean
    <3> QED BY <3>1, ShownIs
  <2>2. CASE l \in Shown(lines) /\ ~(l \in current /\ (l \notin base \/ l \in lines))
    <3>1. PICK m \in lines : l \in Printed[m] BY <2>2, ShownIs
    <3>2. m \in lines \ base
      <4> SUFFICES ASSUME m \in base PROVE FALSE
        OBVIOUS
      <4>1. m = l BY <3>1 DEF Clean
      <4>2. l \in current BY <1>2, <4>1
      <4> QED BY <2>2, <3>1, <4>1, <4>2
    <3> QED BY <3>1, <3>2, ShownIs
  <2> QED BY <1>2, <2>1, <2>2
<1> QED BY <1>1, <1>2

\* A bag of texts stays one when the manager adds a suppression or takes one away.
LEMMA Suppresses ==
  ASSUME NEW bag, Suppressions(bag), NEW lines \in Texts
  PROVE  /\ Suppressions(bag (+) SetToBag({lines}))
         /\ Suppressions(bag (-) SetToBag({lines}))
<1> DEFINE one == SetToBag({lines})
           more == bag (+) one
           fewer == bag (-) one
<1>1. /\ bag \in [DOMAIN bag -> {n \in Nat : n > 0}] /\ DOMAIN bag \subseteq Texts
      /\ DOMAIN one = {lines} /\ \A l \in {lines} : one[l] = 1
  BY DEF Suppressions, IsABag, BagToSet, SetToBag
<1> HIDE DEF one
<1>2. /\ DOMAIN more = DOMAIN bag \union DOMAIN one
      /\ more = [e \in DOMAIN bag \union DOMAIN one |->
                   (IF e \in DOMAIN bag THEN bag[e] ELSE 0) + (IF e \in DOMAIN one THEN one[e] ELSE 0)]
  BY DEF (+)
<1>3. \A e \in DOMAIN more : more[e] \in {n \in Nat : n > 0}
  BY <1>1, <1>2
<1>4. Suppressions(more)
  BY <1>1, <1>2, <1>3 DEF Suppressions, IsABag, BagToSet
<1> DEFINE rest == [e \in DOMAIN bag |-> IF e \in DOMAIN one THEN bag[e] - one[e] ELSE bag[e]]
<1>5. fewer = [e \in {d \in DOMAIN rest : rest[d] > 0} |-> rest[e]]
  BY DEF (-)
<1>6. \A e \in DOMAIN bag : rest[e] \in Int
  BY <1>1
<1>7. DOMAIN fewer \subseteq DOMAIN bag /\ \A e \in DOMAIN fewer : fewer[e] \in {n \in Nat : n > 0}
  BY <1>5, <1>6
<1>8. fewer \in [DOMAIN fewer -> {n \in Nat : n > 0}] BY <1>5, <1>7
<1>9. Suppressions(fewer)
  BY <1>1, <1>7, <1>8 DEF Suppressions, IsABag, BagToSet
<1> QED BY <1>4, <1>9 DEF one

\* The initial states have their types.
LEMMA TypeInit == Init => TypeOK
<1> SUFFICES ASSUME Init PROVE TypeOK
  OBVIOUS
<1>1. doc \in Texts /\ {} \in Texts BY DEF Init, Texts, Lines
<1>2. Suppressions(suppressed)
  BY DEF Init, Suppressions, IsABag, BagToSet, EmptyBag, SetToBag
<1>3. left \in [agent : 0 .. MaxFileChanges, users : 0 .. MaxNoteChanges]
  BY MarkdownSyncAssumption DEF Init
<1>4. NoJob \in Jobs BY <1>1 DEF NoJob, Jobs
<1>5. /\ file = None /\ mapped = FALSE /\ shadow = None /\ watching = FALSE /\ dirty = FALSE
      /\ known = FALSE /\ timers = 0 /\ queue = <<>> /\ at = "hydrate" /\ job = NoJob
      /\ protected \in BOOLEAN /\ wanted = doc /\ mishaps = {}
      /\ removed = [users |-> {}, agent |-> {}]
  BY DEF Init
<1>6. removed \in [users : Texts, agent : Texts] BY <1>1, <1>5
<1>7. queue \in Seq(Events) BY <1>5
<1> QED BY <1>1, <1>2, <1>3, <1>4, <1>5, <1>6, <1>7 DEF TypeOK, Suppressions, Places, Jobs

\* A write of the manager keeps the types of what it changes.
LEMMA WriteTyped ==
  ASSUME TypeOK, NEW lines \in Texts, Write(lines)
  PROVE  /\ file' \in Files /\ Suppressions(suppressed') /\ dirty' \in BOOLEAN
BY Suppresses DEF Write, TypeOK, Suppressions, Files

\* The texts a merge works with, and the locals of the handler.
LEMMA TextsTyped ==
  ASSUME TypeOK
  PROVE  /\ {} \in Texts /\ LinesOf(doc) \in Texts /\ LinesOf(shadow) \in Texts
         /\ Base \in Texts /\ Merged \in Texts /\ job \in Jobs /\ NoJob \in Jobs
         /\ file # None => file \in Files
         /\ Shown(job.lines) \in Texts /\ Shown(job.put) \in Texts
<1>1. Shown(job.lines) \in Texts /\ Shown(job.put) \in Texts BY ShownTyped DEF TypeOK
<1> QED BY <1>1 DEF TypeOK, LinesOf, Base, Merged, Texts, Jobs, NoJob, Files, Lines


\* One part of the types each: the note and the file, what the manager keeps, what the
\* watcher does, the handler, and the ghosts.
DataTyped == doc' \in Texts \union {None} /\ file' \in Files \union {None}
ManagerTyped == mapped' \in BOOLEAN /\ shadow' \in Texts \union {None} /\ Suppressions(suppressed')
WatcherTyped ==
  /\ watching' \in BOOLEAN /\ dirty' \in BOOLEAN /\ known' \in BOOLEAN
  /\ timers' \in Nat /\ queue' \in Seq(Events)
HandlerTyped == at' \in Places /\ job' \in Jobs /\ protected' \in BOOLEAN
GhostsTyped ==
  /\ wanted' \in Texts /\ removed' \in [users : Texts, agent : Texts]
  /\ mishaps' \in SUBSET Races
  /\ left' \in [agent : 0 .. MaxFileChanges, users : 0 .. MaxNoteChanges]

\* The parts make up TypeOK.
LEMMA StepTyped ==
  ASSUME DataTyped, ManagerTyped, WatcherTyped, HandlerTyped, GhostsTyped
  PROVE  TypeOK'
BY DEF TypeOK, DataTyped, ManagerTyped, WatcherTyped, HandlerTyped, GhostsTyped, Files, Jobs,
       Suppressions

\* A part that is left alone keeps its types.
LEMMA SameTyped ==
  ASSUME TypeOK
  PROVE  /\ UNCHANGED <<doc, file>> => DataTyped
         /\ UNCHANGED manager => ManagerTyped
         /\ UNCHANGED watcher => WatcherTyped
         /\ UNCHANGED <<at, job, protected>> => HandlerTyped
         /\ UNCHANGED <<ghosts, left>> => GhostsTyped
         /\ Suppressions(suppressed)
BY DEF TypeOK, DataTyped, ManagerTyped, WatcherTyped, HandlerTyped, GhostsTyped, Files, Jobs,
       Suppressions, manager, watcher, ghosts

\* Taking an event leaves a queue of events.
LEMMA TakeTyped ==
  ASSUME TypeOK, NEW type, Take(type)
  PROVE  queue' \in Seq(Events) /\ at = "idle"
BY DEF Take, TypeOK

\* The types, after start.
LEMMA StartTyped ==
  ASSUME TypeOK, Hydrate \/ Seed
  PROVE  TypeOK'
<1>1. CASE Hydrate
  <2>1. DataTyped
    BY <1>1 DEF Hydrate, TypeOK, DataTyped, Files
  <2>2. HandlerTyped BY <1>1 DEF Hydrate, TypeOK, HandlerTyped, Places, Jobs
  <2> QED BY <1>1, <2>1, <2>2, SameTyped, StepTyped DEF Hydrate
<1>2. CASE Seed
  <2>1. ManagerTyped BY <1>2, SameTyped DEF Seed, TypeOK, ManagerTyped
  <2>2. HandlerTyped BY <1>2 DEF Seed, TypeOK, HandlerTyped, Places, Jobs
  <2>3. mishaps' \in SUBSET Races
    BY <1>2 DEF Seed, TypeOK, Happened, Races
  <2>4. GhostsTyped BY <1>2, <2>3 DEF Seed, TypeOK, GhostsTyped
  <2> QED BY <1>2, <2>1, <2>2, <2>4, SameTyped, StepTyped DEF Seed
<1> QED BY <1>1, <1>2

\* The types, after users.
LEMMA UsersTyped ==
  ASSUME TypeOK, UserEdits \/ UserDeletesNote
  PROVE  TypeOK'
<1>1. left.users > 0 /\ left' = [left EXCEPT !.users = @ - 1]
  BY DEF UserEdits, UserDeletesNote
<1>2. left' \in [agent : 0 .. MaxFileChanges, users : 0 .. MaxNoteChanges]
  BY <1>1, MarkdownSyncAssumption DEF TypeOK
<1>3. UNCHANGED <<file, manager, watcher, at, job, protected, mishaps>>
  BY DEF UserEdits, UserDeletesNote
<1>4. /\ doc' \in Texts \union {None} /\ wanted' \in Texts
      /\ removed' \in [users : Texts, agent : Texts]
  <2>1. CASE UserEdits
    <3>1. PICK l \in Lines : /\ doc' \in {doc \union {l}, doc \ {l}} /\ doc \in Texts
                             /\ wanted' \in {wanted \union {l}, wanted \ {l}}
                             /\ \/ removed' = removed
                                \/ removed' = [removed EXCEPT !.users = @ \union {l}]
      BY <2>1 DEF UserEdits, TypeOK, Texts, Lines
    <3> QED BY <3>1 DEF TypeOK, Texts
  <2>2. CASE UserDeletesNote BY <2>2 DEF UserDeletesNote, TypeOK, Texts
  <2> QED BY <2>1, <2>2
<1>5. DataTyped /\ GhostsTyped
  BY <1>2, <1>3, <1>4 DEF TypeOK, DataTyped, GhostsTyped, Files
<1> QED BY <1>3, <1>5, SameTyped, StepTyped

\* The types, after agent.
LEMMA AgentTyped ==
  ASSUME TypeOK, NEW new \in Texts \union {None}, AgentChanges(new), file' \in Files \union {None}
  PROVE  TypeOK'
<1>1. left.agent > 0 /\ left' = [left EXCEPT !.agent = @ - 1] BY DEF AgentChanges
<1>2. left' \in [agent : 0 .. MaxFileChanges, users : 0 .. MaxNoteChanges]
  BY <1>1, MarkdownSyncAssumption DEF TypeOK
<1>4. Shown(LinesOf(new)) \in Texts
  <2>1. LinesOf(new) \in Texts BY DEF LinesOf, Texts
  <2> QED BY <2>1, ShownTyped
<1>3. PICK old \in Texts :
        /\ wanted' = (wanted \ (old \ Shown(LinesOf(new)))) \union (Shown(LinesOf(new)) \ old)
        /\ removed' = [removed EXCEPT !.agent = @ \union (old \ Shown(LinesOf(new)))]
  <2> DEFINE was == IF file = None THEN {} ELSE Shown(file.lines)
  <2>1. was \in Texts BY ShownTyped DEF TypeOK, Texts
  <2>2. /\ wanted' = (wanted \ (was \ Shown(LinesOf(new)))) \union (Shown(LinesOf(new)) \ was)
        /\ removed' = [removed EXCEPT !.agent = @ \union (was \ Shown(LinesOf(new)))]
    BY DEF AgentChanges
  <2> QED BY <2>1, <2>2
<1>5. wanted' \in Texts /\ removed' \in [users : Texts, agent : Texts]
  BY <1>3, <1>4 DEF TypeOK, Texts
<1>6. DataTyped /\ GhostsTyped
  BY <1>2, <1>5 DEF AgentChanges, TypeOK, DataTyped, GhostsTyped
<1>7. WatcherTyped BY DEF AgentChanges, TypeOK, WatcherTyped
<1> QED BY <1>6, <1>7, SameTyped, StepTyped DEF AgentChanges

\* The types, after agents.
LEMMA AgentsTyped ==
  ASSUME TypeOK, AgentWrites \/ AgentRemovesFile
  PROVE  TypeOK'
BY AgentTyped DEF AgentWrites, AgentRemovesFile, Files

\* The types, after watch.
LEMMA WatchTyped ==
  ASSUME TypeOK, Watch \/ SuppressionExpires
  PROVE  TypeOK'
<1> USE DEF TypeOK
<1>1. CASE WatchersReady
  <2>1. mishaps' \in SUBSET Races BY <1>1 DEF WatchersReady, Happened, Races
  <2>2. GhostsTyped BY <1>1, <2>1 DEF WatchersReady, GhostsTyped
  <2>3. WatcherTyped BY <1>1 DEF WatchersReady, WatcherTyped
  <2> QED BY <1>1, <2>2, <2>3, SameTyped, StepTyped DEF WatchersReady
<1>2. CASE NoticeFile
  <2>1. PICK type \in Events : queue' = Append(queue, type) BY <1>2 DEF NoticeFile, Events
  <2>2. queue' \in Seq(Events) BY <2>1
  <2>3. watching' = watching /\ dirty' = FALSE /\ known' = TRUE /\ timers' = timers
    BY <1>2 DEF NoticeFile
  <2>4. WatcherTyped BY <2>2, <2>3 DEF WatcherTyped
  <2> QED BY <1>2, <2>4, SameTyped, StepTyped DEF NoticeFile
<1>3. CASE NoticeRemoval
  <2>1. mishaps' \in SUBSET Races BY <1>3 DEF NoticeRemoval, Happened, Races
  <2>2. GhostsTyped BY <1>3, <2>1 DEF NoticeRemoval, GhostsTyped
  <2>0. timers' \in Nat
    <3>1. timers' = timers + (IF known THEN 1 ELSE 0) /\ timers \in Nat BY <1>3 DEF NoticeRemoval
    <3>2. (IF known THEN 1 ELSE 0) \in {0, 1} OBVIOUS
    <3> QED BY <3>1, <3>2
  <2>3. WatcherTyped BY <1>3, <2>0 DEF NoticeRemoval, WatcherTyped
  <2> QED BY <1>3, <2>2, <2>3, SameTyped, StepTyped DEF NoticeRemoval
<1>4. CASE DeletionDue
  <2>1. WatcherTyped BY <1>4 DEF DeletionDue, WatcherTyped, Events
  <2> QED BY <1>4, <2>1, SameTyped, StepTyped DEF DeletionDue
<1>5. CASE SuppressionExpires
  <2>1. PICK lines \in Texts : suppressed' = suppressed (-) SetToBag({lines})
    BY <1>5 DEF SuppressionExpires
  <2>2. ManagerTyped BY <1>5, <2>1, SameTyped, Suppresses DEF SuppressionExpires, ManagerTyped
  <2> QED BY <1>5, <2>2, SameTyped, StepTyped DEF SuppressionExpires
<1> QED BY <1>1, <1>2, <1>3, <1>4, <1>5 DEF Watch

\* The types, after event.
LEMMA EventTyped ==
  ASSUME TypeOK, ReadFile \/ DeleteNote \/ RestoreKanwas
  PROVE  TypeOK'
<1>0. queue' \in Seq(Events)
  BY TakeTyped DEF ReadFile, DeleteNote, RestoreKanwas
<1>1. CASE ReadFile
  <2>1. WatcherTyped BY <1>0, <1>1 DEF ReadFile, TypeOK, WatcherTyped
  <2>2. HandlerTyped
    <3>1. CASE file = None BY <1>1, <3>1, TextsTyped DEF ReadFile, TypeOK, HandlerTyped
    <3>2. CASE file # None
      <4>1. PICK exact \in BOOLEAN :
              job' = [NoJob EXCEPT !.lines = file.lines, !.exact = exact,
                                   !.by = file.by, !.put = file.lines]
        BY <1>1, <3>2 DEF ReadFile
      <4>2. file \in Files BY <3>2, TextsTyped
      <4>3. job' \in Jobs BY <4>1, <4>2, TextsTyped DEF NoJob, Jobs, Files
      <4> QED BY <1>1, <3>2, <4>3 DEF ReadFile, TypeOK, HandlerTyped, Places
    <3> QED BY <3>1, <3>2
  <2> QED BY <1>1, <2>1, <2>2, SameTyped, StepTyped DEF ReadFile
<1>2. CASE DeleteNote
  <2>1. WatcherTyped BY <1>0, <1>2 DEF DeleteNote, TypeOK, WatcherTyped
  <2>2. DataTyped BY <1>2 DEF DeleteNote, TypeOK, DataTyped, Files
  <2>3. ManagerTyped BY <1>2, SameTyped DEF DeleteNote, TypeOK, ManagerTyped
  <2>4. mishaps' \in SUBSET Races BY <1>2 DEF DeleteNote, TypeOK, Happened, Races
  <2>5. GhostsTyped BY <1>2, <2>4, TextsTyped DEF DeleteNote, TypeOK, GhostsTyped
  <2> QED BY <1>2, <2>1, <2>2, <2>3, <2>5, SameTyped, StepTyped DEF DeleteNote
<1>3. CASE RestoreKanwas
  <2>0. doc \in Texts /\ Write(doc) BY <1>3 DEF RestoreKanwas, TypeOK
  <2>w. file' \in Files /\ Suppressions(suppressed') /\ dirty' \in BOOLEAN
    BY <2>0, WriteTyped
  <2>1. WatcherTyped BY <1>0, <1>3, <2>w DEF RestoreKanwas, TypeOK, WatcherTyped
  <2>2. DataTyped BY <1>3, <2>w DEF RestoreKanwas, TypeOK, DataTyped
  <2>3. ManagerTyped BY <1>3, <2>w DEF RestoreKanwas, TypeOK, ManagerTyped
  <2>4. mishaps' \in SUBSET Races BY <1>3 DEF RestoreKanwas, TypeOK, Happened, Races
  <2>5. wanted' \in Texts BY <1>3, <2>0 DEF RestoreKanwas, TypeOK, Texts
  <2>6. GhostsTyped BY <1>3, <2>4, <2>5 DEF RestoreKanwas, TypeOK, GhostsTyped
  <2> QED BY <1>3, <2>1, <2>2, <2>3, <2>6, SameTyped, StepTyped DEF RestoreKanwas
<1> QED BY <1>1, <1>2, <1>3

\* The types, after sync.
LEMMA SyncTyped ==
  ASSUME TypeOK, Preflight \/ Decide \/ RestoreFile \/ Apply \/ ApplyFails \/ RefreshShadow \/ WriteBack
  PROVE  TypeOK'
<1>1. CASE Preflight
  <2>0. at' \in Places /\ job' \in Jobs /\ Suppressions(suppressed')
    <3>1. CASE mapped /\ Suppressed
      <4>1. at' = "idle" /\ job' = NoJob /\ suppressed' = suppressed (-) SetToBag({job.lines})
        BY <1>1, <3>1 DEF Preflight, Done
      <4>2. job.lines \in Texts BY TextsTyped DEF Jobs
      <4> QED BY <4>1, <4>2, TextsTyped, SameTyped, Suppresses DEF Places
    <3>2. CASE ~(mapped /\ Suppressed)
      <4>1. /\ at' \in {"decide", "apply"} /\ job' = [job EXCEPT !.current = LinesOf(doc)]
            /\ suppressed' = suppressed
        BY <1>1, <3>2 DEF Preflight
      <4> QED BY <4>1, TextsTyped, SameTyped DEF Places, Jobs
    <3> QED BY <3>1, <3>2
  <2>1. HandlerTyped BY <1>1, <2>0 DEF Preflight, TypeOK, HandlerTyped
  <2>2. ManagerTyped BY <1>1, <2>0 DEF Preflight, TypeOK, ManagerTyped
  <2>3. mishaps' \in SUBSET Races BY <1>1 DEF Preflight, TypeOK, Happened, Races
  <2>4. GhostsTyped BY <1>1, <2>3 DEF Preflight, TypeOK, GhostsTyped
  <2> QED BY <1>1, <2>1, <2>2, <2>4, SameTyped, StepTyped DEF Preflight
<1>2. CASE Decide
  <2>1. at' \in Places /\ job' \in Jobs
    BY <1>2, TextsTyped DEF Decide, Done, Places, Jobs
  <2>2. HandlerTyped BY <1>2, <2>1 DEF Decide, TypeOK, HandlerTyped
  <2>3. ManagerTyped BY <1>2, SameTyped, TextsTyped DEF Decide, TypeOK, ManagerTyped
  <2> QED BY <1>2, <2>2, <2>3, SameTyped, StepTyped DEF Decide
<1>3. CASE RestoreFile
  <2>0. job.current \in Texts /\ Write(job.current) BY <1>3 DEF RestoreFile, TypeOK
  <2>w. file' \in Files /\ Suppressions(suppressed') /\ dirty' \in BOOLEAN
    BY <2>0, WriteTyped
  <2>1. WatcherTyped BY <1>3, <2>w DEF RestoreFile, TypeOK, WatcherTyped
  <2>2. DataTyped BY <1>3, <2>w DEF RestoreFile, TypeOK, DataTyped
  <2>3. ManagerTyped BY <1>3, <2>0, <2>w DEF RestoreFile, TypeOK, ManagerTyped
  <2>4. HandlerTyped BY <1>3, TextsTyped DEF RestoreFile, Done, TypeOK, HandlerTyped, Places
  <2>5. mishaps' \in SUBSET Races BY <1>3 DEF RestoreFile, TypeOK, Happened, Races
  <2>6. wanted' \in Texts BY <1>3, <2>0, TextsTyped DEF RestoreFile, TypeOK, Texts
  <2>7. GhostsTyped BY <1>3, <2>5, <2>6 DEF RestoreFile, TypeOK, GhostsTyped
  <2> QED BY <2>1, <2>2, <2>3, <2>4, <2>7, StepTyped
<1>4. CASE Apply
  <2>1. DataTyped BY <1>4, TextsTyped DEF Apply, TypeOK, DataTyped, Files
  <2>2. ManagerTyped BY <1>4, SameTyped DEF Apply, TypeOK, ManagerTyped
  <2>3. HandlerTyped BY <1>4, TextsTyped DEF Apply, TypeOK, HandlerTyped, Places
  <2>4. mishaps' \in SUBSET Races BY <1>4 DEF Apply, TypeOK, Happened, Races
  <2>5. GhostsTyped BY <1>4, <2>4 DEF Apply, TypeOK, GhostsTyped
  <2> QED BY <1>4, <2>1, <2>2, <2>3, <2>5, SameTyped, StepTyped DEF Apply
<1>5. CASE ApplyFails
  <2>1. HandlerTyped BY <1>5, TextsTyped DEF ApplyFails, Done, TypeOK, HandlerTyped, Places
  <2>2. mishaps' \in SUBSET Races BY <1>5 DEF ApplyFails, TypeOK, Races
  <2>3. GhostsTyped BY <1>5, <2>2 DEF ApplyFails, TypeOK, GhostsTyped
  <2> QED BY <1>5, <2>1, <2>3, SameTyped, StepTyped DEF ApplyFails
<1>6. CASE RefreshShadow
  <2>1. ManagerTyped BY <1>6, SameTyped DEF RefreshShadow, TypeOK, ManagerTyped
  <2>2. HandlerTyped BY <1>6, TextsTyped DEF RefreshShadow, Done, TypeOK, HandlerTyped, Places
  <2>3. mishaps' \in SUBSET Races BY <1>6 DEF RefreshShadow, TypeOK, Happened, Races
  <2>4. GhostsTyped BY <1>6, <2>3 DEF RefreshShadow, TypeOK, GhostsTyped
  <2> QED BY <1>6, <2>1, <2>2, <2>4, SameTyped, StepTyped DEF RefreshShadow
<1>7. CASE WriteBack
  <2>0. PICK lines \in Texts : Write(lines) BY <1>7 DEF WriteBack, TypeOK
  <2>w. file' \in Files /\ Suppressions(suppressed') /\ dirty' \in BOOLEAN
    BY <2>0, WriteTyped
  <2>1. WatcherTyped BY <1>7, <2>w DEF WriteBack, TypeOK, WatcherTyped
  <2>2. DataTyped BY <1>7, <2>w DEF WriteBack, TypeOK, DataTyped
  <2>3. ManagerTyped BY <1>7, <2>w DEF WriteBack, TypeOK, ManagerTyped
  <2>4. HandlerTyped BY <1>7, TextsTyped DEF WriteBack, Done, TypeOK, HandlerTyped, Places
  <2>5. mishaps' \in SUBSET Races BY <1>7 DEF WriteBack, TypeOK, Happened, Races
  <2>6. GhostsTyped BY <1>7, <2>5 DEF WriteBack, TypeOK, GhostsTyped
  <2> QED BY <2>1, <2>2, <2>3, <2>4, <2>6, StepTyped
<1> QED BY <1>1, <1>2, <1>3, <1>4, <1>5, <1>6, <1>7

\* Every step keeps the types.
LEMMA NextTyped ==
  ASSUME TypeOK, [Next]_vars
  PROVE  TypeOK'
<1>1. CASE UNCHANGED vars BY <1>1, SameTyped, StepTyped DEF vars
<1>2. CASE Next
  BY <1>2, StartTyped, UsersTyped, AgentsTyped, WatchTyped, EventTyped, SyncTyped DEF Next, Handle
<1> QED BY <1>1, <1>2

\* TypeOK: note, file, shadow, events and suppressions keep their types.
THEOREM MarkdownTypeCorrect == Spec => []TypeOK
<1>1. Init => TypeOK BY TypeInit
<1>2. TypeOK /\ [Next]_vars => TypeOK' BY NextTyped
<1> QED BY <1>1, <1>2, PTL DEF Spec

----------------------------------------------------------------------------
(* The handler at work.                                                    *)

Reading == {"read", "decide", "apply", "refresh", "restore", "writeback"}
Starting == {"hydrate", "seed"}

\* What the file says, and what the text says that the handler has read, as a note shows it.
FileLines == IF file = None THEN {} ELSE Shown(file.lines)
ReadLines == Shown(job.lines)

\* While the handler is at work nobody but the agent takes lines from the file; what it
\* puts is what it read unless it merged.
JobInv ==
  /\ at \in Reading => ReadLines \ FileLines \subseteq removed.agent
  /\ at \in {"read", "decide", "restore"} => job.put = job.lines /\ ~job.back
  /\ at \in {"apply", "refresh"} /\ ~job.back => job.put = job.lines
  /\ at \in {"decide", "restore", "refresh", "writeback"} => mapped

\* A file that is not mapped has no note and no shadow, and a note that is mapped has a
\* shadow.
MapInv ==
  /\ ~mapped /\ at \notin Starting => doc = None
  /\ mapped /\ doc # None /\ at # "refresh" => shadow # None
  /\ at = "decide" => shadow # None
  /\ ~mapped => shadow = None
  /\ at \in Starting => ~mapped

\* What the note has printed is printed again as it is.
CleanInv == Clean(LinesOf(doc)) /\ Clean(LinesOf(shadow)) /\ Clean(job.current)

WorkInv == TypeOK /\ JobInv /\ MapInv /\ CleanInv

\* What the agent's step does, seen from the lines.
LEMMA AgentDoes ==
  ASSUME TypeOK, AgentWrites \/ AgentRemovesFile
  PROVE  /\ UNCHANGED <<doc, mapped, shadow, suppressed, watching, known, timers, queue, at, job,
                        protected, mishaps>>
         /\ dirty' = TRUE /\ at \notin Starting
         /\ file' = None \/ (file' # None /\ file'.by = "agent")
         /\ removed'.agent = removed.agent \union (FileLines \ FileLines')
         /\ removed'.users = removed.users
         /\ FileLines' \ FileLines \subseteq AgentLines \union removed.agent
         /\ wanted' = (wanted \ (FileLines \ FileLines')) \union (FileLines' \ FileLines)
<1>1. PICK new \in Texts \union {None} :
        /\ AgentChanges(new)
        /\ IF new = None THEN file' = None ELSE file' = [lines |-> new, by |-> "agent"]
  BY TextsAreThere DEF AgentWrites, AgentRemovesFile
<1>2. /\ UNCHANGED <<doc, mapped, shadow, suppressed, watching, known, timers, queue, at, job,
                     protected, mishaps>>
      /\ dirty' = TRUE /\ at \notin Starting
  BY <1>1 DEF AgentChanges, manager, Starting
<1>3. /\ FileLines = IF file = None THEN {} ELSE Shown(file.lines)
      /\ FileLines' = Shown(LinesOf(new))
      /\ file' = None \/ (file' # None /\ file'.by = "agent")
  <2>1. CASE new = None
    <3>1. Shown({}) = {} BY ShownIs
    <3> QED BY <1>1, <2>1, <3>1 DEF FileLines, LinesOf
  <2>2. CASE new # None
    <3>1. file' = [lines |-> new, by |-> "agent"] /\ file' \in Files BY <1>1, <2>2 DEF Files
    <3>2. file' # None BY <3>1, FilesAreThere
    <3> QED BY <2>2, <3>1, <3>2 DEF FileLines, LinesOf
  <2> QED BY <2>1, <2>2
<1>4. /\ Shown(LinesOf(new)) \ FileLines \subseteq AgentLines \union removed.agent
      /\ wanted' = (wanted \ (FileLines \ Shown(LinesOf(new)))) \union (Shown(LinesOf(new)) \ FileLines)
      /\ removed' = [removed EXCEPT !.agent = @ \union (FileLines \ Shown(LinesOf(new)))]
  BY <1>1, <1>3 DEF AgentChanges
<1>5. /\ removed'.agent = removed.agent \union (FileLines \ Shown(LinesOf(new)))
      /\ removed'.users = removed.users
  BY <1>4 DEF TypeOK
<1> QED BY <1>2, <1>3, <1>4, <1>5

\* What the users' step does, seen from the lines.
LEMMA UsersDo ==
  ASSUME TypeOK, UserEdits \/ UserDeletesNote
  PROVE  /\ UNCHANGED <<file, mapped, shadow, suppressed, watching, dirty, known, timers, queue,
                        at, job, protected, mishaps>>
         /\ removed'.agent = removed.agent
         /\ doc # None
         /\ \/ doc' = None /\ wanted' = {}
            \/ /\ doc' \in Texts
               /\ \E l \in Lines :
                    \/ /\ l \in UserLines \ (doc \union removed.agent)
                       /\ doc' = doc \union {l} /\ wanted' = wanted \union {l}
                       /\ removed'.users = removed.users
                    \/ /\ l \in doc
                       /\ doc' = doc \ {l} /\ wanted' = wanted \ {l}
                       /\ removed'.users = removed.users \union {l}
<1>1. CASE UserEdits
  <2>0. /\ UNCHANGED <<file, mapped, shadow, suppressed, watching, dirty, known, timers, queue,
                       at, job, protected, mishaps>>
        /\ doc \in Texts
    BY <1>1 DEF UserEdits, manager, watcher, TypeOK
  <2>1. CASE \E l \in UserLines \ (doc \union removed.agent) :
               doc' = doc \union {l} /\ wanted' = wanted \union {l} /\ UNCHANGED removed
    <3>1. PICK l \in UserLines \ (doc \union removed.agent) :
            doc' = doc \union {l} /\ wanted' = wanted \union {l} /\ UNCHANGED removed
      BY <2>1
    <3>2. l \in Lines /\ doc' \in Texts /\ removed' = removed BY <2>0, <3>1 DEF Texts, Lines
    <3> QED BY <2>0, <3>1, <3>2, TextsAreThere
  <2>2. CASE \E l \in doc : /\ doc' = doc \ {l} /\ wanted' = wanted \ {l}
                           /\ removed' = [removed EXCEPT !.users = @ \union {l}]
    <3>1. PICK l \in doc : /\ doc' = doc \ {l} /\ wanted' = wanted \ {l}
                          /\ removed' = [removed EXCEPT !.users = @ \union {l}]
      BY <2>2
    <3>2. l \in Lines /\ doc' \in Texts BY <2>0, <3>1 DEF Texts
    <3>3. removed'.agent = removed.agent /\ removed'.users = removed.users \union {l}
      BY <3>1 DEF TypeOK
    <3> QED BY <2>0, <3>1, <3>2, <3>3, TextsAreThere
  <2> QED BY <1>1, <2>1, <2>2 DEF UserEdits
<1>2. CASE UserDeletesNote
  BY <1>2 DEF UserDeletesNote, manager, watcher
<1> QED BY <1>1, <1>2

\* What the watcher's steps and an expiry leave alone.
LEMMA WatchDoes ==
  ASSUME Watch \/ SuppressionExpires
  PROVE  UNCHANGED <<doc, file, mapped, shadow, at, job, removed, wanted>>
BY DEF Watch, WatchersReady, NoticeFile, NoticeRemoval, DeletionDue, SuppressionExpires, manager,
       watcher, ghosts

\* The handler leaves the removals to users and agent.
LEMMA HandleDoes ==
  ASSUME Handle
  PROVE  removed' = removed
BY DEF Handle, Hydrate, Seed, ReadFile, DeleteNote, RestoreKanwas, Preflight, Decide, RestoreFile,
       Apply, ApplyFails, RefreshShadow, WriteBack, ghosts

\* What the handler has in hand after it has read a file.
LEMMA ReadDoes ==
  ASSUME TypeOK, ReadFile
  PROVE  /\ at = "idle" /\ queue # <<>> /\ Head(queue) # "delete" /\ queue' = Tail(queue)
         /\ UNCHANGED <<doc, file, mapped, shadow, dirty, timers, removed, wanted, mishaps>>
         /\ file = None => at' = "idle" /\ job' = job
         /\ file # None =>
              /\ at' = "read"
              /\ job'.lines = file.lines /\ job'.put = file.lines /\ ~job'.back
              /\ job'.by = file.by /\ (file.by = "sync" => job'.exact)
<1>1. /\ at = "idle" /\ queue # <<>> /\ Head(queue) # "delete" /\ queue' = Tail(queue)
      /\ UNCHANGED <<doc, file, mapped, shadow, dirty, timers, removed, wanted, mishaps>>
      /\ file = None => at' = at /\ job' = job
  BY DEF ReadFile, Take, manager, ghosts
<1>2. ASSUME file # None
      PROVE  /\ at' = "read"
             /\ job'.lines = file.lines /\ job'.put = file.lines /\ ~job'.back
             /\ job'.by = file.by /\ (file.by = "sync" => job'.exact)
  <2>1. PICK exact \in (IF file.by = "sync" THEN {TRUE} ELSE BOOLEAN) :
          job' = [NoJob EXCEPT !.lines = file.lines, !.exact = exact, !.by = file.by,
                               !.put = file.lines]
    BY <1>2 DEF ReadFile
  <2>2. /\ job'.lines = file.lines /\ job'.put = file.lines /\ ~job'.back
        /\ job'.by = file.by /\ job'.exact = exact
    BY <2>1 DEF NoJob
  <2>3. at' = "read" BY <1>2 DEF ReadFile
  <2> QED BY <2>1, <2>2, <2>3
<1> QED BY <1>1, <1>2

\* What the preflight has done up to its await.
LEMMA PreflightDoes ==
  ASSUME TypeOK, Preflight
  PROVE  /\ at = "read" /\ UNCHANGED <<doc, file, mapped, shadow, dirty, timers, queue, removed, wanted>>
         /\ \/ /\ at' = "idle" /\ mapped /\ job.exact
               /\ mishaps' = mishaps \union
                    Happened(job.by = "agent" /\ job.lines # shadow, "write taken for an echo")
            \/ /\ at' = IF mapped /\ doc # None THEN "decide" ELSE "apply"
               /\ job'.lines = job.lines /\ job'.put = job.put /\ job'.back = job.back
               /\ job'.exact = job.exact /\ job'.current = LinesOf(doc)
               /\ mishaps' = mishaps
BY DEF Preflight, Done, Suppressed, TypeOK, watcher

\* What a merge shows.
LEMMA MergeShows ==
  ASSUME WorkInv, shadow # None, ~Clash
  PROVE  Shown(Merged) = (job.current \ (shadow \ ReadLines)) \union (ReadLines \ shadow)
<1>1. Base = shadow BY DEF Base
<1>2. Clean(shadow) /\ Clean(job.current) BY DEF WorkInv, CleanInv, LinesOf
<1>3. (shadow \ job.current) \intersect Shown(job.lines \ shadow) = {} BY <1>1 DEF Clash
<1> QED BY <1>1, <1>2, <1>3, ShownMerge DEF Merged, ReadLines

\* What the rest of it may decide, the note and the file being left alone.
LEMMA DecideDoes ==
  ASSUME WorkInv, Decide
  PROVE  /\ at = "decide" /\ mapped /\ shadow # None
         /\ UNCHANGED <<doc, file, mapped, dirty, timers, queue, removed, wanted, mishaps>>
         /\ \/ SameAsNote /\ at' = "idle" /\ shadow' = job.current
            \/ ~SameAsNote /\ shadow = job.current /\ at' = "apply" /\ shadow' = shadow /\ job' = job
            \/ /\ shadow # job.current /\ shadow' = shadow
               /\ at' = "restore" /\ job' = job
            \/ /\ shadow # job.current /\ (Merged # job.current \/ ~job.exact) /\ ~Clash
               /\ at' = "apply" /\ shadow' = shadow
               /\ job'.lines = job.lines /\ job'.put = Merged
               /\ job'.current = job.current /\ job'.exact = job.exact
               /\ ~job'.back => job'.put = job'.lines
<1>1. /\ at = "decide" /\ mapped /\ shadow # None
      /\ UNCHANGED <<doc, file, mapped, dirty, timers, queue, removed, wanted, mishaps>>
  BY DEF Decide, WorkInv, MapInv, JobInv, watcher, ghosts
<1>2. Base = shadow BY <1>1 DEF Base
<1>3. CASE SameAsNote /\ Done /\ shadow' = job.current
  BY <1>1, <1>3 DEF Done
<1>4. CASE ~SameAsNote /\ Base = job.current /\ at' = "apply" /\ shadow' = Base /\ job' = job
  BY <1>1, <1>2, <1>4
<1>5. CASE ~SameAsNote /\ Base # job.current /\ at' = "restore" /\ shadow' = shadow /\ job' = job
  BY <1>1, <1>2, <1>5
<1>6. CASE /\ ~SameAsNote /\ Base # job.current /\ (Merged # job.current \/ ~job.exact) /\ ~Clash
           /\ at' = "apply" /\ shadow' = shadow
           /\ \E back \in IF Merged = job.lines THEN BOOLEAN ELSE {TRUE} :
                job' = [job EXCEPT !.put = Merged, !.back = back]
  <2>1. PICK back \in (IF Merged = job.lines THEN BOOLEAN ELSE {TRUE}) :
          job' = [job EXCEPT !.put = Merged, !.back = back]
    BY <1>6
  <2>2. /\ job'.lines = job.lines /\ job'.put = Merged /\ job'.back = back
        /\ job'.current = job.current /\ job'.exact = job.exact
    BY <2>1 DEF TypeOK, WorkInv
  <2>3. back \/ Merged = job.lines BY <2>1
  <2> QED BY <1>1, <1>2, <1>6, <2>2, <2>3
<1> QED BY <1>3, <1>4, <1>5, <1>6 DEF Decide

----------------------------------------------------------------------------

\* Init and every step keep what the handler knows of its locals and the mapping.
LEMMA WorkInit == Init => WorkInv
<1> SUFFICES ASSUME Init PROVE WorkInv
  OBVIOUS
<1>1. at = "hydrate" /\ ~mapped /\ shadow = None /\ doc \subseteq UserLines /\ job = NoJob
  BY DEF Init
<1>2. LinesOf(doc) \subseteq UserLines BY <1>1 DEF LinesOf
<1>3. CleanInv BY <1>1, <1>2, PrintedAssumption DEF CleanInv, Clean, LinesOf, NoJob
<1> QED BY <1>1, <1>3, TypeInit DEF WorkInv, JobInv, MapInv, Reading, Starting

\* Every step keeps the note, the shadow and the note that is compared with as printed.
LEMMA CleanNext ==
  ASSUME TypeOK, CleanInv, [Next]_vars
  PROVE  CleanInv'
<1> USE DEF CleanInv
<1>0. Clean({}) BY DEF Clean
<1>1. CASE UNCHANGED <<doc, shadow, job>>
  BY <1>1 DEF LinesOf
<1>2. CASE UserEdits \/ UserDeletesNote
  <2>1. UNCHANGED <<shadow, job>> /\ doc # None BY <1>2, UsersDo
  <2>2. LinesOf(shadow)' = LinesOf(shadow) /\ LinesOf(doc) = doc BY <2>1 DEF LinesOf
  <2>3. CASE doc' = None BY <1>0, <2>1, <2>2, <2>3 DEF LinesOf
  <2>4. CASE doc' # None
    <3>1. LinesOf(doc)' = doc' BY <2>4 DEF LinesOf
    <3>2. \A l \in doc' : l \in doc \/ l \in UserLines
      BY <1>2, <2>4, UsersDo
    <3>3. Clean(doc') BY <2>2, <3>2, PrintedAssumption DEF Clean
    <3> QED BY <2>1, <2>2, <3>1, <3>3
  <2> QED BY <2>3, <2>4
<1>3. CASE Seed
  <2>1. UNCHANGED <<doc, job>> /\ shadow' = doc BY <1>3 DEF Seed
  <2> QED BY <2>1 DEF LinesOf
<1>4. CASE ReadFile
  <2>1. UNCHANGED <<doc, shadow>> /\ (job' = job \/ job'.current = {})
    BY <1>4 DEF ReadFile, NoJob, manager
  <2> QED BY <1>0, <2>1 DEF LinesOf
<1>5. CASE DeleteNote
  <2>1. /\ job' = job
        /\ (doc' = doc /\ shadow' = shadow) \/ (doc' = None /\ shadow' = None)
    BY <1>5 DEF DeleteNote
  <2> QED BY <1>0, <2>1 DEF LinesOf
<1>6. CASE Preflight
  <2>0. NoJob.current = {} BY DEF NoJob
  <2>1. UNCHANGED <<doc, shadow>> /\ (job' = NoJob \/ job' = [job EXCEPT !.current = LinesOf(doc)])
    BY <1>6 DEF Preflight, Done
  <2>2. job'.current = {} \/ job'.current = LinesOf(doc) BY <2>0, <2>1 DEF TypeOK
  <2> QED BY <1>0, <2>1, <2>2 DEF LinesOf
<1>7. CASE Decide
  <2>0. NoJob.current = {} BY DEF NoJob
  <2>a. doc' = doc /\ (job' = NoJob \/ job' = job \/ \E back \in BOOLEAN :
                         job' = [job EXCEPT !.put = Merged, !.back = back])
    BY <1>7 DEF Decide, Done
  <2>1. doc' = doc /\ (job'.current = {} \/ job'.current = job.current)
    BY <2>0, <2>a DEF TypeOK
  <2>2. shadow' = shadow \/ shadow' = job.current BY <1>7 DEF Decide, Base
  <2>3. shadow' = None \/ Clean(shadow') BY <2>2 DEF LinesOf
  <2> QED BY <1>0, <2>1, <2>3 DEF LinesOf
<1>8. CASE RestoreFile
  <2>1. doc' = doc /\ shadow' = job.current /\ job' = NoJob BY <1>8 DEF RestoreFile, Done
  <2> QED BY <1>0, <2>1 DEF LinesOf, NoJob
<1>9. CASE Apply
  <2>1. doc' = Shown(job.put) /\ UNCHANGED <<shadow, job>> /\ job.put \in Texts
    BY <1>9 DEF Apply, TypeOK
  <2>2. Clean(doc') BY <2>1, ShownClean
  <2> QED BY <1>0, <2>1, <2>2 DEF LinesOf
<1>10. CASE ApplyFails \/ WriteBack
  <2>1. UNCHANGED <<doc, shadow>> /\ job' = NoJob
    BY <1>10 DEF ApplyFails, WriteBack, Done, manager
  <2> QED BY <1>0, <2>1 DEF LinesOf, NoJob
<1>11. CASE RefreshShadow
  <2>1. doc' = doc /\ shadow' = doc /\ (job' = job \/ job' = NoJob)
    BY <1>11 DEF RefreshShadow, Done
  <2> QED BY <1>0, <2>1 DEF LinesOf, NoJob
<1>12. UNCHANGED vars \/ Watch \/ SuppressionExpires \/ AgentWrites \/ AgentRemovesFile
         \/ Hydrate \/ RestoreKanwas => UNCHANGED <<doc, shadow, job>>
  BY WatchDoes, AgentDoes DEF vars, manager, Hydrate, RestoreKanwas
<1> QED BY <1>1, <1>2, <1>3, <1>4, <1>5, <1>6, <1>7, <1>8, <1>9, <1>10, <1>11, <1>12
        DEF Next, Handle

\* Every step keeps what the handler knows of its locals and the mapping.
LEMMA WorkNext == WorkInv /\ [Next]_vars => WorkInv'
<1> SUFFICES ASSUME WorkInv, [Next]_vars PROVE WorkInv'
  OBVIOUS
<1> USE DEF WorkInv
<1>0. TypeOK' /\ CleanInv' BY NextTyped, CleanNext
<1>1. CASE UNCHANGED vars
  BY <1>0, <1>1 DEF vars, manager, watcher, ghosts, JobInv, MapInv, FileLines, ReadLines
<1>2. CASE Watch \/ SuppressionExpires
  BY <1>0, <1>2, WatchDoes DEF JobInv, MapInv, FileLines, ReadLines
<1>3. CASE UserEdits \/ UserDeletesNote
  <2>1. JobInv' BY <1>3, UsersDo DEF JobInv, FileLines, ReadLines
  <2>2. MapInv' BY <1>3, UsersDo DEF MapInv
  <2> QED BY <1>0, <2>1, <2>2
<1>4. CASE AgentWrites \/ AgentRemovesFile
  <2>1. JobInv' BY <1>4, AgentDoes DEF JobInv, ReadLines
  <2>2. MapInv' BY <1>4, AgentDoes DEF MapInv
  <2> QED BY <1>0, <2>1, <2>2
<1>5. CASE Handle
  <2>0. removed' = removed BY <1>5, HandleDoes
  <2>1. CASE Hydrate
    BY <1>0, <2>1 DEF Hydrate, JobInv, MapInv, Reading, Starting, manager
  <2>2. CASE Seed
    BY <1>0, <2>2 DEF Seed, JobInv, MapInv, Reading, Starting
  <2>3. CASE ReadFile
    BY <1>0, <2>0, <2>3, ReadDoes DEF JobInv, MapInv, Reading, Starting, FileLines, ReadLines
  <2>4. CASE DeleteNote
    BY <1>0, <2>4 DEF DeleteNote, Take, JobInv, MapInv, Reading, Starting
  <2>5. CASE RestoreKanwas
    BY <1>0, <2>5 DEF RestoreKanwas, Take, JobInv, MapInv, Reading, Starting
  <2>6. CASE Preflight
    BY <1>0, <2>0, <2>6, PreflightDoes DEF JobInv, MapInv, Reading, Starting, FileLines, ReadLines
  <2>7. CASE Decide
    <3>1. job.current # None BY TextsAreThere DEF TypeOK
    <3> QED BY <1>0, <2>0, <2>7, <3>1, DecideDoes DEF JobInv, MapInv, Reading, Starting, FileLines, ReadLines
  <2>8. CASE RestoreFile
    <3>1. shadow' # None BY <2>8, TextsAreThere DEF RestoreFile, TypeOK
    <3>2. at' = "idle" /\ mapped' = mapped /\ doc' = doc /\ at = "restore"
      BY <2>8 DEF RestoreFile, Done
    <3> QED BY <1>0, <3>1, <3>2 DEF JobInv, MapInv, Reading, Starting
  <2>9. CASE Apply
    <3>1. /\ at' = "refresh" /\ mapped' = TRUE /\ UNCHANGED <<file, job, shadow>> /\ at = "apply"
      BY <2>9 DEF Apply
    <3> QED BY <1>0, <2>0, <3>1 DEF JobInv, MapInv, Reading, Starting, FileLines, ReadLines
  <2>10. CASE ApplyFails
    BY <1>0, <2>10 DEF ApplyFails, Done, JobInv, MapInv, Reading, Starting, manager
  <2>11. CASE RefreshShadow
    <3>1. /\ shadow' = doc /\ UNCHANGED <<doc, file, mapped>> /\ at = "refresh"
          /\ \/ at' = "writeback" /\ job' = job
             \/ at' = "idle"
      BY <2>11 DEF RefreshShadow, Done
    <3> QED BY <1>0, <2>0, <3>1 DEF JobInv, MapInv, Reading, Starting, FileLines, ReadLines
  <2>12. CASE WriteBack
    BY <1>0, <2>12 DEF WriteBack, Done, JobInv, MapInv, Reading, Starting
  <2> QED BY <1>5, <2>1, <2>2, <2>3, <2>4, <2>5, <2>6, <2>7, <2>8, <2>9, <2>10, <2>11, <2>12
          DEF Handle
<1> QED BY <1>1, <1>2, <1>3, <1>4, <1>5 DEF Next

----------------------------------------------------------------------------
(* No line of the users is lost.                                           *)

\* A race that has happened is not forgotten.
LEMMA RacesKept == [Next]_vars => mishaps \subseteq mishaps'
BY DEF Next, Watch, Handle, WatchersReady, NoticeFile, NoticeRemoval, DeletionDue,
       SuppressionExpires, UserEdits, UserDeletesNote, AgentWrites, AgentRemovesFile, AgentChanges,
       Hydrate, Seed, ReadFile, DeleteNote, RestoreKanwas, Preflight, Decide, RestoreFile, Apply,
       ApplyFails, RefreshShadow, WriteBack, vars, ghosts

\* The same, where no race has happened yet.
LEMMA RacesStay ==
  ASSUME [Next]_vars, mishaps' = {}
  PROVE  mishaps = {}
BY RacesKept

\* What the shadow has and the file has not, the agent took away; so a merge takes from the
\* note what the agent took away, and nothing else.
ShadowInv ==
  /\ at # "writeback" => LinesOf(shadow) \ FileLines \subseteq removed.agent
  /\ at \in {"read", "decide", "apply"} => LinesOf(shadow) \ ReadLines \subseteq removed.agent
  /\ at = "apply" => job.current \ Shown(job.put) \subseteq removed.agent

LinesInv == WorkInv /\ (mishaps = {} => ShadowInv /\ UserLinesKept)

\* Every step keeps ShadowInv.
LEMMA ShadowNext ==
  ASSUME WorkInv, mishaps = {}, ShadowInv, [Next]_vars, mishaps' = {}
  PROVE  ShadowInv'
<1> USE DEF ShadowInv
<1>1. CASE UNCHANGED vars
  BY <1>1 DEF vars, manager, watcher, ghosts, FileLines, ReadLines, LinesOf
<1>2. CASE Watch \/ SuppressionExpires
  BY <1>2, WatchDoes DEF FileLines, ReadLines, LinesOf
<1>3. CASE UserEdits \/ UserDeletesNote
  BY <1>3, UsersDo DEF FileLines, ReadLines, LinesOf, WorkInv
<1>4. CASE AgentWrites \/ AgentRemovesFile
  BY <1>4, AgentDoes DEF LinesOf, ReadLines, WorkInv
<1>5. CASE Handle
  <2>0. removed' = removed BY <1>5, HandleDoes
  <2>1. CASE Hydrate
    BY <2>1 DEF Hydrate, WorkInv, MapInv, Starting, manager, LinesOf
  <2>2. CASE Seed
    <3>1. doc = IF file = None THEN None ELSE file.lines
      BY <2>2 DEF Seed, Happened
    <3>2. at' = "idle" /\ shadow' = doc /\ file' = file BY <2>2 DEF Seed
    <3>3. LinesOf(shadow') = FileLines'
      <4>1. CASE file = None BY <3>1, <3>2, <4>1 DEF LinesOf, FileLines
      <4>2. CASE file # None
        <5>1. doc = file.lines /\ doc # None
          BY <3>1, <4>2, TextsAreThere DEF WorkInv, TypeOK
        <5>2. Shown(doc) = doc BY <5>1, CleanShown DEF WorkInv, CleanInv, LinesOf
        <5> QED BY <3>2, <4>2, <5>1, <5>2 DEF LinesOf, FileLines
      <4> QED BY <4>1, <4>2
    <3> QED BY <3>2, <3>3 DEF LinesOf
  <2>3. CASE ReadFile
    BY <2>0, <2>3, ReadDoes DEF WorkInv, FileLines, ReadLines, LinesOf
  <2>4. CASE DeleteNote
    <3>1. at' = "idle" /\ file' = file /\ (shadow' = None \/ shadow' = shadow) /\ at = "idle"
      BY <2>4 DEF DeleteNote, Take
    <3> QED BY <2>0, <3>1 DEF LinesOf, FileLines
  <2>5. CASE RestoreKanwas
    <3>1. shadow = doc BY <2>5 DEF RestoreKanwas, Happened
    <3>2. /\ at' = "idle" /\ shadow' = shadow /\ doc # None
          /\ file' = [lines |-> doc, by |-> "sync"]
      BY <2>5 DEF RestoreKanwas, Take, Write
    <3>3. LinesOf(shadow)' \subseteq FileLines'
      <4>1. file' \in Files BY <3>2 DEF WorkInv, TypeOK, Files
      <4>2. file' # None BY <4>1, FilesAreThere
      <4>3. Shown(doc) = doc BY <3>2, CleanShown DEF WorkInv, CleanInv, LinesOf
      <4> QED BY <3>1, <3>2, <4>2, <4>3 DEF LinesOf, FileLines
    <3> QED BY <3>2, <3>3
  <2>6. CASE Preflight
    <3>1. at' \in {"idle", "decide"} \/ (at' = "apply" /\ job'.current = LinesOf(doc) /\ (doc = None \/ ~mapped))
      BY <2>6, PreflightDoes DEF WorkInv
    <3>2. at' = "apply" => job'.current = {}
      BY <2>6, <3>1, PreflightDoes DEF WorkInv, MapInv, Starting, LinesOf
    <3> QED BY <2>0, <2>6, <3>2, PreflightDoes DEF WorkInv, FileLines, ReadLines, LinesOf
  <2>7. CASE Decide
    <3>1. /\ LinesOf(shadow) = shadow /\ shadow # None /\ at = "decide"
          /\ shadow \ ReadLines \subseteq removed.agent /\ file' = file
      BY <2>7, DecideDoes DEF LinesOf
    <3>2. CASE SameAsNote /\ at' = "idle" /\ shadow' = job.current
      <4>1. ReadLines \ FileLines \subseteq removed.agent /\ job.lines = job.current /\ job.current # None
        BY <3>1, <3>2, TextsAreThere DEF WorkInv, JobInv, Reading, SameAsNote, TypeOK
      <4>2. ReadLines = job.current BY <4>1, CleanShown DEF WorkInv, CleanInv, ReadLines
      <4> QED BY <2>0, <3>1, <3>2, <4>1, <4>2 DEF LinesOf, FileLines
    <3>3. CASE shadow = job.current /\ at' = "apply" /\ shadow' = shadow /\ job' = job
      <4>1. job.put = job.lines BY <3>1 DEF WorkInv, JobInv
      <4>2. job.current \ Shown(job.put) \subseteq removed.agent BY <3>1, <3>3, <4>1 DEF ReadLines
      <4> QED BY <2>0, <3>1, <3>3, <4>2 DEF LinesOf, FileLines, ReadLines
    <3>4. CASE shadow' = shadow /\ at' = "restore" /\ job' = job
      <4> QED BY <2>0, <3>1, <3>4 DEF LinesOf, FileLines
    <3>5. CASE /\ ~Clash /\ at' = "apply" /\ shadow' = shadow
               /\ job'.lines = job.lines /\ job'.put = Merged /\ job'.current = job.current
      <4>1. job.current \ Shown(Merged) \subseteq shadow \ ReadLines BY <3>1, <3>5, MergeShows
      <4>2. job'.current \ Shown(job'.put) \subseteq removed.agent BY <3>1, <3>5, <4>1
      <4>3. ReadLines' = ReadLines /\ LinesOf(shadow)' = shadow /\ FileLines' = FileLines
        BY <3>1, <3>5 DEF LinesOf, FileLines, ReadLines
      <4> QED BY <2>0, <3>1, <3>5, <4>2, <4>3
    <3> QED BY <2>7, <3>2, <3>3, <3>4, <3>5, DecideDoes
  <2>8. CASE RestoreFile
    <3>1. /\ at' = "idle" /\ shadow' = job.current /\ file' = [lines |-> job.current, by |-> "sync"]
      BY <2>8 DEF RestoreFile, Done, Write
    <3>2. file' \in Files /\ job.current # None
      BY <3>1, TextsAreThere DEF WorkInv, TypeOK, Files
    <3>3. Shown(job.current) = job.current BY CleanShown DEF WorkInv, CleanInv
    <3> QED BY <3>1, <3>2, <3>3, FilesAreThere DEF LinesOf, FileLines
  <2>9. CASE Apply
    <3>1. at' = "refresh" /\ UNCHANGED <<file, shadow>> /\ at = "apply" BY <2>9 DEF Apply
    <3> QED BY <2>0, <3>1 DEF LinesOf, FileLines
  <2>10. CASE ApplyFails
    BY <2>10 DEF ApplyFails
  <2>11. CASE RefreshShadow
    <3>1. /\ at = "refresh" /\ shadow' = doc /\ file' = file
          /\ \/ at' = "writeback"
             \/ at' = "idle" /\ ~job.back /\ LinesOf(doc) = Shown(job.put)
      BY <2>11 DEF RefreshShadow, Done, Happened
    <3>2. CASE at' = "writeback" BY <3>2
    <3>3. CASE at' = "idle" /\ ~job.back /\ LinesOf(doc) = Shown(job.put)
      <4>1. LinesOf(shadow') = ReadLines /\ ReadLines \ FileLines \subseteq removed.agent
        BY <3>1, <3>3 DEF WorkInv, JobInv, Reading, LinesOf, ReadLines
      <4> QED BY <2>0, <3>1, <3>3, <4>1 DEF LinesOf, FileLines
    <3> QED BY <3>1, <3>2, <3>3
  <2>12. CASE WriteBack
    <3>1. /\ at' = "idle" /\ shadow' = shadow
          /\ file' = [lines |-> IF shadow = None THEN job.put ELSE shadow, by |-> "sync"]
      BY <2>12 DEF WriteBack, Done, Write
    <3>2. file' \in Files BY <3>1 DEF WorkInv, TypeOK, Files
    <3>3. shadow # None => Shown(shadow) = shadow BY CleanShown DEF WorkInv, CleanInv, LinesOf
    <3> QED BY <3>1, <3>2, <3>3, FilesAreThere DEF LinesOf, FileLines
  <2> QED BY <1>5, <2>1, <2>2, <2>3, <2>4, <2>5, <2>6, <2>7, <2>8, <2>9, <2>10, <2>11, <2>12
          DEF Handle
<1> QED BY <1>1, <1>2, <1>3, <1>4, <1>5 DEF Next

\* Every step keeps the lines of the users in the note: Apply because of ShadowInv.
LEMMA UserLinesNext ==
  ASSUME WorkInv, mishaps = {}, ShadowInv, UserLinesKept, [Next]_vars, mishaps' = {}
  PROVE  UserLinesKept'
<1> DEFINE due == (wanted \intersect UserLines) \ removed.agent
<1>0. due \subseteq LinesOf(doc) BY DEF UserLinesKept
<1> SUFFICES due' \subseteq LinesOf(doc)'
  BY DEF UserLinesKept
<1>1. CASE UNCHANGED vars
  BY <1>0, <1>1 DEF vars, ghosts, LinesOf
<1>2. CASE Watch \/ SuppressionExpires
  BY <1>0, <1>2, WatchDoes DEF LinesOf
<1>3. CASE UserEdits \/ UserDeletesNote
  <2>1. removed'.agent = removed.agent /\ doc # None /\ due \subseteq doc
    BY <1>0, <1>3, UsersDo DEF WorkInv, LinesOf
  <2>2. CASE doc' = None /\ wanted' = {}
    BY <2>2
  <2>3. CASE doc' \in Texts /\ \E l \in Lines :
               \/ doc' = doc \union {l} /\ wanted' = wanted \union {l}
               \/ l \in doc /\ doc' = doc \ {l} /\ wanted' = wanted \ {l}
    <3>1. LinesOf(doc)' = doc' BY <2>3, TextsAreThere DEF LinesOf
    <3> QED BY <2>1, <2>3, <3>1
  <2> QED BY <1>3, <2>2, <2>3, UsersDo DEF WorkInv
<1>5. CASE AgentWrites \/ AgentRemovesFile
  <2>1. /\ doc' = doc /\ removed'.agent = removed.agent \union (FileLines \ FileLines')
        /\ FileLines' \ FileLines \subseteq AgentLines \union removed.agent
        /\ wanted' = (wanted \ (FileLines \ FileLines')) \union (FileLines' \ FileLines)
    BY <1>5, AgentDoes DEF WorkInv
  <2>2. due' \subseteq due BY <2>1, MarkdownSyncAssumption
  <2> QED BY <1>0, <2>1, <2>2 DEF LinesOf
<1>6. CASE Handle
  <2>0. removed' = removed BY <1>6, HandleDoes
  <2>1. CASE Hydrate \/ Seed \/ ReadFile \/ Preflight \/ Decide \/ ApplyFails \/ RefreshShadow \/ WriteBack
    <3>1. UNCHANGED <<doc, wanted>>
      BY <2>1 DEF Hydrate, Seed, ReadFile, Preflight, Decide, ApplyFails, RefreshShadow, WriteBack, ghosts
    <3> QED BY <1>0, <2>0, <3>1 DEF LinesOf
  <2>2. CASE DeleteNote
    <3>1. wanted' = {} \/ UNCHANGED <<doc, wanted>> BY <2>2 DEF DeleteNote
    <3> QED BY <1>0, <2>0, <3>1 DEF LinesOf
  <2>3. CASE RestoreKanwas
    <3>1. doc' = doc /\ wanted' = wanted \union doc /\ doc # None BY <2>3 DEF RestoreKanwas
    <3> QED BY <1>0, <2>0, <3>1 DEF LinesOf
  <2>4. CASE RestoreFile
    <3>1. /\ doc' = doc
          /\ wanted' = (wanted \ (ReadLines \ (job.current \union LinesOf(doc))))
                         \union ((job.current \ ReadLines) \intersect LinesOf(doc))
      BY <2>4 DEF RestoreFile, ReadLines
    <3> QED BY <1>0, <2>0, <3>1 DEF LinesOf
  <2>5. CASE Apply
    <3>1. /\ at = "apply" /\ doc' = Shown(job.put) /\ wanted' = wanted /\ LinesOf(doc) = job.current
      BY <2>5 DEF Apply, Happened
    <3>2. LinesOf(doc)' = Shown(job.put) BY <3>1, TextsAreThere, TextsTyped DEF LinesOf, WorkInv
    <3>3. job.current \ Shown(job.put) \subseteq removed.agent BY <3>1 DEF ShadowInv
    <3> QED BY <1>0, <2>0, <3>1, <3>2, <3>3
  <2> QED BY <1>6, <2>1, <2>2, <2>3, <2>4, <2>5 DEF Handle
<1> QED BY <1>1, <1>2, <1>3, <1>5, <1>6 DEF Next

\* Users' lines stay in the note (UserLinesKept) whatever the agent, the watcher and the
\* handler do between them, unless one of the races named in mishaps has happened: a merge
\* starts from a shadow the file has had, and takes from the note only what the agent took.
THEOREM NoUserLineLost == Spec => []UserLinesKept
<1>1. Init => LinesInv
  <2> SUFFICES ASSUME Init PROVE LinesInv
    OBVIOUS
  <2>1. shadow = None /\ at = "hydrate" /\ wanted = doc /\ doc # None
    BY TextsAreThere DEF Init, Texts, Lines
  <2> QED BY <2>1, WorkInit DEF LinesInv, ShadowInv, UserLinesKept, LinesOf
<1>2. LinesInv /\ [Next]_vars => LinesInv'
  <2> SUFFICES ASSUME LinesInv, [Next]_vars PROVE LinesInv'
    OBVIOUS
  <2>1. WorkInv' BY WorkNext DEF LinesInv
  <2>2. ASSUME mishaps' = {} PROVE ShadowInv' /\ UserLinesKept'
    <3>1. mishaps = {} BY <2>2, RacesStay
    <3> QED BY <2>2, <3>1, ShadowNext, UserLinesNext DEF LinesInv
  <2> QED BY <2>1, <2>2 DEF LinesInv
<1>3. LinesInv => UserLinesKept
  BY DEF LinesInv, UserLinesKept
<1> QED BY <1>1, <1>2, <1>3, PTL DEF Spec

----------------------------------------------------------------------------
(* What is still to be reported, and what the file holds meanwhile.        *)

\* Events on their way: a change of the file, its removal.
Changed == \E i \in 1 .. Len(queue) : queue[i] # "delete"
Removal == \E i \in 1 .. Len(queue) : queue[i] = "delete"
Gone == timers > 0 \/ Removal

\* An event that is queued is one of the two, and the others stay.
LEMMA QueueGrows ==
  ASSUME queue \in Seq(Events), NEW type \in Events, queue' = Append(queue, type)
  PROVE  /\ Changed => Changed'
         /\ Removal => Removal'
         /\ type # "delete" => Changed'
         /\ type = "delete" => Removal'
<1>1. /\ Len(queue') = Len(queue) + 1 /\ Len(queue) \in Nat
      /\ \A i \in 1 .. Len(queue) : queue'[i] = queue[i]
      /\ queue'[Len(queue) + 1] = type
  OBVIOUS
<1>2. Len(queue) + 1 \in 1 .. Len(queue') BY <1>1
<1>3. 1 .. Len(queue) \subseteq 1 .. Len(queue') BY <1>1
<1>4. Changed => Changed' BY <1>1, <1>3 DEF Changed
<1>5. Removal => Removal' BY <1>1, <1>3 DEF Removal
<1>6. type # "delete" => Changed' BY <1>1, <1>2 DEF Changed
<1>7. type = "delete" => Removal' BY <1>1, <1>2 DEF Removal
<1> QED BY <1>4, <1>5, <1>6, <1>7

\* The event that is taken is the only one to go.
LEMMA QueueShrinks ==
  ASSUME queue \in Seq(Events), queue # <<>>, queue' = Tail(queue)
  PROVE  /\ Head(queue) = "delete" /\ Changed => Changed'
         /\ Head(queue) # "delete" /\ Removal => Removal'
<1>1. /\ Len(queue) \in Nat \ {0} /\ Len(queue') = Len(queue) - 1
      /\ \A i \in 1 .. Len(queue') : queue'[i] = queue[i + 1]
      /\ Head(queue) = queue[1]
  OBVIOUS
<1>2. \A i \in 1 .. Len(queue) : i = 1 \/ (i - 1 \in 1 .. Len(queue') /\ queue'[i - 1] = queue[i])
  <2> TAKE i \in 1 .. Len(queue)
  <2> SUFFICES ASSUME i # 1 PROVE i - 1 \in 1 .. Len(queue') /\ queue'[i - 1] = queue[i]
    OBVIOUS
  <2>1. i - 1 \in 1 .. Len(queue') BY <1>1
  <2>2. (i - 1) + 1 = i OBVIOUS
  <2> QED BY <1>1, <2>1, <2>2
<1>3. ASSUME Head(queue) = "delete", Changed PROVE Changed'
  <2>1. PICK i \in 1 .. Len(queue) : queue[i] # "delete" BY <1>3 DEF Changed
  <2>2. i # 1 BY <1>1, <1>3, <2>1
  <2>3. i - 1 \in 1 .. Len(queue') /\ queue'[i - 1] # "delete" BY <1>2, <2>1, <2>2
  <2> QED BY <2>3 DEF Changed
<1>4. ASSUME Head(queue) # "delete", Removal PROVE Removal'
  <2>1. PICK i \in 1 .. Len(queue) : queue[i] = "delete" BY <1>4 DEF Removal
  <2>2. i # 1 BY <1>1, <1>4, <2>1
  <2>3. i - 1 \in 1 .. Len(queue') /\ queue'[i - 1] = "delete" BY <1>2, <2>1, <2>2
  <2> QED BY <2>3 DEF Removal
<1> QED BY <1>3, <1>4

SyncFile == file # None /\ file.by = "sync"

\* A file the manager wrote and nobody has changed is what the shadow says, and the handler
\* does nothing with it but restore it.
OwnText ==
  /\ SyncFile /\ at \notin Starting => mapped /\ (shadow = file.lines \/ doc = None)
  /\ SyncFile /\ at \in Reading => job.lines = file.lines /\ job.exact
  /\ at \in {"refresh", "writeback"} => ~SyncFile
  /\ at = "apply" /\ mapped /\ doc # None => ~SyncFile
  /\ at = "read" /\ job.by = "sync" /\ file # None => SyncFile \/ dirty \/ Changed

\* A file is as the manager knows it, in the handler's hands, or to be reported yet; and a
\* file that is gone has no mapping, or its deletion is to be reported yet.
FileSeen ==
  /\ file # None /\ at \notin Starting =>
       \/ dirty \/ Changed
       \/ IF at \in Reading THEN job.lines = file.lines
                            ELSE mapped /\ (doc # None => shadow = FileLines)
  /\ file = None /\ (mapped \/ at \in Reading) => dirty \/ Gone

\* What a step of the watcher leaves to be reported.
LEMMA WatchReports ==
  ASSUME TypeOK, Watch \/ SuppressionExpires
  PROVE  /\ Changed => Changed'
         /\ Gone => Gone'
         /\ file # None /\ dirty => dirty' \/ Changed' \/ "changed before the watch" \in mishaps'
         /\ mishaps' = {} /\ file = None /\ dirty => dirty' \/ Gone'
<1>1. CASE WatchersReady
  <2>1. UNCHANGED <<timers, queue>> BY <1>1 DEF WatchersReady
  <2> QED BY <1>1, <2>1 DEF WatchersReady, Happened, Changed, Gone, Removal
<1>2. CASE NoticeFile
  <2>1. PICK type \in Events : queue' = Append(queue, type) /\ type # "delete"
    BY <1>2 DEF NoticeFile, Events
  <2>2. Changed' /\ (Removal => Removal') BY <2>1, QueueGrows DEF TypeOK
  <2> QED BY <1>2, <2>2 DEF NoticeFile, Gone
<1>3. CASE NoticeRemoval
  <2>1. queue' = queue /\ timers' = timers + (IF known THEN 1 ELSE 0) /\ file = None
        /\ (~known => mishaps' # {})
    BY <1>3 DEF NoticeRemoval, Happened
  <2>2. (known => timers' > 0) /\ (timers > 0 => timers' > 0) BY <2>1 DEF TypeOK
  <2> QED BY <2>1, <2>2 DEF Gone, Changed, Removal
<1>4. CASE DeletionDue
  <2>1. Removal' /\ (Changed => Changed')
    BY <1>4, QueueGrows DEF DeletionDue, TypeOK, Events
  <2> QED BY <1>4, <2>1 DEF DeletionDue, Gone
<1>5. CASE SuppressionExpires
  BY <1>5 DEF SuppressionExpires, watcher, Changed, Gone, Removal
<1> QED BY <1>1, <1>2, <1>3, <1>4, <1>5 DEF Watch

\* What a step of the handler leaves to be reported: it takes an event, or leaves the queue
\* alone; a write of the file is to be reported again.
LEMMA HandleReports ==
  ASSUME TypeOK, Handle
  PROVE  /\ ~ReadFile => (Changed => Changed')
         /\ ~DeleteNote /\ ~RestoreKanwas => (Gone => Gone')
         /\ dirty => dirty'
<1>1. CASE ReadFile
  <2>1. Removal => Removal' BY <1>1, ReadDoes, QueueShrinks DEF TypeOK
  <2> QED BY <1>1, <2>1, ReadDoes DEF Gone
<1>2. CASE DeleteNote \/ RestoreKanwas
  <2>1. queue # <<>> /\ Head(queue) = "delete" /\ queue' = Tail(queue)
    BY <1>2 DEF DeleteNote, RestoreKanwas, Take
  <2>2. Changed => Changed' BY <2>1, QueueShrinks DEF TypeOK
  <2>3. dirty' = dirty \/ dirty' = TRUE BY <1>2 DEF DeleteNote, RestoreKanwas, Write
  <2>4. dirty => dirty' BY <2>3
  <2> QED BY <1>2, <2>2, <2>4
<1>3. CASE ~(ReadFile \/ DeleteNote \/ RestoreKanwas)
  <2>1. UNCHANGED <<timers, queue>> /\ (dirty' = dirty \/ dirty' = TRUE)
    BY <1>3 DEF Handle, Hydrate, Seed, Preflight, Decide, RestoreFile, Apply, ApplyFails,
                RefreshShadow, WriteBack, Write, watcher
  <2>2. dirty => dirty' BY <2>1
  <2> QED BY <1>3, <2>1, <2>2 DEF Changed, Gone, Removal
<1> QED BY <1>1, <1>2, <1>3

\* The text a write of the manager leaves in the file.
LEMMA WriteDoes ==
  ASSUME TypeOK, NEW lines \in Texts, Write(lines)
  PROVE  SyncFile' /\ file'.lines = lines /\ dirty'
<1>1. file' = [lines |-> lines, by |-> "sync"] /\ dirty' BY DEF Write
<1>2. file' \in Files BY <1>1 DEF Files
<1> QED BY <1>1, <1>2, FilesAreThere DEF SyncFile

\* Every step keeps OwnText.
LEMMA OwnTextNext ==
  ASSUME WorkInv, mishaps = {}, OwnText, FileSeen, [Next]_vars, mishaps' = {}
  PROVE  OwnText'
<1> USE DEF OwnText
<1>1. CASE UNCHANGED vars
  BY <1>1 DEF vars, manager, watcher, SyncFile, Changed
<1>2. CASE Watch \/ SuppressionExpires
  <2>1. UNCHANGED <<doc, file, mapped, shadow, at, job>> BY <1>2, WatchDoes
  <2>2. at = "read" /\ file # None /\ (dirty \/ Changed) => dirty' \/ Changed'
    BY <1>2, WatchReports DEF WorkInv
  <2> QED BY <2>1, <2>2 DEF SyncFile
<1>3. CASE UserEdits \/ UserDeletesNote
  <2>1. /\ UNCHANGED <<file, mapped, shadow, dirty, queue, at, job>> /\ doc # None
    BY <1>3, UsersDo DEF WorkInv
  <2> QED BY <2>1 DEF SyncFile, Changed
<1>4. CASE AgentWrites \/ AgentRemovesFile
  BY <1>4, AgentDoes DEF WorkInv, SyncFile
<1>5. CASE Handle
  <2>1. CASE Hydrate
    BY <2>1 DEF Hydrate, Starting, Reading
  <2>2. CASE Seed
    <3>1. doc = IF file = None THEN None ELSE file.lines BY <2>2 DEF Seed, Happened
    <3>2. at' = "idle" /\ shadow' = doc /\ file' = file /\ (mapped' <=> doc # None)
      BY <2>2 DEF Seed
    <3>3. file # None => file.lines # None BY TextsAreThere DEF WorkInv, TypeOK
    <3> QED BY <3>1, <3>2, <3>3 DEF SyncFile, Reading
  <2>3. CASE ReadFile
    <3>1. file = None => at' = "idle" BY <2>3, ReadDoes DEF WorkInv
    <3>2. /\ UNCHANGED <<doc, file, mapped, shadow>> /\ at = "idle"
          /\ file # None => /\ at' = "read" /\ job'.lines = file.lines /\ job'.by = file.by
                            /\ file.by = "sync" => job'.exact
      BY <2>3, ReadDoes DEF WorkInv
    <3>3. file # None => file.by \in {"sync", "agent"} BY DEF WorkInv, TypeOK
    <3> QED BY <3>1, <3>2, <3>3 DEF SyncFile, Reading, Starting
  <2>4. CASE DeleteNote
    <3>1. /\ at = "idle" /\ at' = "idle" /\ file' = file
          /\ \/ file = None
             \/ UNCHANGED <<doc, mapped, shadow>>
      BY <2>4 DEF DeleteNote, Take, Happened
    <3> QED BY <3>1 DEF SyncFile, Reading, Starting
  <2>5. CASE RestoreKanwas
    <3>1. /\ shadow' = doc /\ mapped' = mapped /\ mapped /\ doc' = doc /\ at' = "idle"
          /\ doc \in Texts /\ Write(doc)
      BY <2>5 DEF RestoreKanwas, Happened, Take, WorkInv, TypeOK
    <3> QED BY <3>1, WriteDoes DEF WorkInv, Reading
  <2>6. CASE Preflight
    <3>1. /\ at = "read" /\ UNCHANGED <<doc, file, mapped, shadow>>
          /\ \/ at' = "idle"
             \/ /\ at' = IF mapped /\ doc # None THEN "decide" ELSE "apply"
                /\ job'.lines = job.lines /\ job'.exact = job.exact
      BY <2>6, PreflightDoes DEF WorkInv
    <3> QED BY <3>1 DEF SyncFile, Reading, Starting
  <2>7. CASE Decide
    <3>1. at = "decide" /\ mapped /\ UNCHANGED <<doc, file, mapped>> /\ shadow # None
      BY <2>7, DecideDoes
    <3>2. ASSUME SyncFile
          PROVE  job.lines = file.lines /\ job.exact /\ (shadow = job.lines \/ doc = None)
      BY <3>1, <3>2 DEF Reading, Starting
    <3>3. CASE SameAsNote /\ at' = "idle" /\ shadow' = job.current
      <4>1. job.lines = job.current BY <3>3 DEF SameAsNote
      <4> QED BY <3>1, <3>2, <3>3, <4>1 DEF SyncFile, Reading
    <3>4. CASE ~SameAsNote /\ shadow = job.current /\ at' = "apply" /\ shadow' = shadow /\ job' = job
      <4>1. SyncFile => doc = None BY <3>2, <3>4 DEF SameAsNote
      <4> QED BY <3>1, <3>2, <3>4, <4>1 DEF SyncFile, Reading, Starting
    <3>5. CASE shadow' = shadow /\ at' = "restore" /\ job' = job
      BY <3>1, <3>2, <3>5 DEF SyncFile, Reading, Starting
    <3>6. CASE /\ Merged # job.current \/ ~job.exact
               /\ at' = "apply" /\ shadow' = shadow
               /\ job'.lines = job.lines /\ job'.exact = job.exact
      <4>1. SyncFile => doc = None
        <5>1. shadow = job.lines => Merged = job.current
          BY <3>1 DEF Merged, Base
        <5> QED BY <3>2, <3>6, <5>1
      <4> QED BY <3>1, <3>2, <3>6, <4>1 DEF SyncFile, Reading, Starting
    <3> QED BY <2>7, <3>3, <3>4, <3>5, <3>6, DecideDoes
  <2>8. CASE RestoreFile
    <3>1. /\ at' = "idle" /\ shadow' = job.current /\ mapped' = mapped /\ mapped
          /\ job.current \in Texts /\ Write(job.current)
      BY <2>8 DEF RestoreFile, Done, WorkInv, JobInv, TypeOK
    <3> QED BY <3>1, WriteDoes DEF WorkInv, Reading
  <2>9. CASE Apply
    <3>1. at = "apply" /\ at' = "refresh" /\ file' = file /\ (~mapped \/ doc # None)
      BY <2>9 DEF Apply
    <3>2. ~SyncFile BY <3>1 DEF Starting
    <3> QED BY <3>1, <3>2 DEF SyncFile, Reading, Starting
  <2>10. CASE ApplyFails
    BY <2>10 DEF ApplyFails
  <2>11. CASE RefreshShadow
    <3>1. at = "refresh" /\ file' = file /\ at' \in {"writeback", "idle"}
      BY <2>11 DEF RefreshShadow, Done
    <3> QED BY <3>1 DEF SyncFile
  <2>12. CASE WriteBack
    <3>1. /\ at' = "idle" /\ UNCHANGED <<doc, mapped, shadow>> /\ mapped /\ at = "writeback"
          /\ Write(IF shadow = None THEN job.put ELSE shadow)
      BY <2>12 DEF WriteBack, Done, WorkInv, JobInv
    <3>2. (IF shadow = None THEN job.put ELSE shadow) \in Texts BY DEF WorkInv, TypeOK
    <3>3. shadow = None => doc = None BY <3>1 DEF WorkInv, MapInv
    <3>4. SyncFile' /\ file'.lines = IF shadow = None THEN job.put ELSE shadow
      BY <3>1, <3>2, WriteDoes DEF WorkInv
    <3> QED BY <3>1, <3>3, <3>4 DEF Reading
  <2> QED BY <1>5, <2>1, <2>2, <2>3, <2>4, <2>5, <2>6, <2>7, <2>8, <2>9, <2>10, <2>11, <2>12
          DEF Handle
<1> QED BY <1>1, <1>2, <1>3, <1>4, <1>5 DEF Next

\* A text the note has printed is the note's print of it.
LEMMA PrintShown ==
  ASSUME WorkInv, NEW lines \in {doc, shadow, job.current}, lines # None, file # None,
         file.lines = lines
  PROVE  lines = FileLines
<1>1. Clean(lines) BY DEF WorkInv, CleanInv, LinesOf
<1> QED BY <1>1, CleanShown DEF FileLines

\* Every step keeps FileSeen.
LEMMA FileSeenNext ==
  ASSUME WorkInv, mishaps = {}, OwnText, FileSeen, [Next]_vars, mishaps' = {}
  PROVE  FileSeen'
<1> USE DEF FileSeen
<1>0. file' = file => FileLines' = FileLines BY DEF FileLines
<1>1. CASE UNCHANGED vars
  BY <1>1 DEF vars, manager, watcher, Gone, Removal, Changed, FileLines
<1>2. CASE Watch \/ SuppressionExpires
  <2>1. UNCHANGED <<doc, file, mapped, shadow, at, job>> BY <1>2, WatchDoes
  <2>2. /\ Changed => Changed' 
        /\ Gone => Gone'
        /\ file # None /\ dirty => dirty' \/ Changed'
        /\ file = None /\ dirty => dirty' \/ Gone'
    BY <1>2, WatchReports DEF WorkInv
  <2> QED BY <1>0, <2>1, <2>2
<1>3. CASE UserEdits \/ UserDeletesNote
  <2>1. /\ UNCHANGED <<file, mapped, shadow, dirty, timers, queue, at, job>> /\ doc # None
    BY <1>3, UsersDo DEF WorkInv
  <2> QED BY <1>0, <2>1 DEF Changed, Gone, Removal
<1>4. CASE AgentWrites \/ AgentRemovesFile
  <2>1. dirty' = TRUE BY <1>4, AgentDoes DEF WorkInv
  <2> QED BY <2>1
<1>5. CASE Handle
  <2>0. /\ ~ReadFile => (Changed => Changed')
        /\ ~DeleteNote /\ ~RestoreKanwas => (Gone => Gone')
        /\ dirty => dirty'
    BY <1>5, HandleReports DEF WorkInv
  <2>1. CASE Hydrate
    BY <2>1 DEF Hydrate, Starting, Reading, WorkInv, MapInv, manager
  <2>2. CASE Seed
    <3>1. doc = IF file = None THEN None ELSE file.lines BY <2>2 DEF Seed, Happened
    <3>2. at' = "idle" /\ shadow' = doc /\ UNCHANGED <<doc, file>> /\ (mapped' <=> doc # None)
      BY <2>2 DEF Seed
    <3>3. file # None => file.lines # None BY TextsAreThere DEF WorkInv, TypeOK
    <3>4. file # None => doc = FileLines BY <3>1, <3>3, PrintShown
    <3> QED BY <1>0, <3>1, <3>2, <3>3, <3>4 DEF Reading
  <2>3. CASE ReadFile
    <3>1. CASE file = None
      <4>1. at' = "idle" /\ UNCHANGED <<file, mapped>> BY <2>3, <3>1, ReadDoes DEF WorkInv
      <4>2. Gone => Gone' BY <2>0, <2>3 DEF ReadFile, Take, DeleteNote, RestoreKanwas
      <4> QED BY <2>0, <3>1, <4>1, <4>2 DEF Reading
    <3>2. CASE file # None
      BY <2>3, <3>2, ReadDoes DEF WorkInv, Reading
    <3> QED BY <3>1, <3>2
  <2>4. CASE DeleteNote
    <3>0. ~ReadFile BY <2>4 DEF ReadFile, DeleteNote, Take
    <3>1. /\ at = "idle" /\ at' = "idle" /\ UNCHANGED <<file, dirty>>
          /\ \/ file = None /\ mapped' = FALSE
             \/ ~mapped /\ UNCHANGED <<doc, mapped, shadow>>
      BY <2>4 DEF DeleteNote, Take, Happened
    <3> QED BY <1>0, <2>0, <3>0, <3>1 DEF Reading, Starting
  <2>5. CASE RestoreKanwas
    <3>1. dirty' BY <2>5 DEF RestoreKanwas, Write
    <3> QED BY <3>1
  <2>6. CASE Preflight
    <3>0. ~ReadFile /\ ~DeleteNote /\ ~RestoreKanwas
      BY <2>6 DEF Preflight, ReadFile, DeleteNote, RestoreKanwas, Take
    <3>1. /\ at = "read" /\ UNCHANGED <<doc, file, mapped, shadow, dirty>>
      BY <2>6, PreflightDoes DEF WorkInv
    <3>2. CASE at' # "idle"
      <4>1. at' \in {"decide", "apply"} /\ job'.lines = job.lines
        BY <2>6, <3>2, PreflightDoes DEF WorkInv
      <4> QED BY <2>0, <3>0, <3>1, <4>1 DEF Reading, Starting
    <3>3. CASE at' = "idle"
      <4>1. mapped /\ (job.by = "agent" => job.lines = shadow)
        BY <2>6, <3>1, <3>3, PreflightDoes DEF WorkInv, Happened
      <4>2. job.by \in {"agent", "sync"} BY DEF WorkInv, TypeOK
      <4>a. shadow # None /\ file # None /\ shadow = file.lines => shadow = FileLines
        BY PrintShown
      <4>b. job.lines # None /\ (file # None => file.lines # None)
        BY TextsAreThere DEF WorkInv, TypeOK
      <4>3. file # None => dirty \/ Changed \/ (doc # None => shadow = FileLines)
        <5>1. CASE job.by = "agent"
          BY <3>1, <4>1, <4>a, <4>b, <5>1 DEF Reading, Starting
        <5>2. CASE job.by = "sync"
          BY <3>1, <4>a, <4>b, <5>2 DEF OwnText, Reading, Starting
        <5> QED BY <4>2, <5>1, <5>2
      <4>4. file = None => dirty \/ Gone BY <3>1 DEF Reading
      <4> QED BY <1>0, <2>0, <3>0, <3>1, <3>3, <4>1, <4>3, <4>4 DEF Reading
    <3> QED BY <3>2, <3>3
  <2>7. CASE Decide
    <3>0. ~ReadFile /\ ~DeleteNote /\ ~RestoreKanwas
      BY <2>7 DEF Decide, ReadFile, DeleteNote, RestoreKanwas, Take
    <3>1. at = "decide" /\ mapped /\ UNCHANGED <<doc, file, mapped, dirty>>
      BY <2>7, DecideDoes
    <3>2. CASE SameAsNote /\ at' = "idle" /\ shadow' = job.current
      <4>1. job.lines = job.current /\ job.current # None
        BY <3>2, TextsAreThere DEF SameAsNote, WorkInv, TypeOK
      <4>2. file # None /\ file.lines = job.current => job.current = FileLines
        BY <4>1, PrintShown
      <4> QED BY <1>0, <2>0, <3>0, <3>1, <3>2, <4>1, <4>2 DEF Reading, Starting
    <3>3. CASE at' \in {"apply", "restore"} /\ job'.lines = job.lines
      BY <2>0, <3>0, <3>1, <3>3 DEF Reading, Starting
    <3> QED BY <2>7, <3>2, <3>3, DecideDoes
  <2>8. CASE RestoreFile
    BY <2>8 DEF RestoreFile, Write
  <2>9. CASE Apply
    <3>0. ~ReadFile /\ ~DeleteNote /\ ~RestoreKanwas
      BY <2>9 DEF Apply, ReadFile, DeleteNote, RestoreKanwas, Take
    <3>1. at = "apply" /\ at' = "refresh" /\ UNCHANGED <<file, job>>
      BY <2>9 DEF Apply
    <3> QED BY <2>0, <3>0, <3>1 DEF Reading, Starting
  <2>10. CASE ApplyFails
    BY <2>10 DEF ApplyFails
  <2>11. CASE RefreshShadow
    <3>0. ~ReadFile /\ ~DeleteNote /\ ~RestoreKanwas
      BY <2>11 DEF RefreshShadow, ReadFile, DeleteNote, RestoreKanwas, Take
    <3>1. /\ at = "refresh" /\ shadow' = doc /\ UNCHANGED <<doc, file, mapped>> /\ mapped
          /\ \/ at' = "writeback" /\ job' = job
             \/ at' = "idle" /\ ~job.back /\ LinesOf(doc) = Shown(job.put)
      BY <2>11 DEF RefreshShadow, Done, Happened, WorkInv, JobInv
    <3>2. CASE at' = "writeback" /\ job' = job
      BY <2>0, <3>0, <3>1, <3>2 DEF Reading, Starting
    <3>3. CASE at' = "idle" /\ ~job.back /\ LinesOf(doc) = Shown(job.put)
      <4>1. doc # None => doc = Shown(job.lines) BY <3>1, <3>3 DEF WorkInv, JobInv, LinesOf
      <4>2. file # None /\ file.lines = job.lines => Shown(job.lines) = FileLines
        BY DEF FileLines
      <4> QED BY <1>0, <2>0, <3>0, <3>1, <3>3, <4>1, <4>2 DEF Reading, Starting
    <3> QED BY <3>1, <3>2, <3>3
  <2>12. CASE WriteBack
    BY <2>12 DEF WriteBack, Write
  <2> QED BY <1>5, <2>1, <2>2, <2>3, <2>4, <2>5, <2>6, <2>7, <2>8, <2>9, <2>10, <2>11, <2>12
          DEF Handle
<1> QED BY <1>1, <1>2, <1>3, <1>4, <1>5 DEF Next

SeenInv == WorkInv /\ (mishaps = {} => OwnText /\ FileSeen)

\* Whenever watcher and handler are at rest the shadow is what a note made of the file would
\* print, whatever that drops or spells anew, and a file that is gone is not mapped
\* (ShadowIsFile), unless one of the races named in mishaps has happened.
THEOREM ShadowFollowsFile == Spec => []ShadowIsFile
<1>1. Init => SeenInv
  <2> SUFFICES ASSUME Init PROVE SeenInv
    OBVIOUS
  <2>1. at = "hydrate" /\ ~mapped /\ file = None BY DEF Init
  <2> QED BY <2>1, WorkInit DEF SeenInv, OwnText, FileSeen, SyncFile, Starting, Reading
<1>2. SeenInv /\ [Next]_vars => SeenInv'
  <2> SUFFICES ASSUME SeenInv, [Next]_vars PROVE SeenInv'
    OBVIOUS
  <2>1. WorkInv' BY WorkNext DEF SeenInv
  <2>2. ASSUME mishaps' = {} PROVE OwnText' /\ FileSeen'
    <3>1. mishaps = {} BY <2>2, RacesStay
    <3> QED BY <2>2, <3>1, OwnTextNext, FileSeenNext DEF SeenInv
  <2> QED BY <2>1, <2>2 DEF SeenInv
<1>3. SeenInv => ShadowIsFile
  <2> SUFFICES ASSUME SeenInv, Quiet, mishaps = {}
               PROVE  IF file = None THEN ~mapped ELSE doc # None => mapped /\ shadow = FileLines
    BY DEF ShadowIsFile, FileLines
  <2>1. ~Changed /\ ~Removal BY DEF Quiet, Changed, Removal
  <2>2. ~Gone BY <2>1 DEF Gone, Quiet
  <2> QED BY <2>1, <2>2 DEF SeenInv, FileSeen, Quiet, Starting, Reading
<1> QED BY <1>1, <1>2, <1>3, PTL DEF Spec

----------------------------------------------------------------------------
(* A file of the agent has a note.                                         *)

Covered == {"deleted under the file", "changed before the watch"}

\* A file the agent wrote is mapped, to be reported yet, or in the handler's hands.
FileReached ==
  /\ at \in Starting => ~dirty /\ (file # None => file.by = "sync")
  /\ mishaps \intersect Covered = {} /\ file # None /\ file.by = "agent" =>
       mapped \/ dirty \/ Changed \/ at \in {"read", "apply"}

\* Every step keeps FileReached.
LEMMA ReachedNext ==
  ASSUME WorkInv, FileReached, [Next]_vars
  PROVE  FileReached'
<1> USE DEF FileReached
<1>0. mishaps' \intersect Covered = {} => mishaps \intersect Covered = {}
  BY RacesKept
<1>1. CASE UNCHANGED vars
  BY <1>1 DEF vars, manager, watcher, ghosts, Changed
<1>2. CASE Watch \/ SuppressionExpires
  <2>1. UNCHANGED <<file, mapped, at>> BY <1>2, WatchDoes
  <2>2. /\ Changed => Changed'
        /\ file # None /\ dirty => dirty' \/ Changed' \/ "changed before the watch" \in mishaps'
    BY <1>2, WatchReports DEF WorkInv
  <2>3. ~dirty => ~dirty'
    BY <1>2 DEF Watch, WatchersReady, NoticeFile, NoticeRemoval, DeletionDue, SuppressionExpires,
                watcher
  <2> QED BY <1>0, <2>1, <2>2, <2>3 DEF Covered
<1>3. CASE UserEdits \/ UserDeletesNote
  <2>1. UNCHANGED <<file, mapped, dirty, queue, at, mishaps>>
    BY <1>3, UsersDo DEF WorkInv
  <2> QED BY <2>1 DEF Changed
<1>4. CASE AgentWrites \/ AgentRemovesFile
  <2>1. dirty' = TRUE /\ at' = at /\ at \notin Starting BY <1>4, AgentDoes DEF WorkInv
  <2> QED BY <2>1
<1>5. CASE Handle
  <2>0. /\ ~ReadFile => (Changed => Changed')
        /\ dirty => dirty'
    BY <1>5, HandleReports DEF WorkInv
  <2>1. CASE Hydrate
    <3>1. at = "hydrate" /\ at' = "seed" /\ dirty' = dirty
          /\ (file' = None \/ file' = [lines |-> doc, by |-> "sync"])
      BY <2>1 DEF Hydrate, watcher
    <3> QED BY <3>1 DEF Starting
  <2>2. CASE Seed
    <3>1. at = "seed" /\ at' = "idle" /\ file' = file BY <2>2 DEF Seed
    <3> QED BY <3>1 DEF Starting
  <2>3. CASE ReadFile
    <3>1. UNCHANGED <<file, mapped, dirty>> /\ at = "idle" /\ at' \in {"idle", "read"}
          /\ (file # None => at' = "read")
      BY <2>3, ReadDoes DEF WorkInv
    <3> QED BY <3>1 DEF Starting
  <2>4. CASE DeleteNote
    <3>1. at = "idle" /\ at' = "idle" /\ file' = file
          /\ (~mapped \/ file = None \/ "deleted under the file" \in mishaps')
      BY <2>4 DEF DeleteNote, Take, Happened
    <3>2. ~ReadFile BY <2>4 DEF ReadFile, DeleteNote, Take
    <3> QED BY <1>0, <2>0, <3>1, <3>2 DEF Starting, Covered
  <2>5. CASE RestoreKanwas
    <3>1. dirty' /\ at' = "idle" BY <2>5 DEF RestoreKanwas, Write, Take
    <3> QED BY <3>1 DEF Starting
  <2>6. CASE Preflight
    <3>1. /\ at = "read" /\ UNCHANGED <<file, mapped>>
          /\ \/ at' = "idle" /\ mapped
             \/ at' = IF mapped /\ doc # None THEN "decide" ELSE "apply"
      BY <2>6, PreflightDoes DEF WorkInv
    <3> QED BY <3>1 DEF Starting
  <2>7. CASE Decide
    <3>1. mapped' /\ at' \notin Starting BY <2>7, DecideDoes DEF Starting
    <3> QED BY <3>1
  <2>8. CASE RestoreFile
    <3>1. dirty' /\ at' = "idle" BY <2>8 DEF RestoreFile, Write, Done
    <3> QED BY <3>1 DEF Starting
  <2>9. CASE Apply
    <3>1. mapped' /\ at' = "refresh" BY <2>9 DEF Apply
    <3> QED BY <3>1 DEF Starting
  <2>10. CASE ApplyFails
    <3>1. mapped' /\ at' = "idle" BY <2>10 DEF ApplyFails, Done, manager
    <3> QED BY <3>1 DEF Starting
  <2>11. CASE RefreshShadow
    <3>1. mapped' /\ at' \in {"idle", "writeback"} BY <2>11 DEF RefreshShadow, Done, WorkInv, JobInv
    <3> QED BY <3>1 DEF Starting
  <2>12. CASE WriteBack
    <3>1. dirty' /\ at' = "idle" BY <2>12 DEF WriteBack, Write, Done
    <3> QED BY <3>1 DEF Starting
  <2> QED BY <1>5, <2>1, <2>2, <2>3, <2>4, <2>5, <2>6, <2>7, <2>8, <2>9, <2>10, <2>11, <2>12
          DEF Handle
<1> QED BY <1>1, <1>2, <1>3, <1>4, <1>5 DEF Next

\* At rest a file the agent wrote is mapped to a note (FileHasNote), whatever races happened but
\* for a deletion that was due for an earlier file, and a change no watcher was there to see.
THEOREM AgentFileMapped == Spec => []FileHasNote
<1>1. Init => WorkInv /\ FileReached
  <2> SUFFICES ASSUME Init PROVE WorkInv /\ FileReached
    OBVIOUS
  <2>1. at = "hydrate" /\ ~dirty /\ file = None BY DEF Init
  <2> QED BY <2>1, WorkInit DEF FileReached
<1>2. WorkInv /\ FileReached /\ [Next]_vars => WorkInv' /\ FileReached'
  BY WorkNext, ReachedNext
<1>3. WorkInv /\ FileReached => FileHasNote
  <2> SUFFICES ASSUME FileReached, Quiet, file # None, mishaps \intersect Covered = {},
                      file.by = "agent"
               PROVE  mapped
    BY DEF FileHasNote, Covered
  <2>1. ~Changed BY DEF Quiet, Changed
  <2> QED BY <2>1 DEF FileReached, Quiet
<1> QED BY <1>1, <1>2, <1>3, PTL DEF Spec

----------------------------------------------------------------------------
(* The note is as its users and the agent want it.                         *)

\* What users and agent do to the note and the file since both agreed on base: the agent
\* has taken what the file lacks, users what the note lacks; a users' line that the file has
\* on top was put back by the agent, and one that the note has on top is new, or taken by
\* both.  A line is wanted where the file differs from base as the file has it, and
\* elsewhere as the note has it; unless both have taken it.
Follows(base) ==
  /\ (FileLines \ base) \intersect UserLines \subseteq removed.agent
  /\ base \ FileLines \subseteq removed.agent
  /\ LinesOf(doc) \ base \subseteq UserLines
  /\ base \ LinesOf(doc) \subseteq removed.users
  /\ (LinesOf(doc) \ base) \intersect removed.agent \subseteq removed.users
  /\ \A l \in Lines \ (removed.agent \intersect removed.users) :
       IF l \in FileLines <=> l \in base THEN l \in wanted <=> l \in LinesOf(doc)
                                         ELSE l \in wanted <=> l \in FileLines

\* The agent put back what the file has on top of the text the handler has read.
ReadInv == (FileLines \ ReadLines) \intersect UserLines \subseteq removed.agent

\* What users have done to the note since the handler read it, and before that since the
\* shadow.
NoteInv ==
  /\ LinesOf(doc) \ job.current \subseteq UserLines
  /\ job.current \ LinesOf(doc) \subseteq removed.users
  /\ (LinesOf(doc) \ job.current) \intersect removed.agent \subseteq removed.users
  /\ job.current \ LinesOf(shadow) \subseteq UserLines
  /\ LinesOf(shadow) \ job.current \subseteq removed.users

PutInv == Shown(job.put) = (job.current \ (LinesOf(shadow) \ ReadLines))
                             \union (ReadLines \ LinesOf(shadow))

\* What users have done to the note since the shadow was taken that is to be written back.
BackInv ==
  /\ LinesOf(doc) \ LinesOf(shadow) \subseteq UserLines
  /\ LinesOf(shadow) \ LinesOf(doc) \subseteq removed.users
  /\ (LinesOf(doc) \ LinesOf(shadow)) \intersect removed.agent \subseteq removed.users
  /\ ReadLines \ LinesOf(shadow) \subseteq removed.users

Live == mishaps = {} /\ (mapped => doc # None)

WantedInv ==
  Live =>
    /\ at \in Starting => wanted = LinesOf(doc)
    /\ at \in {"idle", "read", "decide", "apply", "restore"} => Follows(LinesOf(shadow))
    /\ at \in {"refresh", "writeback"} => Follows(ReadLines)
    /\ at \in Reading => ReadInv
    /\ at \in {"decide", "restore"} => NoteInv
    /\ at = "apply" => PutInv
    /\ at = "writeback" => BackInv

\* A note that a user has deleted stays so until the handler hears of the file's removal.
LEMMA LiveStays ==
  ASSUME WorkInv, [Next]_vars, Live'
  PROVE  Live \/ DeleteNote
<1>1. mishaps = {} BY RacesStay DEF Live
<1>2. CASE UNCHANGED vars BY <1>1, <1>2 DEF vars, manager, Live
<1>3. CASE Watch \/ SuppressionExpires BY <1>1, <1>3, WatchDoes DEF Live
<1>4. CASE UserEdits \/ UserDeletesNote
  BY <1>1, <1>4, UsersDo DEF Live, WorkInv
<1>5. CASE AgentWrites \/ AgentRemovesFile
  BY <1>1, <1>5, AgentDoes DEF Live, WorkInv
<1>6. CASE Handle /\ ~DeleteNote
  <2>1. CASE Seed \/ Hydrate
    <3>1. ~mapped BY <2>1 DEF Seed, Hydrate, WorkInv, MapInv, Starting
    <3> QED BY <1>1, <3>1 DEF Live
  <2>2. CASE ReadFile BY <1>1, <2>2, ReadDoes DEF Live, WorkInv
  <2>3. CASE RestoreKanwas BY <1>1, <2>3 DEF RestoreKanwas, Live
  <2>4. CASE Preflight BY <1>1, <2>4, PreflightDoes DEF Live, WorkInv
  <2>5. CASE Decide BY <1>1, <2>5, DecideDoes DEF Live, WorkInv
  <2>6. CASE RestoreFile BY <1>1, <2>6 DEF RestoreFile, Live
  <2>7. CASE Apply BY <1>1, <2>7 DEF Apply, Live
  <2>8. CASE ApplyFails BY <2>8 DEF ApplyFails, Live
  <2>9. CASE RefreshShadow BY <1>1, <2>9 DEF RefreshShadow, Live
  <2>10. CASE WriteBack BY <1>1, <2>10 DEF WriteBack, Live
  <2> QED BY <1>6, <2>1, <2>2, <2>3, <2>4, <2>5, <2>6, <2>7, <2>8, <2>9, <2>10 DEF Handle
<1> QED BY <1>2, <1>3, <1>4, <1>5, <1>6 DEF Next

\* Whatever base is, an edit of users keeps Follows.
LEMMA UserFollows ==
  ASSUME TypeOK, NEW base \in Texts, Follows(base),
         UserEdits \/ UserDeletesNote, doc' # None
  PROVE  /\ (FileLines' \ base) \intersect UserLines \subseteq removed'.agent
         /\ base \ FileLines' \subseteq removed'.agent
         /\ LinesOf(doc)' \ base \subseteq UserLines
         /\ base \ LinesOf(doc)' \subseteq removed'.users
         /\ (LinesOf(doc)' \ base) \intersect removed'.agent \subseteq removed'.users
         /\ \A l \in Lines \ (removed'.agent \intersect removed'.users) :
              IF l \in FileLines' <=> l \in base THEN l \in wanted' <=> l \in LinesOf(doc)'
                                                ELSE l \in wanted' <=> l \in FileLines'
<1>1. /\ FileLines' = FileLines /\ removed'.agent = removed.agent
      /\ LinesOf(doc) = doc /\ doc \in Texts
  BY UsersDo DEF FileLines, LinesOf, TypeOK
<1>2. doc' \in Texts /\ LinesOf(doc)' = doc' BY UsersDo, TextsAreThere DEF LinesOf
<1>3. CASE \E l \in UserLines \ (doc \union removed.agent) :
             /\ doc' = doc \union {l} /\ wanted' = wanted \union {l}
             /\ removed'.users = removed.users
  <2>1. PICK k \in UserLines \ (doc \union removed.agent) :
          /\ doc' = doc \union {k} /\ wanted' = wanted \union {k}
          /\ removed'.users = removed.users
    BY <1>3
  <2>2. k \in FileLines <=> k \in base BY <2>1 DEF Follows
  <2> QED BY <1>1, <1>2, <2>1, <2>2 DEF Follows
<1>4. CASE \E l \in doc : /\ doc' = doc \ {l} /\ wanted' = wanted \ {l}
                          /\ removed'.users = removed.users \union {l}
  <2>1. PICK k \in doc : /\ doc' = doc \ {k} /\ wanted' = wanted \ {k}
                         /\ removed'.users = removed.users \union {k}
    BY <1>4
  <2>2. k \in removed.agent \/ (k \in FileLines <=> k \in base) BY <1>1, <2>1 DEF Follows
  <2> QED BY <1>1, <1>2, <2>1, <2>2 DEF Follows
<1> QED BY <1>3, <1>4, UsersDo

\* And so does a change of the agent.
LEMMA AgentFollows ==
  ASSUME TypeOK, NEW base \in Texts, Follows(base), AgentWrites \/ AgentRemovesFile
  PROVE  /\ (FileLines' \ base) \intersect UserLines \subseteq removed'.agent
         /\ base \ FileLines' \subseteq removed'.agent
         /\ LinesOf(doc)' \ base \subseteq UserLines
         /\ base \ LinesOf(doc)' \subseteq removed'.users
         /\ (LinesOf(doc)' \ base) \intersect removed'.agent \subseteq removed'.users
         /\ \A l \in Lines \ (removed'.agent \intersect removed'.users) :
              IF l \in FileLines' <=> l \in base THEN l \in wanted' <=> l \in LinesOf(doc)'
                                                ELSE l \in wanted' <=> l \in FileLines'
<1> DEFINE d == LinesOf(doc)
           f == FileLines
           g == FileLines'
           ra == removed.agent
           rb == removed'.agent
           ru == removed.users
<1>1. /\ LinesOf(doc)' = d /\ removed'.users = ru
      /\ rb = ra \union (f \ g)
      /\ g \ f \subseteq AgentLines \union ra
      /\ wanted' = (wanted \ (f \ g)) \union (g \ f)
  BY AgentDoes DEF LinesOf
<1>2. /\ (f \ base) \intersect UserLines \subseteq ra
      /\ base \ f \subseteq ra
      /\ d \ base \subseteq UserLines
      /\ base \ d \subseteq ru
      /\ (d \ base) \intersect ra \subseteq ru
      /\ \A l \in Lines \ (ra \intersect ru) :
           IF l \in f <=> l \in base THEN l \in wanted <=> l \in d ELSE l \in wanted <=> l \in f
  BY DEF Follows
<1> HIDE DEF d, f, g, ra, rb, ru
<1>3. AgentLines \intersect UserLines = {} BY MarkdownSyncAssumption
<1>4. (g \ base) \intersect UserLines \subseteq rb BY <1>1, <1>2, <1>3
<1>5. base \ g \subseteq rb BY <1>1, <1>2
<1>6. (d \ base) \intersect rb \subseteq ru BY <1>1, <1>2
<1>7. ASSUME NEW l \in Lines \ (rb \intersect ru)
      PROVE  IF l \in g <=> l \in base THEN l \in wanted' <=> l \in d ELSE l \in wanted' <=> l \in g
  <2>1. IF l \in f <=> l \in base THEN l \in wanted <=> l \in d ELSE l \in wanted <=> l \in f
    BY <1>1, <1>2, <1>7
  <2>2. CASE l \in f <=> l \in g
    BY <1>1, <2>1, <2>2
  <2>3. CASE l \in f /\ l \notin g
    BY <1>1, <1>2, <2>3, <1>7
  <2>4. CASE l \in g /\ l \notin f
    BY <1>1, <1>2, <2>4, <1>7
  <2> QED BY <2>2, <2>3, <2>4
<1> QED BY <1>1, <1>2, <1>4, <1>5, <1>6, <1>7 DEF d, f, g, ra, rb, ru

\* An edit of users keeps what is known of the text the handler has read.
LEMMA UserWanted ==
  ASSUME WorkInv, Live, WantedInv, UserEdits \/ UserDeletesNote, Live'
  PROVE  WantedInv'
<1>1. /\ UNCHANGED <<file, mapped, shadow, at, job>> /\ removed'.agent = removed.agent
      /\ doc # None /\ FileLines' = FileLines
      /\ LinesOf(doc) = doc /\ LinesOf(shadow)' = LinesOf(shadow) /\ ReadLines' = ReadLines
  BY UsersDo DEF WorkInv, FileLines, LinesOf, ReadLines
<1>2. CASE at \in Starting
  <2>1. wanted = doc BY <1>1, <1>2 DEF WantedInv
  <2>2. wanted' = LinesOf(doc)'
    <3>1. CASE doc' = None BY <3>1, TextsAreThere, UsersDo DEF LinesOf, WorkInv
    <3>2. CASE doc' # None BY <2>1, <3>2, UsersDo DEF LinesOf, WorkInv
    <3> QED BY <3>1, <3>2
  <2> QED BY <1>1, <1>2, <2>2 DEF WantedInv, Starting, Reading
<1>3. CASE at \notin Starting
  <2>1. mapped BY <1>1, <1>3 DEF WorkInv, MapInv
  <2>2. doc' # None BY <1>1, <2>1 DEF Live
  <2>3. LinesOf(doc)' = doc' BY <2>2 DEF LinesOf
  <2>4. PICK k \in Lines :
          \/ /\ k \in UserLines \ (doc \union removed.agent)
             /\ doc' = doc \union {k} /\ removed'.users = removed.users
          \/ /\ k \in doc
             /\ doc' = doc \ {k} /\ removed'.users = removed.users \union {k}
    BY <2>2, UsersDo DEF WorkInv
  <2>5. at \in {"idle", "read", "decide", "apply", "restore"} => Follows(LinesOf(shadow))'
    <3> SUFFICES ASSUME at \in {"idle", "read", "decide", "apply", "restore"}
                 PROVE  Follows(LinesOf(shadow))'
      OBVIOUS
    <3>1. Follows(LinesOf(shadow)) /\ LinesOf(shadow) \in Texts
      BY TextsTyped DEF WantedInv, WorkInv
    <3> QED BY <1>1, <2>2, <3>1, UserFollows DEF Follows, WorkInv
  <2>6. at \in {"refresh", "writeback"} => Follows(ReadLines)'
    <3> SUFFICES ASSUME at \in {"refresh", "writeback"} PROVE Follows(ReadLines)'
      OBVIOUS
    <3>1. Follows(ReadLines) /\ ReadLines \in Texts
      BY TextsTyped DEF WantedInv, WorkInv, ReadLines
    <3> QED BY <1>1, <2>2, <3>1, UserFollows DEF Follows, WorkInv
  <2>7. at \in Reading => ReadInv' BY <1>1 DEF WantedInv, ReadInv
  <2>8. at \in {"decide", "restore"} => NoteInv'
    <3> SUFFICES ASSUME at \in {"decide", "restore"} PROVE NoteInv'
      OBVIOUS
    <3>1. NoteInv BY DEF WantedInv
    <3> QED BY <1>1, <2>3, <2>4, <3>1 DEF NoteInv
  <2>9. at = "apply" => PutInv' BY <1>1 DEF WantedInv, PutInv
  <2>10. at = "writeback" => BackInv'
    <3> SUFFICES ASSUME at = "writeback" PROVE BackInv'
      OBVIOUS
    <3>1. BackInv BY DEF WantedInv
    <3> QED BY <1>1, <2>3, <2>4, <3>1 DEF BackInv
  <2> QED BY <1>1, <1>3, <2>5, <2>6, <2>7, <2>8, <2>9, <2>10 DEF WantedInv
<1> QED BY <1>2, <1>3

\* A change of the agent keeps it too.
LEMMA AgentWanted ==
  ASSUME WorkInv, Live, WantedInv, AgentWrites \/ AgentRemovesFile
  PROVE  WantedInv'
<1>1. /\ UNCHANGED <<doc, mapped, shadow, at, job>>
      /\ at \notin Starting
      /\ removed'.agent = removed.agent \union (FileLines \ FileLines')
      /\ removed'.users = removed.users
      /\ FileLines' \ FileLines \subseteq AgentLines \union removed.agent
      /\ LinesOf(doc)' = LinesOf(doc) /\ LinesOf(shadow)' = LinesOf(shadow)
      /\ ReadLines' = ReadLines
  BY AgentDoes DEF WorkInv, LinesOf, ReadLines
<1>2. AgentLines \intersect UserLines = {} BY MarkdownSyncAssumption
<1>3. at \in {"idle", "read", "decide", "apply", "restore"} => Follows(LinesOf(shadow))'
  <2> SUFFICES ASSUME at \in {"idle", "read", "decide", "apply", "restore"}
               PROVE  Follows(LinesOf(shadow))'
    OBVIOUS
  <2>1. Follows(LinesOf(shadow)) /\ LinesOf(shadow) \in Texts
    BY TextsTyped DEF WantedInv, WorkInv
  <2> QED BY <1>1, <2>1, AgentFollows DEF Follows, WorkInv
<1>4. at \in {"refresh", "writeback"} => Follows(ReadLines)'
  <2> SUFFICES ASSUME at \in {"refresh", "writeback"} PROVE Follows(ReadLines)'
    OBVIOUS
  <2>1. Follows(ReadLines) /\ ReadLines \in Texts
    BY TextsTyped DEF WantedInv, WorkInv, ReadLines
  <2> QED BY <1>1, <2>1, AgentFollows DEF Follows, WorkInv
<1>5. at \in Reading => ReadInv' BY <1>1, <1>2 DEF WantedInv, ReadInv
<1>6. at \in {"decide", "restore"} => NoteInv'
  <2> SUFFICES ASSUME at \in {"decide", "restore"} PROVE NoteInv'
    OBVIOUS
  <2>1. NoteInv /\ Follows(LinesOf(shadow)) BY DEF WantedInv
  <2>2. ((LinesOf(doc) \ job.current) \intersect FileLines) \ removed.agent \subseteq removed.users
    BY <2>1 DEF NoteInv, Follows
  <2> QED BY <1>1, <2>1, <2>2 DEF NoteInv
<1>7. at = "apply" => PutInv' BY <1>1 DEF WantedInv, PutInv
<1>8. at = "writeback" => BackInv'
  <2> SUFFICES ASSUME at = "writeback" PROVE BackInv'
    OBVIOUS
  <2>1. BackInv /\ Follows(ReadLines) BY DEF WantedInv
  <2>2. ((LinesOf(doc) \ LinesOf(shadow)) \intersect FileLines) \ removed.agent \subseteq removed.users
    BY <2>1 DEF BackInv, Follows
  <2> QED BY <1>1, <2>1, <2>2 DEF BackInv
<1> QED BY <1>1, <1>3, <1>4, <1>5, <1>6, <1>7, <1>8 DEF WantedInv

\* The handler ends with the text both agree on, where it was the note's already.
LEMMA SameFollows ==
  ASSUME WorkInv, Follows(LinesOf(shadow)), ReadInv, NoteInv, job.lines = job.current,
         ReadLines \ FileLines \subseteq removed.agent,
         LinesOf(shadow) \ ReadLines \subseteq removed.agent
  PROVE  Follows(ReadLines)
<1> DEFINE d == LinesOf(doc)
           s == LinesOf(shadow)
           f == FileLines
           k == ReadLines
<1>0. ReadLines = job.current BY CleanShown DEF WorkInv, CleanInv, ReadLines
<1>1. \A l \in Lines \ (removed.agent \intersect removed.users) :
        IF l \in f <=> l \in k THEN l \in wanted <=> l \in d ELSE l \in wanted <=> l \in f
  <2> TAKE l \in Lines \ (removed.agent \intersect removed.users)
  <2>1. /\ IF l \in f <=> l \in s THEN l \in wanted <=> l \in d ELSE l \in wanted <=> l \in f
        /\ l \in f \ s /\ l \in UserLines => l \in removed.agent
        /\ l \in s \ f => l \in removed.agent
        /\ l \in d \ s => l \in UserLines
        /\ l \in s \ d => l \in removed.users
        /\ l \in d \ s /\ l \in removed.agent => l \in removed.users
        /\ l \in f \ k /\ l \in UserLines => l \in removed.agent
        /\ l \in k \ f => l \in removed.agent
        /\ l \in s \ k => l \in removed.agent
        /\ l \in d \ k => l \in UserLines
        /\ l \in k \ d => l \in removed.users
        /\ l \in d \ k /\ l \in removed.agent => l \in removed.users
        /\ l \in k \ s => l \in UserLines
        /\ l \in s \ k => l \in removed.users
    BY <1>0 DEF Follows, ReadInv, NoteInv
  <2> HIDE DEF d, s, f, k
  <2> QED BY <2>1
<1> QED BY <1>0, <1>1 DEF Follows, ReadInv, NoteInv

\* The handler starts with note, file and shadow alike.
LEMMA StartWanted ==
  ASSUME WorkInv, Live, WantedInv, Hydrate \/ Seed, Live'
  PROVE  WantedInv'
<1>1. CASE Hydrate
  <2>1. at = "hydrate" /\ at' = "seed" /\ wanted' = wanted /\ LinesOf(doc)' = LinesOf(doc)
    BY <1>1 DEF Hydrate, ghosts, LinesOf
  <2> QED BY <2>1 DEF WantedInv, Starting, Reading
<1>2. CASE Seed
  <2>1. /\ at = "seed" /\ at' = "idle" /\ shadow' = doc
        /\ UNCHANGED <<doc, file, wanted, removed>>
        /\ doc = IF file = None THEN None ELSE file.lines
    BY <1>2 DEF Seed, Happened, Live
  <2>2. LinesOf(doc) = FileLines
    <3>1. CASE file = None BY <2>1, <3>1 DEF LinesOf, FileLines
    <3>2. CASE file # None
      <4>1. doc = file.lines /\ doc # None BY <2>1, <3>2, TextsAreThere DEF WorkInv, TypeOK
      <4> QED BY <3>2, <4>1, PrintShown DEF LinesOf
    <3> QED BY <3>1, <3>2
  <2>3. LinesOf(doc)' = LinesOf(doc) /\ LinesOf(shadow)' = LinesOf(doc) /\ FileLines' = FileLines
    BY <2>1 DEF LinesOf, FileLines
  <2>4. wanted = LinesOf(doc) BY <2>1 DEF WantedInv, Starting
  <2>5. Follows(LinesOf(shadow))' BY <2>1, <2>2, <2>3, <2>4 DEF Follows
  <2> QED BY <2>1, <2>5 DEF WantedInv, Starting, Reading
<1> QED BY <1>1, <1>2

\* The events that do not change the note's lines, and the deletion that takes all.
LEMMA EventWanted ==
  ASSUME WorkInv, Live => WantedInv, Live \/ DeleteNote,
         ReadFile \/ RestoreKanwas \/ DeleteNote, Live'
  PROVE  WantedInv'
<1>1. CASE ReadFile
  <2>1. /\ at = "idle" /\ at' \in {"idle", "read"}
        /\ UNCHANGED <<doc, file, shadow, removed, wanted>>
        /\ at' = "read" => file # None /\ job'.lines = file.lines
    BY <1>1, ReadDoes DEF WorkInv
  <2>2. LinesOf(doc)' = LinesOf(doc) /\ LinesOf(shadow)' = LinesOf(shadow) /\ FileLines' = FileLines
    BY <2>1 DEF LinesOf, FileLines
  <2>3. ~DeleteNote BY <1>1 DEF ReadFile, DeleteNote, Take
  <2>4. Follows(LinesOf(shadow)) BY <2>1, <2>3 DEF WantedInv
  <2>5. Follows(LinesOf(shadow))' BY <2>1, <2>2, <2>4 DEF Follows
  <2>6. at' = "read" => ReadInv'
    <3> SUFFICES ASSUME at' = "read" PROVE ReadInv'
      OBVIOUS
    <3>1. ReadLines' = FileLines BY <2>1 DEF ReadLines, FileLines
    <3> QED BY <2>2, <3>1 DEF ReadInv
  <2> QED BY <2>1, <2>5, <2>6 DEF WantedInv, Starting, Reading
<1>2. CASE RestoreKanwas
  <2>1. /\ at = "idle" /\ at' = "idle" /\ doc # None /\ doc \in Texts /\ Write(doc)
        /\ UNCHANGED <<doc, shadow, removed>> /\ wanted' = wanted \union doc
        /\ shadow = doc /\ (file = None \/ file.lines = doc)
    BY <1>2 DEF RestoreKanwas, Take, Happened, Live, WorkInv, TypeOK
  <2>a. Shown(doc) = doc BY <2>1, CleanShown DEF WorkInv, CleanInv, LinesOf
  <2>2. FileLines' = doc BY <2>1, <2>a, WriteDoes DEF FileLines, SyncFile, WorkInv
  <2>3. LinesOf(doc)' = doc /\ LinesOf(shadow)' = doc /\ LinesOf(doc) = doc /\ LinesOf(shadow) = doc
    BY <2>1 DEF LinesOf
  <2>4. FileLines \subseteq doc BY <2>1, <2>a DEF FileLines
  <2>5. Follows(doc)
    <3>1. ~DeleteNote BY <1>2 DEF RestoreKanwas, DeleteNote
    <3> QED BY <2>1, <2>3, <3>1 DEF WantedInv
  <2>6. \A l \in Lines \ (removed.agent \intersect removed.users) :
          l \in wanted' <=> l \in doc
    BY <2>1, <2>3, <2>4, <2>5 DEF Follows
  <2>7. Follows(LinesOf(shadow))' BY <2>1, <2>2, <2>3, <2>6 DEF Follows
  <2> QED BY <2>1, <2>7 DEF WantedInv, Starting, Reading
<1>3. CASE DeleteNote
  <2>1. at = "idle" /\ at' = "idle" /\ UNCHANGED <<file, removed>>
    BY <1>3 DEF DeleteNote, Take
  <2>2. CASE mapped
    <3>1. doc' = None /\ shadow' = None /\ wanted' = {} /\ file = None
      BY <1>3, <2>2 DEF DeleteNote, Happened, Live
    <3>2. LinesOf(doc)' = {} /\ LinesOf(shadow)' = {} /\ FileLines' = {}
      BY <2>1, <3>1 DEF LinesOf, FileLines
    <3>3. Follows(LinesOf(shadow))' BY <3>1, <3>2 DEF Follows
    <3> QED BY <2>1, <3>3 DEF WantedInv, Starting, Reading
  <2>3. CASE ~mapped
    <3>1. UNCHANGED <<doc, shadow, mapped, wanted, mishaps>> BY <1>3, <2>3 DEF DeleteNote
    <3>2. LinesOf(doc)' = LinesOf(doc) /\ LinesOf(shadow)' = LinesOf(shadow) /\ FileLines' = FileLines
      BY <2>1, <3>1 DEF LinesOf, FileLines
    <3>3. Live BY <2>3, <3>1 DEF Live
    <3>4. Follows(LinesOf(shadow)) BY <2>1, <3>3 DEF WantedInv
    <3>5. Follows(LinesOf(shadow))' BY <2>1, <3>1, <3>2, <3>4 DEF Follows
    <3> QED BY <2>1, <3>5 DEF WantedInv, Starting, Reading
  <2> QED BY <2>2, <2>3
<1> QED BY <1>1, <1>2, <1>3

\* The note that is compared with, and the text the comparison chooses.
LEMMA CompareWanted ==
  ASSUME WorkInv, Live, ShadowInv, WantedInv, Preflight \/ Decide, Live'
  PROVE  WantedInv'
<1>1. CASE Preflight
  <2>1. at = "read" /\ UNCHANGED <<doc, file, mapped, shadow, removed, wanted>>
    BY <1>1, PreflightDoes, HandleDoes DEF Handle, WorkInv
  <2>2. LinesOf(doc)' = LinesOf(doc) /\ LinesOf(shadow)' = LinesOf(shadow) /\ FileLines' = FileLines
    BY <2>1 DEF LinesOf, FileLines
  <2>3. Follows(LinesOf(shadow)) /\ ReadInv BY <2>1 DEF WantedInv, Reading
  <2>4. Follows(LinesOf(shadow))' BY <2>1, <2>2, <2>3 DEF Follows
  <2>5. CASE at' = "idle" BY <2>4, <2>5 DEF WantedInv, Starting, Reading
  <2>6. CASE /\ at' = IF mapped /\ doc # None THEN "decide" ELSE "apply"
             /\ job'.lines = job.lines /\ job'.put = job.put /\ job'.current = LinesOf(doc)
    <3>0. ReadLines' = ReadLines /\ Shown(job.put)' = Shown(job.put) BY <2>6 DEF ReadLines
    <3>1. ReadInv' BY <2>1, <2>2, <2>3, <3>0 DEF ReadInv
    <3>2. CASE at' = "decide"
      <4>1. NoteInv' BY <2>1, <2>2, <2>3, <2>6 DEF NoteInv, Follows
      <4> QED BY <2>4, <3>1, <3>2, <4>1 DEF WantedInv, Starting, Reading
    <3>3. CASE at' = "apply"
      <4>1. ~mapped BY <2>6, <3>3 DEF Live
      <4>2. doc = None /\ shadow = None BY <2>1, <4>1 DEF WorkInv, MapInv, Starting
      <4>3. LinesOf(doc) = {} /\ LinesOf(shadow)' = {} BY <2>1, <4>2 DEF LinesOf
      <4>4. Shown(job.put) = ReadLines BY <2>1 DEF WorkInv, JobInv, ReadLines
      <4>5. PutInv' BY <2>6, <3>0, <4>3, <4>4 DEF PutInv
      <4> QED BY <2>4, <3>1, <3>3, <4>5 DEF WantedInv, Starting, Reading
    <3> QED BY <2>6, <3>2, <3>3
  <2> QED BY <1>1, <2>5, <2>6, PreflightDoes DEF WorkInv
<1>2. CASE Decide
  <2>1. /\ at = "decide" /\ shadow # None
        /\ UNCHANGED <<doc, file, removed, wanted>>
    BY <1>2, DecideDoes
  <2>2. LinesOf(doc)' = LinesOf(doc) /\ FileLines' = FileLines /\ LinesOf(shadow) = shadow
    BY <2>1 DEF LinesOf, FileLines
  <2>3. Follows(LinesOf(shadow)) /\ ReadInv /\ NoteInv BY <2>1 DEF WantedInv, Reading
  <2>4. job.put = job.lines BY <2>1 DEF WorkInv, JobInv
  <2>5. CASE SameAsNote /\ at' = "idle" /\ shadow' = job.current
    <3>1. job.lines = job.current /\ job.lines \in Texts BY <2>5 DEF SameAsNote, WorkInv, TypeOK
    <3>2. /\ ReadLines \ FileLines \subseteq removed.agent
          /\ LinesOf(shadow) \ ReadLines \subseteq removed.agent
      BY <2>1 DEF WorkInv, JobInv, Reading, ShadowInv
    <3>a. ReadLines = job.lines BY <3>1, CleanShown DEF WorkInv, CleanInv, ReadLines
    <3>3. Follows(ReadLines) BY <2>3, <3>1, <3>2, SameFollows
    <3>4. LinesOf(shadow)' = ReadLines BY <2>5, <3>1, <3>a, TextsAreThere DEF LinesOf
    <3>5. Follows(LinesOf(shadow))' BY <2>1, <2>2, <3>3, <3>4 DEF Follows
    <3> QED BY <2>5, <3>5 DEF WantedInv, Starting, Reading
  <2>6. ASSUME shadow' = shadow, job'.lines = job.lines PROVE Follows(LinesOf(shadow))' /\ ReadInv'
    <3>1. LinesOf(shadow)' = LinesOf(shadow) /\ ReadLines' = ReadLines
      BY <2>6 DEF LinesOf, ReadLines
    <3> QED BY <2>1, <2>2, <2>3, <2>6, <3>1 DEF Follows, ReadInv
  <2>7. CASE shadow = job.current /\ at' = "apply" /\ shadow' = shadow /\ job' = job
    <3>1. LinesOf(shadow)' = shadow BY <2>1, <2>7 DEF LinesOf
    <3>2. PutInv' BY <2>4, <2>7, <3>1 DEF PutInv, ReadLines
    <3> QED BY <2>6, <2>7, <3>2 DEF WantedInv, Starting, Reading
  <2>8. CASE shadow' = shadow /\ at' = "restore" /\ job' = job
    <3>1. LinesOf(shadow)' = LinesOf(shadow) BY <2>8 DEF LinesOf
    <3>2. NoteInv' BY <2>1, <2>2, <2>3, <2>8, <3>1 DEF NoteInv
    <3> QED BY <2>6, <2>8, <3>2 DEF WantedInv, Starting, Reading
  <2>9. CASE /\ ~Clash /\ at' = "apply" /\ shadow' = shadow
             /\ job'.lines = job.lines /\ job'.put = Merged /\ job'.current = job.current
    <3>1. LinesOf(shadow)' = shadow /\ ReadLines' = ReadLines
      BY <2>1, <2>9 DEF LinesOf, ReadLines
    <3>2. Shown(job'.put) = (job.current \ (shadow \ ReadLines)) \union (ReadLines \ shadow)
      BY <2>1, <2>9, MergeShows
    <3>3. PutInv' BY <2>9, <3>1, <3>2 DEF PutInv
    <3> QED BY <2>6, <2>9, <3>3 DEF WantedInv, Starting, Reading
  <2> QED BY <1>2, <2>5, <2>7, <2>8, <2>9, DecideDoes
<1> QED BY <1>1, <1>2

\* The note is put back over the file: what the agent wanted else is refused.
LEMMA RestoreWanted ==
  ASSUME WorkInv, Live, WantedInv, RestoreFile, Live'
  PROVE  WantedInv'
<1>1. /\ at = "restore" /\ at' = "idle" /\ UNCHANGED <<doc, removed>>
      /\ Write(job.current) /\ shadow' = job.current /\ job.current \in Texts
      /\ wanted' = (wanted \ (ReadLines \ (job.current \union LinesOf(doc))))
                     \union ((job.current \ ReadLines) \intersect LinesOf(doc))
  BY DEF RestoreFile, Done, WorkInv, TypeOK, ReadLines
<1>2. file # None /\ file.lines = job.lines BY DEF RestoreFile, Unread, Happened, Live
<1>3. FileLines = ReadLines BY <1>2 DEF FileLines, ReadLines
<1>a. Shown(job.current) = job.current BY CleanShown DEF WorkInv, CleanInv
<1>4. /\ FileLines' = job.current /\ LinesOf(shadow)' = job.current
      /\ LinesOf(doc)' = LinesOf(doc)
  BY <1>1, <1>a, TextsAreThere, WriteDoes DEF FileLines, SyncFile, LinesOf, WorkInv
<1>5. Follows(LinesOf(shadow)) /\ NoteInv BY <1>1 DEF WantedInv
<1> DEFINE d == LinesOf(doc)
           s == LinesOf(shadow)
           f == ReadLines
           c == job.current
<1>6. ASSUME NEW l \in Lines \ (removed.agent \intersect removed.users)
      PROVE  l \in wanted' <=> l \in d
  <2>1. /\ IF l \in f <=> l \in s THEN l \in wanted <=> l \in d ELSE l \in wanted <=> l \in f
        /\ l \in f \ s /\ l \in UserLines => l \in removed.agent
        /\ l \in s \ f => l \in removed.agent
        /\ l \in d \ c => l \in UserLines
        /\ l \in c \ d => l \in removed.users
        /\ l \in d \ c /\ l \in removed.agent => l \in removed.users
        /\ l \in c \ s => l \in UserLines
        /\ l \in s \ c => l \in removed.users
    BY <1>3, <1>5, <1>6 DEF Follows, NoteInv
  <2>2. wanted' = (wanted \ (f \ (c \union d))) \union ((c \ f) \intersect d)
    BY <1>1
  <2> HIDE DEF d, s, f, c
  <2> QED BY <1>6, <2>1, <2>2
<1>7. Follows(LinesOf(shadow))' BY <1>1, <1>4, <1>5, <1>6 DEF Follows, NoteInv
<1> QED BY <1>1, <1>7 DEF WantedInv, Starting, Reading

\* The text to put takes the place of the note it was made from.
LEMMA ApplyWanted ==
  ASSUME WorkInv, Live, ShadowInv, WantedInv, Apply, Live'
  PROVE  WantedInv'
<1>1. /\ at = "apply" /\ at' = "refresh" /\ UNCHANGED <<file, shadow, job, wanted, removed>>
      /\ doc' = Shown(job.put) /\ Shown(job.put) \in Texts /\ LinesOf(doc) = job.current
  BY TextsTyped DEF Apply, Happened, Live, WorkInv
<1>2. LinesOf(doc)' = Shown(job.put) /\ FileLines' = FileLines /\ ReadLines' = ReadLines
  BY <1>1, TextsAreThere DEF LinesOf, FileLines, ReadLines
<1>3. Follows(LinesOf(shadow)) /\ ReadInv /\ PutInv BY <1>1 DEF WantedInv, Reading
<1>4. /\ ReadLines \ FileLines \subseteq removed.agent
      /\ LinesOf(shadow) \ ReadLines \subseteq removed.agent
  BY <1>1 DEF WorkInv, JobInv, Reading, ShadowInv
<1> DEFINE d == job.current
           s == LinesOf(shadow)
           f == FileLines
           k == ReadLines
           p == Shown(job.put)
<1>5. p = (d \ (s \ k)) \union (k \ s) BY <1>3 DEF PutInv
<1>6. ASSUME NEW l
      PROVE  /\ l \in f \ k /\ l \in UserLines => l \in removed.agent
             /\ l \in k \ f => l \in removed.agent
             /\ l \in p \ k => l \in UserLines
             /\ l \in k \ p => l \in removed.users
             /\ l \in p \ k /\ l \in removed.agent => l \in removed.users
             /\ l \in Lines \ (removed.agent \intersect removed.users) =>
                  IF l \in f <=> l \in k THEN l \in wanted <=> l \in p
                                         ELSE l \in wanted <=> l \in f
  <2>1. /\ l \in Lines \ (removed.agent \intersect removed.users) =>
             IF l \in f <=> l \in s THEN l \in wanted <=> l \in d ELSE l \in wanted <=> l \in f
        /\ l \in d \ s => l \in UserLines
        /\ l \in s \ d => l \in removed.users
        /\ l \in d \ s /\ l \in removed.agent => l \in removed.users
        /\ l \in f \ k /\ l \in UserLines => l \in removed.agent
        /\ l \in k \ f => l \in removed.agent
        /\ l \in s \ k => l \in removed.agent
    BY <1>1, <1>3, <1>4 DEF Follows, ReadInv
  <2> HIDE DEF d, s, f, k, p
  <2> QED BY <1>5, <2>1
<1>7. /\ (f \ k) \intersect UserLines \subseteq removed.agent
      /\ k \ f \subseteq removed.agent
      /\ p \ k \subseteq UserLines
      /\ k \ p \subseteq removed.users
      /\ (p \ k) \intersect removed.agent \subseteq removed.users
      /\ \A l \in Lines \ (removed.agent \intersect removed.users) :
           IF l \in f <=> l \in k THEN l \in wanted <=> l \in p ELSE l \in wanted <=> l \in f
  <2> HIDE DEF d, s, f, k, p
  <2> QED BY <1>6
<1>8. Follows(ReadLines)' BY <1>1, <1>2, <1>7 DEF Follows
<1>9. ReadInv' BY <1>1, <1>2, <1>3 DEF ReadInv
<1> QED BY <1>1, <1>8, <1>9 DEF WantedInv, Starting, Reading

\* The shadow is taken from the note, and written back if the two were merged.
LEMMA RefreshWanted ==
  ASSUME WorkInv, Live, WantedInv, RefreshShadow, Live'
  PROVE  WantedInv'
<1>1. /\ at = "refresh" /\ UNCHANGED <<doc, file, wanted, removed>> /\ shadow' = doc
      /\ IF job.back THEN at' = "writeback" /\ job' = job ELSE at' = "idle"
  BY DEF RefreshShadow, Done
<1>2. /\ LinesOf(doc)' = LinesOf(doc) /\ LinesOf(shadow)' = LinesOf(doc)
      /\ FileLines' = FileLines /\ (job' = job => ReadLines' = ReadLines)
  BY <1>1 DEF LinesOf, FileLines, ReadLines
<1>3. Follows(ReadLines) /\ ReadInv BY <1>1 DEF WantedInv, Reading
<1>4. CASE job.back
  <2>1. Follows(ReadLines)' /\ ReadInv' /\ BackInv'
    BY <1>1, <1>2, <1>3, <1>4 DEF Follows, ReadInv, BackInv
  <2> QED BY <1>1, <1>4, <2>1 DEF WantedInv, Starting, Reading
<1>5. CASE ~job.back
  <2>1. LinesOf(doc) = ReadLines
    BY <1>1, <1>5 DEF RefreshShadow, Happened, Live, WorkInv, JobInv, ReadLines
  <2>2. Follows(LinesOf(shadow))' BY <1>1, <1>2, <1>3, <2>1 DEF Follows
  <2> QED BY <1>1, <1>5, <2>2 DEF WantedInv, Starting, Reading
<1> QED BY <1>4, <1>5

\* The file gets the text both are to agree on.
LEMMA BackWanted ==
  ASSUME WorkInv, Live, WantedInv, WriteBack, Live'
  PROVE  WantedInv'
<1>1. at = "writeback" /\ at' = "idle" /\ UNCHANGED <<doc, shadow, wanted, removed>>
  BY DEF WriteBack, Done
<1>2. shadow # None /\ shadow \in Texts
  BY <1>1 DEF Live, WorkInv, JobInv, MapInv, TypeOK
<1>3. file # None /\ file.lines = job.lines BY DEF WriteBack, Unread, Happened, Live
<1>4. FileLines = ReadLines BY <1>3 DEF FileLines, ReadLines
<1>5. Write(shadow) BY <1>2 DEF WriteBack
<1>a. Shown(shadow) = shadow BY <1>2, CleanShown, TextsAreThere DEF WorkInv, CleanInv, LinesOf
<1>6. /\ FileLines' = shadow /\ LinesOf(shadow)' = shadow /\ LinesOf(shadow) = shadow
      /\ LinesOf(doc)' = LinesOf(doc)
  BY <1>1, <1>2, <1>5, <1>a, WriteDoes DEF FileLines, SyncFile, LinesOf, WorkInv
<1>7. Follows(ReadLines) /\ BackInv BY <1>1 DEF WantedInv
<1>8. Follows(LinesOf(shadow))' BY <1>1, <1>4, <1>6, <1>7 DEF Follows, BackInv
<1> QED BY <1>1, <1>8 DEF WantedInv, Starting, Reading

\* Every step keeps what is wanted.
LEMMA WantedNext ==
  ASSUME WorkInv, mishaps = {} => ShadowInv, WantedInv, [Next]_vars
  PROVE  WantedInv'
<1> SUFFICES ASSUME Live' PROVE WantedInv'
  BY DEF WantedInv
<1>1. Live \/ DeleteNote BY LiveStays
<1>2. CASE DeleteNote BY <1>1, <1>2, EventWanted
<1>3. CASE ~DeleteNote
  <2>0. Live /\ ShadowInv BY <1>1, <1>3 DEF Live
  <2>1. CASE UNCHANGED vars
    <3>1. WantedInv' = WantedInv
      BY <2>1 DEF vars, manager, watcher, ghosts, WantedInv, Live, Follows, ReadInv, NoteInv, PutInv,
                  BackInv, FileLines, LinesOf, ReadLines
    <3> QED BY <3>1
  <2>2. CASE Watch \/ SuppressionExpires
    <3>1. UNCHANGED <<doc, file, shadow, at, job, removed, wanted>> BY <2>2, WatchDoes
    <3>2. /\ LinesOf(doc)' = LinesOf(doc) /\ LinesOf(shadow)' = LinesOf(shadow)
          /\ FileLines' = FileLines /\ ReadLines' = ReadLines
      BY <3>1 DEF LinesOf, FileLines, ReadLines
    <3> QED BY <2>0, <3>1, <3>2 DEF WantedInv, Follows, ReadInv, NoteInv, PutInv, BackInv
  <2>3. CASE UserEdits \/ UserDeletesNote BY <2>0, <2>3, UserWanted
  <2>4. CASE AgentWrites \/ AgentRemovesFile BY <2>0, <2>4, AgentWanted
  <2>5. CASE Hydrate \/ Seed BY <2>0, <2>5, StartWanted
  <2>6. CASE ReadFile \/ RestoreKanwas BY <2>0, <2>6, EventWanted
  <2>7. CASE Preflight \/ Decide BY <2>0, <2>7, CompareWanted
  <2>8. CASE RestoreFile BY <2>0, <2>8, RestoreWanted
  <2>9. CASE Apply BY <2>0, <2>9, ApplyWanted
  <2>10. CASE ApplyFails BY <2>10 DEF ApplyFails, Live
  <2>11. CASE RefreshShadow BY <2>0, <2>11, RefreshWanted
  <2>12. CASE WriteBack BY <2>0, <2>12, BackWanted
  <2> QED BY <1>3, <2>1, <2>2, <2>3, <2>4, <2>5, <2>6, <2>7, <2>8, <2>9, <2>10, <2>11, <2>12
          DEF Next, Handle
<1> QED BY <1>2, <1>3

AtRest == SeenInv /\ (mishaps = {} => ShadowInv) /\ WantedInv

\* At rest a note that no user has deleted is as its users and the agent want it
\* (NoteAsWanted), unless one of the races named in mishaps has happened: every line
\* somebody wrote and nobody took is there as the note prints it, and no other, but for
\* lines both have taken.
THEOREM NoteIsAsWanted == Spec => []NoteAsWanted
<1>1. Init => AtRest
  <2> SUFFICES ASSUME Init PROVE AtRest
    OBVIOUS
  <2>1. at = "hydrate" /\ ~mapped /\ file = None /\ shadow = None /\ wanted = doc /\ doc # None
    BY TextsAreThere DEF Init, Texts, Lines
  <2> QED BY <2>1, WorkInit DEF AtRest, SeenInv, OwnText, FileSeen, SyncFile, Starting, Reading,
                                ShadowInv, WantedInv, LinesOf
<1>2. AtRest /\ [Next]_vars => AtRest'
  <2> SUFFICES ASSUME AtRest, [Next]_vars PROVE AtRest'
    OBVIOUS
  <2>1. WorkInv' /\ WantedInv' BY WorkNext, WantedNext DEF AtRest, SeenInv
  <2>2. ASSUME mishaps' = {} PROVE OwnText' /\ FileSeen' /\ ShadowInv'
    <3>1. mishaps = {} BY <2>2, RacesStay
    <3> QED BY <2>2, <3>1, OwnTextNext, FileSeenNext, ShadowNext DEF AtRest, SeenInv
  <2> QED BY <2>1, <2>2 DEF AtRest, SeenInv
<1>3. AtRest => NoteAsWanted
  <2> SUFFICES ASSUME AtRest, Quiet, Live PROVE LinesOf(doc) \ Contested = wanted \ Contested
    BY DEF NoteAsWanted, Live
  <2>1. at = "idle" /\ ~dirty /\ ~Changed /\ ~Gone /\ FileSeen
    BY DEF Quiet, Changed, Removal, Gone, AtRest, SeenInv, Live
  <2>2. file = None => ~mapped BY <2>1 DEF FileSeen
  <2>3. file # None => mapped /\ shadow = FileLines
    BY <2>1 DEF FileSeen, Starting, Reading, Live
  <2>4. FileLines = LinesOf(shadow)
    <3>1. CASE file = None
      <4>1. shadow = None BY <2>2, <3>1 DEF AtRest, SeenInv, WorkInv, MapInv
      <4> QED BY <3>1, <4>1 DEF FileLines, LinesOf
    <3>2. CASE file # None
      <4>1. FileLines # None
        BY <3>2, ShownTyped, TextsAreThere DEF AtRest, SeenInv, WorkInv, TypeOK, FileLines
      <4> QED BY <2>3, <3>2, <4>1 DEF LinesOf
    <3> QED BY <3>1, <3>2
  <2>5. Follows(LinesOf(shadow)) BY <2>1 DEF AtRest, WantedInv
  <2>6. wanted \subseteq Lines /\ LinesOf(doc) \subseteq Lines
    BY TextsTyped DEF AtRest, SeenInv, WorkInv, TypeOK, Texts
  <2> QED BY <2>4, <2>5, <2>6 DEF Follows, Contested
<1> QED BY <1>1, <1>2, <1>3, PTL DEF Spec

=============================================================================
