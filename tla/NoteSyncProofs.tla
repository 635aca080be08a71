--------------------------- MODULE NoteSyncProofs ---------------------------
(***************************************************************************)
(* Theorems about NoteSync, for any number of clients, edits and broken    *)
(* connections: a client's generation of the note never runs ahead of the  *)
(* values its root has seen, what is under way fits what its receiver will *)
(* hold by then, and so the two sides come to the same root, generation    *)
(* and text.                                                               *)
(***************************************************************************)
EXTENDS NoteSync, TLAPS

----------------------------------------------------------------------------
(* The key of the note.                                                    *)

\* The last value, spelled out.
LEMMA LatestIs ==
  ASSUME NEW r \in Roots
  PROVE  /\ Latest(r) = IF 1 \notin r.sets THEN 0
                        ELSE IF 2 \notin r.sets THEN 1
                        ELSE IF 3 \notin r.sets THEN 2 ELSE 3
         /\ Latest(r) \in 0..3
         /\ Latest(r) # 0 => Latest(r) \in r.sets
<1> DEFINE last == IF 1 \notin r.sets THEN 0
                   ELSE IF 2 \notin r.sets THEN 1
                   ELSE IF 3 \notin r.sets THEN 2 ELSE 3
           Fits(k) == 1..k \subseteq r.sets /\ k + 1 \notin r.sets
<1>1. r.sets \subseteq 1..3 BY DEF Roots, Instances
<1>2. last \in 0..3 /\ Fits(last)
  <2>1. CASE 1 \notin r.sets BY <2>1
  <2>2. CASE 1 \in r.sets /\ 2 \notin r.sets BY <2>2
  <2>3. CASE 1 \in r.sets /\ 2 \in r.sets /\ 3 \notin r.sets BY <2>3
  <2>4. CASE 1 \in r.sets /\ 2 \in r.sets /\ 3 \in r.sets BY <1>1, <2>4
  <2> QED BY <2>1, <2>2, <2>3, <2>4
<1>3. \A k \in 0..3 : Fits(k) => k = last
  <2> TAKE k \in 0..3
  <2> HAVE Fits(k)
  <2>1. CASE k < last
    <3>1. k + 1 \in 1..last BY <1>2, <2>1
    <3> QED BY <1>2, <3>1
  <2>2. CASE last < k
    <3>1. last + 1 \in 1..k BY <1>2, <2>2
    <3> QED BY <1>2, <3>1
  <2> QED BY <1>2, <2>1, <2>2
<1> HIDE DEF last
<1>4. Latest(r) = last BY <1>2, <1>3 DEF Latest
<1> QED BY <1>2, <1>4 DEF last

\* A root only grows, and so does the last value; another instance is a later one.
LEMMA RootGrows ==
  ASSUME NEW r \in Roots, NEW s \in Roots, r.sets \subseteq s.sets, r.dels \subseteq s.dels
  PROVE  /\ Latest(r) <= Latest(s)
         /\ Instance(r) \in 0..3 /\ Instance(s) \in 0..3
         /\ Instance(s) # 0 /\ Instance(s) # Instance(r) => Latest(r) < Latest(s)
BY LatestIs DEF Instance

\* Two keys made of legal writes merge into one.
LEMMA MergeTyped ==
  ASSUME NEW r \in Roots, NEW change \in Roots
  PROVE  /\ Merge(r, change) \in Roots
         /\ r.sets \subseteq Merge(r, change).sets /\ r.dels \subseteq Merge(r, change).dels
         /\ change.sets \subseteq Merge(r, change).sets
BY DEF Merge, Roots

----------------------------------------------------------------------------
(* Types.                                                                  *)

\* A generation has at most as many numbers as the root has seen values.
Counted(n, r) == n.gen <= Latest(r)

CountedMessage(m) ==
  /\ m.gen <= 3
  /\ m.kind = "bootstrap" => m.gen <= Latest(m.root)
  /\ m.kind = "note" => m.root = Nothing

GenInv ==
  /\ \A c \in Clients : /\ Counted(note[c], root[c])
                        /\ kept[c] # {} => 1 \in root[c].sets
                        /\ \A i \in DOMAIN up[c] : CountedMessage(up[c][i])
                        /\ \A i \in DOMAIN down[c] : CountedMessage(down[c][i])
  /\ Counted(snote, sroot)

\* The state of the note that follows the root counts no further than the root.
LEMMA FollowTyped ==
  ASSUME NEW n \in Notes, NEW r \in Roots, NEW s \in Roots, Counted(n, r),
         r.sets \subseteq s.sets, r.dels \subseteq s.dels
  PROVE  Follow(n, r, s) \in Notes /\ Counted(Follow(n, r, s), s)
<1>1. n.gen \in 0..4 /\ n.gen <= Latest(r) /\ n.doc \in Texts /\ {} \in Texts
  BY DEF Notes, Counted, Texts
<1>2. /\ Latest(r) \in 0..3 /\ Latest(s) \in 0..3 /\ Latest(r) <= Latest(s)
      /\ Instance(s) # 0 /\ Instance(s) # Instance(r) => Latest(r) < Latest(s)
  BY RootGrows, LatestIs
<1>3. CASE Instance(s) = Instance(r)
  <2>1. Follow(n, r, s) = [n EXCEPT !.ready = @ \/ n.doc # {}] BY <1>3 DEF Follow
  <2>2. (n.ready \/ n.doc # {}) \in BOOLEAN OBVIOUS
  <2>3. Follow(n, r, s) \in Notes /\ Follow(n, r, s).gen = n.gen BY <2>1, <2>2 DEF Notes
  <2> QED BY <1>1, <1>2, <2>3 DEF Counted
<1>4. CASE Instance(s) # Instance(r)
  <2>1. Follow(n, r, s) = [doc |-> {}, ready |-> FALSE,
                           gen |-> IF Instance(s) = 0 THEN n.gen ELSE n.gen + 1]
    BY <1>4 DEF Follow
  <2> QED BY <1>1, <1>2, <1>4, <2>1 DEF Notes, Counted
<1> QED BY <1>3, <1>4

Counts(q) == q \in Seq(Messages) /\ \A i \in DOMAIN q : CountedMessage(q[i])

\* What a queue holds after messages have been sent or taken.
LEMMA CountsQueue ==
  /\ Counts(<< >>)
  /\ \A m \in Messages : CountedMessage(m) => Counts(<<m>>)
  /\ \A m, k \in Messages : CountedMessage(m) /\ CountedMessage(k) => Counts(<<m, k>>)
  /\ \A q, s : Counts(q) /\ Counts(s) => Counts(q \o s)
  /\ \A q : Counts(q) /\ q # << >> =>
       Counts(Tail(q)) /\ Head(q) \in Messages /\ CountedMessage(Head(q))
<1>1. Counts(<< >>) BY DEF Counts
<1>2. \A m \in Messages : CountedMessage(m) => Counts(<<m>>) BY DEF Counts
<1>3. \A m, k \in Messages : CountedMessage(m) /\ CountedMessage(k) => Counts(<<m, k>>)
  <2> TAKE m \in Messages, k \in Messages
  <2> HAVE CountedMessage(m) /\ CountedMessage(k)
  <2>1. <<m, k>> \in Seq(Messages) /\ DOMAIN <<m, k>> = 1..2 OBVIOUS
  <2>2. <<m, k>>[1] = m /\ <<m, k>>[2] = k OBVIOUS
  <2> QED BY <2>1, <2>2 DEF Counts
<1>4. ASSUME NEW q, NEW s, Counts(q), Counts(s) PROVE Counts(q \o s)
  <2>1. q \in Seq(Messages) /\ s \in Seq(Messages) BY <1>4 DEF Counts
  <2>2. \A i \in DOMAIN (q \o s) : \/ i \in DOMAIN q /\ (q \o s)[i] = q[i]
                                   \/ i - Len(q) \in DOMAIN s /\ (q \o s)[i] = s[i - Len(q)]
    BY <2>1
  <2> QED BY <1>4, <2>1, <2>2 DEF Counts
<1>5. ASSUME NEW q, Counts(q), q # << >>
      PROVE  Counts(Tail(q)) /\ Head(q) \in Messages /\ CountedMessage(Head(q))
  <2>1. q \in Seq(Messages) /\ Head(q) = q[1] /\ 1 \in DOMAIN q /\ Tail(q) \in Seq(Messages)
    BY <1>5 DEF Counts
  <2>2. \A i \in DOMAIN Tail(q) : i + 1 \in DOMAIN q /\ Tail(q)[i] = q[i + 1]
    BY <1>5, <2>1
  <2>3. Head(q) \in Messages BY <2>1
  <2> QED BY <1>5, <2>1, <2>2, <2>3 DEF Counts
<1> QED BY <1>1, <1>2, <1>3, <1>4, <1>5

\* The parts of TypeOK and GenInv: the clients, the room, what is under way, and the rest.
ClientTyped ==
  /\ root' \in [Clients -> Roots] /\ note' \in [Clients -> Notes]
  /\ resync' \in [Clients -> SUBSET {"root", "note"}] /\ kept' \in [Clients -> Texts]
  /\ \A c \in Clients : Counted(note'[c], root'[c]) /\ (kept'[c] # {} => 1 \in root'[c].sets)
RoomTyped == sroot' \in Roots /\ snote' \in Notes /\ Counted(snote', sroot')
UpTyped == up' \in [Clients -> Seq(Messages)] /\ \A c \in Clients : Counts(up'[c])
DownTyped == down' \in [Clients -> Seq(Messages)] /\ \A c \in Clients : Counts(down'[c])
HistoryTyped ==
  /\ lost' \in Texts /\ stale' \subseteq Clients
  /\ mishaps' \subseteq {"update lost", "made unsynced"}
RestTyped ==
  /\ conn' \in [Clients -> {"new", "off", "connecting", "on", "locked out"}]
  /\ edits' \in 0..MaxEdits /\ drops' \in 0..MaxDrops

CountInv == TypeOK /\ GenInv

\* The parts make up CountInv.
LEMMA StepTyped ==
  ASSUME ClientTyped, RoomTyped, UpTyped, DownTyped, HistoryTyped, RestTyped
  PROVE  CountInv'
BY DEF CountInv, TypeOK, GenInv, ClientTyped, RoomTyped, UpTyped, DownTyped, HistoryTyped,
       RestTyped, Counts

\* A client that is left alone keeps its types.
LEMMA SameTyped ==
  ASSUME CountInv
  PROVE  /\ UNCHANGED client => ClientTyped
         /\ UNCHANGED room => RoomTyped
         /\ UNCHANGED up => UpTyped
         /\ UNCHANGED down => DownTyped
         /\ UNCHANGED history => HistoryTyped
         /\ UNCHANGED <<conn, edits, drops>> => RestTyped
BY DEF CountInv, TypeOK, GenInv, ClientTyped, RoomTyped, UpTyped, DownTyped, HistoryTyped,
       RestTyped, Counts, client, room, history

\* Sending and handling keep the types of what is under way.
LEMMA NetworkTyped ==
  ASSUME CountInv, NEW c \in Clients
  PROVE  /\ \A messages : Counts(messages) /\ Emit(c, messages) => UpTyped
         /\ \A messages : Counts(messages) /\ Broadcast(c, messages) => DownTyped
         /\ up[c] # << >> /\ Handled(c) => UpTyped
         /\ down[c] # << >> /\ down' = [down EXCEPT ![c] = Tail(@)] => DownTyped
         /\ up[c] # << >> => Head(up[c]) \in Messages /\ CountedMessage(Head(up[c]))
         /\ down[c] # << >> => Head(down[c]) \in Messages /\ CountedMessage(Head(down[c]))
<1>1. /\ up \in [Clients -> Seq(Messages)] /\ down \in [Clients -> Seq(Messages)]
      /\ \A d \in Clients : Counts(up[d]) /\ Counts(down[d])
  BY DEF CountInv, TypeOK, GenInv, Counts
<1>2. \A q : Counts(q) => q \in Seq(Messages) BY DEF Counts
<1>3. ASSUME NEW messages, Counts(messages), Emit(c, messages) PROVE UpTyped
  BY <1>1, <1>2, <1>3, CountsQueue DEF Emit, UpTyped
<1>4. ASSUME NEW messages, Counts(messages), Broadcast(c, messages) PROVE DownTyped
  <2>1. \A d \in Clients : Counts(down[d] \o messages) BY <1>1, <1>4, CountsQueue
  <2>2. \A d \in Clients : down'[d] = down[d] \o messages \/ down'[d] = down[d]
    BY <1>4 DEF Broadcast
  <2>3. \A d \in Clients : Counts(down'[d]) BY <1>1, <2>1, <2>2
  <2>4. down' \in [Clients -> Seq(Messages)] BY <1>2, <1>4, <2>3 DEF Broadcast
  <2> QED BY <2>3, <2>4 DEF DownTyped
<1>5. up[c] # << >> /\ Handled(c) => UpTyped
  BY <1>1, <1>2, CountsQueue DEF Handled, UpTyped
<1>6. down[c] # << >> /\ down' = [down EXCEPT ![c] = Tail(@)] => DownTyped
  BY <1>1, <1>2, CountsQueue DEF DownTyped
<1> QED BY <1>1, <1>3, <1>4, <1>5, <1>6, CountsQueue

\* What is done to a text leaves a text.
LEMMA TextsTyped ==
  /\ {} \in Texts /\ {Body} \in Texts /\ Nothing \in Roots
  /\ \A s, t \in Texts : s \union t \in Texts
  /\ \A k \in 1..3 : Change({k}, {}) \in Roots /\ Change({}, {k}) \in Roots
  /\ Change({2, 3}, {}) \in Roots
BY BoundsAssumption DEF Texts, Body, Nothing, Change, Roots, Instances

\* The messages are typed, and none counts too far.
LEMMA MessagesTyped ==
  /\ \A r \in Roots : RootUpdate(r) \in Messages /\ CountedMessage(RootUpdate(r))
  /\ \A gen \in 0..3, text \in Texts :
       NoteUpdate(gen, text) \in Messages /\ CountedMessage(NoteUpdate(gen, text))
  /\ \A r \in Roots, text \in Texts :
       Bundle(r, text) \in Messages /\ CountedMessage(Bundle(r, text))
BY TextsTyped DEF RootUpdate, NoteUpdate, Bundle, Messages, CountedMessage

\* CountInv holds at the start.
LEMMA TypeInit == Init => CountInv
<1> SUFFICES ASSUME Init PROVE CountInv
  OBVIOUS
<1>1. Latest(Nothing) = 0 /\ Latest(Change({1}, {})) = 1
  BY LatestIs, TextsTyped DEF Nothing, Change
<1>2. /\ [doc |-> {}, gen |-> 0, ready |-> FALSE] \in Notes
      /\ [doc |-> {Body}, gen |-> 1, ready |-> TRUE] \in Notes
  BY TextsTyped DEF Notes
<1>3. sroot \in Roots /\ snote \in Notes /\ Counted(snote, sroot)
  <2>1. CASE sroot = Nothing /\ snote = [doc |-> {}, gen |-> 0, ready |-> FALSE]
    BY <1>1, <1>2, <2>1, TextsTyped DEF Counted
  <2>2. CASE sroot = Change({1}, {}) /\ snote = [doc |-> {Body}, gen |-> 1, ready |-> TRUE]
    BY <1>1, <1>2, <2>2, TextsTyped DEF Counted
  <2> QED BY <2>1, <2>2 DEF Init
<1>4. 0 \in 0..MaxEdits /\ 0 \in 0..MaxDrops BY BoundsAssumption
<1>5. TypeOK BY <1>2, <1>3, <1>4, TextsTyped DEF Init, TypeOK
<1>6. GenInv BY <1>1, <1>3, TextsTyped DEF Init, GenInv, Counted
<1> QED BY <1>5, <1>6 DEF CountInv

\* CountInv, after an edit.
LEMMA EditTyped ==
  ASSUME CountInv, NEW c \in Clients, EditNote(c)
  PROVE  CountInv'
<1>1. edits' \in 0..MaxEdits
  <2>1. edits \in 0..MaxEdits BY DEF CountInv, TypeOK
  <2>2. edits < MaxEdits /\ edits' = edits + 1 BY DEF EditNote
  <2> QED BY <2>1, <2>2, BoundsAssumption
<1>2. {edits'} \in Texts BY <1>1 DEF Texts
<1>3. note[c] \in Notes /\ note[c].gen \in 0..3
  <2>1. note[c] \in Notes /\ root[c] \in Roots /\ note[c].gen <= Latest(root[c])
    BY DEF CountInv, TypeOK, GenInv, Counted
  <2> QED BY <2>1, LatestIs DEF Notes
<1>4. note[c].doc \union {edits'} \in Texts BY <1>2, <1>3, TextsTyped DEF Notes
<1>5. note' = [note EXCEPT ![c].doc = @ \union {edits'}] /\ note \in [Clients -> Notes]
  BY DEF EditNote, CountInv, TypeOK
<1>6. note' \in [Clients -> Notes] /\ \A d \in Clients : note'[d].gen = note[d].gen
  BY <1>4, <1>5 DEF Notes
<1>7. UNCHANGED <<root, kept>> BY DEF EditNote
<1>8. resync' \in [Clients -> SUBSET {"root", "note"}]
  <2>1. resync \in [Clients -> SUBSET {"root", "note"}] BY DEF CountInv, TypeOK
  <2>2. resync' = resync \/ resync' = [resync EXCEPT ![c] = @ \union {"note"}] BY DEF EditNote
  <2> QED BY <2>1, <2>2
<1>9. ClientTyped
  BY <1>6, <1>7, <1>8 DEF ClientTyped, CountInv, TypeOK, GenInv, Counted
<1>10. UpTyped
  <2>1. Counts(<<NoteUpdate(note[c].gen, {edits'})>>)
    BY <1>2, <1>3, CountsQueue, MessagesTyped, TextsTyped
  <2>2. UNCHANGED up \/ Emit(c, <<NoteUpdate(note[c].gen, {edits'})>>) BY DEF EditNote
  <2> QED BY <2>1, <2>2, NetworkTyped, SameTyped
<1>11. RestTyped BY <1>1 DEF EditNote, RestTyped, CountInv, TypeOK
<1> QED BY <1>9, <1>10, <1>11, SameTyped, StepTyped DEF EditNote

\* A change of the root by a client: the new state of the note may count as far as the new root.
LEMMA ChangeTyped ==
  ASSUME CountInv, NEW c \in Clients, NEW change \in Roots, NEW newNote \in Notes, NEW messages,
         Counts(messages), ChangeRoot(c, change, newNote, messages),
         Counted(newNote, Merge(root[c], change))
  PROVE  /\ UpTyped /\ RoomTyped /\ DownTyped /\ RestTyped
         /\ root' \in [Clients -> Roots] /\ note' \in [Clients -> Notes]
         /\ resync' \in [Clients -> SUBSET {"root", "note"}]
         /\ \A d \in Clients : /\ Counted(note'[d], root'[d])
                               /\ 1 \in root[d].sets => 1 \in root'[d].sets
<1>1. root' = [root EXCEPT ![c] = Merge(@, change)] /\ note' = [note EXCEPT ![c] = newNote]
  BY DEF ChangeRoot
<1>2. root \in [Clients -> Roots] /\ note \in [Clients -> Notes] BY DEF CountInv, TypeOK
<1>3. Merge(root[c], change) \in Roots /\ root[c].sets \subseteq Merge(root[c], change).sets
  BY <1>2, MergeTyped
<1>4. root' \in [Clients -> Roots] /\ note' \in [Clients -> Notes] BY <1>1, <1>2, <1>3
<1>5. \A d \in Clients : Counted(note'[d], root'[d]) /\ (1 \in root[d].sets => 1 \in root'[d].sets)
  BY <1>1, <1>2, <1>3 DEF CountInv, GenInv
<1>6. resync' \in [Clients -> SUBSET {"root", "note"}]
  <2>1. resync \in [Clients -> SUBSET {"root", "note"}] BY DEF CountInv, TypeOK
  <2>2. resync' = [resync EXCEPT ![c] = {}] \/ resync' = [resync EXCEPT ![c] = {"root"}]
    BY DEF ChangeRoot
  <2> QED BY <2>1, <2>2
<1>7. UpTyped BY NetworkTyped, SameTyped DEF ChangeRoot
<1> QED BY <1>4, <1>5, <1>6, <1>7, SameTyped DEF ChangeRoot

\* CountInv, after a step of a user: an edit, a removal, a note made or brought back.
LEMMA UserTyped ==
  ASSUME CountInv, NEW c \in Clients, CreateNote(c) \/ RemoveNote(c) \/ UndoRemoval(c)
  PROVE  CountInv'
<1>1. /\ root[c] \in Roots /\ note[c] \in Notes /\ Counted(note[c], root[c]) /\ kept[c] \in Texts
      /\ kept \in [Clients -> Texts] /\ \A d \in Clients : kept[d] # {} => 1 \in root[d].sets
      /\ note[c].doc \in Texts /\ note[c].gen \in 0..4 /\ {} \in Texts
  BY TextsTyped DEF CountInv, TypeOK, GenInv, Notes
<1>2. HistoryTyped
  BY DEF CreateNote, RemoveNote, UndoRemoval, ChangeRoot, HistoryTyped, CountInv, TypeOK
<1>3. CASE CreateNote(c)
  <2> DEFINE change == Change({1}, {})
             n == [doc |-> {Body}, gen |-> note[c].gen + 1, ready |-> TRUE]
             messages == <<Bundle(Change({1}, {}), {Body})>>
  <2>1. ChangeRoot(c, change, n, messages) /\ 1 \notin root[c].sets /\ kept' = kept
    BY <1>3 DEF CreateNote
  <2>2. change \in Roots /\ Counts(messages) BY CountsQueue, MessagesTyped, TextsTyped
  <2>3. /\ Latest(root[c]) = 0
        /\ Merge(root[c], change) \in Roots /\ 1 \in Merge(root[c], change).sets
    BY <1>1, <2>1, LatestIs, MergeTyped, TextsTyped DEF Change
  <2>4. 1 <= Latest(Merge(root[c], change)) BY <2>3, LatestIs
  <2>5. n \in Notes /\ Counted(n, Merge(root[c], change))
    BY <1>1, <2>3, <2>4, LatestIs, TextsTyped DEF Notes, Counted
  <2> HIDE DEF change, n, messages
  <2>6. ClientTyped
    BY <1>1, <2>1, <2>2, <2>5, ChangeTyped DEF ClientTyped
  <2> QED BY <1>2, <2>1, <2>2, <2>5, <2>6, ChangeTyped, StepTyped
<1>4. CASE RemoveNote(c)
  <2> DEFINE change == Change({}, {Instance(root[c])})
             n == Follow(note[c], root[c], Merge(root[c], change))
             messages == <<RootUpdate(change)>>
  <2>1. /\ ChangeRoot(c, change, n, messages) /\ Instance(root[c]) # 0
        /\ kept' = [kept EXCEPT ![c] = note[c].doc]
    BY <1>4 DEF RemoveNote
  <2>2. Instance(root[c]) \in 1..3 /\ 1 \in root[c].sets
    BY <1>1, <2>1, LatestIs DEF Instance
  <2>3. change \in Roots /\ Counts(messages)
    BY <2>2, CountsQueue, MessagesTyped, TextsTyped
  <2>4. n \in Notes /\ Counted(n, Merge(root[c], change))
    BY <1>1, <2>3, FollowTyped, MergeTyped
  <2> HIDE DEF change, n, messages
  <2>5. ClientTyped
    <3>1. \A d \in Clients : kept'[d] # {} => 1 \in root[d].sets BY <1>1, <2>1, <2>2
    <3>2. kept' \in [Clients -> Texts] BY <1>1, <2>1
    <3> QED BY <2>1, <2>3, <2>4, <3>1, <3>2, ChangeTyped DEF ClientTyped
  <2> QED BY <1>2, <2>1, <2>3, <2>4, <2>5, ChangeTyped, StepTyped
<1>5. CASE UndoRemoval(c)
  <2> DEFINE change == Change({2, 3}, {})
             n == [doc |-> kept[c], gen |-> note[c].gen + 2, ready |-> TRUE]
             messages == <<RootUpdate(Change({3}, {})), Bundle(Change({2}, {}), kept[c])>>
  <2>1. /\ ChangeRoot(c, change, n, messages) /\ 2 \notin root[c].sets /\ 1 \in root[c].sets
        /\ kept' = kept
    BY <1>1, <1>5 DEF UndoRemoval
  <2>2. change \in Roots /\ Counts(messages)
    BY <1>1, CountsQueue, MessagesTyped, TextsTyped
  <2>3. /\ Latest(root[c]) = 1
        /\ Merge(root[c], change) \in Roots /\ {1, 2, 3} \subseteq Merge(root[c], change).sets
    BY <1>1, <2>1, LatestIs, MergeTyped, TextsTyped DEF Change
  <2>4. Latest(Merge(root[c], change)) = 3 BY <2>3, LatestIs
  <2>5. n \in Notes /\ Counted(n, Merge(root[c], change))
    BY <1>1, <2>3, <2>4 DEF Notes, Counted
  <2> HIDE DEF change, n, messages
  <2>6. ClientTyped
    BY <1>1, <2>1, <2>2, <2>5, ChangeTyped DEF ClientTyped
  <2> QED BY <1>2, <2>1, <2>2, <2>5, <2>6, ChangeTyped, StepTyped
<1> QED BY <1>3, <1>4, <1>5

\* CountInv, after a connection was opened, or broke.
LEMMA ConnectionTyped ==
  ASSUME CountInv, NEW c \in Clients, Connect(c) \/ Drop(c)
  PROVE  CountInv'
<1>1. CASE Connect(c)
  <2>1. note' = [note EXCEPT ![c].ready = FALSE] /\ note \in [Clients -> Notes]
    BY <1>1 DEF Connect, CountInv, TypeOK
  <2>2. note' \in [Clients -> Notes] /\ \A d \in Clients : note'[d].gen = note[d].gen
    BY <2>1 DEF Notes
  <2>3. ClientTyped
    BY <1>1, <2>2 DEF Connect, ClientTyped, CountInv, TypeOK, GenInv, Counted
  <2>4. Bootstrap \in Messages /\ CountedMessage(Bootstrap)
    <3>1. /\ sroot \in Roots /\ snote.gen \in 0..4 /\ snote.doc \in Texts
          /\ snote.gen <= Latest(sroot) /\ Latest(sroot) \in 0..3
      BY LatestIs DEF CountInv, TypeOK, GenInv, Notes, Counted
    <3>2. snote.gen <= 3 BY <3>1
    <3> QED BY <3>1, <3>2 DEF Bootstrap, Messages, CountedMessage
  <2>5. Counts(<<Bootstrap>>) BY <2>4, CountsQueue
  <2>6. DownTyped
    BY <1>1, <2>5 DEF Connect, DownTyped, CountInv, TypeOK, GenInv, Counts
  <2>7. RestTyped BY <1>1 DEF Connect, RestTyped, CountInv, TypeOK
  <2> QED BY <1>1, <2>3, <2>6, <2>7, SameTyped, StepTyped DEF Connect
<1>2. CASE Drop(c)
  <2>1. drops' \in 0..MaxDrops
    <3>1. drops \in 0..MaxDrops /\ drops < MaxDrops /\ drops' = drops + 1
      BY <1>2 DEF Drop, CountInv, TypeOK
    <3> QED BY <3>1, BoundsAssumption
  <2>2. RestTyped BY <1>2, <2>1 DEF Drop, RestTyped, CountInv, TypeOK
  <2>3. UpTyped /\ DownTyped
    BY <1>2, CountsQueue DEF Drop, UpTyped, DownTyped, CountInv, TypeOK, GenInv, Counts
  <2>4. lost' \in Texts
    <3> DEFINE sent == {up[c][i] : i \in DOMAIN up[c]}
    <3>1. up[c] \in Seq(Messages) BY DEF CountInv, TypeOK
    <3>2. \A m \in sent : m.doc \in Texts
      <4>1. \A i \in DOMAIN up[c] : up[c][i] \in Messages BY <3>1
      <4>2. \A m \in Messages : m.doc \in Texts BY DEF Messages
      <4> QED BY <4>1, <4>2
    <3>3. UNION {m.doc : m \in sent} \in Texts BY <3>2 DEF Texts
    <3>4. lost' = lost \union UNION {m.doc : m \in sent} BY <1>2 DEF Drop
    <3> QED BY <3>3, <3>4, TextsTyped DEF CountInv, TypeOK
  <2>5. HistoryTyped BY <1>2, <2>4 DEF Drop, HistoryTyped, CountInv, TypeOK
  <2> QED BY <1>2, <2>2, <2>3, <2>5, SameTyped, StepTyped DEF Drop
<1> QED BY <1>1, <1>2

\* CountInv, after a client was closed and opened again.
LEMMA ReopenTyped ==
  ASSUME CountInv, ReopenRoom
  PROVE  CountInv'
<1>1. sroot \in Roots /\ snote \in Notes /\ Latest(sroot) \in 0..3
  BY LatestIs DEF CountInv, TypeOK
<1>2. snote' = [snote EXCEPT !.gen = IF Instance(sroot) = 0 THEN 0 ELSE 1] /\ sroot' = sroot
  BY DEF ReopenRoom
<1>3. Instance(sroot) # 0 => 1 <= Latest(sroot) BY <1>1 DEF Instance
<1>4. RoomTyped BY <1>1, <1>2, <1>3 DEF RoomTyped, Notes, Counted
<1> QED BY <1>4, SameTyped, StepTyped DEF ReopenRoom, network

\* What the client makes of a bootstrap.
LEMMA BootstrapTyped ==
  ASSUME CountInv, NEW c \in Clients, ReceiveBootstrap(c)
  PROVE  CountInv'
<1> DEFINE m       == Head(down[c])
           r       == Merge(root[c], m.root)
           pending == IF Instance(r) = Instance(root[c]) THEN resync[c]
                      ELSE resync[c] \ {"note"}
           tracked == Follow(note[c], root[c], r)
           n       == Synced(tracked, m)
<1>1. /\ down[c] # << >> /\ m.kind = "bootstrap"
      /\ root' = [root EXCEPT ![c] = r]
      /\ IF Instance(m.root) # 0 /\ Instance(r) = 0
           THEN /\ conn' = [conn EXCEPT ![c] = "locked out"]
                /\ note' = [note EXCEPT ![c] = tracked]
                /\ down' = [down EXCEPT ![c] = << >>]
                /\ UNCHANGED <<resync, up, stale>>
           ELSE /\ conn' = [conn EXCEPT ![c] = "on"]
                /\ note' = [note EXCEPT ![c] = n]
                /\ FlushUnsynced(c, pending, r, n)
                /\ resync' = [resync EXCEPT ![c] = {}]
                /\ down' = [down EXCEPT ![c] = Tail(@)]
                /\ (stale' = stale \union {c} \/ stale' = stale \ {c})
      /\ UNCHANGED <<kept, room, drops, edits, lost, mishaps>>
  BY DEF ReceiveBootstrap
<1>2. m \in Messages /\ CountedMessage(m) BY <1>1, NetworkTyped
<1>3. /\ root[c] \in Roots /\ note[c] \in Notes /\ Counted(note[c], root[c])
      /\ m.root \in Roots /\ m.doc \in Texts /\ m.gen \in 0..3 /\ m.gen <= Latest(m.root)
  <2>1. root[c] \in Roots /\ note[c] \in Notes /\ Counted(note[c], root[c])
    BY DEF CountInv, TypeOK, GenInv
  <2>2. m.root \in Roots /\ m.doc \in Texts /\ m.gen \in 0..4 BY <1>2 DEF Messages
  <2>3. m.gen <= 3 /\ m.gen <= Latest(m.root) BY <1>1, <1>2 DEF CountedMessage
  <2> QED BY <2>1, <2>2, <2>3
<1>4. r \in Roots /\ root[c].sets \subseteq r.sets /\ m.root.sets \subseteq r.sets
      /\ tracked \in Notes /\ Counted(tracked, r)
  BY <1>3, FollowTyped, MergeTyped
<1>5. Latest(m.root) <= Latest(r) /\ Latest(r) \in 0..3 /\ Latest(m.root) \in 0..3
  BY <1>3, <1>4, LatestIs
<1> HIDE DEF m, r, tracked, pending
<1>6. n \in Notes /\ Counted(n, r)
  <2>1. CASE Instance(m.root) = 0 BY <1>4, <2>1 DEF Synced
  <2>2. CASE Instance(m.root) # 0
    <3>1. n = [doc |-> tracked.doc \union m.doc, gen |-> m.gen, ready |-> TRUE]
      BY <2>2 DEF Synced
    <3>2. tracked.doc \union m.doc \in Texts BY <1>3, <1>4, TextsTyped DEF Notes
    <3>3. m.gen <= Latest(r) BY <1>3, <1>5
    <3> QED BY <1>3, <3>1, <3>2, <3>3 DEF Notes, Counted
  <2> QED BY <2>1, <2>2
<1> HIDE DEF n
<1>7. ClientTyped
  <2>1. /\ note' = [note EXCEPT ![c] = tracked] \/ note' = [note EXCEPT ![c] = n]
        /\ resync' = resync \/ resync' = [resync EXCEPT ![c] = {}]
        /\ root' = [root EXCEPT ![c] = r] /\ kept' = kept
    BY <1>1
  <2>2. root' \in [Clients -> Roots] /\ note' \in [Clients -> Notes]
        /\ resync' \in [Clients -> SUBSET {"root", "note"}] /\ kept' \in [Clients -> Texts]
    <3>1. /\ root \in [Clients -> Roots] /\ note \in [Clients -> Notes]
          /\ resync \in [Clients -> SUBSET {"root", "note"}] /\ kept \in [Clients -> Texts]
      BY DEF CountInv, TypeOK
    <3>2. root' \in [Clients -> Roots] /\ note' \in [Clients -> Notes]
      BY <1>4, <1>6, <2>1, <3>1
    <3> QED BY <2>1, <3>1, <3>2
  <2>3. \A d \in Clients : Counted(note'[d], root'[d]) /\ (kept'[d] # {} => 1 \in root'[d].sets)
    BY <1>4, <1>6, <2>1 DEF CountInv, TypeOK, GenInv
  <2> QED BY <2>2, <2>3 DEF ClientTyped
<1>8. UpTyped
  <2>1. CASE up' = up BY <2>1, SameTyped
  <2>2. CASE FlushUnsynced(c, pending, r, n)
    <3>1. n.doc \in Texts /\ n.gen \in 0..3
      <4>1. n.gen \in 0..4 /\ n.gen <= Latest(r) BY <1>6 DEF Notes, Counted
      <4> QED BY <1>5, <1>6, <4>1 DEF Notes
    <3> DEFINE first == IF "root" \in pending THEN <<RootUpdate(r)>> ELSE << >>
               second == IF "note" \in pending THEN <<NoteUpdate(n.gen, n.doc)>> ELSE << >>
    <3>2. Counts(first) BY <1>4, CountsQueue, MessagesTyped
    <3>3. Counts(second) BY <3>1, CountsQueue, MessagesTyped
    <3>4. Counts(first \o second) BY <3>2, <3>3, CountsQueue
    <3>5. Emit(c, first \o second) BY <2>2 DEF FlushUnsynced
    <3> QED BY <3>4, <3>5, NetworkTyped
  <2> QED BY <1>1, <2>1, <2>2
<1>9. DownTyped
  <2>1. CASE down' = [down EXCEPT ![c] = << >>]
    BY <2>1, CountsQueue DEF DownTyped, CountInv, TypeOK, GenInv, Counts
  <2>2. CASE down' = [down EXCEPT ![c] = Tail(@)] BY <1>1, <2>2, NetworkTyped
  <2> QED BY <1>1, <2>1, <2>2
<1>10. RestTyped
  <2>1. conn' = [conn EXCEPT ![c] = "locked out"] \/ conn' = [conn EXCEPT ![c] = "on"]
    BY <1>1
  <2> QED BY <1>1, <2>1 DEF RestTyped, CountInv, TypeOK
<1>11. HistoryTyped
  <2>1. stale' = stale \/ stale' = stale \union {c} \/ stale' = stale \ {c} BY <1>1
  <2> QED BY <1>1, <2>1 DEF HistoryTyped, CountInv, TypeOK
<1> QED BY <1>1, <1>7, <1>8, <1>9, <1>10, <1>11, SameTyped, StepTyped

\* CountInv, after a client took what the room sent it.
LEMMA ReceiveTyped ==
  ASSUME CountInv, NEW c \in Clients, ReceiveRootUpdate(c) \/ ReceiveNoteUpdate(c)
  PROVE  CountInv'
<1> DEFINE m == Head(down[c])
           r == Merge(root[c], m.root)
<1>1. down[c] # << >> /\ down' = [down EXCEPT ![c] = Tail(@)]
  BY DEF ReceiveRootUpdate, ReceiveNoteUpdate
<1>2. m \in Messages /\ DownTyped BY <1>1, NetworkTyped
<1>3. /\ root[c] \in Roots /\ note[c] \in Notes /\ Counted(note[c], root[c])
      /\ m.root \in Roots /\ m.doc \in Texts
      /\ root \in [Clients -> Roots] /\ note \in [Clients -> Notes]
      /\ resync \in [Clients -> SUBSET {"root", "note"}] /\ kept \in [Clients -> Texts]
      /\ \A d \in Clients : Counted(note[d], root[d]) /\ (kept[d] # {} => 1 \in root[d].sets)
  BY <1>2 DEF CountInv, TypeOK, GenInv, Messages
<1>4. ClientTyped
  <2>1. CASE ReceiveRootUpdate(c)
    <3>1. /\ root' = [root EXCEPT ![c] = r] /\ note' = [note EXCEPT ![c] = Follow(@, root[c], r)]
          /\ UNCHANGED <<resync, kept>>
      BY <2>1 DEF ReceiveRootUpdate
    <3>2. r \in Roots /\ root[c].sets \subseteq r.sets
          /\ Follow(note[c], root[c], r) \in Notes /\ Counted(Follow(note[c], root[c], r), r)
      BY <1>3, FollowTyped, MergeTyped
    <3> HIDE DEF r
    <3> QED BY <1>3, <3>1, <3>2 DEF ClientTyped
  <2>2. CASE ReceiveNoteUpdate(c)
    <3>1. \/ note' = note
          \/ note' = [note EXCEPT ![c].doc = @ \union m.doc, ![c].ready = TRUE]
      BY <2>2 DEF ReceiveNoteUpdate
    <3>2. note[c].doc \union m.doc \in Texts BY <1>3, TextsTyped DEF Notes
    <3>3. note' \in [Clients -> Notes] /\ \A d \in Clients : note'[d].gen = note[d].gen
      <4>1. PICK k \in Notes : k.gen = note[c].gen /\ note' = [note EXCEPT ![c] = k]
        <5>1. CASE note' = note BY <1>3, <5>1
        <5>2. CASE note' = [note EXCEPT ![c].doc = @ \union m.doc, ![c].ready = TRUE]
          <6>1. [note[c] EXCEPT !.doc = @ \union m.doc, !.ready = TRUE] \in Notes
            BY <1>3, <3>2 DEF Notes
          <6>2. note' = [note EXCEPT ![c] = [note[c] EXCEPT !.doc = @ \union m.doc, !.ready = TRUE]]
            BY <1>3, <5>2
          <6> QED BY <6>1, <6>2 DEF Notes
        <5> QED BY <3>1, <5>1, <5>2
      <4> QED BY <1>3, <4>1
    <3>4. UNCHANGED <<root, resync, kept>> BY <2>2 DEF ReceiveNoteUpdate
    <3> QED BY <1>3, <3>3, <3>4 DEF ClientTyped, Counted
  <2> QED BY <2>1, <2>2
<1> QED BY <1>2, <1>4, SameTyped, StepTyped DEF ReceiveRootUpdate, ReceiveNoteUpdate

\* CountInv, after the room took what a client sent it.
LEMMA AcceptTyped ==
  ASSUME CountInv, NEW c \in Clients, Accept(c)
  PROVE  CountInv'
<1> DEFINE m == Head(up[c])
           r == Merge(sroot, m.root)
<1>1. up[c] # << >> /\ Handled(c)
  BY DEF Accept, AcceptRootUpdate, AcceptBundle, AcceptNoteUpdate
<1>2. m \in Messages /\ CountedMessage(m) /\ UpTyped BY <1>1, NetworkTyped
<1>3. /\ m.root \in Roots /\ m.doc \in Texts /\ m.gen \in 0..3
      /\ sroot \in Roots /\ snote \in Notes /\ Counted(snote, sroot) /\ snote.gen \in 0..4
      /\ Latest(sroot) \in 0..3
  <2>1. m.root \in Roots /\ m.doc \in Texts /\ m.gen \in 0..4 BY <1>2 DEF Messages
  <2>2. m.gen <= 3 BY <1>2 DEF CountedMessage
  <2>3. sroot \in Roots /\ snote \in Notes /\ Counted(snote, sroot)
    BY DEF CountInv, TypeOK, GenInv
  <2>4. snote.gen \in 0..4 BY <2>3 DEF Notes
  <2> QED BY <2>1, <2>2, <2>3, <2>4, LatestIs
<1>4. /\ r \in Roots /\ sroot.sets \subseteq r.sets /\ sroot.dels \subseteq r.dels
      /\ Latest(sroot) <= Latest(r) /\ Latest(r) \in 0..3
      /\ Instance(r) # 0 /\ Instance(r) # Instance(sroot) => Latest(sroot) < Latest(r)
      /\ Instance(r) # 0 => Instance(r) \in 1..3
  BY <1>3, MergeTyped, RootGrows, LatestIs
<1>5. Counts(<<m>>) BY <1>2, CountsQueue
<1>6. CASE AcceptRootUpdate(c)
  <2>1. CASE Instance(sroot) = 0 /\ Instance(r) # 0
    <3>1. sroot' = Merge(r, Change({}, {Instance(r)})) /\ UNCHANGED <<snote, down>>
      BY <1>6, <2>1 DEF AcceptRootUpdate
    <3>2. Change({}, {Instance(r)}) \in Roots BY <1>4, <2>1, TextsTyped
    <3>3. sroot' \in Roots /\ r.sets \subseteq sroot'.sets BY <1>4, <3>1, <3>2, MergeTyped
    <3>4. Latest(r) <= Latest(sroot') /\ Latest(sroot') \in 0..3 BY <1>4, <3>3, LatestIs
    <3> HIDE DEF r
    <3>5. snote.gen <= Latest(sroot') BY <1>3, <1>4, <3>4 DEF Counted
    <3>6. RoomTyped BY <1>3, <3>1, <3>3, <3>5 DEF RoomTyped, Counted
    <3> QED BY <1>2, <1>6, <3>1, <3>6, SameTyped, StepTyped DEF AcceptRootUpdate
  <2>2. CASE ~(Instance(sroot) = 0 /\ Instance(r) # 0)
    <3>1. SetRoot(r) /\ Broadcast(c, <<m>>) BY <1>6, <2>2 DEF AcceptRootUpdate
    <3>2. RoomTyped BY <1>3, <1>4, <3>1, FollowTyped DEF SetRoot, RoomTyped
    <3>3. DownTyped BY <1>5, <3>1, NetworkTyped
    <3> QED BY <1>2, <1>6, <3>2, <3>3, SameTyped, StepTyped DEF AcceptRootUpdate
  <2> QED BY <2>1, <2>2
<1>7. CASE AcceptBundle(c)
  <2>1. CASE Instance(sroot) # 0
    BY <1>2, <1>7, <2>1, SameTyped, StepTyped DEF AcceptBundle
  <2>2. CASE Instance(sroot) = 0 /\ Instance(r) = 0
    <3>1. sroot' = r /\ UNCHANGED <<snote, down>> BY <1>7, <2>2 DEF AcceptBundle
    <3>2. snote.gen <= Latest(r) BY <1>3, <1>4 DEF Counted
    <3>3. RoomTyped BY <1>3, <1>4, <3>1, <3>2 DEF RoomTyped, Counted
    <3> QED BY <1>2, <1>7, <3>1, <3>3, SameTyped, StepTyped DEF AcceptBundle
  <2>3. CASE Instance(sroot) = 0 /\ Instance(r) # 0
    <3>1. /\ sroot' = r
          /\ snote' = [doc |-> m.doc, gen |-> snote.gen + 1, ready |-> TRUE]
          /\ Broadcast(c, <<RootUpdate(m.root), NoteUpdate(snote'.gen, m.doc)>>)
      BY <1>7, <2>3 DEF AcceptBundle
    <3>2. snote.gen + 1 <= Latest(r) /\ snote.gen + 1 \in 0..3
      <4>1. snote.gen <= Latest(sroot) /\ Latest(sroot) < Latest(r)
        BY <1>3, <1>4, <2>3 DEF Counted
      <4> HIDE DEF r
      <4> QED BY <1>3, <1>4, <4>1
    <3>3. RoomTyped BY <1>3, <1>4, <3>1, <3>2 DEF RoomTyped, Notes, Counted
    <3>4. DownTyped
      <4>1. snote'.gen \in 0..3 BY <3>1, <3>2
      <4>2. Counts(<<RootUpdate(m.root), NoteUpdate(snote'.gen, m.doc)>>)
        BY <1>3, <4>1, CountsQueue, MessagesTyped
      <4> QED BY <3>1, <4>2, NetworkTyped
    <3> QED BY <1>2, <1>7, <3>3, <3>4, SameTyped, StepTyped DEF AcceptBundle
  <2> QED BY <2>1, <2>2, <2>3
<1>8. CASE AcceptNoteUpdate(c)
  <2>1. \/ /\ lost' \in {lost, lost \union m.doc} /\ UNCHANGED <<room, down>>
        \/ /\ snote' = [snote EXCEPT !.doc = @ \union m.doc, !.ready = TRUE]
           /\ Broadcast(c, <<m>>) /\ UNCHANGED <<sroot, lost>>
    BY <1>8 DEF AcceptNoteUpdate
  <2>2. lost' \in Texts BY <1>3, <2>1, TextsTyped DEF CountInv, TypeOK
  <2>3. HistoryTyped BY <1>8, <2>2 DEF AcceptNoteUpdate, HistoryTyped, CountInv, TypeOK
  <2>4. CASE UNCHANGED <<room, down>>
    BY <1>2, <1>8, <2>3, <2>4, SameTyped, StepTyped DEF AcceptNoteUpdate
  <2>5. CASE /\ snote' = [snote EXCEPT !.doc = @ \union m.doc, !.ready = TRUE]
             /\ Broadcast(c, <<m>>) /\ sroot' = sroot
    <3>1. snote.doc \union m.doc \in Texts BY <1>3, TextsTyped DEF Notes
    <3>2. RoomTyped BY <1>3, <2>5, <3>1 DEF RoomTyped, Notes, Counted
    <3>3. DownTyped BY <1>5, <2>5, NetworkTyped
    <3> QED BY <1>2, <1>8, <2>3, <3>2, <3>3, SameTyped, StepTyped DEF AcceptNoteUpdate
  <2> QED BY <2>1, <2>4, <2>5
<1> QED BY <1>6, <1>7, <1>8 DEF Accept

\* Every step keeps CountInv.
LEMMA CountNext ==
  ASSUME CountInv, [Next]_vars
  PROVE  CountInv'
<1>1. CASE UNCHANGED vars BY <1>1, SameTyped, StepTyped DEF vars, network
<1>2. CASE Next
  BY <1>2, EditTyped, UserTyped, ConnectionTyped, ReopenTyped, BootstrapTyped, ReceiveTyped,
     AcceptTyped DEF Next, Receive
<1> QED BY <1>1, <1>2

\* TypeOK, and with it that no side ever counts more generations of the note than its root has
\* seen values for, however rooms are reopened and bootstraps make clients count anew.
THEOREM NoteTypeCorrect == Spec => []TypeOK
<1>1. Init => CountInv BY TypeInit
<1>2. CountInv /\ [Next]_vars => CountInv' BY CountNext
<1>3. CountInv => TypeOK BY DEF CountInv
<1> QED BY <1>1, <1>2, <1>3, PTL DEF Spec

----------------------------------------------------------------------------
(* What is under way.                                                      *)

\* What the receiver of q holds of the root once it has handled n messages.
Ahead(r, q, n) ==
  [sets |-> {k \in Instances : k \in r.sets \/ \E i \in 1..n : k \in q[i].root.sets},
   dels |-> {k \in Instances : k \in r.dels \/ \E i \in 1..n : k \in q[i].root.dels}]

\* What is ahead of a message is a message ahead.
LEMMA AheadTyped ==
  ASSUME NEW r \in Roots, NEW q, NEW n
  PROVE  /\ Ahead(r, q, n) \in Roots
         /\ r.sets \subseteq Ahead(r, q, n).sets /\ r.dels \subseteq Ahead(r, q, n).dels
BY DEF Ahead, Roots

\* Nothing is ahead in an empty queue.
LEMMA AheadNone ==
  ASSUME NEW r \in Roots, NEW q
  PROVE  Ahead(r, q, 0) = r
<1>1. Ahead(r, q, 0).sets = r.sets /\ Ahead(r, q, 0).dels = r.dels
  BY DEF Ahead, Roots
<1> QED BY <1>1, AheadTyped DEF Roots

\* Two are the same if they have the same values.
LEMMA SameRoot ==
  ASSUME NEW r \in Roots, NEW s \in Roots, r.sets = s.sets, r.dels = s.dels
  PROVE  r = s
BY DEF Roots

\* Handling the first message is one step ahead.
LEMMA AheadTail ==
  ASSUME NEW r \in Roots, NEW q \in Seq(Messages), q # << >>
  PROVE  \A i \in DOMAIN q :
           Ahead(Merge(r, Head(q).root), Tail(q), i - 1) = Ahead(r, q, i)
<1> SUFFICES ASSUME NEW i \in DOMAIN q
             PROVE  Ahead(Merge(r, Head(q).root), Tail(q), i - 1) = Ahead(r, q, i)
  OBVIOUS
<1> DEFINE h == Head(q)
           t == Tail(q)
<1>1. /\ i \in 1..Len(q) /\ i \in Nat /\ Len(q) \in Nat
      /\ h = q[1] /\ \A j \in 1..(Len(q) - 1) : t[j] = q[j + 1]
  OBVIOUS
<1>2. q[1] \in Messages /\ q[1].root \in Roots
  <2>1. q[1] \in Messages OBVIOUS
  <2> QED BY <2>1 DEF Messages
<1>3. Merge(r, h.root) \in Roots BY <1>1, <1>2, MergeTyped
<1>4. /\ Merge(r, h.root).sets = r.sets \union q[1].root.sets
      /\ Merge(r, h.root).dels = r.dels \union q[1].root.dels
  BY <1>1 DEF Merge
<1> HIDE DEF h, t
<1>5. \A k : (\E j \in 1..i : k \in q[j].root.sets) <=>
               k \in q[1].root.sets \/ \E j \in 1..(i - 1) : k \in t[j].root.sets
  <2> TAKE k
  <2>1. ASSUME NEW j \in 1..i, k \in q[j].root.sets, j # 1
        PROVE  \E g \in 1..(i - 1) : k \in t[g].root.sets
    <3>1. j - 1 \in 1..(i - 1) /\ t[j - 1] = q[j] BY <1>1, <2>1
    <3> QED BY <2>1, <3>1
  <2>2. ASSUME NEW j \in 1..(i - 1), k \in t[j].root.sets
        PROVE  \E g \in 1..i : k \in q[g].root.sets
    <3>1. j + 1 \in 1..i /\ t[j] = q[j + 1] BY <1>1, <2>2
    <3> QED BY <2>2, <3>1
  <2>3. 1 \in 1..i BY <1>1
  <2> QED BY <2>1, <2>2, <2>3
<1>6. \A k : (\E j \in 1..i : k \in q[j].root.dels) <=>
               k \in q[1].root.dels \/ \E j \in 1..(i - 1) : k \in t[j].root.dels
  <2> TAKE k
  <2>1. ASSUME NEW j \in 1..i, k \in q[j].root.dels, j # 1
        PROVE  \E g \in 1..(i - 1) : k \in t[g].root.dels
    <3>1. j - 1 \in 1..(i - 1) /\ t[j - 1] = q[j] BY <1>1, <2>1
    <3> QED BY <2>1, <3>1
  <2>2. ASSUME NEW j \in 1..(i - 1), k \in t[j].root.dels
        PROVE  \E g \in 1..i : k \in q[g].root.dels
    <3>1. j + 1 \in 1..i /\ t[j] = q[j + 1] BY <1>1, <2>2
    <3> QED BY <2>2, <3>1
  <2>3. 1 \in 1..i BY <1>1
  <2> QED BY <2>1, <2>2, <2>3
<1>7. /\ Ahead(Merge(r, h.root), t, i - 1).sets = Ahead(r, q, i).sets
      /\ Ahead(Merge(r, h.root), t, i - 1).dels = Ahead(r, q, i).dels
  BY <1>4, <1>5, <1>6 DEF Ahead
<1>8. Ahead(Merge(r, h.root), t, i - 1) = Ahead(r, q, i)
  BY <1>3, <1>7, AheadTyped, SameRoot
<1> QED BY <1>8 DEF h, t

\* Messages that are sent come after those under way.
LEMMA AheadAppend ==
  ASSUME NEW r \in Roots, NEW q \in Seq(Messages), NEW s \in Seq(Messages)
  PROVE  /\ \A n \in 0..Len(q) : Ahead(r, q \o s, n) = Ahead(r, q, n)
         /\ \A n \in 0..Len(s) :
              Ahead(r, q \o s, Len(q) + n) = Ahead(Ahead(r, q, Len(q)), s, n)
         /\ \A i \in DOMAIN q : i \in DOMAIN (q \o s) /\ (q \o s)[i] = q[i]
         /\ \A j \in DOMAIN s : Len(q) + j \in DOMAIN (q \o s) /\ (q \o s)[Len(q) + j] = s[j]
         /\ \A i \in DOMAIN (q \o s) : i \in DOMAIN q \/ \E j \in DOMAIN s : i = Len(q) + j
         /\ Len(q \o s) = Len(q) + Len(s)
<1> DEFINE all == q \o s
<1>1. /\ \A i \in DOMAIN q : i \in DOMAIN all /\ all[i] = q[i]
      /\ \A j \in DOMAIN s : Len(q) + j \in DOMAIN all /\ all[Len(q) + j] = s[j]
      /\ DOMAIN q = 1..Len(q) /\ DOMAIN s = 1..Len(s) /\ Len(q) \in Nat /\ Len(s) \in Nat
      /\ Len(all) = Len(q) + Len(s) /\ DOMAIN all = 1..(Len(q) + Len(s))
  OBVIOUS
<1> HIDE DEF all
<1>2. \A i \in DOMAIN all : i \in DOMAIN q \/ \E j \in DOMAIN s : i = Len(q) + j
  <2> SUFFICES ASSUME NEW i \in DOMAIN all, i \notin DOMAIN q
               PROVE  \E j \in DOMAIN s : i = Len(q) + j
    OBVIOUS
  <2>1. i - Len(q) \in DOMAIN s /\ i = Len(q) + (i - Len(q)) BY <1>1
  <2> QED BY <2>1
<1>3. ASSUME NEW n \in 0..Len(q) PROVE Ahead(r, all, n) = Ahead(r, q, n)
  <2>1. \A i \in 1..n : all[i] = q[i] BY <1>1
  <2> QED BY <2>1 DEF Ahead
<1>4. ASSUME NEW n \in 0..Len(s)
      PROVE  Ahead(r, all, Len(q) + n) = Ahead(Ahead(r, q, Len(q)), s, n)
  <2>1. \A i \in 1..(Len(q) + n) : \/ i \in 1..Len(q) /\ all[i] = q[i]
                                   \/ i - Len(q) \in 1..n /\ all[i] = s[i - Len(q)]
    BY <1>1
  <2>2. /\ \A i \in 1..Len(q) : i \in 1..(Len(q) + n) /\ all[i] = q[i]
        /\ \A j \in 1..n : Len(q) + j \in 1..(Len(q) + n) /\ all[Len(q) + j] = s[j]
    BY <1>1
  <2>3. \A k \in Instances :
          /\ (\E i \in 1..(Len(q) + n) : k \in all[i].root.sets) <=>
               (\E i \in 1..Len(q) : k \in q[i].root.sets) \/ \E j \in 1..n : k \in s[j].root.sets
          /\ (\E i \in 1..(Len(q) + n) : k \in all[i].root.dels) <=>
               (\E i \in 1..Len(q) : k \in q[i].root.dels) \/ \E j \in 1..n : k \in s[j].root.dels
    BY <2>1, <2>2
  <2> QED BY <2>3 DEF Ahead
<1> QED BY <1>1, <1>2, <1>3, <1>4 DEF all

\* One message is a step, two are two.
LEMMA AheadFew ==
  ASSUME NEW r \in Roots, NEW m \in Messages, NEW k \in Messages
  PROVE  /\ Ahead(r, <<m>>, 1) = Merge(r, m.root)
         /\ Ahead(r, <<m, k>>, 1) = Merge(r, m.root)
         /\ Ahead(r, <<m, k>>, 2) = Merge(Merge(r, m.root), k.root)
<1>1. m.root \in Roots /\ k.root \in Roots BY DEF Messages
<1>2. <<m>>[1] = m /\ <<m, k>>[1] = m /\ <<m, k>>[2] = k
  OBVIOUS
<1> DEFINE one == <<m>>
           two == <<m, k>>
<1> HIDE DEF one, two
<1>3. /\ one[1] = m /\ two[1] = m /\ two[2] = k
      /\ 1..1 = {1} /\ 1..2 = {1, 2}
  BY <1>2 DEF one, two
<1>4. /\ Merge(r, m.root) \in Roots /\ Merge(Merge(r, m.root), k.root) \in Roots
      /\ Merge(r, m.root).sets = r.sets \union m.root.sets
      /\ Merge(r, m.root).dels = r.dels \union m.root.dels
      /\ Merge(Merge(r, m.root), k.root).sets = r.sets \union m.root.sets \union k.root.sets
      /\ Merge(Merge(r, m.root), k.root).dels = r.dels \union m.root.dels \union k.root.dels
  BY <1>1, MergeTyped DEF Merge
<1>5. Ahead(r, one, 1) = Merge(r, m.root)
  <2>1. /\ Ahead(r, one, 1).sets = r.sets \union m.root.sets
        /\ Ahead(r, one, 1).dels = r.dels \union m.root.dels
    BY <1>1, <1>3 DEF Ahead, Roots
  <2> QED BY <1>4, <2>1, AheadTyped, SameRoot
<1>6. Ahead(r, two, 1) = Merge(r, m.root)
  <2>1. /\ Ahead(r, two, 1).sets = r.sets \union m.root.sets
        /\ Ahead(r, two, 1).dels = r.dels \union m.root.dels
    BY <1>1, <1>3 DEF Ahead, Roots
  <2> QED BY <1>4, <2>1, AheadTyped, SameRoot
<1>7. Ahead(r, two, 2) = Merge(Merge(r, m.root), k.root)
  <2>1. /\ Ahead(r, two, 2).sets = r.sets \union m.root.sets \union k.root.sets
        /\ Ahead(r, two, 2).dels = r.dels \union m.root.dels \union k.root.dels
    BY <1>1, <1>3 DEF Ahead, Roots
  <2> QED BY <1>4, <2>1, AheadTyped, SameRoot
<1> QED BY <1>5, <1>6, <1>7 DEF one, two

\* A receiver that holds more is as much further ahead.
LEMMA AheadMore ==
  ASSUME NEW r \in Roots, NEW change \in Roots, NEW q, NEW n
  PROVE  Ahead(Merge(r, change), q, n) = Merge(Ahead(r, q, n), change)
BY DEF Ahead, Merge, Roots

\* A root that has come about in order: the note is created, removed, and brought back by the
\* old document first and the empty copy under it last.
Legal(r) ==
  /\ r.sets \in {{}, {1}, {1, 3}, {1, 2, 3}}
  /\ r.dels \subseteq {1, 3}
  /\ \A k \in r.dels : 1..k \subseteq r.sets
  /\ 3 \in r.sets => 1 \in r.dels

Within(r, s) == r.sets \subseteq s.sets /\ r.dels \subseteq s.dels

\* A change that introduces nothing, and the three that do, as to a receiver that has r.
Repeats(change, r)   == /\ change.sets \subseteq r.sets
                        /\ \A k \in change.dels : k \in {1, 3} /\ 1..k \subseteq r.sets
Creates(change, r)   == change = Change({1}, {}) /\ r.sets = {}
Announces(change, r) == change = Change({3}, {}) /\ r.sets = {1} /\ 1 \in r.dels
Restores(change, r)  == change = Change({2}, {}) /\ r.sets = {1, 3}

\* A message makes sense to the receiver that has r by then: to the room, and to a client.
FitsRoom(m, r) ==
  \/ m.kind = "root" /\ m.doc = {} /\ (Repeats(m.root, r) \/ Announces(m.root, r))
  \/ m.kind = "bundle" /\ (Creates(m.root, r) \/ Restores(m.root, r))
  \/ m.kind = "note" /\ m.root = Nothing

FitsClient(m, r) ==
  \/ m.kind = "bootstrap" /\ Legal(m.root) /\ r.sets \subseteq m.root.sets
  \/ /\ m.kind = "root" /\ m.doc = {}
     /\ \/ Repeats(m.root, r) \/ Creates(m.root, r)
        \/ Announces(m.root, r) \/ Restores(m.root, r)
  \/ m.kind = "note" /\ m.root = Nothing

End(r, q) == Ahead(r, q, Len(q))

\* A client with root r has sent q to a room with root s, and has changes pending: it will
\* have told the room all it knows.
GoesUp(s, r, q, pending, state) ==
  /\ state # "on" => q = << >>
  /\ state = "on" => "root" \notin pending
  /\ Legal(r)
  /\ r.sets \subseteq End(s, q).sets
  /\ "root" \in pending \/ r.dels \subseteq End(s, q).dels
  /\ \A i \in DOMAIN q : Within(q[i].root, r) /\ FitsRoom(q[i], Ahead(s, q, i - 1))

\* And what the room has sent back: a client it has attached will know all that it does.
GoesDown(s, r, q, state) ==
  /\ state \notin {"connecting", "on"} => q = << >>
  /\ state = "connecting" => q # << >> /\ q[1].kind = "bootstrap"
  /\ \A i \in DOMAIN q : q[i].kind = "bootstrap" => i = 1 /\ state = "connecting"
  /\ state \in {"connecting", "on"} => Within(s, End(r, q))
  /\ \A i \in DOMAIN q : Within(q[i].root, s) /\ FitsClient(q[i], Ahead(r, q, i - 1))

\* The four kinds of changes lead from a root in order to another.
LEMMA LegalMerge ==
  ASSUME NEW r \in Roots, NEW change \in Roots, Legal(r),
         \/ Repeats(change, r) \/ Creates(change, r) \/ Announces(change, r) \/ Restores(change, r)
  PROVE  Legal(Merge(r, change))
<1>1. /\ Merge(r, change).sets = r.sets \union change.sets
      /\ Merge(r, change).dels = r.dels \union change.dels
  BY DEF Merge
<1>2. \A k \in r.dels : k \in {1, 3} /\ 1..k \subseteq Merge(r, change).sets
  BY <1>1 DEF Legal
<1>3. CASE Repeats(change, r)
  <2>1. Merge(r, change).sets = r.sets BY <1>1, <1>3 DEF Repeats
  <2>2. \A k \in change.dels : k \in {1, 3} /\ 1..k \subseteq Merge(r, change).sets
    BY <1>1, <1>3 DEF Repeats
  <2> QED BY <1>1, <1>2, <2>1, <2>2 DEF Legal
<1>4. CASE Creates(change, r)
  <2>1. Merge(r, change).sets = {1} /\ Merge(r, change).dels = r.dels
    BY <1>1, <1>4 DEF Creates, Change
  <2> QED BY <1>2, <2>1 DEF Legal
<1>5. CASE Announces(change, r)
  <2>1. Merge(r, change).sets = {1, 3} /\ Merge(r, change).dels = r.dels /\ 1 \in r.dels
    BY <1>1, <1>5 DEF Announces, Change
  <2> QED BY <1>2, <2>1 DEF Legal
<1>6. CASE Restores(change, r)
  <2>1. Merge(r, change).sets = {1, 2, 3} /\ Merge(r, change).dels = r.dels /\ 1 \in r.dels
    BY <1>1, <1>6 DEF Restores, Change, Legal
  <2> QED BY <1>2, <2>1 DEF Legal
<1> QED BY <1>3, <1>4, <1>5, <1>6

\* What fits a receiver fits it when it knows more, unless it is to introduce something and the
\* receiver has just introduced something itself.
LEMMA FitsMore ==
  ASSUME NEW r \in Roots, NEW change \in Roots, NEW m \in Messages,
         change.sets \subseteq r.sets \/ m.root.sets \subseteq r.sets
  PROVE  /\ FitsRoom(m, r) => FitsRoom(m, Merge(r, change))
         /\ FitsClient(m, r) /\ (change.sets \subseteq r.sets \/ m.kind # "bootstrap") =>
              FitsClient(m, Merge(r, change))
<1>1. /\ Merge(r, change).sets = r.sets \union change.sets
      /\ Merge(r, change).dels = r.dels \union change.dels
  BY DEF Merge
<1>2. Repeats(m.root, r) => Repeats(m.root, Merge(r, change)) BY <1>1 DEF Repeats
<1>3. CASE change.sets \subseteq r.sets
  <2>1. Merge(r, change).sets = r.sets BY <1>1, <1>3
  <2>2. /\ Creates(m.root, r) => Creates(m.root, Merge(r, change))
        /\ Announces(m.root, r) => Announces(m.root, Merge(r, change))
        /\ Restores(m.root, r) => Restores(m.root, Merge(r, change))
    BY <1>1, <2>1 DEF Creates, Announces, Restores
  <2> QED BY <1>2, <2>1, <2>2 DEF FitsRoom, FitsClient
<1>4. CASE m.root.sets \subseteq r.sets
  <2>1. ~Creates(m.root, r) /\ ~Announces(m.root, r) /\ ~Restores(m.root, r)
    BY <1>4 DEF Creates, Announces, Restores, Change
  <2> QED BY <1>2, <1>3, <2>1 DEF FitsRoom, FitsClient
<1> QED BY <1>3, <1>4

\* What a receiver holds lies between what it has and what all that is under way adds to it.
LEMMA AheadWithin ==
  ASSUME NEW r \in Roots, NEW q \in Seq(Messages)
  PROVE  /\ \A n \in 0..Len(q) : Ahead(r, q, n) \in Roots /\ Within(r, Ahead(r, q, n))
         /\ \A i \in DOMAIN q : Within(q[i].root, End(r, q)) /\ i - 1 \in 0..Len(q)
         /\ \A s \in Roots, n \in 0..Len(q) :
              (\A i \in DOMAIN q : Within(q[i].root, s)) =>
                /\ Ahead(r, q, n).sets \subseteq (r.sets \union s.sets)
                /\ Ahead(r, q, n).dels \subseteq (r.dels \union s.dels)
         /\ Len(q) \in 0..Len(q) /\ End(r, q) \in Roots
<1>1. DOMAIN q = 1..Len(q) /\ Len(q) \in Nat /\ \A i \in DOMAIN q : q[i] \in Messages
  OBVIOUS
<1>2. \A i \in DOMAIN q : q[i].root \in Roots BY <1>1 DEF Messages
<1>3. \A n \in 0..Len(q) : Ahead(r, q, n) \in Roots /\ Within(r, Ahead(r, q, n))
  BY AheadTyped DEF Within
<1>4. \A i \in DOMAIN q : Within(q[i].root, End(r, q)) /\ i - 1 \in 0..Len(q)
  BY <1>1, <1>2 DEF End, Ahead, Within, Roots
<1>5. ASSUME NEW s \in Roots, NEW n \in 0..Len(q), \A i \in DOMAIN q : Within(q[i].root, s)
      PROVE  /\ Ahead(r, q, n).sets \subseteq (r.sets \union s.sets)
             /\ Ahead(r, q, n).dels \subseteq (r.dels \union s.dels)
  <2>1. \A i \in 1..n : i \in DOMAIN q BY <1>1
  <2> QED BY <1>5, <2>1 DEF Ahead, Within
<1>6. Len(q) \in 0..Len(q) BY <1>1
<1> QED BY <1>3, <1>4, <1>5, <1>6 DEF End

----------------------------------------------------------------------------
(* The way up and the way down, one event at a time.                       *)

\* The head of a queue, and what its handling leaves.
LEMMA QueueHead ==
  ASSUME NEW r \in Roots, NEW q \in Seq(Messages), q # << >>
  PROVE  /\ 1 \in DOMAIN q /\ q[1] = Head(q) /\ Head(q) \in Messages /\ Head(q).root \in Roots
         /\ Tail(q) \in Seq(Messages)
         /\ Ahead(r, q, 0) = r
         /\ End(Merge(r, Head(q).root), Tail(q)) = End(r, q)
         /\ \A i \in DOMAIN Tail(q) :
              /\ i + 1 \in DOMAIN q /\ Tail(q)[i] = q[i + 1] /\ (i + 1) - 1 = i
              /\ Ahead(Merge(r, Head(q).root), Tail(q), i - 1) = Ahead(r, q, i)
<1>1. 1 \in DOMAIN q /\ q[1] = Head(q) /\ Head(q) \in Messages /\ Tail(q) \in Seq(Messages)
  <2>1. 1 \in DOMAIN q /\ q[1] = Head(q) /\ Tail(q) \in Seq(Messages) OBVIOUS
  <2>2. q[1] \in Messages BY <2>1
  <2> QED BY <2>1, <2>2
<1>2. Head(q).root \in Roots BY <1>1 DEF Messages
<1>3. Ahead(r, q, 0) = r BY AheadNone
<1>4. ASSUME NEW i \in DOMAIN Tail(q)
      PROVE  /\ i + 1 \in DOMAIN q /\ Tail(q)[i] = q[i + 1] /\ (i + 1) - 1 = i
             /\ Ahead(Merge(r, Head(q).root), Tail(q), i - 1) = Ahead(r, q, i)
  <2>1. i \in DOMAIN q /\ i + 1 \in DOMAIN q /\ Tail(q)[i] = q[i + 1] /\ (i + 1) - 1 = i
    OBVIOUS
  <2> QED BY <2>1, AheadTail
<1>5. End(Merge(r, Head(q).root), Tail(q)) = End(r, q)
  <2>1. Len(q) \in DOMAIN q /\ Len(Tail(q)) = Len(q) - 1
    <3>1. Len(q) \in Nat /\ Len(q) # 0 OBVIOUS
    <3> QED BY <3>1
  <2> QED BY <2>1, AheadTail DEF End
<1> QED BY <1>1, <1>2, <1>3, <1>4, <1>5

\* The room handles the next message of a client.
LEMMA UpHead ==
  ASSUME NEW s \in Roots, NEW r \in Roots, NEW q \in Seq(Messages), NEW pending, NEW state,
         GoesUp(s, r, q, pending, state), q # << >>
  PROVE  /\ FitsRoom(Head(q), s) /\ Within(Head(q).root, r)
         /\ GoesUp(Merge(s, Head(q).root), r, Tail(q), pending, state)
<1> DEFINE s2 == Merge(s, Head(q).root)
           t  == Tail(q)
<1>1. FitsRoom(Head(q), s) /\ Within(Head(q).root, r)
  <2>1. 1 \in DOMAIN q /\ q[1] = Head(q) /\ Ahead(s, q, 1 - 1) = s BY QueueHead
  <2> QED BY <2>1 DEF GoesUp
<1>2. End(s2, t) = End(s, q) BY QueueHead
<1>3. \A i \in DOMAIN t : Within(t[i].root, r) /\ FitsRoom(t[i], Ahead(s2, t, i - 1))
  <2> TAKE i \in DOMAIN t
  <2>1. /\ i + 1 \in DOMAIN q /\ t[i] = q[i + 1] /\ (i + 1) - 1 = i
        /\ Ahead(s2, t, i - 1) = Ahead(s, q, i)
    BY QueueHead
  <2>2. Within(q[i + 1].root, r) /\ FitsRoom(q[i + 1], Ahead(s, q, (i + 1) - 1))
    BY <2>1 DEF GoesUp
  <2> HIDE DEF s2, t
  <2> QED BY <2>1, <2>2
<1> HIDE DEF s2, t
<1>4. GoesUp(s2, r, t, pending, state) BY <1>2, <1>3 DEF GoesUp
<1> QED BY <1>1, <1>4 DEF s2, t

\* A client that has changed its root sends messages that tell the room so.
LEMMA UpSend ==
  ASSUME NEW s \in Roots, NEW r \in Roots, NEW q \in Seq(Messages), NEW pending, NEW state,
         GoesUp(s, r, q, pending, state),
         NEW r2 \in Roots, NEW t \in Seq(Messages), Legal(r2), Within(r, r2),
         Within(r2, End(End(s, q), t)), NEW pending2, "root" \notin pending2,
         \A j \in DOMAIN t : Within(t[j].root, r2) /\ FitsRoom(t[j], Ahead(End(s, q), t, j - 1))
  PROVE  GoesUp(s, r2, q \o t, pending2, "on")
<1> DEFINE all == q \o t
<1>1. all \in Seq(Messages) /\ DOMAIN t = 1..Len(t) /\ Len(q) \in Nat /\ Len(t) \in Nat OBVIOUS
<1>2. End(s, all) = End(End(s, q), t)
  <2>1. Len(all) = Len(q) + Len(t) /\ Len(t) \in 0..Len(t) BY <1>1
  <2> QED BY <2>1, AheadAppend DEF End
<1>3. ASSUME NEW i \in DOMAIN all
      PROVE  Within(all[i].root, r2) /\ FitsRoom(all[i], Ahead(s, all, i - 1))
  <2>1. CASE i \in DOMAIN q
    <3>1. all[i] = q[i] /\ i - 1 \in 0..Len(q) BY <2>1
    <3>2. Ahead(s, all, i - 1) = Ahead(s, q, i - 1) BY <3>1, AheadAppend
    <3>3. Within(q[i].root, r) /\ FitsRoom(q[i], Ahead(s, q, i - 1)) BY <2>1 DEF GoesUp
    <3> HIDE DEF all
    <3> QED BY <3>1, <3>2, <3>3 DEF Within
  <2>2. CASE i \notin DOMAIN q
    <3>1. PICK j \in DOMAIN t : i = Len(q) + j BY <2>2, AheadAppend
    <3>2. all[i] = t[j] /\ j - 1 \in 0..Len(t) /\ i - 1 = Len(q) + (j - 1) BY <1>1, <3>1
    <3>3. Ahead(s, all, i - 1) = Ahead(End(s, q), t, j - 1)
      BY <3>2, AheadAppend DEF End
    <3> HIDE DEF all
    <3> QED BY <3>2, <3>3
  <2> QED BY <2>1, <2>2
<1> HIDE DEF all
<1>4. GoesUp(s, r2, all, pending2, "on") BY <1>2, <1>3 DEF GoesUp, Within
<1> QED BY <1>4 DEF all

\* The room learns something from somebody else: nothing new, unless this client has nothing new.
LEMMA UpRoomLearns ==
  ASSUME NEW s \in Roots, NEW r \in Roots, NEW q \in Seq(Messages), NEW pending, NEW state,
         GoesUp(s, r, q, pending, state), NEW change \in Roots,
         change.sets \subseteq s.sets \/ r.sets \subseteq s.sets
  PROVE  GoesUp(Merge(s, change), r, q, pending, state)
<1> DEFINE s2 == Merge(s, change)
<1>1. \A n : Ahead(s2, q, n) = Merge(Ahead(s, q, n), change) BY AheadMore
<1>2. Within(End(s, q), End(s2, q))
  <2>1. End(s2, q) = Merge(End(s, q), change) BY <1>1 DEF End
  <2> HIDE DEF s2
  <2> QED BY <2>1 DEF Merge, Within
<1>3. ASSUME NEW i \in DOMAIN q PROVE FitsRoom(q[i], Ahead(s2, q, i - 1))
  <2>1. Within(q[i].root, r) /\ FitsRoom(q[i], Ahead(s, q, i - 1)) BY DEF GoesUp
  <2>2. Ahead(s, q, i - 1) \in Roots /\ Within(s, Ahead(s, q, i - 1)) BY AheadWithin
  <2>3. q[i] \in Messages OBVIOUS
  <2>4. change.sets \subseteq Ahead(s, q, i - 1).sets \/ q[i].root.sets \subseteq Ahead(s, q, i - 1).sets
    BY <2>1, <2>2 DEF Within
  <2>5. FitsRoom(q[i], Merge(Ahead(s, q, i - 1), change)) BY <2>1, <2>2, <2>3, <2>4, FitsMore
  <2> QED BY <1>1, <2>5
<1> HIDE DEF s2
<1>4. GoesUp(s2, r, q, pending, state) BY <1>2, <1>3 DEF GoesUp, Within
<1> QED BY <1>4 DEF s2

\* The client learns something of what the room knows, or changes something it will flush.
LEMMA UpClientLearns ==
  ASSUME NEW s \in Roots, NEW r \in Roots, NEW q \in Seq(Messages), NEW pending, NEW state,
         GoesUp(s, r, q, pending, state), NEW change \in Roots, Legal(Merge(r, change)),
         change.sets \subseteq r.sets \union s.sets,
         NEW pending2, pending2 = pending \/ (state # "on" /\ "root" \in pending2),
         "root" \in pending2 \/ change.dels \subseteq s.dels
  PROVE  GoesUp(s, Merge(r, change), q, pending2, state)
<1>1. /\ Merge(r, change).sets = r.sets \union change.sets
      /\ Merge(r, change).dels = r.dels \union change.dels
  BY DEF Merge
<1>2. Within(s, End(s, q)) BY AheadWithin DEF End
<1> QED BY <1>1, <1>2 DEF GoesUp, Within

\* Only changes of the root that are pending matter.
LEMMA UpPending ==
  ASSUME NEW s, NEW r, NEW q, NEW pending, NEW pending2, NEW state,
         GoesUp(s, r, q, pending, state), "root" \in pending <=> "root" \in pending2
  PROVE  GoesUp(s, r, q, pending2, state)
BY DEF GoesUp

\* A client without a connection, in step with the room as to what was set.
LEMMA UpNothing ==
  ASSUME NEW s \in Roots, NEW r \in Roots, NEW pending, NEW state
  PROVE  /\ GoesUp(s, r, << >>, pending, state) =>
              Legal(r) /\ r.sets \subseteq s.sets /\ ("root" \in pending \/ r.dels \subseteq s.dels)
         /\ Legal(r) /\ r.sets \subseteq s.sets /\ ("root" \in pending \/ r.dels \subseteq s.dels)
              /\ state # "on" => GoesUp(s, r, << >>, pending, state)
<1>1. End(s, << >>) = s BY AheadNone DEF End
<1>2. DOMAIN << >> = {} OBVIOUS
<1> QED BY <1>1, <1>2 DEF GoesUp

\* A client handles the next message; the first of a connection is the bootstrap.
LEMMA DownHead ==
  ASSUME NEW s \in Roots, NEW r \in Roots, NEW q \in Seq(Messages), NEW state,
         GoesDown(s, r, q, state), q # << >>
  PROVE  /\ FitsClient(Head(q), r) /\ Within(Head(q).root, s)
         /\ state \in {"connecting", "on"}
         /\ Head(q).kind = "bootstrap" <=> state = "connecting"
         /\ GoesDown(s, Merge(r, Head(q).root), Tail(q), "on")
<1> DEFINE r2 == Merge(r, Head(q).root)
           t  == Tail(q)
<1>1. 1 \in DOMAIN q /\ q[1] = Head(q) /\ Ahead(r, q, 1 - 1) = r BY QueueHead
<1>2. FitsClient(Head(q), r) /\ Within(Head(q).root, s) BY <1>1 DEF GoesDown
<1>3. /\ state \in {"connecting", "on"}
      /\ Head(q).kind = "bootstrap" <=> state = "connecting"
  BY <1>1 DEF GoesDown
<1>4. End(r2, t) = End(r, q) BY QueueHead
<1>5. ASSUME NEW i \in DOMAIN t
      PROVE  /\ Within(t[i].root, s) /\ FitsClient(t[i], Ahead(r2, t, i - 1))
             /\ t[i].kind # "bootstrap"
  <2>1. /\ i + 1 \in DOMAIN q /\ t[i] = q[i + 1] /\ (i + 1) - 1 = i /\ i \in Nat
        /\ Ahead(r2, t, i - 1) = Ahead(r, q, i)
    BY QueueHead
  <2>2. Within(q[i + 1].root, s) /\ FitsClient(q[i + 1], Ahead(r, q, (i + 1) - 1))
    BY <2>1 DEF GoesDown
  <2>3. i # 0 BY <2>1
  <2>4. i + 1 # 1 BY <2>1, <2>3
  <2>5. q[i + 1].kind # "bootstrap" BY <2>1, <2>4 DEF GoesDown
  <2> HIDE DEF r2, t
  <2> QED BY <2>1, <2>2, <2>5
<1> HIDE DEF r2, t
<1>6. GoesDown(s, r2, t, "on") BY <1>3, <1>4, <1>5 DEF GoesDown
<1> QED BY <1>2, <1>3, <1>6 DEF r2, t

\* The room sends what it has learnt to a client that is attached.
LEMMA DownSend ==
  ASSUME NEW s \in Roots, NEW r \in Roots, NEW q \in Seq(Messages), NEW state,
         GoesDown(s, r, q, state), state \in {"connecting", "on"},
         NEW s2 \in Roots, NEW t \in Seq(Messages), Within(s, s2),
         Within(s2, End(End(r, q), t)),
         \A j \in DOMAIN t : /\ Within(t[j].root, s2) /\ t[j].kind # "bootstrap"
                             /\ FitsClient(t[j], Ahead(End(r, q), t, j - 1))
  PROVE  GoesDown(s2, r, q \o t, state)
<1> DEFINE all == q \o t
<1>1. all \in Seq(Messages) /\ DOMAIN t = 1..Len(t) /\ Len(q) \in Nat /\ Len(t) \in Nat OBVIOUS
<1>2. End(r, all) = End(End(r, q), t)
  <2>1. Len(all) = Len(q) + Len(t) /\ Len(t) \in 0..Len(t) BY <1>1
  <2> QED BY <2>1, AheadAppend DEF End
<1>3. ASSUME NEW i \in DOMAIN all
      PROVE  /\ Within(all[i].root, s2) /\ FitsClient(all[i], Ahead(r, all, i - 1))
             /\ all[i].kind = "bootstrap" => i = 1 /\ state = "connecting"
  <2>1. CASE i \in DOMAIN q
    <3>1. all[i] = q[i] /\ i - 1 \in 0..Len(q) BY <2>1
    <3>2. Ahead(r, all, i - 1) = Ahead(r, q, i - 1) BY <3>1, AheadAppend
    <3>3. /\ Within(q[i].root, s) /\ FitsClient(q[i], Ahead(r, q, i - 1))
          /\ q[i].kind = "bootstrap" => i = 1 /\ state = "connecting"
      BY <2>1 DEF GoesDown
    <3> HIDE DEF all
    <3> QED BY <3>1, <3>2, <3>3 DEF Within
  <2>2. CASE i \notin DOMAIN q
    <3>1. PICK j \in DOMAIN t : i = Len(q) + j BY <2>2, AheadAppend
    <3>2. all[i] = t[j] /\ j - 1 \in 0..Len(t) /\ i - 1 = Len(q) + (j - 1) BY <1>1, <3>1
    <3>3. Ahead(r, all, i - 1) = Ahead(End(r, q), t, j - 1)
      BY <3>2, AheadAppend DEF End
    <3> HIDE DEF all
    <3> QED BY <3>2, <3>3
  <2> QED BY <2>1, <2>2
<1>4. state = "connecting" => all # << >> /\ all[1].kind = "bootstrap"
  <2>1. state = "connecting" => q # << >> /\ q[1].kind = "bootstrap" BY DEF GoesDown
  <2>2. q # << >> => all # << >> /\ all[1] = q[1] OBVIOUS
  <2> HIDE DEF all
  <2> QED BY <2>1, <2>2
<1> HIDE DEF all
<1>5. GoesDown(s2, r, all, state) BY <1>2, <1>3, <1>4 DEF GoesDown
<1> QED BY <1>5 DEF all

\* The room learns something that this client knows, or that nobody tells it.
LEMMA DownRoomLearns ==
  ASSUME NEW s \in Roots, NEW r \in Roots, NEW q \in Seq(Messages), NEW state,
         GoesDown(s, r, q, state), NEW s2 \in Roots, Within(s, s2),
         state \in {"connecting", "on"} => Within(s2, End(r, q))
  PROVE  GoesDown(s2, r, q, state)
BY DEF GoesDown, Within

\* The client changes its root: it introduces something only if the room has told it everything.
LEMMA DownClientLearns ==
  ASSUME NEW s \in Roots, NEW r \in Roots, NEW q \in Seq(Messages), NEW state,
         GoesDown(s, r, q, state), NEW change \in Roots,
         \/ change.sets \subseteq r.sets
         \/ s.sets \subseteq r.sets /\ state = "on"
  PROVE  GoesDown(s, Merge(r, change), q, state)
<1> DEFINE r2 == Merge(r, change)
<1>1. \A n : Ahead(r2, q, n) = Merge(Ahead(r, q, n), change) BY AheadMore
<1>2. Within(End(r, q), End(r2, q))
  <2>1. End(r2, q) = Merge(End(r, q), change) BY <1>1 DEF End
  <2> HIDE DEF r2
  <2> QED BY <2>1 DEF Merge, Within
<1>3. ASSUME NEW i \in DOMAIN q PROVE FitsClient(q[i], Ahead(r2, q, i - 1))
  <2>1. /\ Within(q[i].root, s) /\ FitsClient(q[i], Ahead(r, q, i - 1))
        /\ q[i].kind = "bootstrap" => state = "connecting"
    BY DEF GoesDown
  <2>2. Ahead(r, q, i - 1) \in Roots /\ Within(r, Ahead(r, q, i - 1)) BY AheadWithin
  <2>3. q[i] \in Messages OBVIOUS
  <2>4. \/ change.sets \subseteq Ahead(r, q, i - 1).sets
        \/ q[i].root.sets \subseteq Ahead(r, q, i - 1).sets /\ q[i].kind # "bootstrap"
    BY <2>1, <2>2 DEF Within
  <2>5. FitsClient(q[i], Merge(Ahead(r, q, i - 1), change)) BY <2>1, <2>2, <2>3, <2>4, FitsMore
  <2> QED BY <1>1, <2>5
<1> HIDE DEF r2
<1>4. GoesDown(s, r2, q, state) BY <1>2, <1>3 DEF GoesDown, Within
<1> QED BY <1>4 DEF r2

\* A client that has no connection, and one that gets its bootstrap.
LEMMA DownConnects ==
  ASSUME NEW s \in Roots, NEW r \in Roots
  PROVE  /\ \A state : state \notin {"connecting", "on"} => GoesDown(s, r, << >>, state)
         /\ \A m \in Messages :
              m.kind = "bootstrap" /\ m.root = s /\ Legal(s) /\ r.sets \subseteq s.sets =>
                GoesDown(s, r, <<m>>, "connecting")
<1>1. ASSUME NEW state, state \notin {"connecting", "on"} PROVE GoesDown(s, r, << >>, state)
  <2>1. DOMAIN << >> = {} OBVIOUS
  <2> QED BY <1>1, <2>1 DEF GoesDown
<1>2. ASSUME NEW m \in Messages, m.kind = "bootstrap", m.root = s, Legal(s), r.sets \subseteq s.sets
      PROVE  GoesDown(s, r, <<m>>, "connecting")
  <2> DEFINE q == <<m>>
  <2>1. DOMAIN q = {1} /\ q[1] = m /\ q # << >> /\ Len(q) = 1 /\ 1 - 1 = 0 OBVIOUS
  <2>2. End(r, q) = Merge(r, s) BY <1>2, <2>1, AheadFew DEF End
  <2>3. Within(s, End(r, q))
    <3>1. Within(s, Merge(r, s)) BY DEF Merge, Within
    <3> QED BY <2>2, <3>1
  <2>4. Ahead(r, q, 1 - 1) = r BY <2>1, AheadNone
  <2>5. FitsClient(q[1], Ahead(r, q, 1 - 1)) BY <1>2, <2>1, <2>4 DEF FitsClient
  <2>6. Within(q[1].root, s) BY <1>2, <2>1 DEF Within
  <2> HIDE DEF q
  <2>7. GoesDown(s, r, q, "connecting") BY <1>2, <2>1, <2>3, <2>5, <2>6 DEF GoesDown
  <2> QED BY <2>7 DEF q
<1> QED BY <1>1, <1>2

\* The room passes a change on, alone or with the note it brings.
LEMMA Passes ==
  ASSUME NEW e \in Roots, NEW x \in Messages, NEW y \in Messages, NEW t,
         x.kind = "root", x.doc = {}, y.kind = "note", y.root = Nothing,
         t = <<x>> \/ t = <<x, y>>, FitsClient(x, e)
  PROVE  /\ t \in Seq(Messages)
         /\ End(e, t) = Merge(e, x.root)
         /\ \A j \in DOMAIN t : /\ t[j].kind # "bootstrap"
                                /\ t[j].root = x.root \/ t[j].root = Nothing
                                /\ FitsClient(t[j], Ahead(e, t, j - 1))
<1>1. CASE t = <<x>>
  <2>1. t \in Seq(Messages) /\ DOMAIN t = {1} /\ t[1] = x /\ Len(t) = 1 /\ 1 - 1 = 0 BY <1>1
  <2>2. End(e, t) = Merge(e, x.root) BY <1>1, <2>1, AheadFew DEF End
  <2>3. Ahead(e, t, 1 - 1) = e BY <2>1, AheadNone
  <2> QED BY <2>1, <2>2, <2>3
<1>2. CASE t = <<x, y>>
  <2>1. /\ t \in Seq(Messages) /\ DOMAIN t = {1, 2} /\ t[1] = x /\ t[2] = y /\ Len(t) = 2
        /\ 1 - 1 = 0 /\ 2 - 1 = 1
    BY <1>2
  <2>2. End(e, t) = Merge(Merge(e, x.root), Nothing)
    BY <1>2, <2>1, AheadFew DEF End
  <2>3. Merge(Merge(e, x.root), Nothing) = Merge(e, x.root)
    BY DEF Merge, Nothing, Change
  <2>4. Ahead(e, t, 1 - 1) = e BY <2>1, AheadNone
  <2>5. FitsClient(y, Ahead(e, t, 2 - 1)) BY DEF FitsClient
  <2>6. x.kind # "bootstrap" /\ y.kind # "bootstrap" OBVIOUS
  <2> QED BY <2>1, <2>2, <2>3, <2>4, <2>5, <2>6
<1> QED BY <1>1, <1>2

\* Client by client, the roots and what is under way; at most one client has introduced
\* something the room does not know, and nobody has seen half of an undo but who did it.
Known ==
  /\ \A c, d \in Clients :
       c = d \/ root[c].sets \subseteq sroot.sets \/ root[d].sets \subseteq sroot.sets
  /\ \A c \in Clients : 3 \in root[c].sets => \E d \in Clients : 2 \in root[d].sets
  /\ 3 \in sroot.sets => \E d \in Clients : 2 \in root[d].sets

RootInv ==
  /\ Legal(sroot)
  /\ \A c \in Clients : GoesUp(sroot, root[c], up[c], resync[c], conn[c])
  /\ \A c \in Clients : GoesDown(sroot, root[c], down[c], conn[c])
  /\ Known

\* What is known spreads.
LEMMA KnownSpreads ==
  ASSUME Known, sroot.sets \subseteq sroot'.sets,
         \A d \in Clients : /\ root[d].sets \subseteq root'[d].sets
                            /\ root'[d].sets \subseteq root[d].sets \union sroot'.sets,
         \A k \in sroot'.sets : k \in sroot.sets \/ \E d \in Clients : k \in root[d].sets
  PROVE  Known'
<1>1. ASSUME NEW c \in Clients, NEW d \in Clients, c # d
      PROVE  root'[c].sets \subseteq sroot'.sets \/ root'[d].sets \subseteq sroot'.sets
  BY <1>1 DEF Known
<1>2. (3 \in sroot.sets \/ \E d \in Clients : 3 \in root[d].sets) => \E d \in Clients : 2 \in root'[d].sets
  BY DEF Known
<1>3. 3 \in sroot'.sets => \E d \in Clients : 2 \in root'[d].sets BY <1>2
<1>4. \A c \in Clients : 3 \in root'[c].sets => \E d \in Clients : 2 \in root'[d].sets
  BY <1>2, <1>3
<1> QED BY <1>1, <1>3, <1>4 DEF Known

\* What the types say of a client and the room.
LEMMA RootTypes ==
  ASSUME CountInv
  PROVE  /\ sroot \in Roots /\ snote \in Notes
         /\ \A c \in Clients :
              /\ root[c] \in Roots /\ note[c] \in Notes /\ kept[c] \in Texts
              /\ up[c] \in Seq(Messages) /\ down[c] \in Seq(Messages)
              /\ kept[c] # {} => 1 \in root[c].sets
         /\ root \in [Clients -> Roots] /\ note \in [Clients -> Notes]
         /\ up \in [Clients -> Seq(Messages)] /\ down \in [Clients -> Seq(Messages)]
         /\ DOMAIN root = Clients /\ DOMAIN note = Clients /\ DOMAIN up = Clients
         /\ DOMAIN down = Clients /\ DOMAIN resync = Clients /\ DOMAIN conn = Clients
BY DEF CountInv, TypeOK, GenInv

\* The instance a root in order holds: none, the first, or the third.
LEMMA LegalInstance ==
  ASSUME NEW r \in Roots, Legal(r)
  PROVE  /\ Instance(r) = IF r.sets = {} THEN 0
                          ELSE IF 2 \in r.sets THEN (IF 3 \in r.dels THEN 0 ELSE 3)
                          ELSE IF 1 \in r.dels THEN 0 ELSE 1
         /\ Latest(r) = IF r.sets = {} THEN 0 ELSE IF 2 \in r.sets THEN 3 ELSE 1
         /\ 1 \notin r.sets => r.sets = {} /\ r.dels = {}
         /\ 2 \in r.sets => r.sets = {1, 2, 3}
         /\ 3 \notin r.sets => r.sets \subseteq {1}
         /\ 2 \notin r.sets => 3 \notin r.dels
         /\ 3 \in r.sets => 1 \in r.sets
<1>1. Latest(r) = IF 1 \notin r.sets THEN 0
                  ELSE IF 2 \notin r.sets THEN 1
                  ELSE IF 3 \notin r.sets THEN 2 ELSE 3
  BY LatestIs
<1>2. r.sets \in {{}, {1}, {1, 3}, {1, 2, 3}} BY DEF Legal
<1>3. Latest(r) = IF r.sets = {} THEN 0 ELSE IF 2 \in r.sets THEN 3 ELSE 1
  BY <1>1, <1>2
<1>4. \A k \in r.dels : k \in {1, 3} /\ k \in r.sets BY DEF Legal
<1>5. 3 \in r.dels => 2 \in r.sets
  <2>1. 2 \in 1..3 OBVIOUS
  <2> QED BY <2>1 DEF Legal
<1>6. 0 \notin r.dels BY <1>4
<1>7. /\ 1 \notin r.sets => r.sets = {}
      /\ 2 \in r.sets => r.sets = {1, 2, 3}
      /\ 3 \notin r.sets => r.sets \subseteq {1}
      /\ 3 \in r.sets => 1 \in r.sets
  BY <1>2
<1>8. r.sets = {} => r.dels = {} /\ 2 \notin r.sets BY <1>4
<1> QED BY <1>3, <1>5, <1>6, <1>7, <1>8 DEF Instance

----------------------------------------------------------------------------
(* Every step keeps the roots in order.                                    *)

\* A client with a bootstrap changes its root and tells the room.
LEMMA UpSendOne ==
  ASSUME NEW s \in Roots, NEW r \in Roots, NEW q \in Seq(Messages), NEW pending,
         GoesUp(s, r, q, pending, "on"), NEW m \in Messages,
         FitsRoom(m, End(s, q)), Legal(Merge(r, m.root))
  PROVE  /\ \A pending2 : "root" \notin pending2 =>
              GoesUp(s, Merge(r, m.root), q \o <<m>>, pending2, "on")
         /\ q \o <<m>> \in Seq(Messages)
         /\ End(s, q \o <<m>>) = Merge(End(s, q), m.root)
<1> DEFINE t  == <<m>>
           e  == End(s, q)
           r2 == Merge(r, m.root)
<1>1. t \in Seq(Messages) /\ DOMAIN t = {1} /\ t[1] = m /\ Len(t) = 1 /\ 1 - 1 = 0 OBVIOUS
<1>2. e \in Roots /\ m.root \in Roots BY AheadWithin DEF Messages
<1>3. End(e, t) = Merge(e, m.root) /\ Ahead(e, t, 1 - 1) = e
  <2>1. Ahead(e, t, 1) = Merge(e, m.root) BY <1>2, AheadFew
  <2>2. Ahead(e, t, 0) = e BY <1>2, AheadNone
  <2> HIDE DEF e, t
  <2> QED BY <1>1, <2>1, <2>2 DEF End
<1>4. Within(r, e) /\ Legal(r) BY DEF GoesUp, Within
<1>5. r2 \in Roots BY <1>2, MergeTyped
<1> HIDE DEF e
<1>6. Within(r, r2) /\ Within(m.root, r2) /\ Within(r2, Merge(e, m.root))
  BY <1>4 DEF Within, Merge
<1>7. FitsRoom(t[1], Ahead(e, t, 1 - 1)) BY <1>1, <1>3 DEF e
<1> HIDE DEF t, r2
<1>8. ASSUME NEW pending2, "root" \notin pending2 PROVE GoesUp(s, r2, q \o t, pending2, "on")
  BY <1>1, <1>3, <1>5, <1>6, <1>7, <1>8, UpSend DEF e, r2
<1>9. q \o t \in Seq(Messages) BY <1>1
<1>10. End(s, q \o t) = End(e, t)
  <2>1. Len(q \o t) = Len(q) + Len(t) /\ Len(t) \in 0..Len(t) BY <1>1, AheadAppend
  <2> QED BY <1>1, <2>1, AheadAppend DEF End, e
<1> QED BY <1>3, <1>8, <1>9, <1>10 DEF e, t, r2

\* An update of the note changes nothing of the root.
LEMMA UpSendNote ==
  ASSUME NEW s \in Roots, NEW r \in Roots, NEW q \in Seq(Messages), NEW pending,
         GoesUp(s, r, q, pending, "on"), NEW m \in Messages, m.kind = "note", m.root = Nothing
  PROVE  GoesUp(s, r, q \o <<m>>, pending, "on")
<1>1. Merge(r, m.root) = r
  <2>1. Merge(r, m.root).sets = r.sets /\ Merge(r, m.root).dels = r.dels
    BY DEF Merge, Nothing, Change
  <2>2. Merge(r, m.root) \in Roots BY MergeTyped, TextsTyped
  <2> QED BY <2>1, <2>2, SameRoot
<1>2. Legal(r) /\ "root" \notin pending BY DEF GoesUp
<1>3. FitsRoom(m, End(s, q)) BY DEF FitsRoom
<1> QED BY <1>1, <1>2, <1>3, UpSendOne

\* Nothing but the texts, or who has a generation of its own.
LEMMA KnownSame == ASSUME Known, UNCHANGED <<root, sroot>> PROVE Known'
BY DEF Known

\* The order of the queues, after an edit.
LEMMA EditOrdered ==
  ASSUME CountInv, RootInv, NEW c \in Clients, EditNote(c)
  PROVE  RootInv'
<1>1. UNCHANGED <<root, sroot, conn, down>> /\ Known' BY KnownSame DEF EditNote, RootInv, room
<1>2. ASSUME NEW d \in Clients PROVE GoesUp(sroot, root[d], up'[d], resync'[d], conn[d])
  <2>1. GoesUp(sroot, root[d], up[d], resync[d], conn[d]) BY DEF RootInv
  <2>2. CASE conn[c] = "on" /\ note[c].ready
    <3>1. Emit(c, <<NoteUpdate(note[c].gen, {edits'})>>) /\ resync' = resync
      BY <2>2 DEF EditNote
    <3>2. {edits'} \in Texts /\ note[c].gen \in 0..3
      <4>1. note[c] \in Notes /\ root[c] \in Roots /\ note[c].gen <= Latest(root[c])
        BY DEF CountInv, TypeOK, GenInv, Counted
      <4>2. edits \in 0..MaxEdits /\ edits < MaxEdits /\ edits' = edits + 1
        BY DEF EditNote, CountInv, TypeOK
      <4>3. edits' \in 0..MaxEdits BY <4>2, BoundsAssumption
      <4> QED BY <4>1, <4>3, LatestIs DEF Notes, Texts
    <3> DEFINE m == NoteUpdate(note[c].gen, {edits'})
    <3>3. m \in Messages /\ m.kind = "note" /\ m.root = Nothing
      BY <3>2, MessagesTyped DEF NoteUpdate
    <3> HIDE DEF m
    <3>4. CASE d = c
      <4>1. up'[d] = up[d] \o <<m>> BY <3>1, <3>4, RootTypes DEF Emit, m
      <4> QED BY <2>1, <2>2, <3>1, <3>3, <3>4, <4>1, UpSendNote, RootTypes
    <3>5. CASE d # c
      <4>1. up'[d] = up[d] BY <3>1, <3>5, RootTypes DEF Emit
      <4> QED BY <2>1, <3>1, <4>1
    <3> QED BY <3>4, <3>5
  <2>3. CASE ~(conn[c] = "on" /\ note[c].ready)
    <3>1. resync' = [resync EXCEPT ![c] = @ \union {"note"}] /\ up' = up
      BY <2>3 DEF EditNote
    <3>2. "root" \in resync'[d] <=> "root" \in resync[d] BY <3>1, RootTypes
    <3> QED BY <2>1, <3>1, <3>2, UpPending
  <2> QED BY <2>2, <2>3
<1> QED BY <1>1, <1>2 DEF RootInv

\* A client without a bootstrap removes the note, one with it says so.
LEMMA RemoveOrdered ==
  ASSUME CountInv, RootInv, NEW c \in Clients, RemoveNote(c)
  PROVE  RootInv'
<1> DEFINE k      == Instance(root[c])
           change == Change({}, {k})
           r      == Merge(root[c], change)
           m      == RootUpdate(change)
<1>1. /\ root' = [root EXCEPT ![c] = r]
      /\ IF conn[c] = "on" THEN Emit(c, <<m>>) /\ resync' = [resync EXCEPT ![c] = {}]
                           ELSE resync' = [resync EXCEPT ![c] = {"root"}] /\ up' = up
      /\ UNCHANGED <<sroot, conn, down>> /\ k # 0
  BY DEF RemoveNote, ChangeRoot, room
<1>2. /\ sroot \in Roots /\ root[c] \in Roots /\ Legal(root[c])
      /\ \A d \in Clients : /\ root[d] \in Roots /\ up[d] \in Seq(Messages)
                            /\ down[d] \in Seq(Messages)
      /\ \A d \in Clients : d # c => root'[d] = root[d] /\ resync'[d] = resync[d]
      /\ root'[c] = r
  BY <1>1, RootTypes DEF RootInv, GoesUp
<1>3. k \in {1, 3} /\ 1..k \subseteq root[c].sets /\ k \in 1..3
  <2>1. /\ k = IF root[c].sets = {} THEN 0
               ELSE IF 2 \in root[c].sets THEN (IF 3 \in root[c].dels THEN 0 ELSE 3)
               ELSE IF 1 \in root[c].dels THEN 0 ELSE 1
        /\ 1 \notin root[c].sets => root[c].sets = {}
        /\ 2 \in root[c].sets => root[c].sets = {1, 2, 3}
    BY <1>2, LegalInstance
  <2> HIDE DEF k
  <2>2. CASE k = 3 BY <2>1, <2>2
  <2>3. CASE k = 1
    <3>1. 1..1 = {1} OBVIOUS
    <3> QED BY <2>1, <2>3, <3>1
  <2> QED BY <1>1, <2>1, <2>2, <2>3
<1>4. /\ change \in Roots /\ m \in Messages /\ Repeats(change, root[c])
      /\ change.sets = {} /\ change.dels = {k}
      /\ m.kind = "root" /\ m.doc = {} /\ m.root = change
  BY <1>3, TextsTyped, MessagesTyped DEF Repeats, Change, RootUpdate
<1>5. r \in Roots /\ Legal(r) /\ Within(root[c], r) /\ r.sets = root[c].sets
      /\ r.dels = root[c].dels \union {k}
  <2>1. Legal(r) BY <1>2, <1>4, LegalMerge
  <2>2. r \in Roots BY <1>2, <1>4, MergeTyped
  <2> QED BY <1>4, <2>1, <2>2 DEF Merge, Within
<1> HIDE DEF k, change, r, m
<1>6. ASSUME NEW d \in Clients PROVE GoesUp(sroot, root'[d], up'[d], resync'[d], conn[d])
  <2>1. GoesUp(sroot, root[d], up[d], resync[d], conn[d]) BY DEF RootInv
  <2>2. CASE d # c
    <3>1. up'[d] = up[d] BY <1>1, <2>2, RootTypes DEF Emit
    <3> QED BY <1>2, <2>1, <2>2, <3>1
  <2>3. CASE d = c /\ conn[c] = "on"
    <3>1. up'[c] = up[c] \o <<m>> /\ resync'[c] = {} BY <1>1, <2>3, RootTypes DEF Emit
    <3>2. Within(root[c], End(sroot, up[c])) BY <2>1, <2>3 DEF GoesUp, Within
    <3>3. FitsRoom(m, End(sroot, up[c])) BY <1>4, <3>2 DEF Repeats, Within, FitsRoom
    <3>4. GoesUp(sroot, r, up[c] \o <<m>>, {}, "on")
      <4>1. Legal(Merge(root[c], m.root)) /\ r = Merge(root[c], m.root)
        BY <1>4, <1>5 DEF r
      <4>2. GoesUp(sroot, root[c], up[c], resync[c], "on") /\ "root" \notin {}
        BY <2>1, <2>3
      <4>3. sroot \in Roots /\ root[c] \in Roots /\ up[c] \in Seq(Messages) /\ m \in Messages
        BY <1>2, <1>4
      <4>4. GoesUp(sroot, Merge(root[c], m.root), up[c] \o <<m>>, {}, "on")
        BY <3>3, <4>1, <4>2, <4>3, UpSendOne
      <4> QED BY <4>1, <4>4
    <3> QED BY <1>2, <2>3, <3>1, <3>4
  <2>4. CASE d = c /\ conn[c] # "on"
    <3>1. up'[c] = up[c] /\ resync'[c] = {"root"} BY <1>1, <2>4, RootTypes
    <3>2. GoesUp(sroot, r, up[c], {"root"}, conn[c])
      BY <1>2, <1>4, <1>5, <2>1, <2>4, UpClientLearns DEF r
    <3> QED BY <1>2, <2>4, <3>1, <3>2
  <2> QED BY <2>2, <2>3, <2>4
<1>7. ASSUME NEW d \in Clients PROVE GoesDown(sroot, root'[d], down[d], conn[d])
  <2>1. GoesDown(sroot, root[d], down[d], conn[d]) BY DEF RootInv
  <2>2. GoesDown(sroot, root[c], down[c], conn[c]) => GoesDown(sroot, r, down[c], conn[c])
    BY <1>2, <1>4, DownClientLearns DEF r
  <2> QED BY <1>2, <2>1, <2>2
<1>8. Known'
  <2>1. \A d \in Clients : root'[d].sets = root[d].sets BY <1>2, <1>5
  <2> QED BY <1>1, <2>1, KnownSpreads DEF RootInv
<1> QED BY <1>1, <1>6, <1>7, <1>8 DEF RootInv

\* What a client does that is to introduce a value: it has a bootstrap, and what it introduces
\* fits what the room will know by then.
LEMMA Introduces ==
  ASSUME CountInv, RootInv, NEW c \in Clients, conn[c] = "on",
         NEW change \in Roots, NEW messages \in Seq(Messages),
         root' = [root EXCEPT ![c] = Merge(@, change)], UNCHANGED <<sroot, conn, down>>,
         Emit(c, messages), resync' = [resync EXCEPT ![c] = {}],
         GoesUp(sroot, Merge(root[c], change), up[c] \o messages, {}, "on"),
         sroot.sets \subseteq root[c].sets,
         \A d \in Clients : d # c => root[d].sets \subseteq sroot.sets,
         3 \in change.sets => 2 \in change.sets
  PROVE  RootInv'
<1> DEFINE r == Merge(root[c], change)
<1>1. /\ \A d \in Clients : d # c => root'[d] = root[d] /\ up'[d] = up[d] /\ resync'[d] = resync[d]
      /\ root'[c] = r /\ up'[c] = up[c] \o messages /\ resync'[c] = {}
  BY RootTypes DEF Emit
<1>2. GoesDown(sroot, root[c], down[c], conn[c]) => GoesDown(sroot, r, down[c], conn[c])
  BY RootTypes, DownClientLearns
<1>3. Within(root[c], r) /\ r.sets = root[c].sets \union change.sets BY DEF Within, Merge
<1> HIDE DEF r
<1>4. Known'
  <2>1. \A d \in Clients : root'[d].sets \subseteq sroot.sets \/ d = c BY <1>1
  <2>2. \A d \in Clients : root[d].sets \subseteq root'[d].sets BY <1>1, <1>3 DEF Within
  <2>3. ASSUME NEW d \in Clients, 3 \in root'[d].sets PROVE \E e \in Clients : 2 \in root'[e].sets
    <3>1. CASE 3 \in root[d].sets BY <2>2, <3>1 DEF RootInv, Known
    <3>2. CASE d = c /\ 3 \in change.sets BY <1>1, <1>3, <3>2
    <3> QED BY <1>1, <1>3, <2>3, <3>1, <3>2
  <2>4. 3 \in sroot.sets => \E e \in Clients : 2 \in root'[e].sets
    BY <2>2 DEF RootInv, Known
  <2> QED BY <2>1, <2>3, <2>4 DEF Known
<1>5. \A d \in Clients : GoesUp(sroot, root'[d], up'[d], resync'[d], conn[d])
  BY <1>1 DEF RootInv, r
<1>6. \A d \in Clients : GoesDown(sroot, root'[d], down[d], conn[d])
  BY <1>1, <1>2 DEF RootInv
<1> QED BY <1>4, <1>5, <1>6 DEF RootInv

\* After a note was made.
LEMMA CreateOrdered ==
  ASSUME CountInv, RootInv, NEW c \in Clients, CreateNote(c), mishaps' = {}
  PROVE  RootInv'
<1> DEFINE change == Change({1}, {})
           m      == Bundle(change, {Body})
<1>1. /\ conn[c] = "on" /\ ChangeRoot(c, change,
                [doc |-> {Body}, gen |-> note[c].gen + 1, ready |-> TRUE], <<m>>)
      /\ 1 \notin sroot.sets /\ \A d \in Clients : 1 \notin root[d].sets
  BY DEF CreateNote
<1>2. /\ sroot \in Roots /\ Legal(sroot) /\ sroot.sets = {} /\ up[c] \in Seq(Messages)
      /\ \A d \in Clients : root[d] \in Roots /\ Legal(root[d]) /\ root[d].sets = {}
      /\ root[c].dels = {}
  <2>1. /\ sroot \in Roots /\ Legal(sroot) /\ up[c] \in Seq(Messages)
        /\ \A d \in Clients : root[d] \in Roots /\ Legal(root[d])
    BY RootTypes DEF RootInv, GoesUp
  <2> QED BY <1>1, <2>1, LegalInstance
<1>3. change \in Roots /\ m \in Messages /\ m.root = change /\ m.kind = "bundle"
      /\ change.sets = {1} /\ <<m>> \in Seq(Messages)
  <2>1. change \in Roots /\ m \in Messages BY TextsTyped, MessagesTyped
  <2>2. m.root = change /\ m.kind = "bundle" /\ change.sets = {1} BY DEF Bundle, Change
  <2> HIDE DEF change, m
  <2> QED BY <2>1, <2>2
<1>4. GoesUp(sroot, root[c], up[c], resync[c], "on") BY <1>1 DEF RootInv
<1>5. End(sroot, up[c]).sets = {}
  <2>1. \A i \in DOMAIN up[c] : Within(up[c][i].root, root[c]) BY <1>4 DEF GoesUp
  <2>2. Len(up[c]) \in 0..Len(up[c]) BY <1>2, AheadWithin
  <2>3. End(sroot, up[c]).sets \subseteq (sroot.sets \union root[c].sets)
    BY <1>2, <2>1, <2>2, AheadWithin DEF End
  <2> QED BY <1>2, <2>3
<1>6. FitsRoom(m, End(sroot, up[c])) BY <1>3, <1>5 DEF FitsRoom, Creates
<1>7. Legal(Merge(root[c], change)) BY <1>2, <1>3, LegalMerge DEF Creates
<1>8. GoesUp(sroot, Merge(root[c], change), up[c] \o <<m>>, {}, "on")
  <2> HIDE DEF change, m
  <2>1. "root" \notin {} /\ root[c] \in Roots BY <1>2
  <2> QED BY <1>2, <1>3, <1>4, <1>6, <1>7, <2>1, UpSendOne
<1>9. /\ root' = [root EXCEPT ![c] = Merge(@, change)] /\ UNCHANGED <<sroot, conn, down>>
      /\ Emit(c, <<m>>) /\ resync' = [resync EXCEPT ![c] = {}]
  BY <1>1 DEF ChangeRoot, room
<1>10. 3 \notin change.sets BY <1>3
<1> HIDE DEF change, m
<1> QED BY <1>1, <1>2, <1>3, <1>8, <1>9, <1>10, Introduces

\* After the note was brought back.
LEMMA UndoOrdered ==
  ASSUME CountInv, RootInv, NEW c \in Clients, UndoRemoval(c), mishaps' = {}
  PROVE  RootInv'
<1> DEFINE change == Change({2, 3}, {})
           m      == RootUpdate(Change({3}, {}))
           b      == Bundle(Change({2}, {}), kept[c])
<1>1. /\ conn[c] = "on" /\ ChangeRoot(c, change,
                [doc |-> kept[c], gen |-> note[c].gen + 2, ready |-> TRUE], <<m, b>>)
      /\ kept[c] # {} /\ Instance(root[c]) = 0
      /\ 2 \notin sroot.sets /\ \A d \in Clients : 2 \notin root[d].sets
  BY DEF UndoRemoval
<1>2. /\ sroot \in Roots /\ Legal(sroot) /\ sroot.sets \subseteq {1} /\ up[c] \in Seq(Messages)
      /\ \A d \in Clients : root[d] \in Roots /\ Legal(root[d]) /\ root[d].sets \subseteq {1}
      /\ root[c].sets = {1} /\ 1 \in root[c].dels
  <2>1. /\ sroot \in Roots /\ Legal(sroot) /\ up[c] \in Seq(Messages) /\ 1 \in root[c].sets
        /\ \A d \in Clients : root[d] \in Roots /\ Legal(root[d])
    BY <1>1, RootTypes DEF RootInv, GoesUp
  <2>2. 3 \notin sroot.sets /\ \A d \in Clients : 3 \notin root[d].sets
    BY <1>1 DEF RootInv, Known
  <2>3. sroot.sets \subseteq {1} /\ \A d \in Clients : root[d].sets \subseteq {1}
    BY <2>1, <2>2, LegalInstance
  <2>4. root[c].sets = {1} BY <2>1, <2>3
  <2>5. 1 \in root[c].dels BY <1>1, <2>1, <2>4, LegalInstance
  <2> QED BY <2>1, <2>3, <2>4, <2>5
<1>3. /\ change \in Roots /\ change.sets = {2, 3} /\ change.dels = {}
      /\ m \in Messages /\ m.root = Change({3}, {}) /\ m.kind = "root" /\ m.doc = {}
      /\ b \in Messages /\ b.root = Change({2}, {}) /\ b.kind = "bundle"
      /\ m.root \in Roots /\ b.root \in Roots
  <2>1. Change({2}, {}) \in Roots /\ Change({3}, {}) \in Roots /\ change \in Roots
    BY TextsTyped
  <2>2. m \in Messages /\ b \in Messages BY <2>1, RootTypes, MessagesTyped
  <2>3. /\ m.root = Change({3}, {}) /\ m.kind = "root" /\ m.doc = {}
        /\ b.root = Change({2}, {}) /\ b.kind = "bundle"
    BY DEF RootUpdate, Bundle
  <2>4. change.sets = {2, 3} /\ change.dels = {} BY DEF Change
  <2> QED BY <2>1, <2>2, <2>3, <2>4
<1>4. GoesUp(sroot, root[c], up[c], resync[c], "on") BY <1>1 DEF RootInv
<1> DEFINE e == End(sroot, up[c])
<1>5. e \in Roots /\ e.sets = {1} /\ 1 \in e.dels
  <2>1. \A i \in DOMAIN up[c] : Within(up[c][i].root, root[c]) BY <1>4 DEF GoesUp
  <2>2. Len(up[c]) \in 0..Len(up[c]) /\ e \in Roots BY <1>2, AheadWithin
  <2>3. e.sets \subseteq (sroot.sets \union root[c].sets)
    BY <1>2, <2>1, <2>2, AheadWithin DEF End
  <2>4. Within(root[c], e) BY <1>4 DEF GoesUp, Within
  <2> QED BY <1>2, <2>2, <2>3, <2>4 DEF Within
<1> DEFINE r1 == Merge(root[c], m.root)
           q1 == up[c] \o <<m>>
<1>6. Announces(m.root, root[c]) /\ Announces(m.root, e) BY <1>2, <1>3, <1>5 DEF Announces
<1>7. Legal(r1) /\ r1 \in Roots /\ r1.sets = {1, 3}
  <2>1. r1.sets = {1, 3} BY <1>2, <1>3 DEF Merge, Change
  <2> QED BY <1>2, <1>3, <1>6, <2>1, LegalMerge, MergeTyped
<1>8. /\ GoesUp(sroot, r1, q1, {}, "on") /\ q1 \in Seq(Messages)
      /\ End(sroot, q1) = Merge(e, m.root)
  <2>1. FitsRoom(m, e) BY <1>3, <1>6 DEF FitsRoom
  <2>2. "root" \notin {} /\ root[c] \in Roots BY <1>2
  <2> HIDE DEF m, b
  <2>3. Legal(Merge(root[c], m.root)) /\ FitsRoom(m, End(sroot, up[c])) BY <1>7, <2>1
  <2> HIDE DEF r1, q1, e
  <2>4. /\ GoesUp(sroot, Merge(root[c], m.root), up[c] \o <<m>>, {}, "on")
        /\ up[c] \o <<m>> \in Seq(Messages)
        /\ End(sroot, up[c] \o <<m>>) = Merge(End(sroot, up[c]), m.root)
    <3>1. sroot \in Roots /\ root[c] \in Roots /\ up[c] \in Seq(Messages) /\ m \in Messages
      BY <1>2, <1>3
    <3> QED BY <1>4, <2>2, <2>3, <3>1, UpSendOne
  <2> QED BY <2>4 DEF r1, q1, e
<1>9. Restores(b.root, r1) /\ Restores(b.root, Merge(e, m.root))
  <2>1. Merge(e, m.root).sets = {1, 3} BY <1>3, <1>5 DEF Merge, Change
  <2> QED BY <1>3, <1>7, <2>1 DEF Restores
<1>10. Legal(Merge(r1, b.root)) BY <1>3, <1>7, <1>9, LegalMerge
<1>11. FitsRoom(b, End(sroot, q1)) BY <1>3, <1>8, <1>9 DEF FitsRoom
<1>12. GoesUp(sroot, Merge(r1, b.root), q1 \o <<b>>, {}, "on")
  <2> HIDE DEF r1, q1, b, m
  <2>1. "root" \notin {} OBVIOUS
  <2> QED BY <1>2, <1>3, <1>7, <1>8, <1>10, <1>11, <2>1, UpSendOne
<1>13. Merge(r1, b.root) = Merge(root[c], change)
  <2>1. r1.sets = root[c].sets \union {3} /\ r1.dels = root[c].dels
    BY <1>3 DEF Merge, Change
  <2> HIDE DEF r1
  <2>2. /\ Merge(r1, b.root).sets = root[c].sets \union {2, 3}
        /\ Merge(r1, b.root).dels = root[c].dels
    BY <1>3, <2>1 DEF Merge, Change
  <2>3. /\ Merge(root[c], change).sets = root[c].sets \union {2, 3}
        /\ Merge(root[c], change).dels = root[c].dels
    BY <1>3 DEF Merge
  <2>4. Merge(r1, b.root) \in Roots /\ Merge(root[c], change) \in Roots
    BY <1>2, <1>3, <1>7, MergeTyped DEF r1
  <2> QED BY <2>2, <2>3, <2>4, SameRoot
<1>14. q1 \o <<b>> = up[c] \o <<m, b>> /\ <<m, b>> \in Seq(Messages)
  <2> HIDE DEF m, b
  <2>1. up[c] \in Seq(Messages) /\ m \in Messages /\ b \in Messages BY <1>2, <1>3
  <2>2. \A q \in Seq(Messages), x, y \in Messages :
          (q \o <<x>>) \o <<y>> = q \o <<x, y>> /\ <<x, y>> \in Seq(Messages)
    <3> TAKE q \in Seq(Messages), x \in Messages, y \in Messages
    <3> DEFINE left  == (q \o <<x>>) \o <<y>>
               right == q \o <<x, y>>
    <3>1. left \in Seq(Messages) /\ right \in Seq(Messages) /\ <<x, y>> \in Seq(Messages)
      OBVIOUS
    <3>2. Len(left) = Len(q) + 2 /\ Len(right) = Len(q) + 2 /\ Len(q) \in Nat OBVIOUS
    <3>3. \A i \in 1..Len(left) : left[i] = right[i] OBVIOUS
    <3> HIDE DEF left, right
    <3>4. left = right BY <3>1, <3>2, <3>3
    <3> QED BY <3>1, <3>4 DEF left, right
  <2> QED BY <2>1, <2>2
<1>15. /\ root' = [root EXCEPT ![c] = Merge(@, change)] /\ UNCHANGED <<sroot, conn, down>>
       /\ Emit(c, <<m, b>>) /\ resync' = [resync EXCEPT ![c] = {}]
  BY <1>1 DEF ChangeRoot, room
<1>16. \A d \in Clients : d # c => root[d].sets \subseteq sroot.sets
  <2>1. CASE 1 \in sroot.sets BY <1>2, <2>1
  <2>2. CASE 1 \notin sroot.sets BY <1>2, <2>2 DEF RootInv, Known
  <2> QED BY <2>1, <2>2
<1>17. GoesUp(sroot, Merge(root[c], change), up[c] \o <<m, b>>, {}, "on")
  BY <1>12, <1>13, <1>14
<1>18. sroot.sets \subseteq root[c].sets /\ (3 \in change.sets => 2 \in change.sets)
  BY <1>2, <1>3
<1> HIDE DEF change, m, b, e, r1, q1
<1> QED BY <1>1, <1>3, <1>14, <1>15, <1>16, <1>17, <1>18, Introduces

\* After a client was closed and opened again.
LEMMA ReopenOrdered ==
  ASSUME RootInv, ReopenRoom
  PROVE  RootInv'
BY DEF ReopenRoom, RootInv, Known, client, network

\* A client that connects is told all the room knows: what it has itself it has told before.
LEMMA ConnectOrdered ==
  ASSUME CountInv, RootInv, NEW c \in Clients, Connect(c)
  PROVE  RootInv'
<1>1. /\ conn[c] \in {"new", "off"} /\ conn' = [conn EXCEPT ![c] = "connecting"]
      /\ down' = [down EXCEPT ![c] = <<Bootstrap>>]
      /\ UNCHANGED <<root, resync, sroot, up>>
  BY DEF Connect, room
<1>2. sroot \in Roots /\ root[c] \in Roots /\ Legal(sroot) BY RootTypes DEF RootInv
<1>3. /\ \A d \in Clients : d # c => conn'[d] = conn[d] /\ down'[d] = down[d]
      /\ conn'[c] = "connecting" /\ down'[c] = <<Bootstrap>>
  BY <1>1, RootTypes
<1>4. GoesUp(sroot, root[c], up[c], resync[c], conn[c]) /\ up[c] = << >>
  BY <1>1 DEF RootInv, GoesUp
<1>5. /\ Legal(root[c]) /\ root[c].sets \subseteq sroot.sets
      /\ "root" \in resync[c] \/ root[c].dels \subseteq sroot.dels
  BY <1>2, <1>4, UpNothing
<1>6. GoesUp(sroot, root[c], up[c], resync[c], "connecting") BY <1>2, <1>4, <1>5, UpNothing
<1>7. Bootstrap \in Messages /\ Bootstrap.kind = "bootstrap" /\ Bootstrap.root = sroot
  BY RootTypes DEF Bootstrap, Messages, Notes
<1>8. GoesDown(sroot, root[c], <<Bootstrap>>, "connecting")
  BY <1>2, <1>5, <1>7, DownConnects
<1>9. Known' BY <1>1, KnownSame DEF RootInv
<1> QED BY <1>1, <1>3, <1>6, <1>8, <1>9 DEF RootInv

\* A connection that breaks loses nothing of the root, or it is a mishap.
LEMMA DropOrdered ==
  ASSUME CountInv, RootInv, NEW c \in Clients, Drop(c), mishaps' = {}
  PROVE  RootInv'
<1>1. /\ Attached(c) /\ conn' = [conn EXCEPT ![c] = "off"]
      /\ up' = [up EXCEPT ![c] = << >>] /\ down' = [down EXCEPT ![c] = << >>]
      /\ UNCHANGED <<root, resync, sroot>>
  BY DEF Drop, client, room
<1>2. /\ sroot \in Roots /\ root[c] \in Roots /\ up[c] \in Seq(Messages)
      /\ \A d \in Clients : d # c => /\ conn'[d] = conn[d] /\ down'[d] = down[d]
                                     /\ up'[d] = up[d]
      /\ conn'[c] = "off" /\ down'[c] = << >> /\ up'[c] = << >>
  BY <1>1, RootTypes
<1>3. \A i \in DOMAIN up[c] : up[c][i].kind = "note"
  <2> DEFINE sent == {up[c][i] : i \in DOMAIN up[c]}
  <2>1. mishaps' = IF \A m \in sent : m.kind = "note" THEN mishaps
                     ELSE mishaps \union {"update lost"}
    BY DEF Drop
  <2>2. \A m \in sent : m.kind = "note" BY <2>1
  <2> QED BY <2>2
<1>4. GoesUp(sroot, root[c], up[c], resync[c], conn[c]) BY DEF RootInv
<1>5. \A i \in DOMAIN up[c] : Within(up[c][i].root, Nothing)
  BY <1>3, <1>4 DEF GoesUp, FitsRoom, Within
<1>6. End(sroot, up[c]).sets \subseteq sroot.sets /\ End(sroot, up[c]).dels \subseteq sroot.dels
  <2>1. Nothing \in Roots /\ Nothing.sets = {} /\ Nothing.dels = {}
    BY TextsTyped DEF Nothing, Change
  <2>2. Len(up[c]) \in 0..Len(up[c]) BY <1>2, AheadWithin
  <2>3. /\ End(sroot, up[c]).sets \subseteq (sroot.sets \union Nothing.sets)
        /\ End(sroot, up[c]).dels \subseteq (sroot.dels \union Nothing.dels)
    BY <1>2, <1>5, <2>1, <2>2, AheadWithin DEF End
  <2> QED BY <2>1, <2>3
<1>7. GoesUp(sroot, root[c], << >>, resync[c], "off")
  <2>1. /\ Legal(root[c]) /\ root[c].sets \subseteq sroot.sets
        /\ "root" \in resync[c] \/ root[c].dels \subseteq sroot.dels
    BY <1>4, <1>6 DEF GoesUp
  <2> QED BY <1>2, <2>1, UpNothing
<1>8. GoesDown(sroot, root[c], << >>, "off") BY <1>2, DownConnects
<1>9. Known' BY <1>1, KnownSame DEF RootInv
<1> QED BY <1>1, <1>2, <1>7, <1>8, <1>9 DEF RootInv

\* What a client receives of the root.
LEMMA ReceiveOrdered ==
  ASSUME CountInv, RootInv, NEW c \in Clients, ReceiveRootUpdate(c) \/ ReceiveNoteUpdate(c)
  PROVE  RootInv'
<1> DEFINE m == Head(down[c])
           r == Merge(root[c], m.root)
<1>1. /\ down[c] # << >> /\ m.kind \in {"root", "note"}
      /\ down' = [down EXCEPT ![c] = Tail(@)]
      /\ UNCHANGED <<sroot, conn, up, resync>>
  BY DEF ReceiveRootUpdate, ReceiveNoteUpdate, room
<1>2. /\ sroot \in Roots /\ root[c] \in Roots /\ down[c] \in Seq(Messages)
      /\ up[c] \in Seq(Messages)
      /\ m.root \in Roots /\ r \in Roots
  <2>1. sroot \in Roots /\ root[c] \in Roots /\ down[c] \in Seq(Messages) /\ up[c] \in Seq(Messages)
    BY RootTypes
  <2>2. m.root \in Roots BY <1>1, <2>1, QueueHead
  <2> QED BY <2>1, <2>2, MergeTyped
<1>3. /\ FitsClient(m, root[c]) /\ Within(m.root, sroot) /\ conn[c] = "on"
      /\ GoesDown(sroot, r, Tail(down[c]), "on")
  <2>1. GoesDown(sroot, root[c], down[c], conn[c]) BY DEF RootInv
  <2>2. /\ FitsClient(m, root[c]) /\ Within(m.root, sroot) /\ conn[c] \in {"connecting", "on"}
        /\ m.kind = "bootstrap" <=> conn[c] = "connecting"
        /\ GoesDown(sroot, r, Tail(down[c]), "on")
    BY <1>1, <1>2, <2>1, DownHead
  <2> QED BY <1>1, <2>2
<1>4. m.kind = "note" => r = root[c]
  <2>1. m.kind = "note" => m.root = Nothing BY <1>3 DEF FitsClient
  <2>2. Merge(root[c], Nothing) = root[c]
    <3>1. Merge(root[c], Nothing).sets = root[c].sets /\ Merge(root[c], Nothing).dels = root[c].dels
      BY DEF Merge, Nothing, Change
    <3>2. Merge(root[c], Nothing) \in Roots BY <1>2, MergeTyped, TextsTyped
    <3> QED BY <1>2, <3>1, <3>2, SameRoot
  <2> QED BY <2>1, <2>2
<1>5. root' = [root EXCEPT ![c] = r]
  <2>1. CASE ReceiveRootUpdate(c) BY <2>1 DEF ReceiveRootUpdate
  <2>2. CASE ReceiveNoteUpdate(c)
    <3>1. root' = root /\ m.kind = "note" BY <2>2 DEF ReceiveNoteUpdate
    <3>2. r = root[c] BY <1>4, <3>1
    <3> HIDE DEF r
    <3> QED BY <3>1, <3>2, RootTypes
  <2> QED BY <2>1, <2>2
<1>6. GoesUp(sroot, root[c], up[c], resync[c], conn[c]) /\ Legal(root[c]) BY DEF RootInv, GoesUp
<1>7. Legal(r)
  <2>1. CASE m.kind = "note" BY <1>4, <1>6, <2>1
  <2>2. CASE m.kind = "root"
    <3>1. \/ Repeats(m.root, root[c]) \/ Creates(m.root, root[c])
          \/ Announces(m.root, root[c]) \/ Restores(m.root, root[c])
      BY <1>3, <2>2 DEF FitsClient
    <3> QED BY <1>2, <1>6, <3>1, LegalMerge
  <2> QED BY <1>1, <2>1, <2>2
<1>8. GoesUp(sroot, r, up[c], resync[c], conn[c])
  <2>1. m.root.sets \subseteq (root[c].sets \union sroot.sets) /\ m.root.dels \subseteq sroot.dels
    BY <1>3 DEF Within
  <2>2. Legal(Merge(root[c], m.root)) BY <1>7
  <2> HIDE DEF m
  <2> QED BY <1>2, <1>6, <2>1, <2>2, UpClientLearns
<1>9. r.sets = root[c].sets \union m.root.sets BY DEF Merge
<1> HIDE DEF r, m
<1>10. /\ \A d \in Clients : d # c => root'[d] = root[d] /\ down'[d] = down[d]
       /\ root'[c] = r /\ down'[c] = Tail(down[c])
  BY <1>1, <1>5, RootTypes
<1>11. Known'
  <2>1. \A d \in Clients : /\ root[d].sets \subseteq root'[d].sets
                           /\ root'[d].sets \subseteq root[d].sets \union sroot.sets
    BY <1>3, <1>9, <1>10 DEF Within
  <2> QED BY <1>1, <2>1, KnownSpreads DEF RootInv
<1> QED BY <1>1, <1>3, <1>8, <1>10, <1>11 DEF RootInv

\* The bootstrap: the client has nothing that the room has not, short of removals, and flushes them.
LEMMA BootstrapOrdered ==
  ASSUME CountInv, CountInv', RootInv, NEW c \in Clients, ReceiveBootstrap(c)
  PROVE  RootInv'
<1> DEFINE m       == Head(down[c])
           r       == Merge(root[c], m.root)
           pending == IF Instance(r) = Instance(root[c]) THEN resync[c]
                      ELSE resync[c] \ {"note"}
           n       == Synced(Follow(note[c], root[c], r), m)
<1>1. /\ down[c] # << >> /\ m.kind = "bootstrap"
      /\ root' = [root EXCEPT ![c] = r] /\ sroot' = sroot
      /\ \/ /\ conn' = [conn EXCEPT ![c] = "locked out"]
            /\ down' = [down EXCEPT ![c] = << >>]
            /\ UNCHANGED <<resync, up>>
         \/ /\ conn' = [conn EXCEPT ![c] = "on"]
            /\ note' = [note EXCEPT ![c] = n]
            /\ FlushUnsynced(c, pending, r, n)
            /\ resync' = [resync EXCEPT ![c] = {}]
            /\ down' = [down EXCEPT ![c] = Tail(@)]
  BY DEF ReceiveBootstrap, room
<1>2. /\ sroot \in Roots /\ root[c] \in Roots /\ down[c] \in Seq(Messages)
      /\ up[c] \in Seq(Messages) /\ m \in Messages
      /\ m.root \in Roots /\ r \in Roots
  <2>1. sroot \in Roots /\ root[c] \in Roots /\ down[c] \in Seq(Messages) /\ up[c] \in Seq(Messages)
    BY RootTypes
  <2>2. m \in Messages /\ m.root \in Roots BY <1>1, <2>1, QueueHead
  <2> QED BY <2>1, <2>2, MergeTyped
<1>3. /\ FitsClient(m, root[c]) /\ Within(m.root, sroot) /\ conn[c] = "connecting"
      /\ GoesDown(sroot, r, Tail(down[c]), "on")
  <2>1. GoesDown(sroot, root[c], down[c], conn[c]) BY DEF RootInv
  <2>2. /\ FitsClient(m, root[c]) /\ Within(m.root, sroot)
        /\ m.kind = "bootstrap" <=> conn[c] = "connecting"
        /\ GoesDown(sroot, r, Tail(down[c]), "on")
    BY <1>1, <1>2, <2>1, DownHead
  <2> QED BY <1>1, <2>2
<1>4. Legal(m.root) /\ root[c].sets \subseteq m.root.sets BY <1>1, <1>3 DEF FitsClient
<1>5. /\ up[c] = << >> /\ Legal(root[c]) /\ root[c].sets \subseteq sroot.sets
      /\ "root" \in resync[c] \/ root[c].dels \subseteq sroot.dels
  <2>1. GoesUp(sroot, root[c], up[c], resync[c], conn[c]) BY DEF RootInv
  <2>2. up[c] = << >> BY <1>3, <2>1 DEF GoesUp
  <2> QED BY <1>2, <2>1, <2>2, UpNothing
<1>6. /\ r.sets = m.root.sets /\ r.dels = root[c].dels \union m.root.dels
      /\ r.sets \subseteq sroot.sets
  BY <1>3, <1>4 DEF Merge, Within
<1>7. Legal(r)
  <2>1. \A k \in r.dels : k \in {1, 3} /\ 1..k \subseteq r.sets
    BY <1>4, <1>5, <1>6 DEF Legal
  <2>2. r.sets \in {{}, {1}, {1, 3}, {1, 2, 3}} /\ (3 \in r.sets => 1 \in r.dels)
    BY <1>4, <1>6 DEF Legal
  <2> QED BY <2>1, <2>2 DEF Legal
<1>8. "root" \in resync[c] \/ r.dels \subseteq sroot.dels BY <1>3, <1>5, <1>6 DEF Within
<1>9. "root" \in pending <=> "root" \in resync[c] OBVIOUS
<1> HIDE DEF m, r, pending, n
<1>10. \A d \in Clients : d # c => root'[d] = root[d]
  BY <1>1, RootTypes
<1>11. root'[c] = r BY <1>1, RootTypes
<1>12. Known'
  <2>1. Within(root[c], r) BY DEF Within, Merge, r
  <2>2. \A d \in Clients : /\ root[d].sets \subseteq root'[d].sets
                           /\ root'[d].sets \subseteq root[d].sets \union sroot.sets
    BY <1>6, <1>10, <1>11, <2>1 DEF Within
  <2> QED BY <1>1, <2>2, KnownSpreads DEF RootInv
<1>13. CASE /\ conn' = [conn EXCEPT ![c] = "locked out"]
            /\ down' = [down EXCEPT ![c] = << >>]
            /\ UNCHANGED <<resync, up>>
  <2>1. GoesUp(sroot, r, up[c], resync[c], "locked out")
    <3>1. GoesUp(sroot, r, << >>, resync[c], "locked out")
      BY <1>2, <1>6, <1>7, <1>8, UpNothing
    <3> QED BY <1>5, <3>1
  <2>2. GoesDown(sroot, r, << >>, "locked out") BY <1>2, DownConnects
  <2>3. /\ conn'[c] = "locked out" /\ down'[c] = << >> /\ up' = up /\ resync' = resync
        /\ \A d \in Clients : d # c => conn'[d] = conn[d] /\ down'[d] = down[d]
    BY <1>13, RootTypes
  <2> QED BY <1>1, <1>10, <1>11, <1>12, <2>1, <2>2, <2>3 DEF RootInv
<1>14. CASE /\ conn' = [conn EXCEPT ![c] = "on"]
            /\ note' = [note EXCEPT ![c] = n]
            /\ FlushUnsynced(c, pending, r, n)
            /\ resync' = [resync EXCEPT ![c] = {}]
            /\ down' = [down EXCEPT ![c] = Tail(@)]
  <2> DEFINE first  == IF "root" \in pending THEN <<RootUpdate(r)>> ELSE << >>
             second == IF "note" \in pending THEN <<NoteUpdate(n.gen, n.doc)>> ELSE << >>
  <2>1. up' = [up EXCEPT ![c] = @ \o (first \o second)] BY <1>14 DEF FlushUnsynced, Emit
  <2>2. /\ RootUpdate(r) \in Messages /\ RootUpdate(r).root = r
        /\ RootUpdate(r).kind = "root" /\ RootUpdate(r).doc = {}
    BY <1>2, MessagesTyped DEF RootUpdate
  <2>3. n.gen \in 0..3 /\ n.doc \in Texts
    <3>1. note'[c] = n BY <1>14, RootTypes
    <3>2. note'[c] \in Notes /\ root'[c] \in Roots /\ note'[c].gen <= Latest(root'[c])
      BY DEF CountInv, TypeOK, GenInv, Counted
    <3>3. Latest(root'[c]) \in 0..3 BY <3>2, LatestIs
    <3> QED BY <3>1, <3>2, <3>3 DEF Notes
  <2>4. /\ NoteUpdate(n.gen, n.doc) \in Messages
        /\ NoteUpdate(n.gen, n.doc).kind = "note" /\ NoteUpdate(n.gen, n.doc).root = Nothing
    BY <2>3, MessagesTyped DEF NoteUpdate
  <2>5. first \in Seq(Messages) /\ second \in Seq(Messages) BY <2>2, <2>4
  <2>6. GoesUp(sroot, r, first, {}, "on") /\ Within(r, End(sroot, first))
    <3>1. CASE "root" \in pending
      <4> DEFINE t == <<RootUpdate(r)>>
      <4>1. DOMAIN t = {1} /\ t[1] = RootUpdate(r) /\ Len(t) = 1 /\ 1 - 1 = 0 OBVIOUS
      <4>2. Ahead(sroot, t, 0) = sroot /\ Ahead(sroot, t, 1) = Merge(sroot, r)
        <5>1. Ahead(sroot, t, 0) = sroot BY <1>2, AheadNone
        <5>2. Ahead(sroot, t, 1) = Merge(sroot, RootUpdate(r).root) BY <1>2, <2>2, AheadFew
        <5> QED BY <2>2, <5>1, <5>2
      <4>3. Repeats(r, sroot) BY <1>6, <1>7 DEF Repeats, Legal
      <4>4. FitsRoom(t[1], Ahead(sroot, t, 1 - 1)) BY <2>2, <4>1, <4>2, <4>3 DEF FitsRoom
      <4>5. Within(r, Merge(sroot, r)) /\ Within(r, r) BY DEF Within, Merge
      <4>6. End(sroot, t) = Merge(sroot, r) BY <4>1, <4>2 DEF End
      <4>7. Within(t[1].root, r) BY <2>2, <4>1, <4>5
      <4> HIDE DEF t
      <4>8. GoesUp(sroot, r, t, {}, "on") /\ Within(r, End(sroot, t))
        BY <1>7, <4>1, <4>4, <4>5, <4>6, <4>7 DEF GoesUp, Within
      <4> QED BY <3>1, <4>8 DEF t
    <3>2. CASE "root" \notin pending
      <4>1. first = << >> /\ DOMAIN << >> = {} BY <3>2
      <4>2. End(sroot, << >>) = sroot BY <1>2, AheadNone DEF End
      <4>3. r.dels \subseteq sroot.dels BY <1>8, <1>9, <3>2
      <4>4. GoesUp(sroot, r, << >>, {}, "on") /\ Within(r, End(sroot, << >>))
        BY <1>6, <1>7, <4>1, <4>2, <4>3 DEF GoesUp, Within
      <4> QED BY <4>1, <4>4
    <3> QED BY <3>1, <3>2
  <2>7. GoesUp(sroot, r, first \o second, {}, "on")
    <3>1. CASE "note" \in pending
      <4>1. second = <<NoteUpdate(n.gen, n.doc)>> BY <3>1
      <4> HIDE DEF first, second
      <4>2. GoesUp(sroot, r, first \o <<NoteUpdate(n.gen, n.doc)>>, {}, "on")
        BY <1>2, <2>4, <2>5, <2>6, UpSendNote
      <4> QED BY <4>1, <4>2
    <3>2. CASE "note" \notin pending
      <4>1. second = << >> BY <3>2
      <4> HIDE DEF first, second
      <4>2. first \o << >> = first BY <2>5
      <4> QED BY <2>6, <4>1, <4>2
    <3> QED BY <3>1, <3>2
  <2>8. up'[c] = first \o second
    <3>1. up'[c] = up[c] \o (first \o second) BY <2>1, RootTypes
    <3>2. \A q \in Seq(Messages) : << >> \o q = q OBVIOUS
    <3>3. first \o second \in Seq(Messages)
      <4> HIDE DEF first, second
      <4> QED BY <2>5
    <3> QED BY <1>5, <3>1, <3>2, <3>3
  <2> HIDE DEF first, second
  <2>9. /\ conn'[c] = "on" /\ down'[c] = Tail(down[c]) /\ resync'[c] = {}
        /\ \A d \in Clients : d # c => /\ conn'[d] = conn[d] /\ down'[d] = down[d]
                                       /\ resync'[d] = resync[d] /\ up'[d] = up[d]
    BY <1>14, <2>1, RootTypes
  <2>10. ASSUME NEW d \in Clients PROVE GoesUp(sroot, root'[d], up'[d], resync'[d], conn'[d])
    <3>1. GoesUp(sroot, root[d], up[d], resync[d], conn[d]) BY DEF RootInv
    <3>2. CASE d = c BY <1>11, <2>7, <2>8, <2>9, <3>2
    <3>3. CASE d # c BY <1>10, <2>9, <3>1, <3>3
    <3> QED BY <3>2, <3>3
  <2>11. ASSUME NEW d \in Clients PROVE GoesDown(sroot, root'[d], down'[d], conn'[d])
    <3>1. GoesDown(sroot, root[d], down[d], conn[d]) BY DEF RootInv
    <3>2. CASE d = c BY <1>3, <1>11, <2>9, <3>2
    <3>3. CASE d # c BY <1>10, <2>9, <3>1, <3>3
    <3> QED BY <3>2, <3>3
  <2> QED BY <1>1, <1>12, <2>10, <2>11 DEF RootInv
<1> QED BY <1>1, <1>13, <1>14

\* The room learns of a change that one of its clients made, and tells the others.
LEMMA RoomLearns ==
  ASSUME CountInv, RootInv, NEW c \in Clients, up[c] # << >>, Handled(c),
         UNCHANGED <<root, resync, conn>>,
         Head(up[c]).kind \in {"root", "bundle"}, sroot' = Merge(sroot, Head(up[c]).root),
         NEW x \in Messages, NEW y \in Messages, NEW t,
         x.kind = "root", x.doc = {}, x.root = Head(up[c]).root,
         y.kind = "note", y.root = Nothing, t = <<x>> \/ t = <<x, y>>, Broadcast(c, t)
  PROVE  RootInv'
<1> DEFINE m == Head(up[c])
           s == Merge(sroot, m.root)
<1>1. /\ sroot \in Roots /\ Legal(sroot) /\ m.root \in Roots /\ s \in Roots /\ Within(sroot, s)
      /\ s.sets = sroot.sets \union m.root.sets
      /\ \A d \in Clients : /\ root[d] \in Roots /\ up[d] \in Seq(Messages)
                            /\ down[d] \in Seq(Messages)
  <2>1. /\ sroot \in Roots /\ Legal(sroot)
        /\ \A d \in Clients : /\ root[d] \in Roots /\ up[d] \in Seq(Messages)
                              /\ down[d] \in Seq(Messages)
    BY RootTypes DEF RootInv
  <2>2. m.root \in Roots BY <2>1, QueueHead
  <2>3. s \in Roots BY <2>1, <2>2, MergeTyped
  <2> QED BY <2>1, <2>2, <2>3 DEF Merge, Within
<1>2. /\ FitsRoom(m, sroot) /\ Within(m.root, root[c])
      /\ GoesUp(s, root[c], Tail(up[c]), resync[c], conn[c])
  <2>1. GoesUp(sroot, root[c], up[c], resync[c], conn[c]) BY DEF RootInv
  <2> QED BY <1>1, <2>1, UpHead
<1>3. \/ Repeats(m.root, sroot) \/ Creates(m.root, sroot)
      \/ Announces(m.root, sroot) \/ Restores(m.root, sroot)
  BY <1>2 DEF FitsRoom
<1>4. Legal(s) BY <1>1, <1>3, LegalMerge
<1>5. m.root.sets \subseteq sroot.sets \/ \A d \in Clients : d # c => root[d].sets \subseteq sroot.sets
  BY <1>2 DEF RootInv, Known, Within
<1>6. ASSUME NEW d \in Clients, d # c PROVE GoesUp(s, root[d], up[d], resync[d], conn[d])
  <2>1. GoesUp(sroot, root[d], up[d], resync[d], conn[d]) BY DEF RootInv
  <2>2. m.root.sets \subseteq sroot.sets \/ root[d].sets \subseteq sroot.sets BY <1>5, <1>6
  <2> QED BY <1>1, <2>1, <2>2, UpRoomLearns
<1>7. GoesDown(s, root[c], down[c], conn[c])
  <2>1. GoesDown(sroot, root[c], down[c], conn[c]) BY DEF RootInv
  <2>2. Within(root[c], End(root[c], down[c])) BY <1>1, AheadWithin DEF End
  <2>3. conn[c] \in {"connecting", "on"} => Within(sroot, End(root[c], down[c]))
    BY <2>1 DEF GoesDown
  <2>4. conn[c] \in {"connecting", "on"} => Within(s, End(root[c], down[c]))
    BY <1>2, <2>2, <2>3 DEF Within, Merge
  <2> HIDE DEF s
  <2> QED BY <1>1, <2>1, <2>4, DownRoomLearns
<1>8. ASSUME NEW d \in Clients, d # c, conn[d] \in {"connecting", "on"}
      PROVE  GoesDown(s, root[d], down[d] \o t, conn[d])
  <2> DEFINE e == End(root[d], down[d])
  <2>1. GoesDown(sroot, root[d], down[d], conn[d]) BY DEF RootInv
  <2>2. e \in Roots /\ Within(sroot, e) BY <1>1, <1>8, <2>1, AheadWithin DEF GoesDown
  <2>3. root[d].sets \subseteq sroot.sets => e.sets = sroot.sets
    <3>1. \A i \in DOMAIN down[d] : Within(down[d][i].root, sroot) BY <2>1 DEF GoesDown
    <3>2. Len(down[d]) \in 0..Len(down[d]) BY <1>1, AheadWithin
    <3>3. e.sets \subseteq (root[d].sets \union sroot.sets)
      BY <1>1, <3>1, <3>2, AheadWithin DEF End
    <3> QED BY <2>2, <3>3 DEF Within
  <2> HIDE DEF e
  <2>4. FitsClient(x, e)
    <3>1. CASE m.root.sets \subseteq sroot.sets
      <4> HIDE DEF m
      <4>1. ~Creates(m.root, sroot) /\ ~Announces(m.root, sroot) /\ ~Restores(m.root, sroot)
        BY <3>1 DEF Creates, Announces, Restores, Change
      <4>2. Repeats(m.root, e) BY <1>3, <2>2, <4>1 DEF Repeats, Within
      <4> QED BY <4>2 DEF FitsClient, m
    <3>2. CASE ~(m.root.sets \subseteq sroot.sets)
      <4>1. e.sets = sroot.sets BY <1>5, <1>8, <2>3, <3>2
      <4>2. \/ Repeats(m.root, e) \/ Creates(m.root, e)
            \/ Announces(m.root, e) \/ Restores(m.root, e)
        BY <1>3, <2>2, <4>1 DEF Repeats, Creates, Announces, Restores, Within
      <4> QED BY <4>2 DEF FitsClient
    <3> QED BY <3>1, <3>2
  <2>5. /\ t \in Seq(Messages) /\ End(e, t) = Merge(e, x.root)
        /\ \A j \in DOMAIN t : /\ t[j].kind # "bootstrap"
                               /\ t[j].root = x.root \/ t[j].root = Nothing
                               /\ FitsClient(t[j], Ahead(e, t, j - 1))
    BY <2>2, <2>4, Passes
  <2>6. Within(s, End(e, t))
    <3>1. Within(Merge(sroot, m.root), Merge(e, m.root)) BY <2>2 DEF Within, Merge
    <3> QED BY <2>5, <3>1
  <2>7. \A j \in DOMAIN t : Within(t[j].root, s)
    <3>1. Within(m.root, s) /\ Within(Nothing, s) BY DEF Within, Merge, Nothing, Change
    <3> QED BY <2>5, <3>1
  <2> HIDE DEF s, m
  <2> QED BY <1>1, <1>8, <2>1, <2>5, <2>6, <2>7, DownSend DEF e
<1> HIDE DEF s
<1>9. sroot' = s /\ root' = root /\ conn' = conn /\ resync' = resync BY DEF s
<1>10. \A d \in Clients : GoesUp(s, root[d], up'[d], resync[d], conn[d])
  <2>1. up'[c] = Tail(up[c]) /\ \A d \in Clients : d # c => up'[d] = up[d]
    BY RootTypes DEF Handled
  <2> QED BY <1>2, <1>6, <2>1
<1>11. \A d \in Clients : GoesDown(s, root[d], down'[d], conn[d])
  <2> TAKE d \in Clients
  <2>1. down'[d] = IF d # c /\ Attached(d) THEN down[d] \o t ELSE down[d] BY DEF Broadcast
  <2>2. CASE d = c BY <1>7, <2>1, <2>2
  <2>3. CASE d # c /\ Attached(d) BY <1>8, <2>1, <2>3 DEF Attached
  <2>4. CASE d # c /\ ~Attached(d)
    <3>1. conn[d] \notin {"connecting", "on"} BY <2>4 DEF Attached
    <3>2. GoesDown(sroot, root[d], down[d], conn[d]) BY DEF RootInv
    <3>3. GoesDown(s, root[d], down[d], conn[d]) BY <1>1, <3>1, <3>2, DownRoomLearns
    <3> QED BY <2>1, <2>4, <3>3
  <2> QED BY <2>2, <2>3, <2>4
<1>12. Known'
  <2>1. \A k \in s.sets : k \in sroot.sets \/ \E d \in Clients : k \in root[d].sets
    BY <1>1, <1>2 DEF Within
  <2>2. sroot.sets \subseteq s.sets BY <1>1
  <2> QED BY <1>9, <2>1, <2>2, KnownSpreads DEF RootInv
<1> QED BY <1>4, <1>9, <1>10, <1>11, <1>12 DEF RootInv

\* What the four kinds of changes do to the note: a bundle brings one, anything else does not.
LEMMA ChangesOf ==
  ASSUME NEW r \in Roots, NEW change \in Roots, Legal(r)
  PROVE  /\ Repeats(change, r) =>
              /\ Latest(Merge(r, change)) = Latest(r)
              /\ Instance(Merge(r, change)) \in {Instance(r), 0}
         /\ Announces(change, r) =>
              /\ Latest(Merge(r, change)) = 1 /\ Latest(r) = 1
              /\ Instance(Merge(r, change)) = 0 /\ Instance(r) = 0
         /\ Creates(change, r) =>
              /\ Latest(Merge(r, change)) = 1 /\ Latest(r) = 0
              /\ Instance(Merge(r, change)) = 1 /\ Instance(r) = 0
         /\ Restores(change, r) =>
              /\ Latest(Merge(r, change)) = 3 /\ Latest(r) = 1
              /\ Instance(Merge(r, change)) = 3 /\ Instance(r) = 0
<1> DEFINE r2 == Merge(r, change)
<1>1. r2.sets = r.sets \union change.sets /\ r2.dels = r.dels \union change.dels BY DEF Merge
<1>2. r2 \in Roots BY MergeTyped
<1> HIDE DEF r2
<1>3. /\ Instance(r) = IF r.sets = {} THEN 0
                       ELSE IF 2 \in r.sets THEN (IF 3 \in r.dels THEN 0 ELSE 3)
                       ELSE IF 1 \in r.dels THEN 0 ELSE 1
      /\ Latest(r) = IF r.sets = {} THEN 0 ELSE IF 2 \in r.sets THEN 3 ELSE 1
      /\ 1 \notin r.sets => r.sets = {} /\ r.dels = {}
      /\ 2 \notin r.sets => 3 \notin r.dels
      /\ 3 \in r.sets => 1 \in r.dels
      /\ 2 \in r.sets => r.sets = {1, 2, 3}
  BY LegalInstance DEF Legal
<1>4. Legal(r2) =>
      /\ Instance(r2) = IF r2.sets = {} THEN 0
                        ELSE IF 2 \in r2.sets THEN (IF 3 \in r2.dels THEN 0 ELSE 3)
                        ELSE IF 1 \in r2.dels THEN 0 ELSE 1
      /\ Latest(r2) = IF r2.sets = {} THEN 0 ELSE IF 2 \in r2.sets THEN 3 ELSE 1
  BY <1>2, LegalInstance
<1>5. ASSUME Repeats(change, r)
      PROVE  Latest(r2) = Latest(r) /\ Instance(r2) \in {Instance(r), 0}
  <2>1. Legal(r2) BY <1>5, LegalMerge DEF r2
  <2>2. r2.sets = r.sets /\ r.dels \subseteq r2.dels BY <1>1, <1>5 DEF Repeats
  <2>3. Latest(r2) = Latest(r) BY <1>3, <1>4, <2>1, <2>2
  <2>4. CASE r.sets = {} BY <1>3, <1>4, <2>1, <2>2, <2>3, <2>4
  <2>5. CASE r.sets # {} /\ 2 \in r.sets BY <1>3, <1>4, <2>1, <2>2, <2>3, <2>5
  <2>6. CASE r.sets # {} /\ 2 \notin r.sets BY <1>3, <1>4, <2>1, <2>2, <2>3, <2>6
  <2> QED BY <2>4, <2>5, <2>6
<1>6. ASSUME Announces(change, r)
      PROVE  Latest(r2) = 1 /\ Latest(r) = 1 /\ Instance(r2) = 0 /\ Instance(r) = 0
  <2>1. Legal(r2) BY <1>6, LegalMerge DEF r2
  <2>2. r.sets = {1} /\ 1 \in r.dels /\ r2.sets = {1, 3} /\ r2.dels = r.dels
    BY <1>1, <1>6 DEF Announces, Change
  <2> QED BY <1>3, <1>4, <2>1, <2>2
<1>7. ASSUME Creates(change, r)
      PROVE  Latest(r2) = 1 /\ Latest(r) = 0 /\ Instance(r2) = 1 /\ Instance(r) = 0
  <2>1. Legal(r2) BY <1>7, LegalMerge DEF r2
  <2>2. r.sets = {} /\ r2.sets = {1} /\ r2.dels = r.dels BY <1>1, <1>7 DEF Creates, Change
  <2>3. 1 \notin r2.dels /\ r2.sets # {} /\ 2 \notin r2.sets BY <1>3, <2>2
  <2> QED BY <1>3, <1>4, <2>1, <2>2, <2>3
<1>8. ASSUME Restores(change, r)
      PROVE  Latest(r2) = 3 /\ Latest(r) = 1 /\ Instance(r2) = 3 /\ Instance(r) = 0
  <2>1. Legal(r2) BY <1>8, LegalMerge DEF r2
  <2>2. r.sets = {1, 3} /\ r2.sets = {1, 2, 3} /\ r2.dels = r.dels
    BY <1>1, <1>8 DEF Restores, Change
  <2> QED BY <1>3, <1>4, <2>1, <2>2
<1> QED BY <1>5, <1>6, <1>7, <1>8 DEF r2

\* The room takes over whatever its clients send: a plain update that introduces a note, a bundle
\* for a note it has and one whose root attaches nothing do not come up.
LEMMA RoomAccepts ==
  ASSUME CountInv, RootInv, NEW c \in Clients, up[c] # << >>
  PROVE  /\ AcceptRootUpdate(c) =>
              /\ sroot' = Merge(sroot, Head(up[c]).root)
              /\ snote' = Follow(snote, sroot, sroot') /\ Broadcast(c, <<Head(up[c])>>)
              /\ Repeats(Head(up[c]).root, sroot) \/ Announces(Head(up[c]).root, sroot)
              /\ Head(up[c]).doc = {}
         /\ AcceptBundle(c) =>
              /\ sroot' = Merge(sroot, Head(up[c]).root)
              /\ snote' = [doc |-> Head(up[c]).doc, gen |-> snote.gen + 1, ready |-> TRUE]
              /\ Broadcast(c, <<RootUpdate(Head(up[c]).root),
                                NoteUpdate(snote'.gen, Head(up[c]).doc)>>)
              /\ Creates(Head(up[c]).root, sroot) \/ Restores(Head(up[c]).root, sroot)
         /\ Head(up[c]) \in Messages /\ Head(up[c]).root \in Roots
         /\ Within(Head(up[c]).root, root[c]) /\ Legal(sroot) /\ sroot \in Roots
         /\ FitsRoom(Head(up[c]), sroot)
<1> DEFINE m == Head(up[c])
<1>1. /\ sroot \in Roots /\ Legal(sroot) /\ root[c] \in Roots /\ up[c] \in Seq(Messages)
      /\ GoesUp(sroot, root[c], up[c], resync[c], conn[c])
  BY RootTypes DEF RootInv
<1>2. m \in Messages /\ m.root \in Roots BY <1>1, QueueHead
<1>3. FitsRoom(m, sroot) /\ Within(m.root, root[c]) BY <1>1, UpHead
<1>4. /\ Repeats(m.root, sroot) \/ Announces(m.root, sroot) =>
           ~(Instance(sroot) = 0 /\ Instance(Merge(sroot, m.root)) # 0)
      /\ Creates(m.root, sroot) \/ Restores(m.root, sroot) =>
           Instance(sroot) = 0 /\ Instance(Merge(sroot, m.root)) # 0
  BY <1>1, <1>2, ChangesOf
<1>5. ASSUME AcceptRootUpdate(c)
      PROVE  /\ sroot' = Merge(sroot, m.root)
             /\ snote' = Follow(snote, sroot, sroot') /\ Broadcast(c, <<m>>)
             /\ Repeats(m.root, sroot) \/ Announces(m.root, sroot)
             /\ m.doc = {}
  <2>1. m.kind = "root" BY <1>5 DEF AcceptRootUpdate
  <2>2. m.doc = {} /\ (Repeats(m.root, sroot) \/ Announces(m.root, sroot))
    BY <1>3, <2>1 DEF FitsRoom
  <2>3. SetRoot(Merge(sroot, m.root)) /\ Broadcast(c, <<m>>)
    BY <1>4, <1>5, <2>2 DEF AcceptRootUpdate
  <2> QED BY <2>2, <2>3 DEF SetRoot
<1>6. ASSUME AcceptBundle(c)
      PROVE  /\ sroot' = Merge(sroot, m.root)
             /\ snote' = [doc |-> m.doc, gen |-> snote.gen + 1, ready |-> TRUE]
             /\ Broadcast(c, <<RootUpdate(m.root), NoteUpdate(snote'.gen, m.doc)>>)
             /\ Creates(m.root, sroot) \/ Restores(m.root, sroot)
  <2>1. m.kind = "bundle" BY <1>6 DEF AcceptBundle
  <2>2. Creates(m.root, sroot) \/ Restores(m.root, sroot) BY <1>3, <2>1 DEF FitsRoom
  <2> QED BY <1>4, <1>6, <2>2 DEF AcceptBundle
<1> QED BY <1>1, <1>2, <1>3, <1>5, <1>6

\* What the room receives.
LEMMA AcceptOrdered ==
  ASSUME CountInv, CountInv', RootInv, NEW c \in Clients, Accept(c)
  PROVE  RootInv'
<1> DEFINE m == Head(up[c])
<1>1. /\ up[c] # << >> /\ Handled(c) /\ UNCHANGED <<root, resync, conn>>
  BY DEF Accept, AcceptRootUpdate, AcceptBundle, AcceptNoteUpdate, client
<1>2. m \in Messages /\ m.root \in Roots BY <1>1, RoomAccepts
<1>3. NoteUpdate(1, {}) \in Messages /\ NoteUpdate(1, {}).kind = "note"
      /\ NoteUpdate(1, {}).root = Nothing
  <2>1. 1 \in 0..3 /\ {} \in Texts BY TextsTyped
  <2> QED BY <2>1, MessagesTyped DEF NoteUpdate
<1>4. CASE AcceptRootUpdate(c)
  <2>1. /\ sroot' = Merge(sroot, m.root) /\ Broadcast(c, <<m>>) /\ m.doc = {}
        /\ m.kind = "root"
    BY <1>1, <1>4, RoomAccepts DEF AcceptRootUpdate
  <2> HIDE DEF m
  <2>2. m = Head(up[c]) BY DEF m
  <2>3. m.kind \in {"root", "bundle"} BY <2>1
  <2>4. PICK t : t = <<m>> OBVIOUS
  <2> QED BY <1>1, <1>2, <1>3, <2>1, <2>2, <2>3, <2>4, RoomLearns
<1>5. CASE AcceptBundle(c)
  <2> DEFINE x == RootUpdate(m.root)
             y == NoteUpdate(snote'.gen, m.doc)
  <2>1. /\ sroot' = Merge(sroot, m.root) /\ Broadcast(c, <<x, y>>) /\ m.kind = "bundle"
    BY <1>1, <1>5, RoomAccepts DEF AcceptBundle
  <2>2. x \in Messages /\ x.kind = "root" /\ x.doc = {} /\ x.root = m.root
    BY <1>2, MessagesTyped DEF RootUpdate
  <2>3. snote'.gen \in 0..3 /\ m.doc \in Texts
    <3>1. snote' \in Notes /\ sroot' \in Roots /\ snote'.gen <= Latest(sroot')
      BY DEF CountInv, TypeOK, GenInv, Counted
    <3>2. Latest(sroot') \in 0..3 BY <3>1, LatestIs
    <3>3. m.doc \in Texts BY <1>2 DEF Messages
    <3> QED BY <3>1, <3>2, <3>3 DEF Notes
  <2>4. y \in Messages /\ y.kind = "note" /\ y.root = Nothing
    BY <2>3, MessagesTyped DEF NoteUpdate
  <2>5. m.kind \in {"root", "bundle"} BY <2>1
  <2>6. PICK t : t = <<x, y>> OBVIOUS
  <2> HIDE DEF x, y
  <2>7. Broadcast(c, t) BY <2>1, <2>6
  <2> QED BY <1>1, <2>1, <2>2, <2>4, <2>5, <2>6, <2>7, RoomLearns
<1>6. CASE AcceptNoteUpdate(c)
  <2>1. m.kind = "note" /\ sroot' = sroot BY <1>6 DEF AcceptNoteUpdate, room
  <2>2. /\ sroot \in Roots /\ m.root = Nothing /\ FitsRoom(m, sroot)
    BY <1>1, <2>1, RoomAccepts DEF FitsRoom
  <2>3. Merge(sroot, m.root) = sroot
    <3>1. Merge(sroot, Nothing).sets = sroot.sets /\ Merge(sroot, Nothing).dels = sroot.dels
      BY DEF Merge, Nothing, Change
    <3>2. Merge(sroot, Nothing) \in Roots BY <2>2, MergeTyped, TextsTyped
    <3> QED BY <2>2, <3>1, <3>2, SameRoot
  <2>4. GoesUp(sroot, root[c], Tail(up[c]), resync[c], conn[c])
    <3>1. GoesUp(sroot, root[c], up[c], resync[c], conn[c]) BY DEF RootInv
    <3>2. GoesUp(Merge(sroot, m.root), root[c], Tail(up[c]), resync[c], conn[c])
      BY <1>1, <3>1, RootTypes, UpHead
    <3> QED BY <2>3, <3>2
  <2>5. \A d \in Clients : GoesUp(sroot, root[d], up'[d], resync[d], conn[d])
    <3>1. up'[c] = Tail(up[c]) /\ \A d \in Clients : d # c => up'[d] = up[d]
      BY <1>1, RootTypes DEF Handled
    <3> QED BY <2>4, <3>1 DEF RootInv
  <2>6. \A d \in Clients : GoesDown(sroot, root[d], down'[d], conn[d])
    <3> TAKE d \in Clients
    <3>1. GoesDown(sroot, root[d], down[d], conn[d]) BY DEF RootInv
    <3>2. CASE down'[d] = down[d] BY <3>1, <3>2
    <3>3. CASE down'[d] = down[d] \o <<m>> /\ Attached(d)
      <4> DEFINE t == <<m>>
                 e == End(root[d], down[d])
      <4> HIDE DEF m
      <4>1. t \in Seq(Messages) /\ DOMAIN t = {1} /\ t[1] = m /\ Len(t) = 1 BY <1>2
      <4>2. e \in Roots /\ Within(sroot, e)
        BY <3>1, <3>3, AheadWithin, RootTypes DEF GoesDown, Attached
      <4>3. End(e, t) = Merge(e, m.root)
        <5>1. Ahead(e, <<m>>, 1) = Merge(e, m.root) BY <1>2, <4>2, AheadFew
        <5> HIDE DEF e
        <5> QED BY <4>1, <5>1 DEF End
      <4> HIDE DEF e
      <4>4. Within(sroot, End(e, t)) BY <4>2, <4>3 DEF Within, Merge
      <4>5. \A j \in DOMAIN t : /\ Within(t[j].root, sroot) /\ t[j].kind # "bootstrap"
                                /\ FitsClient(t[j], Ahead(e, t, j - 1))
        BY <2>1, <2>2, <4>1 DEF Within, FitsClient, Nothing, Change
      <4>6. Within(sroot, sroot) BY DEF Within
      <4>7. /\ sroot \in Roots /\ root[d] \in Roots /\ down[d] \in Seq(Messages)
            /\ conn[d] \in {"connecting", "on"}
        BY <3>3, RootTypes DEF Attached
      <4> HIDE DEF t
      <4>8. GoesDown(sroot, root[d], down[d] \o t, conn[d])
        BY <3>1, <4>1, <4>4, <4>5, <4>6, <4>7, DownSend DEF e
      <4> QED BY <3>3, <4>8 DEF t
    <3> QED BY <1>6, <3>2, <3>3 DEF AcceptNoteUpdate, Broadcast
  <2>7. Known' BY <1>1, <2>1, KnownSame DEF RootInv
  <2> QED BY <1>1, <2>1, <2>5, <2>6, <2>7 DEF RootInv
<1> QED BY <1>4, <1>5, <1>6 DEF Accept

Ordered == mishaps = {} => RootInv

\* The queues are in order at the start.
LEMMA OrderedInit == Init => Ordered
<1> SUFFICES ASSUME Init PROVE RootInv
  BY DEF Ordered
<1>1. sroot \in Roots /\ Legal(sroot)
  <2>1. CASE sroot = Nothing
    BY <2>1, TextsTyped DEF Legal, Nothing, Change
  <2>2. CASE sroot = Change({1}, {})
    BY <2>2, TextsTyped DEF Legal, Change
  <2> QED BY <2>1, <2>2 DEF Init
<1>2. \A c \in Clients : /\ root[c] = Nothing /\ up[c] = << >> /\ down[c] = << >>
                         /\ conn[c] = "new"
  BY DEF Init
<1>3. Nothing \in Roots /\ Legal(Nothing) /\ Nothing.sets = {} /\ Nothing.dels = {}
  BY TextsTyped DEF Legal, Nothing, Change
<1>4. sroot.sets \subseteq {1}
  <2>1. CASE sroot = Nothing BY <1>3, <2>1
  <2>2. CASE sroot = Change({1}, {}) BY <2>2 DEF Change
  <2> QED BY <2>1, <2>2 DEF Init
<1>5. \A c \in Clients : GoesUp(sroot, root[c], up[c], resync[c], conn[c])
  <2> TAKE c \in Clients
  <2>1. GoesUp(sroot, Nothing, << >>, resync[c], "new") BY <1>1, <1>3, UpNothing
  <2> QED BY <1>2, <2>1
<1>6. \A c \in Clients : GoesDown(sroot, root[c], down[c], conn[c])
  <2> TAKE c \in Clients
  <2>1. GoesDown(sroot, Nothing, << >>, "new") BY <1>1, <1>3, DownConnects
  <2> QED BY <1>2, <2>1
<1>7. Known BY <1>2, <1>3, <1>4 DEF Known
<1> QED BY <1>1, <1>5, <1>6, <1>7 DEF RootInv

\* Mishaps are not forgotten.
LEMMA MishapsStay ==
  ASSUME TypeOK, Next, mishaps' = {}
  PROVE  mishaps = {}
BY DEF TypeOK, Next, ReopenRoom, EditNote, CreateNote, RemoveNote, UndoRemoval, ChangeRoot,
   Connect, Drop, Receive, ReceiveBootstrap, ReceiveRootUpdate, ReceiveNoteUpdate,
   Accept, AcceptRootUpdate, AcceptBundle, AcceptNoteUpdate, history

\* Every step keeps them so.
LEMMA OrderedNext ==
  ASSUME CountInv, CountInv', Ordered, [Next]_vars
  PROVE  Ordered'
<1> SUFFICES ASSUME mishaps' = {} PROVE RootInv'
  BY DEF Ordered
<1>1. CASE UNCHANGED vars
  BY <1>1 DEF Ordered, RootInv, Known, vars, client, room, network, history
<1>2. CASE Next
  <2>1. RootInv BY <1>2, MishapsStay DEF CountInv, Ordered
  <2> QED
    BY <1>2, <2>1, ReopenOrdered, EditOrdered, CreateOrdered, RemoveOrdered, UndoOrdered,
       ConnectOrdered, DropOrdered, BootstrapOrdered, ReceiveOrdered, AcceptOrdered
    DEF Next, Receive
<1> QED BY <1>1, <1>2

----------------------------------------------------------------------------
(* Generations.                                                            *)

\* How many documents the note has had, where the copy that undo makes first goes unseen.
Rank(r) == IF Latest(r) = 0 THEN 0 ELSE IF Latest(r) = 1 THEN 1 ELSE 2

\* A room that was opened again has not counted those before.
Offset == snote.gen - Rank(sroot)

\* Clients with a bootstrap count as the room does, each as far as its own root.
CountedAlike ==
  /\ Offset <= 0
  /\ \A c \in Clients :
       /\ conn[c] = "on" /\ c \notin stale => note[c].gen = Rank(root[c]) + Offset
       /\ \A i \in DOMAIN down[c] :
            down[c][i].kind = "bootstrap" => down[c][i].gen = Rank(down[c][i].root) + Offset

\* The rank only depends on what was set.
LEMMA RankIs ==
  ASSUME NEW r \in Roots
  PROVE  /\ Rank(r) \in 0..2
         /\ \A s \in Roots : s.sets = r.sets => Rank(s) = Rank(r) /\ Latest(s) = Latest(r)
         /\ Latest(r) = 0 => Rank(r) = 0
         /\ Latest(r) # 0 => Rank(r) >= 1
         /\ Instance(r) # 0 => Rank(r) >= 1
<1>1. Latest(r) \in 0..3 BY LatestIs
<1>2. \A s \in Roots : s.sets = r.sets => Latest(s) = Latest(r) BY LatestIs
<1> QED BY <1>1, <1>2 DEF Rank, Instance

\* The generations in the types.
LEMMA GenTypes ==
  ASSUME CountInv
  PROVE  /\ Offset \in Int /\ snote.gen \in Nat /\ Rank(sroot) \in 0..2
         /\ snote.gen = Rank(sroot) + Offset
         /\ \A c \in Clients : note[c].gen \in Nat /\ Rank(root[c]) \in 0..2
<1>1. snote.gen \in Nat /\ Rank(sroot) \in 0..2 BY RootTypes, RankIs DEF Notes
<1>2. ASSUME NEW c \in Clients PROVE note[c].gen \in Nat /\ Rank(root[c]) \in 0..2
  <2>1. note[c] \in Notes /\ root[c] \in Roots BY RootTypes
  <2> QED BY <2>1, RankIs DEF Notes
<1> QED BY <1>1, <1>2 DEF Offset

\* The state of a note that follows its root counts the instances that come up.
LEMMA FollowCounts ==
  ASSUME NEW n \in Notes, NEW r \in Roots, NEW change \in Roots, Legal(r),
         \/ Repeats(change, r) \/ Creates(change, r) \/ Announces(change, r) \/ Restores(change, r)
  PROVE  /\ Follow(n, r, Merge(r, change)).gen - Rank(Merge(r, change)) = n.gen - Rank(r)
         /\ Repeats(change, r) \/ Announces(change, r) =>
              Follow(n, r, Merge(r, change)).gen = n.gen /\ Rank(Merge(r, change)) = Rank(r)
<1> DEFINE r2 == Merge(r, change)
<1>1. n.gen \in 0..4 BY DEF Notes
<1>2. Instance(r2) = Instance(r) => Follow(n, r, r2).gen = n.gen BY DEF Follow, Notes
<1>3. Instance(r2) = 0 => Follow(n, r, r2).gen = n.gen
  <2>1. CASE Instance(r2) = Instance(r) BY <1>2, <2>1
  <2>2. CASE Instance(r2) # Instance(r) BY <2>2 DEF Follow
  <2> QED BY <2>1, <2>2
<1>4. Instance(r2) # 0 /\ Instance(r2) # Instance(r) => Follow(n, r, r2).gen = n.gen + 1
  BY DEF Follow
<1>5. Rank(r2) \in 0..2 /\ Rank(r) \in 0..2 BY MergeTyped, RankIs
<1>6. CASE Repeats(change, r)
  <2>1. Latest(r2) = Latest(r) /\ Instance(r2) \in {Instance(r), 0} BY <1>6, ChangesOf
  <2>2. Rank(r2) = Rank(r) BY <2>1 DEF Rank
  <2>3. Follow(n, r, r2).gen = n.gen BY <1>2, <1>3, <2>1
  <2> QED BY <1>1, <1>5, <2>2, <2>3
<1>7. CASE Announces(change, r)
  <2>1. Latest(r2) = 1 /\ Latest(r) = 1 /\ Instance(r2) = 0 BY <1>7, ChangesOf
  <2>2. Rank(r2) = Rank(r) BY <2>1 DEF Rank
  <2>3. Follow(n, r, r2).gen = n.gen BY <1>3, <2>1
  <2> QED BY <1>1, <1>5, <2>2, <2>3
<1>8. CASE (Creates(change, r) \/ Restores(change, r)) /\ ~Repeats(change, r) /\ ~Announces(change, r)
  <2>1. /\ Creates(change, r) =>
             Latest(r2) = 1 /\ Latest(r) = 0 /\ Instance(r2) = 1 /\ Instance(r) = 0
        /\ Restores(change, r) =>
             Latest(r2) = 3 /\ Latest(r) = 1 /\ Instance(r2) = 3 /\ Instance(r) = 0
    BY ChangesOf
  <2>2. Rank(r2) = Rank(r) + 1 BY <1>8, <2>1 DEF Rank
  <2>3. Instance(r2) # 0 /\ Instance(r2) # Instance(r) BY <1>8, <2>1
  <2>4. Follow(n, r, r2).gen = n.gen + 1 BY <1>4, <2>3
  <2> QED BY <1>1, <1>5, <1>8, <2>2, <2>4
<1> QED BY <1>6, <1>7, <1>8

\* A step that leaves the room as it was, and the clients but one.
LEMMA OneCounts ==
  ASSUME CountedAlike, UNCHANGED <<snote, sroot>>, NEW c \in Clients,
         \A d \in Clients : d # c =>
           /\ conn'[d] = conn[d] /\ note'[d].gen = note[d].gen /\ root'[d] = root[d]
           /\ down'[d] = down[d] /\ (d \in stale' <=> d \in stale),
         conn'[c] = "on" /\ c \notin stale' => note'[c].gen = Rank(root'[c]) + Offset,
         \A i \in DOMAIN down'[c] :
           down'[c][i].kind = "bootstrap" => down'[c][i].gen = Rank(down'[c][i].root) + Offset
  PROVE  CountedAlike'
<1>1. Offset' = Offset BY DEF Offset
<1>2. ASSUME NEW d \in Clients
      PROVE  /\ conn'[d] = "on" /\ d \notin stale' => note'[d].gen = Rank(root'[d]) + Offset
             /\ \A i \in DOMAIN down'[d] :
                  down'[d][i].kind = "bootstrap" => down'[d][i].gen = Rank(down'[d][i].root) + Offset
  BY DEF CountedAlike
<1> QED BY <1>1, <1>2 DEF CountedAlike

\* What a user does.
LEMMA UserCounts ==
  ASSUME CountInv, CountInv', RootInv, CountedAlike, NEW c \in Clients,
         EditNote(c) \/ CreateNote(c) \/ RemoveNote(c) \/ UndoRemoval(c), mishaps' = {}
  PROVE  CountedAlike'
<1>1. UNCHANGED <<snote, sroot, conn, down>>
  BY DEF EditNote, CreateNote, RemoveNote, UndoRemoval, ChangeRoot, room
<1>2. /\ \A i \in DOMAIN down[c] :
           down[c][i].kind = "bootstrap" => down[c][i].gen = Rank(down[c][i].root) + Offset
      /\ conn[c] = "on" /\ c \notin stale => note[c].gen = Rank(root[c]) + Offset
      /\ Offset \in Int /\ note[c].gen \in Nat /\ Rank(root[c]) \in 0..2
      /\ root[c] \in Roots /\ note[c] \in Notes /\ Legal(root[c])
      /\ \A d \in Clients : note[d] \in Notes
  BY GenTypes, RootTypes DEF CountedAlike, RootInv, GoesUp
<1>3. CASE EditNote(c)
  <2>1. UNCHANGED <<root, stale>> /\ note' = [note EXCEPT ![c].doc = @ \union {edits'}]
    BY <1>3 DEF EditNote, history
  <2>2. \A d \in Clients : note'[d].gen = note[d].gen BY <1>2, <2>1, RootTypes DEF Notes
  <2> QED BY <1>1, <1>2, <2>1, <2>2, OneCounts
<1>4. ASSUME NEW change, NEW newNote, NEW messages, ChangeRoot(c, change, newNote, messages)
      PROVE  /\ root'[c] = Merge(root[c], change) /\ note'[c] = newNote
             /\ \A d \in Clients : d # c => note'[d] = note[d] /\ root'[d] = root[d]
  BY <1>4, RootTypes DEF ChangeRoot
<1>5. CASE CreateNote(c)
  <2>1. /\ ChangeRoot(c, Change({1}, {}),
                      [doc |-> {Body}, gen |-> note[c].gen + 1, ready |-> TRUE],
                      <<Bundle(Change({1}, {}), {Body})>>)
        /\ stale' = stale /\ 1 \notin root[c].sets
    BY <1>5 DEF CreateNote
  <2>2. /\ root'[c] = Merge(root[c], Change({1}, {})) /\ note'[c].gen = note[c].gen + 1
        /\ \A d \in Clients : d # c => note'[d] = note[d] /\ root'[d] = root[d]
    BY <1>4, <2>1
  <2>3. Creates(Change({1}, {}), root[c]) BY <1>2, <2>1, LegalInstance DEF Creates
  <2>4. Rank(root'[c]) = Rank(root[c]) + 1
    <3>1. Latest(root'[c]) = 1 /\ Latest(root[c]) = 0 BY <1>2, <2>2, <2>3, ChangesOf, TextsTyped
    <3> QED BY <3>1 DEF Rank
  <2>5. conn'[c] = "on" /\ c \notin stale' => note'[c].gen = Rank(root'[c]) + Offset
    BY <1>1, <1>2, <2>1, <2>2, <2>4
  <2> QED BY <1>1, <1>2, <2>1, <2>2, <2>5, OneCounts
<1>6. CASE RemoveNote(c)
  <2> DEFINE change == Change({}, {Instance(root[c])})
             r      == Merge(root[c], change)
  <2>1. /\ ChangeRoot(c, change, Follow(note[c], root[c], r), <<RootUpdate(change)>>)
        /\ stale' = stale /\ Instance(root[c]) # 0
    BY <1>6 DEF RemoveNote
  <2>2. /\ root'[c] = r /\ note'[c] = Follow(note[c], root[c], r)
        /\ \A d \in Clients : d # c => note'[d] = note[d] /\ root'[d] = root[d]
    BY <1>4, <2>1
  <2>3. change \in Roots /\ r.sets = root[c].sets
    <3>1. Instance(root[c]) \in 1..3 BY <1>2, <2>1, LatestIs DEF Instance
    <3> QED BY <3>1, TextsTyped DEF Merge, Change
  <2>4. Latest(r) = Latest(root[c]) /\ Rank(r) = Rank(root[c])
    BY <1>2, <2>3, MergeTyped, RankIs
  <2>5. Instance(r) = 0
    <3>1. Instance(root[c]) \in r.dels BY DEF Merge, Change
    <3>2. Instance(root[c]) = Latest(root[c]) BY <2>1 DEF Instance
    <3> QED BY <2>4, <3>1, <3>2 DEF Instance
  <2>6. Follow(note[c], root[c], r).gen = note[c].gen BY <1>2, <2>1, <2>5 DEF Follow
  <2> HIDE DEF r, change
  <2>7. conn'[c] = "on" /\ c \notin stale' => note'[c].gen = Rank(root'[c]) + Offset
    BY <1>1, <1>2, <2>1, <2>2, <2>4, <2>6
  <2> QED BY <1>1, <1>2, <2>1, <2>2, <2>7, OneCounts
<1>7. CASE UndoRemoval(c)
  <2>1. /\ \E change, newNote, messages : ChangeRoot(c, change, newNote, messages)
        /\ stale' = stale \union {c}
    BY <1>7 DEF UndoRemoval
  <2>2. \A d \in Clients : d # c => note'[d] = note[d] /\ root'[d] = root[d] BY <1>4, <2>1
  <2> QED BY <1>1, <1>2, <2>1, <2>2, OneCounts
<1> QED BY <1>3, <1>5, <1>6, <1>7

\* Connections: a room is opened again only when no client counts with it.
LEMMA ConnectionCounts ==
  ASSUME CountInv, CountInv', RootInv, CountedAlike,
         ReopenRoom \/ \E c \in Clients : Connect(c) \/ Drop(c)
  PROVE  CountedAlike'
<1>1. ASSUME ReopenRoom PROVE CountedAlike'
  <2>1. /\ \A c \in Clients : conn'[c] # "on" /\ down'[c] = << >>
    <3>1. \A c \in Clients : conn[c] \notin {"connecting", "on"} /\ UNCHANGED <<conn, down>>
      BY <1>1 DEF ReopenRoom, Attached, network
    <3>2. \A c \in Clients : down[c] = << >> BY <3>1 DEF RootInv, GoesDown
    <3> QED BY <3>1, <3>2
  <2>2. snote' = [snote EXCEPT !.gen = IF Instance(sroot) = 0 THEN 0 ELSE 1] /\ sroot' = sroot
    BY <1>1 DEF ReopenRoom
  <2>3. Offset' <= 0
    <3>1. snote'.gen = IF Instance(sroot) = 0 THEN 0 ELSE 1 BY <2>2, RootTypes DEF Notes
    <3>2. Rank(sroot) \in 0..2 /\ (Instance(sroot) # 0 => Rank(sroot) >= 1)
      BY RootTypes, RankIs
    <3>3. Rank(sroot') = Rank(sroot) BY <2>2
    <3> QED BY <3>1, <3>2, <3>3 DEF Offset
  <2>4. \A c \in Clients : DOMAIN down'[c] = {} BY <2>1
  <2> QED BY <2>1, <2>3, <2>4 DEF CountedAlike
<1>2. ASSUME NEW c \in Clients, Connect(c) PROVE CountedAlike'
  <2>1. /\ conn' = [conn EXCEPT ![c] = "connecting"]
        /\ note' = [note EXCEPT ![c].ready = FALSE]
        /\ down' = [down EXCEPT ![c] = <<Bootstrap>>]
        /\ UNCHANGED <<root, stale, snote, sroot>>
    BY <1>2 DEF Connect, room, history
  <2>2. /\ conn'[c] = "connecting" /\ down'[c] = <<Bootstrap>>
        /\ \A d \in Clients : d # c => conn'[d] = conn[d] /\ note'[d] = note[d] /\ down'[d] = down[d]
    BY <2>1, RootTypes
  <2>3. Bootstrap.gen = Rank(Bootstrap.root) + Offset BY GenTypes DEF Bootstrap
  <2>4. \A i \in DOMAIN down'[c] : down'[c][i] = Bootstrap BY <2>2
  <2> QED BY <2>1, <2>2, <2>3, <2>4, OneCounts
<1>3. ASSUME NEW c \in Clients, Drop(c) PROVE CountedAlike'
  <2>1. /\ conn' = [conn EXCEPT ![c] = "off"] /\ down' = [down EXCEPT ![c] = << >>]
        /\ UNCHANGED <<note, root, stale, snote, sroot>>
    BY <1>3 DEF Drop, client, room
  <2>2. /\ conn'[c] = "off" /\ down'[c] = << >> /\ DOMAIN down'[c] = {}
        /\ \A d \in Clients : d # c => conn'[d] = conn[d] /\ down'[d] = down[d]
    BY <2>1, RootTypes
  <2> QED BY <2>1, <2>2, OneCounts
<1> QED BY <1>1, <1>2, <1>3

\* What is left of a queue counts like the whole.
LEMMA TailCounts ==
  ASSUME CountInv, CountedAlike, NEW c \in Clients, down[c] # << >>
  PROVE  \A i \in DOMAIN Tail(down[c]) :
           Tail(down[c])[i].kind = "bootstrap" =>
             Tail(down[c])[i].gen = Rank(Tail(down[c])[i].root) + Offset
<1>1. root[c] \in Roots /\ down[c] \in Seq(Messages) BY RootTypes
<1>2. \A i \in DOMAIN Tail(down[c]) :
        i + 1 \in DOMAIN down[c] /\ Tail(down[c])[i] = down[c][i + 1]
  BY <1>1, QueueHead
<1> QED BY <1>2 DEF CountedAlike

\* What a client receives: an update of the root that brings a note counts in both.
LEMMA ReceiveCounts ==
  ASSUME CountInv, CountInv', RootInv, CountedAlike, NEW c \in Clients,
         ReceiveRootUpdate(c) \/ ReceiveNoteUpdate(c)
  PROVE  CountedAlike'
<1> DEFINE m == Head(down[c])
<1>1. /\ down[c] # << >> /\ m.kind \in {"root", "note"}
      /\ down' = [down EXCEPT ![c] = Tail(@)]
      /\ UNCHANGED <<snote, sroot, conn, stale>>
  BY DEF ReceiveRootUpdate, ReceiveNoteUpdate, room, history
<1>2. /\ sroot \in Roots /\ root[c] \in Roots /\ note[c] \in Notes /\ down[c] \in Seq(Messages)
      /\ m.root \in Roots /\ Legal(root[c]) /\ Offset \in Int /\ note[c].gen \in Nat
      /\ Rank(root[c]) \in 0..2 /\ Rank(root'[c]) \in 0..2
      /\ note'[c].gen \in Nat
      /\ conn[c] = "on" /\ c \notin stale => note[c].gen = Rank(root[c]) + Offset
  <2>1. /\ sroot \in Roots /\ root[c] \in Roots /\ note[c] \in Notes /\ down[c] \in Seq(Messages)
        /\ Legal(root[c])
    BY RootTypes DEF RootInv, GoesUp
  <2>2. m.root \in Roots BY <1>1, <2>1, QueueHead
  <2>3. Offset \in Int /\ note[c].gen \in Nat /\ Rank(root[c]) \in 0..2 BY GenTypes
  <2>4. note'[c] \in Notes /\ root'[c] \in Roots BY DEF CountInv, TypeOK
  <2>5. note'[c].gen \in Nat /\ Rank(root'[c]) \in 0..2 BY <2>4, RankIs DEF Notes
  <2> QED BY <2>1, <2>2, <2>3, <2>5 DEF CountedAlike
<1>3. FitsClient(m, root[c])
  <2>1. GoesDown(sroot, root[c], down[c], conn[c]) BY DEF RootInv
  <2> QED BY <1>1, <1>2, <2>1, DownHead
<1>4. /\ \A d \in Clients : d # c =>
           note'[d] = note[d] /\ root'[d] = root[d] /\ down'[d] = down[d]
      /\ down'[c] = Tail(down[c])
  BY <1>1, RootTypes DEF ReceiveRootUpdate, ReceiveNoteUpdate
<1>5. note'[c].gen - Rank(root'[c]) = note[c].gen - Rank(root[c])
  <2>1. CASE ReceiveRootUpdate(c)
    <3>1. /\ root'[c] = Merge(root[c], m.root)
          /\ note'[c] = Follow(note[c], root[c], Merge(root[c], m.root))
          /\ m.kind = "root"
      BY <2>1, RootTypes DEF ReceiveRootUpdate
    <3>2. \/ Repeats(m.root, root[c]) \/ Creates(m.root, root[c])
          \/ Announces(m.root, root[c]) \/ Restores(m.root, root[c])
      BY <1>3, <3>1 DEF FitsClient
    <3> HIDE DEF m
    <3> QED BY <1>2, <3>1, <3>2, FollowCounts
  <2>2. CASE ReceiveNoteUpdate(c)
    <3>1. /\ root'[c] = root[c]
          /\ \/ note' = note
             \/ note' = [note EXCEPT ![c].doc = @ \union m.doc, ![c].ready = TRUE]
      BY <2>2 DEF ReceiveNoteUpdate
    <3>2. note'[c].gen = note[c].gen
      <4>1. CASE note' = note BY <4>1
      <4>2. CASE note' = [note EXCEPT ![c].doc = @ \union m.doc, ![c].ready = TRUE]
        BY <1>2, <4>2, RootTypes DEF Notes
      <4> QED BY <3>1, <4>1, <4>2
    <3> QED BY <3>1, <3>2
  <2> QED BY <2>1, <2>2
<1>6. conn'[c] = "on" /\ c \notin stale' => note'[c].gen = Rank(root'[c]) + Offset
  BY <1>1, <1>2, <1>5
<1>7. \A i \in DOMAIN down'[c] :
        down'[c][i].kind = "bootstrap" => down'[c][i].gen = Rank(down'[c][i].root) + Offset
  <2>1. \A i \in DOMAIN Tail(down[c]) :
          Tail(down[c])[i].kind = "bootstrap" =>
            Tail(down[c])[i].gen = Rank(Tail(down[c])[i].root) + Offset
    BY <1>1, TailCounts
  <2>2. down'[c] = Tail(down[c]) BY <1>4
  <2> QED BY <2>1, <2>2
<1> QED BY <1>1, <1>4, <1>6, <1>7, OneCounts

\* The bootstrap: the client goes on with the generation of the room.
LEMMA BootstrapCounts ==
  ASSUME CountInv, CountInv', RootInv, CountedAlike, NEW c \in Clients, ReceiveBootstrap(c)
  PROVE  CountedAlike'
<1> DEFINE m       == Head(down[c])
           r       == Merge(root[c], m.root)
           tracked == Follow(note[c], root[c], r)
           n       == Synced(tracked, m)
<1>1. /\ down[c] # << >> /\ m.kind = "bootstrap" /\ UNCHANGED <<snote, sroot>>
      /\ root' = [root EXCEPT ![c] = r]
      /\ \/ /\ conn' = [conn EXCEPT ![c] = "locked out"]
            /\ note' = [note EXCEPT ![c] = tracked]
            /\ down' = [down EXCEPT ![c] = << >>]
            /\ UNCHANGED <<resync, up, stale>>
         \/ /\ conn' = [conn EXCEPT ![c] = "on"]
            /\ note' = [note EXCEPT ![c] = n]
            /\ down' = [down EXCEPT ![c] = Tail(@)]
            /\ stale' = IF Instance(m.root) = 0 /\ m.root.sets # {}
                          THEN stale \union {c} ELSE stale \ {c}
  BY DEF ReceiveBootstrap, room
<1>2. /\ sroot \in Roots /\ root[c] \in Roots /\ note[c] \in Notes /\ down[c] \in Seq(Messages)
      /\ m.root \in Roots /\ Legal(root[c]) /\ Offset \in Int /\ r \in Roots
      /\ note[c].gen \in Nat /\ note[c].gen <= Latest(root[c]) /\ Offset <= 0
      /\ m.gen \in Nat /\ m.gen = Rank(m.root) + Offset
  <2>1. /\ sroot \in Roots /\ root[c] \in Roots /\ note[c] \in Notes /\ down[c] \in Seq(Messages)
        /\ Legal(root[c]) /\ Offset <= 0
    BY RootTypes DEF RootInv, GoesUp, CountedAlike
  <2>2. m.root \in Roots /\ m \in Messages /\ 1 \in DOMAIN down[c] /\ m = down[c][1]
    BY <1>1, <2>1, QueueHead
  <2>3. Offset \in Int /\ note[c].gen \in Nat BY GenTypes
  <2>4. note[c].gen <= Latest(root[c]) BY DEF CountInv, GenInv, Counted
  <2>5. m.gen = Rank(m.root) + Offset BY <1>1, <2>2 DEF CountedAlike
  <2>6. m.gen \in Nat BY <2>2 DEF Messages
  <2>7. r \in Roots BY <2>1, <2>2, MergeTyped
  <2> QED BY <2>1, <2>2, <2>3, <2>4, <2>5, <2>6, <2>7
<1>3. Legal(m.root) /\ root[c].sets \subseteq m.root.sets
  <2>1. GoesDown(sroot, root[c], down[c], conn[c]) BY DEF RootInv
  <2>2. FitsClient(m, root[c]) BY <1>1, <1>2, <2>1, DownHead
  <2> QED BY <1>1, <2>2 DEF FitsClient
<1>4. r.sets = m.root.sets /\ Rank(r) = Rank(m.root) /\ Latest(r) = Latest(m.root)
  <2>1. r.sets = m.root.sets BY <1>3 DEF Merge
  <2> HIDE DEF r, m
  <2> QED BY <1>2, <2>1, RankIs
<1>5. /\ \A d \in Clients : d # c =>
           /\ note'[d] = note[d] /\ root'[d] = root[d] /\ down'[d] = down[d] /\ conn'[d] = conn[d]
           /\ d \in stale' <=> d \in stale
      /\ root'[c] = r
      /\ down'[c] = << >> \/ down'[c] = Tail(down[c])
      /\ conn'[c] = "on" => note'[c] = n
      /\ conn'[c] = "on" /\ c \notin stale' => Instance(m.root) # 0 \/ m.root.sets = {}
  <2> HIDE DEF m, r, tracked, n
  <2>1. CASE conn' = [conn EXCEPT ![c] = "locked out"] /\ note' = [note EXCEPT ![c] = tracked]
              /\ down' = [down EXCEPT ![c] = << >>] /\ UNCHANGED <<resync, up, stale>>
    BY <1>1, <2>1, RootTypes
  <2>2. CASE conn' = [conn EXCEPT ![c] = "on"] /\ note' = [note EXCEPT ![c] = n]
              /\ down' = [down EXCEPT ![c] = Tail(@)]
              /\ stale' = IF Instance(m.root) = 0 /\ m.root.sets # {}
                            THEN stale \union {c} ELSE stale \ {c}
    <3>1. /\ conn'[c] = "on" /\ note'[c] = n /\ down'[c] = Tail(down[c]) /\ root'[c] = r
          /\ \A d \in Clients : d # c =>
               note'[d] = note[d] /\ root'[d] = root[d] /\ down'[d] = down[d] /\ conn'[d] = conn[d]
      BY <1>1, <2>2, RootTypes
    <3>2. \A d \in Clients : d # c => (d \in stale' <=> d \in stale) BY <2>2
    <3>3. c \notin stale' => Instance(m.root) # 0 \/ m.root.sets = {} BY <2>2
    <3> QED BY <3>1, <3>2, <3>3
  <2> QED BY <1>1, <2>1, <2>2
<1>6. conn'[c] = "on" /\ c \notin stale' => n.gen = Rank(r) + Offset
  <2> SUFFICES ASSUME conn'[c] = "on", c \notin stale' PROVE n.gen = Rank(r) + Offset
    OBVIOUS
  <2>1. CASE Instance(m.root) # 0
    <3>1. n.gen = m.gen BY <2>1 DEF Synced
    <3> HIDE DEF n, m, r
    <3> QED BY <1>2, <1>4, <3>1
  <2>2. CASE Instance(m.root) = 0 /\ m.root.sets = {}
    <3>1. n = tracked BY <2>2 DEF Synced
    <3>2. root[c].sets = {} BY <1>3, <2>2
    <3>3. Latest(m.root) = 0 /\ Latest(root[c]) = 0 /\ Latest(r) = 0
      BY <1>2, <1>3, <1>4, <2>2, <3>2, LegalInstance
    <3>4. Instance(r) = 0 /\ Instance(root[c]) = 0 BY <3>3 DEF Instance
    <3>5. tracked.gen = note[c].gen BY <1>2, <3>4 DEF Follow, Notes
    <3>6. Rank(m.root) = 0 /\ Rank(r) = 0 BY <3>3 DEF Rank
    <3> HIDE DEF n, m, r, tracked
    <3> QED BY <1>2, <3>1, <3>3, <3>5, <3>6
  <2> QED BY <1>5, <2>1, <2>2
<1>7. \A i \in DOMAIN down'[c] :
        down'[c][i].kind = "bootstrap" => down'[c][i].gen = Rank(down'[c][i].root) + Offset
  <2>1. CASE down'[c] = << >> BY <2>1
  <2>2. CASE down'[c] = Tail(down[c])
    <3>1. \A i \in DOMAIN Tail(down[c]) :
            Tail(down[c])[i].kind = "bootstrap" =>
              Tail(down[c])[i].gen = Rank(Tail(down[c])[i].root) + Offset
      BY <1>1, TailCounts
    <3> QED BY <2>2, <3>1
  <2> QED BY <1>5, <2>1, <2>2
<1> HIDE DEF m, r, n, tracked
<1>8. conn'[c] = "on" /\ c \notin stale' => note'[c].gen = Rank(root'[c]) + Offset
  BY <1>5, <1>6
<1> QED BY <1>1, <1>5, <1>7, <1>8, OneCounts

\* What the room receives: it counts a bundle, and is as far ahead as before.
LEMMA AcceptOffset ==
  ASSUME CountInv, CountInv', RootInv, NEW c \in Clients, Accept(c)
  PROVE  Offset' = Offset
<1> DEFINE m == Head(up[c])
<1>1. /\ up[c] # << >> /\ UNCHANGED <<root, conn, stale, note>>
  BY DEF Accept, AcceptRootUpdate, AcceptBundle, AcceptNoteUpdate, client, history
<1>2. /\ snote \in Notes /\ snote.gen \in Nat /\ Offset \in Int /\ Rank(sroot) \in 0..2
      /\ m.root \in Roots /\ Legal(sroot) /\ sroot \in Roots
      /\ snote'.gen \in Nat /\ Rank(sroot') \in 0..2
  <2>1. snote' \in Notes /\ sroot' \in Roots BY DEF CountInv, TypeOK
  <2>2. snote'.gen \in Nat /\ Rank(sroot') \in 0..2 BY <2>1, RankIs DEF Notes
  <2>3. m.root \in Roots /\ Legal(sroot) /\ sroot \in Roots BY <1>1, RoomAccepts
  <2> QED BY <2>2, <2>3, GenTypes, RootTypes
<1>3. snote'.gen - Rank(sroot') = snote.gen - Rank(sroot)
  <2>1. CASE AcceptRootUpdate(c)
    <3>1. /\ sroot' = Merge(sroot, m.root) /\ snote' = Follow(snote, sroot, sroot')
          /\ Repeats(m.root, sroot) \/ Announces(m.root, sroot)
      BY <1>1, <2>1, RoomAccepts
    <3> HIDE DEF m
    <3> QED BY <1>2, <3>1, FollowCounts
  <2>2. CASE AcceptBundle(c)
    <3>1. /\ sroot' = Merge(sroot, m.root)
          /\ snote' = [doc |-> m.doc, gen |-> snote.gen + 1, ready |-> TRUE]
          /\ Creates(m.root, sroot) \/ Restores(m.root, sroot)
      BY <1>1, <2>2, RoomAccepts
    <3> HIDE DEF m
    <3>2. \/ Latest(sroot') = 1 /\ Latest(sroot) = 0
          \/ Latest(sroot') = 3 /\ Latest(sroot) = 1
      BY <1>2, <3>1, ChangesOf
    <3>3. Rank(sroot') = Rank(sroot) + 1 BY <3>2 DEF Rank
    <3>4. snote'.gen = snote.gen + 1 BY <3>1
    <3> QED BY <1>2, <3>3, <3>4
  <2>3. CASE AcceptNoteUpdate(c)
    <3>1. /\ sroot' = sroot
          /\ \/ snote' = snote
             \/ snote' = [snote EXCEPT !.doc = @ \union m.doc, !.ready = TRUE]
      BY <2>3 DEF AcceptNoteUpdate, room
    <3>2. snote'.gen = snote.gen BY <1>2, <3>1 DEF Notes
    <3> QED BY <3>1, <3>2
  <2> QED BY <2>1, <2>2, <2>3 DEF Accept
<1> QED BY <1>3 DEF Offset

\* And so all count as before.
LEMMA AcceptCounts ==
  ASSUME CountInv, CountInv', RootInv, CountedAlike, NEW c \in Clients, Accept(c)
  PROVE  CountedAlike'
<1> DEFINE m == Head(up[c])
<1>1. /\ up[c] # << >> /\ UNCHANGED <<root, conn, stale, note>>
  BY DEF Accept, AcceptRootUpdate, AcceptBundle, AcceptNoteUpdate, client, history
<1>2. m.root \in Roots BY <1>1, RoomAccepts
<1>4. Offset' = Offset BY AcceptOffset
<1>5. ASSUME NEW d \in Clients, NEW i \in DOMAIN down'[d], down'[d][i].kind = "bootstrap"
      PROVE  i \in DOMAIN down[d] /\ down'[d][i] = down[d][i]
  <2>1. conn'[d] = conn[d] /\ GoesDown(sroot', root'[d], down'[d], conn'[d])
    <3>1. RootInv' BY AcceptOrdered
    <3> QED BY <1>1, <3>1 DEF RootInv
  <2>2. i = 1 /\ conn[d] = "connecting" BY <1>5, <2>1 DEF GoesDown
  <2>3. down[d] # << >> /\ down[d] \in Seq(Messages)
    <3>1. GoesDown(sroot, root[d], down[d], conn[d]) BY DEF RootInv
    <3> QED BY <2>2, <3>1, RootTypes DEF GoesDown
  <2>4. \/ down'[d] = down[d]
        \/ \E x \in Messages, y \in Messages : \E t \in {<<x>>, <<x, y>>} : down'[d] = down[d] \o t
    <3>1. m \in Messages BY <1>1, RoomAccepts
    <3>2. CASE AcceptRootUpdate(c)
      <4>1. Broadcast(c, <<m>>) BY <1>1, <3>2, RoomAccepts
      <4> QED BY <3>1, <4>1 DEF Broadcast
    <3>3. CASE AcceptBundle(c)
      <4>1. Broadcast(c, <<RootUpdate(m.root), NoteUpdate(snote'.gen, m.doc)>>)
        BY <1>1, <3>3, RoomAccepts
      <4>2. snote'.gen \in 0..3 /\ m.doc \in Texts
        <5>1. snote' \in Notes /\ sroot' \in Roots /\ snote'.gen <= Latest(sroot')
          BY DEF CountInv, TypeOK, GenInv, Counted
        <5>2. Latest(sroot') \in 0..3 BY <5>1, LatestIs
        <5>3. m.doc \in Texts BY <3>1 DEF Messages
        <5> QED BY <5>1, <5>2, <5>3 DEF Notes
      <4>3. RootUpdate(m.root) \in Messages /\ NoteUpdate(snote'.gen, m.doc) \in Messages
        BY <1>2, <4>2, MessagesTyped
      <4> HIDE DEF m
      <4> QED BY <4>1, <4>3 DEF Broadcast
    <3>4. CASE AcceptNoteUpdate(c)
      <4>1. UNCHANGED down \/ Broadcast(c, <<m>>) BY <3>4 DEF AcceptNoteUpdate
      <4> QED BY <3>1, <4>1 DEF Broadcast
    <3> QED BY <3>2, <3>3, <3>4 DEF Accept
  <2>5. \A x \in Messages, y \in Messages : \A t \in {<<x>>, <<x, y>>} :
          1 \in DOMAIN down[d] /\ (down[d] \o t)[1] = down[d][1]
    BY <2>3
  <2> QED BY <2>2, <2>3, <2>4, <2>5
<1>6. ASSUME NEW d \in Clients
      PROVE  /\ conn'[d] = "on" /\ d \notin stale' => note'[d].gen = Rank(root'[d]) + Offset
             /\ \A i \in DOMAIN down'[d] :
                  down'[d][i].kind = "bootstrap" => down'[d][i].gen = Rank(down'[d][i].root) + Offset
  <2>1. conn'[d] = "on" /\ d \notin stale' => note'[d].gen = Rank(root'[d]) + Offset
    BY <1>1 DEF CountedAlike
  <2>2. \A i \in DOMAIN down'[d] :
          down'[d][i].kind = "bootstrap" => down'[d][i].gen = Rank(down'[d][i].root) + Offset
    BY <1>5 DEF CountedAlike
  <2> QED BY <2>1, <2>2
<1> QED BY <1>4, <1>6 DEF CountedAlike

\* The sides count alike at the start.
LEMMA CountedInit == Init => CountedAlike
<1> SUFFICES ASSUME Init PROVE CountedAlike
  OBVIOUS
<1>1. \A c \in Clients : conn[c] = "new" /\ down[c] = << >> BY DEF Init
<1>2. Latest(Nothing) = 0 /\ Latest(Change({1}, {})) = 1
  BY LatestIs, TextsTyped DEF Nothing, Change
<1>3. Offset = 0
  <2>1. CASE sroot = Nothing /\ snote = [doc |-> {}, gen |-> 0, ready |-> FALSE]
    BY <1>2, <2>1 DEF Offset, Rank
  <2>2. CASE sroot = Change({1}, {}) /\ snote = [doc |-> {Body}, gen |-> 1, ready |-> TRUE]
    BY <1>2, <2>2 DEF Offset, Rank
  <2> QED BY <2>1, <2>2 DEF Init
<1>4. DOMAIN << >> = {} OBVIOUS
<1> QED BY <1>1, <1>3, <1>4 DEF CountedAlike

Alike == mishaps = {} => CountedAlike

\* Every step keeps the sides counting alike.
LEMMA AlikeNext ==
  ASSUME CountInv, CountInv', Ordered, Alike, [Next]_vars
  PROVE  Alike'
<1> SUFFICES ASSUME mishaps' = {} PROVE CountedAlike'
  BY DEF Alike
<1>1. CASE UNCHANGED vars
  BY <1>1 DEF Alike, CountedAlike, Offset, vars, client, room, network, history
<1>2. CASE Next
  <2>1. RootInv /\ CountedAlike BY <1>2, MishapsStay DEF CountInv, Ordered, Alike
  <2> QED
    BY <1>2, <2>1, UserCounts, ConnectionCounts, BootstrapCounts, ReceiveCounts, AcceptCounts
    DEF Next, Receive
<1> QED BY <1>1, <1>2

\* At rest everything the client knows is in the room, and the other way round.
LEMMA RootsAgree ==
  ASSUME CountInv, RootInv, NEW c \in Clients, AtRest(c)
  PROVE  root[c] = sroot
<1>1. /\ conn[c] = "on" /\ down[c] = << >> /\ up[c] = << >>
      /\ root[c] \in Roots /\ sroot \in Roots
  BY RootTypes DEF AtRest
<1>2. GoesUp(sroot, root[c], up[c], resync[c], "on") /\ GoesDown(sroot, root[c], down[c], "on")
  BY <1>1 DEF RootInv
<1>3. End(sroot, << >>) = sroot /\ End(root[c], << >>) = root[c] BY <1>1, AheadNone DEF End
<1>4. root[c].sets \subseteq sroot.sets /\ root[c].dels \subseteq sroot.dels
  BY <1>1, <1>2, <1>3 DEF GoesUp
<1>5. sroot.sets \subseteq root[c].sets /\ sroot.dels \subseteq root[c].dels
  BY <1>1, <1>2, <1>3 DEF GoesDown, Within
<1>6. root[c].sets = sroot.sets /\ root[c].dels = sroot.dels BY <1>4, <1>5
<1> QED BY <1>1, <1>6, SameRoot

\* GenerationsAgree: however clients connect, lose their connections, create, remove and restore
\* the note, those at rest number its documents as the room does, so that neither side drops what
\* the other sends.
THEOREM SidesCountAlike == Spec => []GenerationsAgree
<1>1. Init => CountInv /\ Ordered /\ Alike BY TypeInit, OrderedInit, CountedInit DEF Alike
<1>2. CountInv /\ Ordered /\ Alike /\ [Next]_vars => (CountInv /\ Ordered /\ Alike)'
  BY CountNext, OrderedNext, AlikeNext
<1>3. CountInv /\ Ordered /\ Alike => GenerationsAgree
  <2> SUFFICES ASSUME CountInv, RootInv, CountedAlike, NEW c \in Clients,
                      AtRest(c), c \notin stale
               PROVE  note[c].gen = snote.gen
    BY DEF Ordered, Alike, GenerationsAgree
  <2>1. root[c] = sroot BY RootsAgree
  <2>2. note[c].gen = Rank(root[c]) + Offset BY DEF CountedAlike, AtRest
  <2> QED BY <2>1, <2>2, GenTypes
<1> QED BY <1>1, <1>2, <1>3, PTL DEF Spec

----------------------------------------------------------------------------
(* Generations and texts under way.                                        *)

\* The room: a note that is there has been counted, one that is not has no text.
RoomHolds ==
  /\ Instance(sroot) # 0 => snote.gen >= 1
  /\ Instance(sroot) = 0 => snote.doc = {}

\* A client c with root r and the note n, and what it is to flush.  The one that has undone a
\* removal counts one more than anybody else will, until it connects again.
Holds(c, s, r, n, old, pending, state, late) ==
  /\ Instance(r) # 0 \/ old # {} => n.gen >= 1
  /\ 2 \in r.sets /\ 2 \notin s.sets => n.gen = 3
  /\ n.gen = 3 => c \in late
  /\ Instance(r) = 0 => n.doc = {}
  /\ "note" \in pending /\ state # "locked out" => Instance(r) # 0
  /\ state = "on" => "note" \notin pending /\ (n.doc # {} => n.ready)

\* A text on its way to the room is of no generation that its sender has not reached, and comes
\* after the root that attaches the note.
GensUp(s, q, gen) ==
  \A i \in DOMAIN q :
    q[i].kind = "note" => q[i].gen <= gen /\ 1 \in Ahead(s, q, i - 1).sets

\* One on its way to a client is of the generation that the client will be at by then.
GensDown(r, q, state, gen, sgen, offset) ==
  \A i \in DOMAIN q :
    /\ q[i].kind = "bootstrap" /\ Instance(q[i].root) # 0 => q[i].gen >= 1
    /\ q[i].kind = "note" =>
         /\ q[i].gen >= 1 /\ q[i].gen <= sgen
         /\ (state = "on" /\ gen = 3) \/ q[i].gen = Rank(Ahead(r, q, i - 1)) + offset

ClientGens(c) ==
  /\ Holds(c, sroot, root[c], note[c], kept[c], resync[c], conn[c], stale)
  /\ GensUp(sroot, up[c], note[c].gen)
  /\ GensDown(root[c], down[c], conn[c], note[c].gen, snote.gen, Offset)

Gens == RoomHolds /\ \A c \in Clients : ClientGens(c)

\* A step of a client: nobody else is concerned.
Alone(c) ==
  /\ UNCHANGED <<sroot, snote>> /\ lost \subseteq lost'
  /\ \A d \in Clients : d # c =>
       /\ conn'[d] = conn[d] /\ root'[d] = root[d] /\ note'[d] = note[d]
       /\ resync'[d] = resync[d] /\ kept'[d] = kept[d]
       /\ up'[d] = up[d] /\ down'[d] = down[d] /\ (d \in stale' <=> d \in stale)

\* The steps of clients are such.
LEMMA ClientSteps ==
  ASSUME CountInv, NEW c \in Clients,
         \/ EditNote(c) \/ CreateNote(c) \/ RemoveNote(c) \/ UndoRemoval(c)
         \/ Connect(c) \/ Drop(c) \/ Receive(c)
  PROVE  Alone(c)
<1>1. /\ DOMAIN root = Clients /\ DOMAIN note = Clients /\ DOMAIN up = Clients
      /\ DOMAIN down = Clients /\ DOMAIN resync = Clients /\ DOMAIN conn = Clients
      /\ DOMAIN kept = Clients
  BY RootTypes DEF CountInv, TypeOK
<1>2. CASE EditNote(c)
  <2>1. UNCHANGED <<root, kept, sroot, snote, conn, down, lost, stale>>
    BY <1>2 DEF EditNote, room, history
  <2>2. \A d \in Clients : d # c => note'[d] = note[d] BY <1>1, <1>2 DEF EditNote
  <2>3. \A d \in Clients : d # c => resync'[d] = resync[d] /\ up'[d] = up[d]
    BY <1>1, <1>2 DEF EditNote, Emit
  <2> QED BY <2>1, <2>2, <2>3 DEF Alone
<1>3. CASE CreateNote(c) \/ RemoveNote(c) \/ UndoRemoval(c)
  <2>1. \E change, newNote, messages : ChangeRoot(c, change, newNote, messages)
    BY <1>3 DEF CreateNote, RemoveNote, UndoRemoval
  <2>2. /\ UNCHANGED <<sroot, snote, conn, down, lost>>
        /\ \A d \in Clients : d # c =>
             /\ root'[d] = root[d] /\ note'[d] = note[d] /\ resync'[d] = resync[d]
             /\ up'[d] = up[d]
    BY <1>1, <2>1 DEF ChangeRoot, Emit, room
  <2>3. \A d \in Clients : d # c => kept'[d] = kept[d] /\ (d \in stale' <=> d \in stale)
    BY <1>1, <1>3 DEF CreateNote, RemoveNote, UndoRemoval
  <2> QED BY <2>2, <2>3 DEF Alone
<1>4. CASE Connect(c) \/ Drop(c)
  <2>1. UNCHANGED <<sroot, snote, root, resync, kept, stale>> /\ lost \subseteq lost'
    BY <1>4 DEF Connect, Drop, room, history, client
  <2>2. \A d \in Clients : d # c =>
          conn'[d] = conn[d] /\ note'[d] = note[d] /\ up'[d] = up[d] /\ down'[d] = down[d]
    BY <1>1, <1>4 DEF Connect, Drop, client
  <2> QED BY <2>1, <2>2 DEF Alone
<1>5. CASE ReceiveBootstrap(c)
  <2>1. UNCHANGED <<sroot, snote, kept, lost>> BY <1>5 DEF ReceiveBootstrap, room
  <2>2. \A d \in Clients : d # c =>
          root'[d] = root[d] /\ conn'[d] = conn[d] /\ note'[d] = note[d] /\ down'[d] = down[d]
    BY <1>1, <1>5 DEF ReceiveBootstrap
  <2>3. \A d \in Clients : d # c => resync'[d] = resync[d] /\ up'[d] = up[d]
    BY <1>1, <1>5 DEF ReceiveBootstrap, FlushUnsynced, Emit
  <2>4. \A d \in Clients : d # c => (d \in stale' <=> d \in stale) BY <1>5 DEF ReceiveBootstrap
  <2> QED BY <2>1, <2>2, <2>3, <2>4 DEF Alone
<1>6. CASE ReceiveRootUpdate(c) \/ ReceiveNoteUpdate(c)
  <2>1. UNCHANGED <<sroot, snote, resync, kept, conn, up, lost, stale>>
    BY <1>6 DEF ReceiveRootUpdate, ReceiveNoteUpdate, room, history
  <2>2. \A d \in Clients : d # c =>
          root'[d] = root[d] /\ note'[d] = note[d] /\ down'[d] = down[d]
    BY <1>1, <1>6 DEF ReceiveRootUpdate, ReceiveNoteUpdate
  <2> QED BY <2>1, <2>2 DEF Alone
<1> QED BY <1>2, <1>3, <1>4, <1>5, <1>6 DEF Receive

\* So nothing changes in what the others count.
LEMMA OthersCount ==
  ASSUME Gens, NEW c \in Clients, Alone(c), ClientGens(c)'
  PROVE  Gens'
<1>1. UNCHANGED <<sroot, snote>> /\ Offset' = Offset BY DEF Alone, Offset
<1>2. RoomHolds' BY <1>1 DEF Gens, RoomHolds
<1>3. ASSUME NEW d \in Clients, d # c PROVE ClientGens(d)'
  <2>1. /\ conn'[d] = conn[d] /\ root'[d] = root[d] /\ note'[d] = note[d]
        /\ resync'[d] = resync[d] /\ kept'[d] = kept[d]
        /\ up'[d] = up[d] /\ down'[d] = down[d] /\ (d \in stale' <=> d \in stale)
    BY <1>3 DEF Alone
  <2>2. ClientGens(d) BY DEF Gens
  <2>3. Holds(d, sroot', root'[d], note'[d], kept'[d], resync'[d], conn'[d], stale')
    BY <1>1, <2>1, <2>2 DEF ClientGens, Holds
  <2> QED BY <1>1, <2>1, <2>2, <2>3 DEF ClientGens
<1> QED BY <1>2, <1>3 DEF Gens

\* What is sent to the room comes after what was sent before.
LEMMA GensSend ==
  ASSUME NEW s \in Roots, NEW q \in Seq(Messages), NEW t \in Seq(Messages),
         NEW gen \in Nat, NEW gen2 \in Nat, gen <= gen2, GensUp(s, q, gen),
         \A j \in DOMAIN t :
           t[j].kind = "note" => t[j].gen <= gen2 /\ 1 \in Ahead(End(s, q), t, j - 1).sets
  PROVE  GensUp(s, q \o t, gen2)
<1>1. End(s, q) \in Roots /\ Len(q) \in Nat /\ DOMAIN q = 1..Len(q) /\ DOMAIN t = 1..Len(t)
      /\ Len(t) \in Nat
  BY AheadWithin
<1>2. ASSUME NEW i \in DOMAIN (q \o t), (q \o t)[i].kind = "note"
      PROVE  (q \o t)[i].gen <= gen2 /\ 1 \in Ahead(s, q \o t, i - 1).sets
  <2>1. CASE i \in DOMAIN q
    <3>1. (q \o t)[i] = q[i] /\ Ahead(s, q \o t, i - 1) = Ahead(s, q, i - 1)
      BY <1>1, <2>1, AheadAppend
    <3>2. q[i].gen <= gen /\ 1 \in Ahead(s, q, i - 1).sets BY <1>2, <2>1, <3>1 DEF GensUp
    <3>3. q[i] \in Messages BY <2>1
    <3>4. q[i].gen \in Nat BY <3>3 DEF Messages
    <3> QED BY <3>1, <3>2, <3>4
  <2>2. CASE i \notin DOMAIN q
    <3>1. PICK j \in DOMAIN t : i = Len(q) + j BY <2>2, AheadAppend
    <3>2. (q \o t)[i] = t[j] BY <3>1, AheadAppend
    <3>3. j - 1 \in 0..Len(t) /\ i - 1 = Len(q) + (j - 1) BY <1>1, <3>1
    <3>4. Ahead(s, q \o t, i - 1) = Ahead(End(s, q), t, j - 1) BY <3>3, AheadAppend DEF End
    <3> QED BY <1>2, <3>2, <3>4
  <2> QED BY <2>1, <2>2
<1> QED BY <1>2 DEF GensUp

\* What is under way to a client that has introduced nothing, or waits for its next bootstrap.
LEMMA GensListen ==
  ASSUME NEW r \in Roots, NEW q \in Seq(Messages), NEW state, NEW gen, NEW sgen, NEW offset,
         GensDown(r, q, state, gen, sgen, offset),
         NEW change \in Roots, NEW state2, NEW gen2,
         \/ change.sets \subseteq r.sets /\ (state = "on" /\ gen = 3 => state2 = "on" /\ gen2 = 3)
         \/ state2 = "on" /\ gen2 = 3
  PROVE  GensDown(Merge(r, change), q, state2, gen2, sgen, offset)
<1>1. ASSUME NEW i \in DOMAIN q, change.sets \subseteq r.sets
      PROVE  Rank(Ahead(Merge(r, change), q, i - 1)) = Rank(Ahead(r, q, i - 1))
  <2> DEFINE a == Ahead(r, q, i - 1)
  <2>1. a \in Roots /\ r.sets \subseteq a.sets BY AheadTyped
  <2>2. Ahead(Merge(r, change), q, i - 1) = Merge(a, change) BY AheadMore
  <2> HIDE DEF a
  <2>3. Merge(a, change) \in Roots BY <2>1, MergeTyped
  <2>4. Merge(a, change).sets = a.sets BY <1>1, <2>1 DEF Merge
  <2>5. Rank(Merge(a, change)) = Rank(a) BY <2>1, <2>3, <2>4, RankIs
  <2> QED BY <2>2, <2>5 DEF a
<1> QED BY <1>1 DEF GensDown

\* An edit of a client that holds the note, sent at once or to be flushed.
LEMMA EditGens ==
  ASSUME CountInv, RootInv, Gens, NEW c \in Clients, EditNote(c)
  PROVE  Gens'
<1>1. Alone(c) BY ClientSteps
<1>2. /\ sroot \in Roots /\ root[c] \in Roots /\ note[c] \in Notes /\ up[c] \in Seq(Messages)
      /\ Legal(root[c]) /\ note[c].gen \in 0..4 /\ ClientGens(c)
      /\ UNCHANGED <<root, kept, sroot, snote, conn, down, stale>>
      /\ note[c].doc # {}
  BY RootTypes DEF RootInv, GoesUp, Gens, EditNote, room, history, Notes
<1>3. /\ note'[c].gen = note[c].gen /\ note'[c].doc = note[c].doc \union {edits'}
      /\ note'[c].ready = note[c].ready
  <2>1. note' = [note EXCEPT ![c].doc = @ \union {edits'}] BY DEF EditNote
  <2>2. note'[c] = [note[c] EXCEPT !.doc = @ \union {edits'}] BY <2>1, RootTypes
  <2> QED BY <1>2, <2>2 DEF Notes
<1>4. Holds(c, sroot, root[c], note[c], kept[c], resync[c], conn[c], stale)
      /\ GensUp(sroot, up[c], note[c].gen)
      /\ GensDown(root[c], down[c], conn[c], note[c].gen, snote.gen, Offset)
  BY <1>2 DEF ClientGens
<1>5. Instance(root[c]) # 0 /\ 1 \in root[c].sets
  <2>1. Instance(root[c]) # 0 BY <1>2, <1>4 DEF Holds
  <2> QED BY <1>2, <2>1, LegalInstance
<1>6. GensDown(root'[c], down'[c], conn'[c], note'[c].gen, snote'.gen, Offset')
  BY <1>2, <1>3, <1>4 DEF Offset
<1>7. CASE conn[c] = "on" /\ note[c].ready
  <2> DEFINE m == NoteUpdate(note[c].gen, {edits'})
  <2>1. up'[c] = up[c] \o <<m>> /\ resync' = resync
    BY <1>7, RootTypes DEF EditNote, Emit
  <2>2. m \in Messages /\ m.gen = note[c].gen
    <3>1. {edits'} \in Texts
      <4>1. edits \in 0..MaxEdits /\ edits < MaxEdits /\ edits' = edits + 1
        BY DEF EditNote, CountInv, TypeOK
      <4>2. edits' \in 0..MaxEdits BY <4>1, BoundsAssumption
      <4> QED BY <4>2 DEF Texts
    <3> QED BY <1>2, <3>1 DEF NoteUpdate, Messages, Nothing, Change, Roots
  <2>3. 1 \in Ahead(End(sroot, up[c]), <<m>>, 0).sets
    <3>1. GoesUp(sroot, root[c], up[c], resync[c], conn[c]) BY DEF RootInv
    <3>2. 1 \in End(sroot, up[c]).sets /\ End(sroot, up[c]) \in Roots
      BY <1>2, <1>5, <3>1, AheadWithin DEF GoesUp
    <3> HIDE DEF m
    <3> QED BY <3>2, AheadNone
  <2> HIDE DEF m
  <2>4. DOMAIN <<m>> = {1} /\ <<m>>[1] = m /\ 1 - 1 = 0 /\ <<m>> \in Seq(Messages) BY <2>2
  <2>5. GensUp(sroot, up[c] \o <<m>>, note[c].gen)
    <3>1. \A j \in DOMAIN <<m>> :
            <<m>>[j].gen <= note[c].gen /\ 1 \in Ahead(End(sroot, up[c]), <<m>>, j - 1).sets
      BY <1>2, <2>2, <2>3, <2>4
    <3>2. note[c].gen \in Nat /\ note[c].gen <= note[c].gen BY <1>2
    <3> QED BY <1>2, <1>4, <2>4, <3>1, <3>2, GensSend
  <2>6. Holds(c, sroot', root'[c], note'[c], kept'[c], resync'[c], conn'[c], stale')
    BY <1>2, <1>3, <1>4, <1>5, <1>7, <2>1 DEF Holds
  <2>7. ClientGens(c)' BY <1>2, <1>3, <1>6, <2>1, <2>5, <2>6 DEF ClientGens
  <2> QED BY <1>1, <2>7, OthersCount
<1>8. CASE ~(conn[c] = "on" /\ note[c].ready)
  <2>1. up' = up /\ resync'[c] = resync[c] \union {"note"}
    BY <1>8, RootTypes DEF EditNote
  <2>2. conn[c] # "on" BY <1>2, <1>4, <1>8 DEF Holds
  <2>3. Holds(c, sroot', root'[c], note'[c], kept'[c], resync'[c], conn'[c], stale')
    BY <1>2, <1>3, <1>4, <1>5, <2>1, <2>2 DEF Holds
  <2>4. ClientGens(c)' BY <1>2, <1>3, <1>4, <1>6, <2>1, <2>3 DEF ClientGens
  <2> QED BY <1>1, <2>4, OthersCount
<1> QED BY <1>7, <1>8

\* Messages that are no texts do not count.
LEMMA GensSendRoot ==
  ASSUME NEW s \in Roots, NEW q \in Seq(Messages), NEW t \in Seq(Messages),
         NEW gen \in Nat, NEW gen2 \in Nat, gen <= gen2, GensUp(s, q, gen),
         \A j \in DOMAIN t : t[j].kind # "note"
  PROVE  GensUp(s, q \o t, gen2) /\ GensUp(s, q, gen2)
<1>1. GensUp(s, q \o t, gen2) BY GensSend
<1>2. ASSUME NEW i \in DOMAIN q, q[i].kind = "note"
      PROVE  q[i].gen <= gen2 /\ 1 \in Ahead(s, q, i - 1).sets
  <2>1. q[i] \in Messages BY <1>2
  <2>2. q[i].gen \in Nat BY <2>1 DEF Messages
  <2>3. q[i].gen <= gen /\ 1 \in Ahead(s, q, i - 1).sets BY <1>2 DEF GensUp
  <2> QED BY <2>2, <2>3
<1> QED BY <1>1, <1>2 DEF GensUp

\* A note that is removed is not counted anew.
LEMMA RemoveGens ==
  ASSUME CountInv, RootInv, Gens, NEW c \in Clients, RemoveNote(c)
  PROVE  Gens'
<1> DEFINE change == Change({}, {Instance(root[c])})
           r      == Merge(root[c], change)
           m      == RootUpdate(change)
<1>1. Alone(c) BY ClientSteps
<1>2. /\ sroot \in Roots /\ root[c] \in Roots /\ note[c] \in Notes /\ up[c] \in Seq(Messages)
      /\ Legal(root[c]) /\ note[c].gen \in Nat /\ ClientGens(c) /\ down[c] \in Seq(Messages)
      /\ UNCHANGED <<sroot, snote, conn, down, stale>> /\ Instance(root[c]) # 0
  BY RootTypes DEF RootInv, GoesUp, Gens, RemoveNote, ChangeRoot, room, Notes
<1>3. Holds(c, sroot, root[c], note[c], kept[c], resync[c], conn[c], stale)
      /\ GensUp(sroot, up[c], note[c].gen)
      /\ GensDown(root[c], down[c], conn[c], note[c].gen, snote.gen, Offset)
  BY <1>2 DEF ClientGens
<1>4. change \in Roots /\ m \in Messages /\ change.sets = {} /\ m.kind = "root" /\ r \in Roots
  <2>1. Instance(root[c]) \in 1..3 BY <1>2, RootGrows
  <2>2. change \in Roots /\ change.sets = {} BY <2>1, TextsTyped DEF Change
  <2>3. m \in Messages /\ m.kind = "root" BY <2>2, MessagesTyped DEF RootUpdate
  <2> HIDE DEF change
  <2> QED BY <1>2, <2>2, <2>3, MergeTyped
<1>5. r.sets = root[c].sets /\ Instance(r) = 0
  <2>1. r.sets = root[c].sets /\ Instance(root[c]) \in r.dels BY DEF Merge, Change
  <2> HIDE DEF r, change, m
  <2>2. Latest(r) = Latest(root[c]) BY <1>2, <1>4, <2>1, RankIs
  <2>3. Latest(root[c]) = Instance(root[c]) BY <1>2 DEF Instance
  <2> QED BY <2>1, <2>2, <2>3 DEF Instance
<1>6. /\ root'[c] = r /\ note'[c] = Follow(note[c], root[c], r) /\ kept'[c] = note[c].doc
      /\ "note" \notin resync'[c]
      /\ up'[c] = up[c] \/ up'[c] = up[c] \o <<m>>
  <2>1. /\ root'[c] = r /\ note'[c] = Follow(note[c], root[c], r)
        /\ "note" \notin resync'[c] /\ (up'[c] = up[c] \/ up'[c] = up[c] \o <<m>>)
    BY RootTypes DEF RemoveNote, ChangeRoot, Emit
  <2>2. kept'[c] = note[c].doc BY DEF RemoveNote, CountInv, TypeOK
  <2> QED BY <2>1, <2>2
<1>7. note'[c].gen = note[c].gen /\ note'[c].doc = {}
  BY <1>2, <1>5, <1>6 DEF Follow
<1> HIDE DEF change, r, m
<1>8. Holds(c, sroot', root'[c], note'[c], kept'[c], resync'[c], conn'[c], stale')
  BY <1>2, <1>3, <1>5, <1>6, <1>7 DEF Holds
<1>9. GensUp(sroot', up'[c], note'[c].gen)
  <2>1. <<m>> \in Seq(Messages) /\ \A j \in DOMAIN <<m>> : <<m>>[j].kind # "note" BY <1>4
  <2>2. GensUp(sroot, up[c] \o <<m>>, note[c].gen)
    <3>1. note[c].gen \in Nat /\ note[c].gen <= note[c].gen BY <1>2
    <3> QED BY <1>2, <1>3, <2>1, <3>1, GensSendRoot
  <2> QED BY <1>2, <1>3, <1>6, <1>7, <2>2
<1>10. GensDown(root'[c], down'[c], conn'[c], note'[c].gen, snote'.gen, Offset')
  <2>1. change.sets \subseteq root[c].sets BY <1>4
  <2>2. GensDown(r, down[c], conn[c], note[c].gen, snote.gen, Offset)
    BY <1>2, <1>3, <1>4, <2>1, GensListen DEF r
  <2> QED BY <1>2, <1>6, <1>7, <2>2 DEF Offset
<1>11. ClientGens(c)' BY <1>8, <1>9, <1>10 DEF ClientGens
<1> QED BY <1>1, <1>11, OthersCount

\* The first note is the first generation, and nobody has sent a text of it yet.
LEMMA CreateGens ==
  ASSUME CountInv, RootInv, CountedAlike, Gens, NEW c \in Clients, CreateNote(c), mishaps' = {}
  PROVE  Gens'
<1> DEFINE change == Change({1}, {})
           r      == Merge(root[c], change)
           m      == Bundle(change, {Body})
<1>1. Alone(c) BY ClientSteps
<1>2. /\ sroot \in Roots /\ root[c] \in Roots /\ note[c] \in Notes /\ up[c] \in Seq(Messages)
      /\ Legal(root[c]) /\ Legal(sroot) /\ note[c].gen \in Nat /\ ClientGens(c)
      /\ down[c] \in Seq(Messages) /\ UNCHANGED <<sroot, snote, conn, down, stale, kept>>
      /\ 1 \notin sroot.sets /\ 1 \notin root[c].sets
  <2>1. /\ sroot \in Roots /\ root[c] \in Roots /\ note[c] \in Notes /\ up[c] \in Seq(Messages)
        /\ Legal(root[c]) /\ Legal(sroot) /\ note[c].gen \in Nat /\ ClientGens(c)
        /\ down[c] \in Seq(Messages)
    BY RootTypes DEF RootInv, GoesUp, Gens, Notes
  <2>2. UNCHANGED <<sroot, snote, conn, down, stale, kept>>
    BY DEF CreateNote, ChangeRoot, room
  <2>3. 1 \notin sroot.sets /\ 1 \notin root[c].sets BY DEF CreateNote
  <2> QED BY <2>1, <2>2, <2>3
<1>3. Holds(c, sroot, root[c], note[c], kept[c], resync[c], conn[c], stale)
      /\ GensUp(sroot, up[c], note[c].gen)
      /\ GensDown(root[c], down[c], conn[c], note[c].gen, snote.gen, Offset)
  BY <1>2 DEF ClientGens
<1>4. conn[c] = "on"
  BY DEF CreateNote
<1>5. change \in Roots /\ m \in Messages /\ change.sets = {1} /\ m.kind = "bundle" /\ r \in Roots
  <2>1. change \in Roots /\ change.sets = {1} BY TextsTyped DEF Change
  <2>2. m \in Messages /\ m.kind = "bundle" BY <2>1, TextsTyped, MessagesTyped DEF Bundle
  <2> HIDE DEF change
  <2> QED BY <1>2, <2>1, <2>2, MergeTyped
<1>6. /\ root[c].sets = {} /\ root[c].dels = {} /\ sroot.sets = {} /\ note[c].gen = 0
      /\ r.sets = {1} /\ Instance(r) = 1
  <2>1. root[c].sets = {} /\ root[c].dels = {} /\ sroot.sets = {} BY <1>2, LegalInstance
  <2>2. note[c].gen <= Latest(root[c]) /\ Latest(root[c]) = 0
    BY <1>2, <2>1, LatestIs DEF CountInv, GenInv, Counted
  <2>3. r.sets = {1} /\ r.dels = {} BY <2>1 DEF Merge, Change
  <2> HIDE DEF r, m, change
  <2>4. Latest(r) = 1 BY <1>5, <2>3, LatestIs
  <2> QED BY <1>2, <2>1, <2>2, <2>3, <2>4 DEF Instance
<1>7. /\ root'[c] = r /\ note'[c] = [doc |-> {Body}, gen |-> note[c].gen + 1, ready |-> TRUE]
      /\ resync'[c] = {} /\ up'[c] = up[c] \o <<m>>
  BY <1>4, RootTypes DEF CreateNote, ChangeRoot, Emit
<1>8. note'[c].gen = 1 /\ note'[c].ready BY <1>6, <1>7
<1> HIDE DEF change, r, m
<1>9. Holds(c, sroot', root'[c], note'[c], kept'[c], resync'[c], conn'[c], stale')
  BY <1>6, <1>7, <1>8 DEF Holds
<1>10. GensUp(sroot', up'[c], note'[c].gen)
  <2>1. <<m>> \in Seq(Messages) /\ \A j \in DOMAIN <<m>> : <<m>>[j].kind # "note" BY <1>5
  <2>2. GensUp(sroot, up[c] \o <<m>>, 1)
    <3>1. 1 \in Nat /\ note[c].gen \in Nat /\ note[c].gen <= 1 BY <1>6
    <3> QED BY <1>2, <1>3, <2>1, <3>1, GensSendRoot
  <2> QED BY <1>2, <1>7, <1>8, <2>2
<1>11. ASSUME NEW i \in DOMAIN down[c] PROVE down[c][i].kind # "note"
  <2>1. GoesDown(sroot, root[c], down[c], conn[c]) BY DEF RootInv
  <2>2. i - 1 \in 0..Len(down[c]) /\ \A j \in DOMAIN down[c] : Within(down[c][j].root, sroot)
    BY <1>2, <2>1, AheadWithin DEF GoesDown
  <2> DEFINE a == Ahead(root[c], down[c], i - 1)
  <2>3. a \in Roots /\ a.sets \subseteq (root[c].sets \union sroot.sets)
    BY <1>2, <2>2, AheadWithin
  <2>4. a.sets = {} BY <1>6, <2>3
  <2>5. Latest(a) = 0 BY <2>3, <2>4, LatestIs
  <2>6. Rank(a) = 0 BY <2>5 DEF Rank
  <2> HIDE DEF a
  <2>7. down[c][i].kind = "note" => down[c][i].gen >= 1 /\ down[c][i].gen = Rank(a) + Offset
    BY <1>3, <1>6 DEF GensDown, a
  <2>8. Offset <= 0 /\ Offset \in Int BY GenTypes DEF CountedAlike
  <2> QED BY <2>6, <2>7, <2>8
<1>12. GensDown(root'[c], down'[c], conn'[c], note'[c].gen, snote'.gen, Offset')
  BY <1>2, <1>3, <1>11 DEF GensDown
<1>13. ClientGens(c)' BY <1>9, <1>10, <1>12 DEF ClientGens
<1> QED BY <1>1, <1>13, OthersCount

\* Who undoes a removal counts to three.
LEMMA UndoGens ==
  ASSUME CountInv, RootInv, CountedAlike, Gens, NEW c \in Clients, UndoRemoval(c), mishaps' = {}
  PROVE  Gens'
<1> DEFINE change == Change({2, 3}, {})
           r      == Merge(root[c], change)
           x      == RootUpdate(Change({3}, {}))
           y      == Bundle(Change({2}, {}), kept[c])
<1>1. Alone(c) BY ClientSteps
<1>2. /\ sroot \in Roots /\ root[c] \in Roots /\ note[c] \in Notes /\ up[c] \in Seq(Messages)
      /\ Legal(root[c]) /\ note[c].gen \in Nat /\ ClientGens(c) /\ kept[c] \in Texts
      /\ down[c] \in Seq(Messages) /\ UNCHANGED <<sroot, snote, conn, down, kept>>
      /\ kept[c] # {} /\ 2 \notin root[c].sets
  <2>1. /\ sroot \in Roots /\ root[c] \in Roots /\ note[c] \in Notes /\ up[c] \in Seq(Messages)
        /\ Legal(root[c]) /\ note[c].gen \in Nat /\ ClientGens(c) /\ kept[c] \in Texts
        /\ down[c] \in Seq(Messages)
    BY RootTypes DEF RootInv, GoesUp, Gens, Notes
  <2>2. UNCHANGED <<sroot, snote, conn, down, kept>>
    BY DEF UndoRemoval, ChangeRoot, room
  <2>3. kept[c] # {} /\ 2 \notin root[c].sets BY DEF UndoRemoval
  <2> QED BY <2>1, <2>2, <2>3
<1>3. Holds(c, sroot, root[c], note[c], kept[c], resync[c], conn[c], stale)
      /\ GensUp(sroot, up[c], note[c].gen)
      /\ GensDown(root[c], down[c], conn[c], note[c].gen, snote.gen, Offset)
  BY <1>2 DEF ClientGens
<1>4. conn[c] = "on" BY DEF UndoRemoval
<1>5. change \in Roots /\ change.sets = {2, 3} /\ r \in Roots /\ <<x, y>> \in Seq(Messages)
      /\ \A j \in DOMAIN <<x, y>> : <<x, y>>[j].kind # "note"
  <2>1. change \in Roots /\ change.sets = {2, 3} BY TextsTyped DEF Change
  <2>2. x \in Messages /\ y \in Messages BY <1>2, TextsTyped, MessagesTyped
  <2>3. x.kind = "root" /\ y.kind = "bundle" BY DEF RootUpdate, Bundle
  <2> HIDE DEF change, x, y
  <2> QED BY <1>2, <2>1, <2>2, <2>3, MergeTyped
<1>6. note[c].gen = 1 /\ 1 \in root[c].sets /\ 3 \notin root[c].dels
  <2>1. note[c].gen >= 1 BY <1>2, <1>3 DEF Holds
  <2>2. note[c].gen <= Latest(root[c]) BY DEF CountInv, GenInv, Counted
  <2>3. Latest(root[c]) \in {0, 1} /\ (Latest(root[c]) = 1 => 1 \in root[c].sets)
    BY <1>2, LatestIs
  <2> QED BY <1>2, <2>1, <2>2, <2>3, LegalInstance
<1>7. r.sets = {1, 2, 3} /\ Instance(r) = 3
  <2>1. root[c].sets \subseteq 1..3 BY <1>2 DEF Roots, Instances
  <2>2. r.sets = root[c].sets \union {2, 3} /\ r.dels = root[c].dels BY DEF Merge, Change
  <2>3. r.sets = {1, 2, 3} BY <1>6, <2>1, <2>2
  <2> HIDE DEF r, change, x, y
  <2>4. Latest(r) = 3 BY <1>5, <2>3, LatestIs
  <2> QED BY <1>6, <2>2, <2>3, <2>4 DEF Instance
<1>8. /\ root'[c] = r /\ note'[c] = [doc |-> kept[c], gen |-> note[c].gen + 2, ready |-> TRUE]
      /\ resync'[c] = {} /\ up'[c] = up[c] \o <<x, y>> /\ c \in stale'
  BY <1>4, RootTypes DEF UndoRemoval, ChangeRoot, Emit
<1>9. note'[c].gen = 3 /\ note'[c].ready BY <1>6, <1>8
<1> HIDE DEF change, r, x, y
<1>10. Holds(c, sroot', root'[c], note'[c], kept'[c], resync'[c], conn'[c], stale')
  BY <1>7, <1>8, <1>9 DEF Holds
<1>11. GensUp(sroot', up'[c], note'[c].gen)
  <2>1. GensUp(sroot, up[c] \o <<x, y>>, 3)
    <3>1. 3 \in Nat /\ note[c].gen \in Nat /\ note[c].gen <= 3 BY <1>6
    <3> QED BY <1>2, <1>3, <1>5, <3>1, GensSendRoot
  <2> QED BY <1>2, <1>8, <1>9, <2>1
<1>12. GensDown(root'[c], down'[c], conn'[c], note'[c].gen, snote'.gen, Offset')
  <2>1. GensDown(r, down[c], conn[c], 3, snote.gen, Offset)
    BY <1>2, <1>3, <1>4, <1>5, GensListen DEF r
  <2> QED BY <1>2, <1>8, <1>9, <2>1 DEF Offset
<1>13. ClientGens(c)' BY <1>10, <1>11, <1>12 DEF ClientGens
<1> QED BY <1>1, <1>13, OthersCount

\* A new connection, and one that is gone.
LEMMA ConnectionGens ==
  ASSUME CountInv, RootInv, Gens, NEW c \in Clients, Connect(c) \/ Drop(c)
  PROVE  Gens'
<1>1. Alone(c) BY ClientSteps
<1>2. /\ sroot \in Roots /\ root[c] \in Roots /\ note[c] \in Notes /\ up[c] \in Seq(Messages)
      /\ ClientGens(c) /\ Offset' = Offset
      /\ UNCHANGED <<root, resync, kept, sroot, snote, stale>>
  <2>1. UNCHANGED <<root, resync, kept, sroot, snote, stale>>
    BY DEF Connect, Drop, room, history, client
  <2> QED BY <2>1, RootTypes DEF Gens, Offset
<1>3. Holds(c, sroot, root[c], note[c], kept[c], resync[c], conn[c], stale)
      /\ GensUp(sroot, up[c], note[c].gen)
      /\ GensDown(root[c], down[c], conn[c], note[c].gen, snote.gen, Offset)
  BY <1>2 DEF ClientGens
<1>4. CASE Connect(c)
  <2>1. /\ conn[c] \in {"new", "off"} /\ conn'[c] = "connecting" /\ up' = up
        /\ down'[c] = <<Bootstrap>>
    BY <1>4, RootTypes DEF Connect
  <2>2. note'[c].gen = note[c].gen /\ note'[c].doc = note[c].doc
    <3>1. note' = [note EXCEPT ![c].ready = FALSE] BY <1>4 DEF Connect
    <3>2. note'[c] = [note[c] EXCEPT !.ready = FALSE] BY <3>1, RootTypes
    <3> QED BY <1>2, <3>2 DEF Notes
  <2>3. Holds(c, sroot', root'[c], note'[c], kept'[c], resync'[c], conn'[c], stale')
    BY <1>2, <1>3, <2>1, <2>2 DEF Holds
  <2>4. GensDown(root'[c], down'[c], conn'[c], note'[c].gen, snote'.gen, Offset')
    <3> DEFINE b == Bootstrap
    <3>1. b.kind = "bootstrap" /\ (Instance(b.root) # 0 => b.gen >= 1)
      BY DEF Bootstrap, Gens, RoomHolds
    <3> HIDE DEF b
    <3>2. DOMAIN <<b>> = {1} /\ <<b>>[1] = b OBVIOUS
    <3>3. GensDown(root'[c], <<b>>, conn'[c], note'[c].gen, snote'.gen, Offset')
      BY <3>1, <3>2 DEF GensDown
    <3> QED BY <2>1, <3>3 DEF b
  <2>5. ClientGens(c)' BY <1>2, <1>3, <2>1, <2>2, <2>3, <2>4 DEF ClientGens
  <2> QED BY <1>1, <2>5, OthersCount
<1>5. CASE Drop(c)
  <2>1. /\ conn[c] \in {"connecting", "on"} /\ conn'[c] = "off" /\ note' = note
        /\ up'[c] = << >> /\ down'[c] = << >>
    BY <1>5, RootTypes DEF Drop, Attached, client
  <2>2. Holds(c, sroot', root'[c], note'[c], kept'[c], resync'[c], conn'[c], stale')
    BY <1>2, <1>3, <2>1 DEF Holds
  <2>3. DOMAIN << >> = {} OBVIOUS
  <2>4. ClientGens(c)' BY <2>1, <2>2, <2>3 DEF ClientGens, GensUp, GensDown
  <2> QED BY <1>1, <2>4, OthersCount
<1> QED BY <1>4, <1>5

\* Nothing is under way when a room is opened again.
LEMMA ReopenGens ==
  ASSUME CountInv, RootInv, Gens, ReopenRoom
  PROVE  Gens'
<1>1. /\ UNCHANGED <<conn, root, note, resync, kept, up, down, sroot, stale>>
      /\ \A c \in Clients : conn[c] \notin {"connecting", "on"}
  BY DEF ReopenRoom, client, network, history, Attached
<1>2. RoomHolds'
  <2>1. snote' = [snote EXCEPT !.gen = IF Instance(sroot) = 0 THEN 0 ELSE 1] BY DEF ReopenRoom
  <2>2. snote'.doc = snote.doc /\ (Instance(sroot) # 0 => snote'.gen = 1)
    BY <2>1, RootTypes DEF Notes
  <2> QED BY <1>1, <2>2 DEF Gens, RoomHolds
<1>3. ASSUME NEW c \in Clients PROVE ClientGens(c)'
  <2>1. up[c] = << >> /\ down[c] = << >>
    <3>1. GoesUp(sroot, root[c], up[c], resync[c], conn[c])
          /\ GoesDown(sroot, root[c], down[c], conn[c])
      BY DEF RootInv
    <3> QED BY <1>1, <3>1 DEF GoesUp, GoesDown
  <2>2. DOMAIN << >> = {} OBVIOUS
  <2>3. Holds(c, sroot, root[c], note[c], kept[c], resync[c], conn[c], stale)
    BY DEF Gens, ClientGens
  <2> QED BY <1>1, <2>1, <2>2, <2>3 DEF ClientGens, GensUp, GensDown
<1> QED BY <1>2, <1>3 DEF Gens

\* What is left of a queue is as far from its receiver as before.
LEMMA GensTail ==
  ASSUME NEW r \in Roots, NEW q \in Seq(Messages), q # << >>,
         NEW state, NEW gen, NEW sgen, NEW offset, GensDown(r, q, state, gen, sgen, offset),
         NEW state2, NEW gen2, state = "on" /\ gen = 3 => state2 = "on" /\ gen2 = 3
  PROVE  /\ GensDown(Merge(r, Head(q).root), Tail(q), state2, gen2, sgen, offset)
         /\ Head(q).kind = "bootstrap" /\ Instance(Head(q).root) # 0 => Head(q).gen >= 1
         /\ Head(q).kind = "note" =>
              /\ Head(q).gen >= 1 /\ Head(q).gen <= sgen
              /\ (state = "on" /\ gen = 3) \/ Head(q).gen = Rank(r) + offset
<1> DEFINE r2 == Merge(r, Head(q).root)
<1>1. /\ 1 \in DOMAIN q /\ q[1] = Head(q) /\ 1 - 1 = 0 /\ Ahead(r, q, 0) = r
      /\ \A i \in DOMAIN Tail(q) :
           /\ i + 1 \in DOMAIN q /\ Tail(q)[i] = q[i + 1] /\ (i + 1) - 1 = i
           /\ Ahead(r2, Tail(q), i - 1) = Ahead(r, q, i)
  BY QueueHead
<1> HIDE DEF r2
<1>2. GensDown(r2, Tail(q), state2, gen2, sgen, offset)
  <2>1. ASSUME NEW i \in DOMAIN Tail(q)
        PROVE  LET m == Tail(q)[i] IN
               /\ m.kind = "bootstrap" /\ Instance(m.root) # 0 => m.gen >= 1
               /\ m.kind = "note" =>
                    /\ m.gen >= 1 /\ m.gen <= sgen
                    /\ (state2 = "on" /\ gen2 = 3) \/ m.gen = Rank(Ahead(r2, Tail(q), i - 1)) + offset
    <3> DEFINE k == i + 1
    <3>1. k \in DOMAIN q /\ Tail(q)[i] = q[k] /\ Ahead(r2, Tail(q), i - 1) = Ahead(r, q, k - 1)
      BY <1>1
    <3> HIDE DEF k
    <3> QED BY <3>1 DEF GensDown
  <2> QED BY <2>1 DEF GensDown
<1> QED BY <1>1, <1>2 DEF GensDown, r2

\* What the client receives, when it has its bootstrap.
LEMMA ReceiveGens ==
  ASSUME CountInv, CountInv', RootInv, Gens, NEW c \in Clients,
         ReceiveRootUpdate(c) \/ ReceiveNoteUpdate(c)
  PROVE  Gens'
<1> DEFINE m == Head(down[c])
           r == Merge(root[c], m.root)
<1>1. Alone(c) BY ClientSteps DEF Receive
<1>2. /\ sroot \in Roots /\ root[c] \in Roots /\ note[c] \in Notes /\ up[c] \in Seq(Messages)
      /\ down[c] \in Seq(Messages) /\ Legal(root[c]) /\ note[c].gen \in Nat
      /\ ClientGens(c) /\ Offset' = Offset
      /\ UNCHANGED <<sroot, snote, resync, kept, conn, up, stale>>
      /\ down[c] # << >> /\ m.kind \in {"root", "note"} /\ down'[c] = Tail(down[c])
  <2>1. UNCHANGED <<sroot, snote, resync, kept, conn, up, stale>>
    BY DEF ReceiveRootUpdate, ReceiveNoteUpdate, room, history
  <2>2. down[c] # << >> /\ m.kind \in {"root", "note"} /\ down'[c] = Tail(down[c])
    BY RootTypes DEF ReceiveRootUpdate, ReceiveNoteUpdate
  <2>3. note[c] \in Notes /\ Legal(root[c]) /\ ClientGens(c)
    BY RootTypes DEF RootInv, GoesUp, Gens
  <2>4. note[c].gen \in Nat BY <2>3 DEF Notes
  <2> HIDE DEF m
  <2> QED BY <2>1, <2>2, <2>3, <2>4, RootTypes DEF Offset
<1>3. Holds(c, sroot, root[c], note[c], kept[c], resync[c], conn[c], stale)
      /\ GensUp(sroot, up[c], note[c].gen)
      /\ GensDown(root[c], down[c], conn[c], note[c].gen, snote.gen, Offset)
  BY <1>2 DEF ClientGens
<1>4. FitsClient(m, root[c]) /\ Within(m.root, sroot) /\ conn[c] = "on" /\ m.root \in Roots
  <2>1. GoesDown(sroot, root[c], down[c], conn[c]) BY DEF RootInv
  <2>2. m.root \in Roots BY <1>2, QueueHead
  <2>3. /\ FitsClient(m, root[c]) /\ Within(m.root, sroot) /\ conn[c] \in {"connecting", "on"}
        /\ m.kind = "bootstrap" <=> conn[c] = "connecting"
    BY <1>2, <2>1, DownHead
  <2> QED BY <1>2, <2>2, <2>3
<1>5. /\ root'[c] = r /\ note'[c] \in Notes /\ note'[c].gen \in Nat /\ note'[c].gen <= 3
      /\ note[c].gen <= note'[c].gen
      /\ note'[c].gen = 3 => note[c].gen = 3
      /\ Instance(r) # 0 => note'[c].gen >= 1
      /\ Instance(r) = 0 => note'[c].doc = {}
      /\ note'[c].doc # {} => note'[c].ready
  <2>1. note'[c] \in Notes /\ root'[c] \in Roots /\ note'[c].gen <= Latest(root'[c])
    BY DEF CountInv, TypeOK, GenInv, Counted
  <2>2. note'[c].gen \in Nat /\ note'[c].gen <= 3
    <3>1. Latest(root'[c]) \in 0..3 BY <2>1, LatestIs
    <3>2. note'[c].gen \in Nat BY <2>1 DEF Notes
    <3> QED BY <2>1, <3>1, <3>2
  <2>3. CASE ReceiveRootUpdate(c)
    <3>1. root'[c] = r /\ note'[c] = Follow(note[c], root[c], r) /\ m.kind = "root"
      BY <2>3, RootTypes DEF ReceiveRootUpdate
    <3>2. \/ Repeats(m.root, root[c]) \/ Creates(m.root, root[c])
          \/ Announces(m.root, root[c]) \/ Restores(m.root, root[c])
      BY <1>4, <3>1 DEF FitsClient
    <3>3. note'[c].gen - Rank(r) = note[c].gen - Rank(root[c])
      BY <1>2, <1>4, <3>1, <3>2, FollowCounts
    <3>4. /\ Rank(r) \in 0..2 /\ Rank(root[c]) \in 0..2 /\ note[c].gen <= Latest(root[c])
          /\ Latest(root[c]) \in {0, 1, 3}
      <4>1. r \in Roots BY <1>2, <1>4, MergeTyped
      <4> HIDE DEF r
      <4>2. Latest(root[c]) \in {0, 1, 3} BY <1>2, LegalInstance
      <4> QED BY <1>2, <4>1, <4>2, RankIs DEF CountInv, GenInv, Counted
    <3> HIDE DEF r, m
    <3>5. note'[c].gen = 3 => note[c].gen = 3
      <4>1. CASE Latest(root[c]) = 3
        <5>1. Rank(root[c]) = 2 BY <4>1 DEF Rank
        <5> QED BY <1>2, <2>2, <3>3, <3>4, <4>1, <5>1
      <4>2. CASE Latest(root[c]) # 3
        <5>1. Rank(root[c]) = Latest(root[c]) BY <3>4, <4>2 DEF Rank
        <5> QED BY <1>2, <2>2, <3>3, <3>4, <5>1
      <4> QED BY <4>1, <4>2
    <3>6. CASE Instance(r) = Instance(root[c])
      <4>1. note'[c] = [note[c] EXCEPT !.ready = @ \/ note[c].doc # {}]
        BY <3>1, <3>6 DEF Follow
      <4>2. note'[c].doc = note[c].doc /\ note'[c].gen = note[c].gen BY <1>2, <4>1 DEF Notes
      <4>3. note'[c].doc # {} => note'[c].ready
        <5>1. note'[c].ready = (note[c].ready \/ note[c].doc # {}) BY <1>2, <4>1 DEF Notes
        <5> QED BY <4>2, <5>1
      <4>4. Instance(r) # 0 => note'[c].gen >= 1 BY <1>3, <3>6, <4>2 DEF Holds
      <4>5. Instance(r) = 0 => note'[c].doc = {} BY <1>3, <3>6, <4>2 DEF Holds
      <4> QED BY <1>2, <2>1, <2>2, <3>1, <3>5, <4>2, <4>3, <4>4, <4>5
    <3>7. CASE Instance(r) # Instance(root[c])
      <4>1. note'[c] = [doc |-> {}, ready |-> FALSE,
                        gen |-> IF Instance(r) = 0 THEN note[c].gen ELSE note[c].gen + 1]
        BY <3>1, <3>7 DEF Follow
      <4>2. note'[c].doc = {} /\ note'[c].gen = IF Instance(r) = 0 THEN note[c].gen
                                                 ELSE note[c].gen + 1
        BY <4>1
      <4> QED BY <1>2, <2>1, <2>2, <3>1, <3>5, <4>2
    <3> QED BY <3>6, <3>7
  <2>4. CASE ReceiveNoteUpdate(c)
    <3>1. /\ root' = root /\ m.kind = "note"
          /\ note' = IF Instance(root[c]) = 0 \/ m.gen # note[c].gen THEN note
                     ELSE [note EXCEPT ![c].doc = @ \union m.doc, ![c].ready = TRUE]
      BY <2>4 DEF ReceiveNoteUpdate
    <3>2. r = root[c]
      <4>1. m.root = Nothing BY <1>4, <3>1 DEF FitsClient
      <4>2. r.sets = root[c].sets /\ r.dels = root[c].dels BY <4>1 DEF Merge, Nothing, Change
      <4>3. r \in Roots BY <1>2, <1>4, MergeTyped
      <4> HIDE DEF r, m
      <4> QED BY <1>2, <4>2, <4>3, SameRoot
    <3> HIDE DEF r, m
    <3>3. CASE note' = note
      <4>1. note[c].doc # {} => note[c].ready BY <1>3, <1>4 DEF Holds
      <4>2. /\ Instance(root[c]) # 0 => note[c].gen >= 1
            /\ Instance(root[c]) = 0 => note[c].doc = {}
        BY <1>3 DEF Holds
      <4>3. note'[c] = note[c] /\ root'[c] = r /\ note[c].gen <= note'[c].gen
        <5>1. note'[c] = note[c] BY <3>3
        <5>2. root'[c] = r BY <3>1, <3>2
        <5>3. note[c].gen <= note'[c].gen BY <1>2, <5>1
        <5> QED BY <5>1, <5>2, <5>3
      <4>4. note'[c].doc # {} => note'[c].ready BY <4>1, <4>3
      <4> QED BY <2>1, <2>2, <3>2, <4>2, <4>3, <4>4
    <3>4. CASE note' # note
      <4>1. /\ note' = [note EXCEPT ![c].doc = @ \union m.doc, ![c].ready = TRUE]
            /\ Instance(root[c]) # 0
        BY <3>1, <3>4
      <4>2. note'[c] = [note[c] EXCEPT !.doc = @ \union m.doc, !.ready = TRUE]
        BY <4>1, RootTypes
      <4>3. note'[c].gen = note[c].gen /\ note'[c].ready = TRUE BY <1>2, <4>2 DEF Notes
      <4>4. note[c].gen >= 1 BY <1>3, <4>1 DEF Holds
      <4>5. note'[c].ready BY <4>3
      <4> QED BY <1>2, <2>1, <2>2, <3>1, <3>2, <4>1, <4>3, <4>4, <4>5
    <3> QED BY <3>3, <3>4
  <2> QED BY <2>3, <2>4
<1>6. 2 \in r.sets /\ 2 \notin sroot.sets => 2 \in root[c].sets BY <1>4 DEF Merge, Within
<1>7. GensDown(r, Tail(down[c]), conn[c], note'[c].gen, snote.gen, Offset)
  <2>1. conn[c] = "on" /\ note[c].gen = 3 => conn[c] = "on" /\ note'[c].gen = 3
    BY <1>2, <1>5
  <2> QED BY <1>2, <1>3, <2>1, GensTail
<1>8. GensUp(sroot, up[c], note'[c].gen)
  <2>1. << >> \in Seq(Messages) /\ DOMAIN << >> = {} OBVIOUS
  <2> HIDE DEF r, m
  <2> QED BY <1>2, <1>3, <1>5, <2>1, GensSendRoot
<1> HIDE DEF r, m
<1>9. Holds(c, sroot', root'[c], note'[c], kept'[c], resync'[c], conn'[c], stale')
  <2>1. Instance(r) # 0 \/ kept[c] # {} => note'[c].gen >= 1
    <3>1. kept[c] # {} => note[c].gen >= 1 BY <1>3 DEF Holds
    <3> QED BY <1>2, <1>5, <3>1
  <2>2. 2 \in r.sets /\ 2 \notin sroot.sets => note'[c].gen = 3
    <3>1. 2 \in r.sets /\ 2 \notin sroot.sets => note[c].gen = 3 BY <1>3, <1>6 DEF Holds
    <3> QED BY <1>2, <1>5, <3>1
  <2>3. note'[c].gen = 3 => c \in stale BY <1>3, <1>5 DEF Holds
  <2>4. "note" \notin resync[c] BY <1>3, <1>4 DEF Holds
  <2> QED BY <1>2, <1>5, <2>1, <2>2, <2>3, <2>4 DEF Holds
<1>10. ClientGens(c)' BY <1>2, <1>5, <1>7, <1>8, <1>9 DEF ClientGens
<1> QED BY <1>1, <1>10, OthersCount

\* The bootstrap, the root with it, and what becomes of the note.
Boot(c)    == Head(down[c])
Joined(c)  == Merge(root[c], Boot(c).root)
Tracked(c) == Follow(note[c], root[c], Joined(c))
Became(c)  == Synced(Tracked(c), Boot(c))

\* Two messages, one after the other.
LEMMA Joins ==
  ASSUME NEW x \in Messages, NEW y \in Messages
  PROVE  /\ <<x>> \o <<y>> = <<x, y>> /\ << >> \o (<<x>> \o <<y>>) = <<x, y>>
         /\ << >> \o (<<x>> \o << >>) = <<x>>
<1> DEFINE s == <<x>> \o <<y>>
<1>1. s \in Seq(Messages) /\ Len(s) = 2 /\ s[1] = x /\ s[2] = y OBVIOUS
<1>2. <<x, y>> \in Seq(Messages) /\ Len(<<x, y>>) = 2 /\ <<x, y>>[1] = x /\ <<x, y>>[2] = y
  OBVIOUS
<1> HIDE DEF s
<1>3. \A i \in 1..2 : s[i] = <<x, y>>[i] BY <1>1, <1>2
<1>4. s = <<x, y>> BY <1>1, <1>2, <1>3
<1>5. << >> \o s = s BY <1>1
<1>6. << >> \o (<<x>> \o << >>) = <<x>> OBVIOUS
<1> QED BY <1>4, <1>5, <1>6 DEF s

\* What a bootstrap does, and what it finds.
LEMMA BootstrapDoes ==
  ASSUME CountInv, CountInv', RootInv, CountedAlike, Gens, NEW c \in Clients, ReceiveBootstrap(c)
  PROVE  /\ conn[c] = "connecting" /\ up[c] = << >> /\ down[c] # << >> /\ Boot(c).kind = "bootstrap"
         /\ Boot(c) \in Messages /\ Boot(c).root \in Roots /\ Joined(c) \in Roots /\ root'[c] = Joined(c)
         /\ Legal(Boot(c).root) /\ Legal(Joined(c)) /\ Within(Boot(c).root, sroot)
         /\ Joined(c).sets = Boot(c).root.sets /\ Latest(Joined(c)) = Latest(Boot(c).root)
         /\ Instance(Boot(c).root) = 0 => Instance(Joined(c)) = 0
         /\ Instance(Boot(c).root) # 0 => Boot(c).gen >= 1
         /\ Boot(c).gen \in 0..2
         /\ \/ /\ conn'[c] = "locked out" /\ note'[c] = Tracked(c)
               /\ down'[c] = << >> /\ up'[c] = << >> /\ resync'[c] = resync[c]
               /\ stale' = stale /\ Instance(Joined(c)) = 0
            \/ /\ conn'[c] = "on" /\ note'[c] = Became(c) /\ down'[c] = Tail(down[c]) /\ resync'[c] = {}
               /\ Instance(Boot(c).root) # 0 => Instance(Joined(c)) # 0
               /\ stale' = IF Instance(Boot(c).root) = 0 /\ Boot(c).root.sets # {}
                             THEN stale \union {c} ELSE stale \ {c}
               /\ RootUpdate(Joined(c)) \in Messages /\ NoteUpdate(Became(c).gen, Became(c).doc) \in Messages
               /\ IF "note" \in resync[c] /\ Instance(Joined(c)) = Instance(root[c])
                    THEN \/ up'[c] = <<NoteUpdate(Became(c).gen, Became(c).doc)>>
                         \/ up'[c] = <<RootUpdate(Joined(c)), NoteUpdate(Became(c).gen, Became(c).doc)>>
                    ELSE up'[c] = << >> \/ up'[c] = <<RootUpdate(Joined(c))>>
<1> DEFINE m == Boot(c)
           r == Joined(c)
           n == Became(c)
<1>1. /\ sroot \in Roots /\ root[c] \in Roots /\ note[c] \in Notes /\ up[c] \in Seq(Messages)
      /\ down[c] \in Seq(Messages) /\ Legal(root[c]) /\ Offset <= 0 /\ Offset \in Int
  BY RootTypes, GenTypes DEF RootInv, GoesUp, CountedAlike
<1>2. down[c] # << >> /\ m.kind = "bootstrap" BY DEF ReceiveBootstrap, Boot
<1>3. m \in Messages /\ m.root \in Roots /\ 1 \in DOMAIN down[c] /\ m = down[c][1]
  BY <1>1, <1>2, QueueHead DEF Boot
<1>4. GoesUp(sroot, root[c], up[c], resync[c], conn[c]) /\ GoesDown(sroot, root[c], down[c], conn[c])
  BY DEF RootInv
<1>5. FitsClient(m, root[c]) /\ Within(m.root, sroot) /\ conn[c] = "connecting"
  BY <1>1, <1>2, <1>4, DownHead DEF Boot
<1>6. up[c] = << >> BY <1>4, <1>5 DEF GoesUp
<1>7. Legal(m.root) /\ root[c].sets \subseteq m.root.sets BY <1>2, <1>5 DEF FitsClient
<1>8. r \in Roots /\ r.sets = m.root.sets /\ Latest(r) = Latest(m.root)
      /\ m.root.dels \subseteq r.dels
  <2>1. r \in Roots BY <1>1, <1>3, MergeTyped DEF Joined
  <2>2. r.sets = m.root.sets /\ m.root.dels \subseteq r.dels BY <1>7 DEF Merge, Joined
  <2> QED BY <1>3, <2>1, <2>2, RankIs
<1>9. Instance(m.root) = 0 => Instance(r) = 0
  <2>1. Latest(r) \in 0..3 BY <1>8, LatestIs
  <2> QED BY <1>8, <2>1 DEF Instance
<1>10. m.gen \in 0..2 /\ (Instance(m.root) # 0 => m.gen >= 1)
  <2>1. m.gen = Rank(m.root) + Offset BY <1>2, <1>3 DEF CountedAlike
  <2>2. Rank(m.root) \in 0..2 /\ m.gen \in Nat BY <1>3, RankIs DEF Messages
  <2>3. GensDown(root[c], down[c], conn[c], note[c].gen, snote.gen, Offset)
    BY DEF Gens, ClientGens
  <2> QED BY <1>1, <1>2, <1>3, <2>1, <2>2, <2>3 DEF GensDown
<1>11. root'[c] = r BY RootTypes DEF ReceiveBootstrap, Boot, Joined
<1>12. Legal(r)
  <2>1. r.dels \subseteq {1, 3} /\ \A k \in r.dels : 1..k \subseteq r.sets
    <3>1. r.dels = root[c].dels \union m.root.dels BY DEF Merge, Joined
    <3> QED BY <1>1, <1>7, <1>8, <3>1 DEF Legal
  <2>2. r.sets \in {{}, {1}, {1, 3}, {1, 2, 3}} /\ (3 \in r.sets => 1 \in r.dels)
    BY <1>7, <1>8 DEF Legal
  <2> QED BY <2>1, <2>2 DEF Legal
<1> DEFINE pending == IF Instance(r) = Instance(root[c]) THEN resync[c] ELSE resync[c] \ {"note"}
           x == RootUpdate(r)
           y == NoteUpdate(n.gen, n.doc)
<1>13. CASE Instance(m.root) # 0 /\ Instance(r) = 0
  <2>1. /\ conn'[c] = "locked out" /\ note'[c] = Tracked(c)
        /\ down'[c] = << >> /\ up'[c] = << >> /\ resync'[c] = resync[c] /\ stale' = stale
    BY <1>6, <1>13, RootTypes DEF ReceiveBootstrap, Boot, Joined, Tracked
  <2> QED BY <1>2, <1>3, <1>5, <1>6, <1>7, <1>8, <1>9, <1>10, <1>11, <1>12, <1>13, <2>1
<1>14. CASE ~(Instance(m.root) # 0 /\ Instance(r) = 0)
  <2>1. /\ conn' = [conn EXCEPT ![c] = "on"] /\ note' = [note EXCEPT ![c] = n]
        /\ FlushUnsynced(c, pending, r, n) /\ resync' = [resync EXCEPT ![c] = {}]
        /\ down' = [down EXCEPT ![c] = Tail(@)]
        /\ stale' = IF Instance(m.root) = 0 /\ m.root.sets # {}
                      THEN stale \union {c} ELSE stale \ {c}
    BY <1>14 DEF ReceiveBootstrap, Boot, Joined, Tracked, Became
  <2>2. /\ conn'[c] = "on" /\ note'[c] = n /\ down'[c] = Tail(down[c]) /\ resync'[c] = {}
        /\ stale' = IF Instance(m.root) = 0 /\ m.root.sets # {}
                      THEN stale \union {c} ELSE stale \ {c}
    <3> HIDE DEF pending, x, y
    <3> QED BY <2>1, RootTypes
  <2>3. x \in Messages /\ y \in Messages
    <3>1. note'[c] \in Notes /\ root'[c] \in Roots /\ note'[c].gen <= Latest(root'[c])
      BY DEF CountInv, TypeOK, GenInv, Counted
    <3>2. Latest(r) \in 0..3 BY <1>8, LatestIs
    <3>3. n.gen \in 0..3 /\ n.doc \in Texts BY <1>11, <2>2, <3>1, <3>2 DEF Notes
    <3> QED BY <1>8, <3>3, MessagesTyped
  <2>4. IF "note" \in resync[c] /\ Instance(r) = Instance(root[c])
          THEN up'[c] = <<y>> \/ up'[c] = <<x, y>>
          ELSE up'[c] = << >> \/ up'[c] = <<x>>
    <3>1. "note" \in pending <=> "note" \in resync[c] /\ Instance(r) = Instance(root[c])
      OBVIOUS
    <3>2. up'[c] = << >> \o ((IF "root" \in pending THEN <<x>> ELSE << >>)
                              \o (IF "note" \in pending THEN <<y>> ELSE << >>))
      BY <1>6, <2>1, RootTypes DEF FlushUnsynced, Emit
    <3> HIDE DEF pending, x, y
    <3>3. CASE "root" \in pending
      <4>1. CASE "note" \in pending
        <5>1. up'[c] = << >> \o (<<x>> \o <<y>>) BY <3>2, <3>3, <4>1
        <5>2. << >> \o (<<x>> \o <<y>>) = <<x, y>> BY <2>3, Joins
        <5>3. up'[c] = <<x, y>> BY <5>1, <5>2
        <5> QED BY <3>1, <4>1, <5>3
      <4>2. CASE "note" \notin pending
        <5>1. up'[c] = << >> \o (<<x>> \o << >>) BY <3>2, <3>3, <4>2
        <5>2. up'[c] = <<x>> BY <2>3, <5>1
        <5> QED BY <3>1, <4>2, <5>2
      <4> QED BY <4>1, <4>2
    <3>4. CASE "root" \notin pending BY <2>3, <3>1, <3>2, <3>4
    <3> QED BY <3>3, <3>4
  <2> QED
    BY <1>2, <1>3, <1>5, <1>6, <1>7, <1>8, <1>9, <1>10, <1>11, <1>12, <1>14, <2>2, <2>3, <2>4
<1> QED BY <1>13, <1>14

\* The bootstrap.
LEMMA BootstrapGens ==
  ASSUME CountInv, CountInv', RootInv, CountedAlike, Gens, NEW c \in Clients, ReceiveBootstrap(c)
  PROVE  Gens'
<1> DEFINE m == Boot(c)
           r == Joined(c)
           tracked == Tracked(c)
           n == Became(c)
           x == RootUpdate(r)
           y == NoteUpdate(n.gen, n.doc)
<1>1. Alone(c) BY ClientSteps DEF Receive
<1>2. /\ conn[c] = "connecting" /\ up[c] = << >> /\ down[c] # << >> /\ m.kind = "bootstrap"
      /\ m \in Messages /\ m.root \in Roots /\ r \in Roots /\ root'[c] = r
      /\ Legal(m.root) /\ Legal(r) /\ Within(m.root, sroot)
      /\ r.sets = m.root.sets /\ Latest(r) = Latest(m.root)
      /\ Instance(m.root) = 0 => Instance(r) = 0
      /\ Instance(m.root) # 0 => m.gen >= 1
      /\ m.gen \in 0..2
  BY BootstrapDoes
<1>3. \/ /\ conn'[c] = "locked out" /\ note'[c] = tracked
         /\ down'[c] = << >> /\ up'[c] = << >> /\ resync'[c] = resync[c]
         /\ stale' = stale /\ Instance(r) = 0
      \/ /\ conn'[c] = "on" /\ note'[c] = n /\ down'[c] = Tail(down[c]) /\ resync'[c] = {}
         /\ Instance(m.root) # 0 => Instance(r) # 0
         /\ stale' = IF Instance(m.root) = 0 /\ m.root.sets # {}
                       THEN stale \union {c} ELSE stale \ {c}
         /\ x \in Messages /\ y \in Messages
         /\ IF "note" \in resync[c] /\ Instance(r) = Instance(root[c])
              THEN up'[c] = <<y>> \/ up'[c] = <<x, y>>
              ELSE up'[c] = << >> \/ up'[c] = <<x>>
  BY BootstrapDoes
<1>4. /\ UNCHANGED <<sroot, snote, kept>> /\ Offset' = Offset
      /\ sroot \in Roots /\ root[c] \in Roots /\ note[c] \in Notes /\ down[c] \in Seq(Messages)
      /\ note[c].gen \in Nat /\ note[c].gen <= Latest(root[c]) /\ Legal(root[c])
  <2>1. UNCHANGED <<sroot, snote, kept>> BY DEF ReceiveBootstrap, room
  <2>2. note[c] \in Notes /\ note[c].gen <= Latest(root[c])
    BY RootTypes DEF CountInv, GenInv, Counted
  <2>3. note[c].gen \in Nat BY <2>2 DEF Notes
  <2> QED BY <2>1, <2>2, <2>3, RootTypes DEF Offset, RootInv, GoesUp
<1>5. Holds(c, sroot, root[c], note[c], kept[c], resync[c], conn[c], stale)
      /\ GensDown(root[c], down[c], conn[c], note[c].gen, snote.gen, Offset)
  BY DEF Gens, ClientGens
<1>6. Instance(r) = 0 => tracked.gen = note[c].gen /\ tracked.doc = {}
  <2>1. CASE Instance(r) = Instance(root[c])
    <3>1. tracked = [note[c] EXCEPT !.ready = @ \/ note[c].doc # {}] BY <2>1 DEF Follow, Tracked
    <3>2. tracked.gen = note[c].gen /\ tracked.doc = note[c].doc BY <1>4, <3>1 DEF Notes
    <3> QED BY <1>5, <2>1, <3>2 DEF Holds
  <2>2. CASE Instance(r) # Instance(root[c]) BY <2>2 DEF Follow, Tracked
  <2> QED BY <2>1, <2>2
<1>7. 2 \in r.sets => 2 \in sroot.sets BY <1>2 DEF Within
<1> HIDE DEF x
<1>8. CASE conn'[c] = "locked out"
  <2>1. /\ note'[c].gen = note[c].gen /\ note'[c].doc = {} /\ Instance(r) = 0
        /\ up'[c] = << >> /\ down'[c] = << >> /\ stale' = stale
    BY <1>3, <1>6, <1>8
  <2>2. Holds(c, sroot', root'[c], note'[c], kept'[c], resync'[c], conn'[c], stale')
    BY <1>2, <1>4, <1>5, <1>7, <1>8, <2>1 DEF Holds
  <2>3. DOMAIN << >> = {} OBVIOUS
  <2>4. ClientGens(c)' BY <2>1, <2>2, <2>3 DEF ClientGens, GensUp, GensDown
  <2> QED BY <1>1, <2>4, OthersCount
<1>9. CASE conn'[c] = "on"
  <2>1. /\ note'[c] = n /\ down'[c] = Tail(down[c]) /\ resync'[c] = {}
        /\ Instance(m.root) # 0 => Instance(r) # 0
        /\ stale' = IF Instance(m.root) = 0 /\ m.root.sets # {}
                      THEN stale \union {c} ELSE stale \ {c}
        /\ x \in Messages /\ y \in Messages
        /\ IF "note" \in resync[c] /\ Instance(r) = Instance(root[c])
             THEN up'[c] = <<y>> \/ up'[c] = <<x, y>>
             ELSE up'[c] = << >> \/ up'[c] = <<x>>
    <3> HIDE DEF n, y
    <3> QED BY <1>3, <1>9
  <2>2. ASSUME Instance(m.root) = 0
        PROVE  Holds(c, sroot', root'[c], note'[c], kept'[c], resync'[c], conn'[c], stale')
    <3>1. n.gen = note[c].gen /\ n.doc = {} /\ Instance(r) = 0
      <4>1. n = tracked BY <2>2 DEF Synced, Became
      <4> QED BY <1>2, <1>6, <2>2, <4>1
    <3>2. note[c].gen = 3 => c \in stale'
      <4>1. note[c].gen = 3 => c \in stale BY <1>5 DEF Holds
      <4>2. m.root.sets = {} => note[c].gen = 0
        <5>1. m.root.sets = {} => Latest(m.root) = 0 BY <1>2, LatestIs
        <5>2. Latest(root[c]) <= Latest(r)
          <6>1. root[c].sets \subseteq r.sets /\ root[c].dels \subseteq r.dels
            BY <1>2, <1>4, MergeTyped DEF Joined
          <6> QED BY <1>2, <1>4, <6>1, RootGrows
        <5>3. Latest(root[c]) \in 0..3 BY <1>4, LatestIs
        <5> QED BY <1>2, <1>4, <5>1, <5>2, <5>3
      <4> QED BY <2>1, <2>2, <4>1, <4>2
    <3> HIDE DEF n, y
    <3>3. kept[c] # {} => n.gen >= 1 BY <1>5, <3>1 DEF Holds
    <3> QED BY <1>2, <1>4, <1>7, <1>9, <2>1, <3>1, <3>2, <3>3 DEF Holds
  <2>3. ASSUME Instance(m.root) # 0
        PROVE  Holds(c, sroot', root'[c], note'[c], kept'[c], resync'[c], conn'[c], stale')
    <3>1. n = [doc |-> tracked.doc \union m.doc, gen |-> m.gen, ready |-> TRUE]
      BY <2>3 DEF Synced, Became
    <3>2. n.gen = m.gen /\ n.ready BY <3>1
    <3> HIDE DEF y
    <3> QED BY <1>2, <1>4, <1>7, <1>9, <2>1, <2>3, <3>2 DEF Holds
  <2>4. GensUp(sroot', up'[c], note'[c].gen)
    <3>1. x.kind = "root" /\ y.kind = "note" /\ y.gen = n.gen BY DEF RootUpdate, NoteUpdate, x
    <3>2. n.gen \in Nat
      <4>1. note'[c] \in Notes BY DEF CountInv, TypeOK
      <4> QED BY <2>1, <4>1 DEF Notes
    <3>3. ASSUME NEW i \in DOMAIN up'[c], up'[c][i].kind = "note"
          PROVE  up'[c][i].gen <= n.gen /\ 1 \in Ahead(sroot, up'[c], i - 1).sets
      <4>1. up'[c][i] = y /\ "note" \in resync[c] /\ Instance(r) = Instance(root[c])
        <5> HIDE DEF y
        <5>1. CASE up'[c] = <<y>> BY <2>1, <3>1, <3>3, <5>1
        <5>2. CASE up'[c] = <<x, y>> BY <2>1, <3>1, <3>3, <5>2
        <5>3. CASE up'[c] = << >> \/ up'[c] = <<x>> BY <2>1, <3>1, <3>3, <5>3
        <5> QED BY <2>1, <5>1, <5>2, <5>3
      <4>2. Instance(root[c]) # 0 BY <1>2, <1>5, <4>1 DEF Holds
      <4>3. 1 \in sroot.sets
        <5>1. 1 \in r.sets BY <1>2, <4>1, <4>2, LegalInstance
        <5> QED BY <1>2, <5>1 DEF Within
      <4>4. 1 \in Ahead(sroot, up'[c], i - 1).sets BY <1>4, <4>3, AheadTyped
      <4> HIDE DEF y
      <4> QED BY <3>1, <3>2, <4>1, <4>4
    <3> QED BY <1>4, <2>1, <3>3 DEF GensUp
  <2>5. GensDown(root'[c], down'[c], conn'[c], note'[c].gen, snote'.gen, Offset')
    <3>1. conn[c] # "on" BY <1>2
    <3>2. GensDown(r, Tail(down[c]), "on", n.gen, snote.gen, Offset)
      BY <1>2, <1>4, <1>5, <3>1, GensTail DEF Boot, Joined
    <3> QED BY <1>2, <1>4, <1>9, <2>1, <3>2
  <2>6. ClientGens(c)' BY <2>2, <2>3, <2>4, <2>5 DEF ClientGens
  <2> QED BY <1>1, <2>6, OthersCount
<1> QED BY <1>3, <1>8, <1>9

\* What is sent to a client is of the generation the room is at.
LEMMA GensPass ==
  ASSUME NEW r \in Roots, NEW q \in Seq(Messages), NEW t \in Seq(Messages), NEW state, NEW gen,
         NEW sgen \in Nat, NEW sgen2 \in Nat, NEW offset, sgen <= sgen2,
         GensDown(r, q, state, gen, sgen, offset),
         \A j \in DOMAIN t :
           /\ t[j].kind # "bootstrap"
           /\ t[j].kind = "note" =>
                /\ t[j].gen >= 1 /\ t[j].gen <= sgen2
                /\ (state = "on" /\ gen = 3) \/ t[j].gen = Rank(Ahead(End(r, q), t, j - 1)) + offset
  PROVE  GensDown(r, q \o t, state, gen, sgen2, offset) /\ GensDown(r, q, state, gen, sgen2, offset)
<1>1. Len(q) \in Nat /\ DOMAIN q = 1..Len(q) /\ DOMAIN t = 1..Len(t) /\ Len(t) \in Nat
  OBVIOUS
<1>2. ASSUME NEW i \in DOMAIN q, q[i].kind = "note" PROVE q[i].gen <= sgen2
  <2>1. q[i] \in Messages BY <1>2
  <2>2. q[i].gen \in Nat BY <2>1 DEF Messages
  <2>3. q[i].gen <= sgen BY <1>2 DEF GensDown
  <2> QED BY <2>2, <2>3
<1>3. GensDown(r, q, state, gen, sgen2, offset) BY <1>2 DEF GensDown
<1>4. ASSUME NEW i \in DOMAIN (q \o t)
      PROVE  LET m == (q \o t)[i] IN
             /\ m.kind = "bootstrap" /\ Instance(m.root) # 0 => m.gen >= 1
             /\ m.kind = "note" =>
                  /\ m.gen >= 1 /\ m.gen <= sgen2
                  /\ (state = "on" /\ gen = 3) \/ m.gen = Rank(Ahead(r, q \o t, i - 1)) + offset
  <2>1. CASE i \in DOMAIN q
    <3>1. (q \o t)[i] = q[i] /\ Ahead(r, q \o t, i - 1) = Ahead(r, q, i - 1)
      BY <1>1, <2>1, AheadAppend
    <3> QED BY <1>3, <2>1, <3>1 DEF GensDown
  <2>2. CASE i \notin DOMAIN q
    <3>1. PICK j \in DOMAIN t : i = Len(q) + j BY <2>2, AheadAppend
    <3>2. (q \o t)[i] = t[j] BY <3>1, AheadAppend
    <3>3. j - 1 \in 0..Len(t) /\ i - 1 = Len(q) + (j - 1) BY <1>1, <3>1
    <3>4. Ahead(r, q \o t, i - 1) = Ahead(End(r, q), t, j - 1) BY <3>3, AheadAppend DEF End
    <3> QED BY <3>2, <3>4
  <2> QED BY <2>1, <2>2
<1>5. GensDown(r, q \o t, state, gen, sgen2, offset) BY <1>4 DEF GensDown
<1> QED BY <1>3, <1>5

\* What is left of the messages of a client, and those of the others, make sense to the room
\* that has handled one.
LEMMA GensHandled ==
  ASSUME NEW s \in Roots, NEW q \in Seq(Messages), NEW gen, GensUp(s, q, gen)
  PROVE  /\ q # << >> => GensUp(Merge(s, Head(q).root), Tail(q), gen)
         /\ \A change \in Roots : GensUp(Merge(s, change), q, gen)
         /\ q # << >> /\ Head(q).kind = "note" => Head(q).gen <= gen /\ 1 \in s.sets
<1>1. ASSUME q # << >>
      PROVE  /\ GensUp(Merge(s, Head(q).root), Tail(q), gen)
             /\ Head(q).kind = "note" => Head(q).gen <= gen /\ 1 \in s.sets
  <2> DEFINE s2 == Merge(s, Head(q).root)
  <2>1. /\ 1 \in DOMAIN q /\ q[1] = Head(q) /\ 1 - 1 = 0 /\ Ahead(s, q, 0) = s
        /\ \A i \in DOMAIN Tail(q) :
             /\ i + 1 \in DOMAIN q /\ Tail(q)[i] = q[i + 1] /\ (i + 1) - 1 = i
             /\ Ahead(s2, Tail(q), i - 1) = Ahead(s, q, i)
    BY <1>1, QueueHead
  <2> HIDE DEF s2
  <2>2. ASSUME NEW i \in DOMAIN Tail(q), Tail(q)[i].kind = "note"
        PROVE  Tail(q)[i].gen <= gen /\ 1 \in Ahead(s2, Tail(q), i - 1).sets
    <3> DEFINE k == i + 1
    <3>1. k \in DOMAIN q /\ Tail(q)[i] = q[k] /\ Ahead(s2, Tail(q), i - 1) = Ahead(s, q, k - 1)
      BY <2>1
    <3> HIDE DEF k
    <3> QED BY <2>2, <3>1 DEF GensUp
  <2>3. GensUp(s2, Tail(q), gen) BY <2>2 DEF GensUp
  <2> QED BY <2>1, <2>3 DEF GensUp, s2
<1>2. ASSUME NEW change \in Roots PROVE GensUp(Merge(s, change), q, gen)
  <2>1. ASSUME NEW i \in DOMAIN q, 1 \in Ahead(s, q, i - 1).sets
        PROVE  1 \in Ahead(Merge(s, change), q, i - 1).sets
    <3> DEFINE a == Ahead(s, q, i - 1)
    <3>1. a \in Roots /\ Ahead(Merge(s, change), q, i - 1) = Merge(a, change)
      BY AheadTyped, AheadMore
    <3> HIDE DEF a
    <3>2. a.sets \subseteq Merge(a, change).sets BY <3>1, MergeTyped
    <3> QED BY <2>1, <3>1, <3>2 DEF a
  <2> QED BY <2>1 DEF GensUp
<1> QED BY <1>1, <1>2

\* The message that the room handles.
Mail(c) == Head(up[c])

\* What becomes of it.
LEMMA AcceptDoes ==
  ASSUME CountInv, RootInv, NEW c \in Clients, Accept(c)
  PROVE  /\ up[c] # << >> /\ UNCHANGED <<root, note, resync, kept, conn, stale>>
         /\ up'[c] = Tail(up[c]) /\ \A d \in Clients : d # c => up'[d] = up[d]
         /\ Mail(c) \in Messages /\ Mail(c).root \in Roots /\ FitsRoom(Mail(c), sroot)
         /\ Within(Mail(c).root, root[c]) /\ lost \subseteq lost'
         /\ sroot' = Merge(sroot, Mail(c).root)
         /\ \/ /\ Mail(c).kind = "root" /\ Mail(c).doc = {} /\ lost' = lost
               /\ Repeats(Mail(c).root, sroot) \/ Announces(Mail(c).root, sroot)
               /\ snote' = Follow(snote, sroot, sroot') /\ Broadcast(c, <<Mail(c)>>)
            \/ /\ Mail(c).kind = "bundle" /\ lost' = lost
               /\ Creates(Mail(c).root, sroot) \/ Restores(Mail(c).root, sroot)
               /\ snote' = [doc |-> Mail(c).doc, gen |-> snote.gen + 1, ready |-> TRUE]
               /\ Broadcast(c, <<RootUpdate(Mail(c).root), NoteUpdate(snote'.gen, Mail(c).doc)>>)
            \/ /\ Mail(c).kind = "note" /\ Mail(c).root = Nothing /\ sroot' = sroot
               /\ Instance(sroot) = 0 \/ Mail(c).gen # snote.gen
               /\ UNCHANGED <<snote, down>> /\ (c \in stale => Mail(c).doc \subseteq lost')
            \/ /\ Mail(c).kind = "note" /\ Mail(c).root = Nothing /\ sroot' = sroot
               /\ Instance(sroot) # 0 /\ Mail(c).gen = snote.gen /\ lost' = lost
               /\ snote' = [snote EXCEPT !.doc = @ \union Mail(c).doc, !.ready = TRUE]
               /\ Broadcast(c, <<Mail(c)>>)
<1>1. /\ up[c] # << >> /\ Handled(c) /\ UNCHANGED <<root, note, resync, kept, conn, stale>>
  BY DEF Accept, AcceptRootUpdate, AcceptBundle, AcceptNoteUpdate, client, history
<1>2. up'[c] = Tail(up[c]) /\ \A d \in Clients : d # c => up'[d] = up[d]
  BY <1>1, RootTypes DEF Handled
<1>3. /\ Mail(c) \in Messages /\ Mail(c).root \in Roots /\ FitsRoom(Mail(c), sroot)
      /\ Within(Mail(c).root, root[c]) /\ sroot \in Roots
  BY <1>1, RoomAccepts DEF Mail
<1>4. CASE AcceptRootUpdate(c)
  <2>1. Mail(c).kind = "root" /\ lost' = lost BY <1>4 DEF AcceptRootUpdate, Mail, history
  <2>2. /\ sroot' = Merge(sroot, Mail(c).root)
        /\ snote' = Follow(snote, sroot, sroot') /\ Broadcast(c, <<Mail(c)>>)
        /\ Repeats(Mail(c).root, sroot) \/ Announces(Mail(c).root, sroot)
        /\ Mail(c).doc = {}
    BY <1>1, <1>4, RoomAccepts DEF Mail
  <2> QED BY <1>1, <1>2, <1>3, <2>1, <2>2
<1>5. CASE AcceptBundle(c)
  <2>1. Mail(c).kind = "bundle" /\ lost' = lost BY <1>5 DEF AcceptBundle, Mail, history
  <2>2. /\ sroot' = Merge(sroot, Mail(c).root)
        /\ snote' = [doc |-> Mail(c).doc, gen |-> snote.gen + 1, ready |-> TRUE]
        /\ Broadcast(c, <<RootUpdate(Mail(c).root), NoteUpdate(snote'.gen, Mail(c).doc)>>)
        /\ Creates(Mail(c).root, sroot) \/ Restores(Mail(c).root, sroot)
    BY <1>1, <1>5, RoomAccepts DEF Mail
  <2> QED BY <1>1, <1>2, <1>3, <2>1, <2>2
<1>6. CASE AcceptNoteUpdate(c)
  <2>1. /\ Mail(c).kind = "note" /\ sroot' = sroot
        /\ \/ /\ Instance(sroot) = 0 \/ Mail(c).gen # snote.gen
              /\ lost' = IF c \in stale THEN lost \union Mail(c).doc ELSE lost
              /\ UNCHANGED <<snote, down>>
           \/ /\ Instance(sroot) # 0 /\ Mail(c).gen = snote.gen /\ lost' = lost
              /\ snote' = [snote EXCEPT !.doc = @ \union Mail(c).doc, !.ready = TRUE]
              /\ Broadcast(c, <<Mail(c)>>)
    BY <1>6 DEF AcceptNoteUpdate, Mail, room
  <2>2. Mail(c).root = Nothing BY <1>3, <2>1 DEF FitsRoom
  <2>3. Merge(sroot, Mail(c).root) = sroot
    <3>1. Merge(sroot, Nothing).sets = sroot.sets /\ Merge(sroot, Nothing).dels = sroot.dels
      BY DEF Merge, Nothing, Change
    <3>2. Merge(sroot, Nothing) \in Roots BY <1>3, MergeTyped, TextsTyped
    <3> QED BY <1>3, <2>2, <3>1, <3>2, SameRoot
  <2>4. lost \subseteq lost' /\ (Instance(sroot) = 0 \/ Mail(c).gen # snote.gen =>
                                   (c \in stale => Mail(c).doc \subseteq lost'))
    BY <2>1
  <2> QED BY <1>1, <1>2, <1>3, <2>1, <2>2, <2>3, <2>4
<1> QED BY <1>4, <1>5, <1>6 DEF Accept

\* All that the room knows and what this client alone knows.
LEMMA EndKnows ==
  ASSUME CountInv, RootInv, NEW d \in Clients, Attached(d)
  PROVE  /\ End(root[d], down[d]) \in Roots
         /\ Within(sroot, End(root[d], down[d]))
         /\ End(root[d], down[d]).sets \subseteq (root[d].sets \union sroot.sets)
         /\ conn[d] = "connecting" => up[d] = << >> /\ root[d].sets \subseteq sroot.sets
<1>1. /\ GoesDown(sroot, root[d], down[d], conn[d]) /\ GoesUp(sroot, root[d], up[d], resync[d], conn[d])
      /\ root[d] \in Roots /\ down[d] \in Seq(Messages) /\ sroot \in Roots
      /\ conn[d] \in {"connecting", "on"}
  BY RootTypes DEF RootInv, Attached
<1>2. Within(sroot, End(root[d], down[d])) BY <1>1 DEF GoesDown
<1>3. \A i \in DOMAIN down[d] : Within(down[d][i].root, sroot) BY <1>1 DEF GoesDown
<1>4. /\ End(root[d], down[d]).sets \subseteq (root[d].sets \union sroot.sets)
      /\ End(root[d], down[d]) \in Roots
  <2>1. Len(down[d]) \in 0..Len(down[d]) /\ End(root[d], down[d]) \in Roots
    BY <1>1, AheadWithin
  <2> QED BY <1>1, <1>3, <2>1, AheadWithin DEF End
<1>5. conn[d] = "connecting" => up[d] = << >> /\ root[d].sets \subseteq sroot.sets
  <2>1. conn[d] = "connecting" => up[d] = << >> BY <1>1 DEF GoesUp
  <2>2. up[d] = << >> => root[d].sets \subseteq sroot.sets
    BY <1>1, UpNothing
  <2> QED BY <2>1, <2>2
<1> QED BY <1>2, <1>4, <1>5

\* To those the room tells of it, what it says of the note is of the generation they will be at.
LEMMA TellsGens ==
  ASSUME CountInv, CountInv', RootInv, Gens, NEW c \in Clients, Accept(c),
         NEW d \in Clients, d # c, Attached(d)
  PROVE  /\ Mail(c).kind = "bundle" =>
              Rank(Merge(End(root[d], down[d]), Mail(c).root)) = Rank(sroot')
         /\ Mail(c).kind = "note" /\ Instance(sroot) # 0 =>
              \/ conn[d] = "on" /\ note[d].gen = 3
              \/ Rank(End(root[d], down[d])) = Rank(sroot)
<1> DEFINE e == End(root[d], down[d])
<1>1. /\ e \in Roots /\ Within(sroot, e) /\ e.sets \subseteq (root[d].sets \union sroot.sets)
      /\ conn[d] = "connecting" => root[d].sets \subseteq sroot.sets
  BY EndKnows
<1>2. /\ sroot \in Roots /\ root[d] \in Roots /\ Legal(sroot) /\ Legal(root[d]) /\ sroot' \in Roots
  <2>1. sroot' \in Roots BY DEF CountInv, TypeOK
  <2> QED BY <2>1, RootTypes DEF RootInv, GoesUp
<1>3. /\ Mail(c).root \in Roots /\ FitsRoom(Mail(c), sroot) /\ sroot' = Merge(sroot, Mail(c).root)
      /\ Within(Mail(c).root, root[c])
  BY AcceptDoes
<1> HIDE DEF e
<1>4. ASSUME Mail(c).kind = "bundle"
      PROVE  Rank(Merge(e, Mail(c).root)) = Rank(sroot')
  <2>1. ~(Mail(c).root.sets \subseteq sroot.sets)
    <3>1. Creates(Mail(c).root, sroot) \/ Restores(Mail(c).root, sroot)
      BY <1>3, <1>4 DEF FitsRoom
    <3> QED BY <3>1 DEF Creates, Restores, Change
  <2>2. ~(root[c].sets \subseteq sroot.sets) BY <1>3, <2>1 DEF Within
  <2>3. root[d].sets \subseteq sroot.sets
    <3>1. Known BY DEF RootInv
    <3> QED BY <2>2, <3>1 DEF Known
  <2>4. e.sets = sroot.sets BY <1>1, <2>3 DEF Within
  <2>5. Merge(e, Mail(c).root) \in Roots BY <1>1, <1>3, MergeTyped
  <2>6. Merge(e, Mail(c).root).sets = sroot'.sets BY <1>3, <2>4 DEF Merge
  <2> QED BY <1>2, <2>5, <2>6, RankIs
<1>5. ASSUME Mail(c).kind = "note", Instance(sroot) # 0, ~(conn[d] = "on" /\ note[d].gen = 3)
      PROVE  Rank(e) = Rank(sroot)
  <2>1. Holds(d, sroot, root[d], note[d], kept[d], resync[d], conn[d], stale)
    BY DEF Gens, ClientGens
  <2>2. 2 \in root[d].sets => 2 \in sroot.sets
    <3>1. CASE conn[d] = "on" BY <1>5, <2>1, <3>1 DEF Holds
    <3>2. CASE conn[d] = "connecting" BY <1>1, <3>2
    <3> QED BY <3>1, <3>2 DEF Attached
  <2>3. 1 \in sroot.sets /\ 1 \in e.sets
    <3>1. 1 \in sroot.sets BY <1>2, <1>5, LegalInstance
    <3> QED BY <1>1, <3>1 DEF Within
  <2>4. 2 \in e.sets <=> 2 \in sroot.sets BY <1>1, <2>2 DEF Within
  <2>5. CASE 2 \notin sroot.sets
    <3>1. Latest(e) = 1 /\ Latest(sroot) = 1 BY <1>1, <1>2, <2>3, <2>4, <2>5, LatestIs
    <3> QED BY <3>1 DEF Rank
  <2>6. CASE 2 \in sroot.sets
    <3>1. sroot.sets = {1, 2, 3} BY <1>2, <2>6, LegalInstance
    <3>2. e.sets \subseteq 1..3 BY <1>1 DEF Roots, Instances
    <3>3. e.sets = sroot.sets BY <1>1, <3>1, <3>2 DEF Within
    <3> QED BY <1>1, <1>2, <3>3, RankIs
  <2> QED BY <2>5, <2>6
<1> QED BY <1>4, <1>5 DEF e

\* The room.
LEMMA AcceptRoom ==
  ASSUME CountInv, CountInv', RootInv, Gens, NEW c \in Clients, Accept(c)
  PROVE  RoomHolds' /\ snote.gen <= snote'.gen
<1>1. /\ sroot \in Roots /\ snote \in Notes /\ snote.gen \in Nat /\ snote'.gen \in Nat
      /\ Legal(sroot) /\ RoomHolds
  <2>1. snote' \in Notes BY DEF CountInv, TypeOK
  <2>2. snote'.gen \in Nat BY <2>1 DEF Notes
  <2> QED BY <2>2, RootTypes, GenTypes DEF RootInv, Gens
<1>2. Mail(c).root \in Roots /\ sroot' = Merge(sroot, Mail(c).root) BY AcceptDoes
<1>3. CASE Mail(c).kind = "root"
  <2>1. /\ Repeats(Mail(c).root, sroot) \/ Announces(Mail(c).root, sroot)
        /\ snote' = Follow(snote, sroot, sroot')
    BY <1>3, AcceptDoes
  <2>2. Instance(sroot') \in {Instance(sroot), 0} BY <1>1, <1>2, <2>1, ChangesOf
  <2>3. CASE Instance(sroot') = Instance(sroot)
    <3>1. snote' = [snote EXCEPT !.ready = @ \/ snote.doc # {}] BY <2>1, <2>3 DEF Follow
    <3>2. snote'.gen = snote.gen /\ snote'.doc = snote.doc BY <1>1, <3>1 DEF Notes
    <3> QED BY <1>1, <2>3, <3>2 DEF RoomHolds
  <2>4. CASE Instance(sroot') # Instance(sroot)
    <3>1. snote'.gen = snote.gen /\ snote'.doc = {} /\ Instance(sroot') = 0
      BY <2>1, <2>2, <2>4 DEF Follow
    <3> QED BY <1>1, <3>1 DEF RoomHolds
  <2> QED BY <2>3, <2>4
<1>4. CASE Mail(c).kind = "bundle"
  <2>1. /\ Creates(Mail(c).root, sroot) \/ Restores(Mail(c).root, sroot)
        /\ snote' = [doc |-> Mail(c).doc, gen |-> snote.gen + 1, ready |-> TRUE]
    BY <1>4, AcceptDoes
  <2>2. Instance(sroot') # 0 BY <1>1, <1>2, <2>1, ChangesOf
  <2>3. snote'.gen = snote.gen + 1 BY <2>1
  <2> QED BY <1>1, <2>2, <2>3 DEF RoomHolds
<1>5. CASE Mail(c).kind = "note"
  <2>1. /\ sroot' = sroot
        /\ \/ snote' = snote
           \/ /\ snote' = [snote EXCEPT !.doc = @ \union Mail(c).doc, !.ready = TRUE]
              /\ Instance(sroot) # 0
    BY <1>5, AcceptDoes
  <2>2. snote'.gen = snote.gen BY <1>1, <2>1 DEF Notes
  <2> QED BY <1>1, <2>1, <2>2 DEF RoomHolds
<1>6. Mail(c).kind \in {"root", "bundle", "note"} BY AcceptDoes
<1> QED BY <1>3, <1>4, <1>5, <1>6

\* What the room receives: a bundle is counted by it and those it tells.
LEMMA AcceptGens ==
  ASSUME CountInv, CountInv', RootInv, Gens, NEW c \in Clients, Accept(c)
  PROVE  Gens'
<1>1. /\ up[c] # << >> /\ UNCHANGED <<root, note, resync, kept, conn, stale>>
      /\ up'[c] = Tail(up[c]) /\ \A d \in Clients : d # c => up'[d] = up[d]
      /\ Mail(c) \in Messages /\ Mail(c).root \in Roots /\ FitsRoom(Mail(c), sroot)
      /\ sroot' = Merge(sroot, Mail(c).root)
  BY AcceptDoes
<1>2. Offset' = Offset BY AcceptOffset
<1>3. RoomHolds' /\ snote.gen <= snote'.gen BY AcceptRoom
<1>4. snote.gen \in Nat /\ snote'.gen \in Nat /\ snote'.gen \in 0..3 /\ sroot \in Roots
  <2>1. snote' \in Notes /\ sroot' \in Roots /\ snote'.gen <= Latest(sroot')
    BY DEF CountInv, TypeOK, GenInv, Counted
  <2>2. Latest(sroot') \in 0..3 BY <2>1, LatestIs
  <2>3. snote'.gen \in Nat BY <2>1 DEF Notes
  <2> QED BY <2>1, <2>2, <2>3, RootTypes, GenTypes
<1>5. ASSUME NEW d \in Clients PROVE ClientGens(d)'
  <2>1. /\ Holds(d, sroot, root[d], note[d], kept[d], resync[d], conn[d], stale)
        /\ GensUp(sroot, up[d], note[d].gen)
        /\ GensDown(root[d], down[d], conn[d], note[d].gen, snote.gen, Offset)
        /\ up[d] \in Seq(Messages) /\ down[d] \in Seq(Messages) /\ root[d] \in Roots
    BY RootTypes DEF Gens, ClientGens
  <2>2. Holds(d, sroot', root'[d], note'[d], kept'[d], resync'[d], conn'[d], stale')
    <3>1. sroot.sets \subseteq sroot'.sets BY <1>1, <1>4, MergeTyped
    <3> QED BY <1>1, <2>1, <3>1 DEF Holds
  <2>3. GensUp(sroot', up'[d], note'[d].gen)
    <3>1. CASE d = c BY <1>1, <1>4, <2>1, <3>1, GensHandled DEF Mail
    <3>2. CASE d # c BY <1>1, <1>4, <2>1, <3>2, GensHandled
    <3> QED BY <3>1, <3>2
  <2>4. GensDown(root[d], down'[d], conn[d], note[d].gen, snote'.gen, Offset)
    <3>1. CASE down'[d] = down[d]
      <4>1. << >> \in Seq(Messages) /\ DOMAIN << >> = {} OBVIOUS
      <4>2. GensDown(root[d], down[d], conn[d], note[d].gen, snote'.gen, Offset)
        BY <1>3, <1>4, <2>1, <4>1, GensPass
      <4> QED BY <3>1, <4>2
    <3>2. ASSUME down'[d] # down[d] PROVE d # c /\ Attached(d)
      <4>1. UNCHANGED down \/ \E t : Broadcast(c, t) BY AcceptDoes
      <4> QED BY <3>2, <4>1 DEF Broadcast
    <3> DEFINE e == End(root[d], down[d])
    <3>3. CASE down'[d] # down[d] /\ Mail(c).kind \in {"root", "note"}
      <4> DEFINE m == Mail(c)
      <4>1. Broadcast(c, <<m>>) /\ (m.kind = "note" => Instance(sroot) # 0 /\ m.gen = snote.gen
                                                        /\ snote'.gen = snote.gen)
        <5>1. \/ m.kind = "root" /\ Broadcast(c, <<m>>)
              \/ /\ m.kind = "note" /\ Instance(sroot) # 0 /\ m.gen = snote.gen
                 /\ snote' = [snote EXCEPT !.doc = @ \union m.doc, !.ready = TRUE]
                 /\ Broadcast(c, <<m>>)
          BY <3>3, AcceptDoes
        <5>2. snote \in Notes BY RootTypes
        <5> HIDE DEF m
        <5> QED BY <5>1, <5>2 DEF Notes
      <4>2. down'[d] = down[d] \o <<m>> BY <3>2, <3>3, <4>1 DEF Broadcast
      <4>3. /\ m.kind # "bootstrap"
            /\ m.kind = "note" => /\ m.gen >= 1 /\ m.gen <= snote'.gen
                                  /\ (conn[d] = "on" /\ note[d].gen = 3) \/ m.gen = Rank(e) + Offset
        <5>1. m.kind = "note" => m.gen >= 1 BY <4>1 DEF Gens, RoomHolds
        <5>2. m.kind = "note" =>
                (conn[d] = "on" /\ note[d].gen = 3) \/ Rank(e) = Rank(sroot)
          BY <3>2, <3>3, <4>1, TellsGens
        <5>3. snote.gen = Rank(sroot) + Offset BY GenTypes
        <5> HIDE DEF m, e
        <5> QED BY <1>4, <3>3, <4>1, <5>1, <5>2, <5>3 DEF m
      <4>4. <<m>> \in Seq(Messages) /\ DOMAIN <<m>> = {1} /\ <<m>>[1] = m /\ 1 - 1 = 0 BY <1>1
      <4>5. e \in Roots /\ Ahead(e, <<m>>, 0) = e BY <3>2, <3>3, EndKnows, AheadNone
      <4> HIDE DEF m
      <4>6. \A j \in DOMAIN <<m>> :
              /\ <<m>>[j].kind # "bootstrap"
              /\ <<m>>[j].kind = "note" =>
                   /\ <<m>>[j].gen >= 1 /\ <<m>>[j].gen <= snote'.gen
                   /\ \/ conn[d] = "on" /\ note[d].gen = 3
                      \/ <<m>>[j].gen = Rank(Ahead(End(root[d], down[d]), <<m>>, j - 1)) + Offset
        BY <4>3, <4>4, <4>5
      <4>7. PICK t : t = <<m>> OBVIOUS
      <4>8. GensDown(root[d], down[d] \o t, conn[d], note[d].gen, snote'.gen, Offset)
        <5>1. t \in Seq(Messages) BY <4>4, <4>7
        <5>2. \A j \in DOMAIN t :
                /\ t[j].kind # "bootstrap"
                /\ t[j].kind = "note" =>
                     /\ t[j].gen >= 1 /\ t[j].gen <= snote'.gen
                     /\ \/ conn[d] = "on" /\ note[d].gen = 3
                        \/ t[j].gen = Rank(Ahead(End(root[d], down[d]), t, j - 1)) + Offset
          BY <4>6, <4>7, Zenon
        <5> QED BY <1>3, <1>4, <2>1, <5>1, <5>2, GensPass
      <4> QED BY <4>2, <4>7, <4>8
    <3>4. CASE down'[d] # down[d] /\ Mail(c).kind = "bundle"
      <4> DEFINE x == RootUpdate(Mail(c).root)
                 y == NoteUpdate(snote'.gen, Mail(c).doc)
      <4>1. Broadcast(c, <<x, y>>) /\ (Creates(Mail(c).root, sroot) \/ Restores(Mail(c).root, sroot))
        BY <3>4, AcceptDoes
      <4>2. down'[d] = down[d] \o <<x, y>>
        <5> HIDE DEF x, y
        <5> QED BY <3>2, <3>4, <4>1 DEF Broadcast
      <4>3. /\ x \in Messages /\ x.kind = "root" /\ x.root = Mail(c).root
            /\ y \in Messages /\ y.gen = snote'.gen
        <5>1. x \in Messages /\ x.kind = "root" /\ x.root = Mail(c).root
          BY <1>1, MessagesTyped DEF RootUpdate
        <5>2. Mail(c).doc \in Texts BY <1>1 DEF Messages
        <5>3. y \in Messages /\ y.gen = snote'.gen
          BY <1>4, <5>2, MessagesTyped DEF NoteUpdate
        <5> QED BY <5>1, <5>3
      <4>4. y.kind = "note" BY DEF NoteUpdate
      <4>5. snote'.gen >= 1 /\ snote'.gen = Rank(Merge(e, x.root)) + Offset
        <5>1. Legal(sroot) BY DEF RootInv
        <5>2. Instance(sroot') # 0 BY <1>1, <1>4, <4>1, <5>1, ChangesOf
        <5>3. snote'.gen >= 1 BY <1>3, <5>2 DEF RoomHolds
        <5>4. snote'.gen = Rank(sroot') + Offset
          <6>1. Offset' = snote'.gen - Rank(sroot') BY DEF Offset
          <6>2. sroot' \in Roots BY DEF CountInv, TypeOK
          <6>3. Rank(sroot') \in 0..2 BY <6>2, RankIs
          <6> QED BY <1>2, <1>4, <6>1, <6>3
        <5>5. Rank(Merge(e, Mail(c).root)) = Rank(sroot') BY <3>2, <3>4, TellsGens
        <5> HIDE DEF e, x
        <5> QED BY <4>3, <5>3, <5>4, <5>5
      <4>6. e \in Roots BY <3>2, <3>4, EndKnows
      <4> HIDE DEF x, y, e
      <4>7. Ahead(e, <<x, y>>, 1) = Merge(e, x.root) BY <4>3, <4>6, AheadFew
      <4>8. /\ <<x, y>> \in Seq(Messages) /\ DOMAIN <<x, y>> = {1, 2} /\ <<x, y>>[1] = x
            /\ <<x, y>>[2] = y /\ 2 - 1 = 1
        BY <4>3
      <4>9. \A j \in DOMAIN <<x, y>> :
              /\ <<x, y>>[j].kind # "bootstrap"
              /\ <<x, y>>[j].kind = "note" =>
                   /\ <<x, y>>[j].gen >= 1 /\ <<x, y>>[j].gen <= snote'.gen
                   /\ \/ conn[d] = "on" /\ note[d].gen = 3
                      \/ <<x, y>>[j].gen = Rank(Ahead(e, <<x, y>>, j - 1)) + Offset
        <5>1. /\ x.kind # "bootstrap" /\ x.kind # "note" /\ y.kind # "bootstrap"
              /\ y.gen >= 1 /\ y.gen <= snote'.gen
              /\ y.gen = Rank(Ahead(e, <<x, y>>, 1)) + Offset
          BY <1>4, <4>3, <4>4, <4>5, <4>7
        <5> QED BY <4>8, <5>1
      <4>10. PICK t : t = <<x, y>> OBVIOUS
      <4>11. GensDown(root[d], down[d] \o t, conn[d], note[d].gen, snote'.gen, Offset)
        <5>1. t \in Seq(Messages) BY <4>8, <4>10
        <5>2. \A j \in DOMAIN t :
                /\ t[j].kind # "bootstrap"
                /\ t[j].kind = "note" =>
                     /\ t[j].gen >= 1 /\ t[j].gen <= snote'.gen
                     /\ \/ conn[d] = "on" /\ note[d].gen = 3
                        \/ t[j].gen = Rank(Ahead(End(root[d], down[d]), t, j - 1)) + Offset
          BY <4>9, <4>10, Zenon DEF e
        <5> QED BY <1>3, <1>4, <2>1, <5>1, <5>2, GensPass
      <4> QED BY <4>2, <4>10, <4>11
    <3>5. Mail(c).kind \in {"root", "bundle", "note"} BY AcceptDoes
    <3> QED BY <3>1, <3>3, <3>4, <3>5
  <2> QED BY <1>1, <1>2, <2>2, <2>3, <2>4 DEF ClientGens
<1> QED BY <1>3, <1>5 DEF Gens

\* The generations are as said at the start.
LEMMA GensInit == Init => Gens
<1> SUFFICES ASSUME Init PROVE Gens
  OBVIOUS
<1>1. Latest(Nothing) = 0 /\ Latest(Change({1}, {})) = 1
  BY LatestIs, TextsTyped DEF Nothing, Change
<1>2. RoomHolds
  <2>1. CASE sroot = Nothing /\ snote = [doc |-> {}, gen |-> 0, ready |-> FALSE]
    BY <1>1, <2>1 DEF RoomHolds, Instance, Nothing, Change
  <2>2. CASE sroot = Change({1}, {}) /\ snote = [doc |-> {Body}, gen |-> 1, ready |-> TRUE]
    BY <1>1, <2>2 DEF RoomHolds, Instance, Change
  <2> QED BY <2>1, <2>2 DEF Init
<1>3. Instance(Nothing) = 0 /\ Nothing.sets = {} BY <1>1 DEF Instance, Nothing, Change
<1>4. \A c \in Clients : /\ root[c] = Nothing /\ up[c] = << >> /\ down[c] = << >>
                         /\ conn[c] = "new" /\ kept[c] = {} /\ resync[c] = {}
                         /\ note[c] = [doc |-> {}, gen |-> 0, ready |-> FALSE]
  BY DEF Init
<1>5. DOMAIN << >> = {} OBVIOUS
<1>6. \A c \in Clients : ClientGens(c)
  <2> TAKE c \in Clients
  <2>1. note[c].gen = 0 /\ note[c].doc = {} BY <1>4
  <2>2. Instance(root[c]) = 0 /\ 2 \notin root[c].sets BY <1>3, <1>4
  <2>3. Holds(c, sroot, root[c], note[c], kept[c], resync[c], conn[c], stale)
    <3>1. conn[c] = "new" /\ kept[c] = {} /\ "note" \notin resync[c] BY <1>4
    <3> QED BY <2>1, <2>2, <3>1 DEF Holds
  <2> QED BY <1>4, <1>5, <2>3 DEF ClientGens, GensUp, GensDown
<1> QED BY <1>2, <1>6 DEF Gens

Generations == mishaps = {} => Gens

\* Every step keeps them so.
LEMMA GenerationsNext ==
  ASSUME CountInv, CountInv', Ordered, Alike, Generations, [Next]_vars
  PROVE  Generations'
<1> SUFFICES ASSUME mishaps' = {} PROVE Gens'
  BY DEF Generations
<1>1. CASE UNCHANGED vars
  BY <1>1 DEF Generations, Gens, RoomHolds, ClientGens, Offset, vars, client, room, network, history
<1>2. CASE Next
  <2>1. RootInv /\ CountedAlike /\ Gens
    BY <1>2, MishapsStay DEF CountInv, Ordered, Alike, Generations
  <2> QED
    BY <1>2, <2>1, ReopenGens, EditGens, CreateGens, RemoveGens, UndoGens, ConnectionGens,
       BootstrapGens, ReceiveGens, AcceptGens
    DEF Next, Receive
<1> QED BY <1>1, <1>2

----------------------------------------------------------------------------
(* Texts.                                                                  *)

\* What is under way.
Sent(q) == {q[i] : i \in DOMAIN q}

\* What is under way in a queue, its head and the rest.
LEMMA SentIs ==
  /\ Sent(<< >>) = {}
  /\ \A q \in Seq(Messages) : /\ Sent(q) \subseteq Messages
                              /\ q # << >> => Sent(q) = {Head(q)} \union Sent(Tail(q))
  /\ \A q, t \in Seq(Messages) : Sent(q \o t) = Sent(q) \union Sent(t)
  /\ \A x, y \in Messages : Sent(<<x>>) = {x} /\ Sent(<<x, y>>) = {x, y}
<1>1. Sent(<< >>) = {} BY DEF Sent
<1>2. ASSUME NEW q \in Seq(Messages) PROVE Sent(q) \subseteq Messages
  BY DEF Sent
<1>3. ASSUME NEW q \in Seq(Messages), q # << >>
      PROVE  Sent(q) = {Head(q)} \union Sent(Tail(q))
  <2>1. /\ 1 \in DOMAIN q /\ q[1] = Head(q)
        /\ \A i \in DOMAIN Tail(q) : i + 1 \in DOMAIN q /\ Tail(q)[i] = q[i + 1]
        /\ \A i \in DOMAIN q : i = 1 \/ (i - 1 \in DOMAIN Tail(q) /\ Tail(q)[i - 1] = q[i])
    BY <1>3
  <2>2. Sent(q) \subseteq {Head(q)} \union Sent(Tail(q)) BY <2>1 DEF Sent
  <2>3. {Head(q)} \union Sent(Tail(q)) \subseteq Sent(q) BY <2>1 DEF Sent
  <2> QED BY <2>2, <2>3
<1>4. ASSUME NEW q \in Seq(Messages), NEW t \in Seq(Messages)
      PROVE  Sent(q \o t) = Sent(q) \union Sent(t)
  <2>1. /\ \A i \in DOMAIN (q \o t) : \/ i \in DOMAIN q /\ (q \o t)[i] = q[i]
                                      \/ i - Len(q) \in DOMAIN t /\ (q \o t)[i] = t[i - Len(q)]
        /\ \A i \in DOMAIN q : i \in DOMAIN (q \o t) /\ (q \o t)[i] = q[i]
        /\ \A j \in DOMAIN t : Len(q) + j \in DOMAIN (q \o t) /\ (q \o t)[Len(q) + j] = t[j]
    OBVIOUS
  <2>2. Sent(q \o t) \subseteq Sent(q) \union Sent(t) BY <2>1 DEF Sent
  <2>3. Sent(q) \subseteq Sent(q \o t) BY <2>1 DEF Sent
  <2>4. Sent(t) \subseteq Sent(q \o t)
    <3> SUFFICES ASSUME NEW j \in DOMAIN t PROVE t[j] \in Sent(q \o t)
      BY DEF Sent
    <3> DEFINE i == Len(q) + j
    <3>1. i \in DOMAIN (q \o t) /\ (q \o t)[i] = t[j] BY <2>1
    <3> HIDE DEF i
    <3> QED BY <3>1 DEF Sent
  <2> QED BY <2>2, <2>3, <2>4
<1>5. ASSUME NEW x \in Messages, NEW y \in Messages
      PROVE  Sent(<<x>>) = {x} /\ Sent(<<x, y>>) = {x, y}
  <2>1. DOMAIN <<x>> = {1} /\ <<x>>[1] = x /\ DOMAIN <<x, y>> = {1, 2}
        /\ <<x, y>>[1] = x /\ <<x, y>>[2] = y
    OBVIOUS
  <2> QED BY <2>1 DEF Sent
<1> QED BY <1>1, <1>2, <1>3, <1>4, <1>5

\* What is sent comes on top.
LEMMA SentMore ==
  ASSUME NEW q \in Seq(Messages), NEW x \in Messages, NEW y \in Messages
  PROVE  /\ Sent(q \o <<x>>) = Sent(q) \union {x}
         /\ Sent(q \o <<x, y>>) = Sent(q) \union {x, y}
<1>1. PICK t : t = <<x>> OBVIOUS
<1>2. t \in Seq(Messages) /\ Sent(t) = {x}
  <2>1. t \in Seq(Messages) BY <1>1
  <2>2. Sent(t) = {x} BY <1>1, SentIs, Zenon
  <2> QED BY <2>1, <2>2
<1>3. PICK u : u = <<x, y>> OBVIOUS
<1>4. u \in Seq(Messages) BY <1>3
<1>5. Sent(u) = {x, y} BY <1>3, SentIs, Zenon
<1>6. Sent(q \o t) = Sent(q) \union Sent(t) /\ Sent(q \o u) = Sent(q) \union Sent(u)
  BY <1>2, <1>4, SentIs
<1> QED BY <1>1, <1>2, <1>3, <1>5, <1>6

\* The messages that bring the text of the note that their sender has now.
CarriesUp(m, r, gen) ==
  \/ m.kind = "note" /\ m.gen = gen
  \/ m.kind = "bundle" /\ (2 \in m.root.sets <=> 2 \in r.sets)

CarriesDown(m, s, sgen) ==
  \/ m.kind = "note" /\ m.gen = sgen
  \/ m.kind = "bootstrap" /\ Latest(m.root) = Latest(s)

\* A client that counts as the room does, or will with its bootstrap.
Listens(state, late) == state = "connecting" \/ (state = "on" /\ ~late)

\* Every edit a client has is lost, in the room, on its way, or to be flushed; s and t are the
\* root and the note of the room, r and n those of the client.
TextUp(s, t, q, r, n, pending, gone) ==
  Instance(r) # 0 /\ Instance(r) \notin s.dels /\ "note" \notin pending =>
    \A e \in n.doc :
      \/ e \in gone
      \/ Latest(s) = Latest(r) /\ e \in t.doc
      \/ \E m \in Sent(q) : e \in m.doc /\ CarriesUp(m, r, n.gen)

\* Every edit the room has, a client has or is sent.
TextDown(s, t, q, r, n, state, late) ==
  Listens(state, late) /\ Instance(s) # 0 /\ Instance(s) \notin r.dels =>
    \A e \in t.doc :
      \/ state = "on" /\ Latest(s) = Latest(r) /\ e \in n.doc
      \/ \E m \in Sent(q) : e \in m.doc /\ CarriesDown(m, s, t.gen)

\* And nothing is under way that its sender has not, as long as it has the same note.
OwnUp(q, r, n) ==
  Instance(r) # 0 => \A m \in Sent(q) : CarriesUp(m, r, n.gen) => m.doc \subseteq n.doc

OwnDown(s, t, q) ==
  \A m \in Sent(q) :
    /\ m.kind = "note" /\ m.gen = t.gen /\ Instance(s) # 0 => m.doc \subseteq t.doc
    /\ m.kind = "bootstrap" /\ Instance(m.root) # 0 /\ Instance(m.root) \notin s.dels =>
         m.doc \subseteq t.doc

ClientTexts(c) ==
  /\ OwnUp(up[c], root[c], note[c])
  /\ TextUp(sroot, snote, up[c], root[c], note[c], resync[c], lost)
  /\ OwnDown(sroot, snote, down[c])
  /\ TextDown(sroot, snote, down[c], root[c], note[c], conn[c], c \in stale)

Texted == \A c \in Clients : ClientTexts(c)

\* What is known of a client and the room by now.
LEMMA AllOf ==
  ASSUME CountInv, RootInv, CountedAlike, Gens, NEW c \in Clients
  PROVE  /\ sroot \in Roots /\ root[c] \in Roots /\ Legal(sroot) /\ Legal(root[c])
         /\ snote \in Notes /\ note[c] \in Notes /\ snote.gen \in 0..2 /\ note[c].gen \in Nat
         /\ up[c] \in Seq(Messages) /\ down[c] \in Seq(Messages)
         /\ snote.gen = Rank(sroot) + Offset /\ Offset \in Int /\ RoomHolds
         /\ Holds(c, sroot, root[c], note[c], kept[c], resync[c], conn[c], stale)
         /\ GensUp(sroot, up[c], note[c].gen)
         /\ GensDown(root[c], down[c], conn[c], note[c].gen, snote.gen, Offset)
         /\ conn[c] # "on" => up[c] = << >>
         /\ conn[c] = "on" /\ c \notin stale =>
              note[c].gen = Rank(root[c]) + Offset /\ note[c].gen # 3
         /\ Rank(root[c]) \in 0..2 /\ Rank(sroot) \in 0..2
<1>1. /\ sroot \in Roots /\ root[c] \in Roots /\ Legal(sroot) /\ Legal(root[c])
      /\ snote \in Notes /\ note[c] \in Notes /\ note[c].gen \in Nat
      /\ up[c] \in Seq(Messages) /\ down[c] \in Seq(Messages)
      /\ conn[c] # "on" => up[c] = << >>
  BY RootTypes, GenTypes DEF RootInv, GoesUp
<1>2. /\ snote.gen = Rank(sroot) + Offset /\ Offset \in Int /\ snote.gen \in Nat
      /\ Rank(root[c]) \in 0..2 /\ Rank(sroot) \in 0..2
  BY GenTypes
<1>3. snote.gen \in 0..2 BY <1>2 DEF CountedAlike
<1>4. /\ Holds(c, sroot, root[c], note[c], kept[c], resync[c], conn[c], stale)
      /\ GensUp(sroot, up[c], note[c].gen) /\ RoomHolds
      /\ GensDown(root[c], down[c], conn[c], note[c].gen, snote.gen, Offset)
  BY DEF Gens, ClientGens
<1>5. conn[c] = "on" /\ c \notin stale =>
        note[c].gen = Rank(root[c]) + Offset /\ note[c].gen # 3
  BY <1>4 DEF CountedAlike, Holds
<1> QED BY <1>1, <1>2, <1>3, <1>4, <1>5

\* In roots in order the rank tells the last values apart.
LEMMA SameRank ==
  ASSUME NEW r \in Roots, NEW s \in Roots, Legal(r), Legal(s)
  PROVE  /\ Rank(r) = Rank(s) => Latest(r) = Latest(s)
         /\ Latest(r) = Latest(s) => Rank(r) = Rank(s)
         /\ Rank(r) < Rank(s) /\ Instance(r) # 0 => Instance(r) \in s.dels
<1>1. /\ Latest(r) = IF r.sets = {} THEN 0 ELSE IF 2 \in r.sets THEN 3 ELSE 1
      /\ Latest(s) = IF s.sets = {} THEN 0 ELSE IF 2 \in s.sets THEN 3 ELSE 1
      /\ 2 \in s.sets => s.sets = {1, 2, 3}
  BY LegalInstance
<1>2. Rank(r) < Rank(s) /\ Instance(r) # 0 => Instance(r) \in s.dels
  <2> SUFFICES ASSUME Rank(r) < Rank(s), Instance(r) # 0 PROVE Instance(r) \in s.dels
    OBVIOUS
  <2>1. Instance(r) = Latest(r) BY DEF Instance
  <2>2. Latest(r) = 1 /\ Latest(s) = 3
    <3>1. Latest(r) \in {1, 3} BY <1>1, <2>1
    <3>2. Latest(s) \in {0, 1, 3} BY <1>1
    <3> QED BY <3>1, <3>2 DEF Rank
  <2>3. 3 \in s.sets BY <1>1, <2>2
  <2> QED BY <2>1, <2>2, <2>3 DEF Legal
<1>3. Rank(r) = Rank(s) => Latest(r) = Latest(s)
  <2>1. Latest(r) \in {0, 1, 3} /\ Latest(s) \in {0, 1, 3} BY <1>1
  <2> HIDE DEF Latest
  <2> QED BY <2>1 DEF Rank
<1> QED BY <1>2, <1>3 DEF Rank

\* A note that is nowhere removed is the same for who knows less and who knows more.
LEMMA StillThere ==
  ASSUME NEW r \in Roots, NEW s \in Roots, Legal(r), Legal(s),
         Instance(r) # 0, Instance(r) \notin s.dels, 1 \in r.sets => 1 \in s.sets,
         2 \in r.sets => 2 \in s.sets
  PROVE  Latest(s) = Latest(r) /\ Instance(s) = Instance(r) /\ Rank(s) = Rank(r)
<1>1. /\ Latest(r) = IF r.sets = {} THEN 0 ELSE IF 2 \in r.sets THEN 3 ELSE 1
      /\ Latest(s) = IF s.sets = {} THEN 0 ELSE IF 2 \in s.sets THEN 3 ELSE 1
      /\ 2 \in s.sets => s.sets = {1, 2, 3}
      /\ 1 \notin r.sets => r.sets = {}
  BY LegalInstance
<1>2. Instance(r) = Latest(r) /\ Latest(r) # 0 BY DEF Instance
<1>3. 1 \in r.sets /\ 1 \in s.sets BY <1>1, <1>2
<1>4. CASE 2 \in r.sets
  <2>1. Latest(s) = 3 /\ Latest(r) = 3 BY <1>1, <1>3, <1>4
  <2> QED BY <1>2, <2>1 DEF Instance, Rank
<1>5. CASE 2 \notin r.sets
  <2>1. Latest(r) = 1 BY <1>1, <1>3, <1>5
  <2>2. 3 \notin s.sets BY <1>2, <2>1 DEF Legal
  <2>3. Latest(s) = 1 BY <1>1, <1>3, <2>2
  <2> QED BY <1>2, <2>1, <2>3 DEF Instance, Rank
<1> QED BY <1>4, <1>5

\* In particular for a client, unless it has just brought the note back.
LEMMA SameLatest ==
  ASSUME CountInv, RootInv, CountedAlike, Gens, NEW c \in Clients, 1 \in sroot.sets,
         Instance(root[c]) # 0, Instance(root[c]) \notin sroot.dels, note[c].gen # 3
  PROVE  Latest(sroot) = Latest(root[c]) /\ Instance(sroot) = Instance(root[c])
         /\ Rank(sroot) = Rank(root[c])
<1>1. /\ sroot \in Roots /\ root[c] \in Roots /\ Legal(sroot) /\ Legal(root[c])
      /\ Holds(c, sroot, root[c], note[c], kept[c], resync[c], conn[c], stale)
  BY AllOf
<1>2. 2 \in root[c].sets => 2 \in sroot.sets BY <1>1 DEF Holds
<1> QED BY <1>1, <1>2, StillThere

\* A step of one client: what the others have and are sent is as before.
LEMMA OthersKeep ==
  ASSUME Texted, NEW c \in Clients, Alone(c), ClientTexts(c)'
  PROVE  Texted'
<1>1. ASSUME NEW d \in Clients, d # c PROVE ClientTexts(d)'
  <2>1. /\ conn'[d] = conn[d] /\ root'[d] = root[d] /\ note'[d] = note[d]
        /\ resync'[d] = resync[d] /\ up'[d] = up[d] /\ down'[d] = down[d]
        /\ (d \in stale' <=> d \in stale) /\ UNCHANGED <<sroot, snote>> /\ lost \subseteq lost'
    BY <1>1 DEF Alone
  <2>2. /\ OwnUp(up[d], root[d], note[d])
        /\ TextUp(sroot, snote, up[d], root[d], note[d], resync[d], lost)
        /\ OwnDown(sroot, snote, down[d])
        /\ TextDown(sroot, snote, down[d], root[d], note[d], conn[d], d \in stale)
    BY DEF Texted, ClientTexts
  <2>3. TextUp(sroot, snote, up[d], root[d], note[d], resync[d], lost')
    BY <2>1, <2>2 DEF TextUp
  <2>4. TextDown(sroot, snote, down[d], root[d], note[d], conn[d], d \in stale')
    BY <2>1, <2>2 DEF TextDown, Listens
  <2> QED BY <2>1, <2>2, <2>3, <2>4 DEF ClientTexts
<1> QED BY <1>1 DEF Texted

\* What the user writes goes out at once or is to be flushed.
LEMMA EditTexts ==
  ASSUME CountInv, CountInv', RootInv, CountedAlike, Gens, Texted, NEW c \in Clients, EditNote(c)
  PROVE  Texted'
<1>1. Alone(c) BY ClientSteps
<1>2. /\ OwnUp(up[c], root[c], note[c])
      /\ TextUp(sroot, snote, up[c], root[c], note[c], resync[c], lost)
      /\ OwnDown(sroot, snote, down[c])
      /\ TextDown(sroot, snote, down[c], root[c], note[c], conn[c], c \in stale)
      /\ note[c] \in Notes /\ note[c].gen \in 0..4 /\ up[c] \in Seq(Messages)
  BY AllOf DEF Texted, ClientTexts, Notes
<1>3. UNCHANGED <<root, sroot, snote, conn, down, stale, lost>>
  BY DEF EditNote, room, history
<1>4. note'[c].gen = note[c].gen /\ note'[c].doc = note[c].doc \union {edits'}
  <2>1. note' = [note EXCEPT ![c].doc = @ \union {edits'}] BY DEF EditNote
  <2>2. note'[c] = [note[c] EXCEPT !.doc = @ \union {edits'}] BY <2>1, RootTypes
  <2> QED BY <1>2, <2>2 DEF Notes
<1>5. TextDown(sroot', snote', down'[c], root'[c], note'[c], conn'[c], c \in stale')
  BY <1>2, <1>3, <1>4 DEF TextDown
<1>6. CASE conn[c] = "on" /\ note[c].ready
  <2> DEFINE m == NoteUpdate(note[c].gen, {edits'})
  <2>1. up'[c] = up[c] \o <<m>> /\ resync' = resync
    BY <1>6, RootTypes DEF EditNote, Emit
  <2>2. m.kind = "note" /\ m.gen = note[c].gen /\ m.doc = {edits'} BY DEF NoteUpdate
  <2>3. Sent(up'[c]) = Sent(up[c]) \union {m}
    <3>1. m \in Messages
      <4>1. edits' \in 0..MaxEdits BY DEF CountInv, TypeOK
      <4>2. {edits'} \in Texts BY <4>1 DEF Texts
      <4> QED BY <1>2, <4>2 DEF NoteUpdate, Messages, Nothing, Change, Roots
    <3> HIDE DEF m
    <3>2. Sent(up[c] \o <<m>>) = Sent(up[c]) \union {m} BY <1>2, <3>1, SentMore
    <3> QED BY <2>1, <3>2
  <2> HIDE DEF m
  <2>4. OwnUp(up'[c], root'[c], note'[c]) BY <1>2, <1>3, <1>4, <2>2, <2>3 DEF OwnUp
  <2>5. TextUp(sroot', snote', up'[c], root'[c], note'[c], resync'[c], lost')
    <3>1. CarriesUp(m, root[c], note[c].gen) /\ edits' \in m.doc BY <2>2 DEF CarriesUp
    <3> QED BY <1>2, <1>3, <1>4, <2>1, <2>3, <3>1 DEF TextUp
  <2>6. ClientTexts(c)' BY <1>2, <1>3, <1>5, <2>4, <2>5 DEF ClientTexts
  <2> QED BY <1>1, <2>6, OthersKeep
<1>7. CASE ~(conn[c] = "on" /\ note[c].ready)
  <2>1. up' = up /\ "note" \in resync'[c]
    BY <1>7, RootTypes DEF EditNote
  <2>2. OwnUp(up'[c], root'[c], note'[c]) BY <1>2, <1>3, <1>4, <2>1 DEF OwnUp
  <2>3. TextUp(sroot', snote', up'[c], root'[c], note'[c], resync'[c], lost')
    BY <2>1 DEF TextUp
  <2>4. ClientTexts(c)' BY <1>2, <1>3, <1>5, <2>2, <2>3 DEF ClientTexts
  <2> QED BY <1>1, <2>4, OthersKeep
<1> QED BY <1>6, <1>7

\* A bundle introduces something, and its sender has it.
LEMMA BundleBrings ==
  ASSUME CountInv, RootInv, NEW c \in Clients, NEW m \in Sent(up[c]), m.kind = "bundle"
  PROVE  /\ m \in Messages /\ m.root.sets \in {{1}, {2}} /\ m.root.dels = {}
         /\ m.root.sets \subseteq root[c].sets
<1>1. GoesUp(sroot, root[c], up[c], resync[c], conn[c]) /\ up[c] \in Seq(Messages)
  BY RootTypes DEF RootInv
<1>2. PICK i \in DOMAIN up[c] : m = up[c][i] BY DEF Sent
<1>3. m \in Messages BY <1>1, <1>2
<1>4. Within(m.root, root[c]) /\ FitsRoom(m, Ahead(sroot, up[c], i - 1))
  BY <1>1, <1>2 DEF GoesUp
<1> QED BY <1>3, <1>4 DEF FitsRoom, Creates, Restores, Change, Within

\* A note is of no generation its sender has not reached.
LEMMA NotesBehind ==
  ASSUME CountInv, Gens, NEW c \in Clients
  PROVE  /\ \A m \in Sent(up[c]) : m.kind = "note" => m.gen \in Nat /\ m.gen <= note[c].gen
         /\ \A m \in Sent(down[c]) : m.kind = "note" => m.gen \in Nat /\ m.gen <= snote.gen
<1>1. /\ up[c] \in Seq(Messages) /\ down[c] \in Seq(Messages)
      /\ GensUp(sroot, up[c], note[c].gen)
      /\ GensDown(root[c], down[c], conn[c], note[c].gen, snote.gen, Offset)
  BY RootTypes DEF Gens, ClientGens
<1>2. ASSUME NEW m \in Sent(up[c]), m.kind = "note" PROVE m.gen \in Nat /\ m.gen <= note[c].gen
  <2>1. PICK i \in DOMAIN up[c] : m = up[c][i] BY DEF Sent
  <2>2. m \in Messages BY <1>1, <2>1
  <2> QED BY <1>1, <1>2, <2>1, <2>2 DEF GensUp, Messages
<1>3. ASSUME NEW m \in Sent(down[c]), m.kind = "note" PROVE m.gen \in Nat /\ m.gen <= snote.gen
  <2>1. PICK i \in DOMAIN down[c] : m = down[c][i] BY DEF Sent
  <2>2. m \in Messages BY <1>1, <2>1
  <2> QED BY <1>1, <1>3, <2>1, <2>2 DEF GensDown, Messages
<1> QED BY <1>2, <1>3

\* A note that is created goes with its text.
LEMMA CreateTexts ==
  ASSUME CountInv, CountInv', RootInv, CountedAlike, Gens, Texted, NEW c \in Clients,
         CreateNote(c), mishaps' = {}
  PROVE  Texted'
<1> DEFINE change == Change({1}, {})
           m      == Bundle(change, {Body})
<1>1. Alone(c) BY ClientSteps
<1>2. /\ OwnDown(sroot, snote, down[c]) /\ sroot \in Roots /\ root[c] \in Roots
      /\ Legal(root[c]) /\ Legal(sroot) /\ up[c] \in Seq(Messages) /\ note[c].gen \in Nat
  BY AllOf DEF Texted, ClientTexts
<1>3. UNCHANGED <<sroot, snote, down, lost>> /\ conn[c] = "on"
  BY DEF CreateNote, ChangeRoot, room
<1>4. /\ root'[c] = Merge(root[c], change) /\ up'[c] = up[c] \o <<m>>
      /\ note'[c] = [doc |-> {Body}, gen |-> note[c].gen + 1, ready |-> TRUE]
  BY <1>3, RootTypes DEF CreateNote, ChangeRoot, Emit
<1>5. root[c].sets = {} /\ sroot.sets = {}
  <2>1. 1 \notin sroot.sets /\ 1 \notin root[c].sets BY DEF CreateNote
  <2> QED BY <1>2, <2>1, LegalInstance
<1>6. Instance(sroot) = 0
  <2>1. Latest(sroot) = 0 BY <1>2, <1>5, LatestIs
  <2> QED BY <2>1 DEF Instance
<1>7. m \in Messages /\ m.kind = "bundle" /\ m.doc = {Body} /\ m.root = change
  <2>1. change \in Roots BY TextsTyped
  <2> HIDE DEF change
  <2> QED BY <2>1, TextsTyped, MessagesTyped DEF Bundle
<1>8. 2 \notin m.root.sets /\ 2 \notin root'[c].sets
  <2>1. change.sets = {1} BY DEF Change
  <2> HIDE DEF change, m
  <2>2. root'[c].sets = root[c].sets \union change.sets BY <1>4 DEF Merge
  <2> QED BY <1>5, <1>7, <2>1, <2>2
<1> HIDE DEF m, change
<1>9. Sent(up'[c]) = Sent(up[c]) \union {m}
  <2>1. Sent(up[c] \o <<m>>) = Sent(up[c]) \union {m} BY <1>2, <1>7, SentMore
  <2> QED BY <1>4, <2>1
<1>10. CarriesUp(m, root'[c], note'[c].gen) BY <1>7, <1>8 DEF CarriesUp
<1>11. note'[c].doc = {Body} /\ note'[c].gen = note[c].gen + 1 BY <1>4
<1>12. ASSUME NEW k \in Sent(up[c]) PROVE ~CarriesUp(k, root'[c], note'[c].gen)
  <2>1. k.kind # "bundle" BY <1>5, BundleBrings
  <2>2. k.kind = "note" => k.gen \in Nat /\ k.gen <= note[c].gen BY NotesBehind
  <2> QED BY <1>2, <1>11, <2>1, <2>2 DEF CarriesUp
<1>13. OwnUp(up'[c], root'[c], note'[c]) BY <1>7, <1>9, <1>11, <1>12 DEF OwnUp
<1>14. TextUp(sroot', snote', up'[c], root'[c], note'[c], resync'[c], lost')
  BY <1>7, <1>9, <1>10, <1>11 DEF TextUp
<1>15. TextDown(sroot', snote', down'[c], root'[c], note'[c], conn'[c], c \in stale')
  BY <1>3, <1>6 DEF TextDown
<1>16. ClientTexts(c)' BY <1>2, <1>3, <1>13, <1>14, <1>15 DEF ClientTexts
<1> QED BY <1>1, <1>16, OthersKeep

\* What is removed has no text any more, and the room is to hear of it.
LEMMA RemoveTexts ==
  ASSUME CountInv, CountInv', RootInv, CountedAlike, Gens, Texted, NEW c \in Clients, RemoveNote(c)
  PROVE  Texted'
<1> DEFINE change == Change({}, {Instance(root[c])})
           r      == Merge(root[c], change)
<1>1. Alone(c) BY ClientSteps
<1>2. /\ OwnDown(sroot, snote, down[c]) /\ sroot \in Roots /\ root[c] \in Roots
      /\ TextDown(sroot, snote, down[c], root[c], note[c], conn[c], c \in stale)
      /\ Instance(root[c]) # 0
  BY AllOf DEF Texted, ClientTexts, RemoveNote
<1>3. UNCHANGED <<sroot, snote, conn, down, lost, stale>> /\ root'[c] = r
  BY RootTypes DEF RemoveNote, ChangeRoot, room
<1>4. r.sets = root[c].sets /\ r.dels = root[c].dels \union {Instance(root[c])}
  BY DEF Merge, Change
<1>5. Latest(root[c]) = Instance(root[c]) BY <1>2 DEF Instance
<1>6. Instance(r) = 0
  <2>1. change \in Roots
    <3>1. Instance(root[c]) \in 1..3 BY <1>2, RootGrows
    <3> QED BY <3>1, TextsTyped
  <2>2. r \in Roots BY <1>2, <2>1, MergeTyped
  <2> HIDE DEF r
  <2>3. Latest(r) = Latest(root[c]) BY <1>2, <1>4, <2>2, RankIs
  <2> QED BY <1>4, <1>5, <2>3 DEF Instance
<1> HIDE DEF r
<1>7. /\ OwnUp(up'[c], root'[c], note'[c])
      /\ TextUp(sroot', snote', up'[c], root'[c], note'[c], resync'[c], lost')
  BY <1>3, <1>6 DEF OwnUp, TextUp
<1>8. TextDown(sroot, snote, down[c], r, note'[c], conn[c], c \in stale)
  <2> SUFFICES ASSUME Listens(conn[c], c \in stale), Instance(sroot) # 0,
                      Instance(sroot) \notin r.dels, NEW e \in snote.doc
               PROVE  \E m \in Sent(down[c]) : e \in m.doc /\ CarriesDown(m, sroot, snote.gen)
    BY DEF TextDown
  <2>1. Instance(sroot) \notin root[c].dels /\ Instance(sroot) # Instance(root[c]) BY <1>4
  <2>2. Latest(sroot) # Latest(root[c]) BY <1>5, <2>1 DEF Instance
  <2> QED BY <1>2, <2>1, <2>2 DEF TextDown
<1>9. ClientTexts(c)' BY <1>2, <1>3, <1>7, <1>8 DEF ClientTexts
<1> QED BY <1>1, <1>9, OthersKeep

\* Who undoes a removal sends the text it has kept.
LEMMA UndoTexts ==
  ASSUME CountInv, CountInv', RootInv, CountedAlike, Gens, Texted, NEW c \in Clients,
         UndoRemoval(c), mishaps' = {}
  PROVE  Texted'
<1> DEFINE change == Change({2, 3}, {})
           x      == RootUpdate(Change({3}, {}))
           y      == Bundle(Change({2}, {}), kept[c])
<1>1. Alone(c) BY ClientSteps
<1>2. /\ OwnDown(sroot, snote, down[c]) /\ sroot \in Roots /\ root[c] \in Roots
      /\ Legal(root[c]) /\ up[c] \in Seq(Messages) /\ note[c].gen \in Nat
      /\ 2 \notin root[c].sets /\ kept[c] \in Texts
  BY AllOf, RootTypes DEF Texted, ClientTexts, UndoRemoval
<1>3. UNCHANGED <<sroot, snote, conn, down, lost>> /\ conn[c] = "on" /\ c \in stale'
  BY DEF UndoRemoval, ChangeRoot, room
<1>4. /\ root'[c] = Merge(root[c], change) /\ up'[c] = up[c] \o <<x, y>>
      /\ note'[c] = [doc |-> kept[c], gen |-> note[c].gen + 2, ready |-> TRUE]
  BY <1>3, RootTypes DEF UndoRemoval, ChangeRoot, Emit
<1>5. /\ x \in Messages /\ x.kind = "root"
      /\ y \in Messages /\ y.kind = "bundle" /\ y.doc = kept[c] /\ 2 \in y.root.sets
  <2>1. x \in Messages /\ y \in Messages BY <1>2, TextsTyped, MessagesTyped
  <2> QED BY <2>1 DEF RootUpdate, Bundle, Change
<1>6. 2 \in root'[c].sets BY <1>4 DEF Merge, Change
<1> HIDE DEF x, y, change
<1>7. Sent(up'[c]) = Sent(up[c]) \union {x, y}
  <2>1. Sent(up[c] \o <<x, y>>) = Sent(up[c]) \union {x, y} BY <1>2, <1>5, SentMore
  <2> QED BY <1>4, <2>1
<1>8. CarriesUp(y, root'[c], note'[c].gen) /\ ~CarriesUp(x, root'[c], note'[c].gen)
  BY <1>5, <1>6 DEF CarriesUp
<1>9. note'[c].doc = kept[c] /\ note'[c].gen = note[c].gen + 2 BY <1>4
<1>10. ASSUME NEW k \in Sent(up[c]) PROVE ~CarriesUp(k, root'[c], note'[c].gen)
  <2>1. k.kind = "bundle" => 2 \notin k.root.sets BY <1>2, BundleBrings
  <2>2. k.kind = "note" => k.gen \in Nat /\ k.gen <= note[c].gen BY NotesBehind
  <2> QED BY <1>2, <1>6, <1>9, <2>1, <2>2 DEF CarriesUp
<1>11. OwnUp(up'[c], root'[c], note'[c]) BY <1>5, <1>7, <1>8, <1>9, <1>10 DEF OwnUp
<1>12. TextUp(sroot', snote', up'[c], root'[c], note'[c], resync'[c], lost')
  BY <1>5, <1>7, <1>8, <1>9 DEF TextUp
<1>13. TextDown(sroot', snote', down'[c], root'[c], note'[c], conn'[c], c \in stale')
  BY <1>3 DEF TextDown, Listens
<1>14. ClientTexts(c)' BY <1>2, <1>3, <1>11, <1>12, <1>13 DEF ClientTexts
<1> QED BY <1>1, <1>14, OthersKeep

\* The bootstrap has the text of the room; what breaks with a connection is lost.
LEMMA ConnectionTexts ==
  ASSUME CountInv, CountInv', RootInv, CountedAlike, Gens, Texted, NEW c \in Clients,
         Connect(c) \/ Drop(c)
  PROVE  Texted'
<1>1. Alone(c) BY ClientSteps
<1>2. /\ OwnUp(up[c], root[c], note[c])
      /\ TextUp(sroot, snote, up[c], root[c], note[c], resync[c], lost)
      /\ note[c] \in Notes /\ up[c] \in Seq(Messages)
  BY AllOf DEF Texted, ClientTexts
<1>3. UNCHANGED <<sroot, snote, root, resync, stale>>
  BY DEF Connect, Drop, room, history, client
<1>4. CASE Connect(c)
  <2> DEFINE b == Bootstrap
  <2>1. /\ conn'[c] = "connecting" /\ up' = up /\ down'[c] = <<b>> /\ lost' = lost
    BY <1>4, RootTypes DEF Connect, history
  <2>2. b \in Messages
    <3>1. down' \in [Clients -> Seq(Messages)] BY DEF CountInv, TypeOK
    <3>2. down'[c] \in Seq(Messages) BY <3>1
    <3> HIDE DEF b
    <3>3. <<b>> \in Seq(Messages) BY <2>1, <3>2
    <3>4. <<b>>[1] \in Messages BY <3>3
    <3> QED BY <3>4
  <2>3. b.kind = "bootstrap" /\ b.root = sroot /\ b.doc = snote.doc BY DEF Bootstrap
  <2> HIDE DEF b
  <2>4. Sent(down'[c]) = {b}
    <3>1. Sent(<<b>>) = {b} BY <2>2, SentIs, Zenon
    <3> QED BY <2>1, <3>1
  <2>5. note'[c].gen = note[c].gen /\ note'[c].doc = note[c].doc
    <3>1. note' = [note EXCEPT ![c].ready = FALSE] BY <1>4 DEF Connect
    <3>2. note'[c] = [note[c] EXCEPT !.ready = FALSE] BY <3>1, RootTypes
    <3> QED BY <1>2, <3>2 DEF Notes
  <2>6. OwnUp(up'[c], root'[c], note'[c]) BY <1>2, <1>3, <2>1, <2>5 DEF OwnUp
  <2>7. TextUp(sroot', snote', up'[c], root'[c], note'[c], resync'[c], lost')
    BY <1>2, <1>3, <2>1, <2>5 DEF TextUp
  <2>8. OwnDown(sroot', snote', down'[c]) BY <1>3, <2>3, <2>4 DEF OwnDown
  <2>9. TextDown(sroot', snote', down'[c], root'[c], note'[c], conn'[c], c \in stale')
    BY <1>3, <2>3, <2>4 DEF TextDown, CarriesDown
  <2>10. ClientTexts(c)' BY <2>6, <2>7, <2>8, <2>9 DEF ClientTexts
  <2> QED BY <1>1, <2>10, OthersKeep
<1>5. CASE Drop(c)
  <2>1. /\ conn'[c] = "off" /\ note' = note /\ up'[c] = << >> /\ down'[c] = << >>
        /\ lost' = lost \union UNION {m.doc : m \in {up[c][i] : i \in DOMAIN up[c]}}
    BY <1>5, RootTypes DEF Drop, Attached, client
  <2>2. Sent(up'[c]) = {} /\ Sent(down'[c]) = {} BY <2>1, SentIs
  <2>3. \A m \in Sent(up[c]) : m.doc \subseteq lost' BY <2>1 DEF Sent
  <2>4. OwnUp(up'[c], root'[c], note'[c]) /\ OwnDown(sroot', snote', down'[c])
    BY <2>2 DEF OwnUp, OwnDown
  <2>5. lost \subseteq lost' BY <2>1
  <2>6. TextUp(sroot', snote', up'[c], root'[c], note'[c], resync'[c], lost')
    BY <1>2, <1>3, <2>1, <2>3, <2>5 DEF TextUp
  <2>7. TextDown(sroot', snote', down'[c], root'[c], note'[c], conn'[c], c \in stale')
    BY <2>1 DEF TextDown, Listens
  <2>8. ClientTexts(c)' BY <2>4, <2>6, <2>7 DEF ClientTexts
  <2> QED BY <1>1, <2>8, OthersKeep
<1> QED BY <1>4, <1>5

\* A room that is opened again has its text still.
LEMMA ReopenTexts ==
  ASSUME CountInv, RootInv, Texted, ReopenRoom
  PROVE  Texted'
<1>1. /\ UNCHANGED <<conn, root, note, resync, kept, up, down, sroot, stale, lost>>
      /\ \A c \in Clients : conn[c] \notin {"connecting", "on"}
  BY DEF ReopenRoom, client, network, history, Attached
<1>2. snote'.doc = snote.doc
  <2>1. snote' = [snote EXCEPT !.gen = IF Instance(sroot) = 0 THEN 0 ELSE 1] BY DEF ReopenRoom
  <2> QED BY <2>1, RootTypes DEF Notes
<1>3. ASSUME NEW c \in Clients PROVE ClientTexts(c)'
  <2>1. up[c] = << >> /\ down[c] = << >>
    <3>1. GoesUp(sroot, root[c], up[c], resync[c], conn[c])
          /\ GoesDown(sroot, root[c], down[c], conn[c])
      BY DEF RootInv
    <3> QED BY <1>1, <3>1 DEF GoesUp, GoesDown
  <2>2. Sent(up'[c]) = {} /\ Sent(down'[c]) = {} BY <1>1, <2>1, SentIs
  <2>3. TextUp(sroot, snote, up[c], root[c], note[c], resync[c], lost)
    BY DEF Texted, ClientTexts
  <2>4. TextUp(sroot', snote', up'[c], root'[c], note'[c], resync'[c], lost')
    BY <1>1, <1>2, <2>3 DEF TextUp
  <2>5. TextDown(sroot', snote', down'[c], root'[c], note'[c], conn'[c], c \in stale')
    BY <1>1 DEF TextDown, Listens
  <2> QED BY <2>2, <2>4, <2>5 DEF ClientTexts, OwnUp, OwnDown
<1> QED BY <1>3 DEF Texted

\* What a client with a bootstrap hears of the root: a new note has no text yet.
LEMMA RootTexts ==
  ASSUME CountInv, CountInv', RootInv, CountedAlike, Gens, Texted, NEW c \in Clients,
         ReceiveRootUpdate(c)
  PROVE  Texted'
<1> DEFINE m == Head(down[c])
           r == Merge(root[c], m.root)
<1>1. Alone(c) BY ClientSteps DEF Receive
<1>2. /\ OwnUp(up[c], root[c], note[c])
      /\ TextUp(sroot, snote, up[c], root[c], note[c], resync[c], lost)
      /\ OwnDown(sroot, snote, down[c])
      /\ TextDown(sroot, snote, down[c], root[c], note[c], conn[c], c \in stale)
      /\ note[c] \in Notes /\ note[c].gen \in Nat /\ down[c] \in Seq(Messages)
      /\ root[c] \in Roots /\ Legal(root[c]) /\ sroot \in Roots
      /\ Instance(root[c]) = 0 => note[c].doc = {}
  BY AllOf DEF Texted, ClientTexts, Holds
<1>3. /\ UNCHANGED <<sroot, snote, resync, conn, up, lost, stale>>
      /\ down[c] # << >> /\ m.kind = "root" /\ down'[c] = Tail(down[c])
      /\ root'[c] = r /\ note'[c] = Follow(note[c], root[c], r)
  <2>1. UNCHANGED <<sroot, snote, resync, conn, up, lost, stale>> /\ down[c] # << >> /\ m.kind = "root"
    BY DEF ReceiveRootUpdate, room, history
  <2>2. down'[c] = Tail(down[c]) /\ root'[c] = r /\ note'[c] = Follow(note[c], root[c], r)
    BY RootTypes DEF ReceiveRootUpdate
  <2> QED BY <2>1, <2>2
<1>4. /\ m.root \in Roots /\ m.doc = {}
      /\ \/ Repeats(m.root, root[c]) \/ Creates(m.root, root[c])
         \/ Announces(m.root, root[c]) \/ Restores(m.root, root[c])
  <2>1. GoesDown(sroot, root[c], down[c], conn[c]) BY DEF RootInv
  <2>2. m.root \in Roots BY <1>2, <1>3, QueueHead
  <2>3. FitsClient(m, root[c]) BY <1>2, <1>3, <2>1, DownHead
  <2> QED BY <1>3, <2>2, <2>3 DEF FitsClient
<1>5. Sent(down[c]) = {m} \union Sent(down'[c]) BY <1>2, <1>3, SentIs
<1>6. OwnDown(sroot', snote', down'[c]) BY <1>2, <1>3, <1>5 DEF OwnDown
<1>7. /\ Repeats(m.root, root[c]) =>
           /\ Latest(r) = Latest(root[c]) /\ Instance(r) \in {Instance(root[c]), 0}
           /\ r.sets = root[c].sets
      /\ Announces(m.root, root[c]) => Instance(r) = 0 /\ Instance(root[c]) = 0
      /\ Creates(m.root, root[c]) => Instance(r) = 1 /\ Instance(root[c]) = 0
      /\ Restores(m.root, root[c]) => Instance(r) = 3 /\ Instance(root[c]) = 0
  <2>1. Repeats(m.root, root[c]) => r.sets = root[c].sets BY DEF Repeats, Merge
  <2> HIDE DEF m
  <2> QED BY <1>2, <1>4, <2>1, ChangesOf
<1>8. CASE Instance(r) = Instance(root[c])
  <2>1. note'[c].doc = note[c].doc /\ note'[c].gen = note[c].gen
    <3>1. note'[c] = [note[c] EXCEPT !.ready = @ \/ note[c].doc # {}]
      BY <1>3, <1>8 DEF Follow
    <3> QED BY <1>2, <3>1 DEF Notes
  <2>2. Instance(r) # 0 => Repeats(m.root, root[c]) BY <1>4, <1>7, <1>8
  <2> HIDE DEF m, r
  <2>3. Instance(r) # 0 =>
          \A k : CarriesUp(k, r, note'[c].gen) <=> CarriesUp(k, root[c], note[c].gen)
    BY <1>7, <2>1, <2>2 DEF CarriesUp
  <2>4. OwnUp(up'[c], root'[c], note'[c]) BY <1>2, <1>3, <1>8, <2>1, <2>3 DEF OwnUp
  <2>5. TextUp(sroot', snote', up'[c], root'[c], note'[c], resync'[c], lost')
    BY <1>2, <1>3, <1>7, <1>8, <2>1, <2>2, <2>3 DEF TextUp
  <2>6. OwnUp(up'[c], root'[c], note'[c])
        /\ TextUp(sroot', snote', up'[c], root'[c], note'[c], resync'[c], lost')
    BY <2>4, <2>5
  <2>7. TextDown(sroot, snote, down'[c], r, note'[c], conn[c], c \in stale)
    <3> SUFFICES ASSUME Listens(conn[c], c \in stale), Instance(sroot) # 0,
                        Instance(sroot) \notin r.dels, NEW e \in snote.doc
                 PROVE  \/ conn[c] = "on" /\ Latest(sroot) = Latest(r) /\ e \in note'[c].doc
                        \/ \E k \in Sent(down'[c]) : e \in k.doc /\ CarriesDown(k, sroot, snote.gen)
      BY DEF TextDown
    <3>1. Instance(sroot) \notin root[c].dels BY <1>2, <1>4, MergeTyped DEF r
    <3>2. \/ conn[c] = "on" /\ Latest(sroot) = Latest(root[c]) /\ e \in note[c].doc
          \/ \E k \in Sent(down[c]) : e \in k.doc /\ CarriesDown(k, sroot, snote.gen)
      BY <1>2, <3>1 DEF TextDown
    <3>3. e \in note[c].doc => Instance(r) # 0 BY <1>2, <1>8
    <3> QED BY <1>4, <1>5, <1>7, <2>1, <2>2, <3>2, <3>3
  <2>8. ClientTexts(c)' BY <1>3, <1>6, <2>6, <2>7 DEF ClientTexts
  <2> QED BY <1>1, <2>8, OthersKeep
<1>9. CASE Instance(r) # Instance(root[c])
  <2>1. note'[c].doc = {} /\ (Instance(r) # 0 => note'[c].gen = note[c].gen + 1)
    BY <1>3, <1>9 DEF Follow
  <2>2. Instance(r) # 0 => root[c].sets = {} \/ (2 \in r.sets /\ 2 \notin root[c].sets)
    <3>1. Instance(r) # 0 => Creates(m.root, root[c]) \/ Restores(m.root, root[c])
      BY <1>4, <1>7, <1>9
    <3> QED BY <3>1 DEF Creates, Restores, Merge, Change
  <2> HIDE DEF m, r
  <2>3. ASSUME Instance(r) # 0, NEW k \in Sent(up[c]) PROVE ~CarriesUp(k, r, note'[c].gen)
    <3>1. k.kind = "bundle" => k.root.sets \in {{1}, {2}} /\ k.root.sets \subseteq root[c].sets
      BY BundleBrings
    <3>2. k.kind = "note" => k.gen \in Nat /\ k.gen <= note[c].gen BY NotesBehind
    <3>3. ~(k.kind = "bundle" /\ (2 \in k.root.sets <=> 2 \in r.sets))
      <4>1. CASE root[c].sets = {} BY <3>1, <4>1
      <4>2. CASE 2 \in r.sets /\ 2 \notin root[c].sets BY <3>1, <4>2
      <4> QED BY <2>2, <2>3, <4>1, <4>2
    <3>4. ~(k.kind = "note" /\ k.gen = note'[c].gen) BY <1>2, <2>1, <2>3, <3>2
    <3> QED BY <3>3, <3>4 DEF CarriesUp
  <2>4. OwnUp(up'[c], root'[c], note'[c]) BY <1>3, <2>3 DEF OwnUp
  <2>5. TextUp(sroot', snote', up'[c], root'[c], note'[c], resync'[c], lost')
    BY <1>3, <2>1 DEF TextUp
  <2>6. TextDown(sroot, snote, down'[c], r, note'[c], conn[c], c \in stale)
    <3> SUFFICES ASSUME Listens(conn[c], c \in stale), Instance(sroot) # 0,
                        Instance(sroot) \notin r.dels, NEW e \in snote.doc
                 PROVE  \E k \in Sent(down'[c]) : e \in k.doc /\ CarriesDown(k, sroot, snote.gen)
      BY DEF TextDown
    <3>1. Instance(sroot) \notin root[c].dels BY <1>2, <1>4, MergeTyped DEF r
    <3>2. \/ Latest(sroot) = Latest(root[c]) /\ e \in note[c].doc
          \/ \E k \in Sent(down[c]) : e \in k.doc /\ CarriesDown(k, sroot, snote.gen)
      BY <1>2, <3>1 DEF TextDown
    <3>3. ~(Latest(sroot) = Latest(root[c]) /\ e \in note[c].doc)
      <4> SUFFICES ASSUME Latest(sroot) = Latest(root[c]), e \in note[c].doc PROVE FALSE
        OBVIOUS
      <4>1. Instance(root[c]) # 0 BY <1>2
      <4>2. Repeats(m.root, root[c]) /\ Instance(r) = 0 BY <1>4, <1>7, <1>9, <4>1
      <4>3. Latest(r) = Latest(sroot) /\ Latest(sroot) = Instance(sroot)
        BY <1>7, <4>2 DEF Instance
      <4> QED BY <4>2, <4>3 DEF Instance
    <3> QED BY <1>4, <1>5, <3>2, <3>3
  <2>7. ClientTexts(c)' BY <1>3, <1>6, <2>4, <2>5, <2>6 DEF ClientTexts
  <2> QED BY <1>1, <2>7, OthersKeep
<1> QED BY <1>8, <1>9

\* What a client with a bootstrap hears of the note: of its generation it has the text then.
LEMMA NoteTexts ==
  ASSUME CountInv, CountInv', RootInv, CountedAlike, Gens, Texted, NEW c \in Clients,
         ReceiveNoteUpdate(c)
  PROVE  Texted'
<1> DEFINE m == Head(down[c])
<1>1. Alone(c) BY ClientSteps DEF Receive
<1>2. /\ OwnUp(up[c], root[c], note[c])
      /\ TextUp(sroot, snote, up[c], root[c], note[c], resync[c], lost)
      /\ OwnDown(sroot, snote, down[c])
      /\ TextDown(sroot, snote, down[c], root[c], note[c], conn[c], c \in stale)
      /\ note[c] \in Notes /\ note[c].gen \in Nat /\ down[c] \in Seq(Messages)
      /\ root[c] \in Roots /\ Legal(root[c]) /\ sroot \in Roots /\ Legal(sroot)
      /\ snote.gen \in 0..2 /\ snote.gen = Rank(sroot) + Offset /\ Offset \in Int
      /\ Rank(root[c]) \in 0..2 /\ Rank(sroot) \in 0..2
      /\ GensDown(root[c], down[c], conn[c], note[c].gen, snote.gen, Offset)
      /\ conn[c] = "on" /\ c \notin stale =>
           note[c].gen = Rank(root[c]) + Offset /\ note[c].gen # 3
  BY AllOf DEF Texted, ClientTexts
<1>3. /\ UNCHANGED <<sroot, snote, resync, conn, up, lost, stale, root>>
      /\ down[c] # << >> /\ m.kind = "note" /\ down'[c] = Tail(down[c])
      /\ note' = IF Instance(root[c]) = 0 \/ m.gen # note[c].gen THEN note
                 ELSE [note EXCEPT ![c].doc = @ \union m.doc, ![c].ready = TRUE]
  <2>1. down'[c] = Tail(down[c]) BY RootTypes DEF ReceiveNoteUpdate
  <2> QED BY <2>1 DEF ReceiveNoteUpdate, room, history
<1>4. conn[c] = "on"
  <2>1. GoesDown(sroot, root[c], down[c], conn[c]) BY DEF RootInv
  <2>2. conn[c] \in {"connecting", "on"} /\ (m.kind = "bootstrap" <=> conn[c] = "connecting")
    BY <1>2, <1>3, <2>1, DownHead
  <2> QED BY <1>3, <2>2
<1>5. Sent(down[c]) = {m} \union Sent(down'[c]) /\ m \in Messages
  <2>1. Sent(down[c]) = {m} \union Sent(down'[c]) BY <1>2, <1>3, SentIs
  <2>2. m \in Messages BY <1>2, <1>3, QueueHead
  <2> QED BY <2>1, <2>2
<1>6. /\ m.gen \in Nat /\ m.gen <= snote.gen
      /\ note[c].gen = 3 \/ m.gen = Rank(root[c]) + Offset
  <2>1. m.gen \in Nat BY <1>5 DEF Messages
  <2>2. /\ m.gen <= snote.gen
        /\ (conn[c] = "on" /\ note[c].gen = 3) \/ m.gen = Rank(root[c]) + Offset
    <3>1. /\ m.kind = "note" => m.gen <= snote.gen
          /\ m.kind = "note" =>
               (conn[c] = "on" /\ note[c].gen = 3) \/ m.gen = Rank(root[c]) + Offset
      <4>1. 1 \in DOMAIN down[c] /\ m = down[c][1] /\ 1 - 1 = 0 /\ Ahead(root[c], down[c], 0) = root[c]
        BY <1>2, <1>3, QueueHead
      <4> HIDE DEF m
      <4> QED BY <1>2, <4>1 DEF GensDown
    <3> QED BY <1>3, <3>1
  <2> QED BY <2>1, <2>2
<1>7. /\ note'[c].gen = note[c].gen /\ note[c].doc \subseteq note'[c].doc
      /\ note'[c].doc \subseteq note[c].doc \union m.doc
      /\ Instance(root[c]) # 0 /\ m.gen = note[c].gen => m.doc \subseteq note'[c].doc
      /\ note'[c].doc # note[c].doc => Instance(root[c]) # 0 /\ m.gen = note[c].gen
  <2>1. CASE Instance(root[c]) = 0 \/ m.gen # note[c].gen
    <3>1. note'[c] = note[c] BY <1>3, <2>1
    <3> QED BY <2>1, <3>1
  <2>2. CASE ~(Instance(root[c]) = 0 \/ m.gen # note[c].gen)
    <3>1. note' = [note EXCEPT ![c].doc = @ \union m.doc, ![c].ready = TRUE] BY <1>3, <2>2
    <3>2. note'[c] = [note[c] EXCEPT !.doc = @ \union m.doc, !.ready = TRUE]
      BY <3>1, RootTypes
    <3>3. note'[c].gen = note[c].gen /\ note'[c].doc = note[c].doc \union m.doc
      BY <1>2, <3>2 DEF Notes
    <3> QED BY <2>2, <3>3
  <2> QED BY <2>1, <2>2
<1> HIDE DEF m
<1>8. OwnUp(up'[c], root'[c], note'[c]) BY <1>2, <1>3, <1>7 DEF OwnUp
<1>9. OwnDown(sroot', snote', down'[c]) BY <1>2, <1>3, <1>5 DEF OwnDown
<1>10. ASSUME note'[c].doc # note[c].doc, Instance(root[c]) \notin sroot.dels
       PROVE  Latest(sroot) = Latest(root[c]) /\ m.doc \subseteq snote.doc
  <2>1. Instance(root[c]) # 0 /\ m.gen = note[c].gen BY <1>7, <1>10
  <2>2. m.gen = Rank(root[c]) + Offset BY <1>2, <1>6, <2>1
  <2>3. ~(Rank(sroot) < Rank(root[c])) BY <1>2, <1>6, <2>2
  <2>4. ~(Rank(root[c]) < Rank(sroot)) BY <1>2, <1>10, <2>1, SameRank
  <2>5. Rank(sroot) = Rank(root[c]) BY <1>2, <2>3, <2>4
  <2>6. Latest(sroot) = Latest(root[c]) BY <1>2, <2>5, SameRank
  <2>7. Instance(sroot) # 0 BY <1>10, <2>1, <2>6 DEF Instance
  <2>8. m.gen = snote.gen BY <1>2, <2>2, <2>5
  <2> QED BY <1>2, <1>3, <1>5, <2>6, <2>7, <2>8 DEF OwnDown
<1>11. TextUp(sroot', snote', up'[c], root'[c], note'[c], resync'[c], lost')
  <2>1. TextUp(sroot, snote, up[c], root[c], note'[c], resync[c], lost)
    <3>1. CASE note'[c].doc = note[c].doc BY <1>2, <1>7, <3>1 DEF TextUp
    <3>2. CASE note'[c].doc # note[c].doc
      BY <1>2, <1>7, <1>10, <3>2 DEF TextUp
    <3> QED BY <3>1, <3>2
  <2> QED BY <1>3, <2>1
<1>12. TextDown(sroot, snote, down'[c], root[c], note'[c], conn[c], c \in stale)
  <2> SUFFICES ASSUME c \notin stale, Instance(sroot) # 0, Instance(sroot) \notin root[c].dels,
                      NEW e \in snote.doc
               PROVE  \/ conn[c] = "on" /\ Latest(sroot) = Latest(root[c]) /\ e \in note'[c].doc
                      \/ \E k \in Sent(down'[c]) : e \in k.doc /\ CarriesDown(k, sroot, snote.gen)
    BY <1>4 DEF TextDown, Listens
  <2>1. \/ Latest(sroot) = Latest(root[c]) /\ e \in note[c].doc
        \/ \E k \in Sent(down[c]) : e \in k.doc /\ CarriesDown(k, sroot, snote.gen)
    BY <1>2, <1>4 DEF TextDown, Listens
  <2>2. CASE e \in m.doc /\ CarriesDown(m, sroot, snote.gen)
    <3>1. m.gen = snote.gen BY <1>3, <2>2 DEF CarriesDown
    <3>2. m.gen = Rank(root[c]) + Offset /\ note[c].gen = Rank(root[c]) + Offset
      BY <1>2, <1>4, <1>6
    <3>3. Rank(root[c]) = Rank(sroot) /\ m.gen = note[c].gen BY <1>2, <3>1, <3>2
    <3>4. Latest(root[c]) = Latest(sroot) BY <1>2, <3>3, SameRank
    <3>5. Instance(root[c]) # 0 BY <3>4 DEF Instance
    <3> QED BY <1>4, <1>7, <2>2, <3>3, <3>4, <3>5
  <2> QED BY <1>4, <1>5, <1>7, <2>1, <2>2
<1>13. ClientTexts(c)' BY <1>3, <1>8, <1>9, <1>11, <1>12 DEF ClientTexts
<1> QED BY <1>1, <1>13, OthersKeep

\* The bootstrap: the client has the text of the room, and sends what it was to flush.
LEMMA BootstrapTexts ==
  ASSUME CountInv, CountInv', RootInv, CountedAlike, Gens, Texted, NEW c \in Clients,
         ReceiveBootstrap(c)
  PROVE  Texted'
<1> DEFINE m == Boot(c)
           r == Joined(c)
           n == Became(c)
           x == RootUpdate(r)
           y == NoteUpdate(n.gen, n.doc)
<1>1. Alone(c) BY ClientSteps DEF Receive
<1>2. /\ TextUp(sroot, snote, up[c], root[c], note[c], resync[c], lost)
      /\ OwnDown(sroot, snote, down[c])
      /\ TextDown(sroot, snote, down[c], root[c], note[c], conn[c], c \in stale)
      /\ note[c] \in Notes /\ down[c] \in Seq(Messages)
      /\ root[c] \in Roots /\ sroot \in Roots /\ Legal(sroot)
  BY AllOf DEF Texted, ClientTexts
<1>3. /\ conn[c] = "connecting" /\ up[c] = << >> /\ down[c] # << >> /\ m.kind = "bootstrap"
      /\ m.root \in Roots /\ r \in Roots /\ root'[c] = r
      /\ Legal(m.root) /\ Legal(r) /\ Within(m.root, sroot)
      /\ Latest(r) = Latest(m.root)
      /\ Instance(m.root) = 0 => Instance(r) = 0
  BY BootstrapDoes
<1>4. \/ /\ conn'[c] = "locked out" /\ down'[c] = << >> /\ Instance(r) = 0
      \/ /\ conn'[c] = "on" /\ note'[c] = n /\ down'[c] = Tail(down[c])
         /\ stale' = IF Instance(m.root) = 0 /\ m.root.sets # {}
                       THEN stale \union {c} ELSE stale \ {c}
         /\ x \in Messages /\ y \in Messages
         /\ IF "note" \in resync[c] /\ Instance(r) = Instance(root[c])
              THEN up'[c] = <<y>> \/ up'[c] = <<x, y>>
              ELSE up'[c] = << >> \/ up'[c] = <<x>>
  BY BootstrapDoes
<1>5. UNCHANGED <<sroot, snote, lost>> BY DEF ReceiveBootstrap, room
<1>6. Sent(down[c]) = {m} \union Sent(Tail(down[c])) BY <1>2, <1>3, SentIs DEF Boot
<1>7. root[c].dels \subseteq r.dels /\ r.sets \subseteq root[c].sets \union m.root.sets
  BY DEF Joined, Merge
<1> HIDE DEF x
<1>8. CASE conn'[c] = "locked out"
  <2>1. Sent(down'[c]) = {} /\ Instance(root'[c]) = 0 BY <1>3, <1>4, <1>8, SentIs
  <2>2. ClientTexts(c)'
    BY <1>8, <2>1 DEF ClientTexts, OwnUp, TextUp, OwnDown, TextDown, Listens
  <2> QED BY <1>1, <2>2, OthersKeep
<1>9. CASE conn'[c] = "on"
  <2>1. /\ note'[c] = n /\ down'[c] = Tail(down[c])
        /\ stale' = IF Instance(m.root) = 0 /\ m.root.sets # {}
                      THEN stale \union {c} ELSE stale \ {c}
        /\ x \in Messages /\ y \in Messages
        /\ IF "note" \in resync[c] /\ Instance(r) = Instance(root[c])
             THEN up'[c] = <<y>> \/ up'[c] = <<x, y>>
             ELSE up'[c] = << >> \/ up'[c] = <<x>>
    <3> HIDE DEF n, y
    <3> QED BY <1>4, <1>9
  <2>2. x.kind = "root" /\ y.kind = "note" /\ y.gen = n.gen /\ y.doc = n.doc
    BY DEF RootUpdate, NoteUpdate, x
  <2>3. /\ Sent(up'[c]) \subseteq {x, y}
        /\ "note" \in resync[c] /\ Instance(r) = Instance(root[c]) => y \in Sent(up'[c])
    <3> HIDE DEF y
    <3>1. Sent(<<y>>) = {y} /\ Sent(<<x>>) = {x} /\ Sent(<<x, y>>) = {x, y} /\ Sent(<< >>) = {}
      BY <2>1, SentIs, Zenon
    <3> QED BY <2>1, <3>1
  <2>4. n = IF Instance(m.root) = 0 THEN Tracked(c)
            ELSE [doc |-> Tracked(c).doc \union m.doc, gen |-> m.gen, ready |-> TRUE]
    BY DEF Became, Synced
  <2>5. Instance(m.root) # 0 => n.doc = Tracked(c).doc \union m.doc BY <2>4
  <2> HIDE DEF y, n
  <2>6. OwnUp(up'[c], root'[c], note'[c])
    BY <2>1, <2>2, <2>3 DEF OwnUp, CarriesUp
  <2>7. OwnDown(sroot', snote', down'[c]) BY <1>2, <1>5, <1>6, <2>1 DEF OwnDown
  <2>8. TextUp(sroot, snote, up'[c], r, n, resync'[c], lost)
    <3> SUFFICES ASSUME Instance(r) # 0, Instance(r) \notin sroot.dels, NEW e \in n.doc
                 PROVE  \/ e \in lost
                        \/ Latest(sroot) = Latest(r) /\ e \in snote.doc
                        \/ \E k \in Sent(up'[c]) : e \in k.doc /\ CarriesUp(k, r, n.gen)
      BY DEF TextUp
    <3>1. CASE "note" \in resync[c] /\ Instance(r) = Instance(root[c])
      BY <2>2, <2>3, <3>1 DEF CarriesUp
    <3>2. CASE ~("note" \in resync[c] /\ Instance(r) = Instance(root[c]))
      <4>1. Instance(m.root) # 0 /\ Instance(m.root) = Instance(r)
        <5>1. Instance(m.root) # 0 BY <1>3
        <5>2. Instance(m.root) = Latest(m.root) /\ Instance(r) = Latest(r)
          BY <5>1 DEF Instance
        <5> QED BY <1>3, <5>1, <5>2
      <4>2. Latest(sroot) = Latest(r)
        <5>1. 1 \in m.root.sets => 1 \in sroot.sets BY <1>3 DEF Within
        <5>2. 2 \in m.root.sets => 2 \in sroot.sets BY <1>3 DEF Within
        <5>3. Latest(sroot) = Latest(m.root) BY <1>2, <1>3, <4>1, <5>1, <5>2, StillThere
        <5> QED BY <1>3, <5>3
      <4>3. CASE e \in m.doc
        <5>1. m.doc \subseteq snote.doc BY <1>2, <1>3, <1>6, <4>1 DEF OwnDown
        <5> QED BY <4>2, <4>3, <5>1
      <4>4. CASE e \in Tracked(c).doc
        <5>1. Instance(r) = Instance(root[c]) BY <4>4 DEF Tracked, Follow
        <5>2. Tracked(c) = [note[c] EXCEPT !.ready = @ \/ note[c].doc # {}]
          BY <5>1 DEF Tracked, Follow
        <5>3. Tracked(c).doc = note[c].doc BY <1>2, <5>2 DEF Notes
        <5>4. "note" \notin resync[c] BY <3>2, <5>1
        <5>5. Sent(up[c]) = {} BY <1>3, SentIs
        <5> QED BY <1>2, <4>2, <4>4, <5>1, <5>3, <5>4, <5>5 DEF TextUp
      <4> QED BY <2>5, <4>1, <4>3, <4>4
    <3> QED BY <3>1, <3>2
  <2>9. TextDown(sroot, snote, down'[c], r, n, "on", c \in stale')
    <3> SUFFICES ASSUME c \notin stale', Instance(sroot) # 0, Instance(sroot) \notin r.dels,
                        NEW e \in snote.doc
                 PROVE  \/ Latest(sroot) = Latest(r) /\ e \in n.doc
                        \/ \E k \in Sent(down'[c]) : e \in k.doc /\ CarriesDown(k, sroot, snote.gen)
      BY DEF TextDown, Listens
    <3>1. Instance(sroot) \notin root[c].dels BY <1>7
    <3>2. \E k \in Sent(down[c]) : e \in k.doc /\ CarriesDown(k, sroot, snote.gen)
      BY <1>2, <1>3, <3>1 DEF TextDown, Listens
    <3>3. CASE e \in m.doc /\ CarriesDown(m, sroot, snote.gen)
      <4>1. Latest(m.root) = Latest(sroot) BY <1>3, <3>3 DEF CarriesDown
      <4>2. Instance(m.root) # 0
        <5>1. Instance(m.root) # 0 \/ m.root.sets = {} BY <2>1
        <5>2. m.root.sets = {} => Latest(m.root) = 0 BY <1>3, LatestIs
        <5>3. Latest(sroot) # 0 BY DEF Instance
        <5> QED BY <4>1, <5>1, <5>2, <5>3
      <4> QED BY <1>3, <2>5, <3>3, <4>1, <4>2
    <3> QED BY <1>6, <2>1, <3>2, <3>3
  <2>10. ClientTexts(c)' BY <1>3, <1>5, <1>9, <2>1, <2>6, <2>7, <2>8, <2>9 DEF ClientTexts
  <2> QED BY <1>1, <2>10, OthersKeep
<1> QED BY <1>4, <1>8, <1>9

\* What the room handles it has not to handle any more; what it tells comes on top.
LEMMA Handling ==
  ASSUME CountInv, RootInv, CountedAlike, Gens, Texted, NEW c \in Clients, Accept(c)
  PROVE  /\ Mail(c) \in Messages /\ Sent(up[c]) = {Mail(c)} \union Sent(up'[c])
         /\ \A d \in Clients : d # c => up'[d] = up[d]
         /\ conn[c] = "on" /\ lost \subseteq lost'
         /\ UNCHANGED <<root, note, resync, conn, stale>>
         /\ \A d \in Clients : OwnUp(up'[d], root'[d], note'[d])
<1>1. /\ up[c] # << >> /\ UNCHANGED <<root, note, resync, kept, conn, stale>>
      /\ up'[c] = Tail(up[c]) /\ \A d \in Clients : d # c => up'[d] = up[d]
      /\ Mail(c) \in Messages /\ lost \subseteq lost'
  BY AcceptDoes
<1>2. up[c] \in Seq(Messages) /\ (conn[c] # "on" => up[c] = << >>) BY AllOf
<1>3. Sent(up[c]) = {Mail(c)} \union Sent(up'[c]) BY <1>1, <1>2, SentIs DEF Mail
<1>4. ASSUME NEW d \in Clients PROVE OwnUp(up'[d], root'[d], note'[d])
  <2>1. OwnUp(up[d], root[d], note[d]) BY DEF Texted, ClientTexts
  <2>2. Sent(up'[d]) \subseteq Sent(up[d]) BY <1>1, <1>3
  <2> QED BY <1>1, <2>1, <2>2 DEF OwnUp
<1> QED BY <1>1, <1>2, <1>3, <1>4

\* What the room tells the others of comes on top.
LEMMA Telling ==
  ASSUME CountInv, NEW c \in Clients, NEW x \in Messages, NEW y \in Messages, NEW d \in Clients
  PROVE  /\ Broadcast(c, <<x>>) =>
              Sent(down'[d]) = IF d # c /\ Attached(d) THEN Sent(down[d]) \union {x} ELSE Sent(down[d])
         /\ Broadcast(c, <<x, y>>) =>
              Sent(down'[d]) = IF d # c /\ Attached(d) THEN Sent(down[d]) \union {x, y}
                               ELSE Sent(down[d])
<1>1. down[d] \in Seq(Messages) BY RootTypes
<1>2. /\ Sent(down[d] \o <<x>>) = Sent(down[d]) \union {x}
      /\ Sent(down[d] \o <<x, y>>) = Sent(down[d]) \union {x, y}
  BY <1>1, SentMore
<1>3. /\ Broadcast(c, <<x>>) =>
           down'[d] = IF d # c /\ Attached(d) THEN down[d] \o <<x>> ELSE down[d]
      /\ Broadcast(c, <<x, y>>) =>
           down'[d] = IF d # c /\ Attached(d) THEN down[d] \o <<x, y>> ELSE down[d]
  BY DEF Broadcast
<1> QED BY <1>2, <1>3

\* The root of a bootstrap has come about in order, and the room knows all of it.
LEMMA BootstrapsInOrder ==
  ASSUME CountInv, RootInv, NEW c \in Clients, NEW m \in Sent(down[c]), m.kind = "bootstrap"
  PROVE  m.root \in Roots /\ Legal(m.root) /\ Within(m.root, sroot)
<1>1. GoesDown(sroot, root[c], down[c], conn[c]) /\ down[c] \in Seq(Messages)
  BY RootTypes DEF RootInv
<1>2. PICK i \in DOMAIN down[c] : m = down[c][i] BY DEF Sent
<1>3. m \in Messages BY <1>1, <1>2
<1>4. m.root \in Roots BY <1>3 DEF Messages
<1>5. Within(m.root, sroot) /\ FitsClient(m, Ahead(root[c], down[c], i - 1))
  BY <1>1, <1>2 DEF GoesDown
<1> QED BY <1>4, <1>5 DEF FitsClient

\* The room hears of a removal: the text goes with the note, for all alike.
LEMMA AcceptRootTexts ==
  ASSUME CountInv, CountInv', RootInv, CountedAlike, Gens, Texted, NEW c \in Clients, Accept(c),
         Mail(c).kind = "root"
  PROVE  Texted'
<1>1. /\ Mail(c) \in Messages /\ Sent(up[c]) = {Mail(c)} \union Sent(up'[c])
      /\ \A d \in Clients : d # c => up'[d] = up[d]
      /\ UNCHANGED <<root, note, resync, conn, stale>>
      /\ \A d \in Clients : OwnUp(up'[d], root'[d], note'[d])
  BY Handling
<1>2. /\ Mail(c).root \in Roots /\ sroot' = Merge(sroot, Mail(c).root)
      /\ Repeats(Mail(c).root, sroot) \/ Announces(Mail(c).root, sroot)
      /\ snote' = Follow(snote, sroot, sroot') /\ Broadcast(c, <<Mail(c)>>) /\ lost' = lost
  BY AcceptDoes
<1>3. /\ sroot \in Roots /\ snote \in Notes /\ Legal(sroot) BY RootTypes DEF RootInv
<1>4. /\ sroot' \in Roots /\ Legal(sroot') /\ Within(sroot, sroot')
  BY <1>2, <1>3, MergeTyped, LegalMerge DEF Within
<1>5. Latest(sroot') = Latest(sroot) /\ Instance(sroot') \in {Instance(sroot), 0}
  BY <1>2, <1>3, ChangesOf
<1>6. /\ snote'.gen = snote.gen
      /\ Instance(sroot') # 0 => Instance(sroot') = Instance(sroot) /\ snote'.doc = snote.doc
      /\ snote'.doc \subseteq snote.doc
  <2>1. CASE Instance(sroot') = Instance(sroot)
    <3>1. snote' = [snote EXCEPT !.ready = @ \/ snote.doc # {}] BY <1>2, <2>1 DEF Follow
    <3> QED BY <1>3, <2>1, <3>1 DEF Notes
  <2>2. CASE Instance(sroot') # Instance(sroot)
    BY <1>2, <1>5, <2>2 DEF Follow
  <2> QED BY <2>1, <2>2
<1>7. ASSUME NEW d \in Clients PROVE ClientTexts(d)'
  <2>1. /\ TextUp(sroot, snote, up[d], root[d], note[d], resync[d], lost)
        /\ OwnDown(sroot, snote, down[d])
        /\ TextDown(sroot, snote, down[d], root[d], note[d], conn[d], d \in stale)
        /\ root[d] \in Roots
    BY RootTypes DEF Texted, ClientTexts
  <2>2. Sent(down[d]) \subseteq Sent(down'[d]) /\ Sent(down'[d]) \subseteq Sent(down[d]) \union {Mail(c)}
    BY <1>1, <1>2, Telling
  <2>3. TextUp(sroot', snote', up'[d], root[d], note[d], resync[d], lost)
    <3> SUFFICES ASSUME Instance(root[d]) # 0, Instance(root[d]) \notin sroot'.dels,
                        "note" \notin resync[d], NEW e \in note[d].doc
                 PROVE  \/ e \in lost
                        \/ Latest(sroot') = Latest(root[d]) /\ e \in snote'.doc
                        \/ \E k \in Sent(up'[d]) : e \in k.doc /\ CarriesUp(k, root[d], note[d].gen)
      BY DEF TextUp
    <3>1. Instance(root[d]) \notin sroot.dels BY <1>4 DEF Within
    <3>2. \/ e \in lost
          \/ Latest(sroot) = Latest(root[d]) /\ e \in snote.doc
          \/ \E k \in Sent(up[d]) : e \in k.doc /\ CarriesUp(k, root[d], note[d].gen)
      BY <2>1, <3>1 DEF TextUp
    <3>3. Latest(sroot) = Latest(root[d]) => Instance(sroot') # 0
      BY <1>5 DEF Instance
    <3>4. ~CarriesUp(Mail(c), root[d], note[d].gen) BY DEF CarriesUp
    <3>5. \A k \in Sent(up[d]) : k \in Sent(up'[d]) \/ k = Mail(c) BY <1>1
    <3> QED BY <1>5, <1>6, <3>2, <3>3, <3>4, <3>5
  <2>4. OwnDown(sroot', snote', down'[d])
    <3> SUFFICES ASSUME NEW k \in Sent(down[d])
                 PROVE  /\ k.kind = "note" /\ k.gen = snote'.gen /\ Instance(sroot') # 0 =>
                             k.doc \subseteq snote'.doc
                        /\ k.kind = "bootstrap" /\ Instance(k.root) # 0
                             /\ Instance(k.root) \notin sroot'.dels => k.doc \subseteq snote'.doc
      BY <2>2 DEF OwnDown
    <3>1. k.kind = "note" /\ k.gen = snote'.gen /\ Instance(sroot') # 0 => k.doc \subseteq snote'.doc
      BY <1>6, <2>1 DEF OwnDown
    <3>2. ASSUME k.kind = "bootstrap", Instance(k.root) # 0, Instance(k.root) \notin sroot'.dels
          PROVE  k.doc \subseteq snote'.doc
      <4>1. k.root \in Roots /\ Legal(k.root) /\ Within(k.root, sroot)
        BY <3>2, BootstrapsInOrder
      <4>2. (1 \in k.root.sets => 1 \in sroot'.sets) /\ (2 \in k.root.sets => 2 \in sroot'.sets)
        BY <1>4, <4>1 DEF Within
      <4>3. Instance(sroot') # 0 BY <1>4, <3>2, <4>1, <4>2, StillThere
      <4>4. k.doc \subseteq snote.doc BY <1>4, <2>1, <3>2 DEF OwnDown, Within
      <4> QED BY <1>6, <4>3, <4>4
    <3> QED BY <3>1, <3>2
  <2>5. TextDown(sroot', snote', down'[d], root[d], note[d], conn[d], d \in stale)
    <3> SUFFICES ASSUME Listens(conn[d], d \in stale), Instance(sroot') # 0,
                        Instance(sroot') \notin root[d].dels, NEW e \in snote'.doc
                 PROVE  \/ conn[d] = "on" /\ Latest(sroot') = Latest(root[d]) /\ e \in note[d].doc
                        \/ \E k \in Sent(down'[d]) : e \in k.doc /\ CarriesDown(k, sroot', snote'.gen)
      BY DEF TextDown
    <3>1. \/ conn[d] = "on" /\ Latest(sroot) = Latest(root[d]) /\ e \in note[d].doc
          \/ \E k \in Sent(down[d]) : e \in k.doc /\ CarriesDown(k, sroot, snote.gen)
      BY <1>6, <2>1 DEF TextDown
    <3> QED BY <1>5, <1>6, <2>2, <3>1 DEF CarriesDown
  <2> QED BY <1>1, <1>2, <2>3, <2>4, <2>5 DEF ClientTexts
<1> QED BY <1>7 DEF Texted

\* The room gets a note with its text, and passes both on.
LEMMA AcceptBundleTexts ==
  ASSUME CountInv, CountInv', RootInv, CountedAlike, Gens, Texted, NEW c \in Clients, Accept(c),
         Mail(c).kind = "bundle"
  PROVE  Texted'
<1> DEFINE m == Mail(c)
           x == RootUpdate(m.root)
           y == NoteUpdate(snote'.gen, m.doc)
<1>1. /\ m \in Messages /\ Sent(up[c]) = {m} \union Sent(up'[c])
      /\ \A d \in Clients : d # c => up'[d] = up[d]
      /\ UNCHANGED <<root, note, resync, conn, stale>> /\ conn[c] = "on"
      /\ \A d \in Clients : OwnUp(up'[d], root'[d], note'[d])
  BY Handling
<1>2. /\ m.root \in Roots /\ sroot' = Merge(sroot, m.root) /\ m.kind = "bundle"
      /\ Creates(m.root, sroot) \/ Restores(m.root, sroot)
      /\ snote' = [doc |-> m.doc, gen |-> snote.gen + 1, ready |-> TRUE]
      /\ Broadcast(c, <<x, y>>) /\ lost' = lost /\ Within(m.root, root[c])
  BY AcceptDoes
<1>3. /\ sroot \in Roots /\ Legal(sroot) /\ snote.gen \in Nat /\ RoomHolds
  BY AllOf
<1>4. /\ Instance(sroot) = 0 /\ Instance(sroot') = Latest(sroot') /\ Instance(sroot') # 0
      /\ sroot'.dels = sroot.dels
      /\ Creates(m.root, sroot) => Latest(sroot') = 1
      /\ Restores(m.root, sroot) => Latest(sroot') = 3
  <2>1. sroot'.dels = sroot.dels BY <1>2 DEF Merge, Creates, Restores, Change
  <2> HIDE DEF m
  <2> QED BY <1>2, <1>3, <2>1, ChangesOf
<1>5. snote'.gen = snote.gen + 1 /\ snote'.doc = m.doc /\ snote.doc = {}
  BY <1>2, <1>3, <1>4 DEF RoomHolds
<1>6. /\ x \in Messages /\ x.kind = "root"
      /\ y \in Messages /\ y.kind = "note" /\ y.gen = snote'.gen /\ y.doc = m.doc
  <2>1. snote' \in Notes /\ sroot' \in Roots /\ snote'.gen <= Latest(sroot')
    BY DEF CountInv, TypeOK, GenInv, Counted
  <2>2. Latest(sroot') \in 0..3 BY <2>1, LatestIs
  <2>3. snote'.gen \in 0..3 /\ m.doc \in Texts BY <1>1, <2>1, <2>2 DEF Notes, Messages
  <2>4. x \in Messages /\ y \in Messages BY <1>2, <2>3, MessagesTyped
  <2> QED BY <2>4 DEF RootUpdate, NoteUpdate
<1> HIDE DEF x, y
<1>7. /\ root[c] \in Roots /\ Legal(root[c])
      /\ Holds(c, sroot, root[c], note[c], kept[c], resync[c], conn[c], stale)
      /\ c \notin stale => note[c].gen # 3
  BY <1>1, AllOf DEF Holds
<1>8. /\ Restores(m.root, sroot) =>
           Latest(root[c]) = 3 /\ 2 \in m.root.sets /\ 2 \in root[c].sets /\ 2 \notin sroot.sets
      /\ Creates(m.root, sroot) =>
           /\ 2 \notin m.root.sets /\ 2 \notin sroot.sets
           /\ 2 \notin root[c].sets => Latest(root[c]) = 1
  <2>1. /\ Latest(root[c]) = IF root[c].sets = {} THEN 0 ELSE IF 2 \in root[c].sets THEN 3 ELSE 1
    BY <1>7, LegalInstance
  <2>2. m.root.sets \subseteq root[c].sets BY <1>2 DEF Within
  <2> HIDE DEF m
  <2>3. Restores(m.root, sroot) => 2 \in m.root.sets /\ 2 \notin sroot.sets BY DEF Restores, Change
  <2>4. Creates(m.root, sroot) => m.root.sets = {1} /\ 2 \notin sroot.sets BY DEF Creates, Change
  <2> QED BY <2>1, <2>2, <2>3, <2>4
<1> HIDE DEF m
<1>9. ASSUME NEW d \in Clients PROVE ClientTexts(d)'
  <2>1. /\ TextUp(sroot, snote, up[d], root[d], note[d], resync[d], lost)
        /\ OwnDown(sroot, snote, down[d])
    BY DEF Texted, ClientTexts
  <2>2. /\ Sent(down'[d]) \subseteq Sent(down[d]) \union {x, y}
        /\ d # c /\ Attached(d) => y \in Sent(down'[d])
    <3>1. down[d] \in Seq(Messages) BY RootTypes
    <3>2. Sent(down[d] \o <<x, y>>) = Sent(down[d]) \union {x, y} BY <1>6, <3>1, SentMore
    <3>3. Broadcast(c, <<x, y>>) BY <1>2
    <3>4. down'[d] = IF d # c /\ Attached(d) THEN down[d] \o <<x, y>> ELSE down[d]
      BY <3>3, Zenon DEF Broadcast
    <3> QED BY <3>2, <3>4
  <2>3. TextUp(sroot', snote', up'[d], root[d], note[d], resync[d], lost)
    <3> SUFFICES ASSUME Instance(root[d]) # 0, Instance(root[d]) \notin sroot'.dels,
                        "note" \notin resync[d], NEW e \in note[d].doc
                 PROVE  \/ e \in lost
                        \/ Latest(sroot') = Latest(root[d]) /\ e \in snote'.doc
                        \/ \E k \in Sent(up'[d]) : e \in k.doc /\ CarriesUp(k, root[d], note[d].gen)
      BY DEF TextUp
    <3>1. e \in lost \/ \E k \in Sent(up[d]) : e \in k.doc /\ CarriesUp(k, root[d], note[d].gen)
      BY <1>4, <1>5, <2>1 DEF TextUp
    <3>2. \A k \in Sent(up[d]) : k \in Sent(up'[d]) \/ (k = m /\ d = c) BY <1>1
    <3>3. CASE d = c /\ e \in m.doc /\ CarriesUp(m, root[c], note[c].gen)
      <4>1. 2 \in m.root.sets <=> 2 \in root[c].sets BY <1>2, <3>3 DEF CarriesUp
      <4>2. Latest(sroot') = Latest(root[c]) BY <1>2, <1>4, <1>8, <4>1
      <4> QED BY <1>5, <3>3, <4>2
    <3> QED BY <3>1, <3>2, <3>3
  <2>4. OwnDown(sroot', snote', down'[d])
    <3>1. ASSUME NEW k \in Sent(down[d]) PROVE ~(k.kind = "note" /\ k.gen = snote'.gen)
      BY <1>3, <1>5, NotesBehind
    <3>2. ASSUME NEW k \in Sent(down[d]), k.kind = "bootstrap"
          PROVE  Instance(k.root) = 0 \/ Instance(k.root) \in sroot'.dels
      <4>1. k.root \in Roots /\ Legal(k.root) /\ Within(k.root, sroot)
        BY <3>2, BootstrapsInOrder
      <4>2. (1 \in k.root.sets => 1 \in sroot.sets) /\ (2 \in k.root.sets => 2 \in sroot.sets)
        BY <4>1 DEF Within
      <4> QED BY <1>3, <1>4, <4>1, <4>2, StillThere
    <3> QED BY <1>5, <1>6, <2>2, <3>1, <3>2 DEF OwnDown
  <2>5. TextDown(sroot', snote', down'[d], root[d], note[d], conn[d], d \in stale)
    <3> SUFFICES ASSUME Listens(conn[d], d \in stale), Instance(sroot') # 0,
                        Instance(sroot') \notin root[d].dels, NEW e \in snote'.doc
                 PROVE  \/ conn[d] = "on" /\ Latest(sroot') = Latest(root[d]) /\ e \in note[d].doc
                        \/ \E k \in Sent(down'[d]) : e \in k.doc /\ CarriesDown(k, sroot', snote'.gen)
      BY DEF TextDown
    <3>1. CASE d # c
      <4>1. Attached(d) BY DEF Listens, Attached
      <4> QED BY <1>5, <1>6, <2>2, <3>1, <4>1 DEF CarriesDown
    <3>2. CASE d = c
      <4>1. note[c].gen # 3 BY <1>1, <1>7, <3>2 DEF Listens
      <4>2. 2 \in root[c].sets => 2 \in sroot.sets BY <1>7, <4>1 DEF Holds
      <4>3. Creates(m.root, sroot) /\ 2 \notin root[c].sets BY <1>2, <1>8, <4>2
      <4>4. Latest(root[c]) = Latest(sroot') BY <1>4, <1>8, <4>3
      <4>5. Instance(root[c]) # 0 BY <1>4, <3>2, <4>4 DEF Instance
      <4>6. CarriesUp(m, root[c], note[c].gen) BY <1>2, <1>8, <4>3 DEF CarriesUp
      <4>7. OwnUp(up[c], root[c], note[c]) BY DEF Texted, ClientTexts
      <4>8. m.doc \subseteq note[c].doc BY <1>1, <4>5, <4>6, <4>7 DEF OwnUp
      <4> QED BY <1>1, <1>5, <3>2, <4>4, <4>8
    <3> QED BY <3>1, <3>2
  <2> QED BY <1>1, <1>2, <2>3, <2>4, <2>5 DEF ClientTexts
<1> QED BY <1>9 DEF Texted

\* The room gets a text, for the note it has or for one that it has no more.
LEMMA AcceptNoteTexts ==
  ASSUME CountInv, CountInv', RootInv, CountedAlike, Gens, Texted, NEW c \in Clients, Accept(c),
         Mail(c).kind = "note"
  PROVE  Texted'
<1> DEFINE m == Mail(c)
<1>1. /\ m \in Messages /\ Sent(up[c]) = {m} \union Sent(up'[c])
      /\ \A d \in Clients : d # c => up'[d] = up[d]
      /\ UNCHANGED <<root, note, resync, conn, stale>> /\ conn[c] = "on" /\ lost \subseteq lost'
      /\ \A d \in Clients : OwnUp(up'[d], root'[d], note'[d])
  BY Handling
<1>2. /\ sroot' = sroot /\ m.kind = "note"
      /\ \/ /\ Instance(sroot) = 0 \/ m.gen # snote.gen
            /\ UNCHANGED <<snote, down>> /\ (c \in stale => m.doc \subseteq lost')
         \/ /\ Instance(sroot) # 0 /\ m.gen = snote.gen /\ lost' = lost
            /\ snote' = [snote EXCEPT !.doc = @ \union m.doc, !.ready = TRUE]
            /\ Broadcast(c, <<m>>)
  BY AcceptDoes
<1>3. /\ sroot \in Roots /\ root[c] \in Roots /\ Legal(sroot) /\ Legal(root[c])
      /\ snote \in Notes /\ snote.gen \in 0..2 /\ note[c].gen \in Nat
      /\ snote.gen = Rank(sroot) + Offset /\ Offset \in Int
      /\ Holds(c, sroot, root[c], note[c], kept[c], resync[c], conn[c], stale)
      /\ GensUp(sroot, up[c], note[c].gen)
      /\ Rank(root[c]) \in 0..2 /\ Rank(sroot) \in 0..2
  BY AllOf
<1>4. c \notin stale => note[c].gen = Rank(root[c]) + Offset /\ note[c].gen # 3
  BY <1>1, AllOf
<1>5. m.gen \in Nat /\ m.gen <= note[c].gen /\ 1 \in sroot.sets
  <2>1. m.gen \in Nat BY <1>1 DEF Messages
  <2>2. 1 \in DOMAIN up[c] /\ m = up[c][1] /\ 1 - 1 = 0 /\ Ahead(sroot, up[c], 0) = sroot
    <3>1. up[c] \in Seq(Messages) /\ up[c] # << >> BY RootTypes, AcceptDoes
    <3> QED BY <1>3, <3>1, QueueHead DEF Mail
  <2> HIDE DEF m
  <2> QED BY <1>2, <1>3, <2>1, <2>2 DEF GensUp
<1> HIDE DEF m
<1>6. \A k : CarriesUp(k, root[c], note[c].gen) /\ k = m => m.gen = note[c].gen
  BY <1>2 DEF CarriesUp
<1>7. CASE /\ Instance(sroot) = 0 \/ m.gen # snote.gen
           /\ UNCHANGED <<snote, down>> /\ (c \in stale => m.doc \subseteq lost')
  <2>1. ASSUME NEW d \in Clients PROVE ClientTexts(d)'
    <3>1. /\ TextUp(sroot, snote, up[d], root[d], note[d], resync[d], lost)
          /\ OwnDown(sroot, snote, down[d])
          /\ TextDown(sroot, snote, down[d], root[d], note[d], conn[d], d \in stale)
      BY DEF Texted, ClientTexts
    <3>2. TextUp(sroot, snote, up'[d], root[d], note[d], resync[d], lost')
      <4> SUFFICES ASSUME Instance(root[d]) # 0, Instance(root[d]) \notin sroot.dels,
                          "note" \notin resync[d], NEW e \in note[d].doc
                   PROVE  \/ e \in lost'
                          \/ Latest(sroot) = Latest(root[d]) /\ e \in snote.doc
                          \/ \E k \in Sent(up'[d]) : e \in k.doc /\ CarriesUp(k, root[d], note[d].gen)
        BY DEF TextUp
      <4>1. \/ e \in lost
            \/ Latest(sroot) = Latest(root[d]) /\ e \in snote.doc
            \/ \E k \in Sent(up[d]) : e \in k.doc /\ CarriesUp(k, root[d], note[d].gen)
        BY <3>1 DEF TextUp
      <4>2. \A k \in Sent(up[d]) : k \in Sent(up'[d]) \/ (k = m /\ d = c) BY <1>1
      <4>3. CASE d = c /\ e \in m.doc /\ CarriesUp(m, root[c], note[c].gen)
        <5>1. CASE c \in stale BY <1>7, <4>3, <5>1
        <5>2. CASE c \notin stale
          <6>1. Instance(sroot) = Instance(root[c]) /\ Rank(sroot) = Rank(root[c])
            BY <1>4, <1>5, <4>3, <5>2, SameLatest
          <6>2. Instance(sroot) # 0 BY <4>3, <6>1
          <6>3. m.gen = snote.gen BY <1>3, <1>4, <1>6, <4>3, <5>2, <6>1
          <6> QED BY <1>7, <6>2, <6>3
        <5> QED BY <5>1, <5>2
      <4> QED BY <1>1, <4>1, <4>2, <4>3
    <3> QED BY <1>1, <1>2, <1>7, <3>1, <3>2 DEF ClientTexts
  <2> QED BY <2>1 DEF Texted
<1>8. CASE /\ Instance(sroot) # 0 /\ m.gen = snote.gen /\ lost' = lost
           /\ snote' = [snote EXCEPT !.doc = @ \union m.doc, !.ready = TRUE]
           /\ Broadcast(c, <<m>>)
  <2>1. snote'.gen = snote.gen /\ snote'.doc = snote.doc \union m.doc BY <1>3, <1>8 DEF Notes
  <2>2. ASSUME NEW d \in Clients PROVE ClientTexts(d)'
    <3>1. /\ TextUp(sroot, snote, up[d], root[d], note[d], resync[d], lost)
          /\ OwnDown(sroot, snote, down[d])
          /\ TextDown(sroot, snote, down[d], root[d], note[d], conn[d], d \in stale)
      BY DEF Texted, ClientTexts
    <3>2. Sent(down'[d]) = IF d # c /\ Attached(d) THEN Sent(down[d]) \union {m} ELSE Sent(down[d])
      <4>1. down[d] \in Seq(Messages) BY RootTypes
      <4>2. Sent(down[d] \o <<m>>) = Sent(down[d]) \union {m} BY <1>1, <4>1, SentMore
      <4>3. down'[d] = IF d # c /\ Attached(d) THEN down[d] \o <<m>> ELSE down[d]
        BY <1>8, Zenon DEF Broadcast
      <4> QED BY <4>2, <4>3
    <3>3. TextUp(sroot, snote', up'[d], root[d], note[d], resync[d], lost)
      <4> SUFFICES ASSUME Instance(root[d]) # 0, Instance(root[d]) \notin sroot.dels,
                          "note" \notin resync[d], NEW e \in note[d].doc
                   PROVE  \/ e \in lost
                          \/ Latest(sroot) = Latest(root[d]) /\ e \in snote'.doc
                          \/ \E k \in Sent(up'[d]) : e \in k.doc /\ CarriesUp(k, root[d], note[d].gen)
        BY DEF TextUp
      <4>1. \/ e \in lost
            \/ Latest(sroot) = Latest(root[d]) /\ e \in snote.doc
            \/ \E k \in Sent(up[d]) : e \in k.doc /\ CarriesUp(k, root[d], note[d].gen)
        BY <3>1 DEF TextUp
      <4>2. \A k \in Sent(up[d]) : k \in Sent(up'[d]) \/ (k = m /\ d = c) BY <1>1
      <4>3. CASE d = c /\ e \in m.doc /\ CarriesUp(m, root[c], note[c].gen)
        <5>1. note[c].gen # 3 BY <1>3, <1>6, <1>8, <4>3
        <5>2. Latest(sroot) = Latest(root[c]) BY <1>5, <4>3, <5>1, SameLatest
        <5> QED BY <2>1, <4>3, <5>2
      <4> QED BY <2>1, <4>1, <4>2, <4>3
    <3>4. OwnDown(sroot, snote', down'[d])
      <4>1. m.doc \subseteq snote'.doc /\ snote.doc \subseteq snote'.doc BY <2>1
      <4> QED BY <1>2, <2>1, <3>1, <3>2, <4>1 DEF OwnDown
    <3>5. TextDown(sroot, snote', down'[d], root[d], note[d], conn[d], d \in stale)
      <4> SUFFICES ASSUME Listens(conn[d], d \in stale), Instance(sroot) # 0,
                          Instance(sroot) \notin root[d].dels, NEW e \in snote'.doc
                   PROVE  \/ conn[d] = "on" /\ Latest(sroot) = Latest(root[d]) /\ e \in note[d].doc
                          \/ \E k \in Sent(down'[d]) : e \in k.doc /\ CarriesDown(k, sroot, snote'.gen)
        BY DEF TextDown
      <4>1. CASE e \in snote.doc
        <5>1. \/ conn[d] = "on" /\ Latest(sroot) = Latest(root[d]) /\ e \in note[d].doc
              \/ \E k \in Sent(down[d]) : e \in k.doc /\ CarriesDown(k, sroot, snote.gen)
          BY <3>1, <4>1 DEF TextDown
        <5>2. \A k \in Sent(down[d]) : k \in Sent(down'[d]) BY <3>2
        <5> QED BY <2>1, <5>1, <5>2
      <4>2. CASE e \in m.doc /\ d # c
        <5>1. Attached(d) BY DEF Listens, Attached
        <5> QED BY <1>2, <1>8, <2>1, <3>2, <4>2, <5>1 DEF CarriesDown
      <4>3. CASE e \in m.doc /\ d = c
        <5>1. note[c].gen = Rank(root[c]) + Offset /\ note[c].gen # 3
          BY <1>1, <1>4, <4>3 DEF Listens
        <5>2. ~(Rank(root[c]) < Rank(sroot)) BY <1>3, <1>5, <1>8, <5>1
        <5>3. 2 \in root[c].sets => 2 \in sroot.sets BY <1>3, <5>1 DEF Holds
        <5>4. Rank(root[c]) <= Rank(sroot)
          <6>1. /\ Latest(sroot) = IF sroot.sets = {} THEN 0 ELSE IF 2 \in sroot.sets THEN 3 ELSE 1
                /\ Latest(root[c]) = IF root[c].sets = {} THEN 0 ELSE IF 2 \in root[c].sets THEN 3 ELSE 1
            BY <1>3, LegalInstance
          <6>2. CASE 2 \in sroot.sets
            <7>1. Latest(sroot) = 3 BY <6>1, <6>2
            <7>2. Rank(sroot) = 2 BY <7>1 DEF Rank
            <7> QED BY <1>3, <7>2
          <6>3. CASE 2 \notin sroot.sets
            <7>1. Latest(sroot) = 1 /\ Latest(root[c]) \in {0, 1} BY <1>5, <5>3, <6>1, <6>3
            <7> QED BY <7>1 DEF Rank
          <6> QED BY <6>2, <6>3
        <5>5. Rank(root[c]) = Rank(sroot) BY <1>3, <5>2, <5>4
        <5>6. Latest(root[c]) = Latest(sroot) BY <1>3, <5>5, SameRank
        <5>7. m.gen = note[c].gen BY <1>3, <1>8, <5>1, <5>5
        <5>8. Instance(root[c]) # 0 BY <4>3, <5>6 DEF Instance
        <5>9. OwnUp(up[c], root[c], note[c]) BY DEF Texted, ClientTexts
        <5>10. m \in Sent(up[c]) /\ CarriesUp(m, root[c], note[c].gen)
          BY <1>1, <1>2, <5>7 DEF CarriesUp
        <5>11. m.doc \subseteq note[c].doc BY <5>8, <5>9, <5>10 DEF OwnUp
        <5> QED BY <1>1, <4>3, <5>6, <5>11
      <4> QED BY <2>1, <4>1, <4>2, <4>3
    <3> QED BY <1>1, <1>2, <1>8, <3>3, <3>4, <3>5 DEF ClientTexts
  <2> QED BY <2>2 DEF Texted
<1> QED BY <1>2, <1>7, <1>8

\* At first no client has a text.
LEMMA TextsInit == Init => Texted
<1> SUFFICES ASSUME Init, NEW c \in Clients PROVE ClientTexts(c)
  BY DEF Texted
<1>1. /\ note[c] = [doc |-> {}, gen |-> 0, ready |-> FALSE] /\ up[c] = << >> /\ down[c] = << >>
      /\ conn[c] = "new"
  BY DEF Init
<1>2. note[c].doc = {} /\ Sent(up[c]) = {} /\ Sent(down[c]) = {} BY <1>1, SentIs
<1> QED BY <1>1, <1>2 DEF ClientTexts, OwnUp, TextUp, OwnDown, TextDown, Listens

\* The texts, as long as no change of the root has got lost.
Delivered == mishaps = {} => Texted

\* Every step keeps the texts where they are to be.
LEMMA DeliveredNext ==
  ASSUME CountInv, CountInv', Ordered, Alike, Generations, Delivered, [Next]_vars
  PROVE  Delivered'
<1> SUFFICES ASSUME mishaps' = {} PROVE Texted'
  BY DEF Delivered
<1>1. CASE UNCHANGED vars
  BY <1>1 DEF Delivered, Texted, ClientTexts, vars, client, room, network, history
<1>2. CASE Next
  <2>1. RootInv /\ CountedAlike /\ Gens /\ Texted
    BY <1>2, MishapsStay DEF CountInv, Ordered, Alike, Generations, Delivered
  <2>2. ASSUME NEW c \in Clients, Accept(c) PROVE Texted'
    <3>1. Mail(c).kind \in {"root", "bundle", "note"} BY <2>1, <2>2, AcceptDoes
    <3> QED BY <2>1, <2>2, <3>1, AcceptRootTexts, AcceptBundleTexts, AcceptNoteTexts
  <2> QED
    BY <1>2, <2>1, <2>2, ReopenTexts, EditTexts, CreateTexts, RemoveTexts, UndoTexts,
       ConnectionTexts, BootstrapTexts, RootTexts, NoteTexts
    DEF Next, Receive
<1> QED BY <1>1, <1>2

\* Converged: when all that was sent is handled, a client and the room have the same note with the
\* same text, but for the edits of messages that a broken connection took or the room refused,
\* however edits, removals, their undoing, connections and losses of connections interleave.
THEOREM ClientsConverge == Spec => []Converged
<1>1. Init => CountInv /\ Ordered /\ Alike /\ Generations /\ Delivered
  BY TypeInit, OrderedInit, CountedInit, GensInit, TextsInit DEF Alike, Generations, Delivered
<1>2. CountInv /\ Ordered /\ Alike /\ Generations /\ Delivered /\ [Next]_vars
        => (CountInv /\ Ordered /\ Alike /\ Generations /\ Delivered)'
  BY CountNext, OrderedNext, AlikeNext, GenerationsNext, DeliveredNext
<1>3. CountInv /\ Ordered /\ Alike /\ Generations /\ Delivered => Converged
  <2> SUFFICES ASSUME CountInv, RootInv, CountedAlike, Gens, Texted, NEW c \in Clients, AtRest(c)
               PROVE  /\ Instance(root[c]) = Instance(sroot)
                      /\ c \notin stale => note[c].doc \ lost = snote.doc \ lost
    BY DEF Ordered, Alike, Generations, Delivered, Converged
  <2>1. root[c] = sroot BY RootsAgree
  <2>2. /\ conn[c] = "on" /\ Sent(up[c]) = {} /\ Sent(down[c]) = {}
    BY SentIs DEF AtRest
  <2>3. /\ Legal(root[c]) /\ root[c] \in Roots /\ RoomHolds
        /\ Holds(c, sroot, root[c], note[c], kept[c], resync[c], conn[c], stale)
    BY AllOf
  <2>4. CASE Instance(sroot) = 0
    BY <2>1, <2>3, <2>4 DEF RoomHolds, Holds
  <2>5. CASE Instance(sroot) # 0 /\ c \notin stale
    <3>1. Instance(sroot) \notin sroot.dels BY <2>5 DEF Instance
    <3>2. "note" \notin resync[c] BY <2>2, <2>3 DEF Holds
    <3>3. /\ TextUp(sroot, snote, up[c], root[c], note[c], resync[c], lost)
          /\ TextDown(sroot, snote, down[c], root[c], note[c], conn[c], c \in stale)
      BY DEF Texted, ClientTexts
    <3>4. \A e \in note[c].doc : e \in lost \/ e \in snote.doc
      BY <2>1, <2>2, <2>5, <3>1, <3>2, <3>3 DEF TextUp
    <3>5. \A e \in snote.doc : e \in note[c].doc
      BY <2>1, <2>2, <2>5, <3>1, <3>3 DEF TextDown, Listens
    <3> QED BY <2>1, <3>4, <3>5
  <2> QED BY <2>1, <2>4, <2>5
<1> QED BY <1>1, <1>2, <1>3, PTL DEF Spec

=============================================================================
