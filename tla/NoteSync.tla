------------------------------ MODULE NoteSync ------------------------------
(* The protocol between a workspace room (yjs-server/src/room.ts) and the   *)
(* workspace providers of its clients (shared/src/workspace/                *)
(* socketio-provider.ts), for one note: the key of the note in the root     *)
(* document, the document of the note, and the generations by which both    *)
(* sides tell the documents that one note id has had.                       *)
(*                                                                          *)
(* A Yjs document is what it has received, merged by union.  The root keeps *)
(* the values that were set for the note's key and the ones deleted; a      *)
(* value is a Y.Doc, called an instance here.  Instance 1 is the note as it *)
(* was created.  Undoing its removal sets two: the undo manager an empty    *)
(* copy (2), the undo controller the old document (3).                      *)
EXTENDS Integers, Sequences

CONSTANTS
  Clients,     \* WorkspaceSocketProviders of one workspace
  MaxEdits,    \* bounds the edits of the note
  MaxDrops     \* bounds the connections that break

ASSUME BoundsAssumption == MaxEdits \in Nat /\ MaxDrops \in Nat

VARIABLES
  conn,        \* per client: its connection; "on" once rootSynced
  root,        \* per client: its root document, as to the note
  note,        \* per client: NoteState of the note; gen stays when it goes
  resync,      \* per client: which documents have unsent changes
  kept,        \* per client: the document of the note it has removed
  sroot,       \* the root document of the room
  snote,       \* DocState of the note in the room
  up, down,    \* per client: what is under way to the room, and from it
  edits,       \* how many edits the note has seen
  drops,       \* how many connections broke
  lost,        \* edits in an update that was lost or refused
  stale,       \* clients whose generation is off until they reconnect
  mishaps      \* what has happened that the protocol does not mend

client  == <<root, note, resync, kept>>
room    == <<sroot, snote>>
network == <<conn, up, down, drops>>
history == <<lost, stale, mishaps>>
vars    == <<client, room, network, history, edits>>

Body      == 0          \* what a note is created with
Texts     == SUBSET (0..MaxEdits)
Instances == 1..3
Roots     == [sets : SUBSET Instances, dels : SUBSET Instances]
Notes     == [doc : Texts, gen : 0..4, ready : BOOLEAN]
Messages  == [kind : {"root", "note", "bundle", "bootstrap"},
              root : Roots, gen : 0..4, doc : Texts]

TypeOK ==
  /\ conn \in [Clients -> {"new", "off", "connecting", "on", "locked out"}]
  /\ root \in [Clients -> Roots] /\ note \in [Clients -> Notes]
  /\ resync \in [Clients -> SUBSET {"root", "note"}]
  /\ kept \in [Clients -> Texts]
  /\ sroot \in Roots /\ snote \in Notes
  /\ up \in [Clients -> Seq(Messages)] /\ down \in [Clients -> Seq(Messages)]
  /\ edits \in 0..MaxEdits /\ drops \in 0..MaxDrops
  /\ lost \in Texts /\ stale \subseteq Clients
  /\ mishaps \subseteq {"update lost", "made unsynced"}

----------------------------------------------------------------------------
(* Documents and messages.                                                 *)

Change(sets, dels) == [sets |-> sets, dels |-> dels]
Nothing == Change({}, {})

Merge(r, change) ==
  [sets |-> r.sets \union change.sets, dels |-> r.dels \union change.dels]

\* The last value of the note's key, or 0.  A value is pending in Yjs until the
\* ones before it are there; a later one replaces an earlier one.
Latest(r) == CHOOSE k \in 0..3 : 1..k \subseteq r.sets /\ k + 1 \notin r.sets

\* The instance the key of the note holds, or 0.
Instance(r) == IF Latest(r) \in r.dels THEN 0 ELSE Latest(r)

FollowCountsRemoval(n, old, new) ==   \* mutant: a removal ends a generation too
  IF Instance(new) = Instance(old) THEN [n EXCEPT !.ready = @ \/ n.doc # {}]
  ELSE [doc |-> {}, ready |-> FALSE, gen |-> n.gen + 1]

\* syncAttachedNotes: the state of the note follows the key in the root.
\* Another instance gets a new state, under the next generation.
Follow(n, old, new) ==
  IF Instance(new) = Instance(old) THEN [n EXCEPT !.ready = @ \/ n.doc # {}]
  ELSE [doc |-> {}, ready |-> FALSE,
        gen |-> IF Instance(new) = 0 THEN n.gen ELSE n.gen + 1]

RootUpdate(change)   == [kind |-> "root", root |-> change, gen |-> 1, doc |-> {}]
NoteUpdate(gen, doc) == [kind |-> "note", root |-> Nothing, gen |-> gen, doc |-> doc]
Bundle(change, doc)  == [kind |-> "bundle", root |-> change, gen |-> 1, doc |-> doc]
Bootstrap == [kind |-> "bootstrap", root |-> sroot, gen |-> snote.gen, doc |-> snote.doc]

Attached(c) == conn[c] \in {"connecting", "on"}

Emit(c, messages) == up' = [up EXCEPT ![c] = @ \o messages]

Handled(c) == up' = [up EXCEPT ![c] = Tail(@)]

\* Every other socket of the room gets the update.
Broadcast(c, messages) ==
  down' = [d \in Clients |->
             IF d # c /\ Attached(d) THEN down[d] \o messages ELSE down[d]]

\* A workspace the room has opened, with the note or before it was created.
Init ==
  /\ conn = [c \in Clients |-> "new"]
  /\ root = [c \in Clients |-> Nothing]
  /\ note = [c \in Clients |-> [doc |-> {}, gen |-> 0, ready |-> FALSE]]
  /\ resync = [c \in Clients |-> {}] /\ kept = [c \in Clients |-> {}]
  /\ \/ /\ sroot = Nothing
        /\ snote = [doc |-> {}, gen |-> 0, ready |-> FALSE]
     \/ /\ sroot = Change({1}, {})
        /\ snote = [doc |-> {Body}, gen |-> 1, ready |-> TRUE]
  /\ up = [c \in Clients |-> << >>] /\ down = [c \in Clients |-> << >>]
  /\ edits = 0 /\ drops = 0
  /\ lost = {} /\ stale = {} /\ mishaps = {}

----------------------------------------------------------------------------
(* What the user of a client does.                                         *)

Here(c) == conn[c] \notin {"new", "locked out"}

\* handleDocumentUpdate of the note: sent at once, or with the next bootstrap.
EditNote(c) ==
  /\ Here(c) /\ note[c].doc # {} /\ edits < MaxEdits
  /\ edits' = edits + 1
  /\ note' = [note EXCEPT ![c].doc = @ \union {edits'}]
  /\ IF conn[c] = "on" /\ note[c].ready
       THEN /\ Emit(c, <<NoteUpdate(note[c].gen, {edits'})>>)
            /\ UNCHANGED resync
       ELSE /\ resync' = [resync EXCEPT ![c] = @ \union {"note"}]
            /\ UNCHANGED up
  /\ UNCHANGED <<root, kept, room, conn, down, drops, history>>

\* handleRootDocumentUpdate: a client with a bootstrap sends the messages the
\* change calls for, another one marks the root.
ChangeRoot(c, change, newNote, messages) ==
  /\ root' = [root EXCEPT ![c] = Merge(@, change)]
  /\ note' = [note EXCEPT ![c] = newNote]
  /\ IF conn[c] = "on"
       THEN /\ Emit(c, messages)
            /\ resync' = [resync EXCEPT ![c] = {}]
       ELSE /\ resync' = [resync EXCEPT ![c] = {"root"}]
            /\ UNCHANGED up
  /\ UNCHANGED <<room, conn, down, drops, edits, lost>>

\* The note is created with its content, so that the bundle goes out at once.
CreateNote(c) ==
  /\ Here(c)
  /\ 1 \notin sroot.sets /\ \A d \in Clients : 1 \notin root[d].sets
  /\ ChangeRoot(c, Change({1}, {}),
                [doc |-> {Body}, gen |-> note[c].gen + 1, ready |-> TRUE],
                <<Bundle(Change({1}, {}), {Body})>>)
  /\ mishaps' = IF conn[c] = "on" THEN mishaps ELSE mishaps \union {"made unsynced"}
  /\ UNCHANGED <<kept, stale>>

\* confirmDelete remembers the document and deletes the key.
RemoveNote(c) ==
  /\ Here(c) /\ Instance(root[c]) # 0
  /\ LET change == Change({}, {Instance(root[c])}) IN
       ChangeRoot(c, change, Follow(note[c], root[c], Merge(root[c], change)),
                  <<RootUpdate(change)>>)
  /\ kept' = [kept EXCEPT ![c] = note[c].doc]
  /\ UNCHANGED <<stale, mishaps>>

\* undo of the removal: two transactions, and two generations in the client.
\* The first introduces the note and waits for content; the second is sent as
\* an update of the root, and then the bundle with the first.
UndoRemoval(c) ==
  /\ Here(c) /\ kept[c] # {} /\ Instance(root[c]) = 0
  /\ 2 \notin sroot.sets /\ \A d \in Clients : 2 \notin root[d].sets
  /\ ChangeRoot(c, Change({2, 3}, {}),
                [doc |-> kept[c], gen |-> note[c].gen + 2, ready |-> TRUE],
                <<RootUpdate(Change({3}, {})), Bundle(Change({2}, {}), kept[c])>>)
  /\ stale' = stale \union {c}
  /\ mishaps' = IF conn[c] = "on" THEN mishaps ELSE mishaps \union {"made unsynced"}
  /\ UNCHANGED kept

----------------------------------------------------------------------------
(* Connections.                                                            *)

\* The socket connects and the room attaches it: its bootstrap is on its way.
Connect(c) ==
  /\ conn[c] \in {"new", "off"}
  /\ conn' = [conn EXCEPT ![c] = "connecting"]
  /\ note' = [note EXCEPT ![c].ready = FALSE]
  /\ down' = [down EXCEPT ![c] = <<Bootstrap>>]
  /\ UNCHANGED <<root, resync, kept, room, up, drops, history, edits>>

\* The connection breaks with what it carried; nothing is sent twice.
Drop(c) ==
  /\ Attached(c) /\ drops < MaxDrops
  /\ drops' = drops + 1
  /\ conn' = [conn EXCEPT ![c] = "off"]
  /\ up' = [up EXCEPT ![c] = << >>] /\ down' = [down EXCEPT ![c] = << >>]
  /\ LET sent == {up[c][i] : i \in DOMAIN up[c]} IN
       /\ lost' = lost \union UNION {m.doc : m \in sent}
       /\ mishaps' = IF \A m \in sent : m.kind = "note" THEN mishaps
                       ELSE mishaps \union {"update lost"}
  /\ UNCHANGED <<client, room, stale, edits>>

\* The last socket is gone and the room is flushed and destroyed: the next one
\* loads the same documents and counts the generations from the start.
ReopenRoom ==
  /\ \A c \in Clients : ~Attached(c)
  /\ snote' = [snote EXCEPT !.gen = IF Instance(sroot) = 0 THEN 0 ELSE 1]
  /\ UNCHANGED <<client, sroot, network, history, edits>>

----------------------------------------------------------------------------
(* The client receives.                                                    *)

FlushRootOnly(c, pending, r, n) ==   \* mutant: a note edited offline stays unsent
  Emit(c, IF "root" \in pending THEN <<RootUpdate(r)>> ELSE << >>)

\* flushUnsyncedLocalState.  The note is tracked by now, also one that the
\* room has never seen: the root is sent as a plain update, never in a bundle.
FlushUnsynced(c, pending, r, n) ==
  Emit(c, (IF "root" \in pending THEN <<RootUpdate(r)>> ELSE << >>)
            \o (IF "note" \in pending THEN <<NoteUpdate(n.gen, n.doc)>> ELSE << >>))

SyncedOwnGeneration(tracked, m) ==   \* mutant: the client goes on counting for itself
  IF Instance(m.root) = 0 THEN tracked
  ELSE [doc |-> tracked.doc \union m.doc, gen |-> tracked.gen, ready |-> TRUE]

SyncedNotReady(tracked, m) ==   \* mutant: markNoteReady is not called
  IF Instance(m.root) = 0 THEN tracked
  ELSE [tracked EXCEPT !.doc = @ \union m.doc, !.gen = m.gen]

\* The state of the note after a bootstrap with a root and a note document.
Synced(tracked, m) ==
  IF Instance(m.root) = 0 THEN tracked
  ELSE [doc |-> tracked.doc \union m.doc, gen |-> m.gen, ready |-> TRUE]

\* applyBootstrap.  A bootstrap with a note that the client has removed is
\* taken for an error, and the provider disconnects itself for good.
ReceiveBootstrap(c) ==
  LET m       == Head(down[c])
      r       == Merge(root[c], m.root)
      pending == IF Instance(r) = Instance(root[c]) THEN resync[c]
                 ELSE resync[c] \ {"note"}
      tracked == Follow(note[c], root[c], r)
      n       == Synced(tracked, m)
  IN /\ down[c] # << >> /\ m.kind = "bootstrap"
     /\ root' = [root EXCEPT ![c] = r]
     /\ IF Instance(m.root) # 0 /\ Instance(r) = 0
          THEN /\ conn' = [conn EXCEPT ![c] = "locked out"]
               /\ note' = [note EXCEPT ![c] = tracked]
               /\ down' = [down EXCEPT ![c] = << >>]
               /\ UNCHANGED <<resync, up, stale>>
          ELSE /\ conn' = [conn EXCEPT ![c] = "on"]
               /\ note' = [note EXCEPT ![c] = n]
               /\ FlushUnsynced(c, pending, r, n)
               /\ resync' = [resync EXCEPT ![c] = {}]
               /\ down' = [down EXCEPT ![c] = Tail(@)]
               /\ stale' = IF Instance(m.root) = 0 /\ m.root.sets # {}
                             THEN stale \union {c} ELSE stale \ {c}
     /\ UNCHANGED <<kept, room, drops, edits, lost, mishaps>>

\* applyDocMessage for the root.  A client that is "on" has nothing to flush.
ReceiveRootUpdate(c) ==
  LET m == Head(down[c])
      r == Merge(root[c], m.root)
  IN /\ down[c] # << >> /\ m.kind = "root"
     /\ root' = [root EXCEPT ![c] = r]
     /\ note' = [note EXCEPT ![c] = Follow(@, root[c], r)]
     /\ down' = [down EXCEPT ![c] = Tail(@)]
     /\ UNCHANGED <<resync, kept, room, conn, up, drops, history, edits>>

\* applyDocMessage for the note: only of the generation the client is at.  Edits
\* that wait for a ready note have gone with the bootstrap (markNoteReady).
ReceiveNoteUpdate(c) ==
  LET m == Head(down[c]) IN
    /\ down[c] # << >> /\ m.kind = "note"
    /\ note' = IF Instance(root[c]) = 0 \/ m.gen # note[c].gen THEN note
               ELSE [note EXCEPT ![c].doc = @ \union m.doc, ![c].ready = TRUE]
    /\ down' = [down EXCEPT ![c] = Tail(@)]
    /\ UNCHANGED <<root, resync, kept, room, conn, up, drops, history, edits>>

----------------------------------------------------------------------------
(* The room receives.                                                      *)

\* The room takes a root over and its note state follows (syncAttachedNotes).
SetRoot(r) ==
  /\ sroot' = r
  /\ snote' = Follow(snote, sroot, r)

\* handleUpdate for the root.  A plain update must not introduce a note: the
\* room takes it back, so that its key is set and deleted (applyValidatedRootUpdate).
AcceptRootUpdate(c) ==
  LET m == Head(up[c])
      r == Merge(sroot, m.root)
  IN /\ up[c] # << >> /\ m.kind = "root"
     /\ IF Instance(sroot) = 0 /\ Instance(r) # 0
          THEN /\ sroot' = Merge(r, Change({}, {Instance(r)}))
               /\ UNCHANGED <<snote, down>>
          ELSE /\ SetRoot(r)
               /\ Broadcast(c, <<m>>)
     /\ Handled(c)
     /\ UNCHANGED <<client, conn, drops, history, edits>>

AcceptBundleOtherRoot(c) ==   \* mutant: the others get the root, not the note
  LET m == Head(up[c])
      r == Merge(sroot, m.root)
  IN /\ up[c] # << >> /\ m.kind = "bundle"
     /\ IF Instance(sroot) # 0 THEN UNCHANGED <<room, down>>
        ELSE IF Instance(r) = 0 THEN sroot' = r /\ UNCHANGED <<snote, down>>
        ELSE /\ sroot' = r
             /\ snote' = [doc |-> m.doc, gen |-> snote.gen + 1, ready |-> TRUE]
             /\ Broadcast(c, <<RootUpdate(m.root)>>)
     /\ Handled(c)
     /\ UNCHANGED <<client, conn, drops, history, edits>>

\* applyCreateNoteBundle: only for a note the room does not have, and only if
\* the root of the bundle attaches it.
AcceptBundle(c) ==
  LET m == Head(up[c])
      r == Merge(sroot, m.root)
  IN /\ up[c] # << >> /\ m.kind = "bundle"
     /\ IF Instance(sroot) # 0 THEN UNCHANGED <<room, down>>
        ELSE IF Instance(r) = 0 THEN sroot' = r /\ UNCHANGED <<snote, down>>
        ELSE /\ sroot' = r
             /\ snote' = [doc |-> m.doc, gen |-> snote.gen + 1, ready |-> TRUE]
             /\ Broadcast(c, <<RootUpdate(m.root), NoteUpdate(snote'.gen, m.doc)>>)
     /\ Handled(c)
     /\ UNCHANGED <<client, conn, drops, history, edits>>

\* handleUpdate for the note: of another generation it is dropped.
AcceptNoteUpdate(c) ==
  LET m == Head(up[c]) IN
    /\ up[c] # << >> /\ m.kind = "note"
    /\ IF Instance(sroot) = 0 \/ m.gen # snote.gen
         THEN /\ lost' = IF c \in stale THEN lost \union m.doc ELSE lost
              /\ UNCHANGED <<room, down>>
         ELSE /\ snote' = [snote EXCEPT !.doc = @ \union m.doc, !.ready = TRUE]
              /\ Broadcast(c, <<m>>)
              /\ UNCHANGED <<sroot, lost>>
    /\ Handled(c)
    /\ UNCHANGED <<client, conn, drops, stale, mishaps, edits>>

----------------------------------------------------------------------------
Receive(c) == ReceiveBootstrap(c) \/ ReceiveRootUpdate(c) \/ ReceiveNoteUpdate(c)
Accept(c)  == AcceptRootUpdate(c) \/ AcceptBundle(c) \/ AcceptNoteUpdate(c)

Next ==
  \/ ReopenRoom
  \/ \E c \in Clients :
       \/ EditNote(c) \/ CreateNote(c) \/ RemoveNote(c) \/ UndoRemoval(c)
       \/ Connect(c) \/ Drop(c)
       \/ Receive(c) \/ Accept(c)

\* Messages arrive and socket.io reconnects; users owe nothing.
Spec ==
  /\ Init /\ [][Next]_vars
  /\ \A c \in Clients :
       WF_vars(Connect(c)) /\ WF_vars(Receive(c)) /\ WF_vars(Accept(c))

----------------------------------------------------------------------------
(* What the protocol is for.                                               *)

\* Everything sent to the room is handled, and everything it sent to c.
AtRest(c) == conn[c] = "on" /\ down[c] = << >> /\ \A d \in Clients : up[d] = << >>

\* At rest a client and the room have the same note with the same text, short
\* of the edits of a lost or refused message, whatever edits, removals,
\* undoing and reconnections interleave.  The client that undid a removal, or
\* joined while the note was removed, has it from its next bootstrap on; and no
\* change of the root may be lost with a connection or made without one.
Converged ==
  mishaps = {} =>
    \A c \in Clients : AtRest(c) =>
      /\ Instance(root[c]) = Instance(sroot)
      /\ c \notin stale => note[c].doc \ lost = snote.doc \ lost

\* Both sides count the generations of the note alike, although each counts
\* for itself: or the room would drop what the client sends, and the other way
\* round.
GenerationsAgree ==
  mishaps = {} =>
    \A c \in Clients :
      AtRest(c) /\ c \notin stale /\ Instance(sroot) # 0 => note[c].gen = snote.gen

\* A client that connects gets all documents, unless it is locked out.
ClientsSync ==
  \A c \in Clients :
    conn[c] = "connecting" ~>
      \/ conn[c] \in {"off", "locked out"} \/ c \in stale \/ mishaps # {}
      \/ conn[c] = "on" /\ (Instance(root[c]) # 0 => note[c].ready)

\* An edit made without a connection comes to the room with the next one
\* (socketio.spec.ts: 'flushes local edits made while offline'), unless the
\* note is removed or the connection breaks under it.
OfflineEditsArrive ==
  \A c \in Clients, e \in 1..MaxEdits :
    e \in note[c].doc /\ "note" \in resync[c] ~>
      \/ e \in snote.doc \/ e \notin note[c].doc \/ e \in lost
      \/ c \in stale \/ conn[c] = "locked out" \/ mishaps # {}

\* The error of applyBootstrap ('Received bootstrap for unattached note doc')
\* says that the bootstrap never holds a note the client has not attached.
BootstrapNotesAttached == \A c \in Clients : conn[c] # "locked out"

=============================================================================
