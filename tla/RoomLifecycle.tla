--------------------------- MODULE RoomLifecycle ---------------------------
(***************************************************************************)
(* How the Yjs server makes, shares and destroys the room of one workspace *)
(* (yjs-server/src/room-manager.ts, with its callers socket-connection.ts  *)
(* and http-request-handler.ts).                                           *)
(*                                                                         *)
(* A client is a socket that connects, or an HTTP request that replaces    *)
(* the documents.  Both wait for promises: the initTasks or destroyTasks   *)
(* entry of the workspace, or a store call of the room.  When a promise    *)
(* settles, the clients that wait for it go on one after the other, in     *)
(* microtasks, and nothing else (a packet, a disconnect, a store call that *)
(* returns) happens before each has run up to its next await.  Their order *)
(* is left open: they reach the promise through chains of their own.       *)
(***************************************************************************)
EXTENDS Naturals, FiniteSets

CONSTANTS
  Sockets,        \* connections: a client that reconnects is another socket
  Requests,       \* HTTP replacement requests
  Rooms,          \* WorkspaceRoom objects: bounds how many are made
  NoRoom,
  EarlyLeave,     \* may a socket disconnect while it waits for its room?
  MayFail         \* what may reject, besides loads: flushes, replacements

ASSUME RoomsAssumption == NoRoom \notin Rooms
ASSUME ClientsAssumption == Sockets \intersect Requests = {}
ASSUME EarlyLeaveAssumption == EarlyLeave \in BOOLEAN
ASSUME MayFailAssumption == MayFail \subseteq {"flush", "replace"}

Clients == Sockets \union Requests

VARIABLES
  rooms,       \* rooms: the room registered for the workspace
  initTask,    \* initTasks: the room whose initialize or replaceDocument runs
  destroyTask, \* destroyTasks: the room whose flushAndDestroy runs
  state,       \* of each room object: is it made, initialized, destroyed?
  loading,     \* rooms with an initializeTask
  sockets,     \* sockets of each room object: its connections
  at,          \* the await each client is at
  room,        \* the room each client waits for or has got
  joined,      \* requests inside the try block of replaceDocument
  resumed,     \* clients whose promise settled: pending microtasks
  connected,   \* sockets that are connected
  failed       \* not in the code: has a flush failed, or a replacement that
               \* filled a room of its own?

registry == <<rooms, initTask, destroyTask>>
objects == <<state, loading>>
clients == <<at, room, joined>>
vars == <<registry, objects, sockets, clients, resumed, connected, failed>>

Places == {"new",          \* has not called the manager yet
           "initTask",     \* awaits the initTasks entry
           "destroyTask",  \* awaits the destroyTasks entry
           "load",         \* awaits initialize of the registered room
           "attach",       \* a socket that awaits attachSocket
           "coldReplace",  \* a request that fills the room it made
           "replace",      \* a request that replaces an existing room
           "replaced", "retry", "attached", "done",
           "left"}         \* a socket that was gone when it got its room

TypeOK ==
  /\ {rooms, initTask, destroyTask} \subseteq Rooms \union {NoRoom}
  /\ state \in [Rooms -> {"unused", "empty", "ready", "destroyed"}]
  /\ loading \subseteq Rooms
  /\ sockets \in [Rooms -> SUBSET Sockets]
  /\ at \in [Clients -> Places]
  /\ room \in [Clients -> Rooms \union {NoRoom}]
  /\ joined \subseteq Requests
  /\ resumed \subseteq Clients
  /\ connected \subseteq Sockets
  /\ failed \subseteq MayFail

Init ==
  /\ rooms = NoRoom /\ initTask = NoRoom /\ destroyTask = NoRoom
  /\ state = [r \in Rooms |-> "unused"] /\ loading = {}
  /\ sockets = [r \in Rooms |-> {}]
  /\ at = [c \in Clients |-> "new"]
  /\ room = [c \in Clients |-> NoRoom]
  /\ joined = {} /\ resumed = {} /\ connected = {} /\ failed = {}

----------------------------------------------------------------------------
(* getRoom and replaceDocument of the manager.                             *)

\* The client goes on to the given await, for the given room.
GoTo(c, place, r) ==
  /\ at' = [at EXCEPT ![c] = place]
  /\ room' = [room EXCEPT ![c] = r]

\* A new room: no matter which.  A socket's room loads from the store, a
\* request's is filled by the replacement.
MakeRoom(c) ==
  \E r \in Rooms :
    /\ state[r] = "unused" /\ r = CHOOSE x \in Rooms : state[x] = "unused"
    /\ state' = [state EXCEPT ![r] = "empty"]
    /\ rooms' = r /\ initTask' = r
    /\ IF c \in Requests
         THEN GoTo(c, "coldReplace", r) /\ UNCHANGED loading
         ELSE GoTo(c, "initTask", r) /\ loading' = loading \union {r}
    /\ resumed' = resumed \ {c}
    /\ UNCHANGED <<destroyTask, joined>>

\* initialize of the registered room: done before, shared with the
\* initializeTask, or a load of its own.
InitializeRoom(c, r) ==
  /\ GoTo(c, "load", r)
  /\ IF state[r] = "empty"
       THEN loading' = loading \union {r} /\ resumed' = resumed \ {c}
       ELSE UNCHANGED loading /\ resumed' = resumed \union {c}
  /\ UNCHANGED <<registry, state, joined>>

\* The error leaves the try block, or the request.
RequestFails(c) ==
  /\ at' = [at EXCEPT ![c] = IF c \in joined THEN "retry" ELSE "done"]
  /\ resumed' = IF c \in joined THEN resumed \union {c} ELSE resumed \ {c}
  /\ joined' = joined \ {c}
  /\ UNCHANGED room

\* replaceDocument of the room, which first awaits its initializeTask.
ReplaceRoom(c, r) ==
  /\ IF state[r] = "destroyed"
       THEN RequestFails(c)
       ELSE /\ GoTo(c, IF r \in loading THEN "load" ELSE "replace", r)
            /\ resumed' = resumed \ {c}
            /\ UNCHANGED joined
  /\ UNCHANGED <<registry, objects>>

UseRoomAnew(c) ==   \* mutant: rooms is not read again after the wait
  MakeRoom(c)

\* From where destroyTasks has nothing to wait for: initTasks is not read again.
UseRoom(c) ==
  \/ rooms = NoRoom /\ MakeRoom(c)
  \/ rooms # NoRoom /\ c \in Sockets /\ InitializeRoom(c, rooms)
  \/ rooms # NoRoom /\ c \in Requests /\ ReplaceRoom(c, rooms)

AwaitDestroyOrUseRoom(c) ==
  \/ /\ destroyTask # NoRoom
     /\ GoTo(c, "destroyTask", destroyTask)
     /\ resumed' = resumed \ {c}
     /\ UNCHANGED <<registry, objects, joined>>
  \/ destroyTask = NoRoom /\ UseRoom(c)

GetRoomRetried(c) ==   \* mutant: getRoom retries as replaceDocument does
  \/ /\ initTask # NoRoom
     /\ GoTo(c, "initTask", initTask)
     /\ joined' = joined \union {c}
     /\ UNCHANGED <<registry, objects, resumed>>
  \/ initTask = NoRoom /\ AwaitDestroyOrUseRoom(c)

GetRoom(c) ==
  \/ /\ initTask # NoRoom
     /\ GoTo(c, "initTask", initTask)
     /\ joined' = joined \union ({c} \intersect Requests)
     /\ UNCHANGED <<registry, objects, resumed>>
  \/ initTask = NoRoom /\ AwaitDestroyOrUseRoom(c)

\* The handler of a new socket, and of a replacement request.
Connect(s) ==
  /\ resumed = {} /\ at[s] = "new"
  /\ connected' = connected \union {s}
  /\ GetRoom(s)
  /\ UNCHANGED <<sockets, failed>>

Request(h) ==
  /\ resumed = {} /\ at[h] = "new"
  /\ GetRoom(h)
  /\ UNCHANGED <<sockets, connected, failed>>

----------------------------------------------------------------------------
(* Destruction.                                                            *)

DestroyRoom(r, left) ==   \* mutant: connectionCount is not looked at
  destroyTask' = IF destroyTask = NoRoom /\ state[r] # "destroyed" THEN r ELSE destroyTask

\* destroyRoomIfEmpty, given the sockets the room has left.  flushAndDestroy
\* returns at once from a destroyed room.
DestroyRoomIfEmpty(r, left) ==
  destroyTask' = IF left = {} /\ destroyTask = NoRoom /\ state[r] # "destroyed"
                   THEN r ELSE destroyTask

Waiting(place, r) == {c \in Clients : at[c] = place /\ room[c] = r}

\* The promises the clients wait for reject: a socket is disconnected before
\* it has a room, a request retries if it had joined an initialization.
Reject(rejected) ==
  /\ at' = [c \in Clients |-> IF c \notin rejected THEN at[c]
                              ELSE IF c \in joined THEN "retry" ELSE "done"]
  /\ resumed' = resumed \union (rejected \intersect joined)
  /\ joined' = joined \ rejected
  /\ connected' = connected \ rejected
  /\ UNCHANGED room

\* flushAndDestroy tears the room down without another look at connectionCount.
\* Cold replacements are queued before it, so it waits for them.  It waits for
\* most later ones too; here it need not.  The manager looks at connectionCount
\* again before it takes the room off rooms: it is 0, the room having let go of
\* its sockets in the same turn of the event loop.
FlushDone(r) ==
  /\ resumed = {} /\ destroyTask = r /\ r # NoRoom
  /\ Waiting("coldReplace", r) = {}
  /\ destroyTask' = NoRoom
  /\ state' = [state EXCEPT ![r] = "destroyed"]
  /\ sockets' = [sockets EXCEPT ![r] = {}]
  /\ rooms' = IF rooms = r THEN NoRoom ELSE rooms
  /\ resumed' = Waiting("destroyTask", r)
  /\ UNCHANGED <<initTask, loading, clients, connected, failed>>

FlushFails(r) ==
  /\ resumed = {} /\ destroyTask = r /\ r # NoRoom
  /\ "flush" \in MayFail
  /\ Waiting("coldReplace", r) = {}
  /\ destroyTask' = NoRoom
  /\ Reject(Waiting("destroyTask", r))
  /\ failed' = failed \union {"flush"}
  /\ UNCHANGED <<rooms, initTask, objects, sockets>>

----------------------------------------------------------------------------
(* Initialization.                                                         *)

\* initTasks holds the load of r, not a cold replacement.
LoadIsInitTask(r) == initTask = r /\ Waiting("coldReplace", r) = {}

LoadDoneUnseen(r) ==   \* mutant: the initTasks entry goes, its waiters stay
  /\ resumed = {} /\ r \in loading
  /\ loading' = loading \ {r}
  /\ state' = [state EXCEPT ![r] = IF @ = "empty" THEN "ready" ELSE @]
  /\ initTask' = IF LoadIsInitTask(r) THEN NoRoom ELSE initTask
  /\ resumed' = Waiting("load", r)
  /\ UNCHANGED <<rooms, destroyTask, sockets, clients, connected, failed>>

LoadDone(r) ==
  /\ resumed = {} /\ r \in loading
  /\ loading' = loading \ {r}
  /\ state' = [state EXCEPT ![r] = IF @ = "empty" THEN "ready" ELSE @]
  /\ IF LoadIsInitTask(r)
       THEN /\ initTask' = NoRoom
            /\ resumed' = Waiting("load", r) \union Waiting("initTask", r)
       ELSE /\ resumed' = Waiting("load", r)
            /\ UNCHANGED initTask
  /\ UNCHANGED <<rooms, destroyTask, sockets, clients, connected, failed>>

LoadFails(r) ==
  /\ resumed = {} /\ r \in loading
  /\ loading' = loading \ {r}
  /\ IF LoadIsInitTask(r)
       THEN /\ initTask' = NoRoom
            /\ rooms' = IF rooms = r THEN NoRoom ELSE rooms
            /\ Reject(Waiting("load", r) \union Waiting("initTask", r))
       ELSE /\ Reject(Waiting("load", r))
            /\ UNCHANGED <<initTask, rooms>>
  /\ UNCHANGED <<destroyTask, state, sockets, failed>>

----------------------------------------------------------------------------
(* Replacement.                                                            *)

\* The room shows the snapshot, and disconnects its sockets: the last one to
\* leave destroys the room.  A socket that is still attaching learns later.
ReplaceDone(h) ==
  LET r == room[h]
      waiters == IF at[h] = "coldReplace" THEN Waiting("initTask", r) ELSE {}
  IN /\ resumed = {} /\ at[h] \in {"coldReplace", "replace"}
     /\ state' = [state EXCEPT ![r] = IF @ = "empty" THEN "ready" ELSE @]
     /\ initTask' = IF at[h] = "coldReplace" THEN NoRoom ELSE initTask
     /\ connected' = connected \ sockets[r]
     /\ sockets' = [sockets EXCEPT ![r] = {}]
     /\ IF sockets[r] = {} THEN UNCHANGED destroyTask ELSE DestroyRoomIfEmpty(r, {})
     /\ at' = [c \in Clients |->
                 IF c = h THEN "replaced"
                 ELSE IF c \in sockets[r] /\ at[c] = "attached" THEN "done" ELSE at[c]]
     /\ joined' = joined \ {h}
     /\ resumed' = waiters \union {h}
     /\ UNCHANGED <<rooms, loading, room, failed>>

\* A cold room is dropped unless sockets have attached to it.
ReplaceFails(h) ==
  LET r == room[h]
  IN /\ resumed = {} /\ "replace" \in MayFail
     /\ \/ /\ at[h] = "coldReplace"
           /\ initTask' = NoRoom
           /\ rooms' = IF rooms = r /\ sockets[r] = {} THEN NoRoom ELSE rooms
           /\ Reject(Waiting("initTask", r) \union {h})
           /\ failed' = failed \union {"replace"}
        \/ /\ at[h] = "replace"
           /\ Reject({h})
           /\ UNCHANGED <<initTask, rooms, failed>>
     /\ UNCHANGED <<destroyTask, objects, sockets>>

----------------------------------------------------------------------------
(* What a client does when its promise has settled.                        *)

\* A socket has its room: it attaches, or it has left meanwhile and destroys
\* the room if nobody is attached.
SocketHasRoom(s) ==
  LET r == room[s]
  IN /\ s \in resumed /\ s \in Sockets /\ at[s] \in {"initTask", "load"}
     /\ resumed' = resumed \ {s}
     /\ \/ /\ s \in connected
           /\ sockets' = [sockets EXCEPT ![r] = @ \union {s}]
           /\ GoTo(s, "attach", r)
           /\ UNCHANGED destroyTask
        \/ /\ s \notin connected
           /\ DestroyRoomIfEmpty(r, sockets[r])
           /\ GoTo(s, "left", r)
           /\ UNCHANGED sockets
     /\ UNCHANGED <<rooms, initTask, objects, joined, connected, failed>>

\* The initialization a request joined is done.
RequestHasRoom(h) ==
  /\ h \in resumed /\ h \in Requests /\ at[h] = "initTask"
  /\ ReplaceRoom(h, room[h])
  /\ UNCHANGED <<sockets, connected, failed>>

\* The initializeTask that replaceDocument of the room awaited is done.
LoadAwaited(h) ==
  /\ h \in resumed /\ h \in Requests /\ at[h] = "load"
  /\ GoTo(h, "replace", room[h])
  /\ resumed' = resumed \ {h}
  /\ UNCHANGED <<registry, objects, sockets, joined, connected, failed>>

DestroyAwaited(c) ==
  /\ c \in resumed /\ at[c] = "destroyTask"
  /\ UseRoom(c)
  /\ UNCHANGED <<sockets, connected, failed>>

Retry(h) ==
  /\ h \in resumed /\ at[h] = "retry"
  /\ AwaitDestroyOrUseRoom(h)
  /\ UNCHANGED <<sockets, connected, failed>>

\* The request has been answered: a room without connections goes again.
Replaced(h) ==
  /\ h \in resumed /\ at[h] = "replaced"
  /\ DestroyRoomIfEmpty(room[h], sockets[room[h]])
  /\ GoTo(h, "done", room[h])
  /\ resumed' = resumed \ {h}
  /\ UNCHANGED <<rooms, initTask, objects, sockets, joined, connected, failed>>

----------------------------------------------------------------------------
(* Attached sockets.                                                       *)

AttachDone(s) ==
  /\ resumed = {} /\ at[s] = "attach"
  /\ IF s \in connected
       THEN GoTo(s, "attached", room[s]) /\ UNCHANGED destroyTask
       ELSE GoTo(s, "done", room[s]) /\ DestroyRoomIfEmpty(room[s], sockets[room[s]])
  /\ UNCHANGED <<rooms, initTask, objects, sockets, joined, resumed, connected,
                 failed>>

LeaveRoom(s) ==   \* mutant: the room is not destroyed with its last socket
  /\ connected' = connected \ {s}
  /\ sockets' = [sockets EXCEPT ![room[s]] = @ \ {s}]
  /\ UNCHANGED destroyTask

\* detachSocket and destroyRoomIfEmpty.
Leave(s) ==
  LET r == room[s]
  IN /\ connected' = connected \ {s}
     /\ sockets' = [sockets EXCEPT ![r] = @ \ {s}]
     /\ DestroyRoomIfEmpty(r, sockets[r] \ {s})

\* A note does not load or the root is not valid: the server disconnects.
AttachFails(s) ==
  /\ resumed = {} /\ at[s] = "attach"
  /\ IF s \in connected THEN Leave(s) ELSE UNCHANGED <<connected, sockets, destroyTask>>
  /\ GoTo(s, "done", room[s])
  /\ UNCHANGED <<rooms, initTask, objects, joined, resumed, failed>>

\* The disconnect handler, before and after the socket has its room.
Disconnect(s) ==
  /\ resumed = {} /\ s \in connected
  /\ \/ /\ EarlyLeave
        /\ at[s] \in {"initTask", "destroyTask", "load"}
        /\ connected' = connected \ {s}
        /\ UNCHANGED <<sockets, destroyTask, at>>
     \/ /\ at[s] \in {"attach", "attached"}
        /\ Leave(s)
        /\ at' = [at EXCEPT ![s] = IF @ = "attached" THEN "done" ELSE @]
  /\ UNCHANGED <<rooms, initTask, objects, room, joined, resumed, failed>>

----------------------------------------------------------------------------

Continue(c) ==
  \/ SocketHasRoom(c) \/ RequestHasRoom(c) \/ LoadAwaited(c)
  \/ DestroyAwaited(c) \/ Retry(c) \/ Replaced(c)

LoadSettles(r) == LoadDone(r) \/ LoadFails(r)
FlushSettles(r) == FlushDone(r) \/ FlushFails(r)
AttachSettles(s) == AttachDone(s) \/ AttachFails(s)
ReplaceSettles(h) == ReplaceDone(h) \/ ReplaceFails(h)

Next ==
  \/ \E s \in Sockets : Connect(s) \/ Disconnect(s) \/ AttachSettles(s)
  \/ \E h \in Requests : Request(h) \/ ReplaceSettles(h)
  \/ \E c \in Clients : Continue(c)
  \/ \E r \in Rooms : LoadSettles(r) \/ FlushSettles(r)

Spec == Init /\ [][Next]_vars

\* The event loop runs microtasks, and every store call settles.
Fairness ==
  /\ \A c \in Clients : WF_vars(Continue(c))
  /\ \A r \in Rooms : WF_vars(LoadSettles(r)) /\ WF_vars(FlushSettles(r))
  /\ \A s \in Sockets : WF_vars(AttachSettles(s))
  /\ \A h \in Requests : WF_vars(ReplaceSettles(h))

FairSpec == Spec /\ Fairness

----------------------------------------------------------------------------
(* Properties.                                                             *)

\* The room has documents that clients edit, or is about to.
Live(r) == state[r] = "ready" \/ (state[r] = "empty" /\ r \in loading) \/ initTask = r

\* At most one room object of the workspace is live, the registered one: two
\* would save their own versions of the documents over each other's.  getRoom
\* and replaceDocument await other tasks between their look at the maps and
\* their use of them.
OneLiveRoom == \A r \in Rooms : Live(r) => rooms = r

\* There is one live room until a cold replacement fails: it unregisters the
\* room although a client that waited beside it may be initializing it.
OneLiveRoomKept == "replace" \notin failed => OneLiveRoom

\* The room of an attached socket is registered, alive and sends to it:
\* nobody's departure destroyed it, and a destroyed room drops what the socket
\* sends without a word.
AttachedServed ==
  \A s \in Sockets :
    at[s] = "attached" =>
      /\ rooms = room[s]
      /\ state[room[s]] = "ready"
      /\ s \in sockets[room[s]]

\* No replacement was asked for, and no socket left while it waited for its room.
Undisturbed ==
  /\ \A h \in Requests : at[h] = "new"
  /\ \A s \in Sockets : /\ at[s] # "left"
                        /\ at[s] \in {"initTask", "destroyTask", "load"} => s \in connected

\* As long as no replacement was asked for and no socket left before it had its
\* room, AttachedServed holds, however departures, failed loads, failed flushes
\* and new connections interleave.  (It fails otherwise.)
ServedUndisturbed == Undisturbed => AttachedServed

\* Whatever is destroyed, fails or is retried, every client that came is
\* attached or answered in the end: no promise it awaits is dropped.
EveryClientSettles ==
  \A c \in Clients :
    at[c] \notin {"new", "attached", "done", "left"} ~> at[c] \in {"attached", "done", "left"}

\* A room that nobody is connected to or waits for does not stay, unless a flush
\* or a cold replacement has failed: then it may stay until the next client
\* comes (destroyTasks may hold the flush of an older room, and nobody looks
\* again when that is over).
IdleRoomDestroyed ==
  \A r \in Rooms :
    (rooms = r /\ \A c \in Clients : at[c] \in {"new", "done", "left"}) ~>
      rooms # r \/ sockets[r] # {} \/ failed # {}

=============================================================================
