------------------------ MODULE RoomLifecycleProofs ------------------------
(***************************************************************************)
(* Theorems about RoomLifecycle that hold for every set of sockets,        *)
(* requests and rooms.                                                     *)
(***************************************************************************)
EXTENDS RoomLifecycle, TLAPS

----------------------------------------------------------------------------
(* Type correctness.                                                       *)

\* The initial states have their types.
LEMMA TypeInit == Init => TypeOK
BY DEF Init, TypeOK, Places

\* Getting a room keeps the types.
LEMMA GetRoomTyped ==
  ASSUME TypeOK, NEW c \in Clients,
         GetRoom(c) \/ UseRoom(c) \/ AwaitDestroyOrUseRoom(c),
         sockets' \in [Rooms -> SUBSET Sockets], connected' \subseteq Sockets,
         failed' \subseteq MayFail
  PROVE  TypeOK'
<1> USE DEF TypeOK, Places, registry, objects, Clients
<1>1. CASE MakeRoom(c)
  BY <1>1 DEF MakeRoom, GoTo
<1>2. CASE rooms # NoRoom /\ InitializeRoom(c, rooms)
  BY <1>2 DEF InitializeRoom, GoTo
<1>3. CASE rooms # NoRoom /\ c \in Requests /\ ReplaceRoom(c, rooms)
  BY <1>3 DEF ReplaceRoom, GoTo, RequestFails
<1>4. CASE UseRoom(c)
  BY <1>1, <1>2, <1>3, <1>4 DEF UseRoom
<1>5. CASE AwaitDestroyOrUseRoom(c)
  BY <1>4, <1>5 DEF AwaitDestroyOrUseRoom, GoTo
<1>6. CASE GetRoom(c)
  BY <1>5, <1>6 DEF GetRoom, GoTo
<1> QED BY <1>4, <1>5, <1>6

\* Failing the callers keeps the types of what it changes.
LEMMA RejectTyped ==
  ASSUME TypeOK, NEW rejected \in SUBSET Clients, Reject(rejected)
  PROVE  /\ at' \in [Clients -> Places] /\ room' = room
         /\ resumed' \subseteq Clients /\ joined' \subseteq Requests
         /\ connected' \subseteq Sockets
BY DEF TypeOK, Reject, Places, Clients

\* Only clients wait.
LEMMA WaitingClients == \A place, r : Waiting(place, r) \in SUBSET Clients
BY DEF Waiting

\* The types after Socket.
LEMMA TypeSocketStep ==
  ASSUME TypeOK, NEW s \in Sockets, Connect(s) \/ Disconnect(s) \/ AttachSettles(s)
  PROVE  TypeOK'
<1>1. CASE Connect(s)
  BY <1>1, GetRoomTyped DEF Connect, TypeOK, Clients
<1> USE DEF TypeOK, Places, objects, Clients, Leave, DestroyRoomIfEmpty, GoTo
<1>2. CASE Disconnect(s) BY <1>2 DEF Disconnect
<1>3. CASE AttachDone(s) BY <1>3 DEF AttachDone
<1>4. CASE AttachFails(s) BY <1>4 DEF AttachFails
<1> QED BY <1>1, <1>2, <1>3, <1>4 DEF AttachSettles

\* The types after Request.
LEMMA TypeRequestStep ==
  ASSUME TypeOK, NEW h \in Requests, Request(h) \/ ReplaceSettles(h)
  PROVE  TypeOK'
<1>1. CASE Request(h)
  BY <1>1, GetRoomTyped DEF Request, TypeOK, Clients
<1>2. CASE ReplaceDone(h)
  <2> DEFINE r == room[h]
  <2> USE <1>2 DEF ReplaceDone, TypeOK
  <2>1. state' \in [Rooms -> {"unused", "empty", "ready", "destroyed"}]
        /\ loading' \subseteq Rooms
    OBVIOUS
  <2>2. sockets' \in [Rooms -> SUBSET Sockets] /\ connected' \subseteq Sockets
    OBVIOUS
  <2>3. {rooms, initTask, destroyTask}' \subseteq Rooms \union {NoRoom}
    BY DEF DestroyRoomIfEmpty, Clients
  <2>4. at' \in [Clients -> Places] /\ room' \in [Clients -> Rooms \union {NoRoom}]
    BY DEF Places
  <2>5. joined' \subseteq Requests /\ resumed' \subseteq Clients
        /\ failed' \subseteq MayFail
    BY WaitingClients DEF Clients
  <2> HIDE <1>2
  <2> QED BY <2>1, <2>2, <2>3, <2>4, <2>5
<1>3. CASE ReplaceFails(h)
  <2>1. h \in Clients /\ Waiting("initTask", room[h]) \union {h} \in SUBSET Clients
    BY WaitingClients DEF Clients
  <2> QED BY <1>3, <2>1, RejectTyped DEF ReplaceFails, TypeOK, objects
<1> QED BY <1>1, <1>2, <1>3 DEF ReplaceSettles

\* The types after Room.
LEMMA TypeRoomStep ==
  ASSUME TypeOK, NEW r \in Rooms, LoadSettles(r) \/ FlushSettles(r)
  PROVE  TypeOK'
<1> USE WaitingClients DEF TypeOK, objects, clients
<1>1. CASE LoadDone(r) BY <1>1 DEF LoadDone
<1>2. CASE LoadFails(r)
  <2>1. Waiting("load", r) \union Waiting("initTask", r) \in SUBSET Clients
    OBVIOUS
  <2> QED BY <1>2, <2>1, RejectTyped DEF LoadFails
<1>3. CASE FlushDone(r) BY <1>3 DEF FlushDone
<1>4. CASE FlushFails(r) BY <1>4, RejectTyped DEF FlushFails
<1> QED BY <1>1, <1>2, <1>3, <1>4 DEF LoadSettles, FlushSettles

\* The types after Continue.
LEMMA TypeContinue ==
  ASSUME TypeOK, NEW c \in Clients, Continue(c)
  PROVE  TypeOK'
<1>1. CASE DestroyAwaited(c)
  BY <1>1, GetRoomTyped DEF DestroyAwaited, TypeOK
<1>2. CASE Retry(c)
  BY <1>2, GetRoomTyped DEF Retry, TypeOK
<1> USE DEF TypeOK, Places, objects, registry, Clients, DestroyRoomIfEmpty, GoTo
<1>3. CASE SocketHasRoom(c) BY <1>3 DEF SocketHasRoom
<1>4. CASE RequestHasRoom(c)
  BY <1>4 DEF RequestHasRoom, ReplaceRoom, RequestFails
<1>5. CASE LoadAwaited(c) BY <1>5 DEF LoadAwaited
<1>6. CASE Replaced(c) BY <1>6 DEF Replaced
<1> QED BY <1>1, <1>2, <1>3, <1>4, <1>5, <1>6 DEF Continue

\* Every step keeps the types.
LEMMA TypeNext == TypeOK /\ [Next]_vars => TypeOK'
<1>1. TypeOK /\ UNCHANGED vars => TypeOK'
  BY DEF TypeOK, vars, registry, objects, clients
<1> QED
  BY <1>1, TypeSocketStep, TypeRequestStep, TypeRoomStep, TypeContinue DEF Next

\* Every variable of the manager, the rooms and their clients keeps its type.
THEOREM TypeCorrect == Spec => []TypeOK
BY TypeInit, TypeNext, PTL DEF Spec

----------------------------------------------------------------------------
(* One live room.  The invariant says what stands behind each entry of the *)
(* maps: an initialization that will settle, an initialized room that is   *)
(* being destroyed, and clients that got only rooms that were initialized. *)

\* Nobody has heard of a room that is not made.
UnusedRooms ==
  \A r \in Rooms :
    state[r] = "unused" =>
      /\ r \notin loading /\ r \notin {rooms, initTask, destroyTask}
      /\ \A c \in Clients : room[c] # r

RegisteredRoom ==
  rooms # NoRoom =>
    /\ state[rooms] \in {"empty", "ready"}
    /\ state[rooms] = "empty" => initTask = rooms

Cold(r) == \E h \in Clients : at[h] = "coldReplace" /\ room[h] = r

InitTaskServed ==
  initTask # NoRoom => Cold(initTask) \/ (initTask \in loading /\ state[initTask] = "empty")

ColdReplaces ==
  \A h \in Clients :
    at[h] = "coldReplace" =>
      /\ room[h] \in Rooms /\ initTask = room[h]
      /\ \A i \in Clients : at[i] = "coldReplace" => i = h

Replaces ==
  \A h \in Clients :
    at[h] = "replace" => room[h] \in Rooms /\ (state[room[h]] = "empty" => Cold(room[h]))

\* The client has got its room, or is about to.
HasRoom(c) ==
  \/ at[c] \in {"attach", "attached", "replaced"}
  \/ c \in resumed /\ at[c] \in {"initTask", "load"}

ClientRooms ==
  \A c \in Clients :
    /\ at[c] \in {"initTask", "load"} => room[c] \in Rooms
    /\ HasRoom(c) => room[c] \in Rooms /\ state[room[c]] \in {"ready", "destroyed"}

DestroyedRoom == destroyTask # NoRoom => state[destroyTask] = "ready"

LiveInv ==
  /\ TypeOK /\ UnusedRooms /\ RegisteredRoom /\ InitTaskServed /\ ColdReplaces
  /\ Replaces /\ ClientRooms /\ DestroyedRoom /\ OneLiveRoom

MapsInv == UnusedRooms /\ RegisteredRoom /\ InitTaskServed /\ DestroyedRoom /\ OneLiveRoom
AwaitInv == ColdReplaces /\ Replaces /\ ClientRooms

\* LiveInv, at the start.
LEMMA LiveInit == Init => LiveInv
BY TypeInit, RoomsAssumption
   DEF Init, LiveInv, UnusedRooms, RegisteredRoom, InitTaskServed, ColdReplaces,
       Replaces, ClientRooms, HasRoom, DestroyedRoom, OneLiveRoom, Live

\* LiveInv after UseRoom.
LEMMA LiveUseRoom ==
  ASSUME LiveInv, NEW c \in Clients, at[c] \in {"new", "destroyTask", "retry"},
         UseRoom(c), UNCHANGED sockets
  PROVE  MapsInv' /\ AwaitInv'
<1> USE RoomsAssumption, ClientsAssumption DEF LiveInv, TypeOK, Clients
<1>1. CASE rooms = NoRoom /\ MakeRoom(c)
  <2> PICK r \in Rooms :
        /\ state[r] = "unused"
        /\ state' = [state EXCEPT ![r] = "empty"]
        /\ rooms' = r /\ initTask' = r
        /\ IF c \in Requests
             THEN GoTo(c, "coldReplace", r) /\ UNCHANGED loading
             ELSE GoTo(c, "initTask", r) /\ loading' = loading \union {r}
        /\ resumed' = resumed \ {c}
        /\ UNCHANGED <<destroyTask, joined>>
    BY <1>1 DEF MakeRoom
  <2>0. /\ at' = [at EXCEPT ![c] = IF c \in Requests THEN "coldReplace" ELSE "initTask"]
        /\ room' = [room EXCEPT ![c] = r]
        /\ initTask = NoRoom /\ \A h \in Clients : at[h] # "coldReplace"
    BY <1>1 DEF GoTo, OneLiveRoom, Live, ColdReplaces
  <2>1. UnusedRooms' BY <2>0 DEF UnusedRooms
  <2>2. RegisteredRoom' BY <2>0 DEF RegisteredRoom
  <2>3. InitTaskServed' BY <2>0 DEF InitTaskServed, Cold
  <2>4. DestroyedRoom' BY <2>0 DEF DestroyedRoom, UnusedRooms
  <2>5. OneLiveRoom' BY <1>1, <2>0 DEF OneLiveRoom, Live
  <2>6. ColdReplaces' BY <2>0 DEF ColdReplaces
  <2>7. Replaces' BY <2>0 DEF Replaces, Cold, UnusedRooms
  <2>8. ClientRooms' BY <2>0 DEF ClientRooms, HasRoom, UnusedRooms
  <2> QED BY <2>1, <2>2, <2>3, <2>4, <2>5, <2>6, <2>7, <2>8 DEF MapsInv, AwaitInv
<1>2. CASE rooms # NoRoom /\ c \in Sockets /\ InitializeRoom(c, rooms)
  <2> USE <1>2 DEF InitializeRoom, GoTo, registry
  <2>1. UnusedRooms' BY DEF UnusedRooms
  <2>2. RegisteredRoom' BY DEF RegisteredRoom
  <2>3. InitTaskServed' BY DEF InitTaskServed, Cold
  <2>4. DestroyedRoom' BY DEF DestroyedRoom
  <2>5. OneLiveRoom' BY DEF OneLiveRoom, Live
  <2>6. ColdReplaces' BY DEF ColdReplaces
  <2>7. Replaces' BY DEF Replaces, Cold
  <2>8. ClientRooms' BY DEF ClientRooms, HasRoom, RegisteredRoom
  <2> QED BY <2>1, <2>2, <2>3, <2>4, <2>5, <2>6, <2>7, <2>8 DEF MapsInv, AwaitInv
<1>3. CASE rooms # NoRoom /\ c \in Requests /\ ReplaceRoom(c, rooms)
  <2> USE <1>3 DEF ReplaceRoom, RequestFails, GoTo, registry, objects
  <2>1. UnusedRooms' BY DEF UnusedRooms
  <2>2. RegisteredRoom' BY DEF RegisteredRoom
  <2>3. InitTaskServed' BY DEF InitTaskServed, Cold
  <2>4. DestroyedRoom' BY DEF DestroyedRoom
  <2>5. OneLiveRoom' BY DEF OneLiveRoom, Live
  <2>6. ColdReplaces' BY DEF ColdReplaces
  <2>7. Replaces' BY DEF Replaces, Cold, RegisteredRoom, InitTaskServed
  <2>8. ClientRooms' BY DEF ClientRooms, HasRoom
  <2> QED BY <2>1, <2>2, <2>3, <2>4, <2>5, <2>6, <2>7, <2>8 DEF MapsInv, AwaitInv
<1> QED BY <1>1, <1>2, <1>3 DEF UseRoom

\* LiveInv after Disconnect.
LEMMA LiveDisconnect ==
  ASSUME LiveInv, NEW s \in Sockets, Disconnect(s)
  PROVE  MapsInv' /\ AwaitInv'
<1> USE RoomsAssumption, ClientsAssumption
    DEF LiveInv, TypeOK, Clients, registry, objects, clients, Disconnect,
        Leave, DestroyRoomIfEmpty
<1>1. UnusedRooms' BY DEF UnusedRooms, ClientRooms, HasRoom
<1>2. RegisteredRoom' BY DEF RegisteredRoom
<1>3. InitTaskServed' BY DEF InitTaskServed, Cold
<1>4. DestroyedRoom' BY DEF DestroyedRoom, ClientRooms, HasRoom
<1>5. OneLiveRoom' BY DEF OneLiveRoom, Live
<1>6. ColdReplaces' BY DEF ColdReplaces
<1>7. Replaces' BY DEF Replaces, Cold
<1>8. ClientRooms' BY DEF ClientRooms, HasRoom
<1> QED BY <1>1, <1>2, <1>3, <1>4, <1>5, <1>6, <1>7, <1>8 DEF MapsInv, AwaitInv

\* LiveInv after AttachDone.
LEMMA LiveAttachDone ==
  ASSUME LiveInv, NEW s \in Sockets, AttachDone(s)
  PROVE  MapsInv' /\ AwaitInv'
<1> USE RoomsAssumption, ClientsAssumption
    DEF LiveInv, TypeOK, Clients, registry, objects, clients, AttachDone, GoTo,
        DestroyRoomIfEmpty
<1>1. UnusedRooms' BY DEF UnusedRooms, ClientRooms, HasRoom
<1>2. RegisteredRoom' BY DEF RegisteredRoom
<1>3. InitTaskServed' BY DEF InitTaskServed, Cold
<1>4. DestroyedRoom' BY DEF DestroyedRoom, ClientRooms, HasRoom
<1>5. OneLiveRoom' BY DEF OneLiveRoom, Live
<1>6. ColdReplaces' BY DEF ColdReplaces
<1>7. Replaces' BY DEF Replaces, Cold
<1>8. ClientRooms' BY DEF ClientRooms, HasRoom
<1> QED BY <1>1, <1>2, <1>3, <1>4, <1>5, <1>6, <1>7, <1>8 DEF MapsInv, AwaitInv

\* LiveInv after AttachFails.
LEMMA LiveAttachFails ==
  ASSUME LiveInv, NEW s \in Sockets, AttachFails(s)
  PROVE  MapsInv' /\ AwaitInv'
<1> USE RoomsAssumption, ClientsAssumption
    DEF LiveInv, TypeOK, Clients, registry, objects, clients, AttachFails,
        Leave, GoTo, DestroyRoomIfEmpty
<1>1. UnusedRooms' BY DEF UnusedRooms, ClientRooms, HasRoom
<1>2. RegisteredRoom' BY DEF RegisteredRoom
<1>3. InitTaskServed' BY DEF InitTaskServed, Cold
<1>4. DestroyedRoom' BY DEF DestroyedRoom, ClientRooms, HasRoom
<1>5. OneLiveRoom' BY DEF OneLiveRoom, Live
<1>6. ColdReplaces' BY DEF ColdReplaces
<1>7. Replaces' BY DEF Replaces, Cold
<1>8. ClientRooms' BY DEF ClientRooms, HasRoom
<1> QED BY <1>1, <1>2, <1>3, <1>4, <1>5, <1>6, <1>7, <1>8 DEF MapsInv, AwaitInv

\* LiveInv after SocketHasRoom.
LEMMA LiveSocketHasRoom ==
  ASSUME LiveInv, NEW s \in Clients, SocketHasRoom(s)
  PROVE  MapsInv' /\ AwaitInv'
<1> USE RoomsAssumption, ClientsAssumption
    DEF LiveInv, TypeOK, Clients, registry, objects, clients, SocketHasRoom,
        GoTo, DestroyRoomIfEmpty
<1>1. UnusedRooms' BY DEF UnusedRooms, ClientRooms, HasRoom
<1>2. RegisteredRoom' BY DEF RegisteredRoom
<1>3. InitTaskServed' BY DEF InitTaskServed, Cold
<1>4. DestroyedRoom' BY DEF DestroyedRoom, ClientRooms, HasRoom
<1>5. OneLiveRoom' BY DEF OneLiveRoom, Live
<1>6. ColdReplaces' BY DEF ColdReplaces
<1>7. Replaces' BY DEF Replaces, Cold
<1>8. ClientRooms' BY DEF ClientRooms, HasRoom
<1> QED BY <1>1, <1>2, <1>3, <1>4, <1>5, <1>6, <1>7, <1>8 DEF MapsInv, AwaitInv

\* LiveInv after Replaced.
LEMMA LiveReplaced ==
  ASSUME LiveInv, NEW h \in Clients, Replaced(h)
  PROVE  MapsInv' /\ AwaitInv'
<1> USE RoomsAssumption, ClientsAssumption
    DEF LiveInv, TypeOK, Clients, registry, objects, clients, Replaced, GoTo,
        DestroyRoomIfEmpty
<1>1. UnusedRooms' BY DEF UnusedRooms, ClientRooms, HasRoom
<1>2. RegisteredRoom' BY DEF RegisteredRoom
<1>3. InitTaskServed' BY DEF InitTaskServed, Cold
<1>4. DestroyedRoom' BY DEF DestroyedRoom, ClientRooms, HasRoom
<1>5. OneLiveRoom' BY DEF OneLiveRoom, Live
<1>6. ColdReplaces' BY DEF ColdReplaces
<1>7. Replaces' BY DEF Replaces, Cold
<1>8. ClientRooms' BY DEF ClientRooms, HasRoom
<1> QED BY <1>1, <1>2, <1>3, <1>4, <1>5, <1>6, <1>7, <1>8 DEF MapsInv, AwaitInv

\* LiveInv after RequestHasRoom.
LEMMA LiveRequestHasRoom ==
  ASSUME LiveInv, NEW h \in Clients, RequestHasRoom(h)
  PROVE  MapsInv' /\ AwaitInv'
<1> USE RoomsAssumption, ClientsAssumption
    DEF LiveInv, TypeOK, Clients, registry, objects, clients, RequestHasRoom,
        ReplaceRoom, RequestFails, GoTo
<1>1. UnusedRooms' BY DEF UnusedRooms, ClientRooms, HasRoom
<1>2. RegisteredRoom' BY DEF RegisteredRoom
<1>3. InitTaskServed' BY DEF InitTaskServed, Cold
<1>4. DestroyedRoom' BY DEF DestroyedRoom
<1>5. OneLiveRoom' BY DEF OneLiveRoom, Live
<1>6. ColdReplaces' BY DEF ColdReplaces
<1>7. Replaces' BY DEF Replaces, Cold, ClientRooms, HasRoom
<1>8. ClientRooms' BY DEF ClientRooms, HasRoom
<1> QED BY <1>1, <1>2, <1>3, <1>4, <1>5, <1>6, <1>7, <1>8 DEF MapsInv, AwaitInv

\* LiveInv after LoadAwaited.
LEMMA LiveLoadAwaited ==
  ASSUME LiveInv, NEW h \in Clients, LoadAwaited(h)
  PROVE  MapsInv' /\ AwaitInv'
<1> USE RoomsAssumption, ClientsAssumption
    DEF LiveInv, TypeOK, Clients, registry, objects, clients, LoadAwaited, GoTo
<1>1. UnusedRooms' BY DEF UnusedRooms
<1>2. RegisteredRoom' BY DEF RegisteredRoom
<1>3. InitTaskServed' BY DEF InitTaskServed, Cold
<1>4. DestroyedRoom' BY DEF DestroyedRoom
<1>5. OneLiveRoom' BY DEF OneLiveRoom, Live
<1>6. ColdReplaces' BY DEF ColdReplaces
<1>7. Replaces' BY DEF Replaces, Cold, ClientRooms, HasRoom
<1>8. ClientRooms' BY DEF ClientRooms, HasRoom
<1> QED BY <1>1, <1>2, <1>3, <1>4, <1>5, <1>6, <1>7, <1>8 DEF MapsInv, AwaitInv

\* LiveInv after LoadDone.
LEMMA LiveLoadDone ==
  ASSUME LiveInv, NEW r \in Rooms, LoadDone(r)
  PROVE  MapsInv' /\ AwaitInv'
<1> USE RoomsAssumption, ClientsAssumption
    DEF LiveInv, TypeOK, Clients, registry, objects, clients, LoadDone,
        LoadIsInitTask, Waiting
<1>1. UnusedRooms' BY DEF UnusedRooms
<1>2. RegisteredRoom' BY DEF RegisteredRoom, InitTaskServed, Cold
<1>3. InitTaskServed' BY DEF InitTaskServed, Cold
<1>4. DestroyedRoom' BY DEF DestroyedRoom
<1>5. OneLiveRoom' BY DEF OneLiveRoom, Live
<1>6. ColdReplaces' BY DEF ColdReplaces, InitTaskServed, Cold
<1>7. Replaces' BY DEF Replaces, Cold
<1>8. ClientRooms' BY DEF ClientRooms, HasRoom, UnusedRooms
<1> QED BY <1>1, <1>2, <1>3, <1>4, <1>5, <1>6, <1>7, <1>8 DEF MapsInv, AwaitInv

\* LiveInv after LoadFails.
LEMMA LiveLoadFails ==
  ASSUME LiveInv, NEW r \in Rooms, LoadFails(r)
  PROVE  MapsInv' /\ AwaitInv'
<1> USE RoomsAssumption, ClientsAssumption
    DEF LiveInv, TypeOK, Clients, registry, objects, clients, LoadFails,
        LoadIsInitTask, Waiting, Reject
<1>1. UnusedRooms' BY DEF UnusedRooms
<1>2. RegisteredRoom' BY DEF RegisteredRoom, InitTaskServed, Cold
<1>3. InitTaskServed' BY DEF InitTaskServed, Cold
<1>4. DestroyedRoom' BY DEF DestroyedRoom
<1>5. OneLiveRoom' BY DEF OneLiveRoom, Live, InitTaskServed, Cold
<1>6. ColdReplaces' BY DEF ColdReplaces, InitTaskServed, Cold
<1>7. Replaces' BY DEF Replaces, Cold
<1>8. ClientRooms' BY DEF ClientRooms, HasRoom
<1> QED BY <1>1, <1>2, <1>3, <1>4, <1>5, <1>6, <1>7, <1>8 DEF MapsInv, AwaitInv

\* LiveInv after FlushDone.
LEMMA LiveFlushDone ==
  ASSUME LiveInv, NEW r \in Rooms, FlushDone(r)
  PROVE  MapsInv' /\ AwaitInv'
<1> USE RoomsAssumption, ClientsAssumption
    DEF LiveInv, TypeOK, Clients, registry, objects, clients, FlushDone, Waiting
<1>1. UnusedRooms' BY DEF UnusedRooms
<1>2. RegisteredRoom' BY DEF RegisteredRoom, OneLiveRoom, Live
<1>3. InitTaskServed' BY DEF InitTaskServed, Cold, DestroyedRoom
<1>4. DestroyedRoom' BY DEF DestroyedRoom
<1>5. OneLiveRoom' BY DEF OneLiveRoom, Live, InitTaskServed, Cold, DestroyedRoom
<1>6. ColdReplaces' BY DEF ColdReplaces
<1>7. Replaces' BY DEF Replaces, Cold
<1>8. ClientRooms' BY DEF ClientRooms, HasRoom
<1> QED BY <1>1, <1>2, <1>3, <1>4, <1>5, <1>6, <1>7, <1>8 DEF MapsInv, AwaitInv

\* LiveInv after FlushFails.
LEMMA LiveFlushFails ==
  ASSUME LiveInv, NEW r \in Rooms, FlushFails(r)
  PROVE  MapsInv' /\ AwaitInv'
<1> USE RoomsAssumption, ClientsAssumption
    DEF LiveInv, TypeOK, Clients, registry, objects, clients, FlushFails,
        Waiting, Reject
<1>1. UnusedRooms' BY DEF UnusedRooms
<1>2. RegisteredRoom' BY DEF RegisteredRoom
<1>3. InitTaskServed' BY DEF InitTaskServed, Cold
<1>4. DestroyedRoom' BY DEF DestroyedRoom
<1>5. OneLiveRoom' BY DEF OneLiveRoom, Live
<1>6. ColdReplaces' BY DEF ColdReplaces
<1>7. Replaces' BY DEF Replaces, Cold
<1>8. ClientRooms' BY DEF ClientRooms, HasRoom
<1> QED BY <1>1, <1>2, <1>3, <1>4, <1>5, <1>6, <1>7, <1>8 DEF MapsInv, AwaitInv

\* LiveInv after ReplaceDone.
LEMMA LiveReplaceDone ==
  ASSUME LiveInv, NEW h \in Requests, ReplaceDone(h)
  PROVE  MapsInv' /\ AwaitInv'
<1> USE RoomsAssumption, ClientsAssumption
    DEF LiveInv, TypeOK, Clients, registry, objects, clients, ReplaceDone,
        Waiting, DestroyRoomIfEmpty
<1>1. UnusedRooms' BY DEF UnusedRooms, ColdReplaces, Replaces
<1>2. RegisteredRoom' BY DEF RegisteredRoom, ColdReplaces, Replaces, Cold
<1>3. InitTaskServed' BY DEF InitTaskServed, Cold, ColdReplaces, Replaces
<1>4. DestroyedRoom' BY DEF DestroyedRoom, UnusedRooms, ColdReplaces, Replaces
<1>5. OneLiveRoom' BY DEF OneLiveRoom, Live, ColdReplaces, Replaces, Cold
<1>6. ColdReplaces' BY DEF ColdReplaces
<1>7. Replaces' BY DEF Replaces, Cold, ColdReplaces
<1>8. ClientRooms' BY DEF ClientRooms, HasRoom, UnusedRooms, ColdReplaces, Replaces
<1> QED BY <1>1, <1>2, <1>3, <1>4, <1>5, <1>6, <1>7, <1>8 DEF MapsInv, AwaitInv


\* Of a replacement that fails in a room that was there before it, only the
\* request learns.
LEMMA LiveReplaceFails ==
  ASSUME LiveInv, NEW h \in Requests, ReplaceFails(h), "replace" \notin failed'
  PROVE  MapsInv' /\ AwaitInv'
<1>0. /\ at[h] = "replace" /\ Reject({h})
      /\ UNCHANGED <<initTask, rooms, destroyTask, objects, sockets>>
  BY DEF ReplaceFails
<1> USE <1>0, RoomsAssumption, ClientsAssumption
    DEF LiveInv, TypeOK, Clients, objects, Reject
<1>1. UnusedRooms' BY DEF UnusedRooms
<1>2. RegisteredRoom' BY DEF RegisteredRoom
<1>3. InitTaskServed' BY DEF InitTaskServed, Cold
<1>4. DestroyedRoom' BY DEF DestroyedRoom
<1>5. OneLiveRoom' BY DEF OneLiveRoom, Live
<1>6. ColdReplaces' BY DEF ColdReplaces
<1>7. Replaces' BY DEF Replaces, Cold
<1>8. ClientRooms' BY DEF ClientRooms, HasRoom
<1> QED BY <1>1, <1>2, <1>3, <1>4, <1>5, <1>6, <1>7, <1>8 DEF MapsInv, AwaitInv

\* LiveInv after AwaitDestroyOrUseRoom.
LEMMA LiveAwaitDestroyOrUseRoom ==
  ASSUME LiveInv, NEW c \in Clients, at[c] \in {"new", "retry"},
         AwaitDestroyOrUseRoom(c), UNCHANGED sockets
  PROVE  MapsInv' /\ AwaitInv'
<1>1. CASE /\ destroyTask # NoRoom
           /\ GoTo(c, "destroyTask", destroyTask)
           /\ resumed' = resumed \ {c}
           /\ UNCHANGED <<registry, objects, joined>>
  <2> USE <1>1, RoomsAssumption
      DEF LiveInv, TypeOK, registry, objects, GoTo
  <2>1. UnusedRooms' BY DEF UnusedRooms
  <2>2. RegisteredRoom' BY DEF RegisteredRoom
  <2>3. InitTaskServed' BY DEF InitTaskServed, Cold
  <2>4. DestroyedRoom' BY DEF DestroyedRoom
  <2>5. OneLiveRoom' BY DEF OneLiveRoom, Live
  <2>6. ColdReplaces' BY DEF ColdReplaces
  <2>7. Replaces' BY DEF Replaces, Cold
  <2>8. ClientRooms' BY DEF ClientRooms, HasRoom
  <2> QED BY <2>1, <2>2, <2>3, <2>4, <2>5, <2>6, <2>7, <2>8 DEF MapsInv, AwaitInv
<1>2. CASE UseRoom(c)
  BY <1>2, LiveUseRoom
<1> QED BY <1>1, <1>2 DEF AwaitDestroyOrUseRoom

\* LiveInv after GetRoom.
LEMMA LiveGetRoom ==
  ASSUME LiveInv, NEW c \in Clients, at[c] = "new", resumed = {},
         GetRoom(c), UNCHANGED sockets
  PROVE  MapsInv' /\ AwaitInv'
<1>1. CASE /\ initTask # NoRoom
           /\ GoTo(c, "initTask", initTask)
           /\ UNCHANGED <<registry, objects, resumed>>
  <2> USE <1>1, RoomsAssumption
      DEF LiveInv, TypeOK, registry, objects, GoTo
  <2>1. UnusedRooms' BY DEF UnusedRooms
  <2>2. RegisteredRoom' BY DEF RegisteredRoom
  <2>3. InitTaskServed' BY DEF InitTaskServed, Cold
  <2>4. DestroyedRoom' BY DEF DestroyedRoom
  <2>5. OneLiveRoom' BY DEF OneLiveRoom, Live
  <2>6. ColdReplaces' BY DEF ColdReplaces
  <2>7. Replaces' BY DEF Replaces, Cold
  <2>8. ClientRooms' BY DEF ClientRooms, HasRoom
  <2> QED BY <2>1, <2>2, <2>3, <2>4, <2>5, <2>6, <2>7, <2>8 DEF MapsInv, AwaitInv
<1>2. CASE AwaitDestroyOrUseRoom(c)
  BY <1>2, LiveAwaitDestroyOrUseRoom
<1> QED BY <1>1, <1>2 DEF GetRoom

\* LiveInv, after every step.
LEMMA LiveNext ==
  ASSUME "replace" \notin failed', LiveInv, [Next]_vars
  PROVE  LiveInv'
<1>1. TypeOK'
  BY TypeNext DEF LiveInv
<1>2. MapsInv' /\ AwaitInv'
  <2>1. ASSUME NEW s \in Sockets, Connect(s) \/ Disconnect(s) \/ AttachSettles(s)
        PROVE  MapsInv' /\ AwaitInv'
    BY <2>1, LiveGetRoom, LiveDisconnect, LiveAttachDone, LiveAttachFails
    DEF Connect, AttachSettles, Clients
  <2>2. ASSUME NEW h \in Requests, Request(h) \/ ReplaceSettles(h)
        PROVE  MapsInv' /\ AwaitInv'
    BY <2>2, LiveGetRoom, LiveReplaceDone, LiveReplaceFails
    DEF Request, ReplaceSettles, Clients
  <2>3. ASSUME NEW c \in Clients, Continue(c)
        PROVE  MapsInv' /\ AwaitInv'
    <3>1. CASE DestroyAwaited(c) BY <3>1, LiveUseRoom DEF DestroyAwaited
    <3>2. CASE Retry(c) BY <3>2, LiveAwaitDestroyOrUseRoom DEF Retry
    <3> QED
      BY <2>3, <3>1, <3>2, LiveSocketHasRoom, LiveRequestHasRoom, LiveLoadAwaited,
         LiveReplaced
      DEF Continue
  <2>4. ASSUME NEW r \in Rooms, LoadSettles(r) \/ FlushSettles(r)
        PROVE  MapsInv' /\ AwaitInv'
    BY <2>4, LiveLoadDone, LiveLoadFails, LiveFlushDone, LiveFlushFails
    DEF LoadSettles, FlushSettles
  <2>5. CASE UNCHANGED vars
    BY <2>5
    DEF LiveInv, MapsInv, AwaitInv, UnusedRooms, RegisteredRoom, InitTaskServed,
        ColdReplaces, Replaces, ClientRooms, HasRoom, Cold, DestroyedRoom,
        OneLiveRoom, Live, vars, registry, objects, clients
  <2> QED BY <2>1, <2>2, <2>3, <2>4, <2>5 DEF Next
<1> QED BY <1>1, <1>2 DEF LiveInv, MapsInv, AwaitInv

\* What has failed has failed; only a request makes a replacement fail.
LEMMA FailedStays ==
  ASSUME [Next]_vars
  PROVE  /\ failed \subseteq failed'
         /\ (\A h \in Requests : at[h] = "new") => failed' \subseteq failed \union {"flush"}
<1>1. ASSUME NEW s \in Sockets, Connect(s) \/ Disconnect(s) \/ AttachSettles(s)
      PROVE  failed' = failed
  BY <1>1 DEF Connect, Disconnect, AttachSettles, AttachDone, AttachFails
<1>2. ASSUME NEW h \in Requests, Request(h) \/ ReplaceSettles(h)
      PROVE  failed \subseteq failed' /\ (at[h] = "new" => failed' = failed)
  BY <1>2 DEF Request, ReplaceSettles, ReplaceDone, ReplaceFails
<1>3. ASSUME NEW c \in Clients, Continue(c)
      PROVE  failed' = failed
  BY <1>3 DEF Continue, SocketHasRoom, RequestHasRoom, LoadAwaited,
              DestroyAwaited, Retry, Replaced
<1>4. ASSUME NEW r \in Rooms, LoadSettles(r) \/ FlushSettles(r)
      PROVE  failed' = failed \/ failed' = failed \union {"flush"}
  BY <1>4 DEF LoadSettles, FlushSettles, LoadDone, LoadFails, FlushDone, FlushFails
<1>5. CASE UNCHANGED vars
  BY <1>5 DEF vars
<1> QED BY <1>1, <1>2, <1>3, <1>4, <1>5 DEF Next

\* However sockets and requests interleave, whichever of them leave early, and
\* whatever loads, flushes and replacements of warm rooms fail, the workspace
\* has at most one live room, the registered one, until a cold replacement
\* fails.
THEOREM OneRoom == Spec => []OneLiveRoomKept
<1> DEFINE IInv == "replace" \notin failed => LiveInv
<1>1. Init => IInv
  BY LiveInit
<1>2. IInv /\ [Next]_vars => IInv'
  BY LiveNext, FailedStays
<1>3. IInv => OneLiveRoomKept
  BY DEF LiveInv, OneLiveRoomKept
<1> HIDE DEF IInv
<1> QED BY <1>1, <1>2, <1>3, PTL DEF Spec

----------------------------------------------------------------------------
(* Until a replacement is asked for or a socket that left early takes its  *)
(* room, no socket loses its room: it is only destroyed while nobody is    *)
(* about to get it.                                                        *)

\* Nothing has come of a request or of an early leaver.  That is final, when
\* Undisturbed is not: a socket that has left may yet be rejected.
Calm ==
  /\ \A h \in Requests : at[h] = "new"
  /\ \A s \in Sockets : at[s] # "left"

SocketsWait ==
  \A s \in Sockets :
    /\ at[s] \notin {"retry", "replaced"}
    /\ at[s] = "attached" => s \in connected
    /\ s \in resumed /\ at[s] \in {"initTask", "load"} =>
         rooms = room[s] /\ state[room[s]] = "ready"

SocketsServed ==
  \A s \in connected :
    at[s] \in {"attach", "attached"} =>
      rooms = room[s] /\ state[room[s]] = "ready" /\ s \in sockets[room[s]]

Quiet ==
  /\ destroyTask # NoRoom => sockets[destroyTask] = {} /\ resumed = {}
  /\ \A r \in loading : state[r] = "empty"

ServedInv ==
  LiveInv /\ SocketsWait /\ SocketsServed /\ Quiet /\ "replace" \notin failed

\* ServedInv after UseRoom.
LEMMA ServedUseRoom ==
  ASSUME ServedInv, NEW c \in Sockets, destroyTask = NoRoom, at[c] \in {"new", "destroyTask"},
         connected' = connected \/ connected' = connected \union {c},
         UseRoom(c), UNCHANGED sockets
  PROVE  SocketsWait' /\ SocketsServed' /\ Quiet'
<1> USE ClientsAssumption DEF ServedInv, LiveInv, TypeOK, Clients, GoTo
<1>1. CASE rooms = NoRoom /\ MakeRoom(c)
  <2> PICK r \in Rooms :
        /\ state[r] = "unused"
        /\ state' = [state EXCEPT ![r] = "empty"]
        /\ rooms' = r
        /\ at' = [at EXCEPT ![c] = "initTask"]
        /\ room' = [room EXCEPT ![c] = r]
        /\ loading' = loading \union {r}
        /\ resumed' = resumed \ {c}
        /\ UNCHANGED destroyTask
    BY <1>1 DEF MakeRoom
  <2>1. SocketsWait' BY <1>1, RoomsAssumption DEF SocketsWait, ClientRooms, HasRoom
  <2>2. SocketsServed' BY <1>1, RoomsAssumption DEF SocketsServed, ClientRooms, HasRoom
  <2>3. Quiet' BY DEF Quiet
  <2> QED BY <2>1, <2>2, <2>3
<1>2. CASE rooms # NoRoom /\ InitializeRoom(c, rooms)
  <2> USE <1>2, RoomsAssumption DEF InitializeRoom, registry
  <2>1. SocketsWait' BY DEF SocketsWait, RegisteredRoom
  <2>2. SocketsServed' BY DEF SocketsServed
  <2>3. Quiet' BY DEF Quiet
  <2> QED BY <2>1, <2>2, <2>3
<1> QED BY <1>1, <1>2 DEF UseRoom

\* ServedInv after GetRoom.
LEMMA ServedGetRoom ==
  ASSUME ServedInv, NEW c \in Sockets, at[c] = "new", resumed = {},
         connected' = connected \union {c}, GetRoom(c), UNCHANGED sockets
  PROVE  SocketsWait' /\ SocketsServed' /\ Quiet'
<1>1. CASE \/ /\ initTask # NoRoom
              /\ GoTo(c, "initTask", initTask)
              /\ UNCHANGED <<registry, objects, resumed>>
           \/ /\ destroyTask # NoRoom
              /\ GoTo(c, "destroyTask", destroyTask)
              /\ resumed' = resumed \ {c}
              /\ UNCHANGED <<registry, objects>>
  <2> USE <1>1, RoomsAssumption
      DEF ServedInv, LiveInv, TypeOK, Clients, registry, objects, GoTo
  <2>1. SocketsWait' BY DEF SocketsWait
  <2>2. SocketsServed' BY DEF SocketsServed
  <2>3. Quiet' BY DEF Quiet
  <2> QED BY <2>1, <2>2, <2>3
<1>2. CASE destroyTask = NoRoom /\ UseRoom(c)
  BY <1>2, ServedUseRoom DEF Clients
<1> QED BY <1>1, <1>2 DEF GetRoom, AwaitDestroyOrUseRoom

\* ServedInv after Socket.
LEMMA ServedSocketStep ==
  ASSUME Calm, Calm', ServedInv, NEW s \in Sockets,
         Connect(s) \/ Disconnect(s) \/ AttachSettles(s) \/ SocketHasRoom(s)
  PROVE  SocketsWait' /\ SocketsServed' /\ Quiet'
<1>1. CASE Connect(s)
  BY <1>1, ServedGetRoom DEF Connect
<1> USE RoomsAssumption
    DEF ServedInv, LiveInv, TypeOK, Clients, objects, Leave, DestroyRoomIfEmpty,
        GoTo, ClientRooms, HasRoom
<1>2. CASE Disconnect(s)
  <2> USE <1>2 DEF Disconnect
  <2>1. SocketsWait' BY DEF SocketsWait
  <2>2. SocketsServed' BY DEF SocketsServed
  <2>3. Quiet' BY DEF Quiet
  <2> QED BY <2>1, <2>2, <2>3
<1>3. CASE AttachDone(s)
  <2> USE <1>3 DEF AttachDone
  <2>1. SocketsWait' BY DEF SocketsWait
  <2>2. SocketsServed' BY DEF SocketsServed
  <2>3. Quiet' BY DEF Quiet
  <2> QED BY <2>1, <2>2, <2>3
<1>4. CASE AttachFails(s)
  <2> USE <1>4 DEF AttachFails
  <2>1. SocketsWait' BY DEF SocketsWait
  <2>2. SocketsServed' BY DEF SocketsServed
  <2>3. Quiet' BY DEF Quiet
  <2> QED BY <2>1, <2>2, <2>3
<1>5. CASE SocketHasRoom(s)
  <2> USE <1>5 DEF SocketHasRoom
  <2>1. SocketsWait' BY DEF SocketsWait
  <2>2. SocketsServed' BY DEF SocketsServed, SocketsWait
  <2>3. Quiet' BY DEF Quiet, SocketsWait, Calm
  <2> QED BY <2>1, <2>2, <2>3
<1> QED BY <1>1, <1>2, <1>3, <1>4, <1>5 DEF AttachSettles

\* ServedInv after Room.
LEMMA ServedRoomStep ==
  ASSUME Calm, ServedInv, NEW r \in Rooms, LoadSettles(r) \/ FlushSettles(r)
  PROVE  SocketsWait' /\ SocketsServed' /\ Quiet'
<1> USE RoomsAssumption, ClientsAssumption
    DEF ServedInv, LiveInv, TypeOK, Clients, Calm, objects, clients, Waiting,
        LoadIsInitTask, Reject
<1>1. CASE LoadDone(r)
  <2> USE <1>1 DEF LoadDone
  <2>1. SocketsWait' BY DEF SocketsWait, Quiet, OneLiveRoom, Live
  <2>2. SocketsServed' BY DEF SocketsServed
  <2>3. Quiet' BY DEF Quiet, OneLiveRoom, Live, DestroyedRoom
  <2> QED BY <2>1, <2>2, <2>3
<1>2. CASE LoadFails(r)
  <2> USE <1>2 DEF LoadFails
  <2>1. SocketsWait' BY DEF SocketsWait
  <2>2. SocketsServed' BY DEF SocketsServed, Quiet, OneLiveRoom, Live
  <2>3. Quiet' BY DEF Quiet
  <2> QED BY <2>1, <2>2, <2>3
<1>3. CASE FlushDone(r)
  <2> USE <1>3 DEF FlushDone
  <2>1. SocketsWait' BY DEF SocketsWait
  <2>2. SocketsServed' BY DEF SocketsServed, Quiet
  <2>3. Quiet' BY DEF Quiet, DestroyedRoom
  <2> QED BY <2>1, <2>2, <2>3
<1>4. CASE FlushFails(r)
  <2> USE <1>4 DEF FlushFails
  <2>1. SocketsWait' BY DEF SocketsWait
  <2>2. SocketsServed' BY DEF SocketsServed
  <2>3. Quiet' BY DEF Quiet
  <2> QED BY <2>1, <2>2, <2>3
<1> QED BY <1>1, <1>2, <1>3, <1>4 DEF LoadSettles, FlushSettles

\* ServedInv, after every step.
LEMMA ServedNext ==
  ASSUME Calm, Calm', ServedInv, [Next]_vars
  PROVE  ServedInv'
<1>0. "replace" \notin failed'
  BY FailedStays DEF ServedInv, Calm
<1>1. LiveInv'
  BY <1>0, LiveNext DEF ServedInv
<1>2. SocketsWait' /\ SocketsServed' /\ Quiet'
  <2>1. ASSUME NEW c \in Clients, Continue(c)
        PROVE  SocketsWait' /\ SocketsServed' /\ Quiet'
    <3>0. c \in Sockets
      BY <2>1
      DEF Clients, Calm, Continue, SocketHasRoom, RequestHasRoom, LoadAwaited, DestroyAwaited,
          Retry, Replaced
    <3>1. CASE SocketHasRoom(c) BY <3>0, <3>1, ServedSocketStep
    <3>2. CASE DestroyAwaited(c)
      <4>1. destroyTask = NoRoom /\ connected' = connected
        BY <3>0, <3>2 DEF DestroyAwaited, ServedInv, Quiet
      <4> QED BY <3>0, <4>1, <3>2, ServedUseRoom DEF DestroyAwaited
    <3>3. CASE Retry(c) \/ Replaced(c)
      BY <3>0, <3>3 DEF Retry, Replaced, ServedInv, SocketsWait
    <3>4. ~RequestHasRoom(c) /\ ~LoadAwaited(c)
      BY <3>0, ClientsAssumption DEF RequestHasRoom, LoadAwaited
    <3> QED
      BY <2>1, <3>1, <3>2, <3>3, <3>4 DEF Continue
  <2>2. ASSUME NEW h \in Requests, Request(h) \/ ReplaceSettles(h)
        PROVE  FALSE
    <3>1. at[h] = "new" /\ at'[h] = "new" BY DEF Calm
    <3>2. Request(h) BY <2>2, <3>1 DEF ReplaceSettles, ReplaceDone, ReplaceFails
    <3>3. GetRoom(h) BY <3>2 DEF Request
    <3>4. at'[h] # "new"
      BY <3>3
      DEF GetRoom, AwaitDestroyOrUseRoom, UseRoom, MakeRoom, InitializeRoom, ReplaceRoom, GoTo,
          RequestFails, ServedInv, LiveInv, TypeOK, Clients
    <3> QED BY <3>1, <3>4
  <2>3. CASE UNCHANGED vars
    BY <2>3
    DEF ServedInv, SocketsWait, SocketsServed, Quiet, vars, registry, objects,
        clients
  <2> QED BY <2>1, <2>2, <2>3, ServedSocketStep, ServedRoomStep DEF Next
<1> QED BY <1>0, <1>1, <1>2 DEF ServedInv

\* Getting a room does not concern other clients, and the one that gets it is not new or gone.
LEMMA GetRoomMoves ==
  ASSUME TypeOK, NEW c \in Clients, GetRoom(c) \/ UseRoom(c) \/ AwaitDestroyOrUseRoom(c)
  PROVE  /\ \A d \in Clients : d # c => at'[d] = at[d]
         /\ at'[c] # "new"
<1> USE DEF TypeOK, GoTo
<1>1. CASE MakeRoom(c) BY <1>1 DEF MakeRoom
<1>2. CASE InitializeRoom(c, rooms) BY <1>2 DEF InitializeRoom
<1>3. CASE ReplaceRoom(c, rooms) BY <1>3 DEF ReplaceRoom, RequestFails
<1>4. CASE UseRoom(c) BY <1>1, <1>2, <1>3, <1>4 DEF UseRoom
<1>5. CASE AwaitDestroyOrUseRoom(c) BY <1>4, <1>5 DEF AwaitDestroyOrUseRoom
<1>6. CASE GetRoom(c) BY <1>5, <1>6 DEF GetRoom
<1> QED BY <1>4, <1>5, <1>6

\* What is not calm remains so: a request is never new again, and a socket that left has left.
LEMMA CalmStays ==
  ASSUME TypeOK, [Next]_vars, Calm'
  PROVE  Calm
<1> SUFFICES ASSUME NEW d \in Clients
             PROVE  (at[d] # "new" => at'[d] # "new") /\ (at[d] = "left" => at'[d] = "left")
  BY DEF Calm, Clients
<1>1. ASSUME NEW s \in Sockets, Connect(s) \/ Disconnect(s) \/ AttachSettles(s)
      PROVE  (at[d] # "new" => at'[d] # "new") /\ (at[d] = "left" => at'[d] = "left")
  <2>1. CASE Connect(s) BY <2>1, GetRoomMoves DEF Connect, Clients
  <2>2. CASE Disconnect(s) BY <2>2 DEF Disconnect, TypeOK
  <2>3. CASE AttachSettles(s)
    BY <2>3 DEF AttachSettles, AttachDone, AttachFails, GoTo, TypeOK
  <2> QED BY <1>1, <2>1, <2>2, <2>3
<1>2. ASSUME NEW h \in Requests, Request(h) \/ ReplaceSettles(h)
      PROVE  (at[d] # "new" => at'[d] # "new") /\ (at[d] = "left" => at'[d] = "left")
  <2>1. CASE Request(h) BY <2>1, GetRoomMoves DEF Request, Clients
  <2>2. CASE ReplaceDone(h) BY <2>2 DEF ReplaceDone
  <2>3. CASE ReplaceFails(h) BY <2>3 DEF ReplaceFails, Reject, Waiting
  <2> QED BY <1>2, <2>1, <2>2, <2>3 DEF ReplaceSettles
<1>3. ASSUME NEW c \in Clients, Continue(c)
      PROVE  (at[d] # "new" => at'[d] # "new") /\ (at[d] = "left" => at'[d] = "left")
  <2>1. CASE DestroyAwaited(c) BY <2>1, GetRoomMoves DEF DestroyAwaited
  <2>2. CASE Retry(c) BY <2>2, GetRoomMoves DEF Retry
  <2>3. CASE SocketHasRoom(c) BY <2>3 DEF SocketHasRoom, GoTo, TypeOK
  <2>4. CASE RequestHasRoom(c)
    BY <2>4 DEF RequestHasRoom, ReplaceRoom, RequestFails, GoTo, TypeOK
  <2>5. CASE LoadAwaited(c) BY <2>5 DEF LoadAwaited, GoTo, TypeOK
  <2>6. CASE Replaced(c) BY <2>6 DEF Replaced, GoTo, TypeOK
  <2> QED BY <1>3, <2>1, <2>2, <2>3, <2>4, <2>5, <2>6 DEF Continue
<1>4. ASSUME NEW r \in Rooms, LoadSettles(r) \/ FlushSettles(r)
      PROVE  (at[d] # "new" => at'[d] # "new") /\ (at[d] = "left" => at'[d] = "left")
  <2>1. CASE LoadDone(r) \/ FlushDone(r) BY <2>1 DEF LoadDone, FlushDone, clients
  <2>2. CASE LoadFails(r) \/ FlushFails(r) BY <2>2 DEF LoadFails, FlushFails, Reject, Waiting
  <2> QED BY <1>4, <2>1, <2>2 DEF LoadSettles, FlushSettles
<1>5. CASE UNCHANGED vars BY <1>5 DEF vars, clients
<1> QED BY <1>1, <1>2, <1>3, <1>4, <1>5 DEF Next

\* ServedUndisturbed: until a replacement is asked for or a socket leaves before it has its room, a
\* socket that is attached stays in the live, registered room, however connections, departures and
\* failures of loads and flushes interleave.
THEOREM NobodyLosesTheRoom == Spec => []ServedUndisturbed
<1> DEFINE IInv == TypeOK /\ (Calm => ServedInv)
<1>1. Init => IInv
  BY LiveInit, TypeInit, RoomsAssumption
  DEF Init, ServedInv, SocketsWait, SocketsServed, Quiet, Clients
<1>2. IInv /\ [Next]_vars => IInv'
  BY ServedNext, CalmStays, TypeNext
<1>3. IInv => ServedUndisturbed
  BY DEF ServedInv, SocketsWait, SocketsServed, AttachedServed, ServedUndisturbed, Undisturbed, Calm
<1> HIDE DEF IInv
<1> QED BY <1>1, <1>2, <1>3, PTL DEF Spec

\* Sockets that wait for their room are there to get it.
Patient ==
  \A s \in Sockets : /\ at[s] \notin {"left", "retry"}
                     /\ at[s] \in {"initTask", "destroyTask", "load"} => s \in connected

\* Without requests and early leavers nothing disturbs.
LEMMA PatientNext ==
  ASSUME Requests = {}, ~EarlyLeave, TypeOK, Patient, [Next]_vars
  PROVE  Patient'
<1> USE DEF TypeOK, Clients, Patient
<1>1. ASSUME NEW s \in Sockets, Connect(s) \/ Disconnect(s) \/ AttachSettles(s)
      PROVE  Patient'
  <2>1. CASE Connect(s)
    <3>1. connected' = connected \union {s} /\ at'[s] \notin {"left", "retry"}
      BY <2>1 DEF Connect, GetRoom, AwaitDestroyOrUseRoom, UseRoom, MakeRoom, InitializeRoom, GoTo
    <3> QED BY <2>1, <3>1, GetRoomMoves DEF Connect
  <2>2. CASE Disconnect(s) BY <2>2 DEF Disconnect, Leave
  <2>3. CASE AttachSettles(s)
    BY <2>3 DEF AttachSettles, AttachDone, AttachFails, GoTo, Leave
  <2> QED BY <1>1, <2>1, <2>2, <2>3
<1>2. ASSUME NEW c \in Clients, Continue(c)
      PROVE  Patient'
  <2>1. CASE DestroyAwaited(c)
    <3>1. at'[c] \notin {"left", "retry"} /\ connected' = connected /\ c \in connected
      BY <2>1 DEF DestroyAwaited, UseRoom, MakeRoom, InitializeRoom, GoTo
    <3> QED BY <2>1, <3>1, GetRoomMoves DEF DestroyAwaited
  <2>2. CASE Retry(c) BY <2>2 DEF Retry
  <2>3. CASE SocketHasRoom(c) BY <2>3 DEF SocketHasRoom, GoTo
  <2>4. CASE Replaced(c) BY <2>4 DEF Replaced, GoTo
  <2> QED BY <1>2, <2>1, <2>2, <2>3, <2>4 DEF Continue, RequestHasRoom, LoadAwaited
<1>3. ASSUME NEW r \in Rooms, LoadSettles(r) \/ FlushSettles(r)
      PROVE  Patient'
  <2>1. CASE LoadDone(r) \/ FlushDone(r) BY <2>1 DEF LoadDone, FlushDone, clients
  <2>2. CASE LoadFails(r) \/ FlushFails(r) BY <2>2 DEF LoadFails, FlushFails, Reject, Waiting
  <2> QED BY <1>3, <2>1, <2>2 DEF LoadSettles, FlushSettles
<1>4. CASE UNCHANGED vars BY <1>4 DEF vars, clients
<1> QED BY <1>1, <1>2, <1>3, <1>4 DEF Next

\* AttachedServed, in systems where nobody replaces the documents and no socket leaves before it
\* has its room: there it holds at any time.
THEOREM EverybodyServed ==
  ASSUME Requests = {}, ~EarlyLeave
  PROVE  Spec => []AttachedServed
<1> DEFINE IInv == TypeOK /\ Patient
<1>1. Init => IInv
  BY TypeInit DEF Init, Patient, Clients
<1>2. IInv /\ [Next]_vars => IInv'
  BY PatientNext, TypeNext
<1>3. IInv /\ ServedUndisturbed => AttachedServed
  BY DEF Patient, ServedUndisturbed, Undisturbed
<1> HIDE DEF IInv
<1> QED BY <1>1, <1>2, <1>3, NobodyLosesTheRoom, PTL DEF Spec

----------------------------------------------------------------------------
(* The promises.  What stands behind each entry of the maps does so also   *)
(* after a cold replacement has failed.                                    *)

\* A room that is being initialized is registered, and no other that is empty; a request replaces
\* an empty room only behind the one that fills it, or one that has been given up.
Awaited ==
  /\ initTask # NoRoom => rooms = initTask
  /\ rooms # NoRoom /\ state[rooms] = "empty" => initTask = rooms
  /\ \A r \in Rooms : sockets[r] # {} => state[r] \in {"ready", "destroyed"}
  /\ \A c \in Clients :
       /\ at[c] \in {"destroyTask", "replace"} => room[c] \in Rooms
       /\ at[c] = "replace" /\ state[room[c]] = "empty" /\ rooms = room[c] => Cold(rooms)

\* No promise that a client waits for is dropped.  The task behind it is under
\* way and will know of the client, although tasks leave the maps and rooms are
\* made, destroyed and given up while it waits; and what has settled resumes it.
NoPromiseDropped ==
  /\ initTask # NoRoom => initTask \in loading \/ Waiting("coldReplace", initTask) # {}
  /\ \A c \in Clients \ resumed :
       /\ at[c] = "initTask" => initTask = room[c]
       /\ at[c] = "destroyTask" => destroyTask = room[c]
       /\ at[c] = "load" => room[c] \in loading
       /\ at[c] \notin {"retry", "replaced"}

PromiseInv ==
  /\ TypeOK /\ UnusedRooms /\ InitTaskServed /\ ColdReplaces /\ ClientRooms /\ DestroyedRoom
  /\ Awaited /\ NoPromiseDropped

PromiseParts ==
  /\ UnusedRooms /\ InitTaskServed /\ ColdReplaces /\ ClientRooms /\ DestroyedRoom
  /\ Awaited /\ NoPromiseDropped

\* PromiseInv after MakeRoom.
LEMMA PromiseMakeRoom ==
  ASSUME PromiseInv, NEW c \in Clients, rooms = NoRoom, at[c] \in {"new", "destroyTask", "retry"},
         MakeRoom(c), UNCHANGED sockets, resumed = {} \/ c \in resumed
  PROVE  PromiseParts'
<1> USE RoomsAssumption, ClientsAssumption
    DEF PromiseInv, TypeOK, Clients, registry, objects, clients, MakeRoom, GoTo
<1>1. UnusedRooms' BY DEF UnusedRooms
<1>2. InitTaskServed' BY DEF InitTaskServed, Cold
<1>3. ColdReplaces' BY DEF ColdReplaces, Awaited
<1>4. ClientRooms' BY DEF ClientRooms, HasRoom
<1>5. DestroyedRoom' BY DEF DestroyedRoom
<1>6. Awaited' BY DEF Awaited, UnusedRooms
<1>7. NoPromiseDropped' BY DEF NoPromiseDropped, Waiting, ClientRooms, Awaited
<1> QED BY <1>1, <1>2, <1>3, <1>4, <1>5, <1>6, <1>7 DEF PromiseParts

\* After InitializeRoom.
LEMMA PromiseInitialize ==
  ASSUME PromiseInv, NEW c \in Sockets, rooms # NoRoom, at[c] \in {"new", "destroyTask", "retry"},
         InitializeRoom(c, rooms), UNCHANGED sockets
  PROVE  PromiseParts'
<1> USE RoomsAssumption, ClientsAssumption
    DEF PromiseInv, TypeOK, Clients, registry, objects, clients, InitializeRoom, GoTo
<1>1. UnusedRooms' BY DEF UnusedRooms
<1>2. InitTaskServed' BY DEF InitTaskServed, Cold
<1>3. ColdReplaces' BY DEF ColdReplaces
<1>4. ClientRooms' BY DEF ClientRooms, HasRoom, UnusedRooms
<1>5. DestroyedRoom' BY DEF DestroyedRoom
<1>6. Awaited' BY DEF Awaited, Cold
<1>7. NoPromiseDropped' BY DEF NoPromiseDropped, Waiting
<1> QED BY <1>1, <1>2, <1>3, <1>4, <1>5, <1>6, <1>7 DEF PromiseParts

\* After ReplaceRoom.
LEMMA PromiseReplace ==
  ASSUME PromiseInv, NEW h \in Requests, NEW r \in Rooms, state[r] # "unused",
         at[h] # "coldReplace",
         ReplaceRoom(h, r), UNCHANGED sockets
  PROVE  PromiseParts'
<1> USE RoomsAssumption, ClientsAssumption
    DEF PromiseInv, TypeOK, Clients, registry, objects, clients, ReplaceRoom, RequestFails, GoTo
<1>1. UnusedRooms' BY DEF UnusedRooms
<1>2. InitTaskServed' BY DEF InitTaskServed, Cold
<1>3. ColdReplaces' BY DEF ColdReplaces
<1>4. ClientRooms' BY DEF ClientRooms, HasRoom
<1>5. DestroyedRoom' BY DEF DestroyedRoom
<1>6. Awaited' BY DEF Awaited, InitTaskServed, Cold
<1>7. NoPromiseDropped' BY DEF NoPromiseDropped, Waiting
<1> QED BY <1>1, <1>2, <1>3, <1>4, <1>5, <1>6, <1>7 DEF PromiseParts

\* After Disconnect.
LEMMA PromiseDisconnect ==
  ASSUME PromiseInv, NEW s \in Sockets, Disconnect(s)
  PROVE  PromiseParts'
<1> USE RoomsAssumption, ClientsAssumption
    DEF PromiseInv, TypeOK, Clients, registry, objects, clients, Disconnect, Leave,
        DestroyRoomIfEmpty
<1>1. UnusedRooms' BY DEF UnusedRooms
<1>2. InitTaskServed' BY DEF InitTaskServed, Cold
<1>3. ColdReplaces' BY DEF ColdReplaces
<1>4. ClientRooms' BY DEF ClientRooms, HasRoom
<1>5. DestroyedRoom' BY DEF DestroyedRoom, ClientRooms, HasRoom
<1>6. Awaited' BY DEF Awaited, Cold
<1>7. NoPromiseDropped' BY DEF NoPromiseDropped, Waiting, Awaited
<1> QED BY <1>1, <1>2, <1>3, <1>4, <1>5, <1>6, <1>7 DEF PromiseParts

\* After AttachDone.
LEMMA PromiseAttachDone ==
  ASSUME PromiseInv, NEW s \in Sockets, AttachDone(s)
  PROVE  PromiseParts'
<1> USE RoomsAssumption, ClientsAssumption
    DEF PromiseInv, TypeOK, Clients, registry, objects, clients, AttachDone, DestroyRoomIfEmpty,
        GoTo
<1>1. UnusedRooms' BY DEF UnusedRooms
<1>2. InitTaskServed' BY DEF InitTaskServed, Cold
<1>3. ColdReplaces' BY DEF ColdReplaces
<1>4. ClientRooms' BY DEF ClientRooms, HasRoom
<1>5. DestroyedRoom' BY DEF DestroyedRoom, ClientRooms, HasRoom
<1>6. Awaited' BY DEF Awaited, Cold
<1>7. NoPromiseDropped' BY DEF NoPromiseDropped, Waiting, Awaited
<1> QED BY <1>1, <1>2, <1>3, <1>4, <1>5, <1>6, <1>7 DEF PromiseParts

\* After AttachFails.
LEMMA PromiseAttachFails ==
  ASSUME PromiseInv, NEW s \in Sockets, AttachFails(s)
  PROVE  PromiseParts'
<1> USE RoomsAssumption, ClientsAssumption
    DEF PromiseInv, TypeOK, Clients, registry, objects, clients, AttachFails, Leave,
        DestroyRoomIfEmpty, GoTo
<1>1. UnusedRooms' BY DEF UnusedRooms
<1>2. InitTaskServed' BY DEF InitTaskServed, Cold
<1>3. ColdReplaces' BY DEF ColdReplaces
<1>4. ClientRooms' BY DEF ClientRooms, HasRoom
<1>5. DestroyedRoom' BY DEF DestroyedRoom, ClientRooms, HasRoom
<1>6. Awaited' BY DEF Awaited, Cold
<1>7. NoPromiseDropped' BY DEF NoPromiseDropped, Waiting, Awaited
<1> QED BY <1>1, <1>2, <1>3, <1>4, <1>5, <1>6, <1>7 DEF PromiseParts

\* After SocketHasRoom.
LEMMA PromiseSocketHasRoom ==
  ASSUME PromiseInv, NEW s \in Clients, SocketHasRoom(s)
  PROVE  PromiseParts'
<1> USE RoomsAssumption, ClientsAssumption
    DEF PromiseInv, TypeOK, Clients, registry, objects, clients, SocketHasRoom,
        DestroyRoomIfEmpty, GoTo
<1>1. UnusedRooms' BY DEF UnusedRooms
<1>2. InitTaskServed' BY DEF InitTaskServed, Cold
<1>3. ColdReplaces' BY DEF ColdReplaces
<1>4. ClientRooms' BY DEF ClientRooms, HasRoom
<1>5. DestroyedRoom' BY DEF DestroyedRoom, ClientRooms, HasRoom
<1>6. Awaited' BY DEF Awaited, Cold, ClientRooms, HasRoom
<1>7. NoPromiseDropped' BY DEF NoPromiseDropped, Waiting, Awaited
<1> QED BY <1>1, <1>2, <1>3, <1>4, <1>5, <1>6, <1>7 DEF PromiseParts

\* After LoadAwaited.
LEMMA PromiseLoadAwaited ==
  ASSUME PromiseInv, NEW h \in Clients, LoadAwaited(h)
  PROVE  PromiseParts'
<1> USE RoomsAssumption, ClientsAssumption
    DEF PromiseInv, TypeOK, Clients, registry, objects, clients, LoadAwaited, GoTo
<1>1. UnusedRooms' BY DEF UnusedRooms
<1>2. InitTaskServed' BY DEF InitTaskServed, Cold
<1>3. ColdReplaces' BY DEF ColdReplaces
<1>4. ClientRooms' BY DEF ClientRooms, HasRoom
<1>5. DestroyedRoom' BY DEF DestroyedRoom
<1>6. Awaited' BY DEF Awaited, Cold, ClientRooms, HasRoom
<1>7. NoPromiseDropped' BY DEF NoPromiseDropped, Waiting
<1> QED BY <1>1, <1>2, <1>3, <1>4, <1>5, <1>6, <1>7 DEF PromiseParts

\* After Replaced.
LEMMA PromiseReplaced ==
  ASSUME PromiseInv, NEW h \in Clients, Replaced(h)
  PROVE  PromiseParts'
<1> USE RoomsAssumption, ClientsAssumption
    DEF PromiseInv, TypeOK, Clients, registry, objects, clients, Replaced, DestroyRoomIfEmpty, GoTo
<1>1. UnusedRooms' BY DEF UnusedRooms
<1>2. InitTaskServed' BY DEF InitTaskServed, Cold
<1>3. ColdReplaces' BY DEF ColdReplaces
<1>4. ClientRooms' BY DEF ClientRooms, HasRoom
<1>5. DestroyedRoom' BY DEF DestroyedRoom, ClientRooms, HasRoom
<1>6. Awaited' BY DEF Awaited, Cold
<1>7. NoPromiseDropped' BY DEF NoPromiseDropped, Waiting, Awaited
<1> QED BY <1>1, <1>2, <1>3, <1>4, <1>5, <1>6, <1>7 DEF PromiseParts

\* After LoadDone.
LEMMA PromiseLoadDone ==
  ASSUME PromiseInv, NEW r \in Rooms, LoadDone(r)
  PROVE  PromiseParts'
<1> USE RoomsAssumption, ClientsAssumption
    DEF PromiseInv, TypeOK, Clients, registry, objects, clients, LoadDone, LoadIsInitTask
<1>1. UnusedRooms' BY DEF UnusedRooms
<1>2. InitTaskServed' BY DEF InitTaskServed, Cold, Waiting
<1>3. ColdReplaces' BY DEF ColdReplaces, Waiting
<1>4. ClientRooms' BY DEF ClientRooms, HasRoom, UnusedRooms, Waiting
<1>5. DestroyedRoom' BY DEF DestroyedRoom
<1>6. Awaited' BY DEF Awaited, Cold
<1>7. NoPromiseDropped' BY DEF NoPromiseDropped, Waiting
<1> QED BY <1>1, <1>2, <1>3, <1>4, <1>5, <1>6, <1>7 DEF PromiseParts

\* After LoadFails.
LEMMA PromiseLoadFails ==
  ASSUME PromiseInv, NEW r \in Rooms, LoadFails(r)
  PROVE  PromiseParts'
<1> USE RoomsAssumption, ClientsAssumption
    DEF PromiseInv, TypeOK, Clients, registry, objects, clients, LoadFails, LoadIsInitTask, Reject
<1>1. UnusedRooms' BY DEF UnusedRooms
<1>2. InitTaskServed' BY DEF InitTaskServed, Cold, Waiting
<1>3. ColdReplaces' BY DEF ColdReplaces, Waiting
<1>4. ClientRooms' BY DEF ClientRooms, HasRoom
<1>5. DestroyedRoom' BY DEF DestroyedRoom
<1>6. Awaited' BY DEF Awaited, Cold, Waiting
<1>7. NoPromiseDropped' BY DEF NoPromiseDropped, Waiting
<1> QED BY <1>1, <1>2, <1>3, <1>4, <1>5, <1>6, <1>7 DEF PromiseParts

\* After FlushDone.
LEMMA PromiseFlushDone ==
  ASSUME PromiseInv, NEW r \in Rooms, FlushDone(r)
  PROVE  PromiseParts'
<1> USE RoomsAssumption, ClientsAssumption
    DEF PromiseInv, TypeOK, Clients, registry, objects, clients, FlushDone
<1>1. UnusedRooms' BY DEF UnusedRooms
<1>2. InitTaskServed' BY DEF InitTaskServed, Cold, DestroyedRoom
<1>3. ColdReplaces' BY DEF ColdReplaces
<1>4. ClientRooms' BY DEF ClientRooms, HasRoom, Waiting
<1>5. DestroyedRoom' BY DEF DestroyedRoom
<1>6. Awaited' BY DEF Awaited, InitTaskServed, Cold, DestroyedRoom, Waiting
<1>7. NoPromiseDropped' BY DEF NoPromiseDropped, Waiting
<1> QED BY <1>1, <1>2, <1>3, <1>4, <1>5, <1>6, <1>7 DEF PromiseParts

\* After FlushFails.
LEMMA PromiseFlushFails ==
  ASSUME PromiseInv, NEW r \in Rooms, FlushFails(r)
  PROVE  PromiseParts'
<1> USE RoomsAssumption, ClientsAssumption
    DEF PromiseInv, TypeOK, Clients, registry, objects, clients, FlushFails, Reject
<1>1. UnusedRooms' BY DEF UnusedRooms
<1>2. InitTaskServed' BY DEF InitTaskServed, Cold, Waiting
<1>3. ColdReplaces' BY DEF ColdReplaces
<1>4. ClientRooms' BY DEF ClientRooms, HasRoom
<1>5. DestroyedRoom' BY DEF DestroyedRoom
<1>6. Awaited' BY DEF Awaited, Cold, Waiting
<1>7. NoPromiseDropped' BY DEF NoPromiseDropped, Waiting
<1> QED BY <1>1, <1>2, <1>3, <1>4, <1>5, <1>6, <1>7 DEF PromiseParts

\* After ReplaceDone.
LEMMA PromiseReplaceDone ==
  ASSUME PromiseInv, NEW h \in Requests, ReplaceDone(h)
  PROVE  PromiseParts'
<1> USE RoomsAssumption, ClientsAssumption
    DEF PromiseInv, TypeOK, Clients, registry, objects, clients, ReplaceDone, DestroyRoomIfEmpty
<1>1. UnusedRooms' BY DEF UnusedRooms
<1>2. InitTaskServed' BY DEF InitTaskServed, Cold, Awaited
<1>3. ColdReplaces' BY DEF ColdReplaces
<1>4. ClientRooms' BY DEF ClientRooms, HasRoom, UnusedRooms, Waiting, ColdReplaces, Awaited
<1>5. DestroyedRoom' BY DEF DestroyedRoom, Awaited
<1>6. Awaited' BY DEF Awaited, Cold, ColdReplaces
<1>7. NoPromiseDropped' BY DEF NoPromiseDropped, Waiting, Awaited, ColdReplaces
<1> QED BY <1>1, <1>2, <1>3, <1>4, <1>5, <1>6, <1>7 DEF PromiseParts

\* After ReplaceFails.
LEMMA PromiseReplaceFails ==
  ASSUME PromiseInv, NEW h \in Requests, ReplaceFails(h)
  PROVE  PromiseParts'
<1> USE RoomsAssumption, ClientsAssumption
    DEF PromiseInv, TypeOK, Clients, registry, objects, clients, ReplaceFails, Reject
<1>1. UnusedRooms' BY DEF UnusedRooms
<1>2. InitTaskServed' BY DEF InitTaskServed, Cold
<1>3. ColdReplaces' BY DEF ColdReplaces
<1>4. ClientRooms' BY DEF ClientRooms, HasRoom
<1>5. DestroyedRoom' BY DEF DestroyedRoom
<1>6. Awaited' BY DEF Awaited, Cold, ColdReplaces
<1>7. NoPromiseDropped' BY DEF NoPromiseDropped, Waiting, ColdReplaces
<1> QED BY <1>1, <1>2, <1>3, <1>4, <1>5, <1>6, <1>7 DEF PromiseParts

\* After AwaitDestroyOrUseRoom.
LEMMA PromiseUseRoom ==
  ASSUME PromiseInv, NEW c \in Clients, at[c] \in {"new", "destroyTask", "retry"},
         AwaitDestroyOrUseRoom(c) \/ UseRoom(c), UNCHANGED sockets, resumed = {} \/ c \in resumed
  PROVE  PromiseParts'
<1>1. CASE UseRoom(c)
  <2>1. rooms # NoRoom => rooms \in Rooms /\ state[rooms] # "unused"
    BY DEF PromiseInv, TypeOK, UnusedRooms
  <2> QED
    BY <1>1, <2>1, PromiseMakeRoom, PromiseInitialize, PromiseReplace DEF UseRoom
<1>2. CASE destroyTask # NoRoom /\ GoTo(c, "destroyTask", destroyTask)
             /\ resumed' = resumed \ {c} /\ UNCHANGED <<registry, objects, joined>>
  <2> USE <1>2, RoomsAssumption, ClientsAssumption
      DEF PromiseInv, TypeOK, Clients, registry, objects, GoTo
  <2>1. UnusedRooms' BY DEF UnusedRooms
  <2>2. InitTaskServed' BY DEF InitTaskServed, Cold
  <2>3. ColdReplaces' BY DEF ColdReplaces
  <2>4. ClientRooms' BY DEF ClientRooms, HasRoom
  <2>5. DestroyedRoom' BY DEF DestroyedRoom
  <2>6. Awaited' BY DEF Awaited, Cold
  <2>7. NoPromiseDropped' BY DEF NoPromiseDropped, Waiting
  <2> QED BY <2>1, <2>2, <2>3, <2>4, <2>5, <2>6, <2>7 DEF PromiseParts
<1> QED BY <1>1, <1>2 DEF AwaitDestroyOrUseRoom

\* After GetRoom.
LEMMA PromiseGetRoom ==
  ASSUME PromiseInv, NEW c \in Clients, at[c] = "new", resumed = {}, GetRoom(c), UNCHANGED sockets
  PROVE  PromiseParts'
<1>1. CASE initTask # NoRoom /\ GoTo(c, "initTask", initTask)
             /\ joined' = joined \union ({c} \intersect Requests)
             /\ UNCHANGED <<registry, objects, resumed>>
  <2> USE <1>1, RoomsAssumption, ClientsAssumption
      DEF PromiseInv, TypeOK, Clients, registry, objects, GoTo
  <2>1. UnusedRooms' BY DEF UnusedRooms
  <2>2. InitTaskServed' BY DEF InitTaskServed, Cold
  <2>3. ColdReplaces' BY DEF ColdReplaces
  <2>4. ClientRooms' BY DEF ClientRooms, HasRoom
  <2>5. DestroyedRoom' BY DEF DestroyedRoom
  <2>6. Awaited' BY DEF Awaited, Cold
  <2>7. NoPromiseDropped' BY DEF NoPromiseDropped, Waiting
  <2> QED BY <2>1, <2>2, <2>3, <2>4, <2>5, <2>6, <2>7 DEF PromiseParts
<1> QED BY <1>1, PromiseUseRoom DEF GetRoom

\* After every step.
LEMMA PromiseNext ==
  ASSUME PromiseInv, [Next]_vars
  PROVE  PromiseInv'
<1>1. TypeOK' BY TypeNext DEF PromiseInv
<1>2. ASSUME NEW s \in Sockets, Connect(s) \/ Disconnect(s) \/ AttachSettles(s)
      PROVE  PromiseParts'
  BY <1>2, PromiseGetRoom, PromiseDisconnect, PromiseAttachDone, PromiseAttachFails
  DEF Connect, AttachSettles, Clients
<1>3. ASSUME NEW h \in Requests, Request(h) \/ ReplaceSettles(h)
      PROVE  PromiseParts'
  BY <1>3, PromiseGetRoom, PromiseReplaceDone, PromiseReplaceFails
  DEF Request, ReplaceSettles, Clients
<1>4. ASSUME NEW c \in Clients, Continue(c)
      PROVE  PromiseParts'
  <2>1. CASE DestroyAwaited(c) BY <2>1, PromiseUseRoom DEF DestroyAwaited
  <2>2. CASE Retry(c) BY <2>2, PromiseUseRoom DEF Retry
  <2>3. CASE RequestHasRoom(c)
    <3>1. room[c] \in Rooms /\ state[room[c]] # "unused"
      BY <2>3 DEF RequestHasRoom, PromiseInv, ClientRooms, HasRoom
    <3> QED BY <2>3, <3>1, PromiseReplace DEF RequestHasRoom
  <2> QED
    BY <1>4, <2>1, <2>2, <2>3, PromiseSocketHasRoom, PromiseLoadAwaited, PromiseReplaced
    DEF Continue
<1>5. ASSUME NEW r \in Rooms, LoadSettles(r) \/ FlushSettles(r)
      PROVE  PromiseParts'
  BY <1>5, PromiseLoadDone, PromiseLoadFails, PromiseFlushDone, PromiseFlushFails
  DEF LoadSettles, FlushSettles
<1>6. CASE UNCHANGED vars
  <2> USE <1>6 DEF PromiseInv, vars, registry, objects, clients
  <2>1. UnusedRooms' BY DEF UnusedRooms
  <2>2. InitTaskServed' BY DEF InitTaskServed, Cold
  <2>3. ColdReplaces' BY DEF ColdReplaces
  <2>4. ClientRooms' BY DEF ClientRooms, HasRoom
  <2>5. DestroyedRoom' BY DEF DestroyedRoom
  <2>6. Awaited' BY DEF Awaited, Cold
  <2>7. NoPromiseDropped' BY DEF NoPromiseDropped, Waiting
  <2> QED BY <2>1, <2>2, <2>3, <2>4, <2>5, <2>6, <2>7, <1>1
<1>7. CASE Next
  <2>1. PromiseParts' BY <1>2, <1>3, <1>4, <1>5, <1>7 DEF Next
  <2> QED BY <1>1, <2>1 DEF PromiseInv, PromiseParts
<1> QED BY <1>6, <1>7

\* NoPromiseDropped: however loads, replacements and flushes settle or fail, and whoever comes,
\* leaves or retries meanwhile, a client waits only for a task that is under way and will wake it.
THEOREM EveryPromiseSettles == Spec => []NoPromiseDropped
<1>1. Init => PromiseInv
  BY LiveInit, RoomsAssumption
  DEF Init, PromiseInv, LiveInv, Awaited, NoPromiseDropped
<1>2. PromiseInv /\ [Next]_vars => PromiseInv'
  BY PromiseNext
<1>3. PromiseInv => NoPromiseDropped
  BY DEF PromiseInv
<1> QED BY <1>1, <1>2, <1>3, PTL DEF Spec

=============================================================================
