---------------------------- MODULE BattleServer ----------------------------
(***************************************************************************)
(* The room directory of the battle server                                 *)
(* (gdserver/server/src/servers/battle/main.go and room.go): the maps      *)
(* BattleRooms and PlayerInRoom, the member map of every room object, and  *)
(* the three RWMutexes that guard them.  gRPC runs every call in a         *)
(* goroutine of its own, so a call is a thread whose steps interleave with *)
(* those of the others; what a handler does between two points where       *)
(* another thread can get in is one action.                                *)
(*                                                                         *)
(* Sections under a read lock that call nothing that blocks are atomic and *)
(* wait only for the writer.  A notification is one step of its broadcast: *)
(* it ends after at most three seconds whatever becomes of it.             *)
(***************************************************************************)

CONSTANTS
  Players,   \* player ids
  Rooms,     \* identities of *BattleRoom objects in use at the same time
  Threads,   \* slots for calls in flight
  Serial,    \* TRUE: clients wait for each answer and leave before they enter
  Nil        \* the zero value of a pointer or of a string

(* The room id is the decimal form of the creator's player id. *)
FormatUint(p) == <<"room", p>>
RoomIds == {FormatUint(p) : p \in Players}

ASSUME BattleServerAssumption ==
  /\ Serial \in BOOLEAN
  /\ Nil \notin Players \cup Rooms \cup Threads \cup RoomIds

VARIABLES
  BattleRooms,     \* room id -> listed room object, or Nil
  PlayerInRoom,    \* player -> id of the room it is mapped to, or Nil
  members,         \* room object -> keys of its Players map
  RoomsMutex,      \* thread that holds s.RoomsMutex for writing, or Nil
  PlayersMutex,    \* thread that holds s.PlayersMutex for writing, or Nil
  call,            \* thread -> the call it is executing
  todo             \* thread -> entries its range over room.Players has left

maps  == <<BattleRooms, PlayerInRoom, members>>
locks == <<RoomsMutex, PlayersMutex>>
vars  == <<maps, locks, call, todo>>

CreatePCs == {"create.lockRooms", "create.lockPlayers"}
JoinPCs   == {"join.lookup", "join.add", "join.map", "join.status",
              "join.positions"}
LeavePCs  == {"leave.unmap", "leave.lockRooms", "leave.remove", "leave.status",
              "leave.delete", "leave.reply"}

(* The steps at which a call has looked up, or is to create, its object.   *)
HasRoom == CreatePCs \cup (JoinPCs \ {"join.lookup"})
             \cup (LeavePCs \ {"leave.unmap", "leave.lockRooms"})
HasRoomID == HasRoom \cup {"join.lookup", "leave.lockRooms"}

(* roomID and room are the handler's locals of these names. *)
Call == [pc     : {"idle"} \cup CreatePCs \cup JoinPCs \cup LeavePCs,
         player : Players \cup {Nil},
         roomID : RoomIds \cup {Nil},
         room   : Rooms \cup {Nil}]

NoCall == [pc |-> "idle", player |-> Nil, roomID |-> Nil, room |-> Nil]

Init ==
  /\ BattleRooms  = [r \in RoomIds |-> Nil]
  /\ PlayerInRoom = [p \in Players |-> Nil]
  /\ members      = [o \in Rooms |-> {}]
  /\ RoomsMutex   = Nil
  /\ PlayersMutex = Nil
  /\ call         = [t \in Threads |-> NoCall]
  /\ todo         = [t \in Threads |-> {}]

-----------------------------------------------------------------------------
At(t, pc) == call[t].pc = pc

Goto(t, pc) == call' = [call EXCEPT ![t].pc = pc]

InFlight(p) == \E t \in Threads : call[t].pc # "idle" /\ call[t].player = p

(* Threads in the loop of BroadcastRoomStatus on object o: they range over *)
(* o.Players without the room's lock.                                      *)
Ranging(o) == {t \in Threads : /\ call[t].pc \in {"join.status", "leave.status"}
                               /\ call[t].room = o
                               /\ todo[t] # {}}

(* o.PlayersMutex can be taken for writing: BroadcastInitialPositions is   *)
(* the only section that keeps the read lock across notifications.         *)
RoomLockFree(o) ==
  \A t \in Threads : ~(At(t, "join.positions") /\ call[t].room = o)

Return(t) == call' = [call EXCEPT ![t] = NoCall]

(* What GetRoomListRpc returns: an entry with its players for every id.    *)
RoomList == [r \in {i \in RoomIds : BattleRooms[i] # Nil} |->
               members[BattleRooms[r]]]

(* s.RoomsMutex.RLock() succeeds. *)
CanReadRooms == RoomsMutex = Nil

-----------------------------------------------------------------------------
(* A request arrives.  A serial client has one call in flight and creates  *)
(* or joins only while it is in no room; in general a call that the game   *)
(* server gave up after three seconds may still be running here.           *)

MayEnter(p) == Serial => PlayerInRoom[p] = Nil

Begin(t, p, pc, r, o) ==
  /\ At(t, "idle")
  /\ Serial => ~InFlight(p)
  /\ call' = [call EXCEPT ![t] = [pc |-> pc, player |-> p, roomID |-> r,
                                  room |-> o]]
  /\ UNCHANGED <<maps, locks, todo>>

(* An object no map entry and no call points to is garbage: its identity   *)
(* can stand for the one the call is going to allocate.                    *)
Unused(o) == /\ \A r \in RoomIds : BattleRooms[r] # o
             /\ \A t \in Threads : call[t].room # o

CreateRoomCall(t, p) ==
  /\ MayEnter(p)
  /\ \E o \in Rooms :
       Unused(o) /\ Begin(t, p, "create.lockRooms", FormatUint(p), o)

JoinRoomCall(t, p, r) == MayEnter(p) /\ Begin(t, p, "join.lookup", r, Nil)

LeaveRoomCall(t, p) == Begin(t, p, "leave.unmap", Nil, Nil)

-----------------------------------------------------------------------------
(* Plausible slips, each of which breaks a property stated below: a step   *)
(* of a handler as it would be without a check, a lookup or an unlock.     *)

(* JoinRoomRpc does not test that the room exists. *)
JoinLookupUnchecked(t) ==
  /\ At(t, "join.lookup")
  /\ CanReadRooms
  /\ call' = [call EXCEPT ![t].pc = "join.add",
                          ![t].room = BattleRooms[call[t].roomID]]
  /\ UNCHANGED <<maps, locks, todo>>

(* LeaveRoomRpc releases RoomsMutex before it stops the emptied room. *)
LeaveCheckEmptyUnlocks(t) ==
  /\ At(t, "leave.status")
  /\ todo[t] = {}
  /\ Goto(t, IF members[call[t].room] = {} THEN "leave.delete"
                                           ELSE "leave.reply")
  /\ RoomsMutex' = Nil
  /\ UNCHANGED <<maps, PlayersMutex, todo>>

(* LeaveRoomRpc looks up the room the player created, not the mapped one. *)
LeaveLockRoomsByCreator(t) ==
  LET o == BattleRooms[FormatUint(call[t].player)]
  IN  /\ At(t, "leave.lockRooms")
      /\ RoomsMutex = Nil
      /\ \/ o = Nil /\ Return(t) /\ UNCHANGED RoomsMutex
         \/ /\ o # Nil
            /\ RoomsMutex' = t
            /\ call' = [call EXCEPT ![t].pc = "leave.remove", ![t].room = o]
      /\ UNCHANGED <<maps, PlayersMutex, todo>>

(* LeaveRoomRpc removes the player only when that empties the room. *)
LeaveRemoveLastOnly(t) ==
  LET p == call[t].player
      o == call[t].room
      left == IF members[o] = {p} THEN {} ELSE members[o]
  IN  /\ At(t, "leave.remove")
      /\ RoomLockFree(o)
      /\ members' = [members EXCEPT ![o] = left]
      /\ Goto(t, "leave.status")
      /\ UNCHANGED <<BattleRooms, PlayerInRoom, locks, todo>>

(* LeaveRoomRpc keeps PlayersMutex while it waits for RoomsMutex. *)
LeaveUnmapKeepsLock(t) ==
  LET p == call[t].player
  IN  /\ At(t, "leave.unmap")
      /\ PlayersMutex = Nil
      /\ \/ /\ PlayerInRoom[p] = Nil
            /\ Return(t)
            /\ UNCHANGED <<PlayerInRoom, PlayersMutex>>
         \/ /\ PlayerInRoom[p] # Nil
            /\ PlayersMutex' = t
            /\ PlayerInRoom' = [PlayerInRoom EXCEPT ![p] = Nil]
            /\ call' = [call EXCEPT ![t].pc = "leave.lockRooms",
                                    ![t].roomID = PlayerInRoom[p]]
      /\ UNCHANGED <<BattleRooms, members, RoomsMutex, todo>>

-----------------------------------------------------------------------------
(* CreateRoomRpc *)

CreateLockRooms(t) ==
  /\ At(t, "create.lockRooms")
  /\ RoomsMutex = Nil
  /\ RoomsMutex' = t
  /\ Goto(t, "create.lockPlayers")
  /\ UNCHANGED <<maps, PlayersMutex, todo>>

(* Takes PlayersMutex, runs the rest of the handler and releases both.     *)
CreateRoom(t) ==
  LET p == call[t].player
      r == call[t].roomID
      o == call[t].room
  IN  /\ At(t, "create.lockPlayers")
      /\ PlayersMutex = Nil
      /\ \/ /\ PlayerInRoom[p] # Nil        \* PLAYER_ALREADY_IN_ROOM
            /\ UNCHANGED maps
         \/ /\ PlayerInRoom[p] = Nil
            /\ members' = [members EXCEPT ![o] = {p}]
            /\ BattleRooms' = [BattleRooms EXCEPT ![r] = o]
            /\ PlayerInRoom' = [PlayerInRoom EXCEPT ![p] = r]
      /\ RoomsMutex' = Nil
      /\ Return(t)
      /\ UNCHANGED <<PlayersMutex, todo>>

-----------------------------------------------------------------------------
(* JoinRoomRpc *)

JoinLookup(t) ==
  LET o == BattleRooms[call[t].roomID]
  IN  /\ At(t, "join.lookup")
      /\ CanReadRooms
      /\ \/ o = Nil /\ Return(t)            \* INVALID_ROOM
         \/ o # Nil /\ call' = [call EXCEPT ![t].pc = "join.add",
                                            ![t].room = o]
      /\ UNCHANGED <<maps, locks, todo>>

(* AddPlayer: a map entry added during a range may or may not be produced. *)
JoinAddPlayer(t) ==
  LET p == call[t].player
      o == call[t].room
  IN  /\ At(t, "join.add")
      /\ RoomLockFree(o)
      /\ members' = [members EXCEPT ![o] = @ \cup {p}]
      /\ \E S \in SUBSET Ranging(o) :
           todo' = [u \in Threads |-> IF u \in S THEN todo[u] \cup {p}
                                                ELSE todo[u]]
      /\ Goto(t, "join.map")
      /\ UNCHANGED <<BattleRooms, PlayerInRoom, locks>>

(* Takes PlayersMutex, which the deferred unlock keeps until the return.   *)
JoinMapPlayer(t) ==
  /\ At(t, "join.map")
  /\ PlayersMutex = Nil
  /\ PlayersMutex' = t
  /\ PlayerInRoom' = [PlayerInRoom EXCEPT ![call[t].player] = call[t].roomID]
  /\ Goto(t, "join.status")
  /\ todo' = [todo EXCEPT ![t] = members[call[t].room]]
  /\ UNCHANGED <<BattleRooms, members, RoomsMutex>>

(* One NotifyRoomStatus of BroadcastRoomStatus. *)
NotifyNext(t, pc) ==
  /\ At(t, pc)
  /\ \E q \in todo[t] : todo' = [todo EXCEPT ![t] = @ \ {q}]
  /\ UNCHANGED <<maps, locks, call>>

JoinBroadcastStatus(t) == NotifyNext(t, "join.status")

(* BroadcastInitialPositions takes the room's read lock ...                *)
JoinLockRoom(t) ==
  /\ At(t, "join.status")
  /\ todo[t] = {}
  /\ Goto(t, "join.positions")
  /\ todo' = [todo EXCEPT ![t] = members[call[t].room] \ {call[t].player}]
  /\ UNCHANGED <<maps, locks>>

(* ... and sends the newcomer one position per member under it.            *)
JoinSendPosition(t) == NotifyNext(t, "join.positions")

JoinReturn(t) ==
  /\ At(t, "join.positions")
  /\ todo[t] = {}
  /\ PlayersMutex' = Nil
  /\ Return(t)
  /\ UNCHANGED <<maps, RoomsMutex, todo>>

-----------------------------------------------------------------------------
(* LeaveRoomRpc *)

(* Under PlayersMutex: look the player up and delete its entry.            *)
LeaveUnmap(t) ==
  LET p == call[t].player
  IN  /\ At(t, "leave.unmap")
      /\ PlayersMutex = Nil
      /\ \/ /\ PlayerInRoom[p] = Nil        \* INVALID_ROOM
            /\ Return(t)
            /\ UNCHANGED PlayerInRoom
         \/ /\ PlayerInRoom[p] # Nil
            /\ PlayerInRoom' = [PlayerInRoom EXCEPT ![p] = Nil]
            /\ call' = [call EXCEPT ![t].pc = "leave.lockRooms",
                                    ![t].roomID = PlayerInRoom[p]]
      /\ UNCHANGED <<BattleRooms, members, locks, todo>>

(* Takes RoomsMutex and looks the room up again by its id.                 *)
LeaveLockRooms(t) ==
  LET o == BattleRooms[call[t].roomID]
  IN  /\ At(t, "leave.lockRooms")
      /\ RoomsMutex = Nil
      /\ \/ o = Nil /\ Return(t) /\ UNCHANGED RoomsMutex
         \/ /\ o # Nil
            /\ RoomsMutex' = t
            /\ call' = [call EXCEPT ![t].pc = "leave.remove", ![t].room = o]
      /\ UNCHANGED <<maps, PlayersMutex, todo>>

(* RemovePlayer, then the range over those left, if any; a range never     *)
(* produces an entry that is removed before it is reached.                 *)
LeaveRemovePlayer(t) ==
  LET p == call[t].player
      o == call[t].room
      left == members[o] \ {p}
  IN  /\ At(t, "leave.remove")
      /\ RoomLockFree(o)
      /\ members' = [members EXCEPT ![o] = left]
      /\ todo' = [u \in Threads |-> IF u = t THEN left
                                   ELSE IF u \in Ranging(o) THEN todo[u] \ {p}
                                   ELSE todo[u]]
      /\ Goto(t, "leave.status")
      /\ UNCHANGED <<BattleRooms, PlayerInRoom, locks>>

LeaveBroadcastStatus(t) == NotifyNext(t, "leave.status")

(* The test len(room.Players) == 0, read without the room's lock.          *)
LeaveCheckEmpty(t) ==
  /\ At(t, "leave.status")
  /\ todo[t] = {}
  /\ \/ /\ members[call[t].room] = {}
        /\ Goto(t, "leave.delete")
        /\ UNCHANGED RoomsMutex
     \/ /\ members[call[t].room] # {}
        /\ RoomsMutex' = Nil
        /\ Goto(t, "leave.reply")
  /\ UNCHANGED <<maps, PlayersMutex, todo>>

(* room.Stop() waits for the room's lock; then the entry is deleted.       *)
LeaveDeleteRoom(t) ==
  /\ At(t, "leave.delete")
  /\ RoomLockFree(call[t].room)
  /\ BattleRooms' = [BattleRooms EXCEPT ![call[t].roomID] = Nil]
  /\ RoomsMutex' = Nil
  /\ Goto(t, "leave.reply")
  /\ UNCHANGED <<PlayerInRoom, members, PlayersMutex, todo>>

(* Lists the remaining players, with no lock held, and returns.            *)
LeaveReply(t) ==
  /\ At(t, "leave.reply")
  /\ Return(t)
  /\ UNCHANGED <<maps, locks, todo>>

-----------------------------------------------------------------------------
(* The Go runtime kills a process that it sees ranging over a map while    *)
(* another goroutine writes it.  The container is restarted, and the new   *)
(* process starts from empty maps.                                         *)
FatalMapRace ==
  /\ \E t, u \in Threads :
       /\ t # u
       /\ \/ t \in Ranging(call[u].room)
          \/ At(t, "leave.reply") /\ call[t].room = call[u].room
       /\ call[u].pc \in {"join.add", "leave.remove"}
       /\ RoomLockFree(call[u].room)
  /\ BattleRooms'  = [r \in RoomIds |-> Nil]
  /\ PlayerInRoom' = [p \in Players |-> Nil]
  /\ members'      = [o \in Rooms |-> {}]
  /\ RoomsMutex'   = Nil
  /\ PlayersMutex' = Nil
  /\ call'         = [t \in Threads |-> NoCall]
  /\ todo'         = [t \in Threads |-> {}]

Request(t) ==
  \E p \in Players :
    \/ CreateRoomCall(t, p)
    \/ \E r \in RoomIds : JoinRoomCall(t, p, r)
    \/ LeaveRoomCall(t, p)

Step(t) ==
  \/ CreateLockRooms(t)
  \/ CreateRoom(t)
  \/ JoinLookup(t)
  \/ JoinAddPlayer(t)
  \/ JoinMapPlayer(t)
  \/ JoinBroadcastStatus(t)
  \/ JoinLockRoom(t)
  \/ JoinSendPosition(t)
  \/ JoinReturn(t)
  \/ LeaveUnmap(t)
  \/ LeaveLockRooms(t)
  \/ LeaveRemovePlayer(t)
  \/ LeaveBroadcastStatus(t)
  \/ LeaveCheckEmpty(t)
  \/ LeaveDeleteRoom(t)
  \/ LeaveReply(t)

Next == FatalMapRace \/ \E t \in Threads : Request(t) \/ Step(t)

Spec == Init /\ [][Next]_vars

(* A goroutine that can run does, and Go's mutexes hand the lock to the    *)
(* goroutine that has waited longest: a step enabled again and again is    *)
(* taken.  Requests are never forced.                                      *)
FairSpec == Spec /\ \A t \in Threads : SF_vars(Step(t))

-----------------------------------------------------------------------------
(* Every variable keeps its type, and a handler that is past its lookup    *)
(* has a player, a room id and a room object to work on, never Nil.        *)
TypeOK ==
  /\ BattleRooms  \in [RoomIds -> Rooms \cup {Nil}]
  /\ PlayerInRoom \in [Players -> RoomIds \cup {Nil}]
  /\ members      \in [Rooms -> SUBSET Players]
  /\ RoomsMutex   \in Threads \cup {Nil}
  /\ PlayersMutex \in Threads \cup {Nil}
  /\ call         \in [Threads -> Call]
  /\ todo         \in [Threads -> SUBSET Players]
  /\ \A t \in Threads :
       /\ call[t].pc # "idle" => call[t].player \in Players
       /\ call[t].pc \in HasRoomID => call[t].roomID \in RoomIds
       /\ call[t].pc \in HasRoom => call[t].room \in Rooms

(* GetRoomListRpc never shows an empty room: whenever its read lock can be *)
(* had, every listed room has a member, although LeaveRoomRpc empties a    *)
(* room and unlists it in separate steps and other calls hold pointers.    *)
ListedRoomHasMembers ==
  CanReadRooms => \A r \in DOMAIN RoomList : RoomList[r] # {}

(* A player that is in a listed room and has no call in flight is mapped   *)
(* to that room, so its LeaveRoomRpc will find it (serial clients).        *)
ListedMemberIsMapped ==
  \A r \in RoomIds, p \in Players :
    /\ BattleRooms[r] # Nil
    /\ p \in members[BattleRooms[r]]
    /\ ~InFlight(p)
    => PlayerInRoom[p] = r

(* CreateRoomRpc takes an existing room off the list only when its creator *)
(* is no longer a member of it (serial clients).                           *)
CreatorHasLeftReplacedRoom ==
  [][\A p \in Players :
       LET o == BattleRooms[FormatUint(p)]
       IN  o # Nil /\ BattleRooms'[FormatUint(p)] \notin {o, Nil}
           => p \notin members[o]]_vars

(* Every call returns: the handlers take RoomsMutex, PlayersMutex and the  *)
(* room's mutex in orders that cannot close a cycle, and what they do      *)
(* under them ends.                                                        *)
EveryCallReturns == \A t \in Threads : ~At(t, "idle") ~> At(t, "idle")

InRoom(p) ==
  /\ PlayerInRoom[p] # Nil
  /\ BattleRooms[PlayerInRoom[p]] # Nil
  /\ p \in members[BattleRooms[PlayerInRoom[p]]]

(* PlayerInRoom is the map from a player to its room: a create by one      *)
(* player takes no other player out of the room it is mapped to.  The code *)
(* does not keep this: a room id is reused while others are in the room.   *)
CreateKeepsOthersInRoom ==
  [][(\E t \in Threads : CreateRoom(t))
     => \A p \in Players : InRoom(p) => InRoom(p)']_vars

(* "If the room has no players left, delete it": a room is taken off the   *)
(* list only when it is empty.                                             *)
OnlyEmptyRoomIsDeleted ==
  [][(\E t \in Threads : LeaveDeleteRoom(t))
     => \A r \in RoomIds :
          BattleRooms[r] # Nil /\ BattleRooms'[r] = Nil
          => members[BattleRooms[r]] = {}]_vars
-----------------------------------------------------------------------------
(* The inductive invariant behind ListedRoomHasMembers, conjunct by        *)
(* conjunct.  It is checked and proved, never assumed.                     *)

(* A thread holds RoomsMutex exactly between the lock and the unlock. *)
HoldsRooms == {"create.lockPlayers", "leave.remove", "leave.status",
               "leave.delete"}

RoomsMutexHolder ==
  \A t \in Threads : RoomsMutex = t <=> call[t].pc \in HoldsRooms

(* While LeaveRoomRpc holds RoomsMutex its room stays listed under its id. *)
LeavingRoomIsListed ==
  \A t \in Threads :
    call[t].pc \in HoldsRooms \ {"create.lockPlayers"}
    => BattleRooms[call[t].roomID] = call[t].room

(* No object is listed under two ids. *)
OneIdPerRoom ==
  \A r, s \in RoomIds :
    BattleRooms[r] # Nil /\ BattleRooms[r] = BattleRooms[s] => r = s

(* Nothing else points to the object a CreateRoomRpc is about to list. *)
CreatedRoomIsFresh ==
  \A t \in Threads :
    call[t].pc \in CreatePCs
    => /\ \A r \in RoomIds : BattleRooms[r] # call[t].room
       /\ \A u \in Threads \ {t} : call[u].room # call[t].room

(* A listed room without members is about to be looked at by the           *)
(* LeaveRoomRpc that emptied it.                                           *)
EmptyRoomIsBeingLeft ==
  \A r \in RoomIds :
    BattleRooms[r] # Nil /\ members[BattleRooms[r]] = {}
    => \E t \in Threads : /\ call[t].pc \in {"leave.status", "leave.delete"}
                          /\ call[t].room = BattleRooms[r]

DirectoryInv ==
  /\ TypeOK
  /\ RoomsMutexHolder
  /\ LeavingRoomIsListed
  /\ OneIdPerRoom
  /\ CreatedRoomIsFresh
  /\ EmptyRoomIsBeingLeft

-----------------------------------------------------------------------------
(* What serial clients add: the inductive invariant behind                 *)
(* ListedMemberIsMapped and CreatorHasLeftReplacedRoom.                    *)

OneCallEach ==
  \A t, u \in Threads :
    /\ t # u
    /\ call[t].pc # "idle" /\ call[u].pc # "idle"
    => call[t].player # call[u].player

(* A player that is entering a room is mapped to none, and creates the     *)
(* room that is named after it.                                            *)
EntrantIsUnmapped ==
  \A t \in Threads :
    /\ call[t].pc \in CreatePCs \cup {"join.lookup", "join.add", "join.map"}
       => PlayerInRoom[call[t].player] = Nil
    /\ call[t].pc \in CreatePCs => call[t].roomID = FormatUint(call[t].player)

(* The object a join has looked up is not listed under another id by the   *)
(* time the player is added to it.                                         *)
JoinedById ==
  \A t \in Threads :
    call[t].pc = "join.add"
    => \A r \in RoomIds : BattleRooms[r] = call[t].room => r = call[t].roomID

(* A member of a listed room is mapped to it, or its call has yet to map   *)
(* it or to remove it.                                                     *)
OnItsWay(p, r) ==
  \E t \in Threads : /\ call[t].pc \in {"join.map", "leave.lockRooms", "leave.remove"}
                     /\ call[t].player = p
                     /\ call[t].roomID = r

MemberIsMapped ==
  \A r \in RoomIds, p \in Players :
    BattleRooms[r] # Nil /\ p \in members[BattleRooms[r]]
    => PlayerInRoom[p] = r \/ OnItsWay(p, r)

SerialInv ==
  DirectoryInv /\ OneCallEach /\ EntrantIsUnmapped /\ JoinedById /\ MemberIsMapped
=============================================================================
