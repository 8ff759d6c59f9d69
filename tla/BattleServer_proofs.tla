------------------------ MODULE BattleServer_proofs ------------------------
(* The directory for any number of players, room objects and calls in      *)
(* flight: TypeOK and ListedRoomHasMembers whatever clients do, and for    *)
(* clients that wait for their answers, ListedMemberIsMapped and           *)
(* CreatorHasLeftReplacedRoom.  At the end, the rooms themselves: that     *)
(* nobody is left with an old position (RoomPositions).                    *)
EXTENDS BattleServer, RoomPositions, TLAPS

(* Every variable of the directory keeps its type, and a handler past its  *)
(* lookup has the player, room id and object it works on.                  *)
LEMMA InitTypeOK == Init => TypeOK
BY BattleServerAssumption
   DEF Init, TypeOK, Call, NoCall, CreatePCs, JoinPCs, LeavePCs, HasRoom, HasRoomID

THEOREM TypeCorrect == Spec => []TypeOK
<1> USE BattleServerAssumption
        DEF TypeOK, Call, NoCall, CreatePCs, JoinPCs, LeavePCs, HasRoom, HasRoomID
<1>1. Init => TypeOK
  BY InitTypeOK
<1>2. TypeOK /\ [Next]_vars => TypeOK'
  <2> SUFFICES ASSUME TypeOK, [Next]_vars
               PROVE  TypeOK'
    OBVIOUS
  <2> USE DEF maps, locks, At, Goto, Return
  <2>1. ASSUME NEW t \in Threads, NEW p \in Players, CreateRoomCall(t, p)
        PROVE  TypeOK'
    BY <2>1 DEF CreateRoomCall, Begin, RoomIds
  <2>2. ASSUME NEW t \in Threads, NEW p \in Players, NEW r \in RoomIds,
               JoinRoomCall(t, p, r)
        PROVE  TypeOK'
    BY <2>2 DEF JoinRoomCall, Begin
  <2>3. ASSUME NEW t \in Threads, NEW p \in Players, LeaveRoomCall(t, p)
        PROVE  TypeOK'
    BY <2>3 DEF LeaveRoomCall, Begin
  <2>4. ASSUME NEW t \in Threads, CreateLockRooms(t)
        PROVE  TypeOK'
    BY <2>4 DEF CreateLockRooms
  <2>5. ASSUME NEW t \in Threads, CreateRoom(t)
        PROVE  TypeOK'
    BY <2>5, SMTT(20) DEF CreateRoom
  <2>6. ASSUME NEW t \in Threads, JoinLookup(t)
        PROVE  TypeOK'
    <3> USE <2>6 DEF JoinLookup
    <3>1. CASE BattleRooms[call[t].roomID] = Nil
      BY <3>1, SMTT(20)
    <3>2. CASE BattleRooms[call[t].roomID] # Nil
      <4>1. BattleRooms[call[t].roomID] \in Rooms
        BY <3>2
      <4> QED
        BY <3>2, <4>1, SMTT(20)
    <3> QED
      BY <3>1, <3>2
  <2>7. ASSUME NEW t \in Threads, JoinAddPlayer(t)
        PROVE  TypeOK'
    BY <2>7 DEF JoinAddPlayer
  <2>8. ASSUME NEW t \in Threads, JoinMapPlayer(t)
        PROVE  TypeOK'
    BY <2>8 DEF JoinMapPlayer
  <2>9. ASSUME NEW t \in Threads, JoinBroadcastStatus(t)
        PROVE  TypeOK'
    BY <2>9 DEF JoinBroadcastStatus, NotifyNext
  <2>10. ASSUME NEW t \in Threads, JoinLockRoom(t)
        PROVE  TypeOK'
    BY <2>10, SMTT(20) DEF JoinLockRoom
  <2>11. ASSUME NEW t \in Threads, JoinSendPosition(t)
        PROVE  TypeOK'
    BY <2>11 DEF JoinSendPosition, NotifyNext
  <2>12. ASSUME NEW t \in Threads, JoinReturn(t)
        PROVE  TypeOK'
    BY <2>12 DEF JoinReturn
  <2>13. ASSUME NEW t \in Threads, LeaveUnmap(t)
        PROVE  TypeOK'
    <3> USE <2>13 DEF LeaveUnmap
    <3>1. CASE PlayerInRoom[call[t].player] = Nil
      BY <3>1
    <3>2. CASE PlayerInRoom[call[t].player] # Nil
      <4> DEFINE r == PlayerInRoom[call[t].player]
      <4>1. r \in RoomIds /\ call[t].player \in Players
        BY <3>2
      <4>2. call' = [call EXCEPT ![t] = [call[t] EXCEPT !.pc = "leave.lockRooms",
                                                        !.roomID = r]]
        BY <3>2
      <4>3. PlayerInRoom' = [PlayerInRoom EXCEPT ![call[t].player] = Nil]
        BY <3>2
      <4> HIDE DEF r
      <4> QED
        BY <4>1, <4>2, <4>3
    <3> QED
      BY <3>1, <3>2
  <2>14. ASSUME NEW t \in Threads, LeaveLockRooms(t)
        PROVE  TypeOK'
    <3> USE <2>14 DEF LeaveLockRooms
    <3>1. CASE BattleRooms[call[t].roomID] = Nil
      BY <3>1
    <3>2. CASE BattleRooms[call[t].roomID] # Nil
      <4>1. BattleRooms[call[t].roomID] \in Rooms
        BY <3>2
      <4> QED
        BY <3>2, <4>1, SMTT(60)
    <3> QED
      BY <3>1, <3>2
  <2>15. ASSUME NEW t \in Threads, LeaveRemovePlayer(t)
        PROVE  TypeOK'
    BY <2>15 DEF LeaveRemovePlayer
  <2>16. ASSUME NEW t \in Threads, LeaveBroadcastStatus(t)
        PROVE  TypeOK'
    BY <2>16 DEF LeaveBroadcastStatus, NotifyNext
  <2>17. ASSUME NEW t \in Threads, LeaveCheckEmpty(t)
        PROVE  TypeOK'
    <3>1. \E pc \in {"leave.delete", "leave.reply"} :
            call' = [call EXCEPT ![t].pc = pc]
      BY <2>17 DEF LeaveCheckEmpty
    <3>2. call[t].pc = "leave.status" /\ RoomsMutex' \in {RoomsMutex, Nil}
      BY <2>17 DEF LeaveCheckEmpty
    <3>3. UNCHANGED <<maps, PlayersMutex, todo>>
      BY <2>17 DEF LeaveCheckEmpty
    <3> QED
      BY <3>1, <3>2, <3>3
  <2>18. ASSUME NEW t \in Threads, LeaveDeleteRoom(t)
        PROVE  TypeOK'
    BY <2>18 DEF LeaveDeleteRoom
  <2>19. ASSUME NEW t \in Threads, LeaveReply(t)
        PROVE  TypeOK'
    BY <2>19 DEF LeaveReply
  <2>20. CASE FatalMapRace
    BY <2>20 DEF FatalMapRace
  <2>21. CASE UNCHANGED vars
    BY <2>21 DEF vars
  <2> QED
    BY <2>1, <2>2, <2>3, <2>4, <2>5, <2>6, <2>7, <2>8, <2>9, <2>10, <2>11, <2>12, <2>13, <2>14, <2>15, <2>16, <2>17, <2>18, <2>19, <2>20, <2>21
    DEF Next, Request, Step
<1> QED
  BY <1>1, <1>2, PTL DEF Spec
(* A step that starts no create, points no call to an object that is not   *)
(* listed and lists nothing keeps the objects being created fresh.         *)
LEMMA FreshRoomKept ==
  ASSUME TypeOK, TypeOK', CreatedRoomIsFresh,
         \A u \in Threads : call'[u].pc \in CreatePCs
                            => call[u].pc \in CreatePCs /\ call'[u].room = call[u].room,
         \A u \in Threads : \/ call'[u].room \in {call[u].room, Nil}
                            \/ \E r \in RoomIds : call'[u].room = BattleRooms[r],
         \A r \in RoomIds : BattleRooms'[r] \in {BattleRooms[r], Nil}
  PROVE  CreatedRoomIsFresh'
<1> SUFFICES ASSUME NEW t \in Threads, call'[t].pc \in CreatePCs
             PROVE  /\ \A r \in RoomIds : BattleRooms'[r] # call'[t].room
                    /\ \A u \in Threads \ {t} : call'[u].room # call'[t].room
  BY DEF CreatedRoomIsFresh
<1>1. call[t].pc \in CreatePCs /\ call'[t].room = call[t].room
  OBVIOUS
<1>2. call[t].room \in Rooms /\ call[t].room # Nil
  BY <1>1, BattleServerAssumption DEF TypeOK, HasRoom
<1>3. /\ \A r \in RoomIds : BattleRooms[r] # call[t].room
      /\ \A u \in Threads \ {t} : call[u].room # call[t].room
  BY <1>1 DEF CreatedRoomIsFresh
<1> QED
  BY <1>1, <1>2, <1>3

(* The directory invariant is inductive. *)
THEOREM DirectoryCorrect == Spec => []DirectoryInv
<1> USE BattleServerAssumption DEF CreatePCs, HoldsRooms
<1>1. Init => DirectoryInv
  <2> SUFFICES ASSUME Init, TypeOK PROVE DirectoryInv
    BY InitTypeOK
  <2> QED
    BY DEF Init, NoCall, DirectoryInv, RoomsMutexHolder, LeavingRoomIsListed,
           OneIdPerRoom, CreatedRoomIsFresh, EmptyRoomIsBeingLeft
<1>2. DirectoryInv /\ TypeOK' /\ [Next]_vars => DirectoryInv'
  <2> SUFFICES ASSUME DirectoryInv, TypeOK', [Next]_vars
               PROVE  DirectoryInv'
    OBVIOUS
  <2> USE DEF DirectoryInv, maps, locks, At, Goto, Return, NoCall, TypeOK, Call, JoinPCs, LeavePCs, HasRoom, HasRoomID
  <2>1. ASSUME NEW t \in Threads, NEW p \in Players, CreateRoomCall(t, p)
        PROVE  DirectoryInv'
    <3>1. RoomsMutexHolder'
      BY <2>1 DEF CreateRoomCall, Begin, Unused, RoomsMutexHolder
    <3>2. LeavingRoomIsListed'
      BY <2>1 DEF CreateRoomCall, Begin, Unused, LeavingRoomIsListed
    <3>3. OneIdPerRoom'
      BY <2>1 DEF CreateRoomCall, Begin, Unused, OneIdPerRoom
    <3>4. CreatedRoomIsFresh'
      BY <2>1 DEF CreateRoomCall, Begin, Unused, CreatedRoomIsFresh
    <3>5. EmptyRoomIsBeingLeft'
      BY <2>1 DEF CreateRoomCall, Begin, Unused, EmptyRoomIsBeingLeft
    <3> QED
      BY <3>1, <3>2, <3>3, <3>4, <3>5
  <2>2. ASSUME NEW t \in Threads, NEW p \in Players, NEW r \in RoomIds,
               JoinRoomCall(t, p, r)
        PROVE  DirectoryInv'
    <3>1. RoomsMutexHolder'
      BY <2>2 DEF JoinRoomCall, Begin, RoomsMutexHolder
    <3>2. LeavingRoomIsListed'
      BY <2>2 DEF JoinRoomCall, Begin, LeavingRoomIsListed
    <3>3. OneIdPerRoom'
      BY <2>2 DEF JoinRoomCall, Begin, OneIdPerRoom
    <3>4. CreatedRoomIsFresh'
      BY <2>2 DEF JoinRoomCall, Begin, CreatedRoomIsFresh
    <3>5. EmptyRoomIsBeingLeft'
      BY <2>2 DEF JoinRoomCall, Begin, EmptyRoomIsBeingLeft
    <3> QED
      BY <3>1, <3>2, <3>3, <3>4, <3>5
  <2>3. ASSUME NEW t \in Threads, NEW p \in Players, LeaveRoomCall(t, p)
        PROVE  DirectoryInv'
    <3>1. RoomsMutexHolder'
      BY <2>3 DEF LeaveRoomCall, Begin, RoomsMutexHolder
    <3>2. LeavingRoomIsListed'
      BY <2>3 DEF LeaveRoomCall, Begin, LeavingRoomIsListed
    <3>3. OneIdPerRoom'
      BY <2>3 DEF LeaveRoomCall, Begin, OneIdPerRoom
    <3>4. CreatedRoomIsFresh'
      BY <2>3 DEF LeaveRoomCall, Begin, CreatedRoomIsFresh
    <3>5. EmptyRoomIsBeingLeft'
      BY <2>3 DEF LeaveRoomCall, Begin, EmptyRoomIsBeingLeft
    <3> QED
      BY <3>1, <3>2, <3>3, <3>4, <3>5
  <2>4. ASSUME NEW t \in Threads, CreateLockRooms(t)
        PROVE  DirectoryInv'
    <3>1. RoomsMutexHolder'
      BY <2>4 DEF CreateLockRooms, RoomsMutexHolder
    <3>2. LeavingRoomIsListed'
      BY <2>4 DEF CreateLockRooms, LeavingRoomIsListed
    <3>3. OneIdPerRoom'
      BY <2>4 DEF CreateLockRooms, OneIdPerRoom
    <3>4. CreatedRoomIsFresh'
      BY <2>4 DEF CreateLockRooms, CreatedRoomIsFresh
    <3>5. EmptyRoomIsBeingLeft'
      BY <2>4 DEF CreateLockRooms, EmptyRoomIsBeingLeft
    <3> QED
      BY <3>1, <3>2, <3>3, <3>4, <3>5
  <2>5. ASSUME NEW t \in Threads, CreateRoom(t)
        PROVE  DirectoryInv'
    <3> DEFINE p == call[t].player
               r == call[t].roomID
               o == call[t].room
    <3>a. \A u \in Threads : call[u].pc \in HoldsRooms => u = t
      BY <2>5 DEF CreateRoom, RoomsMutexHolder
    <3>b. /\ o \in Rooms /\ r \in RoomIds /\ p \in Players
          /\ \A s \in RoomIds : BattleRooms[s] # o
      BY <2>5 DEF CreateRoom, CreatedRoomIsFresh
    <3>1. RoomsMutexHolder'
      BY <2>5 DEF CreateRoom, RoomsMutexHolder
    <3>2. LeavingRoomIsListed'
      BY <2>5, <3>a DEF CreateRoom, LeavingRoomIsListed
    <3>3. OneIdPerRoom'
      <4>1. CASE PlayerInRoom[p] # Nil
        BY <2>5, <4>1 DEF CreateRoom, OneIdPerRoom
      <4>2. CASE PlayerInRoom[p] = Nil
        BY <2>5, <3>b, <4>2 DEF CreateRoom, OneIdPerRoom
      <4> QED
        BY <4>1, <4>2
    <3>4. CreatedRoomIsFresh'
      BY <2>5 DEF CreateRoom, CreatedRoomIsFresh
    <3>5. EmptyRoomIsBeingLeft'
      <4>1. \A s \in RoomIds : BattleRooms[s] # Nil => members[BattleRooms[s]] # {}
        BY <2>5, <3>a DEF CreateRoom, EmptyRoomIsBeingLeft
      <4>2. CASE PlayerInRoom[p] # Nil
        BY <2>5, <4>1, <4>2 DEF CreateRoom, EmptyRoomIsBeingLeft
      <4>3. CASE PlayerInRoom[p] = Nil
        <5>1. members'[o] = {p} /\ BattleRooms'[r] = o
          BY <2>5, <3>b, <4>3 DEF CreateRoom
        <5>2. \A s \in RoomIds \ {r} :
                BattleRooms'[s] = BattleRooms[s]
                /\ (BattleRooms[s] # Nil => members'[BattleRooms[s]] = members[BattleRooms[s]])
          BY <2>5, <3>b, <4>3 DEF CreateRoom
        <5>3. \A s \in RoomIds : BattleRooms'[s] # Nil
                                => members'[BattleRooms'[s]] # {}
          <6> SUFFICES ASSUME NEW s \in RoomIds, BattleRooms'[s] # Nil
                       PROVE  members'[BattleRooms'[s]] # {}
            OBVIOUS
          <6>1. CASE s = r
            BY <5>1, <6>1
          <6>2. CASE s # r
            BY <4>1, <5>2, <6>2
          <6> QED
            BY <6>1, <6>2
        <5> QED
          BY <5>3 DEF EmptyRoomIsBeingLeft
      <4> QED
        BY <4>2, <4>3
    <3> QED
      BY <3>1, <3>2, <3>3, <3>4, <3>5
  <2>6. ASSUME NEW t \in Threads, JoinLookup(t)
        PROVE  DirectoryInv'
    <3>1. RoomsMutexHolder'
      BY <2>6 DEF JoinLookup, CanReadRooms, RoomsMutexHolder
    <3>2. LeavingRoomIsListed'
      BY <2>6, SMTT(20) DEF JoinLookup, CanReadRooms, LeavingRoomIsListed
    <3>3. OneIdPerRoom'
      BY <2>6 DEF JoinLookup, CanReadRooms, OneIdPerRoom
    <3>4. CreatedRoomIsFresh'
      BY <2>6, SMTT(60) DEF JoinLookup, CanReadRooms, CreatedRoomIsFresh
    <3>5. EmptyRoomIsBeingLeft'
      <4>1. \A u \in Threads : call'[u].pc \in {"leave.status", "leave.delete"}
                               <=> call[u].pc \in {"leave.status", "leave.delete"}
        BY <2>6 DEF JoinLookup
      <4>2. \A u \in Threads : call[u].pc \in {"leave.status", "leave.delete"}
                               => call'[u].room = call[u].room
        BY <2>6 DEF JoinLookup
      <4> QED
        BY <2>6, <4>1, <4>2 DEF JoinLookup, EmptyRoomIsBeingLeft
    <3> QED
      BY <3>1, <3>2, <3>3, <3>4, <3>5
  <2>7. ASSUME NEW t \in Threads, JoinAddPlayer(t)
        PROVE  DirectoryInv'
    <3>1. RoomsMutexHolder'
      BY <2>7 DEF JoinAddPlayer, RoomsMutexHolder
    <3>2. LeavingRoomIsListed'
      BY <2>7 DEF JoinAddPlayer, LeavingRoomIsListed
    <3>3. OneIdPerRoom'
      BY <2>7 DEF JoinAddPlayer, OneIdPerRoom
    <3>4. CreatedRoomIsFresh'
      BY <2>7 DEF JoinAddPlayer, CreatedRoomIsFresh
    <3>5. EmptyRoomIsBeingLeft'
      BY <2>7 DEF JoinAddPlayer, EmptyRoomIsBeingLeft
    <3> QED
      BY <3>1, <3>2, <3>3, <3>4, <3>5
  <2>8. ASSUME NEW t \in Threads, JoinMapPlayer(t)
        PROVE  DirectoryInv'
    <3>1. RoomsMutexHolder'
      BY <2>8 DEF JoinMapPlayer, RoomsMutexHolder
    <3>2. LeavingRoomIsListed'
      BY <2>8 DEF JoinMapPlayer, LeavingRoomIsListed
    <3>3. OneIdPerRoom'
      BY <2>8 DEF JoinMapPlayer, OneIdPerRoom
    <3>4. CreatedRoomIsFresh'
      BY <2>8 DEF JoinMapPlayer, CreatedRoomIsFresh
    <3>5. EmptyRoomIsBeingLeft'
      BY <2>8 DEF JoinMapPlayer, EmptyRoomIsBeingLeft
    <3> QED
      BY <3>1, <3>2, <3>3, <3>4, <3>5
  <2>9. ASSUME NEW t \in Threads, JoinBroadcastStatus(t)
        PROVE  DirectoryInv'
    <3>1. UNCHANGED <<BattleRooms, PlayerInRoom, members, RoomsMutex, PlayersMutex, call>>
      BY <2>9 DEF JoinBroadcastStatus, NotifyNext
    <3> QED
      BY <3>1 DEF RoomsMutexHolder, LeavingRoomIsListed, OneIdPerRoom,
                  CreatedRoomIsFresh, EmptyRoomIsBeingLeft
  <2>10. ASSUME NEW t \in Threads, JoinLockRoom(t)
        PROVE  DirectoryInv'
    <3>1. RoomsMutexHolder'
      BY <2>10 DEF JoinLockRoom, RoomsMutexHolder
    <3>2. LeavingRoomIsListed'
      BY <2>10 DEF JoinLockRoom, LeavingRoomIsListed
    <3>3. OneIdPerRoom'
      BY <2>10 DEF JoinLockRoom, OneIdPerRoom
    <3>4. CreatedRoomIsFresh'
      BY <2>10 DEF JoinLockRoom, CreatedRoomIsFresh
    <3>5. EmptyRoomIsBeingLeft'
      BY <2>10 DEF JoinLockRoom, EmptyRoomIsBeingLeft
    <3> QED
      BY <3>1, <3>2, <3>3, <3>4, <3>5
  <2>11. ASSUME NEW t \in Threads, JoinSendPosition(t)
        PROVE  DirectoryInv'
    <3>1. UNCHANGED <<BattleRooms, PlayerInRoom, members, RoomsMutex, PlayersMutex, call>>
      BY <2>11 DEF JoinSendPosition, NotifyNext
    <3> QED
      BY <3>1 DEF RoomsMutexHolder, LeavingRoomIsListed, OneIdPerRoom,
                  CreatedRoomIsFresh, EmptyRoomIsBeingLeft
  <2>12. ASSUME NEW t \in Threads, JoinReturn(t)
        PROVE  DirectoryInv'
    <3>1. RoomsMutexHolder'
      BY <2>12 DEF JoinReturn, RoomsMutexHolder
    <3>2. LeavingRoomIsListed'
      BY <2>12 DEF JoinReturn, LeavingRoomIsListed
    <3>3. OneIdPerRoom'
      BY <2>12 DEF JoinReturn, OneIdPerRoom
    <3>4. CreatedRoomIsFresh'
      BY <2>12 DEF JoinReturn, CreatedRoomIsFresh
    <3>5. EmptyRoomIsBeingLeft'
      BY <2>12 DEF JoinReturn, EmptyRoomIsBeingLeft
    <3> QED
      BY <3>1, <3>2, <3>3, <3>4, <3>5
  <2>13. ASSUME NEW t \in Threads, LeaveUnmap(t)
        PROVE  DirectoryInv'
    <3>1. RoomsMutexHolder'
      BY <2>13, SMTT(20) DEF LeaveUnmap, RoomsMutexHolder
    <3>2. LeavingRoomIsListed'
      BY <2>13 DEF LeaveUnmap, LeavingRoomIsListed
    <3>3. OneIdPerRoom'
      BY <2>13 DEF LeaveUnmap, OneIdPerRoom
    <3>4. CreatedRoomIsFresh'
      <4>1. \A u \in Threads : call'[u].pc \in CreatePCs
                               => call[u].pc \in CreatePCs /\ call'[u].room = call[u].room
        BY <2>13 DEF LeaveUnmap
      <4>2. \A u \in Threads : \/ call'[u].room \in {call[u].room, Nil}
                               \/ \E r \in RoomIds : call'[u].room = BattleRooms[r]
        BY <2>13 DEF LeaveUnmap
      <4>3. \A r \in RoomIds : BattleRooms'[r] \in {BattleRooms[r], Nil}
        BY <2>13 DEF LeaveUnmap
      <4> QED
        BY <4>1, <4>2, <4>3, FreshRoomKept
    <3>5. EmptyRoomIsBeingLeft'
      BY <2>13, SMTT(60) DEF LeaveUnmap, EmptyRoomIsBeingLeft
    <3> QED
      BY <3>1, <3>2, <3>3, <3>4, <3>5
  <2>14. ASSUME NEW t \in Threads, LeaveLockRooms(t)
        PROVE  DirectoryInv'
    <3>1. RoomsMutexHolder'
      BY <2>14, SMTT(20) DEF LeaveLockRooms, RoomsMutexHolder
    <3>2. LeavingRoomIsListed'
      BY <2>14, SMTT(20) DEF LeaveLockRooms, LeavingRoomIsListed
    <3>3. OneIdPerRoom'
      BY <2>14 DEF LeaveLockRooms, OneIdPerRoom
    <3>4. CreatedRoomIsFresh'
      <4>1. \A u \in Threads : call'[u].pc \in CreatePCs
                               => call[u].pc \in CreatePCs /\ call'[u].room = call[u].room
        BY <2>14 DEF LeaveLockRooms
      <4>2. \A u \in Threads : \/ call'[u].room \in {call[u].room, Nil}
                               \/ \E r \in RoomIds : call'[u].room = BattleRooms[r]
        BY <2>14 DEF LeaveLockRooms
      <4>3. \A r \in RoomIds : BattleRooms'[r] \in {BattleRooms[r], Nil}
        BY <2>14 DEF LeaveLockRooms
      <4> QED
        BY <4>1, <4>2, <4>3, FreshRoomKept
    <3>5. EmptyRoomIsBeingLeft'
      <4>1. \A u \in Threads : call'[u].pc \in {"leave.status", "leave.delete"}
                               <=> call[u].pc \in {"leave.status", "leave.delete"}
        BY <2>14 DEF LeaveLockRooms
      <4>2. \A u \in Threads : call[u].pc \in {"leave.status", "leave.delete"}
                               => call'[u].room = call[u].room
        BY <2>14 DEF LeaveLockRooms
      <4> QED
        BY <2>14, <4>1, <4>2 DEF LeaveLockRooms, EmptyRoomIsBeingLeft
    <3> QED
      BY <3>1, <3>2, <3>3, <3>4, <3>5
  <2>15. ASSUME NEW t \in Threads, LeaveRemovePlayer(t)
        PROVE  DirectoryInv'
    <3>b. \A u \in Threads :
            /\ call'[u].pc = IF u = t THEN "leave.status" ELSE call[u].pc
            /\ call'[u].roomID = call[u].roomID
            /\ call'[u].room = call[u].room
      BY <2>15 DEF LeaveRemovePlayer
    <3>c. call[t].pc = "leave.remove" /\ UNCHANGED <<BattleRooms, RoomsMutex>>
      BY <2>15 DEF LeaveRemovePlayer
    <3>1. RoomsMutexHolder'
      BY <3>b, <3>c DEF RoomsMutexHolder
    <3>2. LeavingRoomIsListed'
      BY <3>b, <3>c, SMTT(20) DEF LeavingRoomIsListed
    <3>3. OneIdPerRoom'
      BY <3>c DEF OneIdPerRoom
    <3>4. CreatedRoomIsFresh'
      BY <3>b, <3>c DEF CreatedRoomIsFresh
    <3>5. EmptyRoomIsBeingLeft'
      <4> DEFINE o == call[t].room
                 left == members[o] \ {call[t].player}
      <4>1. members' = [members EXCEPT ![o] = left] /\ o \in Rooms
        BY <2>15 DEF LeaveRemovePlayer
      <4> SUFFICES ASSUME NEW r \in RoomIds, BattleRooms[r] # Nil,
                          members'[BattleRooms[r]] = {}
                   PROVE  \E u \in Threads :
                            /\ call'[u].pc \in {"leave.status", "leave.delete"}
                            /\ call'[u].room = BattleRooms[r]
        BY <3>c DEF EmptyRoomIsBeingLeft
      <4>3. CASE BattleRooms[r] = o
        BY <3>b, <4>3
      <4>4. CASE BattleRooms[r] # o
        <5>1. members[BattleRooms[r]] = {}
          BY <4>1, <4>4
        <5> QED
          BY <3>b, <3>c, <5>1 DEF EmptyRoomIsBeingLeft
      <4> QED
        BY <4>3, <4>4
    <3> QED
      BY <3>1, <3>2, <3>3, <3>4, <3>5
  <2>16. ASSUME NEW t \in Threads, LeaveBroadcastStatus(t)
        PROVE  DirectoryInv'
    <3>1. UNCHANGED <<BattleRooms, PlayerInRoom, members, RoomsMutex, PlayersMutex, call>>
      BY <2>16 DEF LeaveBroadcastStatus, NotifyNext
    <3> QED
      BY <3>1 DEF RoomsMutexHolder, LeavingRoomIsListed, OneIdPerRoom,
                  CreatedRoomIsFresh, EmptyRoomIsBeingLeft
  <2>17. ASSUME NEW t \in Threads, LeaveCheckEmpty(t)
        PROVE  DirectoryInv'
    <3>1. RoomsMutexHolder'
      BY <2>17 DEF LeaveCheckEmpty, RoomsMutexHolder
    <3>2. LeavingRoomIsListed'
      BY <2>17, SMTT(60) DEF LeaveCheckEmpty, LeavingRoomIsListed
    <3>3. OneIdPerRoom'
      BY <2>17 DEF LeaveCheckEmpty, OneIdPerRoom
    <3>4. CreatedRoomIsFresh'
      <4>1. \A u \in Threads : call'[u].pc \in CreatePCs
                               => call[u].pc \in CreatePCs /\ call'[u].room = call[u].room
        BY <2>17 DEF LeaveCheckEmpty
      <4>2. \A u \in Threads : \/ call'[u].room \in {call[u].room, Nil}
                               \/ \E r \in RoomIds : call'[u].room = BattleRooms[r]
        BY <2>17 DEF LeaveCheckEmpty
      <4>3. \A r \in RoomIds : BattleRooms'[r] \in {BattleRooms[r], Nil}
        BY <2>17 DEF LeaveCheckEmpty
      <4> QED
        BY <4>1, <4>2, <4>3, FreshRoomKept
    <3>5. EmptyRoomIsBeingLeft'
      <4> SUFFICES ASSUME NEW r \in RoomIds, BattleRooms[r] # Nil,
                          members[BattleRooms[r]] = {}
                   PROVE  \E u \in Threads :
                            /\ call'[u].pc \in {"leave.status", "leave.delete"}
                            /\ call'[u].room = BattleRooms[r]
        BY <2>17 DEF LeaveCheckEmpty, EmptyRoomIsBeingLeft
      <4>1. PICK u \in Threads : /\ call[u].pc \in {"leave.status", "leave.delete"}
                                /\ call[u].room = BattleRooms[r]
        BY DEF EmptyRoomIsBeingLeft
      <4>2. CASE u = t
        BY <2>17, <4>1, <4>2 DEF LeaveCheckEmpty
      <4>3. CASE u # t
        BY <2>17, <4>1, <4>3 DEF LeaveCheckEmpty
      <4> QED
        BY <4>2, <4>3
    <3> QED
      BY <3>1, <3>2, <3>3, <3>4, <3>5
  <2>18. ASSUME NEW t \in Threads, LeaveDeleteRoom(t)
        PROVE  DirectoryInv'
    <3>1. RoomsMutexHolder'
      BY <2>18 DEF LeaveDeleteRoom, RoomsMutexHolder
    <3>2. LeavingRoomIsListed'
      <4>1. \A u \in Threads : call[u].pc \in HoldsRooms => u = t
        BY <2>18 DEF LeaveDeleteRoom, RoomsMutexHolder
      <4> QED
        BY <2>18, <4>1 DEF LeaveDeleteRoom, LeavingRoomIsListed
    <3>3. OneIdPerRoom'
      BY <2>18 DEF LeaveDeleteRoom, OneIdPerRoom
    <3>4. CreatedRoomIsFresh'
      BY <2>18 DEF LeaveDeleteRoom, CreatedRoomIsFresh
    <3>5. EmptyRoomIsBeingLeft'
      <4> SUFFICES ASSUME NEW r \in RoomIds, BattleRooms'[r] # Nil,
                          members[BattleRooms'[r]] = {}
                   PROVE  \E u \in Threads :
                            /\ call'[u].pc \in {"leave.status", "leave.delete"}
                            /\ call'[u].room = BattleRooms'[r]
        BY <2>18 DEF LeaveDeleteRoom, EmptyRoomIsBeingLeft
      <4>1. r # call[t].roomID /\ BattleRooms'[r] = BattleRooms[r]
        BY <2>18 DEF LeaveDeleteRoom
      <4>2. PICK u \in Threads : /\ call[u].pc \in {"leave.status", "leave.delete"}
                                /\ call[u].room = BattleRooms[r]
        BY <4>1 DEF EmptyRoomIsBeingLeft
      <4>3. u = t
        BY <2>18, <4>2 DEF LeaveDeleteRoom, RoomsMutexHolder
      <4>4. BattleRooms[call[t].roomID] = BattleRooms[r] /\ call[t].roomID \in RoomIds
        BY <2>18, <4>2, <4>3 DEF LeaveDeleteRoom, LeavingRoomIsListed
      <4> QED
        BY <4>1, <4>4 DEF OneIdPerRoom
    <3> QED
      BY <3>1, <3>2, <3>3, <3>4, <3>5
  <2>19. ASSUME NEW t \in Threads, LeaveReply(t)
        PROVE  DirectoryInv'
    <3>1. RoomsMutexHolder'
      BY <2>19 DEF LeaveReply, RoomsMutexHolder
    <3>2. LeavingRoomIsListed'
      BY <2>19 DEF LeaveReply, LeavingRoomIsListed
    <3>3. OneIdPerRoom'
      BY <2>19 DEF LeaveReply, OneIdPerRoom
    <3>4. CreatedRoomIsFresh'
      BY <2>19 DEF LeaveReply, CreatedRoomIsFresh
    <3>5. EmptyRoomIsBeingLeft'
      BY <2>19 DEF LeaveReply, EmptyRoomIsBeingLeft
    <3> QED
      BY <3>1, <3>2, <3>3, <3>4, <3>5
  <2>20. CASE FatalMapRace
    BY <2>20 DEF FatalMapRace, RoomsMutexHolder, LeavingRoomIsListed,
                 OneIdPerRoom, CreatedRoomIsFresh, EmptyRoomIsBeingLeft
  <2>21. CASE UNCHANGED vars
    BY <2>21 DEF vars, RoomsMutexHolder, LeavingRoomIsListed,
                 OneIdPerRoom, CreatedRoomIsFresh, EmptyRoomIsBeingLeft
  <2> QED
    BY <2>1, <2>2, <2>3, <2>4, <2>5, <2>6, <2>7, <2>8, <2>9, <2>10, <2>11, <2>12, <2>13, <2>14, <2>15, <2>16, <2>17, <2>18, <2>19, <2>20, <2>21
    DEF Next, Request, Step
<1> QED
  BY <1>1, <1>2, TypeCorrect, PTL DEF Spec

(* GetRoomListRpc never shows an empty room: whoever reads the list sees   *)
(* no LeaveRoomRpc between emptying a room and taking it off the list.     *)
THEOREM RoomListHasNoEmptyRoom == Spec => []ListedRoomHasMembers
<1>1. DirectoryInv => ListedRoomHasMembers
  <2> SUFFICES ASSUME DirectoryInv, RoomsMutex = Nil,
                      NEW r \in RoomIds, BattleRooms[r] # Nil,
                      members[BattleRooms[r]] = {}
               PROVE  FALSE
    BY DEF ListedRoomHasMembers, CanReadRooms, RoomList
  <2>1. PICK t \in Threads : call[t].pc \in {"leave.status", "leave.delete"}
    BY DEF DirectoryInv, EmptyRoomIsBeingLeft
  <2>2. RoomsMutex = t
    BY <2>1 DEF DirectoryInv, RoomsMutexHolder, HoldsRooms
  <2> QED
    BY <2>2, BattleServerAssumption
<1> QED
  BY <1>1, DirectoryCorrect, PTL
(* Clients that wait for each answer and leave before they enter: what a   *)
(* player's maps say at every step of its call, whatever the calls of the  *)
(* other players do in between.                                            *)
SerialParts == OneCallEach /\ EntrantIsUnmapped /\ JoinedById /\ MemberIsMapped

(* A step that starts no call and gives none to another player. *)
LEMMA OneCallKept ==
  ASSUME OneCallEach, NEW t \in Threads, call[t].pc # "idle",
         \A u \in Threads \ {t} : call'[u] = call[u],
         call'[t].pc = "idle" \/ call'[t].player = call[t].player
  PROVE  OneCallEach'
BY DEF OneCallEach

(* The invariant of the serial clients is inductive. *)
THEOREM SerialClientsCorrect ==
  ASSUME Serial
  PROVE  Spec => []SerialParts
<1> USE BattleServerAssumption DEF CreatePCs
<1>1. Init => SerialParts
  BY DEF Init, NoCall, SerialParts, OneCallEach, EntrantIsUnmapped, JoinedById,
         MemberIsMapped
<1>2. DirectoryInv /\ TypeOK' /\ SerialParts /\ [Next]_vars => SerialParts'
  <2> SUFFICES ASSUME DirectoryInv, TypeOK', SerialParts, [Next]_vars
               PROVE  SerialParts'
    OBVIOUS
  <2>a. /\ TypeOK /\ OneIdPerRoom /\ CreatedRoomIsFresh /\ LeavingRoomIsListed
        /\ OneCallEach /\ EntrantIsUnmapped /\ JoinedById /\ MemberIsMapped
    BY DEF DirectoryInv, SerialParts
  <2> USE <2>a DEF maps, locks, At, Goto, Return, NoCall, TypeOK, Call, JoinPCs,
                   LeavePCs, HasRoom, HasRoomID
  <2>1. ASSUME NEW t \in Threads, NEW p \in Players, CreateRoomCall(t, p)
        PROVE  SerialParts'
    <3>1. OneCallEach'
      BY <2>1 DEF CreateRoomCall, Begin, MayEnter, OneCallEach, InFlight
    <3>2. EntrantIsUnmapped'
      BY <2>1 DEF CreateRoomCall, Begin, MayEnter, EntrantIsUnmapped
    <3>3. JoinedById'
      BY <2>1 DEF CreateRoomCall, Begin, MayEnter, JoinedById
    <3>4. MemberIsMapped'
      BY <2>1 DEF CreateRoomCall, Begin, MayEnter, MemberIsMapped, OnItsWay, InFlight
    <3> QED
      BY <3>1, <3>2, <3>3, <3>4 DEF SerialParts
  <2>2. ASSUME NEW t \in Threads, NEW p \in Players, NEW r \in RoomIds,
               JoinRoomCall(t, p, r)
        PROVE  SerialParts'
    <3>1. OneCallEach'
      BY <2>2 DEF JoinRoomCall, Begin, MayEnter, OneCallEach, InFlight
    <3>2. EntrantIsUnmapped'
      BY <2>2 DEF JoinRoomCall, Begin, MayEnter, EntrantIsUnmapped
    <3>3. JoinedById'
      BY <2>2 DEF JoinRoomCall, Begin, MayEnter, JoinedById
    <3>4. MemberIsMapped'
      BY <2>2 DEF JoinRoomCall, Begin, MayEnter, MemberIsMapped, OnItsWay, InFlight
    <3> QED
      BY <3>1, <3>2, <3>3, <3>4 DEF SerialParts
  <2>3. ASSUME NEW t \in Threads, NEW p \in Players, LeaveRoomCall(t, p)
        PROVE  SerialParts'
    <3>1. OneCallEach'
      BY <2>3 DEF LeaveRoomCall, Begin, OneCallEach, InFlight
    <3>2. EntrantIsUnmapped'
      BY <2>3 DEF LeaveRoomCall, Begin, EntrantIsUnmapped
    <3>3. JoinedById'
      BY <2>3 DEF LeaveRoomCall, Begin, JoinedById
    <3>4. MemberIsMapped'
      BY <2>3 DEF LeaveRoomCall, Begin, MemberIsMapped, OnItsWay, InFlight
    <3> QED
      BY <3>1, <3>2, <3>3, <3>4 DEF SerialParts
  <2>4. ASSUME NEW t \in Threads, CreateLockRooms(t)
        PROVE  SerialParts'
    <3>1. OneCallEach'
      BY <2>4 DEF CreateLockRooms, OneCallEach
    <3>2. EntrantIsUnmapped'
      BY <2>4 DEF CreateLockRooms, EntrantIsUnmapped
    <3>3. JoinedById'
      BY <2>4 DEF CreateLockRooms, JoinedById
    <3>4. MemberIsMapped'
      BY <2>4 DEF CreateLockRooms, MemberIsMapped, OnItsWay
    <3> QED
      BY <3>1, <3>2, <3>3, <3>4 DEF SerialParts
  <2>5. ASSUME NEW t \in Threads, CreateRoom(t)
        PROVE  SerialParts'
    <3> DEFINE p == call[t].player
               r == call[t].roomID
               o == call[t].room
    <3>a. /\ o \in Rooms /\ r \in RoomIds /\ p \in Players
          /\ PlayerInRoom[p] = Nil
          /\ \A s \in RoomIds : BattleRooms[s] # o
          /\ \A u \in Threads \ {t} :
               call[u].room # o /\ (call[u].pc # "idle" => call[u].player # p)
      BY <2>5 DEF CreateRoom, CreatedRoomIsFresh, OneCallEach, EntrantIsUnmapped
    <3>b. /\ call[t].pc = "create.lockPlayers"
          /\ members' = [members EXCEPT ![o] = {p}]
          /\ BattleRooms' = [BattleRooms EXCEPT ![r] = o]
          /\ PlayerInRoom' = [PlayerInRoom EXCEPT ![p] = r]
          /\ \A u \in Threads : call'[u] = IF u = t THEN NoCall ELSE call[u]
      BY <2>5, <3>a DEF CreateRoom
    <3> HIDE DEF p, r, o
    <3>1. OneCallEach'
      BY <2>5 DEF CreateRoom, OneCallEach
    <3>2. EntrantIsUnmapped'
      BY <3>a, <3>b DEF EntrantIsUnmapped
    <3>3. JoinedById'
      BY <3>a, <3>b DEF JoinedById
    <3>4. MemberIsMapped'
      <4> SUFFICES ASSUME NEW s \in RoomIds, NEW q \in Players, BattleRooms'[s] # Nil,
                          q \in members'[BattleRooms'[s]], s # r
                   PROVE  PlayerInRoom'[q] = s \/ OnItsWay(q, s)'
        BY <3>a, <3>b DEF MemberIsMapped
      <4>1. BattleRooms'[s] = BattleRooms[s] /\ members'[BattleRooms[s]] = members[BattleRooms[s]]
        BY <3>a, <3>b
      <4>2. PlayerInRoom[q] = s \/ OnItsWay(q, s)
        BY <4>1 DEF MemberIsMapped
      <4>3. q # p
        BY <3>a, <3>b, <4>2 DEF OnItsWay, p
      <4>4. OnItsWay(q, s) => OnItsWay(q, s)'
        BY <3>b DEF OnItsWay
      <4> QED
        BY <3>a, <3>b, <4>2, <4>3, <4>4
    <3> QED
      BY <3>1, <3>2, <3>3, <3>4 DEF SerialParts
  <2>6. ASSUME NEW t \in Threads, JoinLookup(t)
        PROVE  SerialParts'
    <3>1. OneCallEach'
      <4>1. \A u \in Threads \ {t} : call'[u] = call[u]
        BY <2>6 DEF JoinLookup
      <4>2. call'[t].pc = "idle" \/ call'[t].player = call[t].player
        BY <2>6 DEF JoinLookup
      <4>3. call[t].pc # "idle"
        BY <2>6 DEF JoinLookup
      <4> QED
        BY <4>1, <4>2, <4>3, OneCallKept
    <3>2. EntrantIsUnmapped'
      BY <2>6 DEF JoinLookup, EntrantIsUnmapped
    <3>3. JoinedById'
      <4>1. UNCHANGED BattleRooms /\ call[t].roomID \in RoomIds
        BY <2>6 DEF JoinLookup
      <4>2. \A u \in Threads \ {t} : call'[u] = call[u]
        BY <2>6 DEF JoinLookup
      <4>3. call'[t].pc = "join.add"
            => /\ call'[t].roomID = call[t].roomID
               /\ call'[t].room = BattleRooms[call[t].roomID]
               /\ BattleRooms[call[t].roomID] # Nil
        BY <2>6 DEF JoinLookup
      <4> SUFFICES ASSUME NEW u \in Threads, call'[u].pc = "join.add",
                          NEW r \in RoomIds, BattleRooms[r] = call'[u].room
                   PROVE  r = call'[u].roomID
        BY <4>1 DEF JoinedById
      <4>4. CASE u = t
        BY <4>1, <4>3, <4>4 DEF OneIdPerRoom
      <4>5. CASE u # t
        BY <4>2, <4>5 DEF JoinedById
      <4> QED
        BY <4>4, <4>5
    <3>4. MemberIsMapped'
      <4>1. UNCHANGED <<BattleRooms, PlayerInRoom, members>>
        BY <2>6 DEF JoinLookup
      <4>2. \A p \in Players, r \in RoomIds : OnItsWay(p, r) => OnItsWay(p, r)'
        <5>1. call[t].pc = "join.lookup" /\ \A u \in Threads \ {t} : call'[u] = call[u]
          BY <2>6 DEF JoinLookup
        <5> QED
          BY <5>1 DEF OnItsWay
      <4> QED
        BY <4>1, <4>2 DEF MemberIsMapped
    <3> QED
      BY <3>1, <3>2, <3>3, <3>4 DEF SerialParts
  <2>7. ASSUME NEW t \in Threads, JoinAddPlayer(t)
        PROVE  SerialParts'
    <3>a. /\ call[t].pc = "join.add" /\ call[t].player \in Players
          /\ members' = [members EXCEPT ![call[t].room] = @ \cup {call[t].player}]
          /\ call' = [call EXCEPT ![t].pc = "join.map"]
          /\ UNCHANGED <<BattleRooms, PlayerInRoom>>
      BY <2>7 DEF JoinAddPlayer
    <3>1. OneCallEach'
      BY <2>7 DEF JoinAddPlayer, OneCallEach
    <3>2. EntrantIsUnmapped'
      BY <2>7 DEF JoinAddPlayer, EntrantIsUnmapped
    <3>3. JoinedById'
      BY <2>7 DEF JoinAddPlayer, JoinedById
    <3>4. MemberIsMapped'
      <4> SUFFICES ASSUME NEW r \in RoomIds, NEW p \in Players, BattleRooms[r] # Nil,
                          p \in members'[BattleRooms[r]]
                   PROVE  PlayerInRoom[p] = r \/ OnItsWay(p, r)'
        BY <3>a DEF MemberIsMapped
      <4>1. OnItsWay(p, r) => OnItsWay(p, r)'
        BY <3>a DEF OnItsWay
      <4>2. CASE p \in members[BattleRooms[r]]
        BY <4>1, <4>2 DEF MemberIsMapped
      <4>3. CASE p \notin members[BattleRooms[r]]
        <5>1. BattleRooms[r] = call[t].room /\ p = call[t].player
          BY <3>a, <4>3
        <5>2. r = call[t].roomID
          BY <3>a, <5>1 DEF JoinedById
        <5> QED
          BY <3>a, <5>1, <5>2 DEF OnItsWay
      <4> QED
        BY <4>2, <4>3
    <3> QED
      BY <3>1, <3>2, <3>3, <3>4 DEF SerialParts
  <2>8. ASSUME NEW t \in Threads, JoinMapPlayer(t)
        PROVE  SerialParts'
    <3> DEFINE p == call[t].player
               r == call[t].roomID
    <3>a. /\ call[t].pc = "join.map" /\ p \in Players /\ r \in RoomIds
          /\ PlayerInRoom[p] = Nil
          /\ \A u \in Threads \ {t} : call[u].pc # "idle" => call[u].player # p
      BY <2>8 DEF JoinMapPlayer, OneCallEach, EntrantIsUnmapped
    <3>b. /\ PlayerInRoom' = [PlayerInRoom EXCEPT ![p] = r]
          /\ call' = [call EXCEPT ![t].pc = "join.status"]
          /\ UNCHANGED <<BattleRooms, members>>
      BY <2>8 DEF JoinMapPlayer
    <3>1. OneCallEach'
      BY <2>8 DEF JoinMapPlayer, OneCallEach
    <3>2. EntrantIsUnmapped'
      <4> HIDE DEF r
      <4> SUFFICES ASSUME NEW u \in Threads,
                          call'[u].pc \in CreatePCs \cup {"join.lookup", "join.add", "join.map"}
                   PROVE  /\ PlayerInRoom'[call'[u].player] = Nil
                          /\ call'[u].pc \in CreatePCs
                             => call'[u].roomID = FormatUint(call'[u].player)
        BY DEF EntrantIsUnmapped
      <4>1. u # t /\ call'[u] = call[u] /\ call[u].player # p
        BY <3>a, <3>b
      <4> HIDE DEF p
      <4> QED
        BY <3>a, <3>b, <4>1 DEF EntrantIsUnmapped
    <3>3. JoinedById'
      BY <2>8 DEF JoinMapPlayer, JoinedById
    <3>4. MemberIsMapped'
      <4> SUFFICES ASSUME NEW s \in RoomIds, NEW q \in Players, BattleRooms[s] # Nil,
                          q \in members[BattleRooms[s]]
                   PROVE  PlayerInRoom'[q] = s \/ OnItsWay(q, s)'
        BY <3>b DEF MemberIsMapped
      <4>1. PlayerInRoom[q] = s \/ OnItsWay(q, s)
        BY DEF MemberIsMapped
      <4>2. CASE q = p
        <5>1. s = r
          BY <3>a, <4>1, <4>2 DEF OnItsWay
        <5> HIDE DEF p, r
        <5> QED
          BY <3>a, <3>b, <4>2, <5>1
      <4>3. CASE q # p
        <5>1. OnItsWay(q, s) => OnItsWay(q, s)'
          BY <3>b, <4>3 DEF OnItsWay
        <5>2. PlayerInRoom'[q] = PlayerInRoom[q]
          BY <3>b, <4>3
        <5> QED
          BY <4>1, <5>1, <5>2
      <4> QED
        BY <4>2, <4>3
    <3> QED
      BY <3>1, <3>2, <3>3, <3>4 DEF SerialParts
  <2>9. ASSUME NEW t \in Threads, JoinBroadcastStatus(t)
        PROVE  SerialParts'
    <3>1. UNCHANGED <<BattleRooms, PlayerInRoom, members, call>>
      BY <2>9 DEF JoinBroadcastStatus, NotifyNext
    <3> QED
      BY <3>1 DEF SerialParts, OneCallEach, EntrantIsUnmapped, JoinedById,
                  MemberIsMapped, OnItsWay
  <2>10. ASSUME NEW t \in Threads, JoinLockRoom(t)
        PROVE  SerialParts'
    <3>1. OneCallEach'
      BY <2>10 DEF JoinLockRoom, OneCallEach
    <3>2. EntrantIsUnmapped'
      BY <2>10 DEF JoinLockRoom, EntrantIsUnmapped
    <3>3. JoinedById'
      BY <2>10 DEF JoinLockRoom, JoinedById
    <3>4. MemberIsMapped'
      BY <2>10 DEF JoinLockRoom, MemberIsMapped, OnItsWay
    <3> QED
      BY <3>1, <3>2, <3>3, <3>4 DEF SerialParts
  <2>11. ASSUME NEW t \in Threads, JoinSendPosition(t)
        PROVE  SerialParts'
    <3>1. UNCHANGED <<BattleRooms, PlayerInRoom, members, call>>
      BY <2>11 DEF JoinSendPosition, NotifyNext
    <3> QED
      BY <3>1 DEF SerialParts, OneCallEach, EntrantIsUnmapped, JoinedById,
                  MemberIsMapped, OnItsWay
  <2>12. ASSUME NEW t \in Threads, JoinReturn(t)
        PROVE  SerialParts'
    <3>1. OneCallEach'
      BY <2>12 DEF JoinReturn, OneCallEach
    <3>2. EntrantIsUnmapped'
      BY <2>12 DEF JoinReturn, EntrantIsUnmapped
    <3>3. JoinedById'
      BY <2>12 DEF JoinReturn, JoinedById
    <3>4. MemberIsMapped'
      BY <2>12 DEF JoinReturn, MemberIsMapped, OnItsWay
    <3> QED
      BY <3>1, <3>2, <3>3, <3>4 DEF SerialParts
  <2>13. ASSUME NEW t \in Threads, LeaveUnmap(t)
        PROVE  SerialParts'
    <3>1. OneCallEach'
      BY <2>13 DEF LeaveUnmap, OneCallEach
    <3>2. EntrantIsUnmapped'
      BY <2>13 DEF LeaveUnmap, EntrantIsUnmapped
    <3>3. JoinedById'
      BY <2>13 DEF LeaveUnmap, JoinedById
    <3>4. MemberIsMapped'
      <4> DEFINE p == call[t].player
      <4>a. /\ call[t].pc = "leave.unmap" /\ p \in Players
            /\ \A u \in Threads \ {t} : call[u].pc # "idle" => call[u].player # p
            /\ UNCHANGED <<BattleRooms, members>>
            /\ \A u \in Threads \ {t} : call'[u] = call[u]
        BY <2>13 DEF LeaveUnmap, OneCallEach
      <4>b. \/ PlayerInRoom[p] = Nil /\ UNCHANGED PlayerInRoom
            \/ /\ PlayerInRoom' = [PlayerInRoom EXCEPT ![p] = Nil]
               /\ call'[t].pc = "leave.lockRooms" /\ call'[t].player = p
               /\ call'[t].roomID = PlayerInRoom[p]
        BY <2>13 DEF LeaveUnmap
      <4> SUFFICES ASSUME NEW s \in RoomIds, NEW q \in Players, BattleRooms[s] # Nil,
                          q \in members[BattleRooms[s]]
                   PROVE  PlayerInRoom'[q] = s \/ OnItsWay(q, s)'
        BY <4>a DEF MemberIsMapped
      <4>1. PlayerInRoom[q] = s \/ OnItsWay(q, s)
        BY DEF MemberIsMapped
      <4>2. CASE q = p
        <5>1. PlayerInRoom[p] = s
          BY <4>a, <4>1, <4>2 DEF OnItsWay
        <5> QED
          BY <4>b, <4>2, <5>1 DEF OnItsWay
      <4>3. CASE q # p
        <5>1. OnItsWay(q, s) => OnItsWay(q, s)'
          BY <4>a, <4>3 DEF OnItsWay
        <5>2. PlayerInRoom'[q] = PlayerInRoom[q]
          BY <4>b, <4>3
        <5> QED
          BY <4>1, <5>1, <5>2
      <4> QED
        BY <4>2, <4>3
    <3> QED
      BY <3>1, <3>2, <3>3, <3>4 DEF SerialParts
  <2>14. ASSUME NEW t \in Threads, LeaveLockRooms(t)
        PROVE  SerialParts'
    <3>1. OneCallEach'
      <4>1. \A u \in Threads \ {t} : call'[u] = call[u]
        BY <2>14 DEF LeaveLockRooms
      <4>2. call'[t].pc = "idle" \/ call'[t].player = call[t].player
        BY <2>14 DEF LeaveLockRooms
      <4>3. call[t].pc # "idle"
        BY <2>14 DEF LeaveLockRooms
      <4> QED
        BY <4>1, <4>2, <4>3, OneCallKept
    <3>2. EntrantIsUnmapped'
      <4>1. /\ UNCHANGED PlayerInRoom
            /\ \A u \in Threads \ {t} : call'[u] = call[u]
        BY <2>14 DEF LeaveLockRooms
      <4>2. call'[t].pc \in {"idle", "leave.remove"}
        BY <2>14 DEF LeaveLockRooms
      <4> QED
        BY <4>1, <4>2 DEF EntrantIsUnmapped
    <3>3. JoinedById'
      <4>1. /\ UNCHANGED BattleRooms
            /\ \A u \in Threads \ {t} : call'[u] = call[u]
        BY <2>14 DEF LeaveLockRooms
      <4>2. call'[t].pc # "join.add"
        BY <2>14 DEF LeaveLockRooms
      <4> QED
        BY <4>1, <4>2 DEF JoinedById
    <3>4. MemberIsMapped'
      <4>1. /\ UNCHANGED <<BattleRooms, PlayerInRoom, members>>
            /\ \A u \in Threads \ {t} : call'[u] = call[u]
        BY <2>14 DEF LeaveLockRooms
      <4>2. BattleRooms[call[t].roomID] # Nil
            => /\ call'[t].pc = "leave.remove" /\ call'[t].player = call[t].player
               /\ call'[t].roomID = call[t].roomID
        BY <2>14 DEF LeaveLockRooms
      <4> SUFFICES ASSUME NEW r \in RoomIds, NEW p \in Players, BattleRooms[r] # Nil,
                          OnItsWay(p, r)
                   PROVE  OnItsWay(p, r)'
        BY <4>1 DEF MemberIsMapped
      <4>3. PICK u \in Threads :
              /\ call[u].pc \in {"join.map", "leave.lockRooms", "leave.remove"}
              /\ call[u].player = p /\ call[u].roomID = r
        BY DEF OnItsWay
      <4>4. CASE u = t
        BY <4>2, <4>3, <4>4 DEF OnItsWay
      <4>5. CASE u # t
        BY <4>1, <4>3, <4>5 DEF OnItsWay
      <4> QED
        BY <4>4, <4>5
    <3> QED
      BY <3>1, <3>2, <3>3, <3>4 DEF SerialParts
  <2>15. ASSUME NEW t \in Threads, LeaveRemovePlayer(t)
        PROVE  SerialParts'
    <3>1. OneCallEach'
      BY <2>15 DEF LeaveRemovePlayer, OneCallEach
    <3>2. EntrantIsUnmapped'
      BY <2>15 DEF LeaveRemovePlayer, EntrantIsUnmapped
    <3>3. JoinedById'
      BY <2>15 DEF LeaveRemovePlayer, JoinedById
    <3>4. MemberIsMapped'
      <4> DEFINE p == call[t].player
                 o == call[t].room
      <4>a. /\ call[t].pc = "leave.remove" /\ o \in Rooms
            /\ BattleRooms[call[t].roomID] = o
            /\ members' = [members EXCEPT ![o] = members[o] \ {p}]
            /\ UNCHANGED <<BattleRooms, PlayerInRoom>>
            /\ \A u \in Threads \ {t} : call'[u] = call[u]
        BY <2>15 DEF LeaveRemovePlayer, LeavingRoomIsListed, HoldsRooms
      <4> SUFFICES ASSUME NEW s \in RoomIds, NEW q \in Players, BattleRooms[s] # Nil,
                          q \in members'[BattleRooms[s]]
                   PROVE  PlayerInRoom[q] = s \/ OnItsWay(q, s)'
        BY <4>a DEF MemberIsMapped
      <4>1. q \in members[BattleRooms[s]] /\ (BattleRooms[s] = o => q # p)
        BY <4>a
      <4>2. PlayerInRoom[q] = s \/ OnItsWay(q, s)
        BY <4>1 DEF MemberIsMapped
      <4>3. OnItsWay(q, s) => OnItsWay(q, s)'
        BY <4>a, <4>1 DEF OnItsWay
      <4> QED
        BY <4>2, <4>3
    <3> QED
      BY <3>1, <3>2, <3>3, <3>4 DEF SerialParts
  <2>16. ASSUME NEW t \in Threads, LeaveBroadcastStatus(t)
        PROVE  SerialParts'
    <3>1. UNCHANGED <<BattleRooms, PlayerInRoom, members, call>>
      BY <2>16 DEF LeaveBroadcastStatus, NotifyNext
    <3> QED
      BY <3>1 DEF SerialParts, OneCallEach, EntrantIsUnmapped, JoinedById,
                  MemberIsMapped, OnItsWay
  <2>17. ASSUME NEW t \in Threads, LeaveCheckEmpty(t)
        PROVE  SerialParts'
    <3>1. OneCallEach'
      BY <2>17 DEF LeaveCheckEmpty, OneCallEach
    <3>2. EntrantIsUnmapped'
      BY <2>17 DEF LeaveCheckEmpty, EntrantIsUnmapped
    <3>3. JoinedById'
      BY <2>17 DEF LeaveCheckEmpty, JoinedById
    <3>4. MemberIsMapped'
      BY <2>17 DEF LeaveCheckEmpty, MemberIsMapped, OnItsWay
    <3> QED
      BY <3>1, <3>2, <3>3, <3>4 DEF SerialParts
  <2>18. ASSUME NEW t \in Threads, LeaveDeleteRoom(t)
        PROVE  SerialParts'
    <3>1. OneCallEach'
      BY <2>18 DEF LeaveDeleteRoom, OneCallEach
    <3>2. EntrantIsUnmapped'
      BY <2>18 DEF LeaveDeleteRoom, EntrantIsUnmapped
    <3>3. JoinedById'
      BY <2>18 DEF LeaveDeleteRoom, JoinedById
    <3>4. MemberIsMapped'
      BY <2>18 DEF LeaveDeleteRoom, MemberIsMapped, OnItsWay
    <3> QED
      BY <3>1, <3>2, <3>3, <3>4 DEF SerialParts
  <2>19. ASSUME NEW t \in Threads, LeaveReply(t)
        PROVE  SerialParts'
    <3>1. OneCallEach'
      BY <2>19 DEF LeaveReply, OneCallEach
    <3>2. EntrantIsUnmapped'
      BY <2>19 DEF LeaveReply, EntrantIsUnmapped
    <3>3. JoinedById'
      BY <2>19 DEF LeaveReply, JoinedById
    <3>4. MemberIsMapped'
      BY <2>19 DEF LeaveReply, MemberIsMapped, OnItsWay
    <3> QED
      BY <3>1, <3>2, <3>3, <3>4 DEF SerialParts
  <2>20. CASE FatalMapRace
    BY <2>20 DEF FatalMapRace, SerialParts, OneCallEach, EntrantIsUnmapped,
                 JoinedById, MemberIsMapped
  <2>21. CASE UNCHANGED vars
    BY <2>21 DEF vars, SerialParts, OneCallEach, EntrantIsUnmapped, JoinedById,
                 MemberIsMapped, OnItsWay
  <2> QED
    BY <2>1, <2>2, <2>3, <2>4, <2>5, <2>6, <2>7, <2>8, <2>9, <2>10,
       <2>11, <2>12, <2>13, <2>14, <2>15, <2>16, <2>17, <2>18, <2>19, <2>20,
       <2>21
       DEF Next, Request, Step
<1> QED
  BY <1>1, <1>2, DirectoryCorrect, TypeCorrect, PTL DEF Spec

(* A player that is in a listed room and has no call in flight is mapped   *)
(* to that room, so that its LeaveRoomRpc will find it: for any number of  *)
(* serial clients and room objects, although a room id is reused while     *)
(* others hold pointers to the object it stood for.                        *)
THEOREM MembersCanLeave ==
  ASSUME Serial
  PROVE  Spec => []ListedMemberIsMapped
<1>1. TypeOK /\ SerialParts => ListedMemberIsMapped
  <2> SUFFICES ASSUME TypeOK, MemberIsMapped,
                      NEW r \in RoomIds, NEW p \in Players, BattleRooms[r] # Nil,
                      p \in members[BattleRooms[r]], ~InFlight(p)
               PROVE  PlayerInRoom[p] = r
    BY DEF SerialParts, ListedMemberIsMapped
  <2>1. ~OnItsWay(p, r)
    BY DEF OnItsWay, InFlight
  <2> QED
    BY <2>1 DEF MemberIsMapped
<1> QED
  BY <1>1, TypeCorrect, SerialClientsCorrect, PTL

(* Only CreateRoomRpc lists an object. *)
LEMMA OnlyCreateLists ==
  ASSUME TypeOK, [Next]_vars, \A t \in Threads : ~CreateRoom(t), NEW r \in RoomIds
  PROVE  BattleRooms'[r] \in {BattleRooms[r], Nil}
<1> USE DEF maps
<1>1. ASSUME NEW t \in Threads, Request(t)
      PROVE  UNCHANGED BattleRooms
  BY <1>1 DEF Request, CreateRoomCall, JoinRoomCall, LeaveRoomCall, Begin
<1>2. ASSUME NEW t \in Threads, LeaveDeleteRoom(t)
      PROVE  \E s : BattleRooms' = [BattleRooms EXCEPT ![s] = Nil]
  BY <1>2 DEF LeaveDeleteRoom
<1>3. ASSUME NEW t \in Threads, Step(t), ~LeaveDeleteRoom(t)
      PROVE  UNCHANGED BattleRooms
  BY <1>3 DEF Step, CreateLockRooms, JoinLookup, JoinAddPlayer, JoinMapPlayer,
              JoinBroadcastStatus, JoinLockRoom, JoinSendPosition, JoinReturn,
              LeaveUnmap, LeaveLockRooms, LeaveRemovePlayer, LeaveBroadcastStatus,
              LeaveCheckEmpty, LeaveReply, NotifyNext
<1>4. CASE FatalMapRace
  BY <1>4 DEF FatalMapRace
<1>5. CASE UNCHANGED vars
  BY <1>5 DEF vars
<1> QED
  BY <1>1, <1>2, <1>3, <1>4, <1>5 DEF Next, TypeOK

(* A room that is listed under its creator's id is replaced only when its  *)
(* creator is no longer a member of it, for any number of serial clients.  *)
THEOREM CreatorLeavesFirst ==
  ASSUME Serial
  PROVE  Spec => CreatorHasLeftReplacedRoom
<1> USE BattleServerAssumption
<1> DEFINE Stays == \A p \in Players :
                      LET o == BattleRooms[FormatUint(p)]
                      IN  o # Nil /\ BattleRooms'[FormatUint(p)] \notin {o, Nil}
                          => p \notin members[o]
<1>1. TypeOK /\ SerialParts /\ [Next]_vars => Stays
  <2> SUFFICES ASSUME TypeOK, SerialParts, [Next]_vars, NEW p \in Players,
                      BattleRooms[FormatUint(p)] # Nil,
                      BattleRooms'[FormatUint(p)] \notin {BattleRooms[FormatUint(p)], Nil},
                      p \in members[BattleRooms[FormatUint(p)]]
               PROVE  FALSE
    OBVIOUS
  <2> DEFINE r == FormatUint(p)
  <2>1. r \in RoomIds
    BY DEF RoomIds
  <2>2. PICK t \in Threads : CreateRoom(t)
    BY <2>1, OnlyCreateLists
  <2>3. /\ call[t].pc = "create.lockPlayers" /\ call[t].roomID = r
        /\ call[t].player \in Players
    BY <2>1, <2>2 DEF CreateRoom, At, TypeOK, maps
  <2>4. call[t].player = p /\ PlayerInRoom[p] = Nil
    BY <2>3 DEF SerialParts, EntrantIsUnmapped, CreatePCs, FormatUint
  <2>5. PlayerInRoom[p] = r \/ OnItsWay(p, r)
    BY <2>1 DEF SerialParts, MemberIsMapped
  <2>6. PICK u \in Threads :
          /\ call[u].pc \in {"join.map", "leave.lockRooms", "leave.remove"}
          /\ call[u].player = p
    BY <2>1, <2>4, <2>5 DEF OnItsWay
  <2>7. u # t
    BY <2>3, <2>6
  <2> QED
    BY <2>3, <2>4, <2>6, <2>7 DEF SerialParts, OneCallEach
<1>2. TypeOK /\ SerialParts /\ [Next]_vars => [Stays]_vars
  BY <1>1
<1> QED
  BY <1>2, TypeCorrect, SerialClientsCorrect, PTL DEF Spec, CreatorHasLeftReplacedRoom

-----------------------------------------------------------------------------
(* The positions in a battle room, for any number of players, positions    *)
(* and queued moves.                                                       *)

(* What the room's goroutine takes out of CmdChan was put there. *)
LEMMA HeadAndTail ==
  ASSUME NEW S, NEW s \in Seq(S), s # <<>>
  PROVE  Head(s) \in S /\ Tail(s) \in Seq(S)
OBVIOUS

(* Every variable of the room keeps its type, and one newcomer at a time   *)
(* is being told the positions.                                            *)
THEOREM PositionsTypeCorrect == PositionsSpec => []PositionsTypeOK
<1> USE RoomPositionsAssumption
<1>1. PositionsInit => PositionsTypeOK
  <2> SUFFICES ASSUME PositionsInit
               PROVE  PositionsTypeOK
    OBVIOUS
  <2>1. PICK c \in PlayerIds : /\ players = {c}
                            /\ join = [q \in PlayerIds |-> IF q = c THEN "in" ELSE "out"]
    BY DEF PositionsInit
  <2>2. /\ join \in [PlayerIds -> {"out", "added", "initial", "in"}]
        /\ players = {p \in PlayerIds : join[p] # "out"}
        /\ players \subseteq PlayerIds
        /\ \A p \in PlayerIds : join[p] # "initial"
    BY <2>1
  <2>3. /\ position \in [PlayerIds -> Spot]
        /\ HasSentInitialPosition \in [PlayerIds -> BOOLEAN]
        /\ view \in [PlayerIds -> [PlayerIds -> Spot \cup {Unknown}]]
    BY DEF PositionsInit, Spot
  <2>4. /\ CmdChan = <<>> /\ moving = <<>> /\ remaining = {}
        /\ initial = {} /\ pending = <<>> /\ moves = 0
    BY DEF PositionsInit
  <2> QED
    BY <2>2, <2>3, <2>4 DEF PositionsTypeOK
<1>2. PositionsTypeOK /\ [PositionsNext]_positionVars => PositionsTypeOK'
  <2> SUFFICES ASSUME PositionsTypeOK, [PositionsNext]_positionVars
               PROVE  PositionsTypeOK'
    OBVIOUS
  <2> USE DEF PositionsTypeOK, Reading, Spot, Move, Tell, infos, loop, newcomer
  <2>1. ASSUME NEW p \in PlayerIds, NEW x \in Positions, SubmitMove(p, x)
        PROVE  PositionsTypeOK'
    BY <2>1 DEF SubmitMove
  <2>2. CASE IgnoreMove
    BY <2>2 DEF IgnoreMove
  <2>3. CASE HandleCharMove
    <3>1. Head(CmdChan) \in Move /\ Tail(CmdChan) \in Seq(Move)
      <4>1. CmdChan \in Seq(Move) /\ CmdChan # <<>>
        BY <2>3 DEF HandleCharMove
      <4> HIDE DEF Move, PositionsTypeOK
      <4> QED
        BY <4>1, HeadAndTail
    <3>2. position' \in [PlayerIds -> Spot]
      <4>1. position' = [position EXCEPT ![Head(CmdChan).player] = Head(CmdChan).to]
        BY <2>3 DEF HandleCharMove
      <4> QED
        BY <4>1, <3>1
    <3>3. /\ HasSentInitialPosition' \in [PlayerIds -> BOOLEAN]
          /\ CmdChan' \in Seq(Move)
      BY <3>1, <2>3 DEF HandleCharMove
    <3>4. \E cmd \in Move : moving' = <<cmd>>
      BY <3>1, <2>3 DEF HandleCharMove
    <3>5. moving' # <<>> /\ remaining' = players
      BY <2>3 DEF HandleCharMove
    <3>6. UNCHANGED <<players, join, newcomer, view, moves>>
      BY <2>3 DEF HandleCharMove
    <3> QED
      BY <3>2, <3>3, <3>4, <3>5, <3>6
  <2>4. CASE BroadcastEnds
    BY <2>4 DEF BroadcastEnds
  <2>5. ASSUME NEW p \in PlayerIds, NotifyMove(p)
        PROVE  PositionsTypeOK'
    BY <2>5 DEF NotifyMove
  <2>6. ASSUME NEW p \in PlayerIds, AddPlayer(p)
        PROVE  PositionsTypeOK'
    BY <2>6 DEF AddPlayer
  <2>7. ASSUME NEW p \in PlayerIds, BroadcastInitialPositions(p)
        PROVE  PositionsTypeOK'
    BY <2>7 DEF BroadcastInitialPositions
  <2>8. ASSUME NEW p \in PlayerIds, ReadPosition(p)
        PROVE  PositionsTypeOK'
    BY <2>8 DEF ReadPosition
  <2>9. ASSUME NEW p \in PlayerIds, SendInitialPosition(p)
        PROVE  PositionsTypeOK'
    BY <2>9 DEF SendInitialPosition
  <2>10. ASSUME NEW p \in PlayerIds, JoinEnds(p)
        PROVE  PositionsTypeOK'
    BY <2>10 DEF JoinEnds
  <2>11. ASSUME NEW p \in PlayerIds, RemovePlayer(p)
        PROVE  PositionsTypeOK'
    BY <2>11 DEF RemovePlayer
  <2>12. CASE UNCHANGED positionVars
    BY <2>12 DEF positionVars
  <2> QED
    BY <2>1, <2>2, <2>3, <2>4, <2>5, <2>6, <2>7, <2>8, <2>9, <2>10,
       <2>11, <2>12 DEF PositionsNext
<1> QED
  BY <1>1, <1>2, PTL DEF PositionsSpec

(* The parts of PositionsInv are preserved together: a view that is behind *)
(* is behind a broadcast or a joining step that will correct it.           *)
THEOREM PositionsCorrect == PositionsSpec => []PositionsInv
<1> USE RoomPositionsAssumption
<1>1. PositionsTypeOK /\ PositionsInit => PositionsInv
  BY DEF PositionsInit, PositionsInv, PositionsTypeOK, ViewsCatchUp, MovingIsCurrent, PendingIsCurrent
<1>2. PositionsTypeOK' /\ PositionsInv /\ [PositionsNext]_positionVars => PositionsInv'
  <2> SUFFICES ASSUME PositionsTypeOK', PositionsInv, [PositionsNext]_positionVars
               PROVE  PositionsInv'
    OBVIOUS
  <2> USE DEF PositionsInv, PositionsTypeOK, Reading, Spot, Move, Tell, infos, loop, newcomer,
              ViewsCatchUp, ToCome, MovingIsCurrent, PendingIsCurrent
  <2>1. ASSUME NEW p \in PlayerIds, NEW x \in Positions, SubmitMove(p, x)
        PROVE  PositionsInv'
    BY <2>1 DEF SubmitMove
  <2>2. CASE IgnoreMove
    BY <2>2 DEF IgnoreMove
  <2>3. CASE HandleCharMove
    BY <2>3 DEF HandleCharMove
  <2>4. CASE BroadcastEnds
    BY <2>4 DEF BroadcastEnds
  <2>5. ASSUME NEW p \in PlayerIds, NotifyMove(p)
        PROVE  PositionsInv'
    BY <2>5 DEF NotifyMove
  <2>6. ASSUME NEW p \in PlayerIds, AddPlayer(p)
        PROVE  PositionsInv'
    BY <2>6 DEF AddPlayer
  <2>7. ASSUME NEW p \in PlayerIds, BroadcastInitialPositions(p)
        PROVE  PositionsInv'
    BY <2>7 DEF BroadcastInitialPositions
  <2>8. ASSUME NEW p \in PlayerIds, ReadPosition(p)
        PROVE  PositionsInv'
    BY <2>8 DEF ReadPosition
  <2>9. ASSUME NEW p \in PlayerIds, SendInitialPosition(p)
        PROVE  PositionsInv'
    BY <2>9 DEF SendInitialPosition
  <2>10. ASSUME NEW p \in PlayerIds, JoinEnds(p)
        PROVE  PositionsInv'
    BY <2>10 DEF JoinEnds
  <2>11. ASSUME NEW p \in PlayerIds, RemovePlayer(p)
        PROVE  PositionsInv'
    BY <2>11 DEF RemovePlayer
  <2>12. CASE UNCHANGED positionVars
    BY <2>12 DEF positionVars
  <2> QED
    BY <2>1, <2>2, <2>3, <2>4, <2>5, <2>6, <2>7, <2>8, <2>9, <2>10,
       <2>11, <2>12 DEF PositionsNext
<1> QED
  BY <1>1, <1>2, PositionsTypeCorrect, PTL DEF PositionsSpec

(* Between two broadcasts nobody in the room has been left with an older   *)
(* position of somebody who has moved.                                     *)
THEOREM NobodySeesThePast == PositionsSpec => []ViewsAgree
<1>1. PositionsInv => ViewsAgree
  BY DEF PositionsInv, ViewsCatchUp, ToCome, ViewsAgree
<1> QED
  BY <1>1, PositionsCorrect, PTL

=============================================================================
