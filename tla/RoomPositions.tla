---------------------------- MODULE RoomPositions ----------------------------
(***************************************************************************)
(* Where the players of a battle room stand, and where the others see them *)
(* (gdserver/server/src/servers/battle/room.go).  The room's goroutine     *)
(* takes moves out of CmdChan and broadcasts them; a JoinRoomRpc sends the *)
(* newcomer the positions of those present at the same time.  What they    *)
(* share is the Players map under the room's PlayersMutex.                 *)
(*                                                                         *)
(* A notification is a call to the game server that puts a message into    *)
(* the player's SendChan.  It is answered in time here and none is lost,   *)
(* so a client sees its notifications in the order of the calls.  The      *)
(* ROOM_STATE notifications are left out: the client reads no position     *)
(* from them.  So is the runtime's own check of the map that a broadcast   *)
(* ranges over without the lock: it can only end the process.              *)
(***************************************************************************)
EXTENDS Naturals, Sequences

CONSTANTS
  PlayerIds,
  Positions,  \* the positions a player can move to
  Default,    \* (0, 0), where a player is put when it joins
  Unknown,    \* the client has been told nothing
  CmdCap,     \* capacity of CmdChan (100)
  MaxMoves    \* bound: moves submitted

ASSUME RoomPositionsAssumption ==
  /\ CmdCap \in Nat \ {0}
  /\ MaxMoves \in Nat
  /\ Unknown \notin Positions \cup {Default}

VARIABLES
  players,    \* keys of room.Players
  position,   \* player -> PositionX and PositionY of its PlayerInfo
  HasSentInitialPosition,
  CmdChan,
  moving,     \* the command whose broadcast is under way, or <<>>
  remaining,  \* players its range over room.Players has left
  join,       \* player -> "out", "added", "initial" or "in"
  initial,    \* members whose position the newcomer is still to be sent
  pending,    \* the position read and being sent to the newcomer, or <<>>
  view,       \* player -> player -> position in the last CHAR_MOVE
              \* notification about that player, or Unknown
  moves       \* moves submitted so far

infos   == <<players, position, HasSentInitialPosition>>
loop    == <<CmdChan, moving, remaining>>
newcomer == <<initial, pending>>
positionVars == <<infos, loop, join, newcomer, view, moves>>

Spot == Positions \cup {Default}
Move == [player : PlayerIds, to : Positions]

(* CreateRoomRpc has put the creator into the new room. *)
PositionsInit ==
  /\ \E p \in PlayerIds :
       /\ players = {p}
       /\ join = [q \in PlayerIds |-> IF q = p THEN "in" ELSE "out"]
  /\ position = [p \in PlayerIds |-> Default]
  /\ HasSentInitialPosition = [p \in PlayerIds |-> FALSE]
  /\ CmdChan = <<>>
  /\ moving = <<>>
  /\ remaining = {}
  /\ initial = {}
  /\ pending = <<>>
  /\ view = [p \in PlayerIds |-> [q \in PlayerIds |-> Unknown]]
  /\ moves = 0

-----------------------------------------------------------------------------
(* A slip: BroadcastInitialPositions gives the lock back before it sends.  *)
NobodyReads == FALSE

(* BroadcastInitialPositions holds the room's PlayersMutex for reading.    *)
Reading == \E p \in PlayerIds : join[p] = "initial"

(* The client of p is told that q is at x. *)
Tell(p, q, x) == view' = [view EXCEPT ![p][q] = x]

(* PlayerActionRpc: anybody's move goes into the room's channel. *)
SubmitMove(p, x) ==
  /\ moves < MaxMoves
  /\ moves' = moves + 1
  /\ Len(CmdChan) < CmdCap
  /\ CmdChan' = Append(CmdChan, [player |-> p, to |-> x])
  /\ UNCHANGED <<infos, moving, remaining, join, newcomer, view>>

-----------------------------------------------------------------------------
(* A slip: JoinRoomRpc releases the server's PlayersMutex before it broadcasts. *)
BroadcastInitialUnserialised(p) ==
  /\ join[p] = "added"
  /\ join' = [join EXCEPT ![p] = "initial"]
  /\ initial' = players \ {p}
  /\ UNCHANGED <<infos, loop, pending, view, moves>>

-----------------------------------------------------------------------------
(* The room's goroutine. *)

(* handleCharMoveInRoom of a player that is not in the room. *)
IgnoreMove ==
  /\ moving = <<>> /\ CmdChan # <<>>
  /\ ~Reading
  /\ Head(CmdChan).player \notin players
  /\ CmdChan' = Tail(CmdChan)
  /\ UNCHANGED <<infos, moving, remaining, join, newcomer, view, moves>>

(* Updates the position under the lock; then the broadcast starts. *)
HandleCharMove ==
  LET cmd == Head(CmdChan)
  IN  /\ moving = <<>> /\ CmdChan # <<>>
      /\ ~Reading
      /\ cmd.player \in players
      /\ position' = [position EXCEPT ![cmd.player] = cmd.to]
      /\ HasSentInitialPosition' =
           [HasSentInitialPosition EXCEPT ![cmd.player] = TRUE]
      /\ CmdChan' = Tail(CmdChan)
      /\ moving' = <<cmd>>
      /\ remaining' = players
      /\ UNCHANGED <<players, join, newcomer, view, moves>>

(* One NotifyPlayerPosition of BroadcastPlayerPosition. *)
NotifyMove(p) ==
  /\ moving # <<>> /\ p \in remaining
  /\ Tell(p, moving[1].player, moving[1].to)
  /\ remaining' = remaining \ {p}
  /\ UNCHANGED <<infos, CmdChan, moving, join, newcomer, moves>>

BroadcastEnds ==
  /\ moving # <<>> /\ remaining = {}
  /\ moving' = <<>>
  /\ UNCHANGED <<infos, CmdChan, remaining, join, newcomer, view, moves>>

-----------------------------------------------------------------------------
(* JoinRoomRpc: AddPlayer.  The client of a newcomer, which has left the   *)
(* room before it comes again, knows nothing.  A range under way may or    *)
(* may not come to the new entry.                                          *)
AddPlayer(p) ==
  /\ join[p] = "out"
  /\ ~Reading
  /\ join' = [join EXCEPT ![p] = "added"]
  /\ players' = players \cup {p}
  /\ position' = [position EXCEPT ![p] = Default]
  /\ HasSentInitialPosition' = [HasSentInitialPosition EXCEPT ![p] = FALSE]
  /\ remaining' \in IF moving = <<>> THEN {remaining} ELSE {remaining, remaining \cup {p}}
  /\ view' = [view EXCEPT ![p] = [q \in PlayerIds |-> Unknown]]
  /\ UNCHANGED <<CmdChan, moving, newcomer, moves>>

(* BroadcastInitialPositions takes the read lock.  One join at a time gets *)
(* here: the handler keeps the server's PlayersMutex.                      *)
BroadcastInitialPositions(p) ==
  /\ join[p] = "added"
  /\ ~\E q \in PlayerIds : join[q] = "initial"
  /\ join' = [join EXCEPT ![p] = "initial"]
  /\ initial' = players \ {p}
  /\ UNCHANGED <<infos, loop, pending, view, moves>>

ReadPosition(q) ==
  /\ pending = <<>> /\ q \in initial
  /\ pending' = <<q, position[q]>>
  /\ initial' = initial \ {q}
  /\ UNCHANGED <<infos, loop, join, view, moves>>

SendInitialPosition(p) ==
  /\ join[p] = "initial" /\ pending # <<>>
  /\ Tell(p, pending[1], pending[2])
  /\ pending' = <<>>
  /\ UNCHANGED <<infos, loop, join, initial, moves>>

JoinEnds(p) ==
  /\ join[p] = "initial" /\ initial = {} /\ pending = <<>>
  /\ join' = [join EXCEPT ![p] = "in"]
  /\ UNCHANGED <<infos, loop, newcomer, view, moves>>

(* LeaveRoomRpc: RemovePlayer.  A range never comes to a removed entry.    *)
RemovePlayer(p) ==
  /\ join[p] = "in"
  /\ ~Reading
  /\ join' = [join EXCEPT ![p] = "out"]
  /\ players' = players \ {p}
  /\ remaining' = remaining \ {p}
  /\ UNCHANGED <<position, HasSentInitialPosition, CmdChan, moving, newcomer,
                 view, moves>>

PositionsNext ==
  \/ \E p \in PlayerIds, x \in Positions : SubmitMove(p, x)
  \/ IgnoreMove \/ HandleCharMove \/ BroadcastEnds
  \/ \E p \in PlayerIds :
       \/ NotifyMove(p)
       \/ AddPlayer(p) \/ BroadcastInitialPositions(p)
       \/ ReadPosition(p) \/ SendInitialPosition(p) \/ JoinEnds(p)
       \/ RemovePlayer(p)

PositionsSpec == PositionsInit /\ [][PositionsNext]_positionVars

-----------------------------------------------------------------------------
(* Every variable keeps its type; the lock is held for one newcomer, and   *)
(* positions are being sent only while it is.                              *)
PositionsTypeOK ==
  /\ players \subseteq PlayerIds
  /\ position \in [PlayerIds -> Spot]
  /\ HasSentInitialPosition \in [PlayerIds -> BOOLEAN]
  /\ CmdChan \in Seq(Move)
  /\ moving = <<>> \/ \E cmd \in Move : moving = <<cmd>>
  /\ remaining \subseteq players
  /\ join \in [PlayerIds -> {"out", "added", "initial", "in"}]
  /\ initial \subseteq players
  /\ pending = <<>> \/ \E q \in PlayerIds, x \in Spot : pending = <<q, x>>
  /\ view \in [PlayerIds -> [PlayerIds -> Spot \cup {Unknown}]]
  /\ moves \in 0..MaxMoves
  /\ players = {p \in PlayerIds : join[p] # "out"}
  /\ moving = <<>> => remaining = {}
  /\ ~Reading => initial = {} /\ pending = <<>>
  /\ \A p, q \in PlayerIds : join[p] = "initial" /\ join[q] = "initial" => p = q

(* Between two broadcasts, everybody who is in the room sees everybody who *)
(* has moved where the server has it: whatever joins, leaves and moves     *)
(* came in between, nobody was left with an older position.                *)
ViewsAgree ==
  moving = <<>> =>
    \A p, q \in players :
      join[p] = "in" /\ HasSentInitialPosition[q] => view[p][q] = position[q]

-----------------------------------------------------------------------------
(* The inductive invariant behind ViewsAgree: where the position that the  *)
(* client of p lacks is still to come from.                                *)
ToCome(p, q) ==
  \/ moving # <<>> /\ moving[1].player = q /\ p \in remaining
  \/ p # q /\ join[p] = "added"
  \/ join[p] = "initial" /\ (q \in initial \/ pending = <<q, position[q]>>)

ViewsCatchUp ==
  \A p, q \in players :
    HasSentInitialPosition[q] => view[p][q] = position[q] \/ ToCome(p, q)

(* The move being broadcast is where its player is, unless that one has    *)
(* left and come back.                                                     *)
MovingIsCurrent ==
  moving # <<>> /\ moving[1].player \in players
    /\ HasSentInitialPosition[moving[1].player]
  => position[moving[1].player] = moving[1].to

(* What is being sent to the newcomer is still true. *)
PendingIsCurrent == pending # <<>> => pending[2] = position[pending[1]]

PositionsInv ==
  PositionsTypeOK /\ ViewsCatchUp /\ MovingIsCurrent /\ PendingIsCurrent
=============================================================================
