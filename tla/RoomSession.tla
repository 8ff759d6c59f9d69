----------------------------- MODULE RoomSession -----------------------------
(***************************************************************************)
(* Where a player is, in the three places that keep it:                    *)
(*   the client    (gdclient/scripts: NetworkManager.gd, GameState.gd),    *)
(*   the game server      (servers/game: msg_*_room.go, CurrentRoomID),    *)
(*   the battle server             (servers/battle/main.go, PlayerInRoom). *)
(*                                                                         *)
(* A client's requests are handled one at a time, in order.  A handler     *)
(* calls the battle server with a deadline; a call that misses it may      *)
(* still take effect.  The battle server may be out of reach and may       *)
(* restart, which empties it.  The client's connection lasts; its end is   *)
(* the subject of GameSession, and a call's inside that of BattleServer.   *)
(***************************************************************************)
EXTENDS Integers, Sequences

CONSTANTS
  Players,
  MaxRequests,  \* bound: requests the clients send
  MaxRestarts,  \* bound: restarts of the battle server
  Nil           \* the empty room id

ASSUME RoomSessionAssumption ==
  /\ Nil \notin Players
  /\ {MaxRequests, MaxRestarts} \subseteq Nat

VARIABLES
  current_state,    \* GameState: "LOBBY" or "IN_ROOM"
  current_room_id,  \* NetworkManager
  requests,         \* player -> requests on their way to its handler
  stage,            \* player -> its handler: "idle", "called", "replied", or
                    \* "lost" when the battle server went down with the call
  request,          \* player -> the request its handler works on
  reply,            \* player -> the battle server's answer
  CurrentRoomID,
  responses,        \* player -> responses on their way to the client
  PlayerInRoom,
  members,          \* room id -> players in that room, if it is listed
  BattleRooms,      \* the ids listed
  late,             \* player -> call -> how many such calls were given up and
                    \* may take effect yet
  sent,             \* requests sent so far
  restarts,
  disturbed         \* player -> a call that moves it failed, or it did not wait,
                    \* and it has not settled in a room since

screen    == <<current_state, current_room_id>>
wires     == <<requests, responses>>
handler   == <<stage, request, reply>>
battle    == <<PlayerInRoom, members, BattleRooms>>
history   == <<restarts, disturbed>>
vars == <<screen, wires, handler, CurrentRoomID, battle, late, sent, history>>

(* The id of a room is that of its creator. *)
RoomIds == Players
Entering == {"create", "join"}
Request == [kind : Entering \cup {"leave", "action"}, room : RoomIds \cup {Nil}]
Ret   == {"OK", "INVALID_ROOM", "PLAYER_ALREADY_IN_ROOM", "SERVER_ERROR"}
Reply == [ret : Ret, room : RoomIds \cup {Nil}]
NoRequest == [kind |-> "action", room |-> Nil]
Ok(r)      == [ret |-> "OK", room |-> r]
Error(ret) == [ret |-> ret, room |-> Nil]

Init ==
  /\ current_state   = [p \in Players |-> "LOBBY"]
  /\ current_room_id = [p \in Players |-> Nil]
  /\ requests        = [p \in Players |-> <<>>]
  /\ stage           = [p \in Players |-> "idle"]
  /\ request         = [p \in Players |-> NoRequest]
  /\ reply           = [p \in Players |-> Ok(Nil)]
  /\ CurrentRoomID   = [p \in Players |-> Nil]
  /\ responses       = [p \in Players |-> <<>>]
  /\ PlayerInRoom    = [p \in Players |-> Nil]
  /\ members         = [r \in RoomIds |-> {}]
  /\ BattleRooms     = {}
  /\ late            = [p \in Players |-> [q \in Request |-> 0]]
  /\ sent            = 0
  /\ restarts        = 0
  /\ disturbed       = [p \in Players |-> FALSE]

-----------------------------------------------------------------------------
(* Nothing that is to change the place of p is under way. *)
Moves(q) == q.kind # "action"
Quiet(p) ==
  /\ \A i \in DOMAIN requests[p] : ~Moves(requests[p][i])
  /\ stage[p] = "idle" \/ ~Moves(request[p])
  /\ \A i \in DOMAIN responses[p] : ~Moves(responses[p][i][1])

(* send_message.  A player that does not wait for the answer to what it    *)
(* asked before is disturbed.                                              *)
Send(p, kind, room) ==
  /\ sent < MaxRequests
  /\ sent' = sent + 1
  /\ requests' = [requests EXCEPT ![p] = Append(@, [kind |-> kind, room |-> room])]
  /\ disturbed' = [disturbed EXCEPT ![p] = @ \/ ~Quiet(p)]
  /\ UNCHANGED <<responses, handler, CurrentRoomID, battle, late, restarts>>

(* LobbyScreen: the create button. *)
CreateRoom(p) ==
  /\ current_state[p] = "LOBBY"
  /\ Send(p, "create", Nil)
  /\ UNCHANGED screen

(* RoomListScreen: the button of a room in a list that may be old. *)
JoinRoom(p, r) ==
  /\ current_state[p] = "LOBBY"
  /\ Send(p, "join", r)
  /\ current_room_id' = [current_room_id EXCEPT ![p] = r]
  /\ UNCHANGED current_state

(* GameRoom: the leave button shows the lobby at once. *)
LeaveRoom(p) ==
  /\ current_state[p] = "IN_ROOM"
  /\ current_state' = [current_state EXCEPT ![p] = "LOBBY"]
  /\ \/ /\ current_room_id[p] # Nil
        /\ Send(p, "leave", Nil)
        /\ current_room_id' = [current_room_id EXCEPT ![p] = Nil]
     \/ /\ current_room_id[p] = Nil
        /\ UNCHANGED <<current_room_id, wires, handler, CurrentRoomID, battle,
                       late, sent, history>>

(* GameRoom: a step of the local player. *)
SendPosition(p) ==
  /\ current_state[p] = "IN_ROOM"
  /\ current_room_id[p] # Nil
  /\ Send(p, "action", Nil)
  /\ UNCHANGED screen

(* The client takes the next response. *)
Receive(p) ==
  LET q == Head(responses[p])[1]
      a == Head(responses[p])[2]
  IN  /\ responses[p] # <<>>
      /\ responses' = [responses EXCEPT ![p] = Tail(@)]
      /\ \/ /\ a.ret = "OK" /\ q.kind \in Entering
            /\ current_room_id' = [current_room_id EXCEPT ![p] = a.room]
            /\ current_state' = [current_state EXCEPT ![p] = "IN_ROOM"]
         \/ /\ a.ret = "OK" /\ q.kind = "leave"
            /\ current_room_id' = [current_room_id EXCEPT ![p] = Nil]
            /\ UNCHANGED current_state
         \/ /\ a.ret # "OK" \/ q.kind = "action"
            /\ UNCHANGED screen
      /\ UNCHANGED <<requests, handler, CurrentRoomID, battle, late, sent,
                     history>>

-----------------------------------------------------------------------------
(* The handler of the game server. *)

Respond(p, q, a) == responses' = [responses EXCEPT ![p] = Append(@, <<q, a>>)]

(* The request is taken and the battle server is called.  An action goes   *)
(* to CurrentRoomID.                                                       *)
TakeRequest(p) ==
  LET q == Head(requests[p])
  IN  /\ stage[p] = "idle" /\ requests[p] # <<>>
      /\ q.kind = "action" => CurrentRoomID[p] # Nil
      /\ requests' = [requests EXCEPT ![p] = Tail(@)]
      /\ stage' = [stage EXCEPT ![p] = "called"]
      /\ request' = [request EXCEPT ![p] =
                       IF q.kind = "action" THEN [q EXCEPT !.room = CurrentRoomID[p]]
                       ELSE q]
      /\ UNCHANGED <<screen, responses, reply, CurrentRoomID, battle, late,
                     sent, history>>

RefuseAction(p) ==
  LET q == Head(requests[p])
  IN  /\ stage[p] = "idle" /\ requests[p] # <<>>
      /\ q.kind = "action" /\ CurrentRoomID[p] = Nil
      /\ requests' = [requests EXCEPT ![p] = Tail(@)]
      /\ Respond(p, q, Error("INVALID_ROOM"))
      /\ UNCHANGED <<screen, handler, CurrentRoomID, battle, late, sent, history>>

(* The battle server cannot be reached.  A join is not answered. *)
DialFails(p) ==
  LET q == Head(requests[p])
  IN  /\ stage[p] = "idle" /\ requests[p] # <<>>
      /\ q.kind = "action" => CurrentRoomID[p] # Nil
      /\ requests' = [requests EXCEPT ![p] = Tail(@)]
      /\ \/ q.kind # "join" /\ Respond(p, q, Error("SERVER_ERROR"))
         \/ q.kind = "join" /\ UNCHANGED responses
      /\ disturbed' = [disturbed EXCEPT ![p] = @ \/ q.kind = "leave"]
      /\ UNCHANGED <<screen, handler, CurrentRoomID, battle, late, sent,
                     restarts>>

(* The deadline passes, or the answer is lost: an action is not answered.  *)
(* What the battle server has not done yet it may do later.                *)
CallFails(p) ==
  /\ stage[p] # "idle"
  /\ stage' = [stage EXCEPT ![p] = "idle"]
  /\ late' = IF stage[p] = "called"
             THEN [late EXCEPT ![p][request[p]] = @ + 1] ELSE late
  /\ \/ Moves(request[p]) /\ Respond(p, request[p], Error("SERVER_ERROR"))
     \/ ~Moves(request[p]) /\ UNCHANGED responses
  /\ disturbed' = [disturbed EXCEPT ![p] = @ \/ Moves(request[p])]
  /\ UNCHANGED <<screen, requests, request, reply, CurrentRoomID, battle, sent,
                 restarts>>

(* A slip: a leave that succeeded does not clear CurrentRoomID. *)
HandleReplyKeepsRoom(p) ==
  LET q == request[p]
      a == reply[p]
  IN  /\ stage[p] = "replied"
      /\ stage' = [stage EXCEPT ![p] = "idle"]
      /\ Respond(p, q, a)
      /\ CurrentRoomID' =
           [CurrentRoomID EXCEPT ![p] =
              IF a.ret = "OK" /\ q.kind \in Entering THEN a.room ELSE @]
      /\ UNCHANGED <<screen, requests, request, reply, battle, late, sent, history>>

(* The battle server has answered: on success the handler takes over the   *)
(* room id.                                                                *)
HandleReply(p) ==
  LET q == request[p]
      a == reply[p]
  IN  /\ stage[p] = "replied"
      /\ stage' = [stage EXCEPT ![p] = "idle"]
      /\ Respond(p, q, a)
      /\ CurrentRoomID' =
           [CurrentRoomID EXCEPT ![p] =
              IF a.ret = "OK" /\ Moves(q) THEN a.room ELSE @]
      /\ UNCHANGED <<screen, requests, request, reply, battle, late, sent, history>>

-----------------------------------------------------------------------------
(* The calls of the battle server.  BattleServer has their steps; here a   *)
(* call takes effect at once and is answered with a.                       *)

(* A slip: the creator is not entered in PlayerInRoom. *)
CreateRoomRpcUnmapped(p, a) ==
  /\ PlayerInRoom[p] = Nil
  /\ a = Ok(p)
  /\ members' = [members EXCEPT ![p] = {p}]
  /\ BattleRooms' = BattleRooms \cup {p}
  /\ UNCHANGED PlayerInRoom

CreateRoomRpc(p, a) ==
  \/ /\ PlayerInRoom[p] # Nil
     /\ a = Error("PLAYER_ALREADY_IN_ROOM")
     /\ UNCHANGED battle
  \/ /\ PlayerInRoom[p] = Nil
     /\ a = Ok(p)
     /\ PlayerInRoom' = [PlayerInRoom EXCEPT ![p] = p]
     /\ members' = [members EXCEPT ![p] = {p}]
     /\ BattleRooms' = BattleRooms \cup {p}

(* A slip: the room is not looked for among those listed. *)
JoinRoomRpcUnchecked(p, r, a) ==
  /\ a = Ok(r)
  /\ PlayerInRoom' = [PlayerInRoom EXCEPT ![p] = r]
  /\ members' = [members EXCEPT ![r] = @ \cup {p}]
  /\ UNCHANGED BattleRooms

JoinRoomRpc(p, r, a) ==
  \/ /\ r \notin BattleRooms
     /\ a = Error("INVALID_ROOM")
     /\ UNCHANGED battle
  \/ /\ r \in BattleRooms
     /\ a = Ok(r)
     /\ PlayerInRoom' = [PlayerInRoom EXCEPT ![p] = r]
     /\ members' = [members EXCEPT ![r] = @ \cup {p}]
     /\ UNCHANGED BattleRooms

(* The request names a room, and the code does not read it. *)
LeaveRoomRpc(p, a) ==
  LET r == PlayerInRoom[p]
  IN  \/ /\ r = Nil
         /\ a = Error("INVALID_ROOM")
         /\ UNCHANGED battle
      \/ /\ r # Nil
         /\ a = Ok(Nil)
         /\ PlayerInRoom' = [PlayerInRoom EXCEPT ![p] = Nil]
         /\ IF r \in BattleRooms
            THEN /\ members' = [members EXCEPT ![r] = @ \ {p}]
                 /\ BattleRooms' = IF members[r] \subseteq {p}
                                   THEN BattleRooms \ {r} ELSE BattleRooms
            ELSE UNCHANGED <<members, BattleRooms>>

(* The action waits in the room's channel, which is WordCardGame's and     *)
(* RoomPositions'.                                                         *)
PlayerActionRpc(r, a) ==
  /\ a = IF r \in BattleRooms THEN Ok(Nil) ELSE Error("INVALID_ROOM")
  /\ UNCHANGED battle

Call(p, q, a) ==
  \/ q.kind = "create" /\ CreateRoomRpc(p, a)
  \/ q.kind = "join"   /\ JoinRoomRpc(p, q.room, a)
  \/ q.kind = "leave"  /\ LeaveRoomRpc(p, a)
  \/ q.kind = "action" /\ PlayerActionRpc(q.room, a)

(* A player that waits in the lobby and enters a room, with nothing left   *)
(* over from before, is no longer disturbed.                               *)
Settles(p, q, a) ==
  /\ q.kind \in Entering /\ a.ret = "OK"
  /\ current_state[p] = "LOBBY"
  /\ requests[p] = <<>>
  /\ \A i \in DOMAIN responses[p] : ~Moves(responses[p][i][1])
  /\ \A x \in Request : Moves(x) => late[p][x] = 0

Serve(p) ==
  /\ stage[p] = "called"
  /\ \E a \in Reply :
       /\ Call(p, request[p], a)
       /\ reply' = [reply EXCEPT ![p] = a]
       /\ disturbed' = [disturbed EXCEPT ![p] = @ /\ ~Settles(p, request[p], a)]
  /\ stage' = [stage EXCEPT ![p] = "replied"]
  /\ UNCHANGED <<screen, wires, request, CurrentRoomID, late, sent, restarts>>

(* A call that was given up takes effect; nobody waits for the answer. *)
ServeLate(p, q) ==
  /\ late[p][q] > 0
  /\ late' = [late EXCEPT ![p][q] = @ - 1]
  /\ \E a \in Reply : Call(p, q, a)
  /\ UNCHANGED <<screen, wires, handler, CurrentRoomID, sent, history>>

(* The battle server goes down, with the calls that are in it, and docker  *)
(* starts it again.                                                        *)
BattleRestarts ==
  /\ restarts < MaxRestarts
  /\ restarts' = restarts + 1
  /\ PlayerInRoom' = [p \in Players |-> Nil]
  /\ members' = [r \in RoomIds |-> {}]
  /\ BattleRooms' = {}
  /\ late' = [p \in Players |-> [q \in Request |-> 0]]
  /\ stage' = [p \in Players |-> IF stage[p] = "called" THEN "lost" ELSE stage[p]]
  /\ disturbed' = [p \in Players |-> disturbed[p] \/ PlayerInRoom[p] # Nil]
  /\ UNCHANGED <<screen, wires, request, reply, CurrentRoomID, sent>>

-----------------------------------------------------------------------------
Client(p) ==
  \/ CreateRoom(p)
  \/ \E r \in RoomIds : JoinRoom(p, r)
  \/ LeaveRoom(p)
  \/ SendPosition(p)
Handler(p) ==
  \/ TakeRequest(p) \/ RefuseAction(p) \/ DialFails(p)
  \/ CallFails(p) \/ HandleReply(p)

Next ==
  \/ \E p \in Players : Client(p) \/ Receive(p) \/ Handler(p) \/ Serve(p)
  \/ \E p \in Players, q \in Request : ServeLate(p, q)
  \/ BattleRestarts

Spec == Init /\ [][Next]_vars

-----------------------------------------------------------------------------
(* Every variable keeps its type, and the rooms listed are those that      *)
(* somebody is in.                                                         *)
TypeOK ==
  /\ current_state \in [Players -> {"LOBBY", "IN_ROOM"}]
  /\ current_room_id \in [Players -> RoomIds \cup {Nil}]
  /\ requests \in [Players -> Seq(Request)]
  /\ stage \in [Players -> {"idle", "called", "replied", "lost"}]
  /\ request \in [Players -> Request]
  /\ reply \in [Players -> Reply]
  /\ CurrentRoomID \in [Players -> RoomIds \cup {Nil}]
  /\ responses \in [Players -> Seq(Request \X Reply)]
  /\ PlayerInRoom \in [Players -> RoomIds \cup {Nil}]
  /\ members \in [RoomIds -> SUBSET Players]
  /\ BattleRooms = {r \in RoomIds : members[r] # {}}
  /\ late \in [Players -> [Request -> Nat]]
  /\ sent \in 0..MaxRequests
  /\ restarts \in 0..MaxRestarts
  /\ disturbed \in [Players -> BOOLEAN]

(* The client, its handler and the battle server agree on where a player   *)
(* is as soon as nothing that moves it is under way -- unless, since it    *)
(* last settled in a room, a call that moves it failed, the battle server  *)
(* lost it, or the player pressed on without waiting for answers.          *)
PlacesAgree ==
  \A p \in Players :
    Quiet(p) /\ ~disturbed[p] =>
      /\ CurrentRoomID[p] = PlayerInRoom[p]
      /\ current_state[p] = "IN_ROOM" <=> CurrentRoomID[p] # Nil
      /\ current_state[p] = "IN_ROOM" => current_room_id[p] = CurrentRoomID[p]

(* An action reaches the battle server while its player is in the room the *)
(* action goes to, with the same exceptions.                               *)
ActionsReachOwnRoom ==
  \A p \in Players :
    stage[p] = "called" /\ request[p].kind = "action" /\ ~disturbed[p] =>
      request[p].room = PlayerInRoom[p]

-----------------------------------------------------------------------------
(* The inductive invariant behind the two: what is under way of a player   *)
(* that is not disturbed, from the request to the response.                *)

(* One thing at a time, and nothing after it. *)
OneMove(p) ==
  /\ \A i \in DOMAIN requests[p] : Moves(requests[p][i]) =>
       /\ i = Len(requests[p])
       /\ stage[p] = "idle" \/ ~Moves(request[p])
       /\ \A j \in DOMAIN responses[p] : ~Moves(responses[p][j][1])
  /\ stage[p] # "idle" /\ Moves(request[p]) =>
       /\ requests[p] = <<>>
       /\ \A j \in DOMAIN responses[p] : ~Moves(responses[p][j][1])
  /\ \A j \in DOMAIN responses[p] : Moves(responses[p][j][1]) =>
       /\ j = Len(responses[p])
       /\ requests[p] = <<>>
       /\ stage[p] = "idle"

Asked(p, q) ==
  /\ q.kind \in Entering => CurrentRoomID[p] = Nil
  /\ q.kind = "leave" => CurrentRoomID[p] # Nil

Answered(p, q, a) ==
  /\ q.kind \in Entering /\ a.ret = "OK" => a.room # Nil
  /\ q.kind = "leave" => a = Ok(Nil)

(* Where the player is, for each place a request that moves it can be at.  *)
Underway(p) ==
  /\ \A i \in DOMAIN requests[p] : Moves(requests[p][i]) => Asked(p, requests[p][i])
  /\ stage[p] \in {"called", "lost"} /\ Moves(request[p]) => Asked(p, request[p])
  /\ stage[p] = "replied" /\ Moves(request[p]) =>
       /\ Answered(p, request[p], reply[p])
       /\ reply[p].ret = "OK" => reply[p].room = PlayerInRoom[p]
       /\ reply[p].ret # "OK" => CurrentRoomID[p] = Nil /\ PlayerInRoom[p] = Nil
  /\ ~(stage[p] = "replied" /\ Moves(request[p])) => CurrentRoomID[p] = PlayerInRoom[p]
  /\ \A j \in DOMAIN responses[p] : Moves(responses[p][j][1]) =>
       /\ Answered(p, responses[p][j][1], responses[p][j][2])
       /\ CurrentRoomID[p] = IF responses[p][j][2].ret = "OK"
                             THEN responses[p][j][2].room ELSE Nil

OnScreen(p) ==
  /\ current_state[p] = "IN_ROOM" =>
       Quiet(p) /\ CurrentRoomID[p] # Nil /\ current_room_id[p] = CurrentRoomID[p]
  /\ current_state[p] = "LOBBY" /\ Quiet(p) => CurrentRoomID[p] = Nil

Placed(p) ==
  ~disturbed[p] =>
    /\ OneMove(p)
    /\ Underway(p)
    /\ OnScreen(p)
    /\ \A q \in Request : Moves(q) => late[p][q] = 0
    /\ stage[p] = "called" /\ ~Moves(request[p]) => request[p].room = PlayerInRoom[p]

PlacesInv == \A p \in Players : Placed(p)
=============================================================================
