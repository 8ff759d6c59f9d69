------------------------- MODULE RoomSession_proofs -------------------------
(* The three places agree, and actions reach their player's room, for any  *)
(* number of players, requests and restarts.                               *)
EXTENDS RoomSession, SequenceTheorems, TLAPS

(* A call of the battle server keeps its maps typed, and lists the rooms   *)
(* that somebody is in.                                                    *)
LEMMA CallTyped ==
  ASSUME NEW p \in Players, NEW q \in Request, NEW a, Call(p, q, a),
         PlayerInRoom \in [Players -> RoomIds \cup {Nil}],
         members \in [RoomIds -> SUBSET Players],
         BattleRooms = {r \in RoomIds : members[r] # {}}
  PROVE  /\ PlayerInRoom' \in [Players -> RoomIds \cup {Nil}]
         /\ members' \in [RoomIds -> SUBSET Players]
         /\ BattleRooms' = {r \in RoomIds : members'[r] # {}}
<1> USE DEF RoomIds, Request, Entering
<1>1. CASE CreateRoomRpc(p, a)
  BY <1>1 DEF CreateRoomRpc, battle
<1>2. CASE q.kind = "join" /\ JoinRoomRpc(p, q.room, a)
  BY <1>2 DEF JoinRoomRpc, battle
<1>3. CASE LeaveRoomRpc(p, a)
  BY <1>3 DEF LeaveRoomRpc, battle
<1>4. CASE PlayerActionRpc(q.room, a)
  BY <1>4 DEF PlayerActionRpc, battle
<1> QED
  BY <1>1, <1>2, <1>3, <1>4 DEF Call

(* Every variable keeps its type, and the rooms listed are those that      *)
(* somebody is in.                                                         *)
THEOREM TypeCorrect == Spec => []TypeOK
<1> USE RoomSessionAssumption
<1>1. Init => TypeOK
  BY DEF Init, TypeOK, NoRequest, Request, Reply, Ret, Ok, Entering, RoomIds
<1>2. TypeOK /\ [Next]_vars => TypeOK'
  <2> SUFFICES ASSUME TypeOK, [Next]_vars
               PROVE  TypeOK'
    OBVIOUS
  <2> USE DEF TypeOK, RoomIds, screen, wires, handler, battle, history
  <2>1. ASSUME NEW p \in Players, NEW kind \in Entering \cup {"leave", "action"},
               NEW room \in RoomIds \cup {Nil}, Send(p, kind, room)
        PROVE  /\ requests' \in [Players -> Seq(Request)]
               /\ sent' \in 0..MaxRequests
               /\ disturbed' \in [Players -> BOOLEAN]
    <3>1. [kind |-> kind, room |-> room] \in Request
      BY DEF Request
    <3> QED
      BY <2>1, <3>1 DEF Send
  <2>2. ASSUME NEW p \in Players, CreateRoom(p)
        PROVE  TypeOK'
    BY <2>2, <2>1 DEF CreateRoom, Send, Entering
  <2>3. ASSUME NEW p \in Players, NEW r \in RoomIds, JoinRoom(p, r)
        PROVE  TypeOK'
    BY <2>3, <2>1 DEF JoinRoom, Send, Entering
  <2>4. ASSUME NEW p \in Players, LeaveRoom(p)
        PROVE  TypeOK'
    BY <2>4, <2>1 DEF LeaveRoom, Send, Entering
  <2>5. ASSUME NEW p \in Players, SendPosition(p)
        PROVE  TypeOK'
    BY <2>5, <2>1 DEF SendPosition, Send, Entering
  <2>6. ASSUME NEW p \in Players, Receive(p)
        PROVE  TypeOK'
    <3>1. Head(responses[p]) \in Request \X Reply /\ Tail(responses[p]) \in Seq(Request \X Reply)
      BY <2>6, HeadTailProperties DEF Receive
    <3>2. Head(responses[p])[2].room \in RoomIds \cup {Nil}
      BY <3>1 DEF Reply
    <3> QED
      BY <2>6, <3>1, <3>2 DEF Receive
  <2>7. ASSUME NEW p \in Players, requests[p] # <<>>
        PROVE  Head(requests[p]) \in Request /\ Tail(requests[p]) \in Seq(Request)
    BY <2>7, HeadTailProperties
  <2>8. ASSUME NEW p \in Players, NEW q \in Request, NEW a \in Reply, Respond(p, q, a)
        PROVE  responses' \in [Players -> Seq(Request \X Reply)]
    BY <2>8, AppendProperties DEF Respond
  <2>9. Error("INVALID_ROOM") \in Reply /\ Error("SERVER_ERROR") \in Reply
    BY DEF Error, Reply, Ret
  <2>10. ASSUME NEW p \in Players, TakeRequest(p)
         PROVE  TypeOK'
    <3>1. [Head(requests[p]) EXCEPT !.room = CurrentRoomID[p]] \in Request
      BY <2>10, <2>7 DEF TakeRequest, Request
    <3> QED
      BY <2>10, <2>7, <3>1 DEF TakeRequest
  <2>11. ASSUME NEW p \in Players, RefuseAction(p)
         PROVE  TypeOK'
    BY <2>11, <2>7, <2>8, <2>9 DEF RefuseAction
  <2>12. ASSUME NEW p \in Players, DialFails(p)
         PROVE  TypeOK'
    <3>1. responses' \in [Players -> Seq(Request \X Reply)]
      BY <2>12, <2>7, <2>8, <2>9 DEF DialFails
    <3> QED
      BY <2>12, <2>7, <3>1 DEF DialFails
  <2>13. ASSUME NEW p \in Players, CallFails(p)
         PROVE  TypeOK'
    <3>1. responses' \in [Players -> Seq(Request \X Reply)]
      BY <2>13, <2>8, <2>9 DEF CallFails
    <3>2. late' \in [Players -> [Request -> Nat]]
      BY <2>13 DEF CallFails
    <3> QED
      BY <2>13, <3>1, <3>2 DEF CallFails
  <2>14. ASSUME NEW p \in Players, HandleReply(p)
         PROVE  TypeOK'
    <3>1. reply[p].room \in RoomIds \cup {Nil}
      BY DEF Reply
    <3> QED
      BY <2>14, <2>8, <3>1 DEF HandleReply
  <2>15. ASSUME NEW p \in Players, Serve(p)
         PROVE  TypeOK'
    <3>1. PICK a \in Reply :
             /\ Call(p, request[p], a)
             /\ reply' = [reply EXCEPT ![p] = a]
             /\ disturbed' = [disturbed EXCEPT ![p] = @ /\ ~Settles(p, request[p], a)]
      BY <2>15 DEF Serve
    <3>2. /\ PlayerInRoom' \in [Players -> RoomIds \cup {Nil}]
          /\ members' \in [RoomIds -> SUBSET Players]
          /\ BattleRooms' = {r \in RoomIds : members'[r] # {}}
      BY <3>1, CallTyped
    <3>3. disturbed' \in [Players -> BOOLEAN]
      BY <3>1
    <3>4. /\ stage' = [stage EXCEPT ![p] = "replied"]
          /\ UNCHANGED <<screen, wires, request, CurrentRoomID, late, sent, restarts>>
      BY <2>15 DEF Serve
    <3> QED
      BY <3>1, <3>2, <3>3, <3>4
  <2>16. ASSUME NEW p \in Players, NEW q \in Request, ServeLate(p, q)
         PROVE  TypeOK'
    <3>1. PICK a \in Reply : Call(p, q, a)
      BY <2>16 DEF ServeLate
    <3>2. /\ PlayerInRoom' \in [Players -> RoomIds \cup {Nil}]
          /\ members' \in [RoomIds -> SUBSET Players]
          /\ BattleRooms' = {r \in RoomIds : members'[r] # {}}
      BY <3>1, CallTyped
    <3>3. late' \in [Players -> [Request -> Nat]]
      <4>1. late[p] \in [Request -> Nat] /\ late[p][q] \in Nat /\ late[p][q] > 0
        BY <2>16 DEF ServeLate
      <4>2. [late[p] EXCEPT ![q] = @ - 1] \in [Request -> Nat]
        BY <4>1
      <4>3. late' = [late EXCEPT ![p] = [late[p] EXCEPT ![q] = @ - 1]]
        BY <2>16 DEF ServeLate
      <4> QED
        BY <4>2, <4>3
    <3> QED
      BY <2>16, <3>2, <3>3 DEF ServeLate
  <2>17. CASE BattleRestarts
    BY <2>17 DEF BattleRestarts
  <2>18. CASE UNCHANGED vars
    BY <2>18 DEF vars
  <2> QED
    BY <2>2, <2>3, <2>4, <2>5, <2>6, <2>10, <2>11, <2>12, <2>13, <2>14, <2>15,
       <2>16, <2>17, <2>18 DEF Next, Client, Handler
<1> QED
  BY <1>1, <1>2, PTL DEF Spec

-----------------------------------------------------------------------------
LEMMA AppendAt ==
  ASSUME NEW S, NEW s \in Seq(S), NEW e \in S
  PROVE  /\ DOMAIN Append(s, e) = 1..(Len(s) + 1)
         /\ Len(Append(s, e)) = Len(s) + 1
         /\ DOMAIN s = 1..Len(s) /\ Len(s) \in Nat
         /\ \A i \in DOMAIN s : Append(s, e)[i] = s[i]
         /\ Append(s, e)[Len(s) + 1] = e
OBVIOUS

LEMMA TailAt ==
  ASSUME NEW S, NEW s \in Seq(S), s # <<>>
  PROVE  /\ DOMAIN Tail(s) = 1..(Len(s) - 1)
         /\ Len(Tail(s)) = Len(s) - 1
         /\ DOMAIN s = 1..Len(s) /\ Len(s) \in Nat \ {0}
         /\ \A i \in DOMAIN Tail(s) : i + 1 \in DOMAIN s /\ Tail(s)[i] = s[i + 1]
         /\ \A i \in DOMAIN s : i # 1 => i - 1 \in DOMAIN Tail(s) /\ s[i] = Tail(s)[i - 1]
         /\ Head(s) = s[1] /\ 1 \in DOMAIN s
OBVIOUS

LEMMA LastOfTail ==
  ASSUME NEW n \in Nat, NEW i \in 1..(n - 1), i + 1 = n
  PROVE  i = n - 1 /\ n # 1 /\ 1..(1 - 1) = {}
OBVIOUS

LEMMA TailOfOne ==
  ASSUME NEW S, NEW s \in Seq(S), s # <<>>, Len(s) = 1
  PROVE  Tail(s) = <<>>
<1>1. Tail(s) \in Seq(S) /\ Len(Tail(s)) = 0
  BY HeadTailProperties
<1> QED
  BY <1>1, EmptySeq

(* Everything that Placed(p) looks at. *)
Things(p) == <<current_state[p], current_room_id[p], requests[p], stage[p],
               request[p], reply[p], CurrentRoomID[p], responses[p],
               PlayerInRoom[p], late[p], disturbed[p]>>

LEMMA Untouched ==
  ASSUME NEW p \in Players, Placed(p), Things(p)' = Things(p)
  PROVE  Placed(p)'
BY DEF Things, Placed, OneMove, Underway, OnScreen, Asked, Answered, Quiet

(* A call for one player leaves the others where they are. *)
LEMMA CallOfAnother ==
  ASSUME NEW p \in Players, NEW o \in Players, o # p, NEW q, NEW a, Call(o, q, a),
         PlayerInRoom \in [Players -> RoomIds \cup {Nil}]
  PROVE  PlayerInRoom'[p] = PlayerInRoom[p]
BY DEF Call, CreateRoomRpc, JoinRoomRpc, LeaveRoomRpc, PlayerActionRpc, battle

(* A call that is answered as Placed says it is: where the player is       *)
(* afterwards.                                                             *)
LEMMA CallMoves ==
  ASSUME NEW p \in Players, NEW q \in Request, NEW a \in Reply, Call(p, q, a), TypeOK
  PROVE  /\ ~Moves(q) => UNCHANGED PlayerInRoom
         /\ a.ret # "OK" => UNCHANGED PlayerInRoom
         /\ Moves(q) /\ a.ret = "OK" => a.room = PlayerInRoom'[p]
         /\ q.kind \in Entering /\ a.ret = "OK" => a.room # Nil
         /\ q.kind = "leave" /\ PlayerInRoom[p] # Nil => a = Ok(Nil)
<1> USE RoomSessionAssumption DEF TypeOK, RoomIds, Request, Entering, Moves, Ok, Error, battle
<1>1. CASE q.kind = "create" /\ CreateRoomRpc(p, a)
  BY <1>1 DEF CreateRoomRpc
<1>2. CASE q.kind = "join" /\ JoinRoomRpc(p, q.room, a)
  BY <1>2 DEF JoinRoomRpc
<1>3. CASE q.kind = "leave" /\ LeaveRoomRpc(p, a)
  BY <1>3 DEF LeaveRoomRpc
<1>4. CASE q.kind = "action" /\ PlayerActionRpc(q.room, a)
  BY <1>4 DEF PlayerActionRpc
<1> QED
  BY <1>1, <1>2, <1>3, <1>4 DEF Call

(* A player that sends a request that moves it waits for nothing, so the   *)
(* request is alone on its way.                                            *)
LEMMA SendPlaced ==
  ASSUME NEW p \in Players, NEW kind \in Entering \cup {"leave", "action"},
         NEW room \in RoomIds \cup {Nil}, Send(p, kind, room), TypeOK, Placed(p),
         kind \in Entering => current_state[p] = "LOBBY" /\ current_state'[p] = "LOBBY",
         kind = "leave" => current_state[p] = "IN_ROOM" /\ current_state'[p] = "LOBBY",
         kind = "action" => UNCHANGED screen
  PROVE  Placed(p)'
<1> DEFINE q == [kind |-> kind, room |-> room]
<1> USE DEF TypeOK
<1>1. SUFFICES ASSUME ~disturbed'[p]
               PROVE  /\ OneMove(p)'
                      /\ Underway(p)'
                      /\ OnScreen(p)'
                      /\ \A x \in Request : Moves(x) => late'[p][x] = 0
                      /\ stage'[p] = "called" /\ ~Moves(request'[p])
                           => request'[p].room = PlayerInRoom'[p]
  BY DEF Placed
<1>2. /\ q \in Request
      /\ requests'[p] = Append(requests[p], q)
      /\ UNCHANGED <<responses, handler, CurrentRoomID, battle, late>>
      /\ ~disturbed[p] /\ Quiet(p)
  BY <1>1 DEF Send, Request
<1>3. /\ OneMove(p) /\ Underway(p) /\ OnScreen(p)
      /\ \A x \in Request : Moves(x) => late[p][x] = 0
      /\ stage[p] = "called" /\ ~Moves(request[p]) => request[p].room = PlayerInRoom[p]
  BY <1>2 DEF Placed
<1>4. /\ DOMAIN requests'[p] = 1..(Len(requests[p]) + 1)
      /\ Len(requests'[p]) = Len(requests[p]) + 1
      /\ \A i \in 1..Len(requests[p]) : requests'[p][i] = requests[p][i]
                                      /\ ~Moves(requests'[p][i])
      /\ requests'[p][Len(requests[p]) + 1] = q
      /\ Len(requests[p]) \in Nat
  BY <1>2, AppendAt DEF Quiet
<1>5. OneMove(p)'
  BY <1>2, <1>3, <1>4 DEF OneMove, Quiet, handler
<1>6. Asked(p, q)
  BY <1>2, <1>3 DEF Asked, OnScreen, Moves, Entering
<1>7. Underway(p)'
  BY <1>2, <1>3, <1>4, <1>6 DEF Underway, Quiet, handler, battle, Asked, Answered
<1>8. OnScreen(p)'
  BY <1>2, <1>3, <1>4 DEF OnScreen, Quiet, handler, screen, Entering, Moves
<1> QED
  BY <1>2, <1>3, <1>5, <1>7, <1>8 DEF handler, battle

LEMMA ReceivePlaced ==
  ASSUME NEW p \in Players, Receive(p), TypeOK, Placed(p)
  PROVE  Placed(p)'
<1> USE DEF TypeOK
<1>1. SUFFICES ASSUME ~disturbed'[p]
               PROVE  /\ OneMove(p)'
                      /\ Underway(p)'
                      /\ OnScreen(p)'
                      /\ \A x \in Request : Moves(x) => late'[p][x] = 0
                      /\ stage'[p] = "called" /\ ~Moves(request'[p])
                           => request'[p].room = PlayerInRoom'[p]
  BY DEF Placed
<1>2. /\ responses[p] # <<>> /\ responses'[p] = Tail(responses[p])
      /\ UNCHANGED <<requests, handler, CurrentRoomID, battle, late>>
      /\ ~disturbed[p]
  BY <1>1 DEF Receive, history
<1>3. /\ OneMove(p) /\ Underway(p) /\ OnScreen(p)
      /\ \A x \in Request : Moves(x) => late[p][x] = 0
      /\ stage[p] = "called" /\ ~Moves(request[p]) => request[p].room = PlayerInRoom[p]
  BY <1>2 DEF Placed
<1>4. /\ DOMAIN responses'[p] = 1..(Len(responses[p]) - 1)
      /\ Len(responses'[p]) = Len(responses[p]) - 1
      /\ DOMAIN responses[p] = 1..Len(responses[p])
      /\ Len(responses[p]) \in Nat \ {0}
      /\ \A i \in DOMAIN responses'[p] :
           i + 1 \in DOMAIN responses[p] /\ responses'[p][i] = responses[p][i + 1]
      /\ \A i \in DOMAIN responses[p] : i # 1 =>
           i - 1 \in DOMAIN responses'[p] /\ responses[p][i] = responses'[p][i - 1]
      /\ Head(responses[p]) = responses[p][1] /\ 1 \in DOMAIN responses[p]
  BY <1>2, TailAt
<1>5. OneMove(p)'
  <2>1. ASSUME NEW j \in DOMAIN responses'[p], Moves(responses'[p][j][1])
        PROVE  /\ j = Len(responses'[p])
               /\ requests[p] = <<>>
               /\ stage[p] = "idle"
    <3>1. j + 1 \in DOMAIN responses[p] /\ Moves(responses[p][j + 1][1])
      BY <1>4, <2>1
    <3>2. j + 1 = Len(responses[p]) /\ requests[p] = <<>> /\ stage[p] = "idle"
      BY <1>3, <3>1 DEF OneMove
    <3>3. j \in 1..(Len(responses[p]) - 1)
      BY <1>4
    <3>4. Len(responses'[p]) = Len(responses[p]) - 1 /\ Len(responses[p]) \in Nat
      BY <1>4
    <3>5. j = Len(responses'[p])
      BY <3>2, <3>3, <3>4
    <3> QED
      BY <3>2, <3>5
  <2>2. (\A j \in DOMAIN responses[p] : ~Moves(responses[p][j][1]))
        => \A j \in DOMAIN responses'[p] : ~Moves(responses'[p][j][1])
    BY <1>4
  <2> QED
    BY <1>2, <1>3, <2>1, <2>2 DEF OneMove, handler
<1>6. Underway(p)'
  <2>1. ASSUME NEW j \in DOMAIN responses'[p], Moves(responses'[p][j][1])
        PROVE  /\ Answered(p, responses'[p][j][1], responses'[p][j][2])
               /\ CurrentRoomID[p] = IF responses'[p][j][2].ret = "OK"
                                     THEN responses'[p][j][2].room ELSE Nil
    <3>1. j + 1 \in DOMAIN responses[p] /\ responses[p][j + 1] = responses'[p][j]
      BY <1>4
    <3>2. Moves(responses[p][j + 1][1])
      BY <2>1, <3>1
    <3> QED
      BY <1>3, <3>1, <3>2 DEF Underway
  <2> QED
    BY <1>2, <1>3, <2>1 DEF Underway, handler, battle, Asked, Answered
<1>7. OnScreen(p)'
  <2> DEFINE q == Head(responses[p])[1]
             a == Head(responses[p])[2]
  <2>1. CASE ~Moves(q)
    <3>1. UNCHANGED screen
      BY <2>1 DEF Receive, Moves, Entering
    <3>2. Quiet(p)' <=> Quiet(p)
      BY <1>2, <1>4, <2>1 DEF Quiet, handler
    <3> QED
      BY <1>2, <1>3, <3>1, <3>2 DEF OnScreen, screen
  <2>2. CASE Moves(q)
    <3>1. /\ Len(responses[p]) = 1 /\ requests[p] = <<>> /\ stage[p] = "idle"
      BY <1>3, <1>4, <2>2 DEF OneMove
    <3>2. Quiet(p)' /\ ~Quiet(p)
      BY <1>2, <1>4, <2>2, <3>1 DEF Quiet, handler
    <3>3. current_state[p] = "LOBBY"
      BY <1>3, <3>2 DEF OnScreen
    <3>4. /\ q.kind \in Entering /\ a.ret = "OK" => a.room # Nil
          /\ q.kind = "leave" => a.ret = "OK" /\ a.room = Nil
          /\ CurrentRoomID[p] = IF a.ret = "OK" THEN a.room ELSE Nil
      <4>1. 1 \in DOMAIN responses[p] /\ q = responses[p][1][1] /\ a = responses[p][1][2]
        BY <1>4
      <4>2. Moves(responses[p][1][1])
        BY <2>2, <4>1
      <4>3. /\ Answered(p, responses[p][1][1], responses[p][1][2])
            /\ CurrentRoomID[p] = IF responses[p][1][2].ret = "OK"
                                  THEN responses[p][1][2].room ELSE Nil
        BY <1>3, <4>1, <4>2 DEF Underway
      <4> HIDE DEF q, a
      <4> QED
        BY <4>1, <4>3 DEF Answered, Ok
    <3>5. CASE a.ret = "OK" /\ q.kind \in Entering
      BY <1>2, <3>2, <3>4, <3>5 DEF Receive, OnScreen, Entering
    <3>6. CASE ~(a.ret = "OK" /\ q.kind \in Entering)
      <4>1. CurrentRoomID'[p] = Nil /\ current_state'[p] = "LOBBY"
        <5>1. Head(responses[p]) \in Request \X Reply
          BY <1>2, HeadTailProperties
        <5>2. q.kind \in Entering \cup {"leave"}
          BY <2>2, <5>1 DEF Moves, Request
        <5> QED
          BY <1>2, <3>3, <3>4, <3>6, <5>2 DEF Receive, screen, Entering
      <4> QED
        BY <4>1 DEF OnScreen
    <3> QED
      BY <3>5, <3>6
  <2> QED
    BY <2>1, <2>2
<1> QED
  BY <1>2, <1>3, <1>5, <1>6, <1>7 DEF handler, battle

(* Whatever becomes of a request that was taken, nothing follows one that  *)
(* moves the player.                                                       *)
LEMMA TakePlaced ==
  ASSUME NEW p \in Players, TakeRequest(p), TypeOK, Placed(p)
  PROVE  Placed(p)'
<1> USE DEF TypeOK
<1>1. SUFFICES ASSUME ~disturbed'[p]
               PROVE  /\ OneMove(p)'
                      /\ Underway(p)'
                      /\ OnScreen(p)'
                      /\ \A x \in Request : Moves(x) => late'[p][x] = 0
                      /\ stage'[p] = "called" /\ ~Moves(request'[p])
                           => request'[p].room = PlayerInRoom'[p]
  BY DEF Placed
<1> DEFINE q == Head(requests[p])
<1>2. /\ stage[p] = "idle" /\ stage'[p] = "called"
      /\ requests[p] # <<>> /\ requests'[p] = Tail(requests[p])
      /\ ~Moves(q) => request'[p] = [q EXCEPT !.room = CurrentRoomID[p]]
      /\ Moves(q) => request'[p] = q
      /\ UNCHANGED <<screen, responses, reply, CurrentRoomID, battle, late>>
      /\ ~disturbed[p]
  BY <1>1 DEF TakeRequest, history, Moves
<1>3. /\ OneMove(p) /\ Underway(p) /\ OnScreen(p)
      /\ \A x \in Request : Moves(x) => late[p][x] = 0
  BY <1>2 DEF Placed
<1>4. /\ DOMAIN requests'[p] = 1..(Len(requests[p]) - 1)
      /\ Len(requests'[p]) = Len(requests[p]) - 1
      /\ DOMAIN requests[p] = 1..Len(requests[p])
      /\ Len(requests[p]) \in Nat \ {0}
      /\ \A i \in DOMAIN requests'[p] :
           i + 1 \in DOMAIN requests[p] /\ requests'[p][i] = requests[p][i + 1]
      /\ \A i \in DOMAIN requests[p] : i # 1 =>
           i - 1 \in DOMAIN requests'[p] /\ requests[p][i] = requests'[p][i - 1]
      /\ q = requests[p][1] /\ 1 \in DOMAIN requests[p]
  BY <1>2, TailAt
<1>5. /\ Moves(request'[p]) <=> Moves(q)
      /\ ~Moves(request'[p]) => request'[p].room = CurrentRoomID[p]
  <2>1. q \in Request
    BY <1>2, HeadTailProperties
  <2> QED
    BY <2>1, <1>2 DEF Moves, Request
<1>6. Moves(q) => Len(requests[p]) = 1 /\ requests'[p] = <<>>
  <2>1. ASSUME Moves(q)
        PROVE  Len(requests[p]) = 1
    <3>1. 1 \in DOMAIN requests[p] /\ Moves(requests[p][1])
      BY <1>4, <2>1
    <3> QED
      BY <1>3, <3>1 DEF OneMove
  <2> QED
    BY <1>2, <2>1, TailOfOne
<1>7. OneMove(p)'
  <2>1. ASSUME NEW i \in DOMAIN requests'[p], Moves(requests'[p][i])
        PROVE  /\ i = Len(requests'[p])
               /\ ~Moves(q)
               /\ \A j \in DOMAIN responses[p] : ~Moves(responses[p][j][1])
    <3>1. i + 1 \in DOMAIN requests[p] /\ Moves(requests[p][i + 1])
      BY <1>4, <2>1
    <3>2. /\ i + 1 = Len(requests[p])
          /\ \A j \in DOMAIN responses[p] : ~Moves(responses[p][j][1])
      BY <1>3, <3>1 DEF OneMove
    <3>3. i \in 1..(Len(requests[p]) - 1)
      BY <1>4
    <3>4. Len(requests'[p]) = Len(requests[p]) - 1 /\ Len(requests[p]) \in Nat
      BY <1>4
    <3>5. i = Len(requests'[p])
      BY <3>2, <3>3, <3>4
    <3>6. Len(requests[p]) # 1
      BY <3>2, <3>3, <3>4, LastOfTail
    <3>7. ~Moves(q)
      BY <1>6, <3>6
    <3> QED
      BY <3>2, <3>5, <3>7
  <2>2. Moves(q) => \A j \in DOMAIN responses[p] : ~Moves(responses[p][j][1])
    BY <1>3, <1>4 DEF OneMove
  <2>3. \A j \in DOMAIN responses[p] : ~Moves(responses[p][j][1])
                                      \/ requests[p] = <<>>
    BY <1>3 DEF OneMove
  <2>4. \A j \in DOMAIN responses[p] : ~Moves(responses[p][j][1])
    BY <1>2, <2>3
  <2> QED
    BY <1>2, <1>5, <1>6, <2>1, <2>2, <2>4 DEF OneMove
<1>8. Underway(p)'
  BY <1>2, <1>3, <1>4, <1>5, <1>6 DEF Underway, battle, Asked, Answered
<1>9. Quiet(p)' <=> Quiet(p)
  <2>1. (\A i \in DOMAIN requests[p] : ~Moves(requests[p][i]))
        <=> ~Moves(q) /\ \A i \in DOMAIN requests'[p] : ~Moves(requests'[p][i])
    BY <1>4
  <2> QED
    BY <1>2, <1>5, <2>1 DEF Quiet
<1>10. OnScreen(p)'
  BY <1>2, <1>3, <1>9 DEF OnScreen, screen
<1>11. CurrentRoomID[p] = PlayerInRoom[p]
  BY <1>2, <1>3 DEF Underway
<1> QED
  BY <1>2, <1>3, <1>5, <1>7, <1>8, <1>10, <1>11 DEF battle

(* A request that is answered, or lost, without the battle server.         *)
LEMMA RefusePlaced ==
  ASSUME NEW p \in Players, RefuseAction(p) \/ DialFails(p), TypeOK, Placed(p)
  PROVE  Placed(p)'
<1> USE DEF TypeOK
<1> DEFINE q == Head(requests[p])
<1>1. SUFFICES ASSUME ~disturbed'[p]
               PROVE  /\ OneMove(p)'
                      /\ Underway(p)'
                      /\ OnScreen(p)'
                      /\ \A x \in Request : Moves(x) => late'[p][x] = 0
                      /\ stage'[p] = "called" /\ ~Moves(request'[p])
                           => request'[p].room = PlayerInRoom'[p]
  BY DEF Placed
<1>2. /\ stage[p] = "idle"
      /\ requests[p] # <<>> /\ requests'[p] = Tail(requests[p])
      /\ UNCHANGED <<screen, handler, CurrentRoomID, battle, late>>
      /\ ~disturbed[p]
  BY <1>1 DEF RefuseAction, DialFails, history
<1>3. q \in Request
  BY <1>2, HeadTailProperties
<1>4. /\ q.kind # "leave"
      /\ \/ responses'[p] = responses[p] /\ Moves(q)
         \/ \E a \in Reply : responses'[p] = Append(responses[p], <<q, a>>) /\ a.ret # "OK"
  <2>1. /\ Error("INVALID_ROOM") \in Reply /\ Error("INVALID_ROOM").ret # "OK"
        /\ Error("SERVER_ERROR") \in Reply /\ Error("SERVER_ERROR").ret # "OK"
    BY DEF Error, Reply, Ret
  <2>2. CASE RefuseAction(p)
    BY <2>1, <2>2 DEF RefuseAction, Respond
  <2>3. CASE DialFails(p)
    <3>1. q.kind # "leave"
      BY <1>1, <2>3 DEF DialFails
    <3>2. CASE q.kind # "join" /\ Respond(p, q, Error("SERVER_ERROR"))
      BY <2>1, <3>1, <3>2 DEF Respond
    <3>3. CASE q.kind = "join" /\ UNCHANGED responses
      BY <3>1, <3>3 DEF Moves
    <3> QED
      BY <2>3, <3>2, <3>3 DEF DialFails
  <2> QED
    BY <2>2, <2>3
<1>5. /\ OneMove(p) /\ Underway(p) /\ OnScreen(p)
      /\ \A x \in Request : Moves(x) => late[p][x] = 0
  BY <1>2 DEF Placed
<1>6. /\ DOMAIN requests'[p] = 1..(Len(requests[p]) - 1)
      /\ Len(requests'[p]) = Len(requests[p]) - 1
      /\ DOMAIN requests[p] = 1..Len(requests[p])
      /\ Len(requests[p]) \in Nat \ {0}
      /\ \A i \in DOMAIN requests'[p] :
           i + 1 \in DOMAIN requests[p] /\ requests'[p][i] = requests[p][i + 1]
      /\ \A i \in DOMAIN requests[p] : i # 1 =>
           i - 1 \in DOMAIN requests'[p] /\ requests[p][i] = requests'[p][i - 1]
      /\ q = requests[p][1] /\ 1 \in DOMAIN requests[p]
  BY <1>2, TailAt
(* No response under way moves the player: the request was behind it. *)
<1>7. \A j \in DOMAIN responses[p] : ~Moves(responses[p][j][1])
  BY <1>2, <1>5 DEF OneMove
<1>8. \A j \in DOMAIN responses'[p] : Moves(responses'[p][j][1]) =>
        /\ j = Len(responses'[p])
        /\ responses'[p][j][1] = q /\ Moves(q)
        /\ responses'[p][j][2].ret # "OK"
  <2>1. CASE responses'[p] = responses[p]
    BY <1>7, <2>1
  <2>2. ASSUME NEW a \in Reply, responses'[p] = Append(responses[p], <<q, a>>), a.ret # "OK"
        PROVE  <1>8!:
    <3>1. <<q, a>> \in Request \X Reply
      BY <1>3
    <3>2. /\ DOMAIN responses'[p] = 1..(Len(responses[p]) + 1)
          /\ Len(responses'[p]) = Len(responses[p]) + 1
          /\ Len(responses[p]) \in Nat
          /\ \A j \in 1..Len(responses[p]) : responses'[p][j] = responses[p][j]
                                          /\ ~Moves(responses[p][j][1])
          /\ responses'[p][Len(responses[p]) + 1] = <<q, a>>
      <4>1. /\ DOMAIN responses'[p] = 1..(Len(responses[p]) + 1)
            /\ Len(responses'[p]) = Len(responses[p]) + 1
            /\ DOMAIN responses[p] = 1..Len(responses[p])
            /\ Len(responses[p]) \in Nat
            /\ \A j \in DOMAIN responses[p] : responses'[p][j] = responses[p][j]
            /\ responses'[p][Len(responses[p]) + 1] = <<q, a>>
        <5>1. responses[p] \in Seq(Request \X Reply)
          OBVIOUS
        <5> HIDE DEF TypeOK, q
        <5> QED
          BY <2>2, <3>1, <5>1, AppendAt
      <4> QED
        BY <4>1, <1>7
    <3> SUFFICES ASSUME NEW j \in DOMAIN responses'[p], Moves(responses'[p][j][1])
                 PROVE  /\ j = Len(responses'[p])
                        /\ responses'[p][j][1] = q /\ Moves(q)
                        /\ responses'[p][j][2].ret # "OK"
      OBVIOUS
    <3>3. j \in 1..(Len(responses[p]) + 1) /\ j \notin 1..Len(responses[p])
      BY <3>2
    <3>4. j = Len(responses[p]) + 1
      BY <3>2, <3>3
    <3>5. j = Len(responses'[p]) /\ responses'[p][j] = <<q, a>>
      BY <3>2, <3>4
    <3>6. responses'[p][j][1] = q /\ responses'[p][j][2] = a
      BY <3>5
    <3> QED
      BY <2>2, <3>5, <3>6
  <2> QED
    BY <1>4, <2>1, <2>2
<1>9. Moves(q) => /\ requests'[p] = <<>> /\ DOMAIN requests'[p] = {}
                  /\ q.kind \in Entering /\ CurrentRoomID[p] = Nil
  <2>1. ASSUME Moves(q)
        PROVE  Len(requests[p]) = 1
    <3>1. 1 \in DOMAIN requests[p] /\ Moves(requests[p][1])
      BY <1>6, <2>1
    <3> QED
      BY <1>5, <3>1 DEF OneMove
  <2>4. Moves(q) => requests'[p] = <<>>
    BY <1>2, <2>1, TailOfOne
  <2>5. Moves(q) => DOMAIN requests'[p] = {}
    BY <2>4
  <2>2. Moves(q) => q.kind \in Entering
    BY <1>3, <1>4 DEF Moves, Request
  <2>3. Moves(q) => Asked(p, q)
    BY <1>5, <1>6 DEF Underway
  <2> QED
    BY <2>2, <2>3, <2>4, <2>5 DEF Asked
<1>10. ~Moves(q) => \A j \in DOMAIN responses'[p] : ~Moves(responses'[p][j][1])
  BY <1>8
<1>11. OneMove(p)'
  <2>1. ASSUME NEW i \in DOMAIN requests'[p], Moves(requests'[p][i])
        PROVE  i = Len(requests'[p]) /\ ~Moves(q)
    <3>1. i + 1 \in DOMAIN requests[p] /\ Moves(requests[p][i + 1])
      BY <1>6, <2>1
    <3>2. i + 1 = Len(requests[p])
      BY <1>5, <3>1 DEF OneMove
    <3>3. i \in 1..(Len(requests[p]) - 1)
      BY <1>6
    <3>4. Len(requests'[p]) = Len(requests[p]) - 1 /\ Len(requests[p]) \in Nat
      BY <1>6
    <3> QED
      BY <1>9, <3>2, <3>3, <3>4
  <2> QED
    BY <1>2, <1>8, <1>9, <1>10, <2>1 DEF OneMove, handler
<1>12. Underway(p)'
  <2>1. CurrentRoomID[p] = PlayerInRoom[p]
    BY <1>2, <1>5 DEF Underway
  <2>2. \A i \in DOMAIN requests'[p] : Moves(requests'[p][i]) => Asked(p, requests'[p][i])
    BY <1>5, <1>6 DEF Underway
  <2>3. \A j \in DOMAIN responses'[p] : Moves(responses'[p][j][1]) =>
          /\ Answered(p, responses'[p][j][1], responses'[p][j][2])
          /\ responses'[p][j][2].ret # "OK" /\ CurrentRoomID[p] = Nil
    BY <1>4, <1>8, <1>9 DEF Answered
  <2> QED
    BY <1>2, <2>1, <2>2, <2>3 DEF Underway, handler, battle, Asked, Answered
<1>13. OnScreen(p)'
  <2>1. CASE Moves(q)
    <3>1. ~Quiet(p)
      BY <1>6, <2>1 DEF Quiet
    <3>2. current_state[p] = "LOBBY" /\ CurrentRoomID[p] = Nil
      BY <1>5, <1>9, <2>1, <3>1 DEF OnScreen
    <3> QED
      BY <1>2, <3>2 DEF OnScreen, screen
  <2>2. CASE ~Moves(q)
    <3>1. Quiet(p)' <=> Quiet(p)
      BY <1>2, <1>6, <1>7, <1>10, <2>2 DEF Quiet, handler
    <3> QED
      BY <1>2, <1>5, <3>1 DEF OnScreen, screen
  <2> QED
    BY <2>1, <2>2
<1> QED
  BY <1>2, <1>5, <1>11, <1>12, <1>13 DEF handler, battle

(* A call that moves its player and fails disturbs it; an action that is   *)
(* given up leaves the player where it is.                                 *)
LEMMA CallFailsPlaced ==
  ASSUME NEW p \in Players, CallFails(p), TypeOK, Placed(p)
  PROVE  Placed(p)'
<1> USE DEF TypeOK
<1>1. SUFFICES ASSUME ~disturbed'[p]
               PROVE  Placed(p)'
  BY DEF Placed
<1>2. /\ ~disturbed[p] /\ ~Moves(request[p]) /\ stage'[p] = "idle"
      /\ UNCHANGED <<screen, requests, responses, request, reply, CurrentRoomID, battle>>
  BY <1>1 DEF CallFails
<1>3. \A x \in Request : Moves(x) => late'[p][x] = late[p][x]
  BY <1>2 DEF CallFails
<1> QED
  BY <1>2, <1>3 DEF Placed, OneMove, Underway, OnScreen, Quiet, Asked, Answered,
                    screen, battle

LEMMA HandleReplyPlaced ==
  ASSUME NEW p \in Players, HandleReply(p), TypeOK, Placed(p)
  PROVE  Placed(p)'
<1> USE DEF TypeOK
<1> DEFINE q == request[p]
           a == reply[p]
<1>1. SUFFICES ASSUME ~disturbed'[p]
               PROVE  /\ OneMove(p)'
                      /\ Underway(p)'
                      /\ OnScreen(p)'
                      /\ \A x \in Request : Moves(x) => late'[p][x] = 0
                      /\ stage'[p] = "called" /\ ~Moves(request'[p])
                           => request'[p].room = PlayerInRoom'[p]
  BY DEF Placed
<1>2. /\ stage[p] = "replied" /\ stage'[p] = "idle"
      /\ responses'[p] = Append(responses[p], <<q, a>>)
      /\ CurrentRoomID'[p] = IF a.ret = "OK" /\ Moves(q) THEN a.room ELSE CurrentRoomID[p]
      /\ UNCHANGED <<screen, requests, request, reply, battle, late>>
      /\ ~disturbed[p]
  BY <1>1 DEF HandleReply, Respond, history
<1>3. /\ OneMove(p) /\ Underway(p) /\ OnScreen(p)
      /\ \A x \in Request : Moves(x) => late[p][x] = 0
  BY <1>2 DEF Placed
<1>4. \A j \in DOMAIN responses[p] : ~Moves(responses[p][j][1])
  BY <1>2, <1>3 DEF OneMove
<1>5. /\ DOMAIN responses'[p] = 1..(Len(responses[p]) + 1)
      /\ Len(responses'[p]) = Len(responses[p]) + 1
      /\ Len(responses[p]) \in Nat
      /\ \A j \in 1..Len(responses[p]) : responses'[p][j] = responses[p][j]
                                      /\ ~Moves(responses'[p][j][1])
      /\ responses'[p][Len(responses[p]) + 1] = <<q, a>>
  <2>1. <<q, a>> \in Request \X Reply
    OBVIOUS
  <2> QED
    BY <1>2, <1>4, <2>1, AppendAt
<1>6. \A j \in DOMAIN responses'[p] : Moves(responses'[p][j][1]) =>
        j = Len(responses'[p]) /\ responses'[p][j] = <<q, a>> /\ Moves(q)
  <2> SUFFICES ASSUME NEW j \in DOMAIN responses'[p], Moves(responses'[p][j][1])
               PROVE  j = Len(responses'[p]) /\ responses'[p][j] = <<q, a>> /\ Moves(q)
    OBVIOUS
  <2>1. j \in 1..(Len(responses[p]) + 1) /\ j \notin 1..Len(responses[p])
    BY <1>5
  <2>2. j = Len(responses[p]) + 1
    BY <1>5, <2>1
  <2>3. responses'[p][j] = <<q, a>> /\ j = Len(responses'[p])
    BY <1>5, <2>2
  <2>4. responses'[p][j][1] = q
    BY <2>3
  <2> QED
    BY <2>3, <2>4
<1>7. OneMove(p)'
  BY <1>2, <1>3, <1>6 DEF OneMove
<1>8. /\ Moves(q) => /\ Answered(p, q, a)
                     /\ CurrentRoomID'[p] = IF a.ret = "OK" THEN a.room ELSE Nil
      /\ CurrentRoomID'[p] = PlayerInRoom[p]
  BY <1>2, <1>3 DEF Underway
<1>9. Underway(p)'
  <2>1. \A i \in DOMAIN requests[p] :
          Moves(requests[p][i]) => ~Moves(q) /\ Asked(p, requests[p][i])
    BY <1>2, <1>3 DEF Underway, OneMove
  <2>2. ~Moves(q) => CurrentRoomID'[p] = CurrentRoomID[p]
    BY <1>2
  <2>3. \A i \in DOMAIN requests[p] : Moves(requests[p][i]) => Asked(p, requests[p][i])'
    BY <1>2, <2>1, <2>2 DEF Asked
  <2>4. \A j \in DOMAIN responses'[p] : Moves(responses'[p][j][1]) =>
          /\ Answered(p, responses'[p][j][1], responses'[p][j][2])
          /\ CurrentRoomID'[p] = IF responses'[p][j][2].ret = "OK"
                                THEN responses'[p][j][2].room ELSE Nil
    BY <1>6, <1>8
  <2> QED
    BY <1>2, <1>8, <2>3, <2>4 DEF Underway, battle, Asked, Answered
<1>10. OnScreen(p)'
  <2>1. CASE Moves(q)
    <3>1. ~Quiet(p) /\ ~Quiet(p)'
      <4>1. /\ Len(responses[p]) + 1 \in DOMAIN responses'[p]
            /\ responses'[p][Len(responses[p]) + 1][1] = q
        BY <1>5
      <4> QED
        BY <1>2, <2>1, <4>1 DEF Quiet
    <3> QED
      BY <1>2, <1>3, <3>1 DEF OnScreen, screen
  <2>2. CASE ~Moves(q)
    <3>1. Quiet(p)' <=> Quiet(p)
      BY <1>2, <1>4, <1>6, <2>2 DEF Quiet
    <3> QED
      BY <1>2, <1>3, <2>2, <3>1 DEF OnScreen, screen
  <2> QED
    BY <2>1, <2>2
<1> QED
  BY <1>2, <1>3, <1>7, <1>9, <1>10

(* The call takes effect: what the handler will be told is where the       *)
(* player is now, whether nothing was wrong before or the call settles it. *)
LEMMA ServePlaced ==
  ASSUME NEW p \in Players, Serve(p), TypeOK, Placed(p)
  PROVE  Placed(p)'
<1> USE DEF TypeOK
<1> DEFINE q == request[p]
<1>1. PICK a \in Reply :
         /\ Call(p, q, a)
         /\ reply' = [reply EXCEPT ![p] = a]
         /\ disturbed' = [disturbed EXCEPT ![p] = @ /\ ~Settles(p, q, a)]
  BY DEF Serve
<1>2. /\ stage[p] = "called" /\ stage'[p] = "replied" /\ reply'[p] = a
      /\ UNCHANGED <<screen, requests, responses, request, CurrentRoomID, late>>
  BY <1>1 DEF Serve, wires
<1>3. /\ ~Moves(q) => UNCHANGED PlayerInRoom
      /\ a.ret # "OK" => UNCHANGED PlayerInRoom
      /\ Moves(q) /\ a.ret = "OK" => a.room = PlayerInRoom'[p]
      /\ q.kind \in Entering /\ a.ret = "OK" => a.room # Nil
      /\ q.kind = "leave" /\ PlayerInRoom[p] # Nil => a = Ok(Nil)
  <2>1. q \in Request
    OBVIOUS
  <2> HIDE DEF TypeOK, q
  <2> QED
    BY <1>1, <2>1, CallMoves
<1>4. Moves(q) => q.kind \in Entering \/ q.kind = "leave"
  BY DEF Moves, Request
<1>5. CASE ~disturbed[p]
  <2>1. /\ OneMove(p) /\ Underway(p) /\ OnScreen(p)
        /\ \A x \in Request : Moves(x) => late[p][x] = 0
        /\ CurrentRoomID[p] = PlayerInRoom[p]
        /\ Moves(q) => Asked(p, q)
    BY <1>2, <1>5 DEF Placed, Underway
  <2>2. OneMove(p)'
    BY <1>2, <2>1 DEF OneMove
  <2>3. /\ Moves(q) => /\ Answered(p, q, a)
                       /\ a.ret = "OK" => a.room = PlayerInRoom'[p]
                       /\ a.ret # "OK" => CurrentRoomID[p] = Nil /\ PlayerInRoom'[p] = Nil
        /\ ~Moves(q) => CurrentRoomID[p] = PlayerInRoom'[p]
    BY <1>3, <1>4, <2>1 DEF Asked, Answered, Ok
  <2>4. Underway(p)'
    BY <1>2, <2>1, <2>3 DEF Underway, Asked, Answered
  <2>5. OnScreen(p)'
    BY <1>2, <2>1 DEF OnScreen, Quiet, screen
  <2> QED
    BY <1>2, <2>1, <2>2, <2>4, <2>5 DEF Placed
<1>6. CASE Settles(p, q, a)
  <2>1. /\ q.kind \in Entering /\ Moves(q)
        /\ a.ret = "OK" /\ a.room = PlayerInRoom'[p] /\ a.room # Nil
        /\ current_state[p] = "LOBBY" /\ requests[p] = <<>> /\ DOMAIN requests[p] = {}
        /\ \A i \in DOMAIN responses[p] : ~Moves(responses[p][i][1])
        /\ \A x \in Request : Moves(x) => late[p][x] = 0
    BY <1>3, <1>6 DEF Settles, Moves, Entering
  <2>2. OneMove(p)'
    BY <1>2, <2>1 DEF OneMove
  <2>3. Underway(p)'
    BY <1>2, <2>1 DEF Underway, Answered, Entering
  <2>4. OnScreen(p)'
    BY <1>2, <2>1 DEF OnScreen, Quiet, screen
  <2> QED
    BY <1>2, <2>1, <2>2, <2>3, <2>4 DEF Placed
<1>7. CASE disturbed'[p]
  BY <1>7 DEF Placed
<1> QED
  BY <1>1, <1>5, <1>6, <1>7

(* A player that is not disturbed has no call left over that moves it.     *)
LEMMA ServeLatePlaced ==
  ASSUME NEW p \in Players, NEW q \in Request, ServeLate(p, q), TypeOK, Placed(p)
  PROVE  Placed(p)'
<1> USE DEF TypeOK
<1>1. SUFFICES ASSUME ~disturbed'[p]
               PROVE  Placed(p)'
  BY DEF Placed
<1>2. /\ ~disturbed[p] /\ late[p][q] > 0
      /\ UNCHANGED <<screen, wires, handler, CurrentRoomID>>
      /\ late' = [late EXCEPT ![p][q] = @ - 1]
  BY <1>1 DEF ServeLate, history
<1>3. ~Moves(q)
  BY <1>2 DEF Placed
<1>4. UNCHANGED PlayerInRoom
  <2>1. PICK a \in Reply : Call(p, q, a)
    BY DEF ServeLate
  <2> HIDE DEF TypeOK
  <2> QED
    BY <1>3, <2>1, CallMoves
<1>5. \A x \in Request : Moves(x) => late'[p][x] = late[p][x]
  BY <1>2, <1>3
<1> QED
  BY <1>2, <1>4, <1>5 DEF Placed, OneMove, Underway, OnScreen, Quiet, Asked, Answered,
                          screen, wires, handler

(* A restart disturbs those that were in a room, and nobody else is moved. *)
LEMMA RestartPlaced ==
  ASSUME NEW p \in Players, BattleRestarts, TypeOK, Placed(p)
  PROVE  Placed(p)'
<1> USE DEF TypeOK
<1>1. SUFFICES ASSUME ~disturbed'[p]
               PROVE  Placed(p)'
  BY DEF Placed
<1>2. /\ ~disturbed[p] /\ PlayerInRoom[p] = Nil /\ PlayerInRoom'[p] = Nil
      /\ UNCHANGED <<screen, wires, request, reply, CurrentRoomID>>
      /\ stage'[p] = IF stage[p] = "called" THEN "lost" ELSE stage[p]
      /\ \A x \in Request : late'[p][x] = 0
  BY <1>1 DEF BattleRestarts
<1> QED
  BY <1>2 DEF Placed, OneMove, Underway, OnScreen, Quiet, Asked, Answered,
              screen, wires

(* A step of another player leaves p's things alone. *)
LEMMA StepOfAnother ==
  ASSUME NEW p \in Players, NEW o \in Players, o # p, TypeOK,
         \/ Client(o) \/ Receive(o) \/ Handler(o) \/ Serve(o)
         \/ \E q \in Request : ServeLate(o, q)
  PROVE  Things(p)' = Things(p)
<1> USE DEF TypeOK, Things, screen, wires, handler, battle, history
<1>1. CASE Client(o)
  BY <1>1 DEF Client, CreateRoom, JoinRoom, LeaveRoom, SendPosition, Send
<1>2. CASE Receive(o)
  BY <1>2 DEF Receive
<1>3. CASE Handler(o)
  <2>1. CASE TakeRequest(o)
    BY <2>1 DEF TakeRequest
  <2>2. CASE RefuseAction(o)
    BY <2>2 DEF RefuseAction, Respond
  <2>3. CASE DialFails(o)
    BY <2>3 DEF DialFails, Respond
  <2>4. CASE CallFails(o)
    BY <2>4 DEF CallFails, Respond
  <2>5. CASE HandleReply(o)
    BY <2>5 DEF HandleReply, Respond
  <2> QED
    BY <1>3, <2>1, <2>2, <2>3, <2>4, <2>5 DEF Handler
<1>4. CASE Serve(o)
  <2>1. PlayerInRoom'[p] = PlayerInRoom[p]
    BY <1>4, CallOfAnother DEF Serve
  <2> QED
    BY <1>4, <2>1 DEF Serve
<1>5. ASSUME NEW q \in Request, ServeLate(o, q)
      PROVE  Things(p)' = Things(p)
  <2>1. PlayerInRoom'[p] = PlayerInRoom[p]
    BY <1>5, CallOfAnother DEF ServeLate
  <2> QED
    BY <1>5, <2>1 DEF ServeLate
<1> QED
  BY <1>1, <1>2, <1>3, <1>4, <1>5

(* PlacesInv is inductive: where a player that is not disturbed is, at     *)
(* every stage of the request that moves it.                               *)
THEOREM PlacesCorrect == Spec => []PlacesInv
<1> USE RoomSessionAssumption
<1>1. Init => PlacesInv
  BY DEF Init, PlacesInv, Placed, OneMove, Underway, OnScreen, Quiet
<1>2. TypeOK /\ PlacesInv /\ [Next]_vars => PlacesInv'
  <2> SUFFICES ASSUME TypeOK, PlacesInv, [Next]_vars, NEW p \in Players
               PROVE  Placed(p)'
    BY DEF PlacesInv
  <2>1. Placed(p)
    BY DEF PlacesInv
  <2>2. CASE CreateRoom(p)
    BY <2>1, <2>2, SendPlaced DEF CreateRoom, screen, Entering
  <2>3. ASSUME NEW r \in RoomIds, JoinRoom(p, r)
        PROVE  Placed(p)'
    BY <2>1, <2>3, SendPlaced DEF JoinRoom, Entering
  <2>4. CASE LeaveRoom(p)
    <3>1. CASE Send(p, "leave", Nil)
      <4>1. current_state[p] = "IN_ROOM" /\ current_state'[p] = "LOBBY"
        BY <2>4 DEF LeaveRoom, TypeOK
      <4>2. "leave" \notin Entering
        BY DEF Entering
      <4> QED
        BY <2>1, <3>1, <4>1, <4>2, SendPlaced
    <3>2. CASE current_room_id[p] = Nil
      <4>1. current_state[p] = "IN_ROOM"
        BY <2>4 DEF LeaveRoom
      <4> QED
        BY <2>1, <2>4, <3>2, <4>1 DEF LeaveRoom, Placed, OnScreen, history
    <3> QED
      BY <2>4, <3>1, <3>2 DEF LeaveRoom
  <2>5. CASE SendPosition(p)
    BY <2>1, <2>5, SendPlaced DEF SendPosition, Entering
  <2>6. CASE Receive(p)
    BY <2>1, <2>6, ReceivePlaced
  <2>7. CASE Handler(p)
    BY <2>1, <2>7, TakePlaced, RefusePlaced, CallFailsPlaced, HandleReplyPlaced DEF Handler
  <2>8. CASE Serve(p)
    BY <2>1, <2>8, ServePlaced
  <2>9. ASSUME NEW q \in Request, ServeLate(p, q)
        PROVE  Placed(p)'
    BY <2>1, <2>9, ServeLatePlaced
  <2>10. CASE BattleRestarts
    BY <2>1, <2>10, RestartPlaced
  <2>11. ASSUME NEW o \in Players, o # p,
                \/ Client(o) \/ Receive(o) \/ Handler(o) \/ Serve(o)
                \/ \E q \in Request : ServeLate(o, q)
         PROVE  Placed(p)'
    BY <2>1, <2>11, StepOfAnother, Untouched
  <2>12. CASE UNCHANGED vars
    BY <2>1, <2>12, Untouched DEF vars, Things, screen, wires, handler, battle, history
  <2> QED
    BY <2>2, <2>3, <2>4, <2>5, <2>6, <2>7, <2>8, <2>9, <2>10, <2>11, <2>12
       DEF Next, Client
<1> QED
  BY <1>1, <1>2, TypeCorrect, PTL DEF Spec

(* The client, the game server and the battle server agree on the room of  *)
(* every player that waits for nothing and is not disturbed.               *)
THEOREM AgreeWhenQuiet == Spec => []PlacesAgree
<1>1. TypeOK /\ PlacesInv => PlacesAgree
  <2> SUFFICES ASSUME TypeOK, PlacesInv, NEW p \in Players, Quiet(p), ~disturbed[p]
               PROVE  /\ CurrentRoomID[p] = PlayerInRoom[p]
                      /\ current_state[p] = "IN_ROOM" <=> CurrentRoomID[p] # Nil
                      /\ current_state[p] = "IN_ROOM" => current_room_id[p] = CurrentRoomID[p]
    BY DEF PlacesAgree
  <2> QED
    BY DEF PlacesInv, Placed, Underway, OnScreen, Quiet, TypeOK
<1> QED
  BY <1>1, TypeCorrect, PlacesCorrect, PTL

(* An action of a player that is not disturbed reaches the battle server   *)
(* while the player is in the room the action goes to.                     *)
THEOREM ActionsReachHome == Spec => []ActionsReachOwnRoom
<1>1. PlacesInv => ActionsReachOwnRoom
  BY DEF PlacesInv, Placed, ActionsReachOwnRoom, Moves
<1> QED
  BY <1>1, PlacesCorrect, PTL
=============================================================================
