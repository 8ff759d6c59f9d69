----------------------------- MODULE GameSession -----------------------------
(***************************************************************************)
(* The connections of the game server (gdserver/server/src/servers/game:   *)
(* main.go, manager.go, player.go, game_rpc_service.go).                   *)
(*                                                                         *)
(* Per connection run handleConnection, Player.Run and the three           *)
(* goroutines Run starts: one reads messages into RecvChan, one handles    *)
(* them, one writes SendChan to the client.  They share a context, whose   *)
(* cancellation is to end them all, and the manager's two maps.  The calls *)
(* of the battle server add goroutines that look a player up by its uid    *)
(* and put a notification into its SendChan.                               *)
(*                                                                         *)
(* Of the battle server this module keeps whether a player is in a room;   *)
(* its calls answer in time.                                               *)
(***************************************************************************)
EXTENDS Naturals, Sequences

CONSTANTS
  Conns,     \* connections, each with a ConnUUID of its own
  Players,   \* uids
  Notifiers, \* slots for notification calls in flight
  RecvCap,   \* capacity of RecvChan (1000)
  SendCap,   \* capacity of SendChan (1000)
  MaxMsgs,   \* bound: messages the clients send
  MaxNotes,  \* bound: notifications the battle server sends
  Upsets,    \* what may happen besides the normal course, see below
  Nil        \* uid 0, no connection

(* "overlap"  a player authenticates while an old connection of it lingers *)
(* "reauth"   a client authenticates on one connection with tokens of      *)
(*            different players                                            *)
(* "redis"    the user's data cannot be loaded after authentication        *)
(* "battle"   the battle server cannot be reached                          *)
ASSUME GameSessionAssumption ==
  /\ Nil \notin Players \cup Conns
  /\ {RecvCap, SendCap} \subseteq Nat \ {0}
  /\ {MaxMsgs, MaxNotes} \subseteq Nat
  /\ Upsets \subseteq {"overlap", "reauth", "redis", "battle"}

VARIABLES
  Conn,           \* connection -> "none", "open" or "closed"
  cancelled,      \* connection -> its context is done
  reader,         \* connection -> where the goroutine is
  sender,
  handler,
  run,            \* connection -> where Player.Run is
  main,           \* connection -> where handleConnection is
  RecvChan,       \* connection -> messages received and not yet handled
  recvClosed,     \* connection -> RecvChan is closed
  SendChan,       \* connection -> number of messages to be written
  Uid,            \* connection -> uid of its player, or Nil
  Authenticated,
  players,        \* the manager's map by ConnUUID: its keys
  uin_player,     \* the manager's map by uid
  inRoom,         \* the battle server's view: players in a room
  notify,         \* notification call -> the *Player it looked up
  sent,           \* messages the clients have sent
  notes           \* notifications sent

link     == <<Conn, cancelled>>
channels == <<RecvChan, recvClosed, SendChan>>
identity == <<Uid, Authenticated>>
manager  == <<players, uin_player>>
pcs      == <<reader, sender, handler, run, main>>
counts   == <<sent, notes>>
vars == <<link, channels, identity, manager, pcs, inRoom, notify, counts>>

Message  == {"auth", "enter", "leave"}
DeletePCs == {"get", "delete", "forget"}

Init ==
  /\ Conn          = [c \in Conns |-> "none"]
  /\ cancelled     = [c \in Conns |-> FALSE]
  /\ reader        = [c \in Conns |-> "off"]
  /\ sender        = [c \in Conns |-> "off"]
  /\ handler       = [c \in Conns |-> "off"]
  /\ run           = [c \in Conns |-> "off"]
  /\ main          = [c \in Conns |-> "off"]
  /\ RecvChan      = [c \in Conns |-> <<>>]
  /\ recvClosed    = [c \in Conns |-> FALSE]
  /\ SendChan      = [c \in Conns |-> 0]
  /\ Uid           = [c \in Conns |-> Nil]
  /\ Authenticated = [c \in Conns |-> FALSE]
  /\ players       = {}
  /\ uin_player    = [p \in Players |-> Nil]
  /\ inRoom        = {}
  /\ notify        = [n \in Notifiers |-> Nil]
  /\ sent          = 0
  /\ notes         = 0

-----------------------------------------------------------------------------
(* Nothing of the connection is left in the server. *)
Gone(c) == /\ run[c] = "done" /\ main[c] = "done"
           /\ \A n \in Notifiers : notify[n] # c

(* A player with another connection waits, unless overlaps are considered, *)
(* until that one is gone.                                                 *)
MayAuthenticate(c, p) ==
  \/ "overlap" \in Upsets
  \/ \A d \in Conns \ {c} : Uid[d] = p => Gone(d)

(* A connection is accepted: handleConnection creates the player, whose    *)
(* Run starts the three goroutines.                                        *)
Accept(c) ==
  /\ Conn[c] = "none"
  /\ Conn' = [Conn EXCEPT ![c] = "open"]
  /\ players' = players \cup {c}
  /\ reader' = [reader EXCEPT ![c] = "read"]
  /\ sender' = [sender EXCEPT ![c] = "select"]
  /\ handler' = [handler EXCEPT ![c] = "select"]
  /\ run' = [run EXCEPT ![c] = "wait"]
  /\ main' = [main EXCEPT ![c] = "timer"]
  /\ UNCHANGED <<cancelled, channels, identity, uin_player, inRoom, notify, counts>>

(* The client goes away, or the network fails. *)
Disconnect(c) ==
  /\ Conn[c] = "open"
  /\ Conn' = [Conn EXCEPT ![c] = "closed"]
  /\ UNCHANGED <<cancelled, channels, identity, manager, pcs, inRoom, notify, counts>>

-----------------------------------------------------------------------------
(* Plausible slips, each of which breaks a property stated below. *)

(* The handler does not look at Authenticated. *)
HandlerTakesUnchecked(c) ==
  /\ handler[c] = "select"
  /\ RecvChan[c] # <<>>
  /\ RecvChan' = [RecvChan EXCEPT ![c] = Tail(@)]
  /\ handler' = [handler EXCEPT ![c] = Head(RecvChan[c])]
  /\ UNCHANGED <<link, SendChan, recvClosed, identity, manager, reader, sender,
                 run, main, inRoom, notify, counts>>

(* The handler that refuses a stranger returns without wg.Done(). *)
HandlerTakesNoDone(c) ==
  /\ handler[c] = "select"
  /\ RecvChan[c] # <<>>
  /\ RecvChan' = [RecvChan EXCEPT ![c] = Tail(@)]
  /\ LET m == Head(RecvChan[c])
     IN  handler' = [handler EXCEPT ![c] =
                       IF m # "auth" /\ ~Authenticated[c] THEN "off" ELSE m]
  /\ UNCHANGED <<link, SendChan, recvClosed, identity, manager, reader, sender,
                 run, main, inRoom, notify, counts>>

(* handleConnection returns when the timer fires for an authenticated      *)
(* player.                                                                 *)
AuthTimeoutReturns(c) ==
  /\ main[c] = "timer"
  /\ main' = [main EXCEPT ![c] = "get"]
  /\ Conn' = IF Authenticated[c] THEN Conn ELSE [Conn EXCEPT ![c] = "closed"]
  /\ UNCHANGED <<cancelled, channels, identity, manager, reader, sender, handler,
                 run, inRoom, notify, counts>>

(* The timer's case forgets to close the connection. *)
AuthTimeoutKeepsConn(c) ==
  /\ main[c] = "timer"
  /\ main' = [main EXCEPT ![c] = IF Authenticated[c] THEN "wait" ELSE "get"]
  /\ UNCHANGED <<link, channels, identity, manager, reader, sender, handler,
                 run, inRoom, notify, counts>>

(* wg.Add(2): Run does not wait for the reader, or not for the handler.    *)
RunWakesBeforeReader(c) ==
  /\ run[c] = "wait"
  /\ sender[c] = "done" /\ handler[c] = "done"
  /\ run' = [run EXCEPT ![c] = "cleanup"]
  /\ UNCHANGED <<link, channels, identity, manager, reader, sender, handler,
                 main, inRoom, notify, counts>>

RunWakesBeforeHandler(c) ==
  /\ run[c] = "wait"
  /\ reader[c] = "done" /\ sender[c] = "done"
  /\ run' = [run EXCEPT ![c] = "cleanup"]
  /\ UNCHANGED <<link, channels, identity, manager, reader, sender, handler,
                 main, inRoom, notify, counts>>

-----------------------------------------------------------------------------
(* The reader. *)

ReaderUnchanged ==
  UNCHANGED <<SendChan, recvClosed, identity, manager, sender, handler, run,
              main, inRoom, notify, notes>>

(* A message of the client arrives, or one that the connection had when it *)
(* was closed; it is dropped when RecvChan is full.  Then the reader looks *)
(* at its context and blocks in Read again.                                *)
ReadMessage(c, m) ==
  /\ reader[c] = "read"
  /\ sent < MaxMsgs
  /\ sent' = sent + 1
  /\ RecvChan' = IF Len(RecvChan[c]) < RecvCap
                 THEN [RecvChan EXCEPT ![c] = Append(@, m)]
                 ELSE RecvChan
  /\ reader' = [reader EXCEPT ![c] = IF cancelled[c] THEN "done" ELSE "read"]
  /\ UNCHANGED link /\ ReaderUnchanged

ReadFails(c) ==
  /\ reader[c] = "read"
  /\ Conn[c] = "closed"
  /\ cancelled' = [cancelled EXCEPT ![c] = TRUE]
  /\ reader' = [reader EXCEPT ![c] = "done"]
  /\ UNCHANGED <<Conn, RecvChan, sent>> /\ ReaderUnchanged

-----------------------------------------------------------------------------
(* The sender. *)

SenderUnchanged ==
  UNCHANGED <<Conn, RecvChan, recvClosed, identity, manager, reader, handler,
              run, main, inRoom, notify, counts>>

SenderTakes(c) ==
  /\ sender[c] = "select"
  /\ SendChan[c] > 0
  /\ SendChan' = [SendChan EXCEPT ![c] = @ - 1]
  /\ sender' = [sender EXCEPT ![c] = "write"]
  /\ UNCHANGED cancelled /\ SenderUnchanged

(* Write returns when the client has made room for the packet ... *)
WriteEnds(c) ==
  /\ sender[c] = "write"
  /\ Conn[c] = "open"
  /\ sender' = [sender EXCEPT ![c] = "select"]
  /\ UNCHANGED <<cancelled, SendChan>> /\ SenderUnchanged

(* ... or with an error. *)
WriteFails(c) ==
  /\ sender[c] = "write"
  /\ Conn[c] = "closed"
  /\ cancelled' = [cancelled EXCEPT ![c] = TRUE]
  /\ sender' = [sender EXCEPT ![c] = "done"]
  /\ UNCHANGED SendChan /\ SenderUnchanged

SenderStops(c) ==
  /\ sender[c] = "select"
  /\ cancelled[c]
  /\ sender' = [sender EXCEPT ![c] = "done"]
  /\ UNCHANGED <<cancelled, SendChan>> /\ SenderUnchanged

-----------------------------------------------------------------------------
(* The handler: takes a message and runs HandleMessage on it. *)

HandlerUnchanged ==
  UNCHANGED <<link, recvClosed, players, reader, sender, run, main, notify,
              counts>>

HandlerGoto(c, pc) == handler' = [handler EXCEPT ![c] = pc]

(* A message other than AUTH_REQUEST ends the handler of an unauthenticated *)
(* player; the connection stays until the timer closes it.                 *)
HandlerTakes(c) ==
  /\ handler[c] = "select"
  /\ RecvChan[c] # <<>>
  /\ RecvChan' = [RecvChan EXCEPT ![c] = Tail(@)]
  /\ LET m == Head(RecvChan[c])
     IN  HandlerGoto(c, IF m # "auth" /\ ~Authenticated[c] THEN "done" ELSE m)
  /\ UNCHANGED <<SendChan, identity, uin_player, inRoom>> /\ HandlerUnchanged

HandlerStops(c) ==
  /\ handler[c] = "select"
  /\ cancelled[c]
  /\ HandlerGoto(c, "done")
  /\ UNCHANGED <<RecvChan, SendChan, identity, uin_player, inRoom>>
  /\ HandlerUnchanged

(* HandleAuthRequest: no valid session, or no user for it. *)
AuthFails(c) ==
  /\ handler[c] = "auth"
  /\ HandlerGoto(c, "respond")
  /\ UNCHANGED <<RecvChan, SendChan, identity, uin_player, inRoom>>
  /\ HandlerUnchanged

(* The session names a user: the player takes its identity. *)
AuthSets(c, p) ==
  /\ handler[c] = "auth"
  /\ MayAuthenticate(c, p)
  /\ "reauth" \notin Upsets => Uid[c] \in {Nil, p}
  /\ Uid' = [Uid EXCEPT ![c] = p]
  /\ Authenticated' = [Authenticated EXCEPT ![c] = TRUE]
  /\ HandlerGoto(c, "load")
  /\ UNCHANGED <<RecvChan, SendChan, uin_player, inRoom>> /\ HandlerUnchanged

(* loadUserDataFromRedis fails: the client is told SERVER_ERROR. *)
AuthLoadFails(c) ==
  /\ handler[c] = "load"
  /\ "redis" \in Upsets
  /\ HandlerGoto(c, "respond")
  /\ UNCHANGED <<RecvChan, SendChan, identity, uin_player, inRoom>>
  /\ HandlerUnchanged

(* OnPlayerUinSet looks the player up by its connection ... *)
AuthLooksUp(c) ==
  /\ handler[c] = "load"
  /\ HandlerGoto(c, IF c \in players THEN "store" ELSE "respond")
  /\ UNCHANGED <<RecvChan, SendChan, identity, uin_player, inRoom>>
  /\ HandlerUnchanged

(* ... and stores it under its uid. *)
AuthStores(c) ==
  /\ handler[c] = "store"
  /\ uin_player' = [uin_player EXCEPT ![Uid[c]] = c]
  /\ HandlerGoto(c, "respond")
  /\ UNCHANGED <<RecvChan, SendChan, identity, inRoom>> /\ HandlerUnchanged

(* The room handlers: the battle server is not reached or refuses, or the  *)
(* player is in a room, or out of it, afterwards.                          *)
HandleEnter(c) ==
  /\ handler[c] = "enter"
  /\ \/ UNCHANGED inRoom
     \/ inRoom' = inRoom \cup {Uid[c]}
  /\ HandlerGoto(c, "respond")
  /\ UNCHANGED <<RecvChan, SendChan, identity, uin_player>> /\ HandlerUnchanged

HandleLeave(c) ==
  /\ handler[c] = "leave"
  /\ \/ UNCHANGED inRoom
     \/ inRoom' = inRoom \ {Uid[c]}
  /\ HandlerGoto(c, "respond")
  /\ UNCHANGED <<RecvChan, SendChan, identity, uin_player>> /\ HandlerUnchanged

(* SendResponse waits for room in SendChan, and for nothing else. *)
Respond(c) ==
  /\ handler[c] = "respond"
  /\ SendChan[c] < SendCap
  /\ SendChan' = [SendChan EXCEPT ![c] = @ + 1]
  /\ HandlerGoto(c, "select")
  /\ UNCHANGED <<RecvChan, identity, uin_player, inRoom>> /\ HandlerUnchanged

-----------------------------------------------------------------------------
(* handleConnection and the deferred part of Run.  Both call DeletePlayer. *)

MainGoto(c, pc) == main' = [main EXCEPT ![c] = pc]
RunGoto(c, pc)  == run' = [run EXCEPT ![c] = pc]

MainUnchanged ==
  UNCHANGED <<cancelled, channels, identity, reader, sender, handler, run,
              inRoom, notify, counts>>

(* Three seconds have passed. *)
AuthTimeout(c) ==
  /\ main[c] = "timer"
  /\ \/ /\ Authenticated[c]
        /\ MainGoto(c, "wait")
        /\ UNCHANGED Conn
     \/ /\ ~Authenticated[c]
        /\ Conn' = [Conn EXCEPT ![c] = "closed"]
        /\ MainGoto(c, "get")
  /\ UNCHANGED manager /\ MainUnchanged

MainSeesDone(c) ==
  /\ main[c] \in {"timer", "wait"}
  /\ cancelled[c]
  /\ MainGoto(c, "get")
  /\ UNCHANGED <<Conn, manager>> /\ MainUnchanged

(* DeletePlayer: GetPlayer, players.Delete, uin_player.Delete. *)
DeleteStep(c, pc, next, Goto(_, _)) ==
  \/ /\ pc = "get"
     /\ Goto(c, IF c \in players THEN "delete" ELSE next)
     /\ UNCHANGED manager
  \/ /\ pc = "delete"
     /\ players' = players \ {c}
     /\ Goto(c, "forget")
     /\ UNCHANGED uin_player
  \/ /\ pc = "forget"
     /\ uin_player' = [p \in Players |-> IF p = Uid[c] THEN Nil ELSE uin_player[p]]
     /\ Goto(c, next)
     /\ UNCHANGED players

MainDeletes(c) ==
  DeleteStep(c, main[c], "done", MainGoto) /\ UNCHANGED Conn /\ MainUnchanged

RunUnchanged ==
  UNCHANGED <<RecvChan, SendChan, identity, reader, sender, handler, main,
              notify, counts>>

(* wg.Wait() *)
RunWakes(c) ==
  /\ run[c] = "wait"
  /\ reader[c] = "done" /\ sender[c] = "done" /\ handler[c] = "done"
  /\ RunGoto(c, "cleanup")
  /\ UNCHANGED <<link, recvClosed, manager, inRoom>> /\ RunUnchanged

(* cleanupBattleRoom: the player leaves its room. *)
Cleanup(c) ==
  /\ run[c] = "cleanup"
  /\ \/ inRoom' = inRoom \ {Uid[c]}
     \/ "battle" \in Upsets /\ UNCHANGED inRoom
  /\ RunGoto(c, "get")
  /\ UNCHANGED <<link, recvClosed, manager>> /\ RunUnchanged

RunDeletes(c) ==
  DeleteStep(c, run[c], "close", RunGoto)
    /\ UNCHANGED <<link, recvClosed, inRoom>> /\ RunUnchanged

RunCloses(c) ==
  /\ run[c] = "close"
  /\ cancelled' = [cancelled EXCEPT ![c] = TRUE]
  /\ recvClosed' = [recvClosed EXCEPT ![c] = TRUE]
  /\ Conn' = [Conn EXCEPT ![c] = "closed"]
  /\ RunGoto(c, "done")
  /\ UNCHANGED <<manager, inRoom>> /\ RunUnchanged

-----------------------------------------------------------------------------
(* A notification call of the battle server: GetPlayerByUin, SendMessage.  *)

NotifyUnchanged ==
  UNCHANGED <<link, RecvChan, recvClosed, identity, manager, pcs, inRoom, sent>>

NotifyLooksUp(n, p) ==
  /\ notify[n] = Nil
  /\ notes < MaxNotes
  /\ notes' = notes + 1
  /\ notify' = [notify EXCEPT ![n] = uin_player[p]]   \* Nil: NOT_FOUND
  /\ UNCHANGED SendChan /\ NotifyUnchanged

NotifySends(n) ==
  LET c == notify[n]
  IN  /\ c # Nil
      /\ SendChan[c] < SendCap
      /\ SendChan' = [SendChan EXCEPT ![c] = @ + 1]
      /\ notify' = [notify EXCEPT ![n] = Nil]
      /\ UNCHANGED notes /\ NotifyUnchanged

-----------------------------------------------------------------------------
Sender(c)  == SenderTakes(c) \/ WriteFails(c) \/ SenderStops(c)
Handling(c) ==
  \/ AuthFails(c)
  \/ \E p \in Players : AuthSets(c, p)
  \/ AuthLoadFails(c)
  \/ AuthLooksUp(c)
  \/ AuthStores(c)
  \/ HandleEnter(c)
  \/ HandleLeave(c)
  \/ Respond(c)
Main(c) == MainSeesDone(c) \/ MainDeletes(c)
Run(c)  == RunWakes(c) \/ Cleanup(c) \/ RunDeletes(c) \/ RunCloses(c)

Client(c) ==
  \/ Accept(c)
  \/ Disconnect(c)
  \/ \E m \in Message : ReadMessage(c, m)
  \/ WriteEnds(c)

Next ==
  \/ \E c \in Conns :
       \/ Client(c)
       \/ ReadFails(c) \/ Sender(c)
       \/ HandlerTakes(c) \/ HandlerStops(c) \/ Handling(c)
       \/ AuthTimeout(c) \/ Main(c) \/ Run(c)
  \/ \E n \in Notifiers : NotifySends(n) \/ \E p \in Players : NotifyLooksUp(n, p)

Spec == Init /\ [][Next]_vars

(* Runnable goroutines run, the timer fires, and select picks at random    *)
(* among its ready cases, so that a case ready again and again is picked.  *)
(* Nothing is assumed of the client.                                       *)
FairSpec ==
  /\ Spec
  /\ \A c \in Conns :
       /\ WF_vars(ReadFails(c))
       /\ WF_vars(SenderTakes(c) \/ WriteFails(c))
       /\ SF_vars(SenderStops(c))
       /\ WF_vars(HandlerTakes(c))
       /\ SF_vars(HandlerStops(c))
       /\ WF_vars(Handling(c))
       /\ WF_vars(AuthTimeout(c)) /\ WF_vars(Main(c)) /\ WF_vars(Run(c))
  /\ \A n \in Notifiers : WF_vars(NotifySends(n))

-----------------------------------------------------------------------------
(* Every variable keeps its type, and only a connection that has a uid     *)
(* gets as far as the manager or the battle server.                        *)
TypeOK ==
  /\ Conn          \in [Conns -> {"none", "open", "closed"}]
  /\ cancelled     \in [Conns -> BOOLEAN]
  /\ reader        \in [Conns -> {"off", "read", "done"}]
  /\ sender        \in [Conns -> {"off", "select", "write", "done"}]
  /\ handler       \in [Conns -> {"off", "select", "load", "store", "respond",
                                  "done"} \cup Message]
  /\ run           \in [Conns -> {"off", "wait", "cleanup", "close", "done"}
                                   \cup DeletePCs]
  /\ main          \in [Conns -> {"off", "timer", "wait", "done"} \cup DeletePCs]
  /\ RecvChan      \in [Conns -> Seq(Message)]
  /\ recvClosed    \in [Conns -> BOOLEAN]
  /\ SendChan      \in [Conns -> 0..SendCap]
  /\ Uid           \in [Conns -> Players \cup {Nil}]
  /\ Authenticated \in [Conns -> BOOLEAN]
  /\ players       \subseteq Conns
  /\ uin_player    \in [Players -> Conns \cup {Nil}]
  /\ inRoom        \subseteq Players
  /\ notify        \in [Notifiers -> Conns \cup {Nil}]
  /\ sent          \in 0..MaxMsgs
  /\ notes         \in 0..MaxNotes
  /\ \A c \in Conns :
       /\ Authenticated[c] => Uid[c] \in Players
       /\ handler[c] \in {"enter", "leave", "load", "store"} => Authenticated[c]

(* RecvChan is closed when nobody can use it any more: the reader would    *)
(* panic on the send, the handler would receive nil messages.              *)
RecvChanClosedLast ==
  \A c \in Conns :
    recvClosed[c] => reader[c] = "done" /\ handler[c] = "done"

(* A player is in a room only while a connection of it lives that has not  *)
(* cleaned up yet: whatever the client and the goroutines were doing when  *)
(* the connection ended, nobody stays behind in a room.                    *)
RoomNeedsConnection ==
  \A p \in inRoom :
    \E c \in Conns : Uid[c] = p /\ run[c] \in {"wait", "cleanup"}

(* An authenticated client that is being served can be notified: the       *)
(* manager has its connection under its uid.                               *)
Served(c) == Authenticated[c] /\ handler[c] = "select" /\ Conn[c] = "open"

ServedIsReachable == \A c \in Conns : Served(c) => uin_player[Uid[c]] = c

(* A client that does not authenticate is disconnected, whatever it sends  *)
(* and however slowly it reads.                                            *)
StrangerIsDropped ==
  \A c \in Conns : Conn[c] = "open" ~> (Authenticated[c] \/ cancelled[c])

(* Cancelling the context stops the goroutines of the connection, Run      *)
(* comes to its end and cleans up.                                         *)
CancelStopsAll == \A c \in Conns : cancelled[c] ~> run[c] = "done"
-----------------------------------------------------------------------------
(* The inductive invariant behind RoomNeedsConnection and                  *)
(* RecvChanClosedLast.                                                     *)

(* Run outlives the goroutines it starts. *)
RunIsLast ==
  \A c \in Conns :
    /\ Conn[c] = "none" => run[c] = "off"
    /\ run[c] = "off" => reader[c] = "off" /\ handler[c] = "off"
    /\ run[c] \notin {"off", "wait"} => reader[c] = "done" /\ handler[c] = "done"
    /\ recvClosed[c] => run[c] = "done"

SessionInv == TypeOK /\ RunIsLast /\ RoomNeedsConnection

-----------------------------------------------------------------------------
(* The inductive invariant behind ServedIsReachable.                       *)

(* What ends a connection closes it first, and until then the manager has  *)
(* it.                                                                     *)
OpenIsListed ==
  \A c \in Conns :
    /\ Conn[c] = "none" => ~Authenticated[c]
    /\ \/ cancelled[c]
       \/ reader[c] = "done"
       \/ main[c] \in DeletePCs \cup {"done"}
       => Conn[c] = "closed"
    /\ Conn[c] = "open" => c \in players

(* Of two connections of one player, one has no goroutine left. *)
Over(c) == run[c] = "done" /\ main[c] = "done"

OneAtATime ==
  \A c, d \in Conns :
    c # d /\ Uid[c] = Uid[d] /\ Uid[c] # Nil => Over(c) \/ Over(d)

(* From the end of its authentication to its end a connection is stored.   *)
OpenIsStored ==
  \A c \in Conns :
    Conn[c] = "open" /\ Authenticated[c] /\ handler[c] \notin {"load", "store"}
      => uin_player[Uid[c]] = c

ReachInv == SessionInv /\ OpenIsListed /\ OneAtATime /\ OpenIsStored
=============================================================================
