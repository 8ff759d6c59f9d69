------------------------- MODULE GameSession_proofs -------------------------
(* For any number of connections, players and messages: the type of the    *)
(* game server's sessions, the order in which a connection ends, and that  *)
(* no player stays in a room without a connection.                         *)
EXTENDS GameSession, TLAPS

(* Every variable of the sessions keeps its type, and only a player with a *)
(* uid reaches the manager and the battle server.                          *)
THEOREM TypeCorrect == Spec => []TypeOK
<1> USE GameSessionAssumption
<1>1. Init => TypeOK
  BY DEF Init, TypeOK, Message, DeletePCs
<1>2. TypeOK /\ [Next]_vars => TypeOK'
  <2> SUFFICES ASSUME TypeOK, [Next]_vars
               PROVE  TypeOK'
    OBVIOUS
  <2> USE DEF TypeOK, Message, DeletePCs, link, channels, identity, manager,
              pcs, counts
  <2>1. ASSUME NEW c \in Conns, Accept(c)
        PROVE  TypeOK'
    BY <2>1 DEF Accept
  <2>2. ASSUME NEW c \in Conns, Disconnect(c)
        PROVE  TypeOK'
    BY <2>2 DEF Disconnect
  <2>3. ASSUME NEW c \in Conns, NEW m \in Message, ReadMessage(c, m)
        PROVE  TypeOK'
    BY <2>3 DEF ReadMessage, ReaderUnchanged
  <2>4. ASSUME NEW c \in Conns, WriteEnds(c)
        PROVE  TypeOK'
    BY <2>4 DEF WriteEnds, SenderUnchanged
  <2>5. ASSUME NEW c \in Conns, ReadFails(c)
        PROVE  TypeOK'
    BY <2>5 DEF ReadFails, ReaderUnchanged
  <2>6. ASSUME NEW c \in Conns, SenderTakes(c)
        PROVE  TypeOK'
    BY <2>6 DEF SenderTakes, SenderUnchanged
  <2>7. ASSUME NEW c \in Conns, WriteFails(c)
        PROVE  TypeOK'
    BY <2>7 DEF WriteFails, SenderUnchanged
  <2>8. ASSUME NEW c \in Conns, SenderStops(c)
        PROVE  TypeOK'
    BY <2>8 DEF SenderStops, SenderUnchanged
  <2>9. ASSUME NEW c \in Conns, HandlerTakes(c)
        PROVE  TypeOK'
    <3> DEFINE m  == Head(RecvChan[c])
               pc == IF m # "auth" /\ ~Authenticated[c] THEN "done" ELSE m
    <3>1. /\ handler' = [handler EXCEPT ![c] = pc]
          /\ m \in Message
      BY <2>9 DEF HandlerTakes, HandlerGoto
    <3>2. Tail(RecvChan[c]) \in Seq(Message)
      BY <2>9 DEF HandlerTakes
    <3>3. /\ RecvChan' = [RecvChan EXCEPT ![c] = Tail(@)]
          /\ UNCHANGED <<SendChan, identity, uin_player, inRoom, link, recvClosed,
                         players, reader, sender, run, main, notify, counts>>
      BY <2>9 DEF HandlerTakes, HandlerUnchanged
    <3> QED
      BY <3>1, <3>2, <3>3
  <2>10. ASSUME NEW c \in Conns, HandlerStops(c)
        PROVE  TypeOK'
    BY <2>10 DEF HandlerStops, HandlerUnchanged, HandlerGoto
  <2>11. ASSUME NEW c \in Conns, AuthFails(c)
        PROVE  TypeOK'
    BY <2>11 DEF AuthFails, HandlerUnchanged, HandlerGoto
  <2>12. ASSUME NEW c \in Conns, NEW p \in Players, AuthSets(c, p)
        PROVE  TypeOK'
    BY <2>12 DEF AuthSets, HandlerUnchanged, HandlerGoto
  <2>13. ASSUME NEW c \in Conns, AuthLoadFails(c)
        PROVE  TypeOK'
    BY <2>13 DEF AuthLoadFails, HandlerUnchanged, HandlerGoto
  <2>14. ASSUME NEW c \in Conns, AuthLooksUp(c)
        PROVE  TypeOK'
    BY <2>14 DEF AuthLooksUp, HandlerUnchanged, HandlerGoto
  <2>15. ASSUME NEW c \in Conns, AuthStores(c)
        PROVE  TypeOK'
    BY <2>15 DEF AuthStores, HandlerUnchanged, HandlerGoto
  <2>16. ASSUME NEW c \in Conns, HandleEnter(c)
        PROVE  TypeOK'
    BY <2>16, SMTT(20) DEF HandleEnter, HandlerUnchanged, HandlerGoto
  <2>17. ASSUME NEW c \in Conns, HandleLeave(c)
        PROVE  TypeOK'
    BY <2>17 DEF HandleLeave, HandlerUnchanged, HandlerGoto
  <2>18. ASSUME NEW c \in Conns, Respond(c)
        PROVE  TypeOK'
    BY <2>18 DEF Respond, HandlerUnchanged, HandlerGoto
  <2>19. ASSUME NEW c \in Conns, AuthTimeout(c)
        PROVE  TypeOK'
    <3>1. /\ \E pc \in {"wait", "get"} : main' = [main EXCEPT ![c] = pc]
          /\ Conn' \in {Conn, [Conn EXCEPT ![c] = "closed"]}
      BY <2>19 DEF AuthTimeout, MainGoto
    <3>2. UNCHANGED <<cancelled, channels, identity, manager, reader, sender,
                      handler, run, inRoom, notify, counts>>
      BY <2>19 DEF AuthTimeout, MainUnchanged
    <3> QED
      BY <3>1, <3>2
  <2>20. ASSUME NEW c \in Conns, MainSeesDone(c)
        PROVE  TypeOK'
    BY <2>20 DEF MainSeesDone, MainUnchanged, MainGoto
  <2>21. ASSUME NEW c \in Conns, MainDeletes(c)
        PROVE  TypeOK'
    <3>1. /\ \E pc \in {"done"} \cup DeletePCs : main' = [main EXCEPT ![c] = pc]
          /\ players' \subseteq Conns
          /\ uin_player' \in [Players -> Conns \cup {Nil}]
      BY <2>21 DEF MainDeletes, DeleteStep, MainGoto
    <3>2. UNCHANGED <<link, channels, identity, reader, sender, handler, run,
                      inRoom, notify, counts>>
      BY <2>21 DEF MainDeletes, MainUnchanged
    <3> QED
      BY <3>1, <3>2
  <2>22. ASSUME NEW c \in Conns, RunWakes(c)
        PROVE  TypeOK'
    BY <2>22 DEF RunWakes, RunUnchanged, RunGoto
  <2>23. ASSUME NEW c \in Conns, Cleanup(c)
        PROVE  TypeOK'
    BY <2>23 DEF Cleanup, RunUnchanged, RunGoto
  <2>24. ASSUME NEW c \in Conns, RunDeletes(c)
        PROVE  TypeOK'
    <3>1. /\ \E pc \in {"close"} \cup DeletePCs : run' = [run EXCEPT ![c] = pc]
          /\ players' \subseteq Conns
          /\ uin_player' \in [Players -> Conns \cup {Nil}]
      BY <2>24 DEF RunDeletes, DeleteStep, RunGoto
    <3>2. UNCHANGED <<link, channels, identity, reader, sender, handler, main,
                      inRoom, notify, counts>>
      BY <2>24 DEF RunDeletes, RunUnchanged
    <3> QED
      BY <3>1, <3>2
  <2>25. ASSUME NEW c \in Conns, RunCloses(c)
        PROVE  TypeOK'
    BY <2>25 DEF RunCloses, RunUnchanged, RunGoto
  <2>26. ASSUME NEW n \in Notifiers, NotifySends(n)
        PROVE  TypeOK'
    BY <2>26 DEF NotifySends, NotifyUnchanged
  <2>27. ASSUME NEW n \in Notifiers, NEW p \in Players, NotifyLooksUp(n, p)
        PROVE  TypeOK'
    BY <2>27 DEF NotifyLooksUp, NotifyUnchanged
  <2>28. CASE UNCHANGED vars
    BY <2>28 DEF vars
  <2> HIDE DEF TypeOK, Message, DeletePCs, link, channels, identity, manager, pcs,
              counts
  <2> QED
    BY <2>1, <2>2, <2>3, <2>4, <2>5, <2>6, <2>7, <2>8, <2>9, <2>10,
       <2>11, <2>12, <2>13, <2>14, <2>15, <2>16, <2>17, <2>18, <2>19,
       <2>20, <2>21, <2>22, <2>23, <2>24, <2>25, <2>26, <2>27, <2>28
       DEF Next, Client, Sender, Handling, Main, Run
<1> QED
  BY <1>1, <1>2, PTL DEF Spec

(* Run is the last of a connection's goroutines to use what it owns.       *)
THEOREM RunOutlives == Spec => []RunIsLast
<1> USE GameSessionAssumption
<1>1. Init => RunIsLast
  BY DEF Init, RunIsLast
<1>2. TypeOK /\ RunIsLast /\ [Next]_vars => RunIsLast'
  <2> SUFFICES ASSUME TypeOK, RunIsLast, [Next]_vars
               PROVE  RunIsLast'
    OBVIOUS
  <2> USE DEF RunIsLast, TypeOK, Message, DeletePCs, link, channels, identity,
              manager, pcs, counts
  <2>1. ASSUME NEW c \in Conns, Accept(c)
        PROVE  RunIsLast'
    BY <2>1 DEF Accept
  <2>2. ASSUME NEW c \in Conns, Disconnect(c)
        PROVE  RunIsLast'
    BY <2>2 DEF Disconnect
  <2>3. ASSUME NEW c \in Conns, NEW m \in Message, ReadMessage(c, m)
        PROVE  RunIsLast'
    BY <2>3 DEF ReadMessage, ReaderUnchanged
  <2>4. ASSUME NEW c \in Conns, WriteEnds(c)
        PROVE  RunIsLast'
    BY <2>4 DEF WriteEnds, SenderUnchanged
  <2>5. ASSUME NEW c \in Conns, ReadFails(c)
        PROVE  RunIsLast'
    BY <2>5 DEF ReadFails, ReaderUnchanged
  <2>6. ASSUME NEW c \in Conns, SenderTakes(c)
        PROVE  RunIsLast'
    BY <2>6 DEF SenderTakes, SenderUnchanged
  <2>7. ASSUME NEW c \in Conns, WriteFails(c)
        PROVE  RunIsLast'
    BY <2>7 DEF WriteFails, SenderUnchanged
  <2>8. ASSUME NEW c \in Conns, SenderStops(c)
        PROVE  RunIsLast'
    BY <2>8 DEF SenderStops, SenderUnchanged
  <2>9. ASSUME NEW c \in Conns, HandlerTakes(c)
        PROVE  RunIsLast'
    BY <2>9 DEF HandlerTakes, HandlerUnchanged, HandlerGoto
  <2>10. ASSUME NEW c \in Conns, HandlerStops(c)
        PROVE  RunIsLast'
    BY <2>10 DEF HandlerStops, HandlerUnchanged, HandlerGoto
  <2>11. ASSUME NEW c \in Conns, AuthFails(c)
        PROVE  RunIsLast'
    BY <2>11 DEF AuthFails, HandlerUnchanged, HandlerGoto
  <2>12. ASSUME NEW c \in Conns, NEW p \in Players, AuthSets(c, p)
        PROVE  RunIsLast'
    BY <2>12 DEF AuthSets, HandlerUnchanged, HandlerGoto
  <2>13. ASSUME NEW c \in Conns, AuthLoadFails(c)
        PROVE  RunIsLast'
    BY <2>13 DEF AuthLoadFails, HandlerUnchanged, HandlerGoto
  <2>14. ASSUME NEW c \in Conns, AuthLooksUp(c)
        PROVE  RunIsLast'
    BY <2>14 DEF AuthLooksUp, HandlerUnchanged, HandlerGoto
  <2>15. ASSUME NEW c \in Conns, AuthStores(c)
        PROVE  RunIsLast'
    BY <2>15 DEF AuthStores, HandlerUnchanged, HandlerGoto
  <2>16. ASSUME NEW c \in Conns, HandleEnter(c)
        PROVE  RunIsLast'
    BY <2>16 DEF HandleEnter, HandlerUnchanged, HandlerGoto
  <2>17. ASSUME NEW c \in Conns, HandleLeave(c)
        PROVE  RunIsLast'
    BY <2>17 DEF HandleLeave, HandlerUnchanged, HandlerGoto
  <2>18. ASSUME NEW c \in Conns, Respond(c)
        PROVE  RunIsLast'
    BY <2>18 DEF Respond, HandlerUnchanged, HandlerGoto
  <2>19. ASSUME NEW c \in Conns, AuthTimeout(c)
        PROVE  RunIsLast'
    BY <2>19 DEF AuthTimeout, MainUnchanged, MainGoto
  <2>20. ASSUME NEW c \in Conns, MainSeesDone(c)
        PROVE  RunIsLast'
    BY <2>20 DEF MainSeesDone, MainUnchanged, MainGoto
  <2>21. ASSUME NEW c \in Conns, MainDeletes(c)
        PROVE  RunIsLast'
    BY <2>21 DEF MainDeletes, DeleteStep, MainUnchanged, MainGoto
  <2>22. ASSUME NEW c \in Conns, RunWakes(c)
        PROVE  RunIsLast'
    BY <2>22 DEF RunWakes, RunUnchanged, RunGoto
  <2>23. ASSUME NEW c \in Conns, Cleanup(c)
        PROVE  RunIsLast'
    BY <2>23 DEF Cleanup, RunUnchanged, RunGoto
  <2>24. ASSUME NEW c \in Conns, RunDeletes(c)
        PROVE  RunIsLast'
    BY <2>24 DEF RunDeletes, DeleteStep, RunUnchanged, RunGoto
  <2>25. ASSUME NEW c \in Conns, RunCloses(c)
        PROVE  RunIsLast'
    BY <2>25 DEF RunCloses, RunUnchanged, RunGoto
  <2>26. ASSUME NEW n \in Notifiers, NotifySends(n)
        PROVE  RunIsLast'
    BY <2>26 DEF NotifySends, NotifyUnchanged
  <2>27. ASSUME NEW n \in Notifiers, NEW p \in Players, NotifyLooksUp(n, p)
        PROVE  RunIsLast'
    BY <2>27 DEF NotifyLooksUp, NotifyUnchanged
  <2>28. CASE UNCHANGED vars
    BY <2>28 DEF vars
  <2> QED
    BY <2>1, <2>2, <2>3, <2>4, <2>5, <2>6, <2>7, <2>8, <2>9, <2>10,
       <2>11, <2>12, <2>13, <2>14, <2>15, <2>16, <2>17, <2>18, <2>19,
       <2>20, <2>21, <2>22, <2>23, <2>24, <2>25, <2>26, <2>27, <2>28
       DEF Next, Client, Sender, Handling, Main, Run
<1> QED
  BY <1>1, <1>2, TypeCorrect, PTL DEF Spec

(* RecvChan is closed when neither the reader nor the handler can use it   *)
(* any more, whatever ended the connection.                                *)
THEOREM NoUseAfterClose == Spec => []RecvChanClosedLast
<1>1. TypeOK /\ RunIsLast => RecvChanClosedLast
  BY DEF TypeOK, RunIsLast, RecvChanClosedLast
<1> QED
  BY <1>1, TypeCorrect, RunOutlives, PTL

(* As long as the battle server can be reached and clients keep their      *)
(* identity, whatever else happens, a player without a connection that     *)
(* still has to clean up is in no room.                                    *)
THEOREM NobodyStaysBehind ==
  ASSUME "reauth" \notin Upsets, "battle" \notin Upsets
  PROVE  Spec => []RoomNeedsConnection
<1> USE GameSessionAssumption
<1>1. Init => RoomNeedsConnection
  BY DEF Init, RoomNeedsConnection
<1>2. /\ TypeOK /\ RunIsLast
      /\ RoomNeedsConnection /\ [Next]_vars
      => RoomNeedsConnection'
  <2> SUFFICES ASSUME TypeOK, RunIsLast, RoomNeedsConnection, [Next]_vars
               PROVE  RoomNeedsConnection'
    OBVIOUS
  <2> USE DEF RoomNeedsConnection, RunIsLast, TypeOK, Message, DeletePCs, link,
              channels, identity, manager, pcs, counts
  <2>1. ASSUME NEW c \in Conns, Accept(c)
        PROVE  RoomNeedsConnection'
    BY <2>1 DEF Accept
  <2>2. ASSUME NEW c \in Conns, Disconnect(c)
        PROVE  RoomNeedsConnection'
    BY <2>2 DEF Disconnect
  <2>3. ASSUME NEW c \in Conns, NEW m \in Message, ReadMessage(c, m)
        PROVE  RoomNeedsConnection'
    BY <2>3 DEF ReadMessage, ReaderUnchanged
  <2>4. ASSUME NEW c \in Conns, WriteEnds(c)
        PROVE  RoomNeedsConnection'
    BY <2>4 DEF WriteEnds, SenderUnchanged
  <2>5. ASSUME NEW c \in Conns, ReadFails(c)
        PROVE  RoomNeedsConnection'
    BY <2>5 DEF ReadFails, ReaderUnchanged
  <2>6. ASSUME NEW c \in Conns, SenderTakes(c)
        PROVE  RoomNeedsConnection'
    BY <2>6 DEF SenderTakes, SenderUnchanged
  <2>7. ASSUME NEW c \in Conns, WriteFails(c)
        PROVE  RoomNeedsConnection'
    BY <2>7 DEF WriteFails, SenderUnchanged
  <2>8. ASSUME NEW c \in Conns, SenderStops(c)
        PROVE  RoomNeedsConnection'
    BY <2>8 DEF SenderStops, SenderUnchanged
  <2>9. ASSUME NEW c \in Conns, HandlerTakes(c)
        PROVE  RoomNeedsConnection'
    BY <2>9 DEF HandlerTakes, HandlerUnchanged, HandlerGoto
  <2>10. ASSUME NEW c \in Conns, HandlerStops(c)
        PROVE  RoomNeedsConnection'
    BY <2>10 DEF HandlerStops, HandlerUnchanged, HandlerGoto
  <2>11. ASSUME NEW c \in Conns, AuthFails(c)
        PROVE  RoomNeedsConnection'
    BY <2>11 DEF AuthFails, HandlerUnchanged, HandlerGoto
  <2>12. ASSUME NEW c \in Conns, NEW p \in Players, AuthSets(c, p)
        PROVE  RoomNeedsConnection'
    BY <2>12 DEF AuthSets, HandlerUnchanged, HandlerGoto
  <2>13. ASSUME NEW c \in Conns, AuthLoadFails(c)
        PROVE  RoomNeedsConnection'
    BY <2>13 DEF AuthLoadFails, HandlerUnchanged, HandlerGoto
  <2>14. ASSUME NEW c \in Conns, AuthLooksUp(c)
        PROVE  RoomNeedsConnection'
    BY <2>14 DEF AuthLooksUp, HandlerUnchanged, HandlerGoto
  <2>15. ASSUME NEW c \in Conns, AuthStores(c)
        PROVE  RoomNeedsConnection'
    BY <2>15 DEF AuthStores, HandlerUnchanged, HandlerGoto
  <2>16. ASSUME NEW c \in Conns, HandleEnter(c)
        PROVE  RoomNeedsConnection'
    <3>1. /\ handler[c] = "enter" /\ inRoom' \subseteq inRoom \cup {Uid[c]}
          /\ UNCHANGED <<Uid, run>>
      BY <2>16 DEF HandleEnter, HandlerUnchanged
    <3>2. run[c] = "wait"
      BY <3>1
    <3> QED
      BY <3>1, <3>2
  <2>17. ASSUME NEW c \in Conns, HandleLeave(c)
        PROVE  RoomNeedsConnection'
    BY <2>17 DEF HandleLeave, HandlerUnchanged, HandlerGoto
  <2>18. ASSUME NEW c \in Conns, Respond(c)
        PROVE  RoomNeedsConnection'
    BY <2>18 DEF Respond, HandlerUnchanged, HandlerGoto
  <2>19. ASSUME NEW c \in Conns, AuthTimeout(c)
        PROVE  RoomNeedsConnection'
    BY <2>19 DEF AuthTimeout, MainUnchanged, MainGoto
  <2>20. ASSUME NEW c \in Conns, MainSeesDone(c)
        PROVE  RoomNeedsConnection'
    BY <2>20 DEF MainSeesDone, MainUnchanged, MainGoto
  <2>21. ASSUME NEW c \in Conns, MainDeletes(c)
        PROVE  RoomNeedsConnection'
    BY <2>21 DEF MainDeletes, DeleteStep, MainUnchanged, MainGoto
  <2>22. ASSUME NEW c \in Conns, RunWakes(c)
        PROVE  RoomNeedsConnection'
    BY <2>22 DEF RunWakes, RunUnchanged, RunGoto
  <2>23. ASSUME NEW c \in Conns, Cleanup(c)
        PROVE  RoomNeedsConnection'
    BY <2>23 DEF Cleanup, RunUnchanged, RunGoto
  <2>24. ASSUME NEW c \in Conns, RunDeletes(c)
        PROVE  RoomNeedsConnection'
    <3>1. run[c] \notin {"wait", "cleanup"} /\ UNCHANGED <<Uid, inRoom>>
      BY <2>24 DEF RunDeletes, DeleteStep, RunUnchanged
    <3>2. \E pc : run' = [run EXCEPT ![c] = pc]
      BY <2>24 DEF RunDeletes, DeleteStep, RunGoto
    <3> QED
      BY <3>1, <3>2
  <2>25. ASSUME NEW c \in Conns, RunCloses(c)
        PROVE  RoomNeedsConnection'
    <3>1. run[c] \notin {"wait", "cleanup"} /\ UNCHANGED <<Uid, inRoom>>
      BY <2>25 DEF RunCloses, RunUnchanged
    <3>2. run' = [run EXCEPT ![c] = "done"]
      BY <2>25 DEF RunCloses, RunGoto
    <3> QED
      BY <3>1, <3>2
  <2>26. ASSUME NEW n \in Notifiers, NotifySends(n)
        PROVE  RoomNeedsConnection'
    BY <2>26 DEF NotifySends, NotifyUnchanged
  <2>27. ASSUME NEW n \in Notifiers, NEW p \in Players, NotifyLooksUp(n, p)
        PROVE  RoomNeedsConnection'
    BY <2>27 DEF NotifyLooksUp, NotifyUnchanged
  <2>28. CASE UNCHANGED vars
    BY <2>28 DEF vars
  <2> QED
    BY <2>1, <2>2, <2>3, <2>4, <2>5, <2>6, <2>7, <2>8, <2>9, <2>10,
       <2>11, <2>12, <2>13, <2>14, <2>15, <2>16, <2>17, <2>18, <2>19,
       <2>20, <2>21, <2>22, <2>23, <2>24, <2>25, <2>26, <2>27, <2>28
       DEF Next, Client, Sender, Handling, Main, Run
<1> QED
  BY <1>1, <1>2, TypeCorrect, RunOutlives, PTL DEF Spec
(* Whatever ends a connection closes it before the manager forgets it, so  *)
(* an open connection is in the manager's map.                             *)
THEOREM OpenConnectionsAreListed == Spec => []OpenIsListed
<1> USE GameSessionAssumption
<1>1. Init => OpenIsListed
  <2> SUFFICES ASSUME Init, NEW c \in Conns
               PROVE  /\ Conn[c] = "none" /\ ~Authenticated[c] /\ ~cancelled[c]
                      /\ reader[c] = "off" /\ main[c] = "off"
    BY DEF OpenIsListed, DeletePCs
  <2> QED
    BY DEF Init
<1>2. TypeOK /\ RunIsLast /\ OpenIsListed /\ [Next]_vars => OpenIsListed'
  <2> SUFFICES ASSUME TypeOK, RunIsLast, OpenIsListed, [Next]_vars
               PROVE  OpenIsListed'
    OBVIOUS
  <2> USE DEF OpenIsListed, RunIsLast, TypeOK, Message, DeletePCs, link, channels, identity, manager,
              pcs, counts
  <2>1. ASSUME NEW c \in Conns, Accept(c)
        PROVE  OpenIsListed'
    BY <2>1 DEF Accept
  <2>2. ASSUME NEW c \in Conns, Disconnect(c)
        PROVE  OpenIsListed'
    BY <2>2 DEF Disconnect
  <2>3. ASSUME NEW c \in Conns, NEW m \in Message, ReadMessage(c, m)
        PROVE  OpenIsListed'
    BY <2>3 DEF ReadMessage, ReaderUnchanged
  <2>4. ASSUME NEW c \in Conns, WriteEnds(c)
        PROVE  OpenIsListed'
    BY <2>4 DEF WriteEnds, SenderUnchanged
  <2>5. ASSUME NEW c \in Conns, ReadFails(c)
        PROVE  OpenIsListed'
    BY <2>5 DEF ReadFails, ReaderUnchanged
  <2>6. ASSUME NEW c \in Conns, SenderTakes(c)
        PROVE  OpenIsListed'
    BY <2>6 DEF SenderTakes, SenderUnchanged
  <2>7. ASSUME NEW c \in Conns, WriteFails(c)
        PROVE  OpenIsListed'
    BY <2>7 DEF WriteFails, SenderUnchanged
  <2>8. ASSUME NEW c \in Conns, SenderStops(c)
        PROVE  OpenIsListed'
    BY <2>8 DEF SenderStops, SenderUnchanged
  <2>9. ASSUME NEW c \in Conns, HandlerTakes(c)
        PROVE  OpenIsListed'
    BY <2>9 DEF HandlerTakes, HandlerUnchanged, HandlerGoto
  <2>10. ASSUME NEW c \in Conns, HandlerStops(c)
        PROVE  OpenIsListed'
    BY <2>10 DEF HandlerStops, HandlerUnchanged, HandlerGoto
  <2>11. ASSUME NEW c \in Conns, AuthFails(c)
        PROVE  OpenIsListed'
    BY <2>11 DEF AuthFails, HandlerUnchanged, HandlerGoto
  <2>12. ASSUME NEW c \in Conns, NEW p \in Players, AuthSets(c, p)
        PROVE  OpenIsListed'
    BY <2>12 DEF AuthSets, HandlerUnchanged, HandlerGoto
  <2>13. ASSUME NEW c \in Conns, AuthLoadFails(c)
        PROVE  OpenIsListed'
    BY <2>13 DEF AuthLoadFails, HandlerUnchanged, HandlerGoto
  <2>14. ASSUME NEW c \in Conns, AuthLooksUp(c)
        PROVE  OpenIsListed'
    BY <2>14 DEF AuthLooksUp, HandlerUnchanged, HandlerGoto
  <2>15. ASSUME NEW c \in Conns, AuthStores(c)
        PROVE  OpenIsListed'
    BY <2>15 DEF AuthStores, HandlerUnchanged, HandlerGoto
  <2>16. ASSUME NEW c \in Conns, HandleEnter(c)
        PROVE  OpenIsListed'
    BY <2>16 DEF HandleEnter, HandlerUnchanged, HandlerGoto
  <2>17. ASSUME NEW c \in Conns, HandleLeave(c)
        PROVE  OpenIsListed'
    BY <2>17 DEF HandleLeave, HandlerUnchanged, HandlerGoto
  <2>18. ASSUME NEW c \in Conns, Respond(c)
        PROVE  OpenIsListed'
    BY <2>18 DEF Respond, HandlerUnchanged, HandlerGoto
  <2>19. ASSUME NEW c \in Conns, AuthTimeout(c)
        PROVE  OpenIsListed'
    BY <2>19 DEF AuthTimeout, MainUnchanged, MainGoto
  <2>20. ASSUME NEW c \in Conns, MainSeesDone(c)
        PROVE  OpenIsListed'
    BY <2>20 DEF MainSeesDone, MainUnchanged, MainGoto
  <2>21. ASSUME NEW c \in Conns, MainDeletes(c)
        PROVE  OpenIsListed'
    BY <2>21 DEF MainDeletes, DeleteStep, MainUnchanged, MainGoto
  <2>22. ASSUME NEW c \in Conns, RunWakes(c)
        PROVE  OpenIsListed'
    BY <2>22 DEF RunWakes, RunUnchanged, RunGoto
  <2>23. ASSUME NEW c \in Conns, Cleanup(c)
        PROVE  OpenIsListed'
    BY <2>23 DEF Cleanup, RunUnchanged, RunGoto
  <2>24. ASSUME NEW c \in Conns, RunDeletes(c)
        PROVE  OpenIsListed'
    <3>1. /\ run[c] \in DeletePCs /\ players \ {c} \subseteq players'
          /\ UNCHANGED <<Conn, cancelled, Authenticated, reader, main>>
      BY <2>24 DEF RunDeletes, DeleteStep, RunUnchanged
    <3>2. Conn[c] = "closed"
      BY <3>1
    <3> QED
      BY <3>1, <3>2
  <2>25. ASSUME NEW c \in Conns, RunCloses(c)
        PROVE  OpenIsListed'
    BY <2>25 DEF RunCloses, RunUnchanged, RunGoto
  <2>26. ASSUME NEW n \in Notifiers, NotifySends(n)
        PROVE  OpenIsListed'
    BY <2>26 DEF NotifySends, NotifyUnchanged
  <2>27. ASSUME NEW n \in Notifiers, NEW p \in Players, NotifyLooksUp(n, p)
        PROVE  OpenIsListed'
    BY <2>27 DEF NotifyLooksUp, NotifyUnchanged
  <2>28. CASE UNCHANGED vars
    BY <2>28 DEF vars
  <2> QED
    BY <2>1, <2>2, <2>3, <2>4, <2>5, <2>6, <2>7, <2>8, <2>9, <2>10,
       <2>11, <2>12, <2>13, <2>14, <2>15, <2>16, <2>17, <2>18, <2>19, <2>20,
       <2>21, <2>22, <2>23, <2>24, <2>25, <2>26, <2>27, <2>28
       DEF Next, Client, Sender, Handling, Main, Run
<1> QED
  BY <1>1, <1>2, TypeCorrect, RunOutlives, PTL DEF Spec

(* As long as a player authenticates again only when its old connection is *)
(* gone, it never has two connections with goroutines.                     *)
THEOREM OneConnectionAtATime ==
  ASSUME "overlap" \notin Upsets, "reauth" \notin Upsets
  PROVE  Spec => []OneAtATime
<1> USE GameSessionAssumption
<1>1. Init => OneAtATime
  BY DEF Init, OneAtATime
<1>2. TypeOK /\ RunIsLast /\ OneAtATime /\ [Next]_vars => OneAtATime'
  <2> SUFFICES ASSUME TypeOK, RunIsLast, OneAtATime, [Next]_vars
               PROVE  OneAtATime'
    OBVIOUS
  <2> USE DEF OneAtATime, Over, RunIsLast, TypeOK, Message, DeletePCs, link, channels, identity, manager,
              pcs, counts
  <2>1. ASSUME NEW c \in Conns, Accept(c)
        PROVE  OneAtATime'
    BY <2>1 DEF Accept
  <2>2. ASSUME NEW c \in Conns, Disconnect(c)
        PROVE  OneAtATime'
    BY <2>2 DEF Disconnect
  <2>3. ASSUME NEW c \in Conns, NEW m \in Message, ReadMessage(c, m)
        PROVE  OneAtATime'
    BY <2>3 DEF ReadMessage, ReaderUnchanged
  <2>4. ASSUME NEW c \in Conns, WriteEnds(c)
        PROVE  OneAtATime'
    BY <2>4 DEF WriteEnds, SenderUnchanged
  <2>5. ASSUME NEW c \in Conns, ReadFails(c)
        PROVE  OneAtATime'
    BY <2>5 DEF ReadFails, ReaderUnchanged
  <2>6. ASSUME NEW c \in Conns, SenderTakes(c)
        PROVE  OneAtATime'
    BY <2>6 DEF SenderTakes, SenderUnchanged
  <2>7. ASSUME NEW c \in Conns, WriteFails(c)
        PROVE  OneAtATime'
    BY <2>7 DEF WriteFails, SenderUnchanged
  <2>8. ASSUME NEW c \in Conns, SenderStops(c)
        PROVE  OneAtATime'
    BY <2>8 DEF SenderStops, SenderUnchanged
  <2>9. ASSUME NEW c \in Conns, HandlerTakes(c)
        PROVE  OneAtATime'
    BY <2>9 DEF HandlerTakes, HandlerUnchanged, HandlerGoto
  <2>10. ASSUME NEW c \in Conns, HandlerStops(c)
        PROVE  OneAtATime'
    BY <2>10 DEF HandlerStops, HandlerUnchanged, HandlerGoto
  <2>11. ASSUME NEW c \in Conns, AuthFails(c)
        PROVE  OneAtATime'
    BY <2>11 DEF AuthFails, HandlerUnchanged, HandlerGoto
  <2>12. ASSUME NEW c \in Conns, NEW p \in Players, AuthSets(c, p)
        PROVE  OneAtATime'
    BY <2>12 DEF AuthSets, MayAuthenticate, Gone, HandlerUnchanged, HandlerGoto
  <2>13. ASSUME NEW c \in Conns, AuthLoadFails(c)
        PROVE  OneAtATime'
    BY <2>13 DEF AuthLoadFails, HandlerUnchanged, HandlerGoto
  <2>14. ASSUME NEW c \in Conns, AuthLooksUp(c)
        PROVE  OneAtATime'
    BY <2>14 DEF AuthLooksUp, HandlerUnchanged, HandlerGoto
  <2>15. ASSUME NEW c \in Conns, AuthStores(c)
        PROVE  OneAtATime'
    BY <2>15 DEF AuthStores, HandlerUnchanged, HandlerGoto
  <2>16. ASSUME NEW c \in Conns, HandleEnter(c)
        PROVE  OneAtATime'
    BY <2>16 DEF HandleEnter, HandlerUnchanged, HandlerGoto
  <2>17. ASSUME NEW c \in Conns, HandleLeave(c)
        PROVE  OneAtATime'
    BY <2>17 DEF HandleLeave, HandlerUnchanged, HandlerGoto
  <2>18. ASSUME NEW c \in Conns, Respond(c)
        PROVE  OneAtATime'
    BY <2>18 DEF Respond, HandlerUnchanged, HandlerGoto
  <2>19. ASSUME NEW c \in Conns, AuthTimeout(c)
        PROVE  OneAtATime'
    BY <2>19 DEF AuthTimeout, MainUnchanged, MainGoto
  <2>20. ASSUME NEW c \in Conns, MainSeesDone(c)
        PROVE  OneAtATime'
    BY <2>20 DEF MainSeesDone, MainUnchanged, MainGoto
  <2>21. ASSUME NEW c \in Conns, MainDeletes(c)
        PROVE  OneAtATime'
    BY <2>21 DEF MainDeletes, DeleteStep, MainUnchanged, MainGoto
  <2>22. ASSUME NEW c \in Conns, RunWakes(c)
        PROVE  OneAtATime'
    BY <2>22 DEF RunWakes, RunUnchanged, RunGoto
  <2>23. ASSUME NEW c \in Conns, Cleanup(c)
        PROVE  OneAtATime'
    BY <2>23 DEF Cleanup, RunUnchanged, RunGoto
  <2>24. ASSUME NEW c \in Conns, RunDeletes(c)
        PROVE  OneAtATime'
    BY <2>24 DEF RunDeletes, DeleteStep, RunUnchanged, RunGoto
  <2>25. ASSUME NEW c \in Conns, RunCloses(c)
        PROVE  OneAtATime'
    BY <2>25 DEF RunCloses, RunUnchanged, RunGoto
  <2>26. ASSUME NEW n \in Notifiers, NotifySends(n)
        PROVE  OneAtATime'
    BY <2>26 DEF NotifySends, NotifyUnchanged
  <2>27. ASSUME NEW n \in Notifiers, NEW p \in Players, NotifyLooksUp(n, p)
        PROVE  OneAtATime'
    BY <2>27 DEF NotifyLooksUp, NotifyUnchanged
  <2>28. CASE UNCHANGED vars
    BY <2>28 DEF vars
  <2> QED
    BY <2>1, <2>2, <2>3, <2>4, <2>5, <2>6, <2>7, <2>8, <2>9, <2>10,
       <2>11, <2>12, <2>13, <2>14, <2>15, <2>16, <2>17, <2>18, <2>19, <2>20,
       <2>21, <2>22, <2>23, <2>24, <2>25, <2>26, <2>27, <2>28
       DEF Next, Client, Sender, Handling, Main, Run
<1> QED
  BY <1>1, <1>2, TypeCorrect, RunOutlives, PTL DEF Spec

(* The player of an open connection has no second one with goroutines. *)
LEMMA OpenIsAlone ==
  ASSUME TypeOK, OpenIsListed, OneAtATime, NEW c \in Conns, NEW d \in Conns \ {c},
         ~Over(c), Conn[d] = "open", Authenticated[d]
  PROVE  Uid[d] \in Players /\ Uid[d] # Uid[c]
<1>1. Uid[d] \in Players
  BY DEF TypeOK
<1>2. Uid[d] # Nil
  BY <1>1, GameSessionAssumption
<1>3. ~Over(d)
  BY DEF OpenIsListed, Over
<1> QED
  BY <1>1, <1>2, <1>3 DEF OneAtATime

(* An authenticated client that is being served is in the manager's map    *)
(* under its uid, so that the notifications of the battle server reach it: *)
(* neither a look-up that is late nor the cleanup of another connection    *)
(* takes the entry away, while the user's data can be loaded and a player  *)
(* has one connection.                                                     *)
THEOREM ServedCanBeNotified ==
  ASSUME "overlap" \notin Upsets, "reauth" \notin Upsets, "redis" \notin Upsets
  PROVE  Spec => []ServedIsReachable
<1> USE GameSessionAssumption
<1>1. Init => OpenIsStored
  BY DEF Init, OpenIsStored
<1>2. /\ TypeOK /\ RunIsLast /\ OpenIsListed /\ OneAtATime
      /\ OpenIsStored /\ [Next]_vars
      => OpenIsStored'
  <2> SUFFICES ASSUME TypeOK, RunIsLast, OpenIsListed, OneAtATime, OpenIsStored,
                      [Next]_vars
               PROVE  OpenIsStored'
    OBVIOUS
  <2> USE DEF OpenIsStored, OneAtATime, Over, OpenIsListed, RunIsLast, TypeOK,
              Message, DeletePCs, link, channels, identity, manager,
              pcs, counts
  <2>1. ASSUME NEW c \in Conns, Accept(c)
        PROVE  OpenIsStored'
    BY <2>1 DEF Accept
  <2>2. ASSUME NEW c \in Conns, Disconnect(c)
        PROVE  OpenIsStored'
    BY <2>2 DEF Disconnect
  <2>3. ASSUME NEW c \in Conns, NEW m \in Message, ReadMessage(c, m)
        PROVE  OpenIsStored'
    BY <2>3 DEF ReadMessage, ReaderUnchanged
  <2>4. ASSUME NEW c \in Conns, WriteEnds(c)
        PROVE  OpenIsStored'
    BY <2>4 DEF WriteEnds, SenderUnchanged
  <2>5. ASSUME NEW c \in Conns, ReadFails(c)
        PROVE  OpenIsStored'
    BY <2>5 DEF ReadFails, ReaderUnchanged
  <2>6. ASSUME NEW c \in Conns, SenderTakes(c)
        PROVE  OpenIsStored'
    BY <2>6 DEF SenderTakes, SenderUnchanged
  <2>7. ASSUME NEW c \in Conns, WriteFails(c)
        PROVE  OpenIsStored'
    BY <2>7 DEF WriteFails, SenderUnchanged
  <2>8. ASSUME NEW c \in Conns, SenderStops(c)
        PROVE  OpenIsStored'
    BY <2>8 DEF SenderStops, SenderUnchanged
  <2>9. ASSUME NEW c \in Conns, HandlerTakes(c)
        PROVE  OpenIsStored'
    BY <2>9 DEF HandlerTakes, HandlerUnchanged, HandlerGoto
  <2>10. ASSUME NEW c \in Conns, HandlerStops(c)
        PROVE  OpenIsStored'
    BY <2>10 DEF HandlerStops, HandlerUnchanged, HandlerGoto
  <2>11. ASSUME NEW c \in Conns, AuthFails(c)
        PROVE  OpenIsStored'
    BY <2>11 DEF AuthFails, HandlerUnchanged, HandlerGoto
  <2>12. ASSUME NEW c \in Conns, NEW p \in Players, AuthSets(c, p)
        PROVE  OpenIsStored'
    BY <2>12 DEF AuthSets, HandlerUnchanged, HandlerGoto
  <2>13. ASSUME NEW c \in Conns, AuthLoadFails(c)
        PROVE  OpenIsStored'
    BY <2>13 DEF AuthLoadFails, HandlerUnchanged, HandlerGoto
  <2>14. ASSUME NEW c \in Conns, AuthLooksUp(c)
        PROVE  OpenIsStored'
    BY <2>14 DEF AuthLooksUp, HandlerUnchanged, HandlerGoto
  <2>15. ASSUME NEW c \in Conns, AuthStores(c)
        PROVE  OpenIsStored'
    <3>1. /\ handler[c] = "store" /\ handler' = [handler EXCEPT ![c] = "respond"]
          /\ uin_player' = [uin_player EXCEPT ![Uid[c]] = c]
          /\ UNCHANGED <<Conn, Authenticated, Uid>>
      BY <2>15 DEF AuthStores, HandlerUnchanged, HandlerGoto
    <3>2. Uid[c] \in Players /\ ~Over(c)
      BY <3>1
    <3>3. ASSUME NEW d \in Conns \ {c}, Conn[d] = "open", Authenticated[d]
          PROVE  Uid[d] # Uid[c]
      BY <3>2, <3>3, OpenIsAlone
    <3> QED
      BY <3>1, <3>2, <3>3
  <2>16. ASSUME NEW c \in Conns, HandleEnter(c)
        PROVE  OpenIsStored'
    BY <2>16 DEF HandleEnter, HandlerUnchanged, HandlerGoto
  <2>17. ASSUME NEW c \in Conns, HandleLeave(c)
        PROVE  OpenIsStored'
    BY <2>17 DEF HandleLeave, HandlerUnchanged, HandlerGoto
  <2>18. ASSUME NEW c \in Conns, Respond(c)
        PROVE  OpenIsStored'
    BY <2>18 DEF Respond, HandlerUnchanged, HandlerGoto
  <2>19. ASSUME NEW c \in Conns, AuthTimeout(c)
        PROVE  OpenIsStored'
    BY <2>19 DEF AuthTimeout, MainUnchanged, MainGoto
  <2>20. ASSUME NEW c \in Conns, MainSeesDone(c)
        PROVE  OpenIsStored'
    BY <2>20 DEF MainSeesDone, MainUnchanged, MainGoto
  <2>21. ASSUME NEW c \in Conns, MainDeletes(c)
        PROVE  OpenIsStored'
    <3>1. /\ main[c] \in DeletePCs
          /\ \/ UNCHANGED uin_player
             \/ uin_player' =
                  [p \in Players |-> IF p = Uid[c] THEN Nil ELSE uin_player[p]]
          /\ UNCHANGED <<Conn, Authenticated, Uid, handler>>
      BY <2>21 DEF MainDeletes, DeleteStep, MainUnchanged
    <3>2. Conn[c] = "closed" /\ ~Over(c)
      BY <3>1
    <3>3. ASSUME NEW d \in Conns, Conn[d] = "open", Authenticated[d]
          PROVE  Uid[d] \in Players /\ Uid[d] # Uid[c]
      BY <3>2, <3>3, OpenIsAlone
    <3> QED
      BY <3>1, <3>3
  <2>22. ASSUME NEW c \in Conns, RunWakes(c)
        PROVE  OpenIsStored'
    BY <2>22 DEF RunWakes, RunUnchanged, RunGoto
  <2>23. ASSUME NEW c \in Conns, Cleanup(c)
        PROVE  OpenIsStored'
    BY <2>23 DEF Cleanup, RunUnchanged, RunGoto
  <2>24. ASSUME NEW c \in Conns, RunDeletes(c)
        PROVE  OpenIsStored'
    <3>1. /\ run[c] \in DeletePCs
          /\ \/ UNCHANGED uin_player
             \/ uin_player' =
                  [p \in Players |-> IF p = Uid[c] THEN Nil ELSE uin_player[p]]
          /\ UNCHANGED <<Conn, Authenticated, Uid, handler>>
      BY <2>24 DEF RunDeletes, DeleteStep, RunUnchanged
    <3>2. Conn[c] = "closed" /\ ~Over(c)
      BY <3>1
    <3>3. ASSUME NEW d \in Conns, Conn[d] = "open", Authenticated[d]
          PROVE  Uid[d] \in Players /\ Uid[d] # Uid[c]
      BY <3>2, <3>3, OpenIsAlone
    <3> QED
      BY <3>1, <3>3
  <2>25. ASSUME NEW c \in Conns, RunCloses(c)
        PROVE  OpenIsStored'
    BY <2>25 DEF RunCloses, RunUnchanged, RunGoto
  <2>26. ASSUME NEW n \in Notifiers, NotifySends(n)
        PROVE  OpenIsStored'
    BY <2>26 DEF NotifySends, NotifyUnchanged
  <2>27. ASSUME NEW n \in Notifiers, NEW p \in Players, NotifyLooksUp(n, p)
        PROVE  OpenIsStored'
    BY <2>27 DEF NotifyLooksUp, NotifyUnchanged
  <2>28. CASE UNCHANGED vars
    BY <2>28 DEF vars
  <2> QED
    BY <2>1, <2>2, <2>3, <2>4, <2>5, <2>6, <2>7, <2>8, <2>9, <2>10,
       <2>11, <2>12, <2>13, <2>14, <2>15, <2>16, <2>17, <2>18, <2>19, <2>20,
       <2>21, <2>22, <2>23, <2>24, <2>25, <2>26, <2>27, <2>28
       DEF Next, Client, Sender, Handling, Main, Run
<1>3. OpenIsStored => ServedIsReachable
  BY DEF OpenIsStored, ServedIsReachable, Served
<1> QED
  BY <1>1, <1>2, <1>3, TypeCorrect, RunOutlives, OpenConnectionsAreListed,
     OneConnectionAtATime, PTL DEF Spec

=============================================================================
