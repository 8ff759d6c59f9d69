---------------------------- MODULE WordCardGame ----------------------------
(***************************************************************************)
(* The word card game of a battle room                                     *)
(* (gdserver/server/src/servers/battle/game.go), driven as room.go drives  *)
(* it: players put commands into the room's channel, and the room's        *)
(* goroutine takes them out one at a time and looks on every tick whether  *)
(* the game is over.  A player aims at a place of the table it sees; by    *)
(* the time the command is handled the table may be another one.           *)
(*                                                                         *)
(* GetReadyRoomRpc, the only caller of StartGame, starts a new game each   *)
(* time a player reports ready once all are.  The players of the room do   *)
(* not change here.  A hand and a deck are bags: the deck is shuffled, and *)
(* a command may name any index of a hand.                                 *)
(***************************************************************************)
EXTENDS Sentence, FiniteSets

CONSTANTS
  Players,   \* the ids of the room's players
  Cards,     \* the cards of word_cards.json
  PosOf,     \* card -> its part of speech
  Copies,    \* copies of each card in a deck (4)
  HandSize,  \* cards dealt to a player (8)
  CmdCap,    \* capacity of CmdChan (100)
  MaxGames,  \* bound: games started in one room
  NoPlayer   \* the zero value of LastPlayed

ASSUME WordCardGameAssumption ==
  /\ IsFiniteSet(Players) /\ Cardinality(Players) >= 2
  /\ NoPlayer \notin Players
  /\ IsFiniteSet(Cards)
  /\ PosOf \in [Cards -> POS]
  /\ {Copies, HandSize, MaxGames} \subseteq Nat
  /\ CmdCap \in Nat \ {0}

VARIABLES
  status,       \* the room's goroutine: "open", "ended" or "panicked"
  games,        \* games started so far
  Hand,         \* player -> card -> how many of it are in the hand
  Score,        \* player -> score
  Deck,         \* card -> how many of it are in the deck
  Table,        \* the cards on the table
  POSSeq,       \* their parts of speech
  CurrentTurn,
  LastPlayed,
  PassCount,
  CmdChan       \* commands not yet handled

piles == <<Hand, Score, Deck, Table, POSSeq>>
vars  == <<status, games, piles, CurrentTurn, LastPlayed, PassCount, CmdChan>>

Command ==
  [player : Players, type : {"PLACE_CARD"}, target : Nat]
    \cup [player : Players, type : {"SKIP_TURN"}]

NoCards == [c \in Cards |-> 0]

(* The copies in a bag, told apart, and how many there are. *)
Pile(bag) == UNION {{x} \X (1..bag[x]) : x \in DOMAIN bag}
Total(bag) == Cardinality(Pile(bag))

Init ==
  /\ status = "open"
  /\ games = 0
  /\ Hand = [p \in Players |-> NoCards]
  /\ Score = [p \in Players |-> 0]
  /\ Deck = NoCards
  /\ Table = <<>>
  /\ POSSeq = <<>>
  /\ CurrentTurn = NoPlayer
  /\ LastPlayed = NoPlayer
  /\ PassCount = 0
  /\ CmdChan = <<>>

-----------------------------------------------------------------------------
(* WordCardGame.Init makes fresh players and a fresh deck, Start deals     *)
(* round-robin until the deck is empty.  Table, POSSeq and LastPlayed are  *)
(* left as they are.                                                       *)

(* The hands round-robin dealing can produce, in whatever order the        *)
(* players come and the deck lies.                                         *)
Deals ==
  LET total == Copies * Cardinality(Cards)
      n     == Cardinality(Players)
      share == total \div n
      sizes == IF share >= HandSize THEN {HandSize}
               ELSE {share, share + 1}
  IN  {h \in [Players -> [Cards -> 0..Copies]] :
         /\ \A p \in Players : Total(h[p]) \in sizes
         /\ \A c \in Cards : Total([p \in Players |-> h[p][c]]) <= Copies
         /\ share < HandSize => Total([p \in Players |-> Total(h[p])]) = total}

StartGame ==
  /\ status = "open"
  /\ games < MaxGames
  /\ games' = games + 1
  /\ Hand' \in Deals
  /\ Deck' = [c \in Cards |-> Copies - Total([p \in Players |-> Hand'[p][c]])]
  /\ Score' = [p \in Players |-> 0]
  /\ CurrentTurn' \in Players
  /\ PassCount' = 0
  /\ UNCHANGED <<status, Table, POSSeq, LastPlayed, CmdChan>>

-----------------------------------------------------------------------------
(* PlayerActionRpc: the command goes into the channel. *)
Submit(cmd) ==
  /\ status = "open"
  /\ Len(CmdChan) < CmdCap
  /\ CmdChan' = Append(CmdChan, cmd)
  /\ UNCHANGED <<status, games, piles, CurrentTurn, LastPlayed, PassCount>>

SubmitPlaceCard(p) ==
  \E i \in 0..Len(Table) :
    Submit([player |-> p, type |-> "PLACE_CARD", target |-> i])

SubmitSkipTurn(p) == Submit([player |-> p, type |-> "SKIP_TURN"])

-----------------------------------------------------------------------------
(* Plausible slips, each of which breaks a property stated below. *)

(* playCard leaves the card in the hand. *)
playCardKeepsHand(p, c, i) ==
  /\ canInsert(POSSeq, PosOf[c], i)
  /\ Table' = Insert(Table, c, i)
  /\ POSSeq' = Insert(POSSeq, PosOf[c], i)
  /\ LastPlayed' = p
  /\ PassCount' = 0
  /\ UNCHANGED Hand

(* scoreAndReset clears the table and keeps the part-of-speech sequence. *)
scoreAndResetKeepsPOSSeq ==
  /\ Score' = [p \in Players |->
                 IF p = LastPlayed THEN Score[p] + Len(Table) ELSE Score[p]]
  /\ Table' = <<>>
  /\ UNCHANGED POSSeq

(* A skip that ends the round is counted into the next one. *)
SkipTurnKeepsCount ==
  /\ status = "open"
  /\ CmdChan # <<>> /\ Head(CmdChan).type = "SKIP_TURN"
  /\ CmdChan' = Tail(CmdChan)
  /\ PassCount' = PassCount + 1
  /\ UNCHANGED <<status, games, piles, CurrentTurn, LastPlayed>>

(* The loop looks at the game only when there is no command to handle. *)
EndGameWhenIdle ==
  /\ status = "open" /\ CmdChan = <<>>
  /\ games > 0 /\ \E p \in Players : Hand[p] = NoCards
  /\ status' = "ended"
  /\ UNCHANGED <<games, piles, CurrentTurn, LastPlayed, PassCount, CmdChan>>

-----------------------------------------------------------------------------
(* The room's goroutine: HandlePlayerCommand and HandleAction. *)

playCard(p, c, i) ==
  /\ canInsert(POSSeq, PosOf[c], i)
  /\ Hand' = [Hand EXCEPT ![p][c] = @ - 1]
  /\ Table' = Insert(Table, c, i)
  /\ POSSeq' = Insert(POSSeq, PosOf[c], i)
  /\ LastPlayed' = p
  /\ PassCount' = 0

Receive(type) ==
  /\ status = "open"
  /\ CmdChan # <<>> /\ Head(CmdChan).type = type
  /\ CmdChan' = Tail(CmdChan)

(* No game yet, an index that is not in the hand (any command may carry    *)
(* one), or a place the word does not fit: nothing changes, nobody is told.*)
PlaceCardIgnored ==
  /\ Receive("PLACE_CARD")
  /\ UNCHANGED <<status, games, piles, CurrentTurn, LastPlayed, PassCount>>

PlaceCard ==
  /\ Receive("PLACE_CARD")
  /\ games > 0
  /\ LET cmd == Head(CmdChan)
     IN  /\ ~Panics(POSSeq, cmd.target)
         /\ \E c \in Cards : /\ Hand[cmd.player][c] > 0
                             /\ playCard(cmd.player, c, cmd.target)
  /\ UNCHANGED <<status, games, Score, Deck, CurrentTurn>>

(* An index out of range ends the process. *)
PlaceCardPanics ==
  /\ Receive("PLACE_CARD")
  /\ games > 0
  /\ LET cmd == Head(CmdChan)
     IN  Hand[cmd.player] # NoCards /\ Panics(POSSeq, cmd.target)
  /\ status' = "panicked"
  /\ UNCHANGED <<games, piles, CurrentTurn, LastPlayed, PassCount>>

scoreAndReset ==
  /\ Score' = [p \in Players |->
                 IF p = LastPlayed THEN Score[p] + Len(Table) ELSE Score[p]]
  /\ Table' = <<>>
  /\ POSSeq' = <<>>

SkipTurn ==
  /\ Receive("SKIP_TURN")
  /\ \/ games = 0 /\ UNCHANGED <<piles, PassCount>>
     \/ /\ games > 0 /\ PassCount + 1 < Cardinality(Players)
        /\ PassCount' = PassCount + 1
        /\ UNCHANGED piles
     \/ /\ games > 0 /\ PassCount + 1 >= Cardinality(Players)
        /\ scoreAndReset
        /\ PassCount' = 0
        /\ UNCHANGED <<Hand, Deck>>
  /\ UNCHANGED <<status, games, CurrentTurn, LastPlayed>>

IsGameOver == games > 0 /\ \E p \in Players : Hand[p] = NoCards

(* The tick that sees the end: the room is taken off the server's list and *)
(* its goroutine returns.                                                  *)
EndGame ==
  /\ status = "open"
  /\ IsGameOver
  /\ status' = "ended"
  /\ UNCHANGED <<games, piles, CurrentTurn, LastPlayed, PassCount, CmdChan>>

HandleCommand == PlaceCardIgnored \/ PlaceCard \/ PlaceCardPanics \/ SkipTurn

Next ==
  \/ StartGame
  \/ \E p \in Players : SubmitPlaceCard(p) \/ SubmitSkipTurn(p)
  \/ HandleCommand
  \/ EndGame

Spec == Init /\ [][Next]_vars

(* select picks among the ready cases at random, and the ticker is ready   *)
(* every 100 ms: a tick that would end the game comes.                     *)
FairSpec == Spec /\ WF_vars(EndGame) /\ WF_vars(HandleCommand)

-----------------------------------------------------------------------------
(* Every variable keeps its type; no card count is ever negative. *)
TypeOK ==
  /\ status \in {"open", "ended", "panicked"}
  /\ games \in 0..MaxGames
  /\ Hand \in [Players -> [Cards -> 0..Copies]]
  /\ Score \in [Players -> Nat]
  /\ Deck \in [Cards -> 0..Copies]
  /\ Table \in Seq(Cards)
  /\ POSSeq \in Seq(POS)
  /\ CurrentTurn \in Players \cup {NoPlayer}
  /\ LastPlayed \in Players \cup {NoPlayer}
  /\ PassCount \in 0..(Cardinality(Players) - 1)
  /\ CmdChan \in Seq(Command) /\ Len(CmdChan) <= CmdCap

(* Whatever cards the players insert, wherever they aimed, in whatever     *)
(* order their commands are handled, the table reads as a sentence: every  *)
(* word may follow its predecessor, and POSSeq still describes Table.      *)
SentenceIsGrammatical ==
  /\ POSSeq = [i \in DOMAIN Table |-> PosOf[Table[i]]]
  /\ Grammatical(POSSeq)

(* canInsert refuses exactly the insertions that would break the sentence  *)
(* on the table.                                                           *)
CanInsertIsExact ==
  \A pos \in POS, i \in 0..Len(POSSeq) :
    canInsert(POSSeq, pos, i) <=> Grammatical(Insert(POSSeq, pos, i))

(* While a game lasts, a card is always in the deck, in a hand, on the     *)
(* table, or counted in a score: none appears twice and none is lost, so   *)
(* a round is always credited to somebody.                                 *)
InPlay == Total(Deck) + Total([p \in Players |-> Total(Hand[p])])
            + Len(Table) + Total(Score)

CardsConserved == [][games' = games => InPlay' = InPlay]_vars

(* A table with cards on it was last played on by one of the players.      *)
TableHasItsPlayer == Table # <<>> => LastPlayed \in Players

(* The inductive form of SentenceIsGrammatical and CardsConserved. *)
GameInv == TypeOK /\ SentenceIsGrammatical /\ TableHasItsPlayer

(* The game that one player has finished is closed, whatever else arrives, *)
(* unless the players start another one or the process dies first.         *)
FinishedGameIsClosed == IsGameOver ~> (status # "open" \/ ~IsGameOver)

(* "ERROR_INVALID_TARGET": a target that has ceased to exist is refused.   *)
(* The code does not keep this: the index is used as it is.                *)
StaleTargetIsRefused == status # "panicked"
=============================================================================
