------------------------------ MODULE CardDraw ------------------------------
(***************************************************************************)
(* Drawing cards: servers/game/draw_card.go, SaveDrawCardResults of        *)
(* player.go and userinfo.go.                                              *)
(*                                                                         *)
(* A DRAW_CARD_REQUEST names a uid, and the cards go to the Player that    *)
(* the manager has for that uid: the draw counter and the bag of one       *)
(* Player may be under the hands of several handlers.  They are plain      *)
(* fields without a lock; what handlers at once make of them is a choice.  *)
(***************************************************************************)
EXTENDS RedisPool, Sequences, FiniteSets

CONSTANTS
  Players,     \* Player objects, each with the goroutine that handles its requests
  Uids,
  Guarantee,   \* cards without an SSR before the next one is an SSR: 49
  MaxBatch,    \* bound: cards of one request
  MaxCards,    \* bound: card ids handed out
  MaxDraws,    \* bound: requests
  MaxMishaps,  \* bound: Redis commands that fail
  Nil

ASSUME DrawConstants ==
  /\ Guarantee \in Nat /\ MaxBatch \in Nat /\ MaxCards \in Nat
  /\ MaxDraws \in Nat /\ MaxMishaps \in Nat
  /\ Nil \notin Players \cup Uids
  /\ Missing \notin Nat

VARIABLES
  users,          \* Redis user:{uid}: the fields that are written here
  card_inst_id,   \* Redis global:card_inst_id
  uin_player,     \* the manager's map of users, to Players
  uid,            \* per Player its Uid
  DrawCardCount,  \* per Player
  Backpack,       \* per Player the ids of the cards in its bag
  draw,           \* per Player the locals of its handler
  draws, mishaps,
  given,          \* per user the cards an OK response has shown (history)
  dry,            \* per Player how many cards ago the last SSR was (history)
  overlapped,     \* users for whom two handlers drew at once, or saving failed (history)
  returned        \* users who logged in again (history)

redisVars == <<users, card_inst_id>>
playerVars == <<uin_player, uid, DrawCardCount, Backpack>>
counters == <<draws, mishaps>>
history == <<given, dry, overlapped, returned>>
drawVars == <<redisVars, playerVars, draw, counters, history>>

FirstCardId == 99999
Idle == [at |-> "idle"]

DrawInit ==
  /\ users = [u \in Uids |-> <<>>]
  /\ card_inst_id = Missing
  /\ uin_player = [u \in Uids |-> Nil]
  /\ uid = [p \in Players |-> Nil]
  /\ DrawCardCount = [p \in Players |-> 0]
  /\ Backpack = [p \in Players |-> <<>>]
  /\ draw = [p \in Players |-> Idle]
  /\ draws = 0 /\ mishaps = 0
  /\ given = [u \in Uids |-> {}]
  /\ dry = [p \in Players |-> 0]
  /\ overlapped = {}
  /\ returned = {}

Spend(answer) ==
  /\ mishaps' = IF answer = Failed THEN mishaps + 1 ELSE mishaps
  /\ mishaps' =< MaxMishaps

-----------------------------------------------------------------------------
(* Logging in gives a new Player its uid: neither the bag nor the counter is *)
(* read.  UserAccounts has the whole of it.                                  *)

Login(p, u) ==
  /\ uid[p] = Nil
  /\ uid' = [uid EXCEPT ![p] = u]
  /\ uin_player' = [uin_player EXCEPT ![u] = p]
  /\ returned' = IF \E q \in Players : uid[q] = u THEN returned \cup {u} ELSE returned
  /\ UNCHANGED <<redisVars, DrawCardCount, Backpack, draw, counters, given, dry, overlapped>>

\* DeletePlayer: the entry of the uid goes, whoever it leads to.
Logout(p) ==
  /\ uid[p] # Nil
  /\ uin_player[uid[p]] # Nil
  /\ uin_player' = [uin_player EXCEPT ![uid[p]] = Nil]
  /\ UNCHANGED <<redisVars, uid, DrawCardCount, Backpack, draw, counters, history>>

-----------------------------------------------------------------------------
(* DrawCards *)

Busy(h) == draw[h].at # "idle"
Target(h) == draw[h].target
UserOf(h) == uid[Target(h)]

\* The cards of a bag, and those a handler has drawn.  Cards made while Redis fails
\* have the id 0.
Ids(bag) == {bag[i] : i \in DOMAIN bag}
Held(h) == Ids(draw[h].cards) \ {0}

\* Slip: i =< count.
NextCardAndOne(d) ==
  IF d.left < 0 THEN [d EXCEPT !.at = "bag"]
  ELSE [d EXCEPT !.at = "rarity", !.left = @ - 1]

\* The next card, or afterDraw when there is none left.
NextCard(d) ==
  IF d.left = 0 THEN [d EXCEPT !.at = "bag"]
  ELSE [d EXCEPT !.at = "rarity", !.left = @ - 1]

\* GetPlayerContext.  A uid that nobody is logged in under is answered with
\* INVALID_CARD and nothing else happens.
DrawCards(h, u, count) ==
  /\ uid[h] # Nil /\ ~Busy(h)
  /\ draws < MaxDraws /\ draws' = draws + 1
  /\ uin_player[u] # Nil
  /\ draw' = [draw EXCEPT ![h] =
       NextCard([at |-> "rarity", target |-> uin_player[u], left |-> count, ssr |-> FALSE,
                 forced |-> FALSE, count |-> 0, cards |-> <<>>, bag |-> <<>>,
                 fields |-> <<>>])]
  /\ overlapped' = IF \E g \in Players : Busy(g) /\ UserOf(g) = u
                   THEN overlapped \cup {u} ELSE overlapped
  /\ UNCHANGED <<redisVars, playerVars, mishaps, given, dry, returned>>

\* selectRarityWithContext: any rarity.
SelectRarityWithContext(h) ==
  /\ draw[h].at = "rarity"
  /\ \E ssr \in BOOLEAN :
       draw' = [draw EXCEPT ![h].at = "init", ![h].ssr = ssr, ![h].forced = FALSE]
  /\ UNCHANGED <<redisVars, playerVars, counters, history>>

\* Slip: one card too late.
CardBuiltLate(h, id) ==
  IF ~draw[h].forced /\ DrawCardCount[Target(h)] > Guarantee
    THEN draw' = [draw EXCEPT ![h].at = "init", ![h].ssr = TRUE, ![h].forced = TRUE]
    ELSE draw' = [draw EXCEPT ![h].at = "count", ![h].count = DrawCardCount[Target(h)],
                              ![h].cards = Append(@, id)]

\* A card has its id.  BeforeGenerate builds it once more, as an SSR, when enough
\* cards have gone by; AfterGenerate reads the counter.
CardBuilt(h, id) ==
  LET count == DrawCardCount[Target(h)] IN
  IF ~draw[h].forced /\ count >= Guarantee
    THEN draw' = [draw EXCEPT ![h].at = "init", ![h].ssr = TRUE, ![h].forced = TRUE]
    ELSE draw' = [draw EXCEPT ![h].at = "count", ![h].count = count,
                              ![h].cards = Append(@, id)]

\* Slip: SET for SETNX.
InitAgain(h) ==
  /\ draw[h].at = "init"
  /\ card_inst_id' = FirstCardId
  /\ draw' = [draw EXCEPT ![h].at = "next"]
  /\ UNCHANGED <<users, playerVars, counters, history>>

\* generateCardID: SETNX global:card_inst_id, then INCR.  Either error makes the
\* card's id 0.
InitCardID(h) ==
  /\ draw[h].at = "init"
  /\ \E r \in Outcomes(card_inst_id, SetNX(card_inst_id, FirstCardId)) :
        /\ card_inst_id' = r.space
        /\ IF r.answer = Failed THEN CardBuilt(h, 0)
           ELSE draw' = [draw EXCEPT ![h].at = "next"]
        /\ Spend(r.answer)
  /\ UNCHANGED <<users, playerVars, draws, history>>

IncrCardID(h) ==
  /\ draw[h].at = "next"
  /\ card_inst_id < FirstCardId + MaxCards
  /\ \E r \in Outcomes(card_inst_id, Incr(card_inst_id)) :
        /\ card_inst_id' = r.space
        /\ CardBuilt(h, IF r.answer = Failed THEN 0 ELSE r.answer)
        /\ Spend(r.answer)
  /\ UNCHANGED <<users, playerVars, draws, history>>

\* AfterGenerate writes the counter.  It is reset by a card's Rarity, which
\* buildCardBase never sets.
AfterGenerate(h) ==
  /\ draw[h].at = "count"
  /\ DrawCardCount' = [DrawCardCount EXCEPT ![Target(h)] = draw[h].count + 1]
  /\ dry' = [dry EXCEPT ![Target(h)] = IF draw[h].ssr THEN 0 ELSE @ + 1]
  /\ draw' = [draw EXCEPT ![h] = NextCard(@)]
  /\ UNCHANGED <<redisVars, uin_player, uid, Backpack, counters, given, overlapped, returned>>

-----------------------------------------------------------------------------
(* SaveDrawCardResults *)

ReadBackpack(h) ==
  /\ draw[h].at = "bag"
  /\ draw' = [draw EXCEPT ![h].at = "append", ![h].bag = Backpack[Target(h)]]
  /\ UNCHANGED <<redisVars, playerVars, counters, history>>

\* append(p.Backpack.Cards, cards...).  When another handler has appended since,
\* the two slices may share their array: a slot that both wrote holds either card.
Appended(old, mine, now) ==
  LET bag == old \o mine
      shared == {i \in DOMAIN bag \cap DOMAIN now : bag[i] # now[i]}
  IN {[i \in DOMAIN bag |-> IF i \in theirs THEN now[i] ELSE bag[i]] : theirs \in SUBSET shared}

WriteBackpack(h) ==
  /\ draw[h].at = "append"
  /\ \E b \in Appended(draw[h].bag, draw[h].cards, Backpack[Target(h)]) :
        Backpack' = [Backpack EXCEPT ![Target(h)] = b]
  /\ draw' = [draw EXCEPT ![h].at = "fields"]
  /\ UNCHANGED <<redisVars, uin_player, uid, DrawCardCount, counters, history>>

\* Slip: the JSON that was cached before the cards were appended.
CachedFields(h) ==
  /\ draw[h].at = "fields"
  /\ draw' = [draw EXCEPT ![h].at = "save",
       ![h].fields = [draw_card_count |-> DrawCardCount[Target(h)] + Len(draw[h].cards),
                      bag |-> draw[h].bag]]
  /\ UNCHANGED <<redisVars, playerVars, counters, history>>

\* BackpackToJsonString, and the fields: the counter already has the cards of this
\* request in it.
DrawCardFields(h) ==
  /\ draw[h].at = "fields"
  /\ draw' = [draw EXCEPT ![h].at = "save",
       ![h].fields = [draw_card_count |-> DrawCardCount[Target(h)] + Len(draw[h].cards),
                      bag |-> Backpack[Target(h)]]]
  /\ UNCHANGED <<redisVars, playerVars, counters, history>>

\* The response is OK whether the user was saved or not.
SaveDrawCardResults(h) ==
  LET u == UserOf(h) IN
  /\ draw[h].at = "save"
  /\ \E r \in Outcomes(users, HMSet(users, u, draw[h].fields)) :
        /\ users' = r.space
        /\ overlapped' = IF r.answer = Failed THEN overlapped \cup {u} ELSE overlapped
        /\ Spend(r.answer)
  /\ given' = [given EXCEPT ![u] = @ \cup Held(h)]
  /\ draw' = [draw EXCEPT ![h] = Idle]
  /\ UNCHANGED <<card_inst_id, playerVars, draws, dry, returned>>

-----------------------------------------------------------------------------
\* HandleGetUserInfoRequest: no command ever writes the field "uid", without which
\* the answer is AUTH_FAILED and the Player is left alone.
HandleGetUserInfoRequest(h) ==
  /\ uid[h] # Nil /\ ~Busy(h)
  /\ Backpack' = IF "uid" \in DOMAIN users[uid[h]]
                 THEN [Backpack EXCEPT ![h] = users[uid[h]].bag] ELSE Backpack
  /\ UNCHANGED <<redisVars, uin_player, uid, DrawCardCount, draw, counters, history>>

HandlerNext(h) ==
  \/ \E u \in Uids, count \in 0..MaxBatch : DrawCards(h, u, count)
  \/ SelectRarityWithContext(h) \/ InitCardID(h) \/ IncrCardID(h) \/ AfterGenerate(h)
  \/ ReadBackpack(h) \/ WriteBackpack(h) \/ DrawCardFields(h) \/ SaveDrawCardResults(h)
  \/ HandleGetUserInfoRequest(h)

DrawNext ==
  \E p \in Players :
    \/ \E u \in Uids : Login(p, u)
    \/ Logout(p)
    \/ HandlerNext(p)

DrawSpec == DrawInit /\ [][DrawNext]_drawVars

-----------------------------------------------------------------------------
(* Properties *)

CardIds == 0 .. FirstCardId + MaxCards
Saved == [draw_card_count : Nat, bag : Seq(CardIds)]
Drawing ==
  [at : {"rarity", "init", "next", "count", "bag", "append", "fields", "save"},
   target : Players, left : 0..MaxBatch, ssr : BOOLEAN, forced : BOOLEAN,
   count : Nat, cards : Seq(CardIds), bag : Seq(CardIds), fields : {<<>>} \cup Saved]

TypeOK ==
  /\ users \in [Uids -> {<<>>} \cup Saved]
  /\ card_inst_id \in {Missing} \cup (FirstCardId .. FirstCardId + MaxCards)
  /\ uin_player \in [Uids -> Players \cup {Nil}]
  /\ uid \in [Players -> Uids \cup {Nil}]
  /\ DrawCardCount \in [Players -> Nat]
  /\ Backpack \in [Players -> Seq(CardIds)]
  /\ draw \in [Players -> {Idle} \cup Drawing]
  /\ draws \in 0..MaxDraws /\ mishaps \in 0..MaxMishaps
  /\ given \in [Uids -> SUBSET CardIds]
  /\ dry \in [Players -> Nat]
  /\ overlapped \subseteq Uids /\ returned \subseteq Uids

\* The cards that are saved for a user.
SavedIds(u) == IF users[u] = <<>> THEN {} ELSE Ids(users[u].bag)

\* Two cards never get the same id, whichever handlers build them at once: a card
\* that one handler is drawing is in no other handler's hands, and nobody was shown
\* it before.
CardIdsUnique ==
  \A h \in Players : Busy(h) =>
    /\ \A i, j \in DOMAIN draw[h].cards :
         i # j /\ draw[h].cards[i] # 0 => draw[h].cards[i] # draw[h].cards[j]
    /\ \A g \in Players \ {h} : Busy(g) => Held(h) \cap Held(g) = {}
    /\ \A u \in Uids : Held(h) \cap given[u] = {}

\* Nobody sees more than Guarantee cards without an SSR, unless two handlers drew
\* for him at once: the counter that the interceptors read and write misses none.
NoLongDrySpell ==
  \A p \in Players : uid[p] # Nil /\ uid[p] \notin overlapped => dry[p] =< Guarantee

\* Every card a player was shown is in his saved bag, unless two handlers drew for
\* him at once, saving failed, or he has logged in again since.
ShownCardsAreSaved ==
  \A u \in Uids \ (overlapped \cup returned) :
    given[u] \subseteq SavedIds(u)

\* The same for a player who logs in again: what "Redis data is not lost when a
\* container restarts" says of his bag.  The code does not keep this: a login does
\* not load the bag, and the next draw saves what the new Player has.
BagSurvivesLogin == \A u \in Uids \ overlapped : given[u] \subseteq SavedIds(u)

-----------------------------------------------------------------------------
(* What the proofs of these properties need: the parts of an inductive      *)
(* invariant.                                                               *)

\* The manager's entries lead to Players of that uid; handlers of one user at once
\* are noticed.
TargetsLoggedIn ==
  /\ \A u \in Uids : uin_player[u] # Nil => uid[uin_player[u]] = u
  /\ \A h \in Players : Busy(h) => uid[Target(h)] # Nil
  /\ \A g, h \in Players :
       Busy(g) /\ Busy(h) /\ g # h /\ UserOf(g) = UserOf(h) => UserOf(h) \in overlapped

\* The ids handed out so far, or that a card may have had.
Issued == IF card_inst_id = Missing THEN {} ELSE 1..card_inst_id

IdsAreIssued ==
  /\ \A h \in Players : Busy(h) => Held(h) \subseteq Issued
  /\ \A h \in Players : draw[h].at = "next" => card_inst_id # Missing
  /\ \A u \in Uids : given[u] \subseteq Issued

\* The counter of a Player counts at least as many cards as have gone by.
CountersAreUpToDate ==
  /\ \A p \in Players : uid[p] = Nil => dry[p] = 0
  /\ \A p \in Players : uid[p] # Nil /\ uid[p] \notin overlapped =>
       dry[p] =< DrawCardCount[p] /\ dry[p] =< Guarantee
  /\ \A h \in Players : draw[h].at \in {"init", "next"} /\ draw[h].forced => draw[h].ssr
  /\ \A h \in Players : draw[h].at = "count" /\ UserOf(h) \notin overlapped =>
       /\ draw[h].count = DrawCardCount[Target(h)]
       /\ ~draw[h].ssr => draw[h].count < Guarantee

\* What a user was shown is in the bag of his only Player, and in what is saved.
BagsAreWhole ==
  \A u \in Uids \ (overlapped \cup returned) :
    /\ \A p, q \in Players : uid[p] = u /\ uid[q] = u => p = q
    /\ (\A p \in Players : uid[p] # u) => given[u] = {}
    /\ \A p \in Players : uid[p] = u => given[u] \subseteq Ids(Backpack[p])
    /\ given[u] \subseteq SavedIds(u)

\* How far a handler has come with the bag.
DrawnCardsAreKept ==
  \A h \in Players : Busy(h) =>
    /\ draw[h].at = "save" => draw[h].fields # <<>>
    /\ UserOf(h) \notin overlapped \cup returned =>
         /\ draw[h].at = "append" => draw[h].bag = Backpack[Target(h)]
         /\ draw[h].at \in {"fields", "save"} => Held(h) \subseteq Ids(Backpack[Target(h)])
         /\ draw[h].at = "save" => Held(h) \cup given[UserOf(h)] \subseteq Ids(draw[h].fields.bag)

DrawInv ==
  /\ TypeOK /\ TargetsLoggedIn
  /\ CardIdsUnique /\ IdsAreIssued
  /\ CountersAreUpToDate
  /\ BagsAreWhole /\ DrawnCardsAreKept

=============================================================================
