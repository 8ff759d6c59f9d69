---------------------------- MODULE CardDraw_proofs ----------------------------
(* For any number of Players, users and handlers at once, and any command   *)
(* that fails: card ids are unique, the guarantee comes in time, and what a *)
(* user was shown is saved, as far as the code goes.                        *)
EXTENDS CardDraw, SequenceTheorems, TLAPS

(* The cards of two bags, and of a bag with one more. *)
LEMMA IdsOfConcat ==
  ASSUME NEW S, NEW s \in Seq(S), NEW t \in Seq(S)
  PROVE  Ids(s \o t) = Ids(s) \cup Ids(t)
<1>1. Len(s) \in Nat /\ Len(t) \in Nat /\ DOMAIN s = 1..Len(s) /\ DOMAIN t = 1..Len(t)
  OBVIOUS
<1>2. /\ s \o t \in Seq(S) /\ Len(s \o t) = Len(s) + Len(t)
      /\ \A i \in 1..(Len(s) + Len(t)) :
           (s \o t)[i] = IF i <= Len(s) THEN s[i] ELSE t[i - Len(s)]
  BY ConcatProperties
<1>3. DOMAIN (s \o t) = 1..(Len(s) + Len(t))
  BY <1>2
<1>4. ASSUME NEW i \in 1..(Len(s) + Len(t))
      PROVE  (s \o t)[i] \in Ids(s) \cup Ids(t)
  <2>1. CASE i <= Len(s)
    BY <1>1, <1>2, <2>1 DEF Ids
  <2>2. CASE i > Len(s)
    <3>1. i - Len(s) \in 1..Len(t)
      BY <1>1, <2>2
    <3> QED
      BY <1>1, <1>2, <2>2, <3>1 DEF Ids
  <2> QED
    BY <1>1, <2>1, <2>2
<1>5. ASSUME NEW i \in 1..Len(s)
      PROVE  s[i] \in Ids(s \o t)
  <2>1. i \in 1..(Len(s) + Len(t)) /\ (s \o t)[i] = s[i]
    BY <1>1, <1>2
  <2> QED
    BY <1>3, <2>1 DEF Ids
<1>6. ASSUME NEW i \in 1..Len(t)
      PROVE  t[i] \in Ids(s \o t)
  <2>1. i + Len(s) \in 1..(Len(s) + Len(t)) /\ (i + Len(s)) - Len(s) = i
        /\ ~(i + Len(s) <= Len(s))
    BY <1>1
  <2>2. (s \o t)[i + Len(s)] = t[i]
    BY <1>2, <2>1
  <2> QED
    BY <1>3, <2>1, <2>2 DEF Ids
<1>7. Ids(s \o t) \subseteq Ids(s) \cup Ids(t)
  BY <1>3, <1>4 DEF Ids
<1>8. Ids(s) \subseteq Ids(s \o t) /\ Ids(t) \subseteq Ids(s \o t)
  <2> DEFINE u == Ids(s \o t)
  <2> HIDE DEF u
  <2>1. \A i \in 1..Len(s) : s[i] \in u
    BY <1>5 DEF u
  <2>2. \A i \in 1..Len(t) : t[i] \in u
    BY <1>6 DEF u
  <2>3. Ids(s) \subseteq u /\ Ids(t) \subseteq u
    BY <1>1, <2>1, <2>2 DEF Ids
  <2> QED
    BY <2>3 DEF u
<1> QED
  BY <1>7, <1>8

LEMMA IdsOfAppend ==
  ASSUME NEW S, NEW s \in Seq(S), NEW e \in S
  PROVE  /\ Append(s, e) \in Seq(S)
         /\ DOMAIN Append(s, e) = 1..(Len(s) + 1)
         /\ \A i \in DOMAIN s : i \in 1..Len(s) /\ Append(s, e)[i] = s[i]
         /\ Append(s, e)[Len(s) + 1] = e
         /\ Ids(Append(s, e)) = Ids(s) \cup {e}
<1>1. /\ Len(s) \in Nat /\ DOMAIN s = 1..Len(s)
      /\ Append(s, e) \in Seq(S) /\ DOMAIN Append(s, e) = 1..(Len(s) + 1)
      /\ \A i \in 1..Len(s) : Append(s, e)[i] = s[i]
      /\ Append(s, e)[Len(s) + 1] = e
  OBVIOUS
<1>2. 1..(Len(s) + 1) = (1..Len(s)) \cup {Len(s) + 1}
  BY <1>1
<1>3. Ids(Append(s, e)) = Ids(s) \cup {e}
  <2> DEFINE t == Append(s, e)
  <2>1. /\ DOMAIN s = 1..Len(s)
        /\ DOMAIN t = (1..Len(s)) \cup {Len(s) + 1}
        /\ \A i \in 1..Len(s) : t[i] = s[i]
        /\ t[Len(s) + 1] = e
    BY <1>1, <1>2
  <2> HIDE DEF t
  <2>2. Ids(t) = Ids(s) \cup {e}
    BY <2>1 DEF Ids
  <2> QED
    BY <2>2 DEF t
<1> QED
  BY <1>1, <1>3

(* The fields of a handler that is drawing. *)
LEMMA DrawingFields ==
  ASSUME NEW d \in Drawing
  PROVE  /\ d.at \in {"rarity", "init", "next", "count", "bag", "append", "fields", "save"}
         /\ d.at # "idle"
         /\ d.target \in Players /\ d.left \in 0..MaxBatch
         /\ d.ssr \in BOOLEAN /\ d.forced \in BOOLEAN /\ d.count \in Nat
         /\ d.cards \in Seq(CardIds) /\ d.bag \in Seq(CardIds)
         /\ d.fields \in {<<>>} \cup Saved
BY DEF Drawing

LEMMA IdleFields == Idle.at = "idle" /\ Idle \notin Drawing
<1>1. Idle.at = "idle"
  BY DEF Idle
<1> QED
  BY <1>1, DrawingFields

LEMMA BusyIsDrawing ==
  ASSUME TypeOK, NEW h \in Players, draw[h].at # "idle"
  PROVE  draw[h] \in Drawing
<1>1. draw[h] \in {Idle} \cup Drawing
  BY DEF TypeOK
<1> QED
  BY <1>1, IdleFields

LEMMA CardIdTypes ==
  /\ FirstCardId \in Nat /\ FirstCardId > 0 /\ MaxCards \in Nat
  /\ CardIds \subseteq Nat /\ 0 \in CardIds
  /\ Missing \notin CardIds
  /\ Guarantee \in Nat /\ MaxBatch \in Nat /\ MaxDraws \in Nat /\ MaxMishaps \in Nat
  /\ Nil \notin Players /\ Nil \notin Uids
<1>1. FirstCardId \in Nat /\ FirstCardId > 0
  BY DEF FirstCardId
<1>2. MaxCards \in Nat
  BY DrawConstants
<1>3. CardIds \subseteq Nat /\ 0 \in CardIds
  <2> HIDE DEF FirstCardId
  <2> QED
    BY <1>1, <1>2 DEF CardIds
<1> QED
  BY <1>1, <1>2, <1>3, DrawConstants

-----------------------------------------------------------------------------
(* What each step does to the handler that takes it, field by field. *)

Others(h) == \A g \in Players \ {h} : draw'[g] = draw[g]

(* Handler h goes on to `at', for the same Player. *)
Goes(h, at) ==
  /\ Others(h)
  /\ draw[h] \in Drawing /\ draw'[h] \in Drawing
  /\ draw'[h].at = at
  /\ draw'[h].target = draw[h].target

KeepsCards(h) == draw'[h].cards = draw[h].cards

LEMMA Moved ==
  ASSUME TypeOK, NEW h \in Players, draw[h] \in Drawing, NEW d \in Drawing,
         draw' = [draw EXCEPT ![h] = d], d.target = draw[h].target
  PROVE  /\ Goes(h, d.at) /\ draw'[h] = d
         /\ draw' \in [Players -> {Idle} \cup Drawing]
<1>1. draw \in [Players -> {Idle} \cup Drawing]
  BY DEF TypeOK
<1>2. draw'[h] = d /\ Others(h) /\ draw' \in [Players -> {Idle} \cup Drawing]
  BY <1>1 DEF Others
<1> QED
  BY <1>2 DEF Goes

LEMMA SelectEffect ==
  ASSUME TypeOK, NEW h \in Players, SelectRarityWithContext(h)
  PROVE  TypeOK' /\ Goes(h, "init") /\ KeepsCards(h) /\ ~draw'[h].forced
<1>1. PICK x \in Drawing : x = draw[h]
  BY BusyIsDrawing DEF SelectRarityWithContext
<1>2. PICK ssr \in BOOLEAN :
        draw' = [draw EXCEPT ![h].at = "init", ![h].ssr = ssr, ![h].forced = FALSE]
  BY DEF SelectRarityWithContext
<1>3. PICK d : d = [x EXCEPT !.at = "init", !.ssr = ssr, !.forced = FALSE]
  OBVIOUS
<1>4. /\ d \in Drawing /\ d.at = "init" /\ ~d.forced
      /\ d.target = x.target /\ d.cards = x.cards
  BY <1>3 DEF Drawing
<1>5. draw' = [draw EXCEPT ![h] = d]
  BY <1>1, <1>2, <1>3 DEF TypeOK
<1>6. /\ Goes(h, "init") /\ draw'[h] = d
      /\ draw' \in [Players -> {Idle} \cup Drawing]
  <2>1. draw[h] \in Drawing /\ d.target = draw[h].target
    BY <1>1, <1>4
  <2>2. /\ Goes(h, d.at) /\ draw'[h] = d
        /\ draw' \in [Players -> {Idle} \cup Drawing]
    BY <1>4, <1>5, <2>1, Moved
  <2> QED
    BY <1>4, <2>2
<1>7. TypeOK'
  BY <1>6 DEF SelectRarityWithContext, redisVars, playerVars, counters, history, TypeOK
<1> QED
  BY <1>1, <1>4, <1>6, <1>7 DEF KeepsCards

(* A card has its id: it is built again as an SSR, or it is counted. *)
Built(h, id) ==
  \/ Goes(h, "init") /\ KeepsCards(h) /\ draw'[h].ssr /\ draw'[h].forced
  \/ /\ Goes(h, "count")
     /\ draw'[h].cards = Append(draw[h].cards, id)
     /\ draw'[h].count = DrawCardCount[Target(h)]
     /\ draw'[h].ssr = draw[h].ssr
     /\ draw[h].forced \/ draw'[h].count < Guarantee

LEMMA BuiltEffect ==
  ASSUME TypeOK, NEW h \in Players, draw[h] \in Drawing, NEW id \in CardIds,
         CardBuilt(h, id)
  PROVE  Built(h, id) /\ draw' \in [Players -> {Idle} \cup Drawing]
<1>1. PICK x \in Drawing : x = draw[h]
  OBVIOUS
<1>2. PICK count \in Nat : count = DrawCardCount[Target(h)]
  <2>1. x.target \in Players
    BY DrawingFields
  <2>2. DrawCardCount[x.target] \in Nat
    BY <2>1 DEF TypeOK
  <2> QED
    BY <1>1, <2>2 DEF Target
<1>3. CASE ~x.forced /\ count >= Guarantee
  <2>1. draw' = [draw EXCEPT ![h].at = "init", ![h].ssr = TRUE, ![h].forced = TRUE]
    BY <1>1, <1>2, <1>3 DEF CardBuilt
  <2>2. PICK d : d = [x EXCEPT !.at = "init", !.ssr = TRUE, !.forced = TRUE]
    OBVIOUS
  <2>3. /\ d \in Drawing /\ d.at = "init" /\ d.ssr /\ d.forced
        /\ d.target = x.target /\ d.cards = x.cards
    BY <2>2 DEF Drawing
  <2>4. draw' = [draw EXCEPT ![h] = d]
    BY <1>1, <2>1, <2>2 DEF TypeOK
  <2>5. /\ Goes(h, "init") /\ draw'[h] = d
        /\ draw' \in [Players -> {Idle} \cup Drawing]
    BY <1>1, <2>3, <2>4, Moved
  <2> QED
    BY <1>1, <2>3, <2>5 DEF Built, KeepsCards
<1>4. CASE ~(~x.forced /\ count >= Guarantee)
  <2>1. draw' = [draw EXCEPT ![h].at = "count", ![h].count = count,
                             ![h].cards = Append(draw[h].cards, id)]
    BY <1>1, <1>2, <1>4 DEF CardBuilt
  <2>2. PICK cards \in Seq(CardIds) : cards = Append(x.cards, id)
    <3>1. x.cards \in Seq(CardIds)
      BY DrawingFields
    <3> QED
      BY <3>1, IdsOfAppend
  <2>3. PICK d : d = [x EXCEPT !.at = "count", !.count = count, !.cards = cards]
    OBVIOUS
  <2>4. /\ d \in Drawing /\ d.at = "count" /\ d.count = count /\ d.cards = cards
        /\ d.target = x.target /\ d.ssr = x.ssr
    BY <2>3 DEF Drawing
  <2>5. draw' = [draw EXCEPT ![h] = d]
    BY <1>1, <2>1, <2>2, <2>3 DEF TypeOK
  <2>6. /\ Goes(h, "count") /\ draw'[h] = d
        /\ draw' \in [Players -> {Idle} \cup Drawing]
    BY <1>1, <2>4, <2>5, Moved
  <2>7. x.forced \/ count < Guarantee
    BY <1>4, CardIdTypes
  <2> QED
    BY <1>1, <1>2, <2>2, <2>4, <2>6, <2>7 DEF Built
<1> QED
  BY <1>3, <1>4

LEMMA SpendTyped ==
  ASSUME TypeOK, NEW answer, Spend(answer)
  PROVE  mishaps' \in 0..MaxMishaps
BY CardIdTypes DEF TypeOK, Spend

(* What comes of a command is its answer, or an error after it was or was  *)
(* not run.                                                                *)
LEMMA OutcomeCases ==
  ASSUME NEW space, NEW done, NEW r \in Outcomes(space, done)
  PROVE  r = done \/ (r.answer = Failed /\ r.space \in {space, done.space})
BY DEF Outcomes, Reply

(* SETNX: from now on there is a counter. *)
LEMMA InitEffect ==
  ASSUME TypeOK, NEW h \in Players, InitCardID(h)
  PROVE  /\ TypeOK'
         /\ card_inst_id' = card_inst_id
            \/ (card_inst_id = Missing /\ card_inst_id' = FirstCardId)
         /\ \/ Built(h, 0)
            \/ /\ Goes(h, "next") /\ KeepsCards(h) /\ card_inst_id' # Missing
               /\ draw'[h].ssr = draw[h].ssr /\ draw'[h].forced = draw[h].forced
<1>1. PICK x \in Drawing : x = draw[h] /\ x.at = "init"
  BY BusyIsDrawing DEF InitCardID
<1>2. PICK r \in Outcomes(card_inst_id, SetNX(card_inst_id, FirstCardId)) :
        /\ card_inst_id' = r.space
        /\ IF r.answer = Failed THEN CardBuilt(h, 0)
           ELSE draw' = [draw EXCEPT ![h].at = "next"]
        /\ Spend(r.answer)
  BY DEF InitCardID
<1>3. PICK done : done = SetNX(card_inst_id, FirstCardId)
  OBVIOUS
<1>4. IF card_inst_id = Missing THEN done.space = FirstCardId
      ELSE done.space = card_inst_id
  BY <1>3 DEF SetNX, Reply
<1>5. r = done \/ (r.answer = Failed /\ r.space \in {card_inst_id, done.space})
  BY <1>3, OutcomeCases
<1>6. /\ card_inst_id' = card_inst_id
         \/ (card_inst_id = Missing /\ card_inst_id' = FirstCardId)
      /\ r.answer # Failed => card_inst_id' # Missing
  <2> HIDE DEF FirstCardId
  <2>1. Missing # FirstCardId
    BY CardIdTypes, DrawConstants
  <2> QED
    BY <1>2, <1>4, <1>5, <2>1
<1>7. mishaps' \in 0..MaxMishaps
  BY <1>2, SpendTyped
<1>8. card_inst_id' \in {Missing} \cup (FirstCardId .. FirstCardId + MaxCards)
  <2> HIDE DEF FirstCardId
  <2> QED
    BY <1>6, CardIdTypes DEF TypeOK
<1>9. CASE r.answer = Failed
  <2>1. Built(h, 0) /\ draw' \in [Players -> {Idle} \cup Drawing]
    BY <1>1, <1>2, <1>9, BuiltEffect, CardIdTypes
  <2>2. TypeOK'
    BY <1>7, <1>8, <2>1 DEF InitCardID, playerVars, history, TypeOK
  <2> QED
    BY <1>6, <2>1, <2>2
<1>10. CASE r.answer # Failed
  <2>1. PICK d : d = [x EXCEPT !.at = "next"]
    OBVIOUS
  <2>2. /\ d \in Drawing /\ d.at = "next" /\ d.target = x.target /\ d.cards = x.cards
        /\ d.ssr = x.ssr /\ d.forced = x.forced
    BY <2>1 DEF Drawing
  <2>3. draw' = [draw EXCEPT ![h] = d]
    BY <1>1, <1>2, <1>10, <2>1 DEF TypeOK
  <2>4. /\ Goes(h, "next") /\ draw'[h] = d
        /\ draw' \in [Players -> {Idle} \cup Drawing]
    <3>1. draw[h] \in Drawing /\ d.target = draw[h].target
      BY <1>1, <2>2
    <3>2. /\ Goes(h, d.at) /\ draw'[h] = d
          /\ draw' \in [Players -> {Idle} \cup Drawing]
      BY <2>2, <2>3, <3>1, Moved
    <3> QED
      BY <2>2, <3>2
  <2>5. TypeOK'
    BY <1>7, <1>8, <2>4 DEF InitCardID, playerVars, history, TypeOK
  <2> QED
    BY <1>1, <1>6, <1>10, <2>2, <2>4, <2>5 DEF KeepsCards
<1> QED
  BY <1>9, <1>10

(* INCR: the card's id is the new count, or 0 when the command failed. *)
LEMMA IncrEffect ==
  ASSUME TypeOK, NEW h \in Players, IncrCardID(h), card_inst_id # Missing
  PROVE  /\ TypeOK'
         /\ card_inst_id \in Nat /\ card_inst_id' \in {card_inst_id, card_inst_id + 1}
         /\ \/ Built(h, 0)
            \/ card_inst_id' = card_inst_id + 1 /\ Built(h, card_inst_id + 1)
<1>1. draw[h] \in Drawing
  BY BusyIsDrawing DEF IncrCardID
<1>2. PICK r \in Outcomes(card_inst_id, Incr(card_inst_id)) :
        /\ card_inst_id' = r.space
        /\ CardBuilt(h, IF r.answer = Failed THEN 0 ELSE r.answer)
        /\ Spend(r.answer)
  BY DEF IncrCardID
<1>3. PICK done : done = Incr(card_inst_id)
  OBVIOUS
<1>4. done.space = card_inst_id + 1 /\ done.answer = card_inst_id + 1
  BY <1>3 DEF Incr, Count, Reply
<1>5. r = done \/ (r.answer = Failed /\ r.space \in {card_inst_id, done.space})
  BY <1>3, OutcomeCases
<1>6. /\ card_inst_id \in Nat /\ card_inst_id + 1 \in CardIds
      /\ card_inst_id + 1 \in FirstCardId .. FirstCardId + MaxCards
  <2>1. card_inst_id \in FirstCardId .. FirstCardId + MaxCards
    BY DEF TypeOK
  <2>2. card_inst_id < FirstCardId + MaxCards
    BY DEF IncrCardID
  <2> HIDE DEF FirstCardId
  <2> QED
    BY <2>1, <2>2, CardIdTypes DEF CardIds
<1>7. card_inst_id' \in {card_inst_id, card_inst_id + 1}
  BY <1>2, <1>4, <1>5
<1>8. mishaps' \in 0..MaxMishaps
  BY <1>2, SpendTyped
<1>9. card_inst_id' \in {Missing} \cup (FirstCardId .. FirstCardId + MaxCards)
  BY <1>6, <1>7 DEF TypeOK
<1>10. /\ draw' \in [Players -> {Idle} \cup Drawing]
       /\ \/ Built(h, 0)
          \/ card_inst_id' = card_inst_id + 1 /\ Built(h, card_inst_id + 1)
  <2>1. CASE r.answer = Failed
    <3>1. CardBuilt(h, 0)
      BY <1>2, <2>1
    <3> QED
      BY <1>1, <3>1, BuiltEffect, CardIdTypes
  <2>2. CASE r.answer # Failed
    <3>1. CardBuilt(h, card_inst_id + 1) /\ card_inst_id' = card_inst_id + 1
      BY <1>2, <1>4, <1>5, <2>2
    <3> QED
      BY <1>1, <1>6, <3>1, BuiltEffect
  <2> QED
    BY <2>1, <2>2
<1>11. TypeOK'
  BY <1>8, <1>9, <1>10 DEF IncrCardID, playerVars, history, TypeOK
<1> QED
  BY <1>6, <1>7, <1>10, <1>11

(* Going on to the next card, or to the bag. *)
LEMMA NextCardEffect ==
  ASSUME NEW x \in Drawing, NEW d, d = NextCard(x)
  PROVE  /\ d \in Drawing /\ d.at \in {"rarity", "bag"}
         /\ d.target = x.target /\ d.cards = x.cards
<1>1. x.left \in 0..MaxBatch
  BY DrawingFields
<1>2. CASE x.left = 0
  <2>1. d = [x EXCEPT !.at = "bag"]
    BY <1>2 DEF NextCard
  <2> QED
    BY <2>1 DEF Drawing
<1>3. CASE x.left # 0
  <2>1. PICK left \in 0..MaxBatch : left = x.left - 1
    BY <1>1, <1>3, CardIdTypes
  <2>2. d = [x EXCEPT !.at = "rarity", !.left = left]
    BY <1>3, <2>1 DEF NextCard
  <2> QED
    BY <2>2 DEF Drawing
<1> QED
  BY <1>2, <1>3

LEMMA CountEffect ==
  ASSUME TypeOK, NEW h \in Players, AfterGenerate(h)
  PROVE  /\ TypeOK'
         /\ \E at \in {"rarity", "bag"} : Goes(h, at) /\ KeepsCards(h)
         /\ DrawCardCount'[Target(h)] = draw[h].count + 1
         /\ dry'[Target(h)] = IF draw[h].ssr THEN 0 ELSE dry[Target(h)] + 1
         /\ \A p \in Players \ {Target(h)} :
              DrawCardCount'[p] = DrawCardCount[p] /\ dry'[p] = dry[p]
<1>1. PICK x \in Drawing : x = draw[h]
  BY BusyIsDrawing DEF AfterGenerate
<1>2. PICK p \in Players : p = x.target
  BY DrawingFields
<1>3. Target(h) = p
  BY <1>1, <1>2 DEF Target
<1>4. PICK count \in Nat : count = x.count + 1
  <2>1. x.count \in Nat
    BY DrawingFields
  <2> QED
    BY <2>1
<1>5. PICK n \in Nat : n = IF x.ssr THEN 0 ELSE dry[p] + 1
  <2>1. dry[p] \in Nat
    BY DEF TypeOK
  <2> QED
    BY <2>1
<1>6. DrawCardCount' = [DrawCardCount EXCEPT ![p] = count] /\ dry' = [dry EXCEPT ![p] = n]
  BY <1>1, <1>3, <1>4, <1>5 DEF AfterGenerate
<1>7. DrawCardCount' \in [Players -> Nat] /\ dry' \in [Players -> Nat]
      /\ DrawCardCount'[p] = count /\ dry'[p] = n
      /\ \A q \in Players \ {p} : DrawCardCount'[q] = DrawCardCount[q] /\ dry'[q] = dry[q]
  BY <1>6 DEF TypeOK
<1>8. PICK d : d = NextCard(x)
  OBVIOUS
<1>9. /\ d \in Drawing /\ d.at \in {"rarity", "bag"}
      /\ d.target = x.target /\ d.cards = x.cards
  BY <1>8, NextCardEffect
<1>10. draw' = [draw EXCEPT ![h] = d]
  BY <1>1, <1>8 DEF AfterGenerate
<1>11. /\ Goes(h, d.at) /\ draw'[h] = d
       /\ draw' \in [Players -> {Idle} \cup Drawing]
  BY <1>1, <1>9, <1>10, Moved
<1>12. TypeOK'
  BY <1>7, <1>11 DEF AfterGenerate, redisVars, counters, TypeOK
<1> QED
  BY <1>1, <1>3, <1>4, <1>5, <1>7, <1>9, <1>11, <1>12 DEF KeepsCards

LEMMA ReadEffect ==
  ASSUME TypeOK, NEW h \in Players, ReadBackpack(h)
  PROVE  /\ TypeOK' /\ Goes(h, "append") /\ KeepsCards(h)
         /\ draw'[h].bag = Backpack[Target(h)]
<1>1. PICK x \in Drawing : x = draw[h]
  BY BusyIsDrawing DEF ReadBackpack
<1>2. PICK bag \in Seq(CardIds) : bag = Backpack[Target(h)]
  <2>1. x.target \in Players
    BY DrawingFields
  <2>2. Backpack[x.target] \in Seq(CardIds)
    BY <2>1 DEF TypeOK
  <2> QED
    BY <1>1, <2>2 DEF Target
<1>3. draw' = [draw EXCEPT ![h].at = "append", ![h].bag = bag]
  BY <1>2 DEF ReadBackpack
<1>4. PICK d : d = [x EXCEPT !.at = "append", !.bag = bag]
  OBVIOUS
<1>5. /\ d \in Drawing /\ d.at = "append" /\ d.bag = bag
      /\ d.target = x.target /\ d.cards = x.cards
  BY <1>4 DEF Drawing
<1>6. draw' = [draw EXCEPT ![h] = d]
  BY <1>1, <1>3, <1>4 DEF TypeOK
<1>7. /\ Goes(h, "append") /\ draw'[h] = d
      /\ draw' \in [Players -> {Idle} \cup Drawing]
  BY <1>1, <1>5, <1>6, Moved
<1>8. TypeOK'
  BY <1>7 DEF ReadBackpack, redisVars, playerVars, counters, history, TypeOK
<1> QED
  BY <1>1, <1>2, <1>5, <1>7, <1>8 DEF KeepsCards

(* append gives a bag, and the bag with the new cards when nobody else has *)
(* appended since the old one was read.                                    *)
LEMMA AppendedBag ==
  ASSUME NEW old \in Seq(CardIds), NEW mine \in Seq(CardIds), NEW now \in Seq(CardIds),
         NEW b \in Appended(old, mine, now)
  PROVE  b \in Seq(CardIds) /\ (now = old => b = old \o mine)
<1> DEFINE bag == old \o mine
           shared == {i \in DOMAIN bag \cap DOMAIN now : bag[i] # now[i]}
<1>1. bag \in Seq(CardIds)
  OBVIOUS
<1>2. now = old => shared = {}
  <2> SUFFICES ASSUME now = old, NEW i \in DOMAIN bag \cap DOMAIN old
               PROVE  bag[i] = old[i]
    BY Zenon
  <2>1. i \in 1..Len(old) /\ Len(old) \in Nat
    OBVIOUS
  <2>2. i \in 1..(Len(old) + Len(mine)) /\ i <= Len(old)
    BY <2>1
  <2> QED
    BY <2>2, ConcatProperties
<1>3. PICK theirs \in SUBSET shared :
        b = [i \in DOMAIN bag |-> IF i \in theirs THEN now[i] ELSE bag[i]]
  BY DEF Appended
<1> HIDE DEF bag
<1>4. ASSUME NEW i \in DOMAIN bag
      PROVE  (IF i \in theirs THEN now[i] ELSE bag[i]) \in CardIds
  <2>1. i \in theirs => i \in DOMAIN now
    OBVIOUS
  <2>2. bag[i] \in CardIds
    BY <1>1
  <2>3. i \in theirs => now[i] \in CardIds
    BY <2>1
  <2> QED
    BY <2>2, <2>3
<1>5. b \in [1..Len(bag) -> CardIds] /\ Len(bag) \in Nat
  <2>1. DOMAIN bag = 1..Len(bag) /\ Len(bag) \in Nat
    BY <1>1
  <2>2. b \in [DOMAIN bag -> CardIds]
    BY <1>3, <1>4, Zenon
  <2> QED
    BY <2>1, <2>2
<1>6. b \in Seq(CardIds)
  BY <1>5
<1>7. ASSUME shared = {}
      PROVE  b = bag
  <2>1. b = [i \in DOMAIN bag |-> bag[i]]
    BY <1>3, <1>7
  <2> QED
    BY <1>1, <2>1
<1> QED
  BY <1>2, <1>6, <1>7 DEF bag

LEMMA WriteEffect ==
  ASSUME TypeOK, NEW h \in Players, WriteBackpack(h)
  PROVE  /\ TypeOK' /\ Goes(h, "fields") /\ KeepsCards(h)
         /\ \A p \in Players \ {Target(h)} : Backpack'[p] = Backpack[p]
         /\ draw[h].bag = Backpack[Target(h)] =>
              Backpack'[Target(h)] = Backpack[Target(h)] \o draw[h].cards
<1>1. PICK x \in Drawing : x = draw[h]
  BY BusyIsDrawing DEF WriteBackpack
<1>2. PICK p \in Players : p = x.target /\ p = Target(h)
  BY <1>1, DrawingFields DEF Target
<1>3. Backpack[p] \in Seq(CardIds) /\ x.bag \in Seq(CardIds) /\ x.cards \in Seq(CardIds)
  BY DrawingFields DEF TypeOK
<1>4. PICK b \in Appended(x.bag, x.cards, Backpack[p]) :
        Backpack' = [Backpack EXCEPT ![p] = b]
  BY <1>1, <1>2 DEF WriteBackpack
<1>5. b \in Seq(CardIds) /\ (Backpack[p] = x.bag => b = x.bag \o x.cards)
  BY <1>3, AppendedBag
<1>6. /\ Backpack' \in [Players -> Seq(CardIds)] /\ Backpack'[p] = b
      /\ \A q \in Players \ {p} : Backpack'[q] = Backpack[q]
  BY <1>4, <1>5 DEF TypeOK
<1>7. PICK d : d = [x EXCEPT !.at = "fields"]
  OBVIOUS
<1>8. d \in Drawing /\ d.at = "fields" /\ d.target = x.target /\ d.cards = x.cards
  BY <1>7 DEF Drawing
<1>9. draw' = [draw EXCEPT ![h] = d]
  BY <1>1, <1>7 DEF WriteBackpack, TypeOK
<1>10. /\ Goes(h, "fields") /\ draw'[h] = d
       /\ draw' \in [Players -> {Idle} \cup Drawing]
  BY <1>1, <1>8, <1>9, Moved
<1>11. TypeOK'
  BY <1>6, <1>10 DEF WriteBackpack, redisVars, counters, history, TypeOK
<1> QED
  BY <1>1, <1>2, <1>5, <1>6, <1>8, <1>10, <1>11 DEF KeepsCards

LEMMA FieldsEffect ==
  ASSUME TypeOK, NEW h \in Players, DrawCardFields(h)
  PROVE  /\ TypeOK' /\ Goes(h, "save") /\ KeepsCards(h)
         /\ draw'[h].fields \in Saved /\ draw'[h].fields.bag = Backpack[Target(h)]
<1>1. PICK x \in Drawing : x = draw[h]
  BY BusyIsDrawing DEF DrawCardFields
<1>2. PICK p \in Players : p = x.target /\ p = Target(h)
  BY <1>1, DrawingFields DEF Target
<1>3. PICK bag \in Seq(CardIds), n \in Nat :
        bag = Backpack[p] /\ n = DrawCardCount[p] + Len(x.cards)
  <2>1. Backpack[p] \in Seq(CardIds) /\ DrawCardCount[p] \in Nat
    BY DEF TypeOK
  <2>2. x.cards \in Seq(CardIds)
    BY DrawingFields
  <2>3. DrawCardCount[p] + Len(x.cards) \in Nat
    BY <2>1, <2>2
  <2> QED
    BY <2>1, <2>3
<1>4. PICK fields : fields = [draw_card_count |-> n, bag |-> bag]
  OBVIOUS
<1>5. fields \in Saved /\ fields.bag = bag
  BY <1>4 DEF Saved
<1>6. draw' = [draw EXCEPT ![h].at = "save", ![h].fields = fields]
  BY <1>1, <1>2, <1>3, <1>4 DEF DrawCardFields
<1>7. PICK d : d = [x EXCEPT !.at = "save", !.fields = fields]
  OBVIOUS
<1>8. /\ d \in Drawing /\ d.at = "save" /\ d.fields = fields
      /\ d.target = x.target /\ d.cards = x.cards
  BY <1>5, <1>7 DEF Drawing
<1>9. draw' = [draw EXCEPT ![h] = d]
  BY <1>1, <1>6, <1>7 DEF TypeOK
<1>10. /\ Goes(h, "save") /\ draw'[h] = d
       /\ draw' \in [Players -> {Idle} \cup Drawing]
  BY <1>1, <1>8, <1>9, Moved
<1>11. TypeOK'
  BY <1>10 DEF DrawCardFields, redisVars, playerVars, counters, history, TypeOK
<1> QED
  BY <1>1, <1>2, <1>3, <1>5, <1>8, <1>10, <1>11 DEF KeepsCards

(* Both fields are written at once, so the saved user is what was written. *)
LEMMA OverlayOfSaved ==
  ASSUME NEW hash \in {<<>>} \cup Saved, NEW fields \in Saved
  PROVE  Overlay(hash, fields) = fields
<1>1. PICK n \in Nat, bag \in Seq(CardIds) : fields = [draw_card_count |-> n, bag |-> bag]
  BY DEF Saved
<1>2. DOMAIN fields = {"draw_card_count", "bag"}
  BY <1>1
<1>3. DOMAIN hash \subseteq DOMAIN fields
  <2>1. CASE hash = <<>>
    BY <2>1
  <2>2. CASE hash \in Saved
    BY <1>2, <2>2 DEF Saved
  <2> QED
    BY <2>1, <2>2
<1>4. fields = [f \in DOMAIN fields |-> fields[f]]
  BY <1>1, <1>2
<1>5. Overlay(hash, fields) = [f \in DOMAIN fields |-> fields[f]]
  <2>1. DOMAIN hash \cup DOMAIN fields = DOMAIN fields
    BY <1>3
  <2> QED
    BY <2>1, Zenon DEF Overlay
<1> QED
  BY <1>4, <1>5

LEMMA SaveEffect ==
  ASSUME TypeOK, NEW h \in Players, SaveDrawCardResults(h),
         draw[h].fields # <<>>, NEW u \in Uids, u = UserOf(h)
  PROVE  /\ TypeOK' /\ Others(h) /\ draw'[h] = Idle
         /\ draw[h] \in Drawing /\ draw[h].at = "save"
         /\ given'[u] = given[u] \cup Held(h)
         /\ \A v \in Uids \ {u} : given'[v] = given[v] /\ users'[v] = users[v]
         /\ \A v \in Uids \ {u} : v \in overlapped' <=> v \in overlapped
         /\ u \in overlapped => u \in overlapped'
         /\ u \notin overlapped' => users'[u] = draw[h].fields
<1>1. PICK x \in Drawing : x = draw[h] /\ x.at = "save"
  BY BusyIsDrawing DEF SaveDrawCardResults
<1>2. x.fields \in Saved /\ x.cards \in Seq(CardIds)
  BY <1>1, DrawingFields
<1>3. PICK r \in Outcomes(users, HMSet(users, u, x.fields)) :
        /\ users' = r.space
        /\ overlapped' = IF r.answer = Failed THEN overlapped \cup {u} ELSE overlapped
        /\ Spend(r.answer)
  BY <1>1 DEF SaveDrawCardResults
<1>4. PICK done : done = HMSet(users, u, x.fields)
  OBVIOUS
<1>5. users[u] \in {<<>>} \cup Saved /\ users \in [Uids -> {<<>>} \cup Saved]
  BY DEF TypeOK
<1>6. done.space = [users EXCEPT ![u] = x.fields]
  <2>1. Overlay(users[u], x.fields) = x.fields
    BY <1>2, <1>5, OverlayOfSaved
  <2> QED
    BY <1>4, <2>1 DEF HMSet, Reply
<1>7. r = done \/ (r.answer = Failed /\ r.space \in {users, done.space})
  BY <1>4, OutcomeCases
<1>8. users' \in {users, [users EXCEPT ![u] = x.fields]}
  BY <1>3, <1>6, <1>7
<1>9. users' \in [Uids -> {<<>>} \cup Saved] /\ \A v \in Uids \ {u} : users'[v] = users[v]
  BY <1>2, <1>5, <1>8
<1>10. u \notin overlapped' => users'[u] = x.fields
  <2>1. CASE r.answer = Failed
    BY <1>3, <2>1
  <2>2. CASE r.answer # Failed
    BY <1>3, <1>5, <1>6, <1>7, <2>2
  <2> QED
    BY <2>1, <2>2
<1>11. /\ overlapped' \subseteq Uids
       /\ \A v \in Uids \ {u} : v \in overlapped' <=> v \in overlapped
       /\ u \in overlapped => u \in overlapped'
  BY <1>3 DEF TypeOK
<1>12. mishaps' \in 0..MaxMishaps
  BY <1>3, SpendTyped
<1>13. Held(h) \subseteq CardIds
  BY <1>1, <1>2 DEF Held, Ids
<1>14. /\ given' \in [Uids -> SUBSET CardIds] /\ given'[u] = given[u] \cup Held(h)
       /\ \A v \in Uids \ {u} : given'[v] = given[v]
  <2>1. given' = [given EXCEPT ![u] = given[u] \cup Held(h)]
    BY DEF SaveDrawCardResults
  <2>2. given \in [Uids -> SUBSET CardIds]
    BY DEF TypeOK
  <2> QED
    BY <1>13, <2>1, <2>2
<1>15. /\ draw' \in [Players -> {Idle} \cup Drawing] /\ draw'[h] = Idle /\ Others(h)
  <2>1. draw' = [draw EXCEPT ![h] = Idle]
    BY DEF SaveDrawCardResults
  <2>2. draw \in [Players -> {Idle} \cup Drawing]
    BY DEF TypeOK
  <2> QED
    BY <2>1, <2>2 DEF Others
<1>16. TypeOK'
  BY <1>9, <1>11, <1>12, <1>14, <1>15 DEF SaveDrawCardResults, playerVars, TypeOK
<1> QED
  BY <1>1, <1>9, <1>10, <1>11, <1>14, <1>15, <1>16

LEMMA DrawCardsEffect ==
  ASSUME TypeOK, NEW h \in Players, NEW u \in Uids, NEW count \in 0..MaxBatch,
         DrawCards(h, u, count)
  PROVE  /\ TypeOK' /\ Others(h)
         /\ draw[h].at = "idle" /\ uin_player[u] \in Players
         /\ draw'[h] \in Drawing /\ draw'[h].at \in {"rarity", "bag"}
         /\ draw'[h].target = uin_player[u] /\ draw'[h].cards = <<>>
         /\ overlapped \subseteq overlapped'
         /\ \A v \in Uids \ {u} : v \in overlapped' <=> v \in overlapped
         /\ (\E g \in Players : Busy(g) /\ UserOf(g) = u) => u \in overlapped'
<1>1. draw[h].at = "idle" /\ uin_player[u] \in Players
  BY DEF DrawCards, Busy, TypeOK
<1>2. PICK x : x = [at |-> "rarity", target |-> uin_player[u], left |-> count, ssr |-> FALSE,
                    forced |-> FALSE, count |-> 0, cards |-> <<>>, bag |-> <<>>,
                    fields |-> <<>>]
  OBVIOUS
<1>3. x \in Drawing /\ x.target = uin_player[u] /\ x.cards = <<>>
  BY <1>1, <1>2 DEF Drawing
<1>4. PICK d : d = NextCard(x)
  OBVIOUS
<1>5. d \in Drawing /\ d.at \in {"rarity", "bag"} /\ d.target = x.target /\ d.cards = x.cards
  BY <1>3, <1>4, NextCardEffect
<1>6. draw' = [draw EXCEPT ![h] = d]
  BY <1>2, <1>4 DEF DrawCards
<1>7. draw \in [Players -> {Idle} \cup Drawing]
  BY DEF TypeOK
<1>8. draw' \in [Players -> {Idle} \cup Drawing] /\ draw'[h] = d /\ Others(h)
  BY <1>5, <1>6, <1>7 DEF Others
<1>9. overlapped' = IF \E g \in Players : Busy(g) /\ UserOf(g) = u
                    THEN overlapped \cup {u} ELSE overlapped
  BY DEF DrawCards
<1>10. overlapped' \subseteq Uids
  BY <1>9 DEF TypeOK
<1>11. draws' \in 0..MaxDraws
  BY CardIdTypes DEF DrawCards, TypeOK
<1>12. TypeOK'
  BY <1>8, <1>10, <1>11 DEF DrawCards, redisVars, playerVars, TypeOK
<1> QED
  BY <1>1, <1>3, <1>5, <1>8, <1>9, <1>12

LEMMA LoginTyped ==
  ASSUME TypeOK, NEW p \in Players, NEW u \in Uids, Login(p, u)
  PROVE  TypeOK'
<1>1. returned' \subseteq Uids
  BY DEF Login, TypeOK
<1>2. uid' \in [Players -> Uids \cup {Nil}] /\ uin_player' \in [Uids -> Players \cup {Nil}]
  BY DEF Login, TypeOK
<1> QED
  BY <1>1, <1>2 DEF Login, redisVars, counters, TypeOK

LEMMA LogoutTyped ==
  ASSUME TypeOK, NEW p \in Players, Logout(p)
  PROVE  TypeOK'
<1>1. uin_player' \in [Uids -> Players \cup {Nil}]
  BY DEF Logout, TypeOK
<1> QED
  BY <1>1 DEF Logout, redisVars, counters, history, TypeOK

(* HandleGetUserInfoRequest finds no field "uid" and changes nothing. *)
LEMMA InfoEffect ==
  ASSUME TypeOK, NEW h \in Players, HandleGetUserInfoRequest(h)
  PROVE  UNCHANGED drawVars
<1>1. uid[h] \in Uids
  BY DEF HandleGetUserInfoRequest, TypeOK
<1>2. users[uid[h]] \in {<<>>} \cup Saved
  BY <1>1 DEF TypeOK
<1>3. "uid" \notin DOMAIN users[uid[h]]
  <2>1. CASE users[uid[h]] = <<>>
    BY <2>1
  <2>2. CASE users[uid[h]] \in Saved
    BY <2>2 DEF Saved
  <2> QED
    BY <1>2, <2>1, <2>2
<1> QED
  BY <1>3 DEF HandleGetUserInfoRequest, drawVars, redisVars, playerVars, counters, history

-----------------------------------------------------------------------------
(* The parts of the invariant, for a handler that goes on.                  *)

LEMMA GoesBusy ==
  ASSUME NEW h \in Players, NEW at, Goes(h, at), uid' = uid
  PROVE  /\ Busy(h) /\ at # "idle"
         /\ \A g \in Players :
              /\ Busy(g)' <=> Busy(g)
              /\ Target(g)' = Target(g) /\ UserOf(g)' = UserOf(g)
<1>1. draw[h].at # "idle" /\ draw'[h].at # "idle" /\ draw'[h].at = at
  BY DrawingFields DEF Goes
<1>2. ASSUME NEW g \in Players
      PROVE  /\ draw'[g].at = "idle" <=> draw[g].at = "idle"
             /\ draw'[g].target = draw[g].target
  BY <1>1 DEF Goes, Others
<1> QED
  BY <1>1, <1>2 DEF Busy, Target, UserOf

LEMMA TargetsGo ==
  ASSUME TargetsLoggedIn, NEW h \in Players, NEW at, Goes(h, at),
         UNCHANGED <<uin_player, uid, overlapped>>
  PROVE  TargetsLoggedIn'
<1>1. \A g \in Players : /\ Busy(g)' <=> Busy(g)
                         /\ Target(g)' = Target(g) /\ UserOf(g)' = UserOf(g)
  BY GoesBusy
<1>2. \A u \in Uids : uin_player'[u] # Nil => uid'[uin_player'[u]] = u
  BY DEF TargetsLoggedIn
<1>3. \A g \in Players : Busy(g)' => uid'[Target(g)'] # Nil
  BY <1>1 DEF TargetsLoggedIn
<1>4. ASSUME NEW f \in Players, NEW g \in Players,
             Busy(f)', Busy(g)', f # g, UserOf(f)' = UserOf(g)'
      PROVE  UserOf(g)' \in overlapped'
  BY <1>1, <1>4 DEF TargetsLoggedIn
<1> QED
  BY <1>2, <1>3, <1>4 DEF TargetsLoggedIn

(* The ids that are handed out only become more. *)
IssuesMore ==
  /\ Issued \subseteq Issued'
  /\ card_inst_id # Missing => card_inst_id' # Missing

LEMMA HeldOfOthers ==
  ASSUME NEW h \in Players, Others(h), NEW g \in Players \ {h}
  PROVE  Held(g)' = Held(g)
<1>1. draw'[g].cards = draw[g].cards
  BY DEF Others
<1> QED
  BY <1>1 DEF Held, Ids

LEMMA IdsGo ==
  ASSUME CardIdsUnique, IdsAreIssued, NEW h \in Players, NEW at, Goes(h, at),
         KeepsCards(h), UNCHANGED <<uid, given>>, IssuesMore,
         at = "next" => card_inst_id' # Missing
  PROVE  CardIdsUnique' /\ IdsAreIssued'
<1>1. \A g \in Players : Busy(g)' <=> Busy(g)
  BY GoesBusy
<1>2. \A g \in Players : draw'[g].cards = draw[g].cards
  BY DEF Goes, Others, KeepsCards
<1>3. \A g \in Players : Held(g)' = Held(g)
  BY <1>2 DEF Held, Ids
<1>4. \A g \in Players : Busy(g) =>
        \A i, j \in DOMAIN draw'[g].cards :
          i # j /\ draw'[g].cards[i] # 0 => draw'[g].cards[i] # draw'[g].cards[j]
  BY <1>2 DEF CardIdsUnique
<1>5. CardIdsUnique'
  BY <1>1, <1>3, <1>4 DEF CardIdsUnique
<1>6. \A g \in Players : draw'[g].at = "next" => card_inst_id' # Missing
  BY DEF IdsAreIssued, IssuesMore, Goes, Others
<1>7. IdsAreIssued'
  BY <1>1, <1>3, <1>6 DEF IdsAreIssued, IssuesMore
<1> QED
  BY <1>5, <1>7

(* A card that has got an id nobody had is in one hand only. *)
LEMMA IdsAdd ==
  ASSUME TypeOK, CardIdsUnique, IdsAreIssued, NEW h \in Players, Goes(h, "count"),
         NEW id \in CardIds, draw'[h].cards = Append(draw[h].cards, id),
         UNCHANGED <<uid, given>>, IssuesMore,
         id # 0 => id \notin Issued /\ id \in Issued'
  PROVE  CardIdsUnique' /\ IdsAreIssued'
<1>1. Busy(h) /\ \A g \in Players : Busy(g)' <=> Busy(g)
  BY GoesBusy
<1>2. PICK cards \in Seq(CardIds) : cards = draw[h].cards
  BY DrawingFields DEF Goes
<1>3. PICK more \in Seq(CardIds) : more = draw'[h].cards
  BY DrawingFields DEF Goes
<1>4. /\ DOMAIN more = 1..(Len(cards) + 1)
      /\ \A i \in DOMAIN cards : i \in 1..Len(cards) /\ more[i] = cards[i]
      /\ more[Len(cards) + 1] = id
      /\ Ids(more) = Ids(cards) \cup {id}
  <2>1. more = Append(cards, id)
    BY <1>2, <1>3
  <2> QED
    BY <2>1, IdsOfAppend
<1>5. Held(h) = Ids(cards) \ {0} /\ Held(h)' = (Ids(cards) \cup {id}) \ {0}
  <2>1. Held(h) = Ids(cards) \ {0}
    BY <1>2 DEF Held
  <2>2. Held(h)' = Ids(more) \ {0}
    BY <1>3 DEF Held, Ids
  <2> QED
    BY <1>4, <2>1, <2>2
<1>6. \A g \in Players \ {h} : Held(g)' = Held(g)
  BY HeldOfOthers DEF Goes
<1>7. id # 0 => id \notin Ids(cards)
  BY <1>1, <1>5 DEF IdsAreIssued
<1>8. ASSUME NEW i \in DOMAIN more, NEW j \in DOMAIN more, i # j, more[i] # 0
      PROVE  more[i] # more[j]
  <2>1. Len(cards) \in Nat /\ DOMAIN cards = 1..Len(cards)
    OBVIOUS
  <2>2. CASE i \in 1..Len(cards) /\ j \in 1..Len(cards)
    <3>1. cards[i] # cards[j]
      <4>1. cards[i] # 0
        BY <1>4, <1>8, <2>1, <2>2
      <4> QED
        BY <1>1, <1>2, <1>8, <2>1, <2>2, <4>1 DEF CardIdsUnique
    <3> QED
      BY <1>4, <2>1, <2>2, <3>1
  <2>3. CASE i = Len(cards) + 1 /\ j \in 1..Len(cards)
    <3>1. more[i] = id /\ more[j] \in Ids(cards)
      BY <1>4, <2>1, <2>3 DEF Ids
    <3> QED
      BY <1>7, <1>8, <3>1
  <2>4. CASE i \in 1..Len(cards) /\ j = Len(cards) + 1
    <3>1. more[j] = id /\ more[i] \in Ids(cards)
      BY <1>4, <2>1, <2>4 DEF Ids
    <3> QED
      BY <1>7, <1>8, <3>1
  <2> QED
    BY <1>4, <1>8, <2>1, <2>2, <2>3, <2>4
<1>9. ASSUME NEW f \in Players, Busy(f)
      PROVE  /\ \A i, j \in DOMAIN draw'[f].cards :
                  i # j /\ draw'[f].cards[i] # 0 => draw'[f].cards[i] # draw'[f].cards[j]
             /\ \A g \in Players \ {f} : Busy(g) => Held(f)' \cap Held(g)' = {}
             /\ \A u \in Uids : Held(f)' \cap given'[u] = {}
  <2>1. CASE f = h
    <3>1. \A g \in Players \ {h} : Busy(g) => Held(h)' \cap Held(g) = {}
      BY <1>1, <1>5 DEF CardIdsUnique, IdsAreIssued
    <3>2. \A u \in Uids : Held(h)' \cap given[u] = {}
      BY <1>1, <1>5 DEF CardIdsUnique, IdsAreIssued
    <3> QED
      BY <1>3, <1>6, <1>8, <2>1, <3>1, <3>2
  <2>2. CASE f # h
    <3>1. draw'[f] = draw[f] /\ Held(f)' = Held(f)
      BY <1>6, <2>2 DEF Goes, Others
    <3>2. Held(f) \cap Held(h)' = {}
      BY <1>1, <1>5, <1>9, <2>2 DEF CardIdsUnique, IdsAreIssued
    <3>3. \A g \in Players \ {f} : Busy(g) => Held(f)' \cap Held(g)' = {}
      BY <1>6, <1>9, <3>1, <3>2 DEF CardIdsUnique
    <3> QED
      BY <1>9, <3>1, <3>3 DEF CardIdsUnique
  <2> QED
    BY <2>1, <2>2
<1>10. CardIdsUnique'
  BY <1>1, <1>9 DEF CardIdsUnique
<1>11. \A g \in Players : draw'[g].at = "next" => card_inst_id' # Missing
  BY DEF IdsAreIssued, IssuesMore, Goes, Others
<1>12. \A g \in Players : Busy(g) => Held(g)' \subseteq Issued'
  <2>1. Held(h)' \subseteq Issued'
    BY <1>1, <1>5 DEF IdsAreIssued, IssuesMore
  <2>2. \A g \in Players \ {h} : Busy(g) => Held(g)' \subseteq Issued'
    BY <1>6 DEF IdsAreIssued, IssuesMore
  <2> QED
    BY <2>1, <2>2
<1>13. IdsAreIssued'
  BY <1>1, <1>11, <1>12 DEF IdsAreIssued, IssuesMore
<1> QED
  BY <1>10, <1>13

LEMMA CountersGo ==
  ASSUME CountersAreUpToDate, NEW h \in Players, NEW at, Goes(h, at),
         UNCHANGED <<uid, overlapped, dry, DrawCardCount>>,
         at \in {"init", "next"} /\ draw'[h].forced => draw'[h].ssr,
         at = "count" /\ UserOf(h) \notin overlapped =>
           /\ draw'[h].count = DrawCardCount[Target(h)]
           /\ ~draw'[h].ssr => draw'[h].count < Guarantee
  PROVE  CountersAreUpToDate'
<1>1. \A g \in Players : Target(g)' = Target(g) /\ UserOf(g)' = UserOf(g)
  BY GoesBusy
<1>2. \A g \in Players : draw'[g].at \in {"init", "next"} /\ draw'[g].forced => draw'[g].ssr
  BY DEF CountersAreUpToDate, Goes, Others
<1>3. ASSUME NEW g \in Players, draw'[g].at = "count", UserOf(g) \notin overlapped
      PROVE  /\ draw'[g].count = DrawCardCount[Target(g)]
             /\ ~draw'[g].ssr => draw'[g].count < Guarantee
  <2>1. CASE g = h
    BY <1>3, <2>1 DEF Goes
  <2>2. CASE g # h
    BY <1>3, <2>2 DEF CountersAreUpToDate, Goes, Others
  <2> QED
    BY <2>1, <2>2
<1>4. \A g \in Players : draw'[g].at = "count" /\ UserOf(g)' \notin overlapped' =>
        /\ draw'[g].count = DrawCardCount'[Target(g)']
        /\ ~draw'[g].ssr => draw'[g].count < Guarantee
  BY <1>1, <1>3
<1>5. \A p \in Players : uid'[p] = Nil => dry'[p] = 0
  BY DEF CountersAreUpToDate
<1>6. \A p \in Players : uid'[p] # Nil /\ uid'[p] \notin overlapped' =>
        dry'[p] =< DrawCardCount'[p] /\ dry'[p] =< Guarantee
  BY DEF CountersAreUpToDate
<1> QED
  BY <1>2, <1>4, <1>5, <1>6 DEF CountersAreUpToDate

LEMMA BagsStay ==
  ASSUME BagsAreWhole, UNCHANGED <<users, uid, Backpack, given, overlapped, returned>>
  PROVE  BagsAreWhole'
<1>1. \A u \in Uids : SavedIds(u)' = SavedIds(u)
  BY DEF SavedIds, Ids
<1>2. \A p \in Players : Ids(Backpack'[p]) = Ids(Backpack[p])
  OBVIOUS
<1> QED
  BY <1>1, <1>2 DEF BagsAreWhole, Ids

LEMMA CardsKeptGo ==
  ASSUME DrawnCardsAreKept, NEW h \in Players, NEW at, Goes(h, at),
         UNCHANGED <<uid, Backpack, given, overlapped, returned>>,
         at = "save" => draw'[h].fields # <<>>,
         UserOf(h) \notin overlapped \cup returned =>
           /\ at = "append" => draw'[h].bag = Backpack[Target(h)]
           /\ at \in {"fields", "save"} => Held(h)' \subseteq Ids(Backpack[Target(h)])
           /\ at = "save" => Held(h)' \cup given[UserOf(h)] \subseteq Ids(draw'[h].fields.bag)
  PROVE  DrawnCardsAreKept'
<1>1. \A g \in Players : /\ Busy(g)' <=> Busy(g)
                         /\ Target(g)' = Target(g) /\ UserOf(g)' = UserOf(g)
  BY GoesBusy
<1>2. ASSUME NEW g \in Players, Busy(g)
      PROVE  /\ draw'[g].at = "save" => draw'[g].fields # <<>>
             /\ UserOf(g) \notin overlapped \cup returned =>
                  /\ draw'[g].at = "append" => draw'[g].bag = Backpack[Target(g)]
                  /\ draw'[g].at \in {"fields", "save"} =>
                       Held(g)' \subseteq Ids(Backpack[Target(g)])
                  /\ draw'[g].at = "save" =>
                       Held(g)' \cup given[UserOf(g)] \subseteq Ids(draw'[g].fields.bag)
  <2>1. CASE g = h
    <3>1. draw'[h].at = at
      BY DEF Goes
    <3> QED
      BY <2>1, <3>1
  <2>2. CASE g # h
    <3>1. draw'[g] = draw[g] /\ Held(g)' = Held(g)
      BY <2>2, HeldOfOthers DEF Goes, Others
    <3> QED
      BY <1>2, <3>1 DEF DrawnCardsAreKept
  <2> QED
    BY <2>1, <2>2
<1>3. \A g \in Players : Ids(Backpack[Target(g)])' = Ids(Backpack[Target(g)])
  BY <1>1 DEF Ids
<1>4. ASSUME NEW g \in Players, Busy(g)'
      PROVE  /\ draw'[g].at = "save" => draw'[g].fields # <<>>
             /\ UserOf(g)' \notin overlapped' \cup returned' =>
                  /\ draw'[g].at = "append" => draw'[g].bag = Backpack'[Target(g)']
                  /\ draw'[g].at \in {"fields", "save"} =>
                       Held(g)' \subseteq Ids(Backpack[Target(g)])'
                  /\ draw'[g].at = "save" =>
                       Held(g)' \cup given'[UserOf(g)'] \subseteq Ids(draw'[g].fields.bag)
  <2>1. Busy(g)
    BY <1>1, <1>4
  <2> QED
    BY <1>1, <1>2, <1>3, <2>1
<1> QED
  BY <1>4 DEF DrawnCardsAreKept, Ids

-----------------------------------------------------------------------------
(* Every step keeps the invariant. *)

LEMMA DrawInvInit == DrawInit => DrawInv
<1> SUFFICES ASSUME DrawInit PROVE DrawInv
  OBVIOUS
<1>1. \A h \in Players : draw[h] = Idle /\ draw[h].at = "idle" /\ ~Busy(h)
  BY IdleFields DEF DrawInit, Busy
<1>2. TypeOK
  BY <1>1, CardIdTypes DEF DrawInit, TypeOK
<1>3. TargetsLoggedIn
  BY <1>1 DEF DrawInit, TargetsLoggedIn
<1>4. CardIdsUnique /\ IdsAreIssued
  BY <1>1 DEF DrawInit, CardIdsUnique, IdsAreIssued
<1>5. CountersAreUpToDate
  BY <1>1, CardIdTypes DEF DrawInit, CountersAreUpToDate
<1>6. BagsAreWhole
  BY CardIdTypes DEF DrawInit, BagsAreWhole
<1>7. DrawnCardsAreKept
  BY <1>1 DEF DrawnCardsAreKept
<1> QED
  BY <1>2, <1>3, <1>4, <1>5, <1>6, <1>7 DEF DrawInv

LEMMA SelectStep ==
  ASSUME DrawInv, NEW h \in Players, SelectRarityWithContext(h)
  PROVE  DrawInv'
<1>1. TypeOK' /\ Goes(h, "init") /\ KeepsCards(h) /\ ~draw'[h].forced
  BY SelectEffect DEF DrawInv
<1>2. UNCHANGED <<users, card_inst_id, uin_player, uid, DrawCardCount, Backpack,
                  given, dry, overlapped, returned>>
  BY DEF SelectRarityWithContext, redisVars, playerVars, history
<1>3. IssuesMore
  BY <1>2 DEF IssuesMore, Issued
<1>4. TargetsLoggedIn'
  BY <1>1, <1>2, TargetsGo DEF DrawInv
<1>5. CardIdsUnique' /\ IdsAreIssued'
  BY <1>1, <1>2, <1>3, IdsGo DEF DrawInv
<1>6. CountersAreUpToDate'
  BY <1>1, <1>2, CountersGo DEF DrawInv
<1>7. BagsAreWhole'
  BY <1>2, BagsStay DEF DrawInv
<1>8. DrawnCardsAreKept'
  BY <1>1, <1>2, CardsKeptGo DEF DrawInv
<1> QED
  BY <1>1, <1>4, <1>5, <1>6, <1>7, <1>8 DEF DrawInv

(* A card is built, with a fresh id or with 0. *)
LEMMA BuiltStep ==
  ASSUME DrawInv, TypeOK', NEW h \in Players, NEW id \in CardIds, Built(h, id),
         draw[h].at \in {"init", "next"},
         UNCHANGED <<users, uin_player, uid, DrawCardCount, Backpack,
                     given, dry, overlapped, returned>>,
         IssuesMore, id # 0 => id \notin Issued /\ id \in Issued'
  PROVE  DrawInv'
<1>1. BagsAreWhole'
  BY BagsStay DEF DrawInv
<1>2. CASE Goes(h, "init") /\ KeepsCards(h) /\ draw'[h].ssr /\ draw'[h].forced
  <2>1. TargetsLoggedIn'
    BY <1>2, TargetsGo DEF DrawInv
  <2>2. CardIdsUnique' /\ IdsAreIssued'
    BY <1>2, IdsGo DEF DrawInv
  <2>3. CountersAreUpToDate'
    BY <1>2, CountersGo DEF DrawInv
  <2>4. DrawnCardsAreKept'
    BY <1>2, CardsKeptGo DEF DrawInv
  <2> QED
    BY <1>1, <2>1, <2>2, <2>3, <2>4 DEF DrawInv
<1>3. CASE /\ Goes(h, "count")
           /\ draw'[h].cards = Append(draw[h].cards, id)
           /\ draw'[h].count = DrawCardCount[Target(h)]
           /\ draw'[h].ssr = draw[h].ssr
           /\ draw[h].forced \/ draw'[h].count < Guarantee
  <2>1. TargetsLoggedIn'
    BY <1>3, TargetsGo DEF DrawInv
  <2>2. CardIdsUnique' /\ IdsAreIssued'
    BY <1>3, IdsAdd DEF DrawInv
  <2>3. CountersAreUpToDate'
    <3>1. ~draw'[h].ssr => draw'[h].count < Guarantee
      BY <1>3 DEF DrawInv, CountersAreUpToDate
    <3> QED
      BY <1>3, <3>1, CountersGo DEF DrawInv
  <2>4. DrawnCardsAreKept'
    BY <1>3, CardsKeptGo DEF DrawInv
  <2> QED
    BY <1>1, <2>1, <2>2, <2>3, <2>4 DEF DrawInv
<1> QED
  BY <1>2, <1>3 DEF Built

LEMMA InitStep ==
  ASSUME DrawInv, NEW h \in Players, InitCardID(h)
  PROVE  DrawInv'
<1>1. /\ TypeOK'
      /\ card_inst_id' = card_inst_id
         \/ (card_inst_id = Missing /\ card_inst_id' = FirstCardId)
      /\ \/ Built(h, 0)
         \/ /\ Goes(h, "next") /\ KeepsCards(h) /\ card_inst_id' # Missing
            /\ draw'[h].ssr = draw[h].ssr /\ draw'[h].forced = draw[h].forced
  BY InitEffect DEF DrawInv
<1>2. UNCHANGED <<users, uin_player, uid, DrawCardCount, Backpack,
                  given, dry, overlapped, returned>>
  BY DEF InitCardID, playerVars, history
<1>3. IssuesMore
  BY <1>1 DEF IssuesMore, Issued
<1>4. draw[h].at = "init"
  BY DEF InitCardID
<1>5. CASE Built(h, 0)
  BY <1>1, <1>2, <1>3, <1>4, <1>5, BuiltStep, CardIdTypes
<1>6. CASE /\ Goes(h, "next") /\ KeepsCards(h) /\ card_inst_id' # Missing
           /\ draw'[h].ssr = draw[h].ssr /\ draw'[h].forced = draw[h].forced
  <2>1. TargetsLoggedIn'
    BY <1>2, <1>6, TargetsGo DEF DrawInv
  <2>2. CardIdsUnique' /\ IdsAreIssued'
    BY <1>2, <1>3, <1>6, IdsGo DEF DrawInv
  <2>3. CountersAreUpToDate'
    <3>1. draw[h].forced => draw[h].ssr
      BY <1>4 DEF DrawInv, CountersAreUpToDate
    <3>2. CountersAreUpToDate
      BY DEF DrawInv
    <3> QED
      BY <1>2, <1>6, <3>1, <3>2, CountersGo
  <2>4. BagsAreWhole'
    BY <1>2, BagsStay DEF DrawInv
  <2>5. DrawnCardsAreKept'
    BY <1>2, <1>6, CardsKeptGo DEF DrawInv
  <2> QED
    BY <1>1, <2>1, <2>2, <2>3, <2>4, <2>5 DEF DrawInv
<1> QED
  BY <1>1, <1>5, <1>6

LEMMA IncrStep ==
  ASSUME DrawInv, NEW h \in Players, IncrCardID(h)
  PROVE  DrawInv'
<1>1. draw[h].at = "next" /\ card_inst_id # Missing
  BY DEF IncrCardID, DrawInv, IdsAreIssued
<1>2. /\ TypeOK'
      /\ card_inst_id \in Nat /\ card_inst_id' \in {card_inst_id, card_inst_id + 1}
      /\ \/ Built(h, 0)
         \/ card_inst_id' = card_inst_id + 1 /\ Built(h, card_inst_id + 1)
  BY <1>1, IncrEffect DEF DrawInv
<1>3. UNCHANGED <<users, uin_player, uid, DrawCardCount, Backpack,
                  given, dry, overlapped, returned>>
  BY DEF IncrCardID, playerVars, history
<1>4. PICK n \in Nat, m \in Nat : n = card_inst_id /\ m = card_inst_id' /\ m \in {n, n + 1}
  BY <1>2
<1>5. n # Missing /\ m # Missing
  BY DrawConstants
<1>6. Issued = 1..n /\ Issued' = 1..m
  BY <1>4, <1>5 DEF Issued
<1>7. IssuesMore
  <2>1. 1..n \subseteq 1..m
    BY <1>4
  <2> QED
    BY <1>4, <1>5, <1>6, <2>1 DEF IssuesMore
<1>8. CASE Built(h, 0)
  BY <1>1, <1>2, <1>3, <1>7, <1>8, BuiltStep, CardIdTypes
<1>9. CASE m = n + 1 /\ Built(h, n + 1)
  <2>1. n + 1 \notin 1..n /\ n + 1 \in 1..m
    BY <1>9
  <2>2. n + 1 \in CardIds
    <3>1. m \in {Missing} \cup (FirstCardId .. FirstCardId + MaxCards)
      BY <1>2, <1>4 DEF TypeOK
    <3> HIDE DEF FirstCardId
    <3> QED
      BY <1>5, <1>9, <3>1, CardIdTypes DEF CardIds
  <2>3. n + 1 \notin Issued /\ n + 1 \in Issued'
    BY <1>6, <2>1
  <2> QED
    BY <1>1, <1>2, <1>3, <1>7, <1>9, <2>2, <2>3, BuiltStep
<1> QED
  BY <1>2, <1>4, <1>8, <1>9

(* Two handlers at work for one Player draw for one user, and that has     *)
(* been noticed.                                                           *)
LEMMA SoleHandler ==
  ASSUME TypeOK, TargetsLoggedIn, NEW g \in Players, NEW h \in Players, g # h,
         Busy(g), Busy(h), UserOf(g) \notin overlapped
  PROVE  Target(g) # Target(h) /\ UserOf(g) # UserOf(h)
<1>1. UserOf(g) # UserOf(h)
  BY DEF TargetsLoggedIn
<1> QED
  BY <1>1 DEF UserOf

LEMMA UserOfBusy ==
  ASSUME TypeOK, TargetsLoggedIn, NEW h \in Players, Busy(h)
  PROVE  Target(h) \in Players /\ UserOf(h) \in Uids /\ UserOf(h) = uid[Target(h)]
<1>1. Target(h) \in Players
  BY BusyIsDrawing, DrawingFields DEF Busy, Target
<1>2. uid[Target(h)] # Nil
  BY DEF TargetsLoggedIn
<1>3. uid[Target(h)] \in Uids
  BY <1>1, <1>2 DEF TypeOK
<1> QED
  BY <1>1, <1>3 DEF UserOf

(* The counter is written: the guarantee is in time for whoever draws      *)
(* alone.                                                                  *)
LEMMA CountStep ==
  ASSUME DrawInv, NEW h \in Players, AfterGenerate(h)
  PROVE  DrawInv'
<1>1. /\ TypeOK'
      /\ DrawCardCount'[Target(h)] = draw[h].count + 1
      /\ dry'[Target(h)] = IF draw[h].ssr THEN 0 ELSE dry[Target(h)] + 1
      /\ \A p \in Players \ {Target(h)} :
           DrawCardCount'[p] = DrawCardCount[p] /\ dry'[p] = dry[p]
  BY CountEffect DEF DrawInv
<1>2. PICK at \in {"rarity", "bag"} : Goes(h, at) /\ KeepsCards(h)
  BY CountEffect DEF DrawInv
<1>3. UNCHANGED <<users, card_inst_id, uin_player, uid, Backpack, given, overlapped, returned>>
  BY DEF AfterGenerate, redisVars
<1>4. IssuesMore
  BY <1>3 DEF IssuesMore, Issued
<1>5. TargetsLoggedIn'
  BY <1>2, <1>3, TargetsGo DEF DrawInv
<1>6. CardIdsUnique' /\ IdsAreIssued'
  BY <1>2, <1>3, <1>4, IdsGo DEF DrawInv
<1>7. BagsAreWhole'
  BY <1>3, BagsStay DEF DrawInv
<1>8. DrawnCardsAreKept'
  BY <1>2, <1>3, CardsKeptGo DEF DrawInv
<1>9. Busy(h) /\ \A g \in Players :
        /\ Busy(g)' <=> Busy(g)
        /\ Target(g)' = Target(g) /\ UserOf(g)' = UserOf(g)
  BY <1>2, <1>3, GoesBusy
<1>10. PICK p \in Players : p = Target(h) /\ uid[p] = UserOf(h) /\ uid[p] \in Uids
  BY <1>9, UserOfBusy DEF DrawInv
<1>11. uid[p] # Nil
  BY <1>10, CardIdTypes
<1>12. ASSUME uid[p] \notin overlapped
       PROVE  dry'[p] =< DrawCardCount'[p] /\ dry'[p] =< Guarantee
  <2>1. draw[h].at = "count"
    BY DEF AfterGenerate
  <2>2. /\ draw[h].count = DrawCardCount[p]
        /\ ~draw[h].ssr => draw[h].count < Guarantee
    BY <1>10, <1>12, <2>1 DEF DrawInv, CountersAreUpToDate
  <2>3. dry[p] =< DrawCardCount[p] /\ dry[p] =< Guarantee
    BY <1>11, <1>12 DEF DrawInv, CountersAreUpToDate
  <2>4. dry[p] \in Nat /\ DrawCardCount[p] \in Nat /\ Guarantee \in Nat
    BY CardIdTypes DEF DrawInv, TypeOK
  <2>5. /\ DrawCardCount'[p] = DrawCardCount[p] + 1
        /\ dry'[p] = IF draw[h].ssr THEN 0 ELSE dry[p] + 1
    BY <1>1, <1>10, <2>2
  <2>6. CASE draw[h].ssr
    BY <2>4, <2>5, <2>6
  <2>7. CASE ~draw[h].ssr
    BY <2>2, <2>3, <2>4, <2>5, <2>7
  <2> QED
    BY <2>6, <2>7
<1>13. CountersAreUpToDate'
  <2>1. \A q \in Players : uid'[q] = Nil => dry'[q] = 0
    BY <1>1, <1>3, <1>10, <1>11 DEF DrawInv, CountersAreUpToDate
  <2>2. \A q \in Players : uid'[q] # Nil /\ uid'[q] \notin overlapped' =>
          dry'[q] =< DrawCardCount'[q] /\ dry'[q] =< Guarantee
    <3>1. ASSUME NEW q \in Players, q # p, uid[q] # Nil, uid[q] \notin overlapped
          PROVE  dry'[q] =< DrawCardCount'[q] /\ dry'[q] =< Guarantee
      BY <1>1, <1>10, <3>1 DEF DrawInv, CountersAreUpToDate
    <3> QED
      BY <1>3, <1>12, <3>1
  <2>3. \A g \in Players : draw'[g].at \in {"init", "next"} /\ draw'[g].forced => draw'[g].ssr
    BY <1>2 DEF DrawInv, CountersAreUpToDate, Goes, Others
  <2>4. ASSUME NEW g \in Players, draw'[g].at = "count", UserOf(g)' \notin overlapped'
        PROVE  /\ draw'[g].count = DrawCardCount'[Target(g)']
               /\ ~draw'[g].ssr => draw'[g].count < Guarantee
    <3>1. g # h /\ draw'[g] = draw[g]
      BY <1>2, <2>4 DEF Goes, Others
    <3>2. draw[g].at = "count" /\ Busy(g) /\ UserOf(g) \notin overlapped
      BY <1>3, <1>9, <2>4, <3>1 DEF Busy
    <3>3. Target(g) # p /\ Target(g) \in Players
      BY <1>9, <1>10, <3>1, <3>2, SoleHandler, UserOfBusy DEF DrawInv
    <3>4. DrawCardCount'[Target(g)'] = DrawCardCount[Target(g)]
      BY <1>1, <1>9, <1>10, <3>3
    <3> QED
      BY <3>1, <3>2, <3>4 DEF DrawInv, CountersAreUpToDate
  <2> QED
    BY <2>1, <2>2, <2>3, <2>4 DEF CountersAreUpToDate
<1> QED
  BY <1>1, <1>5, <1>6, <1>7, <1>8, <1>13 DEF DrawInv

LEMMA ReadStep ==
  ASSUME DrawInv, NEW h \in Players, ReadBackpack(h)
  PROVE  DrawInv'
<1>1. /\ TypeOK' /\ Goes(h, "append") /\ KeepsCards(h)
      /\ draw'[h].bag = Backpack[Target(h)]
  BY ReadEffect DEF DrawInv
<1>2. UNCHANGED <<users, card_inst_id, uin_player, uid, DrawCardCount, Backpack,
                  given, dry, overlapped, returned>>
  BY DEF ReadBackpack, redisVars, playerVars, history
<1>3. IssuesMore
  BY <1>2 DEF IssuesMore, Issued
<1>4. TargetsLoggedIn'
  BY <1>1, <1>2, TargetsGo DEF DrawInv
<1>5. CardIdsUnique' /\ IdsAreIssued'
  BY <1>1, <1>2, <1>3, IdsGo DEF DrawInv
<1>6. CountersAreUpToDate'
  BY <1>1, <1>2, CountersGo DEF DrawInv
<1>7. BagsAreWhole'
  BY <1>2, BagsStay DEF DrawInv
<1>8. DrawnCardsAreKept'
  BY <1>1, <1>2, CardsKeptGo DEF DrawInv
<1> QED
  BY <1>1, <1>4, <1>5, <1>6, <1>7, <1>8 DEF DrawInv

(* What is shown is in the bag that is put together as JSON.               *)
LEMMA FieldsStep ==
  ASSUME DrawInv, NEW h \in Players, DrawCardFields(h)
  PROVE  DrawInv'
<1>1. /\ TypeOK' /\ Goes(h, "save") /\ KeepsCards(h)
      /\ draw'[h].fields \in Saved /\ draw'[h].fields.bag = Backpack[Target(h)]
  BY FieldsEffect DEF DrawInv
<1>2. UNCHANGED <<users, card_inst_id, uin_player, uid, DrawCardCount, Backpack,
                  given, dry, overlapped, returned>>
  BY DEF DrawCardFields, redisVars, playerVars, history
<1>3. IssuesMore
  BY <1>2 DEF IssuesMore, Issued
<1>4. TargetsLoggedIn'
  BY <1>1, <1>2, TargetsGo DEF DrawInv
<1>5. CardIdsUnique' /\ IdsAreIssued'
  BY <1>1, <1>2, <1>3, IdsGo DEF DrawInv
<1>6. CountersAreUpToDate'
  BY <1>1, <1>2, CountersGo DEF DrawInv
<1>7. BagsAreWhole'
  BY <1>2, BagsStay DEF DrawInv
<1>8. draw[h].at = "fields" /\ Busy(h)
  BY <1>1, GoesBusy, <1>2 DEF DrawCardFields
<1>9. draw'[h].fields # <<>>
  BY <1>1 DEF Saved
<1>10. ASSUME UserOf(h) \notin overlapped \cup returned
       PROVE  Held(h)' \cup given[UserOf(h)] \subseteq Ids(Backpack[Target(h)])
  <2>1. PICK u \in Uids, p \in Players : u = UserOf(h) /\ p = Target(h) /\ uid[p] = u
    BY <1>8, UserOfBusy DEF DrawInv
  <2>2. Held(h)' = Held(h)
    BY <1>1 DEF KeepsCards, Held, Ids
  <2>3. Held(h) \subseteq Ids(Backpack[p])
    BY <1>8, <1>10, <2>1 DEF DrawInv, DrawnCardsAreKept
  <2>4. given[u] \subseteq Ids(Backpack[p])
    BY <1>10, <2>1 DEF DrawInv, BagsAreWhole
  <2> QED
    BY <2>1, <2>2, <2>3, <2>4
<1>11. DrawnCardsAreKept'
  <2>1. DrawnCardsAreKept
    BY DEF DrawInv
  <2>2. Ids(draw'[h].fields.bag) = Ids(Backpack[Target(h)])
    BY <1>1
  <2>3. UserOf(h) \notin overlapped \cup returned =>
          /\ Held(h)' \subseteq Ids(Backpack[Target(h)])
          /\ Held(h)' \cup given[UserOf(h)] \subseteq Ids(draw'[h].fields.bag)
    BY <1>10, <2>2
  <2> QED
    BY <1>1, <1>2, <1>9, <2>1, <2>3, CardsKeptGo
<1> QED
  BY <1>1, <1>4, <1>5, <1>6, <1>7, <1>11 DEF DrawInv

LEMMA WriteStep ==
  ASSUME DrawInv, NEW h \in Players, WriteBackpack(h)
  PROVE  DrawInv'
<1>1. /\ TypeOK' /\ Goes(h, "fields") /\ KeepsCards(h)
      /\ \A p \in Players \ {Target(h)} : Backpack'[p] = Backpack[p]
      /\ draw[h].bag = Backpack[Target(h)] =>
           Backpack'[Target(h)] = Backpack[Target(h)] \o draw[h].cards
  BY WriteEffect DEF DrawInv
<1>2. UNCHANGED <<users, card_inst_id, uin_player, uid, DrawCardCount,
                  given, dry, overlapped, returned>>
  BY DEF WriteBackpack, redisVars, history
<1>3. IssuesMore
  BY <1>2 DEF IssuesMore, Issued
<1>4. TargetsLoggedIn'
  BY <1>1, <1>2, TargetsGo DEF DrawInv
<1>5. CardIdsUnique' /\ IdsAreIssued'
  BY <1>1, <1>2, <1>3, IdsGo DEF DrawInv
<1>6. CountersAreUpToDate'
  BY <1>1, <1>2, CountersGo DEF DrawInv
<1>7. Busy(h) /\ draw[h].at = "append" /\ \A g \in Players :
        /\ Busy(g)' <=> Busy(g)
        /\ Target(g)' = Target(g) /\ UserOf(g)' = UserOf(g)
  BY <1>1, <1>2, GoesBusy DEF WriteBackpack
<1>8. PICK p \in Players, u \in Uids : p = Target(h) /\ u = UserOf(h) /\ uid[p] = u
  BY <1>7, UserOfBusy DEF DrawInv
<1>9. ASSUME u \notin overlapped \cup returned
      PROVE  Ids(Backpack'[p]) = Ids(Backpack[p]) \cup Ids(draw[h].cards)
  <2>1. Backpack'[p] = Backpack[p] \o draw[h].cards
    BY <1>1, <1>7, <1>8, <1>9 DEF DrawInv, DrawnCardsAreKept
  <2>2. Backpack[p] \in Seq(CardIds)
    BY DEF DrawInv, TypeOK
  <2>3. draw[h].cards \in Seq(CardIds)
    BY <1>1, DrawingFields DEF Goes
  <2> QED
    BY <2>1, <2>2, <2>3, IdsOfConcat
<1>10. BagsAreWhole'
  <2> SUFFICES ASSUME NEW v \in Uids \ (overlapped \cup returned)
               PROVE  /\ \A q, r \in Players : uid[q] = v /\ uid[r] = v => q = r
                      /\ (\A q \in Players : uid[q] # v) => given[v] = {}
                      /\ \A q \in Players : uid[q] = v => given[v] \subseteq Ids(Backpack'[q])
                      /\ given[v] \subseteq SavedIds(v)
    <3>1. \A v \in Uids : SavedIds(v)' = SavedIds(v)
      BY <1>2 DEF SavedIds, Ids
    <3> QED
      BY <1>2, <3>1 DEF BagsAreWhole, Ids
  <2>1. ASSUME NEW q \in Players, uid[q] = v
        PROVE  given[v] \subseteq Ids(Backpack'[q])
    <3>1. given[v] \subseteq Ids(Backpack[q])
      BY <2>1 DEF DrawInv, BagsAreWhole
    <3>2. CASE q = p
      BY <1>8, <1>9, <2>1, <3>1, <3>2
    <3>3. CASE q # p
      BY <1>1, <1>8, <3>1, <3>3
    <3> QED
      BY <3>2, <3>3
  <2> QED
    BY <2>1 DEF DrawInv, BagsAreWhole
<1>11. DrawnCardsAreKept'
  <2>1. ASSUME NEW g \in Players, Busy(g)
        PROVE  /\ draw'[g].at = "save" => draw'[g].fields # <<>>
               /\ UserOf(g) \notin overlapped \cup returned =>
                    /\ draw'[g].at = "append" => draw'[g].bag = Backpack'[Target(g)]
                    /\ draw'[g].at \in {"fields", "save"} =>
                         Held(g)' \subseteq Ids(Backpack'[Target(g)])
                    /\ draw'[g].at = "save" =>
                         Held(g)' \cup given[UserOf(g)] \subseteq Ids(draw'[g].fields.bag)
    <3>1. CASE g = h
      <4>1. draw'[h].at = "fields"
        BY <1>1 DEF Goes
      <4>2. Held(h)' \subseteq Ids(draw[h].cards)
        BY <1>1 DEF KeepsCards, Held, Ids
      <4> QED
        BY <1>8, <1>9, <3>1, <4>1, <4>2
    <3>2. CASE g # h
      <4>1. draw'[g] = draw[g] /\ Held(g)' = Held(g)
        BY <1>1, <3>2, HeldOfOthers DEF Goes, Others
      <4>2. draw[g].at = "save" => draw[g].fields # <<>>
        BY <2>1 DEF DrawInv, DrawnCardsAreKept
      <4>3. ASSUME UserOf(g) \notin overlapped \cup returned
            PROVE  Backpack'[Target(g)] = Backpack[Target(g)]
        <5>1. Target(g) # p /\ Target(g) \in Players
          BY <1>7, <1>8, <2>1, <3>2, <4>3, SoleHandler, UserOfBusy DEF DrawInv
        <5> QED
          BY <1>1, <1>8, <5>1
      <4> QED
        BY <2>1, <4>1, <4>2, <4>3 DEF DrawInv, DrawnCardsAreKept
    <3> QED
      BY <3>1, <3>2
  <2>2. \A g \in Players : Ids(Backpack[Target(g)])' = Ids(Backpack'[Target(g)])
    BY <1>7 DEF Ids
  <2>3. ASSUME NEW g \in Players, Busy(g)'
        PROVE  /\ draw'[g].at = "save" => draw'[g].fields # <<>>
               /\ UserOf(g)' \notin overlapped' \cup returned' =>
                    /\ draw'[g].at = "append" => draw'[g].bag = Backpack'[Target(g)']
                    /\ draw'[g].at \in {"fields", "save"} =>
                         Held(g)' \subseteq Ids(Backpack[Target(g)])'
                    /\ draw'[g].at = "save" =>
                         Held(g)' \cup given'[UserOf(g)'] \subseteq Ids(draw'[g].fields.bag)
    BY <1>2, <1>7, <2>1, <2>2, <2>3
  <2> QED
    BY <2>3 DEF DrawnCardsAreKept, Ids
<1> QED
  BY <1>1, <1>4, <1>5, <1>6, <1>10, <1>11 DEF DrawInv

(* The user is saved and told: his bag holds what he is shown.             *)
LEMMA SaveStep ==
  ASSUME DrawInv, NEW h \in Players, SaveDrawCardResults(h)
  PROVE  DrawInv'
<1>1. Busy(h) /\ draw[h].at = "save" /\ draw[h].fields # <<>>
  BY DEF SaveDrawCardResults, Busy, DrawInv, DrawnCardsAreKept
<1>2. PICK p \in Players, u \in Uids : p = Target(h) /\ u = UserOf(h) /\ uid[p] = u
  BY <1>1, UserOfBusy DEF DrawInv
<1>3. /\ TypeOK' /\ Others(h) /\ draw'[h] = Idle
      /\ given'[u] = given[u] \cup Held(h)
      /\ \A v \in Uids \ {u} : given'[v] = given[v] /\ users'[v] = users[v]
      /\ \A v \in Uids \ {u} : v \in overlapped' <=> v \in overlapped
      /\ u \in overlapped => u \in overlapped'
      /\ u \notin overlapped' => users'[u] = draw[h].fields
  BY <1>1, <1>2, SaveEffect DEF DrawInv
<1>4. UNCHANGED <<card_inst_id, uin_player, uid, DrawCardCount, Backpack, dry, returned>>
  BY DEF SaveDrawCardResults, playerVars
<1>5. /\ ~Busy(h)' /\ draw'[h].at = "idle"
      /\ \A g \in Players \ {h} :
           /\ draw'[g] = draw[g]
           /\ Busy(g)' <=> Busy(g)
           /\ Target(g)' = Target(g) /\ UserOf(g)' = UserOf(g)
           /\ Held(g)' = Held(g)
  <2>1. draw'[h].at = "idle"
    BY <1>3, IdleFields
  <2> QED
    BY <1>3, <1>4, <2>1, HeldOfOthers DEF Others, Busy, Target, UserOf
<1>6. \A v \in Uids : v \in overlapped => v \in overlapped'
  BY <1>3
<1>7. overlapped \subseteq overlapped'
  BY <1>6 DEF DrawInv, TypeOK
<1>8. TargetsLoggedIn'
  <2>1. \A v \in Uids : uin_player'[v] # Nil => uid'[uin_player'[v]] = v
    BY <1>4 DEF DrawInv, TargetsLoggedIn
  <2>2. \A g \in Players : Busy(g)' => uid'[Target(g)'] # Nil
    BY <1>4, <1>5 DEF DrawInv, TargetsLoggedIn
  <2>3. ASSUME NEW f \in Players, NEW g \in Players,
               Busy(f)', Busy(g)', f # g, UserOf(f)' = UserOf(g)'
        PROVE  UserOf(g)' \in overlapped'
    <3>1. f # h /\ g # h
      BY <1>5, <2>3
    <3> QED
      BY <1>5, <1>7, <2>3, <3>1 DEF DrawInv, TargetsLoggedIn
  <2> QED
    BY <2>1, <2>2, <2>3 DEF TargetsLoggedIn
<1>9. \A v \in Uids : given'[v] \subseteq given[v] \cup Held(h)
  BY <1>3
<1>10. CardIdsUnique'
  <2>1. ASSUME NEW f \in Players, Busy(f)'
        PROVE  /\ \A i, j \in DOMAIN draw'[f].cards :
                    i # j /\ draw'[f].cards[i] # 0 => draw'[f].cards[i] # draw'[f].cards[j]
               /\ \A g \in Players \ {f} : Busy(g)' => Held(f)' \cap Held(g)' = {}
               /\ \A v \in Uids : Held(f)' \cap given'[v] = {}
    <3>1. f # h /\ Busy(f) /\ draw'[f] = draw[f] /\ Held(f)' = Held(f)
      BY <1>5, <2>1
    <3>2. \A g \in Players \ {f} : Busy(g)' => Held(f)' \cap Held(g)' = {}
      BY <1>5, <3>1 DEF DrawInv, CardIdsUnique
    <3>3. Held(f) \cap Held(h) = {}
      BY <1>1, <3>1 DEF DrawInv, CardIdsUnique
    <3>4. \A v \in Uids : Held(f)' \cap given'[v] = {}
      BY <1>9, <3>1, <3>3 DEF DrawInv, CardIdsUnique
    <3> QED
      BY <3>1, <3>2, <3>4 DEF DrawInv, CardIdsUnique
  <2> QED
    BY <2>1 DEF CardIdsUnique
<1>11. IdsAreIssued'
  <2>1. Issued' = Issued
    BY <1>4 DEF Issued
  <2>2. Held(h) \subseteq Issued
    BY <1>1 DEF DrawInv, IdsAreIssued
  <2>3. \A v \in Uids : given'[v] \subseteq Issued
    BY <1>9, <2>2 DEF DrawInv, IdsAreIssued
  <2>4. \A g \in Players : Busy(g)' => Held(g)' \subseteq Issued
    BY <1>5 DEF DrawInv, IdsAreIssued
  <2>5. \A g \in Players : draw'[g].at = "next" => card_inst_id' # Missing
    BY <1>4, <1>5 DEF DrawInv, IdsAreIssued
  <2> QED
    BY <2>1, <2>3, <2>4, <2>5 DEF IdsAreIssued
<1>12. CountersAreUpToDate'
  <2>1. \A q \in Players : uid'[q] = Nil => dry'[q] = 0
    BY <1>4 DEF DrawInv, CountersAreUpToDate
  <2>2. \A q \in Players : uid'[q] # Nil /\ uid'[q] \notin overlapped' =>
          dry'[q] =< DrawCardCount'[q] /\ dry'[q] =< Guarantee
    BY <1>4, <1>7 DEF DrawInv, CountersAreUpToDate
  <2>3. \A g \in Players : draw'[g].at \in {"init", "next"} /\ draw'[g].forced => draw'[g].ssr
    BY <1>5 DEF DrawInv, CountersAreUpToDate
  <2>4. ASSUME NEW g \in Players, draw'[g].at = "count", UserOf(g)' \notin overlapped'
        PROVE  /\ draw'[g].count = DrawCardCount'[Target(g)']
               /\ ~draw'[g].ssr => draw'[g].count < Guarantee
    <3>1. g # h
      BY <1>5, <2>4
    <3>2. draw'[g] = draw[g] /\ Target(g)' = Target(g) /\ UserOf(g) \notin overlapped
      BY <1>5, <1>7, <2>4, <3>1
    <3> QED
      BY <1>4, <2>4, <3>2 DEF DrawInv, CountersAreUpToDate
  <2> QED
    BY <2>1, <2>2, <2>3, <2>4 DEF CountersAreUpToDate
<1>13. ASSUME u \notin overlapped' \cup returned
       PROVE  /\ given'[u] \subseteq Ids(Backpack[p])
              /\ given'[u] \subseteq SavedIds(u)'
  <2>1. u \notin overlapped \cup returned
    BY <1>7, <1>13
  <2>2. Held(h) \subseteq Ids(Backpack[p]) /\ given[u] \subseteq Ids(Backpack[p])
    BY <1>1, <1>2, <2>1 DEF DrawInv, DrawnCardsAreKept, BagsAreWhole
  <2>3. Held(h) \cup given[u] \subseteq Ids(draw[h].fields.bag)
    BY <1>1, <1>2, <2>1 DEF DrawInv, DrawnCardsAreKept
  <2>4. SavedIds(u)' = Ids(draw[h].fields.bag)
    BY <1>1, <1>3, <1>13 DEF SavedIds, Ids
  <2> QED
    BY <1>3, <2>2, <2>3, <2>4
<1>14. BagsAreWhole'
  <2> SUFFICES ASSUME NEW v \in Uids \ (overlapped' \cup returned)
               PROVE  /\ \A q, r \in Players : uid[q] = v /\ uid[r] = v => q = r
                      /\ (\A q \in Players : uid[q] # v) => given'[v] = {}
                      /\ \A q \in Players : uid[q] = v => given'[v] \subseteq Ids(Backpack[q])
                      /\ given'[v] \subseteq SavedIds(v)'
    BY <1>4 DEF BagsAreWhole, Ids
  <2>1. v \notin overlapped
    BY <1>7
  <2>2. \A q, r \in Players : uid[q] = v /\ uid[r] = v => q = r
    BY <2>1 DEF DrawInv, BagsAreWhole
  <2>3. CASE v = u
    BY <1>2, <1>13, <2>2, <2>3
  <2>4. CASE v # u
    <3>1. given'[v] = given[v] /\ SavedIds(v)' = SavedIds(v)
      BY <1>3, <2>4 DEF SavedIds, Ids
    <3> QED
      BY <2>1, <2>2, <3>1 DEF DrawInv, BagsAreWhole
  <2> QED
    BY <2>3, <2>4
<1>15. DrawnCardsAreKept'
  <2>1. ASSUME NEW g \in Players, Busy(g)'
        PROVE  /\ draw'[g].at = "save" => draw'[g].fields # <<>>
               /\ UserOf(g)' \notin overlapped' \cup returned' =>
                    /\ draw'[g].at = "append" => draw'[g].bag = Backpack'[Target(g)']
                    /\ draw'[g].at \in {"fields", "save"} =>
                         Held(g)' \subseteq Ids(Backpack[Target(g)])'
                    /\ draw'[g].at = "save" =>
                         Held(g)' \cup given'[UserOf(g)'] \subseteq Ids(draw'[g].fields.bag)
    <3>1. g # h /\ Busy(g) /\ draw'[g] = draw[g] /\ Held(g)' = Held(g)
          /\ Target(g)' = Target(g) /\ UserOf(g)' = UserOf(g)
      BY <1>5, <2>1
    <3>2. Ids(Backpack[Target(g)])' = Ids(Backpack[Target(g)])
      BY <1>4, <3>1 DEF Ids
    <3>3. draw[g].at = "save" => draw[g].fields # <<>>
      BY <3>1 DEF DrawInv, DrawnCardsAreKept
    <3>4. ASSUME UserOf(g) \notin overlapped' \cup returned
          PROVE  UserOf(g) \notin overlapped \cup returned /\ given'[UserOf(g)] = given[UserOf(g)]
      <4>1. UserOf(g) \notin overlapped \cup returned
        BY <1>7, <3>4
      <4>2. UserOf(g) # u /\ UserOf(g) \in Uids
        BY <1>1, <1>2, <3>1, <4>1, SoleHandler, UserOfBusy DEF DrawInv
      <4> QED
        BY <1>3, <4>1, <4>2
    <3> QED
      BY <1>4, <3>1, <3>2, <3>3, <3>4 DEF DrawInv, DrawnCardsAreKept
  <2> QED
    BY <2>1 DEF DrawnCardsAreKept, Ids
<1> QED
  BY <1>3, <1>8, <1>10, <1>11, <1>12, <1>14, <1>15 DEF DrawInv

(* A request for a user for whom another handler is at work is noticed.    *)
LEMMA DrawCardsStep ==
  ASSUME DrawInv, NEW h \in Players, NEW u \in Uids, NEW count \in 0..MaxBatch,
         DrawCards(h, u, count)
  PROVE  DrawInv'
<1>1. /\ TypeOK' /\ Others(h)
      /\ draw[h].at = "idle" /\ uin_player[u] \in Players
      /\ draw'[h] \in Drawing /\ draw'[h].at \in {"rarity", "bag"}
      /\ draw'[h].target = uin_player[u] /\ draw'[h].cards = <<>>
      /\ overlapped \subseteq overlapped'
      /\ \A v \in Uids \ {u} : v \in overlapped' <=> v \in overlapped
      /\ (\E g \in Players : Busy(g) /\ UserOf(g) = u) => u \in overlapped'
  BY DrawCardsEffect DEF DrawInv
<1>2. UNCHANGED <<users, card_inst_id, uin_player, uid, DrawCardCount, Backpack,
                  given, dry, returned>>
  BY DEF DrawCards, redisVars, playerVars
<1>3. uid[uin_player[u]] = u /\ u # Nil
  BY <1>1, CardIdTypes DEF DrawInv, TargetsLoggedIn
<1>4. /\ ~Busy(h) /\ Target(h)' = uin_player[u] /\ UserOf(h)' = u /\ Held(h)' = {}
      /\ \A g \in Players \ {h} :
           /\ draw'[g] = draw[g]
           /\ Busy(g)' <=> Busy(g)
           /\ Target(g)' = Target(g) /\ UserOf(g)' = UserOf(g)
           /\ Held(g)' = Held(g)
  <2>1. ~Busy(h) /\ Target(h)' = uin_player[u] /\ UserOf(h)' = u
    BY <1>1, <1>2, <1>3 DEF Busy, Target, UserOf
  <2>2. Held(h)' = {}
    BY <1>1 DEF Held, Ids
  <2> QED
    BY <1>1, <1>2, <2>1, <2>2, HeldOfOthers DEF Others, Busy, Target, UserOf
<1>5. TargetsLoggedIn'
  <2>1. \A v \in Uids : uin_player'[v] # Nil => uid'[uin_player'[v]] = v
    BY <1>2 DEF DrawInv, TargetsLoggedIn
  <2>2. \A g \in Players : Busy(g)' => uid'[Target(g)'] # Nil
    BY <1>2, <1>3, <1>4 DEF DrawInv, TargetsLoggedIn
  <2>3. ASSUME NEW f \in Players, NEW g \in Players,
               Busy(f)', Busy(g)', f # g, UserOf(f)' = UserOf(g)'
        PROVE  UserOf(g)' \in overlapped'
    <3>1. CASE f = h
      BY <1>1, <1>4, <2>3, <3>1
    <3>2. CASE g = h
      BY <1>1, <1>4, <2>3, <3>2
    <3>3. CASE f # h /\ g # h
      BY <1>1, <1>4, <2>3, <3>3 DEF DrawInv, TargetsLoggedIn
    <3> QED
      BY <3>1, <3>2, <3>3
  <2> QED
    BY <2>1, <2>2, <2>3 DEF TargetsLoggedIn
<1>6. CardIdsUnique'
  <2>1. ASSUME NEW f \in Players, Busy(f)'
        PROVE  /\ \A i, j \in DOMAIN draw'[f].cards :
                    i # j /\ draw'[f].cards[i] # 0 => draw'[f].cards[i] # draw'[f].cards[j]
               /\ \A g \in Players \ {f} : Busy(g)' => Held(f)' \cap Held(g)' = {}
               /\ \A v \in Uids : Held(f)' \cap given'[v] = {}
    <3>1. CASE f = h
      BY <1>1, <1>4, <3>1
    <3>2. CASE f # h
      <4>1. Busy(f) /\ draw'[f] = draw[f] /\ Held(f)' = Held(f)
        BY <1>4, <2>1, <3>2
      <4>2. \A g \in Players \ {f} : Busy(g)' => Held(f)' \cap Held(g)' = {}
        BY <1>4, <4>1 DEF DrawInv, CardIdsUnique
      <4> QED
        BY <1>2, <4>1, <4>2 DEF DrawInv, CardIdsUnique
    <3> QED
      BY <3>1, <3>2
  <2> QED
    BY <2>1 DEF CardIdsUnique
<1>7. IdsAreIssued'
  <2>1. Issued' = Issued
    BY <1>2 DEF Issued
  <2>2. \A g \in Players : Busy(g)' => Held(g)' \subseteq Issued
    BY <1>4 DEF DrawInv, IdsAreIssued
  <2>3. \A g \in Players : draw'[g].at = "next" => card_inst_id' # Missing
    BY <1>1, <1>2, <1>4 DEF DrawInv, IdsAreIssued
  <2>4. \A v \in Uids : given'[v] \subseteq Issued
    BY <1>2 DEF DrawInv, IdsAreIssued
  <2> QED
    BY <2>1, <2>2, <2>3, <2>4 DEF IdsAreIssued
<1>8. CountersAreUpToDate'
  <2>1. \A q \in Players : uid'[q] = Nil => dry'[q] = 0
    BY <1>2 DEF DrawInv, CountersAreUpToDate
  <2>2. \A q \in Players : uid'[q] # Nil /\ uid'[q] \notin overlapped' =>
          dry'[q] =< DrawCardCount'[q] /\ dry'[q] =< Guarantee
    BY <1>1, <1>2 DEF DrawInv, CountersAreUpToDate
  <2>3. \A g \in Players : draw'[g].at \in {"init", "next"} /\ draw'[g].forced => draw'[g].ssr
    BY <1>1, <1>4 DEF DrawInv, CountersAreUpToDate
  <2>4. ASSUME NEW g \in Players, draw'[g].at = "count", UserOf(g)' \notin overlapped'
        PROVE  /\ draw'[g].count = DrawCardCount'[Target(g)']
               /\ ~draw'[g].ssr => draw'[g].count < Guarantee
    <3>1. g # h
      BY <1>1, <2>4
    <3>2. draw'[g] = draw[g] /\ Target(g)' = Target(g) /\ UserOf(g) \notin overlapped
      BY <1>1, <1>4, <2>4, <3>1
    <3> QED
      BY <1>2, <2>4, <3>2 DEF DrawInv, CountersAreUpToDate
  <2> QED
    BY <2>1, <2>2, <2>3, <2>4 DEF CountersAreUpToDate
<1>9. BagsAreWhole'
  <2> SUFFICES ASSUME NEW v \in Uids \ (overlapped' \cup returned)
               PROVE  /\ \A q, r \in Players : uid[q] = v /\ uid[r] = v => q = r
                      /\ (\A q \in Players : uid[q] # v) => given[v] = {}
                      /\ \A q \in Players : uid[q] = v => given[v] \subseteq Ids(Backpack[q])
                      /\ given[v] \subseteq SavedIds(v)
    <3>1. \A v \in Uids : SavedIds(v)' = SavedIds(v)
      BY <1>2 DEF SavedIds, Ids
    <3> QED
      BY <1>2, <3>1 DEF BagsAreWhole, Ids
  <2>1. v \in Uids \ (overlapped \cup returned)
    BY <1>1
  <2> QED
    BY <2>1 DEF DrawInv, BagsAreWhole
<1>10. DrawnCardsAreKept'
  <2>1. ASSUME NEW g \in Players, Busy(g)'
        PROVE  /\ draw'[g].at = "save" => draw'[g].fields # <<>>
               /\ UserOf(g)' \notin overlapped' \cup returned' =>
                    /\ draw'[g].at = "append" => draw'[g].bag = Backpack'[Target(g)']
                    /\ draw'[g].at \in {"fields", "save"} =>
                         Held(g)' \subseteq Ids(Backpack[Target(g)])'
                    /\ draw'[g].at = "save" =>
                         Held(g)' \cup given'[UserOf(g)'] \subseteq Ids(draw'[g].fields.bag)
    <3>1. CASE g = h
      BY <1>1, <3>1
    <3>2. CASE g # h
      <4>1. /\ Busy(g) /\ draw'[g] = draw[g] /\ Held(g)' = Held(g)
            /\ Target(g)' = Target(g) /\ UserOf(g)' = UserOf(g)
        BY <1>4, <2>1, <3>2
      <4>2. Ids(Backpack[Target(g)])' = Ids(Backpack[Target(g)])
        BY <1>2, <4>1 DEF Ids
      <4>3. UserOf(g) \notin overlapped' => UserOf(g) \notin overlapped
        BY <1>1
      <4> QED
        BY <1>2, <4>1, <4>2, <4>3 DEF DrawInv, DrawnCardsAreKept
    <3> QED
      BY <3>1, <3>2
  <2> QED
    BY <2>1 DEF DrawnCardsAreKept, Ids
<1> QED
  BY <1>1, <1>5, <1>6, <1>7, <1>8, <1>9, <1>10 DEF DrawInv

(* A new Player has an empty bag, but then his user was shown nothing or   *)
(* has logged in before.                                                   *)
LEMMA LoginStep ==
  ASSUME DrawInv, NEW p \in Players, NEW u \in Uids, Login(p, u)
  PROVE  DrawInv'
<1>1. TypeOK'
  BY LoginTyped DEF DrawInv
<1>2. UNCHANGED <<users, card_inst_id, DrawCardCount, Backpack, draw, given, dry, overlapped>>
  BY DEF Login, redisVars
<1>3. /\ uid[p] = Nil /\ uid'[p] = u /\ u # Nil
      /\ \A q \in Players \ {p} : uid'[q] = uid[q]
      /\ uin_player'[u] = p
      /\ \A v \in Uids \ {u} : uin_player'[v] = uin_player[v]
      /\ returned \subseteq returned'
      /\ (\E q \in Players : uid[q] = u) => u \in returned'
  BY CardIdTypes DEF Login, DrawInv, TypeOK
<1>4. \A g \in Players : (Busy(g)' <=> Busy(g)) /\ Target(g)' = Target(g) /\ Held(g)' = Held(g)
  BY <1>2 DEF Busy, Target, Held, Ids
<1>5. \A g \in Players : Busy(g) =>
        Target(g) \in Players /\ uid[Target(g)] # Nil /\ UserOf(g)' = UserOf(g)
  <2> SUFFICES ASSUME NEW g \in Players, Busy(g)
               PROVE  Target(g) \in Players /\ uid[Target(g)] # Nil /\ UserOf(g)' = UserOf(g)
    OBVIOUS
  <2>1. Target(g) \in Players /\ uid[Target(g)] # Nil
    BY UserOfBusy, CardIdTypes DEF DrawInv
  <2>2. Target(g) # p
    BY <1>3, <2>1
  <2>3. uid'[Target(g)] = uid[Target(g)]
    BY <1>3, <2>1, <2>2
  <2>4. UserOf(g)' = uid'[Target(g)]
    BY <1>4 DEF UserOf
  <2> QED
    BY <2>1, <2>3, <2>4 DEF UserOf
<1>6. TargetsLoggedIn'
  <2>1. ASSUME NEW v \in Uids, uin_player'[v] # Nil
        PROVE  uid'[uin_player'[v]] = v
    <3>1. CASE v = u
      BY <1>3, <3>1
    <3>2. CASE v # u
      <4>1. uin_player'[v] = uin_player[v] /\ uin_player[v] \in Players
        BY <1>3, <2>1, <3>2 DEF DrawInv, TypeOK
      <4>2. uid[uin_player[v]] = v /\ v # Nil
        BY <2>1, <4>1, CardIdTypes DEF DrawInv, TargetsLoggedIn
      <4>3. uin_player[v] # p
        BY <1>3, <4>2
      <4> QED
        BY <1>3, <4>1, <4>2, <4>3
    <3> QED
      BY <3>1, <3>2
  <2>2. ASSUME NEW g \in Players, Busy(g)'
        PROVE  uid'[Target(g)'] # Nil
    BY <1>3, <1>4, <1>5, <2>2
  <2>3. ASSUME NEW f \in Players, NEW g \in Players,
               Busy(f)', Busy(g)', f # g, UserOf(f)' = UserOf(g)'
        PROVE  UserOf(g)' \in overlapped'
    BY <1>2, <1>4, <1>5, <2>3 DEF DrawInv, TargetsLoggedIn
  <2> QED
    BY <2>1, <2>2, <2>3 DEF TargetsLoggedIn
<1>7. CardIdsUnique' /\ IdsAreIssued'
  <2>1. Issued' = Issued
    BY <1>2 DEF Issued
  <2>2. CardIdsUnique'
    BY <1>2, <1>4 DEF DrawInv, CardIdsUnique
  <2>3. IdsAreIssued'
    BY <1>2, <1>4, <2>1 DEF DrawInv, IdsAreIssued
  <2> QED
    BY <2>2, <2>3
<1>8. CountersAreUpToDate'
  <2>1. \A q \in Players : uid'[q] = Nil => dry'[q] = 0
    BY <1>2, <1>3 DEF DrawInv, CountersAreUpToDate
  <2>2. ASSUME NEW q \in Players, uid'[q] # Nil, uid'[q] \notin overlapped'
        PROVE  dry'[q] =< DrawCardCount'[q] /\ dry'[q] =< Guarantee
    <3>1. CASE q = p
      <4>1. dry[p] = 0 /\ DrawCardCount[p] \in Nat /\ Guarantee \in Nat
        BY <1>3, CardIdTypes DEF DrawInv, CountersAreUpToDate, TypeOK
      <4> QED
        BY <1>2, <3>1, <4>1
    <3>2. CASE q # p
      BY <1>2, <1>3, <2>2, <3>2 DEF DrawInv, CountersAreUpToDate
    <3> QED
      BY <3>1, <3>2
  <2>3. \A g \in Players : draw'[g].at \in {"init", "next"} /\ draw'[g].forced => draw'[g].ssr
    BY <1>2 DEF DrawInv, CountersAreUpToDate
  <2>4. ASSUME NEW g \in Players, draw'[g].at = "count", UserOf(g)' \notin overlapped'
        PROVE  /\ draw'[g].count = DrawCardCount'[Target(g)']
               /\ ~draw'[g].ssr => draw'[g].count < Guarantee
    <3>1. Busy(g) /\ draw[g].at = "count"
      BY <1>2, <2>4 DEF Busy
    <3> QED
      BY <1>2, <1>4, <1>5, <2>4, <3>1 DEF DrawInv, CountersAreUpToDate
  <2> QED
    BY <2>1, <2>2, <2>3, <2>4 DEF CountersAreUpToDate
<1>9. BagsAreWhole'
  <2> SUFFICES ASSUME NEW v \in Uids \ (overlapped \cup returned')
               PROVE  /\ \A q, r \in Players : uid'[q] = v /\ uid'[r] = v => q = r
                      /\ (\A q \in Players : uid'[q] # v) => given[v] = {}
                      /\ \A q \in Players : uid'[q] = v => given[v] \subseteq Ids(Backpack[q])
                      /\ given[v] \subseteq SavedIds(v)
    <3>1. \A v \in Uids : SavedIds(v)' = SavedIds(v)
      BY <1>2 DEF SavedIds, Ids
    <3> QED
      BY <1>2, <3>1 DEF BagsAreWhole, Ids
  <2>0. v \in Uids \ (overlapped \cup returned)
    BY <1>3
  <2>1. CASE v = u
    <3>1. \A q \in Players : uid[q] # u
      BY <1>3, <2>1
    <3>2. given[u] = {}
      BY <2>0, <2>1, <3>1 DEF DrawInv, BagsAreWhole
    <3> QED
      BY <1>3, <2>1, <3>1, <3>2
  <2>2. CASE v # u
    <3>1. \A q \in Players : uid'[q] = v <=> uid[q] = v
      BY <1>3, <2>2, CardIdTypes
    <3> QED
      BY <2>0, <3>1 DEF DrawInv, BagsAreWhole
  <2> QED
    BY <2>1, <2>2
<1>10. DrawnCardsAreKept'
  <2>1. ASSUME NEW g \in Players, Busy(g)'
        PROVE  /\ draw'[g].at = "save" => draw'[g].fields # <<>>
               /\ UserOf(g)' \notin overlapped' \cup returned' =>
                    /\ draw'[g].at = "append" => draw'[g].bag = Backpack'[Target(g)']
                    /\ draw'[g].at \in {"fields", "save"} =>
                         Held(g)' \subseteq Ids(Backpack[Target(g)])'
                    /\ draw'[g].at = "save" =>
                         Held(g)' \cup given'[UserOf(g)'] \subseteq Ids(draw'[g].fields.bag)
    <3>1. Busy(g) /\ UserOf(g)' = UserOf(g) /\ Target(g)' = Target(g) /\ Held(g)' = Held(g)
      BY <1>4, <1>5, <2>1
    <3>2. Ids(Backpack[Target(g)])' = Ids(Backpack[Target(g)])
      BY <1>2, <3>1 DEF Ids
    <3>3. UserOf(g) \notin returned' => UserOf(g) \notin returned
      BY <1>3
    <3> QED
      BY <1>2, <3>1, <3>2, <3>3 DEF DrawInv, DrawnCardsAreKept
  <2> QED
    BY <2>1 DEF DrawnCardsAreKept, Ids
<1> QED
  BY <1>1, <1>6, <1>7, <1>8, <1>9, <1>10 DEF DrawInv

LEMMA LogoutStep ==
  ASSUME DrawInv, NEW p \in Players, Logout(p)
  PROVE  DrawInv'
<1>1. TypeOK'
  BY LogoutTyped DEF DrawInv
<1>2. UNCHANGED <<users, card_inst_id, uid, DrawCardCount, Backpack, draw,
                  given, dry, overlapped, returned>>
  BY DEF Logout, redisVars, history
<1>3. \A g \in Players : /\ Busy(g)' <=> Busy(g)
                         /\ Target(g)' = Target(g) /\ UserOf(g)' = UserOf(g)
                         /\ Held(g)' = Held(g)
  BY <1>2 DEF Busy, Target, UserOf, Held, Ids
<1>4. TargetsLoggedIn'
  <2>1. \A v \in Uids : uin_player'[v] # Nil => uid'[uin_player'[v]] = v
    <3>1. \A v \in Uids : uin_player'[v] # Nil => uin_player'[v] = uin_player[v]
      BY DEF Logout, DrawInv, TypeOK
    <3> QED
      BY <1>2, <3>1 DEF DrawInv, TargetsLoggedIn
  <2> QED
    BY <1>2, <1>3, <2>1 DEF DrawInv, TargetsLoggedIn
<1>5. CardIdsUnique' /\ IdsAreIssued'
  <2>1. Issued' = Issued
    BY <1>2 DEF Issued
  <2>2. CardIdsUnique'
    BY <1>2, <1>3 DEF DrawInv, CardIdsUnique
  <2>3. IdsAreIssued'
    BY <1>2, <1>3, <2>1 DEF DrawInv, IdsAreIssued
  <2> QED
    BY <2>2, <2>3
<1>6. CountersAreUpToDate'
  BY <1>2, <1>3 DEF DrawInv, CountersAreUpToDate
<1>7. BagsAreWhole'
  BY <1>2, BagsStay DEF DrawInv
<1>8. DrawnCardsAreKept'
  <2>1. \A g \in Players : Ids(Backpack[Target(g)])' = Ids(Backpack[Target(g)])
    BY <1>2, <1>3 DEF Ids
  <2> QED
    BY <1>2, <1>3, <2>1 DEF DrawInv, DrawnCardsAreKept, Ids
<1> QED
  BY <1>1, <1>4, <1>5, <1>6, <1>7, <1>8 DEF DrawInv

LEMMA StutterStep ==
  ASSUME DrawInv, UNCHANGED drawVars
  PROVE  DrawInv'
<1>1. UNCHANGED <<users, card_inst_id, uin_player, uid, DrawCardCount, Backpack, draw,
                  draws, mishaps, given, dry, overlapped, returned>>
  BY DEF drawVars, redisVars, playerVars, counters, history
<1>2. \A g \in Players : /\ Busy(g)' <=> Busy(g)
                         /\ Target(g)' = Target(g) /\ UserOf(g)' = UserOf(g)
                         /\ Held(g)' = Held(g)
  BY <1>1 DEF Busy, Target, UserOf, Held, Ids
<1>3. TypeOK'
  BY <1>1 DEF DrawInv, TypeOK
<1>4. TargetsLoggedIn'
  BY <1>1, <1>2 DEF DrawInv, TargetsLoggedIn
<1>5. CardIdsUnique' /\ IdsAreIssued'
  <2>1. Issued' = Issued
    BY <1>1 DEF Issued
  <2>2. CardIdsUnique'
    BY <1>1, <1>2 DEF DrawInv, CardIdsUnique
  <2>3. IdsAreIssued'
    BY <1>1, <1>2, <2>1 DEF DrawInv, IdsAreIssued
  <2> QED
    BY <2>2, <2>3
<1>6. CountersAreUpToDate'
  BY <1>1, <1>2 DEF DrawInv, CountersAreUpToDate
<1>7. BagsAreWhole'
  BY <1>1, BagsStay DEF DrawInv
<1>8. DrawnCardsAreKept'
  <2>1. \A g \in Players : Ids(Backpack[Target(g)])' = Ids(Backpack[Target(g)])
    BY <1>1, <1>2 DEF Ids
  <2> QED
    BY <1>1, <1>2, <2>1 DEF DrawInv, DrawnCardsAreKept, Ids
<1> QED
  BY <1>3, <1>4, <1>5, <1>6, <1>7, <1>8 DEF DrawInv

(* However logins, logouts and handlers interleave and whichever commands  *)
(* fail, all parts of the invariant hold.                                  *)
THEOREM DrawCorrect == DrawSpec => []DrawInv
<1>1. DrawInv /\ [DrawNext]_drawVars => DrawInv'
  <2> SUFFICES ASSUME DrawInv, [DrawNext]_drawVars
               PROVE  DrawInv'
    OBVIOUS
  <2>1. CASE UNCHANGED drawVars
    BY <2>1, StutterStep
  <2>2. ASSUME NEW h \in Players, HandlerNext(h)
        PROVE  DrawInv'
    <3>1. CASE HandleGetUserInfoRequest(h)
      BY <3>1, InfoEffect, StutterStep DEF DrawInv
    <3> QED
      BY <2>2, <3>1, DrawCardsStep, SelectStep, InitStep, IncrStep, CountStep, ReadStep,
         WriteStep, FieldsStep, SaveStep DEF HandlerNext
  <2> QED
    BY <2>1, <2>2, LoginStep, LogoutStep DEF DrawNext
<1> QED
  BY <1>1, DrawInvInit, PTL DEF DrawSpec

(* Every variable of the drawing of cards keeps its type.                  *)
THEOREM DrawTypeCorrect == DrawSpec => []TypeOK
<1>1. DrawInv => TypeOK
  BY DEF DrawInv
<1> QED
  BY <1>1, DrawCorrect, PTL

(* No two cards have the same id, however many handlers build cards at     *)
(* once and whichever of their commands fail.                              *)
THEOREM CardIdsAreUnique == DrawSpec => []CardIdsUnique
<1>1. DrawInv => CardIdsUnique
  BY DEF DrawInv
<1> QED
  BY <1>1, DrawCorrect, PTL

(* The guaranteed SSR comes after Guarantee cards at the latest for every  *)
(* user for whom no two handlers have drawn at once.                       *)
THEOREM GuaranteeHolds == DrawSpec => []NoLongDrySpell
<1>1. DrawInv => NoLongDrySpell
  BY DEF DrawInv, CountersAreUpToDate, NoLongDrySpell
<1> QED
  BY <1>1, DrawCorrect, PTL

(* What a user was shown is in the bag that is saved for him, unless two   *)
(* handlers drew for him at once, saving failed or he has logged in again. *)
THEOREM ShownIsSaved == DrawSpec => []ShownCardsAreSaved
<1>1. DrawInv => ShownCardsAreSaved
  BY DEF DrawInv, BagsAreWhole, ShownCardsAreSaved
<1> QED
  BY <1>1, DrawCorrect, PTL
=============================================================================
