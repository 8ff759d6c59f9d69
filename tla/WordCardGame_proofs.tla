------------------------- MODULE WordCardGame_proofs -------------------------
(* canInsert decides exactly whether an insertion keeps a sentence; the    *)
(* table of the word card game is a sentence at all times and no card is   *)
(* lost or doubled, for any players, cards, hands and capacity of the      *)
(* command channel.                                                        *)
EXTENDS WordCardGame, FiniteSetTheorems, SequenceTheorems, TLAPS

-----------------------------------------------------------------------------
(* The grammar. *)

(* What an insertion puts where: the words before it stay, those after it  *)
(* move up by one.                                                         *)
LEMMA InsertedWords ==
  ASSUME NEW S, NEW s \in Seq(S), NEW e \in S, NEW i \in 0..Len(s)
  PROVE  /\ Insert(s, e, i) \in Seq(S)
         /\ Len(Insert(s, e, i)) = Len(s) + 1
         /\ \A j \in 1..(Len(s) + 1) :
              Insert(s, e, i)[j] = IF j <= i THEN s[j]
                                   ELSE IF j = i + 1 THEN e
                                   ELSE s[j - 1]
<1> DEFINE a == SubSeq(s, 1, i)
           b == SubSeq(s, i + 1, Len(s))
<1>1. a \in Seq(S) /\ Len(a) = i /\ \A j \in 1..i : a[j] = s[j]
  BY SubSeqProperties
<1>2. b \in Seq(S) /\ Len(b) = Len(s) - i /\ \A j \in 1..(Len(s) - i) : b[j] = s[i + j]
  BY SubSeqProperties
<1>3. Insert(s, e, i) = (a \o <<e>>) \o b
  <2>1. SubSeq(s, 1, (i + 1) - 1) = a
    OBVIOUS
  <2> QED
    BY <2>1 DEF Insert, InsertAt
<1>4. <<e>> \in Seq(S) /\ Len(<<e>>) = 1 /\ <<e>>[1] = e
  OBVIOUS
<1> HIDE DEF a, b
<1>5. /\ a \o <<e>> \in Seq(S) /\ Len(a \o <<e>>) = i + 1
      /\ \A j \in 1..(i + 1) : (a \o <<e>>)[j] = IF j <= i THEN s[j] ELSE e
  BY <1>1, <1>4, ConcatProperties
<1>6. /\ Insert(s, e, i) \in Seq(S) /\ Len(Insert(s, e, i)) = Len(s) + 1
  BY <1>2, <1>3, <1>5, ConcatProperties
<1>7. ASSUME NEW j \in 1..(Len(s) + 1)
      PROVE  Insert(s, e, i)[j] = IF j <= i + 1 THEN (a \o <<e>>)[j] ELSE b[j - (i + 1)]
  BY <1>2, <1>3, <1>5, ConcatProperties
<1>8. ASSUME NEW j \in 1..(Len(s) + 1), j > i + 1
      PROVE  b[j - (i + 1)] = s[j - 1]
  <2>1. j - (i + 1) \in 1..(Len(s) - i) /\ i + (j - (i + 1)) = j - 1
    BY <1>8
  <2> QED
    BY <1>2, <2>1
<1>9. ASSUME NEW j \in 1..(Len(s) + 1)
      PROVE  Insert(s, e, i)[j] = IF j <= i THEN s[j]
                                  ELSE IF j = i + 1 THEN e
                                  ELSE s[j - 1]
  <2>1. CASE j <= i + 1
    <3>1. j \in 1..(i + 1)
      BY <2>1
    <3> QED
      BY <1>5, <1>7, <2>1, <3>1
  <2>2. CASE j > i + 1
    BY <1>7, <1>8, <2>2
  <2> QED
    BY <2>1, <2>2
<1> QED
  BY <1>6, <1>9

(* canInsert accepts a word at a place of a grammatical sentence exactly   *)
(* when the sentence is grammatical with the word at that place.           *)
THEOREM CanInsertExact ==
  ASSUME NEW seq \in Seq(POS), Grammatical(seq),
         NEW pos \in POS, NEW i \in 0..Len(seq)
  PROVE  canInsert(seq, pos, i) <=> Grammatical(Insert(seq, pos, i))
<1> DEFINE t == Insert(seq, pos, i)
<1>0. ASSUME NEW j \in 1..(Len(seq) + 1)
      PROVE  t[j] = IF j <= i THEN seq[j] ELSE IF j = i + 1 THEN pos ELSE seq[j - 1]
  BY InsertedWords, SMTT(20)
<1>1. Len(t) = Len(seq) + 1
  BY InsertedWords, SMTT(20)
<1> HIDE DEF t
<1>2. ASSUME canInsert(seq, pos, i), NEW j \in 1..(Len(t) - 1)
      PROVE  t[j + 1] \in allowedNext[t[j]]
  <2>0. seq # <<>> => /\ i > 0 => pos \in allowedNext[seq[i]]
                      /\ i < Len(seq) => seq[i + 1] \in allowedNext[pos]
    BY <1>2 DEF canInsert
  <2>1. CASE j < i
    BY <1>0, <1>1, <2>1 DEF Grammatical
  <2>2. CASE j = i
    <3>1. seq # <<>> /\ i > 0 /\ t[j] = seq[i] /\ t[j + 1] = pos
      BY <1>0, <1>1, <2>2
    <3> QED
      BY <2>0, <3>1
  <2>3. CASE j = i + 1
    <3>1. seq # <<>> /\ i < Len(seq) /\ t[j] = pos /\ t[j + 1] = seq[i + 1]
      BY <1>0, <1>1, <2>3
    <3> QED
      BY <2>0, <3>1
  <2>4. CASE j > i + 1
    <3>1. t[j] = seq[j - 1] /\ t[j + 1] = seq[(j - 1) + 1]
      BY <1>0, <1>1, <2>4
    <3> QED
      BY <1>0, <1>1, <2>4, <3>1 DEF Grammatical
  <2> QED
    BY <2>1, <2>2, <2>3, <2>4
<1>3. ASSUME Grammatical(t), i > 0
      PROVE  pos \in allowedNext[seq[i]]
  <2>1. i \in 1..(Len(t) - 1) /\ t[i] = seq[i] /\ t[i + 1] = pos
    BY <1>0, <1>1, <1>3
  <2> QED
    BY <1>3, <2>1 DEF Grammatical
<1>4. ASSUME Grammatical(t), i < Len(seq)
      PROVE  seq[i + 1] \in allowedNext[pos]
  <2>1. /\ i + 1 \in 1..(Len(t) - 1)
        /\ t[i + 1] = pos /\ t[(i + 1) + 1] = seq[i + 1]
    BY <1>0, <1>1, <1>4
  <2> QED
    BY <1>4, <2>1 DEF Grammatical
<1>5. canInsert(seq, pos, i) => Grammatical(t)
  BY <1>2 DEF Grammatical
<1>6. Grammatical(t) => canInsert(seq, pos, i)
  BY <1>3, <1>4 DEF canInsert
<1> QED
  BY <1>5, <1>6 DEF t
(* The card, or the part of speech, at each place after an insertion. *)
LEMMA InsertedCard ==
  \A s \in Seq(Cards), e \in Cards : \A i \in 0..Len(s) :
    \A j \in 1..(Len(s) + 1) :
      Insert(s, e, i)[j] = IF j <= i THEN s[j]
                           ELSE IF j = i + 1 THEN e ELSE s[j - 1]
BY InsertedWords, SMTT(20)

LEMMA InsertedPOS ==
  \A s \in Seq(POS), e \in POS : \A i \in 0..Len(s) :
    \A j \in 1..(Len(s) + 1) :
      Insert(s, e, i)[j] = IF j <= i THEN s[j]
                           ELSE IF j = i + 1 THEN e ELSE s[j - 1]
BY InsertedWords, SMTT(20)

(* Inserting a card into the table and its part of speech into POSSeq at   *)
(* the same place keeps the one the description of the other.              *)
LEMMA InsertKeepsMirror ==
  ASSUME NEW t \in Seq(Cards), NEW s \in Seq(POS), Len(s) = Len(t),
         \A k \in 1..Len(t) : s[k] = PosOf[t[k]],
         NEW i \in 0..Len(t), NEW c \in Cards
  PROVE  /\ Insert(t, c, i) \in Seq(Cards)
         /\ Insert(s, PosOf[c], i)
              = [k \in DOMAIN Insert(t, c, i) |-> PosOf[Insert(t, c, i)[k]]]
<1> USE WordCardGameAssumption
<1> DEFINE T == Insert(t, c, i)
           S == Insert(s, PosOf[c], i)
<1>0. PosOf[c] \in POS
  OBVIOUS
<1>1. T \in Seq(Cards) /\ Len(T) = Len(t) + 1
  BY InsertedWords, SMTT(20)
<1>2. S \in Seq(POS) /\ Len(S) = Len(t) + 1
  BY <1>0, InsertedWords, SMTT(20)
<1>3. ASSUME NEW j \in 1..(Len(t) + 1)
      PROVE  S[j] = PosOf[T[j]]
  <2>1. T[j] = IF j <= i THEN t[j] ELSE IF j = i + 1 THEN c ELSE t[j - 1]
    BY InsertedCard
  <2>2. S[j] = IF j <= i THEN s[j] ELSE IF j = i + 1 THEN PosOf[c] ELSE s[j - 1]
    BY <1>0, InsertedPOS
  <2> HIDE DEF T, S
  <2> QED
    BY <2>1, <2>2, SMTT(30)
<1> HIDE DEF T, S
<1>4. S = [k \in 1..(Len(t) + 1) |-> S[k]]
  BY <1>2
<1>5. S = [k \in DOMAIN T |-> PosOf[T[k]]]
  BY <1>1, <1>3, <1>4
<1> QED
  BY <1>1, <1>5 DEF T, S

-----------------------------------------------------------------------------
(* Counting the cards of a bag. *)

(* Copies a to b of one card. *)
LEMMA SliceCounted ==
  ASSUME NEW x, NEW a \in Nat, NEW b \in Nat, b + 1 >= a
  PROVE  /\ IsFiniteSet({x} \X (a..b))
         /\ Cardinality({x} \X (a..b)) = (b - a) + 1
<1> DEFINE T == a..b
<1>1. IsFiniteSet(T) /\ Cardinality(T) = IF a > b THEN 0 ELSE (b - a) + 1
  <2>1. a \in Int /\ b \in Int
    OBVIOUS
  <2> QED
    BY <2>1, FS_Interval
<1>2. IsFiniteSet({x}) /\ Cardinality({x}) = 1
  BY FS_Singleton
<1> HIDE DEF T
<1>3. IsFiniteSet({x} \X T) /\ Cardinality({x} \X T) = Cardinality({x}) * Cardinality(T)
  BY <1>1, <1>2, FS_Product
<1>4. Cardinality(T) = (b - a) + 1
  BY <1>1
<1>5. Cardinality({x} \X T) = (b - a) + 1
  BY <1>2, <1>3, <1>4
<1> QED
  BY <1>3, <1>5 DEF T

LEMMA PileIsFinite ==
  ASSUME NEW S, IsFiniteSet(S), NEW f \in [S -> Nat]
  PROVE  IsFiniteSet(Pile(f)) /\ Total(f) \in Nat
<1> DEFINE slice == [x \in S |-> {x} \X (1..f[x])]
           slices == {{x} \X (1..f[x]) : x \in S}
<1>1. IsFiniteSet(slices)
  <2>1. slice \in Surjection(S, slices)
    BY DEF Surjection
  <2> QED
    BY <2>1, FS_Surjection
<1>2. ASSUME NEW x \in S
      PROVE  IsFiniteSet({x} \X (1..f[x]))
  <2>1. f[x] \in Nat
    OBVIOUS
  <2>2. 1 \in Nat /\ f[x] + 1 >= 1
    BY <2>1
  <2> QED
    BY <2>1, <2>2, SliceCounted
<1>3. IsFiniteSet(UNION slices)
  BY <1>1, <1>2, FS_UNION
<1>4. Pile(f) = UNION slices
  BY DEF Pile
<1> QED
  BY <1>3, <1>4, FS_CardinalityType DEF Total

(* A bag with n more of one card holds n cards more. *)
LEMMA TotalGrows ==
  ASSUME NEW S, IsFiniteSet(S), NEW f \in [S -> Nat], NEW g \in [S -> Nat],
         NEW x \in S, NEW n \in Nat, g[x] = f[x] + n,
         \A y \in S : y # x => g[y] = f[y]
  PROVE  Total(g) = Total(f) + n
<1> DEFINE more == {x} \X ((f[x] + 1)..(f[x] + n))
<1>2. Pile(g) = Pile(f) \cup more
  <2>1. 1..g[x] = (1..f[x]) \cup ((f[x] + 1)..(f[x] + n))
    <3>1. f[x] \in Nat
      OBVIOUS
    <3> QED
      BY <3>1
  <2>2. DOMAIN g = S /\ DOMAIN f = S
    OBVIOUS
  <2> QED
    BY <2>1, <2>2 DEF Pile
<1>3. IsFiniteSet(more) /\ Cardinality(more) = n
  <2>1. f[x] \in Nat
    OBVIOUS
  <2>2. f[x] + 1 \in Nat /\ f[x] + n \in Nat /\ (f[x] + n) + 1 >= f[x] + 1
        /\ ((f[x] + n) - (f[x] + 1)) + 1 = n
    BY <2>1
  <2> QED
    BY <2>2, SliceCounted
<1>4. Pile(f) \cap more = {}
  <2> SUFFICES ASSUME NEW k \in 1..f[x], k \in (f[x] + 1)..(f[x] + n)
               PROVE  FALSE
    BY DEF Pile
  <2>1. f[x] \in Nat
    OBVIOUS
  <2> QED
    BY <2>1
<1>5. IsFiniteSet(Pile(f)) /\ Total(f) \in Nat
  BY PileIsFinite
<1>6. Cardinality(Pile(g)) = Cardinality(Pile(f)) + n - Cardinality({})
  <2> HIDE DEF more
  <2> QED
    BY <1>2, <1>3, <1>4, <1>5, FS_Union DEF Total
<1> QED
  BY <1>5, <1>6, FS_EmptySet DEF Total

-----------------------------------------------------------------------------
(* The inductive invariant. *)

LEMMA PlayersCounted ==
  /\ IsFiniteSet(Players) /\ IsFiniteSet(Cards)
  /\ Cardinality(Players) \in Nat /\ Cardinality(Players) >= 2
  /\ Copies \in Nat /\ HandSize \in Nat /\ MaxGames \in Nat /\ CmdCap \in Nat
BY WordCardGameAssumption, FS_CardinalityType

(* Table and POSSeq are as long as each other. *)
LEMMA MirrorTyped ==
  ASSUME TypeOK, SentenceIsGrammatical
  PROVE  /\ POSSeq \in Seq(POS) /\ Len(POSSeq) = Len(Table)
         /\ \A k \in 1..Len(Table) : POSSeq[k] = PosOf[Table[k]]
<1>1. POSSeq \in [1..Len(Table) -> POS]
  <2>1. Table \in Seq(Cards)
    BY DEF TypeOK
  <2> QED
    BY <2>1, WordCardGameAssumption DEF SentenceIsGrammatical
<1>2. Table \in Seq(Cards) /\ POSSeq \in Seq(POS)
  BY DEF TypeOK
<1> QED
  BY <1>1, <1>2 DEF SentenceIsGrammatical

LEMMA GameInit == Init => GameInv
<1> SUFFICES ASSUME Init PROVE GameInv
  OBVIOUS
<1>1. TypeOK
  BY PlayersCounted DEF Init, TypeOK, NoCards
<1>2. SentenceIsGrammatical
  BY DEF Init, SentenceIsGrammatical, Grammatical
<1>3. TableHasItsPlayer
  BY DEF Init, TableHasItsPlayer
<1> QED
  BY <1>1, <1>2, <1>3 DEF GameInv

(* A step that leaves the table alone keeps its words a sentence. *)
LEMMA TableUnchanged ==
  ASSUME SentenceIsGrammatical, TableHasItsPlayer,
         UNCHANGED <<Table, POSSeq, LastPlayed>>
  PROVE  SentenceIsGrammatical' /\ TableHasItsPlayer'
BY DEF SentenceIsGrammatical, TableHasItsPlayer

(* What is dealt never exceeds the copies there are, so the deck is left   *)
(* with the rest.                                                          *)
LEMMA DealTyped ==
  ASSUME NEW h \in Deals
  PROVE  /\ h \in [Players -> [Cards -> 0..Copies]]
         /\ [c \in Cards |-> Copies - Total([p \in Players |-> h[p][c]])]
              \in [Cards -> 0..Copies]
<1>1. /\ h \in [Players -> [Cards -> 0..Copies]]
      /\ \A c \in Cards : Total([p \in Players |-> h[p][c]]) <= Copies
  BY DEF Deals
<1>2. ASSUME NEW c \in Cards
      PROVE  Copies - Total([p \in Players |-> h[p][c]]) \in 0..Copies
  <2>1. [p \in Players |-> h[p][c]] \in [Players -> Nat]
    BY <1>1, PlayersCounted
  <2>2. Total([p \in Players |-> h[p][c]]) \in Nat
    BY <2>1, PlayersCounted, PileIsFinite
  <2> QED
    BY <1>1, <2>2, PlayersCounted
<1> QED
  BY <1>1, <1>2

LEMMA StartGameStep ==
  ASSUME GameInv, StartGame
  PROVE  GameInv'
<1>1. TypeOK'
  <2>1. Hand' \in [Players -> [Cards -> 0..Copies]] /\ Deck' \in [Cards -> 0..Copies]
    <3>1. PICK h \in Deals : /\ Hand' = h
                             /\ Deck' = [c \in Cards |-> Copies - Total([p \in Players |-> h[p][c]])]
      BY DEF StartGame
    <3> QED
      BY <3>1, DealTyped
  <2>2. games' \in 0..MaxGames
    BY PlayersCounted DEF StartGame, GameInv, TypeOK
  <2> QED
    BY <2>1, <2>2, PlayersCounted DEF StartGame, GameInv, TypeOK
<1>2. SentenceIsGrammatical' /\ TableHasItsPlayer'
  BY TableUnchanged DEF StartGame, GameInv
<1> QED
  BY <1>1, <1>2 DEF GameInv

LEMMA SubmitStep ==
  ASSUME GameInv, NEW cmd \in Command, Submit(cmd)
  PROVE  GameInv'
<1>1. CmdChan' \in Seq(Command) /\ Len(CmdChan') <= CmdCap
  BY PlayersCounted DEF Submit, GameInv, TypeOK
<1>2. TypeOK'
  BY <1>1 DEF Submit, piles, GameInv, TypeOK
<1>3. SentenceIsGrammatical' /\ TableHasItsPlayer'
  BY TableUnchanged DEF Submit, piles, GameInv
<1> QED
  BY <1>2, <1>3 DEF GameInv

LEMMA ReceiveTyped ==
  ASSUME TypeOK, NEW type, Receive(type)
  PROVE  /\ Head(CmdChan) \in Command /\ Head(CmdChan).type = type
         /\ CmdChan' \in Seq(Command) /\ Len(CmdChan') <= CmdCap
<1>1. CmdChan \in Seq(Command) /\ Len(CmdChan) <= CmdCap
  BY DEF TypeOK
<1>2. CmdChan # <<>> /\ Head(CmdChan).type = type /\ CmdChan' = Tail(CmdChan)
  BY DEF Receive
<1> QED
  BY <1>1, <1>2, PlayersCounted

LEMMA IgnoredStep ==
  ASSUME GameInv, PlaceCardIgnored
  PROVE  GameInv'
<1>1. CmdChan' \in Seq(Command) /\ Len(CmdChan') <= CmdCap
  BY ReceiveTyped DEF PlaceCardIgnored, GameInv
<1>2. TypeOK'
  BY <1>1 DEF PlaceCardIgnored, piles, GameInv, TypeOK
<1>3. SentenceIsGrammatical' /\ TableHasItsPlayer'
  BY TableUnchanged DEF PlaceCardIgnored, piles, GameInv
<1> QED
  BY <1>2, <1>3 DEF GameInv

LEMMA PanicStep ==
  ASSUME GameInv, PlaceCardPanics
  PROVE  GameInv'
<1>1. CmdChan' \in Seq(Command) /\ Len(CmdChan') <= CmdCap
  BY ReceiveTyped DEF PlaceCardPanics, GameInv
<1>2. TypeOK'
  BY <1>1 DEF PlaceCardPanics, piles, GameInv, TypeOK
<1>3. SentenceIsGrammatical' /\ TableHasItsPlayer'
  BY TableUnchanged DEF PlaceCardPanics, piles, GameInv
<1> QED
  BY <1>2, <1>3 DEF GameInv

LEMMA PlaceCardStep ==
  ASSUME GameInv, PlaceCard
  PROVE  GameInv'
<1> DEFINE i == Head(CmdChan).target
<1>1. /\ Head(CmdChan) \in Command /\ Head(CmdChan).type = "PLACE_CARD"
      /\ CmdChan' \in Seq(Command) /\ Len(CmdChan') <= CmdCap
  BY ReceiveTyped DEF PlaceCard, GameInv
<1>2. i \in Nat /\ Head(CmdChan).player \in Players
  BY <1>1 DEF Command
<1>3. PICK p \in Players, c \in Cards : Hand[p][c] > 0 /\ playCard(p, c, i)
  BY <1>2 DEF PlaceCard
<1>4. POSSeq \in Seq(POS) /\ Len(POSSeq) = Len(Table) /\ PosOf[c] \in POS
      /\ Table \in Seq(Cards) /\ \A k \in 1..Len(Table) : POSSeq[k] = PosOf[Table[k]]
  BY MirrorTyped, WordCardGameAssumption DEF GameInv, TypeOK
<1>5. i \in 0..Len(Table)
  BY <1>2, <1>4 DEF PlaceCard, Panics
<1> HIDE DEF i
<1>6. /\ Table' \in Seq(Cards)
      /\ POSSeq' = [k \in DOMAIN Table' |-> PosOf[Table'[k]]]
  <2>1. /\ Insert(Table, c, i) \in Seq(Cards)
        /\ Insert(POSSeq, PosOf[c], i)
             = [k \in DOMAIN Insert(Table, c, i) |-> PosOf[Insert(Table, c, i)[k]]]
    <3>1. Table \in Seq(Cards) /\ POSSeq \in Seq(POS) /\ Len(POSSeq) = Len(Table)
      BY <1>4
    <3>2. \A k \in 1..Len(Table) : POSSeq[k] = PosOf[Table[k]]
      BY <1>4
    <3> QED
      BY <1>5, <3>1, <3>2, InsertKeepsMirror, SMTT(30)
  <2> QED
    BY <1>3, <2>1 DEF playCard
<1>7. POSSeq' \in Seq(POS)
  BY <1>3, <1>4, <1>5, InsertedWords, SMTT(20) DEF playCard
<1>8. Grammatical(POSSeq')
  BY <1>3, <1>4, <1>5, CanInsertExact DEF playCard, GameInv, SentenceIsGrammatical
<1>9. Hand' \in [Players -> [Cards -> 0..Copies]]
  <2>1. Hand \in [Players -> [Cards -> 0..Copies]]
    BY DEF GameInv, TypeOK
  <2>2. Hand[p][c] - 1 \in 0..Copies
    BY <1>3, <2>1, PlayersCounted
  <2> QED
    BY <1>3, <2>1, <2>2 DEF playCard
<1>10. TypeOK'
  <2>1. PassCount' \in 0..(Cardinality(Players) - 1)
    BY <1>3, PlayersCounted DEF playCard
  <2> QED
    BY <1>1, <1>3, <1>6, <1>7, <1>9, <2>1 DEF PlaceCard, playCard, Receive, GameInv, TypeOK
<1>11. TableHasItsPlayer'
  BY <1>3 DEF playCard, TableHasItsPlayer
<1> QED
  BY <1>6, <1>8, <1>10, <1>11 DEF GameInv, SentenceIsGrammatical

(* The score of the player who played last grows by the cards of the       *)
(* table.                                                                  *)
LEMMA SkipTurnStep ==
  ASSUME GameInv, SkipTurn
  PROVE  GameInv'
<1>1. CmdChan' \in Seq(Command) /\ Len(CmdChan') <= CmdCap
  BY ReceiveTyped DEF SkipTurn, GameInv
<1>2. PassCount' \in 0..(Cardinality(Players) - 1)
  BY PlayersCounted DEF SkipTurn, GameInv, TypeOK
<1>3. CASE UNCHANGED piles
  <2>1. TypeOK'
    BY <1>1, <1>2, <1>3 DEF SkipTurn, Receive, piles, GameInv, TypeOK
  <2>2. SentenceIsGrammatical' /\ TableHasItsPlayer'
    BY <1>3, TableUnchanged DEF SkipTurn, piles, GameInv
  <2> QED
    BY <2>1, <2>2 DEF GameInv
<1>4. CASE scoreAndReset /\ UNCHANGED <<Hand, Deck>>
  <2>1. Score' \in [Players -> Nat]
    <3>1. Table \in Seq(Cards) /\ Score \in [Players -> Nat]
      BY DEF GameInv, TypeOK
    <3>2. Len(Table) \in Nat
      BY <3>1
    <3> QED
      BY <1>4, <3>1, <3>2 DEF scoreAndReset
  <2>2. TypeOK'
    BY <1>1, <1>2, <1>4, <2>1 DEF scoreAndReset, SkipTurn, Receive, GameInv, TypeOK
  <2>3. SentenceIsGrammatical' /\ TableHasItsPlayer'
    BY <1>4 DEF scoreAndReset, SentenceIsGrammatical, Grammatical, TableHasItsPlayer
  <2> QED
    BY <2>2, <2>3 DEF GameInv
<1> QED
  BY <1>3, <1>4 DEF SkipTurn

LEMMA EndGameStep ==
  ASSUME GameInv, EndGame
  PROVE  GameInv'
<1>1. TypeOK'
  BY DEF EndGame, piles, GameInv, TypeOK
<1>2. SentenceIsGrammatical' /\ TableHasItsPlayer'
  BY TableUnchanged DEF EndGame, piles, GameInv
<1> QED
  BY <1>1, <1>2 DEF GameInv

(* Every step of the room's goroutine and of the players keeps the words   *)
(* on the table a sentence, and every card counted.                        *)
THEOREM GameCorrect == Spec => []GameInv
<1>1. GameInv /\ [Next]_vars => GameInv'
  <2> SUFFICES ASSUME GameInv, [Next]_vars
               PROVE  GameInv'
    OBVIOUS
  <2>1. CASE UNCHANGED vars
    <3>1. TypeOK'
      BY <2>1 DEF vars, piles, GameInv, TypeOK
    <3>2. SentenceIsGrammatical' /\ TableHasItsPlayer'
      BY <2>1, TableUnchanged DEF vars, piles, GameInv
    <3> QED
      BY <3>1, <3>2 DEF GameInv
  <2>2. ASSUME NEW p \in Players, SubmitPlaceCard(p)
        PROVE  GameInv'
    <3>1. PICK i \in 0..Len(Table) :
            Submit([player |-> p, type |-> "PLACE_CARD", target |-> i])
      BY <2>2 DEF SubmitPlaceCard
    <3>2. [player |-> p, type |-> "PLACE_CARD", target |-> i] \in Command
      BY DEF Command
    <3> QED
      BY <3>1, <3>2, SubmitStep
  <2>3. ASSUME NEW p \in Players, SubmitSkipTurn(p)
        PROVE  GameInv'
    <3>1. [player |-> p, type |-> "SKIP_TURN"] \in Command
      BY DEF Command
    <3> QED
      BY <2>3, <3>1, SubmitStep DEF SubmitSkipTurn
  <2> QED
    BY <2>1, <2>2, <2>3, StartGameStep, IgnoredStep, PlaceCardStep, PanicStep,
       SkipTurnStep, EndGameStep DEF Next, HandleCommand
<1> QED
  BY <1>1, GameInit, PTL DEF Spec

(* Every variable keeps its type: no hand ever holds fewer than no copies  *)
(* of a card, and a round ends before everybody has passed twice.          *)
THEOREM TypeCorrect == Spec => []TypeOK
<1>1. GameInv => TypeOK
  BY DEF GameInv
<1> QED
  BY <1>1, GameCorrect, PTL

(* Whatever cards are inserted wherever, in whatever order the commands    *)
(* are handled, the table reads as a sentence and POSSeq describes it.     *)
THEOREM TableIsASentence == Spec => []SentenceIsGrammatical
<1>1. GameInv => SentenceIsGrammatical
  BY DEF GameInv
<1> QED
  BY <1>1, GameCorrect, PTL

(* canInsert refuses exactly the words and places that would break the     *)
(* sentence on the table.                                                  *)
THEOREM RefusesExactlyTheUngrammatical == Spec => []CanInsertIsExact
<1>1. GameInv => CanInsertIsExact
  <2> SUFFICES ASSUME GameInv, NEW pos \in POS, NEW i \in 0..Len(POSSeq)
               PROVE  canInsert(POSSeq, pos, i) <=> Grammatical(Insert(POSSeq, pos, i))
    BY DEF CanInsertIsExact
  <2>1. POSSeq \in Seq(POS)
    BY DEF GameInv, TypeOK
  <2>2. Grammatical(POSSeq)
    BY DEF GameInv, SentenceIsGrammatical
  <2> QED
    BY <2>1, <2>2, CanInsertExact
<1> QED
  BY <1>1, GameCorrect, PTL
-----------------------------------------------------------------------------
(* No card is lost. *)

(* What InPlay adds up, all of it finite. *)
LEMMA Counted ==
  ASSUME TypeOK
  PROVE  /\ Total(Deck) \in Nat /\ Total(Score) \in Nat /\ Len(Table) \in Nat
         /\ \A p \in Players : /\ Hand[p] \in [Cards -> Nat]
                               /\ Total(Hand[p]) \in Nat
         /\ [p \in Players |-> Total(Hand[p])] \in [Players -> Nat]
         /\ Total([p \in Players |-> Total(Hand[p])]) \in Nat
<1>1. Deck \in [Cards -> Nat] /\ Score \in [Players -> Nat] /\ Table \in Seq(Cards)
  BY PlayersCounted DEF TypeOK
<1>2. Total(Deck) \in Nat /\ Total(Score) \in Nat
  BY <1>1, PlayersCounted, PileIsFinite
<1>3. ASSUME NEW p \in Players
      PROVE  Hand[p] \in [Cards -> Nat] /\ Total(Hand[p]) \in Nat
  <2>1. Hand[p] \in [Cards -> Nat]
    BY PlayersCounted DEF TypeOK
  <2> QED
    BY <2>1, PlayersCounted, PileIsFinite
<1>4. [p \in Players |-> Total(Hand[p])] \in [Players -> Nat]
  BY <1>3
<1>5. Total([p \in Players |-> Total(Hand[p])]) \in Nat
  BY <1>4, PlayersCounted, PileIsFinite
<1> QED
  BY <1>1, <1>2, <1>3, <1>4, <1>5

(* A card that is played leaves the hand and lies on the table. *)
LEMMA PlaceCardConserves ==
  ASSUME GameInv, PlaceCard
  PROVE  InPlay' = InPlay
<1> DEFINE i == Head(CmdChan).target
<1>1. Head(CmdChan) \in Command /\ Head(CmdChan).type = "PLACE_CARD"
  BY ReceiveTyped DEF PlaceCard, GameInv
<1>2. i \in Nat /\ Head(CmdChan).player \in Players
  BY <1>1 DEF Command
<1>3. PICK p \in Players, c \in Cards : Hand[p][c] > 0 /\ playCard(p, c, i)
  BY <1>2 DEF PlaceCard
<1>4. Table \in Seq(Cards) /\ Len(POSSeq) = Len(Table)
  BY MirrorTyped DEF GameInv, TypeOK
<1>5. i \in 0..Len(Table)
  BY <1>2, <1>4 DEF PlaceCard, Panics
<1> HIDE DEF i
<1>6. Len(Table') = Len(Table) + 1
  BY <1>3, <1>4, <1>5, InsertedWords, SMTT(20) DEF playCard
<1>7. PICK sizes \in [Players -> Nat], sizesAfter \in [Players -> Nat] :
        /\ sizes = [q \in Players |-> Total(Hand[q])]
        /\ sizesAfter = [q \in Players |-> Total(Hand'[q])]
  <2>1. TypeOK /\ TypeOK'
    BY PlaceCardStep DEF GameInv
  <2>2. [q \in Players |-> Total(Hand[q])] \in [Players -> Nat]
    BY <2>1, Counted
  <2>3. [q \in Players |-> Total(Hand'[q])] \in [Players -> Nat]
    <3>1. ASSUME NEW q \in Players
          PROVE  Total(Hand'[q]) \in Nat
      <4>1. Hand'[q] \in [Cards -> Nat]
        BY <2>1, PlayersCounted DEF TypeOK
      <4> QED
        BY <4>1, PlayersCounted, PileIsFinite
    <3> QED
      BY <3>1
  <2> QED
    BY <2>2, <2>3
<1>8. PICK held \in [Cards -> Nat] : held = Hand[p] /\ held[c] > 0
  BY <1>3, Counted DEF GameInv
<1>9. PICK heldAfter \in [Cards -> Nat] :
        heldAfter = Hand'[p] /\ Total(held) = Total(heldAfter) + 1
  <2>1. Hand'[p] \in [Cards -> Nat]
    <3>1. Hand' \in [Players -> [Cards -> 0..Copies]]
      BY PlaceCardStep DEF GameInv, TypeOK
    <3> QED
      BY <3>1, PlayersCounted
  <2>2. Hand \in [Players -> [Cards -> Nat]]
    BY PlayersCounted DEF GameInv, TypeOK
  <2>3. held[c] = Hand'[p][c] + 1 /\ \A y \in Cards : y # c => held[y] = Hand'[p][y]
    BY <1>3, <1>8, <2>2 DEF playCard
  <2> QED
    BY <2>1, <2>3, PlayersCounted, TotalGrows
<1>10. \A q \in Players : q # p => Hand'[q] = Hand[q]
  BY <1>3 DEF playCard, GameInv, TypeOK
<1>11. sizes[p] = sizesAfter[p] + 1
       /\ \A q \in Players : q # p => sizes[q] = sizesAfter[q]
  BY <1>7, <1>8, <1>9, <1>10
<1>12. Total(sizes) = Total(sizesAfter) + 1
  BY <1>11, PlayersCounted, TotalGrows
<1>13. Deck' = Deck /\ Score' = Score
  BY DEF PlaceCard
<1>14. /\ Total(Deck) \in Nat /\ Total(Score) \in Nat /\ Len(Table) \in Nat
       /\ Total(sizes) \in Nat /\ Total(sizesAfter) \in Nat
  BY Counted, PlayersCounted, PileIsFinite DEF GameInv
<1>15. InPlay = ((Total(Deck) + Total(sizes)) + Len(Table)) + Total(Score)
  BY <1>7 DEF InPlay
<1>16. InPlay' = ((Total(Deck) + Total(sizesAfter)) + Len(Table')) + Total(Score)
  BY <1>7, <1>13 DEF InPlay
<1> QED
  BY <1>6, <1>12, <1>14, <1>15, <1>16

(* The cards of a round that is over are in the score of the player who    *)
(* played last.                                                            *)
LEMMA SkipTurnConserves ==
  ASSUME GameInv, SkipTurn
  PROVE  InPlay' = InPlay
<1>1. CASE UNCHANGED piles
  BY <1>1 DEF piles, InPlay
<1>2. CASE scoreAndReset /\ UNCHANGED <<Hand, Deck>>
  <2>1. PICK before \in [Players -> Nat], n \in Nat :
          before = Score /\ n = Len(Table) /\ (n # 0 => LastPlayed \in Players)
    <3>1. Score \in [Players -> Nat] /\ Table \in Seq(Cards)
      BY DEF GameInv, TypeOK
    <3> QED
      BY <3>1 DEF GameInv, TableHasItsPlayer
  <2>2. Len(Table') = 0
    BY <1>2 DEF scoreAndReset
  <2>3. Total(Score') = Total(before) + n
    <3>1. CASE LastPlayed \in Players
      <4>1. PICK after \in [Players -> Nat] : after = Score'
        BY SkipTurnStep DEF GameInv, TypeOK
      <4>2. after[LastPlayed] = before[LastPlayed] + n
            /\ \A y \in Players : y # LastPlayed => after[y] = before[y]
        BY <1>2, <2>1, <3>1, <4>1 DEF scoreAndReset
      <4> QED
        BY <3>1, <4>1, <4>2, PlayersCounted, TotalGrows
    <3>2. CASE LastPlayed \notin Players
      <4>1. n = 0 /\ Score' = [p \in Players |-> before[p]]
        BY <1>2, <2>1, <3>2 DEF scoreAndReset
      <4> QED
        BY <4>1, PlayersCounted, PileIsFinite
    <3> QED
      BY <3>1, <3>2
  <2>4. PICK rest \in Nat :
          rest = Total(Deck) + Total([p \in Players |-> Total(Hand[p])])
    <3> DEFINE t == [p \in Players |-> Total(Hand[p])]
    <3>1. Total(Deck) \in Nat /\ Total(t) \in Nat
      BY Counted DEF GameInv
    <3> HIDE DEF t
    <3>2. Total(Deck) + Total(t) \in Nat
      BY <3>1
    <3> QED
      BY <3>2 DEF t
  <2>5. InPlay = (rest + n) + Total(before)
    BY <2>1, <2>4 DEF InPlay
  <2>6. InPlay' = (rest + Len(Table')) + Total(Score')
    BY <1>2, <2>4 DEF InPlay
  <2>7. Total(before) \in Nat
    BY PlayersCounted, PileIsFinite
  <2> QED
    BY <2>2, <2>3, <2>5, <2>6, <2>7
<1> QED
  BY <1>1, <1>2 DEF SkipTurn

(* While a game lasts, no card appears twice and none is lost: what is in  *)
(* the deck, in the hands, on the table and in the scores adds up to the   *)
(* same at all times, however the players' commands are interleaved.       *)
THEOREM NoCardIsLost == Spec => CardsConserved
<1>1. ASSUME GameInv, Next, games' = games
      PROVE  InPlay' = InPlay
  <2>1. CASE StartGame
    BY <1>1, <2>1 DEF StartGame, GameInv, TypeOK
  <2>2. ASSUME NEW p \in Players, SubmitPlaceCard(p) \/ SubmitSkipTurn(p)
        PROVE  InPlay' = InPlay
    BY <2>2 DEF SubmitPlaceCard, SubmitSkipTurn, Submit, piles, InPlay
  <2>3. CASE PlaceCardIgnored
    BY <2>3 DEF PlaceCardIgnored, piles, InPlay
  <2>4. CASE PlaceCardPanics
    BY <2>4 DEF PlaceCardPanics, piles, InPlay
  <2>5. CASE EndGame
    BY <2>5 DEF EndGame, piles, InPlay
  <2> QED
    BY <1>1, <2>1, <2>2, <2>3, <2>4, <2>5, PlaceCardConserves, SkipTurnConserves
    DEF Next, HandleCommand
<1>2. GameInv /\ [Next]_vars => [games' = games => InPlay' = InPlay]_vars
  BY <1>1
<1> QED
  BY <1>2, GameCorrect, PTL DEF Spec, CardsConserved
=============================================================================
