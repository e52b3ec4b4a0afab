------------------------- MODULE PaperTradeProofs -------------------------
(***************************************************************************)
(* Theorems about SimulatedBookmaker and about PaperTrade, whose process   *)
(* owns such a book, for any markets, stakes, topics and disruptions.      *)
(***************************************************************************)
EXTENDS PaperTrade, FiniteSetTheorems, SequenceTheorems, TLAPS

-----------------------------------------------------------------------------
(* The book: its inductive invariant *)

\* No two stored offers share a number, and none is that of a filled offer.
OffersNumbered ==
    \A o \in offers :
        /\ o.id <= betCounter
        /\ \A p \in offers : o.id = p.id => o = p
        /\ \A f \in fills : f.offer # o.id

FillsNumbered == \A f \in fills : f.bet <= betCounter /\ f.offer <= betCounter

\* The account is limited as soon as the last allowed win is recorded.
Limited == WinLimitN > 0 /\ winCount >= WinLimitN => maxStake = MaxStakeFloor

BookInv ==
    /\ BookTypeOK
    /\ OffersNumbered
    /\ FillsNumbered
    /\ Limited
    /\ FillsApart

-----------------------------------------------------------------------------
(* The book: facts about its operators *)

LEMMA DivNat ==
    ASSUME NEW a \in Nat, NEW b \in Nat \ {0} PROVE a \div b \in Nat
  OBVIOUS

\* Odds and moved probabilities stay in their range.
LEMMA OddsType ==
    ASSUME NEW p \in 0 .. Scale - 1 PROVE OddsForProb(p) \in Nat
<1>1. CASE p <= 0
  BY <1>1, BookConstants DEF OddsForProb
<1>2. CASE p > 0
  <2> DEFINE a == Scale * Scale * 100
             b == p * (100 + MarginPct)
  <2>1. a \in Nat
    BY BookConstants
  <2>2. b \in Nat \ {0}
    <3>1. p \in Nat \ {0} /\ 100 + MarginPct \in Nat \ {0}
      BY <1>2, BookConstants
    <3> QED BY <3>1
  <2> HIDE DEF a, b
  <2>3. a \div b \in Nat
    BY <2>1, <2>2, DivNat
  <2> QED BY <1>2, <2>3 DEF OddsForProb, a, b
<1> QED BY <1>1, <1>2, BookConstants

LEMMA MovedType ==
    ASSUME NEW p \in 0 .. Scale - 1 \union {Unset}, p # Unset, NEW stake \in Nat
    PROVE  Moved(p, stake) \in 0 .. Scale - 1
<1> DEFINE a == Scale * stake
           b == stake + Liquidity
<1>1. a \in Nat /\ b \in Nat \ {0}
  BY BookConstants
<1> HIDE DEF a, b
<1>2. a \div b \in Nat
  BY <1>1, DivNat
<1>3. p \in Nat /\ Scale \in Nat \ {0}
  BY BookConstants DEF Unset
<1>4. Smaller(p + a \div b, Scale - 1) \in 0 .. Scale - 1
  <2> DEFINE c == a \div b
  <2>1. c \in Nat
    BY <1>2
  <2> HIDE DEF c
  <2> QED BY <1>3, <2>1 DEF Smaller, c
<1> QED BY <1>4 DEF Moved, a, b

\* A market lists finitely many sides.
LEMMA ListedFinite ==
    ASSUME NEW probs, NEW m
    PROVE  Cardinality(Listed(probs, m)) \in Nat
<1>1. IsFiniteSet({m}) /\ IsFiniteSet({m} \X Side)
  BY BookConstants, FS_Singleton, FS_Product
<1>2. Listed(probs, m) \in SUBSET ({m} \X Side)
  BY DEF Listed, MarketKey
<1> QED BY <1>1, <1>2, FS_Subset, FS_CardinalityType

-----------------------------------------------------------------------------
(* The book: its steps *)

LEMMA BookStart ==
    ASSUME now \in Nat, trueProbs = [k \in MarketKey |-> Unset], offers = {},
           maxStake = FirstMaxStake, winCount = 0, betCounter = 0, fills = {}
    PROVE  BookInv
<1>1. BookTypeOK
  BY BookConstants DEF BookTypeOK
<1>2. OffersNumbered /\ FillsNumbered /\ FillsApart
  BY DEF OffersNumbered, FillsNumbered, FillsApart
<1>3. Limited
  BY BookConstants DEF Limited
<1> QED BY <1>1, <1>2, <1>3 DEF BookInv

\* New offers take the numbers after the last one, each its own.
LEMMA OffersStep ==
    ASSUME BookInv, NEW m \in Market,
           NEW probs \in [MarketKey -> 0 .. Scale - 1 \union {Unset}],
           NEW num \in Numberings(Listed(probs, m)),
           trueProbs' = probs, offers' = offers \union NewOffers(probs, m, num),
           betCounter' = betCounter + Cardinality(Listed(probs, m)),
           UNCHANGED <<now, maxStake, winCount, fills>>
    PROVE  BookInv'
<1> USE BookConstants DEF BookInv
<1> DEFINE S == Listed(probs, m)
           n == Cardinality(S)
<1>1. n \in Nat /\ betCounter \in Nat
  BY ListedFinite DEF BookTypeOK
<1>2. /\ \A k \in S : num[k] \in betCounter + 1 .. betCounter + n
      /\ \A k, l \in S : num[k] = num[l] => k = l
  BY DEF Numberings
<1>3. ASSUME NEW o \in NewOffers(probs, m, num)
      PROVE  \E k \in S : o = [id |-> num[k], key |-> k, odds |-> OddsForProb(probs[k]),
                               maxStake |-> maxStake, expires |-> now + OfferTTL]
  BY DEF NewOffers
<1>4. \A k \in S : k \in MarketKey /\ probs[k] \in 0 .. Scale - 1
  BY DEF Listed, Unset
<1> HIDE DEF S, n
<1>5. BookTypeOK'
  <2>1. ASSUME NEW o \in NewOffers(probs, m, num)
        PROVE  o \in [id : Nat, key : MarketKey, odds : Nat, maxStake : Nat, expires : Nat]
    BY <1>1, <1>2, <1>3, <1>4, <2>1, OddsType DEF BookTypeOK
  <2> QED BY <1>1, <2>1 DEF BookTypeOK, S, n
<1>6. \A o \in offers : o.id \in Nat /\ o.id <= betCounter
  BY DEF BookTypeOK, OffersNumbered
<1>7. \A o \in NewOffers(probs, m, num) :
        /\ o.id \in betCounter + 1 .. betCounter + n
        /\ \A p \in NewOffers(probs, m, num) : o.id = p.id => o = p
  BY <1>2, <1>3
<1>8. OffersNumbered'
  <2>1. \A f \in fills : f.offer \in Nat /\ f.offer <= betCounter
    BY DEF BookTypeOK, FillsNumbered
  <2> QED BY <1>1, <1>6, <1>7, <2>1 DEF OffersNumbered, S, n
<1>9. FillsNumbered' /\ Limited' /\ FillsApart'
  BY <1>1 DEF BookTypeOK, FillsNumbered, Limited, FillsApart, S, n
<1> QED BY <1>5, <1>8, <1>9

\* A fill takes an offer that was not filled before, and a number of its own.
LEMMA FillStep ==
    ASSUME BookInv, NEW o \in offers, NEW k \in MarketKey, NEW quoted,
           NEW requested \in Nat, Fill(o, k, quoted, requested)
    PROVE  BookInv'
<1> USE BookConstants DEF BookInv
<1> DEFINE new == [bet |-> betCounter', offer |-> o.id, key |-> k,
                   odds |-> o.odds, stake |-> Accepted(o, requested)]
<1>1. /\ offers' = offers \ {o} /\ fills' = fills \union {new}
      /\ betCounter' = betCounter + 1 /\ UNCHANGED <<now, maxStake, winCount>>
  BY DEF Fill
<1>2. Accepted(o, requested) \in Nat
  BY DEF Accepted, Smaller, BookTypeOK
<1>3. o.id \in Nat /\ o.odds \in Nat /\ betCounter \in Nat
  BY DEF BookTypeOK
<1>4. new \in [bet : Nat, offer : Nat, key : MarketKey, odds : Nat, stake : Nat]
  BY <1>1, <1>2, <1>3
<1>5. trueProbs' \in [MarketKey -> 0 .. Scale - 1 \union {Unset}]
  <2>1. CASE trueProbs[k] = Unset
    BY <2>1 DEF Fill, BookTypeOK
  <2>2. CASE trueProbs[k] # Unset
    <3>1. Moved(trueProbs[k], Accepted(o, requested)) \in 0 .. Scale - 1
      BY <1>2, <1>3, <2>2, MovedType DEF BookTypeOK
    <3> QED BY <2>2, <3>1 DEF Fill, BookTypeOK
  <2> QED BY <2>1, <2>2
<1>6. new.bet = betCounter + 1 /\ new.offer = o.id
  BY <1>1
<1> HIDE DEF new
<1>7. BookTypeOK'
  BY <1>1, <1>3, <1>4, <1>5 DEF BookTypeOK
<1>8. OffersNumbered' /\ FillsNumbered'
  BY <1>1, <1>3, <1>6 DEF OffersNumbered, FillsNumbered, BookTypeOK
<1>9. FillsApart'
  BY <1>1, <1>3, <1>6 DEF OffersNumbered, FillsNumbered, FillsApart, BookTypeOK
<1>10. Limited'
  BY <1>1 DEF Limited
<1> QED BY <1>7, <1>8, <1>9, <1>10

\* The steps that number nothing.
LEMMA BookQuietStep ==
    ASSUME BookInv,
           \/ Tick
           \/ RecordWin
           \/ \E k \in MarketKey, p \in Prob : SetMarket(k, p)
           \/ \E o \in offers : PlaceExpired(o)
           \/ UNCHANGED bookVars
    PROVE  BookInv'
<1> USE BookConstants DEF BookInv
<1>1. CASE Tick
  BY <1>1 DEF Tick, BookTypeOK, OffersNumbered, FillsNumbered, Limited, FillsApart
<1>2. CASE RecordWin
  BY <1>2 DEF RecordWin, BookTypeOK, OffersNumbered, FillsNumbered, Limited, FillsApart
<1>3. ASSUME NEW k \in MarketKey, NEW p \in Prob, SetMarket(k, p) PROVE BookInv'
  BY <1>3 DEF SetMarket, BookTypeOK, OffersNumbered, FillsNumbered, Limited, FillsApart
<1>4. ASSUME NEW o \in offers, PlaceExpired(o) PROVE BookInv'
  BY <1>4 DEF PlaceExpired, BookTypeOK, OffersNumbered, FillsNumbered, Limited, FillsApart
<1>5. CASE UNCHANGED bookVars
  BY <1>5 DEF bookVars, BookTypeOK, OffersNumbered, FillsNumbered, Limited, FillsApart
<1> QED BY <1>1, <1>2, <1>3, <1>4, <1>5

LEMMA BookInvariant == BookSpec => []BookInv
<1>1. BookInit => BookInv
  BY BookStart DEF BookInit
<1>2. BookInv /\ [BookNext]_bookVars => BookInv'
  <2> SUFFICES ASSUME BookInv, [BookNext]_bookVars PROVE BookInv'
    OBVIOUS
  <2>1. ASSUME NEW m \in Market, GetOffers(m) PROVE BookInv'
    BY <2>1, OffersStep DEF GetOffers, BookInv, BookTypeOK
  <2>2. ASSUME NEW o \in offers, NEW p \in offers, NEW k \in MarketKey, NEW s \in Stake,
               Fill(o, k, p.odds, s)
        PROVE  BookInv'
    BY <2>2, FillStep, BookConstants
  <2> QED BY <2>1, <2>2, BookQuietStep DEF BookNext
<1> QED BY <1>1, <1>2, PTL DEF BookSpec

-----------------------------------------------------------------------------
(* The book: theorems *)

\* Every reachable book has the types of its fields; the line a bet moves
\* stays a probability below one (simulated.go:202-205).
THEOREM BookTypeCorrect == BookSpec => []BookTypeOK
<1>1. BookInv => BookTypeOK
  BY DEF BookInv
<1> QED BY <1>1, BookInvariant, PTL

\* Whatever offers are handed out, kept, expired or filled, no offer is filled
\* twice and no bet ID is given twice (simulated.go:157, 207-212).
THEOREM FillsApartCorrect == BookSpec => []FillsApart
<1>1. BookInv => FillsApart
  BY DEF BookInv
<1> QED BY <1>1, BookInvariant, PTL

\* From the win that limits the account on, no bet exceeds the floor, on an
\* offer of any age (simulated.go:75, 195-198).
THEOREM LimitCorrect == BookSpec => LimitHolds
<1> DEFINE Within == \A f \in fills' \ fills :
               WinLimitN > 0 /\ winCount >= WinLimitN => f.stake <= MaxStakeFloor
<1>1. BookInv /\ [BookNext]_bookVars => [Within]_bookVars
  <2> SUFFICES ASSUME BookInv, BookNext PROVE Within
    BY DEF bookVars
  <2>1. ASSUME NEW o \in offers, NEW p \in offers, NEW k \in MarketKey, NEW s \in Stake,
               Fill(o, k, p.odds, s)
        PROVE  Within
    <3>1. \A f \in fills' \ fills : f.stake = Smaller(s, maxStake)
      BY <2>1 DEF Fill, Accepted
    <3> QED BY <3>1, BookConstants DEF Smaller, BookInv, BookTypeOK, Limited
  <2> QED
    BY <2>1 DEF BookNext, Tick, RecordWin, SetMarket, GetOffers, PlaceExpired
<1> QED BY <1>1, BookInvariant, PTL DEF BookSpec, LimitHolds

-----------------------------------------------------------------------------
(* The service: its inductive invariant *)

LinesEvent == [market : Market, probs : UNION {[S -> Prob] : S \in SUBSET Side}]
ScoreEvent == [event : Event, winner : Winner]

\* Consumers are inside their topics, and a handler runs on a record.
TopicsOK ==
    /\ linesTopic \in Seq(LinesEvent) /\ scoresTopic \in Seq(ScoreEvent)
    /\ linesPos \in 0 .. Len(linesTopic) /\ scoresPos \in 0 .. Len(scoresTopic)
    /\ handling \in BOOLEAN
    /\ handling => linesPos # 0

StoreOK == \A i \in DOMAIN store : store[i] \in Bet

\* The handler's offers are the book's, for the market of its record.
OffersOfRecord ==
    /\ ~handling => offersTodo = {} /\ unsaved = {}
    /\ offersTodo \subseteq offers
    /\ \A o \in offersTodo : o.key[1] = Record.market

\* One confirmed bet at most waits to be saved, under an ID that is not taken.
OneUnsaved ==
    /\ unsaved \subseteq fills
    /\ \A f, g \in unsaved : f = g
    /\ \A f \in unsaved : f.key[1] = Record.market /\ f.bet \notin DOMAIN store

\* Nothing is stored but bets the book confirmed.
StoredWasFilled == \A i \in DOMAIN store : \E f \in fills : f.bet = i

\* What the scores handler has still to resolve is open, and of its event.
ResolvesOpen ==
    \A i \in resolveTodo :
        /\ scoresPos # 0
        /\ i \in DOMAIN store /\ store[i].status = "open"
        /\ store[i].event = scoresTopic[scoresPos].event

IInv ==
    /\ BookInv
    /\ TopicsOK
    /\ StoreOK
    /\ OffersOfRecord
    /\ OneUnsaved
    /\ StoredWasFilled
    /\ ResolvesOpen
    /\ FillsSaved
    /\ SettledByResult

-----------------------------------------------------------------------------
(* The service: its steps *)

LEMMA TradeInit == Init => IInv
<1> SUFFICES ASSUME Init PROVE IInv
  OBVIOUS
<1>1. BookInv
  BY BookStart DEF Init, BookInit
<1>2. TopicsOK
  <2>1. linesTopic = <<>> /\ scoresTopic = <<>> /\ linesPos = 0 /\ scoresPos = 0 /\ handling = FALSE
    BY DEF Init
  <2>2. \A S : <<>> \in Seq(S) /\ Len(<<>>) = 0
    BY EmptySeq
  <2>3. 0 \in 0 .. 0
    OBVIOUS
  <2>4. handling \in BOOLEAN /\ ~handling
    BY <2>1
  <2> QED BY <2>1, <2>2, <2>3, <2>4, Zenon DEF TopicsOK
<1>3. DOMAIN store = {} /\ offersTodo = {} /\ unsaved = {} /\ resolveTodo = {} /\ fills = {}
  BY DEF Init, BookInit
<1>4. StoreOK /\ OffersOfRecord /\ OneUnsaved /\ StoredWasFilled /\ ResolvesOpen
  BY <1>3 DEF StoreOK, OffersOfRecord, OneUnsaved, StoredWasFilled, ResolvesOpen
<1>5. FillsSaved /\ SettledByResult
  BY <1>3 DEF FillsSaved, SettledByResult
<1> QED BY <1>1, <1>2, <1>4, <1>5 DEF IInv

\* The record that a handler works on stays the same while its topic grows.
LEMMA PublishLinesStep == ASSUME IInv, PublishLines PROVE IInv'
<1> USE DEF IInv, bookVars, linesVars, scoresVars
<1> PICK m \in Market, S \in (SUBSET Side) \ {{}} : \E probs \in [S -> Prob] :
        linesTopic' = Append(linesTopic, [market |-> m, probs |-> probs])
  BY DEF PublishLines
<1> PICK probs \in [S -> Prob] :
        linesTopic' = Append(linesTopic, [market |-> m, probs |-> probs])
  OBVIOUS
<1>1. [market |-> m, probs |-> probs] \in LinesEvent
  BY DEF LinesEvent
<1>2. UNCHANGED <<bookVars, linesVars, scoresVars, scoresTopic, store, main, faults>>
  BY DEF PublishLines
<1>3. TopicsOK'
  BY <1>1, <1>2, AppendProperties DEF TopicsOK
<1>4. handling => Record' = Record
  BY <1>1, <1>2, AppendProperties DEF TopicsOK, Record
<1>5. OffersOfRecord' /\ OneUnsaved'
  BY <1>2, <1>4 DEF OffersOfRecord, OneUnsaved
<1>6. BookInv'
  BY <1>2, BookQuietStep
<1>7. StoreOK' /\ StoredWasFilled' /\ ResolvesOpen' /\ FillsSaved' /\ SettledByResult'
  BY <1>2 DEF StoreOK, StoredWasFilled, ResolvesOpen, FillsSaved, SettledByResult
<1> QED BY <1>3, <1>5, <1>6, <1>7

LEMMA PublishScoreStep == ASSUME IInv, PublishScore PROVE IInv'
<1> USE DEF IInv, bookVars, linesVars, scoresVars
<1> PICK r \in ScoreEvent : scoresTopic' = Append(scoresTopic, r)
  BY DEF PublishScore, ScoreEvent
<1>1. UNCHANGED <<bookVars, linesVars, scoresVars, linesTopic, store, main, faults>>
  BY DEF PublishScore
<1>2. /\ scoresTopic' \in Seq(ScoreEvent)
      /\ Len(scoresTopic') = Len(scoresTopic) + 1
      /\ \A n \in 1 .. Len(scoresTopic) : scoresTopic'[n] = scoresTopic[n]
  BY AppendProperties DEF TopicsOK
<1>3. TopicsOK' /\ ResolvesOpen'
  BY <1>1, <1>2 DEF TopicsOK, ResolvesOpen
<1>4. SettledByResult'
  BY <1>1, <1>2 DEF SettledByResult, TopicsOK
<1>5. BookInv'
  BY <1>1, BookQuietStep
<1>6. StoreOK' /\ OffersOfRecord' /\ OneUnsaved' /\ StoredWasFilled' /\ FillsSaved'
  BY <1>1 DEF StoreOK, OffersOfRecord, OneUnsaved, StoredWasFilled, FillsSaved, Record
<1> QED BY <1>3, <1>4, <1>5, <1>6

\* The offers of a new record are for its market, and are stored at the book.
LEMMA TakeLinesStep == ASSUME IInv, TakeLines PROVE IInv'
<1> USE DEF IInv, scoresVars, topics
<1> DEFINE m == linesTopic[linesPos'].market
           lines == linesTopic[linesPos'].probs
           probs == [k \in MarketKey |->
                        IF k[1] = m /\ k[2] \in DOMAIN lines THEN lines[k[2]]
                        ELSE trueProbs[k]]
<1>1. PICK num \in Numberings(Listed(probs, m)) :
        /\ trueProbs' = probs
        /\ offersTodo' = NewOffers(probs, m, num)
        /\ offers' = offers \union offersTodo'
        /\ betCounter' = betCounter + Cardinality(Listed(probs, m))
  BY DEF TakeLines
<1>2. /\ linesPos' = linesPos + 1 /\ linesPos < Len(linesTopic) /\ handling' = TRUE
      /\ ~handling
      /\ UNCHANGED <<now, maxStake, winCount, fills, unsaved, scoresVars, topics,
                     store, main, faults>>
  BY DEF TakeLines
<1>3. linesTopic[linesPos'] \in LinesEvent
  BY <1>2, ElementOfSeq DEF TopicsOK
<1>4. m \in Market /\ probs \in [MarketKey -> 0 .. Scale - 1 \union {Unset}]
  <2>1. m \in Market /\ \A s \in DOMAIN lines : lines[s] \in Prob
    BY <1>3 DEF LinesEvent
  <2> HIDE DEF m, lines
  <2>2. trueProbs \in [MarketKey -> 0 .. Scale - 1 \union {Unset}]
    BY DEF BookInv, BookTypeOK
  <2> QED BY <2>1, <2>2, BookConstants
<1>6. Record' = linesTopic[linesPos']
  BY <1>2 DEF Record
<1> HIDE DEF m, lines, probs
<1>5. \A o \in NewOffers(probs, m, num) : o.key[1] = m
  BY DEF NewOffers, Listed
<1>7. BookInv'
  BY <1>1, <1>2, <1>4, OffersStep
<1>8. TopicsOK'
  BY <1>2 DEF TopicsOK
<1>9. OffersOfRecord'
  BY <1>1, <1>2, <1>5, <1>6 DEF OffersOfRecord, m
<1>10. OneUnsaved'
  BY <1>2 DEF OneUnsaved, OffersOfRecord
<1>11. StoreOK' /\ StoredWasFilled' /\ ResolvesOpen' /\ FillsSaved' /\ SettledByResult'
  BY <1>2 DEF StoreOK, StoredWasFilled, ResolvesOpen, FillsSaved, SettledByResult
<1> QED BY <1>7, <1>8, <1>9, <1>10, <1>11

\* An offer that is passed over, or found to be gone.
LEMMA PassStep ==
    ASSUME IInv, NEW o \in offersTodo, SkipOffer(o) \/ OfferGone(o) PROVE IInv'
<1> USE DEF IInv, scoresVars, topics
<1>1. /\ offersTodo' = offersTodo \ {o} /\ o \in offers /\ handling
      /\ offers' = offers \/ offers' = offers \ {o}
      /\ UNCHANGED <<linesPos, handling, unsaved, fills, scoresVars, topics, store>>
  BY DEF SkipOffer, OfferGone, Considered, PlaceExpired, OffersOfRecord, bookVars
<1>2. BookInv'
  BY <1>1, BookQuietStep DEF SkipOffer, OfferGone
<1>3. OffersOfRecord' /\ OneUnsaved'
  BY <1>1 DEF OffersOfRecord, OneUnsaved, Record
<1>4. TopicsOK' /\ StoreOK' /\ StoredWasFilled' /\ ResolvesOpen' /\ FillsSaved'
      /\ SettledByResult'
  BY <1>1 DEF TopicsOK, StoreOK, StoredWasFilled, ResolvesOpen, FillsSaved, SettledByResult
<1> QED BY <1>2, <1>3, <1>4

\* The new bet has a number that neither book nor store has used.
LEMMA PlaceBetStep ==
    ASSUME IInv, NEW o \in offersTodo, PlaceBet(o) PROVE IInv'
<1> USE DEF IInv, scoresVars, topics
<1> DEFINE new == [bet |-> betCounter', offer |-> o.id, key |-> o.key,
                   odds |-> o.odds, stake |-> Accepted(o, RequestedStake)]
<1>1. /\ unsaved = {} /\ offersTodo' = offersTodo \ {o} /\ handling
      /\ fills' = fills \union {new} /\ offers' = offers \ {o}
      /\ betCounter' = betCounter + 1 /\ unsaved' = fills' \ fills
      /\ UNCHANGED <<linesPos, handling, scoresVars, topics, store>>
  BY DEF PlaceBet, Considered, Fill
<1>2. o \in offers /\ o.key[1] = Record.market
  BY DEF OffersOfRecord
<1>3. BookInv'
  <2>1. o.key \in MarketKey
    BY <1>2 DEF BookInv, BookTypeOK
  <2> QED BY <1>2, <2>1, FillStep, PaperConstants DEF PlaceBet
<1>4. new.bet = betCounter + 1 /\ new.key[1] = Record.market /\ betCounter \in Nat
  BY <1>1, <1>2 DEF BookInv, BookTypeOK
<1> HIDE DEF new
<1>5. \A f \in fills : f.bet \in Nat /\ f.bet <= betCounter
  BY DEF BookInv, BookTypeOK, FillsNumbered
<1>6. Record' = Record
  BY <1>1 DEF Record
<1>7. unsaved' = {new} /\ new.bet \notin DOMAIN store
  BY <1>1, <1>4, <1>5 DEF StoredWasFilled
<1>8. OneUnsaved' /\ OffersOfRecord'
  BY <1>1, <1>4, <1>6, <1>7 DEF OneUnsaved, OffersOfRecord
<1>9. FillsSaved'
  BY <1>1, <1>7 DEF FillsSaved
<1>10. TopicsOK' /\ StoreOK' /\ StoredWasFilled' /\ ResolvesOpen' /\ SettledByResult'
  BY <1>1 DEF TopicsOK, StoreOK, StoredWasFilled, ResolvesOpen, SettledByResult
<1> QED BY <1>3, <1>8, <1>9, <1>10

\* The bet is stored under its own ID, so that Save never refuses it.
LEMMA SaveBetStep == ASSUME IInv, SaveBet PROVE IInv'
<1> USE DEF IInv, scoresVars, topics
<1> PICK f \in unsaved :
        Save(f.bet, [event |-> EventOf[Record.market], market |-> Record.market,
                     side |-> f.key[2], status |-> "open"])
  BY DEF SaveBet
<1> DEFINE bet == [event |-> EventOf[Record.market], market |-> Record.market,
                   side |-> f.key[2], status |-> "open"]
<1>1. /\ unsaved = {f} /\ unsaved' = {} /\ handling
      /\ UNCHANGED <<bookVars, linesPos, handling, offersTodo, scoresVars, topics,
                     main, faults>>
  BY DEF SaveBet, OneUnsaved, OffersOfRecord
<1>2. f \in fills /\ f.bet \notin DOMAIN store /\ f.key[1] = Record.market
  BY DEF OneUnsaved
<1>3. /\ DOMAIN store' = DOMAIN store \union {f.bet}
      /\ store'[f.bet] = bet
      /\ \A j \in DOMAIN store : store'[j] = store[j]
  BY <1>2 DEF Save
<1>4. bet \in Bet
  <2>1. Record \in LinesEvent
    BY <1>1, ElementOfSeq DEF TopicsOK, Record
  <2>2. f.key \in MarketKey
    BY <1>2 DEF BookInv, BookTypeOK
  <2> QED BY <2>1, <2>2, PaperConstants DEF LinesEvent, MarketKey, Bet
<1>5. bet.side = f.key[2] /\ bet.market = f.key[1] /\ bet.status = "open"
  BY <1>2
<1>6. Record' = Record
  BY <1>1 DEF Record
<1> HIDE DEF bet
<1>7. BookInv'
  BY <1>1, BookQuietStep
<1>8. TopicsOK' /\ StoreOK'
  BY <1>1, <1>3, <1>4 DEF TopicsOK, StoreOK
<1>9. OffersOfRecord' /\ OneUnsaved'
  BY <1>1, <1>6 DEF OffersOfRecord, OneUnsaved, bookVars
<1>10. StoredWasFilled' /\ ResolvesOpen'
  BY <1>1, <1>2, <1>3 DEF StoredWasFilled, ResolvesOpen, bookVars
<1>11. FillsSaved'
  BY <1>1, <1>3, <1>5 DEF FillsSaved, bookVars
<1>12. SettledByResult'
  BY <1>1, <1>3, <1>5 DEF SettledByResult
<1> QED BY <1>7, <1>8, <1>9, <1>10, <1>11, <1>12

\* A result is read: the bets of its game that are open are to be resolved.
LEMMA TakeScoreStep == ASSUME IInv, TakeScore PROVE IInv'
<1> USE DEF IInv, linesVars, topics
<1>1. /\ scoresPos < Len(scoresTopic) /\ scoresPos' = scoresPos + 1
      /\ resolveTodo' = OpenBets(scoresTopic[scoresPos'].event)
      /\ UNCHANGED <<bookVars, linesVars, scoresAlive, topics, store, main, faults>>
  BY DEF TakeScore
<1>2. TopicsOK'
  BY <1>1 DEF TopicsOK
<1>3. ResolvesOpen'
  BY <1>1 DEF ResolvesOpen, OpenBets, TopicsOK
<1>4. BookInv'
  BY <1>1, BookQuietStep
<1>5. StoreOK' /\ OffersOfRecord' /\ OneUnsaved' /\ StoredWasFilled' /\ FillsSaved'
      /\ SettledByResult'
  BY <1>1 DEF StoreOK, OffersOfRecord, OneUnsaved, StoredWasFilled, FillsSaved,
    SettledByResult, Record, bookVars
<1> QED BY <1>2, <1>3, <1>4, <1>5

\* An open bet is settled by the result at hand; the others stay as they are.
LEMMA ResolveFacts ==
    ASSUME IInv, ResolveNext
    PROVE  \E i \in resolveTodo :
              /\ resolveTodo' = resolveTodo \ {i}
              /\ i \in DOMAIN store /\ store[i].status = "open"
              /\ DOMAIN store' = DOMAIN store
              /\ \A j \in DOMAIN store : j # i => store'[j] = store[j]
              /\ \E n \in 1 .. Len(scoresTopic) :
                    /\ scoresTopic[n].event = store[i].event
                    /\ store'[i] = [store[i] EXCEPT !.status =
                          IF store[i].side = scoresTopic[n].winner THEN "won" ELSE "lost"]
<1> PICK i \in resolveTodo :
        /\ store' = [store EXCEPT ![i].status =
                        IF store[i].side = scoresTopic[scoresPos].winner
                        THEN "won" ELSE "lost"]
        /\ resolveTodo' = resolveTodo \ {i}
  BY DEF ResolveNext
<1>1. /\ scoresPos \in 1 .. Len(scoresTopic) /\ i \in DOMAIN store
      /\ store[i].status = "open" /\ scoresTopic[scoresPos].event = store[i].event
  BY DEF IInv, ResolvesOpen, TopicsOK
<1> QED BY <1>1

LEMMA ResolveStep == ASSUME IInv, ResolveNext PROVE IInv'
<1> USE DEF IInv, linesVars, topics
<1>1. UNCHANGED <<bookVars, linesVars, scoresPos, scoresAlive, topics, main, faults>>
  BY DEF ResolveNext
<1> PICK i \in resolveTodo :
              /\ resolveTodo' = resolveTodo \ {i}
              /\ i \in DOMAIN store /\ store[i].status = "open"
              /\ DOMAIN store' = DOMAIN store
              /\ \A j \in DOMAIN store : j # i => store'[j] = store[j]
              /\ \E n \in 1 .. Len(scoresTopic) :
                    /\ scoresTopic[n].event = store[i].event
                    /\ store'[i] = [store[i] EXCEPT !.status =
                          IF store[i].side = scoresTopic[n].winner THEN "won" ELSE "lost"]
  BY ResolveFacts
<1> PICK n \in 1 .. Len(scoresTopic) :
        /\ scoresTopic[n].event = store[i].event
        /\ store'[i] = [store[i] EXCEPT !.status =
                IF store[i].side = scoresTopic[n].winner THEN "won" ELSE "lost"]
  OBVIOUS
<1>2. store[i] \in Bet
  BY DEF StoreOK
<1>3. /\ store'[i] \in Bet /\ store'[i].event = store[i].event
      /\ store'[i].market = store[i].market /\ store'[i].side = store[i].side
      /\ (store'[i].status = "won") <=> (store[i].side = scoresTopic[n].winner)
  BY <1>2 DEF Bet
<1>4. TopicsOK' /\ StoreOK' /\ OffersOfRecord' /\ OneUnsaved' /\ StoredWasFilled'
  BY <1>1, <1>3 DEF TopicsOK, StoreOK, OffersOfRecord, OneUnsaved, StoredWasFilled,
    Record, bookVars
<1>5. ResolvesOpen'
  BY <1>1 DEF ResolvesOpen
<1>6. FillsSaved'
  BY <1>1, <1>3 DEF FillsSaved, bookVars
<1>7. SettledByResult'
  <2> SUFFICES ASSUME NEW j \in DOMAIN store', store'[j].status # "open"
               PROVE  \E k \in 1 .. Len(scoresTopic) :
                         /\ scoresTopic[k].event = store'[j].event
                         /\ (store'[j].status = "won") <=> (store'[j].side = scoresTopic[k].winner)
    BY <1>1 DEF SettledByResult
  <2>1. CASE j = i
    BY <1>3, <2>1
  <2>2. CASE j # i
    BY <2>2 DEF SettledByResult
  <2> QED BY <2>1, <2>2
<1>8. BookInv'
  BY <1>1, BookQuietStep
<1> QED BY <1>4, <1>5, <1>6, <1>7, <1>8

\* A record delivered again is handled from the start; nothing is under way.
LEMMA RebalanceStep == ASSUME IInv, Rebalance PROVE IInv'
<1> USE DEF IInv, topics
<1>1. /\ \/ ~handling /\ linesPos' \in 0 .. linesPos /\ UNCHANGED scoresPos
         \/ resolveTodo = {} /\ scoresPos' \in 0 .. scoresPos /\ UNCHANGED linesPos
      /\ UNCHANGED <<bookVars, handling, offersTodo, unsaved, resolveTodo,
                     scoresAlive, topics, store, main>>
  BY DEF Rebalance
<1>2. TopicsOK' /\ ResolvesOpen'
  BY <1>1 DEF TopicsOK, ResolvesOpen
<1>3. OffersOfRecord' /\ OneUnsaved'
  BY <1>1 DEF OffersOfRecord, OneUnsaved, Record, bookVars
<1>4. BookInv'
  BY <1>1, BookQuietStep
<1>5. StoreOK' /\ StoredWasFilled' /\ FillsSaved' /\ SettledByResult'
  BY <1>1 DEF StoreOK, StoredWasFilled, FillsSaved, SettledByResult, bookVars
<1> QED BY <1>2, <1>3, <1>4, <1>5

\* The new process has an empty book and an empty bet store.
LEMMA RestartStep == ASSUME IInv, Restart PROVE IInv'
<1> USE DEF IInv, topics
<1>1. BookInv'
  <2>1. /\ now' \in Nat /\ trueProbs' = [k \in MarketKey |-> Unset] /\ offers' = {}
        /\ maxStake' = FirstMaxStake /\ winCount' = 0 /\ betCounter' = 0 /\ fills' = {}
    BY DEF Restart, BookInv, BookTypeOK
  <2>2. BookTypeOK'
    BY <2>1, BookConstants DEF BookTypeOK
  <2>3. OffersNumbered' /\ FillsNumbered' /\ FillsApart' /\ Limited'
    BY <2>1, BookConstants DEF OffersNumbered, FillsNumbered, FillsApart, Limited
  <2> QED BY <2>2, <2>3 DEF BookInv
<1>2. DOMAIN store' = {}
  BY DEF Restart
<1>3. TopicsOK'
  <2>1. /\ linesPos' \in 0 .. linesPos /\ scoresPos' \in 0 .. scoresPos
        /\ handling' = FALSE /\ UNCHANGED <<linesTopic, scoresTopic>>
    BY DEF Restart
  <2>2. Len(linesTopic) \in Nat /\ Len(scoresTopic) \in Nat
    BY DEF TopicsOK
  <2>3. /\ linesTopic' \in Seq(LinesEvent) /\ scoresTopic' \in Seq(ScoreEvent)
        /\ linesPos' \in 0 .. Len(linesTopic') /\ scoresPos' \in 0 .. Len(scoresTopic')
    BY <2>1, <2>2 DEF TopicsOK
  <2> QED BY <2>1, <2>3 DEF TopicsOK
<1>4. StoreOK' /\ OffersOfRecord' /\ OneUnsaved' /\ StoredWasFilled' /\ ResolvesOpen'
  BY <1>2 DEF Restart, StoreOK, OffersOfRecord, OneUnsaved, StoredWasFilled, ResolvesOpen
<1>5. FillsSaved' /\ SettledByResult'
  BY <1>2 DEF Restart, FillsSaved, SettledByResult
<1> QED BY <1>1, <1>3, <1>4, <1>5

\* The steps that only end a handler or a loop, or let time pass.
LEMMA EndStep ==
    ASSUME IInv,
           \/ LinesHandled \/ ScoresPollFails \/ LinesPollFails \/ Exit \/ ClockTick
           \/ UNCHANGED vars
    PROVE  IInv'
<1> USE DEF IInv, linesVars, scoresVars, topics
<1>1. /\ handling' \in BOOLEAN /\ (handling' => handling)
      /\ ~handling' => offersTodo = {} /\ unsaved = {}
      /\ UNCHANGED <<offers, fills, linesPos, offersTodo, unsaved, scoresPos,
                     resolveTodo, topics, store>>
  <2>1. CASE LinesHandled
    BY <2>1 DEF LinesHandled, bookVars, TopicsOK
  <2>2. CASE ScoresPollFails \/ LinesPollFails \/ Exit \/ ClockTick \/ UNCHANGED vars
    <3>1. /\ handling' = handling
          /\ UNCHANGED <<offers, fills, linesPos, offersTodo, unsaved, scoresPos,
                         resolveTodo, topics, store>>
      BY <2>2 DEF ScoresPollFails, LinesPollFails, Exit, ClockTick, Tick, vars, bookVars
    <3> QED BY <3>1 DEF TopicsOK, OffersOfRecord
  <2> QED BY <2>1, <2>2
<1>2. BookInv'
  BY BookQuietStep DEF LinesHandled, ScoresPollFails, LinesPollFails, Exit, ClockTick, vars
<1>3. TopicsOK' /\ OffersOfRecord' /\ OneUnsaved'
  BY <1>1 DEF TopicsOK, OffersOfRecord, OneUnsaved, Record
<1>4. StoreOK' /\ StoredWasFilled' /\ ResolvesOpen' /\ FillsSaved' /\ SettledByResult'
  BY <1>1 DEF StoreOK, StoredWasFilled, ResolvesOpen, FillsSaved, SettledByResult
<1> QED BY <1>2, <1>3, <1>4

LEMMA TradeInvariant == Spec => []IInv
<1>1. IInv /\ [Next]_vars => IInv'
  <2> SUFFICES ASSUME IInv, [Next]_vars PROVE IInv'
    OBVIOUS
  <2>1. CASE LinesStep
    <3>1. ASSUME NEW o \in offersTodo, SkipOffer(o) \/ OfferGone(o) \/ PlaceBet(o)
          PROVE  IInv'
      BY <3>1, PassStep, PlaceBetStep
    <3> QED BY <2>1, <3>1, TakeLinesStep, SaveBetStep, EndStep DEF LinesStep
  <2>2. CASE ScoresStep
    BY <2>2, TakeScoreStep, ResolveStep DEF ScoresStep
  <2>3. CASE PublishLines \/ PublishScore \/ Rebalance \/ Restart
    BY <2>3, PublishLinesStep, PublishScoreStep, RebalanceStep, RestartStep
  <2>4. CASE ScoresPollFails \/ LinesPollFails \/ Exit \/ ClockTick \/ UNCHANGED vars
    BY <2>4, EndStep
  <2> QED BY <2>1, <2>2, <2>3, <2>4 DEF Next
<1> QED BY <1>1, TradeInit, PTL DEF Spec

-----------------------------------------------------------------------------
(* The service: theorems *)

\* The book keeps its promises in the service too, whose handler sets a market's
\* lines and takes its offers in one go, drops the offers it does not want, and
\* loses the book at every restart.
THEOREM ServiceBookCorrect == Spec => [](BookTypeOK /\ FillsApart)
<1>1. IInv => BookTypeOK /\ FillsApart
  BY DEF IInv, BookInv
<1> QED BY <1>1, TradeInvariant, PTL

\* No confirmed bet is lost to a duplicate ID, whatever is delivered again and
\* however the two consumers interleave (main.go:187-202, memory.go:25).
THEOREM FillsSavedCorrect == Spec => []FillsSaved
<1>1. IInv => FillsSaved
  BY DEF IInv
<1> QED BY <1>1, TradeInvariant, PTL

\* A settled bet was decided by a result published for its own game.
THEOREM SettledByResultCorrect == Spec => []SettledByResult
<1>1. IInv => SettledByResult
  BY DEF IInv
<1> QED BY <1>1, TradeInvariant, PTL

\* No bet is settled twice: although Resolve itself overwrites, the handler only
\* resolves bets that are still open when it does (main.go:146-148).
THEOREM SettledOnceCorrect == Spec => SettledOnce
<1> DEFINE Keeps == \A i \in DOMAIN store \intersect DOMAIN store' :
                        store[i].status # "open" => store'[i].status = store[i].status
<1>1. IInv /\ [Next]_vars => [Keeps]_vars
  <2> SUFFICES ASSUME IInv, Next PROVE Keeps
    BY DEF vars
  <2>1. CASE SaveBet
    BY <2>1 DEF SaveBet, Save
  <2>2. CASE ResolveNext
    BY <2>2, ResolveFacts
  <2>3. CASE Restart
    BY <2>3 DEF Restart
  <2>4. CASE UNCHANGED store
    BY <2>4
  <2> QED
    BY <2>1, <2>2, <2>3, <2>4
    DEF Next, LinesStep, ScoresStep, PublishLines, PublishScore, TakeLines, SkipOffer,
      OfferGone, PlaceBet, LinesHandled, TakeScore, ScoresPollFails, Rebalance,
      LinesPollFails, Exit, ClockTick
<1> QED BY <1>1, TradeInvariant, PTL DEF SettledOnce, Spec
=============================================================================
