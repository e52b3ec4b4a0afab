----------------------------- MODULE PaperTrade -----------------------------
(***************************************************************************)
(* The paper-trade service (services/paper-trade/main.go).  Two Kafka      *)
(* consumers run in goroutines of their own: one turns LinesUpdated events *)
(* into bets at the SimulatedBookmaker, the other settles bets on          *)
(* GameCompleted events.  They share only the MemoryBetStore, whose every  *)
(* method is one critical section and so one step here.  Only the lines    *)
(* consumer calls the book; nobody calls RecordWin.                        *)
(*                                                                         *)
(* The topics are external.  A consumer takes records in order from the    *)
(* group's position.  Offsets are committed in the background, so that a   *)
(* rebalance or a restart may fall back to any record taken before.        *)
(* Everything else the process keeps is in memory.                         *)
(***************************************************************************)
EXTENDS SimulatedBookmaker, Sequences

CONSTANTS Event,            \* games
          EventOf,          \* the game of each market
          RequestedStake,   \* the constant stake of evaluateMarket
          MaxLines,         \* bound: records in the lines topic
          MaxScores,        \* bound: records in the scores topic
          MaxFaults         \* bound: rebalances, restarts, failed lines polls

ASSUME PaperConstants ==
    /\ EventOf \in [Market -> Event] /\ RequestedStake \in Nat
    /\ {MaxLines, MaxScores, MaxFaults} \subseteq Nat

VARIABLES linesTopic,       \* LinesUpdated events: [market, probs]
          linesPos,         \* records of it taken by the consumer
          handling,         \* is handleLinesUpdated running?
          offersTodo,       \* offers it has still to consider
          unsaved,          \* the confirmed bet about to be saved, a set
          scoresTopic,      \* GameCompleted events: [event, winner]
          scoresPos,        \* records of it taken by the consumer
          resolveTodo,      \* bets still to be resolved by the handler
          scoresAlive,      \* has the scores goroutine not returned?
          main,             \* "running": the lines loop runs, "waiting": in
                            \* wg.Wait, "exited"
          store,            \* MemoryBetStore.bets: bet ID -> bet
          faults            \* how many disruptions there were so far

linesVars == <<linesPos, handling, offersTodo, unsaved>>
scoresVars == <<scoresPos, resolveTodo, scoresAlive>>
topics == <<linesTopic, scoresTopic>>
vars == <<bookVars, linesVars, scoresVars, topics, store, main, faults>>

Winner == Side \union {"draw"}
Bet == [event : Event, market : Market, side : Side, status : {"open", "won", "lost"}]

-----------------------------------------------------------------------------
Init ==
    /\ BookInit
    /\ linesTopic = <<>> /\ scoresTopic = <<>>
    /\ linesPos = 0 /\ handling = FALSE /\ offersTodo = {} /\ unsaved = {}
    /\ scoresPos = 0 /\ resolveTodo = {} /\ scoresAlive = TRUE
    /\ store = <<>> /\ main = "running"
    /\ faults = 0

\* market-data publishes a line for some sides of a market.  (Several books'
\* lines on one side amount to the last of them.)
PublishLines ==
    /\ Len(linesTopic) < MaxLines
    /\ \E m \in Market, S \in (SUBSET Side) \ {{}} : \E probs \in [S -> Prob] :
        linesTopic' = Append(linesTopic, [market |-> m, probs |-> probs])
    /\ UNCHANGED <<bookVars, linesVars, scoresVars, scoresTopic, store, main, faults>>

\* market-data publishes a result; it does so again at every poll, and a
\* later one may correct an earlier one.
PublishScore ==
    /\ Len(scoresTopic) < MaxScores
    /\ \E e \in Event, w \in Winner :
        scoresTopic' = Append(scoresTopic, [event |-> e, winner |-> w])
    /\ UNCHANGED <<bookVars, linesVars, scoresVars, linesTopic, store, main, faults>>

-----------------------------------------------------------------------------
(* The lines consumer *)

Record == linesTopic[linesPos]      \* the LinesUpdated event being handled

\* Take a record, pass its lines to SetMarket, and get the market's offers.
\* The book belongs to this goroutine: nobody sees the steps in between.
TakeLines ==
    /\ main = "running" /\ ~handling /\ linesPos < Len(linesTopic)
    /\ linesPos' = linesPos + 1
    /\ handling' = TRUE
    /\ LET m == linesTopic[linesPos'].market
           lines == linesTopic[linesPos'].probs
           probs == [k \in MarketKey |->
                        IF k[1] = m /\ k[2] \in DOMAIN lines THEN lines[k[2]]
                        ELSE trueProbs[k]]
       IN \E num \in Numberings(Listed(probs, m)) :
            /\ betCounter + Cardinality(Listed(probs, m)) <= MaxCount
            /\ trueProbs' = probs
            /\ offersTodo' = NewOffers(probs, m, num)
            /\ offers' = offers \union offersTodo'
            /\ betCounter' = betCounter + Cardinality(Listed(probs, m))
    /\ UNCHANGED <<now, maxStake, winCount, fills, unsaved, scoresVars, topics,
                   store, main, faults>>

\* trueImplied >= minModelProbThreshold, that is (1/odds) * 1.05 >= 0.5.
LikelyEnough(o) == 2 * Scale * (100 + MarginPct) >= 100 * o.odds

Considered(o) ==
    /\ handling /\ unsaved = {}
    /\ o \in offersTodo
    /\ offersTodo' = offersTodo \ {o}

\* Below the threshold: the offer is left at the book.
SkipOffer(o) ==
    /\ Considered(o) /\ ~LikelyEnough(o)
    /\ UNCHANGED <<bookVars, linesPos, handling, unsaved, scoresVars, topics,
                   store, main, faults>>

OfferGone(o) ==
    /\ Considered(o) /\ LikelyEnough(o)
    /\ PlaceExpired(o)
    /\ UNCHANGED <<linesPos, handling, unsaved, scoresVars, topics, store, main, faults>>

PlaceBet(o) ==
    /\ Considered(o) /\ LikelyEnough(o)
    /\ Fill(o, o.key, o.odds, RequestedStake)
    /\ unsaved' = fills' \ fills
    /\ UNCHANGED <<linesPos, handling, scoresVars, topics, store, main, faults>>

\* MemoryBetStore.Save: an ID already there is refused, and the error logged.
Save(i, bet) ==
    store' = IF i \in DOMAIN store THEN store
             ELSE [j \in DOMAIN store \union {i} |-> IF j = i THEN bet ELSE store[j]]

SaveBet ==
    /\ \E f \in unsaved :
        Save(f.bet, [event |-> EventOf[Record.market], market |-> Record.market,
                     side |-> f.key[2], status |-> "open"])
    /\ unsaved' = {}
    /\ UNCHANGED <<bookVars, linesPos, handling, offersTodo, scoresVars, topics,
                   main, faults>>

LinesHandled ==
    /\ handling /\ offersTodo = {} /\ unsaved = {}
    /\ handling' = FALSE
    /\ UNCHANGED <<bookVars, linesPos, offersTodo, unsaved, scoresVars, topics,
                   store, main, faults>>

-----------------------------------------------------------------------------
(* The scores consumer *)

\* The snapshot of FindByEventID, of which only open bets are resolved.
AllOpen(e) == {i \in DOMAIN store : store[i].status = "open"}
AllOfEvent(e) == {i \in DOMAIN store : store[i].event = e}
OneOpen(e) ==
    {i \in DOMAIN store : /\ store[i].event = e /\ store[i].status = "open"
                          /\ \A j \in DOMAIN store : j < i => store[j].status # "open"}
OpenBets(e) == {i \in DOMAIN store : store[i].event = e /\ store[i].status = "open"}

TakeScore ==
    /\ scoresAlive /\ resolveTodo = {} /\ scoresPos < Len(scoresTopic)
    /\ scoresPos' = scoresPos + 1
    /\ resolveTodo' = OpenBets(scoresTopic[scoresPos'].event)
    /\ UNCHANGED <<bookVars, linesVars, scoresAlive, topics,
                   store, main, faults>>

\* MemoryBetStore.Resolve sets the status whatever it was.
ResolveNext ==
    /\ \E i \in resolveTodo :
        /\ store' = [store EXCEPT ![i].status =
                        IF store[i].side = scoresTopic[scoresPos].winner
                        THEN "won" ELSE "lost"]
        /\ resolveTodo' = resolveTodo \ {i}
    /\ UNCHANGED <<bookVars, linesVars, scoresPos, scoresAlive,
                   topics, main, faults>>

\* A broker error ends Subscribe, and so does the service's end: the goroutine
\* logs the error and returns, while the rest of the service goes on.
ScoresPollFails ==
    /\ scoresAlive /\ resolveTodo = {}
    /\ scoresAlive' = FALSE
    /\ UNCHANGED <<bookVars, linesVars, scoresPos, resolveTodo,
                   topics, store, main, faults>>

-----------------------------------------------------------------------------
(* Redelivery, shutdown and restart *)

\* The group is rebalanced between two polls: records handled since the last
\* commit are delivered again.
Rebalance ==
    /\ faults < MaxFaults
    /\ faults' = faults + 1
    /\ \/ /\ main = "running" /\ ~handling
          /\ linesPos' \in 0 .. linesPos
          /\ UNCHANGED scoresPos
       \/ /\ scoresAlive /\ resolveTodo = {}
          /\ scoresPos' \in 0 .. scoresPos
          /\ UNCHANGED linesPos
    /\ UNCHANGED <<bookVars, handling, offersTodo, unsaved, resolveTodo,
                   scoresAlive, topics, store, main>>

\* A broker error ends the lines subscription: main shuts the HTTP server down
\* and enters wg.Wait.  The context is still live, stop() being deferred first
\* and so run last.
LinesPollFails ==
    /\ faults < MaxFaults
    /\ faults' = faults + 1
    /\ main = "running" /\ ~handling
    /\ main' = "waiting"
    /\ UNCHANGED <<bookVars, linesVars, scoresVars, topics, store>>

\* wg.Wait returns once the scores goroutine has, and the process ends.
Exit ==
    /\ main = "waiting" /\ ~scoresAlive
    /\ main' = "exited"
    /\ UNCHANGED <<bookVars, linesVars, scoresVars, topics, store, faults>>

\* The process, ended by Exit, a crash or a signal, is started again with an
\* empty book and an empty bet store.
Restart ==
    /\ faults < MaxFaults
    /\ faults' = faults + 1
    /\ trueProbs' = [k \in MarketKey |-> Unset]
    /\ offers' = {} /\ maxStake' = FirstMaxStake /\ winCount' = 0
    /\ betCounter' = 0 /\ fills' = {}
    /\ linesPos' \in 0 .. linesPos /\ handling' = FALSE
    /\ offersTodo' = {} /\ unsaved' = {}
    /\ scoresPos' \in 0 .. scoresPos /\ resolveTodo' = {} /\ scoresAlive' = TRUE
    /\ store' = <<>> /\ main' = "running"
    /\ UNCHANGED <<now, topics>>

ClockTick ==
    /\ Tick
    /\ UNCHANGED <<linesVars, scoresVars, topics, store, main, faults>>

LinesStep ==
    \/ TakeLines
    \/ \E o \in offersTodo : SkipOffer(o) \/ OfferGone(o) \/ PlaceBet(o)
    \/ SaveBet \/ LinesHandled

ScoresStep == TakeScore \/ ResolveNext

Next ==
    \/ PublishLines \/ PublishScore
    \/ LinesStep
    \/ ScoresStep \/ ScoresPollFails
    \/ Rebalance \/ LinesPollFails \/ Exit \/ Restart \/ ClockTick

Spec == Init /\ [][Next]_vars

\* Both consumers are scheduled as long as they run, and so is main.
FairSpec == Spec /\ WF_vars(LinesStep) /\ WF_vars(ScoresStep) /\ WF_vars(Exit)

-----------------------------------------------------------------------------
(* Properties *)

\* Every bet the book confirmed is in the bet store, or on its way there: no
\* fill is lost to a duplicate ID (main.go:187-202, memory.go:25).
FillsSaved ==
    \A f \in fills :
        \/ f \in unsaved
        \/ f.bet \in DOMAIN store /\ store[f.bet].side = f.key[2]
                                  /\ store[f.bet].market = f.key[1]

\* A bet is settled once: a result published again, delivered again or
\* corrected later leaves it as it is (main.go:146-148; Resolve itself
\* overwrites).
SettledOnce ==
    [][\A i \in DOMAIN store \intersect DOMAIN store' :
        store[i].status # "open" => store'[i].status = store[i].status]_vars

\* A settled bet was decided by a result published for its own game.
SettledByResult ==
    \A i \in DOMAIN store : store[i].status # "open" =>
        \E n \in 1 .. Len(scoresTopic) :
            /\ scoresTopic[n].event = store[i].event
            /\ (store[i].status = "won") <=> (store[i].side = scoresTopic[n].winner)

\* An open bet whose game has a result in the topic that is still to be read.
AwaitsResult(i) ==
    /\ i \in DOMAIN store /\ store[i].status = "open"
    /\ \E n \in scoresPos + 1 .. Len(scoresTopic) : scoresTopic[n].event = store[i].event
Settled(i) == i \notin DOMAIN store \/ store[i].status # "open"

\* An open bet is settled by a result that is read after it was saved, as long
\* as the scores consumer runs (main.go:104).
ResultSettles ==
    \A i \in 1 .. MaxCount : AwaitsResult(i) ~> (Settled(i) \/ ~scoresAlive)

\* "wg.Wait() ensures the scores goroutine has exited [...] which happens when ctx
\* is cancelled" (main.go:64-65): main, which has left its own loop, does not wait
\* for ever.
ShutdownEnds == main = "waiting" ~> main # "waiting"
=============================================================================
