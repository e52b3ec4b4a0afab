# Verification of sports-betting

TLA+ models of the sports-betting repository: a Python library that predicts
games and backtests bets (`src/src/bet`), and Go services that collect odds and
trade on paper (`src/services`, `src/internal`). Paths below are relative to
`src/`. `PROJECT.json` lists every run with its properties, the source lines
behind every definition, the faulty variants the properties were tried
against, and the hazards, each at its line.

## 1. The system

### Go services

| Component | State | Operations | What makes it correct |
|---|---|---|---|
| `SafeBookmakerClient` (`internal/bookmaker/safe.go`) | `recentBets`: market:side -> instant of the reservation, under a mutex | `PlaceBet` (balance, cap, reserve, inner call, retract), `GetOffers` | no two bets on a key within the TTL; a failed call leaves no reservation; the balance floor |
| `SimulatedBookmakerClient` (`simulated.go`) | true probabilities, offers, stake limit, wins, counter, under one mutex | `SetMarket`, `GetOffers`, `PlaceBet`, `GetBalance`, `RecordWin` | the line stays a probability; an offer is filled once; bets have IDs of their own; limits bind |
| Pinnacle client (`pinnacle`) | none of its own; the account is remote | the REST calls behind `Client` | every answer means what happened, which a lost answer cannot |
| paper-trade (`services/paper-trade/main.go`) | in memory: the book, `MemoryBetStore`; consumer positions at Kafka | `handleLinesUpdated`, `handleScore`, two `Subscribe` loops, shutdown | no confirmed bet is lost; a bet is settled once, by its own game; both loops live or end together, which is violated |
| Kafka publisher, subscriber | topics, group offsets | `Publish...`, `Subscribe` | at least once, in order |
| Bet stores (`internal/bettracking`) | a map, or one CSV file and `path.tmp` | `Save`, `Update`, `Resolve`, `ResolveCLV`, listing | acknowledged changes survive; one row for each ID |
| market-data (`services/market-data/main.go`) | none that lasts; the store and the topics are remote | `pollCycle` = `poll` for each sport, then `pollScores` | the topic never runs ahead of the store; every change and every result gets out |
| `CachingLineStore`, Valkey, Postgres | lines and a cache with expiry | `SaveLines`, `Lines`, `ClosingLine`, `Markets` | a cached value is never older than a known time |
| `TheOddsAPIProvider`, devig | the whole answer of the last refresh | `Events` (refresh), `Markets`, `Lines`, `Scores` | a poll stores all it fetched; devigged snapshots of two or more sides sum to one |
| static and null providers, HTTP and gRPC servers, gRPC store | none that changes | pass reads on | (not modelled) |

The components interact by calls within a process, by Kafka between
market-data and paper-trade, and by two remote servers, Postgres and Valkey.
Within Python they call each other; between its commands there are only files.
paper-trade's two consumers are goroutines that share only the bet store.

### Python library

| Component | State | Operations | What makes it correct |
|---|---|---|---|
| `BacktestPipeline`, `CalibratedModel` (`src/bet/backtesting`, `calibration`) | one model, extractor and calibrator, refitted from game to game | `predictions`, `_fit`, `run` | nothing is learnt from a game's own date or later; the calibrator is fitted on games its model had not seen |
| value, sizing, tracking | none | detector, Kelly stake, settlement, report | stakes on a game are affordable and never a sure loss; the one-pass report is the defined one |
| feature extractors (`src/bet/features`) | the games of the last `fit` | `fit`, `extract`: Elo ratings, rest days, form, weather, or strengths of attack and defence | ratings are zero-sum; rating and form tell one story |
| models (`src/bet/modeling`) | parameters, replaced one by one | `fit`, `predict` of Elo, logistic, gradient boosting, quantile, Poisson, ensemble | a fit is whole or is not used; a prediction is a distribution |
| calibrators and metrics (`calibration`) | one fitted regressor | `fit`, `transform`; Brier score, calibration error, curve | probabilities stay a distribution; the metrics fit together |
| ECNL fetcher (`src/bet/data/ecnl.py`) | two caches of IDs | `fetch` over seasons, events, flights | each completed match once, with a score of this fetch |
| ASA, WPSL and NFL sources (`data`, `scripts/fetch_nfl_data.py`) | none | `fetch` by season or competition | nothing that was over is missed |
| CSV files, loader (`backtesting/loader.py`) | one file, shared by processes | truncate and write row by row; load row by row | a file that is not emptied under its reader loads as the beginning of one fetch's games |
| CLI, report script (`cli.py`, `scripts/mls_poisson_report.py`) | report files | `fetch`, `backtest`, `calibrate`, `compare`, `paper-trade`, the MLS report | exit status 0 means that the reports are whole |

### What is hard here

Interleavings: concurrent `PlaceBet` calls with the mutex released around the
remote call; readers that fill the cache while the poller writes; the two
consumers of paper-trade. Partial failure: reservation and inner call, store
and topic, store and cache, append and close, rewrite and rename. Delivery: an
answer that is lost after the bet was accepted; Kafka records handled twice;
results published at every poll. Crashes: between any two system calls of the
CSV store, between any two remote calls of a poll. Order: state of one refresh
or one fold that the next one replaces. Shared mutable objects: one extractor,
model and calibrator for all games of a backtest, with exceptions caught
between their updates. Files: written in place while another command may read.
Each of these is a row of "hazards".

## 2. The modules

| Module | Models | State and actions against the code |
|---|---|---|
| `SafeBookmaker` | `safe.go` | `pc` walks through `PlaceBet`: `Invoke` reads the balance, `RejectDuplicate` and `Reserve` are the first critical section, `BookAccepts`, `InnerFails`, `AnswerLost` the inner call without the mutex, `Retract` the second critical section |
| `BetGuard` | what safe.go:26-28 promises | one atomic action places a bet, no earlier than `Window` = TTL - MaxCall after a known one on its key |
| `SafeBookmakerProofs`, `PaperTradeProofs`, `MarketDataProofs`, `StoresProofs`, `BacktestProofs`, `LedgerProofs`, `CommandsProofs` | | the theorems of section 5 |
| `FoldTheorems` | | the lemmas on sums, loops and recursive functions that they share |
| `SimulatedBookmaker` | `simulated.go` | each method is one action, as one mutex covers it |
| `PaperTrade` | `services/paper-trade/main.go`, `memory.go` | EXTENDS `SimulatedBookmaker`: the lines consumer calls `SetMarket` and `GetOffers` (`TakeLines`), then tries offer after offer (`SkipOffer`, `OfferGone`, `PlaceBet`, `SaveBet`); the scores consumer reads open bets (`TakeScore`) and resolves them one by one (`ResolveNext`) |
| `MarketData` | `services/market-data/main.go` | `phase` walks through `pollCycle`; `SaveMarket` and `Invalidate` are the two halves of `SaveLines`, `PublishLines` the Kafka write; every remote call also has a failing action, and `Crash` is possible anywhere |
| `LineCache` | `cachestore/store.go` | a reader that misses is `ReadBacking`, then `FillCache` or `FillFails`; the writer is `BackingSaves`, then `CacheDeletes` or `CacheDeleteFails` |
| `OddsFeed` | `theoddsapi.go`, `odds.go`, `devig.go`, the save of `poll`, `postgres.go` | `Refresh` rebuilds the whole cache of the provider for one sport, `SaveEvent` upserts the lines of one event |
| `BetStore` | the `BetStore` interface, `memory.go` | the list of bets, each method atomic |
| `CSVBetStore` | `csv.go` | each method is the sequence of its system calls, any of which may fail or be the last one of the process |
| `WalkForward` | `pipeline.py`, `calibration/model.py` | `phase` walks through `predictions` and `_fit`; a fitted object is the set of games it was fitted on |
| `Features` | `features/`, the ratings of `elo.py` | pure operators: `RatingsAfter` folds `Update` over the games, `NFLFeatures`, ..., `SoccerFeatures` are the `extract` methods |
| `Estimates` | `modeling/`, `CalibratedModel.predict` | `EstimatesOf` is the set of what `predict` may return, a single estimate for Elo and Poisson; `Calibrate` is the calibrated one |
| `Backtest` | the walk with its models and extractors inside | EXTENDS `WalkForward`, `Estimates`: each step of the walk with its effect on the `parts` of the model (`FitParts`, `FitPartsFails`, `OneClass`) and with the estimate it yields (`PredictAndYield`) or fails to (`PredictRaises`) |
| `Ledger` | `pipeline.run`, value, sizing, tracking, `calibration/metrics.py`, `curve.py`, and `report.go` | `RunGame` is one iteration of `run`; the reports and metrics are operators on the ledger |
| `Fetcher` | `ecnl.py` | each request is an action (`GetEventIds`, `GetFlightIds`, `GetSchedule`), any of which may fail |
| `DataFiles` | the `fetch` command, `base.py`, `asa.py`, `wpsl.py`, `squadi.py`, `fetch_nfl_data.py` | EXTENDS `Fetcher`: a `Command` fetches from one `source` (`AsaSeason`, `AsaAll`, `WpslYear`, `WpslCompetition`, `NflSchedule`, or the steps of `Fetcher`), then writes the file (`OpenCsv`, `WriteRow`, `CloseCsv`, `WriteStops`) |
| `Commands` | `cli.py`, `loader.py`, `mls_poisson_report.py` | EXTENDS `DataFiles`: `Process` opens the file at any moment of its writing; `ReadOn` reads its next row, `ReadRewritten` one of a file that was emptied under the reader, `Raises` and `Analyse` end the load; `WriteReport`, `ReportFails`, `OutsideRepo` end the command |

`MC...` modules give the constants that a `.cfg` cannot write. Some operators
stand beside a definition as what a plausible bug would make of it, each with
a comment that says so (`ReserveBackdated`, `FillKeepsOffer`, `SaveOnlyNews`,
...). No specification uses them; PROJECT.json puts each in place of the real
one, and names the property that then fails.

Abstractions worth knowing:

* `SafeBookmaker`: `MaxCall` stands for the longest time from a reservation to
  the end of its call; in the program it is the HTTP timeout of the Pinnacle
  client, an option of its own that nothing compares with `dedupTTL`. A bet
  whose answer was lost is one the client cannot know of: `lost` keeps these
  out of `NoDoubleBet` and out of what `BetGuard` counts.
* `SimulatedBookmaker`: probabilities and odds are integers in units of
  `1/Scale`; a call that is refused without any effect is no step. A request
  names its market and side apart from its offer, and it is their line that a fill moves
  (simulated.go:200-205); paper-trade asks for those of the offer.
* `OddsFeed`: a book quotes both sides, one or none; prices of zero are no quote.
* `PaperTrade`: the topics are external. Offsets are committed in the
  background, so a rebalance may fall back to any earlier record.
* `MarketData`, `LineCache`: the lines of a market are a version number. The
  client-side cache of `DoCache` counts as part of the cache. The two modules
  share the two halves of `SaveLines`: what the poll sees of them is in
  `MarketData`, what the cache holds in between is in `LineCache`.
* `CSVBetStore`: money columns, header cut short and rows cut short in a file
  without a header are left out. `spoiled` marks the
  two defects after which a reader misses acknowledged rows: a header that was
  never written, and a row appended to one without its newline. `AckedKept`
  says nothing of a spoiled file; both are in the hazards.
* `WalkForward`: `n * (1 - fraction)` is exact here; the float product may
  round one lower. What models learn is left out, only from which games. `MinTrain`
  may be zero, as `--min-train` may; then the first game has no training games. The runs
  have one; the theorems on the walk by itself, whose proofs use
  `WalkConstants` alone, cover zero. `Backtest` assumes one or more.
* `Features`: ratings and shares are integers in fixed units. The logistic
  curve and the logarithms of the margin are constants, of which only symmetry
  and range are assumed (`FeatureConstants`); the run gives a straight line
  between two plateaus and rounded logarithms.
* `Estimates`: scikit-learn is external. A classifier may return any
  distribution over the classes it was fitted on, a quantile regression any
  probability but zero and one, a calibrator any. Goal rates are rounded down
  to `1/LambdaUnit`; score probabilities are then exact, as the factor
  `e^-rate` is common to all scores.
* `Backtest`: a model is the list of its parts, each the set of games it was
  last fitted on. `EloModel.fit` keeps ratings that no `predict` reads, and it
  has no part.
* `Ledger`: rationals are exact, in units chosen so that no division leaves a
  remainder (`LedgerConstants`). The calibration error (`ErrorBin`) and the curve (`Bin`) bin
  in passes of their own, as in the code. Closing-line value, Sharpe ratio, log loss and
  the Monte Carlo estimate of ruin are left out.
* `Fetcher`: the calendar is fixed, as ecnl.py:11-13 says; a match is
  completed once it has a score; events and flights come in any order.
* `DataFiles`: one calendar serves all sources. A row is a match and the
  version of its score. Versions below `Final` are scores of matches under way:
  only the status filters keep them out. An answer of ASA never has more than `Cap`
  records, be it for a season or for all. The file is its header, its whole
  rows and perhaps a torn one, cut where fields are missing or in its last field,
  which `_parse_row` accepts; the writer's buffer may be flushed after any row.
* `Commands`: the reader's buffer may end between two rows or inside one
  (`cut`). When the file is emptied and written anew under it, it stays at its
  offset: if what it read begins the new file too, the next row is the next one;
  if not, the offset lies at the beginning of any row behind the first or at the end,
  since rows differ in length, and a row that its buffer had cut is joined from two files or
  raises. What a walk over the games predicts is one of `Walks`, since
  `Backtest` has the details. Reports are not formatted. The NFL script is a
  source; its odds conversion is left out.

## 3. Runs

Every run finishes within two or three minutes with two workers. Deadlock is checked
unless noted.

| Run | Bounds | Checks |
|---|---|---|
| `safe_guard` | 2 callers, 1 key, TTL 2, MaxCall 1, stakes 1 and 3, cap 1, floor 2, funds 3, 3 bets, clock 0..3 | `NoDoubleBet`, `NoOrphanReservation`, `OverdraftBounded`, liveness `OpportunityFreed`, refinement `GuardSpec` |
| `safe_slow_call` | 3 callers, MaxCall 3 (longer than TTL 2), clock 0..4 | violates `NoDoubleBet` (finding 1) |
| `sim_book` | 1 market, 2 sides, 4 numbers, limit after 1 win, offers that live through one instant | `BookTypeOK`, `FillsApart`, `LimitHolds` |
| `paper_trade` | 1 market, 2 games, 2 sides, 1 lines record, 2 results, 1 disruption | `FillsSaved`, `SettledByResult`, `SettledOnce`, liveness `ResultSettles`; deadlock off: the topics are used up |
| `paper_hang` | as above, 1 result, clock 0 | violates liveness `ShutdownEnds` (finding 2) |
| `market_data` | `MarketData`: 2 markets, 2 games, 2 versions, 2 faults; `OddsFeed`: 2 sports, 3 events (one out of season), 2 books, odds -150, 0 and +120, 2 changes of the feed, 1 fault | `PublishedWasSaved`, liveness `OddsReachTopic`, `ScoresReachTopic`; `PollComplete`, `SnapshotSumsToOne` |
| `lone_line` (`MCOddsFeed`) | `OddsFeed` as in `market_data` | violates `LoneLineKeepsRaw` (finding 3) |
| `stores` | `LineCache`: 1 market, 2 sides, 2 readers, TTL 1, MaxFill 1, 2 versions, clock 0..3; `CSVBetStore`: 2 IDs, 2 faults | `BoundedStaleness`; `AckedKept`, refinement `StoreSpec`; deadlock off: a file that cannot be read stops every method |
| `walk_forward` (`MCBacktest`) | 6 games of 3 teams on 3 dates, all assignments of dates; 1 training game, half for calibration, 2 exceptions; seven setups of sport, model and season, with an early tie, a late one or none | `NoLookahead`, `HeldOut`, `Complete`, `FittedTogether`, `FeaturesOfWindow`, `RatingsConserved`, `RatingFollowsForm`, `CorrectionKeepsMarginals`, `EstimatesAreDistributions`; deadlock off: the walk ends |
| `ledger` | 3 games, probabilities in quarters, decimal odds 2, 3 and 5 or none, a three-way model and a two-way one that is sure of its winner, both sizers, 2 bins, all scores of 0 and 1 | `StakesWithinBankroll`, `NoSureLoss`, `DrawdownIsWorstFall`, `MetricsAgree`, `ReportsAgree`; deadlock off: the games end |
| `fetcher` (`MCCommands`) | 2 seasons, 2 events (one in the main competition), 3 flights that share 2 matches, versions 1 and 2 of a score, cap 1, all five sources, 2 fetches, 1 failure, 1 analysis with any command | `FetchedOnce`, `FetchFresh`, `FetchComplete`, `SeasonsComplete`, `LoadedIsPrefix`, `ReportsOfThisRun`; deadlock off: the commands end |
| `rewritten_load` (`MCCommands`) | as `fetcher`, ASA by season, cap 2, no failure, buffers that end between rows | violates `LoadedInFileOrder` (finding 4) |

Why these bounds are enough to be interesting. A race in `PlaceBet` takes two
callers; the one that needs a slow call takes three, which is why the
violating run has three. The clock of `safe_guard` passes the TTL, so
reservations expire. In `LineCache` a fill that began before a save can end
after its deletion, and its entry can expire, within the clock. In
`CSVBetStore` a second fault can hit the recovery from a first one; a torn
append, a repeated save and a rewrite over an old `path.tmp` all occur. Six
games give a fold of more than one game, ties, and a split of zero. In
`ledger` a game can have value on two sides, and three results are the fewest
with a fall that is not the last one; a probability of one is where the
binning could fail. In `walk_forward` an ensemble meets its first tie early
enough to refuse the games after it, windows of one class make classifiers
raise, and every model fails between any two of its parts. In `fetcher` one match
lies in two flights and another in two seasons, a second fetch truncates the
file of the first between two reads of an analysis, and the one failure may hit a
request, a row or a report.

`market_data` and `stores` hold two modules each, which share no variable and which no
property relates. A step of one is therefore explored only while the other has
its initial state (`PollsNext`, `StoresNext`): what either can do alone is all that its
properties are about.

`fetcher` has an action constraint, `OneOrder` of `MCCommands`. An analysis and the
requests of a fetch touch nothing in common, and neither do two commands after
the load; the constraint keeps one of their orders: an analysis begins and reads when no
fetch is at its requests, and once it is loaded the fetch waits for its end. Only the script
(`report`) loads while a fetch goes on: all commands load alike, so what it may load the others
may. Every order of its reads and the writing of the file is kept. `rewritten_load` adds `WholeRows`, which only
makes its counterexample shorter to read.

The bound constants (`MaxNow`, `MaxBets`, `MaxCount`, `MaxWins`, `MaxVer`,
`MaxFaults`, `MaxFailures`, `MaxLines`, `MaxScores`, `MaxFetches`, `MaxUpdates`, `MaxGames`,
`MaxRuns`, `LastDate`, `Funds`) only cut off behaviours; each is in a guard.
`SYMMETRY` is used in `stores`, on sets whose elements are alike, and where no
liveness is checked.

### Fairness

* `SafeBookmaker`: weak fairness of every caller's `Step`. A goroutine inside
  `PlaceBet` is scheduled and its HTTP call ends. Calls are never forced to
  begin.
* `PaperTrade`: weak fairness of `LinesStep`, `ScoresStep` and `Exit`: the two
  `Subscribe` loops and main run while they have something to do. Nothing
  forces a fault, a restart or a new record.
* `MarketData`: weak fairness of `Poll`: the ticker keeps firing and a poll
  under way goes on. Faults are bounded, so some poll gets through; `ScoresReachTopic`
  only speaks of games that stay inside the scores window.

## 4. Findings

1. `safe_slow_call` (safe.go:129). The retraction deletes the key without
   checking that the reservation there is still its own. A call that outlives
   `dedupTTL` and then fails deletes the reservation of another goroutine's
   bet, and a third one bets again inside that bet's window. With calls shorter
   than the TTL it cannot happen, for any number of callers and keys
   (`GuardCorrect`).
2. `paper_hang` (services/paper-trade/main.go:67). `Subscribe` also returns on a
   broker error, while the context lives. When the lines loop ends so, main
   waits in `wg.Wait` for the scores goroutine, whose context only the defer
   of line 37 cancels, which would run after it: the process hangs, and the `restart: unless-stopped`
   of docker-compose.yml:97 never applies. The comment at 64-65 says that the
   goroutine's loop returns when the context is cancelled.
3. `lone_line` (internal/marketdata/devig.go:41). A line alone in its snapshot
   is devigged to one, although the comment says that it keeps its raw
   probability.
4. `rewritten_load` (src/bet/backtesting/loader.py:36, with cli.py:610 and
   fetch_nfl_data.py:97). A fetch empties and rewrites in place a file that an analysis
   is reading. The reader goes on at its offset, and its games are not "in file order"
   (loader.py:32) of either file: a match may be loaded twice, with no
   error.

Smaller disagreements that we saw and that have no run:

* the scores loop of paper-trade, too, ends on a broker error while the context lives
  (services/paper-trade/main.go:108-112, against 65): the error is logged, and the service
  goes on taking bets that nothing settles (`ScoresPollFails`; `ResultSettles`
  speaks of results read while the loop lives);
* the quote is compared with the odds in the offer, not with the line
  (simulated.go:190, against client.go:21-23);
* `SaveLines` deletes the closing-line key of only the first side of a market
  (store.go:45-46 against 54; expiry bounds the effect, as `BoundedStaleness`
  shows);
* open bets enter the report as lost (services/paper-trade/main.go:219-233 with
  report.go:27);
* base.py:40 says that without seasons "a single call fetches all available
  data"; the API caps an answer at 1000 records (asa.py:9-12), and this call has
  no status filter (asa.py:67-69), so matches under way come too;
* poisson.py:13-14 and 31-32 say that a negative rho reduces draws; lines
  124-127 give the factors 1 - λμρ and 1 - ρ to 0-0 and 1-1, so it adds to them;
* an ensemble of Elo and a classifier raises on every game once its training
  window has a tie (ensemble.py:76-81): `compare` then lists it with the few
  games before, ranked beside models graded on all (cli.py:395 promises "the
  same walk-forward window");
* `_models_for_sport` (cli.py:342) returns "every model name that is valid", and for
  soccer lists `elo` and `ensemble`, which `_build_model_and_extractor` refuses;
* `--k-factor` is 20 for every sport, so the lower default of the MLB extractor
  (mlb.py:50, docs/architecture/README.md:209) is never used; `EloModel` in the
  CLI has the home advantage of the NFL, whatever the extractor assumes;
* only the NFL extractor takes weather: a row of another sport that has it
  raises `TypeError` in `extract`, and the game is silently skipped;
* `fetch --league ecnl` writes four leagues into one file, while soccer.py:27-28
  says that leagues must never be mixed;
* a CSV file cut at the end of a row, or in its last field, is loaded without complaint, and `backtest`
  of an empty one exits 0.

## 5. Proofs

Eight modules hold theorems, each for every value of the constants that the
named assumption of its component allows: any numbers of callers, markets,
games, seasons, faults, and any bounds. Each rests on an inductive invariant,
called `IInv` unless another name is given, which TLC first checked on a run.

`SafeBookmakerProofs`, under `ConstantsOK`:

| Theorem | States |
|---|---|
| `TypeCorrect` | `Spec => []TypeOK` |
| `GuardCorrect` | if `MaxCall < TTL`, no two bets that the client knows of are placed on one key within the TTL |
| `GuardImplemented` | if `MaxCall < TTL`, `SafeBookmaker` implements `BetGuard`: initial states map to initial states and every step to a step or a stutter |
| `NoOrphanCorrect` | a reservation stands for a bet at the bookmaker or for a call under way; no assumption on `MaxCall` |
| `FloorCorrect` | the floor is crossed by at most one capped stake for each other caller |

`NoDoubleBet` is not inductive. That a second bet is not placed depends on who
owns a reservation, so `IInv` adds: the holder of a running call has its own
instant, at most `MaxCall` old, in `recentBets` (`HolderOwns`), two holders are never on one key
(`HoldersApart`), a known bet is covered by the reservation of its key or is a
TTL old (`BetCovered`), a holder without a bet was let in a TTL after any known
bet on its key (`HolderFresh`), bets are numbered in order (`BetsNumbered`), and a caller whose
answer is under way has a bet of its own, beside which known bets on its key
are a TTL older (`AcceptedKnown`, `AcceptedFresh`). `MaxCall < TTL` enters
once: with it, a reservation cannot expire under its holder. This is exactly
what finding 1 breaks. The floor needs a count: balance and the stakes of the
callers that have passed the check are related through the number of these
callers (`OthersCount`, `OneStakeMore`, `FloorStep`).

`PaperTradeProofs`, under `BookConstants` and `PaperConstants`:

| Theorem | States |
|---|---|
| `BookTypeCorrect`, `FillsApartCorrect`, `LimitCorrect` | `BookTypeOK`, `FillsApart` and the action property `LimitHolds` of `SimulatedBookmaker` |
| `ServiceBookCorrect` | `BookTypeOK` and `FillsApart` of the book inside the service, whatever is redelivered and whenever it restarts |
| `FillsSavedCorrect` | a filled offer is in the store, or is the one bet that the lines consumer has yet to save |
| `SettledByResultCorrect` | a settled bet was settled by a result of its own game |
| `SettledOnceCorrect` | no step changes a settled bet |

That every bet has an ID of its own needs `BookInv`: offers and fills are numbered
by one counter, no stored offer has the number of a filled one
(`OffersNumbered`, `FillsNumbered`). The service's `IInv` adds what goes on between the two
consumers: at most one fill is unsaved and it is the one under way (`OneUnsaved`),
what is stored was filled (`StoredWasFilled`), the bets that a scores record resolves are
those of its game, and were open when they were read (`ResolvesOpen`).

`MarketDataProofs`, under `MarketDataConstants`: `TypeCorrect`, and `StoreFirst`,
that the lines topic never runs ahead of the store. A save replaces what the
store has by the snapshot of the poll, so the topic stays behind only if
snapshots never go back: the invariant orders topic, store, snapshot and
provider (`StoreFollowsFeed`), says that what waits for publication was just
saved (`SavedBeforePublished`, `OneMarket`), and that nothing of it outlives the
poll (`PollOver`).

It also has those of `OddsFeed`, under `FeedConstants` and `ScaleConstants` (no price
but zero has a probability that rounds to zero). `PollCorrect`: a poll without a
failed call leaves all it fetched in the store. The refresh of one sport throws
away the cached lines of another, so `FeedInv` must say that by then they
are saved: while events are left to save, their lines are still in the cache and
are the newest of their ID that the poll has fetched (`NewestToSave`), and every line
fetched is saved or pending there (`NothingLost`). `Upsert` chooses one line for each
ID; that there is only one is `CacheOnce`, from the form of a response.
`SnapshotCorrect`, of snapshots of two or more sides: the shares of a whole, each rounded down, lose less than one for each of
them (`SharesAddUp`); this is carried to the store by `SnapInv`, since the cache has of a quote
one version and that one whole (`CacheWhole`), what it has is what the quote is
devigged to (`OfQuote`), and the store has no lines of that version that the cache has not
(`StoreBehind`).

`StoresProofs`, under `CacheConstants`: `StalenessCorrect`, by `CacheInv`. What a reader carries from
the store to the cache was current when it read it (`ReaderFresh`), and what lies in
the cache was current `MaxFill` before it was filled in (`EntryFresh`); a save moves the
former value to `retired` with the time of its end, which is what both count
from (`CurrentSince`).

Under `CSVConstants`: `AckedKeptCorrect`, and `StoreImplemented`, that
`CSVBetStore` implements `BetStore` through a refinement mapping that reads the list of bets
from the file (`StoreSpec`): the rename and the whole append are the steps of the
store, every other system call a stutter. The invariant says of a method under way
that what it checked at its start is still so (`OpInPlace`), that the visible rows have
IDs of their own (`Distinct`), and in what states of the header a first row goes
missing (`HeaderOK`).

`BacktestProofs`, under `WalkConstants` and `SetupConstants`, for both the walk by itself (`Spec`
of `WalkForward`) and the walk with models and extractors inside (`BSpec`):
`TypeCorrect`, `NoLookaheadCorrect`, `HeldOutCorrect`, `CompleteCorrect`, and for
`BSpec` also `WindowCorrect` and `FittedTogetherCorrect`. The shared calibrator is what needs
an invariant: whichever game it was fitted for, what it was learnt from is
before the present one, since the dates are sorted (`DatesSorted`, `BeforeGrows`,
`CalibratorOld`), and apart from its model (`ModelFits`, `FoldApart`, `CalibratorHeldOut`).
`FitGamesExist` is where `max(1, ...)` of pipeline.py:203 is needed; that models are fitted
on some game at all is claimed for `MinTrain > 0` only (`UnderWay`). Completeness
needs a count of the fold (`NothingRaised`): as long as nothing raised, the fold so far
has a probability for each of its games, and so a calibrator is fitted exactly
when the fold can teach one. Windows of features need `ExtractorFits`: the fold leaves the
shared extractor fitted on its training part, and no prediction that should see more
is made before it is fitted again.

Four theorems of `BacktestProofs` are about what `BSpec` yields, under `FeatureConstants` and
`EstimateConstants` as well: `RatingsConservedCorrect`, `RatingFollowsFormCorrect`,
`EstimatesCorrect` and `MarginalsCorrect`. Their invariant, `YieldedOf`, says that the yielded
features are those of the window and that the estimate is one that the model
may return for them, or is calibrated from one; the rest is about the operators
of `Features` and `Estimates`. `Update` takes from one team what it gives to the other and
nothing from a winner (`UpdateFacts`, `RatingsFacts`, `FollowsFacts`); weights, ensembles and
calibration give distributions (`QuantileFacts`, `EnsembleFacts`, `Weighs`, `CalibrateFacts`); of the four
corrected scores two gain what two lose, in each row and each column of the
table (`CorrectionType`, `MarginalFacts`). The first three theorems are stated for `Differences = Int`: this
constant only bounds the arguments at which TLC evaluates the logistic curve, and
with all integers `FeatureConstants` is what the real curve satisfies. `MarginalsCorrect` needs no
such hypothesis. It excepts, as the property does, rates so high that a
factor is cut off at zero.

`LedgerProofs`, under `LedgerConstants`, by `LedgerInv`: a side of a game is bet at most once
(`SidesApart`), the bets of a game are sized by one estimate (`OneModel`), each has odds and the
edge of its detector (`Priced`). `StakesCorrect`: Kelly stakes of one game stay within the fraction
of the bankroll, since each is at most its estimated probability's share of
it and these sum to one. `DrawdownCorrect`: the one pass finds the worst fall between any two
moments. `GoReportCorrect`: the Go report equals the Python one, each loop equal to its sum.
`MetricsCorrect`: the three calibration metrics fit together for any number of bins. The
edges of the bins are where the code's floor puts them (`BinFacts`), so that each bet is in one
bin (`TotalFibers`), the same in both passes (`SameBins`), and the points, in the ascending order that a finite set of bins always has
(`AscendingExists`), are told apart by an edge. The calibration error is then bounded from below
by the triangle inequality over the bins, and from above by that of Cauchy and Schwarz
(`TotalSquare`), which is proved by induction over the bets.
`NoSureLossCorrect`: if every result of a game cost more than it pays, the estimate would give
the bets no value on average. Flat stakes need `MinEdge > 0` for it (detector.py:22 has 0.02
unless it is set): without, the bets may be worth exactly nothing.

`FoldTheorems` holds what these proofs need of the folds of the community modules and of
recursive functions. The function that such a definition chooses is shown to exist and to
be the only one, by well-founded induction over the subsets of a finite set or
over the lengths of a list, without a theorem that takes an operator. Then sums
(`TotalUnion`, `TotalImage`, `TotalExcept`, `TotalTimes`, `TotalFibers`, `TotalSquare`, ...) and loops (`LoopExists`, `CountInduction`, `RecursionExists`)
follow as ordinary lemmas.

`CommandsProofs`, under `Calendar`, `DataConstants` and `CommandConstants`, for `Spec` of `Fetcher`:
`OnceCorrect`, `FreshCorrect` and `CompleteCorrect`; and for `CSpec`, where any of five
sources is fetched, written to a file and analysed by concurrent commands:
`FetchesCorrect`, `SeasonsCorrect`, `LoadedCorrect` and `ReportsCorrect`. The loop invariant
`NothingMissed` says of every match that was over when the fetch began that it has been
taken or lies below a season, event or flight still to be visited; it holds on a
reused fetcher because the caches hold only whole answers (`CachesExact`).
`SeasonsLeft` is its counterpart for the other sources. The file and the rows still to be written are
the rows of one fetch, in date order (`FileInv`). The load goes row by row beside the writer:
while the file is not emptied under the reader, what it has read is what the file begins with
(`LoadInv`, `ReaderInv`), and the file only grows (`FileGrows`), so `LoadedCorrect` says of every
moment of such a load that it has a prefix of one fetch. If the file is emptied, finding 4
shows that nothing of the kind holds. `SeasonsCorrect` is about seasons whose matches
fit into one answer. That rows can be put in date order at all is proved
by well-founded induction on finite sets.

What rests on TLC alone:

* liveness (`OpportunityFreed`, `ResultSettles`, `OddsReachTopic`, `ScoresReachTopic`),
  which is out of the prover's reach;
* that the properties can fail: each is also run against a faulty variant of the
  code, which must violate it.

## 6. Not modelled

* Static and null providers, the HTTP and gRPC servers and the gRPC store only
  pass reads through. SQL, JSON and HTTP coding, migration, metrics and logging
  are I/O.
* What scikit-learn learns: its models are any distribution, any regressor.
  `PlattScaler`, which no command uses; `predict_quantiles`, which nothing calls.
* Log loss, Sharpe ratio and the Monte Carlo estimate of ruin need logarithms,
  roots and random numbers. Closing-line value is one subtraction.
* The `paper-trade` command of the CLI reads two URLs and prints.

## 7. Plan

The core (the guard around real money, the
services that run unattended, what they keep, then the library) stands, with
its models, and every safety property that holds of the code is proved. What the
proofs leave is liveness, for a prover that handles it.

Further modelling: the Pinnacle client under `SafeBookmaker`, with its own
timeout; `LineCache` composed with `MarketData`; closing-line value and its update
of the bet store; the static provider.
