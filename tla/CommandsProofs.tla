--------------------------- MODULE CommandsProofs ---------------------------
(***************************************************************************)
(* Theorems about Fetcher, and about Commands, which composes it with the  *)
(* other sources, the file and the analyses: for every calendar, any       *)
(* number of scores, matches and runs, and any failures.                   *)
(***************************************************************************)
EXTENDS Commands, FiniteSetTheorems, SequenceTheorems, TLAPS

-----------------------------------------------------------------------------
(* The inductive invariant *)

\* What an answer put into a cache is what the API would answer now.
CachesExact ==
    /\ DOMAIN eventIds \subseteq Season /\ DOMAIN flightIds \subseteq Event
    /\ \A s \in DOMAIN eventIds : eventIds[s] = EventsOf[s]
    /\ \A e \in DOMAIN flightIds : flightIds[e] = FlightsOf[e]

\* The loops run inside a season, and only during a fetch.
InSeason == events # {} \/ flights # {} => season \in Season
NotFetching == ~fetching => games = {} /\ events = {} /\ flights = {}

\* The results so far are one per match, and not older than the fetch.
GamesOnce == \A g, h \in games : g.match = h.match => g = h
GamesFresh == \A g \in games : since[g.match] <= g.score
ScoresGrow == \A m \in Match : since[m] <= score[m]

\* A match that was over when the fetch began has been taken, or is below a
\* season, an event or a flight that the loops have still to visit.
StillToVisit(s, e, f) == s \in seasons \/ e \in events \/ f \in flights
NothingMissed ==
    fetching =>
        \A s \in Season : \A e \in EventsOf[s] : \A f \in FlightsOf[e] :
            \A m \in MatchesOf[f] :
                since[m] > 0 => StillToVisit(s, e, f) \/ \E g \in games : g.match = m

\* The same of what was returned, whose own since goes with it.
ReturnedTypeOK ==
    /\ returned.games \subseteq Result
    /\ returned.since \in [Match -> 0 .. MaxVer]

IInv ==
    /\ TypeOK
    /\ CachesExact
    /\ InSeason
    /\ NotFetching
    /\ GamesOnce
    /\ GamesFresh
    /\ ScoresGrow
    /\ NothingMissed
    /\ ReturnedTypeOK
    /\ FetchedOnce
    /\ FetchFresh
    /\ FetchComplete

\* The part of IInv that speaks of what was returned, and the part that
\* speaks of the scores at the API.
ReturnedInv == ReturnedTypeOK /\ FetchedOnce /\ FetchFresh /\ FetchComplete

-----------------------------------------------------------------------------
(* The steps *)

\* A new fetcher has empty caches and has returned nothing (ecnl.py:67-84).
LEMMA FetcherInit == Init => IInv
<1> SUFFICES ASSUME Init PROVE IInv
  OBVIOUS
<1>1. TypeOK /\ CachesExact /\ ReturnedTypeOK
  <2>1. 0 \in 0 .. MaxVer
    BY Calendar
  <2>2. DOMAIN eventIds = {} /\ DOMAIN flightIds = {}
    BY DEF Init
  <2>3. score \in [Match -> 0 .. MaxVer] /\ since = score
    BY <2>1 DEF Init
  <2>4. returned.games = {} /\ returned.since \in [Match -> 0 .. MaxVer]
    BY <2>1 DEF Init, Nothing
  <2> QED
    BY <2>2, <2>3, <2>4 DEF Init, TypeOK, CachesExact, ReturnedTypeOK
<1>2. InSeason /\ NotFetching /\ GamesOnce /\ GamesFresh /\ ScoresGrow /\ NothingMissed
  BY DEF Init, InSeason, NotFetching, GamesOnce, GamesFresh, ScoresGrow, NothingMissed
<1>3. FetchedOnce /\ FetchFresh
  BY DEF Init, FetchedOnce, FetchFresh, Nothing
<1>4. FetchComplete
  BY Calendar DEF Init, FetchComplete, Nothing
<1> QED BY <1>1, <1>2, <1>3, <1>4 DEF IInv

\* A score only changes to a later version.
LEMMA ScoreStep ==
    ASSUME IInv, NEW m \in Match, ScoreChange(m) PROVE IInv'
<1> USE Calendar DEF IInv, ScoreChange, caches, loops, bounds
<1>1. TypeOK'
  BY DEF TypeOK
<1>2. ScoresGrow'
  BY DEF ScoresGrow, TypeOK
<1>3. CachesExact' /\ InSeason' /\ NotFetching' /\ GamesOnce' /\ GamesFresh'
  BY DEF CachesExact, InSeason, NotFetching, GamesOnce, GamesFresh
<1>4. NothingMissed'
  BY DEF NothingMissed, StillToVisit
<1>5. ReturnedTypeOK' /\ FetchedOnce' /\ FetchFresh' /\ FetchComplete'
  BY DEF ReturnedTypeOK, FetchedOnce, FetchFresh, FetchComplete
<1> QED BY <1>1, <1>2, <1>3, <1>4, <1>5

\* A step that returns nothing keeps what was returned as it was.
LEMMA ReturnedStep ==
    ASSUME ReturnedInv, UNCHANGED returned PROVE ReturnedInv'
  BY DEF ReturnedInv, ReturnedTypeOK, FetchedOnce, FetchFresh, FetchComplete

\* fetch begins with an empty list and every season to visit (ecnl.py:91-93).
LEMMA StartStep == ASSUME IInv, StartFetch PROVE IInv'
<1> USE Calendar DEF IInv, StartFetch, caches
<1>1. TypeOK'
  BY DEF TypeOK
<1>2. CachesExact' /\ InSeason' /\ NotFetching'
  BY DEF CachesExact, InSeason, NotFetching
<1>3. GamesOnce' /\ GamesFresh' /\ ScoresGrow'
  BY DEF GamesOnce, GamesFresh, ScoresGrow, NotFetching, TypeOK
<1>4. NothingMissed'
  BY DEF NothingMissed, StillToVisit
<1> QED BY <1>1, <1>2, <1>3, <1>4, ReturnedStep DEF ReturnedInv

\* A season is left for its events, from the cache or from the API.
LEMMA EventIdsStep ==
    ASSUME IInv, NEW s \in Season, GetEventIds(s) PROVE IInv'
<1> USE Calendar DEF IInv
<1>1. /\ fetching /\ flights = {} /\ events = {}
      /\ seasons' = seasons \ {s} /\ season' = s /\ events' = EventsOf[s]
      /\ UNCHANGED <<score, flightIds, fetching, flights, games, since, returned, bounds>>
  BY DEF GetEventIds, CachesExact
<1>2. CachesExact'
  BY DEF GetEventIds, CachesExact
<1>3. TypeOK'
  BY <1>1, <1>2 DEF TypeOK, CachesExact
<1>4. InSeason' /\ NotFetching' /\ GamesOnce' /\ GamesFresh' /\ ScoresGrow'
  BY <1>1 DEF InSeason, NotFetching, GamesOnce, GamesFresh, ScoresGrow
<1>5. NothingMissed'
  BY <1>1 DEF NothingMissed, StillToVisit
<1> QED BY <1>1, <1>2, <1>3, <1>4, <1>5, ReturnedStep DEF ReturnedInv

\* An event is left for its flights.
LEMMA FlightIdsStep ==
    ASSUME IInv, NEW e \in Event, GetFlightIds(e) PROVE IInv'
<1> USE Calendar DEF IInv
<1>1. /\ fetching /\ flights = {} /\ e \in events
      /\ events' = events \ {e} /\ flights' = FlightsOf[e]
      /\ UNCHANGED <<score, eventIds, fetching, seasons, season, games, since,
                     returned, bounds>>
  BY DEF GetFlightIds, CachesExact
<1>2. CachesExact'
  BY DEF GetFlightIds, CachesExact
<1>3. TypeOK'
  BY <1>1, <1>2 DEF TypeOK, CachesExact
<1>4. InSeason' /\ NotFetching' /\ GamesOnce' /\ GamesFresh' /\ ScoresGrow'
  BY <1>1 DEF InSeason, NotFetching, GamesOnce, GamesFresh, ScoresGrow
<1>5. NothingMissed'
  BY <1>1 DEF NothingMissed, StillToVisit
<1> QED BY <1>1, <1>2, <1>3, <1>4, <1>5, ReturnedStep DEF ReturnedInv

\* A flight's matches that are over are taken, unless they were seen before
\* (ecnl.py:100-113).
LEMMA ScheduleStep ==
    ASSUME IInv, NEW f \in Flight, GetSchedule(f) PROVE IInv'
<1> USE Calendar DEF IInv
<1> DEFINE New == {x \in MatchesOf[f] : Completed(x)} \ Seen
<1>1. /\ fetching /\ f \in flights /\ flights' = flights \ {f}
      /\ games' = games \union {ResultOf(m, f) : m \in New}
      /\ UNCHANGED <<score, caches, fetching, seasons, events, season, since,
                     returned, bounds>>
  BY DEF GetSchedule
<1>2. \A m \in New : /\ m \in Match /\ m \notin Seen /\ score[m] > 0
                     /\ ResultOf(m, f) \in Result
                     /\ ResultOf(m, f).match = m
                     /\ ResultOf(m, f).score = score[m]
  BY <1>1 DEF Completed, ResultOf, Result, InSeason, TypeOK
<1> HIDE DEF New
<1>3. CachesExact' /\ InSeason' /\ NotFetching' /\ ScoresGrow'
  BY <1>1 DEF CachesExact, caches, InSeason, NotFetching, ScoresGrow
<1>4. TypeOK'
  BY <1>1, <1>2 DEF TypeOK, caches
<1>5. GamesOnce'
  <2> SUFFICES ASSUME NEW g \in games', NEW h \in games', g.match = h.match PROVE g = h
    BY DEF GamesOnce
  <2>1. CASE g \in games /\ h \in games
    BY <2>1 DEF GamesOnce
  <2>2. CASE g \notin games /\ h \notin games
    BY <2>2, <1>1, <1>2
  <2>3. CASE g \in games /\ h \notin games
    BY <2>3, <1>1, <1>2 DEF Seen
  <2>4. CASE g \notin games /\ h \in games
    BY <2>4, <1>1, <1>2 DEF Seen
  <2> QED BY <2>1, <2>2, <2>3, <2>4
<1>6. GamesFresh'
  BY <1>1, <1>2 DEF GamesFresh, ScoresGrow
<1>7. NothingMissed'
  <2> SUFFICES ASSUME NEW s \in Season, NEW e \in EventsOf[s], NEW d \in FlightsOf[e],
                      NEW m \in MatchesOf[d], since[m] > 0, ~StillToVisit(s, e, d)'
               PROVE \E g \in games' : g.match = m
    BY <1>1 DEF NothingMissed
  <2>1. CASE d = f
    <3>1. m \in Match /\ score[m] > 0
      BY <2>1 DEF ScoresGrow, TypeOK
    <3>2. CASE m \in Seen
      BY <3>2, <1>1 DEF Seen
    <3>3. CASE m \notin Seen
      <4>1. m \in New
        BY <2>1, <3>1, <3>3 DEF New, Completed
      <4> QED BY <4>1, <1>1, <1>2
    <3> QED BY <3>2, <3>3
  <2>2. CASE d # f
    <3>1. ~StillToVisit(s, e, d)
      BY <2>2, <1>1 DEF StillToVisit
    <3> QED BY <3>1, <1>1 DEF NothingMissed
  <2> QED BY <2>1, <2>2
<1> QED BY <1>1, <1>3, <1>4, <1>5, <1>6, <1>7, ReturnedStep DEF ReturnedInv

\* An exception ends the fetch; the caches keep what they had.
LEMMA FailStep == ASSUME IInv, RequestFails PROVE IInv'
<1> USE Calendar DEF IInv, RequestFails, End, caches
<1>1. TypeOK' /\ CachesExact'
  BY DEF TypeOK, CachesExact
<1>2. InSeason' /\ NotFetching' /\ GamesOnce' /\ GamesFresh' /\ ScoresGrow' /\ NothingMissed'
  BY DEF InSeason, NotFetching, GamesOnce, GamesFresh, ScoresGrow, NothingMissed
<1> QED BY <1>1, <1>2, ReturnedStep DEF ReturnedInv

\* fetch returns when nothing is left to visit, so nothing was missed.
LEMMA ReturnStep == ASSUME IInv, Return PROVE IInv'
<1> USE Calendar DEF IInv
<1>1. /\ fetching /\ seasons = {} /\ events = {} /\ flights = {}
      /\ fetching' = FALSE /\ seasons' = {} /\ events' = {} /\ flights' = {}
      /\ games' = {} /\ returned' = [games |-> games, since |-> since]
      /\ UNCHANGED <<score, caches, since, bounds>>
  BY DEF Return, End
<1>2. returned'.games = games /\ returned'.since = since
  BY <1>1
<1>3. TypeOK' /\ CachesExact' /\ ReturnedTypeOK'
  BY <1>1, <1>2 DEF TypeOK, CachesExact, caches, ReturnedTypeOK
<1>4. InSeason' /\ NotFetching' /\ GamesOnce' /\ GamesFresh' /\ ScoresGrow' /\ NothingMissed'
  BY <1>1 DEF InSeason, NotFetching, GamesOnce, GamesFresh, ScoresGrow, NothingMissed
<1>5. FetchedOnce' /\ FetchFresh'
  BY <1>2 DEF FetchedOnce, FetchFresh, GamesOnce, GamesFresh
<1>6. FetchComplete'
  BY <1>1, <1>2 DEF FetchComplete, NothingMissed, StillToVisit
<1> QED BY <1>3, <1>4, <1>5, <1>6

LEMMA FetcherInvariant == Spec => []IInv
<1>1. IInv /\ [Next]_vars => IInv'
  <2> SUFFICES ASSUME IInv, [Next]_vars PROVE IInv'
    OBVIOUS
  <2>1. CASE UNCHANGED vars
    BY <2>1 DEF vars, caches, loops, bounds, IInv, TypeOK, CachesExact, InSeason,
       NotFetching, GamesOnce, GamesFresh, ScoresGrow, NothingMissed, StillToVisit,
       ReturnedTypeOK, FetchedOnce, FetchFresh, FetchComplete
  <2> QED
    BY <2>1, ScoreStep, StartStep, EventIdsStep, FlightIdsStep, ScheduleStep,
       FailStep, ReturnStep DEF Next
<1> QED BY <1>1, FetcherInit, PTL DEF Spec

-----------------------------------------------------------------------------
(* Theorems *)

\* Whatever matches the flights of all seasons share, a fetch returns each of
\* them once (ecnl.py:90).
THEOREM OnceCorrect == Spec => []FetchedOnce
<1>1. IInv => FetchedOnce
  BY DEF IInv
<1> QED BY <1>1, FetcherInvariant, PTL

\* A returned score is one that the match had after the fetch began, however
\* often the fetcher was used before (ecnl.py:13).
THEOREM FreshCorrect == Spec => []FetchFresh
<1>1. IInv => FetchFresh
  BY DEF IInv
<1> QED BY <1>1, FetcherInvariant, PTL

\* Failed fetches leave nothing in the caches that makes a later one miss a
\* match: all that were over when it began are returned.
THEOREM CompleteCorrect == Spec => []FetchComplete
<1>1. IInv => FetchComplete
  BY DEF IInv
<1> QED BY <1>1, FetcherInvariant, PTL

-----------------------------------------------------------------------------
(* The rows of a fetch *)

\* Of the members of a set that have dates, one is not later than any other.
LEMMA EarliestExists ==
    ASSUME NEW X, X # {}, \A r \in X : DateOf[r.match] \in Nat
    PROVE  \E x \in X : \A y \in X : DateOf[x.match] <= DateOf[y.match]
<1> DEFINE D == {DateOf[r.match] : r \in X}
<1>1. D \subseteq Nat /\ D # {}
  OBVIOUS
<1> HIDE DEF D
<1>2. PICK d \in D : \A e \in D : <<e, d>> \notin OpToRel(<, Nat)
  BY <1>1, NatLessThanWellFounded, WFMin
<1>3. OpToRel(<, Nat) = {ss \in Nat \X Nat : ss[1] < ss[2]}
  BY Zenon DEF OpToRel
<1>4. \A e \in D : d <= e
  <2> SUFFICES ASSUME NEW e \in D, e < d PROVE FALSE
    BY <1>1
  <2>1. <<e, d>> \in {ss \in Nat \X Nat : ss[1] < ss[2]}
    BY <1>1
  <2>2. <<e, d>> \in OpToRel(<, Nat)
    BY <1>3, <2>1, Zenon
  <2> QED BY <1>2, <2>2, Zenon
<1> QED BY <1>4 DEF D

\* The rows of any finite set can be listed in the order of their dates: a
\* smallest set without such a list would have one, its earliest row first.
LEMMA ListExists ==
    ASSUME NEW R, IsFiniteSet(R), \A r \in R : DateOf[r.match] \in Nat
    PROVE  \E rows \in Bijection(1 .. Cardinality(R), R) : InDateOrder(rows)
<1> DEFINE Listable(X) == \E rows \in Bijection(1 .. Cardinality(X), X) : InDateOrder(rows)
           Bad == {X \in SUBSET R : ~Listable(X)}
<1>1. SUFFICES Bad = {}
  BY <1>1
<1>2. SUFFICES ASSUME Bad # {} PROVE FALSE
  OBVIOUS
<1>3. PICK X \in Bad : \A Y \in Bad : <<Y, X>> \notin StrictSubsetOrdering(R)
  <2>1. IsWellFoundedOn(StrictSubsetOrdering(R), SUBSET R)
    BY FS_StrictSubsetOrderingWellFounded, FS_FiniteSubsetsOfFinite
  <2>2. Bad \subseteq SUBSET R
    OBVIOUS
  <2> HIDE DEF Bad
  <2> QED BY <1>2, <2>1, <2>2, WFMin
<1>4. X \in SUBSET R /\ ~Listable(X) /\ IsFiniteSet(X)
  BY FS_Subset
<1>5. X # {}
  <2> SUFFICES ASSUME X = {} PROVE Listable(X)
    BY <1>4
  <2> DEFINE none == [i \in 1 .. 0 |-> i]
  <2>1. Cardinality(X) = 0
    BY FS_EmptySet
  <2>2. none \in Bijection(1 .. 0, X)
    BY DEF Bijection, Injection, Surjection, IsInjective
  <2>3. InDateOrder(none)
    BY DEF InDateOrder
  <2> QED BY <2>1, <2>2, <2>3
<1>6. PICK x \in X : \A y \in X : DateOf[x.match] <= DateOf[y.match]
  BY <1>4, <1>5, EarliestExists
<1> DEFINE Y == X \ {x}
           n == Cardinality(Y)
<1>7. IsFiniteSet(Y) /\ n \in Nat /\ Cardinality(X) = n + 1
  <2>1. IsFiniteSet(Y) /\ Cardinality(Y) = Cardinality(X) - 1
    BY <1>4, <1>6, FS_RemoveElement
  <2>2. Cardinality(Y) \in Nat /\ Cardinality(X) \in Nat
    BY <1>4, <2>1, FS_CardinalityType
  <2> QED BY <2>1, <2>2
<1>8. Listable(Y)
  <2>1. Y \in SUBSET R /\ <<Y, X>> \in StrictSubsetOrdering(R)
    BY <1>4, <1>6 DEF StrictSubsetOrdering
  <2>2. Y \notin Bad
    BY <1>3, <2>1
  <2> QED BY <2>1, <2>2
<1> PICK rows \in Bijection(1 .. n, Y) : InDateOrder(rows)
  BY <1>8
<1> DEFINE t == [i \in 1 .. n + 1 |-> IF i = 1 THEN x ELSE rows[i - 1]]
<1>9. /\ rows \in [1 .. n -> Y]
      /\ \A i, j \in 1 .. n : rows[i] = rows[j] => i = j
      /\ \A y \in Y : \E i \in 1 .. n : rows[i] = y
      /\ \A i, j \in 1 .. n : i < j => DateOf[rows[i].match] <= DateOf[rows[j].match]
  BY DEF Bijection, Injection, Surjection, IsInjective, InDateOrder
<1> HIDE DEF n, Y
<1>10. \A i \in 1 .. n + 1 : i = 1 \/ i - 1 \in 1 .. n
  BY <1>7
<1>11. t \in Bijection(1 .. n + 1, X)
  <2>1. t \in [1 .. n + 1 -> X]
    BY <1>6, <1>9, <1>10 DEF Y
  <2>2. ASSUME NEW i \in 1 .. n + 1, NEW j \in 1 .. n + 1, t[i] = t[j] PROVE i = j
    <3>1. CASE i = 1 /\ j = 1
      BY <3>1
    <3>2. CASE i # 1 /\ j # 1
      <4>1. rows[i - 1] = rows[j - 1] /\ i - 1 \in 1 .. n /\ j - 1 \in 1 .. n
        BY <1>10, <2>2, <3>2
      <4>2. i - 1 = j - 1
        BY <1>9, <4>1
      <4> QED BY <1>7, <4>2
    <3>3. CASE i = 1 /\ j # 1
      BY <1>9, <1>10, <2>2, <3>3 DEF Y
    <3>4. CASE i # 1 /\ j = 1
      BY <1>9, <1>10, <2>2, <3>4 DEF Y
    <3> QED BY <3>1, <3>2, <3>3, <3>4
  <2>3. ASSUME NEW y \in X PROVE \E i \in 1 .. n + 1 : t[i] = y
    <3>1. CASE y = x
      BY <1>7, <3>1
    <3>2. CASE y # x
      <4> PICK i \in 1 .. n : rows[i] = y
        BY <1>9, <3>2 DEF Y
      <4>1. i + 1 \in 1 .. n + 1 /\ i + 1 # 1 /\ (i + 1) - 1 = i
        BY <1>7
      <4>2. t[i + 1] = y
        BY <4>1
      <4> QED BY <4>1, <4>2
    <3> QED BY <3>1, <3>2
  <2> QED BY <2>1, <2>2, <2>3 DEF Bijection, Injection, Surjection, IsInjective
<1>12. InDateOrder(t)
  <2> SUFFICES ASSUME NEW i \in 1 .. n + 1, NEW j \in 1 .. n + 1, i < j
               PROVE  DateOf[t[i].match] <= DateOf[t[j].match]
    BY DEF InDateOrder
  <2>1. j - 1 \in 1 .. n /\ t[j] = rows[j - 1] /\ rows[j - 1] \in X
    BY <1>7, <1>9 DEF Y
  <2>2. CASE i = 1
    BY <1>6, <2>1, <2>2
  <2>3. CASE i # 1
    <3>1. i - 1 \in 1 .. n /\ t[i] = rows[i - 1] /\ i - 1 < j - 1
      BY <1>7, <2>3
    <3> QED BY <1>9, <2>1, <3>1
  <2> QED BY <2>2, <2>3
<1>13. Listable(X)
  BY <1>7, <1>11, <1>12
<1> QED BY <1>4, <1>13

\* What a fetch has to write: rows in the order of their dates, one per match.
Row == [match : Match, score : 0 .. MaxVer]
Ordered(rows) ==
    /\ rows \in Seq(Row)
    /\ InDateOrder(rows)
    /\ \A i, j \in DOMAIN rows : rows[i].match = rows[j].match => i = j

OnePerMatch(S) ==
    /\ \A g \in S : g.match \in Match /\ g.score \in 0 .. MaxVer
    /\ \A g, h \in S : g.match = h.match => g = h

LEMMA RowsOfFacts ==
    ASSUME NEW S, OnePerMatch(S)
    PROVE  /\ Ordered(RowsOf(S))
           /\ \A g \in S : \E i \in DOMAIN RowsOf(S) : RowsOf(S)[i].match = g.match
<1> DEFINE R == {[match |-> g.match, score |-> g.score] : g \in S}
           n == Cardinality(R)
           rows == RowsOf(S)
<1>1. /\ \A r \in R : r \in Row
      /\ \A r, q \in R : r.match = q.match => r = q
  BY DEF OnePerMatch, Row
<1>2. IsFiniteSet(R)
  <2> DEFINE f == [r \in R |-> r.match]
  <2>1. f \in [R -> Match] /\ \A r, q \in R : f[r] = f[q] => r = q
    BY <1>1 DEF Row
  <2> HIDE DEF R
  <2>2. f \in Injection(R, Match)
    BY <2>1 DEF Injection, IsInjective
  <2> QED BY <2>2, FS_Injection, DataConstants
<1>3. n \in Nat
  BY <1>2, FS_CardinalityType
<1>4. \A r \in R : DateOf[r.match] \in Nat
  BY <1>1, DataConstants DEF Row
<1>5. rows \in Bijection(1 .. n, R) /\ InDateOrder(rows)
  <2>1. \E b \in Bijection(1 .. n, R) : InDateOrder(b)
    BY <1>2, <1>4, ListExists
  <2> QED BY <2>1 DEF RowsOf
<1>6. \A g \in S : [match |-> g.match, score |-> g.score] \in R
  OBVIOUS
<1> HIDE DEF R, n, rows
<1>7. /\ rows \in [1 .. n -> R] /\ \A i, j \in 1 .. n : rows[i] = rows[j] => i = j
      /\ \A r \in R : \E i \in 1 .. n : rows[i] = r
  BY <1>5 DEF Bijection, Injection, Surjection, IsInjective
<1>8. rows \in Seq(Row)
  <2>1. rows \in [1 .. n -> Row]
    BY <1>1, <1>7
  <2> QED BY <1>3, <2>1
<1>9. Ordered(rows)
  <2>1. \A i, j \in DOMAIN rows : rows[i].match = rows[j].match => i = j
    BY <1>1, <1>7
  <2> QED BY <1>5, <1>8, <2>1 DEF Ordered
<1>10. ASSUME NEW g \in S PROVE \E i \in DOMAIN rows : rows[i].match = g.match
  <2> DEFINE r == [match |-> g.match, score |-> g.score]
  <2>1. r \in R /\ r.match = g.match
    BY <1>6
  <2> HIDE DEF r
  <2>2. PICK i \in 1 .. n : rows[i] = r
    BY <1>7, <2>1
  <2> QED BY <1>7, <2>1, <2>2
<1> QED BY <1>9, <1>10 DEF rows

\* A list and one that it begins with.
Begins(p, q) == Len(p) <= Len(q) /\ \A i \in 1 .. Len(p) : p[i] = q[i]

LEMMA BeginsFacts ==
    ASSUME NEW p \in Seq(Row), NEW q, Ordered(q), Begins(p, q)
    PROVE  IsPrefix(p, q) /\ Ordered(p)
<1>1. q \in Seq(Row) /\ Len(p) \in Nat /\ Len(q) \in Nat
  BY DEF Ordered
<1>2. \A i \in 1 .. Len(p) : i \in 1 .. Len(q) /\ p[i] = q[i]
  BY <1>1 DEF Begins
<1>3. Ordered(p)
  <2>1. DOMAIN p = 1 .. Len(p) /\ DOMAIN q = 1 .. Len(q)
    BY <1>1, LenProperties
  <2>2. /\ \A i, j \in DOMAIN p : i < j => DateOf[p[i].match] <= DateOf[p[j].match]
        /\ \A i, j \in DOMAIN p : p[i].match = p[j].match => i = j
    BY <1>2, <2>1 DEF Ordered, InDateOrder
  <2> QED BY <2>2 DEF Ordered, InDateOrder
<1>4. IsPrefix(p, q)
  <2> DEFINE s == SubSeq(p, 1, Len(p))
             t == SubSeq(q, 1, Len(p))
  <2>1. s \in Seq(Row) /\ Len(s) = Len(p) /\ \A i \in 1 .. Len(p) : s[i] = p[i]
    BY <1>1, SubSeqFull
  <2>2. t \in Seq(Row) /\ Len(t) = Len(p) /\ \A i \in 1 .. Len(p) : t[i] = q[i]
    <3>1. \A i \in 1 .. Len(p) : q[i] \in Row
      BY <1>1, <1>2, ElementOfSeq
    <3>2. /\ SubSeq(q, 1, Len(p)) \in Seq(Row)
          /\ Len(SubSeq(q, 1, Len(p))) = IF 1 <= Len(p) THEN Len(p) - 1 + 1 ELSE 0
          /\ \A i \in 1 .. Len(p) - 1 + 1 : SubSeq(q, 1, Len(p))[i] = q[1 + i - 1]
      BY <1>1, <3>1, SubSeqProperties
    <3> QED BY <1>1, <3>2
  <2> HIDE DEF s, t
  <2>3. s = t
    BY <1>2, <2>1, <2>2, SeqEqual
  <2> QED BY <2>3 DEF IsPrefix, Begins, s, t
<1> QED BY <1>3, <1>4

-----------------------------------------------------------------------------
(* Fetches and files: the inductive invariant *)

ScoresOK ==
    /\ score \in [Match -> 0 .. MaxVer] /\ since \in [Match -> 0 .. MaxVer]
    /\ ScoresGrow

StageOK ==
    /\ stage \in {"idle", "fetch", "open", "rows"}
    /\ fetching \in BOOLEAN
    /\ fetching => stage = "fetch"
    /\ ~fetching => games = {} /\ seasons = {} /\ events = {} /\ flights = {}

\* A match that was over when the fetch began has been taken, or belongs to a
\* season or a competition that has still to be asked for.
SeasonsLeft ==
    source \in {"asa_seasons", "wpsl"} =>
        \A s \in Season : \A e \in EventsOf[s] : \A m \in MatchesIn(e) :
            /\ source = "wpsl" => e \in MainEvent
            /\ source = "asa_seasons" => Cardinality(ListedIn(s)) <= Cap
            /\ since[m] >= Final
            => s \in seasons \/ e \in events \/ m \in Seen

\* The sources that are not a Fetcher.
OtherInv ==
    /\ flights = {} /\ returned = Nothing
    /\ seasons \subseteq Season /\ events \subseteq Event
    /\ OnePerMatch(games)
    /\ fetching => SeasonsLeft

\* What is in the file and what is still to be written are one fetch's rows, and
\* a row that is cut is one of them.
FileInv ==
    /\ csv \in [header : BOOLEAN, rows : Seq(Row), torn : Torn, exists : BOOLEAN]
    /\ intended.nr \in Nat
    /\ Ordered(intended.rows)
    /\ Begins(csv.rows, intended.rows)
    /\ csv.torn # "no" => Len(csv.rows) < Len(intended.rows)
    /\ stage = "open" => Ordered(result)
    /\ stage = "rows" =>
          /\ csv.torn = "no"
          /\ result \in Seq(Row)
          /\ Len(intended.rows) = Len(csv.rows) + Len(result)
          /\ \A i \in 1 .. Len(result) : intended.rows[Len(csv.rows) + i] = result[i]

DInv ==
    /\ ScoresOK
    /\ StageOK
    /\ source = "ecnl" => IInv
    /\ source # "ecnl" => OtherInv
    /\ FileInv
    /\ SeasonsComplete

-----------------------------------------------------------------------------
(* Fetches and files: the steps *)

\* A fetcher that was not used, or is not used any more.
LEMMA NewFetcher ==
    ASSUME score' \in [Match -> 0 .. MaxVer], since' \in [Match -> 0 .. MaxVer],
           ScoresGrow', eventIds' = <<>>, flightIds' = <<>>, fetching' = FALSE,
           seasons' = {}, events' = {}, flights' = {}, games' = {}, returned' = Nothing
    PROVE  IInv'
<1> USE Calendar
<1>1. DOMAIN eventIds' = {} /\ DOMAIN flightIds' = {}
  OBVIOUS
<1>2. returned'.games = {} /\ returned'.since = [m \in Match |-> 0]
  BY DEF Nothing
<1>3. [m \in Match |-> 0] \in [Match -> 0 .. MaxVer]
  OBVIOUS
<1>4. TypeOK' /\ CachesExact' /\ ReturnedTypeOK'
  BY <1>1, <1>2, <1>3 DEF TypeOK, CachesExact, ReturnedTypeOK
<1>5. InSeason' /\ NotFetching' /\ GamesOnce' /\ GamesFresh' /\ NothingMissed'
  BY DEF InSeason, NotFetching, GamesOnce, GamesFresh, NothingMissed
<1>6. FetchedOnce' /\ FetchFresh'
  BY <1>2 DEF FetchedOnce, FetchFresh
<1>7. FetchComplete'
  BY <1>2 DEF FetchComplete
<1> QED BY <1>4, <1>5, <1>6, <1>7 DEF IInv

LEMMA FetcherQuiet ==
    ASSUME IInv, UNCHANGED <<score, caches, fetching, loops, games, since, returned>>
    PROVE  IInv'
BY DEF caches, loops, IInv, TypeOK, CachesExact, InSeason, NotFetching, GamesOnce,
   GamesFresh, ScoresGrow, NothingMissed, StillToVisit, ReturnedTypeOK, FetchedOnce,
   FetchFresh, FetchComplete

\* What IInv says of a Fetcher's games.
LEMMA FetcherGames == ASSUME IInv PROVE OnePerMatch(games)
BY DEF IInv, TypeOK, GamesOnce, OnePerMatch, Result

\* The steps of a fetch leave the file alone.
LEMMA FileKept ==
    ASSUME FileInv, stage' \in {"idle", "fetch"}, UNCHANGED fileVars
    PROVE  FileInv' /\ SeasonsComplete'
BY DEF FileInv, fileVars, SeasonsComplete

\* Matches that are taken are taken once, and others stay taken.
LEMMA TakenFacts ==
    ASSUME OnePerMatch(games), score \in [Match -> 0 .. MaxVer], NEW S \in SUBSET Match,
           games' = Taken(S)
    PROVE  OnePerMatch(games)' /\ Seen' = Seen \union S
<1>1. \A m \in S : /\ ResultOf(m, NoSeason).match = m
                   /\ ResultOf(m, NoSeason).score \in 0 .. MaxVer
  BY DEF ResultOf
<1> DEFINE new == {ResultOf(m, NoSeason) : m \in S \ Seen}
<1>2. games' = games \union new
  BY DEF Taken
<1>3. \A g \in new : g.match \in S \ Seen /\ g = ResultOf(g.match, NoSeason)
  BY <1>1
<1>4. \A m \in S \ Seen : ResultOf(m, NoSeason) \in new
  OBVIOUS
<1> HIDE DEF new
<1>5. Seen' = Seen \union S
  <2>1. ASSUME NEW m \in Seen' PROVE m \in Seen \union S
    BY <1>2, <1>3 DEF Seen
  <2>2. ASSUME NEW m \in Seen \union S PROVE m \in Seen'
    <3>1. CASE m \in Seen
      BY <1>2, <3>1 DEF Seen
    <3>2. CASE m \notin Seen
      BY <1>1, <1>2, <1>4, <3>2 DEF Seen
    <3> QED BY <3>1, <3>2
  <2> QED BY <2>1, <2>2
<1>6. \A g \in games' : g.match \in Match /\ g.score \in 0 .. MaxVer
  BY <1>1, <1>2, <1>3 DEF OnePerMatch
<1>7. ASSUME NEW g \in games', NEW h \in games', g.match = h.match PROVE g = h
  <2>1. \A x \in games : x.match \in Seen
    BY DEF Seen
  <2> QED BY <1>2, <1>3, <1>7, <2>1 DEF OnePerMatch
<1> QED BY <1>5, <1>6, <1>7 DEF OnePerMatch

\* The requests of the other sources.
LEMMA OtherRequestStep ==
    ASSUME DInv,
           \/ \E s \in Season : AsaSeason(s)
           \/ AsaAll
           \/ \E s \in Season : WpslYear(s)
           \/ \E e \in Event : WpslCompetition(e)
           \/ NflSchedule
    PROVE  DInv'
<1> USE Calendar, DataConstants DEF DInv, InFetch, FetchVars
<1>0. \A e \in Event : MatchesIn(e) \subseteq Match
  BY DEF MatchesIn
<1>1. \A s \in Season : /\ ListedIn(s) \subseteq Match
                        /\ \A e \in EventsOf[s] : MatchesIn(e) \subseteq ListedIn(s)
  BY <1>0 DEF ListedIn
<1>2. \A m \in Match : since[m] >= Final => IsFinal(m)
  BY DEF ScoresOK, ScoresGrow, IsFinal
<1>3. /\ stage = "fetch" /\ fetching /\ fetching' = fetching /\ source # "ecnl"
      /\ UNCHANGED <<score, since, returned, flights, source, stage, fileVars>>
  BY DEF AsaSeason, AsaAll, WpslYear, WpslCompetition, NflSchedule
<1>4. ScoresOK' /\ StageOK' /\ FileInv' /\ SeasonsComplete'
  <2>1. ScoresOK' /\ StageOK'
    BY <1>3 DEF ScoresOK, ScoresGrow, StageOK
  <2> QED BY <1>3, <2>1, FileKept
<1>5. ASSUME NEW s \in Season, AsaSeason(s) PROVE OtherInv'
  <2> DEFINE F == {m \in ListedIn(s) : IsFinal(m)}
  <2>1. PICK S \in Capped(F) :
           /\ source = "asa_seasons" /\ seasons' = seasons \ {s} /\ games' = Taken(S)
           /\ UNCHANGED events
    BY <1>5 DEF AsaSeason
  <2>2. S \subseteq F /\ F \subseteq ListedIn(s) /\ (Cardinality(F) <= Cap => S = F)
    BY DEF Capped
  <2>3. Cardinality(ListedIn(s)) <= Cap => S = F
    <3>1. IsFiniteSet(ListedIn(s)) /\ IsFiniteSet(F)
      BY <1>1, <2>2, FS_Subset
    <3>2. Cardinality(F) <= Cardinality(ListedIn(s))
      BY <2>2, <3>1, FS_Subset
    <3>3. Cardinality(F) \in Nat /\ Cardinality(ListedIn(s)) \in Nat
      BY <3>1, FS_CardinalityType
    <3> QED BY <2>2, <3>2, <3>3
  <2>4. OnePerMatch(games)' /\ Seen' = Seen \union S
    BY <1>1, <1>3, <2>1, <2>2, TakenFacts DEF OtherInv, ScoresOK
  <2>5. Cardinality(ListedIn(s)) <= Cap =>
            \A e \in EventsOf[s] : \A m \in MatchesIn(e) : since[m] >= Final => m \in S
    BY <1>0, <1>1, <1>2, <2>3
  <2> HIDE DEF F
  <2>6. SeasonsLeft'
    BY <1>3, <2>1, <2>4, <2>5 DEF OtherInv, SeasonsLeft
  <2> QED BY <1>3, <2>1, <2>4, <2>6 DEF OtherInv
<1>6. CASE AsaAll
  <2>1. source = "asa" /\ seasons' = {} /\ UNCHANGED events
    BY <1>6 DEF AsaAll
  <2>2. PICK R \in SUBSET Match : games' = Taken(R)
    BY <1>6 DEF AsaAll, Capped
  <2>3. OnePerMatch(games)'
    BY <1>3, <2>2, TakenFacts DEF OtherInv, ScoresOK
  <2> QED BY <1>3, <1>4, <2>1, <2>3 DEF OtherInv, SeasonsLeft
<1>7. ASSUME NEW s \in Season, WpslYear(s) PROVE OtherInv'
  <2>1. /\ source = "wpsl" /\ events = {} /\ seasons' = seasons \ {s}
        /\ events' = EventsOf[s] \intersect MainEvent /\ UNCHANGED games
    BY <1>7 DEF WpslYear
  <2>2. SeasonsLeft'
    BY <1>3, <2>1 DEF OtherInv, SeasonsLeft, Seen
  <2> QED BY <1>3, <2>1, <2>2 DEF OtherInv, OnePerMatch
<1>8. ASSUME NEW e \in Event, WpslCompetition(e) PROVE OtherInv'
  <2> DEFINE S == {m \in MatchesIn(e) : IsFinal(m)}
  <2>1. /\ source = "wpsl" /\ events' = events \ {e} /\ games' = Taken(S)
        /\ UNCHANGED seasons
    BY <1>8 DEF WpslCompetition
  <2>2. OnePerMatch(games)' /\ Seen' = Seen \union S
    BY <1>0, <1>3, <2>1, TakenFacts DEF OtherInv, ScoresOK
  <2>3. \A m \in MatchesIn(e) : since[m] >= Final => m \in S
    BY <1>0, <1>2
  <2> HIDE DEF S
  <2>4. SeasonsLeft'
    BY <1>3, <2>1, <2>2, <2>3 DEF OtherInv, SeasonsLeft
  <2> QED BY <1>3, <2>1, <2>2, <2>4 DEF OtherInv
<1>9. CASE NflSchedule
  <2>1. source = "nfl" /\ seasons' = {} /\ UNCHANGED events
    BY <1>9 DEF NflSchedule
  <2> DEFINE S == {m \in Priced : IsFinal(m)}
  <2>2. games' = Taken(S)
    BY <1>9 DEF NflSchedule
  <2>3. S \in SUBSET Match
    OBVIOUS
  <2> HIDE DEF S
  <2>4. OnePerMatch(games)'
    BY <1>3, <2>2, <2>3, TakenFacts DEF OtherInv, ScoresOK
  <2> QED BY <1>3, <1>4, <2>1, <2>4 DEF OtherInv, SeasonsLeft
<1> QED BY <1>3, <1>4, <1>5, <1>6, <1>7, <1>8, <1>9

\* The requests of the fetcher, while its command runs.
LEMMA EcnlRequestStep ==
    ASSUME DInv,
           \/ \E s \in Season : Ecnl /\ GetEventIds(s)
           \/ \E e \in Event : Ecnl /\ GetFlightIds(e)
           \/ \E f \in Flight : Ecnl /\ GetSchedule(f)
    PROVE  DInv'
<1> USE DEF DInv, Ecnl, FetchVars
<1>1. /\ stage = "fetch" /\ source = "ecnl" /\ fetching /\ fetching' = fetching
      /\ UNCHANGED <<score, since, source, stage, fileVars>>
  BY DEF GetEventIds, GetFlightIds, GetSchedule
<1>2. IInv'
  BY <1>1, EventIdsStep, FlightIdsStep, ScheduleStep
<1>3. ScoresOK' /\ StageOK'
  BY <1>1 DEF ScoresOK, ScoresGrow, StageOK
<1> QED BY <1>1, <1>2, <1>3, FileKept

\* A match is played while a fetch is under way.
LEMMA ScoreChangeStep ==
    ASSUME DInv, NEW m \in Match, stage = "fetch", ScoreChange(m), UNCHANGED FetchVars
    PROVE  DInv'
<1> USE DEF DInv, FetchVars
<1>1. /\ score' = [score EXCEPT ![m] = @ + 1] /\ score[m] < MaxVer
      /\ UNCHANGED <<fetching, seasons, events, flights, games, since, returned, source,
                     stage, fileVars>>
  BY DEF ScoreChange, loops
<1>2. ScoresOK' /\ StageOK'
  BY <1>1, Calendar DEF ScoresOK, ScoresGrow, StageOK
<1>3. source = "ecnl" => IInv'
  BY ScoreStep
<1>4. source # "ecnl" => OtherInv'
  BY <1>1 DEF OtherInv, OnePerMatch, SeasonsLeft, Seen
<1> QED BY <1>1, <1>2, <1>3, <1>4, FileKept

\* A command starts with nothing that an earlier one kept.
LEMMA CommandStep == ASSUME DInv, Command PROVE DInv'
<1> USE DEF DInv
<1>1. /\ stage = "idle" /\ stage' = "fetch" /\ eventIds' = <<>> /\ flightIds' = <<>>
      /\ returned' = Nothing
      /\ UNCHANGED <<score, fetching, seasons, events, flights, games, since, fileVars>>
  BY DEF Command, loops
<1>2. /\ fetching' = FALSE /\ games' = {} /\ seasons' = {} /\ events' = {}
      /\ flights' = {}
  BY <1>1 DEF StageOK
<1>3. ScoresOK' /\ StageOK'
  BY <1>1, <1>2 DEF ScoresOK, ScoresGrow, StageOK
<1>4. IInv'
  BY <1>1, <1>2, <1>3, NewFetcher DEF ScoresOK
<1>5. OtherInv'
  BY <1>1, <1>2 DEF OtherInv, OnePerMatch
<1> QED BY <1>1, <1>3, <1>4, <1>5, FileKept

\* The call of fetch has every season still to ask for.
LEMMA CallFetchStep == ASSUME DInv, CallFetch PROVE DInv'
<1> USE DEF DInv, FetchVars
<1>1. /\ stage = "fetch" /\ fetching' = TRUE /\ seasons' = Season /\ since' = score
      /\ ~fetching
      /\ UNCHANGED <<score, events, flights, games, returned, source, stage, fileVars>>
  BY DEF CallFetch, StartFetch
<1>2. ScoresOK' /\ StageOK'
  BY <1>1 DEF ScoresOK, ScoresGrow, StageOK
<1>3. source = "ecnl" => IInv'
  BY StartStep DEF CallFetch
<1>4. source # "ecnl" => OtherInv'
  BY <1>1 DEF OtherInv, OnePerMatch, SeasonsLeft
<1> QED BY <1>1, <1>2, <1>3, <1>4, FileKept

\* A fetch that fails leaves nothing to write.
LEMMA FetchFailsStep == ASSUME DInv, EcnlFails \/ SourceFails PROVE DInv'
<1> USE DEF DInv, End
<1>1. /\ stage' \in {"idle", "fetch"} /\ fetching' = FALSE /\ games' = {}
      /\ seasons' = {} /\ events' = {} /\ flights' = {}
      /\ UNCHANGED <<score, since, returned, source, fileVars>>
  BY DEF EcnlFails, SourceFails, RequestFails
<1>2. ScoresOK' /\ StageOK'
  BY <1>1 DEF ScoresOK, ScoresGrow, StageOK
<1>3. source = "ecnl" => IInv'
  BY FailStep DEF EcnlFails, SourceFails
<1>4. source # "ecnl" => OtherInv'
  BY <1>1 DEF OtherInv, OnePerMatch
<1> QED BY <1>1, <1>2, <1>3, <1>4, FileKept

\* A fetch that comes to its end has nothing left to ask for.
LEMMA FetchReturnsStep == ASSUME DInv, FetchReturns PROVE DInv'
<1> USE DEF DInv, End
<1>1. /\ stage = "fetch" /\ fetching /\ fetching' = FALSE /\ games' = {}
      /\ seasons = {} /\ events = {}
      /\ seasons' = {} /\ events' = {} /\ flights' = {}
      /\ result' = RowsOf(games) /\ stage' \in {"fetch", "open"}
      /\ UNCHANGED <<score, since, source, fileVars>>
  BY DEF FetchReturns, Return
<1>2. ScoresOK' /\ StageOK'
  BY <1>1 DEF ScoresOK, ScoresGrow, StageOK
<1>3. source = "ecnl" => IInv'
  BY ReturnStep DEF FetchReturns
<1>4. source # "ecnl" => OtherInv'
  BY <1>1 DEF FetchReturns, OtherInv, OnePerMatch
<1>5. OnePerMatch(games)
  BY FetcherGames DEF OtherInv
<1>6. /\ Ordered(result')
      /\ \A g \in games : \E i \in DOMAIN result' : result'[i].match = g.match
  BY <1>1, <1>5, RowsOfFacts
<1>7. FileInv'
  BY <1>1, <1>6 DEF FileInv, fileVars, Ordered, InDateOrder
<1>8. SeasonsComplete'
  <2>1. CASE source \in {"asa_seasons", "wpsl"}
    <3>1. SeasonsLeft
      BY <1>1, <2>1 DEF OtherInv
    <3> QED BY <1>1, <1>6, <2>1, <3>1 DEF SeasonsComplete, SeasonsLeft, Seen
  <2>2. CASE source \notin {"asa_seasons", "wpsl"}
    BY <1>1, <2>2 DEF SeasonsComplete
  <2> QED BY <2>1, <2>2
<1> QED BY <1>1, <1>2, <1>3, <1>4, <1>7, <1>8

\* The file is emptied before the first row of the new ones.
LEMMA OpenCsvStep == ASSUME DInv, OpenCsv PROVE DInv'
<1> USE DEF DInv
<1>1. /\ stage = "open" /\ stage' = "rows" /\ csv' = Truncated
      /\ intended' = [rows |-> result, source |-> source, nr |-> intended.nr + 1]
      /\ eventIds' = <<>> /\ flightIds' = <<>> /\ returned' = Nothing
      /\ since' = [m \in Match |-> 0]
      /\ UNCHANGED <<score, fetching, seasons, events, flights, games, source, result>>
  BY DEF OpenCsv, Discard, loops, Nothing
<1>2. /\ fetching' = FALSE /\ games' = {} /\ seasons' = {} /\ events' = {}
      /\ flights' = {}
  BY <1>1 DEF StageOK
<1>3. ScoresOK' /\ StageOK'
  BY <1>1, <1>2, Calendar DEF ScoresOK, ScoresGrow, StageOK
<1>4. IInv'
  BY <1>1, <1>2, <1>3, NewFetcher DEF ScoresOK
<1>5. OtherInv'
  BY <1>1, <1>2 DEF OtherInv, OnePerMatch
<1>6. FileInv'
  <2>1. /\ csv' = [header |-> FALSE, rows |-> <<>>, torn |-> "no", exists |-> TRUE]
        /\ intended'.rows = result /\ intended'.nr = intended.nr + 1 /\ csv'.torn = "no"
    BY <1>1 DEF Truncated, NoFile
  <2>9. intended'.nr \in Nat
    BY <2>1 DEF FileInv
  <2>2. <<>> \in Seq(Row) /\ Len(<<>>) = 0
    BY EmptySeq
  <2>3. csv' \in [header : BOOLEAN, rows : Seq(Row), torn : Torn, exists : BOOLEAN]
    BY <2>1, <2>2 DEF Torn
  <2>4. Ordered(result) /\ result \in Seq(Row) /\ Len(result) \in Nat
    BY <1>1 DEF FileInv, Ordered
  <2>5. csv'.rows = <<>>
    BY <2>1
  <2>6. Ordered(intended.rows)'
    BY <2>1, <2>4 DEF Ordered, InDateOrder
  <2>7. Begins(csv.rows, intended.rows)'
    BY <2>1, <2>2, <2>4, <2>5 DEF Begins
  <2>8. /\ Len(intended'.rows) = Len(csv'.rows) + Len(result')
        /\ \A i \in 1 .. Len(result') : intended'.rows[Len(csv'.rows) + i] = result'[i]
    BY <1>1, <2>1, <2>2, <2>4, <2>5
  <2> QED BY <1>1, <2>1, <2>3, <2>4, <2>6, <2>7, <2>8, <2>9 DEF FileInv
<1>7. SeasonsComplete'
  BY <1>1 DEF SeasonsComplete
<1> QED BY <1>1, <1>3, <1>4, <1>5, <1>6, <1>7

\* While the file is written the fetch is over.
LEMMA WritingFetch ==
    ASSUME DInv, stage' \in {"idle", "rows"}, fetching = FALSE,
           UNCHANGED <<score, caches, fetching, loops, games, since, returned, source>>
    PROVE  /\ ScoresOK' /\ StageOK' /\ SeasonsComplete'
           /\ source' = "ecnl" => IInv'
           /\ source' # "ecnl" => OtherInv'
<1> USE DEF DInv
<1>1. source = "ecnl" => IInv'
  BY FetcherQuiet
<1>2. ScoresOK' /\ StageOK' /\ SeasonsComplete'
  BY DEF ScoresOK, ScoresGrow, StageOK, SeasonsComplete, loops
<1>3. source # "ecnl" => OtherInv'
  BY DEF OtherInv, OnePerMatch, loops
<1> QED BY <1>1, <1>2, <1>3

\* A row is written, or the file is closed, or cut off where it is.
LEMMA WriteStep == ASSUME DInv, WriteRow \/ CloseCsv \/ WriteStops PROVE DInv'
<1> USE DEF DInv
<1>1. /\ stage = "rows" /\ stage' \in {"idle", "rows"} /\ fetching = FALSE
      /\ UNCHANGED <<score, caches, fetching, loops, games, since, returned, source,
                     intended>>
  BY DEF WriteRow, CloseCsv, WriteStops, vars, StageOK
<1>2. /\ csv \in [header : BOOLEAN, rows : Seq(Row), torn : Torn, exists : BOOLEAN]
      /\ csv.rows \in Seq(Row) /\ result \in Seq(Row)
      /\ Len(csv.rows) \in Nat /\ Len(result) \in Nat
      /\ Ordered(intended.rows) /\ Begins(csv.rows, intended.rows)
      /\ Len(intended.rows) = Len(csv.rows) + Len(result)
      /\ \A i \in 1 .. Len(result) : intended.rows[Len(csv.rows) + i] = result[i]
      /\ csv.torn = "no" /\ intended.nr \in Nat
  BY <1>1 DEF FileInv
<1>3. Ordered(intended.rows)' /\ intended'.nr \in Nat
  BY <1>1, <1>2 DEF Ordered, InDateOrder
<1>4. CASE CloseCsv \/ WriteStops
  <2>1. /\ csv' \in [header : BOOLEAN, rows : Seq(Row), torn : Torn, exists : BOOLEAN]
        /\ csv'.rows = csv.rows /\ stage' = "idle"
        /\ csv'.torn # "no" => result # <<>>
    BY <1>2, <1>4 DEF CloseCsv, WriteStops, Torn
  <2>2. csv'.torn # "no" => Len(csv.rows) < Len(intended.rows)
    BY <1>2, <2>1
  <2>3. FileInv'
    BY <1>1, <1>2, <1>3, <2>1, <2>2 DEF FileInv, Begins
  <2> QED BY <1>1, <2>3, WritingFetch
<1>5. CASE WriteRow
  <2>1. /\ result # <<>> /\ result' = Tail(result) /\ stage' = "rows"
        /\ csv' = [csv EXCEPT !.header = TRUE, !.rows = Append(@, Head(result))]
    BY <1>1, <1>5 DEF WriteRow
  <2>2. /\ Head(result) \in Row /\ result' \in Seq(Row) /\ Len(result') = Len(result) - 1
        /\ \A i \in 1 .. Len(result') : result'[i] = result[i + 1]
    BY <1>2, <2>1, HeadTailProperties
  <2>3. Len(result) # 0 /\ Head(result) = result[1]
    BY <1>2, <2>1
  <2>4. csv'.rows = Append(csv.rows, Head(result)) /\ csv'.torn = "no"
    BY <1>2, <2>1
  <2>5. /\ csv'.rows \in Seq(Row) /\ Len(csv'.rows) = Len(csv.rows) + 1
        /\ \A i \in 1 .. Len(csv.rows) : csv'.rows[i] = csv.rows[i]
        /\ csv'.rows[Len(csv.rows) + 1] = result[1]
    BY <1>2, <2>2, <2>3, <2>4, AppendProperties
  <2>6. csv' \in [header : BOOLEAN, rows : Seq(Row), torn : Torn, exists : BOOLEAN]
    BY <1>2, <2>1, <2>4, <2>5
  <2>7. intended.rows[Len(csv.rows) + 1] = result[1]
    BY <1>2, <2>3
  <2>8. Begins(csv.rows, intended.rows)'
    <3>1. Len(csv.rows)' <= Len(intended.rows)'
      BY <1>1, <1>2, <2>3, <2>5
    <3>2. ASSUME NEW i \in 1 .. Len(csv'.rows) PROVE csv'.rows[i] = intended.rows[i]
      <4>1. i \in 1 .. Len(csv.rows) \/ i = Len(csv.rows) + 1
        BY <1>2, <2>5
      <4> QED BY <1>2, <2>5, <2>7, <4>1 DEF Begins
    <3> QED BY <1>1, <3>1, <3>2 DEF Begins
  <2>9. Len(intended.rows) = Len(csv'.rows) + Len(result')
    BY <1>2, <2>2, <2>3, <2>5
  <2>10. ASSUME NEW i \in 1 .. Len(result')
         PROVE  intended.rows[Len(csv'.rows) + i] = result'[i]
    <3>1. i + 1 \in 1 .. Len(result) /\ Len(csv'.rows) + i = Len(csv.rows) + (i + 1)
      BY <1>2, <2>2, <2>5
    <3> QED BY <1>2, <2>2, <3>1
  <2>11. FileInv'
    BY <1>1, <1>3, <2>1, <2>2, <2>4, <2>6, <2>8, <2>9, <2>10 DEF FileInv
  <2> QED BY <1>1, <2>11, WritingFetch
<1> QED BY <1>4, <1>5
-----------------------------------------------------------------------------
(* Analyses: the inductive invariant *)

LEMMA DataQuiet ==
    ASSUME DInv, UNCHANGED <<score, caches, fetching, loops, games, since, returned,
                             FetchVars>>
    PROVE  DInv'
<1> USE DEF DInv, FetchVars, fileVars
<1>1. source = "ecnl" => IInv'
  BY FetcherQuiet
<1>2. ScoresOK' /\ StageOK' /\ SeasonsComplete'
  BY DEF ScoresOK, ScoresGrow, StageOK, SeasonsComplete, loops
<1>3. source # "ecnl" => OtherInv'
  BY DEF OtherInv, OnePerMatch, SeasonsLeft, Seen, loops
<1>4. FileInv'
  BY DEF FileInv
<1> QED BY <1>1, <1>2, <1>3, <1>4

LEMMA DataStep == ASSUME DInv, DNext PROVE DInv'
<1> USE DEF DNext
<1>1. CASE \E m \in Match : stage = "fetch" /\ ScoreChange(m) /\ UNCHANGED FetchVars
  BY <1>1, ScoreChangeStep
<1>2. CASE Command
  BY <1>2, CommandStep
<1>3. CASE CallFetch
  BY <1>3, CallFetchStep
<1>4. CASE \/ \E s \in Season : Ecnl /\ GetEventIds(s)
           \/ \E e \in Event : Ecnl /\ GetFlightIds(e)
           \/ \E f \in Flight : Ecnl /\ GetSchedule(f)
  BY <1>4, EcnlRequestStep
<1>5. CASE EcnlFails \/ SourceFails
  BY <1>5, FetchFailsStep
<1>6. CASE \/ \E s \in Season : AsaSeason(s)
           \/ AsaAll
           \/ \E s \in Season : WpslYear(s)
           \/ \E e \in Event : WpslCompetition(e)
           \/ NflSchedule
  BY <1>6, OtherRequestStep
<1>7. CASE FetchReturns
  BY <1>7, FetchReturnsStep
<1>8. CASE OpenCsv
  BY <1>8, OpenCsvStep
<1>9. CASE WriteRow \/ CloseCsv \/ WriteStops
  BY <1>9, WriteStep
<1> QED BY <1>1, <1>2, <1>3, <1>4, <1>5, <1>6, <1>7, <1>8, <1>9

LEMMA DataStart == DInit => DInv
<1> SUFFICES ASSUME DInit PROVE DInv
  OBVIOUS
<1> USE Calendar DEF DInit
<1>1. Init => IInv
  BY FetcherInit
<1>2. ScoresOK /\ StageOK /\ OtherInv /\ SeasonsComplete
  <2>1. score = [m \in Match |-> 0] /\ since = score /\ 0 \in 0 .. MaxVer
    BY DEF Init
  <2>2. /\ fetching = FALSE /\ seasons = {} /\ events = {} /\ flights = {}
        /\ games = {} /\ returned = Nothing
    BY DEF Init
  <2>3. ScoresOK
    BY <2>1 DEF ScoresOK, ScoresGrow
  <2>4. StageOK /\ OtherInv /\ SeasonsComplete
    BY <2>2 DEF StageOK, OtherInv, OnePerMatch, SeasonsComplete
  <2> QED BY <2>3, <2>4
<1>3. FileInv
  <2>1. <<>> \in Seq(Row) /\ Len(<<>>) = 0
    BY EmptySeq
  <2>2. csv \in [header : BOOLEAN, rows : Seq(Row), torn : Torn, exists : BOOLEAN]
    BY <2>1 DEF NoFile, Torn
  <2>3. /\ csv.rows = <<>> /\ csv.torn = "no" /\ stage = "idle"
        /\ intended.rows = <<>> /\ intended.nr \in Nat
    BY DEF NoFile
  <2>4. Ordered(intended.rows) /\ Begins(csv.rows, intended.rows)
    BY <2>1, <2>3 DEF Ordered, InDateOrder, Begins
  <2> QED BY <2>2, <2>3, <2>4 DEF FileInv
<1> QED BY <1>1, <1>2, <1>3 DEF DInv
\* While a command writes its reports: it has all of them to write, or it wrote
\* the first of two.
ReportsLeft ==
    \/ left = job.files /\ job.files \in {<<"out">>, <<"json", "md">>}
    \/ /\ left = <<"md">> /\ job.files = <<"json", "md">>
       /\ report["json"] = [run |-> runs, torn |-> FALSE]

JobInv ==
    /\ DOMAIN report = {"out", "json", "md"}
    /\ job.files \in {<<>>, <<"out">>, <<"json", "md">>}
    /\ status = "running" => ReportsLeft

\* A list that was read from one file is the beginning of what its writer had to
\* write.
LoadInv ==
    /\ DOMAIN loaded = {"rows", "opened", "of", "at", "cut"}
    /\ loaded.of = loaded.opened =>
          /\ Ordered(loaded.of.rows)
          /\ loaded.rows \in Seq(Row) /\ Begins(loaded.rows, loaded.of.rows)

\* While a reader is in the file: it was opened, read and last written in this
\* order; if nobody emptied it since it was last read, what was read is still
\* there; and the row in which the buffer ends was to be written.
ReaderInv ==
    Loading =>
        /\ loaded.at \in Nat
        /\ loaded.opened.nr \in Nat /\ loaded.of.nr \in Nat
        /\ loaded.opened.nr <= loaded.of.nr /\ loaded.of.nr <= intended.nr
        /\ loaded.of.nr = intended.nr => ~Rewritten /\ loaded.at <= Len(csv.rows)
        /\ loaded.of = loaded.opened =>
              /\ Len(loaded.rows) = loaded.at
              /\ loaded.cut => loaded.at < Len(loaded.of.rows)

CInv == DInv /\ LoadInv /\ ReaderInv /\ JobInv /\ ReportsOfThisRun

LEMMA LoadedFacts == ASSUME LoadInv PROVE LoadedIsPrefix
BY BeginsFacts DEF LoadInv, LoadedIsPrefix, Ordered, InDateOrder

\* Steps of the analyses do not touch what a fetch has.
LEMMA JobQuiet ==
    ASSUME CInv, UNCHANGED dvars \/ UNCHANGED <<score, caches, fetching, loops, games,
                                                since, returned, fetches, FetchVars>>
    PROVE  DInv'
BY DataQuiet DEF CInv, dvars, vars, FetchVars

\* Before its load a command has nothing, and after one that raises.
LEMMA NothingLoaded == ASSUME loaded' = NoGames PROVE LoadInv'
<1>1. /\ DOMAIN loaded' = {"rows", "opened", "of", "at", "cut"}
      /\ loaded'.rows = <<>> /\ loaded'.of.rows = <<>>
  BY DEF NoGames
<1>2. <<>> \in Seq(Row) /\ Len(<<>>) = 0
  BY EmptySeq
<1> QED BY <1>1, <1>2 DEF LoadInv, Ordered, InDateOrder, Begins

\* A file that is not emptied only grows.
LEMMA FileGrows ==
    ASSUME FileInv, DNext
    PROVE  \/ intended' = intended /\ Len(csv'.rows) >= Len(csv.rows)
           \/ intended'.nr = intended.nr + 1
<1>1. csv.rows \in Seq(Row) /\ Len(csv.rows) \in Nat
  BY DEF FileInv
<1>2. CASE OpenCsv
  BY <1>2 DEF OpenCsv
<1>3. CASE WriteRow
  <2>1. /\ intended' = intended /\ result # <<>> /\ result \in Seq(Row)
        /\ csv' = [csv EXCEPT !.header = TRUE, !.rows = Append(@, Head(result))]
    BY <1>3 DEF WriteRow, FileInv
  <2>2. csv'.rows = Append(csv.rows, Head(result)) /\ Head(result) \in Row
    BY <2>1, HeadTailProperties DEF FileInv
  <2>3. Len(csv'.rows) = Len(csv.rows) + 1
    BY <1>1, <2>2, AppendProperties
  <2> QED BY <1>1, <2>1, <2>3
<1>4. CASE CloseCsv \/ WriteStops
  <2>1. intended' = intended /\ csv'.rows = csv.rows
    BY <1>4 DEF CloseCsv, WriteStops, FileInv
  <2> QED BY <1>1, <2>1
<1>5. CASE UNCHANGED fileVars
  BY <1>1, <1>5 DEF fileVars
<1> QED
  BY <1>2, <1>3, <1>4, <1>5 DEF DNext, FetchVars, Ecnl, Command, CallFetch, EcnlFails,
     AsaSeason, AsaAll, WpslYear, WpslCompetition, NflSchedule, SourceFails, FetchReturns,
     fileVars

\* A row behind one of the file was to be written.
LEMMA RowBehindFacts ==
    ASSUME FileInv, NEW n \in Nat, n <= Len(csv.rows), RowBehind(n)
    PROVE  n < Len(intended.rows)
<1>1. Len(csv.rows) \in Nat /\ Len(intended.rows) \in Nat
  BY DEF FileInv, Ordered
<1>2. CASE n < Len(csv.rows)
  BY <1>1, <1>2 DEF FileInv, Begins
<1>3. CASE csv.torn # "no"
  BY <1>1, <1>3 DEF FileInv
<1>4. CASE stage = "rows" /\ result # <<>>
  <2>1. Len(result) \in Nat /\ Len(result) # 0
    BY <1>4 DEF FileInv
  <2> QED BY <1>1, <1>4, <2>1 DEF FileInv
<1> QED BY <1>2, <1>3, <1>4 DEF RowBehind

\* One more row of a list that begins another.
LEMMA BeginsAppend ==
    ASSUME NEW p \in Seq(Row), NEW q \in Seq(Row), Begins(p, q), Len(p) < Len(q)
    PROVE  LET r == Append(p, q[Len(p) + 1])
           IN  r \in Seq(Row) /\ Len(r) = Len(p) + 1 /\ Begins(r, q)
<1> DEFINE r == Append(p, q[Len(p) + 1])
<1>1. Len(p) \in Nat /\ Len(q) \in Nat /\ q[Len(p) + 1] \in Row
  BY ElementOfSeq
<1>2. /\ r \in Seq(Row) /\ Len(r) = Len(p) + 1 /\ r[Len(p) + 1] = q[Len(p) + 1]
      /\ \A i \in 1 .. Len(p) : r[i] = p[i]
  BY <1>1, AppendProperties
<1> HIDE DEF r
<1>3. ASSUME NEW i \in 1 .. Len(r) PROVE r[i] = q[i]
  <2>1. i \in 1 .. Len(p) \/ i = Len(p) + 1
    BY <1>1, <1>2
  <2> QED BY <1>2, <2>1 DEF Begins
<1>4. Begins(r, q)
  BY <1>1, <1>2, <1>3 DEF Begins
<1> QED BY <1>2, <1>4 DEF r

\* A command opens the file (loader.py:35).
LEMMA ProcessStep ==
    ASSUME CInv, NEW cmd, NEW soccer, NEW m, NEW output \in BOOLEAN,
           Process(cmd, soccer, m, output)
    PROVE  LoadInv' /\ ReaderInv' /\ JobInv' /\ ReportsOfThisRun'
<1>1. PICK cut \in BOOLEAN :
         /\ cut => RowBehind(0)
         /\ loaded' = [rows |-> <<>>, opened |-> intended, of |-> intended, at |-> 0,
                       cut |-> cut]
  BY DEF Process, NoGames
<1>2. /\ UNCHANGED dvars /\ UNCHANGED report /\ status' \in {"loading", "raised"}
  BY DEF Process
<1>3. /\ csv.rows \in Seq(Row) /\ Len(csv.rows) \in Nat /\ intended.nr \in Nat
      /\ Ordered(intended.rows) /\ FileInv
  BY DEF CInv, DInv, FileInv
<1>4. LoadInv'
  <2>1. <<>> \in Seq(Row) /\ Len(<<>>) = 0 /\ Len(intended.rows) \in Nat
    BY <1>3, EmptySeq DEF Ordered
  <2>2. Begins(<<>>, intended.rows)
    BY <2>1 DEF Begins
  <2>3. DOMAIN loaded' = {"rows", "opened", "of", "at", "cut"}
    BY <1>1
  <2>4. /\ loaded'.rows = <<>> /\ loaded'.of = intended /\ loaded'.opened = intended
    BY <1>1
  <2> QED BY <1>3, <2>1, <2>2, <2>3, <2>4 DEF LoadInv, Ordered, InDateOrder, Begins
<1>5. ReaderInv'
  <2>1. cut => 0 < Len(intended.rows)
    BY <1>1, <1>3, RowBehindFacts
  <2>2. intended' = intended /\ csv' = csv
    BY <1>2 DEF dvars, fileVars
  <2> QED BY <1>1, <1>3, <2>1, <2>2 DEF ReaderInv, Rewritten, Loading
<1>6. job'.files \in {<<>>, <<"out">>, <<"json", "md">>}
  BY DEF Process
<1> QED BY <1>2, <1>4, <1>5, <1>6 DEF CInv, JobInv, ReportsOfThisRun

\* The next row is the next of the file, or it is of a file that is not the one
\* that was opened (loader.py:34-40).
LEMMA ReadStep ==
    ASSUME CInv, ReadOn \/ ReadRewritten
    PROVE  LoadInv' /\ ReaderInv'
<1> USE DEF CInv, DInv
<1>1. /\ Loading /\ Loading' /\ UNCHANGED <<csv, intended>>
  BY DEF ReadOn, ReadRewritten, LoadVars, dvars, fileVars, Loading
<1>2. /\ csv.rows \in Seq(Row) /\ Len(csv.rows) \in Nat /\ intended.nr \in Nat
      /\ Ordered(intended.rows) /\ intended.rows \in Seq(Row)
      /\ Begins(csv.rows, intended.rows)
  BY DEF FileInv, Ordered
<1>3. /\ loaded.at \in Nat
      /\ loaded.opened.nr \in Nat /\ loaded.of.nr \in Nat
      /\ loaded.opened.nr <= loaded.of.nr /\ loaded.of.nr <= intended.nr
      /\ loaded.of.nr = intended.nr => ~Rewritten /\ loaded.at <= Len(csv.rows)
      /\ loaded.of = loaded.opened => Len(loaded.rows) = loaded.at
  BY <1>1 DEF ReaderInv
<1>4. PICK n, r, cut :
         /\ n \in 1 .. Len(csv.rows)
         /\ cut => RowBehind(n)
         /\ loaded' = [loaded EXCEPT !.rows = Append(@, r), !.of = intended,
                                     !.at = n, !.cut = cut]
         /\ ~Rewritten => n = loaded.at + 1 /\ r = csv.rows[n]
  <2>1. CASE ReadOn
    <3> DEFINE n == loaded.at + 1
    <3>1. n \in 1 .. Len(csv.rows) /\ Read(n, csv.rows[n])
      BY <1>2, <1>3, <2>1 DEF ReadOn
    <3> HIDE DEF n
    <3>2. ~Rewritten => n = loaded.at + 1
      BY DEF n
    <3> QED BY <3>1, <3>2, Zenon DEF Read
  <2>2. CASE ReadRewritten
    <3>1. DOMAIN csv.rows = 1 .. Len(csv.rows)
      BY <1>2
    <3>2. Rewritten /\ \E n \in 1 .. Len(csv.rows) : \E r : Read(n, r)
      BY <2>2, <3>1 DEF ReadRewritten
    <3> QED BY <3>2, Zenon DEF Read
  <2> QED BY <2>1, <2>2
<1>5. /\ DOMAIN loaded' = {"rows", "opened", "of", "at", "cut"}
      /\ loaded'.rows = Append(loaded.rows, r) /\ loaded'.opened = loaded.opened
      /\ loaded'.of = intended /\ loaded'.at = n /\ loaded'.cut = cut
  BY <1>4 DEF LoadInv
<1>6. Rewritten => loaded'.of # loaded'.opened
  BY <1>3, <1>5
<1>0. n \in Nat /\ 1 <= n /\ n <= Len(csv.rows)
  BY <1>2, <1>4
<1>7. cut => n < Len(intended.rows)
  BY <1>0, <1>4, RowBehindFacts
<1>8. ASSUME ~Rewritten, intended = loaded.opened
      PROVE  /\ loaded'.rows \in Seq(Row) /\ Begins(loaded'.rows, intended.rows)
             /\ Len(loaded'.rows) = n
  <2>1. /\ loaded.rows \in Seq(Row) /\ Begins(loaded.rows, intended.rows)
        /\ Len(loaded.rows) = loaded.at
    BY <1>3, <1>8 DEF LoadInv, Rewritten
  <2>2. /\ Len(loaded.rows) + 1 = n /\ n <= Len(intended.rows) /\ Len(intended.rows) \in Nat
        /\ r = intended.rows[Len(loaded.rows) + 1]
    <3>1. n = loaded.at + 1 /\ r = csv.rows[n] /\ n \in 1 .. Len(csv.rows)
      BY <1>4, <1>8
    <3>2. /\ Len(csv.rows) <= Len(intended.rows) /\ Len(intended.rows) \in Nat
          /\ csv.rows[n] = intended.rows[n]
      BY <1>2, <3>1 DEF Begins
    <3> QED BY <1>0, <1>2, <1>3, <2>1, <3>1, <3>2
  <2>3. Len(loaded.rows) < Len(intended.rows)
    BY <1>3, <2>1, <2>2
  <2> QED BY <1>2, <1>5, <2>1, <2>2, <2>3, BeginsAppend
<1>9. LoadInv'
  <2>1. Ordered(intended.rows)'
    BY <1>1, <1>2 DEF Ordered, InDateOrder
  <2> QED BY <1>1, <1>5, <1>6, <1>8, <2>1 DEF LoadInv, Ordered, InDateOrder, Begins
<1>10. ReaderInv'
  <2>1. loaded.opened.nr <= intended.nr
    BY <1>2, <1>3
  <2> QED BY <1>0, <1>1, <1>2, <1>3, <1>5, <1>6, <1>7, <1>8, <2>1 DEF ReaderInv, Rewritten
<1> QED BY <1>9, <1>10

\* A row that is cut in its last field is the next that was to be written.
LEMMA EndStep ==
    ASSUME CInv, Analyse PROVE LoadInv'
<1> USE DEF CInv, DInv
<1>1. Loading /\ AtEnd
  BY DEF Analyse, AtEnd
<1>2. PICK cut \in CutAtEnd \ {"fields"} :
         loaded' = IF cut = "no" THEN loaded
                   ELSE [loaded EXCEPT !.rows = Append(@, loaded.of.rows[loaded.at + 1]),
                                       !.at = @ + 1]
  BY DEF Analyse
<1>3. CASE cut = "no"
  <2>1. loaded' = loaded
    BY <1>2, <1>3
  <2> QED BY <2>1 DEF LoadInv, Ordered, InDateOrder, Begins
<1>4. CASE cut # "no"
  <2>1. /\ DOMAIN loaded' = {"rows", "opened", "of", "at", "cut"}
        /\ loaded'.rows = Append(loaded.rows, loaded.of.rows[loaded.at + 1])
        /\ loaded'.of = loaded.of /\ loaded'.opened = loaded.opened
    BY <1>2, <1>4 DEF LoadInv
  <2>2. ASSUME loaded.of = loaded.opened
        PROVE  loaded'.rows \in Seq(Row) /\ Begins(loaded'.rows, loaded.of.rows)
    <3>1. /\ loaded.rows \in Seq(Row) /\ Begins(loaded.rows, loaded.of.rows)
          /\ loaded.of.rows \in Seq(Row) /\ Len(loaded.rows) = loaded.at
          /\ loaded.at \in Nat
      BY <1>1, <2>2 DEF LoadInv, ReaderInv, Ordered
    <3>2. loaded.at < Len(loaded.of.rows)
      <4>1. CASE Rewritten
        <5>1. loaded.cut
          BY <1>2, <1>4, <4>1 DEF CutAtEnd
        <5> QED BY <1>1, <2>2, <5>1 DEF ReaderInv
      <4>2. CASE ~Rewritten
        <5>1. loaded.at = Len(csv.rows) /\ loaded.of = intended
          BY <1>1, <4>2 DEF AtEnd, Rewritten
        <5>2. csv.torn # "no" \/ (stage = "rows" /\ result # <<>>)
          <6>1. CASE ~(stage = "rows" /\ result # <<>>)
            <7>1. CutAtEnd = {csv.torn}
              BY <4>2, <6>1 DEF CutAtEnd
            <7>2. cut \in CutAtEnd
              BY <1>2
            <7>3. cut = csv.torn
              BY <7>1, <7>2
            <7> QED BY <1>4, <7>3
          <6> QED BY <6>1
        <5>3. RowBehind(loaded.at)
          BY <5>2 DEF RowBehind
        <5> QED BY <3>1, <5>1, <5>3, RowBehindFacts
      <4> QED BY <4>1, <4>2
    <3> QED BY <2>1, <3>1, <3>2, BeginsAppend
  <2> QED BY <2>1, <2>2 DEF LoadInv, Ordered, InDateOrder, Begins
<1> QED BY <1>3, <1>4

\* A command that asks for reports has them all to write, or ends without 0.
LEMMA AnalyseStep == ASSUME CInv, Analyse PROVE JobInv' /\ ReportsOfThisRun'
<1>1. /\ UNCHANGED <<job, report, runs>>
      /\ \/ status' = "1"
         \/ job.files # <<>> /\ status' = "running" /\ left' = job.files
         \/ job.files = <<>> /\ status' = "0"
  BY DEF Analyse
<1>2. job.files # <<>> => job.files \in {<<"out">>, <<"json", "md">>}
  BY DEF CInv, JobInv
<1> QED BY <1>1, <1>2 DEF CInv, JobInv, ReportsLeft, ReportsOfThisRun

LEMMA LoadStep ==
    ASSUME CInv, ReadOn \/ ReadRewritten \/ Raises \/ Analyse PROVE CInv'
<1>1. UNCHANGED dvars
  BY DEF ReadOn, ReadRewritten, Raises, Analyse, LoadVars
<1>2. DInv'
  BY <1>1, JobQuiet
<1>3. CASE ReadOn \/ ReadRewritten
  <2>1. status' = "loading" /\ UNCHANGED <<job, report, runs, left>>
    BY <1>3 DEF ReadOn, ReadRewritten, LoadVars, Loading
  <2>2. JobInv' /\ ReportsOfThisRun'
    BY <2>1 DEF CInv, JobInv, ReportsOfThisRun
  <2> QED BY <1>2, <1>3, <2>2, ReadStep DEF CInv
<1>4. CASE Raises
  <2>1. /\ status' = "raised" /\ loaded' = NoGames
        /\ UNCHANGED <<job, report, runs, left>>
    BY <1>4 DEF Raises, LoadVars
  <2>2. JobInv' /\ ReportsOfThisRun' /\ ReaderInv'
    BY <2>1 DEF CInv, JobInv, ReportsOfThisRun, ReaderInv, Loading
  <2> QED BY <1>2, <2>1, <2>2, NothingLoaded DEF CInv
<1>5. CASE Analyse
  <2>1. status' \in {"0", "1", "running"}
    BY <1>5 DEF Analyse
  <2>2. ReaderInv'
    BY <2>1 DEF ReaderInv, Loading
  <2> QED BY <1>2, <1>5, <2>2, EndStep, AnalyseStep DEF CInv
<1> QED BY <1>3, <1>4, <1>5

\* The report after the one that is written is the second of two, or there is
\* none and the run has them all.
LEMMA ReportStep == ASSUME CInv, WriteReport PROVE JobInv' /\ ReportsOfThisRun'
<1> USE DEF CInv, JobInv
<1> DEFINE whole == [run |-> runs, torn |-> FALSE]
<1>1. /\ ReportsLeft /\ UNCHANGED <<job, runs>> /\ left' = Tail(left)
      /\ report' = [report EXCEPT ![Head(left)] = whole]
      /\ status' = IF left' = <<>> THEN "0" ELSE "running"
  BY DEF WriteReport
<1>2. DOMAIN report' = {"out", "json", "md"}
  BY <1>1
<1>3. CASE left = <<"out">> /\ job.files = <<"out">>
  BY <1>1, <1>2, <1>3 DEF ReportsOfThisRun
<1>4. CASE left = <<"json", "md">> /\ job.files = <<"json", "md">>
  <2>1. Head(left) = "json" /\ Tail(left) = <<"md">> /\ left' # <<>>
    BY <1>1, <1>4
  <2>2. report'["json"] = whole
    BY <1>1, <2>1
  <2> QED BY <1>1, <1>2, <1>4, <2>1, <2>2 DEF ReportsLeft, ReportsOfThisRun
<1>5. CASE /\ left = <<"md">> /\ job.files = <<"json", "md">>
           /\ report["json"] = whole
  <2>1. Head(left) = "md" /\ Tail(left) = <<>>
    BY <1>5
  <2>2. report'["json"] = whole /\ report'["md"] = whole
    BY <1>1, <1>5, <2>1
  <2>3. \A i \in DOMAIN job'.files : report'[job'.files[i]] = [run |-> runs', torn |-> FALSE]
    <3>1. job'.files = <<"json", "md">> /\ runs' = runs
      BY <1>1, <1>5
    <3>2. DOMAIN <<"json", "md">> = {1, 2}
      OBVIOUS
    <3> QED BY <2>2, <3>1, <3>2
  <2> QED BY <1>1, <1>2, <2>1, <2>3 DEF ReportsOfThisRun
<1> QED BY <1>1, <1>3, <1>4, <1>5 DEF ReportsLeft

LEMMA ReportStops ==
    ASSUME CInv, ReportFails \/ OutsideRepo PROVE JobInv' /\ ReportsOfThisRun'
<1>1. /\ status' \in {"raised", "1"} /\ UNCHANGED job
      /\ \/ UNCHANGED report
         \/ report' = [report EXCEPT ![Head(left)] = [run |-> runs, torn |-> TRUE]]
  BY DEF ReportFails, WriteFails, OutsideRepo
<1>2. DOMAIN report' = DOMAIN report
  BY <1>1
<1> QED BY <1>1, <1>2 DEF CInv, JobInv, ReportsOfThisRun

\* CInv is inductive: every step of a fetch, of the writer of the file and of an
\* analysis keeps it.
THEOREM CommandsInvariant == CSpec => []CInv
<1>1. CInit => CInv
  <2> SUFFICES ASSUME CInit PROVE CInv
    OBVIOUS
  <2>1. DInv
    BY DataStart DEF CInit
  <2>2. LoadInv
    <3>1. /\ DOMAIN loaded = {"rows", "opened", "of", "at", "cut"}
          /\ loaded.rows = <<>> /\ loaded.of.rows = <<>>
      BY DEF CInit, NoGames
    <3>2. <<>> \in Seq(Row) /\ Len(<<>>) = 0
      BY EmptySeq
    <3> QED BY <3>1, <3>2 DEF LoadInv, Ordered, InDateOrder, Begins
  <2>3. JobInv /\ ReportsOfThisRun /\ ReaderInv
    BY DEF CInit, NoJob, JobInv, ReportsOfThisRun, ReaderInv, Loading
  <2> QED BY <2>1, <2>2, <2>3 DEF CInv
<1>2. ASSUME CInv, [CNext]_cvars PROVE CInv'
  <2>1. ASSUME UNCHANGED jobVars PROVE LoadInv' /\ JobInv' /\ ReportsOfThisRun'
    BY <1>2, <2>1 DEF jobVars, CInv, LoadInv, Ordered, InDateOrder, Begins, JobInv,
       ReportsLeft, ReportsOfThisRun
  <2>2. CASE DNext /\ UNCHANGED jobVars
    <3>1. ReaderInv'
      <4>1. \/ intended' = intended /\ Len(csv'.rows) >= Len(csv.rows)
            \/ intended'.nr = intended.nr + 1
        BY <1>2, <2>2, FileGrows DEF CInv, DInv
      <4>2. intended.nr \in Nat /\ csv.rows \in Seq(Row) /\ csv'.rows \in Seq(Row)
        BY <1>2, <2>2, DataStep DEF CInv, DInv, FileInv
      <4>3. Len(csv.rows) \in Nat /\ Len(csv'.rows) \in Nat
        BY <4>2
      <4> QED
        BY <1>2, <2>2, <4>1, <4>2, <4>3 DEF CInv, ReaderInv, Loading, Rewritten, jobVars
    <3> QED BY <1>2, <2>1, <2>2, <3>1, DataStep DEF CInv
  <2>3. ASSUME NEW cmd, NEW soccer, NEW m, NEW output \in BOOLEAN,
               Process(cmd, soccer, m, output)
        PROVE  CInv'
    <3>1. UNCHANGED dvars
      BY <2>3 DEF Process
    <3> QED BY <1>2, <2>3, <3>1, JobQuiet, ProcessStep DEF CInv
  <2>4. CASE ReadOn \/ ReadRewritten \/ Raises \/ Analyse
    BY <1>2, <2>4, LoadStep
  <2>5. CASE WriteReport \/ ReportFails \/ OutsideRepo
    <3>1. UNCHANGED loaded /\ status' # "loading"
      BY <2>5 DEF WriteReport, ReportFails, WriteFails, OutsideRepo
    <3>2. LoadInv' /\ ReaderInv'
      BY <1>2, <3>1 DEF CInv, LoadInv, Ordered, InDateOrder, Begins, ReaderInv, Loading
    <3>3. DInv'
      BY <1>2, <2>5, JobQuiet DEF WriteReport, ReportFails, WriteFails, OutsideRepo
    <3>4. JobInv' /\ ReportsOfThisRun'
      BY <1>2, <2>5, ReportStep, ReportStops
    <3> QED BY <3>2, <3>3, <3>4 DEF CInv
  <2>6. CASE UNCHANGED cvars
    <3>1. ReaderInv'
      BY <1>2, <2>6 DEF CInv, ReaderInv, Loading, Rewritten, cvars, jobVars, dvars, fileVars
    <3> QED BY <1>2, <2>1, <2>6, <3>1, JobQuiet DEF CInv, cvars
  <2> QED BY <1>2, <2>2, <2>3, <2>4, <2>5, <2>6 DEF CNext
<1> QED BY <1>1, <1>2, PTL DEF CSpec
-----------------------------------------------------------------------------
(* What holds of every command *)

\* What ECNLDataFetcher promises holds when commands for any source run one after
\* the other, write the file that others read, and fail: no match twice, no score
\* older than the fetch, and no match missing that was over when it began.
THEOREM FetchesCorrect == CSpec => [](FetchedOnce /\ FetchFresh /\ FetchComplete)
<1>1. ASSUME CInv PROVE FetchedOnce /\ FetchFresh /\ FetchComplete
  <2>1. CASE source = "ecnl"
    BY <1>1, <2>1 DEF CInv, DInv, IInv
  <2>2. CASE source # "ecnl"
    <3>1. returned.games = {} /\ returned.since = [m \in Match |-> 0]
      BY <1>1, <2>2 DEF CInv, DInv, OtherInv, Nothing
    <3>2. FetchComplete
      BY <3>1, Calendar DEF FetchComplete
    <3> QED BY <3>1, <3>2 DEF FetchedOnce, FetchFresh
  <2> QED BY <2>1, <2>2
<1> QED BY <1>1, CommandsInvariant, PTL

\* A fetch by season of ASA (base.py:65) or by competition of the WPSL (wpsl.py:57)
\* that comes to its end has every match that was over when it began.
THEOREM SeasonsCorrect == CSpec => []SeasonsComplete
<1>1. CInv => SeasonsComplete
  BY DEF CInv, DInv
<1> QED BY <1>1, CommandsInvariant, PTL

\* Of a file that is not emptied between the opening and the last read of it
\* (loader.py:35-40), an analysis gets the beginning of the games of one fetch, by
\* date, each match once, however far its writer came before, between or after the
\* reads (cli.py:610), and whatever another one left in it.
THEOREM LoadedCorrect == CSpec => []LoadedIsPrefix
<1>1. CInv => LoadedIsPrefix
  BY LoadedFacts DEF CInv
<1> QED BY <1>1, CommandsInvariant, PTL

\* A command that ends with status 0 leaves each report it was asked for whole and
\* its own, whichever of its writes could fail (mls_poisson_report.py:188).
THEOREM ReportsCorrect == CSpec => []ReportsOfThisRun
<1>1. CInv => ReportsOfThisRun
  BY DEF CInv
<1> QED BY <1>1, CommandsInvariant, PTL
=============================================================================
