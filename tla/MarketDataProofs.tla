-------------------------- MODULE MarketDataProofs --------------------------
(***************************************************************************)
(* Theorems about the poll loop of market-data, for any markets, games,    *)
(* sports, books and prices, any failed calls, and any changes of the odds *)
(* while a poll is under way.  MarketData has the order of its writes,     *)
(* OddsFeed what it fetches and stores.                                    *)
(***************************************************************************)
EXTENDS MarketData, OddsFeed, FoldTheorems, TLAPS

-----------------------------------------------------------------------------
(* MarketData: the inductive invariant *)

\* Store, snapshot and provider are never ahead of one another: a poll only
\* replaces lines by ones that were fetched later.
StoreFollowsFeed ==
    \A m \in Market :
        ver[m] <= snapshot[m] /\ snapshot[m] <= odds[m]

\* What is about to be published has just been saved.
SavedBeforePublished ==
    \A m \in saving \union publishing : ver[m] = snapshot[m]

\* Outside of poll nothing of it is left over.
PollOver == phase # "odds" => pollTodo = {} /\ saving = {} /\ publishing = {}

\* One market is handled at a time.
OneMarket == \A m, n \in saving \union publishing : m = n

IInv ==
    /\ TypeOK
    /\ StoreFollowsFeed
    /\ SavedBeforePublished
    /\ PollOver
    /\ OneMarket
    /\ PublishedWasSaved

-----------------------------------------------------------------------------
(* MarketData: the steps *)

\* A process starts with nothing saved or published (main.go:128-146).
LEMMA StoreInit == Init => IInv
  BY MarketDataConstants
  DEF Init, IInv, TypeOK, StoreFollowsFeed, SavedBeforePublished, PollOver,
      OneMarket, PublishedWasSaved

\* The provider only moves on, and the process has no part in that.
LEMMA OutsideStep ==
    ASSUME IInv, OddsChange \/ GameEnds \/ LeaveWindow PROVE IInv'
<1> USE MarketDataConstants DEF IInv, saveVars, pollVars, out
<1>1. CASE OddsChange
  <2>1. TypeOK'
    BY <1>1 DEF OddsChange, TypeOK
  <2>2. StoreFollowsFeed'
    BY <1>1 DEF OddsChange, StoreFollowsFeed, TypeOK
  <2> QED
    BY <1>1, <2>1, <2>2 DEF OddsChange, SavedBeforePublished, PollOver, OneMarket,
       PublishedWasSaved
<1>2. CASE GameEnds
  BY <1>2 DEF GameEnds, TypeOK, StoreFollowsFeed, SavedBeforePublished, PollOver,
     OneMarket, PublishedWasSaved
<1>3. CASE LeaveWindow
  BY <1>3 DEF LeaveWindow, TypeOK, StoreFollowsFeed, SavedBeforePublished,
     PollOver, OneMarket, PublishedWasSaved
<1> QED BY <1>1, <1>2, <1>3

\* poll saves a market before it publishes it, and publishes it as saved
\* (main.go:255-274).
LEMMA PollStep == ASSUME IInv, Poll PROVE IInv'
<1> USE MarketDataConstants DEF IInv, outside, out, saveVars
<1>1. CASE StartPoll
  <2>1. TypeOK'
    BY <1>1 DEF StartPoll, TypeOK, PollOver
  <2>2. StoreFollowsFeed'
    BY <1>1 DEF StartPoll, StoreFollowsFeed, TypeOK
  <2> QED
    BY <1>1, <2>1, <2>2 DEF StartPoll, SavedBeforePublished, PollOver, OneMarket,
       PublishedWasSaved
<1>2. CASE SaveMarket
  <2> PICK m \in Market : Considered(m) /\ BackingSaves(m)
    BY <1>2 DEF SaveMarket
  <2>1. /\ ver' = [ver EXCEPT ![m] = snapshot[m]] /\ saving' = {m}
        /\ publishing = {} /\ m \in pollTodo /\ pollTodo' = pollTodo \ {m}
        /\ UNCHANGED <<phase, snapshot, publishing, scoresTodo, outside, out, faults>>
    BY <1>2 DEF SaveMarket, Considered, BackingSaves
  <2>2. TypeOK'
    BY <2>1 DEF TypeOK
  <2>3. StoreFollowsFeed' /\ PublishedWasSaved'
    BY <2>1 DEF StoreFollowsFeed, PublishedWasSaved, TypeOK
  <2>4. SavedBeforePublished' /\ OneMarket'
    BY <2>1 DEF SavedBeforePublished, OneMarket, TypeOK
  <2>5. PollOver'
    BY <2>1 DEF PollOver
  <2> QED BY <2>2, <2>3, <2>4, <2>5
<1>3. CASE Invalidate
  BY <1>3 DEF Invalidate, TypeOK, StoreFollowsFeed, SavedBeforePublished, PollOver,
     OneMarket, PublishedWasSaved
<1>4. CASE PublishLines
  <2> PICK m \in publishing : linesOut' = [linesOut EXCEPT ![m] = snapshot[m]]
    BY <1>4 DEF PublishLines
  <2>1. /\ linesOut' = [linesOut EXCEPT ![m] = snapshot[m]] /\ publishing' = {}
        /\ m \in Market /\ ver[m] = snapshot[m]
        /\ UNCHANGED <<saveVars, phase, snapshot, pollTodo, scoresTodo, outside,
                       scoresOut, faults>>
    BY <1>4 DEF PublishLines, SavedBeforePublished, TypeOK
  <2>2. TypeOK'
    BY <2>1 DEF TypeOK
  <2>3. PublishedWasSaved'
    BY <2>1 DEF PublishedWasSaved, TypeOK
  <2> QED
    BY <2>1, <2>2, <2>3 DEF StoreFollowsFeed, SavedBeforePublished, PollOver, OneMarket
<1>5. CASE StartScores
  BY <1>5 DEF StartScores, OddsPolled, TypeOK, StoreFollowsFeed,
     SavedBeforePublished, PollOver, OneMarket, PublishedWasSaved
<1>6. CASE PublishScore
  BY <1>6 DEF PublishScore, TypeOK, StoreFollowsFeed, SavedBeforePublished,
     PollOver, OneMarket, PublishedWasSaved
<1>7. CASE EndCycle
  BY <1>7 DEF EndCycle, TypeOK, StoreFollowsFeed, SavedBeforePublished, PollOver,
     OneMarket, PublishedWasSaved
<1> QED BY <1>1, <1>2, <1>3, <1>4, <1>5, <1>6, <1>7 DEF Poll

\* A call that fails, or a crash, drops a publication and never adds one.
LEMMA PollFaultStep == ASSUME IInv, PollFault PROVE IInv'
<1> USE MarketDataConstants DEF IInv, outside, out, saveVars, pollVars, Fault
<1>1. CASE EventsFail
  BY <1>1 DEF EventsFail, TypeOK, StoreFollowsFeed, SavedBeforePublished, PollOver,
     OneMarket, PublishedWasSaved
<1>2. CASE SkipMarket
  BY <1>2 DEF SkipMarket, Considered, TypeOK, StoreFollowsFeed,
     SavedBeforePublished, PollOver, OneMarket, PublishedWasSaved
<1>3. CASE InvalidateFails
  BY <1>3 DEF InvalidateFails, TypeOK, StoreFollowsFeed, SavedBeforePublished,
     PollOver, OneMarket, PublishedWasSaved
<1>4. CASE PublishLinesFails
  BY <1>4 DEF PublishLinesFails, TypeOK, StoreFollowsFeed, SavedBeforePublished,
     PollOver, OneMarket, PublishedWasSaved
<1>5. CASE ScoresFail
  BY <1>5 DEF ScoresFail, OddsPolled, TypeOK, StoreFollowsFeed,
     SavedBeforePublished, PollOver, OneMarket, PublishedWasSaved
<1>6. CASE PublishScoreFails
  BY <1>6 DEF PublishScoreFails, TypeOK, StoreFollowsFeed, SavedBeforePublished,
     PollOver, OneMarket, PublishedWasSaved
<1>7. CASE Crash
  BY <1>7 DEF Crash, TypeOK, StoreFollowsFeed, SavedBeforePublished, PollOver,
     OneMarket, PublishedWasSaved
<1> QED BY <1>1, <1>2, <1>3, <1>4, <1>5, <1>6, <1>7 DEF PollFault

LEMMA StoreInvariant == Spec => []IInv
<1>1. IInv /\ [Next]_vars => IInv'
  <2> SUFFICES ASSUME IInv, [Next]_vars PROVE IInv'
    OBVIOUS
  <2>1. CASE UNCHANGED vars
    BY <2>1 DEF vars, saveVars, pollVars, outside, out, IInv, TypeOK,
       StoreFollowsFeed, SavedBeforePublished, PollOver, OneMarket, PublishedWasSaved
  <2> QED BY <2>1, OutsideStep, PollStep, PollFaultStep DEF Next
<1> QED BY <1>1, StoreInit, PTL DEF Spec

-----------------------------------------------------------------------------
(* MarketData: theorems *)

\* Every reachable state has the types of poll and pollScores, of the store
\* and of the topics.
THEOREM TypeCorrect == Spec => []TypeOK
<1>1. IInv => TypeOK
  BY DEF IInv
<1> QED BY <1>1, StoreInvariant, PTL

\* However many remote calls fail, and wherever the process dies, the lines
\* topic holds no odds that the store has not been given (main.go:258-261).
THEOREM StoreFirst == Spec => []PublishedWasSaved
<1>1. IInv => PublishedWasSaved
  BY DEF IInv
<1> QED BY <1>1, StoreInvariant, PTL

-----------------------------------------------------------------------------
(* OddsFeed: the inductive invariant *)

FeedOK ==
    feed \in [Game \X Book ->
                [at : Nat, prices : UNION {[S -> Price] : S \in SUBSET Side}]]

\* A line is a quote that the feed has, or had.
Known(l) ==
    /\ l.event \in Game /\ l.book \in Book
    /\ l.at \in Nat /\ l.at <= feed[<<l.event, l.book>>].at
LinesKnown == \A l \in fetched \union cache : Known(l)

\* The cache has one line for each ID.
CacheOnce == \A l, m \in cache : Id(l) = Id(m) => l = m

\* Events are only left to save after the fetch of their sport succeeded.
LoopOK ==
    /\ refreshed \in BOOLEAN /\ failed \in BOOLEAN
    /\ refreshed => sportsTodo # <<>>
    /\ eventsTodo # {} => refreshed

\* Their lines are in the cache, and are the newest that the poll has fetched.
ToSave == {l \in cache : l.event \in eventsTodo}
NewestToSave ==
    /\ ToSave \subseteq fetched
    /\ \A m \in ToSave, l \in fetched : Id(l) = Id(m) => l.at <= m.at

\* What the poll has fetched is saved, or will be with the lines of its event.
Pending(l) == \E m \in ToSave : Id(m) = Id(l)
NothingLost == ~failed => \A l \in fetched : Saved(l) \/ Pending(l)

FeedInv == FeedOK /\ LinesKnown /\ CacheOnce /\ LoopOK /\ NewestToSave /\ NothingLost

-----------------------------------------------------------------------------
(* OddsFeed: the lines of a refresh *)

\* Raw lines are quotes of the feed, one for each ID.
LEMMA RawLinesFacts ==
    ASSUME FeedOK, NEW sport
    PROVE  /\ \A l \in RawLines(sport) :
                  /\ l.event \in Game /\ l.book \in Book /\ SportOf[l.event] = sport
                  /\ l.at = feed[<<l.event, l.book>>].at /\ l.at \in Nat
           /\ \A l, m \in RawLines(sport) : Id(l) = Id(m) => l = m
<1>1. \A l \in RawLines(sport) : \E q \in Game \X Book : \E s :
          SportOf[q[1]] = sport /\ l = Line(q, s)
  BY DEF RawLines, RawQuote
<1>2. \A q \in Game \X Book : \A s :
        /\ Line(q, s).event = q[1] /\ Line(q, s).book = q[2] /\ Line(q, s).side = s
        /\ Line(q, s).at = feed[q].at
  BY DEF Line
<1>3. \A q \in Game \X Book :
        /\ q = <<q[1], q[2]>> /\ q[1] \in Game /\ q[2] \in Book /\ feed[q].at \in Nat
  BY DEF FeedOK
<1>4. ASSUME NEW l \in RawLines(sport)
      PROVE  /\ l.event \in Game /\ l.book \in Book /\ SportOf[l.event] = sport
             /\ l.at = feed[<<l.event, l.book>>].at /\ l.at \in Nat
             /\ l = Line(<<l.event, l.book>>, l.side)
  <2> PICK q \in Game \X Book : \E s : SportOf[q[1]] = sport /\ l = Line(q, s)
    BY <1>1
  <2> PICK s : SportOf[q[1]] = sport /\ l = Line(q, s)
    OBVIOUS
  <2>1. q = <<l.event, l.book>> /\ s = l.side
    BY <1>2, <1>3
  <2> QED BY <1>2, <1>3, <2>1
<1>5. ASSUME NEW l \in RawLines(sport), NEW m \in RawLines(sport), Id(l) = Id(m)
      PROVE  l = m
  <2>1. l.event = m.event /\ l.book = m.book /\ l.side = m.side
    BY <1>5 DEF Id
  <2> QED BY <1>4, <2>1
<1> QED BY <1>4, <1>5

\* Devigging changes the probability of a line and nothing else.
LEMMA DevigFacts ==
    ASSUME FeedOK, NEW sport
    PROVE  /\ \A l \in DevigLines(RawLines(sport)) :
                  /\ l.event \in Game /\ l.book \in Book /\ SportOf[l.event] = sport
                  /\ l.at = feed[<<l.event, l.book>>].at /\ l.at \in Nat
           /\ \A l, m \in DevigLines(RawLines(sport)) : Id(l) = Id(m) => l = m
<1> DEFINE lines == RawLines(sport)
           fair(l) == [l EXCEPT !.implied = FairProb(l, lines)]
<1>1. \A l \in DevigLines(lines) : \E r \in lines : l = fair(r)
  BY DEF DevigLines
<1>2. \A l \in lines :
        /\ fair(l).event = l.event /\ fair(l).book = l.book /\ fair(l).at = l.at
        /\ fair(l).side = l.side
  <2>1. \A l \in lines : \E e, b, s, t, r, i :
            l = [event |-> e, book |-> b, side |-> s, at |-> t, raw |-> r, implied |-> i]
    BY DEF RawLines, RawQuote, Line
  <2> HIDE DEF lines
  <2> QED BY <2>1
<1>3. \A l, m \in lines : Id(fair(l)) = Id(fair(m)) => l = m
  <2>1. \A l \in lines : Id(fair(l)) = Id(l)
    BY <1>2 DEF Id
  <2> HIDE DEF fair, lines
  <2> QED BY <2>1, RawLinesFacts DEF lines
<1> HIDE DEF fair
<1> QED BY <1>1, <1>2, <1>3, RawLinesFacts

-----------------------------------------------------------------------------
(* OddsFeed: the steps *)

\* A step that leaves the poll's variables alone, whatever the feed does.
LEMMA FeedStep == ASSUME FeedInv, FeedChange PROVE FeedInv'
<1> USE DEF FeedInv
<1>1. /\ UNCHANGED <<sportsTodo, refreshed, cache, eventsTodo, store, fetched, failed>>
      /\ \E q \in Game \X Book, S \in SUBSET Side : \E prices \in [S -> Price] :
             feed' = [feed EXCEPT ![q] = [at |-> @.at + 1, prices |-> prices]]
  BY DEF FeedChange
<1>2. FeedOK' /\ \A q \in Game \X Book : feed[q].at <= feed'[q].at /\ feed'[q].at \in Nat
                                          /\ feed[q].at \in Nat
  <2> PICK q \in Game \X Book, S \in SUBSET Side :
          \E prices \in [S -> Price] :
             feed' = [feed EXCEPT ![q] = [at |-> @.at + 1, prices |-> prices]]
    BY <1>1
  <2> PICK prices \in [S -> Price] :
          feed' = [feed EXCEPT ![q] = [at |-> @.at + 1, prices |-> prices]]
    OBVIOUS
  <2> DEFINE All == UNION {[T -> Price] : T \in SUBSET Side}
             Quote == [at : Nat, prices : All]
             D == Game \X Book
             new == [at |-> feed[q].at + 1, prices |-> prices]
  <2>1. prices \in All /\ q \in D
    OBVIOUS
  <2> HIDE DEF All
  <2>2. feed \in [D -> Quote]
    BY DEF FeedOK, All
  <2>3. feed' = [feed EXCEPT ![q] = new]
    OBVIOUS
  <2> HIDE DEF D
  <2>4. feed[q].at \in Nat /\ new \in Quote /\ new.at = feed[q].at + 1
    BY <2>1, <2>2
  <2>5. \A r \in D : feed[r].at \in Nat
    BY <2>2
  <2> HIDE DEF new, Quote
  <2>6. feed' \in [D -> Quote]
    BY <2>1, <2>2, <2>3, <2>4
  <2>7. \A r \in D : feed'[r] = IF r = q THEN new ELSE feed[r]
    BY <2>1, <2>2, <2>3
  <2>8. \A r \in D : feed[r].at <= feed'[r].at /\ feed'[r].at \in Nat
    BY <2>4, <2>5, <2>7
  <2> QED BY <2>5, <2>6, <2>8 DEF FeedOK, All, D, Quote
<1>3. LinesKnown'
  <2> SUFFICES ASSUME NEW l \in fetched \union cache PROVE Known(l)'
    BY <1>1 DEF LinesKnown
  <2>1. <<l.event, l.book>> \in Game \X Book /\ Known(l)
    BY DEF LinesKnown, Known
  <2> QED BY <1>2, <2>1 DEF Known
<1>4. ToSave' = ToSave
  BY <1>1 DEF ToSave
<1>5. CacheOnce' /\ LoopOK' /\ NewestToSave' /\ NothingLost'
  BY <1>1, <1>4 DEF CacheOnce, LoopOK, NewestToSave, NothingLost, Saved, Pending
<1> QED BY <1>2, <1>3, <1>5

\* What is fetched is newer than what this poll fetched before, and left to save.
LEMMA RefreshStep == ASSUME FeedInv, Refresh PROVE FeedInv'
<1> USE DEF FeedInv
<1> DEFINE sport == Head(sportsTodo)
           new == {l \in cache' : l.event \in InSeason}
<1>1. /\ sportsTodo # <<>> /\ ~refreshed /\ refreshed' = TRUE
      /\ cache' = DevigLines(RawLines(sport))
      /\ eventsTodo' = {e \in InSeason : SportOf[e] = sport}
      /\ fetched' = fetched \union new
      /\ UNCHANGED <<feed, sportsTodo, store, failed>>
  BY DEF Refresh, feedVars
<1>2. FeedOK' /\ LoopOK'
  BY <1>1 DEF FeedOK, LoopOK
<1>3. /\ \A l \in cache' : /\ l.event \in Game /\ l.book \in Book
                            /\ SportOf[l.event] = sport
                            /\ l.at = feed[<<l.event, l.book>>].at /\ l.at \in Nat
      /\ \A l, m \in cache' : Id(l) = Id(m) => l = m
  BY <1>1, DevigFacts
<1> HIDE DEF sport
<1>4. ToSave' = new
  BY <1>1, <1>3 DEF ToSave
<1>5. new \subseteq cache' /\ new \subseteq fetched'
  BY <1>1
<1> HIDE DEF new
<1>6. LinesKnown'
  <2>1. \A l \in cache' : Known(l)'
    <3> SUFFICES ASSUME NEW l \in cache' PROVE Known(l)'
      OBVIOUS
    <3>1. /\ l.event \in Game /\ l.book \in Book
          /\ l.at = feed[<<l.event, l.book>>].at /\ l.at \in Nat
      BY <1>3
    <3> QED BY <1>1, <3>1 DEF Known
  <2>2. \A l \in fetched : Known(l)'
    BY <1>1 DEF LinesKnown, Known
  <2> QED BY <1>1, <1>5, <2>1, <2>2 DEF LinesKnown
<1>7. CacheOnce'
  BY <1>3 DEF CacheOnce
<1>8. NewestToSave'
  <2>1. ASSUME NEW m \in new, NEW l \in fetched', Id(l) = Id(m) PROVE l.at <= m.at
    <3>1. l.event = m.event /\ l.book = m.book
      BY <2>1 DEF Id
    <3>2. m.at = feed[<<m.event, m.book>>].at
      BY <1>3, <1>5
    <3>3. l.at <= feed'[<<l.event, l.book>>].at
      BY <1>6 DEF LinesKnown, Known
    <3> QED BY <1>1, <3>1, <3>2, <3>3
  <2> QED BY <1>4, <1>5, <2>1 DEF NewestToSave
<1>9. NothingLost'
  <2> SUFFICES ASSUME ~failed, NEW l \in fetched' PROVE Saved(l)' \/ Pending(l)'
    BY <1>1 DEF NothingLost
  <2>1. CASE l \in fetched
    <3>1. ToSave = {}
      BY <1>1 DEF LoopOK, ToSave
    <3>2. Saved(l)
      BY <2>1, <3>1 DEF NothingLost, Pending
    <3> QED BY <1>1, <3>2 DEF Saved
  <2>2. CASE l \in new
    BY <1>4, <2>2 DEF Pending
  <2> QED BY <1>1, <2>1, <2>2
<1> QED BY <1>2, <1>6, <1>7, <1>8, <1>9

\* Saving the lines of an event overwrites what has their IDs, which is no newer.
LEMMA SaveStep == ASSUME FeedInv, SaveEvent PROVE FeedInv'
<1> USE DEF FeedInv
<1> PICK e \in eventsTodo : /\ store' = Upsert({l \in cache : l.event = e})
                            /\ eventsTodo' = eventsTodo \ {e}
  BY DEF SaveEvent
<1> DEFINE lines == {l \in cache : l.event = e}
<1>1. UNCHANGED <<feed, sportsTodo, refreshed, cache, fetched, failed>>
  BY DEF SaveEvent, feedVars
<1>2. FeedOK' /\ LinesKnown' /\ CacheOnce' /\ LoopOK'
  BY <1>1 DEF FeedOK, LinesKnown, Known, CacheOnce, LoopOK
<1>3. ToSave' = ToSave \ lines /\ lines \subseteq ToSave
  BY <1>1 DEF ToSave
<1>4. NewestToSave'
  BY <1>1, <1>3 DEF NewestToSave
<1>5. DOMAIN store' = DOMAIN store \union {Id(l) : l \in lines}
  BY DEF Upsert
<1>6. ASSUME NEW m \in lines PROVE Id(m) \in DOMAIN store' /\ store'[Id(m)] = m
  <2>1. \A l \in lines : Id(l) = Id(m) => l = m
    BY DEF CacheOnce
  <2>2. (CHOOSE l \in lines : Id(l) = Id(m)) = m
    BY <2>1
  <2>3. Id(m) \in DOMAIN store'
    BY <1>5
  <2> QED BY <2>2, <2>3 DEF Upsert
<1>7. ASSUME NEW i \in DOMAIN store, \A m \in lines : Id(m) # i
      PROVE  i \in DOMAIN store' /\ store'[i] = store[i]
  BY <1>5, <1>7 DEF Upsert
<1> HIDE DEF lines
<1>8. NothingLost'
  <2> SUFFICES ASSUME ~failed, NEW l \in fetched PROVE Saved(l)' \/ Pending(l)'
    BY <1>1 DEF NothingLost
  <2>1. CASE \E m \in lines : Id(m) = Id(l)
    <3> PICK m \in lines : Id(m) = Id(l)
      BY <2>1
    <3>1. m \in fetched /\ l.at <= m.at /\ l.at \in Nat /\ m.at \in Nat
      BY <1>3 DEF NewestToSave, LinesKnown, Known
    <3> QED BY <1>1, <1>6, <3>1 DEF Saved
  <2>2. CASE Saved(l) /\ \A m \in lines : Id(m) # Id(l)
    BY <1>1, <1>7, <2>2 DEF Saved
  <2>3. CASE Pending(l) /\ \A m \in lines : Id(m) # Id(l)
    BY <1>3, <2>3 DEF Pending
  <2> QED BY <2>1, <2>2, <2>3 DEF NothingLost
<1> QED BY <1>2, <1>4, <1>8

\* The other steps of the loop: a new poll has fetched nothing, a failed call is
\* remembered, and the next sport comes when nothing is left to save.
LEMMA LoopStep ==
    ASSUME FeedInv, BeginPoll \/ RefreshFails \/ SaveFails \/ NextSport PROVE FeedInv'
<1> USE DEF FeedInv
<1>1. UNCHANGED <<feed, cache, store>> /\ eventsTodo' \subseteq eventsTodo /\ fetched' \subseteq fetched
  BY DEF BeginPoll, RefreshFails, SaveFails, NextSport, feedVars
<1>2. FeedOK' /\ LinesKnown' /\ CacheOnce'
  BY <1>1 DEF FeedOK, LinesKnown, Known, CacheOnce
<1>3. CASE BeginPoll
  <2>1. /\ sportsTodo = <<>> /\ refreshed' = FALSE /\ fetched' = {} /\ failed' = FALSE
        /\ eventsTodo' = eventsTodo
    BY <1>3 DEF BeginPoll
  <2>2. eventsTodo = {}
    BY <2>1 DEF LoopOK
  <2>3. LoopOK' /\ ToSave' = {}
    BY <2>1, <2>2 DEF LoopOK, ToSave
  <2> QED BY <1>2, <2>1, <2>3 DEF NewestToSave, NothingLost
<1>4. CASE RefreshFails \/ SaveFails
  <2>1. failed' = TRUE /\ UNCHANGED <<sportsTodo, fetched>>
    BY <1>4 DEF RefreshFails, SaveFails, CallFails
  <2>2. ToSave' \subseteq ToSave
    BY <1>1 DEF ToSave
  <2>3. LoopOK'
    <3>1. CASE RefreshFails
      BY <1>1, <2>1, <3>1 DEF RefreshFails, LoopOK
    <3>2. CASE SaveFails
      BY <1>1, <2>1, <3>2 DEF SaveFails, LoopOK
    <3> QED BY <1>4, <3>1, <3>2
  <2>4. NewestToSave' /\ NothingLost'
    BY <2>1, <2>2 DEF NewestToSave, NothingLost
  <2> QED BY <1>2, <2>3, <2>4
<1>5. CASE NextSport
  <2>1. /\ eventsTodo = {} /\ eventsTodo' = {} /\ refreshed' = FALSE
        /\ UNCHANGED <<fetched, failed>>
    BY <1>5 DEF NextSport
  <2>2. ToSave = {} /\ ToSave' = {}
    BY <2>1 DEF ToSave
  <2>3. LoopOK' /\ NewestToSave'
    BY <2>1, <2>2 DEF LoopOK, NewestToSave
  <2>4. NothingLost'
    BY <1>1, <2>1, <2>2 DEF NothingLost, Pending, Saved
  <2> QED BY <1>2, <2>3, <2>4
<1> QED BY <1>3, <1>4, <1>5

LEMMA FeedInvariant == FeedSpec => []FeedInv
<1>1. FeedInit => FeedInv
  <2> SUFFICES ASSUME FeedInit PROVE FeedInv
    OBVIOUS
  <2>1. FeedOK
    <3> DEFINE All == UNION {[S -> Price] : S \in SUBSET Side}
    <3>1. <<>> \in All
      <4>1. <<>> \in [{} -> Price] /\ {} \in SUBSET Side
        OBVIOUS
      <4> QED BY <4>1
    <3> HIDE DEF All
    <3>2. feed \in [Game \X Book -> [at : Nat, prices : All]]
      BY <3>1 DEF FeedInit
    <3> QED BY <3>2 DEF FeedOK, All
  <2>2. LinesKnown /\ CacheOnce /\ LoopOK /\ NewestToSave /\ NothingLost
    BY DEF FeedInit, LinesKnown, CacheOnce, LoopOK, NewestToSave, ToSave, NothingLost
  <2> QED BY <2>1, <2>2 DEF FeedInv
<1>2. FeedInv /\ [FeedNext]_oddsVars => FeedInv'
  <2> SUFFICES ASSUME FeedInv, [FeedNext]_oddsVars PROVE FeedInv'
    OBVIOUS
  <2>1. CASE UNCHANGED oddsVars
    BY <2>1 DEF oddsVars, feedVars, FeedInv, FeedOK, LinesKnown, Known, CacheOnce, LoopOK,
       NewestToSave, ToSave, NothingLost, Saved, Pending
  <2> QED BY <2>1, FeedStep, RefreshStep, SaveStep, LoopStep DEF FeedNext
<1> QED BY <1>1, <1>2, PTL DEF FeedSpec

-----------------------------------------------------------------------------
(* OddsFeed: sums of rounded shares *)

LEMMA ShareBounds ==
    ASSUME NEW r \in Nat \ {0}, NEW k \in Nat, NEW n \in Nat, NEW t \in Int, NEW m \in Int,
           r * k = r * t + m, 0 <= m, m < n * r
    PROVE  t \in k - n + 1 .. k
<1> DEFINE d == k - t
<1>1. d \in Int /\ r * d = m
  OBVIOUS
<1>2. 0 <= d
  <2> SUFFICES ASSUME d <= -1 PROVE FALSE
    BY <1>1
  <2> HIDE DEF d
  <2> QED BY <1>1
<1>3. d < n
  <2> SUFFICES ASSUME n <= d PROVE FALSE
    BY <1>1
  <2> HIDE DEF d
  <2>1. r * n <= r * d
    BY <1>1
  <2> QED BY <1>1, <2>1
<1> QED BY <1>2, <1>3

\* Shares of a whole, each rounded down, lose less than one for each of them.
LEMMA SharesAddUp ==
    ASSUME NEW S, IsFiniteSet(S), S # {}, NEW F, \A x \in S : F[x] \in Nat \ {0},
           NEW k \in Nat, NEW G, \A x \in S : G[x] = (k * F[x]) \div Total(F, S)
    PROVE  /\ \A x \in S : G[x] \in Int
           /\ Total(G, S) \in k - Cardinality(S) + 1 .. k
<1> DEFINE r == Total(F, S)
           rest == [x \in S |-> (k * F[x]) % r]
           whole == [x \in S |-> r * G[x]]
           parts == [x \in S |-> k * F[x]]
           one == [x \in S |-> r - 1]
           none == [x \in S |-> 0]
           n == Cardinality(S)
<1>1. IntOn(F, S) /\ n \in Nat
  BY FS_CardinalityType DEF IntOn
<1>2. r \in Nat \ {0}
  <2>1. PICK y \in S : TRUE
    OBVIOUS
  <2>2. r = F[y] + Total(F, S \ {y})
    BY <1>1, TotalRemove
  <2>3. IsFiniteSet(S \ {y}) /\ IntOn(F, S \ {y}) /\ IntOn(none, S \ {y})
    BY <1>1, FS_RemoveElement DEF IntOn
  <2>4. Total(none, S \ {y}) <= Total(F, S \ {y})
    <3>1. \A x \in S \ {y} : none[x] <= F[x]
      OBVIOUS
    <3> HIDE DEF none
    <3> QED BY <2>3, <3>1, TotalCompare
  <2>5. Total(none, S \ {y}) = Cardinality(S \ {y}) * 0
    <3> DEFINE zero == 0
    <3>1. \A x \in S \ {y} : none[x] = zero
      OBVIOUS
    <3>2. zero \in Int
      OBVIOUS
    <3> HIDE DEF none, zero
    <3>3. Total(none, S \ {y}) = Cardinality(S \ {y}) * zero
      BY <2>3, <3>1, <3>2, TotalConstant
    <3> QED BY <3>3 DEF zero
  <2>6. Total(F, S \ {y}) \in Int /\ Cardinality(S \ {y}) \in Nat
    BY <2>3, TotalStep, FS_CardinalityType
  <2> QED BY <2>2, <2>4, <2>5, <2>6
<1>3. \A x \in S : /\ G[x] \in Int /\ rest[x] \in 0 .. r - 1
                   /\ parts[x] = whole[x] + rest[x]
  <2> SUFFICES ASSUME NEW x \in S
               PROVE  /\ G[x] \in Int /\ rest[x] \in 0 .. r - 1
                      /\ parts[x] = whole[x] + rest[x]
    OBVIOUS
  <2> DEFINE a == k * F[x]
  <2>1. a \in Nat
    OBVIOUS
  <2>2. G[x] = a \div r /\ rest[x] = a % r /\ parts[x] = a
    OBVIOUS
  <2> HIDE DEF r
  <2>3. whole[x] = r * G[x]
    OBVIOUS
  <2> HIDE DEF a, rest, parts, whole
  <2>4. a \div r \in Int /\ a % r \in 0 .. r - 1 /\ a = r * (a \div r) + (a % r)
    BY <1>2, <2>1, Division
  <2>5. G[x] \in Int /\ rest[x] \in 0 .. r - 1 /\ a = r * G[x] + rest[x]
    BY <2>2, <2>4
  <2> QED BY <2>2, <2>3, <2>5
<1>4. IntOn(G, S) /\ IntOn(rest, S) /\ IntOn(whole, S) /\ IntOn(parts, S) /\ IntOn(one, S)
  BY <1>1, <1>2, <1>3 DEF IntOn
<1>5. Total(parts, S) = r * k
  <2>1. \A x \in S : parts[x] = k * F[x]
    OBVIOUS
  <2> HIDE DEF parts
  <2>2. Total(parts, S) = k * Total(F, S)
    BY <1>1, <2>1, TotalTimes
  <2> QED BY <1>2, <2>2
<1>6. Total(whole, S) = r * Total(G, S)
  <2>1. \A x \in S : whole[x] = r * G[x]
    OBVIOUS
  <2> HIDE DEF whole, r
  <2> QED BY <1>2, <1>4, <2>1, TotalTimes
<1>7. Total(parts, S) = Total(whole, S) + Total(rest, S)
  <2> HIDE DEF parts, whole, rest
  <2> QED BY <1>3, <1>4, TotalPlus
<1>8. 0 <= Total(rest, S) /\ Total(rest, S) <= n * (r - 1)
  <2> DEFINE last == r - 1
             zero == 0
  <2>1. Total(none, S) = n * 0
    <3>1. zero \in Int /\ \A x \in S : none[x] = zero
      OBVIOUS
    <3> HIDE DEF none, zero
    <3>2. Total(none, S) = n * zero
      BY <3>1, TotalConstant
    <3> QED BY <3>2 DEF zero
  <2>2. Total(one, S) = n * last
    <3>1. last \in Int /\ \A x \in S : one[x] = last
      BY <1>2
    <3> HIDE DEF one, last
    <3> QED BY <3>1, TotalConstant
  <2>3. \A x \in S : none[x] <= rest[x] /\ rest[x] <= one[x]
    BY <1>2, <1>3
  <2>4. IntOn(none, S)
    BY DEF IntOn
  <2> HIDE DEF none, one, rest
  <2>5. Total(none, S) <= Total(rest, S) /\ Total(rest, S) <= Total(one, S)
    BY <1>4, <2>3, <2>4, TotalCompare
  <2> QED BY <1>1, <2>1, <2>2, <2>5
<1>9. Total(G, S) \in Int /\ Total(rest, S) \in Int /\ n # 0
  BY <1>4, TotalStep, FS_EmptySet
<1>10. n * (r - 1) < n * r
  <2> HIDE DEF n, r
  <2> QED BY <1>1, <1>2, <1>9
<1>11. r * k = r * Total(G, S) + Total(rest, S) /\ Total(rest, S) < n * r
  <2> HIDE DEF rest, n, r, parts, whole
  <2>1. n * (r - 1) \in Int /\ n * r \in Int
    BY <1>1, <1>2
  <2> QED BY <1>5, <1>6, <1>7, <1>8, <1>9, <1>10, <2>1
<1> HIDE DEF rest, n, r, parts, whole
<1> QED BY <1>1, <1>2, <1>3, <1>8, <1>9, <1>11, ShareBounds DEF n

-----------------------------------------------------------------------------
(* OddsFeed: snapshots *)

\* The devigged lines of a quote, by themselves.
Quoted(q) == DevigLines(RawQuote(q))
QuoteOf(l) == <<l.event, l.book>>
IsLine(l) == l = [event |-> l.event, book |-> l.book, side |-> l.side, at |-> l.at,
                  raw |-> l.raw, implied |-> l.implied]

LEMMA RawSum ==
    ASSUME NEW S, IsFiniteSet(S), NEW F, IntOn(F, S), \A l \in S : F[l] = l.raw
    PROVE  MapThenSumSet(RawOf, S) = Total(F, S)
<1> DEFINE next(f, s) == IF s = {} THEN 0
                         ELSE (CHOOSE x \in s : TRUE).raw + f[s \ {CHOOSE x \in s : TRUE}]
           f == CHOOSE g : g = [s \in SUBSET S |-> next(g, s)]
<1>1. MapThenSumSet(RawOf, S) = f[S]
  BY DEF MapThenSumSet, MapThenFoldSet, RawOf
<1>2. \A g : Summing(g, F, S) <=> g = [s \in SUBSET S |-> next(g, s)]
  <2> TAKE g
  <2>1. \A s \in SUBSET S :
          next(g, s) = IF s = {} THEN 0
                       ELSE F[CHOOSE x \in s : TRUE] + g[s \ {CHOOSE x \in s : TRUE}]
    OBVIOUS
  <2> HIDE DEF next
  <2> QED BY <2>1 DEF Summing
<1>3. \E g : g = [s \in SUBSET S |-> next(g, s)]
  BY <1>2, TotalSums
<1>4. f = [s \in SUBSET S |-> next(f, s)]
  <2> HIDE DEF next
  <2> QED BY <1>3
<1> HIDE DEF f
<1>5. Summing(f, F, S)
  BY <1>2, <1>4
<1> QED BY <1>1, <1>5, SummingTotal

LEMMA ImpliedSum ==
    ASSUME NEW S, IsFiniteSet(S), NEW F, IntOn(F, S), \A l \in S : F[l] = l.implied
    PROVE  MapThenSumSet(ImpliedOf, S) = Total(F, S)
<1> DEFINE next(f, s) == IF s = {} THEN 0
                         ELSE (CHOOSE x \in s : TRUE).implied + f[s \ {CHOOSE x \in s : TRUE}]
           f == CHOOSE g : g = [s \in SUBSET S |-> next(g, s)]
<1>1. MapThenSumSet(ImpliedOf, S) = f[S]
  BY DEF MapThenSumSet, MapThenFoldSet, ImpliedOf
<1>2. \A g : Summing(g, F, S) <=> g = [s \in SUBSET S |-> next(g, s)]
  <2> TAKE g
  <2>1. \A s \in SUBSET S :
          next(g, s) = IF s = {} THEN 0
                       ELSE F[CHOOSE x \in s : TRUE] + g[s \ {CHOOSE x \in s : TRUE}]
    OBVIOUS
  <2> HIDE DEF next
  <2> QED BY <2>1 DEF Summing
<1>3. \E g : g = [s \in SUBSET S |-> next(g, s)]
  BY <1>2, TotalSums
<1>4. f = [s \in SUBSET S |-> next(f, s)]
  <2> HIDE DEF next
  <2> QED BY <1>3
<1> HIDE DEF f
<1>5. Summing(f, F, S)
  BY <1>2, <1>4
<1> QED BY <1>1, <1>5, SummingTotal

LEMMA RawProbType ==
    ASSUME NEW p \in Price, p # 0 PROVE RawProb(p) \in Nat \ {0}
<1> USE FeedConstants
<1>1. p \in Int /\ RawProb(p) > 0
  BY ScaleConstants
<1>2. CASE p > 0
  <2>1. Scale * 100 \in Nat /\ p + 100 \in Nat \ {0}
    BY <1>1, <1>2
  <2>2. (Scale * 100) \div (p + 100) \in Int
    BY <2>1, Division
  <2> QED BY <1>1, <1>2, <2>2 DEF RawProb
<1>3. CASE ~(p > 0)
  <2>1. -p \in Nat /\ 100 - p \in Nat \ {0}
    BY <1>1, <1>3
  <2>2. Scale * (-p) \in Nat
    BY <2>1
  <2>3. (Scale * (-p)) \div (100 - p) \in Int
    BY <2>1, <2>2, Division
  <2> QED BY <1>1, <1>3, <2>3 DEF RawProb
<1> QED BY <1>2, <1>3

LEMMA OnlyImplied ==
    ASSUME NEW l, IsLine(l), NEW p, NEW f, f = [l EXCEPT !.implied = p]
    PROVE  /\ f.event = l.event /\ f.book = l.book /\ f.side = l.side
           /\ f.at = l.at /\ f.implied = p
<1>1. PICK e, b, s, a, r, i :
        /\ l = [event |-> e, book |-> b, side |-> s, at |-> a, raw |-> r, implied |-> i]
        /\ e = l.event /\ b = l.book /\ s = l.side /\ a = l.at
  BY DEF IsLine
<1>2. f = [event |-> e, book |-> b, side |-> s, at |-> a, raw |-> r, implied |-> p]
  BY <1>1
<1> QED BY <1>1, <1>2

\* The lines of one quote.
LEMMA RawQuoteFacts ==
    ASSUME FeedOK, NEW q \in Game \X Book
    PROVE  /\ IsFiniteSet(RawQuote(q))
           /\ \A l \in RawQuote(q) : /\ QuoteOf(l) = q /\ l.at = feed[q].at
                                     /\ l.raw \in Nat \ {0} /\ IsLine(l)
           /\ \A l, m \in RawQuote(q) : l.side = m.side => l = m
<1> DEFINE sides == {s \in DOMAIN feed[q].prices : feed[q].prices[s] # 0}
           line == [s \in sides |-> Line(q, s)]
<1>1. PICK S \in SUBSET Side : feed[q].prices \in [S -> Price]
  <2> DEFINE All == UNION {[T -> Price] : T \in SUBSET Side}
  <2>1. feed \in [Game \X Book -> [at : Nat, prices : All]]
    BY DEF FeedOK
  <2> HIDE DEF All
  <2>2. feed[q].prices \in All
    BY <2>1
  <2> QED BY <2>2 DEF All
<1>2. sides \subseteq Side /\ \A s \in sides : feed[q].prices[s] \in Price /\ feed[q].prices[s] # 0
  BY <1>1
<1>3. \A s \in sides : RawProb(feed[q].prices[s]) \in Nat \ {0}
  BY <1>2, RawProbType
<1>4. \A s \in sides : /\ line[s].side = s /\ line[s].event = q[1] /\ line[s].book = q[2]
                       /\ line[s].at = feed[q].at /\ line[s].raw \in Nat \ {0}
                       /\ IsLine(line[s])
  BY <1>3 DEF Line, IsLine
<1>5. RawQuote(q) = {line[s] : s \in sides}
  BY DEF RawQuote
<1>6. q = <<q[1], q[2]>>
  OBVIOUS
<1>7. IsFiniteSet(sides)
  <2> HIDE DEF sides
  <2> QED BY <1>2, FeedConstants, FS_Subset
<1> HIDE DEF line, sides
<1>8. IsFiniteSet({line[s] : s \in sides})
  <2>1. \A s, t \in sides : line[s] = line[t] => s = t
    BY <1>4
  <2> QED BY <1>7, <2>1, ImageCardinality
<1> QED BY <1>4, <1>5, <1>6, <1>8 DEF QuoteOf

\* A devigged quote adds up to one.
LEMMA QuotedFacts ==
    ASSUME FeedOK, NEW q \in Game \X Book
    PROVE  /\ \A l \in Quoted(q) : QuoteOf(l) = q /\ l.at = feed[q].at
           /\ Quoted(q) # {} => SumsToOne(Quoted(q))
<1> DEFINE S == RawQuote(q)
           T == Quoted(q)
           fair == [l \in S |-> [l EXCEPT !.implied = FairProb(l, S)]]
           raw == [l \in S |-> l.raw]
           share == [l \in S |-> fair[l].implied]
           implied == [l \in T |-> l.implied]
<1>1. /\ IsFiniteSet(S)
      /\ \A l \in S : /\ QuoteOf(l) = q /\ l.at = feed[q].at
                      /\ l.raw \in Nat \ {0} /\ IsLine(l)
      /\ \A l, m \in S : l.side = m.side => l = m
  BY RawQuoteFacts
<1>2. T = {fair[l] : l \in S}
  BY DEF Quoted, DevigLines
<1>3. \A l \in S :
        /\ fair[l].event = l.event /\ fair[l].book = l.book /\ fair[l].side = l.side
        /\ fair[l].at = l.at /\ fair[l].implied = FairProb(l, S)
  <2> SUFFICES ASSUME NEW l \in S
               PROVE  /\ fair[l].event = l.event /\ fair[l].book = l.book
                      /\ fair[l].side = l.side /\ fair[l].at = l.at
                      /\ fair[l].implied = FairProb(l, S)
    OBVIOUS
  <2> DEFINE p == FairProb(l, S)
  <2>1. fair[l] = [l EXCEPT !.implied = p]
    OBVIOUS
  <2> HIDE DEF S, p, fair
  <2>2. IsLine(l)
    BY <1>1
  <2> QED BY <2>1, <2>2, OnlyImplied DEF p
<1>4. \A l \in S : {m \in S : SnapshotKey(m) = SnapshotKey(l)} = S
  BY <1>1 DEF SnapshotKey, QuoteOf
<1>5. MapThenSumSet(RawOf, S) = Total(raw, S) /\ IntOn(raw, S)
  <2>1. IntOn(raw, S) /\ \A l \in S : raw[l] = l.raw
    BY <1>1 DEF IntOn
  <2> HIDE DEF S, raw
  <2> QED BY <1>1, <2>1, RawSum
<1>6. \A l \in S : share[l] = (Scale * raw[l]) \div Total(raw, S)
  <2> SUFFICES ASSUME NEW l \in S PROVE FairProb(l, S) = (Scale * raw[l]) \div Total(raw, S)
    BY <1>3
  <2>1. FairProb(l, S) = (Scale * l.raw) \div
            MapThenSumSet(RawOf, {m \in S : SnapshotKey(m) = SnapshotKey(l)})
    BY DEF FairProb
  <2>2. raw[l] = l.raw
    OBVIOUS
  <2> HIDE DEF S, raw
  <2> QED BY <1>4, <1>5, <2>1, <2>2
<1>7. \A l, m \in S : fair[l] = fair[m] => l = m
  <2> HIDE DEF S, fair
  <2> QED BY <1>1, <1>3
<1>8. \A l \in T : QuoteOf(l) = q /\ l.at = feed[q].at
  <2> HIDE DEF S, T, fair
  <2> QED BY <1>1, <1>2, <1>3 DEF QuoteOf
<1>9. ASSUME T # {} PROVE SumsToOne(T)
  <2>1. S # {} /\ Scale \in Nat /\ \A l \in S : raw[l] \in Nat \ {0}
    BY <1>1, <1>2, <1>9, FeedConstants
  <2> HIDE DEF S, T, fair, raw
  <2>2. \A l \in S : share[l] = implied[fair[l]]
    BY <1>2
  <2> HIDE DEF share, implied
  <2>3. /\ \A l \in S : share[l] \in Int
        /\ Total(share, S) \in Scale - Cardinality(S) + 1 .. Scale
    BY <1>1, <1>6, <2>1, SharesAddUp
  <2>4. IsFiniteSet(T) /\ Cardinality(T) = Cardinality(S)
    BY <1>1, <1>2, <1>7, ImageCardinality
  <2>5. Total(implied, T) = Total(share, S)
    <3>1. IntOn(share, S)
      BY <2>3 DEF IntOn
    <3> QED BY <1>1, <1>2, <1>7, <2>2, <3>1, TotalImage
  <2>6. MapThenSumSet(ImpliedOf, T) = Total(implied, T)
    <3>1. IntOn(implied, T)
      BY <1>2, <2>2, <2>3 DEF IntOn
    <3>2. \A l \in T : implied[l] = l.implied
      BY DEF implied
    <3> QED BY <2>4, <3>1, <3>2, ImpliedSum
  <2> QED BY <2>3, <2>4, <2>5, <2>6 DEF SumsToOne
<1> QED BY <1>8, <1>9

\* A refresh devigs each quote of the sport by itself.
LEMMA DevigByQuote ==
    ASSUME FeedOK, NEW sport
    PROVE  DevigLines(RawLines(sport)) =
               UNION {Quoted(q) : q \in {q \in Game \X Book : SportOf[q[1]] = sport}}
<1> DEFINE Q == {q \in Game \X Book : SportOf[q[1]] = sport}
           L == RawLines(sport)
<1>1. L = UNION {RawQuote(q) : q \in Q}
  BY DEF RawLines
<1>2. ASSUME NEW q \in Q, NEW l \in RawQuote(q)
      PROVE  FairProb(l, L) = FairProb(l, RawQuote(q))
  <2>1. \A p \in Q : \A m \in RawQuote(p) : QuoteOf(m) = p /\ m.at = feed[p].at
    BY RawQuoteFacts
  <2> HIDE DEF Q, L
  <2>2. \A m \in L : m \in RawQuote(QuoteOf(m)) /\ QuoteOf(m) \in Q
    BY <1>1, <2>1
  <2>3. \A m \in L : SnapshotKey(m) = SnapshotKey(l) => QuoteOf(m) = QuoteOf(l)
    BY DEF SnapshotKey, QuoteOf
  <2>4. QuoteOf(l) = q /\ RawQuote(q) \subseteq L
    BY <1>1, <1>2, <2>1
  <2>5. {m \in L : SnapshotKey(m) = SnapshotKey(l)}
            = {m \in RawQuote(q) : SnapshotKey(m) = SnapshotKey(l)}
    BY <2>2, <2>3, <2>4
  <2> QED BY <2>5 DEF FairProb
<1> DEFINE fair(l, p) == [l EXCEPT !.implied = p]
<1>3. DevigLines(L) = {fair(l, FairProb(l, L)) : l \in L}
  BY DEF DevigLines
<1>4. \A q \in Q : Quoted(q) = {fair(l, FairProb(l, RawQuote(q))) : l \in RawQuote(q)}
  BY DEF Quoted, DevigLines
<1> DEFINE One(q) == {fair(l, FairProb(l, L)) : l \in RawQuote(q)}
<1>5. \A q \in Q : Quoted(q) = One(q)
  <2> HIDE DEF fair, Q, L
  <2> QED BY <1>2, <1>4
<1>6. DevigLines(L) = UNION {One(q) : q \in Q}
  <2> DEFINE new(l) == fair(l, FairProb(l, L))
  <2>1. DevigLines(L) = {new(l) : l \in L} /\ \A q : One(q) = {new(l) : l \in RawQuote(q)}
    BY <1>3
  <2> HIDE DEF new, One, Q, L
  <2>2. \A x : x \in DevigLines(L) <=> \E q \in Q : x \in One(q)
    BY <1>1, <2>1
  <2> QED BY <2>2
<1> HIDE DEF One
<1> QED BY <1>5, <1>6

\* Where the sum of a snapshot comes from.  Of the present version of a quote,
\* cache and store have nothing but the lines it is devigged to.
OfQuote ==
    \A l \in cache \union StoredLines :
        /\ Known(l)
        /\ l.at = feed[QuoteOf(l)].at => l \in Quoted(QuoteOf(l))

StoreById == \A i \in DOMAIN store : Id(store[i]) = i

\* The cache has each quote in one version, and that one whole.
Cached(l) == {m \in cache : QuoteOf(m) = QuoteOf(l)}
CacheWhole == \A l \in cache : SumsToOne(Cached(l)) /\ \A m \in Cached(l) : m.at = l.at

\* The store is not ahead of the cache, and has no lines of its version that the
\* cache has not.
StoreBehind ==
    \A l \in cache, m \in StoredLines : QuoteOf(m) = QuoteOf(l) =>
        m.at <= l.at /\ (m.at = l.at => m \in cache)

SnapshotsSum ==
    \A l \in StoredLines : Newest(l) =>
        SumsToOne({m \in StoredLines : m.event = l.event /\ m.book = l.book /\ m.at = l.at})

SnapInv == OfQuote /\ StoreById /\ CacheWhole /\ StoreBehind /\ SnapshotsSum

\* A quote that stays as it is is devigged to the same lines.
LEMMA QuotedSame ==
    ASSUME NEW q, feed'[q] = feed[q] PROVE Quoted(q)' = Quoted(q)
<1>1. \A s : Line(q, s)' = Line(q, s)
  BY DEF Line
<1>2. RawQuote(q)' = RawQuote(q)
  BY <1>1 DEF RawQuote
<1> QED BY <1>2 DEF Quoted

\* A changed quote is of a version that nobody has seen.
LEMMA FeedSnapshots == ASSUME FeedInv, SnapInv, FeedChange PROVE SnapInv'
<1>1. UNCHANGED <<cache, store>>
  BY DEF FeedChange
<1>2. PICK q \in Game \X Book :
        /\ \A p \in (Game \X Book) \ {q} : feed'[p] = feed[p]
        /\ feed'[q].at = feed[q].at + 1 /\ feed[q].at \in Nat
  <2> PICK q \in Game \X Book, S \in SUBSET Side : \E prices \in [S -> Price] :
          feed' = [feed EXCEPT ![q] = [at |-> @.at + 1, prices |-> prices]]
    BY DEF FeedChange
  <2> PICK prices \in [S -> Price] :
          feed' = [feed EXCEPT ![q] = [at |-> @.at + 1, prices |-> prices]]
    OBVIOUS
  <2> DEFINE All == UNION {[T -> Price] : T \in SUBSET Side}
             D == Game \X Book
             new == [at |-> feed[q].at + 1, prices |-> prices]
  <2>1. feed \in [D -> [at : Nat, prices : All]]
    BY DEF FeedInv, FeedOK
  <2>2. feed' = [feed EXCEPT ![q] = new] /\ new.at = feed[q].at + 1 /\ q \in D
    OBVIOUS
  <2> HIDE DEF All, D, new
  <2>3. /\ \A p \in D \ {q} : feed'[p] = feed[p]
        /\ feed'[q].at = feed[q].at + 1 /\ feed[q].at \in Nat
    BY <2>1, <2>2
  <2> QED BY <2>3 DEF D
<1>3. OfQuote'
  <2> SUFFICES ASSUME NEW l \in cache \union StoredLines
               PROVE  /\ Known(l)'
                      /\ (l.at = feed[QuoteOf(l)].at => l \in Quoted(QuoteOf(l)))'
    BY <1>1 DEF OfQuote, StoredLines
  <2>1. Known(l) /\ QuoteOf(l) \in Game \X Book
    BY DEF SnapInv, OfQuote, Known, QuoteOf
  <2>2. CASE QuoteOf(l) = q
    <3>1. l.at \in Nat /\ l.at <= feed[q].at
      BY <2>1, <2>2 DEF Known, QuoteOf
    <3> QED BY <1>2, <2>1, <2>2, <3>1 DEF Known, QuoteOf
  <2>3. CASE QuoteOf(l) # q
    <3>1. feed'[QuoteOf(l)] = feed[QuoteOf(l)]
      BY <1>2, <2>1, <2>3
    <3>2. Quoted(QuoteOf(l))' = Quoted(QuoteOf(l))
      BY <3>1, QuotedSame
    <3> QED BY <2>1, <3>1, <3>2 DEF SnapInv, OfQuote, Known, QuoteOf
  <2> QED BY <2>2, <2>3
<1> QED BY <1>1, <1>3 DEF SnapInv, StoreById, CacheWhole, Cached, StoreBehind,
           SnapshotsSum, StoredLines, Newest

\* A refresh gets the present version of every quote of the sport.
LEMMA RefreshSnapshots == ASSUME FeedInv, SnapInv, Refresh PROVE SnapInv'
<1> DEFINE Q == {q \in Game \X Book : SportOf[q[1]] = Head(sportsTodo)}
<1>1. UNCHANGED <<feed, store>> /\ cache' = DevigLines(RawLines(Head(sportsTodo)))
  BY DEF Refresh, feedVars
<1>2. cache' = UNION {Quoted(q) : q \in Q}
  BY <1>1, DevigByQuote DEF FeedInv
<1>3. \A q \in Q : /\ \A l \in Quoted(q) : QuoteOf(l) = q /\ l.at = feed[q].at
                   /\ Quoted(q) # {} => SumsToOne(Quoted(q))
                   /\ q \in Game \X Book /\ feed[q].at \in Nat
  BY QuotedFacts DEF FeedInv, FeedOK
<1>4. \A q : Quoted(q)' = Quoted(q)
  BY <1>1, QuotedSame
<1> HIDE DEF Q
<1>5. \A l \in cache' : /\ QuoteOf(l) \in Q /\ l \in Quoted(QuoteOf(l))
                        /\ l.at = feed[QuoteOf(l)].at
                        /\ Quoted(QuoteOf(l)) \subseteq cache'
  BY <1>2, <1>3
<1>6. \A l \in StoredLines' : l \in StoredLines
  BY <1>1 DEF StoredLines
<1>7. OfQuote'
  <2>1. \A l \in cache' : Known(l)'
    <3> SUFFICES ASSUME NEW l \in cache' PROVE Known(l)'
      OBVIOUS
    <3>1. <<l.event, l.book>> \in Game \X Book /\ l.at = feed[<<l.event, l.book>>].at /\ l.at \in Nat
      BY <1>3, <1>5 DEF QuoteOf
    <3> QED BY <1>1, <3>1 DEF Known
  <2>2. \A l \in StoredLines :
          Known(l) /\ (l.at = feed[QuoteOf(l)].at => l \in Quoted(QuoteOf(l)))
    BY DEF SnapInv, OfQuote
  <2>3. \A l : Known(l)' <=> Known(l)
    BY <1>1 DEF Known
  <2> SUFFICES ASSUME NEW l \in cache' \union StoredLines'
               PROVE  /\ Known(l)'
                      /\ (l.at = feed[QuoteOf(l)].at => l \in Quoted(QuoteOf(l)))'
    BY DEF OfQuote
  <2>4. QuoteOf(l)' = QuoteOf(l)
    BY DEF QuoteOf
  <2>5. CASE l \in cache'
    BY <1>1, <1>4, <1>5, <2>1, <2>4, <2>5
  <2>6. CASE l \in StoredLines'
    BY <1>1, <1>4, <1>6, <2>2, <2>3, <2>4, <2>6
  <2> QED BY <2>5, <2>6
<1>8. CacheWhole'
  <2> SUFFICES ASSUME NEW l \in cache'
               PROVE  SumsToOne(Cached(l)') /\ \A m \in Cached(l)' : m.at = l.at
    BY DEF CacheWhole
  <2>1. Cached(l)' = Quoted(QuoteOf(l))
    BY <1>3, <1>5 DEF Cached
  <2> QED BY <1>3, <1>5, <2>1
<1>9. StoreBehind'
  <2> SUFFICES ASSUME NEW l \in cache', NEW m \in StoredLines, QuoteOf(m) = QuoteOf(l)
               PROVE  m.at <= l.at /\ (m.at = l.at => m \in cache')
    BY <1>6 DEF StoreBehind, QuoteOf
  <2>1. m.at <= feed[QuoteOf(l)].at /\ (m.at = feed[QuoteOf(l)].at => m \in Quoted(QuoteOf(l)))
    BY DEF SnapInv, OfQuote, Known, QuoteOf
  <2> QED BY <1>5, <2>1
<1> QED BY <1>1, <1>7, <1>8, <1>9 DEF SnapInv, StoreById, SnapshotsSum, StoredLines, Newest

\* The lines of an event are stored together, quote by quote.
LEMMA SaveSnapshots == ASSUME FeedInv, SnapInv, SaveEvent PROVE SnapInv'
<1> PICK e \in eventsTodo : store' = Upsert({l \in cache : l.event = e})
  BY DEF SaveEvent
<1> DEFINE lines == {l \in cache : l.event = e}
           same(l) == {m \in StoredLines : m.event = l.event /\ m.book = l.book /\ m.at = l.at}
<1>1. UNCHANGED <<feed, cache>>
  BY DEF SaveEvent, feedVars
<1>2. DOMAIN store' = DOMAIN store \union {Id(l) : l \in lines}
  BY DEF Upsert
<1>3. ASSUME NEW m \in lines PROVE Id(m) \in DOMAIN store' /\ store'[Id(m)] = m
  <2>1. \A l \in lines : Id(l) = Id(m) => l = m
    BY DEF CacheOnce, FeedInv
  <2>2. (CHOOSE l \in lines : Id(l) = Id(m)) = m
    BY <2>1
  <2>3. Id(m) \in DOMAIN store'
    BY <1>2
  <2> QED BY <2>2, <2>3 DEF Upsert
<1>4. ASSUME NEW i \in DOMAIN store, \A m \in lines : Id(m) # i
      PROVE  i \in DOMAIN store' /\ store'[i] = store[i]
  BY <1>2, <1>4 DEF Upsert
<1>5. lines \subseteq cache /\ \A l \in cache : l \in lines <=> l.event = e
  OBVIOUS
<1> HIDE DEF lines
<1>6. \A i \in DOMAIN store' : store'[i] \in lines \/ (i \in DOMAIN store /\ store'[i] = store[i])
  BY <1>2, <1>3, <1>4
<1>7. lines \subseteq StoredLines' /\ StoredLines' \subseteq lines \union StoredLines
  BY <1>3, <1>6 DEF StoredLines
<1>8. StoreById'
  <2> SUFFICES ASSUME NEW i \in DOMAIN store' PROVE Id(store'[i]) = i
    BY DEF StoreById, Id
  <2>1. CASE \E m \in lines : Id(m) = i
    BY <1>3, <2>1
  <2>2. CASE \A m \in lines : Id(m) # i
    BY <1>2, <1>4, <2>2 DEF SnapInv, StoreById
  <2> QED BY <2>1, <2>2
<1>9. \A m \in StoredLines : (\A l \in lines : QuoteOf(l) # QuoteOf(m)) => m \in StoredLines'
  <2> SUFFICES ASSUME NEW i \in DOMAIN store, \A l \in lines : QuoteOf(l) # QuoteOf(store[i])
               PROVE  store[i] \in StoredLines'
    BY DEF StoredLines
  <2>1. \A l \in lines : Id(l) # Id(store[i])
    BY DEF Id, QuoteOf
  <2> QED BY <1>4, <2>1 DEF SnapInv, StoreById, StoredLines
<1>10. OfQuote'
  <2> SUFFICES ASSUME NEW l \in cache \union StoredLines'
               PROVE  (/\ Known(l)
                       /\ l.at = feed[QuoteOf(l)].at => l \in Quoted(QuoteOf(l)))'
    BY <1>1 DEF OfQuote
  <2>1. /\ Known(l)
        /\ l.at = feed[QuoteOf(l)].at => l \in Quoted(QuoteOf(l))
    BY <1>5, <1>7 DEF SnapInv, OfQuote
  <2>2. Quoted(QuoteOf(l))' = Quoted(QuoteOf(l))
    BY <1>1, QuotedSame DEF QuoteOf
  <2> QED BY <1>1, <2>1, <2>2 DEF Known, QuoteOf
<1>11. CacheWhole'
  BY <1>1 DEF SnapInv, CacheWhole, Cached
<1>12. \A l \in cache, m \in StoredLines' : QuoteOf(m) = QuoteOf(l) =>
          m.at <= l.at /\ (m.at = l.at => m \in cache)
  <2> SUFFICES ASSUME NEW l \in cache, NEW m \in StoredLines', QuoteOf(m) = QuoteOf(l)
               PROVE  m.at <= l.at /\ (m.at = l.at => m \in cache)
    OBVIOUS
  <2>1. CASE m \in lines
    <3>1. m \in Cached(l)
      BY <1>5, <2>1 DEF Cached
    <3>2. l.at \in Nat /\ m.at = l.at
      BY <3>1 DEF SnapInv, CacheWhole, OfQuote, Known
    <3> QED BY <1>5, <2>1, <3>2
  <2>2. CASE m \in StoredLines
    BY <2>2 DEF SnapInv, StoreBehind
  <2> QED BY <1>7, <2>1, <2>2
<1>13. ASSUME NEW l \in StoredLines', Newest(l)' PROVE SumsToOne(same(l)')
  <2>0. \A m \in StoredLines' : QuoteOf(m) = QuoteOf(l) => m.at <= l.at
    BY <1>13 DEF Newest, QuoteOf
  <2>1. CASE \E c \in lines : QuoteOf(c) = QuoteOf(l)
    <3> PICK c \in lines : QuoteOf(c) = QuoteOf(l)
      BY <2>1
    <3>1. c \in cache /\ c.event = e /\ c \in StoredLines'
      BY <1>5, <1>7
    <3>2. c.at \in Nat /\ l.at \in Nat
      BY <1>10, <3>1 DEF OfQuote, Known
    <3>3. l.at = c.at
      BY <1>12, <2>0, <3>1, <3>2
    <3>4. \A m \in Cached(c) : m.at = c.at
      BY <3>1 DEF SnapInv, CacheWhole
    <3>5. ASSUME NEW m \in same(l)' PROVE m \in Cached(c)
      <4>1. m \in StoredLines' /\ QuoteOf(m) = QuoteOf(c) /\ m.at = c.at
        BY <3>3, <3>5 DEF QuoteOf
      <4> QED BY <1>12, <3>1, <4>1 DEF Cached
    <3>6. ASSUME NEW m \in Cached(c) PROVE m \in same(l)'
      <4>1. m \in cache /\ QuoteOf(m) = QuoteOf(l) /\ m.event = e
        BY <3>1, <3>6 DEF Cached, QuoteOf
      <4> QED BY <1>5, <1>7, <3>3, <3>4, <3>6, <4>1 DEF QuoteOf
    <3>7. same(l)' = Cached(c)
      <4> HIDE DEF same
      <4> QED BY <3>5, <3>6
    <3> QED BY <3>1, <3>7 DEF SnapInv, CacheWhole
  <2>2. CASE \A c \in lines : QuoteOf(c) # QuoteOf(l)
    <3>1. \A m : QuoteOf(m) = QuoteOf(l) => (m \in StoredLines' <=> m \in StoredLines)
      BY <1>7, <1>9, <2>2
    <3>2. l \in StoredLines /\ Newest(l)
      BY <1>13, <3>1 DEF Newest, QuoteOf
    <3>3. same(l)' = same(l)
      BY <3>1 DEF QuoteOf
    <3>4. SumsToOne(same(l))
      BY <3>2 DEF SnapInv, SnapshotsSum
    <3> HIDE DEF same
    <3> QED BY <3>3, <3>4
  <2> QED BY <2>1, <2>2
<1>14. StoreBehind'
  BY <1>1, <1>12 DEF StoreBehind, QuoteOf
<1>15. SnapshotsSum'
  BY <1>13 DEF SnapshotsSum
<1> QED BY <1>8, <1>10, <1>11, <1>14, <1>15 DEF SnapInv

LEMMA SnapshotInvariant == FeedSpec => [](FeedInv /\ SnapInv)
<1>1. FeedInit => SnapInv
  BY DEF FeedInit, SnapInv, OfQuote, StoreById, CacheWhole, StoreBehind, SnapshotsSum,
     StoredLines
<1>2. FeedInv /\ SnapInv /\ [FeedNext]_oddsVars => SnapInv'
  <2> SUFFICES ASSUME FeedInv, SnapInv, [FeedNext]_oddsVars PROVE SnapInv'
    OBVIOUS
  <2>1. ASSUME UNCHANGED <<feed, cache, store>> PROVE SnapInv'
    <3>1. \A q : Quoted(q)' = Quoted(q)
      BY <2>1, QuotedSame
    <3>2. OfQuote'
      BY <2>1, <3>1 DEF SnapInv, OfQuote, StoredLines, Known, QuoteOf
    <3>3. CacheWhole' /\ StoreById' /\ StoreBehind' /\ SnapshotsSum'
      BY <2>1 DEF SnapInv, CacheWhole, Cached, StoreById, StoreBehind, SnapshotsSum,
         StoredLines, Newest
    <3> QED BY <3>2, <3>3 DEF SnapInv
  <2>2. CASE BeginPoll \/ RefreshFails \/ SaveFails \/ NextSport \/ UNCHANGED oddsVars
    BY <2>1, <2>2 DEF BeginPoll, RefreshFails, SaveFails, NextSport, oddsVars, feedVars
  <2> QED BY <2>2, FeedSnapshots, RefreshSnapshots, SaveSnapshots DEF FeedNext
<1> QED BY <1>1, <1>2, FeedInvariant, PTL DEF FeedSpec

-----------------------------------------------------------------------------
(* OddsFeed: theorems *)

\* After a poll in which no call failed every line it fetched is in the store, as
\* this poll fetched it last, though the feed changes while the poll goes on and
\* each refresh discards the cached lines of the sport before (main.go:224-226).
THEOREM PollCorrect == FeedSpec => []PollComplete
<1>1. FeedInv => PollComplete
  <2> SUFFICES ASSUME FeedInv, sportsTodo = <<>>, ~failed, NEW l \in fetched PROVE Saved(l)
    BY DEF PollComplete
  <2>1. ToSave = {}
    BY DEF FeedInv, LoopOK, ToSave
  <2> QED BY <2>1 DEF FeedInv, NothingLost, Pending
<1> QED BY <1>1, FeedInvariant, PTL

\* The newest lines of a book on a market are one whole snapshot that adds up to
\* one, less what rounding takes: for any number of sides, books and changes of
\* the quotes, and whichever refresh or save fails (devig.go:32-41).
THEOREM SnapshotCorrect == FeedSpec => []SnapshotSumsToOne
<1>1. SnapInv => SnapshotSumsToOne
  BY DEF SnapInv, SnapshotsSum, SnapshotSumsToOne, StoredWith
<1> QED BY <1>1, SnapshotInvariant, PTL
=============================================================================
