------------------------ MODULE SafeBookmakerProofs ------------------------
(***************************************************************************)
(* TLAPS proofs about SafeBookmaker, for every number of callers, keys and *)
(* instants.  The inductive invariant says who a reservation belongs to.   *)
(***************************************************************************)
EXTENDS SafeBookmaker, FiniteSetTheorems, TLAPS

\* Every call ends before the reservation that covers it can be taken over.
CallsEndInTime == MaxCall < TTL

-----------------------------------------------------------------------------
(* The inductive invariant *)

\* A caller between Reserve and its return owns the reservation of its key,
\* and has owned it for at most MaxCall.
HolderOwns ==
    \A c \in Caller : Holding(c) =>
        /\ reservedAt[c] <= now
        /\ now - reservedAt[c] <= MaxCall
        /\ recentBets[key[c]] = reservedAt[c]

\* No two callers hold the same key.
HoldersApart ==
    \A c, d \in Caller :
        Holding(c) /\ Holding(d) /\ key[c] = key[d] => c = d

\* A known bet is covered by the reservation of its key, or is TTL old.
BetCovered ==
    \A b \in Known :
        \/ recentBets[b.key] = b.reservedAt
        \/ now - b.reservedAt >= TTL

\* A holder without a known bet of its own was let in TTL after any known bet.
HolderFresh ==
    \A c \in Caller : pc[c] \in {"call", "retract"} =>
        \A b \in Known : b.key = key[c] => reservedAt[c] - b.reservedAt >= TTL

\* Bets are numbered in order, once each, and accepted within MaxCall.
BetsNumbered ==
    /\ \A b \in bets : /\ b.id < betCount
                       /\ b.reservedAt <= b.at
                       /\ b.at <= b.reservedAt + MaxCall
                       /\ b.at <= now
    /\ \A a, b \in bets : a.id = b.id => a = b
    /\ \A i \in lost : i < betCount

\* A caller whose answer is under way knows its bet, which no other has.
AcceptedKnown ==
    \A c \in Caller : pc[c] = "accepted" =>
        \E b \in Known : /\ b.id = betID[c]
                         /\ b.key = key[c]
                         /\ b.reservedAt = reservedAt[c]

\* Beside the bet of a caller under way, known bets of its key are TTL older.
AcceptedFresh ==
    \A c \in Caller : pc[c] = "accepted" =>
        \A b \in Known : b.key = key[c] =>
            b.id = betID[c] \/ reservedAt[c] - b.reservedAt >= TTL

IInv ==
    /\ TypeOK
    /\ HolderOwns
    /\ HoldersApart
    /\ BetCovered
    /\ HolderFresh
    /\ BetsNumbered
    /\ AcceptedKnown
    /\ AcceptedFresh
    /\ NoDoubleBet

-----------------------------------------------------------------------------
(* Type correctness *)

\* Every step keeps the types of safe.go:56-57 and of the callers.
LEMMA TypeStep == ASSUME TypeOK, [Next]_vars PROVE TypeOK'
<1> USE ConstantsOK
<1>1. CASE Tick
  BY <1>1 DEF TypeOK, Tick, local, account
<1>2. CASE Credit
  BY <1>2 DEF TypeOK, Credit, local
<1>3. ASSUME NEW c \in Caller, Invoke(c) PROVE TypeOK'
  BY <1>3 DEF TypeOK, Invoke, account
<1>4. ASSUME NEW c \in Caller, RejectDuplicate(c) PROVE TypeOK'
  BY <1>4 DEF TypeOK, RejectDuplicate, Leave, account
<1>5. ASSUME NEW c \in Caller, Reserve(c) PROVE TypeOK'
  BY <1>5 DEF TypeOK, Reserve, account
<1>6. ASSUME NEW c \in Caller, BookAccepts(c) PROVE TypeOK'
  <2>1. Clamped(c) \in Nat
    BY DEF TypeOK, Clamped
  <2>2. balance' \in Nat
    BY <1>6, <2>1 DEF TypeOK, BookAccepts
  <2> QED BY <1>6, <2>2 DEF TypeOK, BookAccepts
<1>7. ASSUME NEW c \in Caller, InnerFails(c) PROVE TypeOK'
  BY <1>7 DEF TypeOK, InnerFails, local, account
<1>8. ASSUME NEW c \in Caller, AnswerLost(c) PROVE TypeOK'
  BY <1>8 DEF TypeOK, AnswerLost, local
<1>9. ASSUME NEW c \in Caller, ReturnFilled(c) PROVE TypeOK'
  BY <1>9 DEF TypeOK, ReturnFilled, Leave, account
<1>10. ASSUME NEW c \in Caller, Retract(c) PROVE TypeOK'
  BY <1>10 DEF TypeOK, Retract, Leave, Never, account
<1>11. CASE UNCHANGED vars
  BY <1>11 DEF TypeOK, vars
<1> QED
  BY <1>1, <1>2, <1>3, <1>4, <1>5, <1>6, <1>7, <1>8, <1>9, <1>10, <1>11
  DEF Next, Step

\* Every reachable state has the types of safe.go:56-57 and of the callers.
THEOREM TypeCorrect == Spec => []TypeOK
<1>1. Init => TypeOK
  BY ConstantsOK DEF Init, TypeOK, Never
<1> QED BY <1>1, TypeStep, PTL DEF Spec

-----------------------------------------------------------------------------
(* The double-betting guard *)

\* Every step keeps the inductive invariant.
LEMMA GuardStep ==
    ASSUME CallsEndInTime, IInv, TypeOK', [Next]_vars
    PROVE IInv'
<1> USE ConstantsOK
<1>1. CASE Tick
  <2>1. HolderOwns'
    BY <1>1 DEF IInv, TypeOK, HolderOwns, Tick, Holding, Holders, local
  <2>2. BetCovered'
    BY <1>1 DEF IInv, TypeOK, BetCovered, Tick, account, Known
  <2>3. BetsNumbered'
    BY <1>1 DEF IInv, TypeOK, BetsNumbered, Tick, account
  <2>4. HoldersApart' /\ HolderFresh' /\ AcceptedKnown' /\ AcceptedFresh' /\
    NoDoubleBet'
    BY <1>1 DEF IInv, HoldersApart, HolderFresh, AcceptedKnown, AcceptedFresh,
      NoDoubleBet, Tick, Holding, local, account, Known
  <2> QED BY <2>1, <2>2, <2>3, <2>4 DEF IInv
<1>2. CASE Credit
  <2>1. HolderOwns' /\ HoldersApart' /\ BetCovered' /\ HolderFresh' /\
    BetsNumbered' /\ AcceptedKnown' /\ AcceptedFresh' /\ NoDoubleBet'
    BY <1>2 DEF IInv, HolderOwns, HoldersApart, BetCovered, HolderFresh,
      BetsNumbered, AcceptedKnown, AcceptedFresh, NoDoubleBet, Credit, Holding,
      local, Known
  <2> QED BY <2>1 DEF IInv
<1>3. ASSUME NEW c \in Caller, Invoke(c) PROVE IInv'
  <2>1. HolderOwns' /\ HoldersApart'
    BY <1>3 DEF IInv, HolderOwns, HoldersApart, Invoke, Holding
  <2>2. HolderFresh'
    BY <1>3 DEF IInv, HolderFresh, Invoke, account, Known
  <2>3. AcceptedKnown' /\ AcceptedFresh'
    BY <1>3 DEF IInv, AcceptedKnown, AcceptedFresh, Invoke, account, Known
  <2>4. BetCovered' /\ BetsNumbered' /\ NoDoubleBet'
    BY <1>3 DEF IInv, BetCovered, BetsNumbered, NoDoubleBet, Invoke, account,
      Known
  <2> QED BY <2>1, <2>2, <2>3, <2>4 DEF IInv
<1>4. ASSUME NEW c \in Caller, RejectDuplicate(c) PROVE IInv'
  <2>1. HolderOwns' /\ HoldersApart'
    BY <1>4 DEF IInv, HolderOwns, HoldersApart, RejectDuplicate, Leave, Holding
  <2>2. HolderFresh'
    BY <1>4 DEF IInv, HolderFresh, RejectDuplicate, Leave, account, Known
  <2>3. AcceptedKnown' /\ AcceptedFresh'
    BY <1>4 DEF IInv, AcceptedKnown, AcceptedFresh, RejectDuplicate, Leave,
      account, Known
  <2>4. BetCovered' /\ BetsNumbered' /\ NoDoubleBet'
    BY <1>4 DEF IInv, BetCovered, BetsNumbered, NoDoubleBet, RejectDuplicate,
      account, Known
  <2> QED BY <2>1, <2>2, <2>3, <2>4 DEF IInv
<1>5. ASSUME NEW c \in Caller, Reserve(c) PROVE IInv'
  <2>1. \A d \in Caller : Holding(d) => key[d] # key[c]
    BY <1>5 DEF IInv, TypeOK, HolderOwns, Reserve, Duplicate, CallsEndInTime,
      Never
  <2>2. HolderOwns'
    BY <1>5, <2>1 DEF IInv, TypeOK, HolderOwns, Reserve, Holding
  <2>3. HoldersApart'
    BY <1>5, <2>1 DEF IInv, HoldersApart, Reserve, Holding
  <2>4. BetCovered'
    BY <1>5, <2>1 DEF IInv, TypeOK, BetCovered, Reserve, Duplicate, account,
      Known, Never
  <2>5. HolderFresh'
    BY <1>5, <2>1 DEF IInv, TypeOK, BetCovered, HolderFresh, Reserve,
      Duplicate, account, Known, Never
  <2>6. AcceptedKnown' /\ AcceptedFresh'
    BY <1>5, <2>1 DEF IInv, AcceptedKnown, AcceptedFresh, Reserve, account,
      Known
  <2>7. BetsNumbered' /\ NoDoubleBet'
    BY <1>5, <2>1 DEF IInv, BetsNumbered, NoDoubleBet, Reserve, account
  <2> QED BY <2>1, <2>2, <2>3, <2>4, <2>5, <2>6, <2>7 DEF IInv
<1>6. ASSUME NEW c \in Caller, BookAccepts(c) PROVE IInv'
  <2>1. HolderOwns' /\ HoldersApart'
    BY <1>6 DEF IInv, HolderOwns, HoldersApart, BookAccepts, Holding
  <2>2. BetCovered'
    BY <1>6 DEF IInv, HolderOwns, BetCovered, BookAccepts, Holding, Known
  <2>3. HolderFresh'
    BY <1>6 DEF IInv, TypeOK, HoldersApart, HolderFresh, BookAccepts, Holding,
      Known
  <2>4. BetsNumbered'
    BY <1>6 DEF IInv, TypeOK, HolderOwns, BetsNumbered, BookAccepts, Holding
  <2>5. AcceptedKnown'
    <3>1. betCount \notin lost
      BY DEF IInv, TypeOK, BetsNumbered
    <3>2. ASSUME NEW d \in Caller, pc'[d] = "accepted"
          PROVE  \E b \in Known' : /\ b.id = betID'[d]
                                    /\ b.key = key'[d]
                                    /\ b.reservedAt = reservedAt'[d]
      <4>1. CASE d = c
        <5> DEFINE b == [id |-> betCount, key |-> key[c],
                         reservedAt |-> reservedAt[c], at |-> now]
        <5>1. b \in Known'
          BY <1>6, <3>1 DEF BookAccepts, Known
        <5>2. /\ b.id = betID'[d]
              /\ b.key = key'[d]
              /\ b.reservedAt = reservedAt'[d]
          BY <1>6, <4>1 DEF IInv, TypeOK, BookAccepts
        <5> QED BY <5>1, <5>2
      <4>2. CASE d # c
        <5>1. pc[d] = "accepted"
          BY <1>6, <3>2, <4>2 DEF IInv, TypeOK, BookAccepts
        <5>2. PICK b \in Known : /\ b.id = betID[d]
                                 /\ b.key = key[d]
                                 /\ b.reservedAt = reservedAt[d]
          BY <5>1 DEF IInv, AcceptedKnown
        <5>3. b \in Known'
          BY <1>6 DEF BookAccepts, Known
        <5>4. /\ betID'[d] = betID[d]
              /\ key'[d] = key[d]
              /\ reservedAt'[d] = reservedAt[d]
          BY <1>6, <4>2 DEF IInv, TypeOK, BookAccepts
        <5> QED BY <5>2, <5>3, <5>4
      <4> QED BY <4>1, <4>2
    <3> QED BY <3>2 DEF AcceptedKnown
  <2>6. AcceptedFresh'
    BY <1>6 DEF IInv, TypeOK, HoldersApart, HolderFresh, AcceptedFresh,
      BookAccepts, Holding, Known
  <2>7. NoDoubleBet'
    BY <1>6 DEF IInv, TypeOK, HolderFresh, BetsNumbered, NoDoubleBet,
      BookAccepts, Known
  <2> QED BY <2>1, <2>2, <2>3, <2>4, <2>5, <2>6, <2>7 DEF IInv
<1>7. ASSUME NEW c \in Caller, InnerFails(c) PROVE IInv'
  <2>1. HolderOwns' /\ HoldersApart'
    BY <1>7 DEF IInv, HolderOwns, HoldersApart, InnerFails, Holding, local
  <2>2. HolderFresh'
    BY <1>7 DEF IInv, HolderFresh, InnerFails, local, account, Known
  <2>3. AcceptedKnown' /\ AcceptedFresh'
    BY <1>7 DEF IInv, AcceptedKnown, AcceptedFresh, InnerFails, local, account,
      Known
  <2>4. BetCovered' /\ BetsNumbered' /\ NoDoubleBet'
    BY <1>7 DEF IInv, BetCovered, BetsNumbered, NoDoubleBet, InnerFails,
      account, Known
  <2> QED BY <2>1, <2>2, <2>3, <2>4 DEF IInv
<1>8. ASSUME NEW c \in Caller, AnswerLost(c) PROVE IInv'
  <2>1. HolderOwns' /\ HoldersApart'
    BY <1>8 DEF IInv, HolderOwns, HoldersApart, AnswerLost, Holding, local
  <2>2. BetCovered'
    BY <1>8 DEF IInv, BetCovered, AnswerLost, Known
  <2>3. HolderFresh'
    BY <1>8 DEF IInv, HolderFresh, AcceptedFresh, AnswerLost, local, Known
  <2>4. BetsNumbered'
    BY <1>8 DEF IInv, BetsNumbered, AcceptedKnown, AnswerLost, Known
  <2>5. AcceptedKnown'
    BY <1>8 DEF IInv, TypeOK, HoldersApart, BetsNumbered, AcceptedKnown,
      AnswerLost, Holding, local, Known
  <2>6. AcceptedFresh'
    BY <1>8 DEF IInv, AcceptedFresh, AnswerLost, local, Known
  <2>7. NoDoubleBet'
    BY <1>8 DEF IInv, NoDoubleBet, AnswerLost
  <2> QED BY <2>1, <2>2, <2>3, <2>4, <2>5, <2>6, <2>7 DEF IInv
<1>9. ASSUME NEW c \in Caller, ReturnFilled(c) PROVE IInv'
  <2>1. HolderOwns' /\ HoldersApart'
    BY <1>9 DEF IInv, TypeOK, HolderOwns, HoldersApart, ReturnFilled, Leave,
      Holding
  <2>2. HolderFresh'
    BY <1>9 DEF IInv, HolderFresh, ReturnFilled, Leave, account, Known
  <2>3. AcceptedKnown' /\ AcceptedFresh'
    BY <1>9 DEF IInv, TypeOK, AcceptedKnown, AcceptedFresh, ReturnFilled,
      Leave, account, Known
  <2>4. BetCovered' /\ BetsNumbered' /\ NoDoubleBet'
    BY <1>9 DEF IInv, BetCovered, BetsNumbered, NoDoubleBet, ReturnFilled,
      account, Known
  <2> QED BY <2>1, <2>2, <2>3, <2>4 DEF IInv
<1>10. ASSUME NEW c \in Caller, Retract(c) PROVE IInv'
  <2>1. HolderOwns'
    BY <1>10 DEF IInv, TypeOK, HolderOwns, HoldersApart, Retract, Leave,
      Holding
  <2>2. HoldersApart'
    BY <1>10 DEF IInv, HoldersApart, Retract, Leave, Holding
  <2>3. BetCovered'
    BY <1>10 DEF IInv, TypeOK, HolderOwns, BetCovered, HolderFresh, Retract,
      Holding, account, Known
  <2>4. HolderFresh'
    BY <1>10 DEF IInv, TypeOK, HolderFresh, Retract, Leave, account, Known
  <2>5. AcceptedKnown' /\ AcceptedFresh'
    BY <1>10 DEF IInv, AcceptedKnown, AcceptedFresh, Retract, Leave, account,
      Known
  <2>6. BetsNumbered' /\ NoDoubleBet'
    BY <1>10 DEF IInv, BetsNumbered, NoDoubleBet, Retract, account
  <2> QED BY <2>1, <2>2, <2>3, <2>4, <2>5, <2>6 DEF IInv
<1>11. CASE UNCHANGED vars
  BY <1>11 DEF vars, IInv, HolderOwns, HoldersApart, BetCovered, HolderFresh,
    BetsNumbered, AcceptedKnown, AcceptedFresh, NoDoubleBet, Holding, Known
<1> QED
  BY <1>1, <1>2, <1>3, <1>4, <1>5, <1>6, <1>7, <1>8, <1>9, <1>10, <1>11 DEF
    Next, Step

\* The inductive invariant holds in every reachable state.
LEMMA GuardInvariant == CallsEndInTime => (Spec => []IInv)
<1> SUFFICES ASSUME CallsEndInTime PROVE Spec => []IInv
  OBVIOUS
<1>1. Init => IInv
  BY ConstantsOK DEF Init, IInv, TypeOK, Never, HolderOwns, HoldersApart,
    BetCovered, HolderFresh, BetsNumbered, AcceptedKnown, AcceptedFresh,
    NoDoubleBet, Holding, Known
<1>2. IInv /\ [Next]_vars => IInv'
  BY TypeStep, GuardStep DEF IInv
<1> QED BY <1>1, <1>2, PTL DEF Spec

\* Whatever the interleaving, and however many callers and keys, no two bets
\* that the client knows of are covered by reservations less than TTL apart,
\* provided every call ends before its reservation expires.
THEOREM GuardCorrect == CallsEndInTime => (Spec => []NoDoubleBet)
<1>1. IInv => NoDoubleBet
  BY DEF IInv
<1> QED BY <1>1, GuardInvariant, PTL

-----------------------------------------------------------------------------
(* The client implements the abstract guard *)

\* Initially, no bet is known.
LEMMA GuardInit == Init => Guard!Init
BY DEF Init, Guard!Init, Known

\* Every step is one of the abstract guard's, or one it does not see.
LEMMA GuardSimulation ==
    ASSUME CallsEndInTime, IInv, [Next]_vars PROVE [Guard!Next]_(Guard!vars)
<1> DEFINE placed == {[id |-> b.id, key |-> b.key, at |-> b.at] : b \in Known}
<1> USE ConstantsOK
<1>1. CASE Tick
  <2>1. now < MaxNow /\ now' = now + 1 /\ UNCHANGED placed
    BY <1>1 DEF Tick, Known, account
  <2> QED BY <2>1 DEF Guard!Next, Guard!Tick
<1>2. ASSUME NEW c \in Caller, BookAccepts(c)
      PROVE  Guard!Place(key[c], betCount)
  <2>1. betCount \notin lost
    BY DEF IInv, TypeOK, BetsNumbered
  <2>2. Known' = Known \union {[id |-> betCount, key |-> key[c],
                               reservedAt |-> reservedAt[c], at |-> now]}
    BY <1>2, <2>1 DEF BookAccepts, Known
  <2>3. placed' =
          placed \union {[id |-> betCount, key |-> key[c], at |-> now]}
    <3>1. ASSUME NEW x
          PROVE  x \in placed' <=>
                    \/ x \in placed
                    \/ x = [id |-> betCount, key |-> key[c], at |-> now]
      <4> DEFINE new == [id |-> betCount, key |-> key[c],
                         reservedAt |-> reservedAt[c], at |-> now]
      <4>1. new.id = betCount /\ new.key = key[c] /\ new.at = now
        OBVIOUS
      <4>2. x \in placed' <=> \E b \in Known' :
                                 x = [id |-> b.id, key |-> b.key, at |-> b.at]
        OBVIOUS
      <4>3. Known' = Known \union {new}
        BY <2>2
      <4> HIDE DEF new
      <4> QED BY <4>1, <4>2, <4>3
    <3> QED BY <3>1
  <2>4. ASSUME NEW b \in Known, b.key = key[c]
        PROVE  now - b.at >= TTL - MaxCall
    <3>1. /\ b.at \in Nat /\ b.reservedAt \in Nat
          /\ b.at <= b.reservedAt + MaxCall
      BY DEF IInv, TypeOK, BetsNumbered, Known
    <3>2. reservedAt[c] \in Nat /\ reservedAt[c] <= now
      BY <1>2 DEF IInv, TypeOK, HolderOwns, Holding, BookAccepts
    <3>3. reservedAt[c] - b.reservedAt >= TTL
      BY <1>2, <2>4 DEF IInv, HolderFresh, BookAccepts
    <3> QED BY <3>1, <3>2, <3>3 DEF IInv, TypeOK
  <2>5. now' = now
    BY <1>2 DEF BookAccepts
  <2> QED BY <2>3, <2>4, <2>5 DEF Guard!Place
<1>3. ASSUME NEW c \in Caller, AnswerLost(c)
      PROVE  \E p \in placed : Guard!Forget(p)
  <2>1. PICK b \in Known : b.id = betID[c]
    BY <1>3 DEF IInv, AcceptedKnown, AnswerLost
  <2>2. Known' = Known \ {b}
    BY <1>3, <2>1 DEF IInv, BetsNumbered, AnswerLost, Known
  <2> DEFINE p == [id |-> b.id, key |-> b.key, at |-> b.at]
  <2>3. ASSUME NEW d \in Known, d # b
        PROVE  [id |-> d.id, key |-> d.key, at |-> d.at] # p
    BY <2>1, <2>3 DEF IInv, BetsNumbered, Known
  <2>4. placed' = placed \ {p}
    BY <2>2, <2>3
  <2>5. now' = now
    BY <1>3 DEF AnswerLost
  <2>6. Guard!Forget(p)
    BY <2>4, <2>5 DEF Guard!Forget
  <2> QED BY <2>1, <2>6
<1>4. ASSUME NEW c \in Caller,
             \/ Invoke(c) \/ RejectDuplicate(c) \/ Reserve(c)
             \/ InnerFails(c) \/ ReturnFilled(c) \/ Retract(c)
      PROVE  UNCHANGED <<now, placed>>
  BY <1>4 DEF Invoke, RejectDuplicate, Reserve, InnerFails, ReturnFilled,
    Retract, account, Known
<1>5. CASE Credit \/ UNCHANGED vars
  BY <1>5 DEF Credit, vars, Known, Guard!vars
<1>6. ASSUME NEW c \in Caller, BookAccepts(c) PROVE Guard!Next
  <2>1. key[c] \in Key /\ betCount \in 0 .. MaxBets - 1
    BY <1>6 DEF IInv, TypeOK, BookAccepts
  <2>2. Guard!Place(key[c], betCount)
    BY <1>2, <1>6
  <2>3. \E k \in Key, id \in 0 .. MaxBets - 1 : Guard!Place(k, id)
    BY <2>1, <2>2 DEF Guard!Place
  <2> QED BY <2>3 DEF Guard!Next
<1>7. ASSUME NEW c \in Caller, AnswerLost(c) PROVE Guard!Next
  BY <1>3, <1>7 DEF Guard!Next
<1> QED BY <1>1, <1>4, <1>5, <1>6, <1>7 DEF Next, Step, Guard!vars

\* Seen at the bookmaker, the client is the guard of BetGuard: after a bet it
\* knows of, the key is free for TTL - MaxCall, if every call ends in time.
THEOREM GuardImplemented == CallsEndInTime => (Spec => GuardSpec)
<1> SUFFICES ASSUME CallsEndInTime PROVE Spec => GuardSpec
  OBVIOUS
<1>1. IInv /\ [Next]_vars => [Guard!Next]_(Guard!vars)
  BY GuardSimulation
<1> QED
  BY <1>1, GuardInit, GuardInvariant, PTL DEF Spec, GuardSpec, Guard!Spec

-----------------------------------------------------------------------------
(* Reservations *)

\* A caller whose answer is under way has its bet at the bookmaker.
AcceptedHasBet ==
    \A c \in Caller : pc[c] = "accepted" =>
        \E b \in bets : b.key = key[c] /\ b.reservedAt = reservedAt[c]

\* Bets are never removed, so a step that leaves a caller alone keeps its bet.
LEMMA AcceptedStep ==
    ASSUME TypeOK, AcceptedHasBet, [Next]_vars PROVE AcceptedHasBet'
<1>1. ASSUME NEW c \in Caller, BookAccepts(c) PROVE AcceptedHasBet'
  <2> SUFFICES ASSUME NEW d \in Caller, pc'[d] = "accepted"
               PROVE \E b \in bets' : /\ b.key = key'[d]
                                      /\ b.reservedAt = reservedAt'[d]
    BY DEF AcceptedHasBet
  <2>1. CASE d = c
    <3> DEFINE b == [id |-> betCount, key |-> key[c],
                     reservedAt |-> reservedAt[c], at |-> now]
    <3>1. b \in bets' /\ b.key = key'[d] /\ b.reservedAt = reservedAt'[d]
      BY <1>1, <2>1 DEF BookAccepts
    <3> QED BY <3>1
  <2>2. CASE d # c
    BY <1>1, <2>2 DEF TypeOK, AcceptedHasBet, BookAccepts
  <2> QED BY <2>1, <2>2
<1>2. ASSUME NEW c \in Caller, Invoke(c) \/ Reserve(c) PROVE AcceptedHasBet'
  BY <1>2 DEF TypeOK, AcceptedHasBet, Invoke, Reserve, account
<1>3. ASSUME NEW c \in Caller,
             RejectDuplicate(c) \/ ReturnFilled(c) \/ Retract(c)
      PROVE  AcceptedHasBet'
  BY <1>3 DEF TypeOK, AcceptedHasBet, RejectDuplicate, ReturnFilled, Retract,
    Leave, account
<1>4. ASSUME NEW c \in Caller, InnerFails(c) \/ AnswerLost(c)
      PROVE  AcceptedHasBet'
  BY <1>4 DEF TypeOK, AcceptedHasBet, InnerFails, AnswerLost, local, account
<1>5. CASE Tick \/ Credit \/ UNCHANGED vars
  BY <1>5 DEF AcceptedHasBet, Tick, Credit, vars, local, account
<1> QED BY <1>1, <1>2, <1>3, <1>4, <1>5 DEF Next, Step

\* Every step keeps a call or a bet behind each reservation.
LEMMA OrphanStep ==
    ASSUME TypeOK, AcceptedHasBet, NoOrphanReservation, [Next]_vars
    PROVE  NoOrphanReservation'
<1>1. ASSUME NEW c \in Caller, Reserve(c) PROVE NoOrphanReservation'
  BY <1>1 DEF TypeOK, NoOrphanReservation, Reserve, Holders, Holding, account
<1>2. ASSUME NEW c \in Caller, Invoke(c) \/ RejectDuplicate(c)
      PROVE  NoOrphanReservation'
  BY <1>2 DEF TypeOK, NoOrphanReservation, Invoke, RejectDuplicate, Leave,
    Holders, Holding, account
<1>3. ASSUME NEW c \in Caller, BookAccepts(c) PROVE NoOrphanReservation'
  BY <1>3 DEF TypeOK, NoOrphanReservation, BookAccepts, Holders, Holding
<1>4. ASSUME NEW c \in Caller, InnerFails(c) \/ AnswerLost(c)
      PROVE  NoOrphanReservation'
  BY <1>4 DEF TypeOK, NoOrphanReservation, InnerFails, AnswerLost, Holders,
    Holding, local, account
\* The reservation the caller leaves behind is backed by its bet.
<1>5. ASSUME NEW c \in Caller, ReturnFilled(c) PROVE NoOrphanReservation'
  BY <1>5 DEF TypeOK, AcceptedHasBet, NoOrphanReservation, ReturnFilled,
    Leave, Holders, Holding, account
<1>6. ASSUME NEW c \in Caller, Retract(c) PROVE NoOrphanReservation'
  BY <1>6 DEF TypeOK, NoOrphanReservation, Retract, Leave, Holders, Holding,
    account
<1>7. CASE Tick \/ Credit \/ UNCHANGED vars
  BY <1>7 DEF NoOrphanReservation, Tick, Credit, Holders, Holding, vars,
    local, account
<1> QED BY <1>1, <1>2, <1>3, <1>4, <1>5, <1>6, <1>7 DEF Next, Step

\* Every reservation has a call under way or a bet behind it, however many
\* callers share the map and however long their calls take (safe.go:127).
THEOREM NoOrphanCorrect == Spec => []NoOrphanReservation
<1> DEFINE OInv == TypeOK /\ AcceptedHasBet /\ NoOrphanReservation
<1>1. Init => OInv
  BY ConstantsOK DEF Init, TypeOK, AcceptedHasBet, NoOrphanReservation, Never
<1>2. OInv /\ [Next]_vars => OInv'
  BY TypeStep, AcceptedStep, OrphanStep
<1>3. OInv => NoOrphanReservation
  OBVIOUS
<1> HIDE DEF OInv
<1> QED BY <1>1, <1>2, <1>3, PTL DEF Spec

-----------------------------------------------------------------------------
(* The balance floor *)

\* The number of callers that are not in S.
Others(S) == Cardinality(Caller) - Cardinality(S)

\* A set of callers has its complement's size, one more without one of them.
LEMMA OthersCount ==
    ASSUME NEW S \in SUBSET Caller
    PROVE  /\ Others(S) \in Nat
           /\ \A c \in S : Others(S \ {c}) = Others(S) + 1
<1>1. IsFiniteSet(Caller)
  BY ConstantsOK
<1>2. /\ IsFiniteSet(S)
      /\ Cardinality(S) \in Nat /\ Cardinality(Caller) \in Nat
      /\ Cardinality(S) <= Cardinality(Caller)
  BY <1>1, FS_Subset, FS_CardinalityType
<1>3. ASSUME NEW c \in S PROVE Cardinality(S \ {c}) = Cardinality(S) - 1
  BY <1>2, FS_RemoveElement
<1> QED BY <1>2, <1>3 DEF Others

\* One caller fewer that is cleared pays for one capped stake.
LEMMA OneStakeMore ==
    ASSUME NEW n \in Nat, NEW b \in Int, NEW d \in Nat,
           d <= StakeCap, b > Floor - StakeCap * n
    PROVE  b - d > Floor - StakeCap * (n + 1)
<1>1. StakeCap \in Nat /\ Floor \in Nat
  BY ConstantsOK
<1>2. StakeCap * (n + 1) = StakeCap * n + StakeCap /\ StakeCap * n \in Nat
  BY <1>1
<1> QED BY <1>1, <1>2

\* Every step keeps the bound on how far the balance falls below the floor.
LEMMA FloorStep ==
    ASSUME TypeOK, TypeOK', OverdraftBounded, [Next]_vars
    PROVE  OverdraftBounded'
<1> DEFINE n == Others(Cleared)
           m == Others(Cleared')
<1>1. /\ StakeCap \in Nat /\ Floor \in Nat
      /\ balance \in Nat /\ balance' \in Nat
  BY ConstantsOK DEF TypeOK
<1>2. n \in Nat /\ m \in Nat
  BY OthersCount DEF Cleared
<1>3. balance > Floor - StakeCap * n
  BY DEF OverdraftBounded, Others
<1>4. SUFFICES balance' > Floor - StakeCap * m
  BY DEF OverdraftBounded, Others
<1>5. ASSUME NEW c \in Caller, Invoke(c)
      PROVE  balance' > Floor - StakeCap * m
  <2>1. balance' > Floor
    BY <1>5 DEF Invoke, account
  <2>2. StakeCap * m \in Nat
    BY <1>1, <1>2
  <2> QED BY <1>1, <2>1, <2>2
<1>6. ASSUME NEW c \in Caller, RejectDuplicate(c) \/ InnerFails(c)
      PROVE  balance' > Floor - StakeCap * m
  <2>1. c \in Cleared /\ Cleared' = Cleared \ {c} /\ balance' = balance - 0
    BY <1>6, <1>1 DEF TypeOK, RejectDuplicate, InnerFails, Leave, Cleared,
      account
  <2>2. m = n + 1
    BY <2>1, OthersCount DEF Cleared
  <2> QED BY <1>1, <1>2, <1>3, <2>1, <2>2, OneStakeMore
<1>7. ASSUME NEW c \in Caller, BookAccepts(c)
      PROVE  balance' > Floor - StakeCap * m
  <2>1. c \in Cleared /\ Cleared' = Cleared \ {c}
    BY <1>7 DEF TypeOK, BookAccepts, Cleared
  <2>2. m = n + 1
    BY <2>1, OthersCount DEF Cleared
  <2>3. balance' = balance - Clamped(c)
    BY <1>7 DEF BookAccepts
  <2>4. Clamped(c) \in Nat /\ Clamped(c) <= StakeCap
    BY <1>1 DEF TypeOK, Clamped
  <2> QED BY <1>1, <1>2, <1>3, <2>2, <2>3, <2>4, OneStakeMore
\* The others leave the set of cleared callers alone, and take no money.
<1>8. ASSUME Cleared' = Cleared, balance' >= balance
      PROVE  balance' > Floor - StakeCap * m
  <2>1. StakeCap * n \in Nat
    BY <1>1, <1>2
  <2> QED BY <1>1, <1>3, <1>8, <2>1
<1>9. ASSUME NEW c \in Caller,
             Reserve(c) \/ AnswerLost(c) \/ ReturnFilled(c) \/ Retract(c)
      PROVE  Cleared' = Cleared /\ balance' >= balance
  BY <1>1, <1>9 DEF TypeOK, Reserve, AnswerLost, ReturnFilled, Retract, Leave,
    Cleared, account
<1>10. CASE Tick \/ Credit \/ UNCHANGED vars
  BY <1>1, <1>8, <1>10 DEF Tick, Credit, vars, Cleared, account
<1> QED
  BY <1>5, <1>6, <1>7, <1>8, <1>9, <1>10 DEF Next, Step

\* However many callers pass the balance check before any of them bets, the
\* balance falls below the floor by less than one capped stake for each.
THEOREM FloorCorrect == Spec => []OverdraftBounded
<1> DEFINE FInv == TypeOK /\ OverdraftBounded
<1>1. Init => FInv
  <2> SUFFICES ASSUME Init PROVE TypeOK /\ OverdraftBounded
    OBVIOUS
  <2>1. TypeOK /\ balance > Floor
    BY ConstantsOK DEF Init, TypeOK, Never
  <2>2. Others(Cleared) \in Nat
    BY OthersCount DEF Cleared
  <2>3. StakeCap * Others(Cleared) \in Nat
    BY <2>2, ConstantsOK
  <2>4. balance > Floor - StakeCap * Others(Cleared)
    BY <2>1, <2>3, ConstantsOK DEF TypeOK
  <2> QED BY <2>1, <2>4 DEF OverdraftBounded, Others
<1>2. FInv /\ [Next]_vars => FInv'
  BY TypeStep, FloorStep
<1>3. FInv => OverdraftBounded
  OBVIOUS
<1> HIDE DEF FInv
<1> QED BY <1>1, <1>2, <1>3, PTL DEF Spec
=============================================================================
