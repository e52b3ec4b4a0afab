---------------------------- MODULE StoresProofs ----------------------------
(***************************************************************************)
(* Theorems about the two stores.  CSVBetStore: the file implements a      *)
(* BetStore, and keeps what was acknowledged, for any set of bets and any  *)
(* number of faults.  LineCache: for any number of readers and markets,    *)
(* any lifetimes and any lost call, no cached value is staler than an      *)
(* entry's life and the longest time between a read and the fill.          *)
(***************************************************************************)
EXTENDS CSVBetStore, LineCache, SequenceTheorems, TLAPS

-----------------------------------------------------------------------------
(* The file: the inductive invariant *)

Distinct(s) == \A m, n \in 1 .. Len(s) : s[m].id = s[n].id => m = n

FileOK ==
    /\ header \in {"absent", "empty", "written"}
    /\ rows \in Seq(Bet)
    /\ allowed \in [Id -> SUBSET (Bet \union {Absent})]

Storing == Saving \union Rewriting

OpOK ==
    \/ op = Idle
    \/ op = [kind |-> "new"]
    \/ op \in [kind : Storing, bet : Bet]

\* A method runs on a file that exists; New writes the header of an empty one.
\* Without a header the first row goes missing, which is what spoils the file.
HeaderOK ==
    /\ header = "absent" => rows = <<>>
    /\ opened => header # "absent"
    /\ op.kind = "new" => header = "empty" /\ rows = <<>>
    /\ op.kind \in Storing => header # "absent"
    /\ header # "written" /\ rows # <<>> => spoiled

\* What the checks at the start of a method found still holds at its end.
OpInPlace ==
    /\ op.kind \in Storing => op.bet \in allowed[op.bet.id]
    /\ op.kind = "append" => \A n \in 1 .. Len(Visible) : Visible[n].id # op.bet.id
    /\ op.kind \in Rewriting => \E n \in 1 .. Len(Visible) : Visible[n].id = op.bet.id
    /\ op.kind = "close" => spoiled \/ Stored(op.bet.id) = op.bet

IInv ==
    /\ FileOK
    /\ OpOK
    /\ HeaderOK
    /\ Distinct(Visible)
    /\ OpInPlace
    /\ AckedKept

-----------------------------------------------------------------------------
(* The file: what a reader finds *)

\* Stored is a function of the visible rows.
StateIn(s, i) ==
    LET found == {n \in 1 .. Len(s) : s[n].id = i} IN
    IF found = {} THEN Absent ELSE s[CHOOSE n \in found : TRUE]

LEMMA StateInFacts ==
    ASSUME NEW s \in Seq(Bet), Distinct(s), NEW i
    PROVE  /\ \A n \in 1 .. Len(s) : s[n].id = i => StateIn(s, i) = s[n]
           /\ (\A n \in 1 .. Len(s) : s[n].id # i) => StateIn(s, i) = Absent
           /\ StateIn(s, i) # Absent => \E n \in 1 .. Len(s) : s[n].id = i
<1> DEFINE found == {n \in 1 .. Len(s) : s[n].id = i}
<1>1. ASSUME NEW n \in 1 .. Len(s), s[n].id = i PROVE StateIn(s, i) = s[n]
  <2>1. n \in found
    BY <1>1
  <2>2. (CHOOSE m \in found : TRUE) \in found
    BY <2>1
  <2>3. (CHOOSE m \in found : TRUE) = n
    BY <2>2, <1>1 DEF Distinct
  <2> QED BY <2>1, <2>3 DEF StateIn
<1>2. (\A n \in 1 .. Len(s) : s[n].id # i) => StateIn(s, i) = Absent
  BY DEF StateIn
<1> QED BY <1>1, <1>2

LEMMA BetNotAbsent == Absent \notin Bet
  BY DEF Absent, Bet, Status

LEMMA VisibleType == ASSUME FileOK PROVE Visible \in Seq(Bet)
<1>1. CASE header = "written" \/ rows = <<>>
  BY <1>1 DEF Visible, FileOK
<1>2. CASE ~(header = "written" \/ rows = <<>>)
  BY <1>2, HeadTailProperties DEF Visible, FileOK
<1> QED BY <1>1, <1>2

\* A new bet behind the others.
LEMMA AppendState ==
    ASSUME NEW s \in Seq(Bet), Distinct(s), NEW b \in Bet,
           \A n \in 1 .. Len(s) : s[n].id # b.id
    PROVE  /\ Append(s, b) \in Seq(Bet) /\ Distinct(Append(s, b))
           /\ StateIn(Append(s, b), b.id) = b
           /\ \A i : i # b.id => StateIn(Append(s, b), i) = StateIn(s, i)
<1> DEFINE t == Append(s, b)
<1>1. /\ t \in Seq(Bet) /\ Len(t) = Len(s) + 1 /\ Len(s) \in Nat
      /\ \A n \in 1 .. Len(s) : t[n] = s[n]
      /\ t[Len(s) + 1] = b
  BY AppendProperties
<1> HIDE DEF t
<1>2. Distinct(t)
  BY <1>1 DEF Distinct
<1>3. StateIn(t, b.id) = b
  <2>1. Len(s) + 1 \in 1 .. Len(t)
    BY <1>1
  <2> QED BY <1>1, <1>2, <2>1, StateInFacts
<1>4. ASSUME NEW i, i # b.id PROVE StateIn(t, i) = StateIn(s, i)
  <2>1. CASE \E n \in 1 .. Len(s) : s[n].id = i
    <3> PICK n \in 1 .. Len(s) : s[n].id = i
      BY <2>1
    <3>1. n \in 1 .. Len(t) /\ t[n] = s[n]
      BY <1>1
    <3>2. StateIn(s, i) = s[n]
      BY StateInFacts
    <3>3. StateIn(t, i) = t[n]
      BY <1>1, <1>2, <3>1, StateInFacts
    <3> QED BY <3>1, <3>2, <3>3
  <2>2. CASE \A n \in 1 .. Len(s) : s[n].id # i
    <3>1. \A n \in 1 .. Len(t) : t[n].id # i
      BY <1>1, <1>4, <2>2
    <3>2. StateIn(t, i) = Absent
      BY <1>1, <1>2, <3>1, StateInFacts
    <3>3. StateIn(s, i) = Absent
      BY <2>2, StateInFacts
    <3> QED BY <3>2, <3>3
  <2> QED BY <2>1, <2>2
<1> QED BY <1>1, <1>2, <1>3, <1>4 DEF t

\* A bet in the place of its old state.
LEMMA ReplaceState ==
    ASSUME NEW s \in Seq(Bet), Distinct(s), NEW b \in Bet,
           NEW k \in 1 .. Len(s), s[k].id = b.id
    PROVE  LET t == [s EXCEPT ![k] = b] IN
           /\ t \in Seq(Bet) /\ Distinct(t)
           /\ StateIn(t, b.id) = b
           /\ \A i : i # b.id => StateIn(t, i) = StateIn(s, i)
<1> DEFINE t == [s EXCEPT ![k] = b]
<1>1. /\ t \in Seq(Bet) /\ Len(t) = Len(s)
      /\ \A n \in 1 .. Len(s) : t[n] = IF n = k THEN b ELSE s[n]
  BY ExceptSeq
<1> HIDE DEF t
<1>2. \A n \in 1 .. Len(s) : t[n].id = s[n].id
  BY <1>1
<1>3. Distinct(t)
  BY <1>1, <1>2 DEF Distinct
<1>4. StateIn(t, b.id) = b
  BY <1>1, <1>3, StateInFacts
<1>5. ASSUME NEW i, i # b.id PROVE StateIn(t, i) = StateIn(s, i)
  <2>1. CASE \E n \in 1 .. Len(s) : s[n].id = i
    <3> PICK n \in 1 .. Len(s) : s[n].id = i
      BY <2>1
    <3>1. t[n] = s[n] /\ n \in 1 .. Len(t) /\ t[n].id = i
      BY <1>1, <1>5
    <3>2. StateIn(s, i) = s[n]
      BY StateInFacts
    <3>3. StateIn(t, i) = t[n]
      BY <1>1, <1>3, <3>1, StateInFacts
    <3> QED BY <3>1, <3>2, <3>3
  <2>2. CASE \A n \in 1 .. Len(s) : s[n].id # i
    <3>1. \A n \in 1 .. Len(t) : t[n].id # i
      BY <1>1, <1>2, <2>2
    <3>2. StateIn(t, i) = Absent
      BY <1>1, <1>3, <3>1, StateInFacts
    <3>3. StateIn(s, i) = Absent
      BY <2>2, StateInFacts
    <3> QED BY <3>2, <3>3
  <2> QED BY <2>1, <2>2
<1> QED BY <1>1, <1>3, <1>4, <1>5 DEF t

-----------------------------------------------------------------------------
(* The file: what a step does to the invariant and, in BetStore, to the bets *)

Kept == IInv' /\ [Store!Next]_Visible

LEMMA Begun ==
    ASSUME IInv, op.kind \in Storing
    PROVE  op \in [kind : Storing, bet : Bet] /\ op.bet \in Bet /\ op.bet.id \in Id
BY DEF IInv, OpOK, Storing, Saving, Rewriting, Idle, Bet

LEMMA StoredFacts ==
    ASSUME IInv
    PROVE  /\ Visible \in Seq(Bet)
           /\ \A i : Stored(i) = StateIn(Visible, i)
           /\ \A i : Stored(i)' = StateIn(Visible', i)
BY VisibleType DEF IInv, Stored, StateIn

\* The calls that leave the rows alone and end with no method under way, or
\* with the next stage of the same one.
LEMMA QuietStep ==
    ASSUME IInv, FileOK', HeaderOK', OpOK', Visible' = Visible, spoiled' = spoiled,
           \/ op'.kind \in {"idle", "new"}
           \/ op.kind \in Rewriting /\ op'.kind \in Rewriting /\ op'.bet = op.bet,
           \/ UNCHANGED allowed
           \/ allowed' = [allowed EXCEPT ![op.bet.id] = {op.bet}] /\ op.kind = "close"
    PROVE  Kept
<1>1. \A i : Stored(i)' = Stored(i)
  BY DEF Stored
<1>2. Distinct(Visible)'
  BY DEF IInv, Distinct
<1>3. AckedKept'
  <2>1. CASE UNCHANGED allowed
    BY <1>1, <2>1 DEF AckedKept, IInv
  <2>2. CASE allowed' = [allowed EXCEPT ![op.bet.id] = {op.bet}] /\ op.kind = "close"
    BY <1>1, <2>2 DEF AckedKept, IInv, OpInPlace, FileOK
  <2> QED BY <2>1, <2>2
<1>4. OpInPlace'
  <2>1. CASE op'.kind \in {"idle", "new"}
    BY <2>1 DEF OpInPlace, Storing, Saving, Rewriting
  <2>2. CASE op.kind \in Rewriting /\ op'.kind \in Rewriting /\ op'.bet = op.bet
    <3>1. op.kind \notin {"append", "close"} /\ op'.kind \notin {"append", "close"}
      BY <2>2 DEF Rewriting
    <3>2. UNCHANGED allowed
      BY <3>1
    <3> QED BY <2>2, <3>1, <3>2 DEF IInv, OpInPlace, Storing
  <2> QED BY <2>1, <2>2
<1> QED BY <1>2, <1>3, <1>4 DEF Kept, IInv

LEMMA NewStep == ASSUME IInv, New PROVE Kept
<1>1. CASE OpenExisting
  <2>1. FileOK' /\ HeaderOK' /\ OpOK' /\ Visible' = Visible
    BY <1>1 DEF OpenExisting, IInv, FileOK, HeaderOK, OpOK, Visible, file, Idle, Storing,
      Saving, Rewriting
  <2> QED BY <1>1, <2>1, QuietStep DEF OpenExisting, Idle
<1>2. CASE CreateFile
  <2>1. rows = <<>> /\ rows' = <<>>
    BY <1>2 DEF CreateFile, IInv, HeaderOK
  <2>2. FileOK' /\ HeaderOK' /\ OpOK' /\ Visible' = Visible
    BY <1>2, <2>1 DEF CreateFile, IInv, FileOK, HeaderOK, OpOK, Visible, Storing,
      Saving, Rewriting
  <2> QED BY <1>2, <2>2, QuietStep DEF CreateFile
<1>3. CASE WriteHeader
  <2>1. rows = <<>> /\ rows' = <<>>
    BY <1>3 DEF WriteHeader, IInv, HeaderOK
  <2>2. FileOK' /\ HeaderOK' /\ OpOK' /\ Visible' = Visible
    BY <1>3, <2>1 DEF WriteHeader, IInv, FileOK, HeaderOK, OpOK, Visible, Idle, Storing,
      Saving, Rewriting
  <2> QED BY <1>3, <2>2, QuietStep DEF WriteHeader, Idle
<1>4. CASE HeaderFails
  <2>1. FileOK' /\ HeaderOK' /\ OpOK' /\ Visible' = Visible
    BY <1>4 DEF HeaderFails, IInv, FileOK, HeaderOK, OpOK, Visible, file, Idle, Storing,
      Saving, Rewriting
  <2> QED BY <1>4, <2>1, QuietStep DEF HeaderFails, Idle
<1> QED BY <1>1, <1>2, <1>3, <1>4 DEF New

\* A method that its checks let begin may from now on have stored its bet.
LEMMA BeginStep ==
    ASSUME IInv, NEW bet \in Bet, NEW kind \in {"append", "rewrite"}, Begin(kind, bet),
           kind = "append" => Stored(bet.id) = Absent,
           kind = "rewrite" => Stored(bet.id) # Absent
    PROVE  Kept
<1>1. /\ opened /\ op' = [kind |-> kind, bet |-> bet] /\ op = Idle
      /\ allowed' = [allowed EXCEPT ![bet.id] = @ \union {bet}]
      /\ UNCHANGED <<header, rows, opened, spoiled>>
  BY DEF Begin, file
<1>2. bet.id \in Id
  BY DEF Bet
<1>3. FileOK' /\ HeaderOK' /\ OpOK' /\ Visible' = Visible
  BY <1>1, <1>2 DEF IInv, FileOK, HeaderOK, OpOK, Visible, Storing, Saving, Rewriting
<1>4. \A i : Stored(i)' = Stored(i)
  BY <1>3 DEF Stored
<1>5. Distinct(Visible)'
  BY <1>3 DEF IInv, Distinct
<1>6. AckedKept'
  BY <1>1, <1>2, <1>4 DEF IInv, AckedKept, FileOK
<1>7. OpInPlace'
  <2>1. op'.bet \in allowed'[op'.bet.id]
    BY <1>1, <1>2 DEF IInv, FileOK
  <2>2. Visible \in Seq(Bet) /\ Stored(bet.id) = StateIn(Visible, bet.id)
    BY StoredFacts
  <2>3. CASE kind = "append"
    <3>1. \A n \in 1 .. Len(Visible) : Visible[n] \in Bet
      BY <2>2, ElementOfSeq
    <3>2. \A n \in 1 .. Len(Visible) : Visible[n].id # bet.id
      BY <2>2, <2>3, <3>1, StateInFacts, BetNotAbsent DEF IInv
    <3> QED BY <1>1, <1>3, <2>1, <2>3, <3>2 DEF OpInPlace, Rewriting
  <2>4. CASE kind = "rewrite"
    <3>1. \E n \in 1 .. Len(Visible) : Visible[n].id = bet.id
      BY <2>2, <2>4, StateInFacts DEF IInv
    <3> QED BY <1>1, <1>3, <2>1, <2>4, <3>1 DEF OpInPlace
  <2> QED BY <2>3, <2>4
<1> QED BY <1>3, <1>5, <1>6, <1>7 DEF Kept, IInv

\* The bets that Update, Resolve and ResolveCLV write have the ID they found.
LEMMA BeginRewriteStep ==
    ASSUME IInv,
           \/ \E bet \in Bet : Update(bet)
           \/ \E i \in Id : (\E won \in BOOLEAN : Resolve(i, won)) \/ ResolveCLV(i)
    PROVE  Kept
<1>1. ASSUME NEW bet \in Bet, Update(bet) PROVE Kept
  BY <1>1, BeginStep DEF Update
<1>2. ASSUME NEW i \in Id, Stored(i) # Absent
      PROVE  Stored(i) \in Bet /\ Stored(i).id = i
  BY <1>2, StoredFacts, StateInFacts, ElementOfSeq DEF IInv
<1>3. ASSUME NEW i \in Id, NEW won \in BOOLEAN, Resolve(i, won) PROVE Kept
  <2> DEFINE bet == [Stored(i) EXCEPT !.status = IF won THEN "won" ELSE "lost"]
  <2>1. Stored(i) # Absent /\ Begin("rewrite", bet)
    BY <1>3 DEF Resolve
  <2>2. bet \in Bet /\ bet.id = i
    BY <1>2, <2>1 DEF Bet, Status
  <2> HIDE DEF bet
  <2> QED BY <2>1, <2>2, BeginStep
<1>4. ASSUME NEW i \in Id, ResolveCLV(i) PROVE Kept
  <2> DEFINE bet == [Stored(i) EXCEPT !.clv = "some"]
  <2>1. Stored(i) # Absent /\ Begin("rewrite", bet)
    BY <1>4 DEF ResolveCLV
  <2>2. bet \in Bet /\ bet.id = i
    BY <1>2, <2>1 DEF Bet, Status
  <2> HIDE DEF bet
  <2> QED BY <2>1, <2>2, BeginStep
<1> QED BY <1>1, <1>3, <1>4

\* A row behind the others is a bet behind the others, unless it takes the
\* place of the header and is seen by nobody.
LEMMA RowAdded ==
    ASSUME IInv, op.kind = "append", header' = header, rows' = Append(rows, op.bet),
           UNCHANGED allowed, header = "empty" => spoiled', spoiled => spoiled'
    PROVE  /\ FileOK' /\ Distinct(Visible)'
           /\ [Store!Next]_Visible
           /\ AckedKept'
           /\ spoiled' \/ \A i : i = op.bet.id => Stored(i)' = op.bet
<1>1. op.bet \in Bet /\ op.bet.id \in Id /\ header # "absent"
  BY Begun DEF IInv, HeaderOK, Storing, Saving
<1>2. rows \in Seq(Bet) /\ rows' \in Seq(Bet) /\ rows' # <<>>
  BY <1>1, AppendProperties DEF IInv, FileOK
<1>3. FileOK'
  BY <1>2 DEF IInv, FileOK
<1>4. CASE header = "empty" /\ rows = <<>>
  <2>1. Visible' = <<>> /\ Visible = <<>>
    BY <1>1, <1>2, <1>4, HeadTailAppend DEF Visible
  <2>2. Distinct(Visible)' /\ spoiled'
    BY <1>4, <2>1 DEF IInv, Distinct
  <2> QED BY <1>3, <2>1, <2>2 DEF AckedKept
<1>5. CASE ~(header = "empty" /\ rows = <<>>)
  <2>1. Visible' = Append(Visible, op.bet)
    <3>1. CASE header = "written"
      BY <3>1 DEF Visible
    <3>2. CASE header = "empty" /\ rows # <<>>
      BY <1>1, <1>2, <3>2, HeadTailAppend DEF Visible
    <3> QED BY <1>1, <1>5, <3>1, <3>2 DEF IInv, FileOK
  <2>2. /\ Visible \in Seq(Bet) /\ Distinct(Visible)
        /\ \A n \in 1 .. Len(Visible) : Visible[n].id # op.bet.id
    BY StoredFacts DEF IInv, OpInPlace
  <2>3. /\ Distinct(Append(Visible, op.bet))
        /\ StateIn(Append(Visible, op.bet), op.bet.id) = op.bet
        /\ \A i : i # op.bet.id =>
              StateIn(Append(Visible, op.bet), i) = StateIn(Visible, i)
    BY <1>1, <2>2, AppendState
  <2>4. Distinct(Visible)'
    BY <2>1, <2>3 DEF Distinct
  <2>5. \A i : Stored(i)' = IF i = op.bet.id THEN op.bet ELSE Stored(i)
    BY <2>1, <2>3, StoredFacts
  <2>6. AckedKept'
    BY <2>5 DEF IInv, AckedKept, OpInPlace, Storing, Saving
  <2>7. Store!Next
    BY <1>1, <2>1, <2>2 DEF Store!Next, Store!Save, Store!Ids
  <2> QED BY <1>3, <2>4, <2>5, <2>6, <2>7
<1> QED BY <1>4, <1>5

LEMMA AppendRowStep == ASSUME IInv, AppendRow PROVE Kept
<1>1. /\ op.kind = "append" /\ op' = [op EXCEPT !.kind = "close"]
      /\ spoiled' = (spoiled \/ tail = "unended" \/ header = "empty")
      /\ UNCHANGED <<header, opened, allowed>>
  BY DEF AppendRow
<1>2. op \in [kind : Storing, bet : Bet] /\ op'.kind = "close" /\ op'.bet = op.bet
  BY <1>1, Begun DEF Storing, Saving
<1>3. OpOK'
  BY <1>1, <1>2 DEF OpOK, Storing, Saving
<1>4. /\ FileOK' /\ Distinct(Visible)' /\ [Store!Next]_Visible /\ AckedKept'
      /\ spoiled' \/ \A i : i = op.bet.id => Stored(i)' = op.bet
      /\ rows' # <<>> => spoiled \/ spoiled' \/ header = "written"
  <2>1. CASE tail = "unended"
    <3>1. rows' = rows /\ Visible' = Visible /\ spoiled'
      BY <1>1, <2>1 DEF AppendRow, Visible
    <3> QED BY <1>1, <3>1 DEF IInv, FileOK, Distinct, AckedKept
  <2>2. CASE tail # "unended"
    <3>1. rows' = Append(rows, op.bet)
      BY <2>2 DEF AppendRow
    <3> QED BY <1>1, <3>1, RowAdded DEF IInv, FileOK, HeaderOK, Storing, Saving
  <2> QED BY <2>1, <2>2
<1>5. HeaderOK'
  <2>1. header # "absent" /\ header' # "absent" /\ (spoiled => spoiled')
    BY <1>1 DEF IInv, HeaderOK, Storing, Saving
  <2> QED BY <1>2, <1>4, <1>1, <2>1 DEF HeaderOK
<1>6. OpInPlace'
  <2>1. op'.bet \in allowed'[op'.bet.id]
    BY <1>1, <1>2 DEF IInv, OpInPlace, Storing, Saving
  <2> QED BY <1>2, <1>4, <2>1 DEF OpInPlace, Rewriting
<1> QED BY <1>3, <1>4, <1>5, <1>6 DEF Kept, IInv

\* The methods that give up an append, whatever of its row is written.
LEMMA AppendFailsStep == ASSUME IInv, AppendFails PROVE Kept
<1>1. op.kind = "append" /\ op' = Idle /\ UNCHANGED <<header, opened, allowed>>
  BY DEF AppendFails
<1>2. OpOK' /\ OpInPlace'
  BY <1>1 DEF OpOK, OpInPlace, Idle, Storing, Saving, Rewriting
<1>3. CASE rows' = rows /\ (spoiled' = spoiled \/ spoiled' = TRUE)
  <2>1. Visible' = Visible
    BY <1>1, <1>3 DEF Visible
  <2>2. HeaderOK'
    BY <1>1, <1>3 DEF IInv, HeaderOK, Idle, Storing, Saving, Rewriting
  <2>3. FileOK' /\ Distinct(Visible)'
    BY <1>1, <1>3, <2>1 DEF IInv, FileOK, Distinct
  <2>4. AckedKept'
    BY <1>1, <1>3, <2>1 DEF IInv, AckedKept, Stored
  <2> QED BY <1>2, <2>1, <2>2, <2>3, <2>4 DEF Kept, IInv
<1>4. CASE header = "written" /\ rows' = Append(rows, op.bet) /\ spoiled' = spoiled
  <2>1. FileOK' /\ Distinct(Visible)' /\ [Store!Next]_Visible /\ AckedKept'
    BY <1>1, <1>4, RowAdded
  <2>2. HeaderOK'
    BY <1>1, <1>4 DEF HeaderOK, Idle, Storing, Saving, Rewriting
  <2> QED BY <1>2, <2>1, <2>2 DEF Kept, IInv
<1> QED BY <1>3, <1>4 DEF AppendFails

LEMMA CloseStep == ASSUME IInv, CloseRow \/ CloseFails PROVE Kept
<1>1. op.kind = "close" /\ op' = Idle /\ UNCHANGED <<header, rows, opened, spoiled>>
  BY DEF CloseRow, CloseFails, Acknowledge, file
<1>2. \/ UNCHANGED allowed
      \/ allowed' = [allowed EXCEPT ![op.bet.id] = {op.bet}]
  BY DEF CloseRow, CloseFails, Acknowledge
<1>3. op.bet \in Bet /\ op.bet.id \in Id
  BY <1>1, Begun DEF Storing, Saving
<1>4. FileOK' /\ OpOK' /\ HeaderOK' /\ Visible' = Visible
  BY <1>1, <1>2, <1>3 DEF IInv, FileOK, OpOK, HeaderOK, Visible, Idle, Storing, Saving,
    Rewriting
<1> QED BY <1>1, <1>2, <1>4, QuietStep DEF Idle

LEMMA RewriteStep ==
    ASSUME IInv, CreateTmp \/ WriteTmp \/ RewriteFails \/ Crash PROVE Kept
<1>1. UNCHANGED <<header, rows, allowed, spoiled>>
  BY DEF CreateTmp, WriteTmp, RewriteFails, Crash, file
<1>2. FileOK' /\ Visible' = Visible
  BY <1>1 DEF IInv, FileOK, Visible
<1>3. CASE RewriteFails \/ Crash
  <2>1. op' = Idle /\ (opened' => opened)
    BY <1>3 DEF RewriteFails, Crash
  <2>2. OpOK' /\ HeaderOK'
    BY <1>1, <2>1 DEF IInv, OpOK, HeaderOK, Idle, Storing, Saving, Rewriting
  <2> QED BY <1>1, <1>2, <2>1, <2>2, QuietStep DEF Idle
<1>4. CASE CreateTmp \/ WriteTmp
  <2>1. /\ op.kind \in Rewriting /\ opened' = opened
        /\ op' = [op EXCEPT !.kind = "rows"] \/ op' = [op EXCEPT !.kind = "rename"]
    BY <1>4 DEF CreateTmp, WriteTmp, Rewriting
  <2>2. op \in [kind : Storing, bet : Bet]
    BY <2>1, Begun DEF Storing
  <2>3. op' \in [kind : Storing, bet : Bet] /\ op'.kind \in Rewriting /\ op'.bet = op.bet
    BY <2>1, <2>2 DEF Storing, Rewriting
  <2>4. OpOK' /\ HeaderOK'
    BY <1>1, <2>1, <2>3 DEF IInv, OpOK, HeaderOK, Storing, Rewriting
  <2> QED BY <1>1, <1>2, <2>1, <2>3, <2>4, QuietStep
<1> QED BY <1>3, <1>4 DEF CreateTmp

\* The rename puts every bet where it was, and the new state in its place.
LEMMA RenameStep == ASSUME IInv, RenameTmp PROVE Kept
<1>1. /\ op.kind = "rename" /\ header' = "written" /\ rows' = Rewritten /\ op' = Idle
      /\ allowed' = [allowed EXCEPT ![op.bet.id] = {op.bet}]
      /\ UNCHANGED <<opened, spoiled>>
  BY DEF RenameTmp, Acknowledge
<1>2. op.bet \in Bet /\ op.bet.id \in Id
  BY <1>1, Begun DEF Storing, Rewriting
<1>3. Visible \in Seq(Bet) /\ Distinct(Visible)
  BY StoredFacts DEF IInv
<1> PICK k \in 1 .. Len(Visible) : Visible[k].id = op.bet.id
  BY <1>1 DEF IInv, OpInPlace, Rewriting
<1>4. rows' = [Visible EXCEPT ![k] = op.bet]
  <2> DEFINE First(n) == /\ Visible[n].id = op.bet.id
                         /\ \A m \in 1 .. n - 1 : Visible[m].id # op.bet.id
  <2>1. Len(Visible) \in Nat
    BY <1>3, LenProperties
  <2>2. First(k) /\ \A n \in 1 .. Len(Visible) : First(n) => n = k
    BY <1>3, <2>1 DEF Distinct
  <2>3. (CHOOSE n \in 1 .. Len(Visible) : First(n)) = k
    BY <2>2
  <2> QED BY <1>1, <2>3 DEF Rewritten
<1>5. Visible' = rows'
  BY <1>1 DEF Visible
<1>6. /\ rows' \in Seq(Bet) /\ Distinct(Visible') /\ StateIn(Visible', op.bet.id) = op.bet
      /\ \A i : i # op.bet.id => StateIn(Visible', i) = StateIn(Visible, i)
  <2> DEFINE t == [Visible EXCEPT ![k] = op.bet]
  <2>1. /\ t \in Seq(Bet) /\ Distinct(t) /\ StateIn(t, op.bet.id) = op.bet
        /\ \A i : i # op.bet.id => StateIn(t, i) = StateIn(Visible, i)
    BY <1>2, <1>3, ReplaceState
  <2>2. rows' = t /\ Visible' = t
    BY <1>4, <1>5
  <2> HIDE DEF t
  <2> QED BY <2>1, <2>2
<1>7. FileOK' /\ OpOK' /\ HeaderOK' /\ OpInPlace'
  BY <1>1, <1>2, <1>6 DEF IInv, FileOK, OpOK, HeaderOK, OpInPlace, Idle, Storing, Saving,
    Rewriting
<1>8. AckedKept'
  <2>1. \A i : Stored(i)' = IF i = op.bet.id THEN op.bet ELSE Stored(i)
    BY <1>6, StoredFacts
  <2> QED BY <1>1, <1>2, <2>1 DEF IInv, AckedKept, FileOK
<1>9. Store!Next
  BY <1>2, <1>4, <1>5 DEF Store!Next, Store!Replace
<1>10. Distinct(Visible)'
  BY <1>6 DEF Distinct
<1> QED BY <1>7, <1>8, <1>9, <1>10 DEF Kept, IInv

LEMMA NextStep == ASSUME IInv, [Next]_vars PROVE Kept
<1>1. CASE UNCHANGED vars
  <2>1. UNCHANGED <<header, rows, opened, op, allowed, spoiled>> /\ Visible' = Visible
    BY <1>1 DEF vars, file, Visible
  <2> QED
    BY <2>1 DEF Kept, IInv, FileOK, OpOK, HeaderOK, Distinct, OpInPlace, AckedKept, Stored
<1>2. CASE Save
  BY <1>2, BeginStep, AppendRowStep, AppendFailsStep, CloseStep DEF Save, BeginSave
<1>3. CASE Rewrite
  BY <1>3, BeginRewriteStep, RewriteStep, RenameStep DEF Rewrite
<1> QED BY <1>1, <1>2, <1>3, NewStep, RewriteStep DEF Next

LEMMA InitHolds == Init => IInv /\ Store!Init
<1> SUFFICES ASSUME Init PROVE IInv /\ Store!Init
  OBVIOUS
<1>1. rows = <<>> /\ Visible = <<>> /\ op = Idle
  BY DEF Init, Visible
<1>2. FileOK /\ OpOK /\ HeaderOK
  BY <1>1 DEF Init, FileOK, OpOK, HeaderOK, Idle, Storing, Saving, Rewriting
<1>3. Distinct(Visible) /\ \A i : Stored(i) = Absent
  BY <1>1 DEF Distinct, Stored
<1>4. OpInPlace /\ AckedKept
  BY <1>1, <1>3 DEF Init, OpInPlace, AckedKept, Idle, Storing, Saving, Rewriting
<1> QED BY <1>1, <1>2, <1>3, <1>4 DEF IInv, Store!Init

LEMMA CSVInvariant == Spec => []IInv
<1>1. IInv /\ [Next]_vars => IInv'
  BY NextStep DEF Kept
<1> QED BY <1>1, InitHolds, PTL DEF Spec

-----------------------------------------------------------------------------
(* The file: theorems *)

\* Whatever calls fail and whenever the process dies, a file that is not
\* spoiled holds each bet as the last call that returned nil left it, or as a
\* later one that did not meant to (csv.go:51-81, 244-246).
THEOREM AckedKeptCorrect == Spec => []AckedKept
<1>1. IInv => AckedKept
  BY DEF IInv
<1> QED BY <1>1, CSVInvariant, PTL

\* The file implements a BetStore, spoiled or not: seen through readAll, every
\* step of every method, failure and crash is one Save, one replacement in
\* place, or nothing (csv.go:244-246).
THEOREM StoreImplemented == Spec => StoreSpec
<1>1. IInv /\ [Next]_vars => [Store!Next]_Visible
  BY NextStep DEF Kept
<1> QED BY <1>1, InitHolds, CSVInvariant, PTL DEF Spec, StoreSpec, Store!Spec

-----------------------------------------------------------------------------
(* The cache: the inductive invariant *)

\* The value was current at `at`, or later.
CurrentSince(k, val, at) ==
    \/ val = Current(k, ver)
    \/ \E r \in retired : r.key = k /\ r.val = val /\ r.at >= at

CacheTypeOK ==
    /\ now \in Nat
    /\ \A k \in DOMAIN cache : k \in CacheKey /\ cache[k].expires \in Nat
    /\ \A r \in retired : r.at \in Nat
    /\ DOMAIN reading = Reader
    /\ \A r \in Reader : reading[r].busy =>
          reading[r].key \in CacheKey /\ reading[r].at \in Nat

\* An entry is dropped when its time is over, and its value was current when
\* the reader that filled it in read the store.
EntryFresh ==
    \A k \in DOMAIN cache :
        /\ now <= cache[k].expires /\ cache[k].expires <= now + TTL
        /\ CurrentSince(k, cache[k].val, cache[k].expires - TTL - MaxFill)

\* What a reader holds was current when it read it.
ReaderFresh ==
    \A r \in Reader : reading[r].busy =>
        /\ reading[r].at <= now /\ now <= reading[r].at + MaxFill
        /\ CurrentSince(reading[r].key, reading[r].val, reading[r].at)

CacheInv == CacheTypeOK /\ EntryFresh /\ ReaderFresh

-----------------------------------------------------------------------------
(* The cache: the steps *)

LEMMA CacheStart == CacheInit => CacheInv
  BY DEF CacheInit, CacheInv, CacheTypeOK, EntryFresh, ReaderFresh, None

\* A value that a save makes old is retired now, so no value that was current
\* since some instant loses that.
LEMMA SaveKeepsCurrent ==
    ASSUME NEW m \in Market, NEW v, BackingSaves(m, v), now \in Nat,
           NEW k \in CacheKey, NEW val, NEW at \in Int, at <= now,
           CurrentSince(k, val, at)
    PROVE  CurrentSince(k, val, at)'
<1>1. CASE val = Current(k, ver')
  BY <1>1 DEF CurrentSince
<1>2. CASE val = Current(k, ver) /\ val # Current(k, ver')
  <2> DEFINE old == [key |-> k, val |-> Current(k, ver), at |-> now]
  <2>1. old \in retired'
    BY <1>2 DEF BackingSaves
  <2> QED BY <1>2, <2>1 DEF CurrentSince
<1>3. CASE \E r \in retired : r.key = k /\ r.val = val /\ r.at >= at
  BY <1>3 DEF CurrentSince, BackingSaves
<1> QED BY <1>1, <1>2, <1>3 DEF CurrentSince

LEMMA SaveStep ==
    ASSUME CacheInv, NEW m \in Market, NEW v, BackingSaves(m, v) PROVE CacheInv'
<1> USE CacheConstants DEF CacheInv
<1>1. UNCHANGED <<now, cache, reading>>
  BY DEF BackingSaves
<1>2. CacheTypeOK'
  BY <1>1 DEF CacheTypeOK, BackingSaves
<1>3. EntryFresh'
  <2> SUFFICES ASSUME NEW k \in DOMAIN cache
               PROVE  CurrentSince(k, cache[k].val, cache[k].expires - TTL - MaxFill)'
    BY <1>1 DEF EntryFresh
  <2> QED BY <1>1, SaveKeepsCurrent DEF EntryFresh, CacheTypeOK
<1>4. ReaderFresh'
  <2> SUFFICES ASSUME NEW r \in Reader, reading[r].busy
               PROVE  CurrentSince(reading[r].key, reading[r].val, reading[r].at)'
    BY <1>1 DEF ReaderFresh
  <2> QED BY <1>1, SaveKeepsCurrent DEF ReaderFresh, CacheTypeOK
<1> QED BY <1>2, <1>3, <1>4

\* A step that leaves store and clock alone leaves what was current so.
LEMMA StoreAlone ==
    ASSUME UNCHANGED <<ver, retired>>
    PROVE  \A k, val, at : CurrentSince(k, val, at)' <=> CurrentSince(k, val, at)
  BY DEF CurrentSince

\* Deleting keys, or failing to, keeps the other entries.
LEMMA DeleteStep ==
    ASSUME CacheInv,
           (\E m \in Market, first \in Side : CacheDeletes(m, first)) \/ CacheDeleteFails
    PROVE  CacheInv'
<1> USE CacheConstants DEF CacheInv
<1>1. /\ UNCHANGED <<now, ver, reading, retired>>
      /\ DOMAIN cache' \subseteq DOMAIN cache
      /\ \A k \in DOMAIN cache' : cache'[k] = cache[k]
  BY DEF CacheDeletes, CacheDeleteFails, Without
<1>2. CacheTypeOK'
  BY <1>1 DEF CacheTypeOK
<1>3. EntryFresh' /\ ReaderFresh'
  BY <1>1, StoreAlone DEF EntryFresh, ReaderFresh
<1> QED BY <1>2, <1>3

\* A read takes what is current, and a fill gives the entry the life TTL.
LEMMA ReaderStep ==
    ASSUME CacheInv, NEW r \in Reader, ReadBacking(r) \/ FillCache(r) \/ FillFails(r)
    PROVE  CacheInv'
<1> USE CacheConstants DEF CacheInv
<1>1. UNCHANGED <<now, ver, retired>>
  BY DEF ReadBacking, FillCache, FillFails
<1>2. CASE ReadBacking(r)
  <2> PICK k \in CacheKey : reading' = [reading EXCEPT ![r] = Fill(k, Current(k, ver))]
    BY <1>2 DEF ReadBacking
  <2>1. CacheTypeOK'
    BY <1>1, <1>2 DEF CacheTypeOK, ReadBacking, Fill
  <2>2. EntryFresh'
    BY <1>1, <1>2, StoreAlone DEF EntryFresh, ReadBacking
  <2>3. ReaderFresh'
    BY <1>1, StoreAlone DEF ReaderFresh, CacheTypeOK, Fill, CurrentSince
  <2> QED BY <2>1, <2>2, <2>3
<1>3. CASE FillCache(r)
  <2> DEFINE k == reading[r].key
  <2>1. /\ DOMAIN cache' = DOMAIN cache \union {k}
        /\ cache'[k] = [val |-> reading[r].val, expires |-> now + TTL]
        /\ \A l \in DOMAIN cache \ {k} : cache'[l] = cache[l]
        /\ reading' = [reading EXCEPT ![r] = None]
    BY <1>3 DEF FillCache, Expiry
  <2>2. reading[r].busy /\ k \in CacheKey
    BY <1>3 DEF FillCache, CacheTypeOK
  <2>3. CacheTypeOK'
    BY <1>1, <2>1, <2>2 DEF CacheTypeOK, None
  <2>4. CurrentSince(k, reading[r].val, now - MaxFill)
    BY <2>2 DEF ReaderFresh, CurrentSince, CacheTypeOK
  <2>5. EntryFresh'
    BY <1>1, <2>1, <2>4, StoreAlone DEF EntryFresh, CacheTypeOK
  <2>6. ReaderFresh'
    BY <1>1, <2>1, StoreAlone DEF ReaderFresh, CacheTypeOK, None
  <2> QED BY <2>3, <2>5, <2>6
<1>4. CASE FillFails(r)
  BY <1>1, <1>4, StoreAlone DEF FillFails, CacheTypeOK, EntryFresh, ReaderFresh, None
<1> QED BY <1>2, <1>3, <1>4

\* Time passes: entries whose time is over go, and no reader takes too long.
LEMMA TickStep == ASSUME CacheInv, Tick PROVE CacheInv'
<1> USE CacheConstants DEF CacheInv
<1>1. /\ UNCHANGED <<ver, reading, retired>> /\ now' = now + 1
      /\ DOMAIN cache' \subseteq DOMAIN cache
      /\ \A k \in DOMAIN cache' : cache'[k] = cache[k] /\ ~(cache[k].expires <= now)
      /\ \A r \in Reader : reading[r].busy => now - reading[r].at < MaxFill
  BY DEF Tick, Without
<1>2. CacheTypeOK'
  BY <1>1 DEF CacheTypeOK
<1>3. EntryFresh'
  BY <1>1, StoreAlone DEF EntryFresh, CacheTypeOK
<1>4. ReaderFresh'
  BY <1>1, StoreAlone DEF ReaderFresh, CacheTypeOK
<1> QED BY <1>2, <1>3, <1>4

LEMMA CacheInvariant == CacheSpec => []CacheInv
<1>1. CacheInv /\ [CacheNext]_cacheVars => CacheInv'
  <2> SUFFICES ASSUME CacheInv, [CacheNext]_cacheVars PROVE CacheInv'
    OBVIOUS
  <2>1. CASE UNCHANGED cacheVars
    BY <2>1, StoreAlone DEF cacheVars, CacheInv, CacheTypeOK, EntryFresh, ReaderFresh
  <2> QED BY <2>1, SaveStep, DeleteStep, ReaderStep, TickStep DEF CacheNext
<1> QED BY <1>1, CacheStart, PTL DEF CacheSpec

-----------------------------------------------------------------------------
(* The cache: theorems *)

\* However reads, saves and fills interleave, and whichever deletion is lost,
\* a cached value was current at most TTL + MaxFill ago (store.go:39-43).
THEOREM StalenessCorrect == CacheSpec => []BoundedStaleness
<1>1. CacheInv => BoundedStaleness
  BY CacheConstants DEF CacheInv, CacheTypeOK, EntryFresh, CurrentSince, BoundedStaleness
<1> QED BY <1>1, CacheInvariant, PTL
=============================================================================
