---------------------------- MODULE CSVBetStore ----------------------------
(***************************************************************************)
(* CSVBetStore (internal/bettracking/csv.go): a BetStore in one CSV file.  *)
(* Save reads the whole file and appends a row; Update, Resolve and        *)
(* ResolveCLV read it, write a temporary file and rename that over it.     *)
(* One mutex covers every method, so one method runs at a time; a method   *)
(* is several steps because it may fail, or the process die, between two   *)
(* calls of the operating system.                                          *)
(*                                                                         *)
(* A bet is its id, status and CLV; the money columns, which are rounded   *)
(* to four places, are left out.  A write that fails may leave a part of   *)
(* its row.  Pages lost by the machine (nothing is synced), a header cut   *)
(* short, and a row cut short in a file that has no header, are left out.  *)
(***************************************************************************)
EXTENDS Naturals, Sequences, FiniteSets

CONSTANTS Id,           \* bet IDs
          MaxFaults     \* bound: failed calls and crashes

ASSUME CSVConstants == MaxFaults \in Nat

Status == {"open", "won", "lost"}
Bet == [id : Id, status : Status, clv : {"none", "some"}]
Absent == [status |-> "absent"]     \* what an ID that is not stored stands for

VARIABLES header,   \* "absent": no file, "empty": no header, "written"
          rows,     \* complete rows of the file
          tail,     \* how it ends: "clean", "short", "unended" or "merged"
          tmp,      \* path.tmp: "absent", "part", or "full" of the rewrite
          opened,   \* has NewCSVBetStore returned a store to this process?
          op,       \* the method that holds the mutex
          allowed,  \* id -> states its replies so far leave possible
          spoiled,  \* was a row ever appended where a reader will miss it?
          faults

file == <<header, rows, tail>>
vars == <<file, tmp, opened, op, allowed, spoiled, faults>>

\* The stages of Save, and of the methods that rewrite the file.
Idle == [kind |-> "idle"]
Saving == {"append", "close"}
Rewriting == {"rewrite", "rows", "rename"}

Init ==
    /\ header = "absent" /\ rows = <<>> /\ tail = "clean"
    /\ tmp = "absent"
    /\ opened = FALSE /\ op = Idle
    /\ allowed = [i \in Id |-> {Absent}]
    /\ spoiled = FALSE
    /\ faults = 0

Fault == faults < MaxFaults /\ faults' = faults + 1

-----------------------------------------------------------------------------
(* readAll *)

\* A row with too few or too many columns fails the whole file.
Readable == tail \in {"clean", "unended"}

\* The rows readAll returns: the first record is skipped as the header,
\* whether it is one or not.  A last row that only misses its newline counts.
Visible ==
    IF header = "written" \/ rows = <<>> THEN rows ELSE Tail(rows)

Stored(i) ==
    LET found == {n \in 1 .. Len(Visible) : Visible[n].id = i} IN
    IF found = {} THEN Absent ELSE Visible[CHOOSE n \in found : TRUE]

-----------------------------------------------------------------------------
(* NewCSVBetStore *)

OpenExisting ==
    /\ ~opened /\ op = Idle /\ header # "absent"
    /\ opened' = TRUE
    /\ UNCHANGED <<file, tmp, op, allowed, spoiled, faults>>

CreateFile ==
    /\ ~opened /\ op = Idle /\ header = "absent"
    /\ header' = "empty"
    /\ op' = [kind |-> "new"]
    /\ UNCHANGED <<rows, tail, tmp, opened, allowed, spoiled, faults>>

WriteHeader ==
    /\ op.kind = "new"
    /\ header' = "written"
    /\ op' = Idle /\ opened' = TRUE
    /\ UNCHANGED <<rows, tail, tmp, allowed, spoiled, faults>>

\* The header is not written: New returns the error and leaves the file.
HeaderFails ==
    /\ Fault
    /\ op.kind = "new"
    /\ op' = Idle
    /\ UNCHANGED <<file, tmp, opened, allowed, spoiled>>

-----------------------------------------------------------------------------
(* Save *)

\* From here on until the reply, the bet may have been stored or not.
Begin(kind, bet) ==
    /\ opened /\ op = Idle /\ Readable
    /\ op' = [kind |-> kind, bet |-> bet]
    /\ allowed' = [allowed EXCEPT ![bet.id] = @ \union {bet}]
    /\ UNCHANGED <<file, tmp, opened, spoiled, faults>>

BeginSaveUnchecked(bet) == Begin("append", bet)
BeginSave(bet) == Stored(bet.id) = Absent /\ Begin("append", bet)

\* The row is appended: behind a row without its newline it becomes part of
\* that row, and in a file without a header it takes the header's place.
AppendRow ==
    /\ op.kind = "append"
    /\ IF tail = "unended"
       THEN tail' = "merged" /\ UNCHANGED rows
       ELSE rows' = Append(rows, op.bet) /\ UNCHANGED tail
    /\ spoiled' = (spoiled \/ tail = "unended" \/ header = "empty")
    /\ op' = [op EXCEPT !.kind = "close"]
    /\ UNCHANGED <<header, tmp, opened, allowed, faults>>

\* The append fails: nothing is written, or some of the row, or all of it but
\* the newline.
AppendFails ==
    /\ Fault
    /\ op.kind = "append"
    /\ \/ UNCHANGED <<rows, tail, spoiled>>
       \/ /\ header = "written" /\ tail = "clean"
          /\ tail' = "short"
          /\ UNCHANGED <<rows, spoiled>>
       \/ /\ header = "written" /\ tail = "clean"
          /\ tail' = "unended"
          /\ rows' = Append(rows, op.bet)
          /\ UNCHANGED spoiled
       \/ /\ tail = "unended"
          /\ tail' = "merged" /\ spoiled' = TRUE
          /\ UNCHANGED rows
    /\ op' = Idle
    /\ UNCHANGED <<header, tmp, opened, allowed>>

\* The method returns nil.
Acknowledge ==
    /\ allowed' = [allowed EXCEPT ![op.bet.id] = {op.bet}]
    /\ op' = Idle

CloseRow ==
    /\ op.kind = "close"
    /\ Acknowledge
    /\ UNCHANGED <<file, tmp, opened, spoiled, faults>>

CloseFails ==
    /\ Fault
    /\ op.kind = "close"
    /\ op' = Idle
    /\ UNCHANGED <<file, tmp, opened, allowed, spoiled>>

-----------------------------------------------------------------------------
(* Update, Resolve, ResolveCLV *)

\* Update replaces a stored bet by any other with its ID.
Update(bet) == Stored(bet.id) # Absent /\ Begin("rewrite", bet)

\* Resolve sets the status, whatever it was.
Resolve(i, won) ==
    /\ Stored(i) # Absent
    /\ Begin("rewrite", [Stored(i) EXCEPT !.status = IF won THEN "won" ELSE "lost"])

ResolveCLV(i) ==
    /\ Stored(i) # Absent
    /\ Begin("rewrite", [Stored(i) EXCEPT !.clv = "some"])

\* The rows that writeAll writes: the bet replaces its old state in place.
Rewritten ==
    LET first == CHOOSE n \in 1 .. Len(Visible) :
                    /\ Visible[n].id = op.bet.id
                    /\ \A m \in 1 .. n - 1 : Visible[m].id # op.bet.id
    IN [Visible EXCEPT ![first] = op.bet]

\* writeAll creates path.tmp, or empties the one that an earlier call left.
CreateTmp ==
    /\ op.kind = "rewrite"
    /\ tmp' = "part"
    /\ op' = [op EXCEPT !.kind = "rows"]
    /\ UNCHANGED <<file, opened, allowed, spoiled, faults>>

\* Header and rows are written and flushed, and the file is closed.
WriteTmp ==
    /\ op.kind = "rows"
    /\ tmp' = "full"
    /\ op' = [op EXCEPT !.kind = "rename"]
    /\ UNCHANGED <<file, opened, allowed, spoiled, faults>>

\* One call replaces the file, header included.
RenameForgotten ==
    /\ op.kind = "rename"
    /\ Acknowledge
    /\ UNCHANGED <<file, tmp, opened, spoiled, faults>>
RenameTmp ==
    /\ op.kind = "rename"
    /\ header' = "written" /\ rows' = Rewritten /\ tail' = "clean"
    /\ tmp' = "absent"
    /\ Acknowledge
    /\ UNCHANGED <<opened, spoiled, faults>>

\* Any of the calls fails.  A failed write removes path.tmp if it can; a
\* failed rename leaves it.
RewriteFails ==
    /\ Fault
    /\ op.kind \in Rewriting
    /\ IF op.kind = "rows" THEN tmp' \in {"absent", "part"} ELSE UNCHANGED tmp
    /\ op' = Idle
    /\ UNCHANGED <<file, opened, allowed, spoiled>>

-----------------------------------------------------------------------------
\* The process dies, with or without a method under way, and is started again.
Crash ==
    /\ Fault
    /\ opened' = FALSE /\ op' = Idle
    /\ UNCHANGED <<file, tmp, allowed, spoiled>>

New == OpenExisting \/ CreateFile \/ WriteHeader \/ HeaderFails

Save == (\E bet \in Bet : BeginSave(bet)) \/ AppendRow \/ AppendFails \/ CloseRow \/ CloseFails

Rewrite ==
    \/ \E bet \in Bet : Update(bet)
    \/ \E i \in Id : (\E won \in BOOLEAN : Resolve(i, won)) \/ ResolveCLV(i)
    \/ CreateTmp \/ WriteTmp \/ RenameTmp \/ RewriteFails

Next == New \/ Save \/ Rewrite \/ Crash

Spec == Init /\ [][Next]_vars

-----------------------------------------------------------------------------
(* Properties *)

\* Whatever fails and whenever the process dies, the file holds each bet in
\* the state the last call that returned nil left it in, or in that of a later
\* call that did not (csv.go:51-81, 244-246).  Two defects of the file end
\* this, and spoiled tells them: a file whose header was never written, and a
\* row that was left without its newline and then appended to.
AckedKept == ~spoiled => \A i \in Id : Stored(i) \in allowed[i]

\* Every call changes the bets as a whole or not at all: at no instant, of a
\* crash or not, does a reader of the file see half a rewrite, a lost row, or
\* two rows with one ID (csv.go:244-246).
Store == INSTANCE BetStore WITH bets <- Visible
StoreSpec == Store!Spec
=============================================================================
