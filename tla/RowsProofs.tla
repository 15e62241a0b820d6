------------------------------ MODULE RowsProofs -------------------------------
(***************************************************************************)
(* Proofs about Rows: for results of any shape and every choice of what    *)
(* may end early, the connection is released once, the driver is left      *)
(* alone after that, and nothing but a context disturbs a row.             *)
(***************************************************************************)
EXTENDS Rows, TLAPS

Labels ==
  {"columns", "types", "next", "reading", "close", "after", "scan", "copy", "more",
   "moving", "closeset", "err", "finish", "end", "fatal"}

(* TypeOK without the rows and their numbers, which ReadTyped is about.    *)
ControlTyped ==
  /\ program \in {"loop", "row", "crows"} /\ result \in Seq(Nat)
  /\ pc \in Labels
  /\ at \in Nat \ {0}
  /\ lasterr \in {"nil", "eof", "drv", "ctx"}
  /\ closed \in BOOLEAN /\ stale \in BOOLEAN
  /\ lease \in {"held", "good", "bad"} /\ releases \in Nat
  /\ ctx \in {"live", "ended"} /\ txctx \in {"live", "ended"}

(* While both contexts live, a delivered row finds open Rows without an   *)
(* error, because only the application could have closed them.            *)
Undisturbed ==
  ctx = "live" /\ txctx = "live" =>
    ~stale /\ blank = {} /\ (pc \in {"scan", "copy"} => ~closed /\ lasterr = "nil")

(* convertTocRows never moves to another set, and where a result has one  *)
(* set the end of the set has closed the Rows.                            *)
CRowsPath ==
  program = "crows" =>
    /\ pc \notin {"more", "moving", "closeset", "err"}
    /\ Len(result) = 1 /\ pc \in {"after", "finish"} => closed

Inv ==
  /\ ControlTyped /\ ReleasedOnce /\ DriverQuiet
  /\ Undisturbed /\ CRowsPath /\ ClosedAtEnd

(* The inductive invariant holds for Rows that have just been made.       *)
LEMMA InitInv == Init => Inv
<1> SUFFICES ASSUME Init PROVE Inv
  OBVIOUS
<1>1. ControlTyped
  <2>1. Programs \subseteq {"loop", "row", "crows"} /\ Results \subseteq Seq(Nat)
    BY RowsAssumption DEF RowsAssumption
  <2>2. program \in {"loop", "row", "crows"} /\ result \in Seq(Nat)
    BY <2>1 DEF Init
  <2>3. pc \in Labels
    BY DEF Init, Labels
  <2>4. closed \in BOOLEAN /\ stale \in BOOLEAN
    BY DEF Init
  <2>5. at \in Nat \ {0} /\ releases \in Nat
    BY DEF Init
  <2>6. lease = "held" /\ lasterr = "nil" /\ ctx = "live" /\ txctx = "live"
    BY DEF Init
  <2> QED
    BY <2>2, <2>3, <2>4, <2>5, <2>6 DEF ControlTyped
<1>2. ReleasedOnce /\ DriverQuiet /\ Undisturbed /\ CRowsPath /\ ClosedAtEnd
  BY DEF Init, ReleasedOnce, DriverQuiet, Undisturbed, CRowsPath, ClosedAtEnd, ReadLocked
<1> QED
  BY <1>1, <1>2 DEF Inv

(* Closing releases the connection if that has not been done, and changes *)
(* nothing otherwise.                                                     *)
LEMMA CloseReleasesOnce ==
  ASSUME ControlTyped, ReleasedOnce, NEW err \in {"nil", "eof", "drv", "ctx"}, CloseWith(err)
  PROVE  /\ closed' = TRUE /\ ReleasedOnce'
         /\ lease' \in {"held", "good", "bad"} /\ releases' \in Nat
         /\ lasterr' \in {"nil", "eof", "drv", "ctx"}
         /\ closed => lasterr' = lasterr
         /\ err = "nil" => lasterr' = lasterr
  BY DEF ControlTyped, ReleasedOnce, CloseWith, closing

(* Every step of the application, awaitDone and the contexts keeps the    *)
(* inductive invariant.                                                   *)
LEMMA NextInv == Inv /\ [RowsNext]_rowsVars => Inv'
<1> SUFFICES ASSUME Inv, [RowsNext]_rowsVars PROVE Inv'
  OBVIOUS
<1> USE DEF Inv, ControlTyped, Labels, DriverQuiet, Undisturbed, CRowsPath, ClosedAtEnd,
            ReadLocked, Goto, cursor, closing, outside, seen
<1>1. CASE NextRow
  BY <1>1 DEF NextRow, Keep, ReleasedOnce
<1>2. CASE ReadRow
  BY <1>2 DEF ReadRow, ReleasedOnce
<1>3. CASE ReadEnd
  <2>1. Len(result) = 1 => ~MoreSets
    BY DEF MoreSets
  <2> QED
    BY <1>3, <2>1 DEF ReadEnd, ReleasedOnce
<1>4. CASE ReadFails
  BY <1>4 DEF ReadFails, ReleasedOnce
<1>5. CASE NextClose
  BY <1>5, CloseReleasesOnce DEF NextClose
<1>6. CASE After
  BY <1>6 DEF After, Keep, ReleasedOnce
<1>7. CASE Scan
  BY <1>7 DEF Scan, Keep, Err, ReleasedOnce
<1>8. CASE ScanCopy
  BY <1>8 DEF ScanCopy, ReleasedOnce
<1>9. CASE NextResultSet
  BY <1>9 DEF NextResultSet, Keep, ReleasedOnce
<1>10. CASE MoveOn
  BY <1>10 DEF MoveOn, ReleasedOnce
<1>11. CASE MoveFails
  BY <1>11 DEF MoveFails, ReleasedOnce
<1>12. CASE CloseSet
  BY <1>12, CloseReleasesOnce DEF CloseSet
<1>13. CASE Columns
  BY <1>13 DEF Columns, Keep, ReleasedOnce
<1>14. CASE AskErr
  BY <1>14 DEF AskErr, ReleasedOnce
<1>15. CASE Finish
  BY <1>15, CloseReleasesOnce DEF Finish
<1>16. CASE ReturnCRows
  BY <1>16 DEF ReturnCRows, ReleasedOnce
<1>17. CASE AwaitDone
  BY <1>17, CloseReleasesOnce, ZenonT(60) DEF AwaitDone, CtxDone
<1>18. CASE CtxEnds
  BY <1>18 DEF CtxEnds, ReleasedOnce
<1>19. CASE TxEnds
  BY <1>19 DEF TxEnds, ReleasedOnce
<1>20. CASE UNCHANGED rowsVars
  BY <1>20 DEF rowsVars, ReleasedOnce
<1> QED
  BY <1>1, <1>2, <1>3, <1>4, <1>5, <1>6, <1>7, <1>8, <1>9, <1>10, <1>11, <1>12, <1>13,
     <1>14, <1>15, <1>16, <1>17, <1>18, <1>19, <1>20 DEF RowsNext, Application

(* Rows keep their inductive invariant for ever.                          *)
LEMMA InvAlways == Spec => []Inv
  BY InitInv, NextInv, PTL DEF Spec

(* The connection goes back when the Rows close, and only once, whoever   *)
(* of the application and awaitDone is first.                             *)
THEOREM RowsReleasedOnce == Spec => []ReleasedOnce
<1>1. Inv => ReleasedOnce
  BY DEF Inv
<1> QED
  BY InvAlways, <1>1, PTL

(* No call of the driver runs on Rows that are closed.                    *)
THEOREM RowsDriverQuiet == Spec => []DriverQuiet
<1>1. Inv => DriverQuiet
  BY DEF Inv
<1> QED
  BY InvAlways, <1>1, PTL

(* An application that has finished has given the connection back, but    *)
(* for convertTocRows with a result of several sets.                      *)
THEOREM RowsClosedAtEnd == Spec => []ClosedAtEnd
<1>1. Inv => ClosedAtEnd
  BY DEF Inv
<1> QED
  BY InvAlways, <1>1, PTL

(* A row that the driver has delivered is scanned from valid memory       *)
(* unless a context has ended.                                            *)
THEOREM RowsOnlyContextsInterfere == Spec => []OnlyContextsInterfere
<1>1. Inv => OnlyContextsInterfere
  BY DEF Inv, ControlTyped, Undisturbed, OnlyContextsInterfere
<1> QED
  BY InvAlways, <1>1, PTL

(* The error of closed Rows never changes: those who close find them      *)
(* closed, and those who read hold the lock that closing needs.           *)
LEMMA StepKeepsErr ==
  Inv /\ [RowsNext]_rowsVars => [closed => lasterr' = lasterr]_rowsVars
<1> SUFFICES ASSUME Inv, RowsNext, closed PROVE lasterr' = lasterr
  OBVIOUS
<1> USE DEF Inv, DriverQuiet, ReadLocked, cursor, CloseWith
<1>1. CASE NextRow \/ After \/ NextResultSet \/ Columns
  BY <1>1 DEF NextRow, After, NextResultSet, Columns, Keep
<1>2. CASE ReadRow \/ ReadEnd \/ ReadFails \/ MoveOn \/ MoveFails
  BY <1>2 DEF ReadRow, ReadEnd, ReadFails, MoveOn, MoveFails
<1>3. CASE NextClose \/ CloseSet \/ Finish \/ AwaitDone
  BY <1>3 DEF NextClose, CloseSet, Finish, AwaitDone
<1>4. CASE Scan \/ ScanCopy \/ AskErr \/ ReturnCRows \/ CtxEnds \/ TxEnds
  BY <1>4 DEF Scan, ScanCopy, AskErr, ReturnCRows, CtxEnds, TxEnds, Keep
<1> QED
  BY <1>1, <1>2, <1>3, <1>4 DEF RowsNext, Application

(* "Close is idempotent and does not affect the result of Err", nor does  *)
(* anything else once the Rows are closed.                                *)
THEOREM RowsErrKept == Spec => ErrKept
  BY InvAlways, StepKeepsErr, PTL DEF Spec, ErrKept

-------------------------------------------------------------------------------
(* What the application has read, and what it may conclude from it.       *)

ReadTyped ==
  /\ program \in Programs /\ result \in Results
  /\ at \in 1..Len(result) /\ pos \in 0..result[at]
  /\ pc \in {"scan", "copy"} => pos > 0
  /\ got \cup blank \subseteq AllRows
  /\ report \in {"none", "complete", "error"}

(* The rows up to the one at which the driver is.                         *)
Delivered == {r \in AllRows : r[1] < at \/ (r[1] = at /\ r[2] <= pos)}

SetRead == pos = result[at] /\ got = Delivered

(* The loop and Row.Scan have every row that the driver has delivered,    *)
(* but for the one that they are about to scan.                           *)
Progress ==
  program # "crows" =>
    /\ pc \notin {"columns", "types"}
    /\ pc \in {"next", "reading"} => got = Delivered
    /\ pc \in {"scan", "copy"} => got = Delivered \ {<<at, pos>>}
    /\ pc \in {"after", "more", "moving"} /\ ~closed =>
         MoreSets /\ SetRead /\ lasterr = "eof"
    /\ pc = "close" => lasterr = "drv" \/ (~MoreSets /\ SetRead /\ lasterr = "eof")
    /\ pc = "closeset" => lasterr = "drv"

(* Row.Scan reads one row of the first set.                               *)
OneRow ==
  program = "row" =>
    /\ at = 1 /\ pc \notin {"more", "moving", "closeset"}
    /\ pc \notin {"scan", "copy", "finish", "end"} => pos = 0 /\ got = {}
    /\ pc \in {"scan", "copy"} => pos = 1

(* What the code can tell apart: not the end of the transaction, nor a    *)
(* context that ends between two result sets.                             *)
Reported == txctx = "live" /\ (ctx = "live" \/ Len(result) = 1)

(* The error is nil while rows are read, and awaitDone replaces it: Err   *)
(* is nil for closed Rows only when all of them have been read.           *)
Settled ==
  program # "crows" =>
    /\ ~closed /\ pc \in {"next", "reading", "scan", "copy"} => lasterr = "nil"
    /\ closed /\ Reported /\ pc \in {"next", "scan", "copy"} => lasterr = "ctx"
    /\ Reported /\ Err = "nil" =>
         /\ closed /\ pc \in {"after", "more"} => got = Wanted
         /\ pc = "err" => got = Wanted

Answer ==
  program # "crows" =>
    /\ report # "none" => pc \in {"finish", "end"}
    /\ program = "row" /\ report = "none" /\ pc \in {"finish", "end"} => got = Wanted
    /\ report = "complete" /\ Reported => got = Wanted

ReadInv == ReadTyped /\ Progress /\ OneRow /\ Settled /\ Answer

LEMMA ResultTyped ==
  ReadTyped => /\ result \in Seq(Nat) /\ Len(result) \in Nat \ {0}
               /\ \A k \in 1..Len(result) : result[k] \in Nat
               /\ at \in Nat \ {0} /\ pos \in Nat /\ result[at] \in Nat
  BY RowsAssumption DEF ReadTyped

(* A row is its set and its number in it.                                 *)
LEMMA RowOf ==
  ASSUME ReadTyped
  PROVE  /\ \A r \in AllRows : r = <<r[1], r[2]>>
         /\ \A k, i : <<k, i>> \in AllRows <=> k \in 1..Len(result) /\ i \in 1..result[k]
         /\ \A r \in AllRows : r[1] \in Nat /\ r[2] \in Nat \ {0}
<1>1. \A k, i : <<k, i>> \in AllRows <=> k \in 1..Len(result) /\ i \in 1..result[k]
  <2> TAKE k, i
  <2>1. <<k, i>> \in AllRows <=>
          \E l \in 1..Len(result) : <<k, i>> \in {l} \X (1..result[l])
    BY DEF AllRows
  <2> QED
    BY <2>1
<1>2. ASSUME NEW r \in AllRows PROVE r = <<r[1], r[2]>>
  <2>1. PICK k \in 1..Len(result) : r \in {k} \X (1..result[k])
    BY DEF AllRows
  <2> QED
    BY <2>1
<1>3. \A r \in AllRows : r[1] \in Nat /\ r[2] \in Nat \ {0}
  <2> TAKE r \in AllRows
  <2>1. r[1] \in 1..Len(result) /\ r[2] \in 1..result[r[1]]
    BY <1>1, <1>2
  <2> QED
    BY <2>1, ResultTyped
<1> QED
  BY <1>1, <1>2, <1>3

(* At the end of the last set every row has been delivered.               *)
LEMMA AllDelivered ==
  ASSUME ReadTyped, ~MoreSets, pos = result[at]
  PROVE  Delivered = AllRows
<1> SUFFICES ASSUME NEW r \in AllRows PROVE r[1] < at \/ (r[1] = at /\ r[2] <= pos)
  BY DEF Delivered
<1>1. at = Len(result)
  BY ResultTyped DEF MoreSets, ReadTyped
<1>2. <<r[1], r[2]>> \in AllRows
  BY RowOf
<1>3. r[1] \in 1..Len(result) /\ r[2] \in 1..result[r[1]]
  BY <1>2, RowOf
<1> QED
  BY <1>1, <1>3, ResultTyped

LEMMA NoneDelivered ==
  ASSUME ReadTyped, at = 1, pos = 0
  PROVE  Delivered = {}
<1> SUFFICES ASSUME NEW r \in AllRows PROVE ~(r[1] < 1 \/ (r[1] = 1 /\ r[2] <= 0))
  BY DEF Delivered
<1>1. <<r[1], r[2]>> \in AllRows
  BY RowOf
<1>2. r[1] \in 1..Len(result) /\ r[2] \in Nat \ {0}
  BY <1>1, RowOf
<1> QED
  BY <1>2, ResultTyped

(* The driver delivers the next row.                                      *)
LEMMA RowDelivered ==
  ASSUME ReadTyped, pos < result[at], pos' = pos + 1, UNCHANGED <<at, result>>
  PROVE  <<at, pos>>' \in AllRows /\ Delivered = Delivered' \ {<<at, pos>>'}
<1>1. <<at, pos + 1>> \in AllRows /\ AllRows' = AllRows
  <2>1. at \in 1..Len(result) /\ pos + 1 \in 1..result[at]
    BY ResultTyped DEF ReadTyped
  <2> QED
    BY <2>1, RowOf DEF AllRows
<1>2. ASSUME NEW r \in AllRows
      PROVE  (r[1] < at \/ (r[1] = at /\ r[2] <= pos))
             <=> (r[1] < at \/ (r[1] = at /\ r[2] <= pos + 1)) /\ r # <<at, pos + 1>>
  <2>1. r = <<r[1], r[2]>> /\ r[1] \in Nat /\ r[2] \in Nat
    BY RowOf
  <2>2. r = <<at, pos + 1>> <=> r[1] = at /\ r[2] = pos + 1
    BY <2>1
  <2> QED
    BY <2>1, <2>2, ResultTyped
<1>3. Delivered' = {r \in AllRows : r[1] < at \/ (r[1] = at /\ r[2] <= pos + 1)}
  BY <1>1 DEF Delivered
<1> QED
  BY <1>1, <1>2, <1>3 DEF Delivered

(* The next set begins where this one ends.                               *)
LEMMA SetMoved ==
  ASSUME ReadTyped, pos = result[at], at' = at + 1, pos' = 0, result' = result
  PROVE  Delivered' = Delivered
<1>1. AllRows' = AllRows
  BY DEF AllRows
<1>2. ASSUME NEW r \in AllRows
      PROVE  (r[1] < at \/ (r[1] = at /\ r[2] <= pos))
             <=> (r[1] < at + 1 \/ (r[1] = at + 1 /\ r[2] <= 0))
  <2>1. <<r[1], r[2]>> \in AllRows /\ r[1] \in Nat /\ r[2] \in Nat \ {0}
    BY RowOf
  <2>2. r[2] \in 1..result[r[1]]
    BY <2>1, RowOf
  <2>3. r[1] = at => r[2] <= pos
    BY <2>2, ResultTyped
  <2> QED
    BY <2>1, <2>3, ResultTyped
<1> QED
  BY <1>1, <1>2 DEF Delivered

(* When the set is empty Row.Scan has what it wants.                      *)
LEMMA EmptySet ==
  ASSUME ReadTyped, OneRow, program = "row", pos = result[at],
         pc \notin {"scan", "copy", "finish", "end"}
  PROVE  got = Wanted
<1>1. at = 1 /\ pos = 0 /\ got = {} /\ result[1] = 0
  BY DEF OneRow
<1>2. <<1, 1>> \notin AllRows
  BY <1>1, RowOf
<1> QED
  BY <1>1, <1>2 DEF Wanted

(* When everything has been read the application has what it wants.       *)
LEMMA ReadAll ==
  ASSUME ReadTyped, OneRow, ~MoreSets, SetRead, pc \notin {"scan", "copy", "finish", "end"}
  PROVE  got = Wanted
<1>1. got = AllRows
  BY AllDelivered DEF SetRead
<1> QED
  BY <1>1, EmptySet DEF Wanted, SetRead

LEMMA ReadInit == Init => ReadInv
<1> SUFFICES ASSUME Init PROVE ReadInv
  OBVIOUS
<1>1. ReadTyped
  <2>1. result \in Seq(Nat) /\ Len(result) \in Nat \ {0}
    BY RowsAssumption DEF Init
  <2>2. result[1] \in Nat
    BY <2>1
  <2> QED
    BY <2>1, <2>2 DEF Init, ReadTyped
<1>2. Delivered = {}
  BY <1>1, NoneDelivered DEF Init
<1> QED
  BY <1>1, <1>2 DEF Init, ReadInv, Progress, OneRow, Settled, Answer

(* Closing changes no more of what has been read than the error.          *)
LEMMA CloseKeepsRead ==
  ASSUME ReadTyped, UNCHANGED <<at, pos, program, result, got, blank, report>>,
         pc' = pc \/ pc' \notin {"scan", "copy"}
  PROVE  /\ ReadTyped' /\ Delivered' = Delivered /\ AllRows' = AllRows
         /\ Wanted' = Wanted /\ MoreSets' = MoreSets /\ SetRead' = SetRead
  BY DEF ReadTyped, Delivered, AllRows, Wanted, MoreSets, SetRead

LEMMA ReadStep == Inv /\ ReadInv /\ [RowsNext]_rowsVars => ReadInv'
<1> SUFFICES ASSUME Inv, ReadInv, [RowsNext]_rowsVars PROVE ReadInv'
  OBVIOUS
<1> USE DEF ReadInv, Progress, OneRow, Settled, Answer, Goto, cursor, closing, outside, seen,
            Reported, Err
<1> ReadTyped
  OBVIOUS
<1>1. CASE NextRow
  <2>1. /\ ReadTyped' /\ Delivered' = Delivered /\ Wanted' = Wanted
    BY <1>1, CloseKeepsRead DEF NextRow, Keep
  <2> QED
    BY <1>1, <2>1 DEF NextRow, Keep
<1>2. CASE ReadRow
  <2>1. <<at, pos>>' \in AllRows /\ Delivered = Delivered' \ {<<at, pos>>'}
    BY <1>2, RowDelivered DEF ReadRow
  <2>2. ReadTyped' /\ Wanted' = Wanted
    BY <1>2, ResultTyped DEF ReadRow, ReadTyped, AllRows, Wanted
  <2> QED
    BY <1>2, <2>1, <2>2 DEF ReadRow, Inv, DriverQuiet, ReadLocked
<1>3. CASE ReadEnd
  <2>1. /\ ReadTyped' /\ Delivered' = Delivered /\ Wanted' = Wanted /\ MoreSets' = MoreSets
    BY <1>3, CloseKeepsRead DEF ReadEnd
  <2> QED
    BY <1>3, <2>1 DEF ReadEnd, Inv, DriverQuiet, ReadLocked, SetRead
<1>4. CASE ReadFails
  <2>1. /\ ReadTyped' /\ Delivered' = Delivered /\ Wanted' = Wanted
    BY <1>4, CloseKeepsRead DEF ReadFails
  <2> QED
    BY <1>4, <2>1 DEF ReadFails, Inv, DriverQuiet, ReadLocked
<1>5. CASE NextClose
  <2>1. /\ ReadTyped' /\ Delivered' = Delivered /\ Wanted' = Wanted
    BY <1>5, CloseKeepsRead DEF NextClose
  <2>2. closed' /\ pc' = "after" /\ pc = "close"
        /\ UNCHANGED <<at, pos, program, result, ctx, txctx, got, report>>
    BY <1>5 DEF NextClose, CloseWith
  <2>3. program # "crows" => lasterr' = lasterr
    BY <1>5 DEF NextClose, CloseWith
  <2>4. program # "crows" /\ lasterr # "drv" => got = Wanted
    BY <2>2, ReadAll
  <2>5. Progress' /\ OneRow'
    BY <2>1, <2>2
  <2>6. Settled'
    BY <2>1, <2>2, <2>3, <2>4
  <2>7. Answer'
    BY <2>1, <2>2
  <2> QED
    BY <2>1, <2>5, <2>6, <2>7
<1>6. CASE After
  <2>1. /\ ReadTyped' /\ Delivered' = Delivered /\ Wanted' = Wanted /\ MoreSets' = MoreSets
        /\ SetRead' = SetRead
    <3>1. pc' \in {"more", "err", "finish"}
      BY <1>6 DEF After, Keep, Inv, ControlTyped
    <3> QED
      BY <1>6, <3>1, CloseKeepsRead DEF After, Keep
  <2>2. program = "row" /\ ~closed => got = Wanted
    BY <1>6, EmptySet DEF After, SetRead
  <2> QED
    BY <1>6, <2>1, <2>2 DEF After, Keep, ReadTyped, Inv, ControlTyped
<1>7. CASE Scan
  <2>1. Delivered' = Delivered /\ Wanted' = Wanted /\ AllRows' = AllRows
    BY <1>7 DEF Scan, Keep, Delivered, Wanted, AllRows
  <2>2. ReadTyped'
    <3>1. <<at, pos>> \in AllRows
      <4>1. at \in 1..Len(result) /\ pos \in 1..result[at]
        BY <1>7, ResultTyped DEF ReadTyped, Scan
      <4> QED
        BY <4>1, RowOf
    <3> QED
      BY <1>7, <2>1, <3>1 DEF Scan, Keep, ReadTyped
  <2> QED
    BY <1>7, <2>1, <2>2 DEF Scan, Keep
<1>8. CASE ScanCopy
  <2>1. Delivered' = Delivered /\ Wanted' = Wanted /\ AllRows' = AllRows
    BY <1>8 DEF ScanCopy, Delivered, Wanted, AllRows
  <2>2. <<at, pos>> \in AllRows
    <3>1. at \in 1..Len(result) /\ pos \in 1..result[at]
      BY <1>8, ResultTyped DEF ReadTyped, ScanCopy
    <3> QED
      BY <3>1, RowOf
  <2>3. ReadTyped'
    BY <1>8, <2>1, <2>2 DEF ScanCopy, ReadTyped
  <2>4. <<at, pos>> \in Delivered
    BY <2>2, ResultTyped DEF Delivered
  <2>5. program # "crows" => got' = Delivered
    BY <1>8, <2>4 DEF ScanCopy
  <2>6. program = "row" => Wanted = {<<1, 1>>} /\ Delivered = {<<1, 1>>}
    <3> SUFFICES ASSUME program = "row"
                 PROVE  Wanted = {<<1, 1>>} /\ Delivered = {<<1, 1>>}
      OBVIOUS
    <3>1. at = 1 /\ pos = 1
      BY <1>8 DEF ScanCopy
    <3>2. ASSUME NEW r \in Delivered PROVE r = <<1, 1>>
      <4>1. r \in AllRows /\ (r[1] < 1 \/ (r[1] = 1 /\ r[2] <= 1))
        BY <3>1, <3>2 DEF Delivered
      <4>2. <<r[1], r[2]>> \in AllRows /\ r = <<r[1], r[2]>> /\ r[2] \in Nat \ {0}
        BY <4>1, RowOf
      <4>3. r[1] \in Nat \ {0}
        BY <4>2, RowOf, ResultTyped
      <4>4. r[1] = 1 /\ r[2] = 1
        BY <4>1, <4>2, <4>3
      <4> QED
        BY <4>2, <4>4
    <3> QED
      BY <2>2, <2>4, <3>1, <3>2 DEF Wanted
  <2> QED
    BY <1>8, <2>1, <2>3, <2>5, <2>6 DEF ScanCopy, ReadTyped
<1>9. CASE NextResultSet
  <2>1. /\ ReadTyped' /\ Delivered' = Delivered /\ Wanted' = Wanted /\ MoreSets' = MoreSets
        /\ SetRead' = SetRead
    BY <1>9, CloseKeepsRead DEF NextResultSet, Keep
  <2> QED
    BY <1>9, <2>1 DEF NextResultSet, Keep
<1>10. CASE MoveOn
  <2>1. at' \in 1..Len(result) /\ at' = at + 1 /\ result' = result
    BY <1>10, ResultTyped DEF MoveOn, MoreSets, ReadTyped
  <2>2. ReadTyped' /\ Wanted' = Wanted
    BY <1>10, <2>1, ResultTyped DEF MoveOn, ReadTyped, AllRows, Wanted
  <2>3. program # "crows" => SetRead
    BY <1>10 DEF MoveOn, Inv, DriverQuiet, ReadLocked
  <2>4. program # "crows" => got' = Delivered'
    BY <1>10, <2>3, SetMoved DEF MoveOn, SetRead
  <2> QED
    BY <1>10, <2>2, <2>4 DEF MoveOn, Inv, DriverQuiet, ReadLocked
<1>11. CASE MoveFails
  <2>1. /\ ReadTyped' /\ Delivered' = Delivered /\ Wanted' = Wanted
    BY <1>11, CloseKeepsRead DEF MoveFails
  <2> QED
    BY <1>11, <2>1 DEF MoveFails, Inv, DriverQuiet, ReadLocked
<1>12. CASE CloseSet
  <2>1. /\ ReadTyped' /\ Delivered' = Delivered /\ Wanted' = Wanted
    BY <1>12, CloseKeepsRead DEF CloseSet
  <2>2. program # "crows" => lasterr' = "drv"
    BY <1>12 DEF CloseSet, CloseWith
  <2> QED
    BY <1>12, <2>1, <2>2 DEF CloseSet
<1>13. CASE Columns
  <2>1. /\ ReadTyped' /\ Delivered' = Delivered /\ Wanted' = Wanted
    BY <1>13, CloseKeepsRead DEF Columns, Keep
  <2> QED
    BY <1>13, <2>1 DEF Columns, Keep
<1>14. CASE AskErr
  <2>1. Delivered' = Delivered /\ Wanted' = Wanted /\ ReadTyped'
    BY <1>14 DEF AskErr, Delivered, Wanted, AllRows, ReadTyped
  <2> QED
    BY <1>14, <2>1 DEF AskErr
<1>15. CASE Finish
  <2>1. Delivered' = Delivered /\ Wanted' = Wanted /\ ReadTyped'
    BY <1>15 DEF Finish, Delivered, Wanted, AllRows, ReadTyped
  <2>2. /\ pc = "finish" /\ pc' = "end" /\ program # "crows"
        /\ UNCHANGED <<at, pos, program, result, ctx, txctx, got>>
    BY <1>15 DEF Finish
  <2>3. /\ program = "loop" => report' = report
        /\ report # "none" => report' = report
        /\ report = "none" => program = "loop" \/ got = Wanted
    BY <1>15, <2>2 DEF Finish, Inv, ControlTyped
  <2>4. Progress' /\ OneRow' /\ Settled'
    BY <2>2
  <2>5. Answer'
    BY <2>1, <2>2, <2>3
  <2> QED
    BY <2>1, <2>4, <2>5
<1>16. CASE ReturnCRows
  <2>1. ReadTyped'
    BY <1>16 DEF ReturnCRows, ReadTyped, AllRows
  <2> QED
    BY <1>16, <2>1 DEF ReturnCRows
<1>17. CASE AwaitDone
  <2>1. /\ ReadTyped' /\ Delivered' = Delivered /\ Wanted' = Wanted
    BY <1>17, CloseKeepsRead DEF AwaitDone
  <2>2. /\ closed' /\ ~ReadLocked
        /\ UNCHANGED <<pc, at, pos, program, result, ctx, txctx, got, report>>
    BY <1>17 DEF AwaitDone, CloseWith
  <2>3. Reported => lasterr' = IF lasterr = "nil" /\ ~closed THEN "ctx" ELSE lasterr
    BY <1>17 DEF AwaitDone, CloseWith, CtxDone
  <2>4. ASSUME Reported, Err' = "nil", ~closed, pc \in {"after", "more"}, program # "crows"
        PROVE  got = Wanted
    <3>1. MoreSets /\ SetRead
      BY <2>4
    <3>2. ctx = "ended"
      BY <1>17, <2>4 DEF AwaitDone, CtxDone
    <3>3. Len(result) = 1
      BY <2>4, <3>2
    <3> QED
      BY <3>1, <3>3, ResultTyped DEF MoreSets
  <2>5. lasterr # "nil" => lasterr' = lasterr
    BY <1>17 DEF AwaitDone, CloseWith
  <2>6. Progress'
    BY <2>1, <2>2, <2>5 DEF MoreSets, SetRead, ReadLocked
  <2>7. OneRow' /\ Answer'
    BY <2>1, <2>2
  <2>8. Settled'
    BY <2>1, <2>2, <2>3, <2>4, <2>5 DEF ReadLocked
  <2> QED
    BY <2>1, <2>6, <2>7, <2>8
<1>18. CASE CtxEnds \/ TxEnds \/ UNCHANGED rowsVars
  <2>1. /\ ReadTyped' /\ Delivered' = Delivered /\ Wanted' = Wanted /\ MoreSets' = MoreSets
        /\ SetRead' = SetRead
    BY <1>18, CloseKeepsRead DEF CtxEnds, TxEnds, rowsVars
  <2>2. Reported' => Reported
    BY <1>18 DEF CtxEnds, TxEnds, rowsVars
  <2> QED
    BY <1>18, <2>1, <2>2 DEF CtxEnds, TxEnds, rowsVars
<1> QED
  BY <1>1, <1>2, <1>3, <1>4, <1>5, <1>6, <1>7, <1>8, <1>9, <1>10, <1>11, <1>12, <1>13,
     <1>14, <1>15, <1>16, <1>17, <1>18 DEF RowsNext, Application

LEMMA ReadAlways == Spec => []ReadInv
  BY InvAlways, ReadInit, ReadStep, PTL DEF Spec

(* The state of Rows is typed: the driver is at a row of the result, and  *)
(* the application has scanned rows of it.                                *)
THEOREM RowsTypeCorrect == Spec => []TypeOK
<1>1. Inv /\ ReadInv => TypeOK
  BY DEF Inv, ControlTyped, Labels, ReadInv, ReadTyped, TypeOK
<1> QED
  BY InvAlways, ReadAlways, <1>1, PTL

(* What the loop or Row.Scan reports as complete is complete, unless the  *)
(* transaction has ended, or the context between two result sets.         *)
THEOREM RowsTruncationReported == Spec => []TruncationReported
<1>1. ReadInv => TruncationReported
  BY DEF ReadInv, Answer, Reported, TruncationReported
<1> QED
  BY ReadAlways, <1>1, PTL

(* Closing gives the connection back when nobody uses it and that has not *)
(* been done, and leaves it alone otherwise.                              *)
LEMMA CloseGivesBack ==
  ASSUME ControlTyped, ReleasedOnce, ~ReadLocked, ~ReadLocked', NEW err, CloseWith(err)
  PROVE  [Borrowed!BorrowNext]_(Borrowed!borrowVars)
<1>1. CASE closed
  BY <1>1 DEF CloseWith, closing, Borrowed!borrowVars
<1>2. CASE ~closed
  BY <1>2 DEF CloseWith, ReleasedOnce, ControlTyped, Borrowed!BorrowNext, Borrowed!GiveBack
<1> QED
  BY <1>1, <1>2

(* A step of the application starts or ends a call of the driver, gives   *)
(* the connection back, or leaves it alone, and awaitDone gives it back   *)
(* only between two calls.                                                *)
LEMMA BorrowStep ==
  Inv /\ TypeOK /\ [RowsNext]_rowsVars => [Borrowed!BorrowNext]_(Borrowed!borrowVars)
<1> DEFINE Users == IF ReadLocked THEN {program} ELSE {}
<1> SUFFICES ASSUME Inv, TypeOK, [RowsNext]_rowsVars
             PROVE  [Borrowed!BorrowNext]_(Borrowed!borrowVars)
  OBVIOUS
<1>1. ControlTyped /\ ReleasedOnce /\ program \in Programs
  BY DEF Inv, TypeOK
<1>2. ASSUME UNCHANGED <<lease, releases, program>>, lease = "held" \/ ~ReadLocked'
      PROVE  [Borrowed!BorrowNext]_(Borrowed!borrowVars)
  <2>1. CASE ReadLocked <=> ReadLocked'
    BY <1>2, <2>1 DEF Borrowed!borrowVars
  <2>2. CASE ~ReadLocked /\ ReadLocked'
    BY <1>1, <1>2, <2>2 DEF Borrowed!BorrowNext, Borrowed!StartUse
  <2>3. CASE ReadLocked /\ ~ReadLocked'
    BY <1>1, <1>2, <2>3 DEF Borrowed!BorrowNext, Borrowed!EndUse
  <2> QED
    BY <2>1, <2>2, <2>3
<1>3. CASE NextRow \/ NextResultSet
  <2>1. UNCHANGED <<lease, releases, program>>
    BY <1>3 DEF NextRow, NextResultSet, Keep, closing, outside
  <2>2. closed => ~ReadLocked'
    BY <1>3 DEF NextRow, NextResultSet, Keep, Goto, ReadLocked
  <2> QED
    BY <1>1, <1>2, <2>1, <2>2 DEF ReleasedOnce
<1>4. CASE ReadRow \/ ReadEnd \/ ReadFails \/ MoveOn \/ MoveFails
  <2>1. UNCHANGED <<lease, releases, program>>
    BY <1>4 DEF ReadRow, ReadEnd, ReadFails, MoveOn, MoveFails, closing, outside
  <2>2. ~ReadLocked'
    BY <1>4 DEF ReadRow, ReadEnd, ReadFails, MoveOn, MoveFails, Goto, ReadLocked
  <2> QED
    BY <1>2, <2>1, <2>2
<1>5. CASE After \/ Scan \/ ScanCopy \/ Columns \/ AskErr \/ ReturnCRows
  <2>1. UNCHANGED <<lease, releases, program>>
    BY <1>5 DEF After, Scan, ScanCopy, Columns, AskErr, ReturnCRows, Keep, closing, outside
  <2>2. ~ReadLocked'
    BY <1>1, <1>5 DEF After, Scan, ScanCopy, Columns, AskErr, ReturnCRows, Keep, Goto,
       ReadLocked, ControlTyped
  <2> QED
    BY <1>2, <2>1, <2>2
<1>6. CASE NextClose \/ CloseSet \/ Finish
  <2>1. CloseWith("nil") /\ ~ReadLocked /\ ~ReadLocked'
    BY <1>6 DEF NextClose, CloseSet, Finish, Goto, ReadLocked
  <2> QED
    BY <1>1, <2>1, CloseGivesBack
<1>7. CASE AwaitDone
  <2>1. ~ReadLocked /\ ~ReadLocked'
    BY <1>7 DEF AwaitDone, ReadLocked
  <2>2. CloseWith("ctx") \/ CloseWith("nil")
    BY <1>7 DEF AwaitDone
  <2> QED
    BY <1>1, <2>1, <2>2, CloseGivesBack
<1>8. CASE CtxEnds \/ TxEnds \/ UNCHANGED rowsVars
  <2>1. UNCHANGED <<lease, releases, program, pc>>
    BY <1>8 DEF CtxEnds, TxEnds, rowsVars, closing
  <2> QED
    BY <2>1 DEF ReadLocked, Borrowed!borrowVars
<1> QED
  BY <1>3, <1>4, <1>5, <1>6, <1>7, <1>8 DEF RowsNext, Application

(* Rows implement Borrow: their connection is used only while it is held, *)
(* and given back once, between two calls of the driver.                  *)
THEOREM RowsGivesBack == Spec => GivesBack
<1>1. Init => Borrowed!BorrowInit
  BY DEF Init, ReadLocked, Borrowed!BorrowInit
<1> QED
  BY <1>1, BorrowStep, InvAlways, RowsTypeCorrect, PTL DEF Spec, GivesBack, Borrowed!BorrowSpec
==============================================================================
