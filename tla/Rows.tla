--------------------------------- MODULE Rows ----------------------------------
(***************************************************************************)
(* A result cursor: an application that reads it and the goroutine         *)
(* awaitDone that closes it when the context of the query or of the        *)
(* transaction ends.  The connection belongs to the Rows until it closes.  *)
(*                                                                         *)
(* The applications are the loop of the documentation (loop), Row.Scan     *)
(* (row) and convertTocRows (crows).  Definitions whose names end in Fault *)
(* are plausible bugs that only the mutant runs use.                       *)
(***************************************************************************)
EXTENDS Naturals, Sequences

CONSTANTS
  Programs,     \* which applications: a subset of {"loop", "row", "crows"}
  Results,      \* the results: sequences of the row counts of their sets
  Cancellable,  \* may the context of the query be cancelled?
  InTx,         \* does the query belong to a transaction?
  DriverFails   \* may the driver fail while it reads?

ASSUME RowsAssumption ==
  /\ Programs \subseteq {"loop", "row", "crows"}
  /\ \A r \in Results : r \in Seq(Nat) /\ Len(r) > 0
  /\ {Cancellable, InTx, DriverFails} \subseteq BOOLEAN

VARIABLES
  program, result,
  pc,         \* of the application
  at,         \* the current result set
  pos,        \* the rows of it that the driver has delivered
  lasterr,    \* rs.lasterr: nil, eof, drv, ctx
  closed,     \* rs.closed
  lease,      \* of the connection: held, or released as good or bad
  releases,   \* how often it has been released
  ctx, txctx, \* live, ended
  got, blank, \* the rows that were scanned, the rows whose Scan has failed
  stale,      \* has a row been copied after the Rows were closed?
  report      \* what the application concludes: none, complete, error

rowsVars == <<program, result, pc, at, pos, lasterr, closed, lease, releases, ctx, txctx,
              got, blank, stale, report>>
cursor == <<at, pos, lasterr>>
closing == <<closed, lease, releases>>
outside == <<program, result, ctx, txctx>>
seen == <<got, blank, stale, report>>

\* The rows of the result, each as its set and its number in it.
AllRows == UNION {{k} \X (1..result[k]) : k \in 1..Len(result)}
Wanted == IF program = "row" THEN AllRows \cap {<<1, 1>>} ELSE AllRows
MoreSets == at < Len(result)

TypeOK ==
  /\ program \in Programs /\ result \in Results
  /\ pc \in {"columns", "types", "next", "reading", "close", "after", "scan", "copy", "more",
             "moving", "closeset", "err", "finish", "end", "fatal"}
  /\ at \in 1..Len(result) /\ pos \in 0..result[at]
  /\ lasterr \in {"nil", "eof", "drv", "ctx"}
  /\ closed \in BOOLEAN /\ stale \in BOOLEAN
  /\ lease \in {"held", "good", "bad"} /\ releases \in Nat
  /\ {ctx, txctx} \subseteq {"live", "ended"}
  /\ got \cup blank \subseteq AllRows
  /\ report \in {"none", "complete", "error"}

Init ==
  /\ program \in Programs /\ result \in Results
  /\ pc = (IF program = "crows" THEN "columns" ELSE "next")
  /\ at = 1 /\ pos = 0 /\ lasterr = "nil"
  /\ closed = FALSE /\ lease = "held" /\ releases = 0
  /\ ctx = "live" /\ txctx = "live"
  /\ got = {} /\ blank = {} /\ stale = FALSE /\ report = "none"

Err == IF lasterr = "eof" THEN "nil" ELSE lasterr

Goto(label) == pc' = label
Keep(label) == Goto(label) /\ UNCHANGED <<cursor, closing, outside, seen>>

------------------------------------------------------------------------------
(* rs.close, with closemu held for writing: not while a call reads.  Only *)
(* the error of Rowsi.Close reaches releaseConn.                          *)

CloseFault(err) ==
  /\ closed' = TRUE
  /\ lasterr' = IF lasterr = "nil" THEN err ELSE lasterr
  /\ lease' \in {"good", "bad"}
  /\ releases' = releases + 1

CloseLateFault(err) ==
  /\ closed' = TRUE
  /\ lasterr' = IF lasterr = "nil" THEN err ELSE lasterr
  /\ IF closed THEN UNCHANGED <<lease, releases>>
     ELSE lease' \in {"good", "bad"} /\ releases' = releases + 1

CloseWith(err) ==
  IF closed THEN UNCHANGED <<closing, lasterr>>
  ELSE /\ closed' = TRUE
       /\ lasterr' = IF lasterr = "nil" THEN err ELSE lasterr
       /\ lease' \in {"good", "bad"}
       /\ releases' = releases + 1

ReadLocked == pc \in {"reading", "moving"}

\* awaitDone runs when there is a context to wait for; closing wakes it, too.
Awaits == Cancellable \/ InTx
CtxDone == ctx = "ended" \/ closed

AwaitDoneFault ==
  /\ Awaits /\ (CtxDone \/ txctx = "ended")
  /\ CloseWith(IF CtxDone THEN "ctx" ELSE "nil")
  /\ UNCHANGED <<pc, at, pos, outside, seen>>

AwaitTxFault ==
  /\ Awaits /\ CtxDone
  /\ ~ReadLocked
  /\ CloseWith("ctx")
  /\ UNCHANGED <<pc, at, pos, outside, seen>>

\* The error is that of the context of the query, whichever has ended.
AwaitDone ==
  /\ Awaits /\ (CtxDone \/ txctx = "ended")
  /\ ~ReadLocked
  /\ CloseWith(IF CtxDone THEN "ctx" ELSE "nil")
  /\ UNCHANGED <<pc, at, pos, outside, seen>>

CtxEnds ==
  /\ Cancellable /\ ctx = "live"
  /\ ctx' = "ended"
  /\ UNCHANGED <<program, result, pc, txctx, cursor, closing, seen>>

TxEnds ==
  /\ InTx /\ txctx = "live"
  /\ txctx' = "ended"
  /\ UNCHANGED <<program, result, pc, ctx, cursor, closing, seen>>

------------------------------------------------------------------------------
(* Next: "reading" is the call of the driver, under the read lock; what   *)
(* the driver says decides lasterr, and whether Next closes the Rows.     *)

NextRow ==
  /\ pc = "next"
  /\ Keep(IF closed THEN "after" ELSE "reading")

ReadRowFault ==
  /\ pc = "reading" /\ pos < result[at]
  /\ pos' = pos + 1 /\ lasterr' = "nil"
  /\ IF pos' < result[at] \/ MoreSets THEN UNCHANGED closing
     ELSE closed' = TRUE /\ lease' = "good" /\ releases' = releases + 1
  /\ Goto("scan")
  /\ UNCHANGED <<at, outside, seen>>

ReadRow ==
  /\ pc = "reading" /\ pos < result[at]
  /\ pos' = pos + 1 /\ lasterr' = "nil"
  /\ Goto("scan")
  /\ UNCHANGED <<at, closing, outside, seen>>

ReadEnd ==
  /\ pc = "reading" /\ pos = result[at]
  /\ lasterr' = "eof"
  /\ Goto(IF MoreSets THEN "after" ELSE "close")
  /\ UNCHANGED <<at, pos, closing, outside, seen>>

ReadFailsFault ==
  /\ pc = "reading" /\ DriverFails
  /\ lasterr' = "eof"
  /\ Goto("close")
  /\ UNCHANGED <<at, pos, closing, outside, seen>>

ReadFails ==
  /\ pc = "reading" /\ DriverFails
  /\ lasterr' = "drv"
  /\ Goto("close")
  /\ UNCHANGED <<at, pos, closing, outside, seen>>

NextClose ==
  /\ pc = "close"
  /\ CloseWith("nil")
  /\ Goto("after")
  /\ UNCHANGED <<at, pos, outside, seen>>

\* Next has returned false.
After ==
  /\ pc = "after"
  /\ Keep(CASE program = "loop" -> "more"
            [] program = "row" -> "err"
            [] program = "crows" -> "finish")

------------------------------------------------------------------------------
(* Scan looks at lasterr and closed under the read lock, and copies the   *)
(* row after it has released it.                                          *)

Scan ==
  /\ pc = "scan"
  /\ IF Err = "nil" /\ ~closed THEN Keep("copy")
     ELSE /\ UNCHANGED <<cursor, closing, outside, got, stale>>
          /\ IF program = "crows"
               THEN blank' = blank \cup {<<at, pos>>} /\ UNCHANGED report /\ Goto("next")
               ELSE report' = "error" /\ UNCHANGED blank /\ Goto("finish")

ScanCopy ==
  /\ pc = "copy"
  /\ got' = got \cup {<<at, pos>>}
  /\ stale' = (stale \/ closed)
  /\ Goto(IF program = "row" THEN "finish" ELSE "next")
  /\ UNCHANGED <<cursor, closing, outside, blank, report>>

------------------------------------------------------------------------------
(* NextResultSet; its driver call is the step from "moving".              *)

NextResultSet ==
  /\ pc = "more"
  /\ Keep(IF closed THEN "err" ELSE "moving")

MoveOn ==
  /\ pc = "moving" /\ MoreSets
  /\ at' = at + 1 /\ pos' = 0 /\ lasterr' = "nil"
  /\ Goto("next")
  /\ UNCHANGED <<closing, outside, seen>>

MoveFails ==
  /\ pc = "moving" /\ (DriverFails \/ ~MoreSets)
  /\ lasterr' = IF MoreSets THEN "drv" ELSE "eof"
  /\ Goto("closeset")
  /\ UNCHANGED <<at, pos, closing, outside, seen>>

CloseSet ==
  /\ pc = "closeset"
  /\ CloseWith("nil")
  /\ Goto("err")
  /\ UNCHANGED <<at, pos, outside, seen>>

------------------------------------------------------------------------------
(* What the applications do before and after they read.                   *)

\* log.Fatal ends the process.
Columns ==
  /\ pc \in {"columns", "types"}
  /\ Keep(IF closed THEN "fatal" ELSE IF pc = "columns" THEN "types" ELSE "next")

AskErr ==
  /\ pc = "err"
  /\ report' = IF Err = "nil" THEN "complete" ELSE "error"
  /\ Goto("finish")
  /\ UNCHANGED <<cursor, closing, outside, got, blank, stale>>

FinishFault ==
  /\ pc = "finish" /\ program # "crows"
  /\ IF program = "row" /\ report = "none"
       THEN UNCHANGED <<closing, lasterr>> ELSE CloseWith("nil")
  /\ report' = IF report = "none" THEN "complete" ELSE report
  /\ Goto("end")
  /\ UNCHANGED <<at, pos, outside, got, blank, stale>>

\* The deferred Close of the loop; Row.Scan returns the error of its Close.
Finish ==
  /\ pc = "finish" /\ program # "crows"
  /\ CloseWith("nil")
  /\ report' \in IF program = "loop" \/ report # "none" THEN {report}
                ELSE IF closed THEN {"complete"} ELSE {"complete", "error"}
  /\ Goto("end")
  /\ UNCHANGED <<at, pos, outside, got, blank, stale>>

\* convertTocRows returns what it has, and asks nothing.
ReturnCRows ==
  /\ pc = "finish" /\ program = "crows"
  /\ report' = "complete"
  /\ Goto("end")
  /\ UNCHANGED <<cursor, closing, outside, got, blank, stale>>

Application ==
  \/ NextRow \/ ReadRow \/ ReadEnd \/ ReadFails \/ NextClose \/ After \/ Scan \/ ScanCopy
  \/ NextResultSet \/ MoveOn \/ MoveFails \/ CloseSet \/ Columns \/ AskErr \/ Finish
  \/ ReturnCRows

RowsNext == Application \/ AwaitDone \/ CtxEnds \/ TxEnds

(* awaitDone runs, and a call of the driver returns; the application may  *)
(* stop for ever between two calls.                                       *)
Spec ==
  /\ Init /\ [][RowsNext]_rowsVars
  /\ WF_rowsVars(AwaitDone)
  /\ WF_rowsVars(ReadLocked /\ Application)

------------------------------------------------------------------------------
(* The connection is released when the Rows close, and only once, whoever *)
(* of the application and awaitDone closes them first.                    *)
ReleasedOnce == releases = (IF closed THEN 1 ELSE 0) /\ (closed <=> lease # "held")

\* The application uses the connection while a call of the driver reads.
Borrowed == INSTANCE Borrow WITH
  User <- Programs, users <- IF ReadLocked THEN {program} ELSE {}

(* Rows treat their connection as Borrow says: it goes back once, between *)
(* two calls of the driver, and none starts after that, whoever of the    *)
(* application and awaitDone closes the Rows.                             *)
GivesBack == Borrowed!BorrowSpec

(* No call of the driver runs on Rows that are closed: its connection may *)
(* be with another caller by then.                                        *)
DriverQuiet == ReadLocked => ~closed

(* An application that has finished has given the connection back.        *)
(* convertTocRows does that only for a result of one set.                 *)
ClosedAtEnd == pc = "end" /\ (program # "crows" \/ Len(result) = 1) => closed

(* A result that the loop or Row.Scan reports as complete is complete,    *)
(* although awaitDone may close the Rows before any row ("Err should be   *)
(* consulted to distinguish between the two cases").  The code does not   *)
(* report the end of the transaction, nor a context that ends between two *)
(* result sets.                                                           *)
TruncationReported ==
  /\ report = "complete" /\ program # "crows"
  /\ txctx = "live" /\ (ctx = "live" \/ Len(result) = 1)
  => got = Wanted

(* The same, said of convertTocRows.                                      *)
CRowsComplete == report = "complete" /\ program = "crows" => got = Wanted

(* Nothing but a context that ends comes between the driver and a row it  *)
(* has delivered: until then every such row is scanned, from memory that  *)
(* is valid ("only valid until the next Scan/Close").                     *)
OnlyContextsInterfere == stale \/ blank # {} => ctx = "ended" \/ txctx = "ended"

(* Once the Rows are closed the answer of Err does not change: "Close is  *)
(* idempotent and does not affect the result of Err".                     *)
ErrKept == [][closed => lasterr' = lasterr]_rowsVars

(* Rows that the application forgets are closed when a context ends.      *)
ContextCloses == (ctx = "ended" \/ txctx = "ended") ~> closed
==============================================================================
