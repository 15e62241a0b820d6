---------------------------------- MODULE Tx -----------------------------------
(***************************************************************************)
(* A transaction: goroutines that use it, Commit, Rollback and the         *)
(* rollback of awaitDone race to end it, and its connection must go back   *)
(* to the pool once, when nobody uses it any more.                         *)
(*                                                                         *)
(* closemu is an RWMutex: its readers are the clients in "check" or "run"  *)
(* and those with open rows; a writer that waits (stage "wait") keeps new  *)
(* readers out.  A driver call is a step from "run" to what follows it.    *)
(* Definitions whose names end in Fault are plausible bugs that only the   *)
(* mutant runs use.                                                        *)
(***************************************************************************)
EXTENDS FiniteSets

CONSTANTS
  Client,            \* the goroutines that share the transaction
  AwaitDone, Nobody  \* the goroutine awaitDone; no ender yet

ASSUME TxAssumption == AwaitDone \notin Client /\ Nobody \notin Client \cup {AwaitDone}

VARIABLES
  stage,   \* of the transaction: begin, open, and the steps of its end
  done,    \* tx.done
  ctx,     \* tx.ctx: live, cancelled
  keep,    \* tx.keepConnOnRollback
  txi,     \* the driver's transaction
  ender,   \* who changed done from 0 to 1
  how,     \* commit, rollback, discard
  endErr,  \* of txi.Commit or txi.Rollback: nil, err, bad (ErrBadConn)
  lease,   \* of the connection: held, or released as good or bad
  pc,      \* of each client
  rows,    \* the clients with open rows
  stmt,    \* the statement each client has prepared in the transaction
  answer   \* what Commit or Rollback has told each client

txVars == <<stage, done, ctx, keep, txi, ender, how, endErr, lease, pc, rows, stmt, answer>>
endVars == <<done, keep, txi, ender, how, endErr, lease>>
clientVars == <<pc, rows, stmt, answer>>

Outcomes == {"none", "active", "committed", "rolledback", "failed"}

TypeOK ==
  /\ stage \in {"begin", "open", "cancel", "lock", "wait", "driver", "stmts", "close", "end"}
  /\ done \in BOOLEAN /\ keep \in BOOLEAN
  /\ ctx \in {"live", "cancelled"}
  /\ txi \in Outcomes
  /\ ender \in Client \cup {AwaitDone, Nobody}
  /\ how \in {"none", "commit", "rollback", "discard"}
  /\ endErr \in {"nil", "err", "bad"}
  /\ lease \in {"held", "good", "bad"}
  /\ pc \in [Client -> {"idle", "check", "run", "note", "commit", "ending"}]
  /\ rows \in SUBSET Client
  /\ stmt \in [Client -> {"none", "made", "listed", "txstmt", "closed"}]
  /\ answer \in [Client -> {"none", "committed", "rolledback", "error"}]

Init ==
  /\ stage = "begin" /\ done = FALSE /\ ctx = "live" /\ keep \in BOOLEAN
  /\ txi = "none" /\ ender = Nobody /\ how = "none" /\ endErr = "nil" /\ lease = "held"
  /\ pc = [p \in Client |-> "idle"] /\ rows = {}
  /\ stmt = [p \in Client |-> "none"] /\ answer = [p \in Client |-> "none"]

Reading(p) == pc[p] \in {"check", "run"} \/ p \in rows

------------------------------------------------------------------------------
(* Begin; the context that BeginTx got may be cancelled at any time. *)

BeginTx ==
  /\ stage = "begin" /\ lease = "held"
  /\ stage' = "open" /\ txi' = "active"
  /\ UNCHANGED <<done, ctx, keep, ender, how, endErr, lease, clientVars>>

BeginFails ==
  /\ stage = "begin" /\ lease = "held"
  /\ stage' = "end"
  /\ lease' \in {"good", "bad"}
  /\ UNCHANGED <<done, ctx, keep, txi, ender, how, endErr, clientVars>>

CtxCancel ==
  /\ ctx = "live"
  /\ ctx' = "cancelled"
  /\ UNCHANGED <<stage, endVars, clientVars>>

------------------------------------------------------------------------------
(* Operations: grabConn takes closemu for reading, then looks at done. *)

Grab(p) ==
  /\ stage \notin {"begin", "wait"} /\ txi # "none"
  /\ pc[p] = "idle"
  /\ pc' = [pc EXCEPT ![p] = "check"]
  /\ UNCHANGED <<stage, ctx, endVars, rows, stmt, answer>>

CheckFault(p) ==
  /\ pc[p] = "check"
  /\ pc' = [pc EXCEPT ![p] = IF lease # "held" THEN "idle" ELSE "run"]
  /\ UNCHANGED <<stage, ctx, endVars, rows, stmt, answer>>

CheckDone(p) ==
  /\ pc[p] = "check"
  /\ pc' = [pc EXCEPT ![p] = IF done THEN "idle" ELSE "run"]
  /\ UNCHANGED <<stage, ctx, endVars, rows, stmt, answer>>

\* execDC, or any of the others that fails: the release is closemu.RUnlock.
ExecDC(p) ==
  /\ pc[p] = "run"
  /\ pc' = [pc EXCEPT ![p] = "idle"]
  /\ UNCHANGED <<stage, ctx, endVars, rows, stmt, answer>>

\* queryDC: the rows own the read lock.
QueryDC(p) ==
  /\ pc[p] = "run" /\ p \notin rows
  /\ pc' = [pc EXCEPT ![p] = "idle"]
  /\ rows' = rows \cup {p}
  /\ UNCHANGED <<stage, ctx, endVars, stmt, answer>>

\* prepareDC releases the read lock when it returns ...
PrepareDC(p) ==
  /\ pc[p] = "run" /\ stmt[p] \in {"none", "closed"}
  /\ pc' = [pc EXCEPT ![p] = "note"]
  /\ stmt' = [stmt EXCEPT ![p] = "made"]
  /\ UNCHANGED <<stage, ctx, endVars, rows, answer>>

\* ... and PrepareContext appends the statement to tx.stmts after that.
PrepareContext(p) ==
  /\ pc[p] = "note"
  /\ pc' = [pc EXCEPT ![p] = "idle"]
  /\ stmt' = [stmt EXCEPT ![p] = "listed"]
  /\ UNCHANGED <<stage, ctx, endVars, rows, answer>>

\* StmtContext appends under the read lock.
StmtContext(p) ==
  /\ pc[p] = "run" /\ stmt[p] \in {"none", "closed"}
  /\ pc' = [pc EXCEPT ![p] = "idle"]
  /\ stmt' = [stmt EXCEPT ![p] = "txstmt"]
  /\ UNCHANGED <<stage, ctx, endVars, rows, answer>>

CloseStmt(p) ==
  /\ pc[p] = "idle" /\ stmt[p] \in {"listed", "txstmt"}
  /\ stmt' = [stmt EXCEPT ![p] = "closed"]
  /\ UNCHANGED <<stage, ctx, endVars, pc, rows, answer>>

\* Rows are closed by their owner ...
CloseRows(p) ==
  /\ pc[p] = "idle" /\ p \in rows
  /\ rows' = rows \ {p}
  /\ UNCHANGED <<stage, ctx, endVars, pc, stmt, answer>>

\* ... or by their own awaitDone when the context of the transaction ends.
AwaitRows(p) ==
  /\ ctx = "cancelled" /\ p \in rows
  /\ rows' = rows \ {p}
  /\ UNCHANGED <<stage, ctx, endVars, pc, stmt, answer>>

------------------------------------------------------------------------------
(* The end: the compare-and-swap of done, and the steps of its winner. *)

\* Commit looks at the context before done, in a step of its own.
Commit(p) ==
  /\ stage # "begin" /\ txi # "none"
  /\ pc[p] = "idle"
  /\ IF ctx = "cancelled"
       THEN answer' = [answer EXCEPT ![p] = "error"] /\ UNCHANGED pc
       ELSE pc' = [pc EXCEPT ![p] = "commit"] /\ UNCHANGED answer
  /\ UNCHANGED <<stage, ctx, endVars, rows, stmt>>

WinFault(who, kind) ==
  /\ done' = TRUE
  /\ stage' = "cancel" /\ ender' = who /\ how' = kind
  /\ UNCHANGED <<ctx, keep, txi, endErr, lease, rows, stmt, answer>>

Win(who, kind) ==
  /\ ~done
  /\ done' = TRUE
  /\ stage' = "cancel" /\ ender' = who /\ how' = kind
  /\ UNCHANGED <<ctx, keep, txi, endErr, lease, rows, stmt, answer>>

Lose(p) ==
  /\ done
  /\ answer' = [answer EXCEPT ![p] = "error"]
  /\ pc' = [pc EXCEPT ![p] = "idle"]
  /\ UNCHANGED <<stage, ctx, endVars, rows, stmt>>

CommitSwap(p) ==
  /\ pc[p] = "commit"
  /\ \/ Win(p, "commit") /\ pc' = [pc EXCEPT ![p] = "ending"]
     \/ Lose(p)

Rollback(p) ==
  /\ stage # "begin" /\ txi # "none"
  /\ pc[p] = "idle"
  /\ \/ Win(p, "rollback") /\ pc' = [pc EXCEPT ![p] = "ending"]
     \/ Lose(p)

AwaitRollbackFault ==
  /\ stage = "open" /\ ctx = "cancelled" /\ ~keep
  /\ Win(AwaitDone, "discard")
  /\ UNCHANGED pc

AwaitRollback ==
  /\ stage = "open" /\ ctx = "cancelled"
  /\ Win(AwaitDone, IF keep THEN "rollback" ELSE "discard")
  /\ UNCHANGED pc

CancelFault ==
  /\ stage = "cancel"
  /\ stage' = "lock"
  /\ UNCHANGED <<ctx, endVars, clientVars>>

Cancel ==
  /\ stage = "cancel"
  /\ stage' = "lock" /\ ctx' = "cancelled"
  /\ UNCHANGED <<endVars, clientVars>>

\* closemu.Lock: from here on no new reader gets in.
LockClosemu ==
  /\ stage = "lock"
  /\ stage' = "wait"
  /\ UNCHANGED <<ctx, endVars, clientVars>>

Drain ==
  /\ stage = "wait"
  /\ \A p \in Client : ~Reading(p)
  /\ stage' = "driver"
  /\ UNCHANGED <<ctx, endVars, clientVars>>

DriverEndFault ==
  /\ stage = "driver"
  /\ IF how = "discard"
       THEN stage' = "close" /\ UNCHANGED <<endErr, txi>>
       ELSE /\ endErr' = "nil" /\ stage' = "stmts"
            /\ txi' = IF how = "commit" THEN "committed" ELSE "rolledback"
  /\ UNCHANGED <<ctx, done, keep, ender, how, lease, clientVars>>

\* txi.Commit or txi.Rollback; only ErrBadConn skips closePrepared.
DriverEnd ==
  /\ stage = "driver"
  /\ \E e \in {"nil", "err", "bad"} :
       /\ endErr' = e
       /\ txi' = IF e # "nil" THEN "failed"
                 ELSE IF how = "commit" THEN "committed" ELSE "rolledback"
       /\ stage' = IF e = "bad" THEN "close" ELSE "stmts"
  /\ UNCHANGED <<ctx, done, keep, ender, how, lease, clientVars>>

ClosePreparedFault ==
  /\ stage = "stmts"
  /\ stage' = "close"
  /\ stmt' = [p \in Client |-> IF stmt[p] = "listed" THEN "closed" ELSE stmt[p]]
  /\ UNCHANGED <<ctx, endVars, pc, rows, answer>>

ClosePrepared ==
  /\ stage = "stmts"
  /\ stage' = "close"
  /\ stmt' = [p \in Client |->
                IF stmt[p] \in {"listed", "txstmt"} THEN "closed" ELSE stmt[p]]
  /\ UNCHANGED <<ctx, endVars, pc, rows, answer>>

\* tx.close, and the return of Commit, Rollback or awaitDone.
Close ==
  /\ stage = "close"
  /\ stage' = "end"
  /\ lease' = IF how = "discard" \/ endErr = "bad" THEN "bad" ELSE "good"
  /\ pc' = [p \in Client |-> IF p = ender THEN "idle" ELSE pc[p]]
  /\ answer' = [p \in Client |-> IF p # ender THEN answer[p]
                                 ELSE IF endErr = "nil" THEN txi ELSE "error"]
  /\ UNCHANGED <<ctx, done, keep, txi, ender, how, endErr, rows, stmt>>

End == Cancel \/ LockClosemu \/ Drain \/ DriverEnd \/ ClosePrepared \/ Close

Operation(p) == ExecDC(p) \/ QueryDC(p) \/ PrepareDC(p) \/ StmtContext(p)

ClientStep(p) ==
  \/ Grab(p) \/ CheckDone(p) \/ Operation(p) \/ PrepareContext(p) \/ CloseStmt(p)
  \/ CloseRows(p) \/ AwaitRows(p) \/ Commit(p) \/ CommitSwap(p) \/ Rollback(p)

Next ==
  \/ BeginTx \/ BeginFails \/ CtxCancel \/ AwaitRollback \/ End
  \/ \E p \in Client : ClientStep(p)

Spec == Init /\ [][Next]_txVars

(* A goroutine that runs keeps running and a driver call returns; nobody  *)
(* has to close rows or to end the transaction.                           *)
Fairness ==
  /\ WF_txVars(AwaitRollback) /\ WF_txVars(End)
  /\ \A p \in Client : WF_txVars(CheckDone(p)) /\ WF_txVars(Operation(p))
                       /\ WF_txVars(AwaitRows(p)) /\ WF_txVars(CommitSwap(p))

FairSpec == Spec /\ Fairness

------------------------------------------------------------------------------
(* No operation and no rows use the connection from the moment the driver *)
(* ends the transaction on ("W-closemu ... to ensure no other connection  *)
(* has an active query").                                                 *)
QuietEnd ==
  stage \in {"driver", "stmts", "close", "end"} =>
    rows = {} /\ \A p \in Client : pc[p] # "run"

(* Commit and Rollback report success to at most one goroutine, and what  *)
(* they report is what the driver has done: the losers of the race for    *)
(* done and the goroutine awaitDone cannot make a report wrong.           *)
Truthful ==
  \A p \in Client : answer[p] \in {"committed", "rolledback"} =>
    answer[p] = txi /\ ender = p /\ lease # "held"

(* When the connection goes back for reuse, the statements that           *)
(* StmtContext made for the transaction are closed.  A statement of       *)
(* PrepareContext is not, if it is noted after the transaction has ended. *)
TxStmtsClosed == lease = "good" => \A p \in Client : stmt[p] # "txstmt"

(* A cancelled context ends the transaction and gives the connection      *)
(* back, also when the application forgets its rows and never calls       *)
(* Commit or Rollback.                                                    *)
CancelEnds == (ctx = "cancelled" /\ txi = "active") ~> (lease # "held")

(* Commit and Rollback return, also with rows of the caller still open.   *)
EndReturns == \A p \in Client : (pc[p] \in {"commit", "ending"}) ~> (pc[p] = "idle")

Promise == INSTANCE TxPromise WITH
  outcome <- txi, users <- {p \in Client : pc[p] = "run"} \cup rows

(* The transaction implements what TxPromise states.                      *)
KeepsPromise == Promise!PromiseSpec

\* The connection of the transaction, as the pool sees it.
Borrowed == INSTANCE Borrow WITH
  User <- Client, users <- {p \in Client : pc[p] = "run"} \cup rows,
  releases <- IF lease = "held" THEN 0 ELSE 1

(* The transaction treats its connection as Borrow says: no operation and *)
(* no rows are on it when it is given back.                               *)
GivesBack == Borrowed!BorrowSpec
==============================================================================
