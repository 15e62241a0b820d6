------------------------------- MODULE TxProofs --------------------------------
(***************************************************************************)
(* Proofs about Tx: nobody uses the connection of a transaction that ends, *)
(* what Commit and Rollback report is what happened, and the transaction   *)
(* implements TxPromise and Borrow, for any number of goroutines.          *)
(***************************************************************************)
EXTENDS Tx, TLAPS

Ended == {"committed", "rolledback", "failed"}

(* done and the state of the driver's transaction follow the stage. *)
StageInv ==
  /\ stage = "begin" => ~done /\ txi = "none"
  /\ stage = "open" => ~done /\ txi = "active"
  /\ stage \in {"cancel", "lock", "wait", "driver"} => done /\ txi = "active"
  /\ stage \in {"stmts", "close"} => done /\ txi \in Ended
  /\ stage \in {"stmts", "close"} /\ endErr = "nil" => txi \in {"committed", "rolledback"}
  /\ stage = "end" => (done /\ txi \in Ended) \/ (~done /\ txi = "none")
  /\ lease = "held" <=> stage # "end"

(* Without a transaction no client does anything. *)
NoneInv ==
  txi = "none" =>
    rows = {} /\ \A p \in Client : pc[p] = "idle" /\ stmt[p] = "none" /\ answer[p] = "none"

AnswerInv ==
  \A p \in Client : answer[p] \in {"committed", "rolledback"} =>
    answer[p] = txi /\ ender = p /\ stage = "end"

StmtInv ==
  (stage = "close" /\ endErr # "bad") \/ lease = "good" =>
    \A p \in Client : stmt[p] # "txstmt"

Inv == TypeOK /\ StageInv /\ NoneInv /\ QuietEnd /\ AnswerInv /\ StmtInv

(* The inductive invariant holds before Begin.                             *)
LEMMA InitInv == Init => Inv
  BY DEF Init, Inv, TypeOK, StageInv, NoneInv, QuietEnd, AnswerInv, StmtInv, Outcomes, Ended

(* Every step of every goroutine keeps the inductive invariant.            *)
LEMMA NextInv == Inv /\ [Next]_txVars => Inv'
<1> SUFFICES ASSUME Inv, [Next]_txVars PROVE Inv'
  OBVIOUS
<1> USE TxAssumption DEF Inv, TypeOK, StageInv, NoneInv, QuietEnd, AnswerInv, StmtInv,
        Outcomes, Ended, endVars, clientVars
<1>1. CASE BeginTx
  BY <1>1 DEF BeginTx
<1>2. CASE BeginFails
  BY <1>2 DEF BeginFails
<1>3. CASE CtxCancel
  BY <1>3 DEF CtxCancel
<1>4. CASE AwaitRollback
  BY <1>4 DEF AwaitRollback, Win
<1>5. CASE Cancel
  BY <1>5 DEF Cancel
<1>6. CASE LockClosemu
  BY <1>6 DEF LockClosemu
<1>7. CASE Drain
  BY <1>7 DEF Drain, Reading
<1>8. CASE DriverEnd
  BY <1>8 DEF DriverEnd
<1>9. CASE ClosePrepared
  BY <1>9 DEF ClosePrepared
<1>10. CASE Close
  BY <1>10 DEF Close
<1>11. ASSUME NEW p \in Client, ClientStep(p) PROVE Inv'
  <2>1. CASE Grab(p)
    BY <2>1 DEF Grab
  <2>2. CASE CheckDone(p)
    BY <2>2 DEF CheckDone
  <2>3. CASE ExecDC(p)
    BY <2>3 DEF ExecDC
  <2>4. CASE QueryDC(p)
    BY <2>4 DEF QueryDC
  <2>5. CASE PrepareDC(p)
    BY <2>5 DEF PrepareDC
  <2>6. CASE StmtContext(p)
    BY <2>6 DEF StmtContext
  <2>7. CASE PrepareContext(p)
    BY <2>7 DEF PrepareContext
  <2>8. CASE CloseStmt(p)
    BY <2>8 DEF CloseStmt
  <2>9. CASE CloseRows(p)
    BY <2>9 DEF CloseRows
  <2>10. CASE AwaitRows(p)
    BY <2>10 DEF AwaitRows
  <2>11. CASE Commit(p)
    BY <2>11 DEF Commit
  <2>12. CASE CommitSwap(p)
    <3>1. CASE Win(p, "commit") /\ pc' = [pc EXCEPT ![p] = "ending"]
      BY <2>12, <3>1 DEF CommitSwap, Win
    <3>2. CASE Lose(p)
      BY <2>12, <3>2 DEF CommitSwap, Lose
    <3> QED
      BY <2>12, <3>1, <3>2 DEF CommitSwap
  <2>13. CASE Rollback(p)
    <3>1. CASE Win(p, "rollback") /\ pc' = [pc EXCEPT ![p] = "ending"]
      BY <2>13, <3>1 DEF Rollback, Win
    <3>2. CASE Lose(p)
      BY <2>13, <3>2 DEF Rollback, Lose
    <3> QED
      BY <2>13, <3>1, <3>2 DEF Rollback
  <2> QED
    BY <1>11, <2>1, <2>2, <2>3, <2>4, <2>5, <2>6, <2>7, <2>8, <2>9, <2>10, <2>11, <2>12,
       <2>13 DEF ClientStep, Operation
<1>12. CASE UNCHANGED txVars
  BY <1>12 DEF txVars
<1> QED
  BY <1>1, <1>2, <1>3, <1>4, <1>5, <1>6, <1>7, <1>8, <1>9, <1>10, <1>11, <1>12 DEF Next, End

(* The transaction keeps its inductive invariant for ever.                 *)
LEMMA InvAlways == Spec => []Inv
  BY InitInv, NextInv, PTL DEF Spec

(* Every variable of the transaction keeps its type.                       *)
THEOREM TxTypeCorrect == Spec => []TypeOK
<1>1. Inv => TypeOK
  BY DEF Inv
<1> QED
  BY InvAlways, <1>1, PTL

(* Once the driver ends a transaction no operation and no rows use its     *)
(* connection, whoever has won the race for done.                          *)
THEOREM TxQuietEnd == Spec => []QuietEnd
<1>1. Inv => QuietEnd
  BY DEF Inv
<1> QED
  BY InvAlways, <1>1, PTL

(* A success that Commit or Rollback reports is the end the driver made,   *)
(* and only the goroutine that changed done gets such a report.            *)
THEOREM TxTruthful == Spec => []Truthful
<1>1. Inv => Truthful
  BY DEF Inv, AnswerInv, StageInv, TypeOK, Truthful
<1> QED
  BY InvAlways, <1>1, PTL

(* A connection that goes back for reuse has no open statement that        *)
(* StmtContext made.                                                       *)
THEOREM TxStatementsClosed == Spec => []TxStmtsClosed
<1>1. Inv => TxStmtsClosed
  BY DEF Inv, StmtInv, TxStmtsClosed
<1> QED
  BY InvAlways, <1>1, PTL

(* Every step of the transaction is one of TxPromise or leaves it alone.   *)
LEMMA PromiseStep == Inv /\ [Next]_txVars => [Promise!PromiseNext]_(Promise!promiseVars)
<1> DEFINE Users == {p \in Client : pc[p] = "run"} \cup rows
<1> SUFFICES ASSUME Inv, [Next]_txVars
             PROVE  Promise!PromiseNext \/ UNCHANGED <<txi, Users, lease>>
  BY DEF Promise!promiseVars
<1> USE DEF Inv, TypeOK, StageInv, NoneInv, QuietEnd, endVars, clientVars
<1>1. CASE BeginTx
  BY <1>1 DEF BeginTx, Promise!PromiseNext, Promise!Start
<1>2. CASE BeginFails
  BY <1>2 DEF BeginFails, Promise!PromiseNext, Promise!GiveBack
<1>3. CASE CtxCancel \/ Cancel \/ LockClosemu \/ Drain \/ ClosePrepared
  BY <1>3 DEF CtxCancel, Cancel, LockClosemu, Drain, ClosePrepared
<1>4. CASE AwaitRollback
  BY <1>4 DEF AwaitRollback, Win
<1>5. CASE DriverEnd
  BY <1>5 DEF DriverEnd, Promise!PromiseNext, Promise!Finish
<1>6. CASE Close
  <2>1. Users' = {} /\ Users = {}
    BY <1>6 DEF Close
  <2> QED
    BY <1>6, <2>1 DEF Close, Promise!PromiseNext, Promise!GiveBack, Ended
<1>7. ASSUME NEW p \in Client, ClientStep(p)
      PROVE  Promise!PromiseNext \/ UNCHANGED <<txi, Users, lease>>
  <2>1. UNCHANGED <<txi, lease>>
    BY <1>7 DEF ClientStep, Operation, Grab, CheckDone, ExecDC, QueryDC, PrepareDC,
                StmtContext, PrepareContext, CloseStmt, CloseRows, AwaitRows, Commit,
                CommitSwap, Rollback, Win, Lose
  <2>2. CASE CheckDone(p)
    <3>1. done => Users' = Users
      BY <2>2 DEF CheckDone
    <3>2. ~done => txi = "active" /\ Users' = Users \cup {p}
      BY <2>2 DEF CheckDone
    <3> QED
      BY <2>1, <3>1, <3>2 DEF Promise!PromiseNext, Promise!Enter
  <2>3. CASE ~CheckDone(p)
    <3>1. Users' = Users \/ Users' = Users \ {p}
      BY <1>7, <2>3 DEF ClientStep, Operation, Grab, ExecDC, QueryDC, PrepareDC,
                StmtContext, PrepareContext, CloseStmt, CloseRows, AwaitRows, Commit,
                CommitSwap, Rollback, Win, Lose
    <3> QED
      BY <2>1, <3>1 DEF Promise!PromiseNext, Promise!Leave
  <2> QED
    BY <2>2, <2>3
<1>8. CASE UNCHANGED txVars
  BY <1>8 DEF txVars
<1> QED
  BY <1>1, <1>2, <1>3, <1>4, <1>5, <1>6, <1>7, <1>8 DEF Next, End

(* The transaction implements what TxPromise states: no client enters a    *)
(* transaction that has ended, it ends when nobody uses it, and then its   *)
(* connection is given back once.                                          *)
THEOREM TxKeepsPromise == Spec => KeepsPromise
<1>1. Init => Promise!PromiseInit
  BY DEF Init, Promise!PromiseInit
<1> QED
  BY <1>1, PromiseStep, InvAlways, PTL DEF Spec, KeepsPromise, Promise!PromiseSpec

(* A step that TxPromise allows is one that Borrow allows, because the     *)
(* connection is held while the transaction is active.                     *)
LEMMA BorrowStep ==
  Inv /\ [Promise!PromiseNext]_(Promise!promiseVars)
  => [Borrowed!BorrowNext]_(Borrowed!borrowVars)
<1> DEFINE Users == {p \in Client : pc[p] = "run"} \cup rows
<1> SUFFICES ASSUME Inv, [Promise!PromiseNext]_(Promise!promiseVars)
             PROVE  Borrowed!BorrowNext \/ UNCHANGED <<Users, lease>>
  BY DEF Borrowed!borrowVars
<1>1. ASSUME Promise!GiveBack PROVE Borrowed!BorrowNext
  BY <1>1 DEF Promise!GiveBack, Borrowed!BorrowNext, Borrowed!GiveBack
<1>2. ASSUME NEW p \in Client, Promise!Enter(p) PROVE Borrowed!BorrowNext
  <2>1. lease = "held"
    BY <1>2 DEF Promise!Enter, Inv, TypeOK, StageInv, Ended
  <2> QED
    BY <1>2, <2>1 DEF Promise!Enter, Borrowed!BorrowNext, Borrowed!StartUse
<1>3. ASSUME NEW p \in Client, Promise!Leave(p) PROVE Borrowed!BorrowNext
  BY <1>3 DEF Promise!Leave, Borrowed!BorrowNext, Borrowed!EndUse
<1>4. CASE Promise!Start \/ Promise!Finish \/ UNCHANGED Promise!promiseVars
  BY <1>4 DEF Promise!Start, Promise!Finish, Promise!promiseVars
<1> QED
  BY <1>1, <1>2, <1>3, <1>4 DEF Promise!PromiseNext

(* The transaction implements Borrow: its connection is used only while it *)
(* is held, and given back once, with no operation and no rows on it.      *)
THEOREM TxGivesBack == Spec => GivesBack
<1>1. Init => Borrowed!BorrowInit
  BY DEF Init, Borrowed!BorrowInit
<1> QED
  BY <1>1, PromiseStep, BorrowStep, InvAlways, PTL DEF Spec, GivesBack, Borrowed!BorrowSpec
==============================================================================
