--------------------------- MODULE SingleConnProofs ----------------------------
(***************************************************************************)
(* Proofs about SingleConn: the connection of a Conn goes back once, and   *)
(* nobody uses it then, for any number of goroutines; the Conn implements  *)
(* Borrow.                                                                 *)
(***************************************************************************)
EXTENDS SingleConn, TLAPS

(* The winner of done is the only one that waits for the write lock, and   *)
(* it has not yet released the connection.                                 *)
WinnerInv ==
  /\ ~done => lease = "held" /\ \A p \in Client : pc[p] \notin Waiting
  /\ \A p \in Client : pc[p] \in Waiting => lease = "held"
  /\ \A p, q \in Client : pc[p] \in Waiting /\ pc[q] \in Waiting => p = q

(* A goroutine starts no operation while it has rows or a transaction open. *)
OpenInv == \A p \in open : pc[p] \notin {"lock", "run"}

Inv == TypeOK /\ WinnerInv /\ OpenInv /\ QuietRelease /\ OneRelease

(* The inductive invariant holds for a Conn that has just been made.       *)
LEMMA InitInv == Init => Inv
<1> SUFFICES ASSUME Init PROVE Inv
  OBVIOUS
<1>1. TypeOK
  BY DEF Init, TypeOK
<1>2. WinnerInv /\ OpenInv /\ QuietRelease /\ OneRelease
  BY DEF Init, WinnerInv, OpenInv, QuietRelease, OneRelease, Waiting
<1> QED
  BY <1>1, <1>2 DEF Inv

(* Every step of every goroutine keeps the inductive invariant.            *)
LEMMA NextInv == Inv /\ [Next]_connVars => Inv'
<1> SUFFICES ASSUME Inv, [Next]_connVars PROVE Inv'
  OBVIOUS
<1> USE DEF Inv, TypeOK, WinnerInv, OpenInv, QuietRelease, OneRelease, Waiting, Goto
<1>1. ASSUME NEW p \in Client, Grab(p) PROVE Inv'
  BY <1>1 DEF Grab
<1>2. ASSUME NEW p \in Client, RLock(p) PROVE Inv'
  BY <1>2 DEF RLock
<1>3. ASSUME NEW p \in Client, Operation(p) PROVE Inv'
  BY <1>3 DEF Operation
<1>4. ASSUME NEW p \in Client, Open(p) PROVE Inv'
  BY <1>4 DEF Open
<1>5. ASSUME NEW p \in Client, CloseOpen(p) PROVE Inv'
  BY <1>5 DEF CloseOpen
<1>6. ASSUME NEW p \in Client, Close(p) PROVE Inv'
  BY <1>6 DEF Close
<1>7. ASSUME NEW p \in Client, Swap(p) PROVE Inv'
  BY <1>7 DEF Swap
<1>8. ASSUME NEW p \in Client, Release(p) PROVE Inv'
  BY <1>8 DEF Release
<1>9. CASE UNCHANGED connVars
  BY <1>9 DEF connVars
<1> QED
  BY <1>1, <1>2, <1>3, <1>4, <1>5, <1>6, <1>7, <1>8, <1>9 DEF Next

(* A Conn keeps its inductive invariant for ever.                          *)
LEMMA InvAlways == Spec => []Inv
  BY InitInv, NextInv, PTL DEF Spec

(* Every variable of a Conn keeps to its type.                             *)
THEOREM ConnTypeCorrect == Spec => []TypeOK
<1>1. Inv => TypeOK
  BY DEF Inv
<1> QED
  BY InvAlways, <1>1, PTL

(* A connection that has gone back to the pool is used by nothing of the   *)
(* Conn, however Close races with operations and with ErrBadConn.          *)
THEOREM ConnQuietRelease == Spec => []QuietRelease
<1>1. Inv => QuietRelease
  BY DEF Inv
<1> QED
  BY InvAlways, <1>1, PTL

(* The connection of a Conn goes back to the pool once.                    *)
THEOREM ConnOneRelease == Spec => []OneRelease
<1>1. Inv => OneRelease
  BY DEF Inv
<1> QED
  BY InvAlways, <1>1, PTL

(* A step of a goroutine starts or ends its use of the connection, gives   *)
(* the connection back, or does neither.                                   *)
LEMMA BorrowStep ==
  Inv /\ [Next]_connVars => [Borrowed!BorrowNext]_(Borrowed!borrowVars)
<1> DEFINE Users == {p \in Client : pc[p] = "run"} \cup open
<1> SUFFICES ASSUME Inv, [Next]_connVars
             PROVE  Borrowed!BorrowNext \/ UNCHANGED <<Users, lease, releases>>
  BY DEF Borrowed!borrowVars
<1> USE DEF Inv, TypeOK, Goto
<1>1. ASSUME NEW p \in Client, RLock(p)
      PROVE  Borrowed!BorrowNext \/ UNCHANGED <<Users, lease, releases>>
  <2>1. lease = "held" => Users' = Users \cup {p}
    BY <1>1 DEF RLock
  <2>2. lease # "held" => Users' = Users
    BY <1>1 DEF RLock
  <2>3. UNCHANGED <<lease, releases>>
    BY <1>1 DEF RLock
  <2> QED
    BY <2>1, <2>2, <2>3 DEF Borrowed!BorrowNext, Borrowed!StartUse
<1>2. ASSUME NEW p \in Client, Operation(p) \/ CloseOpen(p)
      PROVE  Borrowed!BorrowNext
  <2>1. Users' = Users \ {p}
    BY <1>2 DEF OpenInv, Operation, CloseOpen
  <2>2. UNCHANGED <<lease, releases>>
    BY <1>2 DEF Operation, CloseOpen
  <2> QED
    BY <2>1, <2>2 DEF Borrowed!BorrowNext, Borrowed!EndUse
<1>3. ASSUME NEW p \in Client, Grab(p) \/ Open(p) \/ Close(p) \/ Swap(p)
      PROVE  UNCHANGED <<Users, lease, releases>>
  <2>1. Users' = Users
    BY <1>3 DEF Grab, Open, Close, Swap
  <2> QED
    BY <1>3, <2>1 DEF Grab, Open, Close, Swap
<1>4. ASSUME NEW p \in Client, Release(p)
      PROVE  Borrowed!BorrowNext
  <2>1. Users = {} /\ Users' = {}
    BY <1>4 DEF Release, Waiting
  <2>2. lease = "held" /\ lease' \in {"good", "bad"} /\ releases' = releases + 1
    BY <1>4 DEF Release, WinnerInv
  <2> QED
    BY <2>1, <2>2 DEF Borrowed!BorrowNext, Borrowed!GiveBack
<1>5. CASE UNCHANGED connVars
  BY <1>5 DEF connVars
<1> QED
  BY <1>1, <1>2, <1>3, <1>4, <1>5 DEF Next

(* The Conn implements Borrow: its connection is used only while it is     *)
(* held, and given back once, when nobody uses it.                         *)
THEOREM ConnGivesBack == Spec => GivesBack
<1>1. Init => Borrowed!BorrowInit
  BY DEF Init, Borrowed!BorrowInit
<1> QED
  BY <1>1, BorrowStep, InvAlways, PTL DEF Spec, GivesBack, Borrowed!BorrowSpec
==============================================================================
