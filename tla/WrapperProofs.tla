----------------------------- MODULE WrapperProofs -----------------------------
(***************************************************************************)
(* Proofs about Wrapper: for any number of threads and any size of the     *)
(* pool no connection is lost, and the two mutexes that are shared keep    *)
(* their maps.                                                             *)
(***************************************************************************)
EXTENDS Wrapper, FiniteSetTheorems, TLAPS

Entering == {"check", "make", "lock", "write"}

ControlTyped ==
  /\ pc \in [Client -> {"idle", "wait", "run"} \cup Entering]
  /\ fn \in [Client -> Function]

(* The functions by the kind of their handle.                             *)
LEMMA Kinds ==
  /\ Kind = {"rows", "result", "stmt", "tx"}
  /\ Function = {"QueryExec", "TxQueryExec", "StmtQuery", "StmtExec", "StmtPrepare",
                 "TxPrepare", "Begin"}
  /\ \A f \in Function : /\ KindOf[f] \in Kind
                         /\ KindOf[f] \in {"rows", "tx"} => f \in Synced
                         /\ KindOf[f] = "tx" <=> f = "Begin"
<1>1. Function = {"QueryExec", "TxQueryExec", "StmtQuery", "StmtExec", "StmtPrepare",
                  "TxPrepare", "Begin"}
  BY DEF Function, KindOf
<1>2. /\ KindOf["QueryExec"] = "rows" /\ KindOf["TxQueryExec"] = "rows"
      /\ KindOf["StmtQuery"] = "rows" /\ KindOf["StmtExec"] = "result"
      /\ KindOf["StmtPrepare"] = "stmt" /\ KindOf["TxPrepare"] = "stmt"
      /\ KindOf["Begin"] = "tx"
  BY DEF KindOf
<1>3. Kind = {"rows", "result", "stmt", "tx"}
  BY <1>1, <1>2 DEF Kind
<1> QED
  BY <1>1, <1>2, <1>3 DEF Synced

(* A step of one client moves that client only.                           *)
LEMMA OneMoves ==
  ASSUME ControlTyped, NEW p \in Client, NEW label \in {"idle", "wait", "run"} \cup Entering,
         Goto(p, label), fn' = fn
  PROVE  ControlTyped' /\ pc'[p] = label /\ \A q \in Client \ {p} : pc'[q] = pc[q]
  BY DEF ControlTyped, Goto

(* A step of an entry stays in it, or ends it with the handle.            *)
LEMMA EnterMoves ==
  ASSUME NEW p \in Client, Enter(p)
  PROVE  /\ pc[p] \in Entering /\ fn' = fn
         /\ \E label \in Entering \cup {"idle"} :
              /\ Goto(p, label)
              /\ label = "idle" => returned' = returned \cup {Handle(p)}
              /\ label # "idle" => returned' = returned
<1>1. CASE Check(p)
  BY <1>1 DEF Check, Entering
<1>2. CASE Make(p)
  <2>1. Goto(p, "lock") /\ fn' = fn /\ returned' = returned /\ pc[p] = "make"
    BY <1>2 DEF Make
  <2> QED
    BY <2>1 DEF Entering
<1>3. CASE Lock(p)
  <2>1. Goto(p, "write") /\ fn' = fn /\ returned' = returned /\ pc[p] = "lock"
    BY <1>3 DEF Lock
  <2> QED
    BY <2>1 DEF Entering
<1>4. CASE Write(p)
  <2>1. /\ Goto(p, "idle") /\ fn' = fn /\ returned' = returned \cup {Handle(p)}
        /\ pc[p] = "write"
    BY <1>4 DEF Write
  <2> QED
    BY <2>1 DEF Entering
<1> QED
  BY <1>1, <1>2, <1>3, <1>4 DEF Enter

------------------------------------------------------------------------------
(* The connections.                                                       *)

\* The running calls that have taken a connection from the pool.
Users == {p \in Client : pc[p] = "run" /\ ~InTx(p, fn[p])}

(* Each client begins one transaction, which has a connection of its own, *)
(* and what waits for a connection is not in it.                          *)
TxInv ==
  /\ tx \subseteq Client /\ block \subseteq tx /\ bound \subseteq Client
  /\ \A p \in Client : pc[p] = "wait" => ~InTx(p, fn[p])
  /\ \A p \in Client : pc[p] \in {"wait", "run"} /\ fn[p] = "Begin" => ~Has(p, "tx")
  /\ \A p \in tx : Has(p, "tx") \/ (fn[p] = "Begin" /\ pc[p] \in Entering)

ConnInv == ControlTyped /\ free \in Nat /\ TxInv /\ ConnsKept

(* Clients are finitely many, and so are those that have something.       *)
LEMMA Finite ==
  ASSUME TxInv
  PROVE  /\ IsFiniteSet(tx) /\ Cardinality(tx) \in Nat
         /\ IsFiniteSet(Users) /\ Cardinality(Users) \in Nat
<1>1. tx \in SUBSET Client /\ Users \in SUBSET Client
  BY DEF TxInv, Users
<1> QED
  BY <1>1, HandlesAssumption, FS_Subset, FS_CardinalityType DEF HandlesAssumption

(* The invariant of the connections holds at the start.                   *)
LEMMA InitConnInv == Init => ConnInv
<1> SUFFICES ASSUME Init PROVE ConnInv
  OBVIOUS
<1>1. ControlTyped
  BY Kinds DEF Init, ControlTyped
<1>2. TxInv
  BY DEF Init, TxInv
<1>3. tx = {} /\ Users = {} /\ free = Pool
  BY DEF Init, Users
<1> QED
  BY <1>1, <1>2, <1>3, FS_EmptySet, PoolAssumption DEF ConnInv, ConnsKept, Users, PoolAssumption

(* Every step of every client keeps the invariant of the connections.     *)
LEMMA NextConnInv == ConnInv /\ [Next]_wrapperVars => ConnInv'
<1> SUFFICES ASSUME ConnInv, [Next]_wrapperVars PROVE ConnInv'
  OBVIOUS
<1>0. /\ ControlTyped /\ TxInv /\ free \in Nat
      /\ free + Cardinality(tx) + Cardinality(Users) = Pool
  BY DEF ConnInv, ConnsKept, Users
<1>a. /\ IsFiniteSet(tx) /\ Cardinality(tx) \in Nat
      /\ IsFiniteSet(Users) /\ Cardinality(Users) \in Nat
  BY <1>0, Finite
<1>b. ASSUME ControlTyped', TxInv', free' \in Nat,
             free' + Cardinality(tx') + Cardinality(Users') = Pool
      PROVE  ConnInv'
  BY <1>b DEF ConnInv, ConnsKept, Users
<1>1. ASSUME NEW p \in Client, Call(p) PROVE ConnInv'
  <2>1. PICK f \in Callable(p) : /\ fn' = [fn EXCEPT ![p] = f]
                                 /\ Goto(p, IF InTx(p, f) THEN "run" ELSE "wait")
    BY <1>1 DEF Call
  <2>2. pc[p] = "idle" /\ UNCHANGED <<returned, free, tx, block, bound>>
    BY <1>1 DEF Call, blockVars
  <2>3. f \in Function /\ ~Has(p, KindOf[f])
    BY <2>1 DEF Callable
  <2>4. /\ ControlTyped' /\ fn'[p] = f
        /\ pc'[p] = IF InTx(p, f) THEN "run" ELSE "wait"
        /\ \A q \in Client \ {p} : pc'[q] = pc[q] /\ fn'[q] = fn[q]
    BY <1>0, <2>1, <2>3 DEF ControlTyped, Goto
  <2>5. Users' = Users
    BY <2>2, <2>4 DEF Users, InTx
  <2>6. TxInv'
    BY <1>0, <2>2, <2>3, <2>4, Kinds DEF TxInv, InTx, Has, Entering
  <2> QED
    BY <1>0, <1>b, <2>2, <2>4, <2>5, <2>6
<1>2. ASSUME NEW p \in Client, GetConn(p) PROVE ConnInv'
  <2>1. /\ pc[p] = "wait" /\ free > 0 /\ free' = free - 1 /\ Goto(p, "run")
        /\ UNCHANGED <<fn, returned, tx, block, bound>>
    BY <1>2 DEF GetConn, blockVars
  <2>2. ControlTyped' /\ pc'[p] = "run" /\ \A q \in Client \ {p} : pc'[q] = pc[q]
    BY <1>0, <2>1, OneMoves
  <2>3. Users' = Users \cup {p} /\ p \notin Users
    BY <1>0, <2>1, <2>2 DEF Users, InTx, TxInv
  <2>4. Cardinality(Users') = Cardinality(Users) + 1
    BY <1>a, <2>3, FS_AddElement
  <2>5. TxInv'
    BY <1>0, <2>1, <2>2 DEF TxInv, InTx, Has, Entering
  <2> QED
    BY <1>0, <1>a, <1>b, <2>1, <2>2, <2>4, <2>5
<1>3. ASSUME NEW p \in Client, Run(p) PROVE ConnInv'
  <2>1. /\ pc[p] = "run" /\ Goto(p, "check") /\ UNCHANGED <<fn, returned>>
        /\ bound' = IF fn[p] = "TxPrepare" THEN bound \cup {p} ELSE bound
    BY <1>3 DEF Run
  <2>2. ControlTyped' /\ pc'[p] = "check" /\ \A q \in Client \ {p} : pc'[q] = pc[q]
    BY <1>0, <2>1, OneMoves DEF Entering
  <2>3. Users' = Users \ {p}
    BY <2>1, <2>2 DEF Users, InTx
  <2>4. Cardinality(Users') = IF p \in Users THEN Cardinality(Users) - 1 ELSE Cardinality(Users)
    BY <1>a, <2>3, FS_RemoveElement
  <2>5. CASE fn[p] = "Begin"
    <3>1. free' = free /\ tx' = tx \cup {p} /\ block' = block \cup {p}
      BY <1>3, <2>5 DEF Run
    <3>2. p \in Users /\ p \notin tx
      BY <1>0, <2>1, <2>5 DEF Users, InTx, TxInv, Entering
    <3>3. Cardinality(tx') = Cardinality(tx) + 1
      BY <1>a, <3>1, <3>2, FS_AddElement
    <3>4. TxInv'
      BY <1>0, <2>1, <2>2, <2>5, <3>1 DEF TxInv, InTx, Has, Entering
    <3> QED
      BY <1>0, <1>a, <1>b, <2>2, <2>4, <3>1, <3>2, <3>3, <3>4
  <2>6. CASE fn[p] # "Begin"
    <3>1. /\ tx' = tx /\ block' = block
          /\ free' = IF InTx(p, fn[p]) THEN free ELSE free + 1
      BY <1>3, <2>6 DEF Run
    <3>2. p \in Users <=> ~InTx(p, fn[p])
      BY <2>1 DEF Users
    <3>3. TxInv'
      BY <1>0, <2>1, <2>2, <2>6, <3>1 DEF TxInv, InTx, Has, Entering
    <3> QED
      BY <1>0, <1>a, <1>b, <2>2, <2>4, <3>1, <3>2, <3>3
  <2> QED
    BY <2>5, <2>6
<1>4. ASSUME NEW p \in Client, RunFails(p) PROVE ConnInv'
  BY <1>4 DEF RunFails, blockVars, ConnInv, ControlTyped, TxInv, ConnsKept, InTx, Has
<1>5. ASSUME NEW p \in Client, Commit(p) \/ Raise(p) PROVE ConnInv'
  <2>1. /\ p \in block /\ free' = free + 1 /\ tx' = tx \ {p} /\ block' = block \ {p}
        /\ UNCHANGED <<pc, fn, returned, bound>>
    BY <1>5 DEF Commit, Raise, InBlock, EndTx
  <2>2. p \in tx /\ Cardinality(tx') = Cardinality(tx) - 1
    BY <1>0, <1>a, <2>1, FS_RemoveElement DEF TxInv
  <2>3. ControlTyped' /\ Users' = Users
    BY <1>0, <2>1 DEF ControlTyped, Users, InTx
  <2>4. TxInv'
    BY <1>0, <2>1 DEF TxInv, InTx, Has
  <2> QED
    BY <1>0, <1>a, <1>b, <2>1, <2>2, <2>3, <2>4
<1>6. ASSUME NEW p \in Client, Leave(p) PROVE ConnInv'
  <2>1. block' = block \ {p} /\ UNCHANGED <<pc, fn, returned, free, tx, bound>>
    BY <1>6 DEF Leave
  <2>2. ControlTyped' /\ Users' = Users
    BY <1>0, <2>1 DEF ControlTyped, Users, InTx
  <2>3. TxInv'
    BY <1>0, <2>1 DEF TxInv, InTx, Has
  <2> QED
    BY <1>0, <1>b, <2>1, <2>2, <2>3
<1>7. ASSUME NEW p \in Client, Enter(p), UNCHANGED <<free, blockVars>> PROVE ConnInv'
  <2>1. PICK label \in Entering \cup {"idle"} :
          /\ pc[p] \in Entering /\ Goto(p, label) /\ fn' = fn
          /\ label = "idle" => returned' = returned \cup {Handle(p)}
          /\ label # "idle" => returned' = returned
    BY <1>7, EnterMoves
  <2>2. ControlTyped' /\ pc'[p] = label /\ \A q \in Client \ {p} : pc'[q] = pc[q]
    BY <1>0, <2>1, OneMoves
  <2>3. UNCHANGED <<free, tx, block, bound>>
    BY <1>7 DEF blockVars
  <2>4. Users' = Users
    BY <2>1, <2>2, <2>3 DEF Users, InTx, Entering
  <2>5. TxInv'
    <3>1. \A q \in Client : pc'[q] \in {"wait", "run"} => q # p /\ pc[q] = pc'[q]
      BY <2>1, <2>2 DEF Entering
    <3>2. \A q \in Client \ {p} : Has(q, "tx")' <=> Has(q, "tx")
      BY <2>1 DEF Has, Handle
    <3>3. p \in tx => Has(p, "tx")' \/ (fn'[p] = "Begin" /\ pc'[p] \in Entering)
      <4>1. CASE label = "idle"
        BY <1>0, <2>1, <4>1, Kinds DEF TxInv, Has, Handle, KindOf
      <4>2. CASE label # "idle"
        BY <1>0, <2>1, <2>2, <4>2 DEF TxInv, Has
      <4> QED
        BY <4>1, <4>2
    <3> QED
      BY <1>0, <2>1, <2>2, <2>3, <3>1, <3>2, <3>3 DEF TxInv, InTx
  <2> QED
    BY <1>0, <1>b, <2>2, <2>3, <2>4, <2>5
<1>8. CASE UNCHANGED wrapperVars
  BY <1>8 DEF wrapperVars, maps, blockVars, ConnInv, ControlTyped, TxInv, ConnsKept, InTx, Has
<1> QED
  BY <1>1, <1>2, <1>3, <1>4, <1>5, <1>6, <1>7, <1>8 DEF Next, ClientStep

(* No connection is lost or given back twice, whichever way blocks and    *)
(* calls end.                                                             *)
THEOREM WrapperConnsKept == Spec => []ConnsKept
<1>1. ConnInv => ConnsKept
  BY DEF ConnInv
<1> QED
  BY InitConnInv, NextConnInv, <1>1, PTL DEF Spec
------------------------------------------------------------------------------
(* The maps of rows and of transactions.                                  *)

Guarded == {"rows", "tx"}

(* A client writes into a guarded map with its mutex, into a map that has *)
(* been made, and into one that was replaced only if it was made twice.   *)
MapInv ==
  /\ mutex \in [Kind -> Client \cup {Nobody}]
  /\ \A p \in Client :
       /\ pc[p] \in {"lock", "write"} => KindOf[fn[p]] \in nonNil
       /\ pc[p] = "write" /\ KindOf[fn[p]] \in Guarded => mutex[KindOf[fn[p]]] = p
  /\ \A p \in orphans \cap Client : pc[p] = "write" /\ KindOf[fn[p]] \in remade
  /\ \A h \in returned : h[1] \in nonNil

MutexInv == ControlTyped /\ MapInv /\ MutexKeeps

(* The invariant of the maps holds at the start.                          *)
LEMMA InitMutexInv == Init => MutexInv
<1> SUFFICES ASSUME Init PROVE MutexInv
  OBVIOUS
<1>1. ControlTyped
  BY Kinds DEF Init, ControlTyped
<1>2. MapInv /\ MutexKeeps
  BY DEF Init, HandlesInit, MapInv, MutexKeeps
<1> QED
  BY <1>1, <1>2 DEF MutexInv

(* Steps outside an entry leave the maps alone.                           *)
LEMMA OutsideKeepsMaps ==
  ASSUME MutexInv, ControlTyped', UNCHANGED <<maps, returned>>,
         \A p \in Client : \/ pc'[p] = pc[p] /\ fn'[p] = fn[p]
                           \/ pc[p] \notin {"lock", "write"} /\ pc'[p] \notin {"lock", "write"}
  PROVE  MutexInv'
<1>1. UNCHANGED <<nonNil, instances, mutex, orphans, remade, clashed, returned>>
  BY DEF maps
<1>2. MapInv'
  BY <1>1 DEF MutexInv, MapInv
<1>3. MutexKeeps'
  BY <1>1 DEF MutexInv, MutexKeeps
<1> QED
  BY <1>2, <1>3 DEF MutexInv

(* Every step of every client keeps the invariant of the maps.            *)
LEMMA NextMutexInv == MutexInv /\ [Next]_wrapperVars => MutexInv'
<1> SUFFICES ASSUME MutexInv, [Next]_wrapperVars PROVE MutexInv'
  OBVIOUS
<1>0. ControlTyped /\ MapInv /\ MutexKeeps
  BY DEF MutexInv
<1>1. ASSUME NEW p \in Client, Call(p) PROVE MutexInv'
  <2>1. PICK f \in Callable(p) : /\ fn' = [fn EXCEPT ![p] = f]
                                 /\ Goto(p, IF InTx(p, f) THEN "run" ELSE "wait")
    BY <1>1 DEF Call
  <2>2. f \in Function /\ pc[p] = "idle" /\ UNCHANGED <<maps, returned>>
    BY <1>1, <2>1 DEF Call, Callable
  <2> QED
    BY <1>0, <2>1, <2>2, OutsideKeepsMaps DEF ControlTyped, Goto
<1>2. ASSUME NEW p \in Client, GetConn(p) \/ Run(p) PROVE MutexInv'
  <2>1. PICK label \in {"run", "check"} :
          pc[p] \in {"wait", "run"} /\ Goto(p, label) /\ UNCHANGED <<fn, maps, returned>>
    BY <1>2 DEF GetConn, Run
  <2> QED
    BY <1>0, <2>1, OneMoves, OutsideKeepsMaps DEF Entering
<1>3. ASSUME NEW p \in Client, RunFails(p) \/ Commit(p) \/ Raise(p) \/ Leave(p) PROVE MutexInv'
  <2>1. UNCHANGED <<pc, fn, maps, returned>>
    BY <1>3 DEF RunFails, Commit, Raise, EndTx, Leave
  <2> QED
    BY <1>0, <2>1, OutsideKeepsMaps DEF ControlTyped
<1>4. ASSUME NEW p \in Client, Check(p) PROVE MutexInv'
  <2> DEFINE label == IF KindOf[fn[p]] \in nonNil THEN "lock" ELSE "make"
  <2>1. pc[p] = "check" /\ Goto(p, label) /\ UNCHANGED <<fn, maps, returned>>
    BY <1>4 DEF Check
  <2>2. ControlTyped' /\ pc'[p] = label /\ \A q \in Client \ {p} : pc'[q] = pc[q]
    BY <1>0, <2>1, OneMoves DEF Entering
  <2> QED
    BY <1>0, <2>1, <2>2 DEF MutexInv, MapInv, MutexKeeps, maps
<1>5. ASSUME NEW p \in Client, Make(p) PROVE MutexInv'
  <2> DEFINE k == KindOf[fn[p]]
  <2>1. /\ pc[p] = "make" /\ Goto(p, "lock") /\ UNCHANGED <<fn, mutex, clashed, returned>>
        /\ nonNil' = nonNil \cup {k}
        /\ remade' = IF k \in nonNil THEN remade \cup {k} ELSE remade
        /\ instances' = {h \in instances : h[1] # k}
        /\ orphans' = orphans \cup Writers(k)
    BY <1>5 DEF Make
  <2>2. ControlTyped' /\ pc'[p] = "lock" /\ \A q \in Client \ {p} : pc'[q] = pc[q]
    BY <1>0, <2>1, OneMoves DEF Entering
  <2>3. \A q \in Writers(k) : pc[q] = "write" /\ KindOf[fn[q]] = k /\ k \in nonNil
    BY <1>0 DEF Writers, MapInv
  <2>4. \A q \in orphans' \cap Client : pc'[q] = "write" /\ KindOf[fn'[q]] \in remade'
    BY <1>0, <2>1, <2>2, <2>3 DEF MapInv
  <2>5. MapInv'
    BY <1>0, <2>1, <2>2, <2>4 DEF MapInv
  <2>6. MutexKeeps'
    BY <1>0, <2>1 DEF MutexKeeps, MapInv
  <2> QED
    BY <2>2, <2>5, <2>6 DEF MutexInv
<1>6. ASSUME NEW p \in Client, Lock(p) PROVE MutexInv'
  <2> DEFINE k == KindOf[fn[p]]
  <2>1. /\ pc[p] = "lock" /\ Goto(p, "write")
        /\ UNCHANGED <<fn, nonNil, instances, orphans, remade, clashed, returned>>
        /\ IF fn[p] \in Synced THEN mutex[k] = Nobody /\ mutex' = [mutex EXCEPT ![k] = p]
                               ELSE mutex' = mutex
    BY <1>6 DEF Lock
  <2>2. ControlTyped' /\ pc'[p] = "write" /\ \A q \in Client \ {p} : pc'[q] = pc[q]
    BY <1>0, <2>1, OneMoves DEF Entering
  <2>3. k \in Kind /\ (k \in Guarded => fn[p] \in Synced)
    BY <1>0, Kinds DEF ControlTyped, Guarded
  <2>4. ASSUME NEW q \in Client, pc'[q] = "write", KindOf[fn[q]] \in Guarded
        PROVE  mutex'[KindOf[fn[q]]] = q
    <3>1. Nobody # q
      BY HandlesAssumption DEF HandlesAssumption
    <3>2. mutex \in [Kind -> Client \cup {Nobody}]
      BY <1>0 DEF MapInv
    <3>3. CASE q = p
      BY <2>1, <2>3, <2>4, <3>2, <3>3
    <3>4. CASE q # p
      <4>1. mutex[KindOf[fn[q]]] = q
        BY <1>0, <2>2, <2>4, <3>4 DEF MapInv
      <4>2. KindOf[fn[q]] \in Kind
        BY <2>4, Kinds DEF Guarded
      <4> HIDE DEF k
      <4> QED
        BY <2>1, <3>1, <3>2, <4>1, <4>2
    <3> QED
      BY <3>3, <3>4
  <2>5. mutex' \in [Kind -> Client \cup {Nobody}]
    BY <1>0, <2>1 DEF MapInv
  <2>6. MapInv'
    BY <1>0, <2>1, <2>2, <2>4, <2>5 DEF MapInv
  <2>7. MutexKeeps'
    BY <1>0, <2>1 DEF MutexKeeps
  <2> QED
    BY <2>2, <2>6, <2>7 DEF MutexInv
<1>7. ASSUME NEW p \in Client, Write(p) PROVE MutexInv'
  <2> DEFINE k == KindOf[fn[p]]
             races == Writers(k) # {p}
  <2>1. /\ pc[p] = "write" /\ Goto(p, "idle") /\ UNCHANGED <<fn, nonNil, remade>>
        /\ clashed' = IF races THEN clashed \cup {k} ELSE clashed
        /\ \/ p \notin orphans /\ instances' = instances \cup {Handle(p)}
           \/ (p \in orphans \/ races) /\ instances' = instances
        /\ mutex' = IF mutex[k] = p THEN [mutex EXCEPT ![k] = Nobody] ELSE mutex
        /\ orphans' = orphans \ {p}
        /\ returned' = returned \cup {Handle(p)}
    BY <1>7 DEF Write
  <2>2. ControlTyped' /\ pc'[p] = "idle" /\ \A q \in Client \ {p} : pc'[q] = pc[q]
    BY <1>0, <2>1, OneMoves
  <2>3. Handle(p)[1] = k /\ k \in nonNil /\ k \in Kind
    BY <1>0, <2>1, Kinds DEF Handle, MapInv, ControlTyped
  <2>4. k \in Guarded => ~races
    BY <1>0, <2>1 DEF MapInv, Writers
  <2>5. p \in orphans => k \in remade
    BY <1>0 DEF MapInv
  <2>6. \A q \in Client : pc'[q] = "write" /\ KindOf[fn[q]] \in Guarded => mutex'[KindOf[fn[q]]] = q
    BY <1>0, <2>1, <2>2, <2>3 DEF MapInv
  <2>7. mutex' \in [Kind -> Client \cup {Nobody}]
    BY <1>0, <2>1 DEF MapInv
  <2> HIDE DEF k, races
  <2>8. MapInv'
    BY <1>0, <2>1, <2>2, <2>3, <2>6, <2>7 DEF MapInv
  <2>9. MutexKeeps'
    BY <1>0, <2>1, <2>3, <2>4, <2>5 DEF MutexKeeps, Guarded
  <2> QED
    BY <2>2, <2>8, <2>9 DEF MutexInv
<1>8. CASE UNCHANGED wrapperVars
  BY <1>0, <1>8, OutsideKeepsMaps DEF wrapperVars, ControlTyped
<1> QED
  BY <1>1, <1>2, <1>3, <1>4, <1>5, <1>6, <1>7, <1>8 DEF Next, ClientStep, Enter

(* The maps of rows and of transactions are written by one client at a    *)
(* time, and a handle of theirs that a caller has got is entered unless   *)
(* two first calls have made the map twice.                               *)
THEOREM WrapperMutexKeeps == Spec => []MutexKeeps
<1>1. MutexInv => MutexKeeps
  BY DEF MutexInv
<1> QED
  BY InitMutexInv, NextMutexInv, <1>1, PTL DEF Spec
------------------------------------------------------------------------------
(* The types of what the entries of the maps write.                       *)

MapsTyped ==
  /\ nonNil \subseteq Kind /\ remade \subseteq nonNil /\ clashed \subseteq Kind
  /\ instances \cup returned \subseteq Kind \X Client
  /\ orphans \subseteq Client /\ dead \in BOOLEAN

(* Every step keeps them.                                                 *)
LEMMA NextMapsTyped == ControlTyped /\ MapsTyped /\ [Next]_wrapperVars => MapsTyped'
<1> SUFFICES ASSUME ControlTyped, MapsTyped, [Next]_wrapperVars PROVE MapsTyped'
  OBVIOUS
<1>1. ASSUME UNCHANGED <<maps, returned>>, dead' \in BOOLEAN PROVE MapsTyped'
  BY <1>1 DEF MapsTyped, maps
<1>2. ASSUME NEW p \in Client, ClientStep(p) PROVE MapsTyped'
  <2>1. UNCHANGED <<maps, returned>> /\ dead' \in {dead, TRUE}
    BY <1>2 DEF ClientStep, Call, GetConn, Run, RunFails, Commit, Raise, EndTx, Leave
  <2> QED
    BY <1>1, <2>1 DEF MapsTyped
<1>3. ASSUME NEW p \in Client, Enter(p) PROVE MapsTyped'
  <2>1. KindOf[fn[p]] \in Kind /\ Handle(p) \in Kind \X Client
    BY Kinds DEF ControlTyped, Handle
  <2>2. CASE Check(p)
    BY <1>1, <2>2 DEF Check, MapsTyped
  <2>3. CASE Make(p)
    BY <2>1, <2>3 DEF Make, MapsTyped, Writers
  <2>4. CASE Lock(p)
    BY <2>4 DEF Lock, MapsTyped
  <2>5. CASE Write(p)
    BY <2>1, <2>5 DEF Write, MapsTyped
  <2> QED
    BY <1>3, <2>2, <2>3, <2>4, <2>5 DEF Enter
<1>4. CASE UNCHANGED wrapperVars
  BY <1>1, <1>4 DEF wrapperVars, MapsTyped
<1> QED
  BY <1>2, <1>3, <1>4 DEF Next

(* Type correctness, and no more than Pool connections are ever free.     *)
THEOREM WrapperTypeCorrect == Spec => []TypeOK
<1>1. Init => MapsTyped
  BY DEF Init, HandlesInit, MapsTyped
<1>2. ConnInv /\ MutexInv /\ MapsTyped => TypeOK
  <2> SUFFICES ASSUME ConnInv, MutexInv, MapsTyped PROVE TypeOK
    OBVIOUS
  <2>1. free \in 0..Pool
    <3>1. Cardinality(tx) \in Nat /\ Cardinality(Users) \in Nat
      BY Finite DEF ConnInv
    <3> QED
      BY <3>1, PoolAssumption DEF ConnInv, ConnsKept, Users, PoolAssumption
  <2>2. tx \cup block \cup bound \subseteq Client
    BY DEF ConnInv, TxInv
  <2> QED
    BY <2>1, <2>2
    DEF TypeOK, ConnInv, MutexInv, MapInv, MapsTyped, ControlTyped, Entering
<1>3. MutexInv => ControlTyped
  BY DEF MutexInv
<1> QED
  BY <1>1, <1>2, <1>3, InitConnInv, NextConnInv, InitMutexInv, NextMutexInv, NextMapsTyped, PTL
  DEF Spec
==============================================================================
