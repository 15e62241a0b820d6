-------------------------------- MODULE Wrapper --------------------------------
(***************************************************************************)
(* The threads of a Nim program that use one database through the exported *)
(* functions: calls on the database, statements, and blocks of the         *)
(* transaction macro, over a pool of connections.  ConnPool and Tx have    *)
(* the pool and the transaction in detail; here a connection is free or    *)
(* held, a call that finds none waits, and a call that fails ends the      *)
(* process (log.Fatal).                                                    *)
(***************************************************************************)
EXTENDS Handles

CONSTANT Pool  \* connectionPool

ASSUME PoolAssumption == Pool \in Nat \ {0}

VARIABLES
  free,   \* how many connections may still be taken
  tx,     \* the clients whose transaction is open
  block,  \* the clients inside a block of the macro
  bound   \* the clients whose statement belongs to their transaction

wrapperVars == <<pc, fn, maps, returned, dead, free, tx, block, bound>>
blockVars == <<tx, block, bound>>

TypeOK ==
  /\ pc \in [Client -> {"idle", "wait", "run", "check", "make", "lock", "write"}]
  /\ fn \in [Client -> Function]
  /\ nonNil \subseteq Kind /\ remade \subseteq nonNil /\ clashed \subseteq Kind
  /\ instances \cup returned \subseteq Kind \X Client
  /\ mutex \in [Kind -> Client \cup {Nobody}]
  /\ orphans \subseteq Client /\ dead \in BOOLEAN
  /\ free \in 0..Pool
  /\ tx \cup block \cup bound \subseteq Client

Init ==
  /\ HandlesInit
  /\ pc = [p \in Client |-> "idle"] /\ fn = [p \in Client |-> "QueryExec"]
  /\ free = Pool /\ tx = {} /\ block = {} /\ bound = {}

Has(p, kind) == <<kind, p>> \in returned

\* What p may call.  The macro turns "db." into "tx." in a block, but a
\* procedure that the block calls, or a statement prepared before it, still
\* uses the database.  Each client makes one handle of each kind.
Callable(p) ==
  {f \in Function :
     /\ ~Has(p, KindOf[f])
     /\ f \in {"TxQueryExec", "TxPrepare"} => p \in block
     /\ f = "Begin" => p \notin block
     /\ f \in {"StmtExec", "StmtQuery"} => Has(p, "stmt")}

InTx(p, f) == f \in {"TxQueryExec", "TxPrepare"} \/ (f \in {"StmtExec", "StmtQuery"} /\ p \in bound)

Call(p) ==
  /\ pc[p] = "idle"
  /\ \E f \in Callable(p) :
       /\ InTx(p, f) => p \in tx
       /\ fn' = [fn EXCEPT ![p] = f]
       /\ Goto(p, IF InTx(p, f) THEN "run" ELSE "wait")
  /\ UNCHANGED <<maps, returned, dead, free, blockVars>>

GetConn(p) ==
  /\ pc[p] = "wait" /\ free > 0
  /\ free' = free - 1
  /\ Goto(p, "run")
  /\ UNCHANGED <<fn, maps, returned, dead, blockVars>>

RunFault(p) ==
  /\ pc[p] = "run"
  /\ free' = IF fn[p] = "Begin" THEN free ELSE free + 1
  /\ tx' = IF fn[p] = "Begin" THEN tx \cup {p} ELSE tx
  /\ block' = IF fn[p] = "Begin" THEN block \cup {p} ELSE block
  /\ bound' = IF fn[p] = "TxPrepare" THEN bound \cup {p} ELSE bound
  /\ Goto(p, "check")
  /\ UNCHANGED <<fn, maps, returned, dead>>

\* The call of the driver.  All but Begin give the connection back, after
\* they have read the whole result.
Run(p) ==
  /\ pc[p] = "run"
  /\ free' = IF fn[p] = "Begin" \/ InTx(p, fn[p]) THEN free ELSE free + 1
  /\ tx' = IF fn[p] = "Begin" THEN tx \cup {p} ELSE tx
  /\ block' = IF fn[p] = "Begin" THEN block \cup {p} ELSE block
  /\ bound' = IF fn[p] = "TxPrepare" THEN bound \cup {p} ELSE bound
  /\ Goto(p, "check")
  /\ UNCHANGED <<fn, maps, returned, dead>>

RunFails(p) ==
  /\ pc[p] = "run"
  /\ dead' = TRUE
  /\ UNCHANGED <<pc, fn, maps, returned, free, blockVars>>

InBlock(p) == pc[p] = "idle" /\ p \in block

EndTx(p) ==
  /\ free' = free + 1
  /\ tx' = tx \ {p} /\ block' = block \ {p}
  /\ UNCHANGED <<pc, fn, maps, returned, dead, bound>>

\* The end of the block commits; whether the commit succeeds or not, the
\* transaction has ended.
Commit(p) == InBlock(p) /\ EndTx(p)

\* An exception in the block: the except branch rolls back.
Raise(p) == InBlock(p) /\ EndTx(p)

\* A return or break in the block leaves the transaction open.
Leave(p) ==
  /\ InBlock(p)
  /\ block' = block \ {p}
  /\ UNCHANGED <<pc, fn, maps, returned, dead, free, tx, bound>>

ClientStep(p) == Call(p) \/ GetConn(p) \/ Run(p) \/ RunFails(p) \/ Commit(p) \/ Raise(p) \/ Leave(p)

Next ==
  /\ ~dead
  /\ \E p \in Client :
       \/ ClientStep(p)
       \/ Enter(p) /\ UNCHANGED <<free, blockVars>>

(* A call of Go that has what it needs goes on, and the body of a block   *)
(* ends in some way.                                                      *)
Spec ==
  /\ Init /\ [][Next]_wrapperVars
  /\ \A p \in Client :
       /\ WF_wrapperVars(~dead /\ (GetConn(p) \/ Run(p) \/ RunFails(p)))
       /\ WF_wrapperVars(~dead /\ Enter(p) /\ UNCHANGED <<free, blockVars>>)
       /\ WF_wrapperVars(~dead /\ (Commit(p) \/ Raise(p) \/ Leave(p)))

------------------------------------------------------------------------------
(* Connections are free, in an open transaction, or with a running call,  *)
(* and there are as many as the pool has: none is lost or given back      *)
(* twice, whichever way blocks and calls end.                             *)
ConnsKept ==
  free + Cardinality(tx)
    + Cardinality({p \in Client : pc[p] = "run" /\ ~InTx(p, fn[p])}) = Pool

(* Every connection belongs to a transaction whose client waits, inside   *)
(* its block, for another one.                                            *)
Stuck == Cardinality(tx) = Pool /\ \A p \in tx : pc[p] = "wait"

(* A call that waits for a connection gets one, unless every connection   *)
(* is held by a transaction that waits for another or that a return or    *)
(* break has left open.  With connectionPool 1, the default, one call in  *)
(* a block that uses the database itself is enough.                       *)
CallsReturn ==
  \A p \in Client : (pc[p] = "wait") ~> (pc[p] # "wait" \/ dead \/ Stuck \/ tx \ block # {})
==============================================================================
