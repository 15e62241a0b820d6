------------------------------ MODULE TxPromise -------------------------------
(***************************************************************************)
(* What a transaction promises, without saying how: goroutines use its     *)
(* connection while it is active, it ends once and when nobody uses the    *)
(* connection, and only then the connection is given back.                 *)
(***************************************************************************)
CONSTANT Client

VARIABLES
  outcome,  \* none, active, committed, rolledback, failed
  users,    \* the clients with an operation or a result on the connection
  lease     \* of the connection: held, good, bad (given back as)

promiseVars == <<outcome, users, lease>>

PromiseInit == outcome = "none" /\ users = {} /\ lease = "held"

Start ==
  /\ outcome = "none"
  /\ lease = "held"
  /\ outcome' = "active"
  /\ UNCHANGED <<users, lease>>

Enter(p) ==
  /\ outcome = "active"
  /\ users' = users \cup {p}
  /\ UNCHANGED <<outcome, lease>>

Leave(p) ==
  /\ users' = users \ {p}
  /\ UNCHANGED <<outcome, lease>>

Finish ==
  /\ outcome = "active"
  /\ users = {}
  /\ outcome' \in {"committed", "rolledback", "failed"}
  /\ UNCHANGED <<users, lease>>

GiveBack ==
  /\ outcome # "active"
  /\ users = {}
  /\ lease = "held"
  /\ lease' \in {"good", "bad"}
  /\ UNCHANGED <<outcome, users>>

PromiseNext ==
  \/ Start \/ Finish \/ GiveBack
  \/ \E p \in Client : Enter(p) \/ Leave(p)

PromiseSpec == PromiseInit /\ [][PromiseNext]_promiseVars
==============================================================================
