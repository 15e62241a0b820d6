------------------------------ MODULE PoolLease -------------------------------
(***************************************************************************)
(* How ConnPool implements ConnLease.  A caller asks while it dials or     *)
(* waits, and has the lease while dc of it is a connection; a connection   *)
(* is open until finalClose.                                               *)
(***************************************************************************)
EXTENDS ConnPool

CONSTANT MaxPool  \* the largest of PoolSizes, all of them positive

Asking == "asking"

ASSUME AskingAssumption == Asking \notin Conn
ASSUME LimitAssumption  == MaxPool \in PoolSizes
                           /\ \A n \in PoolSizes : 0 < n /\ n <= MaxPool

LeaseOf(p) ==
  IF dc[p] # NoConn THEN dc[p]
  ELSE IF pc[p] \in {"dial", "wait"} THEN Asking ELSE NoConn

Leases == [p \in Client |-> LeaseOf(p)]

Lease == INSTANCE ConnLease WITH
  Limit <- MaxPool, open <- OpenConns, shut <- closed, lease <- Leases

\* Callers, opener, cleaner, setters and DBClose together keep the promise of
\* ConnLease: one lease of a connection at a time, none of a closed one, no
\* close under a lease, no new admission after DBClose, never over the limit.
ImplementsLease == Lease!LeaseSpec
==============================================================================
