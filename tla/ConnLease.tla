------------------------------ MODULE ConnLease -------------------------------
(***************************************************************************)
(* What the pool promises its callers, without saying how: a set of open   *)
(* connections that never outgrows a limit, each leased to one caller at a *)
(* time, closed only when it is not leased, and no caller admitted once    *)
(* the database is shut ("Close ... prevents new queries from starting").  *)
(***************************************************************************)
EXTENDS Naturals, FiniteSets

CONSTANTS
  Client, Conn,
  Limit,          \* how many connections may be open at once
  NoConn, Asking  \* of a client without a lease; no connections

VARIABLES open, lease, shut

leaseVars == <<open, lease, shut>>

Leased(c) == \E p \in Client : lease[p] = c

LeaseInit ==
  /\ open = {}
  /\ lease = [p \in Client |-> NoConn]
  /\ shut = FALSE

Admitted(p) == lease[p] = Asking \/ (lease[p] = NoConn /\ ~shut)

Ask(p) ==
  /\ lease[p] = NoConn
  /\ ~shut
  /\ lease' = [lease EXCEPT ![p] = Asking]
  /\ UNCHANGED <<open, shut>>

Refuse(p) ==
  /\ lease[p] = Asking
  /\ lease' = [lease EXCEPT ![p] = NoConn]
  /\ UNCHANGED <<open, shut>>

Grant(p, c) ==
  /\ Admitted(p)
  /\ c \in open
  /\ ~Leased(c)
  /\ lease' = [lease EXCEPT ![p] = c]
  /\ UNCHANGED <<open, shut>>

GiveBack(p) ==
  /\ lease[p] \in Conn
  /\ lease' = [lease EXCEPT ![p] = NoConn]
  /\ UNCHANGED <<open, shut>>

OpenConn(c) ==
  /\ c \notin open
  /\ Cardinality(open) < Limit
  /\ open' = open \cup {c}
  /\ UNCHANGED <<lease, shut>>

\* A connection that a caller dialled itself is leased to it at once.
OpenFor(p, c) ==
  /\ lease[p] = Asking
  /\ c \notin open
  /\ Cardinality(open) < Limit
  /\ open' = open \cup {c}
  /\ lease' = [lease EXCEPT ![p] = c]
  /\ UNCHANGED shut

CloseConn(c) ==
  /\ c \in open
  /\ ~Leased(c)
  /\ open' = open \ {c}
  /\ UNCHANGED <<lease, shut>>

Shut == ~shut /\ shut' = TRUE /\ UNCHANGED <<open, lease>>

LeaseNext ==
  \/ \E p \in Client : Ask(p) \/ Refuse(p) \/ GiveBack(p)
  \/ \E p \in Client, c \in Conn : Grant(p, c) \/ OpenFor(p, c)
  \/ \E c \in Conn : OpenConn(c) \/ CloseConn(c)
  \/ Shut

LeaseSpec == LeaseInit /\ [][LeaseNext]_leaseVars
==============================================================================
