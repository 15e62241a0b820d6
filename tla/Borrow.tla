-------------------------------- MODULE Borrow ---------------------------------
(***************************************************************************)
(* What the pool expects of whoever holds one of its connections, without  *)
(* saying how: it is used only while it is held, and given back once and   *)
(* when nobody uses it.  A Conn, a transaction and Rows implement it.      *)
(***************************************************************************)
EXTENDS Naturals

CONSTANT User

VARIABLES
  users,    \* those who use the connection
  lease,    \* of the connection: held, or given back as good or bad
  releases  \* how often it has been given back

borrowVars == <<users, lease, releases>>

BorrowInit == users = {} /\ lease = "held" /\ releases = 0

StartUse(p) ==
  /\ lease = "held"
  /\ users' = users \cup {p}
  /\ UNCHANGED <<lease, releases>>

EndUse(p) ==
  /\ users' = users \ {p}
  /\ UNCHANGED <<lease, releases>>

GiveBack ==
  /\ lease = "held"
  /\ users = {}
  /\ lease' \in {"good", "bad"}
  /\ releases' = releases + 1
  /\ UNCHANGED users

BorrowNext == GiveBack \/ \E p \in User : StartUse(p) \/ EndUse(p)

BorrowSpec == BorrowInit /\ [][BorrowNext]_borrowVars
==============================================================================
