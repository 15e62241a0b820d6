------------------------------ MODULE SingleConn -------------------------------
(***************************************************************************)
(* A Conn: goroutines run operations, rows and transactions on one         *)
(* connection while others close it.  The connection must go back to the   *)
(* pool once, and when nobody uses it.                                     *)
(*                                                                         *)
(* closemu is an RWMutex: its readers are the clients in "run" and those   *)
(* with rows or a transaction open; a writer that waits ("wait") keeps new *)
(* readers out.  A client starts nothing while it has something open.      *)
(* Definitions whose names end in Fault are plausible bugs that only the   *)
(* mutant runs use.                                                        *)
(***************************************************************************)
EXTENDS Naturals

CONSTANT Client

VARIABLES
  pc,        \* of each client
  open,      \* the clients with open rows or an open transaction
  done,      \* c.done
  lease,     \* of the connection: held, or released as good or bad
  releases   \* how often

connVars == <<pc, open, done, lease, releases>>

TypeOK ==
  /\ pc \in [Client -> {"idle", "lock", "run", "close", "closebad", "wait", "waitbad", "nil"}]
  /\ open \subseteq Client /\ done \in BOOLEAN
  /\ lease \in {"held", "good", "bad"} /\ releases \in Nat

Init ==
  /\ pc = [p \in Client |-> "idle"] /\ open = {}
  /\ done = FALSE /\ lease = "held" /\ releases = 0

Goto(p, label) == pc' = [pc EXCEPT ![p] = label]
Waiting == {"wait", "waitbad"}

\* grabConn: done first, then the read lock, and then c.dc, whatever it is.
Grab(p) ==
  /\ pc[p] = "idle" /\ p \notin open /\ ~done
  /\ Goto(p, "lock")
  /\ UNCHANGED <<open, done, lease, releases>>

RLock(p) ==
  /\ pc[p] = "lock" /\ \A q \in Client : pc[q] \notin Waiting
  /\ Goto(p, IF lease = "held" THEN "run" ELSE "nil")
  /\ UNCHANGED <<open, done, lease, releases>>

\* ExecContext, PingContext, PrepareContext, Raw, or a query that fails:
\* ErrBadConn closes the Conn, after the read lock is released.
Operation(p) ==
  /\ pc[p] = "run"
  /\ \E next \in {"idle", "closebad"} : Goto(p, next)
  /\ UNCHANGED <<open, done, lease, releases>>

\* QueryContext and BeginTx leave rows or a transaction with the read lock.
Open(p) ==
  /\ pc[p] = "run"
  /\ open' = open \cup {p}
  /\ Goto(p, "idle")
  /\ UNCHANGED <<done, lease, releases>>

CloseOpenFault(p) ==
  /\ pc[p] = "idle" /\ p \in open
  /\ \E next \in {"idle", "closebad"} :
       Goto(p, next) /\ open' = IF next = "idle" THEN open \ {p} ELSE open
  /\ UNCHANGED <<done, lease, releases>>

CloseOpen(p) ==
  /\ pc[p] = "idle" /\ p \in open
  /\ open' = open \ {p}
  /\ \E next \in {"idle", "closebad"} : Goto(p, next)
  /\ UNCHANGED <<done, lease, releases>>

Close(p) ==
  /\ pc[p] = "idle" /\ p \notin open
  /\ Goto(p, "close")
  /\ UNCHANGED <<open, done, lease, releases>>

SwapFault(p) ==
  /\ pc[p] \in {"close", "closebad"}
  /\ Goto(p, IF lease # "held" THEN "idle" ELSE IF pc[p] = "close" THEN "wait" ELSE "waitbad")
  /\ done' = TRUE
  /\ UNCHANGED <<open, lease, releases>>

\* The compare-and-swap of done, and the wait for the write lock.
Swap(p) ==
  /\ pc[p] \in {"close", "closebad"}
  /\ Goto(p, IF done THEN "idle" ELSE IF pc[p] = "close" THEN "wait" ELSE "waitbad")
  /\ done' = TRUE
  /\ UNCHANGED <<open, lease, releases>>

ReleaseFault(p) ==
  /\ pc[p] \in Waiting /\ \A q \in Client : pc[q] # "run"
  /\ lease' \in IF pc[p] = "wait" THEN {"good", "bad"} ELSE {"bad"}
  /\ releases' = releases + 1
  /\ Goto(p, "idle")
  /\ UNCHANGED <<open, done>>

Release(p) ==
  /\ pc[p] \in Waiting /\ open = {} /\ \A q \in Client : pc[q] # "run"
  /\ lease' \in IF pc[p] = "wait" THEN {"good", "bad"} ELSE {"bad"}
  /\ releases' = releases + 1
  /\ Goto(p, "idle")
  /\ UNCHANGED <<open, done>>

Next ==
  \E p \in Client :
    \/ Grab(p) \/ RLock(p) \/ Operation(p) \/ Open(p) \/ CloseOpen(p)
    \/ Close(p) \/ Swap(p) \/ Release(p)

(* A goroutine inside a call goes on, and its driver calls return; nobody *)
(* has to close rows or a transaction.                                    *)
Spec ==
  /\ Init /\ [][Next]_connVars
  /\ \A p \in Client : WF_connVars(Operation(p) \/ Open(p)) /\ WF_connVars(Swap(p))
                       /\ WF_connVars(Release(p))

(* A connection that has gone back to the pool is used by no operation,   *)
(* rows or transaction of the Conn.                                       *)
QuietRelease == lease # "held" => open = {} /\ \A p \in Client : pc[p] # "run"

(* The connection goes back once, also when Close races with operations   *)
(* that close the Conn because of ErrBadConn.                             *)
OneRelease == releases = (IF lease = "held" THEN 0 ELSE 1)

\* Who uses the connection: operations, open rows and open transactions.
Borrowed == INSTANCE Borrow WITH
  User <- Client, users <- {p \in Client : pc[p] = "run"} \cup open

(* The Conn treats its connection as Borrow says: nothing starts on it    *)
(* once it has gone back, and it goes back once, when nobody uses it,     *)
(* whichever of Close and the operations that meet ErrBadConn is first.   *)
GivesBack == Borrowed!BorrowSpec

(* A close ends, unless somebody keeps rows or a transaction open.        *)
CloseReturns ==
  \A p \in Client :
    (pc[p] \in {"close", "closebad", "wait", "waitbad"}) ~> (pc[p] = "idle" \/ open \ {p} # {})
==============================================================================
