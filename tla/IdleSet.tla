-------------------------------- MODULE IdleSet -------------------------------
(***************************************************************************)
(* The idle connections, without saying how they are kept: a set, no       *)
(* larger than a limit, from which a call of SetMaxIdleConns or of the     *)
(* cleaner takes a part in one step, to close the connections of that part *)
(* one by one.  IdleSlice says how db.freeConn does this, and ConnPool     *)
(* what the pool does with it.                                             *)
(***************************************************************************)
EXTENDS Integers, FiniteSets

CONSTANTS Setter, Conn

VARIABLES
  idle, maxIdle,
  toClose,  \* of each setter
  swept,    \* of the cleaner
  out,      \* the open connections that are with somebody else
  open

setVars == <<idle, maxIdle, toClose, swept, out, open>>

SetInit ==
  /\ maxIdle \in Nat
  /\ toClose = [s \in Setter |-> {}]
  /\ idle = {} /\ swept = {} /\ out = {} /\ open = {}

Dial(c) ==
  /\ c \notin open
  /\ open' = open \cup {c}
  /\ out' = out \cup {c}
  /\ UNCHANGED <<idle, maxIdle, toClose, swept>>

DialIdle(c) ==
  /\ c \notin open
  /\ Cardinality(idle) < maxIdle
  /\ open' = open \cup {c}
  /\ idle' = idle \cup {c}
  /\ UNCHANGED <<maxIdle, toClose, swept, out>>

Take(c) ==
  /\ c \in idle
  /\ idle' = idle \ {c}
  /\ out' = out \cup {c}
  /\ UNCHANGED <<maxIdle, toClose, swept, open>>

TakeAll ==
  /\ idle' = {}
  /\ out' = out \cup idle
  /\ UNCHANGED <<maxIdle, toClose, swept, open>>

PutIdle(c) ==
  /\ c \in out
  /\ Cardinality(idle) < maxIdle
  /\ out' = out \ {c}
  /\ idle' = idle \cup {c}
  /\ UNCHANGED <<maxIdle, toClose, swept, open>>

PutClosed(c) ==
  /\ c \in out
  /\ out' = out \ {c}
  /\ open' = open \ {c}
  /\ UNCHANGED <<idle, maxIdle, toClose, swept>>

\* Only the surplus leaves the set.
SetMaxIdle(s, surplus) ==
  /\ toClose[s] = {}
  /\ surplus \subseteq idle
  /\ maxIdle' \in Nat
  /\ IF Cardinality(idle) > maxIdle'
     THEN Cardinality(idle \ surplus) = maxIdle'
     ELSE surplus = {}
  /\ idle' = idle \ surplus
  /\ toClose' = [toClose EXCEPT ![s] = surplus]
  /\ UNCHANGED <<swept, out, open>>

CloseSurplus(s, c) ==
  /\ c \in toClose[s]
  /\ toClose' = [toClose EXCEPT ![s] = @ \ {c}]
  /\ open' = open \ {c}
  /\ UNCHANGED <<idle, maxIdle, swept, out>>

Sweep(expired) ==
  /\ swept = {}
  /\ expired \subseteq idle
  /\ idle' = idle \ expired
  /\ swept' = expired
  /\ UNCHANGED <<maxIdle, toClose, out, open>>

CloseSwept(c) ==
  /\ c \in swept
  /\ swept' = swept \ {c}
  /\ open' = open \ {c}
  /\ UNCHANGED <<idle, maxIdle, toClose, out>>

SetNext ==
  \/ TakeAll
  \/ \E c \in Conn : \/ Dial(c) \/ DialIdle(c) \/ Take(c)
                     \/ PutIdle(c) \/ PutClosed(c) \/ CloseSwept(c)
  \/ \E s \in Setter, c \in Conn : CloseSurplus(s, c)
  \/ \E s \in Setter, surplus \in SUBSET Conn : SetMaxIdle(s, surplus)
  \/ \E expired \in SUBSET Conn : Sweep(expired)

SetSpec == SetInit /\ [][SetNext]_setVars
==============================================================================
