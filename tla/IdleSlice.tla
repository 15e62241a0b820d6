------------------------------ MODULE IdleSlice -------------------------------
(***************************************************************************)
(* The slice db.freeConn and its backing arrays (database-resource/sql.go).*)
(* SetMaxIdleConns cuts the surplus off db.freeConn without copying it,    *)
(* unlocks db.mu, and then closes the connections one by one through a     *)
(* slice of the array that db.freeConn still uses.                         *)
(*                                                                         *)
(* The limits on open connections, the requests, the counts and DBClose    *)
(* are in ConnPool, which keeps the idle connections as a set.             *)
(*                                                                         *)
(* A definition whose name ends in Fault is a plausible bug in the one     *)
(* after it, for the runs that show that a property catches it.            *)
(***************************************************************************)
EXTENDS Integers, FiniteSets

CONSTANTS
  Setter,      \* goroutines that call SetMaxIdleConns
  Conn,        \* driverConn objects; one is reused after it is closed
  IdleLimits,  \* results of maxIdleConnsLocked after SetMaxIdleConns
  Nil          \* an empty cell of an array

ASSUME SliceAssumption ==
  IdleLimits \subseteq Nat /\ Nil \notin Conn /\ IsFiniteSet(Setter)

\* What the properties below need: the code is not correct with two setters.
OneSetter == \A s, t \in Setter : s = t

\* One array for db.freeConn, one for each surplus, and one to grow into.
Arrays == 1 .. Cardinality(Setter) + 2

VARIABLES
  array, cap, \* the cells of each backing array, and how many it has
  cur, len,   \* db.freeConn: the first len cells of array[cur]
  maxIdle,    \* maxIdleConnsLocked()
  surplus,    \* of each setter: the slice "closing" from the next element on
  hand,       \* the element of it that the setter has read and has to close
  pass, at,   \* the loop of the cleaner that holds db.mu (0: none), its index
  swept,      \* what the cleaner has taken out and has still to close
  out,        \* the connections that are with a caller
  open        \* the connections that are not closed

slice   == <<array, cap, cur, len>>
setters == <<surplus, hand>>
loop    == <<pass, at>>
vars    == <<slice, maxIdle, setters, loop, swept, out, open>>

Cell == Conn \cup {Nil}

TypeOK ==
  /\ cap \in [Arrays -> Nat]
  /\ DOMAIN array = Arrays /\ \A a \in Arrays : array[a] \in [1 .. cap[a] -> Cell]
  /\ cur \in Arrays
  /\ len \in 0 .. cap[cur]
  /\ maxIdle \in Nat
  /\ surplus \in [Setter -> [of : Arrays, from : Nat \ {0}, to : Nat]]
  /\ hand \in [Setter -> Cell]
  /\ pass \in 0 .. 2 /\ at \in Nat \ {0}
  /\ swept \subseteq Conn
  /\ out \subseteq Conn
  /\ open \subseteq Conn

-------------------------------------------------------------------------------
LockFree == pass = 0

Closing(s) == surplus[s].from <= surplus[s].to

InUse(a) == a = cur \/ \E s \in Setter : Closing(s) /\ surplus[s].of = a

\* append(db.freeConn, c): in place while the capacity lasts, else into a new
\* array of twice the capacity.
Append1(c) ==
  /\ len' = len + 1
  /\ IF len < cap[cur]
     THEN array' = [array EXCEPT ![cur][len + 1] = c] /\ UNCHANGED <<cur, cap>>
     ELSE LET size  == IF len = 0 THEN 1 ELSE 2 * len
              cells == [i \in 1 .. size |->
                          IF i <= len THEN array[cur][i] ELSE IF i = len + 1 THEN c ELSE Nil]
          IN  /\ cur' = CHOOSE a \in Arrays : ~InUse(a)
              /\ array' = [array EXCEPT ![cur'] = cells]
              /\ cap' = [cap EXCEPT ![cur'] = size]

\* A caller dials: DB.conn with no idle connection that it may take.
Dial(c) ==
  /\ LockFree
  /\ c \notin open
  /\ open' = open \cup {c}
  /\ out' = out \cup {c}
  /\ UNCHANGED <<slice, maxIdle, setters, loop, swept>>

HasRoomFault == maxIdle >= len

HasRoom == maxIdle > len

\* putConn with no request pending.
Put(c) ==
  /\ LockFree
  /\ c \in out
  /\ out' = out \ {c}
  /\ IF HasRoom
     THEN Append1(c) /\ UNCHANGED open
     ELSE open' = open \ {c} /\ UNCHANGED slice
  /\ UNCHANGED <<maxIdle, setters, loop, swept>>

\* DB.conn takes the first one and moves the others down by copy; the last cell
\* keeps its content.
Take ==
  /\ LockFree
  /\ len > 0
  /\ out' = out \cup {array[cur][1]}
  /\ array' = [array EXCEPT ![cur] =
       [i \in 1 .. cap[cur] |-> IF i < len THEN @[i + 1] ELSE @[i]]]
  /\ len' = len - 1
  /\ UNCHANGED <<cap, cur, maxIdle, setters, loop, swept, open>>

SurplusFault(n) == [of |-> cur, from |-> n + 1, to |-> len - 1]

\* closing = db.freeConn[maxIdle:]
Surplus(n) == [of |-> cur, from |-> n + 1, to |-> len]

SetMaxIdleConns(s, n) ==
  /\ LockFree
  /\ ~Closing(s) /\ hand[s] = Nil
  /\ maxIdle' = n
  /\ IF len > n
     THEN surplus' = [surplus EXCEPT ![s] = Surplus(n)] /\ len' = n
     ELSE UNCHANGED <<surplus, len>>
  /\ UNCHANGED <<array, cap, cur, hand, loop, swept, out, open>>

\* for _, c := range closing: the element is read from the array when its turn
\* comes, without db.mu; the Close of a nil would end the process.
ReadNext(s) ==
  LET c == array[surplus[s].of][surplus[s].from] IN
  /\ Closing(s) /\ hand[s] = Nil
  /\ c # Nil
  /\ hand' = [hand EXCEPT ![s] = c]
  /\ surplus' = [surplus EXCEPT ![s].from = @ + 1]
  /\ UNCHANGED <<slice, maxIdle, loop, swept, out, open>>

\* c.Close(), which locks db.mu; that of a closed connection has no effect.
CloseNext(s) ==
  /\ LockFree
  /\ hand[s] # Nil
  /\ open' = open \ {hand[s]}
  /\ hand' = [hand EXCEPT ![s] = Nil]
  /\ UNCHANGED <<slice, maxIdle, surplus, loop, swept, out>>

\* connectionCleanerRunLocked, with db.mu held: a loop for maxLifetime, then one
\* for maxIdleTime.
CleanerRun ==
  /\ LockFree
  /\ swept = {}
  /\ pass' = 1 /\ at' = 1
  /\ UNCHANGED <<slice, maxIdle, setters, swept, out, open>>

Fresh ==
  /\ pass # 0 /\ at <= len
  /\ at' = at + 1
  /\ UNCHANGED <<slice, maxIdle, setters, pass, swept, out, open>>

\* The last connection moves to the cell of the expired one; its own becomes nil.
Expired ==
  /\ pass # 0 /\ at <= len
  /\ swept' = swept \cup {array[cur][at]}
  /\ array' = [array EXCEPT ![cur][at] = array[cur][len], ![cur][len] = Nil]
  /\ len' = len - 1
  /\ UNCHANGED <<cap, cur, maxIdle, setters, loop, out, open>>

LoopEnds ==
  /\ pass # 0 /\ at > len
  /\ pass' = (IF pass = 1 THEN 2 ELSE 0) /\ at' = 1
  /\ UNCHANGED <<slice, maxIdle, setters, swept, out, open>>

CleanerClose(c) ==
  /\ LockFree
  /\ c \in swept
  /\ swept' = swept \ {c}
  /\ open' = open \ {c}
  /\ UNCHANGED <<slice, maxIdle, setters, loop, out>>

-------------------------------------------------------------------------------
Init ==
  /\ array = [a \in Arrays |-> [i \in 1 .. 0 |-> Nil]]
  /\ cap = [a \in Arrays |-> 0]
  /\ cur = 1
  /\ len = 0
  /\ maxIdle \in IdleLimits
  /\ surplus = [s \in Setter |-> [of |-> 1, from |-> 1, to |-> 0]]
  /\ hand = [s \in Setter |-> Nil]
  /\ pass = 0 /\ at = 1
  /\ swept = {}
  /\ out = {}
  /\ open = {}

CallerStep  == Take \/ \E c \in Conn : Dial(c) \/ Put(c)
SetterStep(s) ==
  ReadNext(s) \/ CloseNext(s) \/ \E n \in IdleLimits : SetMaxIdleConns(s, n)
CleanerStep ==
  CleanerRun \/ Fresh \/ Expired \/ LoopEnds \/ \E c \in Conn : CleanerClose(c)

Next == CallerStep \/ CleanerStep \/ \E s \in Setter : SetterStep(s)

Spec == Init /\ [][Next]_vars

-------------------------------------------------------------------------------
(* Properties.                                                             *)

freeConn == {array[cur][i] : i \in 1 .. len}

Cut(s) == surplus[s].from .. surplus[s].to

Rest(s) == {array[surplus[s].of][i] : i \in Cut(s)}

\* What setter s has still to close.
Doomed(s) == Rest(s) \cup ({hand[s]} \ {Nil})

\* No open connection leaks.
NoneLost ==
  \A c \in open : c \in out \cup swept \cup freeConn \/ \E s \in Setter : c \in Doomed(s)

\* No two places share a connection, and none lists it twice or after its Close.
NoneShared ==
  /\ \A i, j \in 1 .. len : array[cur][i] = array[cur][j] => i = j
  /\ out \cap swept = {} /\ out \cup swept \cup freeConn \subseteq open
  /\ freeConn \cap (out \cup swept) = {}
  /\ \A s \in Setter :
       /\ \A i, j \in Cut(s) : array[surplus[s].of][i] = array[surplus[s].of][j] => i = j
       /\ hand[s] \notin Rest(s)
       /\ Doomed(s) \subseteq open \ (out \cup swept \cup freeConn)

\* Every open connection is in one place: with a caller, idle, or about to be closed
\* by the goroutine that took it off the list.  None leaks when slices of the same
\* array are cut, shifted, swept and appended to, and who closes a surplus
\* connection closes neither one that is idle nor one that a caller uses, and none
\* twice.
OnePlace == NoneLost /\ NoneShared

\* What the cleaner takes out leaves the set when it releases db.mu.
Idle == IF pass = 0 THEN freeConn ELSE freeConn \cup swept

Slice == INSTANCE IdleSet WITH
  idle    <- Idle,
  swept   <- IF pass = 0 THEN swept ELSE {},
  toClose <- [s \in Setter |-> Doomed(s)]

\* The slice does what ConnPool takes for granted of its set: who shrinks it takes
\* a part of it at once, and closes that part whatever the others do meanwhile.
ImplementsIdleSet == Slice!SetSpec
==============================================================================
