------------------------------- MODULE ConnPool -------------------------------
(***************************************************************************)
(* The connection pool of DB (database-resource/sql.go): the callers that  *)
(* get a connection with DB.conn and give it back with DB.putConn, the     *)
(* goroutine connectionOpener, the goroutine connectionCleaner, the        *)
(* callers of the Set... methods, and DBClose.                             *)
(*                                                                         *)
(* A step is one critical section of db.mu, together with the work on the  *)
(* caller's own connection before it and after it; no other goroutine can  *)
(* reach that connection.  Closing a connection is two steps more          *)
(* (driverConn.Close, then finalClose), because both lock db.mu again.     *)
(*                                                                         *)
(* A definition whose name ends in Fault is a plausible bug in the one     *)
(* after it.  Nothing uses it but the runs that put it in the place of     *)
(* that definition, to see that a property catches the bug.                *)
(***************************************************************************)
EXTENDS Integers, FiniteSets

CONSTANTS
  Client,     \* goroutines that run Ping, Exec, Query, Prepare, Begin, ...
  CtxClient,  \* those of them whose context can be cancelled
  Setter,     \* the goroutine that calls the Set... methods, if there is one
  Conn,       \* driverConn objects; one is reused after its finalClose
  PoolSizes,  \* arguments of DBOpen and of SetMaxOpenConns
  IdleSizes,  \* arguments of SetMaxIdleConns
  Lifetimes,  \* arguments of SetConnMaxLifetime, 0 among them
  IdleTimes,  \* arguments of SetConnMaxIdleTime, 0 among them
  QueueSize   \* connectionRequestQueueSize, the capacity of db.openerCh

NoConn  == "no conn"
Empty   == "empty"        \* nothing on a request's channel yet
Closed  == "closed"       \* the request's channel is closed
Failed  == "failed"       \* a connRequest without a connection
NoPanicYet == "none"
Cleaner == "cleaner"
Closer  == "closer"       \* the goroutine in DBClose

ASSUME ContextAssumption == CtxClient \subseteq Client
ASSUME ProcessAssumption ==
  /\ Client \cap Setter = {}
  /\ {Cleaner, Closer} \cap (Client \cup Setter) = {}
\* One goroutine at a time calls the Set... methods; IdleSlice says why.
ASSUME SetterAssumption  == \A s, t \in Setter : s = t
ASSUME ConnAssumption    == {NoConn, Empty, Closed, Failed} \cap Conn = {}
ASSUME ConnFinite        == IsFiniteSet(Conn)
ASSUME ClientFinite      == IsFiniteSet(Client)
ASSUME SizeAssumption    == PoolSizes \subseteq Int /\ IdleSizes \subseteq Int
ASSUME TimeAssumption    == 0 \in Lifetimes /\ Lifetimes \subseteq Nat
                            /\ 0 \in IdleTimes /\ IdleTimes \subseteq Nat
ASSUME QueueAssumption   == QueueSize \in Nat \ {0}

Process == Client \cup Setter \cup {Cleaner, Closer}

MaxBadConnRetries == 2
DefaultMaxIdle    == 2

-------------------------------------------------------------------------------
VARIABLES
  freeConn,      \* the idle connections (the order of db.freeConn is left out)
  connRequests,  \* the clients that have an entry in db.connRequests
  numOpen,
  openerCh,      \* tokens sent, or being sent by the holder of db.mu
  closed,
  dep,           \* connections that have a dependency set in db.dep
  maxOpen,
  maxIdleCount,
  maxLifetime,
  maxIdleTime,
  cleaner,       \* db.cleanerCh: off (nil), on, shut (closed by DBClose)
  phase,         \* of each connection: none, live, closed (dc.closed)
  inUse,         \* connections with dc.inUse
  pc,            \* where each client is
  attempt,       \* index of its retry loop; MaxBadConnRetries: alwaysNewConn
  dc,            \* the connection a client holds
  reply,         \* the content of its request's channel
  toClose,       \* connections a goroutine has still to close
  pending,       \* the SetMaxIdleConns a setter owes after SetMaxOpenConns
  opener,        \* connectionOpener: idle, dial, exited
  stopped,       \* db.stop() was called
  panic          \* the panic that ended the process: putConn, removeDep, cleanerCh

limits  == <<maxOpen, maxIdleCount, maxLifetime, maxIdleTime, pending>>
conns   == <<phase, dep>>
clients == <<pc, attempt, dc>>
workers == <<opener, stopped>>
vars == <<freeConn, connRequests, numOpen, openerCh, closed, cleaner, inUse,
          reply, toClose, panic, limits, conns, clients, workers>>

PcLabel == {"idle", "conn", "dial", "wait", "use", "drain"}

TypeOK ==
  /\ freeConn \subseteq Conn
  /\ connRequests \subseteq Client
  /\ numOpen \in Int
  /\ openerCh \in Nat
  /\ closed \in BOOLEAN
  /\ dep \subseteq Conn
  /\ maxOpen \in Nat
  /\ maxIdleCount \in Int
  /\ maxLifetime \in Nat
  /\ maxIdleTime \in Nat
  /\ cleaner \in {"off", "on", "shut"}
  /\ phase \in [Conn -> {"none", "live", "closed"}]
  /\ inUse \subseteq Conn
  /\ pc \in [Client -> PcLabel]
  /\ attempt \in [Client -> 0 .. MaxBadConnRetries]
  /\ dc \in [Client -> Conn \cup {NoConn}]
  /\ reply \in [Client -> Conn \cup {Empty, Closed, Failed}]
  /\ toClose \in [Process -> SUBSET Conn]
  /\ pending \in [Setter -> Nat]
  /\ opener \in {"idle", "dial", "exited"}
  /\ stopped \in BOOLEAN
  /\ panic \in {NoPanicYet, "putConn", "removeDep", "cleanerCh"}

-------------------------------------------------------------------------------
(* Helpers that run with db.mu held.                                       *)

\* A sender of the opener's token waits on the full channel with db.mu held.
LockFree == openerCh <= QueueSize

Open(c) == phase[c] # "none"

Cached(p) == attempt[p] < MaxBadConnRetries

AtLimitFault == maxOpen > 0 /\ numOpen > maxOpen

AtLimit == maxOpen > 0 /\ numOpen >= maxOpen

\* maxIdleConnsLocked
IdleLimit(count) ==
  IF count = 0 THEN DefaultMaxIdle ELSE IF count < 0 THEN 0 ELSE count

Smaller(a, b) == IF a < b THEN a ELSE b

WantedFault(n, reqs) == IF closed THEN Smaller(reqs, 1) ELSE reqs

\* What maybeOpenNewConnections adds to numOpen when the count is n and reqs
\* requests are pending.
Wanted(n, reqs) ==
  LET room == IF maxOpen > 0 THEN Smaller(reqs, maxOpen - n) ELSE reqs
  IN  IF room <= 0 THEN 0 ELSE IF closed THEN 1 ELSE room

MaybeOpenFault(n, reqs) == numOpen' = n /\ UNCHANGED openerCh

MaybeOpenLateFault(n, reqs) ==
  /\ numOpen'  = n
  /\ openerCh' = openerCh + (IF closed THEN 0 ELSE Wanted(n, reqs))

\* maybeOpenNewConnections, after which the lock section ends.
MaybeOpen(n, reqs) ==
  /\ numOpen'  = n + Wanted(n, reqs)
  /\ openerCh' = openerCh + (IF closed THEN 0 ELSE Wanted(n, reqs))

\* startCleanerLocked
StartCleaner(life, idle, open) ==
  cleaner' = IF (life > 0 \/ idle > 0) /\ open > 0 /\ cleaner = "off"
             THEN "on" ELSE cleaner

RefusesFault(n) == maxOpen > 0 /\ n > maxOpen

\* The two refusals at the top of putConnDBLocked, when numOpen is n.
Refuses(n) == closed \/ (maxOpen > 0 /\ n > maxOpen)

\* putConnDBLocked hands an answer (a connection or Failed) to some request.
Answer(a) ==
  \E r \in connRequests :
    /\ connRequests' = connRequests \ {r}
    /\ reply' = [reply EXCEPT ![r] = a]

IdleRoomFault == Cardinality(freeConn) <= IdleLimit(maxIdleCount)

IdleRoom == Cardinality(freeConn) < IdleLimit(maxIdleCount)

\* putConnDBLocked(c, nil), accepted: c answers a request or becomes idle.
Keep(c) ==
  /\ ~Refuses(numOpen)
  /\ \/ /\ connRequests # {}
        /\ Answer(c)
        /\ inUse' = inUse \cup {c}
        /\ UNCHANGED <<freeConn, cleaner>>
     \/ /\ connRequests = {}
        /\ IdleRoom
        /\ freeConn' = freeConn \cup {c}
        /\ inUse' = inUse \ {c}
        /\ StartCleaner(maxLifetime, maxIdleTime, numOpen)
        /\ UNCHANGED <<connRequests, reply>>

\* putConnDBLocked(c, nil) returns false.
Rejects ==
  \/ Refuses(numOpen)
  \/ connRequests = {} /\ ~IdleRoom

AddConnFault(c) == ~Open(c) /\ phase' = [phase EXCEPT ![c] = "live"] /\ UNCHANGED dep

\* A new driverConn, with addDepLocked(dc, dc).
AddConn(c) ==
  /\ ~Open(c)
  /\ phase' = [phase EXCEPT ![c] = "live"]
  /\ dep' = dep \cup {c}

-------------------------------------------------------------------------------
(* A caller: DB.conn, the use of the connection, DB.putConn.               *)

At(p, label) == pc[p] = label /\ toClose[p] = {}

Goto(p, label) == pc' = [pc EXCEPT ![p] = label]

Hold(p, c) == dc' = [dc EXCEPT ![p] = c]

\* The call ends; its result is given to the application.
Return(p) ==
  /\ Goto(p, "idle")
  /\ attempt' = [attempt EXCEPT ![p] = 0]

\* driver.ErrBadConn: the next round of the caller's retry loop.
Retry(p) ==
  /\ Cached(p)
  /\ Goto(p, "conn")
  /\ attempt' = [attempt EXCEPT ![p] = @ + 1]

\* After the last round ErrBadConn is returned as any other error.
BadConn(p) == Retry(p) \/ (~Cached(p) /\ Return(p))

DiscardFault(p, c) == UNCHANGED toClose

\* conn.Close() and the return of ErrBadConn.
Discard(p, c) == toClose' = [toClose EXCEPT ![p] = {c}]

Call(p) ==
  /\ At(p, "idle")
  /\ Goto(p, "conn")
  /\ UNCHANGED <<freeConn, connRequests, numOpen, openerCh, closed, cleaner,
                 inUse, reply, toClose, panic, limits, conns, attempt,
                 dc, workers>>

\* errDBClosed, or the error of a context that is already done.
Refused(p) ==
  /\ LockFree
  /\ At(p, "conn")
  /\ closed \/ p \in CtxClient
  /\ Return(p)
  /\ UNCHANGED <<freeConn, connRequests, numOpen, openerCh, closed, cleaner,
                 inUse, reply, toClose, panic, limits, conns, dc, workers>>

\* A cached connection.  An expired one is handled as one whose session cannot
\* be reset, here and in ReceiveConn: it is closed and ErrBadConn is returned.
TakeFree(p) ==
  /\ LockFree
  /\ At(p, "conn")
  /\ ~closed
  /\ Cached(p)
  /\ \E c \in freeConn :
       /\ freeConn' = freeConn \ {c}
       /\ inUse' = inUse \cup {c}
       /\ \/ /\ Goto(p, "use")
             /\ Hold(p, c)
             /\ UNCHANGED <<attempt, toClose>>
          \/ /\ Discard(p, c)
             /\ BadConn(p)
             /\ UNCHANGED dc
  /\ UNCHANGED <<connRequests, numOpen, openerCh, closed, cleaner, reply,
                 panic, limits, conns, workers>>

MayOpenFault(p) == ~closed

MayOpen(p) == ~closed /\ ~(Cached(p) /\ freeConn # {})

\* The limit is reached: a request, and the wait for its answer.
Request(p) ==
  /\ LockFree
  /\ At(p, "conn")
  /\ MayOpen(p)
  /\ AtLimit
  /\ connRequests' = connRequests \cup {p}
  /\ reply' = [reply EXCEPT ![p] = Empty]
  /\ Goto(p, "wait")
  /\ UNCHANGED <<freeConn, numOpen, openerCh, closed, cleaner, inUse, toClose,
                 panic, limits, conns, attempt, dc, workers>>

\* The count is raised before the connection exists ("optimistically").
Dial(p) ==
  /\ LockFree
  /\ At(p, "conn")
  /\ MayOpen(p)
  /\ ~AtLimit
  /\ numOpen' = numOpen + 1
  /\ Goto(p, "dial")
  /\ UNCHANGED <<freeConn, connRequests, openerCh, closed, cleaner, inUse,
                 reply, toClose, panic, limits, conns, attempt, dc,
                 workers>>

DialOk(p) ==
  /\ LockFree
  /\ At(p, "dial")
  /\ \E c \in Conn :
       /\ AddConn(c)
       /\ inUse' = inUse \cup {c}
       /\ Hold(p, c)
  /\ Goto(p, "use")
  /\ UNCHANGED <<freeConn, connRequests, numOpen, openerCh, closed, cleaner,
                 reply, toClose, panic, limits, attempt, workers>>

DialFail(p) ==
  /\ LockFree
  /\ At(p, "dial")
  /\ MaybeOpen(numOpen - 1, Cardinality(connRequests))
  /\ Return(p) \/ Retry(p)
  /\ UNCHANGED <<freeConn, connRequests, closed, cleaner, inUse, reply,
                 toClose, panic, limits, conns, dc, workers>>

\* A connection arrives on the request's channel.
ReceiveConn(p) ==
  /\ At(p, "wait")
  /\ reply[p] \in Conn
  /\ reply' = [reply EXCEPT ![p] = Empty]
  /\ \/ /\ Goto(p, "use")
        /\ Hold(p, reply[p])
        /\ UNCHANGED <<attempt, toClose>>
     \/ /\ Discard(p, reply[p])
        /\ BadConn(p)
        /\ UNCHANGED dc
  /\ UNCHANGED <<freeConn, connRequests, numOpen, openerCh, closed, cleaner,
                 inUse, panic, limits, conns, workers>>

\* The channel was closed by DBClose, or carries the error of the opener.
ReceiveError(p) ==
  /\ At(p, "wait")
  /\ reply[p] \in {Closed, Failed}
  /\ reply' = [reply EXCEPT ![p] = Empty]
  /\ Return(p) \/ (reply[p] = Failed /\ Retry(p))
  /\ UNCHANGED <<freeConn, connRequests, numOpen, openerCh, closed, cleaner,
                 inUse, toClose, panic, limits, conns, dc, workers>>

\* The context is done: the request is deleted.  A connection that came first
\* has to be put back.
Cancel(p) ==
  /\ LockFree
  /\ p \in CtxClient
  /\ At(p, "wait")
  /\ connRequests' = connRequests \ {p}
  /\ reply' = [reply EXCEPT ![p] = Empty]
  /\ IF reply[p] \in Conn
     THEN /\ Goto(p, "drain")
          /\ Hold(p, reply[p])
          /\ UNCHANGED attempt
     ELSE Return(p) /\ UNCHANGED dc
  /\ UNCHANGED <<freeConn, numOpen, openerCh, closed, cleaner, inUse, toClose,
                 panic, limits, conns, workers>>

\* putConn of a connection that was never out: the process ends.
PutPanic(p) ==
  /\ LockFree
  /\ At(p, "use") \/ At(p, "drain")
  /\ dc[p] \notin inUse
  /\ panic' = "putConn"
  /\ UNCHANGED <<freeConn, connRequests, numOpen, openerCh, closed, cleaner,
                 inUse, reply, toClose, limits, conns, clients, workers>>

\* putConn of a good connection, accepted or refused by putConnDBLocked.
PutGood(p) ==
  /\ LockFree
  /\ At(p, "use") \/ At(p, "drain")
  /\ dc[p] \in inUse
  /\ \/ Keep(dc[p]) /\ UNCHANGED toClose
     \/ /\ Rejects
        /\ Discard(p, dc[p])
        /\ inUse' = inUse \ {dc[p]}
        /\ UNCHANGED <<freeConn, connRequests, reply, cleaner>>
  /\ Hold(p, NoConn)
  /\ Return(p)
  /\ UNCHANGED <<numOpen, openerCh, closed, panic, limits, conns, workers>>

\* putConn of a connection that is bad, not valid any more or expired.  When it
\* is bad because the caller's own operation said so, the caller retries.
PutBad(p) ==
  /\ LockFree
  /\ At(p, "use") \/ At(p, "drain")
  /\ dc[p] \in inUse
  /\ inUse' = inUse \ {dc[p]}
  /\ MaybeOpen(numOpen, Cardinality(connRequests))
  /\ Discard(p, dc[p])
  /\ Hold(p, NoConn)
  /\ Return(p) \/ (pc[p] = "use" /\ Retry(p))
  /\ UNCHANGED <<freeConn, connRequests, closed, cleaner, reply, panic,
                 limits, conns, workers>>

-------------------------------------------------------------------------------
(* Closing a connection: driverConn.Close, then finalClose.  A goroutine   *)
(* that has several to close finishes one before it starts the next.       *)

CloseConn(q, c) ==
  /\ LockFree
  /\ c \in toClose[q]
  /\ \A d \in toClose[q] : phase[d] = "live"
  /\ IF c \in dep
     THEN /\ phase' = [phase EXCEPT ![c] = "closed"]
          /\ dep' = dep \ {c}
          /\ UNCHANGED panic
     ELSE panic' = "removeDep" /\ UNCHANGED conns
  /\ UNCHANGED <<freeConn, connRequests, numOpen, openerCh, closed, cleaner,
                 inUse, reply, toClose, limits, clients, workers>>

\* inUse of a closed connection is not read again; its id becomes free.
FinalClose(q, c) ==
  /\ LockFree
  /\ c \in toClose[q]
  /\ phase[c] = "closed"
  /\ phase' = [phase EXCEPT ![c] = "none"]
  /\ toClose' = [toClose EXCEPT ![q] = @ \ {c}]
  /\ inUse' = inUse \ {c}
  /\ MaybeOpen(numOpen - 1, Cardinality(connRequests))
  /\ UNCHANGED <<freeConn, connRequests, closed, dep, cleaner, reply, panic,
                 limits, clients, workers>>

\* closeDBLocked of every idle connection; the requests are answered but stay
\* in db.connRequests.
DBClose ==
  /\ LockFree
  /\ ~closed
  /\ closed' = TRUE
  /\ cleaner' = IF cleaner = "on" THEN "shut" ELSE cleaner
  /\ phase' = [c \in Conn |-> IF c \in freeConn THEN "closed" ELSE phase[c]]
  /\ dep' = dep \ freeConn
  /\ panic' = IF freeConn \subseteq dep THEN panic ELSE "removeDep"
  /\ toClose' = [toClose EXCEPT ![Closer] = freeConn]
  /\ freeConn' = {}
  /\ reply' = [p \in Client |-> IF p \in connRequests THEN Closed ELSE reply[p]]
  /\ UNCHANGED <<connRequests, numOpen, openerCh, inUse, limits, clients, workers>>

\* db.stop(), after the idle connections are closed.
Stop ==
  /\ closed
  /\ ~stopped
  /\ toClose[Closer] = {}
  /\ stopped' = TRUE
  /\ UNCHANGED <<freeConn, connRequests, numOpen, openerCh, closed, cleaner,
                 inUse, reply, toClose, panic, limits, conns, clients, opener>>

-------------------------------------------------------------------------------
(* The goroutine connectionOpener.                                         *)

OpenerTake ==
  /\ opener = "idle"
  /\ openerCh > 0
  /\ openerCh' = openerCh - 1
  /\ opener' = "dial"
  /\ UNCHANGED <<freeConn, connRequests, numOpen, closed, cleaner, inUse, reply,
                 toClose, panic, limits, conns, clients, stopped>>

\* select may prefer ctx.Done() to the tokens that are left.
OpenerExit ==
  /\ opener = "idle"
  /\ stopped
  /\ opener' = "exited"
  /\ UNCHANGED <<freeConn, connRequests, numOpen, openerCh, closed, cleaner,
                 inUse, reply, toClose, panic, limits, conns, clients, stopped>>

\* Connect returned a connection that the pool takes.
OpenerKeep ==
  /\ LockFree
  /\ opener = "dial"
  /\ \E c \in Conn : AddConn(c) /\ Keep(c)
  /\ opener' = "idle"
  /\ UNCHANGED <<numOpen, openerCh, closed, toClose, panic, limits, clients,
                 stopped>>

\* Connect returned after DBClose, or a connection that the pool does not take.
OpenerDrop ==
  /\ LockFree
  /\ opener = "dial"
  /\ Rejects
  /\ numOpen' = numOpen - 1
  /\ opener' = "idle"
  /\ UNCHANGED <<freeConn, connRequests, openerCh, closed, cleaner, inUse, reply,
                 toClose, panic, limits, conns, clients, stopped>>

\* Connect failed: one request gets the error.
OpenerFail ==
  /\ LockFree
  /\ opener = "dial"
  /\ ~closed
  /\ IF Refuses(numOpen - 1) \/ connRequests = {}
     THEN UNCHANGED <<connRequests, reply>>
     ELSE Answer(Failed)
  /\ MaybeOpen(numOpen - 1, Cardinality(connRequests'))
  /\ opener' = "idle"
  /\ UNCHANGED <<freeConn, closed, cleaner, inUse, toClose, panic, limits,
                 conns, clients, stopped>>

-------------------------------------------------------------------------------
(* The Set... methods and the goroutine connectionCleaner.                 *)

Idle(s) == pending[s] = 0 /\ toClose[s] = {}

\* The reduction of maxIdleCount to the new limit is a later lock section.
SetMaxOpenConns(s, n) ==
  /\ LockFree
  /\ Idle(s)
  /\ maxOpen' = (IF n < 0 THEN 0 ELSE n)
  /\ pending' = IF maxOpen' > 0 /\ IdleLimit(maxIdleCount) > maxOpen'
                THEN [pending EXCEPT ![s] = n] ELSE pending
  /\ UNCHANGED <<freeConn, connRequests, numOpen, openerCh, closed, cleaner,
                 inUse, reply, toClose, panic, maxIdleCount, maxLifetime,
                 maxIdleTime, conns, clients, workers>>

IdleCountFault(n) == IF n > 0 THEN n ELSE -1

\* The count that SetMaxIdleConns(n) stores, reduced to maxOpen.
IdleCount(n) ==
  LET asked == IF n > 0 THEN n ELSE -1
  IN  IF maxOpen > 0 /\ asked > maxOpen THEN maxOpen ELSE asked

\* Called by the application, or by SetMaxOpenConns above; the connections
\* over the limit leave db.freeConn and are closed after the unlock.
SetMaxIdleConns(s, n) ==
  /\ LockFree
  /\ toClose[s] = {}
  /\ maxIdleCount' = IdleCount(n)
  /\ \E closing \in SUBSET freeConn :
       /\ IF Cardinality(freeConn) > IdleLimit(maxIdleCount')
          THEN Cardinality(freeConn \ closing) = IdleLimit(maxIdleCount')
          ELSE closing = {}
       /\ freeConn' = freeConn \ closing
       /\ toClose' = [toClose EXCEPT ![s] = closing]
  /\ pending' = [pending EXCEPT ![s] = 0]
  /\ UNCHANGED <<connRequests, numOpen, openerCh, closed, cleaner, inUse, reply,
                 panic, maxOpen, maxLifetime, maxIdleTime, conns, clients,
                 workers>>

SyncIdle(s) == pending[s] # 0 /\ SetMaxIdleConns(s, pending[s])

\* Both setters of a time wake the cleaner when the time is shortened; the send
\* panics when DBClose has closed cleanerCh and the cleaner has not seen it.
Wakes(new, old) == new > 0 /\ new < old /\ cleaner = "shut"

SetConnMaxLifetime(s, d) ==
  /\ LockFree
  /\ Idle(s)
  /\ panic' = IF Wakes(d, maxLifetime) THEN "cleanerCh" ELSE panic
  /\ maxLifetime' = d
  /\ StartCleaner(d, maxIdleTime, numOpen)
  /\ UNCHANGED <<freeConn, connRequests, numOpen, openerCh, closed, inUse, reply,
                 toClose, maxOpen, maxIdleCount, maxIdleTime, pending, conns,
                 clients, workers>>

SetConnMaxIdleTime(s, d) ==
  /\ LockFree
  /\ Idle(s)
  /\ panic' = IF Wakes(d, maxIdleTime) THEN "cleanerCh" ELSE panic
  /\ maxIdleTime' = d
  /\ StartCleaner(maxLifetime, d, numOpen)
  /\ UNCHANGED <<freeConn, connRequests, numOpen, openerCh, closed, inUse, reply,
                 toClose, maxOpen, maxIdleCount, maxLifetime, pending, conns,
                 clients, workers>>

CleanerAwake == LockFree /\ cleaner # "off" /\ toClose[Cleaner] = {}

CleanerStops == closed \/ numOpen = 0 \/ (maxLifetime = 0 /\ maxIdleTime = 0)

\* connectionCleanerRunLocked: any idle connection may have expired.
CleanerRun ==
  /\ CleanerAwake
  /\ ~CleanerStops
  /\ \E expired \in SUBSET freeConn :
       /\ freeConn' = freeConn \ expired
       /\ toClose' = [toClose EXCEPT ![Cleaner] = expired]
  /\ UNCHANGED <<connRequests, numOpen, openerCh, closed, cleaner, inUse, reply,
                 panic, limits, conns, clients, workers>>

CleanerExit ==
  /\ CleanerAwake
  /\ CleanerStops
  /\ cleaner' = "off"
  /\ UNCHANGED <<freeConn, connRequests, numOpen, openerCh, closed, inUse, reply,
                 toClose, panic, limits, conns, clients, workers>>

-------------------------------------------------------------------------------
\* openDB: SetMaxOpenConns and SetMaxIdleConns of the argument of DBOpen.
Init ==
  /\ \E n \in PoolSizes :
       /\ maxOpen = (IF n < 0 THEN 0 ELSE n)
       /\ maxIdleCount = (IF n > 0 THEN n ELSE -1)
  /\ maxLifetime = 0
  /\ maxIdleTime = 0
  /\ freeConn = {}
  /\ connRequests = {}
  /\ numOpen = 0
  /\ openerCh = 0
  /\ closed = FALSE
  /\ dep = {}
  /\ cleaner = "off"
  /\ phase = [c \in Conn |-> "none"]
  /\ inUse = {}
  /\ pc = [p \in Client |-> "idle"]
  /\ attempt = [p \in Client |-> 0]
  /\ dc = [p \in Client |-> NoConn]
  /\ reply = [p \in Client |-> Empty]
  /\ toClose = [q \in Process |-> {}]
  /\ pending = [s \in Setter |-> 0]
  /\ opener = "idle"
  /\ stopped = FALSE
  /\ panic = NoPanicYet

Obtain(p) == \/ Refused(p) \/ TakeFree(p) \/ Request(p)
             \/ Dial(p) \/ DialOk(p) \/ DialFail(p)
             \/ ReceiveConn(p) \/ ReceiveError(p)

PutConn(p) == PutPanic(p) \/ PutGood(p) \/ PutBad(p)

ClientStep(p) == Obtain(p) \/ PutConn(p)

CloseStep(q) == \E c \in Conn : CloseConn(q, c) \/ FinalClose(q, c)

OpenerStep == \/ OpenerTake \/ OpenerExit
              \/ OpenerKeep \/ OpenerDrop \/ OpenerFail

SetterStep(s) ==
  \/ \E n \in PoolSizes : SetMaxOpenConns(s, n)
  \/ \E n \in IdleSizes : pending[s] = 0 /\ SetMaxIdleConns(s, n)
  \/ SyncIdle(s)
  \/ \E d \in Lifetimes : SetConnMaxLifetime(s, d)
  \/ \E d \in IdleTimes : SetConnMaxIdleTime(s, d)

CleanerStep == CleanerRun \/ CleanerExit

Step == \/ \E p \in Client : Call(p) \/ ClientStep(p) \/ Cancel(p)
        \/ \E q \in Process : CloseStep(q)
        \/ \E s \in Setter : SetterStep(s)
        \/ OpenerStep
        \/ CleanerStep
        \/ DBClose
        \/ Stop

\* A panic ends the process.
Running == panic = NoPanicYet

Next == Running /\ Step

\* A caller that has got a connection gives it back, Connect returns, and the
\* goroutines run; no application has to call, to cancel, to set or to close.
Fairness ==
  /\ \A p \in Client : WF_vars(Running /\ ClientStep(p))
  /\ \A q \in Process : WF_vars(Running /\ CloseStep(q))
  /\ \A s \in Setter : WF_vars(Running /\ SyncIdle(s))
  /\ WF_vars(Running /\ OpenerStep)
  /\ WF_vars(Running /\ Stop)

Spec == Init /\ [][Next]_vars

FairSpec == Spec /\ Fairness

-------------------------------------------------------------------------------
(* Properties.                                                             *)

OpenConns == {c \in Conn : Open(c)}
Dialing   == {p \in Client : pc[p] = "dial"}
Opening   == IF opener = "dial" THEN 1 ELSE 0

\* Every established connection is in exactly one place: in db.freeConn, with a
\* caller, on the channel of one request, or with one goroutine that closes it.
\* None is shared and none is lost, whatever the order of put, take, cancel,
\* expiry, shrinking and DBClose.
Owned(c) ==
  \/ c \in freeConn
  \/ \E p \in Client : dc[p] = c \/ reply[p] = c
  \/ \E q \in Process : c \in toClose[q]

Apart ==
  \A c \in Conn :
    /\ c \in freeConn => /\ \A p \in Client : dc[p] # c /\ reply[p] # c
                         /\ \A q \in Process : c \notin toClose[q]
    /\ \A p, r \in Client : /\ dc[p] = c => reply[r] # c
                            /\ dc[p] = c /\ dc[r] = c => p = r
                            /\ reply[p] = c /\ reply[r] = c => p = r
    /\ \A p \in Client, q \in Process :
         dc[p] = c \/ reply[p] = c => c \notin toClose[q]
    /\ \A q, t \in Process : c \in toClose[q] /\ c \in toClose[t] => q = t

OneOwner == Apart /\ \A c \in Conn : Open(c) <=> Owned(c)

\* Where the clients, their requests and DBClose can be.
Shape ==
  /\ \A p \in Client : dc[p] # NoConn <=> pc[p] \in {"use", "drain"}
  /\ \A p \in Client : reply[p] # Empty => pc[p] = "wait"
  /\ ~closed => \A p \in Client :
       p \in connRequests => pc[p] = "wait" /\ reply[p] = Empty
  /\ ~closed => toClose[Closer] = {}

\* What the marks on a connection say in each place it can be.
Marks ==
  /\ \A c \in Conn : c \in dep <=> phase[c] = "live"
  /\ \A c \in freeConn : phase[c] = "live"
  /\ \A p \in Client : dc[p] \in Conn => phase[dc[p]] = "live" /\ dc[p] \in inUse
  /\ \A p \in Client :
       reply[p] \in Conn => phase[reply[p]] = "live" /\ reply[p] \in inUse
  /\ \A q \in Process : \A c \in toClose[q] : Open(c)

\* putConn never gets a connection that is not inUse, and removeDepLocked finds
\* the dependency it removes, whoever handed the connection over: neither of
\* these two panics can happen.
PairedUse == panic \notin {"putConn", "removeDep"}

\* The inductive invariant behind OneOwner and PairedUse: a connection is owned
\* once, and its owner finds it live, inUse and with its dependency.
PoolInv == OneOwner /\ Shape /\ Marks /\ PairedUse

\* numOpen counts the established connections and those on order: with a
\* caller in Connect, with the opener, or as a token in openerCh.  It is never
\* less, so InUse of DB.Stats is never negative, and it is exact until DBClose.
OnOrder == openerCh + Opening + Cardinality(Dialing)

OpenCount ==
  /\ numOpen >= Cardinality(OpenConns) + OnOrder
  /\ ~closed => numOpen = Cardinality(OpenConns) + OnOrder

\* Whatever the order of SetMaxOpenConns, dials, failures and retries, the
\* established connections never outnumber the largest limit that was ever set.
OpenWithinLimit ==
  \A m \in PoolSizes :
    (\A n \in PoolSizes : 0 < n /\ n <= m) => Cardinality(OpenConns) <= m

\* No step raises numOpen past the limit in force at that step, even when the
\* limit has just been lowered below the connections that are open.
NeverOpensPastLimit ==
  [][numOpen' > numOpen => maxOpen = 0 \/ numOpen' <= maxOpen]_vars

\* db.freeConn is never longer than the idle limit in force, also just after
\* the limit was lowered.
IdleWithinLimit == Cardinality(freeConn) <= IdleLimit(maxIdleCount)

\* The pool as the set of idle connections sees it: what is out is with a caller,
\* on the channel of a request, or being closed by one of these or by DBClose.
Out ==
  {c \in Conn : \/ \E p \in Client : dc[p] = c \/ reply[p] = c \/ c \in toClose[p]
                \/ c \in toClose[Closer]}

IdlePart == INSTANCE IdleSet WITH
  idle    <- freeConn,
  maxIdle <- IdleLimit(maxIdleCount),
  toClose <- [s \in Setter |-> toClose[s]],
  swept   <- toClose[Cleaner],
  out     <- Out,
  open    <- OpenConns

\* The pool does nothing with db.freeConn that the set of IdleSet, which the slice of
\* IdleSlice implements, does not allow: one connection at a time comes and goes, within
\* the idle limit in force, a setter takes no more than the surplus, and what a
\* setter or the cleaner has taken nobody else closes or hands out.
UsesIdleSet == IdlePart!SetSpec

\* The idle limit exceeds the open limit only while some SetMaxOpenConns has
\* still to reduce it, in spite of the unlock between its two halves.
IdleLimitSynced ==
  maxOpen > 0 /\ IdleLimit(maxIdleCount) > maxOpen => \E s \in Setter : pending[s] # 0

\* No idle connection is kept from a caller that waits for one: while a caller
\* that accepts cached connections has its request pending, none is idle.
NoIdleWhileWaiting ==
  (\E p \in connRequests : Cached(p)) => freeConn = {}

\* No lost wakeup: while such a caller waits, something is under way that will
\* end in a lock section that looks at the requests again.
WakeupOwed ==
  (\E p \in connRequests : Cached(p)) /\ ~closed =>
    \/ OnOrder > 0
    \/ \E p \in Client : dc[p] # NoConn \/ reply[p] \in Conn
    \/ \E q \in Process : toClose[q] # {}

\* A caller that accepts cached connections and waits for one does not wait for
\* ever, given that the callers give back what they got.
WaiterServed ==
  \A p \in Client : (pc[p] = "wait" /\ Cached(p)) ~> pc[p] # "wait"

\* Every connection that was open when DBClose was called, or is opened later,
\* is closed in the end.
AllClosed == closed ~> OpenConns = {}
==============================================================================
