--------------------------------- MODULE Stmt ----------------------------------
(***************************************************************************)
(* A prepared statement of a DB: goroutines execute it on connections of   *)
(* the pool, query it, bind it to a transaction and close it, while the    *)
(* connections come and go.  Each connection it runs on has a driver       *)
(* statement, which must be open while it is used, and be closed once and  *)
(* before its connection.                                                  *)
(*                                                                         *)
(* The pool is reduced to what a statement sees (ConnPool models it): an   *)
(* idle or a new connection is got, and put back as idle or to be closed.  *)
(* A driver statement is named by its connection and the client that has   *)
(* prepared it.  Definitions whose names end in Fault are plausible bugs   *)
(* that only the mutant runs use.                                          *)
(***************************************************************************)
EXTENDS Naturals, FiniteSets

CONSTANTS
  Client, Conn,
  Self,      \* the statement as a dependency of itself
  None

ASSUME StmtAssumption ==
  /\ None \notin Client \cup Conn \cup (Conn \X Client)
  /\ Self \notin {"rows", "bound"} \X Client

ASSUME ConnFinite == IsFiniteSet(Conn)

VARIABLES
  pc,        \* of each client
  using,     \* the connection it uses
  \* the statement
  closed, css, deps,
  lastNumClosed,
  fin,       \* the client in finalClose, which holds s.mu
  todo, cur, \* the driver statements it has still to see, the one it looks at
  \* the connections
  phase,     \* none, idle, used, doomed (to be closed), closing, copied, gone
  inUse, onPut, openStmt,
  \* the driver statements
  made, shut,
  late,      \* has one been closed after its connection?
  \* the transaction
  tx,        \* its connection
  bound      \* the clients whose StmtContext has made a statement of it

stmtVars == <<closed, css, deps, lastNumClosed>>
finVars == <<fin, todo, cur>>
connVars == <<phase, inUse, onPut, openStmt>>
dsVars == <<made, shut, late>>
txVars == <<tx, bound>>
vars == <<pc, using, stmtVars, finVars, connVars, dsVars, txVars>>

Execs == {"conn", "look", "prepare", "append", "use"}
Binds == {"bindlook", "bindprepare", "bindappend", "dep"}

TypeOK ==
  /\ pc \in [Client -> Execs \cup Binds \cup
              {"idle", "rows", "drop", "closing", "dropself", "final", "txend"}]
  /\ using \in [Client -> Conn \cup {None}]
  /\ closed \in BOOLEAN /\ late \in BOOLEAN
  /\ deps \subseteq {Self} \cup ({"rows", "bound"} \X Client)
  /\ lastNumClosed \in 0..Cardinality(Conn)
  /\ {css, todo, openStmt, onPut} \subseteq SUBSET made
  /\ made \subseteq Conn \X Client /\ shut \subseteq made
  /\ fin \in Client \cup {None} /\ cur \in made \cup {None}
  /\ phase \in [Conn -> {"none", "idle", "used", "doomed", "closing", "copied", "gone"}]
  /\ inUse \subseteq Conn
  /\ tx \in Conn \cup {None} /\ bound \subseteq Client

Init ==
  /\ pc = [p \in Client |-> "idle"] /\ using = [p \in Client |-> None]
  /\ closed = FALSE /\ css = {} /\ deps = {Self} /\ lastNumClosed = 0
  /\ fin = None /\ todo = {} /\ cur = None
  /\ phase = [c \in Conn |-> "none"] /\ inUse = {} /\ onPut = {} /\ openStmt = {}
  /\ made = {} /\ shut = {} /\ late = FALSE
  /\ tx = None /\ bound = {}

On(c) == {c} \X Client
Goto(p, label) == pc' = [pc EXCEPT ![p] = label]
NumClosed == Cardinality({c \in Conn : phase[c] = "gone"})
DbmuClosed(c) == phase[c] \in {"closing", "copied", "gone"}

\* The mutex s.mu is free unless finalClose runs.
MuFree == fin = None

------------------------------------------------------------------------------
(* Connections: DB.conn, putConn, driverConn.Close and its finalClose.    *)

Take(c) ==
  /\ phase[c] \in {"none", "idle"}
  /\ phase' = [phase EXCEPT ![c] = "used"]
  /\ inUse' = inUse \cup {c}
  /\ UNCHANGED <<onPut, openStmt>>

\* A connection that has expired or cannot be reset: conn.Close, no putConn.
Discard(c) ==
  /\ phase[c] = "idle"
  /\ phase' = [phase EXCEPT ![c] = "doomed"]
  /\ inUse' = inUse \cup {c}
  /\ UNCHANGED <<pc, using, stmtVars, finVars, onPut, openStmt, dsVars, txVars>>

\* putConn runs the closures of onPut before it decides.
PutConn(c, kinds) ==
  /\ inUse' = inUse \ {c}
  /\ shut' = shut \cup (onPut \cap On(c))
  /\ onPut' = onPut \ On(c)
  /\ \E kind \in kinds : phase' = [phase EXCEPT ![c] = kind]
  /\ UNCHANGED <<openStmt, made, late>>

CloseConn(c) ==
  /\ phase[c] = "doomed"
  /\ phase' = [phase EXCEPT ![c] = "closing"]
  /\ UNCHANGED <<pc, using, stmtVars, finVars, inUse, onPut, openStmt, dsVars, txVars>>

ConnFinalCloseFault(c) ==
  /\ phase[c] = "closing"
  /\ phase' = [phase EXCEPT ![c] = "copied"]
  /\ openStmt' = openStmt \ On(c)
  /\ UNCHANGED <<pc, using, stmtVars, finVars, inUse, onPut, dsVars, txVars>>

\* finalClose copies openStmt, closes what it has copied, ...
ConnFinalClose(c) ==
  /\ phase[c] = "closing"
  /\ phase' = [phase EXCEPT ![c] = "copied"]
  /\ openStmt' = openStmt \ On(c)
  /\ shut' = shut \cup (openStmt \cap On(c))
  /\ UNCHANGED <<pc, using, stmtVars, finVars, inUse, onPut, made, late, txVars>>

\* ... and then calls ci.Close.
CiClose(c) ==
  /\ phase[c] = "copied"
  /\ phase' = [phase EXCEPT ![c] = "gone"]
  /\ UNCHANGED <<pc, using, stmtVars, finVars, inUse, onPut, openStmt, dsVars, txVars>>

------------------------------------------------------------------------------
(* ExecContext and QueryContext, under the read lock of s.closemu; a      *)
(* writer that waits for it ("closing") keeps them out.                   *)

RemoveClosedFault ==
  /\ css' = {d \in css : d[1] \in inUse}
  /\ lastNumClosed' = NumClosed

\* Entries of closed connections go when enough connections have closed.
RemoveClosed ==
  IF NumClosed - lastNumClosed < (Cardinality(css) \div 2) + 1
    THEN UNCHANGED <<css, lastNumClosed>>
    ELSE /\ css' = {d \in css : ~DbmuClosed(d[1])}
         /\ lastNumClosed' = NumClosed

Start(p) ==
  /\ pc[p] = "idle" /\ MuFree /\ ~closed
  /\ \A q \in Client : pc[q] # "closing"
  /\ RemoveClosed
  /\ Goto(p, "conn")
  /\ UNCHANGED <<using, closed, deps, finVars, connVars, dsVars, txVars>>

GetConn(p) ==
  /\ pc[p] = "conn"
  /\ \E c \in Conn : Take(c) /\ using' = [using EXCEPT ![p] = c]
  /\ Goto(p, "look")
  /\ UNCHANGED <<stmtVars, finVars, dsVars, txVars>>

Look(p) ==
  /\ pc[p] = "look" /\ MuFree
  /\ Goto(p, IF css \cap On(using[p]) = {} THEN "prepare" ELSE "use")
  /\ UNCHANGED <<using, stmtVars, finVars, connVars, dsVars, txVars>>

\* prepareLocked notes the driver statement in openStmt; the mutex of the
\* connection stays locked until prepareOnConnLocked has appended it to css.
PrepareAs(p, next) ==
  LET d == <<using[p], p>> IN
  /\ \A q \in Client : ~(pc[q] \in {"append", "bindappend"} /\ using[q] = using[p])
  /\ made' = made \cup {d} /\ openStmt' = openStmt \cup {d}
  /\ Goto(p, next)
  /\ UNCHANGED <<using, stmtVars, finVars, phase, inUse, onPut, shut, late, txVars>>

Append(p, next) ==
  /\ MuFree
  /\ css' = css \cup {<<using[p], p>>}
  /\ Goto(p, next)
  /\ UNCHANGED <<using, closed, deps, lastNumClosed, finVars, connVars, dsVars, txVars>>

Prepare(p) == pc[p] = "prepare" /\ PrepareAs(p, "append")
AppendCss(p) == pc[p] = "append" /\ Append(p, "use")

\* The release of a prepare that fails, and of an execution.
Release(p) ==
  /\ pc[p] \in {"prepare", "use"}
  /\ PutConn(using[p], {"idle", "doomed"})
  /\ using' = [using EXCEPT ![p] = None]
  /\ Goto(p, "idle")
  /\ UNCHANGED <<stmtVars, finVars, txVars>>

QueryFault(p) ==
  /\ pc[p] = "use"
  /\ Goto(p, "rows")
  /\ UNCHANGED <<using, stmtVars, finVars, connVars, dsVars, txVars>>

\* A query leaves rows that own the connection and keep the statement.
Query(p) ==
  /\ pc[p] = "use"
  /\ deps' = deps \cup {<<"rows", p>>}
  /\ Goto(p, "rows")
  /\ UNCHANGED <<using, closed, css, lastNumClosed, finVars, connVars, dsVars, txVars>>

CloseRows(p) ==
  /\ pc[p] = "rows"
  /\ PutConn(using[p], {"idle", "doomed"})
  /\ using' = [using EXCEPT ![p] = None]
  /\ Goto(p, "drop")
  /\ UNCHANGED <<stmtVars, finVars, txVars>>

\* removeDep: who removes the last dependency runs finalClose.
RemoveDep(p, dep, next) ==
  /\ deps' = deps \ {dep}
  /\ Goto(p, IF deps' = {} THEN "final" ELSE next)
  /\ UNCHANGED <<using, closed, css, lastNumClosed, finVars, connVars, dsVars>>

DropRows(p) == pc[p] = "drop" /\ RemoveDep(p, <<"rows", p>>, "idle") /\ UNCHANGED txVars

------------------------------------------------------------------------------
(* Close and finalClose.                                                  *)

Close(p) ==
  /\ pc[p] = "idle"
  /\ Goto(p, "closing")
  /\ UNCHANGED <<using, stmtVars, finVars, connVars, dsVars, txVars>>

\* With closemu held for writing: no client executes.
CloseLocked(p) ==
  /\ pc[p] = "closing" /\ MuFree
  /\ \A q \in Client : pc[q] \notin Execs
  /\ closed' = TRUE
  /\ Goto(p, IF closed THEN "idle" ELSE "dropself")
  /\ UNCHANGED <<using, css, deps, lastNumClosed, finVars, connVars, dsVars, txVars>>

DropSelf(p) == pc[p] = "dropself" /\ RemoveDep(p, Self, "idle") /\ UNCHANGED txVars

FinalClose(p) ==
  /\ pc[p] = "final" /\ fin = None
  /\ fin' = p /\ todo' = css /\ css' = {}
  /\ UNCHANGED <<pc, using, closed, deps, lastNumClosed, cur, connVars, dsVars, txVars>>

NoteUnusedFault(p) ==
  /\ fin = p /\ cur = None
  /\ \E d \in todo :
       /\ cur' = d
       /\ todo' = IF phase[d[1]] = "gone" THEN todo \ {d} ELSE todo
  /\ UNCHANGED <<pc, using, stmtVars, fin, connVars, dsVars, txVars>>

\* noteUnusedDriverStatement: later if the connection is in use, at once if
\* it is not, and not at all if it is closed.
NoteUnused(p) ==
  /\ fin = p /\ cur = None
  /\ \E d \in todo :
       /\ cur' = d
       /\ onPut' = IF d[1] \in inUse THEN onPut \cup {d} ELSE onPut
       /\ todo' = IF d[1] \in inUse \/ phase[d[1]] = "gone" THEN todo \ {d} ELSE todo
  /\ UNCHANGED <<pc, using, stmtVars, fin, phase, inUse, openStmt, dsVars, txVars>>

\* Its ds.Close, after it has looked at finalClosed.
CloseUnused(p) ==
  /\ fin = p /\ cur # None /\ cur \in todo
  /\ todo' = todo \ {cur}
  /\ shut' = shut \cup {cur}
  /\ late' = (late \/ (cur \notin shut /\ phase[cur[1]] = "gone"))
  /\ UNCHANGED <<pc, using, stmtVars, fin, cur, connVars, made, txVars>>

\* removeOpenStmt locks the connection.
RemoveOpenStmt(p) ==
  /\ fin = p /\ cur # None /\ cur \notin todo
  /\ \A q \in Client : ~(pc[q] \in {"append", "bindappend"} /\ using[q] = cur[1])
  /\ openStmt' = openStmt \ {cur}
  /\ cur' = None
  /\ UNCHANGED <<pc, using, stmtVars, fin, todo, phase, inUse, onPut, dsVars, txVars>>

EndFinal(p) ==
  /\ fin = p /\ cur = None /\ todo = {}
  /\ fin' = None
  /\ Goto(p, IF using[p] = None THEN "idle" ELSE "txend")
  /\ UNCHANGED <<using, stmtVars, todo, cur, connVars, dsVars, txVars>>

------------------------------------------------------------------------------
(* A transaction, and Tx.StmtContext of this statement in it.             *)

BeginTx ==
  /\ tx = None
  /\ \E c \in Conn : Take(c) /\ tx' = c
  /\ UNCHANGED <<pc, using, stmtVars, finVars, dsVars, bound>>

StmtContext(p) ==
  /\ tx # None /\ pc[p] = "idle" /\ p \notin bound
  /\ \A q \in Client : using[q] = tx => pc[q] \in Binds
  /\ using' = [using EXCEPT ![p] = tx]
  /\ Goto(p, "bindlook")
  /\ UNCHANGED <<stmtVars, finVars, connVars, dsVars, txVars>>

\* A closed statement is prepared anew, outside of css.
BindLook(p) ==
  /\ pc[p] = "bindlook" /\ MuFree
  /\ IF closed
       THEN UNCHANGED <<css, lastNumClosed>> /\ Goto(p, "idle")
            /\ using' = [using EXCEPT ![p] = None]
       ELSE /\ RemoveClosed
            /\ Goto(p, IF css \cap On(tx) = {} THEN "bindprepare" ELSE "dep")
            /\ UNCHANGED using
  /\ UNCHANGED <<closed, deps, finVars, connVars, dsVars, txVars>>

BindPrepare(p) == pc[p] = "bindprepare" /\ PrepareAs(p, "bindappend")
BindAppend(p) == pc[p] = "bindappend" /\ Append(p, "dep")

AddDep(p) ==
  /\ pc[p] = "dep"
  /\ deps' = deps \cup {<<"bound", p>>} /\ bound' = bound \cup {p}
  /\ using' = [using EXCEPT ![p] = None]
  /\ Goto(p, "idle")
  /\ UNCHANGED <<closed, css, lastNumClosed, finVars, connVars, dsVars, tx>>

\* Commit or Rollback by p, when nobody uses the transaction.
EndTx(p) ==
  /\ tx # None /\ pc[p] = "idle"
  /\ \A q \in Client : pc[q] \notin Binds \cup {"txend"} /\ using[q] # tx
  /\ using' = [using EXCEPT ![p] = tx]
  /\ Goto(p, "txend")
  /\ UNCHANGED <<stmtVars, finVars, connVars, dsVars, txVars>>

ClosePrepared(p) ==
  /\ pc[p] = "txend"
  /\ \E q \in bound : bound' = bound \ {q} /\ RemoveDep(p, <<"bound", q>>, "txend")
  /\ UNCHANGED tx

\* ErrBadConn skips closePrepared.
ReleaseTx(p) ==
  /\ pc[p] = "txend"
  /\ \/ bound = {} /\ PutConn(tx, {"idle", "doomed"})
     \/ PutConn(tx, {"doomed"})
  /\ tx' = None /\ bound' = {}
  /\ using' = [using EXCEPT ![p] = None]
  /\ Goto(p, "idle")
  /\ UNCHANGED <<stmtVars, finVars>>

ClientStep(p) ==
  \/ Start(p) \/ GetConn(p) \/ Look(p) \/ Prepare(p) \/ AppendCss(p) \/ Release(p)
  \/ Query(p) \/ CloseRows(p) \/ DropRows(p)
  \/ Close(p) \/ CloseLocked(p) \/ DropSelf(p) \/ FinalClose(p) \/ NoteUnused(p)
  \/ CloseUnused(p) \/ RemoveOpenStmt(p) \/ EndFinal(p)
  \/ StmtContext(p) \/ BindLook(p) \/ BindPrepare(p) \/ BindAppend(p) \/ AddDep(p)
  \/ EndTx(p) \/ ClosePrepared(p) \/ ReleaseTx(p)

ConnStep(c) == Discard(c) \/ CloseConn(c) \/ ConnFinalClose(c) \/ CiClose(c)

Next == BeginTx \/ (\E p \in Client : ClientStep(p)) \/ (\E c \in Conn : ConnStep(c))

Spec == Init /\ [][Next]_vars

------------------------------------------------------------------------------
(* A client that uses the statement, or has bound it to a transaction,    *)
(* has an open driver statement on a connection that is open.             *)
NoStaleUse ==
  /\ \A p \in Client : pc[p] \in {"use", "rows"} =>
       phase[using[p]] = "used" /\ (made \ shut) \cap On(using[p]) # {}
  /\ bound # {} => (made \ shut) \cap On(tx) # {}

(* Every removeDep finds its dependency: those of open rows, of bound     *)
(* statements and of the statement itself are there until they are        *)
(* removed.                                                               *)
PairedDep ==
  /\ \A p \in Client : pc[p] \in {"rows", "drop"} => <<"rows", p>> \in deps
  /\ \A p \in bound : <<"bound", p>> \in deps
  /\ ~closed \/ (\E p \in Client : pc[p] = "dropself") => Self \in deps

(* "Track each driverConn's open statements, so we can close them before  *)
(* closing the conn": each driver statement is closed, and never after    *)
(* its connection.  It is not closed at all on a connection that DB.conn  *)
(* discards, because no putConn runs what noteUnusedDriverStatement left. *)
ClosedBeforeConn ==
  /\ \A d \in made : phase[d[1]] = "gone" /\ d[1] \notin inUse => d \in shut
  /\ ~late

(* When the statement is closed and nothing of it or of a transaction is  *)
(* under way, no driver statement is left open, but on a connection that  *)
(* is being closed or was discarded.  A transaction that has ended with   *)
(* ErrBadConn is the one exception: it leaves its dependencies behind.    *)
NoStmtLeak ==
  closed /\ tx = None /\ (\A p \in Client : pc[p] = "idle") =>
    /\ deps \subseteq {"bound"} \X Client
    /\ deps = {} => \A d \in made \ shut :
                      phase[d[1]] \in {"doomed", "closing"} \/ d[1] \in inUse
================================================================================
