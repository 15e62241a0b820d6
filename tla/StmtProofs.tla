------------------------------ MODULE StmtProofs -------------------------------
(***************************************************************************)
(* Proofs about Stmt: for any number of goroutines and connections, no     *)
(* driver statement is used after it is closed, none is closed after its   *)
(* connection, and none is left open.                                      *)
(***************************************************************************)
EXTENDS Stmt, FiniteSetTheorems, TLAPS

Labels ==
  Execs \cup Binds \cup {"idle", "rows", "drop", "closing", "dropself", "final", "txend"}

(* TypeOK, without the two variables of RestTyped.                       *)
Typed ==
  /\ pc \in [Client -> Labels] /\ using \in [Client -> Conn \cup {None}]
  /\ closed \in BOOLEAN
  /\ deps \subseteq {Self} \cup ({"rows", "bound"} \X Client)
  /\ fin \in Client \cup {None} /\ cur \in made \cup {None}
  /\ css \subseteq made /\ todo \subseteq made /\ onPut \subseteq made
  /\ openStmt \subseteq made /\ shut \subseteq made
  /\ made \subseteq Conn \X Client
  /\ phase \in [Conn -> {"none", "idle", "used", "doomed", "closing", "copied", "gone"}]
  /\ inUse \subseteq Conn
  /\ tx \in Conn \cup {None} /\ bound \subseteq Client

\* The clients that own the connection they use, and those that end the
\* transaction.
Owning == {"look", "prepare", "append", "use", "rows"}
Ending(p) == pc[p] = "txend" \/ (pc[p] = "final" /\ using[p] # None)

(* A connection in use belongs to one client or to the transaction, and   *)
(* the transaction does not end while a client binds the statement to it. *)
OwnInv ==
  /\ \A p \in Client :
       /\ pc[p] \in Owning => using[p] \in Conn /\ using[p] # tx /\ phase[using[p]] = "used"
       /\ pc[p] \in Binds \/ Ending(p) => using[p] = tx /\ tx # None
       /\ pc[p] \in {"idle", "conn", "drop", "closing", "dropself"} => using[p] = None
  /\ \A p, q \in Client :
       /\ p # q /\ pc[p] \in Owning /\ pc[q] \in Owning => using[p] # using[q]
       /\ Ending(p) => pc[q] \notin Binds
       /\ Ending(p) /\ Ending(q) => p = q
  /\ tx # None => phase[tx] = "used"
  /\ tx = None => bound = {}
  /\ \A c \in Conn : phase[c] = "used" => c \in inUse

(* The statement is a dependency of itself until its one Close, and those *)
(* of rows go with the rows.                                              *)
DepInv ==
  /\ PairedDep
  /\ \A p \in Client : <<"rows", p>> \in deps => pc[p] \in {"rows", "drop"}
  /\ \A p, q \in Client : pc[p] = "dropself" /\ pc[q] = "dropself" => p = q
  /\ \A p \in Client : pc[p] \in {"dropself", "final"} => closed
  /\ \A p \in Client : pc[p] \in Execs => ~closed
  /\ closed /\ Self \in deps => \E p \in Client : pc[p] = "dropself"

(* finalClose has taken css with it, and when no dependency is left there *)
(* is a finalClose that has still to come.                                *)
FinInv ==
  /\ fin = None => cur = None /\ todo = {}
  /\ fin # None => pc[fin] = "final" /\ css = {}
  /\ css \cap todo = {} /\ css \cap onPut = {} /\ todo \cap onPut = {}
  /\ deps = {} => css = {} \/ \E p \in Client : pc[p] \in {"final", "dep"}

Mine(p) == <<using[p], p>>

(* What is in css is open until its connection closes it; a client that   *)
(* prepares has not done so on this connection before.                    *)
MadeInv ==
  /\ \A d \in css : phase[d[1]] \notin {"copied", "gone"} => d \notin shut
  /\ \A p \in Client :
       /\ pc[p] \in {"append", "bindappend"} =>
            Mine(p) \in made /\ Mine(p) \notin shut \cup onPut \cup todo \cup css
       /\ pc[p] \in {"prepare", "bindprepare"} => Mine(p) \notin made
  /\ ~closed =>
       \A d \in made : \/ DbmuClosed(d[1]) \/ d \in css
                       \/ pc[d[2]] \in {"append", "bindappend"} /\ Mine(d[2]) = d
  /\ \A d \in made \ shut :
       \/ DbmuClosed(d[1]) \/ d \in css \cup todo \/ d \in onPut
       \/ pc[d[2]] \in {"append", "bindappend"} /\ Mine(d[2]) = d

\* A driver statement of the connection is open, and is not about to be closed.
Live(c) == \E d \in made : d[1] = c /\ d \notin shut /\ ~(d = cur /\ d \in todo)

LiveInv ==
  /\ \A p \in Client : /\ pc[p] \in {"use", "rows"} => Live(using[p])
                       /\ pc[p] = "dep" => Live(tx)
  /\ bound # {} => Live(tx)

(* An open driver statement is one that its connection knows, or one that *)
(* putConn will close; a closing connection leaves only the latter.       *)
ShutInv ==
  /\ ~late
  /\ \A d \in made \ shut : d \in openStmt \/ (d \in onPut /\ d[1] \in inUse)
  /\ \A d \in made \ shut :
       phase[d[1]] \in {"copied", "gone"} => d \in onPut /\ d[1] \in inUse
  /\ cur # None /\ cur \notin todo => cur \in shut \/ (cur \in onPut /\ cur[1] \in inUse)
  /\ \A d \in onPut : d[1] \in inUse

Inv == Typed /\ OwnInv /\ DepInv /\ FinInv /\ MadeInv /\ LiveInv /\ ShutInv

(* The names of things of different kinds differ.                         *)
LEMMA Distinct ==
  /\ \A p \in Client : p # None
  /\ \A c \in Conn : c # None
  /\ \A d \in Conn \X Client : d # None
  /\ \A p \in Client : Self # <<"rows", p>> /\ Self # <<"bound", p>>
  /\ \A p, q \in Client : <<"rows", p>> # <<"bound", q>>
  BY StmtAssumption DEF StmtAssumption

(* What leaves css is of a connection that is being closed.               *)
LEMMA RemoveClosedDrops ==
  ASSUME RemoveClosed
  PROVE  css' \subseteq css /\ \A d \in css \ css' : DbmuClosed(d[1])
  BY DEF RemoveClosed

(* The inductive invariant holds for a statement that has just been made. *)
LEMMA InitInv == Init => Inv
<1> SUFFICES ASSUME Init PROVE Inv
  OBVIOUS
<1> USE DEF Init, Labels, Execs, Binds, Owning, Ending, Mine, Live, DbmuClosed
<1>1. Typed
  BY DEF Typed
<1>2. OwnInv
  BY DEF OwnInv
<1>3. DepInv
  BY Distinct DEF DepInv, PairedDep
<1>4. FinInv /\ MadeInv /\ LiveInv /\ ShutInv
  BY DEF FinInv, MadeInv, LiveInv, ShutInv
<1> QED
  BY <1>1, <1>2, <1>3, <1>4 DEF Inv

(* Every step of a client or a connection keeps the inductive invariant.  *)
LEMMA NextInv == Inv /\ [Next]_vars => Inv'
<1> SUFFICES ASSUME Inv, [Next]_vars PROVE Inv'
  OBVIOUS
<1> USE DEF Goto, stmtVars, finVars, connVars, dsVars, txVars, Labels, Execs, Binds, Owning,
            Ending, Mine, Live, DbmuClosed, MuFree
<1>0. Typed /\ OwnInv /\ DepInv /\ FinInv /\ MadeInv /\ LiveInv /\ ShutInv
  BY DEF Inv

<1>1. ASSUME NEW p \in Client, Start(p) PROVE Inv'
  <2>1. Typed'
    BY <1>0, <1>1, RemoveClosedDrops DEF Start, Typed
  <2>2. OwnInv' /\ DepInv' /\ FinInv'
    BY <1>0, <1>1, <2>1, RemoveClosedDrops DEF Start, Typed, OwnInv, DepInv, PairedDep,
       FinInv, MadeInv
  <2>3. MadeInv' /\ LiveInv' /\ ShutInv'
    BY <1>0, <1>1, <2>1, RemoveClosedDrops DEF Start, Typed, OwnInv, FinInv, MadeInv, DepInv,
       LiveInv, ShutInv
  <2> QED
    BY <2>1, <2>2, <2>3 DEF Inv
<1>2. ASSUME NEW p \in Client, GetConn(p) PROVE Inv'
  <2>1. Typed'
    BY <1>0, <1>2 DEF GetConn, Take, Typed
  <2>2. OwnInv'
    <3>1. PICK c \in Conn : Take(c) /\ using' = [using EXCEPT ![p] = c]
      BY <1>2 DEF GetConn
    <3>2. /\ phase[c] # "used" /\ phase' = [phase EXCEPT ![c] = "used"] /\ inUse' = inUse \cup {c}
          /\ pc[p] = "conn" /\ pc' = [pc EXCEPT ![p] = "look"] /\ UNCHANGED <<tx, bound>>
      BY <1>2, <3>1 DEF GetConn, Take
    <3>3. pc'[p] = "look" /\ using'[p] = c
      BY <1>0, <3>1, <3>2 DEF Typed
    <3>4. \A q \in Client \ {p} : pc'[q] = pc[q] /\ using'[q] = using[q]
      BY <1>0, <3>1, <3>2 DEF Typed
    <3>5. tx # c /\ \A q \in Client : pc[q] \in Owning => using[q] # c
      BY <1>0, <3>2, Distinct DEF OwnInv
    <3>6. phase'[c] = "used" /\ \A e \in Conn \ {c} : phase'[e] = phase[e]
      BY <1>0, <3>2 DEF Typed
    <3> QED
      BY <1>0, <2>1, <3>2, <3>3, <3>4, <3>5, <3>6 DEF OwnInv, Typed
  <2>3. DepInv' /\ FinInv'
    BY <1>0, <1>2, <2>1 DEF GetConn, Take, Typed, DepInv, PairedDep, FinInv, MadeInv
  <2>4. MadeInv' /\ LiveInv' /\ ShutInv'
    BY <1>0, <1>2, <2>1 DEF GetConn, Take, Typed, OwnInv, FinInv, MadeInv, DepInv, LiveInv,
       ShutInv
  <2> QED
    BY <2>1, <2>2, <2>3, <2>4 DEF Inv
<1>3. ASSUME NEW p \in Client, Look(p) PROVE Inv'
  <2>1. Typed'
    BY <1>0, <1>3 DEF Look, On, Typed
  <2>2. OwnInv' /\ DepInv' /\ FinInv'
    BY <1>0, <1>3, <2>1 DEF Look, On, Typed, OwnInv, DepInv, PairedDep, FinInv, MadeInv
  <2>3. MadeInv' /\ LiveInv' /\ ShutInv'
    BY <1>0, <1>3, <2>1 DEF Look, On, Typed, OwnInv, FinInv, MadeInv, DepInv, LiveInv, ShutInv
  <2> QED
    BY <2>1, <2>2, <2>3 DEF Inv
<1>4. ASSUME NEW p \in Client, Prepare(p) PROVE Inv'
  <2>1. Typed'
    BY <1>0, <1>4 DEF Prepare, PrepareAs, Typed, OwnInv
  <2>2. MadeInv'
    <3>1. /\ made' = made \cup {Mine(p)} /\ pc' = [pc EXCEPT ![p] = "append"]
          /\ UNCHANGED <<using, closed, css, todo, onPut, phase, shut>>
      BY <1>4 DEF Prepare, PrepareAs
    <3>2. Mine(p) \notin made /\ Mine(p) \in Conn \X Client /\ p = Mine(p)[2]
      BY <1>0, <1>4 DEF Prepare, MadeInv, OwnInv, Typed
    <3>3. \A d \in made : d \in Conn \X Client /\ d[2] \in Client
      BY <1>0 DEF Typed
    <3> QED
      BY <1>0, <1>4, <2>1, <3>1, <3>2, <3>3 DEF Prepare, Typed, MadeInv
  <2>3. OwnInv' /\ DepInv' /\ FinInv'
    BY <1>0, <1>4, <2>1 DEF Prepare, PrepareAs, Typed, OwnInv, DepInv, PairedDep, FinInv,
       MadeInv
  <2>4. LiveInv' /\ ShutInv'
    BY <1>0, <1>4, <2>1 DEF Prepare, PrepareAs, Typed, OwnInv, FinInv, MadeInv, LiveInv, ShutInv
  <2> QED
    BY <2>1, <2>2, <2>3, <2>4 DEF Inv
<1>5. ASSUME NEW p \in Client, AppendCss(p) PROVE Inv'
  <2>1. Typed'
    BY <1>0, <1>5 DEF AppendCss, Append, Typed, MadeInv
  <2>2. LiveInv'
    <3>1. UNCHANGED <<using, deps, made, shut, cur, todo, tx, bound>>
      BY <1>5 DEF AppendCss, Append
    <3>2. \A c \in Conn : Live(c) <=> Live(c)'
      BY <3>1
    <3>3. Mine(p) \in made /\ Mine(p) \notin shut \cup todo /\ using[p] \in Conn
      BY <1>0, <1>5 DEF AppendCss, MadeInv, OwnInv, Typed
    <3>4. Live(using[p])
      BY <3>3
    <3> QED
      BY <1>0, <1>5, <2>1, <3>1, <3>2, <3>3, <3>4 DEF AppendCss, Append, LiveInv, OwnInv, Typed
  <2>3. OwnInv' /\ DepInv' /\ FinInv'
    BY <1>0, <1>5, <2>1, Distinct DEF AppendCss, Append, Typed, OwnInv, DepInv, PairedDep,
       FinInv, MadeInv
  <2>4. MadeInv' /\ ShutInv'
    BY <1>0, <1>5, <2>1, Distinct DEF AppendCss, Append, Typed, OwnInv, FinInv, MadeInv,
       DepInv, ShutInv
  <2> QED
    BY <2>1, <2>2, <2>3, <2>4 DEF Inv
<1>6. ASSUME NEW p \in Client, Release(p) PROVE Inv'
  <2>1. Typed'
    BY <1>0, <1>6 DEF Release, PutConn, On, Typed
  <2>2. OwnInv' /\ DepInv' /\ FinInv'
    BY <1>0, <1>6, <2>1 DEF Release, PutConn, On, Typed, OwnInv, DepInv, PairedDep, FinInv,
       MadeInv
  <2>3. MadeInv' /\ LiveInv' /\ ShutInv'
    BY <1>0, <1>6, <2>1 DEF Release, PutConn, On, Typed, OwnInv, FinInv, MadeInv, DepInv,
       LiveInv, ShutInv
  <2> QED
    BY <2>1, <2>2, <2>3 DEF Inv
<1>7. ASSUME NEW p \in Client, Query(p) PROVE Inv'
  <2>1. Typed'
    BY <1>0, <1>7 DEF Query, Typed
  <2>2. OwnInv' /\ DepInv' /\ FinInv'
    BY <1>0, <1>7, <2>1 DEF Query, Typed, OwnInv, DepInv, PairedDep, FinInv, MadeInv
  <2>3. MadeInv' /\ LiveInv' /\ ShutInv'
    BY <1>0, <1>7, <2>1 DEF Query, Typed, OwnInv, FinInv, MadeInv, DepInv, LiveInv, ShutInv
  <2> QED
    BY <2>1, <2>2, <2>3 DEF Inv
<1>8. ASSUME NEW p \in Client, CloseRows(p) PROVE Inv'
  <2>1. Typed'
    BY <1>0, <1>8 DEF CloseRows, PutConn, On, Typed
  <2>2. OwnInv' /\ DepInv' /\ FinInv'
    BY <1>0, <1>8, <2>1 DEF CloseRows, PutConn, On, Typed, OwnInv, DepInv, PairedDep, FinInv,
       MadeInv
  <2>3. MadeInv' /\ LiveInv' /\ ShutInv'
    BY <1>0, <1>8, <2>1 DEF CloseRows, PutConn, On, Typed, OwnInv, FinInv, MadeInv, DepInv,
       LiveInv, ShutInv
  <2> QED
    BY <2>1, <2>2, <2>3 DEF Inv
<1>9. ASSUME NEW p \in Client, DropRows(p) PROVE Inv'
  <2>1. Typed'
    BY <1>0, <1>9 DEF DropRows, RemoveDep, Typed
  <2>2. OwnInv' /\ DepInv' /\ FinInv'
    BY <1>0, <1>9, <2>1, Distinct DEF DropRows, RemoveDep, Typed, OwnInv, DepInv, PairedDep,
       FinInv, MadeInv
  <2>3. MadeInv' /\ LiveInv' /\ ShutInv'
    BY <1>0, <1>9, <2>1, Distinct DEF DropRows, RemoveDep, Typed, OwnInv, FinInv, MadeInv,
       DepInv, LiveInv, ShutInv
  <2> QED
    BY <2>1, <2>2, <2>3 DEF Inv
<1>10. ASSUME NEW p \in Client, Close(p) PROVE Inv'
  <2>1. Typed'
    BY <1>0, <1>10 DEF Close, Typed
  <2>2. OwnInv' /\ DepInv' /\ FinInv'
    BY <1>0, <1>10, <2>1 DEF Close, Typed, OwnInv, DepInv, PairedDep, FinInv, MadeInv
  <2>3. MadeInv' /\ LiveInv' /\ ShutInv'
    BY <1>0, <1>10, <2>1 DEF Close, Typed, OwnInv, FinInv, MadeInv, DepInv, LiveInv, ShutInv
  <2> QED
    BY <2>1, <2>2, <2>3 DEF Inv
<1>11. ASSUME NEW p \in Client, CloseLocked(p) PROVE Inv'
  <2>1. Typed'
    BY <1>0, <1>11 DEF CloseLocked, Typed
  <2>2. OwnInv' /\ DepInv' /\ FinInv'
    BY <1>0, <1>11, <2>1 DEF CloseLocked, Typed, OwnInv, DepInv, PairedDep, FinInv, MadeInv
  <2>3. MadeInv' /\ LiveInv' /\ ShutInv'
    BY <1>0, <1>11, <2>1 DEF CloseLocked, Typed, OwnInv, FinInv, MadeInv, DepInv, LiveInv,
       ShutInv
  <2> QED
    BY <2>1, <2>2, <2>3 DEF Inv
<1>12. ASSUME NEW p \in Client, DropSelf(p) PROVE Inv'
  <2>1. Typed'
    BY <1>0, <1>12 DEF DropSelf, RemoveDep, Typed
  <2>2. OwnInv' /\ DepInv' /\ FinInv'
    BY <1>0, <1>12, <2>1, Distinct DEF DropSelf, RemoveDep, Typed, OwnInv, DepInv, PairedDep,
       FinInv, MadeInv
  <2>3. MadeInv' /\ LiveInv' /\ ShutInv'
    BY <1>0, <1>12, <2>1, Distinct DEF DropSelf, RemoveDep, Typed, OwnInv, FinInv, MadeInv,
       DepInv, LiveInv, ShutInv
  <2> QED
    BY <2>1, <2>2, <2>3 DEF Inv
<1>13. ASSUME NEW p \in Client, FinalClose(p) PROVE Inv'
  <2>1. Typed'
    BY <1>0, <1>13 DEF FinalClose, Typed
  <2>2. OwnInv' /\ DepInv' /\ FinInv'
    BY <1>0, <1>13, <2>1, Distinct DEF FinalClose, Typed, OwnInv, DepInv, PairedDep, FinInv,
       MadeInv
  <2>3. MadeInv' /\ LiveInv' /\ ShutInv'
    BY <1>0, <1>13, <2>1, Distinct DEF FinalClose, Typed, OwnInv, FinInv, MadeInv, DepInv,
       LiveInv, ShutInv
  <2> QED
    BY <2>1, <2>2, <2>3 DEF Inv
<1>14. ASSUME NEW p \in Client, NoteUnused(p) PROVE Inv'
  <2>1. Typed'
    BY <1>0, <1>14 DEF NoteUnused, Typed
  <2>2. OwnInv' /\ DepInv' /\ FinInv'
    BY <1>0, <1>14, <2>1 DEF NoteUnused, Typed, OwnInv, DepInv, PairedDep, FinInv, MadeInv
  <2>3. MadeInv' /\ LiveInv' /\ ShutInv'
    BY <1>0, <1>14, <2>1 DEF NoteUnused, Typed, OwnInv, FinInv, MadeInv, DepInv, LiveInv,
       ShutInv
  <2> QED
    BY <2>1, <2>2, <2>3 DEF Inv
<1>15. ASSUME NEW p \in Client, CloseUnused(p) PROVE Inv'
  <2>1. Typed'
    BY <1>0, <1>15 DEF CloseUnused, Typed
  <2>2. OwnInv'
    BY <1>0, <1>15, <2>1 DEF CloseUnused, Typed, OwnInv
  <2>3. DepInv'
    BY <1>0, <1>15, <2>1 DEF CloseUnused, Typed, DepInv, PairedDep
  <2>4. FinInv'
    BY <1>0, <1>15, <2>1 DEF CloseUnused, Typed, FinInv, MadeInv, DepInv
  <2>5. MadeInv'
    BY <1>0, <1>15, <2>1 DEF CloseUnused, Typed, OwnInv, FinInv, MadeInv, DepInv
  <2>6. LiveInv'
    BY <1>0, <1>15, <2>1 DEF CloseUnused, Typed, OwnInv, FinInv, MadeInv, LiveInv
  <2>7. ShutInv'
    BY <1>0, <1>15, <2>1 DEF CloseUnused, Typed, OwnInv, FinInv, ShutInv, MadeInv
  <2> QED
    BY <2>1, <2>2, <2>3, <2>4, <2>5, <2>6, <2>7 DEF Inv
<1>16. ASSUME NEW p \in Client, RemoveOpenStmt(p) PROVE Inv'
  <2>1. Typed'
    BY <1>0, <1>16 DEF RemoveOpenStmt, Typed
  <2>2. OwnInv' /\ DepInv' /\ FinInv'
    BY <1>0, <1>16, <2>1, Distinct DEF RemoveOpenStmt, Typed, OwnInv, DepInv, PairedDep,
       FinInv, MadeInv
  <2>3. MadeInv' /\ LiveInv' /\ ShutInv'
    BY <1>0, <1>16, <2>1, Distinct DEF RemoveOpenStmt, Typed, OwnInv, FinInv, MadeInv, DepInv,
       LiveInv, ShutInv
  <2> QED
    BY <2>1, <2>2, <2>3 DEF Inv
<1>17. ASSUME NEW p \in Client, EndFinal(p) PROVE Inv'
  <2>1. Typed'
    BY <1>0, <1>17 DEF EndFinal, Typed
  <2>2. OwnInv' /\ DepInv' /\ FinInv'
    BY <1>0, <1>17, <2>1, Distinct DEF EndFinal, Typed, OwnInv, FinInv, DepInv, PairedDep,
       MadeInv
  <2>3. MadeInv' /\ LiveInv' /\ ShutInv'
    BY <1>0, <1>17, <2>1, Distinct DEF EndFinal, Typed, OwnInv, FinInv, MadeInv, DepInv,
       LiveInv, ShutInv
  <2> QED
    BY <2>1, <2>2, <2>3 DEF Inv
<1>18. ASSUME NEW p \in Client, StmtContext(p) PROVE Inv'
  <2>1. Typed'
    BY <1>0, <1>18 DEF StmtContext, Typed
  <2>2. OwnInv' /\ DepInv' /\ FinInv'
    BY <1>0, <1>18, <2>1 DEF StmtContext, Typed, OwnInv, DepInv, PairedDep, FinInv, MadeInv
  <2>3. MadeInv' /\ LiveInv' /\ ShutInv'
    BY <1>0, <1>18, <2>1 DEF StmtContext, Typed, OwnInv, FinInv, MadeInv, DepInv, LiveInv,
       ShutInv
  <2> QED
    BY <2>1, <2>2, <2>3 DEF Inv
<1>19. ASSUME NEW p \in Client, BindLook(p) PROVE Inv'
  <2>1. Typed'
    BY <1>0, <1>19, RemoveClosedDrops DEF BindLook, On, Typed
  <2>2. OwnInv' /\ DepInv' /\ FinInv'
    BY <1>0, <1>19, <2>1, RemoveClosedDrops DEF BindLook, On, Typed, OwnInv, DepInv,
       PairedDep, FinInv, MadeInv
  <2>3. MadeInv' /\ LiveInv' /\ ShutInv'
    BY <1>0, <1>19, <2>1, RemoveClosedDrops DEF BindLook, On, Typed, OwnInv, FinInv, MadeInv,
       DepInv, LiveInv, ShutInv
  <2> QED
    BY <2>1, <2>2, <2>3 DEF Inv
<1>20. ASSUME NEW p \in Client, BindPrepare(p) PROVE Inv'
  <2>1. Typed'
    BY <1>0, <1>20 DEF BindPrepare, PrepareAs, Typed, OwnInv
  <2>2. MadeInv'
    <3>1. /\ made' = made \cup {Mine(p)} /\ pc' = [pc EXCEPT ![p] = "bindappend"]
          /\ UNCHANGED <<using, closed, css, todo, onPut, phase, shut>>
      BY <1>20 DEF BindPrepare, PrepareAs
    <3>2. Mine(p) \notin made /\ Mine(p) \in Conn \X Client /\ p = Mine(p)[2]
      BY <1>0, <1>20 DEF BindPrepare, MadeInv, OwnInv, Typed
    <3>3. \A d \in made : d \in Conn \X Client /\ d[2] \in Client
      BY <1>0 DEF Typed
    <3> QED
      BY <1>0, <1>20, <2>1, <3>1, <3>2, <3>3 DEF BindPrepare, Typed, MadeInv
  <2>3. OwnInv' /\ DepInv' /\ FinInv'
    BY <1>0, <1>20, <2>1 DEF BindPrepare, PrepareAs, Typed, OwnInv, DepInv, PairedDep, FinInv,
       MadeInv
  <2>4. LiveInv' /\ ShutInv'
    BY <1>0, <1>20, <2>1 DEF BindPrepare, PrepareAs, Typed, OwnInv, FinInv, MadeInv, LiveInv,
       ShutInv
  <2> QED
    BY <2>1, <2>2, <2>3, <2>4 DEF Inv
<1>21. ASSUME NEW p \in Client, BindAppend(p) PROVE Inv'
  <2>1. Typed'
    BY <1>0, <1>21 DEF BindAppend, Append, Typed, MadeInv
  <2>2. LiveInv'
    <3>1. UNCHANGED <<using, deps, made, shut, cur, todo, tx, bound>>
      BY <1>21 DEF BindAppend, Append
    <3>2. \A c \in Conn : Live(c) <=> Live(c)'
      BY <3>1
    <3>3. Mine(p) \in made /\ Mine(p) \notin shut \cup todo /\ using[p] \in Conn
      BY <1>0, <1>21 DEF BindAppend, MadeInv, OwnInv, Typed
    <3>4. Live(using[p])
      BY <3>3
    <3> QED
      BY <1>0, <1>21, <2>1, <3>1, <3>2, <3>3, <3>4 DEF BindAppend, Append, LiveInv, OwnInv,
         Typed
  <2>3. OwnInv' /\ DepInv' /\ FinInv'
    BY <1>0, <1>21, <2>1, Distinct DEF BindAppend, Append, Typed, OwnInv, DepInv, PairedDep,
       FinInv, MadeInv
  <2>4. MadeInv' /\ ShutInv'
    BY <1>0, <1>21, <2>1, Distinct DEF BindAppend, Append, Typed, OwnInv, FinInv, MadeInv,
       DepInv, ShutInv
  <2> QED
    BY <2>1, <2>2, <2>3, <2>4 DEF Inv
<1>22. ASSUME NEW p \in Client, AddDep(p) PROVE Inv'
  <2>1. Typed'
    BY <1>0, <1>22 DEF AddDep, Typed
  <2>2. FinInv'
    <3>1. deps' # {} /\ UNCHANGED <<css, todo, onPut, fin, cur>> /\ (fin # None => pc'[fin] = pc[fin])
      BY <1>0, <1>22 DEF AddDep, FinInv, Typed
    <3> QED
      BY <1>0, <3>1 DEF FinInv
  <2>3. OwnInv' /\ DepInv'
    BY <1>0, <1>22, <2>1, Distinct DEF AddDep, Typed, OwnInv, DepInv, PairedDep
  <2>4. MadeInv' /\ LiveInv' /\ ShutInv'
    BY <1>0, <1>22, <2>1, Distinct DEF AddDep, Typed, OwnInv, FinInv, MadeInv, DepInv,
       LiveInv, ShutInv
  <2> QED
    BY <2>1, <2>2, <2>3, <2>4 DEF Inv
<1>23. ASSUME NEW p \in Client, EndTx(p) PROVE Inv'
  <2>1. Typed'
    BY <1>0, <1>23 DEF EndTx, Typed
  <2>2. OwnInv' /\ DepInv' /\ FinInv'
    BY <1>0, <1>23, <2>1 DEF EndTx, Typed, OwnInv, DepInv, PairedDep, FinInv, MadeInv
  <2>3. MadeInv' /\ LiveInv' /\ ShutInv'
    BY <1>0, <1>23, <2>1 DEF EndTx, Typed, OwnInv, FinInv, MadeInv, DepInv, LiveInv, ShutInv
  <2> QED
    BY <2>1, <2>2, <2>3 DEF Inv
<1>24. ASSUME NEW p \in Client, ClosePrepared(p) PROVE Inv'
  <2>1. Typed'
    BY <1>0, <1>24 DEF ClosePrepared, RemoveDep, Typed
  <2>2. OwnInv' /\ DepInv' /\ FinInv'
    BY <1>0, <1>24, <2>1, Distinct DEF ClosePrepared, RemoveDep, Typed, OwnInv, DepInv,
       PairedDep, FinInv, MadeInv
  <2>3. MadeInv' /\ LiveInv' /\ ShutInv'
    BY <1>0, <1>24, <2>1, Distinct DEF ClosePrepared, RemoveDep, Typed, OwnInv, FinInv,
       MadeInv, DepInv, LiveInv, ShutInv
  <2> QED
    BY <2>1, <2>2, <2>3 DEF Inv
<1>25. ASSUME NEW p \in Client, ReleaseTx(p) PROVE Inv'
  <2>1. Typed'
    BY <1>0, <1>25 DEF ReleaseTx, PutConn, On, Typed
  <2>2. OwnInv' /\ DepInv' /\ FinInv'
    BY <1>0, <1>25, <2>1, Distinct DEF ReleaseTx, PutConn, On, Typed, OwnInv, DepInv,
       PairedDep, FinInv, MadeInv
  <2>3. MadeInv' /\ LiveInv' /\ ShutInv'
    BY <1>0, <1>25, <2>1, Distinct DEF ReleaseTx, PutConn, On, Typed, OwnInv, FinInv, MadeInv,
       DepInv, LiveInv, ShutInv
  <2> QED
    BY <2>1, <2>2, <2>3 DEF Inv
<1>26. CASE BeginTx
  <2>1. Typed'
    BY <1>0, <1>26 DEF BeginTx, Take, Typed
  <2>2. OwnInv' /\ DepInv' /\ FinInv'
    BY <1>0, <1>26, <2>1 DEF BeginTx, Take, Typed, OwnInv, DepInv, PairedDep, FinInv, MadeInv
  <2>3. MadeInv' /\ LiveInv' /\ ShutInv'
    BY <1>0, <1>26, <2>1 DEF BeginTx, Take, Typed, OwnInv, FinInv, MadeInv, DepInv, LiveInv,
       ShutInv
  <2> QED
    BY <2>1, <2>2, <2>3 DEF Inv
<1>27. ASSUME NEW c \in Conn, Discard(c) PROVE Inv'
  <2>1. Typed'
    BY <1>0, <1>27 DEF Discard, Typed
  <2>2. OwnInv' /\ DepInv' /\ FinInv'
    BY <1>0, <1>27, <2>1 DEF Discard, Typed, OwnInv, DepInv, PairedDep, FinInv, MadeInv
  <2>3. MadeInv' /\ LiveInv' /\ ShutInv'
    BY <1>0, <1>27, <2>1 DEF Discard, Typed, OwnInv, FinInv, MadeInv, DepInv, LiveInv, ShutInv
  <2> QED
    BY <2>1, <2>2, <2>3 DEF Inv
<1>28. ASSUME NEW c \in Conn, CloseConn(c) PROVE Inv'
  <2>1. Typed'
    BY <1>0, <1>28 DEF CloseConn, Typed
  <2>2. OwnInv' /\ DepInv' /\ FinInv'
    BY <1>0, <1>28, <2>1 DEF CloseConn, Typed, OwnInv, DepInv, PairedDep, FinInv, MadeInv
  <2>3. MadeInv' /\ LiveInv' /\ ShutInv'
    BY <1>0, <1>28, <2>1 DEF CloseConn, Typed, OwnInv, FinInv, MadeInv, DepInv, LiveInv, ShutInv
  <2> QED
    BY <2>1, <2>2, <2>3 DEF Inv
<1>29. ASSUME NEW c \in Conn, ConnFinalClose(c) PROVE Inv'
  <2>1. Typed'
    BY <1>0, <1>29 DEF ConnFinalClose, On, Typed
  <2>2. OwnInv' /\ DepInv' /\ FinInv'
    BY <1>0, <1>29, <2>1 DEF ConnFinalClose, On, Typed, OwnInv, DepInv, PairedDep, FinInv,
       MadeInv
  <2>3. MadeInv' /\ LiveInv' /\ ShutInv'
    BY <1>0, <1>29, <2>1 DEF ConnFinalClose, On, Typed, OwnInv, FinInv, MadeInv, DepInv,
       LiveInv, ShutInv
  <2> QED
    BY <2>1, <2>2, <2>3 DEF Inv
<1>30. ASSUME NEW c \in Conn, CiClose(c) PROVE Inv'
  <2>1. Typed'
    BY <1>0, <1>30 DEF CiClose, Typed
  <2>2. OwnInv' /\ DepInv' /\ FinInv'
    BY <1>0, <1>30, <2>1 DEF CiClose, Typed, OwnInv, DepInv, PairedDep, FinInv, MadeInv
  <2>3. MadeInv' /\ LiveInv' /\ ShutInv'
    BY <1>0, <1>30, <2>1 DEF CiClose, Typed, OwnInv, FinInv, MadeInv, DepInv, LiveInv, ShutInv
  <2> QED
    BY <2>1, <2>2, <2>3 DEF Inv
<1>31. CASE UNCHANGED vars
  BY <1>0, <1>31 DEF vars, Inv, Typed, OwnInv, DepInv, PairedDep, FinInv, MadeInv, LiveInv,
     ShutInv
<1> QED
  BY <1>1, <1>2, <1>3, <1>4, <1>5, <1>6, <1>7, <1>8, <1>9, <1>10, <1>11, <1>12, <1>13, <1>14,
     <1>15, <1>16, <1>17, <1>18, <1>19, <1>20, <1>21, <1>22, <1>23, <1>24, <1>25, <1>26,
     <1>27, <1>28, <1>29, <1>30, <1>31 DEF Next, ClientStep, ConnStep

(* A statement keeps its inductive invariant for ever.                    *)
LEMMA InvAlways == Spec => []Inv
  BY InitInv, NextInv, PTL DEF Spec

(* A client that uses the statement, or has bound it to a transaction,    *)
(* has an open driver statement on an open connection.                    *)
THEOREM StmtNoStaleUse == Spec => []NoStaleUse
<1>1. Inv => NoStaleUse
  BY DEF Inv, OwnInv, LiveInv, Owning, Live, NoStaleUse, On, Typed
<1> QED
  BY InvAlways, <1>1, PTL

(* Every removeDep finds its dependency.                                  *)
THEOREM StmtPairedDep == Spec => []PairedDep
<1>1. Inv => PairedDep
  BY DEF Inv, DepInv
<1> QED
  BY InvAlways, <1>1, PTL

(* Each driver statement is closed, and never after its connection, but   *)
(* on a connection that DB.conn has discarded.                            *)
THEOREM StmtClosedBeforeConn == Spec => []ClosedBeforeConn
<1>1. Inv => ClosedBeforeConn
  BY DEF Inv, ShutInv, ClosedBeforeConn
<1> QED
  BY InvAlways, <1>1, PTL

(* A statement that is closed leaves no driver statement open behind it,  *)
(* where no transaction has ended with ErrBadConn.                        *)
THEOREM StmtNoLeak == Spec => []NoStmtLeak
<1>1. ASSUME Inv, closed, tx = None, \A p \in Client : pc[p] = "idle"
      PROVE  /\ deps \subseteq {"bound"} \X Client
             /\ deps = {} => \A d \in made \ shut :
                               phase[d[1]] \in {"doomed", "closing"} \/ d[1] \in inUse
  <2>1. Typed /\ DepInv /\ FinInv /\ MadeInv /\ ShutInv
    BY <1>1 DEF Inv
  <2>2. Self \notin deps /\ \A p \in Client : <<"rows", p>> \notin deps
    BY <1>1, <2>1 DEF DepInv
  <2>3. deps \subseteq {"bound"} \X Client
    BY <2>1, <2>2 DEF Typed
  <2>4. fin = None /\ todo = {}
    BY <1>1, <2>1 DEF FinInv, Typed
  <2>5. deps = {} => css = {}
    BY <1>1, <2>1 DEF FinInv
  <2>6. ASSUME deps = {}, NEW d \in made \ shut
        PROVE  phase[d[1]] \in {"doomed", "closing"} \/ d[1] \in inUse
    <3>1. DbmuClosed(d[1]) \/ d \in onPut
      BY <1>1, <2>1, <2>4, <2>5, <2>6 DEF MadeInv, Typed
    <3> QED
      BY <2>1, <2>6, <3>1 DEF ShutInv, DbmuClosed
  <2> QED
    BY <2>3, <2>6
<1>2. Inv => NoStmtLeak
  BY <1>1 DEF NoStmtLeak
<1> QED
  BY InvAlways, <1>2, PTL
------------------------------------------------------------------------------
(* The types that the other invariants do not need.                       *)

\* When css was cleaned no more connections had closed than there are.
RestTyped == lastNumClosed \in 0..Cardinality(Conn) /\ late \in BOOLEAN

(* The closed connections are some of the connections.                    *)
LEMMA NumClosedBound == NumClosed \in 0..Cardinality(Conn)
<1> DEFINE gone == {c \in Conn : phase[c] = "gone"}
<1>1. gone \subseteq Conn
  OBVIOUS
<1>2. /\ IsFiniteSet(gone) /\ Cardinality(gone) <= Cardinality(Conn)
      /\ Cardinality(gone) \in Nat /\ Cardinality(Conn) \in Nat
  BY <1>1, ConnFinite, FS_Subset, FS_CardinalityType
<1> HIDE DEF gone
<1>3. Cardinality(gone) \in 0..Cardinality(Conn)
  BY <1>2
<1> QED
  BY <1>3 DEF NumClosed, gone

(* Only a call that starts, or binds the statement, cleans css.           *)
LEMMA NextRestTyped == RestTyped /\ [Next]_vars => RestTyped'
<1> SUFFICES ASSUME RestTyped, [Next]_vars PROVE RestTyped'
  OBVIOUS
<1>1. lastNumClosed' \in {lastNumClosed, NumClosed} /\ late' \in BOOLEAN
  <2>0. late \in BOOLEAN
    BY DEF RestTyped
  <2>1. ASSUME NEW p \in Client, ClientStep(p)
        PROVE  lastNumClosed' \in {lastNumClosed, NumClosed} /\ late' \in BOOLEAN
    <3>1. CASE Start(p) \/ BindLook(p)
      BY <2>0, <3>1 DEF Start, BindLook, RemoveClosed, dsVars
    <3>2. CASE GetConn(p) \/ Look(p) \/ Prepare(p) \/ AppendCss(p) \/ Release(p) \/ Query(p)
               \/ CloseRows(p) \/ DropRows(p) \/ Close(p) \/ CloseLocked(p) \/ DropSelf(p)
      BY <2>0, <3>2 DEF GetConn, Look, Prepare, PrepareAs, AppendCss, Append, Release, Query,
         CloseRows, DropRows, RemoveDep, Close, CloseLocked, DropSelf, PutConn, stmtVars, dsVars
    <3>3. CASE FinalClose(p) \/ NoteUnused(p) \/ CloseUnused(p) \/ RemoveOpenStmt(p) \/ EndFinal(p)
      BY <2>0, <3>3 DEF FinalClose, NoteUnused, CloseUnused, RemoveOpenStmt, EndFinal, stmtVars,
         dsVars
    <3>4. CASE StmtContext(p) \/ BindPrepare(p) \/ BindAppend(p) \/ AddDep(p) \/ EndTx(p)
               \/ ClosePrepared(p) \/ ReleaseTx(p)
      BY <2>0, <3>4 DEF StmtContext, BindPrepare, PrepareAs, BindAppend, Append, AddDep, EndTx,
         ClosePrepared, RemoveDep, ReleaseTx, PutConn, stmtVars, dsVars
    <3> QED
      BY <2>1, <3>1, <3>2, <3>3, <3>4 DEF ClientStep
  <2>2. ASSUME NEW c \in Conn, ConnStep(c) PROVE UNCHANGED <<lastNumClosed, late>>
    BY <2>2 DEF ConnStep, Discard, CloseConn, ConnFinalClose, CiClose, stmtVars, dsVars
  <2> QED
    BY <2>0, <2>1, <2>2 DEF Next, BeginTx, vars, stmtVars, dsVars
<1> QED
  BY <1>1, NumClosedBound DEF RestTyped

(* Type correctness.                                                      *)
THEOREM StmtTypeCorrect == Spec => []TypeOK
<1>1. Init => RestTyped
  <2>1. Cardinality(Conn) \in Nat
    BY ConnFinite, FS_CardinalityType
  <2>2. 0 \in 0..Cardinality(Conn)
    BY <2>1
  <2> QED
    BY <2>2, Zenon DEF Init, RestTyped
<1>2. ASSUME Inv, RestTyped PROVE TypeOK
  <2>1. Typed
    BY <1>2 DEF Inv
  <2>2. pc \in [Client -> Execs \cup Binds \cup
                   {"idle", "rows", "drop", "closing", "dropself", "final", "txend"}]
    BY <2>1, Zenon DEF Typed, Labels
  <2>3. {css, todo, openStmt, onPut} \subseteq SUBSET made
    BY <2>1 DEF Typed
  <2> QED
    BY <1>2, <2>1, <2>2, <2>3, Zenon DEF Typed, RestTyped, TypeOK
<1> QED
  BY <1>1, <1>2, InvAlways, NextRestTyped, PTL DEF Spec
================================================================================
