-------------------------------- MODULE Handles --------------------------------
(***************************************************************************)
(* The handles of the exported functions.  Each makes an object of Go,     *)
(* enters it into the map of its kind, so that the garbage collector keeps *)
(* it, and returns its address to the foreign caller.  Here are the steps  *)
(* of the entry; Wrapper has the calls.  Definitions whose names end in    *)
(* Fault are plausible bugs that only the mutant runs use.                 *)
(***************************************************************************)
EXTENDS Naturals, FiniteSets

CONSTANTS
  Client,  \* the threads of the foreign program
  Nobody

ASSUME HandlesAssumption == Nobody \notin Client /\ IsFiniteSet(Client)

VARIABLES
  pc,         \* of each client
  fn,         \* the function it calls
  nonNil,     \* the kinds whose map has been made
  instances,  \* the entries of the maps: the kind and who made it
  mutex,      \* the holder of the mutex of each kind
  orphans,    \* the clients that write into a map that has been replaced
  remade,     \* the kinds whose map was made again
  clashed,    \* the kinds whose map two clients have written at once
  returned,   \* the handles the clients have got
  dead        \* has the process ended?

maps == <<nonNil, instances, mutex, orphans, remade, clashed>>

\* The functions that return a handle, and the kind of each.
KindOf ==
  [QueryExec |-> "rows", TxQueryExec |-> "rows", StmtQuery |-> "rows", StmtExec |-> "result",
   StmtPrepare |-> "stmt", TxPrepare |-> "stmt", Begin |-> "tx"]
Function == DOMAIN KindOf
Kind == {KindOf[f] : f \in Function}

\* Each client has at most one handle of a kind.
Handle(p) == <<KindOf[fn[p]], p>>

\* StmtExec takes no mutex, and TxPrepare one that nobody else can have.
Synced == Function \ {"StmtExec", "TxPrepare"}

HandlesInit ==
  /\ nonNil = {} /\ instances = {} /\ mutex = [k \in Kind |-> Nobody]
  /\ orphans = {} /\ remade = {} /\ clashed = {}
  /\ returned = {} /\ dead = FALSE

Goto(p, label) == pc' = [pc EXCEPT ![p] = label]
Writers(k) == {p \in Client : pc[p] = "write" /\ KindOf[fn[p]] = k}

\* The nil check, before any mutex is taken.
Check(p) ==
  /\ pc[p] = "check"
  /\ Goto(p, IF KindOf[fn[p]] \in nonNil THEN "lock" ELSE "make")
  /\ UNCHANGED <<fn, maps, returned, dead>>

Make(p) ==
  LET k == KindOf[fn[p]] IN
  /\ pc[p] = "make"
  /\ nonNil' = nonNil \cup {k}
  /\ remade' = IF k \in nonNil THEN remade \cup {k} ELSE remade
  /\ instances' = {h \in instances : h[1] # k}
  /\ orphans' = orphans \cup Writers(k)
  /\ Goto(p, "lock")
  /\ UNCHANGED <<fn, mutex, clashed, returned, dead>>

LockFault(p) ==
  /\ pc[p] = "lock"
  /\ Goto(p, "write")
  /\ UNCHANGED <<fn, maps, returned, dead>>

Lock(p) ==
  LET k == KindOf[fn[p]] IN
  /\ pc[p] = "lock"
  /\ IF fn[p] \in Synced
       THEN mutex[k] = Nobody /\ mutex' = [mutex EXCEPT ![k] = p]
       ELSE UNCHANGED mutex
  /\ Goto(p, "write")
  /\ UNCHANGED <<fn, nonNil, instances, orphans, remade, clashed, returned, dead>>

WriteFault(p) ==
  LET k     == KindOf[fn[p]]
      races == Writers(k) # {p} IN
  /\ pc[p] = "write"
  /\ clashed' = IF races THEN clashed \cup {k} ELSE clashed
  /\ instances' = instances \cup {Handle(p)}
  /\ orphans' = orphans \ {p}
  /\ returned' = returned \cup {Handle(p)}
  /\ Goto(p, "idle")
  /\ UNCHANGED <<fn, nonNil, mutex, remade, dead>>

\* The end of the write.  One that meets another is a data race: the Go
\* runtime may end the process, and the entry may be lost.
Write(p) ==
  LET k     == KindOf[fn[p]]
      races == Writers(k) # {p} IN
  /\ pc[p] = "write"
  /\ clashed' = IF races THEN clashed \cup {k} ELSE clashed
  /\ \/ /\ p \notin orphans
        /\ instances' = instances \cup {Handle(p)}
     \/ /\ p \in orphans \/ races
        /\ UNCHANGED instances
  /\ dead' \in IF races THEN BOOLEAN ELSE {FALSE}
  /\ mutex' = IF mutex[k] = p THEN [mutex EXCEPT ![k] = Nobody] ELSE mutex
  /\ orphans' = orphans \ {p}
  /\ returned' = returned \cup {Handle(p)}
  /\ Goto(p, "idle")
  /\ UNCHANGED <<fn, nonNil, remade>>

Enter(p) == Check(p) \/ Make(p) \/ Lock(p) \/ Write(p)

------------------------------------------------------------------------------
(* The mutexes do what they are there for: the map of rows and that of    *)
(* transactions are written by one client at a time, and a handle that a  *)
(* caller has got is entered, unless two first calls have made the map    *)
(* twice.  The other two kinds have no such protection.                   *)
MutexKeeps ==
  \A k \in {"rows", "tx"} :
    /\ k \notin clashed
    /\ k \notin remade => {h \in returned : h[1] = k} \subseteq instances

(* The object of a handle that the foreign caller has got is entered, so  *)
(* that it stays where the handle says.                                   *)
HandlesKept == ~dead => returned \subseteq instances
==============================================================================
