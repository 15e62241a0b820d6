---------------------------- MODULE ConnPoolProofs ----------------------------
(***************************************************************************)
(* Proofs about ConnPool, for any sets of clients, setters and connections *)
(* and any limits: types, who owns a connection, how numOpen counts them,  *)
(* the limits, the callers that wait, and the refinement of ConnLease.     *)
(***************************************************************************)
EXTENDS PoolLease, FiniteSetTheorems, TLAPS

\* maybeOpenNewConnections keeps the two counters numbers, and sends no
\* negative count of tokens.
LEMMA MaybeOpenType ==
  ASSUME NEW n \in Int, NEW reqs \in Nat, maxOpen \in Nat, openerCh \in Nat,
         MaybeOpen(n, reqs)
  PROVE  numOpen' \in Int /\ openerCh' \in Nat
  BY DEF MaybeOpen, Wanted, Smaller

\* db.connRequests is finite, so its length is a number.
LEMMA RequestsFinite ==
  ASSUME connRequests \subseteq Client
  PROVE  Cardinality(connRequests) \in Nat
  BY ClientFinite, FS_Subset, FS_CardinalityType

\* The initial state of openDB has the declared types.
LEMMA TypeInit == Init => TypeOK
  <1> SUFFICES ASSUME Init PROVE TypeOK
    OBVIOUS
  <1> PICK n \in PoolSizes : /\ maxOpen = (IF n < 0 THEN 0 ELSE n)
                             /\ maxIdleCount = (IF n > 0 THEN n ELSE -1)
    BY DEF Init
  <1>1. maxOpen \in Nat /\ maxIdleCount \in Int
    BY SizeAssumption
  <1>2. /\ pc \in [Client -> PcLabel]
        /\ attempt \in [Client -> 0 .. MaxBadConnRetries]
        /\ pending \in [Setter -> Nat]
    BY DEF Init, PcLabel, MaxBadConnRetries
  <1>3. /\ phase \in [Conn -> {"none", "live", "closed"}]
        /\ dc \in [Client -> Conn \cup {NoConn}]
        /\ reply \in [Client -> Conn \cup {Empty, Closed, Failed}]
        /\ toClose \in [Process -> SUBSET Conn]
    BY DEF Init
  <1>4. /\ numOpen \in Int /\ openerCh \in Nat
        /\ maxLifetime \in Nat /\ maxIdleTime \in Nat
    BY DEF Init
  <1>8. closed \in BOOLEAN /\ stopped \in BOOLEAN
    BY DEF Init
  <1>5. /\ freeConn \subseteq Conn /\ dep \subseteq Conn /\ inUse \subseteq Conn
        /\ connRequests \subseteq Client
    BY DEF Init
  <1>6. /\ cleaner \in {"off", "on", "shut"}
        /\ opener \in {"idle", "dial", "exited"}
    BY DEF Init
  <1>7. panic \in {NoPanicYet, "putConn", "removeDep", "cleanerCh"}
    BY DEF Init
  <1> QED
    BY <1>1, <1>2, <1>3, <1>4, <1>5, <1>6, <1>7, <1>8 DEF TypeOK

\* A step of a caller keeps the declared types.
LEMMA TypeClient ==
  ASSUME TypeOK, NEW p \in Client, Call(p) \/ ClientStep(p) \/ Cancel(p)
  PROVE  TypeOK'
  <1> USE DEF TypeOK, PcLabel, At, Goto, Hold
  <1>0. p \in Process /\ MaxBadConnRetries = 2
    BY DEF Process, MaxBadConnRetries
  <1>1. Return(p) => pc' \in [Client -> PcLabel] /\ attempt' \in [Client -> 0 .. 2]
    BY <1>0 DEF Return
  <1>2. Retry(p) => pc' \in [Client -> PcLabel] /\ attempt' \in [Client -> 0 .. 2]
    BY <1>0 DEF Retry, Cached
  <1>3. BadConn(p) => pc' \in [Client -> PcLabel] /\ attempt' \in [Client -> 0 .. 2]
    BY <1>1, <1>2 DEF BadConn
  <1>4. ASSUME NEW c \in Conn
        PROVE Discard(p, c) => toClose' \in [Process -> SUBSET Conn]
    BY <1>0 DEF Discard
  <1>5. ASSUME NEW c \in Conn
        PROVE Keep(c) => /\ freeConn' \subseteq Conn
                         /\ connRequests' \subseteq Client
                         /\ reply' \in [Client -> Conn \cup {Empty, Closed, Failed}]
                         /\ inUse' \subseteq Conn
                         /\ cleaner' \in {"off", "on", "shut"}
    BY DEF Keep, Answer, StartCleaner
  <1>6. Cardinality(connRequests) \in Nat
    BY RequestsFinite
  <1>a. CASE Call(p)
    BY <1>a, <1>0 DEF Call, limits, conns, workers
  <1>b. CASE Refused(p)
    BY <1>b, <1>0, <1>1 DEF Refused, limits, conns, workers
  <1>c. CASE TakeFree(p)
    BY <1>c, <1>0, <1>3, <1>4 DEF TakeFree, limits, conns, workers
  <1>d. CASE Request(p)
    BY <1>d, <1>0 DEF Request, limits, conns, workers
  <1>e. CASE Dial(p)
    BY <1>e, <1>0 DEF Dial, limits, conns, workers
  <1>f. CASE DialOk(p)
    BY <1>f, <1>0 DEF DialOk, AddConn, limits, workers
  <1>g. CASE DialFail(p)
    <2>1. numOpen' \in Int /\ openerCh' \in Nat
      BY <1>g, <1>6, MaybeOpenType DEF DialFail
    <2> QED
      BY <2>1, <1>g, <1>0, <1>1, <1>2 DEF DialFail, limits, conns, workers
  <1>h. CASE ReceiveConn(p)
    BY <1>h, <1>0, <1>3, <1>4 DEF ReceiveConn, limits, conns, workers
  <1>i. CASE ReceiveError(p)
    BY <1>i, <1>0, <1>1, <1>2 DEF ReceiveError, limits, conns, workers
  <1>j. CASE PutPanic(p)
    BY <1>j, <1>0 DEF PutPanic, limits, conns, clients, workers
  <1>k. CASE PutGood(p)
    <2>1. CASE dc[p] \in Conn
      BY <2>1, <1>k, <1>0, <1>1, <1>4, <1>5 DEF PutGood, limits, conns, workers
    <2> QED
      BY <2>1, <1>k DEF PutGood
  <1>l. CASE PutBad(p)
    <2>1. numOpen' \in Int /\ openerCh' \in Nat
      BY <1>l, <1>6, MaybeOpenType DEF PutBad
    <2>2. dc[p] \in Conn
      BY <1>l DEF PutBad
    <2> QED
      BY <2>1, <2>2, <1>l, <1>0, <1>1, <1>2, <1>4 DEF PutBad, limits, conns, workers
  <1>m. CASE Cancel(p)
    BY <1>m, <1>0, <1>1 DEF Cancel, limits, conns, workers
  <1> QED
    BY <1>a, <1>b, <1>c, <1>d, <1>e, <1>f, <1>g, <1>h, <1>i, <1>j, <1>k, <1>l, <1>m
    DEF ClientStep, Obtain, PutConn

\* The steps of the opener, of DBClose and of whoever closes connections keep
\* the declared types.
LEMMA TypeWorkers ==
  ASSUME TypeOK,
         (\E q \in Process : CloseStep(q)) \/ OpenerStep \/ DBClose \/ Stop \/ CleanerStep
  PROVE  TypeOK'
  <1> USE DEF TypeOK
  <1>1. Closer \in Process /\ Cleaner \in Process
    BY DEF Process
  <1>2. Cardinality(connRequests) \in Nat
    BY RequestsFinite
  <1>3. ASSUME NEW c \in Conn
        PROVE Keep(c) => /\ freeConn' \subseteq Conn
                         /\ connRequests' \subseteq Client
                         /\ reply' \in [Client -> Conn \cup {Empty, Closed, Failed}]
                         /\ inUse' \subseteq Conn
                         /\ cleaner' \in {"off", "on", "shut"}
    BY DEF Keep, Answer, StartCleaner
  <1>a. ASSUME NEW q \in Process, NEW c \in Conn, CloseConn(q, c)
        PROVE TypeOK'
    BY <1>a DEF CloseConn, limits, conns, clients, workers
  <1>b. ASSUME NEW q \in Process, NEW c \in Conn, FinalClose(q, c)
        PROVE TypeOK'
    <2>1. numOpen' \in Int /\ openerCh' \in Nat
      BY <1>b, <1>2, MaybeOpenType DEF FinalClose
    <2> QED
      BY <2>1, <1>b DEF FinalClose, limits, clients, workers
  <1>c. CASE DBClose
    BY <1>c, <1>1 DEF DBClose, limits, clients, workers
  <1>d. CASE Stop
    BY <1>d DEF Stop, limits, conns, clients
  <1>e. CASE OpenerTake
    BY <1>e DEF OpenerTake, limits, conns, clients
  <1>f. CASE OpenerExit
    BY <1>f DEF OpenerExit, limits, conns, clients
  <1>g. CASE OpenerKeep
    <2> PICK c \in Conn : AddConn(c) /\ Keep(c)
      BY <1>g DEF OpenerKeep
    <2> QED
      BY <1>g, <1>3 DEF OpenerKeep, AddConn, limits, clients
  <1>h. CASE OpenerDrop
    BY <1>h DEF OpenerDrop, limits, conns, clients
  <1>i. CASE OpenerFail
    <2>1. connRequests' \subseteq Client
      BY <1>i DEF OpenerFail, Answer
    <2>2. Cardinality(connRequests') \in Nat
      BY <2>1, ClientFinite, FS_Subset, FS_CardinalityType
    <2>3. numOpen' \in Int /\ openerCh' \in Nat
      BY <2>2, <1>i, MaybeOpenType DEF OpenerFail
    <2>4. reply' \in [Client -> Conn \cup {Empty, Closed, Failed}]
      BY <1>i DEF OpenerFail, Answer
    <2> QED
      BY <2>1, <2>3, <2>4, <1>i DEF OpenerFail, limits, conns, clients
  <1>j. CASE CleanerRun
    BY <1>j, <1>1 DEF CleanerRun, limits, conns, clients, workers
  <1>k. CASE CleanerExit
    BY <1>k DEF CleanerExit, limits, conns, clients, workers
  <1> QED
    BY <1>a, <1>b, <1>c, <1>d, <1>e, <1>f, <1>g, <1>h, <1>i, <1>j, <1>k
    DEF CloseStep, OpenerStep, CleanerStep

\* The steps of the Set... methods keep the declared types.
LEMMA TypeSetters ==
  ASSUME TypeOK, NEW s \in Setter, SetterStep(s)
  PROVE  TypeOK'
  <1> USE DEF TypeOK
  <1>1. s \in Process
    BY DEF Process
  <1>2. ASSUME NEW n \in Int
        PROVE IdleCount(n) \in Int
    BY DEF IdleCount
  <1>3. ASSUME NEW n \in Int, SetMaxIdleConns(s, n)
        PROVE TypeOK'
    BY <1>1, <1>2, <1>3 DEF SetMaxIdleConns, conns, clients, workers
  <1>a. ASSUME NEW n \in PoolSizes, SetMaxOpenConns(s, n)
        PROVE TypeOK'
    <2>1. n \in Int /\ maxOpen' \in Nat
      BY <1>a, SizeAssumption DEF SetMaxOpenConns
    <2>2. pending' \in [Setter -> Nat]
      BY <2>1, <1>a DEF SetMaxOpenConns
    <2> QED
      BY <2>1, <2>2, <1>a DEF SetMaxOpenConns, conns, clients, workers
  <1>b. ASSUME NEW n \in IdleSizes, SetMaxIdleConns(s, n)
        PROVE TypeOK'
    BY <1>b, <1>3, SizeAssumption
  <1>c. CASE SyncIdle(s)
    BY <1>c, <1>3 DEF SyncIdle
  <1>d. ASSUME NEW d \in Lifetimes, SetConnMaxLifetime(s, d)
        PROVE TypeOK'
    BY <1>d, TimeAssumption DEF SetConnMaxLifetime, StartCleaner, conns, clients, workers
  <1>e. ASSUME NEW d \in IdleTimes, SetConnMaxIdleTime(s, d)
        PROVE TypeOK'
    BY <1>e, TimeAssumption DEF SetConnMaxIdleTime, StartCleaner, conns, clients, workers
  <1> QED
    BY <1>a, <1>b, <1>c, <1>d, <1>e DEF SetterStep

\* Every step keeps the declared types.
LEMMA TypeStep == TypeOK /\ [Next]_vars => TypeOK'
  <1> SUFFICES ASSUME TypeOK, [Next]_vars PROVE TypeOK'
    OBVIOUS
  <1>1. CASE UNCHANGED vars
    BY <1>1 DEF TypeOK, vars, limits, conns, clients, workers
  <1>2. CASE Next
    BY <1>2, TypeClient, TypeWorkers, TypeSetters DEF Next, Step
  <1> QED
    BY <1>1, <1>2

\* Type correctness of the pool.
THEOREM PoolTypes == Spec => []TypeOK
  BY TypeInit, TypeStep, PTL DEF Spec

-------------------------------------------------------------------------------
(* How a connection moves from one owner to the next: each move keeps one   *)
(* owner, and the marks that the next owner relies on.                      *)

\* A held connection is handed to its holder's own close.
LEMMA HeldToClosing ==
  ASSUME TypeOK, OneOwner, Marks,
         NEW p \in Client,
         dc[p] \in Conn, toClose[p] = {},
         dc' = [dc EXCEPT ![p] = NoConn],
         toClose' = [toClose EXCEPT ![p] = {dc[p]}],
         inUse' = inUse \ {dc[p]},
         UNCHANGED <<freeConn, reply, phase, dep>>
  PROVE  OneOwner' /\ Marks'
  <1>0. Client \subseteq Process /\ NoConn \notin Conn
    BY ConnAssumption DEF Process
  <1>a. \A r \in Client : dc'[r] = IF r = p THEN NoConn ELSE dc[r]
    BY DEF TypeOK
  <1>b. \A t \in Process : toClose'[t] = IF t = p THEN {dc[p]} ELSE toClose[t]
    BY DEF TypeOK
  <1>1. Apart'
    BY <1>0, <1>a, <1>b DEF OneOwner, Apart, Owned, Marks, Open
  <1>2. (\A d \in Conn : Open(d) <=> Owned(d))'
    BY <1>0, <1>a, <1>b DEF OneOwner, Open, Owned, Apart, Marks
  <1>3. Marks'
    BY <1>0, <1>a, <1>b DEF Marks, Open, Apart, OneOwner, Owned
  <1> QED
    BY <1>1, <1>2, <1>3 DEF OneOwner

\* An idle connection is taken.
LEMMA IdleToHeld ==
  ASSUME TypeOK, OneOwner, Marks,
         NEW p \in Client,
         NEW c \in freeConn,
         dc[p] = NoConn,
         freeConn' = freeConn \ {c},
         inUse' = inUse \cup {c},
         dc' = [dc EXCEPT ![p] = c],
         UNCHANGED <<reply, toClose, phase, dep>>
  PROVE  OneOwner' /\ Marks'
  <1>0. Client \subseteq Process /\ NoConn \notin Conn
    BY ConnAssumption DEF Process
  <1>a. \A r \in Client : dc'[r] = IF r = p THEN c ELSE dc[r]
    BY DEF TypeOK
  <1>b. c \in Conn
    BY DEF TypeOK
  <1>1. Apart'
    BY <1>0, <1>a, <1>b DEF OneOwner, Apart, Owned, Marks, Open
  <1>2. (\A d \in Conn : Open(d) <=> Owned(d))'
    BY <1>0, <1>a, <1>b DEF OneOwner, Open, Owned, Apart, Marks
  <1>3. Marks'
    BY <1>0, <1>a, <1>b DEF Marks, Open, Apart, OneOwner, Owned
  <1> QED
    BY <1>1, <1>2, <1>3 DEF OneOwner

\* Idle connections are taken out to be closed.
LEMMA IdleToClosing ==
  ASSUME TypeOK, OneOwner, Marks,
         NEW q \in Process, NEW S \in SUBSET freeConn,
         toClose[q] = {},
         freeConn' = freeConn \ S,
         toClose' = [toClose EXCEPT ![q] = S],
         inUse \subseteq inUse',
         UNCHANGED <<dc, reply, phase, dep>>
  PROVE  OneOwner' /\ Marks'
  <1>0. Client \subseteq Process /\ NoConn \notin Conn
    BY ConnAssumption DEF Process
  <1>a. \A t \in Process : toClose'[t] = IF t = q THEN S ELSE toClose[t]
    BY DEF TypeOK
  <1>b. S \subseteq Conn
    BY DEF TypeOK
  <1>1. Apart'
    BY <1>0, <1>a, <1>b DEF OneOwner, Apart, Owned, Marks, Open
  <1>2. (\A d \in Conn : Open(d) <=> Owned(d))'
    BY <1>0, <1>a, <1>b DEF OneOwner, Open, Owned, Apart, Marks
  <1>3. Marks'
    BY <1>0, <1>a, <1>b DEF Marks, Open, Apart, OneOwner, Owned
  <1> QED
    BY <1>1, <1>2, <1>3 DEF OneOwner

\* The connection on a request's channel is received.
LEMMA ReplyToHeld ==
  ASSUME TypeOK, OneOwner, Marks,
         NEW p \in Client,
         reply[p] \in Conn, dc[p] = NoConn,
         reply' = [reply EXCEPT ![p] = Empty],
         dc' = [dc EXCEPT ![p] = reply[p]],
         UNCHANGED <<freeConn, inUse, toClose, phase, dep>>
  PROVE  OneOwner' /\ Marks'
  <1>0. Client \subseteq Process /\ NoConn \notin Conn /\ Empty \notin Conn
    BY ConnAssumption DEF Process
  <1>a. \A r \in Client : dc'[r] = IF r = p THEN reply[p] ELSE dc[r]
    BY DEF TypeOK
  <1>b. \A t \in Client : reply'[t] = IF t = p THEN Empty ELSE reply[t]
    BY DEF TypeOK
  <1>1. Apart'
    BY <1>0, <1>a, <1>b DEF OneOwner, Apart, Owned, Marks, Open
  <1>2. (\A d \in Conn : Open(d) <=> Owned(d))'
    BY <1>0, <1>a, <1>b DEF OneOwner, Open, Owned, Apart, Marks
  <1>3. Marks'
    BY <1>0, <1>a, <1>b DEF Marks, Open, Apart, OneOwner, Owned
  <1> QED
    BY <1>1, <1>2, <1>3 DEF OneOwner

\* The connection on a request's channel is closed by its receiver.
LEMMA ReplyToClosing ==
  ASSUME TypeOK, OneOwner, Marks,
         NEW p \in Client,
         reply[p] \in Conn, toClose[p] = {},
         reply' = [reply EXCEPT ![p] = Empty],
         toClose' = [toClose EXCEPT ![p] = {reply[p]}],
         UNCHANGED <<freeConn, inUse, dc, phase, dep>>
  PROVE  OneOwner' /\ Marks'
  <1>0. Client \subseteq Process /\ NoConn \notin Conn /\ Empty \notin Conn
    BY ConnAssumption DEF Process
  <1>a. \A t \in Process : toClose'[t] = IF t = p THEN {reply[p]} ELSE toClose[t]
    BY DEF TypeOK
  <1>b. \A t \in Client : reply'[t] = IF t = p THEN Empty ELSE reply[t]
    BY DEF TypeOK
  <1>1. Apart'
    BY <1>0, <1>a, <1>b DEF OneOwner, Apart, Owned, Marks, Open
  <1>2. (\A d \in Conn : Open(d) <=> Owned(d))'
    BY <1>0, <1>a, <1>b DEF OneOwner, Open, Owned, Apart, Marks
  <1>3. Marks'
    BY <1>0, <1>a, <1>b DEF Marks, Open, Apart, OneOwner, Owned
  <1> QED
    BY <1>1, <1>2, <1>3 DEF OneOwner

\* A connection that is put back answers a request.
LEMMA HeldToReply ==
  ASSUME TypeOK, OneOwner, Marks,
         NEW p \in Client, NEW r \in Client,
         dc[p] \in Conn, reply[r] \notin Conn,
         dc' = [dc EXCEPT ![p] = NoConn],
         reply' = [reply EXCEPT ![r] = dc[p]],
         inUse' = inUse \cup {dc[p]},
         UNCHANGED <<freeConn, toClose, phase, dep>>
  PROVE  OneOwner' /\ Marks'
  <1>0. Client \subseteq Process /\ NoConn \notin Conn
    BY ConnAssumption DEF Process
  <1>a. \A t \in Client : dc'[t] = IF t = p THEN NoConn ELSE dc[t]
    BY DEF TypeOK
  <1>b. \A t \in Client : reply'[t] = IF t = r THEN dc[p] ELSE reply[t]
    BY DEF TypeOK
  <1>1. Apart'
    BY <1>0, <1>a, <1>b DEF OneOwner, Apart, Owned, Marks, Open
  <1>2. (\A d \in Conn : Open(d) <=> Owned(d))'
    BY <1>0, <1>a, <1>b DEF OneOwner, Open, Owned, Apart, Marks
  <1>3. Marks'
    BY <1>0, <1>a, <1>b DEF Marks, Open, Apart, OneOwner, Owned
  <1> QED
    BY <1>1, <1>2, <1>3 DEF OneOwner

\* A connection that is put back becomes idle.
LEMMA HeldToIdle ==
  ASSUME TypeOK, OneOwner, Marks,
         NEW p \in Client,
         dc[p] \in Conn,
         dc' = [dc EXCEPT ![p] = NoConn],
         freeConn' = freeConn \cup {dc[p]},
         inUse' = inUse \ {dc[p]},
         UNCHANGED <<reply, toClose, phase, dep>>
  PROVE  OneOwner' /\ Marks'
  <1>0. Client \subseteq Process /\ NoConn \notin Conn
    BY ConnAssumption DEF Process
  <1>a. \A r \in Client : dc'[r] = IF r = p THEN NoConn ELSE dc[r]
    BY DEF TypeOK
  <1>1. Apart'
    BY <1>0, <1>a DEF OneOwner, Apart, Owned, Marks, Open
  <1>2. (\A d \in Conn : Open(d) <=> Owned(d))'
    BY <1>0, <1>a DEF OneOwner, Open, Owned, Apart, Marks
  <1>3. Marks'
    BY <1>0, <1>a DEF Marks, Open, Apart, OneOwner, Owned
  <1> QED
    BY <1>1, <1>2, <1>3 DEF OneOwner

\* A caller's own dial.
LEMMA NewToHeld ==
  ASSUME TypeOK, OneOwner, Marks,
         NEW p \in Client, NEW c \in Conn,
         dc[p] = NoConn,
         dc' = [dc EXCEPT ![p] = c],
         inUse' = inUse \cup {c},
         ~Open(c),
         phase' = [phase EXCEPT ![c] = "live"],
         dep' = dep \cup {c},
         UNCHANGED <<freeConn, reply, toClose>>
  PROVE  OneOwner' /\ Marks'
  <1>0. Client \subseteq Process /\ NoConn \notin Conn
    BY ConnAssumption DEF Process
  <1>a. \A r \in Client : dc'[r] = IF r = p THEN c ELSE dc[r]
    BY DEF TypeOK
  <1>b. \A d \in Conn : phase'[d] = IF d = c THEN "live" ELSE phase[d]
    BY DEF TypeOK
  <1>1. Apart'
    BY <1>0, <1>a, <1>b DEF OneOwner, Apart, Owned, Marks, Open
  <1>2. (\A d \in Conn : Open(d) <=> Owned(d))'
    BY <1>0, <1>a, <1>b DEF OneOwner, Open, Owned, Apart, Marks
  <1>3. Marks'
    BY <1>0, <1>a, <1>b DEF Marks, Open, Apart, OneOwner, Owned
  <1> QED
    BY <1>1, <1>2, <1>3 DEF OneOwner

\* A connection of the opener answers a request.
LEMMA NewToReply ==
  ASSUME TypeOK, OneOwner, Marks,
         NEW r \in Client, NEW c \in Conn,
         reply[r] \notin Conn,
         reply' = [reply EXCEPT ![r] = c],
         inUse' = inUse \cup {c},
         ~Open(c),
         phase' = [phase EXCEPT ![c] = "live"],
         dep' = dep \cup {c},
         UNCHANGED <<freeConn, dc, toClose>>
  PROVE  OneOwner' /\ Marks'
  <1>0. Client \subseteq Process /\ NoConn \notin Conn
    BY ConnAssumption DEF Process
  <1>a. \A t \in Client : reply'[t] = IF t = r THEN c ELSE reply[t]
    BY DEF TypeOK
  <1>b. \A d \in Conn : phase'[d] = IF d = c THEN "live" ELSE phase[d]
    BY DEF TypeOK
  <1>1. Apart'
    BY <1>0, <1>a, <1>b DEF OneOwner, Apart, Owned, Marks, Open
  <1>2. (\A d \in Conn : Open(d) <=> Owned(d))'
    BY <1>0, <1>a, <1>b DEF OneOwner, Open, Owned, Apart, Marks
  <1>3. Marks'
    BY <1>0, <1>a, <1>b DEF Marks, Open, Apart, OneOwner, Owned
  <1> QED
    BY <1>1, <1>2, <1>3 DEF OneOwner

\* A connection of the opener becomes idle.
LEMMA NewToIdle ==
  ASSUME TypeOK, OneOwner, Marks,
         NEW c \in Conn,
         freeConn' = freeConn \cup {c},
         inUse' = inUse \ {c},
         ~Open(c),
         phase' = [phase EXCEPT ![c] = "live"],
         dep' = dep \cup {c},
         UNCHANGED <<reply, dc, toClose>>
  PROVE  OneOwner' /\ Marks'
  <1>0. Client \subseteq Process /\ NoConn \notin Conn
    BY ConnAssumption DEF Process
  <1>a. \A d \in Conn : phase'[d] = IF d = c THEN "live" ELSE phase[d]
    BY DEF TypeOK
  <1>1. Apart'
    BY <1>0, <1>a DEF OneOwner, Apart, Owned, Marks, Open
  <1>2. (\A d \in Conn : Open(d) <=> Owned(d))'
    BY <1>0, <1>a DEF OneOwner, Open, Owned, Apart, Marks
  <1>3. Marks'
    BY <1>0, <1>a DEF Marks, Open, Apart, OneOwner, Owned
  <1> QED
    BY <1>1, <1>2, <1>3 DEF OneOwner

\* finalClose.
LEMMA ClosingToNone ==
  ASSUME TypeOK, OneOwner, Marks,
         NEW q \in Process, NEW c \in toClose[q],
         phase[c] = "closed",
         phase' = [phase EXCEPT ![c] = "none"],
         toClose' = [toClose EXCEPT ![q] = @ \ {c}],
         inUse' = inUse \ {c},
         UNCHANGED <<freeConn, dc, reply, dep>>
  PROVE  OneOwner' /\ Marks'
  <1>0. Client \subseteq Process /\ NoConn \notin Conn
    BY ConnAssumption DEF Process
  <1>a. c \in Conn
    BY DEF TypeOK
  <1>b. \A t \in Process : toClose'[t] = IF t = q THEN toClose[q] \ {c} ELSE toClose[t]
    BY DEF TypeOK
  <1>c. \A d \in Conn : phase'[d] = IF d = c THEN "none" ELSE phase[d]
    BY DEF TypeOK
  <1>1. Apart'
    BY <1>0, <1>a, <1>b, <1>c DEF OneOwner, Apart, Owned, Marks, Open
  <1>2. (\A d \in Conn : Open(d) <=> Owned(d))'
    BY <1>0, <1>a, <1>b, <1>c DEF OneOwner, Open, Owned, Apart, Marks
  <1>3. Marks'
    BY <1>0, <1>a, <1>b, <1>c DEF Marks, Open, Apart, OneOwner, Owned
  <1> QED
    BY <1>1, <1>2, <1>3 DEF OneOwner

\* driverConn.Close.
LEMMA LiveToClosed ==
  ASSUME TypeOK, OneOwner, Marks,
         NEW q \in Process, NEW c \in toClose[q],
         phase[c] = "live",
         phase' = [phase EXCEPT ![c] = "closed"],
         dep' = dep \ {c},
         UNCHANGED <<freeConn, dc, reply, toClose, inUse>>
  PROVE  OneOwner' /\ Marks'
  <1>0. Client \subseteq Process /\ NoConn \notin Conn
    BY ConnAssumption DEF Process
  <1>a. c \in Conn
    BY DEF TypeOK
  <1>b. \A d \in Conn : phase'[d] = IF d = c THEN "closed" ELSE phase[d]
    BY DEF TypeOK
  <1>1. Apart'
    BY <1>0, <1>a, <1>b DEF OneOwner, Apart, Owned, Marks, Open
  <1>2. (\A d \in Conn : Open(d) <=> Owned(d))'
    BY <1>0, <1>a, <1>b DEF OneOwner, Open, Owned, Apart, Marks
  <1>3. Marks'
    BY <1>0, <1>a, <1>b DEF Marks, Open, Apart, OneOwner, Owned
  <1> QED
    BY <1>1, <1>2, <1>3 DEF OneOwner

\* Answers that carry no connection move none.
LEMMA OtherReply ==
  ASSUME TypeOK, OneOwner, Marks,
         \A p \in Client : reply'[p] = reply[p] \/ {reply'[p], reply[p]} \cap Conn = {},
         UNCHANGED <<freeConn, dc, toClose, phase, dep, inUse>>
  PROVE  OneOwner' /\ Marks'
  <1>0. Client \subseteq Process /\ NoConn \notin Conn
    BY ConnAssumption DEF Process
  <1>1. Apart'
    BY <1>0 DEF OneOwner, Apart, Owned, Marks, Open
  <1>2. (\A d \in Conn : Open(d) <=> Owned(d))'
    BY <1>0 DEF OneOwner, Open, Owned, Apart, Marks
  <1>3. Marks'
    BY <1>0 DEF Marks, Open, Apart, OneOwner, Owned
  <1> QED
    BY <1>1, <1>2, <1>3 DEF OneOwner

\* A step of a caller keeps the ownership invariant.
LEMMA OwnerClient ==
  ASSUME TypeOK, PoolInv, NEW p \in Client, Call(p) \/ ClientStep(p) \/ Cancel(p)
  PROVE  PoolInv'
  <1> USE DEF PoolInv
  <1>0. /\ p \in Process /\ p # Closer
        /\ {NoConn, Empty, Closed, Failed} \cap Conn = {}
        /\ Empty # Closed /\ Empty # Failed
    BY ProcessAssumption, ConnAssumption DEF Process, Empty, Closed, Failed
  <1>1. \A l \in PcLabel : Goto(p, l) => \A t \in Client : pc'[t] = IF t = p THEN l ELSE pc[t]
    BY DEF Goto, TypeOK
  <1>2. \A c : Hold(p, c) => \A t \in Client : dc'[t] = IF t = p THEN c ELSE dc[t]
    BY DEF Hold, TypeOK
  <1>3. \A c : Discard(p, c) => toClose'[Closer] = toClose[Closer]
    BY <1>0 DEF Discard, TypeOK
  <1>4. Return(p) \/ Retry(p) \/ BadConn(p) =>
          \A t \in Client : IF t = p THEN pc'[t] \in {"idle", "conn"} ELSE pc'[t] = pc[t]
    BY <1>1 DEF Return, Retry, BadConn, PcLabel
  <1>5. reply' = [reply EXCEPT ![p] = Empty] =>
          \A t \in Client : reply'[t] = IF t = p THEN Empty ELSE reply[t]
    BY DEF TypeOK
  <1>a. CASE Call(p)
    <2>1. Shape'
      BY <1>a, <1>1, <1>0 DEF Call, Shape, At, PcLabel
    <2> QED
      BY <2>1, <1>a, OtherReply DEF Call, conns, PairedUse
  <1>b. CASE Refused(p)
    <2>1. Shape'
      BY <1>b, <1>4, <1>0 DEF Refused, Shape, At
    <2> QED
      BY <2>1, <1>b, OtherReply DEF Refused, conns, PairedUse
  <1>c. CASE TakeFree(p)
    <2> PICK c \in freeConn :
               /\ freeConn' = freeConn \ {c}
               /\ inUse' = inUse \cup {c}
               /\ \/ Goto(p, "use") /\ Hold(p, c) /\ UNCHANGED <<attempt, toClose>>
                  \/ Discard(p, c) /\ BadConn(p) /\ UNCHANGED dc
      BY <1>c DEF TakeFree
    <2>0. c # NoConn /\ dc[p] = NoConn
      BY <1>c, <1>0 DEF TakeFree, At, Shape, TypeOK
    <2>1. CASE Goto(p, "use") /\ Hold(p, c) /\ UNCHANGED <<attempt, toClose>>
      <3>1. Shape'
        BY <2>0, <2>1, <1>c, <1>1, <1>2, <1>0 DEF TakeFree, Shape, At, PcLabel
      <3> QED
        BY <3>1, <2>0, <2>1, <1>c, IdleToHeld DEF TakeFree, Hold, conns, PairedUse
    <2>2. CASE Discard(p, c) /\ BadConn(p) /\ UNCHANGED dc
      <3>1. Shape'
        BY <2>0, <2>2, <1>c, <1>3, <1>4, <1>0 DEF TakeFree, Shape, At
      <3>2. OneOwner' /\ Marks'
        BY <2>2, <1>c, <1>0, IdleToClosing DEF TakeFree, Discard, At, conns
      <3> QED
        BY <3>1, <3>2, <1>c DEF TakeFree, PairedUse
    <2> QED
      BY <2>1, <2>2
  <1>d. CASE Request(p)
    <2>1. Shape'
      BY <1>d, <1>1, <1>5, <1>0 DEF Request, Shape, At, PcLabel
    <2>2. reply[p] = Empty
      BY <1>d DEF Request, Shape, At
    <2>3. OneOwner' /\ Marks'
      BY <2>2, <1>d, <1>5, <1>0, OtherReply DEF Request, conns
    <2> QED
      BY <2>1, <2>3, <1>d DEF Request, PairedUse
  <1>e. CASE Dial(p)
    <2>1. Shape'
      BY <1>e, <1>1, <1>0 DEF Dial, Shape, At, PcLabel
    <2> QED
      BY <2>1, <1>e, OtherReply DEF Dial, conns, PairedUse
  <1>f. CASE DialOk(p)
    <2> PICK c \in Conn : AddConn(c) /\ inUse' = inUse \cup {c} /\ Hold(p, c)
      BY <1>f DEF DialOk
    <2>1. Shape'
      BY <1>f, <1>1, <1>2, <1>0 DEF DialOk, Shape, At, PcLabel
    <2>2. dc[p] = NoConn
      BY <1>f DEF DialOk, Shape, At
    <2>3. OneOwner' /\ Marks'
      BY <2>2, <1>f, NewToHeld DEF DialOk, AddConn, Hold
    <2> QED
      BY <2>1, <2>3, <1>f DEF DialOk, PairedUse
  <1>g. CASE DialFail(p)
    <2>1. Shape'
      BY <1>g, <1>4, <1>0 DEF DialFail, Shape, At
    <2> QED
      BY <2>1, <1>g, OtherReply DEF DialFail, conns, PairedUse
  <1>h. CASE ReceiveConn(p)
    <2>0. /\ reply[p] \in Conn /\ dc[p] = NoConn /\ toClose[p] = {}
          /\ reply[p] # NoConn
      BY <1>h, <1>0 DEF ReceiveConn, Shape, At
    <2>1. CASE Goto(p, "use") /\ Hold(p, reply[p]) /\ UNCHANGED <<attempt, toClose>>
      <3>1. Shape'
        BY <2>0, <2>1, <1>h, <1>1, <1>2, <1>5, <1>0
        DEF ReceiveConn, Shape, At, PcLabel
      <3>2. OneOwner' /\ Marks'
        BY <2>0, <2>1, <1>h, ReplyToHeld DEF ReceiveConn, Hold, conns
      <3> QED
        BY <3>1, <3>2, <1>h DEF ReceiveConn, PairedUse
    <2>2. CASE Discard(p, reply[p]) /\ BadConn(p) /\ UNCHANGED dc
      <3>1. Shape'
        BY <2>0, <2>2, <1>h, <1>3, <1>4, <1>5, <1>0 DEF ReceiveConn, Shape, At
      <3>2. OneOwner' /\ Marks'
        BY <2>0, <2>2, <1>h, ReplyToClosing DEF ReceiveConn, Discard, conns
      <3> QED
        BY <3>1, <3>2, <1>h DEF ReceiveConn, PairedUse
    <2> QED
      BY <2>1, <2>2, <1>h DEF ReceiveConn
  <1>i. CASE ReceiveError(p)
    <2>1. Shape'
      BY <1>i, <1>4, <1>5, <1>0 DEF ReceiveError, Shape, At
    <2>2. OneOwner' /\ Marks'
      BY <1>i, <1>5, <1>0, OtherReply DEF ReceiveError, conns
    <2> QED
      BY <2>1, <2>2, <1>i DEF ReceiveError, PairedUse
  <1>j. CASE PutPanic(p)
    <2>1. dc[p] \in Conn
      BY <1>j, <1>0 DEF PutPanic, At, Shape, TypeOK
    <2> QED
      BY <2>1, <1>j DEF PutPanic, Marks
  <1>k. CASE PutGood(p)
    <2>0. dc[p] \in Conn /\ toClose[p] = {} /\ pc[p] \in {"use", "drain"}
      BY <1>k, <1>0 DEF PutGood, At, Shape, TypeOK
    <2>1. CASE Keep(dc[p]) /\ connRequests # {} /\ UNCHANGED toClose
      <3>1. /\ ~closed
            /\ Answer(dc[p])
            /\ inUse' = inUse \cup {dc[p]} /\ UNCHANGED freeConn
        BY <2>1 DEF Keep, Refuses
      <3> PICK r \in connRequests : /\ connRequests' = connRequests \ {r}
                                    /\ reply' = [reply EXCEPT ![r] = dc[p]]
        BY <3>1 DEF Answer
      <3>2. r \in Client /\ pc[r] = "wait" /\ reply[r] = Empty
        BY <3>1 DEF Shape, TypeOK
      <3>3. \A t \in Client : reply'[t] = IF t = r THEN dc[p] ELSE reply[t]
        BY DEF TypeOK
      <3>4. Shape'
        BY <2>0, <2>1, <3>1, <3>2, <3>3, <1>k, <1>1, <1>2, <1>0
        DEF PutGood, Shape, Return, PcLabel
      <3>5. OneOwner' /\ Marks'
        BY <2>0, <2>1, <3>1, <3>2, <1>k, <1>0, HeldToReply DEF PutGood, Hold, conns
      <3> QED
        BY <3>4, <3>5, <1>k DEF PutGood, PairedUse
    <2>2. CASE Keep(dc[p]) /\ connRequests = {} /\ UNCHANGED toClose
      <3>1. /\ freeConn' = freeConn \cup {dc[p]}
            /\ inUse' = inUse \ {dc[p]} /\ UNCHANGED <<connRequests, reply>>
        BY <2>2 DEF Keep
      <3>2. Shape'
        BY <2>0, <2>2, <3>1, <1>k, <1>1, <1>2, <1>0 DEF PutGood, Shape, Return, PcLabel
      <3>3. OneOwner' /\ Marks'
        BY <2>0, <2>2, <3>1, <1>k, HeldToIdle DEF PutGood, Hold, conns
      <3> QED
        BY <3>2, <3>3, <1>k DEF PutGood, PairedUse
    <2>3. CASE ~(Keep(dc[p]) /\ UNCHANGED toClose)
      <3>1. /\ Discard(p, dc[p])
            /\ inUse' = inUse \ {dc[p]}
            /\ UNCHANGED <<freeConn, connRequests, reply>>
        BY <2>3, <1>k DEF PutGood
      <3>2. Shape'
        BY <2>0, <3>1, <1>k, <1>1, <1>2, <1>3, <1>0 DEF PutGood, Shape, Return, PcLabel
      <3>3. OneOwner' /\ Marks'
        BY <2>0, <3>1, <1>k, HeldToClosing DEF PutGood, Hold, Discard, conns
      <3> QED
        BY <3>2, <3>3, <1>k DEF PutGood, PairedUse
    <2> QED
      BY <2>1, <2>2, <2>3
  <1>l. CASE PutBad(p)
    <2>0. dc[p] \in Conn /\ toClose[p] = {}
      BY <1>l, <1>0 DEF PutBad, At, Shape, TypeOK
    <2>1. Shape'
      BY <2>0, <1>l, <1>2, <1>3, <1>4, <1>0 DEF PutBad, Shape, At
    <2>2. OneOwner' /\ Marks'
      BY <2>0, <1>l, HeldToClosing DEF PutBad, Hold, Discard, conns
    <2> QED
      BY <2>1, <2>2, <1>l DEF PutBad, PairedUse
  <1>m. CASE Cancel(p)
    <2>1. CASE reply[p] \in Conn
      <3>0. dc[p] = NoConn /\ reply[p] # NoConn
        BY <2>1, <1>m, <1>0 DEF Cancel, Shape, At
      <3>1. Shape'
        BY <2>1, <3>0, <1>m, <1>1, <1>2, <1>5, <1>0 DEF Cancel, Shape, At, PcLabel
      <3>2. OneOwner' /\ Marks'
        BY <2>1, <3>0, <1>m, ReplyToHeld DEF Cancel, Hold, conns
      <3> QED
        BY <3>1, <3>2, <1>m DEF Cancel, PairedUse
    <2>2. CASE reply[p] \notin Conn
      <3>1. Shape'
        BY <2>2, <1>m, <1>4, <1>5, <1>0 DEF Cancel, Shape, At
      <3>2. OneOwner' /\ Marks'
        BY <2>2, <1>m, <1>5, <1>0, OtherReply DEF Cancel, conns
      <3> QED
        BY <3>1, <3>2, <1>m DEF Cancel, PairedUse
    <2> QED
      BY <2>1, <2>2
  <1> QED
    BY <1>a, <1>b, <1>c, <1>d, <1>e, <1>f, <1>g, <1>h, <1>i, <1>j, <1>k, <1>l, <1>m
    DEF ClientStep, Obtain, PutConn

\* A step of the opener, of DBClose, of the cleaner, or of whoever closes a
\* connection keeps the ownership invariant.
LEMMA OwnerWorkers ==
  ASSUME TypeOK, PoolInv,
         \/ \E q \in Process : CloseStep(q)
         \/ OpenerStep \/ DBClose \/ Stop \/ CleanerStep
  PROVE  PoolInv'
  <1> USE DEF PoolInv
  <1>0. /\ Closer \in Process /\ Cleaner \in Process /\ Closer # Cleaner
        /\ {NoConn, Empty, Closed, Failed} \cap Conn = {}
        /\ Empty # Closed /\ Empty # Failed
    BY ConnAssumption DEF Process, Empty, Closed, Failed, Closer, Cleaner
  <1>a. ASSUME NEW q \in Process, NEW c \in Conn, CloseConn(q, c)
        PROVE PoolInv'
    <2>1. c \in dep /\ phase[c] = "live"
      BY <1>a DEF CloseConn, Marks
    <2>2. Shape'
      BY <2>1, <1>a DEF CloseConn, Shape, clients
    <2>3. OneOwner' /\ Marks'
      BY <2>1, <1>a, LiveToClosed DEF CloseConn, clients
    <2> QED
      BY <2>1, <2>2, <2>3, <1>a DEF CloseConn, PairedUse
  <1>b. ASSUME NEW q \in Process, NEW c \in Conn, FinalClose(q, c)
        PROVE PoolInv'
    <2>1. toClose[Closer] = {} => toClose'[Closer] = {}
      BY <1>b, <1>0 DEF FinalClose, TypeOK
    <2>2. Shape'
      BY <2>1, <1>b DEF FinalClose, Shape, clients
    <2>3. OneOwner' /\ Marks'
      BY <1>b, ClosingToNone DEF FinalClose, clients
    <2> QED
      BY <2>2, <2>3, <1>b DEF FinalClose, PairedUse
  <1>c. CASE DBClose
    <2>0. ~closed /\ toClose[Closer] = {} /\ freeConn \subseteq Conn
      BY <1>c DEF DBClose, Shape, TypeOK
    <2>1. freeConn \subseteq dep
      BY <2>0 DEF Marks
    <2>2. \A t \in Process : toClose'[t] = IF t = Closer THEN freeConn ELSE toClose[t]
      BY <1>c DEF DBClose, TypeOK
    <2>3. \A c \in Conn : phase'[c] = IF c \in freeConn THEN "closed" ELSE phase[c]
      BY <1>c DEF DBClose
    <2>4. \A p \in Client :
             /\ reply'[p] = reply[p] \/ (reply'[p] = Closed /\ reply[p] = Empty)
             /\ reply'[p] # Empty => pc[p] = "wait"
      BY <2>0, <1>c DEF DBClose, Shape
    <2>5. Shape'
      BY <2>4, <1>c DEF DBClose, Shape, clients
    <2>9. \A p \in Client, c \in Conn : reply'[p] = c => reply[p] = c
      BY <2>4, <1>0
    <2>6. Apart'
      BY <2>0, <2>2, <2>9, <1>0, <1>c DEF DBClose, OneOwner, Apart, clients
    <2>7. (\A d \in Conn : Open(d) <=> Owned(d))'
      BY <2>0, <2>2, <2>3, <2>4, <1>0, <1>c
      DEF DBClose, OneOwner, Owned, Open, Marks, clients
    <2>8. Marks'
      <3>1. \A c \in Conn : c \in dep' <=> phase'[c] = "live"
        BY <2>0, <2>3, <1>c DEF DBClose, Marks
      <3>2. \A p \in Client : dc[p] \in Conn => phase'[dc[p]] = "live" /\ dc[p] \in inUse
        BY <2>3 DEF Marks, OneOwner, Apart
      <3>3. \A p \in Client :
               reply'[p] \in Conn => phase'[reply'[p]] = "live" /\ reply'[p] \in inUse
        BY <2>3, <2>9 DEF Marks, OneOwner, Apart
      <3>4. \A t \in Process : \A c \in toClose'[t] : phase'[c] # "none"
        BY <2>0, <2>2, <2>3 DEF Marks, Open, TypeOK
      <3> QED
        BY <3>1, <3>2, <3>3, <3>4, <1>c DEF DBClose, Marks, Open, clients
    <2> QED
      BY <2>1, <2>5, <2>6, <2>7, <2>8, <1>c DEF DBClose, OneOwner, PairedUse
  <1>d. CASE Stop
    <2>1. Shape'
      BY <1>d DEF Stop, Shape, clients
    <2> QED
      BY <2>1, <1>d, OtherReply DEF Stop, clients, conns, PairedUse
  <1>e. CASE OpenerTake
    <2>1. Shape'
      BY <1>e DEF OpenerTake, Shape, clients
    <2> QED
      BY <2>1, <1>e, OtherReply DEF OpenerTake, clients, conns, PairedUse
  <1>f. CASE OpenerExit
    <2>1. Shape'
      BY <1>f DEF OpenerExit, Shape, clients
    <2> QED
      BY <2>1, <1>f, OtherReply DEF OpenerExit, clients, conns, PairedUse
  <1>g. CASE OpenerKeep
    <2> PICK c \in Conn : AddConn(c) /\ Keep(c)
      BY <1>g DEF OpenerKeep
    <2>1. CASE connRequests # {}
      <3>1. /\ ~closed
            /\ Answer(c)
            /\ inUse' = inUse \cup {c} /\ UNCHANGED freeConn
        BY <2>1 DEF Keep, Refuses
      <3> PICK r \in connRequests : /\ connRequests' = connRequests \ {r}
                                    /\ reply' = [reply EXCEPT ![r] = c]
        BY <3>1 DEF Answer
      <3>2. r \in Client /\ pc[r] = "wait" /\ reply[r] = Empty
        BY <3>1 DEF Shape, TypeOK
      <3>3. \A t \in Client : reply'[t] = IF t = r THEN c ELSE reply[t]
        BY DEF TypeOK
      <3>4. Shape'
        BY <3>1, <3>2, <3>3, <1>g DEF OpenerKeep, Shape, clients
      <3>5. OneOwner' /\ Marks'
        BY <3>1, <3>2, <1>g, <1>0, NewToReply DEF OpenerKeep, AddConn, clients
      <3> QED
        BY <3>4, <3>5, <1>g DEF OpenerKeep, PairedUse
    <2>2. CASE connRequests = {}
      <3>1. /\ freeConn' = freeConn \cup {c}
            /\ inUse' = inUse \ {c} /\ UNCHANGED <<connRequests, reply>>
        BY <2>2 DEF Keep
      <3>2. Shape'
        BY <3>1, <1>g DEF OpenerKeep, Shape, clients
      <3>3. OneOwner' /\ Marks'
        BY <3>1, <1>g, NewToIdle DEF OpenerKeep, AddConn, clients
      <3> QED
        BY <3>2, <3>3, <1>g DEF OpenerKeep, PairedUse
    <2> QED
      BY <2>1, <2>2
  <1>h. CASE OpenerDrop
    <2>1. Shape'
      BY <1>h DEF OpenerDrop, Shape, clients
    <2> QED
      BY <2>1, <1>h, OtherReply DEF OpenerDrop, clients, conns, PairedUse
  <1>i. CASE OpenerFail
    <2>1. CASE UNCHANGED <<connRequests, reply>>
      <3>1. Shape'
        BY <2>1, <1>i DEF OpenerFail, Shape, clients
      <3> QED
        BY <3>1, <2>1, <1>i, OtherReply DEF OpenerFail, clients, conns, PairedUse
    <2>2. CASE Answer(Failed)
      <3> PICK r \in connRequests : /\ connRequests' = connRequests \ {r}
                                    /\ reply' = [reply EXCEPT ![r] = Failed]
        BY <2>2 DEF Answer
      <3>1. r \in Client /\ pc[r] = "wait" /\ reply[r] = Empty
        BY <1>i DEF OpenerFail, Shape, TypeOK
      <3>2. \A t \in Client : reply'[t] = IF t = r THEN Failed ELSE reply[t]
        BY DEF TypeOK
      <3>3. Shape'
        BY <3>1, <3>2, <1>i DEF OpenerFail, Shape, clients
      <3>4. OneOwner' /\ Marks'
        BY <3>1, <3>2, <1>i, <1>0, OtherReply DEF OpenerFail, clients, conns
      <3> QED
        BY <3>3, <3>4, <1>i DEF OpenerFail, PairedUse
    <2> QED
      BY <2>1, <2>2, <1>i DEF OpenerFail
  <1>j. CASE CleanerRun
    <2> PICK expired \in SUBSET freeConn :
               /\ freeConn' = freeConn \ expired
               /\ toClose' = [toClose EXCEPT ![Cleaner] = expired]
      BY <1>j DEF CleanerRun
    <2>1. Shape'
      BY <1>j, <1>0 DEF CleanerRun, Shape, clients, TypeOK
    <2>2. OneOwner' /\ Marks'
      BY <1>j, <1>0, IdleToClosing DEF CleanerRun, CleanerAwake, clients, conns
    <2> QED
      BY <2>1, <2>2, <1>j DEF CleanerRun, PairedUse
  <1>k. CASE CleanerExit
    <2>1. Shape'
      BY <1>k DEF CleanerExit, Shape, clients
    <2> QED
      BY <2>1, <1>k, OtherReply DEF CleanerExit, clients, conns, PairedUse
  <1> QED
    BY <1>a, <1>b, <1>c, <1>d, <1>e, <1>f, <1>g, <1>h, <1>i, <1>j, <1>k
    DEF CloseStep, OpenerStep, CleanerStep

\* A step of the Set... methods keeps the ownership invariant.
LEMMA OwnerSetters ==
  ASSUME TypeOK, PoolInv, NEW s \in Setter, SetterStep(s)
  PROVE  PoolInv'
  <1> USE DEF PoolInv
  <1>0. s \in Process /\ s # Closer /\ Closer \in Process
    BY ProcessAssumption DEF Process
  <1>1. ASSUME NEW n, SetMaxIdleConns(s, n)
        PROVE PoolInv'
    <2> PICK closing \in SUBSET freeConn :
               /\ freeConn' = freeConn \ closing
               /\ toClose' = [toClose EXCEPT ![s] = closing]
      BY <1>1 DEF SetMaxIdleConns
    <2>1. Shape'
      BY <1>1, <1>0 DEF SetMaxIdleConns, Shape, clients, TypeOK
    <2>2. OneOwner' /\ Marks'
      BY <1>1, <1>0, IdleToClosing DEF SetMaxIdleConns, clients, conns
    <2> QED
      BY <2>1, <2>2, <1>1 DEF SetMaxIdleConns, PairedUse
  <1>a. ASSUME NEW n \in PoolSizes, SetMaxOpenConns(s, n)
        PROVE PoolInv'
    <2>1. Shape'
      BY <1>a DEF SetMaxOpenConns, Shape, clients
    <2> QED
      BY <2>1, <1>a, OtherReply DEF SetMaxOpenConns, clients, conns, PairedUse
  <1>b. ASSUME NEW d \in Lifetimes, SetConnMaxLifetime(s, d)
        PROVE PoolInv'
    <2>1. Shape'
      BY <1>b DEF SetConnMaxLifetime, Shape, clients
    <2> QED
      BY <2>1, <1>b, OtherReply DEF SetConnMaxLifetime, clients, conns, PairedUse
  <1>c. ASSUME NEW d \in IdleTimes, SetConnMaxIdleTime(s, d)
        PROVE PoolInv'
    <2>1. Shape'
      BY <1>c DEF SetConnMaxIdleTime, Shape, clients
    <2> QED
      BY <2>1, <1>c, OtherReply DEF SetConnMaxIdleTime, clients, conns, PairedUse
  <1> QED
    BY <1>1, <1>a, <1>b, <1>c DEF SetterStep, SyncIdle

\* The initial state satisfies the ownership invariant.
LEMMA OwnerInit == Init => PoolInv
  <1> SUFFICES ASSUME Init PROVE PoolInv
    OBVIOUS
  <1>1. {NoConn, Empty} \cap Conn = {}
    BY ConnAssumption
  <1>2. Apart /\ \A c \in Conn : Open(c) <=> Owned(c)
    BY <1>1 DEF Init, Apart, Open, Owned
  <1>3. Shape
    BY DEF Init, Shape, Process, Closer
  <1>4. Marks
    BY <1>1 DEF Init, Marks
  <1>5. PairedUse
    BY DEF Init, PairedUse, NoPanicYet
  <1> QED
    BY <1>2, <1>3, <1>4, <1>5 DEF PoolInv, OneOwner

\* Every step keeps the ownership invariant.
LEMMA OwnerStep == TypeOK /\ PoolInv /\ [Next]_vars => PoolInv'
  <1> SUFFICES ASSUME TypeOK, PoolInv, [Next]_vars PROVE PoolInv'
    OBVIOUS
  <1>1. CASE UNCHANGED vars
    <2>1. Shape'
      BY <1>1 DEF vars, clients, PoolInv, Shape
    <2> QED
      BY <2>1, <1>1, OtherReply DEF vars, clients, conns, PoolInv, PairedUse
  <1>2. CASE Next
    BY <1>2, OwnerClient, OwnerWorkers, OwnerSetters DEF Next, Step
  <1> QED
    BY <1>1, <1>2

\* The ownership invariant holds in every reachable state.
THEOREM PoolInvariant == Spec => []PoolInv
  BY OwnerInit, OwnerStep, PoolTypes, PTL DEF Spec

\* Every established connection has exactly one owner.
THEOREM OwnershipHolds == Spec => []OneOwner
  <1>1. PoolInv => OneOwner
    BY DEF PoolInv
  <1> QED
    BY <1>1, PoolInvariant, PTL

\* putConn and removeDepLocked never panic.
THEOREM PairingHolds == Spec => []PairedUse
  <1>1. PoolInv => PairedUse
    BY DEF PoolInv
  <1> QED
    BY <1>1, PoolInvariant, PTL

-------------------------------------------------------------------------------
(* The count of connections: numOpen, what is open and what is on order.   *)

\* The counts of the pool are counts of finite sets.
LEMMA CountsFinite ==
  /\ IsFiniteSet(OpenConns) /\ Cardinality(OpenConns) \in Nat
  /\ IsFiniteSet(Dialing) /\ Cardinality(Dialing) \in Nat
  <1>1. OpenConns \subseteq Conn /\ Dialing \subseteq Client
    BY DEF OpenConns, Dialing
  <1> QED
    BY <1>1, ConnFinite, ClientFinite, FS_Subset, FS_CardinalityType

\* One more connection is open.
LEMMA OpenOneMore ==
  ASSUME TypeOK, NEW c \in Conn, AddConn(c)
  PROVE  Cardinality(OpenConns') = Cardinality(OpenConns) + 1
  <1>1. OpenConns' = OpenConns \cup {c} /\ c \notin OpenConns
    BY DEF AddConn, OpenConns, Open, TypeOK
  <1> QED
    BY <1>1, CountsFinite, FS_AddElement

\* One connection less is open.
LEMMA OpenOneLess ==
  ASSUME TypeOK, NEW c \in Conn, Open(c), phase' = [phase EXCEPT ![c] = "none"]
  PROVE  Cardinality(OpenConns') = Cardinality(OpenConns) - 1
  <1>1. OpenConns' = OpenConns \ {c} /\ c \in OpenConns
    BY DEF OpenConns, Open, TypeOK
  <1> QED
    BY <1>1, CountsFinite, FS_RemoveElement

\* Where a client goes decides whether it is dialling.
LEMMA DialingAfter ==
  ASSUME TypeOK, NEW p \in Client,
         \A r \in Client : r # p => pc'[r] = pc[r]
  PROVE  Cardinality(Dialing') = Cardinality(Dialing)
           + (IF pc'[p] = "dial" THEN 1 ELSE 0) - (IF pc[p] = "dial" THEN 1 ELSE 0)
  <1>1. CASE pc'[p] = "dial" /\ pc[p] # "dial"
    <2>1. Dialing' = Dialing \cup {p} /\ p \notin Dialing
      BY <1>1 DEF Dialing
    <2>2. Cardinality(Dialing') = Cardinality(Dialing) + 1
      BY <2>1, CountsFinite, FS_AddElement
    <2> QED
      BY <1>1, <2>2, CountsFinite
  <1>2. CASE pc'[p] # "dial" /\ pc[p] = "dial"
    <2>1. Dialing' = Dialing \ {p} /\ p \in Dialing
      BY <1>2 DEF Dialing
    <2>2. Cardinality(Dialing') = Cardinality(Dialing) - 1
      BY <2>1, CountsFinite, FS_RemoveElement
    <2> QED
      BY <1>2, <2>2, CountsFinite
  <1>3. CASE pc'[p] = "dial" <=> pc[p] = "dial"
    <2>1. Dialing' = Dialing
      BY <1>3 DEF Dialing
    <2> QED
      BY <1>3, <2>1, CountsFinite
  <1> QED
    BY <1>1, <1>2, <1>3

\* What NeverOpensPastLimit says of a step.
StaysBelow == numOpen' > numOpen => maxOpen = 0 \/ numOpen' <= maxOpen

\* The parts of OpenCount are numbers, before and after a step.
LEMMA CountParts ==
  /\ Cardinality(OpenConns) \in Nat /\ Cardinality(Dialing) \in Nat
  /\ Opening \in Nat
  /\ Cardinality(OpenConns') \in Nat /\ Cardinality(Dialing') \in Nat
  /\ Opening' \in Nat
  <1>1. OpenConns' \subseteq Conn /\ Dialing' \subseteq Client
    BY DEF OpenConns, Dialing
  <1>2. Cardinality(OpenConns') \in Nat /\ Cardinality(Dialing') \in Nat
    BY <1>1, ConnFinite, ClientFinite, FS_Subset, FS_CardinalityType
  <1> QED
    BY <1>2, CountsFinite DEF Opening

\* A step that takes k off the count, and off what is open or on order, and then
\* calls maybeOpenNewConnections.
LEMMA CountMaybeOpen ==
  ASSUME TypeOK, OpenCount, NEW k \in {0, 1}, NEW reqs \in Nat,
         MaybeOpen(numOpen - k, reqs), closed' = closed,
         Cardinality(OpenConns') + Opening' + Cardinality(Dialing')
           = Cardinality(OpenConns) + Opening + Cardinality(Dialing) - k
  PROVE  OpenCount' /\ StaysBelow
  <1> DEFINE x == Cardinality(OpenConns) + Opening + Cardinality(Dialing) - k
             y == Cardinality(OpenConns') + Opening' + Cardinality(Dialing')
  <1>1. /\ numOpen \in Int /\ openerCh \in Nat /\ maxOpen \in Nat
        /\ x \in Int /\ y = x /\ numOpen - k \in Int
    BY CountParts DEF TypeOK
  <1>2. /\ numOpen - k >= x + openerCh
        /\ ~closed => numOpen - k = x + openerCh
    BY <1>1, CountParts DEF OpenCount, OnOrder
  <1>3. numOpen' \in Int /\ openerCh' \in Nat
    BY <1>1, MaybeOpenType
  <1> HIDE DEF x
  <1>4. /\ numOpen' >= x + openerCh'
        /\ ~closed => numOpen' = x + openerCh'
    BY <1>1, <1>2 DEF MaybeOpen, Wanted, Smaller, TypeOK
  <1>5. /\ numOpen' >= y + openerCh'
        /\ ~closed => numOpen' = y + openerCh'
    BY <1>1, <1>4
  <1>6. /\ numOpen' >= Cardinality(OpenConns') + OnOrder'
        /\ ~closed => numOpen' = Cardinality(OpenConns') + OnOrder'
    BY <1>3, <1>5, CountParts DEF OnOrder
  <1>7. OpenCount'
    BY <1>6 DEF OpenCount
  <1>8. StaysBelow
    BY <1>1 DEF MaybeOpen, Wanted, Smaller, StaysBelow
  <1> QED
    BY <1>7, <1>8

\* A step of a caller keeps the count, and the limit when it raises the count.
LEMMA CountClient ==
  ASSUME TypeOK, OpenCount, NEW p \in Client, Call(p) \/ ClientStep(p) \/ Cancel(p)
  PROVE  OpenCount' /\ StaysBelow
  <1> DEFINE N == Cardinality(OpenConns)
             D == Cardinality(Dialing)
  <1>0. /\ N \in Nat /\ D \in Nat /\ Opening \in Nat
        /\ numOpen \in Int /\ openerCh \in Nat /\ maxOpen \in Nat
        /\ Cardinality(connRequests) \in Nat
        /\ numOpen >= N + openerCh + Opening + D
        /\ ~closed => numOpen = N + openerCh + Opening + D
    BY CountsFinite, RequestsFinite DEF Opening, TypeOK, OpenCount, OnOrder
  <1>1. \A l \in PcLabel : Goto(p, l) => \A t \in Client : pc'[t] = IF t = p THEN l ELSE pc[t]
    BY DEF Goto, TypeOK
  <1>2. Return(p) \/ Retry(p) \/ BadConn(p) =>
          \A t \in Client : IF t = p THEN pc'[t] \in {"idle", "conn"} ELSE pc'[t] = pc[t]
    BY <1>1 DEF Return, Retry, BadConn, PcLabel
  <1>3. UNCHANGED phase => N' = N
    BY DEF OpenConns, Open
  <1>4. UNCHANGED opener => Opening' = Opening
    BY DEF Opening
  <1>5. UNCHANGED pc => D' = D
    BY DEF Dialing
  <1>6. ASSUME pc[p] # "dial", pc'[p] # "dial", \A r \in Client : r # p => pc'[r] = pc[r]
        PROVE D' = D
    BY <1>6, <1>0, DialingAfter
  \* The steps that leave numOpen, openerCh and the connections alone.
  <1>7. ASSUME UNCHANGED <<numOpen, openerCh, closed, phase, opener>>, D' = D
        PROVE OpenCount' /\ StaysBelow
    BY <1>7, <1>0, <1>3, <1>4 DEF OpenCount, OnOrder, StaysBelow
  <1>a. CASE Call(p)
    <2>1. D' = D
      BY <1>a, <1>1, <1>6 DEF Call, At, PcLabel
    <2> QED
      BY <2>1, <1>a, <1>7 DEF Call, conns, workers
  <1>b. CASE Refused(p)
    <2>1. D' = D
      BY <1>b, <1>2, <1>6 DEF Refused, At
    <2> QED
      BY <2>1, <1>b, <1>7 DEF Refused, conns, workers
  <1>c. CASE TakeFree(p)
    <2>1. Goto(p, "use") \/ BadConn(p)
      BY <1>c DEF TakeFree
    <2>2. D' = D
      BY <2>1, <1>c, <1>1, <1>2, <1>6 DEF TakeFree, At, PcLabel
    <2> QED
      BY <2>2, <1>c, <1>7 DEF TakeFree, conns, workers
  <1>d. CASE Request(p)
    <2>1. D' = D
      BY <1>d, <1>1, <1>6 DEF Request, At, PcLabel
    <2> QED
      BY <2>1, <1>d, <1>7 DEF Request, conns, workers
  <1>e. CASE Dial(p)
    <2>1. /\ pc[p] = "conn" /\ pc'[p] = "dial"
          /\ \A r \in Client : r # p => pc'[r] = pc[r]
      BY <1>e, <1>1 DEF Dial, At, PcLabel
    <2>2. D' = D + 1
      BY <2>1, <1>0, DialingAfter
    <2>3. N' = N /\ Opening' = Opening
      BY <1>e, <1>3, <1>4 DEF Dial, conns, workers
    <2>4. numOpen' = numOpen + 1 /\ UNCHANGED <<openerCh, closed>>
      BY <1>e DEF Dial
    <2>5. maxOpen = 0 \/ numOpen < maxOpen
      BY <1>e, <1>0 DEF Dial, AtLimit
    <2> QED
      BY <2>2, <2>3, <2>4, <2>5, <1>0 DEF OpenCount, OnOrder, StaysBelow
  <1>f. CASE DialOk(p)
    <2>1. /\ pc[p] = "dial" /\ pc'[p] = "use"
          /\ \A r \in Client : r # p => pc'[r] = pc[r]
      BY <1>f, <1>1 DEF DialOk, At, PcLabel
    <2>2. D' = D - 1
      BY <2>1, <1>0, DialingAfter
    <2>3. N' = N + 1
      BY <1>f, OpenOneMore DEF DialOk
    <2>4. UNCHANGED <<numOpen, openerCh, closed>> /\ Opening' = Opening
      BY <1>f, <1>4 DEF DialOk, workers
    <2> QED
      BY <2>2, <2>3, <2>4, <1>0 DEF OpenCount, OnOrder, StaysBelow
  <1>g. CASE DialFail(p)
    <2>1. /\ pc[p] = "dial" /\ pc'[p] \in {"idle", "conn"}
          /\ \A r \in Client : r # p => pc'[r] = pc[r]
      BY <1>g, <1>2 DEF DialFail, At
    <2>2. D' = D - 1
      BY <2>1, <1>0, DialingAfter
    <2>3. N' = N /\ Opening' = Opening /\ closed' = closed
      BY <1>g, <1>3, <1>4 DEF DialFail, conns, workers
    <2>4. MaybeOpen(numOpen - 1, Cardinality(connRequests))
      BY <1>g DEF DialFail
    <2> QED
      BY <2>2, <2>3, <2>4, <1>0, CountMaybeOpen
  <1>h. CASE ReceiveConn(p)
    <2>1. Goto(p, "use") \/ BadConn(p)
      BY <1>h DEF ReceiveConn
    <2>2. D' = D
      BY <2>1, <1>h, <1>1, <1>2, <1>6 DEF ReceiveConn, At, PcLabel
    <2> QED
      BY <2>2, <1>h, <1>7 DEF ReceiveConn, conns, workers
  <1>i. CASE ReceiveError(p)
    <2>1. D' = D
      BY <1>i, <1>2, <1>6 DEF ReceiveError, At
    <2> QED
      BY <2>1, <1>i, <1>7 DEF ReceiveError, conns, workers
  <1>j. CASE PutPanic(p)
    BY <1>j, <1>5, <1>7 DEF PutPanic, conns, clients, workers
  <1>k. CASE PutGood(p)
    <2>1. D' = D
      BY <1>k, <1>2, <1>6 DEF PutGood, At
    <2> QED
      BY <2>1, <1>k, <1>7 DEF PutGood, conns, workers
  <1>l. CASE PutBad(p)
    <2>1. D' = D
      BY <1>l, <1>2, <1>6 DEF PutBad, At
    <2>2. N' = N /\ Opening' = Opening /\ closed' = closed
      BY <1>l, <1>3, <1>4 DEF PutBad, conns, workers
    <2>3. MaybeOpen(numOpen - 0, Cardinality(connRequests))
      BY <1>l, <1>0 DEF PutBad
    <2> QED
      BY <2>1, <2>2, <2>3, <1>0, CountMaybeOpen
  <1>m. CASE Cancel(p)
    <2>1. Goto(p, "drain") \/ Return(p)
      BY <1>m DEF Cancel
    <2>2. D' = D
      BY <2>1, <1>m, <1>1, <1>2, <1>6 DEF Cancel, At, PcLabel
    <2> QED
      BY <2>2, <1>m, <1>7 DEF Cancel, conns, workers
  <1> QED
    BY <1>a, <1>b, <1>c, <1>d, <1>e, <1>f, <1>g, <1>h, <1>i, <1>j, <1>k, <1>l, <1>m
    DEF ClientStep, Obtain, PutConn

\* A step that leaves the parts of OpenCount alone.
LEMMA CountQuiet ==
  ASSUME TypeOK, OpenCount, UNCHANGED <<numOpen, openerCh, opener, pc>>,
         closed' = closed \/ closed', OpenConns' = OpenConns
  PROVE  OpenCount' /\ StaysBelow
  <1>1. Dialing' = Dialing /\ Opening' = Opening
    BY DEF Dialing, Opening
  <1> QED
    BY <1>1 DEF OpenCount, OnOrder, StaysBelow, TypeOK

\* The steps of the goroutines that close connections, and of DBClose.
LEMMA CountClosers ==
  ASSUME TypeOK, OpenCount, PoolInv,
         (\E q \in Process : CloseStep(q)) \/ CleanerStep \/ DBClose \/ Stop
  PROVE  OpenCount' /\ StaysBelow
  <1>a. ASSUME NEW q \in Process, NEW c \in Conn, CloseConn(q, c)
        PROVE  OpenCount' /\ StaysBelow
    <2>1. Open(c)
      BY <1>a DEF CloseConn, PoolInv, Marks
    <2>2. OpenConns' = OpenConns
      BY <2>1, <1>a DEF CloseConn, conns, OpenConns, Open, TypeOK
    <2> QED
      BY <2>2, <1>a, CountQuiet DEF CloseConn, clients, workers
  <1>b. ASSUME NEW q \in Process, NEW c \in Conn, FinalClose(q, c)
        PROVE  OpenCount' /\ StaysBelow
    <2>1. Cardinality(OpenConns') = Cardinality(OpenConns) - 1
      BY <1>b, OpenOneLess DEF FinalClose, Open
    <2>2. Dialing' = Dialing /\ Opening' = Opening /\ closed' = closed
      BY <1>b DEF FinalClose, clients, workers, Dialing, Opening
    <2>3. Cardinality(connRequests) \in Nat
      BY RequestsFinite DEF TypeOK
    <2>4. Cardinality(OpenConns') + Opening' + Cardinality(Dialing')
            = Cardinality(OpenConns) + Opening + Cardinality(Dialing) - 1
      BY <2>1, <2>2, CountParts
    <2>5. MaybeOpen(numOpen - 1, Cardinality(connRequests))
      BY <1>b DEF FinalClose
    <2> QED
      BY <2>2, <2>3, <2>4, <2>5, CountMaybeOpen
  <1>c. CASE CleanerStep
    <2>1. OpenConns' = OpenConns
      BY <1>c DEF CleanerStep, CleanerRun, CleanerExit, conns, OpenConns, Open
    <2> QED
      BY <2>1, <1>c, CountQuiet
      DEF CleanerStep, CleanerRun, CleanerExit, clients, workers
  <1>d. CASE DBClose
    <2>1. OpenConns' = OpenConns
      BY <1>d DEF DBClose, OpenConns, Open, PoolInv, Marks, TypeOK
    <2> QED
      BY <2>1, <1>d, CountQuiet DEF DBClose, clients, workers
  <1>e. CASE Stop
    <2>1. OpenConns' = OpenConns
      BY <1>e DEF Stop, conns, OpenConns, Open
    <2> QED
      BY <2>1, <1>e, CountQuiet DEF Stop, clients
  <1> QED
    BY <1>a, <1>b, <1>c, <1>d, <1>e DEF CloseStep

\* The steps of connectionOpener.
LEMMA CountOpener ==
  ASSUME TypeOK, OpenCount, OpenerStep
  PROVE  OpenCount' /\ StaysBelow
  <1>0. /\ numOpen \in Int /\ openerCh \in Nat
        /\ opener # "dial" => Opening = 0
        /\ opener = "dial" => Opening = 1
        /\ opener' # "dial" => Opening' = 0
        /\ opener' = "dial" => Opening' = 1
    BY DEF Opening, TypeOK
  <1>1. UNCHANGED <<phase, pc>> => OpenConns' = OpenConns /\ Dialing' = Dialing
    BY DEF OpenConns, Open, Dialing
  <1>a. CASE OpenerTake
    <2>1. /\ OpenConns' = OpenConns /\ Dialing' = Dialing
          /\ Opening = 0 /\ Opening' = 1
          /\ openerCh' = openerCh - 1
          /\ numOpen' = numOpen /\ closed' = closed
      BY <1>a, <1>0, <1>1 DEF OpenerTake, conns, clients
    <2> QED
      BY <2>1, <1>0, CountParts DEF OpenCount, OnOrder, StaysBelow
  <1>b. CASE OpenerExit
    <2>1. /\ OpenConns' = OpenConns /\ Dialing' = Dialing /\ Opening' = Opening
          /\ UNCHANGED <<numOpen, openerCh, closed>>
      BY <1>b, <1>0, <1>1 DEF OpenerExit, conns, clients
    <2> QED
      BY <2>1, <1>0 DEF OpenCount, OnOrder, StaysBelow
  <1>c. CASE OpenerKeep
    <2>1. Cardinality(OpenConns') = Cardinality(OpenConns) + 1
      BY <1>c, OpenOneMore DEF OpenerKeep
    <2>2. /\ Dialing' = Dialing /\ Opening = 1 /\ Opening' = 0
          /\ UNCHANGED <<numOpen, openerCh, closed>>
      BY <1>c, <1>0 DEF OpenerKeep, clients, Dialing
    <2> QED
      BY <2>1, <2>2, <1>0, CountParts DEF OpenCount, OnOrder, StaysBelow
  <1>d. CASE OpenerDrop
    <2>1. /\ OpenConns' = OpenConns /\ Dialing' = Dialing
          /\ Opening = 1 /\ Opening' = 0
          /\ numOpen' = numOpen - 1
          /\ openerCh' = openerCh /\ closed' = closed
      BY <1>d, <1>0, <1>1 DEF OpenerDrop, conns, clients
    <2>2. OnOrder \in Int /\ OnOrder' = OnOrder - 1
      BY <2>1, <1>0, CountParts DEF OnOrder
    <2> QED
      BY <2>1, <2>2, <1>0, CountParts DEF OpenCount, StaysBelow
  <1>e. CASE OpenerFail
    <2>1. /\ OpenConns' = OpenConns /\ Dialing' = Dialing
          /\ Opening = 1 /\ Opening' = 0 /\ closed' = closed
      BY <1>e, <1>0, <1>1 DEF OpenerFail, conns, clients
    <2>2. MaybeOpen(numOpen - 1, Cardinality(connRequests'))
      BY <1>e DEF OpenerFail
    <2>3. connRequests' \subseteq Client
      BY <1>e DEF OpenerFail, Answer, TypeOK
    <2>4. Cardinality(connRequests') \in Nat
      BY <2>3, ClientFinite, FS_Subset, FS_CardinalityType
    <2>5. Cardinality(OpenConns') + Opening' + Cardinality(Dialing')
            = Cardinality(OpenConns) + Opening + Cardinality(Dialing) - 1
      BY <2>1, CountParts
    <2> QED
      BY <2>1, <2>2, <2>4, <2>5, CountMaybeOpen
  <1> QED
    BY <1>a, <1>b, <1>c, <1>d, <1>e DEF OpenerStep

\* The steps of the Set... methods.
LEMMA CountSetters ==
  ASSUME TypeOK, OpenCount, NEW s \in Setter, SetterStep(s)
  PROVE  OpenCount' /\ StaysBelow
  <1>1. UNCHANGED <<numOpen, openerCh, opener, pc, closed, phase>>
    BY DEF SetterStep, SyncIdle, SetMaxOpenConns, SetMaxIdleConns,
           SetConnMaxLifetime, SetConnMaxIdleTime, conns, clients, workers
  <1>2. OpenConns' = OpenConns
    BY <1>1 DEF OpenConns, Open
  <1> QED
    BY <1>1, <1>2, CountQuiet

LEMMA CountInit == Init => OpenCount
  <1> SUFFICES ASSUME Init PROVE OpenCount
    OBVIOUS
  <1>1. OpenConns = {} /\ Dialing = {} /\ Opening = 0
    BY DEF Init, OpenConns, Open, Dialing, Opening
  <1> QED
    BY <1>1, FS_EmptySet DEF Init, OpenCount, OnOrder

LEMMA CountStep ==
  ASSUME TypeOK, PoolInv, OpenCount, [Next]_vars
  PROVE  OpenCount' /\ (StaysBelow \/ UNCHANGED vars)
  <1>1. CASE UNCHANGED vars
    <2>1. OpenConns' = OpenConns
      BY <1>1 DEF vars, conns, OpenConns, Open
    <2> QED
      BY <2>1, <1>1, CountQuiet DEF vars, clients, workers
  <1>2. CASE Step
    BY <1>2, CountClient, CountClosers, CountOpener, CountSetters DEF Step
  <1> QED
    BY <1>1, <1>2 DEF Next

\* numOpen, which every decision to open a connection is taken on, never counts
\* less than what is open or on order, and is exact until DBClose.
THEOREM CountHolds == Spec => []OpenCount
  <1>1. Init => OpenCount
    BY CountInit
  <1>2. TypeOK /\ PoolInv /\ OpenCount /\ [Next]_vars => OpenCount'
    BY CountStep
  <1> QED
    BY <1>1, <1>2, PoolTypes, PoolInvariant, PTL DEF Spec

\* No step of the pool raises the count past the limit in force at that step.
THEOREM LimitHolds == Spec => NeverOpensPastLimit
  <1>1. TypeOK /\ PoolInv /\ OpenCount /\ [Next]_vars
          => [numOpen' > numOpen => maxOpen = 0 \/ numOpen' <= maxOpen]_vars
    BY CountStep DEF StaysBelow
  <1> QED
    BY <1>1, PoolTypes, PoolInvariant, CountHolds, PTL DEF Spec, NeverOpensPastLimit

-------------------------------------------------------------------------------
(* The limit on open connections, for a limit m that no argument exceeds.  *)

Largest(m) == m \in PoolSizes /\ \A n \in PoolSizes : 0 < n /\ n <= m

Within(m) == 0 < maxOpen /\ maxOpen <= m /\ numOpen <= m

LEMMA WithinStep ==
  ASSUME TypeOK, PoolInv, OpenCount, NEW m \in Int, Largest(m), Within(m), [Next]_vars
  PROVE  Within(m)'
  <1>1. 0 < maxOpen' /\ maxOpen' <= m
    <2>1. CASE \E s \in Setter : \E n \in PoolSizes : SetMaxOpenConns(s, n)
      BY <2>1, SizeAssumption DEF SetMaxOpenConns, Largest
    <2>2. CASE UNCHANGED maxOpen
      BY <2>2 DEF Within
    <2>3. CASE \E p \in Client : Call(p) \/ ClientStep(p) \/ Cancel(p)
      BY <2>2, <2>3
      DEF Call, ClientStep, Obtain, Refused, TakeFree, Request, Dial, DialOk, DialFail,
          ReceiveConn, ReceiveError, PutConn, PutPanic, PutGood, PutBad, Cancel, limits
    <2>4. CASE (\E q \in Process : CloseStep(q)) \/ OpenerStep \/ CleanerStep
               \/ DBClose \/ Stop
      BY <2>2, <2>4
      DEF CloseStep, CloseConn, FinalClose, OpenerStep, OpenerTake, OpenerExit,
          OpenerKeep, OpenerDrop, OpenerFail, CleanerStep, CleanerRun, CleanerExit,
          DBClose, Stop, limits
    <2>5. ASSUME NEW s \in Setter, SetterStep(s) PROVE 0 < maxOpen' /\ maxOpen' <= m
      BY <2>1, <2>2, <2>5
      DEF SetterStep, SyncIdle, SetMaxIdleConns, SetConnMaxLifetime, SetConnMaxIdleTime
    <2>6. CASE UNCHANGED vars
      BY <2>2, <2>6 DEF vars, limits
    <2> QED
      BY <2>3, <2>4, <2>5, <2>6 DEF Next, Step
  <1>2. numOpen' <= m
    <2>1. numOpen \in Int /\ numOpen' \in Int /\ maxOpen \in Nat
      BY TypeStep DEF TypeOK
    <2>2. StaysBelow \/ numOpen' = numOpen
      BY CountStep DEF vars
    <2> QED
      BY <2>1, <2>2 DEF StaysBelow, Within
  <1> QED
    BY <1>1, <1>2 DEF Within

\* The connections that are open never outnumber the largest limit ever set.
THEOREM OpenLimitHolds == Spec => []OpenWithinLimit
  <1> DEFINE AllWithin == \A m \in Int : Largest(m) => Within(m)
  <1>1. Init => AllWithin
    BY SizeAssumption DEF Init, Largest, Within
  <1>2. TypeOK /\ PoolInv /\ OpenCount /\ AllWithin /\ [Next]_vars => AllWithin'
    BY WithinStep DEF Largest
  <1>3. TypeOK /\ OpenCount /\ AllWithin => OpenWithinLimit
    <2> SUFFICES ASSUME TypeOK, OpenCount, AllWithin, NEW m \in PoolSizes,
                        \A n \in PoolSizes : 0 < n /\ n <= m
                 PROVE  Cardinality(OpenConns) <= m
      BY DEF OpenWithinLimit
    <2>1. numOpen <= m /\ m \in Int
      BY SizeAssumption DEF Largest, Within
    <2> QED
      BY <2>1, CountParts DEF OpenCount, OnOrder, TypeOK
  <1> HIDE DEF AllWithin
  <1> QED
    BY <1>1, <1>2, <1>3, PoolTypes, PoolInvariant, CountHolds, PTL DEF Spec

-------------------------------------------------------------------------------
(* The limit on idle connections.                                          *)

LEMMA FreeFinite ==
  TypeOK => IsFiniteSet(freeConn) /\ Cardinality(freeConn) \in Nat
  BY ConnFinite, FS_Subset, FS_CardinalityType DEF TypeOK

\* A step that takes idle connections away.
LEMMA IdleShrinks ==
  ASSUME TypeOK, IdleWithinLimit, freeConn' \subseteq freeConn,
         maxIdleCount' = maxIdleCount
  PROVE  IdleWithinLimit'
  <1>1. Cardinality(freeConn') <= Cardinality(freeConn) /\ Cardinality(freeConn') \in Nat
    BY FreeFinite, FS_Subset, FS_CardinalityType
  <1>2. Cardinality(freeConn) \in Nat /\ IdleLimit(maxIdleCount) \in Int
    BY FreeFinite DEF IdleLimit, DefaultMaxIdle, TypeOK
  <1> QED
    BY <1>1, <1>2 DEF IdleWithinLimit, IdleLimit

\* putConnDBLocked adds one only when there is room.
LEMMA IdleGrows ==
  ASSUME TypeOK, IdleWithinLimit, NEW c \in Conn, Keep(c), maxIdleCount' = maxIdleCount
  PROVE  IdleWithinLimit'
  <1>1. CASE freeConn' = freeConn
    BY <1>1, IdleShrinks
  <1>2. CASE IdleRoom /\ freeConn' = freeConn \cup {c}
    <2>1. Cardinality(freeConn') <= Cardinality(freeConn) + 1
          /\ Cardinality(freeConn') \in Nat
      <3>1. /\ IsFiniteSet(freeConn \cup {c})
            /\ \/ Cardinality(freeConn \cup {c}) = Cardinality(freeConn)
               \/ Cardinality(freeConn \cup {c}) = Cardinality(freeConn) + 1
        BY FreeFinite, FS_AddElement
      <3> QED
        BY <1>2, <3>1, FreeFinite, FS_CardinalityType
    <2>2. Cardinality(freeConn) \in Nat /\ IdleLimit(maxIdleCount) \in Int
      BY FreeFinite DEF IdleLimit, DefaultMaxIdle, TypeOK
    <2> QED
      BY <1>2, <2>1, <2>2 DEF IdleWithinLimit, IdleRoom, IdleLimit
  <1> QED
    BY <1>1, <1>2 DEF Keep

\* SetMaxIdleConns takes away what is over the new limit.
LEMMA IdleReset ==
  ASSUME TypeOK, NEW s \in Setter, NEW n \in Int, SetMaxIdleConns(s, n)
  PROVE  IdleWithinLimit'
  <1>1. PICK closing \in SUBSET freeConn :
          /\ IF Cardinality(freeConn) > IdleLimit(maxIdleCount')
             THEN Cardinality(freeConn \ closing) = IdleLimit(maxIdleCount')
             ELSE closing = {}
          /\ freeConn' = freeConn \ closing
    BY DEF SetMaxIdleConns
  <1>2. maxIdleCount' \in Int
    BY DEF SetMaxIdleConns, IdleCount, TypeOK
  <1>3. IdleLimit(maxIdleCount') \in Int /\ Cardinality(freeConn) \in Nat
    BY <1>2, FreeFinite DEF IdleLimit, DefaultMaxIdle
  <1>4. IdleLimit(maxIdleCount)' = IdleLimit(maxIdleCount')
    BY DEF IdleLimit
  <1>5. CASE Cardinality(freeConn) > IdleLimit(maxIdleCount')
    BY <1>1, <1>3, <1>4, <1>5 DEF IdleWithinLimit
  <1>6. CASE ~(Cardinality(freeConn) > IdleLimit(maxIdleCount'))
    <2>1. freeConn' = freeConn
      BY <1>1, <1>6
    <2> QED
      BY <2>1, <1>3, <1>4, <1>6 DEF IdleWithinLimit
  <1> QED
    BY <1>5, <1>6

\* db.freeConn never holds more than SetMaxIdleConns allows.
THEOREM IdleLimitHolds == Spec => []IdleWithinLimit
  <1>1. Init => IdleWithinLimit
    BY FS_EmptySet DEF Init, IdleWithinLimit, IdleLimit, DefaultMaxIdle
  <1>2. TypeOK /\ IdleWithinLimit /\ [Next]_vars => IdleWithinLimit'
    <2> SUFFICES ASSUME TypeOK, IdleWithinLimit, [Next]_vars PROVE IdleWithinLimit'
      OBVIOUS
    <2>1. ASSUME NEW p \in Client, Call(p) \/ ClientStep(p) \/ Cancel(p)
          PROVE  IdleWithinLimit'
      <3>1. CASE PutGood(p) /\ Keep(dc[p])
        <4>1. dc[p] \in Conn
          BY <3>1 DEF PutGood, TypeOK
        <4> QED
          BY <4>1, <3>1, IdleGrows DEF PutGood, limits
      <3>2. CASE ~(PutGood(p) /\ Keep(dc[p]))
        <4>1. freeConn' \subseteq freeConn /\ maxIdleCount' = maxIdleCount
          BY <2>1, <3>2
          DEF Call, ClientStep, Obtain, Refused, TakeFree, Request, Dial, DialOk,
              DialFail, ReceiveConn, ReceiveError, PutConn, PutPanic, PutGood, PutBad,
              Cancel, limits
        <4> QED
          BY <4>1, IdleShrinks
      <3> QED
        BY <3>1, <3>2
    <2>2. CASE OpenerKeep
      BY <2>2, IdleGrows DEF OpenerKeep, limits
    <2>3. CASE \/ \E q \in Process : CloseStep(q)
               \/ OpenerTake \/ OpenerExit \/ OpenerDrop \/ OpenerFail
               \/ CleanerStep \/ DBClose \/ Stop \/ UNCHANGED vars
      <3>1. freeConn' \subseteq freeConn /\ maxIdleCount' = maxIdleCount
        BY <2>3
        DEF CloseStep, CloseConn, FinalClose, OpenerTake, OpenerExit, OpenerDrop,
            OpenerFail, CleanerStep, CleanerRun, CleanerExit, DBClose, Stop, vars, limits
      <3> QED
        BY <3>1, IdleShrinks
    <2>4. ASSUME NEW s \in Setter, SetterStep(s) PROVE IdleWithinLimit'
      <3>1. CASE \E n \in Int : SetMaxIdleConns(s, n)
        BY <3>1, IdleReset
      <3>2. CASE SyncIdle(s)
        BY <3>2, <3>1 DEF SyncIdle, TypeOK
      <3>3. CASE freeConn' = freeConn /\ maxIdleCount' = maxIdleCount
        BY <3>3, IdleShrinks
      <3> QED
        BY <2>4, <3>1, <3>2, <3>3, SizeAssumption
        DEF SetterStep, SetMaxOpenConns, SetConnMaxLifetime, SetConnMaxIdleTime
    <2> QED
      BY <2>1, <2>2, <2>3, <2>4 DEF Next, Step, OpenerStep
  <1> QED
    BY <1>1, <1>2, PoolTypes, PTL DEF Spec

\* The idle limit is over the open limit only while a setter owes the reduction,
\* however many setters run at once.
THEOREM IdleSyncHolds == Spec => []IdleLimitSynced
  <1>1. Init => IdleLimitSynced
    BY SizeAssumption DEF Init, IdleLimitSynced, IdleLimit
  <1>2. TypeOK /\ IdleLimitSynced /\ [Next]_vars => IdleLimitSynced'
    <2> SUFFICES ASSUME TypeOK, IdleLimitSynced, [Next]_vars PROVE IdleLimitSynced'
      OBVIOUS
    <2>1. CASE UNCHANGED <<maxOpen, maxIdleCount, pending>>
      BY <2>1 DEF IdleLimitSynced
    <2>2. ASSUME NEW p \in Client, Call(p) \/ ClientStep(p) \/ Cancel(p)
          PROVE  IdleLimitSynced'
      BY <2>1, <2>2
      DEF Call, ClientStep, Obtain, Refused, TakeFree, Request, Dial, DialOk, DialFail,
          ReceiveConn, ReceiveError, PutConn, PutPanic, PutGood, PutBad, Cancel, limits
    <2>3. CASE \/ \E q \in Process : CloseStep(q)
               \/ OpenerStep \/ CleanerStep \/ DBClose \/ Stop \/ UNCHANGED vars
      BY <2>1, <2>3
      DEF CloseStep, CloseConn, FinalClose, OpenerStep, OpenerTake, OpenerExit,
          OpenerKeep, OpenerDrop, OpenerFail, CleanerStep, CleanerRun, CleanerExit,
          DBClose, Stop, vars, limits
    <2>4. ASSUME NEW s \in Setter, NEW n \in PoolSizes, SetMaxOpenConns(s, n)
          PROVE  IdleLimitSynced'
      <3>1. n \in Int /\ maxOpen' = (IF n < 0 THEN 0 ELSE n) /\ maxIdleCount' = maxIdleCount
        BY <2>4, SizeAssumption DEF SetMaxOpenConns
      <3>2. CASE maxOpen' > 0 /\ IdleLimit(maxIdleCount) > maxOpen'
        <4>1. n # 0 /\ pending' = [pending EXCEPT ![s] = n]
          BY <2>4, <3>1, <3>2 DEF SetMaxOpenConns
        <4>2. pending'[s] # 0
          BY <4>1 DEF TypeOK
        <4> QED
          BY <4>2 DEF IdleLimitSynced
      <3>3. CASE ~(maxOpen' > 0 /\ IdleLimit(maxIdleCount) > maxOpen')
        BY <3>1, <3>3 DEF IdleLimitSynced, IdleLimit
      <3> QED
        BY <3>2, <3>3
    <2>5. ASSUME NEW s \in Setter, NEW n \in Int, SetMaxIdleConns(s, n)
          PROVE  IdleLimitSynced'
      <3>1. maxIdleCount' = IdleCount(n) /\ maxOpen' = maxOpen /\ maxOpen \in Nat
        BY <2>5 DEF SetMaxIdleConns, TypeOK
      <3> QED
        BY <3>1 DEF IdleLimitSynced, IdleLimit, IdleCount
    <2>6. ASSUME NEW s \in Setter, SetterStep(s) PROVE IdleLimitSynced'
      <3>1. CASE SyncIdle(s)
        BY <3>1, <2>5 DEF SyncIdle, TypeOK
      <3>2. CASE \/ \E d \in Lifetimes : SetConnMaxLifetime(s, d)
                 \/ \E d \in IdleTimes : SetConnMaxIdleTime(s, d)
        BY <2>1, <3>2 DEF SetConnMaxLifetime, SetConnMaxIdleTime
      <3> QED
        BY <2>4, <2>5, <2>6, <3>1, <3>2, SizeAssumption DEF SetterStep
    <2> QED
      BY <2>2, <2>3, <2>6 DEF Next, Step
  <1> QED
    BY <1>1, <1>2, PoolTypes, PTL DEF Spec

-------------------------------------------------------------------------------
(* Callers that wait for a connection.                                     *)

Waiting == \E p \in connRequests : Cached(p)

\* NoIdleWhileWaiting, and that a closed DB has no idle connections: the
\* requests it keeps may belong to callers that have gone on.
NoIdleInv == closed \/ Waiting => freeConn = {}

\* A request that is new, or whose caller's round is new, finds none idle.
LEMMA WaitingBefore ==
  ASSUME TypeOK, Shape, ~closed, NEW p \in Client, Call(p) \/ ClientStep(p) \/ Cancel(p),
         Waiting'
  PROVE  Waiting \/ freeConn = {}
  <1>1. PICK r \in connRequests' : Cached(r)'
    BY DEF Waiting
  <1>2. CASE Request(p)
    <2>1. CASE r = p
      BY <1>1, <1>2, <2>1 DEF Request, MayOpen, Cached
    <2>2. CASE r # p
      BY <1>1, <1>2, <2>2 DEF Request, Waiting, Cached
    <2> QED
      BY <2>1, <2>2
  <1>3. CASE ~Request(p)
    <2>1. r \in connRequests /\ r \in Client
      BY <1>1, <1>3
      DEF Call, ClientStep, Obtain, Refused, TakeFree, Dial, DialOk, DialFail,
          ReceiveConn, ReceiveError, PutConn, PutPanic, PutGood, PutBad, Cancel,
          Keep, Answer, TypeOK
    <2>2. pc[r] = "wait" /\ reply[r] = Empty
      BY <2>1 DEF Shape
    <2>3. CASE r # p
      <3>1. attempt'[r] = attempt[r]
        BY <1>3, <2>1, <2>3
        DEF Call, ClientStep, Obtain, Refused, TakeFree, Dial, DialOk, DialFail,
            ReceiveConn, ReceiveError, PutConn, PutPanic, PutGood, PutBad, Cancel,
            Return, Retry, BadConn, clients, TypeOK
      <3> QED
        BY <1>1, <2>1, <3>1 DEF Waiting, Cached
    <2>4. CASE r = p
      <3>1. Empty \notin Conn \cup {Closed, Failed}
        BY ConnAssumption DEF Empty, Closed, Failed
      <3>2. Cancel(p)
        BY <1>3, <2>2, <2>4, <3>1
        DEF Call, ClientStep, Obtain, Refused, TakeFree, Dial, DialOk, DialFail,
            ReceiveConn, ReceiveError, PutConn, PutPanic, PutGood, PutBad, At
      <3> QED
        BY <1>1, <2>4, <3>2 DEF Cancel
    <2> QED
      BY <2>3, <2>4
  <1> QED
    BY <1>2, <1>3

\* Every step keeps NoIdleInv: a connection becomes idle only when nobody waits.
LEMMA NoIdleStep ==
  ASSUME TypeOK, Shape, NoIdleInv, [Next]_vars
  PROVE  NoIdleInv'
  <1>1. ASSUME freeConn' \subseteq freeConn, UNCHANGED <<closed, attempt>>,
               connRequests' \subseteq connRequests
        PROVE  NoIdleInv'
    BY <1>1 DEF NoIdleInv, Waiting, Cached
  <1>2. ASSUME NEW p \in Client, Call(p) \/ ClientStep(p) \/ Cancel(p)
        PROVE  NoIdleInv'
    <2>1. closed' = closed
      BY <1>2
      DEF Call, ClientStep, Obtain, Refused, TakeFree, Request, Dial, DialOk, DialFail,
          ReceiveConn, ReceiveError, PutConn, PutPanic, PutGood, PutBad, Cancel
    <2>2. \/ freeConn' \subseteq freeConn
          \/ ~closed /\ connRequests' = {}
      BY <1>2
      DEF Call, ClientStep, Obtain, Refused, TakeFree, Request, Dial, DialOk, DialFail,
          ReceiveConn, ReceiveError, PutConn, PutPanic, PutGood, PutBad, Cancel,
          Keep, Refuses
    <2> QED
      BY <1>2, <2>1, <2>2, WaitingBefore DEF NoIdleInv, Waiting
  <1>3. CASE OpenerKeep
    <2>1. \/ freeConn' = freeConn /\ connRequests' \subseteq connRequests
          \/ ~closed' /\ connRequests' = {}
      BY <1>3 DEF OpenerKeep, Keep, Answer, Refuses
    <2>2. UNCHANGED <<closed, attempt>>
      BY <1>3 DEF OpenerKeep, clients
    <2> QED
      BY <1>1, <2>1, <2>2 DEF NoIdleInv, Waiting
  <1>4. CASE DBClose
    BY <1>4 DEF DBClose, NoIdleInv
  <1>5. CASE \/ \E q \in Process : CloseStep(q)
             \/ OpenerTake \/ OpenerExit \/ OpenerDrop \/ OpenerFail
             \/ CleanerStep \/ Stop \/ UNCHANGED vars
    <2>1. freeConn' \subseteq freeConn /\ UNCHANGED <<closed, attempt>>
          /\ connRequests' \subseteq connRequests
      BY <1>5
      DEF CloseStep, CloseConn, FinalClose, OpenerTake, OpenerExit, OpenerDrop,
          OpenerFail, Answer, CleanerStep, CleanerRun, CleanerExit, Stop, vars, clients
    <2> QED
      BY <1>1, <2>1
  <1>6. ASSUME NEW s \in Setter, SetterStep(s) PROVE NoIdleInv'
    <2>1. freeConn' \subseteq freeConn /\ UNCHANGED <<closed, attempt, connRequests>>
      BY <1>6
      DEF SetterStep, SyncIdle, SetMaxOpenConns, SetMaxIdleConns, SetConnMaxLifetime,
          SetConnMaxIdleTime, clients
    <2> QED
      BY <1>1, <2>1
  <1> QED
    BY <1>2, <1>3, <1>4, <1>5, <1>6 DEF Next, Step, OpenerStep

\* NoIdleInv holds in every reachable state.
LEMMA NoIdleAlways == Spec => []NoIdleInv
  <1>1. Init => NoIdleInv
    BY DEF Init, NoIdleInv
  <1>2. PoolInv => Shape
    BY DEF PoolInv
  <1>3. TypeOK /\ Shape /\ NoIdleInv /\ [Next]_vars => NoIdleInv'
    BY NoIdleStep
  <1> QED
    BY <1>1, <1>2, <1>3, PoolTypes, PoolInvariant, PTL DEF Spec

\* No caller that would take a cached connection waits while one is idle.
THEOREM NoIdleHolds == Spec => []NoIdleWhileWaiting
  <1>1. NoIdleInv => NoIdleWhileWaiting
    BY DEF NoIdleInv, Waiting, NoIdleWhileWaiting
  <1> QED
    BY <1>1, NoIdleAlways, PTL

\* Where somebody waits, something is open or on order.
NumInv == connRequests # {} /\ ~closed => numOpen > 0

\* maybeOpenNewConnections orders a connection when none is left for a request.
LEMMA OrdersOne ==
  ASSUME TypeOK, NumInv, connRequests' # {}, connRequests' \subseteq connRequests,
         ~closed, NEW k \in {0, 1},
         MaybeOpen(numOpen - k, Cardinality(connRequests'))
  PROVE  numOpen' > 0
  <1> DEFINE reqs == Cardinality(connRequests')
             n    == numOpen - k
  <1>1. IsFiniteSet(connRequests')
    BY ClientFinite, FS_Subset DEF TypeOK
  <1>2. reqs \in Nat /\ reqs # 0
    BY <1>1, FS_CardinalityType, FS_EmptySet
  <1>3. n \in Nat /\ maxOpen \in Nat
    BY DEF NumInv, TypeOK
  <1>4. numOpen' = n + Wanted(n, reqs)
    BY DEF MaybeOpen
  <1> HIDE DEF n, reqs
  <1> QED
    BY <1>2, <1>3, <1>4 DEF Wanted, Smaller

\* Every step keeps NumInv: who takes the last connection off the count makes
\* maybeOpenNewConnections order another, unless the limit leaves one.
LEMMA NumStep ==
  ASSUME TypeOK, NumInv, [Next]_vars
  PROVE  NumInv'
  <1> SUFFICES ASSUME connRequests' # {}, ~closed' PROVE numOpen' > 0
    BY DEF NumInv
  <1>0. numOpen \in Int /\ maxOpen \in Nat
    BY DEF TypeOK
  <1>1. ASSUME connRequests' \subseteq connRequests, closed' = closed,
               numOpen' = numOpen \/ numOpen' = numOpen + 1
        PROVE  numOpen' > 0
    BY <1>0, <1>1 DEF NumInv
  <1>2. ASSUME connRequests' \subseteq connRequests, closed' = closed, NEW k \in {0, 1},
               MaybeOpen(numOpen - k, Cardinality(connRequests'))
        PROVE  numOpen' > 0
    BY <1>2, OrdersOne
  <1>3. ASSUME NEW p \in Client, Call(p) \/ ClientStep(p) \/ Cancel(p)
        PROVE  numOpen' > 0
    <2>1. CASE Request(p)
      BY <1>0, <2>1 DEF Request, AtLimit
    <2>2. CASE DialFail(p)
      <3>1. connRequests' = connRequests /\ closed' = closed
            /\ MaybeOpen(numOpen - 1, Cardinality(connRequests'))
        BY <2>2 DEF DialFail
      <3> QED
        BY <1>2, <3>1
    <2>3. CASE PutBad(p)
      <3>1. connRequests' = connRequests /\ closed' = closed
            /\ MaybeOpen(numOpen - 0, Cardinality(connRequests'))
        BY <1>0, <2>3 DEF PutBad
      <3> QED
        BY <1>2, <3>1
    <2>4. CASE ~(Request(p) \/ DialFail(p) \/ PutBad(p))
      <3>1. /\ connRequests' \subseteq connRequests /\ closed' = closed
            /\ numOpen' = numOpen \/ numOpen' = numOpen + 1
        BY <1>3, <2>4
        DEF Call, ClientStep, Obtain, Refused, TakeFree, Dial, DialOk, ReceiveConn,
            ReceiveError, PutConn, PutPanic, PutGood, Cancel, Keep, Answer
      <3> QED
        BY <1>1, <3>1
    <2> QED
      BY <2>1, <2>2, <2>3, <2>4
  <1>4. ASSUME NEW q \in Process, NEW c \in Conn, FinalClose(q, c)
        PROVE  numOpen' > 0
    <2>1. connRequests' = connRequests /\ closed' = closed
          /\ MaybeOpen(numOpen - 1, Cardinality(connRequests'))
      BY <1>4 DEF FinalClose
    <2> QED
      BY <1>2, <2>1
  <1>5. CASE OpenerFail
    <2>1. connRequests' \subseteq connRequests /\ closed' = closed
          /\ MaybeOpen(numOpen - 1, Cardinality(connRequests'))
      BY <1>5 DEF OpenerFail, Answer
    <2> QED
      BY <1>2, <2>1
  <1>6. CASE OpenerDrop
    <2>1. connRequests # {} /\ ~closed /\ numOpen' = numOpen - 1 /\ Rejects
      BY <1>6 DEF OpenerDrop
    <2>2. maxOpen > 0 /\ numOpen > maxOpen
      BY <2>1 DEF Rejects, Refuses
    <2> QED
      BY <1>0, <2>1, <2>2
  <1>7. CASE \/ \E q \in Process : \E c \in Conn : CloseConn(q, c)
             \/ OpenerTake \/ OpenerExit \/ OpenerKeep
             \/ CleanerStep \/ Stop \/ UNCHANGED vars
    <2>1. connRequests' \subseteq connRequests /\ UNCHANGED <<closed, numOpen>>
      BY <1>7
      DEF CloseConn, OpenerTake, OpenerExit, OpenerKeep, Keep, Answer, CleanerStep,
          CleanerRun, CleanerExit, Stop, vars
    <2> QED
      BY <1>1, <2>1
  <1>8. CASE DBClose
    BY <1>8 DEF DBClose
  <1>9. ASSUME NEW s \in Setter, SetterStep(s) PROVE numOpen' > 0
    <2>1. UNCHANGED <<closed, numOpen, connRequests>>
      BY <1>9
      DEF SetterStep, SyncIdle, SetMaxOpenConns, SetMaxIdleConns, SetConnMaxLifetime,
          SetConnMaxIdleTime
    <2> QED
      BY <1>1, <2>1
  <1> QED
    BY <1>3, <1>4, <1>5, <1>6, <1>7, <1>8, <1>9 DEF Next, Step, CloseStep, OpenerStep

\* Whoever waits is owed a wakeup: none is idle, and what is open or on order is
\* with somebody who will look at the requests.
LEMMA OwedAWakeup ==
  ASSUME TypeOK, PoolInv, OpenCount, NoIdleInv, NumInv
  PROVE  WakeupOwed
  <1> SUFFICES ASSUME Waiting, ~closed, ~(OnOrder > 0)
               PROVE  \/ \E p \in Client : dc[p] # NoConn \/ reply[p] \in Conn
                      \/ \E q \in Process : toClose[q] # {}
    BY DEF WakeupOwed, Waiting
  <1>1. numOpen > 0 /\ freeConn = {}
    BY DEF NumInv, NoIdleInv, Waiting
  <1>2. OnOrder = 0
    BY CountParts DEF OnOrder, TypeOK
  <1>3. Cardinality(OpenConns) # 0
    BY <1>1, <1>2, CountParts DEF OpenCount, TypeOK
  <1>4. PICK c \in Conn : Open(c)
    BY <1>3, FS_EmptySet DEF OpenConns
  <1>5. c # NoConn
    BY ConnAssumption
  <1> QED
    BY <1>1, <1>4, <1>5 DEF PoolInv, OneOwner, Owned

\* No lost wakeup: a caller that waits for a cached connection is followed by a
\* lock section that looks at the requests again.
THEOREM WakeupHolds == Spec => []WakeupOwed
  <1>1. Init => NumInv
    BY DEF Init, NumInv
  <1>2. TypeOK /\ NumInv /\ [Next]_vars => NumInv'
    BY NumStep
  <1>3. TypeOK /\ PoolInv /\ OpenCount /\ NoIdleInv /\ NumInv => WakeupOwed
    BY OwedAWakeup
  <1> QED
    BY <1>1, <1>2, <1>3, PoolTypes, PoolInvariant, CountHolds, NoIdleAlways, PTL DEF Spec

-------------------------------------------------------------------------------
(* The pool implements ConnLease.                                          *)

LeaseStepped == Lease!LeaseNext \/ UNCHANGED Lease!leaseVars

\* A connection that is idle or on a channel is open and nobody has its lease.
LEMMA FreeOfLease ==
  ASSUME TypeOK, PoolInv, NEW c \in Conn,
         c \in freeConn \/ (\E p \in Client : reply[p] = c)
                        \/ (\E q \in Process : c \in toClose[q])
  PROVE  c \in OpenConns /\ ~Lease!Leased(c)
  <1>1. Owned(c) /\ \A p \in Client : dc[p] # c
    BY DEF PoolInv, OneOwner, Apart, Owned
  <1>2. Open(c)
    BY <1>1 DEF PoolInv, OneOwner
  <1>3. c # Asking /\ c # NoConn
    BY ConnAssumption, AskingAssumption
  <1> QED
    BY <1>1, <1>2, <1>3 DEF OpenConns, Lease!Leased, Leases, LeaseOf

\* What may happen to the lease of one caller, while nothing else changes.
LEMMA LeaseMoves ==
  ASSUME NEW p \in Client, NEW new, Leases' = [Leases EXCEPT ![p] = new],
         closed' = closed, OpenConns' = OpenConns,
         \/ new = Leases[p]
         \/ Leases[p] = NoConn /\ ~closed /\ new = Asking
         \/ Leases[p] = Asking /\ new = NoConn
         \/ Leases[p] \in Conn /\ new = NoConn
         \/ /\ Lease!Admitted(p)
            /\ new \in Conn /\ new \in OpenConns /\ ~Lease!Leased(new)
  PROVE  LeaseStepped
  <1>1. CASE new = Leases[p]
    BY <1>1 DEF LeaseStepped, Lease!leaseVars, Leases
  <1>2. CASE Leases[p] = NoConn /\ ~closed /\ new = Asking
    <2>1. Lease!Ask(p)
      BY <1>2 DEF Lease!Ask
    <2> QED
      BY <2>1 DEF LeaseStepped, Lease!LeaseNext
  <1>3. CASE Leases[p] = Asking /\ new = NoConn
    <2>1. Lease!Refuse(p)
      BY <1>3 DEF Lease!Refuse
    <2> QED
      BY <2>1 DEF LeaseStepped, Lease!LeaseNext
  <1>4. CASE Leases[p] \in Conn /\ new = NoConn
    <2>1. Lease!GiveBack(p)
      BY <1>4 DEF Lease!GiveBack
    <2> QED
      BY <2>1 DEF LeaseStepped, Lease!LeaseNext
  <1>5. CASE Lease!Admitted(p) /\ new \in Conn /\ new \in OpenConns /\ ~Lease!Leased(new)
    <2>1. Lease!Grant(p, new)
      BY <1>5 DEF Lease!Grant
    <2> QED
      BY <1>5, <2>1 DEF LeaseStepped, Lease!LeaseNext
  <1> QED
    BY <1>1, <1>2, <1>3, <1>4, <1>5

\* Where a connection is on order, there is room for it below the limit.  The
\* instance has a Cardinality of its own, with the same definition.
LEMMA RoomToOpen ==
  ASSUME TypeOK, OpenCount, Within(MaxPool), OnOrder > 0
  PROVE  Lease!Cardinality(OpenConns) < MaxPool
  <1>1. MaxPool \in Int
    BY LimitAssumption, SizeAssumption
  <1>2. Cardinality(OpenConns) < MaxPool
    BY <1>1, CountParts DEF OpenCount, OnOrder, Within, TypeOK
  <1>3. Lease!Cardinality(OpenConns) = Cardinality(OpenConns)
    BY Zenon DEF Cardinality, Lease!Cardinality
  <1> QED
    BY <1>2, <1>3

\* A step of a caller is a step of ConnLease, or leaves it alone.
LEMMA LeaseClient ==
  ASSUME TypeOK, PoolInv, OpenCount, Within(MaxPool),
         NEW p \in Client, Call(p) \/ ClientStep(p) \/ Cancel(p)
  PROVE  LeaseStepped
  <1> DEFINE new == LeaseOf(p)'
  <1>1. closed' = closed
    BY DEF Call, ClientStep, Obtain, Refused, TakeFree, Request, Dial, DialOk, DialFail,
           ReceiveConn, ReceiveError, PutConn, PutPanic, PutGood, PutBad, Cancel
  <1>2. \A r \in Client : r # p => pc'[r] = pc[r] /\ dc'[r] = dc[r]
    BY DEF Call, ClientStep, Obtain, Refused, TakeFree, Request, Dial, DialOk, DialFail,
           ReceiveConn, ReceiveError, PutConn, PutPanic, PutGood, PutBad, Cancel,
           Goto, Hold, Return, Retry, BadConn, clients, TypeOK
  <1>3. Leases' = [Leases EXCEPT ![p] = new]
    BY <1>2 DEF Leases, LeaseOf
  <1>4. Leases[p] = LeaseOf(p)
    BY DEF Leases
  <1>5. /\ NoConn \notin Conn /\ Asking \notin Conn /\ Asking # NoConn
        /\ dc[p] # NoConn <=> pc[p] \in {"use", "drain"}
        /\ dc[p] \in Conn \cup {NoConn} /\ pc[p] \in PcLabel
    BY ConnAssumption, AskingAssumption DEF PoolInv, Shape, TypeOK, NoConn, Asking
  <1>6. CASE DialOk(p)
    <2>1. PICK c \in Conn : AddConn(c) /\ dc' = [dc EXCEPT ![p] = c]
      BY <1>6 DEF DialOk, Hold
    <2>2. c \notin OpenConns /\ OpenConns' = OpenConns \cup {c}
      BY <2>1 DEF AddConn, OpenConns, Open, TypeOK
    <2>3. new = c /\ Leases[p] = Asking
      BY <1>4, <1>5, <1>6, <2>1 DEF DialOk, At, LeaseOf, TypeOK
    <2>4. p \in Dialing
      BY <1>6 DEF DialOk, At, Dialing
    <2>5. Cardinality(Dialing) # 0
      BY <2>4, CountsFinite, FS_EmptySet
    <2>6. OnOrder > 0
      BY <2>5, CountParts DEF OnOrder, TypeOK
    <2>7. Lease!Cardinality(OpenConns) < MaxPool
      BY <2>6, RoomToOpen
    <2>8. Lease!OpenFor(p, c)
      BY <1>1, <1>3, <2>2, <2>3, <2>7 DEF Lease!OpenFor
    <2> QED
      BY <2>8 DEF LeaseStepped, Lease!LeaseNext
  <1>7. CASE ~DialOk(p)
    <2>1. OpenConns' = OpenConns
      BY <1>7
      DEF Call, ClientStep, Obtain, Refused, TakeFree, Request, Dial, DialFail,
          ReceiveConn, ReceiveError, PutConn, PutPanic, PutGood, PutBad, Cancel,
          conns, OpenConns, Open
    <2> HIDE DEF new
    <2>2. CASE new = Leases[p]
      BY <1>1, <1>3, <2>1, <2>2, LeaseMoves
    <2>3. CASE Request(p) \/ Dial(p)
      <3>1. ~closed /\ Leases[p] = NoConn /\ new = Asking
        BY <1>4, <1>5, <2>3 DEF new, Request, Dial, At, Goto, MayOpen, LeaseOf, TypeOK
      <3> QED
        BY <1>1, <1>3, <2>1, <3>1, LeaseMoves
    <2>4. CASE DialFail(p) \/ ReceiveError(p)
      <3>1. Leases[p] = Asking /\ new = NoConn
        BY <1>4, <1>5, <2>4
        DEF new, DialFail, ReceiveError, At, Goto, Return, Retry, LeaseOf, TypeOK
      <3> QED
        BY <1>1, <1>3, <2>1, <3>1, LeaseMoves
    <2>5. CASE PutGood(p) \/ PutBad(p)
      <3>1. Leases[p] \in Conn /\ new = NoConn
        BY <1>4, <1>5, <2>5
        DEF new, PutGood, PutBad, At, Goto, Hold, Return, Retry, LeaseOf, TypeOK
      <3> QED
        BY <1>1, <1>3, <2>1, <3>1, LeaseMoves
    <2>6. CASE TakeFree(p)
      <3>1. PICK c \in freeConn :
              \/ Goto(p, "use") /\ Hold(p, c)
              \/ BadConn(p) /\ UNCHANGED dc
        BY <2>6 DEF TakeFree
      <3>2. ~closed /\ Leases[p] = NoConn /\ c \in Conn
        BY <1>4, <1>5, <2>6 DEF TakeFree, At, LeaseOf, TypeOK
      <3>3. new = c \/ new = NoConn
        BY <1>5, <2>6, <3>1, <3>2
        DEF new, TakeFree, At, Goto, Hold, BadConn, Return, Retry, LeaseOf, TypeOK
      <3> QED
        BY <1>1, <1>3, <2>1, <3>2, <3>3, FreeOfLease, LeaseMoves DEF Lease!Admitted
    <2>7. CASE ReceiveConn(p) \/ Cancel(p)
      <3>1. Leases[p] = Asking
        BY <1>4, <1>5, <2>7 DEF ReceiveConn, Cancel, At, LeaseOf
      <3>2. new = NoConn \/ (new = reply[p] /\ reply[p] \in Conn)
        BY <1>5, <2>7
        DEF new, ReceiveConn, Cancel, At, Goto, Hold, BadConn, Return, Retry, LeaseOf,
            TypeOK
      <3> QED
        BY <1>1, <1>3, <2>1, <3>1, <3>2, FreeOfLease, LeaseMoves DEF Lease!Admitted
    <2>8. CASE Call(p) \/ Refused(p) \/ PutPanic(p)
      <3>1. new = Leases[p]
        BY <1>4, <1>5, <2>8
        DEF new, Call, Refused, PutPanic, At, Goto, Return, LeaseOf, clients, TypeOK
      <3> QED
        BY <2>2, <3>1
    <2> QED
      BY <1>7, <2>3, <2>4, <2>5, <2>6, <2>7, <2>8 DEF ClientStep, Obtain, PutConn
  <1> QED
    BY <1>6, <1>7

\* Every step of the pool is a step of ConnLease, or leaves it alone.
LEMMA LeaseNextStep ==
  ASSUME TypeOK, PoolInv, OpenCount, Within(MaxPool), [Next]_vars
  PROVE  LeaseStepped
  <1>1. UNCHANGED clients => Leases' = Leases
    BY DEF clients, Leases, LeaseOf
  <1>2. ASSUME Leases' = Leases, closed' = closed, OpenConns' = OpenConns
        PROVE  LeaseStepped
    BY <1>2 DEF LeaseStepped, Lease!leaseVars
  <1>3. ASSUME NEW q \in Process, CloseStep(q) PROVE LeaseStepped
    <2>1. PICK c \in Conn : CloseConn(q, c) \/ FinalClose(q, c)
      BY <1>3 DEF CloseStep
    <2>2. Leases' = Leases /\ closed' = closed
      BY <1>1, <2>1 DEF CloseConn, FinalClose
    <2>3. c \in OpenConns /\ ~Lease!Leased(c)
      BY <2>1, FreeOfLease DEF CloseConn, FinalClose
    <2>4. CASE CloseConn(q, c)
      <3>1. OpenConns' = OpenConns
        BY <2>3, <2>4 DEF CloseConn, OpenConns, Open, conns, TypeOK
      <3> QED
        BY <1>2, <2>2, <3>1
    <2>5. CASE FinalClose(q, c)
      <3>1. OpenConns' = OpenConns \ {c}
        BY <2>5 DEF FinalClose, OpenConns, Open, TypeOK
      <3>2. Lease!CloseConn(c)
        BY <2>2, <2>3, <3>1 DEF Lease!CloseConn
      <3> QED
        BY <3>2 DEF LeaseStepped, Lease!LeaseNext
    <2> QED
      BY <2>1, <2>4, <2>5
  <1>4. CASE OpenerKeep
    <2>1. PICK c \in Conn : AddConn(c)
      BY <1>4 DEF OpenerKeep
    <2>2. c \notin OpenConns /\ OpenConns' = OpenConns \cup {c}
      BY <2>1 DEF AddConn, OpenConns, Open, TypeOK
    <2>3. Opening = 1
      BY <1>4 DEF OpenerKeep, Opening
    <2>4. OnOrder > 0
      BY <2>3, CountParts DEF OnOrder, TypeOK
    <2>5. Lease!Cardinality(OpenConns) < MaxPool
      BY <2>4, RoomToOpen
    <2>6. Lease!OpenConn(c)
      BY <1>1, <1>4, <2>2, <2>5 DEF Lease!OpenConn, OpenerKeep
    <2> QED
      BY <2>6 DEF LeaseStepped, Lease!LeaseNext
  <1>5. CASE DBClose
    <2>1. \A c \in freeConn : phase[c] = "live"
      BY DEF PoolInv, Marks
    <2>2. OpenConns' = OpenConns
      BY <1>5, <2>1 DEF DBClose, OpenConns, Open
    <2>3. Lease!Shut
      BY <1>1, <1>5, <2>2 DEF DBClose, Lease!Shut
    <2> QED
      BY <2>3 DEF LeaseStepped, Lease!LeaseNext
  <1>6. CASE \/ OpenerTake \/ OpenerExit \/ OpenerDrop \/ OpenerFail
             \/ CleanerStep \/ Stop \/ UNCHANGED vars
    <2>1. UNCHANGED <<closed, phase, clients>>
      BY <1>6
      DEF OpenerTake, OpenerExit, OpenerDrop, OpenerFail, CleanerStep, CleanerRun,
          CleanerExit, Stop, vars, conns
    <2> QED
      BY <1>1, <1>2, <2>1 DEF OpenConns, Open
  <1>7. ASSUME NEW s \in Setter, SetterStep(s) PROVE LeaseStepped
    <2>1. UNCHANGED <<closed, phase, clients>>
      BY <1>7
      DEF SetterStep, SyncIdle, SetMaxOpenConns, SetMaxIdleConns, SetConnMaxLifetime,
          SetConnMaxIdleTime, conns
    <2> QED
      BY <1>1, <1>2, <2>1 DEF OpenConns, Open
  <1>8. ASSUME NEW p \in Client, Call(p) \/ ClientStep(p) \/ Cancel(p)
        PROVE  LeaseStepped
    BY <1>8, LeaseClient
  <1> QED
    BY <1>3, <1>4, <1>5, <1>6, <1>7, <1>8 DEF Next, Step, OpenerStep

\* The pool keeps the promise of ConnLease.
THEOREM PoolImplementsLease == Spec => ImplementsLease
  <1>1. Init => Lease!LeaseInit
    BY DEF Init, Lease!LeaseInit, OpenConns, Open, Leases, LeaseOf
  <1>2. MaxPool \in Int /\ Largest(MaxPool)
    BY LimitAssumption, SizeAssumption DEF Largest
  <1>3. Init => Within(MaxPool)
    BY <1>2, SizeAssumption DEF Init, Largest, Within
  <1>4. TypeOK /\ PoolInv /\ OpenCount /\ Within(MaxPool) /\ [Next]_vars => Within(MaxPool)'
    BY <1>2, WithinStep
  <1>5. TypeOK /\ PoolInv /\ OpenCount /\ Within(MaxPool) /\ [Next]_vars
        => [Lease!LeaseNext]_(Lease!leaseVars)
    BY LeaseNextStep DEF LeaseStepped
  <1> QED
    BY <1>1, <1>3, <1>4, <1>5, PoolTypes, PoolInvariant, CountHolds, PTL
    DEF Spec, ImplementsLease, Lease!LeaseSpec

-------------------------------------------------------------------------------
(* The pool does with its idle connections what IdleSet allows.            *)

IdleStepped == IdlePart!SetNext \/ UNCHANGED IdlePart!setVars

\* What the setters and the cleaner have taken and have still to close.
Taken == toClose[Cleaner] \cup UNION {toClose[s] : s \in Setter}

\* An open connection that is neither idle nor taken is out.
OutKnown == Out = OpenConns \ (freeConn \cup Taken)

LEMMA OutIsTheRest == TypeOK /\ PoolInv => OutKnown
  <1> SUFFICES ASSUME TypeOK, PoolInv, NEW c \in Conn
               PROVE  c \in Out <=> c \in OpenConns \ (freeConn \cup Taken)
    BY DEF OutKnown, Out, OpenConns
  <1>1. Apart /\ (Open(c) <=> Owned(c))
    BY DEF PoolInv, OneOwner
  <1>2. /\ Cleaner \in Process /\ Closer \in Process /\ Cleaner # Closer
        /\ Client \subseteq Process /\ Setter \subseteq Process
        /\ Cleaner \notin Client /\ Client \cap Setter = {} /\ Closer \notin Setter
    BY ProcessAssumption DEF Process, Cleaner, Closer
  <1>3. c \in Taken <=> c \in toClose[Cleaner] \/ \E s \in Setter : c \in toClose[s]
    BY DEF Taken
  <1>4. c \in Out <=> \/ \E p \in Client : dc[p] = c \/ reply[p] = c \/ c \in toClose[p]
                      \/ c \in toClose[Closer]
    BY DEF Out
  <1>5. c \in Out => Owned(c) /\ c \notin freeConn
    BY <1>1, <1>2, <1>4 DEF Apart, Owned
  <1>6. c \in Out => c \notin Taken
    BY <1>1, <1>2, <1>3, <1>4 DEF Apart
  <1>7. Owned(c) => c \in freeConn \cup Taken \/ c \in Out
    BY <1>2, <1>3, <1>4 DEF Owned, Process
  <1> QED
    BY <1>1, <1>5, <1>6, <1>7 DEF OpenConns

\* The instance has a Cardinality of its own, with the same definition.
LEMMA SameSize == \A S : IdlePart!Cardinality(S) = Cardinality(S)
  BY Zenon DEF Cardinality, IdlePart!Cardinality

\* The setters and the cleaner have what they had.
SameTaken == /\ toClose'[Cleaner] = toClose[Cleaner]
             /\ \A s \in Setter : toClose'[s] = toClose[s]

LEMMA TakenKept ==
  ASSUME SameTaken
  PROVE  /\ Taken' = Taken
         /\ [s \in Setter |-> toClose[s]]' = [s \in Setter |-> toClose[s]]
  BY DEF SameTaken, Taken

\* Who calls into the pool closes connections of its own.
LEMMA OwnClose ==
  ASSUME TypeOK, NEW q \in Client \cup {Closer}, NEW set, toClose' = [toClose EXCEPT ![q] = set]
  PROVE  SameTaken
  BY ProcessAssumption DEF SameTaken, TypeOK, Process, Cleaner, Closer

\* Nothing happens to the idle connections.
LEMMA IdleKept ==
  ASSUME OutKnown, OutKnown', SameTaken, freeConn' = freeConn, OpenConns' = OpenConns,
         maxIdleCount' = maxIdleCount
  PROVE  IdleStepped
  <1>1. Out' = Out
    BY TakenKept DEF OutKnown
  <1> QED
    BY <1>1, TakenKept DEF IdleStepped, IdlePart!setVars, SameTaken, IdleLimit

\* One connection leaves the set, or comes back to it, or is new.
LEMMA IdleTaken ==
  ASSUME TypeOK, PoolInv, OutKnown, OutKnown', SameTaken, NEW c \in freeConn,
         freeConn' = freeConn \ {c}, OpenConns' = OpenConns, maxIdleCount' = maxIdleCount
  PROVE  IdleStepped
  <1>1. c \in Conn
    BY DEF TypeOK
  <1>2. c \in OpenConns /\ c \notin Taken
    BY <1>1, ProcessAssumption
    DEF PoolInv, OneOwner, Apart, Owned, OpenConns, Taken, Process
  <1>3. Out' = Out \cup {c}
    BY <1>2, TakenKept DEF OutKnown
  <1>4. IdlePart!Take(c)
    BY <1>3, TakenKept DEF IdlePart!Take, SameTaken, IdleLimit
  <1> QED
    BY <1>1, <1>4 DEF IdleStepped, IdlePart!SetNext

LEMMA IdlePut ==
  ASSUME TypeOK, PoolInv, OutKnown, OutKnown', SameTaken, NEW c \in Conn, c \in Out, IdleRoom,
         freeConn' = freeConn \cup {c}, OpenConns' = OpenConns, maxIdleCount' = maxIdleCount
  PROVE  IdleStepped
  <1>1. Out' = Out \ {c}
    BY TakenKept DEF OutKnown
  <1>2. IdlePart!Cardinality(freeConn) < IdleLimit(maxIdleCount)
    BY SameSize DEF IdleRoom
  <1>3. IdlePart!PutIdle(c)
    BY <1>1, <1>2, TakenKept DEF IdlePart!PutIdle, SameTaken, IdleLimit
  <1> QED
    BY <1>3 DEF IdleStepped, IdlePart!SetNext

LEMMA IdleDialled ==
  ASSUME TypeOK, PoolInv, OutKnown, OutKnown', SameTaken, NEW c \in Conn, AddConn(c),
         maxIdleCount' = maxIdleCount,
         freeConn' = freeConn \/ (IdleRoom /\ freeConn' = freeConn \cup {c})
  PROVE  IdleStepped
  <1>1. OpenConns' = OpenConns \cup {c} /\ c \notin OpenConns
    BY DEF AddConn, OpenConns, Open, TypeOK
  <1>2. c \notin freeConn /\ c \notin Taken
    <2>1. ~Owned(c)
      BY <1>1 DEF PoolInv, OneOwner, OpenConns
    <2> QED
      BY <2>1 DEF Owned, Taken, Process
  <1>3. CASE freeConn' = freeConn
    <2>1. Out' = Out \cup {c}
      BY <1>1, <1>2, <1>3, TakenKept DEF OutKnown
    <2>2. IdlePart!Dial(c)
      BY <1>1, <1>3, <2>1, TakenKept DEF IdlePart!Dial, SameTaken, IdleLimit
    <2> QED
      BY <2>2 DEF IdleStepped, IdlePart!SetNext
  <1>4. CASE IdleRoom /\ freeConn' = freeConn \cup {c}
    <2>1. Out' = Out
      BY <1>1, <1>2, <1>4, TakenKept DEF OutKnown
    <2>2. IdlePart!Cardinality(freeConn) < IdleLimit(maxIdleCount)
      BY <1>4, SameSize DEF IdleRoom
    <2>3. IdlePart!DialIdle(c)
      BY <1>1, <1>4, <2>1, <2>2, TakenKept DEF IdlePart!DialIdle, SameTaken, IdleLimit
    <2> QED
      BY <2>3 DEF IdleStepped, IdlePart!SetNext
  <1> QED
    BY <1>3, <1>4

\* A step of a caller.
LEMMA IdleClient ==
  ASSUME TypeOK, PoolInv, OutKnown, OutKnown', NEW p \in Client,
         Call(p) \/ ClientStep(p) \/ Cancel(p)
  PROVE  IdleStepped
  <1>1. maxIdleCount' = maxIdleCount
    BY DEF Call, ClientStep, Obtain, Refused, TakeFree, Request, Dial, DialOk,
           DialFail, ReceiveConn, ReceiveError, PutConn, PutPanic, PutGood, PutBad,
           Cancel, limits
  <1>2. SameTaken
    <2>1. CASE UNCHANGED toClose
      BY <2>1 DEF SameTaken
    <2>2. CASE \E c : Discard(p, c)
      BY <2>2, OwnClose DEF Discard
    <2> QED
      BY <2>1, <2>2
      DEF Call, ClientStep, Obtain, Refused, TakeFree, Request, Dial, DialOk,
          DialFail, ReceiveConn, ReceiveError, PutConn, PutPanic, PutGood, PutBad,
          Cancel
  <1>3. CASE TakeFree(p)
    <2>1. PICK c \in freeConn : freeConn' = freeConn \ {c}
      BY <1>3 DEF TakeFree
    <2>2. OpenConns' = OpenConns
      BY <1>3 DEF TakeFree, conns, OpenConns, Open
    <2> QED
      BY <1>1, <1>2, <2>1, <2>2, IdleTaken
  <1>4. CASE DialOk(p)
    BY <1>1, <1>2, <1>4, IdleDialled DEF DialOk
  <1>5. CASE PutGood(p) /\ freeConn' # freeConn
    <2>1. dc[p] \in Conn /\ dc[p] \in Out
      BY <1>5 DEF PutGood, TypeOK, Out, PoolInv, Shape, At
    <2>2. IdleRoom /\ freeConn' = freeConn \cup {dc[p]}
      BY <1>5 DEF PutGood, Keep
    <2>3. OpenConns' = OpenConns
      BY <1>5 DEF PutGood, conns, OpenConns, Open
    <2> QED
      BY <1>1, <1>2, <2>1, <2>2, <2>3, IdlePut
  <1>6. CASE freeConn' = freeConn /\ ~DialOk(p)
    <2>1. phase' = phase
      BY <1>6
      DEF Call, ClientStep, Obtain, Refused, TakeFree, Request, Dial,
          DialFail, ReceiveConn, ReceiveError, PutConn, PutPanic, PutGood, PutBad,
          Cancel, conns
    <2>2. OpenConns' = OpenConns
      BY <2>1 DEF OpenConns, Open
    <2> QED
      BY <1>1, <1>2, <1>6, <2>2, IdleKept
  <1>7. freeConn' = freeConn \/ TakeFree(p) \/ PutGood(p)
    BY DEF Call, ClientStep, Obtain, Refused, Request, Dial, DialOk,
           DialFail, ReceiveConn, ReceiveError, PutConn, PutPanic, PutBad, Cancel
  <1> QED
    BY <1>3, <1>4, <1>5, <1>6, <1>7

\* A step of a goroutine that closes connections.
LEMMA IdleClosers ==
  ASSUME TypeOK, PoolInv, OutKnown, OutKnown', NEW q \in Process, CloseStep(q)
  PROVE  IdleStepped
  <1>1. maxIdleCount' = maxIdleCount /\ freeConn' = freeConn
    BY DEF CloseStep, CloseConn, FinalClose, limits
  <1>2. ASSUME NEW c \in Conn, CloseConn(q, c) PROVE IdleStepped
    <2>1. Open(c)
      BY <1>2 DEF CloseConn, PoolInv, Marks
    <2>2. OpenConns' = OpenConns
      BY <2>1, <1>2 DEF CloseConn, conns, OpenConns, Open, TypeOK
    <2>3. SameTaken
      BY <1>2 DEF CloseConn, SameTaken
    <2> QED
      BY <1>1, <2>2, <2>3, IdleKept
  <1>3. ASSUME NEW c \in Conn, FinalClose(q, c) PROVE IdleStepped
    <2>1. c \in toClose[q] /\ OpenConns' = OpenConns \ {c}
          /\ toClose' = [toClose EXCEPT ![q] = @ \ {c}]
      BY <1>3 DEF FinalClose, OpenConns, Open, TypeOK
    <2>2. \A t \in Process : t # q => c \notin toClose[t] /\ toClose'[t] = toClose[t]
      BY <2>1 DEF PoolInv, OneOwner, Apart, TypeOK
    <2>3. toClose'[q] = toClose[q] \ {c} /\ c \notin freeConn
      BY <2>1 DEF PoolInv, OneOwner, Apart, TypeOK
    <2>4. Client \subseteq Process /\ Setter \subseteq Process
          /\ Cleaner \in Process /\ Closer \in Process
      BY DEF Process
    <2>5. CASE q \in Client \cup {Closer}
      <3>1. SameTaken
        BY <2>1, <2>5, OwnClose
      <3>2. c \in Out
        BY <2>1, <2>5 DEF Out
      <3>3. Out' = Out \ {c}
        BY <1>1, <2>1, <3>1, TakenKept DEF OutKnown
      <3>4. IdlePart!PutClosed(c)
        BY <1>1, <2>1, <3>1, <3>2, <3>3, TakenKept DEF IdlePart!PutClosed, SameTaken, IdleLimit
      <3> QED
        BY <3>4 DEF IdleStepped, IdlePart!SetNext
    <2>6. CASE q = Cleaner
      <3>1. \A s \in Setter : toClose'[s] = toClose[s] /\ c \notin toClose[s]
        BY <2>2, <2>4, <2>6, ProcessAssumption
      <3>2. Taken' = Taken \ {c} /\ c \in Taken
        BY <2>1, <2>3, <2>6, <3>1 DEF Taken
      <3>3. Out' = Out
        BY <1>1, <2>1, <3>2 DEF OutKnown
      <3>4. [s \in Setter |-> toClose[s]]' = [s \in Setter |-> toClose[s]]
        BY <3>1
      <3>5. IdlePart!CloseSwept(c)
        BY <1>1, <2>1, <2>3, <2>6, <3>3, <3>4 DEF IdlePart!CloseSwept, IdleLimit
      <3> QED
        BY <3>5 DEF IdleStepped, IdlePart!SetNext
    <2>7. CASE q \in Setter
      <3>1. toClose'[Cleaner] = toClose[Cleaner] /\ c \notin toClose[Cleaner]
        BY <2>2, <2>4, <2>7, ProcessAssumption
      <3>2. Taken' = Taken \ {c} /\ c \in Taken
        BY <2>1, <2>2, <2>3, <2>4, <2>7, <3>1 DEF Taken
      <3>3. Out' = Out
        BY <1>1, <2>1, <3>2 DEF OutKnown
      <3>4. [s \in Setter |-> toClose[s]]'
              = [[s \in Setter |-> toClose[s]] EXCEPT ![q] = @ \ {c}]
        BY <2>2, <2>3, <2>4, <2>7
      <3>5. IdlePart!CloseSurplus(q, c)
        BY <1>1, <2>1, <2>7, <3>1, <3>3, <3>4 DEF IdlePart!CloseSurplus, IdleLimit
      <3> QED
        BY <2>7, <3>5 DEF IdleStepped, IdlePart!SetNext
    <2> QED
      BY <2>5, <2>6, <2>7 DEF Process
  <1> QED
    BY <1>2, <1>3 DEF CloseStep

\* A step of the opener, of the cleaner's round, of DBClose.
LEMMA IdleWorkers ==
  ASSUME TypeOK, PoolInv, OutKnown, OutKnown', OpenerStep \/ CleanerStep \/ DBClose \/ Stop
  PROVE  IdleStepped
  <1>1. maxIdleCount' = maxIdleCount
    BY DEF OpenerStep, OpenerTake, OpenerExit, OpenerKeep, OpenerDrop, OpenerFail,
           CleanerStep, CleanerRun, CleanerExit, DBClose, Stop, limits
  <1>2. CASE OpenerKeep
    <2>1. PICK c \in Conn : AddConn(c) /\ Keep(c)
      BY <1>2 DEF OpenerKeep
    <2>2. SameTaken
      BY <1>2 DEF OpenerKeep, SameTaken
    <2>3. freeConn' = freeConn \/ (IdleRoom /\ freeConn' = freeConn \cup {c})
      BY <2>1 DEF Keep
    <2> QED
      BY <1>1, <2>1, <2>2, <2>3, IdleDialled
  <1>3. CASE OpenerTake \/ OpenerExit \/ OpenerDrop \/ OpenerFail \/ CleanerExit \/ Stop
    <2>1. UNCHANGED <<freeConn, toClose, phase>>
      BY <1>3 DEF OpenerTake, OpenerExit, OpenerDrop, OpenerFail, CleanerExit, Stop, conns
    <2>2. SameTaken /\ OpenConns' = OpenConns
      BY <2>1 DEF SameTaken, OpenConns, Open
    <2> QED
      BY <1>1, <2>1, <2>2, IdleKept
  <1>4. CASE CleanerRun
    <2>1. PICK expired \in SUBSET freeConn :
            /\ freeConn' = freeConn \ expired
            /\ toClose' = [toClose EXCEPT ![Cleaner] = expired]
      BY <1>4 DEF CleanerRun
    <2>2. toClose[Cleaner] = {} /\ OpenConns' = OpenConns
      BY <1>4 DEF CleanerRun, CleanerAwake, conns, OpenConns, Open
    <2>3. toClose'[Cleaner] = expired /\ \A s \in Setter : toClose'[s] = toClose[s]
      BY <2>1, ProcessAssumption DEF TypeOK, Process
    <2>4. Taken' = Taken \cup expired
      BY <2>2, <2>3 DEF Taken
    <2>5. Out' = Out
      BY <2>1, <2>2, <2>4 DEF OutKnown
    <2>6. [s \in Setter |-> toClose[s]]' = [s \in Setter |-> toClose[s]]
      BY <2>3
    <2>7. IdlePart!Sweep(expired)
      BY <1>1, <2>1, <2>2, <2>3, <2>5, <2>6 DEF IdlePart!Sweep, IdleLimit
    <2>8. expired \in SUBSET Conn
      BY DEF TypeOK
    <2> QED
      BY <2>7, <2>8 DEF IdleStepped, IdlePart!SetNext
  <1>5. CASE DBClose
    <2>1. OpenConns' = OpenConns
      BY <1>5 DEF DBClose, OpenConns, Open, PoolInv, Marks, TypeOK
    <2>2. freeConn' = {} /\ SameTaken
      BY <1>5, OwnClose DEF DBClose
    <2>3. freeConn \cap Taken = {} /\ freeConn \subseteq OpenConns
      <3> SUFFICES ASSUME NEW c \in freeConn PROVE c \notin Taken /\ c \in OpenConns
        OBVIOUS
      <3>1. c \in Conn
        BY DEF TypeOK
      <3> QED
        BY <3>1 DEF PoolInv, OneOwner, Apart, Owned, OpenConns, Taken, Process
    <2>4. Out' = Out \cup freeConn
      BY <2>1, <2>2, <2>3, TakenKept DEF OutKnown
    <2>5. IdlePart!TakeAll
      BY <1>1, <2>1, <2>2, <2>4, TakenKept DEF IdlePart!TakeAll, SameTaken, IdleLimit
    <2> QED
      BY <2>5 DEF IdleStepped, IdlePart!SetNext
  <1> QED
    BY <1>2, <1>3, <1>4, <1>5 DEF OpenerStep, CleanerStep

\* A step of a setter.
LEMMA IdleResized ==
  ASSUME TypeOK, PoolInv, OutKnown, OutKnown', NEW s \in Setter, NEW n \in Int,
         SetMaxIdleConns(s, n)
  PROVE  IdleStepped
  <1>1. PICK closing \in SUBSET freeConn :
          /\ IF Cardinality(freeConn) > IdleLimit(maxIdleCount')
             THEN Cardinality(freeConn \ closing) = IdleLimit(maxIdleCount')
             ELSE closing = {}
          /\ freeConn' = freeConn \ closing
          /\ toClose' = [toClose EXCEPT ![s] = closing]
    BY DEF SetMaxIdleConns
  <1>2. toClose[s] = {} /\ OpenConns' = OpenConns
    BY DEF SetMaxIdleConns, conns, OpenConns, Open
  <1>3. /\ toClose'[s] = closing /\ toClose'[Cleaner] = toClose[Cleaner]
        /\ \A t \in Setter \ {s} : toClose'[t] = toClose[t]
    BY <1>1, ProcessAssumption DEF TypeOK, Process
  <1>4. Taken' = Taken \cup closing
    BY <1>2, <1>3 DEF Taken
  <1>5. Out' = Out
    BY <1>1, <1>2, <1>4 DEF OutKnown
  <1>6. [t \in Setter |-> toClose[t]]' = [[t \in Setter |-> toClose[t]] EXCEPT ![s] = closing]
    BY <1>3
  <1>7. maxIdleCount' \in Int
    BY DEF SetMaxIdleConns, IdleCount, TypeOK
  <1>8. IdleLimit(maxIdleCount)' \in Nat /\ IdleLimit(maxIdleCount)' = IdleLimit(maxIdleCount')
    BY <1>7 DEF IdleLimit, DefaultMaxIdle
  <1>9. IdlePart!SetMaxIdle(s, closing)
    BY <1>1, <1>2, <1>3, <1>5, <1>6, <1>8, SameSize DEF IdlePart!SetMaxIdle
  <1>10. closing \in SUBSET Conn
    BY DEF TypeOK
  <1> QED
    BY <1>9, <1>10 DEF IdleStepped, IdlePart!SetNext

LEMMA IdleSetters ==
  ASSUME TypeOK, PoolInv, OutKnown, OutKnown', NEW s \in Setter, SetterStep(s)
  PROVE  IdleStepped
  <1>1. CASE \E n \in Int : SetMaxIdleConns(s, n)
    BY <1>1, IdleResized
  <1>2. CASE SyncIdle(s)
    BY <1>2, <1>1 DEF SyncIdle, TypeOK
  <1>3. CASE UNCHANGED <<freeConn, maxIdleCount, phase, toClose>>
    <2>1. SameTaken /\ OpenConns' = OpenConns
      BY <1>3 DEF SameTaken, OpenConns, Open
    <2> QED
      BY <1>3, <2>1, IdleKept
  <1> QED
    BY <1>1, <1>2, <1>3, SizeAssumption
    DEF SetterStep, SetMaxOpenConns, SetConnMaxLifetime, SetConnMaxIdleTime, conns

LEMMA IdleStep ==
  TypeOK /\ PoolInv /\ OutKnown /\ OutKnown' /\ [Next]_vars
  => [IdlePart!SetNext]_(IdlePart!setVars)
  <1> SUFFICES ASSUME TypeOK, PoolInv, OutKnown, OutKnown', [Next]_vars PROVE IdleStepped
    BY DEF IdleStepped
  <1>1. CASE UNCHANGED vars
    BY <1>1, IdleKept DEF vars, limits, conns, SameTaken, OpenConns, Open
  <1> QED
    BY <1>1, IdleClient, IdleClosers, IdleWorkers, IdleSetters DEF Next, Step

\* The pool does nothing with db.freeConn but what IdleSet allows, the set that
\* SliceImplementsIdleSet shows the slice of one setter to be.
THEOREM PoolUsesIdleSet == Spec => UsesIdleSet
  <1>1. Init => IdlePart!SetInit
    <2> SUFFICES ASSUME Init PROVE IdlePart!SetInit
      OBVIOUS
    <2>1. IdleLimit(maxIdleCount) \in Nat
      BY SizeAssumption DEF Init, IdleLimit, DefaultMaxIdle
    <2>2. Cleaner \in Process /\ Closer \in Process /\ Client \cup Setter \subseteq Process
      BY DEF Process
    <2>3. OpenConns = {}
      BY DEF Init, OpenConns, Open
    <2>4. Out = {}
      BY <2>2, ConnAssumption DEF Init, Out
    <2>5. /\ freeConn = {} /\ toClose[Cleaner] = {}
          /\ [s \in Setter |-> toClose[s]] = [s \in Setter |-> {}]
      BY <2>2 DEF Init
    <2> QED
      BY <2>1, <2>3, <2>4, <2>5 DEF IdlePart!SetInit
  <1> QED
    BY <1>1, IdleStep, OutIsTheRest, PoolTypes, PoolInvariant, PTL
    DEF Spec, UsesIdleSet, IdlePart!SetSpec
===============================================================================
