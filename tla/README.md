# Specifications of db_wrapper

`db_wrapper` is a Nim library for MySQL, PostgreSQL and SQLite. Its engine is a
shared library built from `database-resource/sql.go`, a copy of Go's
`database/sql` that is called through `uintptr` handles (`DBOpen`, `QueryExec`,
`StmtExec`, `Begin`, ...). This directory holds TLA+ models of that engine and
of the way the Nim side uses it, the TLC configurations that check them, and
proofs checked by TLAPS.

    tlc -config MCPoolLease.cfg MCPoolLease.tla     # a run
    tlapm ConnPoolProofs.tla                        # a proof module

All line numbers are those of `database-resource/sql.go` unless another file is
named.

## 1. The system

| part | state | operations | interacts with |
|---|---|---|---|
| connection pool (`DB`, l. 412) | `freeConn`, `connRequests`, `numOpen`, `openerCh`, `closed`, `dep`, all under `db.mu`; of each `driverConn` `inUse`, `closed` | `conn`, `putConn`, `putConnDBLocked`, `maybeOpenNewConnections`, `driverConn.Close`, `finalClose`, `DBClose` | every caller; the goroutines `connectionOpener` and `connectionCleaner` |
| limits and cleaner | `maxOpen`, `maxIdleCount`, `maxLifetime`, `maxIdleTime`, `cleanerCh` | `SetMaxOpenConns`, `SetMaxIdleConns`, `SetConnMaxLifetime`, `SetConnMaxIdleTime`, `connectionCleaner` | the pool |
| transactions (`Tx`, l. 2321) | `done`, `closemu`, `stmts`, a context | `Begin`, `Commit`, `Rollback`, `awaitDone`, `TxQueryExec`, `TxPrepare`, `StmtContext` | holds one connection of the pool until it ends |
| cursors (`Rows`, l. 3182; `Row`) | `closed`, `lasterr`, `lastcols`, `closemu` | `Next`, `NextResultSet`, `Scan`, `Close`, `awaitDone` | releases a connection, or a read lock of a `Tx`, when closed |
| statements (`Stmt`, l. 2797; `driverStmt`) | `closed`, `css`, `lastNumClosed`, `closemu`; `openStmt` and `onPut` of a connection | `StmtPrepare`, `StmtExec`, `StmtQuery`, `Close`, `finalClose` | re-prepares itself on any connection; dependency counts in `db.dep` |
| single connections (`Conn`, l. 2138) | `done`, `closemu` | `Conn`, `Close`, `Raw`, `BeginTx` | as `Tx` |
| calls of the driver | none | `execDC`, `queryDC`, `beginDC`, `driverArgsConnLocked`, the checkers of `convert.go`, the helpers of `ctxutil.go` | the driver, through the interfaces it happens to implement |
| handles | `DBInstances`, `StmtInstances`, `TxInstances`, `RowsInstances`, `ResultInstances`, `drivers` | every exported function | threads of the host program |
| results | `CRows` | `convertTocRows`, `GetRow`, `GetColumns`, ... | reads `Rows` to the end |
| Nim wrapper (`src/db_wrapper.nim`) | none | `query`, `prepare`, `exec`, the `transaction` macro | calls the exports |

What is hard, and what must hold:

* Pool. `db.mu` is released and taken again several times within one operation,
  `numOpen` is raised before a connection exists and corrected by somebody else,
  a connection can be handed to a request whose caller has just given up, and
  `DBClose` may come at any point. A connection has one owner and none is lost;
  the limits hold while they are being changed; who waits is served when there
  is something to serve it with; after `DBClose` everything is closed; the
  internal assertions (`putConn` l. 1453, `removeDepLocked` l. 687, 696) hold.
* Transaction. `Commit`, `Rollback` and the goroutine `awaitDone` race for `done`
  while operations and rows hold `closemu`. The connection goes back once, when
  nobody uses it; the answer is the truth; the end is reached.
* Cursor. The application and `awaitDone` close it, whoever is first, between any
  two calls. The connection goes back once; a result that was cut short is
  reported; a row is copied from valid memory.
* Statement. It has a driver statement on every connection it has run on. None is
  used after it is closed, each is closed once, before its connection.
* One call. Two paths (directly, by a statement), two conversions of the
  arguments, up to three attempts, drivers with and without context support. The
  driver does what was asked at most once and gets the arguments as given.
* Handles. The maps are written by the threads of the host program. An object
  whose address has been returned must stay in its map.

`PROJECT.json` lists the hazards at their lines with the properties that cover
them.

## 2. Modules

| module | content | proofs |
|---|---|---|
| `ConnPool` | the pool with its callers, opener, cleaner, setters and `DBClose` | `ConnPoolProofs` |
| `ConnLease` | what the pool promises its callers (abstract) | |
| `PoolLease` | the mapping of `ConnPool` to `ConnLease` | `ConnPoolProofs` has the refinement |
| `MCConnPool`, `MCPoolLease`, `MCPoolLive` | `ConnPool` for TLC: symmetry and bounds, the same with `PoolLease`, a budget of calls | |
| `IdleSlice`, `MCIdleSlice` | the slice `db.freeConn` and its backing arrays, which `SetMaxIdleConns` shares | `IdleSliceProofs` |
| `IdleSet` | the set that `ConnPool` has in its place (abstract) | `IdleSliceProofs` and `ConnPoolProofs` have a refinement each |
| `Tx` | a transaction, the goroutines that use it and `awaitDone` | `TxProofs` |
| `TxPromise` | what a transaction promises (abstract) | `TxProofs` has the refinement |
| `Borrow` | what the pool expects of whoever holds a connection (abstract) | `TxProofs`, `RowsProofs` and `SingleConnProofs` have a refinement each |
| `Rows`, `MCRows` | a cursor, its three applications and `awaitDone` | `RowsProofs` |
| `Stmt`, `MCStmt` | a prepared statement, its driver statements, connections that come and go, and a transaction it is bound to | `StmtProofs` |
| `SingleConn` | a `Conn` that goroutines share | `SingleConnProofs` |
| `DriverCall` | one call from the connection to the driver and back | `DriverCallProofs` |
| `Handles` | the steps that enter an object into its map | `WrapperProofs` |
| `Wrapper` | `Handles` composed with the threads of a Nim program, transaction blocks and a pool | `WrapperProofs` |

How they fit together. `ConnPool` hands out connections. `Tx`, `Rows`, `Stmt` and
`SingleConn` each look at the holder of one, and reduce the pool to what the
holder sees: a lease that is held, then given back as good or bad (`Stmt`, which
lives on many connections, has the phases of each). What `ConnPool` assumes of
its callers, that each uses its connection only while it holds it and gives it back
once, is `Borrow`, which `Tx`, `Rows` and `SingleConn` implement (`GivesBack`), and
`NothingLeft` of `DriverCall`; what they assume of the pool, a connection of their
own, is `OneOwner` and `ImplementsLease`. `Tx` reduces rows to a read lock that is held and given back;
`Rows` has them in detail. `Wrapper` reduces all of it to the number of free
connections.

A definition whose name ends in `Fault` is a plausible bug in the definition
after it: no specification uses it, it takes the other's place when one wants to
see that a property would notice.

### ConnPool

A step is one critical section of `db.mu` with the caller's private work around
it. What happens between two sections of one operation is another step, so all
interleavings of the sections are explored.

| code | model |
|---|---|
| `db.freeConn` | `freeConn`, a set: the order decides only which connection is taken |
| `db.connRequests[key] = req` | `connRequests`, the clients with an entry; `reply[p]`, the content of the channel (`Empty`, a connection, `Failed`, `Closed`) |
| `db.numOpen`, `db.closed`, `db.maxOpen`, ... | variables of the same names; `dep` is `db.dep` restricted to connections |
| `db.openerCh` | `openerCh`, the number of tokens; a value over `QueueSize` means that the sender stands at the full channel with `db.mu` held, and `LockFree` then disables every section |
| `db.cleanerCh` | `cleaner`: `off` (nil), `on`, `shut` (closed by `DBClose`, not yet seen by the cleaner) |
| the program counter of a caller | `pc` (`idle`, `conn`, `dial`, `wait`, `use`, `drain`), `attempt` (round of the retry loop), `dc` |
| connections waiting for `driverConn.Close`, per goroutine | `toClose` |
| the call of `SetMaxIdleConns` at the end of `SetMaxOpenConns` | `pending` |
| a panic | `panic`, after which nothing moves |

`DB.conn` is `Refused`, `TakeFree`, `Request`, `Dial`, `DialOk`, `DialFail`,
`ReceiveConn`, `ReceiveError` and `Cancel`; `putConn` is `PutGood`, `PutBad` and
`PutPanic`; `driverConn.Close` and `finalClose` are `CloseConn` and `FinalClose`;
the other actions have the names of their functions. `Ping`, `Exec`, `Query`,
`Prepare` and `Begin` run the same loop (two rounds with cached connections, one
with a new one) and differ only in how long they keep the connection: all are
`Call` followed by the steps above.

Left out: clocks (any idle connection may have expired, any connection that is
put back may be bad, a session reset may fail), the driver (a dial succeeds or
fails at any time), statements on a connection (`Stmt` has them), and the
statistics. A `driverConn` is reused in the model after its `finalClose`. An
expired connection is treated as one whose session cannot be reset, also for a
caller that wants a new connection: the code skips the test for age there and
not the other one.

The model has at most one setter (`SetterAssumption`), because the code is not
correct with more: see `IdleSlice` and the known divergences. The exported
functions call the setters only in `openDB`.

### IdleSlice and IdleSet

`db.freeConn` as the program has it: the arrays, a length, Go's `append` (in place
while the capacity lasts, doubling otherwise; `Append1`), the shift of `DB.conn`
(`Take`), and the slice `closing` of `SetMaxIdleConns`, a part of the same array
(`surplus`). A setter reads each cell after the unlock, when its turn comes
(`ReadNext`), and closes what it has read in a later lock section (`CloseNext`), so
everything that writes the array may come in between. The cleaner's two loops swap
an expired connection with the last one, cell by cell, with `db.mu` held (`Expired`,
`Fresh`, `LoopEnds`).

`IdleSet` is what `ConnPool` takes for granted instead: a set within a limit, from
which a setter or the cleaner takes a part in one step and closes that part, one
connection after the other. `IdleSlice` implements it: a setter's `toClose` is what
is left in its slice and in its hand, and what a sweep has taken out leaves the set
when the sweep ends. This holds for one setter (`OneSetter`).

`ConnPool` implements it too (`UsesIdleSet`): out is every connection that a caller
holds or closes, that was sent to a caller, or that `DBClose` closes. The pool
therefore asks nothing of its set that `IdleSet` does not allow, and the slice does
nothing that it does not allow. `DialIdle` (the opener leaves a connection where
nobody waits) and `TakeAll` (`DBClose`) are there for the pool; `IdleSlice` leaves
these two out and has no step that implements them.

### ConnLease

Open connections, one lease for each, a limit, and a switch that stops
admission. `ConnPool` implements it under the mapping of `PoolLease`: a
connection is open until `finalClose`, a caller asks while it dials or waits and
has the lease while it holds the connection.

### Tx and TxPromise

`stage` is the program counter of the transaction: `begin`, `open`, then the steps of
the one goroutine that changed `done` (`Cancel`, `LockClosemu`, `Drain`,
`DriverEnd`, `ClosePrepared`, `Close`; the code has them twice, in `Commit` and
in `rollback`). `closemu` is not a variable: its readers are the clients in
`check` or `run` and those with open rows, its writer is the stage `wait`, which
keeps new readers out as Go's `RWMutex` does. `grabConn` is two steps, `Grab` (the
lock) and `CheckDone`; the driver's work is a step from `run` to what follows it
(`ExecDC`, `QueryDC`, `PrepareDC`, `StmtContext`). `Commit` looks at the context in
one step and swaps `done` in another (`CommitSwap`), as l. 2453 ff. do.
`PrepareContext` notes its statement in a step after the one that released
`closemu`. `AwaitRollback` is the goroutine of the same name, with
`keepConnOnRollback` chosen at the start.

`TxPromise` says what this is for: clients use the connection while the
transaction is active, it ends once, with nobody on the connection, and only
then is the connection given back.

### Borrow

The connection has users while it is held, and is given back once, when it has none.
The users of a transaction's connection are the clients in `run` and those with open
rows; of a `Conn`'s, the operations, rows and transactions on it; of Rows', the
application while a call of the driver reads (`ReadLocked`).

### Rows

One application, chosen at the start: the loop of the documentation (`loop`), `Row.Scan`
(`row`), and `convertTocRows` (`crows`), whose program counters share the steps of
`Next`, `NextResultSet`, `Scan` and `Close`. A call of the driver is a step under
the read lock (`reading`, `moving`); `Scan` is two steps, because it copies the row
after it has released the lock. `AwaitDone` may close the Rows at any step at
which no call reads. A result is the sequence of the row counts of its sets;
a row has no content, only its set and its number in it; `got` are the rows that were
scanned, `blank` those whose scan failed, and `stale` says that one was copied after
the Rows had closed.

### Stmt

A driver statement is the pair of its connection and of the client that prepared
it; `made` and `shut` are all of them and the closed ones. `css`, `lastNumClosed`,
`deps` (the statement's entry in `db.dep`), `openStmt` and `onPut` have the names of
the code. `closemu` is again the program counters: the clients in `Execs` read, one
in `closing` waits to write. `s.mu` is held across steps only by `finalClose`
(`fin`), which locks each connection in turn; the mutex of a connection only from
`prepareLocked` to the append to `css`. A connection goes through the phases
`none`, `idle`, `used`, `doomed`, `closing`, `copied` (its `finalClose` has copied and
closed `openStmt`), `gone`. `noteUnusedDriverStatement` is three steps (`NoteUnused`,
`CloseUnused`, `RemoveOpenStmt`), each one lock of `db.mu` or of the connection. One
transaction at a time binds the statement (`StmtContext`) and ends. A retry after
`ErrBadConn` is a new execution.

### SingleConn

`grabConn` is `Grab` (it reads `done`) and `RLock` (it gets the lock and reads `c.dc`),
with `Close` free to run between them. An operation ends, or leaves rows or a
transaction open with the read lock (`Open`), or closes the Conn because of
`ErrBadConn`. `Swap` and `Release` are `Conn.close`.

### DriverCall

One call of `ExecContext`, `QueryContext` or `BeginTx`. What a driver implements is
chosen where the code asks for it: `NamedValueChecker`, `ColumnConverter`, `NumInput`
(in `Convert`), the interfaces with a context (a branch of `Run`, `Prepare`, `Begin`).
An argument is plain, named, or has an empty or invalid name; a slot of `nvargs`
keeps whose name (`name`) and whose value (`val`) it has, and what a checker has
made of it (`is`: as given, a driver value, whatever the driver's own checker
wants, nil). The result of a conversion is an outcome (accepted, `ErrSkip`,
`ErrRemoveArgument`, refused): what the reflection of `convert.go` does with a value
is data. `ran` counts how often the driver did what was asked; an error other than
`ErrBadConn` may come before or after that.

### Handles and Wrapper

Every exported function that returns a handle looks whether the map of its kind
is nil, makes it, locks a mutex, writes, unlocks: `Check`, `Make`, `Lock`, `Write`.
`StmtExec` takes no mutex and that of `TxPrepare` is a local variable, so both pass
`Lock` without waiting. Two writes that overlap are a data race: the process may
end, the entry may be lost. A client that writes while another makes the map anew
writes into the old one (`orphans`).

`Wrapper` adds what the calls do: a call on the database waits for one of `Pool`
connections (`connectionPool` of the Nim side), `Begin` opens a block, a block ends
with a commit, an exception or by `return` or `break` (`Leave`: the macro has no
`finally`), and a call that fails ends the process (`log.Fatal`).

## 3. Runs

| run | module | constants | properties |
|---|---|---|---|
| `pool_lease` | `MCPoolLease` | 3 callers (1 cancellable), 3 connections, a setter between the limits 1 and 2, `DBClose` | `OneOwner`, `PairedUse`, `NoIdleWhileWaiting`, `OpenWithinLimit`, `ImplementsLease` |
| `pool_resize` | `MCConnPool` | 2 callers (1 cancellable), 2 connections, limits 0 (none), 1, 2, idle limits, lifetimes | `OpenCount`, `IdleLimitSynced`, `WakeupOwed`, `NeverOpensPastLimit`, `UsesIdleSet` |
| `pool_serve` | `MCPoolLive` | 3 callers (1 cancellable), 1 connection, 4 calls, fairness | `WaiterServed`, `AllClosed` |
| `idle_one_setter` | `MCIdleSlice` | 4 connections, idle limits 0, 1, 2, 4 | `OnePlace`, `ImplementsIdleSet` |
| `tx_ends` | `Tx` | 2 goroutines, `awaitDone`, fairness | `QuietEnd`, `Truthful`, `TxStmtsClosed`, `CancelEnds`, `EndReturns`, `KeepsPromise` |
| `rows_close` | `MCRows` | results of one set of 0 to 3 rows or two sets of 0 to 2, both contexts, driver errors, fairness | `GivesBack`, `DriverQuiet`, `ClosedAtEnd`, `TruncationReported`, `OnlyContextsInterfere`, `ErrKept`, `ContextCloses` |
| `stmt_use` | `MCStmt` | 2 goroutines, 2 connections, 1 transaction at a time | `NoStaleUse`, `PairedDep`, `ClosedBeforeConn`, `NoStmtLeak` |
| `conn_close` | `SingleConn` | 4 goroutines, fairness | `GivesBack`, `QuietRelease`, `CloseReturns` |
| `wrapper` | `Wrapper` | 2 threads, 1 connection, fairness | `ConnsKept`, `MutexKeeps`, `CallsReturn` |
| `driver_call` | `DriverCall` | up to 2 arguments and 2 placeholders | `ArgsKept`, `RunsOnce`, `NothingLeft` |
| `handles_lost` | `Wrapper` | 2 threads, 2 connections | `HandlesKept` is violated |
| `rows_cut` | `MCRows` | one set, driver errors | `CRowsComplete` is violated |

Every property has a mutant in `PROJECT.json`: one definition of the model,
changed the way a bug would change the code, violates it under the same
configuration.

### What the properties say

* `OneOwner`: a connection is idle, with one caller, in one channel, or with one
  closing goroutine. `PairedUse`: no panic of `putConn` or `removeDepLocked`.
  `OpenCount`: `numOpen` is never below what is open or on order, and exact until
  `DBClose`. `NeverOpensPastLimit`, `OpenWithinLimit`,
  `IdleLimitSynced`: the limits, also between the two halves of `SetMaxOpenConns`.
  `UsesIdleSet`: a connection becomes idle only within the idle limit in force, and
  what a setter or the cleaner has taken out nobody else closes or hands out.
  `NoIdleWhileWaiting`: no caller that would take any connection waits beside an
  idle one. `WakeupOwed`: while one waits, a connection is on order, held, on its
  way to a request, or being closed, so that some lock section will look at the
  requests again. `WaiterServed`, `AllClosed`: what follows in time.
* `OnePlace`: an open connection is idle, with a caller, or with the one goroutine
  that will close it, however the slices of one array are cut, shifted, swept and
  appended to. `ImplementsIdleSet`: what a setter closes through the shared array is
  what it cut off, as if it had copied it.
* `QuietEnd`: nobody uses the connection when the driver ends the transaction.
  `Truthful`: a success that was reported is what the driver did. `TxStmtsClosed`:
  a connection goes back with the statements of `StmtContext` closed.
  `CancelEnds`: a cancel gives the connection back, even when the application
  forgets its rows. `EndReturns`: `Commit` and `Rollback` return, although the caller's
  own rows hold the lock they wait for.
* `GivesBack`, `DriverQuiet`, `ErrKept`: the race of the application with `awaitDone`.
  The connection goes back once, between two calls of the driver. `TruncationReported`: what the loop and `Row.Scan` take for complete
  is complete. `OnlyContextsInterfere`: without a context that ends, each row
  delivered is scanned from valid memory. `ClosedAtEnd`, `ContextCloses`: no
  connection stays behind.
* `NoStaleUse`, `PairedDep`, `ClosedBeforeConn`, `NoStmtLeak`: the life of a driver
  statement, from `css` of the statement and `openStmt` of its connection at once.
* `GivesBack`, `QuietRelease`, `CloseReturns`: the same for a `Conn`.
* `ConnsKept`, `CallsReturn`: connections and blocks of the macro. `MutexKeeps`: what
  the two shared mutexes of the handle maps achieve.
* `ArgsKept`, `RunsOnce`, `NothingLeft`: arguments, retries and failures of a call.

The exceptions that a property names (in its formula and in its comment) are
where the code does something else; they are in "Known divergences" below.

### Bounds, and why they are enough

* Pool. Three callers are one that holds, one that waits and one that cancels or
  overtakes. Three connections and limits of at most 2 let a dial past the limit
  have a caller and a connection to show it. `pool_resize` counts with `numOpen`:
  two connections and limits of 1, 2 and none give every order of the count and
  `maxOpen`; `UnlimitedStays` stops the search where a pool without limit has
  ordered more connections than there are. `QueueSize` (1000000 in the code) is 3
  and never reached. `MCPoolLive` has 4 calls: each caller once, and one again.
* `IdleSlice`. Four connections make the array grow twice (1, 2, 4 cells) and let a
  slice of two be read while the array is appended to, shifted and swept. 1397311
  states.
* `Tx`. The second goroutine may use, end, or wait in the other's way; `awaitDone` is
  a third contender. `SingleConn` has four goroutines: an operation, one that
  holds rows, and two that close.
* `Rows`. Two rows and two sets have a first, a last and a middle of everything; a
  cursor with two sets has one set with a successor and one without.
* `Stmt`. Two goroutines and two connections: 238509 states up to symmetry. With
  three goroutines (6.8 million states) and with three connections (14.6 million)
  nothing else was found; these are too long to be repeated each time.
* `Wrapper`. One connection is the default of the Nim side, and the value at which
  threads block each other; two threads are what a race of a map needs.
* `DriverCall`. Two arguments let one that was removed leave something to the next.

### Deadlock

Deadlock is checked in `pool_lease`, `pool_resize` and `idle_one_setter`, where the
system never stops. The other models end: a transaction that is over, a cursor
that was read, a closed statement or `Conn`, a call that has returned, threads that
have their handles, a used up budget of calls. There, that nobody is stuck before
is a liveness property (`EndReturns`, `CloseReturns`, `CallsReturn`, `WaiterServed`).
`Stmt` states no fairness and has none; its one deadlock is among the known
divergences.

### Fairness

Weak fairness, of goroutines inside a call and of the package's own goroutines,
which the Go scheduler runs; a driver call, once made, returns. There is none for
what an application decides: new calls, cancels, setters, closing rows, ending a
transaction, leaving a Conn.

* `ConnPool`: a caller that has a connection gives it back, a dial returns, closing
  goroutines, `connectionOpener` and `DBClose` run on. A connection that is put back
  goes to an arbitrary request (the code ranges over a map), so one waiter can be
  passed over for ever by new calls: `MCPoolLive` bounds the calls, and what
  `WaiterServed` says is that nobody is forgotten once the others have stopped.
* `Tx`: `awaitDone`, the steps of the end, operations that are under way, and the
  `awaitDone` of open rows.
* `Rows`: `awaitDone` and a driver call; the application may stop for ever.
* `SingleConn`: operations under way and the steps of a close.
* `Wrapper`: calls of Go, and the end of a block's body.

## 4. Known divergences

Two runs end in a counterexample and are findings of `PROJECT.json`, which quotes
what the code or its comments say.

* `rows_cut` (l. 3718). `convertTocRows` stops when `Next` returns false and never calls
  `rows.Err`: a result that an error cut short is returned as a complete one.
* `handles_lost` (l. 2904). `StmtExec` writes its map with no mutex, `TxPrepare` with
  one of its own, and all functions make their map before they lock: two first
  calls lose a handle, or the Go runtime ends the process.

The others are built into the models as what the code does, and named as
exceptions where a property needs it.

Pool:

* Two goroutines change the idle limit at once (l. 1002): the second one's truncated
  array is appended to while the first one still reads its tail, so a connection
  that is idle is closed in place of a surplus one. `SetterAssumption` excludes it.
* A shorter lifetime is set after `DBClose` (l. 1046): the send is on a closed channel.
* A caller in the last round of its retry loop wants a new connection (l. 1327, 1332).
  At the limit it registers a request although connections are idle, and nobody
  looks at it until the next `putConn` or close.
* Requests of a closed `DB` stay in `connRequests`, so `finalClose` raises `numOpen`
  again (l. 1211); tokens may be left in `openerCh` (l. 1223).
* A sender to a full `openerCh` (l. 1216) holds `db.mu`, which the receiver needs.
* `DBClose` returns (l. 932) while queries run; its doc (l. 899) says it waits for them.
* `DB.conn` discards a connection (l. 1422) with `conn.Close`, without `putConn`: what
  `noteUnusedDriverStatement` left in `onPut` never runs (`ClosedBeforeConn`).

Transactions and single connections:

* `Tx.PrepareContext` notes its statement (l. 2557) after it has released `closemu`: a
  statement noted after `closePrepared` is never closed (`TxStmtsClosed`).
* A transaction that ends with `ErrBadConn` skips `closePrepared` (l. 2478); a parent
  statement keeps a dependency for ever (`NoStmtLeak`).
* `StmtContext` locks the connection of the transaction, then the statement; `finalClose`
  the statement, then each connection (l. 3013). Executions cannot meet it: `closemu`
  keeps them out, and their connection has no entry in `css` yet. A `StmtContext`
  and a `Close` at once wait for each other for ever.
* `Conn.grabConn` (l. 2162) reads `done` before it has the lock, and may return the nil
  that `Close` has left.

Results:

* When the context of the transaction ends, the error recorded is that of the
  query's own context (l. 3240), nil: `Rows.Err` reports nothing (`TruncationReported`).
* An error that comes after the end of a set with a successor meets `io.EOF` in
  `lasterr` (l. 3582) and is dropped (`TruncationReported`).
* `Scan` copies the row after it has released `closemu` (l. 3546), from memory that
  `Close` takes back (`OnlyContextsInterfere`).
* `convertTocRows` ignores the error of `Scan` (l. 3724) and delivers a blank row; it
  leaves Rows with a further set open (l. 3718), and with them their connection
  (`ClosedAtEnd`).

Arguments:

* A slot of a removed argument keeps its name for the next one (convert.go l. 142).
* `want` is -1 when a statement cannot count its placeholders: no argument is shown
  to the column converter, and the value goes to the driver as it came
  (convert.go l. 55).
* `ErrSkip` from a value's own `Value` method is taken for the checker's: the driver
  gets NULL.

Foreign callers:

* `return` or `break` in a block of the `transaction` macro (src/db_wrapper.nim l. 247)
  neither commits nor rolls back: the connection is never given back
  (`CallsReturn`).
* With `connectionPool` 1, the default (src/db_wrapper.nim l. 102), a block that uses
  the database itself waits for its own connection (`Stuck` in `CallsReturn`).
* Nothing is ever deleted from the instance maps (l. 2904): every handle lives for
  ever.

## 5. Proofs

The theorems hold for every value of the constants that satisfies the named
assumptions: finite sets of callers and connections, names that are distinct, times
that are natural numbers with 0 among them, a channel that is not empty, one
setter, a pool of at least one connection. Each invariant is proved from an
inductive one, along `Init => Inv`, `Inv /\ [Next]_vars => Inv'`, `Inv => property`.

* `ConnPoolProofs`. `PoolTypes`: `TypeOK`, step by step. `PoolInvariant`,
  `OwnershipHolds`, `PairingHolds`: `OneOwner` is not inductive. Whether a connection
  that moves has no other owner depends on where the callers are (`Shape`: a caller
  holds a connection exactly in `use` and `drain`, its channel is full only while it
  waits, an entry of `connRequests` means an empty channel until `DBClose`), and
  whether a panic is possible depends on what a new owner finds (`Marks`: live,
  `inUse`, with its dependency). The conjunction `PoolInv` is inductive. There is a
  lemma for each way a connection moves (idle to caller, caller to request, caller to
  closing, ...), and each action uses one.
  Then the counts and limits. `CountHolds`: `OpenCount`, by cardinalities; `CountMaybeOpen`
  covers the actions that take one off the count and then call
  `maybeOpenNewConnections`. `LimitHolds`: `NeverOpensPastLimit`, from the same case
  analysis. `OpenLimitHolds`: with `m` the largest argument, `Within(m)` (`numOpen <= m`
  and a limit between 1 and `m`) is preserved because a step that raises `numOpen`
  stays below the limit in force; `OpenCount` carries this over to the connections
  themselves. `IdleLimitHolds`, `IdleSyncHolds`: the idle limit, through
  `putConnDBLocked`, the cleaner and both halves of `SetMaxOpenConns`.
  `PoolUsesIdleSet`: by `OneOwner`, what is open and neither idle nor taken by a setter
  or the cleaner is out (`OutKnown`), so that each step has to be followed only in
  `db.freeConn`, in what is open, and in what the setters and the cleaner have taken.
  `NoIdleHolds`: a connection becomes idle only when no request is pending
  (`NoIdleInv` adds that a closed `DB` has none idle). `WakeupHolds`: where somebody
  waits `numOpen` is positive (`NumInv`), because whoever takes the last connection
  off the count makes `maybeOpenNewConnections` order another; with `OpenCount` and
  `OneOwner`, what is open and not idle is with somebody. `PoolImplementsLease`: every
  step of the pool is a step of `ConnLease` or leaves it alone. `OneOwner` and `Marks`
  say that a connection that is granted or closed is open and not leased, and
  `OpenCount` with `Within` that there is room for one that is on order. `PoolLease`
  assumes that every size of a pool is positive (`LimitAssumption`): with a size of 0
  there is no limit to promise.
* `IdleSliceProofs`. `SliceInv` adds to the types that the places share nothing
  (`Listed`, `Partition`) and why the tail that a setter still reads is not
  overwritten (`Layout`): `db.freeConn` never outgrows the limit, and the limit stays
  below the first cell that is left to read. The second half is what a second setter
  breaks, by raising the limit: without `OneSetter` the invariant is false, as is
  the property, so all theorems here have that hypothesis, which is
  `SetterAssumption` of `ConnPool`. `OnePlaceHolds`: `OnePlace`.
  `SliceImplementsIdleSet`: `ImplementsIdleSet`; the steps of the cleaner's loops
  leave the set alone but for the last, which is `Sweep`, and `SliceSize` (a
  bijection) makes the length of the slice the size of the set.
* `TxProofs`. `Inv` adds to the types what each `stage` knows (`StageInv`: `done`, the
  driver's transaction and the lease follow it), what is true
  without a driver transaction (`NoneInv`: no client does anything), whose a reported
  success is (`AnswerInv`: the ender's, at the end), and that no statement of
  `StmtContext` is open once closePrepared is past (`StmtInv`). `TxQuietEnd`,
  `TxTruthful`, `TxStatementsClosed`, and `TxKeepsPromise`: every step of `Tx` is a step
  of `TxPromise` or leaves it alone. `TxGivesBack`: `TxPromise`, with the connection
  held while the transaction is active, is `Borrow`.
* `RowsProofs`. `Undisturbed` says what a delivered row finds while both contexts
  live, `CRowsPath` where `convertTocRows` can be; with `ReleasedOnce`, `DriverQuiet` and
  `ClosedAtEnd` they are inductive. `CloseReleasesOnce` is the one lemma about
  `rs.close`, which every closer calls. `RowsErrKept` is an action property: it needs
  `DriverQuiet`, because a driver call writes `lasterr`. `RowsGivesBack`: the Rows are
  a borrower, because `awaitDone` waits for the call that reads.
  `RowsTruncationReported` is about the rows themselves, and has an invariant of its
  own, `ReadInv`: what has been scanned is what the driver has delivered but for
  the row in hand (`Progress`), Row.Scan reads one row (`OneRow`), and Rows that are
  closed with no error to report have been read to the end (`Settled`). `Reported`
  names what the code can report; without it `Settled` is false, for the two reasons
  under "Known divergences". `RowsTypeCorrect` follows from both invariants.
* `StmtProofs`. `OwnInv`: a connection has one user, and the transaction does not end
  while somebody binds to it. `DepInv`: each dependency has its owner, and the
  statement is one of its own until its one `Close`. `FinInv`: what finalClose has
  taken is neither in `css` nor in `onPut`. `MadeInv`: a driver statement that is not
  closed is in `css`, in `todo`, in `onPut`, or about to be appended, unless its
  connection closes. `LiveInv`: who uses or has bound the statement has an open one
  that is not about to be closed. `ShutInv`: an open one is known to its connection
  or will be closed by `putConn`. Their conjunction is inductive, and the four
  properties follow. `StmtTypeCorrect` adds that `css` is cleaned by the number of
  connections that have closed (`ConnFinite`).
* `SingleConnProofs`. `WinnerInv`: at most one goroutine waits for the write lock of
  the close, and it has not released the connection yet. `ConnQuietRelease`,
  `ConnOneRelease`, and `ConnGivesBack`, which needs that a goroutine with something
  open starts no operation (`OpenInv`): otherwise the end of the operation would not
  be the end of its use.
* `DriverCallProofs`. `CallInv`, about the work: `ran` is 0 until the call runs, and
  what is open at each point. `ArgsInv`, about the arguments: the slots filled so
  far have rising values (`OrderInv`), names that are their own or a removed
  argument's (`NameInv`), and a form that their checkers accept (`ValueInv`); `Carried`
  counts the slot that is being checked. `CallArgsKept` holds for any number of
  arguments, not only for `MaxArgs` 2. `CallTypeCorrect`: `AttemptInv` bounds the
  retries, and `DataInv` keeps what the slots hold within the arguments; it needs
  `ArgsInv`, which says that the slot of the next argument exists.
* `WrapperProofs`. `ConnInv`: `ConnsKept` with who may be in a transaction, by
  cardinalities. `MapInv`: who writes holds the mutex, and who writes into an
  abandoned map belongs to one that was made twice. `WrapperTypeCorrect` follows from
  both and from `MapsTyped`; that `free` never exceeds `Pool` is `ConnsKept`.

Every invariant, action property and refinement that the passing runs check is
proved, and so is the `TypeOK` of every module that has one (of `IdleSlice` with one
setter). Checked by TLC only: all liveness (`WaiterServed`, `AllClosed`, `CancelEnds`,
`EndReturns`, `ContextCloses`, `CloseReturns`, `CallsReturn`), which needs `ENABLED` and
fairness and is out of the prover's reach.

## 6. Not modelled, and the plan

Not modelled:

* What a conversion does with a value (`convertAssign`, the `Null` types, reflection):
  sequential functions of data without state. `DriverCall` and `Rows` have their
  outcomes.
* The formatting of queries and results (`dbFormat`, `stmtFormat`, `GetRow`,
  `GetColumns`, the split by `","` in `StmtExec`): characters of strings.
* The counters of `Stats`, which nothing reads, and the description of columns
  (`ColumnType`), which changes nothing.
* `drivers`, the map that `DBOpen` and `Register` write: a program fills it before it
  starts threads.
* The tests' own driver, and the drivers and databases themselves: external, they
  succeed or fail at any time.

Next:

* `Stmt` as a borrower of each of its connections: `Borrow` with one lease per
  connection.
* The safety half of the liveness properties, as theorems: what each waiting step
  needs, and who still has to take a step for it.
* The data of the wrapper's formatting as pure operators.
