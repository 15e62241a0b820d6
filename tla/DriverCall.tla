------------------------------ MODULE DriverCall ------------------------------
(***************************************************************************)
(* One call of ExecContext, QueryContext or BeginTx, from the connection   *)
(* to the driver and back: the arguments are converted, by the driver's    *)
(* own checkers first, the query runs on the connection (the fast path) or *)
(* by a statement prepared for it, an old driver gets the context's end    *)
(* from the package, and ErrBadConn makes another attempt.  What a driver  *)
(* implements is chosen where the code asks for it.  Definitions whose     *)
(* names end in Fault are plausible bugs that only the mutant runs use.    *)
(***************************************************************************)
EXTENDS Integers, SequencesExt

CONSTANT MaxArgs  \* bound on the arguments and on a statement's placeholders

ASSUME MaxArgsAssumption == MaxArgs \in Nat

VARIABLES
  op,       \* exec, query, begin
  args,     \* plain, named, or with a name that is empty or not valid
  ctx,      \* live, ended
  attempt,  \* how many connections have been asked for
  pc,       \* of the call
  path,     \* stmt once the call has a statement, fast before
  offers,   \* the checkers an argument goes through on this path
  want,     \* NumInput, or -1
  slots,    \* nvargs
  filled,   \* how many slots have their argument
  taken,    \* how many arguments the loop has taken
  route,    \* the checkers the current argument has left
  conn,     \* none, held, released, kept (by Rows or Tx)
  made,     \* the statement or transaction of the driver: none, open, closed
  ran,      \* how often the driver has done what was asked
  err       \* nil, bad (ErrBadConn), other

argVars == <<offers, want, slots, filled, taken, route>>
callVars == <<op, args, ctx, attempt, pc, path, argVars, conn, made, ran, err>>

ArgKinds == {"plain", "named", "noname", "badname"}
Ops == {"exec", "query", "begin"}
Checkers == {"named", "column", "default"}
Is == {"raw", "value", "own", "nil"}
Slot == [name : 0..MaxArgs, val : 0..MaxArgs, is : Is]
EmptySlot == [name |-> 0, val |-> 0, is |-> "raw"]
MaxBadConnRetries == 2

TypeOK ==
  /\ op \in Ops /\ ctx \in {"live", "ended"} /\ attempt \in 0..MaxBadConnRetries + 1
  /\ args \in SeqOf(ArgKinds, MaxArgs)
  /\ pc \in {"conn", "prepare", "begin", "take", "check", "run", "end", "done"}
  /\ path \in {"fast", "stmt"}
  /\ offers \in SeqOf(Checkers, 3) /\ route \in SeqOf(Checkers, 3)
  /\ want \in -1..MaxArgs
  /\ slots \in SeqOf(Slot, MaxArgs)
  /\ filled \in 0..MaxArgs /\ taken \in 0..MaxArgs
  /\ conn \in {"none", "held", "released", "kept"} /\ made \in {"none", "open", "closed"}
  /\ ran \in 0..MaxBadConnRetries + 1 /\ err \in {"nil", "bad", "other"}

Init ==
  /\ op \in Ops
  /\ args \in SeqOf(ArgKinds, MaxArgs)
  /\ op = "begin" => args = <<>>
  /\ ctx = "live" /\ attempt = 0 /\ pc = "conn" /\ path = "fast"
  /\ offers = <<"default">> /\ want = -1 /\ slots = <<>> /\ filled = 0 /\ taken = 0
  /\ route = <<>>
  /\ conn = "none" /\ made = "none" /\ ran = 0 /\ err = "nil"

Goto(label) == pc' = label

\* The call's context ends, at any time.
Cancel ==
  /\ ctx = "live" /\ pc # "done"
  /\ ctx' = "ended"
  /\ UNCHANGED <<op, args, attempt, pc, path, argVars, conn, made, ran, err>>

\* Where a conversion starts.  Only a statement has a column converter and
\* a number of placeholders.
Convert(p) ==
  /\ \E named, column \in BOOLEAN, m \in -1..MaxArgs :
       /\ p = "fast" => ~column /\ m = -1
       /\ offers' = (IF named THEN <<"named">> ELSE <<>>)
                      \o (IF column THEN <<"column">> ELSE <<>>) \o <<"default">>
       /\ want' = m
  /\ slots' = [i \in 1..Len(args) |-> EmptySlot]
  /\ filled' = 0 /\ taken' = 0 /\ route' = <<>>
  /\ path' = p
  /\ Goto("take")

\* db.conn: the pool's own errors are there too.
GetConn ==
  /\ pc = "conn"
  /\ attempt' = attempt + 1
  /\ made' = "none"
  /\ \/ /\ conn' = "held" /\ err' = "nil"
        /\ IF op = "begin"
             THEN Goto("begin") /\ path' = "fast" /\ UNCHANGED argVars
             ELSE \/ Convert("fast")
                  \/ Goto("prepare") /\ path' = "fast" /\ UNCHANGED argVars
     \/ /\ conn' = "none" /\ err' \in {"bad", "other"}
        /\ Goto("end") /\ path' = "fast" /\ UNCHANGED argVars
  /\ UNCHANGED <<op, args, ctx, ran>>

Fail(e) == err' = e /\ Goto("end")

\* The next argument; a slot keeps the name it has from a removed argument.
Take ==
  /\ pc = "take" /\ taken < Len(args)
  /\ taken' = taken + 1
  /\ IF args[taken + 1] = "badname"
       THEN Fail("other") /\ UNCHANGED <<slots, route>>
       ELSE /\ slots' = [slots EXCEPT ![filled + 1] =
                  [name |-> CASE args[taken + 1] = "named"  -> taken + 1
                              [] args[taken + 1] = "noname" -> 0
                              [] OTHER -> @.name,
                   val  |-> taken + 1, is |-> "raw"]]
            /\ route' = offers
            /\ Goto("check") /\ UNCHANGED err
  /\ UNCHANGED <<op, args, ctx, attempt, path, offers, want, filled, conn, made, ran>>

\* The checker accepts what it has made of the value.
Accept(kind) ==
  /\ slots' = [slots EXCEPT ![filled + 1].is = kind]
  /\ filled' = filled + 1
  /\ Goto("take")
  /\ UNCHANGED <<route, err>>

DropFault ==
  /\ filled' = filled + 1
  /\ Goto("take")
  /\ UNCHANGED <<route, slots, err>>

\* ErrRemoveArgument.
Drop ==
  /\ slots' = Front(slots)
  /\ Goto("take")
  /\ UNCHANGED <<filled, route, err>>

\* ErrSkip: the next checker, and the last once more.
SkipTo(kind) ==
  /\ slots' = [slots EXCEPT ![filled + 1].is = kind]
  /\ route' = IF Len(route) > 1 THEN Tail(route) ELSE route
  /\ UNCHANGED <<filled, pc, err>>

\* A checker refuses.
Refuse == Fail("other") /\ UNCHANGED <<slots, filled, route>>

\* A column converter is not asked about an argument the statement does not
\* expect.  It and the default one ask the value itself (Valuer), which may
\* answer with any error; after ErrSkip what is left of the value, nil, is
\* accepted (a divergence: the driver gets NULL for a value that failed).
Check ==
  /\ pc = "check"
  /\ \/ Head(route) = "named" /\ (Accept("own") \/ SkipTo("raw") \/ Drop \/ Refuse)
     \/ Head(route) = "column" /\ want <= filled /\ Accept("raw")
     \/ Head(route) = "column" /\ want > filled
        /\ (Accept("value") \/ SkipTo("raw") \/ SkipTo("nil") \/ Drop \/ Refuse)
     \/ Head(route) = "default" /\ slots[filled + 1].is = "raw"
        /\ (Accept("value") \/ SkipTo("nil") \/ Drop \/ Refuse)
     \/ Head(route) = "default" /\ slots[filled + 1].is = "nil" /\ Accept("nil")
  /\ UNCHANGED <<op, args, ctx, attempt, path, offers, want, taken, conn, made, ran>>

\* The arguments are there; their number is checked after the removals.
Count ==
  /\ pc = "take" /\ taken = Len(args)
  /\ IF want # -1 /\ Len(slots) # want THEN Fail("other") ELSE Goto("run") /\ UNCHANGED err
  /\ UNCHANGED <<op, args, ctx, attempt, path, argVars, conn, made, ran>>

\* namedValueToValue and the look at the context, for a driver without the
\* interfaces that take a context.
OldDriverRefused == (\E i \in DOMAIN slots : slots[i].name # 0) \/ ctx = "ended"

\* What the driver answers.  ErrBadConn says that it has done nothing;
\* another error may come after it has.
Answer ==
  \/ err' = "nil" /\ ran' = ran + 1
  \/ err' = "bad" /\ ran' = ran
  \/ err' = "other" /\ ran' \in {ran, ran + 1}

\* The query runs.  A connection that answers ErrSkip wants a statement.
Run ==
  /\ pc = "run"
  /\ \/ Answer /\ Goto("end")
     \/ OldDriverRefused /\ Fail("other") /\ UNCHANGED ran
     \/ path = "fast" /\ Goto("prepare") /\ UNCHANGED <<ran, err>>
  /\ UNCHANGED <<op, args, ctx, attempt, path, argVars, conn, made>>

PrepareFault ==
  /\ pc = "prepare"
  /\ \/ made' = "open" /\ Convert("stmt") /\ UNCHANGED err
     \/ ctx = "ended" /\ made' = "open" /\ Fail("other") /\ UNCHANGED <<path, argVars>>
     \/ \E e \in {"bad", "other"} : Fail(e) /\ UNCHANGED <<path, argVars, made>>
  /\ UNCHANGED <<op, args, ctx, attempt, conn, ran>>

\* ctxDriverPrepare: the statement of an old driver is closed again if the
\* context has ended.
Prepare ==
  /\ pc = "prepare"
  /\ \/ made' = "open" /\ Convert("stmt") /\ UNCHANGED err
     \/ ctx = "ended" /\ made' = "closed" /\ Fail("other") /\ UNCHANGED <<path, argVars>>
     \/ \E e \in {"bad", "other"} : Fail(e) /\ UNCHANGED <<path, argVars, made>>
  /\ UNCHANGED <<op, args, ctx, attempt, conn, ran>>

\* ctxDriverBegin: an old driver's transaction is rolled back if the context
\* has ended, and it is not asked for what it cannot do.
Begin ==
  /\ pc = "begin"
  /\ \/ made' = "open" /\ ran' = ran + 1 /\ Goto("end") /\ UNCHANGED err
     \/ ctx = "ended" /\ made' = "closed" /\ Fail("other") /\ UNCHANGED ran
     \/ \E e \in {"bad", "other"} : Fail(e) /\ UNCHANGED <<made, ran>>
  /\ UNCHANGED <<op, args, ctx, attempt, path, argVars, conn>>

EndFault ==
  LET kept == err = "nil" /\ op # "exec" IN
  /\ pc = "end"
  /\ made' = IF path = "stmt" /\ made = "open" /\ ~kept THEN "closed" ELSE made
  /\ conn' = IF conn = "none" THEN conn ELSE IF kept THEN "kept" ELSE "released"
  /\ Goto(IF err # "nil" /\ attempt <= MaxBadConnRetries THEN "conn" ELSE "done")
  /\ UNCHANGED <<op, args, ctx, attempt, path, argVars, ran, err>>

\* Rows keep the connection and the statement, a Tx the connection;
\* otherwise the statement is closed and the connection released.  After
\* ErrBadConn comes another attempt, the last on a new connection.
End ==
  LET kept == err = "nil" /\ op # "exec" IN
  /\ pc = "end"
  /\ made' = IF path = "stmt" /\ made = "open" /\ ~kept THEN "closed" ELSE made
  /\ conn' = IF conn = "none" THEN conn ELSE IF kept THEN "kept" ELSE "released"
  /\ Goto(IF err = "bad" /\ attempt <= MaxBadConnRetries THEN "conn" ELSE "done")
  /\ UNCHANGED <<op, args, ctx, attempt, path, argVars, ran, err>>

Next ==
  Cancel \/ GetConn \/ Take \/ Check \/ Count \/ Run \/ Prepare \/ Begin \/ End

Spec == Init /\ [][Next]_callVars

------------------------------------------------------------------------------
KeptOut == {i \in 1..Len(args) : \A j \in DOMAIN slots : slots[j].val # i}

\* Each argument once and in its place, none that was not removed missing.
OrderKept ==
  /\ filled = Len(slots)
  /\ \A i, j \in DOMAIN slots : i < j => slots[i].val < slots[j].val
  /\ want # -1 => Len(slots) = want

\* A name is that of the argument, or of a removed one before it: nothing
\* clears the slot (a divergence; the argument then goes by a name that its
\* caller never gave it).
NamesOwn ==
  \A i \in DOMAIN slots :
    LET s == slots[i] IN
    /\ args[s.val] = "named" => s.name = s.val
    /\ s.name \notin {0, s.val} =>
         args[s.val] = "plain" /\ s.name \in KeptOut /\ s.name < s.val

\* A value is one that drivers know, unless the driver's own checker took it
\* or a column converter that cannot tell its placeholders waved it through.
ValuesConverted ==
  \A i \in DOMAIN slots :
    slots[i].is = "raw" => want = -1 /\ \E k \in DOMAIN offers : offers[k] = "column"

(* The driver gets the arguments of the call, in order, as many as its    *)
(* statement wants, under their own names and converted.                  *)
ArgsKept == pc = "run" => OrderKept /\ NamesOwn /\ ValuesConverted

(* However often the call is tried, and on both paths, the driver does    *)
(* what was asked at most once, once when the call succeeds and never     *)
(* when it gives up with ErrBadConn.                                      *)
RunsOnce ==
  /\ ran <= 1
  /\ pc = "done" /\ err = "nil" => ran = 1
  /\ pc = "done" /\ err = "bad" => ran = 0

(* A call that fails leaves nothing behind: its connection has gone back, *)
(* and no connection goes back with a statement or a transaction open on  *)
(* it.                                                                    *)
NothingLeft ==
  /\ conn = "released" => made # "open"
  /\ pc = "done" => conn = IF err = "nil" /\ op # "exec" THEN "kept"
                           ELSE IF conn = "none" THEN "none" ELSE "released"
==============================================================================
