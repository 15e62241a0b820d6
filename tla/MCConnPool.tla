------------------------------ MODULE MCConnPool ------------------------------
(***************************************************************************)
(* ConnPool for TLC: symmetry sets, and a bound of the search.  Every      *)
(* client may be swapped with one whose context is as cancellable as its   *)
(* own.                                                                    *)
(***************************************************************************)
EXTENDS ConnPool, TLC

Symmetry == Permutations(Conn) \cup Permutations(CtxClient)
            \cup Permutations(Client \ CtxClient)

\* A pool without a limit is explored with connections that do not
\* expire, and no further than the connections there are.
UnlimitedStays ==
  maxOpen = 0 => maxLifetime = 0 /\ maxIdleTime = 0 /\ numOpen <= Cardinality(Conn)
==============================================================================
