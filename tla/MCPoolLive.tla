------------------------------ MODULE MCPoolLive ------------------------------
(***************************************************************************)
(* ConnPool with a finite workload, for the liveness runs: the clients     *)
(* make at most MaxCalls calls between them.  A connection that is put     *)
(* back goes to any of the waiting requests, so without this bound one of  *)
(* them could be passed over for ever by the calls of the others.          *)
(***************************************************************************)
EXTENDS ConnPool

CONSTANT MaxCalls

VARIABLE calls

liveVars == <<vars, calls>>

LiveInit == Init /\ calls = 0

LiveNext ==
  /\ Next
  /\ calls' = calls + Cardinality({p \in Client : pc[p] = "idle" /\ pc'[p] = "conn"})
  /\ calls' <= MaxCalls

LiveSpec == LiveInit /\ [][LiveNext]_liveVars /\ Fairness
==============================================================================
