----------------------------- MODULE MCPoolLease ------------------------------
(***************************************************************************)
(* The refinement of ConnLease by ConnPool, for TLC.                       *)
(***************************************************************************)
EXTENDS MCConnPool, PoolLease
==============================================================================
