-------------------------------- MODULE MCStmt ---------------------------------
(* Instances of Stmt for TLC: clients and connections are interchangeable. *)
EXTENDS Stmt, TLC

Symmetric == Permutations(Client) \cup Permutations(Conn)
==============================================================================
