-------------------------------- MODULE MCRows ---------------------------------
(* Instances of Rows for TLC: small results, as the row counts of their sets. *)
EXTENDS Rows

All == {"loop", "row", "crows"}
CRows == {"crows"}
OneSet == {<<n>> : n \in 0..3}
AnySets == OneSet \cup {<<m, n>> : m, n \in 0..2}
==============================================================================
