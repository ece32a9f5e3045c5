---------------------------- MODULE MCTaskResults ----------------------------
(* A worker and waiting clients as model values.                            *)
EXTENDS TaskResults

CONSTANTS w1, c1, c2, c3
=============================================================================
