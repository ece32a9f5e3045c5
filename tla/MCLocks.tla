-------------------------------- MODULE MCLocks --------------------------------
(* Three panes, one lock.                                                  *)
EXTENDS Locks

CONSTANTS p1, p2, p3, main
=============================================================================
