------------------------------ MODULE MCLifecycle ------------------------------
(* Two processes, two terminals, one request of each kind.               *)
EXTENDS Lifecycle

CONSTANTS s1, s2, t1, t2, run, wait
=============================================================================
