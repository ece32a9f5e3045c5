----------------------------- MODULE MCPersistence -----------------------------
(* Two panes' worth of work over three ids, a few edits and saves a life.  *)
EXTENDS Persistence, TLC

CONSTANTS a, b

Symmetry == Permutations({a, b})
=============================================================================
