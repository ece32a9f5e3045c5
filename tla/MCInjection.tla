----------------------------- MODULE MCInjection -----------------------------
(* One orchestrator with one worker, and one with two.                     *)
EXTENDS Injection

CONSTANTS orch, worker, other, m1

MCTeamOf == [w \in {worker} |-> orch]
MCTeamOfTwo == [w \in {worker, other} |-> orch]
=============================================================================
