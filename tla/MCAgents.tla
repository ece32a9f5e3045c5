------------------------------ MODULE MCAgents ------------------------------
(* Two panes, a conversation of each kind; two polls stand for six.        *)
EXTENDS Agents

CONSTANTS p1, p2, h1, f1
=============================================================================
