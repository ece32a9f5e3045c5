------------------------------ MODULE MCDialogs ------------------------------
(* A terminal and a process as model values; the rest of the world is the  *)
(* automation API and the panes.                                           *)
EXTENDS Dialogs

CONSTANTS c1, p1
=============================================================================
