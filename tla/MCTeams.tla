-------------------------------- MODULE MCTeams --------------------------------
(* Folders and a conversation as model values.                             *)
EXTENDS Teams

CONSTANTS f1, f2, s1
=============================================================================
