---------------------------- MODULE DurableSession ----------------------------
(***************************************************************************)
(* What the session file promises its users, with no files, threads or     *)
(* sequence numbers: the saved version of the session only ever catches up *)
(* with the running one, and a restart resumes from what was saved.        *)
(***************************************************************************)
EXTENDS Integers

VARIABLES
  session,    (* the version of the session that runs                      *)
  durable     (* the version a restart would bring back                    *)

vars == <<session, durable>>

Init == session = 0 /\ durable = 0

Edit ==
  /\ session' = session + 1
  /\ UNCHANGED durable

Save ==
  /\ durable' \in (durable + 1) .. session
  /\ UNCHANGED session

Restart ==
  /\ session' = durable
  /\ UNCHANGED durable

Next == Edit \/ Save \/ Restart

Spec == Init /\ [][Next]_vars
=============================================================================
