----------------------------- MODULE MCWorkspaces -----------------------------
(* Terminals and folders as model values; terminals are interchangeable, and *)
(* so are folders.                                                           *)
EXTENDS Workspaces, TLC

CONSTANTS c1, c2, f1, f2

(* Bound: no session is followed past a key that strayed.                    *)
Homeward == ~strayed

(* Bound, where two terminals and two folders leave no room for more: no     *)
(* session is followed past a zoom, or past the frame of a split tab, which  *)
(* only the focus and swap keys look at.                                     *)
Unzoomed == \A i \in DOMAIN spaces : \A t \in ToSet(spaces[i].tabs) : t.zoom = 0
Unpainted == \A c \in Client : views[c].frame = {}

Symmetry == Permutations(Client) \cup Permutations(Folder)
=============================================================================
