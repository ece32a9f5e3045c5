--------------------------------- MODULE Locks ---------------------------------
(***************************************************************************)
(* Named team locks (`lock acquire`, `lock release`): a merge queue shared *)
(* by panes that come and go.                                              *)
(***************************************************************************)
EXTENDS Integers

CONSTANTS
  Pane,        (* pane ids; an id is never reused                          *)
  LockName,
  Free         (* the holder of a lock nobody holds                        *)

ASSUME LocksAssumption == Free \notin Pane

VARIABLES
  fresh,      (* ids not handed out yet                                    *)
  panes,      (* panes with a runtime (rt.panes)                           *)
  locks,      (* rt.locks: name -> holder                                  *)
  believes,   (* <<p, n>>: p was granted n and has not released it         *)
  trying      (* <<p, n>>: a `lock acquire --wait` is between two tries    *)

lockVars == <<fresh, panes, locks, believes, trying>>

LockInit ==
  /\ panes \in SUBSET Pane
  /\ fresh = Pane \ panes
  /\ locks = [n \in LockName |-> Free]
  /\ believes = {} /\ trying = {}

Spawn(p) ==
  /\ p \in fresh
  /\ fresh' = fresh \ {p}
  /\ panes' = panes \cup {p}
  /\ UNCHANGED <<locks, believes, trying>>

(* Granted when the lock is free, already the caller's, or its holder is   *)
(* dead.  Nobody asks whether the caller's own pane lives: a CLI may       *)
(* outlive its pane.                                                       *)
GrantableIfFree(p, n) == locks[n] \in {p, Free}
Grantable(p, n) == locks[n] = p \/ locks[n] \notin panes

LockAcquire(p, n) ==
  /\ p \notin fresh
  /\ IF Grantable(p, n)
     THEN /\ locks' = [locks EXCEPT ![n] = p]
          /\ believes' = believes \cup {<<p, n>>}
          /\ trying' = trying \ {<<p, n>>}
     ELSE /\ trying' = trying \cup {<<p, n>>}
          /\ UNCHANGED <<locks, believes>>
  /\ UNCHANGED <<fresh, panes>>

(* --wait runs out, or the CLI is killed.                                  *)
GiveUp(p, n) ==
  /\ <<p, n>> \in trying
  /\ trying' = trying \ {<<p, n>>}
  /\ UNCHANGED <<fresh, panes, locks, believes>>

(* Only the holder's release frees the lock.                               *)
AfterReleaseByAny(p, n) == [locks EXCEPT ![n] = Free]
AfterRelease(p, n) == IF locks[n] = p THEN [locks EXCEPT ![n] = Free] ELSE locks
LockRelease(p, n) ==
  /\ p \notin fresh
  /\ locks' = AfterRelease(p, n)
  /\ believes' = believes \ {<<p, n>>}
  /\ UNCHANGED <<fresh, panes, trying>>

(* handle_pane_exit: auto-released on exit.                                *)
LocksAfterExit(p) == [n \in LockName |-> IF locks[n] = p THEN Free ELSE locks[n]]
ExitReleases(p) ==
  /\ p \in panes
  /\ panes' = panes \ {p}
  /\ locks' = LocksAfterExit(p)
  /\ UNCHANGED <<fresh, believes, trying>>

(* A live handoff forgets the locks, and with them this history.           *)
HandoffForgets ==
  /\ locks' = [n \in LockName |-> Free]
  /\ believes' = {}
  /\ UNCHANGED <<fresh, panes, trying>>

LockNext ==
  \/ \E p \in Pane : Spawn(p)
  \/ \E p \in Pane, n \in LockName : LockAcquire(p, n)
  \/ \E p \in Pane, n \in LockName : GiveUp(p, n)
  \/ \E p \in Pane, n \in LockName : LockRelease(p, n)
  \/ \E p \in Pane : ExitReleases(p)
  \/ HandoffForgets

(* A waiting CLI asks again every two seconds.                             *)
LockSpec == LockInit /\ [][LockNext]_lockVars
FairLockSpec ==
  LockSpec /\ \A p \in Pane, n \in LockName :
            WF_lockVars(<<p, n>> \in trying /\ LockAcquire(p, n))

-----------------------------------------------------------------------------
LockTypeOK ==
  /\ fresh \in SUBSET Pane /\ panes \in SUBSET (Pane \ fresh)
  /\ locks \in [LockName -> (Pane \ fresh) \cup {Free}]
  /\ believes \in SUBSET ((Pane \ fresh) \X LockName)
  /\ trying \in SUBSET ((Pane \ fresh) \X LockName)

(* At most one live pane believes it holds a lock, whatever exits, double  *)
(* acquires, late releases and steals from the dead come between.          *)
Mutex ==
  \A p, q \in panes, n \in LockName : <<p, n>> \in believes /\ <<q, n>> \in believes => p = q

(* Why Mutex holds: the server's table is right about live believers.      *)
Backed == \A p \in panes, n \in LockName : <<p, n>> \in believes => locks[n] = p

(* A lock does not outlive its holder: once the holder is dead, nobody     *)
(* waits for that lock forever.                                            *)
NoDeadWait ==
  \A p \in Pane, n \in LockName :
    (<<p, n>> \in trying /\ locks[n] \notin panes) ~>
      (<<p, n>> \notin trying \/ locks[n] \in panes)
=============================================================================
