------------------------------- MODULE Lifecycle -------------------------------
(***************************************************************************)
(* Servers that start, race for one session's sockets, hand over to their  *)
(* own new image and stop; terminals that attach or start a server; CLIs   *)
(* whose requests outlive the server they were sent to.                    *)
(***************************************************************************)
EXTENDS Naturals, FiniteSets

CONSTANTS
  Proc,           (* process ids, each used once                           *)
  Nobody,
  Terminal,       (* `cdock` in a terminal                                 *)
  Act, Wait       (* requests of CLIs: any but wait-*, and wait-*          *)

ASSUME LifecycleAssumption ==
  /\ Nobody \notin Proc
  /\ Act \cap Wait = {}

Request == Act \cup Wait

VARIABLES
  pc,         (* where run_server of each process is                       *)
  lock,       (* holder of the flock on .sockets.lock                      *)
  path,       (* the process whose socket the session's path names         *)
  listening,  (* processes whose listener is open                          *)
  hfile,      (* the pid in handoff-<name>.json                            *)
  heirs,      (* processes whose image took its own handoff                *)
  running,    (* processes whose panes live                                *)
  st, at,     (* each request: its state, and the process it is waiting for*)
  effects,    (* how often a server acted on it                            *)
  term, termAt,    (* each terminal, and the process it is attached to     *)
  killed      (* a server was killed, or a handoff's exec failed           *)

servers == <<pc, lock, path, listening, hfile, heirs, running>>
clis == <<st, at, effects>>
terms == <<term, termAt>>
vars == <<servers, clis, terms, killed>>

Stage == {"unborn", "locking", "cleaning", "binding", "building", "serving", "leaving",
          "execing", "teardown", "gone"}
Alive(p) == pc[p] \notin {"unborn", "gone"}
HandingOff(p) == pc[p] \in {"leaving", "execing"} \/ (pc[p] = "locking" /\ p \in running)

(* connect: the path exists and whoever bound it still listens.            *)
Answers == path \in listening

Init ==
  /\ pc = [p \in Proc |-> "unborn"]
  /\ lock = Nobody /\ path = Nobody /\ listening = {} /\ hfile = Nobody
  /\ heirs = {} /\ running = {}
  /\ st = [r \in Request |-> "start"] /\ at = [r \in Request |-> Nobody]
  /\ effects = [r \in Request |-> 0]
  /\ term = [u \in Terminal |-> "start"] /\ termAt = [u \in Terminal |-> Nobody]
  /\ killed = FALSE

Goto(p, s) == pc' = [pc EXCEPT ![p] = s]

(* The lines to a process that goes away drop: requests in flight lose     *)
(* their reply; terminals read an error, or were told that it shuts down.  *)
Disconnect(p, then) ==
  /\ st' = [r \in Request |->
              IF at[r] = p THEN "dropped" ELSE st[r]]
  /\ at' = [r \in Request |-> IF at[r] = p THEN Nobody ELSE at[r]]
  /\ term' = [u \in Terminal |-> IF termAt[u] = p THEN then ELSE term[u]]
  /\ termAt' = [u \in Terminal |-> IF termAt[u] = p THEN Nobody ELSE termAt[u]]
  /\ UNCHANGED effects

(* The kernel closes what the process held.                                *)
Dies(p) ==
  /\ Goto(p, "gone")
  /\ lock' = IF lock = p THEN Nobody ELSE lock
  /\ listening' = listening \ {p}
  /\ running' = running \ {p}
  /\ Disconnect(p, "reconnecting")
  /\ UNCHANGED <<path, heirs>>

--------------------------------------------------------------------------------
(* run_server.                                                             *)
TakeLock(p) ==
  /\ pc[p] = "locking" /\ lock = Nobody
  /\ lock' = p
  /\ Goto(p, "cleaning")
  /\ UNCHANGED <<path, listening, hfile, heirs, running, clis, terms, killed>>

(* take_handoff: its own is taken; a live owner's is left alone; a dead    *)
(* owner's is removed.                                                     *)
HandoffLeftAny(p) == Nobody
HandoffLeft(p) == IF hfile \in Proc /\ hfile # p /\ Alive(hfile) THEN hfile ELSE Nobody

(* Under the lock: a socket nobody answers on is removed.                  *)
Clean(p) ==
  /\ pc[p] = "cleaning"
  /\ path' = IF Answers THEN path ELSE Nobody
  /\ heirs' = IF hfile = p THEN heirs \cup {p} ELSE heirs
  /\ hfile' = HandoffLeft(p)
  /\ Goto(p, "binding")
  /\ UNCHANGED <<lock, listening, running, clis, terms, killed>>

Bind(p) ==
  /\ pc[p] = "binding" /\ path = Nobody
  /\ path' = p
  /\ listening' = listening \cup {p}
  /\ lock' = Nobody
  /\ Goto(p, "building")
  /\ UNCHANGED <<hfile, heirs, running, clis, terms, killed>>

(* An heir tries ten times, removing a path nobody answers on.             *)
HeirRetries(p) ==
  /\ pc[p] = "binding" /\ p \in heirs /\ path # Nobody /\ ~Answers
  /\ path' = Nobody
  /\ UNCHANGED <<pc, lock, listening, hfile, heirs, running, clis, terms, killed>>

(* The path is taken: the process ends, and with an heir its panes.        *)
NeverGivesUp(p) == pc[p] = "binding" /\ p \notin heirs /\ path # Nobody
GivesUp(p) == pc[p] = "binding" /\ path # Nobody /\ (p \in heirs => Answers)

BindFails(p) ==
  /\ GivesUp(p)
  /\ Dies(p)
  /\ UNCHANGED <<hfile, killed>>

(* server::run builds the runtime: from the handoff, or by resuming the    *)
(* saved session.                                                          *)
Build(p) ==
  /\ pc[p] = "building"
  /\ running' = running \cup {p}
  /\ Goto(p, "serving")
  /\ UNCHANGED <<lock, path, listening, hfile, heirs, clis, terms, killed>>

(* The loop ends for good (a shutdown), or the build failed: the           *)
(* listeners are dropped, the panes die.  flush_writers gives the replies  *)
(* that were sent the time to leave.                                       *)
Flushed(p) == \A r \in Request : at[r] = p => st[r] # "replied"

Stop(p) ==
  /\ pc[p] \in {"building", "serving"} /\ Flushed(p)
  /\ listening' = listening \ {p}
  /\ running' = running \ {p}
  /\ Goto(p, "teardown")
  /\ Disconnect(p, IF pc[p] = "serving" THEN "ended" ELSE "reconnecting")
  /\ UNCHANGED <<lock, path, hfile, heirs, killed>>

(* Under the lock: the path goes only if nobody answers on it.             *)
UnlinkAlways(p) == Nobody
Unlink(p) == IF Answers THEN path ELSE Nobody

Teardown(p) ==
  /\ pc[p] = "teardown" /\ lock = Nobody
  /\ path' = Unlink(p)
  /\ Goto(p, "gone")
  /\ UNCHANGED <<lock, listening, hfile, heirs, running, clis, terms, killed>>

(* Req::Handoff: the state is written first, then acknowledged.  One       *)
(* update at a time: two at once would share the file.                     *)
Handoff(p) ==
  /\ pc[p] = "serving" /\ \A q \in Proc : ~HandingOff(q)
  /\ hfile' = p
  /\ heirs' = heirs \ {p}
  /\ Goto(p, "leaving")
  /\ UNCHANGED <<lock, path, listening, running, clis, terms, killed>>

(* The loop returns: its listeners and connections close, the panes live.  *)
Leave(p) ==
  /\ pc[p] = "leaving" /\ Flushed(p)
  /\ listening' = listening \ {p}
  /\ Goto(p, "execing")
  /\ Disconnect(p, "reconnecting")
  /\ UNCHANGED <<lock, path, hfile, heirs, running, killed>>

Exec(p) ==
  /\ pc[p] = "execing"
  /\ Goto(p, "locking")
  /\ UNCHANGED <<lock, path, listening, hfile, heirs, running, clis, terms, killed>>

ExecFails(p) ==
  /\ pc[p] = "execing"
  /\ hfile' = Nobody
  /\ Dies(p)
  /\ killed' = TRUE

Kill(p) ==
  /\ Alive(p)
  /\ Dies(p)
  /\ killed' = TRUE
  /\ UNCHANGED hfile

--------------------------------------------------------------------------------
(* attach_or_spawn, and the client's reconnect loop.                       *)
Attach(u) ==
  /\ term[u] \in {"start", "waiting", "reconnecting"} /\ Answers
  /\ term' = [term EXCEPT ![u] = "attached"]
  /\ termAt' = [termAt EXCEPT ![u] = path]
  /\ UNCHANGED <<servers, clis, killed>>

Spawn(u, p) ==
  /\ term[u] = "start" /\ ~Answers
  /\ pc[p] = "unborn"
  /\ Goto(p, "locking")
  /\ term' = [term EXCEPT ![u] = "waiting"]
  /\ UNCHANGED <<lock, path, listening, hfile, heirs, running, clis, termAt, killed>>

(* 15 s without a socket after a spawn, 10 s after a lost connection; or   *)
(* the user detaches.                                                      *)
TerminalEnds(u) ==
  /\ \/ term[u] \in {"waiting", "reconnecting"} /\ ~Answers
     \/ term[u] = "attached"
  /\ term' = [term EXCEPT ![u] = "ended"]
  /\ termAt' = [termAt EXCEPT ![u] = Nobody]
  /\ UNCHANGED <<servers, clis, killed>>

--------------------------------------------------------------------------------
(* request: connect, send, read the reply.                                 *)
Send(r) ==
  /\ st[r] = "start" /\ Answers
  /\ st' = [st EXCEPT ![r] = "sent"]
  /\ at' = [at EXCEPT ![r] = path]
  /\ UNCHANGED <<servers, effects, terms, killed>>

(* Refused for longer than the retries last: 2 s, or 10 s for a wait.      *)
Refused(r) ==
  /\ st[r] = "start" /\ ~Answers
  /\ st' = [st EXCEPT ![r] = "failed"]
  /\ UNCHANGED <<servers, at, effects, terms, killed>>

(* The loop handles the request, or answers the parked wait.               *)
Handle(r) ==
  /\ st[r] = "sent" /\ pc[at[r]] = "serving"
  /\ effects' = [effects EXCEPT ![r] = @ + 1]
  /\ st' = [st EXCEPT ![r] = "replied"]
  /\ UNCHANGED <<servers, at, terms, killed>>

ReadReply(r) ==
  /\ st[r] = "replied"
  /\ st' = [st EXCEPT ![r] = "ok"]
  /\ at' = [at EXCEPT ![r] = Nobody]
  /\ UNCHANGED <<servers, effects, terms, killed>>

(* A dropped line: a wait re-arms, anything else may have been acted on.   *)
RetriedAll(r) == "start"
AfterDrop(r) == IF r \in Wait THEN "start" ELSE "failed"

Dropped(r) ==
  /\ st[r] = "dropped"
  /\ st' = [st EXCEPT ![r] = AfterDrop(r)]
  /\ UNCHANGED <<servers, at, effects, terms, killed>>

Next ==
  \/ \E p \in Proc :
       \/ TakeLock(p) \/ Clean(p) \/ Bind(p) \/ HeirRetries(p) \/ BindFails(p) \/ Build(p)
       \/ Stop(p) \/ Teardown(p) \/ Handoff(p) \/ Leave(p) \/ Exec(p) \/ ExecFails(p)
       \/ Kill(p)
  \/ \E u \in Terminal : Attach(u) \/ TerminalEnds(u) \/ \E p \in Proc : Spawn(u, p)
  \/ \E r \in Request : Send(r) \/ Refused(r) \/ Handle(r) \/ ReadReply(r) \/ Dropped(r)

Spec == Init /\ [][Next]_vars

(* A process goes on by itself; the kernel queues the waiters of a flock.  *)
FairSpec ==
  /\ Spec
  /\ \A p \in Proc :
       /\ SF_vars(TakeLock(p)) /\ SF_vars(Teardown(p))
       /\ WF_vars(Clean(p) \/ Bind(p) \/ HeirRetries(p) \/ BindFails(p) \/ Build(p))

--------------------------------------------------------------------------------
(* The types; the lock is held by the process that cleans and binds.       *)
TypeOK ==
  /\ pc \in [Proc -> Stage]
  /\ lock \in Proc \cup {Nobody}
  /\ \A p \in Proc : lock = p <=> pc[p] \in {"cleaning", "binding"}
  /\ path \in Proc \cup {Nobody} /\ hfile \in Proc \cup {Nobody}
  /\ listening \subseteq {p \in Proc : pc[p] \in {"building", "serving", "leaving"}}
  /\ heirs \subseteq Proc /\ running \subseteq Proc
  /\ st \in [Request -> {"start", "sent", "replied", "ok", "failed", "dropped"}]
  /\ at \in [Request -> Proc \cup {Nobody}] /\ effects \in [Request -> Nat]
  /\ term \in [Terminal -> {"start", "waiting", "attached", "reconnecting", "ended"}]
  /\ termAt \in [Terminal -> Proc \cup {Nobody}]
  /\ killed \in BOOLEAN

(* A server that serves is the one its session's path leads to: no rival's *)
(* cleanup, no teardown and no heir takes the socket from under it, and    *)
(* so no two serve one session (main.rs:1754).                             *)
ServingIsReachable ==
  \A p \in Proc : pc[p] \in {"building", "serving"} => path = p /\ p \in listening

(* A handoff on its way to the new image is not deleted by a server that   *)
(* starts meanwhile (main.rs:1901).                                        *)
HandoffKept == (\E p \in Proc : HandingOff(p)) => hfile # Nobody

(* A request other than a wait is never acted on twice, and a CLI that     *)
(* reports success was acted on (api.rs:1554); short of a kill, neither is *)
(* a wait, although it re-arms on the new server.                          *)
ActedOnce ==
  \A r \in Request :
    /\ r \in Act \/ ~killed => effects[r] <= 1
    /\ st[r] = "ok" => effects[r] >= 1

(* Every launch ends: it serves, or gives the sockets up; nobody waits for *)
(* the lock forever.                                                       *)
LaunchEnds == \A p \in Proc : pc[p] = "locking" ~> pc[p] \in {"serving", "teardown", "gone"}

(* An update kills no pane: panes that are handed over are running when    *)
(* the new image is done starting (update.rs:4, main.rs:1782).             *)
NoPaneDies ==
  [][\A p \in Proc : p \in running /\ pc[p] \in {"cleaning", "binding"} /\ ~killed'
       => p \in running']_vars
=============================================================================
