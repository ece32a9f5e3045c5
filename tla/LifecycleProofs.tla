---------------------------- MODULE LifecycleProofs ----------------------------
(* The lives of servers over any number of processes, terminals and        *)
(* requests.  The argument rests on three facts.  The path names every     *)
(* process whose listener is open, so that at most one is.  The handoff    *)
(* file names every process that hands off, so that at most one does.  A   *)
(* request is at a process only while that process listens.                *)
EXTENDS Lifecycle, TLAPS

Open(p) == pc[p] \in {"building", "serving", "leaving"}

(* Who listens is who the path names.                                      *)
Reach ==
  \A p \in Proc :
    /\ p \in listening <=> Open(p)
    /\ Open(p) => path = p

(* Who hands off is who the handoff file names.                            *)
Named ==
  \A p \in Proc :
    /\ HandingOff(p) => hfile = p
    /\ pc[p] = "unborn" => p \notin running

(* A request waits for a process that listens.                             *)
Lines ==
  \A r \in Request :
    /\ at[r] # Nobody <=> st[r] \in {"sent", "replied"}
    /\ at[r] # Nobody => at[r] \in listening

(* How often a request was acted on, by how far it got.                    *)
Counted(r) ==
  /\ st[r] \in {"start", "sent"} => effects[r] = 0
  /\ st[r] \in {"replied", "ok"} => effects[r] = 1
  /\ st[r] \in {"dropped", "failed"} => effects[r] <= 1
  /\ st[r] = "dropped" /\ r \in Wait => effects[r] = 0
Counts ==
  \A r \in Request :
    /\ r \in Act \/ ~killed => Counted(r)
    /\ st[r] \in {"replied", "ok"} => effects[r] >= 1

IInv == TypeOK /\ Reach /\ Named /\ Lines /\ Counts

LEMMA InitIInv == Init => IInv
<1> SUFFICES ASSUME Init PROVE IInv
  OBVIOUS
<1> USE LifecycleAssumption DEF Init
<1>1. TypeOK
  BY DEF TypeOK, Stage, Request
<1>2. Reach /\ Named
  BY DEF Reach, Open, Named, HandingOff
<1>3. Lines
  BY DEF Lines
<1>4. Counts
  BY DEF Counts, Counted
<1>5. QED
  BY <1>1, <1>2, <1>3, <1>4 DEF IInv

-----------------------------------------------------------------------------
(* A launch: the lock, the cleanup under it, the bind, the build.          *)
LEMMA LaunchIInv ==
  ASSUME IInv, NEW p \in Proc,
         \/ TakeLock(p) \/ Clean(p) \/ Bind(p) \/ HeirRetries(p) \/ BindFails(p)
         \/ Build(p)
  PROVE  IInv'
<1> USE LifecycleAssumption
        DEF IInv, TypeOK, Reach, Open, Named, HandingOff, Lines, Counts, Counted,
            Request, Stage, Answers, Goto, clis, terms
<1>1. CASE TakeLock(p)
  BY <1>1 DEF TakeLock
<1>2. CASE Clean(p)
  BY <1>2 DEF Clean, HandoffLeft, Alive
<1>3. CASE Bind(p)
  BY <1>3 DEF Bind
<1>4. CASE HeirRetries(p)
  BY <1>4 DEF HeirRetries
<1>5. CASE BindFails(p)
  BY <1>5 DEF BindFails, GivesUp, Dies, Disconnect
<1>6. CASE Build(p)
  BY <1>6 DEF Build
<1>7. QED
  BY <1>1, <1>2, <1>3, <1>4, <1>5, <1>6

(* The end of a server, and its handoff to its own new image.              *)
LEMMA LeavingIInv ==
  ASSUME IInv, NEW p \in Proc,
         \/ Stop(p) \/ Teardown(p) \/ Handoff(p) \/ Leave(p) \/ Exec(p) \/ ExecFails(p)
         \/ Kill(p)
  PROVE  IInv'
<1> USE LifecycleAssumption
        DEF IInv, TypeOK, Reach, Open, Named, HandingOff, Lines, Counts, Counted,
            Request, Stage, Answers, Goto, clis, terms, Disconnect
<1>1. CASE Stop(p)
  BY <1>1 DEF Stop, Flushed
<1>2. CASE Teardown(p)
  BY <1>2 DEF Teardown, Unlink
<1>3. CASE Handoff(p)
  BY <1>3 DEF Handoff
<1>4. CASE Leave(p)
  BY <1>4 DEF Leave, Flushed
<1>5. CASE Exec(p)
  BY <1>5 DEF Exec
<1>6. CASE ExecFails(p)
  BY <1>6 DEF ExecFails, Dies
<1>7. CASE Kill(p)
  BY <1>7 DEF Kill, Alive, Dies
<1>8. QED
  BY <1>1, <1>2, <1>3, <1>4, <1>5, <1>6, <1>7

(* Terminals touch no server but the one they start.                       *)
LEMMA TerminalIInv ==
  ASSUME IInv, NEW u \in Terminal,
         Attach(u) \/ TerminalEnds(u) \/ \E p \in Proc : Spawn(u, p)
  PROVE  IInv'
<1> USE LifecycleAssumption
        DEF IInv, TypeOK, Reach, Open, Named, HandingOff, Lines, Counts, Counted,
            Request, Stage, Answers, Goto, servers, clis
<1>1. CASE Attach(u)
  BY <1>1 DEF Attach
<1>2. CASE TerminalEnds(u)
  BY <1>2 DEF TerminalEnds
<1>3. ASSUME NEW p \in Proc, Spawn(u, p) PROVE IInv'
  BY <1>3 DEF Spawn
<1>4. QED
  BY <1>1, <1>2, <1>3

(* Requests touch no server.                                               *)
LEMMA RequestIInv ==
  ASSUME IInv, NEW r \in Request,
         Send(r) \/ Refused(r) \/ Handle(r) \/ ReadReply(r) \/ Dropped(r)
  PROVE  IInv'
<1> USE LifecycleAssumption
        DEF IInv, TypeOK, Reach, Open, Named, HandingOff, Lines, Counts, Counted,
            Request, Stage, Answers, servers, terms
<1>1. CASE Send(r)
  BY <1>1 DEF Send
<1>2. CASE Refused(r)
  BY <1>2 DEF Refused
<1>3. CASE Handle(r)
  BY <1>3 DEF Handle
<1>4. CASE ReadReply(r)
  BY <1>4 DEF ReadReply
<1>5. CASE Dropped(r)
  BY <1>5 DEF Dropped, AfterDrop
<1>6. QED
  BY <1>1, <1>2, <1>3, <1>4, <1>5

LEMMA NextIInv == IInv /\ [Next]_vars => IInv'
<1> SUFFICES ASSUME IInv, [Next]_vars PROVE IInv'
  OBVIOUS
<1>1. CASE Next
  <2>1. ASSUME NEW p \in Proc,
               \/ TakeLock(p) \/ Clean(p) \/ Bind(p) \/ HeirRetries(p) \/ BindFails(p)
               \/ Build(p)
        PROVE  IInv'
    BY <2>1, LaunchIInv
  <2>2. ASSUME NEW p \in Proc,
               \/ Stop(p) \/ Teardown(p) \/ Handoff(p) \/ Leave(p) \/ Exec(p)
               \/ ExecFails(p) \/ Kill(p)
        PROVE  IInv'
    BY <2>2, LeavingIInv
  <2>3. ASSUME NEW u \in Terminal,
               Attach(u) \/ TerminalEnds(u) \/ \E p \in Proc : Spawn(u, p)
        PROVE  IInv'
    BY <2>3, TerminalIInv
  <2>4. ASSUME NEW r \in Request,
               Send(r) \/ Refused(r) \/ Handle(r) \/ ReadReply(r) \/ Dropped(r)
        PROVE  IInv'
    BY <2>4, RequestIInv
  <2>5. QED
    BY <1>1, <2>1, <2>2, <2>3, <2>4 DEF Next
<1>2. CASE UNCHANGED vars
  BY <1>2 DEF vars, servers, clis, terms, IInv, TypeOK, Reach, Open, Named, HandingOff,
              Lines, Counts, Counted
<1>3. QED
  BY <1>1, <1>2

-----------------------------------------------------------------------------
(* Every reachable state of the servers, requests and terminals is         *)
(* well-typed, and the flock is held by whoever cleans and binds.          *)
THEOREM TypeCorrect == Spec => []TypeOK
<1>1. IInv => TypeOK
  BY DEF IInv
<1>2. QED
  BY <1>1, InitIInv, NextIInv, PTL DEF Spec

(* Whatever rivals start, stop and crash, a server that serves is the one  *)
(* its session's socket path leads to.                                     *)
THEOREM ServerIsReachable == Spec => []ServingIsReachable
<1>1. IInv => ServingIsReachable
  BY DEF IInv, Reach, Open, ServingIsReachable
<1>2. QED
  BY <1>1, InitIInv, NextIInv, PTL DEF Spec

(* No server that starts deletes the handoff of another that is on its way *)
(* to its new image.                                                       *)
THEOREM HandoffSurvives == Spec => []HandoffKept
<1>1. IInv => HandoffKept
  BY LifecycleAssumption DEF IInv, Named, HandoffKept
<1>2. QED
  BY <1>1, InitIInv, NextIInv, PTL DEF Spec

(* A request is acted on at most once, and at least once when the CLI      *)
(* reports success; for a wait, as long as no server is killed.            *)
THEOREM RequestsActOnce == Spec => []ActedOnce
<1>1. IInv => ActedOnce
  <2> SUFFICES ASSUME IInv, NEW r \in Request
               PROVE  /\ r \in Act \/ ~killed => effects[r] <= 1
                      /\ st[r] = "ok" => effects[r] >= 1
    BY DEF ActedOnce
  <2>1. st[r] \in {"start", "sent", "replied", "ok", "failed", "dropped"}
    BY DEF IInv, TypeOK
  <2>2. effects[r] \in Nat
    BY DEF IInv, TypeOK
  <2>3. /\ r \in Act \/ ~killed => Counted(r)
        /\ st[r] \in {"replied", "ok"} => effects[r] >= 1
    BY DEF IInv, Counts
  <2>4. QED
    BY <2>1, <2>2, <2>3 DEF Counted
<1>2. QED
  BY <1>1, InitIInv, NextIInv, PTL DEF Spec
=============================================================================
