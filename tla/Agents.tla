-------------------------------- MODULE Agents --------------------------------
(***************************************************************************)
(* Which conversation each pane's agent is in.  The server learns it from  *)
(* the hook an agent runs when a session starts, from the session files of *)
(* agents that have no hook, and from its own snapshot; it forgets it when *)
(* the agent stays gone.  What the poll sees of a process, and when a hook *)
(* gets through, is up to the system.                                      *)
(*                                                                         *)
(* All panes are in one folder, which is where two of them can find the    *)
(* same session file.                                                      *)
(***************************************************************************)
EXTENDS Naturals, FiniteSets

CONSTANTS
  Pane,
  Hooked,         (* conversations of agents with a SessionStart hook      *)
  Filed,          (* conversations of agents whose sessions are files      *)
  None, Bare,     (* no agent; an agent in no known conversation           *)
  GonePolls,      (* polls without an agent that release its conversation  *)
  MaxProc         (* bound: agent processes ever started                   *)

ASSUME AgentsAssumption ==
  /\ GonePolls \in Nat \ {0} /\ MaxProc \in Nat
  /\ Hooked \cap Filed = {}
  /\ {None, Bare} \cap (Hooked \cup Filed) = {} /\ None # Bare

Convo == Hooked \cup Filed
Pid == 1 .. MaxProc

VARIABLES
  open,       (* panes that are open                                       *)
  runs,       (* pane -> the pid of the agent that runs in it, or 0        *)
  talk,       (* pid -> the conversation it is in, None before it started  *)
  hooks,      (* reports on their way: pane, pid, conversation             *)
  newest,     (* the session file written last, or None                    *)
  young,      (* panes whose agent appeared before it was                  *)
  agent,      (* p.agent: the kind of agent the poll saw, or None          *)
  tracked,    (* p.agent_pid, or 0                                         *)
  seen,       (* panes with p.agent_seen                                   *)
  gone,       (* p.agent_gone_polls                                        *)
  ident,      (* agent_sessions, None where it has no entry                *)
  saved       (* the snapshot: pane -> conversation, Bare or None          *)

world == <<runs, talk, newest>>
sight == <<agent, tracked, seen, gone, young>>
vars == <<open, world, sight, hooks, ident, saved>>

Kind(c) == IF c \in Hooked THEN "hooked" ELSE "filed"
Started == Cardinality({i \in Pid : talk[i] # None})

Init ==
  /\ open = Pane
  /\ runs = [p \in Pane |-> 0] /\ talk = [i \in Pid |-> None]
  /\ newest = None /\ hooks = {}
  /\ young = {} /\ seen = {}
  /\ agent = [p \in Pane |-> None] /\ tracked = [p \in Pane |-> 0]
  /\ gone = [p \in Pane |-> 0]
  /\ ident = [p \in Pane |-> None]
  /\ saved = [p \in Pane |-> None]

-----------------------------------------------------------------------------
(* Agents.  One that starts, or goes on with another conversation, runs    *)
(* its hook; one that is at work writes its session file.                  *)
Report(p, i, c) == [pane |-> p, pid |-> i, convo |-> c]
Announce(p, i, c) ==
  hooks' = IF c \in Hooked THEN hooks \cup {Report(p, i, c)} ELSE hooks

StartAgent(p, c) ==
  LET i == Started + 1
  IN /\ p \in open /\ runs[p] = 0 /\ i \in Pid
     /\ runs' = [runs EXCEPT ![p] = i] /\ talk' = [talk EXCEPT ![i] = c]
     /\ Announce(p, i, c)
     /\ UNCHANGED <<open, newest, sight, ident, saved>>

SwitchTalk(p, c) ==
  /\ runs[p] # 0 /\ Kind(talk[runs[p]]) = Kind(c)
  /\ talk' = [talk EXCEPT ![runs[p]] = c]
  /\ Announce(p, runs[p], c)
  /\ UNCHANGED <<open, runs, newest, sight, ident, saved>>

(* An agent started by an agent inherits the pane in its environment.      *)
NestedReports(p, c) ==
  LET i == Started + 1
  IN /\ runs[p] # 0 /\ i \in Pid /\ c \in Hooked
     /\ talk' = [talk EXCEPT ![i] = c]
     /\ Announce(p, i, c)
     /\ UNCHANGED <<open, runs, newest, sight, ident, saved>>

WriteFile(p) ==
  /\ runs[p] # 0 /\ talk[runs[p]] \in Filed
  /\ newest' = talk[runs[p]]
  /\ young' = {q \in open : agent[q] # None}
  /\ UNCHANGED <<open, runs, talk, hooks, agent, tracked, seen, gone, ident, saved>>

AgentExits(p) ==
  /\ runs[p] # 0
  /\ runs' = [runs EXCEPT ![p] = 0]
  /\ UNCHANGED <<open, talk, newest, hooks, sight, ident, saved>>

-----------------------------------------------------------------------------
(* stage_session: a pane whose agent has files and no conversation takes   *)
(* the newest one since the agent appeared, unless a pane has it; the      *)
(* panes are asked in no order, and the first takes it.                    *)
Finders(bound) ==
  IF newest \in {bound[p] : p \in open} THEN {}
  ELSE {p \in young : agent[p] = "filed" /\ bound[p] = None}
FoundByEach(bound) ==
  {[p \in Pane |-> IF p \in Finders(bound) THEN newest ELSE bound[p]]}
Found(bound) ==
  IF Finders(bound) = {} THEN {bound}
  ELSE {[bound EXCEPT ![p] = newest] : p \in Finders(bound)}

SaveSession(bound) ==
  /\ ident' \in Found(bound)
  /\ saved' = [p \in open |-> IF ident'[p] = None /\ agent[p] # None THEN Bare ELSE ident'[p]]

Autosave == SaveSession(ident) /\ UNCHANGED <<open, world, hooks, sight>>

(* Req::ReportAgentSession.  Only the agent the last poll saw may speak    *)
(* for its pane; if it saw none, anybody may.  Saved at once, so the       *)
(* snapshot has the conversation before the agent has one line in it.      *)
Speaks(r) == tracked[r.pane] \in {0, r.pid}
HookArrives(r) ==
  /\ r \in hooks /\ hooks' = hooks \ {r}
  /\ IF r.pane \in open /\ Speaks(r)
     THEN SaveSession([ident EXCEPT ![r.pane] = r.convo])
     ELSE UNCHANGED <<ident, saved>>
  /\ UNCHANGED <<open, world, sight>>

(* The hook gives up after three seconds without an answer.                *)
HookLost(r) ==
  /\ r \in hooks /\ hooks' = hooks \ {r}
  /\ UNCHANGED <<open, world, sight, ident, saved>>

(* poll_agent_status.  The scan finds the process in a pane, misses it, or *)
(* finds an agent's name in a title that some program has left there.      *)
Sights(p) == {None, "hooked", "filed"} \cup (IF runs[p] = 0 THEN {} ELSE {"process"})
Sightings ==
  {s \in [Pane -> {None, "hooked", "filed", "process"}] :
     \A p \in Pane : s[p] \in IF p \in open THEN Sights(p) ELSE {None}}
KindSeen(p, s) == IF s = "process" THEN Kind(talk[runs[p]]) ELSE s

GoneOnlyTracked(p, s) == s = None /\ tracked[p] # 0 /\ ident[p] # None
GoneAgain(p, s) == s = None /\ p \in seen /\ ident[p] # None
Released(p, s) == GoneAgain(p, s) /\ gone[p] + 1 >= GonePolls

(* An agent of another kind has appeared now: a session file written up to *)
(* five seconds before counts as its own.                                  *)
Appeared == {p \in open : agent'[p] \notin {agent[p], None}}
Poll ==
  \E s \in Sightings :
    /\ agent' = [p \in Pane |-> KindSeen(p, s[p])]
    /\ tracked' = [p \in Pane |-> IF s[p] = "process" THEN runs[p] ELSE 0]
    /\ seen' = seen \cup {p \in open : s[p] = "process"}
    /\ gone' = [p \in Pane |-> IF Released(p, s[p]) THEN GonePolls
                               ELSE IF GoneAgain(p, s[p]) THEN gone[p] + 1 ELSE 0]
    /\ ident' = [p \in Pane |-> IF Released(p, s[p]) THEN None ELSE ident[p]]
    /\ \E recent \in SUBSET (IF newest = None THEN {} ELSE Appeared) :
         young' = recent \cup {p \in young : agent'[p] = agent[p]}
    /\ UNCHANGED <<open, world, hooks, saved>>

(* handle_pane_exit.                                                       *)
PaneExit(p) ==
  /\ p \in open /\ open' = open \ {p}
  /\ runs' = [runs EXCEPT ![p] = 0]
  /\ agent' = [agent EXCEPT ![p] = None] /\ tracked' = [tracked EXCEPT ![p] = 0]
  /\ seen' = seen \ {p} /\ young' = young \ {p} /\ gone' = [gone EXCEPT ![p] = 0]
  /\ ident' = [ident EXCEPT ![p] = None]
  /\ UNCHANGED <<talk, newest, hooks, saved>>

-----------------------------------------------------------------------------
(* The next server.  What it sees of agents starts afresh.                 *)
Unseen ==
  /\ agent' = [p \in Pane |-> None] /\ tracked' = [p \in Pane |-> 0]
  /\ gone' = [p \in Pane |-> 0]
  /\ seen' = {} /\ young' = {}

(* build: after a crash or a shutdown, the panes of the snapshot, with the *)
(* conversation each of them is to resume.  Whether the resumed agent ever *)
(* comes up is seen later (StartAgent).                                    *)
SeededNever(c) == None
Seeded(c) == IF c \in Convo THEN c ELSE None
Restart ==
  /\ open' = DOMAIN saved
  /\ ident' = [p \in Pane |-> IF p \in DOMAIN saved THEN Seeded(saved[p]) ELSE None]
  /\ runs' = [p \in Pane |-> 0]
  /\ Unseen
  /\ UNCHANGED <<talk, newest, hooks, saved>>

(* A live handoff, which saves first: the agents run on.                   *)
Handoff ==
  /\ SaveSession(ident) /\ Unseen
  /\ UNCHANGED <<open, world, hooks>>

Next ==
  \/ \E p \in Pane, c \in Convo : StartAgent(p, c) \/ SwitchTalk(p, c) \/ NestedReports(p, c)
  \/ \E p \in Pane : WriteFile(p) \/ AgentExits(p) \/ PaneExit(p)
  \/ \E r \in hooks : HookArrives(r) \/ HookLost(r)
  \/ Autosave \/ Poll \/ Restart \/ Handoff

Spec == Init /\ [][Next]_vars
FairSpec == Spec /\ WF_vars(Poll)

-----------------------------------------------------------------------------
TypeOK ==
  /\ open \subseteq Pane /\ DOMAIN saved \subseteq Pane
  /\ runs \in [Pane -> Pid \cup {0}] /\ tracked \in [Pane -> Pid \cup {0}]
  /\ talk \in [Pid -> Convo \cup {None}]
  /\ hooks \subseteq [pane : Pane, pid : Pid, convo : Hooked]
  /\ newest \in Filed \cup {None}
  /\ agent \in [Pane -> {None, "hooked", "filed"}]
  /\ gone \in [Pane -> 0 .. GonePolls]
  /\ ident \in [Pane -> Convo \cup {None}]
  /\ \A p \in DOMAIN saved : saved[p] \in Convo \cup {Bare, None}

(* Two panes of one folder never both take the newest session file, however*)
(* saves, releases and restarts fall: resumed, they would write over one   *)
(* another.                                                                *)
FiledOnce ==
  \A p, q \in Pane : ident[p] \in Filed /\ ident[p] = ident[q] => p = q

(* A restore whose resume never came up keeps the conversation: the        *)
(* snapshot forgets one only with its pane, or after its agent was seen.   *)
Forgets(p) ==
  /\ p \in DOMAIN saved /\ saved[p] \in Convo
  /\ p \notin DOMAIN saved' \/ saved'[p] \notin Convo
OnlySeenForgotten == \A p \in Pane : Forgets(p) => p \notin open \/ p \in seen
Recoverable == [][OnlySeenForgotten]_vars

(* An agent that was seen and stays gone releases its conversation.        *)
StaysGone(p) == p \in open \cap seen /\ runs[p] = 0 /\ agent[p] = None
ReleasedInTheEnd == \A p \in Pane : <>[]StaysGone(p) => <>[](ident[p] = None)
=============================================================================
