--------------------------------- MODULE Teams ---------------------------------
(***************************************************************************)
(* What a pane holds for as long as it lives: its place in a team, its     *)
(* role as an orchestrator and the folder that goes with it; and what its  *)
(* exit leaves behind (recents).                                           *)
(*                                                                         *)
(* Pane ids come from one counter and are never reused.  The close of a    *)
(* pane is asynchronous: kill_pane only kills the process, everything else *)
(* waits for the PtyExit event (PaneExit).                                 *)
(***************************************************************************)
EXTENDS Integers, Sequences, FiniteSets, Subsequences

CONSTANTS
  MaxPane,     (* bound: panes ever created                                *)
  Folder,      (* orchestrator folders                                     *)
  Session,     (* agent conversations                                      *)
  NoFolder, NoSession,
  MaxRecents   (* RECENT_ORCHESTRATORS                                     *)

ASSUME TeamsAssumption ==
  /\ MaxPane \in Nat /\ MaxRecents \in Nat
  /\ NoFolder \notin Folder /\ NoSession \notin Session

VARIABLES
  next,          (* the id counter                                         *)
  live,          (* panes with a runtime (rt.panes)                        *)
  teams,         (* state.teams: worker -> orchestrator, or None           *)
  orchAdded,     (* state.orch_added: members the CLI may remove           *)
  orchs,         (* state.orchestrators                                    *)
  dirs,          (* state.orch_dirs                                        *)
  sessions,      (* rt.agent_sessions                                      *)
  switching,     (* rt.switching: heads on their way out                   *)
  recents,       (* state.recent_orchestrators, latest first               *)
  known,         (* orchestrator folders on disk                           *)
  leaving,       (* a new image's dead leaves, to be closed before it      *)
                 (* serves anything                                        *)
  late           (* history: members that joined a head already on its way *)
                 (* out                                                    *)

vars == <<next, live, teams, orchAdded, orchs, dirs, sessions, switching,
          recents, known, leaving, late>>

Pane == 1 .. MaxPane
None == 0
Issued == 1 .. next - 1

Recent == [ident : Session \cup {NoSession}, dir : Folder \cup {NoFolder}, team : SUBSET Pane]

Init ==
  /\ next = 1
  /\ live = {}
  /\ teams = [p \in Pane |-> None]
  /\ orchAdded = {} /\ orchs = {}
  /\ dirs = [p \in Pane |-> NoFolder]
  /\ sessions = [p \in Pane |-> NoSession]
  /\ switching = {}
  /\ recents = <<>>
  /\ known = {} /\ leaving = {}
  /\ late = {}

Members(o) == {w \in Pane : teams[w] = o}

(* The event loop runs.                                                   *)
Serving == leaving = {}

teamVars == <<teams, orchAdded, late>>
orchVars == <<orchs, dirs, switching, recents, known>>

-----------------------------------------------------------------------------
(* New panes.                                                              *)

(* A pane gets its id when its leaf is created, and a runtime when the     *)
(* spawn succeeds.                                                         *)
NewPane(spawned) ==
  /\ Serving /\ next <= MaxPane
  /\ next' = next + 1
  /\ live' = IF spawned THEN live \cup {next} ELSE live
  /\ UNCHANGED leaving

(* A shell, or a profile's agent, which is marked before it spawns; also   *)
(* an `agent start` that fails to spawn.                                   *)
OpenPane(spawned, orchestrator) ==
  /\ NewPane(spawned)
  /\ orchs' = IF orchestrator THEN orchs \cup {next} ELSE orchs
  /\ UNCHANGED <<teamVars, dirs, switching, recents, known, sessions>>

(* `agent start --team o`, perhaps --orchestrator.                         *)
AgentStart(o, orchestrator) ==
  /\ NewPane(TRUE)
  /\ IF o \in live
     THEN /\ teams' = [teams EXCEPT ![next] = o]
          /\ orchAdded' = orchAdded \cup {next}
          /\ late' = IF o \in switching THEN late \cup {next} ELSE late
     ELSE UNCHANGED <<teams, orchAdded, late>>
  /\ orchs' = IF orchestrator THEN orchs \cup {next} ELSE orchs
  /\ UNCHANGED <<dirs, switching, recents, known, sessions>>

-----------------------------------------------------------------------------
(* Membership.                                                             *)

Join(w, o) ==
  /\ teams' = [teams EXCEPT ![w] = o]
  /\ late' = IF o \in switching THEN late \cup {w} ELSE late \ {w}

LeaveKeepsMark(w) ==
  /\ teams' = [teams EXCEPT ![w] = None]
  /\ late' = late \ {w}
  /\ UNCHANGED orchAdded
Leave(w) ==
  /\ teams' = [teams EXCEPT ![w] = None]
  /\ late' = late \ {w}
  /\ orchAdded' = orchAdded \ {w}

(* `team set`, the orchestrator's path.                                    *)
TeamSet(w, o) ==
  /\ Serving
  /\ w \in live /\ o \in live
  /\ Join(w, o)
  /\ orchAdded' = orchAdded \cup {w}
  /\ UNCHANGED <<next, live, leaving, orchVars, sessions>>

(* `team set` without an orchestrator: only members it owns.               *)
TeamUnset(w) ==
  /\ Serving
  /\ w \in live
  /\ teams[w] = None \/ w \in orchAdded
  /\ Leave(w)
  /\ UNCHANGED <<next, live, leaving, orchVars, sessions>>

(* The user's menu; its entries were made when it opened, so the chosen    *)
(* head may be gone by now.  (Bound: the worker still lives.)              *)
SetTeam(w, o) ==
  /\ Serving
  /\ w \in live /\ o \in Issued /\ w # o
  /\ Join(w, o)
  /\ orchAdded' = orchAdded \ {w}
  /\ UNCHANGED <<next, live, leaving, orchVars, sessions>>

(* The menu's "(clear)" and the panel's remove.                            *)
ClearTeam(w) ==
  /\ Serving
  /\ w \in Issued
  /\ Leave(w)
  /\ UNCHANGED <<next, live, leaving, orchVars, sessions>>

-----------------------------------------------------------------------------
(* Orchestrators.                                                          *)

(* start_orchestrator marks the new leaf before it spawns, and keeps the   *)
(* marks when the spawn fails.                                             *)
StartHead(f, spawned) ==
  /\ NewPane(spawned)
  /\ orchs' = orchs \cup {next}
  /\ dirs' = [dirs EXCEPT ![next] = f]

(* A fresh folder: the first orch-N that does not exist yet.               *)
StartOrchestrator(f, spawned) ==
  /\ f \notin known
  /\ StartHead(f, spawned)
  /\ known' = known \cup {f}
  /\ UNCHANGED <<teamVars, switching, recents, sessions>>

(* open_orchestrator_folder: the members come from the folder's latest     *)
(* recents record, those that live and have no team.  The menu lists the   *)
(* folders that were stopped when it opened.                               *)
RecordsOf(f) == {i \in DOMAIN recents : recents[i].dir = f}
RememberedTeam(f) ==
  IF RecordsOf(f) = {} THEN {}
  ELSE recents[CHOOSE i \in RecordsOf(f) : \A j \in RecordsOf(f) : i <= j].team
SurvivorsAnyTeam(f) == RememberedTeam(f) \cap live
Survivors(f) == {w \in RememberedTeam(f) \cap live : teams[w] = None}

OpenFolder(f, spawned) ==
  /\ f \in known
  /\ StartHead(f, spawned)
  /\ teams' = IF spawned
              THEN [w \in Pane |-> IF w \in Survivors(f) THEN next ELSE teams[w]]
              ELSE teams
  /\ UNCHANGED <<orchAdded, late, switching, recents, known, sessions>>

(* switch_orchestrator: a new head in the old one's folder takes the team  *)
(* over, then the old head is killed.  A failed spawn stops half-way.      *)
HandedOverNone(old) == {}
HandedOver(old) == Members(old)
Switch(old, spawned) ==
  /\ old \in orchs /\ dirs[old] # NoFolder
  /\ StartHead(dirs[old], spawned)
  /\ IF spawned
     THEN /\ teams' = [w \in Pane |-> IF w \in HandedOver(old) THEN next ELSE teams[w]]
          /\ late' = late \ HandedOver(old)
          /\ switching' = switching \cup {old}
     ELSE UNCHANGED <<teams, late, switching>>
  /\ UNCHANGED <<orchAdded, recents, known, sessions>>

(* The agent's hook reports the conversation it runs.  Only those of heads *)
(* are ever looked at here.                                                *)
ReportSession(p, s) ==
  /\ Serving
  /\ p \in live \cap orchs
  /\ sessions' = [sessions EXCEPT ![p] = s]
  /\ UNCHANGED <<next, live, leaving, teamVars, orchVars>>

-----------------------------------------------------------------------------
(* handle_pane_exit.                                                       *)

RecordOf(p) == [ident |-> sessions[p], dir |-> dirs[p], team |-> Members(p)]
Latest(s) == SubSeq(s, 1, IF Len(s) < MaxRecents THEN Len(s) ELSE MaxRecents)
RememberByFolder(rec) ==
  LET others == {i \in DOMAIN recents : rec.dir = NoFolder \/ recents[i].dir # rec.dir}
  IN Latest(<<rec>> \o EntriesAt(recents, others))
Remember(rec) ==
  LET others == {i \in DOMAIN recents :
                   /\ recents[i].ident # rec.ident
                   /\ rec.dir = NoFolder \/ recents[i].dir # rec.dir}
  IN Latest(<<rec>> \o EntriesAt(recents, others))

Unled(p) == {p} \cup Members(p)
TeamsAfterExit(p) == [w \in Pane |-> IF w \in Unled(p) THEN None ELSE teams[w]]

(* Marks live only as long as the membership itself.                       *)
MarksAfterExitOwn(p) == orchAdded \ {p}
MarksAfterExit(p) == {w \in orchAdded : TeamsAfterExit(p)[w] # None}

ExitOf(p) ==
  /\ recents' = IF p \in orchs /\ p \notin switching THEN Remember(RecordOf(p)) ELSE recents
  /\ switching' = switching \ {p}
  /\ teams' = TeamsAfterExit(p)
  /\ orchAdded' = MarksAfterExit(p)
  /\ late' = late \ Unled(p)
  /\ orchs' = orchs \ {p}
  /\ dirs' = [dirs EXCEPT ![p] = NoFolder]
  /\ sessions' = [sessions EXCEPT ![p] = NoSession]
  /\ UNCHANGED <<next, known>>

PaneExit(p) ==
  /\ Serving
  /\ p \in live
  /\ live' = live \ {p}
  /\ ExitOf(p)
  /\ UNCHANGED leaving

(* A live handoff carries AppState and the sessions; the switches under    *)
(* way are forgotten.  A pane may fail to be adopted (bound: one at a      *)
(* handoff).  Before it serves anything the new image closes every leaf    *)
(* without a runtime, which includes the heads whose spawn had failed.     *)
Handoff ==
  \E lost \in {{}} \cup {{p} : p \in live} :
    /\ Serving
    /\ live' = live \ lost
    /\ leaving' = lost \cup (orchs \ live)
    /\ switching' = {} /\ late' = {}
    /\ UNCHANGED <<next, teams, orchAdded, orchs, dirs, sessions, recents, known>>

CloseDead(p) ==
  /\ p \in leaving
  /\ leaving' = leaving \ {p}
  /\ ExitOf(p)
  /\ UNCHANGED live

Next ==
  \/ \E spawned, orchestrator \in BOOLEAN : OpenPane(spawned, orchestrator)
  \/ \E o \in Pane, orchestrator \in BOOLEAN : AgentStart(o, orchestrator)
  \/ \E w, o \in Pane : TeamSet(w, o)
  \/ \E w \in Pane : TeamUnset(w)
  \/ \E w, o \in Pane : SetTeam(w, o)
  \/ \E w \in Pane : ClearTeam(w)
  \/ \E f \in Folder, spawned \in BOOLEAN : StartOrchestrator(f, spawned)
  \/ \E f \in Folder, spawned \in BOOLEAN : OpenFolder(f, spawned)
  \/ \E old \in Pane, spawned \in BOOLEAN : Switch(old, spawned)
  \/ \E p \in Pane, s \in Session : ReportSession(p, s)
  \/ \E p \in Pane : PaneExit(p)
  \/ Handoff
  \/ \E p \in Pane : CloseDead(p)

Spec == Init /\ [][Next]_vars

-----------------------------------------------------------------------------
(* The tables name panes that were opened.                                 *)
TypeOK ==
  /\ next \in 1 .. MaxPane + 1
  /\ live \in SUBSET Issued
  /\ teams \in [Pane -> Pane \cup {None}]
  /\ orchAdded \in SUBSET Pane
  /\ orchs \in SUBSET Issued
  /\ dirs \in [Pane -> Folder \cup {NoFolder}]
  /\ sessions \in [Pane -> Session \cup {NoSession}]
  /\ switching \in SUBSET Issued
  /\ known \in SUBSET Folder
  /\ leaving \in SUBSET Issued
  /\ late \in SUBSET Pane

(* An ownership mark lasts only as long as the membership: a worker that   *)
(* leaves, or whose head goes, does not come back removable by the CLI.    *)
MarksFollowMembership == \A w \in orchAdded : teams[w] # None

(* The recents never list one conversation or one folder twice.            *)
RecentsUnique ==
  /\ recents \in Seq(Recent)
  /\ \A i, j \in DOMAIN recents :
       i < j => /\ recents[i].ident # recents[j].ident
                /\ recents[i].dir = NoFolder \/ recents[i].dir # recents[j].dir

(* Why TeamSurvivesSwitch holds: a head on its way out leads latecomers    *)
(* only.                                                                   *)
OnlyLateBehind == \A w \in Pane : teams[w] \in switching => w \in late

(* A switch keeps the team together: when the outgoing head finally exits, *)
(* it takes no member down but those that joined it after the switch.      *)
TeamSurvivesSwitch ==
  [][\A p \in switching : p \in live \ live' => \A w \in Members(p) \cap live' : w \in late]_vars

(* Continuing a stopped folder takes no worker away from another head.     *)
NoPoaching ==
  [][\A f \in Folder : OpenFolder(f, TRUE) =>
       \A w \in Pane : teams[w] # None => teams'[w] = teams[w]]_vars

(* What the comment above Req::TeamSet says: members the user assigned     *)
(* (unmarked ones) are off limits to the agent.                            *)
UserAssignedKept ==
  [][\A w, o \in Pane : TeamSet(w, o) \/ TeamUnset(w) =>
       teams[w] = None \/ w \in orchAdded]_vars
=============================================================================
