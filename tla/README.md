# comind-dock: specification and proofs

TLA+ modules of the server of comind-dock (`cdock`), TLC configurations that check them on
small instances, and TLAPS proofs of what matters most for every instance. Paths below are
relative to the crate, so `runtime/mod.rs` is `src/src/runtime/mod.rs` of the map.

To check a run: `tlc -config MCLocks.cfg MCLocks`. To check the proofs of a module:
`tlapm CoordinationProofs.tla`. `PROJECT.json` lists the runs, the mutants that show each property
can fail, the source lines of every definition, the hazards and the theorems.

## 1. The system

cdock is a terminal multiplexer for coding agents. One server process owns everything: the
panes (pseudo-terminals with a shell or an agent in them), the tree of spaces and tabs that
arranges them, the teams of agents, and the saved session. Terminals attach to it over a
socket and get frames; agents and scripts drive it through a second socket, the automation
API, with the `cdock` command line.

The server is one `tokio::select!` loop (`server.rs`). It runs one handler at a time:
input of a client, an event of a pane, a timer that fired, an API request, or one of its own
polls (workspaces every 2 s, agents every 500 ms, autosave every 5 s, a frame every 16 ms).
So a handler is atomic, and an action of a module is a whole handler. Concurrency is what
happens *between* handlers: several users, several agents and their CLIs, processes that
exit whenever they like, and messages that take two timers to be delivered. Three things run
beside the loop: the blocking threads that write snapshots, other server processes that want
the same sockets, and the CLIs and terminals at the other end of a line.

### Components

| Component | Code | State it keeps | Operations | Hard part |
|---|---|---|---|---|
| message injection | `runtime/mod.rs` 323–378, 385–417, 951–1066; `server.rs` 415–438, 642–686 | `inbox`, `inject_inflight`, `user_input_pending`, `user_grip` | `inject`, `flush_inbox`, `send_key`, SubmitEnter, VerifySubmit, `poll_user_grip` | a human and several automations share an input box the server cannot read |
| task results, stall watchdog | `api.rs` 441–493, 829–887, 1369–1430; `server.rs` 790–843 | `results`, `collected`, `stall_nudged`, waiters | `pane run`, `task done`, `task result`, `wait task-result`, `check_waiters`, `nudge_stalls` | results outlive panes, CLIs hang up, five marks decide who is nudged |
| team locks | `api.rs` 1073–1095 | `locks` | acquire, release | holders die; CLIs outlive their panes |
| teams and orchestrators | `runtime/mod.rs` 662–937, 1913–2037; `api.rs` 510–598, 986–1016 | `teams`, `orch_added`, `orchestrators`, `orch_dirs`, `switching`, `recent_orchestrators` | start, switch, stop, reopen, team edits of agents and of the user, exit | exits are asynchronous: the record of a head is cut when its process is gone, not when it was told to go |
| panes, tabs, spaces | `state/*` | `AppState.workspaces`, active indices, focus, zoom | split, close, move, swap, new tab or space, navigation | indices shift, emptied tabs vanish, every id kept elsewhere may die |
| client views, server loop | `server.rs`, `client.rs`, `proto.rs` | per client: scope, space, modal, last frame | attach, detach, input, render | each client's view is swapped in and out of the one session around its steps |
| session snapshots | `state/snapshot.rs`; `runtime/mod.rs` 1430–1571, 1668–1870; `main.rs` 1833–1857 | the session file, the screen tails, `NEXT` and `LAST` | stage, background and foreground save, purge, load, restore, replay | overlapping saves, power cuts at every step, ids that start over |
| lifecycle | `main.rs`, `update.rs`, `server.rs`, `client.rs` | two sockets and a lock beside them, the handoff file, which image serves | launch, bind, serve, stop, handoff, exec, teardown, reconnect | several processes race for one path, an exec may fail half-way |
| API transport | `api.rs` 1485–1683 | connections, requests in flight | request, reply, retry, re-armed wait | a dropped line must not repeat an effect |
| agents and conversations | `agents.rs`; `runtime/mod.rs` 1130–1257, 1449–1540; `api.rs` 582–598; `main.rs` 1565–1620 | `agent_sessions`, `agent_pid`, `agent_seen`, `agent_gone_polls` | hook report, scan, discovery in session files, release, save, restore | three sources that disagree and come late or never |
| keyboard and mouse | `input/*` | input mode, menus, prompts, a drag, the process monitor | keys, clicks, drops, answers | frames and menus are older than the state they act on |
| what a handoff carries | `runtime/mod.rs` 2162–2313 | the handed-over image | capture, rebuild | copied by hand, field by field |
| terminals and channels | `term/pty.rs`, `term/emulator.rs`, `runtime/event.rs` | reader and writer threads, bounded channels | read, write, resize, exit | two channels per pane, back-pressure both ways |
| agent status detection | `detect/mod.rs`, `plugin.rs` | status and dwell per pane | classify a screen | patterns over text |
| configuration, profiles | `config/*`, `profile.rs` | the parsed files | load, reload | none |
| rendering | `ui/*` | none | draw | none |
| git, platform, logging | `git.rs`, `platform/*`, `logging.rs` | none | system calls | none |

How they interact: terminals and the API change the session tree and type into panes.
The agent poll reads detection, drives the watchdog and the grips, and both call `inject`.
A pane exit (`handle_pane_exit`) is where everything meets: it takes the pane out of the
tree, its teams, locks, marks, queue and grips, and tells its orchestrator. A live handoff
saves the session, writes what it keeps to a file and executes the new image in the same
process; it copies some of these tables and forgets others, while terminals and CLIs whose
lines dropped come back and find either image, or neither.

### What makes each component correct

* injection: an accepted message is pasted once and in order; nudges never glue together;
  nothing is pasted over a draft the server knows of; a grip that ends is handed back;
  queues drain.
* results: a FIFO per pane through every way of collecting; finished workers are left alone,
  stalled ones are noticed, waiters are answered.
* locks: one live holder; a dead holder blocks nobody.
* teams: marks do not outlive memberships; a switch keeps the team; reopening a folder
  takes no worker from another head; the recents name nothing twice.
* the tree: what `check_invariants` asserts, no running process without a leaf, no focus
  behind a zoom, keystrokes that stay where they were going, scopes that hide nothing from
  the terminal that stands on it.
* snapshots: the file is a durable register of the session: never torn, never set back by a
  late writer, written when a foreground save returns; a restore puts every pane under its
  orchestrator again although all ids are new; purged screens stay purged.
* lifecycle and transport: whoever serves is reachable; every launch ends; the file of a
  handoff is there when the new image looks for it; a request acts at most once, and one that
  reports success did act.
* dialogs: an answer touches what was asked about and nothing else, the focus is on a live
  pane whatever was clicked, a drop belongs to the press that began it.
* agents: one session file goes to one pane; a conversation is forgotten only with its pane or when
  its agent was seen, and is forgotten when that agent stays gone.

## 2. The modules

| Module | Models | Run by | Proofs |
|---|---|---|---|
| `Injection` | message injection | `MCInjection` | `InjectionProofs` |
| `TaskResults` | task results, stall watchdog | `MCTaskResults` | `CoordinationProofs` |
| `Locks` | team locks | `MCLocks` | `CoordinationProofs` |
| `Teams` | teams and orchestrators | `MCTeams` | `TeamsProofs` |
| `Workspaces` | panes, tabs, spaces; client views | `MCWorkspaces` | `WorkspacesProofs` |
| `DurableSession` | what a saved session promises (abstract) | through `Persistence` | through `PersistenceProofs` |
| `Persistence` | session snapshots, screen tails, crashes | `MCPersistence` | `PersistenceProofs` |
| `Lifecycle` | sockets, launches, handoff, shutdown; requests and retries | `MCLifecycle` | `LifecycleProofs` |
| `Dialogs` | input modes, menus, prompts, drags, the process monitor | `MCDialogs` | `DialogsProofs` |
| `Agents` | which conversation a pane is in | `MCAgents` | `AgentsProofs` |
| `Subsequences` | `Vec::retain`, for `Teams` and `Persistence` | through them | through theirs |

Each module keeps the part of `handle_pane_exit`, of the agent poll and of the handoff that
touches its own tables; the loop runs each of those handlers as one step, and the tables of
two modules share only pane ids and liveness. `Persistence` has one server and its file;
`Lifecycle` has many servers and takes what they save as given.

### Injection

A pane is a *mailbox*: the agent's input box (the user's `draft` and the pasted `msgs`, which
the code cannot see and the model can), the server's queue, the in-flight mark, the two
pending timers of each paste, and the histories `accepted` and `pasted`. `Inject`, `Flush`,
`RunInto`, `EnterFired` and `VerifyFired` are the code's functions on one mailbox; the actions
pick a pane. A draft is "typed" while `user_input_pending` reflects it and "unseen" when it
does not: a bracketed paste goes straight to the PTY, and `send_key` clears the mark on any
Enter, a Shift+Enter or the release of an Enter included.

Every caller of `inject` (messages, wake-ups, nudges, notices, a run into an orchestrator) is
`Automate`. Whether an Enter is folded into the paste, and whether an already sent message is
still echoed in the last lines of the screen, are free choices; so is the moment a grip goes
stale. Assumed: the in-flight window of 1600 ms outlasts the Enter (150 ms) and the check
(1200 ms later) of the message that opened it; the second Enter is not folded, and an unsent
message shows in the last six lines; Esc and Ctrl-C abandon the box. An Enter held back by
the send guard changes nothing. Of `pane send-text`, `pane key` and `agent behavior` only an
Enter among the bytes is modelled.

### TaskResults

The k-th result of a worker is the number k, so that order is visible. `reported`, `taken`,
`wasted` and `inFlight` are histories. `check_waiters` removes with `swap_remove`, so which of
several waiters gets a result is open, as is who is late. Every worker belongs to a live
orchestrator; the watchdog is per worker.

### Locks

A pane's CLI may acquire, retry, release late and acquire twice, also after its pane is dead,
because nobody asks whether the caller lives. `believes` is the history of grants not yet
released. A handoff forgets the table; the history is forgotten with it, so `Mutex` is claimed
between handoffs only. Its definitions have names of their own (`LockInit`, `LockNext`), because
one proof module extends both this module and `TaskResults`.

### Teams

Membership, ownership marks (`orch_added`), folders, conversations, recents. The kill of a
pane is asynchronous: `Switch` marks the old head as switching, and everything else waits
for `PaneExit`. A failed spawn of a head leaves its marks (`StartHead`), which only a handoff
cleans up: the new image closes every dead leaf before it serves anything (`leaving`).
Modes, roles, notes and commands follow the same tables and are not kept.

### Workspaces

The session is a sequence of spaces with their tabs; the layout tree of a tab is the sequence
of its panes in order, on which split, graft, remove and swap are exact. Geometry is
abstracted: any other pane of the last frame may be the neighbour that a focus or swap key
finds. An operation of `AppState` is an operator from a session (spaces, active index, scope)
to a session; `Enter` and `UserDoes` are the swap of a client's view in and out (`enter`,
`leave`), `ApiDoes` is the generic API branch of the loop, which moves the terminals when the
session's active space changed, and `BackgroundDoes` is every other event.

Where the code tests one condition after the other (`close_pane`, `attach_scope`), the operator
is an IF after an IF: the arms of a CASE whose guards overlap may be taken in any order.

Abstractions: folders are disjoint, so `starts_with` is equality; connecting and Hello are one
step; frames are drawn one terminal at a time; numbers of panes and spaces that nothing refers
to any more are used again, and a remembered space that is gone becomes 0 (a counter that
never comes back gives the same behaviour). Not modelled: rectangles, resizing, names; starting
agents, worktrees and saved conversations as compound requests.

A shell that fails to start leaves its leaf where the code leaves it (new tab by mouse, scoped
attach, root space) and is rolled back where the code does that (splits from a menu, new spaces,
the API). A *key* does neither: the error of a split, new-tab, scrollback or command key, and of
a prompt that opens an editor, goes up through `?` from `dispatch` and `handle_input` to
`outcome?` in the server loop, which ends with every pane (`ServerEnds`, `up`). `split_focused`
rolls its leaf back first; nobody is left to see it.

A focus or swap key takes its neighbour from the rectangles of the last frame and does not look
where it is by now. `FocusNeighbor` and `SwapWithNeighbor` do what the code does with it,
whatever has left the screen since, and `strayed` (a history variable) records that one acted on
such a pane. Everything claimed of the tree is claimed until then: however old the frames are,
nothing else spoils it. A click, a toast or a menu goes through `focus_pane`, which validates.
The frame of a tab that shows one pane has no neighbours in it and is not kept.

### Persistence

A session is a list of panes in tree order (which identity runs there, its orchestrator,
whether it is on its alternate screen) and a version that every edit raises. `StageSession` is
the snapshot taken on the loop with the next number of `NEXT`; `Persist` begins when its thread
gets the lock and is skipped when `LAST` is newer; `SyncTmp`, `RenameTmp`, `WriteScreens` and
`WriteFails` are the steps of `write_atomic` and `persist_screens`, so that a kill or a power
cut (`Crash`) falls between any two. A power cut tears a renamed file that was never synced.
A foreground save stages, and the loop waits (`fg`) for its own number while older background
saves go on; then the detach, the shutdown or the handoff proceeds. `Boot` loads and restores,
with new ids from 1; `BuildFromHandoff` keeps the ids and closes the panes that died meanwhile.

`Durable == INSTANCE DurableSession WITH session <- ver, durable <- file.ver` is the
refinement: numbers, threads, temporary files and failures disappear, and what is left is a
register that only catches up with the session and that a restart resumes from.

Assumed: the disk keeps what was synced; one server at a time owns the file (that is
`Lifecycle`). Names, tasks and roles travel with a leaf and are not kept, nor is the limit on
the length of a tail.

### Lifecycle

A process walks through the stages of `run_server`: it takes the lock, cleans the paths, binds,
builds, serves, and leaves by a shutdown, a handoff or a kill. `path` is the process whose
socket the path names and `listening` the processes whose listener is open, which differ when
a process is gone and its path is left behind. A handoff writes its file, drops its lines, executes (or fails
to), and the new image (`heirs`) starts over at the lock. A terminal attaches, spawns a server
if none answers, and reconnects; a CLI sends, is refused and retries, and when its line drops
sends a `wait-*` again and reports an error for everything else.

Assumed: one handoff at a time, as the server that executes it is the one that serves; replies
queued before a handoff get out in the 120 ms `flush_writers` gives them; process ids are not
reused. How long anybody goes on trying is a free choice whenever it is refused.

### Dialogs

Per terminal an input mode with the id it carries, a drag, and the space it looks at. A mode is
entered by a key or a click and answered any number of events later, while other terminals, the
API and exits change the session. The session is kept only as far as a dialog sees it: the place
of each pane, the focus of each space; splits and moves within a tab are `Workspaces`, and every
shell starts. The focus and swap keys take any pane that was ever handed out, as it is
(`KeyFocuses`, `KeySwaps`); `astray` records that it was not on the tab any more, and a session
is not followed further from there: `FocusAlive` is claimed until then. `mine`
of a drag is a history: it is cleared by the next press that leaves the drag in place. The
monitor is a set of listed processes next to the set that lives.

Not kept: what a menu does to teams, behaviours, profiles, skills and settings; text in prompts;
hit testing (any pane, tab or space may be the one hit, gone ones included); selections.

### Agents

Processes (`runs`, `talk`), what is on its way (`hooks`), what the poll believes (`agent`,
`tracked`, `seen`, `gone`, `young`) and what the server binds and saves (`ident`, `saved`). A
hook arrives late, out of order or never; a nested agent reports for its parent's pane; a scan
sees or misses a process as it likes. All panes are in one folder, which is where two of them
can find the same session file. `MCAgents` sets the number of polls that release a conversation
to 2 where the code has 6: the count matters only for reaching it or being reset before it.

## 3. The runs

| Run | Instance | Result | What it shows |
|---|---|---|---|
| `injection` | an orchestrator, a worker, one text, 2 messages a pane | 879,904 states | order, no gluing, no paste over a known draft |
| `injection_team` | an orchestrator, two workers, handbacks only, 2 grips | 79,280 states, fair | one grip, handback always told, queues drain |
| `task_results` | one worker, three CLIs, 3 results | 8,768 states, fair | FIFO, quiet after done, waiters served, stalls noticed |
| `locks` | three panes, one lock | 574 states, fair | mutual exclusion, no wait for the dead |
| `teams` | three panes, one folder, one conversation, 2 recents | 395,247 states | marks, recents, switches, reopened folders |
| `workspaces` | one terminal, 3 panes, 2 spaces, one folder, failing shells, stale frames | 141,912 states | the tree is well-formed, focus visible, nothing running is lost |
| `views` | two terminals, 3 panes, 2 spaces, two folders | 37,608 states | keystrokes stay, jumps end in scope |
| `persistence` | two identities, 2 ids a life, 2 edits, 2 saves a life | 2,274,142 states | never torn, foreground saves land, restored as saved, purged for good; implements `DurableSession` |
| `lifecycle` | two processes, two terminals, a request and a wait | 177,978 states, fair | reachable, handoff file kept, effects once, launches end |
| `dialogs` | one terminal, 3 panes, 2 tabs, 2 spaces, one process | 609,932 states | focus alive, answers about what was named, drops of this press |
| `agents` | two panes, a hooked and a filed conversation, 2 processes | 158,741 states, fair | one file one pane, nothing unseen forgotten, released when gone |
| `dialogs_monitor` | as `dialogs`, fair poll | violation | the open monitor is not refreshed (section 5) |

Terminals and folders are interchangeable in `views`, which checks safety only and uses
symmetry; so does `persistence` in its identities, whose temporal property, a refinement, is a box over
steps and treats them alike. The type invariants of `Locks`, `Teams`, `Lifecycle` and `Agents`
are proved (section 4) and no run repeats them; that of `Workspaces` is a part of `Wellformed`.

Why the bounds are enough. Injection: two messages reach queueing, overtaking and gluing
(three would only repeat the second), one pending `pane run` timer meets them all; two grips
let one worker's grip end while the next starts. TaskResults: three results and three waiters
are the least number where waiters outnumber results, results outnumber waiters, and a removal
reorders the rest. Locks: a holder, a contender, and a third that comes between a death and a
retry. Teams: a head, its successor and a member; three is also where a reopened folder meets
a member that found another head. Workspaces: three panes give a tab of two beside a tab of
one, so that closing before, at and after the active entry all differ, and a tab that a drop
empties; the API and the background are the other actors of `workspaces`, and the tree has no
owner, so one terminal with its frames and its failing keys is enough there. In `views` two
terminals on two spaces of two folders see each other's changes; it follows no zoom and no frame
of a split tab (`Unzoomed`, `Unpainted`), because its two properties are about the space and the
focused pane of a terminal, and neither a zoom nor a frame chooses those. Persistence: two saves are a
late one and the one it must not undo; with two ids a boot gives an old id to another pane, and
a worker can come before its orchestrator; lives are not bounded, only what happens in each.
Lifecycle: the rival is the second process; a third would only wait behind it for the lock.
Dialogs: three panes are the one named, the one focused and the one that takes its place; two
tabs and two spaces let a tab move to another space under a menu. Other terminals are the API
and the background here, which do to the session what a terminal does. Agents: two panes and one
file are the collision, two processes the successor of an agent and a nested one.

Deadlock is checked in every run but `lifecycle`, which stops when every process is gone and
every terminal and request has ended.

`workspaces` and `views` follow no session past a key that has strayed (`Homeward`), `dialogs`
none past one that went astray: nothing is claimed there. The loop redraws 16 ms after a change,
so a person rarely presses a focus key in between, but a macro or a burst of input does, and
section 5 says what `MCWorkspacesStale` finds when the tree is claimed for that too.

### Fairness

* the agent poll, `check_waiters` and `nudge_stalls` run every 500 ms: weak fairness;
* a timer that was started fires: weak fairness of SubmitEnter, VerifySubmit and the end of
  the in-flight window;
* `lock acquire --wait` asks again every 2 s until it gives up: weak fairness of its retry;
* `WsPoll` runs every 2 s and the agent poll of `Agents` every 500 ms: weak fairness;
* a process in `run_server` goes on by itself: weak fairness of cleaning, binding and building;
  the kernel queues the waiters of a `flock`, so one that keeps asking gets it: strong fairness
  of `TakeLock` and `Teardown`;
* no user, agent or process has to do anything else. A deadline need never pass: the fair
  `check_waiters` is the one that finds nobody late.

## 4. The proofs

For every set of panes, workers, clients, locks, folders and every bound, under the named
assumptions on constants in each module (`TeamAssumption`, `BoundAssumption`,
`ReportAssumption`, `LocksAssumption`, `TeamsAssumption`, `PersistenceAssumption`,
`LifecycleAssumption`, `DialogAssumption`, `AgentsAssumption`, `ViewAssumption`):

| Theorem | Property | Why it needs more than the property |
|---|---|---|
| `InjectionProofs!TypeCorrect`, `DeliveredInOrder` | `TypeOK`, `InOrder` | inductive with the type of mailboxes |
| `InjectionProofs!NudgesNeverGlue` | `NoGlue` | `OnePasteAtATime`: an orchestrator's box is empty and no timer runs, or the in-flight mark is up and exactly the Enter or the check of one message is pending |
| `InjectionProofs!OneGripOnly` | `OneGrip` | only the poll creates grips, and it ends those of every other pane |
| `InjectionProofs!DraftNeverPastedOver` | `NoPasteOverTypedDraft` | `DraftTracked`: a typed draft has the mark up |
| `InjectionProofs!HandbackNeverLost` | `HandbackTold` | a grip ends at the poll, which injects into the orchestrator |
| `CoordinationProofs!ResultsTypeCorrect`, `ResultsAreFifo` | `TypeOK`, `Fifo` | taken ∘ queue are the first `reported` numbers; moving a prefix keeps it |
| `CoordinationProofs!DoneWorkersStayQuiet` | `DoneIsQuiet` | a worker that reported, has nothing new and nothing parked is in `collected` |
| `CoordinationProofs!LocksTypeCorrect`, `LocksExclude` | `LockTypeOK`, `Mutex` | `Backed`: the table agrees with every live believer |
| `TeamsProofs!MarksLastAsLongAsMembership` | `MarksFollowMembership` | with the types of the tables (`TypeCorrect`) |
| `TeamsProofs!SwitchKeepsTeam` | `TeamSurvivesSwitch` | `OnlyLateBehind`: a head on its way out leads latecomers only |
| `TeamsProofs!RecentsStayUnique` | `RecentsUnique` | what `retain` keeps is a subsequence without the conversation and the folder that go in front |
| `TeamsProofs!ContinuingPoachesNobody` | `NoPoaching` | one step: `OpenFolder` moves only survivors without a team |
| `WorkspacesProofs!TreeStaysWellformed` | `Wellformed` | `GoodTree`: ids of spaces differ too, and every operation keeps exactly the panes it should |
| `WorkspacesProofs!FocusStaysVisible` | `FocusVisible` | the zoom of a tab is nothing or its focus |
| `WorkspacesProofs!NoProcessIsLost` | `NoneLost` | the panes of the tree, counted through every operation; a process exits before its leaf goes |
| `WorkspacesProofs!TurnsLandInScope` | `LandsInScope` | `Seen`: the scope of a turn shows its active space; every jump ends in it, and the id filed for the terminal finds the same space again because ids differ |
| `WorkspacesProofs!KeysStayPut` | `KeystrokesStay` | `Calm`: a pane with the keys keeps them in the space of the same id, and no terminal remembers the id of a new space |
| `PersistenceProofs!SessionIsDurable` | `ImplementsDurable` | `Ordered`: snapshots are numbered as the session grew; `Writing`: who holds the lock writes the snapshot `LAST` names; so whatever may still land is no older than the file |
| `PersistenceProofs!FileAlwaysWhole`, `PurgedForGood` | `FileWhole`, `ScrubbedForGood` | `Whole`: what is renamed was synced; a staged snapshot with tails is older than the purge |
| `PersistenceProofs!ForegroundLands` | `ForegroundSaved` | `Newest`: the snapshot the loop waits for has the highest number, and no other is staged while it waits |
| `PersistenceProofs!TypeCorrect` | `TypeOK` | ids stay below the counter, and a pane's id is its own (`Numbered`); `LAST` is the number of the persist that holds the lock |
| `PersistenceProofs!BootRestoresSaved` | `RestoredAsSaved` | `Once`: leaves that were staged, written or saved name no pane twice, so a link to a saved id becomes a link to one new id |
| `LifecycleProofs!TypeCorrect`, `ServerIsReachable` | `TypeOK`, `ServingIsReachable` | `Reach`: the path names every process whose listener is open, so at most one is |
| `LifecycleProofs!HandoffSurvives` | `HandoffKept` | `Named`: the handoff file names whoever hands off |
| `LifecycleProofs!RequestsActOnce` | `ActedOnce` | `Lines` and `Counts`: a request is at a process that listens, and how far it got says how often it acted |
| `DialogsProofs!FocusOnLivePanes` | `FocusAlive` | `TreeOK`: a tab is in one space only, so no drop takes the focused pane out of its space unnoticed, and a neighbour still on the tab is in the space that is looked at |
| `DialogsProofs!TypeCorrect` | `TypeOK` | `ModesFit`, with counters that only grow: what a dialog names may be gone, but not its id |
| `DialogsProofs!AnswersOnlyNamed` | `OnlyNamed` | `ModesFit`: only a terminal's own key, click or reconnect changes its mode, and each of those kills, splits and moves only what the question names |
| `DialogsProofs!DropsAreOfThisPress` | `DragOfThisPress` | every press that keeps a drag keeps only those that cannot drop |
| `AgentsProofs!TypeCorrect`, `FiledAtMostOnce` | `TypeOK`, `FiledOnce` | `SavedOnce`: no two leaves of the snapshot have one file, so that a restart cannot bring two back |
| `AgentsProofs!ConversationsRecoverable` | `Recoverable` | `UnseenKept`: a pane whose agent was not seen is bound to what was saved |

Each proof module has the same shape: lemmas about the operators, `InitIInv`, one lemma per
action that does something, `NextIInv`, then the theorems. The action properties follow from
the invariant and one step.

In `SessionIsDurable` the initial states map to initial states and each step of `Persistence`
to an edit, a save, a restart or a stutter of `DurableSession`: only `RenameTmp` is a save, and
the invariant says that what it renames is newer than the file or the same.

`WorkspacesProofs` is the largest. Every operation of `AppState` is an operator on sessions, so
its lemmas say of each operator that it maps a good session to a good one, and which panes the
result holds (those it had, with one more, or one fewer). They are built from the bottom: a tab
that loses, takes or swaps panes; a space whose tab is replaced, removed or appended; a list of
spaces with one replaced, removed or inserted; then one lemma per action. The two
action properties ask more of the same operators: where a jump leaves the scope, and that an operation
which is not the terminal's own leaves each pane with the keys where it was. The invariant is
`strayed \/ IInv`: no constant and no schedule is assumed, frames are as old as they like, and all
five theorems hold until a focus or swap key has acted on a pane that left the screen. They cannot say
more, because from there the code loses what they claim: such a key puts the focus on a pane that
is not on the tab (section 5), and a split of that tab then finds no leaf to split and starts a
shell outside the tree. `IInv` covers the rest of the stale frames: the panes a frame remembers
that are still on the screen are in the tab, so a key that acts on one of them keeps the tree. In
the same way `DialogsProofs` carries `Tracked`, which is `astray \/ TreeOK`, and what is left of
the tree for `TypeOK`.

The library's search functions are minimums (`SelectInSeq`) and the library's filter is
recursive. `NatWellOrdered` gets the existence of a minimum from the well-foundedness of `<` on
the naturals, which needs no induction over data, and `Subsequences` replaces the filter:
an entry of the result is the one with so many kept entries up to it, so that its length and
order follow from facts about cardinality.

Assumptions that the proofs need and the code gives: there is a first pane id
(`MaxPane`, `MaxId` at least 1), and the server has finitely many terminals
(`IsFiniteSet(Client)`), so that there is an id nobody remembers.

Only model-checked: liveness (`QueueDrains`, `WaiterServed`, `StallNoticed`, `NoDeadWait`,
`LaunchEnds`, `ReleasedInTheEnd`), which the prover cannot do under fairness.

## 5. Where the code and its comments part

With a run, `dialogs_monitor`: `runtime/mod.rs:428` says of `refresh_monitor` "Call on poll while
the monitor overlay is open". The poll (`server.rs:638`) tests the input mode of the session,
which is that of the terminal whose turn it is and always Terminal between turns. An open monitor
shows the processes of the moment it was opened; one that ended stays, with its kill button.

Each of the following has a configuration beside the runs in which TLC finds the property
violated. They show limits that the code has or a comment denies, not a run that must pass:

| Configuration | Property | What the counterexample shows |
|---|---|---|
| `MCInjectionSplice` | `NeverSpliced` | `runtime/mod.rs:253` promises a message is "never spliced into the draft"; a draft made by a bracketed paste or a Shift+Enter is invisible to `input_busy` |
| `MCTaskResultsStall` | `CollectedMeansDone` | `runtime/mod.rs:242` says "no new assignment followed"; collecting an old result sets the mark while a newer task runs, and the watchdog ignores that worker |
| `MCTaskResultsHangUp` | `NoneWasted` | `api.rs:1370` drops waiters whose CLI hung up by a test that cannot see it: `spawn_conn` keeps the receiver while it waits |
| `MCTeamsUser` | `UserAssignedKept` | `api.rs:985` says user-assigned members are off limits to the agent; `team set` with an orchestrator takes them |
| `MCWorkspacesStale` | `Tree` | `Wellformed` claimed also of sessions that have strayed: `focus_neighbor` and `swap_with_neighbor` use rectangles of the last frame without the validation that `input/mouse.rs:319` explains |
| `MCPersistenceTails` | `OwnTail` | after a cold boot a pane on its alternate screen keeps the tail of whoever had its id, against `snapshot.rs:586` |
| `MCLifecycleRival` | `NoPaneDies` | a server launched between a handoff and its new image takes the lock first, the heir cannot bind, and its panes die with it (`update.rs:5`, `main.rs:1782`) |

Seen while modelling, without a configuration of their own:

* A scoped terminal whose last space closes stays on a space its scope hides, against
  `state/mod.rs:554`: the exit runs outside the terminal's turn, when the session has no scope.
  API focus and a new space in a folder outside the scope do the same.
* A live handoff drops queued messages ("never dropped", `runtime/mod.rs:253`), the lock table,
  `switching` and boot briefs.
* A head whose spawn failed keeps its marks, and its leaf cannot be closed, until a handoff;
  the same holds for the leaf of a tab or scoped space whose shell did not start.
* Two switches of the same head in a row leave two heads in one folder.
* A split, new-tab, scrollback or command key whose shell does not start ends the server with every
  pane (`input/mod.rs:532`, `server.rs:355`), as does a prompt that opens an editor; the menus
  catch the error, and the key for a new space rolls it back and goes on.
* A failed split from a menu moves the focus to the first pane of the tab, not back to where it was.
* Children of a nested worktree are not kept together behind their parent.
* `apply_pane_sizes` says the smallest client wins; `fold_pane_sizes` takes the most recent.
* `LAST` advances before the write, so a newer save that fails also drops an older one that waits.
* The copy a boot keeps of the session file is made before `load` has looked at it
  (`main.rs:1774`), also by a rival that then fails to bind.
* `session delete` checks that nobody serves and then deletes (`main.rs:655`); a launch fits between.
* One terminal that closes its monitor empties the overlay of another. `state/mod.rs:171` says
  protected rows are skipped, where `killable_rows` is every row.
* The team menu assigns ids that may be dead (`input/mouse.rs:1334`), a rename prompt can name a
  dead pane, and two terminals with the same list of conversations resume one of them twice.
* A click on a sidebar row in the middle of a search leaves the old highlight.
* Divider and selection drags survive a new press; the drags that drop something do not.
* An agent that starts within 500 ms after another exits has its hook taken for a nested one's
  (`api.rs:589`); a report does not reset the count of polls without an agent; a handoff forgets
  which agents were seen, so one that left just before is never released; agents known by their
  title only have no process and are never seen nor released.

## 6. The plan

Done, in this order: Injection (what the product is about), TaskResults, Locks, Teams, Workspaces,
Persistence with DurableSession, Lifecycle with the transport of requests, Dialogs, Agents.

Next:

1. `Layout`: the split tree itself, with the sequence of panes of `Workspaces` as its abstraction
   (`split`, `graft`, `remove`, `swap` on trees refine `Beside`, `Without`, `SwapIn`); the tiling of a
   rectangle by `layout_into` at widths of 16 bits, ratios, dividers, `neighbor` against a
   reference definition.
2. `PtyChannels`: reader threads, bounded channels, the loop and the writer thread; no deadlock,
   no output lost before an exit is handled except where the code drops it.
3. Agent status: dwell, report precedence and the limit nudges (`nudge_limits`).
4. Names, modes, roles and notes of team members; the messages queued at a handoff as part of one
   module with `Lifecycle`.

### Not modelled

Drawing, configuration files, git and system calls have output or input and no state of their
own that others depend on. The terminal emulator is a library. Pattern matching on screens is
text processing, whose answers the other modules take as free choices. The download and
replacement of the binary, the passing of file descriptors at a handoff, the event stream of
`cdock events`, hit testing and the encoding of keys for applications are system calls, formats
or geometry whose order does not matter to the properties above.
