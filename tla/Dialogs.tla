------------------------------- MODULE Dialogs -------------------------------
(***************************************************************************)
(* The keyboard and the mouse: a terminal's input mode, the menus, prompts *)
(* and questions it can be in, a drag held across events, and the process  *)
(* monitor.  All of it waits for the user while panes die, tabs move and   *)
(* other terminals and the automation API go on: what a dialog names may   *)
(* be gone when it is answered.                                            *)
(*                                                                         *)
(* The session is kept as far as a dialog can tell it apart: where every   *)
(* pane is, which pane a space has its focus on, which space a terminal    *)
(* looks at (Workspaces has the rest).  Shells start; what a menu does to  *)
(* teams, behaviours, profiles, skills and settings is not kept here.      *)
(*                                                                         *)
(* The focus and swap keys take a pane of the last frame as it is, even if *)
(* it exited or moved since.  `astray` records that, and a session is not  *)
(* followed any further from there.                                        *)
(***************************************************************************)
EXTENDS Integers, FiniteSets, Functions

CONSTANTS
  Client,        (* attached terminals                                     *)
  Pid,           (* process ids the monitor may list                       *)
  MaxPane,       (* bound: panes ever opened                               *)
  MaxTab,        (* bound: tabs ever opened                                *)
  MaxSpace       (* bound: spaces ever opened                              *)

ASSUME DialogAssumption ==
  /\ MaxPane \in Nat \ {0} /\ MaxTab \in Nat \ {0} /\ MaxSpace \in Nat \ {0}
  /\ Client # {}

VARIABLES
  place,      (* pane -> its tab and space                                 *)
  focus,      (* space -> the focused pane of its active tab               *)
  eye,        (* client -> the space it looks at                           *)
  ids,        (* the last pane, tab and space id handed out                *)
  dying,      (* panes whose process was killed, their exit to come        *)
  mode,       (* client -> its input mode and the id that mode carries     *)
  drag,       (* client -> the drag it holds                               *)
  monitor,    (* rt.monitor: {} while closed, else the set of pids listed  *)
  ours,       (* the session's processes while there is a snapshot         *)
  astray      (* history: a focus or swap key has acted on a pane that     *)
              (* had left the tab                                          *)

vars == <<place, focus, eye, ids, dying, mode, drag, monitor, ours, astray>>
tree == <<place, focus, eye, ids, dying>>
procs == <<monitor, ours>>

Issued == 1 .. ids.pane
Panes == DOMAIN place
TabsOpen == {place[p].tab : p \in Panes}
SpacesOpen == DOMAIN focus
OfTab(t) == {p \in Panes : place[p].tab = t}
OfSpace(s) == {p \in Panes : place[p].space = s}
Focused(c) == focus[eye[c]]
ActiveTab(c) == place[Focused(c)].tab

(* Input modes.  A menu captures the mouse, and any key closes it; the     *)
(* modes of Through leave the mouse to what is underneath.  PaneMode,      *)
(* TabMode and SpaceMode carry the id they were opened for, and "process"  *)
(* a pid; an id of 0 stands for none.                                      *)
PaneMode == {"pane_menu", "agent_menu", "agent_picker", "pane_picker", "switch_menu",
             "confirm_close", "rename_pane", "switch_prompt"}
TabMode == {"tab_menu", "rename_tab"}
SpaceMode == {"space_menu", "worktree_picker", "space_picker", "rename_space", "worktree_branch"}
Menu == {"pane_menu", "agent_menu", "agent_picker", "pane_picker", "switch_menu", "tab_menu",
         "space_menu", "worktree_picker", "space_picker", "app_menu", "exit_menu", "picker"}
Prompt == {"rename_pane", "switch_prompt", "rename_tab", "rename_space", "worktree_branch", "prompt"}
Overlay == {"monitor", "process"}
Question == Menu \cup Prompt \cup {"confirm_close"}
Plain == {"terminal", "prefix", "resize", "help", "search", "search_nav", "app_menu", "exit_menu",
          "picker", "prompt", "monitor"}
Through == {"terminal", "prefix", "resize", "search", "search_nav", "confirm_close"} \cup Prompt

Mode(k, i) == [kind |-> k, on |-> i]
Terminal == Mode("terminal", 0)
In(c, kinds) == mode[c].kind \in kinds
Opens(c, k, i) == mode' = [mode EXCEPT ![c] = Mode(k, i)]
Closes(c) == mode' = [mode EXCEPT ![c] = Terminal]

(* A drag, what it holds, where it would drop, and (history) that no       *)
(* button was pressed again since it was armed.                            *)
Hover(at, i) == [at |-> at, id |-> i]
Nowhere == Hover("nowhere", 0)
Drag(k, i) == [kind |-> k, on |-> i, hover |-> Nowhere, mine |-> TRUE]
NoDrag == [kind |-> "none", on |-> 0, hover |-> Nowhere, mine |-> TRUE]
Drops == {"tab", "pane"}

Init ==
  /\ place = [p \in {1} |-> [tab |-> 1, space |-> 1]] /\ focus = [s \in {1} |-> 1]
  /\ eye = [c \in Client |-> 1]
  /\ ids = [pane |-> 1, tab |-> 1, space |-> 1]
  /\ dying = {}
  /\ mode = [c \in Client |-> Terminal] /\ drag = [c \in Client |-> NoDrag]
  /\ monitor = {} /\ ours = {}
  /\ astray = FALSE

-----------------------------------------------------------------------------
(* What input does to the session.                                         *)

NewPane == ids.pane + 1
And(f, x, v) == [y \in DOMAIN f \cup {x} |-> IF y = x THEN v ELSE f[y]]
Put(p, t, s) == And(place, p, [tab |-> t, space |-> s])

(* A pane opened beside p, which keeps the split where p is.               *)
OpenBeside(p) ==
  /\ ids.pane < MaxPane
  /\ ids' = [ids EXCEPT !.pane = NewPane]
  /\ place' = Put(NewPane, place[p].tab, place[p].space)

(* focus_pane: a pane that is gone is not gone to.                         *)
GoToRaw(c, p) ==
  /\ focus' = IF p \in Panes THEN [focus EXCEPT ![place[p].space] = p]
              ELSE [focus EXCEPT ![eye[c]] = p]
  /\ eye' = [eye EXCEPT ![c] = IF p \in Panes THEN place[p].space ELSE @]
GoTo(c, p) ==
  IF p \in Panes
  THEN focus' = [focus EXCEPT ![place[p].space] = p] /\ eye' = [eye EXCEPT ![c] = place[p].space]
  ELSE UNCHANGED <<focus, eye>>

(* The user splits p, and is in the new pane.                              *)
Split(c, p) ==
  /\ OpenBeside(p)
  /\ focus' = [focus EXCEPT ![place[p].space] = NewPane]
  /\ eye' = [eye EXCEPT ![c] = place[p].space]
  /\ UNCHANGED dying

(* new_tab_in, and the user goes there.                                    *)
OpenTabIn(c, s) ==
  /\ ids.pane < MaxPane /\ ids.tab < MaxTab
  /\ ids' = [ids EXCEPT !.pane = NewPane, !.tab = @ + 1]
  /\ place' = Put(NewPane, ids.tab + 1, s)
  /\ focus' = [focus EXCEPT ![s] = NewPane]
  /\ eye' = [eye EXCEPT ![c] = s]
  /\ UNCHANGED dying
OpenTab(c) == OpenTabIn(c, eye[c])

(* new_workspace, and the user goes there.                                 *)
OpenSpace(c) ==
  /\ ids.pane < MaxPane /\ ids.tab < MaxTab /\ ids.space < MaxSpace
  /\ ids' = [pane |-> NewPane, tab |-> ids.tab + 1, space |-> ids.space + 1]
  /\ place' = Put(NewPane, ids.tab + 1, ids.space + 1)
  /\ focus' = And(focus, ids.space + 1, NewPane)
  /\ eye' = [eye EXCEPT ![c] = ids.space + 1]
  /\ UNCHANGED dying

(* kill_pane of each: a pane that is gone is not killed.                   *)
Kill(ps) ==
  /\ dying' = dying \cup (ps \cap Panes)
  /\ UNCHANGED <<place, focus, eye, ids>>

OpensTabOrSpace(c) == (\E s \in SpacesOpen : OpenTabIn(c, s)) \/ OpenSpace(c)

(* A head's successor opens beside it, and it is killed.                   *)
Switch(p) ==
  /\ p \in Panes /\ OpenBeside(p)
  /\ dying' = dying \cup {p}
  /\ UNCHANGED <<focus, eye>>

-----------------------------------------------------------------------------
(* Keys.                                                                   *)

(* Esc gives up a drag of a tab or a pane before it means anything else.   *)
EscDrag(c) ==
  /\ drag[c].kind \in Drops
  /\ drag' = [drag EXCEPT ![c] = NoDrag]
  /\ UNCHANGED <<tree, mode, procs>>

PrefixKey(c) ==
  /\ In(c, {"terminal"})
  /\ Opens(c, "prefix", 0)
  /\ UNCHANGED <<tree, drag, procs>>

(* A bound key, direct or after the prefix; any other chord is swallowed.  *)
Bound(c) == In(c, {"terminal", "prefix"}) /\ UNCHANGED <<drag, procs>>

KeyOpens(c) ==
  /\ Bound(c)
  /\ \E m \in {Terminal, Mode("resize", 0), Mode("help", 0), Mode("search", 0), Mode("prompt", 0),
               Mode("confirm_close", Focused(c)), Mode("rename_tab", ActiveTab(c)),
               Mode("rename_space", eye[c])} :
       mode' = [mode EXCEPT ![c] = m]
  /\ UNCHANGED tree

KeySplits(c) == Bound(c) /\ Closes(c) /\ Split(c, Focused(c))

(* The new tab asks for its name where the configuration says so.          *)
KeyOpensTab(c) ==
  /\ Bound(c) /\ OpenTab(c)
  /\ Closes(c) \/ Opens(c, "rename_tab", ids.tab + 1)

KeyOpensSpace(c) == Bound(c) /\ Closes(c) /\ OpenSpace(c)

(* Close pane (unconfirmed), tab and space.                                *)
KeyCloses(c) ==
  /\ Bound(c) /\ Closes(c)
  /\ \E ps \in {{Focused(c)}, OfTab(ActiveTab(c)), OfSpace(eye[c])} : Kill(ps)

(* Another tab, or the next space: a pane that is there.                   *)
KeyGoes(c) ==
  /\ Bound(c) /\ Closes(c)
  /\ \E p \in Panes : GoTo(c, p)
  /\ UNCHANGED <<place, ids, dying>>

(* Focus or swap with a neighbour: any pane the last frame may have shown, *)
(* taken as it is.  A swap puts it where the focused pane was, and that    *)
(* one where it was if it still is on this tab, which changes nothing that *)
(* is kept.                                                                *)
Neighbours(c) == Issued \ {Focused(c)}
ActsOn(c, q) == astray' = (q \notin OfTab(ActiveTab(c)))

KeyFocuses(c) ==
  /\ Bound(c) /\ Closes(c)
  /\ \E q \in Neighbours(c) : ActsOn(c, q) /\ focus' = [focus EXCEPT ![eye[c]] = q]
  /\ UNCHANGED <<place, eye, ids, dying>>

KeySwaps(c) ==
  /\ Bound(c) /\ Closes(c)
  /\ \E q \in Neighbours(c) :
       /\ ActsOn(c, q)
       /\ place' = IF q \in OfTab(ActiveTab(c)) THEN place
                   ELSE [p \in (Panes \ {Focused(c)}) \cup {q} |->
                          IF p = q THEN place[Focused(c)] ELSE place[p]]
  /\ UNCHANGED <<focus, eye, ids, dying>>

(* Any key closes help and menus, any but "y" the question; Esc the rest.  *)
KeyDismisses(c) ==
  /\ In(c, {"resize", "help", "confirm_close"} \cup Menu \cup Prompt)
  /\ Closes(c)
  /\ UNCHANGED <<tree, drag, procs>>

(* Enter looks for the text; "/" asks for another one.                     *)
SearchKey(c) ==
  /\ \/ In(c, {"search"}) /\ (Opens(c, "search_nav", 0) \/ Closes(c))
     \/ In(c, {"search_nav"}) /\ (Opens(c, "search", 0) \/ Closes(c))
  /\ UNCHANGED <<tree, drag, procs>>

(* "y" to the question: the pane it was asked about, whatever has the      *)
(* focus now.                                                              *)
ConfirmClose(c) ==
  /\ In(c, {"confirm_close"})
  /\ Closes(c) /\ Kill({mode[c].on})
  /\ UNCHANGED <<drag, procs>>

(* Enter in a prompt.  Names are not kept.  A branch name makes a worktree *)
(* space of a space that is still there; the others open a tab or a space, *)
(* switch an orchestrator, or first ask which stored session to restore.   *)
PromptEnter(c) ==
  /\ In(c, Prompt)
  /\ \/ Closes(c) /\ UNCHANGED tree
     \/ /\ In(c, {"worktree_branch"}) /\ mode[c].on \in SpacesOpen
        /\ Closes(c) /\ OpenSpace(c)
     \/ In(c, {"prompt"}) /\ Closes(c) /\ OpensTabOrSpace(c)
     \/ In(c, {"prompt"}) /\ Opens(c, "picker", 0) /\ UNCHANGED tree
     \/ In(c, {"switch_prompt"}) /\ Opens(c, "switch_menu", mode[c].on) /\ UNCHANGED tree
     \/ In(c, {"switch_prompt"}) /\ Closes(c) /\ Switch(mode[c].on)
  /\ UNCHANGED <<drag, procs>>

-----------------------------------------------------------------------------
(* The mouse.  A press first drops a tab or a pane still held from an      *)
(* earlier gesture: its release was lost.                                  *)

KeptAcross(c) == drag[c]
Kept(c) == IF drag[c].kind \in Drops THEN NoDrag ELSE drag[c]
Pressed(c) == drag' = [drag EXCEPT ![c] = IF Kept(c) = NoDrag THEN NoDrag
                                          ELSE [Kept(c) EXCEPT !.mine = FALSE]]
Arms(c, k, i) == drag' = [drag EXCEPT ![c] = Drag(k, i)]

(* A press elsewhere, and an item that does nothing to the session or has  *)
(* nothing left to work on.                                                *)
PressDismisses(c) ==
  /\ In(c, Menu \cup {"help"})
  /\ Closes(c) /\ Pressed(c)
  /\ UNCHANGED <<tree, procs>>

(* run_menu_action: an item does its work on what the menu was opened for, *)
(* if that is still there, or opens the next dialog.  Either way this menu *)
(* is closed.                                                              *)
Asks(c, kinds, i) == (\E k \in kinds : Opens(c, k, i)) /\ UNCHANGED tree

SplitsNamedUnchecked(c, p) == Split(c, IF p \in Panes THEN p ELSE Focused(c))
SplitsNamed(c, p) == p \in Panes /\ Split(c, p)
PaneMenu(c, p) ==
  \/ Closes(c) /\ (SplitsNamed(c, p) \/ Kill({p}))
  \/ Asks(c, {"agent_picker", "pane_picker", "rename_pane"}, p)

AgentMenu(c, p) ==
  \/ Closes(c) /\ Kill({p})
  \/ Closes(c) /\ GoTo(c, p) /\ UNCHANGED <<place, ids, dying>>
  \/ Asks(c, {"pane_picker", "rename_pane"}, p) \/ Asks(c, {"picker"}, 0)

(* The pane's team or behaviour, or a new profile.                         *)
PaneItem(c) ==
  \/ Closes(c) /\ UNCHANGED tree
  \/ Asks(c, {"prompt"}, 0)

(* A profile started beside pane p, or in a new tab.                       *)
StartProfile(c, p) ==
  /\ Closes(c)
  /\ IF p = 0 THEN OpenTab(c)
     ELSE p \in Panes /\ OpenBeside(p) /\ UNCHANGED <<focus, eye, dying>>

(* Only a tab of the space the user looks at now is closed.                *)
TabMenu(c, t) ==
  \/ Closes(c) /\ (OpenTab(c) \/ Kill(OfTab(t) \cap OfSpace(eye[c])))
  \/ Asks(c, {"rename_tab"}, t)

SpaceMenu(c, s) ==
  \/ Closes(c) /\ Kill(OfSpace(s))
  \/ s \in SpacesOpen /\ Asks(c, {"rename_space", "worktree_picker"}, s)
  \/ Asks(c, {"worktree_branch", "space_picker"}, s)
WorktreeItem(c, s) == Closes(c) /\ s \in SpacesOpen /\ OpenSpace(c)

AppMenu(c) ==
  \/ Closes(c) /\ OpenTab(c)
  \/ Asks(c, {"agent_picker", "picker", "prompt", "help"}, 0)

(* Profiles and their skills: one is started or edited in a new tab here.  *)
ProfileItem(c) ==
  \/ Closes(c) /\ OpenTab(c)
  \/ Asks(c, {"picker", "prompt"}, 0)

(* Skills and editors: a source is opened in a new tab, an editor chosen.  *)
CatalogItem(c) ==
  \/ Closes(c) /\ (OpenTab(c) \/ UNCHANGED tree)
  \/ Asks(c, {"prompt"}, 0)

(* An orchestrator that was stopped: its command is asked for, then it     *)
(* opens in its team's space or in a new one.                              *)
HeadItem(c) ==
  \/ Asks(c, {"prompt"}, 0)
  \/ Closes(c) /\ OpensTabOrSpace(c)

(* A space that was closed; a conversation to continue, in the space of    *)
(* its folder; a space's default profile.                                  *)
RecentSpaceItem(c) == Closes(c) /\ OpenSpace(c)
ContinueItem(c) == Closes(c) /\ OpensTabOrSpace(c)
SpaceProfile(c) == Closes(c) /\ UNCHANGED tree

MenuPick(c) ==
  LET on == mode[c].on
  IN /\ Pressed(c) /\ UNCHANGED procs
     /\ \/ In(c, {"pane_menu"}) /\ PaneMenu(c, on)
        \/ In(c, {"agent_menu"}) /\ AgentMenu(c, on)
        \/ In(c, {"pane_picker"}) /\ PaneItem(c)
        \/ In(c, {"agent_picker"}) /\ StartProfile(c, on)
        \/ In(c, {"switch_menu"}) /\ Closes(c) /\ Switch(on)
        \/ In(c, {"tab_menu"}) /\ TabMenu(c, on)
        \/ In(c, {"space_menu"}) /\ SpaceMenu(c, on)
        \/ In(c, {"worktree_picker"}) /\ WorktreeItem(c, on)
        \/ In(c, {"app_menu"}) /\ AppMenu(c)
        \/ In(c, {"space_picker"}) /\ SpaceProfile(c)
        \/ In(c, {"picker"}) /\ ( \/ ProfileItem(c) \/ CatalogItem(c) \/ HeadItem(c)
                                 \/ RecentSpaceItem(c) \/ ContinueItem(c))

(* The left button over the chrome.  A toast or a row of the team panel    *)
(* may be of a pane that is gone.                                          *)
Under(c) == In(c, Through)
PressToast(c) ==
  /\ Under(c) /\ Pressed(c)
  /\ \E p \in Issued : GoTo(c, p)
  /\ UNCHANGED <<place, ids, dying, mode, procs>>

(* The tab bar: the switch itself waits for the release.                   *)
PressTab(c) ==
  /\ Under(c)
  /\ \E p \in OfSpace(eye[c]) : Arms(c, "tab", place[p].tab)
  /\ UNCHANGED <<tree, mode, procs>>
PressTabBar(c) ==
  /\ Under(c) /\ Pressed(c) /\ UNCHANGED procs
  /\ \/ OpenTab(c) /\ UNCHANGED mode
     \/ \E p \in OfSpace(eye[c]) : Kill(OfTab(place[p].tab)) /\ UNCHANGED mode
     \/ Opens(c, "exit_menu", 0) /\ UNCHANGED tree

PressSidebar(c) ==
  /\ Under(c) /\ Pressed(c) /\ UNCHANGED <<place, ids, dying, procs>>
  /\ \/ \E s \in SpacesOpen : eye' = [eye EXCEPT ![c] = s] /\ UNCHANGED <<focus, mode>>
     \/ \E p \in Panes : GoTo(c, p) /\ UNCHANGED mode
     \/ (\E k \in {"app_menu", "picker", "prompt"} : Opens(c, k, 0)) /\ UNCHANGED <<focus, eye>>

PressTeamPanel(c) ==
  /\ Under(c) /\ Pressed(c) /\ UNCHANGED <<place, ids, dying, procs>>
  /\ \E p \in Issued :
       \/ GoTo(c, p) /\ UNCHANGED mode
       \/ (\E k \in {"switch_prompt", "pane_picker"} : Opens(c, k, p)) /\ UNCHANGED <<focus, eye>>

(* A divider, or the content of a pane whose application does not take the *)
(* mouse; one that does gets the press.                                    *)
PressDivider(c) == Under(c) /\ Arms(c, "divider", 0) /\ UNCHANGED <<tree, mode, procs>>

(* A pane of the last frame, a frame old: a search elsewhere ends, and if  *)
(* the pane is still there it gets the focus, its border arms a drag and   *)
(* its content a selection.                                                *)
PressPane(c) ==
  /\ Under(c)
  /\ \E p \in Issued :
       /\ GoTo(c, p)
       /\ IF In(c, {"search", "search_nav"}) /\ p # Focused(c) THEN Closes(c) ELSE UNCHANGED mode
       /\ \/ Pressed(c)
          \/ p \in Panes /\ (Arms(c, "pane", p) \/ Arms(c, "select", 0))
  /\ UNCHANGED <<place, ids, dying, procs>>

(* The right button opens the menu of what it is over; the middle one is   *)
(* the application's.                                                      *)
RightPress(c) ==
  /\ Under(c) /\ Pressed(c)
  /\ \/ \E p \in OfSpace(eye[c]) : Opens(c, "tab_menu", place[p].tab) /\ UNCHANGED <<focus, eye>>
     \/ \E s \in SpacesOpen : Opens(c, "space_menu", s) /\ eye' = [eye EXCEPT ![c] = s] /\ UNCHANGED focus
     \/ \E p \in Panes : Opens(c, "agent_menu", p) /\ UNCHANGED <<focus, eye>>
     \/ \E p \in Panes : Opens(c, "pane_menu", p) /\ GoTo(c, p)
  /\ UNCHANGED <<place, ids, dying, procs>>
MiddlePress(c) == Under(c) /\ Pressed(c) /\ UNCHANGED <<tree, mode, procs>>

(* Where a held tab or pane would drop.                                    *)
Targets(c) ==
  LET d == drag[c]
      Edges == {Hover("edge", q) : q \in Issued \ (IF d.kind = "tab" THEN OfTab(d.on) ELSE {d.on})}
  IN {Nowhere} \cup Edges \cup
     IF d.kind = "tab" THEN {}
     ELSE {Hover("centre", q) : q \in Issued \ {d.on}}
            \cup {Hover("tab", place[q].tab) : q \in {x \in OfSpace(eye[c]) : d.on \notin OfTab(place[x].tab)}}
            \cup (IF d.on \in Panes /\ OfTab(place[d.on].tab) = {d.on} THEN {} ELSE {Hover("new", 0)})

Motion(c) ==
  /\ Under(c) /\ drag[c].kind \in Drops
  /\ \E h \in Targets(c) : drag' = [drag EXCEPT ![c].hover = h]
  /\ UNCHANGED <<tree, mode, procs>>

(* What a release does with what is held.  Everything is looked up again:  *)
(* what is gone, or is by now in another space, stays where it is.         *)
MoveTo(ps, t) ==
  [p \in Panes |-> IF p \in ps THEN [tab |-> t, space |-> place[p].space] ELSE place[p]]
Other(p, q, x) == IF x = p THEN q ELSE IF x = q THEN p ELSE x

DropTab(c, t, h) ==
  IF h.at = "edge"
  THEN IF h.id \in Panes /\ OfTab(t) # {} /\ place[h.id].tab # t
          /\ \A p \in OfTab(t) : place[p].space = place[h.id].space
       THEN /\ place' = MoveTo(OfTab(t), place[h.id].tab)
            /\ \E p \in OfTab(t) : GoTo(c, p)
       ELSE UNCHANGED <<place, focus, eye>>
  ELSE IF OfTab(t) \cap OfSpace(eye[c]) # {}
       THEN (\E p \in OfTab(t) : GoTo(c, p)) /\ UNCHANGED place
       ELSE UNCHANGED <<place, focus, eye>>

DropPane(c, p, h) ==
  CASE p \in Panes /\ h.at = "centre" /\ h.id \in Panes ->
         /\ place' = [x \in Panes |-> place[Other(p, h.id, x)]]
         /\ focus' = IF place[p].tab = place[h.id].tab THEN focus
                     ELSE [s \in SpacesOpen |-> Other(p, h.id, focus[s])]
         /\ UNCHANGED eye
    [] p \in Panes /\ h.at = "edge" /\ h.id \in OfSpace(place[p].space) ->
         place' = MoveTo({p}, place[h.id].tab) /\ GoTo(c, p)
    [] p \in Panes /\ h.at = "tab" /\ OfTab(h.id) \cap OfSpace(place[p].space) # {} /\ place[p].tab # h.id ->
         place' = MoveTo({p}, h.id) /\ GoTo(c, p)
    [] p \in Panes /\ h.at = "new" /\ OfTab(place[p].tab) # {p} ->
         place' = MoveTo({p}, ids.tab + 1) /\ GoTo(c, p)
    [] OTHER -> UNCHANGED <<place, focus, eye>>

Release(c) ==
  /\ Under(c) /\ drag[c] # NoDrag
  /\ CASE drag[c].kind = "tab"  -> DropTab(c, drag[c].on, drag[c].hover)
       [] drag[c].kind = "pane" -> DropPane(c, drag[c].on, drag[c].hover)
       [] OTHER                 -> UNCHANGED <<place, focus, eye>>
  /\ ids' = IF ids.tab + 1 \in {place'[p].tab : p \in Panes} THEN [ids EXCEPT !.tab = @ + 1] ELSE ids
  /\ ids'.tab <= MaxTab
  /\ drag' = [drag EXCEPT ![c] = NoDrag]
  /\ UNCHANGED <<dying, mode, procs>>

-----------------------------------------------------------------------------
(* The process monitor.  Its snapshot belongs to the runtime, its overlay  *)
(* to a terminal; a snapshot nobody looks at is not kept here.             *)

Watching == {c \in Client : In(c, Overlay)}
KeyOrPress(c) == UNCHANGED drag \/ Pressed(c)

(* refresh_monitor lists the processes of the session there are now; the   *)
(* rows on screen are those of the last refresh, and the button that kills *)
(* is there only for a process among them.                                 *)
Refreshed == monitor' = ours'
Rows == monitor
HasKillButton(c) == mode[c].on \in Rows

OpenMonitor(c) ==
  /\ In(c, {"app_menu"}) /\ Opens(c, "monitor", 0) /\ Pressed(c)
  /\ \E s \in IF Watching = {} THEN SUBSET Pid ELSE {ours} : ours' = s
  /\ Refreshed
  /\ UNCHANGED tree

(* clear_monitor, for whoever else is watching too.                        *)
CloseMonitor(c) ==
  /\ In(c, {"monitor"}) /\ Closes(c) /\ KeyOrPress(c)
  /\ monitor' = {} /\ ours' = IF Watching = {c} THEN {} ELSE ours
  /\ UNCHANGED tree

PickProcess(c) ==
  /\ In(c, {"monitor"}) /\ KeyOrPress(c)
  /\ \E pid \in Rows : Opens(c, "process", pid)
  /\ UNCHANGED <<tree, procs>>

LeaveProcess(c) ==
  /\ In(c, {"process"}) /\ Opens(c, "monitor", 0) /\ KeyOrPress(c)
  /\ UNCHANGED <<tree, procs>>

(* SIGTERM to the pid the detail was opened for, and a fresh snapshot.     *)
KillProcess(c) ==
  /\ In(c, {"process"}) /\ Opens(c, "monitor", 0)
  /\ UNCHANGED drag \/ (HasKillButton(c) /\ Pressed(c))
  /\ ours' \in {ours, ours \ {mode[c].on}} /\ Refreshed
  /\ UNCHANGED tree

(* Processes of the session come and go; a pid may be another's by then.   *)
Process(pid) ==
  /\ Watching # {}
  /\ ours' = IF pid \in ours THEN ours \ {pid} ELSE ours \cup {pid}
  /\ UNCHANGED <<tree, mode, drag, monitor>>

(* Every two seconds the loop refreshes the snapshot if the input mode is  *)
(* the monitor.  Between two events the mode is what the last terminal's   *)
(* turn left behind: its own was taken back with it.                       *)
LeftBehind == Terminal
WsPoll ==
  /\ UNCHANGED <<tree, mode, drag, ours, astray>>
  /\ IF LeftBehind.kind \in Overlay THEN Refreshed ELSE UNCHANGED monitor

-----------------------------------------------------------------------------
(* Everybody else.                                                         *)

(* A terminal leaves, by its own choice or not, and another one comes.     *)
Reattach(c) ==
  /\ Closes(c) /\ drag' = [drag EXCEPT ![c] = NoDrag]
  /\ \E s \in SpacesOpen : eye' = [eye EXCEPT ![c] = s]
  /\ monitor' = IF Watching \subseteq {c} THEN {} ELSE monitor
  /\ ours' = IF Watching \subseteq {c} THEN {} ELSE ours
  /\ UNCHANGED <<place, focus, ids, dying>>

(* handle_pane_exit.  (Bound: not of the last pane.)  A terminal whose     *)
(* space closed looks at another one.                                      *)
StillThere(c, s) == eye[c]
Elsewhere(c, s) == IF eye[c] \in SpacesOpen' THEN eye[c] ELSE s
PaneExit(p) ==
  LET s == place[p].space
      left == OfSpace(s) \ {p}
  IN /\ p \in Panes /\ Panes # {p}
     /\ place' = Restrict(place, Panes \ {p})
     /\ dying' = dying \ {p}
     /\ IF left = {}
        THEN /\ focus' = Restrict(focus, SpacesOpen \ {s})
             /\ \E r \in SpacesOpen \ {s} : eye' = [c \in Client |-> Elsewhere(c, r)]
        ELSE /\ \E q \in left : focus' = [focus EXCEPT ![s] = IF @ = p THEN q ELSE @]
             /\ UNCHANGED eye
     /\ UNCHANGED <<ids, mode, drag, procs>>

(* The automation API, which leaves the focus where it is unless asked.    *)
ApiOpens ==
  /\ \/ \E p \in Panes : OpenBeside(p) /\ UNCHANGED focus
     \/ \E s \in SpacesOpen :
          /\ ids.pane < MaxPane /\ ids.tab < MaxTab
          /\ ids' = [ids EXCEPT !.pane = NewPane, !.tab = @ + 1]
          /\ place' = Put(NewPane, ids.tab + 1, s) /\ UNCHANGED focus
     \/ /\ ids.pane < MaxPane /\ ids.tab < MaxTab /\ ids.space < MaxSpace
        /\ ids' = [pane |-> NewPane, tab |-> ids.tab + 1, space |-> ids.space + 1]
        /\ place' = Put(NewPane, ids.tab + 1, ids.space + 1)
        /\ focus' = And(focus, ids.space + 1, NewPane)
  /\ UNCHANGED <<eye, dying, mode, drag, procs>>
ApiCloses(p) == p \in Panes /\ Kill({p}) /\ UNCHANGED <<mode, drag, procs>>
ApiFocuses(p) ==
  /\ p \in Panes
  /\ focus' = [focus EXCEPT ![place[p].space] = p]
  /\ eye' = [c \in Client |-> place[p].space]
  /\ UNCHANGED <<place, ids, dying, mode, drag, procs>>

Key(c) ==
  \/ PrefixKey(c) \/ KeyOpens(c) \/ KeySplits(c) \/ KeyOpensTab(c) \/ KeyOpensSpace(c)
  \/ KeyCloses(c) \/ KeyGoes(c) \/ KeyDismisses(c) \/ SearchKey(c) \/ ConfirmClose(c)
  \/ PromptEnter(c)
Mouse(c) ==
  \/ PressDismisses(c) \/ MenuPick(c) \/ PressToast(c) \/ PressTab(c) \/ PressTabBar(c)
  \/ PressSidebar(c) \/ PressTeamPanel(c) \/ PressDivider(c) \/ PressPane(c)
  \/ RightPress(c) \/ MiddlePress(c) \/ Motion(c) \/ Release(c)
Monitor(c) ==
  OpenMonitor(c) \/ CloseMonitor(c) \/ PickProcess(c) \/ LeaveProcess(c) \/ KillProcess(c)

Step ==
  \/ \E c \in Client : EscDrag(c) \/ Key(c) \/ Mouse(c) \/ Monitor(c) \/ Reattach(c)
  \/ \E pid \in Pid : Process(pid)
  \/ \E p \in Issued : PaneExit(p) \/ ApiCloses(p) \/ ApiFocuses(p)
  \/ ApiOpens

(* Bound: nobody but the poll goes on in a session that has gone astray.   *)
Next ==
  \/ ~astray /\ Step /\ UNCHANGED astray
  \/ ~astray /\ \E c \in Client : KeyFocuses(c) \/ KeySwaps(c)
  \/ WsPoll

Spec == Init /\ [][Next]_vars
FairSpec == Spec /\ WF_vars(WsPoll)

-----------------------------------------------------------------------------
ModeOK(m) ==
  \/ m.kind \in PaneMode /\ m.on \in 0 .. ids.pane /\ (m.on = 0 => m.kind = "agent_picker")
  \/ m.kind \in TabMode /\ m.on \in 1 .. ids.tab
  \/ m.kind \in SpaceMode /\ m.on \in 1 .. ids.space
  \/ m.kind \in Plain /\ m.on = 0
  \/ m.kind = "process" /\ m.on \in Pid

TypeOK ==
  /\ astray \in BOOLEAN
  /\ Panes # {} /\ Panes \subseteq Issued /\ dying \subseteq Issued
  /\ \A p \in Panes : place[p].tab \in 1 .. ids.tab /\ place[p].space \in SpacesOpen
  /\ SpacesOpen \subseteq 1 .. ids.space
  /\ \A c \in Client : eye[c] \in SpacesOpen /\ ModeOK(mode[c])
  /\ monitor \subseteq Pid /\ ours \subseteq Pid

(* focus_pane validates because a raw assignment plants a dead id: however *)
(* old the frame, toast or menu clicked on, and whatever died, moved or    *)
(* was dropped meanwhile, the focus of every space is on one of its panes, *)
(* until a focus or swap key, which does not validate, has acted on a pane *)
(* that had left the tab.                                                  *)
FocusAlive == astray \/ \A s \in SpacesOpen : focus[s] \in OfSpace(s)

(* An answer is about what the dialog was opened for, whatever has the     *)
(* focus or the index by then: it kills nothing else, splits nothing else  *)
(* and, when that is gone, does nothing at all.                            *)
Named(m) ==
  IF m.kind \in PaneMode THEN {m.on}
  ELSE IF m.kind \in TabMode THEN OfTab(m.on)
  ELSE IF m.kind \in SpaceMode THEN OfSpace(m.on) ELSE {}
AnswerIsAboutNamed ==
  \A c \in Client :
    mode'[c] # mode[c] /\ mode[c].kind \in Question =>
      /\ dying' \ dying \subseteq Named(mode[c])
      /\ \A p \in DOMAIN place' \ Panes :
           place'[p].tab \in TabsOpen => \E q \in Named(mode[c]) \cap Panes : place'[p].tab = place[q].tab
      /\ mode[c].kind \in PaneMode /\ mode[c].on \notin Panes \cup {0} => place' = place
OnlyNamed == [][AnswerIsAboutNamed]_vars

(* A held tab or pane belongs to the press that armed it: a stale drop     *)
(* never fires from a later, unrelated release.                            *)
DragOfThisPress == \A c \in Client : drag[c].kind \in Drops => drag[c].mine

(* The overlay follows the processes: a row of a process that has ended    *)
(* does not stay on offer to be killed.                                    *)
MonitorRefreshed ==
  \A c \in Client, pid \in Pid :
    (In(c, Overlay) /\ pid \in monitor \ ours) ~> (~In(c, Overlay) \/ pid \notin monitor \ ours)
=============================================================================
