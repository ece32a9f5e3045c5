------------------------------ MODULE Workspaces ------------------------------
(***************************************************************************)
(* Spaces, tabs and panes, and the view each attached terminal has of      *)
(* them.  The session is one tree of spaces shared by every terminal; a    *)
(* terminal owns its scope and the space it looks at, which the server     *)
(* swaps into the session before it handles that terminal's input or draws *)
(* its frame (`Enter`) and back out afterwards (`UserDoes`).               *)
(*                                                                         *)
(* The layout tree of a tab is the sequence of its panes in order: every   *)
(* operation on the tree is exact on that sequence, geometry is not        *)
(* modelled.  Indices count from 1; 0 is "none".                           *)
(*                                                                         *)
(* The focus and swap keys take their neighbour from the rectangles of the *)
(* last frame and do not look where it is by now.  `strayed` records that  *)
(* one of them has acted on a pane that is not on the screen any more: the *)
(* properties claim what holds until then, and MCWorkspacesStale shows     *)
(* what is lost with it.                                                   *)
(***************************************************************************)
EXTENDS Integers, FiniteSets, Sequences, SequencesExt

CONSTANTS
  Client,        (* attached terminals                                     *)
  Folder,        (* folders, none below another                            *)
  NoFolder,      (* no scope                                               *)
  MaxPane,       (* bound: panes at a time                                 *)
  MaxSpace,      (* bound: spaces at a time                                *)
  Spawns         (* bound: {TRUE} where every shell starts                 *)

ASSUME ViewAssumption ==
  /\ MaxPane \in Nat \ {0} /\ MaxSpace \in Nat /\ NoFolder \notin Folder /\ Folder # {}
  /\ Spawns \in (SUBSET BOOLEAN) \ {{}} /\ IsFiniteSet(Client)

VARIABLES
  spaces,     (* state.workspaces                                          *)
  active,     (* state.active_workspace, an index                          *)
  live,       (* panes with a process (rt.panes)                           *)
  views,      (* client -> whether it is attached, its scope, the id of    *)
              (* its space, and the panes of its last frame                *)
  up,         (* the server's loop runs                                    *)
  strayed     (* history: a focus or swap key has acted on a pane that its *)
              (* frame still showed and the screen does not any more       *)

vars == <<spaces, active, live, views, up, strayed>>

Pane == 1 .. MaxPane
Detached == [on |-> FALSE, scope |-> NoFolder, space |-> 0, frame |-> {}]
Attached == {c \in Client : views[c].on}

NewTab(p) == [panes |-> <<p>>, focus |-> p, zoom |-> 0]

Init ==
  /\ \E f \in Folder :
       spaces = <<[id |-> 1, cwd |-> f, parent |-> 0, tabs |-> <<NewTab(1)>>, active |-> 1]>>
  /\ active = 1 /\ live = {1}
  /\ views = [c \in Client |-> Detached]
  /\ up = TRUE /\ strayed = FALSE

-----------------------------------------------------------------------------
(* Looking things up.  An operation maps a session, the record of spaces,  *)
(* active index and scope it reads and writes, to a session.               *)

Holds(tab, p) == p \in ToSet(tab.panes)
PanesOf(w) == UNION {ToSet(w.tabs[i].panes) : i \in DOMAIN w.tabs}
Leaves == UNION {PanesOf(spaces[i]) : i \in DOMAIN spaces}

SpaceWith(ws, p) == SelectInSeq(ws, LAMBDA w : p \in PanesOf(w))
TabWith(w, p) == SelectInSeq(w.tabs, LAMBDA t : Holds(t, p))
SpaceById(ws, id) == SelectInSeq(ws, LAMBDA w : w.id = id)

InScope(S, w) ==
  \/ S.scope = NoFolder
  \/ w.cwd = S.scope
  \/ \E q \in ToSet(S.spaces) : q.id = w.parent /\ q.cwd = S.scope
FirstInScope(S) == SelectInSeq(S.spaces, LAMBDA w : InScope(S, w))

ActiveSpace(S) == S.spaces[S.active]
ActiveTab(S) == ActiveSpace(S).tabs[ActiveSpace(S).active]
Focused(S) == ActiveTab(S).focus
OnTab(S, tab) == [S EXCEPT !.spaces[S.active].tabs[ActiveSpace(S).active] = tab]

(* What `layout_panes` shows of a tab.                                     *)
Shown(tab) == IF tab.zoom # 0 /\ Holds(tab, tab.zoom) THEN {tab.zoom} ELSE ToSet(tab.panes)

(* The counters of ids never come back to a number.  One that nothing      *)
(* refers to any more is as good as new, so the numbers are used again     *)
(* here, and the id of a space that is gone is forgotten (0) wherever it   *)
(* is kept: as no space ever bears it again, both find nothing.            *)
Least(used) == CHOOSE p \in 1 .. Cardinality(used) + 1 : p \notin used /\ 1 .. p - 1 \subseteq used
Remembered ==
  LET tabs == UNION {ToSet(spaces[i].tabs) : i \in DOMAIN spaces}
  IN (UNION {views[c].frame : c \in Client}) \cup (UNION {{t.focus, t.zoom} \ {0} : t \in tabs})
Fresh == Least(Leaves \cup live \cup Remembered)
Room == Fresh <= MaxPane
SpaceRoom == Room /\ Len(spaces) < MaxSpace
Ids(ws) == {ws[i].id : i \in DOMAIN ws}
Known(id, ws) == IF id \in Ids(ws) THEN id ELSE 0

-----------------------------------------------------------------------------
(* The operations of AppState.                                             *)

(* s with t inserted next to p.                                            *)
Beside(s, p, before, t) ==
  LET k == SelectInSeq(s, LAMBDA q : q = p) - (IF before THEN 1 ELSE 0)
  IN IF p \in ToSet(s) THEN SubSeq(s, 1, k) \o t \o SubSeq(s, k + 1, Len(s)) ELSE s

(* A tab of several panes after one of them is taken out.                  *)
Without(tab, p) ==
  LET rest == RemoveAt(tab.panes, SelectInSeq(tab.panes, LAMBDA q : q = p))
  IN [panes |-> rest,
      focus |-> IF tab.focus = p THEN Head(rest) ELSE tab.focus,
      zoom  |-> IF tab.zoom = p THEN 0 ELSE tab.zoom]

(* An active index after entry i of n + 1 is gone.                         *)
Shifted(a, i, n) ==
  LET b == IF i < a THEN a - 1 ELSE a IN IF b < n THEN b ELSE n

DropTabKeepsActive(w, i) == [w EXCEPT !.tabs = RemoveAt(@, i)]
DropTab(w, i) ==
  [w EXCEPT !.tabs = RemoveAt(@, i), !.active = Shifted(@, i, Len(w.tabs) - 1)]

(* The end of close_pane: a space without panes goes; the view never stays *)
(* on a space its scope hides.                                             *)
DropSpace(S, i) ==
  LET left == RemoveAt(S.spaces, i)
      rest == [k \in DOMAIN left |-> [left[k] EXCEPT !.parent = Known(@, left)]]
      T == [S EXCEPT !.spaces = rest, !.active = Shifted(@, i, Len(rest))]
  IN IF rest = <<>> THEN [S EXCEPT !.spaces = rest]
     ELSE IF InScope(T, ActiveSpace(T)) THEN T
     ELSE IF FirstInScope(T) # 0 THEN [T EXCEPT !.active = FirstInScope(T)]
     ELSE [T EXCEPT !.scope = NoFolder]

ClosePane(S, p) ==
  LET i == SpaceWith(S.spaces, p)
      w == S.spaces[i]
      j == TabWith(w, p)
  IN IF i = 0 THEN S
     ELSE IF Len(w.tabs[j].panes) > 1 THEN [S EXCEPT !.spaces[i].tabs[j] = Without(@, p)]
     ELSE IF Len(w.tabs) > 1 THEN [S EXCEPT !.spaces[i] = DropTab(@, j)]
     ELSE DropSpace(S, i)

(* focus_pane: go to p wherever it is; an explicit jump wins over the scope *)
(* and over another pane's zoom.                                           *)
GoToBehindZoom(S, p) ==
  LET i == SpaceWith(S.spaces, p)
      j == TabWith(S.spaces[i], p)
  IN IF i = 0 THEN S
     ELSE [S EXCEPT !.active = i, !.spaces[i].active = j, !.spaces[i].tabs[j].focus = p,
                    !.scope = IF InScope(S, S.spaces[i]) THEN @ ELSE NoFolder]
GoToKeepsScope(S, p) ==
  LET i == SpaceWith(S.spaces, p)
      j == TabWith(S.spaces[i], p)
  IN IF i = 0 THEN S
     ELSE [S EXCEPT !.active = i, !.spaces[i].active = j, !.spaces[i].tabs[j].focus = p,
                    !.spaces[i].tabs[j].zoom = IF @ = p THEN p ELSE 0]
GoTo(S, p) ==
  LET i == SpaceWith(S.spaces, p)
      w == S.spaces[i]
      j == TabWith(w, p)
      tab == [w.tabs[j] EXCEPT !.focus = p, !.zoom = IF @ = p THEN p ELSE 0]
  IN IF i = 0 THEN S
     ELSE [S EXCEPT !.active = i, !.spaces[i] = [w EXCEPT !.active = j, !.tabs[j] = tab],
                    !.scope = IF InScope(S, w) THEN @ ELSE NoFolder]

SplitFocused(S, p, before) ==
  LET t == ActiveTab(S)
  IN OnTab(S, [panes |-> Beside(t.panes, t.focus, before, <<p>>), focus |-> p, zoom |-> 0])

(* In place, for the API: focus stays where it is.                         *)
SplitPane(S, target, p) ==
  LET i == SpaceWith(S.spaces, target)
      j == TabWith(S.spaces[i], target)
      t == S.spaces[i].tabs[j]
  IN [S EXCEPT !.spaces[i].tabs[j] = [t EXCEPT !.panes = Beside(@, target, FALSE, <<p>>),
                                               !.zoom = IF @ = target THEN 0 ELSE @]]

NewTabIn(S, i, p, activate) ==
  LET w == S.spaces[i]
      tabs == Append(w.tabs, NewTab(p))
  IN [S EXCEPT !.spaces[i] = [w EXCEPT !.tabs = tabs,
                                       !.active = IF activate THEN Len(tabs) ELSE w.active]]

(* new_workspace_full: children go right after their parent and its other  *)
(* children; a space opened in the background leaves the view where it is. *)
NewSpace(S, p, cwd, parent, activate) ==
  LET n == Len(S.spaces)
      i == SpaceById(S.spaces, parent)
      at == IF i = 0 THEN n + 1
            ELSE CHOOSE k \in i + 1 .. n + 1 :
                   /\ \A j \in i + 1 .. k - 1 : S.spaces[j].parent = parent
                   /\ k <= n => S.spaces[k].parent # parent
      w == [id |-> Least(Ids(S.spaces) \cup {views[c].space : c \in Client}), cwd |-> cwd,
            parent |-> parent, tabs |-> <<NewTab(p)>>, active |-> 1]
  IN [S EXCEPT !.spaces = InsertAt(@, at, w),
               !.active = IF activate THEN at ELSE IF at <= @ THEN @ + 1 ELSE @]

(* attach_scope: stay if the active space qualifies, else go to a space of *)
(* that folder (a child in scope has a parent there), else open one.       *)
AttachScope(S, f, p) ==
  LET T == [S EXCEPT !.scope = f]
      exact == SelectInSeq(T.spaces, LAMBDA w : w.cwd = f)
  IN IF f = NoFolder \/ InScope(T, ActiveSpace(T)) THEN T
     ELSE IF exact # 0 THEN [T EXCEPT !.active = exact]
     ELSE NewSpace(T, p, f, 0, TRUE)

(* A tab that takes panes in shows all of them.                            *)
Joined(tab, panes) == [tab EXCEPT !.panes = panes, !.zoom = 0]

(* Drag and drop within a space.  A pane leaves its tab, is placed in its  *)
(* space, an emptied tab goes, and the view follows.                       *)
Lifted(S, p) ==
  LET w == S.spaces[SpaceWith(S.spaces, p)]
      j == TabWith(w, p)
  IN IF Len(w.tabs[j].panes) = 1 THEN w ELSE [w EXCEPT !.tabs[j] = Without(@, p)]
MovePane(S, p, placed) ==
  LET i == SpaceWith(S.spaces, p)
      j == TabWith(S.spaces[i], p)
  IN GoTo([S EXCEPT !.spaces[i] = IF Len(S.spaces[i].tabs[j].panes) = 1 THEN DropTab(placed, j)
                                  ELSE placed], p)

SwapIn(s, a, b) == [i \in DOMAIN s |-> IF s[i] = a THEN b ELSE IF s[i] = b THEN a ELSE s[i]]
Other(a, b, x) == IF x = a THEN b ELSE IF x = b THEN a ELSE x
Swapped(tab, a, b) ==
  IF Holds(tab, a) /\ Holds(tab, b) THEN [tab EXCEPT !.panes = SwapIn(@, a, b)]
  ELSE [panes |-> SwapIn(tab.panes, a, b), focus |-> Other(a, b, tab.focus),
        zoom  |-> Other(a, b, tab.zoom)]
SwapPanes(S, a, b) ==
  LET inSpace(w) == [w EXCEPT !.tabs = [j \in DOMAIN w.tabs |-> Swapped(w.tabs[j], a, b)]]
  IN [S EXCEPT !.spaces = [i \in DOMAIN S.spaces |-> inSpace(S.spaces[i])]]

MoveTab(S, i, j, target, before) ==
  LET w == S.spaces[i]
      k == TabWith(w, target)
      merged == [w EXCEPT !.tabs[k] = Joined(@, Beside(@.panes, target, before, w.tabs[j].panes))]
  IN GoTo([S EXCEPT !.spaces[i] = DropTab(merged, j)], w.tabs[j].focus)

-----------------------------------------------------------------------------
(* Whose view it is.                                                       *)

(* Outside a terminal's turn the session has no scope.                     *)
Session == [spaces |-> spaces, active |-> active, scope |-> NoFolder]

(* The terminal's space if it still exists, else the session's.            *)
Enter(c) ==
  LET i == SpaceById(spaces, views[c].space)
  IN [spaces |-> spaces, active |-> IF i # 0 THEN i ELSE active, scope |-> views[c].scope]

UserDoes(c, S) ==
  /\ spaces' = S.spaces /\ active' = S.active
  /\ views' = [views EXCEPT ![c] = [on |-> TRUE, scope |-> S.scope, space |-> ActiveSpace(S).id,
                                    frame |-> @.frame]]

BackgroundDoes(S) ==
  /\ spaces' = S.spaces /\ active' = S.active
  /\ views' = [c \in Client |-> [views[c] EXCEPT !.space = Known(@, S.spaces)]]

ApiDoesAlways(S) ==
  /\ spaces' = S.spaces /\ active' = S.active
  /\ views' = [c \in Client |-> IF c \in Attached
                                 THEN [views[c] EXCEPT !.space = ActiveSpace(S).id]
                                 ELSE views[c]]
(* An API request that moves the session to another space moves every      *)
(* terminal there.                                                         *)
ApiDoes(S) ==
  /\ spaces' = S.spaces /\ active' = S.active
  /\ views' = IF ActiveSpace(S).id = ActiveSpace(Session).id THEN views
              ELSE [c \in Client |-> IF c \in Attached
                                     THEN [views[c] EXCEPT !.space = ActiveSpace(S).id]
                                     ELSE views[c]]

(* A step that opens no pane, and one that opens pane Fresh.               *)
NoPaneOpened == UNCHANGED <<live, up, strayed>>
PaneOpened(spawned) ==
  /\ UNCHANGED <<up, strayed>>
  /\ spawned \/ Leaves \subseteq live    \* bound: one leaf without a process at a time
  /\ live' = IF spawned THEN live \cup {Fresh} ELSE live

OrRollBackFocused(S, p, spawned) == IF spawned THEN S ELSE ClosePane(S, Focused(S))
(* A leaf whose process could not be started is rolled back.               *)
OrRollBack(S, p, spawned) == IF spawned THEN S ELSE ClosePane(S, p)

-----------------------------------------------------------------------------
(* Terminals.                                                              *)

(* Accept and Hello.  A scoped attach keeps a new space whose shell did    *)
(* not start.                                                              *)
Attach(c, f, spawned) ==
  /\ c \notin Attached
  /\ LET S == AttachScope(Session, f, Fresh)
     IN /\ UserDoes(c, S)
        /\ IF Len(S.spaces) > Len(spaces)
           THEN SpaceRoom /\ PaneOpened(spawned) ELSE NoPaneOpened

Detach(c) ==
  /\ views' = [views EXCEPT ![c] = Detached]
  /\ UNCHANGED <<spaces, active, live, up, strayed>>

(* render_clients, for one terminal.  A frame of one pane has no           *)
(* neighbours and is not kept.                                             *)
Frame(tab) == IF Shown(tab) = {tab.focus} THEN {} ELSE Shown(tab)
Render(c) ==
  /\ spaces' = spaces /\ active' = Enter(c).active
  /\ views' = [views EXCEPT ![c] = [@ EXCEPT
       !.space = ActiveSpace(Enter(c)).id,
       !.frame = Frame(ActiveTab(Enter(c)))]]
  /\ NoPaneOpened

(* A key whose shell does not start hands the error up through the loop:   *)
(* the server ends, and every process with it.                             *)
ServerEnds ==
  /\ up' = FALSE /\ live' = {}
  /\ UNCHANGED <<spaces, active, views, strayed>>

KeySplit(c, before, spawned) ==
  /\ Room
  /\ IF spawned THEN UserDoes(c, SplitFocused(Enter(c), Fresh, before)) /\ PaneOpened(TRUE)
     ELSE ServerEnds

(* The menu of pane p, which focuses it first and catches the error.       *)
MenuSplit(c, p, before, spawned) ==
  /\ Room
  /\ UserDoes(c, OrRollBack(SplitFocused(GoTo(Enter(c), p), Fresh, before), Fresh, spawned))
  /\ PaneOpened(spawned)

(* Focus and swap keys: any other pane of the last frame may be the        *)
(* neighbour.  The focused pane must be in that frame; nobody looks where  *)
(* the neighbour is by now.                                                *)
Neighbour(c, q) == {q, Focused(Enter(c))} \subseteq views[c].frame /\ q # Focused(Enter(c))
(* A key that acts on q where it expects to find `panes`.                  *)
ActsOn(q, panes) == strayed' = (strayed \/ q \notin panes) /\ UNCHANGED <<live, up>>

FocusNeighbor(c, q) ==
  /\ Neighbour(c, q)
  /\ UserDoes(c, OnTab(Enter(c), [ActiveTab(Enter(c)) EXCEPT !.focus = q]))
  /\ ActsOn(q, Shown(ActiveTab(Enter(c))))

SwapWithNeighbor(c, q) ==
  /\ Neighbour(c, q)
  /\ UserDoes(c, OnTab(Enter(c), [ActiveTab(Enter(c)) EXCEPT !.panes = SwapIn(@, Focused(Enter(c)), q)]))
  /\ ActsOn(q, ToSet(ActiveTab(Enter(c)).panes))

ToggleZoom(c) ==
  /\ UserDoes(c, OnTab(Enter(c), [ActiveTab(Enter(c)) EXCEPT !.zoom = IF @ = Focused(Enter(c)) THEN 0
                                                                 ELSE Focused(Enter(c))]))
  /\ NoPaneOpened

(* The new-tab, scrollback and command keys and prompts that open an       *)
(* editor; or the tab bar's "+", where a tab whose shell did not start     *)
(* stays.                                                                  *)
UserNewTab(c, key, spawned) ==
  /\ Room
  /\ IF key /\ ~spawned THEN ServerEnds
     ELSE UserDoes(c, NewTabIn(Enter(c), Enter(c).active, Fresh, TRUE)) /\ PaneOpened(spawned)

(* Next, previous and numbered tab, and clicks in the tab bar.             *)
GoToTab(c, j) ==
  /\ j \in DOMAIN ActiveSpace(Enter(c)).tabs
  /\ UserDoes(c, [Enter(c) EXCEPT !.spaces[Enter(c).active].active = j])
  /\ NoPaneOpened

(* The next space in scope, round robin.                                   *)
CycleWorkspace(c) ==
  /\ LET S == Enter(c)
         n == Len(S.spaces)
         At(k) == ((S.active + k - 1) % n) + 1
         hits == {k \in 1 .. n : InScope(S, S.spaces[At(k)])}
     IN UserDoes(c, IF hits = {} THEN S
                    ELSE [S EXCEPT !.active = At(CHOOSE k \in hits : \A h \in hits : k <= h)])
  /\ NoPaneOpened

(* A row of the sidebar, which lists the spaces in scope.                  *)
PickSpace(c, i) ==
  /\ InScope(Enter(c), spaces[i])
  /\ UserDoes(c, [Enter(c) EXCEPT !.active = i])
  /\ NoPaneOpened

(* A click on a pane, an agent row or a toast.                             *)
FocusPane(c, p) ==
  /\ UserDoes(c, GoTo(Enter(c), p))
  /\ NoPaneOpened

(* open_space, and open_worktree with a parent.                            *)
OpenSpace(c, f, parent, spawned) ==
  /\ SpaceRoom
  /\ UserDoes(c, OrRollBack(NewSpace(Enter(c), Fresh, f, parent, TRUE), Fresh, spawned))
  /\ PaneOpened(spawned)

(* A pane dropped on a tab, or (0) on the "+" of the tab bar.              *)
MovePaneToTab(c, p, j) ==
  /\ LET w == spaces[SpaceWith(spaces, p)]
         v == Lifted(Enter(c), p)
         placed == IF j = 0 THEN [v EXCEPT !.tabs = Append(@, NewTab(p))]
                   ELSE [v EXCEPT !.tabs[j] = Joined(@, Append(@.panes, p))]
     IN /\ j \in 0 .. Len(w.tabs) /\ j # TabWith(w, p)
        /\ j = 0 => Len(w.tabs[TabWith(w, p)].panes) > 1
        /\ UserDoes(c, MovePane(Enter(c), p, placed))
  /\ NoPaneOpened

(* A pane dropped on the edge of another one in its space.                 *)
MovePaneOntoPane(c, p, target, before) ==
  /\ p # target
  /\ SpaceWith(spaces, p) = SpaceWith(spaces, target)
  /\ LET k == TabWith(spaces[SpaceWith(spaces, p)], target)
         placed == [Lifted(Enter(c), p) EXCEPT
                      !.tabs[k] = Joined(@, Beside(@.panes, target, before, <<p>>))]
     IN UserDoes(c, MovePane(Enter(c), p, placed))
  /\ NoPaneOpened

(* ... on its centre, in any space.                                        *)
SwapTwoPanes(c, p, q) ==
  /\ p < q
  /\ UserDoes(c, SwapPanes(Enter(c), p, q))
  /\ NoPaneOpened

(* A tab dropped on the edge of a pane of another tab of its space.        *)
MoveTabIntoPane(c, i, j, target, before) ==
  /\ TabWith(spaces[i], target) # j
  /\ UserDoes(c, MoveTab(Enter(c), i, j, target, before))
  /\ NoPaneOpened

-----------------------------------------------------------------------------
(* The automation API and the server's own steps.                          *)

Split(target, spawned) ==
  /\ Room
  /\ ApiDoes(OrRollBack(SplitPane(Session, target, Fresh), Fresh, spawned))
  /\ PaneOpened(spawned)

TabCreate(i, spawned) ==
  /\ Room
  /\ ApiDoes(OrRollBack(NewTabIn(Session, i, Fresh, FALSE), Fresh, spawned))
  /\ PaneOpened(spawned)

(* `workspace new`, and with a parent `worktree new` and `worktree open`.  *)
WorkspaceCreate(f, parent, spawned) ==
  /\ SpaceRoom
  /\ ApiDoes(OrRollBack(NewSpace(Session, Fresh, f, parent, FALSE), Fresh, spawned))
  /\ PaneOpened(spawned)

Focus(p) == ApiDoes(GoTo(Session, p)) /\ NoPaneOpened
WorkspaceFocus(i) ==
  ApiDoes([Session EXCEPT !.active = i]) /\ NoPaneOpened
TabFocus(i, j) ==
  /\ ApiDoes([Session EXCEPT !.active = i, !.spaces[i].active = j])
  /\ NoPaneOpened

(* handle_pane_exit.  The last pane of the session leaves a fresh root     *)
(* space, whose shell may not start.                                       *)
PaneExit(p, f, spawned) ==
  /\ UNCHANGED <<up, strayed>>
  /\ LET S == ClosePane(Session, p)
     IN IF S.spaces # <<>>
        THEN BackgroundDoes(S) /\ live' = live \ {p}
        ELSE /\ Room
             /\ BackgroundDoes(NewSpace(S, Fresh, f, 0, TRUE))
             /\ live' = (live \ {p}) \cup (IF spawned THEN {Fresh} ELSE {})

(* poll_workspaces: every pane of a space has left its folder.             *)
SpaceWanders(i, f) ==
  /\ PanesOf(spaces[i]) \cap live # {} /\ spaces[i].cwd # f
  /\ BackgroundDoes([Session EXCEPT !.spaces[i].cwd = f])
  /\ NoPaneOpened

Step ==
  \/ \E c \in Client, f \in Folder \cup {NoFolder}, spawned \in Spawns : Attach(c, f, spawned)
  \/ \E c \in Attached : Detach(c)
  \/ \E c \in Attached : Render(c)
  \/ \E c \in Attached, before \in BOOLEAN, spawned \in Spawns : KeySplit(c, before, spawned)
  \/ \E c \in Attached, p \in Leaves, before \in BOOLEAN, spawned \in Spawns :
       MenuSplit(c, p, before, spawned)
  \/ \E c \in Attached, q \in Pane : FocusNeighbor(c, q)
  \/ \E c \in Attached, q \in Pane : SwapWithNeighbor(c, q)
  \/ \E c \in Attached : ToggleZoom(c)
  \/ \E c \in Attached, key \in BOOLEAN, spawned \in Spawns : UserNewTab(c, key, spawned)
  \/ \E c \in Attached, j \in Pane : GoToTab(c, j)
  \/ \E c \in Attached : CycleWorkspace(c)
  \/ \E c \in Attached, i \in DOMAIN spaces : PickSpace(c, i)
  \/ \E c \in Attached, p \in Leaves : FocusPane(c, p)
  \/ \E c \in Attached, f \in Folder, parent \in Ids(spaces) \cup {0}, spawned \in Spawns :
       OpenSpace(c, f, parent, spawned)
  \/ \E c \in Attached, p \in Leaves, j \in Pane \cup {0} : MovePaneToTab(c, p, j)
  \/ \E c \in Attached, p, q \in Leaves, before \in BOOLEAN : MovePaneOntoPane(c, p, q, before)
  \/ \E c \in Attached, p, q \in Leaves : SwapTwoPanes(c, p, q)
  \/ \E c \in Attached, i \in DOMAIN spaces, before \in BOOLEAN :
       \E j \in DOMAIN spaces[i].tabs, p \in PanesOf(spaces[i]) : MoveTabIntoPane(c, i, j, p, before)
  \/ \E p \in Leaves, spawned \in Spawns : Split(p, spawned)
  \/ \E i \in DOMAIN spaces, spawned \in Spawns : TabCreate(i, spawned)
  \/ \E f \in Folder, parent \in Ids(spaces) \cup {0}, spawned \in Spawns :
       WorkspaceCreate(f, parent, spawned)
  \/ \E p \in Leaves : Focus(p)
  \/ \E i \in DOMAIN spaces : WorkspaceFocus(i)
  \/ \E i \in DOMAIN spaces : \E j \in DOMAIN spaces[i].tabs : TabFocus(i, j)
  \/ \E p \in live, f \in Folder, spawned \in Spawns : PaneExit(p, f, spawned)
  \/ \E i \in DOMAIN spaces, f \in Folder : SpaceWanders(i, f)

Ended == ~up /\ UNCHANGED vars
Next == (up /\ Step) \/ Ended

Spec == Init /\ [][Next]_vars

-----------------------------------------------------------------------------
TabType == [panes : Seq(Pane) \ {<<>>}, focus : Pane, zoom : Pane \cup {0}]
SpaceType ==
  [id : Nat \ {0}, cwd : Folder, parent : Nat, tabs : Seq(TabType) \ {<<>>}, active : Nat]
TypeOK ==
  /\ spaces \in Seq(SpaceType) \ {<<>>}
  /\ active \in Nat
  /\ live \in SUBSET Pane
  /\ up \in BOOLEAN /\ strayed \in BOOLEAN
  /\ views \in [Client -> [on : BOOLEAN, scope : Folder \cup {NoFolder}, space : Nat, frame : SUBSET Pane]]

(* check_invariants, which debug builds assert after every mutation: no    *)
(* empty space or tab, no pane in two places, every index and every        *)
(* focused or zoomed pane where it belongs.                                *)
Tree ==
  /\ TypeOK
  /\ spaces # <<>> /\ active \in DOMAIN spaces
  /\ \A i \in DOMAIN spaces :
       /\ spaces[i].active \in DOMAIN spaces[i].tabs
       /\ \A j \in DOMAIN spaces[i].tabs :
            LET t == spaces[i].tabs[j]
            IN /\ t.panes # <<>> /\ \A k, l \in DOMAIN t.panes : t.panes[k] = t.panes[l] => k = l
               /\ Holds(t, t.focus) /\ (t.zoom # 0 => Holds(t, t.zoom))
               /\ \A m \in DOMAIN spaces : \A n \in DOMAIN spaces[m].tabs :
                    ToSet(t.panes) \cap ToSet(spaces[m].tabs[n].panes) # {} => <<m, n>> = <<i, j>>

(* That holds, whatever drops, drags, exits, rollbacks and API requests do *)
(* to the tree, until a focus or swap key has acted on a pane that its     *)
(* frame showed and its screen does not show any more.                     *)
Wellformed == strayed \/ Tree

(* Nobody types into an invisible pane: a zoom only ever hides panes that  *)
(* do not have the focus, whatever drops, jumps and exits did to the tab,  *)
(* until a focus key has acted on a pane that left the screen.             *)
FocusVisible ==
  strayed \/ \A i \in DOMAIN spaces : \A j \in DOMAIN spaces[i].tabs :
    spaces[i].tabs[j].focus \in Shown(spaces[i].tabs[j])

(* No running process without a pane to reach it by, through failed shells *)
(* that are rolled back, drags and drops: until a swap key has acted on a  *)
(* pane that left its tab.                                                 *)
NoneLost == strayed \/ live \subseteq Leaves

(* Background requests that start a shell, and exits, never move a user's  *)
(* keystrokes to another pane, as long as the one they type into is there. *)
(* (A shell that does not start is rolled back, and may move the focus.)   *)
(* Until a focus or swap key has acted on a pane that left the screen.     *)
Background ==
  \/ \E p \in Leaves : Split(p, TRUE)
  \/ \E i \in DOMAIN spaces : TabCreate(i, TRUE)
  \/ \E f \in Folder, parent \in Ids(spaces) \cup {0} : WorkspaceCreate(f, parent, TRUE)
  \/ \E p \in live, f \in Folder, spawned \in Spawns : PaneExit(p, f, spawned)
Torn(c) ==
  LET p == Focused(Enter(c)) IN Focused(Enter(c))' # p /\ p \in Leaves'
KeystrokesStay == [][~strayed /\ live' # live /\ (\E c \in Attached : Torn(c)) => ~Background]_vars

(* A scope hides nothing from the terminal that is on it: attaching, and   *)
(* whatever a user does short of opening a space, ends on a space in scope *)
(* or widens the scope.  Until a focus or swap key has acted on a pane     *)
(* that left the screen.                                                   *)
OnView(c) == views[c].scope = NoFolder \/ InScope(Enter(c), ActiveSpace(Enter(c)))
Jumps(c) ==
  \/ \E f \in Folder, spawned \in Spawns : Attach(c, f, spawned)
  \/ /\ c \in Attached
     /\ \/ CycleWorkspace(c)
        \/ \E p \in Leaves : FocusPane(c, p)
        \/ \E p \in Leaves, j \in Pane \cup {0} : MovePaneToTab(c, p, j)
        \/ \E p, q \in Leaves, before \in BOOLEAN : MovePaneOntoPane(c, p, q, before)
        \/ \E i \in DOMAIN spaces : \E j \in DOMAIN spaces[i].tabs, p \in PanesOf(spaces[i]),
              before \in BOOLEAN : MoveTabIntoPane(c, i, j, p, before)
LandsInScope ==
  [][~strayed => \A c \in Client : ~OnView(c)' /\ (c \in Attached => OnView(c)) => ~Jumps(c)]_vars
=============================================================================
