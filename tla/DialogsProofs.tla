----------------------------- MODULE DialogsProofs -----------------------------
(* Dialogs and drags over any number of terminals, panes, tabs and spaces. *)
(* The focus of every space stays on one of its panes because a tab is in  *)
(* one space only, so that no drop can carry a focused pane out of the     *)
(* space that has its focus on it.  A focus or swap key that acts on a     *)
(* pane that has left the tab ends what is claimed of the tree.            *)
EXTENDS Dialogs, TLAPS

TreeOK ==
  /\ ids \in [pane : Nat, tab : Nat, space : Nat]
  /\ Panes \subseteq 1 .. ids.pane /\ SpacesOpen \subseteq 1 .. ids.space
  /\ \A p \in Panes : place[p].tab \in 1 .. ids.tab /\ place[p].space \in SpacesOpen
  /\ \A s \in SpacesOpen : focus[s] \in Panes /\ place[focus[s]].space = s
  /\ eye \in [Client -> SpacesOpen]
  /\ dying \subseteq Panes
  /\ \A p, q \in Panes : place[p].tab = place[q].tab => place[p].space = place[q].space

LEMMA InitTreeOK == Init => TreeOK
BY DEF Init, TreeOK, Panes, SpacesOpen

(* The panes of a space, the focused one among them.                       *)
LEMMA FocusFacts ==
  ASSUME TreeOK
  PROVE  /\ \A s \in SpacesOpen : focus[s] \in Panes /\ place[focus[s]].space = s
         /\ \A c \in Client : Focused(c) \in Panes
         /\ NewPane \notin Panes /\ NewPane \in Nat
<1>1. \A s \in SpacesOpen : focus[s] \in Panes /\ place[focus[s]].space = s
  BY DEF TreeOK
<1>2. \A c \in Client : Focused(c) \in Panes
  BY <1>1 DEF TreeOK, Focused
<1>3. ids.pane \in Nat
  BY DEF TreeOK
<1>4. NewPane \notin Panes /\ NewPane \in Nat
  BY <1>3 DEF TreeOK, NewPane
<1>5. QED
  BY <1>1, <1>2, <1>4

LEMMA OneSpace ==
  ASSUME TreeOK, NEW p \in Panes, NEW q \in Panes, place[p].tab = place[q].tab
  PROVE  place[p].space = place[q].space
BY DEF TreeOK

-----------------------------------------------------------------------------
(* What input does to the session, one operation at a time.                *)
LEMMA SameTreeOK == ASSUME TreeOK, UNCHANGED tree PROVE TreeOK'
BY DEF TreeOK, tree, Panes, SpacesOpen

LEMMA LookTreeOK ==
  ASSUME TreeOK, UNCHANGED <<place, focus, ids>>, dying' \subseteq Panes,
         eye' \in [Client -> SpacesOpen]
  PROVE  TreeOK'
BY DEF TreeOK, Panes, SpacesOpen

LEMMA KillTreeOK == ASSUME TreeOK, NEW ps, Kill(ps) PROVE TreeOK'
BY DEF Kill, TreeOK, Panes, SpacesOpen

LEMMA GoToFacts ==
  ASSUME TreeOK, NEW c \in Client, NEW p, GoTo(c, p)
  PROVE  /\ SpacesOpen' = SpacesOpen /\ eye' \in [Client -> SpacesOpen]
         /\ \A s \in SpacesOpen : focus'[s] \in Panes /\ place[focus'[s]].space = s
<1>1. CASE p \notin Panes
  BY <1>1, FocusFacts DEF GoTo, TreeOK, SpacesOpen
<1>2. CASE p \in Panes
  <2>1. /\ place[p].space \in SpacesOpen
        /\ focus' = [focus EXCEPT ![place[p].space] = p]
        /\ eye' = [eye EXCEPT ![c] = place[p].space]
    BY <1>2 DEF GoTo, TreeOK
  <2>2. eye' \in [Client -> SpacesOpen]
    BY <2>1 DEF TreeOK
  <2>3. SpacesOpen' = SpacesOpen
    BY <2>1 DEF SpacesOpen
  <2>4. \A s \in SpacesOpen : focus'[s] \in Panes /\ place[focus'[s]].space = s
    BY <1>2, <2>1, FocusFacts DEF TreeOK, SpacesOpen
  <2>5. QED
    BY <2>2, <2>3, <2>4
<1>3. QED
  BY <1>1, <1>2

LEMMA GoToTreeOK ==
  ASSUME TreeOK, NEW c \in Client, NEW p, GoTo(c, p), UNCHANGED <<place, ids, dying>>
  PROVE  TreeOK'
BY GoToFacts DEF TreeOK, Panes

LEMMA BesideTreeOK ==
  ASSUME TreeOK, NEW p \in Panes, OpenBeside(p),
         \/ UNCHANGED <<focus, eye>>
         \/ /\ focus' = [focus EXCEPT ![place[p].space] = NewPane]
            /\ \E c \in Client : eye' = [eye EXCEPT ![c] = place[p].space],
         dying' \subseteq Panes
  PROVE  TreeOK'
<1>1. /\ NewPane \notin Panes /\ NewPane \in Nat /\ NewPane = ids.pane + 1
      /\ Panes' = Panes \cup {NewPane} /\ ids' = [ids EXCEPT !.pane = NewPane]
      /\ place'[NewPane] = [tab |-> place[p].tab, space |-> place[p].space]
      /\ \A q \in Panes : place'[q] = place[q]
  BY FocusFacts DEF OpenBeside, Put, And, Panes, NewPane
<1>2. place' = [q \in Panes' |-> place'[q]]
  BY DEF OpenBeside, Put, And, Panes
<1>3. SpacesOpen' = SpacesOpen
  BY DEF SpacesOpen
<1>4. /\ ids' \in [pane : Nat, tab : Nat, space : Nat] /\ ids'.tab = ids.tab
      /\ ids'.space = ids.space /\ ids'.pane = NewPane
  BY <1>1 DEF TreeOK
<1>5. Panes' \subseteq 1 .. ids'.pane
  BY <1>1, <1>2, <1>3, <1>4 DEF TreeOK
<1> DEFINE Seen == /\ eye' \in [Client -> SpacesOpen']
                   /\ \A s \in SpacesOpen : focus'[s] \in Panes' /\ place'[focus'[s]].space = s
<1>6. Seen
  <2>1. place[p].space \in SpacesOpen
    BY DEF TreeOK
  <2>2. eye \in [Client -> SpacesOpen]
    BY DEF TreeOK
  <2>3. CASE UNCHANGED <<focus, eye>>
    BY <1>1, <1>3, <2>2, <2>3, FocusFacts
  <2>4. ASSUME focus' = [focus EXCEPT ![place[p].space] = NewPane],
               NEW c \in Client, eye' = [eye EXCEPT ![c] = place[p].space]
        PROVE  Seen
    BY <1>1, <1>3, <2>1, <2>2, <2>4, FocusFacts
  <2>5. QED
    BY <2>3, <2>4
<1>7. QED
  BY <1>1, <1>3, <1>4, <1>5, <1>6 DEF TreeOK


LEMMA KillsOneTreeOK == ASSUME TreeOK, NEW p \in Panes, Switch(p) PROVE TreeOK'
BY BesideTreeOK DEF Switch, TreeOK

LEMMA SplitTreeOK == ASSUME TreeOK, NEW c \in Client, NEW p \in Panes, Split(c, p) PROVE TreeOK'
BY BesideTreeOK DEF Split, TreeOK

(* A new tab of a space, for a user who goes there or for nobody.          *)
LEMMA TabTreeOK ==
  ASSUME TreeOK, NEW s \in SpacesOpen,
         ids' = [ids EXCEPT !.pane = NewPane, !.tab = @ + 1],
         place' = Put(NewPane, ids.tab + 1, s),
         \/ UNCHANGED <<focus, eye>>
         \/ /\ focus' = [focus EXCEPT ![s] = NewPane]
            /\ \E c \in Client : eye' = [eye EXCEPT ![c] = s],
         UNCHANGED dying
  PROVE  TreeOK'
<1>1. /\ NewPane \notin Panes /\ NewPane \in Nat /\ NewPane = ids.pane + 1
      /\ Panes' = Panes \cup {NewPane}
      /\ place'[NewPane] = [tab |-> ids.tab + 1, space |-> s]
      /\ \A q \in Panes : place'[q] = place[q]
  BY FocusFacts DEF Put, And, Panes, NewPane
<1>2. place' = [q \in Panes' |-> place'[q]]
  BY DEF Put, And, Panes
<1>3. SpacesOpen' = SpacesOpen
  BY DEF SpacesOpen
<1>4. /\ ids' \in [pane : Nat, tab : Nat, space : Nat] /\ ids'.tab = ids.tab + 1
      /\ ids'.space = ids.space /\ ids'.pane = NewPane /\ ids.tab \in Nat
  <2>1. ids \in [pane : Nat, tab : Nat, space : Nat] /\ ids.tab \in Nat
    BY DEF TreeOK
  <2>2. ids' = [pane |-> NewPane, tab |-> ids.tab + 1, space |-> ids.space]
    BY <2>1
  <2>3. QED
    BY <1>1, <2>1, <2>2
<1>5. Panes' \subseteq 1 .. ids'.pane
  BY <1>1, <1>2, <1>3, <1>4 DEF TreeOK
<1> DEFINE Seen == /\ eye' \in [Client -> SpacesOpen']
                   /\ \A r \in SpacesOpen : focus'[r] \in Panes' /\ place'[focus'[r]].space = r
<1>6. Seen
  <2>1. eye \in [Client -> SpacesOpen]
    BY DEF TreeOK
  <2>2. CASE UNCHANGED <<focus, eye>>
    BY <1>1, <1>3, <2>1, <2>2, FocusFacts
  <2>3. ASSUME focus' = [focus EXCEPT ![s] = NewPane],
               NEW c \in Client, eye' = [eye EXCEPT ![c] = s]
        PROVE  Seen
    BY <1>1, <1>3, <2>1, <2>3, FocusFacts
  <2>4. QED
    BY <2>2, <2>3
<1>7. \A q \in Panes : place[q].tab \in 1 .. ids.tab
  BY DEF TreeOK
<1>8. QED
  BY <1>1, <1>3, <1>4, <1>5, <1>6, <1>7 DEF TreeOK

LEMMA OpenTabTreeOK ==
  ASSUME TreeOK, NEW c \in Client, NEW s \in SpacesOpen, OpenTabIn(c, s) PROVE TreeOK'
BY TabTreeOK DEF OpenTabIn

(* A new space.                                                            *)
LEMMA SpaceTreeOK ==
  ASSUME TreeOK,
         ids' = [pane |-> NewPane, tab |-> ids.tab + 1, space |-> ids.space + 1],
         place' = Put(NewPane, ids.tab + 1, ids.space + 1),
         focus' = And(focus, ids.space + 1, NewPane),
         eye' = eye \/ \E c \in Client : eye' = [eye EXCEPT ![c] = ids.space + 1],
         UNCHANGED dying
  PROVE  TreeOK'
<1>1. /\ NewPane \notin Panes /\ NewPane \in Nat /\ NewPane = ids.pane + 1
      /\ Panes' = Panes \cup {NewPane}
      /\ place'[NewPane] = [tab |-> ids.tab + 1, space |-> ids.space + 1]
      /\ \A q \in Panes : place'[q] = place[q]
      /\ place' = [q \in Panes' |-> place'[q]]
  BY FocusFacts DEF Put, And, Panes, NewPane
<1>2. /\ ids.pane \in Nat /\ ids.tab \in Nat /\ ids.space \in Nat
      /\ ids' \in [pane : Nat, tab : Nat, space : Nat]
      /\ ids'.tab = ids.tab + 1 /\ ids'.space = ids.space + 1 /\ ids'.pane = ids.pane + 1
  BY <1>1 DEF TreeOK
<1>3. SpacesOpen \subseteq 1 .. ids.space
  BY DEF TreeOK
<1>4. /\ ids.space + 1 \notin SpacesOpen
      /\ SpacesOpen' = SpacesOpen \cup {ids.space + 1}
      /\ focus'[ids.space + 1] = NewPane
      /\ \A s \in SpacesOpen : focus'[s] = focus[s]
      /\ focus' = [s \in SpacesOpen' |-> focus'[s]]
  BY <1>2, <1>3 DEF And, SpacesOpen
<1>5. Panes' \subseteq 1 .. ids'.pane
  BY <1>1, <1>2, <1>4 DEF TreeOK
<1>6. /\ \A s \in SpacesOpen' : focus'[s] \in Panes' /\ place'[focus'[s]].space = s
  BY <1>1, <1>4, FocusFacts
<1>7. eye' \in [Client -> SpacesOpen']
  BY <1>4 DEF TreeOK
<1>8. \A q \in Panes : place[q].tab \in 1 .. ids.tab
  BY DEF TreeOK
<1>9. QED
  BY <1>1, <1>2, <1>3, <1>4, <1>5, <1>6, <1>7, <1>8 DEF TreeOK

LEMMA OpenSpaceTreeOK == ASSUME TreeOK, NEW c \in Client, OpenSpace(c) PROVE TreeOK'
BY SpaceTreeOK DEF OpenSpace

(* A pane exits: its space closes with its last pane, and otherwise has    *)
(* its focus on another of its panes.                                      *)
LEMMA ExitTreeOK == ASSUME TreeOK, NEW p, PaneExit(p) PROVE TreeOK'
<1> DEFINE s == place[p].space
           left == OfSpace(s) \ {p}
<1>1. /\ p \in Panes /\ Panes # {p} /\ s \in SpacesOpen
      /\ place' = [q \in Panes \ {p} |-> place[q]]
      /\ ids' = ids /\ dying' = dying \ {p}
  BY DEF PaneExit, Restrict, TreeOK
<1>2. Panes' = Panes \ {p} /\ \A q \in Panes' : place'[q] = place[q]
  BY <1>1 DEF Panes
<1>3. CASE left = {}
  <2>1. focus' = [r \in SpacesOpen \ {s} |-> focus[r]]
    BY <1>3 DEF PaneExit, Restrict
  <2>2. SpacesOpen' = SpacesOpen \ {s} /\ \A r \in SpacesOpen' : focus'[r] = focus[r]
    BY <2>1 DEF SpacesOpen
  <2>3. \A q \in Panes' : place[q].space # s
    BY <1>2, <1>3 DEF OfSpace
  <2>4. eye' \in [Client -> SpacesOpen']
    BY <1>3, <2>2 DEF PaneExit, Elsewhere
  <2>5. \A r \in SpacesOpen' : focus'[r] \in Panes' /\ place'[focus'[r]].space = r
    BY <1>1, <1>2, <2>2, FocusFacts
  <2>6. \A q \in Panes' : place'[q].tab \in 1 .. ids'.tab /\ place'[q].space \in SpacesOpen'
    BY <1>1, <1>2, <2>2, <2>3 DEF TreeOK
  <2>7. /\ Panes' \subseteq 1 .. ids'.pane /\ SpacesOpen' \subseteq 1 .. ids'.space
        /\ dying' \subseteq Panes'
    BY <1>1, <1>2, <2>2 DEF TreeOK
  <2>8. ASSUME NEW q \in Panes', NEW r \in Panes', place'[q].tab = place'[r].tab
        PROVE  place'[q].space = place'[r].space
    <3>1. place[q].tab = place[r].tab /\ q \in Panes /\ r \in Panes
      BY <1>2, <2>8
    <3>2. QED
      BY <1>2, <3>1, OneSpace
  <2>9. QED
    BY <1>1, <2>4, <2>5, <2>6, <2>7, <2>8 DEF TreeOK
<1>4. CASE left # {}
  <2>1. PICK q \in left : focus' = [focus EXCEPT ![s] = IF @ = p THEN q ELSE @]
    BY <1>4 DEF PaneExit
  <2>2. eye' = eye
    BY <1>4 DEF PaneExit
  <2>3. SpacesOpen' = SpacesOpen
    BY <2>1 DEF SpacesOpen
  <2>4. q \in Panes' /\ place'[q].space = s
    BY <1>2 DEF OfSpace
  <2>5. ASSUME NEW r \in SpacesOpen
        PROVE  focus'[r] \in Panes' /\ place'[focus'[r]].space = r
    <3>1. focus[r] \in Panes /\ place[focus[r]].space = r
      BY FocusFacts
    <3>2. CASE r = s
      BY <1>1, <1>2, <2>1, <2>4, <3>1, <3>2 DEF SpacesOpen
    <3>3. CASE r # s
      <4>1. focus'[r] = focus[r] /\ focus[r] # p
        BY <2>1, <3>1, <3>3 DEF SpacesOpen
      <4>2. QED
        BY <1>1, <1>2, <3>1, <4>1
    <3>4. QED
      BY <3>2, <3>3
  <2>6. \A x \in Panes' : place'[x].tab \in 1 .. ids'.tab /\ place'[x].space \in SpacesOpen'
    BY <1>1, <1>2, <2>3 DEF TreeOK
  <2>7. /\ Panes' \subseteq 1 .. ids'.pane /\ SpacesOpen' \subseteq 1 .. ids'.space
        /\ dying' \subseteq Panes' /\ eye' \in [Client -> SpacesOpen']
    BY <1>1, <1>2, <2>2, <2>3 DEF TreeOK
  <2>8. ASSUME NEW x \in Panes', NEW y \in Panes', place'[x].tab = place'[y].tab
        PROVE  place'[x].space = place'[y].space
    <3>1. place[x].tab = place[y].tab /\ x \in Panes /\ y \in Panes
      BY <1>2, <2>8
    <3>2. QED
      BY <1>2, <3>1, OneSpace
  <2>9. QED
    BY <1>1, <2>3, <2>5, <2>6, <2>7, <2>8 DEF TreeOK
<1>5. QED
  BY <1>3, <1>4

-----------------------------------------------------------------------------
(* Drops.  Panes move to a tab of their own space, and the focus follows.  *)
LEMMA MoveTreeOK ==
  ASSUME TreeOK, NEW ps \in SUBSET Panes, NEW t \in 1 .. ids'.tab,
         place' = MoveTo(ps, t),
         \A p, q \in ps : place[p].space = place[q].space,
         \A p \in ps, q \in Panes : place[q].tab = t => place[q].space = place[p].space,
         NEW c \in Client, NEW x, GoTo(c, x),
         ids' = ids \/ ids' = [ids EXCEPT !.tab = ids.tab + 1], UNCHANGED dying
  PROVE  TreeOK'
<1>1. /\ Panes' = Panes
      /\ \A p \in Panes : /\ place'[p].space = place[p].space
                          /\ place'[p].tab = IF p \in ps THEN t ELSE place[p].tab
  BY DEF MoveTo, Panes
<1>2. /\ SpacesOpen' = SpacesOpen /\ eye' \in [Client -> SpacesOpen]
      /\ \A s \in SpacesOpen : focus'[s] \in Panes /\ place[focus'[s]].space = s
  BY GoToFacts
<1>3. /\ ids' \in [pane : Nat, tab : Nat, space : Nat]
      /\ ids'.pane = ids.pane /\ ids'.space = ids.space
      /\ ids.tab \in Nat /\ (ids'.tab = ids.tab \/ ids'.tab = ids.tab + 1)
  BY DEF TreeOK
<1>4. ASSUME NEW p \in Panes, NEW q \in Panes, place'[p].tab = place'[q].tab
      PROVE  place'[p].space = place'[q].space
  <2>1. CASE p \in ps /\ q \in ps
    BY <1>1, <2>1
  <2>2. CASE p \in ps /\ q \notin ps
    BY <1>1, <1>4, <2>2
  <2>3. CASE p \notin ps /\ q \in ps
    BY <1>1, <1>4, <2>3
  <2>4. CASE p \notin ps /\ q \notin ps
    BY <1>1, <1>4, <2>4, OneSpace
  <2>5. QED
    BY <2>1, <2>2, <2>3, <2>4
<1>5. \A p \in Panes : place'[p].tab \in 1 .. ids'.tab /\ place'[p].space \in SpacesOpen
  BY <1>1, <1>3 DEF TreeOK
<1>6. QED
  BY <1>1, <1>2, <1>3, <1>4, <1>5 DEF TreeOK

(* Two panes trade places; a focus on one of them goes with the place.     *)
LEMMA SwapTreeOK ==
  ASSUME TreeOK, NEW p \in Panes, NEW q \in Panes,
         place' = [x \in Panes |-> place[Other(p, q, x)]],
         focus' = IF place[p].tab = place[q].tab THEN focus
                  ELSE [s \in SpacesOpen |-> Other(p, q, focus[s])],
         UNCHANGED <<eye, ids, dying>>
  PROVE  TreeOK'
<1>1. Panes' = Panes /\ SpacesOpen' = SpacesOpen
  BY DEF Panes, SpacesOpen
<1>2. \A x \in Panes : /\ Other(p, q, x) \in Panes /\ Other(p, q, Other(p, q, x)) = x
                       /\ place'[x] = place[Other(p, q, x)]
  BY DEF Other
<1>3. ASSUME NEW s \in SpacesOpen
      PROVE  focus'[s] \in Panes /\ place'[focus'[s]].space = s
  <2>1. focus[s] \in Panes /\ place[focus[s]].space = s
    BY FocusFacts
  <2>2. CASE place[p].tab = place[q].tab
    <3>1. place[p].space = place[q].space /\ focus'[s] = focus[s]
      BY <2>2, OneSpace
    <3>2. place[Other(p, q, focus[s])].space = place[focus[s]].space
      BY <3>1 DEF Other
    <3>3. QED
      BY <1>2, <2>1, <3>1, <3>2
  <2>3. CASE place[p].tab # place[q].tab
    BY <1>2, <2>1, <2>3
  <2>4. QED
    BY <2>2, <2>3
<1>4. ASSUME NEW x \in Panes, NEW y \in Panes, place'[x].tab = place'[y].tab
      PROVE  place'[x].space = place'[y].space
  BY <1>2, <1>4, OneSpace
<1>5. \A x \in Panes : place'[x].tab \in 1 .. ids.tab /\ place'[x].space \in SpacesOpen
  BY <1>2 DEF TreeOK
<1>6. QED
  BY <1>1, <1>3, <1>4, <1>5 DEF TreeOK

LEMMA ReleaseTreeOK == ASSUME TreeOK, NEW c \in Client, Release(c) PROVE TreeOK'
<1> DEFINE d == drag[c]
           h == d.hover
           t == d.on
<1>1. /\ UNCHANGED dying
      /\ ids' = IF ids.tab + 1 \in {place'[p].tab : p \in Panes}
                THEN [ids EXCEPT !.tab = ids.tab + 1] ELSE ids
  BY DEF Release
<1>2. ids.tab \in Nat /\ ids \in [pane : Nat, tab : Nat, space : Nat]
  BY DEF TreeOK
<1>3. \A p \in Panes : place[p].tab \in 1 .. ids.tab
  BY DEF TreeOK
<1>4. ASSUME place' = place PROVE ids' = ids
  BY <1>1, <1>2, <1>3, <1>4
<1>5. CASE UNCHANGED <<place, focus, eye>>
  BY <1>1, <1>4, <1>5, SameTreeOK DEF tree
<1>6. ASSUME DropTab(c, t, h) PROVE TreeOK'
  <2>1. CASE /\ h.at = "edge" /\ h.id \in Panes /\ OfTab(t) # {} /\ place[h.id].tab # t
             /\ \A p \in OfTab(t) : place[p].space = place[h.id].space
    <3>1. place' = MoveTo(OfTab(t), place[h.id].tab) /\ \E p \in OfTab(t) : GoTo(c, p)
      BY <1>6, <2>1 DEF DropTab
    <3>2. OfTab(t) \in SUBSET Panes /\ place[h.id].tab \in 1 .. ids.tab
      BY <1>3, <2>1 DEF OfTab
    <3>3. \A p \in Panes : place'[p].tab \in 1 .. ids.tab
      BY <1>3, <3>1, <3>2 DEF MoveTo
    <3>4. ids' = ids
      BY <1>1, <1>2, <3>3
    <3>5. \A p \in OfTab(t), q \in Panes :
            place[q].tab = place[h.id].tab => place[q].space = place[p].space
      BY <2>1, <3>2, OneSpace
    <3>6. PICK x \in OfTab(t) : GoTo(c, x)
      BY <3>1
    <3>7. \A p, q \in OfTab(t) : place[p].space = place[q].space
      BY <2>1
    <3>8. place[h.id].tab \in 1 .. ids'.tab /\ place' = MoveTo(OfTab(t), place[h.id].tab)
      BY <3>1, <3>2, <3>4
    <3>9. UNCHANGED dying
      BY <1>1
    <3> DEFINE n == place[h.id].tab
               ps == OfTab(t)
    <3> HIDE DEF n, ps, t
    <3>10. QED
      BY <3>2, <3>4, <3>5, <3>6, <3>7, <3>8, <3>9, MoveTreeOK DEF n, ps
  <2>2. CASE place' = place /\ \E p \in OfTab(t) : GoTo(c, p)
    BY <1>1, <1>4, <2>2, GoToTreeOK
  <2>3. QED
    BY <1>5, <1>6, <2>1, <2>2 DEF DropTab
<1>7. ASSUME DropPane(c, t, h) PROVE TreeOK'
  <2>1. CASE t \in Panes /\ h.at = "centre" /\ h.id \in Panes
    <3>1. /\ place' = [x \in Panes |-> place[Other(t, h.id, x)]] /\ UNCHANGED eye
          /\ focus' = IF place[t].tab = place[h.id].tab THEN focus
                      ELSE [s \in SpacesOpen |-> Other(t, h.id, focus[s])]
      BY <1>7, <2>1 DEF DropPane
    <3>2. \A p \in Panes : place'[p].tab \in 1 .. ids.tab
      BY <1>3, <2>1, <3>1 DEF Other
    <3>3. ids' = ids
      BY <1>1, <1>2, <3>2
    <3>4. QED
      BY <1>1, <2>1, <3>1, <3>3, SwapTreeOK
  <2>2. ASSUME t \in Panes, NEW n, place' = MoveTo({t}, n), GoTo(c, t),
               \/ n = ids.tab + 1
               \/ \E q \in Panes : place[q].tab = n /\ place[q].space = place[t].space
        PROVE  TreeOK'
    <3>1. Panes' = Panes /\ place'[t].tab = n
          /\ \A p \in Panes \ {t} : place'[p].tab = place[p].tab
      BY <2>2 DEF MoveTo, Panes
    <3>2. n \in 1 .. ids'.tab /\ (ids' = ids \/ ids' = [ids EXCEPT !.tab = ids.tab + 1])
      <4>1. CASE n = ids.tab + 1
        <5>1. ids' = [ids EXCEPT !.tab = ids.tab + 1]
          BY <1>1, <2>2, <3>1, <4>1
        <5>2. QED
          BY <1>2, <4>1, <5>1
      <4>2. CASE n # ids.tab + 1
        <5>1. n \in 1 .. ids.tab
          BY <1>3, <2>2, <4>2
        <5>2. ids' = ids
          BY <1>1, <1>2, <1>3, <3>1, <4>2
        <5>3. QED
          BY <5>1, <5>2
      <4>3. QED
        BY <4>1, <4>2
    <3>3. ASSUME NEW p \in {t}, NEW q \in Panes, place[q].tab = n
          PROVE  place[q].space = place[p].space
      <4>1. n # ids.tab + 1
        BY <1>2, <1>3, <3>3
      <4>2. QED
        BY <2>2, <3>3, <4>1, OneSpace
    <3>4. {t} \in SUBSET Panes /\ \A p, q \in {t} : place[p].space = place[q].space
      BY <2>2
    <3>5. UNCHANGED dying
      BY <1>1
    <3> HIDE DEF t
    <3>6. QED
      BY <2>2, <3>2, <3>3, <3>4, <3>5, MoveTreeOK
  <2>3. CASE t \in Panes /\ h.at = "edge" /\ h.id \in OfSpace(place[t].space)
    <3>1. place' = MoveTo({t}, place[h.id].tab) /\ GoTo(c, t)
      BY <1>7, <2>3 DEF DropPane
    <3>2. h.id \in Panes /\ place[h.id].space = place[t].space
      BY <2>3 DEF OfSpace
    <3>3. QED
      BY <2>2, <2>3, <3>1, <3>2
  <2>4. CASE /\ t \in Panes /\ h.at = "tab" /\ OfTab(h.id) \cap OfSpace(place[t].space) # {}
             /\ place[t].tab # h.id
    <3>1. place' = MoveTo({t}, h.id) /\ GoTo(c, t)
      BY <1>7, <2>4 DEF DropPane
    <3>2. \E q \in Panes : place[q].tab = h.id /\ place[q].space = place[t].space
      BY <2>4 DEF OfTab, OfSpace
    <3>3. QED
      BY <2>2, <2>4, <3>1, <3>2
  <2>5. CASE t \in Panes /\ h.at = "new" /\ OfTab(place[t].tab) # {t}
    <3>1. place' = MoveTo({t}, ids.tab + 1) /\ GoTo(c, t)
      BY <1>7, <2>5 DEF DropPane
    <3>2. QED
      BY <2>2, <2>5, <3>1
  <2>6. CASE UNCHANGED <<place, focus, eye>>
    BY <1>5, <2>6
  <2>7. QED
    BY <1>7, <2>1, <2>3, <2>4, <2>5, <2>6 DEF DropPane
<1>8. QED
  BY <1>5, <1>6, <1>7 DEF Release

-----------------------------------------------------------------------------
(* Every action is one of these operations.                                *)
LEMMA KeyTreeOK == ASSUME TreeOK, NEW c \in Client, Key(c) PROVE TreeOK'
<1>1. eye[c] \in SpacesOpen /\ Focused(c) \in Panes
  BY FocusFacts DEF TreeOK
<1>2. ASSUME OpensTabOrSpace(c) PROVE TreeOK'
  BY <1>2, OpenTabTreeOK, OpenSpaceTreeOK DEF OpensTabOrSpace
<1>3. CASE PrefixKey(c) \/ KeyOpens(c) \/ KeyDismisses(c) \/ SearchKey(c)
  BY <1>3, SameTreeOK DEF PrefixKey, KeyOpens, KeyDismisses, SearchKey
<1>4. CASE KeySplits(c)
  BY <1>1, <1>4, SplitTreeOK DEF KeySplits
<1>5. CASE KeyOpensTab(c) \/ KeyOpensSpace(c)
  BY <1>1, <1>5, OpenTabTreeOK, OpenSpaceTreeOK DEF KeyOpensTab, KeyOpensSpace, OpenTab
<1>6. CASE KeyCloses(c) \/ ConfirmClose(c)
  BY <1>6, KillTreeOK DEF KeyCloses, ConfirmClose
<1>7. CASE KeyGoes(c)
  BY <1>7, GoToTreeOK DEF KeyGoes
<1>8. CASE PromptEnter(c)
  <2>1. CASE UNCHANGED tree
    BY <2>1, SameTreeOK
  <2>2. CASE OpenSpace(c) \/ OpensTabOrSpace(c)
    BY <1>2, <2>2, OpenSpaceTreeOK
  <2>3. CASE Switch(mode[c].on)
    BY <2>3, KillsOneTreeOK DEF Switch
  <2>4. QED
    BY <1>8, <2>1, <2>2, <2>3 DEF PromptEnter
<1>9. QED
  BY <1>3, <1>4, <1>5, <1>6, <1>7, <1>8 DEF Key

LEMMA MenuTreeOK == ASSUME TreeOK, NEW c \in Client, MenuPick(c) PROVE TreeOK'
<1> DEFINE on == mode[c].on
<1>1. CASE \/ UNCHANGED tree
           \/ \E ps : Kill(ps)
           \/ \E p : GoTo(c, p) /\ UNCHANGED <<place, ids, dying>>
  BY <1>1, SameTreeOK, KillTreeOK, GoToTreeOK
<1>2. CASE OpenTab(c) \/ OpenSpace(c) \/ OpensTabOrSpace(c)
  <2>1. eye[c] \in SpacesOpen
    BY DEF TreeOK
  <2>2. QED
    BY <1>2, <2>1, OpenTabTreeOK, OpenSpaceTreeOK DEF OpenTab, OpensTabOrSpace
<1>3. CASE \E p \in Panes : Split(c, p)
  BY <1>3, SplitTreeOK
<1>4. CASE \E p \in Panes : OpenBeside(p) /\ UNCHANGED <<focus, eye, dying>>
  <2>1. dying \subseteq Panes
    BY DEF TreeOK
  <2>2. QED
    BY <1>4, <2>1, BesideTreeOK
<1>5. CASE \E p \in Panes : Switch(p)
  BY <1>5, KillsOneTreeOK
<1>6. \/ PaneMenu(c, on) \/ AgentMenu(c, on) \/ PaneItem(c) \/ StartProfile(c, on)
      \/ Switch(on) \/ TabMenu(c, on) \/ SpaceMenu(c, on) \/ WorktreeItem(c, on)
      \/ AppMenu(c) \/ SpaceProfile(c) \/ ProfileItem(c) \/ CatalogItem(c) \/ HeadItem(c)
      \/ RecentSpaceItem(c) \/ ContinueItem(c)
  BY DEF MenuPick
<1>7. CASE PaneMenu(c, on) \/ AgentMenu(c, on) \/ PaneItem(c)
  BY <1>1, <1>3, <1>7 DEF PaneMenu, AgentMenu, PaneItem, SplitsNamed, Asks
<1>8. CASE StartProfile(c, on)
  BY <1>2, <1>4, <1>8 DEF StartProfile
<1>9. CASE Switch(on)
  BY <1>5, <1>9 DEF Switch
<1>10. CASE TabMenu(c, on) \/ SpaceMenu(c, on) \/ WorktreeItem(c, on)
  BY <1>1, <1>2, <1>10 DEF TabMenu, SpaceMenu, WorktreeItem, Asks
<1>11. CASE AppMenu(c) \/ SpaceProfile(c) \/ ProfileItem(c) \/ CatalogItem(c)
  BY <1>1, <1>2, <1>11 DEF AppMenu, SpaceProfile, ProfileItem, CatalogItem, Asks
<1>12. CASE HeadItem(c) \/ RecentSpaceItem(c) \/ ContinueItem(c)
  BY <1>1, <1>2, <1>12 DEF HeadItem, RecentSpaceItem, ContinueItem, Asks
<1>13. QED
  BY <1>6, <1>7, <1>8, <1>9, <1>10, <1>11, <1>12

LEMMA MouseTreeOK == ASSUME TreeOK, NEW c \in Client, Mouse(c) PROVE TreeOK'
<1>1. ASSUME UNCHANGED <<place, focus, ids, dying>>,
             eye' = eye \/ \E s \in SpacesOpen : eye' = [eye EXCEPT ![c] = s]
      PROVE  TreeOK'
  <2>1. dying' \subseteq Panes /\ eye' \in [Client -> SpacesOpen]
    BY <1>1 DEF TreeOK
  <2>2. QED
    BY <1>1, <2>1, LookTreeOK
<1>2. CASE MenuPick(c) \/ Release(c)
  BY <1>2, MenuTreeOK, ReleaseTreeOK
<1>3. CASE \/ PressDismisses(c) \/ PressTab(c) \/ PressDivider(c) \/ MiddlePress(c)
           \/ Motion(c)
  BY <1>3, SameTreeOK DEF PressDismisses, PressTab, PressDivider, MiddlePress, Motion
<1>4. CASE PressToast(c) \/ PressPane(c)
  BY <1>4, GoToTreeOK DEF PressToast, PressPane
<1>5. CASE PressTabBar(c)
  <2>1. eye[c] \in SpacesOpen
    BY DEF TreeOK
  <2>2. QED
    BY <1>5, <2>1, OpenTabTreeOK, KillTreeOK, SameTreeOK DEF PressTabBar, OpenTab
<1>6. CASE PressSidebar(c)
  BY <1>1, <1>6, GoToTreeOK DEF PressSidebar
<1>7. CASE PressTeamPanel(c)
  BY <1>1, <1>7, GoToTreeOK DEF PressTeamPanel
<1>8. CASE RightPress(c)
  BY <1>1, <1>8, GoToTreeOK DEF RightPress
<1>9. QED
  BY <1>2, <1>3, <1>4, <1>5, <1>6, <1>7, <1>8 DEF Mouse

LEMMA OthersTreeOK ==
  ASSUME TreeOK,
         ApiOpens \/ \E p \in Issued : PaneExit(p) \/ ApiCloses(p) \/ ApiFocuses(p)
  PROVE  TreeOK'
<1>1. CASE ApiOpens
  <2>1. dying \subseteq Panes
    BY DEF TreeOK
  <2>2. QED
    BY <1>1, <2>1, BesideTreeOK, TabTreeOK, SpaceTreeOK DEF ApiOpens
<1>2. ASSUME NEW p, PaneExit(p) \/ ApiCloses(p) PROVE TreeOK'
  BY <1>2, ExitTreeOK, KillTreeOK DEF ApiCloses
<1>3. ASSUME NEW p, ApiFocuses(p) PROVE TreeOK'
  <2>1. /\ p \in Panes /\ place[p].space \in SpacesOpen
        /\ focus' = [focus EXCEPT ![place[p].space] = p]
        /\ eye' = [c \in Client |-> place[p].space]
        /\ UNCHANGED <<place, ids, dying>>
    BY <1>3 DEF ApiFocuses, TreeOK
  <2>2. SpacesOpen' = SpacesOpen /\ Panes' = Panes /\ eye' \in [Client -> SpacesOpen]
    BY <2>1 DEF SpacesOpen, Panes
  <2>3. \A s \in SpacesOpen : focus'[s] \in Panes /\ place[focus'[s]].space = s
    BY <2>1, FocusFacts DEF TreeOK, SpacesOpen
  <2>4. QED
    BY <2>1, <2>2, <2>3 DEF TreeOK
<1>4. QED
  BY <1>1, <1>2, <1>3

(* A focus or swap key whose pane is still on the tab.                     *)
LEMMA NeighbourTreeOK ==
  ASSUME TreeOK, NEW c \in Client, KeyFocuses(c) \/ KeySwaps(c), ~astray'
  PROVE  TreeOK'
<1>1. CASE KeyFocuses(c)
  <2>1. PICK q : ActsOn(c, q) /\ focus' = [focus EXCEPT ![eye[c]] = q]
    BY <1>1 DEF KeyFocuses
  <2>2. Focused(c) \in Panes /\ place[Focused(c)].space = eye[c] /\ eye[c] \in SpacesOpen
    BY FocusFacts DEF Focused, TreeOK
  <2>3. q \in Panes /\ place[q].tab = place[Focused(c)].tab
    BY <2>1 DEF ActsOn, OfTab, ActiveTab
  <2>4. place[q].space = eye[c]
    BY <2>2, <2>3, OneSpace
  <2>5. eye' = [eye EXCEPT ![c] = eye[c]] /\ UNCHANGED <<place, ids, dying>>
    BY <1>1 DEF KeyFocuses, TreeOK
  <2>6. GoTo(c, q)
    BY <2>1, <2>3, <2>4, <2>5 DEF GoTo
  <2>7. QED
    BY <2>5, <2>6, GoToTreeOK
<1>2. CASE KeySwaps(c)
  <2>1. UNCHANGED tree
    BY <1>2 DEF KeySwaps, ActsOn, tree
  <2>2. QED
    BY <2>1, SameTreeOK
<1>3. QED
  BY <1>1, <1>2

LEMMA StepTreeOK == ASSUME TreeOK, Step PROVE TreeOK'
<1>1. ASSUME NEW c \in Client, Key(c) \/ Mouse(c) PROVE TreeOK'
  BY <1>1, KeyTreeOK, MouseTreeOK
<1>2. ASSUME NEW c \in Client, EscDrag(c) \/ Monitor(c) PROVE TreeOK'
  BY <1>2, SameTreeOK
     DEF EscDrag, Monitor, OpenMonitor, CloseMonitor, PickProcess, LeaveProcess, KillProcess
<1>3. ASSUME NEW c \in Client, Reattach(c) PROVE TreeOK'
  <2>1. /\ UNCHANGED <<place, focus, ids>> /\ dying' \subseteq Panes
        /\ eye' \in [Client -> SpacesOpen]
    BY <1>3 DEF Reattach, TreeOK
  <2>2. QED
    BY <2>1, LookTreeOK
<1>4. CASE \E pid \in Pid : Process(pid)
  BY <1>4, SameTreeOK DEF Process, tree
<1>5. CASE ApiOpens \/ \E p \in Issued : PaneExit(p) \/ ApiCloses(p) \/ ApiFocuses(p)
  BY <1>5, OthersTreeOK
<1>6. QED
  BY <1>1, <1>2, <1>3, <1>4, <1>5 DEF Step

(* The tree as long as no key has gone astray.                             *)
Tracked == astray \in BOOLEAN /\ (astray \/ TreeOK)

LEMMA NextTracked == Tracked /\ [Next]_vars => Tracked'
<1> SUFFICES ASSUME Tracked, [Next]_vars PROVE Tracked'
  OBVIOUS
<1>1. CASE WsPoll \/ UNCHANGED vars
  BY <1>1, SameTreeOK DEF WsPoll, vars, tree, Tracked
<1>2. CASE ~astray /\ Step /\ UNCHANGED astray
  BY <1>2, StepTreeOK DEF Tracked
<1>3. ASSUME ~astray, NEW c \in Client, KeyFocuses(c) \/ KeySwaps(c) PROVE Tracked'
  <2>1. astray' \in BOOLEAN
    BY <1>3 DEF KeyFocuses, KeySwaps, ActsOn
  <2>2. QED
    BY <1>3, <2>1, NeighbourTreeOK DEF Tracked
<1>4. QED
  BY <1>1, <1>2, <1>3 DEF Next

(* However stale the frame that is clicked on, the toast or the dialog     *)
(* that is answered, the focus of every space is on one of its panes,      *)
(* until a focus or swap key, which takes a pane of the last frame as it   *)
(* is, has acted on one that had left the tab.                             *)
THEOREM FocusOnLivePanes == Spec => []FocusAlive
<1>1. Tracked => FocusAlive
  BY DEF Tracked, TreeOK, FocusAlive, OfSpace
<1>2. Init => Tracked
  BY InitTreeOK DEF Init, Tracked
<1>3. QED
  BY <1>1, <1>2, NextTracked, PTL DEF Spec

-----------------------------------------------------------------------------
(* Drags.  Every action arms one, lets go of what a press finds, moves the *)
(* mark of one that is held, or leaves them alone.                         *)
DragOK(d) ==
  /\ d = [kind |-> d.kind, on |-> d.on, hover |-> d.hover, mine |-> d.mine]
  /\ d.kind \in Drops => d.mine = TRUE
DragsOK == drag = [c \in Client |-> drag[c]] /\ \A c \in Client : DragOK(drag[c])

LEMMA DragForm ==
  ASSUME NEW k, NEW i, NEW h, NEW m, k \in Drops => m = TRUE
  PROVE  DragOK([kind |-> k, on |-> i, hover |-> h, mine |-> m])
BY DEF DragOK

LEMMA OneDrag ==
  ASSUME DragsOK, NEW c \in Client, NEW d, DragOK(d), drag' = [drag EXCEPT ![c] = d]
  PROVE  DragsOK'
BY DEF DragsOK

LEMMA SameDrags == ASSUME DragsOK, UNCHANGED drag PROVE DragsOK'
BY DEF DragsOK

LEMMA ArmsDrag == ASSUME DragsOK, NEW c \in Client, NEW k, NEW i, Arms(c, k, i) PROVE DragsOK'
<1>1. DragOK(Drag(k, i))
  BY DEF DragOK, Drag
<1>2. QED
  BY <1>1, OneDrag DEF Arms

LEMMA DropsDrag ==
  ASSUME DragsOK, NEW c \in Client, drag' = [drag EXCEPT ![c] = NoDrag]
  PROVE  DragsOK'
<1>1. DragOK(NoDrag)
  BY DEF DragOK, NoDrag
<1>2. QED
  BY <1>1, OneDrag

LEMMA PressedDrag == ASSUME DragsOK, NEW c \in Client, Pressed(c) PROVE DragsOK'
<1> DEFINE d == [drag[c] EXCEPT !.mine = FALSE]
<1>1. CASE Kept(c) = NoDrag
  BY <1>1, DropsDrag DEF Pressed
<1>2. CASE Kept(c) # NoDrag
  <2>1. Kept(c) = drag[c] /\ drag[c].kind \notin Drops
    BY <1>2 DEF Kept
  <2>2. DragOK(drag[c])
    BY DEF DragsOK
  <2>3. DragOK(d)
    <3>1. PICK k, i, h, m : drag[c] = [kind |-> k, on |-> i, hover |-> h, mine |-> m]
      BY <2>2 DEF DragOK
    <3>2. k \notin Drops
      BY <2>1, <3>1
    <3>3. \A x : [[kind |-> k, on |-> i, hover |-> h, mine |-> m] EXCEPT !.mine = x]
               = [kind |-> k, on |-> i, hover |-> h, mine |-> x]
      OBVIOUS
    <3>4. d = [kind |-> k, on |-> i, hover |-> h, mine |-> FALSE]
      BY <3>1, <3>3
    <3> HIDE DEF d
    <3>5. QED
      BY <3>2, <3>4, DragForm
  <2>4. drag' = [drag EXCEPT ![c] = d]
    BY <1>2, <2>1 DEF Pressed
  <2> HIDE DEF d
  <2>5. QED
    BY <2>3, <2>4, OneDrag
<1>3. QED
  BY <1>1, <1>2

LEMMA MotionDrag == ASSUME DragsOK, NEW c \in Client, Motion(c) PROVE DragsOK'
<1>1. PICK h : drag' = [drag EXCEPT ![c].hover = h]
  BY DEF Motion
<1> DEFINE d == [drag[c] EXCEPT !.hover = h]
<1>2. DragOK(drag[c])
  BY DEF DragsOK
<1>3. DragOK(d)
  BY <1>2 DEF DragOK
<1>4. drag' = [drag EXCEPT ![c] = d]
  BY <1>1
<1> HIDE DEF d
<1>5. QED
  BY <1>3, <1>4, OneDrag

LEMMA NextDragsOK == DragsOK /\ [Next]_vars => DragsOK'
<1> SUFFICES ASSUME DragsOK, [Next]_vars PROVE DragsOK'
  OBVIOUS
<1>1. ASSUME NEW c \in Client, Key(c) PROVE DragsOK'
  <2>1. UNCHANGED drag
    BY <1>1 DEF Key, Bound, PrefixKey, KeyOpens, KeySplits, KeyOpensTab, KeyOpensSpace, KeyCloses,
                KeyGoes, KeyDismisses, SearchKey, ConfirmClose, PromptEnter
  <2>2. QED
    BY <2>1, SameDrags
<1>2. ASSUME NEW c \in Client, Mouse(c) PROVE DragsOK'
  <2>1. CASE PressTab(c) \/ PressDivider(c)
    BY <2>1, ArmsDrag DEF PressTab, PressDivider
  <2>2. CASE PressPane(c)
    BY <2>2, ArmsDrag, PressedDrag DEF PressPane
  <2>3. CASE Motion(c)
    BY <2>3, MotionDrag
  <2>4. CASE Release(c)
    BY <2>4, DropsDrag DEF Release
  <2>5. CASE \/ PressDismisses(c) \/ MenuPick(c) \/ PressToast(c) \/ PressTabBar(c)
             \/ PressSidebar(c) \/ PressTeamPanel(c) \/ RightPress(c) \/ MiddlePress(c)
    <3>1. Pressed(c)
      BY <2>5 DEF PressDismisses, MenuPick, PressToast, PressTabBar, PressSidebar,
                  PressTeamPanel, RightPress, MiddlePress
    <3>2. QED
      BY <3>1, PressedDrag
  <2>6. QED
    BY <1>2, <2>1, <2>2, <2>3, <2>4, <2>5 DEF Mouse
<1>3. ASSUME NEW c \in Client, Monitor(c) PROVE DragsOK'
  <2>1. UNCHANGED drag \/ Pressed(c)
    BY <1>3 DEF Monitor, OpenMonitor, CloseMonitor, PickProcess, LeaveProcess, KillProcess, KeyOrPress
  <2>2. QED
    BY <2>1, SameDrags, PressedDrag
<1>4. ASSUME NEW c \in Client, EscDrag(c) \/ Reattach(c) PROVE DragsOK'
  BY <1>4, DropsDrag DEF EscDrag, Reattach
<1>5. CASE (\E pid \in Pid : Process(pid)) \/ WsPoll \/ UNCHANGED vars
  BY <1>5, SameDrags DEF Process, WsPoll, vars
<1>6. CASE ApiOpens \/ \E p \in Issued : PaneExit(p) \/ ApiCloses(p) \/ ApiFocuses(p)
  BY <1>6, SameDrags DEF ApiOpens, PaneExit, ApiCloses, ApiFocuses
<1>7. CASE \E c \in Client : KeyFocuses(c) \/ KeySwaps(c)
  BY <1>7, SameDrags DEF KeyFocuses, KeySwaps, Bound
<1>8. QED
  BY <1>1, <1>2, <1>3, <1>4, <1>5, <1>6, <1>7 DEF Next, Step

(* No release carries out a drag that was armed before the last press.     *)
THEOREM DropsAreOfThisPress == Spec => []DragOfThisPress
<1>1. Init => DragsOK
  <2>1. DragOK(NoDrag)
    BY DEF DragOK, NoDrag
  <2>2. QED
    BY <2>1 DEF Init, DragsOK
<1>2. DragsOK => DragOfThisPress
  BY DEF DragsOK, DragOK, DragOfThisPress
<1>3. QED
  BY <1>1, <1>2, NextDragsOK, PTL DEF Spec

-----------------------------------------------------------------------------
(* Dialogs.  Ids are handed out one after the other, so what a mode names  *)
(* stays an id that was.                                                   *)
IdsGrow == ids'.pane >= ids.pane /\ ids'.tab >= ids.tab /\ ids'.space >= ids.space

LEMMA OpensGrow ==
  ASSUME TreeOK, \/ \E p : OpenBeside(p) \/ Switch(p)
                 \/ \E c, p : Split(c, p)
                 \/ \E c : OpenTab(c) \/ OpenSpace(c) \/ OpensTabOrSpace(c)
                 \/ \E c, s : OpenTabIn(c, s)
                 \/ ApiOpens
  PROVE  IdsGrow
<1>1. PICK p, t, s \in Nat : ids = [pane |-> p, tab |-> t, space |-> s]
  BY DEF TreeOK
<1>2. \/ ids' = [ids EXCEPT !.pane = NewPane]
      \/ ids' = [ids EXCEPT !.pane = NewPane, !.tab = @ + 1]
      \/ ids' = [pane |-> NewPane, tab |-> ids.tab + 1, space |-> ids.space + 1]
  BY DEF OpenBeside, Switch, Split, OpenTab, OpenSpace, OpensTabOrSpace, OpenTabIn, ApiOpens
<1>3. CASE ids' = [ids EXCEPT !.pane = NewPane]
  <2>1. ids' = [pane |-> p + 1, tab |-> t, space |-> s]
    BY <1>1, <1>3 DEF NewPane
  <2>2. QED
    BY <1>1, <2>1 DEF IdsGrow
<1>4. CASE ids' = [ids EXCEPT !.pane = NewPane, !.tab = @ + 1]
  <2>1. ids' = [pane |-> p + 1, tab |-> t + 1, space |-> s]
    BY <1>1, <1>4 DEF NewPane
  <2>2. QED
    BY <1>1, <2>1 DEF IdsGrow
<1>5. CASE ids' = [pane |-> NewPane, tab |-> ids.tab + 1, space |-> ids.space + 1]
  BY <1>1, <1>5 DEF IdsGrow, NewPane
<1>6. QED
  BY <1>2, <1>3, <1>4, <1>5

LEMMA QuietGrow == ASSUME TreeOK, ids' = ids PROVE IdsGrow
BY DEF TreeOK, IdsGrow

LEMMA ReleaseGrow == ASSUME TreeOK, NEW c, Release(c) PROVE IdsGrow
<1>1. PICK p, t, s \in Nat : ids = [pane |-> p, tab |-> t, space |-> s]
  BY DEF TreeOK
<1>2. ids' = ids \/ ids' = [ids EXCEPT !.tab = @ + 1]
  BY DEF Release
<1>3. CASE ids' = [ids EXCEPT !.tab = @ + 1]
  <2>1. ids' = [pane |-> p, tab |-> t + 1, space |-> s]
    BY <1>1, <1>3
  <2>2. QED
    BY <1>1, <2>1 DEF IdsGrow
<1>4. QED
  BY <1>2, <1>3, QuietGrow

(* The modes a terminal can be in once the ids i were handed out.          *)
Fits(m, i) ==
  \/ m.kind \in PaneMode /\ m.on \in 0 .. i.pane /\ (m.on = 0 => m.kind = "agent_picker")
  \/ m.kind \in TabMode /\ m.on \in 1 .. i.tab
  \/ m.kind \in SpaceMode /\ m.on \in 1 .. i.space
  \/ m.kind \in Plain /\ m.on = 0
  \/ m.kind = "process" /\ m.on \in Pid
ModesFit == mode = [c \in Client |-> mode[c]] /\ \A c \in Client : Fits(mode[c], ids)
Listed == monitor \subseteq Pid /\ ours \subseteq Pid

(* What a dialog names may be gone, but not its id.                        *)
LEMMA ModeKept ==
  ASSUME TreeOK, TreeOK', IdsGrow, NEW m, Fits(m, ids)
  PROVE  Fits(m, ids')
<1>1. /\ ids.pane \in Nat /\ ids.tab \in Nat /\ ids.space \in Nat
      /\ ids'.pane \in Nat /\ ids'.tab \in Nat /\ ids'.space \in Nat
  BY DEF TreeOK
<1>2. 0 .. ids.pane \subseteq 0 .. ids'.pane /\ 1 .. ids.tab \subseteq 1 .. ids'.tab
      /\ 1 .. ids.space \subseteq 1 .. ids'.space
  BY <1>1 DEF IdsGrow
<1>3. QED
  BY <1>2, Zenon DEF Fits

LEMMA ModeMoves ==
  ASSUME TreeOK, TreeOK', IdsGrow, ModesFit, NEW c \in Client, NEW m, Fits(m, ids'),
         mode' = [mode EXCEPT ![c] = m]
  PROVE  ModesFit'
<1>1. mode' = [d \in Client |-> mode'[d]] /\ mode'[c] = m /\ \A d \in Client \ {c} : mode'[d] = mode[d]
  BY DEF ModesFit
<1>2. \A d \in Client : Fits(mode[d], ids')
  BY ModeKept DEF ModesFit
<1>3. QED
  BY <1>1, <1>2 DEF ModesFit

LEMMA ModesStay ==
  ASSUME TreeOK, TreeOK', IdsGrow, ModesFit, UNCHANGED mode
  PROVE  ModesFit'
BY ModeKept DEF ModesFit

LEMMA OpensFit ==
  ASSUME TreeOK, TreeOK', IdsGrow, ModesFit, NEW c \in Client, NEW k, NEW i, Opens(c, k, i),
         Fits(Mode(k, i), ids')
  PROVE  ModesFit'
BY ModeMoves DEF Opens

LEMMA ClosesFit ==
  ASSUME TreeOK, TreeOK', IdsGrow, ModesFit, NEW c \in Client, Closes(c)
  PROVE  ModesFit'
<1>1. Fits(Terminal, ids')
  BY DEF Fits, Terminal, Mode, Plain
<1>2. QED
  BY <1>1, ModeMoves DEF Closes

(* A mode that carries nothing, and what the terminal looks at.            *)
LEMMA LookFits ==
  ASSUME TreeOK, NEW c \in Client
  PROVE  /\ \A k \in Plain : Fits(Mode(k, 0), ids')
         /\ Focused(c) \in 1 .. ids.pane /\ ActiveTab(c) \in 1 .. ids.tab
         /\ eye[c] \in 1 .. ids.space
<1>1. \A k \in Plain : Fits(Mode(k, 0), ids')
  BY DEF Fits, Mode
<1>2. Focused(c) \in Panes /\ eye[c] \in SpacesOpen
  BY FocusFacts DEF TreeOK
<1>3. QED
  BY <1>1, <1>2 DEF TreeOK, ActiveTab

LEMMA NamedFits ==
  ASSUME TreeOK
  PROVE  /\ \A k \in PaneMode, p \in 1 .. ids.pane : Fits(Mode(k, p), ids)
         /\ \A k \in TabMode, t \in 1 .. ids.tab : Fits(Mode(k, t), ids)
         /\ \A k \in SpaceMode, s \in 1 .. ids.space : Fits(Mode(k, s), ids)
         /\ Fits(Mode("agent_picker", 0), ids)
<1>1. ids.pane \in Nat
  BY DEF TreeOK
<1>2. 1 .. ids.pane \subseteq 0 .. ids.pane /\ 0 \in 0 .. ids.pane /\ 0 \notin 1 .. ids.pane
  BY <1>1
<1>3. "agent_picker" \in PaneMode
  BY DEF PaneMode
<1>4. \A k, i : Mode(k, i).kind = k /\ Mode(k, i).on = i
  BY DEF Mode
<1>5. QED
  BY <1>2, <1>3, <1>4 DEF Fits

LEMMA NamedKept ==
  ASSUME TreeOK, TreeOK', IdsGrow, ModesFit, NEW c \in Client, NEW k, NEW i,
         Fits(Mode(k, i), ids), Opens(c, k, i)
  PROVE  ModesFit'
BY ModeKept, OpensFit

(* The id that the mode of a terminal carries.                             *)
LEMMA CarriedFacts ==
  ASSUME TreeOK, ModesFit, NEW c \in Client
  PROVE  /\ mode[c].kind \in PaneMode \ {"agent_picker"} => mode[c].on \in 1 .. ids.pane
         /\ mode[c].kind \in TabMode => mode[c].on \in 1 .. ids.tab
         /\ mode[c].kind \in SpaceMode => mode[c].on \in 1 .. ids.space
<1>1. Fits(mode[c], ids) /\ ids.pane \in Nat
  BY DEF ModesFit, TreeOK
<1>2. PaneMode \cap TabMode = {} /\ PaneMode \cap SpaceMode = {} /\ TabMode \cap SpaceMode = {}
  BY DEF PaneMode, TabMode, SpaceMode
<1>3. Plain \cap (PaneMode \cup TabMode \cup SpaceMode) = {}
  BY DEF Plain, PaneMode, TabMode, SpaceMode
<1>4. "process" \notin PaneMode \cup TabMode \cup SpaceMode
  BY DEF PaneMode, TabMode, SpaceMode
<1>5. \A i \in 0 .. ids.pane : i # 0 => i \in 1 .. ids.pane
  BY <1>1
<1>6. mode[c].kind \in PaneMode \ {"agent_picker"} => mode[c].on \in 1 .. ids.pane
  BY <1>1, <1>2, <1>3, <1>4, <1>5 DEF Fits
<1>7. QED
  BY <1>1, <1>2, <1>3, <1>4, <1>6 DEF Fits

LEMMA KeyFits ==
  ASSUME TreeOK, TreeOK', ModesFit, NEW c \in Client, Key(c)
  PROVE  ModesFit'
<1>1. ASSUME PrefixKey(c) \/ KeyOpens(c) \/ KeyDismisses(c) \/ SearchKey(c) \/ ConfirmClose(c)
             \/ KeyCloses(c) \/ KeyGoes(c)
      PROVE  ModesFit'
  <2>1. ids' = ids
    BY <1>1 DEF PrefixKey, KeyOpens, KeyDismisses, SearchKey, ConfirmClose, KeyCloses, KeyGoes, Kill, tree
  <2>2. IdsGrow
    BY <2>1, QuietGrow
  <2>3. CASE KeyOpens(c)
    <3>1. PICK m \in {Terminal, Mode("resize", 0), Mode("help", 0), Mode("search", 0), Mode("prompt", 0),
               Mode("confirm_close", Focused(c)), Mode("rename_tab", ActiveTab(c)),
               Mode("rename_space", eye[c])} :
           mode' = [mode EXCEPT ![c] = m]
      BY <2>3 DEF KeyOpens
    <3>2. {"terminal", "resize", "help", "search", "prompt"} \subseteq Plain
      BY DEF Plain
    <3>3. "confirm_close" \in PaneMode /\ "rename_tab" \in TabMode /\ "rename_space" \in SpaceMode
      BY DEF PaneMode, TabMode, SpaceMode
    <3>4. Fits(m, ids')
      BY <2>1, <3>1, <3>2, <3>3, LookFits, NamedFits, Zenon DEF Terminal
    <3>5. QED
      BY <2>2, <3>1, <3>4, ModeMoves
  <2>4. CASE ~KeyOpens(c)
    <3>1. Closes(c) \/ \E k \in {"prefix", "search", "search_nav"} : Opens(c, k, 0)
      BY <1>1, <2>4 DEF PrefixKey, KeyDismisses, SearchKey, ConfirmClose, KeyCloses, KeyGoes
    <3>2. {"prefix", "search", "search_nav"} \subseteq Plain
      BY DEF Plain
    <3>3. QED
      BY <2>2, <3>1, <3>2, LookFits, OpensFit, ClosesFit
  <2>5. QED
    BY <2>3, <2>4
<1>2. ASSUME KeySplits(c) \/ KeyOpensSpace(c) PROVE ModesFit'
  BY <1>2, OpensGrow, ClosesFit DEF KeySplits, KeyOpensSpace
<1>3. ASSUME KeyOpensTab(c) PROVE ModesFit'
  <2>1. IdsGrow
    BY <1>3, OpensGrow DEF KeyOpensTab
  <2>2. ids.tab + 1 \in 1 .. ids'.tab
    <3>1. PICK p, t, s \in Nat : ids = [pane |-> p, tab |-> t, space |-> s]
      BY DEF TreeOK
    <3>2. ids' = [ids EXCEPT !.pane = NewPane, !.tab = @ + 1]
      BY <1>3 DEF KeyOpensTab, OpenTab, OpenTabIn
    <3>3. ids' = [pane |-> p + 1, tab |-> t + 1, space |-> s]
      BY <3>1, <3>2 DEF NewPane
    <3>4. QED
      BY <3>1, <3>3
  <2>3. Fits(Mode("rename_tab", ids.tab + 1), ids')
    BY <2>2 DEF Fits, Mode, TabMode
  <2>4. QED
    BY <1>3, <2>1, <2>3, OpensFit, ClosesFit DEF KeyOpensTab
<1>4. ASSUME PromptEnter(c) PROVE ModesFit'
  <2>1. IdsGrow
    BY <1>4, OpensGrow, QuietGrow DEF PromptEnter, tree
  <2>2. CASE Closes(c)
    BY <2>1, <2>2, ClosesFit
  <2>3. CASE Opens(c, "picker", 0)
    <3>1. "picker" \in Plain
      BY DEF Plain
    <3>2. QED
      BY <2>1, <2>3, <3>1, LookFits, OpensFit
  <2>4. CASE In(c, {"switch_prompt"}) /\ Opens(c, "switch_menu", mode[c].on)
    <3>1. {"switch_menu", "switch_prompt"} \subseteq PaneMode \ {"agent_picker"}
      BY DEF PaneMode
    <3>2. mode[c].on \in 1 .. ids.pane
      BY <2>4, <3>1, CarriedFacts DEF In
    <3>3. Fits(Mode("switch_menu", mode[c].on), ids)
      BY <3>1, <3>2, NamedFits
    <3>4. QED
      BY <2>1, <2>4, <3>3, NamedKept
  <2>5. QED
    BY <1>4, <2>2, <2>3, <2>4 DEF PromptEnter
<1>5. QED
  BY <1>1, <1>2, <1>3, <1>4 DEF Key

LEMMA MenuFits ==
  ASSUME TreeOK, TreeOK', ModesFit, NEW c \in Client, MenuPick(c)
  PROVE  ModesFit'
<1> DEFINE on == mode[c].on
<1>1. IdsGrow
  BY OpensGrow, QuietGrow
     DEF MenuPick, PaneMenu, AgentMenu, PaneItem, StartProfile, TabMenu, SpaceMenu, WorktreeItem,
         AppMenu, SpaceProfile, ProfileItem, CatalogItem, HeadItem, RecentSpaceItem, ContinueItem,
         SplitsNamed, Asks, Kill, tree
<1>2. CASE Closes(c)
  BY <1>1, <1>2, ClosesFit
<1>3. CASE \E k \in {"picker", "prompt", "help"} : Opens(c, k, 0)
  <2>1. {"picker", "prompt", "help"} \subseteq Plain
    BY DEF Plain
  <2>2. QED
    BY <1>1, <1>3, <2>1, LookFits, OpensFit
<1>4. CASE Opens(c, "agent_picker", 0)
  BY <1>1, <1>4, NamedFits, NamedKept
<1>5. ASSUME In(c, {"pane_menu", "agent_menu"}),
             NEW k \in {"agent_picker", "pane_picker", "rename_pane"}, Opens(c, k, on)
      PROVE  ModesFit'
  <2>1. {"pane_menu", "agent_menu"} \subseteq PaneMode \ {"agent_picker"}
        /\ {"agent_picker", "pane_picker", "rename_pane"} \subseteq PaneMode
    BY DEF PaneMode
  <2>2. on \in 1 .. ids.pane
    BY <1>5, <2>1, CarriedFacts DEF In
  <2>3. Fits(Mode(k, on), ids)
    BY <2>1, <2>2, NamedFits
  <2>4. QED
    BY <1>1, <1>5, <2>3, NamedKept
<1>6. ASSUME In(c, {"tab_menu"}), Opens(c, "rename_tab", on) PROVE ModesFit'
  <2>1. {"tab_menu", "rename_tab"} \subseteq TabMode
    BY DEF TabMode
  <2>2. Fits(Mode("rename_tab", on), ids)
    BY <1>6, <2>1, CarriedFacts, NamedFits DEF In
  <2>3. QED
    BY <1>1, <1>6, <2>2, NamedKept
<1>7. ASSUME In(c, {"space_menu"}),
             NEW k \in {"rename_space", "worktree_picker", "worktree_branch", "space_picker"},
             Opens(c, k, on)
      PROVE  ModesFit'
  <2>1. {"space_menu", "rename_space", "worktree_picker", "worktree_branch", "space_picker"}
          \subseteq SpaceMode
    BY DEF SpaceMode
  <2>2. Fits(Mode(k, on), ids)
    BY <1>7, <2>1, CarriedFacts, NamedFits DEF In
  <2>3. QED
    BY <1>1, <1>7, <2>2, NamedKept
<1>8. CASE In(c, {"pane_menu"}) /\ PaneMenu(c, on)
  BY <1>2, <1>5, <1>8 DEF PaneMenu, Asks, In
<1>9. CASE In(c, {"agent_menu"}) /\ AgentMenu(c, on)
  BY <1>2, <1>3, <1>5, <1>9 DEF AgentMenu, Asks, In
<1>10. CASE In(c, {"tab_menu"}) /\ TabMenu(c, on)
  BY <1>2, <1>6, <1>10 DEF TabMenu, Asks
<1>11. CASE In(c, {"space_menu"}) /\ SpaceMenu(c, on)
  BY <1>2, <1>7, <1>11 DEF SpaceMenu, Asks
<1>12. CASE AppMenu(c)
  BY <1>2, <1>3, <1>4, <1>12 DEF AppMenu, Asks
<1>13. CASE PaneItem(c) \/ ProfileItem(c) \/ CatalogItem(c) \/ HeadItem(c)
  BY <1>2, <1>3, <1>13 DEF PaneItem, ProfileItem, CatalogItem, HeadItem, Asks
<1>14. CASE \/ StartProfile(c, on) \/ WorktreeItem(c, on) \/ SpaceProfile(c)
            \/ RecentSpaceItem(c) \/ ContinueItem(c)
  BY <1>2, <1>14 DEF StartProfile, WorktreeItem, SpaceProfile, RecentSpaceItem, ContinueItem
<1> HIDE DEF on
<1>15. QED
  BY <1>2, <1>8, <1>9, <1>10, <1>11, <1>12, <1>13, <1>14 DEF MenuPick, on

LEMMA MouseFits ==
  ASSUME TreeOK, TreeOK', ModesFit, NEW c \in Client, Mouse(c)
  PROVE  ModesFit'
<1>1. CASE MenuPick(c)
  BY <1>1, MenuFits
<1>2. CASE Release(c)
  BY <1>2, ReleaseGrow, ModesStay DEF Release
<1>3. CASE PressTabBar(c)
  <2>1. IdsGrow
    BY <1>3, OpensGrow, QuietGrow DEF PressTabBar, Kill, tree
  <2>2. "exit_menu" \in Plain
    BY DEF Plain
  <2>3. QED
    BY <1>3, <2>1, <2>2, ModesStay, LookFits, OpensFit DEF PressTabBar
<1>4. ASSUME IdsGrow, ids' = ids,
             \/ PressDismisses(c) \/ PressToast(c) \/ PressTab(c) \/ PressDivider(c)
             \/ PressPane(c) \/ MiddlePress(c) \/ Motion(c)
      PROVE  ModesFit'
  BY <1>4, ModesStay, ClosesFit
     DEF PressDismisses, PressToast, PressTab, PressDivider, PressPane, MiddlePress, Motion
<1>5. ASSUME IdsGrow, PressSidebar(c) PROVE ModesFit'
  <2>1. {"app_menu", "picker", "prompt"} \subseteq Plain
    BY DEF Plain
  <2>2. QED
    BY <1>5, <2>1, ModesStay, LookFits, OpensFit DEF PressSidebar
<1>6. ASSUME IdsGrow, PressTeamPanel(c) PROVE ModesFit'
  <2>1. {"switch_prompt", "pane_picker"} \subseteq PaneMode
    BY DEF PaneMode
  <2>2. CASE UNCHANGED mode
    BY <1>6, <2>2, ModesStay
  <2>3. ASSUME NEW p \in Issued, NEW k \in {"switch_prompt", "pane_picker"}, Opens(c, k, p)
        PROVE  ModesFit'
    BY <1>6, <2>1, <2>3, NamedFits, NamedKept DEF Issued
  <2>4. QED
    BY <1>6, <2>2, <2>3 DEF PressTeamPanel
<1>7. ASSUME IdsGrow, RightPress(c) PROVE ModesFit'
  <2>1. "tab_menu" \in TabMode /\ "space_menu" \in SpaceMode /\ {"agent_menu", "pane_menu"} \subseteq PaneMode
    BY DEF TabMode, SpaceMode, PaneMode
  <2>2. /\ \A p \in Panes : p \in 1 .. ids.pane /\ place[p].tab \in 1 .. ids.tab
        /\ \A s \in SpacesOpen : s \in 1 .. ids.space
    BY DEF TreeOK
  <2>3. \/ \E p \in Panes : Opens(c, "tab_menu", place[p].tab)
        \/ \E s \in SpacesOpen : Opens(c, "space_menu", s)
        \/ \E p \in Panes, k \in {"agent_menu", "pane_menu"} : Opens(c, k, p)
    BY <1>7 DEF RightPress, OfSpace
  <2>4. \E k, i : Opens(c, k, i) /\ Fits(Mode(k, i), ids)
    BY <2>1, <2>2, <2>3, NamedFits
  <2>5. QED
    BY <1>7, <2>4, NamedKept
<1>8. CASE ids' = ids
  <2>1. IdsGrow
    BY <1>8, QuietGrow
  <2>2. QED
    BY <1>1, <1>2, <1>3, <1>4, <1>5, <1>6, <1>7, <1>8, <2>1 DEF Mouse
<1>9. CASE ids' # ids
  <2>1. MenuPick(c) \/ Release(c) \/ PressTabBar(c)
    BY <1>9 DEF Mouse, PressDismisses, PressToast, PressTab, PressDivider, PressPane, MiddlePress,
                Motion, PressSidebar, PressTeamPanel, RightPress, tree
  <2>2. QED
    BY <1>1, <1>2, <1>3, <2>1
<1>10. QED
  BY <1>8, <1>9

(* What is left of the tree once a key has gone astray.                    *)
Rooted ==
  /\ Panes # {} /\ Panes \subseteq Issued /\ dying \subseteq Issued
  /\ \A p \in Panes : place[p].tab \in 1 .. ids.tab /\ place[p].space \in SpacesOpen
  /\ SpacesOpen \subseteq 1 .. ids.space
  /\ \A c \in Client : eye[c] \in SpacesOpen

LEMMA TreeRooted == TreeOK => Rooted
<1> SUFFICES ASSUME TreeOK PROVE Rooted
  OBVIOUS
<1>1. Panes # {}
  BY DialogAssumption, FocusFacts
<1>2. QED
  BY <1>1 DEF TreeOK, Rooted, Issued

LEMMA StepModesFit ==
  ASSUME TreeOK, ModesFit, Listed, Step
  PROVE  ModesFit' /\ Listed'
<1>1. TreeOK'
  BY StepTreeOK
<1>2. ASSUME NEW c \in Client, Key(c) PROVE ModesFit' /\ Listed'
  <2>1. UNCHANGED procs
    BY <1>2 DEF Key, Bound, PrefixKey, KeyOpens, KeySplits, KeyOpensTab, KeyOpensSpace, KeyCloses,
                KeyGoes, KeyDismisses, SearchKey, ConfirmClose, PromptEnter
  <2>2. QED
    BY <1>1, <1>2, <2>1, KeyFits DEF Listed, procs
<1>3. ASSUME NEW c \in Client, Mouse(c) PROVE ModesFit' /\ Listed'
  <2>1. UNCHANGED procs
    BY <1>3 DEF Mouse, PressDismisses, MenuPick, PressToast, PressTab, PressTabBar, PressSidebar,
                PressTeamPanel, PressDivider, PressPane, RightPress, MiddlePress, Motion, Release
  <2>2. QED
    BY <1>1, <1>3, <2>1, MouseFits DEF Listed, procs
<1>4. ASSUME NEW c \in Client, Monitor(c) PROVE ModesFit' /\ Listed'
  <2>1. ids' = ids
    BY <1>4 DEF Monitor, OpenMonitor, CloseMonitor, PickProcess, LeaveProcess, KillProcess, tree
  <2>2. IdsGrow
    BY <2>1, QuietGrow
  <2>3. "monitor" \in Plain
    BY DEF Plain
  <2>4. ASSUME NEW pid \in Pid, Opens(c, "process", pid) PROVE ModesFit'
    <3>1. Fits(Mode("process", pid), ids')
      BY DEF Fits, Mode
    <3>2. QED
      BY <1>1, <2>2, <2>4, <3>1, OpensFit
  <2>5. ModesFit'
    BY <1>1, <1>4, <2>2, <2>3, <2>4, LookFits, OpensFit, ClosesFit
       DEF Monitor, OpenMonitor, CloseMonitor, PickProcess, LeaveProcess, KillProcess, Rows, Listed
  <2>6. Listed'
    BY <1>4 DEF Monitor, OpenMonitor, CloseMonitor, PickProcess, LeaveProcess, KillProcess, Refreshed,
                procs, Listed
  <2>7. QED
    BY <2>5, <2>6
<1>5. ASSUME NEW c \in Client, EscDrag(c) PROVE ModesFit' /\ Listed'
  <2>1. IdsGrow
    BY <1>5, QuietGrow DEF EscDrag, tree
  <2>2. QED
    BY <1>1, <1>5, <2>1, ModesStay DEF EscDrag, procs, Listed
<1>6. ASSUME NEW c \in Client, Reattach(c) PROVE ModesFit' /\ Listed'
  <2>1. IdsGrow
    BY <1>6, QuietGrow DEF Reattach
  <2>2. QED
    BY <1>1, <1>6, <2>1, ClosesFit DEF Reattach, Listed
<1>7. CASE \E pid \in Pid : Process(pid)
  <2>1. IdsGrow
    BY <1>7, QuietGrow DEF Process, tree
  <2>2. QED
    BY <1>1, <1>7, <2>1, ModesStay DEF Process, Listed
<1>8. CASE ApiOpens \/ \E p \in Issued : PaneExit(p) \/ ApiCloses(p) \/ ApiFocuses(p)
  <2>1. IdsGrow
    BY <1>8, OpensGrow, QuietGrow DEF PaneExit, ApiCloses, ApiFocuses, Kill
  <2>2. UNCHANGED <<mode, procs>>
    BY <1>8 DEF ApiOpens, PaneExit, ApiCloses, ApiFocuses
  <2>3. QED
    BY <1>1, <2>1, <2>2, ModesStay DEF procs, Listed
<1>9. QED
  BY <1>2, <1>3, <1>4, <1>5, <1>6, <1>7, <1>8 DEF Step

(* The poll, and a stutter, wherever the tree may be.                      *)
LEMMA PollListed ==
  ASSUME ModesFit, Listed, WsPoll \/ UNCHANGED vars
  PROVE  ModesFit' /\ Listed'
<1>1. UNCHANGED <<mode, ids, ours>> /\ monitor' \in {monitor, ours'}
  BY DEF WsPoll, vars, tree, Refreshed
<1>2. QED
  BY <1>1 DEF ModesFit, Listed

(* A focus or swap key, wherever its pane has gone.                        *)
LEMMA NeighbourFits ==
  ASSUME TreeOK, ModesFit, Listed, NEW c \in Client, KeyFocuses(c) \/ KeySwaps(c)
  PROVE  ModesFit' /\ Listed' /\ Rooted'
<1>1. Closes(c) /\ UNCHANGED <<eye, ids, dying, procs>>
  BY DEF KeyFocuses, KeySwaps, Bound
<1>2. Fits(Terminal, ids)
  BY DEF Fits, Terminal, Mode, Plain
<1>3. ModesFit'
  BY <1>1, <1>2 DEF ModesFit, Closes
<1>4. Listed'
  BY <1>1 DEF Listed, procs
<1>5. Focused(c) \in Panes /\ Rooted
  BY FocusFacts, TreeRooted
<1>6. SpacesOpen' = SpacesOpen
  <2>1. CASE KeyFocuses(c)
    BY <2>1 DEF KeyFocuses, SpacesOpen
  <2>2. CASE KeySwaps(c)
    BY <2>2 DEF KeySwaps, SpacesOpen
  <2>3. QED
    BY <2>1, <2>2
<1> eye' = eye /\ ids' = ids /\ dying' = dying /\ Issued' = Issued
  BY <1>1 DEF Issued
<1>7. CASE place' = place
  <2>1. Panes' = Panes
    BY <1>7 DEF Panes
  <2>2. QED
    BY <1>3, <1>4, <1>5, <1>6, <1>7, <2>1 DEF Rooted
<1>8. CASE place' # place
  <2>1. PICK q \in Issued : place' = [p \in (Panes \ {Focused(c)}) \cup {q} |->
                                       IF p = q THEN place[Focused(c)] ELSE place[p]]
    BY <1>8 DEF KeyFocuses, KeySwaps, Neighbours
  <2>2. Panes' = (Panes \ {Focused(c)}) \cup {q}
    BY <2>1 DEF Panes
  <2>3. \A p \in Panes' : \E r \in Panes : place'[p] = place[r]
    BY <1>5, <2>1, <2>2
  <2>4. QED
    <3>1. Panes' # {} /\ Panes' \subseteq Issued
      BY <1>5, <2>2 DEF Rooted
    <3>2. \A p \in Panes' : place'[p].tab \in 1 .. ids.tab /\ place'[p].space \in SpacesOpen
      BY <1>5, <2>3 DEF Rooted
    <3>3. QED
      BY <1>3, <1>4, <1>5, <1>6, <3>1, <3>2 DEF Rooted
<1>9. QED
  BY <1>7, <1>8

LEMMA TypesAtFirst == Init => ModesFit /\ Listed
<1>1. Fits(Terminal, ids)
  BY DEF Fits, Terminal, Mode, Plain
<1>2. QED
  BY <1>1 DEF Init, ModesFit, Listed

(* Dialogs and the monitor, and the tree or what is left of it.            *)
Known == Tracked /\ Rooted /\ ModesFit /\ Listed

LEMMA NextKnown == Known /\ [Next]_vars => Known'
<1> SUFFICES ASSUME Known, [Next]_vars PROVE Known'
  OBVIOUS
<1>1. Tracked'
  BY NextTracked DEF Known
<1>2. CASE WsPoll \/ UNCHANGED vars
  <2>1. ModesFit' /\ Listed'
    BY <1>2, PollListed DEF Known
  <2>2. UNCHANGED tree
    BY <1>2 DEF WsPoll, vars, tree
  <2>3. Rooted'
    BY <2>2 DEF Known, Rooted, Panes, SpacesOpen, Issued, tree
  <2>4. QED
    BY <1>1, <2>1, <2>3 DEF Known
<1>3. ASSUME ~astray PROVE TreeOK
  BY <1>3 DEF Known, Tracked
<1>4. CASE ~astray /\ Step /\ UNCHANGED astray
  <2>1. TreeOK' /\ ModesFit' /\ Listed'
    BY <1>3, <1>4, StepTreeOK, StepModesFit DEF Known
  <2>2. Rooted'
    BY <2>1, TreeRooted, PTL
  <2>3. QED
    BY <1>1, <2>1, <2>2 DEF Known
<1>5. ASSUME ~astray, NEW c \in Client, KeyFocuses(c) \/ KeySwaps(c) PROVE Known'
  BY <1>1, <1>3, <1>5, NeighbourFits DEF Known
<1>6. QED
  BY <1>2, <1>4, <1>5 DEF Next

(* Every dialog names an id that was handed out, every space a tab is in   *)
(* is open, and every terminal looks at one of them.                       *)
THEOREM TypeCorrect == Spec => []TypeOK
<1>1. Init => Known
  <2>1. Init => Tracked
    BY InitTreeOK DEF Init, Tracked
  <2>2. QED
    BY <2>1, InitTreeOK, TreeRooted, TypesAtFirst DEF Known
<1>2. Known => TypeOK
  <2> SUFFICES ASSUME Known PROVE TypeOK
    OBVIOUS
  <2>1. \A c \in Client : ModeOK(mode[c])
    BY DEF Known, ModesFit, Fits, ModeOK
  <2>2. QED
    BY <2>1 DEF Known, Tracked, Rooted, Listed, TypeOK
<1>3. QED
  BY <1>1, <1>2, NextKnown, PTL DEF Spec

-----------------------------------------------------------------------------
(* Answers.                                                                *)
About(m) ==
  /\ dying' \ dying \subseteq Named(m)
  /\ \A p \in DOMAIN place' \ Panes :
       place'[p].tab \in TabsOpen => \E q \in Named(m) \cap Panes : place'[p].tab = place[q].tab
  /\ m.kind \in PaneMode /\ m.on \notin Panes \cup {0} => place' = place

LEMMA QuietAbout == ASSUME NEW m, UNCHANGED <<place, dying>> PROVE About(m)
BY DEF About, Panes

LEMMA KillAbout ==
  ASSUME NEW m, NEW ps, Kill(ps), ps \cap Panes \subseteq Named(m)
  PROVE  About(m)
BY DEF About, Kill, Panes

(* A tab that is opened is none of those that are open.                    *)
LEMMA TabAbout ==
  ASSUME TreeOK, NEW m, m.kind \in PaneMode => m.on = 0,
         \/ \E c, s : OpenTabIn(c, s)
         \/ \E c : OpenTab(c) \/ OpenSpace(c) \/ OpensTabOrSpace(c)
  PROVE  About(m)
<1>1. dying' = dying /\ \E s : place' = Put(NewPane, ids.tab + 1, s)
  BY DEF OpenTab, OpensTabOrSpace, OpenTabIn, OpenSpace
<1>2. \A p \in DOMAIN place' \ Panes : place'[p].tab = ids.tab + 1
  BY <1>1 DEF Put, And, Panes
<1>3. ids.tab + 1 \notin TabsOpen
  BY DEF TreeOK, TabsOpen
<1>4. QED
  BY <1>1, <1>2, <1>3 DEF About

LEMMA BesideAbout ==
  ASSUME TreeOK, NEW m, m.kind \in PaneMode, m.on \in Panes, OpenBeside(m.on),
         dying' \ dying \subseteq {m.on}
  PROVE  About(m)
<1>1. Named(m) = {m.on}
  BY DEF Named
<1>2. \A p \in DOMAIN place' \ Panes : place'[p].tab = place[m.on].tab
  BY DEF OpenBeside, Put, And, Panes
<1>3. QED
  BY <1>1, <1>2 DEF About

(* The panes that a dialog names.                                          *)
LEMMA NamedFacts ==
  ASSUME NEW m
  PROVE  /\ m.kind \in PaneMode => Named(m) = {m.on}
         /\ m.kind \in TabMode => Named(m) = OfTab(m.on) /\ m.kind \notin PaneMode
         /\ m.kind \in SpaceMode => Named(m) = OfSpace(m.on) /\ m.kind \notin PaneMode
<1>1. PaneMode \cap TabMode = {} /\ PaneMode \cap SpaceMode = {} /\ TabMode \cap SpaceMode = {}
  BY DEF PaneMode, TabMode, SpaceMode
<1>2. QED
  BY <1>1 DEF Named

LEMMA MenuAbout ==
  ASSUME TreeOK, NEW c \in Client, MenuPick(c)
  PROVE  About(mode[c])
<1> DEFINE on == mode[c].on
           m == mode[c]
<1>1. CASE UNCHANGED tree
  BY <1>1, QuietAbout DEF tree
<1>2. ASSUME m.kind \notin PaneMode, OpenTab(c) \/ OpenSpace(c) \/ OpensTabOrSpace(c)
      PROVE  About(m)
  BY <1>2, TabAbout
<1>3. CASE In(c, {"pane_menu"}) /\ PaneMenu(c, on)
  <2>1. m.kind \in PaneMode
    BY <1>3 DEF In, PaneMode
  <2>2. UNCHANGED tree \/ Kill({on}) \/ (on \in Panes /\ Split(c, on))
    BY <1>3 DEF PaneMenu, Asks, SplitsNamed
  <2>3. CASE Kill({on})
    BY <2>1, <2>3, KillAbout, NamedFacts
  <2>4. CASE on \in Panes /\ Split(c, on)
    BY <2>1, <2>4, BesideAbout DEF Split
  <2>5. QED
    BY <1>1, <2>2, <2>3, <2>4
<1>4. CASE In(c, {"agent_menu"}) /\ AgentMenu(c, on)
  <2>1. m.kind \in PaneMode
    BY <1>4 DEF In, PaneMode
  <2>2. UNCHANGED <<place, dying>> \/ Kill({on})
    BY <1>4 DEF AgentMenu, Asks, tree
  <2>3. QED
    BY <2>1, <2>2, KillAbout, QuietAbout, NamedFacts
<1>5. CASE In(c, {"agent_picker"}) /\ StartProfile(c, on)
  <2>1. m.kind \in PaneMode
    BY <1>5 DEF In, PaneMode
  <2>2. CASE on = 0
    BY <1>5, <2>2, TabAbout DEF StartProfile
  <2>3. CASE on # 0
    BY <1>5, <2>1, <2>3, BesideAbout DEF StartProfile
  <2>4. QED
    BY <2>2, <2>3
<1>6. CASE In(c, {"switch_menu"}) /\ Switch(on)
  <2>1. m.kind \in PaneMode
    BY <1>6 DEF In, PaneMode
  <2>2. QED
    BY <1>6, <2>1, BesideAbout DEF Switch
<1>7. CASE In(c, {"tab_menu"}) /\ TabMenu(c, on)
  <2>1. m.kind \in TabMode
    BY <1>7 DEF In, TabMode
  <2>2. UNCHANGED tree \/ OpenTab(c) \/ Kill(OfTab(on) \cap OfSpace(eye[c]))
    BY <1>7 DEF TabMenu, Asks
  <2>3. QED
    BY <1>1, <1>2, <2>1, <2>2, KillAbout, NamedFacts
<1>8. CASE In(c, {"space_menu"}) /\ SpaceMenu(c, on)
  <2>1. m.kind \in SpaceMode
    BY <1>8 DEF In, SpaceMode
  <2>2. UNCHANGED tree \/ Kill(OfSpace(on))
    BY <1>8 DEF SpaceMenu, Asks
  <2>3. QED
    BY <1>1, <2>1, <2>2, KillAbout, NamedFacts
<1>9. CASE In(c, {"worktree_picker"}) /\ WorktreeItem(c, on)
  <2>1. m.kind \in SpaceMode
    BY <1>9 DEF In, SpaceMode
  <2>2. QED
    BY <1>2, <1>9, <2>1, NamedFacts DEF WorktreeItem
<1>10. CASE \/ In(c, {"app_menu"}) /\ AppMenu(c)
            \/ In(c, {"picker"}) /\ ( \/ ProfileItem(c) \/ CatalogItem(c) \/ HeadItem(c)
                                     \/ RecentSpaceItem(c) \/ ContinueItem(c))
  <2>1. m.kind \notin PaneMode
    BY <1>10 DEF In, PaneMode
  <2>2. UNCHANGED tree \/ OpenTab(c) \/ OpenSpace(c) \/ OpensTabOrSpace(c)
    BY <1>10 DEF AppMenu, ProfileItem, CatalogItem, HeadItem, RecentSpaceItem, ContinueItem, Asks
  <2>3. QED
    BY <1>1, <1>2, <2>1, <2>2
<1>11. CASE PaneItem(c) \/ SpaceProfile(c)
  BY <1>1, <1>11 DEF PaneItem, SpaceProfile, Asks
<1> HIDE DEF on, m
<1>12. QED
  BY <1>3, <1>4, <1>5, <1>6, <1>7, <1>8, <1>9, <1>10, <1>11 DEF MenuPick, on, m

LEMMA KeyAbout ==
  ASSUME TreeOK, NEW c \in Client, Key(c), mode[c].kind \in Question
  PROVE  About(mode[c])
<1> DEFINE m == mode[c]
<1>1. CASE KeyDismisses(c) \/ SearchKey(c) \/ PrefixKey(c) \/ KeyOpens(c) \/ KeyGoes(c)
  BY <1>1, QuietAbout DEF KeyDismisses, SearchKey, PrefixKey, KeyOpens, KeyGoes, tree
<1>2. ~Bound(c)
  BY DEF Bound, In, Question, Menu, Prompt
<1>3. CASE ConfirmClose(c)
  <2>1. m.kind \in PaneMode
    BY <1>3 DEF ConfirmClose, In, PaneMode
  <2>2. QED
    BY <1>3, <2>1, KillAbout, NamedFacts DEF ConfirmClose
<1>4. CASE PromptEnter(c)
  <2>1. CASE UNCHANGED tree
    BY <2>1, QuietAbout DEF tree
  <2>2. CASE In(c, {"worktree_branch"}) /\ OpenSpace(c)
    <3>1. m.kind \notin PaneMode
      BY <2>2 DEF In, PaneMode
    <3>2. QED
      BY <2>2, <3>1, TabAbout
  <2>3. CASE In(c, {"prompt"}) /\ OpensTabOrSpace(c)
    <3>1. m.kind \notin PaneMode
      BY <2>3 DEF In, PaneMode
    <3>2. QED
      BY <2>3, <3>1, TabAbout
  <2>4. CASE In(c, {"switch_prompt"}) /\ Switch(m.on)
    <3>1. m.kind \in PaneMode
      BY <2>4 DEF In, PaneMode
    <3>2. QED
      BY <2>4, <3>1, BesideAbout DEF Switch
  <2>5. QED
    BY <1>4, <2>1, <2>2, <2>3, <2>4 DEF PromptEnter
<1>5. QED
  BY <1>1, <1>2, <1>3, <1>4 DEF Key, KeySplits, KeyOpensTab, KeyOpensSpace, KeyCloses

(* A press that changes the mode changes nothing else.                     *)
LEMMA MouseAbout ==
  ASSUME TreeOK, NEW c \in Client, Mouse(c), mode' # mode
  PROVE  About(mode[c])
<1>1. CASE MenuPick(c)
  BY <1>1, MenuAbout
<1>2. CASE ~MenuPick(c)
  <2>1. UNCHANGED <<place, dying>>
    BY <1>2 DEF Mouse, PressDismisses, PressToast, PressTab, PressTabBar, PressSidebar,
                PressTeamPanel, PressDivider, PressPane, RightPress, MiddlePress, Motion, Release,
                tree
  <2>2. QED
    BY <2>1, QuietAbout
<1>3. QED
  BY <1>1, <1>2

(* The mode of a terminal is changed by its own steps only.                *)
LEMMA OwnMode ==
  ASSUME ModesFit, NEW c \in Client, Key(c) \/ Mouse(c) \/ Monitor(c) \/ Reattach(c) \/ EscDrag(c)
  PROVE  \A d \in Client \ {c} : mode'[d] = mode[d]
<1>1. UNCHANGED mode \/ \E m : mode' = [mode EXCEPT ![c] = m]
  <2>1. ASSUME Closes(c) \/ \E k, i : Opens(c, k, i)
        PROVE  \E m : mode' = [mode EXCEPT ![c] = m]
    BY <2>1 DEF Closes, Opens
  <2>2. ASSUME Key(c) PROVE \/ Closes(c) \/ (\E k, i : Opens(c, k, i))
                            \/ \E m : mode' = [mode EXCEPT ![c] = m]
    BY <2>2 DEF Key, PrefixKey, KeyOpens, KeySplits, KeyOpensTab, KeyOpensSpace, KeyCloses,
                KeyGoes, KeyDismisses, SearchKey, ConfirmClose, PromptEnter
  <2>3. ASSUME MenuPick(c) PROVE Closes(c) \/ \E k, i : Opens(c, k, i)
    BY <2>3 DEF MenuPick, PaneMenu, AgentMenu, PaneItem, StartProfile, TabMenu, SpaceMenu,
                WorktreeItem, AppMenu, SpaceProfile, ProfileItem, CatalogItem, HeadItem,
                RecentSpaceItem, ContinueItem, Asks
  <2>4. ASSUME Mouse(c) PROVE UNCHANGED mode \/ Closes(c) \/ \E k, i : Opens(c, k, i)
    BY <2>3, <2>4 DEF Mouse, PressDismisses, PressToast, PressTab, PressTabBar, PressSidebar,
                PressTeamPanel, PressDivider, PressPane, RightPress, MiddlePress, Motion, Release
  <2>5. ASSUME Monitor(c) \/ Reattach(c) \/ EscDrag(c)
        PROVE  UNCHANGED mode \/ Closes(c) \/ \E k, i : Opens(c, k, i)
    BY <2>5 DEF Monitor, OpenMonitor, CloseMonitor, PickProcess, LeaveProcess, KillProcess,
                Reattach, EscDrag
  <2>6. QED
    BY <2>1, <2>2, <2>4, <2>5
<1>2. QED
  BY <1>1 DEF ModesFit

(* An answer kills, splits or replaces what its dialog was opened for,     *)
(* whatever has the focus by then, or does nothing.                        *)
THEOREM AnswersOnlyNamed == Spec => OnlyNamed
<1>1. Known /\ [Next]_vars => [AnswerIsAboutNamed]_vars
  <2> SUFFICES ASSUME Known, [Next]_vars, NEW c \in Client,
                      mode'[c] # mode[c], mode[c].kind \in Question
               PROVE  About(mode[c])
    BY DEF AnswerIsAboutNamed, About
  <2> ModesFit /\ (~astray => TreeOK)
    BY DEF Known, Tracked
  <2>1. ASSUME ~astray, NEW d \in Client, EscDrag(d) \/ Key(d) \/ Mouse(d) \/ Monitor(d) \/ Reattach(d)
        PROVE  About(mode[c])
    <3>1. d = c
      BY <2>1, OwnMode
    <3>2. CASE EscDrag(c) \/ Monitor(c) \/ Reattach(c)
      BY <3>2, QuietAbout DEF EscDrag, Monitor, OpenMonitor, CloseMonitor, PickProcess,
                              LeaveProcess, KillProcess, Reattach, tree
    <3>3. QED
      BY <2>1, <3>1, <3>2, KeyAbout, MouseAbout
  <2>2. CASE \/ (\E pid \in Pid : Process(pid)) \/ WsPoll \/ UNCHANGED vars \/ ApiOpens
             \/ \E p \in Issued : PaneExit(p) \/ ApiCloses(p) \/ ApiFocuses(p)
    <3>1. UNCHANGED mode
      BY <2>2 DEF Process, WsPoll, vars, ApiOpens, PaneExit, ApiCloses, ApiFocuses
    <3>2. QED
      BY <3>1
  <2>3. ASSUME NEW d \in Client, KeyFocuses(d) \/ KeySwaps(d) PROVE FALSE
    <3>1. In(d, {"terminal", "prefix"}) /\ Closes(d)
      BY <2>3 DEF KeyFocuses, KeySwaps, Bound
    <3>2. d = c
      BY <3>1 DEF Closes, ModesFit
    <3>3. QED
      BY <3>1, <3>2 DEF In, Question, Menu, Prompt
  <2>4. QED
    BY <2>1, <2>2, <2>3 DEF Next, Step
<1>2. OnlyNamed <=> [][AnswerIsAboutNamed]_vars
  BY DEF OnlyNamed
<1> HIDE DEF AnswerIsAboutNamed
<1>3. Init => Known
  <2>1. Init => Tracked
    BY InitTreeOK DEF Init, Tracked
  <2>2. QED
    BY <2>1, InitTreeOK, TreeRooted, TypesAtFirst DEF Known
<1>4. QED
  BY <1>1, <1>2, <1>3, NextKnown, PTL DEF Spec
=============================================================================
