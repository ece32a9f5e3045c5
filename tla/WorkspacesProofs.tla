--------------------------- MODULE WorkspacesProofs ---------------------------
(* The tree of spaces, tabs and panes stays a tree, for any terminals,     *)
(* folders and bounds.  Every operation of the model maps a session to a   *)
(* session, so the proof goes bottom-up: what each helper does to a tab,   *)
(* to a space, to the list of spaces and to a session (it stays good, and  *)
(* its panes are exactly these), then that each action gives the variables *)
(* such a session, and that the invariant follows.                         *)
(* The two action properties come last: where a terminal's turn leaves its *)
(* view, and that background work leaves everybody's keys where they were. *)
(*                                                                         *)
(* A focus or swap key that acts on a pane which left the screen since the *)
(* last frame can take the focus off its tab.  `strayed` is set with that  *)
(* step, and the invariant is about the sessions where it is not.          *)
EXTENDS Workspaces, FiniteSetTheorems, SequenceTheorems, WellFoundedInduction, TLAPS

(* Tabs.                                                                   *)
In(t) == ToSet(t.panes)
GoodTab ==
  {t \in TabType : /\ \A k, l \in DOMAIN t.panes : t.panes[k] = t.panes[l] => k = l
                   /\ t.focus \in In(t) /\ t.zoom \in {0, t.focus}}
GoodTabs ==
  {ts \in Seq(GoodTab) : \A i, j \in DOMAIN ts : i # j => In(ts[i]) \cap In(ts[j]) = {}}
InTabs(ts) == UNION {In(ts[j]) : j \in DOMAIN ts}

(* Spaces.                                                                 *)
GoodSpace == {w \in SpaceType : w.tabs \in GoodTabs /\ w.active \in DOMAIN w.tabs}
GoodSpaces ==
  {ws \in Seq(GoodSpace) :
     \A i, j \in DOMAIN ws : i # j => /\ PanesOf(ws[i]) \cap PanesOf(ws[j]) = {}
                                      /\ ws[i].id # ws[j].id}
InSpaces(ws) == UNION {PanesOf(ws[i]) : i \in DOMAIN ws}

GoodSession ==
  {S \in [spaces : GoodSpaces, active : Nat, scope : Folder \cup {NoFolder}] :
     S.active \in DOMAIN S.spaces}

-----------------------------------------------------------------------------
(* The least of a set of numbers.                                          *)
Below == {ss \in Nat \X Nat : ss[1] < ss[2]}

LEMMA NatWellOrdered == IsWellFoundedOn(Below, Nat)
BY NatLessThanWellFounded, Zenon DEF OpToRel, Below

LEMMA LeastExists ==
  ASSUME NEW T \in SUBSET Nat, T # {}
  PROVE  \E x \in T : \A y \in T : x <= y
<1>1. PICK x \in T : \A y \in T : ~ (<<y, x>> \in Below)
  BY NatWellOrdered, WFMin
<1>2. x \in Nat /\ \A y \in T : y \in Nat
  OBVIOUS
<1>3. \A y \in T : y < x => <<y, x>> \in Below
  BY <1>2 DEF Below
<1>4. \A y \in T : ~ (y < x)
  BY <1>1, <1>3, Zenon
<1>5. \A y \in T : x <= y
  BY <1>2, <1>4
<1>6. QED
  BY <1>5

LEMMA MinFacts ==
  ASSUME NEW T \in SUBSET Nat, T # {}
  PROVE  Min(T) \in T /\ \A y \in T : Min(T) <= y
BY LeastExists DEF Min

-----------------------------------------------------------------------------
(* Sequences with an entry taken out, put in, or replaced.                 *)
LEMMA ConcatFacts ==
  ASSUME NEW S, NEW s \in Seq(S), NEW t \in Seq(S)
  PROVE  /\ s \o t \in Seq(S) /\ Len(s \o t) = Len(s) + Len(t)
         /\ \A k \in 1 .. Len(s) : (s \o t)[k] = s[k]
         /\ \A k \in Len(s) + 1 .. Len(s) + Len(t) : (s \o t)[k] = t[k - Len(s)]
OBVIOUS

(* Where the k-th of the other entries is, next to entry i.                *)
Skip(i, k) == IF k < i THEN k ELSE k + 1

LEMMA SkipFacts ==
  ASSUME NEW n \in Nat, NEW i \in 1 .. n
  PROVE  /\ \A k \in 1 .. n - 1 : Skip(i, k) \in (1 .. n) \ {i}
         /\ \A k, l \in 1 .. n - 1 : k # l => Skip(i, k) # Skip(i, l)
         /\ \A m \in (1 .. n) \ {i} : \E k \in 1 .. n - 1 : Skip(i, k) = m
<1>1. \A k \in 1 .. n - 1 : Skip(i, k) \in (1 .. n) \ {i}
  BY DEF Skip
<1>2. \A k, l \in 1 .. n - 1 : k # l => Skip(i, k) # Skip(i, l)
  BY DEF Skip
<1>3. ASSUME NEW m \in (1 .. n) \ {i} PROVE \E k \in 1 .. n - 1 : Skip(i, k) = m
  <2>1. CASE m < i
    <3>1. m \in 1 .. n - 1 /\ Skip(i, m) = m
      BY <2>1 DEF Skip
    <3>2. QED
      BY <3>1
  <2>2. CASE m > i
    <3>1. m - 1 \in 1 .. n - 1 /\ Skip(i, m - 1) = m
      BY <2>2 DEF Skip
    <3>2. QED
      BY <3>1
  <2>3. QED
    BY <2>1, <2>2
<1>4. QED
  BY <1>1, <1>2, <1>3

LEMMA RemoveAtFacts ==
  ASSUME NEW S, NEW s \in Seq(S), NEW i \in DOMAIN s
  PROVE  /\ RemoveAt(s, i) \in Seq(S) /\ Len(RemoveAt(s, i)) = Len(s) - 1
         /\ \A k \in 1 .. Len(s) - 1 : RemoveAt(s, i)[k] = s[Skip(i, k)]
<1> DEFINE l == SubSeq(s, 1, i - 1)
           r == SubSeq(s, i + 1, Len(s))
<1>1. /\ l \in Seq(S) /\ Len(l) = i - 1
      /\ \A k \in 1 .. i - 1 : l[k] = s[k]
  OBVIOUS
<1>2. /\ r \in Seq(S) /\ Len(r) = Len(s) - i
      /\ \A k \in 1 .. Len(s) - i : r[k] = s[k + i]
  OBVIOUS
<1>3. RemoveAt(s, i) = l \o r
  BY DEF RemoveAt
<1> HIDE DEF l, r
<1>4. /\ l \o r \in Seq(S) /\ Len(l \o r) = Len(s) - 1
      /\ \A k \in 1 .. i - 1 : (l \o r)[k] = l[k]
      /\ \A k \in i .. Len(s) - 1 : (l \o r)[k] = r[k - (i - 1)]
  BY <1>1, <1>2, ConcatFacts, SMTT(30)
<1>5. ASSUME NEW k \in i .. Len(s) - 1 PROVE (l \o r)[k] = s[k + 1]
  <2>1. k - (i - 1) \in 1 .. Len(s) - i /\ k - (i - 1) + i = k + 1
    OBVIOUS
  <2>2. r[k - (i - 1)] = s[k - (i - 1) + i]
    BY <1>2, <2>1
  <2>3. QED
    BY <1>4, <2>1, <2>2
<1>6. QED
  BY <1>1, <1>3, <1>4, <1>5 DEF Skip

LEMMA InsertAtFacts ==
  ASSUME NEW S, NEW s \in Seq(S), NEW i \in 1 .. Len(s) + 1, NEW e \in S
  PROVE  /\ InsertAt(s, i, e) \in Seq(S) /\ Len(InsertAt(s, i, e)) = Len(s) + 1
         /\ InsertAt(s, i, e)[i] = e
         /\ \A k \in 1 .. Len(s) : InsertAt(s, i, e)[Skip(i, k)] = s[k]
<1> DEFINE l == SubSeq(s, 1, i - 1)
           r == SubSeq(s, i, Len(s))
<1>1. /\ l \in Seq(S) /\ Len(l) = i - 1
      /\ \A k \in 1 .. i - 1 : l[k] = s[k]
  OBVIOUS
<1>2. /\ r \in Seq(S) /\ Len(r) = Len(s) - i + 1
      /\ \A k \in 1 .. Len(s) - i + 1 : r[k] = s[k + i - 1]
  OBVIOUS
<1>3. InsertAt(s, i, e) = l \o <<e>> \o r
  BY DEF InsertAt
<1> HIDE DEF l, r
<1>4. /\ l \o <<e>> \in Seq(S) /\ Len(l \o <<e>>) = i
      /\ \A k \in 1 .. i : (l \o <<e>>)[k] = IF k = i THEN e ELSE s[k]
  BY <1>1
<1>5. /\ (l \o <<e>>) \o r \in Seq(S) /\ Len((l \o <<e>>) \o r) = Len(s) + 1
      /\ \A k \in 1 .. i : ((l \o <<e>>) \o r)[k] = (l \o <<e>>)[k]
      /\ \A k \in i + 1 .. Len(s) + 1 : ((l \o <<e>>) \o r)[k] = r[k - i]
  BY <1>2, <1>4, ConcatFacts
<1>6. ASSUME NEW k \in i .. Len(s) PROVE ((l \o <<e>>) \o r)[k + 1] = s[k]
  <2>1. k + 1 \in i + 1 .. Len(s) + 1 /\ k + 1 - i \in 1 .. Len(s) - i + 1
    OBVIOUS
  <2>2. r[k + 1 - i] = s[k + 1 - i + i - 1] /\ k + 1 - i + i - 1 = k
    BY <1>2, <2>1
  <2>3. QED
    BY <1>5, <2>1, <2>2, SMTT(30)
<1>7. InsertAt(s, i, e)[i] = e
  BY <1>3, <1>4, <1>5
<1>8. ASSUME NEW k \in 1 .. Len(s) PROVE InsertAt(s, i, e)[Skip(i, k)] = s[k]
  <2>1. CASE k < i
    <3>1. k \in 1 .. i /\ k # i /\ Skip(i, k) = k
      BY <2>1 DEF Skip
    <3>2. QED
      BY <1>3, <1>4, <1>5, <3>1
  <2>2. CASE ~ (k < i)
    <3>1. k \in i .. Len(s) /\ Skip(i, k) = k + 1
      BY <2>2 DEF Skip
    <3>2. QED
      BY <1>3, <1>6, <3>1
  <2>3. QED
    BY <2>1, <2>2
<1>9. QED
  BY <1>3, <1>5, <1>7, <1>8

-----------------------------------------------------------------------------
(* Looking things up.                                                      *)
LEMMA SpaceWithFacts ==
  ASSUME NEW S, NEW ws \in Seq(S), NEW p
  PROVE  /\ SpaceWith(ws, p) \in 0 .. Len(ws)
         /\ SpaceWith(ws, p) # 0 => p \in PanesOf(ws[SpaceWith(ws, p)])
         /\ SpaceWith(ws, p) = 0 => p \notin InSpaces(ws)
<1> DEFINE I == {i \in 1 .. Len(ws) : p \in PanesOf(ws[i])}
<1>1. SpaceWith(ws, p) = IF I # {} THEN Min(I) ELSE 0
  BY DEF SpaceWith, SelectInSeq
<1>2. I # {} => Min(I) \in I
  BY MinFacts, I \in SUBSET Nat
<1>3. QED
  BY <1>1, <1>2 DEF InSpaces

LEMMA TabWithFacts ==
  ASSUME NEW S, NEW w, w.tabs \in Seq(S), NEW p
  PROVE  /\ TabWith(w, p) \in 0 .. Len(w.tabs)
         /\ TabWith(w, p) # 0 => p \in In(w.tabs[TabWith(w, p)])
         /\ TabWith(w, p) = 0 => p \notin PanesOf(w)
<1> DEFINE I == {i \in 1 .. Len(w.tabs) : p \in In(w.tabs[i])}
<1>1. TabWith(w, p) = IF I # {} THEN Min(I) ELSE 0
  BY DEF TabWith, SelectInSeq, Holds, In
<1>2. I # {} => Min(I) \in I
  BY MinFacts, I \in SUBSET Nat
<1>3. QED
  BY <1>1, <1>2 DEF PanesOf, In

LEMMA SpaceByIdFacts ==
  ASSUME NEW S, NEW ws \in Seq(S), NEW n
  PROVE  /\ SpaceById(ws, n) \in 0 .. Len(ws)
         /\ SpaceById(ws, n) # 0 => ws[SpaceById(ws, n)].id = n
         /\ SpaceById(ws, n) = 0 => n \notin Ids(ws)
<1> DEFINE I == {i \in 1 .. Len(ws) : ws[i].id = n}
<1>1. SpaceById(ws, n) = IF I # {} THEN Min(I) ELSE 0
  BY DEF SpaceById, SelectInSeq
<1>2. I # {} => Min(I) \in I
  BY MinFacts, I \in SUBSET Nat
<1>3. QED
  BY <1>1, <1>2 DEF Ids

LEMMA FirstInScopeFacts ==
  ASSUME NEW S, S.spaces \in Seq(GoodSpace)
  PROVE  /\ FirstInScope(S) \in 0 .. Len(S.spaces)
         /\ FirstInScope(S) # 0 => InScope(S, S.spaces[FirstInScope(S)])
<1> DEFINE I == {i \in 1 .. Len(S.spaces) : InScope(S, S.spaces[i])}
<1>1. FirstInScope(S) = IF I # {} THEN Min(I) ELSE 0
  BY DEF FirstInScope, SelectInSeq
<1>2. I # {} => Min(I) \in I
  BY MinFacts, I \in SUBSET Nat
<1>3. QED
  BY <1>1, <1>2

-----------------------------------------------------------------------------
(* Tabs of a space.                                                        *)
LEMMA TabReplaced ==
  ASSUME NEW ts \in GoodTabs, NEW j \in DOMAIN ts, NEW t \in GoodTab,
         In(t) \cap (InTabs(ts) \ In(ts[j])) = {}
  PROVE  /\ [ts EXCEPT ![j] = t] \in GoodTabs
         /\ Len([ts EXCEPT ![j] = t]) = Len(ts)
         /\ InTabs([ts EXCEPT ![j] = t]) = (InTabs(ts) \ In(ts[j])) \cup In(t)
<1> DEFINE us == [ts EXCEPT ![j] = t]
<1>1. ts \in Seq(GoodTab) /\ \A m, n \in DOMAIN ts : m # n => In(ts[m]) \cap In(ts[n]) = {}
  BY DEF GoodTabs
<1>2. us \in Seq(GoodTab) /\ Len(us) = Len(ts) /\ DOMAIN us = DOMAIN ts
  BY <1>1
<1>3. us[j] = t /\ \A n \in DOMAIN ts : n # j => us[n] = ts[n]
  BY <1>1
<1> HIDE DEF us
<1>4. \A n \in DOMAIN ts : n # j => In(ts[n]) \subseteq InTabs(ts) \ In(ts[j])
  BY <1>1 DEF InTabs
<1>5. \A m, n \in DOMAIN us : m # n => In(us[m]) \cap In(us[n]) = {}
  BY <1>1, <1>2, <1>3, <1>4
<1>6. InTabs(us) = (InTabs(ts) \ In(ts[j])) \cup In(t)
  BY <1>2, <1>3, <1>4 DEF InTabs
<1>7. QED
  BY <1>2, <1>5, <1>6 DEF GoodTabs, us

LEMMA TabRemoved ==
  ASSUME NEW ts \in GoodTabs, NEW j \in DOMAIN ts
  PROVE  /\ RemoveAt(ts, j) \in GoodTabs /\ Len(RemoveAt(ts, j)) = Len(ts) - 1
         /\ InTabs(RemoveAt(ts, j)) = InTabs(ts) \ In(ts[j])
<1> DEFINE us == RemoveAt(ts, j)
<1>1. ts \in Seq(GoodTab) /\ \A m, n \in DOMAIN ts : m # n => In(ts[m]) \cap In(ts[n]) = {}
  BY DEF GoodTabs
<1>2. /\ us \in Seq(GoodTab) /\ Len(us) = Len(ts) - 1
      /\ \A k \in 1 .. Len(ts) - 1 : us[k] = ts[Skip(j, k)]
  BY <1>1, RemoveAtFacts
<1> HIDE DEF us
<1>3. /\ DOMAIN us = 1 .. Len(ts) - 1 /\ DOMAIN ts = 1 .. Len(ts)
      /\ Len(ts) \in Nat /\ j \in 1 .. Len(ts)
  BY <1>1, <1>2
<1> DEFINE n == Len(ts)
<1> HIDE DEF n
<1>4. n \in Nat /\ j \in 1 .. n /\ DOMAIN us = 1 .. n - 1 /\ DOMAIN ts = 1 .. n
  BY <1>3 DEF n
<1>5. /\ \A k \in 1 .. n - 1 : Skip(j, k) \in (1 .. n) \ {j}
      /\ \A k, l \in 1 .. n - 1 : k # l => Skip(j, k) # Skip(j, l)
      /\ \A m \in (1 .. n) \ {j} : \E k \in 1 .. n - 1 : Skip(j, k) = m
  BY <1>4, SkipFacts, ZenonT(40)
<1>6. /\ \A k \in DOMAIN us : Skip(j, k) \in DOMAIN ts \ {j} /\ us[k] = ts[Skip(j, k)]
      /\ \A k, l \in DOMAIN us : k # l => Skip(j, k) # Skip(j, l)
      /\ \A m \in DOMAIN ts \ {j} : \E k \in DOMAIN us : Skip(j, k) = m
  BY <1>2, <1>4, <1>5 DEF n
<1>7. \A k, l \in DOMAIN us : k # l => In(us[k]) \cap In(us[l]) = {}
  BY <1>1, <1>6
<1>8. InTabs(us) = InTabs(ts) \ In(ts[j])
  BY <1>1, <1>6 DEF InTabs
<1>9. QED
  BY <1>2, <1>7, <1>8 DEF GoodTabs, us

LEMMA TabAppended ==
  ASSUME NEW ts \in GoodTabs, NEW t \in GoodTab, In(t) \cap InTabs(ts) = {}
  PROVE  /\ Append(ts, t) \in GoodTabs /\ Len(Append(ts, t)) = Len(ts) + 1
         /\ InTabs(Append(ts, t)) = InTabs(ts) \cup In(t)
<1> DEFINE us == Append(ts, t)
<1>1. ts \in Seq(GoodTab) /\ \A m, n \in DOMAIN ts : m # n => In(ts[m]) \cap In(ts[n]) = {}
  BY DEF GoodTabs
<1>2. /\ us \in Seq(GoodTab) /\ Len(us) = Len(ts) + 1
      /\ us[Len(ts) + 1] = t /\ \A k \in DOMAIN ts : us[k] = ts[k]
      /\ DOMAIN us = DOMAIN ts \cup {Len(ts) + 1} /\ Len(ts) + 1 \notin DOMAIN ts
  BY <1>1
<1> HIDE DEF us
<1>3. \A k \in DOMAIN ts : In(us[k]) \subseteq InTabs(ts)
  BY <1>2 DEF InTabs
<1>4. \A m, n \in DOMAIN us : m # n => In(us[m]) \cap In(us[n]) = {}
  BY <1>1, <1>2, <1>3
<1>5. InTabs(us) = InTabs(ts) \cup In(t)
  BY <1>2 DEF InTabs
<1>6. QED
  BY <1>2, <1>4, <1>5 DEF GoodTabs, us

-----------------------------------------------------------------------------
(* Panes of a tab.                                                         *)
Distinct == {s \in Seq(Pane) : \A k, l \in DOMAIN s : s[k] = s[l] => k = l}

LEMMA DistinctConcat ==
  ASSUME NEW s \in Distinct, NEW t \in Distinct, ToSet(s) \cap ToSet(t) = {}
  PROVE  s \o t \in Distinct /\ ToSet(s \o t) = ToSet(s) \cup ToSet(t)
<1>1. /\ s \in Seq(Pane) /\ t \in Seq(Pane)
      /\ \A k, l \in DOMAIN s : s[k] = s[l] => k = l
      /\ \A k, l \in DOMAIN t : t[k] = t[l] => k = l
  BY DEF Distinct
<1> DEFINE m == Len(s)
           n == Len(t)
           u == s \o t
<1>2. /\ m \in Nat /\ n \in Nat /\ DOMAIN s = 1 .. m /\ DOMAIN t = 1 .. n
  BY <1>1
<1>3. u \in Seq(Pane) /\ DOMAIN u = 1 .. m + n
  BY <1>1
<1>4. \A k \in 1 .. m : u[k] = s[k]
  BY <1>1
<1>5. \A k \in 1 .. n : u[m + k] = t[k]
  BY <1>1
<1> HIDE DEF m, n, u
<1>6. \A k \in 1 .. m + n : k \in 1 .. m \/ \E l \in 1 .. n : k = m + l
  <2> SUFFICES ASSUME NEW k \in 1 .. m + n, k \notin 1 .. m PROVE \E l \in 1 .. n : k = m + l
    OBVIOUS
  <2>1. k - m \in 1 .. n /\ k = m + (k - m)
    BY <1>2
  <2>2. QED
    BY <2>1
<1>7. \A k \in 1 .. m, l \in 1 .. n : s[k] # t[l]
  BY <1>2 DEF ToSet
<1>8. ASSUME NEW k \in 1 .. m + n, NEW l \in 1 .. m + n, u[k] = u[l] PROVE k = l
  <2>1. CASE k \in 1 .. m /\ l \in 1 .. m
    BY <1>1, <1>2, <1>4, <1>8, <2>1
  <2>2. CASE k \in 1 .. m /\ l \notin 1 .. m
    <3>1. PICK b \in 1 .. n : l = m + b
      BY <1>6, <2>2
    <3>2. QED
      BY <1>4, <1>5, <1>7, <1>8, <2>2, <3>1
  <2>3. CASE k \notin 1 .. m /\ l \in 1 .. m
    <3>1. PICK a \in 1 .. n : k = m + a
      BY <1>6, <2>3
    <3>2. QED
      BY <1>4, <1>5, <1>7, <1>8, <2>3, <3>1
  <2>4. CASE k \notin 1 .. m /\ l \notin 1 .. m
    <3>1. PICK a \in 1 .. n : k = m + a
      BY <1>6, <2>4
    <3>2. PICK b \in 1 .. n : l = m + b
      BY <1>6, <2>4
    <3>3. t[a] = t[b]
      BY <1>5, <1>8, <3>1, <3>2
    <3>4. QED
      BY <1>1, <1>2, <3>1, <3>2, <3>3
  <2>5. QED
    BY <2>1, <2>2, <2>3, <2>4
<1>9. ToSet(u) = ToSet(s) \cup ToSet(t)
  <2>1. /\ ToSet(u) = {u[i] : i \in 1 .. m + n}
        /\ ToSet(s) = {s[i] : i \in 1 .. m} /\ ToSet(t) = {t[i] : i \in 1 .. n}
    BY <1>2, <1>3 DEF ToSet
  <2>2. \A i \in 1 .. m + n : u[i] \in ToSet(s) \cup ToSet(t)
    BY <1>4, <1>5, <1>6, <2>1
  <2>3. \A k \in 1 .. m : k \in 1 .. m + n
    BY <1>2
  <2>4. \A k \in 1 .. n : m + k \in 1 .. m + n
    BY <1>2
  <2>5. \A k \in 1 .. m : s[k] \in ToSet(u)
    BY <1>4, <2>1, <2>3
  <2>6. \A k \in 1 .. n : t[k] \in ToSet(u)
    BY <1>5, <2>1, <2>4
  <2>7. ToSet(u) \subseteq ToSet(s) \cup ToSet(t)
    BY <2>1, <2>2
  <2>8. ToSet(s) \subseteq ToSet(u) /\ ToSet(t) \subseteq ToSet(u)
    BY <2>1, <2>5, <2>6
  <2>9. QED
    BY <2>7, <2>8
<1>10. QED
  BY <1>3, <1>8, <1>9 DEF Distinct, u

LEMMA DistinctParts ==
  ASSUME NEW s \in Distinct, NEW k \in 0 .. Len(s)
  PROVE  LET l == SubSeq(s, 1, k)
             r == SubSeq(s, k + 1, Len(s))
         IN /\ l \in Distinct /\ r \in Distinct /\ Len(l) = k /\ Len(r) = Len(s) - k
            /\ ToSet(l) \cap ToSet(r) = {} /\ ToSet(l) \cup ToSet(r) = ToSet(s)
<1> DEFINE l == SubSeq(s, 1, k)
           r == SubSeq(s, k + 1, Len(s))
           n == Len(s)
<1>1. s \in Seq(Pane) /\ \A i, j \in DOMAIN s : s[i] = s[j] => i = j
  BY DEF Distinct
<1>2. n \in Nat /\ DOMAIN s = 1 .. n /\ k \in 0 .. n
  BY <1>1
<1>3. l \in Seq(Pane) /\ Len(l) = k /\ DOMAIN l = 1 .. k /\ \A i \in 1 .. k : l[i] = s[i]
  BY <1>1
<1>4. /\ r \in Seq(Pane) /\ Len(r) = n - k /\ DOMAIN r = 1 .. n - k
      /\ \A i \in 1 .. n - k : r[i] = s[k + i]
  BY <1>1
<1> HIDE DEF l, r, n
<1>5. /\ \A i \in 1 .. k : i \in 1 .. n
      /\ \A i \in 1 .. n - k : k + i \in 1 .. n
      /\ \A i \in 1 .. k, j \in 1 .. n - k : i # k + j
      /\ \A i, j \in 1 .. n - k : k + i = k + j => i = j
  BY <1>2
<1>6. \A i \in 1 .. n : i \in 1 .. k \/ \E j \in 1 .. n - k : i = k + j
  <2> SUFFICES ASSUME NEW i \in 1 .. n, i \notin 1 .. k PROVE \E j \in 1 .. n - k : i = k + j
    OBVIOUS
  <2>1. i - k \in 1 .. n - k /\ i = k + (i - k)
    BY <1>2
  <2>2. QED
    BY <2>1
<1>7. l \in Distinct
  BY <1>1, <1>2, <1>3, <1>5 DEF Distinct
<1>8. r \in Distinct
  BY <1>1, <1>2, <1>4, <1>5 DEF Distinct
<1>9. /\ ToSet(s) = {s[i] : i \in 1 .. n}
      /\ ToSet(l) = {l[i] : i \in 1 .. k} /\ ToSet(r) = {r[i] : i \in 1 .. n - k}
  BY <1>2, <1>3, <1>4 DEF ToSet
<1>10. ToSet(l) \cap ToSet(r) = {}
  <2> SUFFICES ASSUME NEW i \in 1 .. k, NEW j \in 1 .. n - k, l[i] = r[j] PROVE FALSE
    BY <1>9
  <2>1. s[i] = s[k + j] /\ i \in 1 .. n /\ k + j \in 1 .. n /\ i # k + j
    BY <1>3, <1>4, <1>5
  <2>2. QED
    BY <1>1, <1>2, <2>1
<1>11. ToSet(l) \cup ToSet(r) = ToSet(s)
  <2>1. \A i \in 1 .. k : l[i] \in ToSet(s)
    BY <1>3, <1>5, <1>9
  <2>2. \A i \in 1 .. n - k : r[i] \in ToSet(s)
    BY <1>4, <1>5, <1>9
  <2>3. ASSUME NEW i \in 1 .. n PROVE s[i] \in ToSet(l) \cup ToSet(r)
    <3>1. CASE i \in 1 .. k
      BY <1>3, <1>9, <3>1
    <3>2. ASSUME NEW j \in 1 .. n - k, i = k + j PROVE s[i] \in ToSet(r)
      BY <1>4, <1>9, <3>2
    <3>3. QED
      BY <1>6, <3>1, <3>2
  <2>4. ToSet(l) \subseteq ToSet(s) /\ ToSet(r) \subseteq ToSet(s)
    BY <1>9, <2>1, <2>2
  <2>5. ToSet(s) \subseteq ToSet(l) \cup ToSet(r)
    BY <1>9, <2>3
  <2>6. QED
    BY <2>4, <2>5
<1>12. QED
  BY <1>3, <1>4, <1>7, <1>8, <1>10, <1>11 DEF l, r, n


(* An entry of a sequence by its value.                                    *)
LEMMA IndexFacts ==
  ASSUME NEW S, NEW s \in Seq(S), NEW p \in ToSet(s)
  PROVE  /\ Min({i \in 1 .. Len(s) : s[i] = p}) \in DOMAIN s
         /\ s[Min({i \in 1 .. Len(s) : s[i] = p})] = p
         /\ {i \in 1 .. Len(s) : s[i] = p} # {}
<1> DEFINE I == {i \in 1 .. Len(s) : s[i] = p}
<1>1. DOMAIN s = 1 .. Len(s)
  OBVIOUS
<1>2. I # {} /\ I \in SUBSET Nat
  BY <1>1 DEF ToSet
<1>3. Min(I) \in I
  BY <1>2, MinFacts
<1>4. QED
  BY <1>1, <1>2, <1>3

LEMMA DistinctRemoved ==
  ASSUME NEW s \in Distinct, NEW i \in DOMAIN s
  PROVE  /\ RemoveAt(s, i) \in Distinct /\ Len(RemoveAt(s, i)) = Len(s) - 1
         /\ ToSet(RemoveAt(s, i)) = ToSet(s) \ {s[i]}
<1> DEFINE n == Len(s)
           u == RemoveAt(s, i)
<1>1. s \in Seq(Pane) /\ \A k, l \in DOMAIN s : s[k] = s[l] => k = l
  BY DEF Distinct
<1>2. n \in Nat /\ DOMAIN s = 1 .. n /\ i \in 1 .. n
  BY <1>1
<1>3. u \in Seq(Pane) /\ Len(u) = n - 1 /\ \A k \in 1 .. n - 1 : u[k] = s[Skip(i, k)]
  BY <1>1, RemoveAtFacts
<1> HIDE DEF n, u
<1>4. DOMAIN u = 1 .. n - 1
  BY <1>2, <1>3
<1>5. /\ \A k \in 1 .. n - 1 : Skip(i, k) \in (1 .. n) \ {i}
      /\ \A k, l \in 1 .. n - 1 : k # l => Skip(i, k) # Skip(i, l)
      /\ \A m \in (1 .. n) \ {i} : \E k \in 1 .. n - 1 : Skip(i, k) = m
  BY <1>2, SkipFacts
<1>6. u \in Distinct
  BY <1>1, <1>2, <1>3, <1>4, <1>5 DEF Distinct
<1>7. ToSet(u) = {u[k] : k \in 1 .. n - 1} /\ ToSet(s) = {s[k] : k \in 1 .. n}
  BY <1>2, <1>4 DEF ToSet
<1>8. ToSet(u) \subseteq ToSet(s) \ {s[i]}
  BY <1>1, <1>2, <1>3, <1>5, <1>7
<1>9. ToSet(s) \ {s[i]} \subseteq ToSet(u)
  BY <1>3, <1>5, <1>7
<1>10. QED
  BY <1>3, <1>6, <1>8, <1>9 DEF n, u

LEMMA BesideFacts ==
  ASSUME NEW s \in Distinct, NEW p \in ToSet(s), NEW before \in BOOLEAN, NEW t \in Distinct,
         ToSet(s) \cap ToSet(t) = {}
  PROVE  /\ Beside(s, p, before, t) \in Distinct
         /\ ToSet(Beside(s, p, before, t)) = ToSet(s) \cup ToSet(t)
<1> DEFINE m == Min({i \in 1 .. Len(s) : s[i] = p})
           k == m - (IF before THEN 1 ELSE 0)
           l == SubSeq(s, 1, k)
           r == SubSeq(s, k + 1, Len(s))
<1>1. s \in Seq(Pane)
  BY DEF Distinct
<1>2. m \in 1 .. Len(s) /\ {i \in 1 .. Len(s) : s[i] = p} # {}
  BY <1>1, IndexFacts
<1>3. k \in 0 .. Len(s)
  BY <1>1, <1>2
<1>4. Beside(s, p, before, t) = l \o t \o r
  BY <1>2 DEF Beside, SelectInSeq
<1> HIDE DEF m, k
<1>5. /\ l \in Distinct /\ r \in Distinct
      /\ ToSet(l) \cap ToSet(r) = {} /\ ToSet(l) \cup ToSet(r) = ToSet(s)
  BY <1>3, DistinctParts
<1> HIDE DEF l, r
<1>6. l \o t \in Distinct /\ ToSet(l \o t) = ToSet(l) \cup ToSet(t)
  BY <1>5, DistinctConcat
<1>7. (l \o t) \o r \in Distinct /\ ToSet((l \o t) \o r) = ToSet(l \o t) \cup ToSet(r)
  BY <1>5, <1>6, DistinctConcat
<1>8. QED
  BY <1>4, <1>5, <1>6, <1>7

LEMMA SwapInFacts ==
  ASSUME NEW s \in Distinct, NEW a \in Pane, NEW b \in Pane
  PROVE  /\ SwapIn(s, a, b) \in Distinct /\ Len(SwapIn(s, a, b)) = Len(s)
         /\ ToSet(SwapIn(s, a, b)) = {Other(a, b, x) : x \in ToSet(s)}
<1> DEFINE u == SwapIn(s, a, b)
<1>1. s \in Seq(Pane) /\ \A k, l \in DOMAIN s : s[k] = s[l] => k = l
  BY DEF Distinct
<1>2. DOMAIN u = DOMAIN s /\ \A k \in DOMAIN s : u[k] = Other(a, b, s[k])
  BY DEF SwapIn, Other
<1>3. u \in Seq(Pane) /\ Len(u) = Len(s)
  BY <1>1 DEF SwapIn
<1> HIDE DEF u
<1>4. \A x, y : Other(a, b, x) = Other(a, b, y) => x = y
  BY DEF Other
<1>5. u \in Distinct
  BY <1>1, <1>2, <1>3, <1>4 DEF Distinct
<1>6. ToSet(u) = {Other(a, b, x) : x \in ToSet(s)}
  BY <1>2 DEF ToSet
<1>7. QED
  BY <1>3, <1>5, <1>6 DEF u

(* What a good tab is made of.                                             *)
LEMMA TabFacts ==
  ASSUME NEW t \in GoodTab
  PROVE  /\ t.panes \in Distinct /\ t.panes # <<>> /\ In(t) = ToSet(t.panes)
         /\ In(t) # {} /\ In(t) \subseteq Pane
         /\ t.focus \in In(t) /\ t.zoom \in {0, t.focus}
         /\ t = [panes |-> t.panes, focus |-> t.focus, zoom |-> t.zoom]
         /\ Len(t.panes) = 1 => In(t) = {t.panes[1]}
         /\ Len(t.panes) > 1 => \A p \in In(t) : In(t) # {p}
<1>1. /\ t.panes \in Seq(Pane) /\ t.panes # <<>>
      /\ t = [panes |-> t.panes, focus |-> t.focus, zoom |-> t.zoom]
      /\ \A k, l \in DOMAIN t.panes : t.panes[k] = t.panes[l] => k = l
      /\ t.focus \in In(t) /\ t.zoom \in {0, t.focus}
  BY DEF GoodTab, TabType
<1>2. In(t) = {t.panes[k] : k \in DOMAIN t.panes} /\ In(t) = ToSet(t.panes)
  BY DEF In, ToSet
<1>3. In(t) \subseteq Pane /\ In(t) # {}
  BY <1>1, <1>2
<1>4. Len(t.panes) = 1 => In(t) = {t.panes[1]}
  <2>1. Len(t.panes) = 1 => DOMAIN t.panes = {1}
    BY <1>1
  <2>2. QED
    BY <1>2, <2>1
<1>5. ASSUME Len(t.panes) > 1, NEW p \in In(t) PROVE In(t) # {p}
  <2>1. 1 \in DOMAIN t.panes /\ 2 \in DOMAIN t.panes
    BY <1>1, <1>5
  <2>2. t.panes[1] # t.panes[2]
    BY <1>1, <2>1
  <2>3. QED
    BY <1>2, <2>1, <2>2
<1>6. QED
  BY <1>1, <1>2, <1>3, <1>4, <1>5 DEF Distinct

LEMMA MakeTab ==
  ASSUME NEW ps \in Distinct, NEW f \in ToSet(ps), NEW z \in {0, f}
  PROVE  /\ [panes |-> ps, focus |-> f, zoom |-> z] \in GoodTab
         /\ In([panes |-> ps, focus |-> f, zoom |-> z]) = ToSet(ps)
<1>1. ps \in Seq(Pane) /\ \A k, l \in DOMAIN ps : ps[k] = ps[l] => k = l
  BY DEF Distinct
<1>2. ps # <<>> /\ f \in Pane
  BY <1>1 DEF ToSet
<1>3. QED
  BY <1>1, <1>2 DEF GoodTab, TabType, In

LEMMA NewTabFacts ==
  ASSUME NEW p \in Pane
  PROVE  NewTab(p) \in GoodTab /\ In(NewTab(p)) = {p} /\ <<p>> \in Distinct /\ ToSet(<<p>>) = {p}
<1>1. <<p>> \in Distinct /\ ToSet(<<p>>) = {p}
  BY DEF Distinct, ToSet
<1>2. QED
  BY <1>1, MakeTab DEF NewTab

LEMMA WithoutFacts ==
  ASSUME NEW t \in GoodTab, NEW p \in In(t), Len(t.panes) > 1
  PROVE  Without(t, p) \in GoodTab /\ In(Without(t, p)) = In(t) \ {p}
<1> DEFINE m == Min({i \in 1 .. Len(t.panes) : t.panes[i] = p})
           rest == RemoveAt(t.panes, m)
           f == IF t.focus = p THEN Head(rest) ELSE t.focus
           z == IF t.zoom = p THEN 0 ELSE t.zoom
<1>1. /\ t.panes \in Distinct /\ In(t) = ToSet(t.panes)
      /\ t.focus \in In(t) /\ t.zoom \in {0, t.focus} /\ p # 0
  BY TabFacts DEF Pane
<1>2. t.panes \in Seq(Pane) /\ p \in ToSet(t.panes)
  BY <1>1 DEF Distinct
<1>3. m \in DOMAIN t.panes /\ t.panes[m] = p /\ {i \in 1 .. Len(t.panes) : t.panes[i] = p} # {}
  BY <1>1, <1>2, IndexFacts, ZenonT(40)
<1>4. Without(t, p) = [panes |-> rest, focus |-> f, zoom |-> z]
  BY <1>3 DEF Without, SelectInSeq
<1> HIDE DEF m
<1>5. rest \in Distinct /\ Len(rest) = Len(t.panes) - 1 /\ ToSet(rest) = ToSet(t.panes) \ {p}
  BY <1>1, <1>3, DistinctRemoved
<1> HIDE DEF rest
<1>6. Head(rest) \in ToSet(rest)
  <2>1. rest \in Seq(Pane) /\ Len(rest) >= 1
    BY <1>2, <1>5 DEF Distinct
  <2>2. Head(rest) = rest[1] /\ 1 \in DOMAIN rest
    BY <2>1
  <2>3. QED
    BY <2>2 DEF ToSet
<1>7. f \in ToSet(rest) /\ z \in {0, f}
  BY <1>1, <1>5, <1>6
<1>8. QED
  BY <1>1, <1>4, <1>5, <1>7, MakeTab, ZenonT(40)

-----------------------------------------------------------------------------
(* Spaces.                                                                 *)
LEMMA TabsMerged ==
  ASSUME NEW ts \in GoodTabs, NEW j \in DOMAIN ts, NEW k \in DOMAIN ts, j # k,
         NEW t \in GoodTab, In(t) = In(ts[j]) \cup In(ts[k])
  PROVE  /\ RemoveAt([ts EXCEPT ![k] = t], j) \in GoodTabs
         /\ Len(RemoveAt([ts EXCEPT ![k] = t], j)) = Len(ts) - 1
         /\ InTabs(RemoveAt([ts EXCEPT ![k] = t], j)) = InTabs(ts)
<1> DEFINE vs == [ts EXCEPT ![k] = t]
           us == RemoveAt(vs, j)
           n == Len(ts)
<1>1. ts \in Seq(GoodTab) /\ \A a, b \in DOMAIN ts : a # b => In(ts[a]) \cap In(ts[b]) = {}
  BY DEF GoodTabs
<1>2. n \in Nat /\ DOMAIN ts = 1 .. n /\ j \in 1 .. n
  BY <1>1
<1>3. /\ vs \in Seq(GoodTab) /\ Len(vs) = n /\ DOMAIN vs = 1 .. n
      /\ vs[k] = t /\ \A a \in 1 .. n : a # k => vs[a] = ts[a]
  BY <1>1, <1>2
<1> HIDE DEF vs
<1>4. us \in Seq(GoodTab) /\ Len(us) = n - 1 /\ \A a \in 1 .. n - 1 : us[a] = vs[Skip(j, a)]
  <2>1. j \in DOMAIN vs
    BY <1>2, <1>3
  <2>2. /\ us \in Seq(GoodTab) /\ Len(us) = Len(vs) - 1
        /\ \A a \in 1 .. Len(vs) - 1 : us[a] = vs[Skip(j, a)]
    BY <1>3, <2>1, RemoveAtFacts
  <2> HIDE DEF us, n
  <2>3. QED
    BY <1>3, <2>2
<1> HIDE DEF us, n
<1>5. /\ \A a \in 1 .. n - 1 : Skip(j, a) \in (1 .. n) \ {j}
      /\ \A a, b \in 1 .. n - 1 : a # b => Skip(j, a) # Skip(j, b)
      /\ \A m \in (1 .. n) \ {j} : \E a \in 1 .. n - 1 : Skip(j, a) = m
  BY <1>2, SkipFacts, ZenonT(40)
<1>6. DOMAIN us = 1 .. n - 1
  BY <1>2, <1>4
<1>7. \A a, b \in (1 .. n) \ {j} : a # b => In(vs[a]) \cap In(vs[b]) = {}
  BY <1>1, <1>2, <1>3
<1>8. \A a, b \in DOMAIN us : a # b => In(us[a]) \cap In(us[b]) = {}
  <2> SUFFICES ASSUME NEW a \in 1 .. n - 1, NEW b \in 1 .. n - 1, a # b
               PROVE  In(us[a]) \cap In(us[b]) = {}
    BY <1>6
  <2>1. Skip(j, a) \in (1 .. n) \ {j} /\ Skip(j, b) \in (1 .. n) \ {j} /\ Skip(j, a) # Skip(j, b)
    BY <1>5
  <2>2. us[a] = vs[Skip(j, a)] /\ us[b] = vs[Skip(j, b)]
    BY <1>4
  <2>3. QED
    BY <1>7, <2>1, <2>2
<1>9. InTabs(us) = UNION {In(vs[a]) : a \in (1 .. n) \ {j}}
  BY <1>4, <1>5, <1>6 DEF InTabs
<1>10. UNION {In(vs[a]) : a \in (1 .. n) \ {j}} = InTabs(ts)
  <2>1. \A a \in (1 .. n) \ {j} : In(vs[a]) \subseteq InTabs(ts)
    BY <1>2, <1>3 DEF InTabs
  <2>2. \A a \in 1 .. n : a # k /\ a # j => In(ts[a]) = In(vs[a])
    BY <1>3
  <2>3. In(ts[k]) \subseteq In(vs[k]) /\ In(ts[j]) \subseteq In(vs[k])
    BY <1>3
  <2>4. k \in (1 .. n) \ {j}
    BY <1>2
  <2>5. \A a \in 1 .. n : \E b \in (1 .. n) \ {j} : In(ts[a]) \subseteq In(vs[b])
    BY <1>2, <2>2, <2>3, <2>4
  <2>6. InTabs(ts) \subseteq UNION {In(vs[a]) : a \in (1 .. n) \ {j}}
    <3> SUFFICES ASSUME NEW x \in InTabs(ts)
                 PROVE  x \in UNION {In(vs[a]) : a \in (1 .. n) \ {j}}
      OBVIOUS
    <3>1. PICK a \in 1 .. n : x \in In(ts[a])
      BY <1>2 DEF InTabs
    <3>2. PICK b \in (1 .. n) \ {j} : In(ts[a]) \subseteq In(vs[b])
      BY <2>5
    <3>3. QED
      BY <3>1, <3>2
  <2>7. QED
    BY <2>1, <2>6
<1>11. QED
  BY <1>4, <1>8, <1>9, <1>10 DEF GoodTabs, us, vs, n

LEMMA SpaceFacts ==
  ASSUME NEW w \in GoodSpace
  PROVE  /\ w \in SpaceType /\ w.tabs \in GoodTabs /\ w.tabs \in Seq(GoodTab)
         /\ w.active \in DOMAIN w.tabs /\ w.active \in Nat
         /\ w.id \in Nat \ {0} /\ w.cwd \in Folder /\ w.parent \in Nat
         /\ DOMAIN w.tabs = 1 .. Len(w.tabs) /\ Len(w.tabs) \in Nat \ {0}
         /\ PanesOf(w) = InTabs(w.tabs) /\ PanesOf(w) \subseteq Pane /\ PanesOf(w) # {}
<1>1. /\ w \in SpaceType /\ w.tabs \in GoodTabs /\ w.tabs \in Seq(GoodTab)
      /\ w.active \in DOMAIN w.tabs
  BY DEF GoodSpace, GoodTabs
<1>2. w.id \in Nat \ {0} /\ w.cwd \in Folder /\ w.parent \in Nat /\ w.active \in Nat
  BY <1>1 DEF SpaceType
<1>3. DOMAIN w.tabs = 1 .. Len(w.tabs) /\ Len(w.tabs) \in Nat \ {0}
  BY <1>1
<1>4. PanesOf(w) = InTabs(w.tabs)
  BY DEF PanesOf, InTabs, In
<1>5. \A j \in DOMAIN w.tabs : In(w.tabs[j]) \subseteq Pane /\ In(w.tabs[j]) # {}
  BY <1>1, TabFacts
<1>6. InTabs(w.tabs) \subseteq Pane /\ InTabs(w.tabs) # {}
  BY <1>1, <1>5 DEF InTabs
<1>7. QED
  BY <1>1, <1>2, <1>3, <1>4, <1>6

LEMMA MakeSpace ==
  ASSUME NEW id \in Nat \ {0}, NEW f \in Folder, NEW pt \in Nat, NEW ts \in GoodTabs,
         NEW a \in DOMAIN ts
  PROVE  /\ [id |-> id, cwd |-> f, parent |-> pt, tabs |-> ts, active |-> a] \in GoodSpace
         /\ PanesOf([id |-> id, cwd |-> f, parent |-> pt, tabs |-> ts, active |-> a]) = InTabs(ts)
<1> DEFINE w == [id |-> id, cwd |-> f, parent |-> pt, tabs |-> ts, active |-> a]
<1>1. ts \in Seq(GoodTab) /\ ts # <<>> /\ a \in Nat
  BY DEF GoodTabs
<1>2. \A t \in GoodTab : t \in TabType
  BY DEF GoodTab
<1>3. ts \in Seq(TabType)
  BY <1>1, <1>2
<1>4. w \in SpaceType
  BY <1>1, <1>3 DEF SpaceType
<1>5. PanesOf(w) = InTabs(ts)
  BY DEF PanesOf, InTabs, In
<1>6. QED
  BY <1>4, <1>5 DEF GoodSpace

(* The same space with other tabs.                                         *)
Tabbed(w, ts, a) == [w EXCEPT !.tabs = ts, !.active = a]

LEMMA TabsChanged ==
  ASSUME NEW w \in SpaceType, NEW ts \in GoodTabs, NEW a \in DOMAIN ts
  PROVE  /\ Tabbed(w, ts, a) \in GoodSpace /\ PanesOf(Tabbed(w, ts, a)) = InTabs(ts)
         /\ Tabbed(w, ts, a).id = w.id /\ Tabbed(w, ts, a).cwd = w.cwd
         /\ Tabbed(w, ts, a).parent = w.parent
         /\ Tabbed(w, ts, a).active = a /\ Tabbed(w, ts, a).tabs = ts
<1> DEFINE v == Tabbed(w, ts, a)
<1>1. w.id \in Nat \ {0} /\ w.cwd \in Folder /\ w.parent \in Nat
  BY DEF SpaceType
<1>2. v = [id |-> w.id, cwd |-> w.cwd, parent |-> w.parent, tabs |-> ts, active |-> a]
  <2>1. v = [w EXCEPT !.tabs = ts, !.active = a]
    BY DEF Tabbed
  <2> HIDE DEF v
  <2>2. QED
    BY <2>1 DEF SpaceType
<1> HIDE DEF v
<1>3. v.id = w.id /\ v.cwd = w.cwd /\ v.parent = w.parent /\ v.active = a /\ v.tabs = ts
  BY <1>2
<1>4. v \in GoodSpace /\ PanesOf(v) = InTabs(ts)
  <2>1. /\ [id |-> w.id, cwd |-> w.cwd, parent |-> w.parent, tabs |-> ts, active |-> a] \in GoodSpace
        /\ PanesOf([id |-> w.id, cwd |-> w.cwd, parent |-> w.parent, tabs |-> ts, active |-> a])
             = InTabs(ts)
    BY <1>1, MakeSpace
  <2>2. QED
    BY <1>2, <2>1
<1>5. QED
  BY <1>3, <1>4 DEF v

LEMMA ShiftedFacts ==
  ASSUME NEW n \in Nat \ {0}, NEW a \in 1 .. n + 1, NEW i \in 1 .. n + 1
  PROVE  Shifted(a, i, n) \in 1 .. n
BY DEF Shifted

LEMMA DropTabFacts ==
  ASSUME NEW w \in SpaceType, w.active \in DOMAIN w.tabs, NEW j \in DOMAIN w.tabs, Len(w.tabs) > 1,
         RemoveAt(w.tabs, j) \in GoodTabs, Len(RemoveAt(w.tabs, j)) = Len(w.tabs) - 1
  PROVE  /\ DropTab(w, j) \in GoodSpace /\ DropTab(w, j).id = w.id
         /\ PanesOf(DropTab(w, j)) = InTabs(RemoveAt(w.tabs, j))
<1> DEFINE ts == RemoveAt(w.tabs, j)
           n == Len(w.tabs) - 1
           a == Shifted(w.active, j, n)
<1>1. w.tabs \in Seq(TabType) /\ DOMAIN w.tabs = 1 .. Len(w.tabs) /\ Len(w.tabs) \in Nat
  BY DEF SpaceType
<1>2. n \in Nat \ {0} /\ w.active \in 1 .. n + 1 /\ j \in 1 .. n + 1
  <2>1. \A m \in Nat : m > 1 => m - 1 \in Nat \ {0} /\ m - 1 + 1 = m
    OBVIOUS
  <2>2. n \in Nat \ {0} /\ n + 1 = Len(w.tabs)
    BY <1>1, <2>1
  <2> HIDE DEF n
  <2>3. QED
    BY <1>1, <2>2
<1>3. ts \in GoodTabs /\ Len(ts) = n /\ ts \in Seq(GoodTab)
  BY DEF GoodTabs
<1>4. DropTab(w, j) = Tabbed(w, ts, a)
  BY DEF DropTab, Tabbed, SpaceType
<1> HIDE DEF n, ts
<1>5. a \in 1 .. n
  BY <1>2, ShiftedFacts
<1>6. a \in DOMAIN ts
  BY <1>2, <1>3, <1>5
<1> HIDE DEF a
<1>7. /\ Tabbed(w, ts, a) \in GoodSpace /\ PanesOf(Tabbed(w, ts, a)) = InTabs(ts)
      /\ Tabbed(w, ts, a).id = w.id
  BY <1>3, <1>6, TabsChanged
<1>8. QED
  BY <1>4, <1>7 DEF ts

(* The tab a pane is on.                                                   *)
LEMMA TabOf ==
  ASSUME NEW w \in GoodSpace, NEW p \in PanesOf(w)
  PROVE  /\ TabWith(w, p) \in DOMAIN w.tabs /\ p \in In(w.tabs[TabWith(w, p)])
         /\ w.tabs[TabWith(w, p)] \in GoodTab
         /\ \A j \in DOMAIN w.tabs : p \in In(w.tabs[j]) => j = TabWith(w, p)
<1>1. w.tabs \in GoodTabs /\ w.tabs \in Seq(GoodTab) /\ DOMAIN w.tabs = 1 .. Len(w.tabs)
  BY SpaceFacts
<1>2. TabWith(w, p) \in 0 .. Len(w.tabs) /\ TabWith(w, p) # 0
  BY <1>1, TabWithFacts
<1>3. TabWith(w, p) \in DOMAIN w.tabs /\ p \in In(w.tabs[TabWith(w, p)])
  BY <1>1, <1>2, TabWithFacts
<1>4. QED
  BY <1>1, <1>3 DEF GoodTabs

(* One tab of a space put in place of another.                             *)
LEMMA TabPut ==
  ASSUME NEW w \in GoodSpace, NEW j \in DOMAIN w.tabs, NEW t \in GoodTab,
         In(t) \cap (PanesOf(w) \ In(w.tabs[j])) = {}
  PROVE  /\ [w EXCEPT !.tabs[j] = t] \in GoodSpace
         /\ PanesOf([w EXCEPT !.tabs[j] = t]) = (PanesOf(w) \ In(w.tabs[j])) \cup In(t)
         /\ [w EXCEPT !.tabs[j] = t].id = w.id
         /\ [w EXCEPT !.tabs[j] = t].active = w.active
         /\ [w EXCEPT !.tabs[j] = t].tabs = [w.tabs EXCEPT ![j] = t]
<1> DEFINE ts == [w.tabs EXCEPT ![j] = t]
<1>1. /\ w \in SpaceType /\ w.tabs \in GoodTabs /\ w.tabs \in Seq(GoodTab)
      /\ w.active \in DOMAIN w.tabs /\ PanesOf(w) = InTabs(w.tabs)
  BY SpaceFacts
<1>2. /\ ts \in GoodTabs /\ InTabs(ts) = (InTabs(w.tabs) \ In(w.tabs[j])) \cup In(t)
  BY <1>1, TabReplaced
<1>3. DOMAIN ts = DOMAIN w.tabs
  BY <1>1
<1>4. [w EXCEPT !.tabs[j] = t] = Tabbed(w, ts, w.active)
  BY <1>1 DEF SpaceType, Tabbed
<1>5. w.active \in DOMAIN ts
  BY <1>1, <1>3
<1> HIDE DEF ts
<1> DEFINE v == Tabbed(w, ts, w.active)
<1> HIDE DEF v
<1>6. v \in GoodSpace /\ PanesOf(v) = InTabs(ts) /\ v.id = w.id /\ v.active = w.active /\ v.tabs = ts
  BY <1>1, <1>2, <1>5, TabsChanged DEF v
<1>7. QED
  BY <1>1, <1>2, <1>4, <1>6 DEF ts, v

-----------------------------------------------------------------------------
(* Spaces of a session.                                                    *)
LEMMA SpacesFacts ==
  ASSUME NEW ws \in GoodSpaces
  PROVE  /\ ws \in Seq(GoodSpace) /\ DOMAIN ws = 1 .. Len(ws) /\ Len(ws) \in Nat
         /\ \A i \in DOMAIN ws : /\ ws[i] \in GoodSpace /\ PanesOf(ws[i]) \subseteq InSpaces(ws)
                                 /\ ws[i].id \in Nat \ {0}
         /\ InSpaces(ws) \subseteq Pane
         /\ ws # <<>> => InSpaces(ws) # {}
<1>1. ws \in Seq(GoodSpace) /\ DOMAIN ws = 1 .. Len(ws) /\ Len(ws) \in Nat
  BY DEF GoodSpaces
<1>2. \A i \in DOMAIN ws : ws[i] \in GoodSpace
  BY <1>1
<1>3. \A i \in DOMAIN ws : /\ PanesOf(ws[i]) \subseteq Pane /\ PanesOf(ws[i]) # {}
                           /\ ws[i].id \in Nat \ {0}
  BY <1>2, SpaceFacts
<1>4. \A i \in DOMAIN ws : PanesOf(ws[i]) \subseteq InSpaces(ws)
  BY DEF InSpaces
<1>5. InSpaces(ws) \subseteq Pane
  BY <1>3 DEF InSpaces
<1>6. ws # <<>> => 1 \in DOMAIN ws
  BY <1>1
<1>7. QED
  BY <1>1, <1>2, <1>3, <1>4, <1>5, <1>6

LEMMA SpaceOf ==
  ASSUME NEW ws \in GoodSpaces, NEW p \in InSpaces(ws)
  PROVE  /\ SpaceWith(ws, p) \in DOMAIN ws /\ SpaceWith(ws, p) # 0
         /\ p \in PanesOf(ws[SpaceWith(ws, p)]) /\ ws[SpaceWith(ws, p)] \in GoodSpace
         /\ \A i \in DOMAIN ws : p \in PanesOf(ws[i]) => i = SpaceWith(ws, p)
<1>1. ws \in Seq(GoodSpace) /\ DOMAIN ws = 1 .. Len(ws)
  BY SpacesFacts
<1>2. SpaceWith(ws, p) \in 0 .. Len(ws) /\ SpaceWith(ws, p) # 0
  BY <1>1, SpaceWithFacts
<1>3. SpaceWith(ws, p) \in DOMAIN ws /\ p \in PanesOf(ws[SpaceWith(ws, p)])
  BY <1>1, <1>2, SpaceWithFacts
<1>4. QED
  BY <1>1, <1>2, <1>3 DEF GoodSpaces

LEMMA SpacePut ==
  ASSUME NEW ws \in GoodSpaces, NEW i \in DOMAIN ws, NEW w \in GoodSpace, w.id = ws[i].id,
         PanesOf(w) \cap (InSpaces(ws) \ PanesOf(ws[i])) = {}
  PROVE  /\ [ws EXCEPT ![i] = w] \in GoodSpaces
         /\ Len([ws EXCEPT ![i] = w]) = Len(ws) /\ DOMAIN [ws EXCEPT ![i] = w] = DOMAIN ws
         /\ InSpaces([ws EXCEPT ![i] = w]) = (InSpaces(ws) \ PanesOf(ws[i])) \cup PanesOf(w)
<1> DEFINE us == [ws EXCEPT ![i] = w]
<1>1. /\ ws \in Seq(GoodSpace)
      /\ \A m, n \in DOMAIN ws : m # n => /\ PanesOf(ws[m]) \cap PanesOf(ws[n]) = {}
                                          /\ ws[m].id # ws[n].id
  BY DEF GoodSpaces
<1>2. us \in Seq(GoodSpace) /\ Len(us) = Len(ws) /\ DOMAIN us = DOMAIN ws
  BY <1>1
<1>3. us[i] = w /\ \A n \in DOMAIN ws : n # i => us[n] = ws[n]
  BY <1>1
<1> HIDE DEF us
<1>4. \A n \in DOMAIN ws : n # i => PanesOf(ws[n]) \subseteq InSpaces(ws) \ PanesOf(ws[i])
  BY <1>1 DEF InSpaces
<1>5. \A m, n \in DOMAIN us : m # n => PanesOf(us[m]) \cap PanesOf(us[n]) = {}
  BY <1>1, <1>2, <1>3, <1>4
<1>6. \A n \in DOMAIN us : us[n].id = ws[n].id
  BY <1>2, <1>3
<1>7. InSpaces(us) = (InSpaces(ws) \ PanesOf(ws[i])) \cup PanesOf(w)
  BY <1>2, <1>3, <1>4 DEF InSpaces
<1>8. \A m, n \in DOMAIN us : m # n => us[m].id # us[n].id
  BY <1>1, <1>2, <1>6
<1>9. us \in GoodSpaces
  BY <1>2, <1>5, <1>8 DEF GoodSpaces
<1>10. QED
  BY <1>2, <1>7, <1>9 DEF us

LEMMA SpaceRemoved ==
  ASSUME NEW ws \in GoodSpaces, NEW i \in DOMAIN ws
  PROVE  /\ RemoveAt(ws, i) \in GoodSpaces /\ Len(RemoveAt(ws, i)) = Len(ws) - 1
         /\ InSpaces(RemoveAt(ws, i)) = InSpaces(ws) \ PanesOf(ws[i])
<1> DEFINE us == RemoveAt(ws, i)
           n == Len(ws)
<1>1. /\ ws \in Seq(GoodSpace)
      /\ \A a, b \in DOMAIN ws : a # b => /\ PanesOf(ws[a]) \cap PanesOf(ws[b]) = {}
                                          /\ ws[a].id # ws[b].id
  BY DEF GoodSpaces
<1>2. n \in Nat /\ DOMAIN ws = 1 .. n /\ i \in 1 .. n
  BY <1>1
<1>3. us \in Seq(GoodSpace) /\ Len(us) = n - 1 /\ \A k \in 1 .. n - 1 : us[k] = ws[Skip(i, k)]
  BY <1>1, RemoveAtFacts
<1> HIDE DEF us, n
<1>4. /\ \A k \in 1 .. n - 1 : Skip(i, k) \in (1 .. n) \ {i}
      /\ \A k, l \in 1 .. n - 1 : k # l => Skip(i, k) # Skip(i, l)
      /\ \A m \in (1 .. n) \ {i} : \E k \in 1 .. n - 1 : Skip(i, k) = m
  BY <1>2, SkipFacts
<1>5. DOMAIN us = 1 .. n - 1
  BY <1>2, <1>3
<1>6. \A a, b \in DOMAIN us : a # b => /\ PanesOf(us[a]) \cap PanesOf(us[b]) = {}
                                       /\ us[a].id # us[b].id
  <2> SUFFICES ASSUME NEW a \in 1 .. n - 1, NEW b \in 1 .. n - 1, a # b
               PROVE  PanesOf(us[a]) \cap PanesOf(us[b]) = {} /\ us[a].id # us[b].id
    BY <1>5
  <2>1. Skip(i, a) \in 1 .. n /\ Skip(i, b) \in 1 .. n /\ Skip(i, a) # Skip(i, b)
    BY <1>4
  <2>2. us[a] = ws[Skip(i, a)] /\ us[b] = ws[Skip(i, b)]
    BY <1>3
  <2>3. QED
    BY <1>1, <1>2, <2>1, <2>2
<1>7. InSpaces(us) = UNION {PanesOf(ws[a]) : a \in (1 .. n) \ {i}}
  BY <1>3, <1>4, <1>5 DEF InSpaces
<1>8. UNION {PanesOf(ws[a]) : a \in (1 .. n) \ {i}} = InSpaces(ws) \ PanesOf(ws[i])
  BY <1>1, <1>2 DEF InSpaces
<1>9. QED
  BY <1>1, <1>3, <1>6, <1>7, <1>8 DEF GoodSpaces, us, n

LEMMA SpaceInserted ==
  ASSUME NEW ws \in GoodSpaces, NEW i \in 1 .. Len(ws) + 1, NEW w \in GoodSpace,
         w.id \notin Ids(ws), PanesOf(w) \cap InSpaces(ws) = {}
  PROVE  /\ InsertAt(ws, i, w) \in GoodSpaces /\ Len(InsertAt(ws, i, w)) = Len(ws) + 1
         /\ InSpaces(InsertAt(ws, i, w)) = InSpaces(ws) \cup PanesOf(w)
         /\ InsertAt(ws, i, w)[i] = w
<1> DEFINE us == InsertAt(ws, i, w)
           n == Len(ws)
<1>1. /\ ws \in Seq(GoodSpace)
      /\ \A a, b \in DOMAIN ws : a # b => /\ PanesOf(ws[a]) \cap PanesOf(ws[b]) = {}
                                          /\ ws[a].id # ws[b].id
  BY DEF GoodSpaces
<1>2. n \in Nat /\ DOMAIN ws = 1 .. n /\ i \in 1 .. n + 1
  BY <1>1
<1>3. /\ us \in Seq(GoodSpace) /\ Len(us) = n + 1 /\ us[i] = w
      /\ \A k \in 1 .. n : us[Skip(i, k)] = ws[k]
  BY <1>1, InsertAtFacts
<1> HIDE DEF us, n
<1>4. /\ \A k \in 1 .. n : Skip(i, k) \in (1 .. n + 1) \ {i}
      /\ \A m \in (1 .. n + 1) \ {i} : \E k \in 1 .. n : Skip(i, k) = m
  <2> DEFINE N == n + 1
  <2>1. N \in Nat /\ i \in 1 .. N /\ N - 1 = n
    BY <1>2
  <2> HIDE DEF N
  <2>2. /\ \A k \in 1 .. N - 1 : Skip(i, k) \in (1 .. N) \ {i}
        /\ \A m \in (1 .. N) \ {i} : \E k \in 1 .. N - 1 : Skip(i, k) = m
    BY <2>1, SkipFacts, ZenonT(40)
  <2>3. QED
    BY <2>1, <2>2 DEF N
<1>5. DOMAIN us = 1 .. n + 1
  BY <1>2, <1>3
<1>6. \A k \in 1 .. n : PanesOf(ws[k]) \cap PanesOf(w) = {} /\ ws[k].id # w.id
  BY <1>2 DEF InSpaces, Ids
<1>7. \A a \in DOMAIN us : a # i => \E k \in 1 .. n : a = Skip(i, k) /\ us[a] = ws[k]
  BY <1>3, <1>4, <1>5
<1>8. \A a, b \in DOMAIN us : a # b => /\ PanesOf(us[a]) \cap PanesOf(us[b]) = {}
                                       /\ us[a].id # us[b].id
  <2> SUFFICES ASSUME NEW a \in DOMAIN us, NEW b \in DOMAIN us, a # b
               PROVE  PanesOf(us[a]) \cap PanesOf(us[b]) = {} /\ us[a].id # us[b].id
    OBVIOUS
  <2>1. CASE a = i
    <3>1. PICK l \in 1 .. n : us[b] = ws[l]
      BY <1>7, <2>1
    <3>2. QED
      BY <1>3, <1>6, <2>1, <3>1
  <2>2. CASE b = i
    <3>1. PICK k \in 1 .. n : us[a] = ws[k]
      BY <1>7, <2>2
    <3>2. QED
      BY <1>3, <1>6, <2>2, <3>1
  <2>3. CASE a # i /\ b # i
    <3>1. PICK k \in 1 .. n : a = Skip(i, k) /\ us[a] = ws[k]
      BY <1>7, <2>3
    <3>2. PICK l \in 1 .. n : b = Skip(i, l) /\ us[b] = ws[l]
      BY <1>7, <2>3
    <3>3. k # l
      BY <3>1, <3>2
    <3>4. QED
      BY <1>1, <1>2, <3>1, <3>2, <3>3
  <2>4. QED
    BY <2>1, <2>2, <2>3
<1>9. InSpaces(us) = InSpaces(ws) \cup PanesOf(w)
  <2>1. \A a \in DOMAIN us : PanesOf(us[a]) \subseteq InSpaces(ws) \cup PanesOf(w)
    BY <1>2, <1>3, <1>7 DEF InSpaces
  <2>2. \A k \in 1 .. n : PanesOf(ws[k]) \subseteq InSpaces(us)
    BY <1>3, <1>4, <1>5 DEF InSpaces
  <2>3. PanesOf(w) \subseteq InSpaces(us)
    BY <1>2, <1>3, <1>5 DEF InSpaces
  <2>4. InSpaces(us) \subseteq InSpaces(ws) \cup PanesOf(w)
    BY <2>1 DEF InSpaces
  <2>5. InSpaces(ws) \subseteq InSpaces(us)
    BY <1>2, <2>2 DEF InSpaces
  <2>6. QED
    BY <2>3, <2>4, <2>5
<1>10. QED
  BY <1>3, <1>8, <1>9 DEF GoodSpaces, us, n

(* A space of another folder or parent.                                    *)
LEMMA SpaceMoved ==
  ASSUME NEW w \in GoodSpace, NEW f \in Folder, NEW n \in Nat
  PROVE  /\ [w EXCEPT !.cwd = f] \in GoodSpace /\ [w EXCEPT !.parent = n] \in GoodSpace
         /\ [w EXCEPT !.cwd = f].id = w.id /\ [w EXCEPT !.parent = n].id = w.id
         /\ PanesOf([w EXCEPT !.cwd = f]) = PanesOf(w)
         /\ PanesOf([w EXCEPT !.parent = n]) = PanesOf(w)
<1>1. w \in SpaceType /\ w.tabs \in GoodTabs /\ w.active \in DOMAIN w.tabs
  BY SpaceFacts
<1>2. /\ [w EXCEPT !.cwd = f].tabs = w.tabs /\ [w EXCEPT !.parent = n].tabs = w.tabs
      /\ [w EXCEPT !.cwd = f].active = w.active /\ [w EXCEPT !.parent = n].active = w.active
      /\ [w EXCEPT !.cwd = f].id = w.id /\ [w EXCEPT !.parent = n].id = w.id
  BY <1>1 DEF SpaceType
<1>3. [w EXCEPT !.cwd = f] \in SpaceType /\ [w EXCEPT !.parent = n] \in SpaceType
  BY <1>1 DEF SpaceType
<1>4. QED
  BY <1>1, <1>2, <1>3 DEF GoodSpace, PanesOf

(* Children whose parent is gone.                                          *)
Orphaned(ws) == [k \in DOMAIN ws |-> [ws[k] EXCEPT !.parent = Known(@, ws)]]

LEMMA OrphanedFacts ==
  ASSUME NEW ws \in GoodSpaces
  PROVE  /\ Orphaned(ws) \in GoodSpaces /\ Len(Orphaned(ws)) = Len(ws)
         /\ DOMAIN Orphaned(ws) = DOMAIN ws /\ InSpaces(Orphaned(ws)) = InSpaces(ws)
<1> DEFINE us == Orphaned(ws)
<1>1. /\ ws \in Seq(GoodSpace) /\ DOMAIN ws = 1 .. Len(ws) /\ Len(ws) \in Nat
      /\ \A i \in DOMAIN ws : ws[i] \in GoodSpace
  BY SpacesFacts
<1>2. ASSUME NEW k \in DOMAIN ws
      PROVE  us[k] \in GoodSpace /\ us[k].id = ws[k].id /\ PanesOf(us[k]) = PanesOf(ws[k])
  <2> DEFINE n == Known(ws[k].parent, ws)
  <2>1. ws[k] \in GoodSpace /\ ws[k].parent \in Nat
    BY <1>1, SpaceFacts
  <2>2. n \in Nat
    BY <2>1 DEF Known
  <2>3. us[k] = [ws[k] EXCEPT !.parent = n]
    BY DEF Orphaned
  <2> HIDE DEF n
  <2>4. PICK f \in Folder : TRUE
    BY ViewAssumption
  <2>5. /\ [ws[k] EXCEPT !.parent = n] \in GoodSpace
        /\ [ws[k] EXCEPT !.parent = n].id = ws[k].id
        /\ PanesOf([ws[k] EXCEPT !.parent = n]) = PanesOf(ws[k])
    BY <2>1, <2>2, SpaceMoved
  <2>6. QED
    BY <2>3, <2>5
<1>3. DOMAIN us = DOMAIN ws
  BY DEF Orphaned
<1>4. us \in Seq(GoodSpace) /\ Len(us) = Len(ws)
  BY <1>1, <1>2 DEF Orphaned
<1> HIDE DEF us
<1>5. InSpaces(us) = InSpaces(ws)
  BY <1>2, <1>3 DEF InSpaces
<1>6. QED
  BY <1>2, <1>3, <1>4, <1>5 DEF GoodSpaces, us

(* Sessions.                                                               *)
Scope == Folder \cup {NoFolder}
(* Between its last pane and the next one, a session has no space.         *)
AnySession == [spaces : GoodSpaces, active : Nat, scope : Scope]

LEMMA SessionFacts ==
  ASSUME NEW S \in GoodSession
  PROVE  /\ S.spaces \in GoodSpaces /\ S.active \in DOMAIN S.spaces /\ S.scope \in Scope
         /\ S.spaces # <<>> /\ S.active \in Nat /\ S \in AnySession
         /\ S = [spaces |-> S.spaces, active |-> S.active, scope |-> S.scope]
         /\ ActiveSpace(S) \in GoodSpace /\ PanesOf(ActiveSpace(S)) \subseteq InSpaces(S.spaces)
         /\ ActiveTab(S) \in GoodTab /\ Focused(S) \in In(ActiveTab(S))
         /\ In(ActiveTab(S)) \subseteq PanesOf(ActiveSpace(S))
<1>1. /\ S.spaces \in GoodSpaces /\ S.active \in DOMAIN S.spaces /\ S.scope \in Scope
      /\ S.spaces # <<>> /\ S.active \in Nat /\ S \in AnySession
      /\ S = [spaces |-> S.spaces, active |-> S.active, scope |-> S.scope]
  BY DEF GoodSession, AnySession, GoodSpaces, Scope
<1>2. ActiveSpace(S) \in GoodSpace /\ PanesOf(ActiveSpace(S)) \subseteq InSpaces(S.spaces)
  BY <1>1, SpacesFacts DEF ActiveSpace
<1>3. /\ ActiveSpace(S).active \in DOMAIN ActiveSpace(S).tabs
      /\ ActiveSpace(S).tabs \in Seq(GoodTab)
      /\ PanesOf(ActiveSpace(S)) = InTabs(ActiveSpace(S).tabs)
  BY <1>2, SpaceFacts
<1>4. ActiveTab(S) \in GoodTab /\ In(ActiveTab(S)) \subseteq PanesOf(ActiveSpace(S))
  BY <1>3 DEF ActiveTab, InTabs
<1>5. Focused(S) \in In(ActiveTab(S))
  BY <1>4, TabFacts DEF Focused
<1>6. QED
  BY <1>1, <1>2, <1>4, <1>5

LEMMA MakeSession ==
  ASSUME NEW ws \in GoodSpaces, NEW a \in DOMAIN ws, NEW f \in Scope
  PROVE  [spaces |-> ws, active |-> a, scope |-> f] \in GoodSession
BY DEF GoodSession, GoodSpaces, Scope

-----------------------------------------------------------------------------
(* The operations.  Each takes a good session to a good one, and is exact  *)
(* on the panes that are in it.                                            *)
Sess(ws, a, f) == [spaces |-> ws, active |-> a, scope |-> f]

(* The space's active tab is a, the session's active space b.              *)
Put(S, i, j, t, a, b, f) ==
  Sess([S.spaces EXCEPT ![i] = Tabbed(S.spaces[i], [S.spaces[i].tabs EXCEPT ![j] = t], a)], b, f)

(* One tab of a session put in place of another, and the view somewhere.   *)
LEMMA PutTab ==
  ASSUME NEW S \in GoodSession, NEW i \in DOMAIN S.spaces, NEW j \in DOMAIN S.spaces[i].tabs,
         NEW t \in GoodTab, In(t) \cap (InSpaces(S.spaces) \ In(S.spaces[i].tabs[j])) = {},
         NEW a \in DOMAIN S.spaces[i].tabs, NEW b \in DOMAIN S.spaces, NEW f \in Scope
  PROVE  /\ Put(S, i, j, t, a, b, f) \in GoodSession
         /\ InSpaces(Put(S, i, j, t, a, b, f).spaces)
              = (InSpaces(S.spaces) \ In(S.spaces[i].tabs[j])) \cup In(t)
         /\ DOMAIN Put(S, i, j, t, a, b, f).spaces = DOMAIN S.spaces
         /\ Len(Put(S, i, j, t, a, b, f).spaces) = Len(S.spaces)
<1> DEFINE ws == S.spaces
           w == S.spaces[i]
           ts == [w.tabs EXCEPT ![j] = t]
           v == Tabbed(w, ts, a)
           us == [ws EXCEPT ![i] = v]
<1>1. ws \in GoodSpaces
  BY SessionFacts
<1>2. w \in GoodSpace /\ PanesOf(w) \subseteq InSpaces(ws)
  BY <1>1, SpacesFacts
<1>3. /\ w \in SpaceType /\ w.tabs \in GoodTabs /\ w.tabs \in Seq(GoodTab)
      /\ PanesOf(w) = InTabs(w.tabs)
  BY <1>2, SpaceFacts
<1>4. In(w.tabs[j]) \subseteq InTabs(w.tabs)
  BY DEF InTabs
<1> HIDE DEF ws, w
<1>5. j \in DOMAIN w.tabs /\ a \in DOMAIN w.tabs /\ i \in DOMAIN ws
      /\ In(t) \cap (InSpaces(ws) \ In(w.tabs[j])) = {}
  BY DEF ws, w
<1>6. In(t) \cap (InTabs(w.tabs) \ In(w.tabs[j])) = {}
  BY <1>2, <1>3, <1>5
<1>7. ts \in GoodTabs /\ InTabs(ts) = (InTabs(w.tabs) \ In(w.tabs[j])) \cup In(t)
  BY <1>3, <1>5, <1>6, TabReplaced
<1>8. a \in DOMAIN ts
  BY <1>3, <1>5
<1> HIDE DEF ts
<1>9. v \in GoodSpace /\ PanesOf(v) = InTabs(ts) /\ v.id = w.id
  BY <1>3, <1>7, <1>8, TabsChanged
<1> HIDE DEF v
<1>10. w = ws[i]
  BY DEF w, ws
<1>11. PanesOf(v) \cap (InSpaces(ws) \ PanesOf(ws[i])) = {}
  <2>1. \A x \in PanesOf(v) : x \in PanesOf(w) \/ x \in In(t)
    BY <1>3, <1>7, <1>9
  <2>2. \A x \in In(t) : x \in InSpaces(ws) => x \in In(w.tabs[j])
    BY <1>5
  <2>3. QED
    BY <1>3, <1>4, <1>10, <2>1, <2>2
<1>12. /\ us \in GoodSpaces /\ Len(us) = Len(ws) /\ DOMAIN us = DOMAIN ws
       /\ InSpaces(us) = (InSpaces(ws) \ PanesOf(ws[i])) \cup PanesOf(v)
  BY <1>1, <1>5, <1>9, <1>10, <1>11, SpacePut
<1>13. InSpaces(us) = (InSpaces(ws) \ In(w.tabs[j])) \cup In(t)
  <2> DEFINE A == InSpaces(ws)
             B == InTabs(w.tabs)
             C == In(w.tabs[j])
             D == In(t)
  <2>1. InSpaces(us) = (A \ B) \cup ((B \ C) \cup D)
    BY <1>3, <1>7, <1>9, <1>10, <1>12
  <2>2. B \subseteq A /\ C \subseteq B
    BY <1>2, <1>3, <1>4
  <2> HIDE DEF A, B, C, D
  <2>3. (A \ B) \cup ((B \ C) \cup D) = (A \ C) \cup D
    BY <2>2
  <2>4. QED
    BY <2>1, <2>3 DEF A, B, C, D
<1>14. b \in DOMAIN us
  BY <1>12 DEF ws
<1> HIDE DEF us
<1>15. [spaces |-> us, active |-> b, scope |-> f] \in GoodSession
  BY <1>12, <1>14, MakeSession
<1>16. QED
  BY <1>12, <1>13, <1>15 DEF Put, Sess, us, v, ts, w, ws

LEMMA OnTabFacts ==
  ASSUME NEW S \in GoodSession, NEW t \in GoodTab,
         In(t) \cap (InSpaces(S.spaces) \ In(ActiveTab(S))) = {}
  PROVE  /\ OnTab(S, t) \in GoodSession
         /\ InSpaces(OnTab(S, t).spaces) = (InSpaces(S.spaces) \ In(ActiveTab(S))) \cup In(t)
<1> DEFINE ws == S.spaces
           i == S.active
           w == ws[i]
           j == w.active
           T == Put(S, i, j, t, j, i, S.scope)
<1>1. /\ i \in DOMAIN ws /\ S.scope \in Scope /\ w \in GoodSpace
      /\ S = [spaces |-> ws, active |-> i, scope |-> S.scope]
  BY SessionFacts DEF ActiveSpace
<1>2. j \in DOMAIN w.tabs /\ w \in SpaceType
  BY <1>1, SpaceFacts
<1>3. ActiveTab(S) = w.tabs[j]
  BY DEF ActiveTab, ActiveSpace
<1>4. /\ T \in GoodSession
      /\ InSpaces(T.spaces) = (InSpaces(ws) \ In(w.tabs[j])) \cup In(t)
  BY <1>1, <1>2, <1>3, PutTab
<1>5. Tabbed(w, [w.tabs EXCEPT ![j] = t], j) = [w EXCEPT !.tabs[j] = t]
  BY <1>2 DEF Tabbed, SpaceType
<1>6. OnTab(S, t) = [S EXCEPT !.spaces = [ws EXCEPT ![i] = [w EXCEPT !.tabs[j] = t]]]
  BY <1>1 DEF OnTab, ActiveSpace
<1>7. OnTab(S, t) = T
  BY <1>1, <1>5, <1>6 DEF Put, Sess
<1>8. QED
  BY <1>3, <1>4, <1>7

(* The space the view is on is in scope.                                   *)
Seen(S) == InScope(S, ActiveSpace(S))

(* Tabs of a space have no say in what is in scope.                        *)
LEMMA PutSeen ==
  ASSUME NEW S \in GoodSession, NEW i \in DOMAIN S.spaces, NEW j, NEW t,
         [S.spaces[i].tabs EXCEPT ![j] = t] \in GoodTabs, NEW a \in DOMAIN S.spaces[i].tabs,
         NEW f, f = IF InScope(S, S.spaces[i]) THEN S.scope ELSE NoFolder
  PROVE  Seen(Put(S, i, j, t, a, i, f))
<1> DEFINE ws == S.spaces
           w == S.spaces[i]
           ts == [w.tabs EXCEPT ![j] = t]
<1>1. ws \in Seq(GoodSpace) /\ DOMAIN ws = 1 .. Len(ws) /\ w \in GoodSpace
  BY SessionFacts, SpacesFacts
<1>2. w \in SpaceType /\ w.tabs \in Seq(GoodTab)
  BY <1>1, SpaceFacts
<1>3. ts \in GoodTabs /\ a \in DOMAIN ts
  BY <1>2
<1>4. PICK v : v = Tabbed(w, ts, a)
  OBVIOUS
<1>5. v.id = w.id /\ v.cwd = w.cwd /\ v.parent = w.parent
  <2> HIDE DEF ts, w
  <2>1. QED
    BY <1>2, <1>3, <1>4, TabsChanged
<1>6. PICK us : us = [ws EXCEPT ![i] = v]
  OBVIOUS
<1>7. PICK T : T = [spaces |-> us, active |-> i, scope |-> f]
  OBVIOUS
<1>8. T = Put(S, i, j, t, a, i, f)
  BY <1>4, <1>6, <1>7 DEF Put, Sess
<1>9. /\ T.spaces = us /\ T.scope = f /\ us[i] = v /\ DOMAIN us = DOMAIN ws
      /\ \A m \in DOMAIN ws : us[m].id = ws[m].id /\ us[m].cwd = ws[m].cwd
  BY <1>1, <1>5, <1>6, <1>7
<1>10. ActiveSpace(T) = v
  BY <1>7, <1>9 DEF ActiveSpace
<1>11. CASE ~InScope(S, w)
  <2>1. f = NoFolder
    BY <1>11
  <2>2. Seen(T)
    BY <1>9, <2>1 DEF Seen, InScope
  <2>3. QED
    BY <1>8, <2>2
<1>12. CASE InScope(S, w)
  <2>1. f = S.scope
    BY <1>12
  <2>2. CASE \E q \in ToSet(ws) : q.id = w.parent /\ q.cwd = S.scope
    <3>1. PICK m \in DOMAIN ws : ws[m].id = w.parent /\ ws[m].cwd = S.scope
      BY <2>2 DEF ToSet
    <3>2. us[m] \in ToSet(us) /\ us[m].id = v.parent /\ us[m].cwd = f
      BY <1>5, <1>9, <2>1, <3>1 DEF ToSet
    <3>3. QED
      BY <1>8, <1>9, <1>10, <3>2 DEF Seen, InScope
  <2>3. CASE S.scope = NoFolder \/ w.cwd = S.scope
    BY <1>5, <1>8, <1>9, <1>10, <2>1, <2>3 DEF Seen, InScope
  <2>4. QED
    BY <1>12, <2>2, <2>3 DEF InScope
<1>13. QED
  BY <1>8, <1>11, <1>12

(* Going to a pane leaves every pane where it is, and the view in scope.   *)
LEMMA GoToFacts ==
  ASSUME NEW S \in GoodSession, NEW p
  PROVE  /\ GoTo(S, p) \in GoodSession /\ InSpaces(GoTo(S, p).spaces) = InSpaces(S.spaces)
         /\ p \in InSpaces(S.spaces) => Seen(GoTo(S, p))
<1> DEFINE ws == S.spaces
           i == SpaceWith(ws, p)
           w == ws[i]
           j == TabWith(w, p)
           z == IF w.tabs[j].zoom = p THEN p ELSE 0
           t == [panes |-> w.tabs[j].panes, focus |-> p, zoom |-> z]
           f == IF InScope(S, w) THEN S.scope ELSE NoFolder
           T == Put(S, i, j, t, j, i, f)
<1>1. /\ ws \in GoodSpaces /\ S.scope \in Scope
      /\ S = [spaces |-> ws, active |-> S.active, scope |-> S.scope]
  BY SessionFacts
<1>2. CASE i = 0
  <2>1. p \notin InSpaces(ws)
    BY <1>1, <1>2, SpaceOf
  <2>2. QED
    BY <1>2, <2>1 DEF GoTo
<1>3. CASE i # 0
  <2>1. p \in InSpaces(ws)
    <3>1. ws \in Seq(GoodSpace) /\ DOMAIN ws = 1 .. Len(ws)
      BY <1>1, SpacesFacts
    <3>2. i \in 0 .. Len(ws) /\ p \in PanesOf(ws[i])
      BY <1>3, <3>1, SpaceWithFacts
    <3>3. QED
      BY <1>3, <3>1, <3>2 DEF InSpaces
  <2>2. i \in DOMAIN ws /\ p \in PanesOf(w) /\ w \in GoodSpace
    BY <1>1, <2>1, SpaceOf
  <2>3. j \in DOMAIN w.tabs /\ p \in In(w.tabs[j]) /\ w.tabs[j] \in GoodTab
    BY <2>2, TabOf
  <2>4. /\ w \in SpaceType /\ w.tabs \in Seq(GoodTab)
        /\ w.tabs[j].panes \in Distinct /\ In(w.tabs[j]) = ToSet(w.tabs[j].panes)
        /\ w.tabs[j] = [panes |-> w.tabs[j].panes, focus |-> w.tabs[j].focus,
                        zoom |-> w.tabs[j].zoom]
    BY <2>2, <2>3, SpaceFacts, TabFacts
  <2>5. t \in GoodTab /\ In(t) = In(w.tabs[j])
    BY <2>3, <2>4, MakeTab
  <2>6. f \in Scope
    BY <1>1 DEF Scope
  <2>7. /\ T \in GoodSession
        /\ InSpaces(T.spaces) = (InSpaces(ws) \ In(w.tabs[j])) \cup In(w.tabs[j])
    <3> HIDE DEF z, t, f
    <3>1. In(t) \cap (InSpaces(ws) \ In(w.tabs[j])) = {}
      BY <2>5
    <3>2. QED
      BY <2>2, <2>3, <2>5, <2>6, <3>1, PutTab
  <2>8. In(w.tabs[j]) \subseteq InSpaces(ws)
    BY <1>1, <2>2, <2>3, SpacesFacts, SpaceFacts DEF InTabs
  <2>9. GoTo(S, p) = T
    <3>1. [w.tabs[j] EXCEPT !.focus = p, !.zoom = z] = t
      <4>1. w.tabs[j] \in TabType
        BY <2>3 DEF GoodTab
      <4> HIDE DEF w, j, z
      <4>2. PICK u : u = [w.tabs[j] EXCEPT !.focus = p, !.zoom = z]
        OBVIOUS
      <4>3. u = t
        BY <4>1, <4>2 DEF TabType
      <4>4. QED
        BY <4>2, <4>3
    <3>2. [w EXCEPT !.active = j, !.tabs[j] = t] = Tabbed(w, [w.tabs EXCEPT ![j] = t], j)
      BY <2>4 DEF Tabbed, SpaceType
    <3>3. GoTo(S, p) = [S EXCEPT !.active = i,
                                 !.spaces[i] = [w EXCEPT !.active = j, !.tabs[j] = t],
                                 !.scope = f]
      BY <1>3, <3>1 DEF GoTo
    <3>4. S \in [spaces : GoodSpaces, active : Nat, scope : Scope]
      BY DEF GoodSession, Scope
    <3> HIDE DEF f, i, j, t, w
    <3>5. GoTo(S, p) = [spaces |-> [ws EXCEPT ![i] = [w EXCEPT !.active = j, !.tabs[j] = t]],
                        active |-> i, scope |-> f]
      BY <3>3, <3>4
    <3>6. QED
      BY <3>2, <3>5 DEF Put, Sess, w
  <2>10. Seen(T)
    <3>1. [w.tabs EXCEPT ![j] = t] \in GoodTabs
      <4>1. w.tabs \in GoodTabs /\ In(t) \cap (InTabs(w.tabs) \ In(w.tabs[j])) = {}
        BY <2>2, <2>5, SpaceFacts
      <4> HIDE DEF w, j, t
      <4>2. QED
        BY <2>3, <2>5, <4>1, TabReplaced
    <3>2. j \in DOMAIN w.tabs /\ i \in DOMAIN ws
      BY <2>2, <2>3
    <3> HIDE DEF i, j, t
    <3>3. QED
      BY <3>1, <3>2, PutSeen
  <2>11. QED
    BY <2>7, <2>8, <2>9, <2>10
<1>4. QED
  BY <1>2, <1>3

(* One space of a session put in place of another, and the view somewhere. *)
PutSpace(S, i, w, b, f) == Sess([S.spaces EXCEPT ![i] = w], b, f)

LEMMA PutSpaceFacts ==
  ASSUME NEW S \in GoodSession, NEW i \in DOMAIN S.spaces, NEW w \in GoodSpace,
         w.id = S.spaces[i].id, PanesOf(w) \cap (InSpaces(S.spaces) \ PanesOf(S.spaces[i])) = {},
         NEW b \in DOMAIN S.spaces, NEW f \in Scope
  PROVE  /\ PutSpace(S, i, w, b, f) \in GoodSession
         /\ InSpaces(PutSpace(S, i, w, b, f).spaces)
              = (InSpaces(S.spaces) \ PanesOf(S.spaces[i])) \cup PanesOf(w)
<1> DEFINE us == [S.spaces EXCEPT ![i] = w]
<1>1. S.spaces \in GoodSpaces
  BY SessionFacts
<1>2. /\ us \in GoodSpaces /\ DOMAIN us = DOMAIN S.spaces
      /\ InSpaces(us) = (InSpaces(S.spaces) \ PanesOf(S.spaces[i])) \cup PanesOf(w)
  BY <1>1, SpacePut
<1> HIDE DEF us
<1>3. [spaces |-> us, active |-> b, scope |-> f] \in GoodSession
  BY <1>2, MakeSession
<1>4. QED
  BY <1>2, <1>3 DEF PutSpace, Sess, us

LEMMA SpaceSet ==
  ASSUME NEW S \in GoodSession, NEW i, NEW w
  PROVE  [S EXCEPT !.spaces[i] = w] = PutSpace(S, i, w, S.active, S.scope)
<1>1. S \in [spaces : GoodSpaces, active : Nat, scope : Scope]
  BY DEF GoodSession, Scope
<1>2. PICK T : T = [S EXCEPT !.spaces[i] = w]
  OBVIOUS
<1>3. T = [spaces |-> [S.spaces EXCEPT ![i] = w], active |-> S.active, scope |-> S.scope]
  BY <1>1, <1>2
<1>4. QED
  BY <1>2, <1>3 DEF PutSpace, Sess

LEMMA SplitFocusedFacts ==
  ASSUME NEW S \in GoodSession, NEW p \in Pane \ InSpaces(S.spaces), NEW before \in BOOLEAN
  PROVE  /\ SplitFocused(S, p, before) \in GoodSession
         /\ InSpaces(SplitFocused(S, p, before).spaces) = InSpaces(S.spaces) \cup {p}
<1> DEFINE t == ActiveTab(S)
           ps == Beside(t.panes, t.focus, before, <<p>>)
           u == [panes |-> ps, focus |-> p, zoom |-> 0]
<1>1. /\ t \in GoodTab /\ In(t) \subseteq PanesOf(ActiveSpace(S))
      /\ PanesOf(ActiveSpace(S)) \subseteq InSpaces(S.spaces)
  BY SessionFacts
<1> HIDE DEF t
<1>2. t.panes \in Distinct /\ In(t) = ToSet(t.panes) /\ t.focus \in In(t)
  BY <1>1, TabFacts
<1>3. <<p>> \in Distinct /\ ToSet(<<p>>) = {p}
  BY NewTabFacts
<1>4. t.focus \in ToSet(t.panes) /\ ToSet(t.panes) \cap ToSet(<<p>>) = {}
  BY <1>1, <1>2, <1>3
<1>5. ps \in Distinct /\ ToSet(ps) = ToSet(t.panes) \cup ToSet(<<p>>)
  BY <1>2, <1>3, <1>4, BesideFacts
<1> HIDE DEF ps
<1>6. p \in ToSet(ps) /\ 0 \in {0, p} /\ ToSet(ps) = In(t) \cup {p}
  BY <1>2, <1>3, <1>5
<1>7. u \in GoodTab /\ In(u) = In(t) \cup {p}
  BY <1>5, <1>6, MakeTab
<1> HIDE DEF u
<1>8. In(u) \cap (InSpaces(S.spaces) \ In(t)) = {}
  BY <1>1, <1>7
<1>9. /\ OnTab(S, u) \in GoodSession
      /\ InSpaces(OnTab(S, u).spaces) = (InSpaces(S.spaces) \ In(t)) \cup In(u)
  BY <1>7, <1>8, OnTabFacts DEF t
<1>10. (InSpaces(S.spaces) \ In(t)) \cup In(u) = InSpaces(S.spaces) \cup {p}
  BY <1>1, <1>7
<1>11. SplitFocused(S, p, before) = OnTab(S, u)
  BY DEF SplitFocused, u, ps, t
<1>12. QED
  BY <1>9, <1>10, <1>11

(* Where a pane is.                                                        *)
LEMMA PlaceOf ==
  ASSUME NEW S \in GoodSession, NEW p \in InSpaces(S.spaces),
         NEW i, i = SpaceWith(S.spaces, p), NEW j, j = TabWith(S.spaces[i], p)
  PROVE  /\ i \in DOMAIN S.spaces /\ i # 0 /\ S.spaces[i] \in GoodSpace
         /\ p \in PanesOf(S.spaces[i]) /\ PanesOf(S.spaces[i]) \subseteq InSpaces(S.spaces)
         /\ j \in DOMAIN S.spaces[i].tabs /\ S.spaces[i].tabs[j] \in GoodTab
         /\ p \in In(S.spaces[i].tabs[j]) /\ In(S.spaces[i].tabs[j]) \subseteq PanesOf(S.spaces[i])
<1>1. S.spaces \in GoodSpaces
  BY SessionFacts
<1>2. /\ i \in DOMAIN S.spaces /\ i # 0 /\ S.spaces[i] \in GoodSpace
      /\ p \in PanesOf(S.spaces[i]) /\ PanesOf(S.spaces[i]) \subseteq InSpaces(S.spaces)
  BY <1>1, SpaceOf, SpacesFacts
<1>3. /\ j \in DOMAIN S.spaces[i].tabs /\ S.spaces[i].tabs[j] \in GoodTab
      /\ p \in In(S.spaces[i].tabs[j])
  BY <1>2, TabOf
<1>4. In(S.spaces[i].tabs[j]) \subseteq PanesOf(S.spaces[i])
  BY <1>2, <1>3, SpaceFacts DEF InTabs
<1>5. QED
  BY <1>2, <1>3, <1>4

(* One tab replaced, and the view where it was.                            *)
LEMMA TabSet ==
  ASSUME NEW S \in GoodSession, NEW i \in DOMAIN S.spaces, NEW j \in DOMAIN S.spaces[i].tabs,
         NEW t \in GoodTab, In(t) \cap (InSpaces(S.spaces) \ In(S.spaces[i].tabs[j])) = {}
  PROVE  /\ [S EXCEPT !.spaces[i].tabs[j] = t] \in GoodSession
         /\ InSpaces([S EXCEPT !.spaces[i].tabs[j] = t].spaces)
              = (InSpaces(S.spaces) \ In(S.spaces[i].tabs[j])) \cup In(t)
<1> DEFINE w == S.spaces[i]
           a == w.active
<1>1. S.active \in DOMAIN S.spaces /\ S.scope \in Scope /\ S.spaces \in GoodSpaces
  BY SessionFacts
<1>2. w \in GoodSpace
  BY <1>1, SpacesFacts
<1>3. a \in DOMAIN w.tabs /\ w \in SpaceType
  BY <1>2, SpaceFacts
<1>4. /\ Put(S, i, j, t, a, S.active, S.scope) \in GoodSession
      /\ InSpaces(Put(S, i, j, t, a, S.active, S.scope).spaces)
           = (InSpaces(S.spaces) \ In(S.spaces[i].tabs[j])) \cup In(t)
  BY <1>1, <1>3, PutTab
<1>5. Tabbed(w, [w.tabs EXCEPT ![j] = t], a) = [w EXCEPT !.tabs[j] = t]
  BY <1>3 DEF Tabbed, SpaceType
<1>6. [S EXCEPT !.spaces[i].tabs[j] = t] = Put(S, i, j, t, a, S.active, S.scope)
  <2>1. S \in [spaces : GoodSpaces, active : Nat, scope : Scope]
    BY DEF GoodSession, Scope
  <2>2. PICK T : T = [S EXCEPT !.spaces[i].tabs[j] = t]
    OBVIOUS
  <2>3. T = [S EXCEPT !.spaces = [S.spaces EXCEPT ![i] = [w EXCEPT !.tabs[j] = t]]]
    BY <2>2
  <2> HIDE DEF w, a
  <2>4. T = Sess([S.spaces EXCEPT ![i] = [w EXCEPT !.tabs[j] = t]], S.active, S.scope)
    BY <2>1, <2>3 DEF Sess
  <2>5. QED
    BY <1>5, <2>2, <2>4 DEF Put, w
<1>7. QED
  BY <1>4, <1>6

LEMMA SplitPaneFacts ==
  ASSUME NEW S \in GoodSession, NEW target \in InSpaces(S.spaces),
         NEW p \in Pane \ InSpaces(S.spaces)
  PROVE  /\ SplitPane(S, target, p) \in GoodSession
         /\ InSpaces(SplitPane(S, target, p).spaces) = InSpaces(S.spaces) \cup {p}
<1> DEFINE i == SpaceWith(S.spaces, target)
           j == TabWith(S.spaces[i], target)
           t == S.spaces[i].tabs[j]
           ps == Beside(t.panes, target, FALSE, <<p>>)
           z == IF t.zoom = target THEN 0 ELSE t.zoom
           u == [t EXCEPT !.panes = ps, !.zoom = z]
<1>1. /\ i \in DOMAIN S.spaces /\ j \in DOMAIN S.spaces[i].tabs /\ t \in GoodTab
      /\ target \in In(t) /\ In(t) \subseteq PanesOf(S.spaces[i])
      /\ PanesOf(S.spaces[i]) \subseteq InSpaces(S.spaces)
  BY PlaceOf
<1>2. SplitPane(S, target, p) = [S EXCEPT !.spaces[i].tabs[j] = u]
  BY DEF SplitPane
<1>3. t \in TabType
  BY <1>1 DEF GoodTab
<1> HIDE DEF t
<1>4. /\ t.panes \in Distinct /\ In(t) = ToSet(t.panes) /\ t.focus \in In(t)
      /\ t.zoom \in {0, t.focus}
  BY <1>1, TabFacts
<1>5. <<p>> \in Distinct /\ ToSet(<<p>>) = {p}
  BY NewTabFacts
<1>6. target \in ToSet(t.panes) /\ ToSet(t.panes) \cap ToSet(<<p>>) = {}
  BY <1>1, <1>4, <1>5
<1>7. ps \in Distinct /\ ToSet(ps) = ToSet(t.panes) \cup ToSet(<<p>>)
  <2>1. PICK b \in BOOLEAN : b = FALSE
    OBVIOUS
  <2>2. Beside(t.panes, target, b, <<p>>) \in Distinct
        /\ ToSet(Beside(t.panes, target, b, <<p>>)) = ToSet(t.panes) \cup ToSet(<<p>>)
    BY <1>4, <1>5, <1>6, BesideFacts
  <2>3. QED
    BY <2>1, <2>2
<1> HIDE DEF ps
<1>8. t.focus \in ToSet(ps) /\ z \in {0, t.focus} /\ ToSet(ps) = In(t) \cup {p}
  BY <1>4, <1>5, <1>7
<1> HIDE DEF z
<1>9. [panes |-> ps, focus |-> t.focus, zoom |-> z] \in GoodTab
      /\ In([panes |-> ps, focus |-> t.focus, zoom |-> z]) = ToSet(ps)
  BY <1>7, <1>8, MakeTab
<1>10. u = [panes |-> ps, focus |-> t.focus, zoom |-> z]
  <2>1. PICK v : v = u
    OBVIOUS
  <2>2. v = [panes |-> ps, focus |-> t.focus, zoom |-> z]
    BY <1>3, <2>1 DEF TabType
  <2>3. QED
    BY <2>1, <2>2
<1> HIDE DEF u
<1>11. u \in GoodTab /\ In(u) = In(t) \cup {p}
  BY <1>8, <1>9, <1>10
<1>12. In(u) \cap (InSpaces(S.spaces) \ In(S.spaces[i].tabs[j])) = {}
  BY <1>11 DEF t
<1>13. /\ [S EXCEPT !.spaces[i].tabs[j] = u] \in GoodSession
       /\ InSpaces([S EXCEPT !.spaces[i].tabs[j] = u].spaces)
            = (InSpaces(S.spaces) \ In(S.spaces[i].tabs[j])) \cup In(u)
  BY <1>1, <1>11, <1>12, TabSet
<1>14. (InSpaces(S.spaces) \ In(t)) \cup In(u) = InSpaces(S.spaces) \cup {p}
  BY <1>1, <1>11
<1>15. QED
  BY <1>2, <1>13, <1>14 DEF t

LEMMA NewTabInFacts ==
  ASSUME NEW S \in GoodSession, NEW i \in DOMAIN S.spaces, NEW p \in Pane \ InSpaces(S.spaces),
         NEW activate \in BOOLEAN
  PROVE  /\ NewTabIn(S, i, p, activate) \in GoodSession
         /\ InSpaces(NewTabIn(S, i, p, activate).spaces) = InSpaces(S.spaces) \cup {p}
<1> DEFINE w == S.spaces[i]
           ts == Append(w.tabs, NewTab(p))
           a == IF activate THEN Len(ts) ELSE w.active
           v == Tabbed(w, ts, a)
<1>1. S.active \in DOMAIN S.spaces /\ S.scope \in Scope /\ S.spaces \in GoodSpaces
  BY SessionFacts
<1>2. w \in GoodSpace /\ PanesOf(w) \subseteq InSpaces(S.spaces)
  BY <1>1, SpacesFacts
<1>3. NewTabIn(S, i, p, activate) = [S EXCEPT !.spaces[i] = [w EXCEPT !.tabs = ts, !.active = a]]
  BY Zenon DEF NewTabIn
<1> HIDE DEF w
<1>4. /\ w \in SpaceType /\ w.tabs \in GoodTabs /\ w.tabs \in Seq(GoodTab) /\ w.active \in DOMAIN w.tabs
      /\ PanesOf(w) = InTabs(w.tabs) /\ DOMAIN w.tabs = 1 .. Len(w.tabs) /\ Len(w.tabs) \in Nat
  BY <1>2, SpaceFacts
<1>5. NewTab(p) \in GoodTab /\ In(NewTab(p)) = {p}
  BY NewTabFacts
<1>6. In(NewTab(p)) \cap InTabs(w.tabs) = {}
  BY <1>2, <1>4, <1>5
<1>7. /\ ts \in GoodTabs /\ Len(ts) = Len(w.tabs) + 1 /\ InTabs(ts) = InTabs(w.tabs) \cup {p}
  BY <1>4, <1>5, <1>6, TabAppended
<1>8. DOMAIN ts = 1 .. Len(ts)
  BY <1>7 DEF GoodTabs
<1> HIDE DEF ts
<1>9. a \in DOMAIN ts
  BY <1>4, <1>7, <1>8
<1> HIDE DEF a
<1>10. v \in GoodSpace /\ PanesOf(v) = PanesOf(w) \cup {p} /\ v.id = w.id
  BY <1>4, <1>7, <1>9, TabsChanged
<1> HIDE DEF v
<1>11. v.id = S.spaces[i].id /\ PanesOf(v) \cap (InSpaces(S.spaces) \ PanesOf(S.spaces[i])) = {}
  BY <1>2, <1>10 DEF w
<1>12. /\ PutSpace(S, i, v, S.active, S.scope) \in GoodSession
       /\ InSpaces(PutSpace(S, i, v, S.active, S.scope).spaces)
            = (InSpaces(S.spaces) \ PanesOf(S.spaces[i])) \cup PanesOf(v)
  BY <1>1, <1>10, <1>11, PutSpaceFacts
<1>13. (InSpaces(S.spaces) \ PanesOf(S.spaces[i])) \cup PanesOf(v) = InSpaces(S.spaces) \cup {p}
  BY <1>2, <1>10 DEF w
<1>14. NewTabIn(S, i, p, activate) = PutSpace(S, i, v, S.active, S.scope)
  BY <1>3, SpaceSet DEF v, Tabbed
<1>15. QED
  BY <1>12, <1>13, <1>14

-----------------------------------------------------------------------------
(* Closing.                                                                *)
LEMMA DropSpaceFacts ==
  ASSUME NEW S \in GoodSession, NEW i \in DOMAIN S.spaces
  PROVE  /\ DropSpace(S, i) \in AnySession
         /\ InSpaces(DropSpace(S, i).spaces) = InSpaces(S.spaces) \ PanesOf(S.spaces[i])
         /\ DropSpace(S, i).spaces # <<>> => DropSpace(S, i) \in GoodSession
<1> DEFINE left == RemoveAt(S.spaces, i)
           rest == Orphaned(left)
           n == Len(rest)
           a == Shifted(S.active, i, n)
           T == [S EXCEPT !.spaces = rest, !.active = a]
           first == FirstInScope(T)
<1>1. /\ S.spaces \in GoodSpaces /\ S.active \in DOMAIN S.spaces /\ S.scope \in Scope
  BY SessionFacts
<1>2. /\ left \in GoodSpaces /\ Len(left) = Len(S.spaces) - 1
      /\ InSpaces(left) = InSpaces(S.spaces) \ PanesOf(S.spaces[i])
  BY <1>1, SpaceRemoved
<1> HIDE DEF left
<1>3. rest \in GoodSpaces /\ n = Len(left) /\ InSpaces(rest) = InSpaces(left)
  BY <1>2, OrphanedFacts
<1>4. DropSpace(S, i) = IF rest = <<>> THEN [S EXCEPT !.spaces = rest]
                        ELSE IF InScope(T, ActiveSpace(T)) THEN T
                        ELSE IF first # 0 THEN [T EXCEPT !.active = first]
                        ELSE [T EXCEPT !.scope = NoFolder]
  BY DEF DropSpace, Orphaned, left
<1> HIDE DEF rest
<1>5. /\ rest \in Seq(GoodSpace) /\ DOMAIN rest = 1 .. n /\ n \in Nat
      /\ DOMAIN S.spaces = 1 .. Len(S.spaces) /\ Len(S.spaces) \in Nat
  BY <1>1, <1>3, SpacesFacts
<1>6. S \in [spaces : GoodSpaces, active : Nat, scope : Scope]
  BY DEF GoodSession, Scope
<1>7. CASE rest = <<>>
  <2>1. DropSpace(S, i) = [S EXCEPT !.spaces = rest]
    BY <1>4, <1>7
  <2>2. DropSpace(S, i).spaces = rest /\ DropSpace(S, i) \in AnySession
    BY <1>3, <1>6, <2>1 DEF AnySession
  <2>3. QED
    BY <1>1, <1>2, <1>3, <1>7, <2>2
<1>8. CASE rest # <<>>
  <2>1. n \in Nat \ {0}
    BY <1>5, <1>8
  <2>2. S.active \in 1 .. n + 1 /\ i \in 1 .. n + 1
    <3>1. Len(S.spaces) = n + 1
      BY <1>2, <1>3, <1>5
    <3> HIDE DEF n
    <3>2. QED
      BY <1>1, <1>5, <3>1
  <2> HIDE DEF n
  <2>3. a \in DOMAIN rest
    BY <1>5, <2>1, <2>2, ShiftedFacts
  <2> HIDE DEF a
  <2>4. PICK U : U = T
    OBVIOUS
  <2>5. U = [spaces |-> rest, active |-> a, scope |-> S.scope]
    BY <1>6, <2>4
  <2>6. U.spaces \in Seq(GoodSpace) /\ U.spaces = rest
    BY <1>5, <2>5
  <2>7. first \in 0 .. Len(rest)
    BY <2>4, <2>6, FirstInScopeFacts
  <2>8. first # 0 => first \in DOMAIN rest
    BY <1>5, <2>7 DEF n
  <2> HIDE DEF first, T
  <2>9. \/ DropSpace(S, i) = U
        \/ first # 0 /\ DropSpace(S, i) = [U EXCEPT !.active = first]
        \/ DropSpace(S, i) = [U EXCEPT !.scope = NoFolder]
    <3>1. \/ DropSpace(S, i) = T
          \/ first # 0 /\ DropSpace(S, i) = [T EXCEPT !.active = first]
          \/ DropSpace(S, i) = [T EXCEPT !.scope = NoFolder]
      BY <1>4, <1>8, Zenon
    <3>2. QED
      BY <2>4, <3>1
  <2>10. \/ DropSpace(S, i) = [spaces |-> rest, active |-> a, scope |-> S.scope]
         \/ first # 0 /\ DropSpace(S, i) = [spaces |-> rest, active |-> first, scope |-> S.scope]
         \/ DropSpace(S, i) = [spaces |-> rest, active |-> a, scope |-> NoFolder]
    BY <2>5, <2>9
  <2>11. NoFolder \in Scope
    BY DEF Scope
  <2>12. \A b \in DOMAIN rest, f \in Scope :
           [spaces |-> rest, active |-> b, scope |-> f] \in GoodSession
    BY <1>3, MakeSession
  <2>13. DropSpace(S, i) \in GoodSession /\ DropSpace(S, i).spaces = rest
    BY <1>1, <2>3, <2>8, <2>10, <2>11, <2>12
  <2>14. QED
    BY <1>2, <1>3, <2>13, SessionFacts
<1>9. QED
  BY <1>7, <1>8

(* Closing takes out that pane and no other.                               *)
LEMMA ClosePaneFacts ==
  ASSUME NEW S \in GoodSession, NEW p
  PROVE  /\ ClosePane(S, p) \in AnySession
         /\ InSpaces(ClosePane(S, p).spaces) = InSpaces(S.spaces) \ {p}
         /\ ClosePane(S, p).spaces # <<>> => ClosePane(S, p) \in GoodSession
<1> DEFINE i == SpaceWith(S.spaces, p)
           w == S.spaces[i]
           j == TabWith(w, p)
           t == w.tabs[j]
<1>1. /\ S.spaces \in GoodSpaces /\ S.active \in DOMAIN S.spaces /\ S.scope \in Scope
      /\ S \in AnySession
  BY SessionFacts
<1>2. ClosePane(S, p) = IF i = 0 THEN S
                        ELSE IF Len(t.panes) > 1 THEN [S EXCEPT !.spaces[i].tabs[j] = Without(t, p)]
                        ELSE IF Len(w.tabs) > 1 THEN [S EXCEPT !.spaces[i] = DropTab(w, j)]
                        ELSE DropSpace(S, i)
  BY DEF ClosePane
<1>3. CASE p \notin InSpaces(S.spaces)
  <2>1. i = 0
    <3>1. S.spaces \in Seq(GoodSpace) /\ DOMAIN S.spaces = 1 .. Len(S.spaces)
      BY <1>1, SpacesFacts
    <3>2. i \in 0 .. Len(S.spaces) /\ (i # 0 => p \in PanesOf(w))
      BY <3>1, SpaceWithFacts
    <3> HIDE DEF i
    <3>3. QED
      BY <1>3, <3>1, <3>2 DEF InSpaces
  <2>2. ClosePane(S, p) = S
    BY <1>2, <2>1
  <2>3. QED
    BY <1>1, <1>3, <2>2
<1>4. CASE p \in InSpaces(S.spaces)
  <2>1. /\ i \in DOMAIN S.spaces /\ i # 0 /\ w \in GoodSpace
        /\ p \in PanesOf(w) /\ PanesOf(w) \subseteq InSpaces(S.spaces)
        /\ j \in DOMAIN w.tabs /\ t \in GoodTab /\ p \in In(t) /\ In(t) \subseteq PanesOf(w)
    BY <1>4, PlaceOf
  <2>2. /\ w \in SpaceType /\ w.tabs \in GoodTabs /\ w.active \in DOMAIN w.tabs
        /\ PanesOf(w) = InTabs(w.tabs) /\ DOMAIN w.tabs = 1 .. Len(w.tabs) /\ Len(w.tabs) \in Nat \ {0}
    BY <2>1, SpaceFacts
  <2> HIDE DEF i, j
  <2>3. CASE Len(t.panes) > 1
    <3>1. Without(t, p) \in GoodTab /\ In(Without(t, p)) = In(t) \ {p}
      BY <2>1, <2>3, WithoutFacts
    <3>2. ClosePane(S, p) = [S EXCEPT !.spaces[i].tabs[j] = Without(t, p)]
      BY <1>2, <2>1, <2>3
    <3>3. In(Without(t, p)) \cap (InSpaces(S.spaces) \ In(S.spaces[i].tabs[j])) = {}
      BY <3>1
    <3>4. /\ ClosePane(S, p) \in GoodSession
          /\ InSpaces(ClosePane(S, p).spaces) = (InSpaces(S.spaces) \ In(t)) \cup (In(t) \ {p})
      BY <2>1, <3>1, <3>2, <3>3, TabSet, SMTT(30)
    <3>5. QED
      BY <2>1, <3>4, SessionFacts
  <2>4. ASSUME ~(Len(t.panes) > 1) PROVE In(t) = {p}
    <3>1. t.panes \in Distinct /\ t.panes # <<>> /\ (Len(t.panes) = 1 => In(t) = {t.panes[1]})
      BY <2>1, TabFacts
    <3>2. t.panes \in Seq(Pane)
      BY <3>1 DEF Distinct
    <3>3. Len(t.panes) = 1
      <4>1. Len(t.panes) \in Nat \ {0}
        BY <3>1, <3>2, EmptySeq
      <4>2. PICK m \in Nat \ {0} : m = Len(t.panes)
        BY <4>1
      <4>3. ~(m > 1)
        BY <2>4, <4>2
      <4>4. m = 1
        BY <4>3
      <4>5. QED
        BY <4>2, <4>4
    <3>4. QED
      BY <2>1, <3>1, <3>3
  <2>5. CASE ~(Len(t.panes) > 1) /\ Len(w.tabs) > 1
    <3> DEFINE v == DropTab(w, j)
    <3>1. /\ RemoveAt(w.tabs, j) \in GoodTabs /\ Len(RemoveAt(w.tabs, j)) = Len(w.tabs) - 1
          /\ InTabs(RemoveAt(w.tabs, j)) = InTabs(w.tabs) \ In(t)
      BY <2>1, <2>2, TabRemoved
    <3>2. v \in GoodSpace /\ v.id = w.id /\ PanesOf(v) = PanesOf(w) \ {p}
      BY <2>1, <2>2, <2>4, <2>5, <3>1, DropTabFacts
    <3>3. ClosePane(S, p) = [S EXCEPT !.spaces[i] = v]
      BY <1>2, <2>1, <2>5
    <3> HIDE DEF v
    <3>4. PanesOf(v) \cap (InSpaces(S.spaces) \ PanesOf(w)) = {}
      BY <3>2
    <3>5. /\ PutSpace(S, i, v, S.active, S.scope) \in GoodSession
          /\ InSpaces(PutSpace(S, i, v, S.active, S.scope).spaces)
               = (InSpaces(S.spaces) \ PanesOf(w)) \cup PanesOf(v)
      BY <1>1, <2>1, <3>2, <3>4, PutSpaceFacts
    <3>6. ClosePane(S, p) = PutSpace(S, i, v, S.active, S.scope)
      BY <3>3, SpaceSet
    <3>7. (InSpaces(S.spaces) \ PanesOf(w)) \cup PanesOf(v) = InSpaces(S.spaces) \ {p}
      BY <2>1, <3>2
    <3>8. QED
      BY <3>5, <3>6, <3>7, SessionFacts
  <2>6. CASE ~(Len(t.panes) > 1) /\ ~(Len(w.tabs) > 1)
    <3>1. ClosePane(S, p) = DropSpace(S, i)
      BY <1>2, <2>1, <2>6
    <3>2. DOMAIN w.tabs = {1} /\ j = 1
      BY <2>1, <2>2, <2>6
    <3>3. PanesOf(w) = {p}
      BY <2>2, <2>4, <2>6, <3>2 DEF InTabs
    <3>4. QED
      BY <2>1, <3>1, <3>3, DropSpaceFacts
  <2>7. QED
    BY <2>3, <2>5, <2>6
<1>5. QED
  BY <1>3, <1>4

-----------------------------------------------------------------------------
(* Numbers that nothing uses.                                              *)
LEMMA LeastFacts ==
  ASSUME NEW used, IsFiniteSet(used)
  PROVE  Least(used) \in Nat \ {0} /\ Least(used) \notin used
<1> DEFINE n == Cardinality(used)
           T == (1 .. n + 1) \ used
<1>1. n \in Nat
  BY FS_CardinalityType
<1> HIDE DEF n
<1>2. Cardinality(1 .. n + 1) = n + 1
  <2>1. PICK m \in Int : m = n + 1
    BY <1>1
  <2>2. Cardinality(1 .. m) = IF 1 > m THEN 0 ELSE m - 1 + 1
    BY FS_Interval
  <2>3. QED
    BY <1>1, <2>1, <2>2
<1>3. ~ (1 .. n + 1 \subseteq used)
  <2>1. SUFFICES ASSUME 1 .. n + 1 \subseteq used PROVE FALSE
    OBVIOUS
  <2>2. Cardinality(1 .. n + 1) <= n
    BY <2>1, FS_Subset DEF n
  <2>3. QED
    BY <1>1, <1>2, <2>2
<1>4. PICK x \in T : \A y \in T : x <= y
  <2>1. T # {} /\ T \in SUBSET Nat
    BY <1>1, <1>3
  <2> HIDE DEF T
  <2>2. QED
    BY <2>1, LeastExists
<1>5. x \in 1 .. n + 1 /\ x \notin used
  OBVIOUS
<1>6. 1 .. x - 1 \subseteq used
  <2> SUFFICES ASSUME NEW y \in 1 .. x - 1, y \notin used PROVE FALSE
    OBVIOUS
  <2>1. y \in T /\ y < x /\ y \in Nat /\ x \in Nat
    BY <1>1, <1>5
  <2>2. QED
    BY <1>4, <2>1
<1>7. Least(used) \in 1 .. n + 1 /\ Least(used) \notin used
  BY <1>5, <1>6 DEF Least, n
<1>8. QED
  BY <1>1, <1>7

LEMMA FreshFacts ==
  ASSUME Leaves \subseteq Pane, live \subseteq Pane, Remembered \subseteq Pane
  PROVE  /\ Fresh \notin Leaves /\ Fresh \notin live
         /\ Room => Fresh \in Pane
<1> DEFINE used == Leaves \cup live \cup Remembered
<1>1. MaxPane \in Nat
  BY ViewAssumption
<1>2. IsFiniteSet(Pane)
  BY <1>1, FS_Interval DEF Pane
<1>3. used \in SUBSET Pane
  OBVIOUS
<1> HIDE DEF used
<1>4. IsFiniteSet(used)
  BY <1>2, <1>3, FS_Subset
<1>5. Least(used) \in Nat \ {0} /\ Least(used) \notin used
  BY <1>4, LeastFacts
<1>6. Fresh = Least(used)
  BY DEF Fresh, used
<1>7. Fresh \in Nat \ {0} /\ Fresh \notin used
  BY <1>5, <1>6
<1>8. Room => Fresh \in Pane
  BY <1>1, <1>7 DEF Room, Pane
<1>9. QED
  BY <1>7, <1>8 DEF used

LEMMA FreshId ==
  ASSUME NEW ws \in GoodSpaces
  PROVE  LET id == Least(Ids(ws) \cup {views[c].space : c \in Client})
         IN  id \in Nat \ {0} /\ id \notin Ids(ws) /\ \A c \in Client : views[c].space # id
<1> DEFINE I == Ids(ws)
           J == {views[c].space : c \in Client}
<1>1. DOMAIN ws = 1 .. Len(ws) /\ Len(ws) \in Nat
  BY SpacesFacts
<1>2. IsFiniteSet(I)
  <2> DEFINE f == [i \in DOMAIN ws |-> ws[i].id]
  <2>1. f \in Surjection(DOMAIN ws, I)
    BY DEF Surjection, Ids
  <2>2. IsFiniteSet(DOMAIN ws)
    BY <1>1, FS_Interval
  <2> HIDE DEF f, I
  <2>3. QED
    BY <2>1, <2>2, FS_Surjection
<1>3. IsFiniteSet(J)
  <2> DEFINE f == [c \in Client |-> views[c].space]
  <2>1. f \in Surjection(Client, J)
    BY DEF Surjection
  <2>2. IsFiniteSet(Client)
    BY ViewAssumption
  <2> HIDE DEF f, J
  <2>3. QED
    BY <2>1, <2>2, FS_Surjection
<1> HIDE DEF I, J
<1>4. IsFiniteSet(I \cup J)
  BY <1>2, <1>3, FS_Union
<1>5. Least(I \cup J) \in Nat \ {0} /\ Least(I \cup J) \notin I \cup J
  BY <1>4, LeastFacts
<1>6. QED
  BY <1>5 DEF I, J

-----------------------------------------------------------------------------
(* Where the keys of a terminal that looks at a space go.                  *)
Keys(w) == w.tabs[w.active].focus

(* Whatever pane of S keys go to has them in T too, if it is still there:  *)
(* seen through the id of its space or through the active space.           *)
Calm(S, T) ==
  /\ \A i \in DOMAIN S.spaces : Keys(S.spaces[i]) \in InSpaces(T.spaces) =>
       \E m \in DOMAIN T.spaces : /\ T.spaces[m].id = S.spaces[i].id
                                  /\ Keys(T.spaces[m]) = Keys(S.spaces[i])
                                  /\ i = S.active => m = T.active
  /\ \A c \in Client : views[c].space \in Ids(T.spaces) => views[c].space \in Ids(S.spaces)

LEMMA CalmPut ==
  ASSUME NEW S \in GoodSession, NEW i \in DOMAIN S.spaces, NEW v, v.id = S.spaces[i].id,
         NEW T, T = PutSpace(S, i, v, S.active, S.scope),
         Keys(S.spaces[i]) \in InSpaces(T.spaces) => Keys(v) = Keys(S.spaces[i])
  PROVE  Calm(S, T)
<1>1. S.spaces \in Seq(GoodSpace) /\ DOMAIN S.spaces = 1 .. Len(S.spaces)
  BY SessionFacts, SpacesFacts
<1>2. /\ T.spaces = [S.spaces EXCEPT ![i] = v] /\ T.active = S.active
      /\ DOMAIN T.spaces = DOMAIN S.spaces /\ T.spaces[i] = v
      /\ \A m \in DOMAIN S.spaces : m # i => T.spaces[m] = S.spaces[m]
  BY <1>1 DEF PutSpace, Sess
<1>3. \A m \in DOMAIN S.spaces : T.spaces[m].id = S.spaces[m].id
  BY <1>2
<1>4. Ids(T.spaces) = Ids(S.spaces)
  BY <1>2, <1>3 DEF Ids
<1>5. \A m \in DOMAIN S.spaces : Keys(S.spaces[m]) \in InSpaces(T.spaces) =>
        Keys(T.spaces[m]) = Keys(S.spaces[m])
  BY <1>2
<1>6. QED
  BY <1>2, <1>3, <1>4, <1>5 DEF Calm

LEMMA CalmTab ==
  ASSUME NEW S \in GoodSession, NEW i \in DOMAIN S.spaces, NEW j \in DOMAIN S.spaces[i].tabs,
         NEW t, NEW T, T = [S EXCEPT !.spaces[i].tabs[j] = t],
         S.spaces[i].tabs[j].focus \in InSpaces(T.spaces) => t.focus = S.spaces[i].tabs[j].focus
  PROVE  Calm(S, T)
<1>1. PICK w : w = S.spaces[i]
  OBVIOUS
<1>2. w \in GoodSpace
  BY <1>1, SessionFacts, SpacesFacts
<1>3. w \in SpaceType /\ w.active \in DOMAIN w.tabs /\ w.tabs \in Seq(GoodTab)
  BY <1>2, SpaceFacts
<1>4. PICK v : v = [w EXCEPT !.tabs[j] = t]
  OBVIOUS
<1>5. v.id = w.id /\ v.active = w.active /\ v.tabs = [w.tabs EXCEPT ![j] = t]
  BY <1>3, <1>4 DEF SpaceType
<1>6. T = PutSpace(S, i, v, S.active, S.scope)
  <2>1. S \in [spaces : GoodSpaces, active : Nat, scope : Scope]
    BY DEF GoodSession, Scope
  <2>2. T = [S EXCEPT !.spaces = [S.spaces EXCEPT ![i] = v]]
    BY <1>1, <1>4
  <2>3. QED
    BY <2>1, <2>2 DEF PutSpace, Sess
<1>7. Keys(w) \in InSpaces(T.spaces) => Keys(v) = Keys(w)
  BY <1>1, <1>3, <1>5 DEF Keys
<1>8. QED
  BY <1>1, <1>5, <1>6, <1>7, CalmPut

-----------------------------------------------------------------------------
(* Opening a space.                                                        *)
MayOpen(S, activate) == S \notin GoodSession => S.spaces = <<>> /\ activate = TRUE
Longer(ws, us) == Len(us) = Len(ws) + 1
OpensSeen(S, T, f, activate) == activate /\ S.scope = f => Seen(T)
OpensAside(S, T, activate) == S \in GoodSession /\ activate = FALSE => Calm(S, T)

LEMMA NewSpaceOpened ==
  ASSUME NEW S \in AnySession, NEW p, NEW f \in Folder, NEW pt \in Nat, NEW activate \in BOOLEAN,
         MayOpen(S, activate)
  PROVE  /\ Longer(S.spaces, NewSpace(S, p, f, pt, activate).spaces)
         /\ p \in Pane \ InSpaces(S.spaces) =>
              /\ NewSpace(S, p, f, pt, activate) \in GoodSession
              /\ InSpaces(NewSpace(S, p, f, pt, activate).spaces) = InSpaces(S.spaces) \cup {p}
              /\ OpensSeen(S, NewSpace(S, p, f, pt, activate), f, activate)
              /\ OpensAside(S, NewSpace(S, p, f, pt, activate), activate)
<1> DEFINE ws == S.spaces
           n == Len(ws)
           i == SpaceById(ws, pt)
           Ok(k) == /\ \A j \in i + 1 .. k - 1 : ws[j].parent = pt
                    /\ k <= n => ws[k].parent # pt
           at == IF i = 0 THEN n + 1 ELSE CHOOSE k \in i + 1 .. n + 1 : Ok(k)
           id == Least(Ids(ws) \cup {views[c].space : c \in Client})
           w == [id |-> id, cwd |-> f, parent |-> pt, tabs |-> <<NewTab(p)>>, active |-> 1]
           a == IF activate THEN at ELSE IF at <= S.active THEN S.active + 1 ELSE S.active
           us == InsertAt(ws, at, w)
<1>1. ws \in GoodSpaces /\ S.active \in Nat /\ S.scope \in Scope
  BY DEF AnySession
<1>2. ws \in Seq(GoodSpace) /\ n \in Nat /\ DOMAIN ws = 1 .. n
  BY <1>1, SpacesFacts
<1>3. i \in 0 .. n
  BY <1>2, SpaceByIdFacts
<1>4. id \in Nat \ {0} /\ id \notin Ids(ws) /\ \A c \in Client : views[c].space # id
  BY <1>1, FreshId
<1>5. NewSpace(S, p, f, pt, activate) = [S EXCEPT !.spaces = us, !.active = a]
  BY DEF NewSpace
<1> HIDE DEF id, n, i
<1>6. at \in 1 .. n + 1
  <2>1. CASE i = 0
    BY <1>2, <2>1
  <2>2. CASE i # 0
    <3> DEFINE T == {k \in i + 1 .. n : ws[k].parent # pt}
    <3>1. \E k \in i + 1 .. n + 1 : Ok(k)
      <4>1. CASE T = {}
        <5>1. PICK m \in Nat : m = n + 1
          BY <1>2
        <5>2. m \in i + 1 .. n + 1 /\ ~(m <= n)
          BY <1>2, <1>3, <5>1
        <5>3. \A j \in i + 1 .. m - 1 : ws[j].parent = pt
          BY <1>2, <1>3, <4>1, <5>1
        <5>4. Ok(m)
          BY <5>2, <5>3
        <5> HIDE DEF Ok
        <5>5. QED
          BY <5>2, <5>4
      <4>2. CASE T # {}
        <5>1. T \in SUBSET Nat
          BY <1>2, <1>3
        <5> HIDE DEF T
        <5>2. PICK k \in T : \A m \in T : k <= m
          BY <4>2, <5>1, LeastExists
        <5>3. k \in i + 1 .. n /\ ws[k].parent # pt
          BY DEF T
        <5>4. ASSUME NEW j \in i + 1 .. k - 1 PROVE ws[j].parent = pt
          <6>1. j \in i + 1 .. n /\ ~(k <= j)
            BY <1>2, <1>3, <5>3
          <6>2. QED
            BY <5>2, <6>1 DEF T
        <5>5. k \in i + 1 .. n + 1
          BY <1>2, <1>3, <5>3
        <5>6. QED
          BY <5>3, <5>4, <5>5
      <4>3. QED
        BY <4>1, <4>2
    <3> HIDE DEF Ok
    <3>2. at \in i + 1 .. n + 1
      BY <2>2, <3>1
    <3>3. QED
      BY <1>2, <1>3, <3>2
  <2>3. QED
    BY <2>1, <2>2
<1> HIDE DEF at
<1>7. Len(us) = n + 1
  <2> DEFINE E == GoodSpace \cup {w}
  <2>1. ws \in Seq(E) /\ w \in E
    BY <1>2
  <2> HIDE DEF E, w
  <2>2. at \in 1 .. Len(ws) + 1
    BY <1>6 DEF n
  <2>3. Len(us) = Len(ws) + 1
    BY <2>1, <2>2, InsertAtFacts
  <2>4. QED
    BY <2>3 DEF n
<1>8. [S EXCEPT !.spaces = us, !.active = a] = [spaces |-> us, active |-> a, scope |-> S.scope]
  <2> HIDE DEF us, a
  <2>1. PICK T : T = [S EXCEPT !.spaces = us, !.active = a]
    OBVIOUS
  <2>2. T = [spaces |-> us, active |-> a, scope |-> S.scope]
    BY <2>1 DEF AnySession
  <2>3. QED
    BY <2>1, <2>2
<1>9. NewSpace(S, p, f, pt, activate) = [spaces |-> us, active |-> a, scope |-> S.scope]
  BY <1>5, <1>8
<1>10. ASSUME p \in Pane \ InSpaces(ws)
       PROVE  /\ [spaces |-> us, active |-> a, scope |-> S.scope] \in GoodSession
              /\ InSpaces(us) = InSpaces(ws) \cup {p}
              /\ OpensSeen(S, [spaces |-> us, active |-> a, scope |-> S.scope], f, activate)
              /\ OpensAside(S, [spaces |-> us, active |-> a, scope |-> S.scope], activate)
  <2>1. NewTab(p) \in GoodTab /\ In(NewTab(p)) = {p}
    BY <1>10, NewTabFacts
  <2>2. PICK ts : ts = <<NewTab(p)>>
    OBVIOUS
  <2>3. ts \in GoodTabs /\ 1 \in DOMAIN ts /\ InTabs(ts) = {p}
    <3>1. ts \in Seq(GoodTab) /\ DOMAIN ts = {1} /\ ts[1] = NewTab(p)
      BY <2>1, <2>2
    <3>2. QED
      BY <2>1, <3>1 DEF GoodTabs, InTabs
  <2>4. w \in GoodSpace /\ PanesOf(w) = {p} /\ w.id = id /\ w.cwd = f
    <3>1. PICK v : v = [id |-> id, cwd |-> f, parent |-> pt, tabs |-> ts, active |-> 1]
      OBVIOUS
    <3>2. v \in GoodSpace /\ PanesOf(v) = {p}
      BY <1>4, <2>3, <3>1, MakeSpace
    <3>3. v.id = id /\ v.cwd = f
      BY <3>1
    <3>4. v = w
      BY <2>2, <3>1
    <3>5. QED
      BY <3>2, <3>3, <3>4
  <2> HIDE DEF w
  <2>5. w.id \notin Ids(ws) /\ PanesOf(w) \cap InSpaces(ws) = {}
    BY <1>4, <1>10, <2>4
  <2>6. us \in GoodSpaces /\ InSpaces(us) = InSpaces(ws) \cup {p}
    <3>1. at \in 1 .. Len(ws) + 1
      BY <1>6 DEF n
    <3>2. us \in GoodSpaces /\ InSpaces(us) = InSpaces(ws) \cup PanesOf(w)
      BY <1>1, <2>4, <2>5, <3>1, SpaceInserted
    <3>3. QED
      BY <2>4, <3>2
  <2>61. us[at] = w /\ \A k \in 1 .. n : us[Skip(at, k)] = ws[k]
    <3>1. at \in 1 .. Len(ws) + 1
      BY <1>6 DEF n
    <3>2. w \in GoodSpace /\ ws \in Seq(GoodSpace)
      BY <1>2, <2>4
    <3>3. PICK v : v = InsertAt(ws, at, w)
      OBVIOUS
    <3>4. v[at] = w /\ \A k \in 1 .. Len(ws) : v[Skip(at, k)] = ws[k]
      <4> HIDE DEF us
      <4>1. QED
        BY <3>1, <3>2, <3>3, InsertAtFacts
    <3>5. QED
      BY <1>2, <3>3, <3>4 DEF n
  <2> HIDE DEF us
  <2>7. DOMAIN us = 1 .. n + 1
    <3>1. DOMAIN us = 1 .. Len(us)
      BY <2>6, SpacesFacts
    <3>2. QED
      BY <1>7, <3>1
  <2>8. a \in 1 .. n + 1
    <3>1. CASE activate
      BY <1>6, <3>1
    <3>2. CASE ~activate
      <4>1. S.active \in 1 .. n
        BY <1>2, <3>2, SessionFacts DEF MayOpen
      <4>2. QED
        BY <1>2, <1>6, <3>2, <4>1
    <3>3. QED
      BY <3>1, <3>2
  <2>81. activate => a = at
    OBVIOUS
  <2>82. activate = FALSE => a = IF at <= S.active THEN S.active + 1 ELSE S.active
    OBVIOUS
  <2> HIDE DEF a
  <2>9. ASSUME activate, S.scope = f
        PROVE  Seen([spaces |-> us, active |-> a, scope |-> S.scope])
    <3>1. us[a].cwd = S.scope
      <4>1. a = at
        BY <2>9, <2>81, Zenon
      <4>2. us[at].cwd = f
        BY <2>4, <2>61
      <4>3. QED
        BY <2>9, <4>1, <4>2
    <3>2. PICK T : T = [spaces |-> us, active |-> a, scope |-> S.scope]
      OBVIOUS
    <3>3. ActiveSpace(T) = us[a] /\ T.scope = S.scope
      BY <3>2 DEF ActiveSpace
    <3>4. QED
      BY <3>1, <3>2, <3>3 DEF Seen, InScope
  <2>10. ASSUME S \in GoodSession, activate = FALSE, NEW T,
                T = [spaces |-> us, active |-> a, scope |-> S.scope]
         PROVE  Calm(S, T)
    <3>1. S.active \in 1 .. n
      BY <1>2, <2>10, SessionFacts
    <3>2. a = Skip(at, S.active)
      BY <1>2, <1>6, <2>10, <2>82, <3>1 DEF Skip
    <3>3. /\ \A k \in 1 .. n : Skip(at, k) \in 1 .. n + 1
          /\ \A m \in (1 .. n + 1) \ {at} : \E k \in 1 .. n : Skip(at, k) = m
      <4>1. PICK l \in Nat : l = n + 1
        BY <1>2
      <4>2. /\ \A k \in 1 .. l - 1 : Skip(at, k) \in (1 .. l) \ {at}
            /\ \A m \in (1 .. l) \ {at} : \E k \in 1 .. l - 1 : Skip(at, k) = m
        BY <1>6, <4>1, SkipFacts
      <4>3. l - 1 = n
        BY <1>2, <4>1
      <4>4. QED
        BY <4>1, <4>2, <4>3
    <3>4. ASSUME NEW c \in Client, views[c].space \in Ids(us)
          PROVE  views[c].space \in Ids(ws)
      <4>1. PICK m \in 1 .. n + 1 : us[m].id = views[c].space
        BY <2>7, <3>4 DEF Ids
      <4>2. m # at
        BY <1>4, <2>4, <2>61, <4>1
      <4>3. PICK k \in 1 .. n : us[m] = ws[k]
        BY <2>61, <3>3, <4>2
      <4>4. QED
        BY <1>2, <4>1, <4>3 DEF Ids
    <3>5. ASSUME NEW k \in DOMAIN ws
          PROVE  \E m \in DOMAIN us : us[m] = ws[k] /\ (k = S.active => m = a)
      <4>1. k \in 1 .. n /\ Skip(at, k) \in DOMAIN us
        BY <1>2, <2>7, <3>3
      <4>2. QED
        BY <2>61, <3>2, <4>1
    <3>6. T.spaces = us /\ T.active = a
      BY <2>10
    <3>7. QED
      BY <3>4, <3>5, <3>6 DEF Calm
  <2>11. QED
    BY <1>1, <2>6, <2>7, <2>8, <2>9, <2>10, MakeSession DEF OpensSeen, OpensAside
<1>11. QED
  <2> HIDE DEF us, a
  <2>1. NewSpace(S, p, f, pt, activate).spaces = us
    BY <1>9
  <2>2. Longer(S.spaces, NewSpace(S, p, f, pt, activate).spaces)
    BY <1>7, <2>1 DEF n, Longer
  <2>3. QED
    BY <1>9, <1>10, <2>1, <2>2

LEMMA NewSpaceFacts ==
  ASSUME NEW S \in AnySession, NEW p \in Pane \ InSpaces(S.spaces), NEW f \in Folder,
         NEW pt \in Nat, NEW activate \in BOOLEAN,
         MayOpen(S, activate)
  PROVE  /\ NewSpace(S, p, f, pt, activate) \in GoodSession
         /\ InSpaces(NewSpace(S, p, f, pt, activate).spaces) = InSpaces(S.spaces) \cup {p}
<1>1. PICK T : T = NewSpace(S, p, f, pt, activate)
  OBVIOUS
<1>2. /\ Longer(S.spaces, T.spaces)
      /\ p \in Pane \ InSpaces(S.spaces) =>
           /\ T \in GoodSession /\ InSpaces(T.spaces) = InSpaces(S.spaces) \cup {p}
           /\ OpensSeen(S, T, f, activate) /\ OpensAside(S, T, activate)
  BY <1>1, NewSpaceOpened
<1>3. QED
  BY <1>1, <1>2

LEMMA NewSpaceLonger ==
  ASSUME NEW S \in GoodSession, NEW p, NEW f \in Folder, NEW pt \in Nat, NEW activate \in BOOLEAN
  PROVE  Longer(S.spaces, NewSpace(S, p, f, pt, activate).spaces)
<1>1. S \in AnySession /\ MayOpen(S, activate)
  BY SessionFacts DEF MayOpen
<1>2. QED
  BY <1>1, NewSpaceOpened, Zenon

(* The view moved to another space or another scope.                       *)
LEMMA ViewMoved ==
  ASSUME NEW S \in GoodSession, NEW a \in DOMAIN S.spaces, NEW f \in Scope
  PROVE  /\ [S EXCEPT !.active = a] \in GoodSession /\ [S EXCEPT !.active = a].spaces = S.spaces
         /\ [S EXCEPT !.scope = f] \in GoodSession /\ [S EXCEPT !.scope = f].spaces = S.spaces
         /\ [S EXCEPT !.scope = f].scope = f
         /\ InScope(S, S.spaces[a]) => Seen([S EXCEPT !.active = a])
<1>1. S.spaces \in GoodSpaces /\ S.active \in DOMAIN S.spaces /\ S.scope \in Scope
  BY SessionFacts
<1>2. S \in AnySession
  BY SessionFacts
<1>3. [S EXCEPT !.active = a] = [spaces |-> S.spaces, active |-> a, scope |-> S.scope]
  BY <1>2 DEF AnySession
<1>4. [S EXCEPT !.scope = f] = [spaces |-> S.spaces, active |-> S.active, scope |-> f]
  BY <1>2 DEF AnySession
<1>5. InScope(S, S.spaces[a]) => Seen([S EXCEPT !.active = a])
  BY <1>3 DEF Seen, InScope, ActiveSpace
<1>6. QED
  BY <1>1, <1>3, <1>4, <1>5, MakeSession

LEMMA AttachScopeFacts ==
  ASSUME NEW S \in GoodSession, NEW f \in Scope, NEW p
  PROVE  \/ /\ AttachScope(S, f, p) \in GoodSession /\ AttachScope(S, f, p).spaces = S.spaces
            /\ Seen(AttachScope(S, f, p))
         \/ /\ Longer(S.spaces, AttachScope(S, f, p).spaces)
            /\ p \in Pane \ InSpaces(S.spaces) =>
                 /\ AttachScope(S, f, p) \in GoodSession
                 /\ InSpaces(AttachScope(S, f, p).spaces) = InSpaces(S.spaces) \cup {p}
                 /\ Seen(AttachScope(S, f, p))
<1> DEFINE T == [S EXCEPT !.scope = f]
           exact == SelectInSeq(T.spaces, LAMBDA w : w.cwd = f)
           I == {i \in 1 .. Len(T.spaces) : T.spaces[i].cwd = f}
<1>1. S.spaces \in GoodSpaces /\ S.active \in DOMAIN S.spaces
  BY SessionFacts
<1>2. T \in GoodSession /\ T.spaces = S.spaces /\ T.scope = f
  BY <1>1, ViewMoved
<1>3. exact = IF I # {} THEN Min(I) ELSE 0
  BY DEF SelectInSeq
<1>4. AttachScope(S, f, p) = IF f = NoFolder \/ InScope(T, ActiveSpace(T)) THEN T
                             ELSE IF exact # 0 THEN [T EXCEPT !.active = exact]
                             ELSE NewSpace(T, p, f, 0, TRUE)
  BY DEF AttachScope
<1> HIDE DEF T
<1>5. DOMAIN T.spaces = 1 .. Len(T.spaces)
  BY <1>2, <1>1, SpacesFacts
<1>6. exact # 0 => exact \in DOMAIN T.spaces /\ T.spaces[exact].cwd = f
  <2>1. I \in SUBSET Nat
    OBVIOUS
  <2>2. I # {} => Min(I) \in I
    BY <2>1, MinFacts
  <2> HIDE DEF exact
  <2>3. QED
    BY <1>3, <1>5, <2>2
<1> HIDE DEF exact
<1>7. CASE f = NoFolder \/ InScope(T, ActiveSpace(T))
  <2>1. AttachScope(S, f, p) = T
    BY <1>4, <1>7
  <2>2. Seen(T)
    BY <1>2, <1>7 DEF Seen, InScope
  <2>3. QED
    BY <1>2, <2>1, <2>2
<1>8. CASE ~(f = NoFolder \/ InScope(T, ActiveSpace(T))) /\ exact # 0
  <2>1. AttachScope(S, f, p) = [T EXCEPT !.active = exact]
    BY <1>4, <1>8
  <2>2. /\ [T EXCEPT !.active = exact] \in GoodSession /\ [T EXCEPT !.active = exact].spaces = T.spaces
        /\ Seen([T EXCEPT !.active = exact])
    <3>1. exact \in DOMAIN T.spaces /\ T.scope \in Scope /\ InScope(T, T.spaces[exact])
      BY <1>2, <1>6, <1>8, SessionFacts DEF InScope
    <3>2. QED
      BY <1>2, <3>1, ViewMoved
  <2>3. QED
    BY <1>2, <2>1, <2>2
<1>9. CASE ~(f = NoFolder \/ InScope(T, ActiveSpace(T))) /\ exact = 0
  <2>1. AttachScope(S, f, p) = NewSpace(T, p, f, 0, TRUE)
    BY <1>4, <1>9
  <2>2. f \in Folder
    BY <1>9 DEF Scope
  <2>3. PICK b \in BOOLEAN : b = TRUE
    OBVIOUS
  <2>4. T \in AnySession /\ 0 \in Nat
    BY <1>2, SessionFacts
  <2>5. /\ Longer(T.spaces, NewSpace(T, p, f, 0, b).spaces)
        /\ p \in Pane \ InSpaces(T.spaces) =>
             /\ NewSpace(T, p, f, 0, b) \in GoodSession
             /\ InSpaces(NewSpace(T, p, f, 0, b).spaces) = InSpaces(T.spaces) \cup {p}
             /\ Seen(NewSpace(T, p, f, 0, b))
    <3>1. PICK g \in Folder : g = f
      BY <2>2
    <3>2. PICK z \in Nat : z = 0
      OBVIOUS
    <3>3. PICK U \in GoodSession : U = T
      BY <1>2
    <3>4. Longer(U.spaces, NewSpace(U, p, g, z, b).spaces)
      BY NewSpaceLonger
    <3>5. ASSUME p \in Pane \ InSpaces(U.spaces)
          PROVE  /\ NewSpace(U, p, g, z, b) \in GoodSession
                 /\ InSpaces(NewSpace(U, p, g, z, b).spaces) = InSpaces(U.spaces) \cup {p}
                 /\ Seen(NewSpace(U, p, g, z, b))
      <4>1. U \in AnySession /\ MayOpen(U, b)
        BY SessionFacts DEF MayOpen
      <4>2. b /\ U.scope = g
        BY <1>2, <2>3, <3>1, <3>3
      <4>3. QED
        BY <3>5, <4>1, <4>2, NewSpaceOpened, ZenonT(40) DEF OpensSeen
    <3>6. QED
      BY <3>1, <3>2, <3>3, <3>4, <3>5
  <2>6. QED
    BY <1>2, <2>1, <2>3, <2>5
<1>10. QED
  BY <1>7, <1>8, <1>9

-----------------------------------------------------------------------------
(* Drag and drop.                                                          *)
LEMMA JoinedFacts ==
  ASSUME NEW t \in GoodTab, NEW ps \in Distinct, In(t) \subseteq ToSet(ps)
  PROVE  Joined(t, ps) \in GoodTab /\ In(Joined(t, ps)) = ToSet(ps)
<1>1. t.focus \in In(t) /\ t \in TabType
  BY TabFacts DEF GoodTab
<1>2. PICK u : u = [t EXCEPT !.panes = ps, !.zoom = 0]
  OBVIOUS
<1>3. u = [panes |-> ps, focus |-> t.focus, zoom |-> 0]
  BY <1>1, <1>2 DEF TabType
<1>4. t.focus \in ToSet(ps) /\ 0 \in {0, t.focus}
  BY <1>1
<1>5. u \in GoodTab /\ In(u) = ToSet(ps)
  BY <1>3, <1>4, MakeTab
<1>6. QED
  BY <1>2, <1>5 DEF Joined

(* Tab j of a space goes, its panes are now on tab k.                      *)
LEMMA MergeFacts ==
  ASSUME NEW w \in GoodSpace, NEW j \in DOMAIN w.tabs, NEW k \in DOMAIN w.tabs, j # k,
         NEW t \in GoodTab, In(t) = In(w.tabs[j]) \cup In(w.tabs[k])
  PROVE  /\ DropTab([w EXCEPT !.tabs[k] = t], j) \in GoodSpace
         /\ DropTab([w EXCEPT !.tabs[k] = t], j).id = w.id
         /\ PanesOf(DropTab([w EXCEPT !.tabs[k] = t], j)) = PanesOf(w)
<1> DEFINE ts == w.tabs
           v == [w EXCEPT !.tabs[k] = t]
           us == [ts EXCEPT ![k] = t]
<1>1. /\ w \in SpaceType /\ ts \in GoodTabs /\ ts \in Seq(GoodTab) /\ w.active \in DOMAIN ts
      /\ PanesOf(w) = InTabs(ts)
  BY SpaceFacts
<1>2. /\ RemoveAt(us, j) \in GoodTabs /\ Len(RemoveAt(us, j)) = Len(ts) - 1
      /\ InTabs(RemoveAt(us, j)) = InTabs(ts)
  BY <1>1, TabsMerged
<1>3. us \in Seq(GoodTab) /\ Len(us) = Len(ts) /\ DOMAIN us = DOMAIN ts /\ us # <<>>
  BY <1>1
<1>4. us \in Seq(TabType)
  <2>1. \A x \in GoodTab : x \in TabType
    BY DEF GoodTab
  <2> HIDE DEF us
  <2>2. QED
    BY <1>3, <2>1
<1>5. v.tabs = us /\ v.active = w.active /\ v.id = w.id /\ v \in SpaceType
  <2>1. v = [w EXCEPT !.tabs = us]
    BY <1>1 DEF SpaceType
  <2> HIDE DEF v, us
  <2>2. QED
    BY <1>1, <1>3, <1>4, <2>1 DEF SpaceType
<1>6. Len(ts) > 1
  <2>1. DOMAIN ts = 1 .. Len(ts) /\ Len(ts) \in Nat
    BY <1>1
  <2>2. j \in 1 .. Len(ts) /\ k \in 1 .. Len(ts)
    BY <2>1
  <2> HIDE DEF ts
  <2>3. QED
    BY <2>1, <2>2
<1> HIDE DEF v, us
<1>7. /\ v.active \in DOMAIN v.tabs /\ j \in DOMAIN v.tabs /\ Len(v.tabs) > 1
      /\ RemoveAt(v.tabs, j) \in GoodTabs /\ Len(RemoveAt(v.tabs, j)) = Len(v.tabs) - 1
  BY <1>1, <1>2, <1>3, <1>5, <1>6
<1>8. /\ DropTab(v, j) \in GoodSpace /\ DropTab(v, j).id = v.id
      /\ PanesOf(DropTab(v, j)) = InTabs(RemoveAt(v.tabs, j))
  BY <1>5, <1>7, DropTabFacts
<1>9. QED
  BY <1>1, <1>2, <1>5, <1>8 DEF v

(* A space with the panes it had, rearranged, and the view on one of them. *)
LEMMA RearrangedFacts ==
  ASSUME NEW S \in GoodSession, NEW i \in DOMAIN S.spaces, NEW w \in GoodSpace,
         w.id = S.spaces[i].id, PanesOf(w) = PanesOf(S.spaces[i]), NEW p
  PROVE  /\ GoTo([S EXCEPT !.spaces[i] = w], p) \in GoodSession
         /\ InSpaces(GoTo([S EXCEPT !.spaces[i] = w], p).spaces) = InSpaces(S.spaces)
         /\ p \in PanesOf(w) => Seen(GoTo([S EXCEPT !.spaces[i] = w], p))
<1> DEFINE T == PutSpace(S, i, w, S.active, S.scope)
<1>1. /\ S.active \in DOMAIN S.spaces /\ S.scope \in Scope
      /\ PanesOf(S.spaces[i]) \subseteq InSpaces(S.spaces)
  BY SessionFacts, SpacesFacts
<1>2. PanesOf(w) \cap (InSpaces(S.spaces) \ PanesOf(S.spaces[i])) = {}
  OBVIOUS
<1>3. T \in GoodSession
      /\ InSpaces(T.spaces) = (InSpaces(S.spaces) \ PanesOf(S.spaces[i])) \cup PanesOf(w)
  BY <1>1, <1>2, PutSpaceFacts
<1>4. [S EXCEPT !.spaces[i] = w] = T
  BY SpaceSet
<1> HIDE DEF T
<1>5. /\ GoTo(T, p) \in GoodSession /\ InSpaces(GoTo(T, p).spaces) = InSpaces(T.spaces)
      /\ p \in InSpaces(T.spaces) => Seen(GoTo(T, p))
  BY <1>3, GoToFacts
<1>6. PanesOf(w) \subseteq InSpaces(T.spaces)
  BY <1>3
<1>7. QED
  BY <1>1, <1>3, <1>4, <1>5, <1>6

LEMMA MoveTabFacts ==
  ASSUME NEW S \in GoodSession, NEW i \in DOMAIN S.spaces, NEW j \in DOMAIN S.spaces[i].tabs,
         NEW target \in PanesOf(S.spaces[i]), TabWith(S.spaces[i], target) # j,
         NEW before \in BOOLEAN
  PROVE  /\ MoveTab(S, i, j, target, before) \in GoodSession
         /\ InSpaces(MoveTab(S, i, j, target, before).spaces) = InSpaces(S.spaces)
         /\ Seen(MoveTab(S, i, j, target, before))
<1> DEFINE w == S.spaces[i]
           k == TabWith(w, target)
           ps == Beside(w.tabs[k].panes, target, before, w.tabs[j].panes)
           t == Joined(w.tabs[k], ps)
           v == DropTab([w EXCEPT !.tabs[k] = t], j)
<1>1. w \in GoodSpace
  BY SessionFacts, SpacesFacts
<1>2. MoveTab(S, i, j, target, before) = GoTo([S EXCEPT !.spaces[i] = v], w.tabs[j].focus)
  BY DEF MoveTab
<1>3. k \in DOMAIN w.tabs /\ w.tabs[k] \in GoodTab /\ target \in In(w.tabs[k])
  BY <1>1, TabOf
<1>4. w.tabs \in GoodTabs /\ w.tabs \in Seq(GoodTab)
  BY <1>1, SpaceFacts
<1>5. w.tabs[j] \in GoodTab /\ In(w.tabs[j]) \cap In(w.tabs[k]) = {}
  BY <1>3, <1>4 DEF GoodTabs
<1>6. /\ w.tabs[k].panes \in Distinct /\ In(w.tabs[k]) = ToSet(w.tabs[k].panes)
      /\ w.tabs[j].panes \in Distinct /\ In(w.tabs[j]) = ToSet(w.tabs[j].panes)
  BY <1>3, <1>5, TabFacts
<1>7. ps \in Distinct /\ ToSet(ps) = In(w.tabs[k]) \cup In(w.tabs[j])
  <2>1. target \in ToSet(w.tabs[k].panes)
        /\ ToSet(w.tabs[k].panes) \cap ToSet(w.tabs[j].panes) = {}
    BY <1>3, <1>5, <1>6
  <2> HIDE DEF w, k
  <2>2. QED
    BY <1>6, <2>1, BesideFacts
<1> HIDE DEF ps
<1>8. t \in GoodTab /\ In(t) = In(w.tabs[j]) \cup In(w.tabs[k])
  BY <1>3, <1>7, JoinedFacts
<1> HIDE DEF t
<1>9. v \in GoodSpace /\ v.id = w.id /\ PanesOf(v) = PanesOf(w)
  <2>1. k # j
    OBVIOUS
  <2> HIDE DEF k
  <2>2. j \in DOMAIN w.tabs
    OBVIOUS
  <2> HIDE DEF w
  <2>3. QED
    BY <1>1, <1>3, <1>8, <2>1, <2>2, MergeFacts
<1> HIDE DEF v
<1>10. w.tabs[j].focus \in PanesOf(v)
  <2>1. w.tabs[j].focus \in In(w.tabs[j]) /\ In(w.tabs[j]) \subseteq InTabs(w.tabs)
    BY <1>5, TabFacts DEF InTabs
  <2>2. QED
    BY <1>1, <1>9, <2>1, SpaceFacts
<1>11. QED
  BY <1>2, <1>9, <1>10, RearrangedFacts

(* A pane lifted out of its tab, unless it is alone there, and put on tab  *)
(* k of the same space.                                                    *)
Dropped(v, k, ps) == [v EXCEPT !.tabs[k] = Joined(v.tabs[k], ps)]

LEMMA LiftedFacts ==
  ASSUME NEW w \in GoodSpace, NEW j \in DOMAIN w.tabs, NEW p \in In(w.tabs[j]),
         Len(w.tabs[j].panes) # 1
  PROVE  /\ [w EXCEPT !.tabs[j] = Without(w.tabs[j], p)] \in GoodSpace
         /\ PanesOf([w EXCEPT !.tabs[j] = Without(w.tabs[j], p)]) = PanesOf(w) \ {p}
         /\ [w EXCEPT !.tabs[j] = Without(w.tabs[j], p)].id = w.id
         /\ [w EXCEPT !.tabs[j] = Without(w.tabs[j], p)].tabs
              = [w.tabs EXCEPT ![j] = Without(w.tabs[j], p)]
         /\ In(Without(w.tabs[j], p)) = In(w.tabs[j]) \ {p}
<1> DEFINE t == w.tabs[j]
           u == Without(t, p)
<1>1. /\ w.tabs \in GoodTabs /\ w.tabs \in Seq(GoodTab) /\ PanesOf(w) = InTabs(w.tabs)
  BY SpaceFacts
<1>2. t \in GoodTab /\ p \in In(t) /\ In(t) \subseteq PanesOf(w)
      /\ \A m \in DOMAIN w.tabs : m # j => In(w.tabs[m]) \cap In(t) = {}
  BY <1>1 DEF InTabs, GoodTabs
<1>3. Len(t.panes) > 1
  <2>1. t.panes \in Distinct /\ t.panes # <<>>
    BY <1>2, TabFacts
  <2>2. Len(t.panes) \in Nat \ {0}
    BY <2>1, EmptySeq DEF Distinct
  <2>3. PICK m \in Nat \ {0} : m = Len(t.panes) /\ m # 1
    BY <2>2
  <2>4. m # 1
    BY <2>3
  <2>5. m > 1
    BY <2>4
  <2>6. QED
    BY <2>3, <2>5
<1> HIDE DEF t
<1>4. u \in GoodTab /\ In(u) = In(t) \ {p}
  BY <1>2, <1>3, WithoutFacts
<1> HIDE DEF u
<1>5. In(u) \cap (PanesOf(w) \ In(w.tabs[j])) = {}
  BY <1>4 DEF t
<1>6. /\ [w EXCEPT !.tabs[j] = u] \in GoodSpace
      /\ PanesOf([w EXCEPT !.tabs[j] = u]) = (PanesOf(w) \ In(w.tabs[j])) \cup In(u)
      /\ [w EXCEPT !.tabs[j] = u].id = w.id
      /\ [w EXCEPT !.tabs[j] = u].tabs = [w.tabs EXCEPT ![j] = u]
  BY <1>4, <1>5, TabPut
<1>7. (PanesOf(w) \ In(t)) \cup In(u) = PanesOf(w) \ {p}
  BY <1>2, <1>4
<1>8. QED
  BY <1>4, <1>6, <1>7 DEF t, u

LEMMA MovePaneFacts ==
  ASSUME NEW S \in GoodSession, NEW p \in InSpaces(S.spaces),
         NEW i, i = SpaceWith(S.spaces, p), NEW j, j = TabWith(S.spaces[i], p),
         NEW k \in DOMAIN S.spaces[i].tabs, Len(S.spaces[i].tabs[j].panes) = 1 => k # j,
         NEW ps \in Distinct, ToSet(ps) = In(Lifted(S, p).tabs[k]) \cup {p}
  PROVE  /\ MovePane(S, p, Dropped(Lifted(S, p), k, ps)) \in GoodSession
         /\ InSpaces(MovePane(S, p, Dropped(Lifted(S, p), k, ps)).spaces) = InSpaces(S.spaces)
         /\ Seen(MovePane(S, p, Dropped(Lifted(S, p), k, ps)))
<1> DEFINE w == S.spaces[i]
           v == Lifted(S, p)
           u == Joined(v.tabs[k], ps)
           placed == [v EXCEPT !.tabs[k] = u]
           x == IF Len(w.tabs[j].panes) = 1 THEN DropTab(placed, j) ELSE placed
<1>1. /\ i \in DOMAIN S.spaces /\ w \in GoodSpace /\ p \in PanesOf(w)
      /\ j \in DOMAIN w.tabs /\ w.tabs[j] \in GoodTab /\ p \in In(w.tabs[j])
  BY PlaceOf
<1>2. MovePane(S, p, placed) = GoTo([S EXCEPT !.spaces[i] = x], p)
  BY DEF MovePane
<1>3. v = IF Len(w.tabs[j].panes) = 1 THEN w ELSE [w EXCEPT !.tabs[j] = Without(w.tabs[j], p)]
  BY DEF Lifted
<1> HIDE DEF v
<1>4. x \in GoodSpace /\ x.id = w.id /\ PanesOf(x) = PanesOf(w)
  <2>1. CASE Len(w.tabs[j].panes) = 1
    <3>1. v = w /\ x = DropTab(placed, j) /\ k # j
      BY <1>3, <2>1
    <3>2. In(w.tabs[j]) = {p}
      <4>1. In(w.tabs[j]) = {w.tabs[j].panes[1]}
        BY <1>1, <2>1, TabFacts
      <4>2. QED
        BY <1>1, <4>1
    <3>3. w.tabs[k] \in GoodTab
      BY <1>1, SpaceFacts
    <3>4. ToSet(ps) = In(w.tabs[k]) \cup {p}
      BY <3>1 DEF v
    <3>5. u \in GoodTab /\ In(u) = In(w.tabs[j]) \cup In(w.tabs[k])
      BY <3>1, <3>2, <3>3, <3>4, JoinedFacts
    <3> HIDE DEF u
    <3>6. k \in DOMAIN w.tabs
      OBVIOUS
    <3> HIDE DEF w
    <3>7. /\ DropTab([w EXCEPT !.tabs[k] = u], j) \in GoodSpace
          /\ DropTab([w EXCEPT !.tabs[k] = u], j).id = w.id
          /\ PanesOf(DropTab([w EXCEPT !.tabs[k] = u], j)) = PanesOf(w)
      BY <1>1, <3>1, <3>5, <3>6, MergeFacts
    <3> HIDE DEF x
    <3>8. x = DropTab([w EXCEPT !.tabs[k] = u], j)
      BY <3>1
    <3>9. QED
      BY <3>7, <3>8
  <2>2. CASE Len(w.tabs[j].panes) # 1
    <3>1. v = [w EXCEPT !.tabs[j] = Without(w.tabs[j], p)] /\ x = placed
      BY <1>3, <2>2
    <3>2. /\ v \in GoodSpace /\ PanesOf(v) = PanesOf(w) \ {p} /\ v.id = w.id
          /\ v.tabs = [w.tabs EXCEPT ![j] = Without(w.tabs[j], p)]
      <4>1. PICK lifted : lifted = [w EXCEPT !.tabs[j] = Without(w.tabs[j], p)]
        OBVIOUS
      <4> HIDE DEF w, x
      <4>2. /\ lifted \in GoodSpace /\ PanesOf(lifted) = PanesOf(w) \ {p} /\ lifted.id = w.id
            /\ lifted.tabs = [w.tabs EXCEPT ![j] = Without(w.tabs[j], p)]
        BY <1>1, <2>2, <4>1, LiftedFacts, SMTT(30)
      <4>3. QED
        BY <3>1, <4>1, <4>2
    <3>3. k \in DOMAIN v.tabs
      BY <3>2
    <3>4. v.tabs[k] \in GoodTab /\ In(v.tabs[k]) \subseteq PanesOf(v)
      BY <3>2, <3>3, SpaceFacts, SMTT(30) DEF InTabs
    <3>5. ToSet(ps) = In(v.tabs[k]) \cup {p}
      BY DEF v
    <3>6. u \in GoodTab /\ In(u) = In(v.tabs[k]) \cup {p}
      BY <3>4, <3>5, JoinedFacts
    <3> HIDE DEF u, w
    <3>7. In(u) \cap (PanesOf(v) \ In(v.tabs[k])) = {}
      BY <3>2, <3>6
    <3>8. /\ placed \in GoodSpace /\ placed.id = v.id
          /\ PanesOf(placed) = (PanesOf(v) \ In(v.tabs[k])) \cup In(u)
      BY <3>2, <3>3, <3>6, <3>7, TabPut
    <3> HIDE DEF placed, x
    <3>9. (PanesOf(v) \ In(v.tabs[k])) \cup In(u) = PanesOf(w)
      BY <1>1, <3>2, <3>4, <3>6
    <3>10. QED
      BY <3>1, <3>2, <3>8, <3>9
  <2>3. QED
    BY <2>1, <2>2
<1> HIDE DEF x
<1>5. /\ GoTo([S EXCEPT !.spaces[i] = x], p) \in GoodSession
      /\ InSpaces(GoTo([S EXCEPT !.spaces[i] = x], p).spaces) = InSpaces(S.spaces)
      /\ Seen(GoTo([S EXCEPT !.spaces[i] = x], p))
  BY <1>1, <1>4, RearrangedFacts
<1>6. placed = Dropped(Lifted(S, p), k, ps)
  BY DEF Dropped, v
<1>7. QED
  BY <1>2, <1>5, <1>6

(* ... or on a new tab.                                                    *)
LEMMA MovePaneOutFacts ==
  ASSUME NEW S \in GoodSession, NEW p \in InSpaces(S.spaces),
         NEW i, i = SpaceWith(S.spaces, p), NEW j, j = TabWith(S.spaces[i], p),
         Len(S.spaces[i].tabs[j].panes) # 1
  PROVE  LET placed == [Lifted(S, p) EXCEPT !.tabs = Append(@, NewTab(p))]
         IN  /\ MovePane(S, p, placed) \in GoodSession
             /\ InSpaces(MovePane(S, p, placed).spaces) = InSpaces(S.spaces)
             /\ Seen(MovePane(S, p, placed))
<1> DEFINE w == S.spaces[i]
           v == Lifted(S, p)
           ts == Append(v.tabs, NewTab(p))
           x == [v EXCEPT !.tabs = ts]
<1>1. /\ i \in DOMAIN S.spaces /\ w \in GoodSpace /\ p \in PanesOf(w)
      /\ j \in DOMAIN w.tabs /\ w.tabs[j] \in GoodTab /\ p \in In(w.tabs[j])
  BY PlaceOf
<1>2. MovePane(S, p, x) = GoTo([S EXCEPT !.spaces[i] = x], p)
  BY DEF MovePane
<1>3. v = [w EXCEPT !.tabs[j] = Without(w.tabs[j], p)]
  BY DEF Lifted
<1>4. x = [Lifted(S, p) EXCEPT !.tabs = Append(@, NewTab(p))]
  OBVIOUS
<1> HIDE DEF v
<1>5. v \in GoodSpace /\ PanesOf(v) = PanesOf(w) \ {p} /\ v.id = w.id
  BY <1>1, <1>3, LiftedFacts
<1>6. /\ v \in SpaceType /\ v.tabs \in GoodTabs /\ v.active \in DOMAIN v.tabs
      /\ PanesOf(v) = InTabs(v.tabs) /\ v.tabs \in Seq(GoodTab) /\ PanesOf(w) \subseteq Pane
  BY <1>1, <1>5, SpaceFacts
<1>7. p \in Pane
  BY <1>1, <1>6
<1>8. NewTab(p) \in GoodTab /\ In(NewTab(p)) = {p}
  BY <1>7, NewTabFacts
<1>9. In(NewTab(p)) \cap InTabs(v.tabs) = {}
  BY <1>5, <1>6, <1>8
<1>10. ts \in GoodTabs /\ InTabs(ts) = PanesOf(v) \cup {p}
  BY <1>6, <1>8, <1>9, TabAppended
<1>11. v.active \in DOMAIN ts
  BY <1>6
<1> HIDE DEF ts
<1>12. x = Tabbed(v, ts, v.active)
  BY <1>6 DEF Tabbed, SpaceType
<1>13. x \in GoodSpace /\ PanesOf(x) = InTabs(ts) /\ x.id = v.id
  BY <1>6, <1>10, <1>11, <1>12, TabsChanged
<1> HIDE DEF x
<1>14. PanesOf(x) = PanesOf(w)
  BY <1>1, <1>5, <1>10, <1>13
<1>15. /\ GoTo([S EXCEPT !.spaces[i] = x], p) \in GoodSession
       /\ InSpaces(GoTo([S EXCEPT !.spaces[i] = x], p).spaces) = InSpaces(S.spaces)
       /\ Seen(GoTo([S EXCEPT !.spaces[i] = x], p))
  BY <1>1, <1>5, <1>13, <1>14, RearrangedFacts
<1>16. QED
  BY <1>2, <1>4, <1>15

(* An exchange of two panes is the same exchange on every set of panes.    *)
Img(a, b, A) == {Other(a, b, x) : x \in A}
SwappedTabs(ts, a, b) == [j \in DOMAIN ts |-> Swapped(ts[j], a, b)]
SwappedSpace(w, a, b) == [w EXCEPT !.tabs = SwappedTabs(w.tabs, a, b)]
SwappedSpaces(ws, a, b) == [i \in DOMAIN ws |-> SwappedSpace(ws[i], a, b)]

LEMMA ImgFacts ==
  ASSUME NEW a, NEW b
  PROVE  /\ \A A, B : A \cap B = {} => Img(a, b, A) \cap Img(a, b, B) = {}
         /\ \A A : a \in A /\ b \in A => Img(a, b, A) = A
BY DEF Img, Other

LEMMA SwappedFacts ==
  ASSUME NEW t \in GoodTab, NEW a \in Pane, NEW b \in Pane
  PROVE  Swapped(t, a, b) \in GoodTab /\ In(Swapped(t, a, b)) = Img(a, b, In(t))
<1> DEFINE ps == SwapIn(t.panes, a, b)
<1>1. /\ t.panes \in Distinct /\ In(t) = ToSet(t.panes) /\ t.focus \in In(t)
      /\ t.zoom \in {0, t.focus} /\ a # 0 /\ b # 0
  BY TabFacts DEF Pane
<1>2. ps \in Distinct /\ ToSet(ps) = Img(a, b, In(t))
  BY <1>1, SwapInFacts DEF Img
<1>3. CASE Holds(t, a) /\ Holds(t, b)
  <2>1. Img(a, b, In(t)) = In(t)
    BY <1>3, ImgFacts DEF Holds, In
  <2>2. [t EXCEPT !.panes = ps] = [panes |-> ps, focus |-> t.focus, zoom |-> t.zoom]
    BY DEF GoodTab, TabType
  <2>3. Swapped(t, a, b) = [panes |-> ps, focus |-> t.focus, zoom |-> t.zoom]
    BY <1>3, <2>2 DEF Swapped
  <2> HIDE DEF ps
  <2>4. t.focus \in ToSet(ps) /\ t.zoom \in {0, t.focus}
    BY <1>1, <1>2, <2>1
  <2>5. QED
    BY <1>2, <2>3, <2>4, MakeTab
<1>4. CASE ~(Holds(t, a) /\ Holds(t, b))
  <2> DEFINE f == Other(a, b, t.focus)
             z == Other(a, b, t.zoom)
  <2>1. Swapped(t, a, b) = [panes |-> ps, focus |-> f, zoom |-> z]
    BY <1>4 DEF Swapped
  <2> HIDE DEF ps
  <2>2. f \in ToSet(ps)
    BY <1>1, <1>2 DEF Img
  <2>3. z \in {0, f}
    BY <1>1 DEF Other
  <2> HIDE DEF f, z
  <2>4. QED
    BY <1>2, <2>1, <2>2, <2>3, MakeTab
<1>5. QED
  BY <1>3, <1>4

LEMMA SwappedTabsFacts ==
  ASSUME NEW ts \in GoodTabs, NEW a \in Pane, NEW b \in Pane
  PROVE  /\ SwappedTabs(ts, a, b) \in GoodTabs /\ DOMAIN SwappedTabs(ts, a, b) = DOMAIN ts
         /\ InTabs(SwappedTabs(ts, a, b)) = Img(a, b, InTabs(ts))
<1> DEFINE us == SwappedTabs(ts, a, b)
<1>1. ts \in Seq(GoodTab) /\ \A m, n \in DOMAIN ts : m # n => In(ts[m]) \cap In(ts[n]) = {}
  BY DEF GoodTabs
<1>2. \A j \in DOMAIN ts : us[j] = Swapped(ts[j], a, b)
  BY DEF SwappedTabs
<1>3. \A j \in DOMAIN ts : us[j] \in GoodTab /\ In(us[j]) = Img(a, b, In(ts[j]))
  <2> TAKE j \in DOMAIN ts
  <2>1. ts[j] \in GoodTab /\ us[j] = Swapped(ts[j], a, b)
    BY <1>1, <1>2
  <2> HIDE DEF us
  <2>2. QED
    BY <2>1, SwappedFacts
<1>4. DOMAIN us = DOMAIN ts
  BY DEF SwappedTabs
<1>5. us \in Seq(GoodTab)
  BY <1>1, <1>3 DEF SwappedTabs
<1> HIDE DEF us
<1>6. \A m, n \in DOMAIN us : m # n => In(us[m]) \cap In(us[n]) = {}
  <2> SUFFICES ASSUME NEW m \in DOMAIN us, NEW n \in DOMAIN us, m # n
               PROVE  In(us[m]) \cap In(us[n]) = {}
    OBVIOUS
  <2>1. In(us[m]) = Img(a, b, In(ts[m])) /\ In(us[n]) = Img(a, b, In(ts[n]))
    BY <1>3, <1>4
  <2>2. In(ts[m]) \cap In(ts[n]) = {}
    BY <1>1, <1>4
  <2>3. QED
    BY <2>1, <2>2, ImgFacts
<1>7. InTabs(us) = Img(a, b, InTabs(ts))
  BY <1>3, <1>4 DEF InTabs, Img
<1>8. QED
  BY <1>4, <1>5, <1>6, <1>7 DEF GoodTabs, us

LEMMA SwappedSpaceFacts ==
  ASSUME NEW w \in GoodSpace, NEW a \in Pane, NEW b \in Pane
  PROVE  /\ SwappedSpace(w, a, b) \in GoodSpace /\ SwappedSpace(w, a, b).id = w.id
         /\ PanesOf(SwappedSpace(w, a, b)) = Img(a, b, PanesOf(w))
<1> DEFINE ts == SwappedTabs(w.tabs, a, b)
<1>1. /\ w \in SpaceType /\ w.tabs \in GoodTabs /\ w.active \in DOMAIN w.tabs
      /\ PanesOf(w) = InTabs(w.tabs)
  BY SpaceFacts
<1>2. ts \in GoodTabs /\ DOMAIN ts = DOMAIN w.tabs /\ InTabs(ts) = Img(a, b, InTabs(w.tabs))
  BY <1>1, SwappedTabsFacts
<1> HIDE DEF ts
<1>3. [w EXCEPT !.tabs = ts] = Tabbed(w, ts, w.active)
  BY <1>1 DEF Tabbed, SpaceType
<1>4. /\ Tabbed(w, ts, w.active) \in GoodSpace /\ Tabbed(w, ts, w.active).id = w.id
      /\ PanesOf(Tabbed(w, ts, w.active)) = InTabs(ts)
  BY <1>1, <1>2, TabsChanged
<1>5. QED
  BY <1>1, <1>2, <1>3, <1>4 DEF SwappedSpace, ts

LEMMA SwapPanesFacts ==
  ASSUME NEW S \in GoodSession, NEW a \in InSpaces(S.spaces), NEW b \in InSpaces(S.spaces)
  PROVE  /\ SwapPanes(S, a, b) \in GoodSession
         /\ InSpaces(SwapPanes(S, a, b).spaces) = InSpaces(S.spaces)
<1> DEFINE ws == S.spaces
           us == SwappedSpaces(ws, a, b)
<1>1. ws \in GoodSpaces /\ S.active \in DOMAIN ws /\ S.scope \in Scope /\ S \in AnySession
  BY SessionFacts
<1>2. /\ ws \in Seq(GoodSpace) /\ InSpaces(ws) \subseteq Pane
      /\ \A m, n \in DOMAIN ws : m # n => /\ PanesOf(ws[m]) \cap PanesOf(ws[n]) = {}
                                          /\ ws[m].id # ws[n].id
  BY <1>1, SpacesFacts DEF GoodSpaces
<1>3. a \in Pane /\ b \in Pane
  BY <1>2
<1>4. \A i \in DOMAIN ws : us[i] = SwappedSpace(ws[i], a, b)
  BY DEF SwappedSpaces
<1>5. \A i \in DOMAIN ws : /\ us[i] \in GoodSpace /\ us[i].id = ws[i].id
                           /\ PanesOf(us[i]) = Img(a, b, PanesOf(ws[i]))
  <2> TAKE i \in DOMAIN ws
  <2>1. ws[i] \in GoodSpace /\ us[i] = SwappedSpace(ws[i], a, b)
    BY <1>2, <1>4
  <2> HIDE DEF us
  <2>2. QED
    BY <1>3, <2>1, SwappedSpaceFacts
<1>6. DOMAIN us = DOMAIN ws
  BY DEF SwappedSpaces
<1>7. us \in Seq(GoodSpace)
  <2>1. ws \in Seq(GoodSpace) /\ \A i \in DOMAIN ws : us[i] \in GoodSpace
    BY <1>2, <1>5
  <2>2. DOMAIN ws = 1 .. Len(ws) /\ Len(ws) \in Nat
    BY <2>1
  <2>3. us = [i \in DOMAIN ws |-> us[i]]
    BY DEF SwappedSpaces
  <2> HIDE DEF us, ws
  <2>4. us \in [1 .. Len(ws) -> GoodSpace]
    BY <2>1, <2>2, <2>3
  <2>5. QED
    BY <2>2, <2>4
<1>8. SwapPanes(S, a, b) = [S EXCEPT !.spaces = us]
  BY Zenon DEF SwapPanes, SwappedSpaces, SwappedSpace, SwappedTabs
<1> HIDE DEF us
<1>9. \A m, n \in DOMAIN us : m # n => /\ PanesOf(us[m]) \cap PanesOf(us[n]) = {}
                                       /\ us[m].id # us[n].id
  <2> SUFFICES ASSUME NEW m \in DOMAIN us, NEW n \in DOMAIN us, m # n
               PROVE  PanesOf(us[m]) \cap PanesOf(us[n]) = {} /\ us[m].id # us[n].id
    OBVIOUS
  <2>1. /\ PanesOf(us[m]) = Img(a, b, PanesOf(ws[m])) /\ PanesOf(us[n]) = Img(a, b, PanesOf(ws[n]))
        /\ us[m].id = ws[m].id /\ us[n].id = ws[n].id
    BY <1>5, <1>6
  <2>2. PanesOf(ws[m]) \cap PanesOf(ws[n]) = {} /\ ws[m].id # ws[n].id
    BY <1>2, <1>6
  <2>3. QED
    BY <2>1, <2>2, ImgFacts
<1>10. us \in GoodSpaces
  BY <1>7, <1>9 DEF GoodSpaces
<1>11. InSpaces(us) = Img(a, b, InSpaces(ws))
  <2>1. \A i \in DOMAIN ws : PanesOf(us[i]) = Img(a, b, PanesOf(ws[i]))
    BY <1>5
  <2>2. InSpaces(us) = UNION {Img(a, b, PanesOf(ws[i])) : i \in DOMAIN ws}
    BY <1>6, <2>1 DEF InSpaces
  <2>3. UNION {Img(a, b, PanesOf(ws[i])) : i \in DOMAIN ws} = Img(a, b, InSpaces(ws))
    BY DEF InSpaces, Img
  <2>4. QED
    BY <2>2, <2>3
<1>12. InSpaces(us) = InSpaces(ws)
  BY <1>11, ImgFacts
<1>13. [S EXCEPT !.spaces = us] = [spaces |-> us, active |-> S.active, scope |-> S.scope]
  BY <1>1 DEF AnySession
<1>14. [spaces |-> us, active |-> S.active, scope |-> S.scope] \in GoodSession
  BY <1>1, <1>6, <1>10, MakeSession
<1>15. QED
  BY <1>8, <1>12, <1>13, <1>14

-----------------------------------------------------------------------------
(* The inductive invariant of a session where no key has strayed.  A       *)
(* zoomed pane is the focused one: that is what no other step breaks.      *)
ViewType == [Client -> [on : BOOLEAN, scope : Scope, space : Nat, frame : SUBSET Pane]]

GoodTree == spaces \in GoodSpaces /\ spaces # <<>> /\ active \in DOMAIN spaces
IInv == GoodTree /\ live \in SUBSET Pane /\ live \subseteq Leaves /\ views \in ViewType

LEMMA IInvFacts ==
  ASSUME IInv
  PROVE  /\ spaces \in GoodSpaces /\ active \in DOMAIN spaces /\ views \in ViewType
         /\ live \subseteq Leaves /\ Leaves = InSpaces(spaces) /\ Leaves \subseteq Pane
         /\ Fresh \notin Leaves /\ (Room => Fresh \in Pane)
<1>1. /\ spaces \in GoodSpaces /\ active \in DOMAIN spaces /\ views \in ViewType
      /\ live \subseteq Leaves /\ live \subseteq Pane
  BY DEF IInv, GoodTree
<1>2. Leaves = InSpaces(spaces)
  BY DEF Leaves, InSpaces
<1>3. Leaves \subseteq Pane
  BY <1>1, <1>2, SpacesFacts
<1>4. Remembered \subseteq Pane
  <2>1. \A c \in Client : views[c].frame \subseteq Pane
    BY <1>1 DEF ViewType
  <2>2. ASSUME NEW i \in DOMAIN spaces, NEW t \in ToSet(spaces[i].tabs)
        PROVE  {t.focus, t.zoom} \ {0} \subseteq Pane
    <3>1. spaces[i] \in GoodSpace
      BY <1>1, SpacesFacts
    <3>2. PICK j \in DOMAIN spaces[i].tabs : t = spaces[i].tabs[j]
      BY <2>2 DEF ToSet
    <3>3. t \in GoodTab
      BY <3>1, <3>2, SpaceFacts
    <3>4. QED
      BY <3>3 DEF GoodTab, TabType
  <2>3. UNION {views[c].frame : c \in Client} \subseteq Pane
    BY <2>1
  <2>4. UNION {{t.focus, t.zoom} \ {0} : t \in UNION {ToSet(spaces[i].tabs) : i \in DOMAIN spaces}}
          \subseteq Pane
    BY <2>2, Zenon
  <2>5. QED
    BY <2>3, <2>4 DEF Remembered
<1>5. QED
  BY <1>1, <1>2, <1>3, <1>4, FreshFacts

LEMMA SessionGood ==
  ASSUME IInv
  PROVE  Session \in GoodSession /\ Session.spaces = spaces
<1>1. spaces \in GoodSpaces /\ active \in DOMAIN spaces /\ NoFolder \in Scope
  BY IInvFacts DEF Scope
<1>2. QED
  BY <1>1, MakeSession DEF Session

LEMMA EnterGood ==
  ASSUME IInv, NEW c \in Client
  PROVE  Enter(c) \in GoodSession /\ Enter(c).spaces = spaces
<1> DEFINE i == SpaceById(spaces, views[c].space)
           a == IF i # 0 THEN i ELSE active
<1>1. /\ spaces \in GoodSpaces /\ active \in DOMAIN spaces /\ views[c].scope \in Scope
  BY IInvFacts DEF ViewType
<1>2. spaces \in Seq(GoodSpace) /\ DOMAIN spaces = 1 .. Len(spaces)
  BY <1>1, SpacesFacts
<1>3. i \in 0 .. Len(spaces)
  BY <1>2, SpaceByIdFacts
<1>4. a \in DOMAIN spaces
  <2> HIDE DEF i
  <2>1. QED
    BY <1>1, <1>2, <1>3
<1>5. Enter(c) = [spaces |-> spaces, active |-> a, scope |-> views[c].scope]
  BY DEF Enter
<1> HIDE DEF a
<1>6. QED
  BY <1>1, <1>4, <1>5, MakeSession

LEMMA IdOfSpace ==
  ASSUME NEW S \in GoodSession
  PROVE  ActiveSpace(S).id \in Nat
BY SessionFacts, SpaceFacts

LEMMA UserDoesKeeps ==
  ASSUME IInv, NEW c \in Client, NEW S \in GoodSession, UserDoes(c, S)
  PROVE  GoodTree' /\ views' \in ViewType /\ spaces' = S.spaces
<1>1. S.spaces \in GoodSpaces /\ S.spaces # <<>> /\ S.active \in DOMAIN S.spaces /\ S.scope \in Scope
  BY SessionFacts
<1>2. spaces' = S.spaces /\ active' = S.active
  BY DEF UserDoes
<1>3. PICK v : v = [on |-> TRUE, scope |-> S.scope, space |-> ActiveSpace(S).id, frame |-> views[c].frame]
  OBVIOUS
<1>4. v \in [on : BOOLEAN, scope : Scope, space : Nat, frame : SUBSET Pane]
  BY <1>1, <1>3, IInvFacts, IdOfSpace DEF ViewType
<1>5. views' = [views EXCEPT ![c] = v]
  BY <1>3 DEF UserDoes
<1>6. views' \in ViewType
  BY <1>4, <1>5, IInvFacts DEF ViewType
<1>7. QED
  BY <1>1, <1>2, <1>6 DEF GoodTree

LEMMA ApiDoesKeeps ==
  ASSUME IInv, NEW S \in GoodSession, ApiDoes(S)
  PROVE  GoodTree' /\ views' \in ViewType /\ spaces' = S.spaces
<1>1. S.spaces \in GoodSpaces /\ S.spaces # <<>> /\ S.active \in DOMAIN S.spaces
  BY SessionFacts
<1>2. spaces' = S.spaces /\ active' = S.active
  BY DEF ApiDoes
<1>3. PICK n \in Nat : n = ActiveSpace(S).id
  BY IdOfSpace
<1>4. views' = views \/ views' = [c \in Client |-> IF c \in Attached THEN [views[c] EXCEPT !.space = n]
                                                   ELSE views[c]]
  BY <1>3 DEF ApiDoes
<1>5. views' \in ViewType
  BY <1>4, IInvFacts DEF ViewType
<1>6. QED
  BY <1>1, <1>2, <1>5 DEF GoodTree

LEMMA BackgroundDoesKeeps ==
  ASSUME IInv, NEW S \in GoodSession, BackgroundDoes(S)
  PROVE  GoodTree' /\ views' \in ViewType /\ spaces' = S.spaces
<1>1. S.spaces \in GoodSpaces /\ S.spaces # <<>> /\ S.active \in DOMAIN S.spaces
  BY SessionFacts
<1>2. spaces' = S.spaces /\ active' = S.active
  BY DEF BackgroundDoes
<1>3. \A n \in Nat : Known(n, S.spaces) \in Nat
  BY DEF Known
<1>4. views' = [c \in Client |-> [views[c] EXCEPT !.space = Known(views[c].space, S.spaces)]]
  BY DEF BackgroundDoes
<1>5. views' \in ViewType
  BY <1>3, <1>4, IInvFacts DEF ViewType
<1>6. QED
  BY <1>1, <1>2, <1>5 DEF GoodTree

(* What is left to show of an operation.                                   *)
LEMMA Keeps ==
  ASSUME GoodTree', views' \in ViewType, live' \subseteq InSpaces(spaces')
  PROVE  IInv'
<1>1. spaces' \in GoodSpaces
  BY DEF GoodTree
<1>2. InSpaces(spaces') \subseteq Pane
  BY <1>1, SpacesFacts
<1>3. Leaves' = InSpaces(spaces')
  BY DEF Leaves, InSpaces
<1>4. QED
  BY <1>2, <1>3 DEF IInv

LEMMA UserKeeps ==
  ASSUME IInv, NEW c \in Client, NEW S \in GoodSession, UserDoes(c, S), NoPaneOpened \/ UNCHANGED live,
         InSpaces(S.spaces) = InSpaces(spaces)
  PROVE  IInv'
<1>1. GoodTree' /\ views' \in ViewType /\ spaces' = S.spaces
  BY UserDoesKeeps
<1>2. live' \subseteq InSpaces(spaces')
  BY <1>1, IInvFacts DEF NoPaneOpened
<1>3. QED
  BY <1>1, <1>2, Keeps

LEMMA ApiKeeps ==
  ASSUME IInv, NEW S \in GoodSession, ApiDoes(S), NoPaneOpened,
         InSpaces(S.spaces) = InSpaces(spaces)
  PROVE  IInv'
<1>1. GoodTree' /\ views' \in ViewType /\ spaces' = S.spaces
  BY ApiDoesKeeps
<1>2. live' \subseteq InSpaces(spaces')
  BY <1>1, IInvFacts DEF NoPaneOpened
<1>3. QED
  BY <1>1, <1>2, Keeps

(* A shell that starts is reachable by its leaf.                           *)
LEMMA OpenedLive ==
  ASSUME IInv, NEW spawned \in Spawns, PaneOpened(spawned), NEW S,
         InSpaces(S.spaces) = InSpaces(spaces) \cup (IF spawned THEN {Fresh} ELSE {})
           \/ InSpaces(S.spaces) = InSpaces(spaces) \cup {Fresh}
  PROVE  live' \subseteq InSpaces(S.spaces)
<1>1. live' = IF spawned THEN live \cup {Fresh} ELSE live
  BY DEF PaneOpened
<1>2. QED
  BY <1>1, IInvFacts

LEMMA RollBackFacts ==
  ASSUME IInv, NEW S \in GoodSession, Room, InSpaces(S.spaces) = InSpaces(spaces) \cup {Fresh},
         NEW spawned \in Spawns
  PROVE  /\ OrRollBack(S, Fresh, spawned) \in GoodSession
         /\ InSpaces(OrRollBack(S, Fresh, spawned).spaces)
              = InSpaces(spaces) \cup (IF spawned THEN {Fresh} ELSE {})
<1>1. spawned \in BOOLEAN
  BY ViewAssumption
<1>2. CASE spawned
  BY <1>2 DEF OrRollBack
<1>3. CASE ~spawned
  <2> DEFINE T == ClosePane(S, Fresh)
  <2>1. /\ T \in AnySession /\ InSpaces(T.spaces) = InSpaces(S.spaces) \ {Fresh}
        /\ T.spaces # <<>> => T \in GoodSession
    BY ClosePaneFacts
  <2>2. OrRollBack(S, Fresh, spawned) = T
    BY <1>3 DEF OrRollBack
  <2> HIDE DEF T
  <2>3. Fresh \notin InSpaces(spaces) /\ InSpaces(spaces) # {}
    <3>1. spaces # <<>> /\ spaces \in GoodSpaces
      BY DEF IInv, GoodTree
    <3>2. QED
      BY <3>1, IInvFacts, SpacesFacts
  <2>4. InSpaces(T.spaces) = InSpaces(spaces)
    BY <2>1, <2>3
  <2>5. T.spaces # <<>>
    BY <2>3, <2>4, SMTT(30) DEF InSpaces
  <2>6. QED
    BY <1>3, <2>1, <2>2, <2>4, <2>5
<1>4. QED
  BY <1>1, <1>2, <1>3

-----------------------------------------------------------------------------
(* Terminals.                                                              *)
LEMMA AttachKeeps ==
  ASSUME IInv, NEW c \in Client, NEW f \in Folder \cup {NoFolder}, NEW spawned \in Spawns,
         Attach(c, f, spawned)
  PROVE  IInv'
<1>1. PICK S : S = AttachScope(Session, f, Fresh)
  OBVIOUS
<1>2. /\ UserDoes(c, S)
      /\ IF Len(S.spaces) > Len(spaces) THEN SpaceRoom /\ PaneOpened(spawned) ELSE NoPaneOpened
  BY <1>1 DEF Attach
<1>3. Session \in GoodSession /\ Session.spaces = spaces
  BY SessionGood
<1>4. \/ S \in GoodSession /\ S.spaces = spaces
      \/ /\ Longer(spaces, S.spaces)
         /\ Fresh \in Pane \ InSpaces(spaces) =>
              S \in GoodSession /\ InSpaces(S.spaces) = InSpaces(spaces) \cup {Fresh}
  BY <1>1, <1>3, AttachScopeFacts DEF Scope
<1>5. Len(spaces) \in Nat
  BY IInvFacts, SpacesFacts
<1>6. CASE S \in GoodSession /\ S.spaces = spaces
  <2>1. NoPaneOpened
    BY <1>2, <1>5, <1>6
  <2>2. QED
    BY <1>2, <1>6, <2>1, UserKeeps
<1>7. CASE ~(S \in GoodSession /\ S.spaces = spaces)
  <2>1. Longer(spaces, S.spaces)
    BY <1>4, <1>7
  <2>2. SpaceRoom /\ PaneOpened(spawned)
    BY <1>2, <1>5, <2>1 DEF Longer
  <2>3. Fresh \in Pane \ InSpaces(spaces)
    BY <2>2, IInvFacts DEF SpaceRoom
  <2>4. S \in GoodSession /\ InSpaces(S.spaces) = InSpaces(spaces) \cup {Fresh}
    BY <1>4, <1>7, <2>3
  <2>5. GoodTree' /\ views' \in ViewType /\ spaces' = S.spaces
    BY <1>2, <2>4, UserDoesKeeps
  <2>6. live' \subseteq InSpaces(S.spaces)
    BY <2>2, <2>4, OpenedLive
  <2>7. QED
    BY <2>5, <2>6, Keeps
<1>8. QED
  BY <1>6, <1>7

LEMMA DetachKeeps ==
  ASSUME IInv, NEW c \in Client, Detach(c)
  PROVE  IInv'
<1>1. spaces' = spaces /\ active' = active /\ live' = live /\ views' = [views EXCEPT ![c] = Detached]
  BY DEF Detach
<1>2. Detached \in [on : BOOLEAN, scope : Scope, space : Nat, frame : SUBSET Pane]
  BY DEF Detached, Scope
<1>3. views' \in ViewType
  BY <1>1, <1>2, IInvFacts DEF ViewType
<1>4. QED
  BY <1>1, <1>3 DEF IInv, GoodTree, Leaves

LEMMA RenderKeeps ==
  ASSUME IInv, NEW c \in Client, Render(c)
  PROVE  IInv'
<1>1. PICK S : S = Enter(c) /\ S \in GoodSession /\ S.spaces = spaces
  BY EnterGood
<1>2. PICK shown : shown = Frame(ActiveTab(S))
  OBVIOUS
<1>3. PICK n \in Nat : n = ActiveSpace(S).id
  BY <1>1, IdOfSpace
<1>4. shown \in SUBSET Pane
  <2>1. ActiveTab(S) \in GoodTab
    BY <1>1, SessionFacts
  <2>2. Shown(ActiveTab(S)) \subseteq In(ActiveTab(S)) /\ In(ActiveTab(S)) \subseteq Pane
    BY <2>1, TabFacts DEF Shown, Holds, In
  <2>3. QED
    BY <1>2, <2>2 DEF Frame
<1>5. PICK v : v = [views[c] EXCEPT !.space = n, !.frame = shown]
  OBVIOUS
<1>6. views' \in ViewType
  <2>1. views[c] \in [on : BOOLEAN, scope : Scope, space : Nat, frame : SUBSET Pane]
    BY IInvFacts DEF ViewType
  <2>2. v = [on |-> views[c].on, scope |-> views[c].scope, space |-> n, frame |-> shown]
    BY <1>5, <2>1
  <2>3. v \in [on : BOOLEAN, scope : Scope, space : Nat, frame : SUBSET Pane]
    BY <1>4, <2>1, <2>2
  <2>4. views' = [views EXCEPT ![c] = v]
    BY <1>1, <1>2, <1>3, <1>5 DEF Render
  <2>5. QED
    BY <2>3, <2>4, IInvFacts DEF ViewType
<1>7. /\ spaces' = spaces /\ active' = S.active /\ live' = live
  BY <1>1 DEF Render, NoPaneOpened
<1>8. S.active \in DOMAIN spaces
  BY <1>1, SessionFacts
<1>9. QED
  BY <1>6, <1>7, <1>8 DEF IInv, GoodTree, Leaves

(* A key that ends the server leaves the tree, and no process.             *)
LEMMA ServerEndsKeeps ==
  ASSUME IInv, ServerEnds
  PROVE  IInv'
<1>1. live' = {} /\ spaces' = spaces /\ active' = active /\ views' = views
  BY DEF ServerEnds
<1>2. QED
  BY <1>1 DEF IInv, GoodTree

(* The turn of a terminal that splits the focused pane of S.               *)
LEMMA SplitTurnKeeps ==
  ASSUME IInv, NEW c \in Client, NEW before \in BOOLEAN, NEW spawned \in Spawns,
         NEW S \in GoodSession, InSpaces(S.spaces) = InSpaces(spaces), Room, PaneOpened(spawned),
         UserDoes(c, OrRollBack(SplitFocused(S, Fresh, before), Fresh, spawned))
  PROVE  IInv'
<1>1. Fresh \in Pane \ InSpaces(S.spaces)
  BY IInvFacts
<1>2. PICK T : T = SplitFocused(S, Fresh, before)
  OBVIOUS
<1>3. T \in GoodSession /\ InSpaces(T.spaces) = InSpaces(spaces) \cup {Fresh}
  BY <1>1, <1>2, SplitFocusedFacts
<1>4. PICK U : U = OrRollBack(T, Fresh, spawned)
  OBVIOUS
<1>5. /\ U \in GoodSession
      /\ InSpaces(U.spaces) = InSpaces(spaces) \cup (IF spawned THEN {Fresh} ELSE {})
  BY <1>3, <1>4, RollBackFacts
<1>6. GoodTree' /\ views' \in ViewType /\ spaces' = U.spaces
  BY <1>2, <1>4, <1>5, UserDoesKeeps
<1>7. live' \subseteq InSpaces(U.spaces)
  BY <1>5, OpenedLive
<1>8. QED
  BY <1>6, <1>7, Keeps

LEMMA KeySplitKeeps ==
  ASSUME IInv, NEW c \in Client, NEW before \in BOOLEAN, NEW spawned \in Spawns,
         KeySplit(c, before, spawned)
  PROVE  IInv'
<1>1. CASE ~spawned
  BY <1>1, ServerEndsKeeps DEF KeySplit
<1>2. CASE spawned
  <2>1. PICK S : S = Enter(c) /\ S \in GoodSession /\ InSpaces(S.spaces) = InSpaces(spaces)
    BY EnterGood
  <2>2. spawned = TRUE
    BY <1>2, ViewAssumption
  <2>3. Room /\ PaneOpened(spawned) /\ UserDoes(c, SplitFocused(S, Fresh, before))
    BY <1>2, <2>1, <2>2 DEF KeySplit
  <2>4. OrRollBack(SplitFocused(S, Fresh, before), Fresh, spawned) = SplitFocused(S, Fresh, before)
    BY <1>2 DEF OrRollBack
  <2>5. QED
    BY <2>1, <2>3, <2>4, SplitTurnKeeps
<1>3. QED
  BY <1>1, <1>2

LEMMA MenuSplitKeeps ==
  ASSUME IInv, NEW c \in Client, NEW p \in Leaves, NEW before \in BOOLEAN,
         NEW spawned \in Spawns, MenuSplit(c, p, before, spawned)
  PROVE  IInv'
<1>1. PICK S : S = GoTo(Enter(c), p)
  OBVIOUS
<1>2. S \in GoodSession /\ InSpaces(S.spaces) = InSpaces(spaces)
  BY <1>1, EnterGood, GoToFacts
<1>3. /\ Room /\ PaneOpened(spawned)
      /\ UserDoes(c, OrRollBack(SplitFocused(S, Fresh, before), Fresh, spawned))
  BY <1>1 DEF MenuSplit
<1>4. QED
  BY <1>2, <1>3, SplitTurnKeeps

(* A neighbour on the screen means that the tab is not zoomed: a zoom      *)
(* would show the focused pane alone.                                      *)
LEMMA NeighbourFacts ==
  ASSUME IInv, NEW c \in Client, NEW q, Neighbour(c, q), q \in Shown(ActiveTab(Enter(c)))
  PROVE  /\ q \in In(ActiveTab(Enter(c))) /\ ActiveTab(Enter(c)).zoom = 0
<1>1. PICK S : S = Enter(c) /\ S \in GoodSession
  BY EnterGood
<1>2. PICK t : t = ActiveTab(S) /\ t \in GoodTab
  BY <1>1, SessionFacts
<1>3. q \in Shown(t) /\ q # t.focus
  BY <1>1, <1>2 DEF Neighbour, Focused
<1>4. t.zoom \in {0, t.focus} /\ t.focus \in In(t)
  BY <1>2, TabFacts
<1>5. t.zoom = 0
  BY <1>3, <1>4 DEF Shown, Holds, In
<1>6. q \in In(t)
  BY <1>3, <1>5 DEF Shown, In
<1>7. QED
  BY <1>1, <1>2, <1>5, <1>6

LEMMA OnTabKeeps ==
  ASSUME IInv, NEW c \in Client, NEW t \in GoodTab, In(t) = In(ActiveTab(Enter(c))),
         UserDoes(c, OnTab(Enter(c), t)), NoPaneOpened \/ UNCHANGED live
  PROVE  IInv'
<1>1. PICK S : S = Enter(c) /\ S \in GoodSession /\ S.spaces = spaces
  BY EnterGood
<1>2. In(t) = In(ActiveTab(S)) /\ In(ActiveTab(S)) \subseteq InSpaces(spaces)
  BY <1>1, SessionFacts
<1>3. In(t) \cap (InSpaces(S.spaces) \ In(ActiveTab(S))) = {}
  BY <1>2
<1>4. PICK T : T = OnTab(S, t)
  OBVIOUS
<1>5. T \in GoodSession /\ InSpaces(T.spaces) = (InSpaces(spaces) \ In(ActiveTab(S))) \cup In(t)
  BY <1>1, <1>3, <1>4, OnTabFacts
<1>6. InSpaces(T.spaces) = InSpaces(spaces)
  BY <1>2, <1>5
<1>7. UserDoes(c, T)
  BY <1>1, <1>4
<1>8. QED
  BY <1>5, <1>6, <1>7, UserKeeps

LEMMA FocusNeighborKeeps ==
  ASSUME IInv, NEW c \in Client, NEW q, FocusNeighbor(c, q), ~strayed'
  PROVE  IInv'
<1>1. PICK t : t = ActiveTab(Enter(c)) /\ t \in GoodTab
  BY EnterGood, SessionFacts
<1>2. q \in In(t) /\ t.zoom = 0
  BY <1>1, NeighbourFacts DEF FocusNeighbor, ActsOn
<1>3. PICK u : u = [t EXCEPT !.focus = q]
  OBVIOUS
<1>4. u = [panes |-> t.panes, focus |-> q, zoom |-> 0]
  BY <1>1, <1>2, <1>3 DEF GoodTab, TabType
<1>5. t.panes \in Distinct /\ In(t) = ToSet(t.panes) /\ q \in ToSet(t.panes) /\ 0 \in {0, q}
  BY <1>1, <1>2, TabFacts
<1>6. u \in GoodTab /\ In(u) = In(t)
  BY <1>4, <1>5, MakeTab
<1>7. UserDoes(c, OnTab(Enter(c), u)) /\ UNCHANGED live
  BY <1>1, <1>3 DEF FocusNeighbor, ActsOn
<1>8. QED
  BY <1>1, <1>6, <1>7, OnTabKeeps

LEMMA SwapWithNeighborKeeps ==
  ASSUME IInv, NEW c \in Client, NEW q, SwapWithNeighbor(c, q), ~strayed'
  PROVE  IInv'
<1>1. PICK t : t = ActiveTab(Enter(c)) /\ t \in GoodTab
  BY EnterGood, SessionFacts
<1>2. q \in In(t) /\ t.zoom \in {0, t.focus}
  BY <1>1, TabFacts DEF SwapWithNeighbor, ActsOn, In
<1>3. /\ t.panes \in Distinct /\ In(t) = ToSet(t.panes) /\ t.focus \in In(t) /\ In(t) \subseteq Pane
  BY <1>1, TabFacts
<1>4. PICK ps : ps = SwapIn(t.panes, t.focus, q)
  OBVIOUS
<1>5. ps \in Distinct /\ ToSet(ps) = Img(t.focus, q, In(t))
  <2>1. t.focus \in Pane /\ q \in Pane
    BY <1>2, <1>3
  <2>2. QED
    BY <1>3, <1>4, <2>1, SwapInFacts DEF Img
<1>6. ToSet(ps) = In(t)
  BY <1>2, <1>3, <1>5, ImgFacts
<1>7. PICK u : u = [t EXCEPT !.panes = ps]
  OBVIOUS
<1>8. u = [panes |-> ps, focus |-> t.focus, zoom |-> t.zoom]
  BY <1>1, <1>7 DEF GoodTab, TabType
<1>9. t.focus \in ToSet(ps) /\ t.zoom \in {0, t.focus}
  BY <1>2, <1>3, <1>6
<1>10. u \in GoodTab /\ In(u) = In(t)
  BY <1>5, <1>6, <1>8, <1>9, MakeTab
<1>11. UserDoes(c, OnTab(Enter(c), u)) /\ UNCHANGED live
  BY <1>1, <1>4, <1>7 DEF SwapWithNeighbor, Focused, ActsOn
<1>12. QED
  BY <1>1, <1>10, <1>11, OnTabKeeps

LEMMA ToggleZoomKeeps ==
  ASSUME IInv, NEW c \in Client, ToggleZoom(c)
  PROVE  IInv'
<1>1. PICK t : t = ActiveTab(Enter(c)) /\ t \in GoodTab
  BY EnterGood, SessionFacts
<1>2. t.panes \in Distinct /\ In(t) = ToSet(t.panes) /\ t.focus \in ToSet(t.panes)
  BY <1>1, TabFacts
<1>3. PICK z : z = IF t.zoom = t.focus THEN 0 ELSE t.focus
  OBVIOUS
<1>4. PICK u : u = [t EXCEPT !.zoom = z]
  OBVIOUS
<1>5. u = [panes |-> t.panes, focus |-> t.focus, zoom |-> z]
  BY <1>1, <1>4 DEF GoodTab, TabType
<1>6. u \in GoodTab /\ In(u) = In(t)
  BY <1>2, <1>3, <1>5, MakeTab
<1>7. UserDoes(c, OnTab(Enter(c), u)) /\ NoPaneOpened
  BY <1>1, <1>3, <1>4 DEF ToggleZoom, Focused
<1>8. QED
  BY <1>1, <1>6, <1>7, OnTabKeeps

LEMMA NewTabTurnKeeps ==
  ASSUME IInv, NEW c \in Client, NEW spawned \in Spawns, Room, PaneOpened(spawned),
         UserDoes(c, NewTabIn(Enter(c), Enter(c).active, Fresh, TRUE))
  PROVE  IInv'
<1>1. PICK S : S = Enter(c) /\ S \in GoodSession /\ S.spaces = spaces
  BY EnterGood
<1>2. PICK b \in BOOLEAN : b = TRUE
  OBVIOUS
<1>3. PICK T : T = NewTabIn(S, S.active, Fresh, b)
  OBVIOUS
<1>4. UserDoes(c, T)
  BY <1>1, <1>2, <1>3
<1>5. Fresh \in Pane \ InSpaces(S.spaces) /\ S.active \in DOMAIN S.spaces
  BY <1>1, IInvFacts, SessionFacts
<1>6. T \in GoodSession /\ InSpaces(T.spaces) = InSpaces(spaces) \cup {Fresh}
  BY <1>1, <1>3, <1>5, NewTabInFacts
<1>7. GoodTree' /\ views' \in ViewType /\ spaces' = T.spaces
  BY <1>4, <1>6, UserDoesKeeps
<1>8. live' \subseteq InSpaces(T.spaces)
  BY <1>6, OpenedLive
<1>9. QED
  BY <1>7, <1>8, Keeps

LEMMA UserNewTabKeeps ==
  ASSUME IInv, NEW c \in Client, NEW key \in BOOLEAN, NEW spawned \in Spawns,
         UserNewTab(c, key, spawned)
  PROVE  IInv'
BY ServerEndsKeeps, NewTabTurnKeeps DEF UserNewTab

(* The view put on tab j of space i.                                       *)
LEMMA TabPicked ==
  ASSUME NEW S \in GoodSession, NEW i \in DOMAIN S.spaces, NEW j \in DOMAIN S.spaces[i].tabs,
         NEW b \in DOMAIN S.spaces
  PROVE  LET T == PutSpace(S, i, [S.spaces[i] EXCEPT !.active = j], b, S.scope)
         IN  T \in GoodSession /\ InSpaces(T.spaces) = InSpaces(S.spaces)
<1> DEFINE w == S.spaces[i]
           v == [w EXCEPT !.active = j]
<1>1. /\ S.spaces \in GoodSpaces /\ S.scope \in Scope /\ w \in GoodSpace
      /\ PanesOf(w) \subseteq InSpaces(S.spaces)
  BY SessionFacts, SpacesFacts
<1>2. w \in SpaceType /\ w.tabs \in GoodTabs /\ PanesOf(w) = InTabs(w.tabs)
  BY <1>1, SpaceFacts
<1>3. j \in DOMAIN w.tabs
  OBVIOUS
<1>4. v = Tabbed(w, w.tabs, j)
  BY <1>2 DEF Tabbed, SpaceType
<1> HIDE DEF v, w
<1>5. v \in GoodSpace /\ v.id = w.id /\ PanesOf(v) = PanesOf(w)
  BY <1>2, <1>3, <1>4, TabsChanged
<1>6. v.id = S.spaces[i].id /\ PanesOf(v) \cap (InSpaces(S.spaces) \ PanesOf(S.spaces[i])) = {}
  BY <1>5 DEF w
<1>7. /\ PutSpace(S, i, v, b, S.scope) \in GoodSession
      /\ InSpaces(PutSpace(S, i, v, b, S.scope).spaces)
           = (InSpaces(S.spaces) \ PanesOf(S.spaces[i])) \cup PanesOf(v)
  BY <1>1, <1>5, <1>6, PutSpaceFacts
<1>8. (InSpaces(S.spaces) \ PanesOf(S.spaces[i])) \cup PanesOf(v) = InSpaces(S.spaces)
  BY <1>1, <1>5 DEF w
<1>9. QED
  BY <1>7, <1>8 DEF v, w

LEMMA GoToTabKeeps ==
  ASSUME IInv, NEW c \in Client, NEW j, GoToTab(c, j)
  PROVE  IInv'
<1>1. PICK S : S = Enter(c) /\ S \in GoodSession /\ S.spaces = spaces
  BY EnterGood
<1>2. S.active \in DOMAIN S.spaces /\ j \in DOMAIN S.spaces[S.active].tabs
  BY <1>1, SessionFacts DEF GoToTab, ActiveSpace
<1>3. PICK T : T = PutSpace(S, S.active, [S.spaces[S.active] EXCEPT !.active = j], S.active, S.scope)
  OBVIOUS
<1>4. T \in GoodSession /\ InSpaces(T.spaces) = InSpaces(spaces)
  BY <1>1, <1>2, <1>3, TabPicked
<1>5. [S EXCEPT !.spaces[S.active].active = j] = T
  <2>1. PICK i : i = S.active
    OBVIOUS
  <2>2. [S EXCEPT !.spaces[i].active = j] = [S EXCEPT !.spaces[i] = [S.spaces[i] EXCEPT !.active = j]]
    OBVIOUS
  <2>3. [S EXCEPT !.spaces[i] = [S.spaces[i] EXCEPT !.active = j]]
          = PutSpace(S, i, [S.spaces[i] EXCEPT !.active = j], S.active, S.scope)
    BY <1>1, SpaceSet
  <2>4. QED
    BY <1>3, <2>1, <2>2, <2>3
<1>6. UserDoes(c, T) /\ NoPaneOpened
  BY <1>1, <1>5 DEF GoToTab
<1>7. QED
  BY <1>4, <1>6, UserKeeps

LEMMA CycleWorkspaceKeeps ==
  ASSUME IInv, NEW c \in Client, CycleWorkspace(c)
  PROVE  IInv'
<1>1. PICK S : S = Enter(c) /\ S \in GoodSession /\ S.spaces = spaces
  BY EnterGood
<1> DEFINE n == Len(S.spaces)
           At(k) == ((S.active + k - 1) % n) + 1
           hits == {k \in 1 .. n : InScope(S, S.spaces[At(k)])}
           first == CHOOSE k \in hits : \A h \in hits : k <= h
           T == IF hits = {} THEN S ELSE [S EXCEPT !.active = At(first)]
<1>2. UserDoes(c, T) /\ NoPaneOpened
  BY <1>1 DEF CycleWorkspace
<1>3. n \in Nat /\ S.active \in 1 .. n /\ DOMAIN S.spaces = 1 .. n
  BY <1>1, SessionFacts, SpacesFacts
<1>4. T \in GoodSession /\ T.spaces = S.spaces
  <2>1. CASE hits = {}
    BY <1>1, <2>1
  <2>2. CASE hits # {}
    <3>1. hits \in SUBSET Nat
      OBVIOUS
    <3>2. \E k \in hits : \A h \in hits : k <= h
      <4> HIDE DEF hits
      <4>1. QED
        BY <2>2, <3>1, LeastExists
    <3>3. first \in hits
      <4> HIDE DEF hits
      <4>1. QED
        BY <3>2
    <3>4. first \in 1 .. n
      <4> HIDE DEF first
      <4>1. QED
        BY <3>3
    <3>5. PICK a : a = At(first)
      OBVIOUS
    <3>6. a \in 1 .. n
      <4> HIDE DEF first, n
      <4>1. QED
        BY <1>3, <3>4, <3>5
    <3>7. [S EXCEPT !.active = a] \in GoodSession /\ [S EXCEPT !.active = a].spaces = S.spaces
      <4>1. a \in DOMAIN S.spaces /\ S.scope \in Scope
        BY <1>1, <1>3, <3>6, SessionFacts
      <4>2. QED
        BY <1>1, <4>1, ViewMoved
    <3>8. T = [S EXCEPT !.active = a]
      BY <2>2, <3>5
    <3> HIDE DEF T
    <3>9. QED
      BY <3>7, <3>8
  <2>3. QED
    BY <2>1, <2>2
<1> HIDE DEF T
<1>5. QED
  BY <1>1, <1>2, <1>4, UserKeeps

LEMMA PickSpaceKeeps ==
  ASSUME IInv, NEW c \in Client, NEW i \in DOMAIN spaces, PickSpace(c, i)
  PROVE  IInv'
<1>1. PICK S : S = Enter(c) /\ S \in GoodSession /\ S.spaces = spaces
  BY EnterGood
<1>2. PICK T : T = [S EXCEPT !.active = i]
  OBVIOUS
<1>3. T \in GoodSession /\ T.spaces = spaces
  <2>1. i \in DOMAIN S.spaces /\ S.scope \in Scope
    BY <1>1, SessionFacts
  <2>2. QED
    BY <1>1, <1>2, <2>1, ViewMoved
<1>4. UserDoes(c, T) /\ NoPaneOpened
  BY <1>1, <1>2 DEF PickSpace
<1>5. QED
  BY <1>3, <1>4, UserKeeps

(* A turn that rearranges the tree, or goes to one of its panes, ends on a *)
(* space in scope.                                                         *)
Ends(c) ==
  \E T \in GoodSession :
    InSpaces(T.spaces) = InSpaces(spaces) /\ Seen(T) /\ UserDoes(c, T) /\ NoPaneOpened

LEMMA EndsKeeps ==
  ASSUME IInv, NEW c \in Client, Ends(c)
  PROVE  IInv'
BY UserKeeps DEF Ends

LEMMA FocusPaneEnds ==
  ASSUME IInv, NEW c \in Client, NEW p \in Leaves, FocusPane(c, p)
  PROVE  Ends(c)
<1>1. PICK S : S = Enter(c) /\ S \in GoodSession /\ S.spaces = spaces
  BY EnterGood
<1>2. PICK T : T = GoTo(S, p)
  OBVIOUS
<1>3. T \in GoodSession /\ InSpaces(T.spaces) = InSpaces(spaces) /\ Seen(T)
  BY <1>1, <1>2, IInvFacts, GoToFacts
<1>4. UserDoes(c, T) /\ NoPaneOpened
  BY <1>1, <1>2 DEF FocusPane
<1>5. QED
  BY <1>3, <1>4 DEF Ends

(* A space opened from any view of the session, by a user or by the API.   *)
LEMMA SpaceOpened ==
  ASSUME IInv, NEW S \in GoodSession, S.spaces = spaces, Room, NEW f \in Folder,
         NEW pt \in Ids(spaces) \cup {0}, NEW activate \in BOOLEAN, NEW spawned \in Spawns,
         PaneOpened(spawned)
  PROVE  LET T == OrRollBack(NewSpace(S, Fresh, f, pt, activate), Fresh, spawned)
         IN  T \in GoodSession /\ live' \subseteq InSpaces(T.spaces)
<1>1. PICK T : T = NewSpace(S, Fresh, f, pt, activate)
  OBVIOUS
<1>2. Fresh \in Pane \ InSpaces(S.spaces)
  BY IInvFacts
<1>3. pt \in Nat
  BY IInvFacts, SpacesFacts DEF Ids
<1>4. S \in AnySession /\ MayOpen(S, activate)
  BY SessionFacts DEF MayOpen
<1>5. T \in GoodSession /\ InSpaces(T.spaces) = InSpaces(spaces) \cup {Fresh}
  BY <1>1, <1>2, <1>3, <1>4, NewSpaceFacts
<1>6. PICK U : U = OrRollBack(T, Fresh, spawned)
  OBVIOUS
<1>7. /\ U \in GoodSession
      /\ InSpaces(U.spaces) = InSpaces(spaces) \cup (IF spawned THEN {Fresh} ELSE {})
  BY <1>5, <1>6, RollBackFacts
<1>8. live' \subseteq InSpaces(U.spaces)
  BY <1>7, OpenedLive
<1>9. QED
  BY <1>1, <1>6, <1>7, <1>8

LEMMA OpenSpaceKeeps ==
  ASSUME IInv, NEW c \in Client, NEW f \in Folder, NEW pt \in Ids(spaces) \cup {0},
         NEW spawned \in Spawns, OpenSpace(c, f, pt, spawned)
  PROVE  IInv'
<1>1. PICK S : S = Enter(c) /\ S \in GoodSession /\ S.spaces = spaces
  BY EnterGood
<1>2. PICK b \in BOOLEAN : b = TRUE
  OBVIOUS
<1>3. PICK T : T = OrRollBack(NewSpace(S, Fresh, f, pt, b), Fresh, spawned)
  OBVIOUS
<1>4. Room /\ PaneOpened(spawned) /\ UserDoes(c, T)
  BY <1>1, <1>2, <1>3 DEF OpenSpace, SpaceRoom
<1>5. T \in GoodSession /\ live' \subseteq InSpaces(T.spaces)
  BY <1>1, <1>3, <1>4, SpaceOpened
<1>6. GoodTree' /\ views' \in ViewType /\ spaces' = T.spaces
  BY <1>4, <1>5, UserDoesKeeps
<1>7. QED
  BY <1>5, <1>6, Keeps

LEMMA WorkspaceCreateKeeps ==
  ASSUME IInv, NEW f \in Folder, NEW pt \in Ids(spaces) \cup {0},
         NEW spawned \in Spawns, WorkspaceCreate(f, pt, spawned)
  PROVE  IInv'
<1>1. PICK S : S = Session /\ S \in GoodSession /\ S.spaces = spaces
  BY SessionGood
<1>2. PICK b \in BOOLEAN : b = FALSE
  OBVIOUS
<1>3. PICK T : T = OrRollBack(NewSpace(S, Fresh, f, pt, b), Fresh, spawned)
  OBVIOUS
<1>4. Room /\ PaneOpened(spawned) /\ ApiDoes(T)
  BY <1>1, <1>2, <1>3 DEF WorkspaceCreate, SpaceRoom
<1>5. T \in GoodSession /\ live' \subseteq InSpaces(T.spaces)
  BY <1>1, <1>3, <1>4, SpaceOpened
<1>6. GoodTree' /\ views' \in ViewType /\ spaces' = T.spaces
  BY <1>4, <1>5, ApiDoesKeeps
<1>7. QED
  BY <1>5, <1>6, Keeps

-----------------------------------------------------------------------------
(* Drops.                                                                  *)
LEMMA LiftedTabs ==
  ASSUME NEW S \in GoodSession, NEW p \in InSpaces(S.spaces),
         NEW i, i = SpaceWith(S.spaces, p), NEW j, j = TabWith(S.spaces[i], p),
         NEW k \in DOMAIN S.spaces[i].tabs
  PROVE  /\ Lifted(S, p).tabs[k] \in GoodTab
         /\ k # j => /\ In(Lifted(S, p).tabs[k]) = In(S.spaces[i].tabs[k])
                     /\ p \notin In(Lifted(S, p).tabs[k])
         /\ Len(S.spaces[i].tabs[j].panes) # 1 =>
              In(Lifted(S, p).tabs[j]) = In(S.spaces[i].tabs[j]) \ {p}
         /\ Len(S.spaces[i].tabs[j].panes) = 1 => In(S.spaces[i].tabs[j]) = {p}
<1> DEFINE w == S.spaces[i]
           v == Lifted(S, p)
<1>1. /\ w \in GoodSpace /\ j \in DOMAIN w.tabs /\ p \in In(w.tabs[j]) /\ w.tabs[j] \in GoodTab
      /\ p \in PanesOf(w)
  BY PlaceOf
<1>2. \A m \in DOMAIN w.tabs : p \in In(w.tabs[m]) => m = j
  BY <1>1, TabOf
<1>3. \A m \in DOMAIN w.tabs : w.tabs[m] \in GoodTab
  BY <1>1, SpaceFacts
<1>4. v = IF Len(w.tabs[j].panes) = 1 THEN w ELSE [w EXCEPT !.tabs[j] = Without(w.tabs[j], p)]
  BY DEF Lifted
<1>5. k \in DOMAIN w.tabs
  OBVIOUS
<1> HIDE DEF w, v
<1>6. CASE Len(w.tabs[j].panes) = 1
  <2>1. v = w
    BY <1>4, <1>6
  <2>2. In(w.tabs[j]) = {p}
    BY <1>1, <1>6, TabFacts
  <2>3. QED
    BY <1>2, <1>3, <1>5, <1>6, <2>1, <2>2 DEF w, v
<1>7. CASE Len(w.tabs[j].panes) # 1
  <2>1. PICK x : x = [w EXCEPT !.tabs[j] = Without(w.tabs[j], p)]
    OBVIOUS
  <2>2. /\ x \in GoodSpace /\ PanesOf(x) = PanesOf(w) \ {p}
        /\ x.tabs = [w.tabs EXCEPT ![j] = Without(w.tabs[j], p)]
        /\ In(Without(w.tabs[j], p)) = In(w.tabs[j]) \ {p}
    BY <1>1, <1>7, <2>1, LiftedFacts
  <2>3. v = x
    BY <1>4, <1>7, <2>1
  <2>4. DOMAIN x.tabs = DOMAIN w.tabs /\ x.tabs[j] = Without(w.tabs[j], p)
        /\ \A m \in DOMAIN w.tabs : m # j => x.tabs[m] = w.tabs[m]
    BY <1>1, <2>2
  <2>5. x.tabs[k] \in GoodTab
    BY <1>5, <2>2, <2>4, SpaceFacts
  <2>6. QED
    BY <1>2, <1>5, <1>7, <2>2, <2>3, <2>4, <2>5 DEF w, v
<1>8. QED
  BY <1>6, <1>7

LEMMA MovePaneToTabEnds ==
  ASSUME IInv, NEW c \in Client, NEW p \in Leaves, NEW k, MovePaneToTab(c, p, k)
  PROVE  Ends(c)
<1>1. PICK S : S = Enter(c) /\ S \in GoodSession /\ S.spaces = spaces
  BY EnterGood
<1>2. PICK i : i = SpaceWith(S.spaces, p)
  OBVIOUS
<1>3. PICK j : j = TabWith(S.spaces[i], p)
  OBVIOUS
<1>4. p \in InSpaces(S.spaces)
  BY <1>1, IInvFacts
<1>5. /\ i \in DOMAIN S.spaces /\ S.spaces[i] \in GoodSpace
      /\ j \in DOMAIN S.spaces[i].tabs /\ S.spaces[i].tabs[j] \in GoodTab
  BY <1>1, <1>2, <1>3, <1>4, PlaceOf
<1>6. DOMAIN S.spaces[i].tabs = 1 .. Len(S.spaces[i].tabs)
  BY <1>5, SpaceFacts
<1>7. /\ k \in 0 .. Len(S.spaces[i].tabs) /\ k # j /\ NoPaneOpened
      /\ k = 0 => Len(S.spaces[i].tabs[j].panes) > 1
  BY <1>1, <1>2, <1>3 DEF MovePaneToTab
<1>8. CASE k = 0
  <2>1. Len(S.spaces[i].tabs[j].panes) # 1
    <3>1. PICK n : n = Len(S.spaces[i].tabs[j].panes)
      OBVIOUS
    <3>2. n > 1
      BY <1>7, <1>8, <3>1
    <3>3. n # 1
      BY <3>2
    <3>4. QED
      BY <3>1, <3>3
  <2>2. PICK T : T = MovePane(S, p, [Lifted(S, p) EXCEPT !.tabs = Append(@, NewTab(p))])
    OBVIOUS
  <2>3. T \in GoodSession /\ InSpaces(T.spaces) = InSpaces(spaces) /\ Seen(T)
    BY <1>1, <1>2, <1>3, <1>4, <2>1, <2>2, MovePaneOutFacts
  <2>4. UserDoes(c, T)
    BY <1>1, <1>8, <2>2 DEF MovePaneToTab
  <2>5. QED
    BY <1>7, <2>3, <2>4 DEF Ends
<1>9. CASE k # 0
  <2>1. k \in DOMAIN S.spaces[i].tabs
    BY <1>5, <1>6, <1>7, <1>9
  <2>2. PICK v : v = Lifted(S, p)
    OBVIOUS
  <2>3. v.tabs[k] \in GoodTab /\ p \notin In(v.tabs[k])
    BY <1>1, <1>2, <1>3, <1>4, <1>7, <2>1, <2>2, LiftedTabs
  <2>4. PICK qs : qs = v.tabs[k].panes
    OBVIOUS
  <2>5. qs \in Distinct /\ ToSet(qs) = In(v.tabs[k])
    BY <2>3, <2>4, TabFacts
  <2>6. p \in Pane
    BY IInvFacts
  <2>7. <<p>> \in Distinct /\ ToSet(<<p>>) = {p}
    BY <2>6, NewTabFacts
  <2>8. PICK ps : ps = Append(qs, p)
    OBVIOUS
  <2>9. ps \in Distinct /\ ToSet(ps) = In(v.tabs[k]) \cup {p}
    <3>1. ToSet(qs) \cap ToSet(<<p>>) = {}
      BY <2>3, <2>5, <2>7
    <3>2. qs \o <<p>> \in Distinct /\ ToSet(qs \o <<p>>) = ToSet(qs) \cup ToSet(<<p>>)
      BY <2>5, <2>7, <3>1, DistinctConcat
    <3>3. ps = qs \o <<p>>
      <4>1. qs \in Seq(Pane)
        BY <2>5 DEF Distinct
      <4>2. QED
        BY <2>6, <2>8, <4>1
    <3>4. QED
      BY <2>5, <2>7, <3>2, <3>3
  <2>10. PICK T : T = MovePane(S, p, Dropped(v, k, ps))
    OBVIOUS
  <2>11. T \in GoodSession /\ InSpaces(T.spaces) = InSpaces(spaces) /\ Seen(T)
    <3>1. k # j
      BY <1>7
    <3>2. ToSet(ps) = In(Lifted(S, p).tabs[k]) \cup {p}
      BY <2>2, <2>9
    <3>3. /\ MovePane(S, p, Dropped(Lifted(S, p), k, ps)) \in GoodSession
          /\ InSpaces(MovePane(S, p, Dropped(Lifted(S, p), k, ps)).spaces) = InSpaces(S.spaces)
          /\ Seen(MovePane(S, p, Dropped(Lifted(S, p), k, ps)))
      BY <1>1, <1>2, <1>3, <1>4, <2>1, <2>9, <3>1, <3>2, MovePaneFacts
    <3>4. QED
      BY <1>1, <2>2, <2>10, <3>3
  <2>12. Dropped(v, k, ps) = [v EXCEPT !.tabs[k] = Joined(@, Append(@.panes, p))]
    BY <2>4, <2>8 DEF Dropped
  <2>13. UserDoes(c, T)
    BY <1>1, <1>9, <2>2, <2>10, <2>12 DEF MovePaneToTab
  <2>14. QED
    BY <1>7, <2>11, <2>13 DEF Ends
<1>10. QED
  BY <1>8, <1>9

LEMMA MovePaneOntoPaneEnds ==
  ASSUME IInv, NEW c \in Client, NEW p \in Leaves, NEW target \in Leaves, NEW before \in BOOLEAN,
         MovePaneOntoPane(c, p, target, before)
  PROVE  Ends(c)
<1>1. PICK S : S = Enter(c) /\ S \in GoodSession /\ S.spaces = spaces
  BY EnterGood
<1>2. PICK i : i = SpaceWith(S.spaces, p)
  OBVIOUS
<1>3. PICK j : j = TabWith(S.spaces[i], p)
  OBVIOUS
<1>4. PICK k : k = TabWith(S.spaces[i], target)
  OBVIOUS
<1>5. p \in InSpaces(S.spaces) /\ target \in InSpaces(S.spaces)
  BY <1>1, IInvFacts
<1>6. p # target /\ i = SpaceWith(S.spaces, target) /\ NoPaneOpened
  BY <1>1, <1>2 DEF MovePaneOntoPane
<1>7. k \in DOMAIN S.spaces[i].tabs /\ target \in In(S.spaces[i].tabs[k])
  BY <1>1, <1>4, <1>5, <1>6, PlaceOf
<1>8. j \in DOMAIN S.spaces[i].tabs /\ p \in In(S.spaces[i].tabs[j])
  BY <1>1, <1>2, <1>3, <1>5, PlaceOf
<1>9. PICK v : v = Lifted(S, p)
  OBVIOUS
<1>10. /\ v.tabs[k] \in GoodTab
       /\ k # j => /\ In(v.tabs[k]) = In(S.spaces[i].tabs[k])
                   /\ p \notin In(v.tabs[k])
       /\ Len(S.spaces[i].tabs[j].panes) # 1 =>
            In(v.tabs[j]) = In(S.spaces[i].tabs[j]) \ {p}
       /\ Len(S.spaces[i].tabs[j].panes) = 1 => In(S.spaces[i].tabs[j]) = {p}
  BY <1>1, <1>2, <1>3, <1>5, <1>7, <1>9, LiftedTabs
<1>11. Len(S.spaces[i].tabs[j].panes) = 1 => k # j
  BY <1>6, <1>7, <1>10
<1>12. target \in In(v.tabs[k]) /\ p \notin In(v.tabs[k])
  BY <1>6, <1>7, <1>10, <1>11
<1>13. PICK qs : qs = v.tabs[k].panes
  OBVIOUS
<1>14. qs \in Distinct /\ ToSet(qs) = In(v.tabs[k])
  BY <1>10, <1>13, TabFacts
<1>15. <<p>> \in Distinct /\ ToSet(<<p>>) = {p}
  BY IInvFacts, NewTabFacts
<1>16. PICK ps : ps = Beside(qs, target, before, <<p>>)
  OBVIOUS
<1>17. ps \in Distinct /\ ToSet(ps) = In(v.tabs[k]) \cup {p}
  <2>1. target \in ToSet(qs) /\ ToSet(qs) \cap ToSet(<<p>>) = {}
    BY <1>12, <1>14, <1>15
  <2>2. QED
    BY <1>14, <1>15, <1>16, <2>1, BesideFacts
<1>18. PICK T : T = MovePane(S, p, Dropped(v, k, ps))
  OBVIOUS
<1>19. T \in GoodSession /\ InSpaces(T.spaces) = InSpaces(spaces) /\ Seen(T)
  BY <1>1, <1>2, <1>3, <1>5, <1>7, <1>9, <1>11, <1>17, <1>18, MovePaneFacts
<1>20. Dropped(v, k, ps) = [v EXCEPT !.tabs[k] = Joined(@, Beside(@.panes, target, before, <<p>>))]
  BY <1>13, <1>16 DEF Dropped
<1>21. UserDoes(c, T)
  BY <1>1, <1>2, <1>4, <1>9, <1>18, <1>20 DEF MovePaneOntoPane
<1>22. QED
  BY <1>6, <1>19, <1>21 DEF Ends

LEMMA SwapTwoPanesKeeps ==
  ASSUME IInv, NEW c \in Client, NEW p \in Leaves, NEW q \in Leaves, SwapTwoPanes(c, p, q)
  PROVE  IInv'
<1>1. PICK S : S = Enter(c) /\ S \in GoodSession /\ S.spaces = spaces
  BY EnterGood
<1>2. PICK T : T = SwapPanes(S, p, q)
  OBVIOUS
<1>3. p \in InSpaces(S.spaces) /\ q \in InSpaces(S.spaces)
  BY <1>1, IInvFacts
<1>4. T \in GoodSession /\ InSpaces(T.spaces) = InSpaces(spaces)
  BY <1>1, <1>2, <1>3, SwapPanesFacts
<1>5. UserDoes(c, T) /\ NoPaneOpened
  BY <1>1, <1>2 DEF SwapTwoPanes
<1>6. QED
  BY <1>4, <1>5, UserKeeps

LEMMA MoveTabIntoPaneEnds ==
  ASSUME IInv, NEW c \in Client, NEW i \in DOMAIN spaces, NEW j \in DOMAIN spaces[i].tabs,
         NEW target \in PanesOf(spaces[i]), NEW before \in BOOLEAN,
         MoveTabIntoPane(c, i, j, target, before)
  PROVE  Ends(c)
<1>1. PICK S : S = Enter(c) /\ S \in GoodSession /\ S.spaces = spaces
  BY EnterGood
<1>2. PICK T : T = MoveTab(S, i, j, target, before)
  OBVIOUS
<1>3. /\ i \in DOMAIN S.spaces /\ j \in DOMAIN S.spaces[i].tabs /\ target \in PanesOf(S.spaces[i])
      /\ TabWith(S.spaces[i], target) # j
  BY <1>1 DEF MoveTabIntoPane
<1>4. T \in GoodSession /\ InSpaces(T.spaces) = InSpaces(spaces) /\ Seen(T)
  BY <1>1, <1>2, <1>3, MoveTabFacts
<1>5. UserDoes(c, T) /\ NoPaneOpened
  BY <1>1, <1>2 DEF MoveTabIntoPane
<1>6. QED
  BY <1>4, <1>5 DEF Ends

-----------------------------------------------------------------------------
(* The automation API and the server's own steps.                          *)
LEMMA OpenedByApi ==
  ASSUME IInv, NEW S \in GoodSession, InSpaces(S.spaces) = InSpaces(spaces) \cup {Fresh}, Room,
         NEW spawned \in Spawns, PaneOpened(spawned), ApiDoes(OrRollBack(S, Fresh, spawned))
  PROVE  IInv'
<1>1. PICK T : T = OrRollBack(S, Fresh, spawned)
  OBVIOUS
<1>2. /\ T \in GoodSession
      /\ InSpaces(T.spaces) = InSpaces(spaces) \cup (IF spawned THEN {Fresh} ELSE {})
  BY <1>1, RollBackFacts
<1>3. live' \subseteq InSpaces(T.spaces)
  BY <1>2, OpenedLive
<1>4. GoodTree' /\ views' \in ViewType /\ spaces' = T.spaces
  BY <1>1, <1>2, ApiDoesKeeps
<1>5. QED
  BY <1>3, <1>4, Keeps

LEMMA SplitKeeps ==
  ASSUME IInv, NEW target \in Leaves, NEW spawned \in Spawns, Split(target, spawned)
  PROVE  IInv'
<1>1. PICK S : S = Session /\ S \in GoodSession /\ S.spaces = spaces
  BY SessionGood
<1>2. PICK T : T = SplitPane(S, target, Fresh)
  OBVIOUS
<1>3. Room /\ PaneOpened(spawned) /\ ApiDoes(OrRollBack(T, Fresh, spawned))
  BY <1>1, <1>2 DEF Split
<1>4. target \in InSpaces(S.spaces) /\ Fresh \in Pane \ InSpaces(S.spaces)
  BY <1>1, <1>3, IInvFacts
<1>5. T \in GoodSession /\ InSpaces(T.spaces) = InSpaces(spaces) \cup {Fresh}
  BY <1>1, <1>2, <1>4, SplitPaneFacts
<1>6. QED
  BY <1>3, <1>5, OpenedByApi

LEMMA TabCreateKeeps ==
  ASSUME IInv, NEW i \in DOMAIN spaces, NEW spawned \in Spawns, TabCreate(i, spawned)
  PROVE  IInv'
<1>1. PICK S : S = Session /\ S \in GoodSession /\ S.spaces = spaces
  BY SessionGood
<1>2. PICK b \in BOOLEAN : b = FALSE
  OBVIOUS
<1>3. PICK T : T = NewTabIn(S, i, Fresh, b)
  OBVIOUS
<1>4. Room /\ PaneOpened(spawned) /\ ApiDoes(OrRollBack(T, Fresh, spawned))
  BY <1>1, <1>2, <1>3 DEF TabCreate
<1>5. i \in DOMAIN S.spaces /\ Fresh \in Pane \ InSpaces(S.spaces)
  BY <1>1, <1>4, IInvFacts
<1>6. T \in GoodSession /\ InSpaces(T.spaces) = InSpaces(spaces) \cup {Fresh}
  BY <1>1, <1>3, <1>5, NewTabInFacts
<1>7. QED
  BY <1>4, <1>6, OpenedByApi

LEMMA FocusKeeps ==
  ASSUME IInv, NEW p, Focus(p)
  PROVE  IInv'
<1>1. PICK S : S = Session /\ S \in GoodSession /\ S.spaces = spaces
  BY SessionGood
<1>2. PICK T : T = GoTo(S, p)
  OBVIOUS
<1>3. T \in GoodSession /\ InSpaces(T.spaces) = InSpaces(spaces)
  BY <1>1, <1>2, GoToFacts
<1>4. ApiDoes(T) /\ NoPaneOpened
  BY <1>1, <1>2 DEF Focus
<1>5. QED
  BY <1>3, <1>4, ApiKeeps

LEMMA WorkspaceFocusKeeps ==
  ASSUME IInv, NEW i \in DOMAIN spaces, WorkspaceFocus(i)
  PROVE  IInv'
<1>1. PICK S : S = Session /\ S \in GoodSession /\ S.spaces = spaces
  BY SessionGood
<1>2. PICK T : T = [S EXCEPT !.active = i]
  OBVIOUS
<1>3. T \in GoodSession /\ T.spaces = spaces
  <2>1. i \in DOMAIN S.spaces /\ S.scope \in Scope
    BY <1>1, SessionFacts
  <2>2. QED
    BY <1>1, <1>2, <2>1, ViewMoved
<1>4. ApiDoes(T) /\ NoPaneOpened
  BY <1>1, <1>2 DEF WorkspaceFocus
<1>5. QED
  BY <1>3, <1>4, ApiKeeps

LEMMA TabFocusKeeps ==
  ASSUME IInv, NEW i \in DOMAIN spaces, NEW j \in DOMAIN spaces[i].tabs, TabFocus(i, j)
  PROVE  IInv'
<1>1. PICK S : S = Session /\ S \in GoodSession /\ S.spaces = spaces
  BY SessionGood
<1>2. PICK w : w = [S.spaces[i] EXCEPT !.active = j]
  OBVIOUS
<1>3. PICK T : T = PutSpace(S, i, w, i, S.scope)
  OBVIOUS
<1>4. i \in DOMAIN S.spaces /\ j \in DOMAIN S.spaces[i].tabs
  BY <1>1
<1>5. T \in GoodSession /\ InSpaces(T.spaces) = InSpaces(spaces)
  BY <1>1, <1>2, <1>3, <1>4, TabPicked
<1>6. [S EXCEPT !.active = i, !.spaces[i].active = j] = T
  <2>1. S = [spaces |-> S.spaces, active |-> S.active, scope |-> S.scope]
    BY <1>1, SessionFacts
  <2>2. PICK v : v = [S EXCEPT !.active = i, !.spaces[i].active = j]
    OBVIOUS
  <2>3. v = [spaces |-> [S.spaces EXCEPT ![i] = w], active |-> i, scope |-> S.scope]
    BY <1>2, <2>1, <2>2
  <2>4. QED
    BY <1>3, <2>2, <2>3 DEF PutSpace, Sess
<1>7. ApiDoes(T) /\ NoPaneOpened
  BY <1>1, <1>6 DEF TabFocus
<1>8. QED
  BY <1>5, <1>7, ApiKeeps

LEMMA PaneExitKeeps ==
  ASSUME IInv, NEW p \in live, NEW f \in Folder, NEW spawned \in Spawns, PaneExit(p, f, spawned)
  PROVE  IInv'
<1>1. PICK S : S = ClosePane(Session, p)
  OBVIOUS
<1>2. /\ S \in AnySession /\ InSpaces(S.spaces) = Leaves \ {p}
      /\ S.spaces # <<>> => S \in GoodSession
  BY <1>1, SessionGood, IInvFacts, ClosePaneFacts
<1>3. CASE S.spaces # <<>>
  <2>1. BackgroundDoes(S) /\ live' = live \ {p}
    BY <1>1, <1>3 DEF PaneExit
  <2>2. GoodTree' /\ views' \in ViewType /\ spaces' = S.spaces
    BY <1>2, <1>3, <2>1, BackgroundDoesKeeps
  <2>3. live' \subseteq InSpaces(spaces')
    BY <1>2, <2>1, <2>2, IInvFacts
  <2>4. QED
    BY <2>2, <2>3, Keeps
<1>4. CASE S.spaces = <<>>
  <2>1. PICK b \in BOOLEAN : b = TRUE
    OBVIOUS
  <2>2. PICK pt \in Nat : pt = 0
    OBVIOUS
  <2>3. PICK T : T = NewSpace(S, Fresh, f, pt, b)
    OBVIOUS
  <2>4. Room /\ BackgroundDoes(T) /\ live' = (live \ {p}) \cup (IF spawned THEN {Fresh} ELSE {})
    BY <1>1, <1>4, <2>1, <2>2, <2>3 DEF PaneExit
  <2>5. InSpaces(S.spaces) = {}
    BY <1>4 DEF InSpaces
  <2>6. Fresh \in Pane \ InSpaces(S.spaces) /\ MayOpen(S, b)
    BY <1>4, <2>1, <2>4, <2>5, IInvFacts DEF MayOpen
  <2>7. T \in GoodSession /\ InSpaces(T.spaces) = {Fresh}
    <3>1. PICK q \in Pane \ InSpaces(S.spaces) : q = Fresh
      BY <2>6
    <3>2. T = NewSpace(S, q, f, pt, b)
      BY <2>3, <3>1
    <3>3. S \in AnySession /\ MayOpen(S, b)
      BY <1>2, <2>6
    <3>4. /\ NewSpace(S, q, f, pt, b) \in GoodSession
          /\ InSpaces(NewSpace(S, q, f, pt, b).spaces) = InSpaces(S.spaces) \cup {q}
      BY <3>3, NewSpaceFacts
    <3>5. T \in GoodSession /\ InSpaces(T.spaces) = InSpaces(S.spaces) \cup {q}
      BY <3>2, <3>4
    <3>6. QED
      BY <2>5, <3>1, <3>5
  <2>8. GoodTree' /\ views' \in ViewType /\ spaces' = T.spaces
    BY <2>4, <2>7, BackgroundDoesKeeps
  <2>9. live \ {p} = {}
    BY <1>2, <2>5, IInvFacts
  <2>10. live' \subseteq InSpaces(spaces')
    BY <2>4, <2>7, <2>8, <2>9
  <2>11. QED
    BY <2>8, <2>10, Keeps
<1>5. QED
  BY <1>3, <1>4

LEMMA SpaceWandersKeeps ==
  ASSUME IInv, NEW i \in DOMAIN spaces, NEW f \in Folder, SpaceWanders(i, f)
  PROVE  IInv'
<1>1. PICK S : S = Session /\ S \in GoodSession /\ S.spaces = spaces
  BY SessionGood
<1>2. PICK v : v = S.spaces[i]
  OBVIOUS
<1>3. PICK w : w = [v EXCEPT !.cwd = f]
  OBVIOUS
<1>4. /\ i \in DOMAIN S.spaces /\ v \in GoodSpace /\ PanesOf(v) \subseteq InSpaces(S.spaces)
      /\ S.active \in DOMAIN S.spaces /\ S.scope \in Scope
  BY <1>1, <1>2, SessionFacts, SpacesFacts
<1>5. w \in GoodSpace /\ w.id = v.id /\ PanesOf(w) = PanesOf(v)
  <2>1. PICK n \in Nat : n = 0
    OBVIOUS
  <2>2. QED
    BY <1>3, <1>4, <2>1, SpaceMoved
<1>6. PICK T : T = PutSpace(S, i, w, S.active, S.scope)
  OBVIOUS
<1>7. T \in GoodSession /\ InSpaces(T.spaces) = InSpaces(spaces)
  <2>1. /\ w.id = S.spaces[i].id
        /\ PanesOf(w) \cap (InSpaces(S.spaces) \ PanesOf(S.spaces[i])) = {}
        /\ (InSpaces(S.spaces) \ PanesOf(S.spaces[i])) \cup PanesOf(w) = InSpaces(S.spaces)
    BY <1>2, <1>4, <1>5
  <2>2. /\ T \in GoodSession
        /\ InSpaces(T.spaces) = (InSpaces(S.spaces) \ PanesOf(S.spaces[i])) \cup PanesOf(w)
    BY <1>1, <1>4, <1>5, <1>6, <2>1, PutSpaceFacts
  <2>3. QED
    BY <1>1, <2>1, <2>2
<1>8. [S EXCEPT !.spaces[i].cwd = f] = T
  <2>1. [S EXCEPT !.spaces[i].cwd = f] = [S EXCEPT !.spaces[i] = [S.spaces[i] EXCEPT !.cwd = f]]
    OBVIOUS
  <2>2. [S EXCEPT !.spaces[i] = w] = PutSpace(S, i, w, S.active, S.scope)
    BY <1>1, SpaceSet
  <2>3. QED
    BY <1>2, <1>3, <1>6, <2>1, <2>2
<1>9. BackgroundDoes(T) /\ NoPaneOpened
  BY <1>1, <1>8 DEF SpaceWanders
<1>10. GoodTree' /\ views' \in ViewType /\ spaces' = T.spaces
  BY <1>7, <1>9, BackgroundDoesKeeps
<1>11. live' \subseteq InSpaces(spaces')
  BY <1>7, <1>9, <1>10, IInvFacts DEF NoPaneOpened
<1>12. QED
  BY <1>10, <1>11, Keeps

-----------------------------------------------------------------------------
(* The invariant, over the whole next-state relation.                      *)
LEMMA InitIInv ==
  ASSUME Init
  PROVE  IInv
<1>1. PICK f \in Folder :
        spaces = <<[id |-> 1, cwd |-> f, parent |-> 0, tabs |-> <<NewTab(1)>>, active |-> 1]>>
  BY DEF Init
<1>2. PICK p \in Pane : p = 1
  BY ViewAssumption DEF Pane
<1>3. NewTab(p) \in GoodTab /\ In(NewTab(p)) = {p}
  BY NewTabFacts
<1>4. PICK t : t = NewTab(p)
  OBVIOUS
<1>5. PICK ts : ts = <<t>>
  OBVIOUS
<1>6. /\ ts \in GoodTabs /\ DOMAIN ts = {1} /\ InTabs(ts) = {p}
  BY <1>3, <1>4, <1>5 DEF GoodTabs, InTabs
<1>7. PICK w : w = [id |-> 1, cwd |-> f, parent |-> 0, tabs |-> ts, active |-> 1]
  OBVIOUS
<1>8. w \in GoodSpace /\ PanesOf(w) = {p} /\ w.id = 1
  <2>1. /\ 1 \in Nat \ {0} /\ 0 \in Nat /\ 1 \in DOMAIN ts
    BY <1>6
  <2>2. PICK n \in Nat \ {0} : n = 1
    OBVIOUS
  <2>3. PICK z \in Nat : z = 0
    OBVIOUS
  <2>4. n \in DOMAIN ts
    BY <2>1, <2>2
  <2>5. w = [id |-> n, cwd |-> f, parent |-> z, tabs |-> ts, active |-> n]
    BY <1>7, <2>2, <2>3
  <2>6. w \in GoodSpace /\ PanesOf(w) = InTabs(ts)
    BY <1>6, <2>4, <2>5, MakeSpace
  <2>7. QED
    BY <1>6, <1>7, <2>6
<1>9. spaces = <<w>>
  BY <1>1, <1>2, <1>4, <1>5, <1>7
<1>10. /\ spaces \in GoodSpaces /\ spaces # <<>> /\ DOMAIN spaces = {1} /\ InSpaces(spaces) = {p}
  BY <1>8, <1>9 DEF GoodSpaces, InSpaces
<1>11. active = 1 /\ live = {1} /\ views = [c \in Client |-> Detached]
  BY DEF Init
<1>12. Leaves = {p}
  BY <1>10 DEF Leaves, InSpaces
<1>13. views \in ViewType
  BY <1>11 DEF ViewType, Detached, Scope
<1>14. live \subseteq Leaves /\ live \in SUBSET Pane
  BY <1>2, <1>11, <1>12
<1>15. QED
  BY <1>10, <1>11, <1>13, <1>14 DEF IInv, GoodTree

LEMMA StepIInv ==
  ASSUME IInv, Step, ~strayed'
  PROVE  IInv'
<1>1. ASSUME NEW c \in Client, NEW f \in Folder \cup {NoFolder}, NEW spawned \in Spawns,
             Attach(c, f, spawned)
      PROVE  IInv'
  BY <1>1, AttachKeeps
<1>2. ASSUME NEW c \in Attached, Detach(c)
      PROVE  IInv'
  BY <1>2, DetachKeeps DEF Attached
<1>3. ASSUME NEW c \in Attached, Render(c)
      PROVE  IInv'
  BY <1>3, RenderKeeps DEF Attached
<1>4. ASSUME NEW c \in Attached, NEW before \in BOOLEAN, NEW spawned \in Spawns,
             KeySplit(c, before, spawned)
      PROVE  IInv'
  BY <1>4, KeySplitKeeps DEF Attached
<1>26. ASSUME NEW c \in Attached, NEW p \in Leaves, NEW before \in BOOLEAN,
              NEW spawned \in Spawns, MenuSplit(c, p, before, spawned)
       PROVE  IInv'
  BY <1>26, MenuSplitKeeps DEF Attached
<1>5. ASSUME NEW c \in Attached, NEW q \in Pane, FocusNeighbor(c, q)
      PROVE  IInv'
  BY <1>5, FocusNeighborKeeps DEF Attached
<1>6. ASSUME NEW c \in Attached, NEW q \in Pane, SwapWithNeighbor(c, q)
      PROVE  IInv'
  BY <1>6, SwapWithNeighborKeeps DEF Attached
<1>7. ASSUME NEW c \in Attached, ToggleZoom(c)
      PROVE  IInv'
  BY <1>7, ToggleZoomKeeps DEF Attached
<1>8. ASSUME NEW c \in Attached, NEW key \in BOOLEAN, NEW spawned \in Spawns,
             UserNewTab(c, key, spawned)
      PROVE  IInv'
  BY <1>8, UserNewTabKeeps DEF Attached
<1>9. ASSUME NEW c \in Attached, NEW j \in Pane, GoToTab(c, j)
      PROVE  IInv'
  BY <1>9, GoToTabKeeps DEF Attached
<1>10. ASSUME NEW c \in Attached, CycleWorkspace(c)
       PROVE  IInv'
  BY <1>10, CycleWorkspaceKeeps DEF Attached
<1>11. ASSUME NEW c \in Attached, NEW i \in DOMAIN spaces, PickSpace(c, i)
       PROVE  IInv'
  BY <1>11, PickSpaceKeeps DEF Attached
<1>12. ASSUME NEW c \in Attached, NEW p \in Leaves, FocusPane(c, p)
       PROVE  IInv'
  BY <1>12, FocusPaneEnds, EndsKeeps DEF Attached
<1>13. ASSUME NEW c \in Attached, NEW f \in Folder, NEW parent \in Ids(spaces) \cup {0},
              NEW spawned \in Spawns, OpenSpace(c, f, parent, spawned)
       PROVE  IInv'
  BY <1>13, OpenSpaceKeeps DEF Attached
<1>14. ASSUME NEW c \in Attached, NEW p \in Leaves, NEW j \in Pane \cup {0}, MovePaneToTab(c, p, j)
       PROVE  IInv'
  BY <1>14, MovePaneToTabEnds, EndsKeeps DEF Attached
<1>15. ASSUME NEW c \in Attached, NEW p \in Leaves, NEW q \in Leaves, NEW before \in BOOLEAN,
              MovePaneOntoPane(c, p, q, before)
       PROVE  IInv'
  BY <1>15, MovePaneOntoPaneEnds, EndsKeeps DEF Attached
<1>16. ASSUME NEW c \in Attached, NEW p \in Leaves, NEW q \in Leaves, SwapTwoPanes(c, p, q)
       PROVE  IInv'
  BY <1>16, SwapTwoPanesKeeps DEF Attached
<1>17. ASSUME NEW c \in Attached, NEW i \in DOMAIN spaces, NEW before \in BOOLEAN,
              NEW j \in DOMAIN spaces[i].tabs, NEW p \in PanesOf(spaces[i]),
              MoveTabIntoPane(c, i, j, p, before)
       PROVE  IInv'
  BY <1>17, MoveTabIntoPaneEnds, EndsKeeps DEF Attached
<1>18. ASSUME NEW p \in Leaves, NEW spawned \in Spawns, Split(p, spawned)
       PROVE  IInv'
  BY <1>18, SplitKeeps
<1>19. ASSUME NEW i \in DOMAIN spaces, NEW spawned \in Spawns, TabCreate(i, spawned)
       PROVE  IInv'
  BY <1>19, TabCreateKeeps
<1>20. ASSUME NEW f \in Folder, NEW parent \in Ids(spaces) \cup {0}, NEW spawned \in Spawns,
              WorkspaceCreate(f, parent, spawned)
       PROVE  IInv'
  BY <1>20, WorkspaceCreateKeeps
<1>21. ASSUME NEW p \in Leaves, Focus(p)
       PROVE  IInv'
  BY <1>21, FocusKeeps
<1>22. ASSUME NEW i \in DOMAIN spaces, WorkspaceFocus(i)
       PROVE  IInv'
  BY <1>22, WorkspaceFocusKeeps
<1>23. ASSUME NEW i \in DOMAIN spaces, NEW j \in DOMAIN spaces[i].tabs, TabFocus(i, j)
       PROVE  IInv'
  BY <1>23, TabFocusKeeps
<1>24. ASSUME NEW p \in live, NEW f \in Folder, NEW spawned \in Spawns, PaneExit(p, f, spawned)
       PROVE  IInv'
  BY <1>24, PaneExitKeeps
<1>25. ASSUME NEW i \in DOMAIN spaces, NEW f \in Folder, SpaceWanders(i, f)
       PROVE  IInv'
  BY <1>25, SpaceWandersKeeps
<1>27. QED
  BY <1>1, <1>2, <1>3, <1>4, <1>5, <1>6, <1>7, <1>8, <1>9, <1>10, <1>11, <1>12, <1>13, <1>14,
     <1>15, <1>16, <1>17, <1>18, <1>19, <1>20, <1>21, <1>22, <1>23, <1>24, <1>25, <1>26, Zenon
     DEF Step

(* A session that has strayed stays so, and only a focus or swap key makes *)
(* it stray.                                                               *)
Flags == up \in BOOLEAN /\ strayed \in BOOLEAN
Inv == Flags /\ (strayed \/ IInv)

LEMMA StepFlags ==
  ASSUME Step
  PROVE  \/ UNCHANGED <<up, strayed>>
         \/ ServerEnds
         \/ \E q, panes : ActsOn(q, panes)
<1>1. ASSUME NEW c \in Client, NEW f \in Folder \cup {NoFolder}, NEW spawned \in Spawns,
             Attach(c, f, spawned)
      PROVE  UNCHANGED <<up, strayed>>
  BY <1>1 DEF Attach, PaneOpened, NoPaneOpened
<1>2. ASSUME NEW c \in Attached, Detach(c) \/ Render(c) \/ ToggleZoom(c) \/ CycleWorkspace(c)
      PROVE  UNCHANGED <<up, strayed>>
  BY <1>2 DEF Detach, Render, ToggleZoom, CycleWorkspace, NoPaneOpened
<1>3. ASSUME NEW c \in Attached, NEW before \in BOOLEAN, NEW spawned \in Spawns,
             KeySplit(c, before, spawned)
      PROVE  UNCHANGED <<up, strayed>> \/ ServerEnds
  BY <1>3 DEF KeySplit, PaneOpened
<1>4. ASSUME NEW c \in Attached, NEW p \in Leaves, NEW before \in BOOLEAN,
             NEW spawned \in Spawns, MenuSplit(c, p, before, spawned)
      PROVE  UNCHANGED <<up, strayed>>
  BY <1>4 DEF MenuSplit, PaneOpened
<1>5. ASSUME NEW c \in Attached, NEW q \in Pane, FocusNeighbor(c, q) \/ SwapWithNeighbor(c, q)
      PROVE  \E r, panes : ActsOn(r, panes)
  BY <1>5 DEF FocusNeighbor, SwapWithNeighbor
<1>6. ASSUME NEW c \in Attached, NEW key \in BOOLEAN, NEW spawned \in Spawns,
             UserNewTab(c, key, spawned)
      PROVE  UNCHANGED <<up, strayed>> \/ ServerEnds
  BY <1>6 DEF UserNewTab, PaneOpened
<1>7. ASSUME NEW c \in Attached, NEW j \in Pane, GoToTab(c, j)
      PROVE  UNCHANGED <<up, strayed>>
  BY <1>7 DEF GoToTab, NoPaneOpened
<1>8. ASSUME NEW c \in Attached, NEW i \in DOMAIN spaces, PickSpace(c, i)
      PROVE  UNCHANGED <<up, strayed>>
  BY <1>8 DEF PickSpace, NoPaneOpened
<1>9. ASSUME NEW c \in Attached, NEW p \in Leaves, FocusPane(c, p)
      PROVE  UNCHANGED <<up, strayed>>
  BY <1>9 DEF FocusPane, NoPaneOpened
<1>10. ASSUME NEW c \in Attached, NEW f \in Folder, NEW parent \in Ids(spaces) \cup {0},
              NEW spawned \in Spawns, OpenSpace(c, f, parent, spawned)
       PROVE  UNCHANGED <<up, strayed>>
  BY <1>10 DEF OpenSpace, PaneOpened
<1>11. ASSUME NEW c \in Attached, NEW p \in Leaves, NEW j \in Pane \cup {0}, MovePaneToTab(c, p, j)
       PROVE  UNCHANGED <<up, strayed>>
  BY <1>11 DEF MovePaneToTab, NoPaneOpened
<1>12. ASSUME NEW c \in Attached, NEW p \in Leaves, NEW q \in Leaves, NEW before \in BOOLEAN,
              MovePaneOntoPane(c, p, q, before)
       PROVE  UNCHANGED <<up, strayed>>
  BY <1>12 DEF MovePaneOntoPane, NoPaneOpened
<1>13. ASSUME NEW c \in Attached, NEW p \in Leaves, NEW q \in Leaves, SwapTwoPanes(c, p, q)
       PROVE  UNCHANGED <<up, strayed>>
  BY <1>13 DEF SwapTwoPanes, NoPaneOpened
<1>14. ASSUME NEW c \in Attached, NEW i \in DOMAIN spaces, NEW before \in BOOLEAN,
              NEW j \in DOMAIN spaces[i].tabs, NEW p \in PanesOf(spaces[i]),
              MoveTabIntoPane(c, i, j, p, before)
       PROVE  UNCHANGED <<up, strayed>>
  BY <1>14 DEF MoveTabIntoPane, NoPaneOpened
<1>15. ASSUME NEW p \in Leaves, NEW spawned \in Spawns, Split(p, spawned)
       PROVE  UNCHANGED <<up, strayed>>
  BY <1>15 DEF Split, PaneOpened
<1>16. ASSUME NEW i \in DOMAIN spaces, NEW spawned \in Spawns, TabCreate(i, spawned)
       PROVE  UNCHANGED <<up, strayed>>
  BY <1>16 DEF TabCreate, PaneOpened
<1>17. ASSUME NEW f \in Folder, NEW parent \in Ids(spaces) \cup {0}, NEW spawned \in Spawns,
              WorkspaceCreate(f, parent, spawned)
       PROVE  UNCHANGED <<up, strayed>>
  BY <1>17 DEF WorkspaceCreate, PaneOpened
<1>18. ASSUME NEW p \in Leaves, Focus(p)
       PROVE  UNCHANGED <<up, strayed>>
  BY <1>18 DEF Focus, NoPaneOpened
<1>19. ASSUME NEW i \in DOMAIN spaces, WorkspaceFocus(i)
       PROVE  UNCHANGED <<up, strayed>>
  BY <1>19 DEF WorkspaceFocus, NoPaneOpened
<1>20. ASSUME NEW i \in DOMAIN spaces, NEW j \in DOMAIN spaces[i].tabs, TabFocus(i, j)
       PROVE  UNCHANGED <<up, strayed>>
  BY <1>20 DEF TabFocus, NoPaneOpened
<1>21. ASSUME NEW p \in live, NEW f \in Folder, NEW spawned \in Spawns, PaneExit(p, f, spawned)
       PROVE  UNCHANGED <<up, strayed>>
  BY <1>21 DEF PaneExit
<1>22. ASSUME NEW i \in DOMAIN spaces, NEW f \in Folder, SpaceWanders(i, f)
       PROVE  UNCHANGED <<up, strayed>>
  BY <1>22 DEF SpaceWanders, NoPaneOpened
<1>23. QED
  BY <1>1, <1>2, <1>3, <1>4, <1>5, <1>6, <1>7, <1>8, <1>9, <1>10, <1>11, <1>12, <1>13, <1>14,
     <1>15, <1>16, <1>17, <1>18, <1>19, <1>20, <1>21, <1>22, Zenon DEF Step

LEMMA NextInv ==
  ASSUME Inv, [Next]_vars
  PROVE  Inv'
<1>1. CASE up /\ Step
  <2>1. Flags' /\ (strayed => strayed')
    BY <1>1, StepFlags DEF Flags, Inv, ServerEnds, ActsOn
  <2>2. IInv /\ ~strayed' => IInv'
    BY <1>1, StepIInv
  <2>3. QED
    BY <2>1, <2>2 DEF Inv
<1>2. CASE UNCHANGED vars
  BY <1>2 DEF vars, Inv, Flags, IInv, GoodTree, Leaves, PanesOf
<1>3. QED
  BY <1>1, <1>2 DEF Next, Ended

LEMMA AlwaysInv ==
  Spec => []Inv
<1>1. Init => Inv
  BY InitIInv DEF Init, Inv, Flags
<1>2. Inv /\ [Next]_vars => Inv'
  BY NextInv
<1>3. QED
  BY <1>1, <1>2, PTL DEF Spec

-----------------------------------------------------------------------------
LEMMA IInvTree ==
  ASSUME Flags, IInv
  PROVE  Tree /\ FocusVisible
<1>1. /\ spaces \in GoodSpaces /\ spaces # <<>> /\ active \in DOMAIN spaces
      /\ live \in SUBSET Pane /\ views \in ViewType
  BY DEF IInv, GoodTree
<1>2. /\ spaces \in Seq(GoodSpace) /\ DOMAIN spaces = 1 .. Len(spaces)
      /\ \A i \in DOMAIN spaces : spaces[i] \in GoodSpace
  BY <1>1, SpacesFacts
<1>3. TypeOK
  <2>1. GoodSpace \subseteq SpaceType
    BY DEF GoodSpace
  <2>2. spaces \in Seq(SpaceType) \ {<<>>}
    BY <1>1, <1>2, <2>1
  <2>3. active \in Nat
    BY <1>1, <1>2
  <2>4. QED
    BY <1>1, <2>2, <2>3 DEF TypeOK, ViewType, Scope, Flags
<1>4. ASSUME NEW i \in DOMAIN spaces
      PROVE  spaces[i].active \in DOMAIN spaces[i].tabs
  BY <1>2, SpaceFacts
<1>5. ASSUME NEW i \in DOMAIN spaces, NEW j \in DOMAIN spaces[i].tabs
      PROVE  spaces[i].tabs[j] \in GoodTab
  BY <1>2, SpaceFacts
<1>6. ASSUME NEW i \in DOMAIN spaces, NEW j \in DOMAIN spaces[i].tabs,
             NEW m \in DOMAIN spaces, NEW n \in DOMAIN spaces[m].tabs,
             ToSet(spaces[i].tabs[j].panes) \cap ToSet(spaces[m].tabs[n].panes) # {}
      PROVE  <<m, n>> = <<i, j>>
  <2>1. /\ ToSet(spaces[i].tabs[j].panes) \subseteq PanesOf(spaces[i])
        /\ ToSet(spaces[m].tabs[n].panes) \subseteq PanesOf(spaces[m])
    BY DEF PanesOf
  <2>2. m = i
    BY <1>1, <1>6, <2>1 DEF GoodSpaces
  <2>3. spaces[i].tabs \in GoodTabs
    BY <1>2, SpaceFacts
  <2>4. n = j
    BY <1>6, <2>2, <2>3 DEF GoodTabs, In
  <2>5. QED
    BY <2>2, <2>4
<1>7. ASSUME NEW i \in DOMAIN spaces, NEW j \in DOMAIN spaces[i].tabs
      PROVE  LET t == spaces[i].tabs[j]
             IN  /\ t.panes # <<>> /\ \A k, l \in DOMAIN t.panes : t.panes[k] = t.panes[l] => k = l
                 /\ Holds(t, t.focus) /\ (t.zoom # 0 => Holds(t, t.zoom))
                 /\ t.focus \in Shown(t)
  <2>1. PICK t \in GoodTab : t = spaces[i].tabs[j]
    BY <1>5
  <2>2. t.panes # <<>> /\ t.focus \in ToSet(t.panes) /\ t.zoom \in {0, t.focus}
    BY TabFacts
  <2>3. \A k, l \in DOMAIN t.panes : t.panes[k] = t.panes[l] => k = l
    BY DEF GoodTab
  <2>4. t.focus \in Shown(t)
    BY <2>2 DEF Shown, Holds
  <2>5. QED
    BY <2>1, <2>2, <2>3, <2>4 DEF Holds
<1>8. FocusVisible
  BY <1>7 DEF FocusVisible
<1>9. Tree
  <2>1. \A i \in DOMAIN spaces : \A j \in DOMAIN spaces[i].tabs :
          LET t == spaces[i].tabs[j]
          IN  /\ t.panes # <<>> /\ \A k, l \in DOMAIN t.panes : t.panes[k] = t.panes[l] => k = l
              /\ Holds(t, t.focus) /\ (t.zoom # 0 => Holds(t, t.zoom))
    BY <1>7
  <2>2. \A i \in DOMAIN spaces : \A j \in DOMAIN spaces[i].tabs :
          \A m \in DOMAIN spaces : \A n \in DOMAIN spaces[m].tabs :
            ToSet(spaces[i].tabs[j].panes) \cap ToSet(spaces[m].tabs[n].panes) # {}
              => <<m, n>> = <<i, j>>
    BY <1>6
  <2>3. QED
    BY <1>1, <1>3, <1>4, <2>1, <2>2 DEF Tree
<1>10. QED
  BY <1>8, <1>9

(* Whatever users, the API and exiting processes do to the tree of spaces, *)
(* tabs and panes, with shells that start or not, it stays well formed: no *)
(* empty space or tab, no pane in two places, every index in range and     *)
(* every focused or zoomed pane in its own tab.  That ends only when a     *)
(* focus or swap key acts on a pane which its frame showed and its screen  *)
(* does not show any more.                                                 *)
THEOREM TreeStaysWellformed == Spec => []Wellformed
<1>1. Inv => Wellformed
  BY IInvTree DEF Inv, Wellformed
<1>2. QED
  BY AlwaysInv, <1>1, PTL

(* The focused pane of every tab is on screen: no drop, jump, swap, exit   *)
(* or rollback leaves the keys going to a pane that a zoom hides, until a  *)
(* focus or swap key acts on a pane that left the screen.                  *)
THEOREM FocusStaysVisible == Spec => []FocusVisible
<1>1. Inv => FocusVisible
  BY IInvTree DEF Inv, FocusVisible
<1>2. QED
  BY AlwaysInv, <1>1, PTL

(* Every running process keeps a pane to reach it by, through shells that  *)
(* do not start, drags, drops, swaps and exits, until a focus or swap key  *)
(* acts on a pane that left the screen.                                    *)
THEOREM NoProcessIsLost == Spec => []NoneLost
<1>1. Inv => NoneLost
  BY DEF Inv, IInv, NoneLost
<1>2. QED
  BY AlwaysInv, <1>1, PTL

-----------------------------------------------------------------------------
(* What a terminal's turn leaves is what the terminal finds on its next one. *)
LEMMA EnterAfter ==
  ASSUME IInv, NEW c \in Client, NEW S \in GoodSession, UserDoes(c, S)
  PROVE  Enter(c)' = S
<1>1. /\ S.spaces \in GoodSpaces /\ S.active \in DOMAIN S.spaces
      /\ S = [spaces |-> S.spaces, active |-> S.active, scope |-> S.scope]
  BY SessionFacts
<1>2. S.spaces \in Seq(GoodSpace) /\ DOMAIN S.spaces = 1 .. Len(S.spaces)
  BY <1>1, SpacesFacts
<1>3. PICK n : n = S.spaces[S.active].id
  OBVIOUS
<1>4. /\ spaces' = S.spaces /\ active' = S.active
      /\ views'[c].scope = S.scope /\ views'[c].space = n
  BY <1>3, IInvFacts DEF UserDoes, ViewType, ActiveSpace
<1>5. PICK i : i = SpaceById(S.spaces, n)
  OBVIOUS
<1>6. i = S.active
  <2>1. i # 0 /\ i \in DOMAIN S.spaces /\ S.spaces[i].id = n
    <3>1. n \in Ids(S.spaces)
      BY <1>1, <1>3 DEF Ids
    <3>2. /\ i \in 0 .. Len(S.spaces) /\ (i # 0 => S.spaces[i].id = n)
          /\ (i = 0 => n \notin Ids(S.spaces))
      BY <1>2, <1>5, SpaceByIdFacts
    <3>3. QED
      BY <1>2, <3>1, <3>2
  <2>2. QED
    BY <1>1, <1>3, <2>1 DEF GoodSpaces
<1>7. Enter(c)' = [spaces |-> S.spaces, active |-> IF i # 0 THEN i ELSE S.active, scope |-> S.scope]
  BY <1>4, <1>5 DEF Enter
<1>8. QED
  BY <1>1, <1>6, <1>7

LEMMA UserLands ==
  ASSUME IInv, NEW c \in Client, NEW S \in GoodSession, UserDoes(c, S), Seen(S)
  PROVE  OnView(c)'
<1>1. Enter(c)' = S
  BY EnterAfter
<1>2. QED
  BY <1>1 DEF OnView, Seen, InScope, ActiveSpace

LEMMA AttachLands ==
  ASSUME IInv, NEW c \in Client, NEW f \in Folder, NEW spawned \in Spawns, Attach(c, f, spawned)
  PROVE  OnView(c)'
<1>1. PICK S : S = Session /\ S \in GoodSession /\ S.spaces = spaces
  BY SessionGood
<1>2. PICK T : T = AttachScope(S, f, Fresh)
  OBVIOUS
<1>3. UserDoes(c, T) /\ (Len(T.spaces) > Len(spaces) => Room)
  BY <1>1, <1>2 DEF Attach, SpaceRoom
<1>4. \/ T \in GoodSession /\ Seen(T)
      \/ /\ Longer(S.spaces, T.spaces)
         /\ Fresh \in Pane \ InSpaces(S.spaces) => T \in GoodSession /\ Seen(T)
  <2>1. f \in Scope
    BY DEF Scope
  <2>2. \/ /\ AttachScope(S, f, Fresh) \in GoodSession /\ AttachScope(S, f, Fresh).spaces = S.spaces
           /\ Seen(AttachScope(S, f, Fresh))
        \/ /\ Longer(S.spaces, AttachScope(S, f, Fresh).spaces)
           /\ Fresh \in Pane \ InSpaces(S.spaces) =>
                /\ AttachScope(S, f, Fresh) \in GoodSession
                /\ InSpaces(AttachScope(S, f, Fresh).spaces) = InSpaces(S.spaces) \cup {Fresh}
                /\ Seen(AttachScope(S, f, Fresh))
    BY <1>1, <2>1, AttachScopeFacts
  <2>3. QED
    BY <1>2, <2>2
<1>5. CASE T \in GoodSession /\ Seen(T)
  BY <1>3, <1>5, UserLands
<1>6. CASE ~(T \in GoodSession /\ Seen(T))
  <2>1. /\ Longer(S.spaces, T.spaces)
        /\ Fresh \in Pane \ InSpaces(S.spaces) => T \in GoodSession /\ Seen(T)
    BY <1>4, <1>6
  <2>2. Len(T.spaces) > Len(spaces)
    <3>1. Len(spaces) \in Nat
      BY IInvFacts, SpacesFacts
    <3>2. QED
      BY <1>1, <2>1, <3>1 DEF Longer
  <2>3. QED
    BY <1>1, <1>3, <1>6, <2>1, <2>2, IInvFacts
<1>7. QED
  BY <1>5, <1>6

LEMMA CycleLands ==
  ASSUME IInv, NEW c \in Client, OnView(c), CycleWorkspace(c)
  PROVE  OnView(c)'
<1>1. PICK S : S = Enter(c) /\ S \in GoodSession /\ S.spaces = spaces
  BY EnterGood
<1> DEFINE n == Len(S.spaces)
           At(k) == ((S.active + k - 1) % n) + 1
           hits == {k \in 1 .. n : InScope(S, S.spaces[At(k)])}
           first == CHOOSE k \in hits : \A h \in hits : k <= h
           T == IF hits = {} THEN S ELSE [S EXCEPT !.active = At(first)]
<1>2. UserDoes(c, T) /\ Seen(S)
  <2>1. UserDoes(c, T)
    BY <1>1 DEF CycleWorkspace
  <2>2. S.scope = views[c].scope
    BY <1>1 DEF Enter
  <2>3. Seen(S)
    BY <1>1, <2>2 DEF OnView, Seen, InScope
  <2>4. QED
    BY <2>1, <2>3
<1>3. n \in Nat /\ S.active \in 1 .. n /\ DOMAIN S.spaces = 1 .. n
  BY <1>1, SessionFacts, SpacesFacts
<1>4. T \in GoodSession /\ Seen(T)
  <2>1. CASE hits = {}
    BY <1>1, <1>2, <2>1
  <2>2. CASE hits # {}
    <3>1. first \in hits
      <4>1. hits \in SUBSET Nat
        OBVIOUS
      <4> HIDE DEF hits
      <4>2. QED
        BY <2>2, <4>1, LeastExists
    <3>2. PICK a : a = At(first)
      OBVIOUS
    <3>3. first \in 1 .. n /\ InScope(S, S.spaces[a])
      <4> HIDE DEF first
      <4>1. QED
        BY <3>1, <3>2
    <3>4. a \in 1 .. n
      <4> HIDE DEF first, n
      <4>1. QED
        BY <1>3, <3>2, <3>3
    <3>5. [S EXCEPT !.active = a] \in GoodSession /\ Seen([S EXCEPT !.active = a])
      <4>1. a \in DOMAIN S.spaces /\ S.scope \in Scope
        BY <1>1, <1>3, <3>4, SessionFacts
      <4>2. QED
        BY <1>1, <3>3, <4>1, ViewMoved
    <3>6. T = [S EXCEPT !.active = a]
      BY <2>2, <3>2
    <3> HIDE DEF T
    <3>7. QED
      BY <3>5, <3>6
  <2>3. QED
    BY <2>1, <2>2
<1> HIDE DEF T
<1>5. QED
  BY <1>2, <1>4, UserLands

LEMMA EndsLands ==
  ASSUME IInv, NEW c \in Client, Ends(c)
  PROVE  OnView(c)'
BY UserLands DEF Ends

(* A scope hides nothing from the terminal that is on it: an attach with a *)
(* scope, cycling through the spaces, going to a pane and every drag and   *)
(* drop end on a space in scope, or widen the scope, in a session where no *)
(* focus or swap key has acted on a pane that left the screen.             *)
THEOREM TurnsLandInScope == Spec => LandsInScope
<1> DEFINE Lands(c) == ~OnView(c)' /\ (c \in Attached => OnView(c)) => ~Jumps(c)
<1>1. ASSUME IInv, NEW c \in Client PROVE Lands(c)
  <2>1. ASSUME NEW f \in Folder, NEW spawned \in Spawns, Attach(c, f, spawned)
        PROVE  OnView(c)'
    BY <1>1, <2>1, AttachLands
  <2>2. ASSUME OnView(c), CycleWorkspace(c)
        PROVE  OnView(c)'
    BY <1>1, <2>2, CycleLands
  <2>3. ASSUME NEW p \in Leaves, FocusPane(c, p)
        PROVE  OnView(c)'
    BY <1>1, <2>3, FocusPaneEnds, EndsLands
  <2>4. ASSUME NEW p \in Leaves, NEW j \in Pane \cup {0}, MovePaneToTab(c, p, j)
        PROVE  OnView(c)'
    BY <1>1, <2>4, MovePaneToTabEnds, EndsLands
  <2>5. ASSUME NEW p \in Leaves, NEW q \in Leaves, NEW before \in BOOLEAN,
               MovePaneOntoPane(c, p, q, before)
        PROVE  OnView(c)'
    BY <1>1, <2>5, MovePaneOntoPaneEnds, EndsLands
  <2>6. ASSUME NEW i \in DOMAIN spaces, NEW j \in DOMAIN spaces[i].tabs,
               NEW p \in PanesOf(spaces[i]), NEW before \in BOOLEAN,
               MoveTabIntoPane(c, i, j, p, before)
        PROVE  OnView(c)'
    BY <1>1, <2>6, MoveTabIntoPaneEnds, EndsLands
  <2>7. QED
    BY <2>1, <2>2, <2>3, <2>4, <2>5, <2>6, Zenon DEF Jumps
<1>2. Inv => [~strayed => \A c \in Client : Lands(c)]_vars
  BY <1>1 DEF Inv
<1>3. QED
  BY AlwaysInv, <1>2, PTL DEF LandsInScope

-----------------------------------------------------------------------------
(* Starting a shell elsewhere, and an exit, leave the keys where they are. *)
LEMMA SplitPaneCalm ==
  ASSUME NEW S \in GoodSession, NEW target \in InSpaces(S.spaces), NEW p
  PROVE  Calm(S, SplitPane(S, target, p))
<1> DEFINE i == SpaceWith(S.spaces, target)
           j == TabWith(S.spaces[i], target)
           t == S.spaces[i].tabs[j]
           ps == Beside(t.panes, target, FALSE, <<p>>)
           z == IF t.zoom = target THEN 0 ELSE t.zoom
           u == [t EXCEPT !.panes = ps, !.zoom = z]
<1>1. i \in DOMAIN S.spaces /\ j \in DOMAIN S.spaces[i].tabs /\ t \in GoodTab
  BY PlaceOf
<1>2. PICK T : T = SplitPane(S, target, p)
  OBVIOUS
<1>3. T = [S EXCEPT !.spaces[i].tabs[j] = u]
  BY <1>2 DEF SplitPane
<1>4. u.focus = t.focus
  <2>1. t \in TabType
    BY <1>1 DEF GoodTab
  <2> HIDE DEF t, ps, z
  <2>2. QED
    BY <2>1 DEF TabType
<1> HIDE DEF i, j, u
<1>5. S.spaces[i].tabs[j].focus \in InSpaces(T.spaces) => u.focus = S.spaces[i].tabs[j].focus
  BY <1>4
<1> HIDE DEF t
<1>6. Calm(S, T)
  BY <1>1, <1>3, <1>5, CalmTab
<1>7. QED
  BY <1>2, <1>6

LEMMA NewTabInCalm ==
  ASSUME NEW S \in GoodSession, NEW i \in DOMAIN S.spaces, NEW p
  PROVE  Calm(S, NewTabIn(S, i, p, FALSE))
<1>1. PICK w : w = S.spaces[i]
  OBVIOUS
<1>2. PICK T : T = NewTabIn(S, i, p, FALSE)
  OBVIOUS
<1>3. w \in GoodSpace
  BY <1>1, SessionFacts, SpacesFacts
<1>4. /\ w \in SpaceType /\ w.tabs \in Seq(GoodTab) /\ w.active \in DOMAIN w.tabs
      /\ DOMAIN w.tabs = 1 .. Len(w.tabs) /\ Len(w.tabs) \in Nat
  BY <1>3, SpaceFacts
<1>5. PICK t : t = NewTab(p)
  OBVIOUS
<1>6. PICK ts : ts = Append(w.tabs, t)
  OBVIOUS
<1>7. ts[w.active] = w.tabs[w.active]
  <2> DEFINE A == GoodTab \cup {t}
  <2>1. w.tabs \in Seq(A) /\ t \in A
    BY <1>4
  <2> HIDE DEF A
  <2>2. QED
    BY <1>4, <1>6, <2>1
<1>8. PICK v : v = [w EXCEPT !.tabs = ts, !.active = w.active]
  OBVIOUS
<1>9. v.id = w.id /\ v.tabs = ts /\ v.active = w.active
  BY <1>4, <1>8 DEF SpaceType
<1>10. T = [S EXCEPT !.spaces[i] = v]
  BY <1>1, <1>2, <1>5, <1>6, <1>8, Zenon DEF NewTabIn
<1>11. T = PutSpace(S, i, v, S.active, S.scope)
  BY <1>10, SpaceSet
<1>12. Keys(v) = Keys(w)
  BY <1>7, <1>9 DEF Keys
<1>13. QED
  BY <1>1, <1>2, <1>9, <1>11, <1>12, CalmPut

(* An index that is not the one that goes still points to what it did.     *)
LEMMA ShiftedPoints ==
  ASSUME NEW n \in Nat \ {0}, NEW a \in 1 .. n + 1, NEW i \in 1 .. n + 1, a # i
  PROVE  Shifted(a, i, n) \in 1 .. n /\ Skip(i, Shifted(a, i, n)) = a
BY DEF Shifted, Skip

LEMMA DropTabKeys ==
  ASSUME NEW w \in GoodSpace, NEW j \in DOMAIN w.tabs, Len(w.tabs) > 1, w.active # j
  PROVE  Keys(DropTab(w, j)) = Keys(w)
<1>1. /\ w \in SpaceType /\ w.tabs \in Seq(GoodTab) /\ w.active \in DOMAIN w.tabs
      /\ DOMAIN w.tabs = 1 .. Len(w.tabs) /\ Len(w.tabs) \in Nat
  BY SpaceFacts
<1>2. PICK n \in Nat \ {0} : n + 1 = Len(w.tabs) /\ Len(w.tabs) - 1 = n
  <2>1. \A m \in Nat : m > 1 => m - 1 \in Nat \ {0} /\ m - 1 + 1 = m
    OBVIOUS
  <2>2. QED
    BY <1>1, <2>1
<1>3. PICK a : a = Shifted(w.active, j, n)
  OBVIOUS
<1>4. a \in 1 .. n /\ Skip(j, a) = w.active
  BY <1>1, <1>2, <1>3, ShiftedPoints
<1>5. PICK ts : ts = RemoveAt(w.tabs, j)
  OBVIOUS
<1>6. ts[a] = w.tabs[w.active]
  BY <1>1, <1>2, <1>4, <1>5, RemoveAtFacts
<1>7. DropTab(w, j).tabs = ts /\ DropTab(w, j).active = a
  BY <1>1, <1>2, <1>3, <1>5 DEF DropTab, SpaceType
<1>8. QED
  BY <1>6, <1>7 DEF Keys

LEMMA DropSpaceCalm ==
  ASSUME NEW S \in GoodSession, S.scope = NoFolder, NEW i \in DOMAIN S.spaces,
         NEW T, T = DropSpace(S, i), T.spaces # <<>>
  PROVE  Calm(S, T)
<1> DEFINE ws == S.spaces
           left == RemoveAt(ws, i)
           rest == Orphaned(left)
<1>1. /\ ws \in GoodSpaces /\ S.active \in DOMAIN ws /\ ws \in Seq(GoodSpace)
      /\ DOMAIN ws = 1 .. Len(ws) /\ Len(ws) \in Nat
  BY SessionFacts, SpacesFacts
<1>2. PICK n : n = Len(ws) - 1
  OBVIOUS
<1>3. /\ n \in Nat /\ Len(ws) = n + 1 /\ i \in 1 .. n + 1 /\ S.active \in 1 .. n + 1
      /\ DOMAIN ws = 1 .. n + 1
  BY <1>1, <1>2
<1>4. left \in GoodSpaces /\ Len(left) = n /\ \A k \in 1 .. n : left[k] = ws[Skip(i, k)]
  <2>1. i \in DOMAIN ws
    OBVIOUS
  <2> HIDE DEF ws, left
  <2>2. RemoveAt(ws, i) \in GoodSpaces
    BY <1>1, <2>1, SpaceRemoved
  <2>3. Len(RemoveAt(ws, i)) = n /\ \A k \in 1 .. n : RemoveAt(ws, i)[k] = ws[Skip(i, k)]
    BY <1>1, <1>2, <2>1, RemoveAtFacts
  <2>4. QED
    BY <2>2, <2>3 DEF left
<1> HIDE DEF left
<1>5. rest \in GoodSpaces /\ Len(rest) = n /\ DOMAIN rest = 1 .. n
  BY <1>4, OrphanedFacts, SpacesFacts
<1>6. \A k \in 1 .. n : rest[k].id = ws[Skip(i, k)].id /\ Keys(rest[k]) = Keys(ws[Skip(i, k)])
  <2> SUFFICES ASSUME NEW k \in 1 .. n
               PROVE  rest[k].id = left[k].id /\ Keys(rest[k]) = Keys(left[k])
    BY <1>4
  <2>1. k \in DOMAIN left
    BY <1>4, <1>5, OrphanedFacts
  <2>2. PICK m : m = Known(left[k].parent, left)
    OBVIOUS
  <2>3. rest[k] = [left[k] EXCEPT !.parent = m]
    BY <2>1, <2>2 DEF Orphaned
  <2>4. left[k] \in GoodSpace
    BY <1>4, <2>1, SpacesFacts
  <2>5. left[k] \in SpaceType
    BY <2>4, SpaceFacts
  <2> HIDE DEF rest
  <2>6. QED
    BY <2>3, <2>5 DEF SpaceType, Keys
<1>7. PICK a : a = Shifted(S.active, i, n)
  OBVIOUS
<1>8. rest # <<>> /\ T.spaces = rest /\ T.active = a
  <2>1. PICK U : U = [S EXCEPT !.spaces = rest, !.active = a]
    OBVIOUS
  <2>2. S \in [spaces : GoodSpaces, active : Nat, scope : Scope]
    BY DEF GoodSession, Scope
  <2> HIDE DEF rest
  <2>3. U = [spaces |-> rest, active |-> a, scope |-> NoFolder]
    BY <2>1, <2>2
  <2>4. InScope(U, ActiveSpace(U))
    BY <2>3 DEF InScope
  <2>5. T = IF rest = <<>> THEN [S EXCEPT !.spaces = rest] ELSE U
    <3>1. Len(rest) = n
      BY <1>5
    <3>2. QED
      BY <1>7, <2>1, <2>4, <3>1, Zenon DEF DropSpace, Orphaned, left, rest
  <2>6. [S EXCEPT !.spaces = rest].spaces = rest
    BY <2>2
  <2>7. QED
    BY <2>3, <2>5, <2>6
<1> HIDE DEF rest
<1>9. n \in Nat \ {0}
  BY <1>3, <1>5, <1>8
<1>10. /\ \A k \in 1 .. n : Skip(i, k) \in 1 .. n + 1
       /\ \A m \in (1 .. n + 1) \ {i} : \E k \in 1 .. n : Skip(i, k) = m
  <2>1. PICK l \in Nat : l = n + 1
    BY <1>3
  <2>2. /\ \A k \in 1 .. l - 1 : Skip(i, k) \in (1 .. l) \ {i}
        /\ \A m \in (1 .. l) \ {i} : \E k \in 1 .. l - 1 : Skip(i, k) = m
    BY <1>3, <2>1, SkipFacts
  <2>3. l - 1 = n
    BY <1>3, <2>1
  <2>4. QED
    BY <2>1, <2>2, <2>3
<1>11. ASSUME NEW k \in DOMAIN ws, Keys(ws[k]) \in InSpaces(T.spaces)
       PROVE  \E m \in DOMAIN T.spaces : /\ T.spaces[m].id = ws[k].id
                                         /\ Keys(T.spaces[m]) = Keys(ws[k])
                                         /\ k = S.active => m = T.active
  <2>1. k # i
    <3>1. Keys(ws[k]) \in PanesOf(ws[k])
      <4>1. ws[k] \in GoodSpace
        BY <1>1, SpacesFacts
      <4>2. /\ ws[k].tabs[ws[k].active] \in GoodTab /\ ws[k].active \in DOMAIN ws[k].tabs
            /\ PanesOf(ws[k]) = InTabs(ws[k].tabs)
        BY <4>1, SpaceFacts
      <4>3. QED
        BY <4>2, TabFacts DEF Keys, InTabs
    <3>2. InSpaces(T.spaces) = InSpaces(ws) \ PanesOf(ws[i])
      BY DropSpaceFacts
    <3>3. QED
      BY <1>11, <3>1, <3>2
  <2>2. PICK m \in 1 .. n : Skip(i, m) = k
    BY <1>3, <1>10, <2>1
  <2>3. CASE k = S.active
    <3>1. a \in 1 .. n /\ Skip(i, a) = k
      BY <1>3, <1>7, <1>9, <2>1, <2>3, ShiftedPoints
    <3>2. QED
      BY <1>5, <1>6, <1>8, <3>1
  <2>4. CASE k # S.active
    BY <1>5, <1>6, <1>8, <2>2, <2>4
  <2>5. QED
    BY <2>3, <2>4
<1>12. Ids(T.spaces) \subseteq Ids(ws)
  BY <1>3, <1>5, <1>6, <1>8, <1>10, SMTT(30) DEF Ids
<1>13. QED
  BY <1>11, <1>12 DEF Calm

LEMMA ClosePaneCalm ==
  ASSUME NEW S \in GoodSession, S.scope = NoFolder, NEW p \in InSpaces(S.spaces),
         NEW T, T = ClosePane(S, p), T.spaces # <<>>
  PROVE  Calm(S, T)
<1> DEFINE i == SpaceWith(S.spaces, p)
           w == S.spaces[i]
           j == TabWith(w, p)
           t == w.tabs[j]
<1>1. T = IF i = 0 THEN S
          ELSE IF Len(t.panes) > 1 THEN [S EXCEPT !.spaces[i].tabs[j] = Without(t, p)]
          ELSE IF Len(w.tabs) > 1 THEN [S EXCEPT !.spaces[i] = DropTab(w, j)]
          ELSE DropSpace(S, i)
  BY DEF ClosePane
<1>2. /\ i \in DOMAIN S.spaces /\ i # 0 /\ w \in GoodSpace
      /\ j \in DOMAIN w.tabs /\ t \in GoodTab /\ p \in In(t)
  BY PlaceOf
<1>3. /\ w \in SpaceType /\ w.active \in DOMAIN w.tabs /\ w.tabs \in GoodTabs
      /\ w.tabs \in Seq(GoodTab) /\ DOMAIN w.tabs = 1 .. Len(w.tabs) /\ Len(w.tabs) \in Nat \ {0}
  BY <1>2, SpaceFacts
<1>4. p \notin InSpaces(T.spaces)
  BY ClosePaneFacts
<1> HIDE DEF i, j
<1>5. CASE Len(t.panes) > 1
  <2>1. PICK u : u = Without(t, p)
    OBVIOUS
  <2>2. T = [S EXCEPT !.spaces[i].tabs[j] = u]
    BY <1>1, <1>2, <1>5, <2>1
  <2>3. t.focus # p => u.focus = t.focus
    BY <2>1 DEF Without
  <2>4. t.focus \in InSpaces(T.spaces) => u.focus = t.focus
    BY <1>4, <2>3
  <2>5. QED
    BY <1>2, <2>2, <2>4, CalmTab
<1>6. ASSUME ~(Len(t.panes) > 1) PROVE t.focus = p
  <2>1. PICK x : x = t
    OBVIOUS
  <2>2. /\ x.panes \in Distinct /\ x.panes # <<>> /\ (Len(x.panes) = 1 => In(x) = {x.panes[1]})
        /\ x.focus \in In(x) /\ p \in In(x)
    BY <1>2, <2>1, TabFacts
  <2>3. x.panes \in Seq(Pane)
    BY <2>2 DEF Distinct
  <2>4. PICK m \in Nat \ {0} : m = Len(x.panes)
    BY <2>2, <2>3, EmptySeq
  <2>5. ~(m > 1)
    BY <1>6, <2>1, <2>4
  <2>6. m = 1
    BY <2>5
  <2>7. QED
    BY <2>1, <2>2, <2>4, <2>6
<1>7. CASE ~(Len(t.panes) > 1) /\ Len(w.tabs) > 1
  <2>1. PICK v : v = DropTab(w, j)
    OBVIOUS
  <2>2. T = [S EXCEPT !.spaces[i] = v]
    BY <1>1, <1>2, <1>7, <2>1
  <2>3. T = PutSpace(S, i, v, S.active, S.scope)
    BY <2>2, SpaceSet
  <2>4. v.id = w.id
    BY <1>3, <2>1 DEF DropTab, SpaceType
  <2>5. Keys(w) \in InSpaces(T.spaces) => Keys(v) = Keys(w)
    <3>1. w.active = j => Keys(w) = p
      BY <1>6, <1>7 DEF Keys
    <3>2. w.active # j => Keys(v) = Keys(w)
      <4> HIDE DEF w
      <4>1. QED
        BY <1>2, <1>7, <2>1, DropTabKeys
    <3>3. QED
      BY <1>4, <3>1, <3>2
  <2>6. QED
    BY <1>2, <2>3, <2>4, <2>5, CalmPut
<1>8. CASE ~(Len(t.panes) > 1) /\ ~(Len(w.tabs) > 1)
  <2>1. T = DropSpace(S, i)
    BY <1>1, <1>2, <1>8
  <2>2. QED
    BY <1>2, <2>1, DropSpaceCalm
<1>9. QED
  BY <1>5, <1>7, <1>8

(* Calm is what a terminal sees as its keys staying put.                   *)
Stays(c) == Focused(Enter(c))' = Focused(Enter(c)) \/ Focused(Enter(c)) \notin Leaves'

LEMMA CalmStays ==
  ASSUME IInv, NEW c \in Client, NEW S, S = Session, NEW T \in GoodSession, Calm(S, T),
         spaces' = T.spaces, active' = T.active,
         views'[c].space = views[c].space \/ views'[c].space = Known(views[c].space, T.spaces)
  PROVE  Stays(c)
<1>1. /\ spaces \in GoodSpaces /\ active \in DOMAIN spaces /\ spaces \in Seq(GoodSpace)
      /\ DOMAIN spaces = 1 .. Len(spaces) /\ S.spaces = spaces /\ S.active = active
  BY IInvFacts, SpacesFacts DEF Session
<1>2. /\ T.spaces \in GoodSpaces /\ T.active \in DOMAIN T.spaces /\ T.spaces \in Seq(GoodSpace)
      /\ DOMAIN T.spaces = 1 .. Len(T.spaces)
  BY SessionFacts, SpacesFacts
<1>3. PICK n : n = views[c].space
  OBVIOUS
<1>4. PICK m : m = views'[c].space
  OBVIOUS
<1>5. PICK i : i = SpaceById(spaces, n)
  OBVIOUS
<1>6. PICK k : k = SpaceById(T.spaces, m)
  OBVIOUS
<1>7. PICK e : e = IF i # 0 THEN i ELSE active
  OBVIOUS
<1>8. PICK g : g = IF k # 0 THEN k ELSE T.active
  OBVIOUS
<1>9. Focused(Enter(c)) = Keys(spaces[e])
  BY <1>3, <1>5, <1>7 DEF Enter, Focused, ActiveTab, ActiveSpace, Keys
<1>10. Focused(Enter(c))' = Keys(T.spaces[g])
  BY <1>4, <1>6, <1>8 DEF Enter, Focused, ActiveTab, ActiveSpace, Keys
<1>11. /\ i \in 0 .. Len(spaces) /\ (i # 0 => spaces[i].id = n) /\ (i = 0 => n \notin Ids(spaces))
  BY <1>1, <1>5, SpaceByIdFacts
<1>12. /\ k \in 0 .. Len(T.spaces) /\ (k # 0 => T.spaces[k].id = m) /\ (k = 0 => m \notin Ids(T.spaces))
  BY <1>2, <1>6, SpaceByIdFacts
<1>13. /\ m \in Ids(T.spaces) => m = n /\ n \in Ids(T.spaces)
       /\ n \in Ids(T.spaces) => m = n
  <2>1. 0 \notin Ids(T.spaces)
    BY <1>2, SpacesFacts DEF Ids
  <2>2. m = n \/ m = Known(n, T.spaces)
    BY <1>3, <1>4
  <2>3. QED
    BY <2>1, <2>2 DEF Known
<1>14. e \in DOMAIN spaces
  BY <1>1, <1>7, <1>11
<1>15. CASE Keys(spaces[e]) \notin InSpaces(T.spaces)
  <2>1. Leaves' = InSpaces(T.spaces)
    BY DEF Leaves, InSpaces
  <2>2. QED
    BY <1>9, <1>15, <2>1 DEF Stays
<1>16. CASE Keys(spaces[e]) \in InSpaces(T.spaces)
  <2>1. PICK l \in DOMAIN T.spaces : /\ T.spaces[l].id = spaces[e].id
                                     /\ Keys(T.spaces[l]) = Keys(spaces[e])
                                     /\ e = active => l = T.active
    BY <1>1, <1>14, <1>16 DEF Calm
  <2>2. CASE i # 0
    <3>1. e = i /\ T.spaces[l].id = n
      BY <1>7, <1>11, <2>1, <2>2
    <3>2. n \in Ids(T.spaces) /\ m = n
      BY <1>13, <2>1, <3>1 DEF Ids
    <3>3. k # 0 /\ k \in DOMAIN T.spaces /\ T.spaces[k].id = n
      BY <1>2, <1>12, <3>2
    <3>4. k = l
      BY <1>2, <2>1, <3>1, <3>3 DEF GoodSpaces
    <3>5. QED
      BY <1>8, <1>9, <1>10, <2>1, <3>3, <3>4 DEF Stays
  <2>3. CASE i = 0
    <3>1. e = active /\ n \notin Ids(spaces)
      BY <1>7, <1>11, <2>3
    <3>2. n \notin Ids(T.spaces)
      BY <1>1, <1>3, <3>1 DEF Calm
    <3>3. m \notin Ids(T.spaces)
      BY <1>13, <3>2
    <3>4. k = 0
      <4>1. k # 0 => m \in Ids(T.spaces)
        BY <1>2, <1>12 DEF Ids
      <4>2. QED
        BY <3>3, <4>1
    <3>5. g = l
      BY <1>8, <2>1, <3>1, <3>4
    <3>6. QED
      BY <1>9, <1>10, <2>1, <3>5 DEF Stays
  <2>4. QED
    BY <2>2, <2>3
<1>17. QED
  BY <1>15, <1>16

(* An API request that leaves every pane in place leaves every view alone. *)
LEMMA ApiStays ==
  ASSUME IInv, NEW c \in Client, NEW T \in GoodSession, Calm(Session, T), ApiDoes(T),
         InSpaces(spaces) \subseteq InSpaces(T.spaces)
  PROVE  Stays(c)
<1>1. PICK S \in GoodSession : S = Session
  BY SessionGood
<1>2. S.spaces = spaces /\ S.active = active /\ active \in DOMAIN spaces
  BY <1>1, SessionFacts DEF Session
<1>3. Keys(S.spaces[S.active]) \in InSpaces(T.spaces)
  <2>1. Keys(S.spaces[S.active]) = Focused(S)
    BY DEF Keys, Focused, ActiveTab, ActiveSpace
  <2>2. Focused(S) \in InSpaces(S.spaces)
    BY SessionFacts
  <2>3. QED
    BY <1>2, <2>1, <2>2
<1>4. T.spaces[T.active].id = S.spaces[S.active].id
  BY <1>1, <1>2, <1>3 DEF Calm
<1>5. spaces' = T.spaces /\ active' = T.active /\ views' = views
  BY <1>1, <1>4 DEF ApiDoes, ActiveSpace
<1>6. QED
  BY <1>1, <1>5, CalmStays

LEMMA SplitStays ==
  ASSUME IInv, NEW c \in Client, NEW p \in Leaves, Split(p, TRUE)
  PROVE  Stays(c)
<1>1. PICK S : S = Session /\ S \in GoodSession /\ S.spaces = spaces
  BY SessionGood
<1>2. PICK T : T = SplitPane(S, p, Fresh)
  OBVIOUS
<1>3. Room /\ ApiDoes(T)
  BY <1>1, <1>2 DEF Split, OrRollBack
<1>4. p \in InSpaces(S.spaces) /\ Fresh \in Pane \ InSpaces(S.spaces)
  BY <1>1, <1>3, IInvFacts
<1>5. T \in GoodSession /\ InSpaces(T.spaces) = InSpaces(spaces) \cup {Fresh} /\ Calm(S, T)
  BY <1>1, <1>2, <1>4, SplitPaneFacts, SplitPaneCalm
<1>6. QED
  BY <1>1, <1>3, <1>5, ApiStays

LEMMA TabCreateStays ==
  ASSUME IInv, NEW c \in Client, NEW i \in DOMAIN spaces, TabCreate(i, TRUE)
  PROVE  Stays(c)
<1>1. PICK S : S = Session /\ S \in GoodSession /\ S.spaces = spaces
  BY SessionGood
<1>2. PICK b \in BOOLEAN : b = FALSE
  OBVIOUS
<1>3. PICK T : T = NewTabIn(S, i, Fresh, b)
  OBVIOUS
<1>4. Room /\ ApiDoes(T)
  BY <1>1, <1>2, <1>3 DEF TabCreate, OrRollBack
<1>5. i \in DOMAIN S.spaces /\ Fresh \in Pane \ InSpaces(S.spaces)
  BY <1>1, <1>4, IInvFacts
<1>6. T \in GoodSession /\ InSpaces(T.spaces) = InSpaces(spaces) \cup {Fresh}
  BY <1>1, <1>3, <1>5, NewTabInFacts
<1>7. Calm(S, T)
  BY <1>1, <1>2, <1>3, <1>5, NewTabInCalm
<1>8. QED
  BY <1>1, <1>4, <1>6, <1>7, ApiStays

LEMMA WorkspaceCreateStays ==
  ASSUME IInv, NEW c \in Client, NEW f \in Folder, NEW parent \in Ids(spaces) \cup {0},
         WorkspaceCreate(f, parent, TRUE)
  PROVE  Stays(c)
<1>1. PICK S : S = Session /\ S \in GoodSession /\ S.spaces = spaces
  BY SessionGood
<1>2. PICK b \in BOOLEAN : b = FALSE
  OBVIOUS
<1>3. PICK q : q = Fresh
  OBVIOUS
<1>4. PICK T : T = NewSpace(S, q, f, parent, b)
  OBVIOUS
<1>5. Room /\ ApiDoes(T)
  BY <1>1, <1>2, <1>3, <1>4 DEF WorkspaceCreate, OrRollBack, SpaceRoom
<1>6. parent \in Nat /\ q \in Pane \ InSpaces(S.spaces)
  BY <1>1, <1>3, <1>5, IInvFacts, SpacesFacts DEF Ids
<1>7. S \in AnySession /\ MayOpen(S, b)
  BY <1>1, SessionFacts DEF MayOpen
<1>8. /\ Longer(S.spaces, T.spaces)
      /\ q \in Pane \ InSpaces(S.spaces) =>
           /\ T \in GoodSession /\ InSpaces(T.spaces) = InSpaces(S.spaces) \cup {q}
           /\ OpensSeen(S, T, f, b) /\ OpensAside(S, T, b)
  BY <1>4, <1>6, <1>7, NewSpaceOpened
<1>9. T \in GoodSession /\ InSpaces(T.spaces) = InSpaces(spaces) \cup {q} /\ Calm(S, T)
  BY <1>1, <1>2, <1>6, <1>8 DEF OpensAside
<1>10. QED
  BY <1>1, <1>5, <1>9, ApiStays

LEMMA PaneExitStays ==
  ASSUME IInv, NEW c \in Client, NEW p \in live, NEW f \in Folder, NEW spawned \in BOOLEAN,
         PaneExit(p, f, spawned)
  PROVE  Stays(c)
<1>1. PICK S : S = Session /\ S \in GoodSession /\ S.spaces = spaces /\ S.scope = NoFolder
  BY SessionGood DEF Session
<1>2. PICK T : T = ClosePane(S, p)
  OBVIOUS
<1>3. p \in InSpaces(S.spaces)
  BY <1>1, IInvFacts
<1>4. /\ InSpaces(T.spaces) = Leaves \ {p} /\ (T.spaces # <<>> => T \in GoodSession)
      /\ T \in AnySession
  BY <1>1, <1>2, IInvFacts, ClosePaneFacts
<1>5. CASE T.spaces # <<>>
  <2>1. BackgroundDoes(T)
    BY <1>1, <1>2, <1>5 DEF PaneExit
  <2>2. /\ spaces' = T.spaces /\ active' = T.active
        /\ views'[c].space = Known(views[c].space, T.spaces)
    BY <2>1, IInvFacts DEF BackgroundDoes, ViewType
  <2>3. Calm(S, T)
    BY <1>1, <1>2, <1>3, <1>5, ClosePaneCalm
  <2>4. QED
    BY <1>1, <1>4, <1>5, <2>2, <2>3, CalmStays
<1>6. CASE T.spaces = <<>>
  <2>1. InSpaces(T.spaces) = {}
    BY <1>6 DEF InSpaces
  <2>2. PICK b \in BOOLEAN : b = TRUE
    OBVIOUS
  <2>3. PICK z \in Nat : z = 0
    OBVIOUS
  <2>4. PICK q : q = Fresh
    OBVIOUS
  <2>5. PICK U : U = NewSpace(T, q, f, z, b)
    OBVIOUS
  <2>6. Room /\ spaces' = U.spaces
    BY <1>1, <1>2, <1>6, <2>2, <2>3, <2>4, <2>5 DEF PaneExit, BackgroundDoes
  <2>7. q \in Pane \ InSpaces(T.spaces) /\ MayOpen(T, b) /\ q \notin Leaves
    BY <1>6, <2>1, <2>2, <2>4, <2>6, IInvFacts DEF MayOpen
  <2>8. InSpaces(U.spaces) = InSpaces(T.spaces) \cup {q}
    BY <1>4, <2>5, <2>7, NewSpaceFacts
  <2>9. Leaves' = {q}
    BY <2>1, <2>6, <2>8 DEF Leaves, InSpaces
  <2>10. Focused(Enter(c)) \in Leaves
    <3>1. PICK V \in GoodSession : V = Enter(c) /\ V.spaces = spaces
      BY EnterGood
    <3>2. Focused(V) \in InSpaces(V.spaces)
      BY SessionFacts
    <3>3. QED
      BY <3>1, <3>2, IInvFacts
  <2>11. QED
    BY <2>7, <2>9, <2>10 DEF Stays
<1>7. QED
  BY <1>5, <1>6

(* Background requests that start a shell, and exits, never move a user's  *)
(* keystrokes to another pane, as long as the one they type into is there, *)
(* in a session where no focus or swap key has acted on a pane that left   *)
(* the screen.                                                             *)
THEOREM KeysStayPut == Spec => KeystrokesStay
<1>1. ASSUME IInv, Background, NEW c \in Attached
      PROVE  ~Torn(c)
  <2>1. c \in Client
    BY DEF Attached
  <2>2. CASE \E p \in Leaves : Split(p, TRUE)
    BY <1>1, <2>1, <2>2, SplitStays DEF Stays, Torn
  <2>3. CASE \E i \in DOMAIN spaces : TabCreate(i, TRUE)
    BY <1>1, <2>1, <2>3, TabCreateStays DEF Stays, Torn
  <2>4. CASE \E f \in Folder, parent \in Ids(spaces) \cup {0} : WorkspaceCreate(f, parent, TRUE)
    BY <1>1, <2>1, <2>4, WorkspaceCreateStays DEF Stays, Torn
  <2>5. CASE \E p \in live, f \in Folder, spawned \in Spawns : PaneExit(p, f, spawned)
    <3>1. Spawns \subseteq BOOLEAN
      BY ViewAssumption
    <3>2. QED
      BY <1>1, <2>1, <2>5, <3>1, PaneExitStays DEF Stays, Torn
  <2>6. QED
    BY <1>1, <2>2, <2>3, <2>4, <2>5 DEF Background
<1>2. Inv => [~strayed /\ live' # live /\ (\E c \in Attached : Torn(c)) => ~Background]_vars
  BY <1>1 DEF Inv
<1>3. QED
  BY AlwaysInv, <1>2, PTL DEF KeystrokesStay
=============================================================================
