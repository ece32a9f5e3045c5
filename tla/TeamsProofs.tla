------------------------------ MODULE TeamsProofs ------------------------------
(* Team membership over any number of panes and folders, and the list of   *)
(* recent orchestrators at any length.                                     *)
EXTENDS Teams, FiniteSetTheorems, TLAPS

IInv == TypeOK /\ MarksFollowMembership /\ OnlyLateBehind

LEMMA InitIInv == Init => IInv
BY TeamsAssumption
   DEF Init, IInv, TypeOK, MarksFollowMembership, OnlyLateBehind, Pane, Issued, None

(* A new pane is no pane that was there before.                            *)
LEMMA NewPaneFacts ==
  ASSUME IInv, NEW spawned \in BOOLEAN, NewPane(spawned)
  PROVE  /\ next \in Pane /\ next \notin Issued /\ next \notin switching /\ next # None
         /\ next' \in 1 .. MaxPane + 1
         /\ next \in Issued' /\ Issued \subseteq Issued'
         /\ live' \in SUBSET Issued' /\ leaving' \in SUBSET Issued'
BY TeamsAssumption DEF IInv, TypeOK, NewPane, Pane, Issued, None

LEMMA IssuedFacts ==
  ASSUME IInv
  PROVE  Issued \subseteq Pane /\ None \notin Pane /\ None \notin switching
BY TeamsAssumption DEF IInv, TypeOK, Pane, Issued, None

-----------------------------------------------------------------------------
(* New panes.                                                              *)

LEMMA OpenPaneIInv ==
  ASSUME IInv, NEW spawned \in BOOLEAN, NEW orchestrator \in BOOLEAN,
         OpenPane(spawned, orchestrator)
  PROVE  IInv'
<1>1. NewPane(spawned)
  BY DEF OpenPane
<1>2. QED
  BY <1>1, NewPaneFacts, IssuedFacts
     DEF OpenPane, teamVars, IInv, TypeOK, MarksFollowMembership, OnlyLateBehind

LEMMA AgentStartIInv ==
  ASSUME IInv, NEW o \in Pane, NEW orchestrator \in BOOLEAN, AgentStart(o, orchestrator)
  PROVE  IInv'
<1>1. NewPane(TRUE)
  BY DEF AgentStart
<1>2. /\ dirs' = dirs /\ switching' = switching /\ known' = known /\ sessions' = sessions
      /\ orchs' = IF orchestrator THEN orchs \cup {next} ELSE orchs
  BY DEF AgentStart
<1>3. CASE o \in live
  <2>1. /\ teams' = [teams EXCEPT ![next] = o]
        /\ orchAdded' = orchAdded \cup {next}
        /\ late' = IF o \in switching THEN late \cup {next} ELSE late
    BY <1>3 DEF AgentStart
  <2>2. TypeOK'
    BY <1>1, <1>2, <2>1, NewPaneFacts DEF IInv, TypeOK
  <2>3. MarksFollowMembership'
    BY <1>1, <2>1, NewPaneFacts, IssuedFacts DEF IInv, TypeOK, MarksFollowMembership
  <2>4. OnlyLateBehind'
    BY <1>1, <1>2, <2>1, NewPaneFacts DEF IInv, TypeOK, OnlyLateBehind
  <2>5. QED
    BY <2>2, <2>3, <2>4 DEF IInv
<1>4. CASE o \notin live
  <2>1. teams' = teams /\ orchAdded' = orchAdded /\ late' = late
    BY <1>4 DEF AgentStart
  <2>2. QED
    BY <1>1, <1>2, <2>1, NewPaneFacts
       DEF IInv, TypeOK, MarksFollowMembership, OnlyLateBehind
<1>5. QED
  BY <1>3, <1>4

-----------------------------------------------------------------------------
(* Membership changes: one worker joins a team or leaves it.               *)

LEMMA JoinIInv ==
  ASSUME IInv, NEW w \in Pane, NEW o \in Pane, Join(w, o),
         orchAdded' \in {orchAdded \cup {w}, orchAdded \ {w}},
         UNCHANGED <<next, live, leaving, orchVars, sessions>>
  PROVE  IInv'
<1>1. /\ next' = next /\ live' = live /\ leaving' = leaving /\ sessions' = sessions /\ orchs' = orchs
      /\ dirs' = dirs /\ switching' = switching /\ known' = known
  BY DEF orchVars
<1>2. TypeOK'
  BY <1>1 DEF IInv, TypeOK, Join, Issued
<1>3. MarksFollowMembership'
  BY IssuedFacts DEF IInv, TypeOK, MarksFollowMembership, Join
<1>4. OnlyLateBehind'
  BY <1>1 DEF IInv, TypeOK, OnlyLateBehind, Join
<1>5. QED
  BY <1>2, <1>3, <1>4 DEF IInv

LEMMA LeaveIInv ==
  ASSUME IInv, NEW w \in Pane, Leave(w), UNCHANGED <<next, live, leaving, orchVars, sessions>>
  PROVE  IInv'
<1>1. /\ next' = next /\ live' = live /\ leaving' = leaving /\ sessions' = sessions /\ orchs' = orchs
      /\ dirs' = dirs /\ switching' = switching /\ known' = known
  BY DEF orchVars
<1>2. QED
  BY <1>1, IssuedFacts
     DEF IInv, TypeOK, MarksFollowMembership, OnlyLateBehind, Leave, Issued

-----------------------------------------------------------------------------
(* Orchestrators come and go.                                              *)

LEMMA StartHeadFacts ==
  ASSUME IInv, NEW f \in Folder, NEW spawned \in BOOLEAN, StartHead(f, spawned)
  PROVE  /\ next \in Pane /\ next \notin switching /\ next # None
         /\ next' \in 1 .. MaxPane + 1
         /\ Issued \subseteq Issued'
         /\ live' \in SUBSET Issued' /\ leaving' \in SUBSET Issued' /\ orchs' \in SUBSET Issued'
         /\ dirs' \in [Pane -> Folder \cup {NoFolder}]
<1>1. NewPane(spawned)
  BY DEF StartHead
<1>2. QED
  BY <1>1, NewPaneFacts DEF StartHead, IInv, TypeOK

LEMMA StartOrchestratorIInv ==
  ASSUME IInv, NEW f \in Folder, NEW spawned \in BOOLEAN, StartOrchestrator(f, spawned)
  PROVE  IInv'
<1>1. StartHead(f, spawned)
  BY DEF StartOrchestrator
<1>2. QED
  BY <1>1, StartHeadFacts
     DEF StartOrchestrator, teamVars, IInv, TypeOK, MarksFollowMembership, OnlyLateBehind

LEMMA OpenFolderIInv ==
  ASSUME IInv, NEW f \in Folder, NEW spawned \in BOOLEAN, OpenFolder(f, spawned)
  PROVE  IInv'
<1>1. StartHead(f, spawned)
  BY DEF OpenFolder
<1>2. /\ orchAdded' = orchAdded /\ late' = late /\ switching' = switching
      /\ known' = known /\ sessions' = sessions
  BY DEF OpenFolder
<1>3. \/ teams' = teams
      \/ teams' = [w \in Pane |-> IF w \in Survivors(f) THEN next ELSE teams[w]]
  BY DEF OpenFolder
<1>4. QED
  BY <1>1, <1>2, <1>3, StartHeadFacts
     DEF IInv, TypeOK, MarksFollowMembership, OnlyLateBehind

(* The outgoing head's members move to a head that is not on its way out.  *)
LEMMA SwitchIInv ==
  ASSUME IInv, NEW old \in Pane, NEW spawned \in BOOLEAN, Switch(old, spawned)
  PROVE  IInv'
<1>1. old \in orchs /\ dirs[old] \in Folder /\ StartHead(dirs[old], spawned)
  BY DEF Switch, IInv, TypeOK
<1>2. /\ orchAdded' = orchAdded /\ known' = known /\ sessions' = sessions
  BY DEF Switch
<1>3. CASE spawned
  <2>1. /\ teams' = [w \in Pane |-> IF teams[w] = old THEN next ELSE teams[w]]
        /\ late' = late \ Members(old)
        /\ switching' = switching \cup {old}
    BY <1>3 DEF Switch, HandedOver, Members
  <2>2. next # old
    BY <1>1 DEF IInv, TypeOK, Issued
  <2>3. TypeOK'
    BY <1>1, <1>2, <2>1, StartHeadFacts DEF IInv, TypeOK
  <2>4. MarksFollowMembership'
    BY <1>1, <1>2, <2>1, StartHeadFacts DEF IInv, TypeOK, MarksFollowMembership
  <2>5. OnlyLateBehind'
    BY <1>1, <2>1, <2>2, StartHeadFacts DEF IInv, TypeOK, OnlyLateBehind, Members
  <2>6. QED
    BY <2>3, <2>4, <2>5 DEF IInv
<1>4. CASE ~spawned
  <2>1. teams' = teams /\ late' = late /\ switching' = switching
    BY <1>4 DEF Switch
  <2>2. QED
    BY <1>1, <1>2, <2>1, StartHeadFacts
       DEF IInv, TypeOK, MarksFollowMembership, OnlyLateBehind
<1>5. QED
  BY <1>3, <1>4

LEMMA ExitIInv ==
  ASSUME IInv, NEW p \in Pane, ExitOf(p),
         live' \in SUBSET live, leaving' \in SUBSET leaving
  PROVE  IInv'
<1>1. /\ teams' = [w \in Pane |-> IF w = p \/ teams[w] = p THEN None ELSE teams[w]]
      /\ orchAdded' = {w \in orchAdded : teams'[w] # None}
      /\ late' = late \ ({p} \cup {w \in Pane : teams[w] = p})
  BY DEF ExitOf, TeamsAfterExit, MarksAfterExit, Unled, Members
<1>2. /\ next' = next /\ known' = known
      /\ switching' = switching \ {p} /\ orchs' = orchs \ {p}
      /\ dirs' = [dirs EXCEPT ![p] = NoFolder]
      /\ sessions' = [sessions EXCEPT ![p] = NoSession]
  BY DEF ExitOf
<1>3. TypeOK'
  BY <1>1, <1>2 DEF IInv, TypeOK, Issued
<1>4. MarksFollowMembership'
  BY <1>1 DEF MarksFollowMembership
<1>5. OnlyLateBehind'
  BY <1>1, <1>2, IssuedFacts DEF IInv, TypeOK, OnlyLateBehind
<1>6. QED
  BY <1>3, <1>4, <1>5 DEF IInv

-----------------------------------------------------------------------------
LEMMA NextIInv == IInv /\ [Next]_vars => IInv'
<1> SUFFICES ASSUME IInv, [Next]_vars PROVE IInv'
  OBVIOUS
<1>1. ASSUME NEW spawned \in BOOLEAN, NEW orchestrator \in BOOLEAN,
             OpenPane(spawned, orchestrator) PROVE IInv'
  BY <1>1, OpenPaneIInv
<1>2. ASSUME NEW o \in Pane, NEW orchestrator \in BOOLEAN, AgentStart(o, orchestrator)
      PROVE  IInv'
  BY <1>2, AgentStartIInv
<1>3. ASSUME NEW w \in Pane, NEW o \in Pane, TeamSet(w, o) PROVE IInv'
  BY <1>3, JoinIInv DEF TeamSet
<1>4. ASSUME NEW w \in Pane, TeamUnset(w) PROVE IInv'
  BY <1>4, LeaveIInv DEF TeamUnset
<1>5. ASSUME NEW w \in Pane, NEW o \in Pane, SetTeam(w, o) PROVE IInv'
  BY <1>5, JoinIInv DEF SetTeam
<1>6. ASSUME NEW w \in Pane, ClearTeam(w) PROVE IInv'
  BY <1>6, LeaveIInv DEF ClearTeam
<1>7. ASSUME NEW f \in Folder, NEW spawned \in BOOLEAN, StartOrchestrator(f, spawned)
      PROVE  IInv'
  BY <1>7, StartOrchestratorIInv
<1>8. ASSUME NEW f \in Folder, NEW spawned \in BOOLEAN, OpenFolder(f, spawned) PROVE IInv'
  BY <1>8, OpenFolderIInv
<1>9. ASSUME NEW old \in Pane, NEW spawned \in BOOLEAN, Switch(old, spawned) PROVE IInv'
  BY <1>9, SwitchIInv
<1>10. ASSUME NEW p \in Pane, NEW s \in Session, ReportSession(p, s) PROVE IInv'
  BY <1>10 DEF ReportSession, teamVars, orchVars, IInv, TypeOK, MarksFollowMembership,
               OnlyLateBehind, Issued
<1>11. ASSUME NEW p \in Pane, PaneExit(p) PROVE IInv'
  BY <1>11, ExitIInv DEF PaneExit
<1>12. CASE Handoff
  <2>1. /\ live' \in SUBSET live /\ leaving' \in SUBSET (live \cup orchs)
        /\ switching' = {} /\ late' = {}
        /\ UNCHANGED <<next, teams, orchAdded, orchs, dirs, sessions, recents, known>>
    BY <1>12 DEF Handoff
  <2>2. QED
    BY <2>1 DEF IInv, TypeOK, MarksFollowMembership, OnlyLateBehind, Issued
<1>13. CASE UNCHANGED vars
  BY <1>13 DEF vars, IInv, TypeOK, MarksFollowMembership, OnlyLateBehind, Issued
<1>14. ASSUME NEW p \in Pane, CloseDead(p) PROVE IInv'
  BY <1>14, ExitIInv DEF CloseDead
<1>15. QED
  BY <1>1, <1>2, <1>3, <1>4, <1>5, <1>6, <1>7, <1>8, <1>9, <1>10, <1>11, <1>12, <1>13, <1>14
     DEF Next

(* The tables name panes that were opened.                                 *)
THEOREM TypeCorrect == Spec => []TypeOK
<1>1. IInv => TypeOK
  BY DEF IInv
<1>2. QED
  BY <1>1, InitIInv, NextIInv, PTL DEF Spec

(* The ownership marks of the CLI last only as long as the memberships.    *)
THEOREM MarksLastAsLongAsMembership == Spec => []MarksFollowMembership
<1>1. IInv => MarksFollowMembership
  BY DEF IInv
<1>2. QED
  BY <1>1, InitIInv, NextIInv, PTL DEF Spec

(* The exit of a head that was switched out takes no member down but the   *)
(* latecomers.                                                             *)
SurvivesStep ==
  \A p \in switching : p \in live \ live' => \A w \in Members(p) \cap live' : w \in late

THEOREM SwitchKeepsTeam == Spec => TeamSurvivesSwitch
<1>1. IInv /\ [Next]_vars => [SurvivesStep]_vars
  BY DEF IInv, OnlyLateBehind, SurvivesStep, Members
<1>2. TeamSurvivesSwitch <=> [][SurvivesStep]_vars
  BY DEF TeamSurvivesSwitch, SurvivesStep
<1> HIDE DEF SurvivesStep
<1>3. QED
  BY <1>1, <1>2, InitIInv, NextIInv, PTL DEF Spec

(* Continuing a stopped folder takes no worker away from another head.     *)
NoPoachingStep ==
  \A f \in Folder : OpenFolder(f, TRUE) =>
    \A w \in Pane : teams[w] # None => teams'[w] = teams[w]

THEOREM ContinuingPoachesNobody == Spec => NoPoaching
<1>1. IInv /\ [Next]_vars => [NoPoachingStep]_vars
  BY DEF OpenFolder, Survivors, NoPoachingStep
<1>2. NoPoaching <=> [][NoPoachingStep]_vars
  BY DEF NoPoaching, NoPoachingStep
<1> HIDE DEF NoPoachingStep
<1>3. QED
  BY <1>1, <1>2, InitIInv, NextIInv, PTL DEF Spec

-----------------------------------------------------------------------------
(* What `retain` leaves: some of the entries, each of them once.           *)
LEMMA EntriesFacts ==
  ASSUME NEW S, NEW s \in Seq(S), NEW K \in SUBSET DOMAIN s
  PROVE  /\ EntriesAt(s, K) \in Seq(S) /\ Len(EntriesAt(s, K)) = Cardinality(K)
         /\ \E at \in [1 .. Cardinality(K) -> K] :
              /\ \A k \in 1 .. Cardinality(K) : EntriesAt(s, K)[k] = s[at[k]]
              /\ \A k, l \in 1 .. Cardinality(K) : at[k] = at[l] => k = l
<1> DEFINE n == Cardinality(K)
           rank == [i \in K |-> Rank(K, i)]
           at == [k \in 1 .. n |-> CHOOSE i \in K : Rank(K, i) = k]
<1>1. DOMAIN s = 1 .. Len(s) /\ IsFiniteSet(1 .. Len(s))
  BY FS_Interval
<1>2. IsFiniteSet(K) /\ n \in Nat /\ \A i \in K : i \in Nat
  BY <1>1, FS_Subset, FS_CardinalityType
<1>3. IsFiniteSet(1 .. n) /\ Cardinality(1 .. n) = n
  BY <1>2, FS_Interval
<1>4. ASSUME NEW i \in K PROVE Rank(K, i) \in 1 .. n /\ IsFiniteSet({j \in K : j <= i})
  <2>1. IsFiniteSet({j \in K : j <= i}) /\ Cardinality({j \in K : j <= i}) <= n
    BY <1>2, FS_Subset
  <2>2. Cardinality({j \in K : j <= i}) \in Nat
    BY <2>1, FS_CardinalityType
  <2>3. i \in {j \in K : j <= i}
    BY <1>2
  <2>4. Cardinality({j \in K : j <= i}) # 0
    BY <2>1, <2>3, FS_EmptySet
  <2>5. QED
    BY <1>2, <2>1, <2>2, <2>4 DEF Rank
<1>5. ASSUME NEW i \in K, NEW l \in K, i < l PROVE Rank(K, i) # Rank(K, l)
  <2>1. {j \in K : j <= i} \in SUBSET {j \in K : j <= l}
    BY <1>2, <1>5
  <2>2. l \notin {j \in K : j <= i} /\ l \in {j \in K : j <= l}
    BY <1>2, <1>5
  <2>3. IsFiniteSet({j \in K : j <= l})
    BY <1>4
  <2>4. Cardinality({j \in K : j <= i}) # Cardinality({j \in K : j <= l})
    BY <2>1, <2>2, <2>3, FS_Subset
  <2>5. QED
    BY <2>4 DEF Rank
<1>6. \A i, l \in K : Rank(K, i) = Rank(K, l) => i = l
  BY <1>2, <1>5
<1>7. rank \in Injection(K, 1 .. n)
  BY <1>4, <1>6 DEF Injection, IsInjective
<1>8. rank \in Surjection(K, 1 .. n)
  BY <1>3, <1>7, FS_Injection
<1>9. \A k \in 1 .. n : \E i \in K : Rank(K, i) = k
  BY <1>8 DEF Surjection
<1>10. at \in [1 .. n -> K] /\ \A k \in 1 .. n : Rank(K, at[k]) = k
  BY <1>9
<1>11. EntriesAt(s, K) = [k \in 1 .. n |-> s[at[k]]]
  BY DEF EntriesAt
<1> HIDE DEF at, n
<1>12. \A k \in 1 .. n : s[at[k]] \in S
  BY <1>1, <1>10
<1>13. [k \in 1 .. n |-> s[at[k]]] \in Seq(S) /\ Len([k \in 1 .. n |-> s[at[k]]]) = n
  BY <1>2, <1>12
<1>14. \A k, l \in 1 .. n : at[k] = at[l] => k = l
  BY <1>10
<1>15. QED
  BY <1>10, <1>11, <1>13, <1>14 DEF n

(* A list of records of which no two are of one conversation or folder.    *)
Differ(r, t) == r.ident # t.ident /\ (r.dir = NoFolder \/ r.dir # t.dir)
Unlike(s) == \A i, j \in DOMAIN s : i # j => Differ(s[i], s[j])

LEMMA LatestFacts ==
  ASSUME NEW s \in Seq(Recent), Unlike(s)
  PROVE  Latest(s) \in Seq(Recent) /\ Unlike(Latest(s))
<1> DEFINE m == IF Len(s) < MaxRecents THEN Len(s) ELSE MaxRecents
<1>1. m \in 0 .. Len(s)
  BY TeamsAssumption
<1>2. Latest(s) = SubSeq(s, 1, m)
  BY DEF Latest
<1> HIDE DEF m
<1>3. /\ SubSeq(s, 1, m) \in Seq(Recent) /\ DOMAIN SubSeq(s, 1, m) = 1 .. m
      /\ \A k \in 1 .. m : SubSeq(s, 1, m)[k] = s[k]
  BY <1>1
<1>4. 1 .. m \subseteq DOMAIN s
  BY <1>1
<1>5. QED
  BY <1>2, <1>3, <1>4 DEF Unlike

LEMMA RememberFacts ==
  ASSUME recents \in Seq(Recent), Unlike(recents), NEW rec \in Recent
  PROVE  Remember(rec) \in Seq(Recent) /\ Unlike(Remember(rec))
<1> DEFINE K == {i \in DOMAIN recents :
                   /\ recents[i].ident # rec.ident
                   /\ rec.dir = NoFolder \/ recents[i].dir # rec.dir}
           t == EntriesAt(recents, K)
           n == Cardinality(K)
           u == <<rec>> \o t
<1>1. Remember(rec) = Latest(u)
  BY DEF Remember
<1>2. /\ t \in Seq(Recent) /\ Len(t) = n
      /\ \E at \in [1 .. n -> K] :
           /\ \A k \in 1 .. n : t[k] = recents[at[k]]
           /\ \A k, l \in 1 .. n : at[k] = at[l] => k = l
  <2>1. K \in SUBSET DOMAIN recents
    OBVIOUS
  <2> HIDE DEF K
  <2>2. QED
    BY <2>1, EntriesFacts
<1>3. PICK at \in [1 .. n -> K] :
        /\ \A k \in 1 .. n : t[k] = recents[at[k]]
        /\ \A k, l \in 1 .. n : at[k] = at[l] => k = l
  BY <1>2
<1>4. \A i \in K : Differ(rec, recents[i])
  BY DEF Differ
<1>5. \A i, j \in K : i # j => Differ(recents[i], recents[j])
  BY DEF Unlike
<1>6. n \in Nat
  BY <1>2
<1> HIDE DEF K, t, n
<1>7. /\ u \in Seq(Recent) /\ DOMAIN u = 1 .. n + 1 /\ u[1] = rec
      /\ \A k \in 1 .. n : u[k + 1] = t[k]
  BY <1>2
<1> HIDE DEF u
<1>8. \A k \in 1 .. n : Differ(rec, t[k]) /\ Differ(t[k], rec)
  BY <1>3, <1>4 DEF Differ
<1>9. \A k, l \in 1 .. n : k # l => Differ(t[k], t[l])
  BY <1>3, <1>5
<1>10. \A i \in 1 .. n + 1 : i = 1 \/ (i - 1 \in 1 .. n /\ u[i] = t[i - 1])
  <2> SUFFICES ASSUME NEW i \in 1 .. n + 1, i # 1 PROVE i - 1 \in 1 .. n /\ u[i] = t[i - 1]
    OBVIOUS
  <2>1. i - 1 \in 1 .. n /\ (i - 1) + 1 = i
    BY <1>6
  <2>2. QED
    BY <1>7, <2>1
<1>11. ASSUME NEW i \in 1 .. n + 1, NEW j \in 1 .. n + 1, i # j PROVE Differ(u[i], u[j])
  <2>1. CASE i = 1
    BY <1>7, <1>8, <1>10, <1>11, <2>1
  <2>2. CASE j = 1
    BY <1>7, <1>8, <1>10, <1>11, <2>2
  <2>3. CASE i # 1 /\ j # 1
    <3>1. i - 1 # j - 1
      BY <1>6, <1>11
    <3>2. QED
      BY <1>9, <1>10, <2>3, <3>1
  <2>4. QED
    BY <2>1, <2>2, <2>3
<1>12. Unlike(u)
  BY <1>7, <1>11 DEF Unlike
<1>13. QED
  BY <1>1, <1>7, <1>12, LatestFacts

RecentsOK == recents \in Seq(Recent) /\ Unlike(recents)

LEMMA NextRecentsOK == IInv /\ RecentsOK /\ [Next]_vars => RecentsOK'
<1> SUFFICES ASSUME IInv, RecentsOK, [Next]_vars PROVE RecentsOK'
  OBVIOUS
<1>1. ASSUME UNCHANGED recents PROVE RecentsOK'
  BY <1>1 DEF RecentsOK, Unlike
<1>2. ASSUME NEW p \in Pane, ExitOf(p) PROVE RecentsOK'
  <2>1. RecordOf(p) \in Recent
    BY DEF IInv, TypeOK, RecordOf, Recent, Members
  <2>2. recents' = recents \/ recents' = Remember(RecordOf(p))
    BY <1>2 DEF ExitOf
  <2>3. CASE recents' = Remember(RecordOf(p))
    BY <2>1, <2>3, RememberFacts DEF RecentsOK, Unlike
  <2>4. QED
    BY <1>1, <2>2, <2>3
<1>3. CASE \E p \in Pane : PaneExit(p) \/ CloseDead(p)
  BY <1>2, <1>3 DEF PaneExit, CloseDead
<1>4. CASE ~ \E p \in Pane : PaneExit(p) \/ CloseDead(p)
  <2>1. UNCHANGED recents
    BY <1>4 DEF Next, vars, OpenPane, AgentStart, TeamSet, TeamUnset, SetTeam, ClearTeam,
                StartOrchestrator, OpenFolder, Switch, ReportSession, Handoff, orchVars
  <2>2. QED
    BY <1>1, <2>1
<1>5. QED
  BY <1>3, <1>4

(* No conversation and no folder is among the recents twice, at any length *)
(* of the list and however heads come and go.                              *)
THEOREM RecentsStayUnique == Spec => []RecentsUnique
<1>1. Init => RecentsOK
  BY DEF Init, RecentsOK, Unlike
<1>2. RecentsOK => RecentsUnique
  BY DEF RecentsOK, Unlike, Differ, RecentsUnique
<1>3. QED
  BY <1>1, <1>2, InitIInv, NextIInv, NextRecentsOK, PTL DEF Spec
=============================================================================
