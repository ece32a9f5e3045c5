------------------------------ MODULE AgentsProofs ------------------------------
(* Conversations and panes, over any panes, conversations and processes.   *)
EXTENDS Agents, TLAPS

(* What the two properties need of the types.                              *)
Typed ==
  /\ open \subseteq Pane /\ young \subseteq open /\ DOMAIN saved \subseteq Pane
  /\ \A r \in hooks : r.pane \in Pane /\ r.convo \in Hooked
  /\ newest \in Filed \cup {None}
  /\ ident \in [Pane -> Convo \cup {None}]
  /\ \A p \in Pane : ident[p] # None => p \in open

(* No two leaves of the snapshot resume one session file.                  *)
SavedOnce ==
  \A p, q \in DOMAIN saved : saved[p] \in Filed /\ saved[p] = saved[q] => p = q

(* A pane whose agent was not seen has the conversation that is saved.     *)
UnseenKept ==
  \A p \in open \ seen : p \in DOMAIN saved /\ saved[p] \in Convo => ident[p] \in Convo

IInv == Typed /\ FiledOnce /\ SavedOnce /\ UnseenKept

LEMMA InitIInv == Init => IInv
BY AgentsAssumption
   DEF Init, IInv, Typed, FiledOnce, SavedOnce, UnseenKept, Convo

(* Discovery gives at most one pane a conversation, which no other has, and*)
(* takes none from any.                                                    *)
LEMMA FoundFacts ==
  ASSUME NEW bound \in [Pane -> Convo \cup {None}], NEW b \in Found(bound),
         Typed,
         \A p, q \in Pane : bound[p] \in Filed /\ bound[p] = bound[q] => p = q,
         \A p \in Pane : bound[p] # None => p \in open
  PROVE  /\ b \in [Pane -> Convo \cup {None}]
         /\ \A p, q \in Pane : b[p] \in Filed /\ b[p] = b[q] => p = q
         /\ \A p \in Pane : b[p] # None => p \in open
         /\ \A p \in Pane : bound[p] # None => b[p] = bound[p]
<1>1. CASE Finders(bound) = {}
  BY <1>1 DEF Found
<1>2. CASE Finders(bound) # {}
  <2>1. newest \notin {bound[p] : p \in open}
    BY <1>2 DEF Finders
  <2>2. PICK p \in Finders(bound) : b = [bound EXCEPT ![p] = newest]
    BY <1>2 DEF Found
  <2>3. p \in open /\ p \in Pane /\ bound[p] = None
    BY <2>2, <2>1 DEF Finders, Typed
  <2>4. newest \in Convo \cup {None}
    BY DEF Typed, Convo
  <2>5. \A q \in Pane : bound[q] # newest \/ q \notin open
    BY <2>1
  <2>6. newest # None => \A q \in Pane : bound[q] # newest
    BY <2>5
  <2>7. QED
    BY <2>2, <2>3, <2>4, <2>6, AgentsAssumption DEF Convo
<1>3. QED
  BY <1>1, <1>2

(* A save, of what is bound or of what a hook has just bound.              *)
LEMMA SaveIInv ==
  ASSUME IInv, NEW bound \in [Pane -> Convo \cup {None}], SaveSession(bound),
         \A p, q \in Pane : bound[p] \in Filed /\ bound[p] = bound[q] => p = q,
         \A p \in Pane : bound[p] # None => p \in open,
         UNCHANGED <<open, world>>, hooks' \subseteq hooks, young' \subseteq young
  PROVE  IInv'
<1>1. /\ ident' \in [Pane -> Convo \cup {None}]
      /\ \A p, q \in Pane : ident'[p] \in Filed /\ ident'[p] = ident'[q] => p = q
      /\ \A p \in Pane : ident'[p] # None => p \in open
  BY FoundFacts DEF SaveSession, IInv
<1>2. /\ DOMAIN saved' = open
      /\ \A p \in open : saved'[p] = IF ident'[p] = None /\ agent[p] # None THEN Bare ELSE ident'[p]
  BY DEF SaveSession
<1>3. Typed'
  BY <1>1, <1>2 DEF IInv, Typed, world
<1>4. FiledOnce'
  BY <1>1 DEF FiledOnce
<1>5. SavedOnce' /\ UnseenKept'
  BY <1>1, <1>2, AgentsAssumption DEF IInv, Typed, SavedOnce, UnseenKept, Convo
<1>6. QED
  BY <1>3, <1>4, <1>5 DEF IInv

-----------------------------------------------------------------------------
LEMMA NextIInv == IInv /\ [Next]_vars => IInv'
<1> SUFFICES ASSUME IInv, [Next]_vars PROVE IInv'
  OBVIOUS
<1> USE AgentsAssumption
(* Agents bind nothing by themselves.                                      *)
<1>1. ASSUME Typed', young' \subseteq open, UNCHANGED <<open, seen, ident, saved>>
      PROVE  IInv'
  BY <1>1 DEF IInv, FiledOnce, SavedOnce, UnseenKept
<1>2. ASSUME NEW p \in Pane, NEW c \in Convo,
             StartAgent(p, c) \/ SwitchTalk(p, c) \/ NestedReports(p, c)
      PROVE  IInv'
  <2>1. \A i : Announce(p, i, c) => \A r \in hooks' : r.pane \in Pane /\ r.convo \in Hooked
    BY DEF Announce, Report, IInv, Typed
  <2>2. CASE StartAgent(p, c) \/ NestedReports(p, c)
    BY <1>1, <2>1, <2>2 DEF StartAgent, NestedReports, sight, IInv, Typed
  <2>3. CASE SwitchTalk(p, c)
    BY <1>1, <2>1, <2>3 DEF SwitchTalk, sight, IInv, Typed
  <2>4. QED
    BY <1>2, <2>2, <2>3
<1>3. ASSUME NEW p \in Pane, WriteFile(p) PROVE IInv'
  BY <1>1, <1>3 DEF WriteFile, IInv, Typed
<1>4. ASSUME NEW p \in Pane, AgentExits(p) PROVE IInv'
  BY <1>1, <1>4 DEF AgentExits, sight, IInv, Typed
<1>5. ASSUME NEW p \in Pane, PaneExit(p) PROVE IInv'
  BY <1>5 DEF PaneExit, IInv, Typed, FiledOnce, SavedOnce, UnseenKept
<1>6. ASSUME NEW r \in hooks, HookArrives(r) PROVE IInv'
  <2>1. r.pane \in Pane /\ r.convo \in Hooked
    BY DEF IInv, Typed
  <2>2. CASE r.pane \in open /\ Speaks(r)
    <3> DEFINE bound == [ident EXCEPT ![r.pane] = r.convo]
    <3>1. SaveSession(bound)
      BY <1>6, <2>2 DEF HookArrives
    <3>2. /\ bound \in [Pane -> Convo \cup {None}]
          /\ \A p, q \in Pane : bound[p] \in Filed /\ bound[p] = bound[q] => p = q
          /\ \A p \in Pane : bound[p] # None => p \in open
      BY <2>1, <2>2 DEF IInv, Typed, FiledOnce, Convo
    <3>3. UNCHANGED <<open, world>> /\ hooks' \subseteq hooks /\ young' = young
      BY <1>6 DEF HookArrives, sight
    <3> HIDE DEF bound
    <3>4. QED
      BY <3>1, <3>2, <3>3, SaveIInv
  <2>3. CASE ~(r.pane \in open /\ Speaks(r))
    BY <1>1, <1>6, <2>3 DEF HookArrives, world, sight, IInv, Typed
  <2>4. QED
    BY <2>2, <2>3
<1>7. ASSUME NEW r \in hooks, HookLost(r) PROVE IInv'
  BY <1>1, <1>7 DEF HookLost, world, sight, IInv, Typed
<1>8. CASE Autosave
  BY <1>8, SaveIInv DEF Autosave, sight, IInv, Typed, FiledOnce
<1>9. CASE Poll
  <2>1. PICK s \in Sightings :
          /\ seen' = seen \cup {p \in open : s[p] = "process"}
          /\ ident' = [p \in Pane |-> IF Released(p, s[p]) THEN None ELSE ident[p]]
          /\ \E recent \in SUBSET (IF newest = None THEN {} ELSE Appeared) :
               young' = recent \cup {p \in young : agent'[p] = agent[p]}
          /\ UNCHANGED <<open, world, hooks, saved>>
    BY <1>9 DEF Poll
  <2>2. young' \subseteq open
    BY <2>1 DEF Appeared, IInv, Typed
  <2>3. Typed'
    BY <2>1, <2>2 DEF IInv, Typed, world
  <2>4. FiledOnce' /\ SavedOnce'
    BY <2>1 DEF IInv, FiledOnce, SavedOnce
  <2>5. \A p \in Pane : Released(p, s[p]) => p \in seen
    BY DEF Released, GoneAgain
  <2>6. UnseenKept'
    BY <2>1, <2>5 DEF IInv, Typed, UnseenKept
  <2>7. QED
    BY <2>3, <2>4, <2>6 DEF IInv
<1>10. CASE Restart
  <2>1. /\ open' = DOMAIN saved /\ young' = {} /\ UNCHANGED <<talk, newest, hooks, saved>>
        /\ ident' = [p \in Pane |-> IF p \in DOMAIN saved THEN Seeded(saved[p]) ELSE None]
    BY <1>10 DEF Restart, Unseen
  <2>2. Typed'
    BY <2>1 DEF IInv, Typed, Seeded
  <2>3. FiledOnce'
    BY <2>1 DEF IInv, Typed, FiledOnce, SavedOnce, Seeded, Convo
  <2>4. SavedOnce' /\ UnseenKept'
    BY <2>1 DEF IInv, Typed, SavedOnce, UnseenKept, Seeded
  <2>5. QED
    BY <2>2, <2>3, <2>4 DEF IInv
<1>11. CASE Handoff
  BY <1>11, SaveIInv DEF Handoff, Unseen, IInv, Typed, FiledOnce
<1>12. CASE UNCHANGED vars
  BY <1>1, <1>12 DEF vars, world, sight, IInv, Typed
<1>13. QED
  BY <1>2, <1>3, <1>4, <1>5, <1>6, <1>7, <1>8, <1>9, <1>10, <1>11, <1>12 DEF Next

-----------------------------------------------------------------------------
(* Types: what the poll, the processes and the snapshot hold.              *)
LEMMA SaveTypeOK ==
  ASSUME IInv, TypeOK, NEW bound \in [Pane -> Convo \cup {None}], SaveSession(bound),
         \A p, q \in Pane : bound[p] \in Filed /\ bound[p] = bound[q] => p = q,
         \A p \in Pane : bound[p] # None => p \in open
  PROVE  /\ ident' \in [Pane -> Convo \cup {None}] /\ DOMAIN saved' \subseteq Pane
         /\ \A p \in DOMAIN saved' : saved'[p] \in Convo \cup {Bare, None}
<1>1. ident' \in [Pane -> Convo \cup {None}]
  BY FoundFacts DEF SaveSession, IInv
<1>2. QED
  BY <1>1 DEF SaveSession, TypeOK

LEMMA NextTypeOK == IInv /\ TypeOK /\ [Next]_vars => TypeOK'
<1> SUFFICES ASSUME IInv, TypeOK, [Next]_vars PROVE TypeOK'
  OBVIOUS
<1> USE AgentsAssumption
<1>0. 0 \in 0 .. GonePolls
  OBVIOUS
<1>1. ASSUME NEW p \in Pane, NEW c \in Convo,
             StartAgent(p, c) \/ SwitchTalk(p, c) \/ NestedReports(p, c)
      PROVE  TypeOK'
  <2>1. \A i \in Pid : Announce(p, i, c) => hooks' \subseteq [pane : Pane, pid : Pid, convo : Hooked]
    BY DEF Announce, Report, TypeOK
  <2>2. CASE StartAgent(p, c)
    BY <2>1, <2>2 DEF StartAgent, sight, TypeOK
  <2>3. CASE SwitchTalk(p, c)
    <3>1. runs[p] \in Pid
      BY <2>3 DEF SwitchTalk, TypeOK
    <3>2. QED
      BY <2>1, <2>3, <3>1 DEF SwitchTalk, sight, TypeOK
  <2>4. CASE NestedReports(p, c)
    BY <2>1, <2>4 DEF NestedReports, sight, TypeOK
  <2>5. QED
    BY <1>1, <2>2, <2>3, <2>4
<1>2. ASSUME NEW p \in Pane, WriteFile(p) PROVE TypeOK'
  BY <1>2 DEF WriteFile, TypeOK
<1>3. ASSUME NEW p \in Pane, AgentExits(p) \/ PaneExit(p) PROVE TypeOK'
  <2>1. CASE AgentExits(p)
    BY <1>3, <2>1 DEF AgentExits, sight, TypeOK
  <2>2. CASE PaneExit(p)
    BY <1>0, <2>2 DEF PaneExit, TypeOK
  <2>3. QED
    BY <1>3, <2>1, <2>2
<1>4. ASSUME NEW r \in hooks, HookArrives(r) PROVE TypeOK'
  <2>1. r.pane \in Pane /\ r.convo \in Convo
    BY DEF TypeOK, Convo
  <2>2. CASE r.pane \in open /\ Speaks(r)
    <3> DEFINE bound == [ident EXCEPT ![r.pane] = r.convo]
    <3>1. SaveSession(bound)
      BY <1>4, <2>2 DEF HookArrives
    <3>2. /\ bound \in [Pane -> Convo \cup {None}]
          /\ \A p, q \in Pane : bound[p] \in Filed /\ bound[p] = bound[q] => p = q
          /\ \A p \in Pane : bound[p] # None => p \in open
      BY <2>1, <2>2 DEF IInv, Typed, FiledOnce, Convo, TypeOK
    <3>3. /\ ident' \in [Pane -> Convo \cup {None}] /\ DOMAIN saved' \subseteq Pane
          /\ \A p \in DOMAIN saved' : saved'[p] \in Convo \cup {Bare, None}
      <4> HIDE DEF bound
      <4>1. QED BY <3>1, <3>2, SaveTypeOK
    <3>4. QED
      BY <1>4, <3>3 DEF HookArrives, world, sight, TypeOK
  <2>3. CASE ~(r.pane \in open /\ Speaks(r))
    BY <1>4, <2>3 DEF HookArrives, world, sight, TypeOK
  <2>4. QED
    BY <2>2, <2>3
<1>5. ASSUME NEW r \in hooks, HookLost(r) PROVE TypeOK'
  BY <1>5 DEF HookLost, world, sight, TypeOK
<1>6. CASE Autosave
  BY <1>6, SaveTypeOK DEF Autosave, world, sight, IInv, Typed, FiledOnce, TypeOK
<1>7. CASE Poll
  <2>1. PICK s \in Sightings :
          /\ agent' = [p \in Pane |-> KindSeen(p, s[p])]
          /\ tracked' = [p \in Pane |-> IF s[p] = "process" THEN runs[p] ELSE 0]
          /\ gone' = [p \in Pane |-> IF Released(p, s[p]) THEN GonePolls
                                     ELSE IF GoneAgain(p, s[p]) THEN gone[p] + 1 ELSE 0]
          /\ ident' = [p \in Pane |-> IF Released(p, s[p]) THEN None ELSE ident[p]]
          /\ UNCHANGED <<open, world, hooks, saved>>
    BY <1>7 DEF Poll
  <2>2. \A p \in Pane : s[p] \in {None, "hooked", "filed", "process"}
    BY DEF Sightings
  <2>3. agent' \in [Pane -> {None, "hooked", "filed"}]
    BY <2>1, <2>2 DEF KindSeen, Kind
  <2>4. tracked' \in [Pane -> Pid \cup {0}]
    BY <2>1 DEF TypeOK
  <2>5. gone' \in [Pane -> 0 .. GonePolls]
    <3>1. \A p \in Pane : gone[p] \in Nat /\ gone[p] <= GonePolls
      BY DEF TypeOK
    <3>2. \A p \in Pane : gone'[p] \in 0 .. GonePolls
      BY <2>1, <3>1 DEF Released
    <3>3. QED
      BY <2>1, <3>2
  <2>6. ident' \in [Pane -> Convo \cup {None}]
    BY <2>1 DEF TypeOK
  <2>7. QED
    BY <2>1, <2>3, <2>4, <2>5, <2>6 DEF world, TypeOK
<1>8. CASE Restart
  BY <1>8 DEF Restart, Unseen, Seeded, TypeOK, Pid
<1>9. CASE Handoff
  <2>1. SaveSession(ident)
    BY <1>9 DEF Handoff
  <2>2. /\ ident' \in [Pane -> Convo \cup {None}] /\ DOMAIN saved' \subseteq Pane
        /\ \A p \in DOMAIN saved' : saved'[p] \in Convo \cup {Bare, None}
    BY <2>1, SaveTypeOK DEF IInv, Typed, FiledOnce
  <2>3. QED
    BY <1>0, <1>9, <2>2 DEF Handoff, Unseen, world, TypeOK
<1>10. CASE UNCHANGED vars
  BY <1>10 DEF vars, world, sight, TypeOK
<1>11. QED
  BY <1>1, <1>2, <1>3, <1>4, <1>5, <1>6, <1>7, <1>8, <1>9, <1>10 DEF Next

(* The state stays of its type.                                            *)
THEOREM TypeCorrect == Spec => []TypeOK
<1>1. Init => TypeOK
  BY AgentsAssumption DEF Init, TypeOK, Pid
<1>2. QED
  BY <1>1, InitIInv, NextIInv, NextTypeOK, PTL DEF Spec

-----------------------------------------------------------------------------
(* Two panes of one folder never take the same session file.               *)
THEOREM FiledAtMostOnce == Spec => []FiledOnce
<1>1. IInv => FiledOnce
  BY DEF IInv
<1>2. QED
  BY <1>1, InitIInv, NextIInv, PTL DEF Spec

(* Only a save changes the snapshot, and it drops no conversation that is  *)
(* bound.                                                                  *)
LEMMA SaveForgetsSeen ==
  ASSUME IInv, NEW bound \in [Pane -> Convo \cup {None}], SaveSession(bound),
         \A p, q \in Pane : bound[p] \in Filed /\ bound[p] = bound[q] => p = q,
         \A p \in Pane : bound[p] # None => p \in open,
         \A p \in Pane : ident[p] # None => bound[p] # None
  PROVE  OnlySeenForgotten
<1>1. /\ ident' \in [Pane -> Convo \cup {None}]
      /\ \A p \in Pane : ident[p] # None => ident'[p] # None
  BY FoundFacts DEF SaveSession, IInv
<1>2. /\ DOMAIN saved' = open
      /\ \A p \in open : ident'[p] # None => saved'[p] = ident'[p]
  BY DEF SaveSession
<1>3. QED
  BY <1>1, <1>2, AgentsAssumption DEF IInv, Typed, UnseenKept, OnlySeenForgotten, Forgets, Convo

(* The snapshot forgets the conversation of a pane only with the pane, or  *)
(* once its agent was seen, however often the server restarts.             *)
THEOREM ConversationsRecoverable == Spec => Recoverable
<1>1. IInv /\ [Next]_vars => [OnlySeenForgotten]_vars
  <2> SUFFICES ASSUME IInv, Next PROVE OnlySeenForgotten \/ UNCHANGED vars
    OBVIOUS
  <2>1. CASE saved' = saved
    BY <2>1 DEF OnlySeenForgotten, Forgets
  <2>2. CASE Autosave \/ Handoff
    BY <2>2, SaveForgetsSeen DEF Autosave, Handoff, IInv, Typed, FiledOnce
  <2>3. ASSUME NEW r \in hooks, HookArrives(r) PROVE OnlySeenForgotten \/ UNCHANGED vars
    <3>1. r.pane \in Pane /\ r.convo \in Hooked
      BY DEF IInv, Typed
    <3>2. CASE r.pane \in open /\ Speaks(r)
      <4> DEFINE bound == [ident EXCEPT ![r.pane] = r.convo]
      <4>1. SaveSession(bound)
        BY <2>3, <3>2 DEF HookArrives
      <4>2. /\ bound \in [Pane -> Convo \cup {None}]
            /\ \A p, q \in Pane : bound[p] \in Filed /\ bound[p] = bound[q] => p = q
            /\ \A p \in Pane : bound[p] # None => p \in open
            /\ \A p \in Pane : ident[p] # None => bound[p] # None
        BY <3>1, <3>2, AgentsAssumption DEF IInv, Typed, FiledOnce, Convo
      <4> HIDE DEF bound
      <4>3. QED
        BY <4>1, <4>2, SaveForgetsSeen
    <3>3. CASE ~(r.pane \in open /\ Speaks(r))
      BY <2>1, <2>3, <3>3 DEF HookArrives
    <3>4. QED
      BY <3>2, <3>3
  <2>4. ASSUME NEW p \in Pane, NEW c \in Convo,
               StartAgent(p, c) \/ SwitchTalk(p, c) \/ NestedReports(p, c)
        PROVE  saved' = saved
    BY <2>4 DEF StartAgent, SwitchTalk, NestedReports
  <2>5. ASSUME NEW p \in Pane, WriteFile(p) \/ AgentExits(p) \/ PaneExit(p)
        PROVE  saved' = saved
    BY <2>5 DEF WriteFile, AgentExits, PaneExit
  <2>6. (\E r \in hooks : HookLost(r)) \/ Poll \/ Restart => saved' = saved
    BY DEF HookLost, Poll, Restart
  <2>7. QED
    BY <2>1, <2>2, <2>3, <2>4, <2>5, <2>6 DEF Next
<1>2. Recoverable <=> [][OnlySeenForgotten]_vars
  BY DEF Recoverable
<1> HIDE DEF Recoverable
<1>3. QED
  BY <1>1, <1>2, InitIInv, NextIInv, PTL DEF Spec
=============================================================================
