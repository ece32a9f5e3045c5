--------------------------- MODULE CoordinationProofs ---------------------------
(* What the panes of a team share in the server, for any workers, clients, *)
(* panes, lock names and number of reports: the result queues are FIFOs, a *)
(* finished worker is left in peace, and the named locks exclude each      *)
(* other.                                                                  *)
EXTENDS TaskResults, Locks, FiniteSetTheorems, SequenceTheorems, TLAPS

(* A worker that has reported and got nothing new to do has its result     *)
(* parked or collected, and the stall watchdog looks at both.              *)
Watched ==
  \A p \in live : reported[p] > 0 /\ p \notin inFlight => queue[p] # <<>> \/ p \in collected

(* The history of a pane: every number reported, in order.                 *)
Numbers(n) == [k \in 1 .. n |-> k]

IInv == TypeOK /\ Fifo /\ Watched

-----------------------------------------------------------------------------
(* Lemmas on sequences of results.                                         *)

LEMMA AppendNumber ==
  ASSUME NEW n \in Nat, NEW s \in Seq(Nat), NEW t \in Seq(Nat), s \o t = Numbers(n)
  PROVE  s \o Append(t, n + 1) = Numbers(n + 1)
<1>1. s \o Append(t, n + 1) = Append(s \o t, n + 1)
  OBVIOUS
<1>2. Append(Numbers(n), n + 1) = Numbers(n + 1)
  BY DEF Numbers
<1>3. QED
  BY <1>1, <1>2

LEMMA MoveHead ==
  ASSUME NEW s \in Seq(Nat), NEW t \in Seq(Nat), t # <<>>
  PROVE  /\ Append(s, Head(t)) \o Tail(t) = s \o t
         /\ Append(s, Head(t)) \in Seq(Nat) /\ Tail(t) \in Seq(Nat)
OBVIOUS

LEMMA ResultsAssociative ==
  ASSUME NEW r \in Seq(Nat), NEW s \in Seq(Nat), NEW t \in Seq(Nat)
  PROVE  (r \o s) \o t = r \o (s \o t)
OBVIOUS

LEMMA ConcatResults ==
  ASSUME NEW r \in Seq(Nat), NEW s \in Seq(Nat)
  PROVE  /\ r \o s \in Seq(Nat)
         /\ Len(r \o s) = Len(r) + Len(s)
         /\ \A i \in 1 .. Len(r) : (r \o s)[i] = r[i]
         /\ \A i \in Len(r) + 1 .. Len(r) + Len(s) : (r \o s)[i] = s[i - Len(r)]
OBVIOUS

LEMMA SameResults ==
  ASSUME NEW r \in Seq(Nat), NEW s \in Seq(Nat), Len(r) = Len(s),
         \A i \in 1 .. Len(s) : r[i] = s[i]
  PROVE  r = s
OBVIOUS

LEMMA PrefixAndRest ==
  ASSUME NEW t \in Seq(Nat), NEW d \in 0 .. Len(t)
  PROVE  SubSeq(t, 1, d) \o SubSeq(t, d + 1, Len(t)) = t
<1> DEFINE u == SubSeq(t, 1, d)
           v == SubSeq(t, d + 1, Len(t))
           w == u \o v
<1>1. Len(t) \in Nat /\ d \in Nat /\ d <= Len(t)
  OBVIOUS
<1>2. u \in Seq(Nat) /\ Len(u) = d /\ \A i \in 1 .. d : u[i] = t[i]
  OBVIOUS
<1>3. /\ v \in Seq(Nat) /\ Len(v) = Len(t) - d
      /\ \A i \in 1 .. Len(t) - d : v[i] = t[d + i]
  BY <1>1
<1> HIDE DEF u, v
<1>4. /\ w \in Seq(Nat) /\ Len(w) = Len(u) + Len(v)
      /\ \A i \in 1 .. Len(u) : w[i] = u[i]
      /\ \A i \in Len(u) + 1 .. Len(u) + Len(v) : w[i] = v[i - Len(u)]
  BY <1>2, <1>3, ConcatResults, Zenon
<1> HIDE DEF w
<1>5. Len(w) = Len(t)
  BY <1>1, <1>2, <1>3, <1>4
<1>6. ASSUME NEW i \in 1 .. Len(t) PROVE w[i] = t[i]
  <2>1. CASE i <= d
    BY <1>1, <1>2, <1>4, <2>1
  <2>2. CASE i > d
    <3>1. w[i] = v[i - d]
      BY <1>1, <1>2, <1>3, <1>4, <2>2
    <3>2. v[i - d] = t[d + (i - d)]
      BY <1>1, <1>3, <2>2
    <3>3. QED
      BY <1>1, <3>1, <3>2
  <2>3. QED
    BY <1>1, <2>1, <2>2
<1>7. w = t
  BY <1>4, <1>5, <1>6, SameResults
<1>8. QED
  BY <1>7 DEF u, v, w

LEMMA MovePrefix ==
  ASSUME NEW s \in Seq(Nat), NEW t \in Seq(Nat), NEW d \in 0 .. Len(t)
  PROVE  /\ (s \o SubSeq(t, 1, d)) \o SubSeq(t, d + 1, Len(t)) = s \o t
         /\ s \o SubSeq(t, 1, d) \in Seq(Nat)
         /\ SubSeq(t, d + 1, Len(t)) \in Seq(Nat)
<1>1. SubSeq(t, 1, d) \in Seq(Nat) /\ SubSeq(t, d + 1, Len(t)) \in Seq(Nat)
  OBVIOUS
<1>2. SubSeq(t, 1, d) \o SubSeq(t, d + 1, Len(t)) = t
  BY PrefixAndRest
<1>3. (s \o SubSeq(t, 1, d)) \o SubSeq(t, d + 1, Len(t))
        = s \o (SubSeq(t, 1, d) \o SubSeq(t, d + 1, Len(t)))
  BY <1>1, ResultsAssociative, Zenon
<1>4. s \o SubSeq(t, 1, d) \in Seq(Nat)
  BY <1>1
<1>5. QED
  BY <1>1, <1>2, <1>3, <1>4

-----------------------------------------------------------------------------
LEMMA InitIInv == Init => IInv
<1> SUFFICES ASSUME Init PROVE IInv
  OBVIOUS
<1>1. TypeOK
  BY ReportAssumption DEF Init, TypeOK
<1>2. Fifo
  <2>1. <<>> \o <<>> = [k \in 1 .. 0 |-> k]
    OBVIOUS
  <2>2. QED
    BY <2>1 DEF Init, Fifo
<1>3. Watched
  BY DEF Init, Watched
<1>4. QED
  BY <1>1, <1>2, <1>3 DEF IInv

(* Actions that leave the queues and their histories alone.                *)
LEMMA FifoUnchanged ==
  ASSUME Fifo, UNCHANGED <<queue, taken, reported>>
  PROVE  Fifo'
BY DEF Fifo

LEMMA TaskDoneIInv ==
  ASSUME IInv, NEW p \in Worker, TaskDone(p)
  PROVE  IInv'
<1>1. TypeOK'
  BY DEF TaskDone, IInv, TypeOK
<1>2. Fifo'
  <2>1. ASSUME NEW q \in Worker PROVE taken'[q] \o queue'[q] = [k \in 1 .. reported'[q] |-> k]
    <3>1. CASE q = p
      <4>1. taken[p] \o queue[p] = Numbers(reported[p])
        BY DEF IInv, Fifo, Numbers
      <4>2. taken[p] \o Append(queue[p], reported[p] + 1) = Numbers(reported[p] + 1)
        BY <4>1, AppendNumber DEF IInv, TypeOK
      <4>3. /\ taken'[p] = taken[p] /\ reported'[p] = reported[p] + 1
            /\ queue'[p] = Append(queue[p], reported[p] + 1)
        BY DEF TaskDone, IInv, TypeOK
      <4>4. QED
        BY <3>1, <4>2, <4>3 DEF Numbers
    <3>2. CASE q # p
      BY <3>2 DEF TaskDone, IInv, TypeOK, Fifo
    <3>3. QED
      BY <3>1, <3>2
  <2>2. QED
    BY <2>1 DEF Fifo
<1>3. Watched'
  <2>1. queue'[p] # <<>>
    <3>1. queue'[p] = Append(queue[p], reported[p] + 1)
      BY DEF TaskDone, IInv, TypeOK
    <3>2. queue[p] \in Seq(Nat) /\ reported[p] + 1 \in Nat
      BY DEF IInv, TypeOK
    <3>3. Append(queue[p], reported[p] + 1) # <<>>
      BY <3>2
    <3>4. QED
      BY <3>1, <3>3
  <2>2. QED
    BY <2>1 DEF TaskDone, IInv, TypeOK, Watched
<1>4. QED
  BY <1>1, <1>2, <1>3 DEF IInv

(* One result leaves the queue of p, and p is done when it was the last.   *)
LEMMA TakeOneIInv ==
  ASSUME IInv, NEW p \in Worker, queue[p] # <<>>,
         queue' = [queue EXCEPT ![p] = Tail(@)],
         taken' = [taken EXCEPT ![p] = Append(@, Head(queue[p]))],
         collected \subseteq collected', collected' \in SUBSET Worker,
         Tail(queue[p]) = <<>> => p \in collected',
         UNCHANGED <<live, nudged, silent, excused, waiting, gone, reported, wasted, inFlight>>
  PROVE  IInv'
<1>1. /\ Append(taken[p], Head(queue[p])) \o Tail(queue[p]) = taken[p] \o queue[p]
      /\ Append(taken[p], Head(queue[p])) \in Seq(Nat) /\ Tail(queue[p]) \in Seq(Nat)
  BY MoveHead DEF IInv, TypeOK
<1>2. /\ queue'[p] = Tail(queue[p]) /\ taken'[p] = Append(taken[p], Head(queue[p]))
      /\ \A q \in Worker \ {p} : queue'[q] = queue[q] /\ taken'[q] = taken[q]
  BY DEF IInv, TypeOK
<1>3. TypeOK'
  BY <1>1 DEF IInv, TypeOK
<1>4. Fifo'
  BY <1>1, <1>2 DEF IInv, Fifo
<1>5. Watched'
  BY <1>2 DEF IInv, TypeOK, Watched
<1>6. QED
  BY <1>3, <1>4, <1>5 DEF IInv

LEMMA TaskResultIInv ==
  ASSUME IInv, NEW p \in Worker, TaskResult(p)
  PROVE  IInv'
<1>1. /\ queue[p] # <<>>
      /\ queue' = [queue EXCEPT ![p] = Tail(@)]
      /\ taken' = [taken EXCEPT ![p] = Append(@, Head(queue[p]))]
      /\ UNCHANGED <<live, nudged, silent, excused, waiting, gone, reported, wasted, inFlight>>
  BY DEF TaskResult
<1>2. /\ collected \subseteq collected' /\ collected' \in SUBSET Worker
      /\ Tail(queue[p]) = <<>> => p \in collected'
  BY DEF TaskResult, CollectedWhen, IInv, TypeOK
<1>3. QED
  BY <1>1, <1>2, TakeOneIInv

LEMMA WaitTaskResultIInv ==
  ASSUME IInv, NEW c \in Client, NEW p \in Worker, WaitTaskResult(c, p)
  PROVE  IInv'
<1>1. CASE queue[p] # <<>>
  <2>1. /\ queue' = [queue EXCEPT ![p] = Tail(@)]
        /\ taken' = [taken EXCEPT ![p] = Append(@, Head(queue[p]))]
        /\ collected' = collected \cup {p}
        /\ UNCHANGED <<live, nudged, silent, excused, waiting, gone, reported, wasted, inFlight>>
    BY <1>1 DEF WaitTaskResult
  <2>2. collected' \in SUBSET Worker
    BY <2>1 DEF IInv, TypeOK
  <2>3. QED
    BY <1>1, <2>1, <2>2, TakeOneIInv
<1>2. CASE queue[p] = <<>>
  <2>1. /\ waiting[c] = NoPane /\ waiting' = [waiting EXCEPT ![c] = p]
        /\ UNCHANGED <<live, queue, taken, collected, nudged, silent, excused, gone, reported,
                       wasted, inFlight>>
    BY <1>2 DEF WaitTaskResult
  <2>2. TypeOK'
    BY <2>1, ReportAssumption DEF IInv, TypeOK
  <2>3. QED
    BY <2>1, <2>2, FifoUnchanged DEF IInv, Watched
<1>3. QED
  BY <1>1, <1>2

(* How many results a poll takes from a queue: never more than there are.  *)
LEMMA DueInRange ==
  ASSUME TypeOK, NEW p \in Worker
  PROVE  /\ Due(p) \in 0 .. Len(queue[p])
         /\ Due(p) = 0 => Rest(p) = queue[p]
<1>1. Cardinality(Waiters(p)) \in Nat
  BY ReportAssumption, FS_Subset, FS_CardinalityType DEF Waiters
<1>2. Due(p) \in 0 .. Len(queue[p])
  BY <1>1 DEF Due, TypeOK
<1>3. Due(p) = 0 => Rest(p) = queue[p]
  <2>1. SubSeq(queue[p], 1, Len(queue[p])) = queue[p]
    BY DEF TypeOK
  <2>2. QED
    BY <2>1 DEF Rest
<1>4. QED
  BY <1>2, <1>3

LEMMA CheckWaitersIInv ==
  ASSUME IInv, NEW late \in SUBSET Client, CheckWaiters(late)
  PROVE  IInv'
<1>1. PICK served \in SUBSET {c \in Client : waiting[c] # NoPane} :
        LET answered == served \cup late \cup {c \in Client : waiting[c] \notin live}
        IN /\ \A p \in Worker : Cardinality(served \cap Waiters(p)) = Due(p)
           /\ queue' = [p \in Worker |-> Rest(p)]
           /\ taken' = [p \in Worker |-> taken[p] \o DueResults(p)]
           /\ collected' = collected \cup {p \in Worker : Due(p) > 0}
           /\ waiting' = [c \in Client |-> IF c \in answered THEN NoPane ELSE waiting[c]]
           /\ gone' = gone \ answered
           /\ wasted' = wasted + Cardinality(served \cap gone)
           /\ UNCHANGED <<live, nudged, silent, reported, inFlight, excused>>
  BY DEF CheckWaiters
<1>2. ASSUME NEW p \in Worker
      PROVE  /\ (taken[p] \o DueResults(p)) \o Rest(p) = taken[p] \o queue[p]
             /\ taken[p] \o DueResults(p) \in Seq(Nat)
             /\ Rest(p) \in Seq(Nat)
  <2>1. taken[p] \in Seq(Nat) /\ queue[p] \in Seq(Nat) /\ Due(p) \in 0 .. Len(queue[p])
    BY DueInRange DEF IInv, TypeOK
  <2>2. QED
    BY <2>1, MovePrefix DEF DueResults, Rest
<1>3. TypeOK'
  <2>1. Cardinality(served \cap gone) \in Nat
    BY ReportAssumption, FS_Subset, FS_CardinalityType
  <2>2. QED
    BY <1>1, <1>2, <2>1 DEF IInv, TypeOK
<1>4. Fifo'
  BY <1>1, <1>2 DEF IInv, Fifo
<1>5. Watched'
  <2>1. ASSUME NEW p \in Worker, Due(p) = 0 PROVE queue'[p] = queue[p]
    BY <1>1, <2>1, DueInRange DEF IInv
  <2>2. ASSUME NEW p \in Worker, Due(p) # 0 PROVE p \in collected'
    BY <1>1, <2>2, DueInRange DEF IInv, TypeOK
  <2>3. collected \subseteq collected'
    BY <1>1
  <2>4. QED
    BY <1>1, <2>1, <2>2, <2>3 DEF IInv, TypeOK, Watched
<1>6. QED
  BY <1>3, <1>4, <1>5 DEF IInv

-----------------------------------------------------------------------------
LEMMA NextIInv == IInv /\ [Next]_vars => IInv'
<1> SUFFICES ASSUME IInv, [Next]_vars PROVE IInv'
  OBVIOUS
<1> USE FifoUnchanged
<1>1. ASSUME NEW p \in Worker, Run(p) PROVE IInv'
  BY <1>1 DEF Run, IInv, TypeOK, Watched
<1>2. ASSUME NEW p \in Worker, TaskDone(p) PROVE IInv'
  BY <1>2, TaskDoneIInv
<1>3. ASSUME NEW p \in Worker, Output(p) PROVE IInv'
  BY <1>3 DEF Output, IInv, TypeOK, Watched
<1>4. ASSUME NEW p \in Worker, FallSilent(p) PROVE IInv'
  BY <1>4 DEF FallSilent, IInv, TypeOK, Watched
<1>5. ASSUME NEW p \in Worker, ExcuseOrNot(p) PROVE IInv'
  BY <1>5 DEF ExcuseOrNot, IInv, TypeOK, Watched
<1>6. ASSUME NEW p \in Worker, TeamPark(p) PROVE IInv'
  BY <1>6 DEF TeamPark, IInv, TypeOK, Watched
<1>7. ASSUME NEW p \in Worker, PaneExit(p) PROVE IInv'
  BY <1>7 DEF PaneExit, IInv, TypeOK, Watched
<1>8. ASSUME NEW p \in Worker, TaskResult(p) PROVE IInv'
  BY <1>8, TaskResultIInv
<1>9. ASSUME NEW c \in Client, NEW p \in Worker, WaitTaskResult(c, p) PROVE IInv'
  BY <1>9, WaitTaskResultIInv
<1>10. ASSUME NEW c \in Client, HangUp(c) PROVE IInv'
  BY <1>10 DEF HangUp, IInv, TypeOK, Watched
<1>11. ASSUME NEW late \in SUBSET Client, CheckWaiters(late) PROVE IInv'
  BY <1>11, CheckWaitersIInv
<1>12. ASSUME NEW p \in Worker, NudgeStall(p) PROVE IInv'
  BY <1>12 DEF NudgeStall, IInv, TypeOK, Watched
<1>13. CASE Handoff
  BY <1>13 DEF Handoff, IInv, TypeOK, Watched
<1>14. CASE UNCHANGED vars
  BY <1>14 DEF vars, IInv, TypeOK, Watched
<1>15. QED
  BY <1>1, <1>2, <1>3, <1>4, <1>5, <1>6, <1>7, <1>8, <1>9, <1>10, <1>11, <1>12, <1>13, <1>14
     DEF Next

(* Queues, marks and waiters keep their types.                             *)
THEOREM ResultsTypeCorrect == Spec => []TypeOK
<1>1. IInv => TypeOK
  BY DEF IInv
<1>2. QED
  BY <1>1, InitIInv, NextIInv, PTL DEF Spec

(* Every result is consumed once and in the order it was reported.         *)
THEOREM ResultsAreFifo == Spec => []Fifo
<1>1. IInv => Fifo
  BY DEF IInv
<1>2. QED
  BY <1>1, InitIInv, NextIInv, PTL DEF Spec

(* The watchdog nudges about no worker that is done.                       *)
QuietStep == \A p \in live : p \in nudged' \ nudged => p \in inFlight \/ reported[p] = 0

THEOREM DoneWorkersStayQuiet == Spec => DoneIsQuiet
<1>1. IInv /\ [Next]_vars => [QuietStep]_vars
  <2> SUFFICES ASSUME IInv, Next PROVE QuietStep
    OBVIOUS
  <2>1. ASSUME NEW w \in Worker, NudgeStall(w) PROVE QuietStep
    BY <2>1 DEF NudgeStall, IInv, TypeOK, Watched, QuietStep
  <2>2. CASE nudged' \subseteq nudged
    BY <2>2 DEF QuietStep
  <2>3. QED
    BY <2>1, <2>2 DEF Next, Run, TaskDone, Output, FallSilent, ExcuseOrNot, TeamPark, PaneExit,
       TaskResult, WaitTaskResult, HangUp, CheckWaiters, Handoff
<1>2. DoneIsQuiet <=> [][QuietStep]_vars
  BY DEF DoneIsQuiet, QuietStep
<1> HIDE DEF QuietStep
<1>3. QED
  BY <1>1, <1>2, InitIInv, NextIInv, PTL DEF Spec

-----------------------------------------------------------------------------
(* The named locks.                                                        *)
LockInv == LockTypeOK /\ Backed

LEMMA InitLockInv == LockInit => LockInv
BY LocksAssumption DEF LockInit, LockInv, LockTypeOK, Backed

(* Every action keeps the table right about the live panes that believe    *)
(* they hold a lock.                                                       *)
LEMMA NextLockInv == LockInv /\ [LockNext]_lockVars => LockInv'
<1> SUFFICES ASSUME LockInv, [LockNext]_lockVars PROVE LockInv'
  OBVIOUS
<1> USE LocksAssumption DEF LockInv, LockTypeOK, Backed
<1>1. ASSUME NEW p \in Pane, Spawn(p) PROVE LockInv'
  BY <1>1 DEF Spawn
<1>2. ASSUME NEW p \in Pane, NEW n \in LockName, LockAcquire(p, n) PROVE LockInv'
  <2>1. CASE ~Grantable(p, n)
    BY <1>2, <2>1 DEF LockAcquire
  <2>2. CASE Grantable(p, n)
    <3>1. /\ p \notin fresh /\ fresh' = fresh /\ panes' = panes
          /\ locks' = [locks EXCEPT ![n] = p]
          /\ believes' = believes \cup {<<p, n>>}
          /\ trying' = trying \ {<<p, n>>}
      BY <1>2, <2>2 DEF LockAcquire
    <3>2. LockTypeOK'
      BY <3>1
    <3>3. ASSUME NEW q \in panes, NEW k \in LockName, <<q, k>> \in believes'
          PROVE  locks'[k] = q
      BY <2>2, <3>1, <3>3 DEF Grantable
    <3>4. QED
      BY <3>1, <3>2, <3>3
  <2>3. QED
    BY <2>1, <2>2
<1>3. ASSUME NEW p \in Pane, NEW n \in LockName, GiveUp(p, n) PROVE LockInv'
  BY <1>3 DEF GiveUp
<1>4. ASSUME NEW p \in Pane, NEW n \in LockName, LockRelease(p, n) PROVE LockInv'
  BY <1>4 DEF LockRelease, AfterRelease
<1>5. ASSUME NEW p \in Pane, ExitReleases(p) PROVE LockInv'
  BY <1>5 DEF ExitReleases, LocksAfterExit
<1>6. CASE HandoffForgets
  BY <1>6 DEF HandoffForgets
<1>7. CASE UNCHANGED lockVars
  BY <1>7 DEF lockVars
<1>8. QED
  BY <1>1, <1>2, <1>3, <1>4, <1>5, <1>6, <1>7 DEF LockNext

(* The lock table and its histories keep their types.                      *)
THEOREM LocksTypeCorrect == LockSpec => []LockTypeOK
<1>1. LockInv => LockTypeOK
  BY DEF LockInv
<1>2. QED
  BY <1>1, InitLockInv, NextLockInv, PTL DEF LockSpec

(* Two live panes never both believe they hold the same lock.              *)
THEOREM LocksExclude == LockSpec => []Mutex
<1>1. LockInv => Mutex
  BY DEF LockInv, Backed, Mutex
<1>2. QED
  BY <1>1, InitLockInv, NextLockInv, PTL DEF LockSpec
=============================================================================
