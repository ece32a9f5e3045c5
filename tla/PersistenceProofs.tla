--------------------------- MODULE PersistenceProofs ---------------------------
(* The saved session, over any panes, edits and numbers of saves: it       *)
(* implements the durable register of DurableSession.  The argument: what  *)
(* is staged is numbered as the session grew, the persist that holds the   *)
(* lock has the snapshot LAST names, and whatever may still be written is  *)
(* no older than what is.                                                  *)
EXTENDS Persistence, FiniteSetTheorems, TLAPS

(* Staged snapshots, by number.                                            *)
Ordered ==
  /\ ver \in Nat /\ file.ver \in Nat /\ file.ver <= ver
  /\ nextSeq \in Nat /\ last \in Nat /\ last < nextSeq
  /\ \A s \in pending :
       /\ s.seq \in Nat /\ 0 < s.seq /\ s.seq < nextSeq
       /\ s.ver \in Nat /\ s.ver <= ver
       /\ last <= s.seq => file.ver <= s.ver
  /\ \A s, t \in pending : s.seq <= t.seq => s.ver <= t.ver

(* The persist that holds the lock.                                        *)
Writing ==
  /\ job.step \in {"written", "synced", "landed"}
  /\ job = [step |-> job.step, snap |-> job.snap, synced |-> job.synced]
  /\ job.step = "synced" => job.synced = TRUE
  /\ job.snap.seq = last /\ 0 < last
  /\ job.snap.ver \in Nat /\ job.snap.ver <= ver
  /\ job.step # "landed" => file.ver <= job.snap.ver
  /\ \A s \in pending : last <= s.seq => job.snap.ver <= s.ver

Whole == file.kind \in {"none", "ok"} /\ file.synced = TRUE

(* A foreground save: its snapshot is the newest, and the loop that waits  *)
(* for it makes no other.                                                  *)
Newest ==
  /\ up = "up" /\ fg.seq + 1 = nextSeq
  /\ \A s \in pending : s.seq = fg.seq => s.ver = ver
  /\ job # NoJob /\ job.snap.seq = fg.seq => job.snap.ver = ver
  /\ (\A s \in pending : s.seq # fg.seq) => last = fg.seq
  /\ /\ \A s \in pending : s.seq # fg.seq
     /\ job = NoJob \/ job.snap.seq # fg.seq \/ job.step = "landed"
     /\ fg.ok
     => file.kind = "ok" /\ file.ver = ver

Foreground == [why : {"idle", "detach", "stop", "handoff"}, seq : Nat, ok : BOOLEAN]

IInv ==
  /\ Ordered /\ Whole
  /\ job # NoJob => Writing
  /\ fg \in Foreground
  /\ fg # Idle => Newest

LEMMA InitIInv == Init => IInv
BY DEF Init, IInv, Ordered, Whole, Foreground, NoFile, Idle, NoJob

LEMMA Staged ==
  StageSession.seq = nextSeq /\ StageSession.ver = ver /\ StageSession.hist = hist
BY DEF StageSession

-----------------------------------------------------------------------------
(* The loop edits the session only when no foreground save blocks it.      *)
LEMMA EditIInv ==
  ASSUME IInv, NEW ps, Edited(ps), LoopFree
  PROVE  IInv'
<1>1. /\ ver' = ver + 1 /\ fg' = Idle /\ fg = Idle
      /\ UNCHANGED <<nextSeq, last, pending, job, file>>
  BY DEF Edited, LoopFree
<1>2. Ordered' /\ Whole' /\ fg' \in Foreground
  BY <1>1 DEF IInv, Ordered, Whole
<1>3. job' # NoJob => Writing'
  BY <1>1 DEF IInv, Ordered, Writing
<1>4. QED
  BY <1>1, <1>2, <1>3 DEF IInv

(* A step that leaves the saves alone.                                     *)
LEMMA QuietIInv ==
  ASSUME IInv, UNCHANGED <<ver, nextSeq, last, pending, job, file, fg>>, up' = up \/ fg = Idle
  PROVE  IInv'
<1>1. Ordered' /\ Whole' /\ (job' # NoJob => Writing') /\ fg' \in Foreground
  BY DEF IInv, Ordered, Whole, Writing
<1>2. fg' # Idle => Newest'
  BY DEF IInv, Newest
<1>3. QED
  BY <1>1, <1>2 DEF IInv

(* A new life: what is left is the file.                                   *)
LEMMA GoneIInv ==
  ASSUME IInv, Gone, file' = file, ver' = file.ver
  PROVE  IInv'
BY DEF Gone, IInv, Ordered, Whole, Foreground, Idle, NoJob

-----------------------------------------------------------------------------
(* Saves.                                                                  *)
LEMMA StageIInv ==
  ASSUME IInv, Autosave \/ \E why \in {"detach", "stop", "handoff"} : SaveNow(why)
  PROVE  IInv'
<1>1. CASE Autosave
  BY <1>1, Staged DEF Autosave, Stage, LoopFree, IInv, Ordered, Whole, Writing, Newest
<1>2. ASSUME NEW why \in {"detach", "stop", "handoff"}, SaveNow(why) PROVE IInv'
  BY <1>2, Staged
     DEF SaveNow, Stage, LoopFree, IInv, Ordered, Whole, Writing, Newest, Foreground, Idle
<1>3. QED
  BY <1>1, <1>2

LEMMA PersistIInv ==
  ASSUME IInv,
         \/ \E s \in pending : Persist(s)
         \/ SyncTmp \/ RenameTmp \/ WriteFails \/ WriteScreens
  PROVE  IInv'
<1> USE DEF IInv, Ordered, Whole, Writing, Newest, NoJob
<1>1. ASSUME NEW s \in pending, Persist(s) PROVE IInv'
  BY <1>1 DEF Persist, Stale
<1>2. CASE SyncTmp
  BY <1>2 DEF SyncTmp, Synced
<1>3. CASE RenameTmp
  BY <1>3 DEF RenameTmp
<1>4. CASE WriteFails
  <2>1. /\ job # NoJob /\ job.step \in {"written", "synced"}
        /\ job' = [job EXCEPT !.step = "landed"]
        /\ UNCHANGED <<up, ver, nextSeq, last, pending, file>>
    BY <1>4 DEF WriteFails
  <2>2. CASE job.snap.seq = fg.seq
    <3>1. fg' = [fg EXCEPT !.ok = FALSE]
      BY <1>4, <2>2 DEF WriteFails
    <3>2. fg' \in Foreground /\ fg'.seq = fg.seq /\ fg'.ok = FALSE /\ fg'.why = fg.why
      BY <3>1 DEF Foreground
    <3>3. fg # Idle
      BY <2>1, <2>2 DEF Idle
    <3>4. (job' # NoJob => Writing') /\ Newest'
      BY <2>1, <2>2, <3>2, <3>3
    <3>5. QED
      BY <2>1, <3>2, <3>4
  <2>3. CASE job.snap.seq # fg.seq
    <3>1. fg' = fg
      BY <1>4, <2>3 DEF WriteFails
    <3>2. QED
      BY <2>1, <2>3, <3>1
  <2>4. QED
    BY <2>2, <2>3
<1>5. CASE WriteScreens
  BY <1>5 DEF WriteScreens
<1>6. QED
  BY <1>1, <1>2, <1>3, <1>4, <1>5

-----------------------------------------------------------------------------
(* The end of a foreground save, and of a life.                            *)
LEMMA EndIInv ==
  ASSUME IInv,
         \/ DetachSaved \/ Exit \/ HandoffScreens \/ HandoffRefused \/ HandoffWritten
         \/ ExecFails \/ \E dead \in SUBSET Id : BuildFromHandoff(dead)
         \/ \E power \in BOOLEAN : Crash(power)
  PROVE  IInv'
<1>1. CASE DetachSaved \/ HandoffScreens
  <2>1. fg' = Idle /\ UNCHANGED <<ver, nextSeq, last, pending, job, file>>
    BY <1>1 DEF DetachSaved, HandoffScreens
  <2>2. Idle \in Foreground
    BY DEF Idle, Foreground
  <2>3. QED
    BY <2>1, <2>2 DEF IInv, Ordered, Whole, Writing
<1>2. CASE HandoffRefused \/ HandoffWritten
  <2>1. fg = Idle
    BY <1>2 DEF HandoffRefused, HandoffWritten, IInv, Newest
  <2>2. QED
    BY <1>2, <2>1, QuietIInv DEF HandoffRefused, HandoffWritten
<1>3. CASE Exit \/ ExecFails
  BY <1>3, GoneIInv DEF Exit, ExecFails
<1>4. ASSUME NEW dead \in SUBSET Id, BuildFromHandoff(dead) PROVE IInv'
  BY <1>4 DEF BuildFromHandoff, IInv, Ordered, Whole, Newest, NoJob
<1>5. ASSUME NEW power \in BOOLEAN, Crash(power) PROVE IInv'
  BY <1>5, GoneIInv DEF Crash, IInv, Whole
<1>6. QED
  BY <1>1, <1>2, <1>3, <1>4, <1>5

LEMMA NextIInv == IInv /\ [Next]_vars => IInv'
<1> SUFFICES ASSUME IInv, [Next]_vars PROVE IInv'
  OBVIOUS
<1>1. ASSUME NEW w \in Who, OpenPane(w) PROVE IInv'
  BY <1>1, EditIInv DEF OpenPane
<1>2. ASSUME NEW i \in Id, ClosePane(i) PROVE IInv'
  BY <1>2, EditIInv DEF ClosePane
<1>3. ASSUME NEW k \in Id, NEW o \in Id, JoinTeam(k, o) PROVE IInv'
  BY <1>3, EditIInv DEF JoinTeam
<1>4. ASSUME NEW k \in Id, SwitchScreen(k) PROVE IInv'
  BY <1>4, QuietIInv DEF SwitchScreen
<1>5. CASE ReloadConfig
  BY <1>5, QuietIInv DEF ReloadConfig
<1>6. CASE Autosave \/ \E why \in {"detach", "stop", "handoff"} : SaveNow(why)
  BY <1>6, StageIInv
<1>7. CASE \/ \E s \in pending : Persist(s)
           \/ SyncTmp \/ RenameTmp \/ WriteFails \/ WriteScreens
  BY <1>7, PersistIInv
<1>8. CASE \/ DetachSaved \/ Exit \/ HandoffScreens \/ HandoffRefused \/ HandoffWritten
           \/ ExecFails \/ \E dead \in SUBSET Id : BuildFromHandoff(dead)
           \/ \E power \in BOOLEAN : Crash(power)
  BY <1>8, EndIInv
<1>9. CASE Boot
  <2>1. fg = Idle /\ file' = file
    BY <1>9 DEF Boot, IInv, Newest, Whole
  <2>2. QED
    BY <1>9, <2>1, QuietIInv DEF Boot
<1>10. CASE ReplayScreen
  <2>1. fg = Idle
    BY <1>10 DEF ReplayScreen, IInv, Newest
  <2>2. QED
    BY <1>10, <2>1, QuietIInv DEF ReplayScreen
<1>11. CASE UNCHANGED vars
  BY <1>11, QuietIInv DEF vars
<1>12. QED
  BY <1>1, <1>2, <1>3, <1>4, <1>5, <1>6, <1>7, <1>8, <1>9, <1>10, <1>11 DEF Next

-----------------------------------------------------------------------------
(* Neither a crash nor a power cut leaves a truncated session file.        *)
THEOREM FileAlwaysWhole == Spec => []FileWhole
<1>1. IInv => FileWhole
  BY DEF IInv, Whole, FileWhole
<1>2. QED
  BY <1>1, InitIInv, NextIInv, PTL DEF Spec

(* What a detach, a shutdown or a handoff has saved is on disk when it     *)
(* goes on, unless a write failed.                                         *)
THEOREM ForegroundLands == Spec => []ForegroundSaved
<1>1. IInv => ForegroundSaved
  BY DEF IInv, Newest, ForegroundSaved, Returned, StillSaving
<1>2. QED
  BY <1>1, InitIInv, NextIInv, PTL DEF Spec

(* The session file implements a durable register: it only catches up with *)
(* the session, whatever writes run late, and a restart resumes from it.   *)
THEOREM SessionIsDurable == Spec => ImplementsDurable
<1>1. Init => Durable!Init
  BY DEF Init, Durable!Init, NoFile
<1>2. IInv /\ [Next]_vars => [Durable!Next]_Durable!vars
  <2> SUFFICES ASSUME IInv, [Next]_vars PROVE [Durable!Next]_Durable!vars
    OBVIOUS
  <2>1. ASSUME NEW ps, Edited(ps) PROVE Durable!Next
    BY <2>1 DEF Edited, Durable!Next, Durable!Edit
  <2>2. ASSUME Gone, file' = file, ver' = file.ver PROVE Durable!Next
    BY <2>2 DEF Durable!Next, Durable!Restart
  <2>3. ASSUME ver' = ver, file' = file PROVE UNCHANGED Durable!vars
    BY <2>3 DEF Durable!vars
  <2>4. CASE \/ \E w \in Who : OpenPane(w)
             \/ \E i \in Id : ClosePane(i)
             \/ \E k, o \in Id : JoinTeam(k, o)
    BY <2>1, <2>4 DEF OpenPane, ClosePane, JoinTeam
  <2>5. CASE \/ \E k \in Id : SwitchScreen(k)
             \/ ReloadConfig \/ Autosave
             \/ \E why \in {"detach", "stop", "handoff"} : SaveNow(why)
             \/ \E s \in pending : Persist(s)
             \/ SyncTmp \/ WriteFails \/ WriteScreens
             \/ DetachSaved \/ HandoffScreens \/ HandoffRefused \/ HandoffWritten
             \/ ReplayScreen \/ UNCHANGED vars
    BY <2>3, <2>5
       DEF SwitchScreen, ReloadConfig, Autosave, SaveNow, Stage, Persist, SyncTmp, WriteFails,
           WriteScreens, DetachSaved, HandoffScreens, HandoffRefused, HandoffWritten,
           ReplayScreen, vars
  <2>6. CASE RenameTmp
    <3>1. /\ ver' = ver /\ file'.ver = job.snap.ver
          /\ file.ver <= job.snap.ver /\ job.snap.ver <= ver
          /\ file.ver \in Nat /\ job.snap.ver \in Nat /\ ver \in Nat
      BY <2>6 DEF RenameTmp, IInv, Writing, Ordered
    <3>2. CASE file.ver = job.snap.ver
      BY <3>1, <3>2 DEF Durable!vars
    <3>3. CASE file.ver < job.snap.ver
      BY <3>1, <3>3 DEF Durable!Next, Durable!Save
    <3>4. QED
      BY <3>1, <3>2, <3>3
  <2>7. CASE Exit \/ ExecFails \/ \E power \in BOOLEAN : Crash(power)
    BY <2>2, <2>7 DEF Exit, ExecFails, Crash, IInv, Whole
  <2>8. ASSUME NEW dead \in SUBSET Id, BuildFromHandoff(dead)
        PROVE  [Durable!Next]_Durable!vars
    <3>1. file' = file /\ ver' \in {ver, ver + 1}
      BY <2>8 DEF BuildFromHandoff
    <3>2. QED
      BY <3>1 DEF Durable!Next, Durable!Edit, Durable!vars
  <2>9. CASE Boot
    BY <2>3, <2>9 DEF Boot, IInv, Whole
  <2>10. QED
    BY <2>4, <2>5, <2>6, <2>7, <2>8, <2>9 DEF Next
<1>3. QED
  BY <1>1, <1>2, InitIInv, NextIInv, PTL DEF Spec, ImplementsDurable, Durable!Spec

-----------------------------------------------------------------------------
(* Once the tails are purged they stay so: every snapshot that has any is  *)
(* behind LAST, and none is staged while the feature is off.               *)
NoTailsLeft ==
  /\ ~hist /\ tails = Purged
  /\ \A s \in pending : s.hist => s.seq < last
  /\ job # NoJob => ~job.snap.hist

PurgeKept == scrubbed => NoTailsLeft

LEMMA NextPurgeKept == IInv /\ PurgeKept /\ [Next]_vars => PurgeKept'
<1> SUFFICES ASSUME IInv, PurgeKept, [Next]_vars, scrubbed' PROVE NoTailsLeft'
  BY DEF PurgeKept
<1> USE DEF PurgeKept, NoTailsLeft
<1>1. ASSUME UNCHANGED <<hist, last, pending, job, tails, scrubbed>> PROVE NoTailsLeft'
  BY <1>1 DEF Purged
<1>2. ASSUME Gone, UNCHANGED <<hist, scrubbed>>, tails' \in {tails, Purged} PROVE NoTailsLeft'
  BY <1>2 DEF Gone, Purged
<1>3. CASE \/ \E w \in Who : OpenPane(w)
           \/ \E i \in Id : ClosePane(i)
           \/ \E k, o \in Id : JoinTeam(k, o)
           \/ \E k \in Id : SwitchScreen(k)
           \/ DetachSaved \/ HandoffRefused \/ HandoffWritten \/ Boot \/ UNCHANGED vars
  BY <1>1, <1>3
     DEF OpenPane, ClosePane, JoinTeam, SwitchScreen, Edited, DetachSaved, HandoffRefused,
         HandoffWritten, Boot, vars
<1>4. CASE ReloadConfig \/ HandoffScreens
  BY <1>4 DEF ReloadConfig, HandoffScreens
<1>5. CASE Autosave \/ \E why \in {"detach", "stop", "handoff"} : SaveNow(why)
  BY <1>5, Staged DEF Autosave, SaveNow, Stage, Purged
<1>6. ASSUME NEW s \in pending, Persist(s) PROVE NoTailsLeft'
  <2>1. NoTailsLeft /\ UNCHANGED <<hist, tails, scrubbed>> /\ pending' = pending \ {s}
    BY <1>6 DEF Persist
  <2>2. last \in Nat /\ \A t \in pending : t.seq \in Nat
    BY DEF IInv, Ordered
  <2>3. QED
    BY <1>6, <2>1, <2>2 DEF Persist, Stale, NoJob, Purged
<1>7. CASE SyncTmp \/ RenameTmp \/ WriteFails
  <2>1. /\ job # NoJob /\ job'.snap = job.snap
        /\ UNCHANGED <<hist, last, pending, tails, scrubbed>>
    BY <1>7 DEF SyncTmp, Synced, RenameTmp, WriteFails, IInv, Writing
  <2>2. QED
    BY <2>1 DEF Purged
<1>8. CASE WriteScreens
  <2>1. /\ job # NoJob /\ job.snap.seq = last /\ job' = NoJob
        /\ UNCHANGED <<hist, last, pending>>
    BY <1>8 DEF WriteScreens, IInv, Writing
  <2>2. ~job.snap.hist /\ ~hist /\ \A s \in pending : s.hist => s.seq < last
    BY <1>8, <2>1 DEF WriteScreens
  <2>3. tails' = Purged
    BY <1>8, <2>2 DEF WriteScreens, PersistScreens
  <2>4. QED
    BY <2>1, <2>2, <2>3 DEF Purged
<1>9. CASE Exit \/ ExecFails \/ \E power \in BOOLEAN : Crash(power)
  BY <1>2, <1>9 DEF Exit, ExecFails, Crash
<1>10. ASSUME NEW dead \in SUBSET Id, BuildFromHandoff(dead) PROVE NoTailsLeft'
  BY <1>10 DEF BuildFromHandoff, Purged
<1>11. CASE ReplayScreen
  BY <1>1, <1>11 DEF ReplayScreen
<1>12. QED
  BY <1>3, <1>4, <1>5, <1>6, <1>7, <1>8, <1>9, <1>10, <1>11 DEF Next

(* Switching screen_history off and saving deletes the screens for good: no*)
(* save that was staged before brings one back.                            *)
THEOREM PurgedForGood == Spec => []ScrubbedForGood
<1>1. Init => PurgeKept
  BY DEF Init, PurgeKept
<1>2. IInv /\ PurgeKept => ScrubbedForGood
  BY DEF PurgeKept, NoTailsLeft, ScrubbedForGood
<1>3. QED
  BY <1>1, <1>2, InitIInv, NextIInv, NextPurgeKept, PTL DEF Spec

-----------------------------------------------------------------------------
(* What `retain` leaves: some of the entries, each of them once.           *)
LEMMA EntriesFacts ==
  ASSUME NEW S, NEW s \in Seq(S), NEW K \in SUBSET DOMAIN s
  PROVE  /\ EntriesAt(s, K) \in Seq(S) /\ Len(EntriesAt(s, K)) = Cardinality(K)
         /\ \E at \in [1 .. Cardinality(K) -> K] :
              /\ \A k \in 1 .. Cardinality(K) : EntriesAt(s, K)[k] = s[at[k]]
              /\ \A k, l \in 1 .. Cardinality(K) : at[k] = at[l] => k = l
<1> DEFINE n == Cardinality(K)
           rank == [i \in K |-> Rank(K, i)]
           at == [k \in 1 .. n |-> CHOOSE i \in K : Rank(K, i) = k]
<1>1. DOMAIN s = 1 .. Len(s) /\ IsFiniteSet(1 .. Len(s))
  BY FS_Interval
<1>2. IsFiniteSet(K) /\ n \in Nat /\ \A i \in K : i \in Nat
  BY <1>1, FS_Subset, FS_CardinalityType
<1>3. IsFiniteSet(1 .. n) /\ Cardinality(1 .. n) = n
  BY <1>2, FS_Interval
<1>4. ASSUME NEW i \in K PROVE Rank(K, i) \in 1 .. n /\ IsFiniteSet({j \in K : j <= i})
  <2>1. IsFiniteSet({j \in K : j <= i}) /\ Cardinality({j \in K : j <= i}) <= n
    BY <1>2, FS_Subset
  <2>2. Cardinality({j \in K : j <= i}) \in Nat
    BY <2>1, FS_CardinalityType
  <2>3. i \in {j \in K : j <= i}
    BY <1>2
  <2>4. Cardinality({j \in K : j <= i}) # 0
    BY <2>1, <2>3, FS_EmptySet
  <2>5. QED
    BY <1>2, <2>1, <2>2, <2>4 DEF Rank
<1>5. ASSUME NEW i \in K, NEW l \in K, i < l PROVE Rank(K, i) # Rank(K, l)
  <2>1. {j \in K : j <= i} \in SUBSET {j \in K : j <= l}
    BY <1>2, <1>5
  <2>2. l \notin {j \in K : j <= i} /\ l \in {j \in K : j <= l}
    BY <1>2, <1>5
  <2>3. IsFiniteSet({j \in K : j <= l})
    BY <1>4
  <2>4. Cardinality({j \in K : j <= i}) # Cardinality({j \in K : j <= l})
    BY <2>1, <2>2, <2>3, FS_Subset
  <2>5. QED
    BY <2>4 DEF Rank
<1>6. \A i, l \in K : Rank(K, i) = Rank(K, l) => i = l
  BY <1>2, <1>5
<1>7. rank \in Injection(K, 1 .. n)
  BY <1>4, <1>6 DEF Injection, IsInjective
<1>8. rank \in Surjection(K, 1 .. n)
  BY <1>3, <1>7, FS_Injection
<1>9. \A k \in 1 .. n : \E i \in K : Rank(K, i) = k
  BY <1>8 DEF Surjection
<1>10. at \in [1 .. n -> K] /\ \A k \in 1 .. n : Rank(K, at[k]) = k
  BY <1>9
<1>11. EntriesAt(s, K) = [k \in 1 .. n |-> s[at[k]]]
  BY DEF EntriesAt
<1> HIDE DEF at, n
<1>12. \A k \in 1 .. n : s[at[k]] \in S
  BY <1>1, <1>10
<1>13. [k \in 1 .. n |-> s[at[k]]] \in Seq(S) /\ Len([k \in 1 .. n |-> s[at[k]]]) = n
  BY <1>2, <1>12
<1>14. \A k, l \in 1 .. n : at[k] = at[l] => k = l
  BY <1>10
<1>15. QED
  BY <1>10, <1>11, <1>13, <1>14 DEF n

(* Panes, each with an id of its own, and leaves that were saved of them.  *)
Pane == [id : Id, who : Who, orch : 0 .. MaxId, alt : BOOLEAN]
Numbered(ps, n) ==
  /\ ps \in Seq(Pane) /\ n \in 1 .. MaxId + 1
  /\ \A j, k \in DOMAIN ps : ps[j].id = ps[k].id => j = k
  /\ \A k \in DOMAIN ps : ps[k].id < n
Once(leaves) ==
  /\ leaves \in Seq(Leaves)
  /\ \A j, k \in DOMAIN leaves : leaves[j].pane = leaves[k].pane => j = k

LEMMA OpenNumbered ==
  ASSUME NEW ps, NEW n, Numbered(ps, n), n <= MaxId, NEW w \in Who
  PROVE  Numbered(Append(ps, Fresh(n, w)), n + 1)
<1> DEFINE p == Fresh(n, w)
           qs == Append(ps, p)
           m == Len(ps)
<1>1. MaxId \in Nat /\ n \in Nat
  BY PersistenceAssumption DEF Numbered
<1>2. p \in Pane /\ p.id = n
  BY <1>1 DEF Fresh, Pane, Id, Numbered
<1>3. ps \in Seq(Pane) /\ m \in Nat /\ DOMAIN ps = 1 .. m
  BY DEF Numbered
<1> HIDE DEF p
<1>4. /\ qs \in Seq(Pane) /\ DOMAIN qs = 1 .. m + 1
      /\ \A k \in 1 .. m : qs[k] = ps[k]
      /\ qs[m + 1] = p
  BY <1>2, <1>3
<1> HIDE DEF qs, m
<1>5. \A k \in 1 .. m + 1 : k \in 1 .. m \/ k = m + 1
  BY <1>3
<1>6. \A k \in 1 .. m : qs[k].id < n /\ qs[k].id \in Nat
  <2>1. \A k \in 1 .. m : ps[k] \in Pane /\ ps[k].id < n
    BY <1>3 DEF Numbered
  <2>2. \A k \in 1 .. m : ps[k].id \in Nat
    BY <1>1, <2>1 DEF Pane, Id
  <2>3. QED
    BY <1>4, <2>1, <2>2
<1>7. \A k \in DOMAIN qs : qs[k].id < n + 1
  BY <1>1, <1>2, <1>4, <1>5, <1>6
<1>8. \A j, k \in DOMAIN qs : qs[j].id = qs[k].id => j = k
  BY <1>1, <1>2, <1>3, <1>4, <1>5, <1>6 DEF Numbered
<1>9. n + 1 \in 1 .. MaxId + 1
  BY <1>1
<1>10. QED
  BY <1>4, <1>7, <1>8, <1>9 DEF Numbered, qs, p

LEMMA SameIdsNumbered ==
  ASSUME NEW ps, NEW n, Numbered(ps, n), NEW qs \in Seq(Pane), Len(qs) = Len(ps),
         \A k \in DOMAIN ps : qs[k].id = ps[k].id
  PROVE  Numbered(qs, n)
<1>1. DOMAIN qs = DOMAIN ps
  BY DEF Numbered
<1>2. QED
  BY <1>1 DEF Numbered

(* Closing panes: those that stay keep their ids, and lose an orchestrator *)
(* that went.                                                              *)
LEMMA WithoutNumbered ==
  ASSUME NEW ps, NEW n, Numbered(ps, n), NEW gone
  PROVE  Numbered(Without(ps, gone), n)
<1> DEFINE K == {k \in DOMAIN ps : ps[k].id \notin gone}
           kept == EntriesAt(ps, K)
           m == Cardinality(K)
           qs == [k \in DOMAIN kept |-> IF kept[k].orch \in gone THEN [kept[k] EXCEPT !.orch = 0]
                                        ELSE kept[k]]
<1>1. ps \in Seq(Pane) /\ K \in SUBSET DOMAIN ps
  BY DEF Numbered
<1> HIDE DEF K
<1>2. /\ kept \in Seq(Pane) /\ Len(kept) = m
      /\ \E at \in [1 .. m -> K] :
           /\ \A k \in 1 .. m : kept[k] = ps[at[k]]
           /\ \A k, l \in 1 .. m : at[k] = at[l] => k = l
  BY <1>1, EntriesFacts
<1> HIDE DEF kept
<1>3. PICK at \in [1 .. m -> K] :
        /\ \A k \in 1 .. m : kept[k] = ps[at[k]]
        /\ \A k, l \in 1 .. m : at[k] = at[l] => k = l
  BY <1>2
<1>4. DOMAIN kept = 1 .. m /\ m \in Nat
  BY <1>2
<1>5. \A p \in Pane : [p EXCEPT !.orch = 0] \in Pane /\ [p EXCEPT !.orch = 0].id = p.id
  BY PersistenceAssumption DEF Pane
<1>6. qs \in Seq(Pane) /\ DOMAIN qs = 1 .. m /\ \A k \in 1 .. m : qs[k].id = kept[k].id
  BY <1>2, <1>4, <1>5
<1>7. qs = Without(ps, gone)
  BY DEF Without, kept, K
<1> HIDE DEF qs, m
<1>8. \A k \in 1 .. m : at[k] \in DOMAIN ps /\ qs[k].id = ps[at[k]].id
  BY <1>1, <1>3, <1>6
<1>9. QED
  BY <1>3, <1>6, <1>7, <1>8 DEF Numbered

LEMMA CountBound ==
  ASSUME NEW n \in Nat, NEW f \in [1 .. n -> Id], \A j, k \in 1 .. n : f[j] = f[k] => j = k
  PROVE  n <= MaxId
<1>1. f \in Injection(1 .. n, Id)
  BY DEF Injection, IsInjective
<1>2. /\ IsFiniteSet(1 .. n) /\ Cardinality(1 .. n) = n
      /\ IsFiniteSet(Id) /\ Cardinality(Id) = MaxId
  BY PersistenceAssumption, FS_Interval DEF Id
<1>3. QED
  BY <1>1, <1>2, FS_Injection

LEMMA RestoredNumbered ==
  ASSUME NEW leaves, Once(leaves)
  PROVE  /\ Numbered(Restored(leaves), Len(leaves) + 1)
         /\ Len(Restored(leaves)) = Len(leaves)
         /\ \A k \in DOMAIN leaves : Restored(leaves)[k] =
              [id |-> k, who |-> leaves[k].who, orch |-> SavedToNew(leaves, k), alt |-> FALSE]
<1> DEFINE n == Len(leaves)
           qs == Restored(leaves)
<1>1. leaves \in Seq(Leaves) /\ n \in Nat /\ DOMAIN leaves = 1 .. n
  BY DEF Once
<1>2. \A k \in 1 .. n : leaves[k].pane \in Id /\ leaves[k].who \in Who
  <2>1. \A k \in 1 .. n : leaves[k] \in Leaves
    BY <1>1
  <2>2. QED
    BY <2>1 DEF Leaves
<1>3. n <= MaxId
  <2> DEFINE f == [k \in 1 .. n |-> leaves[k].pane]
  <2>1. f \in [1 .. n -> Id]
    BY <1>2
  <2>2. \A j, k \in 1 .. n : f[j] = f[k] => j = k
    BY <1>1 DEF Once
  <2> HIDE DEF f, n
  <2>3. QED
    BY <1>1, <2>1, <2>2, CountBound
<1>4. MaxId \in Nat
  BY PersistenceAssumption
<1>5. qs = [k \in 1 .. n |->
              [id |-> k, who |-> leaves[k].who, orch |-> SavedToNew(leaves, k), alt |-> FALSE]]
  <2>1. ASSUME NEW k, NEW w, NEW o
        PROVE  [Fresh(k, w) EXCEPT !.orch = o] = [id |-> k, who |-> w, orch |-> o, alt |-> FALSE]
    <3>1. Fresh(k, w) = [id |-> k, who |-> w, orch |-> 0, alt |-> FALSE]
      BY DEF Fresh
    <3>2. \A a : [[id |-> k, who |-> w, orch |-> 0, alt |-> a] EXCEPT !.orch = o]
                   = [id |-> k, who |-> w, orch |-> o, alt |-> a]
      OBVIOUS
    <3>3. QED
      BY <3>1, <3>2
  <2>2. qs = [k \in 1 .. n |-> [Fresh(k, leaves[k].who) EXCEPT !.orch = SavedToNew(leaves, k)]]
    BY <1>1 DEF Restored
  <2> HIDE DEF qs, n
  <2>3. QED
    BY <2>1, <2>2
<1> HIDE DEF n, qs
<1>6. ASSUME NEW k \in 1 .. n PROVE SavedToNew(leaves, k) \in 0 .. MaxId
  <2>1. SavedToNew(leaves, k) = 0 \/ SavedToNew(leaves, k) \in 1 .. n
    BY <1>1 DEF SavedToNew
  <2>2. QED
    BY <1>1, <1>3, <1>4, <2>1
<1>7. \A k \in 1 .. n : qs[k] \in Pane /\ qs[k].id = k
  <2> SUFFICES ASSUME NEW k \in 1 .. n PROVE qs[k] \in Pane /\ qs[k].id = k
    OBVIOUS
  <2>1. k \in Id
    BY <1>1, <1>3, <1>4 DEF Id
  <2>2. QED
    BY <1>2, <1>5, <1>6, <2>1 DEF Pane
<1>8. qs \in Seq(Pane) /\ Len(qs) = n /\ DOMAIN qs = 1 .. n
  BY <1>1, <1>5, <1>7
<1>9. n + 1 \in 1 .. MaxId + 1 /\ \A k \in 1 .. n : k < n + 1
  BY <1>1, <1>3, <1>4
<1>10. QED
  BY <1>1, <1>5, <1>7, <1>8, <1>9 DEF Numbered, n, qs

-----------------------------------------------------------------------------
(* Types: what is counted, the panes, what is saved of them, their tails.  *)
Counts ==
  /\ up \in {"down", "boot", "up", "handoff", "exec"}
  /\ ver \in 0 .. MaxVer
  /\ hist \in BOOLEAN /\ scrubbed \in BOOLEAN
  /\ nextSeq \in 1 .. MaxSeq + 1 /\ last \in 0 .. MaxSeq
  /\ fg \in [why : {"idle", "detach", "stop", "handoff"}, seq : 0 .. MaxSeq, ok : BOOLEAN]

FileType == [kind : {"none", "ok", "torn"}, ver : 0 .. MaxVer, leaves : Seq(Leaves), synced : BOOLEAN]
Saves ==
  /\ \A s \in pending : s \in Snap /\ Once(s.leaves)
  /\ job # NoJob =>
       /\ job \in [step : {"written", "synced", "landed"}, snap : Snap, synced : BOOLEAN]
       /\ Once(job.snap.leaves) /\ job.snap.seq = last
  /\ file \in FileType /\ Once(file.leaves)

TailsOK == tails \in [Id -> Who \cup {NoText}]

(* Nothing is saved before the boot is over, and until then the panes are  *)
(* those of the file.                                                      *)
Booting ==
  /\ up \in {"down", "boot"} => pending = {} /\ job = NoJob
  /\ up = "boot" => panes = Restored(file.leaves) /\ file.leaves # <<>>
  /\ replayed \in 0 .. MaxId

SInv == Counts /\ Numbered(panes, nextId) /\ Saves /\ TailsOK /\ Booting

LEMMA ScreenTailsType ==
  ASSUME Numbered(panes, nextId)
  PROVE  ScreenTails(panes) \in [Id -> Who \cup {NoText, Keep}]
<1> SUFFICES ASSUME NEW i \in Id PROVE ScreenTails(panes)[i] \in Who \cup {NoText, Keep}
  BY DEF ScreenTails
<1>1. CASE i \notin Ids(panes)
  BY <1>1 DEF ScreenTails
<1>2. CASE i \in Ids(panes)
  <2> DEFINE j == CHOOSE k \in DOMAIN panes : panes[k].id = i
  <2>1. j \in DOMAIN panes
    BY <1>2 DEF Ids
  <2>2. panes[j] \in Pane
    BY <2>1 DEF Numbered
  <2>3. ScreenTails(panes)[i] = IF panes[j].alt THEN Keep ELSE panes[j].who
    BY <1>2 DEF ScreenTails
  <2>4. QED
    BY <2>2, <2>3 DEF Pane
<1>3. QED
  BY <1>1, <1>2

(* What is staged of the panes there are.                                  *)
LEMMA StagedFacts ==
  ASSUME SInv, nextSeq <= MaxSeq
  PROVE  StageSession \in Snap /\ Once(StageSession.leaves)
<1> DEFINE m == Len(panes)
           ls == [k \in DOMAIN panes |-> Leaf(panes[k])]
<1>1. panes \in Seq(Pane) /\ m \in Nat /\ DOMAIN panes = 1 .. m
  BY DEF SInv, Numbered
<1>2. \A k \in 1 .. m : panes[k] \in Pane
  BY <1>1
<1>3. \A k \in 1 .. m : Leaf(panes[k]) \in Leaves /\ Leaf(panes[k]).pane = panes[k].id
  BY <1>2 DEF Leaf, Leaves, Pane
<1>4. ls \in Seq(Leaves) /\ DOMAIN ls = 1 .. m /\ \A k \in 1 .. m : ls[k].pane = panes[k].id
  BY <1>1, <1>3
<1> HIDE DEF ls, m
<1>5. Once(ls)
  BY <1>1, <1>4 DEF Once, SInv, Numbered
<1>6. ScreenTails(panes) \in [Id -> Who \cup {NoText, Keep}]
  BY ScreenTailsType DEF SInv
<1>7. nextSeq \in 1 .. MaxSeq /\ ver \in 0 .. MaxVer /\ hist \in BOOLEAN
  BY PersistenceAssumption DEF SInv, Counts
<1>8. StageSession = [seq |-> nextSeq, ver |-> ver, hist |-> hist, tails |-> ScreenTails(panes),
                      leaves |-> ls]
  BY DEF StageSession, ls
<1>9. StageSession.leaves = ls
  BY <1>8
<1>10. QED
  BY <1>4, <1>5, <1>6, <1>7, <1>8, <1>9 DEF Snap

LEMMA SaveScreensFacts ==
  ASSUME TailsOK, NEW listed \in [Id -> Who \cup {NoText, Keep}]
  PROVE  SaveScreens(listed, tails) \in [Id -> Who \cup {NoText}]
BY DEF TailsOK, SaveScreens

LEMMA PurgedFacts == Purged \in [Id -> Who \cup {NoText}]
BY DEF Purged

LEMMA InitSInv == Init => SInv
<1> SUFFICES ASSUME Init PROVE SInv
  OBVIOUS
<1> USE PersistenceAssumption DEF Init
<1>1. Counts
  <2>1. ver \in 0 .. MaxVer /\ nextSeq \in 1 .. MaxSeq + 1 /\ last \in 0 .. MaxSeq
    OBVIOUS
  <2>2. hist \in BOOLEAN /\ scrubbed \in BOOLEAN
    BY Zenon
  <2>3. /\ up = "down"
        /\ fg \in [why : {"idle", "detach", "stop", "handoff"}, seq : 0 .. MaxSeq, ok : BOOLEAN]
    BY DEF Idle
  <2>4. QED
    BY <2>1, <2>2, <2>3 DEF Counts
<1>2. Numbered(panes, nextId)
  BY DEF Numbered
<1>3. Saves
  BY DEF Saves, NoJob, NoFile, FileType, Once
<1>4. TailsOK
  BY PurgedFacts DEF TailsOK
<1>5. Booting
  BY DEF Booting
<1>6. QED
  BY <1>1, <1>2, <1>3, <1>4, <1>5 DEF SInv

LEMMA ChangedPane ==
  ASSUME NEW ps \in Seq(Pane), NEW k \in DOMAIN ps, NEW q \in Pane, q.id = ps[k].id
  PROVE  /\ [ps EXCEPT ![k] = q] \in Seq(Pane) /\ Len([ps EXCEPT ![k] = q]) = Len(ps)
         /\ \A j \in DOMAIN ps : [ps EXCEPT ![k] = q][j].id = ps[j].id
OBVIOUS

(* Editing the session.                                                    *)
LEMMA EditSInv ==
  ASSUME SInv, LoopFree, ver < MaxVer, NEW ps, Edited(ps), Numbered(ps, nextId')
  PROVE  SInv'
<1>1. /\ panes' = ps /\ ver' = ver + 1 /\ up' = "up" /\ up = "up" /\ fg' = fg
      /\ UNCHANGED <<hist, nextSeq, last, pending, job, file, tails, replayed, scrubbed>>
  BY DEF Edited, LoopFree
<1>2. ver' \in 0 .. MaxVer
  BY <1>1, PersistenceAssumption DEF SInv, Counts
<1>3. Counts'
  BY <1>1, <1>2 DEF SInv, Counts
<1>4. QED
  BY <1>1, <1>3 DEF SInv, Saves, TailsOK, Booting

LEMMA EditsSInv ==
  ASSUME SInv,
         \/ \E w \in Who : OpenPane(w)
         \/ \E i \in Id : ClosePane(i)
         \/ \E k, o \in Id : JoinTeam(k, o)
  PROVE  SInv'
<1>1. Numbered(panes, nextId)
  BY DEF SInv
<1>2. ASSUME NEW w \in Who, OpenPane(w) PROVE SInv'
  BY <1>1, <1>2, OpenNumbered, EditSInv DEF OpenPane
<1>3. ASSUME NEW i \in Id, ClosePane(i) PROVE SInv'
  BY <1>1, <1>3, WithoutNumbered, EditSInv DEF ClosePane
<1>4. ASSUME NEW k \in Id, NEW o \in Id, JoinTeam(k, o) PROVE SInv'
  <2> DEFINE qs == [panes EXCEPT ![k].orch = o]
  <2>1. panes \in Seq(Pane) /\ k \in DOMAIN panes
    BY <1>1, <1>4 DEF Numbered, JoinTeam
  <2>2. \A p \in Pane : [p EXCEPT !.orch = o] \in Pane /\ [p EXCEPT !.orch = o].id = p.id
    BY PersistenceAssumption DEF Pane, Id
  <2>3. /\ qs \in Seq(Pane) /\ Len(qs) = Len(panes)
        /\ \A j \in DOMAIN panes : qs[j].id = panes[j].id
    <3> DEFINE q == [panes[k] EXCEPT !.orch = o]
    <3>1. q \in Pane /\ q.id = panes[k].id
      BY <2>1, <2>2
    <3>2. qs = [panes EXCEPT ![k] = q]
      OBVIOUS
    <3> HIDE DEF q, qs
    <3>3. QED
      BY <2>1, <3>1, <3>2, ChangedPane
  <2> HIDE DEF qs
  <2>4. Numbered(qs, nextId)
    BY <1>1, <2>3, SameIdsNumbered
  <2>5. QED
    BY <1>4, <2>4, EditSInv DEF JoinTeam, qs
<1>5. QED
  BY <1>2, <1>3, <1>4

LEMMA SwitchSInv == ASSUME SInv, NEW k \in Id, SwitchScreen(k) PROVE SInv'
<1> DEFINE qs == [panes EXCEPT ![k].alt = ~panes[k].alt]
<1>1. panes \in Seq(Pane) /\ k \in DOMAIN panes
  BY DEF SInv, Numbered, SwitchScreen
<1>2. \A p \in Pane, a \in BOOLEAN : [p EXCEPT !.alt = a] \in Pane /\ [p EXCEPT !.alt = a].id = p.id
  BY DEF Pane
<1>3. (~panes[k].alt) \in BOOLEAN
  OBVIOUS
<1> DEFINE q == [panes[k] EXCEPT !.alt = ~panes[k].alt]
<1>4. q \in Pane /\ q.id = panes[k].id
  <2>1. panes[k] \in Pane
    BY <1>1
  <2>2. QED
    BY <1>2, <1>3, <2>1
<1>5. qs = [panes EXCEPT ![k] = q]
  OBVIOUS
<1> HIDE DEF q, qs
<1>6. /\ qs \in Seq(Pane) /\ Len(qs) = Len(panes)
      /\ \A j \in DOMAIN panes : qs[j].id = panes[j].id
  BY <1>1, <1>4, <1>5, ChangedPane
<1>7. Numbered(qs, nextId)
  BY <1>6, SameIdsNumbered DEF SInv
<1>8. /\ panes' = qs /\ up = "up"
      /\ UNCHANGED <<up, ver, nextId, hist, nextSeq, last, pending, job, fg, file, tails, replayed,
                     scrubbed>>
  BY DEF SwitchScreen, LoopFree, qs
<1>9. QED
  BY <1>7, <1>8 DEF SInv, Counts, Saves, TailsOK, Booting

(* Another configuration: nothing is lost of what was saved.               *)
LEMMA ReloadSInv == ASSUME SInv, ReloadConfig PROVE SInv'
<1>1. /\ hist' = ~hist /\ scrubbed' = FALSE
      /\ UNCHANGED <<up, panes, ver, nextId, nextSeq, last, pending, job, fg, file, tails, replayed>>
  BY DEF ReloadConfig
<1>2. hist' \in BOOLEAN /\ scrubbed' \in BOOLEAN
  BY <1>1, Zenon
<1>3. QED
  BY <1>1, <1>2 DEF SInv, Counts, Saves, TailsOK, Booting

-----------------------------------------------------------------------------
(* Saving it.                                                              *)
LEMMA StageSInv ==
  ASSUME SInv, Autosave \/ \E why \in {"detach", "stop", "handoff"} : SaveNow(why)
  PROVE  SInv'
<1>1. /\ LoopFree /\ nextSeq <= MaxSeq /\ nextSeq' = nextSeq + 1
      /\ pending' = pending \cup {StageSession}
      /\ UNCHANGED <<up, panes, ver, nextId, hist, last, job, file, tails, replayed, scrubbed>>
  BY DEF Autosave, SaveNow, Stage
<1>2. nextSeq \in 1 .. MaxSeq /\ nextSeq' \in 1 .. MaxSeq + 1 /\ up = "up"
  BY <1>1, PersistenceAssumption DEF SInv, Counts, LoopFree
<1>3. fg' \in [why : {"idle", "detach", "stop", "handoff"}, seq : 0 .. MaxSeq, ok : BOOLEAN]
  <2>1. CASE Autosave
    BY <2>1 DEF Autosave, SInv, Counts
  <2>2. ASSUME NEW why \in {"detach", "stop", "handoff"}, SaveNow(why)
        PROVE  fg' \in [why : {"idle", "detach", "stop", "handoff"}, seq : 0 .. MaxSeq, ok : BOOLEAN]
    BY <1>2, <2>2, PersistenceAssumption DEF SaveNow
  <2>3. QED
    BY <2>1, <2>2
<1>4. Counts'
  BY <1>1, <1>2, <1>3 DEF SInv, Counts
<1>5. StageSession \in Snap /\ Once(StageSession.leaves)
  BY <1>1, StagedFacts
<1>6. \A s \in pending' : s \in Snap /\ Once(s.leaves)
  BY <1>1, <1>5 DEF SInv, Saves
<1>7. QED
  BY <1>1, <1>2, <1>4, <1>6 DEF SInv, Saves, TailsOK, Booting

LEMMA PersistSInv == ASSUME SInv, NEW s \in pending, Persist(s) PROVE SInv'
<1>1. /\ pending' = pending \ {s} /\ up \notin {"down", "boot"}
      /\ UNCHANGED <<up, panes, ver, nextId, hist, nextSeq, fg, file, tails, replayed, scrubbed>>
  BY DEF Persist, SInv, Booting
<1>2. s \in Snap /\ Once(s.leaves)
  BY DEF SInv, Saves
<1>3. CASE Stale(s)
  BY <1>1, <1>3 DEF Persist, SInv, Counts, Saves, TailsOK, Booting
<1>4. CASE ~Stale(s)
  <2>1. last' = s.seq /\ job' = [step |-> "written", snap |-> s, synced |-> FALSE]
    BY <1>4 DEF Persist
  <2>2. last' \in 0 .. MaxSeq
    BY <1>2, <2>1, PersistenceAssumption DEF Snap
  <2>3. /\ job' \in [step : {"written", "synced", "landed"}, snap : Snap, synced : BOOLEAN]
        /\ Once(job'.snap.leaves) /\ job'.snap.seq = last'
    BY <1>2, <2>1
  <2>4. QED
    BY <1>1, <2>2, <2>3 DEF SInv, Counts, Saves, TailsOK, Booting
<1>5. QED
  BY <1>3, <1>4

LEMMA WriteSInv ==
  ASSUME SInv, SyncTmp \/ RenameTmp \/ WriteFails \/ WriteScreens
  PROVE  SInv'
<1>1. /\ job # NoJob /\ up \notin {"down", "boot"}
      /\ UNCHANGED <<up, panes, ver, nextId, hist, nextSeq, last, pending, replayed>>
  BY DEF SyncTmp, RenameTmp, WriteFails, WriteScreens, SInv, Booting
<1>2. /\ job \in [step : {"written", "synced", "landed"}, snap : Snap, synced : BOOLEAN]
      /\ Once(job.snap.leaves) /\ job.snap.seq = last
  BY <1>1 DEF SInv, Saves
<1>3. CASE SyncTmp
  <2>1. /\ job' \in [step : {"written", "synced", "landed"}, snap : Snap, synced : BOOLEAN]
        /\ job'.snap = job.snap
    BY <1>2, <1>3 DEF SyncTmp, Synced
  <2>2. UNCHANGED <<fg, file, tails, scrubbed>>
    BY <1>3 DEF SyncTmp
  <2>3. QED
    BY <1>1, <1>2, <2>1, <2>2 DEF SInv, Counts, Saves, TailsOK, Booting
<1>4. CASE RenameTmp
  <2>1. /\ job' \in [step : {"written", "synced", "landed"}, snap : Snap, synced : BOOLEAN]
        /\ job'.snap = job.snap /\ UNCHANGED <<fg, tails, scrubbed>>
    BY <1>2, <1>4 DEF RenameTmp
  <2>2. job.snap \in Snap /\ job.synced \in BOOLEAN
    BY <1>2
  <2>3. job.snap.ver \in 0 .. MaxVer /\ job.snap.leaves \in Seq(Leaves)
    BY <2>2 DEF Snap
  <2>4. file' = [kind |-> "ok", ver |-> job.snap.ver, leaves |-> job.snap.leaves,
                 synced |-> job.synced]
    BY <1>4 DEF RenameTmp
  <2>5. file' \in FileType /\ file'.leaves = job.snap.leaves
    BY <2>2, <2>3, <2>4 DEF FileType
  <2>6. QED
    BY <1>1, <1>2, <2>1, <2>5 DEF SInv, Counts, Saves, TailsOK, Booting
<1>5. CASE WriteFails
  <2>1. /\ job' \in [step : {"written", "synced", "landed"}, snap : Snap, synced : BOOLEAN]
        /\ job'.snap = job.snap /\ UNCHANGED <<file, tails, scrubbed>>
    BY <1>2, <1>5 DEF WriteFails
  <2>2. fg' \in [why : {"idle", "detach", "stop", "handoff"}, seq : 0 .. MaxSeq, ok : BOOLEAN]
    <3> DEFINE F == [why : {"idle", "detach", "stop", "handoff"}, seq : 0 .. MaxSeq, ok : BOOLEAN]
    <3>1. fg \in F
      BY DEF SInv, Counts
    <3>2. \A f \in F : \A b \in BOOLEAN : [f EXCEPT !.ok = b] \in F
      OBVIOUS
    <3>3. [fg EXCEPT !.ok = FALSE] \in F
      BY <3>1, <3>2
    <3>4. fg' = fg \/ fg' = [fg EXCEPT !.ok = FALSE]
      BY <1>5 DEF WriteFails
    <3>5. QED
      BY <3>1, <3>3, <3>4
  <2>3. QED
    BY <1>1, <1>2, <2>1, <2>2 DEF SInv, Counts, Saves, TailsOK, Booting
<1>6. CASE WriteScreens
  <2>1. job' = NoJob /\ tails' = PersistScreens(job.snap) /\ UNCHANGED <<fg, file>>
    BY <1>6 DEF WriteScreens
  <2>2. job.snap.tails \in [Id -> Who \cup {NoText, Keep}]
    BY <1>2 DEF Snap
  <2>3. TailsOK'
    BY <2>1, <2>2, SaveScreensFacts, PurgedFacts DEF PersistScreens, TailsOK, SInv
  <2>4. scrubbed' \in BOOLEAN
    <3> DEFINE purges == ~job.snap.hist /\ ~hist /\ \A s \in pending : s.hist => s.seq < job.snap.seq
    <3>1. scrubbed' = (scrubbed \/ purges)
      BY <1>6 DEF WriteScreens
    <3> HIDE DEF purges
    <3>2. QED
      BY <3>1, Zenon
  <2>5. QED
    BY <1>1, <2>1, <2>3, <2>4 DEF SInv, Counts, Saves, Booting
<1>7. QED
  BY <1>3, <1>4, <1>5, <1>6

-----------------------------------------------------------------------------
(* The end of a foreground save, and of a life.                            *)
LEMMA GoneSInv ==
  ASSUME SInv, Gone, file' \in FileType, Once(file'.leaves), ver' = file'.ver, TailsOK',
         UNCHANGED <<hist, scrubbed>>
  PROVE  SInv'
<1>1. Counts'
  <2>1. ver' \in 0 .. MaxVer
    BY DEF FileType
  <2>2. nextSeq' = 1 /\ last' = 0 /\ up' = "down" /\ fg' = Idle
    BY DEF Gone
  <2>3. nextSeq' \in 1 .. MaxSeq + 1 /\ last' \in 0 .. MaxSeq
    BY <2>2, PersistenceAssumption
  <2>4. fg' \in [why : {"idle", "detach", "stop", "handoff"}, seq : 0 .. MaxSeq, ok : BOOLEAN]
    BY <2>2, PersistenceAssumption DEF Idle
  <2>5. QED
    BY <2>1, <2>2, <2>3, <2>4 DEF SInv, Counts
<1>2. panes' = <<>> /\ nextId' = 1 /\ pending' = {} /\ job' = NoJob /\ replayed' = 0 /\ up' = "down"
  BY DEF Gone
<1>3. Numbered(panes, nextId)'
  BY <1>2, PersistenceAssumption DEF Numbered
<1>4. Saves'
  BY <1>2 DEF Saves
<1>5. Booting'
  BY <1>2, PersistenceAssumption DEF Booting
<1>6. QED
  BY <1>1, <1>3, <1>4, <1>5 DEF SInv

LEMMA EndSInv ==
  ASSUME SInv,
         \/ DetachSaved \/ Exit \/ HandoffScreens \/ HandoffRefused \/ HandoffWritten
         \/ ExecFails \/ \E power \in BOOLEAN : Crash(power)
  PROVE  SInv'
<1> USE DEF SInv
<1>1. Idle \in [why : {"idle", "detach", "stop", "handoff"}, seq : 0 .. MaxSeq, ok : BOOLEAN]
  BY PersistenceAssumption DEF Idle
<1>2. CASE DetachSaved
  BY <1>1, <1>2 DEF DetachSaved, Counts, Saves, TailsOK, Booting
<1>3. CASE HandoffScreens
  <2>1. /\ fg' = Idle /\ up' = "handoff" /\ tails' = HandoffTails /\ scrubbed' = FALSE
        /\ UNCHANGED <<panes, ver, nextId, hist, nextSeq, last, pending, job, file, replayed>>
    BY <1>3 DEF HandoffScreens
  <2>2. TailsOK'
    BY <2>1, ScreenTailsType, SaveScreensFacts DEF HandoffTails, TailsOK
  <2>3. scrubbed' \in BOOLEAN
    BY <2>1, Zenon
  <2>4. QED
    BY <1>1, <2>1, <2>2, <2>3 DEF Counts, Saves, Booting
<1>4. CASE HandoffRefused \/ HandoffWritten
  BY <1>4 DEF HandoffRefused, HandoffWritten, Counts, Saves, TailsOK, Booting
<1>5. file \in FileType /\ Once(file.leaves) /\ TailsOK
  BY DEF Saves
<1>6. CASE Exit
  BY <1>5, <1>6, GoneSInv DEF Exit, TailsOK
<1>7. CASE ExecFails
  <2>1. TailsOK'
    BY <1>5, <1>7, PurgedFacts DEF ExecFails, TailsOK
  <2>2. QED
    BY <1>5, <1>7, <2>1, GoneSInv DEF ExecFails
<1>8. ASSUME NEW power \in BOOLEAN, Crash(power) PROVE SInv'
  <2>1. Torn \in FileType /\ Once(Torn.leaves)
    BY PersistenceAssumption DEF Torn, FileType, Once
  <2>2. file' = Torn \/ file' = file
    BY <1>8 DEF Crash
  <2>3. file' \in FileType /\ Once(file'.leaves)
    BY <1>5, <2>1, <2>2
  <2>4. Gone /\ ver' = file'.ver /\ TailsOK' /\ UNCHANGED <<hist, scrubbed>>
    BY <1>5, <1>8 DEF Crash, TailsOK
  <2>5. QED
    BY <2>3, <2>4, GoneSInv
<1>9. QED
  BY <1>2, <1>3, <1>4, <1>6, <1>7, <1>8

(* A live handoff: the panes that were adopted keep their ids.             *)
LEMMA BuildSInv ==
  ASSUME SInv, NEW dead \in SUBSET Id, BuildFromHandoff(dead)
  PROVE  SInv'
<1> DEFINE kept == Without(panes, dead)
           qs == [k \in DOMAIN kept |-> [kept[k] EXCEPT !.alt = FALSE]]
<1>1. Numbered(kept, nextId)
  BY WithoutNumbered DEF SInv
<1> HIDE DEF kept
<1>2. kept \in Seq(Pane)
  BY <1>1 DEF Numbered
<1>3. \A p \in Pane : \A a \in BOOLEAN : [p EXCEPT !.alt = a] \in Pane /\ [p EXCEPT !.alt = a].id = p.id
  BY DEF Pane
<1>4. \A k \in DOMAIN kept : qs[k] \in Pane /\ qs[k].id = kept[k].id
  <2>1. \A k \in DOMAIN kept : kept[k] \in Pane
    BY <1>2
  <2>2. QED
    BY <1>3, <2>1
<1>5. qs \in Seq(Pane) /\ Len(qs) = Len(kept)
  BY <1>2, <1>4
<1>6. /\ up' = "up" /\ panes' = qs /\ job = NoJob
      /\ tails' = [i \in Id |-> IF i \in Ids(panes) THEN NoText ELSE tails[i]]
      /\ dead # {} => ver < MaxVer
      /\ ver' = IF dead = {} THEN ver ELSE ver + 1
      /\ nextSeq' = 1 /\ last' = 0 /\ pending' = {}
      /\ UNCHANGED <<nextId, hist, job, fg, file, replayed, scrubbed>>
  BY DEF BuildFromHandoff, kept
<1> HIDE DEF qs
<1>7. Numbered(qs, nextId)
  BY <1>1, <1>4, <1>5, SameIdsNumbered
<1>8. ver' \in 0 .. MaxVer
  BY <1>6, PersistenceAssumption DEF SInv, Counts
<1>9. Counts'
  BY <1>6, <1>8, PersistenceAssumption DEF SInv, Counts
<1>10. TailsOK'
  BY <1>6 DEF SInv, TailsOK
<1>11. QED
  BY <1>6, <1>7, <1>9, <1>10 DEF SInv, Saves, Booting

-----------------------------------------------------------------------------
(* The cold boot.                                                          *)
LEMMA BootSInv == ASSUME SInv, Whole, Boot PROVE SInv'
<1>1. /\ up = "down" /\ pending = {} /\ job = NoJob /\ nextId' = Len(panes') + 1 /\ file' = file
      /\ UNCHANGED <<ver, hist, nextSeq, last, pending, job, fg, tails, replayed, scrubbed>>
  BY DEF Boot, SInv, Booting, Whole
<1>2. CASE file.leaves = <<>>
  <2>1. PICK w \in Who : panes' = <<Fresh(1, w)>> /\ up' = "up"
    BY <1>2 DEF Boot
  <2>2. Fresh(1, w) \in Pane /\ Fresh(1, w).id = 1
    BY PersistenceAssumption DEF Fresh, Pane, Id
  <2>3. /\ panes' \in Seq(Pane) /\ Len(panes') = 1 /\ DOMAIN panes' = {1} /\ panes'[1].id = 1
    BY <2>1, <2>2
  <2>4. Numbered(panes, nextId)'
    BY <1>1, <2>3, PersistenceAssumption DEF Numbered
  <2>5. QED
    BY <1>1, <2>1, <2>4 DEF SInv, Counts, Saves, TailsOK, Booting
<1>3. CASE file.leaves # <<>>
  <2>1. panes' = Restored(file.leaves) /\ up' = "boot"
    BY <1>3 DEF Boot
  <2>2. Numbered(panes, nextId)'
    BY <1>1, <2>1, RestoredNumbered DEF SInv, Saves
  <2>3. QED
    BY <1>1, <1>3, <2>1, <2>2 DEF SInv, Counts, Saves, TailsOK, Booting
<1>4. QED
  BY <1>2, <1>3

LEMMA ReplaySInv == ASSUME SInv, ReplayScreen PROVE SInv'
<1> DEFINE m == Len(panes)
<1>1. /\ up = "boot" /\ replayed' = (replayed + 1) % m
      /\ up' \in {"boot", "up"}
      /\ UNCHANGED <<panes, ver, nextId, hist, nextSeq, last, pending, job, fg, file, scrubbed>>
  BY DEF ReplayScreen
<1>2. /\ Once(file.leaves) /\ file.leaves # <<>> /\ panes = Restored(file.leaves)
      /\ pending = {} /\ job = NoJob
  BY <1>1 DEF SInv, Saves, Booting
<1>3. m = Len(file.leaves) /\ m \in Nat /\ m + 1 \in 1 .. MaxId + 1
  BY <1>2, RestoredNumbered DEF Numbered, Once
<1>4. m \in 1 .. MaxId
  BY <1>2, <1>3, PersistenceAssumption DEF Once
<1>5. replayed \in Nat
  BY DEF SInv, Booting
<1> HIDE DEF m
<1>6. replayed' \in 0 .. MaxId
  BY <1>1, <1>4, <1>5, PersistenceAssumption
<1>7. TailsOK'
  <2>1. \A i : Taken(i) \in [Id -> Who \cup {NoText}]
    BY DEF Taken, SInv, TailsOK
  <2>2. tails' = tails \/ \E i : tails' = Taken(i)
    BY DEF ReplayScreen
  <2>3. QED
    BY <2>1, <2>2 DEF SInv, TailsOK
<1>8. QED
  BY <1>1, <1>2, <1>6, <1>7 DEF SInv, Counts, Saves, Booting

LEMMA NextSInv == IInv /\ SInv /\ [Next]_vars => SInv'
<1> SUFFICES ASSUME IInv, SInv, [Next]_vars PROVE SInv'
  OBVIOUS
<1>1. CASE \/ \E w \in Who : OpenPane(w)
           \/ \E i \in Id : ClosePane(i)
           \/ \E k, o \in Id : JoinTeam(k, o)
  BY <1>1, EditsSInv
<1>2. ASSUME NEW k \in Id, SwitchScreen(k) PROVE SInv'
  BY <1>2, SwitchSInv
<1>3. CASE ReloadConfig
  BY <1>3, ReloadSInv
<1>4. CASE Autosave \/ \E why \in {"detach", "stop", "handoff"} : SaveNow(why)
  BY <1>4, StageSInv
<1>5. ASSUME NEW s \in pending, Persist(s) PROVE SInv'
  BY <1>5, PersistSInv
<1>6. CASE SyncTmp \/ RenameTmp \/ WriteFails \/ WriteScreens
  BY <1>6, WriteSInv
<1>7. CASE \/ DetachSaved \/ Exit \/ HandoffScreens \/ HandoffRefused \/ HandoffWritten
           \/ ExecFails \/ \E power \in BOOLEAN : Crash(power)
  BY <1>7, EndSInv
<1>8. ASSUME NEW dead \in SUBSET Id, BuildFromHandoff(dead) PROVE SInv'
  BY <1>8, BuildSInv
<1>9. CASE Boot
  BY <1>9, BootSInv DEF IInv
<1>10. CASE ReplayScreen
  BY <1>10, ReplaySInv
<1>11. CASE UNCHANGED vars
  BY <1>11 DEF vars, SInv, Counts, Saves, TailsOK, Booting
<1>12. QED
  BY <1>1, <1>2, <1>3, <1>4, <1>5, <1>6, <1>7, <1>8, <1>9, <1>10, <1>11 DEF Next

(* The types, over any panes, edits and saves: a cold boot or a handoff    *)
(* never hands out an id past the counter, and LAST is the number of the   *)
(* persist that holds the lock.                                            *)
THEOREM TypeCorrect == Spec => []TypeOK
<1>1. SInv => TypeOK
  <2> SUFFICES ASSUME SInv PROVE TypeOK
    OBVIOUS
  <2>1. /\ panes \in Seq([id : Id, who : Who, orch : 0 .. MaxId, alt : BOOLEAN])
        /\ nextId \in 1 .. MaxId + 1
    BY DEF SInv, Numbered, Pane
  <2>2. {hist, scrubbed} \subseteq BOOLEAN
    <3>1. hist \in BOOLEAN /\ scrubbed \in BOOLEAN
      BY DEF SInv, Counts
    <3>2. QED
      BY <3>1, Zenon
  <2>3. pending \subseteq Snap
    BY DEF SInv, Saves
  <2>4. QED
    BY <2>1, <2>2, <2>3 DEF TypeOK, SInv, Counts, Saves, FileType, TailsOK, Booting
<1>2. QED
  BY <1>1, InitIInv, NextIInv, InitSInv, NextSInv, PTL DEF Spec

-----------------------------------------------------------------------------
(* A cold boot brings every pane back in its place under its own           *)
(* orchestrator, whatever ids the panes had when they were saved.          *)
THEOREM BootRestoresSaved == Spec => []RestoredAsSaved
<1>1. SInv => RestoredAsSaved
  <2> DEFINE leaves == file.leaves
             n == Len(leaves)
  <2> SUFFICES ASSUME SInv, up = "boot"
               PROVE  /\ Len(panes) = n
                      /\ \A k \in DOMAIN panes :
                           /\ panes[k].who = leaves[k].who
                           /\ WhoIs(panes, panes[k].orch) = WhoWas(leaves, leaves[k].orch)
    BY DEF RestoredAsSaved
  <2>1. Once(leaves) /\ panes = Restored(leaves)
    BY DEF SInv, Saves, Booting
  <2>2. n \in Nat /\ DOMAIN leaves = 1 .. n
    BY <2>1 DEF Once
  <2>3. /\ Len(panes) = n /\ panes \in Seq(Pane)
        /\ \A k \in 1 .. n : panes[k] = [id |-> k, who |-> leaves[k].who,
                                         orch |-> SavedToNew(leaves, k), alt |-> FALSE]
    BY <2>1, <2>2, RestoredNumbered DEF Numbered
  <2> HIDE DEF n, leaves
  <2>4. /\ DOMAIN panes = 1 .. n
        /\ \A k \in 1 .. n : /\ panes[k].id = k /\ panes[k].who = leaves[k].who
                             /\ panes[k].orch = SavedToNew(leaves, k)
    BY <2>3
  <2>5. ASSUME NEW k \in 1 .. n
        PROVE  WhoIs(panes, panes[k].orch) = WhoWas(leaves, leaves[k].orch)
    <3>1. CASE \E j \in 1 .. n : leaves[j].pane = leaves[k].orch
      <4> DEFINE j == SavedToNew(leaves, k)
      <4>1. j \in 1 .. n /\ leaves[j].pane = leaves[k].orch
        BY <2>2, <3>1 DEF SavedToNew
      <4> HIDE DEF j
      <4>2. {m \in DOMAIN panes : panes[m].id = j} = {j}
        BY <2>4, <4>1
      <4>3. {m \in DOMAIN leaves : leaves[m].pane = leaves[k].orch} = {j}
        BY <2>1, <2>2, <4>1 DEF Once
      <4>4. panes[k].orch = j /\ panes[j].who = leaves[j].who
        BY <2>4, <4>1 DEF j
      <4>5. QED
        BY <4>2, <4>3, <4>4 DEF WhoIs, WhoWas
    <3>2. CASE ~ \E j \in 1 .. n : leaves[j].pane = leaves[k].orch
      <4>1. panes[k].orch = 0
        BY <2>2, <2>4, <3>2 DEF SavedToNew
      <4>2. {m \in DOMAIN panes : panes[m].id = 0} = {}
        BY <2>2, <2>4
      <4>3. {m \in DOMAIN leaves : leaves[m].pane = leaves[k].orch} = {}
        BY <2>2, <3>2
      <4>4. QED
        BY <4>1, <4>2, <4>3 DEF WhoIs, WhoWas
    <3>3. QED
      BY <3>1, <3>2
  <2>6. QED
    BY <2>3, <2>4, <2>5
<1>2. QED
  BY <1>1, InitIInv, NextIInv, InitSInv, NextSInv, PTL DEF Spec

=============================================================================
