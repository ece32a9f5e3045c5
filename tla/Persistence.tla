------------------------------ MODULE Persistence ------------------------------
(***************************************************************************)
(* The saved session: staging a snapshot on the loop, persisting it on a   *)
(* blocking thread or in the foreground, screen tails beside it, crashes   *)
(* and power cuts, the cold boot that restores it and the live handoff     *)
(* that passes it on.  One server at a time (module Lifecycle has several).*)
(***************************************************************************)
EXTENDS Integers, Sequences, Subsequences

CONSTANTS
  Who,        (* what runs in a pane: the identity that outlives its id    *)
  NoText,     (* no saved screen                                           *)
  Keep,       (* a pane on its alternate screen: its saved tail is kept    *)
  MaxId, MaxVer, MaxSeq     (* bounds: ids per life, edits, saves per life *)

ASSUME PersistenceAssumption ==
  /\ NoText \notin Who /\ Keep \notin Who /\ NoText # Keep
  /\ MaxId \in Nat \ {0} /\ MaxVer \in Nat /\ MaxSeq \in Nat

VARIABLES
  up,         (* "down", "boot", "up", "handoff" or "exec"                 *)
  panes,      (* the leaves in tree order: id, who, orchestrator's id or 0,*)
              (* whether it is on its alternate screen                     *)
  ver,        (* the version of the session; when down, the one on disk    *)
  nextId,     (* IdGen                                                     *)
  hist,       (* [restore] screen_history                                  *)
  nextSeq, last,   (* the statics NEXT and LAST of this process image      *)
  pending,    (* staged snapshots whose persist has not got the lock       *)
  job,        (* the persist that holds the lock                           *)
  fg,         (* the foreground save the loop is blocked in                *)
  file,       (* session-<name>.json                                       *)
  tails,      (* screens-<name>/: saved pane id -> whose text              *)
  replayed,   (* panes of the boot whose tail was read back                *)
  scrubbed    (* a save purged the tails and none staged since asks for any*)

vars == <<up, panes, ver, nextId, hist, nextSeq, last, pending, job, fg, file,
          tails, replayed, scrubbed>>

Id == 1 .. MaxId
Idle == [why |-> "idle", seq |-> 0, ok |-> TRUE]
NoJob == [step |-> "none"]
NoFile == [kind |-> "none", ver |-> 0, leaves |-> <<>>, synced |-> TRUE]
Torn == [kind |-> "torn", ver |-> 0, leaves |-> <<>>, synced |-> TRUE]

Ids(ps) == {ps[k].id : k \in DOMAIN ps}
Whos(ps) == {ps[k].who : k \in DOMAIN ps}
LoopFree == up = "up" /\ fg = Idle

Fresh(i, w) == [id |-> i, who |-> w, orch |-> 0, alt |-> FALSE]

(* screen_tails: a pane on its alternate screen reports no text, which     *)
(* keeps its file; a pane that is gone is not listed and loses its file.   *)
ScreenTails(ps) ==
  [i \in Id |->
    IF i \notin Ids(ps) THEN NoText
    ELSE LET p == ps[CHOOSE k \in DOMAIN ps : ps[k].id = i]
         IN IF p.alt THEN Keep ELSE p.who]

SaveScreens(listed, old) == [i \in Id |-> IF listed[i] = Keep THEN old[i] ELSE listed[i]]
Purged == [i \in Id |-> NoText]

(* persist_screens: with the feature off the whole directory goes.         *)
PersistScreensSkips(s) == IF s.hist THEN SaveScreens(s.tails, tails) ELSE tails
PersistScreens(s) == IF s.hist THEN SaveScreens(s.tails, tails) ELSE Purged

Leaf(p) == [pane |-> p.id, who |-> p.who, orch |-> p.orch]

StageSession ==
  [seq |-> nextSeq, ver |-> ver, hist |-> hist, tails |-> ScreenTails(panes),
   leaves |-> [k \in DOMAIN panes |-> Leaf(panes[k])]]

Init ==
  /\ up = "down" /\ panes = <<>> /\ ver = 0 /\ nextId = 1
  /\ hist \in BOOLEAN
  /\ nextSeq = 1 /\ last = 0 /\ pending = {} /\ job = NoJob /\ fg = Idle
  /\ file = NoFile /\ tails = Purged
  /\ replayed = 0 /\ scrubbed = FALSE

--------------------------------------------------------------------------------
(* The session changes: a pane opens or closes, joins a team, switches its *)
(* screen; the configuration is reloaded.                                  *)
Edited(ps) ==
  /\ panes' = ps
  /\ ver' = ver + 1
  /\ UNCHANGED <<up, hist, nextSeq, last, pending, job, fg, file, tails, replayed, scrubbed>>

OpenPane(w) ==
  /\ LoopFree /\ ver < MaxVer /\ nextId <= MaxId
  /\ w \notin Whos(panes)
  /\ Edited(Append(panes, Fresh(nextId, w)))
  /\ nextId' = nextId + 1

Without(ps, gone) ==
  LET kept == EntriesAt(ps, {k \in DOMAIN ps : ps[k].id \notin gone})
  IN [k \in DOMAIN kept |-> IF kept[k].orch \in gone THEN [kept[k] EXCEPT !.orch = 0]
                            ELSE kept[k]]

ClosePane(i) ==
  /\ LoopFree /\ ver < MaxVer /\ Len(panes) > 1
  /\ i \in Ids(panes)
  /\ Edited(Without(panes, {i}))
  /\ UNCHANGED nextId

JoinTeam(k, o) ==
  /\ LoopFree /\ ver < MaxVer
  /\ k \in DOMAIN panes /\ o \in Ids(panes) \ {panes[k].id}
  /\ panes[k].orch # o
  /\ Edited([panes EXCEPT ![k].orch = o])
  /\ UNCHANGED nextId

SwitchScreen(k) ==
  /\ LoopFree
  /\ k \in DOMAIN panes
  /\ panes' = [panes EXCEPT ![k].alt = ~panes[k].alt]
  /\ UNCHANGED <<up, ver, nextId, hist, nextSeq, last, pending, job, fg, file, tails,
                 replayed, scrubbed>>

ReloadConfig ==
  /\ LoopFree
  /\ hist' = ~hist
  /\ scrubbed' = FALSE
  /\ UNCHANGED <<up, panes, ver, nextId, nextSeq, last, pending, job, fg, file, tails,
                 replayed>>

--------------------------------------------------------------------------------
(* Saves.  The loop stages; persist runs on a blocking thread or here.     *)
Stage ==
  /\ nextSeq <= MaxSeq
  /\ nextSeq' = nextSeq + 1
  /\ pending' = pending \cup {StageSession}
  /\ UNCHANGED <<up, panes, ver, nextId, hist, last, job, file, tails, replayed, scrubbed>>

Autosave == LoopFree /\ Stage /\ UNCHANGED fg

(* A terminal detaches, the session is shut down, an update hands over.    *)
SaveNow(why) ==
  /\ LoopFree /\ Stage
  /\ fg' = [why |-> why, seq |-> nextSeq, ok |-> TRUE]

(* persist_at takes its lock and looks at the sequence number.             *)
StaleNever(s) == FALSE
Stale(s) == s.seq < last

PersistForgetsLast(s) ==
  /\ job = NoJob /\ s \in pending /\ ~Stale(s)
  /\ pending' = pending \ {s}
  /\ job' = [step |-> "written", snap |-> s, synced |-> FALSE]
  /\ UNCHANGED <<up, panes, ver, nextId, hist, nextSeq, last, fg, file, tails, replayed,
                 scrubbed>>
Persist(s) ==
  /\ job = NoJob /\ s \in pending
  /\ pending' = pending \ {s}
  /\ IF Stale(s)
     THEN UNCHANGED <<last, job>>
     ELSE last' = s.seq /\ job' = [step |-> "written", snap |-> s, synced |-> FALSE]
  /\ UNCHANGED <<up, panes, ver, nextId, hist, nextSeq, fg, file, tails, replayed, scrubbed>>

(* write_atomic: the .tmp is written, synced, renamed.                     *)
SyncSkipped(j) == [j EXCEPT !.step = "synced"]
Synced(j) == [j EXCEPT !.step = "synced", !.synced = TRUE]

SyncTmp ==
  /\ job # NoJob /\ job.step = "written"
  /\ job' = Synced(job)
  /\ UNCHANGED <<up, panes, ver, nextId, hist, nextSeq, last, pending, fg, file, tails,
                 replayed, scrubbed>>

RenameTmp ==
  /\ job # NoJob /\ job.step = "synced"
  /\ job' = [job EXCEPT !.step = "landed"]
  /\ file' = [kind |-> "ok", ver |-> job.snap.ver, leaves |-> job.snap.leaves,
              synced |-> job.synced]
  /\ UNCHANGED <<up, panes, ver, nextId, hist, nextSeq, last, pending, fg, tails,
                 replayed, scrubbed>>

(* Any step of it may fail: the error is logged and persist goes on.       *)
WriteFails ==
  /\ job # NoJob /\ job.step \in {"written", "synced"}
  /\ job' = [job EXCEPT !.step = "landed"]
  /\ fg' = IF job.snap.seq = fg.seq THEN [fg EXCEPT !.ok = FALSE] ELSE fg
  /\ UNCHANGED <<up, panes, ver, nextId, hist, nextSeq, last, pending, file, tails,
                 replayed, scrubbed>>

WriteScreens ==
  /\ job # NoJob /\ job.step = "landed"
  /\ tails' = PersistScreens(job.snap)
  /\ scrubbed' = \/ scrubbed
                  \/ /\ ~job.snap.hist /\ ~hist
                     /\ \A s \in pending : s.hist => s.seq < job.snap.seq
  /\ job' = NoJob
  /\ UNCHANGED <<up, panes, ver, nextId, hist, nextSeq, last, pending, fg, file,
                 replayed>>

--------------------------------------------------------------------------------
(* The foreground save is over and its caller goes on.                     *)
NotWaited == FALSE
StillSaving ==
  \/ job # NoJob /\ job.snap.seq = fg.seq
  \/ \E s \in pending : s.seq = fg.seq
Returned == fg # Idle /\ ~StillSaving

DetachSaved ==
  /\ Returned /\ fg.why = "detach" /\ fg' = Idle
  /\ UNCHANGED <<up, panes, ver, nextId, hist, nextSeq, last, pending, job, file, tails,
                 replayed, scrubbed>>

(* Memory is gone; what is left is on disk.                                *)
Gone ==
  /\ up' = "down" /\ panes' = <<>> /\ nextId' = 1 /\ nextSeq' = 1 /\ last' = 0
  /\ pending' = {} /\ job' = NoJob /\ fg' = Idle /\ replayed' = 0

(* The tokio runtime is dropped: it waits for the persist that runs and    *)
(* drops those that have not started.                                      *)
Exit ==
  /\ Returned /\ fg.why = "stop" /\ job = NoJob
  /\ Gone /\ ver' = file.ver
  /\ UNCHANGED <<hist, file, tails, scrubbed>>

(* save_handoff_screens writes the tails whatever the configuration says,  *)
(* then handoff.json is written.                                           *)
HandoffTails == SaveScreens(ScreenTails(panes), tails)

HandoffScreens ==
  /\ Returned /\ fg.why = "handoff" /\ fg' = Idle
  /\ up' = "handoff"
  /\ tails' = HandoffTails
  /\ scrubbed' = FALSE
  /\ UNCHANGED <<panes, ver, nextId, hist, nextSeq, last, pending, job, file, replayed>>

HandoffRefused ==
  /\ up = "handoff" /\ up' = "up"
  /\ UNCHANGED <<panes, ver, nextId, hist, nextSeq, last, pending, job, fg, file, tails,
                 replayed, scrubbed>>

HandoffWritten ==
  /\ up = "handoff" /\ up' = "exec"
  /\ UNCHANGED <<panes, ver, nextId, hist, nextSeq, last, pending, job, fg, file, tails,
                 replayed, scrubbed>>

(* The new image: counters start over, panes keep their ids, a tail is     *)
(* read once into the blank emulator; panes that were not adopted close.   *)
BuildFromHandoff(dead) ==
  /\ up = "exec" /\ job = NoJob
  /\ dead \subseteq Ids(panes) /\ Ids(panes) # dead
  /\ dead # {} => ver < MaxVer
  /\ up' = "up"
  /\ panes' = LET kept == Without(panes, dead)
              IN [k \in DOMAIN kept |->
                    [kept[k] EXCEPT !.alt = FALSE]]
  /\ tails' = [i \in Id |-> IF i \in Ids(panes) THEN NoText ELSE tails[i]]
  /\ ver' = IF dead = {} THEN ver ELSE ver + 1
  /\ nextSeq' = 1 /\ last' = 0 /\ pending' = {}
  /\ UNCHANGED <<nextId, hist, job, fg, file, replayed, scrubbed>>

ExecFails ==
  /\ up = "exec" /\ job = NoJob
  /\ Gone /\ ver' = file.ver
  /\ tails' = IF hist THEN tails ELSE Purged
  /\ UNCHANGED <<hist, file, scrubbed>>

--------------------------------------------------------------------------------
(* kill -9, or the power goes: a file that was not synced comes back torn. *)
Crash(power) ==
  /\ up # "down"
  /\ Gone
  /\ file' = IF power /\ ~file.synced THEN Torn ELSE file
  /\ ver' = file'.ver
  /\ UNCHANGED <<hist, tails, scrubbed>>

(* Snapshot::restore: fresh ids in tree order, teams remapped from saved   *)
(* ids; a link whose orchestrator did not come back is dropped.            *)
SavedToNewInOnePass(leaves, k) ==
  IF \E j \in 1 .. k : leaves[j].pane = leaves[k].orch
  THEN CHOOSE j \in 1 .. k : leaves[j].pane = leaves[k].orch ELSE 0
SavedToNew(leaves, k) ==
  IF \E j \in DOMAIN leaves : leaves[j].pane = leaves[k].orch
  THEN CHOOSE j \in DOMAIN leaves : leaves[j].pane = leaves[k].orch ELSE 0

Restored(leaves) ==
  [k \in DOMAIN leaves |->
    [Fresh(k, leaves[k].who) EXCEPT !.orch = SavedToNew(leaves, k)]]

Boot ==
  /\ up = "down"
  /\ IF file.leaves = <<>>
     THEN \E w \in Who : panes' = <<Fresh(1, w)>> /\ up' = "up"
     ELSE panes' = Restored(file.leaves) /\ up' = "boot"
  /\ nextId' = Len(panes') + 1
  /\ file' = IF file.kind = "torn" THEN NoFile ELSE file
  /\ UNCHANGED <<ver, hist, nextSeq, last, pending, job, fg, tails, replayed,
                 scrubbed>>

(* One pane at a time: it is spawned and its tail is read, once.           *)
Taken(i) == [tails EXCEPT ![i] = NoText]

ReplayScreen ==
  /\ up = "boot"
  /\ replayed' = (replayed + 1) % Len(panes)
  /\ LET k == replayed + 1
         i == file.leaves[k].pane
     IN /\ tails' = IF hist THEN Taken(i) ELSE tails
        /\ up' = IF k = Len(panes) THEN "up" ELSE "boot"
  /\ UNCHANGED <<panes, ver, nextId, hist, nextSeq, last, pending, job, fg, file, scrubbed>>

Next ==
  \/ \E w \in Who : OpenPane(w)
  \/ \E i \in Id : ClosePane(i)
  \/ \E k, o \in Id : JoinTeam(k, o)
  \/ \E k \in Id : SwitchScreen(k)
  \/ ReloadConfig \/ Autosave
  \/ \E why \in {"detach", "stop", "handoff"} : SaveNow(why)
  \/ \E s \in pending : Persist(s)
  \/ SyncTmp \/ RenameTmp \/ WriteFails \/ WriteScreens
  \/ DetachSaved \/ Exit \/ HandoffScreens \/ HandoffRefused \/ HandoffWritten
  \/ \E dead \in SUBSET Id : BuildFromHandoff(dead)
  \/ ExecFails
  \/ \E power \in BOOLEAN : Crash(power)
  \/ Boot \/ ReplayScreen

Spec == Init /\ [][Next]_vars

--------------------------------------------------------------------------------
Leaves == [pane : Id, who : Who, orch : 0 .. MaxId]
Snap == [seq : 1 .. MaxSeq, ver : 0 .. MaxVer, hist : BOOLEAN,
         tails : [Id -> Who \cup {NoText, Keep}], leaves : Seq(Leaves)]

(* The types; a persist that holds the lock is never behind LAST.          *)
TypeOK ==
  /\ up \in {"down", "boot", "up", "handoff", "exec"}
  /\ panes \in Seq([id : Id, who : Who, orch : 0 .. MaxId, alt : BOOLEAN])
  /\ ver \in 0 .. MaxVer /\ nextId \in 1 .. MaxId + 1
  /\ {hist, scrubbed} \subseteq BOOLEAN
  /\ nextSeq \in 1 .. MaxSeq + 1 /\ last \in 0 .. MaxSeq
  /\ pending \subseteq Snap
  /\ job # NoJob =>
       /\ job \in [step : {"written", "synced", "landed"}, snap : Snap,
                   synced : BOOLEAN]
       /\ job.snap.seq = last
  /\ fg \in [why : {"idle", "detach", "stop", "handoff"}, seq : 0 .. MaxSeq, ok : BOOLEAN]
  /\ file \in [kind : {"none", "ok", "torn"}, ver : 0 .. MaxVer, leaves : Seq(Leaves),
               synced : BOOLEAN]
  /\ tails \in [Id -> Who \cup {NoText}]
  /\ replayed \in 0 .. MaxId

(* No crash and no power cut, at any step of a save, leaves a truncated    *)
(* session file (the comment on write_atomic).                             *)
FileWhole == file.kind # "torn"

(* Saves land in the order they were staged, whichever threads write them, *)
(* and a restart resumes from the last that landed: the session file       *)
(* implements a durable register (state/snapshot.rs:451).                  *)
Durable == INSTANCE DurableSession WITH session <- ver, durable <- file.ver
ImplementsDurable == Durable!Spec

(* When a detach, a shutdown or a handoff goes on after its save, what it  *)
(* saved is on disk unless a write failed, whatever older saves were still *)
(* under way (runtime/mod.rs:1430).                                        *)
ForegroundSaved == Returned /\ fg.ok => file.kind = "ok" /\ file.ver = ver

(* A cold boot brings every pane back in its place with its orchestrator,  *)
(* although every id is new.                                               *)
WhoIs(ps, i) == {ps[k].who : k \in {m \in DOMAIN ps : ps[m].id = i}}
WhoWas(leaves, i) == {leaves[k].who : k \in {m \in DOMAIN leaves : leaves[m].pane = i}}
RestoredAsSaved ==
  up = "boot" =>
    /\ Len(panes) = Len(file.leaves)
    /\ \A k \in DOMAIN panes :
         /\ panes[k].who = file.leaves[k].who
         /\ WhoIs(panes, panes[k].orch) = WhoWas(file.leaves, file.leaves[k].orch)

(* Once a save with screen_history off has purged the tails, no save that  *)
(* was staged before it puts one back (snapshot.rs:612).                   *)
ScrubbedForGood == scrubbed => tails = Purged

(* A pane is shown its own past and nobody else's: the tail that a boot or *)
(* a handoff is about to replay into it is its own (snapshot.rs:586).      *)
OwnTail ==
  /\ up = "boot" /\ hist =>
       \A k \in DOMAIN panes :
         k > replayed => tails[file.leaves[k].pane] \in {NoText, panes[k].who}
  /\ up = "exec" => \A k \in DOMAIN panes : tails[panes[k].id] \in {NoText, panes[k].who}
=============================================================================
