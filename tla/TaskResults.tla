------------------------------ MODULE TaskResults ------------------------------
(***************************************************************************)
(* The task lifecycle of team workers: assignments (`pane run`), reported  *)
(* results (`task done`), their collection (`task result`, `wait           *)
(* task-result`), and the stall watchdog that reads both.                  *)
(*                                                                         *)
(* The k-th result a pane reports is the number k.  Every worker here      *)
(* belongs to a live, marked orchestrator; who belongs to whom is module   *)
(* Teams.                                                                  *)
(***************************************************************************)
EXTENDS Integers, Sequences, FiniteSets

CONSTANTS
  Worker,      (* panes of team workers                                    *)
  Client,      (* CLI processes that may wait for a result                 *)
  NoPane,      (* a client that waits for nothing                          *)
  MaxReports   (* bound: results one worker reports                        *)

ASSUME ReportAssumption ==
  MaxReports \in Nat /\ NoPane \notin Worker /\ IsFiniteSet(Client)

VARIABLES
  live,       (* panes with a runtime (rt.panes)                           *)
  queue,      (* rt.results, a FIFO per pane                               *)
  collected,  (* rt.collected: the watchdog leaves these alone             *)
  nudged,     (* rt.stall_nudged                                           *)
  excused,    (* blocked on a prompt, or driven by the user                *)
  silent,     (* no output for the stall threshold                         *)
  waiting,    (* client -> the pane its parked waiter is on, or NoPane     *)
  gone,       (* clients that hung up while their waiter is parked         *)
  reported,   (* how many results each pane has reported                   *)
  taken,      (* results consumed from each pane's queue, in order         *)
  wasted,     (* results consumed for a client that had hung up            *)
  inFlight    (* panes whose last assignment came after their last report  *)

vars == <<live, queue, collected, nudged, excused, silent, waiting,
          gone, reported, taken, wasted, inFlight>>

Init ==
  /\ live = Worker
  /\ queue = [p \in Worker |-> <<>>]
  /\ collected = {} /\ nudged = {} /\ excused = {} /\ silent = {}
  /\ waiting = [c \in Client |-> NoPane]
  /\ gone = {}
  /\ reported = [p \in Worker |-> 0]
  /\ taken = [p \in Worker |-> <<>>]
  /\ wasted = 0
  /\ inFlight = {}

-----------------------------------------------------------------------------
(* The worker and its pane.                                                *)

(* `pane run` without --notify: a new assignment.  When it is refused is   *)
(* module Injection.                                                       *)
Run(p) ==
  /\ p \in live
  /\ collected' = collected \ {p}
  /\ inFlight' = inFlight \cup {p}
  /\ UNCHANGED <<live, queue, nudged, silent, waiting, gone, reported, taken, wasted, excused>>

(* `task done` from the pane's own agent.                                  *)
TaskDone(p) ==
  /\ p \in live
  /\ reported[p] < MaxReports
  /\ reported' = [reported EXCEPT ![p] = @ + 1]
  /\ queue' = [queue EXCEPT ![p] = Append(@, reported[p] + 1)]
  /\ nudged' = nudged \ {p}
  /\ collected' = collected \ {p}
  /\ inFlight' = inFlight \ {p}
  /\ UNCHANGED <<live, silent, waiting, gone, taken, wasted, excused>>

Output(p) ==
  /\ p \in live
  /\ silent' = silent \ {p}
  /\ UNCHANGED <<live, queue, collected, nudged, waiting, gone, reported, taken, wasted, inFlight, excused>>

FallSilent(p) ==
  /\ p \in live
  /\ silent' = silent \cup {p}
  /\ UNCHANGED <<live, queue, collected, nudged, waiting, gone, reported, taken, wasted, inFlight, excused>>

(* The agent asks for input or gets it; the user starts or stops typing.   *)
ExcuseOrNot(p) ==
  /\ p \in live
  /\ excused' = IF p \in excused THEN excused \ {p} ELSE excused \cup {p}
  /\ UNCHANGED <<live, queue, collected, nudged, silent, waiting, gone, reported, taken, wasted, inFlight>>

(* `team park`: idle on purpose.                                           *)
TeamPark(p) ==
  /\ p \in live
  /\ collected' = collected \cup {p}
  /\ nudged' = nudged \ {p}
  /\ inFlight' = inFlight \ {p}
  /\ UNCHANGED <<live, queue, silent, waiting, gone, reported, taken, wasted, excused>>

(* handle_pane_exit: the results outlive the pane.                         *)
PaneExit(p) ==
  /\ p \in live
  /\ live' = live \ {p}
  /\ collected' = collected \ {p}
  /\ nudged' = nudged \ {p}
  /\ silent' = silent \ {p}
  /\ excused' = excused \ {p}
  /\ inFlight' = inFlight \ {p}
  /\ UNCHANGED <<queue, waiting, gone, reported, taken, wasted>>

-----------------------------------------------------------------------------
(* Collecting.                                                             *)

(* `task result`: the oldest result, of a dead pane too.                   *)
CollectedNever(p, rest) == {}
CollectedWhen(p, rest) == IF rest = <<>> THEN {p} ELSE {}

TaskResult(p) ==
  /\ queue[p] # <<>>
  /\ queue' = [queue EXCEPT ![p] = Tail(@)]
  /\ taken' = [taken EXCEPT ![p] = Append(@, Head(queue[p]))]
  /\ collected' = collected \cup CollectedWhen(p, Tail(queue[p]))
  /\ UNCHANGED <<live, nudged, silent, waiting, gone, reported, wasted, inFlight, excused>>

(* `wait task-result`: a parked result at once, else a waiter on a live    *)
(* pane.                                                                   *)
WaitTaskResult(c, p) ==
  /\ waiting[c] = NoPane
  /\ \/ /\ queue[p] # <<>>
        /\ queue' = [queue EXCEPT ![p] = Tail(@)]
        /\ taken' = [taken EXCEPT ![p] = Append(@, Head(queue[p]))]
        /\ collected' = collected \cup {p}
        /\ UNCHANGED waiting
     \/ /\ queue[p] = <<>> /\ p \in live
        /\ waiting' = [waiting EXCEPT ![c] = p]
        /\ UNCHANGED <<queue, taken, collected>>
  /\ UNCHANGED <<live, nudged, silent, gone, reported, wasted, inFlight, excused>>

(* The CLI dies (Ctrl-C).  spawn_conn awaits the reply and does not look   *)
(* at the socket meanwhile, so the waiter stays.                           *)
HangUp(c) ==
  /\ waiting[c] # NoPane /\ c \notin gone
  /\ gone' = gone \cup {c}
  /\ UNCHANGED <<live, queue, collected, nudged, silent, waiting, reported, taken, wasted, inFlight, excused>>

(* check_waiters.  Each waiter on a pane takes one result while there are  *)
(* any; swap_remove shuffles the waiters, so which of them are served is   *)
(* left open.  Of the others, those on a dead pane and those whose         *)
(* deadline has passed (`late`) get an error.                              *)
Waiters(p) == {c \in Client : waiting[c] = p}
DueBehindOne(p) ==
  IF Cardinality(Waiters(p)) < Len(queue[p]) THEN Cardinality(Waiters(p))
  ELSE IF queue[p] = <<>> THEN 0 ELSE Len(queue[p]) - 1
Due(p) == IF Cardinality(Waiters(p)) < Len(queue[p]) THEN Cardinality(Waiters(p)) ELSE Len(queue[p])
RestKeepsTaken(p) == IF Due(p) = 0 THEN queue[p] ELSE SubSeq(queue[p], Due(p), Len(queue[p]))
Rest(p) == SubSeq(queue[p], Due(p) + 1, Len(queue[p]))
DueResults(p) == SubSeq(queue[p], 1, Due(p))

CheckWaiters(late) ==
  \E served \in SUBSET {c \in Client : waiting[c] # NoPane} :
    LET answered == served \cup late \cup {c \in Client : waiting[c] \notin live}
    IN /\ \A p \in Worker : Cardinality(served \cap Waiters(p)) = Due(p)
       /\ queue' = [p \in Worker |-> Rest(p)]
       /\ taken' = [p \in Worker |-> taken[p] \o DueResults(p)]
       /\ collected' = collected \cup {p \in Worker : Due(p) > 0}
       /\ waiting' = [c \in Client |-> IF c \in answered THEN NoPane ELSE waiting[c]]
       /\ gone' = gone \ answered
       /\ wasted' = wasted + Cardinality(served \cap gone)
       /\ UNCHANGED <<live, nudged, silent, reported, inFlight, excused>>

-----------------------------------------------------------------------------
(* nudge_stalls, for one worker: output re-arms the watch; a silent worker *)
(* is nudged about once unless its result is parked or its task is done.   *)
NudgeUnreported(p) ==
  /\ p \in live
  /\ \/ /\ p \notin silent
        /\ nudged' = nudged \ {p}
     \/ /\ p \in silent \ nudged
        /\ p \notin excused /\ reported[p] = 0 /\ p \notin collected
        /\ nudged' = nudged \cup {p}
  /\ UNCHANGED <<live, queue, collected, silent, waiting, gone, reported, taken, wasted, inFlight, excused>>

NudgeStall(p) ==
  /\ p \in live
  /\ \/ /\ p \notin silent
        /\ nudged' = nudged \ {p}
     \/ /\ p \in silent \ nudged
        /\ p \notin excused /\ queue[p] = <<>> /\ p \notin collected
        /\ nudged' = nudged \cup {p}
  /\ UNCHANGED <<live, queue, collected, silent, waiting, gone, reported, taken, wasted, inFlight, excused>>

(* A live handoff carries results and collected; waiters die with their    *)
(* connections and the waiting CLIs ask again.                             *)
HandoffKeepsHungUp ==
  /\ waiting' = [c \in Client |-> NoPane]
  /\ nudged' = {} /\ silent' = {} /\ excused' = {}
  /\ UNCHANGED <<live, queue, collected, gone, reported, taken, wasted, inFlight>>
Handoff ==
  /\ waiting' = [c \in Client |-> NoPane]
  /\ gone' = {} /\ nudged' = {} /\ silent' = {} /\ excused' = {}
  /\ UNCHANGED <<live, queue, collected, reported, taken, wasted, inFlight>>

Next ==
  \/ \E p \in Worker : Run(p)
  \/ \E p \in Worker : TaskDone(p)
  \/ \E p \in Worker : Output(p)
  \/ \E p \in Worker : FallSilent(p)
  \/ \E p \in Worker : ExcuseOrNot(p)
  \/ \E p \in Worker : TeamPark(p)
  \/ \E p \in Worker : PaneExit(p)
  \/ \E p \in Worker : TaskResult(p)
  \/ \E c \in Client, p \in Worker : WaitTaskResult(c, p)
  \/ \E c \in Client : HangUp(c)
  \/ \E late \in SUBSET Client : CheckWaiters(late)
  \/ \E p \in Worker : NudgeStall(p)
  \/ Handoff

(* The server's poll runs every 500 ms and looks at every waiter and at    *)
(* every team worker.  That a deadline passes is never owed: the fair poll *)
(* is the one that finds nobody late.                                      *)
Spec == Init /\ [][Next]_vars
FairSpec == Spec /\ WF_vars(CheckWaiters({})) /\ \A p \in Worker : WF_vars(NudgeStall(p))

-----------------------------------------------------------------------------
TypeOK ==
  /\ live \in SUBSET Worker
  /\ queue \in [Worker -> Seq(Nat)]
  /\ collected \in SUBSET Worker /\ nudged \in SUBSET Worker
  /\ silent \in SUBSET Worker /\ excused \in SUBSET Worker
  /\ waiting \in [Client -> Worker \cup {NoPane}]
  /\ gone \in SUBSET {c \in Client : waiting[c] # NoPane}
  /\ reported \in [Worker -> Nat]
  /\ taken \in [Worker -> Seq(Nat)]
  /\ wasted \in Nat
  /\ inFlight \in SUBSET Worker

(* Results are a FIFO: `task result`, `wait task-result`, the poll, pane   *)
(* exits and handoffs consume every reported result once and in order.     *)
Fifo == \A p \in Worker : taken[p] \o queue[p] = [k \in 1 .. reported[p] |-> k]

(* A finished task stays quiet: the watchdog nudges about no worker that   *)
(* has reported and was given nothing since.                               *)
DoneIsQuiet ==
  [][\A p \in live : p \in nudged' \ nudged => p \in inFlight \/ reported[p] = 0]_vars

(* A waiter never waits next to a parked result for long.                  *)
WaiterServed ==
  \A c \in Client, p \in Worker :
    (waiting[c] = p /\ queue[p] # <<>>) ~> (waiting[c] # p \/ queue[p] = <<>>)

(* A worker that goes silent for good, with nothing parked or finished, is *)
(* brought to its orchestrator's attention.                                *)
StallNoticed ==
  \A p \in Worker :
    <>[](p \in silent \ (excused \cup collected) /\ queue[p] = <<>>) => <>(p \in nudged)

(* What the comment on `collected` says: the last result has been          *)
(* collected and no new assignment followed.                               *)
CollectedMeansDone == collected \cap inFlight = {}

(* What check_waiters says of a CLI that hung up: its waiter is dropped,   *)
(* so it takes no result from anyone who still wants it.                   *)
NoneWasted == wasted = 0
=============================================================================
