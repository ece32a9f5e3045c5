------------------------------- MODULE Injection -------------------------------
(***************************************************************************)
(* How the server types automated messages (task reports, nudges, team     *)
(* messages, `pane run`) into the input box of an agent pane that a human  *)
(* may be typing in at the same time.                                      *)
(*                                                                         *)
(* Each pane has a mailbox: the agent's input box, the server's queue for  *)
(* it (`inbox`), the in-flight mark, and the two timers every paste        *)
(* starts: a late Enter (SubmitEnter) and, after it, a delivery check      *)
(* (VerifySubmit).  The server loop runs one handler at a time, so each    *)
(* handler is one action.                                                  *)
(***************************************************************************)
EXTENDS Integers, Sequences, FiniteSets

CONSTANTS
  Pane,            (* pane ids                                             *)
  Orchestrators,   (* the panes marked as orchestrators                    *)
  Workers,         (* the panes that are members of a team                 *)
  TeamOf,          (* worker -> its orchestrator (state.teams)             *)
  Text,            (* texts of automated messages                          *)
  Handback, Left,  (* the texts of nudge_handback and of the close notice  *)
  MaxMsgs,         (* bound: messages offered to one pane                  *)
  MaxTimers,       (* bound: timers `pane run` may leave pending in a pane *)
  MaxGrips         (* bound: times the user starts driving a team pane     *)

ASSUME TeamAssumption ==
  /\ Orchestrators \subseteq Pane /\ Workers \subseteq Pane
  /\ TeamOf \in [Workers -> Orchestrators]
  /\ \A w \in Workers : TeamOf[w] # w

ASSUME BoundAssumption == MaxMsgs \in Nat /\ MaxTimers \in Nat /\ MaxGrips \in Nat

VARIABLES
  live,      (* panes with a runtime (rt.panes)                            *)
  attached,  (* is any client attached?                                    *)
  focused,   (* rt.state.focused_pane()                                    *)
  pending,   (* PaneRuntime.user_input_pending                             *)
  grip,      (* rt.user_grip: "none" (no entry), "seen" (false), "typed"   *)
  mb,        (* pane -> mailbox                                            *)
  nGrips     (* how often a grip became "typed" (bounded by MaxGrips)      *)

vars == <<live, attached, focused, pending, grip, mb, nGrips>>

Msg == Text \cup {Handback, Left}

(* `draft` and `msgs` are what sits unsent in the agent's input box: the   *)
(* user's text and the messages pasted there.  A draft is "typed" when     *)
(* user_input_pending reflects it and "unseen" when it does not.           *)
(* `accepted` and `pasted` are histories of `inject`.                      *)
Timer == [msg : Msg, by : {"inject", "run"}]
Mailbox == [draft : {"none", "typed", "unseen"}, msgs : Seq(Msg),
            inbox : Seq(Msg), inflight : BOOLEAN,
            enters : Seq(Timer), verifies : Seq(Timer),
            accepted : Seq(Msg), pasted : Seq(Msg)]

EmptyMailbox == [draft |-> "none", msgs |-> <<>>, inbox |-> <<>>, inflight |-> FALSE,
                 enters |-> <<>>, verifies |-> <<>>, accepted |-> <<>>, pasted |-> <<>>]

(* Membership ends when the worker or its orchestrator exits.              *)
InTeam(p) == p \in Workers /\ p \in live /\ TeamOf[p] \in live

(* user_grip_err: the user is editing this team pane right now.            *)
Driven(p) == InTeam(p) /\ grip[p] = "typed"

-----------------------------------------------------------------------------
(* Operations on one mailbox.  `busy` is the answer of input_busy.         *)

BusyIgnoresDraft(unsent, g) == g = "typed"
Busy(unsent, g) == unsent \/ g = "typed"

InputBusy(p) == Busy(pending[p], grip[p])

(* Enter reaches the agent: everything in the box goes out as one message. *)
Submitted(b) == [b EXCEPT !.draft = "none", !.msgs = <<>>]

(* paste_write + submit_later + the in-flight mark.                        *)
Deliver(b, m) ==
  [b EXCEPT !.msgs = Append(@, m),
            !.enters = Append(@, [msg |-> m, by |-> "inject"]),
            !.inflight = TRUE,
            !.pasted = Append(@, m)]

Accept(b, m) == [b EXCEPT !.accepted = Append(@, m)]
Enqueue(b, m) == [b EXCEPT !.inbox = Append(@, m)]

InjectOvertakes(b, m, busy) ==
  IF b.inflight \/ busy THEN Enqueue(Accept(b, m), m) ELSE Deliver(Accept(b, m), m)
InjectGlues(b, m, busy) ==
  IF busy \/ b.inbox # <<>> THEN Enqueue(Accept(b, m), m) ELSE Deliver(Accept(b, m), m)
Inject(b, m, busy) ==
  IF b.inflight \/ busy \/ b.inbox # <<>>
  THEN Enqueue(Accept(b, m), m)
  ELSE Deliver(Accept(b, m), m)

FlushPairsOnly(b, busy) ==
  IF Len(b.inbox) > 1 /\ ~busy /\ ~b.inflight
  THEN Deliver([b EXCEPT !.inbox = Tail(@)], Head(b.inbox))
  ELSE b
Flush(b, busy) ==
  IF b.inbox # <<>> /\ ~busy /\ ~b.inflight
  THEN Deliver([b EXCEPT !.inbox = Tail(@)], Head(b.inbox))
  ELSE b

(* `pane run` into a worker pastes at once and leaves no in-flight mark.   *)
RunInto(b, m) ==
  [b EXCEPT !.msgs = Append(@, m), !.enters = Append(@, [msg |-> m, by |-> "run"])]

(* SubmitEnter: the Enter submits the box, or is folded into the paste.    *)
(* Either way the delivery check is scheduled.                             *)
EnterFired(b, folded) ==
  [(IF folded THEN b ELSE Submitted(b))
     EXCEPT !.enters = Tail(@), !.verifies = Append(@, Head(b.enters))]

(* VerifySubmit: Enter again while the message is still on the screen's    *)
(* last lines.  It is there when it is in the box; a message already sent  *)
(* may still be echoed there (`echoed`).                                   *)
OnScreen(b, m, echoed) == echoed \/ \E i \in DOMAIN b.msgs : b.msgs[i] = m
VerifyFired(b, echoed) ==
  [(IF OnScreen(b, Head(b.verifies).msg, echoed) THEN Submitted(b) ELSE b)
     EXCEPT !.verifies = Tail(@)]

(* The in-flight window (1600 ms) outlasts the Enter (150 ms) and the      *)
(* check (1200 ms later) of the message that opened it.                    *)
Settling(b) ==
  \/ \E i \in DOMAIN b.enters : b.enters[i].by = "inject"
  \/ \E i \in DOMAIN b.verifies : b.verifies[i].by = "inject"

Init ==
  /\ live = Pane
  /\ attached \in BOOLEAN
  /\ focused \in Pane
  /\ pending = [p \in Pane |-> FALSE]
  /\ grip = [p \in Pane |-> "none"]
  /\ mb = [p \in Pane |-> EmptyMailbox]
  /\ nGrips = 0

-----------------------------------------------------------------------------
(* The user, through the focused pane of an attached client.               *)

(* send_key: a watched team pane becomes gripped, and any key but Enter,   *)
(* Esc and Ctrl-C counts as an unsent message.                             *)
SendKey(unsent, b) ==
  /\ attached
  /\ IF grip[focused] = "seen"
     THEN /\ nGrips < MaxGrips
          /\ nGrips' = nGrips + 1
          /\ grip' = [grip EXCEPT ![focused] = "typed"]
     ELSE UNCHANGED <<nGrips, grip>>
  /\ pending' = [pending EXCEPT ![focused] = unsent]
  /\ mb' = [mb EXCEPT ![focused] = b]
  /\ UNCHANGED <<live, attached, focused>>

Unseen(b) == [b EXCEPT !.draft = IF @ = "none" THEN "none" ELSE "unseen"]

TypeChar == SendKey(TRUE, [mb[focused] EXCEPT !.draft = "typed"])
(* Arrows, Backspace, the release of a character key: no text appears.     *)
OtherKey == SendKey(TRUE, [mb[focused] EXCEPT !.draft = IF @ = "none" THEN "none" ELSE "typed"])
(* Enter submits; Esc and Ctrl-C are taken to abandon the box.             *)
EnterOrAbandon == SendKey(FALSE, Submitted(mb[focused]))
(* Shift+Enter adds a line to the draft; the release of an Enter adds      *)
(* nothing.  Both match (KeyCode::Enter, _).                               *)
ShiftEnter == SendKey(FALSE, [mb[focused] EXCEPT !.draft = "unseen"])
ReleaseEnter == SendKey(FALSE, Unseen(mb[focused]))

(* handle_input, Event::Paste: straight to the PTY, no mark of any kind.   *)
UserPaste ==
  /\ attached
  /\ mb' = [mb EXCEPT ![focused].draft = IF pending[focused] THEN "typed" ELSE "unseen"]
  /\ UNCHANGED <<live, attached, focused, pending, grip, nGrips>>

MoveFocus(p) ==
  /\ p \in live
  /\ focused' = p
  /\ UNCHANGED <<live, attached, pending, grip, mb, nGrips>>

AttachOrDetach ==
  /\ attached' = ~attached
  /\ UNCHANGED <<live, focused, pending, grip, mb, nGrips>>

-----------------------------------------------------------------------------
(* The API and the timers.                                                 *)

(* Every caller of `inject` with a live pane: `pane run` into an           *)
(* orchestrator, `msg`, a wake-up, a reported result, the blocked, stall   *)
(* and limit nudges, a boot brief.                                         *)
Automate(p, m) ==
  /\ p \in live
  /\ Len(mb[p].accepted) < MaxMsgs
  /\ mb' = [mb EXCEPT ![p] = Inject(@, m, InputBusy(p))]
  /\ UNCHANGED <<live, attached, focused, pending, grip, nGrips>>

(* `pane run` into any other pane: refused while the user drives it or has *)
(* a draft in it.                                                          *)
Run(p, m) ==
  /\ p \in live \ Orchestrators
  /\ ~Driven(p) /\ ~pending[p]
  /\ Len(mb[p].enters) + Len(mb[p].verifies) < MaxTimers
  /\ mb' = [mb EXCEPT ![p] = RunInto(@, m)]
  /\ UNCHANGED <<live, attached, focused, pending, grip, nGrips>>

(* `pane send-text`, `pane key` and `agent behavior` write to the PTY      *)
(* past the queue; what matters here is an Enter among their bytes.        *)
RawEnter(p) ==
  /\ p \in live /\ ~Driven(p)
  /\ mb' = [mb EXCEPT ![p] = Submitted(@)]
  /\ UNCHANGED <<live, attached, focused, pending, grip, nGrips>>

SubmitEnter(p) ==
  /\ mb[p].enters # <<>>
  /\ \E folded \in BOOLEAN : mb' = [mb EXCEPT ![p] = EnterFired(@, folded)]
  /\ UNCHANGED <<live, attached, focused, pending, grip, nGrips>>

VerifySubmit(p) ==
  /\ mb[p].verifies # <<>>
  /\ \E echoed \in BOOLEAN : mb' = [mb EXCEPT ![p] = VerifyFired(@, echoed)]
  /\ UNCHANGED <<live, attached, focused, pending, grip, nGrips>>

ExpireInflight(p) ==
  /\ mb[p].inflight /\ ~Settling(mb[p])
  /\ mb' = [mb EXCEPT ![p].inflight = FALSE]
  /\ UNCHANGED <<live, attached, focused, pending, grip, nGrips>>

-----------------------------------------------------------------------------
(* The agent poll: poll_user_grip, nudge_handback, flush_inbox.            *)

(* Grips on panes the user is no longer in: grip_step's `ended`.           *)
EndedOnDetach == {p \in Pane : grip[p] # "none" /\ (~attached \/ ~InTeam(p))}
Ended == {p \in Pane : grip[p] # "none" /\ (~attached \/ p # focused \/ ~InTeam(p))}

(* A typed grip with no key for 5 minutes (`stale`) is handed back but     *)
(* still watched; an ended one is dropped.                                 *)
GripAfterPoll(stale) ==
  [p \in Pane |-> IF p \in Ended THEN "none"
                  ELSE IF p \in stale THEN "seen"
                  ELSE IF attached /\ InTeam(p) /\ p = focused /\ grip[p] = "none" THEN "seen"
                  ELSE grip[p]]

HandbacksOnLeave(stale) == {p \in Ended : grip[p] = "typed" /\ p \in live}
HandbacksOfIdle(stale) == stale
Handbacks(stale) == stale \cup HandbacksOnLeave(stale)

(* At most one pane is gripped at a time (OneGrip), so an orchestrator     *)
(* gets at most one handback in a poll.                                    *)
HandedTo(o, stale) == {w \in Handbacks(stale) : InTeam(w) /\ TeamOf[w] = o}

AgentPoll ==
  \E stale \in SUBSET {p \in Pane : grip[p] = "typed"} :
    /\ grip' = GripAfterPoll(stale)
    /\ mb' = [p \in Pane |->
         LET busy == Busy(pending[p], grip'[p])
             b == IF p \in Orchestrators /\ HandedTo(p, stale) # {}
                  THEN Inject(mb[p], Handback, busy) ELSE mb[p]
         IN Flush(b, busy)]
    /\ UNCHANGED <<live, attached, focused, pending, nGrips>>

(* close_pane moves the focus off a pane that goes (module Workspaces).     *)
FocusKept(p) == {focused}
FocusAfterExit(p) == IF focused = p THEN live \ {p} ELSE {focused}

(* handle_pane_exit, the part that concerns messages: the orchestrator of  *)
(* a worker is told (unless the close was quiet), and everything kept for  *)
(* the pane is dropped.  Bound: some pane stays alive.                     *)
PaneExit(p) ==
  /\ p \in live /\ live # {p}
  /\ live' = live \ {p}
  /\ focused' \in FocusAfterExit(p)
  /\ pending' = [pending EXCEPT ![p] = FALSE]
  /\ grip' = [grip EXCEPT ![p] = "none"]
  /\ \E quiet \in BOOLEAN :
       mb' = [q \in Pane |->
         IF q = p THEN EmptyMailbox
         ELSE IF InTeam(p) /\ q = TeamOf[p] /\ ~quiet THEN Inject(mb[q], Left, InputBusy(q))
         ELSE mb[q]]
  /\ UNCHANGED <<attached, nGrips>>

UserStep ==
  \/ TypeChar
  \/ OtherKey
  \/ EnterOrAbandon
  \/ ShiftEnter
  \/ ReleaseEnter
  \/ UserPaste
  \/ \E p \in Pane : MoveFocus(p)
  \/ AttachOrDetach

Next ==
  \/ UserStep
  \/ \E p \in Pane, m \in Text : Automate(p, m)
  \/ \E p \in Pane, m \in Text : Run(p, m)
  \/ \E p \in Pane : RawEnter(p)
  \/ \E p \in Pane : SubmitEnter(p)
  \/ \E p \in Pane : VerifySubmit(p)
  \/ \E p \in Pane : ExpireInflight(p)
  \/ AgentPoll
  \/ \E p \in Pane : PaneExit(p)

(* The loop polls every 500 ms and its timers fire; nobody has to type,    *)
(* send or exit.                                                           *)
Fairness ==
  /\ WF_vars(AgentPoll)
  /\ \A p \in Pane : WF_vars(SubmitEnter(p)) /\ WF_vars(VerifySubmit(p))
  /\ \A p \in Pane : WF_vars(ExpireInflight(p))

Spec == Init /\ [][Next]_vars
FairSpec == Spec /\ Fairness

-----------------------------------------------------------------------------
TypeOK ==
  /\ live \in SUBSET Pane
  /\ attached \in BOOLEAN
  /\ focused \in live
  /\ pending \in [Pane -> BOOLEAN]
  /\ grip \in [Pane -> {"none", "seen", "typed"}]
  /\ mb \in [Pane -> Mailbox]
  /\ nGrips \in Nat

(* Queued messages are delivered in the order they were accepted, none     *)
(* twice and none lost, for as long as the pane and this server live.      *)
Ordered(b) == b.accepted = b.pasted \o b.inbox
InOrder == \A p \in Pane : Ordered(mb[p])

(* Consecutive nudges never glue into one unsent input: an orchestrator's  *)
(* box holds at most one message, and then the in-flight mark is up.       *)
NoGlue == \A o \in Orchestrators :
            Len(mb[o].msgs) <= 1 /\ (mb[o].msgs # <<>> => mb[o].inflight)

(* Why NoGlue holds: one paste at a time, with its Enter or its check      *)
(* still to come, all under the in-flight mark.                            *)
OneShot(b) ==
  \/ b.msgs = <<>> /\ b.enters = <<>> /\ b.verifies = <<>>
  \/ /\ b.inflight
     /\ \E m \in Msg :
          LET t == [msg |-> m, by |-> "inject"]
          IN /\ b.msgs \in {<<>>, <<m>>}
             /\ \/ b.enters = <<t>> /\ b.verifies = <<>>
                \/ b.enters = <<>> /\ b.verifies = <<t>>
OnePasteAtATime == \A o \in Orchestrators : OneShot(mb[o])

(* Only one pane can be gripped, so one poll hands back at most one pane.  *)
OneGrip == \A p, q \in Pane : grip[p] # "none" /\ grip[q] # "none" => p = q

(* A draft is only "typed" while user_input_pending says so, whichever     *)
(* key, paste or Enter came last.                                          *)
DraftTracked == \A p \in Pane : mb[p].draft = "typed" => pending[p]

(* No message of the queue or of `pane run` is pasted into a pane whose    *)
(* box holds a draft that user_input_pending reflects.                     *)
NoPasteOverTypedDraft ==
  [][\A p \in Pane : Len(mb'[p].msgs) > Len(mb[p].msgs) => mb[p].draft # "typed"]_vars

(* An orchestrator is told when the user stops driving one of its workers: *)
(* no grip that was typed into ends silently.                              *)
HandbackTold ==
  [][\A w \in Workers :
       grip[w] = "typed" /\ grip'[w] # "typed" /\ w \in live' /\ TeamOf[w] \in live'
         => Len(mb'[TeamOf[w]].accepted) > Len(mb[TeamOf[w]].accepted)]_vars

(* Once the user leaves a pane's input box alone, its queue drains.        *)
QueueDrains ==
  \A p \in Pane : <>[](p \in live /\ ~InputBusy(p)) => []<>(mb[p].inbox = <<>>)

(* What the comment on `inbox` promises: a queued or injected message is   *)
(* never spliced into the user's draft.                                    *)
NeverSpliced ==
  [][\A p \in Pane : Len(mb'[p].msgs) > Len(mb[p].msgs) => mb[p].draft = "none"]_vars
=============================================================================
