---------------------------- MODULE InjectionProofs ----------------------------
(***************************************************************************)
(* What module Injection claims of every number of panes, messages and     *)
(* timers.  The operations on one mailbox come first; the system's steps   *)
(* only combine them.                                                      *)
(***************************************************************************)
EXTENDS Injection, SequenceTheorems, TLAPS

(* Moving the head of t behind s leaves the concatenation alone.           *)
LEMMA Slide ==
  ASSUME NEW S, NEW s \in Seq(S), NEW t \in Seq(S), t # <<>>
  PROVE  s \o t = Append(s, Head(t)) \o Tail(t)
<1>1. Head(t) \in S /\ Tail(t) \in Seq(S) /\ Len(Tail(t)) = Len(t) - 1
      /\ (\A i \in 1 .. Len(Tail(t)) : Tail(t)[i] = t[i+1])
  BY HeadTailProperties
<1>2. Append(s, Head(t)) \in Seq(S) /\ Len(Append(s, Head(t))) = Len(s) + 1
  BY <1>1, AppendProperties
<1>3. /\ s \o t \in Seq(S) /\ Len(s \o t) = Len(s) + Len(t)
      /\ \A i \in 1 .. Len(s) + Len(t) : (s \o t)[i] = IF i <= Len(s) THEN s[i] ELSE t[i - Len(s)]
  BY ConcatProperties
<1> DEFINE u == Append(s, Head(t)) \o Tail(t)
<1>4. /\ u \in Seq(S) /\ Len(u) = Len(Append(s, Head(t))) + Len(Tail(t))
      /\ \A i \in 1 .. Len(Append(s, Head(t))) + Len(Tail(t)) :
           u[i] = IF i <= Len(Append(s, Head(t))) THEN Append(s, Head(t))[i]
                  ELSE Tail(t)[i - Len(Append(s, Head(t)))]
  BY <1>1, <1>2, ConcatProperties
<1>5. Len(s) \in Nat /\ Len(t) \in Nat
  OBVIOUS
<1>6. Len(u) = Len(s \o t)
  BY <1>1, <1>2, <1>3, <1>4, <1>5
<1>7. ASSUME NEW i \in 1 .. Len(s \o t) PROVE (s \o t)[i] = u[i]
  <2>1. CASE i <= Len(s)
    <3>1. Append(s, Head(t))[i] = s[i]
      BY <1>1, <2>1, AppendProperties, <1>5
    <3> QED BY <3>1, <2>1, <1>1, <1>2, <1>3, <1>4, <1>5
  <2>2. CASE i = Len(s) + 1
    <3>1. Append(s, Head(t))[i] = Head(t)
      BY <1>1, <2>2, AppendProperties
    <3>2. Head(t) = t[1]
      OBVIOUS
    <3> QED BY <3>1, <3>2, <2>2, <1>1, <1>2, <1>3, <1>4, <1>5
  <2>3. CASE i > Len(s) + 1
    <3>1. Tail(t)[i - (Len(s) + 1)] = t[i - Len(s)]
      BY <1>1, <2>3, <1>3, <1>5
    <3> QED BY <3>1, <2>3, <1>1, <1>2, <1>3, <1>4, <1>5
  <2> QED BY <2>1, <2>2, <2>3, <1>3, <1>5
<1> QED BY <1>3, <1>4, <1>6, <1>7, SeqEqual

(* Accepting a message at the back of the queue extends what is ordered.   *)
LEMMA AppendToBack ==
  ASSUME NEW m \in Msg, NEW s \in Seq(Msg), NEW t \in Seq(Msg)
  PROVE  Append(s \o t, m) = s \o Append(t, m)
OBVIOUS

-----------------------------------------------------------------------------
(* One mailbox.                                                            *)

LEMMA DeliverProperties ==
  ASSUME NEW b \in Mailbox, NEW m \in Msg
  PROVE  Deliver(b, m) \in Mailbox
BY AppendProperties DEF Deliver, Mailbox, Timer

LEMMA EnqueueProperties ==
  ASSUME NEW b \in Mailbox, NEW m \in Msg, Ordered(b)
  PROVE  /\ Enqueue(Accept(b, m), m) \in Mailbox
         /\ Ordered(Enqueue(Accept(b, m), m))
<1>1. b.pasted \in Seq(Msg) /\ b.inbox \in Seq(Msg) /\ b.accepted \in Seq(Msg)
  BY DEF Mailbox
<1>2. Append(b.pasted \o b.inbox, m) = b.pasted \o Append(b.inbox, m)
  BY <1>1, AppendToBack, Zenon
<1>3. Append(b.inbox, m) \in Seq(Msg) /\ Append(b.accepted, m) \in Seq(Msg)
  BY <1>1, AppendProperties
<1> DEFINE c == Enqueue(Accept(b, m), m)
<1>4. c = [b EXCEPT !.accepted = Append(b.accepted, m), !.inbox = Append(b.inbox, m)]
  BY DEF Enqueue, Accept, Mailbox
<1>5. c \in Mailbox
  BY <1>3, <1>4 DEF Mailbox
<1>6. c.accepted = Append(b.accepted, m) /\ c.pasted = b.pasted /\ c.inbox = Append(b.inbox, m)
  BY <1>4 DEF Mailbox
<1> QED BY <1>2, <1>5, <1>6 DEF Ordered

LEMMA DeliverNewProperties ==
  ASSUME NEW b \in Mailbox, NEW m \in Msg, Ordered(b), b.inbox = <<>>
  PROVE  /\ Deliver(Accept(b, m), m) \in Mailbox
         /\ Ordered(Deliver(Accept(b, m), m))
<1>1. b.pasted \in Seq(Msg) /\ b.accepted \in Seq(Msg) /\ Append(b.pasted, m) \in Seq(Msg)
  BY AppendProperties DEF Mailbox
<1>2. b.accepted = b.pasted
  BY <1>1, ConcatEmptySeq DEF Ordered
<1>3. Append(b.pasted, m) \o <<>> = Append(b.pasted, m)
  BY <1>1, ConcatEmptySeq
<1>4. Accept(b, m) \in Mailbox
  BY AppendProperties DEF Accept, Mailbox
<1> DEFINE c == Deliver(Accept(b, m), m)
<1>5. c.accepted = Append(b.accepted, m) /\ c.pasted = Append(b.pasted, m) /\ c.inbox = b.inbox
  BY DEF Deliver, Accept, Mailbox
<1> QED BY <1>2, <1>3, <1>4, <1>5, DeliverProperties DEF Ordered

(* inject keeps a mailbox well-formed and in order.                        *)
LEMMA InjectProperties ==
  ASSUME NEW b \in Mailbox, NEW m \in Msg, NEW busy \in BOOLEAN, Ordered(b)
  PROVE  Inject(b, m, busy) \in Mailbox /\ Ordered(Inject(b, m, busy))
BY EnqueueProperties, DeliverNewProperties DEF Inject

(* flush_inbox keeps a mailbox well-formed and in order.                   *)
LEMMA FlushProperties ==
  ASSUME NEW b \in Mailbox, NEW busy \in BOOLEAN, Ordered(b)
  PROVE  Flush(b, busy) \in Mailbox /\ Ordered(Flush(b, busy))
<1>1. CASE b.inbox # <<>> /\ ~busy /\ ~b.inflight
  <2> DEFINE c == [b EXCEPT !.inbox = Tail(@)]
  <2>1. Head(b.inbox) \in Msg /\ Tail(b.inbox) \in Seq(Msg)
    BY <1>1, HeadTailProperties DEF Mailbox
  <2>2. c \in Mailbox
    BY <2>1 DEF Mailbox
  <2>3. b.pasted \o b.inbox = Append(b.pasted, Head(b.inbox)) \o Tail(b.inbox)
    BY <1>1, Slide DEF Mailbox
  <2>4. Deliver(c, Head(b.inbox)) \in Mailbox
    BY <2>1, <2>2, DeliverProperties
  <2>5. Ordered(Deliver(c, Head(b.inbox)))
    BY <2>1, <2>2, <2>3 DEF Deliver, Ordered, Mailbox
  <2> QED BY <1>1, <2>4, <2>5 DEF Flush
<1>2. CASE ~(b.inbox # <<>> /\ ~busy /\ ~b.inflight)
  BY <1>2 DEF Flush
<1> QED BY <1>1, <1>2

LEMMA RunIntoProperties ==
  ASSUME NEW b \in Mailbox, NEW m \in Msg, Ordered(b)
  PROVE  RunInto(b, m) \in Mailbox /\ Ordered(RunInto(b, m))
BY AppendProperties DEF RunInto, Mailbox, Timer, Ordered

LEMMA SubmittedProperties ==
  ASSUME NEW b \in Mailbox, Ordered(b)
  PROVE  Submitted(b) \in Mailbox /\ Ordered(Submitted(b))
<1>1. <<>> \in Seq(Msg)
  OBVIOUS
<1>2. Submitted(b) \in Mailbox
  BY <1>1 DEF Submitted, Mailbox
<1>3. /\ Submitted(b).accepted = b.accepted /\ Submitted(b).pasted = b.pasted
      /\ Submitted(b).inbox = b.inbox
  BY DEF Submitted, Mailbox
<1> QED BY <1>2, <1>3 DEF Ordered

LEMMA EnterFiredProperties ==
  ASSUME NEW b \in Mailbox, NEW folded \in BOOLEAN, b.enters # <<>>, Ordered(b)
  PROVE  EnterFired(b, folded) \in Mailbox /\ Ordered(EnterFired(b, folded))
<1>1. Head(b.enters) \in Timer /\ Tail(b.enters) \in Seq(Timer)
  BY HeadTailProperties DEF Mailbox
<1>2. Append(b.verifies, Head(b.enters)) \in Seq(Timer)
  BY <1>1, AppendProperties DEF Mailbox
<1> DEFINE c == IF folded THEN b ELSE Submitted(b)
<1>3. c \in Mailbox /\ Ordered(c)
  BY SubmittedProperties
<1>4. EnterFired(b, folded)
        = [c EXCEPT !.enters = Tail(@), !.verifies = Append(@, Head(b.enters))]
  BY DEF EnterFired
<1>5. c.enters = b.enters /\ c.verifies = b.verifies
  BY DEF Submitted, Mailbox
<1>6. EnterFired(b, folded)
        = [c EXCEPT !.enters = Tail(b.enters), !.verifies = Append(b.verifies, Head(b.enters))]
  BY <1>4, <1>5
<1> HIDE DEF c
<1> DEFINE d == EnterFired(b, folded)
<1>7. d \in Mailbox
  BY <1>1, <1>2, <1>3, <1>6 DEF Mailbox
<1>8. d.accepted = c.accepted /\ d.pasted = c.pasted /\ d.inbox = c.inbox
  BY <1>3, <1>6 DEF Mailbox
<1> QED BY <1>3, <1>7, <1>8 DEF Ordered

LEMMA VerifyFiredProperties ==
  ASSUME NEW b \in Mailbox, NEW echoed \in BOOLEAN, b.verifies # <<>>, Ordered(b)
  PROVE  VerifyFired(b, echoed) \in Mailbox /\ Ordered(VerifyFired(b, echoed))
<1>1. Tail(b.verifies) \in Seq(Timer)
  BY HeadTailProperties DEF Mailbox
<1> QED BY <1>1, SubmittedProperties DEF VerifyFired, Submitted, Mailbox, Ordered

(* The same operations, for the box of an orchestrator.                    *)
LEMMA InjectOneShot ==
  ASSUME NEW b \in Mailbox, NEW m \in Msg, NEW busy \in BOOLEAN, OneShot(b)
  PROVE  OneShot(Inject(b, m, busy))
<1>1. CASE b.inflight \/ busy \/ b.inbox # <<>>
  <2>1. LET c == Inject(b, m, busy)
        IN  c.msgs = b.msgs /\ c.enters = b.enters /\ c.verifies = b.verifies /\ c.inflight = b.inflight
    BY <1>1 DEF Inject, Enqueue, Accept, Mailbox
  <2> QED BY <2>1 DEF OneShot
<1>2. CASE ~(b.inflight \/ busy \/ b.inbox # <<>>)
  <2> DEFINE t == [msg |-> m, by |-> "inject"]
             c == Inject(b, m, busy)
  <2>1. b.msgs = <<>> /\ b.enters = <<>> /\ b.verifies = <<>>
    BY <1>2 DEF OneShot
  <2>2. c.msgs = Append(b.msgs, m) /\ c.enters = Append(b.enters, t)
        /\ c.verifies = b.verifies /\ c.inflight = TRUE
    BY <1>2 DEF Inject, Deliver, Accept, Mailbox
  <2>3. Append(<<>>, m) = <<m>> /\ Append(<<>>, t) = <<t>>
    OBVIOUS
  <2> QED BY <2>1, <2>2, <2>3 DEF OneShot
<1> QED BY <1>1, <1>2

LEMMA FlushOneShot ==
  ASSUME NEW b \in Mailbox, NEW busy \in BOOLEAN, OneShot(b)
  PROVE  OneShot(Flush(b, busy))
<1>1. CASE b.inbox # <<>> /\ ~busy /\ ~b.inflight
  <2> DEFINE m == Head(b.inbox)
             t == [msg |-> m, by |-> "inject"]
             c == Flush(b, busy)
  <2>1. m \in Msg
    BY <1>1, HeadTailProperties DEF Mailbox
  <2>2. b.msgs = <<>> /\ b.enters = <<>> /\ b.verifies = <<>>
    BY <1>1 DEF OneShot
  <2>3. c.msgs = Append(b.msgs, m) /\ c.enters = Append(b.enters, t)
        /\ c.verifies = b.verifies /\ c.inflight = TRUE
    BY <1>1 DEF Flush, Deliver, Mailbox
  <2> HIDE DEF m
  <2>4. Append(<<>>, m) = <<m>> /\ Append(<<>>, t) = <<t>>
    OBVIOUS
  <2> QED BY <2>1, <2>2, <2>3, <2>4 DEF OneShot
<1>2. CASE ~(b.inbox # <<>> /\ ~busy /\ ~b.inflight)
  BY <1>2 DEF Flush
<1> QED BY <1>1, <1>2

LEMMA SubmittedOneShot ==
  ASSUME NEW b \in Mailbox, OneShot(b)
  PROVE  OneShot(Submitted(b))
<1>1. LET c == Submitted(b)
      IN  c.msgs = <<>> /\ c.enters = b.enters /\ c.verifies = b.verifies /\ c.inflight = b.inflight
  BY DEF Submitted, Mailbox
<1> QED BY <1>1 DEF OneShot

LEMMA EnterFiredOneShot ==
  ASSUME NEW b \in Mailbox, NEW folded \in BOOLEAN, b.enters # <<>>, OneShot(b)
  PROVE  OneShot(EnterFired(b, folded))
<1>1. PICK m \in Msg :
        LET t == [msg |-> m, by |-> "inject"]
        IN  b.inflight /\ b.msgs \in {<<>>, <<m>>} /\ b.enters = <<t>> /\ b.verifies = <<>>
  BY DEF OneShot
<1> DEFINE t == [msg |-> m, by |-> "inject"]
           c == EnterFired(b, folded)
<1>2. /\ c.msgs \in {b.msgs, <<>>} /\ c.inflight = b.inflight
      /\ c.enters = Tail(b.enters) /\ c.verifies = Append(b.verifies, Head(b.enters))
  BY DEF EnterFired, Submitted, Mailbox
<1>3. Tail(<<t>>) = <<>> /\ Append(<<>>, Head(<<t>>)) = <<t>>
  OBVIOUS
<1>4. c.enters = <<>> /\ c.verifies = <<t>>
  BY <1>1, <1>2, <1>3
<1> QED BY <1>1, <1>2, <1>4 DEF OneShot

(* The check submits what the Enter left in the box: the message it looks  *)
(* for is the one that is there.                                           *)
LEMMA VerifyFiredOneShot ==
  ASSUME NEW b \in Mailbox, NEW echoed \in BOOLEAN, b.verifies # <<>>, OneShot(b)
  PROVE  OneShot(VerifyFired(b, echoed))
<1>1. PICK m \in Msg :
        LET t == [msg |-> m, by |-> "inject"]
        IN  b.inflight /\ b.msgs \in {<<>>, <<m>>} /\ b.enters = <<>> /\ b.verifies = <<t>>
  BY DEF OneShot
<1> DEFINE t == [msg |-> m, by |-> "inject"]
           c == VerifyFired(b, echoed)
<1>2. Tail(<<t>>) = <<>> /\ Head(<<t>>).msg = m
  OBVIOUS
<1>3. c.enters = b.enters /\ c.verifies = Tail(b.verifies)
  BY DEF VerifyFired, Submitted, Mailbox
<1>4. c.msgs = <<>>
  <2>1. CASE b.msgs = <<>>
    BY <2>1 DEF VerifyFired, Submitted, Mailbox
  <2>2. CASE b.msgs = <<m>>
    <3>1. 1 \in DOMAIN b.msgs /\ b.msgs[1] = m
      BY <2>2
    <3>2. OnScreen(b, Head(b.verifies).msg, echoed)
      BY <3>1, <1>1, <1>2 DEF OnScreen
    <3> QED BY <3>2 DEF VerifyFired, Submitted, Mailbox
  <2> QED BY <1>1, <2>1, <2>2
<1> QED BY <1>1, <1>2, <1>3, <1>4 DEF OneShot

-----------------------------------------------------------------------------
(* The system.                                                             *)

(* What every step keeps true of the mailbox of pane p.                    *)
Good(p, b) == b \in Mailbox /\ Ordered(b) /\ (p \in Orchestrators => OneShot(b))

IInv == TypeOK /\ \A p \in Pane : Good(p, mb[p])

LEMMA IInvMeaning == IInv <=> TypeOK /\ InOrder /\ OnePasteAtATime
BY TeamAssumption DEF IInv, Good, TypeOK, InOrder, OnePasteAtATime

LEMMA InjectGood ==
  ASSUME NEW p \in Pane, NEW b, NEW m \in Msg, NEW busy \in BOOLEAN, Good(p, b)
  PROVE  Good(p, Inject(b, m, busy))
BY InjectProperties, InjectOneShot DEF Good

LEMMA FlushGood ==
  ASSUME NEW p \in Pane, NEW b, NEW busy \in BOOLEAN, Good(p, b)
  PROVE  Good(p, Flush(b, busy))
BY FlushProperties, FlushOneShot DEF Good

LEMMA SubmittedGood ==
  ASSUME NEW p \in Pane, NEW b, Good(p, b)
  PROVE  Good(p, Submitted(b))
BY SubmittedProperties, SubmittedOneShot DEF Good

LEMMA EmptyGood ==
  ASSUME NEW p \in Pane
  PROVE  Good(p, EmptyMailbox)
<1>1. EmptyMailbox \in Mailbox
  BY DEF EmptyMailbox, Mailbox
<1>2. Ordered(EmptyMailbox)
  BY DEF EmptyMailbox, Ordered
<1>3. OneShot(EmptyMailbox)
  BY DEF EmptyMailbox, OneShot
<1> QED BY <1>1, <1>2, <1>3 DEF Good

(* Only the draft changes.                                                 *)
LEMMA DraftGood ==
  ASSUME NEW p \in Pane, NEW b, NEW d \in {"none", "typed", "unseen"}, Good(p, b)
  PROVE  Good(p, [b EXCEPT !.draft = d])
<1> DEFINE c == [b EXCEPT !.draft = d]
<1>1. b \in Mailbox /\ Ordered(b)
  BY DEF Good
<1>2. c \in Mailbox
  BY <1>1 DEF Mailbox
<1>3. /\ c.accepted = b.accepted /\ c.pasted = b.pasted /\ c.inbox = b.inbox
      /\ c.msgs = b.msgs /\ c.enters = b.enters /\ c.verifies = b.verifies
      /\ c.inflight = b.inflight
  BY <1>1 DEF Mailbox
<1>4. Ordered(c)
  BY <1>1, <1>3 DEF Ordered
<1>5. OneShot(b) => OneShot(c)
  BY <1>3 DEF OneShot
<1> QED BY <1>2, <1>4, <1>5 DEF Good

(* A step that replaces one mailbox by a good one and leaves the rest of   *)
(* the invariant alone.                                                    *)
LEMMA OneBoxStep ==
  ASSUME NEW p \in Pane, NEW c, Good(p, c), \A q \in Pane : Good(q, mb[q]),
         mb \in [Pane -> Mailbox], mb' = [mb EXCEPT ![p] = c]
  PROVE  mb' \in [Pane -> Mailbox] /\ \A q \in Pane : Good(q, mb'[q])
BY DEF Good

LEMMA InitIInv == Init => IInv
<1> SUFFICES ASSUME Init PROVE IInv
  OBVIOUS
<1>1. mb \in [Pane -> Mailbox] /\ \A p \in Pane : Good(p, mb[p])
  <2>1. \A p \in Pane : EmptyMailbox \in Mailbox /\ Good(p, EmptyMailbox)
    BY EmptyGood DEF Good
  <2> QED BY <2>1 DEF Init
<1>2. TypeOK
  BY <1>1 DEF Init, TypeOK
<1> QED BY <1>1, <1>2 DEF IInv

(* Every key the user can press.                                           *)
LEMMA SendKeyStep ==
  ASSUME IInv, NEW unsent \in BOOLEAN, NEW b, Good(focused, b), SendKey(unsent, b)
  PROVE  IInv'
<1>1. focused \in Pane /\ mb \in [Pane -> Mailbox] /\ \A q \in Pane : Good(q, mb[q])
  BY DEF IInv, TypeOK
<1>2. mb' = [mb EXCEPT ![focused] = b]
  BY DEF SendKey
<1>3. mb' \in [Pane -> Mailbox] /\ \A q \in Pane : Good(q, mb'[q])
  BY <1>1, <1>2, OneBoxStep
<1>4. grip' \in [Pane -> {"none", "seen", "typed"}] /\ nGrips' \in Nat
  BY <1>1 DEF SendKey, IInv, TypeOK
<1>5. pending' \in [Pane -> BOOLEAN] /\ UNCHANGED <<live, attached, focused>>
  BY <1>1 DEF SendKey, IInv, TypeOK
<1> QED BY <1>3, <1>4, <1>5 DEF IInv, TypeOK, Good

LEMMA UserStepIInv ==
  ASSUME IInv, UserStep
  PROVE  IInv'
<1> DEFINE b == mb[focused]
<1>1. focused \in Pane /\ Good(focused, b) /\ b \in Mailbox
      /\ pending \in [Pane -> BOOLEAN] /\ mb \in [Pane -> Mailbox]
  BY DEF IInv, TypeOK
<1>2. b.draft \in {"none", "typed", "unseen"}
  BY <1>1 DEF Mailbox
<1>3. CASE TypeChar
  BY <1>1, <1>3, DraftGood, SendKeyStep DEF TypeChar
<1>4. CASE OtherKey
  <2> DEFINE d == IF b.draft = "none" THEN "none" ELSE "typed"
  <2>1. SendKey(TRUE, [b EXCEPT !.draft = d])
    BY <1>4 DEF OtherKey
  <2> QED BY <1>1, <2>1, DraftGood, SendKeyStep
<1>5. CASE EnterOrAbandon
  BY <1>1, <1>5, SubmittedGood, SendKeyStep DEF EnterOrAbandon
<1>6. CASE ShiftEnter
  BY <1>1, <1>6, DraftGood, SendKeyStep DEF ShiftEnter
<1>7. CASE ReleaseEnter
  <2> DEFINE d == IF b.draft = "none" THEN "none" ELSE "unseen"
  <2>1. SendKey(FALSE, [b EXCEPT !.draft = d])
    BY <1>7 DEF ReleaseEnter, Unseen
  <2> QED BY <1>1, <2>1, DraftGood, SendKeyStep
<1>8. CASE UserPaste
  <2> DEFINE d == IF pending[focused] THEN "typed" ELSE "unseen"
             c == [b EXCEPT !.draft = d]
  <2>1. mb' = [mb EXCEPT ![focused] = c]
    BY <1>8, <1>1 DEF UserPaste
  <2>2. Good(focused, c)
    BY <1>1, DraftGood
  <2>3. mb' \in [Pane -> Mailbox] /\ \A q \in Pane : Good(q, mb'[q])
    BY <1>1, <2>1, <2>2, OneBoxStep DEF IInv
  <2> QED BY <1>8, <2>3 DEF UserPaste, IInv, TypeOK, Good
<1>9. CASE \E p \in Pane : MoveFocus(p)
  BY <1>9 DEF MoveFocus, IInv, TypeOK, Good
<1>10. CASE AttachOrDetach
  BY <1>10 DEF AttachOrDetach, IInv, TypeOK, Good
<1> QED BY <1>3, <1>4, <1>5, <1>6, <1>7, <1>8, <1>9, <1>10 DEF UserStep

LEMMA AutomateIInv ==
  ASSUME IInv, NEW p \in Pane, NEW m \in Text, Automate(p, m)
  PROVE  IInv'
<1>1. m \in Msg
  BY DEF Msg
<1>2. InputBusy(p) \in BOOLEAN
  BY DEF InputBusy, Busy, IInv, TypeOK
<1>3. Good(p, Inject(mb[p], m, InputBusy(p)))
  BY <1>1, <1>2, InjectGood DEF IInv
<1>4. mb' \in [Pane -> Mailbox] /\ \A q \in Pane : Good(q, mb'[q])
  BY <1>3, OneBoxStep DEF Automate, IInv, TypeOK
<1> QED BY <1>4 DEF Automate, IInv, TypeOK, Good

LEMMA RunIInv ==
  ASSUME IInv, NEW p \in Pane, NEW m \in Text, Run(p, m)
  PROVE  IInv'
<1>1. m \in Msg /\ p \notin Orchestrators
  BY DEF Msg, Run
<1>2. Good(p, RunInto(mb[p], m))
  BY <1>1, RunIntoProperties DEF IInv, Good
<1>3. mb' \in [Pane -> Mailbox] /\ \A q \in Pane : Good(q, mb'[q])
  BY <1>2, OneBoxStep DEF Run, IInv, TypeOK
<1> QED BY <1>3 DEF Run, IInv, TypeOK, Good

LEMMA TimersIInv ==
  ASSUME IInv, NEW p \in Pane,
         RawEnter(p) \/ SubmitEnter(p) \/ VerifySubmit(p) \/ ExpireInflight(p)
  PROVE  IInv'
<1> DEFINE b == mb[p]
<1>1. Good(p, b) /\ b \in Mailbox /\ mb \in [Pane -> Mailbox]
  BY DEF IInv, TypeOK
<1>2. PICK c : Good(p, c) /\ mb' = [mb EXCEPT ![p] = c]
  <2>1. CASE RawEnter(p)
    BY <1>1, <2>1, SubmittedGood DEF RawEnter
  <2>2. CASE SubmitEnter(p)
    <3>1. PICK folded \in BOOLEAN : b.enters # <<>> /\ mb' = [mb EXCEPT ![p] = EnterFired(b, folded)]
      BY <2>2 DEF SubmitEnter
    <3> QED BY <1>1, <3>1, EnterFiredProperties, EnterFiredOneShot DEF Good
  <2>3. CASE VerifySubmit(p)
    <3>1. PICK echoed \in BOOLEAN : b.verifies # <<>> /\ mb' = [mb EXCEPT ![p] = VerifyFired(b, echoed)]
      BY <2>3 DEF VerifySubmit
    <3> QED BY <1>1, <3>1, VerifyFiredProperties, VerifyFiredOneShot DEF Good
  <2>4. CASE ExpireInflight(p)
    <3> DEFINE c == [b EXCEPT !.inflight = FALSE]
    <3>1. mb' = [mb EXCEPT ![p] = c] /\ ~Settling(b)
      BY <2>4, <1>1 DEF ExpireInflight
    <3>2. c \in Mailbox /\ c.accepted = b.accepted /\ c.pasted = b.pasted /\ c.inbox = b.inbox
          /\ c.msgs = b.msgs /\ c.enters = b.enters /\ c.verifies = b.verifies
      BY <1>1 DEF Mailbox
    <3>3. OneShot(b) => b.msgs = <<>> /\ b.enters = <<>> /\ b.verifies = <<>>
      <4>1. ASSUME NEW m \in Msg,
                   \/ b.enters = <<[msg |-> m, by |-> "inject"]>>
                   \/ b.verifies = <<[msg |-> m, by |-> "inject"]>>
            PROVE  FALSE
        BY <4>1, <3>1 DEF Settling
      <4> QED BY <4>1 DEF OneShot
    <3>4. Ordered(c) /\ (OneShot(b) => OneShot(c))
      BY <1>1, <3>2, <3>3 DEF Ordered, OneShot, Good
    <3> QED BY <1>1, <3>1, <3>2, <3>4 DEF Good
  <2> QED BY <2>1, <2>2, <2>3, <2>4
<1>3. mb' \in [Pane -> Mailbox] /\ \A q \in Pane : Good(q, mb'[q])
  BY <1>1, <1>2, OneBoxStep DEF IInv
<1>4. UNCHANGED <<live, attached, focused, pending, grip, nGrips>>
  BY DEF RawEnter, SubmitEnter, VerifySubmit, ExpireInflight
<1> QED BY <1>3, <1>4 DEF IInv, TypeOK, Good

LEMMA AgentPollIInv ==
  ASSUME IInv, AgentPoll
  PROVE  IInv'
<1>1. PICK stale \in SUBSET {p \in Pane : grip[p] = "typed"} :
        /\ grip' = GripAfterPoll(stale)
        /\ mb' = [p \in Pane |->
             LET busy == Busy(pending[p], grip'[p])
                 b == IF p \in Orchestrators /\ HandedTo(p, stale) # {}
                      THEN Inject(mb[p], Handback, busy) ELSE mb[p]
             IN Flush(b, busy)]
  BY DEF AgentPoll
<1>2. grip' \in [Pane -> {"none", "seen", "typed"}]
  BY <1>1 DEF GripAfterPoll, IInv, TypeOK
<1>3. ASSUME NEW p \in Pane PROVE Good(p, mb'[p])
  <2> DEFINE busy == Busy(pending[p], grip'[p])
             b == IF p \in Orchestrators /\ HandedTo(p, stale) # {}
                  THEN Inject(mb[p], Handback, busy) ELSE mb[p]
  <2>1. mb'[p] = Flush(b, busy)
    BY <1>1
  <2>2. busy \in BOOLEAN /\ Handback \in Msg
    BY DEF Busy, IInv, TypeOK, Msg
  <2>3. Good(p, b)
    BY <2>2, InjectGood DEF IInv
  <2> HIDE DEF b, busy
  <2> QED BY <2>1, <2>2, <2>3, FlushGood
<1>4. mb' \in [Pane -> Mailbox]
  <2>1. DOMAIN mb' = Pane /\ mb' = [p \in Pane |-> mb'[p]]
    BY <1>1
  <2> QED BY <1>3, <2>1 DEF Good
<1>5. UNCHANGED <<live, attached, focused, pending, nGrips>>
  BY DEF AgentPoll
<1> QED BY <1>2, <1>3, <1>4, <1>5 DEF IInv, TypeOK, Good

LEMMA PaneExitIInv ==
  ASSUME IInv, NEW p \in Pane, PaneExit(p)
  PROVE  IInv'
<1>1. PICK quiet \in BOOLEAN :
        mb' = [q \in Pane |->
          IF q = p THEN EmptyMailbox
          ELSE IF InTeam(p) /\ q = TeamOf[p] /\ ~quiet THEN Inject(mb[q], Left, InputBusy(q))
          ELSE mb[q]]
  BY DEF PaneExit
<1>2. ASSUME NEW q \in Pane PROVE Good(q, mb'[q])
  <2>1. InputBusy(q) \in BOOLEAN /\ Left \in Msg /\ Good(q, mb[q])
    BY DEF InputBusy, Busy, IInv, TypeOK, Msg
  <2>2. Good(q, Inject(mb[q], Left, InputBusy(q))) /\ Good(q, EmptyMailbox)
    BY <2>1, InjectGood, EmptyGood
  <2> QED BY <1>1, <2>1, <2>2
<1>3. mb' \in [Pane -> Mailbox]
  <2>1. DOMAIN mb' = Pane /\ mb' = [q \in Pane |-> mb'[q]]
    BY <1>1
  <2> QED BY <1>2, <2>1 DEF Good
<1>4. focused' \in live' /\ live' \in SUBSET Pane
  BY DEF PaneExit, FocusAfterExit, IInv, TypeOK
<1>5. /\ pending' \in [Pane -> BOOLEAN] /\ grip' \in [Pane -> {"none", "seen", "typed"}]
      /\ UNCHANGED <<attached, nGrips>>
  BY DEF PaneExit, IInv, TypeOK
<1> QED BY <1>2, <1>3, <1>4, <1>5 DEF IInv, TypeOK, Good

LEMMA NextIInv == IInv /\ [Next]_vars => IInv'
<1> SUFFICES ASSUME IInv, [Next]_vars PROVE IInv'
  OBVIOUS
<1>1. CASE UserStep
  BY <1>1, UserStepIInv
<1>2. CASE \E p \in Pane, m \in Text : Automate(p, m)
  BY <1>2, AutomateIInv
<1>3. CASE \E p \in Pane, m \in Text : Run(p, m)
  BY <1>3, RunIInv
<1>4. CASE \E p \in Pane : RawEnter(p) \/ SubmitEnter(p) \/ VerifySubmit(p) \/ ExpireInflight(p)
  BY <1>4, TimersIInv
<1>5. CASE AgentPoll
  BY <1>5, AgentPollIInv
<1>6. CASE \E p \in Pane : PaneExit(p)
  BY <1>6, PaneExitIInv
<1>7. CASE UNCHANGED vars
  BY <1>7 DEF vars, IInv, TypeOK, Good
<1> QED BY <1>1, <1>2, <1>3, <1>4, <1>5, <1>6, <1>7 DEF Next

LEMMA Inductive == Spec => []IInv
<1> QED BY InitIInv, NextIInv, PTL DEF Spec

(* The server's record of every pane keeps its shape, whatever the keys,   *)
(* timers and messages do (input_busy, inject, flush_inbox, the two        *)
(* timers and handle_pane_exit).                                           *)
THEOREM TypeCorrect == Spec => []TypeOK
BY Inductive, PTL DEF IInv

(* `inject` and `flush_inbox` deliver what was accepted in order, none     *)
(* twice and none lost, while the pane and the server live.                *)
THEOREM DeliveredInOrder == Spec => []InOrder
<1>1. IInv => InOrder
  BY IInvMeaning
<1> QED BY <1>1, Inductive, PTL

(* An orchestrator's box never holds two unsent messages: the in-flight    *)
(* mark of `inject` covers the Enter and the delivery check of each.       *)
THEOREM NudgesNeverGlue == Spec => []NoGlue
<1>1. IInv => NoGlue
  <2> SUFFICES ASSUME IInv, NEW o \in Orchestrators
               PROVE  Len(mb[o].msgs) <= 1 /\ (mb[o].msgs # <<>> => mb[o].inflight)
    BY DEF NoGlue
  <2>1. OneShot(mb[o])
    BY IInvMeaning DEF OnePasteAtATime
  <2>2. Len(<<>>) = 0 /\ \A m \in Msg : Len(<<m>>) = 1
    OBVIOUS
  <2>3. CASE mb[o].msgs = <<>>
    BY <2>2, <2>3
  <2>4. CASE mb[o].msgs # <<>>
    <3>1. mb[o].inflight /\ \E m \in Msg : mb[o].msgs = <<m>>
      BY <2>1, <2>4, Zenon DEF OneShot
    <3>2. PICK m \in Msg : mb[o].msgs = <<m>>
      BY <3>1
    <3>3. Len(mb[o].msgs) = 1
      BY <2>2, <3>2
    <3> QED BY <3>1, <3>3
  <2> QED BY <2>3, <2>4
<1> QED BY <1>1, Inductive, PTL

-----------------------------------------------------------------------------
(* Grips.                                                                  *)

LEMMA PollEndsOtherGrips ==
  ASSUME IInv, AgentPoll
  PROVE  \A p \in Pane : grip'[p] # "none" => p = focused
<1>1. PICK stale \in SUBSET {p \in Pane : grip[p] = "typed"} : grip' = GripAfterPoll(stale)
  BY DEF AgentPoll
<1> QED BY <1>1 DEF GripAfterPoll, Ended, IInv, TypeOK

(* A step of anyone but the poll gives no new pane a grip.                 *)
LEMMA OthersAddNoGrip ==
  ASSUME IInv, Next, ~AgentPoll, NEW p \in Pane, grip[p] = "none"
  PROVE  grip'[p] = "none"
<1>1. CASE UserStep
  BY <1>1 DEF UserStep, TypeChar, OtherKey, EnterOrAbandon, ShiftEnter, ReleaseEnter,
              SendKey, UserPaste, MoveFocus, AttachOrDetach, IInv, TypeOK
<1>2. CASE \E q \in Pane, m \in Text : Automate(q, m) \/ Run(q, m)
  BY <1>2 DEF Automate, Run
<1>3. CASE \E q \in Pane : RawEnter(q) \/ SubmitEnter(q) \/ VerifySubmit(q) \/ ExpireInflight(q)
  BY <1>3 DEF RawEnter, SubmitEnter, VerifySubmit, ExpireInflight
<1>4. CASE \E q \in Pane : PaneExit(q)
  BY <1>4 DEF PaneExit, IInv, TypeOK
<1> QED BY <1>1, <1>2, <1>3, <1>4 DEF Next

(* poll_user_grip watches the focused pane only, so no two panes are ever  *)
(* gripped at once, wherever the focus goes between two polls.             *)
THEOREM OneGripOnly == Spec => []OneGrip
<1>1. Init => OneGrip
  BY DEF Init, OneGrip
<1>2. IInv /\ OneGrip /\ [Next]_vars => OneGrip'
  <2> SUFFICES ASSUME IInv, OneGrip, [Next]_vars PROVE OneGrip'
    OBVIOUS
  <2>1. CASE AgentPoll
    BY <2>1, PollEndsOtherGrips DEF OneGrip
  <2>2. CASE Next /\ ~AgentPoll
    BY <2>2, OthersAddNoGrip DEF OneGrip
  <2>3. CASE UNCHANGED vars
    BY <2>3 DEF vars, OneGrip
  <2> QED BY <2>1, <2>2, <2>3
<1> QED BY <1>1, <1>2, Inductive, PTL DEF Spec

-----------------------------------------------------------------------------
(* The user's draft.                                                       *)

LEMMA MailboxDrafts ==
  ASSUME NEW b \in Mailbox, NEW m \in Msg, NEW busy \in BOOLEAN
  PROVE  /\ Inject(b, m, busy).draft = b.draft
         /\ Flush(b, busy).draft = b.draft
         /\ RunInto(b, m).draft = b.draft
         /\ Submitted(b).draft = "none"
         /\ EnterFired(b, busy).draft \in {b.draft, "none"}
         /\ VerifyFired(b, busy).draft \in {b.draft, "none"}
         /\ [b EXCEPT !.inflight = FALSE].draft = b.draft
<1>1. /\ Inject(b, m, busy).draft = b.draft
      /\ Flush(b, busy).draft = b.draft
      /\ RunInto(b, m).draft = b.draft
      /\ Submitted(b).draft = "none"
      /\ [b EXCEPT !.inflight = FALSE].draft = b.draft
  BY DEF Inject, Flush, Deliver, Accept, Enqueue, RunInto, Submitted, Mailbox
<1>2. EnterFired(b, busy).draft \in {b.draft, "none"}
  BY DEF EnterFired, Submitted, Mailbox
<1>3. VerifyFired(b, busy).draft \in {b.draft, "none"}
  BY DEF VerifyFired, Submitted, Mailbox
<1> QED BY <1>1, <1>2, <1>3

(* Messages and timers never make a draft appear.                          *)
LEMMA OthersKeepDraft ==
  ASSUME IInv, Next, ~UserStep, NEW p \in Pane, mb'[p].draft = "typed"
  PROVE  mb[p].draft = "typed" /\ pending'[p] = pending[p]
<1>1. \A q \in Pane : mb[q] \in Mailbox /\ InputBusy(q) \in BOOLEAN
  BY DEF IInv, TypeOK, InputBusy, Busy
<1>2. CASE \E q \in Pane, m \in Text : Automate(q, m)
  <2>1. PICK q \in Pane, m \in Text : Automate(q, m)
    BY <1>2
  <2>2. m \in Msg
    BY DEF Msg
  <2>3. Inject(mb[q], m, InputBusy(q)).draft = mb[q].draft
    BY <1>1, <2>2, MailboxDrafts
  <2> QED BY <2>1, <2>3 DEF Automate, IInv, TypeOK
<1>3. CASE \E q \in Pane, m \in Text : Run(q, m)
  <2>1. PICK q \in Pane, m \in Text : Run(q, m)
    BY <1>3
  <2>2. m \in Msg
    BY DEF Msg
  <2>3. RunInto(mb[q], m).draft = mb[q].draft
    BY <1>1, <2>2, MailboxDrafts
  <2> QED BY <2>1, <2>3 DEF Run, IInv, TypeOK
<1>4. CASE \E q \in Pane : RawEnter(q) \/ SubmitEnter(q) \/ VerifySubmit(q) \/ ExpireInflight(q)
  <2>1. PICK q \in Pane : RawEnter(q) \/ SubmitEnter(q) \/ VerifySubmit(q) \/ ExpireInflight(q)
    BY <1>4
  <2>2. \E c : mb' = [mb EXCEPT ![q] = c] /\ c.draft \in {mb[q].draft, "none"}
    <3>1. CASE RawEnter(q)
      BY <3>1, <1>1, MailboxDrafts DEF RawEnter, Msg
    <3>2. CASE SubmitEnter(q)
      <4>1. PICK folded \in BOOLEAN : mb' = [mb EXCEPT ![q] = EnterFired(mb[q], folded)]
        BY <3>2 DEF SubmitEnter
      <4>2. EnterFired(mb[q], folded).draft \in {mb[q].draft, "none"}
        BY <1>1, MailboxDrafts DEF Msg
      <4> QED BY <4>1, <4>2
    <3>3. CASE VerifySubmit(q)
      <4>1. PICK echoed \in BOOLEAN : mb' = [mb EXCEPT ![q] = VerifyFired(mb[q], echoed)]
        BY <3>3 DEF VerifySubmit
      <4>2. VerifyFired(mb[q], echoed).draft \in {mb[q].draft, "none"}
        BY <1>1, MailboxDrafts DEF Msg
      <4> QED BY <4>1, <4>2
    <3>4. CASE ExpireInflight(q)
      <4>1. mb' = [mb EXCEPT ![q] = [mb[q] EXCEPT !.inflight = FALSE]]
        BY <3>4 DEF ExpireInflight, IInv, TypeOK
      <4>2. [mb[q] EXCEPT !.inflight = FALSE].draft = mb[q].draft
        BY <1>1, MailboxDrafts DEF Msg
      <4> QED BY <4>1, <4>2
    <3> QED BY <2>1, <3>1, <3>2, <3>3, <3>4
  <2>3. UNCHANGED pending
    BY <2>1 DEF RawEnter, SubmitEnter, VerifySubmit, ExpireInflight
  <2> QED BY <2>2, <2>3 DEF IInv, TypeOK
<1>5. CASE AgentPoll
  <2>1. PICK stale \in SUBSET {q \in Pane : grip[q] = "typed"} :
          mb' = [q \in Pane |->
            LET busy == Busy(pending[q], grip'[q])
                b == IF q \in Orchestrators /\ HandedTo(q, stale) # {}
                     THEN Inject(mb[q], Handback, busy) ELSE mb[q]
            IN Flush(b, busy)]
    BY <1>5 DEF AgentPoll
  <2> DEFINE busy == Busy(pending[p], grip'[p])
             b == IF p \in Orchestrators /\ HandedTo(p, stale) # {}
                  THEN Inject(mb[p], Handback, busy) ELSE mb[p]
  <2>2. busy \in BOOLEAN /\ Handback \in Msg
    BY DEF Busy, IInv, TypeOK, Msg
  <2>3. b.draft = mb[p].draft /\ b \in Mailbox
    <3>1. Good(p, mb[p]) /\ Good(p, Inject(mb[p], Handback, busy))
      BY <2>2, InjectGood DEF IInv
    <3> QED BY <1>1, <2>2, <3>1, MailboxDrafts DEF Good
  <2>4. mb'[p] = Flush(b, busy)
    BY <2>1
  <2> HIDE DEF b, busy
  <2>5. Flush(b, busy).draft = b.draft
    BY <2>2, <2>3, MailboxDrafts
  <2> QED BY <1>5, <2>3, <2>4, <2>5 DEF AgentPoll
<1>6. CASE \E q \in Pane : PaneExit(q)
  <2>1. PICK q \in Pane : PaneExit(q)
    BY <1>6
  <2>2. p # q
    BY <2>1 DEF PaneExit, EmptyMailbox
  <2>3. mb'[p] = Inject(mb[p], Left, InputBusy(p)) \/ mb'[p] = mb[p]
    BY <2>1, <2>2 DEF PaneExit
  <2>4. Inject(mb[p], Left, InputBusy(p)).draft = mb[p].draft
    <3>1. Left \in Msg
      BY DEF Msg
    <3> QED BY <1>1, <3>1, MailboxDrafts
  <2> QED BY <2>1, <2>2, <2>3, <2>4 DEF PaneExit, IInv, TypeOK
<1> QED BY <1>2, <1>3, <1>4, <1>5, <1>6 DEF Next

(* Every key and paste that leaves a draft the server counts as typed      *)
(* leaves user_input_pending set.                                          *)
LEMMA UserKeepsTracked ==
  ASSUME IInv, DraftTracked, UserStep
  PROVE  DraftTracked'
<1>1. focused \in Pane /\ mb \in [Pane -> Mailbox] /\ pending \in [Pane -> BOOLEAN]
      /\ mb[focused] \in Mailbox
  BY DEF IInv, TypeOK
<1>2. ASSUME NEW unsent \in BOOLEAN, NEW c, SendKey(unsent, c), c.draft = "typed" => unsent
      PROVE  DraftTracked'
  BY <1>1, <1>2 DEF SendKey, DraftTracked
<1>3. CASE TypeChar
  BY <1>2, <1>3 DEF TypeChar
<1>4. CASE OtherKey
  BY <1>2, <1>4 DEF OtherKey
<1>5. CASE EnterOrAbandon
  BY <1>1, <1>2, <1>5 DEF EnterOrAbandon, Submitted, Mailbox
<1>6. CASE ShiftEnter
  BY <1>1, <1>2, <1>6 DEF ShiftEnter, Mailbox
<1>7. CASE ReleaseEnter
  BY <1>1, <1>2, <1>7 DEF ReleaseEnter, Unseen, Mailbox
<1>8. CASE UserPaste
  <2>1. mb' = [mb EXCEPT ![focused] =
                 [mb[focused] EXCEPT !.draft = IF pending[focused] THEN "typed" ELSE "unseen"]]
    BY <1>1, <1>8 DEF UserPaste
  <2> QED BY <1>1, <1>8, <2>1 DEF UserPaste, DraftTracked, Mailbox
<1>9. CASE (\E p \in Pane : MoveFocus(p)) \/ AttachOrDetach
  BY <1>9 DEF MoveFocus, AttachOrDetach, DraftTracked
<1> QED BY <1>3, <1>4, <1>5, <1>6, <1>7, <1>8, <1>9 DEF UserStep

LEMMA AlwaysTracked == Spec => []DraftTracked
<1>1. Init => DraftTracked
  BY DEF Init, DraftTracked, EmptyMailbox
<1>2. IInv /\ DraftTracked /\ [Next]_vars => DraftTracked'
  <2> SUFFICES ASSUME IInv, DraftTracked, [Next]_vars PROVE DraftTracked'
    OBVIOUS
  <2>1. CASE UserStep
    BY <2>1, UserKeepsTracked
  <2>2. CASE Next /\ ~UserStep
    BY <2>2, OthersKeepDraft DEF DraftTracked
  <2>3. CASE UNCHANGED vars
    BY <2>3 DEF vars, DraftTracked
  <2> QED BY <2>1, <2>2, <2>3
<1> QED BY <1>1, <1>2, Inductive, PTL DEF Spec

-----------------------------------------------------------------------------
(* Where automation pastes: only into a box the server takes to be free.   *)

LEMMA MailboxPastes ==
  ASSUME NEW b \in Mailbox, NEW m \in Msg, NEW busy \in BOOLEAN
  PROVE  /\ Inject(b, m, TRUE).msgs = b.msgs
         /\ Flush(b, TRUE).msgs = b.msgs
         /\ Submitted(b).msgs = <<>>
         /\ EnterFired(b, busy).msgs \in {b.msgs, <<>>}
         /\ VerifyFired(b, busy).msgs \in {b.msgs, <<>>}
         /\ [b EXCEPT !.inflight = FALSE].msgs = b.msgs
<1>1. /\ Inject(b, m, TRUE).msgs = b.msgs
      /\ Flush(b, TRUE).msgs = b.msgs
      /\ Submitted(b).msgs = <<>>
      /\ [b EXCEPT !.inflight = FALSE].msgs = b.msgs
  BY DEF Inject, Flush, Deliver, Accept, Enqueue, Submitted, Mailbox
<1>2. EnterFired(b, busy).msgs \in {b.msgs, <<>>}
  BY DEF EnterFired, Submitted, Mailbox
<1>3. VerifyFired(b, busy).msgs \in {b.msgs, <<>>}
  BY DEF VerifyFired, Submitted, Mailbox
<1> QED BY <1>1, <1>2, <1>3

(* A box changes by no more than losing its messages.                      *)
NoPaste(p) == mb'[p].msgs \in {mb[p].msgs, <<>>}

LEMMA NoPasteIsShorter ==
  ASSUME IInv, NEW p \in Pane, NoPaste(p)
  PROVE  ~(Len(mb'[p].msgs) > Len(mb[p].msgs))
<1>1. mb[p].msgs \in Seq(Msg)
  BY DEF IInv, TypeOK, Mailbox
<1>2. Len(mb[p].msgs) \in Nat /\ Len(<<>>) = 0
  BY <1>1
<1> QED BY <1>2 DEF NoPaste

LEMMA BusyBoxIsLeftAlone ==
  ASSUME IInv, DraftTracked, Next, NEW p \in Pane, mb[p].draft = "typed"
  PROVE  NoPaste(p)
<1>1. /\ pending[p]
      /\ \A q \in Pane : mb[q] \in Mailbox /\ InputBusy(q) \in BOOLEAN
      /\ mb \in [Pane -> Mailbox] /\ focused \in Pane
  BY DEF DraftTracked, IInv, TypeOK, InputBusy, Busy
<1>2. InputBusy(p) = TRUE
  BY <1>1 DEF InputBusy, Busy
<1>3. CASE UserStep
  <2>1. mb' = mb \/ \E c : mb' = [mb EXCEPT ![focused] = c] /\ c.msgs \in {mb[focused].msgs, <<>>}
    <3>1. CASE TypeChar \/ OtherKey \/ EnterOrAbandon \/ ShiftEnter \/ ReleaseEnter
      <4>1. ASSUME NEW unsent \in BOOLEAN, NEW c, SendKey(unsent, c)
            PROVE  mb' = [mb EXCEPT ![focused] = c]
        BY <4>1 DEF SendKey
      <4>2. \A d : [mb[focused] EXCEPT !.draft = d].msgs = mb[focused].msgs
        BY <1>1 DEF Mailbox
      <4>3. Submitted(mb[focused]).msgs = <<>>
        BY <1>1 DEF Submitted, Mailbox
      <4>4. CASE TypeChar
        <5>1. mb' = [mb EXCEPT ![focused] = [mb[focused] EXCEPT !.draft = "typed"]]
          BY <4>4 DEF TypeChar, SendKey
        <5> QED BY <4>2, <5>1
      <4>5. CASE OtherKey
        <5>1. mb' = [mb EXCEPT ![focused] = [mb[focused] EXCEPT !.draft = IF mb[focused].draft = "none" THEN "none" ELSE "typed"]]
          BY <4>5 DEF OtherKey, SendKey
        <5> QED BY <4>2, <5>1
      <4>6. CASE EnterOrAbandon
        BY <4>1, <4>3, <4>6 DEF EnterOrAbandon
      <4>7. CASE ShiftEnter
        <5>1. mb' = [mb EXCEPT ![focused] = [mb[focused] EXCEPT !.draft = "unseen"]]
          BY <4>7 DEF ShiftEnter, SendKey
        <5> QED BY <4>2, <5>1
      <4>8. CASE ReleaseEnter
        <5>1. mb' = [mb EXCEPT ![focused] = [mb[focused] EXCEPT !.draft = IF mb[focused].draft = "none" THEN "none" ELSE "unseen"]]
          BY <4>8 DEF ReleaseEnter, Unseen, SendKey
        <5> QED BY <4>2, <5>1
      <4> QED BY <3>1, <4>4, <4>5, <4>6, <4>7, <4>8
    <3>2. CASE UserPaste
      <4> DEFINE c == [mb[focused] EXCEPT !.draft = IF pending[focused] THEN "typed" ELSE "unseen"]
      <4>1. mb' = [mb EXCEPT ![focused] = c] /\ c.msgs = mb[focused].msgs
        BY <1>1, <3>2 DEF UserPaste, Mailbox
      <4> QED BY <4>1
    <3>3. CASE (\E q \in Pane : MoveFocus(q)) \/ AttachOrDetach
      BY <3>3 DEF MoveFocus, AttachOrDetach
    <3> QED BY <1>3, <3>1, <3>2, <3>3 DEF UserStep
  <2> QED BY <1>1, <2>1 DEF NoPaste
<1>4. CASE \E q \in Pane, m \in Text : Automate(q, m)
  <2>1. PICK q \in Pane, m \in Text : Automate(q, m)
    BY <1>4
  <2>2. q = p => Inject(mb[q], m, InputBusy(q)).msgs = mb[q].msgs
    <3>1. m \in Msg
      BY DEF Msg
    <3>2. Inject(mb[p], m, TRUE).msgs = mb[p].msgs
      BY <1>1, <3>1, MailboxPastes
    <3> QED BY <1>2, <3>2, Zenon
  <2> QED BY <1>1, <2>1, <2>2 DEF Automate, NoPaste
<1>5. CASE \E q \in Pane, m \in Text : Run(q, m)
  BY <1>1, <1>5 DEF Run, NoPaste
<1>6. CASE \E q \in Pane : RawEnter(q) \/ SubmitEnter(q) \/ VerifySubmit(q) \/ ExpireInflight(q)
  <2>1. PICK q \in Pane : RawEnter(q) \/ SubmitEnter(q) \/ VerifySubmit(q) \/ ExpireInflight(q)
    BY <1>6
  <2>2. \E c : mb' = [mb EXCEPT ![q] = c] /\ c.msgs \in {mb[q].msgs, <<>>}
    <3>1. CASE RawEnter(q)
      BY <3>1, <1>1, MailboxPastes DEF RawEnter, Msg
    <3>2. CASE SubmitEnter(q)
      <4>1. PICK folded \in BOOLEAN : mb' = [mb EXCEPT ![q] = EnterFired(mb[q], folded)]
        BY <3>2 DEF SubmitEnter
      <4>2. EnterFired(mb[q], folded).msgs \in {mb[q].msgs, <<>>}
        BY <1>1, MailboxPastes DEF Msg
      <4> QED BY <4>1, <4>2
    <3>3. CASE VerifySubmit(q)
      <4>1. PICK echoed \in BOOLEAN : mb' = [mb EXCEPT ![q] = VerifyFired(mb[q], echoed)]
        BY <3>3 DEF VerifySubmit
      <4>2. VerifyFired(mb[q], echoed).msgs \in {mb[q].msgs, <<>>}
        BY <1>1, MailboxPastes DEF Msg
      <4> QED BY <4>1, <4>2
    <3>4. CASE ExpireInflight(q)
      <4>1. mb' = [mb EXCEPT ![q] = [mb[q] EXCEPT !.inflight = FALSE]]
        BY <3>4 DEF ExpireInflight, IInv, TypeOK
      <4>2. [mb[q] EXCEPT !.inflight = FALSE].msgs = mb[q].msgs
        BY <1>1, MailboxPastes DEF Msg
      <4> QED BY <4>1, <4>2
    <3> QED BY <2>1, <3>1, <3>2, <3>3, <3>4
  <2> QED BY <1>1, <2>2 DEF NoPaste
<1>7. CASE AgentPoll
  <2>1. PICK stale \in SUBSET {q \in Pane : grip[q] = "typed"} :
          mb' = [q \in Pane |->
            LET busy == Busy(pending[q], grip'[q])
                b == IF q \in Orchestrators /\ HandedTo(q, stale) # {}
                     THEN Inject(mb[q], Handback, busy) ELSE mb[q]
            IN Flush(b, busy)]
    BY <1>7 DEF AgentPoll
  <2> DEFINE busy == Busy(pending[p], grip'[p])
             b == IF p \in Orchestrators /\ HandedTo(p, stale) # {}
                  THEN Inject(mb[p], Handback, busy) ELSE mb[p]
  <2>2. busy = TRUE /\ Handback \in Msg
    BY <1>1 DEF Busy, Msg
  <2>3. b.msgs = mb[p].msgs /\ b \in Mailbox
    <3>1. Good(p, mb[p]) /\ Good(p, Inject(mb[p], Handback, busy))
      BY <2>2, InjectGood DEF IInv
    <3> QED BY <1>1, <2>2, <3>1, MailboxPastes DEF Good
  <2>4. mb'[p] = Flush(b, busy)
    BY <2>1
  <2> HIDE DEF b, busy
  <2>5. Flush(b, busy).msgs = b.msgs
    BY <2>2, <2>3, MailboxPastes
  <2> QED BY <2>3, <2>4, <2>5 DEF NoPaste
<1>8. CASE \E q \in Pane : PaneExit(q)
  <2>1. PICK q \in Pane : PaneExit(q)
    BY <1>8
  <2>2. mb'[p] \in {EmptyMailbox, Inject(mb[p], Left, InputBusy(p)), mb[p]}
    BY <2>1 DEF PaneExit
  <2>3. Inject(mb[p], Left, InputBusy(p)).msgs = mb[p].msgs
    <3>1. Left \in Msg
      BY DEF Msg
    <3>2. Inject(mb[p], Left, TRUE).msgs = mb[p].msgs
      BY <1>1, <3>1, MailboxPastes
    <3> QED BY <1>2, <3>2, Zenon
  <2> QED BY <2>2, <2>3 DEF NoPaste, EmptyMailbox
<1> QED BY <1>3, <1>4, <1>5, <1>6, <1>7, <1>8 DEF Next

(* `inject`, `flush_inbox` and `pane run` never paste into a box whose     *)
(* draft user_input_pending reflects.                                      *)
THEOREM DraftNeverPastedOver == Spec => NoPasteOverTypedDraft
<1> DEFINE Step == \A p \in Pane : Len(mb'[p].msgs) > Len(mb[p].msgs) => mb[p].draft # "typed"
<1>1. IInv /\ DraftTracked /\ [Next]_vars => [Step]_vars
  BY BusyBoxIsLeftAlone, NoPasteIsShorter
<1>2. NoPasteOverTypedDraft <=> [][Step]_vars
  BY DEF NoPasteOverTypedDraft
<1> HIDE DEF Step
<1> QED BY <1>1, <1>2, Inductive, AlwaysTracked, PTL DEF Spec

-----------------------------------------------------------------------------
(* Handbacks.                                                              *)

LEMMA InjectAccepts ==
  ASSUME NEW p \in Pane, NEW b, NEW m \in Msg, NEW busy \in BOOLEAN, Good(p, b)
  PROVE  Len(Flush(Inject(b, m, busy), busy).accepted) = Len(b.accepted) + 1
<1> DEFINE c == Inject(b, m, busy)
<1>1. b \in Mailbox /\ c \in Mailbox
  BY InjectGood DEF Good
<1>2. c.accepted = Append(b.accepted, m)
  BY <1>1 DEF Inject, Deliver, Enqueue, Accept, Mailbox
<1> HIDE DEF c
<1>3. Flush(c, busy).accepted = c.accepted
  BY <1>1 DEF Flush, Deliver, Mailbox
<1>4. b.accepted \in Seq(Msg)
  BY <1>1 DEF Mailbox
<1>5. Len(Append(b.accepted, m)) = Len(b.accepted) + 1
  BY <1>4, AppendProperties
<1> QED BY <1>2, <1>3, <1>5 DEF c

(* `poll_user_grip` and `nudge_handback`: whenever a grip the user typed   *)
(* into ends, the orchestrator of a live worker is told.                   *)
THEOREM HandbackNeverLost == Spec => HandbackTold
<1> DEFINE Step == \A w \in Workers :
             grip[w] = "typed" /\ grip'[w] # "typed" /\ w \in live' /\ TeamOf[w] \in live'
               => Len(mb'[TeamOf[w]].accepted) > Len(mb[TeamOf[w]].accepted)
<1>1. IInv /\ [Next]_vars => [Step]_vars
  <2> SUFFICES ASSUME IInv, Next, NEW w \in Workers, grip[w] = "typed", grip'[w] # "typed",
                      w \in live', TeamOf[w] \in live'
               PROVE  Len(mb'[TeamOf[w]].accepted) > Len(mb[TeamOf[w]].accepted)
    OBVIOUS
  <2> DEFINE o == TeamOf[w]
  <2>1. w \in Pane /\ o \in Pane /\ o \in Orchestrators
    BY TeamAssumption
  <2>2. CASE AgentPoll
    <3>1. PICK stale \in SUBSET {q \in Pane : grip[q] = "typed"} :
            /\ grip' = GripAfterPoll(stale)
            /\ mb' = [q \in Pane |->
                 LET busy == Busy(pending[q], grip'[q])
                     b == IF q \in Orchestrators /\ HandedTo(q, stale) # {}
                          THEN Inject(mb[q], Handback, busy) ELSE mb[q]
                 IN Flush(b, busy)]
      BY <2>2 DEF AgentPoll
    <3>2. w \in live /\ o \in live
      BY <2>2 DEF AgentPoll
    <3>3. w \in Ended \/ w \in stale
      BY <2>1, <3>1 DEF GripAfterPoll
    <3>4. w \in HandedTo(o, stale)
      BY <2>1, <3>2, <3>3 DEF HandedTo, Handbacks, HandbacksOnLeave, InTeam
    <3> DEFINE busy == Busy(pending[o], grip'[o])
    <3>5. mb'[o] = Flush(Inject(mb[o], Handback, busy), busy)
      BY <2>1, <3>1, <3>4
    <3>6. busy \in BOOLEAN /\ Handback \in Msg /\ Good(o, mb[o])
      BY <2>1 DEF Busy, IInv, TypeOK, Msg
    <3>7. Len(mb[o].accepted) \in Nat
      BY <3>6 DEF Good, Mailbox
    <3> HIDE DEF busy
    <3>8. Len(mb'[o].accepted) = Len(mb[o].accepted) + 1
      BY <2>1, <3>5, <3>6, InjectAccepts
    <3> QED BY <3>7, <3>8
  <2>3. CASE ~AgentPoll
    <3>1. grip'[w] = "typed" \/ w \notin live'
      <4>1. CASE UserStep
        BY <2>1, <4>1 DEF UserStep, TypeChar, OtherKey, EnterOrAbandon, ShiftEnter, ReleaseEnter,
                    SendKey, UserPaste, MoveFocus, AttachOrDetach, IInv, TypeOK
      <4>2. CASE \E q \in Pane, m \in Text : Automate(q, m) \/ Run(q, m)
        BY <4>2 DEF Automate, Run
      <4>3. CASE \E q \in Pane : RawEnter(q) \/ SubmitEnter(q) \/ VerifySubmit(q) \/ ExpireInflight(q)
        BY <4>3 DEF RawEnter, SubmitEnter, VerifySubmit, ExpireInflight
      <4>4. CASE \E q \in Pane : PaneExit(q)
        BY <2>1, <4>4 DEF PaneExit, IInv, TypeOK
      <4> QED BY <2>3, <4>1, <4>2, <4>3, <4>4 DEF Next
    <3> QED BY <3>1
  <2> QED BY <2>2, <2>3
<1>2. HandbackTold <=> [][Step]_vars
  BY DEF HandbackTold
<1> HIDE DEF Step
<1> QED BY <1>1, <1>2, Inductive, PTL DEF Spec
=============================================================================
