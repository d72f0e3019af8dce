------------------------- MODULE TurnTransportProofs -------------------------
(***************************************************************************)
(* Proofs about TurnTransport: whatever the instances, the events and the
   bounds, no prompt is written twice, a receipt that calls its event safe
   to retry was never delivered, a completed receipt is proven by its hand,
   and a receipt never leaves a final state or forgets its hand. *)
(***************************************************************************)
EXTENDS TurnTransport, TLAPS

\* Steps of a worker whose STARTING swap succeeded and that may still write a prompt or
\* settle its own receipt.
ActingSteps == {"spawn", "deliver", "wait", "ended", "verify", "complete"}
Acting(b, e) == work[b][e].pc \in ActingSteps

\* The states a receipt can have while a worker acts for it.
ActedOn == {"starting", "running", "delivery_uncertain"}

\* The hand a receipt names before anything was delivered.
Target(e) == IF mode[e] = "resume" THEN 0 ELSE None

\* A worker past the lock works for an event that has a receipt; while it acts, that
\* receipt is in flight or was taken for an orphan, never retryable or completed.
HasReceipt(b, e) ==
  /\ work[b][e].pc \in {"check", "execute", "uncertain", "recover"} => rcpt[e] # None
  /\ Acting(b, e) => rcpt[e] # None /\ rcpt[e].state \in ActedOn

\* What the receipt held by a worker says at each of its steps.
Holds(b, e) ==
  LET w == work[b][e] IN
  /\ w.pc \in {"check", "execute"} =>
       w.held # None /\ w.held.state = "pending" /\ w.held.thread = Target(e)
  /\ w.pc \in ActingSteps =>
       /\ w.held # None
       /\ w.held.state = IF w.pc = "spawn" /\ w.phase # "binding" THEN "starting"
                                                                ELSE "running"
       /\ w.held.thread # None => w.hand = w.held.thread
  /\ w.pc \in {"spawn", "deliver"} /\ w.phase # "binding" => w.held.thread = Target(e)
  /\ w.pc = "uncertain" => w.held # None /\ w.held.state \in InFlight

\* The prompts an acting worker has and has not written.
Prompted(b, e) ==
  LET w == work[b][e] IN
  /\ Acting(b, e) => (w.phase = "resume" <=> mode[e] = "resume")
  /\ w.pc \in {"spawn", "deliver"} =>
       /\ prompts[e][w.phase] = 0
       /\ w.phase # "binding" => \A p \in Phases : prompts[e][p] = 0
  /\ w.pc \in {"wait", "ended", "verify", "complete"} => prompts[e][w.phase] = 1
  /\ w.pc \in {"wait", "ended"} /\ w.phase = "opening" => prompts[e]["binding"] = 0

\* The hand an acting worker knows was addressed, and is the one that decided once the
\* worker has its evidence.
Knows(b, e) ==
  LET w == work[b][e] IN
  /\ w.pc \in {"wait", "ended", "verify", "complete"} /\ w.hand # None =>
       w.hand \in hands[e]
  /\ w.pc \in {"verify", "complete"} => w.hand # None /\ w.phase # "opening"
  /\ w.pc = "complete" => decided[e] # None /\ decided[e].by = w.hand

WorkerInv(b, e) == HasReceipt(b, e) /\ Holds(b, e) /\ Prompted(b, e) /\ Knows(b, e)

\* One worker at most, over all instances, acts for an event.
OneActor ==
  \A b, c \in Bridges, e \in Events : Acting(b, e) /\ Acting(c, e) => b = c

\* What the safety properties say of one event, and the hand of an undelivered receipt.
EventInv(e) ==
  /\ \A p \in Phases : prompts[e][p] <= 1
  /\ Before(e) => \A p \in Phases : prompts[e][p] = 0
  /\ rcpt[e] # None /\ Before(e) => rcpt[e].thread = Target(e)
  /\ rcpt[e] # None /\ rcpt[e].state = "completed" =>
       /\ decided[e] # None /\ decided[e].by = rcpt[e].thread
       /\ rcpt[e].thread \in hands[e]
       /\ prompts[e][IF mode[e] = "start" THEN "binding" ELSE "resume"] = 1

\* The inductive invariant
TurnInv ==
  /\ TypeOK /\ OneActor
  /\ \A b \in Bridges, e \in Events : WorkerInv(b, e)
  /\ \A e \in Events : EventInv(e)

----------------------------------------
(* Receipts and workers as data *)

\* The receipt _transition writes keeps every field its caller does not change.
LEMMA ReceiptUpdate ==
  ASSUME NEW r \in Receipts, NEW s \in States
  PROVE  /\ InState(r, s) \in Receipts /\ InState(r, s).state = s
         /\ InState(r, s).thread = r.thread
         /\ Released(r, s) \in Receipts /\ Released(r, s).state = s
         /\ Released(r, s).thread = r.thread
BY DEF Receipts, InState, Released

LEMMA OwnedReceipt ==
  ASSUME NEW r \in Receipts, NEW s \in States, NEW b \in Bridges
  PROVE  /\ Owned(r, s, b) \in Receipts /\ Owned(r, s, b).state = s
         /\ Owned(r, s, b).thread = r.thread
BY DEF Receipts, Owned

LEMMA NamedReceipt ==
  ASSUME NEW r \in Receipts, NEW h \in Threads \cup {None}
  PROVE  /\ Named(r, h) \in Receipts /\ Named(r, h).state = r.state
         /\ Named(r, h).thread = h
BY DEF Receipts, Named

LEMMA RetriedReceipt ==
  ASSUME NEW r \in Receipts, MayRetry(r)
  PROVE  /\ Retried(r) \in Receipts /\ Retried(r).state = "pending"
         /\ Retried(r).thread = r.thread
<1> DEFINE n == r.attempt + 1
<1>1. n \in 1 .. MaxAttempts BY TurnConstants DEF Receipts, MayRetry
<1>2. "pending" \in States BY DEF States
<1> HIDE DEF n
<1>3. LET u == [r EXCEPT !.state = "pending", !.attempt = n]
      IN u \in Receipts /\ u.state = "pending" /\ u.thread = r.thread
  BY <1>1, <1>2 DEF Receipts
<1> QED BY <1>3 DEF Retried, n

LEMMA UncertainReceipt ==
  ASSUME NEW r \in Receipts
  PROVE  /\ Uncertain(r) \in Receipts /\ Uncertain(r).state = "delivery_uncertain"
         /\ Uncertain(r).thread = r.thread
BY ReceiptUpdate DEF Uncertain, States, Terminal

\* A worker of another instance or for another event is left alone.
LEMMA WorkerUpdate ==
  ASSUME TypeOK, NEW b \in Bridges, NEW e \in Events, NEW w \in Workers, Becomes(b, e, w)
  PROVE  /\ work' \in [Bridges -> [Events -> Workers]]
         /\ work'[b][e] = w
         /\ \A c \in Bridges, f \in Events : c # b \/ f # e => work'[c][f] = work[c][f]
BY DEF TypeOK, Becomes

LEMMA IdleWorker ==
  ASSUME NEW s \in Steps
  PROVE  /\ Idle \in Workers /\ Idle.pc = "none"
         /\ [Idle EXCEPT !.pc = s] \in Workers /\ [Idle EXCEPT !.pc = s].pc = s
BY DEF Idle, Workers, Steps, Phases

LEMMA ReceiptUpdated ==
  ASSUME TypeOK, NEW e \in Events, NEW before, NEW after \in Receipts,
         Transition(e, before, after)
  PROVE  /\ rcpt[e] = before /\ rcpt' \in [Events -> Receipts \cup {None}]
         /\ rcpt'[e] = after /\ after # None
         /\ \A f \in Events : f # e => rcpt'[f] = rcpt[f]
BY TurnConstants DEF TypeOK, Transition

\* A step of the worker of b for e keeps the invariant when it keeps its own part and
\* that of the event, and does not disturb the other workers of the event.
LEMMA LocalStep ==
  ASSUME TurnInv, NEW b \in Bridges, NEW e \in Events,
         TypeOK', WorkerInv(b, e)', EventInv(e)', UNCHANGED <<mode, decided>>,
         \A c \in Bridges, f \in Events : c # b \/ f # e => work'[c][f] = work[c][f],
         \A f \in Events : f # e => /\ rcpt'[f] = rcpt[f] /\ prompts'[f] = prompts[f]
                                    /\ hands'[f] = hands[f],
         hands[e] \subseteq hands'[e],
         rcpt[e] # None => rcpt'[e] # None,
         \A c \in Bridges : c # b /\ Acting(c, e) =>
           /\ work'[b][e].pc \notin ActingSteps
           /\ rcpt'[e].state \in ActedOn /\ prompts'[e] = prompts[e]
  PROVE  TurnInv'
<1>1. OneActor' BY DEF TurnInv, OneActor, Acting
<1>2. ASSUME NEW c \in Bridges, NEW f \in Events PROVE WorkerInv(c, f)'
  <2>1. CASE c = b /\ f = e BY <2>1
  <2>2. CASE f # e
    BY <2>2 DEF TurnInv, WorkerInv, HasReceipt, Holds, Prompted, Knows, Acting, Target
  <2>3. CASE f = e /\ c # b
    <3>1. WorkerInv(c, e) /\ work'[c][e] = work[c][e] BY <2>3 DEF TurnInv
    <3>2. HasReceipt(c, e)' BY <2>3, <3>1 DEF WorkerInv, HasReceipt, Acting
    <3>3. Holds(c, e)' BY <2>3, <3>1 DEF WorkerInv, Holds, Target
    <3>4. Prompted(c, e)' BY <2>3, <3>1 DEF WorkerInv, Prompted, Acting, ActingSteps
    <3>5. Knows(c, e)' BY <2>3, <3>1 DEF WorkerInv, Knows
    <3> QED BY <2>3, <3>2, <3>3, <3>4, <3>5 DEF WorkerInv
  <2> QED BY <2>1, <2>2, <2>3
<1>3. ASSUME NEW f \in Events PROVE EventInv(f)' BY DEF TurnInv, EventInv, Before, Target
<1> QED BY <1>1, <1>2, <1>3 DEF TurnInv

\* Stated by LocalStep for a step that changes nothing but the worker of b for e.
LEMMA WorkerStep ==
  ASSUME TurnInv, NEW b \in Bridges, NEW e \in Events, NEW w \in Workers,
         Becomes(b, e, w), TypeOK', WorkerInv(b, e)',
         UNCHANGED <<mode, decided, rcpt, prompts, hands>>,
         w.pc \in ActingSteps => Acting(b, e)
  PROVE  TurnInv'
<1>1. /\ work'[b][e] = w
      /\ \A c \in Bridges, f \in Events : c # b \/ f # e => work'[c][f] = work[c][f]
  BY WorkerUpdate DEF TurnInv
<1>2. EventInv(e)' BY DEF TurnInv, EventInv, Before, Target
<1>3. \A c \in Bridges : c # b /\ Acting(c, e) =>
        /\ w.pc \notin ActingSteps
        /\ rcpt[e].state \in ActedOn
  BY DEF TurnInv, OneActor, WorkerInv, HasReceipt
<1> QED BY <1>1, <1>2, <1>3, LocalStep

\* A worker that leaves the turn, the receipt as it is.
LEMMA LeaveStep ==
  ASSUME TurnInv, NEW b \in Bridges, NEW e \in Events,
         NEW s \in {"contended", "recover", "done"}, Leave(b, e, s),
         s = "recover" => rcpt[e] # None, outside' \in 0 .. MaxOutside,
         UNCHANGED <<rest, rcpt, req, scheduled, wlock, prompts, hands, nextHand>>
  PROVE  TurnInv'
<1> DEFINE w == [Idle EXCEPT !.pc = s]
<1>1. w \in Workers /\ w.pc = s /\ Becomes(b, e, w) BY IdleWorker DEF Leave, Steps
<1>2. work' \in [Bridges -> [Events -> Workers]] /\ work'[b][e] = w
  BY <1>1, WorkerUpdate DEF TurnInv
<1> HIDE DEF w
<1>3. TypeOK' BY <1>2 DEF TurnInv, TypeOK, rest
<1>4. WorkerInv(b, e)'
  BY <1>1, <1>2 DEF WorkerInv, HasReceipt, Holds, Prompted, Knows, Acting, ActingSteps
<1> QED BY <1>1, <1>3, <1>4, WorkerStep DEF ActingSteps, rest

\* A worker that leaves the turn with its receipt r settled or made retryable.
LEMMA SettleStep ==
  ASSUME TurnInv, NEW b \in Bridges, NEW e \in Events, NEW r \in Receipts,
         Leave(b, e, "done"), Transition(e, rcpt[e], r), EventInv(e)',
         r.state \in ActedOn \/ \A c \in Bridges : c # b => ~Acting(c, e),
         outside' \in 0 .. MaxOutside,
         UNCHANGED <<rest, req, scheduled, wlock, prompts, hands, nextHand>>
  PROVE  TurnInv'
<1> DEFINE w == [Idle EXCEPT !.pc = "done"]
<1>1. w \in Workers /\ w.pc = "done" /\ Becomes(b, e, w) BY IdleWorker DEF Leave, Steps
<1>2. /\ work' \in [Bridges -> [Events -> Workers]] /\ work'[b][e] = w
      /\ \A c \in Bridges, f \in Events : c # b \/ f # e => work'[c][f] = work[c][f]
  BY <1>1, WorkerUpdate DEF TurnInv
<1>3. /\ rcpt' \in [Events -> Receipts \cup {None}] /\ rcpt'[e] = r /\ r # None
      /\ \A f \in Events : f # e => rcpt'[f] = rcpt[f]
  BY ReceiptUpdated DEF TurnInv
<1> HIDE DEF w
<1>4. TypeOK' BY <1>2, <1>3 DEF TurnInv, TypeOK, rest
<1>5. WorkerInv(b, e)'
  BY <1>1, <1>2 DEF WorkerInv, HasReceipt, Holds, Prompted, Knows, Acting, ActingSteps
<1>6. UNCHANGED <<mode, decided, prompts, hands>> BY DEF rest
<1>7. \A c \in Bridges : c # b /\ Acting(c, e) =>
        work'[b][e].pc \notin ActingSteps /\ rcpt'[e].state \in ActedOn
  BY <1>1, <1>2, <1>3 DEF ActingSteps
<1> QED BY <1>2, <1>3, <1>4, <1>5, <1>6, <1>7, LocalStep

\* An uncertain receipt says nothing about its event but that no prompt is sent again.
LEMMA UncertainEvent ==
  ASSUME TurnInv, NEW e \in Events, rcpt'[e] \in Receipts,
         rcpt'[e].state = "delivery_uncertain", UNCHANGED prompts
  PROVE  EventInv(e)'
BY TurnConstants DEF TurnInv, EventInv, Before

\* A worker that leaves the turn with an in-flight receipt made uncertain.
LEMMA UncertainStep ==
  ASSUME TurnInv, NEW b \in Bridges, NEW e \in Events, rcpt[e] # None,
         Leave(b, e, "done"), Transition(e, rcpt[e], Uncertain(rcpt[e])),
         UNCHANGED <<rest, req, scheduled, wlock, prompts, hands, nextHand, outside>>
  PROVE  TurnInv'
<1> DEFINE r == Uncertain(rcpt[e])
<1>1. r \in Receipts /\ r.state = "delivery_uncertain" BY UncertainReceipt DEF TurnInv, TypeOK
<1> HIDE DEF r
<1>2. rcpt'[e] = r BY <1>1, ReceiptUpdated DEF TurnInv, r
<1>3. EventInv(e)' BY <1>1, <1>2, UncertainEvent
<1>4. outside' \in 0 .. MaxOutside BY DEF TurnInv, TypeOK
<1> QED BY <1>1, <1>3, <1>4, SettleStep DEF r, ActedOn

----------------------------------------
(* Requests *)

LEMMA PollInv ==
  ASSUME TurnInv, NEW b \in Bridges, NEW e \in Events, Poll(b, e) \/ Submit(b, e)
  PROVE  TurnInv'
<1>1. UNCHANGED <<mode, up, canon, sess, decided, rcpt, scheduled, work, wlock, prompts,
                  hands, nextHand, outside>>
  BY DEF Poll, Submit, rest
<1>2. \E q \in Requests : req' = [req EXCEPT ![b] = q]
  BY DEF TurnInv, TypeOK, Poll, Submit, Requests
<1>3. TypeOK' BY <1>1, <1>2 DEF TurnInv, TypeOK
<1> QED
  BY <1>1, <1>3 DEF TurnInv, OneActor, Acting, WorkerInv, HasReceipt, Holds, Prompted,
     Knows, EventInv, Before, Target

\* The orphan of a request becomes uncertain under every worker.
LEMMA ClassifyInv ==
  ASSUME TurnInv, NEW b \in Bridges, Classify(b)
  PROVE  TurnInv'
<1>1. PICK e \in Events : req[b] # None /\ e = req[b].event
  BY DEF TurnInv, TypeOK, Requests, Classify
<1>2. /\ UNCHANGED <<mode, up, canon, sess, decided, scheduled, work, wlock, prompts, hands,
                     nextHand, outside>>
      /\ req' = [req EXCEPT ![b] = None]
  BY DEF Classify, rest
<1>3. CASE UNCHANGED rcpt
  <2>1. TypeOK' BY <1>1, <1>2, <1>3 DEF TurnInv, TypeOK
  <2> QED
    BY <1>2, <1>3, <2>1 DEF TurnInv, OneActor, Acting, WorkerInv, HasReceipt, Holds,
       Prompted, Knows, EventInv, Before, Target
<1>4. CASE ~UNCHANGED rcpt
  <2>1. /\ rcpt[e] # None /\ rcpt[e].state \in InFlight
        /\ Transition(e, rcpt[e], Uncertain(rcpt[e]))
    BY <1>1, <1>4 DEF Classify
  <2> DEFINE r == Uncertain(rcpt[e])
  <2>2. r \in Receipts /\ r.state = "delivery_uncertain"
    BY <1>1, <2>1, UncertainReceipt DEF TurnInv, TypeOK
  <2> HIDE DEF r
  <2>3. /\ rcpt' \in [Events -> Receipts \cup {None}] /\ rcpt'[e] = r /\ r # None
        /\ \A f \in Events : f # e => rcpt'[f] = rcpt[f]
    BY <1>1, <2>1, <2>2, ReceiptUpdated DEF TurnInv, r
  <2>4. TypeOK' BY <1>2, <2>3 DEF TurnInv, TypeOK
  <2>5. EventInv(e)' BY <1>1, <1>2, <2>2, <2>3, UncertainEvent
  <2>6. WorkerInv(b, e)'
    BY <1>1, <1>2, <2>1, <2>2, <2>3, ZenonT(60) DEF TurnInv, WorkerInv, HasReceipt, Holds, Prompted,
       Knows, Acting, ActedOn, Target
  <2>7. \A c \in Bridges : c # b /\ Acting(c, e) =>
          work'[b][e].pc \notin ActingSteps /\ rcpt'[e].state \in ActedOn
    BY <1>1, <1>2, <2>2, <2>3 DEF TurnInv, OneActor, Acting, ActedOn
  <2> QED BY <1>1, <1>2, <2>3, <2>4, <2>5, <2>6, <2>7, LocalStep
<1> QED BY <1>3, <1>4

LEMMA ScheduleStep ==
  ASSUME TurnInv, NEW b \in Bridges, NEW e \in Events, NEW ctx \in Nat, Schedule(b, e, ctx)
  PROVE  /\ scheduled' \in [Bridges -> SUBSET Events]
         /\ work' \in [Bridges -> [Events -> Workers]]
         /\ work'[b][e] = work[b][e] \/ work'[b][e].pc = "lock"
         /\ \A c \in Bridges, f \in Events : c # b \/ f # e => work'[c][f] = work[c][f]
<1> DEFINE w == [Idle EXCEPT !.pc = "lock", !.ctx = ctx]
<1>1. w \in Workers /\ w.pc = "lock" BY DEF Idle, Workers, Steps, Phases
<1> HIDE DEF w
<1>2. CASE e \in scheduled[b] BY <1>2 DEF Schedule, TurnInv, TypeOK
<1>3. CASE e \notin scheduled[b]
  <2>1. Becomes(b, e, w) /\ scheduled' = [scheduled EXCEPT ![b] = @ \cup {e}]
    BY <1>3 DEF Schedule, w
  <2>2. scheduled' \in [Bridges -> SUBSET Events] BY <2>1 DEF TurnInv, TypeOK
  <2> QED BY <1>1, <2>1, <2>2, WorkerUpdate DEF TurnInv
<1> QED BY <1>2, <1>3

\* A request that leaves the receipt alone, or replaces an undelivered one, and may start
\* a worker.
LEMMA RequestStep ==
  ASSUME TurnInv, NEW b \in Bridges, NEW e \in Events, TypeOK', EventInv(e)',
         UNCHANGED <<mode, decided, prompts, hands>>,
         work'[b][e] = work[b][e] \/ work'[b][e].pc = "lock",
         \A c \in Bridges, f \in Events : c # b \/ f # e => work'[c][f] = work[c][f],
         \A f \in Events : f # e => rcpt'[f] = rcpt[f],
         rcpt'[e] = rcpt[e] \/ (Before(e) /\ rcpt'[e] # None)
  PROVE  TurnInv'
<1>1. Before(e) => \A c \in Bridges : ~Acting(c, e)
  BY DEF TurnInv, WorkerInv, HasReceipt, Before, ActedOn
<1>2. WorkerInv(b, e)'
  <2>1. WorkerInv(b, e) BY DEF TurnInv
  <2>2. CASE work'[b][e].pc = "lock"
    BY <2>2 DEF WorkerInv, HasReceipt, Holds, Prompted, Knows, Acting, ActingSteps
  <2>3. CASE work'[b][e] = work[b][e]
    <3>1. HasReceipt(b, e)' BY <1>1, <2>1, <2>3 DEF WorkerInv, HasReceipt, Acting
    <3>2. Holds(b, e)' /\ Prompted(b, e)' /\ Knows(b, e)'
      BY <2>1, <2>3 DEF WorkerInv, Holds, Prompted, Knows, Acting, Target
    <3> QED BY <3>1, <3>2 DEF WorkerInv
  <2> QED BY <2>2, <2>3
<1>3. \A c \in Bridges : c # b /\ Acting(c, e) =>
        work'[b][e].pc \notin ActingSteps /\ rcpt'[e].state \in ActedOn
  BY <1>1 DEF TurnInv, OneActor, WorkerInv, HasReceipt, Acting, ActingSteps
<1> QED BY <1>2, <1>3, LocalStep

LEMMA SubmitNewInv ==
  ASSUME TurnInv, NEW b \in Bridges, NEW capability \in Capability, SubmitNew(b, capability)
  PROVE  TurnInv'
<1>1. PICK e \in Events : req[b] # None /\ e = req[b].event
  BY DEF TurnInv, TypeOK, Requests, SubmitNew, CreateReceipt
<1>2. PICK ctx \in Nat : ctx = req[b].ctx BY <1>1 DEF TurnInv, TypeOK, Requests
<1>3. /\ UNCHANGED <<mode, up, canon, sess, decided, wlock, prompts, hands, nextHand, outside>>
      /\ req' = [req EXCEPT ![b] = None]
  BY DEF SubmitNew, CreateReceipt, rest
<1> DEFINE new == [state |-> IF capability = "available" THEN "pending" ELSE "blocked",
                   attempt |-> 1, owner |-> None, ctx |-> ctx,
                   thread |-> IF mode[e] = "resume" THEN 0 ELSE None]
<1>4. /\ new \in Receipts /\ new.state \in {"pending", "blocked"}
      /\ new.thread = Target(e)
  BY TurnConstants DEF Receipts, States, Terminal, Threads, Target
<1> HIDE DEF new
<1>5. CASE Transition(e, None, new) /\ (Schedule(b, e, ctx) \/ UNCHANGED <<scheduled, work>>)
  <2>1. /\ scheduled' \in [Bridges -> SUBSET Events]
        /\ work' \in [Bridges -> [Events -> Workers]]
        /\ work'[b][e] = work[b][e] \/ work'[b][e].pc = "lock"
        /\ \A c \in Bridges, f \in Events : c # b \/ f # e => work'[c][f] = work[c][f]
    BY <1>5, ScheduleStep DEF TurnInv, TypeOK
  <2>2. /\ rcpt[e] = None /\ rcpt' \in [Events -> Receipts \cup {None}]
        /\ rcpt'[e] = new /\ new # None /\ \A f \in Events : f # e => rcpt'[f] = rcpt[f]
    BY <1>4, <1>5, ReceiptUpdated DEF TurnInv
  <2>3. TypeOK' BY <1>3, <2>1, <2>2 DEF TurnInv, TypeOK
  <2>4. EventInv(e)' BY <1>3, <1>4, <2>2 DEF TurnInv, EventInv, Before, Target
  <2> QED BY <1>3, <2>1, <2>2, <2>3, <2>4, RequestStep DEF Before
<1>6. CASE UNCHANGED rcpt /\ (Schedule(b, e, ctx) \/ UNCHANGED <<scheduled, work>>)
  <2>1. /\ scheduled' \in [Bridges -> SUBSET Events]
        /\ work' \in [Bridges -> [Events -> Workers]]
        /\ work'[b][e] = work[b][e] \/ work'[b][e].pc = "lock"
        /\ \A c \in Bridges, f \in Events : c # b \/ f # e => work'[c][f] = work[c][f]
    BY <1>6, ScheduleStep DEF TurnInv, TypeOK
  <2>2. TypeOK' BY <1>3, <1>6, <2>1 DEF TurnInv, TypeOK
  <2>3. EventInv(e)' BY <1>3, <1>6 DEF TurnInv, EventInv, Before, Target
  <2> QED BY <1>3, <1>6, <2>1, <2>2, <2>3, RequestStep
<1> QED BY <1>1, <1>2, <1>5, <1>6 DEF SubmitNew, CreateReceipt, new

LEMMA SubmitAgainInv ==
  ASSUME TurnInv, NEW b \in Bridges, NEW capability \in Capability,
         SubmitAgain(b, capability)
  PROVE  TurnInv'
<1>1. PICK e \in Events : req[b] # None /\ e = req[b].event
  BY DEF TurnInv, TypeOK, Requests, SubmitAgain
<1>2. PICK ctx \in Nat : ctx = req[b].ctx BY <1>1 DEF TurnInv, TypeOK, Requests
<1>3. PICK r \in Receipts : r = req[b].held /\ r.state \in {"pending", "failed_safe"}
  BY <1>1 DEF TurnInv, TypeOK, Requests, SubmitAgain
<1>4. /\ UNCHANGED <<mode, up, canon, sess, decided, wlock, prompts, hands, nextHand, outside>>
      /\ req' = [req EXCEPT ![b] = None]
  BY DEF SubmitAgain, rest
<1>5. Schedule(b, e, ctx) \/ UNCHANGED <<scheduled, work>> BY <1>1, <1>2, <1>3 DEF SubmitAgain
<1>6. /\ scheduled' \in [Bridges -> SUBSET Events]
      /\ work' \in [Bridges -> [Events -> Workers]]
      /\ work'[b][e] = work[b][e] \/ work'[b][e].pc = "lock"
      /\ \A c \in Bridges, f \in Events : c # b \/ f # e => work'[c][f] = work[c][f]
  BY <1>5, ScheduleStep DEF TurnInv, TypeOK
<1>7. CASE UNCHANGED rcpt
  <2>1. TypeOK' BY <1>4, <1>6, <1>7 DEF TurnInv, TypeOK
  <2>2. EventInv(e)' BY <1>4, <1>7 DEF TurnInv, EventInv, Before, Target
  <2> QED BY <1>4, <1>6, <1>7, <2>1, <2>2, RequestStep
<1>8. CASE ~UNCHANGED rcpt
  <2>1. PICK u : u \in {InState(r, "blocked"), InState(r, "failed_safe"), Retried(r)}
                 /\ (u = Retried(r) => MayRetry(r) \/ u = InState(r, "blocked")
                                         \/ u = InState(r, "failed_safe"))
                 /\ Transition(e, r, u)
    BY <1>1, <1>2, <1>3, <1>8 DEF SubmitAgain
  <2>2. /\ u \in Receipts /\ u.state \in {"pending", "failed_safe", "blocked"}
        /\ u.thread = r.thread
    BY <1>3, <2>1, ReceiptUpdate, RetriedReceipt DEF States, Terminal
  <2>3. /\ rcpt[e] = r /\ rcpt' \in [Events -> Receipts \cup {None}]
        /\ rcpt'[e] = u /\ u # None /\ \A f \in Events : f # e => rcpt'[f] = rcpt[f]
    BY <2>1, <2>2, ReceiptUpdated DEF TurnInv
  <2>4. Before(e) /\ rcpt[e] # None BY <1>3, <2>3, TurnConstants DEF Before
  <2>5. TypeOK' BY <1>4, <1>6, <2>3 DEF TurnInv, TypeOK
  <2>6. EventInv(e)' BY <1>4, <2>2, <2>3, <2>4 DEF TurnInv, EventInv, Before, Target
  <2> QED BY <1>4, <1>6, <2>3, <2>4, <2>5, <2>6, RequestStep
<1> QED BY <1>7, <1>8

----------------------------------------
(* Workers *)

LEMMA TakePendingInv ==
  ASSUME TurnInv, NEW b \in Bridges, NEW e \in Events, TakePending(b, e)
  PROVE  TurnInv'
<1>0. PICK v \in Workers : v = work[b][e] BY DEF TurnInv, TypeOK
<1> DEFINE w == [v EXCEPT !.pc = "check", !.held = rcpt[e]]
<1>1. /\ Becomes(b, e, w) /\ rcpt[e] # None /\ rcpt[e].state = "pending" /\ wlock' = b
      /\ UNCHANGED <<mode, up, canon, sess, decided, rcpt, req, scheduled, prompts, hands,
                     nextHand, outside>>
  BY <1>0 DEF TakePending, Hold, rest
<1>2. w \in Workers /\ w.pc = "check" /\ w.held = rcpt[e] BY DEF TurnInv, TypeOK, Workers, Steps
<1> HIDE DEF w
<1>3. work' \in [Bridges -> [Events -> Workers]] /\ work'[b][e] = w
  BY <1>1, <1>2, WorkerUpdate DEF TurnInv
<1>4. TypeOK' BY <1>1, <1>3 DEF TurnInv, TypeOK
<1>5. rcpt[e].thread = Target(e) BY <1>1 DEF TurnInv, EventInv, Before
<1>6. WorkerInv(b, e)'
  BY <1>1, <1>2, <1>3, <1>5 DEF WorkerInv, HasReceipt, Holds, Prompted, Knows, Acting,
     ActingSteps, Target
<1> QED BY <1>1, <1>2, <1>4, <1>6, WorkerStep DEF ActingSteps

LEMMA TakeOtherInv ==
  ASSUME TurnInv, NEW b \in Bridges, NEW e \in Events, TakeOther(b, e)
  PROVE  TurnInv'
<1>1. CASE Orphan(b, e, rcpt[e]) BY <1>1, UncertainStep DEF TakeOther, Orphan
<1>2. CASE ~Orphan(b, e, rcpt[e]) BY <1>2, LeaveStep DEF TakeOther, TurnInv, TypeOK
<1> QED BY <1>1, <1>2

LEMMA ContentionInv ==
  ASSUME TurnInv, NEW b \in Bridges, NEW e \in Events, LockContended(b, e)
  PROVE  TurnInv'
BY LeaveStep DEF LockContended, TurnInv, TypeOK

LEMMA CheckCurrentInv ==
  ASSUME TurnInv, NEW b \in Bridges, NEW e \in Events, CheckCurrent(b, e)
  PROVE  TurnInv'
<1>0. PICK v \in Workers : v = work[b][e] BY DEF TurnInv, TypeOK
<1> DEFINE w == [v EXCEPT !.pc = "execute"]
<1>1. /\ work[b][e].pc = "check" /\ Becomes(b, e, w)
      /\ UNCHANGED <<mode, up, canon, sess, decided, rcpt, req, scheduled, wlock, prompts,
                     hands, nextHand, outside>>
  BY <1>0 DEF CheckCurrent, At, Move, rest
<1>2. w \in Workers /\ w.pc = "execute" /\ w.held = work[b][e].held BY <1>0 DEF Workers, Steps
<1> HIDE DEF w
<1>3. work' \in [Bridges -> [Events -> Workers]] /\ work'[b][e] = w
  BY <1>1, <1>2, WorkerUpdate DEF TurnInv
<1>4. TypeOK' BY <1>1, <1>3 DEF TurnInv, TypeOK
<1>5. WorkerInv(b, e)'
  BY <1>1, <1>2, <1>3 DEF TurnInv, WorkerInv, HasReceipt, Holds, Prompted, Knows, Acting,
     ActingSteps, Target
<1> QED BY <1>1, <1>2, <1>4, <1>5, WorkerStep DEF ActingSteps

\* A receipt replaced while it was undelivered stays a correct account of its event.
LEMMA UndeliveredEvent ==
  ASSUME TurnInv, NEW e \in Events, rcpt[e] # None, Before(e), rcpt'[e] \in Receipts,
         rcpt'[e].state \in {"pending", "failed_safe", "blocked"},
         rcpt'[e].thread = rcpt[e].thread, UNCHANGED <<mode, decided, prompts, hands>>
  PROVE  EventInv(e)'
BY DEF TurnInv, EventInv, Before, Target

\* Nobody acts for an undelivered receipt.
LEMMA NobodyActs ==
  ASSUME TurnInv, NEW e \in Events, Before(e)
  PROVE  \A c \in Bridges : ~Acting(c, e)
BY DEF TurnInv, WorkerInv, HasReceipt, Before, ActedOn

LEMMA CheckBlockedInv ==
  ASSUME TurnInv, NEW b \in Bridges, NEW e \in Events, CheckBlocked(b, e)
  PROVE  TurnInv'
<1>1. outside' \in 0 .. MaxOutside BY TurnConstants DEF CheckBlocked, TurnInv, TypeOK
<1>2. work[b][e].pc = "check" BY DEF CheckBlocked, At
<1>3. PICK r \in Receipts : r = work[b][e].held /\ r.state = "pending"
  BY <1>2 DEF TurnInv, TypeOK, Workers, WorkerInv, Holds
<1>4. CASE rcpt[e] = r
  <2> DEFINE u == InState(r, "blocked")
  <2>1. u \in Receipts /\ u.state = "blocked" /\ u.thread = r.thread
    BY ReceiptUpdate DEF States, Terminal
  <2>2. Transition(e, rcpt[e], u) /\ Leave(b, e, "done") BY <1>3, <1>4 DEF CheckBlocked
  <2> HIDE DEF u
  <2>3. Before(e) /\ rcpt[e] # None BY <1>3, <1>4, TurnConstants DEF Before
  <2>4. rcpt'[e] = u BY <2>1, <2>2, ReceiptUpdated DEF TurnInv
  <2>5. UNCHANGED <<rest, req, scheduled, wlock, prompts, hands, nextHand>> BY DEF CheckBlocked
  <2>6. EventInv(e)' BY <1>4, <2>1, <2>3, <2>4, <2>5, UndeliveredEvent DEF rest
  <2> QED BY <1>1, <2>1, <2>2, <2>3, <2>5, <2>6, NobodyActs, SettleStep
<1>5. CASE rcpt[e] # r BY <1>1, <1>3, <1>5, LeaveStep DEF CheckBlocked
<1> QED BY <1>4, <1>5

LEMMA ExecuteInv ==
  ASSUME TurnInv, NEW b \in Bridges, NEW e \in Events, Execute(b, e)
  PROVE  TurnInv'
<1>1. PICK v \in Workers : v = work[b][e] /\ v.pc = "execute"
  BY DEF TurnInv, TypeOK, Execute, At
<1>2. PICK r \in Receipts : r = v.held /\ r.state = "pending" /\ r.thread = Target(e)
  BY <1>1 DEF TurnInv, Workers, WorkerInv, Holds
<1>a. PICK ph \in Phases : ph = IF mode[e] = "start" THEN "opening" ELSE "resume" BY DEF Phases
<1>b. PICK h \in Threads \cup {None} : h = IF mode[e] = "start" THEN None ELSE 0 BY DEF Threads
<1> DEFINE u == Owned(r, "starting", b)
           w == [v EXCEPT !.pc = "spawn", !.held = u, !.phase = ph, !.hand = h]
<1>3. u \in Receipts /\ u.state = "starting" /\ u.thread = Target(e)
  BY <1>2, OwnedReceipt DEF States, InFlight
<1>4. /\ Transition(e, r, u) /\ Becomes(b, e, w)
      /\ UNCHANGED <<mode, up, canon, sess, decided, req, scheduled, wlock, prompts, hands,
                     nextHand, outside>>
  BY <1>1, <1>2, <1>a, <1>b DEF Execute, rest
<1> HIDE DEF u
<1>5. /\ w \in Workers /\ w.pc = "spawn" /\ w.held = u
      /\ w.phase = ph /\ w.hand = h
  BY <1>3 DEF Workers, Steps
<1> HIDE DEF w
<1>6. /\ work' \in [Bridges -> [Events -> Workers]] /\ work'[b][e] = w
      /\ \A c \in Bridges, f \in Events : c # b \/ f # e => work'[c][f] = work[c][f]
  BY <1>4, <1>5, WorkerUpdate DEF TurnInv
<1>7. /\ rcpt[e] = r /\ rcpt' \in [Events -> Receipts \cup {None}]
      /\ rcpt'[e] = u /\ u # None /\ \A f \in Events : f # e => rcpt'[f] = rcpt[f]
  BY <1>3, <1>4, ReceiptUpdated DEF TurnInv
<1>8. TypeOK' BY <1>4, <1>6, <1>7 DEF TurnInv, TypeOK
<1>9. Before(e) BY <1>2, <1>7 DEF Before
<1>10. \A p \in Phases : prompts[e][p] = 0 BY <1>9 DEF TurnInv, EventInv
<1>11. mode[e] \in {"start", "resume"} BY TurnConstants DEF TurnInv, TypeOK
<1>12. WorkerInv(b, e)'
  <2>1. HasReceipt(b, e)' BY <1>3, <1>5, <1>6, <1>7 DEF HasReceipt, ActedOn
  <2>2. Holds(b, e)' BY <1>a, <1>b, <1>3, <1>4, <1>5, <1>6, <1>7, <1>11 DEF Holds, ActingSteps, Target
  <2>3. Prompted(b, e)'
    BY <1>a, <1>4, <1>5, <1>6, <1>10, <1>11 DEF Prompted, Acting, ActingSteps, Phases
  <2>4. Knows(b, e)' BY <1>5, <1>6 DEF Knows
  <2> QED BY <2>1, <2>2, <2>3, <2>4 DEF WorkerInv
<1>13. EventInv(e)' BY <1>3, <1>4, <1>7 DEF TurnInv, EventInv, Before
<1>14. \A c \in Bridges : ~Acting(c, e) BY <1>9, NobodyActs
<1> QED BY <1>4, <1>6, <1>7, <1>8, <1>12, <1>13, <1>14, LocalStep

LEMMA ExecuteLostInv ==
  ASSUME TurnInv, NEW b \in Bridges, NEW e \in Events, ExecuteLost(b, e)
  PROVE  TurnInv'
<1>1. rcpt[e] # None BY DEF ExecuteLost, At, TurnInv, WorkerInv, HasReceipt
<1> QED BY <1>1, LeaveStep DEF ExecuteLost, TurnInv, TypeOK

\* A worker that goes on to settle its receipt as uncertain.
LEMMA DoubtStep ==
  ASSUME TurnInv, NEW b \in Bridges, NEW e \in Events, NEW w \in Workers,
         Becomes(b, e, w), w.pc = "uncertain", w.held # None, w.held.state \in InFlight,
         rcpt[e] # None,
         UNCHANGED <<rest, rcpt, req, scheduled, wlock, prompts, hands, nextHand, outside>>
  PROVE  TurnInv'
<1>1. work' \in [Bridges -> [Events -> Workers]] /\ work'[b][e] = w BY WorkerUpdate DEF TurnInv
<1>2. TypeOK' BY <1>1 DEF TurnInv, TypeOK, rest
<1>3. WorkerInv(b, e)'
  BY <1>1 DEF WorkerInv, HasReceipt, Holds, Prompted, Knows, Acting, ActingSteps
<1> QED BY <1>2, <1>3, WorkerStep DEF rest, ActingSteps

LEMMA SpawnFailsInv ==
  ASSUME TurnInv, NEW b \in Bridges, NEW e \in Events, SpawnFails(b, e)
  PROVE  TurnInv'
<1>1. PICK v \in Workers : v = work[b][e] /\ v.pc = "spawn"
  BY DEF TurnInv, TypeOK, SpawnFails, At
<1>2. PICK r \in Receipts : r = v.held
  BY <1>1 DEF TurnInv, Workers, WorkerInv, Holds, ActingSteps
<1>3. rcpt[e] # None /\ outside' \in 0 .. MaxOutside /\ Acting(b, e)
  BY <1>1 DEF SpawnFails, TurnInv, TypeOK, WorkerInv, HasReceipt, Acting, ActingSteps
<1>4. UNCHANGED <<rest, req, scheduled, wlock, prompts, hands, nextHand, outside>>
  BY DEF SpawnFails
<1>5. CASE v.phase # "binding" /\ Transition(e, r, Released(r, "failed_safe"))
           /\ Leave(b, e, "done")
  <2> DEFINE u == Released(r, "failed_safe")
  <2>1. u \in Receipts /\ u.state = "failed_safe" /\ u.thread = r.thread
    BY ReceiptUpdate DEF States
  <2> HIDE DEF u
  <2>2. rcpt[e] = r /\ rcpt'[e] = u BY <1>5, <2>1, ReceiptUpdated DEF TurnInv, u
  <2>3. r.thread = Target(e) /\ \A p \in Phases : prompts[e][p] = 0
    BY <1>1, <1>2, <1>5 DEF TurnInv, WorkerInv, Holds, Prompted
  <2>4. EventInv(e)' BY <1>4, <2>1, <2>2, <2>3 DEF TurnInv, EventInv, Before, Target, rest
  <2>5. \A c \in Bridges : c # b => ~Acting(c, e) BY <1>3 DEF TurnInv, OneActor
  <2> QED BY <1>3, <1>4, <1>5, <2>1, <2>2, <2>4, <2>5, SettleStep DEF u
<1>6. CASE Leave(b, e, "recover") /\ UNCHANGED rcpt BY <1>3, <1>4, <1>6, LeaveStep
<1>7. CASE v.phase = "binding" /\ Move(b, e, "uncertain") /\ UNCHANGED rcpt
  <2> DEFINE w == [v EXCEPT !.pc = "uncertain"]
  <2>1. w \in Workers /\ w.pc = "uncertain" /\ w.held = r BY <1>2 DEF Workers, Steps
  <2>2. Becomes(b, e, w) BY <1>1, <1>7 DEF Move
  <2>3. r # None /\ r.state \in InFlight
    BY <1>1, <1>2 DEF TurnInv, WorkerInv, Holds, ActingSteps, InFlight
  <2> HIDE DEF w
  <2> QED BY <1>3, <1>4, <1>7, <2>1, <2>2, <2>3, DoubtStep
<1> QED BY <1>1, <1>2, <1>5, <1>6, <1>7 DEF SpawnFails

\* An acting worker goes on and rewrites its in-flight receipt.
LEMMA ActStep ==
  ASSUME TurnInv, NEW b \in Bridges, NEW e \in Events, NEW w \in Workers,
         NEW r \in Receipts, Acting(b, e), Becomes(b, e, w), Transition(e, rcpt[e], r),
         r.state \in ActedOn, WorkerInv(b, e)', nextHand' \in Threads,
         hands' \in [Events -> SUBSET Threads], hands[e] \subseteq hands'[e],
         \A f \in Events : f # e => hands'[f] = hands[f],
         UNCHANGED <<rest, req, scheduled, wlock, prompts, outside>>
  PROVE  TurnInv'
<1>1. /\ work' \in [Bridges -> [Events -> Workers]] /\ work'[b][e] = w
      /\ \A c \in Bridges, f \in Events : c # b \/ f # e => work'[c][f] = work[c][f]
  BY WorkerUpdate DEF TurnInv
<1>2. /\ rcpt' \in [Events -> Receipts \cup {None}] /\ rcpt'[e] = r /\ r # None
      /\ \A f \in Events : f # e => rcpt'[f] = rcpt[f]
  BY ReceiptUpdated DEF TurnInv
<1>3. TypeOK' BY <1>1, <1>2 DEF TurnInv, TypeOK, rest
<1>4. EventInv(e)' BY <1>2 DEF TurnInv, EventInv, Before, ActedOn
<1>5. \A c \in Bridges : c # b => ~Acting(c, e) BY DEF TurnInv, OneActor
<1>6. UNCHANGED <<mode, decided, prompts>> BY DEF rest
<1> QED BY <1>1, <1>2, <1>3, <1>4, <1>5, <1>6, LocalStep

LEMMA PublishRunningInv ==
  ASSUME TurnInv, NEW b \in Bridges, NEW e \in Events, PublishRunning(b, e)
  PROVE  TurnInv'
<1>1. PICK v \in Workers : v = work[b][e] /\ v.pc = "spawn"
  BY DEF TurnInv, TypeOK, PublishRunning, At
<1>2. PICK r \in Receipts : r = v.held
  BY <1>1 DEF TurnInv, Workers, WorkerInv, Holds, ActingSteps
<1>3. /\ rcpt[e] # None /\ rcpt[e].state \in ActedOn /\ Acting(b, e) /\ WorkerInv(b, e)
      /\ outside' \in 0 .. MaxOutside
  BY <1>1 DEF PublishRunning, TurnInv, TypeOK, WorkerInv, HasReceipt, Acting, ActingSteps
<1>4. UNCHANGED <<rest, req, scheduled, wlock, prompts, hands, nextHand, outside>>
  BY DEF PublishRunning
<1>5. CASE r.state = "starting" /\ Transition(e, r, InState(r, "running"))
           /\ Hold(b, e, "deliver", InState(r, "running"))
  <2> DEFINE u == InState(r, "running")
             w == [v EXCEPT !.pc = "deliver", !.held = u]
  <2>1. u \in Receipts /\ u.state = "running" /\ u.thread = r.thread
    BY ReceiptUpdate DEF States, InFlight
  <2> HIDE DEF u
  <2>2. /\ w \in Workers /\ w.pc = "deliver" /\ w.held = u /\ w.phase = v.phase
        /\ w.hand = v.hand
    BY <2>1 DEF Workers, Steps
  <2>3. Transition(e, rcpt[e], u) /\ Becomes(b, e, w) BY <1>1, <1>5 DEF Hold, Transition, u
  <2> HIDE DEF w
  <2>4. work'[b][e] = w /\ rcpt'[e] = u
    BY <2>1, <2>2, <2>3, WorkerUpdate, ReceiptUpdated DEF TurnInv
  <2>5. WorkerInv(b, e)'
    <3>1. HasReceipt(b, e)' BY <2>1, <2>2, <2>4, TurnConstants DEF HasReceipt, ActedOn
    <3>2. Holds(b, e)'
      BY <1>1, <1>2, <1>3, <1>4, <2>1, <2>2, <2>4, TurnConstants
      DEF WorkerInv, Holds, ActingSteps, Target, rest
    <3>3. Prompted(b, e)' /\ Knows(b, e)'
      BY <1>1, <1>3, <1>4, <2>2, <2>4 DEF WorkerInv, Prompted, Knows, Acting, ActingSteps, rest
    <3> QED BY <3>1, <3>2, <3>3 DEF WorkerInv
  <2>6. hands' \in [Events -> SUBSET Threads] /\ nextHand' \in Threads
    BY <1>4 DEF TurnInv, TypeOK
  <2> QED BY <1>3, <1>4, <2>1, <2>2, <2>3, <2>5, <2>6, ActStep DEF ActedOn
<1>6. CASE r.state = "running" /\ Move(b, e, "deliver") /\ UNCHANGED rcpt
  <2> DEFINE w == [v EXCEPT !.pc = "deliver"]
  <2>1. /\ w \in Workers /\ w.pc = "deliver" /\ w.held = r /\ w.phase = v.phase
        /\ w.hand = v.hand
    BY <1>2 DEF Workers, Steps
  <2>2. Becomes(b, e, w) BY <1>1, <1>6 DEF Move
  <2> HIDE DEF w
  <2>3. work' \in [Bridges -> [Events -> Workers]] /\ work'[b][e] = w
    BY <2>1, <2>2, WorkerUpdate DEF TurnInv
  <2>4. WorkerInv(b, e)'
    BY <1>1, <1>2, <1>3, <1>4, <1>6, <2>1, <2>3
    DEF WorkerInv, HasReceipt, Holds, Prompted, Knows, Acting, ActingSteps, Target, rest
  <2>5. TypeOK' BY <1>4, <1>6, <2>3 DEF TurnInv, TypeOK, rest
  <2> QED BY <1>3, <1>4, <1>6, <2>1, <2>2, <2>4, <2>5, WorkerStep DEF rest
<1>7. CASE Leave(b, e, "recover") /\ UNCHANGED rcpt BY <1>3, <1>4, <1>7, LeaveStep
<1> QED BY <1>1, <1>2, <1>5, <1>6, <1>7 DEF PublishRunning

LEMMA DeliverInv ==
  ASSUME TurnInv, NEW b \in Bridges, NEW e \in Events, Deliver(b, e)
  PROVE  TurnInv'
<1>1. PICK v \in Workers : v = work[b][e] /\ v.pc = "deliver"
  BY DEF TurnInv, TypeOK, Deliver, At
<1> DEFINE w == [v EXCEPT !.pc = "wait"]
           p == v.phase
           met == hands[e] \cup ({v.hand} \ {None})
<1>2. /\ prompts' = [prompts EXCEPT ![e][p] = @ + 1] /\ hands' = [hands EXCEPT ![e] = met]
      /\ Becomes(b, e, w)
      /\ UNCHANGED <<mode, up, canon, sess, decided, rcpt, req, scheduled, wlock, nextHand,
                     outside>>
  BY <1>1 DEF Deliver, Move, rest
<1>3. /\ w \in Workers /\ w.pc = "wait" /\ w.held = v.held /\ w.phase = p
      /\ w.hand = v.hand /\ p \in Phases /\ v.hand \in Threads \cup {None}
  BY DEF Workers, Steps
<1> HIDE DEF w, p
<1>4. /\ work' \in [Bridges -> [Events -> Workers]] /\ work'[b][e] = w
      /\ \A c \in Bridges, f \in Events : c # b \/ f # e => work'[c][f] = work[c][f]
  BY <1>2, <1>3, WorkerUpdate DEF TurnInv
<1>5. Acting(b, e) /\ WorkerInv(b, e) /\ rcpt[e] # None /\ rcpt[e].state \in ActedOn
  BY <1>1 DEF TurnInv, WorkerInv, HasReceipt, Acting, ActingSteps
<1>6. /\ prompts[e][p] = 0 /\ prompts \in [Events -> [Phases -> Nat]]
      /\ (p # "binding" => \A q \in Phases : prompts[e][q] = 0)
  BY <1>1, <1>5 DEF TurnInv, TypeOK, WorkerInv, Prompted, p
<1>7. /\ prompts' \in [Events -> [Phases -> Nat]]
      /\ \A q \in Phases : prompts'[e][q] = IF q = p THEN 1 ELSE prompts[e][q]
      /\ \A f \in Events : f # e => prompts'[f] = prompts[f]
  BY <1>2, <1>3, <1>6
<1>8. /\ hands' \in [Events -> SUBSET Threads] /\ hands[e] \subseteq hands'[e]
      /\ (v.hand # None => v.hand \in hands'[e])
      /\ \A f \in Events : f # e => hands'[f] = hands[f]
  BY <1>2, <1>3 DEF TurnInv, TypeOK
<1>9. TypeOK' BY <1>2, <1>4, <1>7, <1>8 DEF TurnInv, TypeOK
<1>10. WorkerInv(b, e)'
  <2>1. HasReceipt(b, e)' BY <1>2, <1>3, <1>4, <1>5 DEF HasReceipt, ActedOn
  <2>2. Holds(b, e)' BY <1>1, <1>3, <1>4, <1>5 DEF WorkerInv, Holds, ActingSteps
  <2>3. Prompted(b, e)'
    BY <1>1, <1>2, <1>3, <1>4, <1>5, <1>6, <1>7
    DEF WorkerInv, Prompted, Acting, ActingSteps, Phases, p
  <2>4. Knows(b, e)' BY <1>3, <1>4, <1>8 DEF Knows
  <2> QED BY <2>1, <2>2, <2>3, <2>4 DEF WorkerInv
<1>11. EventInv(e)' BY <1>2, <1>5, <1>6, <1>7 DEF TurnInv, EventInv, Before, ActedOn
<1>12. \A c \in Bridges : c # b => ~Acting(c, e) BY <1>5 DEF TurnInv, OneActor
<1> QED BY <1>2, <1>4, <1>7, <1>8, <1>9, <1>10, <1>11, <1>12, LocalStep

LEMMA ThreadStartedInv ==
  ASSUME TurnInv, NEW b \in Bridges, NEW e \in Events, ThreadStarted(b, e)
  PROVE  TurnInv'
<1>1. PICK v \in Workers : v = work[b][e] /\ v.pc = "wait" /\ v.hand = None
                           /\ v.phase = "opening"
  BY DEF TurnInv, TypeOK, ThreadStarted, At
<1>2. PICK h \in Threads : h = nextHand BY DEF TurnInv, TypeOK
<1>3. /\ UNCHANGED <<mode, up, canon, sess, decided, req, scheduled, wlock, prompts, outside>>
      /\ hands' = [hands EXCEPT ![e] = @ \cup {h}] /\ nextHand' = h + 1
  BY <1>2 DEF ThreadStarted, rest
<1>4. /\ hands' \in [Events -> SUBSET Threads] /\ hands[e] \subseteq hands'[e]
      /\ h \in hands'[e] /\ \A f \in Events : f # e => hands'[f] = hands[f]
      /\ nextHand' \in Threads /\ h # None
  BY <1>3, TurnConstants DEF TurnInv, TypeOK, Threads
<1>5. Acting(b, e) /\ WorkerInv(b, e) /\ rcpt[e] \in Receipts /\ rcpt[e].state \in ActedOn
  BY <1>1 DEF TurnInv, TypeOK, WorkerInv, HasReceipt, Acting, ActingSteps
<1>6. v.held \in Receipts /\ v.held.state = "running" /\ v.held.thread = None
  BY <1>1, <1>5 DEF WorkerInv, Holds, ActingSteps, Workers
<1>7. CASE rcpt[e].state = "running" /\ Transition(e, rcpt[e], Named(rcpt[e], h))
           /\ Becomes(b, e, [v EXCEPT !.hand = h, !.held = Named(rcpt[e], h)])
  <2>1. PICK u \in Receipts : u = Named(rcpt[e], h) /\ u.state = "running" /\ u.thread = h
    BY <1>5, <1>7, NamedReceipt
  <2> DEFINE w == [v EXCEPT !.hand = h, !.held = u]
  <2>2. /\ w \in Workers /\ w.pc = "wait" /\ w.held = u /\ w.phase = "opening"
        /\ w.hand = h
    BY <1>1 DEF Workers
  <2>3. Becomes(b, e, w) /\ Transition(e, rcpt[e], u) BY <1>7, <2>1
  <2> HIDE DEF w
  <2>4. work'[b][e] = w /\ rcpt'[e] = u /\ u # None
    BY <2>2, <2>3, WorkerUpdate, ReceiptUpdated DEF TurnInv
  <2>5. WorkerInv(b, e)'
    BY <1>1, <1>3, <1>4, <1>5, <2>1, <2>2, <2>4
    DEF WorkerInv, HasReceipt, Holds, Prompted, Knows, Acting, ActingSteps, ActedOn
  <2> QED BY <1>3, <1>4, <1>5, <2>1, <2>2, <2>3, <2>5, ActStep DEF ActedOn, rest
<1>8. CASE Becomes(b, e, [v EXCEPT !.hand = h]) /\ UNCHANGED rcpt
  <2> DEFINE w == [v EXCEPT !.hand = h]
  <2>1. /\ w \in Workers /\ w.pc = "wait" /\ w.held = v.held /\ w.phase = "opening"
        /\ w.hand = h /\ Becomes(b, e, w)
    BY <1>1, <1>8 DEF Workers
  <2> HIDE DEF w
  <2>2. work'[b][e] = w BY <2>1, WorkerUpdate DEF TurnInv
  <2>3. WorkerInv(b, e)'
    BY <1>1, <1>3, <1>4, <1>5, <1>6, <1>8, <2>1, <2>2, TurnConstants
    DEF WorkerInv, HasReceipt, Holds, Prompted, Knows, Acting, ActingSteps
  <2>4. Transition(e, rcpt[e], rcpt[e]) BY <1>8 DEF Transition, TurnInv, TypeOK
  <2> QED BY <1>3, <1>4, <1>5, <2>1, <2>3, <2>4, ActStep DEF rest
<1> QED BY <1>1, <1>2, <1>7, <1>8 DEF ThreadStarted

LEMMA ChildEndsInv ==
  ASSUME TurnInv, NEW b \in Bridges, NEW e \in Events, NEW clean \in BOOLEAN,
         ChildEnds(b, e, clean)
  PROVE  TurnInv'
<1>1. PICK v \in Workers : v = work[b][e] /\ v.pc = "wait" BY DEF TurnInv, TypeOK, ChildEnds, At
<1> DEFINE w == [v EXCEPT !.pc = "ended", !.clean = clean]
<1>2. /\ Becomes(b, e, w)
      /\ UNCHANGED <<rest, rcpt, req, scheduled, wlock, prompts, hands, nextHand, outside>>
  BY <1>1 DEF ChildEnds
<1>3. /\ w \in Workers /\ w.pc = "ended" /\ w.held = v.held /\ w.phase = v.phase
      /\ w.hand = v.hand
  BY DEF Workers, Steps
<1> HIDE DEF w
<1>4. work' \in [Bridges -> [Events -> Workers]] /\ work'[b][e] = w
  BY <1>2, <1>3, WorkerUpdate DEF TurnInv
<1>5. Acting(b, e) /\ WorkerInv(b, e) BY <1>1 DEF TurnInv, Acting, ActingSteps
<1>6. TypeOK' BY <1>2, <1>4 DEF TurnInv, TypeOK, rest
<1>7. WorkerInv(b, e)'
  BY <1>1, <1>2, <1>3, <1>4, <1>5
  DEF WorkerInv, HasReceipt, Holds, Prompted, Knows, Acting, ActingSteps, rest
<1> QED BY <1>2, <1>3, <1>5, <1>6, <1>7, WorkerStep DEF rest

\* What AfterTurn makes of a worker whose child ended.
LEMMA AfterTurnWorker ==
  ASSUME NEW v \in Workers, NEW r \in Receipts, NEW w, w = AfterTurn(v, r)
  PROVE  /\ w \in Workers /\ w.held = r /\ w.pc \in {"uncertain", "spawn", "verify"}
         /\ w.pc = "spawn" => /\ v.phase = "opening" /\ w.phase = "binding"
                              /\ w.hand = v.hand /\ w.hand # None
         /\ w.pc = "verify" => /\ v.phase # "opening" /\ w.phase = v.phase
                               /\ w.hand = v.hand /\ w.hand # None
<1>1. CASE ~v.clean \/ v.hand = None
  <2>1. PICK i \in Workers : i = Idle BY IdleWorker DEF Steps
  <2>2. w = [i EXCEPT !.pc = "uncertain", !.held = r] BY <1>1, <2>1 DEF AfterTurn
  <2> QED BY <2>2 DEF Workers, Steps
<1>2. CASE v.clean /\ v.hand # None /\ v.phase = "opening"
  <2>1. w = [v EXCEPT !.pc = "spawn", !.phase = "binding", !.held = r, !.clean = FALSE]
    BY <1>2 DEF AfterTurn
  <2> QED BY <1>2, <2>1 DEF Workers, Steps, Phases
<1>3. CASE v.clean /\ v.hand # None /\ v.phase # "opening"
  <2>1. w = [v EXCEPT !.pc = "verify", !.held = r] BY <1>3 DEF AfterTurn
  <2> QED BY <1>3, <2>1 DEF Workers, Steps
<1> QED BY <1>1, <1>2, <1>3

LEMMA TurnEndsInv ==
  ASSUME TurnInv, NEW b \in Bridges, NEW e \in Events, TurnEnds(b, e)
  PROVE  TurnInv'
<1>1. PICK v \in Workers : v = work[b][e] /\ v.pc = "ended" BY DEF TurnInv, TypeOK, TurnEnds, At
<1>2. UNCHANGED <<rest, req, scheduled, wlock, prompts, hands, nextHand, outside>>
  BY DEF TurnEnds
<1>3. Acting(b, e) /\ WorkerInv(b, e) /\ rcpt[e] \in Receipts /\ rcpt[e].state \in ActedOn
  BY <1>1 DEF TurnInv, TypeOK, WorkerInv, HasReceipt, Acting, ActingSteps
<1>4. PICK r \in Receipts : r = v.held /\ r.state = "running"
                            /\ (r.thread # None => v.hand = r.thread)
  BY <1>1, <1>3 DEF WorkerInv, Holds, ActingSteps, Workers
<1>5. ASSUME NEW u \in Receipts, NEW s \in Receipts, u.state = "running",
             u.thread # None => v.hand = u.thread,
             Becomes(b, e, AfterTurn(v, u)), Transition(e, rcpt[e], s), s.state \in ActedOn
      PROVE  TurnInv'
  <2>1. PICK w : w = AfterTurn(v, u) OBVIOUS
  <2>2. /\ w \in Workers /\ w.held = u /\ w.pc \in {"uncertain", "spawn", "verify"}
        /\ w.pc = "spawn" => /\ v.phase = "opening" /\ w.phase = "binding"
                             /\ w.hand = v.hand /\ w.hand # None
        /\ w.pc = "verify" => /\ v.phase # "opening" /\ w.phase = v.phase
                              /\ w.hand = v.hand /\ w.hand # None
    BY <2>1, AfterTurnWorker
  <2>3. Becomes(b, e, w) BY <1>5, <2>1
  <2>4. work'[b][e] = w /\ rcpt'[e] = s /\ s # None
    BY <1>5, <2>2, <2>3, WorkerUpdate, ReceiptUpdated DEF TurnInv
  <2>5. HasReceipt(b, e)' BY <1>5, <2>2, <2>4 DEF HasReceipt, Acting, ActingSteps
  <2>6. Holds(b, e)' BY <1>5, <2>2, <2>4, TurnConstants DEF Holds, ActingSteps, InFlight
  <2>7. Prompted(b, e)'
    BY <1>1, <1>2, <1>3, <2>2, <2>4
    DEF WorkerInv, Prompted, Acting, ActingSteps, rest
  <2>8. Knows(b, e)' BY <1>1, <1>2, <1>3, <2>2, <2>4 DEF WorkerInv, Knows
  <2>9. hands' \in [Events -> SUBSET Threads] /\ nextHand' \in Threads
    BY <1>2 DEF TurnInv, TypeOK
  <2> QED BY <1>2, <1>3, <1>5, <2>2, <2>3, <2>5, <2>6, <2>7, <2>8, <2>9, ActStep DEF WorkerInv
<1>6. CASE /\ v.hand # None /\ Transition(e, r, Named(r, v.hand))
           /\ Becomes(b, e, AfterTurn(v, Named(r, v.hand)))
  <2>1. PICK u \in Receipts : u = Named(r, v.hand) /\ u.state = "running"
                              /\ u.thread = v.hand
    BY <1>4, NamedReceipt DEF Workers
  <2>2. Transition(e, rcpt[e], u) BY <1>6, <2>1 DEF Transition
  <2> QED BY <1>5, <1>6, <2>1, <2>2 DEF ActedOn
<1>7. CASE Becomes(b, e, AfterTurn(v, r)) /\ UNCHANGED rcpt
  <2>1. Transition(e, rcpt[e], rcpt[e]) BY <1>7 DEF Transition, TurnInv, TypeOK
  <2> QED BY <1>3, <1>4, <1>5, <1>7, <2>1
<1>8. CASE Leave(b, e, "recover") /\ UNCHANGED rcpt
  <2>1. rcpt[e] # None /\ outside' \in 0 .. MaxOutside
    BY <1>2, <1>3, TurnConstants DEF TurnInv, TypeOK
  <2> QED BY <1>2, <1>8, <2>1, LeaveStep
<1> QED BY <1>1, <1>4, <1>6, <1>7, <1>8 DEF TurnEnds

LEMMA VerifyInv ==
  ASSUME TurnInv, NEW b \in Bridges, NEW e \in Events, Verify(b, e)
  PROVE  TurnInv'
<1>1. PICK v \in Workers : v = work[b][e] /\ v.pc = "verify" BY DEF TurnInv, TypeOK, Verify, At
<1>2. UNCHANGED <<rest, rcpt, req, scheduled, wlock, prompts, hands, nextHand, outside>>
  BY DEF Verify
<1>3. Acting(b, e) /\ WorkerInv(b, e) /\ rcpt[e] # None
  BY <1>1 DEF TurnInv, WorkerInv, HasReceipt, Acting, ActingSteps
<1>4. PICK s \in {"complete", "uncertain"} : Move(b, e, s) /\ (s = "complete" => Evidence(b, e))
  BY DEF Verify
<1> DEFINE w == [v EXCEPT !.pc = s]
<1>5. /\ w \in Workers /\ w.pc = s /\ w.held = v.held /\ w.phase = v.phase
      /\ w.hand = v.hand
  BY DEF Workers, Steps
<1>6. Becomes(b, e, w) BY <1>1, <1>4 DEF Move
<1> HIDE DEF w
<1>7. CASE s = "uncertain"
  <2>1. v.held # None /\ v.held.state \in InFlight
    BY <1>1, <1>3 DEF WorkerInv, Holds, ActingSteps, InFlight
  <2> QED BY <1>2, <1>3, <1>5, <1>6, <1>7, <2>1, DoubtStep
<1>8. CASE s = "complete"
  <2>1. work' \in [Bridges -> [Events -> Workers]] /\ work'[b][e] = w
    BY <1>5, <1>6, WorkerUpdate DEF TurnInv
  <2>2. decided[e] # None /\ decided[e].by = v.hand BY <1>1, <1>4, <1>8 DEF Evidence
  <2>3. TypeOK' BY <1>2, <2>1 DEF TurnInv, TypeOK, rest
  <2>4. WorkerInv(b, e)'
    BY <1>1, <1>2, <1>3, <1>5, <1>8, <2>1, <2>2
    DEF WorkerInv, HasReceipt, Holds, Prompted, Knows, Acting, ActingSteps, rest
  <2> QED BY <1>2, <1>3, <1>5, <1>6, <2>3, <2>4, WorkerStep DEF rest
<1> QED BY <1>7, <1>8

LEMMA CompleteInv ==
  ASSUME TurnInv, NEW b \in Bridges, NEW e \in Events, Complete(b, e)
  PROVE  TurnInv'
<1>1. PICK v \in Workers : v = work[b][e] /\ v.pc = "complete"
  BY DEF TurnInv, TypeOK, Complete, At
<1>2. UNCHANGED <<rest, req, scheduled, wlock, prompts, hands, nextHand, outside>>
  BY DEF Complete
<1>3. Acting(b, e) /\ WorkerInv(b, e) /\ rcpt[e] # None /\ outside' \in 0 .. MaxOutside
  BY <1>1, <1>2 DEF TurnInv, TypeOK, WorkerInv, HasReceipt, Acting, ActingSteps
<1>4. PICK r \in Receipts : r = v.held BY <1>1, <1>3 DEF WorkerInv, Holds, ActingSteps, Workers
<1>5. PICK h \in Threads : h = v.hand /\ h \in hands[e]
  BY <1>1, <1>3 DEF WorkerInv, Knows, Workers
<1>6. CASE Transition(e, r, Named(Released(r, "completed"), h)) /\ Leave(b, e, "done")
  <2>1. PICK x \in Receipts : x = Released(r, "completed") /\ x.state = "completed"
    BY ReceiptUpdate DEF States, Terminal
  <2>2. PICK u \in Receipts : u = Named(x, h) /\ u.state = "completed" /\ u.thread = h
    BY <2>1, NamedReceipt
  <2>3. Transition(e, rcpt[e], u) BY <1>6, <2>1, <2>2 DEF Transition
  <2>4. rcpt'[e] = u BY <2>3, ReceiptUpdated DEF TurnInv
  <2>5. decided[e] # None /\ decided[e].by = h BY <1>1, <1>3, <1>5 DEF WorkerInv, Knows
  <2>6. /\ v.phase = (IF mode[e] = "start" THEN "binding" ELSE "resume")
        /\ prompts[e][v.phase] = 1
    <3>1. v.phase \in {"binding", "resume"} BY <1>1, <1>3 DEF WorkerInv, Knows, Workers, Phases
    <3>2. mode[e] \in {"start", "resume"} BY TurnConstants DEF TurnInv, TypeOK
    <3> QED BY <1>1, <1>3, <3>1, <3>2 DEF WorkerInv, Prompted
  <2>7. EventInv(e)'
    <3>1. u # None /\ mode' = mode /\ decided' = decided BY <1>2, TurnConstants DEF rest
    <3>2. \A p \in Phases : prompts[e][p] <= 1 BY DEF TurnInv, EventInv
    <3>3. prompts[e][IF mode[e] = "start" THEN "binding" ELSE "resume"] = 1 BY <2>6
    <3> QED BY <1>2, <1>5, <2>2, <2>4, <2>5, <3>1, <3>2, <3>3 DEF EventInv, Before
  <2>8. \A c \in Bridges : c # b => ~Acting(c, e) BY <1>3 DEF TurnInv, OneActor
  <2> QED BY <1>2, <1>3, <1>6, <2>3, <2>7, <2>8, SettleStep
<1>7. CASE Leave(b, e, "recover") /\ UNCHANGED rcpt BY <1>2, <1>3, <1>7, LeaveStep
<1> QED BY <1>1, <1>4, <1>5, <1>6, <1>7 DEF Complete

LEMMA MarkUncertainInv ==
  ASSUME TurnInv, NEW b \in Bridges, NEW e \in Events, MarkUncertain(b, e)
  PROVE  TurnInv'
<1>1. work[b][e].pc = "uncertain" /\ rcpt[e] # None /\ outside' \in 0 .. MaxOutside
  BY DEF MarkUncertain, At, TurnInv, TypeOK, WorkerInv, HasReceipt
<1>2. CASE rcpt[e] = work[b][e].held BY <1>1, <1>2, UncertainStep DEF MarkUncertain
<1>3. CASE rcpt[e] # work[b][e].held BY <1>1, <1>3, LeaveStep DEF MarkUncertain
<1> QED BY <1>2, <1>3

LEMMA WriteFaultInv ==
  ASSUME TurnInv, NEW b \in Bridges, NEW e \in Events, WriteFault(b, e)
  PROVE  TurnInv'
<1>1. outside' \in 0 .. MaxOutside BY TurnConstants DEF WriteFault, TurnInv, TypeOK
<1>2. rcpt[e] # None BY DEF WriteFault, TurnInv, WorkerInv, HasReceipt, Acting, ActingSteps
<1> QED BY <1>1, <1>2, LeaveStep DEF WriteFault

LEMMA RecoverInv ==
  ASSUME TurnInv, NEW b \in Bridges, NEW e \in Events, Recover(b, e)
  PROVE  TurnInv'
<1>1. rcpt[e] # None /\ outside' \in 0 .. MaxOutside
  BY DEF Recover, At, TurnInv, TypeOK, WorkerInv, HasReceipt
<1>2. CASE rcpt[e].state \in InFlight BY <1>1, <1>2, UncertainStep DEF Recover
<1>3. CASE rcpt[e].state \notin InFlight BY <1>1, <1>3, LeaveStep DEF Recover
<1> QED BY <1>2, <1>3

LEMMA SettleFailsInv ==
  ASSUME TurnInv, NEW b \in Bridges, NEW e \in Events, SettleFails(b, e)
  PROVE  TurnInv'
<1>1. outside' \in 0 .. MaxOutside BY TurnConstants DEF SettleFails, TurnInv, TypeOK
<1> QED BY <1>1, LeaveStep DEF SettleFails

LEMMA ContendedInv ==
  ASSUME TurnInv, NEW b \in Bridges, NEW e \in Events, Contended(b, e)
  PROVE  TurnInv'
<1>1. /\ UNCHANGED <<rest, req, scheduled, wlock, prompts, hands, nextHand, outside>>
      /\ Leave(b, e, "done") /\ outside' \in 0 .. MaxOutside
  BY DEF Contended, TurnInv, TypeOK
<1>2. CASE rcpt[e] # None /\ rcpt[e].state = "pending"
  <2>1. PICK r \in Receipts : r = rcpt[e] BY <1>2 DEF TurnInv, TypeOK
  <2>2. PICK u \in Receipts : /\ u = InState(r, "failed_safe") /\ u.state = "failed_safe"
                              /\ u.thread = r.thread
    BY ReceiptUpdate DEF States
  <2>3. Transition(e, rcpt[e], u) BY <1>2, <2>1, <2>2 DEF Contended
  <2>4. rcpt'[e] = u BY <2>3, ReceiptUpdated DEF TurnInv
  <2>5. Before(e) BY <1>2 DEF Before
  <2>6. EventInv(e)' BY <1>1, <1>2, <2>1, <2>2, <2>4, <2>5, UndeliveredEvent DEF rest
  <2> QED BY <1>1, <2>3, <2>5, <2>6, NobodyActs, SettleStep
<1>3. CASE ~(rcpt[e] # None /\ rcpt[e].state = "pending") /\ Orphan(b, e, rcpt[e])
  BY <1>1, <1>3, UncertainStep DEF Contended, Orphan
<1>4. CASE ~(rcpt[e] # None /\ rcpt[e].state = "pending") /\ ~Orphan(b, e, rcpt[e])
  BY <1>1, <1>4, LeaveStep DEF Contended
<1> QED BY <1>2, <1>3, <1>4

LEMMA EndInv ==
  ASSUME TurnInv, NEW b \in Bridges, NEW e \in Events, End(b, e)
  PROVE  TurnInv'
<1>1. Idle \in Workers /\ Idle.pc = "none" BY IdleWorker DEF Steps
<1>2. /\ Becomes(b, e, Idle) /\ scheduled' = [scheduled EXCEPT ![b] = @ \ {e}]
      /\ wlock' = (IF wlock = b THEN None ELSE wlock)
      /\ UNCHANGED <<rest, rcpt, req, prompts, hands, nextHand, outside>>
  BY DEF End
<1>3. work' \in [Bridges -> [Events -> Workers]] /\ work'[b][e] = Idle
  BY <1>1, <1>2, WorkerUpdate DEF TurnInv
<1>4. TypeOK' BY <1>2, <1>3 DEF TurnInv, TypeOK, rest
<1>5. WorkerInv(b, e)'
  BY <1>1, <1>3 DEF WorkerInv, HasReceipt, Holds, Prompted, Knows, Acting, ActingSteps
<1> QED BY <1>1, <1>2, <1>4, <1>5, WorkerStep DEF rest, ActingSteps

----------------------------------------
(* Hands, people and process death *)

\* Decisions are made once; they change nothing of the transport.
LEMMA DecisionInv ==
  ASSUME TurnInv,
         \/ \E e \in Events, accepted \in BOOLEAN : OperatorDecides(e, accepted)
         \/ \E e \in Events, accepted \in BOOLEAN, well \in BOOLEAN :
              \E h \in hands[e] : HandDecides(e, h, accepted, well)
  PROVE  TurnInv'
<1>1. UNCHANGED <<mode, rcpt, up, req, scheduled, work, wlock, prompts, hands, nextHand>>
  BY DEF OperatorDecides, HandDecides
<1>2. PICK e \in Events, d \in Decisions : decided[e] = None /\ decided' = [decided EXCEPT ![e] = d]
  <2>1. ASSUME NEW e \in Events, NEW accepted \in BOOLEAN, OperatorDecides(e, accepted)
        PROVE  \E d \in Decisions : decided[e] = None /\ decided' = [decided EXCEPT ![e] = d]
    BY <2>1 DEF OperatorDecides, Decisions, TurnInv, TypeOK
  <2>2. ASSUME NEW e \in Events, NEW accepted \in BOOLEAN, NEW well \in BOOLEAN,
               NEW h \in hands[e], HandDecides(e, h, accepted, well)
        PROVE  \E d \in Decisions : decided[e] = None /\ decided' = [decided EXCEPT ![e] = d]
    <3>1. h \in Threads /\ sess' \in Nat BY <2>2 DEF HandDecides, TurnInv, TypeOK
    <3> QED BY <2>2, <3>1 DEF HandDecides, Decisions
  <2> QED BY <2>1, <2>2
<1>3. canon' \in Nat /\ sess' \in Nat /\ outside' \in 0 .. MaxOutside
  BY TurnConstants DEF OperatorDecides, HandDecides, TurnInv, TypeOK
<1>4. /\ decided' \in [Events -> Decisions \cup {None}]
      /\ \A f \in Events : decided[f] # None => decided'[f] = decided[f]
  BY <1>2 DEF TurnInv, TypeOK
<1>5. TypeOK' BY <1>1, <1>3, <1>4 DEF TurnInv, TypeOK
<1>6. OneActor' BY <1>1 DEF TurnInv, OneActor, Acting
<1>7. ASSUME NEW c \in Bridges, NEW f \in Events PROVE WorkerInv(c, f)'
  BY <1>1, <1>4 DEF TurnInv, WorkerInv, HasReceipt, Holds, Prompted, Knows, Acting, Target
<1>8. ASSUME NEW f \in Events PROVE EventInv(f)'
  BY <1>1, <1>4 DEF TurnInv, EventInv, Before, Target
<1> QED BY <1>5, <1>6, <1>7, <1>8 DEF TurnInv

LEMMA CanonEditedInv ==
  ASSUME TurnInv, NEW session \in BOOLEAN, CanonEdited(session)
  PROVE  TurnInv'
<1>1. UNCHANGED <<mode, rcpt, up, req, scheduled, work, wlock, prompts, hands, decided,
                  nextHand>>
  BY DEF CanonEdited
<1>2. canon' \in Nat /\ sess' \in Nat /\ outside' \in 0 .. MaxOutside
  BY TurnConstants DEF CanonEdited, TurnInv, TypeOK
<1>3. TypeOK' BY <1>1, <1>2 DEF TurnInv, TypeOK
<1> QED
  BY <1>1, <1>3 DEF TurnInv, OneActor, Acting, WorkerInv, HasReceipt, Holds, Prompted,
     Knows, EventInv, Before, Target

LEMMA BridgeDiesInv ==
  ASSUME TurnInv, NEW b \in Bridges, BridgeDies(b)
  PROVE  TurnInv'
<1>1. UNCHANGED <<mode, rcpt, prompts, hands, decided, canon, sess, nextHand, outside>>
  BY DEF BridgeDies
<1>2. Idle \in Workers /\ Idle.pc = "none" BY IdleWorker DEF Steps
<1>3. /\ work' \in [Bridges -> [Events -> Workers]]
      /\ \A f \in Events : work'[b][f] = Idle
      /\ \A c \in Bridges, f \in Events : c # b => work'[c][f] = work[c][f]
  BY <1>2 DEF BridgeDies, TurnInv, TypeOK
<1>4. TypeOK' BY <1>1, <1>3 DEF BridgeDies, TurnInv, TypeOK
<1>5. OneActor' BY <1>2, <1>3 DEF TurnInv, OneActor, Acting, ActingSteps
<1>6. ASSUME NEW c \in Bridges, NEW f \in Events PROVE WorkerInv(c, f)'
  <2>1. CASE c = b
    BY <1>2, <1>3, <2>1
    DEF WorkerInv, HasReceipt, Holds, Prompted, Knows, Acting, ActingSteps
  <2>2. CASE c # b
    BY <1>1, <1>3, <2>2
    DEF TurnInv, WorkerInv, HasReceipt, Holds, Prompted, Knows, Acting, Target
  <2> QED BY <2>1, <2>2
<1>7. ASSUME NEW f \in Events PROVE EventInv(f)' BY <1>1 DEF TurnInv, EventInv, Before, Target
<1> QED BY <1>4, <1>5, <1>6, <1>7 DEF TurnInv

----------------------------------------
(* The theorems *)

LEMMA InitInv == Init => TurnInv
<1> SUFFICES ASSUME Init PROVE TurnInv OBVIOUS
<1>1. Idle \in Workers /\ Idle.pc = "none" BY IdleWorker DEF Steps
<1>2. /\ \A b \in Bridges, e \in Events : work[b][e] = Idle
      /\ \A e \in Events : rcpt[e] = None /\ \A p \in Phases : prompts[e][p] = 0
  BY DEF Init
<1>3. TypeOK BY <1>1, TurnConstants DEF Init, TypeOK, Threads
<1>4. OneActor BY <1>1, <1>2 DEF OneActor, Acting, ActingSteps
<1>5. ASSUME NEW b \in Bridges, NEW e \in Events PROVE WorkerInv(b, e)
  BY <1>1, <1>2 DEF WorkerInv, HasReceipt, Holds, Prompted, Knows, Acting, ActingSteps
<1>6. ASSUME NEW e \in Events PROVE EventInv(e) BY <1>2 DEF EventInv
<1> QED BY <1>3, <1>4, <1>5, <1>6 DEF TurnInv

LEMMA NextInv == TurnInv /\ [Next]_vars => TurnInv'
<1> SUFFICES ASSUME TurnInv, [Next]_vars PROVE TurnInv' OBVIOUS
<1>1. CASE UNCHANGED vars
  <2>1. TypeOK' BY <1>1 DEF vars, TurnInv, TypeOK
  <2> QED
    BY <1>1, <2>1 DEF vars, TurnInv, OneActor, Acting, WorkerInv, HasReceipt, Holds,
       Prompted, Knows, EventInv, Before, Target
<1>2. ASSUME NEW b \in Bridges, NEW e \in Events,
             Worker(b, e) \/ Poll(b, e) \/ Submit(b, e)
      PROVE  TurnInv'
  BY <1>2, PollInv, TakePendingInv, TakeOtherInv, ContentionInv, CheckCurrentInv,
     CheckBlockedInv, ExecuteInv, ExecuteLostInv, SpawnFailsInv, PublishRunningInv,
     DeliverInv, ThreadStartedInv, ChildEndsInv, TurnEndsInv, VerifyInv, CompleteInv,
     MarkUncertainInv, WriteFaultInv, RecoverInv, SettleFailsInv, ContendedInv, EndInv
  DEF Worker
<1>3. ASSUME NEW b \in Bridges, Request(b) \/ BridgeDies(b) PROVE TurnInv'
  BY <1>3, ClassifyInv, SubmitNewInv, SubmitAgainInv, BridgeDiesInv DEF Request
<1> QED BY <1>1, <1>2, <1>3, DecisionInv, CanonEditedInv DEF Next

LEMMA Invariance == Spec => []TurnInv
BY InitInv, NextInv, PTL DEF Spec

\* Every state of the transport has its declared type.
THEOREM TurnTypeCorrect == Spec => []TypeOK
<1>1. TurnInv => TypeOK BY DEF TurnInv
<1> QED BY <1>1, Invariance, PTL

\* However many instances, events, retries, faults and deaths there are, each phase of a
\* turn writes its prompt to a child at most once (CodexTurnCoordinator._execute).
THEOREM PromptedAtMostOnce == Spec => []AtMostOnce
<1>1. TurnInv => AtMostOnce BY DEF TurnInv, EventInv, AtMostOnce
<1> QED BY <1>1, Invariance, PTL

\* pending, failed_safe and blocked receipts belong to events no child ever saw.
THEOREM SafeReceiptsUndelivered == Spec => []SafeMeansUndelivered
<1>1. TurnInv => SafeMeansUndelivered BY DEF TurnInv, EventInv, SafeMeansUndelivered
<1> QED BY <1>1, Invariance, PTL

\* A completed receipt is backed by the disposition of the very hand it names.
THEOREM CompletionProven == Spec => []CompletedProven
<1>1. TurnInv => CompletedProven BY DEF TurnInv, EventInv, CompletedProven
<1> QED BY <1>1, Invariance, PTL

----------------------------------------
(* Receipts only move forward *)

\* ReceiptMonotone of one event
Forward(e) ==
  /\ Settled(e) => rcpt'[e] = rcpt[e]
  /\ rcpt[e] # None /\ rcpt[e].thread # None => rcpt'[e].thread = rcpt[e].thread

\* A swap of a receipt that is not final, the hand it names kept.
LEMMA SwapForward ==
  ASSUME TurnInv, NEW e \in Events, NEW r \in Receipts, Transition(e, rcpt[e], r),
         \/ rcpt[e] = None
         \/ /\ rcpt[e].state \notin Terminal
            /\ rcpt[e].thread # None => r.thread = rcpt[e].thread
  PROVE  \A f \in Events : Forward(f)
<1>1. rcpt'[e] = r /\ \A f \in Events : f # e => rcpt'[f] = rcpt[f]
  BY ReceiptUpdated DEF TurnInv
<1> QED BY <1>1 DEF Forward, Settled

LEMMA UncertainForward ==
  ASSUME TurnInv, NEW e \in Events, rcpt[e] # None, rcpt[e].state \in InFlight,
         Transition(e, rcpt[e], Uncertain(rcpt[e]))
  PROVE  \A f \in Events : Forward(f)
<1>1. PICK u \in Receipts : u = Uncertain(rcpt[e]) /\ u.thread = rcpt[e].thread
  BY UncertainReceipt DEF TurnInv, TypeOK
<1> QED BY <1>1, SwapForward DEF InFlight, Terminal

\* The receipt a worker holds, and what it may be replaced by.
LEMMA HeldForward ==
  ASSUME TurnInv, NEW b \in Bridges, NEW e \in Events, NEW r \in Receipts, NEW u \in Receipts,
         r = work[b][e].held, Transition(e, r, u), r.state \notin Terminal,
         r.thread # None => u.thread = r.thread
  PROVE  \A f \in Events : Forward(f)
<1>1. rcpt[e] = r /\ Transition(e, rcpt[e], u) BY DEF Transition
<1> QED BY <1>1, SwapForward

LEMMA RequestForward ==
  ASSUME TurnInv, NEW b \in Bridges, Request(b), rcpt' # rcpt
  PROVE  \A f \in Events : Forward(f)
<1>0. PICK e \in Events : req[b] # None /\ e = req[b].event
  BY DEF TurnInv, TypeOK, Requests, Request, Classify, SubmitNew, CreateReceipt, SubmitAgain
<1>1. CASE Classify(b) BY <1>0, <1>1, UncertainForward DEF Classify, Orphan
<1>2. ASSUME NEW capability \in Capability, SubmitNew(b, capability)
      PROVE  \A f \in Events : Forward(f)
  BY <1>0, <1>2, TurnConstants
  DEF SubmitNew, CreateReceipt, Transition, Forward, Settled, TurnInv, TypeOK
<1>3. ASSUME NEW capability \in Capability, SubmitAgain(b, capability)
      PROVE  \A f \in Events : Forward(f)
  <2>1. PICK r \in Receipts : r = req[b].held /\ r.state \in {"pending", "failed_safe"}
    BY <1>0, <1>3 DEF TurnInv, TypeOK, Requests, SubmitAgain
  <2>2. PICK u : u \in {InState(r, "blocked"), InState(r, "failed_safe"), Retried(r)}
                 /\ (u = Retried(r) => MayRetry(r) \/ u = InState(r, "blocked")
                                         \/ u = InState(r, "failed_safe"))
                 /\ Transition(e, r, u)
    BY <1>0, <1>3, <2>1 DEF SubmitAgain
  <2>3. u \in Receipts /\ u.thread = r.thread
    BY <2>1, <2>2, ReceiptUpdate, RetriedReceipt DEF States, Terminal
  <2>4. rcpt[e] = r /\ Transition(e, rcpt[e], u) BY <2>2 DEF Transition
  <2> QED BY <2>1, <2>3, <2>4, SwapForward DEF Terminal
<1> QED BY <1>1, <1>2, <1>3 DEF Request

LEMMA WorkerForward ==
  ASSUME TurnInv, NEW b \in Bridges, NEW e \in Events, Worker(b, e), rcpt' # rcpt
  PROVE  \A f \in Events : Forward(f)
<1> DEFINE v == work[b][e]
<1>0. v \in Workers /\ WorkerInv(b, e) BY DEF TurnInv, TypeOK
<1>1. CASE TakeOther(b, e) BY <1>1, UncertainForward DEF TakeOther, Orphan
<1>2. CASE CheckBlocked(b, e)
  <2>1. PICK r \in Receipts : r = v.held /\ r.state = "pending"
    BY <1>0, <1>2 DEF CheckBlocked, At, Workers, WorkerInv, Holds
  <2>2. PICK u \in Receipts : u = InState(r, "blocked") /\ u.thread = r.thread
    BY ReceiptUpdate DEF States, Terminal
  <2>3. Transition(e, r, u) BY <1>2, <2>1, <2>2 DEF CheckBlocked
  <2> QED BY <2>1, <2>2, <2>3, HeldForward DEF Terminal
<1>3. CASE Execute(b, e)
  <2>1. PICK r \in Receipts : r = v.held /\ r.state = "pending"
    BY <1>0, <1>3 DEF Execute, At, Workers, WorkerInv, Holds
  <2>2. PICK u \in Receipts : u = Owned(r, "starting", b) /\ u.thread = r.thread
    BY OwnedReceipt DEF States, InFlight
  <2>3. Transition(e, r, u) BY <1>3, <2>1, <2>2 DEF Execute
  <2> QED BY <2>1, <2>2, <2>3, HeldForward DEF Terminal
<1>4. CASE SpawnFails(b, e)
  <2>1. v.pc = "spawn" BY <1>4 DEF SpawnFails, At
  <2>2. PICK r \in Receipts : r = v.held /\ r.state \in InFlight
    BY <1>0, <2>1 DEF Workers, WorkerInv, Holds, ActingSteps, InFlight
  <2>3. PICK u \in Receipts : u = Released(r, "failed_safe") /\ u.thread = r.thread
    BY ReceiptUpdate DEF States
  <2>4. Transition(e, r, u) BY <1>4, <2>2, <2>3 DEF SpawnFails
  <2> QED BY <2>2, <2>3, <2>4, HeldForward DEF Terminal, InFlight
<1>5. CASE PublishRunning(b, e)
  <2>1. v.pc = "spawn" BY <1>5 DEF PublishRunning, At
  <2>2. PICK r \in Receipts : r = v.held /\ r.state \in InFlight
    BY <1>0, <2>1 DEF Workers, WorkerInv, Holds, ActingSteps, InFlight
  <2>3. PICK u \in Receipts : u = InState(r, "running") /\ u.thread = r.thread
    BY ReceiptUpdate DEF States, InFlight
  <2>4. Transition(e, r, u) BY <1>5, <2>2, <2>3 DEF PublishRunning
  <2> QED BY <2>2, <2>3, <2>4, HeldForward DEF Terminal, InFlight
<1>6. CASE ThreadStarted(b, e)
  <2>1. rcpt[e] \in Receipts /\ nextHand \in Threads
    BY <1>0, <1>6 DEF ThreadStarted, At, TurnInv, TypeOK, WorkerInv, HasReceipt, Acting, ActingSteps
  <2>2. /\ Transition(e, rcpt[e], Named(rcpt[e], nextHand))
        /\ rcpt[e].state = "running" /\ rcpt[e].thread = None
    BY <1>6 DEF ThreadStarted
  <2>3. PICK u \in Receipts : u = Named(rcpt[e], nextHand) BY <2>1, NamedReceipt
  <2> QED BY <2>1, <2>2, <2>3, SwapForward DEF Terminal
<1>7. CASE TurnEnds(b, e)
  <2>1. v.pc = "ended" BY <1>7 DEF TurnEnds, At
  <2>2. PICK r \in Receipts : r = v.held /\ r.state \in InFlight
    BY <1>0, <2>1 DEF Workers, WorkerInv, Holds, ActingSteps, InFlight
  <2>3. PICK u \in Receipts : u = Named(r, v.hand) BY <1>0, NamedReceipt DEF Workers
  <2>4. Transition(e, r, u) /\ r.thread = None BY <1>7, <2>2, <2>3 DEF TurnEnds
  <2> QED BY <2>2, <2>3, <2>4, HeldForward DEF Terminal, InFlight
<1>8. CASE Complete(b, e)
  <2>1. v.pc = "complete" BY <1>8 DEF Complete, At
  <2>2. PICK r \in Receipts : /\ r = v.held /\ r.state \in InFlight
                              /\ r.thread # None => v.hand = r.thread
    BY <1>0, <2>1 DEF Workers, WorkerInv, Holds, ActingSteps, InFlight
  <2>3. PICK x \in Receipts : x = Released(r, "completed") BY ReceiptUpdate DEF States, Terminal
  <2>4. PICK u \in Receipts : u = Named(x, v.hand) /\ u.thread = v.hand
    <3>1. v.hand \in Threads \cup {None} BY <1>0 DEF Workers
    <3>2. Named(x, v.hand) \in Receipts /\ Named(x, v.hand).thread = v.hand
      BY <3>1, NamedReceipt
    <3> QED BY <3>2
  <2>5. Transition(e, r, u) BY <1>8, <2>2, <2>3, <2>4 DEF Complete
  <2> QED BY <2>2, <2>4, <2>5, HeldForward DEF Terminal, InFlight
<1>9. CASE MarkUncertain(b, e)
  <2>1. rcpt[e] # None /\ rcpt[e].state \in InFlight /\ Transition(e, rcpt[e], Uncertain(rcpt[e]))
    BY <1>0, <1>9 DEF MarkUncertain, At, WorkerInv, Holds
  <2> QED BY <2>1, UncertainForward
<1>10. CASE Recover(b, e)
  BY <1>0, <1>10, UncertainForward DEF Recover, At, WorkerInv, HasReceipt
<1>11. CASE Contended(b, e)
  <2>1. CASE rcpt[e] # None /\ rcpt[e].state = "pending"
    <3>1. PICK u \in Receipts : u = InState(rcpt[e], "failed_safe") /\ u.thread = rcpt[e].thread
      BY <2>1, ReceiptUpdate DEF States, TurnInv, TypeOK
    <3>2. Transition(e, rcpt[e], u) BY <1>11, <2>1, <3>1 DEF Contended
    <3> QED BY <2>1, <3>1, <3>2, SwapForward DEF Terminal
  <2>2. CASE ~(rcpt[e] # None /\ rcpt[e].state = "pending")
    BY <1>11, <2>2, UncertainForward DEF Contended, Orphan
  <2> QED BY <2>1, <2>2
<1> QED
  BY <1>1, <1>2, <1>3, <1>4, <1>5, <1>6, <1>7, <1>8, <1>9, <1>10, <1>11
  DEF Worker, TakePending, LockContended, CheckCurrent, ExecuteLost, Deliver, ChildEnds,
      Verify, WriteFault, SettleFails, End

LEMMA NextForward ==
  ASSUME TurnInv, [Next]_vars
  PROVE  \A f \in Events : Forward(f)
<1>1. CASE rcpt' = rcpt BY <1>1 DEF Forward
<1>2. CASE rcpt' # rcpt
  <2>1. \/ \E b \in Bridges, e \in Events : Worker(b, e)
        \/ \E b \in Bridges : Request(b)
    BY <1>2 DEF Next, vars, Poll, Submit, BridgeDies, OperatorDecides, HandDecides, CanonEdited
  <2> QED BY <1>2, <2>1, WorkerForward, RequestForward
<1> QED BY <1>1, <1>2

\* No writer of a receipt, however late its compare-and-swap, changes a final state or
\* drops or replaces the hand that is on record.
THEOREM ReceiptsMonotone == Spec => ReceiptMonotone
<1>1. TurnInv /\ [Next]_vars =>
        [\A e \in Events :
           /\ Settled(e) => rcpt'[e] = rcpt[e]
           /\ rcpt[e] # None /\ rcpt[e].thread # None => rcpt'[e].thread = rcpt[e].thread]_vars
  BY NextForward DEF Forward
<1> QED BY <1>1, Invariance, PTL DEF Spec, ReceiptMonotone
=============================================================================
