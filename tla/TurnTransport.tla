---------------------------- MODULE TurnTransport ----------------------------
(***************************************************************************)
(* CodexTurnCoordinator: one guided-review event is delivered to one Codex
   hand through a one-shot child process.  A Bridge instance answers HTTP
   requests (submit, poll) and runs a worker thread per scheduled event;
   the durable receipt of the event is the only thing instances share, and
   every change of it is a byte-exact compare-and-swap.  A START runs two
   children in turn (opening, then binding the hand it emitted), a RESUME
   one.  Instances die, children outlive them, hands write the vault and
   disposition the event on their own. *)
(***************************************************************************)
EXTENDS Naturals, FiniteSets

CONSTANTS
  Bridges,      \* Bridge instances; a restart is another instance
  Modes,        \* kinds of turn considered: "start", "resume"
  Events,       \* queued guided-review events
  None,         \* absent
  Operator,     \* whoever dispositions an event outside its turn
  MaxAttempts,  \* receipt.attempt bound (1 000 in submit)
  MaxOutside    \* bound: I/O faults, and canonical edits and decisions from outside

VARIABLES
  mode,         \* mode[e]: "start" or "resume"
  rcpt,         \* rcpt[e]: the durable receipt, or None
  up,           \* up[b]: the instance is alive
  req,          \* req[b]: the HTTP request b is serving, or None
  scheduled,    \* scheduled[b]: events with a local worker thread
  work,         \* work[b][e]: the worker of b for e
  wlock,        \* holder of .gsv/locks/guided-review-turn.lock
  prompts,      \* prompts[e][phase]: prompts written to a child
  hands,        \* hands[e]: threads that received a prompt for e
  decided,      \* decided[e]: the disposition in the operation ledger
  canon, sess,  \* canonical revision; that of the review-session task
  nextHand, outside

rest == <<mode, up, canon, sess, decided>>
vars == <<mode, rcpt, up, req, scheduled, work, wlock, prompts, hands, decided, canon,
          sess, nextHand, outside>>

InFlight == {"starting", "running"}
Terminal == {"completed", "delivery_uncertain", "blocked"}
States   == InFlight \cup Terminal \cup {"pending", "failed_safe"}
Phases   == {"opening", "binding", "resume"}
Threads  == Nat
Receipts == [state : States, attempt : 1 .. MaxAttempts, owner : Bridges \cup {None},
             thread : Threads \cup {None}, ctx : Nat]
Steps    == {"none", "lock", "check", "execute", "spawn", "deliver", "wait", "ended",
             "verify", "complete", "uncertain", "recover", "contended", "done"}
Requests == [kind : {"submit", "poll"}, event : Events, ctx : Nat,
             held : Receipts \cup {None}]
Workers  == [pc : Steps, held : Receipts \cup {None}, ctx : Nat, phase : Phases,
             hand : Threads \cup {None}, clean : BOOLEAN]
Decisions == [by : Threads \cup {Operator}, accepted : BOOLEAN, rev : Nat, well : BOOLEAN]
Capability == {"available", "unavailable", "disabled"}
Idle     == [pc |-> "none", held |-> None, ctx |-> 0, phase |-> "opening", hand |-> None,
             clean |-> FALSE]

ASSUME TurnConstants ==
  /\ IsFiniteSet(Bridges) /\ IsFiniteSet(Events) /\ Modes \subseteq {"start", "resume"}
  /\ None \notin Bridges \cup Nat /\ Operator \notin Nat /\ Operator # None
  /\ None \notin Receipts /\ None \notin Requests /\ None \notin Decisions
  /\ MaxAttempts \in Nat \ {0} /\ MaxOutside \in Nat

TypeOK ==
  /\ mode \in [Events -> Modes]
  /\ rcpt \in [Events -> Receipts \cup {None}]
  /\ up \in [Bridges -> BOOLEAN]
  /\ req \in [Bridges -> Requests \cup {None}]
  /\ scheduled \in [Bridges -> SUBSET Events]
  /\ work \in [Bridges -> [Events -> Workers]]
  /\ wlock \in Bridges \cup {None}
  /\ prompts \in [Events -> [Phases -> Nat]]
  /\ hands \in [Events -> SUBSET Threads]
  /\ decided \in [Events -> Decisions \cup {None}]
  /\ canon \in Nat /\ sess \in Nat /\ nextHand \in Threads
  /\ outside \in 0 .. MaxOutside

\* Thread 0 is the existing hand a RESUME addresses.
Init ==
  /\ mode \in [Events -> Modes]
  /\ rcpt = [e \in Events |-> None]
  /\ up = [b \in Bridges |-> TRUE]
  /\ req = [b \in Bridges |-> None]
  /\ scheduled = [b \in Bridges |-> {}]
  /\ work = [b \in Bridges |-> [e \in Events |-> Idle]]
  /\ wlock = None
  /\ prompts = [e \in Events |-> [p \in Phases |-> 0]]
  /\ hands = [e \in Events |-> {}]
  /\ decided = [e \in Events |-> None]
  /\ canon = 0 /\ sess = 0 /\ nextHand = 1 /\ outside = 0

-----------------------------------------------------------------------------
(* The receipt *)

\* Mutant: the receipt is overwritten whatever it holds now.
OverwriteReceipt(e, before, after) ==
  rcpt' = [rcpt EXCEPT ![e] = after]

\* _transition: compare_and_swap_regular_file under the control lock; ConflictError
\* when the bytes differ from the receipt the caller holds.
Transition(e, before, after) ==
  /\ rcpt[e] = before
  /\ rcpt' = [rcpt EXCEPT ![e] = after]

\* replace(receipt, **changes) of _transition: the next receipt of the same event.
InState(r, s)  == [r EXCEPT !.state = s]
Released(r, s) == [r EXCEPT !.state = s, !.owner = None]
Owned(r, s, b) == [r EXCEPT !.state = s, !.owner = b]
Retried(r)     == [r EXCEPT !.state = "pending", !.attempt = @ + 1]
Named(r, h)    == [r EXCEPT !.thread = h]
Uncertain(r)   == Released(r, "delivery_uncertain")

\* Mutant: the poller trusts the receipt's owner and not its own live workers.
OrphanByOwner(b, e, r) ==
  r # None /\ r.state \in InFlight /\ r.owner # b

\* receipt(): an in-flight receipt of another instance, or of a worker this instance
\* no longer runs.  The local schedule is read after the receipt.
Orphan(b, e, r) ==
  r # None /\ r.state \in InFlight /\ (r.owner # b \/ e \notin scheduled[b])

-----------------------------------------------------------------------------
(* HTTP requests *)

\* GET review-turn, and the Bridge snapshot: load the receipt.
Poll(b, e) ==
  /\ up[b] /\ req[b] = None /\ Orphan(b, e, rcpt[e])
  /\ req' = [req EXCEPT ![b] = [kind |-> "poll", event |-> e, ctx |-> 0,
                                held |-> rcpt[e]]]
  /\ UNCHANGED <<rest, rcpt, scheduled, work, wlock, prompts, hands, nextHand,
                 outside>>

\* POST review-turn: the event is pending and not settled by its receipt.
Submit(b, e) ==
  /\ up[b] /\ req[b] = None
  /\ decided[e] = None
  /\ rcpt[e] # None => rcpt[e].state \in InFlight \cup {"pending", "failed_safe"}
  /\ req' = [req EXCEPT ![b] = [kind |-> "submit", event |-> e, ctx |-> canon,
                                held |-> rcpt[e]]]
  /\ UNCHANGED <<rest, rcpt, scheduled, work, wlock, prompts, hands, nextHand,
                 outside>>

\* receipt() on the loaded receipt: classify an orphan; a lost swap is ConflictError.
Classify(b) ==
  LET q == req[b] IN
  /\ q # None /\ q.held # None /\ q.held.state \in InFlight
  /\ IF Orphan(b, q.event, q.held) /\ rcpt[q.event] = q.held
     THEN Transition(q.event, q.held, Uncertain(q.held))
     ELSE UNCHANGED rcpt
  /\ req' = [req EXCEPT ![b] = None]
  /\ UNCHANGED <<rest, scheduled, work, wlock, prompts, hands, nextHand, outside>>

\* The worker of b for e is w from now on.
Becomes(b, e, w) == work' = [work EXCEPT ![b][e] = w]

\* _schedule: one local worker per event.
Schedule(b, e, ctx) ==
  IF e \in scheduled[b]
  THEN UNCHANGED <<scheduled, work>>
  ELSE /\ scheduled' = [scheduled EXCEPT ![b] = @ \cup {e}]
       /\ Becomes(b, e, [Idle EXCEPT !.pc = "lock", !.ctx = ctx])

\* _create_receipt: only where there is none.
CreateReceipt(e, new) == rcpt[e] = None /\ Transition(e, None, new)

\* submit without a receipt: one another instance published meanwhile stays; a
\* disabled feature leaves nothing behind.
SubmitNew(b, capability) ==
  LET q   == req[b]
      e   == q.event
      new == [state |-> IF capability = "available" THEN "pending" ELSE "blocked",
              attempt |-> 1, owner |-> None, ctx |-> q.ctx,
              thread |-> IF mode[e] = "resume" THEN 0 ELSE None]
  IN
  /\ q # None /\ q.kind = "submit" /\ q.held = None
  /\ \/ /\ capability # "disabled" /\ CreateReceipt(e, new)
        /\ IF new.state = "pending" THEN Schedule(b, e, q.ctx)
                                    ELSE UNCHANGED <<scheduled, work>>
     \/ /\ rcpt[e] # None /\ rcpt[e].ctx = q.ctx /\ capability = "available"
        /\ Schedule(b, e, q.ctx)
        /\ UNCHANGED rcpt
     \/ /\ capability = "disabled" \/ (rcpt[e] # None /\ (rcpt[e].ctx # q.ctx
                                                \/ capability # "available"))
        /\ UNCHANGED <<rcpt, scheduled, work>>
  /\ req' = [req EXCEPT ![b] = None]
  /\ UNCHANGED <<rest, wlock, prompts, hands, nextHand, outside>>

\* The retry limit of submit (1 000 attempts).
MayRetry(r) == r.attempt < MaxAttempts

\* submit with a receipt that was never delivered: block it when the context moved,
\* fail it safe when the transport is unavailable, retry or resume it otherwise.
SubmitAgain(b, capability) ==
  LET q == req[b]
      e == q.event
      r == q.held
  IN
  /\ q # None /\ q.kind = "submit" /\ r # None /\ r.state \in {"pending", "failed_safe"}
  /\ \/ /\ r.ctx # q.ctx /\ r.state = "pending"
        /\ Transition(e, r, InState(r, "blocked"))
        /\ UNCHANGED <<scheduled, work>>
     \/ /\ r.ctx = q.ctx /\ capability # "available"
        /\ Transition(e, r, InState(r, "failed_safe"))
        /\ UNCHANGED <<scheduled, work>>
     \/ /\ r.ctx = q.ctx /\ capability = "available" /\ r.state = "failed_safe"
        /\ MayRetry(r)
        /\ Transition(e, r, Retried(r))
        /\ Schedule(b, e, q.ctx)
     \/ /\ r.ctx = q.ctx /\ capability = "available" /\ r.state = "pending"
        /\ Schedule(b, e, q.ctx)
        /\ UNCHANGED rcpt
     \/ \* ConflictError or the retry limit
        /\ \/ r.ctx # q.ctx /\ r.state = "failed_safe"
           \/ ~MayRetry(r) /\ r.state = "failed_safe"
           \/ rcpt[e] # r
        /\ UNCHANGED <<rcpt, scheduled, work>>
  /\ req' = [req EXCEPT ![b] = None]
  /\ UNCHANGED <<rest, wlock, prompts, hands, nextHand, outside>>

-----------------------------------------------------------------------------
(* The worker: _run_under_cross_process_lock *)

At(b, e, step) == up[b] /\ work[b][e].pc = step
Move(b, e, step) == Becomes(b, e, [work[b][e] EXCEPT !.pc = step])
Leave(b, e, step) == Becomes(b, e, [Idle EXCEPT !.pc = step])
Hold(b, e, step, r) == Becomes(b, e, [work[b][e] EXCEPT !.pc = step, !.held = r])

\* exclusive_file_lock with a quarter-second timeout; only a pending receipt goes on.
TakePending(b, e) ==
  /\ At(b, e, "lock") /\ wlock = None
  /\ rcpt[e] # None /\ rcpt[e].state = "pending"
  /\ wlock' = b
  /\ Hold(b, e, "check", rcpt[e])
  /\ UNCHANGED <<rest, rcpt, req, scheduled, prompts, hands, nextHand, outside>>

\* Anything else was settled by another worker, or is an orphan for receipt().
TakeOther(b, e) ==
  /\ At(b, e, "lock") /\ wlock = None
  /\ rcpt[e] # None => rcpt[e].state # "pending"
  /\ IF Orphan(b, e, rcpt[e]) THEN Transition(e, rcpt[e], Uncertain(rcpt[e]))
                              ELSE UNCHANGED rcpt
  /\ Leave(b, e, "done")
  /\ UNCHANGED <<rest, req, scheduled, wlock, prompts, hands, nextHand, outside>>

LockContended(b, e) ==
  /\ At(b, e, "lock") /\ wlock # None
  /\ Leave(b, e, "contended")
  /\ UNCHANGED <<rest, rcpt, req, scheduled, wlock, prompts, hands, nextHand, outside>>

\* The canonical revisions are still the submitted ones and the event is pending.
CheckCurrent(b, e) ==
  /\ At(b, e, "check") /\ canon = work[b][e].ctx /\ decided[e] = None
  /\ Move(b, e, "execute")
  /\ UNCHANGED <<rest, rcpt, req, scheduled, wlock, prompts, hands, nextHand, outside>>

\* Drift, an unreadable vault or ledger, or a disposition: blocked before delivery.  A
\* lost swap is ConflictError, which the outer handler treats as contention.
CheckBlocked(b, e) ==
  LET r == work[b][e].held IN
  /\ At(b, e, "check")
  /\ canon # work[b][e].ctx \/ decided[e] # None \/ outside < MaxOutside
  /\ outside' = IF canon # work[b][e].ctx \/ decided[e] # None THEN outside
                ELSE outside + 1
  /\ IF rcpt[e] = r
     THEN Transition(e, r, InState(r, "blocked")) /\ Leave(b, e, "done")
     ELSE UNCHANGED rcpt /\ Leave(b, e, "contended")
  /\ UNCHANGED <<rest, req, scheduled, wlock, prompts, hands, nextHand>>

\* _execute publishes STARTING with its owner before any child can exist.
Execute(b, e) ==
  LET r == Owned(work[b][e].held, "starting", b) IN
  /\ At(b, e, "execute")
  /\ Transition(e, work[b][e].held, r)
  /\ Becomes(b, e, [work[b][e] EXCEPT
                      !.pc = "spawn", !.held = r,
                      !.phase = IF mode[e] = "start" THEN "opening" ELSE "resume",
                      !.hand = IF mode[e] = "start" THEN None ELSE 0])
  /\ UNCHANGED <<rest, req, scheduled, wlock, prompts, hands, nextHand, outside>>

\* Mutant: a binding turn that cannot spawn passes for a pre-delivery failure.
SpawnFailsSafe(b, e) ==
  LET r == work[b][e].held IN
  /\ At(b, e, "spawn")
  /\ \/ /\ Transition(e, r, Released(r, "failed_safe"))
        /\ Leave(b, e, "done")
     \/ /\ rcpt[e] # r
        /\ Leave(b, e, "recover") /\ UNCHANGED rcpt
  /\ UNCHANGED <<rest, req, scheduled, wlock, prompts, hands, nextHand, outside>>

\* OSError before the child exists: safe to retry, except for the binding turn, which
\* follows a delivered opening turn.
SpawnFails(b, e) ==
  LET r == work[b][e].held IN
  /\ At(b, e, "spawn")
  /\ \/ /\ work[b][e].phase # "binding"
        /\ Transition(e, r, Released(r, "failed_safe"))
        /\ Leave(b, e, "done")
     \/ /\ work[b][e].phase # "binding" /\ rcpt[e] # r
        /\ Leave(b, e, "recover") /\ UNCHANGED rcpt
     \/ /\ work[b][e].phase = "binding"
        /\ Move(b, e, "uncertain") /\ UNCHANGED rcpt
  /\ UNCHANGED <<rest, req, scheduled, wlock, prompts, hands, nextHand, outside>>

\* The child is spawned and RUNNING is published (the binding turn is RUNNING already);
\* only then is the prompt written.  A lost swap or a failed write abandons the child
\* without its prompt.
PublishRunning(b, e) ==
  LET r == InState(work[b][e].held, "running") IN
  /\ At(b, e, "spawn")
  /\ \/ /\ work[b][e].held.state = "starting"
        /\ Transition(e, work[b][e].held, r)
        /\ Hold(b, e, "deliver", r)
     \/ /\ work[b][e].held.state = "running"
        /\ Move(b, e, "deliver") /\ UNCHANGED rcpt
     \/ /\ work[b][e].held.state = "starting" /\ rcpt[e] # work[b][e].held
        /\ Leave(b, e, "recover") /\ UNCHANGED rcpt
  /\ UNCHANGED <<rest, req, scheduled, wlock, prompts, hands, nextHand, outside>>

\* collect(): the prompt is written to the child's stdin.
Deliver(b, e) ==
  LET p == work[b][e].phase IN
  /\ At(b, e, "deliver")
  /\ prompts' = [prompts EXCEPT ![e][p] = @ + 1]
  /\ hands' = [hands EXCEPT ![e] = @ \cup ({work[b][e].hand} \ {None})]
  /\ Move(b, e, "wait")
  /\ UNCHANGED <<rest, rcpt, req, scheduled, wlock, nextHand, outside>>

\* thread.started: publish_started_thread records the hand while the child runs; an
\* error there is suppressed and the captured output still names the hand.
ThreadStarted(b, e) ==
  LET w == work[b][e]
      r == Named(rcpt[e], nextHand)
  IN
  /\ At(b, e, "wait") /\ w.phase = "opening" /\ w.hand = None
  /\ nextHand' = nextHand + 1
  /\ hands' = [hands EXCEPT ![e] = @ \cup {nextHand}]
  /\ \/ /\ rcpt[e].state = "running" /\ rcpt[e].thread = None
        /\ Transition(e, rcpt[e], r)
        /\ Becomes(b, e, [w EXCEPT !.hand = nextHand, !.held = r])
     \/ /\ Becomes(b, e, [w EXCEPT !.hand = nextHand])
        /\ UNCHANGED rcpt
  /\ UNCHANGED <<rest, req, scheduled, wlock, prompts, outside>>

\* The child ends, or the parent kills it at the turn timeout.
ChildEnds(b, e, clean) ==
  /\ At(b, e, "wait")
  /\ Becomes(b, e, [work[b][e] EXCEPT !.pc = "ended", !.clean = clean])
  /\ UNCHANGED <<rest, rcpt, req, scheduled, wlock, prompts, hands, nextHand, outside>>

\* What follows a turn: a clean opening turn with a hand is bound by a second turn, a
\* clean resumed turn is verified, anything else is uncertain.
AfterTurn(w, r) ==
  CASE ~w.clean \/ w.hand = None -> [Idle EXCEPT !.pc = "uncertain", !.held = r]
    [] w.clean /\ w.hand # None /\ w.phase = "opening" ->
         [w EXCEPT !.pc = "spawn", !.phase = "binding", !.held = r, !.clean = FALSE]
    [] OTHER -> [w EXCEPT !.pc = "verify", !.held = r]

\* After the opening turn the hand found in the output is recorded, if it was not.
TurnEnds(b, e) ==
  LET w == work[b][e]
      r == Named(w.held, w.hand)
      unnamed == w.phase = "opening" /\ w.hand # None /\ w.held.thread = None
  IN
  /\ At(b, e, "ended")
  /\ \/ /\ unnamed /\ Transition(e, w.held, r)
        /\ Becomes(b, e, AfterTurn(w, r))
     \/ /\ unnamed /\ rcpt[e] # w.held
        /\ Leave(b, e, "recover") /\ UNCHANGED rcpt
     \/ /\ ~unnamed
        /\ Becomes(b, e, AfterTurn(w, w.held)) /\ UNCHANGED rcpt
  /\ UNCHANGED <<rest, req, scheduled, wlock, prompts, hands, nextHand, outside>>

\* Mutant: any disposition of the event counts as the hand's.
EvidenceByAnyone(b, e) ==
  LET d == decided[e] IN
  d # None /\ IF d.accepted THEN d.well /\ sess = d.rev ELSE canon = work[b][e].ctx

\* _verify_semantic_result: the exact hand dispositioned the event; a rejection left the
\* canon alone, an acceptance names the current revision of a well-formed session.
Evidence(b, e) ==
  LET d == decided[e] IN
  /\ d # None /\ d.by = work[b][e].hand
  /\ IF d.accepted THEN d.well /\ sess = d.rev ELSE canon = work[b][e].ctx

Verify(b, e) ==
  /\ At(b, e, "verify")
  /\ Move(b, e, IF Evidence(b, e) THEN "complete" ELSE "uncertain")
  /\ UNCHANGED <<rest, rcpt, req, scheduled, wlock, prompts, hands, nextHand, outside>>

\* COMPLETED with evidence; a lost swap raises ConflictError.
Complete(b, e) ==
  LET r == work[b][e].held IN
  /\ At(b, e, "complete")
  /\ \/ /\ Transition(e, r, Named(Released(r, "completed"), work[b][e].hand))
        /\ Leave(b, e, "done")
     \/ /\ rcpt[e] # r
        /\ Leave(b, e, "recover") /\ UNCHANGED rcpt
  /\ UNCHANGED <<rest, req, scheduled, wlock, prompts, hands, nextHand, outside>>

\* _uncertain: a lost swap is swallowed, the receipt was settled by someone else.
MarkUncertain(b, e) ==
  LET r == work[b][e].held IN
  /\ At(b, e, "uncertain")
  /\ IF rcpt[e] = r THEN Transition(e, r, Uncertain(r)) ELSE UNCHANGED rcpt
  /\ Leave(b, e, "done")
  /\ UNCHANGED <<rest, req, scheduled, wlock, prompts, hands, nextHand, outside>>

\* Any receipt write may fail with an I/O error, which the worker meets as an exception.
WriteFault(b, e) ==
  /\ up[b] /\ outside < MaxOutside
  /\ work[b][e].pc \in {"execute", "spawn", "ended", "complete"}
  /\ outside' = outside + 1
  /\ Leave(b, e, "recover")
  /\ UNCHANGED <<rest, rcpt, req, scheduled, wlock, prompts, hands, nextHand>>

\* _record_unexpected_worker_failure: an in-flight receipt becomes uncertain, with the
\* hand it names now.
Recover(b, e) ==
  /\ At(b, e, "recover")
  /\ IF rcpt[e].state \in InFlight THEN Transition(e, rcpt[e], Uncertain(rcpt[e]))
                                   ELSE UNCHANGED rcpt
  /\ Leave(b, e, "done")
  /\ UNCHANGED <<rest, req, scheduled, wlock, prompts, hands, nextHand, outside>>

\* The settling write fails too and its error is swallowed: the receipt stays in flight
\* and the worker ends.
SettleFails(b, e) ==
  /\ up[b] /\ work[b][e].pc \in {"recover", "uncertain"}
  /\ outside < MaxOutside /\ outside' = outside + 1
  /\ Leave(b, e, "done")
  /\ UNCHANGED <<rest, rcpt, req, scheduled, wlock, prompts, hands, nextHand>>

\* The lost swap of _execute: the receipt was settled before the child was spawned.
ExecuteLost(b, e) ==
  /\ At(b, e, "execute") /\ rcpt[e] # work[b][e].held
  /\ Leave(b, e, "recover")
  /\ UNCHANGED <<rest, rcpt, req, scheduled, wlock, prompts, hands, nextHand, outside>>

\* Mutant: contention fails the receipt whatever its state.
ContendedAny(b, e) ==
  /\ At(b, e, "contended")
  /\ IF rcpt[e] # None /\ rcpt[e].state \notin Terminal
     THEN Transition(e, rcpt[e], Released(rcpt[e], "failed_safe"))
     ELSE UNCHANGED rcpt
  /\ Leave(b, e, "done")
  /\ UNCHANGED <<rest, req, scheduled, wlock, prompts, hands, nextHand, outside>>

\* except ConflictError: a receipt that is still pending failed before any spawn.
Contended(b, e) ==
  /\ At(b, e, "contended")
  /\ IF rcpt[e] # None /\ rcpt[e].state = "pending"
     THEN Transition(e, rcpt[e], InState(rcpt[e], "failed_safe"))
     ELSE IF Orphan(b, e, rcpt[e]) THEN Transition(e, rcpt[e], Uncertain(rcpt[e]))
                                   ELSE UNCHANGED rcpt
  /\ Leave(b, e, "done")
  /\ UNCHANGED <<rest, req, scheduled, wlock, prompts, hands, nextHand, outside>>

\* The lock is released and the event leaves the local schedule.
End(b, e) ==
  /\ At(b, e, "done")
  /\ wlock' = IF wlock = b THEN None ELSE wlock
  /\ scheduled' = [scheduled EXCEPT ![b] = @ \ {e}]
  /\ Becomes(b, e, Idle)
  /\ UNCHANGED <<rest, rcpt, req, prompts, hands, nextHand, outside>>

-----------------------------------------------------------------------------
(* Hands, people and process death *)

\* A hand that received a prompt dispositions its event through MCP; an acceptance
\* follows its canonical write.  Its process may outlive the Bridge.
HandDecides(e, h, accepted, well) ==
  /\ h \in hands[e] /\ decided[e] = None /\ (accepted \/ well)
  /\ canon' = IF accepted THEN canon + 1 ELSE canon
  /\ sess' = IF accepted THEN canon + 1 ELSE sess
  /\ decided' = [decided EXCEPT ![e] = [by |-> h, accepted |-> accepted, rev |-> sess',
                                        well |-> well]]
  /\ UNCHANGED <<mode, rcpt, up, req, scheduled, work, wlock, prompts, hands, nextHand,
                 outside>>

\* The operation-review link: someone else settles the intent.
OperatorDecides(e, accepted) ==
  /\ decided[e] = None /\ outside < MaxOutside /\ outside' = outside + 1
  /\ decided' = [decided EXCEPT ![e] = [by |-> Operator, accepted |-> accepted,
                                        rev |-> sess, well |-> TRUE]]
  /\ UNCHANGED <<mode, rcpt, up, req, scheduled, work, wlock, prompts, hands, canon, sess,
                 nextHand>>

\* Canonical records change outside the turn, the session task among them or not.
CanonEdited(session) ==
  /\ outside < MaxOutside /\ outside' = outside + 1
  /\ canon' = canon + 1
  /\ sess' = IF session THEN canon + 1 ELSE sess
  /\ UNCHANGED <<mode, rcpt, up, req, scheduled, work, wlock, prompts, hands, decided,
                 nextHand>>

\* An instance dies: its memory is gone, its lock is released, its children go on.
BridgeDies(b) ==
  /\ up[b] /\ \E c \in Bridges \ {b} : up[c]
  /\ up' = [up EXCEPT ![b] = FALSE]
  /\ req' = [req EXCEPT ![b] = None]
  /\ scheduled' = [scheduled EXCEPT ![b] = {}]
  /\ work' = [work EXCEPT ![b] = [e \in Events |-> Idle]]
  /\ wlock' = IF wlock = b THEN None ELSE wlock
  /\ UNCHANGED <<mode, rcpt, prompts, hands, decided, canon, sess, nextHand, outside>>

-----------------------------------------------------------------------------
Worker(b, e) ==
  \/ TakePending(b, e) \/ TakeOther(b, e) \/ LockContended(b, e)
  \/ CheckCurrent(b, e) \/ CheckBlocked(b, e) \/ Execute(b, e) \/ ExecuteLost(b, e)
  \/ SpawnFails(b, e) \/ PublishRunning(b, e) \/ Deliver(b, e) \/ ThreadStarted(b, e)
  \/ ChildEnds(b, e, TRUE) \/ ChildEnds(b, e, FALSE) \/ TurnEnds(b, e)
  \/ Verify(b, e) \/ Complete(b, e) \/ MarkUncertain(b, e) \/ WriteFault(b, e)
  \/ Recover(b, e) \/ SettleFails(b, e) \/ Contended(b, e) \/ End(b, e)

Request(b) ==
  \/ Classify(b)
  \/ \E c \in Capability : SubmitNew(b, c) \/ SubmitAgain(b, c)

Next ==
  \/ \E b \in Bridges, e \in Events : Worker(b, e) \/ Poll(b, e) \/ Submit(b, e)
  \/ \E b \in Bridges : Request(b) \/ BridgeDies(b)
  \/ \E e \in Events, accepted \in BOOLEAN :
       \/ OperatorDecides(e, accepted)
       \/ \E h \in hands[e], well \in BOOLEAN : HandDecides(e, h, accepted, well)
  \/ \E session \in BOOLEAN : CanonEdited(session)

Spec == Init /\ [][Next]_vars

\* Threads of a live instance run, its requests finish, and the browser keeps polling;
\* the turn timeout ends every child.
FairSpec ==
  /\ Spec
  /\ \A b \in Bridges : WF_vars(Request(b))
  /\ \A b \in Bridges, e \in Events : WF_vars(Worker(b, e)) /\ WF_vars(Poll(b, e))

-----------------------------------------------------------------------------
(* Properties *)

Settled(e) == rcpt[e] # None /\ rcpt[e].state \in Terminal
Flying(e)  == rcpt[e] # None /\ rcpt[e].state \in InFlight
Before(e)  == rcpt[e] = None \/ rcpt[e].state \in {"pending", "failed_safe", "blocked"}

\* No event is ever delivered twice: across instances, retries, contention, faults and
\* deaths each phase of a turn writes at most one prompt.
AtMostOnce == \A e \in Events, p \in Phases : prompts[e][p] <= 1

\* What a receipt calls safe to retry, or blocked before delivery, was never delivered.
SafeMeansUndelivered ==
  \A e \in Events : Before(e) => \A p \in Phases : prompts[e][p] = 0

\* completed, delivery_uncertain and blocked are final, and a hand a receipt names is
\* never dropped or replaced, whichever instance writes the receipt next.
ReceiptMonotone ==
  [][\A e \in Events :
       /\ Settled(e) => rcpt'[e] = rcpt[e]
       /\ rcpt[e] # None /\ rcpt[e].thread # None => rcpt'[e].thread = rcpt[e].thread]_vars

\* A completed receipt names the hand that really settled the event, and that hand was
\* addressed exactly once.
CompletedProven ==
  \A e \in Events :
    rcpt[e] # None /\ rcpt[e].state = "completed" =>
      /\ decided[e] # None /\ decided[e].by = rcpt[e].thread
      /\ rcpt[e].thread \in hands[e]
      /\ prompts[e][IF mode[e] = "start" THEN "binding" ELSE "resume"] = 1

\* An in-flight receipt is settled in the end, by its own worker or, when its instance
\* died, by another instance's poll.
InFlightSettles ==
  \A e \in Events : Flying(e) ~> ~Flying(e)
=============================================================================
