---------------------------- MODULE BridgeServer ----------------------------
(* The local Bridge (bridge.py): a detached server that one receipt names,
   the commands that open, inspect and stop it, and the requests by which a
   page queues an answer of the person's review.  A process is named by its
   number, which another program may take once the process is gone. *)
EXTENDS HostFaults, Sequences, FiniteSets

CONSTANTS MaxProcs,     \* bound on Bridge processes ever started
          MaxRoots,     \* bound on directories the vault's path ever named
          MaxSteps,     \* bound on steps of the person's review
          Tabs,         \* pages of the Bridge that are open
          NoReceipt

ASSUME BridgeAssumption == NoReceipt \notin [pid : Nat, root : Nat]

VARIABLES procs,        \* the processes: [pc, by, root, mute]
          receipt,      \* bridge-state.json: [pid, root], or a damaged file
          command,      \* the command that holds bridge.lock: [pc, kind, seen, child, says]
          root,         \* the directory the vault's path names
          review,       \* [state, step, session] of the person's review
          queue,        \* the control queue of the vault
          tabs          \* the page and the request of each tab

lvars == <<procs, receipt, command>>
qvars == <<review, queue, tabs>>
bridgeVars == <<lvars, root, qvars, odds, meddled>>

Garbled == [pid |-> 0, root |-> 0]

-----------------------------------------------------------------------------
(* A process.  bridge-instance.lock admits one; SIGTERM ends it wherever it
   is, an interrupt lets it clean up. *)
Starting(by) == [pc |-> "starting", by |-> by, root |-> 0, mute |-> FALSE]
Holds(n) == procs[n].pc \in {"bound", "serving", "closing"}
InstanceFree == \A n \in DOMAIN procs : ~Holds(n)
ProcAt(n, pc) == procs' = [procs EXCEPT ![n].pc = pc]

ServeManually ==
  /\ Len(procs) < MaxProcs /\ procs' = Append(procs, Starting("person"))
  /\ UNCHANGED <<receipt, command, root, qvars, odds, meddled>>

(* serve_bridge: the lock without waiting, the vault's root captured, the
   port bound, then the receipt. *)
BindServer(n) ==
  /\ procs[n].pc = "starting"
  /\ IF InstanceFree
     THEN procs' = [procs EXCEPT ![n].pc = "bound", ![n].root = root]
     ELSE ProcAt(n, "dead")
  /\ UNCHANGED <<receipt, command, root, qvars, odds, meddled>>

WriteState(n) ==
  /\ procs[n].pc = "bound" /\ ProcAt(n, "serving")
  /\ receipt' = [pid |-> n, root |-> procs[n].root]
  /\ UNCHANGED <<command, root, qvars, odds, meddled>>

Interrupt(n) ==
  /\ procs[n].pc = "serving" /\ procs[n].by = "person" /\ ProcAt(n, "closing")
  /\ UNCHANGED <<receipt, command, root, qvars, odds, meddled>>

Close(n) ==
  /\ procs[n].pc = "closing" /\ ProcAt(n, "dead")
  /\ receipt' = IF receipt # NoReceipt /\ receipt.pid \in {n, 0} THEN NoReceipt ELSE receipt
  /\ UNCHANGED <<command, root, qvars, odds, meddled>>

(* A process dies, hangs or answers again; its number is taken by another
   program, but not while a parent has still to collect it, nor within the
   instant between a verified answer and the signal. *)
ProcessMoves(n) ==
  /\ \/ procs[n].pc \in {"starting", "bound", "serving", "closing"} /\ Odd /\ ProcAt(n, "dead")
     \/ procs[n].pc = "serving" /\ Odd /\ procs' = [procs EXCEPT ![n].mute = ~@]
     \/ /\ procs[n].pc = "dead" /\ Odd /\ ProcAt(n, "foreign")
        /\ command.child # n /\ ~(command.pc = "signal" /\ command.seen.pid = n)
  /\ UNCHANGED <<receipt, command, root, qvars, meddled>>

-----------------------------------------------------------------------------
(* The commands, one at a time under bridge.lock. *)
NoCommand(says) == [pc |-> "idle", kind |-> "none", seen |-> NoReceipt, child |-> 0, says |-> says]
Ends(says) == command' = [NoCommand(says) EXCEPT !.seen = command.seen, !.kind = command.kind]
Then(pc) == command' = [command EXCEPT !.pc = pc]

BeginCommand ==
  /\ command.pc = "idle"
  /\ \E kind \in {"open", "stop", "status"} :
       command' = [NoCommand("working") EXCEPT !.kind = kind, !.pc = "load"]
  /\ UNCHANGED <<procs, receipt, root, qvars, odds, meddled>>

(* _load_state_safely: a damaged receipt is discarded. *)
LoadState ==
  /\ command.pc = "load"
  /\ IF receipt = Garbled
     THEN receipt' = NoReceipt /\ command' = [command EXCEPT !.pc = "absent", !.seen = NoReceipt]
     ELSE /\ UNCHANGED receipt
          /\ command' = [command EXCEPT !.seen = receipt,
                                        !.pc = IF receipt = NoReceipt THEN "absent" ELSE "probe"]
  /\ UNCHANGED <<procs, root, qvars, odds, meddled>>

PidAlive(n) == procs[n].pc # "dead"

\* What _probe_health learns: a foreign program does not listen there, a
\* process that closed its port refuses, one that hangs does not answer.
Health(n) ==
  CASE procs[n].pc = "serving" /\ ~procs[n].mute -> "response"
    [] procs[n].pc = "serving" /\ procs[n].mute -> "unavailable"
    [] procs[n].pc # "serving" -> "refused"

\* Mutant: a process that does not answer in time is taken for a stale receipt.
JudgedImpatient(n) == IF PidAlive(n) /\ Health(n) = "response" THEN "running" ELSE "stale"
(* _current_state and the same judgement in _stop_bridge_locked. *)
Judged(n) ==
  IF PidAlive(n) /\ Health(n) = "unavailable" THEN "unavailable"
  ELSE IF PidAlive(n) /\ Health(n) = "response" THEN "running" ELSE "stale"

Probe ==
  /\ command.pc = "probe"
  /\ LET verdict == Judged(command.seen.pid) IN
       CASE verdict = "unavailable" -> Ends("unavailable")
         [] verdict = "stale" -> Then("remove")
         [] verdict = "running" ->
              CASE command.kind = "stop" -> Then("signal")
                [] command.kind = "status" -> Ends("running")
                [] command.kind = "open" ->
                     Ends(IF command.seen.root = root THEN "running" ELSE "refused")
  /\ UNCHANGED <<procs, receipt, root, qvars, odds, meddled>>

(* _remove_state_if_owned reads the receipt and then unlinks its path; a
   server of the person's may write its own receipt in between. *)
RereadReceipt ==
  /\ command.pc = "remove"
  /\ Then(IF receipt \in {command.seen, Garbled} THEN "unlink" ELSE "absent")
  /\ UNCHANGED <<procs, receipt, root, qvars, odds, meddled>>

Unlink ==
  /\ command.pc = "unlink" /\ receipt' = NoReceipt /\ Then("absent")
  /\ UNCHANGED <<procs, root, qvars, odds, meddled>>

(* Nothing runs: open discards whatever receipt there is and starts a child. *)
Conclude ==
  /\ command.pc = "absent"
  /\ IF command.kind # "open"
     THEN Ends("not running") /\ UNCHANGED <<procs, receipt>>
     ELSE /\ Len(procs) < MaxProcs
          /\ receipt' = NoReceipt /\ procs' = Append(procs, Starting("open"))
          /\ command' = [command EXCEPT !.pc = "wait", !.child = Len(procs) + 1]
  /\ UNCHANGED <<root, qvars, odds, meddled>>

Signal ==
  /\ command.pc = "signal" /\ ProcAt(command.seen.pid, "dead") /\ Then("stopped")
  /\ UNCHANGED <<receipt, root, qvars, odds, meddled>>

\* The process went on for three seconds: its receipt stays.
SignalIgnored ==
  /\ command.pc = "signal" /\ Odd /\ Ends("unavailable")
  /\ UNCHANGED <<procs, receipt, root, qvars, meddled>>

Stopped ==
  /\ command.pc = "stopped" /\ Ends("not running")
  /\ receipt' = IF receipt \in {command.seen, Garbled} THEN NoReceipt ELSE receipt
  /\ UNCHANGED <<procs, root, qvars, odds, meddled>>

(* _wait_for_state, then the child's health and vault; a child that is not
   the one expected is ended. *)
AwaitState ==
  /\ command.pc = "wait"
  /\ \/ /\ receipt # NoReceipt /\ receipt.pid = command.child
        /\ Health(command.child) = "response" /\ procs[command.child].root = root
        /\ Ends("running") /\ UNCHANGED <<procs, receipt, odds>>
     \/ /\ receipt # NoReceipt /\ receipt.pid = command.child
        /\ Health(command.child) # "response" \/ procs[command.child].root # root
        /\ ProcAt(command.child, "dead") /\ receipt' = NoReceipt
        /\ Ends("failed") /\ UNCHANGED odds
     \/ /\ procs[command.child].pc = "dead" /\ Ends("failed") /\ UNCHANGED <<procs, receipt, odds>>
     \/ Odd /\ ProcAt(command.child, "dead") /\ Ends("failed") /\ UNCHANGED receipt
  /\ UNCHANGED <<root, qvars, meddled>>

CommandDies ==
  /\ command.pc # "idle" /\ Odd /\ command' = NoCommand("died")
  /\ UNCHANGED <<procs, receipt, root, qvars, meddled>>

-----------------------------------------------------------------------------
(* The requests.  An event of the queue names what it answers and the vault
   of the server that took it. *)
Event(subject, step, by) == [subject |-> subject, step |-> step, by |-> by, decided |-> FALSE]
Pending == {i \in DOMAIN queue : ~queue[i].decided}
NoPage == [pc |-> "idle", rev |-> 0, step |-> 0, at |-> 0, seen |-> NoReceipt,
           server |-> 0]
\* A review is started once and answered under the session it became.
Subject(r) == IF r.state = "available" THEN 0 ELSE r.session

\* _require_current_vault_identity of the server a page talks to.
Serves(n) == procs[n].pc = "serving" /\ ~procs[n].mute
SameVault(n) == Serves(n) /\ procs[n].root = root

\* _project_portfolio: what a snapshot shows of the review.
Shown == review

Reload(t) ==
  /\ tabs[t].pc = "idle"
  /\ \E n \in DOMAIN procs : SameVault(n)
       /\ tabs' = [tabs EXCEPT ![t] = [NoPage EXCEPT !.rev = Len(queue), !.step = Shown.step,
                                                     !.at = root, !.server = n]]
  /\ UNCHANGED <<lvars, root, review, queue, odds, meddled>>

(* _append_control: identity, then a snapshot before the append. *)
Post(t) ==
  /\ tabs[t].pc = "idle" /\ tabs[t].server # 0 /\ SameVault(tabs[t].server)
  /\ tabs' = [tabs EXCEPT ![t].pc = "snapshot", ![t].seen = Shown]
  /\ UNCHANGED <<lvars, root, review, queue, odds, meddled>>

\* _validate_guided_review_intent: the step the page shows, and no answer to
\* it that waits already.
Validated(t) ==
  /\ tabs[t].step = tabs[t].seen.step
  /\ \A i \in Pending : queue[i].subject # Subject(tabs[t].seen)

ReadOperations(t) ==
  /\ tabs[t].pc = "snapshot"
  /\ tabs' = [tabs EXCEPT ![t].pc =
                IF SameVault(tabs[t].server) /\ Validated(t) THEN "validated" ELSE "idle"]
  /\ UNCHANGED <<lvars, root, review, queue, odds, meddled>>

\* The queue's compare-and-swap, pinned to the server's vault.
QueueAsKnown(t) == SameVault(tabs[t].server) /\ tabs[t].rev = Len(queue) /\ tabs[t].at = root

AppendControl(t) ==
  /\ tabs[t].pc = "validated"
  /\ tabs' = [tabs EXCEPT ![t].pc = "idle"]
  /\ queue' = IF QueueAsKnown(t)
              THEN Append(queue, Event(Subject(tabs[t].seen), tabs[t].step,
                                       procs[tabs[t].server].root))
              ELSE queue
  /\ UNCHANGED <<lvars, root, review, odds, meddled>>

(* A request ends with its server. *)
RequestLost(t) ==
  /\ tabs[t].pc # "idle" /\ ~Serves(tabs[t].server)
  /\ tabs' = [tabs EXCEPT ![t] = NoPage]
  /\ UNCHANGED <<lvars, root, review, queue, odds, meddled>>

(* Codex decides a pending answer and the review goes on. *)
Decide ==
  /\ review.step < MaxSteps
  /\ \E i \in Pending, s \in {"available", "active", "paused"} :
       /\ queue' = [queue EXCEPT ![i].decided = TRUE]
       /\ review' = [state |-> s, step |-> review.step + 1,
                     session |-> IF review.state = "available" THEN review.step ELSE review.session]
  /\ UNCHANGED <<lvars, root, tabs, odds, meddled>>

(* Another directory is put at the vault's path, or the receipt is damaged. *)
Replaced ==
  /\ Odd
  /\ \/ /\ root < MaxRoots /\ root' = root + 1 /\ queue' = <<>>
        /\ review' = [state |-> "available", step |-> 1, session |-> 1]
        /\ UNCHANGED <<receipt, meddled>>
     \/ receipt # NoReceipt /\ receipt' = Garbled /\ meddled' = TRUE /\ UNCHANGED <<root, queue, review>>
  /\ UNCHANGED <<procs, command, tabs>>

-----------------------------------------------------------------------------
Serving == [pc |-> "serving", by |-> "open", root |-> 1, mute |-> FALSE]

\* Nothing runs, or the Bridge of the vault does.
ServerInit ==
  /\ \/ procs = <<>> /\ receipt = NoReceipt
     \/ procs = <<Serving>> /\ receipt = [pid |-> 1, root |-> 1]
  /\ command = NoCommand("nothing") /\ root = 1
  /\ review = [state |-> "available", step |-> 1, session |-> 1] /\ queue = <<>>
  /\ tabs = [t \in Tabs |-> NoPage]
  /\ FaultsInit

LifecycleNext ==
  \/ ServeManually \/ BeginCommand \/ LoadState \/ Probe \/ RereadReceipt \/ Unlink
  \/ Conclude \/ Signal \/ SignalIgnored \/ Stopped \/ AwaitState \/ CommandDies \/ Replaced
  \/ \E n \in DOMAIN procs : BindServer(n) \/ WriteState(n) \/ Interrupt(n) \/ Close(n) \/ ProcessMoves(n)

RequestNext ==
  \/ Decide \/ Replaced \/ \E n \in DOMAIN procs : ProcessMoves(n)
  \/ \E t \in Tabs : \/ Reload(t) \/ Post(t) \/ ReadOperations(t) \/ AppendControl(t)
                     \/ RequestLost(t)

BridgeSpec == ServerInit /\ [][LifecycleNext \/ RequestNext]_bridgeVars

-----------------------------------------------------------------------------
\* A stop that reports nothing running is right about the process its receipt
\* named, so an update may move the environment; whatever hung, died or was
\* replaced meanwhile, the process is not serving any more
\* (_stop_bridge_locked; update.py relies on it).
StopHonest ==
  (command.kind = "stop" /\ command.says = "not running" /\ command.seen # NoReceipt)
     => procs[command.seen.pid].pc # "serving"

\* One answer waits for each step of the review, from however many pages it
\* was given at once, and every answer is in the vault whose page was shown
\* (_append_control, _validate_guided_review_intent).
AnsweredOnce ==
  /\ \A i, j \in Pending : queue[i].subject = queue[j].subject => i = j
  /\ \A i \in DOMAIN queue : queue[i].by = root

(* A stop reports what happened to the process its receipt names, and each
   question of the review has one answer, in the vault it was asked about. *)
BridgeHonest == StopHonest /\ AnsweredOnce
=============================================================================
