------------------------- MODULE UpdateTransaction -------------------------
(***************************************************************************)
(* The self-update transaction of update.py: apply, and recover after the
   updater died or gave up.  The host's durable state is three environment
   directories (active, previous, failed), the stable gsv link, the
   seld-recover launcher, the vault, the Bridge process, the native app
   and the transaction receipt.  One updater runs at a time: apply and
   recover hold both update locks from their first read to their return,
   and a death releases them.

   A step ends where a death would leave different durable state; a step
   that performs no fault is the code's normal path, and every abnormal
   outcome of a subprocess, a file operation or a receipt write spends one
   of MaxFaults.  The vault is its digest, a number; the updater holds the
   vault's writer lock from the protection of the digest to its audit. *)
(***************************************************************************)
EXTENDS Naturals

CONSTANTS
    MaxWrites,   \* vault writes by the user in a behaviour
    MaxFaults    \* deaths, failures and operator interventions in a behaviour

ASSUME UpdateAssumption == MaxWrites \in Nat /\ MaxFaults \in Nat

VARIABLES
    dir,         \* what each environment path holds
    gsv,         \* the stable gsv link exists
    seldRecover, \* the recovery launcher exists
    vault,       \* digest of the vault
    bridge,      \* revision the running Bridge was started from, or "none"
    app,         \* the native app: the revision it was built from, its ownership revision
    txn,         \* the transaction receipt
    pc,          \* next step of the running updater, "idle" when none runs
    loc,         \* the updater's locals
    proven,      \* the candidate has passed its health checks in this transaction
    tainted,     \* the vault holds bytes a setup wrote and nobody approved
    writes,      \* user writes so far
    faults       \* faults so far

host == <<dir, gsv, seldRecover, bridge, app>>
ghosts == <<proven, tainted>>
budget == <<writes, faults>>
vars == <<dir, gsv, seldRecover, vault, bridge, app, txn, pc, loc, proven,
          tainted, writes, faults>>

NoDigest == 0

Revisions == {"from", "to"}
Contents == Revisions \cup {"none", "partial"}
AuditedOutcomes == {"installed", "installed_bridge_repair", "rolled_back"}
TerminalOutcomes == AuditedOutcomes \cup {"repair_required"}

EarlyPhases == {"backing_up", "preflighting", "prepared"}
NativePhases == {"activating_native_bridge", "native_bridge_activated"}
NotDuringRecovery ==
    {"setting_up_candidate", "recovering"} \cup NativePhases

\* _candidate_may_have_started_bridge.
MayHaveStartedBridge ==
    {"setting_up_candidate", "verifying_candidate", "recovering"} \cup NativePhases
Phases ==
    EarlyPhases \cup MayHaveStartedBridge \cup
    {"absent", "stopping_bridge", "bridge_stopped", "preserving_previous",
     "previous_preserved", "candidate_installed", "restoring_previous",
     "previous_restored", "restoring_native_bridge", "native_bridge_restored",
     "complete"}

Paths == {"apply", "recover", "restored", "unchanged"}
CandidatePaths == {"apply", "recover"}

Steps ==
    {"idle", "backup", "preflight", "prepared", "stop", "preserve", "publish",
     "move_aside", "preserved", "install", "installed", "finish_candidate",
     "protect", "setup", "verify", "native", "native_status", "native_install",
     "native_record", "native_unchanged", "clean", "remove", "complete",
     "rollback", "stop_candidate", "adopt", "move_failed", "restoring",
     "move_back", "moved_back", "anchor", "link"}

\* Steps between the acquisition and the release of the vault's writer lock.
VaultLocked == {"setup", "verify"}

NoLocals == [path |-> "apply", rc |-> 0, seen |-> 0, err |-> FALSE]

NoTransaction ==
    [phase |-> "absent", outcome |-> "none", protected |-> NoDigest,
     recovery |-> "none", bridgeWas |-> FALSE, appWas |-> FALSE,
     revBefore |-> 0, rev |-> 0, launcher |-> FALSE]

TypeOK ==
    /\ dir \in [{"active", "previous", "failed"} -> Contents]
    /\ gsv \in BOOLEAN
    /\ seldRecover \in BOOLEAN
    /\ vault \in 1 .. (1 + MaxWrites + MaxFaults)
    /\ bridge \in Revisions \cup {"none"}
    /\ app \in [sha : Revisions \cup {"none"}, rev : Nat]
    /\ txn \in [phase : Phases, outcome : TerminalOutcomes \cup {"none"},
                protected : NoDigest .. (1 + MaxWrites + MaxFaults),
                recovery : {"none", "command", "reapproval"},
                bridgeWas : BOOLEAN, appWas : BOOLEAN,
                revBefore : Nat, rev : Nat, launcher : BOOLEAN]
    /\ pc \in Steps
    /\ loc \in [path : Paths, rc : {0, 4}, seen : Nat, err : BOOLEAN]
    /\ proven \in BOOLEAN
    /\ tainted \in BOOLEAN
    /\ writes \in 0 .. MaxWrites
    /\ faults \in 0 .. MaxFaults

----------------------------------------------------------------------------
\* The environments

\* _runtime_sha: the revision a directory's package provenance names.
Sha(slot) == IF dir[slot] \in Revisions THEN dir[slot] ELSE "none"

\* The revision the environment at the active path must have on a path.
Target(path) == IF path \in CandidatePaths THEN "to" ELSE "from"

\* What a user can start a fresh Seld process from: the gsv link, the
\* recovery launcher, or the command a repair_required result has printed,
\* which names a retained environment's interpreter.
Reachable ==
    \/ gsv /\ dir.active \in Revisions
    \/ /\ seldRecover \/ txn.outcome = "repair_required"
       /\ \E slot \in {"previous", "active"} : dir[slot] \in Revisions

\* _verify_external_launcher without repair.
LinkVerified == gsv /\ dir.active \in Revisions

Resolved ==
    \/ txn.phase = "absent"
    \/ txn.outcome \in {"installed", "rolled_back"} /\ txn.recovery = "none"

Init ==
    /\ dir = [active |-> "from", previous |-> "none", failed |-> "none"]
    /\ gsv = TRUE
    /\ seldRecover = FALSE
    /\ vault = 1
    /\ bridge \in {"none", "from"}
    /\ app \in {[sha |-> "none", rev |-> 0], [sha |-> "from", rev |-> 1]}
    /\ txn = NoTransaction
    /\ pc = "idle"
    /\ loc = NoLocals
    /\ proven = FALSE
    /\ tainted = FALSE
    /\ writes = 0
    /\ faults = 0

Fault == faults < MaxFaults /\ faults' = faults + 1

\* _advance_transaction with only a new phase, then on to the next step.
AdvanceTo(phase, step) ==
    /\ txn' = [txn EXCEPT !.phase = phase]
    /\ pc' = step

\* _mark_repair_required and _mark_vault_reapproval_required end the updater.
MarkRepair(recovery) ==
    /\ txn' = [txn EXCEPT !.phase = "complete", !.outcome = "repair_required",
                          !.recovery = recovery]
    /\ pc' = "idle"
    /\ loc' = NoLocals

\* What the handlers around a finishing path do with an exception: the
\* candidate is rolled back, a restored runtime is left for repair.
Throw ==
    IF loc.path \in CandidatePaths
    THEN pc' = "rollback" /\ UNCHANGED <<txn, loc>>
    ELSE MarkRepair("command")

----------------------------------------------------------------------------
\* apply

Apply ==
    /\ pc = "idle" /\ Resolved /\ dir.active = "from" /\ ~seldRecover
    /\ app.sha \in {"none", dir.active}
    /\ txn' = [NoTransaction EXCEPT
                 !.phase = "backing_up", !.bridgeWas = bridge # "none",
                 !.appWas = app.sha # "none", !.revBefore = app.rev, !.rev = app.rev]
    /\ pc' = "backup"
    /\ proven' = FALSE
    /\ UNCHANGED <<host, vault, loc, tainted, budget>>

\* The backup is created and verified; the receipt passes through
\* backed_up to preflighting, two early phases no reader tells apart.
Backup ==
    /\ pc = "backup"
    /\ AdvanceTo("preflighting", "preflight")
    /\ UNCHANGED <<host, vault, loc, ghosts, budget>>

Preflight ==
    /\ pc = "preflight"
    /\ AdvanceTo("prepared", "prepared")
    /\ UNCHANGED <<host, vault, loc, ghosts, budget>>

Prepared ==
    /\ pc = "prepared"
    /\ IF txn.bridgeWas THEN AdvanceTo("stopping_bridge", "stop")
                        ELSE AdvanceTo("bridge_stopped", "preserve")
    /\ UNCHANGED <<host, vault, loc, ghosts, budget>>

StopBridge ==
    /\ pc = "stop"
    /\ bridge' = "none"
    /\ AdvanceTo("bridge_stopped", "preserve")
    /\ UNCHANGED <<dir, gsv, seldRecover, app, vault, loc, ghosts, budget>>

\* stop_bridge found no Bridge to stop: the updater gives up.
StopBridgeAlreadyGone ==
    /\ pc = "stop" /\ Fault
    /\ bridge' = "none"
    /\ pc' = "rollback"
    /\ UNCHANGED <<dir, gsv, seldRecover, app, vault, txn, loc, ghosts, writes>>

Preserve ==
    /\ pc = "preserve"
    /\ IF Sha("active") = "from" /\ LinkVerified
       THEN /\ txn' = [txn EXCEPT !.phase = "preserving_previous",
                                  !.recovery = "command", !.launcher = TRUE]
            /\ pc' = "publish"
       ELSE pc' = "rollback" /\ UNCHANGED txn
    /\ UNCHANGED <<host, vault, loc, ghosts, budget>>

PublishNothing ==
    /\ pc = "publish"
    /\ pc' = "move_aside"
    /\ UNCHANGED <<host, vault, txn, loc, ghosts, budget>>

PublishLauncher ==
    /\ pc = "publish"
    /\ seldRecover' = TRUE
    /\ pc' = "move_aside"
    /\ UNCHANGED <<dir, gsv, bridge, app, vault, txn, loc, ghosts, budget>>

MoveAside ==
    /\ pc = "move_aside"
    /\ dir' = [dir EXCEPT !.active = "none", !.previous = dir.active]
    /\ pc' = "preserved"
    /\ UNCHANGED <<gsv, seldRecover, bridge, app, vault, txn, loc, ghosts, budget>>

PreviousPreserved ==
    /\ pc = "preserved"
    /\ AdvanceTo("previous_preserved", "install")
    /\ UNCHANGED <<host, vault, loc, ghosts, budget>>

InstallCandidate ==
    /\ pc = "install"
    /\ dir' = [dir EXCEPT !.active = "to"]
    /\ gsv' = TRUE
    /\ pc' = "installed"
    /\ UNCHANGED <<seldRecover, bridge, app, vault, txn, loc, ghosts, budget>>

\* uv stops somewhere between removing the old entry point and the end.
InstallInterrupted ==
    /\ pc = "install" /\ Fault
    /\ \E found \in {"none", "partial", "to"} : dir' = [dir EXCEPT !.active = found]
    /\ gsv' \in BOOLEAN
    /\ pc' = "rollback"
    /\ UNCHANGED <<seldRecover, bridge, app, vault, txn, loc, ghosts, writes>>

CandidateInstalled ==
    /\ pc = "installed"
    /\ AdvanceTo("candidate_installed", "finish_candidate")
    /\ UNCHANGED <<host, vault, loc, ghosts, budget>>

----------------------------------------------------------------------------
\* Finishing: the candidate, a restored runtime, or an unchanged one

FinishCandidate ==
    /\ pc = "finish_candidate"
    /\ IF LinkVerified
       THEN /\ AdvanceTo(IF loc.path = "recover" THEN "verifying_candidate"
                                                 ELSE "setting_up_candidate", "protect")
            /\ UNCHANGED loc
       ELSE Throw
    /\ UNCHANGED <<host, vault, ghosts, budget>>

\* _anchor_restored_runtime: called by the rollback, outside any handler,
\* and by _finish_restored, which finds the rollback's receipt in place.
AnchorRestored ==
    /\ pc \in {"moved_back", "anchor"}
    /\ txn' = [txn EXCEPT !.phase = "previous_restored", !.recovery = "command"]
    /\ pc' = "link"
    /\ UNCHANGED <<host, vault, loc, ghosts, budget>>

RequireLink ==
    /\ pc = "link"
    /\ IF gsv THEN pc' = "protect" /\ UNCHANGED <<txn, loc>>
              ELSE MarkRepair("command")
    /\ UNCHANGED <<host, vault, ghosts, budget>>

\* _verify_external_launcher with repair of a missing link.
RepairLink ==
    /\ pc = "link"
    /\ gsv' = TRUE
    /\ pc' = "protect"
    /\ UNCHANGED <<dir, seldRecover, bridge, app, vault, txn, loc, ghosts, budget>>

\* Takes the vault's writer lock and freezes the digest, or finds that the
\* vault has moved since an earlier attempt froze it.
ProtectVault ==
    /\ pc = "protect"
    /\ IF loc.path = "unchanged" /\ ~LinkVerified
       THEN MarkRepair("command")
       ELSE IF txn.protected \in {NoDigest, vault}
       THEN /\ txn' = [txn EXCEPT !.protected = vault]
            /\ pc' = IF loc.path = "unchanged" THEN "verify" ELSE "setup"
            /\ UNCHANGED loc
       ELSE IF loc.path = "apply" THEN Throw ELSE MarkRepair("reapproval")
    /\ UNCHANGED <<host, vault, ghosts, budget>>

\* setup reuses a running Bridge and starts one only when asked to.
StartedBridge ==
    IF txn.bridgeWas /\ bridge = "none" THEN dir.active ELSE bridge

Setup ==
    /\ pc = "setup"
    /\ bridge' = StartedBridge
    /\ loc' = [loc EXCEPT !.rc = 0]
    /\ pc' = "verify"
    /\ UNCHANGED <<dir, gsv, seldRecover, app, vault, txn, ghosts, budget>>

\* Exit code 4: the integration is committed, the Bridge did not start.
SetupBridgeRepair ==
    /\ pc = "setup" /\ txn.bridgeWas /\ Fault
    /\ IF loc.path \in CandidatePaths
       THEN loc' = [loc EXCEPT !.rc = 4] /\ pc' = "verify" /\ UNCHANGED txn
       ELSE MarkRepair("command")
    /\ UNCHANGED <<host, vault, ghosts, writes>>

\* Any other exit, possibly after the Bridge was started.
SetupFails ==
    /\ pc = "setup" /\ Fault
    /\ bridge' \in {bridge, StartedBridge}
    /\ Throw
    /\ UNCHANGED <<dir, gsv, seldRecover, app, vault, ghosts, writes>>

\* A setup that writes canonical vault bytes.
SetupWritesVault ==
    /\ pc = "setup" /\ Fault
    /\ vault' = vault + 1
    /\ tainted' = TRUE
    /\ bridge' = StartedBridge
    /\ loc' = [loc EXCEPT !.rc = 0]
    /\ pc' = "verify"
    /\ UNCHANGED <<dir, gsv, seldRecover, app, txn, proven, writes>>

\* _verify_active_runtime (_verify_repair_install after exit code 4).
RuntimeVerified ==
    /\ Sha("active") = Target(loc.path)
    /\ loc.rc = 0 => (bridge # "none") = txn.bridgeWas

\* _vault_audit.
VaultAudited == vault = txn.protected

Verify ==
    /\ pc = "verify"
    /\ IF RuntimeVerified /\ VaultAudited
       THEN /\ pc' = IF loc.path = "unchanged" THEN "native_unchanged" ELSE "native"
            /\ proven' = (proven \/ loc.path \in CandidatePaths)
            /\ UNCHANGED <<txn, loc>>
       ELSE Throw /\ UNCHANGED proven
    /\ UNCHANGED <<host, vault, tainted, budget>>

NativePhase(path) ==
    IF path \in CandidatePaths THEN "activating_native_bridge"
                               ELSE "restoring_native_bridge"

\* The end of _reconcile_native_bridge, and the step that follows it.
NativeReconciled(rev) ==
    /\ txn' = [txn EXCEPT
         !.phase = IF loc.path \in CandidatePaths THEN "native_bridge_activated"
                                                  ELSE "native_bridge_restored",
         !.rev = rev]
    /\ pc' = IF loc.path \in CandidatePaths THEN "clean" ELSE "remove"

BeginNative ==
    /\ pc = "native"
    /\ AdvanceTo(NativePhase(loc.path), "native_status")
    /\ UNCHANGED <<host, vault, loc, ghosts, budget>>

NativeStatus ==
    /\ pc = "native_status"
    /\ \/ /\ txn.appWas = (app.sha # "none")
          /\ txn.appWas => app.sha = dir.active
          /\ ~txn.appWas => app.rev = txn.rev
          /\ NativeReconciled(app.rev)
          /\ UNCHANGED loc
       \/ /\ txn.appWas /\ app.sha \notin {"none", dir.active}
          /\ app.rev = txn.rev
          /\ loc' = [loc EXCEPT !.seen = app.rev]
          /\ pc' = "native_install"
          /\ UNCHANGED txn
       \/ /\ \/ txn.appWas # (app.sha # "none")
             \/ app.sha # dir.active /\ app.rev # txn.rev
          /\ Throw
    /\ UNCHANGED <<host, vault, ghosts, budget>>

\* native-install replaces the app by compare-and-swap on its revision.
NativeInstall ==
    /\ pc = "native_install"
    /\ IF app.rev = loc.seen
       THEN /\ app' = [sha |-> dir.active, rev |-> app.rev + 1]
            /\ loc' = [loc EXCEPT !.seen = app.rev + 1]
            /\ pc' = "native_record"
            /\ UNCHANGED txn
       ELSE Throw /\ UNCHANGED app
    /\ UNCHANGED <<dir, gsv, seldRecover, bridge, vault, ghosts, budget>>

\* The app is committed and the answer lost or refused.
NativeInstallUnanswered ==
    /\ pc = "native_install" /\ Fault
    /\ app.rev = loc.seen
    /\ app' = [sha |-> dir.active, rev |-> app.rev + 1]
    /\ Throw
    /\ UNCHANGED <<dir, gsv, seldRecover, bridge, vault, ghosts, writes>>

NativeRecord ==
    /\ pc = "native_record"
    /\ IF app.rev = loc.seen
       THEN NativeReconciled(app.rev) /\ UNCHANGED loc
       ELSE Throw
    /\ UNCHANGED <<host, vault, ghosts, budget>>

\* _verify_unchanged_native_bridge.
NativeUnchanged ==
    /\ pc = "native_unchanged"
    /\ IF /\ app.rev = txn.revBefore
          /\ app.sha = IF txn.appWas THEN dir.active ELSE "none"
       THEN pc' = "clean" /\ UNCHANGED <<txn, loc>>
       ELSE MarkRepair("command")
    /\ UNCHANGED <<host, vault, ghosts, budget>>

AfterClean ==
    IF loc.path \in CandidatePaths /\ loc.rc = 0 THEN "remove" ELSE "complete"

\* _cleanup_recovery_launcher, of a launcher the receipt records.
CleanLauncher ==
    /\ pc = "clean"
    /\ seldRecover' = (seldRecover /\ ~txn.launcher)
    /\ pc' = AfterClean
    /\ UNCHANGED <<dir, gsv, bridge, app, vault, txn, loc, ghosts, budget>>

\* The unchanged path comes from phases that recorded no launcher, so only
\* the paths that note the error and go on have one to fail on.
CleanLauncherFails ==
    /\ pc = "clean" /\ seldRecover /\ Fault
    /\ loc' = [loc EXCEPT !.err = TRUE]
    /\ pc' = AfterClean
    /\ UNCHANGED <<host, vault, txn, ghosts, writes>>

\* The directory a successful path no longer needs.
Obsolete(path) == IF path \in CandidatePaths THEN "previous" ELSE "failed"
AfterRemove == IF loc.path \in CandidatePaths THEN "complete" ELSE "clean"

RemoveObsolete ==
    /\ pc = "remove"
    /\ dir' = [dir EXCEPT ![Obsolete(loc.path)] = "none"]
    /\ pc' = AfterRemove
    /\ UNCHANGED <<gsv, seldRecover, bridge, app, vault, txn, loc, ghosts, budget>>

RemoveObsoleteFails ==
    /\ pc = "remove" /\ dir[Obsolete(loc.path)] # "none" /\ Fault
    /\ \E left \in {dir[Obsolete(loc.path)], "partial"} :
          dir' = [dir EXCEPT ![Obsolete(loc.path)] = left]
    /\ loc' = [loc EXCEPT !.err = TRUE]
    /\ pc' = AfterRemove
    /\ UNCHANGED <<gsv, seldRecover, bridge, app, vault, txn, ghosts, writes>>

RecoveryLeftIgnoringErrors == IF loc.rc = 4 THEN "command" ELSE "none"

\* The recovery command of a completed path.
RecoveryLeft == IF loc.err \/ loc.rc = 4 THEN "command" ELSE "none"

Complete ==
    /\ pc = "complete"
    /\ txn' = [txn EXCEPT
         !.phase = "complete",
         !.outcome = IF loc.path \notin CandidatePaths THEN "rolled_back"
                     ELSE IF loc.rc = 4 THEN "installed_bridge_repair" ELSE "installed",
         !.recovery = RecoveryLeft]
    /\ pc' = "idle"
    /\ loc' = NoLocals
    /\ UNCHANGED <<host, vault, ghosts, budget>>

----------------------------------------------------------------------------
\* _rollback_after_failure

RestorableWithoutProof == dir.previous # "none"

\* The preserved environment names the revision the transaction replaced.
Restorable == Sha("previous") = "from"

Rollback ==
    /\ pc = "rollback"
    /\ IF dir.previous = "none"
       THEN IF Sha("active") = "from"
            THEN /\ txn' = [txn EXCEPT !.phase = "restoring_previous"]
                 /\ LET unchanged == txn.phase \in EarlyPhases IN
                      /\ loc' = [NoLocals EXCEPT !.path =
                                   IF unchanged THEN "unchanged" ELSE "restored"]
                      /\ pc' = IF unchanged THEN "protect" ELSE "anchor"
            ELSE MarkRepair("command")
       ELSE IF ~Restorable
       THEN MarkRepair("command")
       ELSE /\ pc' = IF dir.active = "none" THEN "restoring" ELSE "stop_candidate"
            /\ UNCHANGED <<txn, loc>>
    /\ UNCHANGED <<host, vault, ghosts, budget>>

\* The preserved runtime cannot read the vault or the control ledger.
PreviousCannotRead ==
    /\ pc = "rollback" /\ Restorable /\ Fault
    /\ MarkRepair("command")
    /\ UNCHANGED <<host, vault, ghosts, writes>>

\* gsv bridge stop, run from the candidate.  An incomplete environment has
\* no gsv executable to run.
StopCandidateBridge ==
    /\ pc = "stop_candidate"
    /\ IF txn.phase \notin MayHaveStartedBridge
       THEN pc' = "adopt" /\ UNCHANGED <<bridge, txn, loc>>
       ELSE IF dir.active \in Revisions
       THEN bridge' = "none" /\ pc' = "adopt" /\ UNCHANGED <<txn, loc>>
       ELSE MarkRepair("command") /\ UNCHANGED bridge
    /\ UNCHANGED <<dir, gsv, seldRecover, app, vault, ghosts, budget>>

StopCandidateBridgeFails ==
    /\ pc = "stop_candidate" /\ txn.phase \in MayHaveStartedBridge /\ Fault
    /\ MarkRepair("command")
    /\ UNCHANGED <<host, vault, ghosts, writes>>

\* _adopt_committed_candidate_native_bridge.
AdoptCandidateApp ==
    /\ pc = "adopt"
    /\ IF ~txn.appWas \/ txn.phase \notin NativePhases
       THEN pc' = "move_failed" /\ UNCHANGED <<txn, loc>>
       ELSE IF app.sha = "none"
       THEN MarkRepair("command")
       ELSE /\ txn' = IF app.sha = dir.active THEN [txn EXCEPT !.rev = app.rev] ELSE txn
            /\ pc' = "move_failed"
            /\ UNCHANGED loc
    /\ UNCHANGED <<host, vault, ghosts, budget>>

AdoptFails ==
    /\ pc = "adopt" /\ txn.appWas /\ txn.phase \in NativePhases /\ Fault
    /\ MarkRepair("command")
    /\ UNCHANGED <<host, vault, ghosts, writes>>

MoveFailedAside ==
    /\ pc = "move_failed"
    /\ IF dir.failed # "none"
       THEN MarkRepair("command") /\ UNCHANGED dir
       ELSE /\ dir' = [dir EXCEPT !.active = "none", !.failed = dir.active]
            /\ pc' = "restoring"
            /\ UNCHANGED <<txn, loc>>
    /\ UNCHANGED <<gsv, seldRecover, bridge, app, vault, ghosts, budget>>

RestoringUnknownPhase ==
    /\ pc = "restoring"
    /\ AdvanceTo("rolling_back", "move_back")
    /\ UNCHANGED <<host, vault, loc, ghosts, budget>>

Restoring ==
    /\ pc = "restoring"
    /\ AdvanceTo("restoring_previous", "move_back")
    /\ UNCHANGED <<host, vault, loc, ghosts, budget>>

MoveBack ==
    /\ pc = "move_back"
    /\ dir' = [dir EXCEPT !.active = dir.previous, !.previous = "none"]
    /\ loc' = [NoLocals EXCEPT !.path = "restored"]
    /\ pc' = "moved_back"
    /\ UNCHANGED <<gsv, seldRecover, bridge, app, vault, txn, ghosts, budget>>

MoveBackFails ==
    /\ pc = "move_back" /\ Fault
    /\ MarkRepair("command")
    /\ UNCHANGED <<host, vault, ghosts, writes>>

----------------------------------------------------------------------------
\* recover

BaselineAfterAnyOutcome(approved) ==
    CASE approved -> vault
      [] ~approved /\ txn.outcome \in TerminalOutcomes -> NoDigest
      [] OTHER -> txn.protected

\* The digest an attempt starts from: the one the caller approves; none yet
\* after an audited outcome; otherwise the one an earlier attempt froze.
Baseline(approved) ==
    CASE approved -> vault
      [] ~approved /\ txn.outcome \in AuditedOutcomes -> NoDigest
      [] OTHER -> txn.protected

\* approved: the caller names the vault's current digest and an approval.
Recover(approved) ==
    /\ pc = "idle" /\ ~Resolved /\ Reachable
    /\ LET opened == [txn EXCEPT
                       !.phase = IF txn.outcome \in TerminalOutcomes
                                 THEN "recovering" ELSE txn.phase,
                       !.outcome = "none",
                       !.protected = Baseline(approved)]
           Resume(path, step) ==
             /\ txn' = opened
             /\ loc' = [NoLocals EXCEPT !.path = path]
             /\ pc' = step
       IN CASE Sha("active") = "to" -> Resume("recover", "finish_candidate")
            [] Sha("active") = "from" ->
                 IF opened.phase \in EarlyPhases THEN Resume("unchanged", "protect")
                                                 ELSE Resume("restored", "anchor")
            [] OTHER ->
                 IF dir.previous # "none"
                 THEN Resume("recover", "rollback")
                 ELSE /\ txn' = [opened EXCEPT !.phase = "complete",
                                   !.outcome = "repair_required", !.recovery = "command"]
                      /\ UNCHANGED <<pc, loc>>
    /\ tainted' = (tainted /\ ~approved)
    /\ UNCHANGED <<host, vault, proven, budget>>

----------------------------------------------------------------------------
\* Failures, deaths and the environment

ApplySteps ==
    {"backup", "preflight", "prepared", "stop", "preserve", "publish",
     "move_aside", "preserved", "install", "installed"}
FinishSteps ==
    {"finish_candidate", "anchor", "link", "protect", "setup", "verify", "native",
     "native_status", "native_install", "native_record", "native_unchanged"}

\* An exception before the step had any effect reaches its handler.  In
\* _finish_candidate that covers the final receipt write too.
StepFails ==
    /\ \/ pc \in ApplySteps \cup FinishSteps
       \/ pc = "complete" /\ loc.path \in CandidatePaths
    /\ Fault
    /\ Throw
    /\ UNCHANGED <<host, vault, ghosts, writes>>

\* The updater dies, or an exception no handler covers leaves it.
Crash ==
    /\ pc # "idle" /\ Fault
    /\ pc' = "idle"
    /\ loc' = NoLocals
    /\ UNCHANGED <<host, vault, txn, ghosts, writes>>

UserWrite ==
    /\ pc \notin VaultLocked /\ writes < MaxWrites
    /\ vault' = vault + 1
    /\ writes' = writes + 1
    /\ UNCHANGED <<host, txn, pc, loc, ghosts, faults>>

\* The user installs the native app from an active runtime it does not match
\* yet; install_native_bridge changes nothing when it does.
OperatorInstallsApp ==
    /\ LinkVerified /\ app.sha \notin {"none", dir.active} /\ Fault
    /\ app' = [sha |-> dir.active, rev |-> app.rev + 1]
    /\ UNCHANGED <<dir, gsv, seldRecover, bridge, vault, txn, pc, loc, ghosts, writes>>

\* The normal path of a running updater.
Proceed ==
    \/ Backup \/ Preflight \/ Prepared \/ StopBridge \/ Preserve
    \/ PublishLauncher \/ MoveAside \/ PreviousPreserved \/ InstallCandidate
    \/ CandidateInstalled \/ FinishCandidate \/ AnchorRestored \/ RepairLink
    \/ ProtectVault \/ Setup \/ Verify \/ BeginNative \/ NativeStatus
    \/ NativeInstall \/ NativeRecord \/ NativeUnchanged \/ CleanLauncher
    \/ RemoveObsolete \/ Complete \/ Rollback \/ StopCandidateBridge
    \/ AdoptCandidateApp \/ MoveFailedAside \/ Restoring \/ MoveBack

Abnormal ==
    \/ StopBridgeAlreadyGone \/ InstallInterrupted \/ SetupBridgeRepair
    \/ SetupFails \/ SetupWritesVault \/ NativeInstallUnanswered
    \/ CleanLauncherFails \/ RemoveObsoleteFails \/ PreviousCannotRead
    \/ StopCandidateBridgeFails \/ AdoptFails \/ MoveBackFails
    \/ StepFails \/ Crash

Next ==
    \/ Apply
    \/ \E approved \in BOOLEAN : Recover(approved)
    \/ Proceed
    \/ Abnormal
    \/ UserWrite
    \/ OperatorInstallsApp

\* The user runs the recovery command the receipt reports.
RecoverAsReported == Recover(txn.recovery = "reapproval")

Fairness == WF_vars(Proceed) /\ SF_vars(RecoverAsReported)

Spec == Init /\ [][Next]_vars /\ Fairness

----------------------------------------------------------------------------
\* Properties

\* Until the candidate has passed its health checks, the revision being
\* replaced is intact at the active or the preserved path, whatever fails
\* and wherever the updater dies; afterwards some revision is.
RuntimeRetained ==
    \E slot \in {"active", "previous"} :
        dir[slot] \in (IF proven THEN Revisions ELSE {"from"})

\* Until the candidate has passed its health checks, gsv, seld-recover or
\* the printed command starts a complete runtime at every moment, so a
\* transaction interrupted anywhere can be recovered.
ReachableUntilProven == proven \/ Reachable

\* However the update goes, a complete runtime stays there and can be started.
UpdateSafe == TypeOK /\ RuntimeRetained /\ ReachableUntilProven

\* Whenever the updater has stopped, gsv, seld-recover or the printed
\* command starts a fresh process that can inspect the transaction.
RuntimeReachable == pc = "idle" => Reachable

\* A running Bridge was started from the environment at the active path: no
\* rollback moves or removes the code under a live Bridge.
BridgeRunsActive == bridge \in {"none", dir.active}

\* A completed transaction never accepted vault bytes that a setup wrote,
\* unless the user approved the digest that holds them.
SetupBytesApproved == txn.outcome \in AuditedOutcomes => ~tainted

\* A resolved transaction left nothing behind: both entry points, the spare
\* environments, the Bridge's lifecycle and the native app are as a next
\* update needs them.
ResolvedClean ==
    txn.phase # "absent" /\ Resolved =>
        /\ gsv /\ ~seldRecover
        /\ dir.previous = "none" /\ dir.failed = "none"
        /\ dir.active = IF txn.outcome = "installed" THEN "to" ELSE "from"
        /\ (bridge # "none") = txn.bridgeWas
        /\ app.sha = IF txn.appWas THEN dir.active ELSE "none"

\* What an update touched beside its environments, the Bridge, the vault and
\* the entry points, is left running, approved and clean.
SetupSafe == BridgeRunsActive /\ SetupBytesApproved /\ ResolvedClean

\* The states token recovery cannot leave: no entry point is left; an
\* incomplete environment stands where the Bridge has to be stopped from;
\* the candidate's app was committed but never recorded.
NeedsOperator ==
    \/ ~Reachable
    \/ dir.active = "partial"
    \/ txn.appWas /\ app.sha = "to" /\ dir.active = "from" /\ app.rev # txn.rev

\* A user who runs the recovery command the receipt reports gets every
\* interrupted transaction resolved, or ends in one of those states.
RecoveryCloses == []<>Resolved \/ <>[]NeedsOperator
=============================================================================
