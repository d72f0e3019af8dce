---------------------------- MODULE UpdateProofs ----------------------------
(* Proofs about the self-update transaction, for any number of user writes,
   failures and deaths: a complete runtime stays there and can be started
   (UpdateSafe), and Bridge, vault, app and entry points are left as they
   should be (SetupSafe). *)
EXTENDS UpdateTransaction, TLAPS

----------------------------------------
(* The inductive invariant *)

Receipts ==
  [phase : Phases, outcome : TerminalOutcomes \cup {"none"},
   protected : NoDigest .. (1 + MaxWrites + MaxFaults),
   recovery : {"none", "command", "reapproval"}, bridgeWas : BOOLEAN, appWas : BOOLEAN,
   revBefore : Nat, rev : Nat, launcher : BOOLEAN]

Locals == [path : Paths, rc : {0, 4}, seen : Nat, err : BOOLEAN]
Apps == [sha : Revisions \cup {"none"}, rev : Nat]

\* The type invariant, with the records named.
Typed ==
  /\ dir \in [{"active", "previous", "failed"} -> Contents]
  /\ gsv \in BOOLEAN /\ seldRecover \in BOOLEAN /\ proven \in BOOLEAN /\ tainted \in BOOLEAN
  /\ vault \in 1 .. (1 + MaxWrites + MaxFaults)
  /\ bridge \in Revisions \cup {"none"} /\ app \in Apps
  /\ txn \in Receipts /\ loc \in Locals /\ pc \in Steps
  /\ writes \in 0 .. MaxWrites /\ faults \in 0 .. MaxFaults

\* Every change of the vault is a write or a fault; a receipt names a digest the
\* vault has had, and an older one as long as bytes of a setup are unapproved.
Counted ==
  /\ vault <= 1 + writes + faults /\ txn.protected <= vault
  /\ tainted => txn.protected \in 1..(vault - 1)

\* The environments: the revision being replaced is in one place; what is left of
\* it after a removal is of a proven update; a candidate that was moved aside is
\* not active any more.
Environments ==
  /\ dir.previous \in {"none", "from", "partial"}
  /\ dir.previous # "none" => dir.active # "from"
  /\ dir.previous = "partial" => proven /\ dir.active = "to"
  /\ dir.failed # "none" => dir.active \in {"none", "from"}
  /\ ~proven => \/ dir.active = "from" /\ (gsv \/ seldRecover)
                \/ dir.previous = "from" /\ seldRecover
  /\ proven => dir.active \in Revisions \/ dir.previous = "from"

\* The receipt: open while an updater runs, complete with an outcome; no launcher
\* is published that it does not record; nothing has failed in an early phase; a
\* Bridge of the candidate was started in one of the phases that look for one.
Receipted ==
  /\ txn.phase = "complete" <=> txn.outcome # "none"
  /\ pc # "idle" => txn.outcome = "none" /\ txn.phase # "absent"
  /\ txn.phase = "absent" => /\ gsv /\ ~seldRecover /\ dir.previous = "none" /\ dir.failed = "none"
                             /\ dir.active = "from" /\ ~tainted
  /\ seldRecover => txn.launcher
  /\ txn.phase \in EarlyPhases => dir.failed = "none" /\ dir.previous = "none"
  /\ bridge = "to" => txn.phase \in MayHaveStartedBridge \cup {"complete"}

\* What an application of an update knows at each step.
Applying ==
  /\ pc \in ApplySteps => ~proven /\ dir.failed = "none" /\ loc.path = "apply"
  /\ pc \in {"backup", "preflight", "prepared"} => txn.bridgeWas = (bridge # "none")
  /\ pc \in {"preserve", "publish", "move_aside", "preserved", "install", "installed"}
       => bridge = "none"
  /\ pc = "publish" => txn.launcher
  /\ pc \in {"publish", "move_aside"} => txn.phase = "preserving_previous"
  /\ pc \in {"backup", "preflight", "prepared", "stop", "preserve", "publish", "move_aside"}
       => dir.active = "from"
  /\ pc = "move_aside" => seldRecover
  /\ pc \in {"preserved", "install"} => dir.previous = "from" /\ dir.active = "none"
  /\ pc = "installed" => dir.active = "to"

\* What a rollback knows: the environment it restores is whole, and the Bridge
\* of the candidate has stopped.
RollingBack ==
  /\ pc = "rollback" => loc.path \in CandidatePaths
  /\ pc \in {"stop_candidate", "adopt", "move_failed", "restoring", "move_back"} =>
       dir.previous = "from"
  /\ pc \in {"adopt", "move_failed", "restoring", "move_back", "moved_back"} => bridge = "none"
  /\ pc \in {"restoring", "move_back"} => dir.active = "none"
  /\ pc \in {"moved_back", "anchor", "link"} => loc.path = "restored"

Verified == {"native", "native_status", "native_install", "native_record", "clean", "remove",
             "complete"}
Linked == {"setup", "verify", "native_unchanged"} \cup Verified
Finishing == {"finish_candidate", "protect"} \cup Linked
Reconciled == {"clean", "remove", "complete"}

\* What the end of each path knows: the entry point is there, the vault was
\* audited, and what has been reconciled and removed.
Ending ==
  /\ pc = "idle" => loc = NoLocals
  /\ loc.path \notin CandidatePaths => dir.active = "from"
  /\ loc.path = "unchanged" => dir.failed = "none"
  /\ pc = "finish_candidate" => loc.path \in CandidatePaths
  /\ pc \in Finishing /\ loc.path \in CandidatePaths => dir.active = "to"
  /\ pc \in {"protect", "setup"} /\ loc.path \in CandidatePaths
       => txn.phase \in MayHaveStartedBridge
  /\ pc \in Linked \/ (pc = "protect" /\ loc.path # "unchanged") => gsv
  /\ pc = "setup" => txn.protected = vault
  /\ pc \in {"native", "native_status", "native_install", "native_record"} => loc.path # "unchanged"
  /\ pc = "native_unchanged" => loc.path = "unchanged"
  /\ pc = "remove" => loc.path # "unchanged"
  /\ pc \in Verified \cup {"native_unchanged"} =>
       /\ ~tainted
       /\ loc.path \in CandidatePaths => proven
       /\ loc.rc = 0 => (bridge # "none") = txn.bridgeWas
  /\ pc = "native_install" => txn.appWas
  /\ pc = "native_record" => txn.appWas /\ app.sha = dir.active
  /\ pc \in Reconciled => app.sha = IF txn.appWas THEN dir.active ELSE "none"
  /\ ~loc.err /\ (pc = "complete" \/ (pc = "remove" /\ loc.path \in CandidatePaths)) => ~seldRecover
  /\ ~loc.err /\ loc.rc = 0 /\ pc = "complete" /\ loc.path \in CandidatePaths =>
       dir.previous = "none"
  /\ ~loc.err /\ pc \in {"clean", "complete"} /\ loc.path = "restored" => dir.failed = "none"

UpdateInv ==
  /\ Typed
  /\ Counted /\ Environments /\ Receipted /\ Applying /\ RollingBack /\ Ending
  /\ SetupSafe

----------------------------------------
(* The records of a step *)

\* What a new phase leaves of the receipt.
Kept(t, u) ==
  /\ t.outcome = u.outcome /\ t.protected = u.protected /\ t.recovery = u.recovery
  /\ t.bridgeWas = u.bridgeWas /\ t.appWas = u.appWas /\ t.launcher = u.launcher

LEMMA AdvanceIs ==
  ASSUME txn \in Receipts, NEW ph \in Phases, NEW st, AdvanceTo(ph, st)
  PROVE  txn' \in Receipts /\ txn'.phase = ph /\ Kept(txn', txn) /\ pc' = st
<1>1. txn' = [txn EXCEPT !.phase = ph] /\ pc' = st BY DEF AdvanceTo
<1> QED BY <1>1 DEF Receipts, Kept

LEMMA RepairIs ==
  ASSUME txn \in Receipts, NEW r \in {"none", "command", "reapproval"}, MarkRepair(r)
  PROVE  /\ txn' \in Receipts /\ txn'.phase = "complete" /\ txn'.outcome = "repair_required"
         /\ txn'.protected = txn.protected /\ txn'.launcher = txn.launcher
         /\ pc' = "idle" /\ loc' = NoLocals /\ loc' \in Locals
<1>1. /\ txn' = [txn EXCEPT !.phase = "complete", !.outcome = "repair_required", !.recovery = r]
      /\ pc' = "idle" /\ loc' = NoLocals
  BY DEF MarkRepair
<1>2. "complete" \in Phases /\ "repair_required" \in TerminalOutcomes
  BY DEF Phases, TerminalOutcomes
<1>3. loc' \in Locals BY <1>1 DEF Locals, NoLocals, Paths
<1> QED BY <1>1, <1>2, <1>3 DEF Receipts

\* Faults that leave the vault and the receipt's digest alone.
LEMMA CountedKept ==
  ASSUME Typed, Counted, vault' = vault, tainted' = tainted, writes' = writes,
         txn'.protected = txn.protected,
         faults' = faults \/ (faults' \in 0..MaxFaults /\ faults <= faults')
  PROVE  Counted'
<1>1. /\ vault \in Nat /\ writes \in Nat /\ faults \in Nat /\ txn.protected \in Nat
      /\ faults' \in Nat /\ faults <= faults'
  BY UpdateAssumption DEF Typed, Receipts, NoDigest
<1>2. \A v, w, f, g \in Nat : v <= 1 + w + f /\ f <= g => v <= 1 + w + g OBVIOUS
<1>3. vault <= 1 + writes + faults' BY <1>1, <1>2 DEF Counted
<1>4. (txn.protected <= vault /\ (tainted => txn.protected \in 1..(vault - 1)))'
  BY <1>1 DEF Counted
<1> QED BY <1>3, <1>4 DEF Counted

----------------------------------------
(* Giving up *)

\* The updater reports that a repair is required.
LEMMA RepairInv ==
  ASSUME UpdateInv, NEW r \in {"none", "command", "reapproval"}, MarkRepair(r),
         UNCHANGED <<dir, gsv, seldRecover, vault, ghosts, writes>>,
         bridge' \in Revisions \cup {"none"}, bridge' \in {"none", dir.active}, app' \in Apps,
         faults' \in 0..MaxFaults, faults <= faults'
  PROVE  UpdateInv'
<1>1. /\ txn' \in Receipts /\ txn'.phase = "complete" /\ txn'.outcome = "repair_required"
      /\ txn'.protected = txn.protected /\ txn'.launcher = txn.launcher
      /\ pc' = "idle" /\ loc' = NoLocals /\ loc' \in Locals
  BY RepairIs DEF UpdateInv, Typed
<1>2. Typed' BY <1>1, UpdateAssumption DEF UpdateInv, Typed, ghosts, Steps
<1>3. Counted' /\ Environments'
  <2>1. Counted' BY <1>1, CountedKept DEF UpdateInv, ghosts
  <2>2. Environments' BY DEF UpdateInv, Environments, ghosts
  <2> QED BY <2>1, <2>2
<1>4. Receipted' BY <1>1 DEF UpdateInv, Receipted, EarlyPhases
<1>5. Applying' /\ RollingBack' BY <1>1 DEF Applying, RollingBack, ApplySteps
<1>6. Ending'
  BY <1>1 DEF Ending, NoLocals, CandidatePaths, Finishing, Linked, Verified, Reconciled
<1>7. SetupSafe'
  BY <1>1
     DEF SetupSafe, BridgeRunsActive, SetupBytesApproved, ResolvedClean, Resolved,
         AuditedOutcomes
<1> QED BY <1>2, <1>3, <1>4, <1>5, <1>6, <1>7 DEF UpdateInv

\* A failure rolls the candidate back and leaves a restored runtime for repair.
LEMMA ThrowInv ==
  ASSUME UpdateInv, Throw, pc # "idle",
         UNCHANGED <<dir, gsv, seldRecover, vault, ghosts, writes>>,
         bridge' \in Revisions \cup {"none"}, bridge' \in {"none", dir.active}, app' \in Apps,
         bridge' = "to" => txn.phase \in MayHaveStartedBridge,
         faults' \in 0..MaxFaults, faults <= faults'
  PROVE  UpdateInv'
<1>1. CASE loc.path \in CandidatePaths
  <2>1. pc' = "rollback" /\ txn' = txn /\ loc' = loc /\ txn.outcome = "none"
    BY <1>1 DEF Throw, UpdateInv, Receipted
  <2>2. Typed' BY <2>1, UpdateAssumption DEF UpdateInv, Typed, ghosts, Steps
  <2>3. Counted' /\ Environments'
    <3>1. Counted' BY <2>1, CountedKept DEF UpdateInv, ghosts
    <3>2. Environments' BY DEF UpdateInv, Environments, ghosts
    <3> QED BY <3>1, <3>2
  <2>4. Receipted' BY <2>1 DEF UpdateInv, Receipted
  <2>5. Applying' /\ RollingBack' BY <1>1, <2>1 DEF Applying, RollingBack, ApplySteps
  <2>6. Ending'
    BY <1>1, <2>1 DEF Ending, CandidatePaths, Finishing, Linked, Verified, Reconciled
  <2>7. SetupSafe'
    BY <2>1
       DEF UpdateInv, Receipted, SetupSafe, BridgeRunsActive, SetupBytesApproved, ResolvedClean,
           Resolved,
                AuditedOutcomes
  <2> QED BY <2>2, <2>3, <2>4, <2>5, <2>6, <2>7 DEF UpdateInv
<1>2. CASE loc.path \notin CandidatePaths BY <1>2, RepairInv DEF Throw
<1> QED BY <1>1, <1>2

----------------------------------------
(* apply *)

\* The backup of the vault.
LEMMA BackupInv == UpdateInv /\ Backup => UpdateInv'
<1> SUFFICES ASSUME UpdateInv, Backup PROVE UpdateInv'
  OBVIOUS
<1>1. /\ pc = "backup" /\ pc' = "preflight" /\ txn' \in Receipts
      /\ txn'.phase = "preflighting" /\ Kept(txn', txn)
      /\ UNCHANGED <<dir, gsv, seldRecover, bridge, app, vault, loc, proven, tainted, writes,
                     faults>>
  <2>1. txn \in Receipts /\ "preflighting" \in Phases
    BY DEF UpdateInv, Typed, Phases, EarlyPhases
  <2>2. pc = "backup" /\ AdvanceTo("preflighting", "preflight")
          /\ UNCHANGED <<dir, gsv, seldRecover, bridge, app, vault, loc, proven, tainted, writes,
                         faults>>
    BY DEF Backup, host, ghosts, budget
  <2> QED BY <2>1, <2>2, AdvanceIs
<1>2. Typed' BY <1>1, UpdateAssumption DEF UpdateInv, Typed, Steps
<1>3. Counted' BY <1>1, CountedKept DEF UpdateInv, Kept
<1>4. Environments' BY <1>1 DEF UpdateInv, Environments
<1>5. Receipted'
  BY <1>1
     DEF UpdateInv, Kept, Environments, Receipted, Applying, RollingBack, Ending, SetupSafe,
         BridgeRunsActive, ApplySteps, CandidatePaths, Finishing
<1>6. Applying' BY <1>1 DEF UpdateInv, Kept, Applying, ApplySteps
<1>7. RollingBack' BY <1>1 DEF RollingBack
<1>8. Ending'
  BY <1>1
     DEF UpdateInv, Kept, Ending, CandidatePaths, ApplySteps, Finishing, Linked, Verified,
         Reconciled, MayHaveStartedBridge
<1>9. SetupSafe'
  BY <1>1
     DEF UpdateInv, Kept, Environments, Receipted, Ending, SetupSafe, BridgeRunsActive,
         SetupBytesApproved, ResolvedClean, Resolved
<1> QED BY <1>2, <1>3, <1>4, <1>5, <1>6, <1>7, <1>8, <1>9 DEF UpdateInv

\* The checks before anything is changed.
LEMMA PreflightInv == UpdateInv /\ Preflight => UpdateInv'
<1> SUFFICES ASSUME UpdateInv, Preflight PROVE UpdateInv'
  OBVIOUS
<1>1. /\ pc = "preflight" /\ pc' = "prepared" /\ txn' \in Receipts /\ txn'.phase = "prepared"
      /\ Kept(txn', txn)
      /\ UNCHANGED <<dir, gsv, seldRecover, bridge, app, vault, loc, proven, tainted, writes,
                     faults>>
  <2>1. txn \in Receipts /\ "prepared" \in Phases BY DEF UpdateInv, Typed, Phases, EarlyPhases
  <2>2. pc = "preflight" /\ AdvanceTo("prepared", "prepared")
          /\ UNCHANGED <<dir, gsv, seldRecover, bridge, app, vault, loc, proven, tainted, writes,
                         faults>>
    BY DEF Preflight, host, ghosts, budget
  <2> QED BY <2>1, <2>2, AdvanceIs
<1>2. Typed' BY <1>1, UpdateAssumption DEF UpdateInv, Typed, Steps
<1>3. Counted' BY <1>1, CountedKept DEF UpdateInv, Kept
<1>4. Environments' BY <1>1 DEF UpdateInv, Environments
<1>5. Receipted'
  BY <1>1
     DEF UpdateInv, Kept, Environments, Receipted, Applying, RollingBack, Ending, SetupSafe,
         BridgeRunsActive, ApplySteps, CandidatePaths, Finishing
<1>6. Applying' BY <1>1 DEF UpdateInv, Kept, Applying, ApplySteps
<1>7. RollingBack' BY <1>1 DEF RollingBack
<1>8. Ending'
  BY <1>1
     DEF UpdateInv, Kept, Ending, CandidatePaths, ApplySteps, Finishing, Linked, Verified,
         Reconciled, MayHaveStartedBridge
<1>9. SetupSafe'
  BY <1>1
     DEF UpdateInv, Kept, Environments, Receipted, Ending, SetupSafe, BridgeRunsActive,
         SetupBytesApproved, ResolvedClean, Resolved
<1> QED BY <1>2, <1>3, <1>4, <1>5, <1>6, <1>7, <1>8, <1>9 DEF UpdateInv

\* The running Bridge stops.
LEMMA StopBridgeInv == UpdateInv /\ StopBridge => UpdateInv'
<1> SUFFICES ASSUME UpdateInv, StopBridge PROVE UpdateInv'
  OBVIOUS
<1>1. /\ pc = "stop" /\ pc' = "preserve" /\ txn' \in Receipts /\ txn'.phase = "bridge_stopped"
      /\ Kept(txn', txn)
      /\ UNCHANGED <<dir, gsv, seldRecover, app, vault, loc, proven, tainted, writes, faults>>
      /\ bridge' = "none"
  <2>1. txn \in Receipts /\ "bridge_stopped" \in Phases BY DEF UpdateInv, Typed, Phases
  <2>2. pc = "stop" /\ AdvanceTo("bridge_stopped", "preserve")
          /\ UNCHANGED <<dir, gsv, seldRecover, app, vault, loc, proven, tainted, writes, faults>>
          /\ bridge' = "none"
    BY DEF StopBridge, ghosts, budget
  <2> QED BY <2>1, <2>2, AdvanceIs
<1>2. Typed' BY <1>1, UpdateAssumption DEF UpdateInv, Typed, Steps
<1>3. Counted' BY <1>1, CountedKept DEF UpdateInv, Kept
<1>4. Environments' BY <1>1 DEF UpdateInv, Environments
<1>5. Receipted'
  BY <1>1
     DEF UpdateInv, Kept, Environments, Receipted, Applying, MayHaveStartedBridge, NativePhases,
         ApplySteps
<1>6. Applying' BY <1>1 DEF UpdateInv, Applying, ApplySteps
<1>7. RollingBack' BY <1>1 DEF RollingBack
<1>8. Ending'
  BY <1>1
     DEF UpdateInv, Kept, Ending, CandidatePaths, ApplySteps, Finishing, Linked, Verified,
         Reconciled, MayHaveStartedBridge
<1>9. SetupSafe'
  BY <1>1
     DEF UpdateInv, Kept, Environments, Receipted, Ending, SetupSafe, BridgeRunsActive,
         SetupBytesApproved, ResolvedClean, Resolved
<1> QED BY <1>2, <1>3, <1>4, <1>5, <1>6, <1>7, <1>8, <1>9 DEF UpdateInv

\* The Bridge had stopped by itself.
LEMMA StopBridgeAlreadyGoneInv == UpdateInv /\ StopBridgeAlreadyGone => UpdateInv'
<1> SUFFICES ASSUME UpdateInv, StopBridgeAlreadyGone PROVE UpdateInv'
  OBVIOUS
<1>1. /\ pc = "stop" /\ pc' = "rollback" /\ bridge' = "none" /\ faults' \in 0..MaxFaults
      /\ faults <= faults'
      /\ UNCHANGED <<dir, gsv, seldRecover, app, vault, txn, loc, proven, tainted, writes>>
  BY UpdateAssumption DEF StopBridgeAlreadyGone, ghosts, Fault, UpdateInv, Typed
<1>2. Typed' BY <1>1, UpdateAssumption DEF UpdateInv, Typed, Steps
<1>3. Counted' BY <1>1, CountedKept DEF UpdateInv, Kept
<1>4. Environments' BY <1>1 DEF UpdateInv, Environments
<1>5. Receipted' BY <1>1 DEF UpdateInv, Receipted
<1>6. Applying' BY <1>1 DEF Applying, ApplySteps
<1>7. RollingBack'
  BY <1>1 DEF UpdateInv, Applying, RollingBack, Ending, ApplySteps, CandidatePaths, SetupSafe
<1>8. Ending'
  BY <1>1
     DEF UpdateInv, Kept, Ending, CandidatePaths, ApplySteps, Finishing, Linked, Verified,
         Reconciled, MayHaveStartedBridge
<1>9. SetupSafe'
  BY <1>1
     DEF UpdateInv, Kept, Environments, Receipted, Ending, SetupSafe, BridgeRunsActive,
         SetupBytesApproved, ResolvedClean, Resolved
<1> QED BY <1>2, <1>3, <1>4, <1>5, <1>6, <1>7, <1>8, <1>9 DEF UpdateInv

\* The recovery launcher appears.
LEMMA PublishLauncherInv == UpdateInv /\ PublishLauncher => UpdateInv'
<1> SUFFICES ASSUME UpdateInv, PublishLauncher PROVE UpdateInv'
  OBVIOUS
<1>1. /\ pc = "publish" /\ pc' = "move_aside" /\ seldRecover' = TRUE
      /\ UNCHANGED <<dir, gsv, bridge, app, vault, txn, loc, proven, tainted, writes, faults>>
  BY DEF PublishLauncher, ghosts, budget
<1>2. Typed' BY <1>1, UpdateAssumption DEF UpdateInv, Typed, Steps
<1>3. Counted' BY <1>1, CountedKept DEF UpdateInv, Kept
<1>4. Environments' BY <1>1 DEF UpdateInv, Environments
<1>5. Receipted' BY <1>1 DEF UpdateInv, Receipted, Applying
<1>6. Applying' BY <1>1 DEF UpdateInv, Applying, ApplySteps
<1>7. RollingBack' BY <1>1 DEF RollingBack
<1>8. Ending'
  BY <1>1
     DEF UpdateInv, Kept, Ending, CandidatePaths, ApplySteps, Finishing, Linked, Verified,
         Reconciled, MayHaveStartedBridge
<1>9. SetupSafe'
  BY <1>1
     DEF UpdateInv, Kept, Environments, Receipted, Ending, SetupSafe, BridgeRunsActive,
         SetupBytesApproved, ResolvedClean, Resolved
<1> QED BY <1>2, <1>3, <1>4, <1>5, <1>6, <1>7, <1>8, <1>9 DEF UpdateInv

\* The environment is moved to the preserved path.
LEMMA MoveAsideInv == UpdateInv /\ MoveAside => UpdateInv'
<1> SUFFICES ASSUME UpdateInv, MoveAside PROVE UpdateInv'
  OBVIOUS
<1>1. /\ pc = "move_aside" /\ pc' = "preserved"
      /\ dir' = [dir EXCEPT !.active = "none", !.previous = dir.active]
      /\ UNCHANGED <<gsv, seldRecover, bridge, app, vault, txn, loc, proven, tainted, writes,
                     faults>>
  BY DEF MoveAside, ghosts, budget
<1>2. Typed' BY <1>1, UpdateAssumption DEF UpdateInv, Typed, Steps, Contents
<1>3. Counted' BY <1>1, CountedKept DEF UpdateInv, Kept
<1>4. Environments' BY <1>1 DEF UpdateInv, Environments, Applying
<1>5. Receipted'
  BY <1>1
     DEF UpdateInv, Environments, Receipted, Applying, RollingBack, BridgeRunsActive, EarlyPhases
<1>6. Applying' BY <1>1 DEF UpdateInv, Applying, ApplySteps
<1>7. RollingBack' BY <1>1 DEF RollingBack
<1>8. Ending'
  BY <1>1
     DEF UpdateInv, Kept, Receipted, Applying, RollingBack, Ending, CandidatePaths, ApplySteps,
         Finishing, Linked, Verified, Reconciled, MayHaveStartedBridge
<1>9. SetupSafe'
  BY <1>1
     DEF UpdateInv, Kept, Applying, RollingBack, Ending, SetupSafe, BridgeRunsActive,
         SetupBytesApproved, ResolvedClean, Resolved
<1> QED BY <1>2, <1>3, <1>4, <1>5, <1>6, <1>7, <1>8, <1>9 DEF UpdateInv

\* The receipt records it.
LEMMA PreviousPreservedInv == UpdateInv /\ PreviousPreserved => UpdateInv'
<1> SUFFICES ASSUME UpdateInv, PreviousPreserved PROVE UpdateInv'
  OBVIOUS
<1>1. /\ pc = "preserved" /\ pc' = "install" /\ txn' \in Receipts
      /\ txn'.phase = "previous_preserved" /\ Kept(txn', txn)
      /\ UNCHANGED <<dir, gsv, seldRecover, bridge, app, vault, loc, proven, tainted, writes,
                     faults>>
  <2>1. txn \in Receipts /\ "previous_preserved" \in Phases BY DEF UpdateInv, Typed, Phases
  <2>2. pc = "preserved" /\ AdvanceTo("previous_preserved", "install")
          /\ UNCHANGED <<dir, gsv, seldRecover, bridge, app, vault, loc, proven, tainted, writes,
                         faults>>
    BY DEF PreviousPreserved, host, ghosts, budget
  <2> QED BY <2>1, <2>2, AdvanceIs
<1>2. Typed' BY <1>1, UpdateAssumption DEF UpdateInv, Typed, Steps
<1>3. Counted' BY <1>1, CountedKept DEF UpdateInv, Kept
<1>4. Environments' BY <1>1 DEF UpdateInv, Environments
<1>5. Receipted'
  BY <1>1
     DEF UpdateInv, Kept, Environments, Receipted, Applying, RollingBack, BridgeRunsActive,
         EarlyPhases
<1>6. Applying' BY <1>1 DEF UpdateInv, Applying, ApplySteps
<1>7. RollingBack' BY <1>1 DEF RollingBack
<1>8. Ending'
  BY <1>1
     DEF UpdateInv, Kept, Ending, CandidatePaths, ApplySteps, Finishing, Linked, Verified,
         Reconciled, MayHaveStartedBridge
<1>9. SetupSafe'
  BY <1>1
     DEF UpdateInv, Kept, Environments, Receipted, Ending, SetupSafe, BridgeRunsActive,
         SetupBytesApproved, ResolvedClean, Resolved
<1> QED BY <1>2, <1>3, <1>4, <1>5, <1>6, <1>7, <1>8, <1>9 DEF UpdateInv

\* uv installs the candidate.
LEMMA InstallCandidateInv == UpdateInv /\ InstallCandidate => UpdateInv'
<1> SUFFICES ASSUME UpdateInv, InstallCandidate PROVE UpdateInv'
  OBVIOUS
<1>1. /\ pc = "install" /\ pc' = "installed" /\ gsv' = TRUE /\ dir' = [dir EXCEPT !.active = "to"]
      /\ UNCHANGED <<seldRecover, bridge, app, vault, txn, loc, proven, tainted, writes, faults>>
  BY DEF InstallCandidate, ghosts, budget
<1>2. Typed' BY <1>1, UpdateAssumption DEF UpdateInv, Typed, Steps, Contents, Revisions
<1>3. Counted' BY <1>1, CountedKept DEF UpdateInv, Kept
<1>4. Environments' BY <1>1 DEF UpdateInv, Environments, Applying, ApplySteps
<1>5. Receipted' BY <1>1 DEF UpdateInv, Receipted
<1>6. Applying' BY <1>1 DEF UpdateInv, Applying, ApplySteps
<1>7. RollingBack' BY <1>1 DEF RollingBack
<1>8. Ending'
  BY <1>1
     DEF UpdateInv, Kept, Receipted, Applying, RollingBack, Ending, CandidatePaths, Verified,
         Reconciled, MayHaveStartedBridge
<1>9. SetupSafe'
  BY <1>1
     DEF UpdateInv, Kept, Applying, RollingBack, Ending, SetupSafe, BridgeRunsActive,
         SetupBytesApproved, ResolvedClean, Resolved
<1> QED BY <1>2, <1>3, <1>4, <1>5, <1>6, <1>7, <1>8, <1>9 DEF UpdateInv

\* The receipt records it.
LEMMA CandidateInstalledInv == UpdateInv /\ CandidateInstalled => UpdateInv'
<1> SUFFICES ASSUME UpdateInv, CandidateInstalled PROVE UpdateInv'
  OBVIOUS
<1>1. /\ pc = "installed" /\ pc' = "finish_candidate" /\ txn' \in Receipts
      /\ txn'.phase = "candidate_installed" /\ Kept(txn', txn)
      /\ UNCHANGED <<dir, gsv, seldRecover, bridge, app, vault, loc, proven, tainted, writes,
                     faults>>
  <2>1. txn \in Receipts /\ "candidate_installed" \in Phases BY DEF UpdateInv, Typed, Phases
  <2>2. pc = "installed" /\ AdvanceTo("candidate_installed", "finish_candidate")
          /\ UNCHANGED <<dir, gsv, seldRecover, bridge, app, vault, loc, proven, tainted, writes,
                         faults>>
    BY DEF CandidateInstalled, host, ghosts, budget
  <2> QED BY <2>1, <2>2, AdvanceIs
<1>2. Typed' BY <1>1, UpdateAssumption DEF UpdateInv, Typed, Steps
<1>3. Counted' BY <1>1, CountedKept DEF UpdateInv, Kept
<1>4. Environments' BY <1>1 DEF UpdateInv, Environments
<1>5. Receipted'
  BY <1>1
     DEF UpdateInv, Kept, Environments, Receipted, Applying, RollingBack, BridgeRunsActive,
         EarlyPhases
<1>6. Applying' BY <1>1 DEF Applying, ApplySteps
<1>7. RollingBack' BY <1>1 DEF RollingBack
<1>8. Ending'
  BY <1>1
     DEF UpdateInv, Kept, Receipted, Applying, RollingBack, Ending, CandidatePaths, ApplySteps,
         Finishing, Linked, Verified, Reconciled, MayHaveStartedBridge
<1>9. SetupSafe'
  BY <1>1
     DEF UpdateInv, Kept, Environments, Receipted, Ending, SetupSafe, BridgeRunsActive,
         SetupBytesApproved, ResolvedClean, Resolved
<1> QED BY <1>2, <1>3, <1>4, <1>5, <1>6, <1>7, <1>8, <1>9 DEF UpdateInv

\* The Bridge is stopped when one runs.
LEMMA PreparedInv == UpdateInv /\ Prepared => UpdateInv'
<1> SUFFICES ASSUME UpdateInv, Prepared PROVE UpdateInv'
  OBVIOUS
<1>1. /\ pc = "prepared" /\ pc' \in {"stop", "preserve"} /\ (pc' = "preserve" => ~txn.bridgeWas)
      /\ txn' \in Receipts /\ txn'.phase \in {"stopping_bridge", "bridge_stopped"} /\ Kept(txn', txn)
      /\ UNCHANGED <<dir, gsv, seldRecover, bridge, app, vault, loc, proven, tainted, writes,
                     faults>>
  <2>1. txn \in Receipts /\ {"stopping_bridge", "bridge_stopped"} \subseteq Phases
    BY DEF UpdateInv, Typed, Phases
  <2>2. CASE txn.bridgeWas BY <2>1, <2>2, AdvanceIs DEF Prepared, host, ghosts, budget
  <2>3. CASE ~txn.bridgeWas BY <2>1, <2>3, AdvanceIs DEF Prepared, host, ghosts, budget
  <2> QED BY <2>2, <2>3
<1>2. Typed' BY <1>1, UpdateAssumption DEF UpdateInv, Typed, Steps
<1>3. Counted' BY <1>1, CountedKept DEF UpdateInv, Kept
<1>4. Environments' BY <1>1 DEF UpdateInv, Environments
<1>5. Receipted'
  BY <1>1
     DEF UpdateInv, Kept, Environments, Receipted, Applying, RollingBack, Ending, SetupSafe,
         BridgeRunsActive, EarlyPhases
<1>6. Applying' BY <1>1 DEF UpdateInv, Applying, ApplySteps
<1>7. RollingBack' BY <1>1 DEF RollingBack
<1>8. Ending'
  BY <1>1
     DEF UpdateInv, Kept, Ending, CandidatePaths, ApplySteps, Finishing, Linked, Verified,
         Reconciled, MayHaveStartedBridge
<1>9. SetupSafe'
  BY <1>1
     DEF UpdateInv, Kept, Environments, Receipted, Ending, SetupSafe, BridgeRunsActive,
         SetupBytesApproved, ResolvedClean, Resolved
<1> QED BY <1>2, <1>3, <1>4, <1>5, <1>6, <1>7, <1>8, <1>9 DEF UpdateInv

\* The runtime is checked before it is preserved.
LEMMA PreserveInv == UpdateInv /\ Preserve => UpdateInv'
<1> SUFFICES ASSUME UpdateInv, Preserve PROVE UpdateInv'
  OBVIOUS
<1>1. CASE Sha("active") = "from" /\ LinkVerified
  <2>1. /\ pc = "preserve" /\ pc' = "publish" /\ dir.active = "from"
        /\ txn' \in Receipts /\ txn'.phase = "preserving_previous" /\ txn'.outcome = txn.outcome
        /\ txn'.protected = txn.protected /\ txn'.launcher = TRUE
        /\ UNCHANGED <<dir, gsv, seldRecover, bridge, app, vault, loc, proven, tainted, writes,
                       faults>>
    <3>1. /\ pc = "preserve" /\ pc' = "publish" /\ dir.active = "from"
          /\ txn' = [txn EXCEPT !.phase = "preserving_previous", !.recovery = "command", !.launcher = TRUE]
          /\ UNCHANGED <<dir, gsv, seldRecover, bridge, app, vault, loc, proven, tainted, writes,
                         faults>>
      BY <1>1 DEF Preserve, Sha, host, ghosts, budget
    <3>2. txn \in Receipts /\ "preserving_previous" \in Phases BY DEF UpdateInv, Typed, Phases
    <3> QED BY <3>1, <3>2 DEF Receipts
  <2>2. Typed' BY <2>1, UpdateAssumption DEF UpdateInv, Typed, Steps
  <2>3. Counted' BY <2>1, CountedKept DEF UpdateInv, Kept
  <2>4. Environments' BY <2>1 DEF UpdateInv, Environments
  <2>5. Receipted'
    BY <2>1
       DEF UpdateInv, Environments, Receipted, Applying, MayHaveStartedBridge, NativePhases,
           ApplySteps
  <2>6. Applying' BY <2>1 DEF UpdateInv, Applying, ApplySteps
  <2>7. RollingBack' BY <2>1 DEF RollingBack
  <2>8. Ending'
    BY <2>1
       DEF UpdateInv, Kept, Ending, CandidatePaths, ApplySteps, Finishing, Linked, Verified,
           Reconciled, MayHaveStartedBridge
  <2>9. SetupSafe'
    BY <2>1
       DEF UpdateInv, Kept, Environments, Receipted, Ending, SetupSafe, BridgeRunsActive,
           SetupBytesApproved, ResolvedClean, Resolved
  <2> QED BY <2>2, <2>3, <2>4, <2>5, <2>6, <2>7, <2>8, <2>9 DEF UpdateInv
<1>2. CASE ~(Sha("active") = "from" /\ LinkVerified)
  <2>1. /\ pc = "preserve" /\ pc' = "rollback"
        /\ UNCHANGED <<dir, gsv, seldRecover, bridge, app, vault, txn, loc, proven, tainted,
                       writes, faults>>
    BY <1>2 DEF Preserve, host, ghosts, budget
  <2>2. Typed' BY <2>1, UpdateAssumption DEF UpdateInv, Typed, Steps
  <2>3. Counted' BY <2>1, CountedKept DEF UpdateInv, Kept
  <2>4. Environments' BY <2>1 DEF UpdateInv, Environments
  <2>5. Receipted' BY <2>1 DEF UpdateInv, Receipted
  <2>6. Applying' BY <2>1 DEF Applying, ApplySteps
  <2>7. RollingBack'
    BY <2>1 DEF UpdateInv, Applying, RollingBack, Ending, ApplySteps, CandidatePaths, SetupSafe
  <2>8. Ending'
    BY <2>1
       DEF UpdateInv, Kept, Ending, CandidatePaths, ApplySteps, Finishing, Linked, Verified,
           Reconciled, MayHaveStartedBridge
  <2>9. SetupSafe'
    BY <2>1 DEF UpdateInv, SetupSafe, BridgeRunsActive, SetupBytesApproved, ResolvedClean, Resolved
  <2> QED BY <2>2, <2>3, <2>4, <2>5, <2>6, <2>7, <2>8, <2>9 DEF UpdateInv
<1> QED BY <1>1, <1>2

\* uv stops on the way.
LEMMA InstallInterruptedInv == UpdateInv /\ InstallInterrupted => UpdateInv'
<1> SUFFICES ASSUME UpdateInv, InstallInterrupted PROVE UpdateInv'
  OBVIOUS
<1>1. /\ pc = "install" /\ pc' = "rollback" /\ gsv' \in BOOLEAN
      /\ \E found \in {"none", "partial", "to"} : dir' = [dir EXCEPT !.active = found]
      /\ faults' \in 0..MaxFaults /\ faults <= faults'
      /\ UNCHANGED <<seldRecover, bridge, app, vault, txn, loc, proven, tainted, writes>>
  BY UpdateAssumption DEF InstallInterrupted, Fault, UpdateInv, Typed, ghosts
<1>2. Typed' BY <1>1, UpdateAssumption DEF UpdateInv, Typed, Steps, Contents, Revisions
<1>3. Counted' BY <1>1, CountedKept DEF UpdateInv, Kept
<1>4. Environments' BY <1>1 DEF UpdateInv, Environments, Applying, ApplySteps
<1>5. Receipted' BY <1>1 DEF UpdateInv, Receipted
<1>6. Applying' BY <1>1 DEF Applying, ApplySteps
<1>7. RollingBack' BY <1>1 DEF UpdateInv, Applying, RollingBack, Ending
<1>8. Ending'
  BY <1>1
     DEF UpdateInv, Kept, Receipted, Applying, RollingBack, Ending, CandidatePaths, ApplySteps,
         Finishing, Linked, Verified, Reconciled, MayHaveStartedBridge
<1>9. SetupSafe'
  BY <1>1
     DEF UpdateInv, Kept, Applying, RollingBack, Ending, SetupSafe, BridgeRunsActive,
         SetupBytesApproved, ResolvedClean, Resolved
<1> QED BY <1>2, <1>3, <1>4, <1>5, <1>6, <1>7, <1>8, <1>9 DEF UpdateInv

----------------------------------------
(* Finishing *)

\* What giving up asks for, of a step that leaves Bridge and app alone.
LEMMA ThrowFacts ==
  UpdateInv =>
    /\ bridge \in Revisions \cup {"none"} /\ bridge \in {"none", dir.active} /\ app \in Apps
    /\ pc # "idle" /\ bridge = "to" => txn.phase \in MayHaveStartedBridge
    /\ faults \in 0..MaxFaults /\ faults <= faults
    /\ faults < MaxFaults => faults + 1 \in 0..MaxFaults /\ faults <= faults + 1
<1> SUFFICES ASSUME UpdateInv PROVE
    /\ bridge \in Revisions \cup {"none"} /\ bridge \in {"none", dir.active} /\ app \in Apps
    /\ pc # "idle" /\ bridge = "to" => txn.phase \in MayHaveStartedBridge
    /\ faults \in 0..MaxFaults /\ faults <= faults
    /\ faults < MaxFaults => faults + 1 \in 0..MaxFaults /\ faults <= faults + 1
  OBVIOUS
<1>1. bridge \in Revisions \cup {"none"} /\ app \in Apps BY DEF UpdateInv, Typed
<1>2. bridge \in {"none", dir.active} BY DEF UpdateInv, SetupSafe, BridgeRunsActive
<1>3. pc # "idle" /\ bridge = "to" => txn.phase \in MayHaveStartedBridge
  BY DEF UpdateInv, Receipted
<1>4. faults \in 0..MaxFaults BY DEF UpdateInv, Typed
<1>5. /\ faults <= faults
      /\ faults < MaxFaults => faults + 1 \in 0..MaxFaults /\ faults <= faults + 1
  BY <1>4, UpdateAssumption
<1> QED BY <1>1, <1>2, <1>3, <1>4, <1>5

\* The candidate is checked at its path.
LEMMA FinishCandidateInv == UpdateInv /\ FinishCandidate => UpdateInv'
<1> SUFFICES ASSUME UpdateInv, FinishCandidate PROVE UpdateInv'
  OBVIOUS
<1>1. CASE LinkVerified
  <2>1. /\ pc = "finish_candidate" /\ pc' = "protect" /\ gsv = TRUE /\ txn' \in Receipts
        /\ txn'.phase \in {"verifying_candidate", "setting_up_candidate"} /\ Kept(txn', txn)
        /\ UNCHANGED <<dir, gsv, seldRecover, bridge, app, vault, loc, proven, tainted, writes,
                       faults>>
    <3>1. txn \in Receipts /\ {"verifying_candidate", "setting_up_candidate"} \subseteq Phases
      BY DEF UpdateInv, Typed, Phases, MayHaveStartedBridge
    <3>2. \E ph \in {"verifying_candidate", "setting_up_candidate"} : AdvanceTo(ph, "protect")
      BY <1>1 DEF FinishCandidate
    <3>3. pc = "finish_candidate" /\ gsv = TRUE
            /\ UNCHANGED <<dir, gsv, seldRecover, bridge, app, vault, loc, proven, tainted,
                           writes, faults>>
      BY <1>1 DEF FinishCandidate, LinkVerified, host, ghosts, budget
    <3> QED BY <3>1, <3>2, <3>3, AdvanceIs
  <2>2. Typed' BY <2>1, UpdateAssumption DEF UpdateInv, Typed, Steps
  <2>3. Counted' BY <2>1, CountedKept DEF UpdateInv, Kept
  <2>4. Environments' BY <2>1 DEF UpdateInv, Environments
  <2>5. Receipted'
    BY <2>1
       DEF UpdateInv, Kept, Environments, Receipted, EarlyPhases, MayHaveStartedBridge,
           NativePhases
  <2>6. Applying' BY <2>1 DEF Applying, ApplySteps
  <2>7. RollingBack' BY <2>1 DEF RollingBack
  <2>8. Ending'
    BY <2>1
       DEF UpdateInv, Kept, Ending, CandidatePaths, ApplySteps, Finishing, Linked, Verified,
           Reconciled, MayHaveStartedBridge
  <2>9. SetupSafe'
    BY <2>1
       DEF UpdateInv, Kept, Environments, Receipted, Ending, SetupSafe, BridgeRunsActive,
           SetupBytesApproved, ResolvedClean, Resolved
  <2> QED BY <2>2, <2>3, <2>4, <2>5, <2>6, <2>7, <2>8, <2>9 DEF UpdateInv
<1>2. CASE ~LinkVerified
  <2>1. pc # "idle" /\ Throw
        /\ UNCHANGED <<dir, gsv, seldRecover, bridge, app, vault, ghosts, writes, faults>>
    BY <1>2 DEF FinishCandidate, host, budget
  <2> QED BY <2>1, ThrowFacts, ThrowInv
<1> QED BY <1>1, <1>2

\* The receipt says that the replaced runtime is back.
LEMMA AnchorRestoredInv == UpdateInv /\ AnchorRestored => UpdateInv'
<1> SUFFICES ASSUME UpdateInv, AnchorRestored PROVE UpdateInv'
  OBVIOUS
<1>1. /\ pc \in {"moved_back", "anchor"} /\ pc' = "link" /\ txn' \in Receipts
      /\ txn'.phase = "previous_restored" /\ txn'.outcome = txn.outcome
      /\ txn'.protected = txn.protected /\ txn'.launcher = txn.launcher
      /\ UNCHANGED <<dir, gsv, seldRecover, bridge, app, vault, loc, proven, tainted, writes,
                     faults>>
  <2>1. txn \in Receipts /\ "previous_restored" \in Phases BY DEF UpdateInv, Typed, Phases
  <2>2. /\ pc \in {"moved_back", "anchor"} /\ pc' = "link"
        /\ txn' = [txn EXCEPT !.phase = "previous_restored", !.recovery = "command"]
        /\ UNCHANGED <<dir, gsv, seldRecover, bridge, app, vault, loc, proven, tainted, writes,
                       faults>>
    BY DEF AnchorRestored, host, ghosts, budget
  <2> QED BY <2>1, <2>2 DEF Receipts
<1>2. Typed' BY <1>1, UpdateAssumption DEF UpdateInv, Typed, Steps
<1>3. Counted' BY <1>1, CountedKept DEF UpdateInv, Kept
<1>4. Environments' BY <1>1 DEF UpdateInv, Environments
<1>5. Receipted'
  BY <1>1
     DEF UpdateInv, Kept, Environments, Receipted, Applying, RollingBack, Ending, SetupSafe,
         BridgeRunsActive, EarlyPhases, MayHaveStartedBridge, NativePhases, ApplySteps,
         CandidatePaths, Finishing
<1>6. Applying' BY <1>1 DEF Applying, ApplySteps
<1>7. RollingBack' BY <1>1 DEF UpdateInv, RollingBack
<1>8. Ending'
  BY <1>1
     DEF UpdateInv, Kept, Ending, CandidatePaths, ApplySteps, Finishing, Linked, Verified,
         Reconciled, MayHaveStartedBridge
<1>9. SetupSafe'
  BY <1>1
     DEF UpdateInv, Kept, Environments, Receipted, Ending, SetupSafe, BridgeRunsActive,
         SetupBytesApproved, ResolvedClean, Resolved
<1> QED BY <1>2, <1>3, <1>4, <1>5, <1>6, <1>7, <1>8, <1>9 DEF UpdateInv

\* A restored runtime gets back its entry point.
LEMMA RepairLinkInv == UpdateInv /\ RepairLink => UpdateInv'
<1> SUFFICES ASSUME UpdateInv, RepairLink PROVE UpdateInv'
  OBVIOUS
<1>1. /\ pc = "link" /\ pc' = "protect" /\ gsv' = TRUE
      /\ UNCHANGED <<dir, seldRecover, bridge, app, vault, txn, loc, proven, tainted, writes,
                     faults>>
  BY DEF RepairLink, ghosts, budget
<1>2. Typed' BY <1>1, UpdateAssumption DEF UpdateInv, Typed, Steps
<1>3. Counted' BY <1>1, CountedKept DEF UpdateInv, Kept
<1>4. Environments' BY <1>1 DEF UpdateInv, Environments
<1>5. Receipted' BY <1>1 DEF UpdateInv, Receipted
<1>6. Applying' BY <1>1 DEF Applying, ApplySteps
<1>7. RollingBack' BY <1>1 DEF RollingBack
<1>8. Ending'
  BY <1>1
     DEF UpdateInv, Kept, Counted, RollingBack, Ending, CandidatePaths, Verified, Reconciled,
         MayHaveStartedBridge
<1>9. SetupSafe'
  BY <1>1 DEF UpdateInv, SetupSafe, BridgeRunsActive, SetupBytesApproved, ResolvedClean, Resolved
<1> QED BY <1>2, <1>3, <1>4, <1>5, <1>6, <1>7, <1>8, <1>9 DEF UpdateInv

\* The digest is frozen, unless the vault has moved since an earlier attempt.
LEMMA ProtectVaultInv == UpdateInv /\ ProtectVault => UpdateInv'
<1> SUFFICES ASSUME UpdateInv, ProtectVault PROVE UpdateInv'
  OBVIOUS
<1>1. CASE loc.path = "unchanged" /\ ~LinkVerified
  <2>1. MarkRepair("command")
        /\ UNCHANGED <<dir, gsv, seldRecover, bridge, app, vault, ghosts, writes, faults>>
    BY <1>1 DEF ProtectVault, host, budget
  <2> QED BY <2>1, ThrowFacts, RepairInv
<1>2. CASE ~(loc.path = "unchanged" /\ ~LinkVerified) /\ txn.protected \in {NoDigest, vault}
  <2>1. /\ pc = "protect" /\ pc' = IF loc.path = "unchanged" THEN "verify" ELSE "setup"
        /\ ~tainted /\ (loc.path = "unchanged" =>
             gsv = TRUE) /\ txn' \in Receipts /\ txn'.phase = txn.phase /\ txn'.outcome = txn.outcome
        /\ txn'.protected = vault /\ txn'.launcher = txn.launcher /\ txn'.bridgeWas = txn.bridgeWas
        /\ UNCHANGED <<dir, gsv, seldRecover, bridge, app, vault, loc, proven, tainted, writes,
                       faults>>
    <3>1. pc = "protect" /\ txn' = [txn EXCEPT !.protected = vault] /\ pc' = IF loc.path = "unchanged" THEN "verify" ELSE "setup"
      BY <1>2 DEF ProtectVault
    <3>2. UNCHANGED <<dir, gsv, seldRecover, bridge, app, vault, loc, proven, tainted, writes,
                      faults>>
      BY <1>2 DEF ProtectVault, host, ghosts, budget
    <3>3. loc.path = "unchanged" => gsv = TRUE BY <1>2 DEF LinkVerified
    <3>4. txn \in Receipts /\ vault \in 1..(1 + MaxWrites + MaxFaults) BY DEF UpdateInv, Typed
    <3>5. vault \in NoDigest..(1 + MaxWrites + MaxFaults) BY <3>4, UpdateAssumption DEF NoDigest
    <3>6. ~tainted BY <1>2, <3>4, UpdateAssumption DEF UpdateInv, Counted, NoDigest
    <3>7. /\ txn' \in Receipts /\ txn'.phase = txn.phase /\ txn'.outcome = txn.outcome
          /\ txn'.protected = vault /\ txn'.launcher = txn.launcher /\ txn'.bridgeWas = txn.bridgeWas
      BY <3>1, <3>4, <3>5 DEF Receipts
    <3> QED BY <3>1, <3>2, <3>3, <3>6, <3>7
  <2>2. Typed' BY <2>1, UpdateAssumption DEF UpdateInv, Typed, Steps
  <2>3. Counted' BY <2>1, UpdateAssumption DEF UpdateInv, Counted, Typed
  <2>4. Environments' BY <2>1 DEF UpdateInv, Environments
  <2>5. Receipted' BY <2>1 DEF UpdateInv, Receipted
  <2>6. Applying' BY <2>1 DEF Applying, ApplySteps
  <2>7. RollingBack' BY <2>1 DEF RollingBack
  <2>8. Ending'
    BY <2>1
       DEF UpdateInv, Kept, Ending, CandidatePaths, ApplySteps, Finishing, Linked, Verified,
           Reconciled, MayHaveStartedBridge
  <2>9. SetupSafe'
    BY <2>1
       DEF UpdateInv, Kept, Environments, Receipted, Ending, SetupSafe, BridgeRunsActive,
           SetupBytesApproved, ResolvedClean, Resolved
  <2> QED BY <2>2, <2>3, <2>4, <2>5, <2>6, <2>7, <2>8, <2>9 DEF UpdateInv
<1>3. CASE ~(loc.path = "unchanged" /\ ~LinkVerified) /\ txn.protected \notin {NoDigest, vault}
  <2>1. /\ pc # "idle" /\ (Throw \/ MarkRepair("reapproval"))
        /\ UNCHANGED <<dir, gsv, seldRecover, bridge, app, vault, ghosts, writes, faults>>
    BY <1>3 DEF ProtectVault, host, budget
  <2> QED BY <2>1, ThrowFacts, ThrowInv, RepairInv
<1> QED BY <1>1, <1>2, <1>3

\* The setup of the active runtime, which may start the Bridge.
LEMMA SetupInv == UpdateInv /\ Setup => UpdateInv'
<1> SUFFICES ASSUME UpdateInv, Setup PROVE UpdateInv'
  OBVIOUS
<1>1. /\ pc = "setup" /\ loc' \in Locals /\ loc'.path = loc.path /\ loc'.rc = 0
      /\ loc'.err = loc.err /\ pc' = "verify"
      /\ bridge' \in {bridge, dir.active} /\ dir.active \in Revisions
      /\ UNCHANGED <<dir, gsv, seldRecover, app, vault, txn, proven, tainted, writes, faults>>
  <2>1. pc = "setup" /\ dir.active \in Revisions
    BY DEF Setup, UpdateInv, Ending, Finishing, Linked, Revisions
  <2>2. StartedBridge \in {bridge, dir.active} BY DEF StartedBridge
  <2>3. loc \in Locals /\ loc' = [loc EXCEPT !.rc = 0] BY DEF Setup, UpdateInv, Typed
  <2>4. loc' \in Locals /\ loc'.path = loc.path /\ loc'.rc = 0 /\ loc'.err = loc.err
    BY <2>3 DEF Locals
  <2> QED BY <2>1, <2>2, <2>4 DEF Setup, ghosts, budget
<1>2. Typed' BY <1>1, UpdateAssumption DEF UpdateInv, Typed, Steps
<1>3. Counted' BY <1>1, CountedKept DEF UpdateInv, Kept
<1>4. Environments' BY <1>1 DEF UpdateInv, Environments
<1>5. Receipted' BY <1>1 DEF UpdateInv, Kept, Receipted, Ending
<1>6. Applying' BY <1>1 DEF Applying, ApplySteps
<1>7. RollingBack' BY <1>1 DEF RollingBack
<1>8. Ending'
  BY <1>1
     DEF UpdateInv, Kept, Ending, CandidatePaths, ApplySteps, Finishing, Linked, Verified,
         Reconciled, MayHaveStartedBridge
<1>9. SetupSafe'
  BY <1>1
     DEF UpdateInv, Kept, Environments, Receipted, Ending, SetupSafe, BridgeRunsActive,
         SetupBytesApproved, ResolvedClean, Resolved
<1> QED BY <1>2, <1>3, <1>4, <1>5, <1>6, <1>7, <1>8, <1>9 DEF UpdateInv

\* The setup of a candidate may leave the Bridge to be repaired.
LEMMA SetupBridgeRepairInv == UpdateInv /\ SetupBridgeRepair => UpdateInv'
<1> SUFFICES ASSUME UpdateInv, SetupBridgeRepair PROVE UpdateInv'
  OBVIOUS
<1>1. CASE loc.path \in CandidatePaths
  <2>1. /\ pc = "setup" /\ pc' = "verify" /\ loc' \in Locals /\ loc'.path = loc.path /\ loc'.rc = 4 /\ loc'.err = loc.err
        /\ faults' \in 0..MaxFaults /\ faults <= faults'
        /\ UNCHANGED <<dir, gsv, seldRecover, bridge, app, vault, txn, proven, tainted, writes>>
    <3>1. loc \in Locals /\ loc' = [loc EXCEPT !.rc = 4]
      BY <1>1 DEF SetupBridgeRepair, UpdateInv, Typed
    <3>2. loc' \in Locals /\ loc'.path = loc.path /\ loc'.rc = 4 /\ loc'.err = loc.err
      BY <3>1 DEF Locals
    <3>3. faults < MaxFaults /\ faults' = faults + 1 BY DEF SetupBridgeRepair, Fault
    <3> QED BY <1>1, <3>2, <3>3, ThrowFacts DEF SetupBridgeRepair, host, ghosts
  <2>2. Typed' BY <2>1, UpdateAssumption DEF UpdateInv, Typed, Steps
  <2>3. Counted' BY <2>1, CountedKept DEF UpdateInv, Kept
  <2>4. Environments' BY <2>1 DEF UpdateInv, Environments
  <2>5. Receipted' BY <2>1 DEF UpdateInv, Receipted
  <2>6. Applying' BY <2>1 DEF Applying, ApplySteps
  <2>7. RollingBack' BY <2>1 DEF RollingBack
  <2>8. Ending'
    BY <2>1
       DEF UpdateInv, Kept, Ending, CandidatePaths, ApplySteps, Finishing, Linked, Verified,
           Reconciled, MayHaveStartedBridge
  <2>9. SetupSafe'
    BY <2>1 DEF UpdateInv, SetupSafe, BridgeRunsActive, SetupBytesApproved, ResolvedClean, Resolved
  <2> QED BY <2>2, <2>3, <2>4, <2>5, <2>6, <2>7, <2>8, <2>9 DEF UpdateInv
<1>2. CASE loc.path \notin CandidatePaths
  <2>1. /\ MarkRepair("command")
        /\ UNCHANGED <<dir, gsv, seldRecover, bridge, app, vault, ghosts, writes>>
        /\ faults < MaxFaults /\ faults' = faults + 1
    BY <1>2 DEF SetupBridgeRepair, Fault, host
  <2> QED BY <2>1, ThrowFacts, RepairInv
<1> QED BY <1>1, <1>2

\* A setup that fails may have started the Bridge.
LEMMA SetupFailsInv == UpdateInv /\ SetupFails => UpdateInv'
<1> SUFFICES ASSUME UpdateInv, SetupFails PROVE UpdateInv'
  OBVIOUS
<1>1. /\ pc = "setup" /\ Throw /\ bridge' \in {bridge, StartedBridge}
      /\ UNCHANGED <<dir, gsv, seldRecover, app, vault, ghosts, writes>>
      /\ faults < MaxFaults /\ faults' = faults + 1
  BY DEF SetupFails, Fault
<1>2. dir.active \in Revisions /\ (loc.path \in CandidatePaths => txn.phase \in MayHaveStartedBridge)
      /\ (loc.path \notin CandidatePaths => dir.active = "from")
  BY <1>1 DEF UpdateInv, Ending, Finishing, Linked, Revisions
<1>3. StartedBridge \in {bridge, dir.active} BY DEF StartedBridge
<1>4. /\ bridge' \in Revisions \cup {"none"} /\ bridge' \in {"none", dir.active} /\ app' \in Apps
      /\ bridge' = "to" => txn.phase \in MayHaveStartedBridge
  BY <1>1, <1>2, <1>3, ThrowFacts
<1> QED BY <1>1, <1>4, ThrowFacts, ThrowInv

\* A setup that writes vault bytes is found by the audit.
LEMMA SetupWritesVaultInv == UpdateInv /\ SetupWritesVault => UpdateInv'
<1> SUFFICES ASSUME UpdateInv, SetupWritesVault PROVE UpdateInv'
  OBVIOUS
<1>1. /\ pc = "setup" /\ loc' \in Locals /\ loc'.path = loc.path /\ loc'.rc = 0
      /\ loc'.err = loc.err /\ pc' = "verify"
      /\ bridge' \in {bridge, dir.active} /\ dir.active \in Revisions
      /\ vault' = vault + 1 /\ tainted' = TRUE /\ faults < MaxFaults /\ faults' = faults + 1
      /\ UNCHANGED <<dir, gsv, seldRecover, app, txn, proven, writes>>
  <2>1. pc = "setup" /\ dir.active \in Revisions
    BY DEF SetupWritesVault, UpdateInv, Ending, Finishing, Linked, Revisions
  <2>2. StartedBridge \in {bridge, dir.active} BY DEF StartedBridge
  <2>3. loc \in Locals /\ loc' = [loc EXCEPT !.rc = 0] BY DEF SetupWritesVault, UpdateInv, Typed
  <2>4. loc' \in Locals /\ loc'.path = loc.path /\ loc'.rc = 0 /\ loc'.err = loc.err
    BY <2>3 DEF Locals
  <2> QED BY <2>1, <2>2, <2>4 DEF SetupWritesVault, Fault
<1>2. /\ vault \in Nat /\ vault >= 1 /\ writes \in 0..MaxWrites /\ faults \in Nat
      /\ vault <= 1 + writes + faults
      /\ txn.protected = vault
  BY <1>1, UpdateAssumption DEF UpdateInv, Typed, Counted, Ending
<1>3. vault' \in 1..(1 + MaxWrites + MaxFaults) /\ faults' \in 0..MaxFaults
  BY <1>1, <1>2, UpdateAssumption
<1>4. Typed' BY <1>1, <1>3, UpdateAssumption DEF UpdateInv, Typed, Steps
<1>5. Counted' BY <1>1, <1>2, <1>3, UpdateAssumption DEF Counted
<1>6. Environments' BY <1>1, <1>3 DEF UpdateInv, Environments
<1>7. Receipted' BY <1>1, <1>3 DEF UpdateInv, Kept, Receipted, Ending
<1>8. Applying' BY <1>1, <1>3 DEF Applying, ApplySteps
<1>9. RollingBack' BY <1>1, <1>3 DEF RollingBack
<1>10. Ending'
  BY <1>1, <1>3
     DEF UpdateInv, Kept, Ending, CandidatePaths, ApplySteps, Finishing, Linked, Verified,
         Reconciled, MayHaveStartedBridge
<1>11. SetupSafe'
  BY <1>1, <1>3
     DEF UpdateInv, Kept, Environments, Receipted, Ending, SetupSafe, BridgeRunsActive,
         SetupBytesApproved, ResolvedClean, Resolved, AuditedOutcomes, EarlyPhases, ApplySteps
<1> QED BY <1>4, <1>5, <1>6, <1>7, <1>8, <1>9, <1>10, <1>11 DEF UpdateInv

\* The runtime and the vault are audited.
LEMMA VerifyInv == UpdateInv /\ Verify => UpdateInv'
<1> SUFFICES ASSUME UpdateInv, Verify PROVE UpdateInv'
  OBVIOUS
<1>1. CASE RuntimeVerified /\ VaultAudited
  <2>1. /\ pc = "verify" /\ pc' = IF loc.path = "unchanged" THEN "native_unchanged" ELSE "native"
        /\ proven' \in BOOLEAN /\ (proven' <=> proven \/ loc.path \in CandidatePaths) /\ ~tainted
        /\ loc.rc = 0 => (bridge # "none") = txn.bridgeWas
        /\ UNCHANGED <<dir, gsv, seldRecover, bridge, app, vault, txn, loc, tainted, writes,
                       faults>>
    <3>1. txn.protected = vault /\ (loc.rc = 0 => (bridge # "none") = txn.bridgeWas)
      BY <1>1 DEF RuntimeVerified, VaultAudited
    <3>2. ~tainted BY <3>1, UpdateAssumption DEF UpdateInv, Counted
    <3> QED BY <1>1, <3>1, <3>2 DEF Verify, host, budget
  <2>2. Typed' BY <2>1, UpdateAssumption DEF UpdateInv, Typed, Steps
  <2>3. Counted' BY <2>1, CountedKept DEF UpdateInv, Kept
  <2>4. Environments' BY <2>1 DEF UpdateInv, Environments, Revisions
  <2>5. Receipted' BY <2>1 DEF UpdateInv, Receipted
  <2>6. Applying' BY <2>1 DEF Applying, ApplySteps
  <2>7. RollingBack' BY <2>1 DEF RollingBack
  <2>8. Ending'
    BY <2>1
       DEF UpdateInv, Kept, Ending, CandidatePaths, ApplySteps, Finishing, Linked, Verified,
           Reconciled, MayHaveStartedBridge
  <2>9. SetupSafe'
    BY <2>1 DEF UpdateInv, SetupSafe, BridgeRunsActive, SetupBytesApproved, ResolvedClean, Resolved
  <2> QED BY <2>2, <2>3, <2>4, <2>5, <2>6, <2>7, <2>8, <2>9 DEF UpdateInv
<1>2. CASE ~(RuntimeVerified /\ VaultAudited)
  <2>1. pc # "idle" /\ Throw
        /\ UNCHANGED <<dir, gsv, seldRecover, bridge, app, vault, ghosts, writes, faults>>
    BY <1>2 DEF Verify, host, ghosts, budget
  <2> QED BY <2>1, ThrowFacts, ThrowInv
<1> QED BY <1>1, <1>2

\* The native app is reconciled last.
LEMMA BeginNativeInv == UpdateInv /\ BeginNative => UpdateInv'
<1> SUFFICES ASSUME UpdateInv, BeginNative PROVE UpdateInv'
  OBVIOUS
<1>1. /\ pc = "native" /\ pc' = "native_status" /\ txn' \in Receipts /\ Kept(txn', txn)
      /\ txn'.phase = IF loc.path \in CandidatePaths THEN "activating_native_bridge" ELSE "restoring_native_bridge"
      /\ UNCHANGED <<dir, gsv, seldRecover, bridge, app, vault, loc, proven, tainted, writes,
                     faults>>
  <2>1. txn \in Receipts /\ {"activating_native_bridge", "restoring_native_bridge"} \subseteq Phases
    BY DEF UpdateInv, Typed, Phases, MayHaveStartedBridge, NativePhases
  <2>2. NativePhase(loc.path) \in Phases /\ AdvanceTo(NativePhase(loc.path), "native_status")
    BY <2>1 DEF BeginNative, NativePhase
  <2> QED BY <2>1, <2>2, AdvanceIs DEF BeginNative, NativePhase, host, ghosts, budget
<1>2. Typed' BY <1>1, UpdateAssumption DEF UpdateInv, Typed, Steps
<1>3. Counted' BY <1>1, CountedKept DEF UpdateInv, Kept
<1>4. Environments' BY <1>1 DEF UpdateInv, Environments
<1>5. Receipted'
  BY <1>1
     DEF UpdateInv, Kept, Environments, Receipted, Ending, SetupSafe, BridgeRunsActive,
         EarlyPhases, MayHaveStartedBridge, NativePhases
<1>6. Applying' BY <1>1 DEF Applying, ApplySteps
<1>7. RollingBack' BY <1>1 DEF RollingBack
<1>8. Ending'
  BY <1>1
     DEF UpdateInv, Kept, Ending, CandidatePaths, ApplySteps, Finishing, Linked, Verified,
         Reconciled, MayHaveStartedBridge
<1>9. SetupSafe'
  BY <1>1
     DEF UpdateInv, Kept, Environments, Receipted, Ending, SetupSafe, BridgeRunsActive,
         SetupBytesApproved, ResolvedClean, Resolved
<1> QED BY <1>2, <1>3, <1>4, <1>5, <1>6, <1>7, <1>8, <1>9 DEF UpdateInv

\* The end of the reconciliation: the receipt names the app as it is.
LEMMA ReconciledInv ==
  ASSUME UpdateInv, pc \in {"native_status", "native_record"}, NativeReconciled(app.rev),
         app.sha = IF txn.appWas THEN dir.active ELSE "none",
         UNCHANGED <<dir, gsv, seldRecover, bridge, app, vault, loc, proven, tainted, writes,
                     faults>>
  PROVE  UpdateInv'
<1>1. /\ txn' \in Receipts /\ Kept(txn', txn)
      /\ txn'.phase = IF loc.path \in CandidatePaths THEN "native_bridge_activated" ELSE "native_bridge_restored"
      /\ pc' = IF loc.path \in CandidatePaths THEN "clean" ELSE "remove"
  <2>1. /\ txn \in Receipts /\ app.rev \in Nat
        /\ {"native_bridge_activated", "native_bridge_restored"} \subseteq Phases
    BY DEF UpdateInv, Typed, Apps, Phases, MayHaveStartedBridge, NativePhases
  <2>2. PICK ph \in Phases :
          /\ ph = IF loc.path \in CandidatePaths THEN "native_bridge_activated" ELSE "native_bridge_restored"
          /\ txn' = [txn EXCEPT !.phase = ph, !.rev = app.rev]
    BY <2>1 DEF NativeReconciled
  <2>3. txn' \in Receipts /\ Kept(txn', txn) /\ txn'.phase = ph BY <2>1, <2>2 DEF Receipts, Kept
  <2> QED BY <2>2, <2>3 DEF NativeReconciled
<1>2. Typed' BY <1>1, UpdateAssumption DEF UpdateInv, Typed, Steps
<1>3. Counted' BY <1>1, CountedKept DEF UpdateInv, Kept
<1>4. Environments' BY <1>1 DEF UpdateInv, Environments
<1>5. Receipted'
  BY <1>1
     DEF UpdateInv, Kept, Environments, Receipted, Ending, SetupSafe, BridgeRunsActive,
         EarlyPhases, MayHaveStartedBridge, NativePhases
<1>6. Applying' BY <1>1 DEF Applying, ApplySteps
<1>7. RollingBack' BY <1>1 DEF RollingBack
<1>8. Ending'
  BY <1>1
     DEF UpdateInv, Kept, Ending, CandidatePaths, ApplySteps, Finishing, Linked, Verified,
         Reconciled, MayHaveStartedBridge
<1>9. SetupSafe'
  BY <1>1
     DEF UpdateInv, Kept, Environments, Receipted, Ending, SetupSafe, BridgeRunsActive,
         SetupBytesApproved, ResolvedClean, Resolved
<1> QED BY <1>2, <1>3, <1>4, <1>5, <1>6, <1>7, <1>8, <1>9 DEF UpdateInv

\* The app is as the receipt says, has to be replaced, or is someone else's.
LEMMA NativeStatusInv == UpdateInv /\ NativeStatus => UpdateInv'
<1> SUFFICES ASSUME UpdateInv, NativeStatus PROVE UpdateInv'
  OBVIOUS
<1>1. pc = "native_status"
        /\ UNCHANGED <<dir, gsv, seldRecover, bridge, app, vault, proven, tainted, writes, faults>>
  BY DEF NativeStatus, host, ghosts, budget
<1>2. CASE /\ txn.appWas = (app.sha # "none")
           /\ txn.appWas => app.sha = dir.active
           /\ NativeReconciled(app.rev) /\ UNCHANGED loc
  <2>1. app.sha = IF txn.appWas THEN dir.active ELSE "none" BY <1>2
  <2> QED BY <1>1, <1>2, <2>1, ReconciledInv
<1>3. CASE /\ txn.appWas /\ app.rev = txn.rev
           /\ loc' = [loc EXCEPT !.seen = app.rev] /\ pc' = "native_install" /\ UNCHANGED txn
  <2>1. /\ pc = "native_status" /\ pc' = "native_install" /\ txn.appWas
        /\ loc' \in Locals /\ loc'.path = loc.path /\ loc'.rc = loc.rc /\ loc'.err = loc.err
        /\ UNCHANGED <<dir, gsv, seldRecover, bridge, app, vault, txn, proven, tainted, writes,
                       faults>>
    <3>1. loc \in Locals /\ app.rev \in Nat BY DEF UpdateInv, Typed, Apps
    <3>2. loc' \in Locals /\ loc'.path = loc.path /\ loc'.rc = loc.rc /\ loc'.err = loc.err
      BY <1>3, <3>1 DEF Locals
    <3> QED BY <1>1, <1>3, <3>2
  <2>2. Typed' BY <2>1, UpdateAssumption DEF UpdateInv, Typed, Steps
  <2>3. Counted' BY <2>1, CountedKept DEF UpdateInv, Kept
  <2>4. Environments' BY <2>1 DEF UpdateInv, Environments
  <2>5. Receipted' BY <2>1 DEF UpdateInv, Receipted
  <2>6. Applying' BY <2>1 DEF Applying, ApplySteps
  <2>7. RollingBack' BY <2>1 DEF RollingBack
  <2>8. Ending'
    BY <2>1
       DEF UpdateInv, Kept, Ending, CandidatePaths, ApplySteps, Finishing, Linked, Verified,
           Reconciled, MayHaveStartedBridge
  <2>9. SetupSafe'
    BY <2>1 DEF UpdateInv, SetupSafe, BridgeRunsActive, SetupBytesApproved, ResolvedClean, Resolved
  <2> QED BY <2>2, <2>3, <2>4, <2>5, <2>6, <2>7, <2>8, <2>9 DEF UpdateInv
<1>4. CASE Throw
  <2>1. pc # "idle"
        /\ UNCHANGED <<dir, gsv, seldRecover, bridge, app, vault, ghosts, writes, faults>>
    BY <1>1 DEF ghosts
  <2> QED BY <1>4, <2>1, ThrowFacts, ThrowInv
<1> QED BY <1>2, <1>3, <1>4 DEF NativeStatus

\* The app is replaced, by compare-and-swap.
LEMMA NativeInstallInv == UpdateInv /\ NativeInstall => UpdateInv'
<1> SUFFICES ASSUME UpdateInv, NativeInstall PROVE UpdateInv'
  OBVIOUS
<1>1. /\ pc = "native_install"
      /\ UNCHANGED <<dir, gsv, seldRecover, bridge, vault, proven, tainted, writes, faults>>
  BY DEF NativeInstall, ghosts, budget
<1>2. CASE app.rev = loc.seen
  <2>1. /\ pc = "native_install" /\ pc' = "native_record" /\ app' \in Apps /\ app'.sha = dir.active
        /\ loc' \in Locals /\ loc'.path = loc.path /\ loc'.rc = loc.rc /\ loc'.err = loc.err
        /\ UNCHANGED <<dir, gsv, seldRecover, bridge, vault, txn, proven, tainted, writes, faults>>
    <3>1. loc \in Locals /\ app.rev \in Nat /\ app.rev + 1 \in Nat /\ dir.active \in Revisions
      BY <1>1
         DEF UpdateInv, Typed, Apps, Ending, Finishing, Linked, Verified, CandidatePaths,
             Revisions
    <3>2. /\ pc' = "native_record" /\ app' = [sha |-> dir.active, rev |-> app.rev + 1] /\ txn' = txn
          /\ loc' = [loc EXCEPT !.seen = app.rev + 1]
      BY <1>2 DEF NativeInstall
    <3>3. loc' \in Locals /\ loc'.path = loc.path /\ loc'.rc = loc.rc /\ loc'.err = loc.err
      BY <3>1, <3>2 DEF Locals
    <3>4. app' \in Apps /\ app'.sha = dir.active BY <3>1, <3>2 DEF Apps
    <3> QED BY <1>1, <3>2, <3>3, <3>4
  <2>2. Typed' BY <2>1, UpdateAssumption DEF UpdateInv, Typed, Steps
  <2>3. Counted' BY <2>1, CountedKept DEF UpdateInv, Kept
  <2>4. Environments' BY <2>1 DEF UpdateInv, Environments
  <2>5. Receipted' BY <2>1 DEF UpdateInv, Receipted
  <2>6. Applying' BY <2>1 DEF Applying, ApplySteps
  <2>7. RollingBack' BY <2>1 DEF RollingBack
  <2>8. Ending'
    BY <2>1
       DEF UpdateInv, Kept, Ending, CandidatePaths, ApplySteps, Finishing, Linked, Verified,
           Reconciled, MayHaveStartedBridge
  <2>9. SetupSafe'
    BY <2>1
       DEF UpdateInv, Kept, Environments, Ending, SetupSafe, BridgeRunsActive,
           SetupBytesApproved, ResolvedClean, Resolved
  <2> QED BY <2>2, <2>3, <2>4, <2>5, <2>6, <2>7, <2>8, <2>9 DEF UpdateInv
<1>3. CASE app.rev # loc.seen
  <2>1. pc # "idle" /\ Throw
        /\ UNCHANGED <<dir, gsv, seldRecover, bridge, app, vault, ghosts, writes, faults>>
    BY <1>1, <1>3 DEF NativeInstall, ghosts
  <2> QED BY <2>1, ThrowFacts, ThrowInv
<1> QED BY <1>2, <1>3

\* The replacement is there and its answer is not.
LEMMA NativeInstallUnansweredInv == UpdateInv /\ NativeInstallUnanswered => UpdateInv'
<1> SUFFICES ASSUME UpdateInv, NativeInstallUnanswered PROVE UpdateInv'
  OBVIOUS
<1>1. /\ pc = "native_install" /\ Throw /\ app' = [sha |-> dir.active, rev |-> app.rev + 1]
      /\ UNCHANGED <<dir, gsv, seldRecover, bridge, vault, ghosts, writes>>
      /\ faults < MaxFaults /\ faults' = faults + 1
  BY DEF NativeInstallUnanswered, Fault
<1>2. app.rev + 1 \in Nat /\ dir.active \in Revisions
  BY <1>1 DEF UpdateInv, Typed, Apps, Ending, Finishing, Linked, Verified, CandidatePaths, Revisions
<1>3. app' \in Apps BY <1>1, <1>2 DEF Apps
<1> QED BY <1>1, <1>3, ThrowFacts, ThrowInv

\* The receipt records the replaced app.
LEMMA NativeRecordInv == UpdateInv /\ NativeRecord => UpdateInv'
<1> SUFFICES ASSUME UpdateInv, NativeRecord PROVE UpdateInv'
  OBVIOUS
<1>1. pc = "native_record"
        /\ UNCHANGED <<dir, gsv, seldRecover, bridge, app, vault, proven, tainted, writes, faults>>
  BY DEF NativeRecord, host, ghosts, budget
<1>2. CASE app.rev = loc.seen
  <2>1. app.sha = IF txn.appWas THEN dir.active ELSE "none" BY <1>1 DEF UpdateInv, Ending
  <2> QED BY <1>1, <1>2, <2>1, ReconciledInv DEF NativeRecord
<1>3. CASE app.rev # loc.seen
  <2>1. pc # "idle" /\ Throw
        /\ UNCHANGED <<dir, gsv, seldRecover, bridge, app, vault, ghosts, writes, faults>>
    BY <1>1, <1>3 DEF NativeRecord, ghosts
  <2> QED BY <2>1, ThrowFacts, ThrowInv
<1> QED BY <1>2, <1>3

\* An update that stopped early left the app alone.
LEMMA NativeUnchangedInv == UpdateInv /\ NativeUnchanged => UpdateInv'
<1> SUFFICES ASSUME UpdateInv, NativeUnchanged PROVE UpdateInv'
  OBVIOUS
<1>1. pc = "native_unchanged"
        /\ UNCHANGED <<dir, gsv, seldRecover, bridge, app, vault, proven, tainted, writes, faults>>
  BY DEF NativeUnchanged, host, ghosts, budget
<1>2. CASE pc' = "clean"
        /\ UNCHANGED <<txn, loc>> /\ app.sha = IF txn.appWas THEN dir.active ELSE "none"
  <2>1. Typed' BY <1>1, <1>2, UpdateAssumption DEF UpdateInv, Typed, Steps
  <2>2. Counted' BY <1>1, <1>2, CountedKept DEF UpdateInv, Kept
  <2>3. Environments' BY <1>1, <1>2 DEF UpdateInv, Environments
  <2>4. Receipted' BY <1>1, <1>2 DEF UpdateInv, Receipted
  <2>5. Applying' BY <1>1, <1>2 DEF Applying, ApplySteps
  <2>6. RollingBack' BY <1>1, <1>2 DEF RollingBack
  <2>7. Ending'
    BY <1>1, <1>2 DEF UpdateInv, Ending, CandidatePaths, ApplySteps, Finishing, Linked
  <2>8. SetupSafe'
    BY <1>1, <1>2
       DEF UpdateInv, SetupSafe, BridgeRunsActive, SetupBytesApproved, ResolvedClean, Resolved
  <2> QED BY <2>1, <2>2, <2>3, <2>4, <2>5, <2>6, <2>7, <2>8 DEF UpdateInv
<1>3. CASE MarkRepair("command")
  <2>1. pc # "idle"
        /\ UNCHANGED <<dir, gsv, seldRecover, bridge, app, vault, ghosts, writes, faults>>
    BY <1>1 DEF ghosts
  <2> QED BY <1>3, <2>1, ThrowFacts, RepairInv
<1> QED BY <1>2, <1>3 DEF NativeUnchanged

\* The recovery launcher the receipt records is removed.
LEMMA CleanLauncherInv == UpdateInv /\ CleanLauncher => UpdateInv'
<1> SUFFICES ASSUME UpdateInv, CleanLauncher PROVE UpdateInv'
  OBVIOUS
<1>1. /\ pc = "clean" /\ pc' = AfterClean /\ seldRecover' = (seldRecover /\ ~txn.launcher)
      /\ UNCHANGED <<dir, gsv, bridge, app, vault, txn, loc, proven, tainted, writes, faults>>
  BY DEF CleanLauncher, ghosts, budget
<1>2. /\ pc' = IF loc.path \in CandidatePaths /\ loc.rc = 0 THEN "remove" ELSE "complete"
      /\ seldRecover' = FALSE
  BY <1>1 DEF AfterClean, UpdateInv, Receipted
<1>3. Typed' BY <1>1, <1>2, UpdateAssumption DEF UpdateInv, Typed, Steps
<1>4. Counted' BY <1>1, <1>2, CountedKept DEF UpdateInv, Kept
<1>5. Environments' BY <1>1, <1>2 DEF UpdateInv, Environments, Ending, Linked, Verified
<1>6. Receipted' BY <1>1, <1>2 DEF UpdateInv, Receipted
<1>7. Applying' BY <1>1, <1>2 DEF Applying, ApplySteps
<1>8. RollingBack' BY <1>1, <1>2 DEF RollingBack
<1>9. Ending'
  BY <1>1, <1>2
     DEF UpdateInv, Kept, Ending, CandidatePaths, ApplySteps, Finishing, Linked, Verified,
         Reconciled, MayHaveStartedBridge
<1>10. SetupSafe'
  BY <1>1, <1>2
     DEF UpdateInv, SetupSafe, BridgeRunsActive, SetupBytesApproved, ResolvedClean, Resolved
<1> QED BY <1>3, <1>4, <1>5, <1>6, <1>7, <1>8, <1>9, <1>10 DEF UpdateInv

\* It could not be removed.
LEMMA CleanLauncherFailsInv == UpdateInv /\ CleanLauncherFails => UpdateInv'
<1> SUFFICES ASSUME UpdateInv, CleanLauncherFails PROVE UpdateInv'
  OBVIOUS
<1>1. /\ pc = "clean"
      /\ pc' = IF loc.path \in CandidatePaths /\ loc.rc = 0 THEN "remove" ELSE "complete"
      /\ loc' \in Locals /\ loc'.path = loc.path /\ loc'.rc = loc.rc /\ loc'.err = TRUE
      /\ faults' \in 0..MaxFaults /\ faults <= faults'
      /\ UNCHANGED <<dir, gsv, seldRecover, bridge, app, vault, txn, proven, tainted, writes>>
  <2>1. loc \in Locals /\ loc' = [loc EXCEPT !.err = TRUE]
    BY DEF CleanLauncherFails, UpdateInv, Typed
  <2>2. loc' \in Locals /\ loc'.path = loc.path /\ loc'.rc = loc.rc /\ loc'.err = TRUE
    BY <2>1 DEF Locals
  <2>3. faults < MaxFaults /\ faults' = faults + 1 BY DEF CleanLauncherFails, Fault
  <2> QED BY <2>2, <2>3, ThrowFacts DEF CleanLauncherFails, AfterClean, host, ghosts
<1>2. Typed' BY <1>1, UpdateAssumption DEF UpdateInv, Typed, Steps
<1>3. Counted' BY <1>1, CountedKept DEF UpdateInv, Kept
<1>4. Environments' BY <1>1 DEF UpdateInv, Environments
<1>5. Receipted' BY <1>1 DEF UpdateInv, Receipted
<1>6. Applying' BY <1>1 DEF Applying, ApplySteps
<1>7. RollingBack' BY <1>1 DEF RollingBack
<1>8. Ending'
  BY <1>1
     DEF UpdateInv, Kept, Ending, CandidatePaths, ApplySteps, Finishing, Linked, Verified,
         Reconciled, MayHaveStartedBridge
<1>9. SetupSafe'
  BY <1>1 DEF UpdateInv, SetupSafe, BridgeRunsActive, SetupBytesApproved, ResolvedClean, Resolved
<1> QED BY <1>2, <1>3, <1>4, <1>5, <1>6, <1>7, <1>8, <1>9 DEF UpdateInv

\* The environment nobody needs any more is removed.
LEMMA RemoveObsoleteInv == UpdateInv /\ RemoveObsolete => UpdateInv'
<1> SUFFICES ASSUME UpdateInv, RemoveObsolete PROVE UpdateInv'
  OBVIOUS
<1>1. /\ pc = "remove" /\ pc' = IF loc.path \in CandidatePaths THEN "complete" ELSE "clean"
      /\ loc.path \in CandidatePaths => dir' = [dir EXCEPT !.previous = "none"]
      /\ loc.path \notin CandidatePaths => dir' = [dir EXCEPT !.failed = "none"]
      /\ UNCHANGED <<gsv, seldRecover, bridge, app, vault, txn, loc, proven, tainted, writes,
                     faults>>
  BY DEF RemoveObsolete, AfterRemove, Obsolete, ghosts, budget
<1>2. /\ dir' \in [{"active", "previous", "failed"} -> Contents] /\ dir'.active = dir.active
      /\ loc.path \in CandidatePaths => dir'.previous = "none" /\ dir'.failed = dir.failed
      /\ loc.path \notin CandidatePaths => dir'.failed = "none" /\ dir'.previous = dir.previous
  BY <1>1 DEF UpdateInv, Typed, Contents
<1>3. Typed' BY <1>1, <1>2, UpdateAssumption DEF UpdateInv, Typed, Steps
<1>4. Counted' BY <1>1, <1>2, CountedKept DEF UpdateInv, Kept
<1>5. Environments'
  BY <1>1, <1>2 DEF UpdateInv, Environments, Ending, Revisions, Finishing, Linked, Verified
<1>6. Receipted' BY <1>1, <1>2 DEF UpdateInv, Receipted
<1>7. Applying' BY <1>1, <1>2 DEF Applying, ApplySteps
<1>8. RollingBack' BY <1>1, <1>2 DEF RollingBack
<1>9. Ending'
  BY <1>1, <1>2
     DEF UpdateInv, Kept, Ending, CandidatePaths, ApplySteps, Finishing, Linked, Verified,
         Reconciled, MayHaveStartedBridge
<1>10. SetupSafe'
  BY <1>1, <1>2
     DEF UpdateInv, SetupSafe, BridgeRunsActive, SetupBytesApproved, ResolvedClean, Resolved
<1> QED BY <1>3, <1>4, <1>5, <1>6, <1>7, <1>8, <1>9, <1>10 DEF UpdateInv

\* Or part of it is left.
LEMMA RemoveObsoleteFailsInv == UpdateInv /\ RemoveObsoleteFails => UpdateInv'
<1> SUFFICES ASSUME UpdateInv, RemoveObsoleteFails PROVE UpdateInv'
  OBVIOUS
<1>1. /\ pc = "remove" /\ pc' = IF loc.path \in CandidatePaths THEN "complete" ELSE "clean"
      /\ loc' \in Locals /\ loc'.path = loc.path /\ loc'.rc = loc.rc /\ loc'.err = TRUE
      /\ faults' \in 0..MaxFaults /\ faults <= faults'
      /\ UNCHANGED <<gsv, seldRecover, bridge, app, vault, txn, proven, tainted, writes>>
  <2>1. loc \in Locals /\ loc' = [loc EXCEPT !.err = TRUE]
    BY DEF RemoveObsoleteFails, UpdateInv, Typed
  <2>2. loc' \in Locals /\ loc'.path = loc.path /\ loc'.rc = loc.rc /\ loc'.err = TRUE
    BY <2>1 DEF Locals
  <2>3. faults < MaxFaults /\ faults' = faults + 1 BY DEF RemoveObsoleteFails, Fault
  <2> QED BY <2>2, <2>3, ThrowFacts DEF RemoveObsoleteFails, AfterRemove, ghosts
<1>2. /\ loc.path \in CandidatePaths => /\ dir.previous # "none"
                                       /\ \E left \in {dir.previous, "partial"} : dir' = [dir EXCEPT !.previous = left]
      /\ loc.path \notin CandidatePaths => /\ dir.failed # "none"
                                          /\ \E left \in {dir.failed, "partial"} : dir' = [dir EXCEPT !.failed = left]
  BY DEF RemoveObsoleteFails, Obsolete
<1>3. /\ dir' \in [{"active", "previous", "failed"} -> Contents] /\ dir'.active = dir.active
      /\ loc.path \in CandidatePaths =>
           /\ dir'.previous \in {dir.previous, "partial"} /\ dir.previous # "none"
                                       /\ dir'.failed = dir.failed
      /\ loc.path \notin CandidatePaths =>
           /\ dir'.failed \in {dir.failed, "partial"} /\ dir.failed # "none"
                                          /\ dir'.previous = dir.previous
  <2>1. dir \in [{"active", "previous", "failed"} -> Contents] BY DEF UpdateInv, Typed
  <2>2. CASE loc.path \in CandidatePaths BY <1>2, <2>1, <2>2 DEF Contents
  <2>3. CASE loc.path \notin CandidatePaths BY <1>2, <2>1, <2>3 DEF Contents
  <2> QED BY <2>2, <2>3
<1>4. Typed' BY <1>1, <1>3, UpdateAssumption DEF UpdateInv, Typed, Steps
<1>5. Counted' BY <1>1, <1>3, CountedKept DEF UpdateInv, Kept
<1>6. Environments'
  BY <1>1, <1>3 DEF UpdateInv, Environments, Ending, Revisions, Finishing, Linked, Verified
<1>7. Receipted' BY <1>1, <1>3 DEF UpdateInv, Receipted
<1>8. Applying' BY <1>1, <1>3 DEF Applying, ApplySteps
<1>9. RollingBack' BY <1>1, <1>3 DEF RollingBack
<1>10. Ending'
  BY <1>1, <1>3
     DEF UpdateInv, Kept, Ending, CandidatePaths, ApplySteps, Finishing, Linked, Verified,
         Reconciled, MayHaveStartedBridge
<1>11. SetupSafe'
  BY <1>1, <1>3
     DEF UpdateInv, SetupSafe, BridgeRunsActive, SetupBytesApproved, ResolvedClean, Resolved
<1> QED BY <1>4, <1>5, <1>6, <1>7, <1>8, <1>9, <1>10, <1>11 DEF UpdateInv

\* The receipt is closed.
LEMMA CompleteInv == UpdateInv /\ Complete => UpdateInv'
<1> SUFFICES ASSUME UpdateInv, Complete PROVE UpdateInv'
  OBVIOUS
<1>1. /\ pc = "complete" /\ pc' = "idle" /\ loc' = NoLocals /\ loc' \in Locals /\ txn' \in Receipts
      /\ txn'.phase = "complete" /\ txn'.protected = txn.protected /\ txn'.launcher = txn.launcher
      /\ txn'.bridgeWas = txn.bridgeWas /\ txn'.appWas = txn.appWas
      /\ txn'.outcome = IF loc.path \notin CandidatePaths THEN "rolled_back"
                        ELSE IF loc.rc = 4 THEN "installed_bridge_repair" ELSE "installed"
      /\ txn'.recovery = "none" => ~loc.err /\ loc.rc # 4
      /\ UNCHANGED <<dir, gsv, seldRecover, bridge, app, vault, proven, tainted, writes, faults>>
  <2>1. PICK out \in TerminalOutcomes, rec \in {"none", "command"} :
          /\ out = IF loc.path \notin CandidatePaths THEN "rolled_back"
                   ELSE IF loc.rc = 4 THEN "installed_bridge_repair" ELSE "installed"
          /\ rec = "none" => ~loc.err /\ loc.rc # 4
          /\ txn' = [txn EXCEPT !.phase = "complete", !.outcome = out, !.recovery = rec]
    BY DEF Complete, RecoveryLeft, TerminalOutcomes, AuditedOutcomes
  <2>2. txn \in Receipts /\ "complete" \in Phases BY DEF UpdateInv, Typed, Phases
  <2>3. /\ txn' \in Receipts /\ txn'.phase = "complete" /\ txn'.protected = txn.protected
        /\ txn'.launcher = txn.launcher /\ txn'.bridgeWas = txn.bridgeWas /\ txn'.appWas = txn.appWas
        /\ txn'.outcome = out /\ txn'.recovery = rec
    BY <2>1, <2>2 DEF Receipts
  <2>4. NoLocals \in Locals BY DEF NoLocals, Locals, Paths
  <2> QED BY <2>1, <2>3, <2>4 DEF Complete, host, ghosts, budget
<1>2. loc.rc \in {0, 4} BY DEF UpdateInv, Typed, Locals
<1>3. Typed' BY <1>1, <1>2, UpdateAssumption DEF UpdateInv, Typed, Steps
<1>4. Counted' BY <1>1, <1>2, CountedKept DEF UpdateInv, Kept
<1>5. Environments' BY <1>1, <1>2 DEF UpdateInv, Environments
<1>6. Receipted'
  BY <1>1, <1>2 DEF UpdateInv, Environments, Receipted, BridgeRunsActive, EarlyPhases
<1>7. Applying' BY <1>1, <1>2 DEF Applying, ApplySteps
<1>8. RollingBack' BY <1>1, <1>2 DEF RollingBack
<1>9. Ending'
  BY <1>1, <1>2
     DEF Ending, CandidatePaths, ApplySteps, Finishing, Linked, Verified, Reconciled,
         MayHaveStartedBridge, NativePhases, NoLocals
<1>10. SetupSafe'
  <2>1. BridgeRunsActive' BY <1>1 DEF UpdateInv, SetupSafe, BridgeRunsActive
  <2>2. SetupBytesApproved' BY <1>1 DEF UpdateInv, Ending, Verified, SetupBytesApproved
  <2>3. ASSUME Resolved'
        PROVE  /\ ~loc.err /\ loc.rc = 0
               /\ txn'.outcome = IF loc.path \notin CandidatePaths THEN "rolled_back" ELSE "installed"
    BY <1>1, <1>2, <2>3 DEF Resolved
  <2>4. ASSUME Resolved' PROVE gsv /\ ~seldRecover /\ dir.previous = "none"
    BY <1>1, <2>3, <2>4 DEF UpdateInv, Environments, Ending, Linked, Verified
  <2>5. ASSUME Resolved' PROVE dir.failed = "none"
    <3>1. loc.path \in Paths BY DEF UpdateInv, Typed, Locals
    <3>2. CASE loc.path \in CandidatePaths
      BY <1>1, <3>2 DEF UpdateInv, Environments, Ending, Finishing, Linked, Verified
    <3>3. CASE loc.path \notin CandidatePaths
      BY <1>1, <2>3, <2>5, <3>1, <3>3 DEF UpdateInv, Ending, Paths, CandidatePaths
    <3> QED BY <3>2, <3>3
  <2>6. ASSUME Resolved' PROVE dir.active = IF txn'.outcome = "installed" THEN "to" ELSE "from"
    BY <1>1, <2>3, <2>6 DEF UpdateInv, Ending, Finishing, Linked, Verified
  <2>7. ASSUME Resolved'
        PROVE  (bridge # "none") = txn.bridgeWas /\ app.sha = IF txn.appWas THEN dir.active ELSE "none"
    BY <1>1, <2>3, <2>7 DEF UpdateInv, Ending, Verified, Reconciled
  <2>8. ResolvedClean' BY <1>1, <2>4, <2>5, <2>6, <2>7 DEF ResolvedClean
  <2> QED BY <2>1, <2>2, <2>8 DEF SetupSafe
<1> QED BY <1>3, <1>4, <1>5, <1>6, <1>7, <1>8, <1>9, <1>10 DEF UpdateInv

----------------------------------------
(* Rolling back and recovering *)

\* What is there decides how far the rollback has to go.
LEMMA RollbackInv == UpdateInv /\ Rollback => UpdateInv'
<1> SUFFICES ASSUME UpdateInv, Rollback PROVE UpdateInv'
  OBVIOUS
<1>1. CASE dir.previous = "none" /\ Sha("active") = "from"
  <2>1. /\ pc = "rollback" /\ dir.active = "from" /\ txn' \in Receipts /\ Kept(txn', txn) /\ txn'.phase = "restoring_previous"
        /\ loc' \in Locals /\ ~loc'.err /\ loc'.rc = 0
        /\ loc'.path = IF txn.phase \in EarlyPhases THEN "unchanged" ELSE "restored"
        /\ pc' = IF txn.phase \in EarlyPhases THEN "protect" ELSE "anchor"
        /\ UNCHANGED <<dir, gsv, seldRecover, bridge, app, vault, proven, tainted, writes, faults>>
    <3>1. /\ pc = "rollback" /\ txn' = [txn EXCEPT !.phase = "restoring_previous"]
          /\ loc' = [NoLocals EXCEPT !.path = IF txn.phase \in EarlyPhases THEN "unchanged" ELSE "restored"]
          /\ pc' = IF txn.phase \in EarlyPhases THEN "protect" ELSE "anchor"
          /\ UNCHANGED <<dir, gsv, seldRecover, bridge, app, vault, proven, tainted, writes,
                         faults>>
      BY <1>1 DEF Rollback, host, ghosts, budget
    <3>2. dir.active = "from" BY <1>1 DEF Sha, Revisions
    <3>3. PICK pa \in {"unchanged", "restored"} :
            /\ pa = IF txn.phase \in EarlyPhases THEN "unchanged" ELSE "restored"
            /\ loc' = [NoLocals EXCEPT !.path = pa]
      BY <3>1
    <3>4. loc' \in Locals /\ ~loc'.err /\ loc'.rc = 0 /\ loc'.path = pa
      BY <3>3 DEF NoLocals, Locals, Paths
    <3>5. txn \in Receipts /\ "restoring_previous" \in Phases BY DEF UpdateInv, Typed, Phases
    <3>6. txn' \in Receipts /\ Kept(txn', txn) /\ txn'.phase = "restoring_previous"
      BY <3>1, <3>5 DEF Receipts, Kept
    <3> QED BY <3>1, <3>2, <3>3, <3>4, <3>6
  <2>2. Typed' BY <2>1, UpdateAssumption DEF UpdateInv, Typed, Steps
  <2>3. Counted' BY <2>1, CountedKept DEF UpdateInv, Kept
  <2>4. Environments' BY <2>1 DEF UpdateInv, Environments
  <2>5. Receipted'
    BY <2>1
       DEF UpdateInv, Kept, Environments, Receipted, Ending, SetupSafe, BridgeRunsActive,
           EarlyPhases
  <2>6. Applying' BY <2>1 DEF Applying, ApplySteps
  <2>7. RollingBack' BY <2>1 DEF RollingBack
  <2>8. Ending'
    BY <2>1
       DEF UpdateInv, Kept, Receipted, Applying, RollingBack, Ending, CandidatePaths, ApplySteps,
           Finishing, Linked, Verified, Reconciled, MayHaveStartedBridge
  <2>9. SetupSafe'
    BY <2>1
       DEF UpdateInv, Kept, Environments, Receipted, Ending, SetupSafe, BridgeRunsActive,
           SetupBytesApproved, ResolvedClean, Resolved
  <2> QED BY <2>2, <2>3, <2>4, <2>5, <2>6, <2>7, <2>8, <2>9 DEF UpdateInv
<1>2. CASE (dir.previous = "none" /\ Sha("active") # "from") \/ (dir.previous # "none" /\ ~Restorable)
  <2>1. MarkRepair("command")
        /\ UNCHANGED <<dir, gsv, seldRecover, bridge, app, vault, ghosts, writes, faults>>
    BY <1>2 DEF Rollback, host, budget
  <2> QED BY <2>1, ThrowFacts, RepairInv
<1>3. CASE dir.previous # "none" /\ Restorable
  <2>1. /\ pc = "rollback" /\ pc' = (IF dir.active = "none" THEN "restoring" ELSE "stop_candidate") /\ dir.previous = "from"
        /\ UNCHANGED <<dir, gsv, seldRecover, bridge, app, vault, txn, loc, proven, tainted,
                       writes, faults>>
    BY <1>3 DEF Rollback, Restorable, Sha, host, ghosts, budget
  <2>2. Typed' BY <2>1, UpdateAssumption DEF UpdateInv, Typed, Steps
  <2>3. Counted' BY <2>1, CountedKept DEF UpdateInv, Kept
  <2>4. Environments' BY <2>1 DEF UpdateInv, Environments
  <2>5. Receipted' BY <2>1 DEF UpdateInv, Receipted
  <2>6. Applying' BY <2>1 DEF Applying, ApplySteps
  <2>7. RollingBack'
    BY <2>1 DEF UpdateInv, Environments, RollingBack, SetupSafe, BridgeRunsActive
  <2>8. Ending'
    BY <2>1
       DEF UpdateInv, Kept, Ending, CandidatePaths, ApplySteps, Finishing, Linked, Verified,
           Reconciled, MayHaveStartedBridge
  <2>9. SetupSafe'
    BY <2>1 DEF UpdateInv, SetupSafe, BridgeRunsActive, SetupBytesApproved, ResolvedClean, Resolved
  <2> QED BY <2>2, <2>3, <2>4, <2>5, <2>6, <2>7, <2>8, <2>9 DEF UpdateInv
<1> QED BY <1>1, <1>2, <1>3

\* The preserved runtime cannot read what is there.
LEMMA PreviousCannotReadInv == UpdateInv /\ PreviousCannotRead => UpdateInv'
<1> SUFFICES ASSUME UpdateInv, PreviousCannotRead PROVE UpdateInv'
  OBVIOUS
<1>1. MarkRepair("command")
        /\ UNCHANGED <<dir, gsv, seldRecover, bridge, app, vault, ghosts,
                       writes>> /\ faults < MaxFaults /\ faults' = faults + 1
  BY DEF PreviousCannotRead, Fault, host
<1> QED BY <1>1, ThrowFacts, RepairInv

\* The Bridge of the candidate does not stop.
LEMMA StopCandidateBridgeFailsInv == UpdateInv /\ StopCandidateBridgeFails => UpdateInv'
<1> SUFFICES ASSUME UpdateInv, StopCandidateBridgeFails PROVE UpdateInv'
  OBVIOUS
<1>1. MarkRepair("command")
        /\ UNCHANGED <<dir, gsv, seldRecover, bridge, app, vault, ghosts,
                       writes>> /\ faults < MaxFaults /\ faults' = faults + 1
  BY DEF StopCandidateBridgeFails, Fault, host
<1> QED BY <1>1, ThrowFacts, RepairInv

\* The app cannot be read.
LEMMA AdoptFailsInv == UpdateInv /\ AdoptFails => UpdateInv'
<1> SUFFICES ASSUME UpdateInv, AdoptFails PROVE UpdateInv'
  OBVIOUS
<1>1. MarkRepair("command")
        /\ UNCHANGED <<dir, gsv, seldRecover, bridge, app, vault, ghosts,
                       writes>> /\ faults < MaxFaults /\ faults' = faults + 1
  BY DEF AdoptFails, Fault, host
<1> QED BY <1>1, ThrowFacts, RepairInv

\* The preserved environment cannot be moved back.
LEMMA MoveBackFailsInv == UpdateInv /\ MoveBackFails => UpdateInv'
<1> SUFFICES ASSUME UpdateInv, MoveBackFails PROVE UpdateInv'
  OBVIOUS
<1>1. MarkRepair("command")
        /\ UNCHANGED <<dir, gsv, seldRecover, bridge, app, vault, ghosts,
                       writes>> /\ faults < MaxFaults /\ faults' = faults + 1
  BY DEF MoveBackFails, Fault, host
<1> QED BY <1>1, ThrowFacts, RepairInv

\* The Bridge of a candidate that may have started one is stopped.
LEMMA StopCandidateBridgeInv == UpdateInv /\ StopCandidateBridge => UpdateInv'
<1> SUFFICES ASSUME UpdateInv, StopCandidateBridge PROVE UpdateInv'
  OBVIOUS
<1>1. CASE txn.phase \notin MayHaveStartedBridge \/ dir.active \in Revisions
  <2>1. /\ pc = "stop_candidate" /\ pc' = "adopt" /\ bridge' = "none"
        /\ UNCHANGED <<dir, gsv, seldRecover, app, vault, txn, loc, proven, tainted, writes,
                       faults>>
    <3>1. txn.phase \notin MayHaveStartedBridge => bridge = "none"
      <4>1. bridge \in {"none", dir.active} /\ bridge \in Revisions \cup {"none"} BY ThrowFacts
      <4>2. pc = "stop_candidate" /\ dir.active # "from"
        BY DEF StopCandidateBridge, UpdateInv, RollingBack, Environments
      <4> QED BY <4>1, <4>2, ThrowFacts DEF Revisions
    <3> QED BY <1>1, <3>1 DEF StopCandidateBridge, ghosts, budget
  <2>2. Typed' BY <2>1, UpdateAssumption DEF UpdateInv, Typed, Steps
  <2>3. Counted' BY <2>1, CountedKept DEF UpdateInv, Kept
  <2>4. Environments' BY <2>1 DEF UpdateInv, Environments
  <2>5. Receipted' BY <2>1 DEF UpdateInv, Receipted
  <2>6. Applying' BY <2>1 DEF Applying, ApplySteps
  <2>7. RollingBack' BY <2>1 DEF UpdateInv, RollingBack
  <2>8. Ending'
    BY <2>1
       DEF UpdateInv, Kept, Ending, CandidatePaths, ApplySteps, Finishing, Linked, Verified,
           Reconciled, MayHaveStartedBridge
  <2>9. SetupSafe'
    BY <2>1
       DEF UpdateInv, Kept, Applying, RollingBack, Ending, SetupSafe, BridgeRunsActive,
           SetupBytesApproved, ResolvedClean, Resolved
  <2> QED BY <2>2, <2>3, <2>4, <2>5, <2>6, <2>7, <2>8, <2>9 DEF UpdateInv
<1>2. CASE ~(txn.phase \notin MayHaveStartedBridge \/ dir.active \in Revisions)
  <2>1. MarkRepair("command")
        /\ UNCHANGED <<dir, gsv, seldRecover, bridge, app, vault, ghosts, writes, faults>>
    BY <1>2 DEF StopCandidateBridge, budget
  <2> QED BY <2>1, ThrowFacts, RepairInv
<1> QED BY <1>1, <1>2

\* The app the candidate committed is recorded.
LEMMA AdoptCandidateAppInv == UpdateInv /\ AdoptCandidateApp => UpdateInv'
<1> SUFFICES ASSUME UpdateInv, AdoptCandidateApp PROVE UpdateInv'
  OBVIOUS
<1>1. pc = "adopt"
        /\ UNCHANGED <<dir, gsv, seldRecover, bridge, app, vault, proven, tainted, writes, faults>>
  BY DEF AdoptCandidateApp, host, ghosts, budget
<1>2. CASE MarkRepair("command")
  <2>1. UNCHANGED <<dir, gsv, seldRecover, bridge, app, vault, ghosts, writes, faults>>
    BY <1>1 DEF ghosts
  <2> QED BY <1>2, <2>1, ThrowFacts, RepairInv
<1>3. CASE /\ pc' = "move_failed" /\ UNCHANGED loc
           /\ txn' = txn \/ txn' = [txn EXCEPT !.rev = app.rev]
  <2>1. txn' \in Receipts /\ Kept(txn', txn) /\ txn'.phase = txn.phase
    <3>1. txn \in Receipts /\ app.rev \in Nat BY DEF UpdateInv, Typed, Apps
    <3> QED BY <1>3, <3>1 DEF Receipts, Kept
  <2>2. Typed' BY <1>1, <1>3, <2>1, UpdateAssumption DEF UpdateInv, Typed, Steps
  <2>3. Counted' BY <1>1, <1>3, <2>1, CountedKept DEF UpdateInv, Kept
  <2>4. Environments' BY <1>1, <1>3, <2>1 DEF UpdateInv, Environments
  <2>5. Receipted' BY <1>1, <1>3, <2>1 DEF UpdateInv, Kept, Receipted
  <2>6. Applying' BY <1>1, <1>3, <2>1 DEF Applying, ApplySteps
  <2>7. RollingBack' BY <1>1, <1>3, <2>1 DEF UpdateInv, RollingBack
  <2>8. Ending'
    BY <1>1, <1>3, <2>1
       DEF UpdateInv, Kept, Ending, CandidatePaths, ApplySteps, Finishing, Linked, Verified,
           Reconciled, MayHaveStartedBridge
  <2>9. SetupSafe'
    BY <1>1, <1>3, <2>1
       DEF UpdateInv, Kept, SetupSafe, BridgeRunsActive, SetupBytesApproved, ResolvedClean,
           Resolved
  <2> QED BY <2>2, <2>3, <2>4, <2>5, <2>6, <2>7, <2>8, <2>9 DEF UpdateInv
<1> QED BY <1>2, <1>3 DEF AdoptCandidateApp

\* The candidate is moved aside.
LEMMA MoveFailedAsideInv == UpdateInv /\ MoveFailedAside => UpdateInv'
<1> SUFFICES ASSUME UpdateInv, MoveFailedAside PROVE UpdateInv'
  OBVIOUS
<1>1. CASE dir.failed = "none"
  <2>1. /\ pc = "move_failed" /\ pc' = "restoring" /\ dir' = [dir EXCEPT !.active = "none", !.failed = dir.active]
        /\ UNCHANGED <<gsv, seldRecover, bridge, app, vault, txn, loc, proven, tainted, writes,
                       faults>>
    BY <1>1 DEF MoveFailedAside, ghosts, budget
  <2>2. Typed' BY <2>1, UpdateAssumption DEF UpdateInv, Typed, Steps, Contents
  <2>3. Counted' BY <2>1, CountedKept DEF UpdateInv, Kept
  <2>4. Environments' BY <2>1 DEF UpdateInv, Environments, RollingBack
  <2>5. Receipted' BY <2>1 DEF UpdateInv, Receipted, RollingBack
  <2>6. Applying' BY <2>1 DEF Applying, ApplySteps
  <2>7. RollingBack' BY <2>1 DEF UpdateInv, RollingBack
  <2>8. Ending'
    BY <2>1
       DEF UpdateInv, Kept, Counted, Environments, RollingBack, Ending, CandidatePaths,
           ApplySteps, Finishing, Linked, Verified, Reconciled, MayHaveStartedBridge
  <2>9. SetupSafe'
    BY <2>1
       DEF UpdateInv, Kept, Applying, RollingBack, Ending, SetupSafe, BridgeRunsActive,
           SetupBytesApproved, ResolvedClean, Resolved
  <2> QED BY <2>2, <2>3, <2>4, <2>5, <2>6, <2>7, <2>8, <2>9 DEF UpdateInv
<1>2. CASE dir.failed # "none"
  <2>1. MarkRepair("command")
        /\ UNCHANGED <<dir, gsv, seldRecover, bridge, app, vault, ghosts, writes, faults>>
    BY <1>2 DEF MoveFailedAside, budget
  <2> QED BY <2>1, ThrowFacts, RepairInv
<1> QED BY <1>1, <1>2

\* The receipt says that the preserved environment is being restored.
LEMMA RestoringInv == UpdateInv /\ Restoring => UpdateInv'
<1> SUFFICES ASSUME UpdateInv, Restoring PROVE UpdateInv'
  OBVIOUS
<1>1. /\ pc = "restoring" /\ pc' = "move_back" /\ txn' \in Receipts
      /\ txn'.phase = "restoring_previous" /\ Kept(txn', txn)
      /\ UNCHANGED <<dir, gsv, seldRecover, bridge, app, vault, loc, proven, tainted, writes,
                     faults>>
  <2>1. txn \in Receipts /\ "restoring_previous" \in Phases BY DEF UpdateInv, Typed, Phases
  <2>2. pc = "restoring" /\ AdvanceTo("restoring_previous", "move_back")
          /\ UNCHANGED <<dir, gsv, seldRecover, bridge, app, vault, loc, proven, tainted, writes,
                         faults>>
    BY DEF Restoring, host, ghosts, budget
  <2> QED BY <2>1, <2>2, AdvanceIs
<1>2. Typed' BY <1>1, UpdateAssumption DEF UpdateInv, Typed, Steps
<1>3. Counted' BY <1>1, CountedKept DEF UpdateInv, Kept
<1>4. Environments' BY <1>1 DEF UpdateInv, Environments
<1>5. Receipted'
  BY <1>1
     DEF UpdateInv, Kept, Environments, Receipted, Applying, RollingBack, BridgeRunsActive,
         EarlyPhases
<1>6. Applying' BY <1>1 DEF Applying, ApplySteps
<1>7. RollingBack' BY <1>1 DEF UpdateInv, RollingBack
<1>8. Ending'
  BY <1>1
     DEF UpdateInv, Kept, Ending, CandidatePaths, ApplySteps, Finishing, Linked, Verified,
         Reconciled, MayHaveStartedBridge
<1>9. SetupSafe'
  BY <1>1
     DEF UpdateInv, Kept, Environments, Receipted, Ending, SetupSafe, BridgeRunsActive,
         SetupBytesApproved, ResolvedClean, Resolved
<1> QED BY <1>2, <1>3, <1>4, <1>5, <1>6, <1>7, <1>8, <1>9 DEF UpdateInv

\* It is.
LEMMA MoveBackInv == UpdateInv /\ MoveBack => UpdateInv'
<1> SUFFICES ASSUME UpdateInv, MoveBack PROVE UpdateInv'
  OBVIOUS
<1>1. /\ pc = "move_back" /\ pc' = "moved_back"
      /\ dir' = [dir EXCEPT !.active = dir.previous, !.previous = "none"]
      /\ loc' \in Locals /\ loc'.path = "restored" /\ loc'.rc = 0 /\ ~loc'.err
      /\ UNCHANGED <<gsv, seldRecover, bridge, app, vault, txn, proven, tainted, writes, faults>>
  <2>1. loc' = [NoLocals EXCEPT !.path = "restored"] BY DEF MoveBack
  <2>2. loc' \in Locals /\ loc'.path = "restored" /\ loc'.rc = 0 /\ ~loc'.err
    BY <2>1 DEF NoLocals, Locals, Paths
  <2> QED BY <2>2 DEF MoveBack, ghosts, budget
<1>2. /\ dir' \in [{"active", "previous", "failed"} -> Contents] /\ dir'.active = "from"
      /\ dir'.previous = "none"
      /\ dir'.failed = dir.failed /\ dir.previous = "from" /\ bridge = "none"
  BY <1>1 DEF UpdateInv, Typed, RollingBack
<1>3. Typed' BY <1>1, <1>2, UpdateAssumption DEF UpdateInv, Typed, Steps
<1>4. Counted' BY <1>1, <1>2, CountedKept DEF UpdateInv, Kept
<1>5. Environments' BY <1>1, <1>2 DEF UpdateInv, Environments, Revisions
<1>6. Receipted' BY <1>1, <1>2 DEF UpdateInv, Receipted
<1>7. Applying' BY <1>1, <1>2 DEF Applying, ApplySteps
<1>8. RollingBack' BY <1>1, <1>2 DEF RollingBack
<1>9. Ending'
  BY <1>1, <1>2 DEF Ending, CandidatePaths, Linked, Verified, Reconciled, MayHaveStartedBridge
<1>10. SetupSafe'
  BY <1>1, <1>2
     DEF UpdateInv, SetupSafe, BridgeRunsActive, SetupBytesApproved, ResolvedClean, Resolved
<1> QED BY <1>3, <1>4, <1>5, <1>6, <1>7, <1>8, <1>9, <1>10 DEF UpdateInv

\* An update begins where the last one left nothing behind.
LEMMA ApplyInv == UpdateInv /\ Apply => UpdateInv'
<1> SUFFICES ASSUME UpdateInv, Apply PROVE UpdateInv'
  OBVIOUS
<1>1. /\ pc = "idle" /\ pc' = "backup" /\ proven' = FALSE /\ txn' \in Receipts
      /\ txn'.phase = "backing_up" /\ txn'.outcome = "none" /\ txn'.protected = 0 /\ ~txn'.launcher
      /\ txn'.bridgeWas = (bridge # "none")
      /\ UNCHANGED <<dir, gsv, seldRecover, bridge, app, vault, loc, tainted, writes, faults>>
  <2>1. txn' = [NoTransaction EXCEPT
                  !.phase = "backing_up", !.bridgeWas = bridge # "none",
                  !.appWas = app.sha # "none", !.revBefore = app.rev, !.rev = app.rev]
    BY DEF Apply
  <2>2. PICK b \in BOOLEAN, a \in BOOLEAN, n \in Nat : b = (bridge # "none") /\ a = (app.sha # "none") /\ n = app.rev
    BY DEF UpdateInv, Typed, Apps
  <2>3. txn' = [phase |-> "backing_up", outcome |-> "none", protected |-> 0, recovery |-> "none",
                bridgeWas |-> b, appWas |-> a, revBefore |-> n, rev |-> n, launcher |-> FALSE]
    BY <2>1, <2>2 DEF NoTransaction, NoDigest
  <2>4. 0 \in NoDigest..(1 + MaxWrites + MaxFaults) /\ "backing_up" \in Phases
    BY UpdateAssumption DEF NoDigest, Phases, EarlyPhases
  <2>5. /\ txn' \in Receipts /\ txn'.phase = "backing_up" /\ txn'.outcome = "none" /\ txn'.protected = 0
        /\ ~txn'.launcher /\ txn'.bridgeWas = b
    BY <2>3, <2>4 DEF Receipts
  <2> QED BY <2>2, <2>5 DEF Apply, host, budget
<1>2. /\ ~seldRecover /\ gsv /\ dir.active = "from" /\ dir.previous = "none"
      /\ dir.failed = "none" /\ ~tainted
      /\ loc = NoLocals
  <2>1. ~seldRecover /\ dir.active = "from" /\ Resolved /\ loc = NoLocals
    BY <1>1 DEF Apply, UpdateInv, Ending
  <2>2. CASE txn.phase = "absent" BY <2>1, <2>2 DEF UpdateInv, Receipted
  <2>3. CASE txn.phase # "absent"
    BY <2>1, <2>3
       DEF UpdateInv, SetupSafe, SetupBytesApproved, ResolvedClean, Resolved, AuditedOutcomes
  <2> QED BY <2>2, <2>3
<1>3. Typed' BY <1>1, <1>2, UpdateAssumption DEF UpdateInv, Typed, Steps
<1>4. Counted' BY <1>1, <1>2, UpdateAssumption DEF UpdateInv, Typed, Counted
<1>5. Environments' BY <1>1, <1>2 DEF UpdateInv, Environments
<1>6. Receipted' BY <1>1, <1>2 DEF UpdateInv, Kept, Receipted, SetupSafe, BridgeRunsActive
<1>7. Applying' BY <1>1, <1>2 DEF Applying, NoLocals
<1>8. RollingBack' BY <1>1, <1>2 DEF RollingBack
<1>9. Ending' BY <1>1, <1>2 DEF Ending, Finishing, Linked, Verified, Reconciled
<1>10. SetupSafe'
  BY <1>1, <1>2
     DEF UpdateInv, SetupSafe, BridgeRunsActive, SetupBytesApproved, ResolvedClean, Resolved
<1> QED BY <1>3, <1>4, <1>5, <1>6, <1>7, <1>8, <1>9, <1>10 DEF UpdateInv

\* A recovery starts from what the receipt and the environments say.
LEMMA RecoverInv ==
  ASSUME UpdateInv, NEW approved \in BOOLEAN, Recover(approved)
  PROVE  UpdateInv'
<1>1. PICK opened :
        opened = [txn EXCEPT
                    !.phase = IF txn.outcome \in TerminalOutcomes THEN "recovering" ELSE txn.phase,
                    !.outcome = "none", !.protected = Baseline(approved)]
  OBVIOUS
<1>2. /\ pc = "idle" /\ ~Resolved /\ loc = NoLocals /\ txn.phase # "absent"
      /\ UNCHANGED <<dir, gsv, seldRecover, bridge, app, vault, proven, writes, faults>>
      /\ tainted' = (tainted /\ ~approved)
  BY DEF Recover, Resolved, UpdateInv, Ending, host, budget
<1>3. /\ opened \in Receipts /\ opened.outcome = "none" /\ opened.launcher = txn.launcher
      /\ opened.phase = IF txn.phase = "complete" THEN "recovering" ELSE txn.phase
      /\ opened.protected = Baseline(approved)
  <2>1. txn \in Receipts /\ "recovering" \in Phases
    BY DEF UpdateInv, Typed, Phases, MayHaveStartedBridge
  <2>2. (txn.outcome \in TerminalOutcomes) <=> txn.phase = "complete"
    <3>1. txn.outcome \in TerminalOutcomes \cup {"none"} /\ "none" \notin TerminalOutcomes
      BY <2>1 DEF Receipts, TerminalOutcomes, AuditedOutcomes
    <3> QED BY <3>1 DEF UpdateInv, Receipted
  <2>3. Baseline(approved) \in NoDigest..(1 + MaxWrites + MaxFaults)
    <3>1. /\ vault \in NoDigest..(1 + MaxWrites + MaxFaults) /\ NoDigest \in NoDigest..(1 + MaxWrites + MaxFaults)
          /\ txn.protected \in NoDigest..(1 + MaxWrites + MaxFaults)
      BY <2>1, UpdateAssumption DEF UpdateInv, Typed, Receipts, NoDigest
    <3> QED BY <3>1 DEF Baseline
  <2>4. PICK ph \in Phases : /\ ph = IF txn.phase = "complete" THEN "recovering" ELSE txn.phase
                             /\ ph = IF txn.outcome \in TerminalOutcomes THEN "recovering" ELSE txn.phase
    BY <2>1, <2>2 DEF Receipts
  <2>5. PICK d \in NoDigest..(1 + MaxWrites + MaxFaults) : d = Baseline(approved) BY <2>3
  <2>6. opened = [txn EXCEPT !.phase = ph, !.outcome = "none", !.protected = d]
    BY <1>1, <2>4, <2>5
  <2>7. opened \in Receipts /\ opened.outcome = "none" /\ opened.launcher = txn.launcher
        /\ opened.phase = ph /\ opened.protected = d
    BY <2>1, <2>6 DEF Receipts
  <2> QED BY <2>4, <2>5, <2>7
<1>4. /\ opened.protected <= vault
      /\ tainted' => opened.protected \in 1..(vault - 1)
  <2>1. vault \in Nat /\ txn.protected <= vault /\ (tainted => txn.protected \in 1..(vault - 1))
        /\ (txn.outcome \in AuditedOutcomes => ~tainted)
    BY UpdateAssumption DEF UpdateInv, Typed, Counted, SetupSafe, SetupBytesApproved
  <2>2. CASE approved
    <3>1. opened.protected = vault BY <1>3, <2>2 DEF Baseline
    <3>2. tainted' = FALSE BY <1>2, <2>2
    <3> QED BY <2>1, <3>1, <3>2
  <2>3. CASE ~approved /\ txn.outcome \in AuditedOutcomes
    BY <1>2, <1>3, <2>1, <2>3 DEF Baseline, NoDigest
  <2>4. CASE ~approved /\ txn.outcome \notin AuditedOutcomes
    BY <1>2, <1>3, <2>1, <2>4 DEF Baseline
  <2> QED BY <2>2, <2>3, <2>4
<1>5. Counted' /\ txn'.protected = opened.protected /\ txn'.launcher = opened.launcher /\ txn' \in Receipts
  <2>1. txn' = opened \/ txn' = [opened EXCEPT !.phase = "complete", !.outcome = "repair_required", !.recovery = "command"]
    BY <1>1 DEF Recover
  <2>2. "complete" \in Phases /\ "repair_required" \in TerminalOutcomes
    BY DEF Phases, TerminalOutcomes
  <2>3. txn'.protected = opened.protected /\ txn'.launcher = opened.launcher /\ txn' \in Receipts
    BY <1>3, <2>1, <2>2 DEF Receipts
  <2>4. vault <= 1 + writes + faults BY DEF UpdateInv, Counted
  <2> QED BY <1>2, <1>4, <2>3, <2>4 DEF Counted
<1>6. CASE Sha("active") = "to"
  <2>1. txn' = opened /\ loc' = [NoLocals EXCEPT !.path = "recover"] /\ pc' = "finish_candidate" /\ dir.active = "to"
    BY <1>1, <1>6 DEF Recover, Sha
  <2>2. loc' \in Locals /\ loc'.path = "recover" /\ loc'.rc = 0 /\ ~loc'.err
    BY <2>1 DEF NoLocals, Locals, Paths
  <2>3. Typed' BY <1>2, <1>3, <1>5, <2>1, <2>2, UpdateAssumption DEF UpdateInv, Typed, Steps
  <2>4. Counted' BY <1>5
  <2>5. Environments' BY <1>2, <1>3, <1>5, <2>1, <2>2 DEF UpdateInv, Environments
  <2>6. Receipted'
    BY <1>2, <1>3, <1>5, <2>1, <2>2
       DEF UpdateInv, Kept, Environments, Receipted, EarlyPhases, MayHaveStartedBridge,
           NativePhases
  <2>7. Applying' BY <1>2, <1>3, <1>5, <2>1, <2>2 DEF Applying, ApplySteps
  <2>8. RollingBack' BY <1>2, <1>3, <1>5, <2>1, <2>2 DEF RollingBack
  <2>9. Ending'
    BY <1>2, <1>3, <2>1, <2>2 DEF Ending, CandidatePaths, Linked, Verified, Reconciled
  <2>10. SetupSafe'
    BY <1>2, <1>3, <1>5, <2>1, <2>2
       DEF UpdateInv, Kept, SetupSafe, BridgeRunsActive, SetupBytesApproved, ResolvedClean,
           Resolved, AuditedOutcomes, EarlyPhases, ApplySteps
  <2> QED BY <2>3, <2>4, <2>5, <2>6, <2>7, <2>8, <2>9, <2>10 DEF UpdateInv
<1>7. CASE Sha("active") = "from" /\ opened.phase \in EarlyPhases
  <2>1. txn' = opened /\ loc' = [NoLocals EXCEPT !.path = "unchanged"] /\ pc' = "protect" /\ dir.active = "from"
    BY <1>1, <1>7 DEF Recover, Sha
  <2>2. loc' \in Locals /\ loc'.path = "unchanged" /\ loc'.rc = 0 /\ ~loc'.err
    BY <2>1 DEF NoLocals, Locals, Paths
  <2>3. Typed' BY <1>2, <1>3, <1>5, <2>1, <2>2, UpdateAssumption DEF UpdateInv, Typed, Steps
  <2>4. Counted' BY <1>5
  <2>5. Environments' BY <1>2, <1>3, <1>5, <2>1, <2>2 DEF UpdateInv, Environments
  <2>6. Receipted'
    BY <1>2, <1>3, <1>5, <2>1, <2>2
       DEF UpdateInv, Environments, Receipted, Ending, SetupSafe, BridgeRunsActive, EarlyPhases
  <2>7. Applying' BY <1>2, <1>3, <1>5, <2>1, <2>2 DEF Applying, ApplySteps
  <2>8. RollingBack' BY <1>2, <1>3, <1>5, <2>1, <2>2 DEF RollingBack
  <2>9. Ending'
    BY <1>2, <1>3, <1>7, <2>1, <2>2
       DEF UpdateInv, Receipted, EarlyPhases, Ending, CandidatePaths, Finishing, Linked,
           Verified, Reconciled
  <2>10. SetupSafe'
    BY <1>2, <1>3, <1>5, <2>1, <2>2
       DEF UpdateInv, Kept, SetupSafe, BridgeRunsActive, SetupBytesApproved, ResolvedClean,
           Resolved, AuditedOutcomes, EarlyPhases, ApplySteps
  <2> QED BY <2>3, <2>4, <2>5, <2>6, <2>7, <2>8, <2>9, <2>10 DEF UpdateInv
<1>8. CASE Sha("active") = "from" /\ opened.phase \notin EarlyPhases
  <2>1. txn' = opened /\ loc' = [NoLocals EXCEPT !.path = "restored"] /\ pc' = "anchor" /\ dir.active = "from"
    BY <1>1, <1>8 DEF Recover, Sha
  <2>2. loc' \in Locals /\ loc'.path = "restored" /\ loc'.rc = 0 /\ ~loc'.err
    BY <2>1 DEF NoLocals, Locals, Paths
  <2>3. Typed' BY <1>2, <1>3, <1>5, <2>1, <2>2, UpdateAssumption DEF UpdateInv, Typed, Steps
  <2>4. Counted' BY <1>5
  <2>5. Environments' BY <1>2, <1>3, <1>5, <2>1, <2>2 DEF UpdateInv, Environments
  <2>6. Receipted'
    BY <1>2, <1>3, <1>5, <2>1, <2>2
       DEF UpdateInv, Environments, Receipted, Ending, SetupSafe, BridgeRunsActive, EarlyPhases
  <2>7. Applying' BY <1>2, <1>3, <1>5, <2>1, <2>2 DEF Applying, ApplySteps
  <2>8. RollingBack' BY <1>2, <1>3, <1>5, <2>1, <2>2 DEF RollingBack
  <2>9. Ending' BY <1>2, <1>3, <2>1, <2>2 DEF Ending, Finishing, Linked, Verified, Reconciled
  <2>10. SetupSafe'
    BY <1>2, <1>3, <1>5, <2>1, <2>2
       DEF UpdateInv, Kept, SetupSafe, BridgeRunsActive, SetupBytesApproved, ResolvedClean,
           Resolved, AuditedOutcomes, EarlyPhases, ApplySteps
  <2> QED BY <2>3, <2>4, <2>5, <2>6, <2>7, <2>8, <2>9, <2>10 DEF UpdateInv
<1>9. CASE Sha("active") \notin Revisions /\ dir.previous # "none"
  <2>1. txn' = opened /\ loc' = [NoLocals EXCEPT !.path = "recover"] /\ pc' = "rollback"
    BY <1>1, <1>9 DEF Recover, Revisions
  <2>2. loc' \in Locals /\ loc'.path = "recover" /\ loc'.rc = 0 /\ ~loc'.err
    BY <2>1 DEF NoLocals, Locals, Paths
  <2>3. Typed' BY <1>2, <1>3, <1>5, <2>1, <2>2, UpdateAssumption DEF UpdateInv, Typed, Steps
  <2>4. Counted' BY <1>5
  <2>5. Environments' BY <1>2, <1>3, <1>5, <2>1, <2>2 DEF UpdateInv, Environments
  <2>6. Receipted'
    BY <1>2, <1>3, <1>5, <2>1, <2>2
       DEF UpdateInv, Kept, Environments, Receipted, EarlyPhases, MayHaveStartedBridge,
           NativePhases
  <2>7. Applying' BY <1>2, <1>3, <1>5, <2>1, <2>2 DEF Applying, ApplySteps
  <2>8. RollingBack' BY <1>2, <1>3, <1>5, <2>1, <2>2 DEF RollingBack, CandidatePaths
  <2>9. Ending'
    BY <1>2, <1>3, <2>1, <2>2 DEF Ending, CandidatePaths, Finishing, Linked, Verified, Reconciled
  <2>10. SetupSafe'
    BY <1>2, <1>3, <1>5, <2>1, <2>2
       DEF UpdateInv, Kept, SetupSafe, BridgeRunsActive, SetupBytesApproved, ResolvedClean,
           Resolved, AuditedOutcomes, EarlyPhases, ApplySteps
  <2> QED BY <2>3, <2>4, <2>5, <2>6, <2>7, <2>8, <2>9, <2>10 DEF UpdateInv
<1>10. CASE Sha("active") \notin Revisions /\ dir.previous = "none"
  <2>1. pc' = "idle" /\ loc' = NoLocals /\ txn'.phase = "complete" /\ txn'.outcome = "repair_required"
    <3>1. /\ txn' = [opened EXCEPT !.phase = "complete", !.outcome = "repair_required", !.recovery = "command"]
          /\ UNCHANGED <<pc, loc>>
      BY <1>1, <1>10 DEF Recover, Revisions
    <3> QED BY <1>2, <1>3, <3>1 DEF Receipts
  <2>2. loc' \in Locals BY <2>1 DEF NoLocals, Locals, Paths
  <2>3. Typed' BY <1>2, <1>3, <1>5, <2>1, <2>2, UpdateAssumption DEF UpdateInv, Typed
  <2>4. Counted' BY <1>5
  <2>5. Environments' BY <1>2, <1>3, <1>5, <2>1, <2>2 DEF UpdateInv, Environments
  <2>6. Receipted'
    BY <1>2, <1>3, <1>5, <2>1, <2>2
       DEF UpdateInv, Environments, Receipted, BridgeRunsActive, EarlyPhases
  <2>7. Applying' BY <1>2, <1>3, <1>5, <2>1, <2>2 DEF Applying, ApplySteps
  <2>8. RollingBack' BY <1>2, <1>3, <1>5, <2>1, <2>2 DEF RollingBack
  <2>9. Ending' BY <1>2, <2>1 DEF UpdateInv, Ending, Verified, Reconciled
  <2>10. SetupSafe'
    BY <1>2, <1>3, <1>5, <2>1, <2>2
       DEF UpdateInv, Kept, SetupSafe, BridgeRunsActive, SetupBytesApproved, ResolvedClean,
           Resolved, AuditedOutcomes, EarlyPhases, ApplySteps
  <2> QED BY <2>3, <2>4, <2>5, <2>6, <2>7, <2>8, <2>9, <2>10 DEF UpdateInv
<1>11. Sha("active") \in Revisions => Sha("active") \in {"from", "to"} BY DEF Revisions
<1> QED BY <1>6, <1>7, <1>8, <1>9, <1>10, <1>11

----------------------------------------
(* Failures, deaths and the environment *)

\* A step that fails before it had an effect.
LEMMA StepFailsInv == UpdateInv /\ StepFails => UpdateInv'
<1> SUFFICES ASSUME UpdateInv, StepFails PROVE UpdateInv'
  OBVIOUS
<1>1. /\ pc # "idle" /\ Throw
      /\ UNCHANGED <<dir, gsv, seldRecover, bridge, app, vault, ghosts, writes>>
      /\ faults < MaxFaults /\ faults' = faults + 1
  BY DEF StepFails, Fault, host, ApplySteps, FinishSteps
<1> QED BY <1>1, ThrowFacts, ThrowInv

\* A death leaves everything as it is, and the receipt open.
LEMMA CrashInv == UpdateInv /\ Crash => UpdateInv'
<1> SUFFICES ASSUME UpdateInv, Crash PROVE UpdateInv'
  OBVIOUS
<1>1. /\ pc # "idle" /\ pc' = "idle" /\ loc' = NoLocals /\ loc' \in Locals
      /\ faults' \in 0..MaxFaults /\ faults <= faults'
      /\ UNCHANGED <<dir, gsv, seldRecover, bridge, app, vault, txn, proven, tainted, writes>>
  <2>1. pc # "idle" /\ pc' = "idle" /\ loc' = NoLocals /\ faults < MaxFaults /\ faults' = faults + 1
    BY DEF Crash, Fault
  <2>2. NoLocals \in Locals BY DEF NoLocals, Locals, Paths
  <2> QED BY <2>1, <2>2, ThrowFacts DEF Crash, host, ghosts
<1>2. Typed' BY <1>1, UpdateAssumption DEF UpdateInv, Typed, Steps
<1>3. Counted' BY <1>1, CountedKept DEF UpdateInv, Kept
<1>4. Environments' BY <1>1 DEF UpdateInv, Environments
<1>5. Receipted' BY <1>1 DEF UpdateInv, Receipted
<1>6. Applying' BY <1>1 DEF Applying, ApplySteps
<1>7. RollingBack' BY <1>1 DEF RollingBack
<1>8. Ending'
  BY <1>1
     DEF Ending, CandidatePaths, ApplySteps, Finishing, Linked, Verified, Reconciled,
         MayHaveStartedBridge, NativePhases, NoLocals
<1>9. SetupSafe'
  BY <1>1 DEF UpdateInv, SetupSafe, BridgeRunsActive, SetupBytesApproved, ResolvedClean, Resolved
<1> QED BY <1>2, <1>3, <1>4, <1>5, <1>6, <1>7, <1>8, <1>9 DEF UpdateInv

\* The user writes to the vault, unless the updater holds its lock.
LEMMA UserWriteInv == UpdateInv /\ UserWrite => UpdateInv'
<1> SUFFICES ASSUME UpdateInv, UserWrite PROVE UpdateInv'
  OBVIOUS
<1>1. /\ pc # "setup" /\ vault' = vault + 1 /\ writes < MaxWrites /\ writes' = writes + 1
      /\ pc' = pc
      /\ UNCHANGED <<dir, gsv, seldRecover, bridge, app, txn, loc, proven, tainted, faults>>
  BY DEF UserWrite, VaultLocked, host, ghosts
<1>2. /\ vault \in Nat /\ vault >= 1 /\ writes \in Nat /\ faults \in 0..MaxFaults
      /\ vault <= 1 + writes + faults
      /\ txn.protected \in Nat /\ txn.protected <= vault
      /\ tainted => txn.protected \in 1..(vault - 1)
  BY UpdateAssumption DEF UpdateInv, Typed, Counted, Receipts, NoDigest
<1>3. vault' \in 1..(1 + MaxWrites + MaxFaults) /\ writes' \in 0..MaxWrites
  BY <1>1, <1>2, UpdateAssumption
<1>4. Typed' BY <1>1, <1>3, UpdateAssumption DEF UpdateInv, Typed
<1>5. Counted' BY <1>1, <1>2 DEF Counted
<1>6. Environments' BY <1>1, <1>3 DEF UpdateInv, Environments
<1>7. Receipted' BY <1>1, <1>3 DEF UpdateInv, Receipted
<1>8. Applying' BY <1>1, <1>3 DEF UpdateInv, Applying
<1>9. RollingBack' BY <1>1, <1>3 DEF UpdateInv, RollingBack
<1>10. Ending' BY <1>1, <1>3 DEF UpdateInv, Ending
<1>11. SetupSafe'
  BY <1>1, <1>3
     DEF UpdateInv, SetupSafe, BridgeRunsActive, SetupBytesApproved, ResolvedClean, Resolved
<1> QED BY <1>4, <1>5, <1>6, <1>7, <1>8, <1>9, <1>10, <1>11 DEF UpdateInv

\* The user installs the app from the active runtime.
LEMMA OperatorInstallsAppInv == UpdateInv /\ OperatorInstallsApp => UpdateInv'
<1> SUFFICES ASSUME UpdateInv, OperatorInstallsApp PROVE UpdateInv'
  OBVIOUS
<1>1. /\ app' \in Apps /\ app'.sha = dir.active /\ app.sha \notin {"none", dir.active} /\ pc' = pc
      /\ faults' \in 0..MaxFaults /\ faults <= faults'
      /\ UNCHANGED <<dir, gsv, seldRecover, bridge, vault, txn, loc, proven, tainted, writes>>
  <2>1. dir.active \in Revisions /\ app.rev + 1 \in Nat
    BY DEF OperatorInstallsApp, LinkVerified, UpdateInv, Typed, Apps
  <2>2. /\ app' = [sha |-> dir.active, rev |-> app.rev + 1] /\ app.sha \notin {"none", dir.active}
        /\ faults < MaxFaults /\ faults' = faults + 1
    BY DEF OperatorInstallsApp, Fault
  <2>3. app' \in Apps /\ app'.sha = dir.active BY <2>1, <2>2 DEF Apps
  <2> QED BY <2>2, <2>3, ThrowFacts DEF OperatorInstallsApp, ghosts
<1>2. Typed' BY <1>1, UpdateAssumption DEF UpdateInv, Typed
<1>3. Counted' BY <1>1, CountedKept DEF UpdateInv, Kept
<1>4. Environments' BY <1>1 DEF UpdateInv, Environments
<1>5. Receipted' BY <1>1 DEF UpdateInv, Receipted
<1>6. Applying' BY <1>1 DEF UpdateInv, Applying
<1>7. RollingBack' BY <1>1 DEF UpdateInv, RollingBack
<1>8. Ending' BY <1>1 DEF UpdateInv, Ending
<1>9. SetupSafe'
  BY <1>1 DEF UpdateInv, SetupSafe, BridgeRunsActive, SetupBytesApproved, ResolvedClean, Resolved
<1> QED BY <1>2, <1>3, <1>4, <1>5, <1>6, <1>7, <1>8, <1>9 DEF UpdateInv

----------------------------------------
(* The theorems *)

LEMMA UpdateInitInv == Init => UpdateInv
<1> SUFFICES ASSUME Init PROVE UpdateInv
  OBVIOUS
<1>1. Typed
  <2>1. txn \in Receipts BY UpdateAssumption DEF Init, NoTransaction, NoDigest, Receipts, Phases
  <2>2. loc \in Locals BY DEF Init, NoLocals, Locals, Paths
  <2>3. app \in Apps BY DEF Init, Apps, Revisions
  <2>4. vault \in 1..(1 + MaxWrites + MaxFaults) /\ writes \in 0..MaxWrites /\ faults \in 0..MaxFaults
    BY UpdateAssumption DEF Init
  <2>5. dir \in [{"active", "previous", "failed"} -> Contents] BY DEF Init, Contents, Revisions
  <2>6. gsv \in BOOLEAN /\ seldRecover \in BOOLEAN /\ proven \in BOOLEAN /\ tainted \in BOOLEAN
    BY DEF Init
  <2>7. bridge \in Revisions \cup {"none"} /\ pc \in Steps BY DEF Init, Revisions, Steps
  <2> QED BY <2>1, <2>2, <2>3, <2>4, <2>5, <2>6, <2>7 DEF Typed
<1>2. txn.phase = "absent" /\ txn.outcome = "none" /\ txn.protected = 0
  BY DEF Init, NoTransaction, NoDigest
<1>3. Counted BY <1>2, UpdateAssumption DEF Init, Counted
<1>4. Environments BY DEF Init, Environments
<1>5. Receipted BY <1>2 DEF Init, Receipted
<1>6. Applying /\ RollingBack BY DEF Init, Applying, RollingBack, ApplySteps
<1>7. Ending BY DEF Init, Ending, Finishing, Linked, Verified, Reconciled
<1>8. SetupSafe BY <1>2 DEF Init, SetupSafe, BridgeRunsActive, SetupBytesApproved, ResolvedClean
<1> QED BY <1>1, <1>3, <1>4, <1>5, <1>6, <1>7, <1>8 DEF UpdateInv

LEMMA UpdateNextInv == UpdateInv /\ [Next]_vars => UpdateInv'
<1> SUFFICES ASSUME UpdateInv, [Next]_vars PROVE UpdateInv'
  OBVIOUS
<1>1. CASE UNCHANGED vars
  BY <1>1
     DEF vars, UpdateInv, Typed, Counted, Environments, Receipted, Applying, RollingBack, Ending,
              SetupSafe, BridgeRunsActive, SetupBytesApproved, ResolvedClean, Resolved
<1>2. CASE Proceed
  BY <1>2, BackupInv, PreflightInv, PreparedInv, StopBridgeInv, PreserveInv, PublishLauncherInv,
     MoveAsideInv, PreviousPreservedInv, InstallCandidateInv, CandidateInstalledInv,
     FinishCandidateInv, AnchorRestoredInv, RepairLinkInv, ProtectVaultInv, SetupInv, VerifyInv,
     BeginNativeInv, NativeStatusInv, NativeInstallInv, NativeRecordInv, NativeUnchangedInv,
     CleanLauncherInv, RemoveObsoleteInv, CompleteInv, RollbackInv, StopCandidateBridgeInv,
     AdoptCandidateAppInv, MoveFailedAsideInv, RestoringInv, MoveBackInv
     DEF Proceed
<1>3. CASE Abnormal
  BY <1>3, StopBridgeAlreadyGoneInv, InstallInterruptedInv, SetupBridgeRepairInv, SetupFailsInv,
     SetupWritesVaultInv, NativeInstallUnansweredInv, CleanLauncherFailsInv,
     RemoveObsoleteFailsInv, PreviousCannotReadInv, StopCandidateBridgeFailsInv, AdoptFailsInv,
     MoveBackFailsInv, StepFailsInv, CrashInv
     DEF Abnormal
<1> QED BY <1>1, <1>2, <1>3, ApplyInv, RecoverInv, UserWriteInv, OperatorInstallsAppInv DEF Next

THEOREM UpdateInvariant == Spec => []UpdateInv
  BY UpdateInitInv, UpdateNextInv, PTL DEF Spec

\* For any number of user writes, failures and deaths, wherever the updater
\* stops: until the candidate has passed its checks the replaced runtime is whole and can be
\* started, and some complete runtime is there ever after (update.py,
\* apply_update, recover_update, _rollback_after_failure).
THEOREM UpdateIsSafe == Spec => []UpdateSafe
<1>1. UpdateInv => UpdateSafe
  <2> SUFFICES ASSUME UpdateInv PROVE UpdateSafe
    OBVIOUS
  <2>1. TypeOK BY DEF UpdateInv, Typed, TypeOK, Receipts, Locals, Apps
  <2>2. RuntimeRetained BY DEF UpdateInv, Environments, RuntimeRetained, Revisions
  <2>3. ReachableUntilProven
    BY DEF UpdateInv, Environments, ReachableUntilProven, Reachable, Revisions
  <2> QED BY <2>1, <2>2, <2>3 DEF UpdateSafe
<1> QED BY <1>1, UpdateInvariant, PTL

\* A Bridge never runs from an environment that is moved or removed, bytes a setup
\* wrote are accepted by approval only, and a closed transaction left
\* nothing behind (update.py, _stop_candidate_bridge, _vault_audit,
\* _finish_candidate, _finish_restored).
THEOREM SetupIsSafe == Spec => []SetupSafe
<1>1. UpdateInv => SetupSafe BY DEF UpdateInv
<1> QED BY <1>1, UpdateInvariant, PTL
=============================================================================
