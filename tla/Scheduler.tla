----------------------------- MODULE Scheduler -----------------------------
(* Installing, replacing, removing and proving the launchd job that runs the
   sense sweep (scheduler.py).  The job that launchd has loaded, the plist
   it was loaded from and the receipt that says the two are Seld's are three
   things changed one after the other; an operation file with the previous
   and the new contents is there from before the first change to after the
   last.

   A job, its plist and its receipt are named by the plan they come from.
   One process at a time holds the scheduler lock and may die at any step.
   launchd is external: a command may fail with or without its effect. *)
EXTENDS HostFaults

CONSTANTS Plans,       \* plans of the job: command, interval, data root
          Foreign,     \* a plist or a job that is not Seld's
          NoPlan

VARIABLES plist,      \* plan of the plist in LaunchAgents
          jobReceipt, \* plan of the scheduler receipt
          job,        \* plan of the loaded job
          jobOp,      \* the install operation, or NoPlan
          canary,     \* the canary job: absent, its plist written, loaded
          installer   \* the process that holds the lock

svars == <<plist, jobReceipt, job, jobOp, canary, installer, meddled, odds>>

\* What a plist, a receipt or a loaded job may be of, and what an operation records.
Identities == Plans \cup {Foreign, NoPlan}
Operations == [plist : Identities, receipt : Identities, target : Plans]

ASSUME SchedulerConstants == NoPlan \notin Plans \cup Operations

NoInstaller == [pc |-> "free", goal |-> NoPlan, then |-> "none", was |-> NoPlan]

InstallerAt(pc) == installer' = [installer EXCEPT !.pc = pc]

\* A step of install raises: the same process rolls the operation back.
InstallFails == installer' = [installer EXCEPT !.pc = "recover", !.then = "none"]

-----------------------------------------------------------------------------
\* install, uninstall and run_canary take the lock and recover first.
Enter(then, goal) ==
    /\ installer = NoInstaller
    /\ installer' = [NoInstaller EXCEPT !.pc = "recover", !.then = then, !.goal = goal]
    /\ UNCHANGED <<plist, jobReceipt, job, jobOp, canary, meddled, odds>>

\* _owned_job_identity
OwnedIdentity == IF jobReceipt # NoPlan /\ plist = jobReceipt THEN plist ELSE NoPlan

\* _require_owned_or_absent
OwnedOrAbsent ==
    IF jobReceipt = NoPlan THEN plist = NoPlan /\ job = NoPlan
    ELSE IF plist = NoPlan THEN job = NoPlan
    ELSE plist = jobReceipt /\ job \in {NoPlan, OwnedIdentity}

\* The checks of install; the plan in place and loaded needs nothing.
BeginInstall ==
    /\ installer.pc = "begin" /\ installer.then = "install"
    /\ IF ~OwnedOrAbsent \/ (jobReceipt = installer.goal /\ plist = installer.goal /\ job = installer.goal)
         THEN installer' = NoInstaller /\ UNCHANGED jobOp
         ELSE /\ jobOp' = [plist |-> plist, receipt |-> jobReceipt, target |-> installer.goal]
              /\ installer' = [installer EXCEPT !.pc = "plist", !.was = job]
    /\ UNCHANGED <<plist, jobReceipt, job, canary, meddled, odds>>

\* Each file is replaced only if it still holds what the operation recorded; a
\* conflict ends the call with the operation left in place.
InstallPlist ==
    /\ installer.pc = "plist"
    /\ IF plist = jobOp.plist THEN plist' = jobOp.target /\ InstallerAt("receipt")
                           ELSE installer' = NoInstaller /\ UNCHANGED plist
    /\ UNCHANGED <<jobReceipt, job, jobOp, canary, meddled, odds>>

InstallReceipt ==
    /\ installer.pc = "receipt"
    /\ jobReceipt' = jobOp.target
    /\ InstallerAt(IF installer.was # NoPlan THEN "unload" ELSE "load")
    /\ UNCHANGED <<plist, job, jobOp, canary, meddled, odds>>

\* launchctl bootout, of whatever is loaded under the label
Replace ==
    /\ installer.pc = "unload"
    /\ \/ job' = NoPlan /\ InstallerAt("load") /\ UNCHANGED odds
       \/ Odd /\ job' \in {job, NoPlan} /\ InstallFails
    /\ UNCHANGED <<plist, jobReceipt, jobOp, canary, meddled>>

\* launchctl bootstrap of the plist, refused while the label is loaded
JobAfterBootstrap == IF job = NoPlan THEN plist ELSE job

Bootstrap ==
    /\ installer.pc = "load"
    /\ \/ job' = JobAfterBootstrap /\ InstallerAt("verify") /\ UNCHANGED odds
       \/ Odd /\ job' \in {job, JobAfterBootstrap} /\ InstallFails
    /\ UNCHANGED <<plist, jobReceipt, jobOp, canary, meddled>>

\* The job must be the one of the plan; then the operation is over.
VerifyJob ==
    /\ installer.pc = "verify"
    /\ IF job = jobOp.target THEN jobOp' = NoPlan /\ installer' = NoInstaller
                          ELSE InstallFails /\ UNCHANGED jobOp
    /\ UNCHANGED <<plist, jobReceipt, job, canary, meddled, odds>>

-----------------------------------------------------------------------------
\* _require_operation_file_state, for both files, and the loaded job
Recoverable ==
    /\ plist \in {jobOp.plist, jobOp.target}
    /\ jobReceipt \in {jobOp.receipt, jobOp.target}
    /\ job \in {NoPlan, jobOp.plist, jobOp.target}

\* _recover_install_operation: nothing to do without an operation, nothing is
\* touched when somebody else's file or job is found.
RecoverInstall ==
    /\ installer.pc = "recover"
    /\ IF jobOp = NoPlan THEN IF installer.then = "none" THEN installer' = NoInstaller ELSE InstallerAt("begin")
       ELSE IF ~Recoverable THEN installer' = NoInstaller
       ELSE InstallerAt(IF job = jobOp.target /\ job # jobOp.plist THEN "rollbackUnload" ELSE "rollbackPlist")
    /\ UNCHANGED <<plist, jobReceipt, job, jobOp, canary, meddled, odds>>

RollbackUnload ==
    /\ installer.pc = "rollbackUnload"
    /\ \/ job' = NoPlan /\ InstallerAt("rollbackPlist") /\ UNCHANGED odds
       \/ Odd /\ job' \in {job, NoPlan} /\ installer' = NoInstaller
    /\ UNCHANGED <<plist, jobReceipt, jobOp, canary, meddled>>

\* _restore_operation_file
Restorable(current, prior) == current \in {prior, jobOp.target}

RollbackPlist ==
    /\ installer.pc = "rollbackPlist"
    /\ IF Restorable(plist, jobOp.plist) THEN plist' = jobOp.plist /\ InstallerAt("rollbackReceipt")
                                    ELSE installer' = NoInstaller /\ UNCHANGED plist
    /\ UNCHANGED <<jobReceipt, job, jobOp, canary, meddled, odds>>

RollbackReceipt ==
    /\ installer.pc = "rollbackReceipt"
    /\ jobReceipt' = jobOp.receipt
    /\ InstallerAt(IF jobOp.plist # NoPlan /\ job # jobOp.plist THEN "rollbackLoad" ELSE "rollbackEnd")
    /\ UNCHANGED <<plist, job, jobOp, canary, meddled, odds>>

RollbackLoad ==
    /\ installer.pc = "rollbackLoad"
    /\ \/ job' = JobAfterBootstrap /\ InstallerAt("rollbackEnd") /\ UNCHANGED odds
       \/ Odd /\ job' \in {job, JobAfterBootstrap} /\ installer' = NoInstaller
    /\ UNCHANGED <<plist, jobReceipt, jobOp, canary, meddled>>

\* The previous job is proved loaded, or nothing is; only then the operation goes.
RollbackEnd ==
    /\ installer.pc = "rollbackEnd"
    /\ IF job = jobOp.plist
         THEN jobOp' = NoPlan /\ (IF installer.then = "none" THEN installer' = NoInstaller ELSE InstallerAt("begin"))
         ELSE installer' = NoInstaller /\ UNCHANGED jobOp
    /\ UNCHANGED <<plist, jobReceipt, job, canary, meddled, odds>>

-----------------------------------------------------------------------------
BeginUninstall ==
    /\ installer.pc = "begin" /\ installer.then = "uninstall"
    /\ IF jobReceipt = NoPlan \/ ~OwnedOrAbsent THEN installer' = NoInstaller
       ELSE installer' = [installer EXCEPT !.pc = IF job # NoPlan THEN "bootout" ELSE "removePlist",
                                 !.was = plist]
    /\ UNCHANGED <<plist, jobReceipt, job, jobOp, canary, meddled, odds>>

\* Mutant: the job is taken to be gone when launchctl says so.
BootoutBelieved ==
    /\ installer.pc = "bootout"
    /\ \/ job' = NoPlan /\ InstallerAt("removePlist") /\ UNCHANGED odds
       \/ Odd /\ job' \in {job, NoPlan} /\ InstallerAt("removePlist")
    /\ UNCHANGED <<plist, jobReceipt, jobOp, canary, meddled>>

\* The job must be gone, and be seen to be gone, before its files are.
Bootout ==
    /\ installer.pc = "bootout"
    /\ \/ job' = NoPlan /\ InstallerAt("removePlist") /\ UNCHANGED odds
       \/ Odd /\ job' \in {job, NoPlan} /\ installer' = NoInstaller
    /\ UNCHANGED <<plist, jobReceipt, jobOp, canary, meddled>>

RemovePlist ==
    /\ installer.pc = "removePlist"
    /\ IF plist = installer.was THEN plist' = NoPlan /\ InstallerAt("removeReceipt")
                           ELSE installer' = NoInstaller /\ UNCHANGED plist
    /\ UNCHANGED <<jobReceipt, job, jobOp, canary, meddled, odds>>

RemoveReceipt ==
    /\ installer.pc = "removeReceipt"
    /\ jobReceipt' = NoPlan /\ installer' = NoInstaller
    /\ UNCHANGED <<plist, job, jobOp, canary, meddled, odds>>

\* run_canary: a job of its own label is loaded, watched for its heartbeat, and
\* its plist removed only once launchd has it no more.
BeginCanary ==
    /\ installer.pc = "begin" /\ installer.then = "canary"
    /\ IF jobReceipt # NoPlan /\ plist = jobReceipt /\ job = jobReceipt /\ canary = "absent"
         THEN canary' = "written" /\ InstallerAt("canaryLoad")
         ELSE installer' = NoInstaller /\ UNCHANGED canary
    /\ UNCHANGED <<plist, jobReceipt, job, jobOp, meddled, odds>>

CanaryLoad ==
    /\ installer.pc = "canaryLoad" /\ InstallerAt("canaryEnd")
    /\ canary' \in {"written", "loaded"}
    /\ UNCHANGED <<plist, jobReceipt, job, jobOp, meddled, odds>>

CanaryEnd ==
    /\ installer.pc = "canaryEnd" /\ installer' = NoInstaller
    /\ \/ canary' = "absent" /\ UNCHANGED odds
       \/ canary = "loaded" /\ Odd /\ UNCHANGED canary
    /\ UNCHANGED <<plist, jobReceipt, job, jobOp, meddled>>

-----------------------------------------------------------------------------
\* The process dies, or a storage step fails: the lock is free again.
InstallerDies ==
    /\ installer.pc # "free" /\ Odd /\ installer' = NoInstaller
    /\ UNCHANGED <<plist, jobReceipt, job, jobOp, canary, meddled>>

\* A storage failure inside install is rolled back by the same process.
InstallStorageFails ==
    /\ installer.pc \in {"plist", "receipt"} /\ Odd
    /\ InstallFails
    /\ UNCHANGED <<plist, jobReceipt, job, jobOp, canary, meddled>>

\* Somebody puts a plist or a job of their own in place, or unloads ours.
Intervene ==
    /\ Odd /\ meddled' = TRUE
    /\ \/ plist' \in {Foreign, NoPlan} /\ UNCHANGED job
       \/ job' \in {Foreign, NoPlan} /\ UNCHANGED plist
    /\ UNCHANGED <<jobReceipt, jobOp, canary, installer>>

SchedulerInit ==
    /\ plist = NoPlan /\ jobReceipt = NoPlan /\ job = NoPlan /\ jobOp = NoPlan
    /\ canary = "absent" /\ installer = NoInstaller /\ FaultsInit

SchedulerNext ==
    \/ \E p \in Plans : Enter("install", p)
    \/ Enter("uninstall", NoPlan) \/ Enter("canary", NoPlan)
    \/ RecoverInstall \/ RollbackUnload \/ RollbackPlist \/ RollbackReceipt \/ RollbackLoad \/ RollbackEnd
    \/ BeginInstall \/ InstallPlist \/ InstallReceipt \/ Replace \/ Bootstrap \/ VerifyJob
    \/ BeginUninstall \/ Bootout \/ RemovePlist \/ RemoveReceipt
    \/ BeginCanary \/ CanaryLoad \/ CanaryEnd
    \/ InstallerDies \/ InstallStorageFails \/ Intervene

SchedulerSpec == SchedulerInit /\ [][SchedulerNext]_svars

\* While nobody else interferes, the loaded job is always one that Seld can name:
\* from its receipt and plist, or from the operation that was interrupted. So no
\* death, failed command or rollback turns Seld's own job into one that status
\* calls foreign and that install and uninstall refuse to touch.
JobAccountedFor ==
    ~meddled /\ installer.pc = "free" /\ job # NoPlan =>
        IF jobOp = NoPlan THEN plist = job /\ jobReceipt = job ELSE Recoverable
=============================================================================
