----------------------------- MODULE HostProofs -----------------------------
(* Proofs about what Seld keeps on its host: recall's index, the Discord
   companion's checkpoint, the scheduled job, the projected guidance, the
   native app, the reading of the WhatsApp store, backup and restore, the
   Bridge server, the import of a resident, the app corpus and its sources.
   Each part has its own specification, its inductive invariant and the
   theorem that its run's invariant holds for every value of the constants. *)
EXTENDS Recall, DiscordSource, Scheduler, GuidanceProjection, NativeBridge, CorpusWhatsApp,
        VaultBackup, BridgeServer, ResidentImport, AppCorpus, Integers, FiniteSetTheorems, TLAPS

----------------------------------------
(* Recall *)

RecallSteps == {"idle", "discover", "remove_snapshot", "publish", "remove", "add", "update",
                "store"}
Readings == UNION {[S -> 0..2] : S \in SUBSET Notes}

\* The documents, the snapshot and the index hold versions of documents, and a
\* call has read a version or skipped each document it has come to.
RecallTypeOK ==
  /\ notes \in [Notes -> 0..2]
  /\ collected \in BOOLEAN /\ cut \in BOOLEAN
  /\ {snapshot, qmdIndex, fingerprint} \subseteq Readings \cup {Unindexed}
  /\ recall \in [pc : RecallSteps, kind : {"none", "refresh", "rebuild", "search"},
                 seen : Readings,
                 says : {"nothing", "working", "qmd", "markdown", "current", "refreshed",
                         "unavailable"}]

\* From the removal of the old snapshot to the new fingerprint the call is cut
\* short if it ends; each of its commands finds what the one before it left.
Indexing ==
  /\ recall.pc \in {"publish", "remove", "add", "update", "store"} => cut
  /\ recall.pc \in {"remove", "add", "update", "store"} => snapshot = recall.seen
  /\ recall.pc = "store" => qmdIndex = recall.seen

RecallInv == RecallTypeOK /\ Indexing /\ IndexTrusted

\* Before the first document nothing has been read.
LEMMA EmptyReading == NothingRead \in Readings
<1>1. NothingRead \in [{} -> 0..2] BY DEF NothingRead
<1> QED BY <1>1 DEF Readings

\* What has been read of the documents, with one more of them.
LEMMA ReadMore ==
  ASSUME NEW seen \in Readings, NEW d \in Notes, NEW v \in 0..2
  PROVE  WithRead(seen, d, v) \in Readings
<1>1. PICK S \in SUBSET Notes : seen \in [S -> 0..2] BY DEF Readings
<1>2. DOMAIN seen = S /\ S \cup {d} \in SUBSET Notes BY <1>1
<1>3. WithRead(seen, d, v) \in [S \cup {d} -> 0..2] BY <1>1, <1>2 DEF WithRead
<1> QED BY <1>2, <1>3 DEF Readings

\* A recall call begins with everything in its place.
LEMMA RecallInitInv == RecallInit => RecallInv
<1> SUFFICES ASSUME RecallInit PROVE RecallInv
  OBVIOUS
<1>1. notes \in [Notes -> 0..2] BY DEF RecallInit
<1>2. collected \in BOOLEAN /\ cut \in BOOLEAN BY Zenon DEF RecallInit
<1>3. {snapshot, qmdIndex, fingerprint} \subseteq Readings \cup {Unindexed} BY DEF RecallInit
<1>4. RecallTypeOK BY <1>1, <1>2, <1>3, EmptyReading DEF RecallInit, RecallTypeOK, RecallSteps
<1> QED BY <1>4 DEF RecallInit, RecallInv, Indexing, IndexTrusted

\* Every step of a recall call, and every edit meanwhile, keeps the invariant.
LEMMA RecallNextInv == RecallInv /\ [RecallNext]_rvars => RecallInv'
<1> SUFFICES ASSUME RecallInv, [RecallNext]_rvars PROVE RecallInv'
  OBVIOUS
<1> USE DEF RecallInv, RecallTypeOK, Indexing, IndexTrusted, RecallSteps, Done, Proceed
<1>1. CASE BeginRecall BY <1>1, EmptyReading DEF BeginRecall
<1>2. CASE ReadNote
  <2>1. PICK d \in Notes \ DOMAIN recall.seen : \E v \in ReadAs(d) :
          recall' = [recall EXCEPT !.seen = WithRead(recall.seen, d, v)]
    BY <1>2 DEF ReadNote
  <2>2. PICK v \in 0..2 : recall' = [recall EXCEPT !.seen = WithRead(recall.seen, d, v)]
    BY <2>1 DEF ReadAs
  <2>3. WithRead(recall.seen, d, v) \in Readings BY ReadMore
  <2> QED BY <1>2, <2>2, <2>3 DEF ReadNote
<1>3. CASE Search BY <1>3 DEF Search, Answer, Discovered
<1>4. CASE BeginIndexing BY <1>4 DEF BeginIndexing, Discovered
<1>5. CASE RemoveSnapshot BY <1>5 DEF RemoveSnapshot
<1>6. CASE PublishSnapshot BY <1>6 DEF PublishSnapshot
<1>7. CASE RemoveCollection BY <1>7 DEF RemoveCollection
<1>8. CASE AddCollection BY <1>8 DEF AddCollection
<1>9. CASE UpdateCollection BY <1>9 DEF UpdateCollection
<1>10. CASE StoreFingerprint BY <1>10 DEF StoreFingerprint
<1>11. CASE RecallEnds BY <1>11 DEF RecallEnds
<1>12. CASE Edit BY <1>12 DEF Edit
<1>13. CASE UNCHANGED rvars BY <1>13 DEF rvars, recallVars
<1> QED
  BY <1>1, <1>2, <1>3, <1>4, <1>5, <1>6, <1>7, <1>8, <1>9, <1>10, <1>11, <1>12, <1>13
     DEF RecallNext

\* The index recall trusts is of the documents it is trusted for, for any
\* documents, edits, failures and deaths (_refresh_unlocked, _search_unlocked).
THEOREM IndexIsTrusted == RecallSpec => []IndexTrusted
<1>1. RecallInv => IndexTrusted BY DEF RecallInv
<1> QED BY <1>1, RecallInitInv, RecallNextInv, PTL DEF RecallSpec


----------------------------------------
(* Discord *)

\* The checkpoint, the deliveries and the receipts of them are what they say.
DiscordTypeOK ==
  /\ posts \in Nat /\ runtime \in Nat
  /\ companion \in [cursor : Nat, pending : Deliveries \cup {Unbound},
                    last : Deliveries \cup {Unbound}]
  /\ credential \in [connection : Nat]
  /\ binding \in [rev : Nat, runtime : Nat, connection : Nat] \cup {Unbound}
  /\ observed \in [rev : Nat, selected : BOOLEAN, obs : Observations \cup {Unbound}]
  /\ handed \subseteq Deliveries /\ receipted \subseteq Observations
  /\ lent.pc \in {"idle", "poll", "answered", "status", "ack"}
  /\ lent = [pc |-> lent.pc, kind |-> lent.kind, seen |-> lent.seen, cred |-> lent.cred,
             token |-> lent.token]

\* Message m is in a delivery that the vault has a receipt of.
HasReceipt(m) == \E o \in receipted : o.delivery.from < m /\ m <= o.delivery.to

\* What waits begins at the checkpoint; an acknowledgement works with a
\* receipt of the vault's, and once it was verified that is the receipt of
\* whatever waits.
CheckpointInv ==
  /\ companion.cursor <= posts
  /\ companion.pending # Unbound =>
       companion.pending.from = companion.cursor /\ companion.pending.to <= posts
  /\ \A m \in 1..companion.cursor : HasReceipt(m)
  /\ observed.obs # Unbound => observed.obs \in receipted
  /\ lent.pc \in {"status", "ack"} => lent.seen.obs \in receipted /\ lent.token \in handed
  /\ lent.pc = "ack" /\ companion.pending # Unbound =>
       lent.seen.obs.delivery = companion.pending

DiscordInv == DiscordTypeOK /\ CheckpointInv

\* Nothing is delivered and nothing read in the beginning.
LEMMA DiscordInitInv == DiscordInit => DiscordInv
<1> SUFFICES ASSUME DiscordInit PROVE DiscordInv
  OBVIOUS
<1>1. DiscordTypeOK BY DEF DiscordInit, DiscordTypeOK, NotLent
<1>2. CheckpointInv BY DEF DiscordInit, CheckpointInv, HasReceipt, NotLent
<1> QED BY <1>1, <1>2 DEF DiscordInv

\* A step that moves no checkpoint and takes no receipt or delivery back keeps
\* every message behind the checkpoint receipted.
LEMMA StillReceipted ==
  ASSUME CheckpointInv, companion'.cursor = companion.cursor, receipted \subseteq receipted'
  PROVE  \A m \in 1..companion'.cursor : HasReceipt(m)'
  BY DEF CheckpointInv, HasReceipt

\* The companion takes a delivery only when its receipt was verified, and the
\* delivery begins where the checkpoint is.
LEMMA AckInv == DiscordInv /\ AckCompanion => DiscordInv'
<1> SUFFICES ASSUME DiscordInv, AckCompanion PROVE DiscordInv'
  OBVIOUS
<1> USE DEF DiscordInv, DiscordTypeOK, CheckpointInv, AckCompanion, EndCall, NotLent
<1>1. CASE companion' = companion BY <1>1, StillReceipted
<1>2. CASE companion' # companion
  <2>1. PICK d \in Deliveries :
          /\ d = lent.token /\ d = companion.pending
          /\ companion' = [cursor |-> d.to, pending |-> Unbound, last |-> d]
    BY <1>2
  <2>2. d # Unbound BY DiscordConstants
  <2>3. PICK o \in receipted : o.delivery = d BY <2>1, <2>2
  <2>4. d.from = companion.cursor /\ d.to <= posts BY <2>1, <2>2
  <2>5. ASSUME NEW m \in 1..d.to PROVE HasReceipt(m)'
    <3>1. CASE m <= companion.cursor
      <4>1. HasReceipt(m) BY <3>1
      <4> QED BY <4>1 DEF HasReceipt
    <3>2. CASE m > companion.cursor BY <2>3, <2>4, <3>2 DEF HasReceipt
    <3> QED BY <3>1, <3>2 DEF Deliveries
  <2>6. d.to \in Nat BY DEF Deliveries
  <2>7. CheckpointInv' BY <2>1, <2>4, <2>5
  <2> QED BY <2>1, <2>6, <2>7
<1> QED BY <1>1, <1>2

\* Every step of a call, of the person and of the channels keeps the invariant.
LEMMA DiscordNextInv == DiscordInv /\ [DiscordNext]_discordVars => DiscordInv'
<1> SUFFICES ASSUME DiscordInv, [DiscordNext]_discordVars PROVE DiscordInv'
  OBVIOUS
<1> USE DEF DiscordInv, DiscordTypeOK, CheckpointInv, EndCall, NotLent, Calling
<1>1. CASE BindRuntime
  <2>1. binding' \in [rev : Nat, runtime : Nat, connection : Nat] BY <1>1 DEF BindRuntime
  <2> QED BY <1>1, <2>1, StillReceipted DEF BindRuntime
<1>2. CASE BeginDiscord BY <1>2, StillReceipted DEF BeginDiscord
<1>3. CASE PollCompanion
  <2>1. CASE companion' = companion BY <1>3, <2>1, StillReceipted DEF PollCompanion
  <2>2. CASE companion' # companion
    <3>1. companion' = [companion EXCEPT !.pending = Delivery(companion.cursor, posts)]
      BY <1>3, <2>2 DEF PollCompanion
    <3>2. Delivery(companion.cursor, posts) \in Deliveries BY DEF Delivery, Deliveries
    <3> QED BY <1>3, <3>1, <3>2, StillReceipted DEF PollCompanion, Delivery
  <2> QED BY <2>1, <2>2
<1>4. CASE PollAnswers BY <1>4, StillReceipted DEF PollAnswers
<1>5. CASE RecordReceipt
  <2>1. PICK d \in handed :
          /\ observed' = [observed EXCEPT !.rev = @ + 1,
                            !.obs = Observation(d, binding.rev, binding.connection)]
          /\ receipted' = receipted \cup {Observation(d, binding.rev, binding.connection)}
    BY <1>5 DEF RecordReceipt
  <2>2. PICK o \in Observations : o = Observation(d, binding.rev, binding.connection)
    BY <1>5 DEF RecordReceipt, Observation, Observations
  <2>3. /\ observed' = [observed EXCEPT !.rev = @ + 1, !.obs = o]
        /\ receipted' = receipted \cup {o}
        /\ UNCHANGED <<posts, companion, runtime, binding, credential, lent, handed>>
    BY <1>5, <2>1, <2>2 DEF RecordReceipt
  <2>4. DiscordTypeOK'
    <3>1. observed.rev + 1 \in Nat OBVIOUS
    <3>2. observed' \in [rev : Nat, selected : BOOLEAN, obs : Observations \cup {Unbound}]
      BY ONLY <2>3, <3>1, observed \in [rev : Nat, selected : BOOLEAN, obs : Observations \cup {Unbound}]
    <3> QED BY <2>3, <3>2
  <2>5. \A m \in 1..companion'.cursor : HasReceipt(m)' BY <2>3, StillReceipted
  <2>6. CheckpointInv' BY <2>3, <2>5
  <2> QED BY <2>4, <2>6
<1>6. CASE ReadCompanionStatus BY <1>6, StillReceipted DEF ReadCompanionStatus, ReceiptMatches
<1>7. CASE AckCompanion BY <1>7, AckInv
<1>8. CASE CallDies BY <1>8, StillReceipted DEF CallDies
<1>9. CASE Unbind BY <1>9, StillReceipted DEF Unbind
<1>10. CASE Meanwhile
  <2>1. UNCHANGED <<companion, binding, lent, handed, receipted>> BY <1>10 DEF Meanwhile
  <2>2. posts' \in Nat /\ posts <= posts' /\ runtime' \in Nat BY <1>10 DEF Meanwhile
  <2>3. credential' \in [connection : Nat] BY <1>10 DEF Meanwhile
  <2>4. /\ observed' \in [rev : Nat, selected : BOOLEAN, obs : Observations \cup {Unbound}]
        /\ observed'.obs = observed.obs
    <3>1. CASE UNCHANGED observed BY <3>1
    <3>2. CASE observed' = [observed EXCEPT !.rev = @ + 1, !.selected = ~@]
      <4>1. PICK n \in Nat, b \in BOOLEAN, o \in Observations \cup {Unbound} :
              observed = [rev |-> n, selected |-> b, obs |-> o]
        OBVIOUS
      <4>2. observed' = [rev |-> n + 1, selected |-> ~b, obs |-> o] BY <3>2, <4>1
      <4> QED BY <4>1, <4>2
    <3> QED BY <1>10, <3>1, <3>2 DEF Meanwhile
  <2>5. DiscordTypeOK' BY <2>1, <2>2, <2>3, <2>4
  <2>6. \A m \in 1..companion'.cursor : HasReceipt(m)' BY <2>1, StillReceipted
  <2>7. CheckpointInv'
    <3>1. /\ companion'.cursor <= posts'
          /\ companion'.pending # Unbound =>
               companion'.pending.from = companion'.cursor /\ companion'.pending.to <= posts'
      BY <2>1, <2>2 DEF Deliveries
    <3> QED BY <2>1, <2>4, <2>6, <3>1
  <2> QED BY <2>5, <2>7
<1>11. CASE UNCHANGED discordVars BY <1>11, StillReceipted DEF discordVars, dvars
<1> QED BY <1>1, <1>2, <1>3, <1>4, <1>5, <1>6, <1>7, <1>8, <1>9, <1>10, <1>11 DEF DiscordNext

\* No message is passed over without a receipt of it in the vault, for any
\* number of messages, bindings, credentials, lost answers and deaths
\* (DiscordSourceBridge.acknowledge, _verify_receipt).
THEOREM NoMessageSkipped == DiscordSpec => []DiscordReceipted
<1>1. DiscordInv => DiscordReceipted
  BY DEF DiscordInv, CheckpointInv, HasReceipt, DiscordReceipted
<1> QED BY <1>1, DiscordInitInv, DiscordNextInv, PTL DEF DiscordSpec

----------------------------------------
(* The scheduled job *)

InstallSteps == {"plist", "receipt", "unload", "load", "verify"}
RollbackSteps == {"rollbackUnload", "rollbackPlist", "rollbackReceipt", "rollbackLoad",
                  "rollbackEnd"}
UninstallSteps == {"bootout", "removePlist", "removeReceipt"}
InstallerSteps == {"free", "recover", "begin", "canaryLoad", "canaryEnd"}
                    \cup InstallSteps \cup RollbackSteps \cup UninstallSteps

\* The plist, the receipt and the job are of a plan, of somebody else or
\* absent, and an operation records the two it is to replace.
SchedulerTypeOK ==
  /\ {plist, jobReceipt, job} \subseteq Identities
  /\ jobOp \in Operations \cup {NoPlan}
  /\ canary \in {"absent", "written", "loaded"}
  /\ installer \in [pc : InstallerSteps, goal : Plans \cup {NoPlan},
                    then : {"none", "install", "uninstall", "canary"}, was : Identities]
  /\ meddled \in BOOLEAN

\* An operation is on disk exactly while an install or its rollback is under
\* way or waits to be recovered, and what it would bring back is whole.
OperationInv ==
  /\ installer.pc \in InstallSteps \cup RollbackSteps => jobOp # NoPlan
  /\ installer.pc \in {"begin", "canaryLoad", "canaryEnd"} \cup UninstallSteps => jobOp = NoPlan
  /\ installer.then = "install" => installer.goal \in Plans
  /\ jobOp # NoPlan /\ jobOp.plist # NoPlan => jobOp.receipt = jobOp.plist

\* The part of the three that each step has already changed.
Progress ==
  /\ installer.pc = "plist" => plist = jobOp.plist
  /\ installer.pc \in {"receipt", "unload", "load", "verify"} => plist = jobOp.target
  /\ installer.pc \in {"unload", "load", "verify"} => jobReceipt = jobOp.target
  /\ installer.pc \in {"rollbackReceipt", "rollbackLoad", "rollbackEnd"} => plist = jobOp.plist
  /\ installer.pc \in {"rollbackLoad", "rollbackEnd"} => jobReceipt = jobOp.receipt
  /\ installer.pc \in {"removePlist", "removeReceipt"} => job = NoPlan

\* Seld can name the job, and the two files of an operation, at every step.
Named ==
  IF jobOp = NoPlan THEN job # NoPlan => plist = job /\ jobReceipt = job ELSE Recoverable

SchedulerInv ==
  SchedulerTypeOK /\ OperationInv /\ (~meddled => Progress /\ Named)

\* Nothing is installed in the beginning.
LEMMA SchedulerInitInv == SchedulerInit => SchedulerInv
<1> SUFFICES ASSUME SchedulerInit PROVE SchedulerInv
  OBVIOUS
<1> USE DEF SchedulerInit, NoInstaller, InstallerSteps, InstallSteps, RollbackSteps, UninstallSteps
<1>1. meddled \in BOOLEAN BY Zenon DEF FaultsInit
<1>2. SchedulerTypeOK BY <1>1 DEF SchedulerTypeOK, Identities
<1>3. OperationInv /\ Progress /\ Named BY DEF OperationInv, Progress, Named
<1> QED BY <1>2, <1>3 DEF SchedulerInv

\* When a step of an install fails, the operation is as it was and waits.
LEMMA FailedInstall ==
  ASSUME SchedulerInv, installer.pc \in InstallSteps, InstallFails,
         job' \in {job, NoPlan, plist}, UNCHANGED <<plist, jobReceipt, jobOp, canary, meddled>>
  PROVE  SchedulerInv'
<1> USE DEF SchedulerInv, InstallSteps
<1>1. installer' \in [pc : {"recover"}, goal : Plans \cup {NoPlan}, then : {"none"}, was : Identities]
  BY DEF SchedulerTypeOK, InstallFails
<1>2. {plist', jobReceipt', job'} \subseteq Identities BY DEF SchedulerTypeOK, Identities
<1>3. SchedulerTypeOK' BY <1>1, <1>2 DEF SchedulerTypeOK, InstallerSteps
<1>4. OperationInv' BY <1>1 DEF OperationInv, RollbackSteps, UninstallSteps
<1>5. ~meddled' => Progress' BY <1>1 DEF Progress
<1>6. ~meddled' => Named' BY <1>1 DEF OperationInv, Named, Recoverable
<1> QED BY <1>3, <1>4, <1>5, <1>6

\* Every step of an install, a rollback, an uninstall and a canary, every death
\* and every failed command keeps the invariant.
LEMMA SchedulerNextInv == SchedulerInv /\ [SchedulerNext]_svars => SchedulerInv'
<1> SUFFICES ASSUME SchedulerInv, [SchedulerNext]_svars PROVE SchedulerInv'
  OBVIOUS
<1> USE SchedulerConstants
    DEF SchedulerInv, SchedulerTypeOK, OperationInv, Progress, Named, Recoverable, Identities,
        Operations, NoInstaller, InstallerAt, InstallFails, InstallerSteps, InstallSteps,
        RollbackSteps, UninstallSteps
<1>1. ASSUME NEW p \in Plans, Enter("install", p) PROVE SchedulerInv'
  BY <1>1, ZenonT(60) DEF Enter
<1>2. CASE Enter("uninstall", NoPlan) \/ Enter("canary", NoPlan)
  <2>1. PICK then \in {"uninstall", "canary"} :
          installer' = [pc |-> "recover", goal |-> NoPlan, then |-> then, was |-> NoPlan]
    BY <1>2, ZenonT(60) DEF Enter
  <2> QED BY <1>2, <2>1, SMTT(40) DEF Enter
<1>3. CASE RecoverInstall BY <1>3 DEF RecoverInstall
<1>4. CASE RollbackUnload BY <1>4 DEF RollbackUnload
<1>5. CASE RollbackPlist BY <1>5 DEF RollbackPlist, Restorable
<1>6. CASE RollbackReceipt BY <1>6 DEF RollbackReceipt
<1>7. CASE RollbackLoad BY <1>7 DEF RollbackLoad, JobAfterBootstrap
<1>8. CASE RollbackEnd BY <1>8 DEF RollbackEnd
<1>9. CASE BeginInstall
  <2>1. CASE UNCHANGED jobOp BY <1>9, <2>1 DEF BeginInstall
  <2>2. CASE jobOp' # jobOp
    <3>1. /\ installer.pc = "begin" /\ installer.then = "install" /\ OwnedOrAbsent
          /\ jobOp' = [plist |-> plist, receipt |-> jobReceipt, target |-> installer.goal]
          /\ installer' = [installer EXCEPT !.pc = "plist", !.was = job]
          /\ UNCHANGED <<plist, jobReceipt, job, canary, meddled>>
      BY <1>9, <2>2 DEF BeginInstall
    <3>2. plist # NoPlan => jobReceipt = plist BY <3>1 DEF OwnedOrAbsent
    <3>3. job \in {NoPlan, plist} BY <3>1 DEF OwnedOrAbsent, OwnedIdentity
    <3>4. SchedulerTypeOK' /\ jobOp' # NoPlan
      <4>1. jobOp' \in Operations BY <3>1
      <4>2. installer' \in [pc : {"plist"}, goal : Plans, then : {"install"}, was : Identities]
        BY <3>1
      <4> QED BY <3>1, <4>1, <4>2
    <3>5. OperationInv' BY <3>1, <3>2, <3>4
    <3>6. Progress' /\ Named' BY <3>1, <3>3, <3>4
    <3> QED BY <3>4, <3>5, <3>6
  <2> QED BY <2>1, <2>2
<1>10. CASE InstallPlist BY <1>10 DEF InstallPlist
<1>11. CASE InstallReceipt BY <1>11 DEF InstallReceipt
<1>12. CASE Replace
  <2>1. CASE job' = NoPlan /\ InstallerAt("load") BY <1>12, <2>1 DEF Replace
  <2>2. CASE job' \in {job, NoPlan} /\ InstallFails BY <1>12, <2>2, FailedInstall DEF Replace
  <2> QED BY <1>12, <2>1, <2>2 DEF Replace
<1>13. CASE Bootstrap
  <2>1. CASE job' = JobAfterBootstrap /\ InstallerAt("verify")
    BY <1>13, <2>1 DEF Bootstrap, JobAfterBootstrap
  <2>2. CASE job' \in {job, JobAfterBootstrap} /\ InstallFails
    BY <1>13, <2>2, FailedInstall DEF Bootstrap, JobAfterBootstrap
  <2> QED BY <1>13, <2>1, <2>2 DEF Bootstrap
<1>14. CASE VerifyJob
  <2>1. CASE job = jobOp.target BY <1>14, <2>1 DEF VerifyJob
  <2>2. CASE job # jobOp.target BY <1>14, <2>2, FailedInstall DEF VerifyJob
  <2> QED BY <2>1, <2>2
<1>15. CASE BeginUninstall
  <2>1. CASE installer' = NoInstaller BY <1>15, <2>1 DEF BeginUninstall
  <2>2. CASE installer' # NoInstaller
    <3>1. PICK pc \in {"bootout", "removePlist"} :
            /\ installer' = [installer EXCEPT !.pc = pc, !.was = plist]
            /\ pc = "removePlist" => job = NoPlan
      BY <1>15, <2>2 DEF BeginUninstall
    <3> QED BY <1>15, <3>1 DEF BeginUninstall
  <2> QED BY <2>1, <2>2
<1>16. CASE Bootout BY <1>16 DEF Bootout
<1>17. CASE RemovePlist BY <1>17 DEF RemovePlist
<1>18. CASE RemoveReceipt BY <1>18 DEF RemoveReceipt
<1>19. CASE BeginCanary BY <1>19 DEF BeginCanary
<1>20. CASE CanaryLoad BY <1>20 DEF CanaryLoad
<1>21. CASE CanaryEnd BY <1>21 DEF CanaryEnd
<1>22. CASE InstallerDies BY <1>22 DEF InstallerDies
<1>23. CASE InstallStorageFails BY <1>23 DEF InstallStorageFails
<1>24. CASE Intervene BY <1>24 DEF Intervene
<1>25. CASE UNCHANGED svars BY <1>25 DEF svars
<1> QED BY <1>1, <1>2, <1>3, <1>4, <1>5, <1>6, <1>7, <1>8, <1>9, <1>10, <1>11, <1>12, <1>13,
     <1>14, <1>15, <1>16, <1>17, <1>18, <1>19, <1>20, <1>21, <1>22, <1>23, <1>24,
     <1>25
     DEF SchedulerNext

\* While nobody else interferes, the loaded job is one that Seld can name, for
\* any plans, deaths and failures of launchctl (install, uninstall,
\* _recover_install_operation).
THEOREM JobIsAccountedFor == SchedulerSpec => []JobAccountedFor
<1>1. SchedulerInv => JobAccountedFor BY DEF SchedulerInv, Named, JobAccountedFor
<1> QED BY <1>1, SchedulerInitInv, SchedulerNextInv, PTL DEF SchedulerSpec

----------------------------------------
(* The projected guidance *)

\* What is left of the putting back and of the publishing, the next step first.
BackRests == {<<"guidance", "mind", "marker", "intent">>, <<"mind", "marker", "intent">>,
              <<"marker", "intent">>, <<"intent">>, <<>>}
PublishRests == {<<"intent", "guidance", "mind", "marker", "event", "done">>,
                 <<"guidance", "mind", "marker", "event", "done">>,
                 <<"mind", "marker", "event", "done">>, <<"marker", "event", "done">>,
                 <<"event", "done">>, <<"done">>}

Errands ==
  [pc : {"idle", "called", "locked", "recover", "rollback", "publish"},
   call : {"read", "project"}, sources : Nat,
   expects : [guidance : Nat, mind : Nat] \cup {NoIntent},
   before : Editions \cup {NoIntent}, todo : BackRests \cup PublishRests]

\* The files, an intent and the revisions callers know are editions, and every
\* call works through what is left of one of the two lists.
GuidanceTypeOK ==
  /\ checkout \in Nat /\ docs \in Editions /\ agreed \in Editions
  /\ intent \in Editions \cup {NoIntent}
  /\ known \in [guidance : Nat, mind : Nat]
  /\ crossed \in BOOLEAN
  /\ errand \in [Callers -> Errands]

\* These files are the ones the last finished change left.
Agrees(set) ==
  /\ set.guidance = agreed.guidance /\ set.marker = agreed.marker
  /\ ~crossed => set.mind = agreed.mind

\* One process at most is inside the lock.
OneHolder == \A p, q \in Callers : Holding(p) /\ Holding(q) => p = q

\* A call that puts files back has put back those its list no longer names.
PuttingBack(w) ==
  w.pc \in {"recover", "rollback"} =>
    /\ w.before \in Editions /\ Agrees(w.before) /\ w.todo \in BackRests
    /\ intent \in {NoIntent, w.before}
    /\ w.todo # BackOrder => docs.guidance = w.before.guidance
    /\ w.todo \in {<<"marker", "intent">>, <<"intent">>, <<>>} => docs.mind = w.before.mind
    /\ w.todo \in {<<"intent">>, <<>>} => docs.marker = w.before.marker
    /\ w.todo = <<>> => intent = NoIntent

\* A call that publishes has its intent on disk from before the first file.
Publishing(w) ==
  w.pc = "publish" =>
    /\ w.before \in Editions /\ Agrees(w.before) /\ w.todo \in PublishRests
    /\ w.todo = PublishOrder => intent = NoIntent /\ docs = w.before
    /\ w.todo # PublishOrder => intent = w.before

\* Inside the lock a call finds nothing left to recover.
Entered(w) == w.pc = "locked" => intent = NoIntent

CallInv(w) == PuttingBack(w) /\ Publishing(w) /\ Entered(w)

\* The files agree with the last finished change, or an intent that does is
\* there to put them back from.
ChangeKept == IF intent = NoIntent THEN Agrees(docs) ELSE Agrees(intent)

GuidanceInv ==
  GuidanceTypeOK /\ OneHolder /\ ChangeKept /\ \A p \in Callers : CallInv(errand[p])

\* A new vault has nothing projected into it.
LEMMA GuidanceInitInv == GuidanceInit => GuidanceInv
<1> SUFFICES ASSUME GuidanceInit PROVE GuidanceInv
  OBVIOUS
<1>1. NoErrand \in Errands BY DEF NoErrand, Errands, BackRests
<1>2. crossed \in BOOLEAN BY Zenon DEF GuidanceInit
<1>3. GuidanceTypeOK BY <1>1, <1>2 DEF GuidanceInit, GuidanceTypeOK, Editions
<1>4. \A p \in Callers : errand[p].pc = "idle" BY DEF GuidanceInit, NoErrand
<1> QED
  BY <1>3, <1>4 DEF GuidanceInit, GuidanceInv, OneHolder, Holding, ChangeKept, Agrees, CallInv,
                    PuttingBack, Publishing, Entered

\* A call outside the lock says something else of itself and changes no file.
LEMMA OutsideStep ==
  ASSUME GuidanceInv, NEW p \in Callers, NEW w \in Errands, w.pc \in {"idle", "called"},
         errand' = [errand EXCEPT ![p] = w],
         UNCHANGED <<checkout, docs, intent, known, agreed, crossed>>
  PROVE  GuidanceInv'
<1> USE DEF GuidanceInv
<1>1. GuidanceTypeOK' BY DEF GuidanceTypeOK
<1>2. /\ errand'[p] = w
      /\ \A q \in Callers : q # p => errand'[q] = errand[q]
  BY DEF GuidanceTypeOK
<1>3. OneHolder' BY <1>2 DEF OneHolder, Holding
<1>4. ChangeKept' BY DEF ChangeKept, Agrees
<1>5. ASSUME NEW q \in Callers PROVE CallInv(errand[q])'
  BY <1>2 DEF CallInv, PuttingBack, Publishing, Entered, Agrees
<1> QED BY <1>1, <1>3, <1>4, <1>5

\* A call inside the lock, or taking it, changes what it may: nobody else is
\* there to be disturbed.
LEMMA LockedStep ==
  ASSUME GuidanceInv, NEW p \in Callers, NEW w \in Errands, Holding(p) \/ LockFree,
         errand' = [errand EXCEPT ![p] = w], UNCHANGED <<checkout, crossed>>,
         docs' \in Editions, agreed' \in Editions, intent' \in Editions \cup {NoIntent},
         known' \in [guidance : Nat, mind : Nat], ChangeKept', CallInv(w)'
  PROVE  GuidanceInv'
<1> USE DEF GuidanceInv
<1>1. GuidanceTypeOK' BY DEF GuidanceTypeOK
<1>2. /\ errand'[p] = w
      /\ \A q \in Callers : q # p => errand'[q] = errand[q] /\ errand'[q].pc \in {"idle", "called"}
  BY DEF GuidanceTypeOK, LockFree, OneHolder, Holding
<1>3. OneHolder' BY <1>2 DEF OneHolder, Holding
<1>4. ASSUME NEW q \in Callers PROVE CallInv(errand[q])'
  <2>1. CASE q = p BY <1>2, <2>1
  <2>2. CASE q # p BY <1>2, <2>2 DEF CallInv, PuttingBack, Publishing, Entered
  <2> QED BY <2>1, <2>2
<1> QED BY <1>1, <1>3, <1>4

\* The lists of files, one step at a time.
LEMMA BackSteps ==
  /\ Head(<<"guidance", "mind", "marker", "intent">>) = "guidance"
  /\ Tail(<<"guidance", "mind", "marker", "intent">>) = <<"mind", "marker", "intent">>
  /\ Head(<<"mind", "marker", "intent">>) = "mind"
  /\ Tail(<<"mind", "marker", "intent">>) = <<"marker", "intent">>
  /\ Head(<<"marker", "intent">>) = "marker" /\ Tail(<<"marker", "intent">>) = <<"intent">>
  /\ Head(<<"intent">>) = "intent" /\ Tail(<<"intent">>) = <<>>
  OBVIOUS

\* What is left to put back tells how far the call has come.
LEMMA RestsDiffer ==
  /\ <<"mind", "marker", "intent">> # <<"guidance", "mind", "marker", "intent">>
  /\ <<"marker", "intent">> # <<"guidance", "mind", "marker", "intent">>
  /\ <<"intent">> # <<"guidance", "mind", "marker", "intent">>
  /\ <<"marker", "intent">> # <<"mind", "marker", "intent">>
  /\ <<"intent">> # <<"mind", "marker", "intent">> /\ <<"intent">> # <<"marker", "intent">>
  /\ <<"mind", "marker", "intent">> # <<>> /\ <<"marker", "intent">> # <<>> /\ <<"intent">> # <<>>
  OBVIOUS

LEMMA PublishSteps ==
  /\ Head(<<"intent", "guidance", "mind", "marker", "event", "done">>) = "intent"
  /\ Tail(<<"intent", "guidance", "mind", "marker", "event", "done">>)
       = <<"guidance", "mind", "marker", "event", "done">>
  /\ Head(<<"guidance", "mind", "marker", "event", "done">>) = "guidance"
  /\ Tail(<<"guidance", "mind", "marker", "event", "done">>)
       = <<"mind", "marker", "event", "done">>
  /\ Head(<<"mind", "marker", "event", "done">>) = "mind"
  /\ Tail(<<"mind", "marker", "event", "done">>) = <<"marker", "event", "done">>
  /\ Head(<<"marker", "event", "done">>) = "marker"
  /\ Tail(<<"marker", "event", "done">>) = <<"event", "done">>
  /\ Head(<<"event", "done">>) = "event" /\ Tail(<<"event", "done">>) = <<"done">>
  /\ Head(<<"done">>) = "done"
  OBVIOUS

\* Putting back the next file, or removing the intent when all are back.
LEMMA PutBackInv ==
  ASSUME GuidanceInv, NEW p \in Callers, PutBack(p)
  PROVE  GuidanceInv'
<1> USE DEF GuidanceInv
<1>1. PICK w \in Errands : w = errand[p] BY DEF GuidanceTypeOK
<1>2. w.pc \in {"recover", "rollback"} /\ w.todo # <<>> /\ w.todo \in BackRests
  BY <1>1 DEF PutBack, CallInv, PuttingBack
<1>3. PICK b \in Editions : b = w.before /\ Agrees(b) /\ intent \in {NoIntent, b}
  BY <1>1, <1>2 DEF CallInv, PuttingBack
<1> DEFINE next == [w EXCEPT !.todo = Tail(w.todo)]
<1>4. errand' = [errand EXCEPT ![p] = next] /\ UNCHANGED <<checkout, known, agreed, crossed>>
  BY <1>1 DEF PutBack, GuidanceTypeOK
<1>5. Holding(p) BY <1>1, <1>2 DEF Holding
<1>6. Agrees(b)' BY <1>3, <1>4 DEF Agrees
<1>7. next \in Errands /\ next.pc = w.pc /\ next.before = b /\ next.todo = Tail(w.todo)
  BY <1>2, <1>3, BackSteps DEF Errands, BackRests
<1> HIDE DEF next
<1>8. CASE w.todo = <<"guidance", "mind", "marker", "intent">>
  <2>1. docs' = [docs EXCEPT !.guidance = b.guidance] /\ UNCHANGED intent
    BY <1>1, <1>3, <1>8, BackSteps DEF PutBack
  <2>2. docs' \in Editions /\ docs'.guidance = b.guidance BY <2>1 DEF GuidanceTypeOK, Editions
  <2>3. ChangeKept' BY <1>3, <1>4, <2>1 DEF ChangeKept, Agrees, GuidanceTypeOK, Editions
  <2>4. CallInv(next)'
    <3>2. next.todo = <<"mind", "marker", "intent">> /\ next.todo \in BackRests
      BY <1>7, <1>8, BackSteps DEF BackRests
    <3>3. PuttingBack(next)'
      BY <1>3, <1>6, <1>7, <2>1, <2>2, <3>2, RestsDiffer DEF PuttingBack, BackOrder
    <3> QED BY <1>2, <1>7, <3>3 DEF CallInv, Publishing, Entered
  <2> QED BY <1>4, <1>5, <1>7, <2>1, <2>2, <2>3, <2>4, LockedStep DEF GuidanceTypeOK
<1>9. CASE w.todo = <<"mind", "marker", "intent">>
  <2>1. docs' = [docs EXCEPT !.mind = b.mind] /\ UNCHANGED intent
    BY <1>1, <1>3, <1>9, BackSteps DEF PutBack
  <2>2. docs' \in Editions /\ docs'.mind = b.mind BY <2>1 DEF GuidanceTypeOK, Editions
  <2>3. ChangeKept' BY <1>3, <1>4, <2>1 DEF ChangeKept, Agrees, GuidanceTypeOK, Editions
  <2>4. CallInv(next)'
    <3>1. docs'.guidance = b.guidance /\ docs'.mind = b.mind
      BY <1>1, <1>2, <1>3, <1>9, <2>1, <2>2, RestsDiffer
         DEF CallInv, PuttingBack, BackOrder, GuidanceTypeOK, Editions
    <3>2. next.todo = <<"marker", "intent">> /\ next.todo \in BackRests
      BY <1>7, <1>9, BackSteps DEF BackRests
    <3>3. PuttingBack(next)'
      BY <1>3, <1>6, <1>7, <2>1, <3>1, <3>2, RestsDiffer DEF PuttingBack, BackOrder
    <3> QED BY <1>2, <1>7, <3>3 DEF CallInv, Publishing, Entered
  <2> QED BY <1>4, <1>5, <1>7, <2>1, <2>2, <2>3, <2>4, LockedStep DEF GuidanceTypeOK
<1>10. CASE w.todo = <<"marker", "intent">>
  <2>1. docs' = [docs EXCEPT !.marker = b.marker] /\ UNCHANGED intent
    BY <1>1, <1>3, <1>10, BackSteps DEF PutBack
  <2>2. docs' \in Editions /\ docs'.marker = b.marker BY <2>1 DEF GuidanceTypeOK, Editions
  <2>3. ChangeKept' BY <1>3, <1>4, <2>1 DEF ChangeKept, Agrees, GuidanceTypeOK, Editions
  <2>4. CallInv(next)'
    <3>1. docs'.guidance = b.guidance /\ docs'.mind = b.mind /\ docs'.marker = b.marker
      BY <1>1, <1>2, <1>3, <1>10, <2>1, <2>2, RestsDiffer
         DEF CallInv, PuttingBack, BackOrder, GuidanceTypeOK, Editions
    <3>2. next.todo = <<"intent">> /\ next.todo \in BackRests
      BY <1>7, <1>10, BackSteps DEF BackRests
    <3>3. PuttingBack(next)'
      BY <1>3, <1>6, <1>7, <2>1, <3>1, <3>2, RestsDiffer DEF PuttingBack, BackOrder
    <3> QED BY <1>2, <1>7, <3>3 DEF CallInv, Publishing, Entered
  <2> QED BY <1>4, <1>5, <1>7, <2>1, <2>2, <2>3, <2>4, LockedStep DEF GuidanceTypeOK
<1>11. CASE w.todo = <<"intent">>
  <2>1. intent' = NoIntent /\ UNCHANGED docs BY <1>1, <1>11, BackSteps DEF PutBack
  <2>2. docs.guidance = b.guidance /\ docs.mind = b.mind /\ docs.marker = b.marker
    BY <1>1, <1>2, <1>3, <1>11 DEF CallInv, PuttingBack, BackOrder
  <2>3. ChangeKept' BY <1>3, <1>4, <2>1, <2>2 DEF ChangeKept, Agrees
  <2>4. CallInv(next)'
    BY <1>2, <1>6, <1>7, <1>11, <2>1, <2>2, BackSteps
       DEF CallInv, PuttingBack, Publishing, Entered, BackRests
  <2> QED BY <1>4, <1>5, <1>7, <2>1, <2>3, <2>4, LockedStep DEF GuidanceTypeOK
<1> QED BY <1>2, <1>8, <1>9, <1>10, <1>11 DEF BackRests

\* Publishing: the intent first, then each file, the event, and the intent goes.
LEMMA PublishInv ==
  ASSUME GuidanceInv, NEW p \in Callers, PublishNext(p)
  PROVE  GuidanceInv'
<1> USE DEF GuidanceInv
<1>1. PICK w \in Errands : w = errand[p] BY DEF GuidanceTypeOK
<1>2. w.pc = "publish" /\ w.todo \in PublishRests BY <1>1 DEF PublishNext, CallInv, Publishing
<1>3. PICK b \in Editions : b = w.before /\ Agrees(b) BY <1>1, <1>2 DEF CallInv, Publishing
<1> DEFINE next == [w EXCEPT !.todo = Tail(w.todo)]
<1>4. Holding(p) /\ UNCHANGED <<checkout, known, crossed>>
  BY <1>1, <1>2 DEF Holding, PublishNext
<1>5. w.todo # <<"done">> =>
        next \in Errands /\ next.pc = "publish" /\ next.before = b /\ next.todo = Tail(w.todo)
  BY <1>2, <1>3, PublishSteps DEF Errands, PublishRests
<1>6. w.todo # <<"done">> => errand' = [errand EXCEPT ![p] = next] /\ UNCHANGED agreed
  BY <1>1, <1>2, PublishSteps DEF PublishNext, PublishRests
<1> HIDE DEF next
<1>7. CASE w.todo = <<"intent", "guidance", "mind", "marker", "event", "done">>
  <2>1. intent' = b /\ UNCHANGED docs
    BY <1>1, <1>3, <1>7, PublishSteps DEF PublishNext, GuidanceTypeOK, Editions
  <2>2. ChangeKept' /\ Agrees(b)'
    BY <1>3, <1>4, <1>6, <1>7, <2>1, GuidanceConstants DEF ChangeKept, Agrees
  <2>3. CallInv(next)'
    BY <1>3, <1>5, <1>7, <2>1, <2>2, PublishSteps
       DEF CallInv, PuttingBack, Publishing, Entered, PublishRests, PublishOrder
  <2> QED BY <1>4, <1>5, <1>6, <1>7, <2>1, <2>2, <2>3, LockedStep DEF GuidanceTypeOK
<1>8. CASE w.todo \in {<<"guidance", "mind", "marker", "event", "done">>,
                      <<"mind", "marker", "event", "done">>, <<"marker", "event", "done">>,
                      <<"event", "done">>}
  <2>1. intent = b /\ UNCHANGED intent
    <3>1. Head(w.todo) \notin {"intent", "done"} /\ w.todo # PublishOrder
      BY <1>8, PublishSteps DEF PublishOrder
    <3> QED BY <1>1, <1>2, <1>3, <3>1 DEF PublishNext, CallInv, Publishing
  <2>2. docs' \in Editions
    <3>1. DOMAIN docs = {"guidance", "mind", "marker"} /\ w.sources \in Nat
      BY DEF GuidanceTypeOK, Editions, Errands
    <3>2. \/ UNCHANGED docs
          \/ docs' = [docs EXCEPT !.guidance = w.sources]
          \/ docs' = [docs EXCEPT !.mind = w.sources]
          \/ docs' = [docs EXCEPT !.marker = w.sources]
      BY <1>1, <1>8, <3>1, PublishSteps DEF PublishNext
    <3> QED BY <3>1, <3>2 DEF GuidanceTypeOK, Editions
  <2>3. ChangeKept' /\ Agrees(b)'
    BY <1>3, <1>4, <1>6, <1>8, <2>1, GuidanceConstants DEF ChangeKept, Agrees
  <2>4. CallInv(next)'
    BY <1>3, <1>5, <1>8, <2>1, <2>3, PublishSteps
       DEF CallInv, PuttingBack, Publishing, Entered, PublishRests, PublishOrder
  <2> QED BY <1>4, <1>5, <1>6, <1>8, <2>1, <2>2, <2>3, <2>4, LockedStep DEF GuidanceTypeOK
<1>9. CASE w.todo = <<"done">>
  <2>1. /\ intent' = NoIntent /\ agreed' = docs /\ UNCHANGED docs
        /\ errand' = [errand EXCEPT ![p] = NoErrand]
    BY <1>1, <1>9, PublishSteps DEF PublishNext, EndErrand, GuidanceTypeOK, Editions
  <2>2. NoErrand \in Errands BY DEF NoErrand, Errands, BackRests
  <2>3. ChangeKept' /\ CallInv(NoErrand)'
    BY <2>1 DEF ChangeKept, Agrees, CallInv, PuttingBack, Publishing, Entered, NoErrand
  <2> QED BY <1>4, <2>1, <2>2, <2>3, LockedStep DEF GuidanceTypeOK
<1> QED BY <1>2, <1>7, <1>8, <1>9 DEF PublishRests

\* Every step of every caller keeps the invariant.
LEMMA GuidanceNextInv ==
  GuidanceInv /\ [GuidanceNext]_<<guidanceVars, odds, meddled>> => GuidanceInv'
<1> SUFFICES ASSUME GuidanceInv, [GuidanceNext]_<<guidanceVars, odds, meddled>>
             PROVE  GuidanceInv'
  OBVIOUS
<1> USE DEF GuidanceInv
<1>1. NoErrand \in Errands /\ NoErrand.pc = "idle" BY DEF NoErrand, Errands, BackRests
<1>2. CallInv(NoErrand)' BY <1>1 DEF CallInv, PuttingBack, Publishing, Entered
<1>3. CASE CheckoutEdited
  <2>1. checkout' \in Nat /\ UNCHANGED <<docs, intent, known, errand, agreed, crossed>>
    BY <1>3 DEF CheckoutEdited, Edition, GuidanceTypeOK, Editions
  <2> QED
    BY <2>1 DEF GuidanceTypeOK, OneHolder, Holding, ChangeKept, Agrees, CallInv, PuttingBack,
                Publishing, Entered
<1>4. ASSUME NEW p \in Callers, CallProject(p) PROVE GuidanceInv'
  <2> DEFINE w == [NoErrand EXCEPT !.pc = "called", !.call = "project", !.sources = checkout,
                                  !.expects = known]
  <2>1. w \in Errands /\ w.pc = "called" BY <1>1 DEF GuidanceTypeOK, Errands
  <2>2. PICK v \in Errands : v.pc = "called" /\ errand' = [errand EXCEPT ![p] = v]
    BY <1>4, <2>1 DEF CallProject
  <2> QED BY <1>4, <2>2, OutsideStep DEF CallProject
<1>5. ASSUME NEW p \in Callers, CallRead(p) PROVE GuidanceInv'
  <2>1. PICK v \in Errands : v.pc = "called" /\ errand' = [errand EXCEPT ![p] = v]
    <3>1. [NoErrand EXCEPT !.pc = "called"] \in Errands BY <1>1 DEF Errands
    <3> QED BY <1>1, <1>5, <3>1 DEF CallRead, GuidanceTypeOK, Errands
  <2> QED BY <1>5, <2>1, OutsideStep DEF CallRead
<1>6. ASSUME NEW p \in Callers, TakeVaultLock(p) PROVE GuidanceInv'
  <2>1. PICK w \in Errands : w = errand[p] BY DEF GuidanceTypeOK
  <2>2. UNCHANGED <<checkout, docs, intent, known, agreed, crossed>> /\ LockFree
    BY <1>6 DEF TakeVaultLock
  <2>3. ChangeKept' BY <2>2 DEF ChangeKept, Agrees
  <2>4. CASE intent = NoIntent
    <3>1. PICK v \in Errands : v.pc = "locked" /\ errand' = [errand EXCEPT ![p] = v]
      <4>1. [w EXCEPT !.pc = "locked"] \in Errands /\ [w EXCEPT !.pc = "locked"].pc = "locked"
        BY DEF Errands
      <4> QED BY <1>6, <2>1, <2>4, <4>1 DEF TakeVaultLock
    <3>2. CallInv(v)' BY <2>2, <2>4, <3>1 DEF CallInv, PuttingBack, Publishing, Entered
    <3> QED BY <2>2, <2>3, <3>1, <3>2, LockedStep DEF GuidanceTypeOK
  <2>5. CASE intent # NoIntent
    <3>1. PICK b \in Editions : b = intent BY <2>5 DEF GuidanceTypeOK
    <3> DEFINE n == [w EXCEPT !.pc = "recover", !.before = b, !.todo = BackOrder]
    <3>2. n \in Errands /\ n.pc = "recover" /\ n.before = b /\ n.todo = BackOrder
      BY DEF Errands, BackOrder, BackRests
    <3>3. errand' = [errand EXCEPT ![p] = n] BY <1>6, <2>1, <2>5, <3>1 DEF TakeVaultLock
    <3> HIDE DEF n
    <3>4. CallInv(n)'
      BY <2>2, <2>3, <2>5, <3>1, <3>2
         DEF CallInv, PuttingBack, Publishing, Entered, ChangeKept, BackRests, BackOrder
    <3> QED BY <2>2, <2>3, <3>2, <3>3, <3>4, LockedStep DEF GuidanceTypeOK
  <2> QED BY <2>4, <2>5
<1>7. ASSUME NEW p \in Callers, Recovered(p) PROVE GuidanceInv'
  <2>1. PICK w \in Errands : w = errand[p] BY DEF GuidanceTypeOK
  <2>2. /\ UNCHANGED <<checkout, docs, intent, known, agreed, crossed>>
        /\ w.pc = "recover" /\ w.todo = <<>>
    BY <1>7, <2>1 DEF Recovered
  <2>3. ChangeKept' /\ Holding(p) /\ intent' = NoIntent
    BY <2>1, <2>2 DEF ChangeKept, Agrees, Holding, CallInv, PuttingBack
  <2>4. PICK v \in Errands : v.pc = "locked" /\ errand' = [errand EXCEPT ![p] = v]
    <3> DEFINE n == [w EXCEPT !.pc = "locked", !.before = NoIntent]
    <3>1. n \in Errands /\ n.pc = "locked" BY DEF Errands
    <3>2. errand' = [errand EXCEPT ![p] = n] BY <1>7, <2>1 DEF Recovered
    <3> HIDE DEF n
    <3> QED BY <3>1, <3>2
  <2>5. CallInv(v)' BY <2>3, <2>4 DEF CallInv, PuttingBack, Publishing, Entered
  <2> QED BY <2>2, <2>3, <2>4, <2>5, LockedStep DEF GuidanceTypeOK
<1>8. ASSUME NEW p \in Callers, ReadGuidance(p) PROVE GuidanceInv'
  <2>1. /\ UNCHANGED <<checkout, docs, intent, agreed, crossed>>
        /\ Holding(p) /\ errand' = [errand EXCEPT ![p] = NoErrand]
    BY <1>8 DEF ReadGuidance, EndErrand, Holding
  <2>2. known' \in [guidance : Nat, mind : Nat]
    BY <1>8 DEF ReadGuidance, Revisions, GuidanceTypeOK, Editions
  <2>3. ChangeKept' BY <2>1 DEF ChangeKept, Agrees
  <2> QED BY <1>1, <1>2, <2>1, <2>2, <2>3, LockedStep DEF GuidanceTypeOK
<1>9. ASSUME NEW p \in Callers, BeginPublish(p) PROVE GuidanceInv'
  <2>1. PICK w \in Errands : w = errand[p] BY DEF GuidanceTypeOK
  <2>2. UNCHANGED <<checkout, docs, intent, known, agreed, crossed>> /\ w.pc = "locked"
    BY <1>9, <2>1 DEF BeginPublish
  <2>3. CASE Projectable(p)
    <3>1. PICK b \in Editions : b = docs BY DEF GuidanceTypeOK
    <3> DEFINE n == [w EXCEPT !.pc = "publish", !.before = b, !.todo = PublishOrder]
    <3>2. n \in Errands /\ n.pc = "publish" /\ n.before = b /\ n.todo = PublishOrder
      BY DEF Errands, PublishOrder, PublishRests
    <3>3. errand' = [errand EXCEPT ![p] = n] BY <1>9, <2>1, <2>3, <3>1 DEF BeginPublish
    <3> HIDE DEF n
    <3>4. intent = NoIntent /\ Holding(p) BY <2>1, <2>2 DEF CallInv, Entered, Holding
    <3>5. ChangeKept' /\ Agrees(b)' BY <2>2, <3>1, <3>4 DEF ChangeKept, Agrees
    <3>6. CallInv(n)'
      BY <2>2, <3>1, <3>2, <3>4, <3>5
         DEF CallInv, PuttingBack, Publishing, Entered, PublishRests, PublishOrder
    <3> QED BY <2>2, <3>2, <3>3, <3>4, <3>5, <3>6, LockedStep DEF GuidanceTypeOK
  <2>4. CASE ~Projectable(p) BY <1>1, <1>9, <2>2, <2>4, OutsideStep DEF BeginPublish, EndErrand
  <2> QED BY <2>3, <2>4
<1>10. ASSUME NEW p \in Callers, PublishFails(p) PROVE GuidanceInv'
  <2>1. PICK w \in Errands : w = errand[p] BY DEF GuidanceTypeOK
  <2>2. UNCHANGED <<checkout, docs, intent, known, agreed, crossed>> /\ w.pc = "publish"
    BY <1>10, <2>1 DEF PublishFails
  <2>3. PICK b \in Editions : b = w.before /\ Agrees(b) /\ intent \in {NoIntent, b}
    BY <2>1, <2>2 DEF CallInv, Publishing
  <2> DEFINE n == [w EXCEPT !.pc = "rollback", !.todo = BackOrder]
  <2>4. n \in Errands /\ n.pc = "rollback" /\ n.before = b /\ n.todo = BackOrder
    BY <2>3 DEF Errands, BackOrder, BackRests
  <2>5. errand' = [errand EXCEPT ![p] = n] BY <1>10, <2>1 DEF PublishFails
  <2> HIDE DEF n
  <2>6. ChangeKept' /\ Agrees(b)' /\ Holding(p)
    BY <2>1, <2>2, <2>3 DEF ChangeKept, Agrees, Holding
  <2>7. CallInv(n)'
    BY <2>2, <2>3, <2>4, <2>6
       DEF CallInv, PuttingBack, Publishing, Entered, BackRests, BackOrder
  <2> QED BY <2>2, <2>4, <2>5, <2>6, <2>7, LockedStep DEF GuidanceTypeOK
<1>11. ASSUME NEW p \in Callers, RolledBack(p) \/ PutBackFails(p) \/ CallerDies(p)
       PROVE  GuidanceInv'
  BY <1>1, <1>11, OutsideStep DEF RolledBack, PutBackFails, CallerDies, EndErrand
<1>12. ASSUME NEW p \in Callers, WriteMind(p) PROVE GuidanceInv'
  <2>1. PICK e \in Nat : e = Edition BY DEF Edition, GuidanceTypeOK, Editions
  <2>2. /\ docs' = [docs EXCEPT !.mind = e] /\ agreed' = [agreed EXCEPT !.mind = e]
        /\ known' = [known EXCEPT !.mind = e]
        /\ UNCHANGED <<checkout, intent, errand>>
    BY <1>12, <2>1 DEF WriteMind
  <2>3. crossed' \in BOOLEAN /\ (~crossed' => ~crossed /\ intent = NoIntent)
    BY <1>12 DEF WriteMind
  <2>4. GuidanceTypeOK' BY <2>2, <2>3 DEF GuidanceTypeOK, Editions
  <2>5. ChangeKept' BY <2>2, <2>3 DEF ChangeKept, Agrees, GuidanceTypeOK, Editions
  <2>6. \A q \in Callers : errand[q].pc \in {"idle", "called"}
    BY <1>12 DEF WriteMind, LockFree, Holding
  <2>7. OneHolder' /\ \A q \in Callers : CallInv(errand[q])'
    BY <2>2, <2>6 DEF OneHolder, Holding, CallInv, PuttingBack, Publishing, Entered
  <2> QED BY <2>4, <2>5, <2>7
<1>13. CASE UNCHANGED <<guidanceVars, odds, meddled>>
  BY <1>13 DEF guidanceVars, GuidanceTypeOK, OneHolder, Holding, ChangeKept, Agrees, CallInv,
               PuttingBack, Publishing, Entered
<1> QED
  BY <1>3, <1>4, <1>5, <1>6, <1>7, <1>8, <1>9, <1>10, <1>11, <1>12, <1>13, PutBackInv, PublishInv
     DEF GuidanceNext

\* A projection is all or nothing for any number of callers, editions, deaths
\* and failed writes, except for a MIND.md written over a pending intent
\* (project_guidance, recover_interrupted_guidance_projection).
THEOREM ProjectionIsWhole == GuidanceSpec => []ProjectionWhole
<1>1. GuidanceInv => ProjectionWhole BY DEF GuidanceInv, ChangeKept, Agrees, ProjectionWhole
<1> QED BY <1>1, GuidanceInitInv, GuidanceNextInv, PTL DEF GuidanceSpec

----------------------------------------
(* NativeBridge *)

\* The steps of a command that moves what it has announced.
Moving == {"aside", "publish", "authorize", "quarantine"}

\* Every variable has its type, and a command that moves has its receipt.
NativeTypeOK ==
  /\ DOMAIN bundles = Places /\ \A p \in Places : bundles[p] \in Bundles \cup {Nobody}
  /\ authority \in Authorities
  /\ lifecycle \in Lifecycles \cup {Nobody}
  /\ launcher \in Launchers \cup {Nobody}
  /\ built \in Nat /\ refused \in BOOLEAN /\ meddled \in BOOLEAN
  /\ launcher # Nobody /\ launcher.at \in Moving => lifecycle # Nobody

\* What is not Seld's is whole.
ForeignKept == \A p \in Places : Is(p, 0) => bundles[p].whole

WholeAt(p, i) == Is(p, i) /\ Intact(p)

\* Nothing is announced: the receipt owns the app, or its removal is left to do.
Quiet ==
  /\ Gone("backup")
  /\ authority.state \in {"none", "removed"} => Gone("app") /\ Gone("quarantine")
  /\ authority.state = "installed" => WholeAt("app", authority.id) /\ Gone("quarantine")
  /\ authority.state = "removing" =>
       Gone("app") /\ (Gone("quarantine") \/ Is("quarantine", authority.id))

\* Where the prior app of an operation and the candidate of a swap can be.
PriorThere == WholeAt("app", lifecycle.prior) /\ Gone("backup") /\ Gone("quarantine")
PriorAside == IF lifecycle.prior = Nobody THEN Gone("backup") ELSE WholeAt("backup", lifecycle.prior)
NothingThere == Gone("app") /\ Gone("quarantine") /\ PriorAside
CandidateThere == WholeAt("app", lifecycle.candidate) /\ Gone("quarantine") /\ PriorAside
Swapped == /\ WholeAt("app", lifecycle.candidate) /\ Gone("quarantine")
           /\ Gone("backup") \/ Is("backup", lifecycle.prior)
Quarantined == Gone("app") /\ Gone("backup") /\ WholeAt("quarantine", lifecycle.prior)

Installing ==
  /\ lifecycle.candidate \in Ids
  /\ lifecycle.candidate # lifecycle.prior /\ lifecycle.candidate # lifecycle.was.id
  /\ lifecycle.next = Authority("installed", lifecycle.candidate)
  /\ IF lifecycle.prior = Nobody THEN lifecycle.was.state \in {"none", "removed"}
     ELSE lifecycle.was = Authority("installed", lifecycle.prior)
  /\ IF authority = lifecycle.next THEN Swapped
     ELSE /\ authority = lifecycle.was
          /\ (lifecycle.prior # Nobody /\ PriorThere) \/ NothingThere \/ CandidateThere

Removing ==
  /\ lifecycle.prior \in Ids
  /\ lifecycle.was = Authority("installed", lifecycle.prior)
  /\ lifecycle.next = Authority("removing", lifecycle.prior)
  /\ IF authority = lifecycle.next
     THEN Gone("app") /\ Gone("backup") /\ (Gone("quarantine") \/ Is("quarantine", lifecycle.prior))
     ELSE authority = lifecycle.was /\ (PriorThere \/ Quarantined)

Situated == IF lifecycle = Nobody THEN Quiet
            ELSE IF lifecycle.kind = "install" THEN Installing ELSE Removing

\* What the command that holds the lock knows at each of its steps.
Announced(kind) == lifecycle # Nobody /\ lifecycle.kind = kind
Undecided == lifecycle # Nobody /\ authority = lifecycle.was
AtStart == IF lifecycle.prior = Nobody THEN NothingThere ELSE PriorThere
Stands ==
  launcher # Nobody =>
    /\ launcher.at \in {"ready", "done", "failed"} => lifecycle = Nobody
    /\ launcher.at \in {"clean", "tombstone"} => lifecycle = Nobody /\ authority.state = "removing"
    /\ At("tombstone") => Gone("quarantine")
    /\ launcher.at \notin {"recover", "ready", "done", "failed", "clean", "tombstone"} =>
         lifecycle # Nobody
    /\ \/ launcher.at \in Moving
       \/ launcher.closing /\ launcher.at \notin {"done", "failed", "clean", "tombstone"}
       => Announced(launcher.op)
    /\ At("rollback") => Announced("install") /\ Undecided /\ CandidateThere
    /\ launcher.at \in {"put back", "restore"} =>
         Announced("install") /\ Undecided /\ lifecycle.prior # Nobody /\ NothingThere
    /\ At("put back") => Is("failed", lifecycle.candidate)
    /\ At("unquarantine") => Announced("uninstall") /\ Undecided /\ Quarantined
    /\ At("check") => Undecided /\ lifecycle.prior # Nobody /\ PriorThere
    /\ At("discard") => Announced("install") /\ authority = lifecycle.next
    /\ At("remove failed") => /\ Announced("install") /\ Undecided /\ AtStart
                              /\ Gone("failed") \/ Is("failed", lifecycle.candidate)
    /\ At("finish") => \/ Undecided /\ lifecycle.prior # Nobody /\ PriorThere
                       \/ Undecided /\ lifecycle.prior = Nobody /\ Announced("install") /\ NothingThere
                       \/ authority = lifecycle.next /\ Gone("backup")
    /\ At("aside") =>
         Announced("install") /\ Undecided /\ AtStart /\ WholeAt("staged", lifecycle.candidate)
    /\ At("publish") =>
         Announced("install") /\ Undecided /\ NothingThere /\ WholeAt("staged", lifecycle.candidate)
    /\ At("authorize") => Undecided /\ IF Announced("install") THEN CandidateThere ELSE Quarantined
    /\ At("quarantine") => Announced("uninstall") /\ Undecided /\ PriorThere

\* Identifiers are those of bundles built, so a new one is new.
Built ==
  /\ \A p \in Places : ~Gone(p) => bundles[p].id <= built
  /\ authority.id # Nobody => authority.id <= built

NativeInv ==
  /\ NativeTypeOK /\ ForeignKept
  /\ ~meddled => ~refused /\ Situated /\ Stands /\ Built

LEMMA NativeInitInv == NativeInit => NativeInv
<1> SUFFICES ASSUME NativeInit PROVE NativeInv
  OBVIOUS
<1>1. meddled = FALSE /\ refused = FALSE /\ lifecycle = Nobody /\ launcher = Nobody /\ built = 0
  BY DEF NativeInit, FaultsInit
<1>2. /\ authority.state = "none" /\ authority.id = Nobody /\ authority \in Authorities
      /\ DOMAIN bundles = Places /\ \A p \in Places : bundles[p] = Nobody
  BY DEF NativeInit, Authority, Authorities
<1>3. NativeTypeOK /\ ForeignKept BY <1>1, <1>2 DEF NativeTypeOK, ForeignKept, Is
<1>4. Situated /\ Stands /\ Built BY <1>1, <1>2 DEF Situated, Quiet, Gone, Places, Stands, Built
<1> QED BY <1>1, <1>3, <1>4 DEF NativeInv

\* A bundle that moves.
LEMMA MovedIs ==
  ASSUME NativeTypeOK, NEW from \in Places, NEW to \in Places, from # to,
         bundles' = MovedBundle(from, to)
  PROVE  /\ DOMAIN bundles' = Places
         /\ bundles'[to] = bundles[from] /\ bundles'[from] = Nobody
         /\ \A p \in Places \ {from, to} : bundles'[p] = bundles[p]
BY DEF NativeTypeOK, MovedBundle

LEMMA GoesIs ==
  ASSUME NativeTypeOK, launcher # Nobody, NEW x \in LauncherSteps, Goes(x)
  PROVE  /\ launcher' \in Launchers /\ launcher' # Nobody
         /\ launcher'.at = x /\ launcher'.op = launcher.op /\ launcher'.closing = launcher.closing
BY NativeConstants DEF NativeTypeOK, Launchers, Goes, LauncherSteps

LEMMA ClosesIs ==
  ASSUME NativeTypeOK, launcher # Nobody, Closes
  PROVE  /\ launcher' \in Launchers /\ launcher' # Nobody
         /\ launcher'.at = "recover" /\ launcher'.op = launcher.op /\ launcher'.closing = TRUE
BY NativeConstants DEF NativeTypeOK, Launchers, LauncherSteps, Closes

\* While bundles and receipts are left alone, so is everything that is said of them.
LEMMA SameNative ==
  ASSUME UNCHANGED <<bundles, authority, lifecycle>>
  PROVE  /\ ForeignKept' <=> ForeignKept
         /\ Situated' <=> Situated
         /\ PriorThere' <=> PriorThere
         /\ NothingThere' <=> NothingThere
         /\ CandidateThere' <=> CandidateThere
         /\ Quarantined' <=> Quarantined
         /\ AtStart' <=> AtStart
         /\ Undecided' <=> Undecided
         /\ \A p : Gone(p)' <=> Gone(p)
         /\ \A p, i : Is(p, i)' <=> Is(p, i)
         /\ \A p, i : WholeAt(p, i)' <=> WholeAt(p, i)
         /\ \A k : Announced(k)' <=> Announced(k)
<1> USE DEF Gone, Is, Intact
<1>1. /\ \A p : Gone(p)' <=> Gone(p)
      /\ \A p, i : Is(p, i)' <=> Is(p, i)
      /\ \A p, i : WholeAt(p, i)' <=> WholeAt(p, i)
  BY DEF WholeAt
<1> HIDE DEF Gone, Is, Intact
<1>2. /\ PriorThere' <=> PriorThere
      /\ PriorAside' <=> PriorAside
      /\ Quarantined' <=> Quarantined
      /\ Quiet' <=> Quiet
      /\ Swapped' <=> Swapped
  BY <1>1 DEF PriorThere, PriorAside, Quarantined, Quiet, Swapped
<1>3. /\ NothingThere' <=> NothingThere
      /\ CandidateThere' <=> CandidateThere
  BY <1>1, <1>2 DEF NothingThere, CandidateThere
<1>4. AtStart' <=> AtStart BY <1>2, <1>3 DEF AtStart
<1>5. Situated' <=> Situated
  <2>1. Installing' <=> Installing BY <1>2, <1>3 DEF Installing, Authority
  <2>2. Removing' <=> Removing BY <1>1, <1>2 DEF Removing, Authority
  <2> QED BY <1>2, <2>1, <2>2 DEF Situated
<1>6. ForeignKept' <=> ForeignKept BY <1>1 DEF ForeignKept
<1> QED BY <1>1, <1>2, <1>3, <1>4, <1>5, <1>6 DEF Undecided, Announced

\* A step of the lock's holder that looks, and goes on or leaves.
LEMMA LookInv ==
  ASSUME NativeInv, UNCHANGED <<bundles, authority, lifecycle, built, meddled>>,
         launcher' \in Launchers \cup {Nobody},
         launcher' # Nobody => launcher'.at \notin Moving,
         refused' \in BOOLEAN, ~meddled => ~refused',
         ~meddled => Stands'
  PROVE  NativeInv'
<1>1. NativeTypeOK' BY DEF NativeInv, NativeTypeOK, Moving
<1>2. ForeignKept' /\ (~meddled => Situated') BY SameNative DEF NativeInv
<1>3. ~meddled => Built' BY DEF NativeInv, Built, Gone
<1> QED BY <1>1, <1>2, <1>3 DEF NativeInv

LEMMA LeaveInv ==
  ASSUME NativeInv, UNCHANGED <<bundles, authority, lifecycle, built, meddled>>,
         Leaves, refused' \in BOOLEAN, ~meddled => ~refused'
  PROVE  NativeInv'
<1>1. launcher' = Nobody BY DEF Leaves
<1> QED BY <1>1, LookInv DEF Moving, Moving, Stands

\* The holder of the lock goes on to a step whose premises it has.
LEMMA GoInv ==
  ASSUME NativeInv, UNCHANGED <<bundles, authority, lifecycle, built, meddled, refused>>,
         launcher # Nobody, NEW x \in LauncherSteps \ Moving, Goes(x),
         ~meddled => Stands'
  PROVE  NativeInv'
<1>1. launcher' \in Launchers /\ launcher' # Nobody /\ launcher'.at = x BY GoesIs DEF NativeInv
<1> QED BY <1>1, LookInv DEF Moving, NativeInv, NativeTypeOK

LEMMA EnterLauncherInv ==
  ASSUME NativeInv, NEW op \in {"install", "uninstall", "status"}, EnterLauncher(op)
  PROVE  NativeInv'
<1>1. /\ launcher' = [op |-> op, at |-> "recover", closing |-> FALSE]
      /\ UNCHANGED <<bundles, authority, lifecycle, built, refused, odds, meddled>>
  BY DEF EnterLauncher
<1>2. launcher' \in Launchers /\ launcher'.at = "recover" /\ launcher'.closing = FALSE
  BY <1>1 DEF Launchers, LauncherSteps
<1>3. Stands' BY <1>2 DEF Moving, Stands, At
<1> QED BY <1>1, <1>2, <1>3, LookInv DEF Moving, NativeInv, NativeTypeOK, LauncherSteps

LEMMA RecoverNativeInv ==
  ASSUME NativeInv, RecoverNative
  PROVE  NativeInv'
<1>1. /\ launcher # Nobody /\ launcher.at = "recover"
      /\ UNCHANGED <<bundles, authority, lifecycle, built, odds, meddled>>
  BY DEF RecoverNative, At
<1>2. PICK x : x = Decision OBVIOUS
<1>3. x \in {"refuse", "settled", "finish", "discard", "check", "unquarantine", "rollback", "restore"}
  BY <1>2 DEF Decision
<1>4. ~meddled => x # "refuse"
  <2> SUFFICES ASSUME ~meddled PROVE x # "refuse"
    OBVIOUS
  <2>1. Situated BY DEF NativeInv
  <2>2. CASE lifecycle = Nobody BY <1>2, <2>2 DEF Decision
  <2>3. CASE Announced("install")
    BY <1>2, <2>1, <2>3 DEF Announced, Situated, Installing, Swapped, PriorThere, NothingThere,
       CandidateThere, PriorAside, WholeAt, Decision, Gone, Is
  <2>4. CASE lifecycle # Nobody /\ ~Announced("install")
    <3>1. Removing /\ lifecycle.kind = "uninstall"
      BY <2>1, <2>4 DEF Situated, Announced, NativeInv, NativeTypeOK, Lifecycles
    <3>2. lifecycle.next # lifecycle.was BY <3>1 DEF Removing, Authority
    <3> QED
      BY <1>2, <2>4, <3>1, <3>2 DEF Removing, PriorThere, Quarantined, WholeAt, Decision, Gone, Is
  <2> QED BY <2>2, <2>3, <2>4
<1>5. CASE x = "refuse"
  <2>1. Leaves /\ refused' = TRUE BY <1>2, <1>5 DEF RecoverNative, GivesUp
  <2> QED BY <1>1, <1>4, <1>5, <2>1, LeaveInv
<1>6. CASE x # "refuse"
  <2>1. PICK y : y = IF x = "settled" THEN "ready" ELSE x OBVIOUS
  <2>2. y \in LauncherSteps \ Moving /\ Goes(y) /\ UNCHANGED refused
    BY <1>2, <1>3, <1>6, <2>1 DEF RecoverNative, LauncherSteps, Moving
  <2>3. ASSUME ~meddled PROVE Stands'
    <3>1. Situated /\ Stands /\ ~(lifecycle = Nobody /\ launcher.closing)
      BY <1>1, <2>3, NativeConstants DEF NativeInv, Moving, Stands, Announced
    <3>2. x = "settled" <=> lifecycle = Nobody BY <1>2 DEF Decision
    <3>3. CASE lifecycle = Nobody
      <4>1. launcher'.at = "ready" /\ launcher'.closing = launcher.closing /\ ~launcher.closing
        BY <1>1, <2>1, <2>2, <3>1, <3>2, <3>3, GoesIs DEF NativeInv
      <4> QED BY <1>1, <3>3, <4>1 DEF Moving, Stands, At
    <3>4. CASE lifecycle # Nobody
      <4>1. /\ launcher'.at = x /\ launcher' # Nobody
            /\ launcher'.closing = launcher.closing /\ launcher'.op = launcher.op
            /\ launcher.closing => Announced(launcher.op)
        BY <1>1, <2>1, <2>2, <3>1, <3>2, <3>4, GoesIs DEF NativeInv, Moving, Stands
      <4>2. /\ x = "rollback" => Announced("install") /\ Undecided /\ CandidateThere
            /\ x = "restore" =>
                 Announced("install") /\ Undecided /\ lifecycle.prior # Nobody /\ NothingThere
            /\ x = "unquarantine" => Announced("uninstall") /\ Undecided /\ Quarantined
            /\ x = "check" => Undecided /\ lifecycle.prior # Nobody /\ PriorThere
            /\ x = "discard" => Announced("install") /\ authority = lifecycle.next
            /\ x = "finish" =>
                 \/ Undecided /\ lifecycle.prior # Nobody /\ PriorThere
                 \/ Undecided /\ lifecycle.prior = Nobody /\ Announced("install") /\ NothingThere
                 \/ authority = lifecycle.next /\ Gone("backup")
        <5>1. CASE Announced("install")
          <6>1. Installing BY <3>1, <5>1 DEF Situated, Announced
          <6>2. CASE authority = lifecycle.next
            BY <1>2, <3>4, <5>1, <6>1, <6>2 DEF Announced, Decision
          <6>3. CASE authority # lifecycle.next
            <7>1. Undecided /\ lifecycle.kind = "install"
              BY <5>1, <6>1, <6>3 DEF Installing, Undecided, Announced
            <7>2. ~Is("app", Nobody) /\ lifecycle.candidate # lifecycle.prior
              BY <6>1, NativeConstants DEF Is, Bundles, NativeInv, NativeTypeOK, Places, Installing
            <7>3. (lifecycle.prior # Nobody /\ PriorThere) \/ NothingThere \/ CandidateThere
              BY <6>1, <6>3 DEF Installing
            <7>4. PriorThere => Is("app", lifecycle.prior) /\ ~Is("app", lifecycle.candidate)
                                /\ ~Gone("app")
              BY <7>2 DEF PriorThere, WholeAt, Is, Gone
            <7>5. NothingThere => \A i : ~Is("app", i) BY DEF NothingThere, Is, Gone
            <7>6. CandidateThere => Is("app", lifecycle.candidate) /\ ~Is("app", lifecycle.prior)
                                    /\ ~Gone("app")
              BY <7>2 DEF CandidateThere, WholeAt, Is, Gone
            <7> QED BY <1>2, <3>4, <5>1, <6>3, <7>1, <7>3, <7>4, <7>5, <7>6 DEF Decision
          <6> QED BY <6>2, <6>3
        <5>2. CASE ~Announced("install")
          <6>1. Removing /\ lifecycle.kind = "uninstall"
            BY <3>1, <3>4, <5>2 DEF Situated, Announced, NativeInv, NativeTypeOK, Lifecycles
          <6>2. lifecycle.next # lifecycle.was /\ lifecycle.prior # Nobody
            BY <6>1, NativeConstants DEF Removing, Authority, Ids
          <6>3. CASE authority = lifecycle.next BY <1>2, <3>4, <6>1, <6>3 DEF Removing, Decision
          <6>4. CASE authority # lifecycle.next
            BY <1>2, <3>4, <6>1, <6>2, <6>4
               DEF Removing, PriorThere, Quarantined, WholeAt, Decision, Gone, Is, Undecided, Announced
          <6> QED BY <6>3, <6>4
        <5> QED BY <5>1, <5>2
      <4>3. x # "settled" BY <3>2, <3>4
      <4> QED BY <1>1, <1>3, <1>6, <3>4, <4>1, <4>2, <4>3, SameNative DEF Moving, Stands, At
    <3> QED BY <3>3, <3>4
  <2> QED BY <1>1, <2>2, <2>3, GoInv DEF Moving
<1> QED BY <1>5, <1>6

\* A move loses nothing, and puts no foreign bundle in pieces.
LEMMA MovedInv ==
  ASSUME NativeTypeOK, ForeignKept, NEW from \in Places, NEW to \in Places, from # to,
         bundles' = MovedBundle(from, to)
  PROVE  /\ DOMAIN bundles' = Places /\ \A p \in Places : bundles'[p] \in Bundles \cup {Nobody}
         /\ ForeignKept'
         /\ Built /\ UNCHANGED <<authority, built>> => Built'
<1>1. /\ DOMAIN bundles' = Places
      /\ bundles'[to] = bundles[from] /\ bundles'[from] = Nobody
      /\ \A p \in Places \ {from, to} : bundles'[p] = bundles[p]
  BY MovedIs
<1>2. \A p \in Places : bundles'[p] = Nobody \/ \E q \in Places : bundles'[p] = bundles[q]
  BY <1>1
<1>3. \A p \in Places : bundles'[p] \in Bundles \cup {Nobody} BY <1>2 DEF NativeTypeOK
<1>4. ForeignKept' BY <1>2 DEF ForeignKept, Is
<1>5. Built /\ UNCHANGED <<authority, built>> => Built' BY <1>2 DEF Built, Gone
<1> QED BY <1>1, <1>3, <1>4, <1>5

\* An operation that is announced and not decided stays so while what it says
\* of the paths is so.
LEMMA StillUndecided ==
  ASSUME NativeTypeOK, Situated, Undecided, UNCHANGED <<authority, lifecycle>>,
         IF Announced("install")
         THEN (lifecycle.prior # Nobody /\ PriorThere') \/ NothingThere' \/ CandidateThere'
         ELSE PriorThere' \/ Quarantined'
  PROVE  Situated' /\ Undecided' /\ \A k : Announced(k)' <=> Announced(k)
<1>1. Undecided' /\ \A k : Announced(k)' <=> Announced(k) BY DEF Undecided, Announced
<1>2. CASE Announced("install")
  <2>1. Installing /\ authority = lifecycle.was BY <1>2 DEF Situated, Undecided, Announced
  <2>2. authority # lifecycle.next BY <2>1 DEF Installing, Authority
  <2>3. Installing' BY <1>2, <2>1, <2>2 DEF Installing, Authority
  <2> QED BY <1>1, <1>2, <2>3 DEF Situated, Announced
<1>3. CASE ~Announced("install")
  <2>1. Removing /\ authority = lifecycle.was BY <1>3 DEF Situated, Undecided, Announced
  <2>2. authority # lifecycle.next BY <2>1 DEF Removing, Authority
  <2>3. Removing' BY <1>3, <2>1, <2>2 DEF Removing, Authority
  <2> QED BY <1>1, <1>3, <2>3 DEF Situated, Announced, Undecided
<1> QED BY <1>2, <1>3

LEMMA RollbackMovesInv ==
  ASSUME NativeInv, RollbackMoves
  PROVE  NativeInv'
<1>1. /\ launcher # Nobody /\ launcher.at = "rollback"
      /\ UNCHANGED <<authority, lifecycle, built, odds, meddled>>
  BY DEF RollbackMoves, At
<1>2. ~meddled => /\ Announced("install") /\ Undecided /\ CandidateThere /\ Situated /\ Built
                  /\ ~refused /\ (launcher.closing => Announced(launcher.op))
  BY <1>1 DEF NativeInv, Moving, Stands, At
<1>3. CASE Is("app", lifecycle.candidate)
  <2>1. PICK x : x = IF lifecycle.prior = Nobody THEN "remove failed" ELSE "put back" OBVIOUS
  <2>2. bundles' = MovedBundle("app", "failed") /\ Goes(x) /\ UNCHANGED refused
    BY <1>3, <2>1 DEF RollbackMoves
  <2>3. x \in LauncherSteps /\ "app" \in Places /\ "failed" \in Places
    BY <2>1 DEF LauncherSteps, Places
  <2>4. /\ launcher' \in Launchers /\ launcher' # Nobody /\ launcher'.at = x
        /\ launcher'.op = launcher.op /\ launcher'.closing = launcher.closing
    BY <1>1, <2>2, <2>3, GoesIs DEF NativeInv
  <2>5. NativeTypeOK' /\ ForeignKept' /\ (Built => Built')
    BY <1>1, <2>1, <2>2, <2>3, <2>4, MovedInv DEF NativeInv, NativeTypeOK, Moving
  <2>6. ASSUME ~meddled PROVE Situated' /\ Stands'
    <3>1. /\ bundles'["failed"] = bundles["app"] /\ bundles'["app"] = Nobody
          /\ bundles'["quarantine"] = bundles["quarantine"] /\ bundles'["backup"] = bundles["backup"]
      BY <2>2, <2>3, MovedIs DEF Places, NativeInv
    <3>2. NothingThere' /\ Is("failed", lifecycle.candidate)'
      BY <1>1, <1>2, <1>3, <2>6, <3>1
         DEF NothingThere, CandidateThere, PriorAside, Gone, WholeAt, Is, Intact
    <3>3. Situated' /\ Undecided' /\ Announced("install")' /\ \A k : Announced(k) => Announced(k)'
      BY <1>1, <1>2, <2>6, <3>2, StillUndecided DEF NativeInv
    <3>4. lifecycle'.prior = lifecycle.prior /\ lifecycle' # Nobody /\ (lifecycle.prior = Nobody => AtStart')
      BY <1>1, <3>2, <3>3 DEF AtStart, Announced
    <3> QED BY <1>1, <1>2, <2>1, <2>4, <2>6, <3>2, <3>3, <3>4 DEF Moving, Stands, At
  <2> QED BY <1>1, <1>2, <2>2, <2>5, <2>6 DEF NativeInv
<1>4. CASE ~Is("app", lifecycle.candidate)
  <2>1. Leaves /\ refused' = TRUE /\ UNCHANGED bundles /\ meddled
    BY <1>2, <1>4 DEF RollbackMoves, GivesUp, CandidateThere, WholeAt
  <2> QED BY <1>1, <2>1, LeaveInv
<1> QED BY <1>3, <1>4

LEMMA RestoreAppInv ==
  ASSUME NativeInv, RestoreApp
  PROVE  NativeInv'
<1>1. /\ launcher # Nobody /\ launcher.at \in {"put back", "restore", "unquarantine"}
      /\ UNCHANGED <<authority, lifecycle, built, odds, meddled>>
  BY DEF RestoreApp
<1>2. PICK from : from = IF At("unquarantine") THEN "quarantine" ELSE "backup" OBVIOUS
<1>3. from \in {"quarantine", "backup"} /\ from \in Places /\ "app" \in Places /\ from # "app"
  BY <1>2 DEF Places
<1>4. ~meddled => /\ Undecided /\ Situated /\ Built /\ ~refused
                  /\ lifecycle.prior # Nobody /\ Gone("app") /\ WholeAt(from, lifecycle.prior)
                  /\ IF At("unquarantine") THEN Announced("uninstall") /\ Quarantined
                     ELSE Announced("install") /\ NothingThere
                  /\ (launcher.closing => Announced(launcher.op))
                  /\ (At("put back") => Is("failed", lifecycle.candidate))
  <2> SUFFICES ASSUME ~meddled PROVE
        /\ Undecided /\ Situated /\ Built /\ ~refused
        /\ lifecycle.prior # Nobody /\ Gone("app") /\ WholeAt(from, lifecycle.prior)
        /\ IF At("unquarantine") THEN Announced("uninstall") /\ Quarantined
           ELSE Announced("install") /\ NothingThere
        /\ (launcher.closing => Announced(launcher.op))
        /\ (At("put back") => Is("failed", lifecycle.candidate))
    OBVIOUS
  <2>1. /\ Undecided /\ Situated /\ Built /\ ~refused
        /\ IF At("unquarantine") THEN Announced("uninstall") /\ Quarantined
           ELSE Announced("install") /\ NothingThere /\ lifecycle.prior # Nobody
        /\ (launcher.closing => Announced(launcher.op))
        /\ (At("put back") => Is("failed", lifecycle.candidate))
    BY <1>1 DEF NativeInv, Moving, Stands, At
  <2>2. At("unquarantine") => lifecycle.prior # Nobody
    BY <2>1, NativeConstants DEF Announced, Situated, Removing, Ids
  <2> QED BY <1>2, <2>1, <2>2 DEF Quarantined, NothingThere, PriorAside
<1>5. CASE Gone("app") /\ Is(from, lifecycle.prior)
  <2>1. PICK x : x = IF At("put back") THEN "remove failed" ELSE "check" OBVIOUS
  <2>2. bundles' = MovedBundle(from, "app") /\ Goes(x) /\ UNCHANGED refused
    BY <1>2, <1>5, <2>1 DEF RestoreApp
  <2>3. x \in LauncherSteps BY <2>1 DEF LauncherSteps
  <2>4. /\ launcher' \in Launchers /\ launcher' # Nobody /\ launcher'.at = x
        /\ launcher'.op = launcher.op /\ launcher'.closing = launcher.closing
    BY <1>1, <2>2, <2>3, GoesIs DEF NativeInv
  <2>5. NativeTypeOK' /\ ForeignKept' /\ (Built => Built')
    BY <1>1, <1>3, <2>1, <2>2, <2>4, MovedInv DEF NativeInv, NativeTypeOK, Moving
  <2>6. ASSUME ~meddled PROVE Situated' /\ Stands'
    <3>1. /\ bundles'["app"] = bundles[from] /\ bundles'[from] = Nobody
          /\ \A p \in {"quarantine", "backup", "failed"} \ {from} : bundles'[p] = bundles[p]
      BY <1>3, <2>2, MovedIs DEF Places, NativeInv
    <3>2. PriorThere'
      <4>1. WholeAt("app", lifecycle.prior)' BY <1>1, <1>4, <2>6, <3>1 DEF WholeAt, Is, Intact
      <4>2. CASE At("unquarantine")
        <5>1. Gone("backup") /\ from = "quarantine" BY <1>2, <1>4, <2>6, <4>2 DEF Quarantined
        <5> QED BY <3>1, <4>1, <5>1 DEF PriorThere, Gone
      <4>3. CASE ~At("unquarantine")
        <5>1. Gone("quarantine") /\ from = "backup" BY <1>2, <1>4, <2>6, <4>3 DEF NothingThere
        <5> QED BY <3>1, <4>1, <5>1 DEF PriorThere, Gone
      <4> QED BY <4>2, <4>3
    <3>3. Situated' /\ Undecided' /\ \A k : Announced(k)' <=> Announced(k)
      BY <1>1, <1>4, <2>6, <3>2, StillUndecided DEF NativeInv
    <3>4. /\ lifecycle'.prior = lifecycle.prior /\ lifecycle' # Nobody
          /\ lifecycle'.candidate = lifecycle.candidate /\ AtStart'
      BY <1>1, <1>4, <2>6, <3>2, <3>3 DEF AtStart, Undecided
    <3>5. At("put back") => Announced("install")' /\ (Gone("failed") \/ Is("failed", lifecycle.candidate))'
      <4>1. At("put back") => from = "backup" BY <1>2 DEF At
      <4>2. At("put back") => Is("failed", lifecycle.candidate)'
        BY <1>1, <1>4, <2>6, <3>1, <4>1 DEF Is
      <4> QED BY <1>2, <1>4, <2>6, <3>3, <4>2 DEF At
    <3> QED BY <1>1, <1>4, <2>1, <2>4, <2>6, <3>2, <3>3, <3>4, <3>5 DEF Moving, Stands, At
  <2> QED BY <1>1, <1>4, <2>2, <2>5, <2>6 DEF NativeInv
<1>6. CASE ~(Gone("app") /\ Is(from, lifecycle.prior))
  <2>1. Leaves /\ refused' = TRUE /\ UNCHANGED bundles /\ meddled
    BY <1>2, <1>4, <1>6 DEF RestoreApp, GivesUp, WholeAt
  <2> QED BY <1>1, <2>1, LeaveInv
<1> QED BY <1>5, <1>6

LEMMA CheckRestoredInv ==
  ASSUME NativeInv, CheckRestored
  PROVE  NativeInv'
<1>1. /\ launcher # Nobody /\ launcher.at = "check"
      /\ UNCHANGED <<bundles, authority, lifecycle, built, odds, meddled>>
  BY DEF CheckRestored, At
<1>2. ~meddled => /\ Undecided /\ Situated /\ lifecycle.prior # Nobody /\ PriorThere
                  /\ (launcher.closing => Announced(launcher.op)) /\ lifecycle # Nobody
  BY <1>1 DEF NativeInv, Moving, Stands, At
<1>3. ~meddled => Intact("app") /\ AuthorityMatches(lifecycle.was)
  <2> SUFFICES ASSUME ~meddled PROVE lifecycle.was = Authority("installed", lifecycle.prior)
    BY <1>2 DEF PriorThere, WholeAt, AuthorityMatches, Authority
  <2> QED BY <1>2 DEF Situated, Installing, Removing
<1>4. CASE Intact("app") /\ AuthorityMatches(lifecycle.was)
  <2>1. Goes("finish") /\ UNCHANGED refused /\ "finish" \in LauncherSteps
    BY <1>4 DEF CheckRestored, LauncherSteps
  <2>2. /\ launcher' # Nobody /\ launcher'.at = "finish"
        /\ launcher'.op = launcher.op /\ launcher'.closing = launcher.closing
    BY <1>1, <2>1, GoesIs DEF NativeInv
  <2>3. ~meddled => Stands' BY <1>1, <1>2, <2>2, SameNative DEF Moving, Stands, At
  <2> QED BY <1>1, <2>1, <2>3, GoInv DEF Moving
<1>5. CASE ~(Intact("app") /\ AuthorityMatches(lifecycle.was))
  BY <1>1, <1>3, <1>5, LeaveInv DEF CheckRestored, GivesUp
<1> QED BY <1>4, <1>5

\* A removal of a bundle by its own identity.
LEMMA ShrinksInv ==
  ASSUME NativeInv, NEW place \in Places, NEW i, i # 0, Is(place, i),
         bundles' = IF Intact(place) THEN [bundles EXCEPT ![place].whole = FALSE]
                    ELSE [bundles EXCEPT ![place] = Nobody]
  PROVE  /\ DOMAIN bundles' = Places /\ \A p \in Places : bundles'[p] \in Bundles \cup {Nobody}
         /\ ForeignKept'
         /\ \A p \in Places \ {place} : bundles'[p] = bundles[p]
         /\ Gone(place)' \/ Is(place, i)'
         /\ Built /\ UNCHANGED <<authority, built>> => Built'
<1>1. /\ DOMAIN bundles = Places /\ \A p \in Places : bundles[p] \in Bundles \cup {Nobody}
      /\ bundles[place] # Nobody /\ bundles[place].id = i
  BY DEF NativeInv, NativeTypeOK, Is
<1>2. /\ DOMAIN bundles' = Places
      /\ \A p \in Places \ {place} : bundles'[p] = bundles[p]
  BY <1>1
<1>3. bundles'[place] = Nobody \/ (bundles'[place] \in Bundles /\ bundles'[place].id = i)
  BY <1>1 DEF Bundles
<1>4. ForeignKept' BY <1>2, <1>3 DEF ForeignKept, Is, NativeInv
<1>5. Gone(place)' \/ Is(place, i)' BY <1>3, NativeConstants DEF Gone, Is
<1>6. Built /\ UNCHANGED <<authority, built>> => Built' BY <1>1, <1>2, <1>3 DEF Built, Gone
<1> QED BY <1>1, <1>2, <1>3, <1>4, <1>5, <1>6

\* Nothing but the removed bundle is looked at where it is removed.
LEMMA RemovalIs ==
  ASSUME NativeInv, NEW r \in Removals, At(r.at)
  PROVE  /\ r.place \in Places /\ r.id # 0 /\ r.at \in {"clean", "discard", "remove failed"}
         /\ r.then \in LauncherSteps \ Moving
         /\ ~meddled => /\ Gone(r.place) \/ Is(r.place, r.id)
                        /\ \/ /\ r.at = "clean" /\ r.place = "quarantine" /\ r.id = authority.id
                              /\ r.then = "tombstone" /\ lifecycle = Nobody
                              /\ authority.state = "removing"
                           \/ /\ r.at = "discard" /\ r.place = "backup" /\ r.id = lifecycle.prior
                              /\ r.then = "finish" /\ Announced("install")
                              /\ authority = lifecycle.next
                           \/ /\ r.at = "remove failed" /\ r.place = "failed"
                              /\ r.id = lifecycle.candidate
                              /\ r.then = IF lifecycle.prior = Nobody THEN "finish" ELSE "check"
                              /\ Announced("install") /\ Undecided /\ AtStart
<1>1. \/ /\ r.at = "clean" /\ r.place = "quarantine" /\ r.id = authority.id /\ r.then = "tombstone"
      \/ /\ lifecycle # Nobody
         /\ r.at = "discard" /\ r.place = "backup" /\ r.id = lifecycle.prior /\ r.then = "finish"
      \/ /\ lifecycle # Nobody
         /\ r.at = "remove failed" /\ r.place = "failed" /\ r.id = lifecycle.candidate
         /\ r.then = IF lifecycle.prior = Nobody THEN "finish" ELSE "check"
  <2>1. PICK then : then = IF lifecycle.prior = Nobody THEN "finish" ELSE "check" OBVIOUS
  <2>2. \/ r = [at |-> "clean", place |-> "quarantine", id |-> authority.id, then |-> "tombstone"]
        \/ /\ lifecycle # Nobody
           /\ \/ r = [at |-> "discard", place |-> "backup", id |-> lifecycle.prior, then |-> "finish"]
              \/ r = [at |-> "remove failed", place |-> "failed", id |-> lifecycle.candidate,
                      then |-> then]
    BY <2>1, Zenon DEF Removals
  <2>3. CASE r = [at |-> "clean", place |-> "quarantine", id |-> authority.id, then |-> "tombstone"]
    <3>1. r.at = "clean" /\ r.place = "quarantine" /\ r.id = authority.id /\ r.then = "tombstone"
      BY <2>3, Zenon
    <3> QED BY <3>1, Zenon
  <2>4. CASE r = [at |-> "discard", place |-> "backup", id |-> lifecycle.prior, then |-> "finish"]
             /\ lifecycle # Nobody
    <3>1. r.at = "discard" /\ r.place = "backup" /\ r.id = lifecycle.prior /\ r.then = "finish"
      BY <2>4, Zenon
    <3> QED BY <2>4, <3>1, Zenon
  <2>5. CASE r = [at |-> "remove failed", place |-> "failed", id |-> lifecycle.candidate,
                  then |-> then] /\ lifecycle # Nobody
    <3>1. r.at = "remove failed" /\ r.place = "failed" /\ r.id = lifecycle.candidate /\ r.then = then
      BY <2>5, Zenon
    <3> QED BY <2>1, <2>5, <3>1, Zenon
  <2> QED BY <2>2, <2>3, <2>4, <2>5, Zenon
<1>2. authority.id # 0 /\ (lifecycle # Nobody => lifecycle.prior # 0 /\ lifecycle.candidate # 0)
  BY NativeConstants DEF NativeInv, NativeTypeOK, Authorities, Lifecycles, Ids
<1>3. r.place \in Places /\ r.id # 0 /\ r.then \in LauncherSteps \ Moving
      /\ r.at \in {"clean", "discard", "remove failed"}
  BY <1>1, <1>2 DEF Places, LauncherSteps, Moving
<1>4. ASSUME ~meddled
      PROVE  /\ Gone(r.place) \/ Is(r.place, r.id)
             /\ \/ /\ r.at = "clean" /\ r.place = "quarantine" /\ r.id = authority.id
                   /\ r.then = "tombstone" /\ lifecycle = Nobody /\ authority.state = "removing"
                \/ /\ r.at = "discard" /\ r.place = "backup" /\ r.id = lifecycle.prior
                   /\ r.then = "finish" /\ Announced("install") /\ authority = lifecycle.next
                \/ /\ r.at = "remove failed" /\ r.place = "failed" /\ r.id = lifecycle.candidate
                   /\ r.then = IF lifecycle.prior = Nobody THEN "finish" ELSE "check"
                   /\ Announced("install") /\ Undecided /\ AtStart
  <2>1. Situated /\ Stands /\ launcher # Nobody /\ launcher.at = r.at BY <1>4 DEF NativeInv, At
  <2>2. CASE r.at = "clean"
    <3>1. lifecycle = Nobody /\ authority.state = "removing" BY <2>1, <2>2 DEF Moving, Stands
    <3> QED BY <1>1, <2>1, <2>2, <3>1 DEF Situated, Quiet
  <2>3. CASE r.at = "discard"
    <3>1. Announced("install") /\ authority = lifecycle.next
      BY <2>1, <2>3 DEF Moving, Stands, At
    <3> QED BY <1>1, <2>1, <2>3, <3>1 DEF Situated, Installing, Swapped, Announced
  <2>4. CASE r.at = "remove failed" BY <1>1, <2>1, <2>4 DEF Moving, Stands, At
  <2> QED BY <1>3, <2>2, <2>3, <2>4
<1> QED BY <1>3, <1>4

LEMMA RemoveTreeInv ==
  ASSUME NativeInv, RemoveTree
  PROVE  NativeInv'
<1>1. PICK r \in Removals :
        /\ At(r.at)
        /\ IF Gone(r.place) THEN Goes(r.then) /\ UNCHANGED <<bundles, refused>>
           ELSE IF ~Is(r.place, r.id) THEN GivesUp /\ UNCHANGED bundles
           ELSE /\ bundles' = IF Intact(r.place) THEN [bundles EXCEPT ![r.place].whole = FALSE]
                              ELSE [bundles EXCEPT ![r.place] = Nobody]
                /\ UNCHANGED <<launcher, refused>>
  BY DEF RemoveTree
<1>2. UNCHANGED <<authority, lifecycle, built, odds, meddled>> BY DEF RemoveTree
<1>3. PICK at, place, i, next : at = r.at /\ place = r.place /\ i = r.id /\ next = r.then
  OBVIOUS
<1>4. launcher # Nobody /\ launcher.at = at BY <1>1, <1>3 DEF At
<1>5. place \in Places /\ i # 0 /\ at \in {"clean", "discard", "remove failed"}
      /\ next \in LauncherSteps \ Moving
  BY <1>1, <1>3, RemovalIs
<1>6. ~meddled => /\ Gone(place) \/ Is(place, i)
                  /\ \/ /\ at = "clean" /\ place = "quarantine" /\ i = authority.id
                        /\ next = "tombstone" /\ lifecycle = Nobody /\ authority.state = "removing"
                     \/ /\ at = "discard" /\ place = "backup" /\ i = lifecycle.prior
                        /\ next = "finish" /\ Announced("install") /\ authority = lifecycle.next
                     \/ /\ at = "remove failed" /\ place = "failed" /\ i = lifecycle.candidate
                        /\ next = IF lifecycle.prior = Nobody THEN "finish" ELSE "check"
                        /\ Announced("install") /\ Undecided /\ AtStart
  BY <1>1, <1>3, RemovalIs
<1>7. ~meddled => /\ Situated /\ Stands /\ Built /\ ~refused
                  /\ (launcher.closing /\ at # "clean" => Announced(launcher.op))
  BY <1>4, <1>5 DEF NativeInv, Moving, Stands
<1>8. CASE Gone(place)
  <2>1. Goes(next) /\ UNCHANGED <<bundles, refused>> BY <1>1, <1>3, <1>8
  <2>2. /\ launcher' # Nobody /\ launcher'.at = next
        /\ launcher'.op = launcher.op /\ launcher'.closing = launcher.closing
    BY <1>4, <1>5, <2>1, GoesIs DEF NativeInv
  <2>3. ASSUME ~meddled PROVE Stands'
    <3>1. CASE at = "clean"
      <4>1. Gone("quarantine")' /\ next = "tombstone" /\ lifecycle' = Nobody /\ authority'.state = "removing"
        BY <1>2, <1>6, <1>8, <2>1, <2>3, <3>1 DEF Gone
      <4> QED BY <2>2, <4>1 DEF Moving, Stands, At
    <3>2. CASE at = "discard"
      <4>1. Gone("backup")' /\ next = "finish" /\ Announced("install") /\ authority' = lifecycle'.next
        BY <1>2, <1>6, <1>8, <2>1, <2>3, <3>2 DEF Gone
      <4>2. lifecycle' # Nobody /\ \A k : Announced(k)' <=> Announced(k)
        BY <1>2, <4>1 DEF Announced
      <4> QED BY <1>7, <2>2, <2>3, <3>2, <4>1, <4>2 DEF Moving, Stands, At
    <3>3. CASE at = "remove failed"
      <4>1. /\ next = IF lifecycle.prior = Nobody THEN "finish" ELSE "check"
            /\ Announced("install") /\ Undecided /\ AtStart /\ lifecycle' = lifecycle
            /\ lifecycle # Nobody
        BY <1>2, <1>6, <2>3, <3>3 DEF Announced
      <4>2. Announced("install")' /\ Undecided' /\ AtStart' /\ \A k : Announced(k)' <=> Announced(k)
        BY <1>2, <2>1, <4>1, SameNative
      <4>3. /\ lifecycle'.prior = Nobody => NothingThere'
            /\ lifecycle'.prior # Nobody => PriorThere'
        BY <4>2 DEF AtStart
      <4> QED BY <1>7, <2>2, <2>3, <3>3, <4>1, <4>2, <4>3 DEF Moving, Stands, At
    <3> QED BY <1>5, <3>1, <3>2, <3>3
  <2> QED BY <1>2, <1>4, <1>5, <2>1, <2>3, GoInv DEF Moving
<1>9. CASE ~Gone(place) /\ ~Is(place, i)
  <2>1. Leaves /\ refused' = TRUE /\ UNCHANGED bundles /\ meddled
    BY <1>1, <1>3, <1>6, <1>9 DEF GivesUp
  <2> QED BY <1>2, <2>1, LeaveInv
<1>10. CASE ~Gone(place) /\ Is(place, i)
  <2>1. /\ bundles' = IF Intact(place) THEN [bundles EXCEPT ![place].whole = FALSE]
                      ELSE [bundles EXCEPT ![place] = Nobody]
        /\ UNCHANGED <<launcher, refused>>
    BY <1>1, <1>3, <1>10
  <2>2. /\ DOMAIN bundles' = Places /\ \A p \in Places : bundles'[p] \in Bundles \cup {Nobody}
        /\ ForeignKept'
        /\ \A p \in Places \ {place} : bundles'[p] = bundles[p]
        /\ Gone(place)' \/ Is(place, i)'
        /\ Built => Built'
    BY <1>2, <1>5, <1>10, <2>1, ShrinksInv
  <2>3. NativeTypeOK' /\ ForeignKept' /\ (Built => Built')
    BY <1>2, <2>1, <2>2 DEF NativeInv, NativeTypeOK, Moving
  <2>4. ASSUME ~meddled PROVE Situated' /\ Stands'
    <3>1. CASE at = "clean"
      <4>1. /\ place = "quarantine" /\ i = authority.id /\ lifecycle = Nobody
            /\ authority.state = "removing" /\ Gone("app") /\ Gone("backup")
        BY <1>6, <1>7, <2>4, <3>1 DEF Situated, Quiet
      <4>2. Gone("app")' /\ Gone("backup")' BY <2>2, <4>1 DEF Gone, Places
      <4>3. Situated' BY <1>2, <2>2, <4>1, <4>2 DEF Situated, Quiet
      <4> QED BY <1>2, <1>4, <2>1, <3>1, <4>1, <4>3 DEF Moving, Stands, At
    <3>2. CASE at = "discard"
      <4>1. /\ place = "backup" /\ i = lifecycle.prior /\ Installing /\ Swapped
            /\ Announced("install") /\ authority = lifecycle.next
        BY <1>6, <1>7, <2>4, <3>2 DEF Situated, Announced, Installing
      <4>2. Swapped' BY <1>2, <2>2, <4>1 DEF Swapped, WholeAt, Is, Intact, Gone, Places
      <4>3. Installing' /\ \A k : Announced(k)' <=> Announced(k)
        BY <1>2, <4>1, <4>2 DEF Installing, Authority, Announced
      <4>4. Situated' /\ Announced("install")' /\ authority' = lifecycle'.next /\ lifecycle' # Nobody
        BY <1>2, <4>1, <4>3 DEF Situated, Announced
      <4> QED BY <1>4, <1>7, <2>1, <2>4, <3>2, <4>3, <4>4 DEF Moving, Stands, At
    <3>3. CASE at = "remove failed"
      <4>1. /\ place = "failed" /\ i = lifecycle.candidate
            /\ Announced("install") /\ Undecided /\ AtStart /\ lifecycle # Nobody
        BY <1>6, <2>4, <3>3 DEF Announced
      <4>2. \A p \in {"app", "backup", "quarantine"} : bundles'[p] = bundles[p]
        BY <2>2, <4>1 DEF Places
      <4>3. AtStart'
        BY <1>2, <4>1, <4>2 DEF AtStart, NothingThere, PriorThere, PriorAside, WholeAt, Is, Intact, Gone
      <4>4. (lifecycle.prior # Nobody /\ PriorThere') \/ NothingThere' BY <1>2, <4>3 DEF AtStart
      <4>5. Situated' /\ Undecided' /\ \A k : Announced(k)' <=> Announced(k)
        BY <1>2, <1>7, <2>4, <4>1, <4>4, StillUndecided DEF NativeInv
      <4>6. (Gone("failed") \/ Is("failed", lifecycle.candidate))' BY <1>2, <2>2, <4>1
      <4> QED
        BY <1>2, <1>4, <1>7, <2>1, <2>4, <3>3, <4>1, <4>3, <4>5, <4>6 DEF Moving, Stands, At
    <3> QED BY <1>5, <3>1, <3>2, <3>3
  <2> QED BY <1>2, <1>7, <2>1, <2>3, <2>4 DEF NativeInv
<1> QED BY <1>8, <1>9, <1>10

\* What an operation leaves when its receipt goes is settled.
LEMMA SettledIsQuiet ==
  ASSUME NativeTypeOK, Situated,
         \/ Undecided /\ lifecycle.prior # Nobody /\ PriorThere
         \/ Undecided /\ lifecycle.prior = Nobody /\ Announced("install") /\ NothingThere
         \/ lifecycle # Nobody /\ authority = lifecycle.next /\ Gone("backup")
  PROVE  Quiet /\ (lifecycle.kind = "uninstall" /\ authority = lifecycle.next => authority.state = "removing")
<1>1. CASE Undecided /\ lifecycle.prior # Nobody /\ PriorThere
  <2>1. authority = Authority("installed", lifecycle.prior) /\ authority # lifecycle.next
    <3>1. authority = Authority("installed", lifecycle.prior)
      BY <1>1 DEF Undecided, Situated, Installing, Removing
    <3>2. authority # lifecycle.next
      BY <1>1, <3>1 DEF Undecided, Situated, Installing, Removing, Authority
    <3> QED BY <3>1, <3>2
  <2>2. authority.state = "installed" /\ authority.id = lifecycle.prior BY <2>1 DEF Authority
  <2> QED BY <1>1, <2>1, <2>2 DEF PriorThere, Quiet
<1>2. CASE Undecided /\ lifecycle.prior = Nobody /\ Announced("install") /\ NothingThere
  <2>1. authority.state \in {"none", "removed"} /\ authority # lifecycle.next
    BY <1>2 DEF Undecided, Announced, Situated, Installing, Authority
  <2> QED BY <1>2, <2>1 DEF NothingThere, PriorAside, Quiet, Announced
<1>3. CASE lifecycle # Nobody /\ authority = lifecycle.next /\ Gone("backup")
  <2>1. CASE lifecycle.kind = "install"
    <3>1. Swapped /\ authority.state = "installed" /\ authority.id = lifecycle.candidate
      BY <1>3, <2>1 DEF Situated, Installing, Authority
    <3> QED BY <1>3, <2>1, <3>1 DEF Swapped, Quiet
  <2>2. CASE lifecycle.kind # "install"
    <3>1. /\ authority.state = "removing" /\ authority.id = lifecycle.prior
          /\ Gone("app") /\ (Gone("quarantine") \/ Is("quarantine", lifecycle.prior))
      BY <1>3, <2>2 DEF Situated, Removing, Authority
    <3> QED BY <1>3, <2>2, <3>1 DEF Quiet
  <2> QED BY <2>1, <2>2
<1> QED BY <1>1, <1>2, <1>3

LEMMA FinishLifecycleInv ==
  ASSUME NativeInv, FinishLifecycle
  PROVE  NativeInv'
<1>1. /\ launcher # Nobody /\ launcher.at = "finish"
      /\ UNCHANGED <<bundles, authority, built, refused, meddled>>
  BY DEF FinishLifecycle, At
<1>2. lifecycle' \in {lifecycle, Nobody} BY DEF FinishLifecycle
<1>3. \/ Leaves
      \/ /\ lifecycle' = Nobody
         /\ \/ /\ launcher.closing
               /\ Goes(IF authority # lifecycle.next THEN "failed"
                       ELSE IF launcher.op = "uninstall" THEN "clean" ELSE "done")
            \/ ~launcher.closing /\ Goes("ready")
  BY <1>1 DEF FinishLifecycle, NativeInv, NativeTypeOK, Launchers
<1>4. \/ launcher' = Nobody
      \/ /\ lifecycle' = Nobody
         /\ launcher' \in Launchers /\ launcher' # Nobody
         /\ launcher'.closing = launcher.closing /\ launcher'.op = launcher.op
         /\ \/ launcher.closing /\ launcher'.at \in {"failed", "done"}
            \/ /\ launcher.closing /\ launcher'.at = "clean"
               /\ authority = lifecycle.next /\ launcher.op = "uninstall"
            \/ ~launcher.closing /\ launcher'.at = "ready"
  <2>1. CASE Leaves BY <2>1 DEF Leaves
  <2>2. CASE launcher.closing /\ lifecycle' = Nobody
             /\ Goes(IF authority # lifecycle.next THEN "failed"
                     ELSE IF launcher.op = "uninstall" THEN "clean" ELSE "done")
    <3>1. PICK x : x = IF authority # lifecycle.next THEN "failed"
                       ELSE IF launcher.op = "uninstall" THEN "clean" ELSE "done"
      OBVIOUS
    <3>2. Goes(x) /\ x \in LauncherSteps BY <2>2, <3>1 DEF LauncherSteps
    <3>3. /\ launcher' \in Launchers /\ launcher' # Nobody /\ launcher'.at = x
          /\ launcher'.closing = launcher.closing /\ launcher'.op = launcher.op
      BY <1>1, <3>2, GoesIs DEF NativeInv
    <3> QED BY <2>2, <3>1, <3>3
  <2>3. CASE ~launcher.closing /\ lifecycle' = Nobody /\ Goes("ready")
    <3>1. /\ launcher' \in Launchers /\ launcher' # Nobody /\ launcher'.at = "ready"
          /\ launcher'.closing = launcher.closing /\ launcher'.op = launcher.op
      BY <1>1, <2>3, GoesIs DEF NativeInv, LauncherSteps
    <3> QED BY <2>3, <3>1
  <2> QED BY <1>3, <2>1, <2>2, <2>3
<1>5. NativeTypeOK' BY <1>1, <1>2, <1>4 DEF NativeInv, NativeTypeOK, Moving
<1>6. ForeignKept' BY <1>1 DEF NativeInv, ForeignKept, Is
<1>7. ASSUME ~meddled PROVE Situated' /\ Stands' /\ Built'
  <2>1. /\ Situated /\ lifecycle # Nobody /\ (launcher.closing => Announced(launcher.op))
        /\ \/ Undecided /\ lifecycle.prior # Nobody /\ PriorThere
           \/ Undecided /\ lifecycle.prior = Nobody /\ Announced("install") /\ NothingThere
           \/ authority = lifecycle.next /\ Gone("backup")
    BY <1>1, <1>7 DEF NativeInv, Stands, Moving, At
  <2>2. /\ Quiet
        /\ lifecycle.kind = "uninstall" /\ authority = lifecycle.next => authority.state = "removing"
    BY <2>1, SettledIsQuiet DEF NativeInv
  <2>3. Quiet' BY <1>1, <2>2 DEF Quiet, Gone, WholeAt, Is, Intact
  <2>4. Situated'
    <3>1. CASE lifecycle' = Nobody BY <2>3, <3>1 DEF Situated
    <3>2. CASE lifecycle' = lifecycle BY <1>1, <2>1, <3>2, SameNative
    <3> QED BY <1>2, <3>1, <3>2
  <2>5. Stands'
    <3>1. CASE launcher' = Nobody BY <3>1 DEF Stands
    <3>2. CASE launcher' # Nobody
      <4>1. launcher'.at = "clean" => authority'.state = "removing"
        BY <1>1, <1>4, <2>1, <2>2, <3>2 DEF Announced
      <4> QED BY <1>4, <3>2, <4>1 DEF Stands, Moving, At
    <3> QED BY <3>1, <3>2
  <2>6. Built' BY <1>1, <1>7 DEF NativeInv, Built, Gone
  <2> QED BY <2>4, <2>5, <2>6
<1> QED BY <1>1, <1>5, <1>6, <1>7 DEF NativeInv

\* An installed app that may be replaced is the one the receipt owns.
LEMMA OwnedIs ==
  ASSUME NativeInv, ~Gone("app"), AuthorityMatches(authority), Intact("app"), NEW i,
         i = bundles["app"].id
  PROVE  authority = Authority("installed", i) /\ i \in Ids /\ WholeAt("app", i)
<1>1. authority.state = "installed" /\ authority.id = i /\ Is("app", i)
  BY DEF AuthorityMatches, Is
<1>2. i \in Nat BY DEF NativeInv, NativeTypeOK, Gone, Places, Bundles
<1>3. i \in Ids BY <1>1, <1>2, NativeConstants DEF NativeInv, NativeTypeOK, Authorities
<1>4. authority = Authority("installed", i)
  BY <1>1 DEF NativeInv, NativeTypeOK, Authorities, Authority
<1> QED BY <1>1, <1>3, <1>4 DEF WholeAt

\* What an operation announces is a lifecycle receipt.
LEMMA LifecycleIs ==
  ASSUME NativeInv, NEW kind \in {"install", "uninstall"}, NEW next \in Authorities,
         NEW prior \in Ids \cup {Nobody}, NEW candidate \in Ids \cup {Nobody}, NEW op,
         op = Lifecycle(kind, next, prior, candidate)
  PROVE  /\ op \in Lifecycles /\ op # Nobody
         /\ op.kind = kind /\ op.was = authority /\ op.next = next
         /\ op.prior = prior /\ op.candidate = candidate
<1>1. op \in Lifecycles BY DEF NativeInv, NativeTypeOK, Lifecycle, Lifecycles
<1> QED BY <1>1, NativeConstants DEF Lifecycle

\* While nothing is announced and the paths that matter are left alone, it stays settled.
LEMMA StillQuiet ==
  ASSUME Quiet, UNCHANGED authority,
         \A p \in {"app", "backup", "quarantine"} : bundles'[p] = bundles[p]
  PROVE  Quiet'
BY DEF Quiet, WholeAt, Is, Intact, Gone

LEMMA BeginSwapInv ==
  ASSUME NativeInv, BeginSwap
  PROVE  NativeInv'
<1>1. /\ launcher # Nobody /\ launcher.at = "ready" /\ launcher.op = "install"
      /\ UNCHANGED <<authority, meddled>>
  BY DEF BeginSwap, At
<1>2. ~meddled => lifecycle = Nobody /\ Quiet /\ Built /\ ~refused /\ ~launcher.closing
  BY <1>1 DEF NativeInv, Stands, Moving, Announced, Situated
<1>3. CASE ~InstallAllowed
  <2>1. /\ Leaves /\ refused' = (refused \/ authority.state # "removing")
        /\ UNCHANGED <<bundles, lifecycle, built, odds>>
    BY <1>3 DEF BeginSwap
  <2>2. ~meddled => authority.state = "removing"
    BY <1>2, <1>3 DEF Quiet, InstallAllowed, AuthorityMatches, WholeAt, Gone, Is, NativeInv,
       NativeTypeOK, Authorities
  <2>3. refused' \in BOOLEAN BY <2>1 DEF NativeInv, NativeTypeOK
  <2> QED BY <1>1, <1>2, <2>1, <2>2, <2>3, LeaveInv
<1>4. CASE InstallAllowed
  <2>1. PICK i : i = built + 1 OBVIOUS
  <2>2. PICK prior : prior = IF Gone("app") THEN Nobody ELSE bundles["app"].id OBVIOUS
  <2>3. PICK next : next = Authority("installed", i) OBVIOUS
  <2>4. PICK op : op = Lifecycle("install", next, prior, i) OBVIOUS
  <2>5. /\ built' = i /\ UNCHANGED refused
        /\ bundles' = [bundles EXCEPT !["staged"] = Bundle(i)]
        /\ \/ lifecycle' = op /\ Goes("aside")
           \/ lifecycle' \in {lifecycle, op} /\ Leaves
    BY <1>4, <2>1, <2>2, <2>3, <2>4 DEF BeginSwap
  <2>6. i \in Ids /\ built \in Nat /\ built' \in Nat /\ built <= built' /\ i > built
    BY <2>1, <2>5 DEF NativeInv, NativeTypeOK, Ids
  <2>7. /\ ~Gone("app") => authority = Authority("installed", prior) /\ WholeAt("app", prior)
        /\ prior \in Ids \cup {Nobody}
        /\ prior = Nobody <=> Gone("app")
    <3>1. CASE Gone("app") BY <2>2, <3>1
    <3>2. CASE ~Gone("app")
      <4>1. authority = Authority("installed", prior) /\ prior \in Ids /\ WholeAt("app", prior)
        BY <1>4, <2>2, <3>2, OwnedIs DEF InstallAllowed
      <4> QED BY <3>2, <4>1, NativeConstants DEF Ids
    <3> QED BY <3>1, <3>2
  <2>8. next \in Authorities /\ next.state = "installed" /\ next.id = i
    BY <2>3, <2>6 DEF Authority, Authorities
  <2>9. /\ op \in Lifecycles /\ op # Nobody
        /\ op.kind = "install" /\ op.was = authority /\ op.next = next
        /\ op.prior = prior /\ op.candidate = i
    BY <2>4, <2>6, <2>7, <2>8, LifecycleIs
  <2>10. /\ DOMAIN bundles' = Places
         /\ bundles'["staged"] = Bundle(i)
         /\ \A p \in Places \ {"staged"} : bundles'[p] = bundles[p]
    BY <2>5 DEF NativeInv, NativeTypeOK, Places
  <2>11. /\ Bundle(i) \in Bundles /\ Bundle(i).id = i /\ Bundle(i).whole /\ Bundle(i) # Nobody
    <3>1. i \in Nat BY <2>6 DEF Ids
    <3>2. Bundle(i) \in Bundles /\ Bundle(i).id = i /\ Bundle(i).whole
      BY <3>1 DEF Bundle, Bundles
    <3> QED BY <3>2, NativeConstants
  <2>12. \/ launcher' = Nobody /\ lifecycle' \in {lifecycle, op}
         \/ /\ lifecycle' = op
            /\ launcher' \in Launchers /\ launcher' # Nobody /\ launcher'.at = "aside"
            /\ launcher'.op = "install" /\ launcher'.closing = launcher.closing
    <3>1. CASE Leaves BY <2>5, <3>1 DEF Leaves
    <3>2. CASE Goes("aside") /\ lifecycle' = op
      BY <1>1, <3>2, GoesIs DEF NativeInv, LauncherSteps
    <3> QED BY <2>5, <3>1, <3>2
  <2>13. NativeTypeOK'
    <3>1. \A p \in Places : bundles'[p] \in Bundles \cup {Nobody}
      BY <2>10, <2>11 DEF NativeInv, NativeTypeOK
    <3> QED BY <1>1, <2>5, <2>6, <2>9, <2>10, <2>12, <3>1 DEF NativeInv, NativeTypeOK
  <2>14. ForeignKept' BY <2>10, <2>11 DEF NativeInv, ForeignKept, Is
  <2>15. ASSUME ~meddled PROVE Situated' /\ Stands' /\ Built'
    <3>1. \A p \in {"app", "backup", "quarantine"} : bundles'[p] = bundles[p]
      BY <2>10 DEF Places
    <3>2. Quiet /\ Quiet' /\ lifecycle = Nobody BY <1>1, <1>2, <2>15, <3>1, StillQuiet
    <3>3. WholeAt("staged", i)' BY <2>10, <2>11 DEF WholeAt, Is, Intact
    <3>4. Gone("app") => authority.state \in {"none", "removed"} BY <1>4 DEF InstallAllowed
    <3>5. Built'
      <4>1. \A p \in Places : ~Gone(p)' => bundles'[p].id <= built'
        <5>1. i <= built' BY <2>5, <2>6
        <5>2. ASSUME NEW p \in Places, ~Gone(p)' PROVE bundles'[p].id <= built'
          <6>1. CASE p = "staged" BY <2>10, <2>11, <5>1, <6>1
          <6>2. CASE p # "staged"
            <7>1. bundles'[p] = bundles[p] /\ ~Gone(p) BY <2>10, <5>2, <6>2 DEF Gone
            <7>2. bundles[p].id <= built /\ bundles[p].id \in Nat
              BY <1>2, <2>15, <7>1 DEF Built, Gone, NativeInv, NativeTypeOK, Bundles
            <7> QED BY <2>6, <7>1, <7>2
          <6> QED BY <6>1, <6>2
        <5> QED BY <5>2
      <4>2. authority'.id # Nobody => authority'.id <= built'
        BY <1>1, <1>2, <2>6, <2>15 DEF Built, NativeInv, NativeTypeOK, Authorities, Ids
      <4> QED BY <4>1, <4>2 DEF Built
    <3>6. ASSUME lifecycle' = op PROVE /\ Installing' /\ Undecided' /\ AtStart'
                                       /\ \A k : Announced(k)' <=> k = "install"
      <4>1. authority # next /\ authority.id # i /\ i # prior
        <5>1. authority.id # i
          BY <1>2, <2>6, <2>15, NativeConstants DEF Built, NativeInv, NativeTypeOK, Ids
        <5>2. i # prior
          <6>1. ~Gone("app") => prior <= built BY <1>2, <2>2, <2>15 DEF Built, Places
          <6> QED BY <2>6, <2>7, <6>1, NativeConstants DEF Ids
        <5> QED BY <2>8, <5>1, <5>2
      <4>2. AtStart'
        <5>1. CASE Gone("app")
          <6>1. Gone("app")' /\ Gone("backup")' /\ Gone("quarantine")'
            BY <3>1, <3>2, <3>4, <5>1 DEF Quiet, Gone
          <6> QED BY <2>7, <2>9, <3>6, <5>1, <6>1 DEF AtStart, NothingThere, PriorAside
        <5>2. CASE ~Gone("app")
          <6>1. authority.state = "installed" /\ prior # Nobody /\ WholeAt("app", prior)
            BY <2>7, <5>2 DEF Authority
          <6>2. WholeAt("app", prior)' /\ Gone("backup")' /\ Gone("quarantine")'
            BY <3>1, <3>2, <6>1 DEF Quiet, Gone, WholeAt, Is, Intact
          <6> QED BY <2>9, <3>6, <6>1, <6>2 DEF AtStart, PriorThere
        <5> QED BY <5>1, <5>2
      <4>3. (lifecycle'.prior # Nobody /\ PriorThere') \/ NothingThere' BY <4>2 DEF AtStart
      <4>4. Undecided' /\ \A k : Announced(k)' <=> k = "install"
        BY <1>1, <2>9, <3>6 DEF Undecided, Announced
      <4>5. Installing' BY <1>1, <2>3, <2>6, <2>7, <2>9, <3>4, <3>6, <4>1, <4>3 DEF Installing
      <4> QED BY <4>2, <4>4, <4>5
    <3>7. Situated' BY <2>9, <2>12, <3>2, <3>6 DEF Situated
    <3>8. Stands'
      <4>1. CASE launcher' = Nobody BY <4>1 DEF Stands
      <4>2. CASE launcher' # Nobody
        <5>1. /\ lifecycle' = op /\ launcher'.at = "aside" /\ launcher'.op = "install"
          BY <2>12, <4>2
        <5>2. WholeAt("staged", lifecycle.candidate)'
          BY <2>9, <3>3, <5>1 DEF WholeAt, Is, Intact
        <5> QED BY <2>9, <3>6, <5>1, <5>2 DEF Stands, Moving, At
      <4> QED BY <4>1, <4>2
    <3> QED BY <3>5, <3>7, <3>8
  <2> QED BY <1>1, <1>2, <2>5, <2>13, <2>14, <2>15 DEF NativeInv
<1> QED BY <1>3, <1>4

LEMMA InstallUnchangedInv ==
  ASSUME NativeInv, InstallUnchanged \/ EndInstall \/ StatusNative
  PROVE  NativeInv'
<1>1. Leaves /\ UNCHANGED <<bundles, authority, lifecycle, built, refused, odds, meddled>>
  BY DEF InstallUnchanged, EndInstall, StatusNative
<1>2. refused' \in BOOLEAN /\ (~meddled => ~refused') BY <1>1 DEF NativeInv, NativeTypeOK
<1> QED BY <1>1, <1>2, LeaveInv

\* A closing recovery stands on what was announced.
LEMMA ClosesStands ==
  ASSUME NativeInv, launcher # Nobody, launcher.at \in Moving, Closes, UNCHANGED lifecycle
  PROVE  ~meddled => Stands'
<1>1. /\ launcher' # Nobody
      /\ launcher'.at = "recover" /\ launcher'.op = launcher.op /\ launcher'.closing = TRUE
  BY ClosesIs DEF NativeInv
<1>2. ~meddled => lifecycle # Nobody /\ Announced(launcher.op)
  BY DEF NativeInv, Stands, Announced
<1> QED BY <1>1, <1>2 DEF Stands, Announced, At, Moving

LEMMA ClosesInv ==
  ASSUME NativeInv, launcher # Nobody, launcher.at \in Moving, Closes,
         UNCHANGED <<bundles, authority, lifecycle, built, refused, meddled>>
  PROVE  NativeInv'
<1>1. launcher' \in Launchers /\ launcher'.at = "recover" BY ClosesIs DEF NativeInv
<1>2. ~meddled => Stands' BY ClosesStands
<1>3. refused' \in BOOLEAN /\ (~meddled => ~refused') BY DEF NativeInv, NativeTypeOK
<1> QED BY <1>1, <1>2, <1>3, LookInv DEF Moving

LEMMA SwapAsideInv ==
  ASSUME NativeInv, SwapAside
  PROVE  NativeInv'
<1>1. /\ launcher # Nobody /\ launcher.at = "aside" /\ launcher.at \in Moving
      /\ UNCHANGED <<authority, lifecycle, built, refused, odds, meddled>>
  BY DEF SwapAside, At, Moving
<1>2. lifecycle # Nobody BY <1>1 DEF NativeInv, NativeTypeOK
<1>3. CASE IF lifecycle.prior = Nobody THEN Gone("app") ELSE Is("app", lifecycle.prior)
  <2>1. bundles' = (IF Gone("app") THEN bundles ELSE MovedBundle("app", "backup")) /\ Goes("publish")
    BY <1>3 DEF SwapAside
  <2>2. /\ launcher' \in Launchers /\ launcher' # Nobody /\ launcher'.at = "publish"
        /\ launcher'.op = launcher.op /\ launcher'.closing = launcher.closing
    BY <1>1, <2>1, GoesIs DEF NativeInv, LauncherSteps
  <2>3. NativeTypeOK' /\ ForeignKept' /\ (Built => Built')
    <3>1. CASE Gone("app")
      BY <1>1, <1>2, <2>1, <2>2, <3>1 DEF NativeInv, NativeTypeOK, ForeignKept, Is, Built, Gone
    <3>2. CASE ~Gone("app")
      <4>1. /\ DOMAIN bundles' = Places /\ \A p \in Places : bundles'[p] \in Bundles \cup {Nobody}
            /\ ForeignKept' /\ (Built => Built')
        BY <1>1, <2>1, <3>2, MovedInv DEF NativeInv, Places
      <4> QED BY <1>1, <1>2, <2>2, <4>1 DEF NativeInv, NativeTypeOK
    <3> QED BY <3>1, <3>2
  <2>4. ASSUME ~meddled PROVE Situated' /\ Stands'
    <3>1. /\ Announced("install") /\ Undecided /\ AtStart /\ WholeAt("staged", lifecycle.candidate)
          /\ Situated /\ Announced(launcher.op)
      BY <1>1, <2>4 DEF NativeInv, Stands, At
    <3>2. NothingThere' /\ WholeAt("staged", lifecycle.candidate)'
      <4>1. CASE lifecycle.prior = Nobody
        <5>1. UNCHANGED bundles /\ NothingThere BY <2>1, <3>1, <4>1 DEF AtStart, NothingThere
        <5> QED BY <1>1, <3>1, <5>1, SameNative DEF WholeAt, Is, Intact
      <4>2. CASE lifecycle.prior # Nobody
        <5>1. PriorThere /\ ~Gone("app")
          BY <3>1, <4>2 DEF AtStart, PriorThere, WholeAt, Is, Gone
        <5>2. /\ bundles'["backup"] = bundles["app"] /\ bundles'["app"] = Nobody
              /\ bundles'["staged"] = bundles["staged"] /\ bundles'["quarantine"] = bundles["quarantine"]
          BY <2>1, <5>1, MovedIs DEF NativeInv, Places
        <5> QED
          BY <1>1, <3>1, <4>2, <5>1, <5>2
             DEF PriorThere, NothingThere, PriorAside, WholeAt, Is, Intact, Gone
      <4> QED BY <4>1, <4>2
    <3>3. Situated' /\ Undecided' /\ \A k : Announced(k)' <=> Announced(k)
      BY <1>1, <2>4, <3>1, <3>2, StillUndecided DEF NativeInv
    <3> QED BY <1>1, <1>2, <2>2, <3>1, <3>2, <3>3 DEF Stands, Moving, At
  <2> QED BY <1>1, <2>3, <2>4 DEF NativeInv
<1>4. CASE ~(IF lifecycle.prior = Nobody THEN Gone("app") ELSE Is("app", lifecycle.prior))
  <2>1. Closes /\ UNCHANGED bundles BY <1>4 DEF SwapAside
  <2> QED BY <1>1, <2>1, ClosesInv
<1> QED BY <1>3, <1>4

LEMMA SwapPublishInv ==
  ASSUME NativeInv, SwapPublish
  PROVE  NativeInv'
<1>1. /\ launcher # Nobody /\ launcher.at = "publish" /\ launcher.at \in Moving
      /\ UNCHANGED <<authority, lifecycle, built, refused, meddled>>
  BY DEF SwapPublish, At, Moving
<1>2. lifecycle # Nobody BY <1>1 DEF NativeInv, NativeTypeOK
<1>3. ~meddled => /\ Announced("install") /\ Undecided /\ NothingThere
                  /\ WholeAt("staged", lifecycle.candidate)
                  /\ Situated /\ Announced(launcher.op)
  BY <1>1 DEF NativeInv, Stands, At
<1>4. CASE bundles' = MovedBundle("staged", "app") /\ Goes("authorize")
  <2>1. /\ launcher' \in Launchers /\ launcher' # Nobody /\ launcher'.at = "authorize"
        /\ launcher'.op = launcher.op /\ launcher'.closing = launcher.closing
    BY <1>1, <1>4, GoesIs DEF NativeInv, LauncherSteps
  <2>2. /\ DOMAIN bundles' = Places /\ \A p \in Places : bundles'[p] \in Bundles \cup {Nobody}
        /\ ForeignKept' /\ (Built => Built')
    BY <1>1, <1>4, MovedInv DEF NativeInv, Places
  <2>3. NativeTypeOK' BY <1>1, <1>2, <2>1, <2>2 DEF NativeInv, NativeTypeOK
  <2>4. ASSUME ~meddled PROVE Situated' /\ Stands'
    <3>1. /\ bundles'["app"] = bundles["staged"]
          /\ bundles'["backup"] = bundles["backup"] /\ bundles'["quarantine"] = bundles["quarantine"]
      BY <1>4, MovedIs DEF NativeInv, Places
    <3>2. CandidateThere'
      BY <1>1, <1>3, <2>4, <3>1 DEF CandidateThere, NothingThere, PriorAside, WholeAt, Is, Intact, Gone
    <3>3. Situated' /\ Undecided' /\ \A k : Announced(k)' <=> Announced(k)
      BY <1>1, <1>3, <2>4, <3>2, StillUndecided DEF NativeInv
    <3> QED BY <1>1, <1>2, <1>3, <2>1, <2>4, <3>2, <3>3 DEF Stands, Moving, At
  <2> QED BY <1>1, <2>2, <2>3, <2>4 DEF NativeInv
<1>5. CASE Closes /\ UNCHANGED bundles BY <1>1, <1>5, ClosesInv
<1>6. CASE Closes /\ Gone("app") /\ lifecycle.prior # Nobody /\ bundles' = MovedBundle("backup", "app")
  <2>1. launcher' \in Launchers /\ launcher'.at = "recover"
    BY <1>1, <1>6, ClosesIs DEF NativeInv
  <2>2. /\ DOMAIN bundles' = Places /\ \A p \in Places : bundles'[p] \in Bundles \cup {Nobody}
        /\ ForeignKept' /\ (Built => Built')
    BY <1>1, <1>6, MovedInv DEF NativeInv, Places
  <2>3. NativeTypeOK' BY <1>1, <1>2, <2>1, <2>2 DEF NativeInv, NativeTypeOK
  <2>4. ASSUME ~meddled PROVE Situated'
    <3>1. /\ bundles'["app"] = bundles["backup"] /\ bundles'["backup"] = Nobody
          /\ bundles'["quarantine"] = bundles["quarantine"]
      BY <1>6, MovedIs DEF NativeInv, Places
    <3>2. PriorThere'
      BY <1>1, <1>3, <1>6, <2>4, <3>1 DEF PriorThere, NothingThere, PriorAside, WholeAt, Is, Intact, Gone
    <3> QED BY <1>1, <1>3, <1>6, <2>4, <3>2, StillUndecided DEF NativeInv
  <2>5. ~meddled => Stands' BY <1>1, <1>6, ClosesStands
  <2> QED BY <1>1, <2>2, <2>3, <2>4, <2>5 DEF NativeInv
<1> QED BY <1>4, <1>5, <1>6 DEF SwapPublish

LEMMA AuthorizeInv ==
  ASSUME NativeInv, Authorize
  PROVE  NativeInv'
<1>1. /\ launcher # Nobody /\ launcher.at = "authorize" /\ launcher.at \in Moving /\ Closes
      /\ UNCHANGED <<bundles, lifecycle, built, refused, meddled>>
  BY DEF Authorize, At, Moving
<1>2. CASE UNCHANGED authority BY <1>1, <1>2, ClosesInv
<1>3. CASE authority' = lifecycle.next
  <2>1. lifecycle # Nobody /\ lifecycle.next \in Authorities
    BY <1>1 DEF NativeInv, NativeTypeOK, Lifecycles
  <2>2. launcher' \in Launchers /\ launcher'.at = "recover" BY <1>1, ClosesIs DEF NativeInv
  <2>3. NativeTypeOK' BY <1>1, <1>3, <2>1, <2>2 DEF NativeInv, NativeTypeOK
  <2>4. ForeignKept' BY <1>1 DEF NativeInv, ForeignKept, Is
  <2>5. ASSUME ~meddled PROVE Situated' /\ Built'
    <3>1. /\ Undecided /\ Situated /\ Built
          /\ IF Announced("install") THEN CandidateThere ELSE Quarantined
      BY <1>1, <2>5 DEF NativeInv, Stands, At
    <3>2. CASE Announced("install")
      <4>1. /\ Installing /\ lifecycle.kind = "install"
            /\ WholeAt("app", lifecycle.candidate) /\ Gone("quarantine") /\ PriorAside
        BY <3>1, <3>2 DEF Situated, Announced, CandidateThere
      <4>2. Swapped' BY <1>1, <4>1 DEF Swapped, PriorAside, WholeAt, Is, Intact, Gone
      <4>3. Installing' BY <1>1, <1>3, <4>1, <4>2 DEF Installing, Authority
      <4>4. authority'.id = lifecycle.candidate BY <1>3, <4>1 DEF Installing, Authority
      <4>5. lifecycle.candidate <= built BY <3>1, <4>1 DEF Built, WholeAt, Is, Gone, Places
      <4> QED BY <1>1, <2>1, <3>1, <4>1, <4>3, <4>4, <4>5 DEF Situated, Built, Gone
    <3>3. CASE ~Announced("install")
      <4>1. Removing /\ lifecycle.kind # "install" /\ Quarantined
        BY <2>1, <3>1, <3>3 DEF Situated, Announced
      <4>2. Gone("app")' /\ Gone("backup")' /\ Is("quarantine", lifecycle.prior)'
        BY <1>1, <4>1 DEF Quarantined, WholeAt, Is, Gone
      <4>3. Removing' BY <1>1, <1>3, <4>1, <4>2 DEF Removing, Authority
      <4>4. authority'.id = lifecycle.prior BY <1>3, <4>1 DEF Removing, Authority
      <4>5. lifecycle.prior <= built
        BY <3>1, <4>1 DEF Built, Quarantined, WholeAt, Is, Gone, Places
      <4> QED BY <1>1, <2>1, <3>1, <4>1, <4>3, <4>4, <4>5 DEF Situated, Built, Gone
    <3> QED BY <3>2, <3>3
  <2>6. ~meddled => Stands' BY <1>1, ClosesStands
  <2> QED BY <1>1, <2>3, <2>4, <2>5, <2>6 DEF NativeInv
<1> QED BY <1>2, <1>3 DEF Authorize

LEMMA BeginRemovalInv ==
  ASSUME NativeInv, BeginRemoval
  PROVE  NativeInv'
<1>1. /\ launcher # Nobody /\ launcher.at = "ready" /\ launcher.op = "uninstall"
      /\ UNCHANGED <<bundles, authority, built, meddled>>
  BY DEF BeginRemoval, At
<1>2. ~meddled => lifecycle = Nobody /\ Quiet /\ ~refused /\ ~launcher.closing
  BY <1>1 DEF NativeInv, Stands, Moving, Announced, Situated
<1>3. CASE Gone("app") /\ authority.state = "removing"
  <2>1. Goes("clean") /\ UNCHANGED <<lifecycle, refused>> BY <1>3 DEF BeginRemoval
  <2>2. launcher'.at = "clean" /\ launcher'.closing = launcher.closing
    BY <1>1, <2>1, GoesIs DEF NativeInv, LauncherSteps
  <2>3. ~meddled => Stands' BY <1>1, <1>2, <1>3, <2>1, <2>2 DEF Stands, Moving, At
  <2>4. "clean" \in LauncherSteps \ Moving BY DEF LauncherSteps, Moving
  <2> QED BY <1>1, <2>1, <2>3, <2>4, GoInv
<1>4. CASE Gone("app") /\ authority.state # "removing"
  <2>1. Leaves /\ refused' = (refused \/ authority.state = "installed") /\ UNCHANGED lifecycle
    BY <1>4 DEF BeginRemoval
  <2>2. ~meddled => authority.state # "installed" BY <1>2, <1>4 DEF Quiet, WholeAt, Is, Gone
  <2>3. refused' \in BOOLEAN BY <2>1 DEF NativeInv, NativeTypeOK
  <2> QED BY <1>1, <1>2, <2>1, <2>2, <2>3, LeaveInv
<1>5. CASE ~Gone("app") /\ (~AuthorityMatches(authority) \/ ~Intact("app"))
  <2>1. Leaves /\ refused' = TRUE /\ UNCHANGED lifecycle BY <1>5 DEF BeginRemoval, GivesUp
  <2>2. meddled
    BY <1>2, <1>5 DEF Quiet, AuthorityMatches, WholeAt, NativeInv, NativeTypeOK, Authorities
  <2> QED BY <1>1, <2>1, <2>2, LeaveInv
<1>6. CASE ~Gone("app") /\ AuthorityMatches(authority) /\ Intact("app")
  <2>1. PICK i : i = bundles["app"].id OBVIOUS
  <2>2. PICK next : next = Authority("removing", i) OBVIOUS
  <2>3. PICK op : op = Lifecycle("uninstall", next, i, Nobody) OBVIOUS
  <2>4. /\ UNCHANGED refused
        /\ \/ lifecycle' = op /\ Goes("quarantine")
           \/ lifecycle' \in {lifecycle, op} /\ Leaves
    BY <1>6, <2>1, <2>2, <2>3 DEF BeginRemoval
  <2>5. authority = Authority("installed", i) /\ i \in Ids /\ WholeAt("app", i)
    BY <1>6, <2>1, OwnedIs
  <2>6. next \in Authorities /\ authority.state = "installed" /\ next # authority
    BY <2>2, <2>5 DEF Authority, Authorities
  <2>7. /\ op \in Lifecycles /\ op # Nobody
        /\ op.kind = "uninstall" /\ op.was = authority /\ op.next = next /\ op.prior = i
    BY <2>3, <2>5, <2>6, LifecycleIs
  <2>8. \/ launcher' = Nobody /\ lifecycle' \in {lifecycle, op}
        \/ /\ lifecycle' = op
           /\ launcher' \in Launchers /\ launcher' # Nobody /\ launcher'.at = "quarantine"
           /\ launcher'.op = "uninstall" /\ launcher'.closing = launcher.closing
    <3>1. CASE Leaves BY <2>4, <3>1 DEF Leaves
    <3>2. CASE Goes("quarantine") /\ lifecycle' = op
      BY <1>1, <3>2, GoesIs DEF NativeInv, LauncherSteps
    <3> QED BY <2>4, <3>1, <3>2
  <2>9. NativeTypeOK' /\ ForeignKept'
    BY <1>1, <2>4, <2>7, <2>8 DEF NativeInv, NativeTypeOK, ForeignKept, Is
  <2>10. ASSUME ~meddled PROVE Situated' /\ Stands' /\ Built'
    <3>1. Quiet' /\ Gone("backup")' /\ Gone("quarantine")'
      BY <1>1, <1>2, <2>6, <2>10, StillQuiet DEF Quiet
    <3>2. ASSUME lifecycle' = op
          PROVE  /\ Removing' /\ Undecided' /\ PriorThere'
                 /\ \A k : Announced(k)' <=> k = "uninstall"
      <4>1. PriorThere' BY <1>1, <2>5, <2>7, <3>1, <3>2 DEF PriorThere, WholeAt, Is, Intact
      <4>2. Undecided' /\ \A k : Announced(k)' <=> k = "uninstall"
        BY <1>1, <2>7, <3>2 DEF Undecided, Announced
      <4>3. Removing' BY <1>1, <2>2, <2>5, <2>6, <2>7, <3>2, <4>1 DEF Removing
      <4> QED BY <4>1, <4>2, <4>3
    <3>3. Situated' BY <1>2, <2>7, <2>8, <2>10, <3>1, <3>2 DEF Situated
    <3>4. Stands'
      <4>1. CASE launcher' = Nobody BY <4>1 DEF Stands
      <4>2. CASE launcher' # Nobody BY <2>7, <2>8, <3>2, <4>2 DEF Stands, Moving, At
      <4> QED BY <4>1, <4>2
    <3>5. Built' BY <1>1, <2>10 DEF NativeInv, Built, Gone
    <3> QED BY <3>3, <3>4, <3>5
  <2> QED BY <1>1, <1>2, <2>4, <2>9, <2>10 DEF NativeInv
<1> QED BY <1>3, <1>4, <1>5, <1>6

LEMMA QuarantineAppInv ==
  ASSUME NativeInv, QuarantineApp
  PROVE  NativeInv'
<1>1. /\ launcher # Nobody /\ launcher.at = "quarantine" /\ launcher.at \in Moving
      /\ UNCHANGED <<authority, lifecycle, built, refused, odds, meddled>>
  BY DEF QuarantineApp, At, Moving
<1>2. lifecycle # Nobody BY <1>1 DEF NativeInv, NativeTypeOK
<1>3. CASE Is("app", lifecycle.prior)
  <2>1. bundles' = MovedBundle("app", "quarantine") /\ Goes("authorize")
    BY <1>3 DEF QuarantineApp
  <2>2. /\ launcher' \in Launchers /\ launcher' # Nobody /\ launcher'.at = "authorize"
        /\ launcher'.op = launcher.op /\ launcher'.closing = launcher.closing
    BY <1>1, <2>1, GoesIs DEF NativeInv, LauncherSteps
  <2>3. /\ DOMAIN bundles' = Places /\ \A p \in Places : bundles'[p] \in Bundles \cup {Nobody}
        /\ ForeignKept' /\ (Built => Built')
    BY <1>1, <2>1, MovedInv DEF NativeInv, Places
  <2>4. NativeTypeOK' BY <1>1, <1>2, <2>2, <2>3 DEF NativeInv, NativeTypeOK
  <2>5. ASSUME ~meddled PROVE Situated' /\ Stands'
    <3>1. /\ Announced("uninstall") /\ ~Announced("install") /\ Undecided /\ PriorThere
          /\ Situated /\ Announced(launcher.op)
      BY <1>1, <2>5 DEF NativeInv, Stands, At, Announced
    <3>2. /\ bundles'["quarantine"] = bundles["app"] /\ bundles'["app"] = Nobody
          /\ bundles'["backup"] = bundles["backup"]
      BY <2>1, MovedIs DEF NativeInv, Places
    <3>3. Quarantined'
      BY <1>1, <3>1, <3>2 DEF Quarantined, PriorThere, WholeAt, Is, Intact, Gone
    <3>4. Situated' /\ Undecided' /\ \A k : Announced(k)' <=> Announced(k)
      BY <1>1, <3>1, <3>3, StillUndecided DEF NativeInv
    <3> QED BY <1>1, <1>2, <2>2, <3>1, <3>3, <3>4 DEF Stands, Moving, At
  <2> QED BY <1>1, <2>3, <2>4, <2>5 DEF NativeInv
<1>4. CASE ~Is("app", lifecycle.prior)
  <2>1. Closes /\ UNCHANGED bundles BY <1>4 DEF QuarantineApp
  <2> QED BY <1>1, <2>1, ClosesInv
<1> QED BY <1>3, <1>4

LEMMA TombstoneInv ==
  ASSUME NativeInv, Tombstone
  PROVE  NativeInv'
<1>1. /\ launcher # Nobody /\ launcher.at = "tombstone" /\ launcher' = Nobody /\ Leaves
      /\ UNCHANGED <<bundles, lifecycle, built, refused, meddled>>
  BY DEF Tombstone, At, Leaves
<1>2. CASE UNCHANGED authority
  <2>1. refused' \in BOOLEAN /\ (~meddled => ~refused') BY <1>1 DEF NativeInv, NativeTypeOK
  <2> QED BY <1>1, <1>2, <2>1, LeaveInv
<1>3. CASE authority' = Authority("removed", Nobody)
  <2>1. authority'.state = "removed" /\ authority'.id = Nobody /\ authority' \in Authorities
    BY <1>3 DEF Authority, Authorities
  <2>2. NativeTypeOK' /\ ForeignKept' BY <1>1, <2>1 DEF NativeInv, NativeTypeOK, ForeignKept, Is
  <2>3. ASSUME ~meddled PROVE Situated' /\ Stands' /\ Built'
    <3>1. /\ lifecycle = Nobody /\ Gone("quarantine") /\ Gone("app") /\ Gone("backup")
      BY <1>1, <2>3 DEF NativeInv, Stands, Situated, Quiet, At
    <3>2. Situated' BY <1>1, <2>1, <3>1 DEF Situated, Quiet, Gone
    <3> QED BY <1>1, <2>1, <2>3, <3>2 DEF Stands, Built, Gone, NativeInv
  <2> QED BY <1>1, <2>2, <2>3 DEF NativeInv
<1> QED BY <1>2, <1>3 DEF Tombstone

LEMMA LauncherFailsInv ==
  ASSUME NativeInv, LauncherFails
  PROVE  NativeInv'
<1>1. /\ launcher # Nobody
      /\ UNCHANGED <<bundles, authority, lifecycle, built, refused, meddled>>
      /\ (launcher.at \in Moving /\ Closes) \/ Leaves
  BY DEF LauncherFails, Moving
<1>2. refused' \in BOOLEAN /\ (~meddled => ~refused') BY <1>1 DEF NativeInv, NativeTypeOK
<1> QED BY <1>1, <1>2, ClosesInv, LeaveInv

LEMMA BuildDiscardedInv ==
  ASSUME NativeInv, BuildDiscarded
  PROVE  NativeInv'
<1>1. /\ launcher = Nobody /\ bundles' = [bundles EXCEPT !["staged"] = Nobody]
      /\ UNCHANGED <<authority, lifecycle, launcher, built, refused, meddled>>
  BY DEF BuildDiscarded
<1>2. /\ DOMAIN bundles' = Places /\ bundles'["staged"] = Nobody
      /\ \A p \in Places \ {"staged"} : bundles'[p] = bundles[p]
  BY <1>1 DEF NativeInv, NativeTypeOK, Places
<1>3. NativeTypeOK' /\ ForeignKept' BY <1>1, <1>2 DEF NativeInv, NativeTypeOK, ForeignKept, Is
<1>4. ASSUME ~meddled PROVE Situated' /\ Stands' /\ Built'
  <2>1. \A p \in {"app", "backup", "quarantine"} : bundles'[p] = bundles[p] BY <1>2 DEF Places
  <2>2. CASE lifecycle = Nobody
    <3>1. Quiet BY <1>4, <2>2 DEF NativeInv, Situated
    <3>2. Quiet' BY <1>1, <2>1, <3>1, StillQuiet
    <3>3. Situated' BY <1>1, <2>2, <3>2 DEF Situated
    <3> QED BY <1>1, <1>2, <1>4, <3>3 DEF Stands, Built, Gone, NativeInv
  <2>3. CASE lifecycle # Nobody
    <3>1. Situated BY <1>4 DEF NativeInv
    <3>2. /\ \A i : WholeAt("app", i)' <=> WholeAt("app", i)
          /\ \A i : WholeAt("backup", i)' <=> WholeAt("backup", i)
          /\ \A i : WholeAt("quarantine", i)' <=> WholeAt("quarantine", i)
          /\ \A p \in {"app", "backup", "quarantine"} : Gone(p)' <=> Gone(p)
          /\ \A i : Is("backup", i)' <=> Is("backup", i)
          /\ \A i : Is("quarantine", i)' <=> Is("quarantine", i)
      BY <2>1 DEF WholeAt, Is, Intact, Gone
    <3>3. /\ PriorThere' <=> PriorThere
          /\ PriorAside' <=> PriorAside
          /\ Quarantined' <=> Quarantined
          /\ Swapped' <=> Swapped
      BY <1>1, <3>2 DEF PriorThere, PriorAside, Quarantined, Swapped
    <3>4. /\ NothingThere' <=> NothingThere
          /\ CandidateThere' <=> CandidateThere
      BY <1>1, <3>2, <3>3 DEF NothingThere, CandidateThere
    <3>5. Installing' <=> Installing BY <1>1, <3>3, <3>4 DEF Installing, Authority
    <3>6. Removing' <=> Removing BY <1>1, <3>2, <3>3 DEF Removing, Authority
    <3>7. Situated' BY <1>1, <2>3, <3>1, <3>5, <3>6 DEF Situated
    <3> QED BY <1>1, <1>2, <1>4, <3>7 DEF Stands, Built, Gone, NativeInv
  <2> QED BY <2>2, <2>3
<1> QED BY <1>1, <1>3, <1>4 DEF NativeInv

LEMMA MeddleAppInv ==
  ASSUME NativeInv, MeddleApp
  PROVE  NativeInv'
<1>1. PICK b : b = IF Gone("app") THEN Bundle(0) ELSE Nobody OBVIOUS
<1>2. /\ meddled' = TRUE /\ bundles' = [bundles EXCEPT !["app"] = b]
      /\ UNCHANGED <<authority, lifecycle, launcher, built, refused>>
  BY <1>1 DEF MeddleApp
<1>3. b \in Bundles \cup {Nobody} /\ (b # Nobody => b.whole) BY <1>1 DEF Bundle, Bundles
<1>4. /\ DOMAIN bundles' = Places /\ bundles'["app"] = b
      /\ \A p \in Places \ {"app"} : bundles'[p] = bundles[p]
  BY <1>2 DEF NativeInv, NativeTypeOK, Places
<1>5. NativeTypeOK' BY <1>2, <1>3, <1>4 DEF NativeInv, NativeTypeOK
<1>6. ForeignKept' BY <1>3, <1>4 DEF NativeInv, ForeignKept, Is
<1> QED BY <1>2, <1>5, <1>6 DEF NativeInv

LEMMA NativeNextInv == NativeInv /\ [NativeNext]_nvars => NativeInv'
<1> SUFFICES ASSUME NativeInv, [NativeNext]_nvars PROVE NativeInv'
  OBVIOUS
<1>1. CASE UNCHANGED nvars
  <2>1. UNCHANGED <<bundles, authority, lifecycle, launcher, built, refused, meddled>>
    BY <1>1 DEF nvars
  <2>2. NativeTypeOK' /\ ForeignKept' /\ (~meddled => Situated' /\ Built')
    BY <2>1, SameNative DEF NativeInv, NativeTypeOK, Built, Gone
  <2>3. ~meddled => Stands'
    BY <2>1, SameNative DEF NativeInv, Stands, Moving, At, WholeAt, Is, Intact, Gone
  <2> QED BY <2>1, <2>2, <2>3 DEF NativeInv
<1> QED
  BY <1>1, EnterLauncherInv, RecoverNativeInv, RollbackMovesInv, RestoreAppInv, CheckRestoredInv,
     RemoveTreeInv, FinishLifecycleInv, BeginSwapInv, InstallUnchangedInv, SwapAsideInv,
     SwapPublishInv, AuthorizeInv, BeginRemovalInv, QuarantineAppInv, TombstoneInv,
     LauncherFailsInv, BuildDiscardedInv, MeddleAppInv
     DEF NativeNext

\* For any number of bundles, failures and deaths, the app that the receipt owns
\* is whole at its path or beside it and the next command can go on, and what is
\* not Seld's is never removed (bridge_launcher.py, _recover_native_install,
\* _recover_native_uninstall, _swap_application, _rmtree_exact).
THEOREM AppIsRecoverable == NativeSpec => []AppRecoverable
<1>1. NativeInv => AppRecoverable
  <2> SUFFICES ASSUME NativeInv PROVE AppRecoverable
    OBVIOUS
  <2>1. \A p \in Places : Is(p, 0) => bundles[p].whole BY DEF NativeInv, ForeignKept
  <2>2. ASSUME ~meddled, authority.state = "installed"
        PROVE  \E p \in {"app", "backup", "quarantine"} : Is(p, authority.id) /\ Intact(p)
    <3>1. Situated BY <2>2 DEF NativeInv
    <3>2. \E p \in {"app", "backup", "quarantine"} : WholeAt(p, authority.id)
      <4>1. CASE lifecycle = Nobody BY <2>2, <3>1, <4>1 DEF Situated, Quiet
      <4>2. CASE lifecycle # Nobody /\ lifecycle.kind = "install"
        <5>1. CASE authority = lifecycle.next
          BY <3>1, <4>2, <5>1 DEF Situated, Installing, Swapped, Authority
        <5>2. CASE authority # lifecycle.next
          <6>1. /\ authority = Authority("installed", lifecycle.prior) /\ lifecycle.prior # Nobody
                /\ PriorThere \/ NothingThere \/ CandidateThere
            BY <2>2, <3>1, <4>2, <5>2 DEF Situated, Installing
          <6>2. authority.id = lifecycle.prior BY <6>1 DEF Authority
          <6> QED BY <6>1, <6>2 DEF PriorThere, NothingThere, CandidateThere, PriorAside
        <5> QED BY <5>1, <5>2
      <4>3. CASE lifecycle # Nobody /\ lifecycle.kind # "install"
        <5>1. authority = lifecycle.was /\ (PriorThere \/ Quarantined)
          BY <2>2, <3>1, <4>3 DEF Situated, Removing, Authority
        <5>2. authority.id = lifecycle.prior
          BY <3>1, <4>3, <5>1 DEF Situated, Removing, Authority
        <5> QED BY <5>1, <5>2 DEF PriorThere, Quarantined
      <4> QED BY <4>1, <4>2, <4>3
    <3> QED BY <3>2 DEF WholeAt
  <2> QED BY <2>1, <2>2 DEF NativeInv, AppRecoverable
<1> QED BY <1>1, NativeInitInv, NativeNextInv, PTL DEF NativeSpec

----------------------------------------
(* CorpusWhatsApp *)

CheckpointFields == {"phase", "review", "again", "row", "file", "columns", "shape", "prefix", "gap"}

Checkpoint(c) ==
  /\ DOMAIN c = CheckpointFields
  /\ c.phase \in {"initial", "steady", "rescan", "rescan-v2"}
  /\ c.again \in Nat /\ c.row \in Nat /\ c.file \in 1..2

\* Rows are known by their number and by their message, and no change is later
\* than the clock.
WaTypeOK ==
  /\ waClock \in 0..MaxMoments /\ waPass \in [began : 0..waClock, finished : 0..waClock]
  /\ wacli \in [file : 1..2, columns : Shapes,
                rows : SUBSET [row : 1..waClock, id : 1..waClock, version : 1..waClock]]
  /\ IsFiniteSet(wacli.rows)
  /\ \A r, q \in wacli.rows : r.row = q.row \/ r.id = q.id => r = q
  /\ DOMAIN waTexts = 1..MaxMoments
  /\ waSaved = NoCheckpoint \/ Checkpoint(waSaved)
  /\ waSaved # NoCheckpoint => waSaved.file <= wacli.file

\* What a checkpoint covers of the table, and up to which change: the rows a
\* review has come to, otherwise all rows it has read.
Reach(c) == IF c.phase = "rescan-v2" THEN c.again ELSE c.row
ArrivedSince(c, pass) == IF c.phase = "steady" THEN pass.finished ELSE pass.began

CoversRead(c, since) ==
  \A r \in wacli.rows : r.row <= Reach(c) /\ r.version <= since => waTexts[r.id] = r.version

WaInv ==
  /\ WaTypeOK
  /\ waSaved # NoCheckpoint /\ waSaved.file = wacli.file => CoversRead(waSaved, ArrivedSince(waSaved, waPass))

NatBelow == {p \in Nat \X Nat : p[1] < p[2]}

\* Numbers that are bounded have a least and a greatest one.
LEMMA LeastAndGreatest ==
  ASSUME NEW n \in Nat, NEW S \in SUBSET (0..n), S # {}
  PROVE  /\ \E m \in S : \A x \in S : m <= x
         /\ Max(S) \in S /\ \A x \in S : Max(S) >= x
<1>1. IsWellFoundedOn(NatBelow, Nat) BY NatLessThanWellFounded, Zenon DEF OpToRel, NatBelow
<1>2. ASSUME NEW T \in SUBSET Nat, T # {} PROVE \E m \in T : \A x \in T : m <= x
  <2>1. PICK m \in T : \A x \in T : ~ (<<x, m>> \in NatBelow) BY <1>1, <1>2, WFMin
  <2>2. \A x \in T : x < m => <<x, m>> \in NatBelow BY DEF NatBelow
  <2>3. \A x \in T : ~ (x < m) BY <2>1, <2>2
  <2>4. \A x \in T : m <= x BY <2>3
  <2> QED BY <2>4
<1>3. \E m \in S : \A x \in S : m <= x BY <1>2
<1>4. PICK T : T = {n - x : x \in S} OBVIOUS
<1>5. T \in SUBSET Nat /\ T # {}
  <2>1. \A x \in S : n - x \in Nat OBVIOUS
  <2> QED BY <1>4, <2>1
<1>6. PICK m \in T : \A x \in T : m <= x BY <1>2, <1>5
<1>7. PICK g \in S : m = n - g BY <1>4
<1>8. \A x \in S : g >= x
  <2>1. \A x \in S : n - g <= n - x BY <1>4, <1>6, <1>7
  <2> QED BY <2>1
<1> QED BY <1>3, <1>8 DEF Max

\* A page is the first rows: it ends at the last row it has, and holds every row
\* up to there.
LEMMA PageIs ==
  ASSUME NEW n \in Nat, NEW rows, rows # {}, IsFiniteSet(rows), \A r \in rows : r.row \in 1..n,
         \A r, q \in rows : r.row = q.row => r = q
  PROVE  /\ \E r \in PageOf(rows) : LastOf(rows) = r.row
         /\ \A r \in rows : r.row <= LastOf(rows) => r \in PageOf(rows)
<1>1. \A r \in rows : {q \in rows : q.row <= r.row} \in SUBSET rows OBVIOUS
<1>2. \A r \in rows : /\ IsFiniteSet({q \in rows : q.row <= r.row})
                      /\ Cardinality({q \in rows : q.row <= r.row}) \in Nat
  BY <1>1, FS_Subset, FS_CardinalityType
<1>3. PICK first \in rows : \A r \in rows : first.row <= r.row
  <2>1. PICK S : S = {r.row : r \in rows} OBVIOUS
  <2>2. S \in SUBSET (0..n) /\ S # {} BY <2>1
  <2>3. PICK m \in S : \A x \in S : m <= x BY <2>2, LeastAndGreatest
  <2> QED BY <2>1, <2>3
<1>4. first \in PageOf(rows)
  <2>1. {q \in rows : q.row <= first.row} = {first} BY <1>3
  <2>2. Cardinality({q \in rows : q.row <= first.row}) = 1 BY <2>1, FS_Singleton
  <2> QED BY <2>2, WhatsAppConstants DEF PageOf
<1>5. PICK T : T = {r.row : r \in PageOf(rows)} OBVIOUS
<1>6. T \in SUBSET (0..n) /\ T # {} /\ LastOf(rows) = Max(T)
  <2>1. PageOf(rows) \subseteq rows /\ PageOf(rows) # {} BY <1>4 DEF PageOf
  <2>2. T \in SUBSET (0..n) /\ T # {} BY <1>5, <2>1
  <2> QED BY <1>5, <2>2 DEF LastOf
<1>7. LastOf(rows) \in T BY <1>6, LeastAndGreatest
<1>8. PICK last \in PageOf(rows) : LastOf(rows) = last.row BY <1>5, <1>7
<1>9. ASSUME NEW r \in rows, r.row <= last.row PROVE r \in PageOf(rows)
  <2>1. last \in rows /\ Cardinality({q \in rows : q.row <= last.row}) <= PageRows
    BY <1>8 DEF PageOf
  <2>2. {q \in rows : q.row <= r.row} \in SUBSET {q \in rows : q.row <= last.row} BY <1>9, <2>1
  <2>3. PICK B : B = {q \in rows : q.row <= last.row} OBVIOUS
  <2>4. PICK A : A = {q \in rows : q.row <= r.row} OBVIOUS
  <2>5. /\ IsFiniteSet(B) /\ Cardinality(B) \in Nat /\ Cardinality(B) <= PageRows
        /\ Cardinality(A) \in Nat /\ A \in SUBSET B
    BY <1>2, <2>1, <2>2, <2>3, <2>4
  <2>6. Cardinality(A) <= Cardinality(B) BY <2>5, FS_Subset
  <2>7. Cardinality(A) <= PageRows BY <2>5, <2>6, WhatsAppConstants
  <2> QED BY <2>4, <2>7 DEF PageOf
<1> QED BY <1>8, <1>9

\* Without more than a page, the page is all.
LEMMA WholePage ==
  ASSUME NEW rows, IsFiniteSet(rows), ~HasMore(rows)
  PROVE  PageOf(rows) = rows
<1>1. ASSUME NEW r \in rows PROVE r \in PageOf(rows)
  <2>1. {q \in rows : q.row <= r.row} \in SUBSET rows OBVIOUS
  <2>2. /\ Cardinality({q \in rows : q.row <= r.row}) <= Cardinality(rows)
        /\ Cardinality({q \in rows : q.row <= r.row}) \in Nat
    BY <2>1, FS_Subset, FS_CardinalityType
  <2>3. Cardinality(rows) \in Nat /\ Cardinality(rows) <= PageRows
    BY FS_CardinalityType, WhatsAppConstants DEF HasMore
  <2> QED BY <2>2, <2>3, WhatsAppConstants DEF PageOf
<1> QED BY <1>1 DEF PageOf

\* The last row of the table.
LEMMA TopRowIs ==
  ASSUME WaTypeOK
  PROVE  /\ TopRow \in 0..waClock
         /\ \A r \in wacli.rows : r.row \in 1..waClock /\ r.row <= TopRow
         /\ TopRow = 0 \/ \E r \in wacli.rows : r.row = TopRow
<1>1. waClock \in Nat /\ \A r \in wacli.rows : r.row \in 1..waClock
  BY WhatsAppConstants DEF WaTypeOK
<1>2. PICK S : S = {0} \cup {r.row : r \in wacli.rows} OBVIOUS
<1>3. S \in SUBSET (0..waClock) /\ S # {} /\ TopRow = Max(S) BY <1>1, <1>2 DEF TopRow
<1>4. Max(S) \in S /\ \A x \in S : Max(S) >= x BY <1>1, <1>3, LeastAndGreatest
<1> QED BY <1>1, <1>2, <1>3, <1>4

LEMMA WaInitInv == WhatsAppCorpusInit => WaInv
<1> SUFFICES ASSUME WhatsAppCorpusInit PROVE WaInv
  OBVIOUS
<1>1. PICK legacy \in BOOLEAN :
        LET read == IF legacy THEN 1..2 ELSE {} IN
        /\ wacli = [file |-> 1, columns |-> {"text"},
                    rows |-> {[row |-> n, id |-> n, version |-> n] : n \in read}]
        /\ waClock = Cardinality(read)
        /\ waTexts = [m \in 1..MaxMoments |-> IF m \in read THEN m ELSE 0]
        /\ waPass = [began |-> Cardinality(read), finished |-> Cardinality(read)]
        /\ waSaved = IF legacy
                     THEN [FreshCheckpoint EXCEPT !.phase = "rescan", !.review = "due",
                                                  !.row = 2, !.shape = FALSE]
                     ELSE NoCheckpoint
  BY DEF WhatsAppCorpusInit, LegacyCheckpoint
<1>2. MaxMoments \in Nat /\ MaxMoments >= 2 /\ {"text"} \in Shapes
  BY WhatsAppConstants DEF Shapes
<1>3. CASE ~legacy
  <2>1. /\ wacli = [file |-> 1, columns |-> {"text"}, rows |-> {}]
        /\ waClock = 0 /\ waTexts = [m \in 1..MaxMoments |-> 0]
        /\ waPass = [began |-> 0, finished |-> 0] /\ waSaved = NoCheckpoint
    BY <1>1, <1>3, FS_EmptySet
  <2> QED BY <1>2, <2>1, FS_EmptySet DEF WaInv, WaTypeOK
<1>4. CASE legacy
  <2>1. Cardinality(1..2) = 2
    <3>1. PICK one : one = {1} OBVIOUS
    <3>2. IsFiniteSet(one) /\ Cardinality(one) = 1 /\ 2 \notin one BY <3>1, FS_Singleton
    <3>3. Cardinality(one \cup {2}) = Cardinality(one) + 1 BY <3>2, FS_AddElement
    <3>4. 1..2 = one \cup {2} BY <3>1
    <3> QED BY <3>2, <3>3, <3>4
  <2>2. PICK rows : rows = {[row |-> n, id |-> n, version |-> n] : n \in 1..2} OBVIOUS
  <2>3. /\ wacli = [file |-> 1, columns |-> {"text"}, rows |-> rows]
        /\ waClock = 2 /\ waTexts = [m \in 1..MaxMoments |-> IF m \in 1..2 THEN m ELSE 0]
        /\ waPass = [began |-> 2, finished |-> 2]
        /\ waSaved = [FreshCheckpoint EXCEPT !.phase = "rescan", !.review = "due",
                                             !.row = 2, !.shape = FALSE]
    BY <1>1, <1>4, <2>1, <2>2
  <2>4. /\ wacli.file = 1 /\ wacli.rows = rows
        /\ waPass.began = 2 /\ waPass.finished = 2
    BY <2>3
  <2>5. Checkpoint(waSaved) /\ waSaved.phase = "rescan" /\ waSaved.row = 2 /\ waSaved.file = 1
    BY <2>3, <2>4 DEF FreshCheckpoint, Checkpoint, CheckpointFields
  <2>6. rows = {[row |-> 1, id |-> 1, version |-> 1], [row |-> 2, id |-> 2, version |-> 2]}
    BY <2>2
  <2>7. IsFiniteSet(rows)
    <3>1. IsFiniteSet({[row |-> 1, id |-> 1, version |-> 1]}) BY FS_Singleton
    <3>2. rows = {[row |-> 1, id |-> 1, version |-> 1]} \cup {[row |-> 2, id |-> 2, version |-> 2]}
      BY <2>6
    <3> QED BY <3>1, <3>2, FS_AddElement
  <2>8. \A r \in rows : /\ r \in [row : 1..2, id : 1..2, version : 1..2]
                        /\ r.row = r.id /\ r.version = r.id
    BY <2>6
  <2>9. \A r, q \in rows : r.row = q.row \/ r.id = q.id => r = q BY <2>6
  <2>10. WaTypeOK
    <3>1. waClock \in 0..MaxMoments /\ waPass \in [began : 0..waClock, finished : 0..waClock]
      BY <1>2, <2>3
    <3>2. wacli \in [file : 1..2, columns : Shapes,
                     rows : SUBSET [row : 1..waClock, id : 1..waClock, version : 1..waClock]]
      BY <1>2, <2>3, <2>8
    <3> QED BY <2>3, <2>4, <2>5, <2>7, <2>9, <3>1, <3>2 DEF WaTypeOK
  <2>11. \A r \in rows : waTexts[r.id] = r.version BY <1>2, <2>3, <2>8
  <2> QED BY <2>4, <2>10, <2>11 DEF WaInv, CoversRead
<1> QED BY <1>3, <1>4

\* Whatever wacli does, a row the corpus has not read is later than all it has.
LEMMA WacliStep ==
  ASSUME WaInv, UNCHANGED <<waSaved, waTexts, waPass>>,
         waClock' \in 0..MaxMoments, waClock <= waClock',
         wacli' \in [file : 1..2, columns : Shapes,
                     rows : SUBSET [row : 1..waClock', id : 1..waClock', version : 1..waClock']],
         IsFiniteSet(wacli'.rows), wacli.file <= wacli'.file,
         \A r, q \in wacli'.rows : r.row = q.row \/ r.id = q.id => r = q,
         \A r \in wacli'.rows : r \in wacli.rows \/ r.version > waClock
  PROVE  WaInv'
<1>1. waClock \in Nat /\ waClock' \in Nat /\ wacli.file \in 1..2 /\ wacli'.file \in 1..2
  BY WhatsAppConstants DEF WaInv, WaTypeOK
<1>2. waPass' \in [began : 0..waClock', finished : 0..waClock'] BY <1>1 DEF WaInv, WaTypeOK
<1>3. WaTypeOK'
  <2>1. waSaved # NoCheckpoint => waSaved.file <= wacli'.file
    BY <1>1 DEF WaInv, WaTypeOK, Checkpoint
  <2>2. waSaved' = NoCheckpoint \/ Checkpoint(waSaved)'
    BY DEF WaInv, WaTypeOK, Checkpoint, NoCheckpoint
  <2> QED BY <1>2, <2>1, <2>2 DEF WaInv, WaTypeOK, NoCheckpoint
<1>4. ASSUME waSaved' # NoCheckpoint', waSaved'.file = wacli'.file
      PROVE  CoversRead(waSaved, ArrivedSince(waSaved, waPass))'
  <2>1. waSaved # NoCheckpoint /\ waSaved.file = wacli.file
    BY <1>1, <1>4 DEF WaInv, WaTypeOK, Checkpoint, NoCheckpoint
  <2>2. CoversRead(waSaved, ArrivedSince(waSaved, waPass)) /\ ArrivedSince(waSaved, waPass) \in 0..waClock
    BY <2>1 DEF WaInv, WaTypeOK, ArrivedSince
  <2>3. PICK since : since = ArrivedSince(waSaved, waPass) OBVIOUS
  <2>4. ArrivedSince(waSaved, waPass)' = since /\ Reach(waSaved)' = Reach(waSaved) /\ since <= waClock
    BY <1>1, <2>2, <2>3 DEF ArrivedSince, Reach
  <2>5. \A r \in wacli'.rows : r \notin wacli.rows => ~ (r.version <= since)
    BY <1>1, <2>2, <2>3, <2>4
  <2> QED BY <2>2, <2>3, <2>4, <2>5 DEF CoversRead
<1> QED BY <1>3, <1>4 DEF WaInv

LEMMA MessageStoredInv ==
  ASSUME WaInv, MessageStored
  PROVE  WaInv'
<1>1. PICK rows : rows = wacli.rows OBVIOUS
<1>2. PICK new : new = [row |-> TopRow + 1, id |-> waClock + 1, version |-> waClock + 1] OBVIOUS
<1>3. /\ waClock < MaxMoments /\ waClock' = waClock + 1
      /\ wacli' = [wacli EXCEPT !.rows = rows \cup {new}]
      /\ UNCHANGED <<waSaved, waTexts, waPass>>
  BY <1>1, <1>2 DEF MessageStored
<1>4. /\ waClock \in Nat /\ waClock' \in Nat /\ waClock' \in 0..MaxMoments /\ waClock <= waClock'
      /\ rows \subseteq [row : 1..waClock, id : 1..waClock, version : 1..waClock]
      /\ IsFiniteSet(rows)
      /\ wacli'.rows = rows \cup {new} /\ wacli'.file = wacli.file /\ wacli'.columns = wacli.columns
      /\ DOMAIN wacli' = {"file", "columns", "rows"} /\ wacli.file \in 1..2
      /\ wacli.columns \in Shapes
  BY <1>1, <1>3, WhatsAppConstants DEF WaInv, WaTypeOK
<1>5. TopRow \in 0..waClock /\ \A r \in rows : r.row <= TopRow BY <1>1, TopRowIs DEF WaInv
<1>6. /\ new \in [row : 1..waClock', id : 1..waClock', version : 1..waClock']
      /\ new.version > waClock /\ new.id = waClock + 1 /\ new.row = TopRow + 1
  BY <1>2, <1>3, <1>4, <1>5
<1>7. \A r \in rows : /\ r \in [row : 1..waClock', id : 1..waClock', version : 1..waClock']
                      /\ r.row # new.row /\ r.id # new.id
  <2> SUFFICES ASSUME NEW r \in rows
               PROVE  /\ r \in [row : 1..waClock', id : 1..waClock', version : 1..waClock']
                      /\ r.row # new.row /\ r.id # new.id
    OBVIOUS
  <2>1. r \in [row : 1..waClock, id : 1..waClock, version : 1..waClock] /\ r.row <= TopRow
    BY <1>4, <1>5
  <2>2. 1..waClock \subseteq 1..waClock' BY <1>3, <1>4
  <2> QED BY <1>4, <1>5, <1>6, <2>1, <2>2
<1>8. wacli' \in [file : 1..2, columns : Shapes,
                  rows : SUBSET [row : 1..waClock', id : 1..waClock', version : 1..waClock']]
  <2>1. rows \cup {new} \in SUBSET [row : 1..waClock', id : 1..waClock', version : 1..waClock']
    BY <1>6, <1>7
  <2>2. wacli \in [file : 1..2, columns : Shapes,
                   rows : SUBSET [row : 1..waClock, id : 1..waClock, version : 1..waClock]]
    BY DEF WaInv, WaTypeOK
  <2> QED BY <1>3, <2>1, <2>2
<1>9. IsFiniteSet(wacli'.rows) BY <1>4, FS_AddElement
<1>10. \A r, q \in wacli'.rows : r.row = q.row \/ r.id = q.id => r = q
  <2>1. \A r, q \in rows : r.row = q.row \/ r.id = q.id => r = q BY <1>1 DEF WaInv, WaTypeOK
  <2> QED BY <1>4, <1>7, <2>1
<1>11. \A r \in wacli'.rows : r \in wacli.rows \/ r.version > waClock BY <1>1, <1>4, <1>6
<1> QED BY <1>3, <1>4, <1>8, <1>9, <1>10, <1>11, WacliStep

LEMMA MessageChangedInv ==
  ASSUME WaInv, NEW r \in wacli.rows, MessageChanged(r)
  PROVE  WaInv'
<1>1. PICK rows : rows = wacli.rows OBVIOUS
<1>2. PICK new : new = [r EXCEPT !.version = waClock + 1] OBVIOUS
<1>3. /\ waClock < MaxMoments /\ waClock' = waClock + 1
      /\ wacli' = [wacli EXCEPT !.rows = (rows \ {r}) \cup {new}]
      /\ UNCHANGED <<waSaved, waTexts, waPass>>
  BY <1>1, <1>2 DEF MessageChanged
<1>4. /\ waClock \in Nat /\ waClock' \in Nat /\ waClock' \in 0..MaxMoments /\ waClock <= waClock'
      /\ rows \subseteq [row : 1..waClock, id : 1..waClock, version : 1..waClock]
      /\ IsFiniteSet(rows)
      /\ wacli'.rows = (rows \ {r}) \cup {new} /\ wacli'.file = wacli.file
      /\ wacli.file \in 1..2
  BY <1>1, <1>3, WhatsAppConstants DEF WaInv, WaTypeOK
<1>5. 1..waClock \subseteq 1..waClock' BY <1>3, <1>4
<1>6. /\ new \in [row : 1..waClock', id : 1..waClock', version : 1..waClock']
      /\ new.version > waClock /\ new.id = r.id /\ new.row = r.row
  BY <1>1, <1>2, <1>3, <1>4, <1>5
<1>7. \A q \in rows : q \in [row : 1..waClock', id : 1..waClock', version : 1..waClock']
  BY <1>4, <1>5
<1>8. wacli' \in [file : 1..2, columns : Shapes,
                  rows : SUBSET [row : 1..waClock', id : 1..waClock', version : 1..waClock']]
  <2>1. (rows \ {r}) \cup {new} \in SUBSET [row : 1..waClock', id : 1..waClock', version : 1..waClock']
    BY <1>6, <1>7
  <2>2. wacli \in [file : 1..2, columns : Shapes,
                   rows : SUBSET [row : 1..waClock, id : 1..waClock, version : 1..waClock]]
    BY DEF WaInv, WaTypeOK
  <2> QED BY <1>3, <2>1, <2>2
<1>9. IsFiniteSet(wacli'.rows)
  <2>1. PICK rest : rest = rows \ {r} OBVIOUS
  <2>2. IsFiniteSet(rest) BY <1>4, <2>1, FS_RemoveElement
  <2>3. IsFiniteSet(rest \cup {new}) BY <2>2, FS_AddElement
  <2> QED BY <1>4, <2>1, <2>3
<1>10. \A p, q \in wacli'.rows : p.row = q.row \/ p.id = q.id => p = q
  <2>1. \A p, q \in rows : p.row = q.row \/ p.id = q.id => p = q BY <1>1 DEF WaInv, WaTypeOK
  <2>2. \A p \in rows \ {r} : p.row # new.row /\ p.id # new.id BY <1>1, <1>6, <2>1
  <2> QED BY <1>4, <2>1, <2>2
<1>11. \A q \in wacli'.rows : q \in wacli.rows \/ q.version > waClock BY <1>1, <1>4, <1>6
<1> QED BY <1>3, <1>4, <1>8, <1>9, <1>10, <1>11, WacliStep

\* Rows go, columns come, or the store starts again.
LEMMA StoreInv ==
  ASSUME WaInv, (\E r \in wacli.rows : RowRetired(r)) \/ TableMigrated \/ StoreReplaced
  PROVE  WaInv'
<1>1. UNCHANGED <<waSaved, waTexts, waClock, waPass>>
  BY DEF RowRetired, TableMigrated, StoreReplaced
<1>2. wacli \in [file : 1..2, columns : Shapes,
                 rows : SUBSET [row : 1..waClock, id : 1..waClock, version : 1..waClock]]
  BY DEF WaInv, WaTypeOK
<1>3. /\ wacli'.rows \subseteq wacli.rows /\ wacli.file <= wacli'.file
      /\ wacli' \in [file : 1..2, columns : Shapes,
                     rows : SUBSET [row : 1..waClock, id : 1..waClock, version : 1..waClock]]
  <2>1. CASE \E r \in wacli.rows : RowRetired(r) BY <1>2, <2>1 DEF RowRetired
  <2>2. CASE TableMigrated BY <1>2, <2>2 DEF TableMigrated
  <2>3. CASE StoreReplaced
    <3>1. wacli.file = 1 /\ wacli' = [wacli EXCEPT !.file = 2, !.rows = {}]
      BY <2>3 DEF StoreReplaced
    <3>2. wacli'.file = 2 /\ wacli'.rows = {} /\ DOMAIN wacli' = {"file", "columns", "rows"}
      BY <1>2, <3>1
    <3>3. wacli' = [file |-> 2, columns |-> wacli.columns, rows |-> {}] BY <1>2, <3>1
    <3> QED BY <1>2, <3>1, <3>2, <3>3
  <2> QED BY <2>1, <2>2, <2>3
<1>4. IsFiniteSet(wacli'.rows) BY <1>3, FS_Subset DEF WaInv, WaTypeOK
<1>5. \A r, q \in wacli'.rows : r.row = q.row \/ r.id = q.id => r = q
  BY <1>3 DEF WaInv, WaTypeOK
<1>6. waClock' \in 0..MaxMoments /\ waClock <= waClock'
  BY <1>1, WhatsAppConstants DEF WaInv, WaTypeOK
<1>7. wacli' \in [file : 1..2, columns : Shapes,
                  rows : SUBSET [row : 1..waClock', id : 1..waClock', version : 1..waClock']]
  BY <1>1, <1>3
<1> QED BY <1>1, <1>3, <1>4, <1>5, <1>6, <1>7, WacliStep

LEMMA ReviewFallsDueInv ==
  ASSUME WaInv, ReviewFallsDue
  PROVE  WaInv'
<1>1. /\ waSaved # NoCheckpoint /\ waSaved' = [waSaved EXCEPT !.review = "due"]
      /\ UNCHANGED <<wacli, waTexts, waClock, waPass>>
  BY DEF ReviewFallsDue
<1>2. /\ Checkpoint(waSaved) /\ Checkpoint(waSaved)'
      /\ waSaved'.file = waSaved.file /\ waSaved'.phase = waSaved.phase
      /\ waSaved'.row = waSaved.row /\ waSaved'.again = waSaved.again
  BY <1>1 DEF WaInv, WaTypeOK, Checkpoint, CheckpointFields
<1>3. WaTypeOK' BY <1>1, <1>2 DEF WaInv, WaTypeOK
<1>4. /\ Reach(waSaved)' = Reach(waSaved)
      /\ ArrivedSince(waSaved, waPass)' = ArrivedSince(waSaved, waPass)
  BY <1>1, <1>2 DEF Reach, ArrivedSince
<1>5. CoversRead(waSaved, ArrivedSince(waSaved, waPass))' <=> CoversRead(waSaved, ArrivedSince(waSaved, waPass))
  BY <1>1, <1>4 DEF CoversRead
<1> QED BY <1>1, <1>2, <1>3, <1>5 DEF WaInv

\* The rows of a range, as a page is made of them.
LEMMA RangeIs ==
  ASSUME WaTypeOK, NEW low \in Nat, NEW high \in Nat, NEW rows, rows = RowsAfter(low, high)
  PROVE  /\ rows \subseteq wacli.rows /\ IsFiniteSet(rows) /\ PageOf(rows) \subseteq rows
         /\ \A r \in wacli.rows : r \in rows <=> low < r.row /\ r.row <= high
         /\ ~HasMore(rows) => PageOf(rows) = rows
         /\ rows # {} => /\ LastOf(rows) \in Nat /\ LastOf(rows) <= high
                         /\ \A r \in rows : r.row <= LastOf(rows) => r \in PageOf(rows)
<1>1. /\ rows \subseteq wacli.rows /\ PageOf(rows) \subseteq rows
      /\ \A r \in wacli.rows : r \in rows <=> low < r.row /\ r.row <= high
  BY DEF RowsAfter, PageOf
<1>2. IsFiniteSet(rows) BY <1>1, FS_Subset DEF WaTypeOK
<1>3. waClock \in Nat /\ \A r \in rows : r.row \in 1..waClock
  BY <1>1, TopRowIs, WhatsAppConstants DEF WaTypeOK
<1>4. \A r, q \in rows : r.row = q.row => r = q BY <1>1 DEF WaTypeOK
<1>5. ASSUME rows # {}
      PROVE  /\ LastOf(rows) \in Nat /\ LastOf(rows) <= high
             /\ \A r \in rows : r.row <= LastOf(rows) => r \in PageOf(rows)
  <2>1. /\ \E r \in PageOf(rows) : LastOf(rows) = r.row
        /\ \A r \in rows : r.row <= LastOf(rows) => r \in PageOf(rows)
    BY <1>2, <1>3, <1>4, <1>5, PageIs
  <2> QED BY <1>1, <1>3, <2>1
<1> QED BY <1>1, <1>2, <1>5, WholePage

LEMMA SettledCheckpoint ==
  ASSUME NEW c, Checkpoint(c)
  PROVE  /\ Checkpoint(Settled(c)) /\ Settled(c).phase = "steady"
         /\ Settled(c).row = c.row /\ Settled(c).file = c.file
BY DEF Checkpoint, CheckpointFields, Settled

LEMMA WithPrefixIs ==
  ASSUME NEW c, Checkpoint(c)
  PROVE  /\ Checkpoint(WithPrefix(c)) /\ WithPrefix(c).phase = c.phase
         /\ WithPrefix(c).row = c.row /\ WithPrefix(c).file = c.file
         /\ WithPrefix(c).again = c.again /\ WithPrefix(c).review = c.review
BY DEF Checkpoint, CheckpointFields, WithPrefix

LEMMA ReconciledIs ==
  ASSUME NEW prior, Checkpoint(prior), NEW c \in ReconciledRows(prior)
  PROVE  /\ Checkpoint(c) /\ c.file = prior.file /\ c.file = wacli.file
         /\ \/ /\ c.phase = prior.phase /\ c.row = prior.row
               /\ c.again = prior.again
            \/ prior.row # 0 /\ c.row = 0 /\ c.phase = "initial"
<1>1. Checkpoint(prior) /\ prior.file = wacli.file BY DEF ReconciledRows
<1>2. /\ Checkpoint(Replayed(prior)) /\ Replayed(prior).phase = "initial"
      /\ Replayed(prior).row = 0 /\ Replayed(prior).file = prior.file
  BY DEF Checkpoint, CheckpointFields, Replayed
<1>3. c = WithPrefix(prior) \/ (c = WithPrefix(Replayed(prior)) /\ ~HasRow(prior.row))
  BY DEF ReconciledRows
<1>4. CASE c = WithPrefix(prior) BY <1>1, <1>4, WithPrefixIs
<1>5. CASE c = WithPrefix(Replayed(prior)) /\ ~HasRow(prior.row)
  BY <1>1, <1>2, <1>5, WithPrefixIs DEF HasRow
<1> QED BY <1>3, <1>4, <1>5

\* New rows: every row up to where the checkpoint moves is read.
LEMMA NewRowsIs ==
  ASSUME WaTypeOK, NEW c, Checkpoint(c), c.row < TopRow, NEW res, res = NewRowsResult(c)
  PROVE  /\ Checkpoint(res.saved) /\ res.saved.file = c.file /\ res.read \subseteq wacli.rows
         /\ \A r \in wacli.rows : r.row <= res.saved.row => r.row <= c.row \/ r \in res.read
         /\ \/ res.saved.phase = c.phase /\ res.saved.again = c.again
            \/ c.phase = "initial" /\ res.saved.phase = "steady"
<1>1. c.row \in Nat /\ TopRow \in Nat /\ waClock \in Nat
  BY TopRowIs, WhatsAppConstants DEF Checkpoint, WaTypeOK
<1>2. PICK rows : rows = RowsAfter(c.row, TopRow) OBVIOUS
<1>3. PICK moved : moved = [c EXCEPT !.row = LastOf(rows)] OBVIOUS
<1>4. rows # {} BY <1>1, <1>2, TopRowIs DEF RowsAfter
<1>5. /\ rows \subseteq wacli.rows /\ PageOf(rows) \subseteq rows
      /\ \A r \in wacli.rows : r \in rows <=> c.row < r.row /\ r.row <= TopRow
      /\ LastOf(rows) \in Nat /\ LastOf(rows) <= TopRow
      /\ \A r \in rows : r.row <= LastOf(rows) => r \in PageOf(rows)
  BY <1>1, <1>2, <1>4, RangeIs
<1>6. /\ Checkpoint(moved) /\ moved.phase = c.phase /\ moved.again = c.again
      /\ moved.file = c.file /\ moved.row = LastOf(rows)
  BY <1>3, <1>5 DEF Checkpoint, CheckpointFields
<1>7. PICK x : x = IF c.phase = "initial" /\ ~HasMore(rows) THEN Settled(moved) ELSE moved
  OBVIOUS
<1>8. /\ Checkpoint(x) /\ x.file = c.file /\ x.row = LastOf(rows)
      /\ \/ x.phase = c.phase /\ x.again = c.again
         \/ c.phase = "initial" /\ x.phase = "steady"
  BY <1>6, <1>7, SettledCheckpoint
<1>9. res.saved = WithPrefix(x) /\ res.read = PageOf(rows) BY <1>2, <1>3, <1>7 DEF NewRowsResult
<1>10. /\ Checkpoint(res.saved) /\ res.saved.file = c.file /\ res.saved.row = LastOf(rows)
       /\ \/ res.saved.phase = c.phase /\ res.saved.again = c.again
          \/ c.phase = "initial" /\ res.saved.phase = "steady"
  BY <1>8, <1>9, WithPrefixIs
<1>11. ASSUME NEW r \in wacli.rows, r.row <= LastOf(rows), ~ (r.row <= c.row)
       PROVE  r \in PageOf(rows)
  <2>1. r.row \in Nat /\ r.row <= TopRow BY <1>1, TopRowIs
  <2>2. r \in rows BY <1>1, <1>5, <1>11, <2>1
  <2> QED BY <1>5, <1>11, <2>2
<1> QED BY <1>5, <1>9, <1>10, <1>11

\* Old rows again: every row up to where the review comes is read.
LEMMA RescanIs ==
  ASSUME WaTypeOK, NEW c, Checkpoint(c), Reviewing(c), NEW res, res = RescanResult(c)
  PROVE  /\ Checkpoint(res.saved) /\ res.saved.file = c.file /\ res.read \subseteq wacli.rows
         /\ res.saved.phase \in {"rescan-v2", "steady"}
         /\ \A r \in wacli.rows :
               r.row <= Reach(res.saved) => r.row <= c.row /\ (r.row <= c.again \/ r \in res.read)
<1>1. c.row \in Nat /\ c.again \in Nat BY DEF Checkpoint
<1>2. PICK rows : rows = RowsAfter(c.again, c.row) OBVIOUS
<1>3. /\ rows \subseteq wacli.rows /\ PageOf(rows) \subseteq rows /\ IsFiniteSet(rows)
      /\ \A r \in wacli.rows : r \in rows <=> c.again < r.row /\ r.row <= c.row
      /\ ~HasMore(rows) => PageOf(rows) = rows
      /\ rows # {} => /\ LastOf(rows) \in Nat /\ LastOf(rows) <= c.row
                      /\ \A r \in rows : r.row <= LastOf(rows) => r \in PageOf(rows)
  BY <1>1, <1>2, RangeIs
<1>4. \A r \in wacli.rows : r.row \in Nat BY TopRowIs, WhatsAppConstants DEF WaTypeOK
<1>5. CASE HasMore(rows)
  <2>1. rows # {} BY <1>5, FS_EmptySet, WhatsAppConstants DEF HasMore
  <2>2. PICK moved : moved = [c EXCEPT !.phase = "rescan-v2", !.again = LastOf(rows)] OBVIOUS
  <2>3. res.saved = moved /\ res.read = PageOf(rows) BY <1>2, <1>5, <2>2 DEF RescanResult
  <2>4. /\ Checkpoint(moved) /\ moved.file = c.file
        /\ moved.phase = "rescan-v2" /\ moved.again = LastOf(rows)
    BY <1>3, <2>1, <2>2 DEF Checkpoint, CheckpointFields
  <2>5. /\ Checkpoint(res.saved) /\ res.saved.file = c.file /\ res.read = PageOf(rows)
        /\ res.saved.phase = "rescan-v2" /\ res.saved.again = LastOf(rows)
    BY <2>3, <2>4
  <2>6. ASSUME NEW r \in wacli.rows, r.row <= LastOf(rows)
        PROVE  r.row <= c.row /\ (r.row <= c.again \/ r \in res.read)
    <3>1. r.row <= c.row BY <1>1, <1>3, <1>4, <2>1, <2>6
    <3>2. ~ (r.row <= c.again) => r \in rows BY <1>1, <1>3, <1>4, <3>1
    <3> QED BY <1>3, <2>1, <2>5, <2>6, <3>1, <3>2
  <2> QED BY <1>3, <2>5, <2>6 DEF Reach
<1>6. CASE ~HasMore(rows)
  <2>1. res.saved = Settled(c) /\ res.read = rows BY <1>2, <1>3, <1>6 DEF RescanResult
  <2>2. /\ Checkpoint(res.saved) /\ res.saved.file = c.file
        /\ res.saved.phase = "steady" /\ res.saved.row = c.row
    BY <2>1, SettledCheckpoint
  <2> QED BY <1>1, <1>3, <1>4, <2>1, <2>2 DEF Reach
<1> QED BY <1>5, <1>6

\* What a call makes of a checkpoint covers what it has read or was covered, up
\* to the pass it belongs to.
LEMMA SyncCovers ==
  ASSUME WaTypeOK, NEW c, Checkpoint(c), NEW recheck \in BOOLEAN, NEW legacy \in BOOLEAN,
         legacy => c.phase = "rescan",
         NEW res, res = SyncSnapshot(c, recheck, legacy),
         NEW pass, pass = PassAfter(c, recheck, res),
         NEW start, start \in 0..waClock,
         start = IF waSaved = NoCheckpoint \/ (c.row = 0 /\ waSaved.row # 0)
                 THEN waClock ELSE waPass.began,
         CoversRead(c, IF c.phase = "steady" THEN waPass.finished ELSE start)
  PROVE  /\ Checkpoint(res.saved) /\ res.saved.file = c.file /\ res.read \subseteq wacli.rows
         /\ pass \in [began : 0..waClock, finished : 0..waClock]
         /\ \A r \in wacli.rows :
               r.row <= Reach(res.saved) /\ r.version <= ArrivedSince(res.saved, pass)
               => r \in res.read \/ waTexts[r.id] = r.version
<1>1. PICK reviews : reviews = (c.phase = "steady" /\ (recheck \/ (c.review = "due" /\ c.row >= TopRow)))
  OBVIOUS
<1>2. /\ pass.began = IF reviews THEN waClock ELSE start
      /\ pass.finished = IF res.saved.phase = "steady" /\ (reviews \/ c.phase # "steady")
                         THEN pass.began ELSE waPass.finished
      /\ pass = [began |-> pass.began, finished |-> pass.finished]
  BY <1>1 DEF PassAfter
<1>3. waClock \in Nat /\ waPass.finished \in 0..waClock BY WhatsAppConstants DEF WaTypeOK
<1>4. /\ pass.began \in 0..waClock /\ pass.finished \in 0..waClock
      /\ pass \in [began : 0..waClock, finished : 0..waClock]
  <2>1. pass.began \in 0..waClock BY <1>2, <1>3
  <2>2. pass.finished \in 0..waClock BY <1>2, <1>3, <2>1
  <2> QED BY <1>2, <2>1, <2>2
<1>5. c.row \in Nat /\ c.again \in Nat /\ TopRow \in Nat
      /\ \A r \in wacli.rows : r.row \in Nat /\ r.row >= 1 /\ r.row <= TopRow
  BY <1>3, TopRowIs DEF Checkpoint
<1>6. CASE legacy
  <2>1. res.saved = Settled(c) /\ res.read = {} BY <1>6 DEF SyncSnapshot
  <2>2. /\ Checkpoint(res.saved) /\ res.saved.file = c.file
        /\ res.saved.phase = "steady" /\ res.saved.row = c.row
    BY <2>1, SettledCheckpoint
  <2>3. c.phase = "rescan" /\ ArrivedSince(res.saved, pass) = start
    BY <1>1, <1>2, <1>6, <2>2 DEF ArrivedSince
  <2> QED BY <1>4, <2>1, <2>2, <2>3 DEF CoversRead, Reach
<1>7. CASE ~legacy
  <2>1. PICK asked : asked = ReviewFrom(c, recheck /\ c.phase = "steady") OBVIOUS
  <2>2. PICK due : due = ReviewFrom(asked, asked.review = "due") OBVIOUS
  <2>3. /\ Checkpoint(asked) /\ asked.file = c.file /\ asked.row = c.row
        /\ asked.review = c.review
        /\ IF recheck /\ c.phase = "steady" THEN asked.phase = "rescan-v2" /\ asked.again = 0
           ELSE asked = c
    BY <2>1 DEF ReviewFrom, Reviewing, Checkpoint, CheckpointFields
  <2>4. /\ Checkpoint(due) /\ due.file = c.file /\ due.row = c.row
        /\ IF asked.review = "due" /\ ~Reviewing(asked)
           THEN due.phase = "rescan-v2" /\ due.again = 0 ELSE due = asked
    BY <2>2, <2>3 DEF ReviewFrom, Reviewing, Checkpoint, CheckpointFields
  <2>5. CASE asked.row < TopRow
    <3>1. res = NewRowsResult(asked) BY <1>7, <2>1, <2>5 DEF SyncSnapshot
    <3>2. /\ Checkpoint(res.saved) /\ res.saved.file = c.file /\ res.read \subseteq wacli.rows
          /\ \A r \in wacli.rows : r.row <= res.saved.row => r.row <= c.row \/ r \in res.read
          /\ \/ res.saved.phase = asked.phase /\ res.saved.again = asked.again
             \/ asked.phase = "initial" /\ res.saved.phase = "steady"
      BY <2>3, <2>5, <3>1, NewRowsIs
    <3>3. CASE recheck /\ c.phase = "steady"
      <4>1. Reach(res.saved) = 0 BY <2>3, <3>2, <3>3 DEF Reach
      <4> QED BY <1>4, <1>5, <3>2, <4>1
    <3>4. CASE ~(recheck /\ c.phase = "steady")
      <4>1. ~reviews /\ asked = c
        <5>1. asked = c BY <2>3, <3>4, Zenon
        <5>2. ~ (c.row >= TopRow) BY <1>5, <2>5, <5>1
        <5> QED BY <1>1, <3>4, <5>1, <5>2, Zenon
      <4>2. ArrivedSince(res.saved, pass) = IF c.phase = "steady" THEN waPass.finished ELSE start
        BY <1>2, <3>2, <4>1 DEF ArrivedSince, Checkpoint
      <4>3. CASE res.saved.phase = "rescan-v2"
        <5>1. c.phase = "rescan-v2" /\ Reach(res.saved) = Reach(c) BY <3>2, <4>1, <4>3 DEF Reach
        <5> QED BY <1>4, <3>2, <4>2, <5>1 DEF CoversRead
      <4>4. CASE res.saved.phase # "rescan-v2"
        <5>1. c.phase # "rescan-v2" /\ Reach(res.saved) = res.saved.row /\ Reach(c) = c.row
          BY <3>2, <4>1, <4>4 DEF Reach
        <5> QED BY <1>4, <3>2, <4>2, <5>1 DEF CoversRead
      <4> QED BY <4>3, <4>4
    <3> QED BY <3>3, <3>4
  <2>6. CASE ~(asked.row < TopRow) /\ asked.phase = "initial"
    <3>1. res.saved = Settled(asked) /\ res.read = {} /\ asked = c /\ ~reviews
      BY <1>1, <1>7, <2>1, <2>3, <2>6 DEF SyncSnapshot
    <3>2. /\ Checkpoint(res.saved) /\ res.saved.file = c.file
          /\ res.saved.phase = "steady" /\ res.saved.row = c.row
      BY <2>3, <3>1, SettledCheckpoint
    <3>3. ArrivedSince(res.saved, pass) = start /\ Reach(res.saved) = Reach(c) /\ c.phase # "steady"
      BY <1>2, <2>6, <3>1, <3>2 DEF ArrivedSince, Reach
    <3> QED BY <1>4, <3>1, <3>2, <3>3 DEF CoversRead
  <2>7. CASE ~(asked.row < TopRow) /\ asked.phase # "initial" /\ Reviewing(due)
    <3>1. res = RescanResult(due) BY <1>7, <2>1, <2>2, <2>7 DEF SyncSnapshot
    <3>2. /\ Checkpoint(res.saved) /\ res.saved.file = c.file /\ res.read \subseteq wacli.rows
          /\ res.saved.phase \in {"rescan-v2", "steady"}
          /\ \A r \in wacli.rows :
                r.row <= Reach(res.saved)
                => r.row <= c.row /\ (r.row <= due.again \/ r \in res.read)
      BY <2>4, <2>7, <3>1, RescanIs
    <3>3. ArrivedSince(res.saved, pass) = IF reviews THEN waClock ELSE start
      <4>1. reviews \/ c.phase # "steady"
        <5> SUFFICES ASSUME c.phase = "steady" PROVE reviews
          OBVIOUS
        <5>1. CASE recheck BY <1>1, <5>1, Zenon
        <5>2. CASE ~recheck
          <6>1. asked = c BY <2>3, <5>2, Zenon
          <6>2. asked.review = "due" BY <2>4, <2>7, <6>1 DEF Reviewing
          <6>3. c.row >= TopRow BY <1>5, <2>7, <6>1
          <6> QED BY <1>1, <6>1, <6>2, <6>3, Zenon
        <5> QED BY <5>1, <5>2
      <4> QED BY <1>2, <3>2, <4>1 DEF ArrivedSince
    <3>4. CASE reviews
      <4>1. due.again = 0 BY <1>1, <2>3, <2>4, <2>7, <3>4 DEF Reviewing
      <4> QED BY <1>4, <1>5, <3>2, <4>1
    <3>5. CASE ~reviews
      <4>1. due = c /\ c.phase \in {"rescan", "rescan-v2"}
        <5>1. c.phase # "steady"
          <6> SUFFICES ASSUME c.phase = "steady" PROVE FALSE
            OBVIOUS
          <6>1. ~recheck BY <1>1, <3>5, Zenon
          <6>2. asked = c BY <2>3, <6>1, Zenon
          <6>3. asked.review = "due" BY <2>4, <2>7, <6>2 DEF Reviewing
          <6>4. c.row >= TopRow BY <1>5, <2>7, <6>2
          <6> QED BY <1>1, <3>5, <6>2, <6>3, <6>4, Zenon
        <5>2. asked = c BY <2>3, <5>1, Zenon
        <5>3. c.phase \in {"rescan", "rescan-v2"} BY <2>7, <5>1, <5>2 DEF Checkpoint
        <5>4. due = asked BY <2>4, <5>2, <5>3 DEF Reviewing
        <5> QED BY <5>2, <5>3, <5>4
      <4>2. ASSUME NEW r \in wacli.rows,
                   r.row <= Reach(res.saved), r.version <= ArrivedSince(res.saved, pass)
            PROVE  r \in res.read \/ waTexts[r.id] = r.version
        <5>1. r.row <= c.row /\ (r.row <= c.again \/ r \in res.read) /\ r.version <= start
          BY <3>2, <3>3, <3>5, <4>1, <4>2
        <5>2. r.row <= c.again => r.row <= Reach(c) BY <5>1 DEF Reach
        <5> QED BY <4>1, <5>1, <5>2 DEF CoversRead
      <4> QED BY <1>4, <3>2, <4>2
    <3> QED BY <3>4, <3>5
  <2>8. CASE ~(asked.row < TopRow) /\ asked.phase # "initial" /\ ~Reviewing(due)
    <3>1. res.saved = asked /\ res.read = {} BY <1>7, <2>1, <2>2, <2>8 DEF SyncSnapshot
    <3>2. asked = c /\ c.phase = "steady" /\ ~reviews
      BY <1>1, <1>5, <2>3, <2>4, <2>8 DEF Reviewing, Checkpoint
    <3>3. ArrivedSince(res.saved, pass) = waPass.finished BY <1>2, <3>1, <3>2 DEF ArrivedSince
    <3> QED BY <1>4, <2>3, <3>1, <3>2, <3>3 DEF CoversRead
  <2> QED BY <2>5, <2>6, <2>7, <2>8
<1> QED BY <1>6, <1>7

LEMMA CorpusReadInv ==
  ASSUME WaInv, NEW recheck \in BOOLEAN, CorpusRead(recheck)
  PROVE  WaInv'
<1>1. PICK prior : prior = IF waSaved = NoCheckpoint THEN FreshCheckpoint ELSE waSaved OBVIOUS
<1>2. PICK c \in ReconciledRows(prior), legacy \in BOOLEAN :
        LET result == SyncSnapshot(c, recheck, legacy) IN
        /\ legacy => c.phase = "rescan" /\ c.review # "none"
        /\ waSaved' = result.saved
        /\ waTexts' = [m \in DOMAIN waTexts |->
                           IF \E r \in result.read : r.id = m
                           THEN (CHOOSE r \in result.read : r.id = m).version ELSE waTexts[m]]
        /\ waPass' = PassAfter(c, recheck, result)
        /\ UNCHANGED <<wacli, waClock, odds, meddled>>
  BY <1>1, Zenon DEF CorpusRead
<1>3. PICK res : res = SyncSnapshot(c, recheck, legacy) OBVIOUS
<1>4. PICK page : page = res.read OBVIOUS
<1>5. /\ legacy => c.phase = "rescan"
      /\ waSaved' = res.saved
      /\ waTexts' = [m \in DOMAIN waTexts |->
                         IF \E r \in page : r.id = m
                         THEN (CHOOSE r \in page : r.id = m).version ELSE waTexts[m]]
      /\ waPass' = PassAfter(c, recheck, res)
      /\ UNCHANGED <<wacli, waClock>>
  BY <1>2, <1>3, <1>4
<1>6. Checkpoint(prior) /\ (waSaved = NoCheckpoint => prior.row = 0 /\ prior.phase = "initial")
  BY <1>1 DEF WaInv, WaTypeOK, Checkpoint, CheckpointFields, FreshCheckpoint
<1>7. /\ Checkpoint(c) /\ c.file = prior.file /\ c.file = wacli.file
      /\ \/ c.phase = prior.phase /\ c.row = prior.row /\ c.again = prior.again
         \/ prior.row # 0 /\ c.row = 0 /\ c.phase = "initial"
  BY <1>6, ReconciledIs
<1>8. PICK start : start = IF waSaved = NoCheckpoint \/ (c.row = 0 /\ waSaved.row # 0)
                           THEN waClock ELSE waPass.began
  OBVIOUS
<1>9. waClock \in Nat /\ start \in 0..waClock /\ \A r \in wacli.rows : r.row \in Nat /\ r.row >= 1
  BY <1>8, TopRowIs, WhatsAppConstants DEF WaInv, WaTypeOK
<1>10. CoversRead(c, IF c.phase = "steady" THEN waPass.finished ELSE start)
  <2>1. CASE c.row = 0 /\ c.phase = "initial"
    <3>1. Reach(c) = 0 BY <2>1 DEF Reach
    <3> QED BY <1>9, <3>1 DEF CoversRead
  <2>2. CASE ~(c.row = 0 /\ c.phase = "initial")
    <3>1. /\ waSaved # NoCheckpoint /\ prior = waSaved
          /\ c.phase = waSaved.phase /\ c.row = waSaved.row /\ c.again = waSaved.again
          /\ waSaved.file = wacli.file
      BY <1>1, <1>6, <1>7, <2>2
    <3>2. CoversRead(waSaved, ArrivedSince(waSaved, waPass)) BY <3>1 DEF WaInv
    <3>3. start = waPass.began BY <1>8, <3>1
    <3>4. /\ Reach(c) = Reach(waSaved)
          /\ ArrivedSince(waSaved, waPass) = IF c.phase = "steady" THEN waPass.finished ELSE start
      BY <3>1, <3>3 DEF Reach, ArrivedSince
    <3> QED BY <3>2, <3>4 DEF CoversRead
  <2> QED BY <2>1, <2>2
<1>11. PICK pass : pass = PassAfter(c, recheck, res) OBVIOUS
<1>12. /\ Checkpoint(res.saved) /\ res.saved.file = c.file /\ res.read \subseteq wacli.rows
       /\ pass \in [began : 0..waClock, finished : 0..waClock]
       /\ \A r \in wacli.rows :
             r.row <= Reach(res.saved) /\ r.version <= ArrivedSince(res.saved, pass)
             => r \in res.read \/ waTexts[r.id] = r.version
  <2>1. WaTypeOK /\ (legacy => c.phase = "rescan") BY <1>5 DEF WaInv
  <2> QED BY <1>3, <1>7, <1>8, <1>9, <1>10, <1>11, <2>1, SyncCovers
<1>13. ASSUME NEW r \in wacli.rows, r \in page \/ waTexts[r.id] = r.version
       PROVE  waTexts'[r.id] = r.version
  <2>1. /\ r.id \in DOMAIN waTexts /\ page \subseteq wacli.rows
        /\ \A q \in wacli.rows : q.id = r.id => q = r
    <3>1. r.id \in 1..waClock /\ waClock \in 0..MaxMoments /\ DOMAIN waTexts = 1..MaxMoments
      BY DEF WaInv, WaTypeOK
    <3>2. r.id \in DOMAIN waTexts BY <1>9, <3>1, WhatsAppConstants
    <3> QED BY <1>4, <1>12, <3>2 DEF WaInv, WaTypeOK
  <2>2. CASE r \in page
    <3>1. (CHOOSE q \in page : q.id = r.id) = r BY <2>1, <2>2
    <3> QED BY <1>5, <2>1, <2>2, <3>1
  <2>3. CASE r \notin page
    <3>1. ~ \E q \in page : q.id = r.id BY <2>1, <2>3
    <3> QED BY <1>5, <1>13, <2>1, <2>3, <3>1
  <2> QED BY <2>2, <2>3
<1>14. WaTypeOK'
  <2>1. DOMAIN waTexts' = 1..MaxMoments BY <1>5 DEF WaInv, WaTypeOK
  <2>2. Checkpoint(waSaved)' /\ waSaved'.file <= wacli'.file
    <3>1. waSaved'.file = wacli'.file /\ wacli.file \in 1..2
      BY <1>5, <1>7, <1>12 DEF WaInv, WaTypeOK
    <3> QED BY <1>5, <1>12, <3>1 DEF Checkpoint
  <2> QED BY <1>5, <1>11, <1>12, <2>1, <2>2 DEF WaInv, WaTypeOK
<1>15. CoversRead(waSaved, ArrivedSince(waSaved, waPass))'
  <2>1. Reach(waSaved)' = Reach(res.saved) /\ ArrivedSince(waSaved, waPass)' = ArrivedSince(res.saved, pass)
    BY <1>5, <1>11 DEF Reach, ArrivedSince
  <2> QED BY <1>4, <1>5, <1>12, <1>13, <2>1 DEF CoversRead
<1> QED BY <1>14, <1>15 DEF WaInv

LEMMA WaNextInv == WaInv /\ [WhatsAppCorpusNext]_wavars => WaInv'
<1> SUFFICES ASSUME WaInv, [WhatsAppCorpusNext]_wavars PROVE WaInv'
  OBVIOUS
<1>1. CASE UNCHANGED wavars
  <2>1. UNCHANGED <<wacli, waSaved, waTexts, waClock, waPass>> BY <1>1 DEF wavars
  <2> QED BY <2>1 DEF WaInv, WaTypeOK, CoversRead, Reach, ArrivedSince, Checkpoint, NoCheckpoint
<1>2. CASE WhatsAppCorpusNext
  BY <1>2, MessageStoredInv, MessageChangedInv, StoreInv, ReviewFallsDueInv, CorpusReadInv
     DEF WhatsAppCorpusNext
<1> QED BY <1>1, <1>2

\* For any table, page size and order of pages, replays, reviews and
\* migrations: what a finished pass covers and nobody changed since is in the
\* corpus as it is (app_corpus_whatsapp.py).
THEOREM SettledHistoryIsRead == WhatsAppCorpusSpec => []SettledIsRead
<1>1. WaInv => SettledIsRead
  <2> SUFFICES ASSUME WaInv, waSaved.phase = "steady", waSaved.file = wacli.file,
                      NEW r \in wacli.rows, r.row <= waSaved.row, r.version <= waPass.finished
               PROVE  waTexts[r.id] = r.version
    BY DEF SettledIsRead
  <2>1. waSaved # NoCheckpoint BY DEF NoCheckpoint
  <2>2. CoversRead(waSaved, waPass.finished) /\ Reach(waSaved) = waSaved.row
    BY <2>1 DEF WaInv, ArrivedSince, Reach
  <2> QED BY <2>2 DEF CoversRead
<1> QED BY <1>1, WaInitInv, WaNextInv, PTL DEF WhatsAppCorpusSpec

----------------------------------------
(* Backup *)

Holders == Domains \cup {"backup", Free}

BackupTyped ==
  /\ files \in [Files -> Nat] /\ archive \in [Files -> Nat]
  /\ held \in [Locks -> Holders]
  /\ torn \subseteq Domains
  /\ backup \in [at : {"idle", "locking", "reading", "publishing", "verifying"}, k : Nat]
  /\ dest \in {Free, "ours", "other"}

\* A writer holds all its locks or none.
LocksTogether ==
  \A d \in Domains : Writing(d) => \A l \in WriterLocks[d] : held[l] = d

\* The two files of a domain differ only while a change is between them.
BetweenFiles ==
  \A d \in Domains : files[<<d, 1>>] # files[<<d, 2>>] => Writing(d) \/ d \in torn

\* What the backup holds on its way, and that compactions are complete once it reads.
Locked ==
  /\ BackupAt("locking") => \A i \in DOMAIN SnapshotLocks :
                              i < backup.k => held[SnapshotLocks[i]] = "backup"
  /\ backup.at \in {"reading", "publishing"} =>
       /\ \A i \in DOMAIN SnapshotLocks : held[SnapshotLocks[i]] = "backup"
       /\ files[<<"signals", 1>>] = files[<<"signals", 2>>]

\* What was read is still what the files hold, but for the domain that is not locked.
ReadUpTo(n) ==
  \A i \in DOMAIN ReadOrder :
    i <= n /\ ReadOrder[i][1] # "pulse" => archive[ReadOrder[i]] = files[ReadOrder[i]]

ReadAsHeld ==
  /\ BackupAt("reading") => ReadUpTo(backup.k - 1)
  /\ BackupAt("publishing") => ReadUpTo(Len(ReadOrder))

\* A published backup is not read into again.
OnceKept == dest = "ours" => backup.at \in {"idle", "verifying"}

BackupInv ==
  BackupTyped /\ LocksTogether /\ BetweenFiles /\ Locked /\ ReadAsHeld /\ OnceKept /\ BackupCoherent

LEMMA LocksAre ==
  /\ SnapshotLocks[1] = "setup" /\ SnapshotLocks[2] = "global" /\ SnapshotLocks[3] = "journal"
  /\ SnapshotLocks[4] = "local-source-migration" /\ SnapshotLocks[5] = "signals"
  /\ Len(SnapshotLocks) = 5 /\ DOMAIN SnapshotLocks = 1..5
  /\ \A i \in 1..5 : SnapshotLocks[i] \in Locks
  /\ \A d \in Domains : WriterLocks[d] \subseteq Locks
  /\ \A i \in 1..5 : SnapshotLocks[i] = "signals" => i = 5
<1>1. /\ SnapshotLocks[1] = "setup" /\ SnapshotLocks[2] = "global" /\ SnapshotLocks[3] = "journal"
      /\ SnapshotLocks[4] = "local-source-migration" /\ SnapshotLocks[5] = "signals"
      /\ Len(SnapshotLocks) = 5 /\ DOMAIN SnapshotLocks = 1..5
  BY DEF SnapshotLocks
<1>2. \A i \in 1..5 : i = 1 \/ i = 2 \/ i = 3 \/ i = 4 \/ i = 5 OBVIOUS
<1>3. \A i \in 1..5 : SnapshotLocks[i] \in Locks BY <1>1 DEF Locks
<1>4. "global" \in Locks /\ "journal" \in Locks /\ "signals" \in Locks /\ "pulse" \in Locks
  BY <1>1, <1>3 DEF Locks
<1>5. \A d \in Domains : WriterLocks[d] \subseteq Locks BY <1>4 DEF WriterLocks, Domains
<1> QED BY <1>1, <1>2, <1>3, <1>5

LEMMA OrderIs ==
  /\ ReadOrder[3] = <<"signals", 1>> /\ ReadOrder[4] = <<"signals", 2>>
  /\ ReadOrder[5] = <<"vault", 2>> /\ ReadOrder[6] = <<"vault", 1>>
  /\ Len(ReadOrder) = 6 /\ DOMAIN ReadOrder = 1..6
  /\ \A i \in 1..6 : ReadOrder[i] \in Files
<1>1. /\ ReadOrder[1] = <<"pulse", 1>> /\ ReadOrder[2] = <<"pulse", 2>>
      /\ ReadOrder[3] = <<"signals", 1>> /\ ReadOrder[4] = <<"signals", 2>>
      /\ ReadOrder[5] = <<"vault", 2>> /\ ReadOrder[6] = <<"vault", 1>>
      /\ Len(ReadOrder) = 6 /\ DOMAIN ReadOrder = 1..6
  BY DEF ReadOrder
<1>2. \A i \in 1..6 : i = 1 \/ i = 2 \/ i = 3 \/ i = 4 \/ i = 5 \/ i = 6 OBVIOUS
<1>3. \A i \in 1..6 : ReadOrder[i] \in Files BY <1>1, <1>2 DEF Files, Domains
<1> QED BY <1>1, <1>3

----------------------------------------
(* The writers *)

LEMMA FilesAre == \A d \in Domains : <<d, 1>> \in Files /\ <<d, 2>> \in Files /\ <<d, 1>> # <<d, 2>>
BY DEF Files

LEMMA HoldersDiffer ==
  /\ Free \notin Domains /\ "backup" \notin Domains /\ Free # "backup"
  /\ "vault" \in Domains /\ "signals" \in Domains /\ "pulse" \in Domains
BY BackupAssumption DEF Domains

\* Every writer needs a lock.
LEMMA WriterHasLock ==
  \A d \in Domains : /\ WriterLocks[d] # {} /\ WriterLocks[d] \subseteq Locks
                     /\ d # "pulse" => \E i \in 1..5 : SnapshotLocks[i] \in WriterLocks[d]
<1>1. /\ WriterLocks["vault"] = {"global", "journal"} /\ WriterLocks["signals"] = {"signals"}
      /\ WriterLocks["pulse"] = {"pulse"}
  BY DEF WriterLocks
<1>2. SnapshotLocks[2] \in WriterLocks["vault"] /\ SnapshotLocks[5] \in WriterLocks["signals"]
  BY <1>1, LocksAre
<1>3. \E i \in 1..5 : SnapshotLocks[i] \in WriterLocks["vault"] BY <1>2
<1>4. \E i \in 1..5 : SnapshotLocks[i] \in WriterLocks["signals"] BY <1>2
<1>5. \A d \in Domains : WriterLocks[d] \subseteq Locks BY LocksAre
<1> QED BY <1>1, <1>3, <1>4, <1>5 DEF Domains

\* While a backup reads, no writer of what it locked is under way.
LEMMA NoneWriting ==
  ASSUME BackupTyped, LocksTogether, Locked, backup.at \in {"reading", "publishing"},
         NEW d \in Domains, d # "pulse"
  PROVE  ~Writing(d) /\ \E l \in WriterLocks[d] : held[l] # Free
<1>1. PICK i \in 1..5 : SnapshotLocks[i] \in WriterLocks[d] BY WriterHasLock
<1>2. held[SnapshotLocks[i]] = "backup" BY LocksAre DEF Locked
<1> QED BY <1>1, <1>2, HoldersDiffer DEF LocksTogether

\* A step of a writer: it changes files of its own domain, and locks that are its own.
WriterMoves(d) ==
  /\ files' \in [Files -> Nat] /\ held' \in [Locks -> Holders]
  /\ \A f \in Files : f[1] # d => files'[f] = files[f]
  /\ \A l \in Locks : held[l] = "backup" => held'[l] = "backup"
  /\ BackupTyped /\ UNCHANGED <<backup, archive, dest>> /\ torn \subseteq torn' /\ torn' \subseteq Domains

LEMMA WriterKeeps ==
  ASSUME BackupInv, NEW d \in Domains, WriterMoves(d),
         backup.at \in {"reading", "publishing"} => d = "pulse",
         LocksTogether', BetweenFiles'
  PROVE  BackupInv'
<1>1. BackupTyped' BY DEF BackupTyped, WriterMoves
<1>2. backup' = backup /\ archive' = archive /\ dest' = dest BY DEF WriterMoves
<1>3. \A i \in DOMAIN SnapshotLocks : held[SnapshotLocks[i]] = "backup" => held'[SnapshotLocks[i]] = "backup"
  BY LocksAre DEF WriterMoves
<1>4. backup.at \in {"reading", "publishing"} =>
        \A f \in Files : f[1] # "pulse" => files'[f] = files[f]
  BY DEF WriterMoves
<1>5. <<"signals", 1>> \in Files /\ <<"signals", 2>> \in Files
      /\ <<"signals", 1>>[1] # "pulse" /\ <<"signals", 2>>[1] # "pulse"
  BY HoldersDiffer, FilesAre
<1>6. Locked'
  <2>1. ASSUME backup.at \in {"reading", "publishing"}
        PROVE  files'[<<"signals", 1>>] = files'[<<"signals", 2>>]
    <3>1. files[<<"signals", 1>>] = files[<<"signals", 2>>] BY <2>1 DEF BackupInv, Locked
    <3> QED BY <1>4, <1>5, <2>1, <3>1
  <2> QED BY <1>2, <1>3, <2>1 DEF BackupInv, Locked, BackupAt
<1>7. ReadAsHeld'
  <2>1. ASSUME backup.at \in {"reading", "publishing"}, NEW i \in DOMAIN ReadOrder,
               ReadOrder[i][1] # "pulse"
        PROVE  files'[ReadOrder[i]] = files[ReadOrder[i]]
    BY <1>4, <2>1, OrderIs
  <2> QED BY <1>2, <2>1 DEF BackupInv, ReadAsHeld, ReadUpTo, BackupAt
<1>8. OnceKept' /\ BackupCoherent'
  BY <1>2 DEF BackupInv, OnceKept, BackupCoherent, Split, WriterMoves
<1> QED BY <1>1, <1>6, <1>7, <1>8 DEF BackupInv

LEMMA BeginChangeInv ==
  ASSUME BackupInv, NEW d \in Domains, BeginChange(d)
  PROVE  BackupInv'
<1>1. /\ BackupTyped /\ LocksTogether /\ BetweenFiles /\ Locked
      /\ files \in [Files -> Nat] /\ held \in [Locks -> Holders]
  BY DEF BackupInv, BackupTyped
<1>2. /\ \A l \in WriterLocks[d] : held[l] = Free
      /\ held' = [l \in Locks |-> IF l \in WriterLocks[d] THEN d ELSE held[l]]
      /\ UNCHANGED <<torn, backup, archive, dest>>
  BY DEF BeginChange
<1>3. PICK n \in Nat : n = files[<<d, 1>>] + 1
  <2>1. files[<<d, 1>>] \in Nat BY <1>1, FilesAre
  <2> QED BY <2>1
<1>4. \/ /\ d = "signals" /\ files' = [files EXCEPT ![<<d, 2>>] = files[<<d, 1>>], ![<<d, 1>>] = n]
      \/ files' = [files EXCEPT ![<<d, 1>>] = n]
  BY <1>1, <1>3, FilesAre DEF BeginChange
<1>5. /\ files' \in [Files -> Nat]
      /\ \A f \in Files : f[1] # d => files'[f] = files[f]
  BY <1>1, <1>4, FilesAre
<1>6. /\ held' \in [Locks -> Holders]
      /\ \A l \in WriterLocks[d] : held'[l] = d
      /\ \A l \in Locks : l \notin WriterLocks[d] => held'[l] = held[l]
  BY <1>1, <1>2, WriterHasLock DEF Holders
<1>7. WriterMoves(d) BY <1>1, <1>2, <1>5, <1>6, HoldersDiffer DEF WriterMoves, BackupTyped
<1>8. backup.at \in {"reading", "publishing"} => d = "pulse" BY <1>1, <1>2, NoneWriting
<1>9. Writing(d)' /\ \A e \in Domains : Writing(e)' => e = d \/ Writing(e)
  <2>1. Writing(d)' BY <1>6, WriterHasLock DEF Writing
  <2>2. ASSUME NEW e \in Domains, e # d, NEW l \in WriterLocks[e], held'[l] = e PROVE held[l] = e
    BY <1>6, <2>2, WriterHasLock
  <2> QED BY <2>1, <2>2 DEF Writing
<1>10. LocksTogether'
  <2> SUFFICES ASSUME NEW e \in Domains, Writing(e)', NEW l \in WriterLocks[e] PROVE held'[l] = e
    BY DEF LocksTogether
  <2>1. CASE e = d BY <1>6, <2>1
  <2>2. CASE e # d
    <3>1. held[l] = e BY <1>1, <1>9, <2>2 DEF LocksTogether
    <3>2. l \notin WriterLocks[d] BY <1>2, <3>1, HoldersDiffer
    <3> QED BY <1>6, <3>1, <3>2, WriterHasLock
  <2> QED BY <2>1, <2>2
<1>11. BetweenFiles'
  <2> SUFFICES ASSUME NEW e \in Domains, files'[<<e, 1>>] # files'[<<e, 2>>]
               PROVE  Writing(e)' \/ e \in torn'
    BY DEF BetweenFiles
  <2>1. CASE e = d BY <1>9, <2>1
  <2>2. CASE e # d
    <3>1. files[<<e, 1>>] # files[<<e, 2>>] BY <1>5, <2>2, FilesAre
    <3>2. CASE e \in torn BY <1>2, <3>2
    <3>3. CASE Writing(e)
      <4>1. PICK l \in WriterLocks[e] : held[l] = e BY <3>3 DEF Writing
      <4>2. l \notin WriterLocks[d] BY <1>2, <4>1, HoldersDiffer
      <4> QED BY <1>6, <4>1, <4>2, WriterHasLock DEF Writing
    <3> QED BY <1>1, <3>1, <3>2, <3>3 DEF BetweenFiles
  <2> QED BY <2>1, <2>2
<1> QED BY <1>7, <1>8, <1>10, <1>11, WriterKeeps

\* The locks of one holder are given back.
LEMMA ReleasedIs ==
  ASSUME BackupTyped, LocksTogether, NEW w, w # Free, held' = Released(w)
  PROVE  /\ held' \in [Locks -> Holders] /\ LocksTogether'
         /\ \A l \in Locks : held[l] # w => held'[l] = held[l]
         /\ \A e \in Domains : e # w => (Writing(e) <=> Writing(e)')
<1>1. /\ held \in [Locks -> Holders]
      /\ \A l \in Locks : held'[l] = IF held[l] = w THEN Free ELSE held[l]
  BY DEF BackupTyped, Released
<1>2. held' \in [Locks -> Holders] BY <1>1 DEF Released, Holders
<1>3. \A e \in Domains : e # w => \A l \in WriterLocks[e] : held[l] = e <=> held'[l] = e
  BY <1>1, WriterHasLock, HoldersDiffer
<1>4. ~(w \in Domains /\ Writing(w)') BY <1>1, WriterHasLock, HoldersDiffer DEF Writing
<1>5. \A e \in Domains : e # w => (Writing(e) <=> Writing(e)') BY <1>3 DEF Writing
<1>6. LocksTogether'
  <2> SUFFICES ASSUME NEW e \in Domains, Writing(e)', NEW l \in WriterLocks[e] PROVE held'[l] = e
    BY DEF LocksTogether
  <2>1. e # w BY <1>4
  <2>2. held[l] = e BY <1>5, <2>1 DEF LocksTogether
  <2> QED BY <1>3, <2>1, <2>2
<1> QED BY <1>1, <1>2, <1>5, <1>6

\* A change that ends or dies is not under way while a backup reads its files.
LEMMA EndChangeInv ==
  ASSUME BackupInv, NEW d \in Domains, EndChange(d) \/ ChangeDies(d)
  PROVE  BackupInv'
<1>1. /\ BackupTyped /\ LocksTogether /\ BetweenFiles /\ Locked
      /\ files \in [Files -> Nat] /\ held \in [Locks -> Holders]
  BY DEF BackupInv, BackupTyped
<1>2. /\ Writing(d) /\ held' = Released(d) /\ UNCHANGED <<backup, archive, dest>>
      /\ \/ files' = [files EXCEPT ![<<d, 2>>] = files[<<d, 1>>]] /\ torn' = torn
         \/ files' = files /\ torn' = torn \cup {d}
  BY DEF EndChange, ChangeDies
<1>3. /\ files' \in [Files -> Nat]
      /\ \A f \in Files : f[1] # d => files'[f] = files[f]
      /\ files'[<<d, 1>>] = files'[<<d, 2>>] \/ d \in torn'
  BY <1>1, <1>2, FilesAre
<1>4. /\ held' \in [Locks -> Holders] /\ LocksTogether'
      /\ \A l \in Locks : held[l] # d => held'[l] = held[l]
      /\ \A e \in Domains : e # d => (Writing(e) <=> Writing(e)')
  BY <1>1, <1>2, ReleasedIs, HoldersDiffer
<1>5. WriterMoves(d) BY <1>1, <1>2, <1>3, <1>4, HoldersDiffer DEF WriterMoves, BackupTyped
<1>6. backup.at \in {"reading", "publishing"} => d = "pulse" BY <1>1, <1>2, NoneWriting
<1>7. BetweenFiles'
  <2> SUFFICES ASSUME NEW e \in Domains, files'[<<e, 1>>] # files'[<<e, 2>>]
               PROVE  Writing(e)' \/ e \in torn'
    BY DEF BetweenFiles
  <2>1. CASE e = d BY <1>3, <2>1
  <2>2. CASE e # d BY <1>1, <1>2, <1>3, <1>4, <2>2, FilesAre DEF BetweenFiles
  <2> QED BY <2>1, <2>2
<1> QED BY <1>4, <1>5, <1>6, <1>7, WriterKeeps

----------------------------------------
(* The backup *)

\* All that was read is of one moment.
LEMMA ReadCoherent ==
  ASSUME BackupInv, BackupAt("publishing")
  PROVE  ~Split("signals") /\ (Split("vault") => "vault" \in torn)
<1>1. BackupTyped /\ LocksTogether /\ BetweenFiles /\ Locked /\ ReadUpTo(6)
  BY OrderIs DEF BackupInv, ReadAsHeld
<1>2. /\ archive[<<"signals", 1>>] = files[<<"signals", 1>>]
      /\ archive[<<"signals", 2>>] = files[<<"signals", 2>>]
      /\ archive[<<"vault", 1>>] = files[<<"vault", 1>>]
      /\ archive[<<"vault", 2>>] = files[<<"vault", 2>>]
  <2>1. /\ 3 \in DOMAIN ReadOrder /\ 4 \in DOMAIN ReadOrder /\ 5 \in DOMAIN ReadOrder
        /\ 6 \in DOMAIN ReadOrder
    BY OrderIs
  <2>2. /\ ReadOrder[3][1] # "pulse" /\ ReadOrder[4][1] # "pulse" /\ ReadOrder[5][1] # "pulse"
        /\ ReadOrder[6][1] # "pulse"
    BY OrderIs
  <2> QED BY <1>1, <2>1, <2>2, OrderIs DEF ReadUpTo
<1>3. files[<<"signals", 1>>] = files[<<"signals", 2>>] BY DEF BackupInv, Locked, BackupAt
<1>4. ~Writing("vault") BY <1>1, NoneWriting, HoldersDiffer DEF BackupAt
<1>5. files[<<"vault", 1>>] # files[<<"vault", 2>>] => "vault" \in torn
  BY <1>1, <1>4, HoldersDiffer DEF BetweenFiles
<1> QED BY <1>2, <1>3, <1>5 DEF Split

\* A backup that ends gives its locks back and leaves everything else.
LEMMA BackupEndsInv ==
  ASSUME BackupInv, NEW said, BackupEnds(said), UNCHANGED <<files, torn, archive>>,
         dest' \in {Free, "ours", "other"},
         dest' = "ours" => BackupCoherent'
  PROVE  BackupInv'
<1>1. backup' = Idle /\ held' = Released("backup") /\ BackupTyped /\ LocksTogether
  BY DEF BackupEnds, BackupInv
<1>2. /\ held' \in [Locks -> Holders] /\ LocksTogether'
      /\ \A e \in Domains : Writing(e) <=> Writing(e)'
  BY <1>1, ReleasedIs, HoldersDiffer
<1>3. BackupTyped' BY <1>1, <1>2 DEF BackupTyped, Idle
<1>4. BetweenFiles' BY <1>2 DEF BackupInv, BetweenFiles
<1>5. backup'.at = "idle" BY <1>1 DEF Idle
<1>6. Locked' /\ ReadAsHeld' /\ OnceKept' BY <1>5 DEF Locked, ReadAsHeld, OnceKept, BackupAt
<1>7. BackupCoherent' BY DEF BackupCoherent
<1> QED BY <1>2, <1>3, <1>4, <1>6, <1>7 DEF BackupInv

LEMMA BeginBackupInv ==
  ASSUME BackupInv, BeginBackup
  PROVE  BackupInv'
<1>1. /\ dest = Free /\ backup' = [at |-> "locking", k |-> 1] /\ archive' = [f \in Files |-> 0]
      /\ UNCHANGED <<files, held, torn, dest>>
  BY DEF BeginBackup
<1>2. dest' # "ours" BY <1>1, BackupAssumption
<1>3. BackupTyped' /\ LocksTogether' /\ BetweenFiles'
  BY <1>1 DEF BackupInv, BackupTyped, LocksTogether, BetweenFiles, Writing
<1>4. Locked' /\ ReadAsHeld' BY <1>1, LocksAre DEF Locked, ReadAsHeld, BackupAt
<1> QED BY <1>2, <1>3, <1>4 DEF BackupInv, OnceKept, BackupCoherent

LEMMA SnapshotLockInv ==
  ASSUME BackupInv, SnapshotLock
  PROVE  BackupInv'
<1>1. PICK l : l = SnapshotLocks[backup.k] OBVIOUS
<1>2. /\ BackupAt("locking") /\ backup.k <= 5 /\ held[l] = Free
      /\ UNCHANGED <<torn, archive, dest>>
      /\ \/ BackupEnds("refused") /\ UNCHANGED files
         \/ /\ held' = [held EXCEPT ![l] = "backup"]
            /\ files' = IF l = "signals" THEN [files EXCEPT ![<<l, 2>>] = files[<<l, 1>>]]
                        ELSE files
            /\ backup' = IF backup.k = 5 THEN [at |-> "reading", k |-> 1]
                         ELSE [backup EXCEPT !.k = @ + 1]
  BY <1>1, LocksAre DEF SnapshotLock
<1>3. /\ BackupTyped /\ LocksTogether /\ BetweenFiles /\ Locked /\ OnceKept /\ dest # "ours"
      /\ backup.k \in Nat
  BY <1>2 DEF BackupInv, OnceKept, BackupAt, BackupTyped
<1>4. CASE BackupEnds("refused") /\ UNCHANGED files
  BY <1>2, <1>3, <1>4, BackupEndsInv DEF BackupTyped
<1>5. CASE /\ held' = [held EXCEPT ![l] = "backup"]
           /\ files' = IF l = "signals" THEN [files EXCEPT ![<<l, 2>>] = files[<<l, 1>>]]
                       ELSE files
           /\ backup' = IF backup.k = 5 THEN [at |-> "reading", k |-> 1]
                        ELSE [backup EXCEPT !.k = @ + 1]
  <2>1. held \in [Locks -> Holders] /\ files \in [Files -> Nat] BY <1>3 DEF BackupTyped
  <2>2. /\ held' \in [Locks -> Holders]
        /\ \A m \in Locks : m # l => held'[m] = held[m]
        /\ l \in Locks => held'[l] = "backup"
    BY <1>5, <2>1 DEF Holders
  <2>3. /\ files' \in [Files -> Nat]
        /\ \A f \in Files : f # <<"signals", 2>> => files'[f] = files[f]
        /\ l = "signals" => files'[<<"signals", 2>>] = files'[<<"signals", 1>>]
        /\ l # "signals" => files' = files
    BY <1>5, <2>1, FilesAre, HoldersDiffer
  <2>4. PICK n \in Nat : n = backup.k + 1 BY <1>3
  <2>5. /\ backup' \in [at : {"idle", "locking", "reading", "publishing", "verifying"}, k : Nat]
        /\ \/ backup.k = 5 /\ backup'.at = "reading" /\ backup'.k = 1
           \/ backup.k # 5 /\ backup'.at = "locking" /\ backup'.k = n
    BY <1>2, <1>3, <1>5, <2>4 DEF BackupTyped, BackupAt
  <2>6. BackupTyped' BY <1>2, <1>3, <2>2, <2>3, <2>5 DEF BackupTyped
  <2>7. \A e \in Domains : \A m \in WriterLocks[e] : held[m] = e <=> held'[m] = e
    BY <1>2, <2>2, WriterHasLock, HoldersDiffer
  <2>8. \A e \in Domains : Writing(e) <=> Writing(e)' BY <2>7 DEF Writing
  <2>9. LocksTogether' BY <1>3, <2>7, <2>8 DEF LocksTogether
  <2>10. BetweenFiles'
    <3> SUFFICES ASSUME NEW e \in Domains, files'[<<e, 1>>] # files'[<<e, 2>>]
                 PROVE  Writing(e) \/ e \in torn
      BY <1>2, <2>8 DEF BetweenFiles
    <3>1. files[<<e, 1>>] # files[<<e, 2>>]
      <4>1. CASE l # "signals" BY <2>3, <4>1
      <4>2. CASE l = "signals" /\ e = "signals" BY <2>3, <4>2
      <4>3. CASE e # "signals"
        <5>1. <<e, 1>> # <<"signals", 2>> /\ <<e, 2>> # <<"signals", 2>> BY <4>3
        <5> QED BY <2>3, <5>1, FilesAre
      <4> QED BY <4>1, <4>2, <4>3
    <3> QED BY <1>3, <3>1 DEF BetweenFiles
  <2>11. \A i \in 1..5 : i < n => i < backup.k \/ i = backup.k BY <1>3, <2>4
  <2>12. \A i \in 1..5 : i < n => held'[SnapshotLocks[i]] = "backup"
    <3> SUFFICES ASSUME NEW i \in 1..5, i < n PROVE held'[SnapshotLocks[i]] = "backup"
      OBVIOUS
    <3>1. SnapshotLocks[i] \in Locks BY LocksAre
    <3>2. CASE i = backup.k BY <1>1, <2>2, <3>1, <3>2
    <3>3. CASE i < backup.k
      <4>1. held[SnapshotLocks[i]] = "backup" BY <1>2, <1>3, <3>3, LocksAre DEF Locked
      <4> QED BY <2>2, <3>1, <4>1
    <3> QED BY <2>11, <3>2, <3>3
  <2>13. CASE backup.k = 5
    <3>1. l = "signals" BY <1>1, <2>13, LocksAre
    <3>2. \A i \in 1..5 : i < n BY <2>4, <2>13
    <3>3. Locked' BY <2>3, <2>5, <2>12, <2>13, <3>1, <3>2, LocksAre DEF Locked, BackupAt
    <3>4. ReadAsHeld'
      <4>1. backup'.at = "reading" /\ backup'.k = 1 BY <2>5, <2>13
      <4>2. ReadUpTo(0)' BY OrderIs DEF ReadUpTo
      <4> QED BY <4>1, <4>2 DEF ReadAsHeld, BackupAt
    <3> QED BY <1>2, <1>3, <2>6, <2>9, <2>10, <3>3, <3>4 DEF BackupInv, OnceKept, BackupCoherent
  <2>14. CASE backup.k # 5
    <3>1. Locked' /\ ReadAsHeld'
      BY <2>5, <2>12, <2>14, LocksAre DEF Locked, ReadAsHeld, BackupAt
    <3> QED BY <1>2, <1>3, <2>6, <2>9, <2>10, <3>1 DEF BackupInv, OnceKept, BackupCoherent
  <2> QED BY <2>13, <2>14
<1> QED BY <1>2, <1>4, <1>5

LEMMA ReadFileInv ==
  ASSUME BackupInv, ReadFile
  PROVE  BackupInv'
<1>1. PICK f : f = ReadOrder[backup.k] OBVIOUS
<1>2. /\ BackupAt("reading") /\ archive' = [archive EXCEPT ![f] = files[f]]
      /\ backup' = IF backup.k = 6 THEN [at |-> "publishing", k |-> 0]
                   ELSE [backup EXCEPT !.k = @ + 1]
      /\ UNCHANGED <<files, held, torn, dest>>
  BY <1>1, OrderIs DEF ReadFile
<1>3. /\ BackupTyped /\ LocksTogether /\ BetweenFiles /\ Locked /\ OnceKept /\ dest # "ours"
      /\ ReadUpTo(backup.k - 1) /\ backup.k \in Nat
      /\ archive \in [Files -> Nat] /\ files \in [Files -> Nat]
  BY <1>2 DEF BackupInv, OnceKept, BackupAt, BackupTyped, ReadAsHeld
<1>4. PICK n \in Nat : n = backup.k + 1 BY <1>3
<1>5. /\ backup' \in [at : {"idle", "locking", "reading", "publishing", "verifying"}, k : Nat]
      /\ \/ backup.k = 6 /\ backup'.at = "publishing"
         \/ backup.k # 6 /\ backup'.at = "reading" /\ backup'.k = n
  BY <1>2, <1>3, <1>4 DEF BackupTyped, BackupAt
<1>6. /\ archive' \in [Files -> Nat]
      /\ \A g \in Files : archive'[g] = IF g = f THEN files[g] ELSE archive[g]
  BY <1>2, <1>3
<1>7. BackupTyped' /\ LocksTogether' /\ BetweenFiles'
  BY <1>2, <1>3, <1>5, <1>6 DEF BackupTyped, LocksTogether, BetweenFiles, Writing
<1>8. Locked' BY <1>2, <1>3, <1>5 DEF Locked, BackupAt
<1>9. ASSUME NEW i \in DOMAIN ReadOrder, i <= backup.k, ReadOrder[i][1] # "pulse"
      PROVE  archive'[ReadOrder[i]] = files'[ReadOrder[i]]
  <2>1. ReadOrder[i] \in Files /\ i \in Nat BY OrderIs
  <2>2. CASE i = backup.k BY <1>1, <1>2, <1>6, <2>1, <2>2
  <2>3. CASE i <= backup.k - 1 BY <1>2, <1>3, <1>6, <1>9, <2>1, <2>3 DEF ReadUpTo
  <2> QED BY <1>3, <1>9, <2>1, <2>2, <2>3
<1>10. ReadAsHeld'
  <2>1. CASE backup.k = 6
    <3>1. ReadUpTo(6)' BY <1>9, <2>1 DEF ReadUpTo
    <3> QED BY <1>5, <2>1, <3>1, OrderIs DEF ReadAsHeld, BackupAt
  <2>2. CASE backup.k # 6
    <3>1. backup'.k - 1 = backup.k BY <1>3, <1>4, <1>5, <2>2
    <3>2. ReadUpTo(backup.k - 1)' BY <1>9, <3>1 DEF ReadUpTo
    <3> QED BY <1>5, <2>2, <3>2 DEF ReadAsHeld, BackupAt
  <2> QED BY <2>1, <2>2
<1> QED BY <1>2, <1>3, <1>7, <1>8, <1>10 DEF BackupInv, OnceKept, BackupCoherent

LEMMA PublishBackupInv ==
  ASSUME BackupInv, PublishBackup
  PROVE  BackupInv'
<1>1. /\ BackupAt("publishing") /\ UNCHANGED <<files, torn, archive>>
      /\ \/ BackupEnds("refused") /\ UNCHANGED dest
         \/ /\ dest' = "ours"
            /\ \/ backup' = [at |-> "verifying", k |-> 0] /\ held' = Released("backup")
               \/ BackupEnds("committed")
  BY DEF PublishBackup, DurablePublishNew
<1>2. BackupCoherent' BY <1>1, ReadCoherent DEF BackupCoherent, Split
<1>3. dest' \in {Free, "ours", "other"} BY <1>1 DEF BackupInv, BackupTyped
<1>4. CASE \E said : BackupEnds(said)
  <2>1. PICK said : BackupEnds(said) BY <1>4
  <2> QED BY <1>1, <1>2, <1>3, <2>1, BackupEndsInv
<1>5. CASE dest' = "ours" /\ backup' = [at |-> "verifying", k |-> 0] /\ held' = Released("backup")
  <2>1. /\ held' \in [Locks -> Holders] /\ LocksTogether'
        /\ \A e \in Domains : Writing(e) <=> Writing(e)'
    BY <1>5, ReleasedIs, HoldersDiffer DEF BackupInv
  <2>2. BackupTyped' /\ BetweenFiles'
    BY <1>1, <1>3, <1>5, <2>1 DEF BackupInv, BackupTyped, BetweenFiles
  <2>3. backup'.at = "verifying" BY <1>5
  <2>4. Locked' /\ ReadAsHeld' /\ OnceKept' BY <2>3 DEF Locked, ReadAsHeld, OnceKept, BackupAt
  <2> QED BY <1>2, <2>1, <2>2, <2>4 DEF BackupInv
<1> QED BY <1>1, <1>4, <1>5

LEMMA BackupStopsInv ==
  ASSUME BackupInv, StagingFails \/ VerifyBackup \/ BackupDies
  PROVE  BackupInv'
<1>1. PICK said : BackupEnds(said) BY DEF StagingFails, VerifyBackup, BackupDies
<1>2. UNCHANGED <<files, torn, archive, dest>> BY DEF StagingFails, VerifyBackup, BackupDies
<1> QED BY <1>1, <1>2, BackupEndsInv DEF BackupInv, BackupTyped, BackupCoherent, Split

LEMMA TakeDestinationInv ==
  ASSUME BackupInv, TakeDestination
  PROVE  BackupInv'
<1>1. dest' = "other" /\ UNCHANGED <<files, held, torn, backup, archive>> BY DEF TakeDestination
<1>2. BackupTyped' /\ LocksTogether' /\ BetweenFiles'
  BY <1>1 DEF BackupInv, BackupTyped, LocksTogether, BetweenFiles, Writing
<1>3. Locked' /\ ReadAsHeld' BY <1>1 DEF BackupInv, Locked, ReadAsHeld, ReadUpTo, BackupAt
<1> QED BY <1>1, <1>2, <1>3 DEF BackupInv, OnceKept, BackupCoherent

----------------------------------------
(* Restore *)

Staged == Dir("ours")
TheirDirs == [id : {"prior", "other"}, files : BOOLEAN]
DirStates == {NoDir, Staged} \cup TheirDirs

Dirs == [target : DirStates, stage : {NoDir, Staged}, prior : {NoDir} \cup TheirDirs]

\* A second restore never begins: the stage of the first is there, or the target is not empty.
OneRestore ==
  /\ dirs.stage = NoDir /\ dirs.target # Staged => dirs.prior = NoDir /\ restore = "idle"
  /\ restore = "staged" => dirs.stage = Staged /\ dirs.target # Staged /\ dirs.prior = NoDir
  /\ restore \in {"publishing", "undoing"} => dirs.stage = Staged /\ dirs.target # Staged
  /\ restore \in {"verifying", "cleaning"} => dirs.stage = NoDir /\ dirs.target = Staged

\* Where the files that somebody put there are.
KeptThere == \A i \in kept : \E w \in {"target", "prior"} : dirs[w].id = i /\ dirs[w].files

NotPublished == restoreSaid = "not published" /\ restore = "idle" => dirs.target # Staged

RestoreInv ==
  /\ dirs \in Dirs
  /\ restore \in {"idle", "staged", "publishing", "undoing", "verifying", "cleaning"}
  /\ OneRestore /\ KeptThere /\ NotPublished

LEMMA DirsDiffer ==
  /\ NoDir.id = Free /\ NoDir.files = FALSE /\ Staged.id = "ours" /\ Staged.files = TRUE
  /\ \A d \in TheirDirs : d.id \in {"prior", "other"} /\ d.files \in BOOLEAN
  /\ NoDir # Staged /\ NoDir \notin TheirDirs /\ Staged \notin TheirDirs
  /\ \A d \in DirStates : d.id = "ours" => d = Staged
  /\ \A d \in DirStates : d.id \in {"prior", "other"} => d \in TheirDirs
  /\ \A d \in DirStates : EmptyOrAbsent(d) => d # Staged
<1>1. /\ NoDir.id = Free /\ NoDir.files = FALSE /\ Staged.id = "ours" /\ Staged.files = TRUE
  BY DEF NoDir, Staged, Dir
<1>2. \A d \in TheirDirs : d.id \in {"prior", "other"} /\ d.files \in BOOLEAN BY DEF TheirDirs
<1>3. Free \notin {"ours", "prior", "other"} BY BackupAssumption
<1>4. NoDir # Staged /\ NoDir \notin TheirDirs /\ Staged \notin TheirDirs BY <1>1, <1>2, <1>3
<1>5. \A d \in DirStates : d = NoDir \/ d = Staged \/ d \in TheirDirs BY DEF DirStates
<1>6. \A d \in DirStates : d.id = "ours" => d = Staged BY <1>1, <1>2, <1>3, <1>5
<1>7. \A d \in DirStates : d.id \in {"prior", "other"} => d \in TheirDirs
  BY <1>1, <1>2, <1>3, <1>5
<1>8. \A d \in DirStates : EmptyOrAbsent(d) => d # Staged BY <1>1 DEF EmptyOrAbsent
<1> QED BY <1>1, <1>2, <1>4, <1>6, <1>7, <1>8

LEMMA DirsAre ==
  ASSUME dirs \in Dirs
  PROVE  /\ dirs.target \in DirStates /\ dirs.prior \in DirStates /\ dirs.stage \in {NoDir, Staged}
         /\ dirs.prior # Staged
BY DirsDiffer DEF Dirs, DirStates

\* A restore that ends where the files are left alone.
LEMMA RestoreEndsInv ==
  ASSUME RestoreInv, NEW said, RestoreEnds(said), UNCHANGED <<dirs, kept>>,
         said = "not published" => dirs.target # Staged
  PROVE  RestoreInv'
<1>1. restore' = "idle" /\ restoreSaid' = said BY DEF RestoreEnds
<1> QED BY <1>1 DEF RestoreInv, OneRestore, KeptThere, NotPublished

LEMMA BeginRestoreInv ==
  ASSUME RestoreInv, BeginRestore
  PROVE  RestoreInv'
<1>1. /\ restore = "idle" /\ dirs.stage = NoDir /\ EmptyOrAbsent(dirs.target)
      /\ dirs' = [dirs EXCEPT !.stage = Staged] /\ restore' = "staged" /\ kept' = kept
  BY DEF BeginRestore, RestoreAt, Staged
<1>2. dirs \in Dirs /\ dirs.target # Staged /\ dirs.prior = NoDir
  BY <1>1, DirsAre, DirsDiffer DEF RestoreInv, OneRestore
<1>3. dirs' \in Dirs /\ dirs'.target = dirs.target /\ dirs'.prior = dirs.prior /\ dirs'.stage = Staged
  BY <1>1, <1>2 DEF Dirs
<1>4. OneRestore' /\ NotPublished' BY <1>1, <1>2, <1>3, DirsDiffer DEF OneRestore, NotPublished
<1>5. KeptThere' BY <1>1, <1>3 DEF RestoreInv, KeptThere
<1> QED BY <1>1, <1>3, <1>4, <1>5 DEF RestoreInv

LEMMA SetAsideInv ==
  ASSUME RestoreInv, SetAside
  PROVE  RestoreInv'
<1>1. /\ restore = "staged" /\ kept' = kept
      /\ \/ RestoreEnds("not published") /\ dirs' = dirs
         \/ dirs.target = NoDir /\ restore' = "publishing" /\ dirs' = dirs /\ restoreSaid' = restoreSaid
         \/ /\ EmptyOrAbsent(dirs.target) /\ dirs.target # NoDir
            /\ dirs' = [dirs EXCEPT !.prior = dirs.target, !.target = NoDir]
            /\ restore' = "publishing" /\ restoreSaid' = restoreSaid
  BY DEF SetAside, RestoreAt
<1>2. /\ dirs \in Dirs /\ dirs.stage = Staged /\ dirs.target # Staged /\ dirs.prior = NoDir
      /\ KeptThere
  BY <1>1 DEF RestoreInv, OneRestore
<1>3. CASE RestoreEnds("not published") /\ dirs' = dirs BY <1>1, <1>2, <1>3, RestoreEndsInv
<1>4. CASE dirs.target = NoDir /\ restore' = "publishing" /\ dirs' = dirs /\ restoreSaid' = restoreSaid
  BY <1>1, <1>2, <1>4, DirsDiffer DEF RestoreInv, OneRestore, KeptThere, NotPublished
<1>5. CASE /\ EmptyOrAbsent(dirs.target) /\ dirs.target # NoDir
           /\ dirs' = [dirs EXCEPT !.prior = dirs.target, !.target = NoDir]
           /\ restore' = "publishing"
  <2>1. dirs.target \in TheirDirs BY <1>2, <1>5, DirsAre DEF DirStates
  <2>2. /\ dirs' \in Dirs /\ dirs'.target = NoDir /\ dirs'.prior = dirs.target
        /\ dirs'.stage = dirs.stage
    BY <1>2, <1>5, <2>1 DEF Dirs, DirStates
  <2>3. kept = {} BY <1>2, <1>5, DirsDiffer DEF KeptThere, EmptyOrAbsent
  <2>4. OneRestore' /\ NotPublished' /\ KeptThere'
    BY <1>1, <1>2, <1>5, <2>2, <2>3, DirsDiffer DEF OneRestore, NotPublished, KeptThere
  <2> QED BY <1>5, <2>2, <2>4 DEF RestoreInv
<1> QED BY <1>1, <1>3, <1>4, <1>5

LEMMA PublishRestoreInv ==
  ASSUME RestoreInv, PublishRestore
  PROVE  RestoreInv'
<1>1. /\ restore = "publishing" /\ kept' = kept
      /\ \/ /\ EmptyOrAbsent(dirs.prior) /\ EmptyOrAbsent(dirs.target) /\ dirs' = Published
            /\ \/ restore' = "verifying"
               \/ RestoreEnds("committed")
         \/ restore' = "undoing" /\ dirs' = dirs
  BY DEF PublishRestore, RestoreAt
<1>2. /\ dirs \in Dirs /\ dirs.stage = Staged /\ dirs.target # Staged /\ KeptThere
  BY <1>1 DEF RestoreInv, OneRestore
<1>3. CASE restore' = "undoing" /\ dirs' = dirs
  BY <1>1, <1>2, <1>3, DirsDiffer DEF RestoreInv, OneRestore, KeptThere, NotPublished
<1>4. CASE /\ EmptyOrAbsent(dirs.prior) /\ EmptyOrAbsent(dirs.target) /\ dirs' = Published
           /\ \/ restore' = "verifying"
              \/ RestoreEnds("committed")
  <2>1. /\ dirs' \in Dirs /\ dirs'.target = Staged /\ dirs'.prior = dirs.prior
        /\ dirs'.stage = NoDir
    BY <1>2, <1>4 DEF Published, Dirs, DirStates
  <2>2. kept = {} BY <1>2, <1>4, DirsDiffer DEF KeptThere, EmptyOrAbsent
  <2>3. restore' = "verifying" \/ (restore' = "idle" /\ restoreSaid' = "committed")
    BY <1>4 DEF RestoreEnds
  <2>4. OneRestore' /\ NotPublished' /\ KeptThere'
    BY <1>1, <2>1, <2>2, <2>3, DirsDiffer DEF OneRestore, NotPublished, KeptThere
  <2> QED BY <2>1, <2>3, <2>4 DEF RestoreInv
<1> QED BY <1>1, <1>3, <1>4

LEMMA RestorePriorInv ==
  ASSUME RestoreInv, RestorePrior
  PROVE  RestoreInv'
<1>1. /\ restore = "undoing" /\ kept' = kept
      /\ \/ dirs' = dirs /\ (RestoreEnds("not published") \/ RestoreEnds("degraded"))
         \/ /\ dirs.prior # NoDir /\ dirs.target = NoDir
            /\ dirs' = [dirs EXCEPT !.target = dirs.prior, !.prior = NoDir]
            /\ RestoreEnds("not published")
  BY DEF RestorePrior, RestoreAt
<1>2. /\ dirs \in Dirs /\ dirs.stage = Staged /\ dirs.target # Staged /\ KeptThere
  BY <1>1 DEF RestoreInv, OneRestore
<1>3. CASE dirs' = dirs /\ (RestoreEnds("not published") \/ RestoreEnds("degraded"))
  BY <1>1, <1>2, <1>3, RestoreEndsInv
<1>4. CASE /\ dirs.prior # NoDir /\ dirs.target = NoDir
           /\ dirs' = [dirs EXCEPT !.target = dirs.prior, !.prior = NoDir]
           /\ RestoreEnds("not published")
  <2>1. dirs.prior \in TheirDirs BY <1>2, <1>4 DEF Dirs
  <2>2. /\ dirs' \in Dirs /\ dirs'.target = dirs.prior /\ dirs'.prior = NoDir
        /\ dirs'.stage = dirs.stage
    BY <1>2, <1>4, <2>1 DEF Dirs, DirStates
  <2>3. restore' = "idle" BY <1>4 DEF RestoreEnds
  <2>4. OneRestore' /\ NotPublished'
    BY <1>2, <2>1, <2>2, <2>3, DirsDiffer DEF OneRestore, NotPublished
  <2>5. ASSUME NEW i \in kept PROVE dirs'["target"].id = i /\ dirs'["target"].files
    <3>1. ~dirs["target"].files BY <1>4, DirsDiffer
    <3>2. dirs["prior"].id = i /\ dirs["prior"].files BY <1>2, <3>1 DEF KeptThere
    <3> QED BY <2>2, <3>2
  <2> QED BY <1>1, <2>2, <2>3, <2>4, <2>5 DEF RestoreInv, KeptThere
<1> QED BY <1>1, <1>3, <1>4

LEMMA VerifyRestoreInv ==
  ASSUME RestoreInv, VerifyRestore
  PROVE  RestoreInv'
<1>1. /\ restore = "verifying" /\ dirs' = dirs /\ kept' = kept
      /\ restore' = "cleaning" \/ RestoreEnds("degraded")
  BY DEF VerifyRestore, RestoreAt
<1>2. CASE RestoreEnds("degraded") BY <1>1, <1>2, RestoreEndsInv
<1>3. CASE restore' = "cleaning"
  BY <1>1, <1>3, DirsDiffer DEF RestoreInv, OneRestore, KeptThere, NotPublished
<1> QED BY <1>1, <1>2, <1>3

LEMMA RemovePriorInv ==
  ASSUME RestoreInv, RemovePriorEmpty
  PROVE  RestoreInv'
<1>1. /\ restore = "cleaning" /\ kept' = kept /\ RestoreEnds("published")
      /\ dirs' = IF dirs.prior.files THEN dirs ELSE [dirs EXCEPT !.prior = NoDir]
  BY DEF RemovePriorEmpty, RestoreAt
<1>2. dirs \in Dirs /\ dirs.stage = NoDir /\ dirs.target = Staged /\ KeptThere
  BY <1>1 DEF RestoreInv, OneRestore
<1>3. CASE dirs' = dirs BY <1>1, <1>3, RestoreEndsInv
<1>4. CASE ~dirs.prior.files /\ dirs' = [dirs EXCEPT !.prior = NoDir]
  <2>1. dirs' \in Dirs /\ dirs'.target = dirs.target /\ dirs'.prior = NoDir /\ dirs'.stage = NoDir
    BY <1>2, <1>4 DEF Dirs
  <2>2. restore' = "idle" /\ restoreSaid' = "published" BY <1>1 DEF RestoreEnds
  <2>3. OneRestore' /\ NotPublished' BY <1>2, <2>1, <2>2 DEF OneRestore, NotPublished
  <2>4. KeptThere' BY <1>1, <1>2, <1>4, <2>1 DEF KeptThere
  <2> QED BY <2>1, <2>2, <2>3, <2>4 DEF RestoreInv
<1> QED BY <1>1, <1>3, <1>4

LEMMA RestoreStopsInv ==
  ASSUME RestoreInv, StageRejected \/ RestoreDies
  PROVE  RestoreInv'
<1>1. CASE StageRejected
  <2>1. restore = "staged" /\ RestoreEnds("not published") /\ UNCHANGED <<dirs, kept>>
    BY <1>1 DEF StageRejected, RestoreAt
  <2>2. dirs.target # Staged BY <2>1 DEF RestoreInv, OneRestore
  <2> QED BY <2>1, <2>2, RestoreEndsInv
<1>2. CASE RestoreDies BY <1>2, RestoreEndsInv DEF RestoreDies
<1> QED BY <1>1, <1>2

LEMMA UseTargetInv ==
  ASSUME RestoreInv, UseTarget
  PROVE  RestoreInv'
<1>1. dirs \in Dirs /\ UNCHANGED <<restore, restoreSaid>> /\ OneRestore /\ NotPublished /\ KeptThere
  BY DEF UseTarget, RestoreInv
<1>2. CASE dirs.target = NoDir /\ dirs' = [dirs EXCEPT !.target = Dir("other")] /\ kept' = kept
  <2>1. Dir("other") \in TheirDirs /\ Dir("other") # Staged BY DirsDiffer DEF Dir, TheirDirs
  <2>2. /\ dirs' \in Dirs /\ dirs'.target = Dir("other") /\ dirs'.prior = dirs.prior
        /\ dirs'.stage = dirs.stage
    BY <1>1, <1>2, <2>1 DEF Dirs, DirStates
  <2>3. OneRestore' /\ NotPublished'
    BY <1>1, <1>2, <2>1, <2>2, DirsDiffer DEF OneRestore, NotPublished
  <2>4. ASSUME NEW i \in kept PROVE dirs'["prior"].id = i /\ dirs'["prior"].files
    <3>1. ~dirs["target"].files BY <1>2, DirsDiffer
    <3> QED BY <1>1, <2>2, <3>1 DEF KeptThere
  <2> QED BY <1>1, <1>2, <2>2, <2>3, <2>4 DEF RestoreInv, KeptThere
<1>3. ASSUME NEW w \in {"target", "prior"}, dirs[w].id \in {"prior", "other"},
             dirs' = [dirs EXCEPT ![w].files = TRUE], kept' = kept \cup {dirs[w].id}
      PROVE  RestoreInv'
  <2>1. dirs[w] \in TheirDirs BY <1>1, <1>3, DirsAre, DirsDiffer
  <2>2. PICK d \in TheirDirs : d = [dirs[w] EXCEPT !.files = TRUE] /\ d.id = dirs[w].id /\ d.files
    <3>1. PICK e \in TheirDirs : e = dirs[w] BY <2>1
    <3>2. PICK d : d = [e EXCEPT !.files = TRUE] OBVIOUS
    <3>3. d \in TheirDirs /\ d.id = e.id /\ d.files BY <3>2 DEF TheirDirs
    <3> QED BY <3>1, <3>2, <3>3
  <2>3. dirs' = [dirs EXCEPT ![w] = d] BY <1>3, <2>2
  <2>4. /\ dirs' \in Dirs /\ dirs'[w] = d /\ dirs'.stage = dirs.stage
        /\ \A v \in {"target", "prior"} : v # w => dirs'[v] = dirs[v]
    BY <1>1, <1>3, <2>3 DEF Dirs, DirStates
  <2>5. /\ dirs.target = Staged <=> dirs'.target = Staged
        /\ dirs.prior = NoDir <=> dirs'.prior = NoDir
    BY <1>3, <2>1, <2>4, DirsDiffer
  <2>6. OneRestore' /\ NotPublished' BY <1>1, <2>4, <2>5 DEF OneRestore, NotPublished
  <2>7. KeptThere'
    <3> SUFFICES ASSUME NEW i \in kept'
                 PROVE  \E v \in {"target", "prior"} : dirs'[v].id = i /\ dirs'[v].files
      BY DEF KeptThere
    <3>1. CASE i = dirs[w].id BY <2>2, <2>4, <3>1
    <3>2. CASE i \in kept
      <4>1. PICK v \in {"target", "prior"} : dirs[v].id = i /\ dirs[v].files
        BY <1>1, <3>2 DEF KeptThere
      <4> QED BY <2>2, <2>4, <4>1
    <3> QED BY <1>3, <3>1, <3>2
  <2> QED BY <1>1, <2>4, <2>6, <2>7 DEF RestoreInv
<1> QED BY <1>2, <1>3 DEF UseTarget

----------------------------------------
LEMMA CopiesInitInv ==
  ASSUME BackupInit
  PROVE  BackupInv /\ RestoreInv
<1>1. BackupTyped /\ backup.at = "idle"
  BY HoldersDiffer DEF BackupInit, BackupTyped, Idle, Holders
<1>2. \A d \in Domains : ~Writing(d) BY WriterHasLock, HoldersDiffer DEF BackupInit, Writing
<1>3. LocksTogether /\ BetweenFiles
  BY <1>2, FilesAre DEF BackupInit, LocksTogether, BetweenFiles
<1>4. Locked /\ ReadAsHeld /\ OnceKept /\ BackupCoherent
  BY <1>1, BackupAssumption DEF BackupInit, Locked, ReadAsHeld, OnceKept, BackupCoherent, BackupAt
<1>5. Dir("prior") \in TheirDirs /\ Dir("prior") # Staged BY DirsDiffer DEF Dir, TheirDirs
<1>6. /\ dirs \in Dirs /\ dirs.target # Staged /\ dirs.prior = NoDir /\ dirs.stage = NoDir
      /\ restore = "idle" /\ kept = {}
  BY <1>5, DirsDiffer DEF BackupInit, Dirs, DirStates
<1>7. RestoreInv BY <1>6 DEF RestoreInv, OneRestore, KeptThere, NotPublished
<1> QED BY <1>1, <1>3, <1>4, <1>7 DEF BackupInv

LEMMA CopiesNextInv ==
  ASSUME BackupInv, RestoreInv, [BackupNext \/ RestoreNext]_bvars
  PROVE  BackupInv' /\ RestoreInv'
<1>1. ASSUME UNCHANGED backupVars PROVE BackupInv'
  BY <1>1 DEF backupVars, BackupInv, BackupTyped, LocksTogether, BetweenFiles, Writing, Locked,
     ReadAsHeld, ReadUpTo, OnceKept, BackupCoherent, Split, BackupAt
<1>2. ASSUME UNCHANGED restoreVars PROVE RestoreInv'
  BY <1>2 DEF restoreVars, RestoreInv, OneRestore, KeptThere, NotPublished
<1>3. CASE BackupNext
  <2>1. UNCHANGED restoreVars
    BY <1>3 DEF BackupNext, BeginChange, EndChange, ChangeDies, BeginBackup, SnapshotLock, ReadFile,
       StagingFails, PublishBackup, DurablePublishNew, VerifyBackup, BackupDies, TakeDestination, restoreVars
  <2>2. ASSUME NEW d \in Domains, BeginChange(d) \/ EndChange(d) \/ ChangeDies(d) PROVE BackupInv'
    BY <2>2, BeginChangeInv, EndChangeInv
  <2>3. BackupInv'
    BY <1>3, <2>2, BeginBackupInv, SnapshotLockInv, ReadFileInv, BackupStopsInv, PublishBackupInv,
       TakeDestinationInv DEF BackupNext
  <2> QED BY <1>2, <2>1, <2>3
<1>4. CASE RestoreNext
  <2>1. UNCHANGED backupVars
    BY <1>4 DEF RestoreNext, BeginRestore, StageRejected, SetAside, PublishRestore, RestorePrior,
       VerifyRestore, RemovePriorEmpty, RestoreDies, UseTarget
  <2>2. RestoreInv'
    BY <1>4, BeginRestoreInv, RestoreStopsInv, SetAsideInv, PublishRestoreInv, RestorePriorInv,
       VerifyRestoreInv, RemovePriorInv, UseTargetInv DEF RestoreNext
  <2> QED BY <1>1, <2>1, <2>2
<1> QED BY <1>1, <1>2, <1>3, <1>4 DEF bvars

\* A backup taken while the vault's writers run is one moment of it, whoever dies between two
\* files and whatever takes the destination (_coherent_backup_snapshot, create_backup); and a
\* restore says "not published" only of a target it left, and loses no file that somebody put
\* there (restore_backup, _restore_prior_target, _remove_prior_empty).
THEOREM CopiesAreHonest == CopiesSpec => []CopiesHonest
<1>1. BackupInit => BackupInv /\ RestoreInv BY CopiesInitInv
<1>2. (BackupInv /\ RestoreInv) /\ [BackupNext \/ RestoreNext]_bvars => (BackupInv /\ RestoreInv)'
  BY CopiesNextInv
<1>3. BackupInv /\ RestoreInv => CopiesHonest
  <2> SUFFICES ASSUME BackupInv, RestoreInv PROVE CopiesHonest
    OBVIOUS
  <2>1. dirs.target.id = "ours" => dirs.target = Staged BY DirsAre, DirsDiffer DEF RestoreInv
  <2> QED
    BY <2>1 DEF BackupInv, RestoreInv, KeptThere, NotPublished, CopiesHonest, RestoreHonest
<1> QED BY <1>1, <1>2, <1>3, PTL DEF CopiesSpec

----------------------------------------
(* The Bridge server *)

ProcStates == [pc : {"starting", "bound", "serving", "closing", "dead", "foreign"},
               by : {"person", "open"}, root : Nat, mute : BOOLEAN]
BridgeReceipts == [pid : Nat, root : Nat]
Commands == [pc : {"idle", "load", "absent", "probe", "remove", "unlink", "wait", "signal", "stopped"},
             kind : {"none", "open", "stop", "status"}, seen : BridgeReceipts \cup {NoReceipt},
             child : Nat,
             says : {"nothing", "working", "unavailable", "running", "refused", "not running",
                     "failed", "died"}]

\* A process whose receipt was written: it serves, or will never serve again.
HasServed(n) == n \in DOMAIN procs /\ procs[n].pc \in {"serving", "closing", "dead", "foreign"}

ServerTyped ==
  /\ procs \in Seq(ProcStates) /\ root \in Nat
  /\ receipt \in BridgeReceipts \cup {NoReceipt}
  /\ command \in Commands

\* Receipts name processes that have served.
ReceiptsNamed ==
  /\ receipt \notin {NoReceipt, Garbled} => HasServed(receipt.pid)
  /\ command.seen # NoReceipt => HasServed(command.seen.pid)

CommandPlaced ==
  /\ command.pc \in {"probe", "remove", "unlink", "signal", "stopped"} => command.seen # NoReceipt
  /\ command.pc = "wait" => command.kind = "open" /\ command.child \in DOMAIN procs
  /\ command.pc = "signal" => command.kind = "stop"
  /\ command.kind = "none" \/ command.says = "not running" => command.pc = "idle"

\* From its judgement of the receipt on a stop knows that the process does not serve.
StopJudged ==
  (/\ command.kind = "stop" /\ command.seen # NoReceipt
   /\ \/ command.pc \in {"remove", "unlink", "absent", "stopped"}
      \/ command.says = "not running")
    => procs[command.seen.pid].pc # "serving"

ServerInv == ServerTyped /\ ReceiptsNamed /\ CommandPlaced /\ StopJudged

----------------------------------------
(* The requests *)

Reviews == [state : {"available", "active", "paused"}, step : Nat, session : Nat]
ServerAnswers == [subject : Nat, step : Nat, by : Nat, decided : BOOLEAN]
Pages == [pc : {"idle", "snapshot", "validated"}, rev : Nat, step : Nat, at : Nat,
          seen : Reviews \cup {NoReceipt}, server : Nat]

RequestsTyped ==
  /\ review \in Reviews /\ queue \in Seq(ServerAnswers) /\ tabs \in [Tabs -> Pages]
  /\ \A t \in Tabs : tabs[t].pc # "idle" => tabs[t].seen \in Reviews
  /\ \A t \in Tabs : tabs[t].server # 0 => tabs[t].server \in DOMAIN procs

\* A page knows no more of the queue than there is.
PagesBehind ==
  \A t \in Tabs : tabs[t].at <= root /\ (tabs[t].at = root => tabs[t].rev <= Len(queue))

\* While the queue is as a validated request knows it, nobody has answered its question.
StillOpen ==
  \A t \in Tabs :
    tabs[t].pc = "validated" /\ tabs[t].at = root /\ tabs[t].rev = Len(queue)
      => \A i \in Pending : queue[i].subject # Subject(tabs[t].seen)

RequestsInv == RequestsTyped /\ PagesBehind /\ StillOpen /\ AnsweredOnce

----------------------------------------
(* The Bridge server: the lifecycle *)

LEMMA ServerFacts ==
  ASSUME ServerTyped
  PROVE  /\ Len(procs) \in Nat /\ DOMAIN procs = 1..Len(procs)
         /\ \A n \in DOMAIN procs : procs[n] \in ProcStates
         /\ command.seen \in BridgeReceipts \cup {NoReceipt} /\ command.child \in Nat
<1>1. procs \in Seq(ProcStates) BY DEF ServerTyped
<1>2. command.seen \in BridgeReceipts \cup {NoReceipt} /\ command.child \in Nat
  BY DEF ServerTyped, Commands
<1> QED BY <1>1, <1>2

\* What a step may do to the processes: none that has served serves again.
ProcsGo ==
  /\ procs' \in Seq(ProcStates) /\ DOMAIN procs \subseteq DOMAIN procs'
  /\ \A n \in DOMAIN procs : HasServed(n) =>
       /\ HasServed(n)'
       /\ procs[n].pc # "serving" => procs'[n].pc # "serving"

LEMMA ProcsStay ==
  ASSUME ServerTyped, procs' = procs
  PROVE  ProcsGo
BY DEF ServerTyped, ProcsGo, HasServed

LEMMA ProcsChange ==
  ASSUME ServerTyped, NEW n \in DOMAIN procs, NEW p \in ProcStates, procs' = [procs EXCEPT ![n] = p],
         p.pc \in {"starting", "bound"} => procs[n].pc \in {"starting", "bound"},
         p.pc = "serving" => procs[n].pc \in {"starting", "bound", "serving"}
  PROVE  ProcsGo /\ DOMAIN procs' = DOMAIN procs /\ procs'[n] = p
<1>1. procs \in Seq(ProcStates) /\ DOMAIN procs = 1..Len(procs) BY DEF ServerTyped
<1>2. /\ procs' \in Seq(ProcStates) /\ DOMAIN procs' = DOMAIN procs /\ procs'[n] = p
      /\ \A m \in DOMAIN procs : m # n => procs'[m] = procs[m]
  BY <1>1
<1>3. p.pc \in {"starting", "bound", "serving", "closing", "dead", "foreign"} BY DEF ProcStates
<1>4. ASSUME NEW m \in DOMAIN procs, HasServed(m)
      PROVE  HasServed(m)' /\ (procs[m].pc # "serving" => procs'[m].pc # "serving")
  <2>1. CASE m = n BY <1>2, <1>3, <1>4, <2>1 DEF HasServed
  <2>2. CASE m # n BY <1>2, <1>4, <2>2 DEF HasServed
  <2> QED BY <2>1, <2>2
<1> QED BY <1>2, <1>4 DEF ProcsGo

LEMMA ProcAtIs ==
  ASSUME ServerTyped, NEW n \in DOMAIN procs,
         NEW pc \in {"starting", "bound", "serving", "closing", "dead", "foreign"}, ProcAt(n, pc),
         pc \notin {"starting", "bound"},
         pc = "serving" => procs[n].pc = "bound"
  PROVE  ProcsGo /\ DOMAIN procs' = DOMAIN procs /\ procs'[n].pc = pc
<1>1. PICK q \in ProcStates : q = procs[n] BY ServerFacts
<1>2. PICK p : p = [q EXCEPT !.pc = pc] OBVIOUS
<1>3. procs' = [procs EXCEPT ![n] = p] /\ p \in ProcStates /\ p.pc = pc
  BY <1>1, <1>2 DEF ProcAt, ProcStates
<1> QED BY <1>1, <1>2, <1>3, ProcsChange

LEMMA ProcStarts ==
  ASSUME ServerTyped, NEW by \in {"person", "open"}, procs' = Append(procs, Starting(by))
  PROVE  ProcsGo /\ Len(procs) + 1 \in DOMAIN procs' /\ DOMAIN procs \subseteq DOMAIN procs'
<1>1. PICK p \in ProcStates : p = Starting(by) BY DEF Starting, ProcStates
<1>2. procs \in Seq(ProcStates) /\ procs' = Append(procs, p) BY <1>1 DEF ServerTyped
<1>3. /\ procs' \in Seq(ProcStates) /\ Len(procs') = Len(procs) + 1
      /\ \A m \in DOMAIN procs : procs'[m] = procs[m]
      /\ DOMAIN procs = 1..Len(procs) /\ DOMAIN procs' = 1..(Len(procs) + 1)
  BY <1>2
<1>4. DOMAIN procs \subseteq DOMAIN procs' /\ Len(procs) + 1 \in DOMAIN procs' BY <1>3
<1> QED BY <1>3, <1>4 DEF ProcsGo, HasServed

\* A step that leaves the command alone.
LEMMA ServerKeeps ==
  ASSUME ServerInv, ProcsGo, command' = command, root' \in Nat,
         receipt' \in BridgeReceipts \cup {NoReceipt},
         NEW m, receipt' \notin {NoReceipt, Garbled, receipt} => receipt'.pid = m /\ HasServed(m)'
  PROVE  ServerInv'
<1>1. ServerTyped' BY DEF ServerInv, ServerTyped, ProcsGo
<1>2. \A n : HasServed(n) => HasServed(n)' BY DEF ProcsGo, HasServed
<1>3. ReceiptsNamed' BY <1>2 DEF ServerInv, ReceiptsNamed, Garbled
<1>4. CommandPlaced' BY DEF ServerInv, CommandPlaced, ProcsGo
<1>5. StopJudged' BY DEF ServerInv, StopJudged, ReceiptsNamed, ProcsGo, HasServed
<1> QED BY <1>1, <1>3, <1>4, <1>5 DEF ServerInv

\* A step of the command.
LEMMA CommandGoes ==
  ASSUME ServerInv, ProcsGo, command' \in Commands, root' = root,
         receipt' \in {receipt, NoReceipt},
         command'.seen \in {command.seen, NoReceipt} \/ HasServed(command'.seen.pid),
         CommandPlaced', StopJudged'
  PROVE  ServerInv'
<1>1. ServerTyped' BY DEF ServerInv, ServerTyped, ProcsGo
<1>2. \A n : HasServed(n) => HasServed(n)' BY DEF ProcsGo, HasServed
<1>3. ReceiptsNamed' BY <1>2 DEF ServerInv, ReceiptsNamed, Garbled
<1> QED BY <1>1, <1>3 DEF ServerInv

LEMMA SaidIs ==
  ASSUME command \in Commands, NEW says \in {"nothing", "working", "unavailable", "running", "refused",
                                            "not running", "failed", "died"}
  PROVE  /\ Ends(says) => /\ command' \in Commands /\ command'.pc = "idle" /\ command'.says = says
                          /\ command'.seen = command.seen /\ command'.kind = command.kind
         /\ NoCommand(says) \in Commands /\ NoCommand(says).pc = "idle" /\ NoCommand(says).says = says
         /\ NoCommand(says).kind = "none" /\ NoCommand(says).seen = NoReceipt
<1>1. PICK c : c = NoCommand(says) OBVIOUS
<1>2. c \in Commands /\ c.pc = "idle" /\ c.says = says /\ c.kind = "none" /\ c.seen = NoReceipt
  BY <1>1 DEF NoCommand, Commands
<1>3. Ends(says) => command' = [c EXCEPT !.seen = command.seen, !.kind = command.kind]
  BY <1>1 DEF Ends
<1> QED BY <1>1, <1>2, <1>3 DEF Commands

LEMMA ThenIs ==
  ASSUME command \in Commands, NEW pc \in {"absent", "probe", "remove", "unlink", "wait", "signal", "stopped"},
         Then(pc)
  PROVE  /\ command' \in Commands /\ command'.pc = pc /\ command'.says = command.says
         /\ command'.seen = command.seen /\ command'.kind = command.kind
BY DEF Then, Commands

\* A command that ends with another answer than "not running".
LEMMA EndsServerInv ==
  ASSUME ServerInv, ProcsGo, root' = root, receipt' \in {receipt, NoReceipt},
         NEW says \in {"unavailable", "running", "refused", "failed", "died"},
         Ends(says) \/ command' = NoCommand(says)
  PROVE  ServerInv'
<1>1. /\ command' \in Commands /\ command'.pc = "idle" /\ command'.says = says
      /\ command'.seen \in {command.seen, NoReceipt}
  <2>1. command \in Commands BY DEF ServerInv, ServerTyped
  <2>2. CASE Ends(says) BY <2>1, <2>2, SaidIs
  <2>3. CASE command' = NoCommand(says) BY <2>1, <2>3, SaidIs
  <2> QED BY <2>2, <2>3
<1>2. CommandPlaced' /\ StopJudged' BY <1>1 DEF CommandPlaced, StopJudged
<1> QED BY <1>1, <1>2, CommandGoes

LEMMA ProcessStepInv ==
  ASSUME ServerInv, NEW n \in DOMAIN procs,
         BindServer(n) \/ WriteState(n) \/ Interrupt(n) \/ Close(n) \/ ProcessMoves(n)
  PROVE  ServerInv'
<1>1. ServerTyped /\ root \in Nat /\ receipt \in BridgeReceipts \cup {NoReceipt} /\ n \in Nat
  BY ServerFacts DEF ServerInv, ServerTyped
<1>2. PICK q \in ProcStates : q = procs[n] BY <1>1, ServerFacts
<1>3. q.root \in Nat /\ q.mute \in BOOLEAN /\ q.by \in {"person", "open"} BY DEF ProcStates
<1>4. command' = command /\ root' = root
  BY DEF BindServer, WriteState, Interrupt, Close, ProcessMoves
<1>5. CASE BindServer(n)
  <2>1. receipt' = receipt BY <1>5 DEF BindServer
  <2>2. ProcsGo
    <3>1. CASE procs' = [procs EXCEPT ![n].pc = "bound", ![n].root = root]
      <4>1. PICK p : p = [q EXCEPT !.pc = "bound", !.root = root] OBVIOUS
      <4>2. procs' = [procs EXCEPT ![n] = p] /\ p \in ProcStates /\ p.pc = "bound"
        BY <1>1, <1>2, <3>1, <4>1 DEF ProcStates
      <4>3. procs[n].pc = "starting" BY <1>5 DEF BindServer
      <4> QED BY <1>1, <4>1, <4>2, <4>3, ProcsChange
    <3>2. CASE ProcAt(n, "dead") BY <1>1, <3>2, ProcAtIs
    <3> QED BY <1>5, <3>1, <3>2 DEF BindServer
  <2> QED BY <1>1, <1>4, <2>1, <2>2, ServerKeeps
<1>6. CASE WriteState(n)
  <2>1. procs[n].pc = "bound" /\ ProcAt(n, "serving") /\ receipt' = [pid |-> n, root |-> procs[n].root]
    BY <1>6 DEF WriteState
  <2>2. ProcsGo /\ DOMAIN procs' = DOMAIN procs /\ procs'[n].pc = "serving"
    BY <1>1, <2>1, ProcAtIs
  <2>3. receipt' \in BridgeReceipts /\ receipt'.pid = n
    BY <1>1, <1>2, <1>3, <2>1 DEF BridgeReceipts
  <2>4. HasServed(n)' BY <2>2 DEF HasServed
  <2> QED BY <1>1, <1>4, <2>2, <2>3, <2>4, ServerKeeps
<1>7. CASE Interrupt(n) \/ Close(n)
  <2>1. receipt' \in {receipt, NoReceipt} /\ (ProcAt(n, "closing") \/ ProcAt(n, "dead"))
    BY <1>7 DEF Interrupt, Close
  <2>2. ProcsGo BY <1>1, <2>1, ProcAtIs
  <2> QED BY <1>1, <1>4, <2>1, <2>2, ServerKeeps
<1>8. CASE ProcessMoves(n)
  <2>1. /\ receipt' = receipt
        /\ \/ ProcAt(n, "dead")
           \/ procs[n].pc = "serving" /\ procs' = [procs EXCEPT ![n].mute = ~@]
           \/ ProcAt(n, "foreign")
    BY <1>8 DEF ProcessMoves
  <2>2. CASE ProcAt(n, "dead") \/ ProcAt(n, "foreign")
    <3>1. ProcsGo BY <1>1, <2>2, ProcAtIs
    <3> QED BY <1>1, <1>4, <2>1, <3>1, ServerKeeps
  <2>3. CASE procs[n].pc = "serving" /\ procs' = [procs EXCEPT ![n].mute = ~@]
    <3>1. PICK b \in BOOLEAN : b = ~q.mute BY <1>3
    <3>2. PICK p : p = [q EXCEPT !.mute = b] OBVIOUS
    <3>3. procs' = [procs EXCEPT ![n] = p] /\ p \in ProcStates /\ p.pc = q.pc
      BY <1>2, <2>3, <3>1, <3>2 DEF ProcStates
    <3>4. ProcsGo
      <4>1. p.pc = "serving" /\ procs[n].pc = "serving" BY <1>2, <2>3, <3>3
      <4> QED BY <1>1, <3>3, <4>1, ProcsChange
    <3> QED BY <1>1, <1>4, <2>1, <3>4, ServerKeeps
  <2> QED BY <2>1, <2>2, <2>3
<1> QED BY <1>5, <1>6, <1>7, <1>8

LEMMA QuietServerInv ==
  ASSUME ServerInv, ServeManually \/ BeginCommand \/ Replaced
  PROVE  ServerInv'
<1>1. ServerTyped /\ root \in Nat /\ receipt \in BridgeReceipts \cup {NoReceipt} /\ command \in Commands
  BY DEF ServerInv, ServerTyped
<1>2. CASE ServeManually
  <2>1. /\ procs' = Append(procs, Starting("person")) /\ receipt' = receipt /\ command' = command
        /\ root' = root
    BY <1>2 DEF ServeManually
  <2>2. ProcsGo BY <1>1, <2>1, ProcStarts
  <2> QED BY <1>1, <2>1, <2>2, ServerKeeps
<1>3. CASE BeginCommand
  <2>1. PICK kind \in {"open", "stop", "status"} :
               command' = [NoCommand("working") EXCEPT !.kind = kind, !.pc = "load"]
    BY <1>3 DEF BeginCommand
  <2>2. procs' = procs /\ receipt' = receipt /\ root' = root BY <1>3 DEF BeginCommand
  <2>3. PICK c : c = NoCommand("working") OBVIOUS
  <2>4. c \in Commands /\ c.says = "working" /\ c.seen = NoReceipt BY <1>1, <2>3, SaidIs
  <2>5. /\ command' \in Commands /\ command'.pc = "load" /\ command'.says = "working"
        /\ command'.seen = NoReceipt /\ command'.kind = kind
    BY <2>1, <2>3, <2>4 DEF Commands
  <2>6. CommandPlaced' /\ StopJudged' BY <2>5 DEF CommandPlaced, StopJudged
  <2> QED BY <1>1, <2>2, <2>5, <2>6, ProcsStay, CommandGoes
<1>4. CASE Replaced
  <2>1. /\ procs' = procs /\ command' = command /\ root' \in Nat
        /\ receipt' = receipt \/ receipt' = Garbled
    BY <1>1, <1>4 DEF Replaced
  <2>2. receipt' \in BridgeReceipts \cup {NoReceipt} BY <1>1, <2>1 DEF Garbled, BridgeReceipts
  <2> QED BY <1>1, <2>1, <2>2, ProcsStay, ServerKeeps
<1> QED BY <1>2, <1>3, <1>4

\* A command that goes on, with what it needs to know at its next step.
LEMMA ThenInv ==
  ASSUME ServerInv, ProcsGo, root' = root, receipt' \in {receipt, NoReceipt}, command.pc # "idle",
         NEW pc \in {"absent", "probe", "remove", "unlink", "signal", "stopped"}, Then(pc),
         pc # "absent" => command.seen # NoReceipt,
         pc = "signal" => command.kind = "stop",
         command.kind = "stop" /\ command.seen # NoReceipt /\ pc # "signal" /\ pc # "probe"
           => procs'[command.seen.pid].pc # "serving"
  PROVE  ServerInv'
<1>1. command \in Commands /\ command.says # "not running" /\ command.kind # "none"
  BY DEF ServerInv, ServerTyped, CommandPlaced
<1>2. /\ command' \in Commands /\ command'.pc = pc /\ command'.says = command.says
      /\ command'.seen = command.seen /\ command'.kind = command.kind
  BY <1>1, ThenIs
<1>3. CommandPlaced' BY <1>1, <1>2 DEF CommandPlaced
<1>4. StopJudged' BY <1>1, <1>2 DEF StopJudged
<1> QED BY <1>2, <1>3, <1>4, CommandGoes

LEMMA LoadStateInv ==
  ASSUME ServerInv, LoadState
  PROVE  ServerInv'
<1>1. /\ ServerTyped /\ command \in Commands /\ command.says # "not running" /\ command.kind # "none"
      /\ receipt \in BridgeReceipts \cup {NoReceipt} /\ command.pc = "load"
      /\ procs' = procs /\ root' = root /\ ProcsGo
  BY ProcsStay DEF LoadState, ServerInv, ServerTyped, CommandPlaced
<1>2. CASE receipt = Garbled
  <2>1. receipt' = NoReceipt /\ command' = [command EXCEPT !.pc = "absent", !.seen = NoReceipt]
    BY <1>2 DEF LoadState
  <2>2. /\ command' \in Commands /\ command'.pc = "absent" /\ command'.seen = NoReceipt
        /\ command'.says = command.says /\ command'.kind = command.kind
    BY <1>1, <2>1 DEF Commands
  <2>3. CommandPlaced' /\ StopJudged' BY <1>1, <2>2 DEF CommandPlaced, StopJudged
  <2> QED BY <1>1, <2>1, <2>2, <2>3, CommandGoes
<1>3. CASE receipt # Garbled
  <2>1. PICK st \in {"absent", "probe"} : st = IF receipt = NoReceipt THEN "absent" ELSE "probe"
    OBVIOUS
  <2>2. receipt' = receipt /\ command' = [command EXCEPT !.seen = receipt, !.pc = st]
    BY <1>3, <2>1 DEF LoadState
  <2>3. /\ command' \in Commands /\ command'.pc = st /\ command'.seen = receipt
        /\ command'.says = command.says /\ command'.kind = command.kind
    BY <1>1, <2>2 DEF Commands
  <2>4. CommandPlaced' /\ StopJudged' BY <1>1, <2>1, <2>3 DEF CommandPlaced, StopJudged
  <2>5. receipt # NoReceipt => HasServed(receipt.pid) BY <1>3 DEF ServerInv, ReceiptsNamed
  <2> QED BY <1>1, <2>2, <2>3, <2>4, <2>5, CommandGoes
<1> QED BY <1>2, <1>3

LEMMA ProbeInv ==
  ASSUME ServerInv, Probe
  PROVE  ServerInv'
<1>1. /\ ServerTyped /\ command.pc = "probe" /\ procs' = procs /\ receipt' = receipt /\ root' = root
      /\ command.seen # NoReceipt /\ ProcsGo
  BY ProcsStay DEF Probe, ServerInv, CommandPlaced
<1>2. PICK n : n = command.seen.pid OBVIOUS
<1>3. HasServed(n) /\ procs[n] \in ProcStates
  BY <1>1, <1>2, ServerFacts DEF ServerInv, ReceiptsNamed, HasServed
<1>4. Judged(n) = "stale" => procs[n].pc # "serving"
  <2> SUFFICES ASSUME procs[n].pc = "serving" PROVE Judged(n) # "stale"
    OBVIOUS
  <2>1. PidAlive(n) /\ (Health(n) = "response" \/ Health(n) = "unavailable")
    BY DEF PidAlive, Health
  <2> QED BY <2>1 DEF Judged
<1>5. \/ Ends("unavailable") \/ Ends("running") \/ Ends("refused")
      \/ Judged(n) = "stale" /\ Then("remove")
      \/ command.kind = "stop" /\ Then("signal")
  <2>1. Judged(n) \in {"unavailable", "running", "stale"} BY DEF Judged
  <2>2. CASE Judged(n) = "unavailable" BY <1>2, <2>2 DEF Probe
  <2>3. CASE Judged(n) = "stale" BY <1>2, <2>3 DEF Probe
  <2>4. CASE Judged(n) = "running"
    <3>1. command.kind \in {"open", "stop", "status"}
      BY <1>1 DEF ServerInv, ServerTyped, Commands, CommandPlaced
    <3>2. CASE command.kind = "stop" BY <1>2, <2>4, <3>2 DEF Probe
    <3>3. CASE command.kind = "status" BY <1>2, <2>4, <3>3 DEF Probe
    <3>4. CASE command.kind = "open" BY <1>2, <2>4, <3>4 DEF Probe
    <3> QED BY <3>1, <3>2, <3>3, <3>4
  <2> QED BY <2>1, <2>2, <2>3, <2>4
<1>6. CASE Ends("unavailable") \/ Ends("running") \/ Ends("refused")
  BY <1>1, <1>6, EndsServerInv
<1>7. CASE Judged(n) = "stale" /\ Then("remove")
  <2>1. procs'[command.seen.pid].pc # "serving" BY <1>1, <1>2, <1>4, <1>7
  <2> QED BY <1>1, <1>7, <2>1, ThenInv
<1>8. CASE command.kind = "stop" /\ Then("signal") BY <1>1, <1>8, ThenInv
<1> QED BY <1>5, <1>6, <1>7, <1>8

LEMMA RemoveInv ==
  ASSUME ServerInv, RereadReceipt \/ Unlink
  PROVE  ServerInv'
<1>1. /\ ServerTyped /\ command.pc \in {"remove", "unlink"} /\ procs' = procs /\ root' = root
      /\ receipt' \in {receipt, NoReceipt} /\ command.seen # NoReceipt /\ ProcsGo
      /\ Then("unlink") \/ Then("absent")
  BY ProcsStay DEF RereadReceipt, Unlink, ServerInv, CommandPlaced
<1>2. command.kind = "stop" => procs'[command.seen.pid].pc # "serving"
  BY <1>1 DEF ServerInv, StopJudged
<1> QED BY <1>1, <1>2, ThenInv

\* "Not running" is said where the judgement of the process, or its end, led to.
LEMMA NotRunningInv ==
  ASSUME ServerInv, procs' = procs, root' = root, receipt' \in {receipt, NoReceipt},
         command.pc \in {"absent", "stopped"}, Ends("not running")
  PROVE  ServerInv'
<1>1. ServerTyped /\ command \in Commands BY DEF ServerInv, ServerTyped
<1>2. /\ command' \in Commands /\ command'.pc = "idle" /\ command'.says = "not running"
      /\ command'.seen = command.seen /\ command'.kind = command.kind
  BY <1>1, SaidIs
<1>3. CommandPlaced' /\ StopJudged' BY <1>2 DEF ServerInv, CommandPlaced, StopJudged
<1> QED BY <1>1, <1>2, <1>3, ProcsStay, CommandGoes

LEMMA ConcludeInv ==
  ASSUME ServerInv, Conclude \/ Stopped
  PROVE  ServerInv'
<1>1. ServerTyped /\ command \in Commands BY DEF ServerInv, ServerTyped
<1>2. CASE Ends("not running")
  <2>1. /\ procs' = procs /\ root' = root /\ receipt' \in {receipt, NoReceipt}
        /\ command.pc \in {"absent", "stopped"}
    <3>1. CASE Stopped BY <3>1 DEF Stopped
    <3>2. CASE Conclude
      <4>1. ~(command' = [command EXCEPT !.pc = "wait", !.child = Len(procs) + 1])
        BY <1>1, <1>2, SaidIs DEF Commands
      <4> QED BY <3>2, <4>1 DEF Conclude
    <3> QED BY <3>1, <3>2
  <2> QED BY <1>2, <2>1, NotRunningInv
<1>3. CASE Conclude /\ ~Ends("not running")
  <2>1. /\ receipt' = NoReceipt /\ procs' = Append(procs, Starting("open"))
        /\ command' = [command EXCEPT !.pc = "wait", !.child = Len(procs) + 1] /\ root' = root
        /\ command.pc = "absent" /\ command.kind = "open"
    BY <1>3 DEF Conclude
  <2>2. ProcsGo /\ Len(procs) + 1 \in DOMAIN procs' BY <1>1, <2>1, ProcStarts
  <2>3. PICK n \in Nat : n = Len(procs) + 1 BY <1>1, ServerFacts
  <2>4. command' = [command EXCEPT !.pc = "wait", !.child = n] BY <2>1, <2>3
  <2>5. /\ command' \in Commands /\ command'.pc = "wait" /\ command'.says = command.says
        /\ command'.seen = command.seen /\ command'.kind = "open" /\ command'.child = n
    BY <1>1, <2>1, <2>4 DEF Commands
  <2>6. CommandPlaced' /\ StopJudged'
    BY <2>1, <2>2, <2>3, <2>5 DEF ServerInv, CommandPlaced, StopJudged
  <2> QED BY <2>1, <2>2, <2>5, <2>6, CommandGoes
<1> QED BY <1>2, <1>3 DEF Stopped

LEMMA SignalInv ==
  ASSUME ServerInv, Signal \/ SignalIgnored
  PROVE  ServerInv'
<1>1. /\ ServerTyped /\ command.pc = "signal" /\ receipt' = receipt /\ root' = root
      /\ command.seen # NoReceipt
  BY DEF Signal, SignalIgnored, ServerInv, CommandPlaced
<1>2. CASE SignalIgnored
  <2>1. procs' = procs /\ Ends("unavailable") BY <1>2 DEF SignalIgnored
  <2> QED BY <1>1, <2>1, ProcsStay, EndsServerInv
<1>3. CASE Signal
  <2>1. PICK n : n = command.seen.pid OBVIOUS
  <2>2. n \in DOMAIN procs BY <1>1, <2>1 DEF ServerInv, ReceiptsNamed, HasServed
  <2>3. ProcAt(n, "dead") /\ Then("stopped") BY <1>3, <2>1 DEF Signal
  <2>4. ProcsGo /\ procs'[n].pc = "dead" BY <1>1, <2>2, <2>3, ProcAtIs
  <2> QED BY <1>1, <2>1, <2>3, <2>4, ThenInv
<1> QED BY <1>2, <1>3

LEMMA AwaitStateInv ==
  ASSUME ServerInv, AwaitState
  PROVE  ServerInv'
<1>1. /\ ServerTyped /\ command.child \in DOMAIN procs /\ root' = root
      /\ receipt' \in {receipt, NoReceipt}
      /\ Ends("running") \/ Ends("failed")
      /\ procs' = procs \/ ProcAt(command.child, "dead")
  BY DEF AwaitState, ServerInv, CommandPlaced
<1>2. ProcsGo BY <1>1, ProcsStay, ProcAtIs
<1> QED BY <1>1, <1>2, EndsServerInv

LEMMA CommandDiesInv ==
  ASSUME ServerInv, CommandDies
  PROVE  ServerInv'
<1>1. ServerTyped /\ procs' = procs /\ receipt' = receipt /\ root' = root /\ command' = NoCommand("died")
  BY DEF CommandDies, ServerInv
<1> QED BY <1>1, ProcsStay, EndsServerInv

----------------------------------------
(* The Bridge server: the requests *)

LEMMA RequestFacts ==
  ASSUME RequestsTyped
  PROVE  /\ Len(queue) \in Nat /\ DOMAIN queue = 1..Len(queue)
         /\ \A i \in DOMAIN queue : queue[i] \in ServerAnswers
         /\ \A t \in Tabs : /\ tabs[t] \in Pages /\ tabs[t].rev \in Nat /\ tabs[t].at \in Nat
                            /\ tabs[t].step \in Nat /\ tabs[t].server \in Nat
         /\ Pending \subseteq DOMAIN queue
<1>1. queue \in Seq(ServerAnswers) BY DEF RequestsTyped
<1>2. \A t \in Tabs : tabs[t] \in Pages BY DEF RequestsTyped
<1> QED BY <1>1, <1>2 DEF Pages, Pending

\* The queue, the vault and the pages are left alone.
LEMMA RequestsStay ==
  ASSUME RequestsInv, DOMAIN procs \subseteq DOMAIN procs', UNCHANGED <<root, qvars>>
  PROVE  RequestsInv'
<1>1. /\ review' = review /\ queue' = queue /\ tabs' = tabs /\ root' = root BY DEF qvars
<1>2. RequestsTyped' BY <1>1 DEF RequestsInv, RequestsTyped
<1>3. Pending' = Pending BY <1>1 DEF Pending
<1> QED BY <1>1, <1>2, <1>3 DEF RequestsInv, PagesBehind, StillOpen, AnsweredOnce, Subject

\* A page that moves: it reloads, or goes on with what it has seen.
LEMMA PageMoves ==
  ASSUME RequestsInv, NEW t \in Tabs, NEW p \in Pages, tabs' = [tabs EXCEPT ![t] = p],
         UNCHANGED <<lvars, root, review, queue>>,
         p.pc # "idle" => p.seen \in Reviews,
         p.server # 0 => p.server \in DOMAIN procs,
         p.at <= root, p.at = root => p.rev <= Len(queue),
         p.pc = "validated" => \A i \in Pending : queue[i].subject # Subject(p.seen)
  PROVE  RequestsInv'
<1>1. review' = review /\ queue' = queue /\ root' = root /\ procs' = procs /\ Pending' = Pending
  BY DEF lvars, Pending
<1>2. /\ tabs' \in [Tabs -> Pages]
      /\ \A u \in Tabs : tabs'[u] = IF u = t THEN p ELSE tabs[u]
  BY DEF RequestsInv, RequestsTyped
<1>3. RequestsTyped' BY <1>1, <1>2 DEF RequestsInv, RequestsTyped
<1>4. PagesBehind' BY <1>1, <1>2 DEF RequestsInv, PagesBehind
<1>5. StillOpen'
  <2> SUFFICES ASSUME NEW u \in Tabs, tabs'[u].pc = "validated", tabs'[u].at = root,
                      tabs'[u].rev = Len(queue), NEW i \in Pending
               PROVE  queue[i].subject # Subject(tabs'[u].seen)
    BY <1>1 DEF StillOpen, Subject
  <2>1. CASE u = t BY <1>2, <2>1
  <2>2. CASE u # t BY <1>2, <2>2 DEF RequestsInv, StillOpen
  <2> QED BY <2>1, <2>2
<1>6. AnsweredOnce' BY <1>1 DEF RequestsInv, AnsweredOnce
<1> QED BY <1>3, <1>4, <1>5, <1>6 DEF RequestsInv

LEMMA ReloadInv ==
  ASSUME ServerInv, RequestsInv, NEW t \in Tabs, Reload(t) \/ RequestLost(t)
  PROVE  RequestsInv'
<1>1. RequestsTyped /\ root \in Nat /\ Len(queue) \in Nat /\ review.step \in Nat
  BY RequestFacts DEF ServerInv, ServerTyped, RequestsInv, RequestsTyped, Reviews
<1>2. UNCHANGED <<lvars, root, review, queue>> BY DEF Reload, RequestLost
<1>3. PICK b : b = NoPage OBVIOUS
<1>4. b \in Pages /\ b.pc = "idle" /\ b.at = 0 /\ b.rev = 0 /\ b.server = 0
  BY <1>3 DEF NoPage, Pages
<1>5. CASE RequestLost(t)
  <2>1. tabs' = [tabs EXCEPT ![t] = b] BY <1>3, <1>5 DEF RequestLost
  <2>2. b.at <= root /\ b.rev <= Len(queue) BY <1>1, <1>4
  <2> QED BY <1>2, <1>4, <2>1, <2>2, PageMoves
<1>6. CASE Reload(t)
  <2>1. PICK n \in DOMAIN procs :
               tabs' = [tabs EXCEPT ![t] = [NoPage EXCEPT !.rev = Len(queue), !.step = review.step,
                                                          !.at = root, !.server = n]]
    BY <1>6 DEF Reload, Shown
  <2>2. n \in Nat BY ServerFacts DEF ServerInv
  <2>3. PICK p : p = [b EXCEPT !.rev = Len(queue), !.step = review.step, !.at = root, !.server = n]
    OBVIOUS
  <2>4. /\ p \in Pages /\ p.pc = "idle" /\ p.rev = Len(queue) /\ p.at = root /\ p.server = n
    BY <1>1, <1>4, <2>2, <2>3 DEF Pages
  <2>5. tabs' = [tabs EXCEPT ![t] = p] BY <1>3, <2>1, <2>3
  <2>6. p.at <= root /\ p.rev <= Len(queue) BY <1>1, <2>4
  <2> QED BY <1>2, <2>4, <2>5, <2>6, PageMoves
<1> QED BY <1>5, <1>6

LEMMA PostInv ==
  ASSUME ServerInv, RequestsInv, NEW t \in Tabs, Post(t) \/ ReadOperations(t)
  PROVE  RequestsInv'
<1>1. RequestsTyped /\ review \in Reviews BY DEF RequestsInv, RequestsTyped
<1>2. UNCHANGED <<lvars, root, review, queue>> BY DEF Post, ReadOperations
<1>3. PICK q : q = tabs[t] OBVIOUS
<1>4. /\ q \in Pages /\ (q.pc # "idle" => q.seen \in Reviews)
      /\ (q.server # 0 => q.server \in DOMAIN procs)
      /\ q.at <= root /\ (q.at = root => q.rev <= Len(queue))
  BY <1>1, <1>3, RequestFacts DEF RequestsInv, RequestsTyped, PagesBehind
<1>5. CASE Post(t)
  <2>1. tabs' = [tabs EXCEPT ![t].pc = "snapshot", ![t].seen = review] BY <1>5 DEF Post, Shown
  <2>2. PICK p : p = [q EXCEPT !.pc = "snapshot", !.seen = review] OBVIOUS
  <2>3. /\ p \in Pages /\ p.pc = "snapshot" /\ p.seen = review /\ p.server = q.server
        /\ p.at = q.at /\ p.rev = q.rev
    BY <1>1, <1>4, <2>2 DEF Pages
  <2>4. tabs' = [tabs EXCEPT ![t] = p] BY <1>1, <1>3, <2>1, <2>2 DEF RequestsTyped
  <2> QED BY <1>1, <1>2, <1>4, <2>3, <2>4, PageMoves
<1>6. CASE ReadOperations(t)
  <2>1. PICK st \in {"validated", "idle"} :
             st = IF SameVault(tabs[t].server) /\ Validated(t) THEN "validated" ELSE "idle"
    OBVIOUS
  <2>2. tabs' = [tabs EXCEPT ![t].pc = st] /\ tabs[t].pc = "snapshot"
    BY <1>6, <2>1 DEF ReadOperations
  <2>3. PICK p : p = [q EXCEPT !.pc = st] OBVIOUS
  <2>4. /\ p \in Pages /\ p.pc = st /\ p.seen = q.seen /\ p.server = q.server
        /\ p.at = q.at /\ p.rev = q.rev
    BY <1>4, <2>3 DEF Pages
  <2>5. tabs' = [tabs EXCEPT ![t] = p] BY <1>1, <1>3, <2>2, <2>3 DEF RequestsTyped
  <2>6. p.pc = "validated" => \A i \in Pending : queue[i].subject # Subject(p.seen)
    BY <1>3, <2>1, <2>4 DEF Validated
  <2>7. p.pc # "idle" => p.seen \in Reviews BY <1>3, <1>4, <2>2, <2>4
  <2> QED BY <1>2, <1>4, <2>4, <2>5, <2>6, <2>7, PageMoves
<1> QED BY <1>5, <1>6

\* The answer that is appended is the only one to its question, and in the vault that its page
\* was shown from.
LEMMA AppendControlInv ==
  ASSUME ServerInv, RequestsInv, NEW t \in Tabs, AppendControl(t)
  PROVE  RequestsInv'
<1>1. RequestsTyped /\ PagesBehind /\ StillOpen /\ AnsweredOnce /\ root \in Nat
  BY DEF RequestsInv, ServerInv, ServerTyped
<1>2. /\ tabs[t].pc = "validated" /\ tabs' = [tabs EXCEPT ![t].pc = "idle"]
      /\ UNCHANGED <<lvars, root, review>> /\ procs' = procs
  BY DEF AppendControl, lvars
<1>3. PICK q : q = tabs[t] OBVIOUS
<1>4. PICK p : p = [q EXCEPT !.pc = "idle"] OBVIOUS
<1>5. /\ q \in Pages /\ q.seen \in Reviews /\ (q.server # 0 => q.server \in DOMAIN procs)
      /\ q.pc = "validated"
  BY <1>1, <1>2, <1>3, RequestFacts DEF RequestsTyped
<1>6. /\ p \in Pages /\ p.pc = "idle" /\ p.at = q.at /\ p.rev = q.rev /\ p.server = q.server
      /\ tabs' = [tabs EXCEPT ![t] = p]
  BY <1>1, <1>2, <1>3, <1>4, <1>5 DEF Pages, RequestsTyped
<1>7. CASE ~QueueAsKnown(t)
  <2>1. queue' = queue BY <1>7 DEF AppendControl
  <2>2. p.at <= root /\ (p.at = root => p.rev <= Len(queue)) BY <1>1, <1>3, <1>6 DEF PagesBehind
  <2> QED BY <1>2, <1>5, <1>6, <2>1, <2>2, PageMoves
<1>8. CASE QueueAsKnown(t)
  <2>1. q.rev = Len(queue) /\ q.at = root /\ procs[q.server].root = root
    BY <1>3, <1>8 DEF QueueAsKnown, SameVault
  <2>2. PICK e : e = Event(Subject(q.seen), q.step, root) OBVIOUS
  <2>3. queue' = Append(queue, e) BY <1>3, <1>8, <2>1, <2>2 DEF AppendControl
  <2>4. /\ e \in ServerAnswers /\ e.subject = Subject(q.seen) /\ e.by = root /\ ~e.decided
    <3>1. q.seen.session \in Nat /\ q.step \in Nat BY <1>5 DEF Reviews, Pages
    <3>2. Subject(q.seen) \in Nat BY <3>1 DEF Subject
    <3> QED BY <1>1, <2>2, <3>1, <3>2 DEF Event, ServerAnswers
  <2>5. queue \in Seq(ServerAnswers) /\ Len(queue) \in Nat /\ DOMAIN queue = 1..Len(queue)
    BY <1>1, RequestFacts DEF RequestsTyped
  <2>6. /\ queue' \in Seq(ServerAnswers) /\ Len(queue') = Len(queue) + 1
        /\ DOMAIN queue' = DOMAIN queue \cup {Len(queue) + 1}
        /\ Len(queue) + 1 \notin DOMAIN queue
        /\ queue'[Len(queue) + 1] = e
        /\ \A i \in DOMAIN queue : queue'[i] = queue[i]
    BY <2>3, <2>4, <2>5
  <2>7. Pending' = Pending \cup {Len(queue) + 1} BY <2>4, <2>6 DEF Pending
  <2>8. /\ tabs' \in [Tabs -> Pages]
        /\ \A u \in Tabs : tabs'[u] = IF u = t THEN p ELSE tabs[u]
    BY <1>1, <1>6 DEF RequestsTyped
  <2>9. RequestsTyped' BY <1>1, <1>2, <1>5, <1>6, <2>6, <2>8 DEF RequestsTyped
  <2>10. \A u \in Tabs : tabs'[u].at <= root /\ (tabs'[u].at = root => tabs'[u].rev < Len(queue'))
    <3> SUFFICES ASSUME NEW u \in Tabs
                 PROVE  tabs'[u].at <= root /\ (tabs'[u].at = root => tabs'[u].rev < Len(queue'))
      OBVIOUS
    <3>1. /\ tabs[u].at <= root /\ (tabs[u].at = root => tabs[u].rev <= Len(queue))
          /\ tabs[u].rev \in Nat
      BY <1>1, RequestFacts DEF PagesBehind
    <3>2. tabs'[u].at = tabs[u].at /\ tabs'[u].rev = tabs[u].rev BY <1>3, <1>6, <2>8
    <3> QED BY <2>5, <2>6, <3>1, <3>2
  <2>11. \A u \in Tabs : tabs'[u].rev \in Nat BY <2>8 DEF Pages
  <2>12. PagesBehind' /\ StillOpen' BY <1>2, <2>5, <2>6, <2>10, <2>11 DEF PagesBehind, StillOpen
  <2>13. \A i \in Pending : queue[i].subject # e.subject
    BY <1>1, <1>2, <1>3, <2>1, <2>4 DEF StillOpen
  <2>14. \A i \in Pending : i \in DOMAIN queue BY DEF Pending
  <2>15. \A i, j \in Pending' : queue'[i].subject = queue'[j].subject => i = j
    BY <1>1, <2>6, <2>7, <2>13, <2>14 DEF AnsweredOnce
  <2>16. \A i \in DOMAIN queue' : queue'[i].by = root'
    BY <1>1, <1>2, <2>4, <2>6 DEF AnsweredOnce
  <2>17. AnsweredOnce' BY <2>15, <2>16 DEF AnsweredOnce
  <2> QED BY <2>9, <2>12, <2>17 DEF RequestsInv
<1> QED BY <1>7, <1>8

LEMMA DecideInv ==
  ASSUME ServerInv, RequestsInv, Decide
  PROVE  RequestsInv'
<1>1. RequestsTyped /\ PagesBehind /\ StillOpen /\ AnsweredOnce /\ review \in Reviews
  BY DEF RequestsInv, RequestsTyped
<1>2. PICK i \in Pending, s \in {"available", "active", "paused"} :
        /\ queue' = [queue EXCEPT ![i].decided = TRUE]
        /\ review' = [state |-> s, step |-> review.step + 1,
                      session |-> IF review.state = "available" THEN review.step ELSE review.session]
  BY DEF Decide
<1>3. procs' = procs /\ root' = root /\ tabs' = tabs BY DEF Decide, lvars
<1>4. queue \in Seq(ServerAnswers) /\ i \in DOMAIN queue /\ DOMAIN queue = 1..Len(queue)
  BY <1>1, RequestFacts DEF RequestsTyped
<1>5. PICK q : q = queue[i] OBVIOUS
<1>6. PICK e : e = [q EXCEPT !.decided = TRUE] OBVIOUS
<1>7. e \in ServerAnswers /\ e.subject = q.subject /\ e.by = q.by /\ e.decided
  <2>1. q \in ServerAnswers BY <1>1, <1>4, <1>5, RequestFacts
  <2> QED BY <1>6, <2>1 DEF ServerAnswers
<1>8. queue' = [queue EXCEPT ![i] = e] BY <1>2, <1>5, <1>6
<1>9. /\ queue' \in Seq(ServerAnswers) /\ Len(queue') = Len(queue) /\ DOMAIN queue' = DOMAIN queue
      /\ \A j \in DOMAIN queue : queue'[j] = IF j = i THEN e ELSE queue[j]
  BY <1>4, <1>7, <1>8
<1>10. /\ \A j \in DOMAIN queue : queue'[j].subject = queue[j].subject /\ queue'[j].by = queue[j].by
       /\ Pending' \subseteq Pending /\ Pending \subseteq DOMAIN queue
  BY <1>5, <1>7, <1>9 DEF Pending
<1>11. review' \in Reviews
  <2>1. review.step \in Nat /\ review.session \in Nat BY <1>1 DEF Reviews
  <2>2. PICK m \in Nat : m = IF review.state = "available" THEN review.step ELSE review.session
    BY <2>1
  <2>3. review' = [state |-> s, step |-> review.step + 1, session |-> m] BY <1>2, <2>2
  <2> QED BY <2>1, <2>3 DEF Reviews
<1>12. RequestsTyped' BY <1>1, <1>3, <1>9, <1>11 DEF RequestsTyped
<1>13. PagesBehind' BY <1>1, <1>3, <1>9 DEF PagesBehind
<1>14. StillOpen' BY <1>1, <1>3, <1>9, <1>10 DEF StillOpen, Subject
<1>15. AnsweredOnce' BY <1>1, <1>3, <1>9, <1>10 DEF AnsweredOnce
<1> QED BY <1>12, <1>13, <1>14, <1>15 DEF RequestsInv

\* Another directory at the vault's path has no queue yet, and no page shows it.
LEMMA ReplacedInv ==
  ASSUME ServerInv, RequestsInv, Replaced
  PROVE  RequestsInv'
<1>1. RequestsTyped /\ PagesBehind /\ root \in Nat BY DEF RequestsInv, ServerInv, ServerTyped
<1>2. procs' = procs /\ tabs' = tabs BY DEF Replaced
<1>3. CASE root' = root /\ queue' = queue /\ review' = review
  BY <1>2, <1>3, ProcsStay, RequestsStay DEF qvars, ServerInv
<1>4. CASE /\ root' = root + 1 /\ queue' = <<>>
           /\ review' = [state |-> "available", step |-> 1, session |-> 1]
  <2>1. RequestsTyped' BY <1>1, <1>2, <1>4 DEF RequestsTyped, Reviews
  <2>2. \A t \in Tabs : tabs[t].at <= root /\ tabs[t].at \in Nat
    BY <1>1, RequestFacts DEF PagesBehind
  <2>3. \A t \in Tabs : tabs[t].at <= root' /\ tabs[t].at # root' BY <1>1, <1>4, <2>2
  <2>4. PagesBehind' /\ StillOpen' BY <1>2, <2>3 DEF PagesBehind, StillOpen
  <2>5. AnsweredOnce' BY <1>4 DEF AnsweredOnce, Pending
  <2> QED BY <2>1, <2>4, <2>5 DEF RequestsInv
<1> QED BY <1>3, <1>4 DEF Replaced

----------------------------------------
LEMMA BridgeInitInv ==
  ASSUME ServerInit
  PROVE  ServerInv /\ RequestsInv
<1>1. command = NoCommand("nothing") /\ root = 1 BY DEF ServerInit
<1>2. command \in Commands /\ command.pc = "idle" /\ command.says = "nothing" /\ command.seen = NoReceipt
  BY <1>1 DEF NoCommand, Commands
<1>3. /\ procs \in Seq(ProcStates) /\ receipt \in BridgeReceipts \cup {NoReceipt}
      /\ receipt # NoReceipt => HasServed(receipt.pid)
  <2>1. CASE procs = <<>> /\ receipt = NoReceipt BY <2>1
  <2>2. CASE procs = <<Serving>> /\ receipt = [pid |-> 1, root |-> 1]
    <3>1. PICK p : p = Serving OBVIOUS
    <3>2. p \in ProcStates /\ p.pc = "serving" BY <3>1 DEF Serving, ProcStates
    <3>3. procs = <<p>> BY <2>2, <3>1
    <3>4. procs \in Seq(ProcStates) /\ 1 \in DOMAIN procs /\ procs[1].pc = "serving"
      BY <3>2, <3>3
    <3> QED BY <2>2, <3>4 DEF BridgeReceipts, HasServed
  <2> QED BY <2>1, <2>2 DEF ServerInit
<1>4. ServerInv
  BY <1>1, <1>2, <1>3 DEF ServerInv, ServerTyped, ReceiptsNamed, CommandPlaced, StopJudged
<1>5. NoPage \in Pages /\ NoPage.pc = "idle" /\ NoPage.at = 0 /\ NoPage.server = 0
  BY DEF NoPage, Pages
<1>6. /\ queue = <<>> /\ tabs = [t \in Tabs |-> NoPage]
      /\ review = [state |-> "available", step |-> 1, session |-> 1]
  BY DEF ServerInit
<1>7. \A t \in Tabs : tabs[t] = NoPage BY <1>6
<1>8. RequestsTyped BY <1>5, <1>6, <1>7 DEF RequestsTyped, Reviews
<1>9. PagesBehind /\ StillOpen BY <1>1, <1>5, <1>7 DEF PagesBehind, StillOpen
<1>10. AnsweredOnce BY <1>6 DEF AnsweredOnce, Pending
<1> QED BY <1>4, <1>8, <1>9, <1>10 DEF RequestsInv

LEMMA BridgeNextInv ==
  ASSUME ServerInv, RequestsInv, [LifecycleNext \/ RequestNext]_bridgeVars
  PROVE  ServerInv' /\ RequestsInv'
<1>1. ServerTyped BY DEF ServerInv
<1>2. CASE UNCHANGED bridgeVars
  <2>1. procs' = procs /\ receipt' = receipt /\ command' = command /\ root' = root
        /\ UNCHANGED <<root, qvars>>
    BY <1>2 DEF bridgeVars, lvars
  <2>2. ServerInv' BY <1>1, <2>1, ProcsStay, ServerKeeps DEF ServerInv, ServerTyped
  <2> QED BY <1>1, <2>1, <2>2, ProcsStay, RequestsStay
<1>3. ASSUME NEW n \in DOMAIN procs,
             BindServer(n) \/ WriteState(n) \/ Interrupt(n) \/ Close(n) \/ ProcessMoves(n)
      PROVE  ServerInv' /\ RequestsInv'
  <2>1. UNCHANGED <<root, qvars>>
    BY <1>3 DEF BindServer, WriteState, Interrupt, Close, ProcessMoves
  <2>2. ServerInv' BY <1>3, ProcessStepInv
  <2>3. DOMAIN procs \subseteq DOMAIN procs'
    BY <1>3, <2>2 DEF BindServer, WriteState, Interrupt, Close, ProcessMoves, ProcAt
  <2> QED BY <2>1, <2>2, <2>3, RequestsStay
<1>4. CASE \/ ServeManually \/ BeginCommand \/ LoadState \/ Probe \/ RereadReceipt \/ Unlink
           \/ Conclude \/ Signal \/ SignalIgnored \/ Stopped \/ AwaitState \/ CommandDies
  <2>1. UNCHANGED <<root, qvars>>
    BY <1>4 DEF ServeManually, BeginCommand, LoadState, Probe, RereadReceipt, Unlink, Conclude,
       Signal, SignalIgnored, Stopped, AwaitState, CommandDies
  <2>2. ServerInv'
    BY <1>4, QuietServerInv, LoadStateInv, ProbeInv, RemoveInv, ConcludeInv, SignalInv, AwaitStateInv,
       CommandDiesInv
  <2>3. DOMAIN procs \subseteq DOMAIN procs'
    <3>1. procs \in Seq(ProcStates) /\ procs' \in Seq(ProcStates)
      BY <1>1, <2>2 DEF ServerInv, ServerTyped
    <3>2. CASE ServeManually \/ Conclude
      <4>1. \/ procs' = procs
            \/ procs' = Append(procs, Starting("person"))
            \/ procs' = Append(procs, Starting("open"))
        BY <3>2 DEF ServeManually, Conclude
      <4> QED BY <1>1, <4>1, ProcStarts
    <3>3. CASE ~(ServeManually \/ Conclude)
      BY <1>4, <3>3 DEF BeginCommand, LoadState, Probe, RereadReceipt, Unlink, Signal,
         SignalIgnored, Stopped, AwaitState, CommandDies, ProcAt
    <3> QED BY <3>2, <3>3
  <2> QED BY <2>1, <2>2, <2>3, RequestsStay
<1>5. CASE Replaced BY <1>5, QuietServerInv, ReplacedInv
<1>6. CASE Decide \/ \E t \in Tabs : \/ Reload(t) \/ Post(t) \/ ReadOperations(t)
                                     \/ AppendControl(t) \/ RequestLost(t)
  <2>1. UNCHANGED <<lvars, root>>
    BY <1>6 DEF Decide, Reload, Post, ReadOperations, AppendControl, RequestLost
  <2>2. ServerInv' BY <1>1, <2>1, ProcsStay, ServerKeeps DEF lvars, ServerInv, ServerTyped
  <2>3. RequestsInv' BY <1>6, DecideInv, ReloadInv, PostInv, AppendControlInv
  <2> QED BY <2>2, <2>3
<1> QED BY <1>2, <1>3, <1>4, <1>5, <1>6 DEF LifecycleNext, RequestNext

\* A stop that reports nothing running is right about the process its receipt named, whatever
\* hung, died or was replaced meanwhile (_stop_bridge_locked); and one answer waits for each
\* question of the review, in the vault whose page was shown (_append_control,
\* _validate_guided_review_intent).
THEOREM BridgeIsHonest == BridgeSpec => []BridgeHonest
<1>1. ServerInit => ServerInv /\ RequestsInv BY BridgeInitInv
<1>2. (ServerInv /\ RequestsInv) /\ [LifecycleNext \/ RequestNext]_bridgeVars
        => (ServerInv /\ RequestsInv)'
  BY BridgeNextInv
<1>3. ServerInv /\ RequestsInv => BridgeHonest
  BY DEF ServerInv, RequestsInv, StopJudged, BridgeHonest, StopHonest
<1> QED BY <1>1, <1>2, <1>3, PTL DEF BridgeSpec

----------------------------------------
(* The import of a resident *)

StagedExports == [export : ExportBytes, whole : BOOLEAN]
Imports == [pc : {"idle", "staging", "staged", "publishing", "readback"},
            plan : Exports \cup {NoVault}, export : Exports \cup {NoVault}, stage : Nat,
            says : {"nothing", "working", "inspected", "refused", "unpublished", "committed",
                    "applied", "degraded", "died"}]

ImportTyped ==
  /\ exportFile \in ExportBytes /\ updating \in BOOLEAN
  /\ stages \in Seq(StagedExports)
  /\ home \in {NoVault, Somebodys} \cup [stage : Nat] \cup [stage : Nat, used : {TRUE}]
  /\ importer \in Imports

\* An import under way stages what was inspected, and publishes only what it
\* found whole.
Staging ==
  importer.pc # "idle" =>
    /\ importer.says = "working" /\ importer.export = importer.plan
    /\ importer.stage \in DOMAIN stages
    /\ importer.plan \in Exports
    /\ importer.pc # "readback" => home \in {NoVault, Somebodys}
    /\ importer.pc \in {"publishing", "readback"} => StageMatches(importer.stage)
ImportIInv == ImportTyped /\ Staging /\ ImportHonest

Cursors == [state : {"pending", "adopted"}, at : Nat]
Checkpoints == [adopted : Nat, reset : Nat, sequence : Nat]

HandoffTyped ==
  /\ migration \in Cursors \cup {NoVault} /\ checkpoint \in Checkpoints \cup {NoVault}
  /\ instant \in Nat
  /\ adopter \in [pc : {"idle", "decided", "completing"}, mig : Cursors \cup {NoVault},
                  rev : Nat, at : Nat]
  /\ selection \in [on : BOOLEAN, rev : Nat]

\* The host adopted what its checkpoint says, and what the call saw adopted.
Adopted ==
  /\ checkpoint # NoVault /\ checkpoint.adopted > 0 => checkpoint.adopted \in adoptions
  /\ adopter.pc = "completing" => adopter.at \in adoptions

HandoffIInv == HandoffTyped /\ Adopted /\ HandoffBacked

\* No stage is mistaken for nothing, or for what somebody else put there.
LEMMA HomesApart ==
  /\ \A n \in Nat : NoVault # [stage |-> n] /\ Somebodys # [stage |-> n]
  /\ \A n, m \in Nat : [stage |-> n, used |-> TRUE] # [stage |-> m]
  /\ \A n, m \in Nat : [stage |-> n] = [stage |-> m] => n = m
<1>1. \A n \in Nat : NoVault # [stage |-> n] BY ImportAssumption
<1>2. ASSUME NEW n \in Nat PROVE Somebodys # [stage |-> n]
  <2>1. DOMAIN Somebodys = {"export", "whole"} /\ DOMAIN [stage |-> n] = {"stage"}
    BY DEF Somebodys
  <2> QED BY <2>1
<1>3. ASSUME NEW n \in Nat, NEW m \in Nat PROVE [stage |-> n, used |-> TRUE] # [stage |-> m]
  <2>1. DOMAIN [stage |-> n, used |-> TRUE] = {"stage", "used"} /\ DOMAIN [stage |-> m] = {"stage"}
    OBVIOUS
  <2> QED BY <2>1
<1>4. ASSUME NEW n \in Nat, NEW m \in Nat, [stage |-> n] = [stage |-> m] PROVE n = m
  <2>1. [stage |-> n].stage = n /\ [stage |-> m].stage = m OBVIOUS
  <2> QED BY <1>4, <2>1
<1> QED BY <1>1, <1>2, <1>3, <1>4

\* What the importer holds, whatever it does next.
LEMMA ImporterEnds ==
  ASSUME importer \in Imports, NEW says \in {"unpublished", "refused", "committed", "applied", "degraded", "died"},
         ImportEnds(says)
  PROVE  /\ importer' \in Imports /\ importer'.pc = "idle" /\ importer'.says = says
         /\ importer'.stage = importer.stage /\ importer'.export = importer.export
         /\ importer'.plan = importer.plan
BY DEF ImportEnds, Imports

LEMMA ImportInitInv == ImportInit => ImportIInv
<1> SUFFICES ASSUME ImportInit PROVE ImportIInv
  OBVIOUS
<1>1. /\ stages = <<>> /\ home = NoVault /\ importer.pc = "idle" /\ importer.says = "nothing"
      /\ importer = [pc |-> "idle", plan |-> NoVault, export |-> NoVault, stage |-> 0,
                     says |-> "nothing"]
      /\ exportFile \in ExportBytes /\ updating \in BOOLEAN
  BY DEF ImportInit, ExportBytes
<1>2. ImportTyped BY <1>1 DEF ImportTyped, Imports, StagedExports
<1> QED BY <1>1, <1>2 DEF ImportIInv, Staging, ImportHonest

LEMMA ImportUnchanged ==
  ASSUME ImportIInv, UNCHANGED stageVars
  PROVE  ImportIInv'
BY DEF ImportIInv, ImportTyped, Staging, ImportHonest, StageMatches, stageVars

\* A call that ends without having moved its stage to the target.
LEMMA EndsUnpublished ==
  ASSUME ImportIInv, UNCHANGED <<exportFile, stages, home, updating>>,
         NEW says \in {"unpublished", "refused", "degraded", "died"}, ImportEnds(says),
         says = "unpublished" => importer.pc \in {"staging", "staged", "publishing"}
  PROVE  ImportIInv'
<1>1. ImportTyped /\ Staging /\ ImportHonest /\ importer \in Imports
  BY DEF ImportIInv, ImportTyped
<1>2. /\ importer' \in Imports /\ importer'.pc = "idle" /\ importer'.says = says
      /\ importer'.stage = importer.stage
  BY <1>1, ImporterEnds
<1>3. ImportTyped' BY <1>1, <1>2 DEF ImportTyped
<1>4. Staging' BY <1>2 DEF Staging
<1>5. says = "unpublished" => home # [stage |-> importer.stage]
  <2> SUFFICES ASSUME says = "unpublished" PROVE home # [stage |-> importer.stage]
    OBVIOUS
  <2>1. home \in {NoVault, Somebodys} /\ importer.stage \in Nat BY <1>1 DEF Staging, Imports
  <2> QED BY <2>1, HomesApart
<1>6. ImportHonest' BY <1>1, <1>2, <1>5 DEF ImportHonest
<1> QED BY <1>3, <1>4, <1>6 DEF ImportIInv

LEMMA InspectInv == ImportIInv /\ Inspect => ImportIInv'
<1> SUFFICES ASSUME ImportIInv, Inspect PROVE ImportIInv'
  OBVIOUS
<1>1. ImportTyped /\ Staging /\ ImportHonest /\ importer \in Imports
  BY DEF ImportIInv, ImportTyped
<1>2. CASE Loads(exportFile)
  <2>1. /\ importer' = [importer EXCEPT !.plan = exportFile, !.says = "inspected"]
        /\ UNCHANGED <<exportFile, stages, home, updating>> /\ importer.pc = "idle"
        /\ exportFile \in Exports
    BY <1>2 DEF Inspect, Loads
  <2>2. importer' \in Imports /\ importer'.pc = "idle" /\ importer'.says = "inspected"
    BY <1>1, <2>1 DEF Imports
  <2>3. ImportTyped' BY <1>1, <2>1, <2>2 DEF ImportTyped
  <2>4. Staging' /\ ImportHonest' BY <1>1, <2>1, <2>2 DEF Staging, ImportHonest
  <2> QED BY <2>3, <2>4 DEF ImportIInv
<1>3. CASE ~Loads(exportFile) BY <1>3, EndsUnpublished DEF Inspect, Refuse
<1> QED BY <1>2, <1>3

LEMMA BeginApplyInv == ImportIInv /\ BeginApply => ImportIInv'
<1> SUFFICES ASSUME ImportIInv, BeginApply PROVE ImportIInv'
  OBVIOUS
<1>1. ImportTyped /\ Staging /\ ImportHonest /\ importer \in Imports /\ stages \in Seq(StagedExports)
  BY DEF ImportIInv, ImportTyped
<1>2. CASE Loads(exportFile) /\ AbsentTarget /\ exportFile = importer.plan /\ ~updating
  <2>1. /\ stages' = Append(stages, Stage(exportFile))
        /\ importer' = [importer EXCEPT !.pc = "staging", !.export = exportFile,
                                        !.stage = Len(stages) + 1, !.says = "working"]
        /\ exportFile \in Exports /\ exportFile = importer.plan /\ home = NoVault
        /\ UNCHANGED <<exportFile, home, updating>>
    BY <1>2 DEF BeginApply, Loads, AbsentTarget
  <2>2. Stage(exportFile) \in StagedExports BY <2>1 DEF Stage, StagedExports, ExportBytes
  <2>3. /\ stages' \in Seq(StagedExports) /\ Len(stages') = Len(stages) + 1 /\ Len(stages) \in Nat
        /\ Len(stages) + 1 \in DOMAIN stages'
    BY <1>1, <2>1, <2>2
  <2>4. PICK n \in Nat : n = Len(stages) + 1 BY <2>3
  <2>5. /\ importer' \in Imports /\ importer'.pc = "staging" /\ importer'.says = "working"
        /\ importer'.export = exportFile /\ importer'.plan = exportFile /\ importer'.stage = n
    BY <1>1, <2>1, <2>4 DEF Imports
  <2>6. ImportTyped' BY <1>1, <2>1, <2>3, <2>5 DEF ImportTyped
  <2>7. Staging' BY <2>1, <2>3, <2>4, <2>5 DEF Staging
  <2>8. ImportHonest'
    <3>1. \A s \in DOMAIN stages' : home' # [stage |-> s] BY <2>1, <2>3, HomesApart
    <3> QED BY <2>5, <3>1 DEF ImportHonest
  <2> QED BY <2>6, <2>7, <2>8 DEF ImportIInv
<1>3. CASE ~(Loads(exportFile) /\ AbsentTarget /\ exportFile = importer.plan /\ ~updating)
  BY <1>3, EndsUnpublished DEF BeginApply, Refuse
<1> QED BY <1>2, <1>3

\* While an import stages, the stage changes but the target does not name it.
LEMMA StageChanges ==
  ASSUME ImportIInv, NEW s \in StagedExports, importer.pc \in {"staging", "staged"},
         stages' = [stages EXCEPT ![importer.stage] = s],
         UNCHANGED <<exportFile, home, updating>>,
         NEW pc \in {"staging", "staged"}, importer' = [importer EXCEPT !.pc = pc]
  PROVE  ImportIInv'
<1>1. ImportTyped /\ Staging /\ ImportHonest /\ importer \in Imports /\ stages \in Seq(StagedExports)
  BY DEF ImportIInv, ImportTyped
<1>2. /\ importer' \in Imports /\ importer'.pc = pc /\ importer'.says = importer.says
      /\ importer'.stage = importer.stage /\ importer'.export = importer.export
      /\ importer'.plan = importer.plan
  BY <1>1 DEF Imports
<1>3. importer.stage \in DOMAIN stages /\ importer.says = "working" /\ home \in {NoVault, Somebodys}
  BY <1>1 DEF Staging
<1>4. stages' \in Seq(StagedExports) /\ DOMAIN stages' = DOMAIN stages BY <1>1, <1>3
<1>5. ImportTyped' BY <1>1, <1>2, <1>4 DEF ImportTyped
<1>6. Staging' BY <1>1, <1>2, <1>3, <1>4 DEF Staging
<1>7. \A n \in DOMAIN stages' : home' # [stage |-> n] BY <1>1, <1>3, <1>4, HomesApart
<1>8. ImportHonest' BY <1>2, <1>3, <1>7 DEF ImportHonest
<1> QED BY <1>5, <1>6, <1>8 DEF ImportIInv

LEMMA WriteStageInv == ImportIInv /\ WriteStage => ImportIInv'
<1> SUFFICES ASSUME ImportIInv, WriteStage PROVE ImportIInv'
  OBVIOUS
<1>1. stages \in Seq(StagedExports) /\ importer.stage \in DOMAIN stages /\ importer.pc = "staging"
  BY DEF ImportIInv, ImportTyped, Staging, WriteStage
<1>2. PICK q \in StagedExports : q = stages[importer.stage] BY <1>1
<1>3. PICK s : s = [q EXCEPT !.whole = TRUE] OBVIOUS
<1>4. s \in StagedExports BY <1>3 DEF StagedExports
<1>5. /\ stages' = [stages EXCEPT ![importer.stage] = s]
      /\ importer' = [importer EXCEPT !.pc = "staged"] /\ UNCHANGED <<exportFile, home, updating>>
  BY <1>2, <1>3 DEF WriteStage
<1> QED BY <1>1, <1>5, <1>4, StageChanges

LEMMA StageFailsInv == ImportIInv /\ StageFails => ImportIInv'
BY EndsUnpublished DEF StageFails

LEMMA ProveStageInv == ImportIInv /\ ProveStage => ImportIInv'
<1> SUFFICES ASSUME ImportIInv, ProveStage PROVE ImportIInv'
  OBVIOUS
<1>1. ImportTyped /\ Staging /\ ImportHonest /\ importer \in Imports /\ importer.pc = "staged"
  BY DEF ImportIInv, ImportTyped, ProveStage
<1>2. CASE ~StageMatches(importer.stage) BY <1>1, <1>2, EndsUnpublished DEF ProveStage, Refuse
<1>3. CASE StageMatches(importer.stage) /\ (updating \/ ~AbsentTarget)
  BY <1>1, <1>3, EndsUnpublished DEF ProveStage, Refuse
<1>4. CASE StageMatches(importer.stage) /\ ~(updating \/ ~AbsentTarget)
  <2>1. /\ importer' = [importer EXCEPT !.pc = "publishing"]
        /\ UNCHANGED <<exportFile, stages, home, updating>>
    BY <1>4 DEF ProveStage
  <2>2. /\ importer' \in Imports /\ importer'.pc = "publishing" /\ importer'.says = importer.says
        /\ importer'.stage = importer.stage /\ importer'.export = importer.export
        /\ importer'.plan = importer.plan
    BY <1>1, <2>1 DEF Imports
  <2>3. ImportTyped' BY <1>1, <2>1, <2>2 DEF ImportTyped
  <2>4. Staging' BY <1>1, <1>4, <2>1, <2>2 DEF Staging, StageMatches
  <2>5. ImportHonest' BY <1>1, <2>1, <2>2 DEF ImportHonest
  <2> QED BY <2>3, <2>4, <2>5 DEF ImportIInv
<1> QED BY <1>2, <1>3, <1>4

LEMMA PublishStageInv == ImportIInv /\ PublishStage => ImportIInv'
<1> SUFFICES ASSUME ImportIInv, PublishStage PROVE ImportIInv'
  OBVIOUS
<1>1. /\ ImportTyped /\ Staging /\ ImportHonest /\ importer \in Imports
      /\ importer.pc = "publishing" /\ stages \in Seq(StagedExports)
  BY DEF ImportIInv, ImportTyped, PublishStage
<1>2. /\ StageMatches(importer.stage) /\ importer.stage \in DOMAIN stages /\ importer.stage \in Nat
      /\ importer.plan \in Exports /\ importer.export = importer.plan /\ importer.says = "working"
  BY <1>1 DEF Staging, Imports
<1>3. ASSUME MoveStage,
             \/ importer' = [importer EXCEPT !.pc = "readback"]
             \/ ImportEnds("committed")
      PROVE  ImportIInv'
  <2>1. home' = [stage |-> importer.stage] /\ UNCHANGED <<exportFile, stages, updating>>
    BY <1>3 DEF MoveStage
  <2>2. /\ importer' \in Imports /\ importer'.stage = importer.stage
        /\ importer'.export = importer.export /\ importer'.plan = importer.plan
        /\ \/ importer'.pc = "readback" /\ importer'.says = "working"
           \/ importer'.pc = "idle" /\ importer'.says = "committed"
    BY <1>1, <1>2, <1>3 DEF Imports, ImportEnds
  <2>3. ImportTyped' BY <1>1, <1>2, <2>1, <2>2 DEF ImportTyped
  <2>4. Staging' BY <1>1, <1>2, <2>1, <2>2 DEF Staging, StageMatches
  <2>5. ASSUME NEW s \in DOMAIN stages', home' = [stage |-> s]
        PROVE  stages'[s].whole /\ stages'[s].export \in Exports
    <3>1. s = importer.stage BY <1>1, <1>2, <2>1, <2>5, HomesApart
    <3> QED BY <1>2, <2>1, <3>1 DEF StageMatches
  <2>6. ImportHonest' BY <2>1, <2>2, <2>5 DEF ImportHonest
  <2> QED BY <2>3, <2>4, <2>6 DEF ImportIInv
<1>4. ASSUME ImportEnds("unpublished"), UNCHANGED <<exportFile, stages, home, updating>>
      PROVE  ImportIInv'
  BY <1>1, <1>4, EndsUnpublished
<1>5. ASSUME Refuse("refused") PROVE ImportIInv' BY <1>1, <1>5, EndsUnpublished DEF Refuse
<1> QED BY <1>3, <1>4, <1>5 DEF PublishStage

LEMMA ReadbackInv == ImportIInv /\ Readback => ImportIInv'
<1> SUFFICES ASSUME ImportIInv, Readback PROVE ImportIInv'
  OBVIOUS
<1>1. /\ ImportTyped /\ Staging /\ ImportHonest /\ importer \in Imports
      /\ importer.pc = "readback"
  BY DEF ImportIInv, ImportTyped, Readback
<1>2. UNCHANGED <<exportFile, stages, home, updating>> BY DEF Readback, Refuse
<1>3. CASE home = [stage |-> importer.stage] /\ StageMatches(importer.stage)
  <2>1. ImportEnds("applied") BY <1>3 DEF Readback, Refuse
  <2>2. /\ importer' \in Imports /\ importer'.pc = "idle" /\ importer'.says = "applied"
        /\ importer'.stage = importer.stage /\ importer'.export = importer.export
        /\ importer'.plan = importer.plan
    BY <1>1, <2>1, ImporterEnds
  <2>3. importer.export = importer.plan BY <1>1 DEF Staging
  <2>4. ImportTyped' BY <1>1, <1>2, <2>2 DEF ImportTyped
  <2>5. Staging' BY <2>2 DEF Staging
  <2>6. ImportHonest' BY <1>1, <1>2, <1>3, <2>2, <2>3 DEF ImportHonest, StageMatches
  <2> QED BY <2>4, <2>5, <2>6 DEF ImportIInv
<1>4. CASE ~(home = [stage |-> importer.stage] /\ StageMatches(importer.stage))
  <2>1. ImportEnds("degraded") BY <1>4 DEF Readback, Refuse
  <2> QED BY <1>2, <2>1, EndsUnpublished
<1> QED BY <1>3, <1>4

LEMMA ImporterDiesInv == ImportIInv /\ ImporterDies => ImportIInv'
BY EndsUnpublished DEF ImporterDies

LEMMA AroundInv == ImportIInv /\ Around => ImportIInv'
<1> SUFFICES ASSUME ImportIInv, Around PROVE ImportIInv'
  OBVIOUS
<1>1. /\ ImportTyped /\ Staging /\ ImportHonest /\ importer \in Imports
      /\ stages \in Seq(StagedExports) /\ importer' = importer
  BY DEF ImportIInv, ImportTyped, Around
<1>2. ASSUME exportFile' \in ExportBytes, UNCHANGED <<stages, home>>, updating' \in BOOLEAN
      PROVE  ImportIInv'
  BY <1>1, <1>2 DEF ImportIInv, ImportTyped, Staging, ImportHonest, StageMatches
<1>3. ASSUME AbsentTarget, home' = Somebodys, UNCHANGED <<exportFile, stages, updating>>
      PROVE  ImportIInv'
  <2>1. \A n \in Nat : home # [stage |-> n] /\ home' # [stage |-> n]
    BY <1>3, HomesApart DEF AbsentTarget
  <2>2. ImportTyped' BY <1>1, <1>3 DEF ImportTyped
  <2>3. Staging' BY <1>1, <1>3 DEF Staging, StageMatches
  <2>4. importer.stage \in Nat BY <1>1 DEF Imports
  <2>5. ImportHonest' BY <1>1, <1>3, <2>1, <2>4 DEF ImportHonest
  <2> QED BY <2>2, <2>3, <2>5 DEF ImportIInv
<1>4. ASSUME importer.pc \in {"staging", "staged"},
             stages' = [stages EXCEPT ![importer.stage] = Somebodys],
             UNCHANGED <<exportFile, home, updating>>
      PROVE  ImportIInv'
  <2>1. Somebodys \in StagedExports BY DEF Somebodys, StagedExports, ExportBytes
  <2>2. importer' = [importer EXCEPT !.pc = importer.pc] BY <1>1 DEF Imports
  <2> QED BY <1>4, <2>1, <2>2, StageChanges
<1>5. ASSUME importer.pc = "readback", home' = [stage |-> importer.stage, used |-> TRUE],
             UNCHANGED <<exportFile, stages, updating>>
      PROVE  ImportIInv'
  <2>1. importer.stage \in Nat /\ importer.says = "working" BY <1>1, <1>5 DEF Imports, Staging
  <2>2. \A n \in Nat : home' # [stage |-> n] BY <1>5, <2>1, HomesApart
  <2>3. ImportTyped' BY <1>1, <1>5, <2>1 DEF ImportTyped
  <2>4. Staging' BY <1>1, <1>5 DEF Staging, StageMatches
  <2>5. ImportHonest' BY <1>1, <1>5, <2>1, <2>2 DEF ImportHonest
  <2> QED BY <2>3, <2>4, <2>5 DEF ImportIInv
<1>6. exportFile \in ExportBytes /\ updating \in BOOLEAN BY <1>1 DEF ImportTyped
<1> QED BY <1>2, <1>3, <1>4, <1>5, <1>6 DEF Around

LEMMA ImportNextInv == ImportIInv /\ [ImportNext]_ivars => ImportIInv'
<1> SUFFICES ASSUME ImportIInv, [ImportNext]_ivars PROVE ImportIInv'
  OBVIOUS
<1>1. CASE Inspect \/ BeginApply \/ WriteStage \/ StageFails \/ ProveStage
  BY <1>1, InspectInv, BeginApplyInv, WriteStageInv, StageFailsInv, ProveStageInv
<1>2. CASE PublishStage \/ Readback \/ ImporterDies \/ Around
  BY <1>2, PublishStageInv, ReadbackInv, ImporterDiesInv, AroundInv
<1>3. CASE ReadStatus \/ HostAdopt \/ CompleteMigration \/ AdopterDies \/ HostMoves
  BY <1>3, ImportUnchanged
     DEF ReadStatus, HostAdopt, CompleteMigration, AdopterDies, HostMoves
<1>4. CASE UNCHANGED ivars BY <1>4, ImportUnchanged DEF ivars
<1> QED BY <1>1, <1>2, <1>3, <1>4 DEF ImportNext

----------------------------------------
LEMMA HandoffInitInv == ImportInit => HandoffIInv
<1> SUFFICES ASSUME ImportInit PROVE HandoffIInv
  OBVIOUS
<1>1. HandoffTyped BY DEF ImportInit, HandoffTyped
<1> QED BY <1>1 DEF ImportInit, HandoffIInv, Adopted, HandoffBacked

LEMMA HandoffUnchanged ==
  ASSUME HandoffIInv, UNCHANGED migrationVars
  PROVE  HandoffIInv'
BY DEF HandoffIInv, HandoffTyped, Adopted, HandoffBacked, migrationVars

\* A cursor that waits again is backed whatever was adopted.
LEMMA CursorPends ==
  ASSUME HandoffIInv, migration' = PendingCursor,
         UNCHANGED <<checkpoint, selection, adopter, adoptions, instant>>
  PROVE  HandoffIInv'
<1>1. migration' \in Cursors /\ migration'.state = "pending" BY DEF PendingCursor, Cursors
<1> QED BY <1>1 DEF HandoffIInv, HandoffTyped, Adopted, HandoffBacked

LEMMA PublishHandoff == HandoffIInv /\ PublishStage => HandoffIInv'
<1> SUFFICES ASSUME HandoffIInv, PublishStage PROVE HandoffIInv'
  OBVIOUS
<1>1. ASSUME MoveStage PROVE HandoffIInv' BY <1>1, CursorPends DEF MoveStage
<1>2. ASSUME UNCHANGED migrationVars PROVE HandoffIInv' BY <1>2, HandoffUnchanged
<1> QED BY <1>1, <1>2 DEF PublishStage, Refuse

LEMMA ReadStatusHandoff == HandoffIInv /\ ReadStatus => HandoffIInv'
<1> SUFFICES ASSUME HandoffIInv, ReadStatus PROVE HandoffIInv'
  OBVIOUS
<1>1. /\ adopter' = [adopter EXCEPT !.pc = "decided", !.mig = migration, !.rev = selection.rev]
      /\ UNCHANGED <<migration, checkpoint, selection, adoptions, instant>>
      /\ HandoffTyped /\ Adopted /\ HandoffBacked
  BY DEF ReadStatus, HandoffIInv
<1>2. PICK rev \in Nat : rev = selection.rev BY <1>1 DEF HandoffTyped
<1>3. adopter'.pc = "decided" /\ HandoffTyped' BY <1>1, <1>2 DEF HandoffTyped
<1> QED BY <1>1, <1>3 DEF HandoffIInv, Adopted, HandoffBacked

LEMMA AdopterEnds ==
  ASSUME HandoffIInv, AdopterIdle,
         UNCHANGED <<migration, checkpoint, selection, adoptions, instant>>
  PROVE  HandoffIInv'
<1>1. HandoffTyped /\ Adopted /\ HandoffBacked BY DEF HandoffIInv
<1>2. adopter'.pc = "idle" /\ HandoffTyped' BY <1>1 DEF AdopterIdle, HandoffTyped
<1> QED BY <1>1, <1>2 DEF HandoffIInv, Adopted, HandoffBacked

LEMMA HostAdoptHandoff == HandoffIInv /\ HostAdopt => HandoffIInv'
<1> SUFFICES ASSUME HandoffIInv, HostAdopt PROVE HandoffIInv'
  OBVIOUS
<1>1. HandoffTyped /\ Adopted /\ HandoffBacked /\ instant \in Nat
  BY DEF HandoffIInv, HandoffTyped
<1>2. ASSUME instant' = instant + 1, UNCHANGED <<migration, selection>>,
             checkpoint' = [adopted |-> instant', reset |-> 0, sequence |-> 0],
             adoptions' = adoptions \cup {instant'},
             adopter' = [adopter EXCEPT !.pc = "completing", !.at = instant']
      PROVE  HandoffIInv'
  <2>1. PICK n \in Nat : n = instant' /\ n = instant + 1 BY <1>1, <1>2
  <2>2. checkpoint' = [adopted |-> n, reset |-> 0, sequence |-> 0] /\ checkpoint' \in Checkpoints
    BY <1>2, <2>1 DEF Checkpoints
  <2>3. adopter'.pc = "completing" /\ adopter'.at = n /\ HandoffTyped'
    BY <1>1, <1>2, <2>1, <2>2 DEF HandoffTyped
  <2>4. n \in adoptions' /\ adoptions \subseteq adoptions' BY <1>2, <2>1
  <2>5. Adopted' BY <2>2, <2>3, <2>4 DEF Adopted
  <2>6. HandoffBacked' BY <1>1, <1>2, <2>4 DEF HandoffBacked
  <2> QED BY <2>3, <2>5, <2>6 DEF HandoffIInv
<1>3. ASSUME checkpoint # NoVault, MayAdopt,
             UNCHANGED <<migration, selection, checkpoint, adoptions, instant>>,
             adopter' = [adopter EXCEPT !.pc = "completing", !.at = checkpoint.adopted]
      PROVE  HandoffIInv'
  <2>1. HostAdopted /\ checkpoint \in Checkpoints BY <1>1, <1>3 DEF MayAdopt, HandoffTyped
  <2>2. PICK n \in Nat : n = checkpoint.adopted /\ n > 0 BY <2>1 DEF HostAdopted, Checkpoints
  <2>3. n \in adoptions BY <1>1, <1>3, <2>2 DEF Adopted
  <2>4. adopter'.at = n /\ HandoffTyped' BY <1>1, <1>3, <2>2 DEF HandoffTyped
  <2> QED BY <1>1, <1>3, <2>3, <2>4 DEF HandoffIInv, Adopted, HandoffBacked
<1>4. ASSUME AdopterIdle, UNCHANGED <<migration, checkpoint, selection, adoptions, instant>>
      PROVE  HandoffIInv'
  BY <1>4, AdopterEnds
<1> QED BY <1>2, <1>3, <1>4 DEF HostAdopt

LEMMA CompleteHandoff == HandoffIInv /\ CompleteMigration => HandoffIInv'
<1> SUFFICES ASSUME HandoffIInv, CompleteMigration PROVE HandoffIInv'
  OBVIOUS
<1>1. /\ HandoffTyped /\ Adopted /\ HandoffBacked /\ adopter.pc = "completing"
      /\ AdopterIdle /\ UNCHANGED <<checkpoint, selection, adoptions, instant>>
  BY DEF HandoffIInv, CompleteMigration
<1>2. CASE migration' = migration BY <1>1, <1>2, AdopterEnds
<1>3. CASE migration' = AdoptedCursor(adopter.at)
  <2>1. PICK n \in Nat : n = adopter.at /\ n \in adoptions BY <1>1 DEF HandoffTyped, Adopted
  <2>2. migration' = [state |-> "adopted", at |-> n] /\ migration' \in Cursors
    BY <1>3, <2>1 DEF AdoptedCursor, Cursors
  <2>3. adopter'.pc = "idle" /\ HandoffTyped' BY <1>1, <2>2 DEF AdopterIdle, HandoffTyped
  <2> QED BY <1>1, <2>1, <2>2, <2>3 DEF HandoffIInv, Adopted, HandoffBacked
<1> QED BY <1>2, <1>3 DEF CompleteMigration

LEMMA HostMovesHandoff == HandoffIInv /\ HostMoves => HandoffIInv'
<1> SUFFICES ASSUME HandoffIInv, HostMoves PROVE HandoffIInv'
  OBVIOUS
<1>1. /\ HandoffTyped /\ Adopted /\ HandoffBacked /\ UNCHANGED <<adopter, adoptions>>
      /\ instant \in Nat
  BY DEF HandoffIInv, HandoffTyped, HostMoves
<1>2. ASSUME checkpoint' \in Checkpoints \cup {NoVault},
             checkpoint' # NoVault => checkpoint'.adopted = 0 \/
               (checkpoint # NoVault /\ checkpoint'.adopted = checkpoint.adopted),
             UNCHANGED <<migration, selection>>, instant' \in Nat
      PROVE  HandoffIInv'
  <2>1. HandoffTyped' BY <1>1, <1>2 DEF HandoffTyped
  <2>2. Adopted' BY <1>1, <1>2 DEF Adopted
  <2> QED BY <1>1, <1>2, <2>1, <2>2 DEF HandoffIInv, HandoffBacked
<1>3. CASE checkpoint' = [adopted |-> 0, reset |-> 0, sequence |-> 0]
             /\ UNCHANGED <<migration, selection, instant>>
  <2>1. checkpoint' \in Checkpoints /\ checkpoint'.adopted = 0 BY <1>3 DEF Checkpoints
  <2> QED BY <1>1, <1>2, <1>3, <2>1
<1>4. CASE checkpoint # NoVault /\ checkpoint' = [checkpoint EXCEPT !.sequence = @ + 1]
             /\ UNCHANGED <<migration, selection, instant>>
  <2>1. PICK n \in Nat : n = checkpoint.sequence + 1 BY <1>1, <1>4 DEF HandoffTyped, Checkpoints
  <2>2. checkpoint' = [checkpoint EXCEPT !.sequence = n] /\ checkpoint \in Checkpoints
    BY <1>1, <1>4, <2>1 DEF HandoffTyped
  <2>3. checkpoint' \in Checkpoints /\ checkpoint'.adopted = checkpoint.adopted
    BY <2>2 DEF Checkpoints
  <2> QED BY <1>1, <1>2, <1>4, <2>3
<1>5. CASE checkpoint # NoVault /\ instant' = instant + 1
             /\ checkpoint' = [checkpoint EXCEPT !.reset = instant', !.sequence = 0]
             /\ UNCHANGED <<migration, selection>>
  <2>1. PICK n \in Nat : n = instant' BY <1>1, <1>5
  <2>2. /\ checkpoint' = [checkpoint EXCEPT !.reset = n, !.sequence = 0]
        /\ checkpoint \in Checkpoints
    BY <1>1, <1>5, <2>1 DEF HandoffTyped
  <2>3. checkpoint' \in Checkpoints /\ checkpoint'.adopted = checkpoint.adopted
    BY <2>2 DEF Checkpoints
  <2> QED BY <1>2, <1>5, <2>1, <2>3
<1>6. CASE checkpoint' = NoVault /\ UNCHANGED <<migration, selection, instant>>
  BY <1>1, <1>2, <1>6
<1>7. CASE selection' = [on |-> ~selection.on, rev |-> selection.rev + 1]
             /\ UNCHANGED <<migration, checkpoint, instant>>
  <2>1. PICK n \in Nat : n = selection.rev + 1 BY <1>1 DEF HandoffTyped
  <2>2. HandoffTyped' BY <1>1, <1>7, <2>1 DEF HandoffTyped
  <2> QED BY <1>1, <1>7, <2>2 DEF HandoffIInv, Adopted, HandoffBacked
<1>8. CASE migration' = PendingCursor /\ UNCHANGED <<checkpoint, selection, instant>>
  BY <1>1, <1>8, CursorPends
<1> QED BY <1>3, <1>4, <1>5, <1>6, <1>7, <1>8 DEF HostMoves

LEMMA HandoffNextInv == HandoffIInv /\ [ImportNext]_ivars => HandoffIInv'
<1> SUFFICES ASSUME HandoffIInv, [ImportNext]_ivars PROVE HandoffIInv'
  OBVIOUS
<1>1. CASE Inspect \/ BeginApply \/ WriteStage \/ StageFails \/ ProveStage \/ Readback
             \/ ImporterDies \/ Around \/ UNCHANGED ivars
  BY <1>1, HandoffUnchanged
     DEF Inspect, BeginApply, WriteStage, StageFails, ProveStage, Readback, ImporterDies, Around,
         Refuse, ivars
<1>2. CASE PublishStage \/ ReadStatus \/ HostAdopt
  BY <1>2, PublishHandoff, ReadStatusHandoff, HostAdoptHandoff
<1>3. CASE CompleteMigration \/ AdopterDies \/ HostMoves
  BY <1>3, CompleteHandoff, HostMovesHandoff, AdopterEnds DEF AdopterDies
<1> QED BY <1>1, <1>2, <1>3 DEF ImportNext

(* What an import says of its target is so, and the adoption of a cursor is
   recorded only where the host made it (apply_resident_export,
   adopt_staged_local_source_checkpoint), for every number of exports,
   stages, resets, deaths and interventions. *)
THEOREM HandoffIsHonest == ImportSpec => []HandoffHonest
<1>1. ImportInit => ImportIInv /\ HandoffIInv BY ImportInitInv, HandoffInitInv
<1>2. ImportIInv /\ HandoffIInv /\ [ImportNext]_ivars => (ImportIInv /\ HandoffIInv)'
  BY ImportNextInv, HandoffNextInv
<1>3. ImportIInv /\ HandoffIInv => HandoffHonest BY DEF ImportIInv, HandoffIInv, HandoffHonest
<1> QED BY <1>1, <1>2, <1>3, PTL DEF ImportSpec

----------------------------------------
(* The app corpus *)

LeafNames == Docs \X Nat
CorpusStates == [rev : [Docs -> Nat], checkpoint : Nat, scope : Nat,
                 binding : (SUBSET LeafNames) \cup {Unset}]
Syncs == [at : {"reading", "writing"}, token : Nat \X Nat, rev : [Docs -> Nat],
          todo : SUBSET LeafNames]
Refreshes == [at : {"cleaning", "sources", "view", "update", "manifest", "bind"},
              snapshot : SUBSET LeafNames]
Searches == [known : SUBSET LeafNames, withheld : SUBSET Docs, asks : BOOLEAN, commit : Nat]

CorpusTyped ==
  /\ corpus \in CorpusStates
  /\ hidden \subseteq everHidden /\ everHidden \subseteq Docs
  /\ sync \in Syncs \cup {Unset} /\ refresh \in Refreshes \cup {Unset}
  /\ search \in Searches \cup {Unset}

Committing == sync # Unset /\ sync.at = "writing"
Cleaning == refresh # Unset /\ refresh.at = "cleaning"

\* The state lock is held for what it is to protect.
StateLocked ==
  /\ Committing => stateLock = "sync"
  /\ Cleaning => stateLock = "refresh"

\* What was never withheld of these revisions has its leaf among these.
LeafOf(rev, set) == \A d \in Docs : rev[d] > 0 /\ d \notin everHidden => Leaf(d, rev[d]) \in set

\* Leaves are written before the state that names them, and removed only when
\* the state that the lock holds still names none of them.
LeavesKept ==
  /\ LeafOf(corpus.rev, leaves)
  /\ Committing => LeafOf(sync.rev, leaves \cup sync.todo)
  /\ Cleaning => LeafOf(corpus.rev, refresh.snapshot)

\* A search knows documents of the state it copied, and none that was withheld.
Copied ==
  search # Unset =>
    /\ search.commit <= corpus.checkpoint
    /\ search.commit = corpus.checkpoint => search.known \subseteq NamedLeaves
    /\ \A l \in search.known : l[1] \notin search.withheld

CorpusInv == CorpusTyped /\ StateLocked /\ LeavesKept /\ Copied

----------------------------------------
\* The leaves a state names, one by one.
LEMMA NamesOfLeaves ==
  ASSUME corpus.rev \in [Docs -> Nat]
  PROVE  /\ NamedLeaves \subseteq LeafNames /\ Visible \subseteq NamedLeaves
         /\ \A d \in Docs : corpus.rev[d] > 0 => Leaf(d, corpus.rev[d]) \in NamedLeaves
         /\ \A l \in NamedLeaves : l[1] \in Docs /\ corpus.rev[l[1]] > 0 /\ l = Leaf(l[1], corpus.rev[l[1]])
         /\ \A l \in Visible : l[1] \notin hidden
         /\ \A l \in NamedLeaves : l[1] \notin hidden => l \in Visible
<1>1. NamedLeaves \subseteq LeafNames BY DEF NamedLeaves, Leaf, LeafNames
<1>2. Visible \subseteq NamedLeaves /\ (\A l \in Visible : l[1] \notin hidden)
        /\ (\A l \in NamedLeaves : l[1] \notin hidden => l \in Visible)
  BY DEF Visible, VisibleOf
<1>3. \A d \in Docs : corpus.rev[d] > 0 => Leaf(d, corpus.rev[d]) \in NamedLeaves
  BY DEF NamedLeaves
<1>4. ASSUME NEW l \in NamedLeaves
      PROVE  l[1] \in Docs /\ corpus.rev[l[1]] > 0 /\ l = Leaf(l[1], corpus.rev[l[1]])
  <2>1. PICK d \in Docs : corpus.rev[d] > 0 /\ l = Leaf(d, corpus.rev[d])
    BY <1>4 DEF NamedLeaves
  <2>2. l[1] = d BY <2>1 DEF Leaf
  <2> QED BY <2>1, <2>2
<1> QED BY <1>1, <1>2, <1>3, <1>4

LEMMA CorpusInitInv == CorpusInit => CorpusInv
<1> SUFFICES ASSUME CorpusInit PROVE CorpusInv
  OBVIOUS
<1>1. /\ corpus = [rev |-> [d \in Docs |-> 0], checkpoint |-> 0, scope |-> 0, binding |-> Unset]
      /\ leaves = {} /\ hidden = {} /\ everHidden = {}
      /\ sync = Unset /\ refresh = Unset /\ search = Unset
  BY DEF CorpusInit
<1>2. PICK none \in [Docs -> Nat] : none = [d \in Docs |-> 0] OBVIOUS
<1>3. corpus = [rev |-> none, checkpoint |-> 0, scope |-> 0, binding |-> Unset] BY <1>1, <1>2
<1>4. corpus \in CorpusStates
  <2>1. [rev |-> none, checkpoint |-> 0, scope |-> 0, binding |-> Unset] \in CorpusStates
    BY <1>2 DEF CorpusStates
  <2> QED BY <1>3, <2>1
<1>5. corpus.rev = none BY <1>3
<1>6. \A d \in Docs : corpus.rev[d] = 0 BY <1>2, <1>5
<1>7. LeafOf(corpus.rev, leaves) BY <1>6 DEF LeafOf
<1> QED
  BY <1>1, <1>4, <1>7 DEF CorpusInv, CorpusTyped, StateLocked, LeavesKept, Copied, Committing,
                          Cleaning

\* A step that changes none of this but the lock, the binding or the scope.
LEMMA CorpusKept ==
  ASSUME CorpusInv, corpus' \in CorpusStates, corpus'.rev = corpus.rev,
         corpus'.checkpoint = corpus.checkpoint,
         UNCHANGED <<hidden, everHidden, search>>
  PROVE  /\ NamedLeaves' = NamedLeaves /\ Copied'
         /\ corpus' \in CorpusStates /\ hidden' \subseteq everHidden' /\ everHidden' \subseteq Docs
         /\ search' \in Searches \cup {Unset}
<1>1. NamedLeaves' = NamedLeaves BY DEF NamedLeaves, Leaf
<1> QED BY <1>1 DEF CorpusInv, CorpusTyped, Copied

LEMMA BeginSyncInv == CorpusInv /\ BeginSync => CorpusInv'
<1> SUFFICES ASSUME CorpusInv, BeginSync PROVE CorpusInv'
  OBVIOUS
<1>1. /\ CorpusTyped /\ StateLocked /\ LeavesKept /\ corpus \in CorpusStates
      /\ sync' = [at |-> "reading", token |-> Token, rev |-> corpus.rev, todo |-> {}]
      /\ UNCHANGED <<corpus, leaves, hidden, everHidden, stateLock, refresh, search>>
  BY DEF CorpusInv, CorpusTyped, BeginSync
<1>2. Token \in Nat \X Nat /\ corpus.rev \in [Docs -> Nat] BY <1>1 DEF Token, CorpusStates
<1>3. sync' \in Syncs /\ sync'.at = "reading" BY <1>1, <1>2 DEF Syncs
<1>4. Copied' BY <1>1, CorpusKept
<1>5. CorpusTyped' BY <1>1, <1>3 DEF CorpusTyped
<1>6. StateLocked' /\ LeavesKept'
  BY <1>1, <1>3 DEF StateLocked, LeavesKept, LeafOf, Committing, Cleaning, Leaf
<1> QED BY <1>4, <1>5, <1>6 DEF CorpusInv

LEMMA ReceivePageInv == CorpusInv /\ ReceivePage => CorpusInv'
<1> SUFFICES ASSUME CorpusInv, ReceivePage PROVE CorpusInv'
  OBVIOUS
<1>1. /\ CorpusTyped /\ StateLocked /\ LeavesKept /\ corpus \in CorpusStates
      /\ sync \in Syncs \cup {Unset} /\ sync # Unset /\ stateLock = Unset
      /\ UNCHANGED <<corpus, leaves, hidden, everHidden, refresh, search>>
  BY DEF CorpusInv, CorpusTyped, ReceivePage
<1>2. Copied' /\ ~Cleaning BY <1>1, CorpusKept, CorpusAssumption DEF StateLocked
<1>3. CASE SameToken
  <2>1. PICK d \in Docs : \E r \in {0, corpus.rev[d], corpus.rev[d] + 1} :
          /\ stateLock' = "sync"
          /\ sync' = [sync EXCEPT !.at = "writing", !.rev = [corpus.rev EXCEPT ![d] = r],
                                  !.todo = Commits([x \in {d} |-> r])]
    BY <1>3 DEF ReceivePage
  <2>2. corpus.rev \in [Docs -> Nat] BY <1>1 DEF CorpusStates
  <2>3. PICK r \in {0, corpus.rev[d], corpus.rev[d] + 1} :
          /\ stateLock' = "sync"
          /\ sync' = [sync EXCEPT !.at = "writing", !.rev = [corpus.rev EXCEPT ![d] = r],
                                  !.todo = Commits([x \in {d} |-> r])]
    BY <2>1
  <2>. r \in Nat
    <3>1. corpus.rev[d] \in Nat /\ corpus.rev[d] + 1 \in Nat BY <2>2
    <3> QED BY <2>3, <3>1
  <2>4. PICK todo : todo = Commits([x \in {d} |-> r]) OBVIOUS
  <2>5. todo = {Leaf(x, r) : x \in {y \in {d} : r > 0 /\ r # corpus.rev[y]}} BY <2>4 DEF Commits
  <2>6. todo \subseteq LeafNames /\ (r > 0 /\ r # corpus.rev[d] => Leaf(d, r) \in todo)
    BY <2>1, <2>3, <2>5 DEF Leaf, LeafNames
  <2>7. PICK rev \in [Docs -> Nat] : rev = [corpus.rev EXCEPT ![d] = r] BY <2>2, <2>3
  <2>8. /\ sync' = [sync EXCEPT !.at = "writing", !.rev = rev, !.todo = todo] /\ sync \in Syncs
    BY <1>1, <2>3, <2>4, <2>7
  <2>9. sync' \in Syncs /\ sync'.at = "writing" /\ sync'.rev = rev /\ sync'.todo = todo
    BY <2>6, <2>8 DEF Syncs
  <2>10. CorpusTyped' BY <1>1, <2>9 DEF CorpusTyped
  <2>11. StateLocked' BY <1>1, <1>2, <2>3 DEF StateLocked, Cleaning
  <2>12. LeafOf(corpus.rev, leaves) BY <1>1 DEF LeavesKept
  <2>13. LeafOf(rev, leaves \cup todo)
    <3> SUFFICES ASSUME NEW x \in Docs, rev[x] > 0, x \notin everHidden
                 PROVE  Leaf(x, rev[x]) \in leaves \cup todo
      BY DEF LeafOf
    <3>1. CASE x = d /\ r # corpus.rev[d] BY <2>2, <2>6, <2>7, <3>1
    <3>2. CASE ~(x = d /\ r # corpus.rev[d])
      <4>1. rev[x] = corpus.rev[x] BY <2>2, <2>7, <3>2
      <4> QED BY <2>12, <4>1 DEF LeafOf
    <3> QED BY <3>1, <3>2
  <2>14. LeavesKept'
    BY <1>1, <1>2, <2>9, <2>12, <2>13 DEF LeavesKept, LeafOf, Committing, Cleaning, Leaf
  <2> QED BY <1>2, <2>10, <2>11, <2>14 DEF CorpusInv
<1>4. CASE ~SameToken
  <2>1. sync' = Unset /\ stateLock' = stateLock BY <1>4 DEF ReceivePage
  <2>2. CorpusTyped' /\ StateLocked' /\ LeavesKept'
    BY <1>1, <1>2, <2>1 DEF CorpusTyped, StateLocked, LeavesKept, LeafOf, Committing, Cleaning, Leaf
  <2> QED BY <1>2, <2>2 DEF CorpusInv
<1> QED BY <1>3, <1>4

LEMMA WriteLeafInv == CorpusInv /\ WriteLeaf => CorpusInv'
<1> SUFFICES ASSUME CorpusInv, WriteLeaf PROVE CorpusInv'
  OBVIOUS
<1>1. /\ CorpusTyped /\ StateLocked /\ LeavesKept /\ corpus \in CorpusStates
      /\ sync \in Syncs /\ sync # Unset /\ sync.at = "writing"
      /\ UNCHANGED <<corpus, hidden, everHidden, stateLock, refresh, search>>
  BY DEF CorpusInv, CorpusTyped, WriteLeaf
<1>2. PICK l \in sync.todo : leaves' = leaves \cup {l} /\ sync' = [sync EXCEPT !.todo = @ \ {l}]
  BY DEF WriteLeaf
<1>3. /\ sync' \in Syncs /\ sync'.at = "writing" /\ sync'.rev = sync.rev
      /\ sync'.todo = sync.todo \ {l}
  BY <1>1, <1>2 DEF Syncs
<1>4. leaves \subseteq leaves' /\ leaves \cup sync.todo \subseteq leaves' \cup sync'.todo
  BY <1>2, <1>3
<1>5. Copied' BY <1>1, CorpusKept
<1>6. CorpusTyped' /\ StateLocked'
  BY <1>1, <1>3 DEF CorpusTyped, StateLocked, Committing, Cleaning
<1>7. LeavesKept' BY <1>1, <1>3, <1>4 DEF LeavesKept, LeafOf, Committing, Cleaning, Leaf
<1> QED BY <1>5, <1>6, <1>7 DEF CorpusInv

LEMMA PublishStateInv == CorpusInv /\ PublishState => CorpusInv'
<1> SUFFICES ASSUME CorpusInv, PublishState PROVE CorpusInv'
  OBVIOUS
<1>1. /\ CorpusTyped /\ StateLocked /\ LeavesKept /\ corpus \in CorpusStates
      /\ sync \in Syncs /\ sync # Unset /\ sync.at = "writing" /\ sync.todo = {}
      /\ corpus' = [corpus EXCEPT !.rev = sync.rev, !.checkpoint = @ + 1]
      /\ sync' = Unset /\ Copied
      /\ UNCHANGED <<leaves, hidden, everHidden, refresh, search>>
  BY DEF CorpusInv, CorpusTyped, PublishState, LeavesWritten
<1>2. ~Cleaning BY <1>1 DEF StateLocked, Committing
<1>3. PICK n \in Nat : n = corpus.checkpoint + 1 BY <1>1 DEF CorpusStates
<1>4. PICK rev \in [Docs -> Nat] : rev = sync.rev BY <1>1 DEF Syncs
<1>5. corpus' = [corpus EXCEPT !.rev = rev, !.checkpoint = n] BY <1>1, <1>3, <1>4
<1>6. corpus' \in CorpusStates /\ corpus'.rev = sync.rev /\ corpus'.checkpoint = n
  BY <1>1, <1>4, <1>5 DEF CorpusStates
<1>7. CorpusTyped' BY <1>1, <1>6 DEF CorpusTyped
<1>8. StateLocked' /\ LeavesKept'
  BY <1>1, <1>2, <1>6 DEF StateLocked, LeavesKept, LeafOf, Committing, Cleaning, Leaf
<1>9. Copied'
  <2> SUFFICES ASSUME search # Unset
               PROVE  search.commit < n /\ \A l \in search.known : l[1] \notin search.withheld
    BY <1>1, <1>3, <1>6 DEF Copied, CorpusTyped, Searches, CorpusStates
  <2>1. search.commit \in Nat /\ corpus.checkpoint \in Nat
    BY <1>1 DEF CorpusTyped, Searches, CorpusStates
  <2> QED BY <1>1, <1>3, <2>1 DEF Copied
<1> QED BY <1>7, <1>8, <1>9 DEF CorpusInv

LEMMA SyncEndsInv == CorpusInv /\ SyncEnds => CorpusInv'
<1> SUFFICES ASSUME CorpusInv, SyncEnds PROVE CorpusInv'
  OBVIOUS
<1>1. /\ CorpusTyped /\ StateLocked /\ LeavesKept /\ corpus \in CorpusStates
      /\ sync # Unset /\ sync' = Unset
      /\ stateLock' = IF sync.at = "writing" THEN Unset ELSE stateLock
      /\ UNCHANGED <<corpus, leaves, hidden, everHidden, refresh, search>>
  BY DEF CorpusInv, CorpusTyped, SyncEnds
<1>2. Cleaning => sync.at # "writing" BY <1>1 DEF StateLocked, Committing
<1>3. Copied' BY <1>1, CorpusKept
<1>4. CorpusTyped' /\ StateLocked' /\ LeavesKept'
  BY <1>1, <1>2 DEF CorpusTyped, StateLocked, LeavesKept, LeafOf, Committing, Cleaning, Leaf
<1> QED BY <1>3, <1>4 DEF CorpusInv

LEMMA ConfigureInv == CorpusInv /\ Configure => CorpusInv'
<1> SUFFICES ASSUME CorpusInv, Configure PROVE CorpusInv'
  OBVIOUS
<1>1. /\ CorpusTyped /\ StateLocked /\ LeavesKept /\ corpus \in CorpusStates
      /\ corpus' = [corpus EXCEPT !.scope = @ + 1]
      /\ UNCHANGED <<leaves, hidden, everHidden, stateLock, sync, refresh, search>>
  BY DEF CorpusInv, CorpusTyped, Configure
<1>2. PICK n \in Nat : n = corpus.scope + 1 BY <1>1 DEF CorpusStates
<1>3. corpus' = [corpus EXCEPT !.scope = n] BY <1>1, <1>2
<1>4. /\ corpus' \in CorpusStates /\ corpus'.rev = corpus.rev
      /\ corpus'.checkpoint = corpus.checkpoint
  BY <1>1, <1>3 DEF CorpusStates
<1>5. Copied' BY <1>1, <1>4, CorpusKept
<1>6. CorpusTyped' /\ StateLocked' /\ LeavesKept'
  BY <1>1, <1>4 DEF CorpusTyped, StateLocked, LeavesKept, LeafOf, Committing, Cleaning, Leaf
<1> QED BY <1>5, <1>6 DEF CorpusInv

LEMMA BeginRefreshInv == CorpusInv /\ BeginRefresh => CorpusInv'
<1> SUFFICES ASSUME CorpusInv, BeginRefresh PROVE CorpusInv'
  OBVIOUS
<1>1. /\ CorpusTyped /\ StateLocked /\ LeavesKept /\ corpus \in CorpusStates
      /\ stateLock = Unset /\ stateLock' = "refresh"
      /\ refresh' = [at |-> "cleaning", snapshot |-> Visible]
      /\ UNCHANGED <<corpus, leaves, hidden, everHidden, sync, search>>
  BY DEF CorpusInv, CorpusTyped, BeginRefresh
<1>2. corpus.rev \in [Docs -> Nat] /\ ~Committing
  BY <1>1, CorpusAssumption DEF CorpusStates, StateLocked
<1>3. Visible \subseteq LeafNames BY <1>2, NamesOfLeaves
<1>4. refresh' \in Refreshes /\ refresh'.at = "cleaning" /\ refresh'.snapshot = Visible
  BY <1>1, <1>3 DEF Refreshes
<1>5. LeafOf(corpus.rev, Visible)
  <2> SUFFICES ASSUME NEW d \in Docs, corpus.rev[d] > 0, d \notin everHidden
               PROVE  Leaf(d, corpus.rev[d]) \in Visible
    BY DEF LeafOf
  <2>1. Leaf(d, corpus.rev[d]) \in NamedLeaves /\ Leaf(d, corpus.rev[d])[1] = d
    BY <1>2, NamesOfLeaves DEF Leaf
  <2>2. d \notin hidden BY <1>1 DEF CorpusTyped
  <2> QED BY <1>2, <2>1, <2>2, NamesOfLeaves
<1>6. Copied' BY <1>1, CorpusKept
<1>7. CorpusTyped' /\ StateLocked'
  BY <1>1, <1>2, <1>4 DEF CorpusTyped, StateLocked, Committing, Cleaning
<1>8. LeavesKept' BY <1>1, <1>2, <1>4, <1>5 DEF LeavesKept, LeafOf, Committing, Cleaning, Leaf
<1> QED BY <1>6, <1>7, <1>8 DEF CorpusInv

LEMMA RemoveOrphanInv == CorpusInv /\ RemoveOrphan => CorpusInv'
<1> SUFFICES ASSUME CorpusInv, RemoveOrphan PROVE CorpusInv'
  OBVIOUS
<1>1. /\ CorpusTyped /\ StateLocked /\ LeavesKept /\ corpus \in CorpusStates /\ Cleaning
      /\ UNCHANGED <<corpus, hidden, everHidden, stateLock, sync, refresh, search>>
  BY DEF CorpusInv, CorpusTyped, RemoveOrphan, Cleaning
<1>2. PICK l : l \in leaves \ refresh.snapshot /\ leaves' = leaves \ {l}
  BY DEF RemoveOrphan, Orphans
<1>3. ~Committing BY <1>1 DEF StateLocked
<1>4. LeafOf(corpus.rev, leaves') BY <1>1, <1>2 DEF LeavesKept, LeafOf
<1>5. Copied' BY <1>1, CorpusKept
<1>6. CorpusTyped' /\ StateLocked' BY <1>1 DEF CorpusTyped, StateLocked, Committing, Cleaning
<1>7. LeavesKept' BY <1>1, <1>3, <1>4 DEF LeavesKept, LeafOf, Committing, Cleaning, Leaf
<1> QED BY <1>5, <1>6, <1>7 DEF CorpusInv

\* A refresh goes on, or ends, without the lock.
LEMMA RefreshGoesOn ==
  ASSUME CorpusInv, UNCHANGED <<leaves, hidden, everHidden, sync, search>>,
         corpus' \in CorpusStates, corpus'.rev = corpus.rev, corpus'.checkpoint = corpus.checkpoint,
         refresh' \in Refreshes \cup {Unset}, ~Cleaning',
         stateLock' = stateLock \/ (Cleaning /\ stateLock' = Unset)
  PROVE  CorpusInv'
<1>1. CorpusTyped /\ StateLocked /\ LeavesKept BY DEF CorpusInv
<1>2. Copied' BY CorpusKept
<1>3. CorpusTyped' BY <1>1 DEF CorpusTyped
<1>4. Committing => ~Cleaning BY <1>1 DEF StateLocked
<1>5. Committing' = Committing BY DEF Committing
<1>6. StateLocked' BY <1>1, <1>4, <1>5 DEF StateLocked
<1>7. LeavesKept' BY <1>1, <1>5 DEF LeavesKept, LeafOf, Leaf
<1> QED BY <1>2, <1>3, <1>6, <1>7 DEF CorpusInv

LEMMA RefreshStepsInv ==
  ASSUME CorpusInv,
         \/ Cleaned \/ ReadSources \/ MaterializeView \/ UpdateIndex \/ WriteManifest \/ RefreshFails
  PROVE  CorpusInv'
<1>1. /\ corpus \in CorpusStates /\ refresh \in Refreshes
      /\ UNCHANGED <<corpus, leaves, hidden, everHidden, sync, search>>
  BY DEF CorpusInv, CorpusTyped, Cleaned, ReadSources, MaterializeView, UpdateIndex, WriteManifest,
         RefreshFails, qmd
<1>2. \/ refresh' = Unset
      \/ \E at \in {"sources", "view", "update", "manifest", "bind"} :
           refresh' = [refresh EXCEPT !.at = at]
  BY DEF Cleaned, ReadSources, MaterializeView, UpdateIndex, WriteManifest, RefreshFails,
         RefreshEnds
<1>3. refresh' \in Refreshes \cup {Unset} /\ ~Cleaning' BY <1>1, <1>2 DEF Refreshes, Cleaning
<1>4. stateLock' = stateLock \/ (Cleaning /\ stateLock' = Unset)
  BY DEF Cleaned, ReadSources, MaterializeView, UpdateIndex, WriteManifest, RefreshFails, Cleaning
<1> QED BY <1>1, <1>3, <1>4, RefreshGoesOn

LEMMA BindInv == CorpusInv /\ Bind => CorpusInv'
<1> SUFFICES ASSUME CorpusInv, Bind PROVE CorpusInv'
  OBVIOUS
<1>1. /\ corpus \in CorpusStates /\ corpus.rev \in [Docs -> Nat] /\ refresh' = Unset
      /\ UNCHANGED <<leaves, hidden, everHidden, sync, search, stateLock>>
  BY DEF CorpusInv, CorpusTyped, CorpusStates, Bind, RefreshEnds
<1>2. PICK b \in SUBSET LeafNames : b = Visible BY <1>1, NamesOfLeaves
<1>3. corpus' = [corpus EXCEPT !.binding = b] \/ corpus' = corpus BY <1>2 DEF Bind
<1>4. /\ corpus' \in CorpusStates /\ corpus'.rev = corpus.rev
      /\ corpus'.checkpoint = corpus.checkpoint
  BY <1>1, <1>3 DEF CorpusStates
<1> QED BY <1>1, <1>4, RefreshGoesOn DEF Cleaning

LEMMA SetPolicyInv == ASSUME CorpusInv, NEW d \in Docs, SetPolicy(d) PROVE CorpusInv'
<1>1. /\ CorpusTyped /\ StateLocked /\ LeavesKept /\ Copied
      /\ hidden' \subseteq everHidden' /\ everHidden \subseteq everHidden' /\ everHidden' \subseteq Docs
      /\ UNCHANGED <<corpus, leaves, stateLock, sync, refresh, search>>
  BY DEF CorpusInv, CorpusTyped, SetPolicy
<1>2. CorpusTyped' /\ StateLocked' BY <1>1 DEF CorpusTyped, StateLocked, Committing, Cleaning
<1>3. LeavesKept' BY <1>1 DEF LeavesKept, LeafOf, Committing, Cleaning, Leaf
<1>4. Copied' BY <1>1 DEF Copied, NamedLeaves, Leaf
<1> QED BY <1>2, <1>3, <1>4 DEF CorpusInv

LEMMA BeginSearchInv == CorpusInv /\ BeginSearch => CorpusInv'
<1> SUFFICES ASSUME CorpusInv, BeginSearch PROVE CorpusInv'
  OBVIOUS
<1>1. /\ CorpusTyped /\ StateLocked /\ LeavesKept /\ corpus \in CorpusStates
      /\ search' = [known |-> Visible, withheld |-> hidden, asks |-> Current,
                    commit |-> corpus.checkpoint]
      /\ UNCHANGED <<corpus, leaves, hidden, everHidden, stateLock, sync, refresh>>
  BY DEF CorpusInv, CorpusTyped, BeginSearch
<1>2. corpus.rev \in [Docs -> Nat] /\ corpus.checkpoint \in Nat /\ hidden \subseteq Docs
  BY <1>1 DEF CorpusStates, CorpusTyped
<1>3. /\ Visible \subseteq LeafNames /\ Visible \subseteq NamedLeaves /\ Current \in BOOLEAN
      /\ \A l \in Visible : l[1] \notin hidden
  BY <1>2, NamesOfLeaves DEF Current
<1>4. /\ search' \in Searches /\ search'.known = Visible /\ search'.withheld = hidden
      /\ search'.commit = corpus.checkpoint
  BY <1>1, <1>2, <1>3 DEF Searches
<1>5. NamedLeaves' = NamedLeaves BY <1>1 DEF NamedLeaves, Leaf
<1>6. Copied' BY <1>1, <1>2, <1>3, <1>4, <1>5 DEF Copied
<1>7. CorpusTyped' /\ StateLocked' /\ LeavesKept'
  BY <1>1, <1>4 DEF CorpusTyped, StateLocked, LeavesKept, LeafOf, Committing, Cleaning, Leaf
<1> QED BY <1>6, <1>7 DEF CorpusInv

LEMMA EndSearchInv == CorpusInv /\ EndSearch => CorpusInv'
BY DEF CorpusInv, CorpusTyped, StateLocked, LeavesKept, LeafOf, Committing, Cleaning, Leaf, Copied,
       EndSearch

LEMMA CorpusUnchanged == CorpusInv /\ UNCHANGED corpusState => CorpusInv'
BY DEF CorpusInv, CorpusTyped, StateLocked, LeavesKept, LeafOf, Committing, Cleaning, Leaf, Copied,
       NamedLeaves, corpusState

LEMMA CorpusNextInv == CorpusInv /\ (CorpusNext \/ UNCHANGED corpusState) => CorpusInv'
<1> SUFFICES ASSUME CorpusInv, CorpusNext \/ UNCHANGED corpusState PROVE CorpusInv'
  OBVIOUS
<1>1. CASE BeginSync \/ ReceivePage \/ WriteLeaf \/ PublishState \/ SyncEnds \/ Configure
  BY <1>1, BeginSyncInv, ReceivePageInv, WriteLeafInv, PublishStateInv, SyncEndsInv, ConfigureInv
<1>2. CASE BeginRefresh \/ RemoveOrphan \/ Bind
  BY <1>2, BeginRefreshInv, RemoveOrphanInv, BindInv
<1>3. CASE \/ Cleaned \/ ReadSources \/ MaterializeView \/ UpdateIndex \/ WriteManifest
           \/ RefreshFails
  BY <1>3, RefreshStepsInv
<1>4. CASE BeginSearch \/ EndSearch \/ \E d \in Docs : SetPolicy(d)
  BY <1>4, BeginSearchInv, EndSearchInv, SetPolicyInv
<1>5. CASE UNCHANGED corpusState BY <1>5, CorpusUnchanged
<1> QED BY <1>1, <1>2, <1>3, <1>4, <1>5 DEF CorpusNext

LEMMA CorpusReads ==
  ASSUME CorpusInv
  PROVE  Readable /\ SearchFinds
<1>1. /\ corpus.rev \in [Docs -> Nat] /\ hidden \subseteq everHidden
      /\ LeafOf(corpus.rev, leaves) /\ Copied
  BY DEF CorpusInv, CorpusTyped, LeavesKept, CorpusStates
<1>2. ASSUME NEW l \in NamedLeaves, l[1] \notin everHidden
      PROVE  l[1] \notin hidden /\ l \in leaves
  <2>1. l[1] \in Docs /\ corpus.rev[l[1]] > 0 /\ l = Leaf(l[1], corpus.rev[l[1]])
    BY <1>1, <1>2, NamesOfLeaves
  <2>2. Leaf(l[1], corpus.rev[l[1]]) \in leaves BY <1>1, <1>2, <2>1 DEF LeafOf
  <2> QED BY <1>1, <1>2, <2>1, <2>2
<1>3. Readable BY <1>2 DEF Readable, ReadOf
<1>4. ASSUME search # Unset, NEW hits \in Answers, NEW l \in hits
      PROVE  l[1] \notin search.withheld
  <2>1. l \in search.known BY <1>4 DEF Answers, LexicalHits, ScopedHits, RecordsOf
  <2> QED BY <1>1, <1>4, <2>1 DEF Copied
<1>5. ASSUME search # Unset, search.commit = corpus.checkpoint
      PROVE  \A l \in search.known : l[1] \notin everHidden => l \in leaves
  BY <1>1, <1>2, <1>5 DEF Copied
<1>6. SearchFinds BY <1>4, <1>5 DEF SearchFinds, LexicalHits, Reindexed
<1> QED BY <1>3, <1>6

----------------------------------------
(* The sources of the app corpus *)

Entries == [object : Objects, folder : Folders, put : BOOLEAN]
Numbers == Nat \cup {Absent}
Conts == [seen : SUBSET Objects, from : Nat]
ProviderStates ==
  [complete : BOOLEAN, since : Numbers, anchor : Numbers, cursor : Numbers,
   phase : {"list", "changes", Absent}, continuation : Conts \cup {Absent}, folder : 0..2,
   links : [Folders -> Nat], candidates : SUBSET Objects]
ProviderPages == [object : Objects \cup {Absent}, revision : Nat, gone : BOOLEAN,
                  next : Conts \cup {Absent}, at : Nat]
Fetches == Objects \X Nat
ProviderCalls == [state : ProviderStates \cup {Absent}, began : Nat,
                  page : ProviderPages \cup {Absent}, confirm : SUBSET Objects,
                  fetched : SUBSET Fetches]

ProviderTyped ==
  /\ source \in Sources /\ changes \in Seq(Entries) /\ slow \in BOOLEAN
  /\ documents \in [Objects -> Nat]
  /\ saved \in ProviderStates \cup {Absent} /\ call \in ProviderCalls

\* Documents hold what is in the account, or in a folder of the mailbox, up to
\* a place in its history.
InScope(o, f) == Alive(o) /\ (source = "outlook_mail" => InFolder(o, f))
CurrentIn(texts, f, n) ==
  \A o \in Objects : InScope(o, f) /\ Revision(o) <= n => texts[o] = Revision(o)

\* What a checkpoint says of the pass under way.
SeenOf(st) == IF st.continuation = Absent THEN {} ELSE st.continuation.seen
SinceOf(st) == IF source = "google_calendar" /\ st.since # Absent THEN st.since - Overlap ELSE 0
PositionOf(st) ==
  IF st.continuation # Absent THEN st.continuation.from
  ELSE IF source = "outlook_mail" THEN st.links[st.folder] ELSE st.anchor
BoundOf(st, p) == IF st.continuation = Absent THEN p.at ELSE st.continuation.from

\* A checkpoint names no place in the history that is still to come.
Past(st, n) ==
  /\ st.since # Absent => st.since <= n
  /\ st.anchor # Absent => st.anchor <= n
  /\ st.cursor # Absent => st.cursor <= n
  /\ \A f \in Folders : st.links[f] <= n
  /\ st.continuation # Absent => st.continuation.from <= n

\* The fields that go together.
Fits(st) ==
  /\ st.complete => st.phase = Absent /\ st.since # Absent
  /\ st.phase = Absent => st.continuation = Absent
  /\ st.phase = "changes" =>
       /\ source # "google_calendar"
       /\ source # "outlook_mail" => st.anchor # Absent
       /\ source = "outlook_mail" => st.folder \in Folders
       /\ source # "outlook_mail" /\ st.continuation # Absent => st.anchor <= st.continuation.from
  /\ st.phase = "list" =>
       /\ source # "outlook_mail"
       /\ source # "google_calendar" => st.anchor # Absent
       /\ st.continuation # Absent /\ st.anchor # Absent => st.anchor <= st.continuation.from
  /\ st.complete /\ source \in {"gmail", "google_drive"} => st.cursor # Absent
  /\ st.candidates # {} => source = "outlook_mail"

\* What a checkpoint vouches for is in the documents.
Vouches(texts, sl, st) ==
  /\ source \in {"gmail", "google_drive"} /\ st.cursor # Absent => CurrentIn(texts, 0, st.cursor)
  /\ source = "outlook_mail" => \A f \in Folders : CurrentIn(texts, f, st.links[f])
  /\ source = "google_calendar" /\ ~sl /\ st.since # Absent => CurrentIn(texts, 0, st.since - Overlap)
  /\ st.phase = "changes" => CurrentIn(texts, st.folder, PositionOf(st))
  /\ st.phase = "list" /\ st.continuation # Absent =>
       \A o \in st.continuation.seen :
          Alive(o) /\ Revision(o) <= st.continuation.from => texts[o] = Revision(o)

Sound(texts, sl, st) ==
  st \in ProviderStates /\ Past(st, Clock) /\ Fits(st) /\ Vouches(texts, sl, st)

\* A page tells what its object was when it was read.
PageTrue(st, p) ==
  p.object # Absent =>
    /\ Revision(p.object) > 0
    /\ InScope(p.object, st.folder) /\ Revision(p.object) <= p.at
         => ~p.gone /\ p.revision = Revision(p.object)
    /\ source # "outlook_mail" /\ p.gone => ~Alive(p.object)

\* After the last page of a listing nothing is left of what was there when it
\* began.
PageLists(st, p) ==
  /\ p.next = Absent =>
       \A o \in Objects \ (SeenOf(st) \cup {p.object}) :
          Alive(o) /\ Revision(o) <= BoundOf(st, p) => Revision(o) < SinceOf(st)
  /\ p.next # Absent =>
       /\ p.object \in Objects
       /\ p.next.seen = SeenOf(st) \cup {p.object} /\ p.next.from = BoundOf(st, p)

\* A page of changes leaves none out up to where the next one begins.
UpTo(p) == IF p.next = Absent THEN p.at ELSE p.next.from
PageChanges(st, p) ==
  /\ UpTo(p) <= p.at /\ PositionOf(st) <= UpTo(p)
  /\ \A o \in Objects \ {p.object} :
        InScope(o, st.folder) /\ Revision(o) <= UpTo(p) => Revision(o) <= PositionOf(st)

PageOK(st, p, began) ==
  /\ p \in ProviderPages /\ p.at <= Clock /\ began <= p.at /\ Past(st, p.at)
  /\ st.phase \in {"list", "changes"}
  /\ PageTrue(st, p)
  /\ st.phase = "list" => PageLists(st, p)
  /\ st.phase = "changes" => PageChanges(st, p)

\* What an object is, once what was fetched is stored.
Held(set, o) ==
  /\ documents[o] = Revision(o) \/ \E d \in set : d[1] = o
  /\ \A d \in set : d[1] = o => d[2] = Revision(o)

\* While removals are confirmed, what was fetched and what the corpus holds are
\* together what the checkpoint will vouch for.
Confirming(st, fetched) ==
  /\ source = "outlook_mail" /\ st \in ProviderStates /\ st.complete
  /\ Past(st, Clock) /\ Fits(st)
  /\ \A o \in Objects, f \in Folders :
       InFolder(o, f) /\ Revision(o) <= st.links[f] => Held(fetched, o)

CallOK(c) ==
  /\ c.began <= Clock
  /\ c.confirm = {} =>
       /\ Sound(documents, slow, c.state) /\ ~c.state.complete
       /\ c.page # Absent => PageOK(c.state, c.page, c.began)
  /\ c.confirm # {} => c.page = Absent /\ Confirming(c.state, c.fetched)

\* A Gmail message that was removed does not come back.
GoneStays ==
  source = "gmail" => \A i \in DOMAIN changes : ~changes[i].put => ~Alive(changes[i].object)

ProviderInv ==
  /\ ProviderTyped /\ GoneStays
  /\ saved # Absent => Sound(documents, slow, saved)
  /\ call # NoCall => CallOK(call)

\* What a checkpoint would vouch for once what was fetched is stored.
Reaches(set, f, n) ==
  \A o \in Objects : InScope(o, f) /\ Revision(o) <= n => Held(set, o)
Reaching(set, sl, st) ==
  /\ source \in {"gmail", "google_drive"} /\ st.cursor # Absent => Reaches(set, 0, st.cursor)
  /\ source = "outlook_mail" => \A f \in Folders : Reaches(set, f, st.links[f])
  /\ source = "google_calendar" /\ ~sl /\ st.since # Absent => Reaches(set, 0, st.since - Overlap)
  /\ st.phase = "changes" => Reaches(set, st.folder, PositionOf(st))
  /\ st.phase = "list" /\ st.continuation # Absent =>
       \A o \in st.continuation.seen :
          Alive(o) /\ Revision(o) <= st.continuation.from => Held(set, o)

----------------------------------------
\* The least and the greatest of some numbers that are bounded.
LEMMA MinIs ==
  ASSUME NEW n \in Nat, NEW S \in SUBSET (0..n), S # {}
  PROVE  Min(S) \in S /\ \A x \in S : Min(S) <= x
<1>1. \E m \in S : \A x \in S : m <= x BY LeastAndGreatest
<1> QED BY <1>1 DEF Min

----------------------------------------
\* The history of the account, for any history.
RevOf(c, o) == Max({0} \cup {i \in DOMAIN c : c[i].object = o})
LivesIn(c, o) == RevOf(c, o) > 0 /\ c[RevOf(c, o)].put
InDir(c, o, f) == LivesIn(c, o) /\ c[RevOf(c, o)].folder = f

LEMMA HistoryIs ==
  ASSUME NEW o
  PROVE  /\ Revision(o) = RevOf(changes, o) /\ Revision(o)' = RevOf(changes', o)
         /\ Alive(o) <=> LivesIn(changes, o)
         /\ Alive(o)' <=> LivesIn(changes', o)
         /\ \A f : InFolder(o, f) <=> InDir(changes, o, f)
         /\ \A f : InFolder(o, f)' <=> InDir(changes', o, f)
<1>1. Revision(o) = RevOf(changes, o) /\ Revision(o)' = RevOf(changes', o)
  BY DEF Revision, RevOf
<1> QED BY <1>1 DEF Alive, LivesIn, InFolder, InDir

LEMMA RevIs ==
  ASSUME NEW c \in Seq(Entries), NEW o
  PROVE  /\ RevOf(c, o) \in 0..Len(c)
         /\ \A i \in DOMAIN c : c[i].object = o => i <= RevOf(c, o)
         /\ RevOf(c, o) > 0 => RevOf(c, o) \in DOMAIN c /\ c[RevOf(c, o)].object = o
<1>1. Len(c) \in Nat /\ DOMAIN c = 1..Len(c) OBVIOUS
<1>2. PICK S : S = {0} \cup {i \in DOMAIN c : c[i].object = o} OBVIOUS
<1>3. S \in SUBSET (0..Len(c)) /\ S # {} BY <1>1, <1>2
<1>4. Max(S) \in S /\ \A x \in S : Max(S) >= x BY <1>1, <1>3, LeastAndGreatest
<1>5. RevOf(c, o) = Max(S) BY <1>2 DEF RevOf
<1>6. \A i \in DOMAIN c : c[i].object = o => i <= RevOf(c, o) BY <1>1, <1>2, <1>3, <1>4, <1>5
<1> QED BY <1>1, <1>2, <1>3, <1>4, <1>5, <1>6

\* The last change of an object is its revision.
LEMMA RevUnique ==
  ASSUME NEW c \in Seq(Entries), NEW o, NEW n \in 0..Len(c),
         n > 0 => c[n].object = o,
         \A i \in DOMAIN c : i > n => c[i].object # o
  PROVE  RevOf(c, o) = n
<1>1. /\ RevOf(c, o) \in 0..Len(c) /\ DOMAIN c = 1..Len(c) /\ Len(c) \in Nat
      /\ RevOf(c, o) > 0 => c[RevOf(c, o)].object = o
      /\ \A i \in DOMAIN c : c[i].object = o => i <= RevOf(c, o)
  BY RevIs
<1>2. RevOf(c, o) <= n BY <1>1
<1>3. n <= RevOf(c, o) BY <1>1
<1> QED BY <1>1, <1>2, <1>3

\* A longer history of the same account: what is new in it is about objects
\* that were new or alive.
Grows(c, d) ==
  /\ c \in Seq(Entries) /\ d \in Seq(Entries) /\ Len(c) <= Len(d)
  /\ \A i \in DOMAIN c : d[i] = c[i]
  /\ \A i \in DOMAIN d : i > Len(c) => RevOf(c, d[i].object) = 0 \/ LivesIn(c, d[i].object)

LEMMA GrowthIs ==
  ASSUME NEW c, NEW d, Grows(c, d), NEW o
  PROVE  \/ /\ RevOf(d, o) = RevOf(c, o) /\ (LivesIn(d, o) <=> LivesIn(c, o))
            /\ \A f : InDir(d, o, f) <=> InDir(c, o, f)
         \/ /\ RevOf(d, o) > Len(c) /\ (RevOf(c, o) = 0 \/ LivesIn(c, o))
<1>1. /\ c \in Seq(Entries) /\ d \in Seq(Entries) /\ Len(c) <= Len(d)
      /\ \A i \in DOMAIN c : d[i] = c[i]
      /\ \A i \in DOMAIN d : i > Len(c) => RevOf(c, d[i].object) = 0 \/ LivesIn(c, d[i].object)
      /\ DOMAIN c = 1..Len(c) /\ DOMAIN d = 1..Len(d) /\ Len(c) \in Nat /\ Len(d) \in Nat
  BY DEF Grows
<1>2. /\ RevOf(c, o) \in 0..Len(c)
      /\ \A i \in DOMAIN c : c[i].object = o => i <= RevOf(c, o)
      /\ RevOf(c, o) > 0 => RevOf(c, o) \in DOMAIN c /\ c[RevOf(c, o)].object = o
  BY <1>1, RevIs
<1>3. /\ RevOf(d, o) \in 0..Len(d)
      /\ RevOf(d, o) > 0 => RevOf(d, o) \in DOMAIN d /\ d[RevOf(d, o)].object = o
  BY <1>1, RevIs
<1>4. CASE RevOf(d, o) > Len(c)
  <2>1. RevOf(d, o) \in DOMAIN d /\ d[RevOf(d, o)].object = o BY <1>1, <1>3, <1>4
  <2> QED BY <1>1, <1>4, <2>1
<1>5. CASE ~(RevOf(d, o) > Len(c))
  <2>1. \A i \in DOMAIN d : d[i].object = o => i <= RevOf(d, o) BY <1>1, RevIs
  <2>2. \A i \in DOMAIN d : i > Len(c) => d[i].object # o BY <1>1, <1>3, <1>5, <2>1
  <2>3. RevOf(c, o) > 0 => d[RevOf(c, o)].object = o BY <1>1, <1>2
  <2>4. \A i \in DOMAIN d : i > RevOf(c, o) => d[i].object # o BY <1>1, <1>2, <2>2
  <2>5. RevOf(c, o) \in 0..Len(d) BY <1>1, <1>2
  <2>6. RevOf(d, o) = RevOf(c, o) BY <1>1, <2>3, <2>4, <2>5, RevUnique
  <2>7. RevOf(c, o) > 0 => d[RevOf(c, o)] = c[RevOf(c, o)] BY <1>1, <1>2
  <2> QED BY <2>6, <2>7 DEF LivesIn, InDir
<1> QED BY <1>4, <1>5

\* The same, of the account of the model.
LEMMA AccountGrows ==
  ASSUME Grows(changes, changes'), NEW o
  PROVE  /\ \/ /\ Revision(o)' = Revision(o) /\ (Alive(o)' <=> Alive(o))
               /\ \A f : InFolder(o, f)' <=> InFolder(o, f)
            \/ Revision(o)' > Clock /\ (Revision(o) = 0 \/ Alive(o))
         /\ Revision(o) \in 0..Clock /\ Revision(o)' \in Nat /\ Clock \in Nat /\ Clock' \in Nat
         /\ Clock <= Clock'
<1>1. /\ changes \in Seq(Entries) /\ changes' \in Seq(Entries) /\ Clock <= Clock'
      /\ Clock \in Nat /\ Clock' \in Nat
  BY DEF Grows, Clock
<1>2. RevOf(changes, o) \in 0..Len(changes) /\ RevOf(changes', o) \in 0..Len(changes')
  BY <1>1, RevIs
<1>3. RevOf(changes', o) \in Nat BY <1>1, <1>2
<1> QED BY <1>1, <1>2, <1>3, HistoryIs, GrowthIs DEF Clock

\* A history that stays as it is.
LEMMA GrowsNot ==
  ASSUME NEW c \in Seq(Entries)
  PROVE  Grows(c, c)
BY DEF Grows

LEMMA RevisionIs ==
  ASSUME changes \in Seq(Entries), NEW o
  PROVE  /\ Revision(o) \in 0..Clock /\ Clock \in Nat /\ Revision(o) \in Nat
         /\ Revision(o) > 0 => Revision(o) \in DOMAIN changes /\ changes[Revision(o)].object = o
         /\ \A i \in DOMAIN changes : changes[i].object = o => i <= Revision(o)
         /\ Alive(o) => Revision(o) > 0
         /\ \A f : InFolder(o, f) => Alive(o) /\ changes[Revision(o)].folder = f
<1>1. Clock \in Nat BY DEF Clock
<1> QED BY <1>1, HistoryIs, RevIs DEF Clock, Alive, InFolder

----------------------------------------
\* What is known of the past stays known as the account goes on.
LEMMA CurrentCarries ==
  ASSUME Grows(changes, changes'), source' = source,
         NEW texts, NEW f, NEW n \in Int, n <= Clock, CurrentIn(texts, f, n)
  PROVE  CurrentIn(texts, f, n)'
<1> SUFFICES ASSUME NEW o \in Objects, InScope(o, f)', Revision(o)' <= n
             PROVE  texts[o] = Revision(o)'
  BY DEF CurrentIn
<1>1. Clock \in Nat /\ Revision(o)' \in Nat BY AccountGrows
<1>2. /\ Revision(o)' = Revision(o) /\ (Alive(o)' <=> Alive(o))
      /\ \A g : InFolder(o, g)' <=> InFolder(o, g)
  BY <1>1, AccountGrows
<1>3. InScope(o, f) BY <1>2 DEF InScope
<1> QED BY <1>2, <1>3 DEF CurrentIn

LEMMA PastCarries ==
  ASSUME Grows(changes, changes'), NEW st \in ProviderStates, Past(st, Clock)
  PROVE  Past(st, Clock')
<1>1. Clock \in Nat /\ Clock' \in Nat /\ Clock <= Clock' BY DEF Grows, Clock
<1>2. /\ st.since # Absent => st.since \in Nat
      /\ st.anchor # Absent => st.anchor \in Nat
      /\ st.cursor # Absent => st.cursor \in Nat
      /\ st.continuation # Absent => st.continuation.from \in Nat
      /\ \A f \in Folders : st.links[f] \in Nat
  BY DEF ProviderStates, Numbers, Conts
<1>3. \A n \in Nat : n <= Clock => n <= Clock' BY <1>1
<1> QED BY <1>2, <1>3 DEF Past

LEMMA FitsCarries ==
  ASSUME source' = source, NEW st, Fits(st)
  PROVE  Fits(st)'
BY DEF Fits

\* The numbers of a checkpoint.
LEMMA StateNumbers ==
  ASSUME NEW st \in ProviderStates
  PROVE  /\ st.since # Absent => st.since \in Nat
         /\ st.anchor # Absent => st.anchor \in Nat
         /\ st.cursor # Absent => st.cursor \in Nat
         /\ st.continuation # Absent =>
              st.continuation \in Conts /\ st.continuation.from \in Nat
                /\ st.continuation.seen \subseteq Objects
         /\ \A f \in Folders : st.links[f] \in Nat
         /\ st.complete \in BOOLEAN /\ st.folder \in 0..2 /\ st.candidates \subseteq Objects
         /\ st.phase \in {"list", "changes", Absent} /\ st.links \in [Folders -> Nat]
BY DEF ProviderStates, Numbers, Conts

LEMMA PositionPast ==
  ASSUME NEW st \in ProviderStates, NEW n \in Nat, Past(st, n), Fits(st), st.phase = "changes"
  PROVE  PositionOf(st) \in Nat /\ PositionOf(st) <= n
<1>1. CASE st.continuation # Absent BY <1>1, StateNumbers DEF PositionOf, Past
<1>2. CASE st.continuation = Absent /\ source = "outlook_mail"
  <2>1. st.folder \in Folders BY <1>2, ProviderAssumption DEF Fits
  <2> QED BY <1>2, <2>1, StateNumbers DEF PositionOf, Past
<1>3. CASE st.continuation = Absent /\ source # "outlook_mail"
  <2>1. st.anchor # Absent BY <1>3 DEF Fits
  <2> QED BY <1>3, <2>1, StateNumbers DEF PositionOf, Past
<1> QED BY <1>1, <1>2, <1>3

LEMMA SoundCarries ==
  ASSUME Grows(changes, changes'), source' = source, NEW texts, NEW sl, NEW st,
         Sound(texts, sl, st)
  PROVE  Sound(texts, sl, st)'
<1>1. st \in ProviderStates /\ Past(st, Clock) /\ Fits(st) /\ Vouches(texts, sl, st) /\ Clock \in Nat
  BY DEF Sound, Clock, Grows
<1>2. Past(st, Clock') /\ Fits(st)' BY <1>1, PastCarries, FitsCarries
<1>3. ASSUME source \in {"gmail", "google_drive"}, st.cursor # Absent
      PROVE  CurrentIn(texts, 0, st.cursor)'
  <2>1. st.cursor \in Int /\ st.cursor <= Clock /\ CurrentIn(texts, 0, st.cursor)
    BY <1>1, <1>3, StateNumbers DEF Past, Vouches
  <2> QED BY <2>1, CurrentCarries
<1>4. ASSUME source = "outlook_mail", NEW f \in Folders
      PROVE  CurrentIn(texts, f, st.links[f])'
  <2>1. st.links[f] \in Int /\ st.links[f] <= Clock /\ CurrentIn(texts, f, st.links[f])
    BY <1>1, <1>4, StateNumbers DEF Past, Vouches
  <2> QED BY <2>1, CurrentCarries
<1>5. ASSUME source = "google_calendar", ~sl, st.since # Absent
      PROVE  CurrentIn(texts, 0, st.since - Overlap)'
  <2>1. /\ st.since - Overlap \in Int /\ st.since - Overlap <= Clock
        /\ CurrentIn(texts, 0, st.since - Overlap)
    <3>1. st.since \in Nat /\ st.since <= Clock /\ Overlap \in Nat
      BY <1>1, <1>5, StateNumbers, ProviderAssumption DEF Past
    <3> QED BY <1>1, <1>5, <3>1 DEF Vouches
  <2> QED BY <2>1, CurrentCarries
<1>6. ASSUME st.phase = "changes" PROVE CurrentIn(texts, st.folder, PositionOf(st))'
  <2>1. PositionOf(st) \in Int /\ PositionOf(st) <= Clock /\ PositionOf(st)' = PositionOf(st)
    BY <1>1, <1>6, PositionPast DEF PositionOf
  <2>2. PICK n \in Int : n = PositionOf(st) /\ n <= Clock BY <2>1
  <2>3. CurrentIn(texts, st.folder, n) BY <1>1, <1>6, <2>2 DEF Vouches
  <2>4. CurrentIn(texts, st.folder, n)' BY <2>2, <2>3, CurrentCarries
  <2> QED BY <2>1, <2>2, <2>4 DEF CurrentIn
<1>7. ASSUME st.phase = "list", st.continuation # Absent, NEW o \in st.continuation.seen, Alive(o)',
             Revision(o)' <= st.continuation.from
      PROVE  texts[o] = Revision(o)'
  <2>1. st.continuation.from \in Nat /\ st.continuation.from <= Clock
    BY <1>1, <1>7, StateNumbers DEF Past
  <2>2. Revision(o)' = Revision(o) /\ Alive(o) BY <1>7, <2>1, AccountGrows
  <2> QED BY <1>1, <1>7, <2>2 DEF Vouches
<1>8. Vouches(texts, sl, st)' BY <1>3, <1>4, <1>5, <1>6, <1>7 DEF Vouches
<1> QED BY <1>1, <1>2, <1>8 DEF Sound

LEMMA PageCarries ==
  ASSUME Grows(changes, changes'), source' = source, NEW st \in ProviderStates, NEW p, NEW began,
         Fits(st), PageOK(st, p, began)
  PROVE  PageOK(st, p, began)'
<1>1. /\ p \in ProviderPages /\ p.at <= Clock /\ began <= p.at /\ Past(st, p.at)
      /\ st.phase \in {"list", "changes"} /\ PageTrue(st, p)
      /\ Clock \in Nat /\ Clock' \in Nat /\ Clock <= Clock' /\ p.at \in Nat
  BY DEF PageOK, ProviderPages, Grows, Clock
<1>2. p.at <= Clock' BY <1>1
<1>3. ASSUME NEW o, NEW n \in Int, n <= Clock, Revision(o)' <= n
      PROVE  /\ Revision(o)' = Revision(o) /\ (Alive(o)' <=> Alive(o))
             /\ \A f : InScope(o, f)' <=> InScope(o, f)
  <2>1. /\ Revision(o)' = Revision(o) /\ (Alive(o)' <=> Alive(o))
        /\ \A f : InFolder(o, f)' <=> InFolder(o, f)
    BY <1>1, <1>3, AccountGrows
  <2> QED BY <2>1 DEF InScope
<1>4. PageTrue(st, p)'
  <2> SUFFICES ASSUME p.object # Absent
               PROVE  /\ Revision(p.object)' > 0
                      /\ InScope(p.object, st.folder)' /\ Revision(p.object)' <= p.at
                           => ~p.gone /\ p.revision = Revision(p.object)'
                      /\ source # "outlook_mail" /\ p.gone => ~Alive(p.object)'
    BY DEF PageTrue
  <2>1. /\ Revision(p.object) > 0
        /\ InScope(p.object, st.folder) /\ Revision(p.object) <= p.at
             => ~p.gone /\ p.revision = Revision(p.object)
        /\ source # "outlook_mail" /\ p.gone => ~Alive(p.object)
    BY <1>1 DEF PageTrue
  <2>2. /\ \/ /\ Revision(p.object)' = Revision(p.object) /\ (Alive(p.object)' <=> Alive(p.object))
              /\ \A f : InFolder(p.object, f)' <=> InFolder(p.object, f)
           \/ Revision(p.object)' > Clock /\ (Revision(p.object) = 0 \/ Alive(p.object))
        /\ Revision(p.object)' \in Nat /\ Revision(p.object) \in 0..Clock
    BY AccountGrows
  <2>3. Revision(p.object)' > 0 BY <1>1, <2>1, <2>2
  <2>4. ASSUME InScope(p.object, st.folder)', Revision(p.object)' <= p.at
        PROVE  ~p.gone /\ p.revision = Revision(p.object)'
    BY <1>1, <1>3, <2>1, <2>4
  <2>5. ASSUME source # "outlook_mail", p.gone PROVE ~Alive(p.object)' BY <2>1, <2>2, <2>5
  <2> QED BY <2>3, <2>4, <2>5
<1>5. ASSUME st.phase = "list" PROVE PageLists(st, p)'
  <2>1. PageLists(st, p) /\ SinceOf(st)' = SinceOf(st) BY <1>5 DEF PageOK, SinceOf
  <2>2. BoundOf(st, p) \in Nat /\ BoundOf(st, p) <= p.at BY <1>1, StateNumbers DEF BoundOf, Past
  <2>3. ASSUME p.next = Absent, NEW o \in Objects \ (SeenOf(st) \cup {p.object}), Alive(o)',
               Revision(o)' <= BoundOf(st, p)
        PROVE  Revision(o)' < SinceOf(st)
    <3>1. BoundOf(st, p) <= Clock BY <1>1, <2>2
    <3>2. Revision(o)' = Revision(o) /\ Alive(o) BY <1>3, <2>2, <2>3, <3>1
    <3> QED BY <2>1, <2>3, <3>2 DEF PageLists
  <2> QED BY <2>1, <2>3 DEF PageLists, SeenOf, BoundOf
<1>6. ASSUME st.phase = "changes" PROVE PageChanges(st, p)'
  <2>1. PageChanges(st, p) /\ PositionOf(st)' = PositionOf(st) BY <1>6 DEF PageOK, PositionOf
  <2>2. UpTo(p) \in Nat /\ UpTo(p) <= Clock
    <3>1. UpTo(p) \in Nat BY <1>1 DEF UpTo, ProviderPages, Conts
    <3> QED BY <1>1, <2>1, <3>1 DEF PageChanges
  <2>3. ASSUME NEW o \in Objects \ {p.object}, InScope(o, st.folder)', Revision(o)' <= UpTo(p)
        PROVE  Revision(o)' <= PositionOf(st)
    <3>1. Revision(o)' = Revision(o) /\ InScope(o, st.folder) BY <1>3, <2>2, <2>3
    <3> QED BY <2>1, <2>3, <3>1 DEF PageChanges
  <2> QED BY <2>1, <2>3 DEF PageChanges, UpTo
<1> QED BY <1>1, <1>2, <1>4, <1>5, <1>6 DEF PageOK

LEMMA ConfirmingCarries ==
  ASSUME Grows(changes, changes'), UNCHANGED <<source, documents>>, NEW st, NEW fetched,
         Confirming(st, fetched)
  PROVE  Confirming(st, fetched)'
<1>1. /\ st \in ProviderStates /\ Past(st, Clock) /\ Fits(st) /\ st.complete
      /\ source = "outlook_mail" /\ Clock \in Nat
  BY DEF Confirming, Clock, Grows
<1>2. Past(st, Clock') /\ Fits(st)' BY <1>1, PastCarries, FitsCarries
<1>3. ASSUME NEW o \in Objects, NEW f \in Folders, InFolder(o, f)', Revision(o)' <= st.links[f]
      PROVE  Held(fetched, o)'
  <2>1. st.links[f] \in Nat /\ st.links[f] <= Clock BY <1>1, StateNumbers DEF Past
  <2>2. Revision(o)' = Revision(o) /\ InFolder(o, f) BY <1>3, <2>1, AccountGrows
  <2> QED BY <1>3, <2>2 DEF Confirming, Held
<1> QED BY <1>1, <1>2, <1>3 DEF Confirming

\* A call stays right while the account goes on and the documents stay.
LEMMA CallCarries ==
  ASSUME Grows(changes, changes'), UNCHANGED <<source, documents, slow>>,
         NEW c \in ProviderCalls, CallOK(c)
  PROVE  CallOK(c)'
<1>1. c.began <= Clock /\ c.began \in Nat /\ Clock \in Nat /\ Clock' \in Nat /\ Clock <= Clock'
  BY DEF CallOK, ProviderCalls, Grows, Clock
<1>2. c.began <= Clock' BY <1>1
<1>3. ASSUME c.confirm = {}
      PROVE  /\ Sound(documents, slow, c.state)' /\ ~c.state.complete
             /\ c.page # Absent => PageOK(c.state, c.page, c.began)'
  <2>1. /\ Sound(documents, slow, c.state) /\ ~c.state.complete
        /\ c.page # Absent => PageOK(c.state, c.page, c.began)
    BY <1>3 DEF CallOK
  <2>2. PICK texts, sl : texts = documents /\ sl = slow OBVIOUS
  <2>3. Sound(texts, sl, c.state)' BY <2>1, <2>2, SoundCarries
  <2>4. c.state \in ProviderStates /\ Fits(c.state) BY <2>1 DEF Sound
  <2>5. c.page # Absent => PageOK(c.state, c.page, c.began)' BY <2>1, <2>4, PageCarries
  <2>6. documents' = texts /\ slow' = sl BY <2>2
  <2> QED BY <2>1, <2>3, <2>5, <2>6
<1>4. ASSUME c.confirm # {}
      PROVE  c.page = Absent /\ Confirming(c.state, c.fetched)'
  BY <1>4, ConfirmingCarries DEF CallOK
<1> QED BY <1>2, <1>3, <1>4 DEF CallOK

----------------------------------------
\* A checkpoint that vouches for nothing.
LEMMA InitialIs ==
  /\ InitialState \in ProviderStates /\ ~InitialState.complete /\ InitialState.since = Absent
  /\ InitialState.anchor = Absent /\ InitialState.cursor = Absent
  /\ InitialState.phase = Absent /\ InitialState.continuation = Absent
  /\ InitialState.candidates = {} /\ InitialState.complete = FALSE
  /\ \A f \in Folders : InitialState.links[f] = 0
<1>1. PICK none : none = [f \in Folders |-> 0] OBVIOUS
<1>2. none \in [Folders -> Nat] /\ \A f \in Folders : none[f] = 0 BY <1>1
<1>3. PICK st : st = [complete |-> FALSE, since |-> Absent, anchor |-> Absent, cursor |-> Absent,
                      phase |-> Absent, continuation |-> Absent, folder |-> 0, links |-> none,
                      candidates |-> {}]
  OBVIOUS
<1>4. InitialState = st BY <1>1, <1>3 DEF InitialState
<1>5. st \in ProviderStates BY <1>2, <1>3 DEF ProviderStates, Numbers
<1> QED BY <1>2, <1>3, <1>4, <1>5

LEMMA InitialSound ==
  ASSUME NEW texts, NEW sl, changes \in Seq(Entries)
  PROVE  Sound(texts, sl, InitialState) /\ ~InitialState.complete
<1>1. PICK st \in ProviderStates : st = InitialState BY InitialIs
<1>2. /\ ~st.complete /\ st.since = Absent /\ st.anchor = Absent /\ st.cursor = Absent
      /\ st.phase = Absent /\ st.continuation = Absent /\ st.candidates = {}
      /\ \A f \in Folders : st.links[f] = 0
  BY <1>1, InitialIs
<1>3. Clock \in Nat BY DEF Clock
<1>4. Past(st, Clock) BY <1>2, <1>3 DEF Past
<1>5. Fits(st) BY <1>2, ProviderAssumption DEF Fits
<1>6. \A f \in Folders : CurrentIn(texts, f, st.links[f])
  <2> SUFFICES ASSUME NEW f \in Folders, NEW o \in Objects, InScope(o, f), Revision(o) <= st.links[f]
               PROVE  FALSE
    BY DEF CurrentIn
  <2>1. Revision(o) > 0 /\ Revision(o) \in Nat BY RevisionIs DEF InScope
  <2> QED BY <1>2, <2>1
<1>7. Vouches(texts, sl, st) BY <1>2, <1>6, ProviderAssumption DEF Vouches
<1> QED BY <1>1, <1>2, <1>4, <1>5, <1>7 DEF Sound

LEMMA NoCallTyped ==
  /\ NoCall \in ProviderCalls /\ NoCall.page = Absent /\ NoCall.confirm = {}
  /\ NoCall = [state |-> Absent, began |-> 0, page |-> Absent, confirm |-> {}, fetched |-> {}]
BY DEF NoCall, ProviderCalls

LEMMA ProviderInitInv == ProviderInit => ProviderInv
<1> SUFFICES ASSUME ProviderInit PROVE ProviderInv
  OBVIOUS
<1>1. /\ source \in Sources /\ changes = <<>> /\ documents = [o \in Objects |-> 0]
      /\ saved = Absent /\ call = NoCall /\ slow = FALSE
  BY DEF ProviderInit
<1>2. documents \in [Objects -> Nat] /\ changes \in Seq(Entries) BY <1>1
<1>3. ProviderTyped BY <1>1, <1>2, NoCallTyped DEF ProviderTyped
<1>4. GoneStays BY <1>1 DEF GoneStays
<1> QED BY <1>1, <1>3, <1>4 DEF ProviderInv

\* Steps that leave the documents alone: everything that was right stays right.
LEMMA InvCarries ==
  ASSUME ProviderInv, Grows(changes, changes'), UNCHANGED <<source, documents, slow>>, GoneStays',
         saved' = saved \/ (saved' \in ProviderStates /\ Sound(documents, slow, saved')),
         call' = call \/ call' = NoCall \/ (call' \in ProviderCalls /\ CallOK(call'))
  PROVE  ProviderInv'
<1>1. ProviderTyped' BY NoCallTyped DEF ProviderInv, ProviderTyped, Grows
<1>2. PICK texts, sl, st, c : texts = documents /\ sl = slow /\ st = saved' /\ c = call' OBVIOUS
<1>3. ASSUME st # Absent PROVE Sound(documents, slow, saved)'
  <2>1. Sound(texts, sl, st) BY <1>2, <1>3 DEF ProviderInv
  <2>2. Sound(texts, sl, st)' BY <2>1, SoundCarries
  <2> QED BY <1>2, <2>2
<1>4. ASSUME c # NoCall PROVE CallOK(call)'
  <2>1. CallOK(c) /\ c \in ProviderCalls BY <1>2, <1>4 DEF ProviderInv, ProviderTyped
  <2>2. CallOK(c)' BY <2>1, CallCarries
  <2> QED BY <1>2, <2>2
<1> QED BY <1>1, <1>2, <1>3, <1>4 DEF ProviderInv, NoCall

\* Steps of a call: the account stays as well.
LEMMA CallGoesOn ==
  ASSUME ProviderInv, UNCHANGED <<changes, source, documents, slow>>,
         saved' = saved \/ (saved' \in ProviderStates /\ Sound(documents, slow, saved')),
         call' = call \/ call' = NoCall \/ (call' \in ProviderCalls /\ CallOK(call'))
  PROVE  ProviderInv'
<1>1. changes \in Seq(Entries) /\ GoneStays BY DEF ProviderInv, ProviderTyped
<1>2. Grows(changes, changes') BY <1>1, GrowsNot
<1>3. \A o : Alive(o)' <=> Alive(o) BY HistoryIs
<1>4. GoneStays' BY <1>1, <1>3 DEF GoneStays
<1> QED BY <1>2, <1>4, InvCarries

----------------------------------------
LEMMA GoneIs ==
  /\ GoneStays <=> (source = "gmail" =>
       \A i \in DOMAIN changes : ~changes[i].put => ~LivesIn(changes, changes[i].object))
  /\ GoneStays' <=> (source' = "gmail" =>
       \A i \in DOMAIN changes' : ~changes'[i].put => ~LivesIn(changes', changes'[i].object))
BY DEF GoneStays, Alive, Revision, LivesIn, RevOf

\* One more change of the account.
LEMMA OneChange ==
  ASSUME ProviderInv, NEW e \in Entries, changes' = Append(changes, e),
         UNCHANGED <<source, documents, slow, saved, call>>,
         Revision(e.object) = 0 \/ Alive(e.object)
  PROVE  ProviderInv'
<1>1. changes \in Seq(Entries) /\ GoneStays /\ Clock \in Nat /\ DOMAIN changes = 1..Clock
  BY DEF ProviderInv, ProviderTyped, Clock
<1>2. /\ changes' \in Seq(Entries) /\ DOMAIN changes' = 1..(Clock + 1) /\ Len(changes') = Clock + 1
      /\ \A i \in DOMAIN changes : changes'[i] = changes[i]
      /\ changes'[Clock + 1] = e
  BY <1>1 DEF Clock
<1>3. RevOf(changes, e.object) = 0 \/ LivesIn(changes, e.object) BY HistoryIs
<1>4. Grows(changes, changes') BY <1>1, <1>2, <1>3 DEF Grows, Clock
<1>5. GoneStays'
  <2> SUFFICES ASSUME source = "gmail", NEW i \in DOMAIN changes', ~changes'[i].put
               PROVE  ~LivesIn(changes', changes'[i].object)
    BY <1>2, GoneIs
  <2>1. CASE i = Clock + 1
    <3>1. PICK d, x, n : d = changes' /\ x = e.object /\ n = Clock + 1 OBVIOUS
    <3>2. /\ d \in Seq(Entries) /\ n \in 0..Len(d) /\ d[n].object = x
          /\ \A j \in DOMAIN d : j > n => d[j].object # x
      BY <1>1, <1>2, <3>1
    <3>3. RevOf(d, x) = n BY <3>2, RevUnique
    <3> QED BY <1>2, <2>1, <3>1, <3>3 DEF LivesIn
  <2>2. CASE i # Clock + 1
    <3>1. i \in DOMAIN changes /\ changes'[i] = changes[i] BY <1>1, <1>2, <2>2
    <3>2. PICK o : o = changes[i].object OBVIOUS
    <3>3. ~LivesIn(changes, o) /\ i <= RevOf(changes, o) /\ RevOf(changes, o) \in Nat /\ i > 0
      <4>1. ~LivesIn(changes, o) BY <1>1, <2>2, <3>1, <3>2, GoneIs
      <4>2. i <= RevOf(changes, o) /\ RevOf(changes, o) \in Nat /\ i > 0
        BY <1>1, <3>1, <3>2, RevIs
      <4> QED BY <4>1, <4>2
    <3>4. ~LivesIn(changes', o) BY <1>4, <3>3, GrowthIs
    <3> QED BY <3>1, <3>2, <3>4
  <2> QED BY <2>1, <2>2
<1> QED BY <1>4, <1>5, InvCarries

LEMMA ArrivesInv == ASSUME ProviderInv, NEW o \in Objects, Arrives(o) PROVE ProviderInv'
<1>1. PICK f \in Folders : changes' = Append(changes, Entry(o, f, TRUE)) BY DEF Arrives
<1>2. Entry(o, f, TRUE) \in Entries /\ Entry(o, f, TRUE).object = o BY DEF Entry, Entries
<1> QED BY <1>1, <1>2, OneChange DEF Arrives

LEMMA DisappearsInv == ASSUME ProviderInv, NEW o \in Objects, Disappears(o) PROVE ProviderInv'
<1>1. changes \in Seq(Entries) /\ Alive(o) BY DEF ProviderInv, ProviderTyped, Disappears
<1>2. Revision(o) \in DOMAIN changes BY <1>1, RevisionIs
<1>3. changes[Revision(o)] \in Entries BY <1>1, <1>2
<1>4. PICK f \in Folders : f = changes[Revision(o)].folder BY <1>3 DEF Entries
<1>5. Entry(o, f, FALSE) \in Entries /\ Entry(o, f, FALSE).object = o BY DEF Entry, Entries
<1> QED BY <1>1, <1>4, <1>5, OneChange DEF Disappears

LEMMA MovesInv ==
  ASSUME ProviderInv, NEW o \in Objects, NEW f \in Folders, Moves(o, f)
  PROVE  ProviderInv'
<1>1. /\ changes \in Seq(Entries) /\ Alive(o) /\ Clock \in Nat /\ DOMAIN changes = 1..Clock
      /\ source = "outlook_mail" /\ UNCHANGED <<source, documents, slow, saved, call>>
  BY DEF ProviderInv, ProviderTyped, Moves, Clock
<1>2. Revision(o) \in DOMAIN changes BY <1>1, RevisionIs
<1>3. changes[Revision(o)] \in Entries BY <1>1, <1>2
<1>4. PICK g \in Folders : g = changes[Revision(o)].folder BY <1>3 DEF Entries
<1>5. PICK a, b : a = Entry(o, g, FALSE) /\ b = Entry(o, f, TRUE) OBVIOUS
<1>6. a \in Entries /\ a.object = o /\ b \in Entries /\ b.object = o BY <1>5 DEF Entry, Entries
<1>7. changes' = changes \o <<a, b>> BY <1>4, <1>5 DEF Moves
<1>8. /\ changes' \in Seq(Entries) /\ Len(changes') = Clock + 2 /\ DOMAIN changes' = 1..(Clock + 2)
      /\ \A i \in DOMAIN changes : changes'[i] = changes[i]
      /\ changes'[Clock + 1] = a /\ changes'[Clock + 2] = b
  <2>1. <<a, b>> \in Seq(Entries) /\ Len(<<a, b>>) = 2 BY <1>6
  <2> QED BY <1>1, <1>7, <2>1 DEF Clock
<1>9. LivesIn(changes, o) BY <1>1, HistoryIs
<1>10. \A i \in DOMAIN changes' : i > Clock => changes'[i].object = o BY <1>1, <1>6, <1>8
<1>11. Grows(changes, changes') BY <1>1, <1>8, <1>9, <1>10 DEF Grows, Clock
<1>12. GoneStays' BY <1>1 DEF GoneStays
<1> QED BY <1>1, <1>11, <1>12, InvCarries

----------------------------------------
\* What a state resumes to vouches for no more.
LEMMA ResumedSound ==
  ASSUME ProviderInv
  PROVE  Resumed \in ProviderStates /\ Sound(documents, slow, Resumed) /\ ~Resumed.complete
<1>1. changes \in Seq(Entries) BY DEF ProviderInv, ProviderTyped
<1>2. CASE saved = Absent BY <1>1, <1>2, InitialSound DEF Resumed, Sound
<1>3. CASE saved # Absent /\ ~saved.complete BY <1>3 DEF ProviderInv, Resumed, Sound
<1>4. CASE saved # Absent /\ saved.complete
  <2>1. /\ saved \in ProviderStates /\ Past(saved, Clock) /\ Fits(saved)
        /\ Vouches(documents, slow, saved)
    BY <1>4 DEF ProviderInv, Sound
  <2>2. PICK since \in Numbers, cursor \in Numbers, links \in [Folders -> Nat] :
          since = saved.since /\ cursor = saved.cursor /\ links = saved.links
    BY <2>1 DEF ProviderStates
  <2>3. PICK i \in ProviderStates : i = InitialState BY InitialIs
  <2>4. PICK st : st = [i EXCEPT !.since = since, !.cursor = cursor, !.links = links] OBVIOUS
  <2>5. Resumed = st BY <1>4, <2>2, <2>3, <2>4 DEF Resumed
  <2>6. /\ st \in ProviderStates /\ st.since = since /\ st.cursor = cursor /\ st.links = links
        /\ st.complete = i.complete /\ st.phase = i.phase /\ st.anchor = i.anchor
        /\ st.continuation = i.continuation /\ st.candidates = i.candidates
    BY <2>4 DEF ProviderStates
  <2>10. /\ st.phase = Absent /\ ~st.complete /\ st.anchor = Absent /\ st.continuation = Absent
         /\ st.candidates = {}
    BY <2>3, <2>6, InitialIs
  <2>7. Past(st, Clock) BY <2>1, <2>2, <2>6, <2>10 DEF Past
  <2>8. Fits(st) BY <2>6, <2>10, ProviderAssumption DEF Fits
  <2>9. Vouches(documents, slow, st) BY <2>1, <2>2, <2>6, <2>10, ProviderAssumption DEF Vouches
  <2> QED BY <2>5, <2>6, <2>7, <2>8, <2>9, <2>10 DEF Sound
<1> QED BY <1>2, <1>3, <1>4

LEMMA BeginCallInv == ProviderInv /\ BeginCall => ProviderInv'
<1> SUFFICES ASSUME ProviderInv, BeginCall PROVE ProviderInv'
  OBVIOUS
<1>1. PICK st \in ProviderStates : st = Resumed /\ Sound(documents, slow, st) /\ ~st.complete
  BY ResumedSound
<1>2. PICK n \in Nat : n = Clock BY DEF ProviderInv, ProviderTyped, Clock
<1>3. PICK none \in ProviderCalls : none = NoCall /\ none.page = Absent /\ none.confirm = {}
  BY NoCallTyped
<1>4. PICK c : c = [none EXCEPT !.state = st, !.began = n] OBVIOUS
<1>5. /\ c \in ProviderCalls /\ c.state = st /\ c.began = n /\ c.page = none.page
      /\ c.confirm = none.confirm
  BY <1>4 DEF ProviderCalls
<1>6. CallOK(c) BY <1>1, <1>2, <1>3, <1>5 DEF CallOK
<1>7. call' = c BY <1>1, <1>2, <1>3, <1>4 DEF BeginCall
<1> QED BY <1>5, <1>6, <1>7, CallGoesOn DEF BeginCall

----------------------------------------
\* A call that reads its next page.
LEMMA WaitingIs ==
  ASSUME ProviderInv, Waiting
  PROVE  /\ call \in ProviderCalls /\ call.confirm = {} /\ call.page = Absent
         /\ call.began \in Nat /\ call.began <= Clock /\ Clock \in Nat
         /\ call.state \in ProviderStates /\ Sound(documents, slow, call.state)
         /\ Past(call.state, Clock) /\ Fits(call.state) /\ Vouches(documents, slow, call.state)
         /\ ~call.state.complete /\ changes \in Seq(Entries)
<1>1. call \in ProviderCalls /\ call.confirm = {} /\ call.page = Absent /\ CallOK(call)
      /\ changes \in Seq(Entries)
  BY DEF ProviderInv, ProviderTyped, Waiting
<1>2. call.began \in Nat /\ Clock \in Nat BY <1>1 DEF ProviderCalls, Clock
<1> QED BY <1>1, <1>2 DEF CallOK, Sound

LEMMA WaitingState ==
  ASSUME ProviderInv, Waiting, NEW st, Sound(documents, slow, st), ~st.complete,
         call' = [call EXCEPT !.state = st],
         UNCHANGED <<changes, source, documents, slow, saved>>
  PROVE  ProviderInv'
<1>1. PICK c \in ProviderCalls : c = call /\ c.confirm = {} /\ c.page = Absent /\ c.began <= Clock
  BY WaitingIs
<1>2. PICK d : d = [c EXCEPT !.state = st] OBVIOUS
<1>3. d.state = st /\ d.began = c.began /\ d.page = Absent /\ d.confirm = {}
  BY <1>1, <1>2 DEF ProviderCalls
<1>4. d \in ProviderCalls BY <1>2 DEF ProviderCalls, Sound
<1>5. CallOK(d) BY <1>1, <1>3 DEF CallOK
<1> QED BY <1>1, <1>2, <1>4, <1>5, CallGoesOn

LEMMA WaitingPage ==
  ASSUME ProviderInv, Waiting, NEW p, PageOK(call.state, p, call.began),
         call' = [call EXCEPT !.page = p],
         UNCHANGED <<changes, source, documents, slow, saved>>
  PROVE  ProviderInv'
<1>1. PICK c \in ProviderCalls : /\ c = call /\ c.confirm = {} /\ c.began <= Clock
                                 /\ Sound(documents, slow, c.state) /\ ~c.state.complete
  BY WaitingIs
<1>2. PICK d : d = [c EXCEPT !.page = p] OBVIOUS
<1>3. d.state = c.state /\ d.began = c.began /\ d.page = p /\ d.confirm = {}
  BY <1>1, <1>2 DEF ProviderCalls
<1>4. d \in ProviderCalls BY <1>2 DEF ProviderCalls, PageOK
<1>5. CallOK(d) BY <1>1, <1>3 DEF CallOK
<1> QED BY <1>1, <1>2, <1>4, <1>5, CallGoesOn

\* Only Outlook has folders.
LEMMA OneFolder ==
  ASSUME source # "outlook_mail", NEW texts, NEW f, NEW g, NEW n
  PROVE  CurrentIn(texts, f, n) <=> CurrentIn(texts, g, n)
BY DEF CurrentIn, InScope

LEMMA FollowCursorInv == ProviderInv /\ FollowCursor => ProviderInv'
<1> SUFFICES ASSUME ProviderInv, FollowCursor PROVE ProviderInv'
  OBVIOUS
<1>1. Waiting /\ Incremental BY DEF FollowCursor
<1>2. PICK s \in ProviderStates :
        /\ s = call.state /\ ~s.complete /\ Past(s, Clock) /\ Fits(s) /\ Vouches(documents, slow, s)
  BY <1>1, WaitingIs
<1>3. /\ source \in {"gmail", "google_drive"} /\ s.phase = Absent /\ s.cursor # Absent
      /\ s.continuation = Absent
  BY <1>1, <1>2 DEF Incremental, Fits
<1>4. PICK st : st = [s EXCEPT !.anchor = s.cursor, !.phase = "changes"] OBVIOUS
<1>5. /\ st.complete = s.complete /\ st.since = s.since /\ st.anchor = s.cursor
      /\ st.cursor = s.cursor /\ st.phase = "changes" /\ st.continuation = s.continuation
      /\ st.links = s.links /\ st.candidates = s.candidates
  BY <1>4 DEF ProviderStates
<1>6. st \in ProviderStates BY <1>4 DEF ProviderStates
<1>7. Past(st, Clock) BY <1>2, <1>5 DEF Past
<1>8. Fits(st) BY <1>2, <1>3, <1>5 DEF Fits
<1>9. CurrentIn(documents, st.folder, PositionOf(st))
  <2>1. PositionOf(st) = s.cursor BY <1>3, <1>5 DEF PositionOf
  <2>2. CurrentIn(documents, 0, s.cursor) BY <1>2, <1>3 DEF Vouches
  <2> QED BY <1>3, <2>1, <2>2, OneFolder
<1>10. Vouches(documents, slow, st) BY <1>2, <1>3, <1>5, <1>9 DEF Vouches
<1>11. call' = [call EXCEPT !.state = st]
  BY <1>2, <1>4, <1>1, WaitingIs DEF FollowCursor, ProviderCalls
<1> QED
  BY <1>1, <1>2, <1>5, <1>6, <1>7, <1>8, <1>10, <1>11, WaitingState DEF FollowCursor, Sound

LEMMA CaptureAnchorInv == ProviderInv /\ CaptureAnchor => ProviderInv'
<1> SUFFICES ASSUME ProviderInv, CaptureAnchor PROVE ProviderInv'
  OBVIOUS
<1>1. Waiting /\ NeedsAnchor BY DEF CaptureAnchor
<1>2. PICK s \in ProviderStates :
        /\ s = call.state /\ ~s.complete /\ Past(s, Clock) /\ Fits(s) /\ Vouches(documents, slow, s)
        /\ Clock \in Nat
  BY <1>1, WaitingIs
<1>3. source \in {"gmail", "google_drive"} /\ s.phase = Absent /\ s.continuation = Absent
  BY <1>1, <1>2 DEF NeedsAnchor, Fits
<1>4. PICK n \in Nat : n = Clock BY <1>2
<1>5. PICK st : st = [s EXCEPT !.anchor = n, !.phase = "list"] OBVIOUS
<1>6. /\ st.complete = s.complete /\ st.since = s.since /\ st.anchor = n
      /\ st.cursor = s.cursor /\ st.phase = "list" /\ st.continuation = s.continuation
      /\ st.links = s.links /\ st.candidates = s.candidates
  BY <1>5 DEF ProviderStates
<1>7. st \in ProviderStates BY <1>5 DEF ProviderStates, Numbers
<1>8. Past(st, Clock) BY <1>2, <1>4, <1>6 DEF Past
<1>9. Fits(st) BY <1>2, <1>3, <1>4, <1>6, ProviderAssumption DEF Fits
<1>10. Vouches(documents, slow, st) BY <1>2, <1>3, <1>6 DEF Vouches
<1>11. call' = [call EXCEPT !.state = st]
  BY <1>1, <1>2, <1>4, <1>5, WaitingIs DEF CaptureAnchor, ProviderCalls
<1> QED
  BY <1>1, <1>2, <1>6, <1>7, <1>8, <1>9, <1>10, <1>11, WaitingState DEF CaptureAnchor, Sound

LEMMA ListFoldersInv == ProviderInv /\ ListFolders => ProviderInv'
<1> SUFFICES ASSUME ProviderInv, ListFolders PROVE ProviderInv'
  OBVIOUS
<1>1. Waiting /\ source \in {"outlook_mail", "google_calendar"} /\ call.state.phase = Absent
  BY DEF ListFolders
<1>2. PICK s \in ProviderStates :
        /\ s = call.state /\ ~s.complete /\ Past(s, Clock) /\ Fits(s) /\ Vouches(documents, slow, s)
  BY <1>1, WaitingIs
<1>3. s.phase = Absent /\ s.continuation = Absent BY <1>1, <1>2 DEF Fits
<1>4. PICK phase \in {"list", "changes"} :
        phase = IF source = "outlook_mail" THEN "changes" ELSE "list"
  OBVIOUS
<1>5. PICK one \in 0..2 : one = 1 OBVIOUS
<1>6. PICK st : st = [s EXCEPT !.phase = phase, !.folder = one] OBVIOUS
<1>7. /\ st.complete = s.complete /\ st.since = s.since /\ st.anchor = s.anchor
      /\ st.cursor = s.cursor /\ st.phase = phase /\ st.continuation = s.continuation
      /\ st.links = s.links /\ st.candidates = s.candidates /\ st.folder = one
  BY <1>6 DEF ProviderStates
<1>8. st \in ProviderStates BY <1>6 DEF ProviderStates
<1>9. Past(st, Clock) BY <1>2, <1>7 DEF Past
<1>10. Fits(st) BY <1>1, <1>2, <1>3, <1>4, <1>7, <1>5 DEF Fits, Folders
<1>11. Vouches(documents, slow, st)
  BY <1>1, <1>2, <1>3, <1>4, <1>7, <1>5 DEF Vouches, PositionOf, Folders
<1>12. saved' = st /\ call' = NoCall BY <1>2, <1>4, <1>6, <1>5 DEF ListFolders
<1> QED BY <1>8, <1>9, <1>10, <1>11, <1>12, CallGoesOn DEF ListFolders, Sound

----------------------------------------
\* What a page of a listing says.
LEMMA ListedIs ==
  ASSUME ProviderInv, Waiting, call.state.phase = "list"
  PROVE  /\ Seen = SeenOf(call.state) /\ Since = SinceOf(call.state) /\ Seen \subseteq Objects
         /\ From \in Nat /\ From <= Clock /\ Since \in Int
         /\ \A p : p.at = Clock => BoundOf(call.state, p) = From
<1>1. /\ call.state \in ProviderStates /\ Past(call.state, Clock) /\ Clock \in Nat BY WaitingIs
<1>2. From \in Nat /\ From <= Clock BY <1>1, StateNumbers DEF From, Past
<1>3. Since \in Int BY <1>1, StateNumbers, ProviderAssumption DEF Since
<1>4. Seen \subseteq Objects BY <1>1, StateNumbers DEF Seen
<1> QED BY <1>2, <1>3, <1>4 DEF Seen, SeenOf, Since, SinceOf, From, BoundOf

\* What is left to list is listed, or is older than the pass.
LEMMA UnseenIs ==
  ASSUME ProviderInv, Waiting, call.state.phase = "list",
         NEW o \in Objects \ Seen, o \notin Unseen, Alive(o), Revision(o) <= From
  PROVE  Revision(o) < Since
<1>1. Revision(o) > 0 /\ Revision(o) \in Nat /\ Since \in Int BY WaitingIs, RevisionIs, ListedIs
<1>2. ~Listed(o) BY DEF Unseen
<1> QED BY <1>1, <1>2 DEF Listed

LEMMA ListPageInv == ProviderInv /\ ListPage => ProviderInv'
<1> SUFFICES ASSUME ProviderInv, ListPage PROVE ProviderInv'
  OBVIOUS
<1>1. Waiting /\ call.state.phase = "list"
      /\ UNCHANGED <<changes, source, documents, slow, saved>>
  BY DEF ListPage
<1>2. PICK s \in ProviderStates :
        s = call.state /\ Past(s, Clock) /\ Fits(s) /\ Clock \in Nat /\ call.began <= Clock
  BY <1>1, WaitingIs
<1>3. /\ Seen = SeenOf(s) /\ Since = SinceOf(s) /\ Seen \subseteq Objects /\ From \in Nat
      /\ \A p : p.at = Clock => BoundOf(s, p) = From
  BY <1>1, <1>2, ListedIs
<1>4. s.phase = "list" /\ source # "outlook_mail" BY <1>1, <1>2 DEF Fits
<1>5. CASE \E o \in {x \in Objects \ Seen : Listed(x)} :
              call' = [call EXCEPT !.page =
                  Page(o, Revision(o), FALSE,
                       IF Unseen \subseteq {o} THEN Absent
                       ELSE [seen |-> Seen \cup {o}, from |-> From])]
  <2>1. PICK o \in Objects \ Seen : Listed(o) /\ call' = [call EXCEPT !.page =
                  Page(o, Revision(o), FALSE,
                       IF Unseen \subseteq {o} THEN Absent
                       ELSE [seen |-> Seen \cup {o}, from |-> From])]
    BY <1>5
  <2>2. PICK k : k = [seen |-> Seen \cup {o}, from |-> From] OBVIOUS
  <2>3. k \in Conts /\ k.seen = Seen \cup {o} /\ k.from = From BY <1>3, <2>2 DEF Conts
  <2>4. k # Absent BY <2>3, ProviderAssumption DEF Conts
  <2>5. PICK next \in Conts \cup {Absent} : next = IF Unseen \subseteq {o} THEN Absent ELSE k
    BY <2>3
  <2>6. PICK r \in Nat, n \in Nat : r = Revision(o) /\ n = Clock
    BY <1>1, <1>2, WaitingIs, RevisionIs
  <2>7. PICK p : p = [object |-> o, revision |-> r, gone |-> FALSE, next |-> next, at |-> n]
    OBVIOUS
  <2>8. /\ p \in ProviderPages /\ p.object = o /\ p.revision = r /\ ~p.gone /\ p.next = next
        /\ p.at = n
    BY <2>7 DEF ProviderPages
  <2>9. call' = [call EXCEPT !.page = p] BY <2>1, <2>2, <2>5, <2>6, <2>7 DEF Page
  <2>10. PageTrue(s, p) BY <2>1, <2>6, <2>8 DEF PageTrue, Listed
  <2>11. PageLists(s, p)
    <3>1. BoundOf(s, p) = From BY <1>3, <2>6, <2>8
    <3>2. ASSUME p.next = Absent, NEW x \in Objects \ (SeenOf(s) \cup {p.object}), Alive(x),
                 Revision(x) <= BoundOf(s, p)
          PROVE  Revision(x) < SinceOf(s)
      <4>1. Unseen \subseteq {o} BY <2>4, <2>5, <2>8, <3>2
      <4>2. x \in Objects \ Seen /\ x \notin Unseen /\ Revision(x) <= From
        BY <1>3, <2>8, <3>1, <3>2, <4>1
      <4> QED BY <1>1, <1>3, <3>2, <4>2, UnseenIs
    <3>3. ASSUME p.next # Absent
          PROVE  /\ p.object \in Objects
                 /\ p.next.seen = SeenOf(s) \cup {p.object} /\ p.next.from = BoundOf(s, p)
      BY <1>3, <2>3, <2>5, <2>8, <3>1, <3>3
    <3> QED BY <3>2, <3>3 DEF PageLists
  <2>12. PageOK(s, p, call.began) BY <1>2, <1>4, <2>6, <2>8, <2>10, <2>11 DEF PageOK
  <2> QED BY <1>1, <1>2, <2>9, <2>12, WaitingPage
<1>6. CASE Unseen = {} /\ call' = [call EXCEPT !.page = Page(Absent, From, FALSE, Absent)]
  <2>1. PICK r \in Nat, n \in Nat : r = From /\ n = Clock BY <1>2, <1>3
  <2>2. PICK p : p = [object |-> Absent, revision |-> r, gone |-> FALSE, next |-> Absent, at |-> n]
    OBVIOUS
  <2>3. p \in ProviderPages /\ p.object = Absent /\ p.next = Absent /\ p.at = n
    BY <2>2 DEF ProviderPages
  <2>4. call' = [call EXCEPT !.page = p] BY <1>6, <2>1, <2>2 DEF Page
  <2>5. PageTrue(s, p) BY <2>3 DEF PageTrue
  <2>6. PageLists(s, p)
    <3>1. BoundOf(s, p) = From BY <1>3, <2>1, <2>3
    <3>2. ASSUME NEW x \in Objects \ (SeenOf(s) \cup {p.object}), Alive(x),
                 Revision(x) <= BoundOf(s, p)
          PROVE  Revision(x) < SinceOf(s)
      <4>1. x \in Objects \ Seen /\ x \notin Unseen /\ Revision(x) <= From
        BY <1>3, <1>6, <3>1, <3>2
      <4> QED BY <1>1, <1>3, <3>2, <4>1, UnseenIs
    <3> QED BY <2>3, <3>2 DEF PageLists
  <2>7. PageOK(s, p, call.began) BY <1>2, <1>4, <2>1, <2>3, <2>5, <2>6 DEF PageOK
  <2> QED BY <1>1, <1>2, <2>4, <2>7, WaitingPage
<1> QED BY <1>5, <1>6 DEF ListPage

\* The change a page of changes takes.
LEMMA LaterIs ==
  ASSUME ProviderInv, Waiting, call.state.phase = "changes"
  PROVE  /\ Position = PositionOf(call.state) /\ Position \in Nat /\ Position <= Clock
         /\ Later \in SUBSET (0..Clock) /\ Later \subseteq DOMAIN changes
         /\ Later # {} => /\ Min(Later) \in Later /\ Min(Later) > Position
                          /\ \A x \in Later : Min(Later) <= x
         /\ Cardinality(Later) = 1 => \A x \in Later : x = Min(Later)
<1>1. /\ call.state \in ProviderStates /\ Past(call.state, Clock) /\ Fits(call.state)
      /\ Clock \in Nat /\ changes \in Seq(Entries)
  BY WaitingIs
<1>2. Position = PositionOf(call.state) BY DEF Position, PositionOf
<1>3. Position \in Nat /\ Position <= Clock BY <1>1, <1>2, PositionPast
<1>4. Later \in SUBSET (0..Clock) /\ Later \subseteq DOMAIN changes /\ \A x \in Later : x > Position
  BY <1>1 DEF Later, Clock
<1>5. Later # {} => Min(Later) \in Later /\ \A x \in Later : Min(Later) <= x
  BY <1>1, <1>4, MinIs
<1>6. ASSUME Cardinality(Later) = 1 PROVE \A x \in Later : x = Min(Later)
  <2>1. PICK n \in Int, L \in SUBSET (0..Clock) : n = Clock /\ L = Later /\ L \in SUBSET (0..n)
    BY <1>1, <1>4
  <2>2. IsFiniteSet(0..n) BY FS_Interval
  <2>3. IsFiniteSet(L) BY <2>1, <2>2, FS_Subset
  <2>4. \E z : L = {z} BY <1>6, <2>1, <2>3, FS_Singleton
  <2> QED BY <1>5, <2>1, <2>4
<1> QED BY <1>2, <1>3, <1>4, <1>5, <1>6

LEMMA LaterHas ==
  ASSUME ProviderInv, Waiting, call.state.phase = "changes", NEW o \in Objects,
         InScope(o, call.state.folder), Revision(o) > Position
  PROVE  Revision(o) \in Later /\ changes[Revision(o)].object = o
<1>1. changes \in Seq(Entries) BY WaitingIs
<1>2. Revision(o) \in DOMAIN changes /\ changes[Revision(o)].object = o
  BY <1>1, RevisionIs DEF InScope
<1>3. source = "outlook_mail" => changes[Revision(o)].folder = call.state.folder
  BY DEF InScope, InFolder
<1> QED BY <1>2, <1>3 DEF Later

LEMMA ChangePageInv == ProviderInv /\ ChangePage => ProviderInv'
<1> SUFFICES ASSUME ProviderInv, ChangePage PROVE ProviderInv'
  OBVIOUS
<1>1. Waiting /\ call.state.phase = "changes"
      /\ UNCHANGED <<changes, source, documents, slow, saved>>
  BY DEF ChangePage
<1>2. PICK s \in ProviderStates :
        /\ s = call.state /\ Past(s, Clock) /\ Fits(s) /\ Clock \in Nat /\ call.began <= Clock
        /\ s.phase = "changes"
  BY <1>1, WaitingIs
<1>3. changes \in Seq(Entries) /\ source \in Sources /\ source # "google_calendar" /\ GoneStays
  BY <1>2 DEF ProviderInv, ProviderTyped, Fits
<1>4. /\ Position = PositionOf(s) /\ Position \in Nat /\ Position <= Clock
      /\ Later \in SUBSET (0..Clock) /\ Later \subseteq DOMAIN changes
      /\ Later # {} => /\ Min(Later) \in Later /\ Min(Later) > Position
                       /\ \A x \in Later : Min(Later) <= x
      /\ Cardinality(Later) = 1 => \A x \in Later : x = Min(Later)
  BY <1>1, <1>2, LaterIs
<1>5. PICK n \in Nat : n = Clock BY <1>2
<1>6. CASE Later = {}
  <2>1. PICK zero \in Nat : zero = 0 OBVIOUS
  <2>2. PICK p : p = [object |-> Absent, revision |-> zero, gone |-> FALSE, next |-> Absent,
                      at |-> n]
    OBVIOUS
  <2>3. p \in ProviderPages /\ p.object = Absent /\ p.next = Absent /\ p.at = n
    BY <2>2 DEF ProviderPages
  <2>4. call' = [call EXCEPT !.page = p] BY <1>5, <1>6, <2>1, <2>2 DEF Page, ChangePage
  <2>5. PageTrue(s, p) BY <2>3 DEF PageTrue
  <2>6. ASSUME NEW o \in Objects, InScope(o, s.folder) PROVE Revision(o) <= Position
    <3>1. ~(Revision(o) > Position) BY <1>1, <1>2, <1>6, <2>6, LaterHas
    <3> QED BY <1>3, <1>4, <3>1, RevisionIs
  <2>7. PageChanges(s, p) BY <1>4, <1>5, <2>3, <2>6 DEF PageChanges, UpTo
  <2>8. PageOK(s, p, call.began) BY <1>2, <1>5, <2>3, <2>5, <2>7 DEF PageOK
  <2> QED BY <1>1, <1>2, <2>4, <2>8, WaitingPage
<1>7. CASE Later # {}
  <2>1. PICK i \in Later : i = Min(Later) BY <1>4, <1>7
  <2>2. /\ i \in DOMAIN changes /\ i \in Nat /\ i > Position /\ i > 0 /\ i <= n
        /\ \A x \in Later : i <= x /\ x \in Nat
    BY <1>4, <1>5, <2>1
  <2>3. changes[i] \in Entries BY <1>3, <2>2
  <2>4. PICK o \in Objects : o = changes[i].object BY <2>3 DEF Entries
  <2>5. PICK r \in Nat : r = Revision(o) /\ r >= i BY <1>3, <2>2, <2>4, RevisionIs
  <2>6. PICK gone \in BOOLEAN : gone = RemovedBy(i) BY DEF RemovedBy
  <2>7. PICK k : k = [seen |-> {}, from |-> i] OBVIOUS
  <2>8. k \in Conts /\ k.from = i BY <2>2, <2>7 DEF Conts
  <2>9. k # Absent BY <2>8, ProviderAssumption DEF Conts
  <2>10. PICK next \in Conts \cup {Absent} : next = IF Cardinality(Later) = 1 THEN Absent ELSE k
    BY <2>8
  <2>11. PICK p : p = [object |-> o, revision |-> r, gone |-> gone, next |-> next, at |-> n]
    OBVIOUS
  <2>12. /\ p \in ProviderPages /\ p.object = o /\ p.revision = r /\ p.gone = gone
         /\ p.next = next /\ p.at = n
    BY <2>11 DEF ProviderPages
  <2>13. call' = [call EXCEPT !.page = p]
    BY <1>5, <1>7, <2>1, <2>4, <2>5, <2>6, <2>7, <2>10, <2>11 DEF Page, ChangePage
  <2>14. PageTrue(s, p)
    <3>1. Revision(o) > 0 BY <2>2, <2>5
    <3>2. ASSUME source # "outlook_mail", gone PROVE ~Alive(o)
      <4>1. CASE source = "gmail" BY <1>3, <2>2, <2>4, <2>6, <3>2, <4>1 DEF GoneStays, RemovedBy
      <4>2. CASE source = "google_drive" BY <2>4, <2>6, <3>2, <4>2 DEF RemovedBy
      <4> QED BY <1>3, <3>2, <4>1, <4>2 DEF Sources
    <3>3. ASSUME InScope(o, s.folder) PROVE ~gone
      <4>1. CASE source = "outlook_mail" BY <1>2, <2>4, <2>6, <3>3, <4>1 DEF RemovedBy, InScope
      <4>2. CASE source # "outlook_mail" BY <3>2, <3>3, <4>2 DEF InScope
      <4> QED BY <4>1, <4>2
    <3> QED BY <2>5, <2>12, <3>1, <3>2, <3>3 DEF PageTrue
  <2>15. /\ UpTo(p) \in Nat /\ UpTo(p) <= n /\ i <= UpTo(p)
         /\ \A x \in Later : x <= UpTo(p) => x = i
    <3>1. CASE Cardinality(Later) = 1
      <4>1. UpTo(p) = n BY <2>10, <2>12, <3>1 DEF UpTo
      <4> QED BY <1>4, <2>1, <2>2, <3>1, <4>1
    <3>2. CASE Cardinality(Later) # 1
      <4>1. UpTo(p) = i BY <2>8, <2>9, <2>10, <2>12, <3>2 DEF UpTo
      <4> QED BY <2>2, <4>1
    <3> QED BY <3>1, <3>2
  <2>16. ASSUME NEW x \in Objects \ {o}, InScope(x, s.folder), Revision(x) <= UpTo(p)
         PROVE  Revision(x) <= Position
    <3>1. Revision(x) \in Nat BY <1>3, RevisionIs
    <3>2. CASE Revision(x) > Position
      <4>1. Revision(x) \in Later /\ changes[Revision(x)].object = x
        BY <1>1, <1>2, <2>16, <3>2, LaterHas
      <4>2. Revision(x) = i BY <2>15, <2>16, <4>1
      <4> QED BY <2>4, <2>16, <4>1, <4>2
    <3> QED BY <1>4, <3>1, <3>2
  <2>17. PageChanges(s, p)
    <3>1. UpTo(p) <= p.at /\ PositionOf(s) <= UpTo(p) BY <1>4, <2>2, <2>12, <2>15
    <3> QED BY <1>4, <2>12, <2>16, <3>1 DEF PageChanges
  <2>18. PageOK(s, p, call.began) BY <1>2, <1>5, <2>12, <2>14, <2>17 DEF PageOK
  <2> QED BY <1>1, <1>2, <2>13, <2>18, WaitingPage
<1> QED BY <1>6, <1>7

LEMMA HistoryExpiredInv == ProviderInv /\ HistoryExpired => ProviderInv'
<1> SUFFICES ASSUME ProviderInv, HistoryExpired PROVE ProviderInv'
  OBVIOUS
<1>1. changes \in Seq(Entries) BY DEF ProviderInv, ProviderTyped
<1>2. PICK st \in ProviderStates : st = InitialState /\ Sound(documents, slow, st)
  BY <1>1, InitialIs, InitialSound
<1> QED BY <1>2, CallGoesOn DEF HistoryExpired

LEMMA CallFailsInv == ProviderInv /\ CallFails => ProviderInv'
<1> SUFFICES ASSUME ProviderInv, CallFails PROVE ProviderInv'
  OBVIOUS
<1>1. call # NoCall /\ call.confirm = {} /\ call' = NoCall
      /\ UNCHANGED <<changes, source, documents, slow>>
  BY DEF CallFails
<1>2. PICK rejected \in BOOLEAN :
        /\ rejected => call.page = Absent /\ call.state.continuation # Absent
        /\ saved' = IF rejected /\ ~(source = "gmail" /\ call.state.phase = "changes")
                    THEN [call.state EXCEPT !.continuation = Absent] ELSE call.state
  BY DEF CallFails
<1>3. PICK s \in ProviderStates :
        /\ s = call.state /\ Sound(documents, slow, s) /\ Past(s, Clock) /\ Fits(s)
        /\ Vouches(documents, slow, s) /\ Clock \in Nat
  BY <1>1 DEF ProviderInv, ProviderTyped, CallOK, Sound, Clock
<1>4. CASE saved' = s BY <1>1, <1>3, <1>4, CallGoesOn
<1>5. CASE s.continuation # Absent /\ saved' = [s EXCEPT !.continuation = Absent]
  <2>1. PICK st : st = [s EXCEPT !.continuation = Absent] OBVIOUS
  <2>2. /\ st.complete = s.complete /\ st.since = s.since /\ st.anchor = s.anchor
        /\ st.cursor = s.cursor /\ st.phase = s.phase /\ st.continuation = Absent
        /\ st.links = s.links /\ st.candidates = s.candidates /\ st.folder = s.folder
    BY <2>1 DEF ProviderStates
  <2>3. st \in ProviderStates BY <2>1 DEF ProviderStates
  <2>4. Past(st, Clock) BY <1>3, <2>2 DEF Past
  <2>5. Fits(st) BY <1>3, <2>2 DEF Fits
  <2>6. ASSUME s.phase = "changes" PROVE CurrentIn(documents, s.folder, PositionOf(st))
    <3>1. CASE source = "outlook_mail"
      <4>1. PositionOf(st) = s.links[s.folder] /\ s.folder \in Folders
        BY <1>3, <2>2, <2>6, <3>1 DEF PositionOf, Fits
      <4> QED BY <1>3, <3>1, <4>1 DEF Vouches
    <3>2. CASE source # "outlook_mail"
      <4>1. /\ PositionOf(st) = s.anchor /\ PositionOf(s) = s.continuation.from
            /\ s.anchor <= s.continuation.from /\ s.anchor \in Nat /\ s.continuation.from \in Nat
        BY <1>3, <1>5, <2>2, <2>6, <3>2, StateNumbers DEF PositionOf, Fits
      <4>2. PICK a \in Nat, b \in Nat : a = PositionOf(st) /\ b = PositionOf(s) /\ a <= b
        BY <4>1
      <4>3. CurrentIn(documents, s.folder, b) BY <1>3, <2>6, <4>2 DEF Vouches
      <4>4. changes \in Seq(Entries) BY DEF ProviderInv, ProviderTyped
      <4>5. \A o \in Objects : Revision(o) \in Nat BY <4>4, RevisionIs
      <4> QED BY <4>2, <4>3, <4>5 DEF CurrentIn
    <3> QED BY <3>1, <3>2
  <2>7. Vouches(documents, slow, st) BY <1>3, <2>2, <2>6 DEF Vouches
  <2>8. saved' = st BY <1>5, <2>1
  <2> QED BY <1>1, <2>3, <2>4, <2>5, <2>7, <2>8, CallGoesOn DEF Sound
<1> QED BY <1>2, <1>3, <1>4, <1>5

LEMMA CallLostInv == ProviderInv /\ CallLost => ProviderInv'
BY CallGoesOn DEF CallLost

LEMMA ForgetsInv == ProviderInv /\ Forgets => ProviderInv'
BY CallGoesOn DEF Forgets

----------------------------------------
\* Storing what was fetched.
LEMMA StoredIs ==
  ASSUME documents \in [Objects -> Nat], NEW set \in SUBSET Fetches
  PROVE  /\ Stored(set) \in [Objects -> Nat]
         /\ \A o \in Objects : Held(set, o) => Stored(set)[o] = Revision(o)
<1>1. ASSUME NEW o \in Objects, NEW d \in set, d[1] = o
      PROVE  /\ (CHOOSE e \in set : e[1] = o) \in set
             /\ (CHOOSE e \in set : e[1] = o)[1] = o
             /\ (CHOOSE e \in set : e[1] = o)[2] \in Nat
  <2>1. PICK x \in set : x = (CHOOSE e \in set : e[1] = o) /\ x[1] = o BY <1>1
  <2>2. x[2] \in Nat BY DEF Fetches
  <2> QED BY <2>1, <2>2
<1>2. \A o \in Objects : Stored(set)[o] = IF \E d \in set : d[1] = o
                                          THEN (CHOOSE d \in set : d[1] = o)[2] ELSE documents[o]
  BY DEF Stored
<1>3. ASSUME NEW o \in Objects
      PROVE  (IF \E d \in set : d[1] = o
              THEN (CHOOSE d \in set : d[1] = o)[2] ELSE documents[o]) \in Nat
  BY <1>1
<1>4. Stored(set) \in [Objects -> Nat] BY <1>3 DEF Stored
<1>5. ASSUME NEW o \in Objects, Held(set, o) PROVE Stored(set)[o] = Revision(o)
  <2>1. CASE \E d \in set : d[1] = o
    <3>1. PICK e \in set : e = (CHOOSE d \in set : d[1] = o) /\ e[1] = o BY <2>1, <1>1
    <3>2. e[2] = Revision(o) BY <1>5, <3>1 DEF Held
    <3> QED BY <1>2, <2>1, <3>1, <3>2
  <2>2. CASE ~\E d \in set : d[1] = o BY <1>2, <1>5, <2>2 DEF Held
  <2> QED BY <2>1, <2>2
<1> QED BY <1>4, <1>5

LEMMA ReachingStored ==
  ASSUME ProviderTyped, NEW set \in SUBSET Fetches, NEW sl, NEW st \in ProviderStates,
         Reaching(set, sl, st)
  PROVE  Vouches(Stored(set), sl, st)
<1>1. \A o \in Objects : Held(set, o) => Stored(set)[o] = Revision(o)
  BY StoredIs DEF ProviderTyped
<1>2. \A f, n : Reaches(set, f, n) => CurrentIn(Stored(set), f, n)
  BY <1>1 DEF Reaches, CurrentIn
<1>3. \A o \in Objects : st.continuation # Absent => st.continuation.seen \subseteq Objects
  BY StateNumbers
<1> QED BY <1>1, <1>2, <1>3, StateNumbers DEF Reaching, Vouches

\* What is known of a page that was read.
LEMMA ReadPageIs ==
  ASSUME ProviderInv, call.page # Absent
  PROVE  /\ call \in ProviderCalls /\ call # NoCall /\ call.confirm = {}
         /\ call.began \in Nat /\ Clock \in Nat
         /\ call.state \in ProviderStates /\ Past(call.state, call.page.at) /\ Fits(call.state)
         /\ Vouches(documents, slow, call.state) /\ ~call.state.complete
         /\ call.page \in ProviderPages /\ call.page.at \in Nat /\ call.page.at <= Clock
         /\ call.began <= call.page.at /\ call.state.phase \in {"list", "changes"}
         /\ PageTrue(call.state, call.page)
         /\ call.state.phase = "list" => PageLists(call.state, call.page)
         /\ call.state.phase = "changes" => PageChanges(call.state, call.page)
         /\ changes \in Seq(Entries)
<1>1. call # NoCall /\ call \in ProviderCalls BY NoCallTyped DEF ProviderInv, ProviderTyped
<1>2. CallOK(call) /\ call.confirm = {} BY <1>1 DEF ProviderInv, CallOK
<1>3. Sound(documents, slow, call.state) /\ ~call.state.complete
      /\ PageOK(call.state, call.page, call.began)
  BY <1>2 DEF CallOK
<1>4. call.page \in ProviderPages BY <1>3 DEF PageOK
<1>5. call.page.at \in Nat /\ call.began \in Nat /\ changes \in Seq(Entries) /\ Clock \in Nat
  BY <1>1, <1>4 DEF ProviderPages, ProviderCalls, ProviderInv, ProviderTyped, Clock
<1> QED BY <1>1, <1>2, <1>3, <1>4, <1>5 DEF Sound, PageOK

\* What the corpus takes for an item is the object as it is, if it is there;
\* and if the object was in the folder when the page was read, it is taken.
LEMMA ItemIs ==
  ASSUME ProviderInv, call.page # Absent
  PROVE  /\ Item \in SUBSET Fetches
         /\ \A d \in Item : /\ d[1] = call.page.object
                            /\ Alive(d[1]) /\ Revision(d[1]) <= call.page.at => d[2] = Revision(d[1])
         /\ call.page.object # Absent /\ InScope(call.page.object, call.state.folder)
              /\ Revision(call.page.object) <= call.page.at
            => \E d \in Item : d[1] = call.page.object
<1>1. PICK o, p : o = call.page.object /\ p = call.page OBVIOUS
<1>2. p \in ProviderPages /\ PageTrue(call.state, p) /\ changes \in Seq(Entries)
  BY <1>1, ReadPageIs
<1>3. o = p.object /\ (o # Absent => o \in Objects) /\ p.revision \in Nat
  BY <1>1, <1>2 DEF ProviderPages
<1>4. Revision(o) \in Nat BY <1>2, RevisionIs
<1>5. /\ InScope(o, call.state.folder) => Alive(o)
      /\ source # "outlook_mail" => (InScope(o, call.state.folder) <=> Alive(o))
  BY DEF InScope
<1>6. /\ o # Absent /\ InScope(o, call.state.folder) /\ Revision(o) <= p.at =>
           ~p.gone /\ p.revision = Revision(o)
      /\ o # Absent /\ source # "outlook_mail" /\ p.gone => ~Alive(o)
  BY <1>2, <1>3 DEF PageTrue
<1>7. CASE Item = {}
  <2>1. ASSUME o # Absent, InScope(o, call.state.folder), Revision(o) <= p.at PROVE FALSE
    <3>1. source \in Sources /\ Alive(o) /\ ~p.gone
      BY <1>5, <1>6, <2>1 DEF ProviderInv, ProviderTyped
    <3> QED BY <1>1, <1>7, <2>1, <3>1 DEF Item, GmailItem, DriveItem, CalendarItem, MailItem, Fetched, Sources
  <2> QED BY <1>1, <1>7, <2>1
<1>8. CASE Item # {}
  <2>1. o # Absent
    <3>1. o = Absent => Item = {} BY <1>1 DEF Item
    <3> QED BY <1>8, <3>1
  <2>2. PICK r \in Nat : /\ Item = {<<o, r>>}
                         /\ Alive(o) /\ Revision(o) <= p.at => r = Revision(o)
    <3>1. CASE source = "outlook_mail"
      <4>1. \/ Item = {}
            \/ Item = {<<o, Revision(o)>>}
            \/ Item = {<<o, 0>>} /\ ~Alive(o)
        BY <1>1, <2>1, <3>1 DEF Item, MailItem, Fetched, Doc
      <4> QED BY <1>4, <1>8, <4>1
    <3>2. CASE source = "gmail"
      <4>1. \/ Item = {}
            \/ Item = {<<o, Revision(o)>>}
            \/ Item = {<<o, 0>>} /\ p.gone
        BY <1>1, <2>1, <3>2 DEF Item, GmailItem, Fetched, Doc
      <4> QED BY <1>4, <1>6, <1>8, <2>1, <3>2, <4>1
    <3>3. CASE source = "google_drive"
      <4>1. \/ Item = {<<o, p.revision>>} /\ ~p.gone
            \/ Item = {<<o, 0>>} /\ p.gone
        BY <1>1, <2>1, <3>3 DEF Item, DriveItem, Doc
      <4> QED BY <1>3, <1>5, <1>6, <2>1, <3>3, <4>1
    <3>4. CASE source = "google_calendar"
      <4>1. Item = {<<o, p.revision>>} BY <1>1, <2>1, <3>4 DEF Item, CalendarItem, Doc
      <4> QED BY <1>3, <1>5, <1>6, <2>1, <3>4, <4>1
    <3> QED BY <3>1, <3>2, <3>3, <3>4 DEF ProviderInv, ProviderTyped, Sources
  <2>3. o \in Objects BY <1>3, <2>1
  <2>4. Item \in SUBSET Fetches BY <2>2, <2>3 DEF Fetches
  <2>5. \A d \in Item : d[1] = o /\ d[2] = r BY <2>2
  <2>6. \E d \in Item : d[1] = o BY <2>2
  <2> QED BY <1>1, <2>2, <2>4, <2>5, <2>6
<1> QED BY <1>7, <1>8

\* What was right stays right once the page is stored, and the page's object is.
LEMMA ItemHolds ==
  ASSUME ProviderInv, call.page # Absent, NEW o \in Objects, Alive(o),
         Revision(o) <= call.page.at,
         documents[o] = Revision(o)
           \/ (o = call.page.object /\ InScope(o, call.state.folder))
  PROVE  Held(Item, o)
<1>1. \A d \in Item : d[1] = o => d[2] = Revision(o) BY ItemIs
<1>2. o # Absent BY ProviderAssumption
<1>3. documents[o] = Revision(o) \/ \E d \in Item : d[1] = o BY <1>2, ItemIs
<1> QED BY <1>1, <1>3 DEF Held

LEMMA ItemReaches ==
  ASSUME ProviderInv, call.page # Absent, NEW f, NEW n \in Int, n <= call.page.at,
         CurrentIn(documents, f, n)
  PROVE  Reaches(Item, f, n)
<1> SUFFICES ASSUME NEW o \in Objects, InScope(o, f), Revision(o) <= n
             PROVE  Held(Item, o)
  BY DEF Reaches
<1>1. Revision(o) \in Nat /\ call.page.at \in Nat BY ReadPageIs, RevisionIs
<1>2. Alive(o) /\ documents[o] = Revision(o) /\ Revision(o) <= call.page.at
  BY <1>1 DEF CurrentIn, InScope
<1> QED BY <1>2, ItemHolds

----------------------------------------
\* A page of a listing that is stored: what was there when the listing began
\* is held, or is older than the pass.
LEMMA ListedHeld ==
  ASSUME ProviderInv, call.page # Absent, call.state.phase = "list", call.page.next = Absent,
         NEW o \in Objects, Alive(o), Revision(o) <= BoundOf(call.state, call.page)
  PROVE  Held(Item, o) \/ Revision(o) < SinceOf(call.state)
<1>1. PICK s, p : s = call.state /\ p = call.page OBVIOUS
<1>2. /\ s \in ProviderStates /\ Past(s, p.at) /\ Fits(s) /\ Vouches(documents, slow, s)
      /\ PageLists(s, p) /\ p.at \in Nat /\ changes \in Seq(Entries)
  BY <1>1, ReadPageIs
<1>3. Revision(o) \in Nat /\ BoundOf(s, p) \in Nat /\ BoundOf(s, p) <= p.at
  BY <1>2, StateNumbers, RevisionIs DEF BoundOf, Past
<1>4. Revision(o) <= p.at BY <1>1, <1>2, <1>3
<1>5. InScope(o, s.folder) BY <1>1, <1>2 DEF Fits, InScope
<1>6. CASE o = p.object BY <1>1, <1>4, <1>5, <1>6, ItemHolds
<1>7. CASE o \in SeenOf(s)
  <2>1. s.continuation # Absent /\ o \in s.continuation.seen
        /\ BoundOf(s, p) = s.continuation.from
    BY <1>7 DEF SeenOf, BoundOf
  <2>2. documents[o] = Revision(o) BY <1>1, <1>2, <2>1 DEF Vouches
  <2> QED BY <1>1, <1>4, <2>2, ItemHolds
<1>8. CASE o # p.object /\ o \notin SeenOf(s) BY <1>1, <1>2, <1>8 DEF PageLists
<1> QED BY <1>6, <1>7, <1>8

\* A page of changes that is stored: nothing is missed up to the next one.
LEMMA ChangesHeld ==
  ASSUME ProviderInv, call.page # Absent, call.state.phase = "changes"
  PROVE  /\ UpTo(call.page) \in Nat /\ UpTo(call.page) <= call.page.at
         /\ PositionOf(call.state) \in Nat /\ PositionOf(call.state) <= UpTo(call.page)
         /\ Reaches(Item, call.state.folder, UpTo(call.page))
<1>1. PICK s, p : s = call.state /\ p = call.page OBVIOUS
<1>2. /\ s \in ProviderStates /\ Past(s, p.at) /\ Fits(s) /\ Vouches(documents, slow, s)
      /\ PageChanges(s, p) /\ p.at \in Nat /\ p \in ProviderPages /\ changes \in Seq(Entries)
  BY <1>1, ReadPageIs
<1>3. UpTo(p) \in Nat BY <1>2 DEF UpTo, ProviderPages, Conts
<1>4. UpTo(p) <= p.at /\ PositionOf(s) <= UpTo(p) BY <1>2 DEF PageChanges
<1>5. PositionOf(s) \in Nat BY <1>1, <1>2, PositionPast
<1>6. ASSUME NEW o \in Objects, InScope(o, s.folder), Revision(o) <= UpTo(p)
      PROVE  Held(Item, o)
  <2>1. Alive(o) /\ Revision(o) \in Nat /\ Revision(o) <= p.at
    BY <1>2, <1>3, <1>4, <1>6, RevisionIs DEF InScope
  <2>2. CASE o = p.object BY <1>1, <1>6, <2>1, <2>2, ItemHolds
  <2>3. CASE o # p.object
    <3>1. Revision(o) <= PositionOf(s) BY <1>2, <1>6, <2>3 DEF PageChanges
    <3>2. documents[o] = Revision(o) BY <1>1, <1>2, <1>6, <3>1 DEF Vouches, CurrentIn
    <3> QED BY <1>1, <2>1, <3>2, ItemHolds
  <2> QED BY <2>2, <2>3
<1> QED BY <1>1, <1>3, <1>4, <1>5, <1>6 DEF Reaches

\* What the checkpoint vouched for before, it still does.
LEMMA StillReaches ==
  ASSUME ProviderInv, call.page # Absent
  PROVE  /\ source \in {"gmail", "google_drive"} /\ call.state.cursor # Absent
              => Reaches(Item, 0, call.state.cursor)
         /\ source = "outlook_mail" =>
              \A f \in Folders : Reaches(Item, f, call.state.links[f])
         /\ source = "google_calendar" /\ ~slow /\ call.state.since # Absent
              => Reaches(Item, 0, call.state.since - Overlap)
<1>1. PICK s : s = call.state OBVIOUS
<1>2. /\ s \in ProviderStates /\ Past(s, call.page.at) /\ Vouches(documents, slow, s)
      /\ call.page.at \in Nat
  BY <1>1, ReadPageIs
<1>3. ASSUME source \in {"gmail", "google_drive"}, s.cursor # Absent
      PROVE  Reaches(Item, 0, s.cursor)
  <2>1. s.cursor \in Int /\ s.cursor <= call.page.at /\ CurrentIn(documents, 0, s.cursor)
    BY <1>2, <1>3, StateNumbers DEF Past, Vouches
  <2> QED BY <2>1, ItemReaches
<1>4. ASSUME source = "outlook_mail", NEW f \in Folders PROVE Reaches(Item, f, s.links[f])
  <2>1. s.links[f] \in Int /\ s.links[f] <= call.page.at /\ CurrentIn(documents, f, s.links[f])
    BY <1>2, <1>4, StateNumbers DEF Past, Vouches
  <2> QED BY <2>1, ItemReaches
<1>5. ASSUME source = "google_calendar", ~slow, s.since # Absent
      PROVE  Reaches(Item, 0, s.since - Overlap)
  <2>1. s.since \in Nat /\ s.since <= call.page.at /\ Overlap \in Nat
    BY <1>2, <1>5, StateNumbers, ProviderAssumption DEF Past
  <2>2. s.since - Overlap \in Int /\ s.since - Overlap <= call.page.at BY <1>2, <2>1
  <2>3. CurrentIn(documents, 0, s.since - Overlap) BY <1>2, <1>5 DEF Vouches
  <2> QED BY <2>2, <2>3, ItemReaches
<1> QED BY <1>1, <1>3, <1>4, <1>5

\* A pass that is complete.
LEMMA CompletedIs ==
  ASSUME NEW st \in ProviderStates, NEW cursor \in Numbers, call.began \in Nat
  PROVE  /\ Completed(st, cursor) \in ProviderStates /\ Completed(st, cursor).complete
         /\ Completed(st, cursor).since = call.began /\ Completed(st, cursor).cursor = cursor
         /\ Completed(st, cursor).links = st.links /\ Completed(st, cursor).anchor = Absent
         /\ Completed(st, cursor).phase = Absent /\ Completed(st, cursor).continuation = Absent
         /\ Completed(st, cursor).candidates = {}
<1>1. PICK i \in ProviderStates : i = InitialState BY InitialIs
<1>2. i.anchor = Absent /\ i.phase = Absent /\ i.continuation = Absent /\ i.candidates = {}
  BY <1>1, InitialIs
<1>3. PICK since \in Numbers, links \in [Folders -> Nat] : since = call.began /\ links = st.links
  BY StateNumbers DEF Numbers
<1>4. PICK a : a = [i EXCEPT !.complete = TRUE, !.since = since, !.cursor = cursor,
                             !.links = links]
  OBVIOUS
<1>5. Completed(st, cursor) = a BY <1>1, <1>3, <1>4 DEF Completed
<1>6. /\ a.complete /\ a.since = since /\ a.cursor = cursor /\ a.links = links
      /\ a.anchor = i.anchor /\ a.phase = i.phase /\ a.continuation = i.continuation
      /\ a.candidates = i.candidates
  BY <1>4 DEF ProviderStates
<1>7. a \in ProviderStates BY <1>4 DEF ProviderStates
<1> QED BY <1>2, <1>3, <1>5, <1>6, <1>7

----------------------------------------
LEMMA PastOn ==
  ASSUME NEW st \in ProviderStates, NEW n \in Nat, NEW m \in Nat, n <= m, Past(st, n)
  PROVE  Past(st, m)
BY StateNumbers DEF Past

\* The checkpoint a page of a listing leads to.
LEMMA ListAdvances ==
  ASSUME ProviderInv, call.page # Absent, call.state.phase = "list"
  PROVE  /\ Advanced \in ProviderStates /\ Past(Advanced, call.page.at) /\ Fits(Advanced)
         /\ Reaching(Item, slow \/ Slow, Advanced)
<1>1. PICK s, p : s = call.state /\ p = call.page OBVIOUS
<1>2. /\ s \in ProviderStates /\ Past(s, p.at) /\ Fits(s) /\ ~s.complete
      /\ Vouches(documents, slow, s) /\ PageLists(s, p) /\ p.at \in Nat /\ call.began \in Nat
      /\ call.began <= p.at /\ p \in ProviderPages /\ s.phase = "list" /\ changes \in Seq(Entries)
      /\ Clock \in Nat
  BY <1>1, ReadPageIs
<1>3. BoundOf(s, p) \in Nat /\ BoundOf(s, p) <= p.at BY <1>2, StateNumbers DEF BoundOf, Past
<1>4. Advanced = AfterList(s) BY <1>1, <1>2 DEF Advanced
<1>5. source # "outlook_mail" /\ source \in Sources BY <1>2 DEF Fits, ProviderInv, ProviderTyped
<1>6. \A o \in Objects : InScope(o, s.folder) <=> Alive(o) BY <1>5 DEF InScope
<1>7. ASSUME p.next = Absent, NEW n \in Nat, n <= BoundOf(s, p), source # "google_calendar"
      PROVE  \A f : Reaches(Item, f, n)
  <2> SUFFICES ASSUME NEW o \in Objects, Alive(o), Revision(o) <= n PROVE Held(Item, o)
    BY DEF Reaches, InScope
  <2>1. Revision(o) \in Nat BY <1>2, RevisionIs
  <2>2. Revision(o) <= BoundOf(s, p) /\ SinceOf(s) = 0 BY <1>3, <1>7, <2>1 DEF SinceOf
  <2>3. Held(Item, o) \/ Revision(o) < 0 BY <1>1, <1>2, <1>7, <2>2, ListedHeld
  <2> QED BY <2>1, <2>3
<1>8. CASE p.next # Absent
  <2>1. PICK k \in Conts : k = p.next /\ k.seen = SeenOf(s) \cup {p.object} /\ k.from = BoundOf(s, p)
                           /\ p.object \in Objects
    BY <1>2, <1>8 DEF PageLists, ProviderPages
  <2>2. PICK a : a = [s EXCEPT !.continuation = k] OBVIOUS
  <2>3. /\ a.complete = s.complete /\ a.since = s.since /\ a.anchor = s.anchor
        /\ a.cursor = s.cursor /\ a.phase = s.phase /\ a.continuation = k
        /\ a.links = s.links /\ a.candidates = s.candidates
    BY <1>2, <2>2 DEF ProviderStates
  <2>4. a \in ProviderStates BY <1>2, <2>2 DEF ProviderStates
  <2>5. Advanced = a BY <1>1, <1>4, <1>8, <2>1, <2>2 DEF AfterList
  <2>6. Past(a, p.at) BY <1>2, <1>3, <2>1, <2>3 DEF Past
  <2>7. Fits(a)
    <3>1. ASSUME s.anchor # Absent PROVE s.anchor <= k.from
      <4>1. CASE s.continuation = Absent BY <1>2, <2>1, <3>1, <4>1 DEF BoundOf, Past
      <4>2. CASE s.continuation # Absent BY <1>2, <2>1, <3>1, <4>2 DEF BoundOf, Fits
      <4> QED BY <4>1, <4>2
    <3> QED BY <1>2, <2>3, <3>1, ProviderAssumption DEF Fits
  <2>8. ASSUME NEW o \in k.seen, Alive(o), Revision(o) <= k.from PROVE Held(Item, o)
    <3>1. o \in Objects /\ SeenOf(s) \subseteq Objects
      BY <1>2, <2>1, <2>8, StateNumbers DEF SeenOf
    <3>2. Revision(o) <= p.at
      <4>1. Revision(o) \in Nat BY <1>2, RevisionIs
      <4> QED BY <1>2, <1>3, <2>1, <2>8, <4>1
    <3>3. CASE o = p.object BY <1>1, <1>6, <2>8, <3>1, <3>2, <3>3, ItemHolds
    <3>4. CASE o \in SeenOf(s)
      <4>1. s.continuation # Absent /\ o \in s.continuation.seen /\ k.from = s.continuation.from
        BY <2>1, <3>4 DEF SeenOf, BoundOf
      <4>2. documents[o] = Revision(o) BY <1>2, <2>8, <4>1 DEF Vouches
      <4> QED BY <1>1, <2>8, <3>1, <3>2, <4>2, ItemHolds
    <3> QED BY <2>1, <2>8, <3>3, <3>4
  <2>9. Reaching(Item, slow \/ Slow, a)
    BY <1>1, <1>2, <1>5, <2>3, <2>8, StillReaches DEF Reaching
  <2> QED BY <1>1, <2>4, <2>5, <2>6, <2>7, <2>9
<1>9. CASE p.next = Absent /\ source = "google_drive"
  <2>1. PICK a : a = [s EXCEPT !.continuation = Absent, !.phase = "changes"] OBVIOUS
  <2>2. /\ a.complete = s.complete /\ a.since = s.since /\ a.anchor = s.anchor
        /\ a.cursor = s.cursor /\ a.phase = "changes" /\ a.continuation = Absent
        /\ a.links = s.links /\ a.candidates = s.candidates
    BY <1>2, <2>1 DEF ProviderStates
  <2>3. a \in ProviderStates BY <1>2, <2>1 DEF ProviderStates
  <2>4. Advanced = a BY <1>1, <1>4, <1>9, <2>1 DEF AfterList
  <2>5. Past(a, p.at) BY <1>2, <2>2 DEF Past
  <2>6. s.anchor # Absent BY <1>2, <1>9 DEF Fits
  <2>7. Fits(a) BY <1>2, <1>9, <2>2, <2>6, ProviderAssumption DEF Fits
  <2>8. s.anchor \in Nat /\ s.anchor <= BoundOf(s, p)
    BY <1>2, <2>6, StateNumbers DEF Fits, BoundOf, Past
  <2>9. PositionOf(a) = s.anchor BY <1>9, <2>2 DEF PositionOf
  <2>10. Reaches(Item, a.folder, PositionOf(a)) BY <1>7, <1>9, <2>8, <2>9
  <2>11. Reaching(Item, slow \/ Slow, a) BY <1>1, <1>9, <2>2, <2>10, StillReaches DEF Reaching
  <2> QED BY <1>1, <2>3, <2>4, <2>5, <2>7, <2>11
<1>10. CASE p.next = Absent /\ source = "gmail"
  <2>1. s.anchor # Absent BY <1>2, <1>10 DEF Fits
  <2>2. s.anchor \in Nat /\ s.anchor <= BoundOf(s, p) /\ s.anchor <= p.at
    BY <1>2, <2>1, StateNumbers DEF Fits, BoundOf, Past
  <2>3. PICK cursor \in Numbers : cursor = s.anchor BY <2>2 DEF Numbers
  <2>4. PICK a : a = Completed(s, cursor) OBVIOUS
  <2>5. /\ a \in ProviderStates /\ a.complete /\ a.since = call.began /\ a.cursor = s.anchor
        /\ a.links = s.links /\ a.anchor = Absent /\ a.phase = Absent
        /\ a.continuation = Absent /\ a.candidates = {}
    BY <1>2, <2>3, <2>4, CompletedIs
  <2>6. Advanced = a BY <1>1, <1>4, <1>10, <2>3, <2>4 DEF AfterList
  <2>7. Past(a, p.at) BY <1>2, <2>2, <2>5 DEF Past
  <2>8. Fits(a) BY <1>2, <2>1, <2>5, ProviderAssumption DEF Fits
  <2>9. Reaches(Item, 0, a.cursor) BY <1>7, <1>10, <2>2, <2>5
  <2>10. Reaching(Item, slow \/ Slow, a) BY <1>10, <2>5, <2>9, ProviderAssumption DEF Reaching
  <2> QED BY <1>1, <2>5, <2>6, <2>7, <2>8, <2>10
<1>11. CASE p.next = Absent /\ source = "google_calendar"
  <2>1. Absent \in Numbers BY DEF Numbers
  <2>2. PICK a : a = Completed(s, Absent) OBVIOUS
  <2>3. /\ a \in ProviderStates /\ a.complete /\ a.since = call.began /\ a.cursor = Absent
        /\ a.links = s.links /\ a.anchor = Absent /\ a.phase = Absent
        /\ a.continuation = Absent /\ a.candidates = {}
    BY <1>2, <2>1, <2>2, CompletedIs
  <2>4. Advanced = a BY <1>1, <1>4, <1>11, <2>2 DEF AfterList
  <2>5. Past(a, p.at) BY <1>2, <2>3 DEF Past
  <2>6. Fits(a) BY <1>2, <1>11, <2>3, ProviderAssumption DEF Fits
  <2>7. ASSUME ~slow, ~Slow PROVE Reaches(Item, 0, call.began - Overlap)
    <3>1. Overlap \in Nat /\ From \in Nat /\ (s.continuation # Absent => From = BoundOf(s, p))
      BY <1>1, <1>2, <1>3, ProviderAssumption DEF From, BoundOf
    <3>2. ~(call.began > From + Overlap) BY <1>11, <2>3, <2>4, <2>7 DEF Slow
    <3>3. call.began - Overlap <= BoundOf(s, p)
      <4>1. CASE s.continuation = Absent BY <1>2, <3>1, <4>1 DEF BoundOf
      <4>2. CASE s.continuation # Absent BY <1>2, <3>1, <3>2, <4>2
      <4> QED BY <4>1, <4>2
    <3> SUFFICES ASSUME NEW o \in Objects, Alive(o), Revision(o) <= call.began - Overlap
                 PROVE  Held(Item, o)
      BY DEF Reaches, InScope
    <3>4. Revision(o) \in Nat /\ Revision(o) > 0 BY <1>2, RevisionIs
    <3>5. Revision(o) <= BoundOf(s, p) /\ Revision(o) <= p.at BY <1>2, <1>3, <3>1, <3>3, <3>4
    <3>6. Held(Item, o) \/ Revision(o) < SinceOf(s) BY <1>1, <1>2, <1>11, <3>5, ListedHeld
    <3>7. CASE Revision(o) < SinceOf(s)
      <4>1. s.since # Absent /\ SinceOf(s) = s.since - Overlap BY <3>4, <3>7 DEF SinceOf
      <4>2. s.since \in Nat BY <1>2, <4>1, StateNumbers
      <4>3. CurrentIn(documents, 0, s.since - Overlap) BY <1>2, <1>11, <2>7, <4>1 DEF Vouches
      <4>4. Revision(o) <= s.since - Overlap BY <3>1, <3>4, <3>7, <4>1, <4>2
      <4>5. documents[o] = Revision(o) BY <1>5, <4>3, <4>4 DEF CurrentIn, InScope
      <4> QED BY <1>1, <3>5, <4>5, ItemHolds
    <3> QED BY <3>6, <3>7
  <2>8. Reaching(Item, slow \/ Slow, a) BY <1>11, <2>3, <2>7, ProviderAssumption DEF Reaching
  <2> QED BY <1>1, <2>3, <2>4, <2>5, <2>6, <2>8
<1> QED BY <1>5, <1>8, <1>9, <1>10, <1>11 DEF Sources

LEMMA TwoFolders == Cardinality(Folders) = 2
<1>1. IsFiniteSet({1}) /\ Cardinality({1}) = 1 BY FS_Singleton
<1>2. 2 \notin {1} /\ {1} \cup {2} = Folders BY DEF Folders
<1>3. Cardinality({1} \cup {2}) = 2 BY <1>1, <1>2, FS_AddElement
<1> QED BY <1>2, <1>3

\* The checkpoint a page of changes leads to.
LEMMA ChangesAdvance ==
  ASSUME ProviderInv, call.page # Absent, call.state.phase = "changes"
  PROVE  /\ Advanced \in ProviderStates /\ Past(Advanced, call.page.at) /\ Fits(Advanced)
         /\ Reaching(Item, slow \/ Slow, Advanced)
<1>1. PICK s, p : s = call.state /\ p = call.page OBVIOUS
<1>2. /\ s \in ProviderStates /\ Past(s, p.at) /\ Fits(s) /\ ~s.complete
      /\ p.at \in Nat /\ call.began \in Nat
      /\ call.began <= p.at /\ p \in ProviderPages /\ s.phase = "changes"
  BY <1>1, ReadPageIs
<1>3. /\ UpTo(p) \in Nat /\ UpTo(p) <= p.at /\ PositionOf(s) \in Nat /\ PositionOf(s) <= UpTo(p)
      /\ Reaches(Item, s.folder, UpTo(p))
  BY <1>1, <1>2, ChangesHeld
<1>4. Advanced = AfterChanges(s) BY <1>1, <1>2 DEF Advanced
<1>5. source # "google_calendar" /\ source \in Sources
  BY <1>2 DEF Fits, ProviderInv, ProviderTyped
<1>6. CASE p.next # Absent
  <2>1. PICK k \in Conts : k = p.next /\ k.from = UpTo(p) BY <1>2, <1>6 DEF UpTo, ProviderPages
  <2>2. PICK a : a = [s EXCEPT !.continuation = k] OBVIOUS
  <2>3. /\ a.complete = s.complete /\ a.since = s.since /\ a.anchor = s.anchor
        /\ a.cursor = s.cursor /\ a.phase = s.phase /\ a.continuation = k
        /\ a.links = s.links /\ a.candidates = s.candidates /\ a.folder = s.folder
    BY <1>2, <2>2 DEF ProviderStates
  <2>4. a \in ProviderStates BY <1>2, <2>2 DEF ProviderStates
  <2>5. Advanced = a BY <1>1, <1>4, <1>6, <2>1, <2>2 DEF AfterChanges
  <2>6. Past(a, p.at) BY <1>2, <1>3, <2>1, <2>3 DEF Past
  <2>7. Fits(a)
    <3>1. ASSUME source # "outlook_mail" PROVE s.anchor <= k.from
      <4>1. s.anchor # Absent /\ s.anchor \in Nat BY <1>2, <3>1, StateNumbers DEF Fits
      <4>2. s.anchor <= PositionOf(s) BY <1>2, <3>1, <4>1 DEF PositionOf, Fits
      <4> QED BY <1>3, <2>1, <4>1, <4>2
    <3> QED BY <1>2, <2>3, <3>1, ProviderAssumption DEF Fits
  <2>8. PositionOf(a) = UpTo(p) BY <1>6, <2>1, <2>3 DEF PositionOf
  <2>9. Reaching(Item, slow \/ Slow, a)
    BY <1>1, <1>2, <1>3, <1>5, <2>3, <2>8, StillReaches DEF Reaching
  <2> QED BY <1>1, <2>4, <2>5, <2>6, <2>7, <2>9
<1>7. CASE p.next = Absent /\ source # "outlook_mail"
  <2>1. UpTo(p) = p.at BY <1>7 DEF UpTo
  <2>2. PICK cursor \in Numbers : cursor = p.at /\ cursor # Absent
    BY <1>2, ProviderAssumption DEF Numbers
  <2>3. PICK a : a = Completed(s, cursor) OBVIOUS
  <2>4. /\ a \in ProviderStates /\ a.complete /\ a.since = call.began /\ a.cursor = cursor
        /\ a.links = s.links /\ a.anchor = Absent /\ a.phase = Absent
        /\ a.continuation = Absent /\ a.candidates = {}
    BY <1>2, <2>3, CompletedIs
  <2>5. Advanced = a BY <1>1, <1>4, <1>7, <2>2, <2>3 DEF AfterChanges
  <2>6. Past(a, p.at) BY <1>2, <2>2, <2>4 DEF Past
  <2>7. Fits(a) BY <1>2, <2>2, <2>4, ProviderAssumption DEF Fits
  <2>8. Reaches(Item, 0, a.cursor) BY <1>3, <1>7, <2>1, <2>2, <2>4 DEF Reaches, InScope
  <2>9. Reaching(Item, slow \/ Slow, a)
    BY <1>5, <1>7, <2>4, <2>8, ProviderAssumption DEF Reaching
  <2> QED BY <1>1, <2>4, <2>5, <2>6, <2>7, <2>9
<1>8. CASE p.next = Absent /\ source = "outlook_mail"
  <2>1. UpTo(p) = p.at /\ s.folder \in Folders BY <1>2, <1>8 DEF UpTo, Fits
  <2>2. PICK links : links = [s.links EXCEPT ![s.folder] = p.at] OBVIOUS
  <2>3. /\ links \in [Folders -> Nat]
        /\ \A f \in Folders : links[f] = IF f = s.folder THEN p.at ELSE s.links[f]
    BY <1>2, <2>1, <2>2, StateNumbers
  <2>4. \A f \in Folders : Reaches(Item, f, links[f]) /\ links[f] <= p.at
    <3>1. \A f \in Folders : Reaches(Item, f, s.links[f]) /\ s.links[f] <= p.at
      BY <1>1, <1>2, <1>8, StillReaches DEF Past
    <3> QED BY <1>2, <1>3, <2>1, <2>3, <3>1
  <2>5. PICK linked : linked = [s EXCEPT !.continuation = Absent, !.links[s.folder] = p.at,
                                         !.folder = @ + 1]
    OBVIOUS
  <2>6. PICK next : next = s.folder + 1 OBVIOUS
  <2>7. linked = [s EXCEPT !.continuation = Absent, !.links = links, !.folder = next]
    BY <1>2, <2>2, <2>5, <2>6 DEF ProviderStates
  <2>8. /\ linked.complete = s.complete /\ linked.since = s.since /\ linked.anchor = s.anchor
        /\ linked.cursor = s.cursor /\ linked.phase = s.phase /\ linked.continuation = Absent
        /\ linked.links = links /\ linked.candidates = s.candidates /\ linked.folder = next
    BY <1>2, <2>7 DEF ProviderStates
  <2>9. Advanced = IF s.folder = 2 THEN Completed(linked, Absent) ELSE linked
    BY <1>1, <1>4, <1>8, <2>5, TwoFolders DEF AfterChanges
  <2>10. CASE s.folder = 1
    <3>1. next \in 0..2 /\ next = 2 BY <2>6, <2>10
    <3>2. linked \in ProviderStates BY <1>2, <2>3, <2>7, <3>1 DEF ProviderStates
    <3>3. Past(linked, p.at) BY <1>2, <2>4, <2>8 DEF Past
    <3>4. Fits(linked) BY <1>2, <1>8, <2>8, <3>1, ProviderAssumption DEF Fits, Folders
    <3>5. PositionOf(linked) = links[2] /\ 2 \in Folders
      BY <1>8, <2>8, <3>1 DEF PositionOf, Folders
    <3>6. Reaching(Item, slow \/ Slow, linked)
      BY <1>2, <1>8, <2>4, <2>8, <3>1, <3>5, ProviderAssumption DEF Reaching
    <3>7. Advanced = linked BY <2>9, <2>10
    <3> QED BY <1>1, <3>2, <3>3, <3>4, <3>6, <3>7
  <2>11. CASE s.folder = 2
    <3>1. PICK i \in ProviderStates : i = InitialState BY InitialIs
    <3>2. PICK since \in Numbers : since = call.began /\ since # Absent
      BY <1>2, ProviderAssumption DEF Numbers
    <3>3. i.anchor = Absent /\ i.phase = Absent /\ i.continuation = Absent /\ i.candidates = {}
      BY <3>1, InitialIs
    <3>4. Absent \in Numbers BY DEF Numbers
    <3>5. PICK a : a = [i EXCEPT !.complete = TRUE, !.since = since, !.cursor = Absent,
                                 !.links = links]
      OBVIOUS
    <3>6. Advanced = a BY <2>8, <2>9, <2>11, <3>1, <3>2, <3>5 DEF Completed
    <3>7. /\ a.complete /\ a.since = since /\ a.cursor = Absent /\ a.links = links
          /\ a.anchor = Absent /\ a.phase = Absent /\ a.continuation = Absent
          /\ a.candidates = {}
      BY <3>3, <3>5 DEF ProviderStates
    <3>8. a \in ProviderStates BY <2>3, <3>4, <3>5 DEF ProviderStates
    <3>9. Past(a, p.at) BY <1>2, <2>4, <3>2, <3>7 DEF Past
    <3>10. Fits(a) BY <1>8, <3>2, <3>7, ProviderAssumption DEF Fits
    <3>11. Reaching(Item, slow \/ Slow, a) BY <1>8, <2>4, <3>7, ProviderAssumption DEF Reaching
    <3> QED BY <1>1, <3>6, <3>8, <3>9, <3>10, <3>11
  <2> QED BY <2>1, <2>10, <2>11 DEF Folders
<1> QED BY <1>6, <1>7, <1>8

----------------------------------------
LEMMA AdvancedIs ==
  ASSUME ProviderInv, call.page # Absent
  PROVE  /\ Advanced \in ProviderStates /\ Past(Advanced, Clock) /\ Fits(Advanced)
         /\ Reaching(Item, slow \/ Slow, Advanced) /\ Item \in SUBSET Fetches
         /\ Candidates \subseteq Objects /\ (Candidates # {} => source = "outlook_mail")
<1>1. /\ Advanced \in ProviderStates /\ Past(Advanced, call.page.at) /\ Fits(Advanced)
      /\ Reaching(Item, slow \/ Slow, Advanced)
  BY ReadPageIs, ListAdvances, ChangesAdvance
<1>2. Past(Advanced, Clock) BY <1>1, ReadPageIs, PastOn
<1>3. Candidates \subseteq Objects BY ReadPageIs, StateNumbers DEF Candidates, ProviderPages
<1>4. Candidates # {} => source = "outlook_mail" BY ReadPageIs DEF Candidates, Fits
<1> QED BY <1>1, <1>2, <1>3, <1>4, ItemIs

\* The documents and the checkpoint of a call that is stored.
LEMMA StoredInv ==
  ASSUME ProviderInv, UNCHANGED <<source, changes>>, NEW set \in SUBSET Fetches,
         NEW st \in ProviderStates, NEW sl \in BOOLEAN, Past(st, Clock), Fits(st),
         Reaching(set, sl, st),
         documents' = Stored(set), saved' = st, slow' = sl, call' = NoCall
  PROVE  ProviderInv'
<1>1. ProviderTyped /\ GoneStays /\ changes \in Seq(Entries) /\ documents \in [Objects -> Nat]
  BY DEF ProviderInv, ProviderTyped
<1>2. PICK texts \in [Objects -> Nat] : texts = Stored(set) BY <1>1, StoredIs
<1>3. Sound(texts, sl, st) BY <1>1, <1>2, ReachingStored DEF Sound
<1>4. Grows(changes, changes') BY <1>1, GrowsNot
<1>5. Sound(texts, sl, st)' BY <1>3, <1>4, SoundCarries
<1>6. ProviderTyped' BY <1>1, <1>2, NoCallTyped DEF ProviderTyped
<1>7. \A o : Alive(o)' <=> Alive(o) BY HistoryIs
<1>8. GoneStays' BY <1>1, <1>7 DEF GoneStays
<1>9. documents' = texts /\ NoCall' = NoCall BY <1>2 DEF NoCall
<1> QED BY <1>5, <1>6, <1>8, <1>9 DEF ProviderInv

LEMMA FinishPageInv == ProviderInv /\ FinishPage => ProviderInv'
<1> SUFFICES ASSUME ProviderInv, FinishPage PROVE ProviderInv'
  OBVIOUS
<1>1. call.page # Absent /\ UNCHANGED <<source, changes>> BY DEF FinishPage
<1>2. PICK a \in ProviderStates, set \in SUBSET Fetches, cs \in SUBSET Objects :
        a = Advanced /\ set = Item /\ cs = Candidates
  BY <1>1, AdvancedIs
<1>3. /\ Past(a, Clock) /\ Fits(a) /\ Reaching(set, slow \/ Slow, a)
      /\ cs # {} => source = "outlook_mail"
  BY <1>1, <1>2, AdvancedIs
<1>4. CASE a.complete /\ cs # {}
  <2>1. /\ call' = [call EXCEPT !.state = a, !.page = Absent, !.confirm = cs, !.fetched = set]
        /\ UNCHANGED <<documents, saved, slow>>
    BY <1>2, <1>4 DEF FinishPage
  <2>2. PICK c \in ProviderCalls : c = call /\ c.began <= Clock
    BY <1>1, ReadPageIs DEF ProviderInv, CallOK
  <2>3. PICK d : d = [c EXCEPT !.state = a, !.page = Absent, !.confirm = cs, !.fetched = set]
    OBVIOUS
  <2>4. /\ d.state = a /\ d.page = Absent /\ d.confirm = cs /\ d.fetched = set
        /\ d.began = c.began
    BY <2>3 DEF ProviderCalls
  <2>5. d \in ProviderCalls BY <2>3 DEF ProviderCalls
  <2>6. ASSUME NEW o \in Objects, NEW f \in Folders, InFolder(o, f), Revision(o) <= a.links[f]
        PROVE  Held(set, o)
    <3>1. InScope(o, f) BY <2>6 DEF InScope, InFolder
    <3> QED BY <1>3, <1>4, <2>6, <3>1 DEF Reaching, Reaches
  <2>7. Confirming(a, set) BY <1>3, <1>4, <2>6 DEF Confirming
  <2>8. CallOK(d) BY <1>4, <2>2, <2>4, <2>7 DEF CallOK
  <2> QED BY <1>1, <2>1, <2>2, <2>3, <2>5, <2>8, CallGoesOn
<1>5. CASE ~(a.complete /\ cs # {})
  <2>1. PICK left \in SUBSET Objects : left = IF a.complete THEN {} ELSE cs OBVIOUS
  <2>2. PICK st : st = [a EXCEPT !.candidates = left] OBVIOUS
  <2>3. /\ st.complete = a.complete /\ st.since = a.since /\ st.anchor = a.anchor
        /\ st.cursor = a.cursor /\ st.phase = a.phase /\ st.continuation = a.continuation
        /\ st.links = a.links /\ st.candidates = left /\ st.folder = a.folder
    BY <2>2 DEF ProviderStates
  <2>4. st \in ProviderStates BY <2>2 DEF ProviderStates
  <2>5. Past(st, Clock) BY <1>3, <2>3 DEF Past
  <2>6. Fits(st) BY <1>3, <2>1, <2>3 DEF Fits
  <2>7. Reaching(set, slow \/ Slow, st)
    <3>1. PositionOf(st) = PositionOf(a) BY <2>3 DEF PositionOf
    <3> QED BY <1>3, <2>3, <3>1 DEF Reaching
  <2>8. /\ documents' = Stored(set) /\ saved' = st /\ slow' = (slow \/ Slow) /\ call' = NoCall
    BY <1>2, <1>5, <2>1, <2>2 DEF FinishPage
  <2>9. (slow \/ Slow) \in BOOLEAN OBVIOUS
  <2> QED BY <1>1, <2>4, <2>5, <2>6, <2>7, <2>8, <2>9, StoredInv
<1> QED BY <1>4, <1>5

LEMMA ConfirmRemovalInv ==
  ASSUME ProviderInv, NEW o \in Objects, ConfirmRemoval(o)
  PROVE  ProviderInv'
<1>1. o \in call.confirm /\ UNCHANGED <<source, changes, slow>> BY DEF ConfirmRemoval
<1>2. call # NoCall BY <1>1, NoCallTyped
<1>3. PICK c \in ProviderCalls :
        c = call /\ c.began <= Clock /\ c.confirm # {} /\ c.page = Absent
          /\ Confirming(c.state, c.fetched)
  BY <1>1, <1>2 DEF ProviderInv, ProviderTyped, CallOK
<1>4. PICK st \in ProviderStates : st = c.state BY <1>3 DEF Confirming
<1>5. /\ source = "outlook_mail" /\ st.complete /\ Past(st, Clock) /\ Fits(st)
      /\ changes \in Seq(Entries)
      /\ \A x \in Objects, f \in Folders :
           InFolder(x, f) /\ Revision(x) <= st.links[f] => Held(c.fetched, x)
  BY <1>3, <1>4 DEF Confirming, ProviderInv, ProviderTyped
<1>6. PICK answer \in {"read", "failed"} :
        LET got == IF answer = "read"
                   THEN {d \in c.fetched : d[1] # o} \cup Confirmed(o) ELSE c.fetched
        IN  IF c.confirm = {o}
            THEN documents' = Stored(got) /\ saved' = c.state /\ call' = NoCall
            ELSE /\ call' = [c EXCEPT !.confirm = @ \ {o}, !.fetched = got]
                 /\ UNCHANGED <<documents, saved>>
  BY <1>3 DEF ConfirmRemoval
<1>7. PICK r \in Nat : Confirmed(o) = {<<o, r>>} /\ (Alive(o) => r = Revision(o))
  <2>1. Revision(o) \in Nat /\ 0 \in Nat BY <1>5, RevisionIs
  <2> QED BY <2>1 DEF Confirmed, Doc
<1>8. PICK got : got = IF answer = "read"
                       THEN {d \in c.fetched : d[1] # o} \cup {<<o, r>>} ELSE c.fetched
  OBVIOUS
<1>9. got \in SUBSET Fetches BY <1>8 DEF ProviderCalls, Fetches
<1>10. ASSUME NEW x \in Objects, NEW f \in Folders, InFolder(x, f), Revision(x) <= st.links[f]
       PROVE  Held(got, x)
  <2>1. Held(c.fetched, x) /\ Alive(x) BY <1>5, <1>10 DEF InFolder
  <2>2. CASE answer = "read" /\ x = o
    <3>1. <<o, r>> \in got /\ \A d \in got : d[1] = x => d = <<o, r>> BY <1>8, <2>2
    <3> QED BY <1>7, <2>1, <2>2, <3>1 DEF Held
  <2>3. CASE answer = "read" /\ x # o
    <3>1. \A d : d \in got /\ d[1] = x <=> d \in c.fetched /\ d[1] = x BY <1>8, <2>3
    <3> QED BY <2>1, <3>1 DEF Held
  <2>4. CASE answer # "read" BY <1>8, <2>1, <2>4
  <2> QED BY <2>2, <2>3, <2>4
<1>11. CASE c.confirm = {o}
  <2>1. documents' = Stored(got) /\ saved' = st /\ call' = NoCall
    BY <1>4, <1>6, <1>7, <1>8, <1>11
  <2>2. Reaching(got, slow, st)
    BY <1>5, <1>10, ProviderAssumption DEF Reaching, Reaches, InScope, Fits
  <2>3. slow \in BOOLEAN BY DEF ProviderInv, ProviderTyped
  <2>4. PICK sl \in BOOLEAN : sl = slow BY <2>3
  <2> QED BY <1>1, <1>5, <1>9, <2>1, <2>2, <2>4, StoredInv
<1>12. CASE c.confirm # {o}
  <2>1. PICK left \in SUBSET Objects : left = c.confirm \ {o} /\ left # {}
    BY <1>1, <1>3, <1>12 DEF ProviderCalls
  <2>2. PICK d : d = [c EXCEPT !.confirm = left, !.fetched = got] OBVIOUS
  <2>3. /\ d.state = c.state /\ d.page = c.page /\ d.confirm = left /\ d.fetched = got
        /\ d.began = c.began
    BY <2>2 DEF ProviderCalls
  <2>4. d \in ProviderCalls BY <1>9, <2>2 DEF ProviderCalls
  <2>5. call' = d /\ UNCHANGED <<documents, saved>> BY <1>6, <1>7, <1>8, <1>12, <2>1, <2>2
  <2>6. Confirming(st, got) BY <1>5, <1>10 DEF Confirming
  <2>7. CallOK(d) BY <1>3, <1>4, <2>1, <2>3, <2>6 DEF CallOK
  <2> QED BY <1>1, <2>4, <2>5, <2>7, CallGoesOn
<1> QED BY <1>11, <1>12

----------------------------------------
LEMMA ProviderNextInv ==
  ProviderInv /\ (ProviderNext \/ UNCHANGED <<source, changes, documents, slow, saved, call>>)
    => ProviderInv'
<1> SUFFICES ASSUME ProviderInv,
                    ProviderNext \/ UNCHANGED <<source, changes, documents, slow, saved, call>>
             PROVE  ProviderInv'
  OBVIOUS
<1>1. CASE UNCHANGED <<source, changes, documents, slow, saved, call>> BY <1>1, CallGoesOn
<1>2. CASE ProviderNext
  BY <1>2, ArrivesInv, DisappearsInv, ConfirmRemovalInv, MovesInv, ForgetsInv, BeginCallInv,
     FollowCursorInv, CaptureAnchorInv, ListFoldersInv, ListPageInv, ChangePageInv,
     HistoryExpiredInv, FinishPageInv, CallFailsInv, CallLostInv
  DEF ProviderNext
<1> QED BY <1>1, <1>2

LEMMA NothingIsMissed == ProviderInv => NothingMissed
<1> SUFFICES ASSUME ProviderInv, saved # Absent, saved.complete, NEW o \in Objects, Alive(o),
                    Revision(o) <= Vouched(o)
             PROVE  documents[o] = Revision(o)
  BY DEF NothingMissed
<1>1. /\ saved \in ProviderStates /\ Fits(saved) /\ Vouches(documents, slow, saved)
      /\ changes \in Seq(Entries) /\ source \in Sources
  BY DEF ProviderInv, ProviderTyped, Sound
<1>2. CASE source = "outlook_mail"
  <2>1. Revision(o) \in DOMAIN changes BY <1>1, RevisionIs
  <2>2. changes[Revision(o)] \in Entries BY <1>1, <2>1
  <2>3. PICK f \in Folders : f = changes[Revision(o)].folder BY <2>2 DEF Entries
  <2>4. InScope(o, f) /\ Revision(o) <= saved.links[f]
    BY <1>2, <2>3 DEF InScope, InFolder, Vouched
  <2> QED BY <1>1, <1>2, <2>4 DEF Vouches, CurrentIn
<1>3. CASE source = "google_calendar"
  <2>1. Revision(o) \in Nat /\ Revision(o) > 0 BY <1>1, RevisionIs
  <2>2. ~slow /\ Revision(o) <= saved.since - Overlap BY <1>3, <2>1 DEF Vouched
  <2>3. saved.since # Absent BY <1>1 DEF Fits
  <2> QED BY <1>1, <1>3, <2>2, <2>3 DEF Vouches, CurrentIn, InScope
<1>4. CASE source \in {"gmail", "google_drive"}
  <2>1. Revision(o) <= saved.cursor /\ saved.cursor # Absent BY <1>1, <1>4 DEF Vouched, Fits
  <2> QED BY <1>1, <1>4, <2>1 DEF Vouches, CurrentIn, InScope
<1> QED BY <1>1, <1>2, <1>3, <1>4 DEF Sources

(* What the corpus has taken a checkpoint past is in it, can be read, and is
   found by a search that runs meanwhile (read_page and advance of the
   providers, sync, refresh, search), for every account, set of documents
   and overlap, and any number of changes, calls and interruptions. *)
THEOREM CorpusIsComplete == CorpusSpec => []CorpusComplete
<1>1. ProviderInit /\ CorpusInit => ProviderInv /\ CorpusInv BY ProviderInitInv, CorpusInitInv
<1>2. /\ ProviderInv /\ CorpusInv
      /\ [\/ ProviderNext /\ UNCHANGED corpusState
          \/ CorpusNext /\ UNCHANGED providerState]_<<providerState, corpusState, odds, meddled>>
      => (ProviderInv /\ CorpusInv)'
  BY ProviderNextInv, CorpusNextInv DEF providerState
<1>3. ProviderInv /\ CorpusInv => CorpusComplete
  BY NothingIsMissed, CorpusReads DEF CorpusComplete
<1> QED BY <1>1, <1>2, <1>3, PTL DEF CorpusSpec
=============================================================================
