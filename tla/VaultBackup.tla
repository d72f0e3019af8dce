---------------------------- MODULE VaultBackup -----------------------------
(* vault_backup.py: a backup of the vault taken while its writers run, and a
   restore into a directory that somebody else may use. *)
EXTENDS HostFaults, Sequences

CONSTANTS Free,        \* nobody, nothing
          MaxWrites    \* bound on the changes of the vault's writers

ASSUME BackupAssumption ==
    Free \notin {"vault", "signals", "pulse", "backup", "ours", "other", "prior"}

(* Every change of a domain touches two of its files, the first before the
   second: a record and its journal event, a compaction's archive and the
   inputs it removes, an integration's receipt and its report. *)
Domains == {"vault", "signals", "pulse"}
Files == Domains \X {1, 2}

(* The locks a change holds while it writes, and the ones a backup takes. *)
WriterLocks == [vault |-> {"global", "journal"}, signals |-> {"signals"}, pulse |-> {"pulse"}]
SnapshotLocks == <<"setup", "global", "journal", "local-source-migration", "signals">>
Locks == {SnapshotLocks[i] : i \in DOMAIN SnapshotLocks} \cup {"pulse"}

(* The files in the order the scan lists them. *)
ReadOrder == << <<"pulse", 1>>, <<"pulse", 2>>, <<"signals", 1>>, <<"signals", 2>>,
                <<"vault", 2>>, <<"vault", 1>> >>

VARIABLES files,       \* versions of the vault's files
          held,        \* who holds each lock
          torn,        \* domains whose writer died between its two files
          retained,    \* a compaction's operation directory was left behind
          backup,      \* the backup in progress
          archive,     \* what it read into its staged archive
          dest,        \* what the destination holds: Free, "ours" or "other"
          backupSaid,  \* how the last backup ended
          dirs,        \* the restore's target, its stage and the target set aside
          kept,        \* directories somebody has put files in
          restore,     \* the restore in progress
          restoreSaid

backupVars == <<files, held, torn, retained, backup, archive, dest, backupSaid>>
restoreVars == <<dirs, kept, restore, restoreSaid>>
bvars == <<backupVars, restoreVars, odds, meddled>>

--------------------------------------------------------------------------
(* The writers. *)

Writing(d) == \E l \in WriterLocks[d] : held[l] = d

(* A change takes its locks and writes its first file. A compaction first
   completes the one that died. *)
BeginChange(d) ==
    /\ files[<<d, 1>>] < MaxWrites
    /\ \A l \in WriterLocks[d] : held[l] = Free
    /\ held' = [l \in Locks |-> IF l \in WriterLocks[d] THEN d ELSE held[l]]
    /\ IF d = "signals" /\ files[<<d, 2>>] # files[<<d, 1>>]
       THEN files' = [files EXCEPT ![<<d, 2>>] = files[<<d, 1>>], ![<<d, 1>>] = @ + 1]
       ELSE files' = [files EXCEPT ![<<d, 1>>] = @ + 1]
    /\ UNCHANGED <<torn, retained, backup, archive, dest, backupSaid, restoreVars, odds, meddled>>

Released(who) == [l \in Locks |-> IF held[l] = who THEN Free ELSE held[l]]

EndChange(d) ==
    /\ Writing(d)
    /\ files' = [files EXCEPT ![<<d, 2>>] = files[<<d, 1>>]]
    /\ held' = Released(d)
    /\ UNCHANGED <<torn, retained, backup, archive, dest, backupSaid, restoreVars, odds, meddled>>

(* Its process dies between the two; the operation of a compaction may be
   left behind by a failed removal instead. *)
ChangeDies(d) ==
    /\ Writing(d) /\ Odd
    /\ held' = Released(d)
    /\ \/ torn' = torn \cup {d} /\ UNCHANGED <<files, retained>>
       \/ /\ d = "signals"
          /\ files' = [files EXCEPT ![<<d, 2>>] = files[<<d, 1>>]]
          /\ retained' = TRUE /\ UNCHANGED torn
    /\ UNCHANGED <<backup, archive, dest, backupSaid, restoreVars, meddled>>

--------------------------------------------------------------------------
(* Backup. *)

Idle == [at |-> "idle", k |-> 0]
BackupAt(x) == backup.at = x

(* The destination's policy and the refusal to replace what is there. *)
BeginBackup ==
    /\ BackupAt("idle") /\ dest = Free
    /\ backup' = [at |-> "locking", k |-> 1]
    /\ archive' = [f \in Files |-> 0]
    /\ UNCHANGED <<files, held, torn, retained, dest, backupSaid, restoreVars, odds, meddled>>

BackupEnds(said) ==
    /\ backup' = Idle /\ held' = Released("backup") /\ backupSaid' = said

(* The locks are taken one after the other, the resident signals' last, which
   completes an interrupted compaction; a retained operation refuses. *)
SnapshotLock ==
    /\ BackupAt("locking") /\ backup.k <= Len(SnapshotLocks)
    /\ LET l == SnapshotLocks[backup.k]
       IN  /\ held[l] = Free
           /\ IF l = "signals" /\ retained
              THEN BackupEnds("refused") /\ UNCHANGED files
              ELSE /\ held' = [held EXCEPT ![l] = "backup"]
                   /\ files' = IF l = "signals" THEN [files EXCEPT ![<<l, 2>>] = files[<<l, 1>>]]
                               ELSE files
                   /\ backup' = IF backup.k = Len(SnapshotLocks) THEN [at |-> "reading", k |-> 1]
                                ELSE [backup EXCEPT !.k = @ + 1]
                   /\ UNCHANGED backupSaid
    /\ UNCHANGED <<torn, retained, archive, dest, restoreVars, odds, meddled>>

(* Every file of the scan is read into the staged archive, which is verified
   against its manifest before it is published. *)
ReadFile ==
    /\ BackupAt("reading")
    /\ LET f == ReadOrder[backup.k]
       IN  archive' = [archive EXCEPT ![f] = files[f]]
    /\ backup' = IF backup.k = Len(ReadOrder) THEN [at |-> "publishing", k |-> 0]
                 ELSE [backup EXCEPT !.k = @ + 1]
    /\ UNCHANGED <<files, held, torn, retained, dest, backupSaid, restoreVars, odds, meddled>>

(* A read, the staging or its verification fails: nothing is published. *)
StagingFails ==
    /\ BackupAt("reading") \/ BackupAt("publishing")
    /\ Odd /\ BackupEnds("refused")
    /\ UNCHANGED <<files, torn, retained, archive, dest, restoreVars, meddled>>

(* The staged archive is linked to a free name; what fails after the link
   leaves a backup that is committed, or unknown when the destination is no
   longer the file that was linked. *)
DurablePublishNew ==
    /\ dest = Free /\ dest' = "ours"
    /\ \/ /\ backup' = [at |-> "verifying", k |-> 0] /\ held' = Released("backup")
          /\ UNCHANGED <<backupSaid, odds>>
       \/ Odd /\ BackupEnds("committed")

\* It never goes over another file.
PublishBackup ==
    /\ BackupAt("publishing")
    /\ \/ DurablePublishNew
       \/ dest # Free /\ BackupEnds("refused") /\ UNCHANGED <<dest, odds>>
    /\ UNCHANGED <<files, torn, retained, archive, restoreVars, meddled>>

(* After the locks are back, the published file must still be the staged one. *)
VerifyBackup ==
    /\ BackupAt("verifying")
    /\ BackupEnds(IF dest = "ours" THEN "verified" ELSE "degraded")
    /\ UNCHANGED <<files, torn, retained, archive, dest, restoreVars, odds, meddled>>

BackupDies ==
    /\ ~BackupAt("idle") /\ Odd /\ BackupEnds("died")
    /\ UNCHANGED <<files, torn, retained, archive, dest, restoreVars, meddled>>

--------------------------------------------------------------------------
(* Restore. *)

Dir(id) == [id |-> id, files |-> id = "ours"]
NoDir == [id |-> Free, files |-> FALSE]
EmptyOrAbsent(x) == ~x.files
RestoreAt(x) == restore = x

RestoreEnds(said) == restore' = "idle" /\ restoreSaid' = said

(* The target must be absent or empty before a stage is made beside it. *)
BeginRestore ==
    /\ RestoreAt("idle") /\ dirs.stage = NoDir
    /\ EmptyOrAbsent(dirs.target)
    /\ dirs' = [dirs EXCEPT !.stage = Dir("ours")]
    /\ restore' = "staged"
    /\ UNCHANGED <<backupVars, kept, restoreSaid, odds, meddled>>

(* The archive's hashes, the doctor and the staged files are checked, or the
   restore ends with its stage retained. *)
StageRejected ==
    /\ RestoreAt("staged") /\ Odd
    /\ RestoreEnds("not published")
    /\ UNCHANGED <<backupVars, dirs, kept, meddled>>

(* The target is looked at again, and an empty one is moved aside. A move
   that fails after it happened goes on: the next one persists both. *)
SetAside ==
    /\ RestoreAt("staged")
    /\ IF ~EmptyOrAbsent(dirs.target)
       THEN RestoreEnds("not published") /\ UNCHANGED <<dirs, odds>>
       ELSE IF dirs.target = NoDir
       THEN restore' = "publishing" /\ UNCHANGED <<dirs, restoreSaid, odds>>
       ELSE \/ /\ dirs' = [dirs EXCEPT !.prior = dirs.target, !.target = NoDir]
               /\ restore' = "publishing" /\ UNCHANGED <<restoreSaid, odds>>
            \/ Odd /\ RestoreEnds("not published") /\ UNCHANGED dirs
    /\ UNCHANGED <<backupVars, kept, meddled>>

Published == [dirs EXCEPT !.target = dirs.stage, !.stage = NoDir]

(* The directory that was set aside must still be empty; the stage is then
   renamed to the target, which replaces an empty directory and fails on any
   other. Durability that cannot be confirmed is told as such. *)
PublishRestore ==
    /\ RestoreAt("publishing")
    /\ IF EmptyOrAbsent(dirs.prior) /\ EmptyOrAbsent(dirs.target)
       THEN \/ /\ dirs' = Published /\ restore' = "verifying" /\ UNCHANGED <<restoreSaid, odds>>
            \/ /\ Odd /\ dirs' = Published /\ RestoreEnds("committed")
            \/ /\ Odd /\ restore' = "undoing" /\ UNCHANGED <<dirs, restoreSaid>>
       ELSE restore' = "undoing" /\ UNCHANGED <<dirs, restoreSaid, odds>>
    /\ UNCHANGED <<backupVars, kept, meddled>>

(* The target that was set aside goes back where nothing took its place. *)
RestorePrior ==
    /\ RestoreAt("undoing")
    /\ IF dirs.prior = NoDir THEN RestoreEnds("not published") /\ UNCHANGED <<dirs, odds>>
       ELSE IF dirs.target # NoDir THEN RestoreEnds("degraded") /\ UNCHANGED <<dirs, odds>>
       ELSE \/ /\ dirs' = [dirs EXCEPT !.target = dirs.prior, !.prior = NoDir]
               /\ RestoreEnds("not published") /\ UNCHANGED odds
            \/ Odd /\ RestoreEnds("degraded") /\ UNCHANGED dirs
    /\ UNCHANGED <<backupVars, kept, meddled>>

(* The target must be the stage that was published, with its digest. *)
VerifyRestore ==
    /\ RestoreAt("verifying")
    /\ IF dirs.target.id = "ours" THEN restore' = "cleaning" /\ UNCHANGED restoreSaid
       ELSE RestoreEnds("degraded")
    /\ UNCHANGED <<backupVars, dirs, kept, odds, meddled>>

(* Mutant: the directory that was set aside is removed with what is in it. *)
RemovePriorTree ==
    /\ RestoreAt("cleaning")
    /\ dirs' = [dirs EXCEPT !.prior = NoDir]
    /\ RestoreEnds("published")
    /\ UNCHANGED <<backupVars, kept, odds, meddled>>

(* The directory that was set aside is removed when it is still empty. *)
RemovePriorEmpty ==
    /\ RestoreAt("cleaning")
    /\ dirs' = IF dirs.prior.files THEN dirs ELSE [dirs EXCEPT !.prior = NoDir]
    /\ RestoreEnds("published")
    /\ UNCHANGED <<backupVars, kept, odds, meddled>>

RestoreDies ==
    /\ ~RestoreAt("idle") /\ Odd /\ RestoreEnds("died")
    /\ UNCHANGED <<backupVars, dirs, kept, meddled>>

--------------------------------------------------------------------------
(* Somebody saves a file of their own at the destination. *)
TakeDestination ==
    /\ Odd /\ meddled' = TRUE /\ dest' = "other"
    /\ UNCHANGED <<files, held, torn, retained, backup, archive, backupSaid, restoreVars>>

(* Somebody makes a directory at the target, or puts files into one that is
   there. *)
UseTarget ==
    /\ Odd /\ meddled' = TRUE
    /\ \/ /\ dirs.target = NoDir
          /\ dirs' = [dirs EXCEPT !.target = Dir("other")] /\ UNCHANGED kept
       \/ \E w \in {"target", "prior"} :
             /\ dirs[w].id \in {"prior", "other"}
             /\ dirs' = [dirs EXCEPT ![w].files = TRUE]
             /\ kept' = kept \cup {dirs[w].id}
    /\ UNCHANGED <<backupVars, restore, restoreSaid>>

BackupInit ==
    /\ FaultsInit
    /\ files = [f \in Files |-> 0]
    /\ held = [l \in Locks |-> Free]
    /\ torn = {} /\ retained = FALSE
    /\ backup = Idle /\ archive = [f \in Files |-> 0]
    /\ dest = Free /\ backupSaid = Free
    /\ dirs \in {[target |-> t, stage |-> NoDir, prior |-> NoDir] : t \in {NoDir, Dir("prior")}}
    /\ kept = {}
    /\ restore = "idle" /\ restoreSaid = Free

BackupNext ==
    \/ \E d \in Domains : BeginChange(d) \/ EndChange(d) \/ ChangeDies(d)
    \/ BeginBackup \/ SnapshotLock \/ ReadFile \/ StagingFails \/ PublishBackup
    \/ VerifyBackup \/ BackupDies \/ TakeDestination

RestoreNext ==
    \/ BeginRestore \/ StageRejected \/ SetAside \/ PublishRestore \/ RestorePrior
    \/ VerifyRestore \/ RemovePriorEmpty \/ RestoreDies \/ UseTarget

CopiesSpec == BackupInit /\ [][BackupNext \/ RestoreNext]_bvars

--------------------------------------------------------------------------
Split(d) == archive[<<d, 1>>] # archive[<<d, 2>>]

(* A backup of the vault is one moment of it: it never holds half of a
   compaction, and half of a record's change only when the writer died there
   (vault_backup.py, _coherent_backup_snapshot, create_backup). *)
BackupCoherent ==
    dest = "ours" => ~Split("signals") /\ (Split("vault") => "vault" \in torn)

(* What a restore says is what happened: "not published" leaves the target
   as it was, and no file that somebody put into the target, or into the
   directory set aside for it, is ever lost (restore_backup,
   _restore_prior_target, _remove_prior_empty). *)
RestoreHonest ==
    /\ \A i \in kept : \E w \in {"target", "prior"} : dirs[w].id = i /\ dirs[w].files
    /\ restoreSaid = "not published" /\ restore = "idle" => dirs.target.id # "ours"

(* A backup is one moment of the vault, and a restore loses nobody's file. *)
CopiesHonest == BackupCoherent /\ RestoreHonest
=============================================================================
