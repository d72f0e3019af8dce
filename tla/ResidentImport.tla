--------------------------- MODULE ResidentImport ---------------------------
(* Moving a resident into a new vault (resident_import.py): an export the
   owner reviewed is staged beside its target, proved, and published only
   into an absent target.  The vault so made carries the cursors of the
   local sources; each is handed to this host's own checkpoint afterwards,
   in two files that no single write covers. *)
EXTENDS HostFaults, Sequences

CONSTANTS Exports,      \* exports that load: each stands for one set of exact bytes
          Unloadable,   \* an export that is malformed, altered or holds a credential
          MaxStages,    \* bound on stages ever allocated
          MaxSequence,  \* bound on acknowledged deliveries of the local source
          MaxTime,      \* bound on the instants of adoptions and resets
          NoVault       \* nothing is there

ASSUME ImportAssumption ==
  /\ Unloadable \notin Exports
  /\ NoVault \notin Exports \cup {[export |-> Unloadable, whole |-> FALSE]}
                 \cup [stage : Nat] \cup [state : {"pending", "adopted"}, at : Nat]
                 \cup [adopted : Nat, reset : Nat, sequence : Nat]

VARIABLES exportFile,   \* the owner's export
          stages,       \* the stages beside the target, by number
          home,         \* the directory at the target
          updating,     \* a self-update is interrupted
          importer,     \* [pc, plan, export, stage, says]
          migration,    \* the staged cursor: [state, at] of the vault at the target
          checkpoint,   \* the host's checkpoint of the local source
          selection,    \* [on, rev]: is the source selected, and at which revision
          adopter,      \* [pc, mig, rev, at]
          adoptions,    \* ghost: the instants at which the host took the cursor
          instant

migrationVars == <<migration, checkpoint, selection, adopter, adoptions, instant>>
stageVars == <<exportFile, stages, home, updating, importer>>
ivars == <<stageVars, migrationVars, odds, meddled>>

Stage(e) == [export |-> e, whole |-> FALSE]
Somebodys == [export |-> Unloadable, whole |-> FALSE]

-----------------------------------------------------------------------------
ImportEnds(says) == importer' = [importer EXCEPT !.pc = "idle", !.says = says]

\* What a call reports without having staged anything.
Refuse(says) == ImportEnds(says) /\ UNCHANGED <<exportFile, stages, home, updating, migrationVars, odds, meddled>>

\* The bytes an export file may hold, and those that parse, match their
\* hashes and counts and hold no credential.
ExportBytes == Exports \cup {Unloadable}
Loads(e) == e \in Exports
AbsentTarget == home = NoVault

(* inspect_resident_export names a plan by the exact export and target. *)
Inspect ==
  /\ importer.pc = "idle" /\ home = NoVault
  /\ IF Loads(exportFile)
     THEN /\ importer' = [importer EXCEPT !.plan = exportFile, !.says = "inspected"]
          /\ UNCHANGED <<exportFile, stages, home, updating, migrationVars, odds, meddled>>
     ELSE Refuse("refused")

(* apply_resident_export reads the export again and keeps it in memory. *)
BeginApply ==
  /\ importer.pc = "idle" /\ importer.plan # NoVault
  /\ IF Loads(exportFile) /\ AbsentTarget /\ exportFile = importer.plan /\ ~updating
     THEN /\ Len(stages) < MaxStages
          /\ stages' = Append(stages, Stage(exportFile))
          /\ importer' = [importer EXCEPT !.pc = "staging", !.export = exportFile,
                                          !.stage = Len(stages) + 1, !.says = "working"]
          /\ UNCHANGED <<exportFile, home, updating, migrationVars, odds, meddled>>
     ELSE Refuse("refused")

(* _write_stage: documents, records, sources, portable files, settled keys
   and at last the cursors, bound to the new vault's identity. *)
WriteStage ==
  /\ importer.pc = "staging"
  /\ stages' = [stages EXCEPT ![importer.stage] = [@ EXCEPT !.whole = TRUE]]
  /\ importer' = [importer EXCEPT !.pc = "staged"]
  /\ UNCHANGED <<exportFile, home, updating, migrationVars, odds, meddled>>

\* A write fails: the unpublished stage stays where it is.
StageFails ==
  /\ importer.pc = "staging" /\ Odd
  /\ ImportEnds("unpublished")
  /\ UNCHANGED <<exportFile, stages, home, updating, migrationVars, meddled>>

\* The doctor finds the stage healthy and its content is the export's.
StageMatches(s) == stages[s].whole /\ stages[s].export = importer.export

ProveStage ==
  /\ importer.pc = "staged"
  /\ IF ~StageMatches(importer.stage) THEN Refuse("unpublished")
     ELSE IF updating \/ ~AbsentTarget THEN Refuse("refused")
     ELSE /\ importer' = [importer EXCEPT !.pc = "publishing"]
          /\ UNCHANGED <<exportFile, stages, home, updating, migrationVars, odds, meddled>>

\* What the vault's migration file says of the cursor.
PendingCursor == [state |-> "pending", at |-> 0]
AdoptedCursor(at) == [state |-> "adopted", at |-> at]

\* publish_directory_no_replace_if_exact: the stage becomes the target, which
\* was absent; its cursors wait for the host.
MoveStage ==
  /\ AbsentTarget
  /\ home' = [stage |-> importer.stage]
  /\ migration' = PendingCursor
  /\ UNCHANGED <<exportFile, stages, updating, checkpoint, selection, adopter, adoptions,
                 instant, meddled>>

(* What the caller concludes from a failure by looking at both names
   (_raise_publish_error). *)
PublishStage ==
  /\ importer.pc = "publishing"
  /\ \/ /\ MoveStage /\ UNCHANGED odds
        /\ importer' = [importer EXCEPT !.pc = "readback"]
     \/ MoveStage /\ Odd /\ ImportEnds("committed")
     \/ /\ AbsentTarget /\ Odd /\ ImportEnds("unpublished")
        /\ UNCHANGED <<exportFile, stages, home, updating, migrationVars, meddled>>
     \/ ~AbsentTarget /\ Refuse("refused")

(* The target is read back by identity, digest, parity and doctor. *)
Readback ==
  /\ importer.pc = "readback"
  /\ Refuse(IF home = [stage |-> importer.stage] /\ StageMatches(importer.stage)
            THEN "applied" ELSE "degraded")

ImporterDies ==
  /\ importer.pc # "idle" /\ Odd /\ ImportEnds("died")
  /\ UNCHANGED <<exportFile, stages, home, updating, migrationVars, meddled>>

(* The owner exports again, somebody takes the target, edits a stage or uses
   the new vault at once, and a self-update is interrupted or recovered. *)
Around ==
  /\ UNCHANGED <<importer, migrationVars>>
  /\ \/ /\ Odd /\ exportFile' \in ExportBytes \ {exportFile}
        /\ UNCHANGED <<stages, home, updating, meddled>>
     \/ /\ Odd /\ AbsentTarget /\ home' = Somebodys
        /\ UNCHANGED <<exportFile, stages, updating, meddled>>
     \/ /\ Odd /\ importer.pc \in {"staging", "staged"}
        /\ stages' = [stages EXCEPT ![importer.stage] = Somebodys] /\ meddled' = TRUE
        /\ UNCHANGED <<exportFile, home, updating>>
     \/ /\ Odd /\ importer.pc = "readback" /\ home' = [stage |-> importer.stage, used |-> TRUE]
        /\ UNCHANGED <<exportFile, stages, updating, meddled>>
     \/ /\ Odd /\ updating' = ~updating
        /\ UNCHANGED <<exportFile, stages, home, meddled>>

-----------------------------------------------------------------------------
(* The handoff.  The host's checkpoint remembers which cursor it took and
   when, and when its store was last replaced. *)
HostAdopted == checkpoint # NoVault /\ checkpoint.adopted > 0
                 /\ ~(checkpoint.reset > 0 /\ checkpoint.reset >= checkpoint.adopted)

(* What staged_local_source_checkpoint_status tells the person. *)
MigrationState ==
  IF migration = NoVault THEN "absent"
  ELSE IF HostAdopted THEN IF migration.state = "pending" THEN "completion_pending" ELSE "adopted"
  ELSE IF migration.state = "adopted" THEN "needs_reproof"
  ELSE IF ~selection.on THEN "source_not_selected"
  ELSE IF checkpoint # NoVault THEN "host_conflict" ELSE "pending"

(* A person decides on the status they read. *)
ReadStatus ==
  /\ adopter.pc = "idle"
  /\ MigrationState # "absent"
  /\ adopter' = [adopter EXCEPT !.pc = "decided", !.mig = migration, !.rev = selection.rev]
  /\ UNCHANGED <<migration, checkpoint, selection, adoptions, instant, stageVars, odds, meddled>>

\* Under the migration's lock: everything is as it was read.
AsRead == migration = adopter.mig /\ selection.rev = adopter.rev

\* adopt_checkpoint takes the cursor only where there is none, and accepts
\* one it took before unless the store was replaced since.
MayAdopt == selection.on /\ (checkpoint = NoVault \/ HostAdopted)

AdopterIdle == adopter' = [adopter EXCEPT !.pc = "idle"]

\* Mutant: the migration is completed from what the person read.
HostAdoptPromised ==
  /\ adopter.pc = "decided" /\ AsRead
  /\ adopter' = [adopter EXCEPT !.pc = "completing", !.at = instant + 1]
  /\ UNCHANGED <<migration, checkpoint, selection, adoptions, instant, stageVars, odds, meddled>>
(* LocalSourceDelivery.adopt_checkpoint.  The store no longer holds the
   cursor's prefix, or the call fails: nothing changes. *)
HostAdopt ==
  /\ adopter.pc = "decided"
  /\ \/ /\ AsRead /\ MayAdopt
        /\ \/ /\ checkpoint = NoVault /\ instant < MaxTime
              /\ instant' = instant + 1
              /\ checkpoint' = [adopted |-> instant', reset |-> 0, sequence |-> 0]
              /\ adoptions' = adoptions \cup {instant'}
              /\ adopter' = [adopter EXCEPT !.pc = "completing", !.at = instant']
           \/ /\ checkpoint # NoVault
              /\ adopter' = [adopter EXCEPT !.pc = "completing", !.at = checkpoint.adopted]
              /\ UNCHANGED <<checkpoint, adoptions, instant>>
        /\ UNCHANGED <<migration, selection, stageVars, odds, meddled>>
     \/ /\ ~(AsRead /\ MayAdopt) /\ AdopterIdle
        /\ UNCHANGED <<migration, checkpoint, selection, adoptions, instant, stageVars, odds, meddled>>
     \/ /\ Odd /\ AdopterIdle
        /\ UNCHANGED <<migration, checkpoint, selection, adoptions, instant, stageVars, meddled>>

(* The migration records the adoption by compare-and-swap; a source state
   that moved leaves it pending, to be completed by a later call. *)
CompleteMigration ==
  /\ adopter.pc = "completing" /\ AdopterIdle
  /\ migration' = IF AsRead THEN AdoptedCursor(adopter.at) ELSE migration
  /\ UNCHANGED <<checkpoint, selection, adoptions, instant, stageVars, odds, meddled>>

AdopterDies ==
  /\ adopter.pc # "idle" /\ Odd /\ AdopterIdle
  /\ UNCHANGED <<migration, checkpoint, selection, adoptions, instant, stageVars, meddled>>

(* The rest of the host meanwhile: a baseline, an acknowledged delivery, a
   replaced store, lost host state, a change of the selected sources, the
   vault restored from a backup of the time before the adoption. *)
HostMoves ==
  /\ migration # NoVault /\ UNCHANGED <<stageVars, adopter, adoptions, meddled>>
  /\ \/ /\ checkpoint = NoVault /\ selection.on
        /\ checkpoint' = [adopted |-> 0, reset |-> 0, sequence |-> 0]
        /\ UNCHANGED <<migration, selection, instant, odds>>
     \/ /\ checkpoint # NoVault /\ checkpoint.sequence < MaxSequence
        /\ checkpoint' = [checkpoint EXCEPT !.sequence = @ + 1]
        /\ UNCHANGED <<migration, selection, instant, odds>>
     \/ /\ checkpoint # NoVault /\ instant < MaxTime /\ Odd
        /\ instant' = instant + 1
        /\ checkpoint' = [checkpoint EXCEPT !.reset = instant', !.sequence = 0]
        /\ UNCHANGED <<migration, selection>>
     \/ /\ Odd /\ checkpoint' = NoVault /\ UNCHANGED <<migration, selection, instant>>
     \/ /\ Odd /\ selection' = [on |-> ~selection.on, rev |-> selection.rev + 1]
        /\ UNCHANGED <<migration, checkpoint, instant>>
     \/ /\ Odd /\ migration' = PendingCursor
        /\ UNCHANGED <<checkpoint, selection, instant>>

-----------------------------------------------------------------------------
ImportInit ==
  /\ exportFile \in Exports /\ stages = <<>> /\ home = NoVault /\ updating = FALSE
  /\ importer = [pc |-> "idle", plan |-> NoVault, export |-> NoVault, stage |-> 0,
                 says |-> "nothing"]
  /\ migration = NoVault /\ checkpoint = NoVault /\ selection = [on |-> TRUE, rev |-> 1]
  /\ adopter = [pc |-> "idle", mig |-> NoVault, rev |-> 0, at |-> 0]
  /\ adoptions = {} /\ instant = 0
  /\ FaultsInit

ImportNext ==
  \/ Inspect \/ BeginApply \/ WriteStage \/ StageFails \/ ProveStage \/ PublishStage
  \/ Readback \/ ImporterDies \/ Around
  \/ ReadStatus \/ HostAdopt \/ CompleteMigration \/ AdopterDies \/ HostMoves

ImportSpec == ImportInit /\ [][ImportNext]_ivars

-----------------------------------------------------------------------------
\* What the import says is so: a vault it published is whole and holds the
\* export the owner reviewed, even when the owner exported again meanwhile; a
\* call that says it published nothing left no stage of its own at the target
\* (apply_resident_export, _raise_publish_error).
ImportHonest ==
  /\ \A s \in DOMAIN stages : home = [stage |-> s] => stages[s].whole /\ stages[s].export \in Exports
  /\ importer.says \in {"applied", "committed"} => home = [stage |-> importer.stage]
  /\ importer.says = "applied" => stages[importer.stage].export = importer.plan
  /\ importer.says = "unpublished" => home # [stage |-> importer.stage]

\* The handoff of a cursor is recorded only for an adoption the host really
\* made, through deaths between the two files, retries, a store replaced in
\* between and a vault restored from before (adopt_staged_local_source_checkpoint).
HandoffBacked ==
  migration # NoVault /\ migration.state = "adopted" => migration.at \in adoptions

(* An import names what was exported, and a handoff has what it hands over. *)
HandoffHonest == ImportHonest /\ HandoffBacked
=============================================================================
