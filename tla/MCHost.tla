------------------------------- MODULE MCHost -------------------------------
(* What Seld keeps on its host outside the vault, in one run of independent
   parts that share only the bound on faults: the scheduled job, the Codex
   integration, backup and restore, the native Bridge, the app corpus and
   the providers and the WhatsApp store it is read from, the import of a
   resident, the Bridge server, recall, the Discord companion and the
   guidance projected into the vault. *)
EXTENDS Scheduler, CodexIntegration, VaultBackup, NativeBridge,
        CorpusProviders, AppCorpus, ResidentImport, BridgeServer, Recall,
        DiscordSource, CorpusWhatsApp, GuidanceProjection

VARIABLE part

jobState == <<plist, jobReceipt, job, jobOp, canary, installer>>
codexState == <<trees, agents, ownership, market, plugin, token, setup, stuck, exposed>>
vaultState == <<backupVars, restoreVars>>
bridgeState == <<bundles, authority, lifecycle, launcher, built, refused>>
importState == <<stageVars, migrationVars>>
serverState == <<lvars, root, qvars>>
whatsState == <<wacli, waSaved, waTexts, waClock, waPass>>

hostState == <<jobState, codexState, vaultState, bridgeState>>
readState == <<providerState, corpusState, recallVars, dvars, whatsState>>
mcvars == <<hostState, readState, importState, serverState, guidanceVars, odds, meddled, part>>

(* A part that is not the one explored stays in one of its initial states. *)
MCInit ==
    /\ part \in {"scheduler", "codex", "backup", "restore", "native", "providers", "corpus",
                 "import", "bridge", "review", "recall", "discord", "whatsapp", "guidance"}
    /\ SchedulerInit /\ CodexInit /\ BackupInit /\ NativeInit /\ ProviderInit /\ CorpusInit
    /\ ImportInit /\ ServerInit /\ RecallInit /\ DiscordInit
    /\ WhatsAppCorpusInit /\ GuidanceInit
    /\ part # "providers" => source = "gmail"
    /\ part # "codex" => ownership = Nothing
    /\ part # "whatsapp" => waSaved = NoCheckpoint
    /\ part # "restore" => dirs.target = NoDir
    /\ part # "import" => exportFile = (CHOOSE e \in Exports : TRUE)
    /\ part = "review" => procs # <<>>
    /\ part \notin {"bridge", "review"} => procs = <<>>

HostNext ==
    /\ UNCHANGED <<readState, importState, serverState, guidanceVars>>
    /\ \/ part = "scheduler" /\ SchedulerNext /\ UNCHANGED <<codexState, vaultState, bridgeState>>
       \/ part = "codex" /\ CodexNext /\ UNCHANGED <<jobState, vaultState, bridgeState>>
       \/ part = "backup" /\ BackupNext /\ UNCHANGED <<jobState, codexState, bridgeState>>
       \/ part = "restore" /\ RestoreNext /\ UNCHANGED <<jobState, codexState, bridgeState>>
       \/ part = "native" /\ NativeNext /\ UNCHANGED <<jobState, codexState, vaultState>>

ReadNext ==
    /\ UNCHANGED <<hostState, importState, serverState, guidanceVars>>
    /\ \/ /\ part = "providers" /\ ProviderNext
          /\ UNCHANGED <<corpusState, recallVars, dvars, whatsState>>
       \/ /\ part = "corpus" /\ CorpusNext
          /\ UNCHANGED <<providerState, recallVars, dvars, whatsState>>
       \/ /\ part = "recall" /\ RecallNext
          /\ UNCHANGED <<providerState, corpusState, dvars, whatsState>>
       \/ /\ part = "discord" /\ DiscordNext
          /\ UNCHANGED <<providerState, corpusState, recallVars, whatsState>>
       \/ /\ part = "whatsapp" /\ WhatsAppCorpusNext
          /\ UNCHANGED <<providerState, corpusState, recallVars, dvars>>

VaultNext ==
    /\ UNCHANGED <<hostState, readState>>
    /\ \/ part = "import" /\ ImportNext /\ UNCHANGED <<serverState, guidanceVars>>
       \/ part = "bridge" /\ LifecycleNext /\ UNCHANGED <<importState, guidanceVars>>
       \/ part = "review" /\ RequestNext /\ UNCHANGED <<importState, guidanceVars>>
       \/ part = "guidance" /\ GuidanceNext /\ UNCHANGED <<importState, serverState>>

MCNext == UNCHANGED part /\ (HostNext \/ ReadNext \/ VaultNext)

MCSpec == MCInit /\ [][MCNext]_mcvars

-----------------------------------------------------------------------------
(* Every part of a Codex installation is used, recorded or removed, and an
   uninstall never gets stuck on what Seld itself left, but for what a
   rollback moves under a stable receipt that is already visible. *)
CodexAccountedFor == NothingOrphaned /\ UninstallNeverStuck
=============================================================================
