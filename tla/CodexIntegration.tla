------------------------- MODULE CodexIntegration -------------------------
(* Installing the Codex integration, replacing it, undoing a failed install
   and uninstalling it (codex_integration.py).

   Four things belong to an integration: the public marketplace tree, the
   marketplace and plugin registrations that Codex keeps, and the managed
   block in AGENTS.md.  The ownership receipt says which of them are Seld's;
   it is written before a change and names every path the change may leave
   behind.  No tree is ever deleted: it is moved to a path of the receipt.

   One process at a time has the integration lock; it may die at any step.
   Codex is external: it removes a registration only while the marketplace
   tree is there, and a command may fail with or without its effect. *)
EXTENDS HostFaults, FiniteSets

CONSTANTS Versions,      \* marketplace contents: Seld version, skills, runtime
          Repair,        \* the scaffold tree packaged for repairs
          Changed,       \* a tree somebody changed
          Nothing,       \* no tree, receipt, transition, record
          MaxTokens,     \* bound on operation tokens
          MaxRecords     \* MAX_CLEANUP_RECORDS

VARIABLES trees,         \* content of each marketplace path that is present
          agents,        \* AGENTS.md: the managed block, and the user's revision
          ownership,     \* the ownership receipt, or Nothing
          market,        \* root of the registered marketplace: none, ours, other
          plugin,        \* version of the installed plugin, or Nothing
          token,         \* operation tokens used so far
          setup,         \* the process with the lock
          stuck,         \* an uninstall that met no fault left the integration
          exposed        \* history: what rollbacks moved under a stable receipt that
                   \* is still there: the new tree ("failed"), the prior ("old")

cvars == <<trees, agents, ownership, market, plugin, token, setup, stuck, exposed, meddled, odds>>

Whole(v) == [of |-> v, whole |-> TRUE]
Part(v) == [of |-> v, whole |-> FALSE]

Public == <<"public", 0>>
Present(p) == p \in DOMAIN trees

\* _manifest_is_owned_subset
OwnedSubset(tree, manifest) ==
    tree = manifest \/ (manifest.whole /\ tree.of = manifest.of)

Record(kind, tok, manifest) == [at |-> <<kind, tok>>, is |-> manifest]

\* The receipt: the manifest of the active marketplace, the retained trees, the
\* transition of an install that is not over, the quarantine of an uninstall.
Receipt(active, pending, trans, remove) ==
    [active |-> active, pending |-> pending, trans |-> trans, remove |-> remove]

\* _receipt_state
Phase ==
    IF ownership = Nothing THEN "missing"
    ELSE IF ownership.trans # Nothing THEN "installing"
    ELSE IF ownership.active = Nothing THEN "recovery"
    ELSE IF ownership.remove # Nothing THEN "verified"
    ELSE "active"

TransitionRecords(t) ==
    {Record("new", t.tok, t.new), Record("failed", t.tok, t.new)}
    \cup (IF t.old = Nothing THEN {} ELSE {Record("old", t.tok, t.old)})
    \cup (IF t.repair THEN {Record("repair", t.tok, Whole(Repair))} ELSE {})

\* _reconcile_cleanup_pending: what is gone is forgotten, what changed refuses
Reconciled(pending) == {r \in pending : Present(r.at)}
PendingIntact(pending) == \A r \in Reconciled(pending) : trees[r.at] = r.is

\* _catalog_transition_record, of each record whose path is there
CatalogAllows(t, r) ==
    IF r.at[1] \in {"new", "repair"} \/ t.purpose = "repair"
      THEN OwnedSubset(trees[r.at], r.is) ELSE trees[r.at] = r.is
Catalogable(t) == \A r \in Reconciled(TransitionRecords(t)) : CatalogAllows(t, r)
Cataloged(t) == {[at |-> r.at, is |-> trees[r.at]] : r \in Reconciled(TransitionRecords(t))}

\* _publish_directory_new: a rename that replaces nothing
Moved(from, to) ==
    [p \in (DOMAIN trees \ {from}) \cup {to} |-> IF p = to THEN trees[from] ELSE trees[p]]
With(p, tree) == [q \in DOMAIN trees \cup {p} |-> IF q = p THEN tree ELSE trees[q]]

NoSetup == [pc |-> "free", goal |-> Nothing, prior |-> Nothing, receipt |-> Nothing,
            hadMarket |-> FALSE, hadPlugin |-> FALSE, addMarket |-> FALSE,
            addPlugin |-> FALSE, block |-> FALSE, rev |-> 0, wrote |-> FALSE,
            failed |-> FALSE, fault |-> FALSE]

SetupAt(pc) == setup' = [setup EXCEPT !.pc = pc]
SetupFault == Odd /\ UNCHANGED meddled
NoFault == UNCHANGED <<odds, meddled>>

\* uninstall ends; an end without a fault must have removed the integration
UninstallEnds(removed) ==
    /\ setup' = NoSetup
    /\ stuck' = (stuck \/ (~removed /\ ~setup.fault))

-----------------------------------------------------------------------------
(* Install *)

\* Room for the trees of this install and for the quarantine of the uninstall
Reserved(prior) ==
    Cardinality(Reconciled(prior.pending)) <= MaxRecords - (IF prior.active # Nothing THEN 5 ELSE 4)

\* Ownership preflight of _install_codex_transaction_locked
MayInstall ==
    /\ Phase \in {"missing", "active", "recovery"}
    /\ Phase = "missing" => ~agents.block /\ ~Present(Public)
    /\ Phase = "active" => Present(Public) /\ trees[Public] = ownership.active
    /\ Phase = "recovery" => ~Present(Public)
    /\ ownership # Nothing => PendingIntact(ownership.pending)
    /\ market # "other"
    /\ market = "ours" \/ plugin # Nothing => Phase = "active"

AlreadyInstalled(v) ==
    /\ Phase = "active" /\ ownership.active = Whole(v)
    /\ market = "ours" /\ plugin = v /\ agents.block

BeginInstallation(v) ==
    /\ setup = NoSetup /\ token < MaxTokens
    /\ MayInstall /\ ~AlreadyInstalled(v)
    /\ ownership # Nothing => Reserved(ownership)
    /\ token' = token + 1
    /\ setup' = [NoSetup EXCEPT !.pc = "declare", !.goal = v, !.prior = ownership,
                                !.hadMarket = market = "ours", !.hadPlugin = plugin # Nothing]
    /\ UNCHANGED <<trees, agents, ownership, market, plugin, stuck, exposed>> /\ NoFault

\* What the receipt said of the marketplace and of the retained trees before
PriorTree == IF setup.prior = Nothing THEN Nothing ELSE setup.prior.active
PriorPending == IF setup.prior = Nothing THEN {} ELSE Reconciled(setup.prior.pending)

\* _install_transition, persisted before any tree is made or moved
Transition ==
    [tok |-> token, new |-> Whole(setup.goal), old |-> PriorTree, purpose |-> "install",
     repair |-> TRUE, market |-> market = "ours", plugin |-> plugin # Nothing]

\* _write_receipt_state: a failed write may have become visible. The process
\* goes on with the receipt it knows to be durable.
WritesReceipt(new, next, failure) ==
    \/ ownership' = new /\ NoFault
       /\ setup' = [setup EXCEPT !.pc = next, !.receipt = new]
    \/ /\ ownership' \in {ownership, new} /\ SetupFault
       /\ setup' = [setup EXCEPT !.pc = failure, !.fault = TRUE]

Declare ==
    /\ setup.pc = "declare"
    /\ setup' = [setup EXCEPT !.pc = "transition",
                     !.receipt = Receipt(PriorTree, PriorPending, Transition, Nothing)]
    /\ UNCHANGED <<trees, agents, ownership, market, plugin, token, stuck, exposed>> /\ NoFault

PersistTransition ==
    /\ setup.pc = "transition"
    /\ WritesReceipt(setup.receipt, "make", "undo")
    /\ UNCHANGED <<trees, agents, market, plugin, token, stuck, exposed>>

\* _materialize_marketplace: a directory that fills up
Materialize ==
    /\ setup.pc \in {"make", "fill"}
    /\ IF setup.pc = "make" THEN trees' = With(<<"new", token>>, Part(setup.goal)) /\ SetupAt("fill")
       ELSE trees' = With(<<"new", token>>, Whole(setup.goal))
            /\ SetupAt(IF PriorTree = Nothing THEN "publish" ELSE "isolate")
    /\ UNCHANGED <<agents, ownership, market, plugin, token, stuck, exposed>> /\ NoFault

\* The prior tree is checked, set aside, and only then the new one published.
Isolate ==
    /\ setup.pc = "isolate"
    /\ IF Present(Public) /\ trees[Public] = PriorTree
         THEN trees' = Moved(Public, <<"old", token>>) /\ SetupAt("publish")
         ELSE SetupAt("undo") /\ UNCHANGED trees
    /\ UNCHANGED <<agents, ownership, market, plugin, token, stuck, exposed>> /\ NoFault

Publish ==
    /\ setup.pc = "publish"
    /\ IF Present(Public) \/ ~Present(<<"new", token>>) THEN SetupAt("undo") /\ UNCHANGED trees
       ELSE trees' = Moved(<<"new", token>>, Public) /\ SetupAt("market")
    /\ UNCHANGED <<agents, ownership, market, plugin, token, stuck, exposed>> /\ NoFault

\* _mark_install_provider_attempt comes before the command it announces.
Attempt(provider, next) ==
    LET marked == [ownership EXCEPT !.trans[provider] = TRUE]
    IN WritesReceipt(marked, next, "undo")

\* Mutant: Codex is asked without a record that it was.
MarkMarketNever ==
    /\ setup.pc = "market"
    /\ SetupAt(IF ownership.trans.market THEN "plugin" ELSE "addMarket")
    /\ UNCHANGED <<trees, agents, ownership, market, plugin, token, stuck, exposed>> /\ NoFault

MarkMarket ==
    /\ setup.pc = "market"
    /\ IF ownership.trans.market THEN SetupAt("plugin") /\ NoFault /\ UNCHANGED ownership
       ELSE Attempt("market", "addMarket")
    /\ UNCHANGED <<trees, agents, market, plugin, token, stuck, exposed>>

AddMarket ==
    /\ setup.pc = "addMarket"
    /\ \/ /\ Present(Public) /\ market' = "ours" /\ NoFault
          /\ setup' = [setup EXCEPT !.pc = "plugin", !.addMarket = TRUE]
       \/ /\ ~Present(Public) /\ UNCHANGED market /\ NoFault
          /\ setup' = [setup EXCEPT !.pc = "undo", !.addMarket = TRUE]
       \/ /\ market' \in {market, "ours"} /\ SetupFault
          /\ setup' = [setup EXCEPT !.pc = "undo", !.addMarket = TRUE, !.fault = TRUE]
    /\ UNCHANGED <<trees, agents, ownership, plugin, token, stuck, exposed>>

MarkPlugin ==
    /\ setup.pc = "plugin"
    /\ IF plugin = setup.goal THEN SetupAt("agents") /\ NoFault /\ UNCHANGED ownership
       ELSE IF ownership.trans.plugin THEN SetupAt("addPlugin") /\ NoFault /\ UNCHANGED ownership
       ELSE Attempt("plugin", "addPlugin")
    /\ UNCHANGED <<trees, agents, market, plugin, token, stuck, exposed>>

AddPlugin ==
    /\ setup.pc = "addPlugin"
    /\ \/ /\ Present(Public) /\ market = "ours" /\ plugin' = trees[Public].of /\ NoFault
          /\ setup' = [setup EXCEPT !.pc = "agents", !.addPlugin = TRUE]
       \/ /\ ~(Present(Public) /\ market = "ours") /\ UNCHANGED plugin /\ NoFault
          /\ setup' = [setup EXCEPT !.pc = "undo", !.addPlugin = TRUE]
       \/ /\ plugin' \in {plugin, setup.goal} /\ SetupFault
          /\ setup' = [setup EXCEPT !.pc = "undo", !.addPlugin = TRUE, !.fault = TRUE]
    /\ UNCHANGED <<trees, agents, ownership, market, token, stuck, exposed>>

\* _install_instructions, then the status and the checks of the caller
WriteAgents ==
    /\ setup.pc = "agents"
    /\ agents' = [agents EXCEPT !.block = TRUE]
    /\ setup' = [setup EXCEPT !.pc = "commit", !.block = agents.block, !.rev = agents.rev,
                              !.wrote = TRUE]
    /\ UNCHANGED <<trees, ownership, market, plugin, token, stuck, exposed>> /\ NoFault

\* _assert_install_commit_state
Committable ==
    /\ Present(Public) /\ trees[Public] = Whole(setup.goal)
    /\ ~Present(<<"new", token>>) /\ ~Present(<<"failed", token>>)
    /\ PriorTree # Nothing => Present(<<"old", token>>) /\ trees[<<"old", token>>] = PriorTree
    /\ agents = [block |-> TRUE, rev |-> setup.rev]
    /\ PendingIntact(PriorPending)
    /\ market = "ours" /\ plugin = setup.goal

FinalReceipt ==
    LET old == IF PriorTree = Nothing THEN {} ELSE {Record("old", token, PriorTree)}
    IN Receipt(Whole(setup.goal), PriorPending \cup old, Nothing, Nothing)

Commit ==
    /\ setup.pc = "commit"
    /\ \/ ~Committable /\ SetupAt("undo") /\ NoFault /\ UNCHANGED ownership
       \/ SetupFault /\ setup' = [setup EXCEPT !.pc = "undo", !.fault = TRUE] /\ UNCHANGED ownership
       \/ /\ Committable
          /\ WritesReceipt(FinalReceipt, "done", "undo")
    /\ UNCHANGED <<trees, agents, market, plugin, token, stuck, exposed>>

InstallDone ==
    /\ setup.pc = "done" /\ setup' = NoSetup
    /\ UNCHANGED <<trees, agents, ownership, market, plugin, token, stuck, exposed>> /\ NoFault
-----------------------------------------------------------------------------
(* _rollback_install *)

SetupErrs(pc) == setup' = [setup EXCEPT !.pc = pc, !.failed = TRUE]

\* The instructions go back unless somebody wrote there since.
UndoAgents ==
    /\ setup.pc = "undo"
    /\ IF ~setup.wrote THEN SetupAt("undoPlugin") /\ UNCHANGED agents
       ELSE IF agents = [block |-> TRUE, rev |-> setup.rev]
         THEN agents' = [agents EXCEPT !.block = setup.block] /\ SetupAt("undoPlugin")
         ELSE SetupErrs("undoPlugin") /\ UNCHANGED agents
    /\ UNCHANGED <<trees, ownership, market, plugin, token, stuck, exposed>> /\ NoFault

\* Codex removes a registration while the marketplace tree is there.
Unregister(registration, none, next) ==
    \/ Present(Public) /\ registration' = none /\ SetupAt(next) /\ NoFault
    \/ ~Present(Public) /\ UNCHANGED registration /\ SetupErrs(next) /\ NoFault
    \/ registration' \in {registration, none} /\ SetupErrs(next) /\ SetupFault

\* Only registrations that this install added are removed, the plugin first.
UndoPlugin ==
    /\ setup.pc = "undoPlugin"
    /\ IF setup.addPlugin /\ ~setup.hadPlugin /\ plugin # Nothing
         THEN Unregister(plugin, Nothing, "undoMarket")
         ELSE SetupAt("undoMarket") /\ NoFault /\ UNCHANGED plugin
    /\ UNCHANGED <<trees, agents, ownership, market, token, stuck, exposed>>

UndoMarket ==
    /\ setup.pc = "undoMarket"
    /\ IF setup.addMarket /\ ~setup.hadMarket /\ market = "ours"
         THEN Unregister(market, "none", "undoTree")
         ELSE SetupAt("undoTree") /\ NoFault /\ UNCHANGED market
    /\ UNCHANGED <<trees, agents, ownership, plugin, token, stuck, exposed>>

\* The new tree is set aside as failed, the prior one put back.
UndoTree ==
    /\ setup.pc = "undoTree"
    /\ IF Present(Public) /\ trees[Public] = Whole(setup.goal) /\ ~Present(<<"failed", token>>)
         THEN trees' = Moved(Public, <<"failed", token>>) /\ SetupAt("undoPrior")
         ELSE /\ UNCHANGED trees
              /\ IF Present(Public) /\ trees[Public] # PriorTree
                   THEN SetupErrs("undoPrior") ELSE SetupAt("undoPrior")
    /\ exposed' = IF trees' # trees /\ Phase # "installing"
                  THEN exposed \cup {<<"failed", token>>} ELSE exposed
    /\ UNCHANGED <<agents, ownership, market, plugin, token, stuck>> /\ NoFault

UndoPrior ==
    /\ setup.pc = "undoPrior"
    /\ IF ~Present(<<"old", token>>) THEN SetupAt("undoReceipt") /\ UNCHANGED trees
       ELSE IF trees[<<"old", token>>] = PriorTree /\ ~Present(Public)
         THEN trees' = Moved(<<"old", token>>, Public) /\ SetupAt("undoReceipt")
       ELSE SetupErrs("undoReceipt") /\ UNCHANGED trees
    /\ exposed' = IF trees' # trees /\ Phase # "installing"
                  THEN exposed \cup {<<"old", token>>} ELSE exposed
    /\ UNCHANGED <<agents, ownership, market, plugin, token, stuck>> /\ NoFault

\* The state before the install is back, and what is left over can be listed.
Restored ==
    /\ ~setup.failed
    /\ (market = "ours") = setup.hadMarket /\ (plugin # Nothing) = setup.hadPlugin
    /\ IF PriorTree = Nothing THEN ~Present(Public)
       ELSE Present(Public) /\ trees[Public] = PriorTree
    /\ Catalogable(setup.receipt.trans)

RecoveryReceipt ==
    LET left == PriorPending \cup Cataloged(setup.receipt.trans)
    IN IF PriorTree = Nothing /\ left = {} THEN Nothing
       ELSE Receipt(PriorTree, left, Nothing, Nothing)

\* _record_failed_install_recovery: only over a receipt this install wrote; an
\* incomplete rollback leaves the transition in place.
RecordRecovery ==
    /\ setup.pc = "undoReceipt"
    /\ IF ownership \notin {setup.prior, setup.receipt, FinalReceipt}
         THEN SetupAt("done") /\ NoFault /\ UNCHANGED ownership
       ELSE WritesReceipt(IF Restored THEN RecoveryReceipt ELSE setup.receipt, "done", "done")
    /\ exposed' = IF ownership' = ownership THEN exposed
                  ELSE exposed \ {<<"failed", token>>, <<"old", token>>}
    /\ UNCHANGED <<trees, agents, market, plugin, token, stuck>>

-----------------------------------------------------------------------------
(* Uninstall *)

Removed == ~Present(Public) /\ ~agents.block /\ market # "ours" /\ plugin = Nothing

BeginUninstallation ==
    /\ setup = NoSetup
    /\ setup' = [NoSetup EXCEPT !.pc = "load"]
    /\ UNCHANGED <<trees, agents, ownership, market, plugin, token, stuck, exposed>> /\ NoFault

\* _migrate_v1_provider_checkpoint: a checkpoint of the first receipt format has
\* no quarantine path; it is given one.
MigrateCheckpoint ==
    /\ setup.pc = "load" /\ Phase = "verified" /\ ownership.remove.at[1] = "legacy"
    /\ token < MaxTokens /\ token' = token + 1
    /\ IF Present(Public) /\ ~OwnedSubset(trees[Public], ownership.active)
         THEN UninstallEnds(FALSE) /\ UNCHANGED ownership /\ NoFault
         ELSE LET record == Record("remove", token + 1,
                                   IF Present(Public) THEN trees[Public] ELSE ownership.active)
              IN /\ WritesReceipt(Receipt(ownership.active, {record}, Nothing, record), "load", "end")
                 /\ UNCHANGED stuck
    /\ UNCHANGED <<trees, agents, market, plugin, exposed>>

\* _inspect_owned_marketplace, _inspect_checkpointed_marketplace
TreeSafe ==
    ~Present(Public) \/ (IF Phase = "verified" THEN OwnedSubset(trees[Public], ownership.active)
                        ELSE trees[Public] \in {ownership.active, Whole(Repair)})

\* _uninstall_codex_locked: where the receipt says to go on from
LoadReceipt ==
    /\ setup.pc = "load"
    /\ Phase = "verified" => ownership.remove.at[1] # "legacy"
    /\ \/ /\ Phase = "missing" /\ UninstallEnds(Removed)
       \/ /\ Phase = "installing" /\ SetupAt("resume") /\ UNCHANGED stuck
       \/ /\ Phase = "recovery" /\ SetupAt("retire") /\ UNCHANGED stuck
       \/ /\ Phase \in {"active", "verified"}
          /\ setup' = [setup EXCEPT !.rev = agents.rev, !.block = agents.block,
                 !.pc = IF ~TreeSafe \/ ~PendingIntact(ownership.pending) THEN "end"
                        ELSE IF Phase = "verified" THEN "quarantine"
                        ELSE IF Cardinality(Reconciled(ownership.pending)) >= MaxRecords THEN "end"
                        ELSE IF ~Present(Public) THEN "startRepair" ELSE "dropPlugin"]
          /\ UNCHANGED stuck
    /\ UNCHANGED <<trees, agents, ownership, market, plugin, token, exposed>> /\ NoFault

\* _start_provider_repair_transition: Codex needs a tree to remove what it has
StartRepair ==
    /\ setup.pc = "startRepair" /\ token < MaxTokens
    /\ LET left == Reconciled(ownership.pending)
           trans == [tok |-> token + 1, new |-> Whole(Repair), old |-> ownership.active,
                     purpose |-> "repair", repair |-> TRUE, market |-> TRUE, plugin |-> TRUE]
       IN IF Cardinality(left) > MaxRecords - 2
            THEN SetupAt("end") /\ NoFault /\ UNCHANGED <<ownership, token>>
            ELSE /\ WritesReceipt(Receipt(ownership.active, left, trans, Nothing), "resume", "end")
                 /\ token' = token + 1
    /\ UNCHANGED <<trees, agents, market, plugin, stuck, exposed>>

Trans == ownership.trans
RepairPath == <<"repair", Trans.tok>>

\* _install_transition_uninstall_result, up to the tree that is made public
Resume ==
    /\ setup.pc = "resume"
    /\ \/ /\ Trans.purpose = "repair" /\ ~Present(Public) /\ SetupAt("repair")
       \/ /\ Trans.purpose = "install" \/ Present(Public)
          /\ SetupAt(IF \/ ~PendingIntact(ownership.pending) \/ ~Catalogable(Trans)
                        \/ Present(Public) /\ trees[Public] \notin
                             {Trans.new, Trans.old} \cup (IF Trans.repair THEN {Whole(Repair)} ELSE {})
                     THEN "end"
                     ELSE IF Present(Public) THEN "prepare"
                     ELSE IF Trans.repair THEN "republish" ELSE "addRepair")
    /\ UNCHANGED <<trees, agents, ownership, market, plugin, token, stuck, exposed>> /\ NoFault

\* _upgrade_transition_with_repair, for a transition of an earlier version
AddRepair ==
    /\ setup.pc = "addRepair"
    /\ IF Present(RepairPath) THEN SetupAt("end") /\ NoFault /\ UNCHANGED ownership
       ELSE WritesReceipt([ownership EXCEPT !.trans.repair = TRUE], "resume", "end")
    /\ UNCHANGED <<trees, agents, market, plugin, token, stuck, exposed>>

\* The first complete tree of the transition becomes public again.
Complete == {r \in Reconciled(TransitionRecords(Trans)) : trees[r.at] = r.is}
Preferred == CHOOSE r \in Complete : \A q \in Complete :
    LET rank == [old |-> 1, new |-> 2, failed |-> 3, repair |-> 4] IN rank[r.at[1]] <= rank[q.at[1]]

Republish ==
    /\ setup.pc = "republish"
    /\ IF Complete = {} THEN SetupAt("repair") /\ UNCHANGED trees
       ELSE trees' = Moved(Preferred.at, Public) /\ SetupAt("prepare")
    /\ UNCHANGED <<agents, ownership, market, plugin, token, stuck, exposed>> /\ NoFault

\* _resume_provider_repair_tree: made or completed in place, then published
RepairTree ==
    /\ setup.pc = "repair"
    /\ IF Present(Public)
         THEN SetupAt(IF trees[Public] = Whole(Repair) THEN "resume" ELSE "end") /\ UNCHANGED trees
       ELSE IF ~Present(RepairPath) THEN trees' = With(RepairPath, Part(Repair)) /\ UNCHANGED setup
       ELSE IF trees[RepairPath] = Part(Repair)
         THEN trees' = With(RepairPath, Whole(Repair)) /\ UNCHANGED setup
       ELSE IF trees[RepairPath] = Whole(Repair)
         THEN trees' = Moved(RepairPath, Public) /\ SetupAt("resume")
       ELSE SetupAt("end") /\ UNCHANGED trees
    /\ UNCHANGED <<agents, ownership, market, plugin, token, stuck, exposed>> /\ NoFault

Retained == Reconciled(ownership.pending) \cup Cataloged(Trans)

\* The quarantine needs a record of its own.
Prepare ==
    /\ setup.pc = "prepare"
    /\ SetupAt(IF PendingIntact(ownership.pending) /\ Catalogable(Trans) /\ Present(Public)
                  /\ Cardinality(Retained) < MaxRecords THEN "dropPlugin" ELSE "end")
    /\ UNCHANGED <<trees, agents, ownership, market, plugin, token, stuck, exposed>> /\ NoFault

\* _remove_owned_registrations, then _assert_provider_install_state
OwnsPlugin == Trans = Nothing \/ Trans.plugin
OwnsMarket == Trans = Nothing \/ Trans.market

Drop(registration, none, next) ==
    \/ Present(Public) /\ registration' = none /\ SetupAt(next) /\ NoFault
    \/ ~Present(Public) /\ UNCHANGED registration /\ SetupAt("end") /\ NoFault
    \/ /\ registration' \in {registration, none} /\ SetupFault
       /\ setup' = [setup EXCEPT !.pc = "end", !.fault = TRUE]

DropPlugin ==
    /\ setup.pc = "dropPlugin"
    /\ IF OwnsMarket /\ market = "other" THEN SetupAt("end") /\ NoFault /\ UNCHANGED plugin
       ELSE IF OwnsPlugin /\ plugin # Nothing THEN Drop(plugin, Nothing, "dropMarket")
       ELSE SetupAt("dropMarket") /\ NoFault /\ UNCHANGED plugin
    /\ UNCHANGED <<trees, agents, ownership, market, token, stuck, exposed>>

DropMarket ==
    /\ setup.pc = "dropMarket"
    /\ IF OwnsMarket /\ market = "ours" THEN Drop(market, "none", "checkpoint")
       ELSE SetupAt("checkpoint") /\ NoFault /\ UNCHANGED market
    /\ UNCHANGED <<trees, agents, ownership, plugin, token, stuck, exposed>>

\* _checkpoint_provider_verified: from here on Codex is not asked again.
Checkpoint ==
    /\ setup.pc = "checkpoint" /\ token < MaxTokens
    /\ IF market # "none" \/ plugin # Nothing \/ ~Present(Public)
         THEN SetupAt("end") /\ NoFault /\ UNCHANGED <<ownership, token>>
         ELSE LET kept == IF Trans = Nothing THEN Reconciled(ownership.pending) ELSE Retained
                  record == Record("remove", token + 1, trees[Public])
              IN /\ WritesReceipt(Receipt(trees[Public], kept \cup {record}, Nothing, record),
                                  "load", "end")
                 /\ token' = token + 1
    /\ UNCHANGED <<trees, agents, market, plugin, stuck, exposed>>

\* _remove_owned_marketplace
Quarantine ==
    /\ setup.pc = "quarantine"
    /\ LET record == ownership.remove IN
       IF Present(Public) /\ (Present(record.at) \/ trees[Public] # record.is)
         THEN SetupAt("end") /\ UNCHANGED trees
       ELSE /\ SetupAt("dropBlock")
            /\ trees' = IF Present(Public) THEN Moved(Public, record.at) ELSE trees
    /\ UNCHANGED <<agents, ownership, market, plugin, token, stuck, exposed>> /\ NoFault

\* _apply_instruction_removal: only from the bytes that were planned from
DropBlock ==
    /\ setup.pc = "dropBlock"
    /\ IF agents = [block |-> setup.block, rev |-> setup.rev]
         THEN agents' = [agents EXCEPT !.block = FALSE] /\ SetupAt("close")
         ELSE SetupAt("end") /\ UNCHANGED agents
    /\ UNCHANGED <<trees, ownership, market, plugin, token, stuck, exposed>> /\ NoFault

\* The receipt becomes a catalog of what is retained, or goes.
CloseReceipt ==
    /\ setup.pc = "close"
    /\ IF ~PendingIntact(ownership.pending) \/ Present(Public) \/ agents.block
         THEN SetupAt("end") /\ NoFault /\ UNCHANGED ownership
         ELSE LET left == Reconciled(ownership.pending)
              IN WritesReceipt(IF left = {} THEN Nothing
                               ELSE Receipt(Nothing, left, Nothing, Nothing), "end", "end")
    /\ UNCHANGED <<trees, agents, market, plugin, token, stuck, exposed>>

\* _recovery_only_uninstall
Retire ==
    /\ setup.pc = "retire"
    /\ IF Present(Public) \/ agents.block \/ ~PendingIntact(ownership.pending)
            \/ Reconciled(ownership.pending) # {}
         THEN SetupAt("end") /\ NoFault /\ UNCHANGED ownership
         ELSE WritesReceipt(Nothing, "end", "end")
    /\ UNCHANGED <<trees, agents, market, plugin, token, stuck, exposed>>

UninstallEnd ==
    /\ setup.pc = "end" /\ UninstallEnds(Removed)
    /\ UNCHANGED <<trees, agents, ownership, market, plugin, token, exposed>> /\ NoFault

-----------------------------------------------------------------------------
SetupDies ==
    /\ setup # NoSetup /\ SetupFault /\ setup' = NoSetup
    /\ UNCHANGED <<trees, agents, ownership, market, plugin, token, stuck, exposed>>

\* The user edits AGENTS.md, deletes a marketplace tree or a registration. A
\* process in progress counts it as a fault.
UserActs ==
    /\ SetupFault /\ setup' = [setup EXCEPT !.fault = setup # NoSetup]
    /\ \/ agents' = [agents EXCEPT !.rev = @ + 1] /\ UNCHANGED <<trees, market, plugin>>
       \/ \E p \in DOMAIN trees : /\ trees' = [q \in DOMAIN trees \ {p} |-> trees[q]]
                                  /\ UNCHANGED <<agents, market, plugin>>
       \/ market # "none" /\ market' = "none" /\ UNCHANGED <<trees, agents, plugin>>
       \/ plugin # Nothing /\ plugin' = Nothing /\ UNCHANGED <<trees, agents, market>>
    /\ UNCHANGED <<ownership, token, stuck, exposed>>

\* Somebody changes a tree, or registers a marketplace of the same name.
Tamper ==
    /\ Odd /\ meddled' = TRUE
    /\ \/ \E p \in DOMAIN trees : trees' = With(p, Whole(Changed)) /\ UNCHANGED market
       \/ market' = "other" /\ UNCHANGED trees
    /\ UNCHANGED <<agents, ownership, plugin, token, setup, stuck, exposed>>

NoTrees == [p \in {} |-> Nothing]

\* A fresh Codex home, the checkpoint of an uninstall begun by the first receipt
\* format, or a first install that died before repairs were recorded.
CodexInit ==
    /\ FaultsInit /\ plugin = Nothing /\ market = "none"
    /\ setup = NoSetup /\ stuck = FALSE /\ exposed = {}
    /\ \/ /\ trees = NoTrees /\ ownership = Nothing
          /\ agents = [block |-> FALSE, rev |-> 0] /\ token = 0
       \/ \E v \in Versions :
          /\ trees \in {NoTrees} \cup {[p \in {Public} |-> c] : c \in {Whole(v), Part(v)}}
          /\ ownership = Receipt(Whole(v), {}, Nothing, Record("legacy", 0, Whole(v)))
          /\ agents = [block |-> TRUE, rev |-> 0] /\ token = 0
       \/ \E v \in Versions :
          /\ trees \in {NoTrees, [p \in {<<"new", 1>>} |-> Part(v)]}
          /\ ownership = Receipt(Nothing, {}, [tok |-> 1, new |-> Whole(v), old |-> Nothing,
                 purpose |-> "install", repair |-> FALSE, market |-> FALSE, plugin |-> FALSE], Nothing)
          /\ agents = [block |-> FALSE, rev |-> 0] /\ token = 1

CodexNext ==
    \/ \E v \in Versions : BeginInstallation(v)
    \/ Declare \/ PersistTransition \/ Materialize \/ Isolate \/ Publish
    \/ MarkMarket \/ AddMarket \/ MarkPlugin \/ AddPlugin \/ WriteAgents \/ Commit \/ InstallDone
    \/ UndoAgents \/ UndoPlugin \/ UndoMarket \/ UndoTree \/ UndoPrior \/ RecordRecovery
    \/ BeginUninstallation \/ MigrateCheckpoint \/ LoadReceipt \/ StartRepair \/ Resume
    \/ AddRepair \/ Republish \/ RepairTree \/ Prepare \/ DropPlugin \/ DropMarket
    \/ Checkpoint \/ Quarantine \/ DropBlock \/ CloseReceipt \/ Retire \/ UninstallEnd
    \/ SetupDies \/ UserActs \/ Tamper

\* The paths the receipt names
Named ==
    IF ownership = Nothing THEN {}
    ELSE {r.at : r \in ownership.pending}
         \cup (IF Trans = Nothing THEN {} ELSE {r.at : r \in TransitionRecords(Trans)})

\* At every step of install, rollback and uninstall, and after every death, the
\* receipt names every tree that was left behind, and there is a receipt that owns
\* the integration while its tree, its instructions or a registration are there:
\* a registration with a transition is one the transition says was there or tried.
\* One tree goes unnamed: a stable receipt that became visible and could not be
\* confirmed durable is rolled back from, and until the recovery is recorded
\* nothing names where the new tree was set aside; a death leaves it so.
NothingOrphaned ==
    ~meddled =>
      /\ \A p \in DOMAIN trees : p # Public => p \in Named \cup exposed
      /\ ~Removed => Phase \in {"active", "verified", "installing"}
      /\ Phase = "installing" => (market = "ours" => Trans.market)
      /\ Phase = "installing" => (plugin # Nothing => Trans.plugin)

\* An uninstall during which nothing fails removes the integration, whatever
\* happened before it: no death, failed command or failed write of an install, of
\* its rollback or of an earlier uninstall leads to a state that uninstall refuses,
\* and the room kept in the recovery catalog is always enough for its quarantine.
\* It does refuse where such a rollback died, or could not record its recovery,
\* after it had put the prior tree back under the receipt of the new one.
UninstallNeverStuck == ~meddled /\ (\A p \in exposed : p[1] # "old") => ~stuck

\* A rollback moves no tree under a stable receipt that is already visible:
\* "Nothing after the stable receipt becomes visible may fail and trigger a
\* rollback that would make those stable bytes false" (codex_integration.py:553).
StableBytesKept ==
    [][setup.pc \in {"undoTree", "undoPrior"} /\ ownership = FinalReceipt => UNCHANGED trees]_cvars

CodexSpec == CodexInit /\ [][CodexNext]_cvars
=============================================================================
