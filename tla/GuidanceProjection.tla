------------------------- MODULE GuidanceProjection -------------------------
(* vault.py, resident_context.py: AGENTS.md, MIND.md and a marker are
   projected together from a checkout. An intent with the bytes there were
   before is kept while they are published one by one; whoever next reads
   the guidance, or projects again, first restores what an intent left
   behind names. Everything happens under the vault's lock, which the death
   of its holder gives up. *)
EXTENDS HostFaults, Sequences

CONSTANTS Callers,       \* processes that project, read or write the documents
          MaxEditions,   \* bound on what the checkout and MIND.md were made to say
          NoIntent       \* no projection was interrupted, nothing read

VARIABLES checkout,      \* what the sources in the checkout say
          docs,          \* the three files in the vault; 0: absent
          intent,        \* the files as they were before a projection
          known,         \* the revisions callers last read
          errand,        \* errand[p]: the call of process p
          agreed,        \* the files as the last finished change left them
          crossed        \* MIND.md was written while an intent was on disk

guidanceVars == <<checkout, docs, intent, known, errand, agreed, crossed>>

\* The three files: the edition each is of.
Editions == [guidance : Nat, mind : Nat, marker : Nat]

ASSUME GuidanceConstants == NoIntent \notin Editions

Edition == IF docs.mind > checkout THEN docs.mind + 1 ELSE checkout + 1
NoErrand == [pc |-> "idle", call |-> "read", sources |-> 0, expects |-> NoIntent,
             before |-> NoIntent, todo |-> <<>>]

Holding(p) == errand[p].pc \notin {"idle", "called"}
LockFree == \A p \in Callers : ~Holding(p)
EndErrand(p) == errand' = [errand EXCEPT ![p] = NoErrand]

CheckoutEdited ==
    /\ Edition <= MaxEditions
    /\ checkout' = Edition
    /\ UNCHANGED <<docs, intent, known, errand, agreed, crossed, odds, meddled>>

(* The sources are read before the lock is taken. *)
CallProject(p) ==
    /\ errand[p] = NoErrand
    /\ errand' = [errand EXCEPT ![p] = [NoErrand EXCEPT !.pc = "called", !.call = "project",
                                                        !.sources = checkout, !.expects = known]]
    /\ UNCHANGED <<checkout, docs, intent, known, agreed, crossed, odds, meddled>>

(* read_document of MIND.md, the resident's guidance or its status, doctor. *)
CallRead(p) ==
    /\ errand[p] = NoErrand
    /\ errand' = [errand EXCEPT ![p].pc = "called"]
    /\ UNCHANGED <<checkout, docs, intent, known, agreed, crossed, odds, meddled>>

(* The order in which an intent's files are put back before it is removed. *)
BackOrder == <<"guidance", "mind", "marker", "intent">>

TakeVaultLock(p) ==
    /\ errand[p].pc = "called" /\ LockFree
    /\ errand' = [errand EXCEPT ![p] =
                      IF intent = NoIntent THEN [@ EXCEPT !.pc = "locked"]
                      ELSE [@ EXCEPT !.pc = "recover", !.before = intent, !.todo = BackOrder]]
    /\ UNCHANGED <<checkout, docs, intent, known, agreed, crossed, odds, meddled>>

(* The next of the files is put back, or removed where there was none, and
   the intent goes last. *)
PutBack(p) ==
    /\ errand[p].pc \in {"recover", "rollback"} /\ errand[p].todo # <<>>
    /\ LET file == Head(errand[p].todo) IN
       IF file = "intent" THEN intent' = NoIntent /\ UNCHANGED docs
       ELSE docs' = [docs EXCEPT ![file] = errand[p].before[file]] /\ UNCHANGED intent
    /\ errand' = [errand EXCEPT ![p].todo = Tail(@)]
    /\ UNCHANGED <<checkout, known, agreed, crossed, odds, meddled>>

Recovered(p) ==
    /\ errand[p].pc = "recover" /\ errand[p].todo = <<>>
    /\ errand' = [errand EXCEPT ![p].pc = "locked", ![p].before = NoIntent]
    /\ UNCHANGED <<checkout, docs, intent, known, agreed, crossed, odds, meddled>>

RolledBack(p) ==
    /\ errand[p].pc = "rollback" /\ errand[p].todo = <<>>
    /\ EndErrand(p)
    /\ UNCHANGED <<checkout, docs, intent, known, agreed, crossed, odds, meddled>>

Revisions == [guidance |-> docs.guidance, mind |-> docs.mind]

ReadGuidance(p) ==
    /\ errand[p].pc = "locked" /\ errand[p].call = "read"
    /\ known' = Revisions
    /\ EndErrand(p)
    /\ UNCHANGED <<checkout, docs, intent, agreed, crossed, odds, meddled>>

--------------------------------------------------------------------------------
(* Mutant: the intent is written once the first file is published. *)
PublishOrderLate == <<"guidance", "intent", "mind", "marker", "event", "done">>

(* The files are read back and the audit event is appended before the
   intent is removed. *)
PublishOrder == <<"intent", "guidance", "mind", "marker", "event", "done">>

Projectable(p) == errand[p].expects = Revisions /\ errand[p].sources = checkout

BeginPublish(p) ==
    /\ errand[p].pc = "locked" /\ errand[p].call = "project"
    /\ IF Projectable(p)
       THEN errand' = [errand EXCEPT ![p].pc = "publish", ![p].before = docs,
                                     ![p].todo = PublishOrder]
       ELSE EndErrand(p)
    /\ UNCHANGED <<checkout, docs, intent, known, agreed, crossed, odds, meddled>>

PublishNext(p) ==
    /\ errand[p].pc = "publish"
    /\ LET step == Head(errand[p].todo) IN
       /\ docs' = IF step \in DOMAIN docs
                  THEN [docs EXCEPT ![step] = errand[p].sources] ELSE docs
       /\ intent' = CASE step = "intent" -> errand[p].before
                      [] step = "done" -> NoIntent
                      [] OTHER -> intent
       /\ agreed' = IF step = "done" THEN docs ELSE agreed
       /\ IF step = "done" THEN EndErrand(p)
          ELSE errand' = [errand EXCEPT ![p].todo = Tail(@)]
    /\ UNCHANGED <<checkout, known, crossed, odds, meddled>>

(* A write, a readback or the event fails: what was published is put back. *)
PublishFails(p) ==
    /\ errand[p].pc = "publish" /\ Odd
    /\ errand' = [errand EXCEPT ![p].pc = "rollback", ![p].todo = BackOrder]
    /\ UNCHANGED <<checkout, docs, intent, known, agreed, crossed, meddled>>

(* Putting back fails: the call reports degraded integrity. *)
PutBackFails(p) ==
    /\ errand[p].pc \in {"recover", "rollback"} /\ errand[p].todo # <<>> /\ Odd
    /\ EndErrand(p)
    /\ UNCHANGED <<checkout, docs, intent, known, agreed, crossed, meddled>>

CallerDies(p) ==
    /\ errand[p].pc # "idle" /\ Odd
    /\ EndErrand(p)
    /\ UNCHANGED <<checkout, docs, intent, known, agreed, crossed, meddled>>

(* write_document refuses MIND.md while the marker is there, and does not
   look for an intent. *)
Managed == docs.marker # 0

WriteMind(p) ==
    /\ errand[p] = NoErrand /\ LockFree
    /\ ~Managed /\ docs.mind = known.mind /\ docs.mind # 0
    /\ Edition <= MaxEditions
    /\ docs' = [docs EXCEPT !.mind = Edition]
    /\ known' = [known EXCEPT !.mind = Edition]
    /\ agreed' = [agreed EXCEPT !.mind = Edition]
    /\ crossed' = (crossed \/ intent # NoIntent)
    /\ UNCHANGED <<checkout, intent, errand, odds, meddled>>

--------------------------------------------------------------------------------
(* A new vault has a MIND.md of its own, and nothing was projected yet. *)
GuidanceInit ==
    /\ FaultsInit
    /\ checkout = 2
    /\ docs = [guidance |-> 0, mind |-> 1, marker |-> 0]
    /\ intent = NoIntent
    /\ known = [guidance |-> 0, mind |-> 1]
    /\ errand = [p \in Callers |-> NoErrand]
    /\ agreed = docs
    /\ crossed = FALSE

GuidanceNext ==
    \/ CheckoutEdited
    \/ \E p \in Callers :
        \/ CallProject(p) \/ CallRead(p) \/ TakeVaultLock(p)
        \/ PutBack(p) \/ Recovered(p) \/ RolledBack(p) \/ ReadGuidance(p)
        \/ BeginPublish(p) \/ PublishNext(p) \/ PublishFails(p) \/ PutBackFails(p)
        \/ CallerDies(p) \/ WriteMind(p)

GuidanceSpec == GuidanceInit /\ [][GuidanceNext]_<<guidanceVars, odds, meddled>>

(* All or nothing: whenever nobody holds the lock and no intent is left, the
   three files are the ones the last finished projection or write left, and
   not some of an interrupted one. MIND.md is left out once it was written
   over a pending intent: the recovery then takes that write back. *)
ProjectionWhole ==
    LockFree /\ intent = NoIntent =>
        /\ docs.guidance = agreed.guidance /\ docs.marker = agreed.marker
        /\ ~crossed => docs.mind = agreed.mind
=============================================================================
