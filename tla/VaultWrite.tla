----------------------------- MODULE VaultWrite -----------------------------
(***************************************************************************)
(* The vault's audited compare-and-swap write: Vault._persist_with_event
   over PinnedPathRoot.replace_regular_file_if_exact.  A writer process
   takes the global lock, re-reads the record, moves the canonical leaf to
   a private quarantine name, verifies its exact bytes and inode there,
   publishes its staged file with a no-replace move, verifies it, unlinks
   the quarantine, and appends one audit event.  A failed append is undone
   by the same exact replacement in reverse.  Around it run the person who
   edits Markdown with an atomically saving editor, process death, I/O
   faults and `gsv doctor --repair`.

   A file is its bytes (body; a revision is the SHA-256 of the bytes, so
   body stands for both) and its identity (ino).  "by" is a history field:
   the operation that staged the file, 0 for a person. *)
(***************************************************************************)
EXTENDS Naturals, Sequences

CONSTANTS
  Writers,      \* processes that mutate the vault (CLI, MCP, Bridge)
  Records,      \* canonical Markdown paths
  NoFile,       \* an absent directory entry
  Free,         \* nobody holds .gsv/locks/global.lock
  MaxOps,       \* bound: admitted write operations
  MaxEdits,     \* bound: edits made by a person
  MaxCrashes    \* bound: process deaths

File == [body : Nat, ino : Nat, by : Nat]
Ops  == 1 .. MaxOps

ASSUME VaultWriteConstants ==
  /\ NoFile \notin File
  /\ NoFile \notin Nat
  /\ Free \notin Writers
  /\ MaxOps \in Nat /\ MaxEdits \in Nat /\ MaxCrashes \in Nat

VARIABLES
  leaf,      \* leaf[r]: the file at the canonical path of r, or NoFile
  quar,      \* quar[w]: the file w holds under its quarantine name
  aside,     \* files left under private names for manual inspection
  journal,   \* the lines of journal/events.jsonl
  tail,      \* how the journal ends
  lock,      \* holder of the global lock
  pc,        \* pc[w]: the next step of writer w
  rec,       \* rec[w]: the record w mutates
  seen,      \* seen[w]: the revision the caller passed, NoFile for a create
  want,      \* want[w]: the exact file w must find at the leaf
  prior,     \* prior[w]: the file w validated under the lock (previous)
  pub,       \* pub[w]: the staged file w publishes
  undo,      \* undo[w]: w is restoring prior[w] after a failed append
  op,        \* op[w]: the operation w carries out
  outcome,   \* outcome[o]: what the caller of operation o was told
  nextOp, nextIno, edits, crashes

files  == <<leaf, quar, aside>>
log    == <<journal, tail>>
call   == <<rec, seen, prior, op>>
limits == <<nextOp, nextIno, edits, crashes>>
vars   == <<leaf, quar, aside, journal, tail, lock, pc, rec, seen, want, prior, pub,
            undo, op, outcome, nextOp, nextIno, edits, crashes>>

Steps == {"idle", "called", "quarantine", "check", "publish", "verify", "unlink",
          "append"}

\* ok; MutationCommittedError; ConflictError or PersistenceError ("was not
\* committed"); DegradedIntegrityError; the process died.
Outcomes == {"none", "ok", "committed", "notCommitted", "degraded", "crashed"}

\* After a newline; in a fragment that is not JSON; in an event without its newline.
Tails == {"newline", "fragment", "unterminated"}

Line == [op : Ops, rec : Records, before : File \cup {NoFile}, whole : BOOLEAN]

TypeOK ==
  /\ leaf \in [Records -> File \cup {NoFile}]
  /\ quar \in [Writers -> File \cup {NoFile}]
  /\ aside \subseteq File
  /\ journal \in Seq(Line)
  /\ tail \in Tails
  /\ lock \in Writers \cup {Free}
  /\ pc \in [Writers -> Steps]
  /\ rec \in [Writers -> Records]
  /\ seen \in [Writers -> Nat \cup {NoFile}]
  /\ want \in [Writers -> File \cup {NoFile}]
  /\ prior \in [Writers -> File \cup {NoFile}]
  /\ pub \in [Writers -> File \cup {NoFile}]
  /\ undo \in [Writers -> BOOLEAN]
  /\ op \in [Writers -> Ops \cup {0}]
  /\ outcome \in [Ops -> Outcomes]
  /\ nextOp \in 1 .. MaxOps + 1
  /\ nextIno \in Nat /\ edits \in 0 .. MaxEdits /\ crashes \in 0 .. MaxCrashes

Init ==
  /\ leaf \in [Records -> {NoFile, [body |-> 0, ino |-> 0, by |-> 0]}]
  /\ quar = [w \in Writers |-> NoFile]
  /\ aside = {}
  /\ journal = <<>> /\ tail = "newline"
  /\ lock = Free
  /\ pc = [w \in Writers |-> "idle"]
  /\ rec \in [Writers -> Records]
  /\ seen = [w \in Writers |-> NoFile]
  /\ want = [w \in Writers |-> NoFile]
  /\ prior = [w \in Writers |-> NoFile]
  /\ pub = [w \in Writers |-> NoFile]
  /\ undo = [w \in Writers |-> FALSE]
  /\ op = [w \in Writers |-> 0]
  /\ outcome = [o \in Ops |-> "none"]
  /\ nextOp = 1 /\ nextIno = 1 /\ edits = 0 /\ crashes = 0

-----------------------------------------------------------------------------
(* Leaving the operation *)

Goto(w, step) == pc' = [pc EXCEPT ![w] = step]

\* Mutant: the lock survives a degraded exit.
FinishKeepsLock(w, result) ==
  /\ lock' = IF result = "degraded" THEN lock ELSE Free
  /\ Goto(w, "idle")
  /\ outcome' = [outcome EXCEPT ![op[w]] = result]

\* The with-blocks unwind: both locks are released and the caller is told.
Finish(w, result) ==
  /\ lock' = Free
  /\ Goto(w, "idle")
  /\ outcome' = [outcome EXCEPT ![op[w]] = result]

\* An exception before the audit event: a write reports that nothing was
\* committed, a failing undo that the state needs the doctor.
Fail(w) == Finish(w, IF undo[w] THEN "degraded" ELSE "notCommitted")

\* _restore_quarantine_at: the quarantined file returns to its name unless a
\* new leaf took the name, in which case both files are preserved.
RestoreQuarantine(w) ==
  /\ quar' = [quar EXCEPT ![w] = NoFile]
  /\ IF quar[w] # NoFile /\ leaf[rec[w]] = NoFile
     THEN leaf' = [leaf EXCEPT ![rec[w]] = quar[w]] /\ UNCHANGED aside
     ELSE aside' = aside \cup ({quar[w]} \ {NoFile}) /\ UNCHANGED leaf

-----------------------------------------------------------------------------
(* Calling: reads take no lock *)

\* A caller starts one operation on r with the revision it holds.
Call(w, r, revision) ==
  /\ pc[w] = "idle" /\ nextOp <= MaxOps
  /\ rec' = [rec EXCEPT ![w] = r]
  /\ seen' = [seen EXCEPT ![w] = revision]
  /\ op' = [op EXCEPT ![w] = nextOp] /\ nextOp' = nextOp + 1
  /\ Goto(w, "called")
  /\ UNCHANGED <<files, log, lock, want, prior, pub, undo, outcome, nextIno, edits,
                 crashes>>

\* get_task, get_entity, get_thread: the caller reads an exact revision first.
CallUpdate(w, r) == leaf[r] # NoFile /\ Call(w, r, leaf[r].body)

CallCreate(w, r) == Call(w, r, NoFile)

\* What the re-read under the lock must show (_expect; the create's existence
\* test): a create finds no file, an update the revision the caller read.
Current(w) ==
  IF seen[w] = NoFile
  THEN leaf[rec[w]] = NoFile
  ELSE leaf[rec[w]] # NoFile /\ leaf[rec[w]].body = seen[w]

\* Rejected before anything was written.
Reject(w) ==
  /\ Goto(w, "idle")
  /\ outcome' = [outcome EXCEPT ![op[w]] = "notCommitted"]
  /\ UNCHANGED <<files, log, lock, call, want, pub, undo, limits>>

\* _acquire gives up after its timeout while another process holds the lock.
LockTimeout(w) == pc[w] = "called" /\ lock # Free /\ Reject(w)

\* ConflictError or NotFoundError from the re-read.
Stale(w) == pc[w] = "called" /\ lock = Free /\ ~Current(w) /\ Reject(w)

\* Mutant: the global lock is not taken before the re-read.
EnterUnlocked(w) ==
  /\ pc[w] = "called" /\ Current(w)
  /\ lock' = w
  /\ prior' = [prior EXCEPT ![w] = leaf[rec[w]]]
  /\ want' = [want EXCEPT ![w] = leaf[rec[w]]]
  /\ pub' = [pub EXCEPT ![w] = [body |-> op[w], ino |-> nextIno, by |-> op[w]]]
  /\ undo' = [undo EXCEPT ![w] = FALSE]
  /\ nextIno' = nextIno + 1
  /\ Goto(w, IF leaf[rec[w]] = NoFile THEN "publish" ELSE "quarantine")
  /\ UNCHANGED <<files, log, rec, seen, op, outcome, nextOp, edits, crashes>>

\* The re-read succeeds, retains the file's identity, and the replacement is
\* staged under a private name.
Enter(w) ==
  /\ pc[w] = "called" /\ lock = Free /\ Current(w)
  /\ lock' = w
  /\ prior' = [prior EXCEPT ![w] = leaf[rec[w]]]
  /\ want' = [want EXCEPT ![w] = leaf[rec[w]]]
  /\ pub' = [pub EXCEPT ![w] = [body |-> op[w], ino |-> nextIno, by |-> op[w]]]
  /\ undo' = [undo EXCEPT ![w] = FALSE]
  /\ nextIno' = nextIno + 1
  /\ Goto(w, IF leaf[rec[w]] = NoFile THEN "publish" ELSE "quarantine")
  /\ UNCHANGED <<files, log, rec, seen, op, outcome, nextOp, edits, crashes>>

-----------------------------------------------------------------------------
(* The exact replacement *)

\* The leaf moves to the quarantine name.  A person may have replaced it since
\* its identity was last checked, so any file may be taken.
Quarantine(w) ==
  /\ pc[w] = "quarantine" /\ leaf[rec[w]] # NoFile
  /\ quar' = [quar EXCEPT ![w] = leaf[rec[w]]]
  /\ leaf' = [leaf EXCEPT ![rec[w]] = NoFile]
  /\ Goto(w, "check")
  /\ UNCHANGED <<aside, log, lock, call, want, pub, undo, outcome, limits>>

\* The retained identity no longer names the leaf, or the leaf is gone.
LeafChanged(w) ==
  /\ pc[w] = "quarantine" /\ leaf[rec[w]] # want[w]
  /\ Fail(w)
  /\ UNCHANGED <<files, log, call, want, pub, undo, limits>>

\* Mutant: the quarantined bytes and inode are not compared.
QuarantineUnchecked(w) ==
  /\ pc[w] = "check"
  /\ Goto(w, IF undo[w] /\ prior[w] = NoFile THEN "unlink" ELSE "publish")
  /\ UNCHANGED <<files, log, lock, call, want, pub, undo, outcome, limits>>

\* The quarantined bytes and inode are the expected ones.  The undo of a create
\* publishes nothing and goes on to remove the file.
QuarantineExact(w) ==
  /\ pc[w] = "check" /\ quar[w] = want[w]
  /\ Goto(w, IF undo[w] /\ prior[w] = NoFile THEN "unlink" ELSE "publish")
  /\ UNCHANGED <<files, log, lock, call, want, pub, undo, outcome, limits>>

QuarantineForeign(w) ==
  /\ pc[w] = "check" /\ quar[w] # want[w]
  /\ RestoreQuarantine(w)
  /\ Fail(w)
  /\ UNCHANGED <<log, call, want, pub, undo, limits>>

Publish(w) ==
  /\ pc[w] = "publish" /\ leaf[rec[w]] = NoFile
  /\ leaf' = [leaf EXCEPT ![rec[w]] = pub[w]]
  /\ Goto(w, "verify")
  /\ UNCHANGED <<quar, aside, log, lock, call, want, pub, undo, outcome, limits>>

\* The no-replace move failed: a person created the name, or an I/O fault.
PublishFails(w) ==
  /\ pc[w] = "publish"
  /\ RestoreQuarantine(w)
  /\ Fail(w)
  /\ UNCHANGED <<log, call, want, pub, undo, limits>>

\* Nothing is left to do in an undo once the prior bytes are back.
AfterExact(w) ==
  IF undo[w] THEN Finish(w, "notCommitted")
             ELSE Goto(w, "append") /\ UNCHANGED <<lock, outcome>>

PublishedExact(w) ==
  /\ pc[w] = "verify" /\ leaf[rec[w]] = pub[w]
  /\ IF quar[w] # NoFile THEN Goto(w, "unlink") /\ UNCHANGED <<lock, outcome>>
                         ELSE AfterExact(w)
  /\ UNCHANGED <<files, log, call, want, pub, undo, limits>>

\* The canonical parent changed or a read failed while the publication stands:
\* _rollback_regular_file_replacement_at takes it back.
VerifyFault(w) ==
  /\ pc[w] = "verify" /\ leaf[rec[w]] = pub[w]
  /\ leaf' = [leaf EXCEPT ![rec[w]] = quar[w]]
  /\ quar' = [quar EXCEPT ![w] = NoFile]
  /\ Fail(w)
  /\ UNCHANGED <<aside, log, call, want, pub, undo, limits>>

\* A person replaced or removed the publication before it was verified.  The
\* rollback of an update moves the leaf to a rollback name before it finds the
\* foreign identity; the rollback of a create leaves the leaf alone.
PublishedForeign(w) ==
  /\ pc[w] = "verify" /\ leaf[rec[w]] # pub[w]
  /\ quar' = [quar EXCEPT ![w] = NoFile]
  /\ IF quar[w] = NoFile
     THEN UNCHANGED <<leaf, aside>>
     ELSE /\ aside' = aside \cup ({quar[w], leaf[rec[w]]} \ {NoFile})
          /\ leaf' = [leaf EXCEPT ![rec[w]] = NoFile]
  /\ Finish(w, "degraded")
  /\ UNCHANGED <<log, call, want, pub, undo, limits>>

UnlinkQuarantine(w) ==
  /\ pc[w] = "unlink"
  /\ quar' = [quar EXCEPT ![w] = NoFile]
  /\ AfterExact(w)
  /\ UNCHANGED <<leaf, aside, log, call, want, pub, undo, limits>>

\* Mutant: a committed publication whose cleanup failed passes for a success.
UnlinkFaultIgnored(w) ==
  /\ pc[w] = "unlink"
  /\ quar' = [quar EXCEPT ![w] = NoFile]
  /\ aside' = aside \cup ({quar[w]} \ {NoFile})
  /\ Finish(w, "ok")
  /\ UNCHANGED <<leaf, log, call, want, pub, undo, limits>>

\* Quarantine cleanup failed: the publication is visible and has no event.
UnlinkFault(w) ==
  /\ pc[w] = "unlink"
  /\ quar' = [quar EXCEPT ![w] = NoFile]
  /\ aside' = aside \cup ({quar[w]} \ {NoFile})
  /\ Finish(w, "degraded")
  /\ UNCHANGED <<leaf, log, call, want, pub, undo, limits>>

-----------------------------------------------------------------------------
(* The audit event *)

\* A line appended to an unfinished one joins it and is unreadable.
AppendLine(w) ==
  /\ journal' = Append(journal, [op |-> op[w], rec |-> rec[w], before |-> prior[w],
                                 whole |-> tail = "newline"])
  /\ tail' = "newline"

\* Part of a line was written: a fragment, or everything but its newline.
Torn == tail' \in {"fragment", "unterminated"} /\ UNCHANGED journal

AppendEvent(w) ==
  /\ pc[w] = "append"
  /\ AppendLine(w)
  /\ Finish(w, "ok")
  /\ UNCHANGED <<files, call, want, pub, undo, limits>>

\* The event is durable; descriptor cleanup, the journal lock's release or a
\* later path validation failed.
AppendCommitted(w) ==
  /\ pc[w] = "append"
  /\ AppendLine(w)
  /\ Finish(w, "committed")
  /\ UNCHANGED <<files, call, want, pub, undo, limits>>

\* Mutant: the publication stays when its event could not be written.
AppendRestoredKeepsFile(w) ==
  /\ pc[w] = "append"
  /\ Finish(w, "notCommitted")
  /\ UNCHANGED <<files, log, call, want, pub, undo, limits>>

\* The append failed and was truncated away: undo the publication.
AppendRestored(w) ==
  /\ pc[w] = "append"
  /\ undo' = [undo EXCEPT ![w] = TRUE]
  /\ want' = [want EXCEPT ![w] = pub[w]]
  /\ pub' = [pub EXCEPT ![w] = IF prior[w] = NoFile THEN NoFile
                               ELSE [prior[w] EXCEPT !.ino = nextIno]]
  /\ nextIno' = nextIno + 1
  /\ Goto(w, "quarantine")
  /\ UNCHANGED <<files, log, lock, call, outcome, nextOp, edits, crashes>>

\* The append failed and so did its truncation: the tail is whatever was
\* written, and the canonical file stays.
AppendUnknown(w) ==
  /\ pc[w] = "append"
  /\ \/ UNCHANGED log
     \/ AppendLine(w)
     \/ Torn
  /\ Finish(w, "degraded")
  /\ UNCHANGED <<files, call, want, pub, undo, limits>>

-----------------------------------------------------------------------------
(* Environment *)

\* Death at any point: flock is released, private files stay, and a write in
\* progress leaves none, part or all of its line.
Crash(w) ==
  /\ pc[w] # "idle" /\ crashes < MaxCrashes
  /\ crashes' = crashes + 1
  /\ lock' = IF lock = w THEN Free ELSE lock
  /\ outcome' = [outcome EXCEPT ![op[w]] = "crashed"]
  /\ quar' = [quar EXCEPT ![w] = NoFile]
  /\ aside' = aside \cup ({quar[w]} \ {NoFile})
  /\ Goto(w, "idle")
  /\ \/ UNCHANGED log
     \/ pc[w] = "append" /\ AppendLine(w)
     \/ pc[w] = "append" /\ Torn
  /\ UNCHANGED <<leaf, call, want, pub, undo, nextOp, nextIno, edits>>

\* _journal_issue: only a final fragment that is no JSON may be removed; an event
\* that lacks its newline, or a complete line that is unreadable, is retained.
Repairable == tail = "fragment"

\* doctor(repair=True) truncates the fragment.
DoctorRepair ==
  /\ Repairable
  /\ tail' = "newline"
  /\ UNCHANGED <<files, journal, lock, pc, call, want, pub, undo, outcome, limits>>

\* A person saves new text, or brings back any earlier text, with a new inode.
PersonSaves(r, b) ==
  /\ edits < MaxEdits /\ edits' = edits + 1
  /\ leaf' = [leaf EXCEPT ![r] = [body |-> b, ino |-> nextIno, by |-> 0]]
  /\ nextIno' = nextIno + 1
  /\ UNCHANGED <<quar, aside, log, lock, pc, call, want, pub, undo, outcome, nextOp,
                 crashes>>

PersonDeletes(r) ==
  /\ edits < MaxEdits /\ edits' = edits + 1
  /\ leaf[r] # NoFile
  /\ leaf' = [leaf EXCEPT ![r] = NoFile]
  /\ UNCHANGED <<quar, aside, log, lock, pc, call, want, pub, undo, outcome, nextOp,
                 nextIno, crashes>>

-----------------------------------------------------------------------------
WriterStep(w) ==
  \/ LockTimeout(w) \/ Stale(w) \/ Enter(w)
  \/ Quarantine(w) \/ LeafChanged(w) \/ QuarantineExact(w) \/ QuarantineForeign(w)
  \/ Publish(w) \/ PublishFails(w)
  \/ PublishedExact(w) \/ VerifyFault(w) \/ PublishedForeign(w)
  \/ UnlinkQuarantine(w) \/ UnlinkFault(w)
  \/ AppendEvent(w) \/ AppendCommitted(w) \/ AppendRestored(w) \/ AppendUnknown(w)

\* Texts a person may save: any an operation wrote, the first one, or new text.
Texts == 0 .. MaxOps + 1

Environment ==
  \/ \E w \in Writers, r \in Records : CallUpdate(w, r) \/ CallCreate(w, r)
  \/ \E w \in Writers : Crash(w)
  \/ DoctorRepair
  \/ \E r \in Records : PersonDeletes(r) \/ \E b \in Texts : PersonSaves(r, b)

Next == Environment \/ \E w \in Writers : WriterStep(w)

Spec == Init /\ [][Next]_vars

\* A live process keeps running its code; people and faults owe nothing.
FairSpec == Spec /\ \A w \in Writers : WF_vars(WriterStep(w))

-----------------------------------------------------------------------------
(* Properties *)

Audited(o) == \E i \in DOMAIN journal : journal[i].op = o
Working(o) == \E w \in Writers : pc[w] # "idle" /\ op[w] = o

\* What _persist_with_event tells its caller is true: after success or
\* MutationCommittedError the audit event is in the journal; after a conflict
\* or "was not committed" there is no event and the operation's file is not at
\* the canonical path, whatever a person did to the leaf meanwhile.
OutcomeHonest ==
  \A o \in Ops :
    /\ outcome[o] \in {"ok", "committed"} => Audited(o)
    /\ outcome[o] = "notCommitted" =>
         /\ ~Audited(o)
         /\ \A r \in Records : leaf[r] = NoFile \/ leaf[r].by # o

\* Markdown written by Seld and left at the canonical path has its event, unless
\* the operation is still running, reported degraded, or its process died.
UnauditedOnlyAfterFailure ==
  \A r \in Records :
    leaf[r] # NoFile /\ leaf[r].by # 0 /\ ~Audited(leaf[r].by)
      => \/ Working(leaf[r].by)
         \/ outcome[leaf[r].by] \in {"degraded", "crashed"}

\* Without a person's edit, a degraded outcome or a death, the journal replays the
\* record: every event starts from the file the previous event of that record left,
\* and between operations the leaf is the one the last event left.
JournalReplays ==
  edits = 0 /\ (\A o \in Ops : outcome[o] \notin {"degraded", "crashed"}) =>
    \A r \in Records :
      LET mine == {i \in DOMAIN journal : journal[i].rec = r}
      IN  /\ \A i, j \in mine :
               i < j /\ (\A k \in mine : k <= i \/ j <= k)
                 => journal[j].before # NoFile /\ journal[j].before.by = journal[i].op
          /\ \A i \in mine :
               lock = Free /\ (\A k \in mine : k <= i)
                 => leaf[r] # NoFile /\ leaf[r].by = journal[i].op

Present ==
  ({leaf[r] : r \in Records} \cup {quar[w] : w \in Writers} \cup aside) \ {NoFile}

\* A step of Seld destroys only bytes whose revision its caller had read, or a
\* file this operation itself published: a person's concurrent save always
\* survives at the leaf or under a private name.
NoClobber ==
  [][\A f \in Present \ Present' :
       \/ pc' = pc
       \/ \E w \in Writers : pc[w] # pc'[w] /\ (f.body = seen[w] \/ f.by = op[w])]_vars

\* Every admitted operation ends and gives the global lock back.
LockReturned == \A w \in Writers : (lock = w) ~> (lock # w)
=============================================================================
