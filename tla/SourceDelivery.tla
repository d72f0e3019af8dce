---------------------------- MODULE SourceDelivery --------------------------
(* local_source_delivery.py: forward-only delivery of a host-local message
   store.  A poll prepares one bounded batch and keeps its token in the host
   checkpoint; the agent acts on the batch; an acknowledgement publishes a
   receipt in the vault's SOURCES.md and only then moves the checkpoint.  Each
   operation holds the per-source lock; it may die between two durable
   writes, and the message store, the vault and the account move meanwhile. *)
EXTENDS MessageStore

CONSTANT Nothing     \* no delivery, receipt or observation

CONSTANTS Bodies,        \* of the messages that arrive
          EditedBody,    \* of an edited one
          Dispositions,  \* what an agent may say it did with a delivery
          Now,           \* the host's clock; messages carry earlier times
          MaxRows, MaxFile,  MaxSeq, MaxRev, MaxTurns

Cursors == [schema : Nat, generation : Nat \X Nat, messages : Nat, rowid : Nat, newest : Nat]

ASSUME DeliveryAssumption ==
  /\ BodySize \in [Bodies \cup {EditedBody} -> Nat] /\ "gap" \notin Dispositions
  /\ {Limit, Budget, Now, MaxRows, MaxFile, MaxSeq} \subseteq Nat /\ MaxRev \in Nat \ {0}
  /\ Gone \notin [body : Bodies \cup {EditedBody}, shown : BOOLEAN, at : Nat]
  /\ Nothing \notin [seq : Nat, cursor : Cursors,
                    why : {"forward_only_reset", "discard_stale_delivery"}]

VARIABLES
  source,     \* "apple_messages" or "whatsapp": fixed in a behaviour
  store,      \* the provider's database
  account,    \* the account signed in on this host
  ckpt,       \* host checkpoint file, NoFile before the baseline
  archive,    \* checkpoint history: <<sequence, cursor>> -> the bytes set aside
  commit,     \* commit marker file of the last prepared receipt
  sources,    \* vault: SOURCES.md
  record,     \* vault: revision of the canonical record receipts refer to
  events,     \* vault journal: source.observe events <<before, after>>
  nextRev,    \* revisions of SOURCES.md given out so far
  op,         \* the operation that holds the source lock
  receipts,   \* history: receipts published and not rolled back
  waived,     \* history: rows given up by an explicit baseline, adoption or reset
  turns       \* what the world did so far: crashes, edits, replacements, other writers

sourceVars == <<source, store, account, ckpt, archive, commit, sources, record,
          events, nextRev, op, receipts, waived, turns>>
world == <<store, account>>
vault == <<sources, record, events, nextRev>>
history == <<receipts, waived>>

Ledger == INSTANCE SourceState
Apple == INSTANCE AppleMessages
Wa == INSTANCE WhatsApp

\* A file that is not there.
NoFile == <<>>

IsApple == source = "apple_messages"
Idle == [pc |-> "idle"]

Inspected == IF IsApple THEN Apple!Inspect(store) ELSE Wa!Inspect(store)
Verified(c) == IF IsApple THEN Apple!VerifyCheckpoint(store, c) ELSE Wa!VerifyCheckpoint(store, c)
Read(c) == IF IsApple THEN Apple!ReadDelta(store, account, Now, c)
                      ELSE Wa!ReadDelta(store, account, Now, c)
Replay(c, t) == IF IsApple
  THEN Apple!ReplayDelta(store, account, Now, c, t.target, t.complete)
  ELSE Wa!ReplayDelta(store, account, Now, c, t.target, t.complete)
VerifyAck(c, t) == IF IsApple THEN Apple!VerifyAck(store, c, t.target, t.items)
                              ELSE Wa!VerifyAck(store, c, t.target, t.items)

\* The rows of the current file up to a rowid: what an explicit decision gives up.
RowsThrough(n) == {<<store.file, r>> : r \in 1..n}

\* _verify_replayed_delta for a delivery without an adapter token (no message):
\* its digest binds everything but the later clock.
ReplayMatches(t, d) ==
  /\ d # Refused
  /\ d.account = t.account
  /\ d.items = t.items

\* _verify_prepared_delivery: "verified", "changed" or Refused.
VerifyPrepared(c, t) ==
  IF t.items = <<>>
    THEN IF ReplayMatches(t, Replay(c, t)) THEN "verified" ELSE Refused
    ELSE VerifyAck(c, t)

SourcesInit ==
  /\ source \in {"apple_messages", "whatsapp"}
  /\ store = [file |-> 1, schema |-> 1, rows |-> <<>>]
  /\ account = 1 /\ record = 1 /\ nextRev = 1
  /\ ckpt = NoFile /\ archive = <<>> /\ commit = NoFile
  /\ sources = [Ledger!EmptySnapshot EXCEPT !.rev = 1, !.selected = TRUE]
  /\ events = {} /\ op = Idle /\ receipts = {} /\ waived = {} /\ turns = 0

-----------------------------------------------------------------------------
(* Operations that make one durable write.  A refused call changes nothing. *)

\* baseline: the current aggregates become the forward-only start.
Baseline ==
  /\ op = Idle /\ sources.selected /\ ckpt = NoFile
  /\ ckpt' = [seq |-> 0, cursor |-> Inspected.cursor, pending |-> Nothing,
              last |-> Nothing, reset |-> Nothing, adopted |-> Nothing]
  /\ waived' = waived \cup RowsThrough(Inspected.cursor.rowid)
  /\ UNCHANGED <<source, world, archive, commit, vault, op, receipts, turns>>

\* adopt_checkpoint, first time: an imported cursor whose prefix is exact.
AdoptCheckpoint ==
  \E n \in 0..Len(store.rows) :
    LET imported == CursorAtPrefix(store, n)
    IN /\ op = Idle /\ sources.selected /\ ckpt = NoFile
       /\ imported # Refused /\ Verified(imported) # Refused
       /\ ckpt' = [seq |-> 0, cursor |-> Verified(imported), pending |-> Nothing,
                   last |-> Nothing, reset |-> Nothing, adopted |-> imported]
       /\ waived' = waived \cup RowsThrough(n)
       /\ UNCHANGED <<source, world, archive, commit, vault, op, receipts, turns>>

\* _prepare_token
PrepareToken(d) ==
  [seq |-> ckpt.seq, from |-> ckpt.cursor, rev |-> sources.rev, target |-> d.cursor,
   covered |-> d.covered, complete |-> d.complete, items |-> d.items,
   account |-> d.account]

\* poll with nothing pending.  With a delivery pending the call replays it and
\* writes nothing.
Poll ==
  /\ op = Idle /\ ckpt # NoFile /\ ckpt.seq < MaxSeq
  /\ ckpt.pending = Nothing /\ sources.selected
  /\ Read(ckpt.cursor) # Refused
  /\ ckpt' = [ckpt EXCEPT !.pending = PrepareToken(Read(ckpt.cursor))]
  /\ UNCHANGED <<source, world, archive, commit, vault, op, history, turns>>

-----------------------------------------------------------------------------
(* rebaseline: gap receipt, then the archived checkpoint, then the new one. *)

\* The store the cursor came from is another file or has another schema.
Replaced == Inspected.cursor.generation # ckpt.cursor.generation

\* What discard_stale_delivery may be used for: the delivery replays, and its
\* verification says that its content changed.
StaleDelivery ==
  /\ IsApple
  /\ ckpt.pending # Nothing
  /\ Replay(ckpt.cursor, ckpt.pending) # Refused
  /\ Replay(ckpt.cursor, ckpt.pending).account = ckpt.pending.account
  /\ Len(Replay(ckpt.cursor, ckpt.pending).items) = Len(ckpt.pending.items)
  /\ ckpt.pending.items # <<>>
  /\ VerifyPrepared(ckpt.cursor, ckpt.pending) = "changed"

GapRecorded(t) ==
  /\ sources.obs # Nothing
  /\ sources.obs.complete = FALSE
  /\ sources.obs.evidence = <<"gap", t>>

RebaselineForward ==
  /\ op = Idle /\ ckpt # NoFile /\ ckpt.seq < MaxSeq
  /\ sources.selected
  /\ Replaced
  /\ op' = [pc |-> "archive", why |-> "forward_only_reset", cursor |-> Inspected.cursor]
  /\ UNCHANGED <<source, world, ckpt, archive, commit, vault, history, turns>>

\* The gap receipt is recorded before anything of the checkpoint is touched.
RebaselineDiscard ==
  /\ op = Idle /\ ckpt # NoFile /\ ckpt.seq < MaxSeq
  /\ sources.selected
  /\ StaleDelivery
  /\ LET t == ckpt.pending
         gap == Ledger!SuccessRecorded(sources,
                  [account |-> account, complete |-> FALSE, evidence |-> <<"gap", t>>,
                   covered |-> IF Inspected.newest # 0 THEN Inspected.newest ELSE Now],
                  nextRev + 1)
     IN \/ GapRecorded(t) /\ UNCHANGED <<vault, receipts>>
        \/ /\ ~GapRecorded(t) /\ gap # Refused /\ nextRev < MaxRev
           /\ sources' = gap
           /\ nextRev' = nextRev + 1
           /\ events' = events \cup {<<sources.rev, nextRev + 1>>}
           /\ receipts' = receipts \cup {[token |-> t, disp |-> "gap", ref |-> Nothing,
                                          rev |-> nextRev + 1]}
           /\ UNCHANGED record
  /\ op' = [pc |-> "archive", why |-> "discard_stale_delivery", cursor |-> Inspected.cursor]
  /\ UNCHANGED <<source, world, ckpt, archive, commit, waived, turns>>

\* The exact checkpoint is set aside under its sequence and digest; a path that
\* already holds other bytes ends the call.
ArchiveCheckpoint ==
  LET key == <<ckpt.seq, ckpt.cursor>>
      taken == key \in DOMAIN archive
  IN /\ op.pc = "archive"
     /\ archive' = IF taken THEN archive
                   ELSE [k \in DOMAIN archive \cup {key} |->
                           IF k = key THEN ckpt ELSE archive[k]]
     /\ op' = IF taken /\ archive[key] # ckpt THEN Idle ELSE [op EXCEPT !.pc = "reset"]
     /\ UNCHANGED <<source, world, ckpt, commit, vault, history, turns>>

ResetCheckpoint ==
  /\ op.pc = "reset"
  /\ ckpt' = [ckpt EXCEPT !.seq = @ + 1, !.cursor = op.cursor, !.pending = Nothing,
                !.reset = [seq |-> ckpt.seq, cursor |-> ckpt.cursor, why |-> op.why]]
  /\ waived' = waived \cup
       {<<op.cursor.generation[1], r>> : r \in
          IF \/ op.why = "forward_only_reset"
             \/ \E p \in receipts : p.token = ckpt.pending /\ p.disp = "gap"
          THEN 1..op.cursor.rowid ELSE {}}
  /\ op' = Idle
  /\ UNCHANGED <<source, world, archive, commit, vault, receipts, turns>>

-----------------------------------------------------------------------------
(* acknowledge.  The binding of a receipt is its disposition and the revision
   of the record it refers to. *)

\* Mutants: recovery only while the receipt is current; recovery without its event.
RecoveredIfCurrent(bind) ==
  /\ commit # NoFile /\ commit.token = ckpt.pending
  /\ commit.bind = bind
  /\ sources.rev = commit.after

RecoveredFromMarker(bind) ==
  /\ commit # NoFile /\ commit.token = ckpt.pending
  /\ commit.bind = bind
  /\ sources.rev # commit.before

HasExactSourceEvent(before, after) == <<before, after>> \in events

\* _recover_committed_receipt: the marker of this token has its event.
Recovered(bind) ==
  /\ commit # NoFile /\ commit.token = ckpt.pending
  /\ commit.bind = bind
  /\ sources.rev # commit.before
  /\ HasExactSourceEvent(commit.before, commit.after)

\* The marker was prepared for this delivery with another receipt.
OtherReceiptPrepared(bind) ==
  /\ commit # NoFile
  /\ commit.token = ckpt.pending
  /\ commit.bind # bind

\* Everything up to the vault's lock.  Recovery completes the checkpoint from
\* the marker; otherwise the delivery is rebound to the current revision.
BeginAcknowledge ==
  \E disp \in Dispositions, ref \in 1..record :
    LET t == ckpt.pending
        bind == <<disp, ref>>
        moved == sources.rev # t.rev
    IN /\ op = Idle /\ ckpt # NoFile /\ ckpt.pending # Nothing
       /\ account = t.account
       /\ VerifyPrepared(ckpt.cursor, t) = "verified"
       /\ moved => ~OtherReceiptPrepared(bind)
       /\ op' = IF moved /\ Recovered(bind)
                  THEN [pc |-> "checkpoint", bind |-> bind, rev |-> commit.after]
                  ELSE [pc |-> "prepare", bind |-> bind, rev |-> sources.rev]
       /\ op'.pc = "prepare" => ref = record
       /\ UNCHANGED <<source, world, ckpt, archive, commit, vault, history, turns>>

\* The observation an acknowledgement records, at a revision.
ReceiptAt(rev) ==
  Ledger!SuccessRecorded(sources,
    [account |-> ckpt.pending.account, covered |-> ckpt.pending.covered,
     complete |-> ckpt.pending.complete, evidence |-> <<"ack", ckpt.pending, op.bind>>], rev)

\* Under the vault's lock: references and revision compared again, the receipt
\* projected, and the marker written, or reused when it is for this revision.
PrepareCommitMarker ==
  LET reuse == /\ commit # NoFile
               /\ commit.token = ckpt.pending
               /\ commit.before = op.rev
  IN /\ op.pc = "prepare"
     /\ op.bind[2] = record /\ sources.rev = op.rev
     /\ ReceiptAt(0) # Refused
     /\ reuse => commit.bind = op.bind
     /\ nextRev < MaxRev \/ reuse
     /\ commit' = IF reuse THEN commit
                  ELSE [token |-> ckpt.pending, bind |-> op.bind,
                        before |-> op.rev, after |-> nextRev + 1]
     /\ nextRev' = IF reuse THEN nextRev ELSE nextRev + 1
     /\ op' = [op EXCEPT !.pc = "publish", !.rev = commit'.after]
     /\ UNCHANGED <<source, world, ckpt, archive, sources, record, events, history, turns>>

\* The vault moved, or the receipt is not one SOURCES.md can take: refused.
AcknowledgeRefused ==
  /\ op.pc = "prepare"
  /\ \/ op.bind[2] # record \/ sources.rev # op.rev
     \/ ReceiptAt(0) = Refused
     \/ /\ commit # NoFile /\ commit.token = ckpt.pending
        /\ commit.before = op.rev /\ commit.bind # op.bind
  /\ op' = Idle
  /\ UNCHANGED <<source, world, ckpt, archive, commit, vault, history, turns>>

PublishReceipt ==
  /\ op.pc = "publish"
  /\ sources' = ReceiptAt(op.rev)
  /\ receipts' = receipts \cup {[token |-> ckpt.pending, disp |-> op.bind[1],
                                 ref |-> op.bind[2], rev |-> op.rev]}
  /\ op' = [pc |-> "event", bind |-> op.bind, rev |-> op.rev, was |-> sources]
  /\ UNCHANGED <<source, world, ckpt, archive, commit, record, events, nextRev, waived, turns>>

AppendEvent ==
  /\ op.pc = "event"
  /\ events' = events \cup {<<op.was.rev, op.rev>>}
  /\ op' = [pc |-> "checkpoint", bind |-> op.bind, rev |-> op.rev]
  /\ UNCHANGED <<source, world, ckpt, archive, commit, sources, record, nextRev, history, turns>>

\* The journal refuses the event: the ledger is put back as it was.
AppendFails ==
  /\ op.pc = "event"
  /\ sources' = op.was
  /\ receipts' = {p \in receipts : p.rev # op.rev}
  /\ op' = Idle
  /\ UNCHANGED <<source, world, ckpt, archive, commit, record, events, nextRev, waived, turns>>

\* complete_checkpoint
CompleteCheckpoint ==
  /\ op.pc = "checkpoint"
  /\ ckpt' = [ckpt EXCEPT !.seq = @ + 1, !.cursor = ckpt.pending.target, !.pending = Nothing,
                !.last = [token |-> ckpt.pending, bind |-> op.bind, rev |-> op.rev]]
  /\ op' = Idle
  /\ UNCHANGED <<source, world, archive, commit, vault, history, turns>>

\* One more of the disturbances a behaviour may have.
Turn == turns < MaxTurns /\ turns' = turns + 1

\* The process dies; the locks go with it.
OperationDies ==
  /\ op # Idle /\ Turn
  /\ op' = Idle
  /\ UNCHANGED <<source, world, ckpt, archive, commit, vault, history>>

-----------------------------------------------------------------------------
(* The world.  The vault's other writers wait while its lock is held. *)

VaultFree == op = Idle \/ op.pc \notin {"publish", "event"}

\* A message arrives; a synced one may carry an earlier time.
Receive ==
  \E body \in Bodies, at \in 1..(Now - 1) :
    /\ Len(store.rows) < MaxRows
    /\ store' = [store EXCEPT !.rows = Append(@, [body |-> body, shown |-> TRUE, at |-> at])]
    /\ UNCHANGED <<source, account, ckpt, archive, commit, vault, op, history, turns>>

\* A message is edited, unsent or deleted by its sender.
ChangeRow ==
  \E r \in Live(store) :
    /\ \/ store.rows[r].body # EditedBody /\ store' = [store EXCEPT !.rows[r].body = EditedBody]
       \/ store.rows[r].shown /\ store' = [store EXCEPT !.rows[r].shown = FALSE]
       \/ store' = [store EXCEPT !.rows[r] = Gone]
    /\ Turn
    /\ UNCHANGED <<source, account, ckpt, archive, commit, vault, op, history>>

\* The database file is replaced, by a new store or by a copy of this one.
ReplaceStore ==
  /\ store.file < MaxFile
  /\ \E rows \in {<<>>, store.rows} :
       store' = [store EXCEPT !.file = @ + 1, !.rows = rows]
  /\ Turn
  /\ UNCHANGED <<source, account, ckpt, archive, commit, vault, op, history>>

MigrateSchema ==
  /\ store.schema = 1
  /\ store' = [store EXCEPT !.schema = 2]
  /\ Turn
  /\ UNCHANGED <<source, account, ckpt, archive, commit, vault, op, history>>

SwitchAccount ==
  /\ account' = 3 - account
  /\ Turn
  /\ UNCHANGED <<source, store, ckpt, archive, commit, vault, op, history>>

\* select_sources by the person: the source leaves or joins the selection.
SelectSources ==
  /\ VaultFree /\ nextRev < MaxRev
  /\ sources' = Ledger!Selected(sources, ~sources.selected, nextRev + 1)
  /\ nextRev' = nextRev + 1
  /\ Turn
  /\ UNCHANGED <<source, world, ckpt, archive, commit, record, events, op, history>>

\* Another task records a failed read of this source.
RecordFailure ==
  /\ VaultFree /\ nextRev < MaxRev
  /\ Ledger!FailureRecorded(sources, nextRev + 1) # Refused
  /\ sources' = Ledger!FailureRecorded(sources, nextRev + 1)
  /\ nextRev' = nextRev + 1
  /\ events' = events \cup {<<sources.rev, nextRev + 1>>}
  /\ Turn
  /\ UNCHANGED <<source, world, ckpt, archive, commit, record, op, history>>

\* The record a receipt would refer to is edited.
EditRecord ==
  /\ VaultFree /\ record' = record + 1
  /\ Turn
  /\ UNCHANGED <<source, world, ckpt, archive, commit, sources, events, nextRev, op, history>>

SourcesNext ==
  \/ Baseline \/ AdoptCheckpoint \/ Poll
  \/ RebaselineForward \/ RebaselineDiscard \/ ArchiveCheckpoint \/ ResetCheckpoint
  \/ BeginAcknowledge \/ PrepareCommitMarker \/ AcknowledgeRefused \/ PublishReceipt
  \/ AppendEvent \/ AppendFails \/ CompleteCheckpoint \/ OperationDies
  \/ Receive \/ ChangeRow \/ ReplaceStore \/ MigrateSchema \/ SwitchAccount
  \/ SelectSources \/ RecordFailure \/ EditRecord

SourcesSpec == SourcesInit /\ [][SourcesNext]_sourceVars

-----------------------------------------------------------------------------
(* The messages of a delivery are the rows its token names, with the hidden
   ones between its cursors. *)
Delivered(p) ==
  {<<p.token.target.generation[1], p.token.items[i][1]>> : i \in DOMAIN p.token.items}

\* No message is lost: every visible message at or below the checkpoint's
\* cursor was in a delivery with a published receipt, or was given up by an
\* explicit baseline, adoption, replacement or recorded gap
\* (complete_checkpoint runs after the receipt, rebaseline after its gap).
NothingSkipped ==
  ckpt # NoFile =>
    \A r \in Live(store) :
      (/\ r <= ckpt.cursor.rowid
       /\ ckpt.cursor.generation[1] = store.file
       /\ store.rows[r].shown)
      => <<store.file, r>> \in waived \cup UNION {Delivered(p) : p \in receipts}

\* One delivery has one meaning: through crashes, retries and rebinding to newer
\* revisions, the receipts of a token agree on disposition and record, and at
\* most one of them is audited (_recover_committed_receipt).
OneReceipt ==
  \A p, q \in receipts :
    (p.token = q.token /\ p.disp # "gap" /\ q.disp # "gap") =>
      /\ p.disp = q.disp
      /\ (\E b, c \in 1..MaxRev : <<b, p.rev>> \in events /\ <<c, q.rev>> \in events) => p = q

\* A checkpoint names the receipt that moved it: the receipt it remembers was
\* published, is audited, and covers exactly the cursor it left behind.
CheckpointBacked ==
  (ckpt # NoFile /\ ckpt.last # Nothing) =>
    /\ \E p \in receipts : p.token = ckpt.last.token /\ p.rev = ckpt.last.rev
    /\ \E b \in 1..MaxRev : <<b, ckpt.last.rev>> \in events
    /\ ckpt.reset = Nothing => ckpt.cursor = ckpt.last.token.target

\* What poll, acknowledge and rebaseline promise together: no message is lost,
\* a delivery has one receipt, and the checkpoint is backed by it.
SourcesHonest == NothingSkipped /\ OneReceipt /\ CheckpointBacked
=============================================================================
