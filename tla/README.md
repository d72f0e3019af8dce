# Seld: TLA+ models and proofs

This directory models the parts of Seld (`src/src/continuity_kernel`) in which
processes, threads, people, providers and failures meet. Every module is written
from the source; `PROJECT.json` maps each definition to the lines it stands for
and lists the runs, mutants, theorems, hazards and findings. For each stretch of
code the map names the definition that carries it; helpers whose lines lie within
another definition's, and events of the environment, have no entry of their own.

## 1. Inventory

Paths are relative to `src/src/continuity_kernel/`.

| Component | State it keeps | Operations | Hard part | What makes it correct |
|---|---|---|---|---|
| Audited vault mutation (`vault.py`, `atomic.py`) | canonical Markdown, `journal/events.jsonl`, locks, quarantine and stage names | create, update, document writes, `doctor --repair` | files published and audited by separate durable steps; lock-free readers; edits that take no lock | no unread bytes are destroyed; reports are true; Markdown without an event is explained; the lock comes back |
| Guidance projection (`vault.py`, `resident_context.py`) | `AGENTS.md`, `MIND.md`, marker, intent | project, rollback, recover, write document | three files published one by one | the three are always of one edition, or an intent restores them |
| Tasks, hands, WorkThreads (`vault.py`, `dispatch.py`) | task and thread records, hand bindings, claims | create, update, claim, bind, transfer, merge | a transfer or merge is two record writes; dispatch acts on an earlier read | one live owner per hand; links lead to live records |
| Entities (`vault.py`) | entity records, relationships, links of tasks and threads | create, update, link, unlink, merge | merges die between their writes and are retried; redirects | no relationship or role is lost or invented by a merge |
| Turn transport (`codex_turn_transport.py`, `bridge.py`) | one receipt per guided-review event, worker lock and threads | submit, poll, start, resume, verify, classify orphans | at-most-once delivery without knowing what a dead instance's child received | no prompt twice; a retryable receipt was never delivered; receipts settle |
| Bridge server (`bridge.py`, `bridge_projection.py`) | receipt, process, control queue, pages | open, status, stop, answer | reused process numbers, hangs, several pages | a stop is honest; one answer per step, in the right vault |
| Native launcher (`bridge_launcher.py`) | bundles, ownership and lifecycle receipts | install, uninstall, status, recover | swap of a bundle, death anywhere | the owned app stays whole; recovery always goes on |
| Control ledger (`control_queue.py`, `operations.py`) | marker, queue, archived generations, disposition logs, heads, anchor | append, decide, archive, recover | a decision is four publications, archival two | an intent is kept for ever and decided at most once; every crash state reads back |
| Connector authentication (`connector_auth_manager.py`, `connector_token_store.py`, `connections.py`, ...) | `CONNECTIONS.md`, token pointer, keyring slots, lifecycle lock | connect, authorize, refresh, resume, remove, import, relabel | portable and host-local state under different locks; rotating tokens; late answers | removal is final; ready means a confirmed account; a refresh token is presented once |
| Connector runtime (`connector_runtime.py`, `connector_session.py`) | sealed confirmations and cursors, nonces | read, preview, confirm, execute | connection, credential and target change between steps | a confirmation executes once; a page belongs to its call |
| File grants and snapshots (`local_files.py`, `connector_transfer.py`) | grants, reservations, snapshot cache, timer | grant, revoke, prepare, adopt, expire | revocation and expiry race the execution | no snapshot outlives its grant or its confirmation; the budget balances |
| Uploads (`connector_transport.py`, adapters) | upload session, offset | open, write, probe, restart, finish | lost answers, expired sessions, retries | what is reported is what the provider has |
| Classified writes (adapters) | what was read at each step | classify, preflight, send | others change the item between the reads | consequences are confirmed on the item that is changed |
| Self-update (`update.py`) | transaction receipt, environments, entry points | check, apply, recover | a long transaction that any step may abandon | an old or a new runtime is complete and startable; recovery ends |
| Local sources (`apple_messages.py`, `whatsapp.py`, `source_state.py`, `local_source_delivery.py`) | `SOURCES.md`, host checkpoint, commit marker, message stores | poll, acknowledge, rebaseline, adopt | receipt and checkpoint are separate writes; stores are edited and migrated | nothing is skipped; a delivery has one receipt |
| Resident signals (`resident_signals.py`) | inputs, acknowledgements, archives, ledger, marker | append, acknowledge, compact, recover | compaction writes many files | a signal is kept once; the mailbox always reopens |
| Pulse (`pulse_*.py`) | reports, wake requests, integration receipts, checkpoints | observe, decide, wake, integrate, curate | loops and turns race; a request may be unanswered | asked at most once; delivered once; no window without a report |
| Scheduler (`scheduler.py`) | launchd job, plist, receipt, operation file | install, uninstall, canary, recover | commands fail with or without effect | the loaded job is always one Seld can name |
| Codex integration (`codex_integration.py`) | marketplace trees, registrations, `AGENTS.md` block, ownership receipt | install, replace, roll back, uninstall, repair | external registrations, deaths at every step | nothing is orphaned; uninstall is never stuck |
| Backup and restore (`vault_backup.py`) | archive, staging, set-aside target | create, restore | independent writers; a target others use | a backup is one moment; nobody's file is lost |
| App corpus (`app_corpus*.py`) | leaves, state, checkpoints, index binding | sync, refresh, policy, configure | sync and refresh race; changes during listings | named leaves exist; no change is missed |
| Resident import (`resident_import.py`) | staging, proof, cursor handoff | stage, prove, publish, hand over | handoff in two files | imports what was exported; every handoff is backed |
| Recall (`recall.py`) | snapshot, index, fingerprint | refresh, rebuild, search | deadlines and edits in the middle of indexing | a trusted index is of today's documents |
| Discord companion (`discord_source.py`) | binding, companion checkpoint | bind, poll, acknowledge | a replaced companion; lost answers | acknowledged only against a receipt in the vault |

Not modelled: operation catalogs and contracts, record rendering and context,
mail attachments and the remaining corpus readers (Slack, Notion, Outlook
calendar), Slack tasks and channel policy, the Codex process of Pulse, and the
CLI and MCP adapters; section 7 says why. What is hard to test in the code is
listed in `PROJECT.json` under `hazards`, each at its line.

How the parts interact: everything that writes the vault goes through the audited
mutation; the Bridge appends to the control ledger and starts turns; the local
sources and Pulse deliver to the resident over `SOURCES.md` and its mailbox;
connector calls use a credential from connector authentication; the update
calls backup, Codex integration and the native launcher. Where one part relies
on another, its module takes the other's promise as the effect of one step and
the other's module is where that promise is checked: `UpdateTransaction` relies on
a stop that reports "not running" (`StopHonest` of `BridgeServer`),
`AppCorpus` on a source that returns what changed (`NothingMissed` of
`CorpusProviders`), `ConnectorCalls` on the health that `ConnectorAuth` keeps.

## 2. Plan

Done: the models of all parts in section 1 (`ControlLedger` over `IntentLedger`,
`ResidentSignals` over `Mailbox`), and the proofs of `VaultWrite`, `TurnTransport`,
`ControlLedger` and `ResidentSignals` with their refinements, `ConnectorAuth`,
`ConnectorCalls`, `ProviderUploads`, `GuardedWrites`, `UpdateTransaction`, `SourceDelivery`,
`TaskHands`, `EntityGraph`, Pulse, and of every host part but `CodexIntegration`.

Next, in this order:

1. `CodexAccountedFor` of `CodexIntegration`;
2. the remaining corpus readers (Slack, Notion, Outlook calendar) and Gmail
   attachment transfer.

## 3. Modules

A file that is named `MC...` instantiates a module, or several, for TLC;
`VaultWrite`, `TurnTransport`, `PulseRuntime` and `UpdateTransaction` are run as they are, and so are
`ConnectorAuth` and `CodexIntegration` for the findings about them. A file that is named `...Proofs` holds theorems. The
runs `connectors`, `delivery`, `records` and `host` each explore parts that share
no state in one specification: a variable `part` says which one a behaviour
is about and the others keep their initial value, so that their state spaces are
added and not multiplied. A property whose name ends in `Honest`, or that
gathers several promises, is a conjunction whose named parts stand above it in
the module.

### VaultWrite

`Vault._persist_with_event` over `PinnedPathRoot.replace_regular_file_if_exact`.
A file is its bytes and its inode; the SHA-256 revision is represented by the
bytes. One action per durable step: `Call...` (a lock-free read), `Enter` (lock
and re-read), `Quarantine`, the check of what was quarantined, `Publish`
(no-replace move), the check of what was published, `UnlinkQuarantine`, the
append of the event, and the undo of a publication whose append failed, which
runs the same replacement in reverse. Beside the writers: a person saving a
file (a new inode, as editors do), process death, I/O faults, and the doctor.

Abstractions: edits in place of the same inode are outside the file model; the
rollback of a publication that fails its own verification is one step; leftover
stage files are not tracked; the journal lock is folded into the append; the
per-record lock adds nothing under the global lock and is left out.

### TurnTransport

`CodexTurnCoordinator` and the two Bridge routes that use it. The receipt is
the only state instances share, and `Transition` is its byte-exact
compare-and-swap. Requests (`Submit`, `Poll`, `Classify`) hold the receipt they
loaded; a worker goes through the worker lock, the revision check, spawning,
prompt delivery, the binding turn of a START, the verification of the ledger's
evidence and the final write, each of which may fail. A restart of Bridge is
another instance. The hand, the operator and other writers of the vault are
external actions. `MaxOutside` is one shared budget for I/O faults, canonical
edits and operator decisions.

One behaviour is deliberately not claimed: a submit that re-arms a FAILED_SAFE
receipt while the finishing worker is still registered leaves it PENDING until
the next submit.

### IntentLedger and ControlLedger

`IntentLedger` is the promise: intents are never forgotten and receive at most
one disposition, which never changes. `ControlLedger` has the files: marker,
queue document, archived generations, disposition logs, heads and the anchor in
the queue. Append, decide and archive hold the writer lock and publish one file
per step; every publication may fail before or after it is visible, and the
process may die between any two. Recovery is part of the next decide or archive.
A hash is represented by the sequence of what it hashes, so equality of
revisions is equality of histories. `Implements` maps the files, through the
same reader the code uses, to `IntentLedger`.

Abstractions: identity binding of root and vault, byte limits, and a third
party moving a pinned directory (`PublishOutcome.UNKNOWN`) are left out. A
"committed" error raised while recovering may reach a decide caller whose own
decision was not recorded; `OutcomeHonest` therefore speaks only of outcomes of
the caller's own publications.

### ConnectorAuth

One OAuth connection with a bound account. `health` and `rev` stand for
`CONNECTIONS.md`; `rev` also moves when only a label changes. `ptr` and
`slots` are the token store. `Persist` is one audited write with its
compare-and-swap and its failures, `Enter` the lifecycle lock with the checks
that follow it; `Stage`, `Point`, `Drop` are the publication of a credential.
`remove` writes the revoked checkpoint outside the lock, deletes custody inside
it and forgets the record after it, exactly in that order. Credentials are
serial numbers; `verified`, `spent`, `lost` and `rejected` record what the
provider and the person know about them. Reauthorization is asked for when the
provider refuses a credential (`TokenRejected`) and also, without a refusal, when
the stored credential or the grant of its refresh lacks the permissions selected
(`TokenMisgranted`); `rejected` holds both kinds. `Declined` is a grant that
setup discards. The initial states are a connection
that does not exist yet, and a restored vault without custody.

Abstractions: bearer and opaque credentials, client secrets, export, the sets
of scopes behind "lacks the permissions" and the choice between connections are
left out; the store's own lock is
redundant under the lifecycle lock; a provider that keeps refresh tokens valid
is the easier case of one that rotates them; an operating-system crash that
loses unsynced writes is not modelled.

### UpdateTransaction

`apply` and `recover` of `update.py`. `dir` says what the active, previous and
failed environment paths hold (a revision, nothing, or an incomplete tree);
`gsv` and `seldRecover` are the two entry points, `txn` the receipt, `bridge`
the revision the live Bridge was started from, `app` the native app with its
ownership revision. `apply` and `recover` hold the update locks throughout, so
there is one updater, whose program counter stops wherever a death would leave
other durable state. The three finishing functions (`_finish_candidate`,
`_finish_restored`, `_finish_unchanged`) share the steps that protect the
vault, run setup, verify, reconcile the app and clean up; `loc.path` says which
one runs, and thereby where an exception goes: a candidate is rolled back, a
restored or unchanged runtime is left as `repair_required`. Failures, deaths and
the user's own installation of the app share the budget `MaxFaults`; `UserWrite`
runs whenever the updater does not hold the vault's writer lock.

Abstractions: `uv`, setup, doctor and backup are their outcomes and effects;
`backed_up` is passed through, as no reader tells it from `preflighting`; the
GitHub check, receipts of format version 1, a Bridge opened or stopped by the
user during the update, and a child that outlives the updater are left out.
A receipt write that fails where no handler covers it is a death.

### MessageStore, AppleMessages, WhatsApp, SourceState, SourceDelivery

`SourceDelivery` is `local_source_delivery.py`. A poll reads the store and keeps
the token of one bounded batch in the host checkpoint; an acknowledgement
publishes a receipt in `SOURCES.md`, writes its audit event, then moves the
checkpoint, with a commit marker between. Each durable write is a step that the
process may die before. `MessageStore` is the SQLite store (rows in order,
aggregates of a prefix, file identity and schema), `AppleMessages` and
`WhatsApp` are the reads over it as operators, including the exact refusal of
each; `SourceState` the operations on the ledger as functions of a snapshot.
Rows arrive, are edited and are deleted, the file is replaced, WhatsApp migrates
its schema in place, the account changes, and other writers move the revision
of `SOURCES.md`. Hash aggregates are represented by what they hash.

### Mailbox and ResidentSignals

`Mailbox` is the promise: signals are taken once per event key, never lost, and
acknowledged at most once. `ResidentSignals` has the files of
`resident_signals.py`: inputs, acknowledgements, archives, the ledger of settled
keys, and the marker of a compaction, whose stages recovery finishes or drops.
It starts empty or with the files format version 1 left. `Implements` maps live
and archived signals to `Mailbox`.

### PulseDelivery and PulseRuntime

Reports move once from undecided to decided to delivered by compare-and-swap;
`PulseDelivery` has these, the wake requests of the two loops, the integration receipts
written by Pulse turns and the curation daemon; `PulseRuntime` the source
windows, the relevance decision and the investigation. A window is named by its
contents (`Window(s, body)`): `_window_fingerprint` hashes items, completeness and
failure and leaves out cursor and coverage, so the same contents read twice are
one window with one report, and what is read anew before a commit is another.
There are three kinds of sources. A connector's checkpoint is a field of the
receipt and moves with it (`CommitReceipt`). Discord and `codex_activity`
("cursor") move theirs by a second durable write (`Acknowledge`). A local source
does too, replays a delivery nobody acknowledged, and binds it to one report by
its commit marker (`PrepareLocal`, `PublishLocal`). The task may stop, and its commit be
refused, between any two of these; `RecordFacts` is the runtime state that lets a
commit be replayed. The Codex child is external: it answers, fails, or is never
heard of. Lifetimes of leases and texts are left out.

### TaskHands and EntityGraph

Record operations hold the vault-wide lock and compare a revision, so one
operation is one action; a dispatch reads outside the lock and is two. The
transfer of a hand (release, then bind) and the merges of WorkThreads and
entities (target, then source) are two writes that a death may part, and the
retry is the same call. Text fields, priorities and history are left out; one
predicate and entity type stand for all. Chains of redirects are followed by recursive
functions (`Successors`, `Path`), so that theorems can speak of them; `Path` takes
`MaxRedirects` steps as `resolve_entity` does, and an entity whose record lies further away does
not resolve: whatever needs it is refused. The properties follow a chain however long
(`Heir`).

### UploadCustody and ConnectorCalls

`ConnectorCalls` is one process's calls against one connection: reads with sealed
cursors, safe mutations, and previews whose confirmation is presented later,
maybe twice. Connection, credential and target are re-read where the code
re-reads them. `UploadCustody` is the life of a file snapshot: registration,
reservation, copy, cache with pins, expiry timer, revocation in this or another
process, close. Time is a counter up to `MaxClock`; bytes are one unit per
snapshot.

### ProviderUploads and GuardedWrites

`ProviderUploads` follows one upload through Drive's resumable session, Gmail's
single request, Outlook's ranges and Slack's three requests. `GuardedWrites`
follows one change of a calendar event, calendar entry, file, mail or Discord
message from the client's read over classification, confirmation and preflight
to the request with its precondition. The providers are external: a request may
take effect although its answer is lost; they honour `If-Match`.

### The host: HostFaults and the modules that extend it

`HostFaults` has one budget of odd events (`MaxOdds`: failed commands, deaths,
interventions) and remembers whether somebody outside Seld interfered.

- `Scheduler`: the job loaded in launchd, its plist and its receipt change one
  after the other under an operation file; commands fail with or without effect.
- `CodexIntegration`: install, replacement, rollback, uninstall and repair of
  trees, registrations and the managed block. A tree is whole, part or changed.
  A stable receipt can become visible and fail to be confirmed durable; the code
  then rolls back from it, and `exposed` remembers which trees that rollback moved
  while the receipt was still there. That it moves any is the finding of
  `codex_receipt`; the other properties hold in such behaviours too and name the one
  tree that a death may then leave without a receipt (`NothingOrphaned`) and the one
  state uninstall then refuses (`UninstallNeverStuck`).
- `VaultBackup`: a copy taken while three kinds of writers run, and a restore
  into a directory somebody else may use. A domain is two files.
- `NativeBridge`: install, uninstall and status of the app, decided by the
  ownership receipt and finished or undone by the next holder of the lock.
- `BridgeServer`: processes, receipt and the commands over them, with process
  numbers that others reuse; the pages of a review and the answers they queue.
- `AppCorpus`: sync against refresh against policy over leaves, state and index,
  and a search that copies the state and goes on without the lock (`SearchFinds`).
  It says of the index only that it shows nothing withheld: a set of documents
  that changes and changes back during a refresh makes the old binding current
  over an index built for the other set, and the scoped search then misses
  documents until the set changes again. The exact search does not.
  `CorpusProviders`: Gmail, Drive, Google Calendar and Outlook mail, read page by
  page while objects arrive, change, move and disappear. `CorpusWhatsApp`: rows
  and rolling reviews of the wacli table.
- `ResidentImport`: staging, proof and publication of an import and the handoff of
  local cursors. `Recall`: the lexical index of the vault and its fingerprint.
  `DiscordSource`: the companion process and its deliveries.
- `GuidanceProjection`: three files and the intent that restores them.

Bytes, hashes and documents are editions or model values throughout.

## 4. Runs

| Run | Bounds | Shows |
|---|---|---|
| `vault_write` | 2 writers, 1 record, 2 operations, 2 edits, 1 death | outcomes are honest; unaudited Markdown is explained; an undisturbed journal replays the record; nothing unread is destroyed; the lock returns |
| `turn_transport` | 2 instances, 1 event, both modes, 2 attempts, 1 outside event, deaths | no prompt is delivered twice; a retryable receipt was never delivered; completion is evidenced; receipts only move forward |
| `turn_transport_live` | 2 instances, START, 1 attempt | every in-flight receipt is eventually settled |
| `connectors` | auth: 2 processes, 4 operations, 2 failures; calls: 2 calls, 2 confirmations, 1 grant, snapshots that live one tick of one, 1 edit by others; uploads of 0 to 2 units, 8 attempts, 2 without progress, 1 restart; writes: 2 changes by others | a confirmation executes once; snapshots and pages stay with their calls and grants; the provider was sent what was said and reviewed; removal is complete and the pointer resolves; ready is confirmed; a late rejection condemns no newer credential |
| `connector_auth_identity` (violation) | 2 processes, no failures | a token endpoint error during resume turns unverified into degraded, which the verified operations accept |
| `update` | 3 failures, deaths or interventions, 1 vault write, with and without Bridge and app | the replaced runtime survives and is startable until the candidate is proven; no Bridge loses its code; setup-written bytes are never accepted unapproved; a resolved transaction is clean; recovery ends |
| `update_entrypoint` (violation) | 3 failures | a rollback that dies with the candidate moved aside leaves no entry point |
| `delivery` | signals: 1 key, 2 envelopes, 2 consumers, 3 signals, a queue of 2, three starting states; sources: 2 rows, 2 files, 3 ledger revisions, 2 turns of the outside world, batches of 2 | nothing is skipped; a delivery has one receipt; the checkpoint is backed; the mailbox reopens and implements `Mailbox` |
| `pulse` | 1 source of any kind, whose reads are one content, empty or failed, 2 reports, 2 threads, 2 deliverers, 2 turns | Codex is asked at most once per report and thread; integrated is delivered; nothing is passed without its one report and a receipt that names it |
| `records` | ledger: 2 processes, 3 intents, 2 per generation, 2 generations, 2 failures; tasks: 2 tasks, 2 threads, 1 hand, 1 dispatch, 5 writes; entities: 3 entities, 2 roles, 1 task and 2 threads with links, 5 edits, chains up to and past a limit of 1 redirect | every crash state of the ledger reads back, outcomes are honest and the files implement `IntentLedger`; one live owner per hand and consistent records; merges keep every relationship and role |
| `codex_receipt` (violation) | 1 odd event, 2 versions | a stable receipt that is visible but not confirmed durable is rolled back from |
| `host` | 2 odd events and, per part: 2 plans; 2 versions, 4 tokens, 5 recovery records; 2 writes; 3 bundles; 2 objects, 3 changes; 2 documents, 2 revisions, 2 syncs; 2 exports, 2 stages; 3 processes, 2 roots, 2 review steps, 2 tabs; 2 notes; 3 posts, 2 bindings; 3 rows, 4 moments; 2 callers, 4 editions | one property per part, listed in section 1 |

Why the bounds suffice: each protocol serialises on one lock or one
compare-and-swap, so two actors already show every race between a holder and a
contender; the counts are the smallest at which one operation finds what
another, and a failure in between, left behind (a second operation after a
death, a retry after a failure, a second generation after an archive, a fourth
operation after connect, refresh and removal; a failed attempt, a failed
recovery of it and a death inside that; a merge, its death, an edit of the same
record and the retry; a listing, a change behind the page already read, and the
pass that must find it). The clock of the calls needs one tick: expiry is either
before or after each step. Each property has a mutant: a plausible slip in a
mapped definition under which the run must fail. Symmetry is used only for
interchangeable names (processes, calls, tokens, tasks, threads, entities,
events; `records` uses one set for processes and WorkThreads and one for intents and
entities, which the three parts never compare), and never with a liveness property.

The system may rest when its callers stop calling or its bounds are used up, so
the configurations switch the deadlock check off.

### Fairness

`LockReturned` assumes weak fairness of each writer's own steps: a process that
is neither dead nor blocked keeps running. `InFlightSettles` assumes weak
fairness of worker threads, of requests being served and of the browser's poll,
which Bridge's page repeats on a timer; no strong fairness is needed, and
nothing is assumed of people, edits, faults or deaths. `RecoveryCloses` assumes
weak fairness of the running updater and strong fairness of
`RecoverAsReported`: a user who is shown a recovery command again and again
eventually runs that command, with the approval it asks for. The property names
the three states from which token recovery cannot proceed alone: no entry point
is left (the finding); an incomplete candidate stands where the Bridge would
have to be stopped from, and the receipt's phase is `recovering`; the
candidate's native app was committed but its revision never recorded, because
recovery overwrote the phase that would have made the rollback adopt it. Each
of the three is reached; without any of them the property fails.

## 5. Proofs

### VaultWrite

`VaultProofs` proves for every set of writers and records and all bounds:
`TypeCorrect`, `HonestOutcomes`, `UnauditedExplained`, `NothingClobbered` and
`JournalTellsHistory`.
The assumptions are those of `VaultWriteConstants`: the model values are
distinct from files and numbers, and the bounds are naturals.

None of these is inductive alone. `Inv` conjoins

- `LockInv`: the lock is held exactly by the writer in its critical section;
- `OpInv`: operations are numbered apart and a running one is neither reported
  nor audited;
- `StageInv`: at each step, what the writer expects, holds in quarantine and
  publishes, and when its own file can be at the canonical path. This is what
  rules out that an undo restores bytes over a person's newer file;
- `HiddenInv`: no file of an operation reported as not committed, or not yet
  begun, can become visible;
- `AccountedInv`: every visible file belongs to a person or to an operation
  that is audited, running, degraded or crashed;
- `HonestInv`: reports agree with the journal.

The proof of `Inv /\ [Next]_vars => Inv'` has one lemma per action;
`NothingClobbered` then follows from `StageInv` at the two destroying steps.
`JournalTellsHistory` has an invariant of its own on top, `ReplayInv`: while nobody
edited, died or was told of degraded integrity, the file the last event left is at the
canonical path, or is the one the writer in the critical section validated, and
`Forth` and `Back` say where that writer has it at each step of the replacement and
of its undo.

### TurnTransport

`TurnTransportProofs` proves `TurnTypeCorrect`, `PromptedAtMostOnce`,
`SafeReceiptsUndelivered`, `CompletionProven` and the action property
`ReceiptsMonotone`, from `TurnConstants`: finite sets of instances and events, at
least one attempt, and model values that are neither receipts, requests nor
numbers. The inductive invariant `TurnInv` conjoins

- `OneActor`: over all instances, one worker at most acts for an event. It
  holds because a worker acts only after its own swap of a pending receipt to
  STARTING, and a receipt that somebody acts on is never pending or retryable;
- `HasReceipt`, `Holds`: the receipt a worker holds at each step, and the states
  the stored receipt may meanwhile have (another instance may have taken it
  for an orphan, which makes it `delivery_uncertain`, never retryable);
- `Prompted`: which prompts are written at each step of the worker;
- `Knows`: the hand a worker names was addressed, and it is the one that decided;
- `EventInv`: the three safety properties, with the hand of a receipt that nothing
  was delivered for.

`ReceiptsMonotone` needs the same invariant: the swaps that could overwrite a
settled receipt compare with the receipt the worker holds.

### ControlLedger

`ControlLedgerProofs` proves `LedgerTypeCorrect`, `StoreAlwaysReadable`,
`OutcomesHonest` and the refinement `LedgerImplementsPromise`, from
`LedgerConstants`: `None` is no process, document, head, log or decision, a
generation has room for an event, the other bounds are naturals. `LedgerInv`
conjoins

- `Readable`: the reader of the code accepts the store;
- `Untouched`: generations after the live one have no files. Without it a
  rotation could open a generation whose log already exists;
- `Brings`: a caller outside the lock brings an event of the queue it read;
- `Appending`, `Recovers`, `Deciding`, `Archiving`: what the holder of the lock
  has found and published before each of its steps. For instance, before a
  rotation the live document is in the archive, its head is clean and every event
  of it is decided, which is what the new lineage needs to be valid;
- `Honest`: what a finished mutation says.

Most actions change files of the live generation only; `LiveStep`, `HeadStep`
and `AnchorStep` show once that such a step keeps the store readable. For the
refinement `Distinct` is added: an archived document is of the generation its
ancestry gives it, and no event ID is in two generations. `NormalForm` turns the
mapping, which follows the archive as the reader does, into one by
generation number; `StepEffects` says that a step leaves the generations alone,
queues an intent, logs a decision or opens the next generation, and each of the four
is a step of `IntentLedger` or none. `NoAnswer` is where an event could be decided
twice: an earlier generation's log decides exactly its own events.

### Pulse

`PulseProofs` proves `PulseInvariant`, `AskedAtMostOnce` (`WakeOnce`) and
`PulseSaysTrue` (`PulseHonest`) for any sources, threads, results and callers of
`queue_wake`, from `PulseConstants` (the bounds are naturals, `None` is no
reference and no decision) and `ItemsAssumption` (`None` and "question" are no contents).
`PulseInv` conjoins

- `ReportInv`: reports are numbered without gaps and no two have the same event
  key; a window's report carries its source in its key, an answer's key is that of
  a question;
- `ReaderInv`: a source task that waits for its turn has found no report of its
  window, from its commit on it holds a durable one, and where it acknowledges a
  receipt names that report (`Reading`); the runtime state remembers reports that
  exist (`Remembered`); the marker of a local source belongs to its pending delivery
  (`Marked`); what the checkpoint has passed has receipt and report (`Passed`). The
  marker is why a delivery replayed after a death is acknowledged against
  the receipt recorded for it and no other;
- `QuestionInv`: what the investigator pursues is a report, and after "answer" the
  child it delivers exists;
- `WakeInv`: the requests of one thread cover disjoint reports (`OneRequest`), no two
  calls ask for the same request (`OneCaller`), and Codex has heard of a report only
  through a request nobody is about to ask for (`Heard`). `WakeOnce` needs all
  three: the count of a report can only go up by a call at "ask", whose request is
  the only one that covers it and has not been heard;
- `IntegrationInv`: a closed receipt is the delivery of its report (`Closed`), and a
  call of `integrate` at its later steps still finds its receipt.

`Grows` is what every step does to the reports: it adds some, or changes one
without a delivery and keeps its key. All parts but the one a step works on follow
from it (`ReaderKept`, `QuestionKept`, `IntegrationKept`). In `PulseSaysTrue` a passed
window has a report by `Passed`; a second would have the same key.

### ConnectorAuth

`ConnectorProofs` proves `CustodySound` (`AuthCustody`), `ReadyIsVerified`
(`ReadyVerified`) and the action properties `StepsSound` (`AuthSteps`) for any
processes and bounds, from `ConnectorAuthAssumption` alone: the holder of a free
lock is no process, and the bounds are naturals. `AuthInv` conjoins the type
invariant with, for the call of each process (`CallInv`),

- `Placed`, `Seen`: where an operation can be, and which health the file has while
  it is still at the revision the call read. The compare-and-swap makes `Seen` worth
  something: a write happens only when it speaks of today's file;
- `Underway`: a removal past its checkpoint finds the connection revoked or absent for
  ever; an import past `replace` finds that the restored health was replaced;
- `Holds`: what the holder of the lifecycle lock knows of pointer and slots at each
  step of a publication, and that a refresh in publication has consumed the
  credential that is still in custody;
- `Brings`, `New`: the credential of a grant or a refresh is issued, unspent and not in
  custody until it is published, and is verified wherever the health would say ready;
- `Used`: a late answer speaks of custody only while the token version is the
  one the call read,

and, over all processes, `PairInv` (two unpublished credentials differ), `SealedInv` (after the pointer
of a removed connection is gone nobody but removals is under the lock, so nothing
comes back), `SpentKept`, `FileInv` and `IssuedInv`. No part is inductive without the
others: that a published successor is unspent needs `New`, `New` needs that the
calls of others bring other credentials, and that needs `PairInv`.

`Effect` is what the step of one process may do to the rest; `OtherCall` shows once
that every other call survives it. The actions then fall into six kinds, with one lemma
each: calls that begin, that enter the lock, that write the file (`WriteStep`), that
spend or lose a credential (`RefreshStep`, `LossEnd`), that publish (`CustodyStep`) and that remove
(`WipeStep`). `StepsSound` follows from `AuthInv` at the writes: `Seen` says which health
they may write over, `Used` and `Brings` which credential a reported rejection or wrong grant is about.

### ConnectorCalls

`ConnectorProofs` proves `CallsInvariant`, `ConfirmedOnce` (`OnceConfirmed`) and
`CustodyIsKept` (`CustodyKept`) for any calls, tokens, capacities, lifetimes and bounds,
from `CallsConstants`: the lifetime is a natural and `None` is no token, number or
confirmation. `CallsInv` conjoins

- `Paths`: where a call of each kind can be, that a call bringing a new write has its
  token to itself, that one that confirms has a confirmation, and that one that owns
  or pins a snapshot has one;
- `Once`: a token that was executed, or that a call past `consume` may still execute,
  is spent for good (`SpentForGood`): its nonce is remembered, or it has expired. The
  second half is needed because the set of nonces forgets what has expired;
- `Kept`: what is reserved and not cached is owned by a call that is under way, a closed
  cache is empty, a revoked delivery stays cancelled, and every cached snapshot has a
  timer no later than its expiry. The code sets the timer to the earliest
  expiry; that there is one is `EarliestExists`, from the well-foundedness of the
  naturals;
- `Pages`: a cursor carries the connection and credential of the first page, and a
  call past `open_cursor` has compared them with its own.

`Wanes` is what the end of any call may do to a snapshot, and `Left` what it does to the
call: both are proved once (`LeftInv`), and every error path of every action cites them.
A call that goes on without touching custody is an `Advances` step (`AdvanceInv`), and
`SnapshotStep` one that also changes its own snapshot.

### ProviderUploads and GuardedWrites

`ConnectorProofs` proves `SentIsAsSaid` (`SentAsSaid`) of `MCSpec`, for any sizes that are
naturals (`UploadAssumption`) and any limits on attempts, progress and restarts. The
invariant of an upload says that the provider's session created everything there is
(`CreatedBySession`), where the adapter of each protocol can be (`UploadPaths`), what a
report or a failure says of the file (`UploadReports`), and that an incomplete session
has created nothing (`Incomplete`), which is why a restart cannot create a second file.
That of a write: what the client read is no newer than the item (`Versioned`), and what
was classified is what was confirmed and is sent (`Judged`). `SafeIsSafe` is the lemma on the
classification: an effect classified as safe reaches nobody else and takes nothing away.

### UpdateTransaction

`UpdateProofs` proves `UpdateIsSafe` (`UpdateSafe`) and `SetupIsSafe` (`SetupSafe`) for any number
of writes and faults (`UpdateAssumption`: both bounds are naturals). `UpdateInv` conjoins

- `Counted`: the vault's digest changes only with a write or a fault, and the
  receipt names a digest it has had;
- `Environments`: the revision being replaced is in one place, and what else the paths hold;
- `Receipted`: what the receipt says of the launcher, the outcome and a started Bridge;
- `Applying`, `RollingBack`, `Ending`: what the updater knows at each step of an
  application, of a rollback and of the three finishing functions.

An error path starts from any step of the path it ends, so what it establishes is
proved once: `ThrowInv` for an exception, `RepairInv` for a receipt left as
`repair_required`. Each action then has a lemma.

### ResidentSignals

`DeliveryProofs` proves `MailboxInvariant`, `AlwaysReopens` (`Reopens`) and the
refinement `KeepsMailbox` (`Implements`) for any keys, envelopes, consumers,
operation names, queue and history limits, from `Bounds` and `Absent`: keys,
envelopes and operation names are nonempty finite sets, because the code bounds their
length; the stores an installation may start with are the three the code can meet;
and the value for "no file" is no content, no stage and no marker. `RSInv` says

- without a marker (`Unmarked`): the files are `Whole`, that is, every validation
  accepts them, and every stage left can be dropped (`Residue`). `Whole` has one part
  the code does not check, that no live signal is archived as well: without it an
  unkeyed signal could be acknowledged a second time, by another consumer;
- with a marker (`Marked`): all stages are there, the files are `Between` the marker's
  prestate and its targets with the archives before the live files, and what the
  compaction leads to (`Finished`) is `Whole` and within the history limit;
- while a compaction is prepared (`Staged`): nothing of it is published, and
  what it leads to is `Whole`.

`WholeBuildable` is why recovery is never refused: the index of whole files can be built
with and without their ledger. A refusal remains only at a marker of version 1, which
section 6 lists and `Reopens` leaves out. For the refinement,
every step but `AppendSignals` and `Acknowledge` keeps what the mailbox holds (`SameHistory`):
`MarkedHistory` shows that a signal is in the live queue or in an archive, whatever part of a
compaction is published. `TakeIs` and `SettleIs` are the other two steps of `Mailbox`;
new identifiers lie beyond `LastId` (`NumberedIs`), and a key that is neither live nor in the
ledger is in no archive, because after reconciliation the ledger is there or nothing
is archived (`Reconciled`).

### Local sources

`DeliveryProofs` also proves `SourcesAreHonest` (`SourcesHonest`) from `SourcesSpec`: for
any store and handles, batch and body limits, dispositions, clock and bounds, for both kinds of
source. `DeliveryAssumption` asks that the bounds and the body sizes are naturals, that "gap" is
no disposition, that `Gone` is no row and that `Nothing` is no reset record. `SourcesInv` is

- what holds at every moment (`CoreInv`): a pending delivery was made from the checkpoint on
  disk, and its rows are rows somebody audits (`PendingOK`, `ReceiptsPlaced`); every row
  behind the checkpoint was delivered and acknowledged, or lies in a gap the source was told of
  (`NothingLeft`, `GapNoted`). The rows are covered by *earlier* deliveries, so the part
  that makes this inductive speaks of what the ledger holds and not of the delivery at hand;
  a marker is left only by an acknowledgement whose audit was written (`MarkerOK`), and the
  attempts without an audit have the marker's receipt (`Attempts`);
- what each operation knows at each of its steps (`Operating`, `Rebaselining`, `Acknowledging`).
  An acknowledgement changes ledger, audit and checkpoint one after another, so the
  last one says what the ledger is worth if it fails at this step and undoes its part.

That a batch leaves no row out below its last one (`BatchCovers`, `BatchesExist`) is an
induction over its rows. It is proved through the least counterexample, which needs no
induction theorem: a set of naturals that is not empty has a least member. The readers of both
stores are recursive functions for that reason.

### Host parts

`HostProofs` proves one theorem for each host part but `CodexIntegration`, each from the
specification of that part alone (`RecallSpec`, `DiscordSpec`, `SchedulerSpec`,
`GuidanceSpec`, `NativeSpec`, `WhatsAppCorpusSpec`, `CopiesSpec`, `BridgeSpec`, `ImportSpec`,
`CorpusSpec`); the constants need only that the model values for "nothing" (`Free`,
`NoReceipt`, `NoVault`, `Unset`, `Absent`, ...) are no plan, delivery, observation, edition,
bundle, receipt, export or page, that
a page of the WhatsApp reader has at least one row, that the bound on changes admits the
two messages an old checkpoint may already cover, and that the overlap of a calendar
pass is a natural.

- `IndexIsTrusted`: between the removal of the fingerprint and its renewal the
  refresh has indexed exactly what it read (`Indexing`).
- `NoMessageSkipped`: the companion's checkpoint moves only over a delivery the
  vault has a receipt for, also when the answer was lost and the poll is repeated
  (`CheckpointInv`).
- `JobIsAccountedFor`: at each step of install, rollback and uninstall, what of
  job, plist and receipt is already changed (`Progress`), and the plan the operation
  file names for what is left (`Named`); both only while nobody interfered.
- `ProjectionIsWhole`: one caller holds the lock (`OneHolder`); what the intent
  saved, or the files when there is none, agrees (`ChangeKept`); and each
  step of a caller knows which files it has written (`Publishing`, `PuttingBack`).
- `AppIsRecoverable`: while nobody interferes, the two receipts say where the prior
  app, the candidate and the quarantined app are (`Situated`), and each step of the
  command that holds the lock knows more (`Stands`). From the first follows
  that recovery never refuses: its decision table has an entry for every situation
  a death can leave. A removal holds the identity a receipt names, and no receipt names
  a foreign bundle, so the second half needs no assumption about interference.
- `SettledHistoryIsRead`: every row up to the one a pass has come to (`Reach`) whose
  last change is no later than the beginning of that pass (`ArrivedSince`) is in the corpus as
  it is (`CoversRead`). A row that takes over a number is a later change; a page is a
  prefix of what is left of the table (`PageIs`), so its end says how far it covers.
- `CopiesAreHonest`: the backup takes its locks in one order and a writer changes two
  files only under the lock of its domain (`LocksTogether`, `BetweenFiles`, `Locked`), so what
  was read so far is what the files hold while the locks are held (`ReadAsHeld`). For a
  restore: a second one never begins beside the first (`OneRestore`), and what
  somebody else put at the target stays there or at the prior name (`KeptThere`).
- `BridgeIsHonest`: a receipt names a process that has served (`ReceiptsNamed`), a command has
  read a receipt before the steps that use one (`CommandPlaced`), and a stop that drops one
  knows that its process does not serve (`StopJudged`); a page knows no more of the queue than
  there is (`PagesBehind`), and while the queue is as a validated request knows it nobody has
  answered its question (`StillOpen`). `BridgeSpec` interleaves processes and requests, which
  the run explores apart.
- `HandoffIsHonest`: an import under way stages what was inspected and publishes only what it found
  whole (`Staging`); the host adopted what its checkpoint says, and what the call at
  work saw adopted (`Adopted`).
- `CorpusIsComplete`: for the corpus, who holds the state lock and what it has read
  of the state (`StateLocked`), that a leaf the state names is there, or is written by the sync
  at work (`LeavesKept`), and what a search has copied (`Copied`). For its sources, an
  object that is gone for good never returns to the account (`GoneStays`); the saved
  checkpoint or continuation vouches for every change up to some number, with
  exception of the objects its next pages will bring (`Sound`); and a call in progress
  would vouch for as much with what it has read so far (`CallOK`). `PageTrue`, `PageLists` and
  `PageChanges` say what one page of a provider is worth. `CorpusSpec`
  interleaves corpus and sources, which share only the fault budget and which the
  run explores apart.

A proof also settles what a definition means: where the arms of a `CASE` overlapped
(`Item`, which now has one operator per provider, `ReadOf`, `MigrationState`, `EventUpdateEffect`) TLC had taken the first, and no
fact about the choice could be proved. They are now written with disjoint
conditions, in the order in which the code tests them.

### Tasks, WorkThreads and entities

`VaultProofs` also proves `HandsAreHonest` and `GraphIsHonest`, each from the specification of its
own module. Both need that the vault holds finitely many records. `HandsAssumption` further says that
"nothing" is no record. `GraphAssumption` asks nothing of `MaxRedirects` but that it is a natural:
the promise about records and merges is proved for chains of every length (`Far` steps reach the
end of any), and chains past the limit are refused, never cut short. One thing is not claimed past the limit: that
a WorkThread names an entity in one role only, for its two names of it no longer resolve alike.

That chains end is no invariant over single records. `Ordered` says that the redirects can be
ranked upwards; a new redirect to a record that leads nowhere, or none of whose successors is
the source, leaves them so (`OrderedJoin`). From ranks below the number of records follows that
a walk of that many steps has come to the end (`RankBelow`, `WalkEnds`). What a walk does is
again shown by a least counterexample (`WalkIn`, `WalkStays`, `WalkJoin`).

- `HandsAreHonest`: beside its four parts, `HandsInv` says that redirects are ordered
  (`RedirectsOrdered`), and that a dispatch which finds the revision it has read finds the record
  it has read (`ReadsHold`), for no write takes a revision twice (`RevisionsBounded`). That is why a
  claim checked on the old read is still there when the dispatch writes.
- `GraphIsHonest`: `ToldHeld` says of every entity that its record holds what was told of it and
  of each source whose exact version it absorbed (`SpeaksFor`), so also between the two writes of a
  merge; a source that is edited after the first write is no longer spoken for, and the retry
  refuses it (`SameSource`). Absorptions travel on: who absorbed a record as it is has what that
  record absorbed (`PassedOn`), and versions never come back (`VersionsCounted`).

### Only model-checked

Liveness (`LockReturned`, `InFlightSettles`, `RecoveryCloses`): outside the
prover's reach, as is everything about enabledness. `CodexAccountedFor` is not
yet proved: its inductive invariant has to tell the rollbacks of one integration apart,
since the receipt of a later one names nothing of an earlier. Every inductive invariant above was first checked by TLC on the
bounds of its run, that of the entities also with four of them. The type invariants of `TaskHands`,
`EntityGraph` and `UpdateTransaction` are conjuncts of `HandsHonest`, `GraphHonest` and `UpdateSafe`.

## 6. Where code and documents disagree

Three disagreements have a run: `connector_auth_identity`, `update_entrypoint` and
`codex_receipt`.
The others were met while reading and modelling; the models follow the code.

Documented otherwise:

- A canonical file is moved to quarantine and its replacement published
  afterwards (`atomic.py:1222`), so a reader may find it missing;
  `docs/architecture.md:301-302` speaks of an atomic replacement.
- An append after a torn line joins the fragment (`atomic.py:847`) and its own
  event is unreadable, against `docs/data-format.md:233-238`.
- A superseded entity that is still linked makes every update of the linking
  tasks and WorkThreads fail (`vault.py:4380`, `4425`).
- A refresh under a narrowed policy unlinks corpus leaves (`app_corpus.py:686`)
  that `app_corpus.py:1578` says are "intentionally left in place".
- `vault_backup.py:114` promises to exclude every independently locked writer;
  Pulse's report writers are not excluded (113-122). `BackupCoherent` therefore
  speaks of the vault and the signals only.
- A version 1 compaction whose recovery dies after writing the upgraded ledger
  is refused later; `Reopens` names the case.
- `update_task` may take a hand from a claimed task that is not doing
  (`vault.py:4454`, docstring 4838).

Left open by the models' properties:

- Records: a merge retried after a death may leave an entity related to itself
  (`vault.py:1553-1566`, 1352); chains of more than 16 merges stop resolving
  (`vault.py:1190`).
- Pulse: `list_pending` returns the oldest and may starve later reports
  (`pulse_runtime.py:727-731`); wake requests are never pruned and end at 1000
  (`pulse_delivery.py:583`); curation may take an entry whose integration is only
  prepared (428-437).
- Connectors: a clock that steps back after a nonce was pruned admits it again
  (`connector_session.py:301-307`); a revocation in another process does not stop
  a snapshot already prepared (`local_files.py:224`); Drive lifecycle changes and
  Gmail label and filter deletions carry no version
  (`connector_adapter_google.py:2030-2107`, 1090-1142); Discord rebuilds the
  attachment list from an earlier read (`connector_adapter_collaboration.py:1033-1105`).
- Host: `bootout` by label stops a foreign job (`scheduler.py:346`, 807); a
  crashed canary leaves its job and plist (505-600); `AGENTS.md` is written
  without a compare (`codex_integration.py:2252-2266`); a native rollback leaves
  its directory after a death (`bridge_launcher.py:2087-2113`); discarding a
  damaged Bridge receipt can remove one just written (`bridge.py:1230`, 1445-1459);
  `write_document` does not look for an interrupted projection, whose recovery
  takes its `MIND.md` back (`vault.py:2536-2574`).
- Corpus and recall: after a failed refresh the binding can be current while the
  index is of another snapshot (`app_corpus.py:1085-1127`); deletions behind an
  expired Gmail history are never reconciled (`app_corpus_providers.py:451`); a
  calendar pass longer than the overlap loses updates (199-216), which
  `NothingMissed` excludes by `slow`; a reused WhatsApp row number is seen only by
  the next rolling review (`app_corpus_whatsapp.py:1104-1124`).
- Import: a handoff that needs a new proof after its store was reset can never be
  adopted (`local_source_delivery.py:404-412`).

## 7. Not modelled

- Operation catalogs, contracts and request building: tables and conversions of
  data without state of their own.
- Record schemas, rendering, context selection, privacy screening, review sheets:
  pure functions of text, out of reach of a small model without transliteration.
- Mail attachment encoding, and the Slack, Notion and Outlook calendar corpus
  readers: their protocols repeat the modelled ones; they are next in the plan.
- Slack tasks and channel access: bounded reads and a policy file, which is an
  input of `AppCorpus`.
- The Codex process of Pulse: a child that answers or does not.
- CLI, MCP server, loopback OAuth, operating-system bindings: argument parsing
  and framing over the modelled operations.
- Within the modelled parts: what section 3 names as left out, and an
  operating-system crash that loses writes already visible but not yet synced.
