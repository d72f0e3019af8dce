---------------------------- MODULE ControlLedger ----------------------------
(***************************************************************************)
(* ControlQueue and OperationLedger: the append-only intent queue of the
   Bridge, its archived generations, and the disposition log of each
   generation with its cryptographic head.  A mutation holds the vault-
   wide writer lock and publishes several files one after the other; a
   process may die between any two of them, and each publication may fail
   before it is visible or after it.  The next mutation recovers.

   A SHA-256 revision is represented by what it is the hash of: the
   revision of a head by the sequence of logs its ancestry hashes, that of
   a queue document by the sequence of generations it descends from.  The
   empty sequence stands for an absent revision. *)
(***************************************************************************)
EXTENDS Naturals, Sequences, FiniteSets, Functions, TLC

CONSTANTS
  Procs,        \* Bridge, MCP and CLI processes
  Events,       \* event IDs (fresh UUIDs)
  Decisions,    \* accepted, rejected
  None,         \* a missing file, no value
  MaxEvents,    \* MAX_EVENTS of one generation
  MaxGeneration,\* MAX_GENERATIONS
  MaxFailures   \* bound: process deaths and failing publications

VARIABLES
  marker,       \* .gsv/control/initialized
  queue,        \* .gsv/control/queue.jsonl
  archive,      \* .gsv/control/archive/queue-<generation>-<revision>.jsonl
  log,          \* log[g]: dispositions-<g>.jsonl
  head,         \* head[g]: dispositions-<g>.head.jsonl
  lock,         \* holder of the vault-wide writer lock
  op,           \* op[p]: the operation process p runs
  failures

store == <<marker, queue, archive, log, head>>
vars  == <<store, lock, op, failures>>

Generations  == 0 .. MaxGeneration
Dispositions == [event : Events, decision : Decisions]
Logs         == Seq(Dispositions)
Kinds        == {"append", "decide", "archive"}
Steps        == {"idle", "enter", "queue", "marker", "recover", "prepare", "publish",
                 "finalize", "bind", "archive", "rotate", "end"}
Outcomes     == {"none", "ok", "unchanged", "conflict", "committed", "degraded"}
Writes       == {"ok", "visible", "unpublished"}

Bodies       == [anchor : Seq(Logs), events : Seq(Events)]
Revisions    == Seq(Bodies)
Docs         == [gen : Generations, prev : Revisions, anchor : Seq(Logs), events : Seq(Events)]
Settled      == [state : {"initialized"}, log : Logs, prev : Seq(Logs)]
Prepared     == [state : {"preparing"}, before : Logs, after : Logs, parent : Seq(Logs),
                 prev : Seq(Logs), proposed : Seq(Logs)]
Operations   == [kind : Kinds, pc : Steps, queue : Docs \cup {None}, log : Logs,
                 event : Events \cup {None}, decision : Decisions \cup {None},
                 unsure : BOOLEAN, rotated : BOOLEAN, outcome : Outcomes]

ASSUME LedgerConstants ==
  /\ MaxEvents \in Nat \ {0} /\ MaxGeneration \in Nat /\ MaxFailures \in Nat
  /\ None \notin Procs \cup Decisions \cup Docs \cup Settled \cup Prepared \cup Logs
  /\ None \notin {"preparing", "initialized"}

-----------------------------------------------------------------------------
(* Documents and their revisions *)

\* _encode_queue: generation header and events.
Doc(gen, prev, anchor, events) ==
  [gen |-> gen, prev |-> prev, anchor |-> anchor, events |-> events]
Revision(doc) == Append(doc.prev, [anchor |-> doc.anchor, events |-> doc.events])

\* _initialized_disposition_head, _preparing_disposition_head.
Initialized(L, prev) == [state |-> "initialized", log |-> L, prev |-> prev]
HeadRevision(h) == Append(h.prev, h.log)
Preparing(h, after) ==
  [state |-> "preparing", before |-> h.log, after |-> after, parent |-> h.prev,
   prev |-> HeadRevision(h), proposed |-> Append(HeadRevision(h), after)]

Content(g) == IF log[g] = None THEN << >> ELSE log[g]
Decided(L) == {L[i].event : i \in DOMAIN L}

-----------------------------------------------------------------------------
(* Reading *)

\* _parse_disposition_head: the ancestry a stored head must have.
HeadValid(h) ==
  IF h.state = "initialized"
  THEN (h.log = << >>) = (h.prev = << >>)
  ELSE /\ Len(h.after) = Len(h.before) + 1
       /\ (h.before = << >>) = (h.parent = << >>)
       /\ h.prev = Append(h.parent, h.before)
       /\ h.proposed = Append(h.prev, h.after)

\* _parse_dispositions and _link_dispositions: one disposition per event of its own
\* generation.
Linked(L, events) ==
  /\ Decided(L) \subseteq Range(events)
  /\ Cardinality(Decided(L)) = Len(L)

\* _validate_lineage: a generation that ended at this revision is archived, and not empty.
ArchivedQueue(g, gone, revision) ==
  /\ \E a \in archive : a.gen = g /\ Revision(a) = revision
  /\ gone.events # << >>

\* _read_archived_dispositions: the anchor names a settled head, and the head its log.
ArchivedLog(g, anchor) ==
  /\ anchor # << >>
  /\ head[g] # None /\ head[g].state = "initialized"
  /\ HeadValid(head[g]) /\ HeadRevision(head[g]) = anchor /\ head[g].log = Content(g)

\* _read_archived_generations: every generation the queue descends from is archived,
\* closed, and dispositioned by the log its anchor names.
LineageValid(doc) ==
  /\ doc.gen = Len(doc.prev)
  /\ \A i \in 1 .. doc.gen :
       LET gone == doc.prev[i]
           L    == head[i - 1].log
       IN /\ ArchivedQueue(i - 1, gone, SubSeq(doc.prev, 1, i))
          /\ ArchivedLog(i - 1, gone.anchor)
          /\ Linked(L, gone.events) /\ Decided(L) = Range(gone.events)

\* _view_current_dispositions: the states a mutation, or its death, may leave.
ViewValid(doc) ==
  LET h == head[doc.gen]
      L == Content(doc.gen)
  IN
  /\ h # None => HeadValid(h)
  /\ IF doc.anchor = << >>
     THEN /\ log[doc.gen] = None
          /\ h # None => h = Initialized(<< >>, << >>)
     ELSE /\ h # None
          /\ IF h.state = "initialized"
             THEN L = h.log /\ (HeadRevision(h) = doc.anchor \/ h.prev = doc.anchor)
             ELSE /\ h.prev = doc.anchor
                  /\ \/ L = h.before /\ Append(h.parent, L) = doc.anchor
                     \/ L = h.after /\ Append(doc.anchor, L) = h.proposed
  /\ Linked(L, doc.events)

\* _snapshot_with_store raises nothing.
Readable ==
  IF queue = None
  THEN marker # "initialized" /\ log[0] = None /\ head[0] = None
  ELSE LineageValid(queue) /\ ViewValid(queue)

Generation == IF queue = None THEN 0 ELSE queue.gen
View       == Content(Generation)

-----------------------------------------------------------------------------
Idle == [kind |-> "append", pc |-> "idle", queue |-> None, log |-> << >>, event |-> None,
         decision |-> None, unsure |-> FALSE, rotated |-> FALSE, outcome |-> "none"]

Init ==
  /\ marker = None /\ queue = None /\ archive = {}
  /\ log = [g \in Generations |-> None]
  /\ head = [g \in Generations |-> None]
  /\ lock = None /\ op = [p \in Procs |-> Idle] /\ failures = 0

At(p, step) == op[p].pc = step
Goto(p, step) == op' = [op EXCEPT ![p].pc = step]
Finish(p, outcome) == op' = [op EXCEPT ![p].pc = "end", ![p].outcome = outcome]

\* One compare_and_swap_regular_file of the lock holder: it succeeds, fails before it is
\* visible, or is visible without confirmed durability.
Write(w) ==
  IF w = "ok" THEN UNCHANGED failures
              ELSE failures < MaxFailures /\ failures' = failures + 1

\* What follows a write: the next step, or the error the operation ends with.
Then(p, w, next, unpublished, visible) ==
  CASE w = "ok"          -> Goto(p, next)
    [] w = "unpublished" -> Finish(p, unpublished)
    [] w = "visible"     -> Finish(p, visible)

\* Event IDs in use.
Known == (IF queue = None THEN {} ELSE Range(queue.events))
           \cup UNION {Range(a.events) : a \in archive}

\* A client reads the operations (snapshot holds the root lock) and starts a mutation
\* against the revisions it saw.
Begin(p, kind, e, d) ==
  /\ At(p, "idle") /\ lock = None /\ Readable
  /\ kind = "append" => Known # Events
  /\ kind = "decide" => queue # None /\ e \in Range(queue.events) \ Decided(View)
  /\ kind = "archive" => queue # None /\ queue.events # << >>
  /\ op' = [op EXCEPT ![p] = [Idle EXCEPT !.kind = kind, !.pc = "enter", !.queue = queue,
                                          !.log = View, !.event = e, !.decision = d]]
  /\ UNCHANGED <<store, lock, failures>>

\* Mutant: only the queue revision is compared.
FreshQueueOnly(p) == queue = op[p].queue

\* The revisions the caller saw are current; an event to decide has no disposition yet,
\* a queue to archive has no pending event.
Fresh(p) ==
  /\ queue = op[p].queue
  /\ op[p].kind # "append" => View = op[p].log
  /\ op[p].kind = "decide" => op[p].event \notin Decided(View)
  /\ op[p].kind = "archive" => Decided(View) = Range(queue.events)

\* locked_control_store, the full-lineage validation, and the revision checks.
Enter(p) ==
  /\ At(p, "enter") /\ lock = None
  /\ lock' = p
  /\ IF ~Readable THEN Finish(p, "unchanged")
     ELSE IF ~Fresh(p) THEN Finish(p, "conflict")
     ELSE Goto(p, IF op[p].kind = "append" THEN "queue" ELSE "recover")
  /\ UNCHANGED <<store, failures>>

-----------------------------------------------------------------------------
(* append *)

\* _write_preparing_marker: before the first queue document; visible is good enough.
PrepareMarker(p, w) ==
  /\ At(p, "queue") /\ queue = None /\ marker = None
  /\ Write(w)
  /\ marker' = IF w = "unpublished" THEN marker ELSE "preparing"
  /\ IF w = "unpublished" THEN Finish(p, "unchanged") ELSE UNCHANGED op
  /\ UNCHANGED <<queue, archive, log, head, lock>>

\* MAX_EVENTS, MAX_QUEUE_BYTES.
Full(doc) == Len(doc.events) >= MaxEvents

\* What an append goes on to do, or says, after it wrote the queue document.
Appended(o, e, w) ==
  [o EXCEPT !.event = e,
            !.pc = IF w = "ok" /\ marker # "initialized" THEN "marker" ELSE "end",
            !.outcome = CASE w = "unpublished" -> "unchanged"
                          [] w = "visible" -> "committed"
                          [] w = "ok" -> IF marker = "initialized" THEN "ok" ELSE @]

\* The queue document is replaced by one with the event at its end.
AppendQueue(p, e, w) ==
  LET doc == IF queue = None THEN Doc(0, << >>, << >>, << >>) ELSE queue IN
  /\ At(p, "queue") /\ (queue # None \/ marker # None)
  /\ e \in Events \ Known
  /\ ~Full(doc)
  /\ Write(w)
  /\ queue' = IF w = "unpublished" THEN queue
              ELSE Doc(doc.gen, doc.prev, doc.anchor, Append(doc.events, e))
  /\ op' = [op EXCEPT ![p] = Appended(@, e, w)]
  /\ UNCHANGED <<marker, archive, log, head, lock>>

QueueFull(p) ==
  /\ At(p, "queue") /\ queue # None /\ Full(queue)
  /\ Finish(p, "unchanged")
  /\ UNCHANGED <<store, lock, failures>>

\* _finalize_marker: the mutation is committed whatever happens here.
FinalizeMarker(p, w) ==
  /\ At(p, "marker")
  /\ Write(w)
  /\ marker' = IF w = "unpublished" THEN marker ELSE "initialized"
  /\ IF w # "ok" THEN Finish(p, "committed")
     ELSE IF op[p].kind = "append" THEN Finish(p, "ok")
     ELSE Goto(p, "recover")
  /\ UNCHANGED <<queue, archive, log, head, lock>>

-----------------------------------------------------------------------------
(* Recovery: what a death or a failure left is completed or taken back *)

\* An error of the recovery: after a rotation the archive is committed already.
Recovering(p, w) ==
  Then(p, w, "recover", IF op[p].rotated THEN "committed" ELSE "unchanged", "committed")

\* Mutant: a completed preparation is restored to its parent's ancestry.
RecoveredKeepsParent(h, L, anchor) ==
  IF h = None THEN Initialized(<< >>, << >>) ELSE Initialized(L, h.parent)

\* The head that replaces a missing or a prepared one.
Recovered(h, L, anchor) ==
  IF h = None THEN Initialized(<< >>, << >>)
  ELSE IF L = h.before THEN Initialized(L, h.parent)
  ELSE Initialized(L, anchor)

\* _recover_current_dispositions: publish the recovered head.
RecoverHead(p, w) ==
  LET g == queue.gen IN
  /\ At(p, "recover")
  /\ head[g] # None => head[g].state = "preparing"
  /\ Write(w)
  /\ head' = IF w = "unpublished" THEN head
             ELSE [head EXCEPT ![g] = Recovered(head[g], Content(g), queue.anchor)]
  /\ Recovering(p, w)
  /\ UNCHANGED <<marker, queue, archive, log, lock>>

Clean == /\ head[queue.gen] # None /\ head[queue.gen].state = "initialized"
         /\ HeadRevision(head[queue.gen]) = queue.anchor

\* _bind_current_head: the queue document anchors the current head.
Anchored == [queue EXCEPT !.anchor = HeadRevision(head[queue.gen])]

RecoverBind(p, w) ==
  /\ At(p, "recover")
  /\ head[queue.gen] # None /\ head[queue.gen].state = "initialized" /\ ~Clean
  /\ Write(w)
  /\ queue' = IF w = "unpublished" THEN queue ELSE Anchored
  /\ Recovering(p, w)
  /\ UNCHANGED <<marker, archive, log, head, lock>>

RecoverDone(p) ==
  /\ At(p, "recover") /\ Clean
  /\ IF op[p].rotated THEN Finish(p, "ok")
     ELSE Goto(p, IF op[p].kind = "decide" THEN "prepare" ELSE "archive")
  /\ UNCHANGED <<store, lock, failures>>

-----------------------------------------------------------------------------
(* decide: _write_dispositions *)

\* The log with the disposition at its end.
Disposed(p) ==
  Append(Content(queue.gen), [event |-> op[p].event, decision |-> op[p].decision])

\* The head announces the one append it is about to see; visible is good enough.
Prepare(p, w) ==
  LET g == queue.gen IN
  /\ At(p, "prepare")
  /\ Write(w)
  /\ head' = IF w = "unpublished" THEN head
             ELSE [head EXCEPT ![g] = Preparing(head[g], Disposed(p))]
  /\ IF w = "unpublished" THEN Finish(p, "unchanged") ELSE Goto(p, "publish")
  /\ UNCHANGED <<marker, queue, archive, log, lock>>

Publish(p, w) ==
  /\ At(p, "publish")
  /\ Write(w)
  /\ log' = IF w = "unpublished" THEN log
            ELSE [log EXCEPT ![queue.gen] = head[queue.gen].after]
  /\ IF w = "unpublished" THEN Finish(p, "unchanged")
     ELSE op' = [op EXCEPT ![p].pc = "finalize", ![p].unsure = (w = "visible")]
  /\ UNCHANGED <<marker, queue, archive, head, lock>>

\* _finalize_disposition_head.
Finalize(p, w) ==
  LET g == queue.gen IN
  /\ At(p, "finalize")
  /\ Write(w)
  /\ head' = IF w = "unpublished" THEN head
             ELSE [head EXCEPT ![g] = Initialized(@.after, @.prev)]
  /\ Then(p, w, "bind", "degraded", "committed")
  /\ UNCHANGED <<marker, queue, archive, log, lock>>

\* Mutant: a head that could not be anchored is reported as nothing having happened.
BindUnchanged(p, w) ==
  /\ At(p, "bind")
  /\ Write(w)
  /\ queue' = IF w = "unpublished" THEN queue ELSE Anchored
  /\ IF w = "ok" THEN Finish(p, IF op[p].unsure THEN "committed" ELSE "ok")
     ELSE Finish(p, IF w = "visible" THEN "committed" ELSE "unchanged")
  /\ UNCHANGED <<marker, archive, log, head, lock>>

Bind(p, w) ==
  /\ At(p, "bind")
  /\ Write(w)
  /\ queue' = IF w = "unpublished" THEN queue ELSE Anchored
  /\ IF w = "ok" THEN Finish(p, IF op[p].unsure THEN "committed" ELSE "ok")
     ELSE Finish(p, IF w = "visible" THEN "committed" ELSE "degraded")
  /\ UNCHANGED <<marker, archive, log, head, lock>>

-----------------------------------------------------------------------------
(* archive_closed: _rotate_closed_in_bound_store *)

ArchiveLimit(p) ==
  /\ At(p, "archive") /\ queue.gen >= MaxGeneration
  /\ Finish(p, "unchanged")
  /\ UNCHANGED <<store, lock, failures>>

\* The exact copy may be there already from a rotation that died.
ArchiveCopy(p, w) ==
  /\ At(p, "archive") /\ queue.gen < MaxGeneration
  /\ queue \in archive => w = "ok"
  /\ Write(w)
  /\ archive' = IF w = "unpublished" THEN archive ELSE archive \cup {queue}
  /\ Then(p, w, "rotate", "unchanged", "committed")
  /\ UNCHANGED <<marker, queue, log, head, lock>>

AfterRotation(o, w) ==
  [o EXCEPT !.rotated = (w = "ok"),
            !.pc = IF w # "ok" THEN "end"
                   ELSE IF marker = "initialized" THEN "recover" ELSE "marker",
            !.outcome = CASE w = "ok" -> @
                          [] w = "visible" -> "committed"
                          [] w = "unpublished" -> "unchanged"]

\* The successor generation is empty and names its predecessor's revision.
Rotate(p, w) ==
  /\ At(p, "rotate")
  /\ Write(w)
  /\ queue' = IF w = "unpublished" THEN queue
              ELSE Doc(queue.gen + 1, Revision(queue), << >>, << >>)
  /\ op' = [op EXCEPT ![p] = AfterRotation(@, w)]
  /\ UNCHANGED <<marker, archive, log, head, lock>>

-----------------------------------------------------------------------------
\* The result reaches the caller and the lock is released.
End(p) ==
  /\ At(p, "end")
  /\ lock' = None
  /\ op' = [op EXCEPT ![p] = Idle]
  /\ UNCHANGED <<store, failures>>

\* The process dies; the operating system releases its lock.
Die(p) ==
  /\ ~At(p, "idle") /\ failures < MaxFailures
  /\ failures' = failures + 1
  /\ lock' = IF lock = p THEN None ELSE lock
  /\ op' = [op EXCEPT ![p] = Idle]
  /\ UNCHANGED store

Mutation(p, w) ==
  \/ PrepareMarker(p, w) \/ \E e \in Events : AppendQueue(p, e, w)
  \/ FinalizeMarker(p, w) \/ RecoverHead(p, w) \/ RecoverBind(p, w)
  \/ Prepare(p, w) \/ Publish(p, w) \/ Finalize(p, w) \/ Bind(p, w)
  \/ ArchiveCopy(p, w) \/ Rotate(p, w)

Next ==
  \E p \in Procs :
    \/ Begin(p, "append", None, None) \/ Begin(p, "archive", None, None)
    \/ \E e \in Events, d \in Decisions : Begin(p, "decide", e, d)
    \/ Enter(p) \/ QueueFull(p) \/ RecoverDone(p) \/ ArchiveLimit(p)
    \/ \E w \in Writes : Mutation(p, w)
    \/ End(p) \/ Die(p)

Spec == Init /\ [][Next]_vars

-----------------------------------------------------------------------------
(* Properties *)

\* Every file holds a document of its kind, within the bounds of its parser, and only a
\* process that holds the writer lock is past its entry.
TypeOK ==
  /\ marker \in {None, "preparing", "initialized"}
  /\ queue \in Docs \cup {None} /\ (queue # None => Len(queue.events) <= MaxEvents)
  /\ archive \subseteq Docs
  /\ log \in [Generations -> Logs \cup {None}]
  /\ head \in [Generations -> Settled \cup Prepared \cup {None}]
  /\ lock \in Procs \cup {None}
  /\ op \in [Procs -> Operations]
  /\ \A p \in Procs : op[p].pc \notin {"idle", "enter"} => lock = p
  /\ failures \in 0 .. MaxFailures

\* Whatever step a mutation died or failed at, the store reads back: the queue, its whole
\* lineage, the archived logs and the current log against its head and its anchor.
StoreReadable == Readable

\* What a finished mutation tells its caller is so: a success and a degraded disposition
\* are in the store, an error that claims nothing happened left the logical state alone.
OutcomeHonest ==
  \A p \in Procs :
    At(p, "end") =>
      /\ op[p].outcome = "ok" =>
           CASE op[p].kind = "append"  -> op[p].event \in Range(queue.events)
             [] op[p].kind = "decide"  -> op[p].event \in Decided(View)
             [] op[p].kind = "archive" -> /\ queue.gen = op[p].queue.gen + 1
                                          /\ queue.events = << >>
      /\ op[p].outcome = "degraded" => op[p].event \in Decided(View)
      /\ op[p].outcome = "unchanged" =>
           /\ op[p].kind # "append" => View = op[p].log
           /\ queue # op[p].queue =>
                queue.gen = op[p].queue.gen /\ queue.events = op[p].queue.events

\* The intents and the decisions a reader finds: the live generation and those it
\* descends from.
Lineage == IF queue = None THEN {}
           ELSE {a \in archive : \E i \in 1 .. queue.gen :
                                   Revision(a) = SubSeq(queue.prev, 1, i)} \cup {queue}
Intents == UNION {Range(doc.events) : doc \in Lineage}
DispositionOf == [e \in Events |->
  UNION {{x.decision : x \in {y \in Range(Content(doc.gen)) : y.event = e}} : doc \in Lineage}]

Abstract == INSTANCE IntentLedger WITH intents <- Intents, disposition <- DispositionOf

\* The files implement the promise: through deaths, failing writes, recovery and archival
\* no intent and no decision that was visible is ever lost, and none is decided twice.
Implements == Abstract!Spec

\* Processes and events are interchangeable.
Symmetry == Permutations(Procs) \cup Permutations(Events)
=============================================================================
