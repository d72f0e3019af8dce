--------------------------- MODULE ResidentSignals ---------------------------
(* The resident mailbox (resident_signals.py): the live queue, its
   acknowledgements and the settled-key ledger, and their compaction into
   archives through staged files and a marker.  Every operation runs under one
   lock and first recovers what a dead process left.  A step is one durable
   write; Die may fall between any two.  Files hold sets: a signal's place in
   the queue is the order of its identifier, a digest is the content.        *)
EXTENDS Naturals, FiniteSets, FiniteSetsExt

CONSTANTS Keys, Envelopes, Consumers,
          Unkeyed,           \* a signal without an event key
          None,              \* an absent file
          Tokens,            \* names of compaction operations
          Retain,            \* values of retain_recent callers pass
          MaxBatch,          \* requests of one append
          MaxSignals,        \* bound: signals ever appended
          QueueBound,        \* signals MAX_SIGNAL_QUEUE_BYTES has room for
          MaxHistoryFiles,   \* MAX_SIGNAL_HISTORY_FILES
          StartFrom          \* the stores an installation starts with

\* What a file of the mailbox holds, and a directory of staged files.
Signals == [id : 1..MaxSignals, key : Keys \cup {Unkeyed}, env : Envelopes]
Acks == [id : 1..MaxSignals, consumer : Consumers]
Contents == (SUBSET Signals) \cup (SUBSET Acks)
Names == {"archIn", "archAck", "inputs", "acks", "settled"}
Markers(names, before) ==
    [token : Tokens, version : {1, 2}, digests : [names -> Contents],
     expected : [before -> Contents \cup {None}]]

\* Keys, envelopes and operation names have a bounded length.
ASSUME Bounds == /\ MaxSignals \in Nat \ {0, 1} /\ MaxBatch \in Nat /\ QueueBound \in Nat
                 /\ MaxHistoryFiles \in Nat /\ Tokens \subseteq Nat /\ Retain \subseteq Nat
                 /\ StartFrom \subseteq {"empty", "v1_archived", "v1_prepared"}
                 /\ \A S \in {Keys, Envelopes, Consumers, Tokens} : IsFiniteSet(S) /\ S # {}

\* No file, no stages and no marker are distinct from any there can be.
ASSUME Absent == /\ \A S \in Contents : S # None
                 /\ \A names \in SUBSET Names : None \notin [names -> Contents]
                 /\ \A names, before \in SUBSET Names : None \notin Markers(names, before)

VARIABLES files,    \* inputs, acks, settled ledger, and the archives by token
          stages,   \* operations/<token>: None or the staged files by name
          marker,   \* compaction.json or None
          pc, txn,  \* the lock holder's step and its call
          view,     \* the revision a caller of list last saw
          outcome   \* how the last transaction ended

vars == <<files, stages, marker, pc, txn, view, outcome>>

Requests == [key : Keys \cup {Unkeyed}, env : Envelopes]
NoCall == [op |-> "none"]

Signal(i, r) == [id |-> i, key |-> r.key, env |-> r.env]
IdsOf(S) == {x.id : x \in S}
Archived == UNION {files.archIn[t] : t \in {u \in Tokens : files.archIn[u] # None}}
ArchivedAcks == UNION {files.archAck[t] : t \in {u \in Tokens : files.archAck[u] # None}}

-----------------------------------------------------------------------------
(* The settled-key ledger *)

\* _merge_settled_event_keys: one entry for each archived signal with a key.
KeyEntries(S) == {[key |-> s.key, env |-> s.env, id |-> s.id] :
                    s \in {x \in S : x.key # Unkeyed}}

\* _validate_live_settled_separation
Separate(live, settled) ==
    \A s \in live, e \in settled : s.key = Unkeyed \/ s.key # e.key

\* _validate_global_signal_history
UniqueHistory(S, A) ==
    /\ \A s, t \in S : s # t => s.id # t.id /\ (s.key = Unkeyed \/ s.key # t.key)
    /\ \A a, b \in A : a.id = b.id => a = b
    /\ IdsOf(A) \subseteq IdsOf(S)

\* build_settled_event_index over live files, a set of archive pairs, and the
\* ledger found beside them (None when there is none).
IndexBuildable(live, acks, pairs, supplied) ==
    LET moved == UNION {p.inputs : p \in {q \in pairs : q.inputs # None}}
        movedAcks == UNION {p.acks : p \in {q \in pairs : q.acks # None}}
    IN  /\ IdsOf(acks) \subseteq IdsOf(live)
        /\ \A p \in pairs : p.inputs # None /\ p.acks # None
        /\ \A p \in pairs : IdsOf(p.inputs) = IdsOf(p.acks)
        /\ Separate(live, KeyEntries(moved))
        /\ UniqueHistory(live \cup moved, acks \cup movedAcks)
        /\ supplied = None \/ supplied = KeyEntries(moved)

\* _read_archive_history_files
Pairs == {[inputs |-> files.archIn[t], acks |-> files.archAck[t]] :
            t \in {u \in Tokens : files.archIn[u] # None \/ files.archAck[u] # None}}

ArchiveCount == Cardinality({t \in Tokens : files.archIn[t] # None})
                + Cardinality({t \in Tokens : files.archAck[t] # None})

\* _require_archive_capacity for the pair of token t
Capacity(t) == ArchiveCount + (IF files.archIn[t] = None THEN 1 ELSE 0)
               + (IF files.archAck[t] = None THEN 1 ELSE 0) <= MaxHistoryFiles

-----------------------------------------------------------------------------
Done(o) == pc' = "idle" /\ txn' = NoCall /\ outcome' = o
Step(p) == pc' = p /\ UNCHANGED <<txn, outcome>>

\* _transaction and _read_state_with_archive: take the lock, recover first.
Begin(call) == /\ pc = "idle"
               /\ pc' = "recover" /\ txn' = call /\ outcome' = "none"
               /\ UNCHANGED <<files, stages, marker, view>>

\* Mutant: the live queue is published before the archives.
LiveFirst(version) ==
    IF version = 1
    THEN <<"inputs", "acks", "archIn", "archAck">>
    ELSE <<"inputs", "acks", "settled", "archIn", "archAck">>

\* The names of the staged files, in the order their targets are published.
Order(version) ==
    IF version = 1
    THEN <<"archIn", "archAck", "inputs", "acks">>
    ELSE <<"archIn", "archAck", "settled", "inputs", "acks">>
First(order, names) == order[Min({i \in DOMAIN order : order[i] \in names})]
NamesOf(version) == {Order(version)[i] : i \in DOMAIN Order(version)}

Target(n, t) == CASE n = "archIn"  -> files.archIn[t]
                  [] n = "archAck" -> files.archAck[t]
                  [] n = "inputs"  -> files.inputs
                  [] n = "acks"    -> files.acks
                  [] n = "settled" -> files.settled

Written(n, t, c) == CASE n = "archIn"  -> [files EXCEPT !.archIn[t] = c]
                      [] n = "archAck" -> [files EXCEPT !.archAck[t] = c]
                      [] n = "inputs"  -> [files EXCEPT !.inputs = c]
                      [] n = "acks"    -> [files EXCEPT !.acks = c]
                      [] n = "settled" -> [files EXCEPT !.settled = c]

\* The archives of every token but the marker's, and the staged pair.
OtherPairs(t) == {[inputs |-> files.archIn[u], acks |-> files.archAck[u]] :
                    u \in {v \in Tokens \ {t} : files.archIn[v] # None \/ files.archAck[v] # None}}
StagedPair == {[inputs |-> marker.digests["archIn"], acks |-> marker.digests["archAck"]]}

\* _recover_compaction up to its first publication: every stage is still the
\* one the marker names, the archives have room, the result is coherent.
Recoverable ==
    LET t == marker.token  d == marker.digests  names == NamesOf(marker.version)
    IN  /\ stages[t] # None /\ names \subseteq DOMAIN stages[t]
        /\ \A n \in names : stages[t][n] = d[n]
        /\ \A n \in {"archIn", "archAck"} : Target(n, t) \in {None, d[n]}
        /\ Capacity(t)
        /\ IndexBuildable(d["inputs"], d["acks"], OtherPairs(t) \cup StagedPair,
                          IF marker.version = 1 THEN None ELSE d["settled"])

Recover == /\ pc = "recover"
           /\ IF marker = None THEN Step("reconcile")
              ELSE IF ~Recoverable THEN Done("refused")
              ELSE Step(IF marker.version = 1 THEN "upgrade" ELSE "publish")
           /\ UNCHANGED <<files, stages, marker, view>>

\* _upgrade_legacy_compaction_index: the ledger of a version 1 compaction is
\* written before its live inputs are removed.
UpgradeIndex ==
    LET t == marker.token  d == marker.digests
        current == /\ files.inputs \in {marker.expected["inputs"], d["inputs"]}
                   /\ files.acks \in {marker.expected["acks"], d["acks"]}
        prior == IndexBuildable(d["inputs"], d["acks"], OtherPairs(t), files.settled)
        canonical == KeyEntries(d["archIn"] \cup UNION {p.inputs : p \in OtherPairs(t)})
    IN  /\ pc = "upgrade"
        /\ IF current /\ prior
           THEN files' = [files EXCEPT !.settled = canonical] /\ Step("publish")
           ELSE Done("refused") /\ UNCHANGED files
        /\ UNCHANGED <<stages, marker, view>>

\* _recover_compaction: the first target that differs from its stage is
\* replaced; an archive may only be new, the others only the marker's prestate.
Pending == {i \in DOMAIN Order(marker.version) :
              LET n == Order(marker.version)[i]
              IN  Target(n, marker.token) # marker.digests[n]}
Publish ==
    LET i == Min(Pending)  n == Order(marker.version)[i]  t == marker.token
        prior == IF n \in {"archIn", "archAck"} THEN None ELSE marker.expected[n]
    IN  /\ pc = "publish" /\ Pending # {}
        /\ IF Target(n, t) = prior
           THEN files' = Written(n, t, stages[t][n]) /\ Step("publish")
           ELSE Done("refused") /\ UNCHANGED files
        /\ UNCHANGED <<stages, marker, view>>

\* Mutant: the marker is unlinked before the last target is published.
UnlinkMarkerEarly ==
    /\ pc = "publish" /\ Cardinality(Pending) <= 1
    /\ txn' = [txn EXCEPT !.token = marker.token]
    /\ marker' = None /\ pc' = "unstage"
    /\ UNCHANGED <<files, stages, view, outcome>>

UnlinkMarker == /\ pc = "publish" /\ Pending = {}
                /\ txn' = [txn EXCEPT !.token = marker.token]
                /\ marker' = None /\ pc' = "unstage"
                /\ UNCHANGED <<files, stages, view, outcome>>

\* ... and the stages go one by one, then their directory.
UnlinkStage == /\ pc = "unstage"
               /\ IF DOMAIN stages[txn.token] # {}
                  THEN /\ LET n == First(Order(2), DOMAIN stages[txn.token])
                          IN  stages' = [stages EXCEPT ![txn.token] =
                                          [m \in DOMAIN @ \ {n} |-> @[m]]]
                       /\ Step("unstage")
                  ELSE /\ stages' = [stages EXCEPT ![txn.token] = None]
                       /\ IF txn.op = "compacted" THEN Done("ok") ELSE Step("reconcile")
               /\ UNCHANGED <<files, marker, view>>

\* _reconcile_archive_index: the ledger is derived from the archives when it
\* is missing, and compared with them when a compaction may be unfinished.
Reconcile ==
    LET quick == /\ files.settled # None /\ txn.op # "compact"
                 /\ \A t \in Tokens : stages[t] = None
        empty == files.settled = None /\ Pairs = {}
    IN  /\ pc = "reconcile"
        /\ IF quick \/ empty THEN UNCHANGED files /\ Step("cleanup")
           ELSE IF ~IndexBuildable(files.inputs, files.acks, Pairs, files.settled)
           THEN UNCHANGED files /\ Done("refused")
           ELSE files' = [files EXCEPT !.settled = KeyEntries(Archived)] /\ Step("cleanup")
        /\ UNCHANGED <<stages, marker, view>>

\* _cleanup_committed_compaction_residue: a markerless operation is dropped
\* when nothing of it was published, or when what it staged is canonical.
Residue(t) ==
    LET canonical(n) == Target(n, t)
    IN  \/ files.archIn[t] = None /\ files.archAck[t] = None
        \/ /\ files.archIn[t] # None /\ files.archAck[t] # None
           /\ \A n \in DOMAIN stages[t] : stages[t][n] = canonical(n)

CleanupResidue ==
    /\ pc = "cleanup"
    /\ \/ /\ \A t \in Tokens : stages[t] = None
          /\ Step("ready") /\ UNCHANGED stages
       \/ \E t \in Tokens :
            /\ stages[t] # None
            /\ \/ /\ ~Residue(t) /\ Done("refused") /\ UNCHANGED stages
               \/ /\ Residue(t) /\ DOMAIN stages[t] # {}
                  /\ \E n \in DOMAIN stages[t] :
                        stages' = [stages EXCEPT ![t] = [m \in DOMAIN @ \ {n} |-> @[m]]]
                  /\ Step("cleanup")
               \/ /\ Residue(t) /\ DOMAIN stages[t] = {}
                  /\ stages' = [stages EXCEPT ![t] = None] /\ Step("cleanup")
    /\ UNCHANGED <<files, marker, view>>

-----------------------------------------------------------------------------
(* The operations *)

Ready(op) == pc = "ready" /\ txn.op = op

\* coherent_snapshot, list, get, status, existing_event_keys: validated reads.
Coherent == /\ IdsOf(files.acks) \subseteq IdsOf(files.inputs)
            /\ files.settled = None \/ Separate(files.inputs, files.settled)

List == /\ Ready("list")
        /\ IF Coherent THEN view' = <<files.inputs, files.acks>> /\ Done("ok")
                       ELSE UNCHANGED view /\ Done("refused")
        /\ UNCHANGED <<files, stages, marker>>

LastId == Max(IdsOf(files.inputs \cup Archived) \cup {0})
Numbered(S) == LET f == CHOOSE g \in [1..Cardinality(S) -> S] : \A x \in S : \E i \in DOMAIN g : g[i] = x
               IN  {Signal(LastId + i, f[i]) : i \in 1..Cardinality(S)}

\* A request whose key is already in the queue or in the ledger.
Known(r) == /\ r.key # Unkeyed
            /\ \/ \E s \in files.inputs : s.key = r.key
               \/ files.settled # None /\ \E e \in files.settled : e.key = r.key
Differs(r, reqs) == /\ r.key # Unkeyed
                    /\ \/ \E s \in files.inputs : s.key = r.key /\ s.env # r.env
                       \/ files.settled # None /\ \E e \in files.settled : e.key = r.key /\ e.env # r.env
                       \/ \E q \in reqs : q.key = r.key /\ q.env # r.env

\* append_many_results: known keys answer with the signal they have, others
\* are added in one replacement of the queue; one conflict refuses the group.
AppendSignals ==
    LET reqs == txn.arg
        new == Numbered({r \in reqs : ~Known(r)})
    IN  /\ Ready("append")
        /\ IF ~Coherent THEN Done("refused") /\ UNCHANGED files
           ELSE IF \E r \in reqs : Differs(r, reqs) THEN Done("conflict") /\ UNCHANGED files
           ELSE IF Cardinality(files.inputs \cup new) > QueueBound
           THEN Done("full") /\ UNCHANGED files
           ELSE files' = [files EXCEPT !.inputs = @ \cup new] /\ Done("ok")
        /\ UNCHANGED <<stages, marker, view>>

\* acknowledge: compare-and-swap on the queue the caller listed.
Acknowledge ==
    LET ids == txn.arg.ids  c == txn.arg.consumer
        previous(i) == {a \in files.acks : a.id = i}
        new == {[id |-> i, consumer |-> c] : i \in {j \in ids : previous(j) = {}}}
    IN  /\ Ready("acknowledge")
        /\ IF view # <<files.inputs, files.acks>> THEN Done("conflict") /\ UNCHANGED files
           ELSE IF ~Coherent THEN Done("refused") /\ UNCHANGED files
           ELSE IF ~(ids \subseteq IdsOf(files.inputs)) THEN Done("missing") /\ UNCHANGED files
           ELSE IF \E i \in ids : \E a \in previous(i) : a.consumer # c
           THEN Done("conflict") /\ UNCHANGED files
           ELSE files' = [files EXCEPT !.acks = @ \cup new] /\ Done("ok")
        /\ UNCHANGED <<stages, marker, view>>

\* compact: acknowledged signals older than the most recent retain_recent.
Older(retain) == {s \in files.inputs :
                    Cardinality({x \in files.inputs : x.id > s.id}) >= retain}
PlanCompaction ==
    LET moved == {s \in Older(txn.arg) : s.id \in IdsOf(files.acks)}
        movedAcks == {a \in files.acks : a.id \in IdsOf(moved)}
        before == IF files.settled = None THEN {} ELSE files.settled
        free == {t \in Tokens : stages[t] = None /\ files.archIn[t] = None /\ files.archAck[t] = None}
    IN  /\ Ready("compact")
        /\ IF ~Coherent THEN Done("refused") /\ UNCHANGED stages
           ELSE IF moved = {} THEN Done("ok") /\ UNCHANGED stages
           ELSE IF free = {} \/ ArchiveCount + 2 > MaxHistoryFiles
           THEN Done("full") /\ UNCHANGED stages
           ELSE LET t == Min(free) IN
                /\ stages' = [stages EXCEPT ![t] = [n \in {} |-> None]]
                /\ txn' = [op |-> "compacted", token |-> t,
                           arg |-> [archIn |-> moved, archAck |-> movedAcks,
                                    settled |-> before \cup KeyEntries(moved),
                                    inputs |-> files.inputs \ moved,
                                    acks |-> files.acks \ movedAcks]]
                /\ pc' = "stage" /\ UNCHANGED outcome
        /\ UNCHANGED <<files, marker, view>>

\* ... the five stages are written one by one ...
StageOrder == <<"archAck", "archIn", "acks", "inputs", "settled">>
WriteStage == /\ pc = "stage" /\ DOMAIN stages[txn.token] # NamesOf(2)
              /\ LET t == txn.token  n == First(StageOrder, NamesOf(2) \ DOMAIN stages[t])
                 IN stages' = [stages EXCEPT ![t] =
                                [m \in DOMAIN @ \cup {n} |-> txn.arg[m]]]
              /\ UNCHANGED <<files, marker, pc, txn, view, outcome>>

\* ... the marker commits the compaction, which then recovers itself.
WriteMarker == /\ pc = "stage" /\ DOMAIN stages[txn.token] = NamesOf(2)
               /\ marker' = [token |-> txn.token, version |-> 2, digests |-> txn.arg,
                             expected |-> [inputs |-> files.inputs, acks |-> files.acks,
                                           settled |-> files.settled]]
               /\ Step("recover")
               /\ UNCHANGED <<files, stages, view>>

\* The lock holder dies, or a write of its fails.
Die == /\ pc \notin {"idle", "ready"}
       /\ Done("died")
       /\ UNCHANGED <<files, stages, marker, view>>

-----------------------------------------------------------------------------
(* Callers *)

Call(op, arg) == Begin([op |-> op, arg |-> arg, token |-> None])
CallList == Call("list", None)
CallAppend == \E reqs \in kSubset(1, Requests) \cup kSubset(MaxBatch, Requests) :
                 /\ LastId + Cardinality(reqs) <= MaxSignals
                 /\ Call("append", reqs)
CallAcknowledge == /\ view # None
                   /\ \E c \in Consumers, ids \in SUBSET IdsOf(view[1]) :
                        /\ ids # {}
                        /\ Call("acknowledge", [ids |-> ids, consumer |-> c])
CallCompact == \E r \in Retain : Call("compact", r)

\* What an installation may hold when this version first opens its mailbox:
\* nothing, a version 1 archive without a ledger, or a version 1 compaction
\* that died after its marker.
Start(kind) ==
    LET k == CHOOSE x \in Keys : TRUE  e == CHOOSE x \in Envelopes : TRUE
        c == CHOOSE x \in Consumers : TRUE  t == Min(Tokens)
        old == [id |-> 1, key |-> k, env |-> e]  new == [id |-> 2, key |-> Unkeyed, env |-> e]
        ack == [id |-> 1, consumer |-> c]
        none == [u \in Tokens |-> None]
        prepared == [archIn |-> {old}, archAck |-> {ack}, inputs |-> {new}, acks |-> {}]
    IN  CASE kind = "empty" ->
               /\ files = [inputs |-> {}, acks |-> {}, settled |-> None, archIn |-> none, archAck |-> none]
               /\ stages = none /\ marker = None
          [] kind = "v1_archived" ->
               /\ files = [inputs |-> {new}, acks |-> {}, settled |-> None,
                           archIn |-> [none EXCEPT ![t] = {old}], archAck |-> [none EXCEPT ![t] = {ack}]]
               /\ stages = none /\ marker = None
          [] kind = "v1_prepared" ->
               /\ files = [inputs |-> {old, new}, acks |-> {ack}, settled |-> None,
                           archIn |-> none, archAck |-> none]
               /\ stages = [none EXCEPT ![t] = prepared]
               /\ marker = [token |-> t, version |-> 1, digests |-> prepared,
                            expected |-> [inputs |-> {old, new}, acks |-> {ack}]]

Init == /\ \E kind \in StartFrom : Start(kind)
        /\ pc = "idle" /\ txn = NoCall /\ view = None /\ outcome = "none"

Next == \/ CallList \/ CallAppend \/ CallAcknowledge \/ CallCompact
        \/ Recover \/ UpgradeIndex \/ Publish \/ UnlinkMarker \/ UnlinkStage
        \/ Reconcile \/ CleanupResidue
        \/ List \/ AppendSignals \/ Acknowledge \/ PlanCompaction \/ WriteStage \/ WriteMarker
        \/ Die

Spec == Init /\ [][Next]_vars

-----------------------------------------------------------------------------
(* Properties *)

Box == INSTANCE Mailbox WITH taken <- files.inputs \cup Archived,
                             settled <- files.acks \cup ArchivedAcks

\* Whatever process dies between two durable writes of a compaction, its
\* recovery or its cleanup, the next transaction finishes or drops the
\* compaction and opens the mailbox: no validation of a later call refuses
\* it.  A prepared compaction of format version 1 is left out: its ledger is
\* written before its archives, and the validation in between refuses it.
Reopens == outcome = "refused" => marker # None /\ marker.version = 1

\* Through append, acknowledgement, compaction, death and recovery a signal
\* is kept exactly once, an event key is never taken twice and an
\* acknowledgement is never lost: every step is a step of Mailbox or none.
Implements == [][Box!Next]_<<files.inputs \cup Archived, files.acks \cup ArchivedAcks>>

=============================================================================
