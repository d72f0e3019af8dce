--------------------------- MODULE PulseRuntime ---------------------------
(* The Pulse monitor (pulse_runtime.py, pulse_sources.py): one process holds
   the watch lease and runs, interleaved at their awaits, a task per source, a
   relevance judge, an investigator and two callers of queue_wake.  What was
   read of a source is reported durably before its checkpoint moves past it.
   The checkpoint of a connector is a field of the receipt the vault records;
   a local source, Discord and codex_activity keep theirs elsewhere, and it
   moves by a second durable write.                                          *)
EXTENDS PulseDelivery, TLC

CONSTANTS Items,             \* contents a bounded read may return
          Batch              \* limit of one relevance or investigation list

VARIABLES kind,        \* source -> where its checkpoint is kept
          pending,     \* local source -> contents of its unacknowledged poll
          receipts,    \* source -> contents and report of each receipt recorded
          passed,      \* source -> contents its checkpoint moved past
          marker,      \* local source -> reference its commit marker names
          facts,       \* source -> window and report of its runtime state
          reader,      \* source task in progress
          judge,       \* the relevance task: the frozen batch, revisions and all
          investigator

sourceVars == <<kind, pending, receipts, passed, marker, facts, reader>>
runtimeVars == <<sourceVars, judge, investigator>>
vars == <<reports, deliveryVars, runtimeVars>>
Kinds == {"connector", "local", "cursor"}

\* AcquiredSourceWindow.result: items, an explicit emptiness or a failure.
Bodies == Items \cup {"empty", "failure"}
ASSUME ItemsAssumption == None \notin Bodies /\ "question" \notin Bodies

\* _window_fingerprint, report_event_key: the contents name the report, with
\* neither the cursor nor the coverage; the same contents read twice are one.
Window(s, body) == [from |-> s, body |-> body]

-----------------------------------------------------------------------------
(* process_source *)

\* LocalSourceDelivery.poll replays the delivery nobody acknowledged.
Polls(s, body) == kind[s] = "local" /\ body # "failure"
Replayed(s, body) == (Polls(s, body) /\ pending[s] # None) => body = pending[s]

\* adapter.acquire: what is there now, or a failure of the read.  When the runtime
\* state or the report store knows the window, its commit is replayed.  The first
\* contents and the retry of what no checkpoint has passed are no outside events.
Acquire(s) ==
    /\ reader[s] = Idle
    /\ \E body \in Bodies :
         LET w == Window(s, body)
             known == IF facts[s] # None /\ facts[s].window = w THEN {facts[s].report} ELSE WithKey(w)
             i == CHOOSE j \in known : TRUE
         IN  /\ Replayed(s, body)
             /\ pending' = IF Polls(s, body) THEN [pending EXCEPT ![s] = body] ELSE pending
             /\ reader' = [reader EXCEPT ![s] =
                  IF known = {} THEN [at |-> "turn", window |-> w]
                  ELSE [at |-> "commit", window |-> w, report |-> i, revision |-> Revision(reports[i])]]
             /\ IF body \in passed[s] \cup {"failure"} \/ (known = {} /\ ReportIds # {}) THEN Turn ELSE UNCHANGED turns
    /\ UNCHANGED <<reports, binding, wakes, asked, deliverer, integrations, integrator, curator,
                   kind, receipts, passed, marker, facts, judge, investigator>>

\* session.turn, for items, and reports.append; a turn that fails leaves the
\* window.
ReportWindow(s) ==
    LET w == reader[s].window IN
    /\ reader[s].at = "turn"
    /\ \/ /\ AppendReport(w, s, FALSE)
          /\ reader' = [reader EXCEPT ![s] =
               [at |-> "commit", window |-> w, report |-> Cardinality(ReportIds) + 1, revision |-> 0]]
       \/ /\ w.body \in Items /\ UNCHANGED reports
          /\ reader' = [reader EXCEPT ![s] = Idle]
    /\ UNCHANGED <<deliveryVars, kind, pending, receipts, passed, marker, facts, judge, investigator>>

\* commit and _validate_report: the report must still be at the revision read.
Attested(s) == Revision(reports[reader[s].report]) = reader[s].revision
Failed(s) == reader[s].window.body = "failure"
Leave(s) == reader' = [reader EXCEPT ![s] = Idle]
Reach(s, at) == reader' = [reader EXCEPT ![s].at = at]
Record(s) == receipts' = [receipts EXCEPT ![s] = @ \cup
                            {[body |-> reader[s].window.body, report |-> reader[s].report]}]
MovePast(s) == passed' = [passed EXCEPT ![s] = @ \cup {reader[s].window.body}]

\* The report moved on, or the source did (_current_source_lease).
CommitRefused(s) ==
    /\ reader[s].at = "commit"
    /\ IF Attested(s) THEN Turn ELSE UNCHANGED turns
    /\ Leave(s)
    /\ UNCHANGED <<reports, binding, wakes, asked, deliverer, integrations, integrator, curator,
                   kind, pending, receipts, passed, marker, facts, judge, investigator>>

\* _commit_source_receipt: one compare-and-swap of the source ledger, which
\* holds a connector's cursor.
CommitReceipt(s) ==
    /\ reader[s].at = "commit" /\ Attested(s) /\ ~Polls(s, reader[s].window.body)
    /\ Record(s)
    /\ IF kind[s] = "connector" /\ ~Failed(s) THEN MovePast(s) ELSE UNCHANGED passed
    /\ Reach(s, IF kind[s] = "cursor" /\ ~Failed(s) THEN "ack" ELSE "facts")
    /\ UNCHANGED <<reports, deliveryVars, kind, pending, marker, facts, judge, investigator>>

\* _commit_local: the marker binds the delivery to this reference for good; a
\* receipt recorded under it is found again.
PrepareLocal(s) ==
    LET ref == [of |-> reader[s].report, at |-> reader[s].revision] IN
    /\ reader[s].at = "commit" /\ Attested(s) /\ Polls(s, reader[s].window.body)
    /\ \/ /\ marker[s] = None
          /\ marker' = [marker EXCEPT ![s] = [ref |-> ref, recorded |-> FALSE]]
          /\ Reach(s, "publish")
       \/ /\ marker[s] # None /\ marker[s].ref = ref
          /\ Reach(s, IF marker[s].recorded THEN "ack" ELSE "publish") /\ UNCHANGED marker
       \/ /\ marker[s] # None /\ marker[s].ref # ref
          /\ Leave(s) /\ UNCHANGED marker
    /\ UNCHANGED <<reports, deliveryVars, kind, pending, receipts, passed, facts, judge, investigator>>

\* The receipt is published with its audit event, or the vault refuses it.
PublishLocal(s) ==
    /\ reader[s].at = "publish"
    /\ \/ /\ Record(s) /\ marker' = [marker EXCEPT ![s].recorded = TRUE]
          /\ Reach(s, "ack") /\ UNCHANGED turns
       \/ /\ Leave(s) /\ Turn /\ UNCHANGED <<receipts, marker>>
    /\ UNCHANGED <<reports, binding, wakes, asked, deliverer, integrations, integrator, curator,
                   kind, pending, passed, facts, judge, investigator>>

\* The second write: complete_checkpoint, the companion's or the session
\* cursor.  It may fail; the next poll reads the same again.
Acknowledge(s) ==
    /\ reader[s].at = "ack"
    /\ \/ /\ MovePast(s) /\ Reach(s, "facts") /\ UNCHANGED turns
          /\ IF kind[s] = "local"
             THEN pending' = [pending EXCEPT ![s] = None] /\ marker' = [marker EXCEPT ![s] = None]
             ELSE UNCHANGED <<pending, marker>>
       \/ /\ Leave(s) /\ Turn /\ UNCHANGED <<passed, pending, marker>>
    /\ UNCHANGED <<reports, binding, wakes, asked, deliverer, integrations, integrator, curator,
                   kind, receipts, facts, judge, investigator>>

RecordFacts(s) ==
    /\ reader[s].at = "facts"
    /\ facts' = [facts EXCEPT ![s] = [window |-> reader[s].window, report |-> reader[s].report]]
    /\ Leave(s)
    /\ UNCHANGED <<reports, deliveryVars, kind, pending, receipts, passed, marker, judge, investigator>>

-----------------------------------------------------------------------------
(* judge_pending, investigate_pending *)

\* One relevance turn over a frozen batch.
JudgeBatch ==
    /\ judge = {} /\ investigator = Idle /\ Undecided # {}
    /\ judge' = Oldest(Undecided, Batch)
    /\ UNCHANGED <<reports, deliveryVars, sourceVars, investigator>>

\* ... its decisions, one write each; the first conflict drops the rest.
DecideReport ==
    LET i == CHOOSE j \in judge : \A k \in judge : j <= k IN
    /\ judge # {}
    /\ IF MayDecide(i, 0)
       THEN /\ \E d \in Decisions : reports' = Decided(i, d)
            /\ judge' = judge \ {i}
       ELSE judge' = {} /\ UNCHANGED reports
    /\ UNCHANGED <<deliveryVars, sourceVars, investigator>>

ChildKey(i) == [from |-> i, body |-> "question"]

\* investigate_pending: a report that is itself an answer is not pursued.
Investigate ==
    /\ investigator = Idle /\ judge = {}
    /\ \E i \in Oldest(Awaiting("investigate"), Batch) :
         /\ ~reports[i].causal
         /\ investigator' = [at |-> "answer", report |-> i, revision |-> Revision(reports[i])]
    /\ UNCHANGED <<reports, deliveryVars, sourceVars, judge>>

\* The source agent's answer becomes a report, once.
AnswerQuestion ==
    LET i == investigator.report  key == ChildKey(i) IN
    /\ investigator.at = "answer"
    /\ IF WithKey(key) = {} THEN AppendReport(key, reports[i].src, TRUE) ELSE UNCHANGED reports
    /\ investigator' = [investigator EXCEPT !.at = "deliver"]
    /\ UNCHANGED <<deliveryVars, sourceVars, judge>>

DeliverAnswer ==
    LET i == investigator.report  child == CHOOSE j \in WithKey(ChildKey(i)) : TRUE IN
    /\ investigator.at = "deliver"
    /\ IF MayDeliver(i, investigator.revision, ReportRef(child))
       THEN reports' = Delivered(i, ReportRef(child)) ELSE UNCHANGED reports
    /\ investigator' = Idle
    /\ UNCHANGED <<deliveryVars, sourceVars, judge>>

-----------------------------------------------------------------------------
\* run: the lease holder dies or is stopped, and another process takes over
\* with the durable state only.
MonitorDies ==
    /\ Turn
    /\ reader' = [s \in Sources |-> Idle] /\ judge' = {} /\ investigator' = Idle
    /\ deliverer' = [d \in Deliverers |-> Idle] /\ curator' = Idle
    /\ UNCHANGED <<reports, binding, wakes, asked, integrations, integrator,
                   kind, pending, receipts, passed, marker, facts>>

Init == /\ reports = [i \in {} |-> None] /\ DeliveryInit
        /\ kind \in [Sources -> Kinds] /\ pending = [s \in Sources |-> None]
        /\ receipts = [s \in Sources |-> {}] /\ passed = [s \in Sources |-> {}]
        /\ marker = [s \in Sources |-> None]
        /\ facts = [s \in Sources |-> None] /\ reader = [s \in Sources |-> Idle]
        /\ judge = {} /\ investigator = Idle

Next == \/ \E s \in Sources : \/ Acquire(s) \/ ReportWindow(s)
                              \/ CommitRefused(s) \/ CommitReceipt(s) \/ PrepareLocal(s)
                              \/ PublishLocal(s) \/ Acknowledge(s) \/ RecordFacts(s)
        \/ JudgeBatch \/ DecideReport \/ Investigate \/ AnswerQuestion \/ DeliverAnswer
        \/ \E d \in Deliverers : DeliverPending(d) /\ UNCHANGED runtimeVars
        \/ DeliveryNext /\ UNCHANGED runtimeVars
        \/ MonitorDies

Spec == Init /\ [][Next]_vars

-----------------------------------------------------------------------------
(* Properties *)

\* Codex is asked at most once about a report on a thread, however the two
\* loops race, whatever a failed or unanswered request leaves behind.
WakeOnce == \A p \in DOMAIN asked : asked[p] <= 1

\* A closed integration receipt is the report's one delivery: the report is
\* delivered, by that receipt's result, at the revision the receipt names.
IntegratedIsDelivered ==
    \A n \in integrations : n.state = "integrated" =>
        /\ reports[n.report].delivery = n.primary
        /\ n.delivered = ReportRef(n.report)

\* A source's checkpoint moves past what was read only when one durable report
\* of it exists, one only, and a receipt recorded for the source names it.
CheckpointReported ==
    \A s \in Sources : \A body \in passed[s] : \E i \in ReportIds :
        /\ WithKey(Window(s, body)) = {i}
        /\ reports[i].src = s /\ ~reports[i].causal
        /\ [body |-> body, report |-> i] \in receipts[s]

\* What Pulse says was done was done: every integrated receipt has its one
\* delivery, and whatever a checkpoint passed has its report.
PulseHonest == IntegratedIsDelivered /\ CheckpointReported

-----------------------------------------------------------------------------
\* The two loops and the two threads are interchangeable.
Symmetry == Permutations(Deliverers) \cup Permutations(Threads)
=============================================================================
