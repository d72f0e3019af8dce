--------------------------- MODULE PulseDelivery ---------------------------
(* Delivery of reports to the resident Pulse task (pulse_delivery.py,
   pulse_curation.py): wake requests reserved before Codex is asked,
   integrations prepared before the report is marked delivered, and the outbox
   of interface changes a desktop daemon curates.                            *)
EXTENDS Naturals, FiniteSets, Sequences

CONSTANTS None, Sources,
          MaxReports,        \* bound on reports
          Threads,           \* Codex threads the Pulse task has been bound to
          Results,           \* canonical results an integration may name
          Deliverers,        \* the two loops that call queue_wake
          WakeLimit,         \* reports of one wake
          MaxOutstanding,    \* MAX_OUTSTANDING_WAKES
          MaxWakes,          \* MAX_WAKE_REQUESTS
          MaxIntegrations,   \* MAX_INTEGRATIONS
          MaxTurns           \* bound: turns, deaths and other outside events

VARIABLES reports,        \* identifier -> report, in order of creation
          binding,        \* the Pulse task's active thread
          turns,          \* how many of them have happened
          wakes,          \* wake requests, oldest first
          asked,          \* <<thread, report>> -> wake messages Codex accepted
          deliverer,      \* the calls of queue_wake in progress
          integrations,   \* integration receipts
          integrator,     \* each Pulse thread's call of integrate in progress
          curator         \* the daemon's readback in progress

Refs == [kind : {"report", "result"}, of : (1..MaxReports) \cup Results, at : 0..2]
Decisions == {"wake", "investigate", "keep"}

ASSUME PulseConstants ==
    /\ MaxReports \in Nat /\ MaxWakes \in Nat /\ MaxTurns \in Nat
    /\ None \notin Refs \cup Decisions

deliveryVars == <<binding, turns, wakes, asked, deliverer, integrations, integrator, curator>>
Idle == [at |-> "idle"]
Turn == turns < MaxTurns /\ turns' = turns + 1

-----------------------------------------------------------------------------
(* The durable reports (pulse_reports.py): one per event key, moved once from
   undecided to decided to delivered, each write a compare-and-swap on the
   revision.  A revision is the stage the report has reached; a reference
   names an identifier at a revision.                                        *)
ReportIds == DOMAIN reports

\* PulseReport.revision, report_ref
Revision(r) == (IF r.decision = None THEN 0 ELSE 1) + (IF r.delivery = None THEN 0 ELSE 1)
ReportRef(i) == [kind |-> "report", of |-> i, at |-> Revision(reports[i])]
Result(v) == [kind |-> "result", of |-> v, at |-> 0]

\* find_by_event_key
WithKey(key) == {i \in ReportIds : reports[i].key = key}

\* _new_report: undecided, undelivered.
NewReport(key, src, causal) ==
    [key |-> key, src |-> src, causal |-> causal, decision |-> None, delivery |-> None]

\* append: callers have looked the key up under the same task's serialization.
AppendReport(key, src, causal) ==
    /\ Cardinality(ReportIds) < MaxReports
    /\ reports' = [i \in ReportIds \cup {Cardinality(ReportIds) + 1} |->
                     IF i \in ReportIds THEN reports[i] ELSE NewReport(key, src, causal)]

\* list_pending: the oldest few of a stage.
Oldest(S, n) == {i \in S : Cardinality({j \in S : j < i}) < n}
Undecided == {i \in ReportIds : reports[i].decision = None}
Awaiting(d) == {i \in ReportIds : reports[i].decision = d /\ reports[i].delivery = None}

\* decide
MayDecide(i, rev) == /\ Revision(reports[i]) = rev
                     /\ reports[i].delivery = None /\ reports[i].decision = None
Decided(i, d) == [reports EXCEPT ![i].decision = d]

\* record_delivery
MayDeliver(i, rev, ref) ==
    /\ Revision(reports[i]) = rev
    /\ reports[i].decision \in {"wake", "investigate"}
    /\ reports[i].decision = "investigate" => ref.kind = "report"
    /\ reports[i].delivery = None
Delivered(i, ref) == [reports EXCEPT ![i].delivery = ref]

-----------------------------------------------------------------------------
(* Wakes *)

\* deliver_pending: the oldest wake reports nobody delivered.
DeliverPending(d) ==
    /\ deliverer[d] = Idle
    /\ Awaiting("wake") # {}
    /\ deliverer' = [deliverer EXCEPT ![d] =
                       [at |-> "reserve", ids |-> Oldest(Awaiting("wake"), WakeLimit)]]
    /\ UNCHANGED <<reports, binding, turns, wakes, asked, integrations, integrator, curator>>

\* Mutant: a request whose state is unknown does not cover its reports.
CoveredQueued(thread) ==
    UNION {wakes[k].ids : k \in {j \in DOMAIN wakes :
              wakes[j].thread = thread /\ wakes[j].state # "uncertain"}}

Covered(thread) == UNION {wakes[k].ids : k \in {j \in DOMAIN wakes : wakes[j].thread = thread}}
Outstanding(thread, pending) ==
    {k \in DOMAIN wakes : /\ wakes[k].thread = thread /\ wakes[k].state = "queued"
                          /\ wakes[k].ids \cap pending # {}}

\* queue_wake and _reserve_wake: one report delivered meanwhile refuses the
\* call; what a thread was asked about is never asked again; a queued thread
\* that has not caught up gets no further turn.
Selected(d) == deliverer[d].ids \ Covered(binding)
Current(d) == deliverer[d].ids \subseteq Awaiting("wake")

ReserveWake(d) ==
    /\ deliverer[d].at = "reserve" /\ (Current(d) => Selected(d) # {})
    /\ IF \/ ~Current(d) \/ Len(wakes) >= MaxWakes
          \/ Cardinality(Outstanding(binding, Awaiting("wake"))) >= MaxOutstanding
       THEN deliverer' = [deliverer EXCEPT ![d] = Idle] /\ UNCHANGED wakes
       ELSE /\ wakes' = Append(wakes, [ids |-> Selected(d), thread |-> binding, state |-> "prepared"])
            /\ deliverer' = [deliverer EXCEPT ![d] = [at |-> "ask", wake |-> Len(wakes) + 1]]
    /\ UNCHANGED <<reports, binding, turns, asked, integrations, integrator, curator>>

\* _set_wake_state: queued is final.
WakeStateSet(k, s) == IF wakes[k].state = "queued" THEN wakes
                      ELSE [wakes EXCEPT ![k].state = s]

\* queue_wake: the reports are covered already; a request found prepared is
\* one whose outcome nobody can tell.
CoveredWake(d) ==
    LET ids == deliverer[d].ids
        holds == {k \in DOMAIN wakes : wakes[k].thread = binding /\ ids \subseteq wakes[k].ids}
        first == CHOOSE k \in holds : \A j \in holds : k <= j
    IN  /\ deliverer[d].at = "reserve" /\ Current(d) /\ Selected(d) = {}
        /\ wakes' = IF holds # {} /\ wakes[first].state = "prepared"
                    THEN WakeStateSet(first, "uncertain") ELSE wakes
        /\ deliverer' = [deliverer EXCEPT ![d] = Idle]
        /\ UNCHANGED <<reports, binding, turns, asked, integrations, integrator, curator>>

\* append_canonical_signal for every report, then codex queue: a signal may
\* fail, and Codex may accept the message and still fail to say so.
AskCodex(d) ==
    LET w == wakes[deliverer[d].wake] IN
    /\ deliverer[d].at = "ask"
    /\ \E accepted, zero \in BOOLEAN :
         /\ zero => accepted
         /\ IF zero THEN UNCHANGED turns ELSE Turn
         /\ asked' = IF accepted
                     THEN [p \in DOMAIN asked |-> asked[p] +
                             IF p[1] = w.thread /\ p[2] \in w.ids THEN 1 ELSE 0]
                     ELSE asked
         /\ deliverer' = [deliverer EXCEPT ![d] =
                            [at |-> "answer", wake |-> deliverer[d].wake, zero |-> zero]]
    /\ UNCHANGED <<reports, binding, wakes, integrations, integrator, curator>>

RecordWake(d) ==
    /\ deliverer[d].at = "answer"
    /\ wakes' = WakeStateSet(deliverer[d].wake, IF deliverer[d].zero THEN "queued" ELSE "uncertain")
    /\ deliverer' = [deliverer EXCEPT ![d] = Idle]
    /\ UNCHANGED <<reports, binding, turns, asked, integrations, integrator, curator>>

\* The Pulse task is bound to another thread.
Rebind == /\ Turn
          /\ binding' \in Threads \ {binding}
          /\ UNCHANGED <<reports, wakes, asked, deliverer, integrations, integrator, curator>>

-----------------------------------------------------------------------------
(* Integration *)

\* The Pulse turn reads a report and decides what it integrates as.
ReadReport(t) ==
    /\ integrator[t] = Idle /\ binding = t /\ Turn
    /\ \E i \in ReportIds, v \in Results, change \in BOOLEAN :
       \E rev \in 0..Revision(reports[i]) :
         integrator' = [integrator EXCEPT ![t] =
            [at |-> "prepare", report |-> i, expected |-> rev,
             result |-> Result(v), change |-> change]]
    /\ UNCHANGED <<reports, binding, wakes, asked, deliverer, integrations, curator>>

\* _find_integration
Receipts(i, rev) == {n \in integrations : n.report = i /\ n.expected = rev}

\* _match_integration
Matches(n, t, c) == n.thread = t /\ n.result = c.result /\ n.change = c.change

\* Mutant: a delivery by another result passes for this receipt's.
AnyDelivery(n) == TRUE

\* _require_recoverable_delivery
Recoverable(n) == reports[n.report].delivery = n.primary

\* _followup_base: the integrated receipt of the delivered report.
FollowupBase(i) == {n \in integrations : /\ n.report = i /\ ~n.followup /\ n.state = "integrated"
                                         /\ n.delivered = ReportRef(i)}

Prepared(t, c, base) ==
    [report |-> c.report, expected |-> c.expected, thread |-> t, result |-> c.result,
     primary |-> IF base = {} THEN c.result ELSE (CHOOSE n \in base : TRUE).primary,
     change |-> c.change, followup |-> base # {}, state |-> "prepared", delivered |-> None,
     outbox |-> IF c.change THEN "prepared" ELSE None]

Refuse(t) == integrator' = [integrator EXCEPT ![t] = Idle] /\ UNCHANGED integrations
Proceed(t, n) == integrator' = [integrator EXCEPT ![t] = [at |-> "deliver", receipt |-> n]]

\* integrate and _prepare_integration, for a report without a receipt.
PrepareIntegration(t) ==
    LET c == integrator[t]  r == reports[c.report]
        base == IF r.delivery = None THEN {} ELSE FollowupBase(c.report)
        n == Prepared(t, c, base)
    IN  /\ c.at = "prepare" /\ Receipts(c.report, c.expected) = {}
        /\ IF \/ binding # t \/ Revision(r) # c.expected
              \/ r.delivery # None /\ (~c.change \/ base = {})
              \/ Cardinality(integrations) >= MaxIntegrations
           THEN Refuse(t)
           ELSE integrations' = integrations \cup {n} /\ Proceed(t, [report |-> n.report, expected |-> n.expected])
        /\ UNCHANGED <<reports, binding, turns, wakes, asked, deliverer, curator>>

\* integrate, for a report with one: an identical retry resumes it.
ResumeIntegration(t) ==
    LET c == integrator[t]  n == CHOOSE m \in Receipts(c.report, c.expected) : TRUE
    IN  /\ c.at = "prepare" /\ Receipts(c.report, c.expected) # {}
        /\ IF \/ binding # t \/ ~Matches(n, t, c) \/ n.state = "integrated"
              \/ Revision(reports[c.report]) # c.expected /\ ~Recoverable(n)
           THEN Refuse(t)
           ELSE Proceed(t, [report |-> n.report, expected |-> n.expected]) /\ UNCHANGED integrations
        /\ UNCHANGED <<reports, binding, turns, wakes, asked, deliverer, curator>>

Receipt(t) == CHOOSE n \in integrations : /\ n.report = integrator[t].receipt.report
                                          /\ n.expected = integrator[t].receipt.expected

\* integrate: the report is marked delivered, or was by an earlier attempt.
RecordDelivery(t) ==
    LET n == Receipt(t)  i == n.report IN
    /\ integrator[t].at = "deliver"
    /\ \/ /\ ~n.followup /\ Revision(reports[i]) = n.expected
          /\ MayDeliver(i, n.expected, n.primary)
          /\ reports' = Delivered(i, n.primary)
          /\ integrator' = [integrator EXCEPT ![t].at = "finalize"]
       \/ /\ ~n.followup /\ Revision(reports[i]) = n.expected
          /\ ~MayDeliver(i, n.expected, n.primary)
          /\ integrator' = [integrator EXCEPT ![t] = Idle] /\ UNCHANGED reports
       \/ /\ n.followup \/ Revision(reports[i]) # n.expected
          /\ integrator' = [integrator EXCEPT ![t] =
                              IF Recoverable(n) THEN [@ EXCEPT !.at = "finalize"] ELSE Idle]
          /\ UNCHANGED reports
    /\ UNCHANGED <<binding, turns, wakes, asked, deliverer, integrations, curator>>

\* _finalize_integration: the receipt is closed, its outbox entry released.
Finalized(n) == [n EXCEPT !.state = "integrated", !.delivered = ReportRef(n.report),
                          !.outbox = IF @ = "prepared" THEN "queued" ELSE @]
FinalizeIntegration(t) ==
    LET n == Receipt(t) IN
    /\ integrator[t].at = "finalize"
    /\ integrations' = IF Recoverable(n) /\ n.state = "prepared"
                       THEN (integrations \ {n}) \cup {Finalized(n)} ELSE integrations
    /\ integrator' = [integrator EXCEPT ![t] = Idle]
    /\ UNCHANGED <<reports, binding, turns, wakes, asked, deliverer, curator>>

-----------------------------------------------------------------------------
(* Curation *)

\* PulseCurationBridge.drain: read an entry back from the desktop, or submit
\* it there; the entry may be one whose integration is still prepared.
CallDesktop ==
    /\ curator = Idle /\ Turn
    /\ \E n \in integrations, s \in {"queued", "completed", "uncertain"} :
         /\ n.outbox \notin {None, "completed"}
         /\ curator' = [at |-> "record", entry |-> n, state |-> s]
    /\ UNCHANGED <<reports, binding, wakes, asked, deliverer, integrations, integrator>>

\* record_curation: compare-and-swap on the entry the drain listed.
RecordCuration ==
    /\ curator.at = "record"
    /\ integrations' = {IF n.report = curator.entry.report /\ n.expected = curator.entry.expected
                           /\ n.outbox = curator.entry.outbox
                        THEN [n EXCEPT !.outbox = curator.state] ELSE n : n \in integrations}
    /\ curator' = Idle
    /\ UNCHANGED <<reports, binding, turns, wakes, asked, deliverer, integrator>>

-----------------------------------------------------------------------------
DeliveryInit ==
    /\ binding \in Threads /\ turns = 0 /\ wakes = <<>>
    /\ asked = [p \in Threads \X (1..MaxReports) |-> 0]
    /\ deliverer = [d \in Deliverers |-> Idle]
    /\ integrations = {} /\ integrator = [t \in Threads |-> Idle]
    /\ curator = Idle

\* A Pulse turn dies inside integrate.
IntegratorDies(t) == /\ integrator[t] # Idle /\ Turn
                     /\ integrator' = [integrator EXCEPT ![t] = Idle]
                     /\ UNCHANGED <<reports, binding, wakes, asked, deliverer, integrations, curator>>

DeliveryNext ==
    \/ \E d \in Deliverers : \/ ReserveWake(d) \/ CoveredWake(d) \/ AskCodex(d) \/ RecordWake(d)
    \/ Rebind
    \/ \E t \in Threads : \/ ReadReport(t) \/ PrepareIntegration(t) \/ ResumeIntegration(t)
                          \/ RecordDelivery(t) \/ FinalizeIntegration(t) \/ IntegratorDies(t)
    \/ CallDesktop \/ RecordCuration
=============================================================================
