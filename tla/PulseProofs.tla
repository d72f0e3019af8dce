----------------------------- MODULE PulseProofs -----------------------------
(* Proofs about Pulse, for any sources, threads and bounds: Codex is asked
   at most once about a report on a thread (WakeOnce), and what Pulse says
   was done was done (PulseHonest). The inductive invariant follows the
   reports and their keys (ReportInv), each source task between its awaits
   (ReaderInv), the questions (QuestionInv), the wake requests and who asks
   for them (WakeInv), and the integration receipts (IntegrationInv). *)
EXTENDS PulseRuntime, FiniteSetTheorems, SequenceTheorems, TLAPS

----------------------------------------
(* The reports *)

Keys == [from : Sources \cup Nat, body : Bodies \cup {"question"}]
Reports == [key : Keys, src : Sources, causal : BOOLEAN, decision : Decisions \cup {None},
            delivery : Refs \cup {None}]

\* Reports are numbered in the order they were made, and each key has one.
ReportInv ==
  /\ \E n \in 0..MaxReports : reports \in [1..n -> Reports]
  /\ \A i, j \in ReportIds : reports[i].key = reports[j].key => i = j
  /\ \A i \in ReportIds : IF reports[i].causal THEN reports[i].key.body = "question"
                          ELSE reports[i].key.from = reports[i].src

----------------------------------------
(* The sources *)

\* The report i is the durable one of the window w.
Reported(i, w) == i \in ReportIds /\ reports[i].key = w /\ ~reports[i].causal

\* The receipt recorded for the source names the report i for what was read.
Recorded(s, body, i) == [body |-> body, report |-> i] \in receipts[s]

Marks == [ref : [of : 1..MaxReports, at : 0..2], recorded : BOOLEAN]

\* What a source task at each of its awaits has found out or done.
Reading(s, v) ==
  /\ v.at \in {"turn", "commit", "publish", "ack"} =>
       v.window = Window(s, v.window.body) /\ v.window.body \in Bodies
  /\ v.at = "turn" => WithKey(v.window) = {}
  /\ v.at \in {"commit", "publish", "ack", "facts"} => Reported(v.report, v.window)
  /\ v.at \in {"turn", "commit"} /\ Polls(s, v.window.body) => pending[s] = v.window.body
  /\ v.at = "publish" => /\ marker[s] \in Marks /\ marker[s].ref.of = v.report
                         /\ pending[s] = v.window.body
  /\ v.at = "ack" => Recorded(s, v.window.body, v.report)

\* The runtime state names the report of its window.
Remembered(s) == facts[s] # None => Reported(facts[s].report, facts[s].window)

\* A marker belongs to the pending delivery, and to its receipt once recorded.
Marked(s) ==
  /\ pending[s] = None => marker[s] = None
  /\ marker[s] # None /\ marker[s].recorded => Recorded(s, pending[s], marker[s].ref.of)

Passed(s) ==
  \A body \in passed[s] : \E i \in ReportIds : Reported(i, Window(s, body)) /\ Recorded(s, body, i)

Awaits == {Idle} \cup [at : {"turn"}, window : Keys]
                 \cup [at : {"commit", "publish", "ack", "facts"}, window : Keys,
                       report : 1..MaxReports, revision : 0..2]

SourcesTyped ==
  /\ pending \in [Sources -> Bodies \cup {None}] /\ marker \in [Sources -> Marks \cup {None}]
  /\ receipts \in [Sources -> SUBSET [body : Bodies, report : 1..MaxReports]]
  /\ passed \in [Sources -> SUBSET Bodies]
  /\ reader \in [Sources -> Awaits] /\ DOMAIN facts = Sources

SourceInv(s) == Reading(s, reader[s]) /\ Remembered(s) /\ Marked(s) /\ Passed(s)

ReaderInv == SourcesTyped /\ \A s \in Sources : SourceInv(s)

\* The questions: what the investigator pursues is a report, and once answered
\* the answer is one too.
QuestionInv ==
  /\ judge \subseteq ReportIds
  /\ investigator \in {Idle} \cup [at : {"answer", "deliver"}, report : 1..MaxReports,
                                   revision : 0..2]
  /\ investigator.at # "idle" => investigator.report \in ReportIds
  /\ investigator.at = "deliver" => WithKey(ChildKey(investigator.report)) # {}

----------------------------------------
(* The wakes *)

Wakes == [ids : SUBSET (1..MaxReports), thread : Threads,
          state : {"prepared", "queued", "uncertain"}]

Calls == {Idle} \cup [at : {"reserve"}, ids : SUBSET (1..MaxReports)]
                \cup [at : {"ask"}, wake : Nat]
                \cup [at : {"answer"}, wake : Nat, zero : BOOLEAN]

WakeTyped ==
  /\ binding \in Threads /\ wakes \in Seq(Wakes)
  /\ asked \in [Threads \X (1..MaxReports) -> 0..1]
  /\ deliverer \in [Deliverers -> Calls]

Asks(d) == deliverer[d].at \in {"ask", "answer"}

\* One request covers a report on a thread.
OneRequest ==
  \A j, k \in DOMAIN wakes :
    j # k /\ wakes[j].thread = wakes[k].thread => wakes[j].ids \cap wakes[k].ids = {}

\* One call asks for a request.
OneCaller ==
  /\ \A d \in Deliverers : Asks(d) => deliverer[d].wake \in DOMAIN wakes
  /\ \A c, d \in Deliverers : c # d /\ Asks(c) /\ Asks(d) => deliverer[c].wake # deliverer[d].wake

\* Codex has heard of a report on a thread only through a request that was asked.
Heard ==
  \A t \in Threads, i \in 1..MaxReports : asked[<<t, i>>] # 0 =>
    \E k \in DOMAIN wakes : /\ wakes[k].thread = t /\ i \in wakes[k].ids
                            /\ \A d \in Deliverers : deliverer[d].at = "ask" => deliverer[d].wake # k

WakeInv == WakeTyped /\ OneRequest /\ OneCaller /\ Heard

----------------------------------------
(* The integrations *)

IntegrationRecords ==
  [report : 1..MaxReports, expected : 0..2, thread : Threads, result : Refs, primary : Refs,
   change : BOOLEAN, followup : BOOLEAN, state : {"prepared", "integrated"},
   delivered : Refs \cup {None}, outbox : {None, "prepared", "queued", "completed", "uncertain"}]

\* A closed receipt is the delivery of its report.
Closed(n) ==
  /\ n.report \in ReportIds
  /\ n.state = "integrated" => /\ reports[n.report].delivery = n.primary
                               /\ n.delivered = ReportRef(n.report)

Integrators ==
  {Idle} \cup [at : {"prepare"}, report : 1..MaxReports, expected : 0..2, result : Refs,
               change : BOOLEAN]
         \cup [at : {"deliver", "finalize"}, receipt : [report : 1..MaxReports, expected : 0..2]]

\* The call knows a receipt by its report and the revision it expected.
Kept(v) == \E n \in integrations : n.report = v.report /\ n.expected = v.expected

Integrating(v) ==
  /\ v.at = "prepare" => v.report \in ReportIds
  /\ v.at \in {"deliver", "finalize"} => Kept(v.receipt)

IntegrationInv ==
  /\ integrations \subseteq IntegrationRecords
  /\ \A n \in integrations : Closed(n)
  /\ integrator \in [Threads -> Integrators]
  /\ \A t \in Threads : Integrating(integrator[t])
  /\ curator = Idle \/ curator.state \in {"queued", "completed", "uncertain"}

PulseInv == ReportInv /\ ReaderInv /\ QuestionInv /\ WakeInv /\ IntegrationInv

----------------------------------------
(* What happens to the reports *)

\* A step adds reports or moves undelivered ones on; a delivered one is final.
Grows ==
  /\ ReportInv' /\ ReportIds \subseteq ReportIds'
  /\ \A i \in ReportIds :
       /\ reports'[i].key = reports[i].key /\ reports'[i].src = reports[i].src
       /\ reports'[i].causal = reports[i].causal
       /\ reports[i].delivery # None => reports'[i] = reports[i]

LEMMA SameGrows ==
  ASSUME ReportInv, UNCHANGED reports
  PROVE  Grows /\ ReportIds' = ReportIds /\ \A key : WithKey(key)' = WithKey(key)
BY DEF ReportInv, Grows, ReportIds, WithKey

\* append: the new report has the next number and a key of its own.
LEMMA AppendGrows ==
  ASSUME ReportInv, NEW key \in Keys, NEW src \in Sources, NEW causal \in BOOLEAN,
         AppendReport(key, src, causal), WithKey(key) = {},
         IF causal THEN key.body = "question" ELSE key.from = src
  PROVE  /\ Grows
         /\ \E i \in 1..MaxReports :
              /\ i = Cardinality(ReportIds) + 1 /\ ReportIds' = ReportIds \cup {i}
              /\ reports'[i].key = key /\ reports'[i].causal = causal /\ i \notin ReportIds
         /\ \A other : other # key => WithKey(other)' = WithKey(other)
<1>1. PICK n \in 0..MaxReports : reports \in [1..n -> Reports] BY DEF ReportInv
<1>2. ReportIds = 1..n /\ Cardinality(ReportIds) = n /\ n < MaxReports
  BY <1>1, FS_Interval, PulseConstants DEF ReportIds, AppendReport
<1> DEFINE r == NewReport(key, src, causal)
<1>3. r \in Reports /\ r.key = key /\ r.src = src /\ r.causal = causal BY DEF Reports, NewReport
<1> HIDE DEF r
<1>4. reports' = [i \in 1..(n + 1) |-> IF i \in 1..n THEN reports[i] ELSE r]
  <2>1. 1..n \cup {n + 1} = 1..(n + 1) BY <1>2
  <2> QED BY <1>2, <2>1 DEF AppendReport, r
<1>5. /\ reports' \in [1..(n + 1) -> Reports] /\ reports'[n + 1] = r
      /\ \A i \in 1..n : reports'[i] = reports[i]
      /\ n + 1 \in 1..MaxReports
  BY <1>1, <1>2, <1>3, <1>4, PulseConstants
<1>6. ReportIds' = 1..(n + 1) /\ ReportIds' = ReportIds \cup {n + 1} /\ n + 1 \notin ReportIds
  BY <1>2, <1>5 DEF ReportIds
<1>7. \A i, j \in ReportIds' : reports'[i].key = reports'[j].key => i = j
  BY <1>2, <1>3, <1>5, <1>6 DEF ReportInv, WithKey
<1>8. \A i \in ReportIds' : IF reports'[i].causal THEN reports'[i].key.body = "question"
                            ELSE reports'[i].key.from = reports'[i].src
  BY <1>2, <1>3, <1>5, <1>6 DEF ReportInv
<1>9. ReportInv' BY <1>5, <1>7, <1>8, PulseConstants DEF ReportInv
<1>10. \A other : other # key => WithKey(other)' = WithKey(other)
  BY <1>2, <1>3, <1>5, <1>6 DEF WithKey
<1> QED BY <1>2, <1>3, <1>5, <1>6, <1>9, <1>10 DEF Grows

\* A report i, whether it is one or not, is replaced by one of the same key.
LEMMA ReplaceGrows ==
  ASSUME ReportInv, NEW i, i \in ReportIds => reports[i].delivery = None,
         NEW u \in Reports,
         i \in ReportIds => /\ u.key = reports[i].key /\ u.src = reports[i].src
                            /\ u.causal = reports[i].causal,
         reports' = [reports EXCEPT ![i] = u]
  PROVE  Grows /\ ReportIds' = ReportIds /\ \A key : WithKey(key)' = WithKey(key)
<1>1. PICK n \in 0..MaxReports : reports \in [1..n -> Reports] BY DEF ReportInv
<1>2. ReportIds = 1..n /\ ReportIds' = 1..n /\ reports' \in [1..n -> Reports]
  BY <1>1 DEF ReportIds
<1>3. \A j \in ReportIds : /\ reports'[j].key = reports[j].key /\ reports'[j].src = reports[j].src
                           /\ reports'[j].causal = reports[j].causal
                           /\ reports[j].delivery # None => reports'[j] = reports[j]
  BY <1>1, <1>2
<1>4. ReportInv' BY <1>2, <1>3 DEF ReportInv
<1> QED BY <1>2, <1>3, <1>4 DEF Grows, WithKey

\* decide and record_delivery write one report that is not delivered yet.
LEMMA DecideGrows ==
  ASSUME ReportInv, NEW i, NEW d \in Decisions, MayDecide(i, 0), reports' = Decided(i, d)
  PROVE  Grows /\ ReportIds' = ReportIds /\ \A key : WithKey(key)' = WithKey(key)
<1>1. CASE i \in ReportIds
  <2>1. PICK r \in Reports : r = reports[i] /\ r.delivery = None
    BY <1>1 DEF ReportInv, ReportIds, MayDecide
  <2> DEFINE u == [r EXCEPT !.decision = d]
  <2>2. u \in Reports /\ u.key = r.key /\ u.src = r.src /\ u.causal = r.causal BY DEF Reports
  <2>3. reports' = [reports EXCEPT ![i] = u] BY <2>1 DEF Decided
  <2> HIDE DEF u
  <2> QED BY <2>1, <2>2, <2>3, ReplaceGrows
<1>2. CASE i \notin ReportIds
  <2>1. UNCHANGED reports BY <1>2 DEF Decided, ReportIds, ReportInv
  <2> QED BY <2>1, SameGrows
<1> QED BY <1>1, <1>2

LEMMA DeliverGrows ==
  ASSUME ReportInv, NEW i \in ReportIds, NEW ref \in Refs, reports[i].delivery = None,
         reports' = Delivered(i, ref)
  PROVE  /\ Grows /\ ReportIds' = ReportIds /\ \A key : WithKey(key)' = WithKey(key)
         /\ reports'[i].delivery = ref
<1>1. PICK r \in Reports : r = reports[i] /\ r.delivery = None BY DEF ReportInv, ReportIds
<1> DEFINE u == [r EXCEPT !.delivery = ref]
<1>2. u \in Reports /\ u.key = r.key /\ u.src = r.src /\ u.causal = r.causal /\ u.delivery = ref
  BY DEF Reports
<1>3. reports' = [reports EXCEPT ![i] = u] BY <1>1 DEF Delivered
<1> HIDE DEF u
<1>4. reports'[i] = u BY <1>3 DEF ReportInv, ReportIds
<1> QED BY <1>1, <1>2, <1>3, <1>4, ReplaceGrows

----------------------------------------
(* What a step that is about something else leaves alone *)

LEMMA ReportedKept ==
  ASSUME Grows, NEW i, NEW w, Reported(i, w)
  PROVE  Reported(i, w)'
BY DEF Grows, Reported

\* What source r has, as before.
Same(r) == /\ kind'[r] = kind[r] /\ pending'[r] = pending[r] /\ receipts'[r] = receipts[r]
           /\ passed'[r] = passed[r] /\ marker'[r] = marker[r] /\ facts'[r] = facts[r]

LEMMA RestKept ==
  ASSUME ReaderInv, Grows, NEW r \in Sources, Same(r)
  PROVE  Remembered(r)' /\ Marked(r)' /\ Passed(r)'
<1>1. Remembered(r) /\ Marked(r) /\ Passed(r) BY DEF ReaderInv, SourceInv
<1>2. Remembered(r)'
  <2>1. PICK f : f = facts[r] /\ f = facts'[r] BY DEF Same
  <2>2. f # None => Reported(f.report, f.window)' BY <1>1, <2>1, ReportedKept DEF Remembered
  <2> QED BY <2>1, <2>2 DEF Remembered
<1>3. Marked(r)' BY <1>1 DEF Marked, Same, Recorded
<1>4. Passed(r)'
  <2>1. ASSUME NEW body \in passed[r]
        PROVE  \E i \in ReportIds' : Reported(i, Window(r, body))' /\ Recorded(r, body, i)'
    <3>1. PICK i, w : i \in ReportIds /\ w = Window(r, body) /\ Reported(i, w) /\ Recorded(r, body, i)
      BY <1>1 DEF Passed
    <3>2. Reported(i, w)' /\ Window(r, body)' = w BY <3>1, ReportedKept DEF Window
    <3> QED BY <3>1, <3>2 DEF Recorded, Same, Reported
  <2> QED BY <2>1 DEF Passed, Same
<1> QED BY <1>2, <1>3, <1>4

LEMMA SourceKept ==
  ASSUME ReaderInv, Grows, NEW r \in Sources, Same(r), reader'[r] = reader[r],
         \A w : reader[r].at = "turn" /\ w = reader[r].window => WithKey(w)' = {}
  PROVE  SourceInv(r)'
<1>1. PICK v : v = reader[r] /\ v = reader'[r] OBVIOUS
<1>2. Reading(r, v) /\ (v.at = "turn" => WithKey(v.window)' = {}) BY <1>1 DEF ReaderInv, SourceInv
<1>3. Window(r, v.window.body)' = Window(r, v.window.body) BY DEF Window
<1>4. Reading(r, v)'
  <2>1. Reported(v.report, v.window) => Reported(v.report, v.window)' BY ReportedKept
  <2> QED BY <1>2, <1>3, <2>1 DEF Reading, Polls, Recorded, Same
<1> QED BY <1>1, <1>4, RestKept DEF SourceInv

LEMMA ReaderKept ==
  ASSUME ReaderInv, Grows, UNCHANGED sourceVars,
         \A s \in Sources : \A w : reader[s].at = "turn" /\ w = reader[s].window => WithKey(w)' = {}
  PROVE  ReaderInv'
<1>1. SourcesTyped' BY DEF ReaderInv, SourcesTyped, sourceVars
<1>2. ASSUME NEW s \in Sources PROVE Same(s) /\ reader'[s] = reader[s] BY DEF Same, sourceVars
<1> QED BY <1>1, <1>2, SourceKept DEF ReaderInv

\* Nobody waits for a model about a window that has a report.
LEMMA Unreported ==
  ASSUME ReaderInv
  PROVE  \A s \in Sources : \A w : reader[s].at = "turn" /\ w = reader[s].window =>
            WithKey(w) = {} /\ w.from = s /\ w.body \in Bodies
<1> SUFFICES ASSUME NEW s \in Sources, NEW w, reader[s].at = "turn", w = reader[s].window
             PROVE  WithKey(w) = {} /\ w.from = s /\ w.body \in Bodies
  OBVIOUS
<1>1. WithKey(w) = {} /\ w = Window(s, w.body) /\ w.body \in Bodies
  BY DEF ReaderInv, SourceInv, Reading
<1>2. Window(s, w.body).from = s BY DEF Window
<1> QED BY <1>1, <1>2

LEMMA QuestionKept ==
  ASSUME QuestionInv, Grows, UNCHANGED <<judge, investigator>>
  PROVE  QuestionInv'
<1>1. ASSUME investigator.at = "deliver"
      PROVE  WithKey(ChildKey(investigator.report))' # {}
  <2>1. PICK j, key : j \in WithKey(key) /\ key = ChildKey(investigator.report)
    BY <1>1 DEF QuestionInv
  <2>2. investigator.report \in ReportIds BY <1>1 DEF QuestionInv
  <2>3. ChildKey(investigator.report)' = key BY <2>1, <2>2 DEF ChildKey, Grows
  <2>4. j \in WithKey(key)' BY <2>1 DEF WithKey, Grows
  <2> QED BY <2>3, <2>4
<1> QED BY <1>1 DEF QuestionInv, Grows

LEMMA WakeKept ==
  ASSUME WakeInv, UNCHANGED <<binding, wakes, asked, deliverer>>
  PROVE  WakeInv'
BY DEF WakeInv, WakeTyped, OneRequest, OneCaller, Asks, Heard

\* A receipt that is closed stays the delivery of its report.
LEMMA ClosedKept ==
  ASSUME Grows, NEW n \in IntegrationRecords, Closed(n)
  PROVE  Closed(n)'
<1>1. n.primary # None BY PulseConstants DEF IntegrationRecords
<1> QED BY <1>1 DEF Grows, ReportRef, Closed

LEMMA IntegratingKept ==
  ASSUME Grows, NEW v, Integrating(v),
         \A n \in integrations : \E m \in integrations' :
           m.report = n.report /\ m.expected = n.expected
  PROVE  Integrating(v)'
BY DEF Grows, Integrating, Kept

LEMMA IntegrationKept ==
  ASSUME IntegrationInv, Grows, UNCHANGED <<integrations, integrator, curator>>
  PROVE  IntegrationInv'
<1>1. \A n \in integrations : Closed(n)' BY ClosedKept DEF IntegrationInv
<1>2. ASSUME NEW t \in Threads PROVE Integrating(integrator[t])'
  <2>1. PICK v : v = integrator[t] /\ v = integrator'[t] /\ Integrating(v) BY DEF IntegrationInv
  <2>2. Integrating(v)' BY <2>1, IntegratingKept
  <2> QED BY <2>1, <2>2
<1> QED BY <1>1, <1>2 DEF IntegrationInv

\* A step that leaves the reports and everything durable but one part alone.
LEMMA OthersKept ==
  ASSUME PulseInv, UNCHANGED reports
  PROVE  /\ ReportInv'
         /\ UNCHANGED sourceVars => ReaderInv'
         /\ UNCHANGED <<judge, investigator>> => QuestionInv'
         /\ UNCHANGED <<binding, wakes, asked, deliverer>> => WakeInv'
         /\ UNCHANGED <<integrations, integrator, curator>> => IntegrationInv'
<1>1. Grows /\ \A key : WithKey(key)' = WithKey(key) BY SameGrows DEF PulseInv
<1>3. UNCHANGED sourceVars => ReaderInv' BY <1>1, Unreported, ReaderKept DEF PulseInv
<1> QED BY <1>1, <1>3, QuestionKept, WakeKept, IntegrationKept DEF PulseInv, Grows

----------------------------------------
(* The wakes *)

\* Requests keep their reports and their thread.
SameRequests ==
  /\ wakes' \in Seq(Wakes) /\ DOMAIN wakes' = DOMAIN wakes
  /\ \A k \in DOMAIN wakes : wakes'[k].ids = wakes[k].ids /\ wakes'[k].thread = wakes[k].thread

LEMMA StateSetSame ==
  ASSUME WakeInv, NEW k, NEW s \in {"prepared", "queued", "uncertain"},
         wakes' = WakeStateSet(k, s)
  PROVE  SameRequests
<1>1. wakes \in Seq(Wakes) BY DEF WakeInv, WakeTyped
<1>2. CASE UNCHANGED wakes BY <1>1, <1>2 DEF SameRequests
<1>3. CASE wakes' = [wakes EXCEPT ![k].state = s] /\ k \in DOMAIN wakes
  <2>1. PICK w \in Wakes : w = wakes[k] BY <1>1, <1>3, ElementOfSeq
  <2> DEFINE u == [w EXCEPT !.state = s]
  <2>2. u \in Wakes /\ u.ids = w.ids /\ u.thread = w.thread BY DEF Wakes
  <2>3. wakes' = [wakes EXCEPT ![k] = u] BY <1>3, <2>1
  <2> HIDE DEF u
  <2>4. wakes' \in Seq(Wakes) /\ DOMAIN wakes' = DOMAIN wakes
    BY <1>1, <1>3, <2>2, <2>3, ExceptSeq
  <2> QED BY <1>3, <2>1, <2>2, <2>3, <2>4 DEF SameRequests
<1>4. CASE wakes' = [wakes EXCEPT ![k].state = s] /\ k \notin DOMAIN wakes
  <2>1. wakes' = wakes BY <1>1, <1>4
  <2> QED BY <1>2, <2>1
<1> QED BY <1>2, <1>3, <1>4 DEF WakeStateSet

\* A call that goes on without a new request and without asking.
LEMMA CallStep ==
  ASSUME WakeInv, NEW d \in Deliverers, NEW v \in Calls, v.at # "ask",
         v.at = "answer" => deliverer[d].at = "ask" /\ v.wake = deliverer[d].wake,
         deliverer' = [deliverer EXCEPT ![d] = v], SameRequests, UNCHANGED <<binding, asked>>
  PROVE  WakeInv'
<1>1. /\ deliverer \in [Deliverers -> Calls] /\ deliverer' \in [Deliverers -> Calls]
      /\ deliverer'[d] = v /\ \A c \in Deliverers : c # d => deliverer'[c] = deliverer[c]
  BY DEF WakeInv, WakeTyped
<1>2. WakeTyped' BY <1>1 DEF WakeInv, WakeTyped, SameRequests
<1>3. OneRequest' BY DEF WakeInv, OneRequest, SameRequests
<1>4. OneCaller'
  <2>1. ASSUME NEW c \in Deliverers, Asks(c)'
        PROVE  Asks(c) /\ deliverer'[c].wake = deliverer[c].wake
    BY <1>1, <2>1 DEF Asks
  <2> QED BY <2>1 DEF WakeInv, OneCaller, SameRequests
<1>5. Heard' BY <1>1 DEF WakeInv, Heard, SameRequests
<1> QED BY <1>2, <1>3, <1>4, <1>5 DEF WakeInv

LEMMA IdleCall == Idle \in Calls /\ Idle.at = "idle"
BY DEF Idle, Calls

\* _reserve_wake: the new request covers what no request of the thread covers.
LEMMA ReserveStep ==
  ASSUME PulseInv, NEW d \in Deliverers, ReserveWake(d)
  PROVE  WakeInv'
<1>1. WakeInv /\ deliverer[d].at = "reserve" /\ UNCHANGED <<binding, asked>>
  BY DEF PulseInv, ReserveWake
<1>2. CASE deliverer' = [deliverer EXCEPT ![d] = Idle] /\ UNCHANGED wakes
  <2>1. SameRequests BY <1>1, <1>2 DEF SameRequests, WakeInv, WakeTyped
  <2> QED BY <1>1, <1>2, <2>1, IdleCall, CallStep
<1>3. CASE /\ wakes' = Append(wakes, [ids |-> Selected(d), thread |-> binding,
                                       state |-> "prepared"])
           /\ deliverer' = [deliverer EXCEPT ![d] = [at |-> "ask", wake |-> Len(wakes) + 1]]
  <2> DEFINE w == [ids |-> Selected(d), thread |-> binding, state |-> "prepared"]
             v == [at |-> "ask", wake |-> Len(wakes) + 1]
  <2>1. deliverer[d].ids \in SUBSET (1..MaxReports) /\ wakes \in Seq(Wakes) /\ binding \in Threads
    BY <1>1 DEF WakeInv, WakeTyped, Calls, Idle
  <2>2. w \in Wakes /\ w.thread = binding /\ w.ids \cap Covered(binding) = {}
    BY <2>1 DEF Wakes, Selected
  <2>3. Len(wakes) \in Nat /\ v \in Calls /\ v.at = "ask" /\ v.wake = Len(wakes) + 1
    BY <2>1 DEF Calls
  <2> HIDE DEF w, v
  <2>4. PICK n \in Nat : n = Len(wakes) + 1 BY <2>3
  <2>5. /\ wakes' \in Seq(Wakes) /\ DOMAIN wakes' = DOMAIN wakes \cup {n} /\ n \notin DOMAIN wakes
        /\ wakes'[n] = w /\ \A k \in DOMAIN wakes : wakes'[k] = wakes[k]
    BY <1>3, <2>1, <2>2, <2>4, AppendProperties DEF w
  <2>6. /\ deliverer \in [Deliverers -> Calls] /\ deliverer' \in [Deliverers -> Calls]
        /\ deliverer'[d] = v /\ \A c \in Deliverers : c # d => deliverer'[c] = deliverer[c]
    BY <1>1, <1>3, <2>3 DEF WakeInv, WakeTyped, v
  <2>7. WakeTyped' BY <1>1, <2>5, <2>6 DEF WakeInv, WakeTyped
  <2>8. OneRequest'
    <3>1. \A k \in DOMAIN wakes : wakes[k].thread = binding => wakes[k].ids \cap w.ids = {}
      BY <2>2 DEF Covered
    <3> QED BY <1>1, <2>2, <2>5, <3>1 DEF WakeInv, OneRequest
  <2>9. OneCaller' BY <1>1, <2>3, <2>4, <2>5, <2>6 DEF WakeInv, OneCaller, Asks
  <2>10. Heard'
    <3> SUFFICES ASSUME NEW t \in Threads, NEW i \in 1..MaxReports, asked'[<<t, i>>] # 0
                 PROVE  \E k \in DOMAIN wakes' :
                          /\ wakes'[k].thread = t /\ i \in wakes'[k].ids
                          /\ \A c \in Deliverers : deliverer'[c].at = "ask" => deliverer'[c].wake # k
      BY DEF Heard
    <3>1. PICK k \in DOMAIN wakes :
            /\ wakes[k].thread = t /\ i \in wakes[k].ids
            /\ \A c \in Deliverers : deliverer[c].at = "ask" => deliverer[c].wake # k
      BY <1>1 DEF WakeInv, Heard
    <3>2. k \in DOMAIN wakes' /\ wakes'[k] = wakes[k] /\ v.wake # k BY <2>3, <2>4, <2>5
    <3>3. \A c \in Deliverers : deliverer'[c].at = "ask" => deliverer'[c].wake # k
      BY <2>6, <3>1, <3>2
    <3> QED BY <3>1, <3>2, <3>3
  <2> QED BY <2>7, <2>8, <2>9, <2>10 DEF WakeInv
<1> QED BY <1>2, <1>3 DEF ReserveWake

\* Codex hears of reports it had not heard of on that thread.
LEMMA AskStep ==
  ASSUME PulseInv, NEW d \in Deliverers, AskCodex(d)
  PROVE  WakeInv'
<1>1. WakeInv /\ deliverer[d].at = "ask" /\ UNCHANGED <<binding, wakes>>
  BY DEF PulseInv, AskCodex
<1>2. PICK accepted \in BOOLEAN, zero \in BOOLEAN :
        /\ asked' = IF accepted
                     THEN [p \in DOMAIN asked |-> asked[p] +
                             IF p[1] = wakes[deliverer[d].wake].thread
                                /\ p[2] \in wakes[deliverer[d].wake].ids THEN 1 ELSE 0]
                     ELSE asked
        /\ deliverer' = [deliverer EXCEPT ![d] =
                           [at |-> "answer", wake |-> deliverer[d].wake, zero |-> zero]]
  BY DEF AskCodex
<1> DEFINE v == [at |-> "answer", wake |-> deliverer[d].wake, zero |-> zero]
<1>3. v \in Calls /\ v.at = "answer" /\ v.wake = deliverer[d].wake
  <2>1. deliverer[d].wake \in Nat BY <1>1 DEF WakeInv, WakeTyped, Calls, Idle
  <2> QED BY <2>1 DEF Calls
<1>4. deliverer' = [deliverer EXCEPT ![d] = v] BY <1>2
<1> HIDE DEF v
<1>5. SameRequests BY <1>1 DEF SameRequests, WakeInv, WakeTyped
<1>6. CASE ~accepted BY <1>1, <1>2, <1>3, <1>4, <1>5, <1>6, CallStep
<1>7. CASE accepted
  <2>1. PICK k \in DOMAIN wakes : k = deliverer[d].wake BY <1>1 DEF WakeInv, OneCaller, Asks
  <2>2. asked \in [Threads \X (1..MaxReports) -> 0..1] BY <1>1 DEF WakeInv, WakeTyped
  <2>3. \A t \in Threads, i \in 1..MaxReports :
          asked'[<<t, i>>] = asked[<<t, i>>] +
            IF t = wakes[k].thread /\ i \in wakes[k].ids THEN 1 ELSE 0
    BY <1>2, <1>7, <2>1, <2>2
  <2>4. \A t \in Threads, i \in 1..MaxReports :
          t = wakes[k].thread /\ i \in wakes[k].ids => asked[<<t, i>>] = 0
    BY <1>1, <2>1, <2>2 DEF WakeInv, Heard, OneRequest
  <2>5. asked' \in [Threads \X (1..MaxReports) -> 0..1]
    <3>1. DOMAIN asked' = Threads \X (1..MaxReports)
          /\ asked' = [p \in Threads \X (1..MaxReports) |-> asked'[p]]
      BY <1>2, <1>7, <2>2
    <3>2. ASSUME NEW t \in Threads, NEW i \in 1..MaxReports PROVE asked'[<<t, i>>] \in 0..1
      BY <2>2, <2>3, <2>4
    <3>3. \A p \in Threads \X (1..MaxReports) : asked'[p] \in 0..1 BY <3>2
    <3> QED BY <3>1, <3>3
  <2>6. /\ deliverer \in [Deliverers -> Calls] /\ deliverer' \in [Deliverers -> Calls]
        /\ deliverer'[d] = v /\ \A c \in Deliverers : c # d => deliverer'[c] = deliverer[c]
    BY <1>1, <1>3, <1>4 DEF WakeInv, WakeTyped
  <2>7. WakeTyped' /\ OneRequest' BY <1>1, <2>5, <2>6 DEF WakeInv, WakeTyped, OneRequest
  <2>8. OneCaller' BY <1>1, <1>3, <2>6 DEF WakeInv, OneCaller, Asks
  <2>9. Heard'
    <3> SUFFICES ASSUME NEW t \in Threads, NEW i \in 1..MaxReports, asked'[<<t, i>>] # 0
                 PROVE  \E j \in DOMAIN wakes :
                          /\ wakes[j].thread = t /\ i \in wakes[j].ids
                          /\ \A c \in Deliverers : deliverer'[c].at = "ask" => deliverer'[c].wake # j
      BY <1>1 DEF Heard
    <3>1. CASE t = wakes[k].thread /\ i \in wakes[k].ids
      BY <1>1, <1>3, <2>1, <2>6, <3>1 DEF WakeInv, OneCaller, Asks
    <3>2. CASE ~(t = wakes[k].thread /\ i \in wakes[k].ids)
      <4>1. asked[<<t, i>>] # 0 BY <2>2, <2>3, <3>2
      <4> QED BY <1>1, <1>3, <2>6, <4>1 DEF WakeInv, Heard
    <3> QED BY <3>1, <3>2
  <2> QED BY <2>7, <2>8, <2>9 DEF WakeInv
<1> QED BY <1>6, <1>7

LEMMA CoveredStep ==
  ASSUME PulseInv, NEW d \in Deliverers, CoveredWake(d)
  PROVE  WakeInv'
<1>1. WakeInv /\ deliverer' = [deliverer EXCEPT ![d] = Idle] /\ UNCHANGED <<binding, asked>>
  BY DEF PulseInv, CoveredWake
<1>2. \/ UNCHANGED wakes
      \/ \E k : wakes' = WakeStateSet(k, "uncertain")
  BY DEF CoveredWake
<1>3. SameRequests BY <1>1, <1>2, StateSetSame DEF SameRequests, WakeInv, WakeTyped
<1> QED BY <1>1, <1>3, IdleCall, CallStep

LEMMA RecordStep ==
  ASSUME PulseInv, NEW d \in Deliverers, RecordWake(d)
  PROVE  WakeInv'
<1>1. WakeInv /\ deliverer' = [deliverer EXCEPT ![d] = Idle] /\ UNCHANGED <<binding, asked>>
  BY DEF PulseInv, RecordWake
<1>2. SameRequests BY <1>1, StateSetSame DEF RecordWake
<1> QED BY <1>1, <1>2, IdleCall, CallStep

LEMMA PendingStep ==
  ASSUME PulseInv, NEW d \in Deliverers, DeliverPending(d)
  PROVE  WakeInv'
<1>1. WakeInv /\ UNCHANGED <<binding, asked, wakes>> BY DEF PulseInv, DeliverPending
<1> DEFINE v == [at |-> "reserve", ids |-> Oldest(Awaiting("wake"), WakeLimit)]
<1>2. v \in Calls /\ v.at = "reserve"
  <2>1. ReportIds \subseteq 1..MaxReports BY PulseConstants DEF PulseInv, ReportInv, ReportIds
  <2>2. Oldest(Awaiting("wake"), WakeLimit) \subseteq ReportIds BY DEF Oldest, Awaiting
  <2> QED BY <2>1, <2>2 DEF Calls
<1>3. deliverer' = [deliverer EXCEPT ![d] = v] BY DEF DeliverPending
<1> HIDE DEF v
<1>4. SameRequests BY <1>1 DEF SameRequests, WakeInv, WakeTyped
<1> QED BY <1>1, <1>2, <1>3, <1>4, CallStep

LEMMA RebindStep ==
  ASSUME PulseInv, binding' \in Threads, UNCHANGED <<wakes, asked, deliverer>>
  PROVE  WakeInv'
BY DEF PulseInv, WakeInv, WakeTyped, OneRequest, OneCaller, Asks, Heard

\* The lease holder's calls end with it; what Codex was asked stays asked.
LEMMA CallsDie ==
  ASSUME PulseInv, deliverer' = [d \in Deliverers |-> Idle], UNCHANGED <<binding, wakes, asked>>
  PROVE  WakeInv'
BY IdleCall DEF PulseInv, WakeInv, WakeTyped, OneRequest, OneCaller, Asks, Heard

----------------------------------------
(* The sources *)

\* A source task goes on; the others have what they had.
LEMMA SourceStep ==
  ASSUME PulseInv, Grows, NEW s \in Sources, SourcesTyped', SourceInv(s)',
         \A r \in Sources : r # s => Same(r) /\ reader'[r] = reader[r],
         \A r \in Sources : \A w : r # s /\ reader[r].at = "turn" /\ w = reader[r].window => WithKey(w)' = {}
  PROVE  ReaderInv'
<1>1. ASSUME NEW r \in Sources, r # s PROVE SourceInv(r)' BY <1>1, SourceKept DEF PulseInv
<1> QED BY <1>1 DEF ReaderInv

\* The same for a step that leaves the reports.
LEMMA QuietStep ==
  ASSUME PulseInv, UNCHANGED reports, NEW s \in Sources, SourcesTyped', SourceInv(s)',
         \A r \in Sources : r # s => Same(r) /\ reader'[r] = reader[r]
  PROVE  ReaderInv'
<1>1. Grows /\ \A key : WithKey(key)' = WithKey(key) BY SameGrows DEF PulseInv
<1> QED BY <1>1, Unreported, SourceStep DEF PulseInv

\* ... and everything else than the task itself.
LEMMA AwaitStep ==
  ASSUME PulseInv, UNCHANGED <<reports, kind, pending, receipts, passed, marker, facts>>,
         NEW s \in Sources, NEW v \in Awaits,
         reader' = [reader EXCEPT ![s] = v], Reading(s, v)
  PROVE  ReaderInv'
<1>1. Grows BY SameGrows DEF PulseInv
<1>2. \A r \in Sources : Same(r) BY DEF Same
<1>3. SourcesTyped' /\ reader'[s] = v /\ \A r \in Sources : r # s => reader'[r] = reader[r]
  BY DEF PulseInv, ReaderInv, SourcesTyped
<1>4. Reading(s, v)' BY DEF Reading, Reported, WithKey, ReportIds, Polls, Recorded, Window
<1>5. SourceInv(s)' BY <1>1, <1>2, <1>3, <1>4, RestKept DEF PulseInv, SourceInv
<1> QED BY <1>2, <1>3, <1>5, QuietStep

LEMMA IdleAwait == Idle \in Awaits /\ Idle.at = "idle"
BY DEF Idle, Awaits

\* A revision is 0, 1 or 2.
LEMMA RevisionType ==
  ASSUME NEW r PROVE Revision(r) \in 0..2
BY DEF Revision

\* The contents read are those of the delivery that is pending from then on.
LEMMA AcquireStep ==
  ASSUME PulseInv, NEW s \in Sources, Acquire(s)
  PROVE  ReaderInv'
<1>1. PICK body \in Bodies :
        LET w == Window(s, body)
            known == IF facts[s] # None /\ facts[s].window = w THEN {facts[s].report} ELSE WithKey(w)
            i == CHOOSE j \in known : TRUE
        IN  /\ Replayed(s, body)
            /\ pending' = IF Polls(s, body) THEN [pending EXCEPT ![s] = body] ELSE pending
            /\ reader' = [reader EXCEPT ![s] =
                 IF known = {} THEN [at |-> "turn", window |-> w]
                 ELSE [at |-> "commit", window |-> w, report |-> i, revision |-> Revision(reports[i])]]
  BY DEF Acquire
<1> DEFINE w == Window(s, body)
           known == IF facts[s] # None /\ facts[s].window = w THEN {facts[s].report} ELSE WithKey(w)
           i == CHOOSE j \in known : TRUE
<1>2. w \in Keys /\ w.body = body /\ w = Window(s, w.body) BY DEF Window, Keys
<1>3. \A j \in known : Reported(j, w)
  <2>1. \A j \in WithKey(w) : Reported(j, w)
    <3>1. w.body # "question" BY <1>2, ItemsAssumption DEF Bodies
    <3> QED BY <3>1 DEF WithKey, Reported, PulseInv, ReportInv
  <2>2. facts[s] # None => Reported(facts[s].report, facts[s].window)
    BY DEF PulseInv, ReaderInv, SourceInv, Remembered
  <2> QED BY <2>1, <2>2
<1>4. known = {} => WithKey(w) = {} OBVIOUS
<1>5. known # {} => i \in known OBVIOUS
<1>6. /\ reader' = [reader EXCEPT ![s] =
           IF known = {} THEN [at |-> "turn", window |-> w]
           ELSE [at |-> "commit", window |-> w, report |-> i, revision |-> Revision(reports[i])]]
      /\ pending' = IF Polls(s, body) THEN [pending EXCEPT ![s] = body] ELSE pending
      /\ Replayed(s, body)
  BY <1>1
<1> HIDE DEF known, i, w
<1>7. UNCHANGED <<reports, kind, receipts, passed, marker, facts>> BY DEF Acquire
<1>8. PICK v \in Awaits : /\ reader' = [reader EXCEPT ![s] = v] /\ v.window = w
                         /\ IF known = {} THEN v.at = "turn"
                            ELSE v.at = "commit" /\ Reported(v.report, w)
  <2>1. CASE known = {}
    <3> DEFINE v == [at |-> "turn", window |-> w]
    <3>1. v \in Awaits /\ v.at = "turn" /\ v.window = w BY <1>2 DEF Awaits
    <3> QED BY <1>6, <2>1, <3>1
  <2>2. CASE known # {}
    <3> DEFINE v == [at |-> "commit", window |-> w, report |-> i, revision |-> Revision(reports[i])]
    <3>1. Reported(i, w) /\ i \in 1..MaxReports
      BY <1>3, <1>5, <2>2, PulseConstants DEF Reported, PulseInv, ReportInv, ReportIds
    <3>2. v \in Awaits /\ v.at = "commit" /\ v.window = w /\ v.report = i
      BY <1>2, <3>1, RevisionType DEF Awaits
    <3> QED BY <1>6, <2>2, <3>1, <3>2
  <2> QED BY <2>1, <2>2
<1>9. SourcesTyped' /\ reader'[s] = v /\ \A r \in Sources : r # s => Same(r) /\ reader'[r] = reader[r]
  BY <1>6, <1>7, <1>8 DEF PulseInv, ReaderInv, SourcesTyped, Same
<1>10. Polls(s, body) => pending'[s] = body BY <1>6 DEF PulseInv, ReaderInv, SourcesTyped
<1>11. Reading(s, v)'
  <2>1. Reported(v.report, w)' = Reported(v.report, w) /\ WithKey(w)' = WithKey(w)
        /\ Window(s, w.body)' = Window(s, w.body) /\ Polls(s, w.body)' = Polls(s, w.body)
    BY <1>7 DEF Reported, WithKey, ReportIds, Window, Polls
  <2> QED BY <1>2, <1>4, <1>8, <1>10, <2>1 DEF Reading
<1>12. Marked(s)'
  <2>1. Marked(s) BY DEF PulseInv, ReaderInv, SourceInv
  <2>2. CASE ~Polls(s, body) BY <1>6, <1>7, <2>1, <2>2 DEF Marked, Recorded
  <2>3. CASE Polls(s, body) /\ pending[s] = None
    BY <1>7, <1>10, <2>1, <2>3, ItemsAssumption DEF Marked
  <2>4. CASE Polls(s, body) /\ pending[s] # None
    <3>1. pending'[s] = pending[s] BY <1>6, <1>10, <2>4 DEF Replayed
    <3> QED BY <1>7, <2>1, <3>1 DEF Marked, Recorded
  <2> QED BY <2>2, <2>3, <2>4
<1>13. Remembered(s)' /\ Passed(s)'
  BY <1>7 DEF PulseInv, ReaderInv, SourceInv, Remembered, Passed, Reported, ReportIds, Recorded, Window
<1> QED BY <1>7, <1>9, <1>11, <1>12, <1>13, QuietStep DEF SourceInv

\* The report of a window is durable before its checkpoint is committed.
LEMMA ReportStep ==
  ASSUME PulseInv, NEW s \in Sources, ReportWindow(s)
  PROVE  Grows /\ ReaderInv'
<1>1. UNCHANGED <<kind, pending, receipts, passed, marker, facts>> /\ ReportInv
  BY DEF ReportWindow, PulseInv
<1>2. PICK w \in Keys : /\ w = reader[s].window /\ w = Window(s, w.body) /\ w.body \in Bodies
                        /\ WithKey(w) = {}
  <2>1. reader[s].at = "turn" /\ reader[s] \in Awaits /\ Reading(s, reader[s])
    BY DEF ReportWindow, PulseInv, ReaderInv, SourcesTyped, SourceInv
  <2>2. reader[s].window \in Keys BY <2>1 DEF Awaits, Idle
  <2> QED BY <2>1, <2>2 DEF Reading
<1>3. w.from = s
  <2>1. Window(s, w.body).from = s BY DEF Window
  <2> QED BY <1>2, <2>1
<1>4. CASE UNCHANGED reports /\ reader' = [reader EXCEPT ![s] = Idle]
  BY <1>1, <1>4, SameGrows, IdleAwait, AwaitStep DEF Reading
<1>5. CASE /\ AppendReport(w, s, FALSE)
           /\ reader' = [reader EXCEPT ![s] =
               [at |-> "commit", window |-> w, report |-> Cardinality(ReportIds) + 1, revision |-> 0]]
  <2>1. /\ Grows
        /\ \E i \in 1..MaxReports :
             /\ i = Cardinality(ReportIds) + 1 /\ ReportIds' = ReportIds \cup {i}
             /\ reports'[i].key = w /\ reports'[i].causal = FALSE
        /\ \A other : other # w => WithKey(other)' = WithKey(other)
    BY <1>1, <1>2, <1>3, <1>5, AppendGrows
  <2>2. PICK i \in 1..MaxReports :
             /\ i = Cardinality(ReportIds) + 1 /\ ReportIds' = ReportIds \cup {i}
             /\ reports'[i].key = w /\ reports'[i].causal = FALSE
    BY <2>1
  <2> DEFINE v == [at |-> "commit", window |-> w, report |-> i, revision |-> 0]
  <2>3. v \in Awaits /\ v.at = "commit" /\ v.window = w /\ v.report = i BY <1>2 DEF Awaits
  <2>4. reader' = [reader EXCEPT ![s] = v] BY <1>5, <2>2
  <2> HIDE DEF v
  <2>5. Polls(s, w.body) => pending[s] = w.body
    BY <1>2 DEF ReportWindow, PulseInv, ReaderInv, SourceInv, Reading
  <2>6. Reading(s, v)'
    <3>1. Reported(i, w)' BY <2>2 DEF Reported
    <3>2. Window(s, w.body)' = Window(s, w.body) BY DEF Window
    <3> QED BY <1>1, <1>2, <2>3, <2>5, <3>1, <3>2 DEF Reading, Polls
  <2>7. \A r \in Sources : Same(r) BY <1>1 DEF Same
  <2>8. SourcesTyped' /\ reader'[s] = v /\ \A r \in Sources : r # s => reader'[r] = reader[r]
    BY <1>1, <2>3, <2>4 DEF PulseInv, ReaderInv, SourcesTyped
  <2>9. SourceInv(s)' BY <2>1, <2>6, <2>7, <2>8, RestKept DEF PulseInv, SourceInv
  <2>10. \A r \in Sources : \A x : r # s /\ reader[r].at = "turn" /\ x = reader[r].window =>
           WithKey(x)' = {}
    BY <1>3, <2>1, Unreported DEF PulseInv
  <2> QED BY <2>1, <2>7, <2>8, <2>9, <2>10, SourceStep
<1> QED BY <1>2, <1>4, <1>5 DEF ReportWindow

\* A commit that is refused.
LEMMA DropStep ==
  ASSUME PulseInv, NEW s \in Sources, Leave(s),
         UNCHANGED <<reports, kind, pending, receipts, passed, marker, facts>>
  PROVE  ReaderInv'
BY IdleAwait, AwaitStep DEF Reading, Leave

\* The reader's record with another `at`.
LEMMA Moved ==
  ASSUME PulseInv, NEW s \in Sources, reader[s].at \in {"commit", "publish", "ack"},
         NEW at \in {"publish", "ack", "facts"}, Reach(s, at)
  PROVE  \E v \in Awaits : /\ reader' = [reader EXCEPT ![s] = v] /\ v.at = at /\ reader'[s] = v
                           /\ v.window = reader[s].window /\ v.report = reader[s].report
                           /\ v.window.body \in Bodies /\ v.report \in 1..MaxReports
                           /\ v.window = Window(s, v.window.body) /\ Reported(v.report, v.window)
                           /\ v.revision = reader[s].revision /\ v.revision \in 0..2
<1>1. PICK u \in [at : {"commit", "publish", "ack", "facts"}, window : Keys, report : 1..MaxReports,
                  revision : 0..2] : u = reader[s]
  BY DEF PulseInv, ReaderInv, SourcesTyped, Awaits, Idle
<1> DEFINE v == [u EXCEPT !.at = at]
<1>2. v \in Awaits /\ v.at = at /\ v.window = u.window /\ v.report = u.report
      /\ v.revision = u.revision
  BY DEF Awaits
<1>3. reader' = [reader EXCEPT ![s] = v] /\ reader'[s] = v
  BY <1>1 DEF Reach, PulseInv, ReaderInv, SourcesTyped
<1>4. u.window = Window(s, u.window.body) /\ u.window.body \in Bodies /\ Reported(u.report, u.window)
  BY <1>1 DEF PulseInv, ReaderInv, SourceInv, Reading
<1> HIDE DEF v
<1> QED BY <1>1, <1>2, <1>3, <1>4

\* Whatever is recorded or passed for a source stays so, and what is new is
\* reported and recorded.
LEMMA PassedOn ==
  ASSUME PulseInv, UNCHANGED reports, NEW s \in Sources, receipts[s] \subseteq receipts'[s],
         \A body \in passed'[s] : body \in passed[s] \/
           \E i, w : Reported(i, w) /\ w = Window(s, body) /\ [body |-> body, report |-> i] \in receipts'[s]
  PROVE  Passed(s)'
<1> SUFFICES ASSUME NEW body \in passed'[s]
             PROVE  \E i \in ReportIds' : Reported(i, Window(s, body))' /\ Recorded(s, body, i)'
  BY DEF Passed
<1>1. PICK i, w : Reported(i, w) /\ w = Window(s, body) /\ [body |-> body, report |-> i] \in receipts'[s]
  BY DEF PulseInv, ReaderInv, SourceInv, Passed, Recorded
<1>2. Reported(i, w)' /\ Window(s, body)' = w /\ i \in ReportIds' BY <1>1 DEF Reported, ReportIds, Window
<1> QED BY <1>1, <1>2 DEF Recorded

\* The receipt of a connector is its checkpoint; Discord's moves later.
LEMMA ReceiptStep ==
  ASSUME PulseInv, NEW s \in Sources, CommitReceipt(s)
  PROVE  ReaderInv'
<1>1. /\ UNCHANGED <<reports, kind, pending, marker, facts>> /\ reader[s].at = "commit"
      /\ ~Polls(s, reader[s].window.body) /\ Record(s) /\ (MovePast(s) \/ UNCHANGED passed)
  BY DEF CommitReceipt
<1>2. PICK at \in {"ack", "facts"} : Reach(s, at) BY DEF CommitReceipt
<1>3. PICK v \in Awaits : /\ reader' = [reader EXCEPT ![s] = v] /\ v.at = at /\ reader'[s] = v
                         /\ v.window = reader[s].window /\ v.report = reader[s].report
                         /\ v.window.body \in Bodies /\ v.report \in 1..MaxReports
                         /\ v.window = Window(s, v.window.body) /\ Reported(v.report, v.window)
  BY <1>1, <1>2, Moved
<1> DEFINE body == v.window.body
           receipt == [body |-> body, report |-> v.report]
<1>4. receipt \in [body : Bodies, report : 1..MaxReports] /\ body \in Bodies BY <1>3
<1>5. /\ receipts' = [receipts EXCEPT ![s] = @ \cup {receipt}]
      /\ passed' = [passed EXCEPT ![s] = @ \cup {body}] \/ passed' = passed
  BY <1>1, <1>3 DEF Record, MovePast
<1>6. Window(s, body) = v.window /\ Reported(v.report, v.window) BY <1>3
<1>7. Recorded(s, body, v.report)' <=> receipt \in receipts'[s] BY DEF Recorded
<1> HIDE DEF receipt
<1>8. /\ SourcesTyped' /\ \A r \in Sources : r # s => Same(r) /\ reader'[r] = reader[r]
      /\ receipts'[s] = receipts[s] \cup {receipt} /\ passed'[s] \subseteq passed[s] \cup {body}
  BY <1>1, <1>3, <1>4, <1>5 DEF PulseInv, ReaderInv, SourcesTyped, Same
<1>9. Reading(s, v)'
  <2>1. Reported(v.report, v.window)' BY <1>1, <1>3 DEF Reported, ReportIds
  <2>2. Window(s, body)' = Window(s, body) BY DEF Window
  <2> QED BY <1>2, <1>3, <1>7, <1>8, <2>1, <2>2 DEF Reading
<1>10. Marked(s)' BY <1>1, <1>8 DEF PulseInv, ReaderInv, SourceInv, Marked, Recorded
<1>11. Passed(s)' BY <1>1, <1>6, <1>8, PassedOn DEF receipt
<1>12. Remembered(s)' BY <1>1 DEF PulseInv, ReaderInv, SourceInv, Remembered, Reported, ReportIds
<1> QED BY <1>1, <1>3, <1>8, <1>9, <1>10, <1>11, <1>12, QuietStep DEF SourceInv

\* The marker names the reference the receipt will name.
LEMMA PrepareStep ==
  ASSUME PulseInv, NEW s \in Sources, PrepareLocal(s)
  PROVE  ReaderInv'
<1>1. /\ UNCHANGED <<reports, kind, pending, receipts, passed, facts>> /\ reader[s].at = "commit"
      /\ Polls(s, reader[s].window.body)
  BY DEF PrepareLocal
<1>2. CASE Leave(s) /\ UNCHANGED marker BY <1>1, <1>2, DropStep
<1>3. CASE ~(Leave(s) /\ UNCHANGED marker)
  <2>1. PICK at \in {"publish", "ack"} :
          /\ Reach(s, at)
          /\ \/ /\ marker' = [marker EXCEPT ![s] =
                   [ref |-> [of |-> reader[s].report, at |-> reader[s].revision], recorded |-> FALSE]]
                /\ at = "publish"
             \/ /\ UNCHANGED marker /\ marker[s] # None /\ marker[s].ref.of = reader[s].report
                /\ at = "ack" => marker[s].recorded
    BY <1>3 DEF PrepareLocal
  <2>2. PICK v \in Awaits :
          /\ reader' = [reader EXCEPT ![s] = v] /\ v.at = at /\ reader'[s] = v
          /\ v.window = reader[s].window /\ v.report = reader[s].report
          /\ v.window.body \in Bodies /\ v.report \in 1..MaxReports
          /\ v.window = Window(s, v.window.body) /\ Reported(v.report, v.window)
          /\ v.revision = reader[s].revision /\ v.revision \in 0..2
    BY <1>1, <2>1, Moved
  <2>3. pending[s] = v.window.body BY <1>1, <2>2 DEF PulseInv, ReaderInv, SourceInv, Reading
  <2> DEFINE m == [ref |-> [of |-> v.report, at |-> v.revision], recorded |-> FALSE]
  <2>4. m \in Marks /\ ~m.recorded /\ m.ref.of = v.report BY <2>2 DEF Marks
  <2>5. \/ marker' = [marker EXCEPT ![s] = m] /\ at = "publish"
        \/ /\ UNCHANGED marker /\ marker[s] # None /\ marker[s].ref.of = v.report
           /\ at = "ack" => marker[s].recorded
    BY <2>1, <2>2
  <2> HIDE DEF m
  <2>6. /\ SourcesTyped' /\ \A r \in Sources : r # s => Same(r) /\ reader'[r] = reader[r]
        /\ marker'[s] \in Marks /\ marker'[s].ref.of = v.report
        /\ marker'[s] = marker[s] \/ marker'[s] = m
    BY <1>1, <2>2, <2>4, <2>5 DEF PulseInv, ReaderInv, SourcesTyped, Same
  <2>7. Marked(s)'
    <3>1. pending'[s] # None BY <1>1, <2>2, <2>3, ItemsAssumption
    <3> QED BY <1>1, <2>4, <2>6, <3>1 DEF PulseInv, ReaderInv, SourceInv, Marked, Recorded
  <2>8. at = "ack" => Recorded(s, v.window.body, v.report)
    <3>1. at = "ack" => marker[s] # None /\ marker[s].recorded /\ marker[s].ref.of = v.report
      BY <2>5
    <3> QED BY <2>3, <3>1 DEF PulseInv, ReaderInv, SourceInv, Marked
  <2>9. Reading(s, v)'
    <3>1. Reported(v.report, v.window)' BY <1>1, <2>2 DEF Reported, ReportIds
    <3>2. Window(s, v.window.body)' = Window(s, v.window.body) BY DEF Window
    <3>3. at = "ack" => Recorded(s, v.window.body, v.report)' BY <1>1, <2>8 DEF Recorded
    <3> QED BY <1>1, <2>2, <2>3, <2>6, <3>1, <3>2, <3>3 DEF Reading
  <2>10. Remembered(s)' /\ Passed(s)'
    BY <1>1, PassedOn DEF PulseInv, ReaderInv, SourceInv, Remembered, Reported, ReportIds
  <2> QED BY <1>1, <2>2, <2>6, <2>7, <2>9, <2>10, QuietStep DEF SourceInv
<1> QED BY <1>2, <1>3

\* The receipt of a local source is recorded under its marker.
LEMMA PublishStep ==
  ASSUME PulseInv, NEW s \in Sources, PublishLocal(s)
  PROVE  ReaderInv'
<1>1. UNCHANGED <<reports, kind, pending, passed, facts>> /\ reader[s].at = "publish"
  BY DEF PublishLocal
<1>2. CASE Leave(s) /\ UNCHANGED <<receipts, marker>> BY <1>1, <1>2, DropStep
<1>3. CASE Record(s) /\ marker' = [marker EXCEPT ![s].recorded = TRUE] /\ Reach(s, "ack")
  <2>1. PICK v \in Awaits :
          /\ reader' = [reader EXCEPT ![s] = v] /\ v.at = "ack" /\ reader'[s] = v
          /\ v.window = reader[s].window /\ v.report = reader[s].report
          /\ v.window.body \in Bodies /\ v.report \in 1..MaxReports
          /\ v.window = Window(s, v.window.body) /\ Reported(v.report, v.window)
    BY <1>1, <1>3, Moved
  <2>2. PICK m \in Marks : m = marker[s] /\ m.ref.of = v.report /\ pending[s] = v.window.body
    BY <1>1, <2>1 DEF PulseInv, ReaderInv, SourceInv, Reading
  <2> DEFINE k == [m EXCEPT !.recorded = TRUE]
             receipt == [body |-> v.window.body, report |-> v.report]
  <2>3. k \in Marks /\ k.ref.of = v.report BY <2>2 DEF Marks
  <2>4. receipt \in [body : Bodies, report : 1..MaxReports] BY <2>1
  <2>5. marker' = [marker EXCEPT ![s] = k] /\ receipts' = [receipts EXCEPT ![s] = @ \cup {receipt}]
    BY <1>3, <2>1, <2>2 DEF Record
  <2>6. Recorded(s, v.window.body, v.report)' <=> receipt \in receipts'[s] BY DEF Recorded
  <2> HIDE DEF k, receipt
  <2>7. /\ SourcesTyped' /\ \A r \in Sources : r # s => Same(r) /\ reader'[r] = reader[r]
        /\ receipts'[s] = receipts[s] \cup {receipt} /\ marker'[s] = k
    BY <1>1, <2>1, <2>3, <2>4, <2>5 DEF PulseInv, ReaderInv, SourcesTyped, Same
  <2>8. Marked(s)'
    <3>1. pending'[s] # None BY <1>1, <2>1, <2>2, ItemsAssumption
    <3>2. Recorded(s, pending[s], k.ref.of)' BY <1>1, <2>2, <2>3, <2>6, <2>7 DEF Recorded
    <3> QED BY <2>7, <3>1, <3>2 DEF Marked, Recorded
  <2>9. Reading(s, v)'
    <3>1. Reported(v.report, v.window)' BY <1>1, <2>1 DEF Reported, ReportIds
    <3>2. Window(s, v.window.body)' = Window(s, v.window.body) BY DEF Window
    <3> QED BY <2>1, <2>6, <2>7, <3>1, <3>2 DEF Reading
  <2>10. Remembered(s)' /\ Passed(s)'
    BY <1>1, <2>7, PassedOn DEF PulseInv, ReaderInv, SourceInv, Remembered, Reported, ReportIds
  <2> QED BY <1>1, <2>1, <2>7, <2>8, <2>9, <2>10, QuietStep DEF SourceInv
<1> QED BY <1>2, <1>3 DEF PublishLocal

\* The second write moves the checkpoint past what was reported and recorded.
LEMMA AcknowledgeStep ==
  ASSUME PulseInv, NEW s \in Sources, Acknowledge(s)
  PROVE  ReaderInv'
<1>1. UNCHANGED <<reports, kind, receipts, facts>> /\ reader[s].at = "ack" BY DEF Acknowledge
<1>2. CASE Leave(s) /\ UNCHANGED <<passed, pending, marker>> BY <1>1, <1>2, DropStep
<1>3. CASE MovePast(s) /\ Reach(s, "facts")
           /\ \/ pending' = [pending EXCEPT ![s] = None] /\ marker' = [marker EXCEPT ![s] = None]
              \/ UNCHANGED <<pending, marker>>
  <2>1. PICK v \in Awaits :
          /\ reader' = [reader EXCEPT ![s] = v] /\ v.at = "facts" /\ reader'[s] = v
          /\ v.window = reader[s].window /\ v.report = reader[s].report
          /\ v.window.body \in Bodies /\ v.report \in 1..MaxReports
          /\ v.window = Window(s, v.window.body) /\ Reported(v.report, v.window)
    BY <1>1, <1>3, Moved
  <2>2. Recorded(s, v.window.body, v.report)
    BY <1>1, <2>1 DEF PulseInv, ReaderInv, SourceInv, Reading
  <2>3. passed' = [passed EXCEPT ![s] = @ \cup {v.window.body}] BY <1>3, <2>1 DEF MovePast
  <2>4. /\ SourcesTyped' /\ \A r \in Sources : r # s => Same(r) /\ reader'[r] = reader[r]
        /\ passed'[s] = passed[s] \cup {v.window.body}
        /\ \/ pending'[s] = None /\ marker'[s] = None
           \/ pending'[s] = pending[s] /\ marker'[s] = marker[s]
    BY <1>1, <1>3, <2>1, <2>3 DEF PulseInv, ReaderInv, SourcesTyped, Same
  <2>5. Marked(s)' BY <1>1, <2>4 DEF PulseInv, ReaderInv, SourceInv, Marked, Recorded
  <2>6. Reading(s, v)'
    <3>1. Reported(v.report, v.window)' BY <1>1, <2>1 DEF Reported, ReportIds
    <3> QED BY <2>1, <3>1 DEF Reading
  <2>7. Passed(s)' BY <1>1, <2>1, <2>2, <2>4, PassedOn DEF Recorded
  <2>8. Remembered(s)' BY <1>1 DEF PulseInv, ReaderInv, SourceInv, Remembered, Reported, ReportIds
  <2> QED BY <1>1, <2>1, <2>4, <2>5, <2>6, <2>7, <2>8, QuietStep DEF SourceInv
<1> QED BY <1>2, <1>3 DEF Acknowledge

\* The runtime state remembers the report of the window.
LEMMA FactsStep ==
  ASSUME PulseInv, NEW s \in Sources, RecordFacts(s)
  PROVE  ReaderInv'
<1>1. /\ UNCHANGED <<reports, kind, pending, receipts, passed, marker>>
      /\ Reported(reader[s].report, reader[s].window)
  BY DEF PulseInv, ReaderInv, SourceInv, Reading, RecordFacts
<1> DEFINE f == [window |-> reader[s].window, report |-> reader[s].report]
<1>2. PICK w, i : w = reader[s].window /\ i = reader[s].report /\ f.window = w /\ f.report = i OBVIOUS
<1>3. facts' = [facts EXCEPT ![s] = f] /\ reader' = [reader EXCEPT ![s] = Idle]
  BY DEF RecordFacts, Leave
<1> HIDE DEF f
<1>4. /\ SourcesTyped' /\ facts'[s] = f /\ reader'[s] = Idle
      /\ \A r \in Sources : r # s => Same(r) /\ reader'[r] = reader[r]
  BY <1>1, <1>3, IdleAwait DEF PulseInv, ReaderInv, SourcesTyped, Same
<1>5. Reported(i, w)' BY <1>1, <1>2 DEF Reported, ReportIds
<1>6. Remembered(s)' BY <1>2, <1>4, <1>5 DEF Remembered
<1>7. Reading(s, Idle)' BY IdleAwait DEF Reading
<1>8. Marked(s)' /\ Passed(s)'
  BY <1>1, PassedOn DEF PulseInv, ReaderInv, SourceInv, Marked, Recorded
<1> QED BY <1>1, <1>4, <1>6, <1>7, <1>8, QuietStep DEF SourceInv

----------------------------------------
(* The questions *)

\* An answer's key is no window's: the source tasks are not disturbed.
LEMMA ReaderUndisturbed ==
  ASSUME PulseInv, Grows, UNCHANGED sourceVars, NEW odd, odd.body = "question",
         \A key : key # odd => WithKey(key)' = WithKey(key)
  PROVE  ReaderInv'
<1>1. \A s \in Sources : \A w : reader[s].at = "turn" /\ w = reader[s].window => WithKey(w)' = {}
  BY Unreported, ItemsAssumption DEF PulseInv, Bodies
<1> QED BY <1>1, ReaderKept DEF PulseInv

\* A write of one report that keeps its key.
LEMMA WriteUndisturbed ==
  ASSUME PulseInv, Grows, \A key : WithKey(key)' = WithKey(key)
  PROVE  /\ ReportInv'
         /\ UNCHANGED sourceVars => ReaderInv'
         /\ UNCHANGED <<judge, investigator>> => QuestionInv'
         /\ UNCHANGED <<integrations, integrator, curator>> => IntegrationInv'
<1> DEFINE odd == [body |-> "question"]
<1>1. odd.body = "question" OBVIOUS
<1> HIDE DEF odd
<1> QED BY <1>1, ReaderUndisturbed, QuestionKept, IntegrationKept DEF PulseInv, Grows

LEMMA JudgeStep ==
  ASSUME PulseInv, JudgeBatch
  PROVE  PulseInv'
<1>1. QuestionInv'
  BY DEF JudgeBatch, PulseInv, QuestionInv, Oldest, Undecided, ReportIds, WithKey, ChildKey
<1> QED BY <1>1, OthersKept DEF JudgeBatch, deliveryVars, PulseInv

LEMMA DecideStep ==
  ASSUME PulseInv, DecideReport
  PROVE  PulseInv'
<1>1. /\ UNCHANGED <<sourceVars, integrations, integrator, curator, binding, wakes,
                     asked, deliverer, investigator>>
      /\ judge' \subseteq judge
  BY DEF DecideReport, deliveryVars
<1>2. Grows /\ \A key : WithKey(key)' = WithKey(key)
  <2>1. \/ UNCHANGED reports
        \/ \E i : MayDecide(i, 0) /\ \E d \in Decisions : reports' = Decided(i, d)
    BY DEF DecideReport
  <2> QED BY <2>1, SameGrows, DecideGrows DEF PulseInv
<1>3. QuestionInv'
  <2>1. investigator.at = "deliver" => WithKey(ChildKey(investigator.report))' # {}
    <3> SUFFICES ASSUME investigator.at = "deliver"
                 PROVE  WithKey(ChildKey(investigator.report))' # {}
      OBVIOUS
    <3>1. PICK key : key = ChildKey(investigator.report) /\ WithKey(key) # {}
                     /\ investigator.report \in ReportIds
      BY DEF PulseInv, QuestionInv
    <3>2. ChildKey(investigator.report)' = key BY <1>1, <1>2, <3>1 DEF ChildKey, Grows
    <3> QED BY <1>2, <3>1, <3>2
  <2> QED BY <1>1, <1>2, <2>1 DEF PulseInv, QuestionInv, Grows
<1> QED BY <1>1, <1>2, <1>3, WriteUndisturbed, WakeKept DEF PulseInv

LEMMA InvestigateStep ==
  ASSUME PulseInv, Investigate
  PROVE  PulseInv'
<1>1. PICK i \in ReportIds :
        investigator' = [at |-> "answer", report |-> i, revision |-> Revision(reports[i])]
  BY DEF Investigate, Oldest, Awaiting
<1>2. i \in 1..MaxReports BY PulseConstants DEF PulseInv, ReportInv, ReportIds
<1>3. QuestionInv' BY <1>1, <1>2, RevisionType DEF Investigate, PulseInv, QuestionInv, ReportIds
<1> QED BY <1>3, OthersKept DEF Investigate, deliveryVars, PulseInv

\* The investigator's record with another `at`.
LEMMA AnswerStep ==
  ASSUME PulseInv, AnswerQuestion
  PROVE  PulseInv'
<1>1. PICK v \in [at : {"answer", "deliver"}, report : 1..MaxReports, revision : 0..2] :
        v = investigator /\ v.at = "answer" /\ v.report \in ReportIds
  BY DEF AnswerQuestion, PulseInv, QuestionInv, Idle
<1>2. PICK u \in [at : {"answer", "deliver"}, report : 1..MaxReports, revision : 0..2] :
        u = investigator' /\ u.at = "deliver" /\ u.report = v.report
  BY <1>1 DEF AnswerQuestion
<1>3. reports[v.report] \in Reports BY <1>1 DEF PulseInv, ReportInv, ReportIds
<1>4. PICK key \in Keys : key = ChildKey(v.report) /\ key.body = "question"
  <2>1. v.report \in Nat BY PulseConstants
  <2>2. ChildKey(v.report) \in Keys /\ ChildKey(v.report).body = "question"
    BY <2>1 DEF ChildKey, Keys
  <2> QED BY <2>2
<1>5. /\ Grows /\ WithKey(key)' # {}
      /\ \A other : other # key => WithKey(other)' = WithKey(other)
  <2>1. CASE WithKey(key) # {} /\ UNCHANGED reports BY <2>1, SameGrows DEF PulseInv
  <2>2. CASE WithKey(key) = {} /\ AppendReport(key, reports[v.report].src, TRUE)
    <3>1. PICK src \in Sources : src = reports[v.report].src BY <1>3 DEF Reports
    <3>2. /\ Grows /\ \A other : other # key => WithKey(other)' = WithKey(other)
          /\ \E i : i \in ReportIds' /\ reports'[i].key = key
      BY <1>4, <2>2, <3>1, AppendGrows DEF PulseInv
    <3> QED BY <3>2 DEF WithKey
  <2> QED BY <1>1, <1>4, <2>1, <2>2 DEF AnswerQuestion
<1>6. UNCHANGED <<sourceVars, integrations, integrator, curator, binding, wakes,
                  asked, deliverer, judge>>
  BY DEF AnswerQuestion, deliveryVars
<1>7. ReaderInv' BY <1>4, <1>5, <1>6, ReaderUndisturbed
<1>8. QuestionInv'
  <2>1. ChildKey(v.report)' = key BY <1>1, <1>4, <1>5 DEF ChildKey, Grows
  <2>2. WithKey(ChildKey(investigator.report))' # {} BY <1>2, <1>5, <2>1
  <2> QED BY <1>1, <1>2, <1>5, <1>6, <2>2 DEF PulseInv, QuestionInv, Grows
<1> QED BY <1>5, <1>6, <1>7, <1>8, WakeKept, IntegrationKept DEF PulseInv, Grows

\* The answer is the delivery of the report that asked.
LEMMA AnswerDelivered ==
  ASSUME PulseInv, DeliverAnswer
  PROVE  PulseInv'
<1>1. UNCHANGED <<sourceVars, integrations, integrator, curator, binding, wakes,
                  asked, deliverer, judge>> /\ investigator' = Idle
  BY DEF DeliverAnswer, deliveryVars
<1>2. Grows /\ \A key : WithKey(key)' = WithKey(key)
  <2>1. CASE UNCHANGED reports BY <2>1, SameGrows DEF PulseInv
  <2>2. CASE ~UNCHANGED reports
    <3>1. PICK i, child : /\ i = investigator.report /\ i \in ReportIds
                          /\ child \in WithKey(ChildKey(i)) /\ reports[i].delivery = None
                          /\ reports' = Delivered(i, ReportRef(child))
      BY <2>2 DEF DeliverAnswer, MayDeliver, PulseInv, QuestionInv
    <3>2. child \in 1..MaxReports
      BY <3>1, PulseConstants DEF PulseInv, ReportInv, ReportIds, WithKey
    <3>3. PICK ref \in Refs : ref = ReportRef(child) BY <3>2, RevisionType DEF ReportRef, Refs
    <3> QED BY <3>1, <3>3, DeliverGrows DEF PulseInv
  <2> QED BY <2>1, <2>2
<1>3. QuestionInv' BY <1>1, <1>2 DEF PulseInv, QuestionInv, Grows, Idle
<1> QED BY <1>1, <1>2, <1>3, WriteUndisturbed, WakeKept DEF PulseInv

----------------------------------------
(* The integrations *)

\* A call of integrate goes on; receipts may be added or closed.
LEMMA IntegrateStep ==
  ASSUME PulseInv, Grows, NEW t \in Threads, NEW v \in Integrators,
         integrator' = [integrator EXCEPT ![t] = v], Integrating(v)', UNCHANGED curator,
         integrations' \subseteq IntegrationRecords, \A n \in integrations' : Closed(n)',
         \A n \in integrations : \E m \in integrations' :
           m.report = n.report /\ m.expected = n.expected
  PROVE  IntegrationInv'
<1>1. ASSUME NEW u \in Threads PROVE Integrating(integrator[u])'
  <2>1. CASE u = t
    <3>1. integrator'[u] = v BY <2>1 DEF PulseInv, IntegrationInv
    <3> QED BY <3>1
  <2>2. CASE u # t
    <3>1. PICK x : x = integrator[u] /\ x = integrator'[u] /\ Integrating(x)
      BY <2>2 DEF PulseInv, IntegrationInv
    <3>2. Integrating(x)' BY <3>1, IntegratingKept
    <3> QED BY <3>1, <3>2
  <2> QED BY <2>1, <2>2
<1> QED BY <1>1 DEF PulseInv, IntegrationInv

\* The same when the receipts stay.
LEMMA ReceiptsStay ==
  ASSUME PulseInv, Grows, NEW t \in Threads, NEW v \in Integrators,
         integrator' = [integrator EXCEPT ![t] = v], Integrating(v)',
         UNCHANGED <<integrations, curator>>
  PROVE  IntegrationInv'
<1>1. integrations \subseteq IntegrationRecords /\ \A n \in integrations : Closed(n)'
  BY ClosedKept DEF PulseInv, IntegrationInv
<1> QED BY <1>1, IntegrateStep

LEMMA IdleIntegrator == Idle \in Integrators /\ Idle.at = "idle"
BY DEF Idle, Integrators

LEMMA IntegrateEnds ==
  ASSUME PulseInv, NEW t \in Threads, integrator' = [integrator EXCEPT ![t] = Idle],
         UNCHANGED <<reports, integrations, curator>>
  PROVE  IntegrationInv'
<1>1. Integrating(Idle)' BY IdleIntegrator DEF Integrating
<1> QED BY <1>1, SameGrows, IdleIntegrator, ReceiptsStay DEF PulseInv

LEMMA ReadReportStep ==
  ASSUME PulseInv, NEW t \in Threads, ReadReport(t)
  PROVE  IntegrationInv'
<1>1. PICK i \in ReportIds, res \in Results, change \in BOOLEAN :
        \E rev \in 0..Revision(reports[i]) :
         integrator' = [integrator EXCEPT ![t] =
            [at |-> "prepare", report |-> i, expected |-> rev,
             result |-> Result(res), change |-> change]]
  BY DEF ReadReport
<1>2. PICK rev \in 0..Revision(reports[i]) :
         integrator' = [integrator EXCEPT ![t] =
            [at |-> "prepare", report |-> i, expected |-> rev,
             result |-> Result(res), change |-> change]]
  BY <1>1
<1>3. rev \in 0..2 /\ i \in 1..MaxReports
  BY RevisionType, PulseConstants DEF PulseInv, ReportInv, ReportIds
<1>4. PICK ref \in Refs : ref = Result(res)
  <2>1. /\ res \in (1..MaxReports) \cup Results /\ 0 \in 0..2
        /\ "result" \in {"report", "result"}
    OBVIOUS
  <2>2. Result(res) \in Refs BY <2>1 DEF Result, Refs
  <2> QED BY <2>2
<1> DEFINE v == [at |-> "prepare", report |-> i, expected |-> rev, result |-> ref,
                 change |-> change]
<1>5. v \in Integrators /\ v.at = "prepare" /\ v.report = i BY <1>3 DEF Integrators
<1>6. integrator' = [integrator EXCEPT ![t] = v] /\ UNCHANGED <<reports, integrations, curator>>
  BY <1>2, <1>4 DEF ReadReport
<1> HIDE DEF v
<1>7. Integrating(v)' BY <1>5, <1>6 DEF Integrating, ReportIds
<1> QED BY <1>5, <1>6, <1>7, SameGrows, ReceiptsStay DEF PulseInv

\* The receipt is written before the report is touched.
LEMMA PrepareIntegrationStep ==
  ASSUME PulseInv, NEW t \in Threads, PrepareIntegration(t)
  PROVE  IntegrationInv'
<1>1. UNCHANGED <<reports, curator>> /\ Grows /\ integrator[t].at = "prepare"
  BY SameGrows DEF PrepareIntegration, PulseInv
<1>2. CASE integrator' = [integrator EXCEPT ![t] = Idle] /\ UNCHANGED integrations
  BY <1>1, <1>2, IntegrateEnds
<1>3. CASE ~(integrator' = [integrator EXCEPT ![t] = Idle] /\ UNCHANGED integrations)
  <2>1. PICK c \in [at : {"prepare"}, report : 1..MaxReports, expected : 0..2, result : Refs,
                    change : BOOLEAN] : c = integrator[t] /\ c.report \in ReportIds
    BY <1>1 DEF PulseInv, IntegrationInv, Integrators, Integrating, Idle
  <2>2. PICK base \in SUBSET integrations :
          /\ integrations' = integrations \cup {Prepared(t, c, base)}
          /\ Proceed(t, [report |-> Prepared(t, c, base).report,
                         expected |-> Prepared(t, c, base).expected])
    BY <1>3, <2>1 DEF PrepareIntegration, Refuse, FollowupBase
  <2>3. PICK p \in Refs : p = IF base = {} THEN c.result ELSE (CHOOSE n \in base : TRUE).primary
    BY DEF PulseInv, IntegrationInv, IntegrationRecords
  <2>4. PICK o \in {None, "prepared", "queued", "completed", "uncertain"} :
          o = IF c.change THEN "prepared" ELSE None
    OBVIOUS
  <2>5. PICK f \in BOOLEAN : f = (base # {}) OBVIOUS
  <2> DEFINE n == [report |-> c.report, expected |-> c.expected, thread |-> t,
                   result |-> c.result, primary |-> p, change |-> c.change, followup |-> f,
                   state |-> "prepared", delivered |-> None, outbox |-> o]
  <2>6. n \in IntegrationRecords /\ n.report = c.report /\ n.expected = c.expected
        /\ n.state = "prepared"
    BY DEF IntegrationRecords
  <2>7. Prepared(t, c, base) = n BY <2>3, <2>4, <2>5 DEF Prepared
  <2> HIDE DEF n
  <2> DEFINE v == [at |-> "deliver", receipt |-> [report |-> c.report, expected |-> c.expected]]
  <2>8. v \in Integrators /\ v.at = "deliver" /\ v.receipt.report = c.report
        /\ v.receipt.expected = c.expected
    BY DEF Integrators
  <2>9. integrator' = [integrator EXCEPT ![t] = v] /\ integrations' = integrations \cup {n}
    BY <2>2, <2>6, <2>7 DEF Proceed
  <2> HIDE DEF v
  <2>10. Closed(n)' BY <1>1, <2>1, <2>6 DEF Closed, ReportIds
  <2>11. \A m \in integrations : Closed(m)' BY <1>1, ClosedKept DEF PulseInv, IntegrationInv
  <2>12. Integrating(v)' BY <2>6, <2>8, <2>9 DEF Integrating, Kept
  <2> QED BY <1>1, <2>6, <2>8, <2>9, <2>10, <2>11, <2>12, IntegrateStep DEF PulseInv, IntegrationInv
<1> QED BY <1>2, <1>3

LEMMA ResumeStep ==
  ASSUME PulseInv, NEW t \in Threads, ResumeIntegration(t)
  PROVE  IntegrationInv'
<1>1. UNCHANGED <<reports, curator, integrations>> /\ Grows
  BY SameGrows DEF ResumeIntegration, PulseInv, Refuse
<1>2. CASE integrator' = [integrator EXCEPT ![t] = Idle] BY <1>1, <1>2, IntegrateEnds
<1>3. CASE ~(integrator' = [integrator EXCEPT ![t] = Idle])
  <2>1. PICK n \in integrations : Proceed(t, [report |-> n.report, expected |-> n.expected])
    BY <1>3 DEF ResumeIntegration, Refuse, Receipts
  <2>2. n.report \in 1..MaxReports /\ n.expected \in 0..2
    BY DEF PulseInv, IntegrationInv, IntegrationRecords
  <2> DEFINE v == [at |-> "deliver", receipt |-> [report |-> n.report, expected |-> n.expected]]
  <2>3. v \in Integrators /\ v.at = "deliver" /\ v.receipt.report = n.report
        /\ v.receipt.expected = n.expected
    BY <2>2 DEF Integrators
  <2>4. integrator' = [integrator EXCEPT ![t] = v] BY <2>1 DEF Proceed
  <2> HIDE DEF v
  <2>5. Integrating(v)' BY <1>1, <2>3 DEF Integrating, Kept
  <2> QED BY <1>1, <2>3, <2>4, <2>5, ReceiptsStay
<1> QED BY <1>2, <1>3

\* The receipt a call works on is one of the receipts.
LEMMA ReceiptKnown ==
  ASSUME PulseInv, NEW t \in Threads, integrator[t].at \in {"deliver", "finalize"}
  PROVE  Receipt(t) \in integrations
<1>1. \E n \in integrations : /\ n.report = integrator[t].receipt.report
                              /\ n.expected = integrator[t].receipt.expected
  BY DEF PulseInv, IntegrationInv, Integrating, Kept
<1> QED BY <1>1 DEF Receipt

\* The call's record goes on from "deliver" to "finalize".
LEMMA FinalizeNext ==
  ASSUME PulseInv, Grows, NEW t \in Threads, integrator[t].at = "deliver",
         integrator' = [integrator EXCEPT ![t] = [@ EXCEPT !.at = "finalize"]],
         UNCHANGED <<integrations, curator>>
  PROVE  IntegrationInv'
<1>1. PICK u \in [at : {"deliver", "finalize"}, receipt : [report : 1..MaxReports, expected : 0..2]] :
        u = integrator[t] /\ Kept(u.receipt)
  BY DEF PulseInv, IntegrationInv, Integrators, Integrating, Idle
<1> DEFINE v == [u EXCEPT !.at = "finalize"]
<1>2. v \in Integrators /\ v.at = "finalize" /\ v.receipt = u.receipt BY DEF Integrators
<1>3. integrator' = [integrator EXCEPT ![t] = v] BY <1>1 DEF PulseInv, IntegrationInv
<1> HIDE DEF v
<1>4. Integrating(v)' BY <1>1, <1>2 DEF Integrating, Kept
<1> QED BY <1>2, <1>3, <1>4, ReceiptsStay

LEMMA DeliveryStep ==
  ASSUME PulseInv, NEW t \in Threads, RecordDelivery(t)
  PROVE  IntegrationInv' /\ Grows /\ \A key : WithKey(key)' = WithKey(key)
<1>1. PICK n \in integrations : n = Receipt(t) /\ n \in IntegrationRecords /\ n.report \in ReportIds
  BY ReceiptKnown DEF RecordDelivery, PulseInv, IntegrationInv, Closed
<1>2. UNCHANGED <<integrations, curator>> /\ integrator[t].at = "deliver" BY DEF RecordDelivery
<1>3. CASE UNCHANGED reports
  <2>1. Grows /\ \A key : WithKey(key)' = WithKey(key) BY <1>3, SameGrows DEF PulseInv
  <2>2. \/ integrator' = [integrator EXCEPT ![t] = Idle]
        \/ integrator' = [integrator EXCEPT ![t] = [@ EXCEPT !.at = "finalize"]]
    BY DEF RecordDelivery
  <2> QED BY <1>2, <1>3, <2>1, <2>2, IntegrateEnds, FinalizeNext
<1>4. CASE ~UNCHANGED reports
  <2>1. /\ reports' = Delivered(n.report, n.primary) /\ reports[n.report].delivery = None
        /\ integrator' = [integrator EXCEPT ![t] = [@ EXCEPT !.at = "finalize"]]
    BY <1>1, <1>4 DEF RecordDelivery, MayDeliver
  <2>2. n.primary \in Refs BY <1>1 DEF IntegrationRecords
  <2>3. Grows /\ \A key : WithKey(key)' = WithKey(key)
    BY <1>1, <2>1, <2>2, DeliverGrows DEF PulseInv
  <2> QED BY <1>2, <2>1, <2>3, FinalizeNext
<1> QED BY <1>3, <1>4

\* A receipt is closed only while its report is delivered by its own result.
LEMMA FinalizeStep ==
  ASSUME PulseInv, NEW t \in Threads, FinalizeIntegration(t)
  PROVE  IntegrationInv'
<1>1. PICK n \in IntegrationRecords : n = Receipt(t) /\ n \in integrations /\ n.report \in ReportIds
  BY ReceiptKnown DEF FinalizeIntegration, PulseInv, IntegrationInv, Closed
<1>2. /\ UNCHANGED <<reports, curator>> /\ integrator' = [integrator EXCEPT ![t] = Idle]
      /\ Grows /\ Integrating(Idle)'
  BY SameGrows, IdleIntegrator DEF FinalizeIntegration, PulseInv, Integrating
<1>3. CASE UNCHANGED integrations BY <1>2, <1>3, IntegrateEnds
<1>4. CASE ~UNCHANGED integrations
  <2>1. Recoverable(n) /\ integrations' = (integrations \ {n}) \cup {Finalized(n)}
    BY <1>1, <1>4 DEF FinalizeIntegration
  <2>2. PICK ref \in Refs : ref = ReportRef(n.report)
    BY <1>1, RevisionType DEF ReportRef, Refs, IntegrationRecords
  <2>3. PICK o \in {None, "prepared", "queued", "completed", "uncertain"} :
          o = IF n.outbox = "prepared" THEN "queued" ELSE n.outbox
    BY DEF IntegrationRecords
  <2> DEFINE m == [n EXCEPT !.state = "integrated", !.delivered = ref, !.outbox = o]
  <2>4. /\ m \in IntegrationRecords /\ m.report = n.report /\ m.expected = n.expected
        /\ m.primary = n.primary /\ m.delivered = ref /\ m.state = "integrated"
    BY DEF IntegrationRecords
  <2>5. Finalized(n) = m BY <2>2, <2>3 DEF Finalized
  <2> HIDE DEF m
  <2>6. Closed(m)' BY <1>1, <1>2, <2>1, <2>2, <2>4 DEF Closed, Recoverable, ReportIds, ReportRef
  <2>7. \A k \in integrations : Closed(k)' BY <1>2, ClosedKept DEF PulseInv, IntegrationInv
  <2>8. integrations' \subseteq IntegrationRecords /\ \A k \in integrations' : Closed(k)'
    BY <2>1, <2>4, <2>5, <2>6, <2>7 DEF PulseInv, IntegrationInv
  <2>9. \A k \in integrations : \E j \in integrations' :
          j.report = k.report /\ j.expected = k.expected
    BY <2>1, <2>4, <2>5
  <2> QED BY <1>2, <2>8, <2>9, IdleIntegrator, IntegrateStep
<1> QED BY <1>3, <1>4

LEMMA CurationStep ==
  ASSUME PulseInv, RecordCuration
  PROVE  IntegrationInv'
<1>1. /\ curator.state \in {"queued", "completed", "uncertain"}
      /\ UNCHANGED <<reports, integrator>> /\ curator' = Idle /\ Grows
  BY SameGrows DEF RecordCuration, PulseInv, IntegrationInv, Idle
<1>2. ASSUME NEW n \in integrations
      PROVE  LET m == [n EXCEPT !.outbox = curator.state] IN
             /\ m \in IntegrationRecords /\ m.report = n.report /\ m.expected = n.expected
             /\ m.state = n.state /\ m.primary = n.primary /\ m.delivered = n.delivered
  <2>1. PICK k \in IntegrationRecords : k = n BY DEF PulseInv, IntegrationInv
  <2> DEFINE m == [k EXCEPT !.outbox = curator.state]
  <2>2. /\ m \in IntegrationRecords /\ m.report = k.report /\ m.expected = k.expected
        /\ m.state = k.state /\ m.primary = k.primary /\ m.delivered = k.delivered
    BY <1>1 DEF IntegrationRecords
  <2> QED BY <2>1, <2>2
<1>3. \A n \in integrations : Closed(n)' /\ n \in IntegrationRecords
  BY <1>1, ClosedKept DEF PulseInv, IntegrationInv
<1>4. ASSUME NEW m \in integrations' PROVE m \in IntegrationRecords /\ Closed(m)'
  <2>1. PICK n \in integrations : m = n \/ m = [n EXCEPT !.outbox = curator.state]
    BY <1>4 DEF RecordCuration
  <2>2. CASE m = n BY <1>3, <2>2
  <2>3. CASE m = [n EXCEPT !.outbox = curator.state]
    <3>1. /\ m \in IntegrationRecords /\ m.report = n.report /\ m.state = n.state
          /\ m.primary = n.primary /\ m.delivered = n.delivered
      BY <1>2, <2>3
    <3> QED BY <1>3, <3>1 DEF Closed
  <2> QED BY <2>1, <2>2, <2>3
<1>5. ASSUME NEW n \in integrations
      PROVE  \E m \in integrations' : m.report = n.report /\ m.expected = n.expected
  <2>1. \E m \in integrations' : m = n \/ m = [n EXCEPT !.outbox = curator.state]
    BY DEF RecordCuration
  <2> QED BY <1>2, <2>1
<1>6. ASSUME NEW t \in Threads PROVE Integrating(integrator[t])'
  <2>1. PICK v : v = integrator[t] /\ v = integrator'[t] /\ Integrating(v)
    BY <1>1 DEF PulseInv, IntegrationInv
  <2>2. Integrating(v)' BY <1>1, <1>5, <2>1, IntegratingKept
  <2> QED BY <2>1, <2>2
<1> QED BY <1>1, <1>4, <1>6 DEF PulseInv, IntegrationInv

\* A readback of the desktop touches no receipt.
LEMMA DesktopStep ==
  ASSUME PulseInv, CallDesktop
  PROVE  IntegrationInv'
<1>1. /\ UNCHANGED <<reports, integrations, integrator>> /\ Grows
      /\ curator'.state \in {"queued", "completed", "uncertain"}
  BY SameGrows DEF CallDesktop, PulseInv
<1>2. \A n \in integrations : Closed(n)' /\ n \in IntegrationRecords
  BY <1>1, ClosedKept DEF PulseInv, IntegrationInv
<1>3. ASSUME NEW t \in Threads PROVE Integrating(integrator[t])'
  <2>1. PICK v : v = integrator[t] /\ v = integrator'[t] /\ Integrating(v)
    BY <1>1 DEF PulseInv, IntegrationInv
  <2>2. Integrating(v)' BY <1>1, <2>1, IntegratingKept
  <2> QED BY <2>1, <2>2
<1> QED BY <1>1, <1>2, <1>3 DEF PulseInv, IntegrationInv

----------------------------------------
(* The monitor *)

\* A new monitor starts with every task idle and the durable state as it was.
LEMMA MonitorStep ==
  ASSUME PulseInv, MonitorDies
  PROVE  PulseInv'
<1>1. /\ UNCHANGED <<reports, binding, wakes, asked, integrations, integrator, kind, pending,
                   receipts, passed, marker, facts>>
      /\ reader' = [s \in Sources |-> Idle] /\ judge' = {} /\ investigator' = Idle
      /\ deliverer' = [d \in Deliverers |-> Idle] /\ curator' = Idle
  BY DEF MonitorDies
<1>2. Grows BY <1>1, SameGrows DEF PulseInv
<1>3. ReaderInv'
  <2>1. SourcesTyped' BY <1>1, IdleAwait DEF PulseInv, ReaderInv, SourcesTyped
  <2>2. ASSUME NEW s \in Sources PROVE SourceInv(s)'
    <3>1. PICK v : v = Idle /\ v = reader'[s] /\ v.at = "idle" BY <1>1, IdleAwait
    <3>2. Reading(s, v)' BY <3>1 DEF Reading
    <3>3. Same(s) BY <1>1 DEF Same
    <3> QED BY <1>2, <3>1, <3>2, <3>3, RestKept DEF SourceInv, PulseInv
  <2> QED BY <2>1, <2>2 DEF ReaderInv
<1>4. QuestionInv' BY <1>1 DEF QuestionInv, Idle
<1>5. WakeInv' BY <1>1, CallsDie
<1>6. IntegrationInv'
  <2>1. \A n \in integrations : Closed(n)' /\ n \in IntegrationRecords
    BY <1>2, ClosedKept DEF PulseInv, IntegrationInv
  <2>2. ASSUME NEW t \in Threads PROVE Integrating(integrator[t])'
    <3>1. PICK v : v = integrator[t] /\ v = integrator'[t] /\ Integrating(v)
      BY <1>1 DEF PulseInv, IntegrationInv
    <3>2. Integrating(v)' BY <1>1, <1>2, <3>1, IntegratingKept
    <3> QED BY <3>1, <3>2
  <2> QED BY <1>1, <2>1, <2>2 DEF PulseInv, IntegrationInv
<1> QED BY <1>2, <1>3, <1>4, <1>5, <1>6 DEF PulseInv, Grows

\* The tasks of one source.
LEMMA SourceNext ==
  ASSUME PulseInv, NEW s \in Sources,
         \/ Acquire(s) \/ ReportWindow(s) \/ CommitRefused(s) \/ CommitReceipt(s)
         \/ PrepareLocal(s) \/ PublishLocal(s) \/ Acknowledge(s) \/ RecordFacts(s)
  PROVE  PulseInv'
<1>1. UNCHANGED <<judge, investigator, binding, wakes, asked, deliverer, integrations, integrator,
                  curator>>
  BY DEF Acquire, ReportWindow, CommitRefused, CommitReceipt, PrepareLocal, PublishLocal,
         Acknowledge, RecordFacts, deliveryVars
<1>2. CASE ReportWindow(s)
  BY <1>1, <1>2, ReportStep, QuestionKept, WakeKept, IntegrationKept DEF PulseInv, Grows
<1>3. CASE ~ReportWindow(s)
  <2>1. UNCHANGED reports
    BY <1>3 DEF Acquire, CommitRefused, CommitReceipt, PrepareLocal, PublishLocal,
                Acknowledge, RecordFacts
  <2>2. ReaderInv'
    <3>1. CASE Acquire(s) BY <3>1, AcquireStep
    <3>2. CASE CommitRefused(s) BY <3>2, DropStep DEF CommitRefused
    <3>3. CASE CommitReceipt(s) BY <3>3, ReceiptStep
    <3>4. CASE PrepareLocal(s) BY <3>4, PrepareStep
    <3>5. CASE PublishLocal(s) BY <3>5, PublishStep
    <3>6. CASE RecordFacts(s) BY <3>6, FactsStep
    <3>7. CASE Acknowledge(s) BY <3>7, AcknowledgeStep
    <3> QED BY <1>3, <3>1, <3>2, <3>3, <3>4, <3>5, <3>6, <3>7
  <2> QED BY <1>1, <2>1, <2>2, OthersKept DEF PulseInv
<1> QED BY <1>2, <1>3

\* The callers of queue_wake, and the binding.
LEMMA WakeNext ==
  ASSUME PulseInv, UNCHANGED runtimeVars,
         \/ \E d \in Deliverers : \/ DeliverPending(d) \/ ReserveWake(d) \/ CoveredWake(d)
                                  \/ AskCodex(d) \/ RecordWake(d)
         \/ Rebind
  PROVE  PulseInv'
<1>1. UNCHANGED <<reports, integrations, integrator, curator>>
  BY DEF DeliverPending, ReserveWake, CoveredWake, AskCodex, RecordWake, Rebind
<1>2. WakeInv'
  BY PendingStep, ReserveStep, CoveredStep, AskStep, RecordStep, RebindStep DEF Rebind
<1> QED BY <1>1, <1>2, OthersKept DEF PulseInv, runtimeVars

\* The Pulse turns, and the curation of what they release.
LEMMA IntegrationNext ==
  ASSUME PulseInv, UNCHANGED runtimeVars,
         \/ \E t \in Threads : \/ ReadReport(t) \/ PrepareIntegration(t) \/ ResumeIntegration(t)
                               \/ RecordDelivery(t) \/ FinalizeIntegration(t) \/ IntegratorDies(t)
         \/ CallDesktop \/ RecordCuration
  PROVE  PulseInv'
<1>1. UNCHANGED <<binding, wakes, asked, deliverer>>
  BY DEF ReadReport, PrepareIntegration, ResumeIntegration, RecordDelivery, FinalizeIntegration,
         IntegratorDies, CallDesktop, RecordCuration
<1>2. WakeInv' BY <1>1, WakeKept DEF PulseInv
<1>3. CASE \E t \in Threads : RecordDelivery(t)
  BY <1>2, <1>3, DeliveryStep, WriteUndisturbed DEF PulseInv, runtimeVars
<1>4. CASE ~\E t \in Threads : RecordDelivery(t)
  <2>1. UNCHANGED reports
    BY <1>4 DEF ReadReport, PrepareIntegration, ResumeIntegration, FinalizeIntegration,
                IntegratorDies, CallDesktop, RecordCuration
  <2>2. ASSUME NEW t \in Threads, IntegratorDies(t) PROVE IntegrationInv'
    BY <2>2, IntegrateEnds DEF IntegratorDies
  <2>3. IntegrationInv'
    BY <1>4, <2>2, ReadReportStep, PrepareIntegrationStep, ResumeStep, FinalizeStep, DesktopStep,
       CurationStep
  <2> QED BY <1>2, <2>1, <2>3, OthersKept DEF PulseInv, runtimeVars
<1> QED BY <1>3, <1>4

LEMMA PulseNextInv == PulseInv /\ [Next]_vars => PulseInv'
<1> SUFFICES ASSUME PulseInv, [Next]_vars PROVE PulseInv'
  OBVIOUS
<1>1. CASE \E s \in Sources : \/ Acquire(s) \/ ReportWindow(s) \/ CommitRefused(s)
                              \/ CommitReceipt(s) \/ PrepareLocal(s) \/ PublishLocal(s)
                              \/ Acknowledge(s) \/ RecordFacts(s)
  BY <1>1, SourceNext
<1>2. CASE JudgeBatch \/ DecideReport \/ Investigate \/ AnswerQuestion \/ DeliverAnswer
  BY <1>2, JudgeStep, DecideStep, InvestigateStep, AnswerStep, AnswerDelivered
<1>3. CASE \E d \in Deliverers : DeliverPending(d) /\ UNCHANGED runtimeVars BY <1>3, WakeNext
<1>4. CASE DeliveryNext /\ UNCHANGED runtimeVars
  BY <1>4, WakeNext, IntegrationNext DEF DeliveryNext
<1>5. CASE MonitorDies BY <1>5, MonitorStep
<1>6. CASE UNCHANGED vars BY <1>6, OthersKept DEF vars, deliveryVars, runtimeVars, PulseInv
<1> QED BY <1>1, <1>2, <1>3, <1>4, <1>5, <1>6 DEF Next

LEMMA PulseInitInv == Init => PulseInv
<1> SUFFICES ASSUME Init PROVE PulseInv
  OBVIOUS
<1>1. reports \in [1..0 -> Reports] /\ ReportIds = {} /\ 0 \in 0..MaxReports
  BY PulseConstants DEF Init, ReportIds
<1>2. ReportInv BY <1>1 DEF ReportInv
<1>3. ReaderInv
  <2>1. ASSUME NEW s \in Sources PROVE reader[s].at = "idle" /\ Reading(s, reader[s])
    BY IdleAwait DEF Init, Reading
  <2>2. SourcesTyped BY IdleAwait DEF Init, SourcesTyped
  <2>3. \A s \in Sources : pending[s] = None /\ marker[s] = None /\ facts[s] = None /\ passed[s] = {}
    BY DEF Init
  <2>4. \A s \in Sources : SourceInv(s)
    BY <2>1, <2>3 DEF SourceInv, Remembered, Marked, Passed
  <2> QED BY <2>2, <2>4 DEF ReaderInv
<1>4. QuestionInv BY DEF Init, QuestionInv, Idle
<1>5. WakeInv
  <2>1. wakes = <<>> /\ DOMAIN wakes = {} /\ wakes \in Seq(Wakes) /\ binding \in Threads
    BY DEF Init, DeliveryInit
  <2>2. asked \in [Threads \X (1..MaxReports) -> 0..1] /\ deliverer \in [Deliverers -> Calls]
    BY IdleCall DEF Init, DeliveryInit
  <2>3. \A d \in Deliverers : deliverer[d].at = "idle" BY IdleCall DEF Init, DeliveryInit
  <2>4. \A t \in Threads, i \in 1..MaxReports : asked[<<t, i>>] = 0 BY DEF Init, DeliveryInit
  <2> QED BY <2>1, <2>2, <2>3, <2>4 DEF WakeInv, WakeTyped, OneRequest, OneCaller, Asks, Heard
<1>6. IntegrationInv BY IdleIntegrator DEF Init, DeliveryInit, IntegrationInv, Integrating
<1> QED BY <1>2, <1>3, <1>4, <1>5, <1>6 DEF PulseInv

\* Every state Pulse reaches satisfies the invariant: reports, source tasks,
\* questions, wake requests and integration receipts fit together.
THEOREM PulseInvariant == Spec => []PulseInv
BY PulseInitInv, PulseNextInv, PTL DEF Spec

\* queue_wake: Codex is asked at most once about a report on a thread, however
\* the loops, their deaths and the unanswered requests interleave.
THEOREM AskedAtMostOnce == Spec => []WakeOnce
<1>1. PulseInv => WakeOnce BY DEF PulseInv, WakeInv, WakeTyped, WakeOnce
<1> QED BY <1>1, PulseInvariant, PTL

\* What a source's checkpoint has passed has one report, which its receipt names.
LEMMA OneReport ==
  ASSUME PulseInv, NEW s \in Sources, NEW body \in passed[s]
  PROVE  \E i \in ReportIds : /\ WithKey(Window(s, body)) = {i}
                              /\ reports[i].src = s /\ ~reports[i].causal
                              /\ [body |-> body, report |-> i] \in receipts[s]
<1>1. PICK i, w : i \in ReportIds /\ w = Window(s, body) /\ Reported(i, w) /\ Recorded(s, body, i)
  BY DEF PulseInv, ReaderInv, SourceInv, Passed
<1>2. w.from = s BY <1>1 DEF Window
<1>3. reports[i].src = s /\ ~reports[i].causal BY <1>1, <1>2 DEF Reported, PulseInv, ReportInv
<1>4. WithKey(w) = {i} BY <1>1 DEF WithKey, Reported, PulseInv, ReportInv
<1> QED BY <1>1, <1>3, <1>4 DEF Recorded

\* What Pulse says was done was done: an integrated receipt is its report's one
\* delivery, and what a checkpoint passed has exactly one report, named by a
\* receipt recorded for the source.
THEOREM PulseSaysTrue == Spec => []PulseHonest
<1>1. PulseInv => IntegratedIsDelivered
  BY DEF PulseInv, IntegrationInv, Closed, IntegratedIsDelivered
<1>2. PulseInv => CheckpointReported BY OneReport DEF CheckpointReported
<1> QED BY <1>1, <1>2, PulseInvariant, PTL DEF PulseHonest
=============================================================================
