------------------------- MODULE ControlLedgerProofs -------------------------
(* Proofs about the control ledger: through deaths at any step and failing
   publications the store always reads back, and what a finished mutation
   tells its caller is so, for any number of processes, events, generations
   and failures. *)
EXTENDS ControlLedger, FiniteSetTheorems, SequenceTheorems, TLAPS

----------------------------------------
(* The inductive invariant *)

\* Generations after the live one have no files yet, and a log is a finite
\* thing.
Untouched ==
  /\ \A g \in Generations : g > Generation => log[g] = None /\ head[g] = None
  /\ IsFiniteSet(Decided(View))

\* The live generation is the one the caller read: its events and its log.
Seen(v) ==
  /\ queue # None /\ v.queue # None
  /\ queue.gen = v.queue.gen /\ queue.events = v.queue.events /\ View = v.log

\* The event to decide is of the live generation and undecided.
Undecided(v) ==
  v.event \in Range(queue.events) \ Decided(View) /\ v.decision \in Decisions

\* Every event of the live generation, and there is one, is decided.
Closed == queue.events # << >> /\ Decided(View) = Range(queue.events)

\* What a caller that has not yet entered brings along.
Brings(v) ==
  /\ v.kind = "decide" =>
       v.queue # None /\ v.event \in Range(v.queue.events) /\ v.decision \in Decisions
  /\ v.kind = "archive" => v.queue # None /\ v.queue.events # << >>
  /\ v.rotated = FALSE

\* What the holder of the lock has found and done before each of its steps.
Appending(v) ==
  /\ v.pc = "queue" => v.kind = "append" /\ queue = v.queue
  /\ v.pc = "marker" =>
       /\ queue # None
       /\ IF v.kind = "append" THEN v.event \in Range(queue.events)
          ELSE v.kind = "archive" /\ v.rotated = TRUE

Recovers(v) ==
  v.pc = "recover" =>
    /\ queue # None /\ v.kind # "append"
    /\ v.rotated = FALSE => /\ Seen(v)
                            /\ v.kind = "decide" => Undecided(v)
                            /\ v.kind = "archive" => Closed

Deciding(v) ==
  /\ v.pc \in {"prepare", "publish", "finalize", "bind"} => v.kind = "decide" /\ queue # None
  /\ v.pc \in {"prepare", "publish"} => Seen(v) /\ Undecided(v)
  /\ v.pc = "prepare" => Clean
  /\ v.pc \in {"publish", "finalize", "bind"} => head[queue.gen] # None
  /\ v.pc = "publish" =>
       /\ head[queue.gen].state = "preparing" /\ head[queue.gen].before = View
       /\ head[queue.gen].after = Append(View, [event |-> v.event, decision |-> v.decision])
  /\ v.pc = "finalize" =>
       head[queue.gen].state = "preparing" /\ head[queue.gen].after = View
  /\ v.pc = "bind" => head[queue.gen].state = "initialized"
  /\ v.pc \in {"finalize", "bind"} => v.event \in Decided(View)

Archiving(v) ==
  /\ v.pc \in {"archive", "rotate"} =>
       v.kind = "archive" /\ v.rotated = FALSE /\ Seen(v) /\ Clean /\ Closed
  /\ v.pc = "rotate" => queue \in archive /\ queue.gen < MaxGeneration
  /\ v.rotated = TRUE =>
       /\ v.kind = "archive" /\ v.pc \in {"marker", "recover", "end"}
       /\ queue # None /\ v.queue # None
       /\ queue.gen = v.queue.gen + 1 /\ queue.events = << >>

\* What a finished mutation says.
Honest(v) ==
  v.pc = "end" =>
    /\ v.outcome = "ok" =>
         CASE v.kind = "append"  -> queue # None /\ v.event \in Range(queue.events)
           [] v.kind = "decide"  -> v.event \in Decided(View)
           [] v.kind = "archive" -> /\ queue # None
                                    /\ queue.gen = v.queue.gen + 1 /\ queue.events = << >>
    /\ v.outcome = "degraded" => v.event \in Decided(View)
    /\ v.outcome = "unchanged" =>
         /\ v.kind # "append" => View = v.log
         /\ queue # v.queue =>
              queue.gen = v.queue.gen /\ queue.events = v.queue.events

WriterInv(v) == Appending(v) /\ Recovers(v) /\ Deciding(v) /\ Archiving(v) /\ Honest(v)

Outside(v) == v.pc \in {"idle", "enter"}

LedgerInv ==
  /\ TypeOK /\ Readable /\ Untouched
  /\ \A p \in Procs : IF Outside(op[p]) THEN Brings(op[p]) ELSE WriterInv(op[p])

----------------------------------------
(* Logs, events and revisions *)

\* One more event in a queue.
LEMMA RangeAppend ==
  ASSUME NEW S, NEW s \in Seq(S), NEW x \in S
  PROVE  /\ Range(Append(s, x)) = Range(s) \cup {x}
         /\ Range(<< >>) = {} /\ Range(s) \subseteq S
<1>1. /\ Append(s, x) \in Seq(S) /\ Len(Append(s, x)) = Len(s) + 1
      /\ \A i \in 1 .. Len(s) : Append(s, x)[i] = s[i]
      /\ Append(s, x)[Len(s) + 1] = x
  BY AppendProperties
<1>2. DOMAIN s = 1 .. Len(s) /\ DOMAIN Append(s, x) = 1 .. Len(s) + 1 /\ Len(s) \in Nat
  BY <1>1, LenProperties
<1>3. Range(s) \cup {x} \subseteq Range(Append(s, x))
  <2>1. ASSUME NEW i \in DOMAIN s PROVE s[i] \in Range(Append(s, x)) BY <1>1, <1>2 DEF Range
  <2>2. x \in Range(Append(s, x)) BY <1>1, <1>2 DEF Range
  <2> QED BY <2>1, <2>2 DEF Range
<1>4. Range(Append(s, x)) \subseteq Range(s) \cup {x}
  <2>1. ASSUME NEW i \in 1 .. Len(s) + 1 PROVE Append(s, x)[i] \in Range(s) \cup {x}
    BY <1>1, <1>2 DEF Range
  <2> QED BY <1>2, <2>1 DEF Range
<1>5. Range(<< >>) = {} /\ Range(s) \subseteq S BY <1>2, ElementOfSeq DEF Range
<1> QED BY <1>3, <1>4, <1>5

\* One more disposition in a log.
LEMMA DecidedAppend ==
  ASSUME NEW L \in Logs, NEW x \in Dispositions
  PROVE  /\ Decided(Append(L, x)) = Decided(L) \cup {x.event}
         /\ Decided(<< >>) = {}
<1>1. /\ Append(L, x) \in Logs /\ Len(Append(L, x)) = Len(L) + 1
      /\ \A i \in 1 .. Len(L) : Append(L, x)[i] = L[i]
      /\ Append(L, x)[Len(L) + 1] = x
  BY AppendProperties DEF Logs
<1>2. DOMAIN L = 1 .. Len(L) /\ DOMAIN Append(L, x) = 1 .. Len(L) + 1 /\ Len(L) \in Nat
  BY <1>1, LenProperties DEF Logs
<1>3. Decided(L) \cup {x.event} \subseteq Decided(Append(L, x))
  <2>1. ASSUME NEW i \in DOMAIN L PROVE L[i].event \in Decided(Append(L, x))
    BY <1>1, <1>2 DEF Decided
  <2>2. x.event \in Decided(Append(L, x)) BY <1>1, <1>2 DEF Decided
  <2> QED BY <2>1, <2>2 DEF Decided
<1>4. Decided(Append(L, x)) \subseteq Decided(L) \cup {x.event}
  <2>1. ASSUME NEW i \in 1 .. Len(L) + 1 PROVE Append(L, x)[i].event \in Decided(L) \cup {x.event}
    BY <1>1, <1>2 DEF Decided
  <2> QED BY <1>2, <2>1 DEF Decided
<1>5. Decided(<< >>) = {} BY DEF Decided
<1> QED BY <1>3, <1>4, <1>5

\* A decision on an undecided event leaves one disposition per event.
LEMMA LinkedDecide ==
  ASSUME NEW L \in Logs, NEW x \in Dispositions, NEW events,
         Linked(L, events), IsFiniteSet(Decided(L)), x.event \in Range(events) \ Decided(L)
  PROVE  Linked(Append(L, x), events) /\ IsFiniteSet(Decided(Append(L, x)))
<1>1. Decided(Append(L, x)) = Decided(L) \cup {x.event} BY DecidedAppend
<1>2. Len(Append(L, x)) = Len(L) + 1 BY AppendProperties DEF Logs
<1> QED BY <1>1, <1>2, FS_AddElement DEF Linked

\* A log stays linked when its queue gets another event, and none is to begin with.
LEMMA LinkedQueue ==
  ASSUME NEW L, NEW events \in Seq(Events), NEW e \in Events, Linked(L, events)
  PROVE  Linked(L, Append(events, e))
  BY RangeAppend DEF Linked

LEMMA LinkedEmpty ==
  ASSUME NEW events \in Seq(Events)
  PROVE  Linked(<< >>, events) /\ IsFiniteSet(Decided(<< >>))
<1>1. Decided(<< >>) = {} /\ Len(<< >>) = 0 BY DEF Decided
<1> QED BY <1>1, FS_EmptySet DEF Linked

\* A revision descends from the ones before it.
LEMMA Descent ==
  ASSUME NEW S, NEW s \in Seq(S), NEW x \in S
  PROVE  /\ \A i \in 1 .. Len(s) : /\ SubSeq(Append(s, x), 1, i) = SubSeq(s, 1, i)
                                  /\ Append(s, x)[i] = s[i]
         /\ SubSeq(Append(s, x), 1, Len(s) + 1) = Append(s, x)
         /\ Append(s, x)[Len(s) + 1] = x
         /\ Len(Append(s, x)) = Len(s) + 1 /\ Append(s, x) # << >>
         /\ Append(s, x) \in Seq(S) /\ Len(s) \in Nat
<1>1. /\ Append(s, x) \in Seq(S) /\ Len(Append(s, x)) = Len(s) + 1
      /\ \A i \in 1 .. Len(s) : Append(s, x)[i] = s[i]
      /\ Append(s, x)[Len(s) + 1] = x /\ Append(s, x) # << >>
  BY AppendProperties
<1>2. SubSeq(Append(s, x), 1, Len(s) + 1) = Append(s, x) BY <1>1, SubSeqFull
<1>3. Len(s) \in Nat BY LenProperties
<1>4. ASSUME NEW i \in 1 .. Len(s) PROVE SubSeq(Append(s, x), 1, i) = SubSeq(s, 1, i)
  <2>1. <<x>> \in Seq(S) /\ Append(s, x) = s \o <<x>> BY AppendIsConcat
  <2> QED BY <1>3, <2>1, SubSeqOfConcat1
<1> QED BY <1>1, <1>2, <1>3, <1>4

----------------------------------------
(* What a step leaves alone *)

\* The files hold documents of their kinds.
StoreTyped ==
  /\ marker \in {None, "preparing", "initialized"}
  /\ queue \in Docs \cup {None} /\ (queue # None => Len(queue.events) <= MaxEvents)
  /\ archive \subseteq Docs
  /\ log \in [Generations -> Logs \cup {None}]
  /\ head \in [Generations -> Settled \cup Prepared \cup {None}]
  /\ failures \in 0 .. MaxFailures

StoreInv == StoreTyped /\ Readable /\ Untouched

\* What a reader asks of one generation that the queue descends from.
Ancestor(g, gone, revision) ==
  /\ ArchivedQueue(g, gone, revision) /\ ArchivedLog(g, gone.anchor)
  /\ Linked(head[g].log, gone.events) /\ Decided(head[g].log) = Range(gone.events)

LEMMA LineageAncestors ==
  ASSUME NEW doc
  PROVE  LineageValid(doc) <=>
           /\ doc.gen = Len(doc.prev)
           /\ \A i \in 1 .. doc.gen : Ancestor(i - 1, doc.prev[i], SubSeq(doc.prev, 1, i))
  BY DEF LineageValid, Ancestor

\* A step that changes files of the live generation only, and leaves them
\* readable, leaves the whole store readable.
LEMMA LiveStep ==
  ASSUME StoreInv, StoreTyped', queue # None, queue' # None,
         queue'.gen = queue.gen, queue'.prev = queue.prev, archive \subseteq archive',
         \A g \in Generations : g # queue.gen => head'[g] = head[g] /\ log'[g] = log[g],
         ViewValid(queue)', IsFiniteSet(Decided(View))'
  PROVE  StoreInv'
<1> USE DEF StoreInv
<1>1. PICK q \in Docs : q = queue BY DEF StoreTyped
<1>2. PICK r \in Docs : r = queue' BY DEF StoreTyped
<1>3. q.gen \in Generations /\ r.gen = q.gen /\ r.prev = q.prev BY <1>1, <1>2 DEF Docs
<1>4. LineageValid(q) BY <1>1 DEF Readable
<1>5. LineageValid(r)'
  <2>1. r.gen = Len(r.prev) BY <1>3, <1>4 DEF LineageValid
  <2>2. ASSUME NEW i \in 1 .. r.gen
        PROVE  /\ i - 1 \in Generations /\ head'[i - 1] = head[i - 1]
               /\ Content(i - 1)' = Content(i - 1)
    <3>1. i - 1 \in Generations /\ i - 1 # q.gen BY <1>3, LedgerConstants DEF Generations
    <3> QED BY <1>1, <3>1 DEF Content
  <2> QED
    <3>1. ASSUME NEW i \in 1 .. r.gen
          PROVE  Ancestor(i - 1, r.prev[i], SubSeq(r.prev, 1, i))'
      <4>1. Ancestor(i - 1, r.prev[i], SubSeq(r.prev, 1, i)) BY <1>3, <1>4, LineageAncestors
      <4> QED BY <2>2, <4>1 DEF Ancestor, ArchivedQueue, ArchivedLog
    <3>2. LineageValid(r)' <=>
            /\ r.gen = Len(r.prev)
            /\ \A i \in 1 .. r.gen : Ancestor(i - 1, r.prev[i], SubSeq(r.prev, 1, i))'
      BY DEF LineageValid, Ancestor
    <3> QED BY <2>1, <3>1, <3>2
<1>6. Readable' BY <1>2, <1>5 DEF Readable
<1>7. Generation' = Generation BY DEF Generation
<1>8. Untouched'
  <2>1. ASSUME NEW g \in Generations, g > Generation' PROVE log'[g] = None /\ head'[g] = None
    BY <1>1, <1>3, <1>7, <2>1 DEF Untouched, Generation, Generations
  <2> QED BY <2>1 DEF Untouched
<1> QED BY <1>6, <1>8

\* The holder of the lock, or who takes it, takes a step and keeps it: nobody
\* else is inside.
LEMMA WriterStep ==
  ASSUME LedgerInv, NEW p \in Procs, lock \in {p, None}, lock' = p,
         NEW v \in Operations, ~Outside(v), op' = [op EXCEPT ![p] = v],
         StoreInv', WriterInv(v)'
  PROVE  LedgerInv'
<1>1. /\ op' \in [Procs -> Operations] /\ op'[p] = v
      /\ \A q \in Procs : q # p => op'[q] = op[q] /\ Outside(op[q])
  BY LedgerConstants DEF LedgerInv, TypeOK, Outside
<1>2. TypeOK' BY <1>1 DEF LedgerInv, TypeOK, StoreInv, StoreTyped, Outside
<1>3. ASSUME NEW q \in Procs
      PROVE  (IF Outside(op[q]) THEN Brings(op[q]) ELSE WriterInv(op[q]))'
  <2>1. CASE q = p BY <1>1, <2>1 DEF Outside
  <2>2. CASE q # p BY <1>1, <2>2 DEF LedgerInv, Outside, Brings
  <2> QED BY <2>1, <2>2
<1> QED BY <1>2, <1>3 DEF LedgerInv, StoreInv

\* A process outside the lock changes nothing but itself, or gives the lock up.
LEMMA OutsideStep ==
  ASSUME LedgerInv, NEW p \in Procs, NEW v \in Operations, Outside(v), Brings(v),
         op' = [op EXCEPT ![p] = v], lock' \in {lock, None}, lock' # lock => lock = p,
         failures' \in 0 .. MaxFailures, UNCHANGED store
  PROVE  LedgerInv'
<1>1. /\ op' \in [Procs -> Operations] /\ op'[p] = v
      /\ \A q \in Procs : q # p => op'[q] = op[q]
  BY DEF LedgerInv, TypeOK
<1>2. TypeOK'
  <2>1. ASSUME NEW q \in Procs, op'[q].pc \notin {"idle", "enter"} PROVE lock' = q
    BY <1>1, <2>1, LedgerConstants DEF LedgerInv, TypeOK, Outside
  <2> QED BY <1>1, <2>1 DEF LedgerInv, TypeOK, store
<1>3. Readable' /\ Untouched'
  BY DEF LedgerInv, Readable, LineageValid, ArchivedQueue, ArchivedLog, ViewValid, Untouched,
         Generation, View, Content, store
<1>4. ASSUME NEW q \in Procs
      PROVE  (IF Outside(op[q]) THEN Brings(op[q]) ELSE WriterInv(op[q]))'
  <2>1. CASE q = p BY <1>1, <2>1 DEF Outside, Brings
  <2>2. CASE q # p /\ Outside(op[q]) BY <1>1, <2>2 DEF LedgerInv, Outside, Brings
  <2>3. CASE q # p /\ ~Outside(op[q])
    <3>1. PICK w \in Operations : w = op[q] /\ w = op'[q] BY <1>1, <2>3 DEF LedgerInv, TypeOK
    <3>2. WriterInv(w) /\ ~Outside(w) BY <2>3, <3>1 DEF LedgerInv
    <3>3. View' = View /\ Clean' = Clean BY DEF View, Generation, Content, Clean, store
    <3>4. UNCHANGED <<queue, archive, head>> BY DEF store
    <3>5. Appending(w)' /\ Recovers(w)'
      BY <3>2, <3>3, <3>4 DEF WriterInv, Appending, Recovers, Seen, Undecided, Closed, store
    <3>6. Deciding(w)' /\ Archiving(w)'
      BY <3>2, <3>3, <3>4 DEF WriterInv, Deciding, Archiving, Seen, Undecided, Closed
    <3>7. Honest(w)' BY <3>2, <3>3, <3>4 DEF WriterInv, Honest
    <3>8. WriterInv(w)' BY <3>5, <3>6, <3>7 DEF WriterInv
    <3> QED BY <3>1, <3>2, <3>8 DEF Outside
  <2> QED BY <2>1, <2>2, <2>3
<1> QED BY <1>2, <1>3, <1>4 DEF LedgerInv

----------------------------------------
(* Entering and leaving *)

LEMMA IdleOutside == Idle \in Operations /\ Outside(Idle) /\ Brings(Idle)
<1>1. << >> \in Logs BY DEF Logs
<1> QED BY <1>1 DEF Idle, Operations, Kinds, Steps, Outcomes, Outside, Brings

\* Nothing is queued in the beginning.
LEMMA InitInv == Init => LedgerInv
<1> SUFFICES ASSUME Init PROVE LedgerInv
  OBVIOUS
<1>1. TypeOK BY IdleOutside, LedgerConstants DEF Init, TypeOK, Outside
<1>2. Readable BY LedgerConstants DEF Init, Readable, Generations
<1>3. View = << >> BY LedgerConstants DEF Init, View, Content, Generation, Generations
<1>4. Untouched
  <2>1. << >> \in Seq(Events) OBVIOUS
  <2> QED BY <1>3, <2>1, LinkedEmpty DEF Init, Untouched
<1> QED BY <1>1, <1>2, <1>4, IdleOutside DEF Init, LedgerInv

LEMMA BeginInv ==
  ASSUME LedgerInv, NEW p \in Procs, NEW kind \in Kinds, NEW e \in Events \cup {None},
         NEW d \in Decisions \cup {None}, kind = "decide" => d \in Decisions,
         Begin(p, kind, e, d)
  PROVE  LedgerInv'
<1>1. PICK q \in Docs \cup {None} : q = queue BY DEF LedgerInv, TypeOK
<1>2. Generation \in Generations
  BY LedgerConstants DEF LedgerInv, TypeOK, Generation, Generations, Docs
<1>3. << >> \in Logs BY DEF Logs
<1>4. PICK L \in Logs : L = View BY <1>2, <1>3 DEF LedgerInv, TypeOK, View, Content
<1> DEFINE v == [Idle EXCEPT !.kind = kind, !.pc = "enter", !.queue = q, !.log = L,
                            !.event = e, !.decision = d]
<1>5. /\ v \in Operations /\ v.pc = "enter" /\ v.kind = kind /\ v.queue = q /\ v.event = e
      /\ v.decision = d /\ v.rotated = FALSE
  BY IdleOutside DEF Operations, Steps, Idle
<1>6. op' = [op EXCEPT ![p] = v] /\ UNCHANGED <<store, lock, failures>> BY <1>1, <1>4 DEF Begin
<1> HIDE DEF v
<1>7. Outside(v) /\ Brings(v) BY <1>1, <1>5 DEF Outside, Brings, Begin
<1> QED BY <1>5, <1>6, <1>7, OutsideStep DEF LedgerInv, TypeOK

LEMMA LeaveInv ==
  ASSUME LedgerInv, NEW p \in Procs, End(p) \/ Die(p)
  PROVE  LedgerInv'
<1>1. op' = [op EXCEPT ![p] = Idle] /\ UNCHANGED store BY DEF End, Die
<1>2. lock' \in {lock, None} /\ (lock' # lock => lock = p)
  BY DEF End, Die, At, LedgerInv, TypeOK
<1>3. failures' \in 0 .. MaxFailures BY LedgerConstants DEF End, Die, LedgerInv, TypeOK
<1> QED BY <1>1, <1>2, <1>3, IdleOutside, OutsideStep

\* An operation that changes only where it is, or what it will say.
Same(v, w) ==
  /\ v.kind = w.kind /\ v.queue = w.queue /\ v.log = w.log /\ v.event = w.event
  /\ v.decision = w.decision /\ v.unsure = w.unsure /\ v.rotated = w.rotated

LEMMA GotoStep ==
  ASSUME LedgerInv, NEW p \in Procs, NEW step \in Steps, Goto(p, step)
  PROVE  \E v \in Operations : op' = [op EXCEPT ![p] = v] /\ v.pc = step /\ Same(v, op[p])
                                /\ v.outcome = op[p].outcome
<1>1. PICK w \in Operations : w = op[p] BY DEF LedgerInv, TypeOK
<1> DEFINE v == [w EXCEPT !.pc = step]
<1>2. v \in Operations /\ v.pc = step /\ Same(v, w) /\ v.outcome = w.outcome
  BY DEF Operations, Same
<1>3. op' = [op EXCEPT ![p] = v] BY <1>1 DEF Goto
<1> HIDE DEF v
<1> QED BY <1>1, <1>2, <1>3

LEMMA FinishStep ==
  ASSUME LedgerInv, NEW p \in Procs, NEW outcome \in Outcomes, Finish(p, outcome)
  PROVE  \E v \in Operations : op' = [op EXCEPT ![p] = v] /\ v.pc = "end" /\ Same(v, op[p])
                                /\ v.outcome = outcome
<1>1. PICK w \in Operations : w = op[p] BY DEF LedgerInv, TypeOK
<1> DEFINE v == [w EXCEPT !.pc = "end", !.outcome = outcome]
<1>2. v \in Operations /\ v.pc = "end" /\ Same(v, w) /\ v.outcome = outcome
  BY DEF Operations, Same, Steps
<1>3. op' = [op EXCEPT ![p] = v] BY <1>1 DEF Finish
<1> HIDE DEF v
<1> QED BY <1>1, <1>2, <1>3

\* The invariant of the store, and what it rests on, in one fact.
LEMMA StoreNow == LedgerInv => StoreInv
  BY DEF LedgerInv, TypeOK, StoreInv, StoreTyped

LEMMA StoreStays ==
  ASSUME StoreInv, UNCHANGED store, failures' \in 0 .. MaxFailures
  PROVE  StoreInv' /\ View' = View /\ Clean' = Clean
  BY DEF StoreInv, StoreTyped, Readable, LineageValid, ArchivedQueue, ArchivedLog, ViewValid,
         Untouched, Generation, View, Content, Clean, store

\* A mutation enters when what its caller saw is current.
LEMMA EnterInv ==
  ASSUME LedgerInv, NEW p \in Procs, Enter(p)
  PROVE  LedgerInv'
<1>1. PICK w \in Operations : w = op[p] BY DEF LedgerInv, TypeOK
<1>2. /\ w.pc = "enter" /\ lock = None /\ lock' = p /\ UNCHANGED <<store, failures>>
  BY <1>1 DEF Enter, At
<1>3. Brings(w) BY <1>1, <1>2 DEF LedgerInv, Outside
<1>4. StoreInv' /\ View' = View /\ Clean' = Clean
  BY <1>2, StoreNow, StoreStays DEF StoreInv, StoreTyped
<1>5. CASE ~Fresh(p)
  <2>1. Finish(p, "conflict") BY <1>5 DEF Enter, LedgerInv
  <2>2. PICK v \in Operations : op' = [op EXCEPT ![p] = v] /\ v.pc = "end" /\ Same(v, w)
                               /\ v.outcome = "conflict"
    BY <1>1, <2>1, FinishStep DEF Outcomes
  <2>3. WriterInv(v)' /\ ~Outside(v)
    BY <1>3, <2>2 DEF WriterInv, Appending, Recovers, Deciding, Archiving, Honest, Same, Brings,
                      Outside
  <2> QED BY <1>2, <1>4, <2>2, <2>3, WriterStep
<1>6. CASE Fresh(p)
  <2>1. PICK step \in {"queue", "recover"} :
          Goto(p, step) /\ step = IF w.kind = "append" THEN "queue" ELSE "recover"
    BY <1>1, <1>6 DEF Enter, LedgerInv
  <2>2. PICK v \in Operations : op' = [op EXCEPT ![p] = v] /\ v.pc = step /\ Same(v, w)
    BY <1>1, <2>1, GotoStep DEF Steps
  <2>3. CASE w.kind = "append"
    <3>1. WriterInv(v)'
      BY <1>1, <1>2, <1>3, <1>6, <2>1, <2>2, <2>3
         DEF WriterInv, Appending, Recovers, Deciding, Archiving, Honest, Same, Brings, Fresh, store
    <3> QED BY <1>2, <1>4, <2>1, <2>2, <3>1, WriterStep DEF Outside
  <2>4. CASE w.kind # "append"
    <3>1. w.kind \in {"decide", "archive"} /\ v.pc = "recover" /\ v.kind = w.kind
      BY <2>1, <2>2, <2>4 DEF Operations, Kinds, Same
    <3>2. queue = w.queue /\ View = w.log /\ w.queue # None
      BY <1>1, <1>3, <1>6, <3>1 DEF Fresh, Brings
    <3>3. Seen(v)' /\ v.rotated = FALSE
      BY <1>2, <1>3, <1>4, <2>2, <3>2 DEF Seen, Same, Brings, store
    <3>4. v.kind = "decide" => Undecided(v)'
      BY <1>1, <1>2, <1>3, <1>4, <1>6, <2>2, <3>2 DEF Undecided, Same, Brings, Fresh, store
    <3>5. v.kind = "archive" => Closed'
      BY <1>1, <1>2, <1>3, <1>4, <1>6, <2>2, <3>2 DEF Closed, Same, Brings, Fresh, store
    <3>6. WriterInv(v)'
      BY <1>2, <3>1, <3>2, <3>3, <3>4, <3>5
         DEF WriterInv, Appending, Recovers, Deciding, Archiving, Honest, store
    <3> QED BY <1>2, <1>4, <2>2, <3>1, <3>6, WriterStep DEF Outside
  <2> QED BY <2>3, <2>4
<1> QED BY <1>5, <1>6

----------------------------------------
(* append *)

LEMMA WriteCounted ==
  ASSUME StoreInv, NEW w \in Writes, Write(w)
  PROVE  failures' \in 0 .. MaxFailures
  BY LedgerConstants DEF StoreInv, StoreTyped, Write

LEMMA PrepareMarkerInv ==
  ASSUME LedgerInv, NEW p \in Procs, NEW w \in Writes, PrepareMarker(p, w)
  PROVE  LedgerInv'
<1>1. PICK u \in Operations : u = op[p] BY DEF LedgerInv, TypeOK
<1>2. /\ u.pc = "queue" /\ queue = None /\ ~Outside(op[p]) /\ lock = p
      /\ UNCHANGED <<queue, archive, log, head, lock>> /\ marker' \in {marker, "preparing"}
  BY <1>1 DEF PrepareMarker, At, Outside, LedgerInv, TypeOK
<1>3. failures' \in 0 .. MaxFailures BY StoreNow, WriteCounted DEF PrepareMarker
<1>4. View' = View /\ Generation' = Generation BY <1>2 DEF View, Content, Generation
<1>5. StoreInv'
  <2>1. StoreTyped' BY <1>2, <1>3, StoreNow DEF StoreInv, StoreTyped
  <2>2. Readable' BY <1>2, StoreNow DEF StoreInv, Readable
  <2>3. Untouched' BY <1>2, <1>4, StoreNow DEF StoreInv, Untouched
  <2> QED BY <2>1, <2>2, <2>3 DEF StoreInv
<1>6. Appending(u) /\ u.kind = "append" /\ queue = u.queue /\ u.rotated # TRUE
  BY <1>1, <1>2 DEF LedgerInv, WriterInv, Appending, Archiving
<1>7. CASE w = "unpublished"
  <2>1. PICK v \in Operations : op' = [op EXCEPT ![p] = v] /\ v.pc = "end" /\ Same(v, u)
                               /\ v.outcome = "unchanged"
    BY <1>1, <1>7, FinishStep DEF PrepareMarker, Outcomes
  <2>2. WriterInv(v)'
    BY <1>2, <1>6, <2>1 DEF WriterInv, Appending, Recovers, Deciding, Archiving, Honest, Same
  <2> QED BY <1>2, <1>5, <2>1, <2>2, WriterStep DEF Outside
<1>8. CASE w # "unpublished"
  <2>1. op' = [op EXCEPT ![p] = u] BY <1>1, <1>8 DEF PrepareMarker, LedgerInv, TypeOK
  <2>2. WriterInv(u)'
    BY <1>2, <1>6 DEF WriterInv, Appending, Recovers, Deciding, Archiving, Honest
  <2> QED BY <1>1, <1>2, <1>5, <2>1, <2>2, WriterStep
<1> QED BY <1>7, <1>8

\* The event is at the end of the queue document, or nothing has changed.
LEMMA AppendQueueInv ==
  ASSUME LedgerInv, NEW p \in Procs, NEW w \in Writes, NEW e \in Events, AppendQueue(p, e, w)
  PROVE  LedgerInv'
<1>1. PICK u \in Operations : u = op[p] BY DEF LedgerInv, TypeOK
<1>2. /\ u.pc = "queue" /\ ~Outside(op[p]) /\ lock = p
      /\ UNCHANGED <<marker, archive, log, head, lock>>
  BY <1>1 DEF AppendQueue, At, Outside, LedgerInv, TypeOK
<1>3. failures' \in 0 .. MaxFailures BY StoreNow, WriteCounted DEF AppendQueue
<1>4. u.kind = "append" /\ queue = u.queue /\ u.rotated # TRUE
  BY <1>1, <1>2 DEF LedgerInv, WriterInv, Appending, Archiving
<1>5. PICK v \in Operations :
        /\ op' = [op EXCEPT ![p] = v] /\ v.event = e /\ v.kind = u.kind /\ v.queue = u.queue
        /\ v.rotated = u.rotated /\ v.pc \in {"marker", "end"}
        /\ w = "unpublished" => v.pc = "end" /\ v.outcome = "unchanged"
        /\ w # "unpublished" /\ v.pc = "end" => v.outcome \in {"ok", "committed"}
  <2>1. op' = [op EXCEPT ![p] = Appended(u, e, w)] BY <1>1 DEF AppendQueue
  <2>2. CASE w = "unpublished" \/ w = "visible" \/ (w = "ok" /\ marker = "initialized")
    <3>1. PICK o \in {"unchanged", "committed", "ok"} :
            /\ Appended(u, e, w) = [u EXCEPT !.event = e, !.pc = "end", !.outcome = o]
            /\ w = "unpublished" <=> o = "unchanged"
      BY <2>2 DEF Appended
    <3> DEFINE v == [u EXCEPT !.event = e, !.pc = "end", !.outcome = o]
    <3>2. /\ v \in Operations /\ v.event = e /\ v.kind = u.kind /\ v.queue = u.queue
          /\ v.rotated = u.rotated /\ v.pc = "end" /\ v.outcome = o
      BY DEF Operations, Steps, Outcomes
    <3> HIDE DEF v
    <3> QED BY <2>1, <3>1, <3>2 DEF v
  <2>3. CASE w = "ok" /\ marker # "initialized"
    <3> DEFINE v == [u EXCEPT !.event = e, !.pc = "marker"]
    <3>1. Appended(u, e, w) = v BY <2>3 DEF Appended, Operations
    <3>2. /\ v \in Operations /\ v.event = e /\ v.kind = u.kind /\ v.queue = u.queue
          /\ v.rotated = u.rotated /\ v.pc = "marker"
      BY DEF Operations, Steps
    <3> HIDE DEF v
    <3> QED BY <2>1, <2>3, <3>1, <3>2
  <2> QED BY <2>2, <2>3 DEF Writes
<1>6. CASE w = "unpublished"
  <2>1. UNCHANGED store BY <1>2, <1>6 DEF AppendQueue, store
  <2>2. StoreInv' BY <1>3, <2>1, StoreNow, StoreStays
  <2>3. WriterInv(v)'
    BY <1>4, <1>5, <1>6, <2>1
       DEF WriterInv, Appending, Recovers, Deciding, Archiving, Honest, store
  <2> QED BY <1>2, <1>5, <2>2, <2>3, WriterStep DEF Outside
<1>7. CASE w # "unpublished"
  <2>1. PICK d \in Docs : /\ d = IF queue = None THEN Doc(0, << >>, << >>, << >>) ELSE queue
                          /\ Len(d.events) < MaxEvents
    <3>1. Doc(0, << >>, << >>, << >>) \in Docs
      BY LedgerConstants DEF Doc, Docs, Generations, Revisions
    <3>2. PICK d \in Docs : d = IF queue = None THEN Doc(0, << >>, << >>, << >>) ELSE queue
      BY <3>1 DEF LedgerInv, TypeOK
    <3>3. ~Full(d) BY <3>2 DEF AppendQueue
    <3>4. Len(d.events) \in Nat BY LenProperties DEF Docs
    <3> QED BY <3>2, <3>3, <3>4, LedgerConstants DEF Full
  <2>2. PICK r \in Docs : /\ r = queue' /\ r.gen = d.gen /\ r.prev = d.prev
                          /\ r.anchor = d.anchor /\ r.events = Append(d.events, e)
    <3>1. queue' = Doc(d.gen, d.prev, d.anchor, Append(d.events, e))
      BY <1>7, <2>1 DEF AppendQueue
    <3>2. Append(d.events, e) \in Seq(Events) BY AppendProperties DEF Docs
    <3>3. PICK events \in Seq(Events) : events = Append(d.events, e) BY <3>2
    <3>4. Doc(d.gen, d.prev, d.anchor, events) \in Docs BY DEF Doc, Docs
    <3> QED BY <3>1, <3>3, <3>4 DEF Doc
  <2>3. Range(r.events) = Range(d.events) \cup {e} /\ Len(r.events) <= MaxEvents
    BY <2>1, <2>2, RangeAppend, AppendProperties, LedgerConstants DEF Docs
  <2>4. StoreTyped' /\ queue' # None
    BY <1>2, <1>3, <2>2, <2>3, StoreNow, LedgerConstants DEF StoreInv, StoreTyped
  <2>5. Linked(Content(d.gen), d.events) /\ IsFiniteSet(Decided(Content(d.gen)))
    <3>1. CASE queue = None
      <4>1. d.gen = 0 /\ d.events \in Seq(Events) /\ Content(0) = << >>
        BY <2>1, <3>1, StoreNow DEF Doc, Docs, StoreInv, Readable, Content
      <4> QED BY <4>1, LinkedEmpty
    <3>2. CASE queue # None
      BY <2>1, <3>2, StoreNow DEF StoreInv, Readable, ViewValid, Untouched, View, Generation
    <3> QED BY <3>1, <3>2
  <2>6. Linked(Content(r.gen), r.events) BY <2>2, <2>5, LinkedQueue DEF Docs
  <2>7. /\ Content(r.gen)' = Content(r.gen) /\ View' = Content(r.gen)
    BY <1>2, <2>2, <2>4 DEF Content, View, Generation
  <2>8. StoreInv'
    <3>1. CASE queue = None
      <4>1. r.gen = 0 /\ r.prev = << >> /\ r.anchor = << >> BY <2>1, <2>2, <3>1 DEF Doc
      <4>2. log[0] = None /\ head[0] = None BY <3>1, StoreNow DEF StoreInv, Readable
      <4>3. LineageValid(r)' BY <4>1 DEF LineageValid
      <4>4. ViewValid(r)' BY <1>2, <2>6, <2>7, <4>1, <4>2 DEF ViewValid, Linked
      <4>5. Readable' BY <2>2, <2>4, <4>3, <4>4 DEF Readable
      <4>6. Untouched'
        BY <1>2, <2>2, <2>4, <2>5, <2>7, <3>1, <4>1, StoreNow DEF StoreInv, Untouched, Generation
      <4> QED BY <2>4, <4>5, <4>6 DEF StoreInv
    <3>2. CASE queue # None
      <4>1. ViewValid(queue) BY <3>2, StoreNow DEF StoreInv, Readable
      <4>2. ViewValid(r)' BY <1>2, <2>1, <2>2, <2>6, <2>7, <3>2, <4>1 DEF ViewValid
      <4> QED BY <1>2, <2>1, <2>2, <2>4, <2>5, <2>7, <3>2, <4>2, StoreNow, LiveStep
    <3> QED BY <3>1, <3>2
  <2>9. WriterInv(v)'
    BY <1>4, <1>5, <1>7, <2>2, <2>3, <2>4
       DEF WriterInv, Appending, Recovers, Deciding, Archiving, Honest
  <2> QED BY <1>2, <1>5, <2>8, <2>9, WriterStep DEF Outside
<1> QED BY <1>6, <1>7

LEMMA QueueFullInv ==
  ASSUME LedgerInv, NEW p \in Procs, QueueFull(p)
  PROVE  LedgerInv'
<1>1. PICK u \in Operations : u = op[p] BY DEF LedgerInv, TypeOK
<1>2. /\ u.pc = "queue" /\ ~Outside(op[p]) /\ lock = p /\ UNCHANGED <<store, lock, failures>>
  BY <1>1 DEF QueueFull, At, Outside, LedgerInv, TypeOK
<1>3. u.kind = "append" /\ queue = u.queue /\ u.rotated # TRUE
  BY <1>1, <1>2 DEF LedgerInv, WriterInv, Appending, Archiving
<1>4. PICK v \in Operations : op' = [op EXCEPT ![p] = v] /\ v.pc = "end" /\ Same(v, u)
                             /\ v.outcome = "unchanged"
  BY <1>1, FinishStep DEF QueueFull, Outcomes
<1>5. WriterInv(v)'
  BY <1>2, <1>3, <1>4
     DEF WriterInv, Appending, Recovers, Deciding, Archiving, Honest, Same, store
<1>6. StoreInv' BY <1>2, StoreNow, StoreStays DEF StoreInv, StoreTyped
<1> QED BY <1>2, <1>4, <1>5, <1>6, WriterStep DEF Outside

----------------------------------------
(* The marker and the recovery *)

LEMMA FinalizeMarkerInv ==
  ASSUME LedgerInv, NEW p \in Procs, NEW w \in Writes, FinalizeMarker(p, w)
  PROVE  LedgerInv'
<1>1. PICK u \in Operations : u = op[p] BY DEF LedgerInv, TypeOK
<1>2. /\ u.pc = "marker" /\ ~Outside(op[p]) /\ lock = p
      /\ UNCHANGED <<queue, archive, log, head, lock>> /\ marker' \in {marker, "initialized"}
  BY <1>1 DEF FinalizeMarker, At, Outside, LedgerInv, TypeOK
<1>3. WriterInv(u) /\ queue # None BY <1>1, <1>2 DEF LedgerInv, WriterInv, Appending
<1>4. View' = View BY <1>2 DEF View, Content, Generation
<1>5. StoreInv'
  <2>1. StoreTyped' BY <1>2, StoreNow, WriteCounted DEF FinalizeMarker, StoreInv, StoreTyped
  <2>2. ViewValid(queue)' BY <1>2, <1>3, StoreNow DEF StoreInv, Readable, ViewValid, Content
  <2>3. IsFiniteSet(Decided(View))' BY <1>4, StoreNow DEF StoreInv, Untouched
  <2> QED BY <1>2, <1>3, <2>1, <2>2, <2>3, StoreNow, LiveStep
<1>6. CASE w # "ok"
  <2>1. PICK v \in Operations : op' = [op EXCEPT ![p] = v] /\ v.pc = "end" /\ Same(v, u)
                               /\ v.outcome = "committed"
    BY <1>1, <1>6, FinishStep DEF FinalizeMarker, Outcomes
  <2>2. WriterInv(v)'
    BY <1>2, <1>3, <2>1
       DEF WriterInv, Appending, Recovers, Deciding, Archiving, Honest, Same
  <2> QED BY <1>2, <1>5, <2>1, <2>2, WriterStep DEF Outside
<1>7. CASE w = "ok" /\ u.kind = "append"
  <2>1. PICK v \in Operations : op' = [op EXCEPT ![p] = v] /\ v.pc = "end" /\ Same(v, u)
                               /\ v.outcome = "ok"
    BY <1>1, <1>7, FinishStep DEF FinalizeMarker, Outcomes
  <2>2. WriterInv(v)'
    BY <1>2, <1>3, <1>7, <2>1
       DEF WriterInv, Appending, Recovers, Deciding, Archiving, Honest, Same
  <2> QED BY <1>2, <1>5, <2>1, <2>2, WriterStep DEF Outside
<1>8. CASE w = "ok" /\ u.kind # "append"
  <2>1. PICK v \in Operations : op' = [op EXCEPT ![p] = v] /\ v.pc = "recover" /\ Same(v, u)
    BY <1>1, <1>8, GotoStep DEF FinalizeMarker, Steps
  <2>2. WriterInv(v)'
    BY <1>2, <1>3, <1>8, <2>1
       DEF WriterInv, Appending, Recovers, Deciding, Archiving, Honest, Same
  <2> QED BY <1>2, <1>5, <2>1, <2>2, WriterStep DEF Outside
<1> QED BY <1>6, <1>7, <1>8

\* A step of the recovery that keeps the events and the log goes on, or ends
\* with the truth.
LEMMA RecoveringInv ==
  ASSUME LedgerInv, NEW p \in Procs, NEW w \in Writes, At(p, "recover"), Recovering(p, w),
         UNCHANGED lock, StoreInv', queue' # None, queue'.gen = queue.gen,
         queue'.events = queue.events, View' = View
  PROVE  LedgerInv'
<1>1. PICK u \in Operations : u = op[p] BY DEF LedgerInv, TypeOK
<1>2. u.pc = "recover" /\ lock = p /\ WriterInv(u) /\ u.rotated \in BOOLEAN
  BY <1>1 DEF At, Outside, LedgerInv, TypeOK, Operations
<1>3. CASE w = "ok"
  <2>1. PICK v \in Operations : op' = [op EXCEPT ![p] = v] /\ v.pc = "recover" /\ Same(v, u)
    BY <1>1, <1>3, GotoStep DEF Recovering, Then, Steps
  <2>2. WriterInv(v)'
    BY <1>2, <2>1 DEF WriterInv, Appending, Recovers, Deciding, Archiving, Honest, Same, Seen,
                      Undecided, Closed
  <2> QED BY <1>2, <2>1, <2>2, WriterStep DEF Outside
<1>4. CASE w = "visible" \/ (w = "unpublished" /\ u.rotated = TRUE)
  <2>1. PICK v \in Operations : op' = [op EXCEPT ![p] = v] /\ v.pc = "end" /\ Same(v, u)
                               /\ v.outcome = "committed"
    <3>1. Finish(p, "committed") BY <1>1, <1>4 DEF Recovering, Then
    <3> QED BY <1>1, <3>1, FinishStep DEF Outcomes
  <2>2. WriterInv(v)'
    BY <1>2, <2>1 DEF WriterInv, Appending, Recovers, Deciding, Archiving, Honest, Same
  <2> QED BY <1>2, <2>1, <2>2, WriterStep DEF Outside
<1>5. CASE w = "unpublished" /\ u.rotated = FALSE
  <2>1. PICK v \in Operations : op' = [op EXCEPT ![p] = v] /\ v.pc = "end" /\ Same(v, u)
                               /\ v.outcome = "unchanged"
    BY <1>1, <1>5, FinishStep DEF Recovering, Then, Outcomes
  <2>2. WriterInv(v)'
    BY <1>2, <1>5, <2>1
       DEF WriterInv, Appending, Recovers, Deciding, Archiving, Honest, Same, Seen
  <2> QED BY <1>2, <2>1, <2>2, WriterStep DEF Outside
<1> QED BY <1>2, <1>3, <1>4, <1>5 DEF Writes

\* The head that recovery publishes has the ancestry the log and the anchor ask for.
LEMMA RecoveredValid ==
  ASSUME NEW h \in Prepared, NEW L \in Logs, NEW anchor \in Seq(Logs), anchor # << >>,
         HeadValid(h), h.prev = anchor,
         \/ L = h.before /\ Append(h.parent, L) = anchor
         \/ L = h.after /\ Append(anchor, L) = h.proposed
  PROVE  /\ Recovered(h, L, anchor) \in Settled
         /\ HeadValid(Recovered(h, L, anchor)) /\ Recovered(h, L, anchor).log = L
         /\ \/ HeadRevision(Recovered(h, L, anchor)) = anchor
            \/ Recovered(h, L, anchor).prev = anchor
<1>1. /\ h # None /\ h.state = "preparing" /\ h.before \in Logs /\ h.after \in Logs
      /\ h.parent \in Seq(Logs)
  BY LedgerConstants DEF Prepared
<1>2. CASE L = h.before
  <2>1. Append(h.parent, L) = anchor
    <3>1. h.before # h.after BY <1>1, LenProperties DEF HeadValid, Logs
    <3> QED BY <1>2, <3>1
  <2>2. Recovered(h, L, anchor) = [state |-> "initialized", log |-> L, prev |-> h.parent]
    BY <1>1, <1>2 DEF Recovered, Initialized
  <2>3. (L = << >>) = (h.parent = << >>) BY <1>1, <1>2 DEF HeadValid
  <2> QED BY <1>1, <2>1, <2>2, <2>3 DEF Settled, HeadValid, HeadRevision
<1>3. CASE L # h.before
  <2>1. L = h.after /\ L # << >> BY <1>1, <1>3, LenProperties DEF HeadValid, Logs
  <2>2. Recovered(h, L, anchor) = [state |-> "initialized", log |-> L, prev |-> anchor]
    BY <1>1, <1>3 DEF Recovered, Initialized
  <2> QED BY <2>1, <2>2 DEF Settled, HeadValid
<1> QED BY <1>2, <1>3

\* A head fits the log and the anchor it is found with.
Fits(h, L, anchor) ==
  IF h.state = "initialized"
  THEN L = h.log /\ (HeadRevision(h) = anchor \/ h.prev = anchor)
  ELSE /\ h.prev = anchor
       /\ \/ L = h.before /\ Append(h.parent, L) = anchor
          \/ L = h.after /\ Append(anchor, L) = h.proposed

\* What a readable store says of its live generation.
LEMMA LiveView ==
  ASSUME StoreInv, queue # None
  PROVE  /\ queue \in Docs /\ queue.gen \in Generations /\ queue.events \in Seq(Events)
         /\ queue.anchor \in Seq(Logs)
         /\ Content(queue.gen) = View /\ View \in Logs
         /\ Linked(View, queue.events) /\ IsFiniteSet(Decided(View))
         /\ head[queue.gen] \in Settled \cup Prepared \cup {None}
         /\ head[queue.gen] # None => HeadValid(head[queue.gen])
         /\ queue.anchor = << >> =>
              /\ log[queue.gen] = None /\ View = << >>
              /\ head[queue.gen] # None => head[queue.gen] = Initialized(<< >>, << >>)
         /\ queue.anchor # << >> =>
              head[queue.gen] # None /\ Fits(head[queue.gen], View, queue.anchor)
<1>1. /\ queue \in Docs /\ queue.gen \in Generations /\ queue.events \in Seq(Events)
      /\ queue.anchor \in Seq(Logs)
  BY DEF StoreInv, StoreTyped, Docs
<1>2. Content(queue.gen) = View BY DEF View, Generation
<1>3. << >> \in Logs BY DEF Logs
<1>4. View \in Logs BY <1>1, <1>2, <1>3 DEF StoreInv, StoreTyped, Content
<1>5. ViewValid(queue) BY DEF StoreInv, Readable
<1>6. head[queue.gen] \in Settled \cup Prepared \cup {None} BY <1>1 DEF StoreInv, StoreTyped
<1>7. Linked(View, queue.events) /\ (head[queue.gen] # None => HeadValid(head[queue.gen]))
  BY <1>2, <1>5 DEF ViewValid
<1>8. queue.anchor = << >> =>
        /\ log[queue.gen] = None /\ View = << >>
        /\ head[queue.gen] # None => head[queue.gen] = Initialized(<< >>, << >>)
  BY <1>2, <1>5 DEF ViewValid, Content
<1>9. queue.anchor # << >> =>
        head[queue.gen] # None /\ Fits(head[queue.gen], View, queue.anchor)
  BY <1>2, <1>5 DEF ViewValid, Fits
<1> QED BY <1>1, <1>2, <1>4, <1>6, <1>7, <1>8, <1>9 DEF StoreInv, Untouched

\* Publishing a head that fits.
LEMMA HeadStep ==
  ASSUME StoreInv, queue # None, NEW h \in Settled \cup Prepared, HeadValid(h),
         head' = [head EXCEPT ![queue.gen] = h], UNCHANGED <<marker, queue, archive, log>>,
         failures' \in 0 .. MaxFailures,
         IF queue.anchor = << >> THEN h = Initialized(<< >>, << >>)
                                 ELSE Fits(h, View, queue.anchor)
  PROVE  StoreInv' /\ View' = View /\ head'[queue.gen] = h
<1>1. PICK q \in Docs : q = queue /\ q = queue' BY LiveView
<1>2. /\ q.gen \in Generations /\ Content(q.gen) = View /\ Linked(View, q.events)
      /\ IsFiniteSet(Decided(View)) /\ (q.anchor = << >> => log[q.gen] = None)
  BY <1>1, LiveView
<1>3. /\ head'[q.gen] = h /\ h # None
      /\ \A g \in Generations : g # q.gen => head'[g] = head[g]
  BY <1>1, <1>2, LedgerConstants DEF StoreInv, StoreTyped
<1>4. View' = View /\ Content(q.gen)' = View BY <1>2 DEF View, Content, Generation
<1>5. StoreTyped' BY DEF StoreInv, StoreTyped
<1>6. ViewValid(q)' BY <1>1, <1>2, <1>3, <1>4 DEF ViewValid, Fits
<1> QED BY <1>1, <1>2, <1>3, <1>4, <1>5, <1>6, LiveStep

\* Anchoring the queue document to its head.
LEMMA AnchorStep ==
  ASSUME StoreInv, queue # None, head[queue.gen] # None, head[queue.gen].state = "initialized",
         queue' = Anchored, UNCHANGED <<marker, archive, log, head>>,
         failures' \in 0 .. MaxFailures
  PROVE  /\ StoreInv' /\ View' = View /\ queue' # None /\ queue'.gen = queue.gen
         /\ queue'.events = queue.events
<1>1. PICK q \in Docs : q = queue BY LiveView
<1>2. /\ q.gen \in Generations /\ Content(q.gen) = View /\ Linked(View, q.events)
      /\ IsFiniteSet(Decided(View))
  BY <1>1, LiveView
<1>3. PICK h \in Settled : h = head[q.gen] /\ HeadValid(h) /\ h.log = View
  <2>1. head[q.gen] \in Settled /\ HeadValid(head[q.gen]) BY <1>1, LiveView DEF Prepared
  <2>2. CASE q.anchor = << >>
    <3>1. head[q.gen] = Initialized(<< >>, << >>) /\ View = << >> BY <1>1, <2>2, LiveView
    <3> QED BY <2>1, <3>1 DEF Initialized
  <2>3. CASE q.anchor # << >>
    <3>1. Fits(head[q.gen], View, q.anchor) BY <1>1, <2>3, LiveView
    <3> QED BY <1>1, <2>1, <3>1 DEF Fits
  <2> QED BY <2>2, <2>3
<1>4. PICK a \in Seq(Logs) : a = HeadRevision(h) /\ a # << >>
  BY AppendProperties DEF Settled, HeadRevision
<1> DEFINE r == [q EXCEPT !.anchor = a]
<1>5. /\ r \in Docs /\ r.gen = q.gen /\ r.prev = q.prev /\ r.events = q.events
      /\ r.anchor = a
  BY DEF Docs
<1>6. queue' = r BY <1>1, <1>3, <1>4 DEF Anchored
<1> HIDE DEF r
<1>7. r # None BY <1>5, LedgerConstants
<1>8. View' = View /\ Content(r.gen)' = View
  BY <1>1, <1>2, <1>5, <1>6, <1>7 DEF View, Content, Generation
<1>9. StoreTyped' BY <1>1, <1>5, <1>6 DEF StoreInv, StoreTyped
<1>10. ViewValid(r)' BY <1>2, <1>3, <1>4, <1>5, <1>8, LedgerConstants DEF ViewValid, Settled
<1> QED BY <1>1, <1>2, <1>5, <1>6, <1>7, <1>8, <1>9, <1>10, LiveStep

LEMMA RecoverHeadInv ==
  ASSUME LedgerInv, NEW p \in Procs, NEW w \in Writes, RecoverHead(p, w)
  PROVE  LedgerInv'
<1>1. /\ StoreInv /\ failures' \in 0 .. MaxFailures
      /\ At(p, "recover") /\ Recovering(p, w) /\ UNCHANGED <<marker, queue, archive, log, lock>>
  BY StoreNow, WriteCounted DEF RecoverHead
<1>2. queue # None
  <2>1. WriterInv(op[p]) BY <1>1 DEF LedgerInv, At, Outside
  <2> QED BY <1>1, <2>1 DEF WriterInv, Recovers, At
<1>3. CASE w = "unpublished"
  <2>1. UNCHANGED store BY <1>1, <1>3 DEF RecoverHead, store
  <2> QED BY <1>1, <1>2, <2>1, StoreStays, RecoveringInv
<1>4. CASE w # "unpublished"
  <2>1. PICK h \in Settled \cup Prepared \cup {None} : h = head[queue.gen]
    BY <1>1, <1>2, LiveView
  <2> DEFINE n == Recovered(h, View, queue.anchor)
  <2>2. head' = [head EXCEPT ![queue.gen] = n]
    BY <1>1, <1>2, <1>4, <2>1, LiveView DEF RecoverHead
  <2>3. /\ n \in Settled /\ HeadValid(n)
        /\ IF queue.anchor = << >> THEN n = Initialized(<< >>, << >>)
                                   ELSE Fits(n, View, queue.anchor)
    <3>1. CASE h = None
      <4>1. n = Initialized(<< >>, << >>) /\ queue.anchor = << >>
        BY <1>1, <1>2, <2>1, <3>1, LiveView DEF Recovered
      <4>2. << >> \in Logs /\ << >> \in Seq(Logs) BY DEF Logs
      <4> QED BY <4>1, <4>2 DEF Initialized, Settled, HeadValid
    <3>2. CASE h # None
      <4>1. h.state = "preparing" /\ h \in Prepared /\ HeadValid(h)
        BY <1>1, <1>2, <2>1, <3>2, LiveView DEF RecoverHead, Settled
      <4>2. queue.anchor # << >> BY <1>1, <1>2, <2>1, <3>2, <4>1, LiveView DEF Initialized
      <4>3. Fits(h, View, queue.anchor) BY <1>1, <1>2, <2>1, <4>2, LiveView
      <4>4. View \in Logs /\ queue.anchor \in Seq(Logs) BY <1>1, <1>2, LiveView
      <4>5. /\ n \in Settled /\ HeadValid(n) /\ n.log = View
            /\ HeadRevision(n) = queue.anchor \/ n.prev = queue.anchor
        BY <4>1, <4>2, <4>3, <4>4, RecoveredValid DEF Fits
      <4> QED BY <4>2, <4>5 DEF Fits, Settled
    <3> QED BY <3>1, <3>2
  <2> HIDE DEF n
  <2>4. StoreInv' /\ View' = View BY <1>1, <1>2, <2>2, <2>3, HeadStep
  <2> QED BY <1>1, <1>2, <2>4, RecoveringInv
<1> QED BY <1>3, <1>4

LEMMA RecoverBindInv ==
  ASSUME LedgerInv, NEW p \in Procs, NEW w \in Writes, RecoverBind(p, w)
  PROVE  LedgerInv'
<1>1. /\ StoreInv /\ failures' \in 0 .. MaxFailures
      /\ At(p, "recover") /\ Recovering(p, w) /\ UNCHANGED <<marker, archive, log, head, lock>>
  BY StoreNow, WriteCounted DEF RecoverBind
<1>2. queue # None
  <2>1. WriterInv(op[p]) BY <1>1 DEF LedgerInv, At, Outside
  <2> QED BY <1>1, <2>1 DEF WriterInv, Recovers, At
<1>3. CASE w = "unpublished"
  <2>1. UNCHANGED store BY <1>1, <1>3 DEF RecoverBind, store
  <2> QED BY <1>1, <1>2, <2>1, StoreStays, RecoveringInv DEF store
<1>4. CASE w # "unpublished" BY <1>1, <1>2, <1>4, AnchorStep, RecoveringInv DEF RecoverBind
<1> QED BY <1>3, <1>4

LEMMA RecoverDoneInv ==
  ASSUME LedgerInv, NEW p \in Procs, RecoverDone(p)
  PROVE  LedgerInv'
<1>1. PICK u \in Operations : u = op[p] BY DEF LedgerInv, TypeOK
<1>2. /\ u.pc = "recover" /\ lock = p /\ WriterInv(u) /\ UNCHANGED <<store, lock, failures>>
      /\ Clean /\ u.rotated \in BOOLEAN
  BY <1>1 DEF RecoverDone, At, Outside, LedgerInv, TypeOK, Operations
<1>3. StoreInv' /\ View' = View /\ Clean' BY <1>2, StoreNow, StoreStays DEF StoreInv, StoreTyped
<1>4. CASE u.rotated = TRUE
  <2>1. PICK v \in Operations : op' = [op EXCEPT ![p] = v] /\ v.pc = "end" /\ Same(v, u)
                               /\ v.outcome = "ok"
    BY <1>1, <1>4, FinishStep DEF RecoverDone, Outcomes
  <2>2. WriterInv(v)'
    BY <1>2, <1>4, <2>1
       DEF WriterInv, Appending, Recovers, Deciding, Archiving, Honest, Same, store
  <2> QED BY <1>2, <1>3, <2>1, <2>2, WriterStep DEF Outside
<1>5. CASE u.rotated = FALSE /\ u.kind = "decide"
  <2>1. PICK v \in Operations : op' = [op EXCEPT ![p] = v] /\ v.pc = "prepare" /\ Same(v, u)
    BY <1>1, <1>5, GotoStep DEF RecoverDone, Steps
  <2>2. WriterInv(v)'
    BY <1>2, <1>3, <1>5, <2>1 DEF WriterInv, Appending, Recovers, Deciding, Archiving, Honest,
                                  Same, Seen, Undecided, store
  <2> QED BY <1>2, <1>3, <2>1, <2>2, WriterStep DEF Outside
<1>6. CASE u.rotated = FALSE /\ u.kind = "archive"
  <2>1. PICK v \in Operations : op' = [op EXCEPT ![p] = v] /\ v.pc = "archive" /\ Same(v, u)
    BY <1>1, <1>6, GotoStep DEF RecoverDone, Steps
  <2>2. WriterInv(v)'
    BY <1>2, <1>3, <1>6, <2>1 DEF WriterInv, Appending, Recovers, Deciding, Archiving, Honest,
                                  Same, Seen, Closed, store
  <2> QED BY <1>2, <1>3, <2>1, <2>2, WriterStep DEF Outside
<1>7. u.kind \in {"decide", "archive"} BY <1>2 DEF WriterInv, Recovers, Operations, Kinds
<1> QED BY <1>2, <1>4, <1>5, <1>6, <1>7

----------------------------------------
(* decide *)

\* A clean head is the head of the log the reader sees, and the anchor names it.
LEMMA CleanHead ==
  ASSUME StoreInv, queue # None, Clean
  PROVE  /\ head[queue.gen] \in Settled /\ HeadValid(head[queue.gen])
         /\ head[queue.gen].log = View /\ HeadRevision(head[queue.gen]) = queue.anchor
         /\ queue.anchor # << >>
<1>1. PICK h \in Settled : h = head[queue.gen] /\ HeadValid(h) /\ HeadRevision(h) = queue.anchor
  BY LiveView DEF Clean, Prepared
<1>2. HeadRevision(h) # << >> BY AppendProperties DEF HeadRevision, Settled
<1>3. Fits(h, View, queue.anchor) BY <1>1, <1>2, LiveView
<1>4. h.log = View BY <1>3 DEF Fits, Settled
<1> QED BY <1>1, <1>2, <1>4

\* The head a decision announces fits the log before it.
LEMMA PreparingFits ==
  ASSUME NEW h \in Settled, NEW x \in Dispositions, HeadValid(h)
  PROVE  /\ Preparing(h, Append(h.log, x)) \in Prepared
         /\ HeadValid(Preparing(h, Append(h.log, x)))
         /\ Fits(Preparing(h, Append(h.log, x)), h.log, HeadRevision(h))
         /\ Preparing(h, Append(h.log, x)).before = h.log
         /\ Preparing(h, Append(h.log, x)).after = Append(h.log, x)
<1>1. h.log \in Logs /\ h.prev \in Seq(Logs) /\ (h.log = << >>) = (h.prev = << >>)
  BY DEF Settled, HeadValid
<1>2. PICK a \in Logs : a = Append(h.log, x) /\ Len(a) = Len(h.log) + 1
  <2>1. h.log \in Seq(Dispositions) BY <1>1 DEF Logs
  <2>2. Append(h.log, x) \in Seq(Dispositions) /\ Len(Append(h.log, x)) = Len(h.log) + 1
    BY <2>1, AppendProperties
  <2> QED BY <2>2 DEF Logs
<1>3. PICK r \in Seq(Logs) : r = HeadRevision(h) /\ r = Append(h.prev, h.log)
  BY <1>1, AppendProperties DEF HeadRevision
<1>4. PICK t \in Seq(Logs) : t = Append(r, a) BY <1>2, <1>3, AppendProperties
<1>5. Preparing(h, a) = [state |-> "preparing", before |-> h.log, after |-> a,
                         parent |-> h.prev, prev |-> r, proposed |-> t]
  BY <1>3, <1>4 DEF Preparing
<1>6. Preparing(h, a) \in Prepared BY <1>1, <1>5 DEF Prepared
<1>7. HeadValid(Preparing(h, a)) BY <1>1, <1>2, <1>3, <1>4, <1>5 DEF HeadValid
<1>8. Fits(Preparing(h, a), h.log, r) BY <1>3, <1>5 DEF Fits
<1>9. Preparing(h, a).before = h.log /\ Preparing(h, a).after = a BY <1>5
<1> QED BY <1>2, <1>3, <1>6, <1>7, <1>8, <1>9

LEMMA PrepareInv ==
  ASSUME LedgerInv, NEW p \in Procs, NEW w \in Writes, Prepare(p, w)
  PROVE  LedgerInv'
<1>1. PICK u \in Operations : u = op[p] BY DEF LedgerInv, TypeOK
<1>2. /\ u.pc = "prepare" /\ lock = p /\ WriterInv(u)
      /\ StoreInv /\ failures' \in 0 .. MaxFailures
      /\ UNCHANGED <<marker, queue, archive, log, lock>>
  BY <1>1, StoreNow, WriteCounted DEF Prepare, At, Outside, LedgerInv, TypeOK
<1>3. u.kind = "decide" /\ queue # None /\ Seen(u) /\ Undecided(u) /\ Clean /\ u.rotated # TRUE
  BY <1>2 DEF WriterInv, Deciding, Archiving
<1>4. CASE w = "unpublished"
  <2>1. UNCHANGED store BY <1>2, <1>4 DEF Prepare, store
  <2>2. StoreInv' /\ View' = View BY <1>2, <2>1, StoreStays
  <2>3. PICK v \in Operations : op' = [op EXCEPT ![p] = v] /\ v.pc = "end" /\ Same(v, u)
                               /\ v.outcome = "unchanged"
    BY <1>1, <1>4, FinishStep DEF Prepare, Outcomes
  <2>4. WriterInv(v)'
    BY <1>2, <1>3, <2>2, <2>3
       DEF WriterInv, Appending, Recovers, Deciding, Archiving, Honest, Same, Seen
  <2> QED BY <1>2, <2>2, <2>3, <2>4, WriterStep DEF Outside
<1>5. CASE w # "unpublished"
  <2>1. PICK x \in Dispositions : x = [event |-> u.event, decision |-> u.decision]
    <3>1. u.event \in Events /\ u.decision \in Decisions
      <4>1. queue.events \in Seq(Events) BY <1>2, <1>3, LiveView
      <4>2. Range(queue.events) \subseteq Events BY <4>1, ElementOfSeq DEF Range
      <4> QED BY <1>3, <4>2 DEF Undecided
    <3> QED BY <3>1 DEF Dispositions
  <2>2. PICK h \in Settled : /\ h = head[queue.gen] /\ HeadValid(h) /\ h.log = View
                             /\ HeadRevision(h) = queue.anchor /\ queue.anchor # << >>
    BY <1>2, <1>3, CleanHead
  <2>3. PICK n \in Prepared : /\ n = Preparing(h, Append(View, x)) /\ HeadValid(n)
                              /\ Fits(n, View, queue.anchor) /\ n.state = "preparing"
                              /\ n.before = View /\ n.after = Append(View, x)
                              /\ n # None
    BY <2>2, PreparingFits, LedgerConstants, SMTT(40) DEF Prepared
  <2>4. head' = [head EXCEPT ![queue.gen] = n]
    BY <1>1, <1>2, <1>3, <1>5, <2>1, <2>2, <2>3, LiveView DEF Prepare, Disposed
  <2>5. StoreInv' /\ View' = View /\ head'[queue.gen] = n
    BY <1>2, <1>3, <2>2, <2>3, <2>4, HeadStep
  <2>6. PICK v \in Operations : op' = [op EXCEPT ![p] = v] /\ v.pc = "publish" /\ Same(v, u)
    BY <1>1, <1>5, GotoStep DEF Prepare, Steps
  <2>7. WriterInv(v)'
    <3>1. (Appending(v) /\ Recovers(v) /\ Archiving(v) /\ Honest(v))'
      BY <1>3, <2>6 DEF Appending, Recovers, Archiving, Honest, Same
    <3>2. Seen(v)' /\ Undecided(v)' BY <1>2, <1>3, <2>5, <2>6 DEF Seen, Undecided, Same
    <3>3. Deciding(v)' BY <1>2, <1>3, <2>1, <2>3, <2>5, <2>6, <3>2 DEF Deciding, Same
    <3> QED BY <3>1, <3>3 DEF WriterInv
  <2> QED BY <1>2, <2>5, <2>6, <2>7, WriterStep DEF Outside
<1> QED BY <1>4, <1>5

\* The log holds what its head announced, or nothing has changed.
LEMMA PublishInv ==
  ASSUME LedgerInv, NEW p \in Procs, NEW w \in Writes, Publish(p, w)
  PROVE  LedgerInv'
<1>1. PICK u \in Operations : u = op[p] BY DEF LedgerInv, TypeOK
<1>2. /\ u.pc = "publish" /\ lock = p /\ WriterInv(u)
      /\ StoreInv /\ failures' \in 0 .. MaxFailures
      /\ UNCHANGED <<marker, queue, archive, head, lock>>
  BY <1>1, StoreNow, WriteCounted DEF Publish, At, Outside, LedgerInv, TypeOK
<1>3. /\ u.kind = "decide" /\ queue # None /\ Seen(u) /\ Undecided(u) /\ u.rotated # TRUE
      /\ head[queue.gen] # None
      /\ head[queue.gen].state = "preparing" /\ head[queue.gen].before = View
      /\ head[queue.gen].after = Append(View, [event |-> u.event, decision |-> u.decision])
  BY <1>2 DEF WriterInv, Deciding, Archiving
<1>4. CASE w = "unpublished"
  <2>1. UNCHANGED store BY <1>2, <1>4 DEF Publish, store
  <2>2. StoreInv' /\ View' = View BY <1>2, <2>1, StoreStays
  <2>3. PICK v \in Operations : op' = [op EXCEPT ![p] = v] /\ v.pc = "end" /\ Same(v, u)
                               /\ v.outcome = "unchanged"
    BY <1>1, <1>4, FinishStep DEF Publish, Outcomes
  <2>4. WriterInv(v)'
    BY <1>2, <1>3, <2>2, <2>3
       DEF WriterInv, Appending, Recovers, Deciding, Archiving, Honest, Same, Seen
  <2> QED BY <1>2, <2>2, <2>3, <2>4, WriterStep DEF Outside
<1>5. CASE w # "unpublished"
  <2>1. PICK q \in Docs : q = queue /\ q = queue' /\ q # None BY <1>2, <1>3, LiveView
  <2>2. PICK L \in Logs : L = View BY <1>2, <1>3, LiveView
  <2>3. /\ q.gen \in Generations /\ q.events \in Seq(Events) /\ Linked(L, q.events)
        /\ IsFiniteSet(Decided(L))
    BY <1>2, <1>3, <2>1, <2>2, LiveView
  <2>4. PICK x \in Dispositions : /\ x = [event |-> u.event, decision |-> u.decision]
                                  /\ x.event = u.event /\ x.event \in Range(q.events) \ Decided(L)
    <3>1. Range(q.events) \subseteq Events BY <2>3, ElementOfSeq DEF Range
    <3> QED BY <1>3, <2>1, <2>2, <3>1 DEF Undecided, Dispositions
  <2>5. PICK h \in Prepared : /\ h = head[q.gen] /\ h = head'[q.gen] /\ h # None
                              /\ HeadValid(h) /\ h.state = "preparing"
                              /\ h.before = L /\ h.after = Append(L, x)
    BY <1>2, <1>3, <2>1, <2>2, <2>4, LiveView DEF Settled
  <2>6. q.anchor # << >> /\ h.prev = q.anchor
    <3>1. q.anchor # << >> BY <1>2, <1>3, <2>1, <2>5, LiveView DEF Initialized
    <3>2. Fits(h, L, q.anchor) BY <1>2, <1>3, <2>1, <2>2, <2>5, <3>1, LiveView
    <3> QED BY <2>5, <3>1, <3>2 DEF Fits
  <2>7. PICK M \in Logs : M = Append(L, x) BY AppendProperties DEF Logs
  <2>8. /\ log' = [log EXCEPT ![q.gen] = M] /\ log'[q.gen] = M /\ M # None
        /\ \A g \in Generations : g # q.gen => log'[g] = log[g]
    BY <1>2, <1>5, <2>1, <2>3, <2>5, <2>7, LedgerConstants DEF Publish, StoreInv, StoreTyped
  <2>9. Content(q.gen)' = M /\ View' = M BY <2>1, <2>8 DEF Content, View, Generation
  <2>10. Linked(M, q.events) /\ IsFiniteSet(Decided(M)) /\ u.event \in Decided(M)
    BY <2>3, <2>4, <2>7, LinkedDecide, DecidedAppend
  <2>11. StoreTyped' BY <1>2, <2>8 DEF StoreInv, StoreTyped
  <2>12. ViewValid(q)'
    <3>1. h.proposed = Append(h.prev, h.after) BY <2>5 DEF HeadValid
    <3> QED BY <2>5, <2>6, <2>7, <2>9, <2>10, <3>1 DEF ViewValid
  <2>13. StoreInv' BY <1>2, <1>3, <2>1, <2>8, <2>9, <2>10, <2>11, <2>12, LiveStep
  <2>14. PICK v \in Operations : /\ op' = [op EXCEPT ![p] = v] /\ v.pc = "finalize"
                                 /\ v.kind = u.kind /\ v.event = u.event /\ v.rotated = u.rotated
    <3>1. PICK b \in BOOLEAN : b = (w = "visible") OBVIOUS
    <3> DEFINE v == [u EXCEPT !.pc = "finalize", !.unsure = b]
    <3>2. /\ v \in Operations /\ v.pc = "finalize"
          /\ v.kind = u.kind /\ v.event = u.event /\ v.rotated = u.rotated
      BY DEF Operations, Steps
    <3>3. op' = [op EXCEPT ![p] = v] BY <1>1, <1>5, <3>1 DEF Publish
    <3> HIDE DEF v
    <3> QED BY <3>2, <3>3
  <2>15. WriterInv(v)'
    BY <1>3, <2>1, <2>5, <2>7, <2>9, <2>10, <2>14
       DEF WriterInv, Appending, Recovers, Deciding, Archiving, Honest
  <2> QED BY <1>2, <2>13, <2>14, <2>15, WriterStep DEF Outside
<1> QED BY <1>4, <1>5

\* The head is settled on the log it announced.
LEMMA FinalizeInv ==
  ASSUME LedgerInv, NEW p \in Procs, NEW w \in Writes, Finalize(p, w)
  PROVE  LedgerInv'
<1>1. PICK u \in Operations : u = op[p] BY DEF LedgerInv, TypeOK
<1>2. /\ u.pc = "finalize" /\ lock = p /\ WriterInv(u)
      /\ StoreInv /\ failures' \in 0 .. MaxFailures
      /\ UNCHANGED <<marker, queue, archive, log, lock>>
  BY <1>1, StoreNow, WriteCounted DEF Finalize, At, Outside, LedgerInv, TypeOK
<1>3. /\ u.kind = "decide" /\ queue # None /\ u.event \in Decided(View) /\ u.rotated # TRUE
      /\ head[queue.gen] # None
      /\ head[queue.gen].state = "preparing" /\ head[queue.gen].after = View
  BY <1>2 DEF WriterInv, Deciding, Archiving
<1>4. CASE w = "unpublished"
  <2>1. UNCHANGED store BY <1>2, <1>4 DEF Finalize, store
  <2>2. StoreInv' /\ View' = View BY <1>2, <2>1, StoreStays
  <2>3. PICK v \in Operations : op' = [op EXCEPT ![p] = v] /\ v.pc = "end" /\ Same(v, u)
                               /\ v.outcome = "degraded"
    BY <1>1, <1>4, FinishStep DEF Finalize, Then, Outcomes
  <2>4. WriterInv(v)'
    BY <1>2, <1>3, <2>2, <2>3
       DEF WriterInv, Appending, Recovers, Deciding, Archiving, Honest, Same
  <2> QED BY <1>2, <2>2, <2>3, <2>4, WriterStep DEF Outside
<1>5. CASE w # "unpublished"
  <2>1. PICK h \in Prepared : h = head[queue.gen] /\ HeadValid(h) /\ h.after = View
                              /\ h.state = "preparing"
    BY <1>2, <1>3, LiveView DEF Settled
  <2>2. queue.anchor # << >> /\ h.prev = queue.anchor
    <3>1. queue.anchor # << >> BY <1>2, <1>3, <2>1, LiveView DEF Initialized
    <3>2. Fits(h, View, queue.anchor) BY <1>2, <1>3, <2>1, <3>1, LiveView
    <3> QED BY <2>1, <3>1, <3>2 DEF Fits
  <2>3. h.after # << >> BY <2>1, LenProperties DEF HeadValid, Prepared, Logs
  <2>4. PICK n \in Settled : n = Initialized(h.after, h.prev) /\ n.log = h.after
                             /\ n.prev = h.prev /\ n.state = "initialized"
    <3>1. h.after \in Logs /\ h.prev \in Seq(Logs) BY DEF Prepared
    <3>2. /\ Initialized(h.after, h.prev) \in Settled
          /\ Initialized(h.after, h.prev).log = h.after
          /\ Initialized(h.after, h.prev).prev = h.prev
          /\ Initialized(h.after, h.prev).state = "initialized"
      BY <3>1 DEF Initialized, Settled
    <3> QED BY <3>2
  <2>5. HeadValid(n) /\ Fits(n, View, queue.anchor)
    BY <2>1, <2>2, <2>3, <2>4 DEF HeadValid, Fits
  <2>6. head' = [head EXCEPT ![queue.gen] = n] BY <1>5, <2>1, <2>4 DEF Finalize
  <2>7. StoreInv' /\ View' = View /\ head'[queue.gen] = n
    BY <1>2, <1>3, <2>2, <2>5, <2>6, HeadStep
  <2>8. PICK v \in Operations :
          /\ op' = [op EXCEPT ![p] = v] /\ Same(v, u)
          /\ v.pc = "bind" \/ (v.pc = "end" /\ v.outcome = "committed")
    <3>1. CASE w = "ok" BY <1>1, <3>1, GotoStep DEF Finalize, Then, Steps
    <3>2. CASE w = "visible" BY <1>1, <3>2, FinishStep DEF Finalize, Then, Outcomes
    <3> QED BY <1>5, <3>1, <3>2 DEF Writes
  <2>9. WriterInv(v)'
    BY <1>2, <1>3, <2>4, <2>7, <2>8, LedgerConstants
       DEF WriterInv, Appending, Recovers, Deciding, Archiving, Honest, Same
  <2> QED BY <1>2, <2>7, <2>8, <2>9, WriterStep DEF Outside
<1> QED BY <1>4, <1>5

\* The decision is in the log whatever becomes of the anchor.
LEMMA BindInv ==
  ASSUME LedgerInv, NEW p \in Procs, NEW w \in Writes, Bind(p, w)
  PROVE  LedgerInv'
<1>1. PICK u \in Operations : u = op[p] BY DEF LedgerInv, TypeOK
<1>2. /\ u.pc = "bind" /\ lock = p /\ WriterInv(u)
      /\ StoreInv /\ failures' \in 0 .. MaxFailures
      /\ UNCHANGED <<marker, archive, log, head, lock>>
  BY <1>1, StoreNow, WriteCounted DEF Bind, At, Outside, LedgerInv, TypeOK
<1>3. /\ u.kind = "decide" /\ queue # None /\ u.event \in Decided(View) /\ u.rotated # TRUE
      /\ head[queue.gen] # None /\ head[queue.gen].state = "initialized"
  BY <1>2 DEF WriterInv, Deciding, Archiving
<1>4. StoreInv' /\ View' = View
  <2>1. CASE w = "unpublished" BY <1>2, <2>1, StoreStays DEF Bind, store
  <2>2. CASE w # "unpublished" BY <1>2, <1>3, <2>2, AnchorStep DEF Bind
  <2> QED BY <2>1, <2>2
<1>5. PICK outcome \in {"ok", "committed", "degraded"} : Finish(p, outcome) BY DEF Bind
<1>6. PICK v \in Operations : op' = [op EXCEPT ![p] = v] /\ v.pc = "end" /\ Same(v, u)
                             /\ v.outcome = outcome
  BY <1>1, <1>5, FinishStep DEF Outcomes
<1>7. WriterInv(v)'
  BY <1>3, <1>4, <1>5, <1>6
     DEF WriterInv, Appending, Recovers, Deciding, Archiving, Honest, Same
<1> QED BY <1>2, <1>4, <1>6, <1>7, WriterStep DEF Outside

----------------------------------------
(* archive *)

\* The successor of a closed, archived generation is readable.
LEMMA RotateStep ==
  ASSUME StoreInv, queue # None, Clean, Closed, queue \in archive, queue.gen < MaxGeneration,
         queue' = Doc(queue.gen + 1, Revision(queue), << >>, << >>),
         UNCHANGED <<marker, archive, log, head>>, failures' \in 0 .. MaxFailures
  PROVE  /\ StoreInv' /\ queue' # None /\ queue'.gen = queue.gen + 1
         /\ queue'.events = << >>
<1>1. PICK q \in Docs : q = queue BY LiveView
<1>2. /\ q.gen \in Generations /\ q.events \in Seq(Events) /\ q.anchor \in Seq(Logs)
      /\ q.prev \in Revisions /\ q.gen \in Nat /\ q.gen + 1 \in Generations
  BY <1>1, LedgerConstants DEF Docs, Generations
<1>3. PICK x \in Bodies : x = [anchor |-> q.anchor, events |-> q.events] BY <1>2 DEF Bodies
<1>4. PICK rev \in Revisions :
        /\ rev = Append(q.prev, x) /\ rev = Revision(q) /\ Len(rev) = Len(q.prev) + 1
        /\ rev[Len(q.prev) + 1] = x /\ SubSeq(rev, 1, Len(q.prev) + 1) = rev
        /\ \A i \in 1 .. Len(q.prev) : SubSeq(rev, 1, i) = SubSeq(q.prev, 1, i) /\ rev[i] = q.prev[i]
  <2>1. q.prev \in Seq(Bodies) BY <1>2 DEF Revisions
  <2>2. Revision(q) = Append(q.prev, x) BY <1>3 DEF Revision
  <2>3. /\ Append(q.prev, x) \in Revisions /\ Len(Append(q.prev, x)) = Len(q.prev) + 1
        /\ Append(q.prev, x)[Len(q.prev) + 1] = x
        /\ SubSeq(Append(q.prev, x), 1, Len(q.prev) + 1) = Append(q.prev, x)
        /\ \A i \in 1 .. Len(q.prev) : /\ SubSeq(Append(q.prev, x), 1, i) = SubSeq(q.prev, 1, i)
                                       /\ Append(q.prev, x)[i] = q.prev[i]
    BY <2>1, Descent DEF Revisions
  <2> QED BY <2>2, <2>3
<1>5. PICK r \in Docs : /\ r = queue' /\ r.gen = q.gen + 1 /\ r.prev = rev
                        /\ r.anchor = << >> /\ r.events = << >> /\ r # None
  <2>1. << >> \in Seq(Logs) /\ << >> \in Seq(Events) OBVIOUS
  <2>2. Doc(q.gen + 1, rev, << >>, << >>) \in Docs BY <1>2, <2>1 DEF Doc, Docs
  <2> QED BY <1>1, <1>4, <2>2, LedgerConstants DEF Doc
<1>6. LineageValid(q) BY <1>1 DEF StoreInv, Readable
<1>7. LineageValid(r)
  <2>1. r.gen = Len(r.prev) /\ q.gen = Len(q.prev) BY <1>4, <1>5, <1>6 DEF LineageValid
  <2>2. ASSUME NEW i \in 1 .. r.gen
        PROVE  Ancestor(i - 1, r.prev[i], SubSeq(r.prev, 1, i))
    <3>1. CASE i \in 1 .. q.gen
      <4>1. Ancestor(i - 1, q.prev[i], SubSeq(q.prev, 1, i)) BY <1>6, <3>1, LineageAncestors
      <4> QED BY <1>4, <1>5, <2>1, <3>1, <4>1
    <3>2. CASE i = q.gen + 1
      <4>1. i - 1 = q.gen /\ r.prev[i] = x /\ SubSeq(r.prev, 1, i) = Revision(q)
        BY <1>2, <1>4, <1>5, <2>1, <3>2
      <4>2. x.events # << >> /\ Decided(View) = Range(x.events) /\ x.anchor = q.anchor
            /\ x.events = q.events
        BY <1>1, <1>3 DEF Closed
      <4>3. PICK h \in Settled : /\ h = head[q.gen] /\ HeadValid(h) /\ h.log = View
                                 /\ HeadRevision(h) = q.anchor /\ q.anchor # << >>
                                 /\ h.state = "initialized" /\ h # None
        BY <1>1, CleanHead, LedgerConstants DEF Settled
      <4>4. Content(q.gen) = View /\ Linked(View, q.events) BY <1>1, LiveView
      <4>5. Ancestor(q.gen, x, Revision(q)) BY <1>1, <4>2, <4>3, <4>4 DEF Ancestor, ArchivedQueue, ArchivedLog
      <4> QED BY <4>1, <4>5
    <3> QED BY <1>2, <1>5, <3>1, <3>2
  <2> QED BY <2>1, <2>2, LineageAncestors
<1>8. LineageValid(r)' BY <1>7 DEF LineageValid, ArchivedQueue, ArchivedLog, Content
<1>9. log[r.gen] = None /\ head[r.gen] = None
  BY <1>1, <1>2, <1>5 DEF StoreInv, Untouched, Generation
<1>10. Content(r.gen)' = << >> /\ View' = << >> BY <1>5, <1>9 DEF Content, View, Generation
<1>11. Linked(<< >>, r.events) /\ IsFiniteSet(Decided(<< >>))
  <2>1. r.events \in Seq(Events) BY DEF Docs
  <2> QED BY <2>1, LinkedEmpty
<1>12. ViewValid(r)' BY <1>5, <1>9, <1>10, <1>11 DEF ViewValid, Linked
<1>13. StoreTyped'
  <2>1. Len(r.events) <= MaxEvents BY <1>5, LedgerConstants
  <2> QED BY <1>5, <2>1 DEF StoreInv, StoreTyped
<1>14. Readable' BY <1>5, <1>8, <1>12 DEF Readable
<1>15. Untouched'
  <2>1. Generation' = q.gen + 1 /\ Generation = q.gen BY <1>1, <1>5 DEF Generation
  <2>2. ASSUME NEW g \in Generations, g > q.gen + 1 PROVE log'[g] = None /\ head'[g] = None
    BY <1>2, <2>1, <2>2 DEF StoreInv, Untouched, Generations
  <2> QED BY <1>10, <1>11, <2>1, <2>2 DEF Untouched
<1> QED BY <1>1, <1>5, <1>13, <1>14, <1>15 DEF StoreInv

LEMMA ArchiveLimitInv ==
  ASSUME LedgerInv, NEW p \in Procs, ArchiveLimit(p)
  PROVE  LedgerInv'
<1>1. PICK u \in Operations : u = op[p] BY DEF LedgerInv, TypeOK
<1>2. /\ u.pc = "archive" /\ lock = p /\ WriterInv(u) /\ UNCHANGED <<store, lock, failures>>
  BY <1>1 DEF ArchiveLimit, At, Outside, LedgerInv, TypeOK
<1>3. StoreInv' /\ View' = View BY <1>2, StoreNow, StoreStays DEF StoreInv, StoreTyped
<1>4. PICK v \in Operations : op' = [op EXCEPT ![p] = v] /\ v.pc = "end" /\ Same(v, u)
                             /\ v.outcome = "unchanged"
  BY <1>1, FinishStep DEF ArchiveLimit, Outcomes
<1>5. WriterInv(v)'
  BY <1>2, <1>3, <1>4
     DEF WriterInv, Appending, Recovers, Deciding, Archiving, Honest, Same, Seen, store
<1> QED BY <1>2, <1>3, <1>4, <1>5, WriterStep DEF Outside

\* The archived copy is beside the live document, or nothing has changed.
LEMMA ArchiveCopyInv ==
  ASSUME LedgerInv, NEW p \in Procs, NEW w \in Writes, ArchiveCopy(p, w)
  PROVE  LedgerInv'
<1>1. PICK u \in Operations : u = op[p] BY DEF LedgerInv, TypeOK
<1>2. /\ u.pc = "archive" /\ lock = p /\ WriterInv(u) /\ queue.gen < MaxGeneration
      /\ StoreInv /\ failures' \in 0 .. MaxFailures
      /\ UNCHANGED <<marker, queue, log, head, lock>>
  BY <1>1, StoreNow, WriteCounted DEF ArchiveCopy, At, Outside, LedgerInv, TypeOK
<1>3. u.kind = "archive" /\ u.rotated = FALSE /\ Seen(u) /\ Clean /\ Closed /\ queue # None
  BY <1>2 DEF WriterInv, Archiving, Seen
<1>4. View' = View /\ Clean' /\ Closed' /\ Seen(u)'
  BY <1>2, <1>3 DEF View, Content, Generation, Clean, Closed, Seen
<1>5. StoreInv'
  <2>1. queue \in Docs /\ ViewValid(queue) /\ IsFiniteSet(Decided(View))
    BY <1>2, <1>3 DEF StoreInv, StoreTyped, Readable, Untouched
  <2>2. archive' \subseteq Docs /\ archive \subseteq archive'
    BY <1>2, <2>1 DEF ArchiveCopy, StoreInv, StoreTyped
  <2>3. StoreTyped' BY <1>2, <2>2 DEF StoreInv, StoreTyped
  <2>4. ViewValid(queue)' BY <1>2, <2>1 DEF ViewValid, Content
  <2> QED BY <1>2, <1>3, <1>4, <2>1, <2>2, <2>3, <2>4, LiveStep
<1>6. CASE w = "ok"
  <2>1. PICK v \in Operations : op' = [op EXCEPT ![p] = v] /\ v.pc = "rotate" /\ Same(v, u)
    BY <1>1, <1>6, GotoStep DEF ArchiveCopy, Then, Steps
  <2>2. queue' \in archive' /\ queue'.gen < MaxGeneration BY <1>2, <1>6 DEF ArchiveCopy
  <2>3. WriterInv(v)'
    BY <1>2, <1>3, <1>4, <2>1, <2>2
       DEF WriterInv, Appending, Recovers, Deciding, Archiving, Honest, Same, Seen
  <2> QED BY <1>2, <1>5, <2>1, <2>3, WriterStep DEF Outside
<1>7. CASE w # "ok"
  <2>1. PICK outcome \in {"unchanged", "committed"} : Finish(p, outcome)
    BY <1>7 DEF ArchiveCopy, Then, Writes
  <2>2. PICK v \in Operations : op' = [op EXCEPT ![p] = v] /\ v.pc = "end" /\ Same(v, u)
                               /\ v.outcome = outcome
    BY <1>1, <2>1, FinishStep DEF Outcomes
  <2>3. WriterInv(v)'
    BY <1>2, <1>3, <1>4, <2>1, <2>2
       DEF WriterInv, Appending, Recovers, Deciding, Archiving, Honest, Same, Seen
  <2> QED BY <1>2, <1>5, <2>2, <2>3, WriterStep DEF Outside
<1> QED BY <1>6, <1>7

LEMMA RotateInv ==
  ASSUME LedgerInv, NEW p \in Procs, NEW w \in Writes, Rotate(p, w)
  PROVE  LedgerInv'
<1>1. PICK u \in Operations : u = op[p] BY DEF LedgerInv, TypeOK
<1>2. /\ u.pc = "rotate" /\ lock = p /\ WriterInv(u)
      /\ StoreInv /\ failures' \in 0 .. MaxFailures
      /\ UNCHANGED <<marker, archive, log, head, lock>>
  BY <1>1, StoreNow, WriteCounted DEF Rotate, At, Outside, LedgerInv, TypeOK
<1>3. /\ u.kind = "archive" /\ u.rotated = FALSE /\ Seen(u) /\ Clean /\ Closed /\ queue # None
      /\ queue \in archive /\ queue.gen < MaxGeneration
      /\ u.queue # None /\ queue.gen = u.queue.gen /\ queue.events = u.queue.events
      /\ View = u.log
  BY <1>2 DEF WriterInv, Archiving, Seen
<1>4. PICK v \in Operations :
        /\ op' = [op EXCEPT ![p] = v] /\ v.kind = u.kind /\ v.queue = u.queue /\ v.log = u.log
        /\ v.pc \in {"marker", "recover", "end"}
        /\ v.rotated = TRUE <=> w = "ok"
        /\ v.pc = "end" <=> w # "ok"
        /\ w = "visible" => v.outcome = "committed"
        /\ w = "unpublished" => v.outcome = "unchanged"
  <2>1. op' = [op EXCEPT ![p] = AfterRotation(u, w)] BY <1>1 DEF Rotate
  <2>2. CASE w = "ok"
    <3>1. PICK step \in {"marker", "recover"} :
            step = IF marker = "initialized" THEN "recover" ELSE "marker"
      OBVIOUS
    <3> DEFINE v == [u EXCEPT !.rotated = TRUE, !.pc = step]
    <3>2. AfterRotation(u, w) = v BY <2>2, <3>1 DEF AfterRotation, Operations
    <3>3. /\ v \in Operations /\ v.kind = u.kind /\ v.queue = u.queue /\ v.log = u.log
          /\ v.pc = step /\ v.rotated = TRUE
      BY DEF Operations, Steps
    <3> HIDE DEF v
    <3> QED BY <2>1, <2>2, <3>1, <3>2, <3>3
  <2>3. CASE w # "ok"
    <3>1. PICK o \in {"committed", "unchanged"} :
            o = IF w = "visible" THEN "committed" ELSE "unchanged"
      OBVIOUS
    <3> DEFINE v == [u EXCEPT !.rotated = FALSE, !.pc = "end", !.outcome = o]
    <3>2. AfterRotation(u, w) = v BY <2>3, <3>1 DEF AfterRotation, Operations, Writes
    <3>3. /\ v \in Operations /\ v.kind = u.kind /\ v.queue = u.queue /\ v.log = u.log
          /\ v.pc = "end" /\ v.rotated = FALSE /\ v.outcome = o
      BY DEF Operations, Steps, Outcomes
    <3> HIDE DEF v
    <3> QED BY <2>1, <2>3, <3>1, <3>2, <3>3
  <2> QED BY <2>2, <2>3
<1>5. CASE w = "unpublished"
  <2>1. UNCHANGED store BY <1>2, <1>5 DEF Rotate, store
  <2>2. StoreInv' /\ View' = View BY <1>2, <2>1, StoreStays
  <2>3. WriterInv(v)'
    BY <1>2, <1>3, <1>4, <1>5, <2>1, <2>2
       DEF WriterInv, Appending, Recovers, Deciding, Archiving, Honest, store
  <2> QED BY <1>2, <1>4, <2>2, <2>3, WriterStep DEF Outside
<1>6. CASE w # "unpublished"
  <2>1. queue' = Doc(queue.gen + 1, Revision(queue), << >>, << >>) BY <1>6 DEF Rotate
  <2>2. StoreInv' /\ queue' # None /\ queue'.gen = queue.gen + 1 /\ queue'.events = << >>
    BY <1>2, <1>3, <2>1, RotateStep
  <2>3. WriterInv(v)'
    BY <1>3, <1>4, <1>6, <2>2
       DEF WriterInv, Appending, Recovers, Deciding, Archiving, Honest, Writes
  <2> QED BY <1>2, <1>4, <2>2, <2>3, WriterStep DEF Outside
<1> QED BY <1>5, <1>6

----------------------------------------
(* The theorems *)

LEMMA NextInv == LedgerInv /\ [Next]_vars => LedgerInv'
<1> SUFFICES ASSUME LedgerInv, [Next]_vars PROVE LedgerInv'
  OBVIOUS
<1>1. CASE UNCHANGED vars
  <2>1. UNCHANGED <<store, lock, op, failures>> BY <1>1 DEF vars
  <2>2. StoreInv' /\ View' = View /\ Clean' = Clean
    BY <2>1, StoreNow, StoreStays DEF StoreInv, StoreTyped
  <2>3. TypeOK' BY <2>1 DEF LedgerInv, TypeOK, store
  <2>4. ASSUME NEW p \in Procs
        PROVE  (IF Outside(op[p]) THEN Brings(op[p]) ELSE WriterInv(op[p]))'
    <3>1. IF Outside(op[p]) THEN Brings(op[p]) ELSE WriterInv(op[p]) BY DEF LedgerInv
    <3> QED
      BY <2>1, <2>2, <3>1, ZenonT(60)
         DEF Outside, Brings, WriterInv, Appending, Recovers, Deciding, Archiving, Honest, Seen,
             Undecided, Closed, store
  <2> QED BY <2>2, <2>3, <2>4 DEF LedgerInv, StoreInv
<1>2. CASE Next
  <2>1. PICK p \in Procs :
          \/ Begin(p, "append", None, None) \/ Begin(p, "archive", None, None)
          \/ \E e \in Events, d \in Decisions : Begin(p, "decide", e, d)
          \/ Enter(p) \/ QueueFull(p) \/ RecoverDone(p) \/ ArchiveLimit(p)
          \/ \E w \in Writes : Mutation(p, w)
          \/ End(p) \/ Die(p)
    BY <1>2 DEF Next
  <2>2. CASE Begin(p, "append", None, None) \/ Begin(p, "archive", None, None)
    BY <2>2, BeginInv DEF Kinds
  <2>3. CASE \E e \in Events, d \in Decisions : Begin(p, "decide", e, d)
    BY <2>3, BeginInv DEF Kinds
  <2>4. CASE Enter(p) BY <2>4, EnterInv
  <2>5. CASE QueueFull(p) \/ RecoverDone(p) \/ ArchiveLimit(p)
    BY <2>5, QueueFullInv, RecoverDoneInv, ArchiveLimitInv
  <2>6. CASE \E w \in Writes : Mutation(p, w)
    <3>1. PICK w \in Writes : Mutation(p, w) BY <2>6
    <3>2. CASE PrepareMarker(p, w) \/ FinalizeMarker(p, w)
      BY <3>2, PrepareMarkerInv, FinalizeMarkerInv
    <3>3. CASE \E e \in Events : AppendQueue(p, e, w) BY <3>3, AppendQueueInv
    <3>4. CASE RecoverHead(p, w) \/ RecoverBind(p, w) BY <3>4, RecoverHeadInv, RecoverBindInv
    <3>5. CASE Prepare(p, w) \/ Publish(p, w) \/ Finalize(p, w) \/ Bind(p, w)
      BY <3>5, PrepareInv, PublishInv, FinalizeInv, BindInv
    <3>6. CASE ArchiveCopy(p, w) \/ Rotate(p, w) BY <3>6, ArchiveCopyInv, RotateInv
    <3> QED BY <3>1, <3>2, <3>3, <3>4, <3>5, <3>6 DEF Mutation
  <2>7. CASE End(p) \/ Die(p) BY <2>7, LeaveInv
  <2> QED BY <2>1, <2>2, <2>3, <2>4, <2>5, <2>6, <2>7
<1> QED BY <1>1, <1>2

LEMMA LedgerInvariant == Spec => []LedgerInv
  BY InitInv, NextInv, PTL DEF Spec

\* Every file always holds a document of its kind within the bounds of its parser, and
\* at most the holder of the vault-wide lock is inside a mutation.
THEOREM LedgerTypeCorrect == Spec => []TypeOK
<1>1. LedgerInv => TypeOK BY DEF LedgerInv
<1> QED BY <1>1, LedgerInvariant, PTL

\* Whatever step a mutation of queue, log, head, anchor or archive died or failed at,
\* _snapshot_with_store reads the store back.
THEOREM StoreAlwaysReadable == Spec => []StoreReadable
<1>1. LedgerInv => StoreReadable BY DEF LedgerInv, StoreReadable
<1> QED BY <1>1, LedgerInvariant, PTL

\* The result or the error class that append, decide and archive_closed give their
\* caller is true of the store at that moment.
THEOREM OutcomesHonest == Spec => []OutcomeHonest
<1>1. LedgerInv => OutcomeHonest
  <2> SUFFICES ASSUME LedgerInv, NEW p \in Procs, At(p, "end")
               PROVE  /\ op[p].outcome = "ok" =>
                           CASE op[p].kind = "append"  -> op[p].event \in Range(queue.events)
                             [] op[p].kind = "decide"  -> op[p].event \in Decided(View)
                             [] op[p].kind = "archive" -> /\ queue.gen = op[p].queue.gen + 1
                                                          /\ queue.events = << >>
                      /\ op[p].outcome = "degraded" => op[p].event \in Decided(View)
                      /\ op[p].outcome = "unchanged" =>
                           /\ op[p].kind # "append" => View = op[p].log
                           /\ queue # op[p].queue =>
                                queue.gen = op[p].queue.gen /\ queue.events = op[p].queue.events
    BY DEF OutcomeHonest
  <2>1. PICK v \in Operations : v = op[p] BY DEF LedgerInv, TypeOK
  <2>2. v.pc = "end" /\ Honest(v) /\ v.kind \in Kinds
    BY <2>1 DEF LedgerInv, At, Outside, WriterInv, Operations
  <2> QED BY <2>1, <2>2 DEF Honest, Kinds
<1> QED BY <1>1, LedgerInvariant, PTL

----------------------------------------
(* The files implement the promise *)

\* An archived document is of the generation its ancestry gives it, and an event ID is
\* in one generation only.
Past == {e \in Events : \E i \in 1 .. queue.gen : e \in Range(queue.prev[i].events)}
Distinct ==
  /\ \A a \in archive : a.gen = Len(a.prev)
  /\ queue # None => Past \cap Range(queue.events) = {}

\* The intents and the decisions that a reader finds, by generation.
Queued == IF queue = None THEN {} ELSE Past \cup Range(queue.events)
Answers(e) ==
  {d \in Decisions : \E g \in 0 .. Generation : [event |-> e, decision |-> d] \in Range(Content(g))}

\* The last generation of an ancestry is the document that was archived.
LEMMA ArchivedBody ==
  ASSUME NEW a \in Docs, NEW s \in Revisions, NEW i \in 1 .. Len(s),
         Revision(a) = SubSeq(s, 1, i)
  PROVE  Len(a.prev) = i - 1 /\ a.events = s[i].events
<1>1. a.prev \in Seq(Bodies) /\ s \in Seq(Bodies) BY DEF Docs, Revisions
<1>2. PICK x \in Bodies : x = [anchor |-> a.anchor, events |-> a.events] /\ x.events = a.events
  <2>1. a.anchor \in Seq(Logs) /\ a.events \in Seq(Events) BY DEF Docs
  <2>2. [anchor |-> a.anchor, events |-> a.events] \in Bodies BY <2>1 DEF Bodies
  <2> QED BY <2>2
<1>3. Revision(a) = Append(a.prev, x) BY <1>2 DEF Revision
<1>4. /\ Len(Append(a.prev, x)) = Len(a.prev) + 1 /\ Append(a.prev, x)[Len(a.prev) + 1] = x
      /\ Len(a.prev) \in Nat
  BY <1>1, Descent
<1>5. Len(SubSeq(s, 1, i)) = i /\ SubSeq(s, 1, i)[i] = s[i]
  <2>1. Len(s) \in Nat BY <1>1, LenProperties
  <2> QED BY <1>1, <2>1, SubSeqProperties
<1> QED BY <1>2, <1>3, <1>4, <1>5

\* The documents a reader goes through are those of the generations 0 to the live one.
LEMMA LineageDocs ==
  ASSUME StoreInv, Distinct, queue # None
  PROVE  /\ Lineage \subseteq Docs /\ queue \in Lineage /\ queue.gen \in Nat
         /\ \A doc \in Lineage :
              doc = queue \/ \E i \in 1 .. queue.gen :
                               /\ doc \in archive /\ doc.gen = i - 1
                               /\ doc.events = queue.prev[i].events
         /\ \A i \in 1 .. queue.gen : \E doc \in Lineage :
              doc \in archive /\ doc.gen = i - 1 /\ doc.events = queue.prev[i].events
<1>1. PICK q \in Docs : q = queue /\ q.gen \in Nat /\ q.prev \in Revisions
  BY LedgerConstants DEF StoreInv, StoreTyped, Docs, Generations
<1>2. LineageValid(q) /\ archive \subseteq Docs BY <1>1 DEF StoreInv, StoreTyped, Readable
<1>3. q.gen = Len(q.prev) BY <1>2 DEF LineageValid
<1>4. Lineage = {a \in archive : \E i \in 1 .. q.gen : Revision(a) = SubSeq(q.prev, 1, i)} \cup {q}
  BY <1>1 DEF Lineage
<1>5. ASSUME NEW a \in archive, NEW i \in 1 .. q.gen, Revision(a) = SubSeq(q.prev, 1, i)
      PROVE  a.gen = i - 1 /\ a.events = q.prev[i].events
  BY <1>1, <1>2, <1>3, <1>5, ArchivedBody DEF Distinct
<1>6. ASSUME NEW i \in 1 .. q.gen
      PROVE  \E a \in archive : a.gen = i - 1 /\ Revision(a) = SubSeq(q.prev, 1, i)
  BY <1>2 DEF LineageValid, ArchivedQueue
<1>7. ASSUME NEW doc \in Lineage
      PROVE  doc = q \/ \E i \in 1 .. q.gen : /\ doc \in archive /\ doc.gen = i - 1
                                             /\ doc.events = q.prev[i].events
  BY <1>4, <1>5
<1>8. ASSUME NEW i \in 1 .. q.gen
      PROVE  \E doc \in Lineage : doc \in archive /\ doc.gen = i - 1 /\ doc.events = q.prev[i].events
  BY <1>4, <1>5, <1>6
<1> QED BY <1>1, <1>2, <1>4, <1>7, <1>8

LEMMA NormalForm ==
  StoreInv /\ Distinct =>
    /\ Intents = Queued /\ Queued \subseteq Known
    /\ DispositionOf = [e \in Events |-> Answers(e)]
<1> SUFFICES ASSUME StoreInv, Distinct
             PROVE  /\ Intents = Queued /\ Queued \subseteq Known
                    /\ DispositionOf = [e \in Events |-> Answers(e)]
  OBVIOUS
<1>1. CASE queue = None
  <2>1. Intents = {} /\ Queued = {} /\ DispositionOf = [e \in Events |-> {}]
    BY <1>1 DEF Intents, Queued, DispositionOf, Lineage
  <2>2. Generation = 0 /\ Content(0) = << >> BY <1>1 DEF Generation, StoreInv, Readable, Content
  <2>3. ASSUME NEW e \in Events PROVE Answers(e) = {} BY <2>2 DEF Answers, Range
  <2> QED BY <2>1, <2>3
<1>2. CASE queue # None
  <2>1. PICK q \in Docs : q = queue /\ q.gen \in Nat /\ q \in Lineage /\ q.events \in Seq(Events)
    BY <1>2, LineageDocs DEF Docs
  <2>2. ASSUME NEW doc \in Lineage
        PROVE  doc = q \/ \E i \in 1 .. q.gen : /\ doc \in archive /\ doc.gen = i - 1
                                               /\ doc.events = q.prev[i].events
    BY <1>2, <2>1, LineageDocs
  <2>3. ASSUME NEW i \in 1 .. q.gen
        PROVE  \E doc \in Lineage : doc \in archive /\ doc.gen = i - 1 /\ doc.events = q.prev[i].events
    BY <1>2, <2>1, LineageDocs
  <2>4. ASSUME NEW doc \in Lineage PROVE Range(doc.events) \subseteq Events
    <3>1. doc \in Docs BY <1>2, LineageDocs
    <3>2. doc.events \in Seq(Events) BY <3>1 DEF Docs
    <3> QED BY <3>2, ElementOfSeq DEF Range
  <2>5. Past = {e \in Events : \E i \in 1 .. q.gen : e \in Range(q.prev[i].events)}
    BY <2>1 DEF Past
  <2>6. Intents \subseteq Past \cup Range(q.events)
    <3> SUFFICES ASSUME NEW doc \in Lineage, NEW e \in Range(doc.events)
                 PROVE  e \in Past \cup Range(q.events)
      BY DEF Intents
    <3> QED BY <2>2, <2>4, <2>5
  <2>7. Past \cup Range(q.events) \subseteq Intents
    <3>1. Range(q.events) \subseteq Intents BY <2>1 DEF Intents
    <3>2. ASSUME NEW e \in Past PROVE e \in Intents
      <4>1. PICK i \in 1 .. q.gen : e \in Range(q.prev[i].events) BY <2>5
      <4>2. PICK doc \in Lineage : doc.events = q.prev[i].events BY <2>3
      <4> QED BY <4>1, <4>2 DEF Intents
    <3> QED BY <3>1, <3>2
  <2>8. Queued \subseteq Known
    <3>1. ASSUME NEW e \in Past PROVE e \in Known
      <4>1. PICK i \in 1 .. q.gen : e \in Range(q.prev[i].events) BY <2>5
      <4>2. PICK doc \in archive : doc.events = q.prev[i].events BY <2>3
      <4> QED BY <4>1, <4>2 DEF Known
    <3> QED BY <1>2, <3>1 DEF Queued, Known
  <2>9. Generation = q.gen BY <1>2, <2>1 DEF Generation
  <2>10. ASSUME NEW g \in 0 .. q.gen PROVE \E doc \in Lineage : doc.gen = g
    <3>1. CASE g = q.gen BY <2>1, <3>1
    <3>2. CASE g # q.gen
      <4>1. g + 1 \in 1 .. q.gen /\ (g + 1) - 1 = g BY <2>1, <3>2
      <4> QED BY <2>3, <4>1
    <3> QED BY <3>1, <3>2
  <2>11. ASSUME NEW doc \in Lineage
         PROVE  doc.gen \in 0 .. q.gen /\ Range(Content(doc.gen)) \subseteq Dispositions
    <3>1. doc.gen \in 0 .. q.gen BY <2>1, <2>2
    <3>2. doc.gen \in Generations BY <2>1, <3>1, LedgerConstants DEF Docs, Generations
    <3>3. Content(doc.gen) \in Seq(Dispositions)
      <4>1. << >> \in Seq(Dispositions) OBVIOUS
      <4> QED BY <3>2, <4>1 DEF StoreInv, StoreTyped, Content, Logs
    <3> QED BY <3>1, <3>3, ElementOfSeq DEF Range
  <2>12. ASSUME NEW e \in Events PROVE DispositionOf[e] = Answers(e)
    <3>1. DispositionOf[e] =
            UNION {{x.decision : x \in {y \in Range(Content(doc.gen)) : y.event = e}} :
                      doc \in Lineage}
      BY DEF DispositionOf
    <3>2. ASSUME NEW d \in DispositionOf[e] PROVE d \in Answers(e)
      <4>0. PICK doc \in Lineage :
              d \in {x.decision : x \in {y \in Range(Content(doc.gen)) : y.event = e}}
        BY <3>1, <3>2
      <4>1. PICK x \in Range(Content(doc.gen)) : x.event = e /\ x.decision = d BY <4>0
      <4>2. x \in Dispositions /\ doc.gen \in 0 .. q.gen BY <2>11, <4>1
      <4>3. x = [event |-> e, decision |-> d] /\ d \in Decisions BY <4>1, <4>2 DEF Dispositions
      <4> QED BY <2>9, <4>1, <4>2, <4>3 DEF Answers
    <3>3. ASSUME NEW d \in Answers(e) PROVE d \in DispositionOf[e]
      <4>1. PICK g \in 0 .. q.gen : [event |-> e, decision |-> d] \in Range(Content(g))
        BY <2>9, <3>3 DEF Answers
      <4>2. PICK doc \in Lineage : doc.gen = g BY <2>10
      <4>3. PICK x \in Range(Content(doc.gen)) : x.event = e /\ x.decision = d BY <4>1, <4>2
      <4> QED BY <3>1, <4>3
    <3> QED BY <3>2, <3>3
  <2> QED BY <1>2, <2>1, <2>6, <2>7, <2>8, <2>12 DEF Queued, DispositionOf
<1> QED BY <1>1, <1>2

LEMMA NormalFormNext ==
  (StoreInv /\ Distinct)' =>
    (/\ Intents = Queued /\ Queued \subseteq Known
     /\ DispositionOf = [e \in Events |-> Answers(e)])'
  BY NormalForm, PTL

\* What a step does to the intents and the decisions: it leaves every generation as it
\* was, queues an intent, logs a decision, or opens the next generation.
SameQueue ==
  /\ (queue' = None) <=> (queue = None)
  /\ queue # None =>
       queue'.gen = queue.gen /\ queue'.prev = queue.prev /\ queue'.events = queue.events
Leaves == SameQueue /\ UNCHANGED log /\ archive' \subseteq archive \cup ({queue} \ {None})
Queues(e) ==
  /\ e \in Events \ Known /\ UNCHANGED <<archive, log>> /\ queue' # None
  /\ IF queue = None
     THEN queue'.gen = 0 /\ queue'.prev = << >> /\ queue'.events = Append(<< >>, e)
     ELSE /\ queue'.gen = queue.gen /\ queue'.prev = queue.prev
          /\ queue'.events = Append(queue.events, e)
Decides(x) ==
  /\ queue # None /\ UNCHANGED <<queue, archive>>
  /\ x.event \in Range(queue.events) \ Decided(View)
  /\ log' = [log EXCEPT ![queue.gen] = Append(View, x)]
Opens ==
  /\ queue # None /\ UNCHANGED <<archive, log>>
  /\ queue.gen < MaxGeneration
  /\ queue' = Doc(queue.gen + 1, Revision(queue), << >>, << >>)

LEMMA StepEffects ==
  ASSUME LedgerInv, Next
  PROVE  Leaves \/ (\E e \in Events : Queues(e)) \/ (\E x \in Dispositions : Decides(x)) \/ Opens
<1>1. PICK p \in Procs :
        \/ Begin(p, "append", None, None) \/ Begin(p, "archive", None, None)
        \/ \E e \in Events, d \in Decisions : Begin(p, "decide", e, d)
        \/ Enter(p) \/ QueueFull(p) \/ RecoverDone(p) \/ ArchiveLimit(p)
        \/ \E w \in Writes : Mutation(p, w)
        \/ End(p) \/ Die(p)
  BY DEF Next
<1>2. CASE UNCHANGED <<queue, archive, log>> BY <1>2 DEF Leaves, SameQueue
<1>3. CASE \E w \in Writes : Mutation(p, w)
  <2>1. PICK w \in Writes : Mutation(p, w) BY <1>3
  <2>2. CASE \E e \in Events : AppendQueue(p, e, w)
    <3>1. PICK e \in Events : AppendQueue(p, e, w) BY <2>2
    <3>2. CASE w = "unpublished" BY <1>2, <3>1, <3>2 DEF AppendQueue
    <3>3. CASE w # "unpublished"
      <4>1. PICK d : /\ d = IF queue = None THEN Doc(0, << >>, << >>, << >>) ELSE queue
                     /\ queue' = Doc(d.gen, d.prev, d.anchor, Append(d.events, e))
        BY <3>1, <3>3 DEF AppendQueue
      <4>2. queue' # None
        <5>1. d \in Docs
          BY <4>1, LedgerConstants DEF LedgerInv, TypeOK, Doc, Docs, Generations, Revisions
        <5>2. Append(d.events, e) \in Seq(Events) BY <5>1, AppendProperties DEF Docs
        <5>3. Doc(d.gen, d.prev, d.anchor, Append(d.events, e)) \in Docs
          BY <5>1, <5>2 DEF Doc, Docs
        <5> QED BY <4>1, <5>3, LedgerConstants
      <4>3. /\ d.gen = IF queue = None THEN 0 ELSE queue.gen
            /\ d.prev = IF queue = None THEN << >> ELSE queue.prev
            /\ d.events = IF queue = None THEN << >> ELSE queue.events
        BY <4>1 DEF Doc
      <4>4. queue'.gen = d.gen /\ queue'.prev = d.prev /\ queue'.events = Append(d.events, e)
        BY <4>1 DEF Doc
      <4>5. Queues(e) BY <3>1, <4>2, <4>3, <4>4 DEF Queues, AppendQueue
      <4> QED BY <4>5
    <3> QED BY <3>2, <3>3
  <2>3. CASE PrepareMarker(p, w) \/ FinalizeMarker(p, w) \/ RecoverHead(p, w) \/ Prepare(p, w)
             \/ Finalize(p, w)
    BY <1>2, <2>3 DEF PrepareMarker, FinalizeMarker, RecoverHead, Prepare, Finalize
  <2>4. CASE RecoverBind(p, w) \/ Bind(p, w)
    <3>1. UNCHANGED <<archive, log>> /\ queue' \in {queue, Anchored}
      BY <2>4 DEF RecoverBind, Bind
    <3>2. queue # None /\ head[queue.gen] # None /\ head[queue.gen].state = "initialized"
      <4>1. WriterInv(op[p]) BY <2>4 DEF LedgerInv, RecoverBind, Bind, At, Outside
      <4> QED BY <2>4, <4>1 DEF WriterInv, Recovers, Deciding, RecoverBind, Bind, At
    <3>3. CASE queue' = queue BY <1>2, <3>1, <3>3
    <3>4. CASE queue' = Anchored
      <4>1. PICK q \in Docs : q = queue BY <3>2 DEF LedgerInv, TypeOK
      <4>2. PICK a \in Seq(Logs) : a = HeadRevision(head[queue.gen])
        <5>1. head[queue.gen] \in Settled BY <3>2, StoreNow, LiveView DEF Prepared
        <5> QED BY <5>1, AppendProperties DEF HeadRevision, Settled
      <4> DEFINE r == [q EXCEPT !.anchor = a]
      <4>3. r \in Docs /\ r.gen = q.gen /\ r.prev = q.prev /\ r.events = q.events BY DEF Docs
      <4>4. queue' = r BY <3>4, <4>1, <4>2 DEF Anchored
      <4> HIDE DEF r
      <4> QED BY <3>1, <3>2, <4>1, <4>3, <4>4, LedgerConstants DEF Leaves, SameQueue
    <3> QED BY <3>1, <3>3, <3>4
  <2>5. CASE Publish(p, w)
    <3>1. CASE w = "unpublished" BY <1>2, <2>5, <3>1 DEF Publish
    <3>2. CASE w # "unpublished"
      <4>1. PICK u \in Operations : u = op[p] BY DEF LedgerInv, TypeOK
      <4>2. /\ queue # None /\ Undecided(u)
            /\ head[queue.gen].after = Append(View, [event |-> u.event, decision |-> u.decision])
        BY <2>5, <4>1 DEF LedgerInv, Publish, At, Outside, WriterInv, Deciding
      <4>3. PICK x \in Dispositions :
              x = [event |-> u.event, decision |-> u.decision] /\ x.event = u.event
        <5>1. queue.events \in Seq(Events) BY <4>2, StoreNow, LiveView
        <5>2. Range(queue.events) \subseteq Events BY <5>1, ElementOfSeq DEF Range
        <5> QED BY <4>2, <5>2 DEF Undecided, Dispositions
      <4>4. Decides(x) BY <2>5, <3>2, <4>2, <4>3 DEF Publish, Decides, Undecided
      <4> QED BY <4>4
    <3> QED BY <3>1, <3>2
  <2>6. CASE ArchiveCopy(p, w)
    <3>1. queue # None
      <4>1. WriterInv(op[p]) BY <2>6 DEF LedgerInv, ArchiveCopy, At, Outside
      <4> QED BY <2>6, <4>1 DEF WriterInv, Archiving, Seen, ArchiveCopy, At
    <3> QED BY <2>6, <3>1 DEF ArchiveCopy, Leaves, SameQueue
  <2>7. CASE Rotate(p, w)
    <3>1. queue # None /\ queue.gen < MaxGeneration
      <4>1. WriterInv(op[p]) BY <2>7 DEF LedgerInv, Rotate, At, Outside
      <4> QED BY <2>7, <4>1 DEF WriterInv, Archiving, Seen, Rotate, At
    <3>2. CASE w = "unpublished" BY <1>2, <2>7, <3>2 DEF Rotate
    <3>3. CASE w # "unpublished" BY <2>7, <3>1, <3>3 DEF Rotate, Opens
    <3> QED BY <3>2, <3>3
  <2> QED BY <2>1, <2>2, <2>3, <2>4, <2>5, <2>6, <2>7 DEF Mutation
<1> QED
  BY <1>1, <1>2, <1>3
     DEF Begin, Enter, QueueFull, RecoverDone, ArchiveLimit, End, Die, store

\* The next generation counts the one before it among the past.
LEMMA OpensPast ==
  ASSUME StoreInv, StoreInv', Opens
  PROVE  /\ queue' # None /\ Past' = Past \cup Range(queue.events) /\ queue'.events = << >>
         /\ queue'.gen = queue.gen + 1 /\ queue.gen \in Nat
<1>1. PICK q \in Docs : q = queue /\ q.gen \in Nat
  BY LedgerConstants DEF Opens, StoreInv, StoreTyped, Docs, Generations
<1>2. q.gen = Len(q.prev) BY <1>1 DEF Opens, StoreInv, Readable, LineageValid
<1>3. q.prev \in Seq(Bodies) /\ q.events \in Seq(Events) BY DEF Docs, Revisions
<1>4. PICK x \in Bodies : x = [anchor |-> q.anchor, events |-> q.events] /\ x.events = q.events
  <2>1. [anchor |-> q.anchor, events |-> q.events] \in Bodies BY DEF Docs, Bodies
  <2> QED BY <2>1
<1>5. PICK s \in Seq(Bodies) : /\ s = Append(q.prev, x) /\ s = Revision(q) /\ s[q.gen + 1] = x
                               /\ \A i \in 1 .. q.gen : s[i] = q.prev[i]
  <2>1. Revision(q) = Append(q.prev, x) BY <1>4 DEF Revision
  <2>2. /\ Append(q.prev, x) \in Seq(Bodies) /\ Append(q.prev, x)[Len(q.prev) + 1] = x
        /\ \A i \in 1 .. Len(q.prev) : Append(q.prev, x)[i] = q.prev[i]
    BY <1>3, AppendProperties
  <2> QED BY <1>2, <2>1, <2>2
<1>6. /\ queue'.gen = q.gen + 1 /\ queue'.prev = s /\ queue'.events = << >>
  BY <1>1, <1>5 DEF Opens, Doc
<1>7. queue' # None
  <2>1. q.gen + 1 \in Generations /\ s \in Revisions
    BY <1>1, <1>5, LedgerConstants DEF Opens, Generations, Revisions
  <2>2. Doc(q.gen + 1, s, << >>, << >>) \in Docs BY <2>1 DEF Doc, Docs
  <2> QED BY <1>1, <1>5, <2>2, LedgerConstants DEF Opens
<1>8. Range(q.events) \subseteq Events BY <1>3, ElementOfSeq DEF Range
<1>9. Past' = {e \in Events : \E i \in 1 .. q.gen + 1 : e \in Range(s[i].events)}
  BY <1>6 DEF Past
<1>10. Past = {e \in Events : \E i \in 1 .. q.gen : e \in Range(q.prev[i].events)}
  BY <1>1 DEF Past
<1>11. Past' \subseteq Past \cup Range(q.events)
  <2>1. ASSUME NEW e \in Past' PROVE e \in Past \cup Range(q.events)
    <3>1. PICK i \in 1 .. q.gen + 1 : e \in Events /\ e \in Range(s[i].events) BY <1>9
    <3>2. CASE i = q.gen + 1 BY <1>4, <1>5, <3>1, <3>2
    <3>3. CASE i # q.gen + 1
      <4>1. i \in 1 .. q.gen BY <1>1, <3>3
      <4> QED BY <1>5, <1>10, <3>1, <4>1
    <3> QED BY <3>2, <3>3
  <2> QED BY <2>1
<1>12. Past \subseteq Past'
  <2>1. ASSUME NEW i \in 1 .. q.gen PROVE i \in 1 .. q.gen + 1 BY <1>1
  <2> QED BY <1>5, <1>9, <1>10, <2>1
<1>13. Range(q.events) \subseteq Past'
  <2>1. q.gen + 1 \in 1 .. q.gen + 1 BY <1>1
  <2> QED BY <1>4, <1>5, <1>8, <1>9, <2>1
<1> QED BY <1>1, <1>6, <1>7, <1>11, <1>12, <1>13

LEMMA DistinctStep ==
  ASSUME LedgerInv, LedgerInv', Distinct, Next
  PROVE  Distinct'
<1>1. StoreInv BY StoreNow
<1>2. StoreInv' BY DEF LedgerInv, TypeOK, StoreInv, StoreTyped
<1>3. CASE Leaves
  <2>1. ASSUME NEW a \in archive' PROVE a.gen = Len(a.prev)
    BY <1>1, <1>3, <2>1 DEF Leaves, Distinct, StoreInv, Readable, LineageValid
  <2>2. queue # None => Past' = Past BY <1>3 DEF Leaves, SameQueue, Past
  <2> QED BY <1>3, <2>1, <2>2 DEF Leaves, SameQueue, Distinct
<1>4. CASE \E e \in Events : Queues(e)
  <2>1. PICK e \in Events : Queues(e) BY <1>4
  <2>2. CASE queue = None
    <3>1. Past' = {} BY <2>1, <2>2 DEF Queues, Past
    <3> QED BY <2>1, <3>1 DEF Queues, Distinct
  <2>3. CASE queue # None
    <3>1. Past' = Past BY <2>1, <2>3 DEF Queues, Past
    <3>2. queue.events \in Seq(Events) BY <1>1, <2>3, LiveView
    <3>3. Range(queue'.events) = Range(queue.events) \cup {e}
      <4>1. Range(Append(queue.events, e)) = Range(queue.events) \cup {e} BY <3>2, RangeAppend
      <4> QED BY <2>1, <2>3, <4>1 DEF Queues
    <3>4. e \notin Past BY <1>1, <2>1, <2>3, NormalForm DEF Queues, Queued
    <3> QED BY <2>1, <2>3, <3>1, <3>3, <3>4 DEF Queues, Distinct
  <2> QED BY <2>2, <2>3
<1>5. CASE \E x \in Dispositions : Decides(x) BY <1>5 DEF Decides, Distinct, Past
<1>6. CASE Opens
  <2>1. Range(queue'.events) = {} BY <1>1, <1>2, <1>6, OpensPast DEF Range
  <2> QED BY <1>6, <2>1 DEF Opens, Distinct
<1> QED BY <1>3, <1>4, <1>5, <1>6, StepEffects

\* An event of the live generation that its log does not decide has no decision at all:
\* the logs of the generations before it decide their own events.
LEMMA NoAnswer ==
  ASSUME StoreInv, Distinct, queue # None, NEW e \in Range(queue.events) \ Decided(View)
  PROVE  Answers(e) = {}
<1> SUFFICES ASSUME NEW d \in Decisions, NEW g \in 0 .. Generation,
                    [event |-> e, decision |-> d] \in Range(Content(g))
             PROVE  FALSE
  BY DEF Answers
<1>1. PICK q \in Docs : q = queue /\ q.gen \in Nat /\ Generation = q.gen
  BY LedgerConstants DEF StoreInv, StoreTyped, Docs, Generations, Generation
<1>2. e \in Decided(Content(g))
  <2>1. PICK i \in DOMAIN Content(g) : Content(g)[i] = [event |-> e, decision |-> d]
    BY DEF Range
  <2>2. Content(g)[i].event = e BY <2>1
  <2> QED BY <2>2 DEF Decided
<1>3. CASE g = q.gen BY <1>1, <1>2, <1>3 DEF View
<1>4. CASE g # q.gen
  <2>1. g + 1 \in 1 .. q.gen /\ (g + 1) - 1 = g BY <1>1, <1>4
  <2>2. Ancestor((g + 1) - 1, q.prev[g + 1], SubSeq(q.prev, 1, g + 1))
    BY <1>1, <2>1, LineageAncestors DEF StoreInv, Readable
  <2>3. Decided(Content(g)) = Range(q.prev[g + 1].events) BY <2>1, <2>2 DEF Ancestor, ArchivedLog
  <2>4. e \in Events
    <3>1. q.events \in Seq(Events) BY DEF Docs
    <3> QED BY <1>1, <3>1, ElementOfSeq DEF Range
  <2>5. e \in Past BY <1>1, <1>2, <2>1, <2>3, <2>4 DEF Past
  <2> QED BY <2>5 DEF Distinct
<1> QED BY <1>3, <1>4

\* Every step is a step of the promise, or leaves it alone.
LEMMA StepImplements ==
  ASSUME LedgerInv, LedgerInv', Distinct, Distinct', [Next]_vars
  PROVE  [Abstract!Next]_<<Intents, DispositionOf>>
<1>1. StoreInv BY StoreNow
<1>2. StoreInv' BY DEF LedgerInv, TypeOK, StoreInv, StoreTyped
<1>3. Intents = Queued /\ Queued \subseteq Known /\ DispositionOf = [e \in Events |-> Answers(e)]
  BY <1>1, NormalForm
<1>4. Intents' = Queued' /\ DispositionOf' = [e \in Events |-> Answers(e)']
  BY <1>2, NormalFormNext
<1>5. ASSUME Queued' = Queued, \A e \in Events : Answers(e)' = Answers(e)
      PROVE  UNCHANGED <<Intents, DispositionOf>>
  BY <1>3, <1>4, <1>5
<1>6. CASE UNCHANGED vars
  <2>1. Queued' = Queued BY <1>6 DEF Queued, Past, vars, store
  <2>2. ASSUME NEW e \in Events PROVE Answers(e)' = Answers(e)
    BY <1>6 DEF Answers, Generation, Content, vars, store
  <2> QED BY <1>5, <2>1, <2>2
<1>7. CASE Leaves
  <2>1. Queued' = Queued BY <1>7 DEF Leaves, SameQueue, Queued, Past
  <2>2. Generation' = Generation BY <1>7 DEF Leaves, SameQueue, Generation
  <2>3. ASSUME NEW e \in Events PROVE Answers(e)' = Answers(e)
    BY <1>7, <2>2 DEF Leaves, Answers, Content
  <2> QED BY <1>5, <2>1, <2>3
<1>8. CASE \E e \in Events : Queues(e)
  <2>1. PICK e \in Events : Queues(e) BY <1>8
  <2>2. Queued' = Queued \cup {e}
    <3>1. CASE queue = None
      <4>1. Range(Append(<< >>, e)) = {e}
        <5>1. << >> \in Seq(Events) OBVIOUS
        <5>2. PICK s \in Seq(Events) : s = << >> BY <5>1, Zenon
        <5>3. Range(Append(s, e)) = Range(s) \cup {e} BY RangeAppend
        <5>4. Range(s) = {} BY <5>2 DEF Range
        <5> QED BY <5>2, <5>3, <5>4
      <4>2. Past' = {} /\ queue'.events = Append(<< >>, e) /\ queue' # None
        BY <2>1, <3>1 DEF Queues, Past
      <4>3. Range(queue.events)' = {e} BY <4>1, <4>2
      <4> QED BY <3>1, <4>2, <4>3 DEF Queued
    <3>2. CASE queue # None
      <4>1. queue.events \in Seq(Events) BY <1>1, <3>2, LiveView
      <4>2. Range(Append(queue.events, e)) = Range(queue.events) \cup {e} BY <4>1, RangeAppend
      <4>3. Past' = Past /\ queue'.events = Append(queue.events, e) /\ queue' # None
        BY <2>1, <3>2 DEF Queues, Past
      <4>4. Range(queue.events)' = Range(queue.events) \cup {e} BY <4>2, <4>3
      <4> QED BY <3>2, <4>3, <4>4 DEF Queued
    <3> QED BY <3>1, <3>2
  <2>3. Generation' = Generation BY <2>1 DEF Queues, Generation
  <2>4. ASSUME NEW f \in Events PROVE Answers(f)' = Answers(f)
    BY <2>1, <2>3 DEF Queues, Answers, Content
  <2>5. DispositionOf' = DispositionOf BY <1>3, <1>4, <2>4
  <2>6. e \in Events \ Intents /\ Intents' = Intents \cup {e}
    BY <1>3, <1>4, <2>1, <2>2 DEF Queues
  <2> QED BY <2>5, <2>6 DEF Abstract!Next, Abstract!Queue
<1>9. CASE \E x \in Dispositions : Decides(x)
  <2>1. PICK x \in Dispositions : Decides(x) BY <1>9
  <2>2. PICK e \in Events, d \in Decisions : x.event = e /\ x = [event |-> e, decision |-> d]
    BY DEF Dispositions
  <2>3. /\ queue # None /\ UNCHANGED queue /\ e \in Range(queue.events) \ Decided(View)
        /\ log' = [log EXCEPT ![queue.gen] = Append(View, x)]
    BY <2>1, <2>2 DEF Decides
  <2>4. Intents' = Intents /\ e \in Intents BY <1>3, <1>4, <2>3 DEF Queued, Past
  <2>5. DispositionOf[e] = {} BY <1>1, <1>3, <2>3, NoAnswer
  <2>6. /\ queue.gen \in Generations /\ queue.gen \in Nat /\ View \in Logs
        /\ Content(queue.gen) = View /\ Generation = queue.gen
    BY <1>1, <2>3, LiveView, LedgerConstants DEF Generation, Generations
  <2>7. Generation' = Generation BY <2>3 DEF Generation
  <2>8. Content(queue.gen)' = Append(View, x)
    <3>1. Append(View, x) \in Logs /\ Append(View, x) # None
      BY <2>6, AppendProperties, LedgerConstants DEF Logs
    <3>2. log'[queue.gen] = Append(View, x) BY <1>1, <2>3, <2>6 DEF StoreInv, StoreTyped
    <3> QED BY <2>3, <3>1, <3>2 DEF Content
  <2>9. Range(Append(View, x)) = Range(View) \cup {x} BY <2>6, RangeAppend DEF Logs
  <2>10. ASSUME NEW g \in 0 .. Generation, g # queue.gen PROVE Content(g)' = Content(g)
    <3>1. g \in Generations BY <2>6, LedgerConstants DEF Generations
    <3> QED BY <1>1, <2>3, <2>10, <3>1 DEF Content, StoreInv, StoreTyped
  <2>11. ASSUME NEW f \in Events, NEW b \in Decisions
         PROVE  b \in Answers(f)' <=> b \in Answers(f) \/ x = [event |-> f, decision |-> b]
    <3>1. ASSUME NEW g \in 0 .. Generation
          PROVE  Range(Content(g))' = IF g = queue.gen THEN Range(Content(g)) \cup {x}
                                                      ELSE Range(Content(g))
      <4>1. CASE g = queue.gen BY <2>3, <2>6, <2>8, <2>9, <4>1
      <4>2. CASE g # queue.gen BY <2>10, <4>2
      <4> QED BY <4>1, <4>2
    <3>2. queue.gen \in 0 .. Generation BY <2>6
    <3> QED BY <2>7, <3>1, <3>2 DEF Answers
  <2>12. Answers(e)' = {d}
    <3>1. Answers(e) = {} BY <1>3, <2>5
    <3>2. ASSUME NEW b \in Decisions PROVE x = [event |-> e, decision |-> b] <=> b = d BY <2>2
    <3>3. Answers(e)' \subseteq Decisions BY DEF Answers
    <3> QED BY <2>11, <3>1, <3>2, <3>3
  <2>13. ASSUME NEW f \in Events, f # e PROVE Answers(f)' = Answers(f)
    <3>1. ASSUME NEW b \in Decisions PROVE x # [event |-> f, decision |-> b] BY <2>2, <2>13
    <3>2. Answers(f)' \subseteq Decisions /\ Answers(f) \subseteq Decisions BY DEF Answers
    <3> QED BY <2>11, <3>1, <3>2
  <2>14. DispositionOf' = [DispositionOf EXCEPT ![e] = {d}] BY <1>3, <1>4, <2>12, <2>13
  <2> QED BY <2>4, <2>5, <2>14 DEF Abstract!Next, Abstract!Decide
<1>10. CASE Opens
  <2>1. /\ queue' # None /\ Past' = Past \cup Range(queue.events) /\ queue'.events = << >>
        /\ queue'.gen = queue.gen + 1 /\ queue.gen \in Nat /\ queue # None
    BY <1>1, <1>2, <1>10, OpensPast DEF Opens
  <2>2. Range(queue'.events) = {} BY <2>1 DEF Range
  <2>3. Queued' = Queued BY <2>1, <2>2 DEF Queued
  <2>4. Generation = queue.gen /\ Generation' = queue.gen + 1 BY <2>1 DEF Generation
  <2>5. \A g : Content(g)' = Content(g) BY <1>10 DEF Opens, Content
  <2>6. Content(queue.gen + 1) = << >>
    <3>1. queue.gen + 1 \in Generations /\ queue.gen + 1 > Generation
      BY <1>10, <2>1, <2>4, LedgerConstants DEF Opens, Generations
    <3> QED BY <1>1, <3>1 DEF StoreInv, Untouched, Content
  <2>7. ASSUME NEW e \in Events PROVE Answers(e)' = Answers(e)
    <3>1. \A g \in 0 .. queue.gen + 1 : g \in 0 .. queue.gen \/ g = queue.gen + 1 BY <2>1
    <3>2. \A g \in 0 .. queue.gen : g \in 0 .. queue.gen + 1 BY <2>1
    <3>3. Range(Content(queue.gen + 1)) = {} BY <2>6 DEF Range
    <3> QED BY <2>4, <2>5, <3>1, <3>2, <3>3 DEF Answers
  <2> QED BY <1>5, <2>3, <2>7
<1> QED BY <1>6, <1>7, <1>8, <1>9, <1>10, StepEffects

LEMMA InitImplements == Init => Distinct /\ Abstract!Init
<1> SUFFICES ASSUME Init PROVE Distinct /\ Abstract!Init
  OBVIOUS
<1>1. Lineage = {} BY DEF Init, Lineage
<1>2. Intents = {} /\ DispositionOf = [e \in Events |-> {}] BY <1>1 DEF Intents, DispositionOf
<1> QED BY <1>2 DEF Init, Distinct, Abstract!Init

LEMMA DistinctInvariant == Spec => []Distinct
<1>1. LedgerInv /\ LedgerInv' /\ Distinct /\ [Next]_vars => Distinct'
  <2>1. UNCHANGED vars /\ Distinct => Distinct' BY DEF vars, store, Distinct, Past
  <2> QED BY <2>1, DistinctStep
<1> QED BY <1>1, InitImplements, LedgerInvariant, PTL DEF Spec

\* Through deaths, failing publications, recovery and archival, the files implement the
\* promise of the ledger: an intent that was visible is never lost, and receives at most
\* one decision, which never changes.
THEOREM LedgerImplementsPromise == Spec => Implements
<1>1. LedgerInv /\ LedgerInv' /\ Distinct /\ Distinct' /\ [Next]_vars
        => [Abstract!Next]_<<Intents, DispositionOf>>
  BY StepImplements
<1> QED
  BY <1>1, InitImplements, LedgerInvariant, DistinctInvariant, PTL
     DEF Spec, Implements, Abstract!Spec
=============================================================================
