----------------------------- MODULE TaskHands -----------------------------
(* Task records, the Codex hands they own, the dispatches that claim them,
   and the WorkThreads that focus them.  Record operations hold the
   vault-wide lock and compare the record's revision, so each is one action;
   the dispatch operations read the task before they take the lock and are
   two.  A hand that moves from one task to another is two record writes,
   release first, and so is a WorkThread merge, target first: a death may
   part them.  `run` stands for agent_run with the agent as next actor,
   `blocked` for a named blocker and the waiting_on that repeats it. *)
EXTENDS Naturals, FiniteSets

CONSTANTS
    Tasks, Threads, Hands,
    Dispatches,       \* dispatch IDs, each the caller that uses it
    MaxRecordEdits,   \* bound: writes of records
    Nil

VARIABLES
    task,     \* task -> record, or Nil before it is created
    thread,   \* WorkThread -> record, or Nil
    asRead,   \* dispatch -> [id, rec] it read outside the lock, or Nil
    recordEdits

handsVars == <<task, thread, asRead, recordEdits>>

TaskTerminal == {"done", "superseded"}
TaskStatuses == {"ready", "doing", "waiting"} \cup TaskTerminal
ThreadTerminal == {"resolved", "superseded"}

Made(f) == {x \in DOMAIN f : f[x] # Nil}
Live(t) == task[t] # Nil /\ task[t].status \notin TaskTerminal

RecordEdit == recordEdits < MaxRecordEdits /\ recordEdits' = recordEdits + 1

\* The first n records after x, along `next`.
Walk(next, x, n) ==
    LET at[k \in 0..n] == IF k = 0 THEN x ELSE next[at[k - 1]] IN at

\* The superseder of each task; none of a task that is not there.
Successor ==
    [x \in Tasks \cup {Nil} |->
        IF x = Nil \/ task[x] = Nil THEN Nil ELSE task[x].superseded_by]

\* Tasks along superseded_by from t.
Successors(t) ==
    LET at == Walk(Successor, t, Cardinality(Tasks))
    IN  {at[n] : n \in 1..Cardinality(Tasks)} \ {Nil}

\* _validate_task_supersession
Supersedable(t, by) == by # t /\ task[by] # Nil /\ t \notin Successors(by)

\* _require_task_focus_cleared
FocusCleared(t) ==
    \A w \in Made(thread) : thread[w].status \notin ThreadTerminal => thread[w].focus # t

\* _active_hand_transfer_owner: the other live owners of the hand.
OtherOwners(t, h) == {x \in Tasks \ {t} : h # Nil /\ Live(x) /\ task[x].hand = h}

\* A doing owner refuses the transfer, and so do two of them.
Transferable(t, h) ==
    Cardinality(OtherOwners(t, h)) <= 1 /\ \A x \in OtherOwners(t, h) : task[x].status # "doing"

\* An agent-run task takes a hand only through its claim, and a task that has
\* a hand becomes an agent-run one only with a claim.
BoundThroughDispatch(before, after) ==
    after.run /\ after.hand # Nil =>
      /\ after.hand # before.hand =>
           before.claim # Nil /\ after.status = "doing"
      /\ ~before.run => before.claim # Nil

\* _validate_task_state and the update's own rules on the record it writes.
ValidTask(r) ==
    /\ r.status \in TaskTerminal => r.hand = Nil
    /\ r.superseded_by # Nil <=> r.status = "superseded"
    /\ r.blocked => r.status = "waiting"

\* The record of an owner that lets go of its hand.
Released(r) == [r EXCEPT !.hand = Nil, !.rev = @ + 1]

\* Mutant: the new binding is written before the old owner lets go.
BindFirst(t, after, h, dies) ==
    [x \in Tasks |-> CASE x = t -> after
                       [] x \in OtherOwners(t, h) /\ ~dies -> Released(task[x])
                       [] OTHER -> task[x]]

\* The two writes of a transfer: the previous owner is released, then the
\* task is written, unless the call dies between them.
TransferWrites(t, after, h, dies) ==
    [x \in Tasks |-> CASE x \in OtherOwners(t, h) -> Released(task[x])
                       [] x = t /\ ~dies -> after
                       [] OTHER -> task[x]]

\* The record the caller's fields make of the one on disk: a terminal status
\* lets go of the hand and the blocker.
Candidate(want) ==
    LET terminal == want.status \in TaskTerminal
    IN  [want EXCEPT !.hand = IF terminal THEN Nil ELSE @,
                     !.blocked = ~terminal /\ @,
                     !.rev = @ + 1]

\* _changed_fields: an update that changes nothing writes nothing.
Changed(before, after) == after # [before EXCEPT !.rev = @ + 1]

\* _update_task_record after the revision check.
WriteTask(t, want) ==
    LET before == task[t]
        after == Candidate(want)
    IN
    /\ RecordEdit
    /\ before.claim = Nil \/ want.claim \in {before.claim, Nil}
    /\ Changed(before, after)
    /\ BoundThroughDispatch(before, after)
    /\ after.status \in TaskTerminal => FocusCleared(t)
    /\ ValidTask(after)
    /\ after.superseded_by # Nil => Supersedable(t, after.superseded_by)
    /\ Transferable(t, after.hand)
    /\ \E dies \in BOOLEAN :
         /\ dies => OtherOwners(t, after.hand) # {}
         /\ task' = TransferWrites(t, after, after.hand, dies)

\* new_task: no claim yet.
NewTask(h, run) ==
    [status |-> "ready", hand |-> h, run |-> run, claim |-> Nil,
     blocked |-> FALSE, superseded_by |-> Nil, rev |-> 1]

\* create_task: an agent-run task has no hand before its claim.
CreateTask(t, h, run) ==
    /\ task[t] = Nil /\ RecordEdit
    /\ ~(run /\ h # Nil)
    /\ OtherOwners(t, h) = {}
    /\ task' = [task EXCEPT ![t] = NewTask(h, run)]
    /\ UNCHANGED <<thread, asRead>>

\* update_task with a fresh revision: status, hand, agent_run, superseder and
\* named blocker; the hand of a claimed task is out of its reach.
UpdateTask(t, status, hand, run, by, blocked) ==
    /\ hand # task[t].hand => task[t].claim = Nil
    /\ WriteTask(t, [task[t] EXCEPT !.status = status, !.hand = hand,
                                    !.run = run, !.superseded_by = by,
                                    !.blocked = blocked])
    /\ UNCHANGED <<thread, asRead>>

\* A dispatch reads the task it will work on.
Read(d, t) ==
    /\ task[t] # Nil
    /\ asRead' = [asRead EXCEPT ![d] = [id |-> t, rec |-> task[t]]]
    /\ UNCHANGED <<task, thread, recordEdits>>

\* _update_task_dispatch: the same writer, refused when the record moved on.
WriteDispatch(d, want) ==
    /\ task[asRead[d].id].rev = asRead[d].rec.rev
    /\ WriteTask(asRead[d].id, want)
    /\ asRead' = [asRead EXCEPT ![d] = Nil]
    /\ UNCHANGED thread

\* _require_claim: the claim this dispatch made, at the revision it claimed.
Claims(d) == asRead[d] # Nil /\ asRead[d].rec.claim # Nil /\ asRead[d].rec.claim[1] = d

\* claim_task on an eligible task.
ClaimTask(d) ==
    /\ asRead[d] # Nil
    /\ LET r == asRead[d].rec IN
         /\ r.status = "ready" /\ r.run /\ ~r.blocked
         /\ r.claim = Nil /\ r.hand = Nil
         /\ WriteDispatch(d, [r EXCEPT !.claim = <<d, r.rev>>])

\* bind_task_hand: the claimed ready task starts doing under this hand.
BindHand(d, h) ==
    /\ Claims(d)
    /\ LET r == asRead[d].rec IN
         /\ r.status = "ready" /\ r.run /\ ~r.blocked
         /\ r.hand \in {Nil, h}
         /\ WriteDispatch(d, [r EXCEPT !.status = "doing", !.hand = h])

\* clear_task_hand
ClearHand(d) ==
    /\ Claims(d) /\ asRead[d].rec.hand # Nil
    /\ WriteDispatch(d, [asRead[d].rec EXCEPT !.hand = Nil])

\* write_task_blocker: waiting, named, the hand let go.
WriteBlocker(d) ==
    /\ Claims(d)
    /\ LET r == asRead[d].rec IN
         /\ r.run /\ r.status \in {"ready", "doing"} /\ ~r.blocked
         /\ WriteDispatch(d, [r EXCEPT !.status = "waiting", !.blocked = TRUE, !.hand = Nil])

\* clear_task_blocker: back to ready with the claim released.
ClearBlocker(d) ==
    /\ Claims(d)
    /\ LET r == asRead[d].rec IN
         /\ r.run /\ r.status = "waiting" /\ r.blocked
         /\ WriteDispatch(d, [r EXCEPT !.status = "ready", !.blocked = FALSE,
                                       !.hand = Nil, !.claim = Nil])

\* _validate_thread_focus
Focusable(focus, members) == focus # Nil => focus \in members /\ Live(focus)

\* new_thread
NewThread(members, focus) ==
    [status |-> "active", members |-> members, focus |-> focus,
     superseded_by |-> Nil, accepted |-> {}, rev |-> 1]

\* create_thread
CreateThread(w, members, focus) ==
    /\ thread[w] = Nil /\ RecordEdit
    /\ members \subseteq Made(task) /\ Focusable(focus, members)
    /\ thread' = [thread EXCEPT ![w] = NewThread(members, focus)]
    /\ UNCHANGED <<task, asRead>>

\* The record of update_thread.
Rewritten(r, status, members, focus) ==
    [r EXCEPT !.status = status, !.members = members, !.focus = focus, !.rev = @ + 1]

\* update_thread: a terminal WorkThread keeps no focus.
UpdateThread(w, status, members, focus) ==
    /\ RecordEdit /\ thread[w] # Nil /\ thread[w].status # "superseded"
    /\ members \subseteq Made(task)
    /\ status = "resolved" => focus = Nil
    /\ Focusable(focus, members)
    /\ <<status, members, focus>> # <<thread[w].status, thread[w].members, thread[w].focus>>
    /\ thread' = [thread EXCEPT ![w] = Rewritten(@, status, members, focus)]
    /\ UNCHANGED <<task, asRead>>

\* A WorkThread that may take part in a merge.
Canonical(w) == thread[w] # Nil /\ thread[w].status # "superseded"

\* The two records of a merge: the target's and the source's.
Accepting(r, members, marker) ==
    [r EXCEPT !.members = members, !.accepted = @ \cup {marker}, !.rev = @ + 1]
Redirected(r, t) ==
    [r EXCEPT !.status = "superseded", !.focus = Nil, !.superseded_by = t, !.rev = @ + 1]

\* merge_thread, its first write: the target takes the source's tasks and the
\* marker of this exact source version.
AcceptDuplicate(s, t, absorb) ==
    LET members == thread[t].members \cup (IF absorb THEN thread[s].members ELSE {})
        marker == <<s, thread[s].rev, absorb>>
    IN
    /\ s # t /\ thread[s] # Nil /\ thread[s].status # "superseded" /\ Canonical(t)
    /\ ~(marker \in thread[t].accepted /\ members = thread[t].members)
    /\ RecordEdit
    /\ thread' = [thread EXCEPT ![t] = Accepting(@, members, marker)]
    /\ UNCHANGED <<task, asRead>>

\* merge_thread, its second write, at once or by the retry that finds the
\* marker and nothing left to take.
RedirectDuplicate(s, t, absorb) ==
    /\ s # t /\ thread[s] # Nil /\ thread[s].status # "superseded" /\ Canonical(t)
    /\ <<s, thread[s].rev, absorb>> \in thread[t].accepted
    /\ absorb => thread[s].members \subseteq thread[t].members
    /\ thread' = [thread EXCEPT ![s] = Redirected(@, t)]
    /\ UNCHANGED <<task, asRead, recordEdits>>

HandsInit ==
    /\ task = [t \in Tasks |-> Nil]
    /\ thread = [w \in Threads |-> Nil]
    /\ asRead = [d \in Dispatches |-> Nil]
    /\ recordEdits = 0

HandsNext ==
    \/ \E t \in Tasks, h \in Hands \cup {Nil}, run \in BOOLEAN : CreateTask(t, h, run)
    \/ \E t \in Made(task), h \in Hands \cup {Nil}, run \in BOOLEAN, s \in TaskStatuses :
       \E by \in IF s = "superseded" THEN Tasks ELSE {Nil},
          blocked \in IF s = "waiting" THEN BOOLEAN ELSE {FALSE} :
         UpdateTask(t, s, h, run, by, blocked)
    \/ \E d \in Dispatches :
         \/ \E t \in Tasks : Read(d, t)
         \/ ClaimTask(d) \/ \E h \in Hands : BindHand(d, h)
         \/ ClearHand(d) \/ WriteBlocker(d) \/ ClearBlocker(d)
    \/ \E w \in Threads, m \in SUBSET Tasks, f \in Tasks \cup {Nil} :
         \/ CreateThread(w, m, f)
         \/ \E s \in {"active", "waiting", "resolved"} : UpdateThread(w, s, m, f)
    \/ \E s, t \in Threads, absorb \in BOOLEAN :
         AcceptDuplicate(s, t, absorb) \/ RedirectDuplicate(s, t, absorb)

HandsSpec == HandsInit /\ [][HandsNext]_handsVars

TaskRecord ==
    [status : TaskStatuses, hand : Hands \cup {Nil}, run : BOOLEAN,
     claim : {Nil} \cup (Dispatches \X (1..MaxRecordEdits)), blocked : BOOLEAN,
     superseded_by : Tasks \cup {Nil}, rev : 1..MaxRecordEdits]

ThreadRecord ==
    [status : {"active", "waiting"} \cup ThreadTerminal, members : SUBSET Tasks,
     focus : Tasks \cup {Nil}, superseded_by : Threads \cup {Nil},
     accepted : SUBSET (Threads \X Nat \X BOOLEAN), rev : Nat]

TaskReads == [id : Tasks, rec : TaskRecord]

\* The vault holds finitely many records; "nothing" is none of the values.
ASSUME HandsAssumption ==
    /\ IsFiniteSet(Tasks) /\ IsFiniteSet(Threads) /\ MaxRecordEdits \in Nat
    /\ Nil \notin Tasks \cup Threads \cup Hands
    /\ Nil \notin Dispatches \X (1..MaxRecordEdits)
    /\ Nil \notin TaskRecord /\ Nil \notin ThreadRecord /\ Nil \notin TaskReads

HandsTyped ==
    /\ task \in [Tasks -> TaskRecord \cup {Nil}]
    /\ thread \in [Threads -> ThreadRecord \cup {Nil}]
    /\ asRead \in [Dispatches -> TaskReads \cup {Nil}]
    /\ recordEdits \in 0..MaxRecordEdits

(* One live task per exact Codex hand, through transfers whose two writes a
   death may part, reopened tasks and dispatches that act on old reads. *)
OneHand ==
    \A t, u \in Tasks :
        Live(t) /\ Live(u) /\ task[t].hand # Nil /\ task[t].hand = task[u].hand => t = u

(* A hand on a task approved for agent execution was bound through a claim
   that the task still carries, in whichever order the hand, the approval,
   the claim and the status came. *)
FactoryHandClaimed ==
    \A t \in Made(task) : task[t].run /\ task[t].hand # Nil => task[t].claim # Nil

(* The focus of a WorkThread that is not terminal is one of its members and
   a task that is not terminal: tasks cannot end under a focus, a WorkThread
   cannot focus an ended task, and a merge moves neither. *)
LiveFocus ==
    \A w \in Made(thread) :
        thread[w].status \notin ThreadTerminal => Focusable(thread[w].focus, thread[w].members)

\* Where superseded_by of a WorkThread leads; one that is not superseded stays.
Redirect ==
    [w \in Threads |->
        IF thread[w] # Nil /\ thread[w].status = "superseded"
        THEN thread[w].superseded_by ELSE w]

(* Following superseded_by from any WorkThread, merged once or by the retry
   of a merge that died, ends at one that is not superseded; following it
   from any task never returns to it. *)
RedirectsEnd ==
    /\ \A t \in Made(task) : t \notin Successors(t)
    /\ \A w \in Made(thread) :
         LET end == Walk(Redirect, w, Cardinality(Threads))[Cardinality(Threads)]
         IN  thread[end] # Nil /\ thread[end].status # "superseded"

(* The records of the task side of the vault are sound together. *)
HandsHonest == HandsTyped /\ OneHand /\ FactoryHandClaimed /\ LiveFocus /\ RedirectsEnd
=============================================================================
