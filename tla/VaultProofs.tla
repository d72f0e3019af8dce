---------------------------- MODULE VaultProofs ----------------------------
(***************************************************************************)
(* Proofs about what the vault keeps: VaultWrite, how one record is
   written; TaskHands, the records of tasks, hands and WorkThreads; and
   EntityGraph, the records of entities and the links that name them.

   VaultWrite, for any number of writers, records, operations, edits and
   crashes: type correctness, OutcomeHonest, UnauditedOnlyAfterFailure,
   NoClobber and JournalReplays.

   The inductive invariant says who holds the lock (LockInv), that every
   operation has an identity of its own which is neither reported nor
   audited while it runs (OpInv), what the writer in the critical section
   has staged, quarantined and published (StageInv), that an operation
   which has not started or was reported as not committed has no file that
   could still reach a canonical path (HiddenInv), and that every file
   which could is accounted for (AccountedInv).
   JournalReplays needs a second one (ReplayInv): where the file that the
   last event left is at every step of the exact replacement and its undo.

   TaskHands and EntityGraph, for all sets of records and any number of
   edits: HandsHonest and GraphHonest.  In HandsInv redirects can be
   ranked, so that no chain of them has a cycle, and a dispatch that was
   read is no newer than the record.  In GraphInv redirects can be ranked
   too, and ToldHeld says of a merge that stopped between its two writes
   what the retry relies on: the target already holds every relationship
   of the source it absorbed. *)
(***************************************************************************)
EXTENDS VaultWrite, TaskHands, EntityGraph, FiniteSetTheorems, WellFoundedInduction, TLAPS

Busy(w)  == pc[w] \notin {"idle", "called"}
By(f, o) == f # NoFile /\ f.by = o

\* The global lock is held exactly by the writer inside the critical section.
LockInv == \A w \in Writers : Busy(w) <=> lock = w

\* Operations are numbered apart; a running one is neither reported nor audited.
OpInv ==
  /\ \A w \in Writers : pc[w] # "idle" =>
       op[w] \in Ops /\ op[w] < nextOp /\ outcome[op[w]] = "none" /\ ~Audited(op[w])
  /\ \A v, w \in Writers :
       v # w /\ pc[v] # "idle" /\ pc[w] # "idle" => op[v] # op[w]
  /\ \A o \in Ops : o >= nextOp => outcome[o] = "none" /\ ~Audited(o)

\* What the writer in the critical section expects, holds and publishes, and when
\* its own file may be seen at the canonical path.
StageInv ==
  \A w \in Writers : Busy(w) =>
    /\ ~By(prior[w], op[w])
    /\ prior[w] = NoFile \/ prior[w].body = seen[w]
    /\ ~undo[w] => want[w] = prior[w] /\ By(pub[w], op[w]) /\ ~By(quar[w], op[w])
    /\ undo[w] => /\ By(want[w], op[w])
                  /\ pub[w] = NoFile \/ (pub[w].body = seen[w] /\ pub[w].by # op[w])
                  /\ pc[w] # "append"
    /\ pc[w] \in {"quarantine", "append"} => quar[w] = NoFile
    /\ pc[w] \in {"publish", "verify"} => quar[w] \in {want[w], NoFile}
    /\ pc[w] = "unlink" => quar[w] = want[w]
    /\ \A r \in Records : By(leaf[r], op[w]) =>
         /\ r = rec[w]
         /\ IF undo[w] THEN pc[w] = "quarantine"
                       ELSE pc[w] \in {"verify", "unlink", "append"}

\* No file of operation o is visible or can become visible again.
Hidden(o) ==
  /\ \A r \in Records : ~By(leaf[r], o)
  /\ \A v \in Writers : Busy(v) => ~By(quar[v], o) /\ ~By(pub[v], o) /\ ~By(prior[v], o)

HiddenInv ==
  \A o \in Ops :
    \/ outcome[o] = "notCommitted"
    \/ o >= nextOp
    \/ \E w \in Writers : pc[w] = "called" /\ op[w] = o
    => Hidden(o)

\* Operations whose file may be at a canonical path.
Answered ==
  {o \in Ops : Audited(o) \/ Working(o) \/ outcome[o] \in {"degraded", "crashed"}}

Accounted(f) == f = NoFile \/ f.by \in Answered \cup {0}

AccountedInv ==
  /\ \A r \in Records : Accounted(leaf[r])
  /\ \A w \in Writers :
       IF Busy(w) THEN Accounted(quar[w]) /\ Accounted(prior[w]) /\ Accounted(pub[w])
                  ELSE quar[w] = NoFile

HonestInv ==
  \A o \in Ops : /\ outcome[o] \in {"ok", "committed"} => Audited(o)
                 /\ outcome[o] = "notCommitted" => ~Audited(o)

Inv ==
  /\ TypeOK /\ LockInv /\ OpInv /\ StageInv
  /\ HiddenInv /\ AccountedInv /\ HonestInv

----------------------------------------
(* The journal *)

\* A step that leaves the journal alone leaves every operation's audit state.
LEMMA AuditedSame ==
  ASSUME UNCHANGED journal
  PROVE  \A o : Audited(o)' <=> Audited(o)
BY DEF Audited

\* One appended line (_event) audits exactly its own operation.
LEMMA AuditedAppend ==
  ASSUME TypeOK, NEW w \in Writers, op[w] \in Ops, AppendLine(w)
  PROVE  /\ journal' \in Seq(Line) /\ tail' \in Tails
         /\ \A o : Audited(o)' <=> (Audited(o) \/ o = op[w])
<1> DEFINE line == [op |-> op[w], rec |-> rec[w], before |-> prior[w], whole |-> tail = "newline"]
<1>1. line \in Line BY DEF TypeOK, Line
<1>2. journal \in Seq(Line) /\ journal' = Append(journal, line) /\ tail' = "newline"
  BY DEF TypeOK, AppendLine
<1> HIDE DEF line
<1>3. /\ journal' \in Seq(Line)
      /\ DOMAIN journal' = DOMAIN journal \cup {Len(journal) + 1}
      /\ \A i \in DOMAIN journal : journal'[i] = journal[i]
      /\ journal'[Len(journal) + 1] = line
      /\ Len(journal) + 1 \in DOMAIN journal'
  BY <1>1, <1>2
<1>4. line.op = op[w] BY DEF line
<1> QED BY <1>2, <1>3, <1>4 DEF Audited, Tails

----------------------------------------
(* Effects shared by several steps *)

\* A restored quarantine is at the leaf or set aside, and neither loses its type.
LEMMA RestoreType ==
  ASSUME TypeOK, NEW w \in Writers, RestoreQuarantine(w)
  PROVE  /\ leaf' \in [Records -> File \cup {NoFile}]
         /\ quar' \in [Writers -> File \cup {NoFile}]
         /\ aside' \subseteq File
<1>1. quar[w] \in File \cup {NoFile} /\ rec[w] \in Records BY DEF TypeOK
<1>2. quar' \in [Writers -> File \cup {NoFile}] BY DEF TypeOK, RestoreQuarantine
<1>3. CASE quar[w] # NoFile /\ leaf[rec[w]] = NoFile
  BY <1>1, <1>2, <1>3 DEF TypeOK, RestoreQuarantine
<1>4. CASE ~(quar[w] # NoFile /\ leaf[rec[w]] = NoFile)
  BY <1>1, <1>2, <1>4 DEF TypeOK, RestoreQuarantine
<1> QED BY <1>3, <1>4

----------------------------------------

(* Steps of a writer *)

\* A writer rejected before it entered (the timeout of _acquire, or a conflict found by
\* _expect) leaves the files of every operation alone.
LEMMA RejectInv ==
  ASSUME Inv, NEW w \in Writers, pc[w] = "called", Reject(w)
  PROVE  Inv'
<1> USE VaultWriteConstants DEF Inv, Reject, Goto, files, log, call, limits
<1>1. UNCHANGED <<journal, tail>> OBVIOUS
<1>2. \A o : Audited(o)' <=> Audited(o) BY <1>1, AuditedSame
<1>3. TypeOK' BY DEF TypeOK, Steps, Outcomes
<1>4. \A v \in Writers : /\ Busy(v)' <=> Busy(v)
                         /\ Busy(v) => pc'[v] = pc[v]
  BY DEF TypeOK, Busy
<1>5. LockInv' BY <1>4 DEF LockInv
<1>6. OpInv' BY <1>2 DEF TypeOK, OpInv, Ops
<1>7. StageInv' BY <1>4 DEF StageInv, By
<1>8. HiddenInv'
  <2>1. \A o \in Ops : Hidden(o)' <=> Hidden(o) BY <1>4 DEF Hidden, By
  <2> QED BY <2>1 DEF TypeOK, HiddenInv
<1>9. Answered \ {op[w]} \subseteq Answered' /\ Hidden(op[w])
  BY <1>2 DEF TypeOK, OpInv, HiddenInv, Answered, Working
<1>10. AccountedInv' BY <1>4, <1>9 DEF AccountedInv, Accounted, Hidden, By
<1>11. HonestInv' BY <1>2 DEF TypeOK, OpInv, HonestInv
<1> QED BY <1>3, <1>5, <1>6, <1>7, <1>8, <1>10, <1>11

\* The writer that enters stages a file of its own and has nothing in quarantine.
LEMMA EnterInv ==
  ASSUME Inv, NEW w \in Writers, Enter(w)
  PROVE  Inv'
<1> USE VaultWriteConstants DEF Inv, Enter, Current, Goto, files, log, call, limits
<1>1. UNCHANGED <<journal, tail>> OBVIOUS
<1>2. \A o : Audited(o)' <=> Audited(o) BY <1>1, AuditedSame
<1> DEFINE new == [body |-> op[w], ino |-> nextIno, by |-> op[w]]
<1>b. new \in File /\ new # NoFile /\ new.by = op[w] /\ pub' = [pub EXCEPT ![w] = new]
  BY DEF TypeOK, OpInv, Ops, File
<1> HIDE DEF new
<1>3. TypeOK' BY <1>1, <1>b DEF TypeOK, Steps
<1>4. LockInv' BY DEF TypeOK, LockInv, Busy
<1>5. OpInv' BY <1>2 DEF TypeOK, OpInv, Ops
<1>6. StageInv'
  <2>1. Hidden(op[w]) /\ op[w] # 0 BY DEF OpInv, HiddenInv, Ops
  <2>2. quar[w] = NoFile BY DEF AccountedInv, Busy
  <2>3. \A v \in Writers : Busy(v)' => v = w BY DEF TypeOK, LockInv, Busy
  <2>4. \A r \in Records : ~By(leaf'[r], op[w]) BY <2>1 DEF Hidden
  <2> QED BY <1>b, <2>1, <2>2, <2>3, <2>4 DEF TypeOK, StageInv, Busy, By
<1>7. HiddenInv'
  <2>2. quar[w] = NoFile BY DEF AccountedInv, Busy
  <2>3. \A v \in Writers : Busy(v)' => v = w BY DEF TypeOK, LockInv, Busy
  <2> SUFFICES ASSUME NEW o \in Ops,
                      (\/ outcome[o] = "notCommitted"
                       \/ o >= nextOp
                       \/ \E v \in Writers : pc[v] = "called" /\ op[v] = o)'
               PROVE  Hidden(o)'
    BY DEF HiddenInv
  <2>4. Hidden(o) /\ o # op[w] BY DEF TypeOK, OpInv, HiddenInv, Ops
  <2> QED BY <1>b, <2>2, <2>3, <2>4 DEF TypeOK, Hidden, Busy, By
<1>8. Answered \subseteq Answered' BY <1>2 DEF TypeOK, OpInv, Answered, Working
<1>9. AccountedInv'
  BY <1>1, <1>4, <1>8, <1>b, SMTT(40) DEF TypeOK, LockInv, AccountedInv, Accounted, Answered,
     Working, Busy
<1>10. HonestInv' BY <1>2 DEF TypeOK, OpInv, HonestInv
<1> QED BY <1>3, <1>4, <1>5, <1>6, <1>7, <1>9, <1>10

\* Moving the leaf to quarantine hides it and keeps it.
LEMMA QuarantineInv ==
  ASSUME Inv, NEW w \in Writers, Quarantine(w)
  PROVE  Inv'
<1> USE VaultWriteConstants DEF Inv, Quarantine, Goto, files, log, call, limits
<1>1. UNCHANGED <<journal, tail>> OBVIOUS
<1>2. \A o : Audited(o)' <=> Audited(o) BY <1>1, AuditedSame
<1>3. TypeOK' BY <1>1, <1>2 DEF TypeOK, OpInv, Steps, Outcomes, Ops, File
<1>4. LockInv' BY DEF TypeOK, LockInv, Busy
<1>5. OpInv' BY <1>2 DEF TypeOK, OpInv, Ops
<1>6. StageInv' BY <1>4 DEF TypeOK, LockInv, OpInv, StageInv, Busy, By, File
<1>7. HiddenInv' BY <1>4 DEF TypeOK, LockInv, OpInv, StageInv, HiddenInv, Hidden, Busy, By
<1>8. Answered \subseteq Answered' BY <1>2 DEF TypeOK, OpInv, Answered, Working
<1>9. AccountedInv'
  BY <1>4, <1>8 DEF TypeOK, LockInv, OpInv, StageInv, HiddenInv, Hidden, Busy, By,
     AccountedInv, Accounted, Ops
<1>10. HonestInv' BY <1>2 DEF TypeOK, OpInv, HonestInv
<1> QED BY <1>3, <1>4, <1>5, <1>6, <1>7, <1>9, <1>10

\* A matching quarantine is the expected file.
LEMMA QuarantineExactInv ==
  ASSUME Inv, NEW w \in Writers, QuarantineExact(w)
  PROVE  Inv'
<1> USE VaultWriteConstants DEF Inv, QuarantineExact, Goto, files, log, call, limits
<1>1. UNCHANGED <<journal, tail>> OBVIOUS
<1>2. \A o : Audited(o)' <=> Audited(o) BY <1>1, AuditedSame
<1>3. TypeOK' BY <1>1, <1>2 DEF TypeOK, OpInv, Steps, Outcomes, Ops, File
<1>4. LockInv' BY DEF TypeOK, LockInv, Busy
<1>5. OpInv' BY <1>2 DEF TypeOK, OpInv, Ops
<1>6. StageInv' BY <1>4 DEF TypeOK, LockInv, OpInv, StageInv, Busy, By, File
<1>7. HiddenInv' BY <1>4 DEF TypeOK, LockInv, OpInv, StageInv, HiddenInv, Hidden, Busy, By
<1>8. Answered \subseteq Answered' BY <1>2 DEF TypeOK, OpInv, Answered, Working
<1>9. AccountedInv'
  BY <1>4, <1>8 DEF TypeOK, LockInv, OpInv, StageInv, HiddenInv, Hidden, Busy, By,
     AccountedInv, Accounted, Ops
<1>10. HonestInv' BY <1>2 DEF TypeOK, OpInv, HonestInv
<1> QED BY <1>3, <1>4, <1>5, <1>6, <1>7, <1>9, <1>10

\* The no-replace move publishes the staged file on an empty name only.
LEMMA PublishInv ==
  ASSUME Inv, NEW w \in Writers, Publish(w)
  PROVE  Inv'
<1> USE VaultWriteConstants DEF Inv, Publish, Goto, files, log, call, limits
<1>1. UNCHANGED <<journal, tail>> OBVIOUS
<1>2. \A o : Audited(o)' <=> Audited(o) BY <1>1, AuditedSame
<1>3. TypeOK' BY <1>1, <1>2 DEF TypeOK, OpInv, Steps, Outcomes, Ops, File
<1>4. LockInv' BY DEF TypeOK, LockInv, Busy
<1>5. OpInv' BY <1>2 DEF TypeOK, OpInv, Ops
<1>6. StageInv' BY <1>4 DEF TypeOK, LockInv, OpInv, StageInv, Busy, By, File
<1>7. HiddenInv' BY <1>4 DEF TypeOK, LockInv, OpInv, StageInv, HiddenInv, Hidden, Busy, By
<1>8. Answered \subseteq Answered' BY <1>2 DEF TypeOK, OpInv, Answered, Working
<1>9. AccountedInv'
  BY <1>4, <1>8 DEF TypeOK, LockInv, OpInv, StageInv, HiddenInv, Hidden, Busy, By,
     AccountedInv, Accounted, Ops
<1>10. HonestInv' BY <1>2 DEF TypeOK, OpInv, HonestInv
<1> QED BY <1>3, <1>4, <1>5, <1>6, <1>7, <1>9, <1>10

\* A truncated append starts the undo, which expects the published file.
LEMMA AppendRestoredInv ==
  ASSUME Inv, NEW w \in Writers, AppendRestored(w)
  PROVE  Inv'
<1> USE VaultWriteConstants DEF Inv, AppendRestored, Goto, files, log, call, limits
<1>1. UNCHANGED <<journal, tail>> OBVIOUS
<1>2. \A o : Audited(o)' <=> Audited(o) BY <1>1, AuditedSame
<1>3. TypeOK'
  <2>1. prior[w] \in File \cup {NoFile} /\ nextIno \in Nat BY DEF TypeOK
  <2>2. prior[w] # NoFile => [prior[w] EXCEPT !.ino = nextIno] \in File BY <2>1 DEF File
  <2>3. pub' \in [Writers -> File \cup {NoFile}] BY <2>2 DEF TypeOK
  <2> QED BY <1>1, <2>3 DEF TypeOK, Steps
<1>4. LockInv' BY DEF TypeOK, LockInv, Busy
<1>5. OpInv' BY <1>2 DEF TypeOK, OpInv, Ops
<1>6. StageInv' BY <1>4 DEF TypeOK, LockInv, OpInv, StageInv, Busy, By, File
<1>7. HiddenInv' BY <1>4 DEF TypeOK, LockInv, OpInv, StageInv, HiddenInv, Hidden, Busy, By
<1>8. Answered \subseteq Answered' BY <1>2 DEF TypeOK, OpInv, Answered, Working
<1>9. AccountedInv'
  BY <1>4, <1>8 DEF TypeOK, LockInv, OpInv, StageInv, HiddenInv, Hidden, Busy, By,
     AccountedInv, Accounted, Ops
<1>10. HonestInv' BY <1>2 DEF TypeOK, OpInv, HonestInv
<1> QED BY <1>3, <1>4, <1>5, <1>6, <1>7, <1>9, <1>10

\* Ending an operation: the locks are free, the quarantine name is gone, and the leaf
\* holds what it held, what was quarantined, or nothing.  An operation that ends as not
\* committed has no file at a canonical path and no event; a success has its event.
LEMMA FinishInv ==
  ASSUME Inv, TypeOK', NEW w \in Writers, Busy(w),
         NEW result \in Outcomes \ {"none"}, Finish(w, result),
         UNCHANGED <<op, nextOp>>,
         quar' = [quar EXCEPT ![w] = NoFile],
         \A r \in Records : leaf'[r] \in {leaf[r], quar[w], NoFile},
         \A o : Audited(o) => Audited(o)',
         \A o : Audited(o)' => Audited(o) \/ o = op[w],
         result \in {"ok", "committed"} => Audited(op[w])',
         result = "notCommitted" =>
           /\ ~Audited(op[w])'
           /\ \A r \in Records : leaf'[r] = NoFile \/ leaf'[r].by # op[w]
  PROVE  Inv'
<1> USE DEF Inv
<1>1. op[w] \in Ops /\ op[w] < nextOp /\ outcome[op[w]] = "none" /\ w = lock
  BY DEF OpInv, LockInv, Busy
<1>2. /\ lock' = Free /\ pc' = [pc EXCEPT ![w] = "idle"]
      /\ outcome' = [outcome EXCEPT ![op[w]] = result]
  BY DEF Finish, Goto
<1>3. \A v \in Writers : ~Busy(v)' /\ (v # w => ~Busy(v) /\ pc'[v] = pc[v])
  BY <1>1, <1>2 DEF TypeOK, LockInv, Busy
<1>4. \A o \in Ops : outcome'[o] = IF o = op[w] THEN result ELSE outcome[o]
  BY <1>1, <1>2 DEF TypeOK
<1>5. LockInv' /\ StageInv' BY <1>2, <1>3, VaultWriteConstants DEF LockInv, StageInv
<1>6. OpInv'
  <2>1. \A v \in Writers : pc'[v] # "idle" => v # w /\ pc[v] # "idle" /\ op[v] # op[w]
    BY <1>2, <1>3 DEF TypeOK, OpInv, Busy
  <2>2. \A o \in Ops : o >= nextOp => o # op[w] BY <1>1 DEF TypeOK, Ops
  <2> QED BY <1>4, <2>1, <2>2 DEF OpInv
<1>7. HiddenInv'
  <2> SUFFICES ASSUME NEW o \in Ops,
                      \/ outcome'[o] = "notCommitted"
                      \/ o >= nextOp
                      \/ \E v \in Writers : pc'[v] = "called" /\ op[v] = o
               PROVE  \A r \in Records : leaf'[r] = NoFile \/ leaf'[r].by # o
    BY <1>3 DEF HiddenInv, Hidden, By
  <2>1. CASE o = op[w]
    <3>1. o < nextOp /\ ~\E v \in Writers : pc'[v] = "called" /\ op[v] = o
      BY <1>1, <1>2, <2>1 DEF TypeOK, OpInv, Busy
    <3>2. result = "notCommitted" BY <1>1, <1>4, <2>1, <3>1 DEF TypeOK, Ops
    <3> QED BY <2>1, <3>2
  <2>2. CASE o # op[w]
    <3>1. Hidden(o)
      <4>1. \A v \in Writers : pc'[v] = "called" => pc[v] = "called" BY <1>2 DEF TypeOK
      <4> QED BY <1>4, <2>2, <4>1 DEF HiddenInv
    <3> QED BY <3>1 DEF Hidden, By
  <2> QED BY <2>1, <2>2
<1>8. AccountedInv'
  <2>1. Answered \ {op[w]} \subseteq Answered' BY <1>2, <1>4 DEF TypeOK, Answered, Working
  <2>2. result # "notCommitted" => op[w] \in Answered' BY <1>1, <1>4 DEF Answered, Outcomes
  <2>3. \A r \in Records : Accounted(leaf[r]) /\ Accounted(quar[w]) BY DEF AccountedInv
  <2>4. \A r \in Records : Accounted(leaf[r])' BY <2>1, <2>2, <2>3 DEF Accounted
  <2>5. \A v \in Writers : quar'[v] = NoFile BY <1>3 DEF TypeOK, AccountedInv
  <2> QED BY <1>3, <2>4, <2>5 DEF AccountedInv
<1>9. HonestInv'
  <2>1. \A o \in Ops : o # op[w] => (Audited(o)' <=> Audited(o)) OBVIOUS
  <2> QED BY <1>4, <2>1 DEF HonestInv
<1> QED BY <1>5, <1>6, <1>7, <1>8, <1>9

\* A writer that finds another file at the leaf leaves it there.
LEMMA LeafChangedInv ==
  ASSUME Inv, NEW w \in Writers, LeafChanged(w)
  PROVE  Inv'
<1> USE DEF Inv, LeafChanged, files, log, call, limits
<1>1. Busy(w) /\ ~Audited(op[w]) /\ op[w] \in Ops BY DEF OpInv, Busy
<1>2. PICK result \in {"degraded", "notCommitted"} :
        Finish(w, result) /\ (result = "notCommitted" => ~undo[w])
  BY DEF Fail
<1>3. \A o : Audited(o)' <=> Audited(o) BY AuditedSame
<1>4. TypeOK' BY <1>2 DEF TypeOK, Finish, Goto, Steps, Outcomes
<1>5. quar' = [quar EXCEPT ![w] = NoFile] BY DEF TypeOK, StageInv, Busy
<1>6. ~undo[w] => \A r \in Records : leaf'[r] = NoFile \/ leaf'[r].by # op[w]
  BY DEF StageInv, Busy, By
<1> QED BY <1>1, <1>2, <1>3, <1>4, <1>5, <1>6, FinishInv DEF Outcomes

\* A foreign quarantine goes back, or aside (_restore_quarantine_at).
LEMMA QuarantineForeignInv ==
  ASSUME Inv, NEW w \in Writers, QuarantineForeign(w)
  PROVE  Inv'
<1> USE DEF Inv, QuarantineForeign, files, log, call, limits
<1>1. Busy(w) /\ ~Audited(op[w]) /\ op[w] \in Ops BY DEF OpInv, Busy
<1>2. PICK result \in {"degraded", "notCommitted"} :
        Finish(w, result) /\ (result = "notCommitted" => ~undo[w])
  BY DEF Fail
<1>3. \A o : Audited(o)' <=> Audited(o) BY AuditedSame
<1>4. TypeOK'
  <2>1. outcome' \in [Ops -> Outcomes] /\ pc' \in [Writers -> Steps] /\ lock' = Free
    BY <1>2 DEF TypeOK, Finish, Goto, Steps, Outcomes
  <2> QED BY <2>1, RestoreType DEF TypeOK
<1>5. /\ quar' = [quar EXCEPT ![w] = NoFile]
      /\ \A r \in Records : leaf'[r] \in {leaf[r], quar[w], NoFile}
  BY DEF TypeOK, RestoreQuarantine
<1>6. ~undo[w] => \A r \in Records : leaf'[r] = NoFile \/ leaf'[r].by # op[w]
  BY <1>5 DEF StageInv, Busy, By
<1> QED BY <1>1, <1>2, <1>3, <1>4, <1>5, <1>6, FinishInv DEF Outcomes

\* A failed publication puts the quarantined file back, or aside.
LEMMA PublishFailsInv ==
  ASSUME Inv, NEW w \in Writers, PublishFails(w)
  PROVE  Inv'
<1> USE DEF Inv, PublishFails, files, log, call, limits
<1>1. Busy(w) /\ ~Audited(op[w]) /\ op[w] \in Ops BY DEF OpInv, Busy
<1>2. PICK result \in {"degraded", "notCommitted"} :
        Finish(w, result) /\ (result = "notCommitted" => ~undo[w])
  BY DEF Fail
<1>3. \A o : Audited(o)' <=> Audited(o) BY AuditedSame
<1>4. TypeOK'
  <2>1. outcome' \in [Ops -> Outcomes] /\ pc' \in [Writers -> Steps] /\ lock' = Free
    BY <1>2 DEF TypeOK, Finish, Goto, Steps, Outcomes
  <2> QED BY <2>1, RestoreType DEF TypeOK
<1>5. /\ quar' = [quar EXCEPT ![w] = NoFile]
      /\ \A r \in Records : leaf'[r] \in {leaf[r], quar[w], NoFile}
  BY DEF TypeOK, RestoreQuarantine
<1>6. ~undo[w] => \A r \in Records : leaf'[r] = NoFile \/ leaf'[r].by # op[w]
  BY <1>5 DEF StageInv, Busy, By
<1> QED BY <1>1, <1>2, <1>3, <1>4, <1>5, <1>6, FinishInv DEF Outcomes

\* A publication taken back leaves the prior file at the leaf.
LEMMA VerifyFaultInv ==
  ASSUME Inv, NEW w \in Writers, VerifyFault(w)
  PROVE  Inv'
<1> USE DEF Inv, VerifyFault, files, log, call, limits
<1>1. Busy(w) /\ ~Audited(op[w]) /\ op[w] \in Ops BY DEF OpInv, Busy
<1>2. PICK result \in {"degraded", "notCommitted"} :
        Finish(w, result) /\ (result = "notCommitted" => ~undo[w])
  BY DEF Fail
<1>3. \A o : Audited(o)' <=> Audited(o) BY AuditedSame
<1>4. TypeOK' BY <1>2 DEF TypeOK, Finish, Goto, Steps, Outcomes
<1>5. \A r \in Records : leaf'[r] = IF r = rec[w] THEN quar[w] ELSE leaf[r] BY DEF TypeOK
<1>6. ~undo[w] => \A r \in Records : leaf'[r] = NoFile \/ leaf'[r].by # op[w]
  BY <1>1, <1>5 DEF StageInv, Busy, By
<1> QED BY <1>1, <1>2, <1>3, <1>4, <1>5, <1>6, FinishInv DEF Outcomes

\* A publication a person replaced ends as degraded.
LEMMA PublishedForeignInv ==
  ASSUME Inv, NEW w \in Writers, PublishedForeign(w)
  PROVE  Inv'
<1> USE DEF Inv, PublishedForeign, files, log, call, limits
<1>1. Busy(w) /\ ~Audited(op[w]) /\ op[w] \in Ops BY DEF OpInv, Busy
<1>2. \A o : Audited(o)' <=> Audited(o) BY AuditedSame
<1>3. TypeOK'
  <2>1. leaf[rec[w]] \in File \cup {NoFile} /\ quar[w] \in File \cup {NoFile} BY DEF TypeOK
  <2>2. aside' \subseteq File /\ leaf' \in [Records -> File \cup {NoFile}] BY <2>1 DEF TypeOK
  <2>3. outcome' \in [Ops -> Outcomes] /\ pc' \in [Writers -> Steps] /\ lock' = Free
    BY DEF TypeOK, Finish, Goto, Steps, Outcomes
  <2> QED BY <2>2, <2>3 DEF TypeOK
<1>4. \A r \in Records : leaf'[r] \in {leaf[r], quar[w], NoFile} BY DEF TypeOK
<1> QED BY <1>1, <1>2, <1>3, <1>4, FinishInv DEF Outcomes

\* A failed cleanup ends as degraded.
LEMMA UnlinkFaultInv ==
  ASSUME Inv, NEW w \in Writers, UnlinkFault(w)
  PROVE  Inv'
<1> USE DEF Inv, UnlinkFault, files, log, call, limits
<1>1. Busy(w) /\ ~Audited(op[w]) /\ op[w] \in Ops BY DEF OpInv, Busy
<1>2. \A o : Audited(o)' <=> Audited(o) BY AuditedSame
<1>3. TypeOK'
  <2>1. quar[w] \in File \cup {NoFile} /\ aside \subseteq File BY DEF TypeOK
  <2>2. aside' \subseteq File /\ quar' \in [Writers -> File \cup {NoFile}] BY <2>1 DEF TypeOK
  <2>3. outcome' \in [Ops -> Outcomes] /\ pc' \in [Writers -> Steps] /\ lock' = Free
    BY DEF TypeOK, Finish, Goto, Steps, Outcomes
  <2> QED BY <2>2, <2>3 DEF TypeOK
<1> QED BY <1>1, <1>2, <1>3, FinishInv DEF Outcomes

\* Advancing to the cleanup or to the audit event: the operation stays the only one in
\* the critical section, and only its quarantine name may have been removed.
LEMMA AdvanceInv ==
  ASSUME Inv, NEW w \in Writers, Busy(w), pc[w] \in {"verify", "unlink"},
         NEW step \in {"unlink", "append"}, pc' = [pc EXCEPT ![w] = step],
         quar' = quar \/ quar' = [quar EXCEPT ![w] = NoFile],
         step = "unlink" => quar'[w] # NoFile /\ pc[w] = "verify",
         step = "append" => quar'[w] = NoFile /\ ~undo[w],
         UNCHANGED <<leaf, aside, journal, tail, lock, rec, seen, prior, op, want, pub, undo,
                     outcome, nextOp, nextIno, edits, crashes>>
  PROVE  Inv'
<1> USE DEF Inv
<1>1. TypeOK' BY DEF TypeOK, Steps
<1>2. \A o : Audited(o)' <=> Audited(o) BY AuditedSame
<1>3. \A v \in Writers : /\ Busy(v)' <=> Busy(v)
                         /\ v # w => ~Busy(v) /\ pc'[v] = pc[v] /\ quar'[v] = quar[v]
  BY DEF TypeOK, LockInv, Busy
<1>4. pc'[w] = step /\ quar'[w] \in {quar[w], NoFile} BY DEF TypeOK
<1>5. LockInv' BY <1>3 DEF LockInv
<1>6. OpInv'
  <2>1. \A v \in Writers : pc'[v] # "idle" <=> pc[v] # "idle" BY <1>3, <1>4 DEF Busy
  <2> QED BY <1>2, <2>1 DEF OpInv
<1>7. StageInv' BY <1>3, <1>4 DEF StageInv, By, Busy
<1>8. HiddenInv'
  <2>1. \A o \in Ops : Hidden(o) => Hidden(o)' BY <1>3, <1>4 DEF Hidden, By
  <2>2. \A v \in Writers : pc'[v] = "called" => pc[v] = "called" BY <1>3, <1>4
  <2> QED BY <2>1, <2>2 DEF HiddenInv
<1>9. Answered \subseteq Answered'
  <2>1. \A v \in Writers : pc[v] # "idle" => pc'[v] # "idle" BY <1>3, <1>4
  <2> QED BY <1>2, <2>1 DEF Answered, Working
<1>10. AccountedInv' BY <1>3, <1>4, <1>9 DEF AccountedInv, Accounted
<1>11. HonestInv' BY <1>2 DEF HonestInv
<1> QED BY <1>1, <1>5, <1>6, <1>7, <1>8, <1>10, <1>11

\* A verified publication goes on to its cleanup, its event, or the end of an undo.
LEMMA PublishedExactInv ==
  ASSUME Inv, NEW w \in Writers, PublishedExact(w)
  PROVE  Inv'
<1> USE DEF Inv, PublishedExact, files, log, call, limits
<1>1. Busy(w) /\ ~Audited(op[w]) /\ op[w] \in Ops BY DEF OpInv, Busy
<1>2. \A o : Audited(o)' <=> Audited(o) BY AuditedSame
<1>3. CASE undo[w] /\ quar[w] = NoFile
  <2>1. Finish(w, "notCommitted") BY <1>3 DEF AfterExact
  <2>2. TypeOK' BY <2>1 DEF TypeOK, Finish, Goto, Steps, Outcomes
  <2>3. quar' = [quar EXCEPT ![w] = NoFile] BY <1>3 DEF TypeOK
  <2>4. \A r \in Records : leaf'[r] = NoFile \/ leaf'[r].by # op[w]
    BY <1>1, <1>3 DEF StageInv, Busy, By
  <2> QED BY <1>1, <1>2, <2>1, <2>2, <2>3, <2>4, FinishInv DEF Outcomes
<1>4. CASE ~(undo[w] /\ quar[w] = NoFile)
  <2>1. PICK step \in {"unlink", "append"} :
          /\ pc' = [pc EXCEPT ![w] = step] /\ UNCHANGED <<lock, outcome>>
          /\ step = "unlink" => quar[w] # NoFile
          /\ step = "append" => quar[w] = NoFile /\ ~undo[w]
    BY <1>4 DEF AfterExact, Goto
  <2> QED BY <1>1, <1>2, <2>1, AdvanceInv
<1> QED BY <1>3, <1>4

\* Removing the quarantine ends an undo, or leads to the audit event.
LEMMA UnlinkQuarantineInv ==
  ASSUME Inv, NEW w \in Writers, UnlinkQuarantine(w)
  PROVE  Inv'
<1> USE DEF Inv, UnlinkQuarantine, files, log, call, limits
<1>1. Busy(w) /\ ~Audited(op[w]) /\ op[w] \in Ops BY DEF OpInv, Busy
<1>2. \A o : Audited(o)' <=> Audited(o) BY AuditedSame
<1>3. CASE undo[w]
  <2>1. Finish(w, "notCommitted") BY <1>3 DEF AfterExact
  <2>2. TypeOK' BY <2>1 DEF TypeOK, Finish, Goto, Steps, Outcomes
  <2>3. \A r \in Records : leaf'[r] = NoFile \/ leaf'[r].by # op[w]
    BY <1>1, <1>3 DEF StageInv, Busy, By
  <2> QED BY <1>1, <1>2, <2>1, <2>2, <2>3, FinishInv DEF Outcomes
<1>4. CASE ~undo[w]
  <2>1. pc' = [pc EXCEPT ![w] = "append"] /\ UNCHANGED <<lock, outcome>>
    BY <1>4 DEF AfterExact, Goto
  <2>2. quar'[w] = NoFile BY DEF TypeOK
  <2> QED BY <1>1, <1>2, <1>4, <2>1, <2>2, AdvanceInv
<1> QED BY <1>3, <1>4

\* The audit event makes the operation audited and successful.
LEMMA AppendEventInv ==
  ASSUME Inv, NEW w \in Writers, AppendEvent(w)
  PROVE  Inv'
<1> USE DEF Inv, AppendEvent, files, log, call, limits
<1>1. Busy(w) /\ ~Audited(op[w]) /\ op[w] \in Ops BY DEF OpInv, Busy
<1>2. AppendLine(w) OBVIOUS
<1>3. /\ journal' \in Seq(Line) /\ tail' \in Tails
      /\ \A o : Audited(o)' <=> (Audited(o) \/ o = op[w])
  BY <1>1, <1>2, AuditedAppend
<1>4. TypeOK' BY <1>3 DEF TypeOK, Finish, Goto, Steps, Outcomes
<1>5. quar' = [quar EXCEPT ![w] = NoFile] BY DEF TypeOK, StageInv, Busy
<1> QED BY <1>1, <1>2, <1>3, <1>4, <1>5, FinishInv DEF Outcomes

\* MutationCommittedError is raised with the event in the journal.
LEMMA AppendCommittedInv ==
  ASSUME Inv, NEW w \in Writers, AppendCommitted(w)
  PROVE  Inv'
<1> USE DEF Inv, AppendCommitted, files, log, call, limits
<1>1. Busy(w) /\ ~Audited(op[w]) /\ op[w] \in Ops BY DEF OpInv, Busy
<1>2. AppendLine(w) OBVIOUS
<1>3. /\ journal' \in Seq(Line) /\ tail' \in Tails
      /\ \A o : Audited(o)' <=> (Audited(o) \/ o = op[w])
  BY <1>1, <1>2, AuditedAppend
<1>4. TypeOK' BY <1>3 DEF TypeOK, Finish, Goto, Steps, Outcomes
<1>5. quar' = [quar EXCEPT ![w] = NoFile] BY DEF TypeOK, StageInv, Busy
<1> QED BY <1>1, <1>2, <1>3, <1>4, <1>5, FinishInv DEF Outcomes

\* An append that could not be truncated ends as degraded.
LEMMA AppendUnknownInv ==
  ASSUME Inv, NEW w \in Writers, AppendUnknown(w)
  PROVE  Inv'
<1> USE DEF Inv, AppendUnknown, files, log, call, limits
<1>1. Busy(w) /\ ~Audited(op[w]) /\ op[w] \in Ops BY DEF OpInv, Busy
<1>2. tail' \in Tails BY DEF TypeOK, AppendLine, Torn, Tails
<1>3. /\ journal' \in Seq(Line) /\ tail' \in Tails
      /\ \A o : Audited(o) => Audited(o)'
      /\ \A o : Audited(o)' => Audited(o) \/ o = op[w]
  <2>1. CASE AppendLine(w) BY <1>1, <2>1, AuditedAppend
  <2>2. CASE UNCHANGED journal BY <1>2, <2>2, AuditedSame DEF TypeOK
  <2> QED BY <2>1, <2>2 DEF Torn
<1>4. TypeOK' BY <1>3 DEF TypeOK, Finish, Goto, Steps, Outcomes
<1>5. quar' = [quar EXCEPT ![w] = NoFile] BY DEF TypeOK, StageInv, Busy
<1> QED BY <1>1, <1>2, <1>3, <1>4, <1>5, FinishInv DEF Outcomes

\* A process that dies leaves a crashed operation and no lock.
LEMMA CrashInv ==
  ASSUME Inv, NEW w \in Writers, Crash(w)
  PROVE  Inv'
<1> USE VaultWriteConstants DEF Inv, Crash, Goto, files, log, call, limits
<1>1. op[w] \in Ops /\ op[w] # 0 BY DEF OpInv, Ops
<1>2. /\ journal' \in Seq(Line) /\ tail' \in Tails
      /\ \A o : Audited(o) => Audited(o)'
      /\ \A o : Audited(o)' => Audited(o) \/ o = op[w]
  <2>1. CASE AppendLine(w) BY <2>1, <1>1, AuditedAppend
  <2>2. tail' \in Tails BY DEF TypeOK, AppendLine, Torn, Tails
  <2>3. CASE UNCHANGED journal BY <2>2, <2>3, AuditedSame DEF TypeOK
  <2> QED BY <2>1, <2>3 DEF Torn
<1>3. TypeOK'
  <2>1. quar[w] \in File \cup {NoFile} /\ aside \subseteq File BY DEF TypeOK
  <2>2. aside' \subseteq File /\ quar' \in [Writers -> File \cup {NoFile}] BY <2>1 DEF TypeOK
  <2>3. outcome' \in [Ops -> Outcomes] /\ pc' \in [Writers -> Steps]
    BY DEF TypeOK, Steps, Outcomes
  <2>4. lock' \in Writers \cup {Free} /\ crashes' \in 0 .. MaxCrashes BY DEF TypeOK
  <2> QED BY <1>2, <2>2, <2>3, <2>4 DEF TypeOK
<1>4. LockInv' BY DEF TypeOK, LockInv, Busy
<1>5. OpInv' BY <1>2 DEF TypeOK, OpInv, Ops
<1>6. StageInv' BY <1>4 DEF TypeOK, LockInv, OpInv, StageInv, Busy, By, File
<1>7. HiddenInv' BY <1>4 DEF TypeOK, LockInv, OpInv, StageInv, HiddenInv, Hidden, Busy, By
<1>8. Answered \subseteq Answered' BY <1>2 DEF TypeOK, OpInv, Answered, Working
<1>9. AccountedInv'
  BY <1>4, <1>8 DEF TypeOK, LockInv, OpInv, StageInv, HiddenInv, Hidden, Busy, By,
     AccountedInv, Accounted, Ops
<1>10. HonestInv' BY <1>2 DEF TypeOK, OpInv, HonestInv
<1> QED BY <1>3, <1>4, <1>5, <1>6, <1>7, <1>9, <1>10

----------------------------------------
(* Steps of callers and of the environment *)

\* Admission (get_task, then update_task; create_task) starts a fresh operation.
LEMMA CallInv ==
  ASSUME Inv, NEW w \in Writers, NEW r \in Records, NEW revision \in Nat \cup {NoFile},
         Call(w, r, revision)
  PROVE  Inv'
<1> USE VaultWriteConstants DEF Inv, Call, Goto, files, log
<1>1. nextOp \in Ops /\ nextOp # 0 /\ pc[w] = "idle" /\ op' = [op EXCEPT ![w] = nextOp]
  BY DEF TypeOK, Ops
<1>2. \A o : Audited(o)' <=> Audited(o) BY AuditedSame
<1>3. TypeOK' BY <1>1 DEF TypeOK, Steps, Ops
<1>4. LockInv' BY DEF TypeOK, LockInv, Busy
<1>5. \A v \in Writers : /\ Busy(v)' <=> Busy(v)
                         /\ Busy(v) => v # w /\ op'[v] = op[v] /\ rec'[v] = rec[v]
                                       /\ seen'[v] = seen[v] /\ pc'[v] = pc[v]
  BY DEF TypeOK, Busy
<1>6. OpInv' BY <1>1, <1>2 DEF TypeOK, OpInv, Ops
<1>7. StageInv' BY <1>5 DEF StageInv, By
<1>8. HiddenInv'
  <2>1. \A o \in Ops : Hidden(o)' <=> Hidden(o) BY <1>5 DEF Hidden, By
  <2> QED BY <1>1, <2>1 DEF TypeOK, HiddenInv, Ops
<1>9. Answered \subseteq Answered' BY <1>1, <1>2 DEF TypeOK, OpInv, Answered, Working
<1>10. AccountedInv' BY <1>5, <1>9 DEF AccountedInv, Accounted
<1>11. HonestInv' BY <1>2 DEF HonestInv
<1> QED BY <1>3, <1>4, <1>6, <1>7, <1>8, <1>10, <1>11

\* A person's edits and the doctor touch the canonical files and the journal's tail only,
\* and what a person saves belongs to no operation.
LEMMA OutsideInv ==
  ASSUME Inv,
         leaf' \in [Records -> File \cup {NoFile}],
         \A r \in Records : leaf'[r] = leaf[r] \/ leaf'[r] = NoFile \/ leaf'[r].by = 0,
         tail' \in Tails, nextIno' \in Nat, edits' \in 0 .. MaxEdits,
         UNCHANGED <<quar, aside, journal, lock, pc, call, want, pub, undo, outcome,
                     nextOp, crashes>>
  PROVE  Inv'
<1> USE VaultWriteConstants DEF Inv, call
<1>1. \A o : Audited(o)' <=> Audited(o) BY AuditedSame
<1>2. TypeOK' BY DEF TypeOK
<1>3. LockInv' /\ \A v \in Writers : Busy(v)' <=> Busy(v) BY DEF LockInv, Busy
<1>4. OpInv' /\ HonestInv' BY <1>1 DEF OpInv, HonestInv
<1>5. \A o \in Ops, r \in Records : By(leaf'[r], o) => By(leaf[r], o) BY DEF By, Ops
<1>6. StageInv' BY <1>3, <1>5 DEF StageInv, OpInv, By, Busy
<1>7. HiddenInv'
  <2>1. \A o \in Ops : Hidden(o) => Hidden(o)' BY <1>3, <1>5 DEF Hidden, By
  <2> QED BY <2>1 DEF HiddenInv
<1>8. Answered' = Answered BY <1>1 DEF Answered, Working
<1>9. AccountedInv' BY <1>3, <1>8 DEF AccountedInv, Accounted
<1> QED BY <1>2, <1>3, <1>4, <1>6, <1>7, <1>9

\* The vault starts with no operation and an unlocked, empty journal.
LEMMA InitInv == Init => Inv
<1> SUFFICES ASSUME Init PROVE Inv
  OBVIOUS
<1> USE VaultWriteConstants DEF Init
<1>1. [body |-> 0, ino |-> 0, by |-> 0] \in File BY DEF File
<1>2. \A o : ~Audited(o) BY DEF Audited
<1>3. TypeOK
  <2>1. leaf \in [Records -> File \cup {NoFile}] BY <1>1
  <2>2. <<>> \in Seq(Line) OBVIOUS
  <2>3. journal \in Seq(Line) /\ tail \in Tails /\ aside \subseteq File BY <2>2 DEF Tails
  <2>4. /\ outcome \in [Ops -> Outcomes] /\ pc \in [Writers -> Steps]
        /\ undo \in [Writers -> BOOLEAN]
    BY DEF Outcomes, Steps
  <2>5. nextOp \in 1 .. MaxOps + 1 /\ nextIno \in Nat /\ edits \in 0 .. MaxEdits
        /\ crashes \in 0 .. MaxCrashes
    OBVIOUS
  <2>6. /\ quar \in [Writers -> File \cup {NoFile}]
        /\ want \in [Writers -> File \cup {NoFile}]
        /\ prior \in [Writers -> File \cup {NoFile}]
        /\ pub \in [Writers -> File \cup {NoFile}]
        /\ seen \in [Writers -> Nat \cup {NoFile}]
        /\ op \in [Writers -> Ops \cup {0}]
    OBVIOUS
  <2> QED BY <2>1, <2>3, <2>4, <2>5, <2>6 DEF TypeOK
<1>4. LockInv /\ StageInv BY DEF LockInv, StageInv, Busy
<1>5. OpInv /\ HonestInv BY <1>2 DEF OpInv, HonestInv
<1>6. HiddenInv BY DEF HiddenInv, Hidden, By, Busy, Ops
<1>7. AccountedInv BY DEF AccountedInv, Accounted, Busy
<1> QED BY <1>3, <1>4, <1>5, <1>6, <1>7 DEF Inv

\* Every step preserves the invariant.
LEMMA NextInv == Inv /\ [Next]_vars => Inv'
<1> SUFFICES ASSUME Inv, [Next]_vars PROVE Inv'
  OBVIOUS
<1>1. ASSUME NEW w \in Writers, WriterStep(w) PROVE Inv'
  BY <1>1, RejectInv, EnterInv, QuarantineInv, LeafChangedInv,
     QuarantineExactInv, QuarantineForeignInv, PublishInv, PublishFailsInv,
     PublishedExactInv, VerifyFaultInv, PublishedForeignInv, UnlinkQuarantineInv,
     UnlinkFaultInv, AppendEventInv, AppendCommittedInv, AppendRestoredInv,
     AppendUnknownInv DEF WriterStep, LockTimeout, Stale
<1>2. ASSUME NEW w \in Writers, NEW r \in Records, CallUpdate(w, r) \/ CallCreate(w, r)
      PROVE  Inv'
  <2>1. leaf[r] # NoFile => leaf[r].body \in Nat BY DEF Inv, TypeOK, File
  <2>2. PICK revision \in Nat \cup {NoFile} : Call(w, r, revision)
    BY <1>2, <2>1 DEF CallUpdate, CallCreate
  <2> QED BY <2>2, CallInv
<1>3. ASSUME NEW w \in Writers, Crash(w) PROVE Inv' BY <1>3, CrashInv
<1>4. ASSUME DoctorRepair PROVE Inv'
  <2>1. leaf' = leaf /\ tail' \in Tails /\ nextIno' = nextIno /\ edits' = edits
    BY <1>4 DEF DoctorRepair, files, limits, Tails
  <2>2. UNCHANGED <<quar, aside, journal, lock, pc, call, want, pub, undo, outcome,
                    nextOp, crashes>>
    BY <1>4 DEF DoctorRepair, files, limits
  <2> QED BY <2>1, <2>2, OutsideInv DEF Inv, TypeOK
<1>5. ASSUME NEW r \in Records, PersonDeletes(r) PROVE Inv'
  <2>1. /\ leaf' \in [Records -> File \cup {NoFile}]
        /\ \A s \in Records : leaf'[s] = leaf[s] \/ leaf'[s] = NoFile
        /\ tail' \in Tails /\ nextIno' \in Nat /\ edits' \in 0 .. MaxEdits
    BY <1>5, VaultWriteConstants DEF PersonDeletes, Inv, TypeOK, log
  <2> QED BY <1>5, <2>1, OutsideInv DEF PersonDeletes, log
<1>6. ASSUME NEW r \in Records, NEW b \in Texts, PersonSaves(r, b) PROVE Inv'
  <2> DEFINE saved == [body |-> b, ino |-> nextIno, by |-> 0]
  <2>1. saved \in File /\ saved.by = 0 BY VaultWriteConstants DEF Texts, File, Inv, TypeOK
  <2>2. leaf' = [leaf EXCEPT ![r] = saved] BY <1>6 DEF PersonSaves
  <2> HIDE DEF saved
  <2>3. /\ leaf' \in [Records -> File \cup {NoFile}]
        /\ \A s \in Records : leaf'[s] = leaf[s] \/ leaf'[s].by = 0
    BY <2>1, <2>2 DEF Inv, TypeOK
  <2>4. tail' \in Tails /\ nextIno' \in Nat /\ edits' \in 0 .. MaxEdits
    BY <1>6, VaultWriteConstants DEF PersonSaves, Inv, TypeOK, log
  <2> QED BY <1>6, <2>3, <2>4, OutsideInv DEF PersonSaves, log
<1>7. CASE UNCHANGED vars BY <1>7, OutsideInv DEF vars, call, Inv, TypeOK
<1> QED BY <1>1, <1>2, <1>3, <1>4, <1>5, <1>6, <1>7 DEF Next, Environment

----------------------------------------
(* Theorems *)

\* Every reachable state satisfies the inductive invariant.
THEOREM Invariant == Spec => []Inv
BY InitInv, NextInv, PTL DEF Spec

\* The model of the audited write is type correct: in particular every journal line
\* (_event) names a real operation.
THEOREM TypeCorrect == Spec => []TypeOK
<1>1. Inv => TypeOK BY DEF Inv
<1> QED BY <1>1, Invariant, PTL

\* _persist_with_event never lies to its caller: "ok" and MutationCommittedError imply a
\* durable event; a conflict or "was not committed" implies no event and no file of that
\* operation at a canonical path.
THEOREM HonestOutcomes == Spec => []OutcomeHonest
<1>1. Inv => OutcomeHonest BY DEF Inv, OutcomeHonest, HonestInv, HiddenInv, Hidden, By
<1> QED BY <1>1, Invariant, PTL

\* Markdown without its audit event belongs to a running operation, or to one that
\* reported degraded integrity, or whose process died.
THEOREM UnauditedExplained == Spec => []UnauditedOnlyAfterFailure
<1>1. Inv => UnauditedOnlyAfterFailure
  BY DEF Inv, UnauditedOnlyAfterFailure, AccountedInv, Accounted, Answered
<1> QED BY <1>1, Invariant, PTL

----------------------------------------
(* No step of Seld destroys bytes it had not read *)

\* The file a step of w may destroy.
MayDestroy(f, w) == f.body = seen[w] \/ f.by = op[w]

\* A step that changes neither leaves, quarantines nor the set-aside files.
LEMMA NothingMoved ==
  ASSUME UNCHANGED files
  PROVE  Present' = Present
BY DEF files, Present

\* A restored quarantine is still present.
LEMMA RestoreKeeps ==
  ASSUME Inv, NEW w \in Writers, RestoreQuarantine(w)
  PROVE  Present \subseteq Present'
<1> SUFFICES ASSUME NEW f \in Present PROVE f \in Present'
  OBVIOUS
<1>1. CASE quar[w] # NoFile /\ leaf[rec[w]] = NoFile
  <2>1. leaf'[rec[w]] = quar[w] /\ rec[w] \in Records BY <1>1 DEF Inv, TypeOK, RestoreQuarantine
  <2>2. \A r \in Records : leaf[r] # NoFile => leaf'[r] = leaf[r]
    BY <1>1 DEF Inv, TypeOK, RestoreQuarantine
  <2>3. \A v \in Writers : v # w => quar'[v] = quar[v] BY DEF Inv, TypeOK, RestoreQuarantine
  <2>4. aside' = aside BY <1>1 DEF RestoreQuarantine
  <2> QED BY <2>1, <2>2, <2>3, <2>4 DEF Present
<1>2. CASE ~(quar[w] # NoFile /\ leaf[rec[w]] = NoFile)
  <2>1. leaf' = leaf /\ aside \subseteq aside' /\ (quar[w] # NoFile => quar[w] \in aside')
    BY <1>2 DEF RestoreQuarantine
  <2>2. \A v \in Writers : v # w => quar'[v] = quar[v] BY DEF Inv, TypeOK, RestoreQuarantine
  <2> QED BY <2>1, <2>2 DEF Present
<1> QED BY <1>1, <1>2

\* One step of a live writer destroys only what its caller read or what it published.
LEMMA WriterDestroys ==
  ASSUME Inv, NEW w \in Writers, WriterStep(w), NEW f \in Present, f \notin Present'
  PROVE  MayDestroy(f, w) /\ pc[w] # pc'[w]
<1> USE DEF Inv, Goto
<1>1. CASE LockTimeout(w) \/ Stale(w) BY <1>1, NothingMoved DEF LockTimeout, Stale, Reject
<1>2. CASE Enter(w) BY <1>2, NothingMoved DEF Enter
<1>3. CASE Quarantine(w)
  <2>1. quar[w] = NoFile /\ rec[w] \in Records BY <1>3 DEF Quarantine, TypeOK, StageInv, Busy
  <2>2. quar'[w] = leaf[rec[w]] /\ aside' = aside BY <1>3 DEF Quarantine, TypeOK
  <2>3. \A r \in Records : r # rec[w] => leaf'[r] = leaf[r] BY <1>3 DEF Quarantine, TypeOK
  <2>4. \A v \in Writers : v # w => quar'[v] = quar[v] BY <1>3 DEF Quarantine, TypeOK
  <2> QED BY <2>1, <2>2, <2>3, <2>4 DEF Present
<1>4. CASE LeafChanged(w) BY <1>4, NothingMoved DEF LeafChanged
<1>5. CASE QuarantineExact(w) BY <1>5, NothingMoved DEF QuarantineExact
<1>6. CASE QuarantineForeign(w) \/ PublishFails(w)
  BY <1>6, RestoreKeeps DEF QuarantineForeign, PublishFails
<1>7. CASE Publish(w)
  <2>1. leaf[rec[w]] = NoFile /\ quar' = quar /\ aside' = aside BY <1>7 DEF Publish
  <2>2. \A r \in Records : r # rec[w] => leaf'[r] = leaf[r] BY <1>7 DEF Publish, TypeOK
  <2> QED BY <2>1, <2>2 DEF Present
<1>8. CASE PublishedExact(w) BY <1>8, NothingMoved DEF PublishedExact
<1>9. CASE VerifyFault(w)
  <2>1. leaf'[rec[w]] = quar[w] /\ rec[w] \in Records /\ aside' = aside
    BY <1>9 DEF VerifyFault, TypeOK
  <2>2. \A r \in Records : r # rec[w] => leaf'[r] = leaf[r] BY <1>9 DEF VerifyFault, TypeOK
  <2>3. \A v \in Writers : v # w => quar'[v] = quar[v] BY <1>9 DEF VerifyFault, TypeOK
  <2>4. f = pub[w] /\ f # NoFile BY <1>9, <2>1, <2>2, <2>3 DEF Present, VerifyFault
  <2>5. MayDestroy(pub[w], w)
    BY <1>9, <2>4 DEF VerifyFault, StageInv, Busy, By, MayDestroy, TypeOK
  <2>6. pc'[w] = "idle" /\ pc[w] = "verify" BY <1>9 DEF VerifyFault, Fail, Finish, TypeOK
  <2> QED BY <2>4, <2>5, <2>6
<1>10. CASE PublishedForeign(w)
  <2>1. /\ aside \subseteq aside'
        /\ quar[w] # NoFile => /\ quar[w] \in aside'
                               /\ (leaf[rec[w]] # NoFile => leaf[rec[w]] \in aside')
        /\ quar[w] = NoFile => leaf' = leaf
    BY <1>10 DEF PublishedForeign
  <2>2. \A r \in Records : r # rec[w] => leaf'[r] = leaf[r]
    BY <1>10 DEF PublishedForeign, TypeOK
  <2>3. \A v \in Writers : v # w => quar'[v] = quar[v] BY <1>10 DEF PublishedForeign, TypeOK
  <2> QED BY <2>1, <2>2, <2>3 DEF Present
<1>11. CASE UnlinkQuarantine(w)
  <2>1. leaf' = leaf /\ aside' = aside /\ pc[w] = "unlink" BY <1>11 DEF UnlinkQuarantine
  <2>2. \A v \in Writers : v # w => quar'[v] = quar[v] BY <1>11 DEF UnlinkQuarantine, TypeOK
  <2>3. f = quar[w] /\ f # NoFile BY <2>1, <2>2 DEF Present
  <2>4. quar[w] = want[w] /\ Busy(w) BY <2>1 DEF StageInv, Busy
  <2>5. MayDestroy(quar[w], w) BY <2>3, <2>4 DEF StageInv, By, MayDestroy, TypeOK
  <2>6. pc'[w] \in {"idle", "append"} BY <1>11 DEF UnlinkQuarantine, AfterExact, Finish, TypeOK
  <2> QED BY <2>1, <2>3, <2>5, <2>6
<1>12. CASE UnlinkFault(w)
  <2>1. leaf' = leaf /\ aside \subseteq aside' /\ (quar[w] # NoFile => quar[w] \in aside')
    BY <1>12 DEF UnlinkFault
  <2>2. \A v \in Writers : v # w => quar'[v] = quar[v] BY <1>12 DEF UnlinkFault, TypeOK
  <2> QED BY <2>1, <2>2 DEF Present
<1>13. CASE AppendEvent(w) \/ AppendCommitted(w) \/ AppendUnknown(w)
  BY <1>13, NothingMoved DEF AppendEvent, AppendCommitted, AppendUnknown
<1>14. CASE AppendRestored(w) BY <1>14, NothingMoved DEF AppendRestored
<1> QED BY <1>1, <1>2, <1>3, <1>4, <1>5, <1>6, <1>7, <1>8, <1>9, <1>10, <1>11, <1>12,
           <1>13, <1>14 DEF WriterStep

\* A process that dies leaves its quarantined file under its private name.
LEMMA CrashKeeps ==
  ASSUME Inv, NEW w \in Writers, Crash(w)
  PROVE  Present \subseteq Present'
<1>1. leaf' = leaf /\ aside \subseteq aside' /\ (quar[w] # NoFile => quar[w] \in aside')
  BY DEF Crash
<1>2. \A v \in Writers : v # w => quar'[v] = quar[v] BY DEF Crash, Inv, TypeOK
<1> QED BY <1>1, <1>2 DEF Present

\* The exact replacement never destroys bytes that neither its caller had read nor the
\* operation itself had written, whatever a person saves, moves or deletes meanwhile.
THEOREM NothingClobbered == Spec => NoClobber
<1>1. Inv /\ [Next]_vars =>
        [\A f \in Present \ Present' :
           \/ pc' = pc
           \/ \E w \in Writers : pc[w] # pc'[w] /\ (f.body = seen[w] \/ f.by = op[w])]_vars
  <2> SUFFICES ASSUME Inv, Next, NEW f \in Present, f \notin Present'
               PROVE  \/ pc' = pc
                      \/ \E w \in Writers : pc[w] # pc'[w] /\ (f.body = seen[w] \/ f.by = op[w])
    OBVIOUS
  <2>1. ASSUME NEW w \in Writers, WriterStep(w)
        PROVE  \E v \in Writers : pc[v] # pc'[v] /\ (f.body = seen[v] \/ f.by = op[v])
    BY <2>1, WriterDestroys DEF MayDestroy
  <2>2. ASSUME NEW w \in Writers, NEW r \in Records, CallUpdate(w, r) \/ CallCreate(w, r)
        PROVE  FALSE
    BY <2>2, NothingMoved DEF CallUpdate, CallCreate, Call
  <2>3. ASSUME NEW w \in Writers, Crash(w)
        PROVE  FALSE
    BY <2>3, CrashKeeps
  <2>4. ASSUME \/ DoctorRepair
               \/ \E r \in Records : PersonDeletes(r) \/ \E b \in Texts : PersonSaves(r, b)
        PROVE  pc' = pc
    BY <2>4 DEF DoctorRepair, PersonDeletes, PersonSaves
  <2> QED BY <2>1, <2>2, <2>3, <2>4 DEF Next, Environment
<1> QED BY <1>1, Invariant, PTL DEF Spec, NoClobber
----------------------------------------
(* The journal replays the records *)

\* Nothing happened that the journal does not tell of.
Quiet == edits = 0 /\ \A o \in Ops : outcome[o] \notin {"degraded", "crashed"}

Mine(r) == {i \in DOMAIN journal : journal[i].rec = r}

\* Every event of r starts from the file the event before it left.
Chained(r) ==
  \A i, j \in Mine(r) :
    i < j /\ (\A k \in Mine(r) : k <= i \/ j <= k)
      => journal[j].before # NoFile /\ journal[j].before.by = journal[i].op

\* The file f is the one the last event of r left.
Left(r, f) ==
  \A i \in Mine(r) :
    (\A k \in Mine(r) : k <= i) => f # NoFile /\ f.by = journal[i].op

\* Where the writer in the critical section has put the file it validated, and
\* what is at the canonical path meanwhile.
Forth(w) ==
  /\ pc[w] = "quarantine" => leaf[rec[w]] = prior[w]
  /\ pc[w] \in {"check", "publish"} => leaf[rec[w]] = NoFile /\ quar[w] = prior[w]
  /\ pc[w] \in {"verify", "unlink"} => leaf[rec[w]] = pub[w] /\ quar[w] = prior[w]
  /\ pc[w] = "append" => leaf[rec[w]] = pub[w]

\* The same in an undo: what it publishes is the validated file again.
Back(w) ==
  /\ IF prior[w] = NoFile THEN pub[w] = NoFile
                          ELSE pub[w] # NoFile /\ pub[w].by = prior[w].by
  /\ pc[w] = "quarantine" => leaf[rec[w]] = want[w]
  /\ pc[w] \in {"check", "publish"} => leaf[rec[w]] = NoFile /\ quar[w] = want[w]
  /\ pc[w] \in {"verify", "unlink"} => leaf[rec[w]] = pub[w]
  /\ pc[w] # "append"

Carries(w) == Left(rec[w], prior[w]) /\ (IF undo[w] THEN Back(w) ELSE Forth(w))

Replays ==
  /\ \A r \in Records : Chained(r)
  /\ \A r \in Records : (\A w \in Writers : Busy(w) => rec[w] # r) => Left(r, leaf[r])
  /\ \A w \in Writers : Busy(w) => Carries(w)

ReplayInv == Quiet => Replays

\* Journal and validity of what is said about it carry over when neither changes.
LEMMA JournalSame ==
  ASSUME UNCHANGED journal
  PROVE  /\ \A r : Mine(r)' = Mine(r) /\ Chained(r)' = Chained(r)
         /\ \A r, f : Left(r, f)' <=> Left(r, f)
<1>1. \A r : Mine(r)' = Mine(r) BY DEF Mine
<1> QED BY <1>1 DEF Chained, Left

\* An edit stays counted, and a degraded or a crashed operation stays reported.
LEMMA QuietBefore ==
  ASSUME Inv, [Next]_vars, Quiet'
  PROVE  Quiet
<1>1. edits = 0
  <2>1. edits \in Nat /\ (edits' = edits \/ edits' = edits + 1)
    BY DEF Inv, TypeOK, vars, Next, Environment, WriterStep, CallUpdate, CallCreate, Call, Crash,
       DoctorRepair, PersonDeletes, PersonSaves, LockTimeout, Stale, Reject, Enter, Quarantine,
       LeafChanged, QuarantineExact, QuarantineForeign, Publish, PublishFails, PublishedExact,
       VerifyFault, PublishedForeign, UnlinkQuarantine, UnlinkFault, AppendEvent,
       AppendCommitted, AppendRestored, AppendUnknown, limits
  <2> QED BY <2>1 DEF Quiet
<1>2. ASSUME NEW o \in Ops PROVE outcome[o] \notin {"degraded", "crashed"}
  <2>1. \/ outcome' = outcome
        \/ \E w \in Writers, result \in Outcomes :
             pc[w] # "idle" /\ outcome' = [outcome EXCEPT ![op[w]] = result]
    BY DEF Outcomes, vars, Next, Environment, WriterStep, CallUpdate, CallCreate, Call, Crash,
       DoctorRepair, PersonDeletes, PersonSaves, LockTimeout, Stale, Reject, Enter, Quarantine,
       LeafChanged, QuarantineExact, QuarantineForeign, Publish, PublishFails, PublishedExact,
       VerifyFault, PublishedForeign, UnlinkQuarantine, UnlinkFault, AppendEvent,
       AppendCommitted, AppendRestored, AppendUnknown, Fail, Finish, AfterExact
  <2> QED BY <2>1 DEF Inv, TypeOK, OpInv, Quiet
<1> QED BY <1>1, <1>2 DEF Quiet

\* A step of the writer in the critical section that stays there.
LEMMA StayReplays ==
  ASSUME Inv, Inv', Replays, NEW w \in Writers, Busy(w), Busy(w)',
         UNCHANGED <<journal, rec, prior>>,
         \A r \in Records : r # rec[w] => leaf'[r] = leaf[r],
         IF undo'[w] THEN Back(w)' ELSE Forth(w)'
  PROVE  Replays'
<1>1. \A v \in Writers : v # w => ~Busy(v) /\ ~Busy(v)' BY DEF Inv, LockInv
<1>2. \A r \in Records : Chained(r)' BY JournalSame DEF Replays
<1>3. Carries(w)'
  <2>1. Left(rec[w], prior[w]) BY DEF Replays, Carries
  <2>2. PICK r, f : r = rec[w] /\ f = prior[w] /\ r = rec'[w] /\ f = prior'[w] OBVIOUS
  <2>3. Left(r, f)' BY <2>1, <2>2, JournalSame
  <2>4. Left(rec[w], prior[w])' BY <2>2, <2>3
  <2> QED BY <2>4 DEF Carries
<1>4. ASSUME NEW r \in Records, (\A v \in Writers : Busy(v) => rec[v] # r)'
      PROVE  Left(r, leaf[r])'
  <2>1. r # rec[w] /\ leaf'[r] = leaf[r] BY <1>4
  <2>2. Left(r, leaf[r]) BY <1>1, <2>1 DEF Replays
  <2> QED BY <2>1, <2>2, JournalSame
<1> QED BY <1>1, <1>2, <1>3, <1>4 DEF Replays

\* What a writer leaves without an event of its own is as good as what it found.
LEMMA LeaveReplays ==
  ASSUME Inv, Inv', Replays, NEW w \in Writers, Busy(w), ~Busy(w)',
         UNCHANGED journal,
         \A r \in Records : r # rec[w] => leaf'[r] = leaf[r],
         \/ leaf'[rec[w]] = prior[w]
         \/ prior[w] # NoFile /\ leaf'[rec[w]] # NoFile /\ leaf'[rec[w]].by = prior[w].by,
         \A v \in Writers : v # w => (Busy(v)' <=> Busy(v))
  PROVE  Replays'
<1>1. \A v \in Writers : (v # w => ~Busy(v)) /\ ~Busy(v)' BY DEF Inv, LockInv
<1>2. \A r \in Records : Chained(r)' BY JournalSame DEF Replays
<1>3. Left(rec[w], leaf'[rec[w]]) BY DEF Replays, Carries, Left
<1>4. ASSUME NEW r \in Records PROVE Left(r, leaf[r])'
  <2>1. Left(r, leaf'[r]) BY <1>1, <1>3 DEF Replays
  <2> QED BY <2>1, JournalSame
<1> QED BY <1>1, <1>2, <1>4 DEF Replays

\* The event of a writer continues the chain of its record, and the file it
\* leaves is its own.
LEMMA AppendReplays ==
  ASSUME Inv, Inv', Replays, NEW w \in Writers, pc[w] = "append", ~Busy(w)', AppendLine(w),
         UNCHANGED leaf, \A v \in Writers : v # w => (Busy(v)' <=> Busy(v))
  PROVE  Replays'
<1> DEFINE line == [op |-> op[w], rec |-> rec[w], before |-> prior[w], whole |-> tail = "newline"]
           n == Len(journal) + 1
<1>1. line \in Line /\ line.op = op[w] /\ line.rec = rec[w] /\ line.before = prior[w]
  BY DEF Inv, TypeOK, OpInv, Line
<1>2. journal \in Seq(Line) /\ journal' = Append(journal, line) BY DEF Inv, TypeOK, AppendLine
<1> HIDE DEF line
<1>3. /\ n \in Nat /\ DOMAIN journal \subseteq Nat /\ DOMAIN journal' = DOMAIN journal \cup {n}
      /\ \A i \in DOMAIN journal : journal'[i] = journal[i] /\ i < n
      /\ journal'[n] = line
  BY <1>1, <1>2
<1> HIDE DEF n
<1>4. PICK q \in Records : q = rec[w] BY DEF Inv, TypeOK
<1>5. Mine(q)' = Mine(q) \cup {n} /\ \A r \in Records : r # q => Mine(r)' = Mine(r)
  BY <1>1, <1>3, <1>4 DEF Mine
<1>6. \A r : Mine(r) \subseteq DOMAIN journal BY DEF Mine
<1>7. /\ \A v \in Writers : (v # w => ~Busy(v)) /\ ~Busy(v)'
      /\ Chained(q) /\ Left(q, prior[w]) /\ By(leaf[q], op[w])
  <2>1. \A v \in Writers : (v # w => ~Busy(v)) /\ ~Busy(v)' BY DEF Inv, LockInv, Busy
  <2>2. Busy(w) /\ Carries(w) /\ Chained(q) BY <1>4 DEF Busy, Replays
  <2>3. ~undo[w] /\ leaf[q] = pub[w] BY <1>4, <2>2 DEF Carries, Forth, Back
  <2>4. By(leaf[q], op[w]) BY <2>2, <2>3 DEF Inv, StageInv
  <2> QED BY <1>4, <2>1, <2>2, <2>4 DEF Carries
<1>8. ASSUME NEW r \in Records, r # q PROVE Chained(r)' /\ Left(r, leaf[r])'
  <2>1. Chained(r) /\ Left(r, leaf[r]) BY <1>4, <1>7, <1>8 DEF Replays
  <2>2. Mine(r)' = Mine(r) /\ leaf' = leaf /\ \A i \in Mine(r) : journal'[i] = journal[i]
    BY <1>3, <1>5, <1>6, <1>8
  <2>3. Chained(r)' BY <2>1, <2>2 DEF Chained
  <2>4. Left(r, leaf[r])' BY <2>1, <2>2 DEF Left
  <2> QED BY <2>3, <2>4
<1>9. Left(q, leaf[q])'
  <2> SUFFICES ASSUME NEW i \in Mine(q)', (\A k \in Mine(q) : k <= i)'
               PROVE  leaf'[q] # NoFile /\ leaf'[q].by = journal'[i].op
    BY DEF Left
  <2>1. i = n BY <1>3, <1>5, <1>6
  <2> QED BY <1>1, <1>3, <1>7, <2>1 DEF By
<1>10. Chained(q)'
  <2> SUFFICES ASSUME NEW i \in Mine(q)', NEW j \in Mine(q)', i < j,
                      \A k \in Mine(q)' : k <= i \/ j <= k
               PROVE  journal'[j].before # NoFile /\ journal'[j].before.by = journal'[i].op
    BY DEF Chained
  <2>1. i \in Mine(q) /\ journal'[i] = journal[i] BY <1>3, <1>5, <1>6
  <2>2. CASE j = n
    <3>1. \A k \in Mine(q) : k <= i BY <1>3, <1>5, <1>6, <2>2
    <3> QED BY <1>1, <1>3, <1>7, <2>1, <2>2, <3>1 DEF Left
  <2>3. CASE j # n BY <1>3, <1>5, <1>6, <1>7, <2>1, <2>3 DEF Chained
  <2> QED BY <2>2, <2>3
<1> QED BY <1>7, <1>8, <1>9, <1>10 DEF Replays

\* A step outside the critical section changes neither leaf nor journal.
LEMMA OutsideReplays ==
  ASSUME Inv, Inv', Replays, UNCHANGED <<leaf, journal, quar, prior, pub, want, undo>>,
         \A v \in Writers : /\ Busy(v)' <=> Busy(v)
                            /\ Busy(v) => pc'[v] = pc[v] /\ rec'[v] = rec[v]
  PROVE  Replays'
<1>1. \A r \in Records : Chained(r)' BY JournalSame DEF Replays
<1>2. ASSUME NEW r \in Records, (\A v \in Writers : Busy(v) => rec[v] # r)'
      PROVE  Left(r, leaf[r])'
  <2>1. Left(r, leaf[r]) BY <1>2 DEF Replays
  <2>2. PICK f : f = leaf[r] /\ f = leaf'[r] OBVIOUS
  <2>3. Left(r, f)' BY <2>1, <2>2, JournalSame
  <2> QED BY <2>2, <2>3
<1>3. ASSUME NEW v \in Writers, Busy(v)' PROVE Carries(v)'
  <2>1. Busy(v) /\ Carries(v) /\ pc'[v] = pc[v] /\ rec'[v] = rec[v] BY <1>3 DEF Replays
  <2>2. PICK r, f : r = rec[v] /\ f = prior[v] /\ r = rec'[v] /\ f = prior'[v] BY <2>1
  <2>3. Left(r, f)' BY <2>1, <2>2, JournalSame DEF Carries
  <2>4. Left(rec[v], prior[v])' BY <2>2, <2>3
  <2>5. IF undo'[v] THEN Back(v)' ELSE Forth(v)' BY <2>1 DEF Carries, Back, Forth
  <2> QED BY <2>4, <2>5 DEF Carries
<1> QED BY <1>1, <1>2, <1>3 DEF Replays

\* The writer that takes the lock finds the file the last event left.
LEMMA EnterReplays ==
  ASSUME Inv, Inv', Replays, NEW w \in Writers, Enter(w)
  PROVE  Replays'
<1>1. /\ UNCHANGED <<leaf, quar, journal, rec>> /\ rec[w] \in Records
      /\ prior'[w] = leaf[rec[w]] /\ undo'[w] = FALSE /\ quar[w] = NoFile
      /\ pc'[w] = IF leaf[rec[w]] = NoFile THEN "publish" ELSE "quarantine"
  BY DEF Enter, Goto, Inv, TypeOK, files, log, AccountedInv, Busy
<1>2. (\A v \in Writers : ~Busy(v)) /\ Busy(w)' /\ \A v \in Writers : v # w => ~Busy(v)'
  BY <1>1, VaultWriteConstants DEF Enter, Inv, LockInv, Busy
<1>3. \A r \in Records : Chained(r)' /\ Left(r, leaf[r]) BY <1>2, JournalSame, <1>1 DEF Replays
<1>4. ASSUME NEW r \in Records PROVE Left(r, leaf[r])'
  <2>1. PICK f : f = leaf[r] /\ f = leaf'[r] BY <1>1
  <2>2. Left(r, f)' BY <1>1, <1>3, <2>1, JournalSame
  <2> QED BY <2>1, <2>2
<1>5. Carries(w)'
  <2>1. Left(rec[w], prior[w])' BY <1>1, <1>4
  <2>2. Forth(w)' BY <1>1 DEF Forth
  <2> QED BY <1>1, <2>1, <2>2 DEF Carries
<1> QED BY <1>2, <1>3, <1>4, <1>5 DEF Replays

\* The exact replacement, there and back.
LEMMA ReplaceReplays ==
  ASSUME Inv, Inv', Replays, NEW w \in Writers,
         \/ Quarantine(w) \/ QuarantineExact(w) \/ Publish(w) \/ AppendRestored(w)
  PROVE  Replays'
<1>1. /\ Busy(w) /\ Busy(w)' /\ UNCHANGED <<journal, rec, prior>> /\ rec[w] \in Records
      /\ \A r \in Records : r # rec[w] => leaf'[r] = leaf[r]
  BY DEF Quarantine, QuarantineExact, Publish, AppendRestored, Goto, Busy, Inv, TypeOK, files,
         log, call
<1>2. (IF undo[w] THEN Back(w) ELSE Forth(w)) /\ (~undo[w] => want[w] = prior[w])
  BY <1>1 DEF Replays, Carries, Inv, StageInv
<1>3. CASE Quarantine(w)
  <2>1. /\ pc[w] = "quarantine" /\ pc'[w] = "check" /\ quar'[w] = leaf[rec[w]]
        /\ leaf'[rec[w]] = NoFile /\ UNCHANGED <<rec, prior, pub, want, undo>>
    BY <1>1, <1>3 DEF Quarantine, Goto, call, Inv, TypeOK
  <2>2. IF undo'[w] THEN Back(w)' ELSE Forth(w)' BY <1>2, <2>1 DEF Back, Forth
  <2> QED BY <1>1, <2>2, StayReplays
<1>4. CASE QuarantineExact(w)
  <2>1. /\ pc[w] = "check" /\ UNCHANGED <<leaf, quar, rec, prior, pub, want, undo>>
        /\ pc'[w] = IF undo[w] /\ prior[w] = NoFile THEN "unlink" ELSE "publish"
    BY <1>4 DEF QuarantineExact, Goto, call, files, Inv, TypeOK
  <2>2. IF undo'[w] THEN Back(w)' ELSE Forth(w)' BY <1>2, <2>1 DEF Back, Forth
  <2> QED BY <1>1, <2>2, StayReplays
<1>5. CASE Publish(w)
  <2>1. /\ pc[w] = "publish" /\ pc'[w] = "verify" /\ leaf'[rec[w]] = pub[w]
        /\ UNCHANGED <<quar, rec, prior, pub, want, undo>>
    BY <1>1, <1>5 DEF Publish, Goto, call, Inv, TypeOK
  <2>2. IF undo'[w] THEN Back(w)' ELSE Forth(w)' BY <1>2, <2>1 DEF Back, Forth
  <2> QED BY <1>1, <2>2, StayReplays
<1>6. CASE AppendRestored(w)
  <2>1. /\ pc[w] = "append" /\ pc'[w] = "quarantine" /\ undo'[w] = TRUE /\ want'[w] = pub[w]
        /\ UNCHANGED <<leaf, rec, prior>>
        /\ pub'[w] = IF prior[w] = NoFile THEN NoFile ELSE [prior[w] EXCEPT !.ino = nextIno]
    BY <1>6 DEF AppendRestored, Goto, call, files, Inv, TypeOK
  <2>2. ~undo[w] /\ leaf[rec[w]] = pub[w] BY <1>2, <2>1 DEF Back, Forth
  <2>3. IF prior[w] = NoFile THEN pub'[w] = NoFile
                             ELSE pub'[w] # NoFile /\ pub'[w].by = prior[w].by
    <3>1. prior[w] \in File \cup {NoFile} /\ nextIno \in Nat BY DEF Inv, TypeOK
    <3>2. CASE prior[w] # NoFile
      <4>1. PICK f \in File : f = prior[w] BY <3>1, <3>2
      <4>2. [f EXCEPT !.ino = nextIno] \in File /\ [f EXCEPT !.ino = nextIno].by = f.by
        BY <3>1 DEF File
      <4> QED BY <2>1, <3>2, <4>1, <4>2, VaultWriteConstants
    <3> QED BY <2>1, <3>2
  <2>4. Back(w)' BY <2>1, <2>2, <2>3 DEF Back
  <2> QED BY <1>1, <2>1, <2>4, StayReplays
<1> QED BY <1>3, <1>4, <1>5, <1>6

\* A replacement that ends, or goes on to its event.
LEMMA ExactReplays ==
  ASSUME Inv, Inv', Replays, NEW w \in Writers, PublishedExact(w) \/ UnlinkQuarantine(w)
  PROVE  Replays'
<1>1. /\ pc[w] \in {"verify", "unlink"} /\ Busy(w) /\ rec[w] \in Records
      /\ UNCHANGED <<leaf, journal, rec, prior, pub, undo>>
      /\ \A v \in Writers : v # w => pc'[v] = pc[v]
  BY DEF PublishedExact, UnlinkQuarantine, AfterExact, Finish, Goto, Busy, Inv, TypeOK, files,
         log, call
<1>2. IF undo[w] THEN Back(w) ELSE Forth(w) BY <1>1 DEF Replays, Carries
<1>3. CASE pc'[w] = "unlink"
  <2>1. pc[w] = "verify" /\ UNCHANGED quar
    BY <1>3 DEF PublishedExact, UnlinkQuarantine, AfterExact, Finish, Goto, Inv, TypeOK, files
  <2>2. IF undo'[w] THEN Back(w)' ELSE Forth(w)' BY <1>1, <1>2, <1>3, <2>1 DEF Back, Forth
  <2> QED BY <1>1, <1>3, <2>2, StayReplays DEF Busy
<1>4. CASE pc'[w] = "append"
  <2>1. ~undo[w]
    BY <1>4 DEF PublishedExact, UnlinkQuarantine, AfterExact, Finish, Goto, Inv, TypeOK
  <2>2. Forth(w)' BY <1>1, <1>2, <1>4, <2>1 DEF Forth
  <2> QED BY <1>1, <1>4, <2>1, <2>2, StayReplays DEF Busy
<1>5. CASE pc'[w] = "idle"
  <2>1. undo[w]
    BY <1>5 DEF PublishedExact, UnlinkQuarantine, AfterExact, Finish, Goto, Inv, TypeOK
  <2>2. \/ leaf'[rec[w]] = prior[w]
        \/ prior[w] # NoFile /\ leaf'[rec[w]] # NoFile /\ leaf'[rec[w]].by = prior[w].by
    BY <1>1, <1>2, <2>1 DEF Back
  <2> QED BY <1>1, <1>5, <2>2, LeaveReplays DEF Busy
<1>6. pc'[w] \in {"unlink", "append", "idle"}
  BY DEF PublishedExact, UnlinkQuarantine, AfterExact, Finish, Goto, Inv, TypeOK
<1> QED BY <1>3, <1>4, <1>5, <1>6

\* A replacement that fails puts back the file it had validated.
LEMMA FailReplays ==
  ASSUME Inv, Inv', Replays, Quiet', NEW w \in Writers,
         \/ LeafChanged(w) \/ QuarantineForeign(w) \/ PublishFails(w) \/ VerifyFault(w)
  PROVE  Replays'
<1>1. /\ Busy(w) /\ rec[w] \in Records /\ op[w] \in Ops /\ Fail(w) /\ UNCHANGED journal
      /\ pc' = [pc EXCEPT ![w] = "idle"]
  BY DEF LeafChanged, QuarantineForeign, PublishFails, VerifyFault, Fail, Finish, Goto, Busy,
         Inv, TypeOK, OpInv, log
<1>2. ~undo[w] BY <1>1 DEF Fail, Finish, Quiet, Inv, TypeOK
<1>3. Forth(w) /\ want[w] = prior[w] BY <1>1, <1>2 DEF Replays, Carries, Inv, StageInv
<1>4. ~LeafChanged(w) /\ ~QuarantineForeign(w) BY <1>3 DEF Forth, LeafChanged, QuarantineForeign
<1>5. leaf'[rec[w]] = prior[w] /\ \A r \in Records : r # rec[w] => leaf'[r] = leaf[r]
  <2>1. CASE PublishFails(w)
    BY <1>1, <1>3, <2>1 DEF PublishFails, RestoreQuarantine, Forth, Inv, TypeOK
  <2>2. CASE VerifyFault(w) BY <1>1, <1>3, <2>2 DEF VerifyFault, Forth, Inv, TypeOK
  <2> QED BY <1>4, <2>1, <2>2
<1>6. ~Busy(w)' /\ \A v \in Writers : v # w => (Busy(v)' <=> Busy(v))
  BY <1>1 DEF Busy, Inv, TypeOK
<1> QED BY <1>1, <1>5, <1>6, LeaveReplays

\* A death, a degraded answer and a person's edit are not quiet.
LEMMA LoudSteps ==
  ASSUME Inv, NEW w \in Writers,
         \/ PublishedForeign(w) \/ UnlinkFault(w) \/ AppendUnknown(w) \/ Crash(w)
  PROVE  ~Quiet'
<1>1. /\ op[w] \in Ops
      /\ \E said \in {"degraded", "crashed"} : outcome' = [outcome EXCEPT ![op[w]] = said]
  BY DEF PublishedForeign, UnlinkFault, AppendUnknown, Crash, Finish, Inv, OpInv
<1> QED BY <1>1 DEF Quiet, Inv, TypeOK

\* Every quiet step keeps the journal and the records in step.
LEMMA NextReplays == Inv /\ Inv' /\ ReplayInv /\ [Next]_vars => ReplayInv'
<1> SUFFICES ASSUME Inv, Inv', ReplayInv, [Next]_vars, Quiet' PROVE Replays'
  BY DEF ReplayInv
<1>1. Replays BY QuietBefore DEF ReplayInv
<1>2. CASE UNCHANGED vars BY <1>1, <1>2, OutsideReplays DEF vars, Busy
<1>3. ASSUME NEW w \in Writers, LockTimeout(w) \/ Stale(w) PROVE Replays'
  <2>1. /\ pc[w] = "called" /\ pc' = [pc EXCEPT ![w] = "idle"]
        /\ UNCHANGED <<leaf, journal, quar, prior, pub, want, undo, rec>>
    BY <1>3 DEF LockTimeout, Stale, Reject, Goto, files, log, call
  <2>2. \A v \in Writers : (Busy(v)' <=> Busy(v)) /\ (Busy(v) => pc'[v] = pc[v])
    BY <2>1 DEF Busy, Inv, TypeOK
  <2> QED BY <1>1, <2>1, <2>2, OutsideReplays
<1>4. ASSUME NEW w \in Writers, AppendEvent(w) \/ AppendCommitted(w) PROVE Replays'
  <2>1. /\ pc[w] = "append" /\ AppendLine(w) /\ pc' = [pc EXCEPT ![w] = "idle"]
        /\ UNCHANGED leaf
    BY <1>4 DEF AppendEvent, AppendCommitted, Finish, Goto, files
  <2>2. ~Busy(w)' /\ \A v \in Writers : v # w => (Busy(v)' <=> Busy(v))
    BY <2>1 DEF Busy, Inv, TypeOK
  <2> QED BY <1>1, <2>1, <2>2, AppendReplays
<1>5. ASSUME NEW w \in Writers, NEW r \in Records, CallUpdate(w, r) \/ CallCreate(w, r)
      PROVE  Replays'
  <2>1. /\ pc[w] = "idle" /\ pc' = [pc EXCEPT ![w] = "called"]
        /\ rec' = [rec EXCEPT ![w] = r]
        /\ UNCHANGED <<leaf, journal, quar, prior, pub, want, undo>>
    BY <1>5 DEF CallUpdate, CallCreate, Call, Goto, files, log
  <2>2. \A v \in Writers : /\ Busy(v)' <=> Busy(v)
                           /\ Busy(v) => pc'[v] = pc[v] /\ rec'[v] = rec[v]
    BY <2>1 DEF Busy, Inv, TypeOK
  <2> QED BY <1>1, <2>1, <2>2, OutsideReplays
<1>6. CASE DoctorRepair BY <1>1, <1>6, OutsideReplays DEF DoctorRepair, files, call, Busy
<1>7. ASSUME NEW r \in Records, PersonDeletes(r) \/ \E b \in Texts : PersonSaves(r, b)
      PROVE  FALSE
  <2>1. edits \in Nat /\ edits' = edits + 1 BY <1>7 DEF PersonDeletes, PersonSaves, Inv, TypeOK
  <2> QED BY <2>1 DEF Quiet
<1>8. ASSUME NEW w \in Writers, WriterStep(w) PROVE Replays'
  BY <1>1, <1>3, <1>4, <1>8, EnterReplays, ReplaceReplays, ExactReplays, FailReplays, LoudSteps
     DEF WriterStep
<1> QED BY <1>2, <1>5, <1>6, <1>7, <1>8, LoudSteps DEF Next, Environment

\* Without a person's edit, a degraded answer or a death, the events of a record are the
\* history of its file: each starts from what the one before left, and between operations
\* the file is what the last one left, through every conflict, timeout, failed publication
\* and undone append.
THEOREM JournalTellsHistory == Spec => []JournalReplays
<1>1. Init => ReplayInv BY DEF Init, ReplayInv, Replays, Chained, Left, Mine, Busy
<1>2. Spec => []ReplayInv BY <1>1, Invariant, NextReplays, PTL DEF Spec
<1>3. Inv /\ ReplayInv => JournalReplays
  <2> SUFFICES ASSUME Inv, ReplayInv, Quiet, NEW r \in Records
               PROVE  /\ Chained(r)
                      /\ lock = Free => Left(r, leaf[r])
    BY DEF JournalReplays, Quiet, Chained, Left, Mine
  <2>1. lock = Free => \A w \in Writers : ~Busy(w) BY VaultWriteConstants DEF Inv, LockInv
  <2> QED BY <2>1 DEF ReplayInv, Replays
<1> QED BY <1>2, <1>3, Invariant, PTL

----------------------------------------
(* Chains of redirects. *)

NatLess == {p \in Nat \X Nat : p[1] < p[2]}

\* A nonempty set of naturals has a least member.
LEMMA HasLeast ==
  ASSUME NEW S \in SUBSET Nat, S # {}
  PROVE  \E m \in S : \A n \in S : m <= n
<1>1. IsWellFoundedOn(NatLess, Nat) BY NatLessThanWellFounded, Zenon DEF OpToRel, NatLess
<1>2. PICK m \in S : \A n \in S : ~ (<<n, m>> \in NatLess) BY <1>1, WFMin
<1>3. \A n \in S : n < m => <<n, m>> \in NatLess BY DEF NatLess
<1>4. \A n \in S : ~ (n < m) BY <1>2, <1>3
<1> QED BY <1>4

\* What a walk of n steps along next from x is.
WalkTo(next, x, n, f) == f = [k \in 0..n |-> IF k = 0 THEN x ELSE next[f[k - 1]]]

LEMMA WalksExist ==
  ASSUME NEW next, NEW x, NEW n \in Nat
  PROVE  \E f : WalkTo(next, x, n, f)
<1> DEFINE T == {k \in Nat : ~ \E f : WalkTo(next, x, k, f)}
<1>1. SUFFICES ASSUME T # {} PROVE FALSE
  OBVIOUS
<1>2. PICK k \in T : \A m \in T : k <= m
  <2>1. T \in SUBSET Nat OBVIOUS
  <2> QED BY <1>1, <2>1, HasLeast
<1>3. k \in Nat /\ ~ \E f : WalkTo(next, x, k, f) OBVIOUS
<1>4. CASE k = 0
  <2>1. PICK f : f = [i \in 0..0 |-> x] OBVIOUS
  <2>2. f = [i \in 0..0 |-> IF i = 0 THEN x ELSE next[f[i - 1]]] BY <2>1
  <2>3. WalkTo(next, x, 0, f) BY <2>2 DEF WalkTo
  <2> QED BY <1>3, <1>4, <2>3
<1>5. CASE k > 0
  <2>1. k - 1 \in Nat /\ k - 1 \notin T BY <1>2, <1>3, <1>5
  <2>2. PICK g : WalkTo(next, x, k - 1, g) BY <2>1
  <2>3. /\ g[0] = x
        /\ \A i \in 1..(k - 1) : g[i] = next[g[i - 1]]
    <3>1. \A i \in 0..(k - 1) : g[i] = IF i = 0 THEN x ELSE next[g[i - 1]] BY <2>2 DEF WalkTo
    <3> QED BY <2>1, <3>1
  <2>4. PICK h : h = [i \in 0..k |-> IF i = k THEN next[g[k - 1]] ELSE g[i]] OBVIOUS
  <2>5. h[k] = next[g[k - 1]] /\ \A i \in 0..(k - 1) : h[i] = g[i] BY <1>3, <2>4
  <2>6. \A i \in 1..k : h[i] = next[h[i - 1]]
    <3> SUFFICES ASSUME NEW i \in 1..k PROVE h[i] = next[h[i - 1]]
      OBVIOUS
    <3>1. i - 1 \in 0..(k - 1) /\ h[i - 1] = g[i - 1] BY <1>3, <2>5
    <3>2. CASE i = k BY <2>5, <3>1, <3>2
    <3>3. CASE i # k
      <4>1. i \in 1..(k - 1) /\ i \in 0..(k - 1) BY <1>3, <3>3
      <4> QED BY <2>3, <2>5, <3>1, <4>1
    <3> QED BY <3>2, <3>3
  <2>7. h[0] = x BY <1>3, <1>5, <2>3, <2>5
  <2>8. \A i \in 0..k : h[i] = IF i = 0 THEN x ELSE next[h[i - 1]]
    <3> SUFFICES ASSUME NEW i \in 0..k PROVE h[i] = IF i = 0 THEN x ELSE next[h[i - 1]]
      OBVIOUS
    <3>1. i = 0 \/ i \in 1..k BY <1>3
    <3>2. i \in 1..k => i # 0 BY <1>3
    <3> QED BY <2>6, <2>7, <3>1, <3>2
  <2>9. h = [i \in 0..k |-> h[i]] BY <2>4
  <2>10. WalkTo(next, x, k, h) BY <2>8, <2>9 DEF WalkTo
  <2> QED BY <1>3, <2>10
<1> QED BY <1>3, <1>4, <1>5

LEMMA WalkIs ==
  ASSUME NEW next, NEW x, NEW n \in Nat
  PROVE  /\ Walk(next, x, n)[0] = x
         /\ \A k \in 1..n : Walk(next, x, n)[k] = next[Walk(next, x, n)[k - 1]]
<1>1. WalkTo(next, x, n, Walk(next, x, n))
  <2>1. Walk(next, x, n) = CHOOSE f : WalkTo(next, x, n, f) BY DEF Walk, WalkTo
  <2> QED BY <2>1, WalksExist
<1>2. \A k \in 0..n : Walk(next, x, n)[k] = IF k = 0 THEN x ELSE next[Walk(next, x, n)[k - 1]]
  <2> DEFINE f == Walk(next, x, n)
  <2>1. f = [k \in 0..n |-> IF k = 0 THEN x ELSE next[f[k - 1]]] BY <1>1 DEF WalkTo
  <2> HIDE DEF f
  <2>2. \A k \in 0..n : f[k] = IF k = 0 THEN x ELSE next[f[k - 1]] BY <2>1
  <2> QED BY <2>2 DEF f
<1> QED BY <1>2

\* The edges of a graph on S can be ranked upwards: it has no cycle.
Ordered(S, edges) ==
  \E rank \in [S -> Nat] : \A x, y \in S : <<x, y>> \in edges => rank[x] < rank[y]

\* The ranks of a finite graph can be chosen below the number of its nodes.
LEMMA RankBelow ==
  ASSUME NEW S, IsFiniteSet(S), NEW edges, Ordered(S, edges)
  PROVE  \E rank \in [S -> Nat] :
           \A x, y \in S : rank[x] < Cardinality(S) /\ (<<x, y>> \in edges => rank[x] < rank[y])
<1>1. PICK r \in [S -> Nat] : \A x, y \in S : <<x, y>> \in edges => r[x] < r[y] BY DEF Ordered
<1> DEFINE Under(x) == {z \in S : r[z] < r[x]}
<1>2. ASSUME NEW x \in S
      PROVE  /\ IsFiniteSet(Under(x)) /\ Cardinality(Under(x)) \in Nat
             /\ Cardinality(Under(x)) < Cardinality(S)
  <2>1. Under(x) \in SUBSET S /\ x \notin Under(x) /\ x \in S BY <1>1
  <2>2. IsFiniteSet(Under(x)) /\ Cardinality(Under(x)) <= Cardinality(S)
        /\ (Cardinality(S) = Cardinality(Under(x)) => S = Under(x))
    BY <2>1, FS_Subset
  <2>3. Cardinality(Under(x)) # Cardinality(S) BY <2>1, <2>2
  <2>4. Cardinality(Under(x)) \in Nat /\ Cardinality(S) \in Nat BY <2>2, FS_CardinalityType
  <2> QED BY <2>2, <2>3, <2>4
<1>3. ASSUME NEW x \in S, NEW y \in S, <<x, y>> \in edges
      PROVE  Cardinality(Under(x)) < Cardinality(Under(y))
  <2>1. r[x] < r[y] /\ r[x] \in Nat /\ r[y] \in Nat BY <1>1, <1>3
  <2>2. Under(x) \in SUBSET Under(y) /\ x \in Under(y) /\ x \notin Under(x) BY <1>1, <2>1
  <2>3. Cardinality(Under(x)) <= Cardinality(Under(y))
        /\ (Cardinality(Under(y)) = Cardinality(Under(x)) => Under(y) = Under(x))
    BY <1>2, <2>2, FS_Subset
  <2>4. Cardinality(Under(x)) # Cardinality(Under(y)) BY <2>2, <2>3
  <2> HIDE DEF Under
  <2> QED BY <1>2, <2>3, <2>4
<1> HIDE DEF Under
<1>4. PICK rank : rank = [x \in S |-> Cardinality(Under(x))] OBVIOUS
<1>5. \A x \in S : rank[x] = Cardinality(Under(x)) /\ rank[x] \in Nat BY <1>2, <1>4
<1>6. \A x \in S : rank[x] < Cardinality(S) BY <1>2, <1>5
<1>7. \A x, y \in S : <<x, y>> \in edges => rank[x] < rank[y] BY <1>3, <1>5
<1>8. rank \in [S -> Nat] BY <1>4, <1>5
<1> QED BY <1>6, <1>7, <1>8

LEMMA OrderedJoin ==
  ASSUME NEW S, IsFiniteSet(S), NEW edges, Ordered(S, edges), NEW R \in SUBSET S,
         NEW s \in S, NEW t, s \notin R, t \in R,
         \A x, y \in S : x \in R /\ <<x, y>> \in edges => y \in R,
         NEW more, \A x, y \in S : <<x, y>> \in more => <<x, y>> \in edges \/ (x = s /\ y = t)
  PROVE  Ordered(S, more)
<1>1. PICK r \in [S -> Nat] :
        \A x, y \in S : r[x] < Cardinality(S) /\ (<<x, y>> \in edges => r[x] < r[y])
  BY RankBelow
<1>2. Cardinality(S) \in Nat BY FS_CardinalityType
<1> DEFINE rank == [x \in S |-> IF x \in R THEN r[x] + Cardinality(S) ELSE r[x]]
<1>3. rank \in [S -> Nat] /\ \A x \in S : rank[x] = IF x \in R THEN r[x] + Cardinality(S) ELSE r[x]
  BY <1>1, <1>2
<1> HIDE DEF rank
<1>4. ASSUME NEW x \in S, NEW y \in S, <<x, y>> \in more
      PROVE  rank[x] < rank[y]
  <2>1. r[x] \in Nat /\ r[y] \in Nat /\ r[x] < Cardinality(S) BY <1>1
  <2>2. CASE x = s /\ y = t BY <1>2, <1>3, <2>1, <2>2
  <2>3. CASE <<x, y>> \in edges
    <3>1. r[x] < r[y] /\ (x \in R => y \in R) BY <1>1, <2>3
    <3> QED BY <1>2, <1>3, <2>1, <3>1
  <2> QED BY <1>4, <2>2, <2>3
<1> QED BY <1>3, <1>4 DEF Ordered

LEMMA OrderedLess ==
  ASSUME NEW S, NEW edges, Ordered(S, edges),
         NEW fewer, \A x, y \in S : <<x, y>> \in fewer => <<x, y>> \in edges
  PROVE  Ordered(S, fewer)
BY DEF Ordered

----------------------------------------
(* Tasks, hands and WorkThreads. *)

\* Who is superseded by whom.
TaskEdges == {p \in Tasks \X Tasks : task[p[1]] # Nil /\ task[p[1]].superseded_by = p[2]}
ThreadEdges ==
  {p \in Threads \X Threads :
     thread[p[1]] # Nil /\ thread[p[1]].status = "superseded" /\ thread[p[1]].superseded_by = p[2]}

\* The redirects of tasks and of WorkThreads have no cycle, and the one of a
\* superseded WorkThread leads to a WorkThread.
RedirectsOrdered ==
  /\ Ordered(Tasks, TaskEdges) /\ Ordered(Threads, ThreadEdges)
  /\ \A w \in Made(thread) : thread[w].status = "superseded" => thread[w].superseded_by \in Made(thread)

\* A dispatch that finds the revision it read finds the record it read.
ReadsHold ==
  \A d \in Dispatches : asRead[d] # Nil =>
    LET t == asRead[d].id IN
    /\ task[t] # Nil /\ asRead[d].rec.rev <= task[t].rev
    /\ asRead[d].rec.rev = task[t].rev => asRead[d].rec = task[t]

\* Each write of a record takes one of the writes the bound admits.
RevisionsBounded == \A t \in Made(task) : task[t].rev <= recordEdits

HandsInv ==
  /\ HandsTyped /\ OneHand /\ FactoryHandClaimed /\ LiveFocus
  /\ RedirectsOrdered /\ ReadsHold /\ RevisionsBounded

\* Each step along superseded_by raises the rank by one at least.
LEMMA TasksClimb ==
  ASSUME task \in [Tasks -> TaskRecord \cup {Nil}],
         NEW rank \in [Tasks -> Nat],
         \A x, y \in Tasks : <<x, y>> \in TaskEdges => rank[x] < rank[y],
         NEW t \in Tasks, NEW n \in Nat
  PROVE  \A k \in 0..n : /\ Walk(Successor, t, n)[k] \in Tasks \cup {Nil}
                         /\ Walk(Successor, t, n)[k] # Nil => rank[Walk(Successor, t, n)[k]] >= rank[t] + k
<1> DEFINE at == Walk(Successor, t, n)
           Good(k) == at[k] \in Tasks \cup {Nil} /\ (at[k] # Nil => rank[at[k]] >= rank[t] + k)
           T == {k \in 0..n : ~Good(k)}
<1>1. at[0] = t /\ \A k \in 1..n : at[k] = Successor[at[k - 1]] BY WalkIs
<1> HIDE DEF at
<1>2. SUFFICES ASSUME T # {} PROVE FALSE
  BY DEF at
<1>3. PICK k \in T : \A m \in T : k <= m
  <2>1. T \in SUBSET Nat OBVIOUS
  <2> HIDE DEF T
  <2> QED BY <1>2, <2>1, HasLeast
<1>4. k \in 0..n /\ ~Good(k) OBVIOUS
<1>5. rank[t] \in Nat /\ Nil \notin Tasks BY HandsAssumption
<1>6. k # 0 BY <1>1, <1>4, <1>5
<1>7. k \in 1..n /\ k - 1 \in 0..n /\ k - 1 \notin T BY <1>3, <1>4, <1>6
<1>8. Good(k - 1) BY <1>7
<1> DEFINE x == at[k - 1]
<1>9. at[k] = Successor[x] /\ x \in Tasks \cup {Nil} BY <1>1, <1>7, <1>8
<1>10. CASE x = Nil \/ task[x] = Nil
  <2>1. at[k] = Nil BY <1>9, <1>10 DEF Successor
  <2> QED BY <1>4, <2>1
<1>11. CASE x # Nil /\ task[x] # Nil
  <2>1. x \in Tasks /\ task[x] \in TaskRecord BY <1>9, <1>11
  <2>2. at[k] = task[x].superseded_by /\ at[k] \in Tasks \cup {Nil}
    BY <1>9, <1>11, <2>1 DEF Successor, TaskRecord
  <2>3. CASE at[k] # Nil
    <3>1. <<x, at[k]>> \in TaskEdges /\ at[k] \in Tasks BY <1>11, <2>1, <2>2, <2>3 DEF TaskEdges
    <3>2. rank[x] < rank[at[k]] /\ rank[x] \in Nat /\ rank[at[k]] \in Nat BY <2>1, <3>1
    <3>3. rank[x] >= rank[t] + (k - 1) BY <1>8, <1>11
    <3> HIDE DEF x
    <3>4. rank[at[k]] >= rank[t] + k BY <1>5, <1>7, <3>2, <3>3
    <3> QED BY <1>4, <2>2, <3>4
  <2> QED BY <1>4, <2>2, <2>3
<1> QED BY <1>10, <1>11

LEMMA TasksEnd ==
  ASSUME task \in [Tasks -> TaskRecord \cup {Nil}], Ordered(Tasks, TaskEdges), NEW t \in Tasks
  PROVE  t \notin Successors(t)
<1>1. PICK rank \in [Tasks -> Nat] : \A x, y \in Tasks : <<x, y>> \in TaskEdges => rank[x] < rank[y]
  BY DEF Ordered
<1> DEFINE N == Cardinality(Tasks)
           at == Walk(Successor, t, N)
<1>2. N \in Nat BY HandsAssumption, FS_CardinalityType
<1>3. \A k \in 0..N : at[k] # Nil => rank[at[k]] >= rank[t] + k BY <1>1, <1>2, TasksClimb
<1>4. rank[t] \in Nat /\ t # Nil BY <1>1, HandsAssumption
<1> HIDE DEF at
<1>5. ASSUME NEW k \in 1..N PROVE at[k] # t
  <2>1. k \in 0..N BY <1>2
  <2> QED BY <1>2, <1>3, <1>4, <2>1
<1>6. Successors(t) = {at[k] : k \in 1..N} \ {Nil} BY DEF Successors, at
<1> QED BY <1>5, <1>6

\* What lies along superseded_by is closed under it.
LEMMA SuccessorsClosed ==
  ASSUME task \in [Tasks -> TaskRecord \cup {Nil}], Ordered(Tasks, TaskEdges), NEW t \in Tasks,
         NEW x \in {t} \cup Successors(t), NEW y \in Tasks, <<x, y>> \in TaskEdges
  PROVE  y \in Successors(t)
<1> DEFINE N == Cardinality(Tasks)
           at == Walk(Successor, t, N)
<1>1. PICK rank \in [Tasks -> Nat] :
        \A u, v \in Tasks : rank[u] < N /\ (<<u, v>> \in TaskEdges => rank[u] < rank[v])
  BY HandsAssumption, RankBelow
<1>2. N \in Nat BY HandsAssumption, FS_CardinalityType
<1>3. at[0] = t /\ \A k \in 1..N : at[k] = Successor[at[k - 1]] BY <1>2, WalkIs
<1>4. \A k \in 0..N : at[k] # Nil => rank[at[k]] >= rank[t] + k BY <1>1, <1>2, TasksClimb
<1>5. Successors(t) = {at[k] : k \in 1..N} \ {Nil} BY DEF Successors
<1>6. rank[t] \in Nat /\ t # Nil /\ y # Nil BY <1>1, HandsAssumption
<1> HIDE DEF at
<1>7. PICK k \in 0..N : at[k] = x
  <2>1. CASE x = t BY <1>2, <1>3, <2>1
  <2>2. CASE x # t
    <3>1. PICK k \in 1..N : at[k] = x BY <1>5, <2>2
    <3> QED BY <1>2, <3>1
  <2> QED BY <2>1, <2>2
<1>8. x \in Tasks /\ x # Nil /\ task[x] # Nil /\ task[x].superseded_by = y
  BY HandsAssumption DEF TaskEdges
<1>9. rank[x] < N /\ rank[x] \in Nat /\ rank[x] >= rank[t] + k BY <1>1, <1>4, <1>7, <1>8
<1>10. k + 1 \in 1..N /\ (k + 1) - 1 = k BY <1>2, <1>6, <1>9
<1>11. at[k + 1] = Successor[x] BY <1>3, <1>7, <1>10
<1>12. at[k + 1] = y BY <1>8, <1>11 DEF Successor
<1> QED BY <1>5, <1>6, <1>10, <1>12

LEMMA SuccessorsAreTasks ==
  ASSUME task \in [Tasks -> TaskRecord \cup {Nil}], Ordered(Tasks, TaskEdges), NEW t \in Tasks
  PROVE  Successors(t) \in SUBSET Tasks
<1>1. PICK rank \in [Tasks -> Nat] : \A x, y \in Tasks : <<x, y>> \in TaskEdges => rank[x] < rank[y]
  BY DEF Ordered
<1> DEFINE N == Cardinality(Tasks)
           at == Walk(Successor, t, N)
<1>2. N \in Nat BY HandsAssumption, FS_CardinalityType
<1>3. \A k \in 0..N : at[k] \in Tasks \cup {Nil} BY <1>1, <1>2, TasksClimb
<1>4. Successors(t) = {at[k] : k \in 1..N} \ {Nil} BY DEF Successors
<1> QED BY <1>2, <1>3, <1>4

\* What a write of task t makes of the records: its record or nothing of it,
\* and the previous owners of the hand let go.
Written(t, after) ==
  /\ task[t] # Nil /\ after \in TaskRecord /\ after.rev = task[t].rev + 1
  /\ BoundThroughDispatch(task[t], after)
  /\ after.claim = task[t].claim \/ after.hand = Nil
  /\ after.status \in TaskTerminal => FocusCleared(t)
  /\ after.superseded_by # Nil => Supersedable(t, after.superseded_by)
  /\ RecordEdit
  /\ \E f : task' = [x \in Tasks |-> f[x]]
  /\ task'[t] = after \/ task'[t] = task[t]
  /\ \A x \in Tasks \ {t} :
       task'[x] = IF x \in OtherOwners(t, after.hand)
                  THEN Released(task[x]) ELSE task[x]

\* The record a caller wants is the one on disk with some fields changed: with
\* the same revision, and with the same claim unless it lets go of the hand.
LEMMA WriteTaskIs ==
  ASSUME HandsInv, NEW t \in Tasks, task[t] # Nil, NEW wished \in TaskRecord,
         wished.rev = task[t].rev, wished.claim = task[t].claim \/ wished.hand = Nil,
         WriteTask(t, wished)
  PROVE  Written(t, Candidate(wished))
<1> DEFINE after == Candidate(wished)
<1>1. task[t] \in TaskRecord /\ task[t].rev <= recordEdits /\ recordEdits \in Nat
  BY HandsAssumption DEF HandsInv, HandsTyped, RevisionsBounded, Made
<1>2. RecordEdit /\ recordEdits < MaxRecordEdits /\ MaxRecordEdits \in Nat
  BY HandsAssumption DEF WriteTask, RecordEdit
<1>3. /\ after.rev = wished.rev + 1 /\ after.claim = wished.claim
      /\ after.hand \in {wished.hand, Nil} /\ after.superseded_by = wished.superseded_by
      /\ after \in TaskRecord
  <2>1. wished.rev + 1 \in 1..MaxRecordEdits BY <1>1, <1>2 DEF TaskRecord
  <2> QED BY <2>1 DEF Candidate, TaskRecord
<1>4. /\ BoundThroughDispatch(task[t], after)
      /\ after.status \in TaskTerminal => FocusCleared(t)
      /\ after.superseded_by # Nil => Supersedable(t, after.superseded_by)
      /\ \E dies \in BOOLEAN : task' = TransferWrites(t, after, after.hand, dies)
  BY DEF WriteTask
<1>5. after.claim = task[t].claim \/ after.hand = Nil BY <1>3
<1> HIDE DEF after
<1>6. PICK dies \in BOOLEAN : task' = TransferWrites(t, after, after.hand, dies) BY <1>4
<1>7. \E f : task' = [x \in Tasks |-> f[x]]
  <2>1. TransferWrites(t, after, after.hand, dies)
          = [x \in Tasks |-> TransferWrites(t, after, after.hand, dies)[x]]
    BY DEF TransferWrites
  <2> QED BY <1>6, <2>1
<1>8. task'[t] = after \/ task'[t] = task[t]
  <2>1. t \notin OtherOwners(t, after.hand) BY DEF OtherOwners
  <2> QED BY <1>6, <2>1 DEF TransferWrites
<1>9. ASSUME NEW x \in Tasks \ {t}
      PROVE  task'[x] = IF x \in OtherOwners(t, after.hand)
                        THEN Released(task[x]) ELSE task[x]
  BY <1>6 DEF TransferWrites
<1> QED BY <1>1, <1>2, <1>3, <1>4, <1>5, <1>7, <1>8, <1>9 DEF Written, after

LEMMA ReleasedIs ==
  ASSUME NEW r \in TaskRecord
  PROVE  /\ Released(r).hand = Nil /\ Released(r).rev = r.rev + 1
         /\ Released(r).status = r.status /\ Released(r).superseded_by = r.superseded_by
         /\ r.rev + 1 \in 1..MaxRecordEdits => Released(r) \in TaskRecord
BY DEF Released, TaskRecord

\* What of a record the write of a task can change.
LEMMA WrittenFields ==
  ASSUME HandsInv, NEW t \in Tasks, NEW after, Written(t, after), NEW x \in Tasks
  PROVE  /\ task'[x] \in TaskRecord \cup {Nil}
         /\ task'[x] = Nil <=> task[x] = Nil
         /\ task[x] # Nil =>
              \/ task'[x] = task[x]
              \/ /\ task'[x].rev = task[x].rev + 1
                 /\ \/ x = t /\ task'[x] = after
                    \/ /\ x # t /\ x \in OtherOwners(t, after.hand) /\ task'[x].hand = Nil
                       /\ task'[x] = Released(task[x])
<1>1. task[x] \in TaskRecord \cup {Nil} /\ Nil \notin TaskRecord
  BY HandsAssumption DEF HandsInv, HandsTyped
<1>2. recordEdits \in Nat /\ MaxRecordEdits \in Nat /\ recordEdits < MaxRecordEdits
  BY HandsAssumption DEF HandsInv, HandsTyped, Written, RecordEdit
<1>3. CASE x = t BY <1>1, <1>3 DEF Written
<1>4. CASE x # t /\ x \notin OtherOwners(t, after.hand) BY <1>1, <1>4 DEF Written
<1>5. CASE x # t /\ x \in OtherOwners(t, after.hand)
  <2>1. task'[x] = Released(task[x]) BY <1>5 DEF Written
  <2>2. task[x] # Nil BY <1>5 DEF OtherOwners, Live
  <2>3. task[x] \in TaskRecord /\ task[x].rev <= recordEdits
    BY <1>1, <2>2 DEF HandsInv, HandsTyped, RevisionsBounded, Made
  <2>4. task[x].rev + 1 \in 1..MaxRecordEdits BY <1>2, <2>3 DEF TaskRecord
  <2>5. task'[x] \in TaskRecord /\ task'[x].rev = task[x].rev + 1 /\ task'[x].hand = Nil
    BY <2>1, <2>3, <2>4 DEF TaskRecord, Released
  <2> QED BY <1>1, <1>5, <2>1, <2>2, <2>5
<1> QED BY <1>3, <1>4, <1>5

LEMMA WrittenHands ==
  ASSUME HandsInv, NEW t \in Tasks, NEW after, Written(t, after)
  PROVE  OneHand' /\ FactoryHandClaimed'
<1>1. OneHand'
  <2> SUFFICES ASSUME NEW u \in Tasks, NEW v \in Tasks, u # v, Live(u)', Live(v)',
                      task'[u].hand # Nil, task'[u].hand = task'[v].hand
               PROVE  FALSE
    BY DEF OneHand
  <2>1. task[u] # Nil /\ task[v] # Nil BY WrittenFields DEF Live
  <2>2. \A x \in {u, v} : \/ task'[x] = task[x]
                          \/ x = t /\ task'[x] = after
    BY <2>1, WrittenFields
  <2>3. \A x \in {u, v} : x # t => x \notin OtherOwners(t, after.hand)
    <3> SUFFICES ASSUME NEW x \in {u, v}, x # t, x \in OtherOwners(t, after.hand) PROVE FALSE
      OBVIOUS
    <3>1. task'[x] = Released(task[x]) /\ task[x] \in TaskRecord
      BY <2>1 DEF Written, HandsInv, HandsTyped
    <3> QED BY <3>1, ReleasedIs
  <2>4. \A x \in {u, v} : task'[x] = task[x] => Live(x) BY DEF Live
  <2>5. CASE task'[u] = task[u] /\ task'[v] = task[v] BY <2>4, <2>5 DEF HandsInv, OneHand
  <2>6. ASSUME NEW x \in {u, v}, NEW y \in {u, v}, x # y, x = t, task'[x] = after, task'[y] = task[y]
        PROVE  FALSE
    <3>1. Live(y) /\ task[y].hand = after.hand /\ after.hand # Nil /\ y # t BY <2>4, <2>6
    <3>2. y \in OtherOwners(t, after.hand) BY <3>1 DEF OtherOwners
    <3> QED BY <2>3, <3>1, <3>2
  <2> QED BY <2>2, <2>5, <2>6
<1>2. FactoryHandClaimed'
  <2> SUFFICES ASSUME NEW x \in Tasks, task'[x] # Nil, task'[x].run, task'[x].hand # Nil
               PROVE  task'[x].claim # Nil
    BY DEF FactoryHandClaimed, Made, Written
  <2>1. task[x] # Nil /\ x \in Made(task) BY WrittenFields DEF Made, HandsInv, HandsTyped
  <2>2. task[x].run /\ task[x].hand # Nil => task[x].claim # Nil
    BY <2>1 DEF HandsInv, FactoryHandClaimed
  <2>3. CASE task'[x] = task[x] BY <2>2, <2>3
  <2>4. CASE x = t /\ task'[x] = after BY <2>2, <2>4 DEF Written, BoundThroughDispatch
  <2> QED BY <2>1, <2>3, <2>4, WrittenFields
<1> QED BY <1>1, <1>2

LEMMA WrittenFocus ==
  ASSUME HandsInv, NEW t \in Tasks, NEW after, Written(t, after), thread' = thread
  PROVE  LiveFocus'
<1> SUFFICES ASSUME NEW w \in Made(thread), thread[w].status \notin ThreadTerminal,
                    thread[w].focus # Nil
             PROVE  thread[w].focus \in thread[w].members /\ Live(thread[w].focus)'
  BY DEF LiveFocus, Focusable, Made
<1> DEFINE x == thread[w].focus
<1>1. x \in thread[w].members /\ Live(x) BY DEF HandsInv, LiveFocus, Focusable
<1>2. thread[w] \in ThreadRecord BY DEF HandsInv, HandsTyped, Made
<1>3. x \in Tasks /\ task[x] \in TaskRecord
  BY <1>1, <1>2 DEF ThreadRecord, HandsInv, HandsTyped, Live
<1> HIDE DEF x
<1>4. task'[x] # Nil BY <1>1, <1>3, WrittenFields DEF Live
<1>5. CASE task'[x] = task[x] BY <1>1, <1>5 DEF Live, x
<1>6. CASE x = t /\ task'[x] = after
  <2>1. after.status \notin TaskTerminal BY <1>6 DEF Written, FocusCleared, x
  <2> QED BY <1>1, <1>4, <1>6, <2>1 DEF Live, x
<1>7. CASE task'[x] = Released(task[x]) BY <1>1, <1>3, <1>4, <1>7, ReleasedIs DEF Live, x
<1> QED BY <1>1, <1>3, <1>5, <1>6, <1>7, WrittenFields DEF Live

LEMMA WrittenOrder ==
  ASSUME HandsInv, NEW t \in Tasks, NEW after, Written(t, after), thread' = thread
  PROVE  RedirectsOrdered'
<1>1. Ordered(Tasks, TaskEdges) /\ task \in [Tasks -> TaskRecord \cup {Nil}] /\ Nil \notin Tasks
  BY HandsAssumption DEF HandsInv, HandsTyped, RedirectsOrdered
<1>2. ASSUME NEW x \in Tasks, NEW y \in Tasks, <<x, y>> \in TaskEdges'
      PROVE  <<x, y>> \in TaskEdges \/ (x = t /\ y = after.superseded_by)
  <2>1. task'[x] # Nil /\ task'[x].superseded_by = y BY <1>2 DEF TaskEdges
  <2>2. task[x] # Nil /\ task[x] \in TaskRecord BY <2>1, WrittenFields DEF HandsInv, HandsTyped
  <2>3. task[x].superseded_by = y \/ (x = t /\ y = after.superseded_by)
    BY <2>1, <2>2, WrittenFields, ReleasedIs
  <2> QED BY <2>2, <2>3 DEF TaskEdges
<1>3. Ordered(Tasks, TaskEdges')
  <2>1. CASE after.superseded_by = Nil
    <3>1. \A x, y \in Tasks : <<x, y>> \in TaskEdges' => <<x, y>> \in TaskEdges
      BY <1>1, <1>2, <2>1
    <3> QED BY <1>1, <3>1, OrderedLess
  <2>2. CASE after.superseded_by # Nil
    <3> DEFINE by == after.superseded_by
               R == {by} \cup Successors(by)
    <3>1. by \in Tasks /\ by # t /\ t \notin Successors(by)
      BY <2>2 DEF Written, Supersedable, TaskRecord
    <3>2. R \in SUBSET Tasks /\ t \notin R /\ by \in R BY <1>1, <3>1, SuccessorsAreTasks
    <3>3. \A x, y \in Tasks : x \in R /\ <<x, y>> \in TaskEdges => y \in R
      BY <1>1, <3>1, SuccessorsClosed
    <3> HIDE DEF R
    <3> QED BY <1>1, <1>2, <3>2, <3>3, HandsAssumption, OrderedJoin
  <2> QED BY <2>1, <2>2
<1>4. ThreadEdges' = ThreadEdges BY DEF ThreadEdges
<1> QED BY <1>3, <1>4 DEF RedirectsOrdered, HandsInv, Made

LEMMA WrittenInv ==
  ASSUME HandsInv, NEW t \in Tasks, NEW after, Written(t, after), thread' = thread,
         asRead' = asRead \/ (\E d \in Dispatches : asRead' = [asRead EXCEPT ![d] = Nil])
  PROVE  HandsInv'
<1>1. recordEdits' = recordEdits + 1 /\ recordEdits' \in 0..MaxRecordEdits /\ recordEdits \in Nat
  BY HandsAssumption DEF HandsInv, HandsTyped, Written, RecordEdit
<1>2. \A d \in Dispatches : asRead'[d] = asRead[d] \/ asRead'[d] = Nil
  BY DEF HandsInv, HandsTyped
<1>3. asRead' \in [Dispatches -> TaskReads \cup {Nil}] BY DEF HandsInv, HandsTyped
<1>4. HandsTyped'
  <2>1. task' \in [Tasks -> TaskRecord \cup {Nil}]
    <3>1. \A x \in Tasks : task'[x] \in TaskRecord \cup {Nil} BY WrittenFields
    <3>2. \E f : task' = [x \in Tasks |-> f[x]] BY DEF Written
    <3> QED BY <3>1, <3>2
  <2> QED BY <1>1, <1>3, <2>1 DEF HandsTyped, HandsInv
<1>5. ReadsHold'
  <2> SUFFICES ASSUME NEW d \in Dispatches, asRead'[d] # Nil
               PROVE  /\ task'[asRead'[d].id] # Nil
                      /\ asRead'[d].rec.rev <= task'[asRead'[d].id].rev
                      /\ asRead'[d].rec.rev = task'[asRead'[d].id].rev =>
                           asRead'[d].rec = task'[asRead'[d].id]
    BY DEF ReadsHold
  <2> DEFINE x == asRead[d].id
  <2>1. asRead'[d] = asRead[d] /\ asRead[d] # Nil BY <1>2
  <2>2. x \in Tasks /\ asRead[d].rec \in TaskRecord /\ asRead[d].rec.rev \in Nat
    BY <2>1 DEF HandsInv, HandsTyped, TaskReads, TaskRecord
  <2>3. /\ task[x] # Nil /\ asRead[d].rec.rev <= task[x].rev
        /\ asRead[d].rec.rev = task[x].rev => asRead[d].rec = task[x]
    BY <2>1 DEF HandsInv, ReadsHold
  <2>4. task[x] \in TaskRecord /\ task[x].rev \in Nat
    BY <2>2, <2>3 DEF HandsInv, HandsTyped, TaskRecord
  <2> HIDE DEF x
  <2>5. task'[x] # Nil /\ (task'[x] = task[x] \/ task'[x].rev = task[x].rev + 1)
    BY <2>2, <2>3, WrittenFields
  <2>6. asRead[d].rec.rev <= task'[x].rev /\ (asRead[d].rec.rev = task'[x].rev => asRead[d].rec = task'[x])
    BY <2>2, <2>3, <2>4, <2>5
  <2> QED BY <2>1, <2>5, <2>6 DEF x
<1>6. RevisionsBounded'
  <2> SUFFICES ASSUME NEW x \in Tasks, task'[x] # Nil PROVE task'[x].rev <= recordEdits + 1
    BY <1>1, <1>4 DEF RevisionsBounded, Made, HandsTyped
  <2>1. task[x] # Nil BY WrittenFields
  <2>2. task[x].rev <= recordEdits /\ task[x].rev \in Nat
    BY <2>1 DEF HandsInv, HandsTyped, TaskRecord, RevisionsBounded, Made
  <2>3. task'[x] = task[x] \/ task'[x].rev = task[x].rev + 1 BY <2>1, WrittenFields
  <2> QED BY <1>1, <2>2, <2>3
<1> QED BY <1>4, <1>5, <1>6, WrittenHands, WrittenFocus, WrittenOrder DEF HandsInv

\* A task that appears has no history to disturb.
LEMMA CreateTaskInv ==
  ASSUME HandsInv, NEW t \in Tasks, NEW h \in Hands \cup {Nil}, NEW run \in BOOLEAN, CreateTask(t, h, run)
  PROVE  HandsInv'
<1> DEFINE r == NewTask(h, run)
<1>1. /\ task[t] = Nil /\ ~(run /\ h # Nil) /\ OtherOwners(t, h) = {} /\ RecordEdit
      /\ task' = [task EXCEPT ![t] = r] /\ thread' = thread /\ asRead' = asRead
  BY DEF CreateTask
<1>2. recordEdits' = recordEdits + 1 /\ recordEdits' \in 1..MaxRecordEdits /\ recordEdits \in Nat
  BY <1>1, HandsAssumption DEF HandsInv, HandsTyped, RecordEdit
<1>3. r \in TaskRecord /\ r.rev = 1 /\ r.hand = h /\ r.run = run /\ r.superseded_by = Nil /\ r.status = "ready"
  BY <1>2, HandsAssumption DEF NewTask, TaskRecord, TaskStatuses, TaskTerminal
<1>4. task \in [Tasks -> TaskRecord \cup {Nil}] /\ Nil \notin TaskRecord /\ Nil \notin Tasks
  BY HandsAssumption DEF HandsInv, HandsTyped
<1> HIDE DEF r
<1>5. /\ task' \in [Tasks -> TaskRecord \cup {Nil}] /\ task'[t] = r /\ r # Nil
      /\ \A x \in Tasks : x # t => task'[x] = task[x]
      /\ \A x \in Tasks : task[x] # Nil => x # t
  BY <1>1, <1>3, <1>4
<1>6. HandsTyped' BY <1>1, <1>2, <1>5 DEF HandsInv, HandsTyped
<1>7. OneHand'
  <2> SUFFICES ASSUME NEW u \in Tasks, NEW v \in Tasks, u # v, Live(u)', Live(v)',
                      task'[u].hand # Nil, task'[u].hand = task'[v].hand
               PROVE  FALSE
    BY DEF OneHand
  <2>1. CASE u # t /\ v # t BY <1>5, <2>1 DEF HandsInv, OneHand, Live
  <2>2. CASE u = t BY <1>1, <1>3, <1>5, <2>2 DEF OtherOwners, Live
  <2>3. CASE v = t BY <1>1, <1>3, <1>5, <2>3 DEF OtherOwners, Live
  <2> QED BY <2>1, <2>2, <2>3
<1>8. FactoryHandClaimed' BY <1>1, <1>3, <1>4, <1>5 DEF HandsInv, FactoryHandClaimed, Made
<1>9. LiveFocus'
  <2>1. \A w \in Made(thread) : thread[w].focus # Nil /\ Live(thread[w].focus) => Live(thread[w].focus)'
    BY <1>1, <1>5 DEF Live, HandsInv, HandsTyped, ThreadRecord, Made
  <2> QED BY <1>1, <2>1 DEF HandsInv, LiveFocus, Focusable, Made
<1>10. RedirectsOrdered'
  <2>1. \A x, y \in Tasks : <<x, y>> \in TaskEdges' => <<x, y>> \in TaskEdges
    BY <1>3, <1>4, <1>5 DEF TaskEdges
  <2>2. Ordered(Tasks, TaskEdges') BY <2>1, OrderedLess DEF HandsInv, RedirectsOrdered
  <2>3. ThreadEdges' = ThreadEdges BY <1>1 DEF ThreadEdges
  <2> QED BY <1>1, <2>2, <2>3 DEF HandsInv, RedirectsOrdered, Made
<1>11. ReadsHold' BY <1>1, <1>5 DEF HandsInv, ReadsHold, HandsTyped, TaskReads
<1>12. RevisionsBounded'
  <2> SUFFICES ASSUME NEW x \in Tasks, task'[x] # Nil PROVE task'[x].rev <= recordEdits'
    BY <1>5 DEF RevisionsBounded, Made
  <2>1. CASE x = t BY <1>2, <1>3, <1>5, <2>1
  <2>2. CASE x # t
    <3>1. task'[x] = task[x] /\ task[x].rev <= recordEdits /\ task[x].rev \in Nat
      BY <1>4, <1>5, <2>2 DEF HandsInv, RevisionsBounded, Made, TaskRecord
    <3> QED BY <1>2, <3>1
  <2> QED BY <2>1, <2>2
<1> QED BY <1>6, <1>7, <1>8, <1>9, <1>10, <1>11, <1>12 DEF HandsInv

LEMMA UpdateTaskInv ==
  ASSUME HandsInv, NEW t \in Made(task), NEW s \in TaskStatuses, NEW h \in Hands \cup {Nil},
         NEW run \in BOOLEAN, NEW by \in Tasks \cup {Nil}, NEW blocked \in BOOLEAN,
         UpdateTask(t, s, h, run, by, blocked)
  PROVE  HandsInv'
<1> DEFINE wished == [task[t] EXCEPT !.status = s, !.hand = h, !.run = run,
                                     !.superseded_by = by, !.blocked = blocked]
<1>1. t \in Tasks /\ task[t] # Nil /\ task[t] \in TaskRecord BY DEF Made, HandsInv, HandsTyped
<1>2. wished \in TaskRecord /\ wished.rev = task[t].rev /\ wished.claim = task[t].claim
  BY <1>1 DEF TaskRecord
<1>3. WriteTask(t, wished) /\ thread' = thread /\ asRead' = asRead BY DEF UpdateTask
<1> HIDE DEF wished
<1> QED BY <1>1, <1>2, <1>3, WriteTaskIs, WrittenInv

\* A dispatch writes the record it read, with some fields changed.
LEMMA WriteDispatchInv ==
  ASSUME HandsInv, NEW d \in Dispatches, asRead[d] # Nil, NEW wished \in TaskRecord,
         wished.rev = asRead[d].rec.rev, wished.claim = asRead[d].rec.claim \/ wished.hand = Nil,
         WriteDispatch(d, wished)
  PROVE  HandsInv'
<1> DEFINE t == asRead[d].id
<1>1. /\ task[t].rev = asRead[d].rec.rev /\ WriteTask(t, wished)
      /\ asRead' = [asRead EXCEPT ![d] = Nil] /\ thread' = thread
  BY DEF WriteDispatch
<1>2. t \in Tasks /\ task[t] # Nil /\ asRead[d].rec = task[t]
  BY <1>1 DEF HandsInv, HandsTyped, TaskReads, ReadsHold
<1> HIDE DEF t
<1> QED BY <1>1, <1>2, WriteTaskIs, WrittenInv

LEMMA DispatchInv ==
  ASSUME HandsInv, NEW d \in Dispatches,
         \/ ClaimTask(d) \/ \E h \in Hands : BindHand(d, h)
         \/ ClearHand(d) \/ WriteBlocker(d) \/ ClearBlocker(d)
  PROVE  HandsInv'
<1> DEFINE r == asRead[d].rec
<1>1. asRead[d] # Nil
  <2>1. \A h \in Hands : BindHand(d, h) => Claims(d) BY Zenon DEF BindHand
  <2>2. ClearHand(d) \/ WriteBlocker(d) \/ ClearBlocker(d) => Claims(d)
    BY Zenon DEF ClearHand, WriteBlocker, ClearBlocker
  <2>3. ClaimTask(d) => asRead[d] # Nil BY Zenon DEF ClaimTask
  <2> QED BY <2>1, <2>2, <2>3 DEF Claims
<1>2. r \in TaskRecord BY <1>1 DEF HandsInv, HandsTyped, TaskReads
<1> HIDE DEF r
<1>3. CASE ClaimTask(d)
  <2> DEFINE wished == [r EXCEPT !.claim = <<d, r.rev>>]
  <2>1. WriteDispatch(d, wished) /\ r.hand = Nil BY <1>3 DEF ClaimTask, r
  <2>2. wished \in TaskRecord /\ wished.rev = r.rev /\ wished.hand = Nil
    BY <1>2, <2>1 DEF TaskRecord
  <2> HIDE DEF wished
  <2> QED BY <1>1, <2>1, <2>2, WriteDispatchInv DEF r
<1>4. ASSUME NEW h \in Hands, BindHand(d, h) PROVE HandsInv'
  <2> DEFINE wished == [r EXCEPT !.status = "doing", !.hand = h]
  <2>1. WriteDispatch(d, wished) BY <1>4, Zenon DEF BindHand, r
  <2>2. wished \in TaskRecord /\ wished.rev = r.rev /\ wished.claim = r.claim
    BY <1>2 DEF TaskRecord, TaskStatuses
  <2> HIDE DEF wished
  <2> QED BY <1>1, <2>1, <2>2, WriteDispatchInv DEF r
<1>5. CASE ClearHand(d)
  <2> DEFINE wished == [r EXCEPT !.hand = Nil]
  <2>1. WriteDispatch(d, wished) BY <1>5 DEF ClearHand, r
  <2>2. wished \in TaskRecord /\ wished.rev = r.rev /\ wished.claim = r.claim
    BY <1>2 DEF TaskRecord
  <2> HIDE DEF wished
  <2> QED BY <1>1, <2>1, <2>2, WriteDispatchInv DEF r
<1>6. CASE WriteBlocker(d)
  <2> DEFINE wished == [r EXCEPT !.status = "waiting", !.blocked = TRUE, !.hand = Nil]
  <2>1. WriteDispatch(d, wished) BY <1>6 DEF WriteBlocker, r
  <2>2. wished \in TaskRecord /\ wished.rev = r.rev /\ wished.claim = r.claim
    BY <1>2 DEF TaskRecord, TaskStatuses
  <2> HIDE DEF wished
  <2> QED BY <1>1, <2>1, <2>2, WriteDispatchInv DEF r
<1>7. CASE ClearBlocker(d)
  <2> DEFINE wished == [r EXCEPT !.status = "ready", !.blocked = FALSE, !.hand = Nil, !.claim = Nil]
  <2>1. WriteDispatch(d, wished) BY <1>7 DEF ClearBlocker, r
  <2>2. wished \in TaskRecord /\ wished.rev = r.rev /\ wished.hand = Nil
    BY <1>2 DEF TaskRecord, TaskStatuses
  <2> HIDE DEF wished
  <2> QED BY <1>1, <2>1, <2>2, WriteDispatchInv DEF r
<1> QED BY <1>3, <1>4, <1>5, <1>6, <1>7

LEMMA ReadInv ==
  ASSUME HandsInv, NEW d \in Dispatches, NEW t \in Tasks, Read(d, t)
  PROVE  HandsInv'
<1> DEFINE new == [id |-> t, rec |-> task[t]]
<1>1. /\ task[t] # Nil /\ asRead' = [asRead EXCEPT ![d] = new]
      /\ task' = task /\ thread' = thread /\ recordEdits' = recordEdits
  BY DEF Read
<1>2. new \in TaskReads /\ new.id = t /\ new.rec = task[t]
  BY <1>1 DEF HandsInv, HandsTyped, TaskReads
<1> HIDE DEF new
<1>3. asRead' \in [Dispatches -> TaskReads \cup {Nil}] /\ asRead'[d] = new
      /\ \A e \in Dispatches : e # d => asRead'[e] = asRead[e]
  BY <1>1, <1>2 DEF HandsInv, HandsTyped
<1>4. task[t].rev \in Nat BY <1>1 DEF HandsInv, HandsTyped, TaskRecord
<1>5. ReadsHold' BY <1>1, <1>2, <1>3, <1>4 DEF HandsInv, ReadsHold
<1>6. TaskEdges' = TaskEdges /\ ThreadEdges' = ThreadEdges BY <1>1 DEF TaskEdges, ThreadEdges
<1>7. OneHand' /\ FactoryHandClaimed' /\ RevisionsBounded' /\ LiveFocus'
  BY <1>1 DEF HandsInv, OneHand, FactoryHandClaimed, RevisionsBounded, LiveFocus, Focusable, Live, Made
<1>8. HandsTyped' BY <1>1, <1>3 DEF HandsInv, HandsTyped
<1>9. RedirectsOrdered' BY <1>1, <1>6 DEF HandsInv, RedirectsOrdered, Made
<1> QED BY <1>5, <1>7, <1>8, <1>9 DEF HandsInv

\* What is left to show of a step that only writes WorkThreads.
LEMMA ThreadStepInv ==
  ASSUME HandsInv, task' = task, asRead' = asRead,
         recordEdits' = recordEdits \/ RecordEdit,
         thread' \in [Threads -> ThreadRecord \cup {Nil}],
         LiveFocus', Ordered(Threads, ThreadEdges'),
         \A w \in Threads : thread'[w] # Nil /\ thread'[w].status = "superseded" =>
            thread'[w].superseded_by \in Threads /\ thread'[thread'[w].superseded_by] # Nil
  PROVE  HandsInv'
<1>1. recordEdits \in Nat /\ recordEdits' \in 0..MaxRecordEdits /\ recordEdits' >= recordEdits
  BY HandsAssumption DEF HandsInv, HandsTyped, RecordEdit
<1>2. HandsTyped' BY <1>1 DEF HandsInv, HandsTyped
<1>3. OneHand' /\ FactoryHandClaimed' /\ ReadsHold'
  BY DEF HandsInv, OneHand, FactoryHandClaimed, ReadsHold, Live, Made
<1>4. RevisionsBounded'
  <2> SUFFICES ASSUME NEW x \in Tasks, task[x] # Nil PROVE task[x].rev <= recordEdits'
    BY DEF RevisionsBounded, Made, HandsInv, HandsTyped
  <2>1. task[x].rev <= recordEdits /\ task[x].rev \in Nat
    BY DEF HandsInv, HandsTyped, TaskRecord, RevisionsBounded, Made
  <2> QED BY <1>1, <2>1
<1>5. TaskEdges' = TaskEdges BY DEF TaskEdges
<1>6. RedirectsOrdered' BY <1>2, <1>5 DEF HandsInv, RedirectsOrdered, Made, HandsTyped
<1> QED BY <1>2, <1>3, <1>4, <1>6 DEF HandsInv

\* A write of one WorkThread that is not superseded and does not become so.
LEMMA ThreadWriteInv ==
  ASSUME HandsInv, NEW w \in Threads, thread[w] # Nil => thread[w].status # "superseded",
         NEW new \in ThreadRecord, new.status # "superseded",
         new.status \notin ThreadTerminal => Focusable(new.focus, new.members),
         thread' = [thread EXCEPT ![w] = new], task' = task, asRead' = asRead, RecordEdit
  PROVE  HandsInv'
<1>1. /\ thread \in [Threads -> ThreadRecord \cup {Nil}] /\ Nil \notin ThreadRecord
      /\ thread' \in [Threads -> ThreadRecord \cup {Nil}]
      /\ thread'[w] = new /\ new # Nil
      /\ \A x \in Threads : x # w => thread'[x] = thread[x]
  BY HandsAssumption DEF HandsInv, HandsTyped
<1>2. \A x, y \in Threads : <<x, y>> \in ThreadEdges' => <<x, y>> \in ThreadEdges
  BY <1>1 DEF ThreadEdges
<1>3. Ordered(Threads, ThreadEdges') BY <1>2, OrderedLess DEF HandsInv, RedirectsOrdered
<1>4. ASSUME NEW x \in Threads, thread'[x] # Nil, thread'[x].status = "superseded"
      PROVE  thread'[x].superseded_by \in Threads /\ thread'[thread'[x].superseded_by] # Nil
  <2>1. x # w /\ thread'[x] = thread[x] BY <1>1, <1>4
  <2>2. thread[x].superseded_by \in Threads /\ thread[thread[x].superseded_by] # Nil
    BY <1>1, <1>4, <2>1 DEF HandsInv, RedirectsOrdered, Made
  <2> QED BY <1>1, <2>1, <2>2
<1>5. LiveFocus'
  <2> SUFFICES ASSUME NEW x \in Threads, thread'[x] # Nil, thread'[x].status \notin ThreadTerminal,
                      thread'[x].focus # Nil
               PROVE  thread'[x].focus \in thread'[x].members /\ Live(thread[x].focus)'
    BY <1>1 DEF LiveFocus, Focusable, Made
  <2>1. CASE x = w BY <1>1, <2>1 DEF Focusable, Live
  <2>2. CASE x # w BY <1>1, <2>2 DEF HandsInv, LiveFocus, Focusable, Made, Live
  <2> QED BY <2>1, <2>2
<1> QED BY <1>1, <1>3, <1>4, <1>5, ThreadStepInv

LEMMA CreateThreadInv ==
  ASSUME HandsInv, NEW w \in Threads, NEW members \in SUBSET Tasks, NEW focus \in Tasks \cup {Nil},
         CreateThread(w, members, focus)
  PROVE  HandsInv'
<1> DEFINE new == NewThread(members, focus)
<1>1. /\ thread[w] = Nil /\ Focusable(focus, members) /\ RecordEdit
      /\ thread' = [thread EXCEPT ![w] = new] /\ task' = task /\ asRead' = asRead
  BY DEF CreateThread
<1>2. /\ new \in ThreadRecord /\ new.status = "active" /\ new.focus = focus /\ new.members = members
  BY DEF NewThread, ThreadRecord, ThreadTerminal
<1> HIDE DEF new
<1> QED BY <1>1, <1>2, ThreadWriteInv

\* What of a WorkThread its writes change.
LEMMA AcceptingIs ==
  ASSUME NEW r \in ThreadRecord, NEW members \in SUBSET Tasks,
         NEW marker \in Threads \X Nat \X BOOLEAN
  PROVE  /\ Accepting(r, members, marker) \in ThreadRecord
         /\ Accepting(r, members, marker).status = r.status
         /\ Accepting(r, members, marker).focus = r.focus
         /\ Accepting(r, members, marker).members = members
<1>1. r.rev + 1 \in Nat BY DEF ThreadRecord
<1>2. r.accepted \cup {marker} \in SUBSET (Threads \X Nat \X BOOLEAN) BY DEF ThreadRecord
<1>3. Accepting(r, members, marker) \in ThreadRecord BY <1>1, <1>2 DEF Accepting, ThreadRecord
<1> QED BY <1>3 DEF Accepting, ThreadRecord

LEMMA RedirectedIs ==
  ASSUME NEW r \in ThreadRecord, NEW t \in Threads
  PROVE  /\ Redirected(r, t) \in ThreadRecord
         /\ Redirected(r, t).status = "superseded" /\ Redirected(r, t).superseded_by = t
<1>1. r.rev + 1 \in Nat BY DEF ThreadRecord
<1>2. "superseded" \in {"active", "waiting"} \cup ThreadTerminal BY DEF ThreadTerminal
<1>3. Redirected(r, t) \in ThreadRecord BY <1>1, <1>2 DEF Redirected, ThreadRecord
<1> QED BY <1>3 DEF Redirected, ThreadRecord

LEMMA UpdateThreadInv ==
  ASSUME HandsInv, NEW w \in Threads, NEW s \in {"active", "waiting", "resolved"},
         NEW members \in SUBSET Tasks, NEW focus \in Tasks \cup {Nil},
         UpdateThread(w, s, members, focus)
  PROVE  HandsInv'
<1> DEFINE new == Rewritten(thread[w], s, members, focus)
<1>1. /\ thread[w] # Nil /\ thread[w].status # "superseded" /\ Focusable(focus, members) /\ RecordEdit
      /\ task' = task /\ asRead' = asRead
  BY DEF UpdateThread
<1>2. thread' = [thread EXCEPT ![w] = new] BY DEF UpdateThread
<1>3. thread[w] \in ThreadRecord BY <1>1 DEF HandsInv, HandsTyped
<1>4. new \in ThreadRecord /\ new.status = s /\ new.focus = focus /\ new.members = members
  <2>1. PICK r \in ThreadRecord : r = thread[w] BY <1>3
  <2>2. r.rev + 1 \in Nat /\ s \in {"active", "waiting"} \cup ThreadTerminal
    BY DEF ThreadRecord, ThreadTerminal
  <2>3. Rewritten(r, s, members, focus) \in ThreadRecord BY <2>2 DEF Rewritten, ThreadRecord
  <2>4. /\ Rewritten(r, s, members, focus).status = s
        /\ Rewritten(r, s, members, focus).focus = focus
        /\ Rewritten(r, s, members, focus).members = members
    BY DEF Rewritten, ThreadRecord
  <2> QED BY <2>1, <2>3, <2>4
<1> HIDE DEF new
<1> QED BY <1>1, <1>2, <1>4, ThreadWriteInv

LEMMA AcceptDuplicateInv ==
  ASSUME HandsInv, NEW s \in Threads, NEW t \in Threads, NEW absorb \in BOOLEAN,
         AcceptDuplicate(s, t, absorb)
  PROVE  HandsInv'
<1> DEFINE members == thread[t].members \cup (IF absorb THEN thread[s].members ELSE {})
           marker == <<s, thread[s].rev, absorb>>
           new == Accepting(thread[t], members, marker)
<1>1. /\ thread[s] # Nil /\ thread[t] # Nil /\ thread[t].status # "superseded" /\ RecordEdit
      /\ task' = task /\ asRead' = asRead
  BY DEF AcceptDuplicate, Canonical
<1>2. thread' = [thread EXCEPT ![t] = new] BY DEF AcceptDuplicate
<1>3. thread[s] \in ThreadRecord /\ thread[t] \in ThreadRecord BY <1>1 DEF HandsInv, HandsTyped
<1>4. members \in SUBSET Tasks /\ thread[t].members \in SUBSET members BY <1>3 DEF ThreadRecord
<1>5. marker \in Threads \X Nat \X BOOLEAN BY <1>3 DEF ThreadRecord
<1> HIDE DEF members, marker
<1>6. /\ new \in ThreadRecord /\ new.status = thread[t].status
      /\ new.focus = thread[t].focus /\ new.members = members
  BY <1>3, <1>4, <1>5, AcceptingIs
<1> HIDE DEF new
<1>7. new.status \notin ThreadTerminal => Focusable(new.focus, new.members)
  <2>1. new.status \notin ThreadTerminal => Focusable(thread[t].focus, thread[t].members)
    BY <1>1, <1>6 DEF HandsInv, LiveFocus, Made, HandsTyped
  <2> QED BY <1>4, <1>6, <2>1 DEF Focusable
<1> QED BY <1>1, <1>2, <1>6, <1>7, ThreadWriteInv

\* A WorkThread that is not superseded leads nowhere: a redirect to it makes
\* no cycle.
LEMMA RedirectDuplicateInv ==
  ASSUME HandsInv, NEW s \in Threads, NEW t \in Threads, NEW absorb \in BOOLEAN,
         RedirectDuplicate(s, t, absorb)
  PROVE  HandsInv'
<1> DEFINE new == Redirected(thread[s], t)
<1>1. /\ s # t /\ thread[s] # Nil /\ thread[t] # Nil /\ thread[t].status # "superseded"
      /\ task' = task /\ asRead' = asRead /\ recordEdits' = recordEdits
  BY DEF RedirectDuplicate, Canonical
<1>2. thread' = [thread EXCEPT ![s] = new] BY DEF RedirectDuplicate
<1>3. thread[s] \in ThreadRecord BY <1>1 DEF HandsInv, HandsTyped
<1>4. new \in ThreadRecord /\ new.status = "superseded" /\ new.superseded_by = t
  BY <1>3, RedirectedIs
<1> HIDE DEF new
<1>5. /\ thread \in [Threads -> ThreadRecord \cup {Nil}] /\ Nil \notin ThreadRecord
      /\ thread' \in [Threads -> ThreadRecord \cup {Nil}]
      /\ thread'[s] = new /\ new # Nil
      /\ \A x \in Threads : x # s => thread'[x] = thread[x]
  BY <1>2, <1>4, HandsAssumption DEF HandsInv, HandsTyped
<1>6. \A x, y \in Threads : <<x, y>> \in ThreadEdges' => <<x, y>> \in ThreadEdges \/ (x = s /\ y = t)
  BY <1>4, <1>5 DEF ThreadEdges
<1> DEFINE R == {t}
<1>7. \A x, y \in Threads : x \in R /\ <<x, y>> \in ThreadEdges => y \in R
  BY <1>1 DEF ThreadEdges
<1>8. Ordered(Threads, ThreadEdges')
  <2>1. IsFiniteSet(Threads) /\ Ordered(Threads, ThreadEdges)
    BY HandsAssumption DEF HandsInv, RedirectsOrdered
  <2>2. R \in SUBSET Threads /\ s \notin R /\ t \in R BY <1>1
  <2> HIDE DEF R
  <2> QED BY <1>6, <1>7, <2>1, <2>2, OrderedJoin
<1>9. ASSUME NEW x \in Threads, thread'[x] # Nil, thread'[x].status = "superseded"
      PROVE  thread'[x].superseded_by \in Threads /\ thread'[thread'[x].superseded_by] # Nil
  <2>1. CASE x = s BY <1>1, <1>4, <1>5, <2>1
  <2>2. CASE x # s
    <3>1. thread'[x] = thread[x] /\ thread[x].superseded_by \in Threads
          /\ thread[thread[x].superseded_by] # Nil
      BY <1>5, <1>9, <2>2 DEF HandsInv, RedirectsOrdered, Made
    <3> QED BY <1>5, <3>1
  <2> QED BY <2>1, <2>2
<1>10. LiveFocus'
  <2> SUFFICES ASSUME NEW x \in Threads, thread'[x] # Nil, thread'[x].status \notin ThreadTerminal,
                      thread'[x].focus # Nil
               PROVE  thread'[x].focus \in thread'[x].members /\ Live(thread[x].focus)'
    BY <1>5 DEF LiveFocus, Focusable, Made
  <2>1. x # s BY <1>4, <1>5 DEF ThreadTerminal
  <2> QED BY <1>1, <1>5, <2>1 DEF HandsInv, LiveFocus, Focusable, Made, Live
<1> QED BY <1>1, <1>5, <1>8, <1>9, <1>10, ThreadStepInv

LEMMA HandsInitInv == HandsInit => HandsInv
<1> SUFFICES ASSUME HandsInit PROVE HandsInv
  OBVIOUS
<1>1. HandsTyped BY HandsAssumption DEF HandsInit, HandsTyped
<1>2. Made(task) = {} /\ Made(thread) = {} BY DEF HandsInit, Made
<1>3. OneHand /\ FactoryHandClaimed /\ LiveFocus /\ RevisionsBounded
  BY <1>2 DEF HandsInit, OneHand, FactoryHandClaimed, LiveFocus, RevisionsBounded, Live
<1>4. ReadsHold BY DEF HandsInit, ReadsHold
<1>5. TaskEdges = {} /\ ThreadEdges = {} BY DEF HandsInit, TaskEdges, ThreadEdges
<1>6. Ordered(Tasks, {}) /\ Ordered(Threads, {})
  <2>1. [x \in Tasks |-> 0] \in [Tasks -> Nat] /\ [x \in Threads |-> 0] \in [Threads -> Nat]
    OBVIOUS
  <2> QED BY <2>1 DEF Ordered
<1>7. RedirectsOrdered BY <1>2, <1>5, <1>6 DEF RedirectsOrdered
<1> QED BY <1>1, <1>3, <1>4, <1>7 DEF HandsInv

LEMMA HandsStutterInv ==
  ASSUME HandsInv, UNCHANGED handsVars
  PROVE  HandsInv'
<1>1. task' = task /\ thread' = thread /\ asRead' = asRead /\ recordEdits' = recordEdits
  BY DEF handsVars
<1>2. TaskEdges' = TaskEdges /\ ThreadEdges' = ThreadEdges BY <1>1 DEF TaskEdges, ThreadEdges
<1>3. HandsTyped' /\ OneHand' /\ FactoryHandClaimed' /\ LiveFocus'
  BY <1>1 DEF HandsInv, HandsTyped, OneHand, FactoryHandClaimed, LiveFocus, Focusable, Live, Made
<1>4. ReadsHold' /\ RevisionsBounded' /\ RedirectsOrdered'
  BY <1>1, <1>2 DEF HandsInv, ReadsHold, RevisionsBounded, RedirectsOrdered, Made
<1> QED BY <1>3, <1>4 DEF HandsInv

LEMMA HandsNextInv == HandsInv /\ [HandsNext]_handsVars => HandsInv'
<1> SUFFICES ASSUME HandsInv, [HandsNext]_handsVars PROVE HandsInv'
  OBVIOUS
<1>1. ASSUME NEW t \in Tasks, NEW h \in Hands \cup {Nil}, NEW run \in BOOLEAN, CreateTask(t, h, run)
      PROVE  HandsInv'
  BY <1>1, CreateTaskInv
<1>2. ASSUME NEW t \in Made(task), NEW h \in Hands \cup {Nil}, NEW run \in BOOLEAN, NEW s \in TaskStatuses,
             NEW by \in IF s = "superseded" THEN Tasks ELSE {Nil},
             NEW blocked \in IF s = "waiting" THEN BOOLEAN ELSE {FALSE},
             UpdateTask(t, s, h, run, by, blocked)
      PROVE  HandsInv'
  <2>1. by \in Tasks \cup {Nil} /\ blocked \in BOOLEAN OBVIOUS
  <2> QED BY <1>2, <2>1, UpdateTaskInv
<1>3. ASSUME NEW d \in Dispatches,
             \/ \E t \in Tasks : Read(d, t)
             \/ ClaimTask(d) \/ \E h \in Hands : BindHand(d, h)
             \/ ClearHand(d) \/ WriteBlocker(d) \/ ClearBlocker(d)
      PROVE  HandsInv'
  BY <1>3, ReadInv, DispatchInv
<1>4. ASSUME NEW w \in Threads, NEW m \in SUBSET Tasks, NEW f \in Tasks \cup {Nil},
             \/ CreateThread(w, m, f)
             \/ \E s \in {"active", "waiting", "resolved"} : UpdateThread(w, s, m, f)
      PROVE  HandsInv'
  BY <1>4, CreateThreadInv, UpdateThreadInv
<1>5. ASSUME NEW s \in Threads, NEW t \in Threads, NEW absorb \in BOOLEAN,
             AcceptDuplicate(s, t, absorb) \/ RedirectDuplicate(s, t, absorb)
      PROVE  HandsInv'
  BY <1>5, AcceptDuplicateInv, RedirectDuplicateInv
<1> QED BY <1>1, <1>2, <1>3, <1>4, <1>5, HandsStutterInv DEF HandsNext

\* A WorkThread that is still superseded after k redirects has climbed k ranks.
LEMMA ThreadsEnd ==
  ASSUME HandsInv, NEW w \in Made(thread)
  PROVE  LET end == Walk(Redirect, w, Cardinality(Threads))[Cardinality(Threads)]
         IN  thread[end] # Nil /\ thread[end].status # "superseded"
<1> DEFINE N == Cardinality(Threads)
           at == Walk(Redirect, w, N)
<1>1. IsFiniteSet(Threads) /\ Ordered(Threads, ThreadEdges) /\ w \in Threads /\ thread[w] # Nil
  BY HandsAssumption DEF HandsInv, RedirectsOrdered, HandsTyped, Made
<1>2. PICK rank \in [Threads -> Nat] :
        \A u, v \in Threads : rank[u] < N /\ (<<u, v>> \in ThreadEdges => rank[u] < rank[v])
  BY <1>1, RankBelow
<1>3. N \in Nat BY <1>1, FS_CardinalityType
<1>4. at[0] = w /\ \A k \in 1..N : at[k] = Redirect[at[k - 1]] BY <1>3, WalkIs
<1> HIDE DEF at, N
<1> DEFINE Superseded(x) == thread[x].status = "superseded"
           Good(k) == /\ at[k] \in Threads /\ thread[at[k]] # Nil
                      /\ Superseded(at[k]) => rank[at[k]] >= k
           T == {k \in 0..N : ~Good(k)}
<1>5. ASSUME T # {} PROVE FALSE
  <2>1. PICK k \in T : \A m \in T : k <= m
    <3>1. T \in SUBSET Nat BY <1>3
    <3> HIDE DEF T
    <3> QED BY <1>5, <3>1, HasLeast
  <2>2. k \in 0..N /\ ~Good(k) OBVIOUS
  <2>3. k # 0 BY <1>1, <1>2, <1>4, <2>2
  <2>4. k \in 1..N /\ k - 1 \in 0..N /\ k - 1 \notin T BY <1>3, <2>1, <2>2, <2>3
  <2>5. Good(k - 1) BY <2>4
  <2> DEFINE x == at[k - 1]
  <2>6. at[k] = Redirect[x] /\ x \in Threads /\ thread[x] # Nil BY <1>4, <2>4, <2>5
  <2>7. rank[x] \in Nat /\ (Superseded(x) => rank[x] >= k - 1) BY <1>2, <2>5, <2>6
  <2> HIDE DEF x
  <2>8. CASE ~Superseded(x)
    <3>1. at[k] = x BY <2>6, <2>8 DEF Redirect
    <3> QED BY <2>2, <2>6, <2>8, <3>1
  <2>9. CASE Superseded(x)
    <3>1. at[k] = thread[x].superseded_by BY <2>6, <2>9 DEF Redirect
    <3>2. at[k] \in Threads /\ thread[at[k]] # Nil
      BY <2>6, <2>9, <3>1 DEF HandsInv, RedirectsOrdered, HandsTyped, Made
    <3>3. <<x, at[k]>> \in ThreadEdges BY <2>6, <2>9, <3>1, <3>2 DEF ThreadEdges
    <3>4. rank[x] < rank[at[k]] /\ rank[at[k]] \in Nat BY <1>2, <2>6, <3>2, <3>3
    <3>5. rank[at[k]] >= k BY <2>4, <2>7, <2>9, <3>4
    <3> QED BY <2>2, <3>2, <3>5
  <2> QED BY <2>8, <2>9
<1>6. Good(N)
  <2>1. N \in 0..N /\ N \notin T BY <1>3, <1>5
  <2> QED BY <2>1
<1>7. rank[at[N]] < N /\ rank[at[N]] \in Nat BY <1>2, <1>6
<1>8. ~Superseded(at[N]) BY <1>3, <1>6, <1>7
<1> QED BY <1>6, <1>8 DEF at, N

LEMMA HandsInvHonest == HandsInv => HandsHonest
<1> SUFFICES ASSUME HandsInv PROVE HandsHonest
  OBVIOUS
<1>1. \A t \in Made(task) : t \notin Successors(t)
  BY TasksEnd DEF HandsInv, HandsTyped, RedirectsOrdered, Made
<1>2. RedirectsEnd BY <1>1, ThreadsEnd DEF RedirectsEnd
<1> QED BY <1>2 DEF HandsInv, HandsHonest

(* The task side of the vault is sound, whatever the number of tasks, hands,
   WorkThreads and dispatches: one live task owns a hand although a transfer
   is two writes, a hand of an agent-run task was claimed, focuses are live
   members, and every chain of redirects ends. *)
THEOREM HandsAreHonest == HandsSpec => []HandsHonest
<1>1. HandsSpec => []HandsInv BY HandsInitInv, HandsNextInv, PTL DEF HandsSpec
<1> QED BY <1>1, HandsInvHonest, PTL

----------------------------------------
(* Entities and the links that name them. *)

LEMMA WalkIn ==
  ASSUME NEW S, NEW next \in [S -> S], NEW x \in S, NEW n \in Nat
  PROVE  \A k \in 0..n : Walk(next, x, n)[k] \in S
<1> DEFINE at == Walk(next, x, n)
           T == {k \in 0..n : at[k] \notin S}
<1>1. at[0] = x /\ \A k \in 1..n : at[k] = next[at[k - 1]] BY WalkIs
<1> HIDE DEF at
<1>2. ASSUME T # {} PROVE FALSE
  <2>1. PICK k \in T : \A m \in T : k <= m
    <3>1. T \in SUBSET Nat OBVIOUS
    <3> HIDE DEF T
    <3> QED BY <1>2, <3>1, HasLeast
  <2>2. k \in 0..n /\ at[k] \notin S /\ k # 0 BY <1>1
  <2>3. k \in 1..n /\ k - 1 \in 0..n /\ k - 1 \notin T BY <2>1, <2>2
  <2> QED BY <1>1, <2>2, <2>3
<1> QED BY <1>2 DEF at

\* Who comes to a record that leads nowhere stays there.
LEMMA WalkStays ==
  ASSUME NEW next, NEW x, NEW n \in Nat, NEW y, next[y] = y,
         NEW i \in 0..n, Walk(next, x, n)[i] = y
  PROVE  \A k \in i..n : Walk(next, x, n)[k] = y
<1> DEFINE at == Walk(next, x, n)
           T == {k \in i..n : at[k] # y}
<1>1. \A k \in 1..n : at[k] = next[at[k - 1]] BY WalkIs
<1>2. at[i] = y OBVIOUS
<1> HIDE DEF at
<1>3. ASSUME T # {} PROVE FALSE
  <2>1. PICK k \in T : \A m \in T : k <= m
    <3>1. T \in SUBSET Nat OBVIOUS
    <3> HIDE DEF T
    <3> QED BY <1>3, <3>1, HasLeast
  <2>2. k \in i..n /\ at[k] # y /\ k # i BY <1>2
  <2>3. k \in 1..n /\ k - 1 \in i..n /\ k - 1 \notin T BY <2>1, <2>2
  <2> QED BY <1>1, <2>2, <2>3
<1> QED BY <1>3 DEF at

Moves(S, next) == {p \in S \X S : next[p[1]] = p[2] /\ p[1] # p[2]}

\* As many steps as there are other records reach the end of every chain.
LEMMA WalkEnds ==
  ASSUME NEW S, IsFiniteSet(S), NEW next \in [S -> S], Ordered(S, Moves(S, next)),
         NEW n \in Nat, Cardinality(S) <= n + 1, NEW x \in S
  PROVE  next[Walk(next, x, n)[n]] = Walk(next, x, n)[n]
<1> DEFINE at == Walk(next, x, n)
<1>1. PICK rank \in [S -> Nat] :
        \A u, v \in S : rank[u] < Cardinality(S) /\ (<<u, v>> \in Moves(S, next) => rank[u] < rank[v])
  BY RankBelow
<1>2. at[0] = x /\ \A k \in 1..n : at[k] = next[at[k - 1]] BY WalkIs
<1>3. \A k \in 0..n : at[k] \in S BY WalkIn
<1>4. Cardinality(S) \in Nat BY FS_CardinalityType
<1> HIDE DEF at
<1> DEFINE Good(k) == next[at[k]] = at[k] \/ rank[at[k]] >= k
           T == {k \in 0..n : ~Good(k)}
<1>5. ASSUME T # {} PROVE FALSE
  <2>1. PICK k \in T : \A m \in T : k <= m
    <3>1. T \in SUBSET Nat OBVIOUS
    <3> HIDE DEF T
    <3> QED BY <1>5, <3>1, HasLeast
  <2>2. k \in 0..n /\ ~Good(k) OBVIOUS
  <2>3. rank[at[k]] \in Nat BY <1>1, <1>3, <2>2
  <2>4. k # 0 BY <2>2, <2>3
  <2>5. k \in 1..n /\ k - 1 \in 0..n /\ k - 1 \notin T BY <2>1, <2>2, <2>4
  <2>6. Good(k - 1) /\ at[k] = next[at[k - 1]] /\ at[k - 1] \in S /\ at[k] \in S
    BY <1>2, <1>3, <2>5
  <2>7. CASE next[at[k - 1]] = at[k - 1] BY <2>2, <2>6, <2>7
  <2>8. CASE next[at[k - 1]] # at[k - 1]
    <3>1. rank[at[k - 1]] >= k - 1 /\ rank[at[k - 1]] \in Nat BY <1>1, <2>6, <2>8
    <3>2. <<at[k - 1], at[k]>> \in Moves(S, next) BY <2>6, <2>8 DEF Moves
    <3>3. rank[at[k - 1]] < rank[at[k]] BY <1>1, <2>6, <3>2
    <3>4. rank[at[k]] >= k BY <2>3, <2>5, <3>1, <3>3
    <3> QED BY <2>2, <3>4
  <2> QED BY <2>7, <2>8
<1>6. Good(n) /\ at[n] \in S
  <2>1. n \in 0..n /\ n \notin T BY <1>5
  <2> QED BY <1>3, <2>1
<1>7. ASSUME next[at[n]] # at[n] PROVE FALSE
  <2>1. rank[at[n]] >= n /\ next[at[n]] \in S BY <1>6, <1>7
  <2>2. <<at[n], next[at[n]]>> \in Moves(S, next) BY <1>6, <1>7, <2>1 DEF Moves
  <2>3. /\ rank[at[n]] < rank[next[at[n]]] /\ rank[next[at[n]]] < Cardinality(S)
        /\ rank[at[n]] \in Nat /\ rank[next[at[n]]] \in Nat
    BY <1>1, <1>6, <2>1, <2>2
  <2> QED BY <1>4, <2>1, <2>3
<1> QED BY <1>7 DEF at

\* A new redirect from s to t: who came to s comes by s to t, and nobody else
\* is led elsewhere.
LEMMA WalkJoin ==
  ASSUME NEW S, NEW next \in [S -> S], NEW s \in S, NEW t \in S, s # t, next[s] = s, next[t] = t,
         NEW more, more[s] = t, \A y \in S : y # s => more[y] = next[y], NEW x \in S, NEW n \in Nat
  PROVE  \A k \in 0..n :
           \/ Walk(more, x, n)[k] = Walk(next, x, n)[k]
           \/ /\ Walk(next, x, n)[k] = s /\ Walk(more, x, n)[k] = t
              /\ \E i \in 0..n : Walk(more, x, n)[i] = s
<1> DEFINE at == Walk(next, x, n)
           new == Walk(more, x, n)
           Good(k) == new[k] = at[k] \/ (at[k] = s /\ new[k] = t /\ \E i \in 0..n : new[i] = s)
           T == {k \in 0..n : ~Good(k)}
<1>1. at[0] = x /\ \A k \in 1..n : at[k] = next[at[k - 1]] BY WalkIs
<1>2. new[0] = x /\ \A k \in 1..n : new[k] = more[new[k - 1]]
  <2>1. \A f : Walk(f, x, n)[0] = x /\ \A k \in 1..n : Walk(f, x, n)[k] = f[Walk(f, x, n)[k - 1]]
    BY WalkIs
  <2> QED BY <2>1, Zenon
<1>3. \A k \in 0..n : at[k] \in S BY WalkIn
<1>4. more[s] = t /\ more[t] = t /\ \A y \in S : y # s => more[y] = next[y] OBVIOUS
<1> HIDE DEF at, new
<1>5. ASSUME T # {} PROVE FALSE
  <2>1. PICK k \in T : \A m \in T : k <= m
    <3>1. T \in SUBSET Nat OBVIOUS
    <3> HIDE DEF T
    <3> QED BY <1>5, <3>1, HasLeast
  <2>2. k \in 0..n /\ ~Good(k) OBVIOUS
  <2>3. k # 0 BY <1>1, <1>2, <2>2
  <2>4. k \in 1..n /\ k - 1 \in 0..n /\ k - 1 \notin T BY <2>1, <2>2, <2>3
  <2>5. Good(k - 1) /\ at[k] = next[at[k - 1]] /\ new[k] = more[new[k - 1]] /\ at[k - 1] \in S
    BY <1>1, <1>2, <1>3, <2>4
  <2>6. CASE new[k - 1] = at[k - 1] /\ at[k - 1] # s BY <1>4, <2>2, <2>5, <2>6
  <2>7. CASE new[k - 1] = at[k - 1] /\ at[k - 1] = s BY <1>4, <2>2, <2>4, <2>5, <2>7
  <2>8. CASE at[k - 1] = s /\ new[k - 1] = t /\ \E i \in 0..n : new[i] = s
    BY <1>4, <2>2, <2>5, <2>8
  <2> QED BY <2>5, <2>6, <2>7, <2>8
<1> QED BY <1>5 DEF at, new

\* Redirects lead to records that are there, and have no cycle.
GraphOrdered ==
  /\ Ordered(Entities, Moves(Entities, Onward))
  /\ \A e \in Entities : status[e] = "merged" =>
       into[e] \in Entities \ {e} /\ status[into[e]] # "absent"

\* Every version is of a counted edit, and an absorption is of a version there was.
VersionsCounted ==
  /\ \A e \in Entities : version[e] <= graphEdits
  /\ \A h \in Entities : \A m \in absorbed[h] : m[2] <= version[m[1]]

\* Who absorbed a record as it is now has what that record absorbed.
PassedOn ==
  \A h \in Entities : \A m \in absorbed[h] :
    m[2] = version[m[1]] => absorbed[m[1]] \subseteq absorbed[h]

\* The record of h keeps a relationship to what y now stands for, or knows why
\* it ended: y is merged into h or is about to be.
Holds(h, y) ==
  \/ h = Heir(y) \/ \E r \in rel[h] : Heir(r) = Heir(y)
  \/ \E x \in Entities : Passes(y, x) /\ Recorded(x, h) # {}

\* A record holds what was told of it and of every source it speaks for, also
\* while the merge of that source is not finished.
ToldHeld ==
  \A h \in Entities : \A p \in told :
    status[h] # "merged" /\ Heir(p[1]) \in SpeaksFor(h) => Holds(h, p[2])

\* The links of a WorkThread lead to records that were created, and no two of
\* them name one entity in two roles by names that resolve.
LinksFit(links) ==
  \A l \in links :
    /\ status[Reach(l[2])] # "absent"
    /\ \A m \in links : Resolves(l[2]) /\ Reach(l[2]) = Reach(m[2]) => l[1] = m[1]

ThreadsFit == \A w \in LinkThreads : LinksFit(wlinks[w])

GraphInv ==
  /\ GraphTyped /\ GraphOrdered /\ VersionsCounted /\ PassedOn /\ ToldHeld /\ ThreadsFit

LEMMA OnwardIs ==
  ASSUME GraphTyped, GraphOrdered
  PROVE  /\ Onward \in [Entities -> Entities]
         /\ \A e \in Entities : Onward[e] = e <=> status[e] # "merged"
BY DEF GraphTyped, GraphOrdered, Onward

LEMMA AlongIs ==
  ASSUME NEW n
  PROVE  /\ \A e : Along(e, n) = Walk(Onward, e, n)
         /\ \A e : Along(e, n)' = Walk(Onward', e, n)
BY DEF Along, Walk

\* A longer walk begins as a shorter one does.
LEMMA WalkAgrees ==
  ASSUME NEW next, NEW x, NEW m \in Nat, NEW n \in Nat, m <= n
  PROVE  \A k \in 0..m : Walk(next, x, m)[k] = Walk(next, x, n)[k]
<1> DEFINE T == {k \in 0..m : Walk(next, x, m)[k] # Walk(next, x, n)[k]}
<1>1. /\ Walk(next, x, m)[0] = x /\ \A k \in 1..m : Walk(next, x, m)[k] = next[Walk(next, x, m)[k - 1]]
      /\ Walk(next, x, n)[0] = x /\ \A k \in 1..n : Walk(next, x, n)[k] = next[Walk(next, x, n)[k - 1]]
  BY WalkIs
<1>2. ASSUME T # {} PROVE FALSE
  <2>1. PICK k \in T : \A i \in T : k <= i
    <3>1. T \in SUBSET Nat OBVIOUS
    <3> HIDE DEF T
    <3> QED BY <1>2, <3>1, HasLeast
  <2>2. k \in 1..m /\ k \in 1..n /\ k - 1 \in 0..m /\ k - 1 \notin T BY <1>1, <2>1
  <2> QED BY <1>1, <2>1, <2>2
<1> QED BY <1>2

LEMMA FarIs == Far \in Nat /\ MaxRedirects <= Far /\ Cardinality(Entities) <= Far + 1 /\ MaxRedirects \in Nat
BY GraphAssumption, FS_CardinalityType DEF Far

LEMMA HeirIs ==
  ASSUME GraphTyped, GraphOrdered, NEW e \in Entities
  PROVE  /\ Heir(e) \in Entities /\ status[Heir(e)] # "merged"
         /\ status[e] # "merged" => Heir(e) = e
         /\ Passes(e, e) /\ Passes(e, Heir(e))
         /\ \A y \in Entities : status[y] # "merged" /\ Passes(e, y) => Heir(e) = y
<1> DEFINE at == Along(e, Far)
           M == Far
<1>1. Onward \in [Entities -> Entities] /\ \A y \in Entities : Onward[y] = y <=> status[y] # "merged"
  BY OnwardIs
<1>2. M \in Nat /\ IsFiniteSet(Entities) /\ Cardinality(Entities) <= M + 1 BY GraphAssumption, FarIs
<1>3. at = Walk(Onward, e, M) BY AlongIs
<1> HIDE DEF M
<1>4. at[0] = e BY <1>2, <1>3, WalkIs
<1>5. \A k \in 0..M : at[k] \in Entities BY <1>1, <1>2, <1>3, WalkIn
<1>6. Onward[at[M]] = at[M] BY <1>1, <1>2, <1>3, WalkEnds DEF GraphOrdered
<1> USE DEF M
<1>7. ASSUME NEW y \in Entities, status[y] # "merged", Passes(e, y)
      PROVE  at[M] = y
  <2>1. PICK i \in 0..M : at[i] = y BY <1>7 DEF Passes
  <2>2. Onward[y] = y BY <1>1, <1>7
  <2> HIDE DEF at, M
  <2>3. \A k \in i..M : at[k] = y BY <1>2, <1>3, <2>1, <2>2, WalkStays
  <2> QED BY <1>2, <2>3
<1>8. Passes(e, e) /\ Passes(e, at[M])
  <2>1. 0 \in 0..M /\ M \in 0..M BY <1>2
  <2> QED BY <1>4, <2>1 DEF Passes
<1>9. Heir(e) = at[M] BY DEF Heir
<1>10. at[M] \in Entities BY <1>2, <1>5
<1> HIDE DEF at, M
<1> QED BY <1>1, <1>6, <1>7, <1>8, <1>9, <1>10

\* Where resolve_entity gives an answer, it is the record that took the place.
LEMMA ReachIs ==
  ASSUME GraphTyped, GraphOrdered, NEW e \in Entities
  PROVE  /\ Reach(e) \in Entities
         /\ status[e] # "merged" => Reach(e) = e
         /\ Resolves(e) => status[Reach(e)] # "merged"
         /\ status[Reach(e)] # "merged" => Reach(e) = Heir(e)
         /\ \A y : PathContains(e, y) => Passes(e, y)
<1> DEFINE M == MaxRedirects
           at == Walk(Onward, e, M)
           all == Walk(Onward, e, Far)
<1>1. Onward \in [Entities -> Entities] /\ \A y \in Entities : Onward[y] = y <=> status[y] # "merged"
  BY OnwardIs
<1>2. M \in Nat /\ Far \in Nat /\ M <= Far BY FarIs
<1>3. Along(e, M) = at /\ Along(e, Far) = all BY AlongIs
<1>4. \A k \in 0..M : at[k] = all[k] /\ at[k] \in Entities /\ k \in 0..Far
  <2>1. \A k \in 0..M : at[k] = all[k] BY <1>2, WalkAgrees
  <2>2. \A k \in 0..M : at[k] \in Entities BY <1>1, <1>2, WalkIn
  <2> QED BY <1>2, <2>1, <2>2
<1>5. \A y : PathContains(e, y) => Passes(e, y) BY <1>3, <1>4 DEF PathContains, Passes
<1>6. Reach(e) = at[M] /\ Reach(e) \in Entities /\ PathContains(e, Reach(e))
  <2>1. M \in 0..M BY <1>2
  <2> QED BY <1>3, <1>4, <2>1 DEF Reach, PathContains
<1>7. /\ Resolves(e) => status[Reach(e)] # "merged"
      /\ status[Reach(e)] # "merged" => Reach(e) = Heir(e)
  BY <1>5, <1>6, HeirIs DEF Resolves
<1>8. ASSUME status[e] # "merged" PROVE Reach(e) = e
  <2>1. at[0] = e BY <1>2, WalkIs
  <2>2. Onward[e] = e BY <1>1, <1>8
  <2>3. 0 \in 0..M /\ M \in 0..M BY <1>2
  <2> HIDE DEF M
  <2>4. \A k \in 0..M : at[k] = e BY <1>2, <2>1, <2>2, <2>3, WalkStays
  <2> QED BY <1>6, <2>3, <2>4
<1> QED BY <1>5, <1>6, <1>7, <1>8

LEMMA ReachLeads ==
  GraphTyped /\ GraphOrdered =>
    \A e \in Entities : Reach(e) \in Entities /\ (status[Reach(e)] # "merged" => Reach(e) = Heir(e))
BY ReachIs

LEMMA RelationIs ==
  ASSUME GraphTyped, GraphOrdered, NEW e \in Entities, NEW t, NEW r \in RelationTo(e, t)
  PROVE  r \in rel[e] /\ r \in Entities /\ Heir(r) = t
BY ReachIs DEF RelationTo, GraphTyped

LEMMA StoredIs ==
  ASSUME GraphTyped, GraphOrdered, NEW e \in Entities
  PROVE  /\ Stored(e) \in Entities /\ (Resolves(Stored(e)) => Reach(Stored(e)) = Stored(e))
         /\ status[Reach(e)] # "absent" => status[Reach(Stored(e))] # "absent"
<1>1. Resolves(e) => Reach(Reach(e)) = Reach(e) BY ReachIs DEF Resolves
<1> QED BY <1>1, ReachIs DEF Stored

\* A step that redirects nobody leads every name where it led.
LEMMA SameReach ==
  ASSUME Onward' = Onward, NEW e
  PROVE  /\ Reach(e)' = Reach(e) /\ Heir(e)' = Heir(e)
         /\ \A y : PathContains(e, y)' <=> PathContains(e, y)
         /\ \A y : Passes(e, y)' <=> Passes(e, y)
<1>1. \A n : Along(e, n)' = Along(e, n) BY AlongIs
<1>2. Far' = Far BY DEF Far
<1>3. Reach(e)' = Reach(e) /\ \A y : PathContains(e, y)' <=> PathContains(e, y)
  BY <1>1 DEF Reach, PathContains
<1> QED BY <1>1, <1>2, <1>3 DEF Heir, Passes

LEMMA EditCounts ==
  ASSUME GraphTyped, GraphEdit
  PROVE  /\ graphEdits \in Nat /\ graphEdits' = graphEdits + 1 /\ graphEdits' \in 0..MaxGraphEdits
BY GraphAssumption DEF GraphTyped, GraphEdit

\* What a step that redirects nobody must leave of a relationship.
LEMMA HoldsStay ==
  ASSUME Onward' = Onward, NEW h \in Entities, NEW y \in Entities, Holds(h, y),
         absorbed[h] \subseteq absorbed'[h],
         \A r \in rel[h] : \E q \in rel'[h] : Heir(q) = Heir(r)
  PROVE  Holds(h, y)'
<1>1. /\ \A e : Heir(e)' = Heir(e)
      /\ \A e, x : Passes(e, x)' <=> Passes(e, x)
  BY SameReach
<1>2. CASE h = Heir(y) BY <1>1, <1>2 DEF Holds
<1>3. CASE \E r \in rel[h] : Heir(r) = Heir(y)
  <2>1. \E q \in rel'[h] : Heir(q)' = Heir(y)' BY <1>1, <1>3
  <2> QED BY <2>1 DEF Holds
<1>4. CASE \E x \in Entities : Passes(y, x) /\ Recorded(x, h) # {}
  <2>1. PICK x \in Entities : Passes(y, x) /\ Recorded(x, h) # {} BY <1>4
  <2>2. Passes(y, x)' /\ Recorded(x, h)' # {} BY <1>1, <2>1 DEF Recorded
  <2> QED BY <2>2 DEF Holds
<1> QED BY <1>2, <1>3, <1>4 DEF Holds

\* A step that changes no entity.
LEMMA LinksInv ==
  ASSUME GraphInv, UNCHANGED <<status, into, version, rel, absorbed, told>>, GraphEdit \/ graphEdits' = graphEdits,
         tlinks' \in [LinkTasks -> SUBSET Entities],
         wlinks' \in [LinkThreads -> SUBSET (Roles \X Entities)],
         \A w \in LinkThreads : LinksFit(wlinks'[w])
  PROVE  GraphInv'
<1>1. graphEdits \in Nat /\ graphEdits' >= graphEdits /\ graphEdits' \in 0..MaxGraphEdits
  BY EditCounts, GraphAssumption DEF GraphInv, GraphTyped
<1>2. Onward' = Onward BY DEF Onward
<1>3. \A e : Reach(e)' = Reach(e) /\ Heir(e)' = Heir(e) BY <1>2, SameReach
<1>4. ThreadsFit' BY <1>3 DEF ThreadsFit, LinksFit, Resolves
<1>5. GraphTyped' BY <1>1 DEF GraphInv, GraphTyped
<1>6. GraphOrdered' BY <1>2 DEF GraphInv, GraphOrdered
<1>7. VersionsCounted' /\ PassedOn'
  <2>1. \A e \in Entities : version[e] \in Nat /\ version[e] <= graphEdits
    BY DEF GraphInv, GraphTyped, VersionsCounted
  <2> QED BY <1>1, <2>1 DEF GraphInv, VersionsCounted, PassedOn
<1>8. ToldHeld'
  <2> SUFFICES ASSUME NEW h \in Entities, NEW p \in told, status[h] # "merged", Heir(p[1]) \in SpeaksFor(h)
               PROVE  Holds(h, p[2])'
    BY <1>3 DEF ToldHeld, SpeaksFor
  <2>1. p[2] \in Entities /\ Holds(h, p[2]) BY DEF GraphInv, GraphTyped, ToldHeld
  <2> QED BY <1>2, <2>1, HoldsStay
<1> QED BY <1>4, <1>5, <1>6, <1>7, <1>8 DEF GraphInv

LEMMA UpdateTaskLinksInv ==
  ASSUME GraphInv, NEW t \in LinkTasks, NEW add \in SUBSET Entities, NEW remove \in SUBSET Entities,
         UpdateTaskLinks(t, add, remove)
  PROVE  GraphInv'
<1> DEFINE new == ({Stored(e) : e \in tlinks[t]} \ {Stored(e) : e \in remove}) \cup {Reach(e) : e \in add}
<1>1. GraphTyped /\ GraphOrdered /\ tlinks \in [LinkTasks -> SUBSET Entities]
  BY DEF GraphInv, GraphTyped
<1>2. tlinks[t] \in SUBSET Entities BY <1>1
<1>3. new \in SUBSET Entities BY <1>1, <1>2, StoredIs, ReachIs
<1>4. tlinks' = [tlinks EXCEPT ![t] = new] BY DEF UpdateTaskLinks
<1> HIDE DEF new
<1>5. tlinks' \in [LinkTasks -> SUBSET Entities] BY <1>1, <1>3, <1>4
<1>6. GraphEdit /\ wlinks' = wlinks /\ UNCHANGED <<status, into, version, rel, absorbed, told>>
  BY DEF UpdateTaskLinks
<1>7. /\ wlinks' \in [LinkThreads -> SUBSET (Roles \X Entities)]
      /\ \A w \in LinkThreads : LinksFit(wlinks'[w])
  BY <1>6 DEF GraphInv, GraphTyped, ThreadsFit
<1> QED BY <1>5, <1>6, <1>7, LinksInv

LEMMA StoredLinkIs ==
  ASSUME GraphTyped, GraphOrdered, NEW l \in Roles \X Entities, status[Reach(l[2])] # "absent"
  PROVE  /\ status[Reach(StoredLink(l)[2])] # "absent"
         /\ StoredLink(l) \in Roles \X Entities /\ StoredLink(l)[1] = l[1]
         /\ Resolves(StoredLink(l)[2]) => Reach(StoredLink(l)[2]) = StoredLink(l)[2]
<1>1. l[1] \in Roles /\ l[2] \in Entities OBVIOUS
<1>2. /\ Stored(l[2]) \in Entities /\ status[Reach(Stored(l[2]))] # "absent"
      /\ Resolves(Stored(l[2])) => Reach(Stored(l[2])) = Stored(l[2])
  BY <1>1, StoredIs
<1>3. StoredLink(l)[1] = l[1] /\ StoredLink(l)[2] = Stored(l[2]) BY DEF StoredLink
<1>4. StoredLink(l) \in Roles \X Entities BY <1>1, <1>2 DEF StoredLink
<1> QED BY <1>2, <1>3, <1>4

\* A WorkThread whose links were read again names every entity as it is now.
LEMMA ThreadLinksInv ==
  ASSUME GraphInv, NEW w \in LinkThreads, NEW new \in SUBSET (Roles \X Entities),
         \A l \in new : /\ status[Reach(l[2])] # "absent"
                        /\ Resolves(l[2]) => Reach(l[2]) = l[2],
         OneRoleEach(new), wlinks' = [wlinks EXCEPT ![w] = new], GraphEdit,
         UNCHANGED <<status, into, version, rel, absorbed, tlinks, told>>
  PROVE  GraphInv'
<1>1. wlinks \in [LinkThreads -> SUBSET (Roles \X Entities)] /\ tlinks \in [LinkTasks -> SUBSET Entities]
  BY DEF GraphInv, GraphTyped
<1>2. wlinks' \in [LinkThreads -> SUBSET (Roles \X Entities)] BY <1>1
<1>3. ASSUME NEW v \in LinkThreads PROVE LinksFit(wlinks'[v])
  <2>1. CASE v = w
    <3>1. wlinks'[v] = new BY <1>1, <2>1
    <3> QED BY <3>1 DEF OneRoleEach, LinksFit, Resolves
  <2>2. CASE v # w
    <3>1. wlinks'[v] = wlinks[v] BY <1>1, <2>2
    <3> QED BY <3>1 DEF GraphInv, ThreadsFit
  <2> QED BY <2>1, <2>2
<1> QED BY <1>1, <1>2, <1>3, LinksInv

LEMMA UpdateThreadLinksInv ==
  ASSUME GraphInv, NEW w \in LinkThreads,
         NEW add \in SUBSET (Roles \X Entities), NEW remove \in SUBSET (Roles \X Entities),
         UpdateThreadLinks(w, add, remove)
  PROVE  GraphInv'
<1> DEFINE base == {StoredLink(l) : l \in wlinks[w]}
           adds == {StoredLink(l) : l \in add}
           rems == {StoredLink(l) : l \in remove}
           new == {l \in base \ rems : \A a \in adds : a[2] # l[2]} \cup adds
<1>1. /\ OneRoleEach(base) /\ OneRoleEach(adds) /\ GraphEdit
      /\ wlinks' = [wlinks EXCEPT ![w] = new]
      /\ UNCHANGED <<status, into, version, rel, absorbed, tlinks, told>>
  BY DEF UpdateThreadLinks
<1>2. /\ GraphTyped /\ GraphOrdered /\ wlinks[w] \in SUBSET (Roles \X Entities)
      /\ \A l \in wlinks[w] \cup add : status[Reach(l[2])] # "absent"
  BY DEF GraphInv, GraphTyped, ThreadsFit, LinksFit, UpdateThreadLinks, Resolves
<1>3. /\ base \in SUBSET (Roles \X Entities) /\ adds \in SUBSET (Roles \X Entities)
      /\ \A l \in base \cup adds : /\ status[Reach(l[2])] # "absent"
                                   /\ Resolves(l[2]) => Reach(l[2]) = l[2]
  BY <1>2, StoredLinkIs
<1> HIDE DEF base, adds, rems
<1>4. OneRoleEach(new) BY <1>1 DEF OneRoleEach
<1>5. new \subseteq base \cup adds OBVIOUS
<1> HIDE DEF new
<1>6. /\ new \in SUBSET (Roles \X Entities)
      /\ \A l \in new : status[Reach(l[2])] # "absent" /\ (Resolves(l[2]) => Reach(l[2]) = l[2])
  BY <1>3, <1>5
<1> QED BY <1>1, <1>4, <1>6, ThreadLinksInv

LEMMA MergeThreadLinksInv ==
  ASSUME GraphInv, NEW s \in LinkThreads, NEW t \in LinkThreads, MergeThreadLinks(s, t)
  PROVE  GraphInv'
<1> DEFINE both == {StoredLink(l) : l \in wlinks[s] \cup wlinks[t]}
<1>1. /\ OneRoleEach(both) /\ GraphEdit /\ wlinks' = [wlinks EXCEPT ![t] = both]
      /\ UNCHANGED <<status, into, version, rel, absorbed, tlinks, told>>
  BY DEF MergeThreadLinks
<1>2. /\ GraphTyped /\ GraphOrdered /\ wlinks[s] \cup wlinks[t] \in SUBSET (Roles \X Entities)
      /\ \A l \in wlinks[s] \cup wlinks[t] : status[Reach(l[2])] # "absent"
  BY DEF GraphInv, GraphTyped, ThreadsFit, LinksFit
<1>3. /\ both \in SUBSET (Roles \X Entities)
      /\ \A l \in both : status[Reach(l[2])] # "absent" /\ (Resolves(l[2]) => Reach(l[2]) = l[2])
  BY <1>2, StoredLinkIs
<1> HIDE DEF both
<1> QED BY <1>1, <1>3, ThreadLinksInv

\* A step that redirects nobody and leaves the WorkThreads alone.
LEMMA QuietInv ==
  ASSUME GraphInv, Onward' = Onward, into' = into, wlinks' = wlinks,
         \A e \in Entities : /\ status'[e] = "merged" <=> status[e] = "merged"
                             /\ status'[e] = "absent" => status[e] = "absent",
         GraphTyped', VersionsCounted', PassedOn', ToldHeld'
  PROVE  GraphInv'
<1>1. \A e : Reach(e)' = Reach(e) BY SameReach
<1>2. ThreadsFit'
  <2> SUFFICES ASSUME NEW w \in LinkThreads, NEW l \in wlinks[w]
               PROVE  /\ status'[Reach(l[2])] # "absent"
                      /\ \A m \in wlinks[w] : Resolves(l[2])' /\ Reach(l[2]) = Reach(m[2]) => l[1] = m[1]
    BY <1>1 DEF ThreadsFit, LinksFit
  <2>1. l[2] \in Entities BY DEF GraphInv, GraphTyped
  <2>2. Reach(l[2]) \in Entities BY <2>1, ReachIs DEF GraphInv
  <2>3. status[Reach(l[2])] # "absent" BY DEF GraphInv, ThreadsFit, LinksFit
  <2>4. status'[Reach(l[2])] # "absent" /\ (Resolves(l[2])' => Resolves(l[2]))
    BY <1>1, <2>2, <2>3 DEF Resolves
  <2> QED BY <2>4 DEF GraphInv, ThreadsFit, LinksFit
<1>3. GraphOrdered' BY DEF GraphInv, GraphOrdered
<1> QED BY <1>2, <1>3 DEF GraphInv

LEMMA BumpIs ==
  ASSUME GraphInv, NEW e \in Entities, Bump(e)
  PROVE  /\ version' \in [Entities -> 0..MaxGraphEdits] /\ graphEdits' \in 0..MaxGraphEdits
         /\ \A x \in Entities : version'[x] <= graphEdits' /\ version[x] <= version'[x]
         /\ \A h \in Entities : \A m \in absorbed[h] :
              /\ m[1] \in Entities /\ m[2] <= version'[m[1]]
              /\ m[2] = version'[m[1]] => m[1] # e /\ m[2] = version[m[1]]
         /\ \A x \in Entities : x # e => version'[x] = version[x]
         /\ version'[e] = version[e] + 1 /\ version[e] \in 0..MaxGraphEdits
<1>1. /\ graphEdits \in Nat /\ graphEdits' = graphEdits + 1 /\ graphEdits' \in 0..MaxGraphEdits
      /\ MaxGraphEdits \in Nat
  BY EditCounts, GraphAssumption DEF GraphInv, Bump
<1>2. version \in [Entities -> 0..MaxGraphEdits] /\ version' = [version EXCEPT ![e] = @ + 1]
  BY DEF GraphInv, GraphTyped, Bump
<1>3. \A x \in Entities : version[x] \in Nat /\ version[x] <= graphEdits
  BY <1>2 DEF GraphInv, VersionsCounted
<1>4. \A x \in Entities : version'[x] = IF x = e THEN version[x] + 1 ELSE version[x] BY <1>2
<1>5. version' \in [Entities -> 0..MaxGraphEdits]
  <2>1. version[e] + 1 \in 0..MaxGraphEdits BY <1>1, <1>3
  <2> QED BY <1>2, <2>1
<1>6. ASSUME NEW h \in Entities, NEW m \in absorbed[h]
      PROVE  /\ m[1] \in Entities /\ m[2] <= version'[m[1]]
             /\ m[2] = version'[m[1]] => m[1] # e /\ m[2] = version[m[1]]
  <2>1. m[1] \in Entities /\ m[2] \in Nat BY DEF GraphInv, GraphTyped
  <2>2. m[2] <= version[m[1]] BY DEF GraphInv, VersionsCounted
  <2> QED BY <1>3, <1>4, <2>1, <2>2
<1> QED BY <1>1, <1>2, <1>3, <1>4, <1>5, <1>6

\* An edit of e makes sure that nobody else speaks for it.
LEMMA BumpKeeps ==
  ASSUME GraphInv, NEW e \in Entities, Bump(e), absorbed' = absorbed
  PROVE  /\ VersionsCounted' /\ PassedOn'
         /\ \A h \in Entities : SpeaksFor(h)' \subseteq SpeaksFor(h)
         /\ \A h \in Entities : e \in SpeaksFor(h)' => h = e
<1>1. VersionsCounted' BY BumpIs DEF VersionsCounted
<1>2. PassedOn' BY BumpIs DEF GraphInv, PassedOn
<1>3. \A h \in Entities : SpeaksFor(h)' \subseteq SpeaksFor(h) BY BumpIs DEF SpeaksFor
<1>4. \A h \in Entities : e \in SpeaksFor(h)' => h = e BY BumpIs DEF SpeaksFor
<1> QED BY <1>1, <1>2, <1>3, <1>4

LEMMA CreateEntityInv ==
  ASSUME GraphInv, NEW e \in Entities, CreateEntity(e)
  PROVE  GraphInv'
<1>1. /\ status[e] = "absent" /\ status' = [status EXCEPT ![e] = "current"]
      /\ UNCHANGED <<into, version, rel, absorbed, tlinks, wlinks, told, graphEdits>>
  BY DEF CreateEntity
<1>2. status \in [Entities -> {"absent", "current", "superseded", "merged"}]
  BY DEF GraphInv, GraphTyped
<1>3. \A x \in Entities : /\ status'[x] = "merged" <=> status[x] = "merged"
                          /\ status'[x] = "absent" => status[x] = "absent"
  BY <1>1, <1>2
<1>4. Onward' = Onward BY <1>1, <1>3 DEF Onward
<1>5. GraphTyped' BY <1>1, <1>2 DEF GraphInv, GraphTyped
<1>6. VersionsCounted' /\ PassedOn' BY <1>1 DEF GraphInv, VersionsCounted, PassedOn
<1>7. \A x : Heir(x)' = Heir(x) BY <1>4, SameReach
<1>8. ToldHeld'
  <2> SUFFICES ASSUME NEW h \in Entities, NEW p \in told, status[h] # "merged", Heir(p[1]) \in SpeaksFor(h)
               PROVE  Holds(h, p[2])'
    BY <1>1, <1>3, <1>7 DEF ToldHeld, SpeaksFor
  <2>1. p[2] \in Entities /\ Holds(h, p[2]) BY DEF GraphInv, GraphTyped, ToldHeld
  <2> QED BY <1>1, <1>4, <2>1, HoldsStay
<1> QED BY <1>1, <1>3, <1>4, <1>5, <1>6, <1>8, QuietInv

LEMMA UpdateEntityInv ==
  ASSUME GraphInv, NEW e \in Entities, NEW target \in {"current", "superseded"}, UpdateEntity(e, target)
  PROVE  GraphInv'
<1>1. /\ status[e] \in {"current", "superseded"} /\ status' = [status EXCEPT ![e] = target] /\ Bump(e)
      /\ UNCHANGED <<into, rel, absorbed, tlinks, wlinks, told>>
  BY DEF UpdateEntity
<1>2. status \in [Entities -> {"absent", "current", "superseded", "merged"}]
  BY DEF GraphInv, GraphTyped
<1>3. \A x \in Entities : /\ status'[x] = "merged" <=> status[x] = "merged"
                          /\ status'[x] = "absent" <=> status[x] = "absent"
  BY <1>1, <1>2
<1>4. Onward' = Onward BY <1>1, <1>3 DEF Onward
<1>5. GraphTyped' BY <1>1, <1>2, BumpIs DEF GraphInv, GraphTyped
<1>6. /\ VersionsCounted' /\ PassedOn'
      /\ \A h \in Entities : SpeaksFor(h)' \subseteq SpeaksFor(h)
  BY <1>1, BumpKeeps
<1>7. \A x : Heir(x)' = Heir(x) BY <1>4, SameReach
<1>8. ToldHeld'
  <2> SUFFICES ASSUME NEW h \in Entities, NEW p \in told, status[h] # "merged", Heir(p[1]) \in SpeaksFor(h)
               PROVE  Holds(h, p[2])'
    BY <1>1, <1>3, <1>6, <1>7 DEF ToldHeld
  <2>1. p[2] \in Entities /\ Holds(h, p[2]) BY DEF GraphInv, GraphTyped, ToldHeld
  <2> QED BY <1>1, <1>4, <2>1, HoldsStay
<1> QED BY <1>1, <1>3, <1>4, <1>5, <1>6, <1>8, QuietInv

LEMMA LinkEntityInv ==
  ASSUME GraphInv, NEW e \in Entities, NEW x \in Entities, LinkEntity(e, x)
  PROVE  GraphInv'
<1>0. PICK t \in Entities : t = Reach(x) BY ReachIs DEF GraphInv
<1>1. /\ status[e] = "current" /\ Resolves(x) /\ status[t] = "current" /\ t # e
      /\ Bump(e) /\ told' = told \cup {<<e, t>>}
      /\ UNCHANGED <<status, into, absorbed, tlinks, wlinks>>
  BY <1>0 DEF LinkEntity, Writable
<1>2. PICK gone \in SUBSET RelationTo(e, t) : rel' = [rel EXCEPT ![e] = (@ \ gone) \cup {t}]
  <2>1. CASE rel' = [rel EXCEPT ![e] = @ \cup {t}]
    <3>1. rel' = [rel EXCEPT ![e] = (@ \ {}) \cup {t}] BY <2>1
    <3> QED BY <3>1
  <2>2. CASE \E r \in RelationTo(e, t) : rel' = [rel EXCEPT ![e] = (@ \ {r}) \cup {t}] BY <2>2
  <2> QED BY <1>0, <2>1, <2>2 DEF LinkEntity
<1>3. GraphTyped /\ GraphOrdered /\ rel \in [Entities -> SUBSET Entities] /\ told \subseteq Entities \X Entities
  BY DEF GraphInv, GraphTyped
<1>4. t \in Entities /\ Heir(t) = t /\ Heir(e) = e BY <1>1, <1>3, HeirIs
<1>5. Onward' = Onward BY <1>1 DEF Onward
<1>6. \A y : Heir(y)' = Heir(y) BY <1>5, SameReach
<1>7. GraphTyped'
  <2>1. rel' \in [Entities -> SUBSET Entities] /\ told' \subseteq Entities \X Entities
    BY <1>1, <1>2, <1>3, <1>4
  <2> QED BY <1>1, <1>3, <2>1, BumpIs DEF GraphInv, GraphTyped
<1>8. /\ VersionsCounted' /\ PassedOn'
      /\ \A h \in Entities : SpeaksFor(h)' \subseteq SpeaksFor(h)
      /\ \A h \in Entities : e \in SpeaksFor(h)' => h = e
  BY <1>1, BumpKeeps
<1>9. ToldHeld'
  <2> SUFFICES ASSUME NEW h \in Entities, NEW p \in told', status[h] # "merged", Heir(p[1]) \in SpeaksFor(h)'
               PROVE  Holds(h, p[2])'
    BY <1>1, <1>6 DEF ToldHeld
  <2>1. CASE p \in told
    <3>1. p[2] \in Entities /\ Holds(h, p[2]) BY <1>3, <1>8, <2>1 DEF GraphInv, ToldHeld
    <3>2. ASSUME NEW r \in rel[h] PROVE \E q \in rel'[h] : Heir(q) = Heir(r)
      <4>1. CASE h # e \/ r \notin gone BY <1>2, <1>3, <4>1
      <4>2. CASE h = e /\ r \in gone
        <5>1. Heir(r) = t BY <1>2, <1>3, <4>2, RelationIs
        <5>2. t \in rel'[h] BY <1>2, <1>3, <4>2
        <5> QED BY <1>4, <5>1, <5>2
      <4> QED BY <4>1, <4>2
    <3> QED BY <1>1, <1>5, <3>1, <3>2, HoldsStay
  <2>2. CASE p = <<e, t>>
    <3>1. h = e BY <1>4, <1>8, <2>2
    <3>2. t \in rel'[e] BY <1>1, <1>2, <1>3
    <3>3. Heir(t)' = t BY <1>4, <1>6
    <3>5. Holds(e, t)' BY <3>2, <3>3 DEF Holds
    <3>6. p[2] = t BY <2>2
    <3> QED BY <3>1, <3>5, <3>6
  <2> QED BY <1>1, <2>1, <2>2
<1> QED BY <1>1, <1>5, <1>7, <1>8, <1>9, QuietInv

LEMMA UnlinkEntityInv ==
  ASSUME GraphInv, NEW e \in Entities, NEW x \in Entities, UnlinkEntity(e, x)
  PROVE  GraphInv'
<1> DEFINE t == Reach(x)
<1>1. /\ Bump(e) /\ told' = {p \in told : ~(Heir(p[1]) \in SpeaksFor(e) /\ Heir(p[2]) = t)}
      /\ UNCHANGED <<status, into, absorbed, tlinks, wlinks>>
  BY DEF UnlinkEntity
<1>2. PICK gone \in RelationTo(e, t) : rel' = [rel EXCEPT ![e] = @ \ {gone}] BY DEF UnlinkEntity
<1>3. GraphTyped /\ GraphOrdered /\ rel \in [Entities -> SUBSET Entities] /\ told \subseteq Entities \X Entities
  BY DEF GraphInv, GraphTyped
<1>4. Onward' = Onward BY <1>1 DEF Onward
<1>5. \A y : Heir(y)' = Heir(y) /\ \A z : Passes(y, z)' <=> Passes(y, z)
  BY <1>4, SameReach
<1> HIDE DEF t
<1>6. GraphTyped'
  <2>1. rel' \in [Entities -> SUBSET Entities] /\ told' \subseteq Entities \X Entities
    BY <1>1, <1>2, <1>3
  <2> QED BY <1>1, <1>3, <2>1, BumpIs DEF GraphInv, GraphTyped
<1>7. /\ VersionsCounted' /\ PassedOn'
      /\ \A h \in Entities : SpeaksFor(h)' \subseteq SpeaksFor(h)
  BY <1>1, BumpKeeps
<1>8. ToldHeld'
  <2> SUFFICES ASSUME NEW h \in Entities, NEW p \in told', status[h] # "merged", Heir(p[1]) \in SpeaksFor(h)'
               PROVE  Holds(h, p[2])'
    BY <1>1, <1>5 DEF ToldHeld
  <2>1. p \in told /\ Heir(p[1]) \in SpeaksFor(h) /\ (h = e => Heir(p[2]) # t) BY <1>1, <1>7
  <2>2. p[2] \in Entities /\ Holds(h, p[2]) BY <1>3, <2>1 DEF GraphInv, ToldHeld
  <2>3. CASE \E r \in rel[h] : Heir(r) = Heir(p[2])
    <3>1. PICK r \in rel[h] : Heir(r) = Heir(p[2]) BY <2>3
    <3>2. h = e => r # gone BY <1>2, <1>3, <2>1, <3>1, RelationIs
    <3>3. r \in rel'[h] BY <1>2, <1>3, <3>1, <3>2
    <3> QED BY <1>5, <3>1, <3>3 DEF Holds
  <2>4. CASE ~\E r \in rel[h] : Heir(r) = Heir(p[2])
    <3>1. \A z : Recorded(z, h)' = Recorded(z, h) BY <1>1 DEF Recorded
    <3> QED BY <1>5, <2>2, <2>4, <3>1 DEF Holds
  <2> QED BY <2>3, <2>4
<1> QED BY <1>1, <1>4, <1>6, <1>7, <1>8, QuietInv

\* The first write of a merge: the target holds what the source holds, and
\* speaks for whom the source speaks.
LEMMA MergeAbsorbInv ==
  ASSUME GraphInv, NEW s \in Entities, NEW x \in Entities, MergeAbsorb(s, x)
  PROVE  GraphInv'
<1>1. PICK t \in Entities : t = Reach(x) BY ReachIs DEF GraphInv
<1>2. PICK direct : direct = <<s, version[s], t>> OBVIOUS
<1>3. /\ s # t /\ status[s] \in {"current", "superseded"} /\ status[t] = "current"
      /\ absorbed' = [absorbed EXCEPT ![t] = Inherited(s, t, direct)]
      /\ rel' = [rel EXCEPT ![t] = MergedRelationships(s, t)] /\ Bump(t)
      /\ UNCHANGED <<status, into, tlinks, wlinks, told>>
      /\ \A r \in rel[s] \cup rel[t] : Resolves(r)
  BY <1>1, <1>2 DEF MergeAbsorb, Mergeable, Writable
<1>4. /\ GraphTyped /\ GraphOrdered /\ rel \in [Entities -> SUBSET Entities]
      /\ absorbed \in [Entities -> SUBSET (Entities \X (0..MaxGraphEdits) \X Entities)]
      /\ told \subseteq Entities \X Entities /\ version[s] \in 0..MaxGraphEdits
  BY DEF GraphInv, GraphTyped
<1>5. Onward' = Onward BY <1>3 DEF Onward
<1>6. /\ \A y : Heir(y)' = Heir(y)
      /\ \A y, z : Passes(y, z)' <=> Passes(y, z)
      /\ \A r \in rel[s] \cup rel[t] : r \in Entities /\ Reach(r) = Heir(r)
  BY <1>3, <1>4, <1>5, SameReach, ReachIs
<1>7. /\ absorbed'[t] = absorbed[t] \cup absorbed[s] \cup {direct}
      /\ \A h \in Entities : h # t => absorbed'[h] = absorbed[h]
  BY <1>3, <1>4 DEF Inherited
<1>8. /\ rel'[t] = MergedRelationships(s, t) /\ \A h \in Entities : h # t => rel'[h] = rel[h]
  BY <1>3, <1>4
<1>9. direct[1] = s /\ direct[2] = version[s] /\ version'[s] = version[s] BY <1>2, <1>3, BumpIs
<1>10. GraphTyped'
  <2>1. direct \in Entities \X (0..MaxGraphEdits) \X Entities BY <1>2, <1>4
  <2>2. absorbed' \in [Entities -> SUBSET (Entities \X (0..MaxGraphEdits) \X Entities)]
    BY <1>3, <1>4, <2>1 DEF Inherited
  <2>3. MergedRelationships(s, t) \in SUBSET Entities BY <1>4, ReachIs DEF MergedRelationships
  <2>4. rel' \in [Entities -> SUBSET Entities] BY <1>3, <1>4, <2>3
  <2> QED BY <1>3, <1>4, <2>2, <2>4, BumpIs DEF GraphTyped
<1>11. VersionsCounted'
  <2>1. ASSUME NEW h \in Entities, NEW m \in absorbed'[h]
        PROVE  m[2] <= version'[m[1]]
    <3>1. CASE \E k \in Entities : m \in absorbed[k] BY <1>3, <3>1, BumpIs
    <3>2. CASE m = direct BY <1>4, <1>9, <3>2
    <3> QED BY <1>7, <3>1, <3>2
  <2> QED BY <1>3, <2>1, BumpIs DEF VersionsCounted
<1>12. PassedOn'
  <2> SUFFICES ASSUME NEW h \in Entities, NEW m \in absorbed'[h], m[2] = version'[m[1]]
               PROVE  absorbed'[m[1]] \subseteq absorbed'[h]
    BY DEF PassedOn
  <2>1. CASE \E k \in Entities : m \in absorbed[k] /\ absorbed[k] \subseteq absorbed'[h]
    <3>1. PICK k \in Entities : m \in absorbed[k] /\ absorbed[k] \subseteq absorbed'[h] BY <2>1
    <3>2. m[1] \in Entities /\ m[1] # t /\ m[2] = version[m[1]] BY <1>3, <3>1, BumpIs
    <3>3. absorbed[m[1]] \subseteq absorbed[k] BY <3>1, <3>2 DEF GraphInv, PassedOn
    <3> QED BY <1>7, <3>1, <3>2, <3>3
  <2>2. CASE h = t /\ m = direct BY <1>3, <1>7, <1>9, <2>2
  <2> QED BY <1>7, <2>1, <2>2
<1>13. /\ SpeaksFor(t)' \subseteq SpeaksFor(t) \cup SpeaksFor(s)
       /\ \A h \in Entities : h # t => SpeaksFor(h)' \subseteq SpeaksFor(h)
  <2>1. \A h \in Entities : \A m \in absorbed[h] : m[2] = version'[m[1]] => m[2] = version[m[1]]
    BY <1>3, BumpIs
  <2>2. \A h \in Entities : h # t => SpeaksFor(h)' \subseteq SpeaksFor(h)
    BY <1>7, <2>1 DEF SpeaksFor
  <2>3. ASSUME NEW y \in SpeaksFor(t)' PROVE y \in SpeaksFor(t) \cup SpeaksFor(s)
    <3>1. CASE y = t BY <3>1 DEF SpeaksFor
    <3>2. CASE y \in Entities /\ \E m \in absorbed'[t] : m[1] = y /\ m[2] = version'[y]
      <4>1. PICK m \in absorbed'[t] : m[1] = y /\ m[2] = version'[y] BY <3>2
      <4>2. CASE m \in absorbed[t] \cup absorbed[s] BY <2>1, <3>2, <4>1, <4>2 DEF SpeaksFor
      <4>3. CASE m = direct BY <1>9, <4>1, <4>3 DEF SpeaksFor
      <4> QED BY <1>7, <4>2, <4>3
    <3> QED BY <3>1, <3>2 DEF SpeaksFor
  <2> QED BY <2>2, <2>3
<1>14. direct \in Recorded(s, t)' BY <1>7, <1>9 DEF Recorded
<1>15. ASSUME NEW y \in Entities, Heir(y) = s PROVE Holds(t, y)'
  <2>1. Passes(y, s)' BY <1>4, <1>6, <1>15, HeirIs
  <2> QED BY <1>14, <2>1 DEF Holds
<1>16. ASSUME NEW y \in Entities, NEW q \in rel'[t], Heir(q) = Heir(y)
       PROVE  Holds(t, y)'
  BY <1>6, <1>16 DEF Holds
<1>17. ASSUME NEW y \in Entities, NEW z \in Entities, Passes(y, z),
              NEW k \in Entities, Recorded(z, k) # {}, k \in {s, t}
       PROVE  Holds(t, y)'
  <2>1. Recorded(z, t)' # {} BY <1>7, <1>17 DEF Recorded
  <2>2. Passes(y, z)' BY <1>6, <1>17
  <2> QED BY <2>1, <2>2 DEF Holds
<1>18. ASSUME NEW y \in Entities, Holds(t, y) PROVE Holds(t, y)'
  <2>1. CASE t = Heir(y) BY <1>6, <2>1 DEF Holds
  <2>2. CASE \E r \in rel[t] : Heir(r) = Heir(y)
    <3>1. PICK r \in rel[t] : Heir(r) = Heir(y) BY <2>2
    <3>2. CASE PathContains(r, s)
      <4>1. r \in Entities /\ Passes(r, s) BY <1>4, <1>6, <3>2, ReachIs
      <4>2. Heir(r) = s BY <1>3, <1>4, <4>1, HeirIs
      <4> QED BY <1>15, <3>1, <4>2
    <3>3. CASE ~PathContains(r, s)
      <4>1. r \in rel'[t] BY <1>8, <3>1, <3>3 DEF MergedRelationships
      <4> QED BY <1>16, <3>1, <4>1
    <3> QED BY <3>2, <3>3
  <2>3. CASE \E z \in Entities : Passes(y, z) /\ Recorded(z, t) # {} BY <1>17, <2>3
  <2> QED BY <1>18, <2>1, <2>2, <2>3 DEF Holds
<1>19. ASSUME NEW y \in Entities, Holds(s, y) PROVE Holds(t, y)'
  <2>1. CASE s = Heir(y) BY <1>15, <2>1
  <2>2. CASE \E r \in rel[s] : Heir(r) = Heir(y)
    <3>1. PICK r \in rel[s] : Reach(r) = Heir(y) BY <1>6, <2>2
    <3>2. Heir(Heir(y)) = Heir(y) BY <1>4, HeirIs
    <3>3. CASE Heir(y) = t BY <1>6, <3>3 DEF Holds
    <3>4. CASE Heir(y) # t
      <4>1. Heir(y) \in rel'[t] \/ \E k \in rel'[t] : k \in rel[t] /\ Reach(k) = Heir(y)
        BY <1>8, <3>1, <3>4 DEF MergedRelationships
      <4> QED BY <1>6, <1>16, <3>2, <4>1
    <3> QED BY <3>3, <3>4
  <2>3. CASE \E z \in Entities : Passes(y, z) /\ Recorded(z, s) # {} BY <1>17, <2>3
  <2> QED BY <1>19, <2>1, <2>2, <2>3 DEF Holds
<1>20. ToldHeld'
  <2> SUFFICES ASSUME NEW h \in Entities, NEW p \in told, status[h] # "merged", Heir(p[1]) \in SpeaksFor(h)'
               PROVE  Holds(h, p[2])'
    BY <1>3, <1>6 DEF ToldHeld
  <2>1. p[2] \in Entities BY <1>4
  <2>2. CASE h # t
    <3>1. Holds(h, p[2]) BY <1>13, <2>2 DEF GraphInv, ToldHeld
    <3> QED BY <1>5, <1>7, <1>8, <2>1, <2>2, <3>1, HoldsStay
  <2>3. CASE h = t
    <3>1. CASE Heir(p[1]) \in SpeaksFor(t)
      <4>1. Holds(t, p[2]) BY <2>3, <3>1 DEF GraphInv, ToldHeld
      <4> QED BY <1>18, <2>1, <2>3, <4>1
    <3>2. CASE Heir(p[1]) \in SpeaksFor(s)
      <4>1. Holds(s, p[2]) BY <1>3, <3>2 DEF GraphInv, ToldHeld
      <4> QED BY <1>19, <2>1, <2>3, <4>1
    <3> QED BY <1>13, <2>3, <3>1, <3>2
  <2> QED BY <2>2, <2>3
<1> QED BY <1>3, <1>5, <1>10, <1>11, <1>12, <1>20, QuietInv

\* The second write of a merge leads whoever came to the source to the target.
LEMMA RedirectLeads ==
  ASSUME GraphTyped, GraphOrdered, NEW s \in Entities, NEW t \in Entities, s # t,
         status[s] # "merged", status[t] = "current",
         status' = [status EXCEPT ![s] = "merged"], into' = [into EXCEPT ![s] = t]
  PROVE  /\ GraphOrdered'
         /\ \A y \in Entities : Heir(y)' = IF Heir(y) = s THEN t ELSE Heir(y)
         /\ \A y, z \in Entities : Passes(y, z) => Passes(y, z)'
<1> DEFINE M == Far
<1>1. M \in Nat /\ IsFiniteSet(Entities) /\ Cardinality(Entities) <= M + 1 BY GraphAssumption, FarIs
<1>2. /\ status \in [Entities -> {"absent", "current", "superseded", "merged"}]
      /\ into \in [Entities -> Entities \cup {NoEntity}]
  BY DEF GraphTyped
<1>3. Onward \in [Entities -> Entities] /\ Onward[s] = s /\ Onward[t] = t BY OnwardIs
<1>4. Onward' = [Onward EXCEPT ![s] = t]
  <2>1. \A e \in Entities : Onward'[e] = IF e = s THEN t ELSE Onward[e] BY <1>2 DEF Onward
  <2>2. Onward' = [e \in Entities |-> Onward'[e]] BY DEF Onward
  <2> QED BY <1>3, <2>1, <2>2
<1>5. Onward' \in [Entities -> Entities] /\ Onward'[s] = t BY <1>3, <1>4
<1>6. Ordered(Entities, Moves(Entities, Onward'))
  <2>1. \A u, v \in Entities : <<u, v>> \in Moves(Entities, Onward')
          => <<u, v>> \in Moves(Entities, Onward) \/ (u = s /\ v = t)
    BY <1>3, <1>4 DEF Moves
  <2>2. \A u, v \in Entities : u \in {t} /\ <<u, v>> \in Moves(Entities, Onward) => v \in {t}
    BY <1>3 DEF Moves
  <2>3. Ordered(Entities, Moves(Entities, Onward)) BY DEF GraphOrdered
  <2>4. {t} \in SUBSET Entities /\ s \notin {t} /\ t \in {t} OBVIOUS
  <2>5. PICK edges, more : edges = Moves(Entities, Onward) /\ more = Moves(Entities, Onward')
    OBVIOUS
  <2>6. PICK R \in SUBSET Entities : R = {t} BY <2>4
  <2>7. /\ Ordered(Entities, edges) /\ s \notin R /\ t \in R
        /\ \A u, v \in Entities : u \in R /\ <<u, v>> \in edges => v \in R
        /\ \A u, v \in Entities : <<u, v>> \in more => <<u, v>> \in edges \/ (u = s /\ v = t)
    BY <2>1, <2>2, <2>3, <2>4, <2>5, <2>6
  <2>8. Ordered(Entities, more) BY <1>1, <2>7, OrderedJoin
  <2> QED BY <2>5, <2>8
<1>7. GraphOrdered'
  <2>1. ASSUME NEW e \in Entities, status'[e] = "merged"
        PROVE  into'[e] \in Entities \ {e} /\ status'[into'[e]] # "absent"
    <3>1. CASE e = s BY <1>2, <3>1
    <3>2. CASE e # s
      <4>1. into'[e] = into[e] /\ into[e] \in Entities \ {e} /\ status[into[e]] # "absent"
        BY <1>2, <2>1, <3>2 DEF GraphOrdered
      <4> QED BY <1>2, <4>1
    <3> QED BY <3>1, <3>2
  <2> QED BY <1>6, <2>1 DEF GraphOrdered
<1>8. ASSUME NEW y \in Entities
      PROVE  /\ Heir(y)' = IF Heir(y) = s THEN t ELSE Heir(y)
             /\ \A z \in Entities : Passes(y, z) => Passes(y, z)'
  <2> DEFINE at == Walk(Onward, y, M)
             new == Walk(Onward', y, M)
  <2>1. \A k \in 0..M : new[k] = at[k] \/ (at[k] = s /\ new[k] = t /\ \E i \in 0..M : new[i] = s)
    <3>1. PICK next, more : next = Onward /\ more = Onward' OBVIOUS
    <3>2. \A k \in 0..M : \/ Walk(more, y, M)[k] = Walk(next, y, M)[k]
                          \/ /\ Walk(next, y, M)[k] = s /\ Walk(more, y, M)[k] = t
                             /\ \E i \in 0..M : Walk(more, y, M)[i] = s
      <4>1. /\ next \in [Entities -> Entities] /\ next[s] = s /\ next[t] = t /\ more[s] = t
            /\ (\A z \in Entities : z # s => more[z] = next[z]) /\ M \in Nat
        BY <1>1, <1>3, <1>4, <3>1
      <4> HIDE DEF M
      <4> QED BY <4>1, WalkJoin
    <3> QED BY <3>1, <3>2
  <2>2. Onward'[new[M]] = new[M] BY <1>1, <1>5, <1>6, WalkEnds
  <2>3. /\ Along(y, Far) = at /\ Along(y, Far)' = new
        /\ Heir(y) = at[M] /\ Heir(y)' = new[M]
    BY AlongIs DEF Heir
  <2>4. M \in 0..M BY <1>1
  <2> HIDE DEF at, new
  <2>5. Heir(y)' = IF Heir(y) = s THEN t ELSE Heir(y) BY <1>5, <2>1, <2>2, <2>3, <2>4
  <2>6. ASSUME NEW z \in Entities, Passes(y, z) PROVE Passes(y, z)'
    <3>1. PICK k \in 0..M : at[k] = z BY <2>3, <2>6 DEF Passes
    <3>2. \E i \in 0..M : new[i] = z BY <2>1, <3>1
    <3> QED BY <2>3, <3>2 DEF Passes
  <2> QED BY <2>5, <2>6
<1> QED BY <1>7, <1>8

LEMMA MergeRedirectInv ==
  ASSUME GraphInv, NEW s \in Entities, NEW x \in Entities, MergeRedirect(s, x)
  PROVE  GraphInv'
<1>1. PICK t \in Entities : t = Reach(x) BY ReachIs DEF GraphInv
<1>2. /\ s # t /\ status[s] \in {"current", "superseded"} /\ status[t] = "current" /\ RoleSafe(s, t)
      /\ rel' = [rel EXCEPT ![s] = {}]
      /\ status' = [status EXCEPT ![s] = "merged"] /\ into' = [into EXCEPT ![s] = t]
      /\ UNCHANGED <<version, absorbed, tlinks, wlinks, told, graphEdits>>
  BY <1>1 DEF MergeRedirect, Mergeable, Writable
<1>3. PICK m \in absorbed[t] : m[1] = s /\ m[2] = version[s]
  BY <1>1 DEF MergeRedirect, Recorded, SameSource
<1>4. /\ GraphTyped /\ GraphOrdered /\ rel \in [Entities -> SUBSET Entities]
      /\ status \in [Entities -> {"absent", "current", "superseded", "merged"}]
      /\ into \in [Entities -> Entities \cup {NoEntity}]
      /\ told \subseteq Entities \X Entities /\ wlinks \in [LinkThreads -> SUBSET (Roles \X Entities)]
  BY DEF GraphInv, GraphTyped
<1>5. /\ GraphOrdered'
      /\ \A y \in Entities : Heir(y)' = IF Heir(y) = s THEN t ELSE Heir(y)
      /\ \A y, z \in Entities : Passes(y, z) => Passes(y, z)'
  BY <1>2, <1>4, RedirectLeads
<1>6. GraphTyped' BY <1>2, <1>4 DEF GraphTyped
<1>7. VersionsCounted' /\ PassedOn' BY <1>2 DEF GraphInv, VersionsCounted, PassedOn
<1>8. \A h : SpeaksFor(h)' = SpeaksFor(h) /\ \A z : Recorded(z, h)' = Recorded(z, h)
  BY <1>2 DEF SpeaksFor, Recorded
<1>9. /\ \A h \in Entities : h # s => status'[h] = status[h] /\ rel'[h] = rel[h]
      /\ status'[s] = "merged"
  BY <1>2, <1>4
<1>10. ASSUME NEW h \in Entities, h # s, NEW y \in Entities, Holds(h, y)
       PROVE  Holds(h, y)'
  <2>1. CASE h = Heir(y) BY <1>5, <1>10, <2>1 DEF Holds
  <2>2. CASE \E r \in rel[h] : Heir(r) = Heir(y)
    <3>1. PICK r \in rel[h] : Heir(r) = Heir(y) BY <2>2
    <3>2. r \in Entities /\ r \in rel'[h] BY <1>4, <1>9, <1>10, <3>1
    <3>3. Heir(r)' = Heir(y)' BY <1>5, <3>1, <3>2
    <3> QED BY <3>2, <3>3 DEF Holds
  <2>3. CASE \E z \in Entities : Passes(y, z) /\ Recorded(z, h) # {}
    <3>1. \E z \in Entities : Passes(y, z)' /\ Recorded(z, h)' # {} BY <1>5, <1>8, <2>3
    <3> QED BY <3>1 DEF Holds
  <2> QED BY <1>10, <2>1, <2>2, <2>3 DEF Holds
<1>11. ASSUME NEW h \in Entities, t \in SpeaksFor(h) PROVE s \in SpeaksFor(h)
  <2>1. m \in absorbed[h]
    <3>1. CASE h = t BY <3>1
    <3>2. CASE h # t
      <4>1. PICK n \in absorbed[h] : n[1] = t /\ n[2] = version[t] BY <1>11, <3>2 DEF SpeaksFor
      <4> QED BY <4>1 DEF GraphInv, PassedOn
    <3> QED BY <3>1, <3>2
  <2> QED BY <1>3, <2>1 DEF SpeaksFor
<1>12. ToldHeld'
  <2> SUFFICES ASSUME NEW h \in Entities, NEW p \in told, status'[h] # "merged", Heir(p[1])' \in SpeaksFor(h)
               PROVE  Holds(h, p[2])'
    BY <1>2, <1>8 DEF ToldHeld
  <2>1. h # s /\ status[h] # "merged" /\ p[1] \in Entities /\ p[2] \in Entities BY <1>4, <1>9
  <2>2. Heir(p[1]) \in SpeaksFor(h) BY <1>5, <1>11, <2>1
  <2>3. Holds(h, p[2]) BY <2>1, <2>2 DEF GraphInv, ToldHeld
  <2> QED BY <1>10, <2>1, <2>3
<1>13. ThreadsFit'
  <2> SUFFICES ASSUME NEW w \in LinkThreads, NEW l \in wlinks[w]
               PROVE  /\ status'[Reach(l[2])'] # "absent"
                      /\ \A k \in wlinks[w] : Resolves(l[2])' /\ Reach(l[2])' = Reach(k[2])' => l[1] = k[1]
    BY <1>2 DEF ThreadsFit, LinksFit
  <2>1. \A k \in wlinks[w] : /\ k[2] \in Entities /\ Resolves(k[2]) /\ Reach(k[2]) = Heir(k[2])
                             /\ Heir(k[2]) \in Entities /\ Reach(k[2])' \in Entities
                             /\ status'[Reach(k[2])'] # "merged" => Reach(k[2])' = Heir(k[2])'
    <3>1. (\A e \in Entities : Reach(e) \in Entities /\ (status[Reach(e)] # "merged" => Reach(e) = Heir(e)))'
      BY <1>5, <1>6, ReachLeads, PTL
    <3> QED BY <1>2, <1>4, <3>1, ReachIs, HeirIs DEF RoleSafe
  <2>2. status'[Reach(l[2])'] # "absent"
    <3>1. ASSUME status'[Reach(l[2])'] # "merged" PROVE status'[Reach(l[2])'] # "absent"
      <4>1. Reach(l[2])' = t \/ Reach(l[2])' = Reach(l[2]) BY <1>5, <2>1, <3>1
      <4> QED BY <1>2, <1>9, <2>1, <4>1 DEF Resolves
    <3> QED BY <3>1
  <2>3. ASSUME NEW k \in wlinks[w], Resolves(l[2])', Reach(l[2])' = Reach(k[2])' PROVE l[1] = k[1]
    <3>1. Heir(l[2])' = Heir(k[2])' BY <2>1, <2>3 DEF Resolves
    <3>2. CASE Reach(l[2]) = Reach(k[2]) BY <2>1, <3>2 DEF GraphInv, ThreadsFit, LinksFit
    <3>3. CASE Reach(l[2]) # Reach(k[2])
      <4>1. {Reach(l[2]), Reach(k[2])} = {s, t} BY <1>5, <2>1, <3>1, <3>3
      <4> QED BY <1>2, <3>3, <4>1 DEF RoleSafe
    <3> QED BY <3>2, <3>3
  <2> QED BY <2>2, <2>3
<1> QED BY <1>5, <1>6, <1>7, <1>12, <1>13 DEF GraphInv

LEMMA GraphInitInv == GraphInit => GraphInv
<1> SUFFICES ASSUME GraphInit PROVE GraphInv
  OBVIOUS
<1>1. GraphTyped BY GraphAssumption DEF GraphInit, GraphTyped
<1>2. \A e \in Entities : status[e] = "absent" /\ version[e] = 0 /\ absorbed[e] = {}
  BY DEF GraphInit
<1>3. GraphOrdered
  <2>1. \A e \in Entities : Onward[e] = e BY <1>2 DEF Onward
  <2>2. Moves(Entities, Onward) = {} BY <2>1 DEF Moves
  <2>3. Ordered(Entities, {})
    <3>1. [e \in Entities |-> 0] \in [Entities -> Nat] OBVIOUS
    <3> QED BY <3>1 DEF Ordered
  <2> QED BY <1>2, <2>2, <2>3 DEF GraphOrdered
<1>4. VersionsCounted /\ PassedOn BY <1>2 DEF GraphInit, VersionsCounted, PassedOn
<1>5. ToldHeld /\ ThreadsFit BY DEF GraphInit, ToldHeld, ThreadsFit, LinksFit
<1> QED BY <1>1, <1>3, <1>4, <1>5 DEF GraphInv

LEMMA GraphStutterInv ==
  ASSUME GraphInv, UNCHANGED graphVars
  PROVE  GraphInv'
<1>1. UNCHANGED <<status, into, version, rel, absorbed, tlinks, wlinks, told, graphEdits>>
  BY DEF graphVars
<1>2. /\ tlinks' \in [LinkTasks -> SUBSET Entities] /\ wlinks' \in [LinkThreads -> SUBSET (Roles \X Entities)]
      /\ \A w \in LinkThreads : LinksFit(wlinks'[w])
  BY <1>1 DEF GraphInv, GraphTyped, ThreadsFit
<1> QED BY <1>1, <1>2, LinksInv

LEMMA GraphNextInv == GraphInv /\ [GraphNext]_graphVars => GraphInv'
<1> SUFFICES ASSUME GraphInv, [GraphNext]_graphVars PROVE GraphInv'
  OBVIOUS
<1>1. ASSUME NEW e \in Entities, CreateEntity(e) PROVE GraphInv' BY <1>1, CreateEntityInv
<1>2. ASSUME NEW e \in Entities, NEW a \in {"current", "superseded"}, UpdateEntity(e, a) PROVE GraphInv'
  BY <1>2, UpdateEntityInv
<1>3. ASSUME NEW e \in Entities, NEW x \in Entities,
             LinkEntity(e, x) \/ UnlinkEntity(e, x) \/ MergeAbsorb(e, x) \/ MergeRedirect(e, x)
      PROVE  GraphInv'
  BY <1>3, LinkEntityInv, UnlinkEntityInv, MergeAbsorbInv, MergeRedirectInv
<1>4. ASSUME NEW k \in LinkTasks, NEW e \in Entities,
             UpdateTaskLinks(k, {e}, {}) \/ UpdateTaskLinks(k, {}, {e})
      PROVE  GraphInv'
  <2>1. {e} \in SUBSET Entities /\ {} \in SUBSET Entities OBVIOUS
  <2> QED BY <1>4, <2>1, UpdateTaskLinksInv
<1>5. ASSUME NEW w \in LinkThreads, NEW r \in Roles, NEW e \in Entities,
             UpdateThreadLinks(w, {<<r, e>>}, {}) \/ UpdateThreadLinks(w, {}, {<<r, e>>})
      PROVE  GraphInv'
  <2>1. {<<r, e>>} \in SUBSET (Roles \X Entities) /\ {} \in SUBSET (Roles \X Entities) OBVIOUS
  <2> QED BY <1>5, <2>1, UpdateThreadLinksInv
<1>6. ASSUME NEW v \in LinkThreads, NEW w \in LinkThreads, MergeThreadLinks(v, w) PROVE GraphInv'
  BY <1>6, MergeThreadLinksInv
<1>7. CASE UNCHANGED graphVars BY <1>7, GraphStutterInv
<1>8. CASE GraphNext BY <1>1, <1>2, <1>3, <1>4, <1>5, <1>6, <1>8, Zenon DEF GraphNext
<1> QED BY <1>7, <1>8

LEMMA GraphInvHonest == GraphInv => GraphHonest
<1> SUFFICES ASSUME GraphInv PROVE NoRelationLost /\ OneRolePerEntity
  BY DEF GraphInv, GraphHonest
<1>1. ASSUME NEW p \in told PROVE Holds(Heir(p[1]), p[2])
  <2>1. GraphTyped /\ GraphOrdered /\ p[1] \in Entities BY DEF GraphInv, GraphTyped
  <2>2. Heir(p[1]) \in Entities /\ status[Heir(p[1])] # "merged" BY <2>1, HeirIs
  <2>3. Heir(p[1]) \in SpeaksFor(Heir(p[1])) BY DEF SpeaksFor
  <2> QED BY <2>2, <2>3 DEF GraphInv, ToldHeld
<1>2. OneRolePerEntity BY DEF GraphInv, ThreadsFit, LinksFit, OneRolePerEntity
<1> QED BY <1>1, <1>2 DEF NoRelationLost, Holds

\* Every relationship a caller recorded and nobody ended (link_entity,
\* unlink_entity) outlives the merges of what it names, also one that died
\* between its two writes and was finished by a retry (merge_entity); and no
\* WorkThread comes to name one entity in two roles
\* (_assert_entity_merge_role_safe).
THEOREM GraphIsHonest == GraphSpec => []GraphHonest
<1>1. GraphInit => GraphInv BY GraphInitInv
<1>2. GraphInv /\ [GraphNext]_graphVars => GraphInv' BY GraphNextInv
<1>3. GraphInv => GraphHonest BY GraphInvHonest
<1> QED BY <1>1, <1>2, <1>3, PTL DEF GraphSpec
=============================================================================
