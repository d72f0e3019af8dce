-------------------------- MODULE ConnectorProofs --------------------------
(* Proofs about the connectors.  Authentication, for any processes and
   bounds: what custody of a credential holds (AuthCustody), over what a
   connection says ready (ReadyVerified), and what no step does (AuthSteps).
   The calls of one runtime, for any calls, tokens, capacities and lifetimes:
   a confirmation executes once (OnceConfirmed), and what calls leave behind
   stays in custody (CustodyKept).  What a provider is sent, by an upload and
   by a write that others may overtake (SentAsSaid). *)
EXTENDS MCConnectors, Integers, WellFoundedInduction, TLAPS

----------------------------------------
(* ConnectorAuth: the inductive invariant *)

Ops == [kind : Kinds \cup {"none"}, pc : Points \cup {"idle"}, rev : Nat, tok : Nat, cred : Nat]
Granting == {"connect", "authorize", "reauthorize"}
Refreshing == {"read", "resume"}

\* The steps of each operation.
Placed(c) ==
  /\ c.kind = "connect" => c.pc \in {"lock", "put", "stage", "point", "drop", "mark"}
  /\ c.kind = "authorize" => c.pc \in {"lock", "mark", "recheck", "stage", "point", "drop"}
  /\ c.kind = "reauthorize" => c.pc \in {"lock", "stage", "point", "drop", "put"}
  /\ c.kind = "read" => c.pc \in {"lock", "token", "stage", "point", "drop", "call", "report", "mark"}
  /\ c.kind = "resume" => c.pc \in {"lock", "token", "stage", "point", "drop", "verify",
                                    "confirm", "put"}
  /\ c.kind = "remove" => c.pc \in {"revoke", "lock", "wipe", "unlink", "forget"}
  /\ c.kind = "import" => c.pc \in {"replace", "lock", "stage", "point", "drop"}
  /\ c.kind = "alias" => c.pc \in {"lock", "put"}
  /\ c.kind = "none" => c = NoOp

Gone == health \in {"revoked", "absent"}

\* What the health is when the file is still at the revision the call read.
Seen(c) ==
  /\ c.rev <= rev
  /\ c.rev = rev =>
       /\ c.kind \in {"authorize", "reauthorize", "read", "resume", "import", "alias"} => health \in Live
       /\ c.kind = "remove" => health \in Live \cup {"revoked"}
       /\ c.kind = "remove" /\ c.pc # "revoke" => health = "revoked"
       /\ c.kind = "connect" /\ c.pc = "put" => health = "fresh"

\* A removal past its checkpoint, an import past the restored health.
Underway(c) ==
  /\ c.kind = "remove" /\ c.pc # "revoke" => Gone
  /\ c.kind = "remove" /\ c.pc = "unlink" => slots = Empty
  /\ c.kind = "import" /\ c.pc # "replace" => imported # 0

\* What a call under the lock knows of custody.
Holds(c) ==
  /\ c.kind # "remove" /\ c.pc \in {"recheck", "token", "stage", "point"} => ptr = c.tok
  /\ c.kind = "connect" /\ c.pc = "put" => ptr = c.tok
  /\ c.kind = "authorize" /\ c.pc = "mark" => ptr = c.tok
  /\ c.pc = "token" => Custody # 0
  /\ c.pc \in {"stage", "point"} /\ c.kind = "import" => spent = {}
  /\ c.pc \in {"stage", "point"} /\ c.kind \in Refreshing => Custody \in spent
  /\ c.pc = "point" => slots[Slot(ptr + 1)] = c.cred
  /\ c.pc = "drop" => ptr = c.tok + 1
  /\ c.pc = "drop" => Custody = c.cred
  /\ c.kind = "connect" /\ c.pc = "mark" => Custody = c.cred
  /\ c.kind = "reauthorize" /\ c.pc = "put" => Custody = c.cred
  /\ c.kind = "read" /\ c.pc = "mark" => ptr = c.tok
  /\ c.kind = "resume" /\ c.pc = "put" => ptr = c.tok

\* The call uses a credential outside the lock, or reports about it.
OpUses(c) ==
  \/ c.kind = "read" /\ c.pc \in {"call", "report", "mark"}
  \/ c.kind = "resume" /\ c.pc \in {"verify", "confirm", "put"}

\* The credential a call brings, or has read.
Brings(c) ==
  /\ c.cred \in 0..issued
  /\ c.kind \in Granting \cup {"import"} \/ OpUses(c) => c.cred # 0
  /\ c.kind \in {"connect", "reauthorize"} => c.cred \in verified
  /\ c.kind = "import" => c.cred = Archive
  /\ c.pc \in {"stage", "point", "drop"} => c.cred # 0 /\ (health = "ready" => c.cred \in verified)
  /\ c.kind = "read" /\ c.pc \in {"report", "mark"} => c.cred \in rejected
  /\ c.kind = "resume" /\ c.pc \in {"confirm", "put"} => c.cred \in verified

\* While the pointer is the one the call read, its credential is in custody.
Used(c) ==
  OpUses(c) => Gone \/ (c.tok <= ptr /\ (c.tok = ptr => Custody = c.cred))

\* A credential that was issued and not published yet.
Pending(c) ==
  \/ c.kind \in Granting /\ c.pc \in {"lock", "recheck", "stage", "point"}
  \/ c.kind = "connect" /\ c.pc = "put"
  \/ c.kind = "authorize" /\ c.pc = "mark"
  \/ c.kind \in Refreshing /\ c.pc \in {"stage", "point"}
New(c) == Pending(c) => c.cred > Archive /\ c.cred \notin spent /\ c.cred # Custody

CallInv(c) ==
  Placed(c) /\ Seen(c) /\ Underway(c) /\ Holds(c) /\ Brings(c) /\ Used(c) /\ New(c)

\* Nothing comes back after a removal.
Sealed == health = "absent" \/ \E p \in Procs : op[p].kind = "remove" /\ op[p].pc = "forget"
SealedInv ==
  Sealed => ~Occupied /\ \A p \in Procs : op[p].pc \in Inside => op[p].kind = "remove"

PairInv ==
  \A p, q \in Procs : p # q /\ Pending(op[p]) /\ Pending(op[q]) => op[p].cred # op[q].cred

SpentKept ==
  Custody \in spent =>
    \/ Custody \in lost
    \/ \E p \in Procs : lock = p /\ op[p].kind \in Refreshing /\ op[p].pc \in {"stage", "point"}

FileInv ==
  /\ rev >= 1 /\ imported <= rev /\ (imported = rev => health = "unverified")
  /\ health = "ready" /\ ptr = 0 => imported = 0
  /\ PointerResolves /\ ReadyVerified

AuthIssuedInv ==
  /\ issued >= Archive /\ slots \in [Slots -> 0..issued]
  /\ spent # {} => Gone \/ ptr # 0

AuthInv ==
  /\ TypeOK /\ FileInv /\ AuthIssuedInv /\ SealedInv /\ SpentKept /\ PairInv
  /\ \A p \in Procs : CallInv(op[p])

----------------------------------------
(* What a step of one process does to the others *)

\* The call of p becomes v, and the lock is p's exactly while v is inside.
Becomes(p, v) ==
  /\ op' \in [Procs -> Ops] /\ op'[p] = v /\ \A q \in Procs : q # p => op'[q] = op[q]
  /\ lock' = IF v.pc \in Inside THEN p ELSE IF lock = p THEN NoProc ELSE lock
  /\ v.pc \in Inside => lock \in {p, NoProc}
  /\ Pending(v) => v.cred > issued \/ (Pending(op[p]) /\ v.cred = op[p].cred)

\* Health changes with a new revision; the custody of a connection that is not
\* being removed only moves to the next version; only the holder of the lock
\* touches custody, spends a credential, or says ready.
Shifts(p) ==
  /\ rev' \in Nat /\ rev <= rev' /\ (health' = health \/ rev < rev')
  /\ Gone => Gone'
  /\ ptr' \in Nat /\ (Gone' \/ (ptr <= ptr' /\ (ptr' = ptr => Custody' = Custody)))
  /\ verified \subseteq verified' /\ rejected \subseteq rejected'
  /\ issued <= issued' /\ issued' \in Nat /\ (imported # 0 => imported' # 0)
  /\ lock = p \/ (UNCHANGED <<ptr, slots, spent>> /\ (health' = "ready" => health = "ready"))
  /\ spent' \subseteq spent \cup {Custody}
  /\ \/ Custody' \in {Custody, 0, Archive}
     \/ Pending(op[p]) /\ Custody' = op[p].cred

LEMMA SlotsDiffer ==
  ASSUME NEW n \in Nat
  PROVE  Slot(n) \in Slots /\ Slot(n + 1) \in Slots /\ Slot(n) # Slot(n + 1)
BY DEF Slot, Slots

LEMMA CallTyped ==
  ASSUME AuthInv, NEW p \in Procs
  PROVE  op[p] \in Ops /\ CallInv(op[p]) /\ (lock = p <=> op[p].pc \in Inside)
BY DEF AuthInv, TypeOK, Ops

LEMMA IdleCall ==
  ASSUME rev' \in Nat, rev' >= 1, issued' \in Nat
  PROVE  CallInv(NoOp)' /\ NoOp \in Ops /\ NoOp.pc \notin Inside /\ ~Pending(NoOp)
                        /\ NoOp.kind = "none"
BY DEF NoOp, CallInv, Placed, Seen, Underway, Holds, Brings, Used, OpUses, New, Pending, Granting,
       Refreshing, Ops, Kinds, Points, Inside

\* A call is not disturbed by the step of another process.
LEMMA OtherCall ==
  ASSUME AuthInv, NEW p \in Procs, Shifts(p), NEW c \in Ops, CallInv(c),
         c.pc \in Inside => lock # p,
         Pending(c) /\ Pending(op[p]) => c.cred # op[p].cred
  PROVE  CallInv(c)'
<1>1. /\ rev \in Nat /\ ptr \in Nat /\ issued \in Nat /\ c.rev \in Nat /\ c.cred \in Nat
      /\ c.tok \in Nat
  BY DEF AuthInv, TypeOK, Ops
<1>2. c.pc \in Inside => UNCHANGED <<ptr, slots, spent, Custody>> /\ (health' = "ready" => health = "ready")
  BY DEF Shifts, Custody
<1>3. Placed(c)' BY DEF CallInv, Placed
<1>4. Seen(c)' BY <1>1 DEF CallInv, Seen, Shifts
<1>5. Underway(c)' BY <1>2 DEF CallInv, Underway, Shifts, Inside
<1>6. Holds(c)' BY <1>2 DEF CallInv, Holds, Inside, Refreshing
<1>7. Brings(c)' BY <1>1, <1>2 DEF CallInv, Brings, Shifts, Inside
<1>8. Used(c)' BY <1>1 DEF CallInv, Used, OpUses, Shifts
<1>9. New(c)'
  <2> SUFFICES ASSUME Pending(c) PROVE c.cred > Archive /\ c.cred \notin spent' /\ c.cred # Custody'
    BY DEF New, Pending
  <2>1. c.cred > Archive /\ c.cred \notin spent /\ c.cred # Custody BY DEF CallInv, New
  <2> QED BY <1>1, <2>1 DEF Shifts, Archive
<1> QED BY <1>3, <1>4, <1>5, <1>6, <1>7, <1>8, <1>9 DEF CallInv

\* After a step of p every call fits, and so do the lock and the new credentials.
LEMMA CallsFit ==
  ASSUME AuthInv, NEW p \in Procs, Shifts(p), NEW v \in Ops, Becomes(p, v), CallInv(v)'
  PROVE  /\ op' \in [Procs -> Ops] /\ lock' \in Procs \cup {NoProc}
         /\ \A q \in Procs : CallInv(op[q])' /\ (lock' = q <=> op'[q].pc \in Inside)
         /\ \A q \in Procs : q # p => op'[q] = op[q]
         /\ op'[p] = v /\ PairInv'
<1>1. op \in [Procs -> Ops] /\ op' \in [Procs -> Ops] /\ op'[p] = v
  BY DEF AuthInv, TypeOK, Ops, Becomes
<1>2. \A q \in Procs : q # p => op'[q] = op[q] BY <1>1 DEF Becomes
<1>3. lock \in Procs \cup {NoProc} /\ NoProc \notin Procs
  BY ConnectorAuthAssumption DEF AuthInv, TypeOK
<1>4. \A q \in Procs : lock' = q <=> op'[q].pc \in Inside
  BY <1>1, <1>2, <1>3, CallTyped DEF Becomes
<1>5. ASSUME NEW q \in Procs, q # p PROVE CallInv(op[q])'
  <2>1. PICK c \in Ops : c = op[q] /\ c = op'[q] BY <1>1, <1>2, <1>5
  <2>2. CallInv(c) /\ (c.pc \in Inside => lock # p) BY <1>5, <2>1, CallTyped
  <2>3. Pending(c) /\ Pending(op[p]) => c.cred # op[p].cred BY <1>5, <2>1 DEF AuthInv, PairInv
  <2>4. CallInv(c)' BY <2>2, <2>3, OtherCall
  <2> QED BY <2>1, <2>4
<1>6. CallInv(op[p])'
  <2>1. PICK c : c = v /\ c = op'[p] /\ CallInv(c)' BY <1>1
  <2> QED BY <2>1
<1>7. PairInv'
  <2>1. \A q \in Procs : op[q].cred <= issued /\ op[q].cred \in Nat /\ issued \in Nat
    BY CallTyped DEF AuthInv, TypeOK, CallInv, Brings
  <2>2. ASSUME NEW q \in Procs, q # p, Pending(op[q])', Pending(op[p])'
        PROVE  op'[q].cred # op'[p].cred
    <3>1. Pending(op[q]) /\ Pending(v) BY <1>1, <1>2, <2>2 DEF Pending
    <3> QED BY <1>1, <1>2, <2>1, <2>2, <3>1 DEF Becomes, AuthInv, PairInv, Ops
  <2>3. ASSUME NEW q \in Procs, NEW r \in Procs, q # r, Pending(op[q])', Pending(op[r])'
        PROVE  op'[q].cred # op'[r].cred
    <3>1. CASE q = p \/ r = p BY <2>2, <2>3, <3>1
    <3>2. CASE q # p /\ r # p
      <4>1. Pending(op[q]) /\ Pending(op[r]) BY <1>2, <2>3, <3>2 DEF Pending
      <4> QED BY <1>2, <2>3, <3>2, <4>1 DEF AuthInv, PairInv
    <3> QED BY <3>1, <3>2
  <2> QED BY <2>3 DEF PairInv
<1> QED BY <1>1, <1>2, <1>3, <1>4, <1>5, <1>6, <1>7 DEF Becomes

\* The types of what no operation's record holds.
DataTyped ==
  /\ health \in Health /\ imported \in Nat /\ verified \subseteq 1..issued
  /\ spent \subseteq 1..issued /\ lost \subseteq spent /\ rejected \subseteq 1..issued
  /\ started \in 0..MaxOps /\ faults \in 0..MaxFaults

LEMMA CallStep ==
  ASSUME AuthInv, NEW p \in Procs, Shifts(p), NEW v \in Ops, Becomes(p, v), CallInv(v)',
         DataTyped', FileInv', AuthIssuedInv', SealedInv', SpentKept'
  PROVE  AuthInv'
<1>1. /\ op' \in [Procs -> Ops] /\ lock' \in Procs \cup {NoProc} /\ PairInv'
      /\ \A q \in Procs : CallInv(op[q])' /\ (lock' = q <=> op'[q].pc \in Inside)
  BY CallsFit
<1>2. slots' \in [Slots -> Nat] BY DEF AuthIssuedInv, Shifts
<1>3. TypeOK' BY <1>1, <1>2 DEF TypeOK, DataTyped, Shifts, Ops
<1> QED BY <1>1, <1>3 DEF AuthInv

\* Nobody enters once a removal is past its checkpoint; who seals holds the lock.
Enters(p, v) ==
  v.pc \in Inside => \/ v.kind = "remove" \/ ~Gone
                     \/ op[p].pc \in Inside /\ v.kind = op[p].kind

LEMMA StaysSealed ==
  ASSUME AuthInv, NEW p \in Procs, Shifts(p), NEW v \in Ops, Becomes(p, v), CallInv(v)',
         Enters(p, v), Sealed => ~Occupied',
         ~Sealed /\ (health' = "absent" \/ (v.kind = "remove" /\ v.pc = "forget"))
           => lock = p /\ v.pc \notin Inside /\ ~Occupied'
  PROVE  SealedInv'
<1>1. /\ op'[p] = v /\ \A q \in Procs : q # p => op'[q] = op[q]
      /\ \A q \in Procs : lock = q <=> op[q].pc \in Inside
  BY CallsFit, CallTyped
<1>2. CASE Sealed
  <2>1. Gone /\ \A q \in Procs : op[q].pc \in Inside => op[q].kind = "remove"
    BY <1>2 DEF AuthInv, SealedInv, Sealed, Gone, CallInv, Underway
  <2>2. \A q \in Procs : op'[q].pc \in Inside => op'[q].kind = "remove" BY <1>1, <2>1 DEF Enters
  <2> QED BY <1>2, <2>2 DEF SealedInv
<1>3. CASE ~Sealed
  <2> SUFFICES ASSUME Sealed' PROVE ~Occupied' /\ \A q \in Procs : op'[q].pc \notin Inside
    BY DEF SealedInv
  <2>1. health' = "absent" \/ (v.kind = "remove" /\ v.pc = "forget") BY <1>1, <1>3 DEF Sealed
  <2> QED BY <1>1, <1>3, <2>1
<1> QED BY <1>2, <1>3

\* The call is between consuming a refresh token and publishing its successor.
Publishing(c) == c.kind \in Refreshing /\ c.pc \in {"stage", "point"}

LEMMA StaysKept ==
  ASSUME AuthInv, NEW p \in Procs, Shifts(p), NEW v \in Ops, Becomes(p, v), CallInv(v)',
         Custody' = Custody, spent' = spent, lost \subseteq lost',
         Publishing(op[p]) => Publishing(v) \/ Custody \in lost'
  PROVE  SpentKept'
<1>1. /\ op'[p] = v /\ \A q \in Procs : q # p => op'[q] = op[q]
      /\ \A q \in Procs : lock = q <=> op[q].pc \in Inside
      /\ \A q \in Procs : lock' = q <=> op'[q].pc \in Inside
  BY CallsFit, CallTyped
<1> SUFFICES ASSUME Custody \in spent, Custody \notin lost'
             PROVE  \E q \in Procs : lock' = q /\ Publishing(op'[q])
  BY DEF SpentKept, Publishing, Refreshing
<1>2. PICK q \in Procs : lock = q /\ Publishing(op[q]) BY DEF AuthInv, SpentKept, Publishing
<1>3. Publishing(op'[q]) BY <1>1, <1>2
<1>4. op'[q].pc \in Inside BY <1>3 DEF Publishing, Inside
<1> QED BY <1>1, <1>3, <1>4

\* A step that leaves file and custody as they are.
Quiet ==
  /\ UNCHANGED <<health, rev, imported, ptr, slots, spent, lost>>
  /\ verified \subseteq verified' /\ rejected \subseteq rejected' /\ issued <= issued'
  /\ issued' \in Nat /\ verified' \subseteq 1..issued' /\ rejected' \subseteq 1..issued'
  /\ started' \in 0..MaxOps /\ faults' \in 0..MaxFaults

LEMMA QuietEffect ==
  ASSUME AuthInv, NEW p \in Procs, Quiet
  PROVE  /\ Shifts(p) /\ DataTyped' /\ FileInv' /\ AuthIssuedInv' /\ Custody' = Custody
         /\ rev' >= 1
<1>1. Custody' = Custody /\ (Gone <=> Gone') BY DEF Quiet, Custody, Gone
<1>2. rev \in Nat /\ ptr \in Nat /\ issued \in Nat /\ rev >= 1 BY DEF AuthInv, TypeOK, FileInv
<1>3. Shifts(p) BY <1>1, <1>2 DEF Shifts, Quiet
<1>4. DataTyped' BY <1>2 DEF AuthInv, TypeOK, DataTyped, Quiet
<1>5. FileInv' BY <1>1 DEF AuthInv, FileInv, PointerResolves, ReadyVerified, Quiet
<1>6. AuthIssuedInv'
  <2>1. \A n \in 0..issued : n \in 0..issued' BY <1>2 DEF Quiet
  <2>2. slots' \in [Slots -> 0..issued'] BY <2>1 DEF AuthInv, AuthIssuedInv, Quiet
  <2> QED BY <1>1, <1>2, <2>2 DEF AuthInv, AuthIssuedInv, Quiet, Archive
<1> QED BY <1>1, <1>2, <1>3, <1>4, <1>5, <1>6 DEF Quiet

LEMMA QuietStep ==
  ASSUME AuthInv, NEW p \in Procs, Quiet, NEW v \in Ops, Becomes(p, v), CallInv(v)',
         Enters(p, v), ~Publishing(op[p]), v.kind = "remove" => v.pc # "forget"
  PROVE  AuthInv'
<1>1. Shifts(p) /\ DataTyped' /\ FileInv' /\ AuthIssuedInv' /\ Custody' = Custody BY QuietEffect
<1>2. SpentKept' BY <1>1, StaysKept DEF Quiet
<1>3. SealedInv'
  <2>1. Sealed => ~Occupied' BY DEF AuthInv, SealedInv, Occupied, Quiet
  <2>2. health' = "absent" => Sealed BY DEF Quiet, Sealed
  <2> QED BY <1>1, <2>1, <2>2, StaysSealed
<1> QED BY <1>1, <1>2, <1>3, CallStep

LEMMA EndBecomes ==
  ASSUME AuthInv, NEW p \in Procs, End(p)
  PROVE  Becomes(p, NoOp) /\ Enters(p, NoOp) /\ NoOp \in Ops
<1>1. NoOp \in Ops /\ NoOp.pc \notin Inside /\ ~Pending(NoOp)
  BY DEF NoOp, Ops, Inside, Pending, Granting, Refreshing
<1>2. op \in [Procs -> Ops] /\ op' = [op EXCEPT ![p] = NoOp] BY DEF AuthInv, TypeOK, Ops, End
<1> QED BY <1>1, <1>2 DEF End, Becomes, Enters

LEMMA QuietEnd ==
  ASSUME AuthInv, NEW p \in Procs, Quiet, End(p), ~Publishing(op[p])
  PROVE  AuthInv'
<1>1. rev' \in Nat /\ rev' >= 1 /\ issued' \in Nat BY QuietEffect DEF Shifts
<1>2. CallInv(NoOp)' /\ NoOp.kind # "remove" BY <1>1, IdleCall
<1>3. Becomes(p, NoOp) /\ Enters(p, NoOp) /\ NoOp \in Ops BY EndBecomes
<1> QED BY <1>2, <1>3, QuietStep

\* A grant that setup discards starts nothing.
LEMMA DeclinedStep ==
  ASSUME AuthInv, NEW p \in Procs, Declined(p)
  PROVE  AuthInv'
<1>1. /\ issued \in Nat /\ verified \subseteq 1..issued /\ rejected \subseteq 1..issued
      /\ started \in 0..MaxOps /\ faults \in 0..MaxFaults /\ MaxOps \in Nat
  BY ConnectorAuthAssumption DEF AuthInv, TypeOK
<1>2. Quiet BY <1>1 DEF Declined, Quiet, portable, custody
<1>3. rev' \in Nat /\ rev' >= 1 /\ issued' \in Nat BY <1>2, QuietEffect DEF Shifts
<1>4. CallInv(NoOp)' /\ NoOp.kind # "remove" BY <1>3, IdleCall
<1>5. NoOp \in Ops /\ NoOp.pc \notin Inside /\ ~Pending(NoOp) /\ op \in [Procs -> Ops]
  BY DEF NoOp, Ops, Inside, Pending, Granting, Refreshing, AuthInv, TypeOK
<1>6. lock # p BY <1>5 DEF Declined, AuthInv, TypeOK
<1>7. Becomes(p, NoOp) /\ Enters(p, NoOp) /\ ~Publishing(op[p])
  BY <1>5, <1>6 DEF Declined, Becomes, Enters, Publishing, NoOp
<1> QED BY <1>2, <1>4, <1>5, <1>7, QuietStep

----------------------------------------
(* The forms in which the operations move a call on *)

\* A call that has started has a kind.
LEMMA Started ==
  ASSUME AuthInv, NEW p \in Procs, op[p].pc # "idle"
  PROVE  op[p].kind \in Kinds /\ op[p].pc \in Points
BY CallTyped DEF CallInv, Placed, NoOp, Ops

\* The record of p after it moved to `at`.
OpMoved(p, at, r, t, c) ==
  /\ op' \in [Procs -> Ops] /\ \A q \in Procs : q # p => op'[q] = op[q]
  /\ op'[p].kind = op[p].kind /\ op'[p].pc = at /\ op'[p].rev = r /\ op'[p].tok = t
  /\ op'[p].cred = c

LEMMA GotoMoves ==
  ASSUME AuthInv, NEW p \in Procs, NEW at \in Points, Goto(p, at)
  PROVE  OpMoved(p, at, op[p].rev, op[p].tok, op[p].cred)
<1>1. op \in [Procs -> Ops] BY DEF AuthInv, TypeOK, Ops
<1> QED BY <1>1 DEF Goto, OpMoved, Ops

LEMMA ThenMoves ==
  ASSUME AuthInv, NEW p \in Procs, NEW at \in Points, Then(p, at), rev' \in Nat
  PROVE  OpMoved(p, at, rev', op[p].tok, op[p].cred)
<1>1. op \in [Procs -> Ops] BY DEF AuthInv, TypeOK, Ops
<1> QED BY <1>1 DEF Then, OpMoved, Ops

LEMMA EnterMoves ==
  ASSUME AuthInv, NEW p \in Procs, NEW at \in Points,
         op' = [op EXCEPT ![p].pc = at, ![p].rev = rev, ![p].tok = ptr]
  PROVE  OpMoved(p, at, rev, ptr, op[p].cred)
<1>1. op \in [Procs -> Ops] /\ rev \in Nat /\ ptr \in Nat BY DEF AuthInv, TypeOK, Ops
<1> QED BY <1>1 DEF OpMoved, Ops

----------------------------------------
(* Steps that leave file and custody as they are *)

LEMMA QuietCall ==
  ASSUME AuthInv, Quiet, NEW c \in Ops, CallInv(c)
  PROVE  CallInv(c)'
<1>1. Custody' = Custody /\ (Gone <=> Gone') /\ issued \in Nat
  BY DEF Quiet, Custody, Gone, AuthInv, TypeOK
<1>2. Placed(c)' /\ Seen(c)' /\ Underway(c)' BY <1>1 DEF CallInv, Placed, Seen, Underway, Quiet
<1>3. Holds(c)' BY <1>1 DEF CallInv, Holds, Quiet
<1>4. Brings(c)' BY <1>1 DEF CallInv, Brings, Quiet, Ops
<1>5. Used(c)' /\ New(c)' BY <1>1 DEF CallInv, Used, OpUses, New, Pending, Quiet
<1> QED BY <1>2, <1>3, <1>4, <1>5 DEF CallInv

\* A call that starts.
LEMMA BeginStep ==
  ASSUME AuthInv, NEW p \in Procs, NEW kind \in Kinds, NEW at \in {"lock", "revoke", "replace"},
         NEW given \in Nat, Begin(p, kind, at, given),
         issued <= issued', issued' \in Nat, verified \subseteq verified',
         verified' \subseteq 1..issued', given <= issued',
         (kind = "remove" <=> at = "revoke") /\ (at = "replace" => kind = "import"),
         kind \notin {"connect", "remove"} => health \in Live,
         kind = "remove" => health \in Live \cup {"revoked"},
         kind = "import" => given = Archive /\ (at = "replace" \/ imported # 0),
         kind \in Granting => given > issued,
         kind \in {"connect", "reauthorize"} => given \in verified'
  PROVE  AuthInv'
<1>1. /\ rev \in Nat /\ rev >= 1 /\ ptr \in Nat /\ issued \in Nat /\ issued >= 1 /\ MaxOps \in Nat
      /\ started \in 0..MaxOps
  BY ConnectorAuthAssumption DEF AuthInv, TypeOK, FileInv, AuthIssuedInv, Archive
<1>2. Custody <= issued /\ Custody \in Nat
  BY <1>1, SlotsDiffer DEF Custody, AuthInv, AuthIssuedInv
<1>3. Quiet
  <2>1. started' \in 0..MaxOps BY <1>1 DEF Begin
  <2>2. rejected' = rejected /\ rejected \subseteq 1..issued' BY <1>1 DEF Begin, AuthInv, TypeOK
  <2> QED BY <2>1, <2>2 DEF Begin, Quiet, portable, custody, AuthInv, TypeOK
<1>4. PICK v \in Ops : /\ v = [kind |-> kind, pc |-> at, rev |-> rev, tok |-> ptr, cred |-> given]
                       /\ v.kind = kind /\ v.pc = at /\ v.rev = rev /\ v.tok = ptr /\ v.cred = given
  <2>1. at \in Points BY DEF Points
  <2>2. kind \in Kinds \cup {"none"} /\ at \in Points \cup {"idle"} BY <2>1
  <2>3. [kind |-> kind, pc |-> at, rev |-> rev, tok |-> ptr, cred |-> given] \in Ops
    BY <1>1, <2>2 DEF Ops
  <2> QED BY <2>3
<1>5. /\ op' \in [Procs -> Ops] /\ op'[p] = v /\ \A q \in Procs : q # p => op'[q] = op[q]
      /\ op[p] = NoOp /\ lock' = lock
  <2>1. op \in [Procs -> Ops] /\ op' = [op EXCEPT ![p] = v] /\ op[p] = NoOp /\ lock' = lock
    BY <1>4 DEF AuthInv, TypeOK, Ops, Begin
  <2> QED BY <2>1
<1>6. Becomes(p, v) /\ Enters(p, v) /\ ~Publishing(op[p])
  <2>1. v.pc \notin Inside /\ lock # p BY <1>4, <1>5, CallTyped DEF Inside, NoOp
  <2>2. Pending(v) => v.cred > issued BY <1>4 DEF Pending, Refreshing
  <2> QED BY <1>5, <2>1, <2>2 DEF Becomes, Enters, Publishing, NoOp, Refreshing
<1>7. CallInv(v)'
  <2>1. Custody' = Custody /\ (Gone <=> Gone') BY <1>3 DEF Quiet, Custody, Gone
  <2>2. Placed(v)' BY <1>4 DEF Placed, Kinds
  <2>3. Seen(v)' BY <1>1, <1>3, <1>4 DEF Seen, Quiet, Kinds
  <2>4. Underway(v)' /\ Holds(v)' BY <1>3, <1>4 DEF Underway, Holds, Quiet
  <2>5. Brings(v)' BY <1>1, <1>4 DEF Brings, OpUses, Granting, Archive
  <2>6. Used(v)' BY <1>4 DEF Used, OpUses
  <2>7. New(v)'
    <3>1. spent' \subseteq 1..issued BY <1>3 DEF Quiet, AuthInv, TypeOK
    <3>2. Pending(v) => given > issued BY <1>4 DEF Pending, Refreshing
    <3>3. Pending(v)' <=> Pending(v) BY DEF Pending
    <3> QED BY <1>1, <1>2, <1>4, <2>1, <3>1, <3>2, <3>3 DEF New, Archive
  <2> QED BY <2>2, <2>3, <2>4, <2>5, <2>6, <2>7 DEF CallInv
<1> QED BY <1>3, <1>4, <1>6, <1>7, QuietStep

LEMMA StartStep ==
  ASSUME AuthInv, NEW p \in Procs,
         \/ Connect(p) \/ Authorize(p) \/ Reauthorize(p) \/ Read(p) \/ Resume(p) \/ Remove(p)
         \/ Import(p) \/ Alias(p)
  PROVE  AuthInv'
<1>1. /\ issued \in Nat /\ verified \subseteq 1..issued /\ rev >= 1 /\ rev \in Nat
      /\ issued >= Archive /\ (imported = rev => health = "unverified") /\ Archive \in Nat
  BY DEF AuthInv, TypeOK, FileInv, AuthIssuedInv, Archive
<1>2. /\ Kinds = {"connect", "authorize", "reauthorize", "read", "resume", "remove", "import", "alias"}
      /\ ReauthHealth \subseteq Live /\ "ready" \in Live /\ "unverified" \in Live
  BY DEF Kinds, ReauthHealth, Live, VerifiedHealth
<1>3. ASSUME NEW kind \in Granting, NEW confirmed \in BOOLEAN, Grant(p, kind, confirmed),
             kind # "authorize" => confirmed, kind # "connect" => health \in Live
      PROVE  AuthInv'
  <2>1. /\ verified \subseteq verified' /\ verified' \subseteq 1..issued'
        /\ kind \in {"connect", "reauthorize"} => issued + 1 \in verified'
    BY <1>1, <1>3 DEF Grant, Granting
  <2>2. /\ Begin(p, kind, "lock", issued + 1) /\ issued' = issued + 1 /\ kind \in Kinds
        /\ kind # "remove" /\ kind # "import"
    BY <1>3 DEF Grant, Granting, Kinds
  <2>3. /\ "lock" \in {"lock", "revoke", "replace"} /\ issued + 1 \in Nat /\ issued <= issued + 1
        /\ kind \notin {"connect", "remove"} => health \in Live
    BY <1>1, <1>3
  <2>4. /\ issued <= issued' /\ issued' \in Nat /\ issued + 1 <= issued' /\ issued + 1 > issued
    BY <1>1, <2>2
  <2> QED BY <2>1, <2>2, <2>3, <2>4, BeginStep
<1>4. ASSUME NEW kind \in Kinds \ Granting, NEW at \in {"lock", "revoke", "replace"},
             NEW given \in {0, Archive}, Begin(p, kind, at, given), UNCHANGED <<issued, verified>>,
             (kind = "remove" <=> at = "revoke") /\ (at = "replace" => kind = "import"),
             kind # "remove" => health \in Live, kind = "remove" => health \in Live \cup {"revoked"},
             kind = "import" => given = Archive /\ (at = "replace" \/ imported # 0)
      PROVE  AuthInv'
  <2>1. /\ given \in Nat /\ given <= issued' /\ issued <= issued' /\ issued' \in Nat
        /\ verified \subseteq verified' /\ verified' \subseteq 1..issued'
    BY <1>1, <1>4 DEF Archive
  <2>2. kind \in Kinds /\ kind \notin Granting /\ kind \notin {"connect", "reauthorize"}
    BY DEF Granting
  <2> QED BY <1>4, <2>1, <2>2, BeginStep
<1>5. CASE Connect(p) \/ Authorize(p) \/ Reauthorize(p)
  BY <1>2, <1>3, <1>5 DEF Connect, Authorize, Reauthorize, Granting
<1>6. CASE Read(p) \/ Resume(p) \/ Remove(p) \/ Alias(p)
  BY <1>2, <1>4, <1>6 DEF Read, Resume, Remove, Alias, Granting
<1>7. CASE Import(p)
  <2>1. /\ "import" \in Kinds \ Granting /\ UNCHANGED <<issued, verified>>
        /\ \/ health = "ready" /\ Begin(p, "import", "replace", Archive)
           \/ rev = imported /\ Begin(p, "import", "lock", Archive)
    BY <1>2, <1>7 DEF Import, Granting
  <2> QED BY <1>1, <1>2, <1>4, <2>1
<1> QED BY <1>5, <1>6, <1>7

\* A call takes the lock after its checks, or ends.
LEMMA EnterStep ==
  ASSUME AuthInv, NEW p \in Procs, NEW at \in Points \cap Inside, NEW admitted,
         Enter(p, admitted, at), op[p].pc \in {"lock", "report", "confirm"},
         admitted => ~Gone,
         ASSUME admitted, NEW c \in Ops, c.kind = op[p].kind, c.pc = at, c.rev = rev, c.tok = ptr,
                c.cred = op[p].cred
         PROVE  CallInv(c) /\ (Pending(c) => Pending(op[p]))
  PROVE  AuthInv'
<1>1. /\ rev \in Nat /\ ptr \in Nat /\ issued \in Nat /\ op[p] \in Ops /\ op[p].kind \in Kinds
      /\ ~Publishing(op[p])
  BY CallTyped, Started DEF AuthInv, TypeOK, Publishing
<1>2. Quiet /\ lock = NoProc
  BY <1>1 DEF Enter, Quiet, AuthInv, TypeOK, portable, custody, provider
<1>3. CASE admitted /\ lock' = p /\ op' = [op EXCEPT ![p].pc = at, ![p].rev = rev, ![p].tok = ptr]
  <2>1. OpMoved(p, at, rev, ptr, op[p].cred) BY <1>3, EnterMoves
  <2>2. PICK v \in Ops : v = op'[p] BY <2>1 DEF OpMoved
  <2>3. CallInv(v) /\ (Pending(v) => Pending(op[p])) BY <1>3, <2>1, <2>2 DEF OpMoved
  <2>4. Becomes(p, v) /\ Enters(p, v)
    BY <1>2, <1>3, <2>1, <2>2, <2>3 DEF Becomes, Enters, OpMoved
  <2>5. CallInv(v)' BY <1>2, <2>3, QuietCall
  <2>6. v.pc # "forget" BY <2>1, <2>2 DEF Inside, OpMoved
  <2> QED BY <1>1, <1>2, <2>4, <2>5, <2>6, QuietStep
<1>4. CASE End(p) BY <1>1, <1>2, <1>4, QuietEnd
<1> QED BY <1>3, <1>4 DEF Enter

\* The operations that enter, each with its own checks.
LEMMA EnterSteps ==
  ASSUME AuthInv, NEW p \in Procs,
         \/ ConnectEnter(p) \/ AuthorizeEnter(p) \/ ReauthorizeEnter(p) \/ ResolveEnter(p)
         \/ ReportEnter(p) \/ ConfirmEnter(p) \/ ImportEnter(p) \/ AliasEnter(p)
  PROVE  AuthInv'
<1>1. /\ CallInv(op[p]) /\ op[p] \in Ops /\ issued \in Nat /\ rev \in Nat /\ ptr \in Nat
      /\ spent \subseteq 1..issued /\ FileInv /\ AuthIssuedInv /\ PointerResolves /\ ReadyVerified
  BY CallTyped DEF AuthInv, TypeOK, FileInv
<1>2. /\ Live = {"ready", "degraded", "reauth", "unverified"}
      /\ ReauthHealth \subseteq Live /\ VerifiedHealth \subseteq Live
      /\ Points \cap Inside = Inside
  BY DEF ReauthHealth, Live, VerifiedHealth, Points, Inside
<1>3. CASE ConnectEnter(p)
  <2>1. ASSUME health = "fresh" /\ ~Occupied, NEW c \in Ops, c.kind = op[p].kind, c.pc = "put",
               c.rev = rev, c.tok = ptr, c.cred = op[p].cred
        PROVE  CallInv(c) /\ (Pending(c) => Pending(op[p]))
    <3>1. Pending(op[p]) /\ c.kind = "connect"
      BY <1>3, <2>1 DEF ConnectEnter, At, Pending, Granting
    <3> QED BY <1>1, <2>1, <3>1 DEF CallInv, Placed, Seen, Underway, Holds, Brings, Used, OpUses, New,
                                    Refreshing, Granting
  <2> QED BY <1>2, <1>3, <2>1, EnterStep DEF ConnectEnter, At, Gone, Inside
<1>4. CASE AuthorizeEnter(p)
  <2>1. ASSUME health \in Live, NEW c \in Ops, c.kind = op[p].kind, c.pc = "mark",
               c.rev = rev, c.tok = ptr, c.cred = op[p].cred
        PROVE  CallInv(c) /\ (Pending(c) => Pending(op[p]))
    <3>1. Pending(op[p]) /\ c.kind = "authorize"
      BY <1>4, <2>1 DEF AuthorizeEnter, At, Pending, Granting
    <3> QED BY <1>1, <2>1, <3>1 DEF CallInv, Placed, Seen, Underway, Holds, Brings, Used, OpUses, New,
                                    Refreshing, Granting
  <2> QED BY <1>2, <1>4, <2>1, EnterStep DEF AuthorizeEnter, At, Gone, Inside
<1>5. CASE ReauthorizeEnter(p)
  <2>1. ASSUME rev = op[p].rev /\ ptr = op[p].tok /\ health \in ReauthHealth,
               NEW c \in Ops, c.kind = op[p].kind, c.pc = "stage",
               c.rev = rev, c.tok = ptr, c.cred = op[p].cred
        PROVE  CallInv(c) /\ (Pending(c) => Pending(op[p]))
    <3>1. Pending(op[p]) /\ c.kind = "reauthorize"
      BY <1>5, <2>1 DEF ReauthorizeEnter, At, Pending, Granting
    <3> QED BY <1>1, <1>2, <2>1, <3>1 DEF CallInv, Placed, Seen, Underway, Holds, Brings, Used, OpUses,
                                          New, Refreshing, Granting
  <2> QED BY <1>2, <1>5, <2>1, EnterStep DEF ReauthorizeEnter, At, Gone, Inside
<1>6. CASE ResolveEnter(p)
  <2> DEFINE admitted == /\ rev = op[p].rev
                         /\ health \in IF op[p].kind = "read" THEN VerifiedHealth ELSE Live
                         /\ Custody # 0
  <2>1. ASSUME admitted, NEW c \in Ops, c.kind = op[p].kind, c.pc = "token",
               c.rev = rev, c.tok = ptr, c.cred = op[p].cred
        PROVE  CallInv(c) /\ (Pending(c) => Pending(op[p]))
    <3>1. c.kind \in {"read", "resume"} /\ health \in Live
      BY <1>2, <1>6, <2>1 DEF ResolveEnter, At
    <3> QED BY <1>1, <2>1, <3>1 DEF CallInv, Placed, Seen, Underway, Holds, Brings, Used, OpUses, New,
                                    Refreshing, Granting, Pending
  <2> QED BY <1>2, <1>6, <2>1, EnterStep DEF ResolveEnter, At, Gone, Inside
<1>7. CASE ReportEnter(p)
  <2>1. ASSUME rev = op[p].rev /\ health \in Live /\ ptr = op[p].tok,
               NEW c \in Ops, c.kind = op[p].kind, c.pc = "mark",
               c.rev = rev, c.tok = ptr, c.cred = op[p].cred
        PROVE  CallInv(c) /\ (Pending(c) => Pending(op[p]))
    <3>1. c.kind = "read" /\ op[p].pc = "report" BY <1>7, <2>1 DEF ReportEnter, At
    <3> QED BY <1>1, <2>1, <3>1 DEF CallInv, Placed, Seen, Underway, Holds, Brings, Used, OpUses, New,
                                    Refreshing, Granting, Pending
  <2> QED BY <1>2, <1>7, <2>1, EnterStep DEF ReportEnter, At, Gone, Inside
<1>8. CASE ConfirmEnter(p)
  <2>1. ASSUME rev = op[p].rev /\ health = "unverified" /\ ptr = op[p].tok,
               NEW c \in Ops, c.kind = op[p].kind, c.pc = "put",
               c.rev = rev, c.tok = ptr, c.cred = op[p].cred
        PROVE  CallInv(c) /\ (Pending(c) => Pending(op[p]))
    <3>1. c.kind = "resume" /\ op[p].pc = "confirm" /\ health \in Live
      BY <1>2, <1>8, <2>1 DEF ConfirmEnter, At
    <3> QED BY <1>1, <2>1, <3>1 DEF CallInv, Placed, Seen, Underway, Holds, Brings, Used, OpUses, New,
                                    Refreshing, Granting, Pending
  <2> QED BY <1>2, <1>8, <2>1, EnterStep DEF ConfirmEnter, At, Gone, Inside
<1>9. CASE ImportEnter(p)
  <2>1. ASSUME health \in Live /\ ImportCompatible /\ ptr = 0,
               NEW c \in Ops, c.kind = op[p].kind, c.pc = "stage",
               c.rev = rev, c.tok = ptr, c.cred = op[p].cred
        PROVE  CallInv(c) /\ (Pending(c) => Pending(op[p]))
    <3>1. c.kind = "import" /\ op[p].pc = "lock" BY <1>9, <2>1 DEF ImportEnter, At
    <3>2. health # "ready" /\ spent = {} /\ ~Gone
      BY <1>1, <1>2, <2>1, <3>1 DEF FileInv, AuthIssuedInv, CallInv, Underway, Gone
    <3> QED BY <1>1, <2>1, <3>1, <3>2 DEF CallInv, Placed, Seen, Underway, Holds, Brings, Used, OpUses,
                                          New, Refreshing, Granting, Pending
  <2> QED BY <1>2, <1>9, <2>1, EnterStep DEF ImportEnter, At, Gone, Inside
<1>10. CASE AliasEnter(p)
  <2>1. ASSUME rev = op[p].rev /\ health \in Live, NEW c \in Ops, c.kind = op[p].kind, c.pc = "put",
               c.rev = rev, c.tok = ptr, c.cred = op[p].cred
        PROVE  CallInv(c) /\ (Pending(c) => Pending(op[p]))
    <3>1. c.kind = "alias" BY <1>10, <2>1 DEF AliasEnter, At
    <3> QED BY <1>1, <2>1, <3>1 DEF CallInv, Placed, Seen, Underway, Holds, Brings, Used, OpUses, New,
                                    Refreshing, Granting, Pending
  <2> QED BY <1>2, <1>10, <2>1, EnterStep DEF AliasEnter, At, Gone, Inside
<1> QED BY <1>3, <1>4, <1>5, <1>6, <1>7, <1>8, <1>9, <1>10

LEMMA GotoQuiet ==
  ASSUME AuthInv, NEW p \in Procs, NEW at \in Points, Quiet, Goto(p, at), ~Publishing(op[p]),
         lock' = lock, at \in Inside <=> op[p].pc \in Inside, op[p].kind # "remove",
         ASSUME NEW c \in Ops, c.kind = op[p].kind, c.pc = at, c.rev = op[p].rev,
                c.tok = op[p].tok, c.cred = op[p].cred
         PROVE  CallInv(c)' /\ (Pending(c) => Pending(op[p]))
  PROVE  AuthInv'
<1>1. OpMoved(p, at, op[p].rev, op[p].tok, op[p].cred) BY GotoMoves
<1>2. PICK v \in Ops : v = op'[p] BY <1>1 DEF OpMoved
<1>3. CallInv(v)' /\ (Pending(v) => Pending(op[p])) /\ v.kind = op[p].kind /\ v.pc = at
      /\ v.cred = op[p].cred
  BY <1>1, <1>2 DEF OpMoved
<1>4. Becomes(p, v) /\ Enters(p, v)
  BY <1>1, <1>2, <1>3, CallTyped DEF OpMoved, Becomes, Enters, AuthInv, TypeOK
<1> QED BY <1>3, <1>4, QuietStep

\* Steps under the lock that use the credential, and what follows outside it.
LEMMA UseSteps ==
  ASSUME AuthInv, NEW p \in Procs,
         \/ TokenUsable(p) \/ CallAnswered(p) \/ CallRejected(p) \/ VerifyIdentity(p)
         \/ AuthorizeRecheck(p) \/ RemoveEnter(p) \/ LockTimeout(p)
  PROVE  AuthInv'
<1>1. /\ CallInv(op[p]) /\ op[p] \in Ops /\ issued \in Nat /\ rev \in Nat /\ ptr \in Nat
      /\ spent \subseteq 1..issued /\ rejected \subseteq 1..issued /\ verified \subseteq 1..issued
      /\ FileInv /\ AuthIssuedInv /\ (lock = p <=> op[p].pc \in Inside)
      /\ op \in [Procs -> Ops] /\ Custody \in 0..issued
      /\ started \in 0..MaxOps /\ faults \in 0..MaxFaults /\ NoProc # p
  BY CallTyped, SlotsDiffer, ConnectorAuthAssumption DEF AuthInv, TypeOK, Ops, AuthIssuedInv, Custody
<1>2. CASE TokenUsable(p)
  <2>1. op[p].kind \in {"read", "resume"} /\ op[p].pc = "token" /\ Custody # 0 /\ ptr = op[p].tok
    BY <1>1, <1>2 DEF TokenUsable, At, CallInv, Holds
  <2>2. Quiet /\ lock' = NoProc
    BY <1>1, <1>2 DEF TokenUsable, Quiet, portable, custody, provider
  <2>3. PICK at \in {"call", "verify"} : at = IF op[p].kind = "read" THEN "call" ELSE "verify"
    OBVIOUS
  <2>4. at \in Points /\ op' = [op EXCEPT ![p].pc = at, ![p].cred = Custody] /\ Custody \in Nat
    BY <1>1, <1>2, <2>3 DEF TokenUsable, Points
  <2>5. OpMoved(p, at, op[p].rev, op[p].tok, Custody) BY <1>1, <2>4 DEF OpMoved, Ops
  <2>6. PICK v \in Ops : v = op'[p] BY <2>5 DEF OpMoved
  <2>7. /\ v.kind = op[p].kind /\ v.pc = at /\ v.rev = op[p].rev /\ v.tok = op[p].tok
        /\ v.cred = Custody
    BY <2>5, <2>6 DEF OpMoved
  <2>8. CallInv(v)
    BY <1>1, <2>1, <2>3, <2>7 DEF CallInv, Placed, Seen, Underway, Holds, Brings, Used, OpUses, New,
                                  Refreshing, Granting, Pending
  <2>9. Becomes(p, v) /\ Enters(p, v) /\ ~Publishing(op[p])
    BY <1>1, <2>1, <2>2, <2>3, <2>5, <2>6, <2>7 DEF Becomes, Enters, OpMoved, Publishing, Inside, Pending,
                                              Granting, Refreshing
  <2> QED BY <2>1, <2>2, <2>7, <2>8, <2>9, QuietCall, QuietStep
<1>3. CASE CallAnswered(p)
  BY <1>1, <1>3, QuietEnd DEF CallAnswered, At, Publishing, Quiet, portable, custody, provider
<1>4. CASE CallRejected(p)
  <2>1. /\ op[p].kind = "read" /\ op[p].pc = "call" /\ Goto(p, "report") /\ lock' = lock
        /\ op[p].cred \in 1..issued
    BY <1>1, <1>4 DEF CallRejected, At, CallInv, Brings, OpUses
  <2>2. Quiet /\ op[p].cred \in rejected'
    <3>1. /\ rejected' = rejected \cup {op[p].cred} /\ UNCHANGED <<portable, custody, issued, verified,
                spent, lost, started, faults>>
      BY <1>4 DEF CallRejected
    <3>2. rejected' \subseteq 1..issued BY <1>1, <2>1, <3>1
    <3> QED BY <1>1, <3>1, <3>2 DEF Quiet, portable, custody
  <2>3. ASSUME NEW c \in Ops, c.kind = op[p].kind, c.pc = "report", c.rev = op[p].rev,
               c.tok = op[p].tok, c.cred = op[p].cred
        PROVE  CallInv(c)' /\ (Pending(c) => Pending(op[p]))
    <3>1. Custody' = Custody /\ (Gone <=> Gone') BY <2>2 DEF Quiet, Custody, Gone
    <3> QED BY <1>1, <2>1, <2>2, <2>3, <3>1 DEF CallInv, Placed, Seen, Underway, Holds, Brings, Used,
                                          OpUses, New, Refreshing, Granting, Pending, Quiet
  <2> QED BY <2>1, <2>2, <2>3, GotoQuiet DEF Publishing, Points, Inside
<1>5. CASE VerifyIdentity(p)
  <2>1. /\ op[p].kind = "resume" /\ op[p].pc = "verify" /\ op[p].cred \in 1..issued
    BY <1>1, <1>5 DEF VerifyIdentity, At, CallInv, Brings, OpUses
  <2>2. Quiet
    <3>1. /\ verified' \in {verified, verified \cup {op[p].cred}}
          /\ UNCHANGED <<portable, custody, issued, spent, lost, rejected, started, faults>>
      BY <1>5 DEF VerifyIdentity
    <3>2. verified' \subseteq 1..issued /\ verified \subseteq verified' BY <1>1, <2>1, <3>1
    <3> QED BY <1>1, <3>1, <3>2 DEF Quiet, portable, custody
  <2>3. CASE End(p) BY <2>1, <2>2, <2>3, QuietEnd DEF Publishing
  <2>4. CASE verified' = verified \cup {op[p].cred} /\ Goto(p, "confirm") /\ lock' = lock
    <3>1. ASSUME NEW c \in Ops, c.kind = op[p].kind, c.pc = "confirm", c.rev = op[p].rev,
                 c.tok = op[p].tok, c.cred = op[p].cred
          PROVE  CallInv(c)' /\ (Pending(c) => Pending(op[p]))
      <4>1. Custody' = Custody /\ (Gone <=> Gone') BY <2>2 DEF Quiet, Custody, Gone
      <4> QED BY <1>1, <2>1, <2>2, <2>4, <3>1, <4>1 DEF CallInv, Placed, Seen, Underway, Holds, Brings,
                                          Used, OpUses, New, Refreshing, Granting, Pending, Quiet
    <3> QED BY <2>1, <2>2, <2>4, <3>1, GotoQuiet DEF Publishing, Points, Inside
  <2> QED BY <1>5, <2>3, <2>4 DEF VerifyIdentity
<1>6. CASE AuthorizeRecheck(p)
  <2>1. op[p].kind = "authorize" /\ op[p].pc = "recheck" BY <1>6 DEF AuthorizeRecheck, At
  <2>2. Quiet BY <1>1, <1>6 DEF AuthorizeRecheck, Quiet, portable, custody, provider
  <2>3. CASE End(p) BY <2>1, <2>2, <2>3, QuietEnd DEF Publishing
  <2>4. CASE health = "unverified" /\ Goto(p, "stage") /\ lock' = lock
    <3>1. ASSUME NEW c \in Ops, c.kind = op[p].kind, c.pc = "stage", c.rev = op[p].rev,
                 c.tok = op[p].tok, c.cred = op[p].cred
          PROVE  CallInv(c)' /\ (Pending(c) => Pending(op[p]))
      <4>1. CallInv(c) /\ (Pending(c) => Pending(op[p]))
        BY <1>1, <2>1, <2>4, <3>1 DEF CallInv, Placed, Seen, Underway, Holds, Brings,
                                          Used, OpUses, New, Refreshing, Granting, Pending
      <4> QED BY <2>2, <4>1, QuietCall
    <3> QED BY <2>1, <2>2, <2>4, <3>1, GotoQuiet DEF Publishing, Points, Inside
  <2> QED BY <1>6, <2>3, <2>4 DEF AuthorizeRecheck
<1>7. CASE RemoveEnter(p)
  <2>1. /\ op[p].kind = "remove" /\ op[p].pc = "lock" /\ lock = NoProc /\ lock' = p
        /\ Goto(p, "wipe")
    BY <1>7 DEF RemoveEnter, At
  <2>2. Quiet BY <1>1, <1>7 DEF RemoveEnter, Quiet, portable, custody, provider
  <2>3. OpMoved(p, "wipe", op[p].rev, op[p].tok, op[p].cred) BY <2>1, GotoMoves DEF Points
  <2>4. PICK v \in Ops : v = op'[p] BY <2>3 DEF OpMoved
  <2>5. /\ v.kind = "remove" /\ v.pc = "wipe" /\ v.rev = op[p].rev /\ v.tok = op[p].tok
        /\ v.cred = op[p].cred
    BY <2>1, <2>3, <2>4 DEF OpMoved
  <2>6. CallInv(v)
    BY <1>1, <2>1, <2>5 DEF CallInv, Placed, Seen, Underway, Holds, Brings, Used, OpUses, New,
                            Refreshing, Granting, Pending
  <2>7. Becomes(p, v) /\ Enters(p, v) /\ ~Publishing(op[p])
    BY <2>1, <2>3, <2>4, <2>5 DEF Becomes, Enters, OpMoved, Publishing, Inside, Pending, Granting,
                                  Refreshing
  <2> QED BY <2>2, <2>5, <2>6, <2>7, QuietCall, QuietStep
<1>8. CASE LockTimeout(p)
  <2>1. op[p].pc \in {"lock", "report", "confirm"} /\ End(p) BY <1>8 DEF LockTimeout
  <2>2. Quiet BY <1>1, <1>8 DEF LockTimeout, Quiet, portable, custody, provider
  <2> QED BY <2>1, <2>2, QuietEnd DEF Publishing
<1> QED BY <1>2, <1>3, <1>4, <1>5, <1>6, <1>7, <1>8

----------------------------------------
(* Steps that write the file *)

\* What may be written over the health there is.
Allowed(p, h) ==
  /\ h \in Health
  /\ health = "revoked" => h \in {"revoked", "absent"}
  /\ health = "absent" => h = "absent"
  /\ h = "absent" => Sealed
  /\ h = "ready" => health = "ready" \/ (lock = p /\ Custody \in verified)

\* A write that leaves custody as it is.
Filing(p) ==
  /\ UNCHANGED <<ptr, slots, issued, verified, spent, started>>
  /\ lost \subseteq lost' /\ lost' \subseteq spent
  /\ rejected \subseteq rejected' /\ rejected' \subseteq 1..issued /\ faults' \in 0..MaxFaults
  /\ rev' \in {rev, rev + 1} /\ (rev' = rev => health' = health) /\ Allowed(p, health')
  /\ \/ imported' = imported
     \/ imported' = rev' /\ rev' = rev + 1 /\ health' = "unverified"

LEMMA WriteStep ==
  ASSUME AuthInv, NEW p \in Procs, Filing(p), NEW v \in Ops, Becomes(p, v), CallInv(v)',
         Enters(p, v), Publishing(op[p]) => Custody \in lost', v.kind = "remove" => v.pc # "forget"
  PROVE  AuthInv'
<1>1. /\ rev \in Nat /\ rev >= 1 /\ ptr \in Nat /\ issued \in Nat /\ imported \in Nat
      /\ imported <= rev /\ Custody' = Custody /\ rev' \in Nat
  BY DEF AuthInv, TypeOK, FileInv, Filing, Custody
<1>2. Gone => Gone' BY DEF Gone, Filing, Allowed
<1>3. imported' \in Nat /\ imported' <= rev' /\ (imported # 0 => imported' # 0)
  BY <1>1 DEF Filing
<1>4. Shifts(p) BY <1>1, <1>2, <1>3 DEF Shifts, Filing, Allowed
<1>5. DataTyped' BY <1>3 DEF AuthInv, TypeOK, DataTyped, Filing, Allowed
<1>6. Sealed => ~Occupied' BY DEF AuthInv, SealedInv, Occupied, Filing
<1>7. health' = "absent" => Sealed BY DEF Filing, Allowed
<1>8. FileInv'
  <2>1. rev' >= 1 /\ (imported' = rev' => health' = "unverified")
    BY <1>1 DEF AuthInv, FileInv, Filing
  <2>2. PointerResolves'
    BY <1>1, <1>6, <1>7 DEF AuthInv, FileInv, PointerResolves, Filing, Allowed, Occupied
  <2>3. ReadyVerified' BY <1>1 DEF AuthInv, FileInv, ReadyVerified, Filing, Allowed
  <2>4. health' = "ready" /\ ptr' = 0 => health = "ready"
    <3>1. Custody \in verified => ptr # 0 BY DEF Custody, AuthInv, TypeOK
    <3> QED BY <3>1 DEF Filing, Allowed
  <2>5. health' = "ready" => imported' = imported BY DEF Filing
  <2> QED BY <1>3, <2>1, <2>2, <2>3, <2>4, <2>5 DEF AuthInv, FileInv, Filing
<1>9. AuthIssuedInv' BY <1>2 DEF AuthInv, AuthIssuedInv, Filing
<1>10. SpentKept' BY <1>1, <1>4, StaysKept DEF Filing
<1>11. SealedInv' BY <1>4, <1>6, <1>7, StaysSealed
<1> QED BY <1>4, <1>5, <1>8, <1>9, <1>10, <1>11, CallStep

LEMMA WriteEnd ==
  ASSUME AuthInv, NEW p \in Procs, Filing(p), End(p), Publishing(op[p]) => Custody \in lost'
  PROVE  AuthInv'
<1>1. rev' \in Nat /\ rev' >= 1 /\ issued' \in Nat BY DEF AuthInv, TypeOK, FileInv, Filing
<1>2. CallInv(NoOp)' /\ NoOp.kind # "remove" BY <1>1, IdleCall
<1>3. Becomes(p, NoOp) /\ Enters(p, NoOp) /\ NoOp \in Ops BY EndBecomes
<1> QED BY <1>2, <1>3, WriteStep

\* What is left alone by every audited write.
Aside == UNCHANGED <<custody, provider, started>>

\* The file after an audited write: as it was, or written at the revision read.
Tried(p, h, always) ==
  /\ faults' = faults \/ Fault
  /\ UNCHANGED <<health, rev>> \/ (rev = op[p].rev /\ Written(p, h, always))

LEMMA PersistFiles ==
  ASSUME AuthInv, NEW p \in Procs, NEW h, NEW always \in BOOLEAN,
         Tried(p, h, always), Aside, rev = op[p].rev => Allowed(p, h),
         \/ imported' = imported
         \/ imported' = rev' /\ rev' # rev /\ h = "unverified"
  PROVE  /\ Filing(p)
         /\ Written(p, h, always) => health' = h /\ (always => rev' = rev + 1)
<1>1. /\ rev \in Nat /\ health \in Health /\ rejected \subseteq 1..issued
      /\ faults \in 0..MaxFaults /\ MaxFaults \in Nat /\ lost \subseteq spent
  BY ConnectorAuthAssumption DEF AuthInv, TypeOK
<1>2. health = "absent" => Sealed BY DEF Sealed
<1>3. Allowed(p, health) BY <1>1, <1>2 DEF Allowed
<1>4. faults' \in 0..MaxFaults BY <1>1 DEF Tried, Fault
<1>5. CASE UNCHANGED <<health, rev>>
  <2>1. imported' = imported BY <1>5
  <2>2. Filing(p) BY <1>1, <1>3, <1>4, <1>5, <2>1 DEF Filing, Aside, custody, provider
  <2> QED BY <2>2 DEF Written
<1>6. CASE rev = op[p].rev /\ Written(p, h, always)
  <2>1. rev' \in {rev, rev + 1} /\ health' = h /\ (rev' = rev => h = health) /\ (always => rev' = rev + 1)
    BY <1>1, <1>6 DEF Written
  <2>2. Filing(p) BY <1>1, <1>4, <1>6, <2>1 DEF Filing, Aside, custody, provider
  <2> QED BY <2>1, <2>2
<1> QED BY <1>5, <1>6 DEF Tried

LEMMA PersistEnd ==
  ASSUME AuthInv, NEW p \in Procs, NEW h, NEW always \in BOOLEAN, Persist(p, h, always, End(p)),
         Aside, rev = op[p].rev => Allowed(p, h), imported' = imported, ~Publishing(op[p])
  PROVE  AuthInv'
<1>1. Tried(p, h, always) /\ End(p) BY DEF Persist, Tried
<1>2. Filing(p) BY <1>1, PersistFiles
<1> QED BY <1>1, <1>2, WriteEnd

LEMMA PersistThen ==
  ASSUME AuthInv, NEW p \in Procs, NEW h, NEW always \in BOOLEAN, NEW at \in Points,
         Persist(p, h, always, Then(p, at)),
         Aside, rev = op[p].rev => Allowed(p, h), ~Publishing(op[p]),
         imported' = imported \/ (imported' = rev' /\ rev' # rev /\ h = "unverified"),
         at \in Inside <=> op[p].pc \in Inside, op[p].kind = "remove" => at # "forget",
         at \in Inside => op[p].kind # "none",
         ASSUME Filing(p), rev = op[p].rev, health' = h, always => rev' = rev + 1,
                NEW c \in Ops, c.kind = op[p].kind, c.pc = at,
                c.rev = rev', c.tok = op[p].tok, c.cred = op[p].cred
         PROVE  CallInv(c)' /\ (Pending(c) => Pending(op[p]))
  PROVE  AuthInv'
<1>0. /\ Tried(p, h, always)
      /\ End(p) \/ (Then(p, at) /\ rev = op[p].rev /\ Written(p, h, always))
  BY DEF Persist, Tried
<1>1. /\ Filing(p)
      /\ End(p) \/ (Then(p, at) /\ rev = op[p].rev /\ health' = h /\ (always => rev' = rev + 1))
  BY <1>0, PersistFiles
<1>2. CASE End(p) BY <1>1, <1>2, WriteEnd
<1>3. CASE Then(p, at) /\ rev = op[p].rev /\ health' = h /\ (always => rev' = rev + 1)
  <2>1. OpMoved(p, at, rev', op[p].tok, op[p].cred) /\ lock' = lock
    <3>1. rev' \in Nat BY <1>1 DEF Filing, AuthInv, TypeOK
    <3> QED BY <1>3, <3>1, ThenMoves DEF Then
  <2>2. PICK v \in Ops : v = op'[p] BY <2>1 DEF OpMoved
  <2>3. /\ v.kind = op[p].kind /\ v.pc = at /\ v.rev = rev' /\ v.tok = op[p].tok
        /\ v.cred = op[p].cred
    BY <2>1, <2>2 DEF OpMoved
  <2>4. CallInv(v)' /\ (Pending(v) => Pending(op[p])) BY <1>1, <1>3, <2>3
  <2>5. Becomes(p, v) /\ Enters(p, v)
    BY <2>1, <2>2, <2>3, <2>4, CallTyped DEF OpMoved, Becomes, Enters, AuthInv, TypeOK
  <2> QED BY <1>1, <2>3, <2>4, <2>5, WriteStep
<1> QED BY <1>1, <1>2, <1>3

\* The audited writes, each with what its operation knows at the revision it read.
LEMMA PersistSteps ==
  ASSUME AuthInv, NEW p \in Procs,
         \/ ConnectPut(p) \/ AuthorizeMark(p) \/ ReauthorizePut(p) \/ ReportMark(p) \/ ConfirmPut(p)
         \/ RemoveRevoke(p) \/ RemoveForget(p) \/ ImportReplace(p) \/ AliasPut(p)
  PROVE  AuthInv'
<1>1. /\ CallInv(op[p]) /\ op[p] \in Ops /\ issued \in Nat /\ rev \in Nat /\ ptr \in Nat /\ rev >= 1
      /\ (lock = p <=> op[p].pc \in Inside) /\ op[p].rev <= rev /\ op[p].cred \in Nat
  BY CallTyped DEF AuthInv, TypeOK, Ops, FileInv, CallInv, Seen
<1>2. /\ Live = {"ready", "degraded", "reauth", "unverified"}
      /\ Health = Live \cup {"fresh", "revoked", "absent"}
  BY DEF ReauthHealth, Live, VerifiedHealth, Health
<1>3. Filing(p) => Custody' = Custody BY DEF Filing, Custody
<1>4. CASE ConnectPut(p)
  <2>1. op[p].kind = "connect" /\ op[p].pc = "put" /\ (rev = op[p].rev => health = "fresh")
    BY <1>1, <1>4 DEF ConnectPut, At, CallInv, Seen
  <2>2. rev = op[p].rev => Allowed(p, "unverified") BY <1>2, <2>1 DEF Allowed
  <2>3. ASSUME Filing(p), rev = op[p].rev, health' = "unverified", TRUE => rev' = rev + 1,
               NEW c \in Ops, c.kind = op[p].kind, c.pc = "stage",
               c.rev = rev', c.tok = op[p].tok, c.cred = op[p].cred
        PROVE  CallInv(c)' /\ (Pending(c) => Pending(op[p]))
    BY <1>1, <1>3, <2>1, <2>3 DEF CallInv, Placed, Seen, Underway, Holds, Brings, Used, OpUses, New,
                                  Refreshing, Granting, Pending, Filing
  <2> QED BY <1>4, <2>1, <2>2, <2>3, PersistThen DEF ConnectPut, Aside, Publishing, Points, Inside
<1>5. CASE AuthorizeMark(p)
  <2>1. op[p].kind = "authorize" /\ op[p].pc = "mark" /\ (rev = op[p].rev => health \in Live)
    BY <1>1, <1>5 DEF AuthorizeMark, At, CallInv, Seen
  <2>2. rev = op[p].rev => Allowed(p, "unverified") BY <1>2, <2>1 DEF Allowed
  <2>3. ASSUME Filing(p), rev = op[p].rev, health' = "unverified", FALSE => rev' = rev + 1,
               NEW c \in Ops, c.kind = op[p].kind, c.pc = "recheck",
               c.rev = rev', c.tok = op[p].tok, c.cred = op[p].cred
        PROVE  CallInv(c)' /\ (Pending(c) => Pending(op[p]))
    BY <1>1, <1>2, <1>3, <2>1, <2>3 DEF CallInv, Placed, Seen, Underway, Holds, Brings, Used, OpUses,
                                        New, Refreshing, Granting, Pending, Filing
  <2> QED BY <1>5, <2>1, <2>2, <2>3, PersistThen DEF AuthorizeMark, Aside, Publishing, Points, Inside
<1>6. CASE ReauthorizePut(p)
  <2>1. op[p].kind = "reauthorize" /\ op[p].pc = "put" /\ (rev = op[p].rev => health \in Live)
    BY <1>1, <1>6 DEF ReauthorizePut, At, CallInv, Seen
  <2>2. lock = p /\ Custody \in verified BY <1>1, <2>1 DEF CallInv, Holds, Brings, Inside
  <2>3. rev = op[p].rev => Allowed(p, "ready") BY <1>2, <2>1, <2>2 DEF Allowed
  <2> QED BY <1>6, <2>1, <2>3, PersistEnd DEF ReauthorizePut, Aside, Publishing
<1>7. CASE ReportMark(p)
  <2>1. op[p].kind = "read" /\ op[p].pc = "mark" /\ (rev = op[p].rev => health \in Live)
    BY <1>1, <1>7 DEF ReportMark, At, CallInv, Seen
  <2>2. rev = op[p].rev => Allowed(p, "reauth") BY <1>2, <2>1 DEF Allowed
  <2> QED BY <1>7, <2>1, <2>2, PersistEnd DEF ReportMark, Aside, Publishing
<1>8. CASE ConfirmPut(p)
  <2>1. op[p].kind = "resume" /\ op[p].pc = "put" /\ (rev = op[p].rev => health \in Live)
    BY <1>1, <1>8 DEF ConfirmPut, At, CallInv, Seen
  <2>2. lock = p /\ (health \in Live => Custody \in verified)
    BY <1>1, <1>2, <2>1 DEF CallInv, Holds, Brings, Used, OpUses, Gone, Inside
  <2>3. rev = op[p].rev => Allowed(p, "ready") BY <1>2, <2>1, <2>2 DEF Allowed
  <2> QED BY <1>8, <2>1, <2>3, PersistEnd DEF ConfirmPut, Aside, Publishing
<1>9. CASE RemoveRevoke(p)
  <2>1. /\ op[p].kind = "remove" /\ op[p].pc = "revoke"
        /\ rev = op[p].rev => health \in Live \cup {"revoked"}
    BY <1>1, <1>9 DEF RemoveRevoke, At, CallInv, Seen
  <2>2. rev = op[p].rev => Allowed(p, "revoked") BY <1>2, <2>1 DEF Allowed
  <2>3. ASSUME Filing(p), rev = op[p].rev, health' = "revoked", FALSE => rev' = rev + 1,
               NEW c \in Ops, c.kind = op[p].kind, c.pc = "lock",
               c.rev = rev', c.tok = op[p].tok, c.cred = op[p].cred
        PROVE  CallInv(c)' /\ (Pending(c) => Pending(op[p]))
    BY <1>1, <1>3, <2>1, <2>3 DEF CallInv, Placed, Seen, Underway, Holds, Brings, Used, OpUses,
                                  New, Refreshing, Granting, Pending, Filing, Gone
  <2> QED BY <1>9, <2>1, <2>2, <2>3, PersistThen DEF RemoveRevoke, Aside, Publishing, Points, Inside
<1>10. CASE RemoveForget(p)
  <2>1. /\ op[p].kind = "remove" /\ op[p].pc = "forget" /\ (rev = op[p].rev => health = "revoked")
        /\ Sealed
    BY <1>1, <1>10 DEF RemoveForget, At, CallInv, Seen, Sealed
  <2>2. rev = op[p].rev => Allowed(p, "absent") BY <1>2, <2>1 DEF Allowed
  <2> QED BY <1>10, <2>1, <2>2, PersistEnd DEF RemoveForget, Aside, Publishing
<1>11. CASE ImportReplace(p)
  <2>1. op[p].kind = "import" /\ op[p].pc = "replace" /\ (rev = op[p].rev => health \in Live)
    BY <1>1, <1>11 DEF ImportReplace, At, CallInv, Seen
  <2>2. rev = op[p].rev => Allowed(p, "unverified") BY <1>2, <2>1 DEF Allowed
  <2>3. imported' = IF rev' # rev THEN rev' ELSE imported BY <1>11 DEF ImportReplace
  <2>4. ASSUME Filing(p), rev = op[p].rev, health' = "unverified", TRUE => rev' = rev + 1,
               NEW c \in Ops, c.kind = op[p].kind, c.pc = "lock",
               c.rev = rev', c.tok = op[p].tok, c.cred = op[p].cred
        PROVE  CallInv(c)' /\ (Pending(c) => Pending(op[p]))
    <3>1. imported' # 0 BY <1>1, <2>3, <2>4
    <3> QED BY <1>1, <1>2, <1>3, <2>1, <2>4, <3>1 DEF CallInv, Placed, Seen, Underway, Holds, Brings,
                                  Used, OpUses, New, Refreshing, Granting, Pending, Filing
  <2>5. /\ Persist(p, "unverified", TRUE, Then(p, "lock")) /\ Aside /\ "lock" \in Points
        /\ "lock" \notin Inside /\ op[p].pc \notin Inside /\ ~Publishing(op[p])
        /\ imported' = imported \/ (imported' = rev' /\ rev' # rev)
    BY <1>11, <2>1, <2>3 DEF ImportReplace, Aside, Publishing, Points, Inside
  <2> QED BY <2>1, <2>2, <2>4, <2>5, PersistThen
<1>12. CASE AliasPut(p)
  <2>1. op[p].kind = "alias" /\ op[p].pc = "put" /\ (rev = op[p].rev => health \in Live)
    BY <1>1, <1>12 DEF AliasPut, At, CallInv, Seen
  <2>2. rev = op[p].rev => Allowed(p, health) BY <1>2, <2>1 DEF Allowed
  <2> QED BY <1>12, <2>1, <2>2, PersistEnd DEF AliasPut, Aside, Publishing
<1> QED BY <1>4, <1>5, <1>6, <1>7, <1>8, <1>9, <1>10, <1>11, <1>12

\* The writes that read the file again.
LEMMA MarkSteps ==
  ASSUME AuthInv, NEW p \in Procs,
         ConnectReady(p) \/ TokenRejected(p) \/ TokenRejectedUnmarked(p) \/ TokenMisgranted(p)
  PROVE  AuthInv'
<1>1. /\ CallInv(op[p]) /\ issued \in Nat /\ rev \in Nat /\ ptr \in Nat /\ health \in Health
      /\ (lock = p <=> op[p].pc \in Inside) /\ rejected \subseteq 1..issued
      /\ verified \subseteq 1..issued /\ started \in 0..MaxOps
      /\ faults \in 0..MaxFaults /\ MaxFaults \in Nat /\ lost \subseteq spent
  BY CallTyped, ConnectorAuthAssumption DEF AuthInv, TypeOK
<1>2. /\ Health = {"ready", "degraded", "reauth", "unverified", "fresh", "revoked", "absent"}
      /\ health = "absent" => Sealed
  BY DEF ReauthHealth, Live, VerifiedHealth, Health, Sealed
<1>3. Allowed(p, health) BY <1>1, <1>2 DEF Allowed
<1>4. ASSUME op[p].pc \in Inside, op[p].kind # "remove" PROVE health # "absent"
  BY <1>2, <1>4 DEF AuthInv, SealedInv
<1>5. (faults' = faults \/ Fault) => faults' \in 0..MaxFaults BY <1>1 DEF Fault
<1>6. CASE ConnectReady(p)
  <2>1. op[p].kind = "connect" /\ op[p].pc = "mark" /\ lock = p /\ Custody \in verified
    BY <1>1, <1>6 DEF ConnectReady, At, CallInv, Holds, Brings, Inside
  <2>2. health # "revoked" => Allowed(p, "ready") BY <1>2, <1>4, <2>1 DEF Allowed, Inside
  <2>3. rev' \in {rev, rev + 1} /\ (rev' = rev => health' = health) /\ Allowed(p, health')
    BY <1>1, <1>3, <1>6, <2>2 DEF ConnectReady, Written
  <2>4. Filing(p) BY <1>1, <1>5, <1>6, <2>3 DEF ConnectReady, Filing, custody, provider
  <2> QED BY <1>6, <2>1, <2>4, WriteEnd DEF ConnectReady, Publishing
<1>7. ASSUME op[p].pc = "token", op[p].kind \in Refreshing
      PROVE  Custody \in 1..issued /\ ~Publishing(op[p]) /\ health # "absent"
  <2>1. Custody # 0 /\ Custody \in 0..issued
    BY <1>1, <1>7, SlotsDiffer DEF CallInv, Holds, Custody, AuthInv, AuthIssuedInv
  <2> QED BY <1>1, <1>4, <1>7, <2>1 DEF Refreshing, Inside, Publishing
<1>8. CASE TokenRejected(p)
  <2>1. Custody \in 1..issued /\ ~Publishing(op[p]) /\ health # "absent"
    BY <1>7, <1>8 DEF TokenRejected, At, Refreshing
  <2>2. rejected \subseteq rejected' /\ rejected' \subseteq 1..issued
    BY <1>1, <1>8, <2>1 DEF TokenRejected
  <2>3. /\ rev' \in {rev, rev + 1} /\ (rev' = rev => health' = health)
        /\ health' \in {"reauth", "degraded"} /\ health # "revoked"
    BY <1>1, <1>8 DEF TokenRejected
  <2>4. Allowed(p, health') BY <1>2, <2>1, <2>3 DEF Allowed
  <2>5. Filing(p) BY <1>1, <1>8, <2>2, <2>3, <2>4 DEF TokenRejected, Filing, custody
  <2> QED BY <1>8, <2>1, <2>5, WriteEnd DEF TokenRejected
<1>9. CASE TokenRejectedUnmarked(p)
  <2>1. Custody \in 1..issued /\ ~Publishing(op[p])
    BY <1>7, <1>9 DEF TokenRejectedUnmarked, At, Refreshing
  <2>2. rejected \subseteq rejected' /\ rejected' \subseteq 1..issued
    BY <1>1, <1>9, <2>1 DEF TokenRejectedUnmarked
  <2>3. Quiet BY <1>1, <1>5, <1>9, <2>2 DEF TokenRejectedUnmarked, Quiet, portable, custody
  <2> QED BY <1>9, <2>1, <2>3, QuietEnd DEF TokenRejectedUnmarked
<1>10. CASE TokenMisgranted(p)
  <2>1. /\ op[p].kind \in Refreshing /\ op[p].pc \in {"token", "stage"}
        /\ op[p].pc = "stage" => lost' = lost \cup {Custody}
        /\ lost' \in {lost, lost \cup {Custody}}
    BY <1>10 DEF TokenMisgranted, At, Refreshing
  <2>2. Custody \in 1..issued /\ health # "absent" /\ (op[p].pc = "stage" => Custody \in spent)
    <3>1. health # "absent" BY <1>4, <2>1 DEF Refreshing, Inside
    <3>2. op[p].pc = "stage" => Custody \in spent BY <1>1, <2>1 DEF CallInv, Holds
    <3> QED BY <1>1, <1>7, <2>1, <3>1, <3>2 DEF AuthInv, TypeOK
  <2>3. (Publishing(op[p]) => Custody \in lost') /\ lost \subseteq lost' /\ lost' \subseteq spent
    BY <1>1, <1>10, <2>1, <2>2 DEF Publishing, TokenMisgranted, At
  <2>4. rejected \subseteq rejected' /\ rejected' \subseteq 1..issued
    BY <1>1, <1>10, <2>2 DEF TokenMisgranted
  <2>5. /\ rev' \in {rev, rev + 1} /\ (rev' = rev => health' = health)
        /\ health' = health \/ (health' = "reauth" /\ health # "revoked")
        /\ faults' \in 0..MaxFaults
    BY <1>1, <1>5, <1>10 DEF TokenMisgranted
  <2>6. Allowed(p, health') BY <1>2, <1>3, <2>2, <2>5 DEF Allowed
  <2>7. Filing(p) BY <1>10, <2>3, <2>4, <2>5, <2>6 DEF TokenMisgranted, Filing, custody
  <2> QED BY <1>10, <2>3, <2>7, WriteEnd DEF TokenMisgranted
<1> QED BY <1>6, <1>8, <1>9, <1>10

----------------------------------------
(* Steps that spend a credential, and the death of a process *)

\* Only the holder of the lock can have spent the credential in custody and not lost it.
LEMMA SpentIsLost ==
  ASSUME AuthInv, NEW p \in Procs, lock = p, ~Publishing(op[p]), Custody \in spent
  PROVE  Custody \in lost
BY DEF AuthInv, SpentKept, Publishing

LEMMA RefreshStep ==
  ASSUME AuthInv, NEW p \in Procs, TokenRefresh(p)
  PROVE  AuthInv'
<1>1. /\ CallInv(op[p]) /\ op \in [Procs -> Ops] /\ issued \in Nat /\ rev \in Nat /\ ptr \in Nat
      /\ issued >= Archive /\ lock = p /\ spent \subseteq 1..issued /\ verified \subseteq 1..issued
      /\ op[p].pc = "token" /\ op[p].kind \in Refreshing /\ rev >= 1
  BY CallTyped DEF AuthInv, TypeOK, Ops, FileInv, AuthIssuedInv, TokenRefresh, At, Refreshing, Inside
<1>2. Custody \in 1..issued /\ ptr # 0 /\ ptr = op[p].tok
  BY <1>1, SlotsDiffer DEF CallInv, Holds, Custody, AuthInv, AuthIssuedInv, Refreshing
<1>3. /\ UNCHANGED <<health, rev, imported, ptr, slots, lock, lost, rejected, started, faults>>
      /\ spent' = spent \cup {Custody} /\ issued' = issued + 1
      /\ verified \subseteq verified' /\ verified' \subseteq 1..issued'
      /\ Custody \in verified => issued + 1 \in verified'
  BY <1>1 DEF TokenRefresh, portable, custody
<1>4. Custody' = Custody /\ (Gone <=> Gone') BY <1>3 DEF Custody, Gone
<1>5. OpMoved(p, "stage", op[p].rev, op[p].tok, issued + 1)
  <2>1. /\ op' = [op EXCEPT ![p].pc = "stage", ![p].cred = issued + 1] /\ issued + 1 \in Nat
        /\ "stage" \in Points
    BY <1>1 DEF TokenRefresh, Points
  <2> QED BY <1>1, <2>1 DEF OpMoved, Ops
<1>6. PICK v \in Ops : v = op'[p] BY <1>5 DEF OpMoved
<1>7. /\ v.kind = op[p].kind /\ v.pc = "stage" /\ v.rev = op[p].rev /\ v.tok = op[p].tok
      /\ v.cred = issued + 1
  BY <1>5, <1>6 DEF OpMoved
<1>8. Shifts(p) BY <1>1, <1>3, <1>4 DEF Shifts
<1>9. Becomes(p, v) /\ Enters(p, v)
  BY <1>1, <1>3, <1>5, <1>6, <1>7 DEF Becomes, Enters, OpMoved, Inside
<1>10. CallInv(v)'
  <2>1. Placed(v)' /\ Seen(v)' /\ Underway(v)'
    BY <1>1, <1>3, <1>4, <1>7 DEF CallInv, Placed, Seen, Underway, Refreshing
  <2>2. Holds(v)' BY <1>1, <1>2, <1>3, <1>4, <1>7 DEF Holds, Refreshing
  <2>3. health = "ready" => issued + 1 \in verified'
    BY <1>2, <1>3 DEF AuthInv, FileInv, ReadyVerified
  <2>4. Brings(v)' BY <1>1, <1>3, <1>7, <2>3 DEF Brings, OpUses, Refreshing, Granting
  <2>5. Used(v)' /\ New(v)' BY <1>1, <1>2, <1>3, <1>4, <1>7 DEF Used, OpUses, New, Archive
  <2> QED BY <2>1, <2>2, <2>4, <2>5 DEF CallInv
<1>11. DataTyped'
  <2>1. spent' \subseteq 1..issued' /\ rejected \subseteq 1..issued' /\ lost \subseteq spent'
    BY <1>1, <1>2, <1>3 DEF AuthInv, TypeOK
  <2> QED BY <1>3, <2>1 DEF AuthInv, TypeOK, DataTyped
<1>12. FileInv' BY <1>3, <1>4 DEF AuthInv, FileInv, PointerResolves, ReadyVerified
<1>13. AuthIssuedInv'
  <2>1. \A n \in 0..issued : n \in 0..issued' BY <1>1, <1>3
  <2>2. slots' \in [Slots -> 0..issued'] BY <1>3, <2>1 DEF AuthInv, AuthIssuedInv
  <2> QED BY <1>1, <1>2, <1>3, <2>2 DEF AuthIssuedInv, Archive
<1>14. SealedInv'
  <2>1. ~Sealed /\ health' # "absent"
    BY <1>1, <1>3 DEF AuthInv, SealedInv, Sealed, Inside, Refreshing
  <2> QED BY <1>1, <1>7, <1>8, <1>9, <1>10, <2>1, StaysSealed
<1>15. SpentKept' BY <1>1, <1>3, <1>6, <1>7 DEF SpentKept, Publishing
<1> QED BY <1>8, <1>9, <1>10, <1>11, <1>12, <1>13, <1>14, <1>15, CallStep

\* A call that ends while its credential may have been spent and lost.
LEMMA LossEnd ==
  ASSUME AuthInv, NEW p \in Procs, End(p), faults' \in 0..MaxFaults,
         UNCHANGED <<portable, custody, issued, verified, rejected, started>>,
         lost \subseteq lost', lost' \subseteq spent',
         \/ spent' = spent
         \/ spent' = spent \cup {Custody} /\ Custody \in lost' /\ lock = p /\ Custody \in 1..issued,
         Publishing(op[p]) => Custody \in lost'
  PROVE  AuthInv'
<1>1. /\ issued \in Nat /\ rev \in Nat /\ ptr \in Nat /\ rev >= 1 /\ spent \subseteq 1..issued
  BY DEF AuthInv, TypeOK, FileInv
<1>2. UNCHANGED <<health, rev, imported, ptr, slots>> /\ Custody' = Custody /\ (Gone <=> Gone')
  BY DEF portable, custody, Custody, Gone
<1>3. CallInv(NoOp)' /\ NoOp.pc \notin Inside /\ NoOp.kind # "remove"
  BY <1>1, <1>2, IdleCall DEF Inside
<1>4. Becomes(p, NoOp) /\ Enters(p, NoOp) /\ NoOp \in Ops BY EndBecomes
<1>5. Shifts(p) BY <1>1, <1>2 DEF Shifts
<1>6. DataTyped'
  <2>1. spent' \subseteq 1..issued BY <1>1
  <2> QED BY <1>2, <2>1 DEF AuthInv, TypeOK, DataTyped
<1>7. FileInv' BY <1>2 DEF AuthInv, FileInv, PointerResolves, ReadyVerified
<1>8. AuthIssuedInv'
  <2>1. Custody # 0 => ptr # 0 BY DEF Custody
  <2> QED BY <1>1, <1>2, <2>1 DEF AuthInv, AuthIssuedInv
<1>9. SealedInv'
  <2>1. Sealed => ~Occupied' BY <1>2 DEF AuthInv, SealedInv, Occupied
  <2>2. health' = "absent" => Sealed BY <1>2 DEF Sealed
  <2> QED BY <1>3, <1>4, <1>5, <2>1, <2>2, StaysSealed
<1>10. SpentKept'
  <2>1. CASE spent' = spent BY <1>2, <1>3, <1>4, <1>5, <2>1, StaysKept
  <2>2. CASE Custody \in lost' BY <1>2, <2>2 DEF SpentKept
  <2> QED BY <2>1, <2>2
<1> QED BY <1>3, <1>4, <1>5, <1>6, <1>7, <1>8, <1>9, <1>10, CallStep

LEMMA LossSteps ==
  ASSUME AuthInv, NEW p \in Procs, TokenTransportError(p) \/ Crash(p)
  PROVE  AuthInv'
<1>1. /\ CallInv(op[p]) /\ (lock = p <=> op[p].pc \in Inside) /\ lost \subseteq spent
      /\ faults \in 0..MaxFaults /\ MaxFaults \in Nat
  BY CallTyped, ConnectorAuthAssumption DEF AuthInv, TypeOK
<1>2. faults' \in 0..MaxFaults BY <1>1 DEF TokenTransportError, Crash, Fault
<1>3. CASE TokenTransportError(p)
  <2>1. op[p].pc = "token" /\ op[p].kind \in Refreshing /\ lock = p
    BY <1>1, <1>3 DEF TokenTransportError, At, Inside, Refreshing
  <2>2. Custody \in 1..issued
    BY <1>1, <2>1, SlotsDiffer DEF CallInv, Holds, Custody, AuthInv, AuthIssuedInv, TypeOK, Refreshing
  <2>3. \/ spent' = spent /\ lost' = lost
        \/ spent' = spent \cup {Custody} /\ lost' = lost \cup {Custody}
    BY <1>3 DEF TokenTransportError
  <2>4. lost \subseteq lost' /\ lost' \subseteq spent' BY <1>1, <2>3
  <2> QED BY <1>2, <1>3, <2>1, <2>2, <2>3, <2>4, LossEnd DEF TokenTransportError, Publishing
<1>4. CASE Crash(p)
  <2>1. Publishing(op[p]) => Custody \in spent BY <1>1 DEF Publishing, CallInv, Holds
  <2>2. lost' = IF Publishing(op[p]) THEN lost \cup {Custody} ELSE lost
    BY <1>4 DEF Crash, Publishing, Refreshing
  <2>3. lost \subseteq lost' /\ lost' \subseteq spent /\ spent' = spent
        /\ (Publishing(op[p]) => Custody \in lost')
    BY <1>1, <1>4, <2>1, <2>2 DEF Crash
  <2> QED BY <1>2, <1>4, <2>3, LossEnd DEF Crash
<1> QED BY <1>3, <1>4

----------------------------------------
(* Publication *)

\* A step of a publication: custody keeps its credential, or the pointer moves
\* to the one the call staged; a connection without a trace may be taken out.
Custodial(p) ==
  /\ op[p].pc \in {"stage", "point", "drop"}
  /\ UNCHANGED <<issued, verified, spent, rejected, imported, started>> /\ faults' \in 0..MaxFaults
  /\ lost \subseteq lost' /\ lost' \subseteq spent /\ slots' \in [Slots -> 0..issued]
  /\ \/ ptr' = ptr /\ Custody' = Custody
     \/ ptr' = ptr + 1 /\ op[p].pc = "point" /\ Custody' = op[p].cred
  /\ \/ UNCHANGED <<health, rev>>
     \/ health = "unverified" /\ health' = "absent" /\ rev' = rev + 1 /\ ~Occupied'

\* What the publishing call knows.
LEMMA Publisher ==
  ASSUME AuthInv, NEW p \in Procs, op[p].pc \in {"stage", "point", "drop"}
  PROVE  /\ lock = p /\ ~Sealed /\ op[p].kind # "remove" /\ op[p].kind \in Kinds
         /\ health # "absent" /\ CallInv(op[p]) /\ op[p].cred \in 1..issued
         /\ op[p].pc # "drop" => ptr = op[p].tok /\ op[p].cred \notin spent
         /\ Pending(op[p]) \/ op[p].pc = "drop" \/ op[p].cred = Archive
<1>1. CallInv(op[p]) /\ (lock = p <=> op[p].pc \in Inside) /\ op[p].kind \in Kinds /\ issued \in Nat
  BY CallTyped, Started DEF AuthInv, TypeOK
<1>2. lock = p /\ op[p].kind # "remove" BY <1>1 DEF CallInv, Placed, Inside
<1>3. ~Sealed /\ health # "absent" BY <1>1, <1>2 DEF AuthInv, SealedInv, Sealed
<1>4. op[p].cred \in 1..issued BY <1>1 DEF CallInv, Brings
<1>5. op[p].pc \in {"stage", "point"} =>
        (Pending(op[p]) \/ op[p].kind = "import") /\ ptr = op[p].tok
  BY <1>1, <1>2 DEF CallInv, Holds, Placed, Pending, Kinds, Granting, Refreshing
<1> QED BY <1>1, <1>2, <1>3, <1>4, <1>5 DEF CallInv, New, Brings, Holds

LEMMA AuthCustodyStep ==
  ASSUME AuthInv, NEW p \in Procs, Custodial(p), NEW v \in Ops, Becomes(p, v), CallInv(v)',
         Enters(p, v), v.kind # "remove", health' # health => v.pc \notin Inside,
         Publishing(op[p]) /\ ptr' = ptr => Publishing(v) \/ Custody \in lost'
  PROVE  AuthInv'
<1>1. /\ rev \in Nat /\ rev >= 1 /\ ptr \in Nat /\ issued \in Nat /\ imported \in Nat
      /\ imported <= rev /\ health \in Health /\ spent \subseteq 1..issued
  BY DEF AuthInv, TypeOK, FileInv
<1>2. /\ lock = p /\ ~Sealed /\ health # "absent" /\ CallInv(op[p]) /\ op[p].cred \in 1..issued
      /\ op[p].pc = "point" => op[p].cred \notin spent /\ (Pending(op[p]) \/ op[p].cred = Archive)
  BY Publisher DEF Custodial
<1>3. rev' \in Nat /\ rev <= rev' /\ (health' = health \/ rev < rev') /\ (Gone => Gone')
  BY <1>1 DEF Custodial, Gone
<1>4. ptr' \in Nat /\ ptr <= ptr' /\ (ptr' = ptr => Custody' = Custody) /\ (ptr # 0 => ptr' # 0)
  BY <1>1 DEF Custodial
<1>5. Shifts(p) BY <1>1, <1>2, <1>3, <1>4 DEF Shifts, Custodial
<1>6. DataTyped' BY <1>1 DEF AuthInv, TypeOK, DataTyped, Custodial, Health
<1>7. FileInv'
  <2>1. /\ rev' >= 1 /\ imported' <= rev' /\ (imported' = rev' => health' = "unverified")
        /\ health' = "ready" /\ ptr' = 0 => imported' = 0
    BY <1>1 DEF AuthInv, FileInv, Custodial
  <2>2. CASE ptr' = ptr /\ Custody' = Custody
    <3>1. PointerResolves'
      BY <2>2, <1>1 DEF AuthInv, FileInv, PointerResolves, Custodial, Occupied
    <3>2. ReadyVerified' BY <2>2 DEF AuthInv, FileInv, ReadyVerified, Custodial
    <3> QED BY <2>1, <3>1, <3>2 DEF FileInv
  <2>3. CASE op[p].pc = "point" /\ Custody' = op[p].cred
    <3>1. health = "ready" => op[p].cred \in verified BY <1>2, <2>3 DEF CallInv, Brings
    <3>2. PointerResolves' /\ ReadyVerified'
      BY <1>2, <2>3, <3>1 DEF PointerResolves, ReadyVerified, Custodial
    <3> QED BY <2>1, <3>2 DEF FileInv
  <2> QED BY <2>2, <2>3 DEF Custodial
<1>8. AuthIssuedInv' BY <1>3, <1>4 DEF AuthInv, AuthIssuedInv, Custodial
<1>9. SealedInv'
  <2>1. health' = "absent" => ~Occupied' /\ v.pc \notin Inside BY <1>2 DEF Custodial
  <2> QED BY <1>2, <1>5, <2>1, StaysSealed
<1>10. SpentKept'
  <2>1. CASE ptr' = ptr /\ Custody' = Custody BY <1>5, <2>1, StaysKept DEF Custodial
  <2>2. CASE op[p].pc = "point" /\ Custody' = op[p].cred BY <1>2, <2>2 DEF SpentKept, Custodial
  <2> QED BY <2>1, <2>2 DEF Custodial
<1> QED BY <1>5, <1>6, <1>7, <1>8, <1>9, <1>10, CallStep

LEMMA AbandonStep ==
  ASSUME AuthInv, NEW p \in Procs, op[p].pc \in {"stage", "point"},
         NEW s \in [Slots -> 0..issued], NEW n, Abandon(p, s, n),
         \/ n = ptr /\ s[Slot(ptr)] = slots[Slot(ptr)]
         \/ n = ptr + 1 /\ op[p].pc = "point" /\ s[Slot(ptr + 1)] = op[p].cred
  PROVE  AuthInv'
<1>1. /\ rev \in Nat /\ rev >= 1 /\ ptr \in Nat /\ issued \in Nat /\ lost \subseteq spent
      /\ faults \in 0..MaxFaults /\ MaxFaults \in Nat
  BY ConnectorAuthAssumption DEF AuthInv, TypeOK, FileInv
<1>2. CallInv(op[p]) BY Publisher
<1>3. Custodial(p)
  <2>1. /\ UNCHANGED <<issued, verified, spent, rejected, imported, started>>
        /\ faults' \in 0..MaxFaults /\ slots' = s /\ ptr' = n
    BY <1>1 DEF Abandon, Fault
  <2>2. lost \subseteq lost' /\ lost' \subseteq spent
    BY <1>1, <1>2 DEF Abandon, CallInv, Holds, Refreshing
  <2>3. \/ ptr' = ptr /\ Custody' = Custody
        \/ ptr' = ptr + 1 /\ op[p].pc = "point" /\ Custody' = op[p].cred
    BY <1>1, <2>1 DEF Custody
  <2>4. \/ UNCHANGED <<health, rev>>
        \/ health = "unverified" /\ health' = "absent" /\ rev' = rev + 1 /\ ~Occupied'
    BY <2>1 DEF Abandon, Occupied
  <2> QED BY <2>1, <2>2, <2>3, <2>4 DEF Custodial
<1>4. Publishing(op[p]) /\ ptr' = ptr => Custody \in lost'
  BY DEF Abandon, Publishing, Refreshing
<1>5. Becomes(p, NoOp) /\ Enters(p, NoOp) /\ NoOp \in Ops BY EndBecomes DEF Abandon
<1>6. CallInv(NoOp)' /\ NoOp.kind # "remove" /\ NoOp.pc \notin Inside
  BY <1>1, <1>3, IdleCall DEF Custodial
<1> QED BY <1>3, <1>4, <1>5, <1>6, AuthCustodyStep

LEMMA AbandonSteps ==
  ASSUME AuthInv, NEW p \in Procs, StageFails(p) \/ PointFails(p) \/ PointVisible(p)
  PROVE  AuthInv'
<1>1. /\ slots \in [Slots -> 0..issued] /\ issued \in Nat /\ ptr \in Nat
      /\ \A t \in Slots : [slots EXCEPT ![t] = 0] \in [Slots -> 0..issued]
  <2>1. slots \in [Slots -> 0..issued] /\ issued \in Nat /\ ptr \in Nat
    BY DEF AuthInv, AuthIssuedInv, TypeOK
  <2>2. 0 \in 0..issued BY <2>1
  <2> QED BY <2>1, <2>2
<1>2. /\ Slot(ptr) \in Slots /\ Slot(ptr + 1) \in Slots /\ Slot(ptr) # Slot(ptr + 1)
      /\ op[p].pc \in {"stage", "point"}
  BY <1>1, SlotsDiffer DEF StageFails, PointFails, PointVisible
<1>3. CASE Abandon(p, slots, ptr) BY <1>1, <1>2, <1>3, AbandonStep
<1>4. CASE Abandon(p, [slots EXCEPT ![Slot(ptr + 1)] = 0], ptr)
  <2>0. [slots EXCEPT ![Slot(ptr + 1)] = 0] \in [Slots -> 0..issued] BY <1>1, <1>2
  <2>1. PICK s \in [Slots -> 0..issued] : s = [slots EXCEPT ![Slot(ptr + 1)] = 0] BY <2>0
  <2>2. Abandon(p, s, ptr) /\ s[Slot(ptr)] = slots[Slot(ptr)] BY <1>1, <1>2, <1>4, <2>1
  <2> QED BY <1>2, <2>2, AbandonStep
<1>5. CASE PointVisible(p)
  <2>1. op[p].pc = "point" /\ Abandon(p, WithoutPrevious(p), ptr + 1) BY <1>5 DEF PointVisible
  <2>2. ptr = op[p].tok /\ slots[Slot(ptr + 1)] = op[p].cred
    BY <2>1, Publisher DEF CallInv, Holds
  <2>0. WithoutPrevious(p) \in [Slots -> 0..issued]
    <3>1. op[p].tok = 0 \/ Slot(op[p].tok) \in Slots BY <1>1, <2>2, SlotsDiffer
    <3> QED BY <1>1, <3>1 DEF WithoutPrevious
  <2>3. PICK s \in [Slots -> 0..issued] : s = WithoutPrevious(p) BY <2>0
  <2>4. s[Slot(ptr + 1)] = op[p].cred BY <1>1, <1>2, <2>2, <2>3 DEF WithoutPrevious
  <2> QED BY <1>2, <2>1, <2>3, <2>4, AbandonStep
<1> QED BY <1>3, <1>4, <1>5 DEF StageFails, PointFails

\* A call moves on within its publication, or out of it.
LEMMA MoveOn ==
  ASSUME AuthInv, NEW p \in Procs, Custodial(p), UNCHANGED health, NEW v \in Ops,
         OpMoved(p, v.pc, v.rev, v.tok, v.cred), v = op'[p],
         (v.pc \in Inside => lock' = p) /\ (v.pc \notin Inside => lock' = NoProc),
         Publishing(op[p]) /\ ptr' = ptr => v.pc \in {"stage", "point"},
         CallInv(v)', Pending(v) => Pending(op[p]) /\ v.cred = op[p].cred
  PROVE  AuthInv'
<1>1. lock = p /\ op[p].kind # "remove" /\ op[p].pc \in Inside
  BY Publisher DEF Custodial, Inside
<1>2. v.kind = op[p].kind BY DEF OpMoved
<1>3. Becomes(p, v) /\ Enters(p, v) BY <1>1, <1>2 DEF OpMoved, Becomes, Enters
<1>4. Publishing(op[p]) /\ ptr' = ptr => Publishing(v) BY <1>2 DEF Publishing
<1> QED BY <1>1, <1>2, <1>3, <1>4, AuthCustodyStep

LEMMA StagePointSteps ==
  ASSUME AuthInv, NEW p \in Procs, Stage(p) \/ Point(p)
  PROVE  AuthInv'
<1>1. /\ slots \in [Slots -> 0..issued] /\ issued \in Nat /\ ptr \in Nat /\ rev \in Nat
      /\ lost \subseteq spent /\ faults \in 0..MaxFaults /\ op[p] \in Ops
  BY CallTyped DEF AuthInv, AuthIssuedInv, TypeOK
<1>2. /\ Slot(ptr) \in Slots /\ Slot(ptr + 1) \in Slots /\ Slot(ptr) # Slot(ptr + 1)
      /\ op[p].pc \in {"stage", "point"} /\ op[p].tok \in Nat
  BY <1>1, SlotsDiffer DEF Stage, Point, Ops
<1>3. /\ lock = p /\ CallInv(op[p]) /\ op[p].cred \in 1..issued /\ op[p].kind # "remove"
      /\ op[p].kind \in Kinds /\ ptr = op[p].tok
  BY <1>2, Publisher
<1>4. CASE Stage(p)
  <2>1. /\ op[p].pc = "stage" /\ Goto(p, "point") /\ lock' = lock
        /\ UNCHANGED <<health, rev, imported, ptr, issued, verified, spent, lost, rejected, started,
                       faults>>
    BY <1>4 DEF Stage, portable, provider
  <2>2. /\ slots' \in [Slots -> 0..issued] /\ slots'[Slot(ptr + 1)] = op[p].cred
        /\ slots'[Slot(ptr)] = slots[Slot(ptr)]
    <3>1. op[p].cred \in 0..issued /\ slots' = [slots EXCEPT ![Slot(ptr + 1)] = op[p].cred]
      BY <1>3, <1>4 DEF Stage
    <3> QED BY <1>1, <1>2, <3>1
  <2>3. Custody' = Custody /\ (Gone <=> Gone') BY <2>1, <2>2 DEF Custody, Gone
  <2>4. Custodial(p) BY <1>1, <2>1, <2>2, <2>3 DEF Custodial
  <2>5. OpMoved(p, "point", op[p].rev, op[p].tok, op[p].cred) BY <2>1, GotoMoves DEF Points
  <2>6. PICK c \in Ops : c = op'[p] BY <2>5 DEF OpMoved
  <2>7. /\ c.kind = op[p].kind /\ c.pc = "point" /\ c.rev = op[p].rev /\ c.tok = op[p].tok
        /\ c.cred = op[p].cred
    BY <2>5, <2>6 DEF OpMoved
  <2>8. CallInv(c)' /\ (Pending(c) => Pending(op[p]))
    <3>1. Placed(c)' /\ Seen(c)' /\ Underway(c)'
      BY <1>3, <2>1, <2>3, <2>7 DEF CallInv, Placed, Seen, Underway, Kinds
    <3>2. Holds(c)' BY <1>3, <2>1, <2>2, <2>3, <2>7 DEF CallInv, Holds
    <3>3. Brings(c)' BY <1>3, <2>1, <2>7 DEF CallInv, Brings, OpUses
    <3>4. Used(c)' /\ New(c)'
      BY <1>3, <2>1, <2>3, <2>7 DEF CallInv, Used, OpUses, New, Pending, Granting, Refreshing
    <3>5. Pending(c) => Pending(op[p]) BY <2>1, <2>7 DEF Pending, Granting
    <3> QED BY <3>1, <3>2, <3>3, <3>4, <3>5 DEF CallInv
  <2>9. c.pc \in Inside /\ lock' = p BY <1>3, <2>1, <2>7 DEF Inside
  <2> QED BY <2>1, <2>4, <2>5, <2>6, <2>7, <2>8, <2>9, MoveOn
<1>5. CASE Point(p)
  <2>1. /\ op[p].pc = "point" /\ Goto(p, "drop") /\ lock' = lock /\ ptr' = ptr + 1
        /\ UNCHANGED <<health, rev, imported, slots, issued, verified, spent, lost, rejected, started,
                       faults>>
    BY <1>5 DEF Point, portable, provider
  <2>2. Custody' = op[p].cred /\ (Gone <=> Gone')
    BY <1>1, <1>3, <2>1 DEF Custody, Gone, CallInv, Holds
  <2>3. Custodial(p) BY <1>1, <2>1, <2>2 DEF Custodial
  <2>4. OpMoved(p, "drop", op[p].rev, op[p].tok, op[p].cred) BY <2>1, GotoMoves DEF Points
  <2>5. PICK c \in Ops : c = op'[p] BY <2>4 DEF OpMoved
  <2>6. /\ c.kind = op[p].kind /\ c.pc = "drop" /\ c.rev = op[p].rev /\ c.tok = op[p].tok
        /\ c.cred = op[p].cred
    BY <2>4, <2>5 DEF OpMoved
  <2>7. CallInv(c)' /\ ~Pending(c)
    <3>1. Placed(c)' /\ Seen(c)' /\ Underway(c)'
      BY <1>3, <2>1, <2>2, <2>6 DEF CallInv, Placed, Seen, Underway, Kinds
    <3>2. Holds(c)' BY <1>3, <2>1, <2>2, <2>6 DEF CallInv, Holds
    <3>3. Brings(c)' BY <1>3, <2>1, <2>6 DEF CallInv, Brings, OpUses
    <3>4. Used(c)' /\ New(c)' BY <2>6 DEF Used, OpUses, New, Pending
    <3>5. ~Pending(c) BY <2>6 DEF Pending
    <3> QED BY <3>1, <3>2, <3>3, <3>4, <3>5 DEF CallInv
  <2>8. c.pc \in Inside /\ lock' = p /\ ptr' # ptr BY <1>1, <1>3, <2>1, <2>6 DEF Inside
  <2> QED BY <2>1, <2>3, <2>4, <2>5, <2>6, <2>7, <2>8, MoveOn
<1> QED BY <1>4, <1>5

\* The previous secret is deleted, and the call goes where it was going.
LEMMA DropStep ==
  ASSUME AuthInv, NEW p \in Procs, Drop(p)
  PROVE  AuthInv'
<1>1. /\ slots \in [Slots -> 0..issued] /\ issued \in Nat /\ ptr \in Nat /\ rev \in Nat /\ rev >= 1
      /\ lost \subseteq spent /\ faults \in 0..MaxFaults /\ op[p] \in Ops /\ op \in [Procs -> Ops]
  BY CallTyped DEF AuthInv, AuthIssuedInv, TypeOK, Ops, FileInv
<1>2. /\ lock = p /\ CallInv(op[p]) /\ op[p].cred \in 1..issued /\ op[p].kind # "remove"
      /\ op[p].kind \in Kinds /\ op[p].pc = "drop" /\ op[p].tok \in Nat
  BY <1>1, Publisher DEF Drop, Ops
<1>3. ptr = op[p].tok + 1 /\ Custody = op[p].cred BY <1>2 DEF CallInv, Holds
<1>4. /\ UNCHANGED <<health, rev, imported, ptr, issued, verified, spent, lost, rejected, started, faults>>
      /\ slots' = WithoutPrevious(p) /\ Published(p)
  BY DEF Drop, portable, provider
<1>5. slots' \in [Slots -> 0..issued] /\ slots'[Slot(ptr)] = slots[Slot(ptr)]
  <2>1. /\ Slot(op[p].tok) \in Slots /\ Slot(ptr) \in Slots /\ Slot(op[p].tok) # Slot(ptr)
        /\ 0 \in 0..issued
    BY <1>1, <1>2, <1>3, SlotsDiffer
  <2> QED BY <1>1, <1>4, <2>1 DEF WithoutPrevious
<1>6. Custody' = Custody /\ (Gone <=> Gone') BY <1>4, <1>5 DEF Custody, Gone
<1>7. Custodial(p) /\ ~Publishing(op[p])
  BY <1>1, <1>2, <1>4, <1>5, <1>6 DEF Custodial, Publishing
<1>8. CASE End(p)
  <2>1. CallInv(NoOp)' /\ NoOp.kind # "remove" /\ NoOp.pc \notin Inside BY <1>1, <1>4, IdleCall
  <2> QED BY <1>7, <1>8, <2>1, EndBecomes, AuthCustodyStep
<1>9. ASSUME NEW at \in {"mark", "put", "call", "verify"}, NEW c \in Ops, c.kind = op[p].kind,
             c.pc = at, c.rev = op[p].rev, c.cred = op[p].cred,
             \/ at = "mark" /\ op[p].kind = "connect"
             \/ at = "put" /\ op[p].kind = "reauthorize"
             \/ at = "call" /\ op[p].kind = "read" /\ c.tok = ptr
             \/ at = "verify" /\ op[p].kind = "resume" /\ c.tok = ptr
      PROVE  CallInv(c)' /\ ~Pending(c)
  <2>1. Placed(c)' /\ Seen(c)' /\ Underway(c)'
    BY <1>2, <1>4, <1>9 DEF CallInv, Placed, Seen, Underway
  <2>2. Holds(c)' BY <1>3, <1>6, <1>9 DEF Holds
  <2>3. Brings(c)' BY <1>2, <1>4, <1>9 DEF CallInv, Brings, OpUses, Granting
  <2>4. Used(c)' BY <1>1, <1>3, <1>4, <1>6, <1>9 DEF Used, OpUses
  <2>5. New(c)' /\ ~Pending(c) BY <1>9 DEF New, Pending, Granting, Refreshing
  <2> QED BY <2>1, <2>2, <2>3, <2>4, <2>5 DEF CallInv
<1>10. ASSUME NEW at \in {"mark", "put"}, Goto(p, at), lock' = lock,
              \/ at = "mark" /\ op[p].kind = "connect"
              \/ at = "put" /\ op[p].kind = "reauthorize"
       PROVE  AuthInv'
  <2>1. /\ at \in Points /\ at \in Inside /\ at \notin {"stage", "point"}
        /\ at \in {"mark", "put", "call", "verify"}
    BY DEF Points, Inside
  <2>2. OpMoved(p, at, op[p].rev, op[p].tok, op[p].cred) BY <1>10, <2>1, GotoMoves
  <2>3. PICK c \in Ops : c = op'[p] BY <2>2 DEF OpMoved
  <2>4. /\ c.kind = op[p].kind /\ c.pc = at /\ c.rev = op[p].rev /\ c.tok = op[p].tok
        /\ c.cred = op[p].cred
    BY <2>2, <2>3 DEF OpMoved
  <2>5. CallInv(c)' /\ ~Pending(c) BY <1>9, <1>10, <2>1, <2>4
  <2>6. (c.pc \in Inside => lock' = p) /\ (c.pc \notin Inside => lock' = NoProc)
    BY <1>2, <1>10, <2>1, <2>4
  <2> QED BY <1>4, <1>7, <2>2, <2>3, <2>4, <2>5, <2>6, MoveOn
<1>11. ASSUME NEW at \in {"call", "verify"}, lock' = NoProc,
              op' = [op EXCEPT ![p].pc = at, ![p].tok = ptr],
              \/ at = "call" /\ op[p].kind = "read"
              \/ at = "verify" /\ op[p].kind = "resume"
       PROVE  AuthInv'
  <2>1. /\ at \in Points /\ at \notin Inside /\ at \notin {"stage", "point"}
        /\ at \in {"mark", "put", "call", "verify"}
    BY DEF Points, Inside
  <2>2. OpMoved(p, at, op[p].rev, ptr, op[p].cred) BY <1>1, <1>11, <2>1 DEF OpMoved, Ops
  <2>3. PICK c \in Ops : c = op'[p] BY <2>2 DEF OpMoved
  <2>4. /\ c.kind = op[p].kind /\ c.pc = at /\ c.rev = op[p].rev /\ c.tok = ptr
        /\ c.cred = op[p].cred
    BY <2>2, <2>3 DEF OpMoved
  <2>5. CallInv(c)' /\ ~Pending(c) BY <1>9, <1>11, <2>1, <2>4
  <2>6. (c.pc \in Inside => lock' = p) /\ (c.pc \notin Inside => lock' = NoProc)
    BY <1>2, <1>11, <2>1, <2>4
  <2> QED BY <1>4, <1>7, <2>2, <2>3, <2>4, <2>5, <2>6, MoveOn
<1>12. CASE op[p].kind \in Refreshing
  <2>1. /\ lock' = NoProc
        /\ op' = [op EXCEPT ![p].pc = IF op[p].kind = "read" THEN "call" ELSE "verify", ![p].tok = ptr]
    BY <1>4, <1>12 DEF Published, Refreshing, End, Goto
  <2>2. PICK at \in {"call", "verify"} : at = IF op[p].kind = "read" THEN "call" ELSE "verify"
    OBVIOUS
  <2>3. op' = [op EXCEPT ![p].pc = at, ![p].tok = ptr] BY <2>1, <2>2
  <2> QED BY <1>11, <1>12, <2>1, <2>2, <2>3 DEF Refreshing
<1>13. CASE op[p].kind \notin Refreshing
  <2>1. \/ End(p)
        \/ op[p].kind = "connect" /\ Goto(p, "mark") /\ lock' = lock
        \/ op[p].kind = "reauthorize" /\ Goto(p, "put") /\ lock' = lock
    BY <1>4, <1>13 DEF Published, Refreshing
  <2> QED BY <1>8, <1>10, <2>1
<1> QED BY <1>12, <1>13

LEMMA DropFailsStep ==
  ASSUME AuthInv, NEW p \in Procs, DropFails(p)
  PROVE  AuthInv'
<1>1. faults' \in 0..MaxFaults BY ConnectorAuthAssumption DEF AuthInv, TypeOK, DropFails, Fault
<1>2. Quiet BY <1>1 DEF AuthInv, TypeOK, DropFails, Quiet, portable, custody, provider
<1> QED BY <1>2, QuietEnd DEF DropFails, Publishing

----------------------------------------
(* Removal *)

\* Custody is only emptied, and is empty where the removal lets go of the lock.
Wiping(p) ==
  /\ op[p].kind = "remove" /\ op[p].pc \in {"wipe", "unlink"}
  /\ UNCHANGED <<health, rev, imported, issued, verified, spent, lost, rejected, started>>
  /\ faults' \in 0..MaxFaults /\ ptr' \in {ptr, 0} /\ slots' \in [Slots -> 0..issued]
  /\ \A s \in Slots : slots'[s] \in {slots[s], 0}

LEMMA WipeStep ==
  ASSUME AuthInv, NEW p \in Procs, Wiping(p), NEW v \in Ops, Becomes(p, v), CallInv(v)',
         v.kind \in {"remove", "none"}, v.pc = "forget" => ~Occupied'
  PROVE  AuthInv'
<1>1. /\ rev \in Nat /\ rev >= 1 /\ ptr \in Nat /\ issued \in Nat /\ lock = p /\ Gone
      /\ CallInv(op[p]) /\ slots \in [Slots -> 0..issued]
  BY CallTyped DEF AuthInv, TypeOK, FileInv, AuthIssuedInv, Wiping, Inside, CallInv, Underway
<1>2. (Gone <=> Gone') /\ Custody' \in {Custody, 0}
  <2>1. ptr' # 0 => slots'[Slot(ptr)] \in {slots[Slot(ptr)], 0} BY <1>1, SlotsDiffer DEF Wiping
  <2> QED BY <2>1 DEF Gone, Custody, Wiping
<1>3. Shifts(p) BY <1>1, <1>2 DEF Shifts, Wiping
<1>4. DataTyped' BY DEF AuthInv, TypeOK, DataTyped, Wiping
<1>5. Sealed => ~Occupied'
  <2>1. SUFFICES ASSUME Sealed PROVE ptr' = 0 /\ slots' = Empty
    BY DEF Occupied
  <2>2. ptr = 0 /\ slots = Empty BY <2>1 DEF AuthInv, SealedInv, Occupied
  <2>3. \A s \in Slots : slots'[s] = 0 BY <2>2 DEF Wiping, Empty
  <2> QED BY <2>2, <2>3 DEF Wiping, Empty
<1>6. FileInv'
  <2>1. health' # "ready" BY <1>1 DEF Gone, Wiping
  <2>2. PointerResolves' BY <1>1, <1>5 DEF PointerResolves, Gone, Sealed, Occupied, Wiping
  <2> QED BY <2>1, <2>2 DEF AuthInv, FileInv, ReadyVerified, Wiping
<1>7. AuthIssuedInv' BY <1>1, <1>2 DEF AuthInv, AuthIssuedInv, Wiping
<1>8. SealedInv'
  <2>1. health' = "absent" => Sealed BY DEF Wiping, Sealed
  <2>2. v.pc = "forget" => v.pc \notin Inside BY DEF Inside
  <2>3. v.kind # "remove" => v.pc # "forget" /\ v.pc \notin Inside
    <3>1. Placed(v)' BY DEF CallInv
    <3> QED BY <3>1 DEF Placed, NoOp, Inside
  <2>4. Enters(p, v) BY <2>3 DEF Enters
  <2> QED BY <1>1, <1>3, <1>5, <2>1, <2>2, <2>4, StaysSealed
<1>9. SpentKept'
  <2>1. ~Publishing(op[p]) BY DEF Publishing, Wiping
  <2>2. Custody \in spent => Custody \in lost BY <1>1, <2>1, SpentIsLost
  <2>3. 0 \notin spent BY DEF AuthInv, TypeOK
  <2> QED BY <1>2, <2>2, <2>3 DEF SpentKept, Wiping
<1> QED BY <1>3, <1>4, <1>6, <1>7, <1>8, <1>9, CallStep

LEMMA RemoveSteps ==
  ASSUME AuthInv, NEW p \in Procs, RemoveWipe(p) \/ RemoveWipeFails(p) \/ RemoveUnlink(p)
  PROVE  AuthInv'
<1>1. /\ slots \in [Slots -> 0..issued] /\ issued \in Nat /\ ptr \in Nat /\ rev \in Nat /\ rev >= 1
      /\ faults \in 0..MaxFaults /\ MaxFaults \in Nat /\ CallInv(op[p]) /\ lock = p
      /\ op[p].kind = "remove" /\ op[p].pc \in {"wipe", "unlink"} /\ 0 \in 0..issued
  BY CallTyped, ConnectorAuthAssumption
     DEF AuthInv, AuthIssuedInv, TypeOK, FileInv, RemoveWipe, RemoveWipeFails, RemoveUnlink, At, Inside
<1>2. Gone BY <1>1 DEF CallInv, Underway
<1>3. Empty \in [Slots -> 0..issued] /\ \A s \in Slots : Empty[s] = 0 BY <1>1 DEF Empty
<1>4. CASE RemoveWipe(p)
  <2>1. /\ slots' = Empty /\ Goto(p, "unlink") /\ lock' = lock
        /\ UNCHANGED <<health, rev, imported, ptr, issued, verified, spent, lost, rejected, started,
                       faults>>
    BY <1>4 DEF RemoveWipe, portable, provider
  <2>2. Wiping(p) BY <1>1, <1>3, <2>1 DEF Wiping
  <2>3. OpMoved(p, "unlink", op[p].rev, op[p].tok, op[p].cred) BY <2>1, GotoMoves DEF Points
  <2>4. PICK v \in Ops : v = op'[p] BY <2>3 DEF OpMoved
  <2>5. /\ v.kind = "remove" /\ v.pc = "unlink" /\ v.rev = op[p].rev /\ v.tok = op[p].tok
        /\ v.cred = op[p].cred
    BY <1>1, <2>3, <2>4 DEF OpMoved
  <2>6. Becomes(p, v)
    BY <1>1, <2>1, <2>3, <2>4, <2>5 DEF Becomes, OpMoved, Inside, Pending, Granting, Refreshing
  <2>7. CallInv(v)'
    BY <1>1, <1>2, <2>1, <2>5 DEF CallInv, Placed, Seen, Underway, Holds, Brings, Used, OpUses, New,
                                  Pending, Granting, Refreshing, Gone
  <2> QED BY <2>2, <2>5, <2>6, <2>7, WipeStep
<1>5. CASE RemoveWipeFails(p)
  <2>1. /\ slots' = [slots EXCEPT !["a"] = 0] \/ slots' = slots
        /\ End(p) /\ Fault
        /\ UNCHANGED <<health, rev, imported, ptr, issued, verified, spent, lost, rejected, started>>
    BY <1>5 DEF RemoveWipeFails, portable, provider
  <2>2. slots' \in [Slots -> 0..issued] /\ \A s \in Slots : slots'[s] \in {slots[s], 0}
    BY <1>1, <2>1 DEF Slots
  <2>3. Wiping(p) BY <1>1, <2>1, <2>2 DEF Wiping, Fault
  <2>4. CallInv(NoOp)' /\ NoOp.kind = "none" /\ NoOp.pc # "forget"
    BY <1>1, <2>1, IdleCall DEF NoOp
  <2> QED BY <2>1, <2>3, <2>4, EndBecomes, WipeStep
<1>6. CASE RemoveUnlink(p)
  <2>1. /\ op[p].pc = "unlink" /\ ptr' = 0 /\ lock' = NoProc /\ Goto(p, "forget")
        /\ UNCHANGED <<health, rev, imported, slots, issued, verified, spent, lost, rejected, started,
                       faults>>
    BY <1>6 DEF RemoveUnlink, At, Release, portable, provider
  <2>2. slots = Empty BY <1>1, <2>1 DEF CallInv, Underway
  <2>3. Wiping(p) /\ ~Occupied' BY <1>1, <2>1, <2>2 DEF Wiping, Occupied
  <2>4. OpMoved(p, "forget", op[p].rev, op[p].tok, op[p].cred) BY <2>1, GotoMoves DEF Points
  <2>5. PICK v \in Ops : v = op'[p] BY <2>4 DEF OpMoved
  <2>6. /\ v.kind = "remove" /\ v.pc = "forget" /\ v.rev = op[p].rev /\ v.tok = op[p].tok
        /\ v.cred = op[p].cred
    BY <1>1, <2>4, <2>5 DEF OpMoved
  <2>7. Becomes(p, v)
    BY <1>1, <2>1, <2>4, <2>5, <2>6 DEF Becomes, OpMoved, Inside, Pending, Granting, Refreshing
  <2>8. CallInv(v)'
    BY <1>1, <1>2, <2>1, <2>6 DEF CallInv, Placed, Seen, Underway, Holds, Brings, Used, OpUses, New,
                                  Pending, Granting, Refreshing, Gone
  <2> QED BY <2>3, <2>6, <2>7, <2>8, WipeStep
<1> QED BY <1>4, <1>5, <1>6

----------------------------------------
(* The invariant *)

LEMMA PublicationInv ==
  ASSUME AuthInv, NEW p \in Procs, Publication(p)
  PROVE  AuthInv'
BY StagePointSteps, AbandonSteps, DropStep, DropFailsStep DEF Publication

LEMMA SetupInv ==
  ASSUME AuthInv, NEW p \in Procs, Setup(p)
  PROVE  AuthInv'
<1>1. CASE Connect(p) \/ Authorize(p) \/ Reauthorize(p) BY <1>1, StartStep
<1>2. CASE ConnectEnter(p) \/ AuthorizeEnter(p) \/ ReauthorizeEnter(p) BY <1>2, EnterSteps
<1>3. CASE ConnectPut(p) \/ AuthorizeMark(p) \/ ReauthorizePut(p) BY <1>3, PersistSteps
<1>4. CASE ConnectReady(p) BY <1>4, MarkSteps
<1>5. CASE AuthorizeRecheck(p) BY <1>5, UseSteps
<1>6. CASE Declined(p) BY <1>6, DeclinedStep
<1> QED BY <1>1, <1>2, <1>3, <1>4, <1>5, <1>6 DEF Setup

LEMMA UseInv ==
  ASSUME AuthInv, NEW p \in Procs, Use(p)
  PROVE  AuthInv'
<1>1. CASE Read(p) \/ Resume(p) BY <1>1, StartStep
<1>2. CASE ResolveEnter(p) \/ ReportEnter(p) \/ ConfirmEnter(p) BY <1>2, EnterSteps
<1>3. CASE TokenUsable(p) \/ CallAnswered(p) \/ CallRejected(p) \/ VerifyIdentity(p)
  BY <1>3, UseSteps
<1>4. CASE TokenRefresh(p) BY <1>4, RefreshStep
<1>5. CASE TokenTransportError(p) BY <1>5, LossSteps
<1>6. CASE TokenRejected(p) \/ TokenRejectedUnmarked(p) \/ TokenMisgranted(p) BY <1>6, MarkSteps
<1>7. CASE ReportMark(p) \/ ConfirmPut(p) BY <1>7, PersistSteps
<1> QED BY <1>1, <1>2, <1>3, <1>4, <1>5, <1>6, <1>7 DEF Use

LEMMA UpkeepInv ==
  ASSUME AuthInv, NEW p \in Procs, Upkeep(p)
  PROVE  AuthInv'
<1>1. CASE Remove(p) \/ Import(p) \/ Alias(p) BY <1>1, StartStep
<1>2. CASE ImportEnter(p) \/ AliasEnter(p) BY <1>2, EnterSteps
<1>3. CASE RemoveRevoke(p) \/ RemoveForget(p) \/ ImportReplace(p) \/ AliasPut(p)
  BY <1>3, PersistSteps
<1>4. CASE RemoveEnter(p) \/ LockTimeout(p) BY <1>4, UseSteps
<1>5. CASE RemoveWipe(p) \/ RemoveWipeFails(p) \/ RemoveUnlink(p) BY <1>5, RemoveSteps
<1>6. CASE Crash(p) BY <1>6, LossSteps
<1> QED BY <1>1, <1>2, <1>3, <1>4, <1>5, <1>6 DEF Upkeep

LEMMA AuthInitInv == Init => AuthInv
<1> SUFFICES ASSUME Init PROVE AuthInv
  OBVIOUS
<1>1. /\ NoOp \in Ops /\ NoOp.pc = "idle" /\ NoOp.kind = "none" /\ op = [p \in Procs |-> NoOp]
  BY DEF Init, NoOp, Ops, Kinds, Points
<1>2. Custody = 0 /\ slots = Empty /\ slots \in [Slots -> 0..issued] /\ slots \in [Slots -> Nat]
  BY DEF Init, Custody, Empty, Archive
<1>3. TypeOK
  <2>1. op \in [Procs -> Ops] BY <1>1
  <2>2. \A p \in Procs : lock = p <=> op[p].pc \in Inside
    BY <1>1, ConnectorAuthAssumption DEF Init, Inside
  <2> QED BY <1>2, <2>1, <2>2, ConnectorAuthAssumption
             DEF Init, TypeOK, Ops, Health, Live, ReauthHealth, VerifiedHealth, Archive, ArchiveRev
<1>4. FileInv /\ AuthIssuedInv /\ SpentKept
  BY <1>2 DEF Init, FileInv, AuthIssuedInv, SpentKept, PointerResolves, ReadyVerified, Archive, ArchiveRev
<1>5. SealedInv /\ PairInv
  BY <1>1 DEF Init, SealedInv, Sealed, PairInv, Pending, Granting, Refreshing
<1>6. CallInv(NoOp)
  BY DEF Init, NoOp, CallInv, Placed, Seen, Underway, Holds, Brings, Used, OpUses, New, Pending, Granting,
         Refreshing, Archive, ArchiveRev
<1> QED BY <1>1, <1>3, <1>4, <1>5, <1>6 DEF AuthInv

LEMMA AuthNextInv == AuthInv /\ [Next]_vars => AuthInv'
<1> SUFFICES ASSUME AuthInv, [Next]_vars PROVE AuthInv'
  OBVIOUS
<1>1. CASE Next
  <2>1. PICK p \in Procs : Publication(p) \/ Setup(p) \/ Use(p) \/ Upkeep(p) BY <1>1 DEF Next
  <2> QED BY <2>1, PublicationInv, SetupInv, UseInv, UpkeepInv
<1>2. CASE UNCHANGED vars
  <2>1. Quiet /\ UNCHANGED <<op, lock>> BY <1>2 DEF vars, Quiet, AuthInv, TypeOK
  <2>2. Custody' = Custody /\ (Gone <=> Gone') /\ (Sealed <=> Sealed') /\ (Occupied <=> Occupied')
    BY <1>2 DEF vars, Custody, Gone, Sealed, Occupied
  <2>3. TypeOK' BY <1>2 DEF AuthInv, vars, TypeOK
  <2>4. /\ FileInv' /\ AuthIssuedInv' /\ SealedInv' /\ PairInv' /\ SpentKept'
    BY <1>2, <2>2 DEF AuthInv, vars, FileInv, PointerResolves, ReadyVerified, AuthIssuedInv, SealedInv,
                      PairInv, Pending, SpentKept
  <2>5. ASSUME NEW p \in Procs PROVE CallInv(op[p])'
    <3>1. PICK c \in Ops : c = op[p] /\ c = op'[p] BY <2>1, CallTyped
    <3>2. CallInv(c)' BY <2>1, <3>1, CallTyped, QuietCall
    <3> QED BY <3>1, <3>2
  <2> QED BY <2>3, <2>4, <2>5 DEF AuthInv
<1> QED BY <1>1, <1>2

\* In every reachable state of any number of processes, operations and faults: types, the holder of
\* the lifecycle lock, what each operation has read and brings, and what file and custody say together.
THEOREM AuthInvariant == Spec => []AuthInv
BY AuthInitInv, AuthNextInv, PTL DEF Spec

\* Custody of connector_auth.py: remove leaves neither a slot nor a pointer behind and nothing
\* brings one back, the pointer resolves to a secret unless a revoked connection is being deleted,
\* and a consumed refresh token stays only while its successor is published, or when that is lost.
THEOREM CustodySound == Spec => []AuthCustody
<1>1. AuthInv => AuthCustody
  <2> SUFFICES ASSUME AuthInv PROVE AuthCustody
    OBVIOUS
  <2>1. RemovedIsEmpty BY DEF AuthInv, SealedInv, Sealed, RemovedIsEmpty
  <2>2. PointerResolves BY DEF AuthInv, FileInv
  <2>3. SpentAccounted BY DEF AuthInv, SpentKept, SpentAccounted
  <2> QED BY <2>1, <2>2, <2>3 DEF AuthCustody
<1> QED BY <1>1, AuthInvariant, PTL

\* A connection says ready only over a credential whose account was confirmed, or a refresh of one,
\* whichever of connect, reauthorize, resume, authorize and import replaces credentials meanwhile.
THEOREM ReadyIsVerified == Spec => []ReadyVerified
<1>1. AuthInv => ReadyVerified BY DEF AuthInv, FileInv
<1> QED BY <1>1, AuthInvariant, PTL

----------------------------------------
(* What no step does *)

\* A step keeps a revoked or removed connection so, and asks for reauthorization only over a
\* credential itself found unusable.
StepKeeps ==
  /\ health = "revoked" => health' \in {"revoked", "absent"}
  /\ health = "absent" => health' = "absent"
  /\ health # "reauth" /\ health' = "reauth" => Custody \in rejected'

\* The steps that leave the health alone.
LEMMA HealthKept ==
  ASSUME NEW p \in Procs,
         \/ Stage(p) \/ Point(p) \/ Drop(p) \/ DropFails(p)
         \/ Connect(p) \/ ConnectEnter(p) \/ Authorize(p) \/ AuthorizeEnter(p) \/ AuthorizeRecheck(p)
         \/ Reauthorize(p) \/ ReauthorizeEnter(p) \/ Declined(p) \/ Read(p) \/ Resume(p)
         \/ ResolveEnter(p) \/ TokenUsable(p) \/ TokenRefresh(p) \/ TokenTransportError(p) \/ TokenRejectedUnmarked(p)
         \/ CallAnswered(p) \/ CallRejected(p) \/ ReportEnter(p) \/ VerifyIdentity(p)
         \/ ConfirmEnter(p) \/ Remove(p) \/ RemoveEnter(p) \/ RemoveWipe(p) \/ RemoveWipeFails(p)
         \/ RemoveUnlink(p) \/ Import(p) \/ ImportEnter(p) \/ Alias(p) \/ AliasEnter(p)
         \/ LockTimeout(p) \/ Crash(p)
  PROVE  health' = health
<1>1. CASE \/ Connect(p) \/ Authorize(p) \/ Reauthorize(p) \/ Read(p) \/ Resume(p) \/ Remove(p)
           \/ Import(p) \/ Alias(p)
  BY <1>1 DEF Connect, Authorize, Reauthorize, Grant, Read, Resume, Remove, Import, Alias, Begin,
              portable
<1>2. CASE \/ ConnectEnter(p) \/ AuthorizeEnter(p) \/ ReauthorizeEnter(p) \/ ResolveEnter(p)
           \/ ReportEnter(p) \/ ConfirmEnter(p) \/ ImportEnter(p) \/ AliasEnter(p)
  BY <1>2 DEF ConnectEnter, AuthorizeEnter, ReauthorizeEnter, ResolveEnter, ReportEnter, ConfirmEnter,
              ImportEnter, AliasEnter, Enter, portable
<1>3. CASE \/ Stage(p) \/ Point(p) \/ Drop(p) \/ DropFails(p) \/ AuthorizeRecheck(p)
           \/ TokenUsable(p) \/ TokenRefresh(p) \/ TokenTransportError(p)
  BY <1>3 DEF Stage, Point, Drop, DropFails, AuthorizeRecheck, TokenUsable, TokenRefresh,
              TokenTransportError, portable
<1>4. CASE \/ TokenRejectedUnmarked(p) \/ CallAnswered(p) \/ CallRejected(p) \/ VerifyIdentity(p)
           \/ RemoveEnter(p) \/ RemoveWipe(p) \/ RemoveWipeFails(p) \/ RemoveUnlink(p)
           \/ LockTimeout(p) \/ Crash(p) \/ Declined(p)
  BY <1>4 DEF TokenRejectedUnmarked, CallAnswered, CallRejected, VerifyIdentity, RemoveEnter,
              RemoveWipe, RemoveWipeFails, RemoveUnlink, LockTimeout, Crash, Declined, portable
<1> QED BY <1>1, <1>2, <1>3, <1>4

\* A publication that fails takes out only an unverified connection.
LEMMA AbandonKeeps ==
  ASSUME NEW p \in Procs, StageFails(p) \/ PointFails(p) \/ PointVisible(p)
  PROVE  StepKeeps
BY DEF StageFails, PointFails, PointVisible, Abandon, StepKeeps

\* An audited write changes the health only at the revision its operation read.
LEMMA PersistKeeps ==
  ASSUME AuthInv, NEW p \in Procs,
         \/ ConnectPut(p) \/ AuthorizeMark(p) \/ ReauthorizePut(p) \/ ReportMark(p) \/ ConfirmPut(p)
         \/ RemoveRevoke(p) \/ RemoveForget(p) \/ ImportReplace(p) \/ AliasPut(p)
  PROVE  StepKeeps
<1>1. CallInv(op[p]) BY CallTyped
<1>2. Live = {"ready", "degraded", "reauth", "unverified"}
  BY DEF ReauthHealth, Live, VerifiedHealth
<1>3. CASE ConnectPut(p)
  <2>1. rev = op[p].rev => health = "fresh" BY <1>1, <1>3 DEF ConnectPut, At, CallInv, Seen
  <2> QED BY <1>3, <2>1 DEF ConnectPut, Persist, Written, StepKeeps
<1>4. CASE AuthorizeMark(p)
  <2>1. rev = op[p].rev => health \in Live BY <1>1, <1>4 DEF AuthorizeMark, At, CallInv, Seen
  <2> QED BY <1>2, <1>4, <2>1 DEF AuthorizeMark, Persist, Written, StepKeeps
<1>5. CASE ReauthorizePut(p)
  <2>1. rev = op[p].rev => health \in Live BY <1>1, <1>5 DEF ReauthorizePut, At, CallInv, Seen
  <2> QED BY <1>2, <1>5, <2>1 DEF ReauthorizePut, Persist, Written, StepKeeps
<1>6. CASE ReportMark(p)
  <2>1. rev = op[p].rev => health \in Live BY <1>1, <1>6 DEF ReportMark, At, CallInv, Seen
  <2>2. health \in Live => Custody \in rejected
    BY <1>1, <1>2, <1>6 DEF ReportMark, At, CallInv, Holds, Used, OpUses, Brings, Gone
  <2>3. rejected' = rejected BY <1>6 DEF ReportMark, provider
  <2> QED BY <1>2, <1>6, <2>1, <2>2, <2>3 DEF ReportMark, Persist, Written, StepKeeps
<1>7. CASE ConfirmPut(p)
  <2>1. rev = op[p].rev => health \in Live BY <1>1, <1>7 DEF ConfirmPut, At, CallInv, Seen
  <2> QED BY <1>2, <1>7, <2>1 DEF ConfirmPut, Persist, Written, StepKeeps
<1>8. CASE RemoveRevoke(p)
  <2>1. rev = op[p].rev => health \in Live \cup {"revoked"}
    BY <1>1, <1>8 DEF RemoveRevoke, At, CallInv, Seen
  <2> QED BY <1>2, <1>8, <2>1 DEF RemoveRevoke, Persist, Written, StepKeeps
<1>9. CASE RemoveForget(p) BY <1>9 DEF RemoveForget, Persist, Written, StepKeeps
<1>10. CASE ImportReplace(p)
  <2>1. rev = op[p].rev => health \in Live BY <1>1, <1>10 DEF ImportReplace, At, CallInv, Seen
  <2> QED BY <1>2, <1>10, <2>1 DEF ImportReplace, Persist, Written, StepKeeps
<1>11. CASE AliasPut(p) BY <1>11 DEF AliasPut, Persist, Written, StepKeeps
<1> QED BY <1>3, <1>4, <1>5, <1>6, <1>7, <1>8, <1>9, <1>10, <1>11

LEMMA MarkKeeps ==
  ASSUME AuthInv, NEW p \in Procs, ConnectReady(p) \/ TokenRejected(p) \/ TokenMisgranted(p)
  PROVE  StepKeeps
<1>1. health # "absent"
  <2>1. op[p].pc \in Inside /\ op[p].kind # "remove"
    BY DEF ConnectReady, TokenRejected, TokenMisgranted, At, Inside
  <2> QED BY <2>1 DEF AuthInv, SealedInv, Sealed
<1>2. CASE ConnectReady(p) BY <1>1, <1>2 DEF ConnectReady, Written, StepKeeps
<1>3. CASE TokenRejected(p) BY <1>1, <1>3 DEF TokenRejected, StepKeeps
<1>4. CASE TokenMisgranted(p)
  <2>1. Custody' = Custody BY <1>4 DEF TokenMisgranted, custody, Custody
  <2> QED BY <1>1, <1>4, <2>1 DEF TokenMisgranted, StepKeeps
<1> QED BY <1>2, <1>3, <1>4

LEMMA AuthNextKeeps == AuthInv /\ [Next]_vars => StepKeeps
<1> SUFFICES ASSUME AuthInv, [Next]_vars PROVE StepKeeps
  OBVIOUS
<1>1. health' = health => StepKeeps BY DEF StepKeeps
<1>2. CASE UNCHANGED vars BY <1>1, <1>2 DEF vars
<1>3. CASE Next
  <2>1. PICK p \in Procs : Publication(p) \/ Setup(p) \/ Use(p) \/ Upkeep(p) BY <1>3 DEF Next
  <2>2. CASE Publication(p) BY <1>1, <2>2, HealthKept, AbandonKeeps DEF Publication
  <2>3. CASE Setup(p) BY <1>1, <2>3, HealthKept, PersistKeeps, MarkKeeps DEF Setup
  <2>4. CASE Use(p) BY <1>1, <2>4, HealthKept, PersistKeeps, MarkKeeps DEF Use
  <2>5. CASE Upkeep(p) BY <1>1, <2>5, HealthKept, PersistKeeps DEF Upkeep
  <2> QED BY <2>1, <2>2, <2>3, <2>4, <2>5
<1> QED BY <1>2, <1>3

\* No step of any process writes another health over the revoked checkpoint of remove or over a
\* removed connection, and none asks for reauthorization for a late answer about a credential
\* that has been replaced: at that step the credential in custody is one the provider refused.
THEOREM StepsSound == Spec => AuthSteps
<1>1. AuthInv /\ [Next]_vars =>
        /\ [/\ health = "revoked" => health' \in {"revoked", "absent"}
            /\ health = "absent" => health' = "absent"]_vars
        /\ [health # "reauth" /\ health' = "reauth" => Custody \in rejected']_vars
  BY AuthNextKeeps DEF StepKeeps
<1> QED BY <1>1, AuthInvariant, PTL DEF Spec, AuthSteps, RevokedTerminal, RejectionCurrent

----------------------------------------
(* ConnectorCalls: the inductive invariant *)

Snapshots ==
  [st : {"none", "assembling", "open", "closed"}, grant : Grants \cup {None},
   reserved : BOOLEAN, cached : BOOLEAN, exp : Nat, pins : Int,
   cancelled : BOOLEAN, sending : BOOLEAN]

Cursors == [rev : Nat, cred : Nat, iss : Nat, exp : Nat, first : Nat \X Nat]

CallKinds == ReadKinds \cup NewWriteKinds \cup {"confirm", "none"}

CallPoints == {"idle", "resolve", "open", "register", "reserve", "copy", "target", "issue", "hold",
           "bind", "consume", "take", "stable", "execute", "send", "return"}

CallRecords ==
  [pc : CallPoints, kind : CallKinds, tok : Tokens \cup {None}, rev : Nat, ver : Nat, cred : Nat,
   tgt : Nat, cur : Cursors \cup {None}, pinned : BOOLEAN, owns : BOOLEAN]

CallsTypeOK ==
  /\ clock \in Nat /\ closed \in BOOLEAN
  /\ bundle \in [Tokens -> Snapshots]
  /\ timer \in Nat \cup {None}
  /\ granted \subseteq Grants
  /\ conn \in [rev : Nat, ver : Nat, full : BOOLEAN, ready : BOOLEAN]
  /\ cred \in Nat /\ target \in Nat
  /\ confirmations \in [Tokens -> Confirmations \cup {None}]
  /\ nonces \subseteq Tokens
  /\ cursors \subseteq Cursors
  /\ call \in [Calls -> CallRecords]
  /\ executed \in [Tokens -> Nat]

\* The steps of each kind of call.
OnPath(k) ==
  /\ k.kind = "none" => k = Idle
  /\ k.kind \in {"read", "corpus"} => k.pc \in {"resolve", "execute", "return"}
  /\ k.kind = "page" => k.pc \in {"resolve", "open", "execute", "return"}
  /\ k.kind = "preview" => k.pc \in {"resolve", "target", "issue"}
  /\ k.kind = "safe" => k.pc \in {"resolve", "execute", "send", "return"}
  /\ k.kind = "previewUpload" => k.pc \in {"resolve", "register", "reserve", "copy", "target", "issue"}
  /\ k.kind = "safeUpload" => k.pc \in {"resolve", "register", "reserve", "copy", "execute", "send", "return"}
  /\ k.kind = "confirm" => k.pc \in CallPoints \ {"idle", "open", "register", "reserve", "copy", "issue"}
  /\ k.kind \in ReadKinds \cup {"none"} => k.tok = None
  /\ k.kind \in NewWriteKinds \cup {"confirm"} => k.tok \in Tokens
  /\ k.kind # "page" => k.cur = None
  /\ k.kind = "page" => k.cur \in Cursors
  /\ k.owns => k.kind \in UploadKinds \cup {"confirm"}
  /\ k.kind \in UploadKinds => k.owns = (k.pc \notin {"resolve", "register"})
  /\ k.kind = "confirm" /\ k.pc \in {"resolve", "hold", "bind", "target", "consume", "take"} => ~k.owns
  /\ k.pc = "bind" => k.pinned
  /\ k.pinned => k.tok \in Tokens

\* A call that brings a new write has its token to itself, and has no confirmation yet.
OwnToken(c) ==
  call[c].kind \in NewWriteKinds =>
    /\ confirmations[call[c].tok] = None
    /\ \A d \in Calls \ {c} : call[d].tok # call[c].tok
    /\ call[c].pc \in {"resolve", "register"} => bundle[call[c].tok] = NoBundle

\* A call that confirms has a confirmation to present.
Presents(c) == call[c].kind = "confirm" => confirmations[call[c].tok] # None

\* A call that owns or pins a snapshot has one.
HasSnapshot(c) == call[c].owns \/ call[c].pinned => bundle[call[c].tok].st # "none"

\* Only what was issued is cached.
CachedIsIssued ==
  \A t \in Tokens : bundle[t].cached => confirmations[t] # None /\ bundle[t].st # "none"

Paths ==
  /\ \A c \in Calls : OnPath(call[c]) /\ OwnToken(c) /\ Presents(c) /\ HasSnapshot(c)
  /\ CachedIsIssued

\* A call that has spent its nonce and may still send the request.
Spending(c) == call[c].kind = "confirm" /\ call[c].pc \in {"take", "stable", "execute"}

\* The nonce cannot be spent again: it is remembered, or its token has expired.
SpentForGood(t) ==
  confirmations[t] # None /\ (t \in nonces \/ clock >= confirmations[t].exp)

Once ==
  /\ \A t \in Tokens : executed[t] <= 1
  /\ \A t \in Tokens : executed[t] # 0 => SpentForGood(t)
  /\ \A c \in Calls : Spending(c) => SpentForGood(call[c].tok) /\ executed[call[c].tok] = 0
  /\ \A c, d \in Calls : Spending(c) /\ Spending(d) /\ c # d => call[c].tok # call[d].tok

\* Bytes that are not in the cache are owned by a call.
Owned ==
  \A t \in Tokens : bundle[t].reserved /\ ~bundle[t].cached =>
                      \E c \in Calls : call[c].owns /\ call[c].tok = t

\* A closed cache is empty.
ClosedEmpty == closed => \A t \in Tokens : ~bundle[t].cached

\* What a revoke waits for is cancelled for good.
Cancelled ==
  /\ \A t \in Tokens : t \in stopped => bundle[t].cancelled /\ ~bundle[t].sending
  /\ revoking # None => \A t \in Tokens : t \in revoking => bundle[t].cancelled

StoppedKnown == stopped \subseteq Tokens /\ (revoking # None => revoking \subseteq Tokens)

Kept == Owned /\ ClosedEmpty /\ Watched /\ Cancelled /\ StoppedKnown

\* Every cursor carries the connection and credential its first page was read under,
\* and a call past open_cursor was found to match its own.
Bound(k) == k.first = <<k.rev, k.cred>>

Pages ==
  /\ \A k \in cursors : Bound(k)
  /\ \A c \in Calls : call[c].kind = "page" => Bound(call[c].cur)
  /\ \A c \in Calls : call[c].kind = "page" /\ call[c].pc \in {"execute", "return"} =>
                        CursorMatches(c, call[c].cur)
  /\ PagesOfOneConnection

CallsInv == CallsTypeOK /\ Paths /\ Once /\ Kept /\ Pages

----------------------------------------
(* Snapshots: what the cache does to them *)

NatLess == {p \in Nat \X Nat : p[1] < p[2]}

\* A set of expiries has an earliest one.
LEMMA EarliestExists ==
  ASSUME NEW S \in SUBSET Nat, S # {}
  PROVE  \E m \in S : \A n \in S : m <= n
<1>1. IsWellFoundedOn(NatLess, Nat) BY NatLessThanWellFounded, Zenon DEF OpToRel, NatLess
<1>2. PICK m \in S : \A n \in S : ~ (<<n, m>> \in NatLess) BY <1>1, WFMin
<1>3. \A n \in S : n < m => <<n, m>> \in NatLess BY DEF NatLess
<1>4. \A n \in S : n \in Nat /\ ~(n < m) BY <1>2, <1>3
<1>5. \A n \in S : m <= n BY <1>4
<1> QED BY <1>5

\* What the end of a call, a prune and a close may do to a snapshot: give it up.
Wanes(b, n) ==
  /\ n.cached => b.cached
  /\ n.reserved => b.reserved
  /\ b.cancelled => n.cancelled
  /\ n.sending = b.sending
  /\ b.cached /\ ~n.cached => ~n.reserved
  /\ b.st # "none" => n.st # "none"
  /\ b = NoBundle => n = NoBundle

LEMMA WanesTrans ==
  ASSUME NEW a \in Snapshots, NEW b \in Snapshots, NEW n \in Snapshots, Wanes(a, b), Wanes(b, n)
  PROVE  Wanes(a, n)
BY DEF Wanes, Snapshots

LEMMA ClosedBundle ==
  ASSUME NEW b \in Snapshots
  PROVE  /\ BundleClosed(b) \in Snapshots /\ Uncached(b) \in Snapshots
         /\ Uncached(BundleClosed(b)) \in Snapshots
         /\ BundleClosed(b).reserved = FALSE /\ BundleClosed(b).st = "closed"
         /\ BundleClosed(b).cancelled = TRUE /\ BundleClosed(b).sending = b.sending
         /\ BundleClosed(b).cached = b.cached /\ BundleClosed(b).exp = b.exp
         /\ BundleClosed(b).pins = b.pins
         /\ Uncached(b).cached = FALSE /\ Uncached(b).reserved = b.reserved
         /\ Uncached(b).st = b.st /\ Uncached(b).cancelled = b.cancelled
         /\ Uncached(b).sending = b.sending
<1>1. ASSUME NEW a \in Snapshots PROVE BundleClosed(a) \in Snapshots
  BY DEF BundleClosed, Snapshots
<1>2. ASSUME NEW a \in Snapshots PROVE Uncached(a) \in Snapshots
  <2>1. 0 \in Int OBVIOUS
  <2> QED BY <2>1 DEF Uncached, Snapshots
<1>3. BundleClosed(b) \in Snapshots /\ Uncached(b) \in Snapshots
      /\ Uncached(BundleClosed(b)) \in Snapshots
  BY <1>1, <1>2
<1>4. /\ BundleClosed(b).reserved = FALSE /\ BundleClosed(b).st = "closed"
      /\ BundleClosed(b).cancelled = TRUE /\ BundleClosed(b).sending = b.sending
      /\ BundleClosed(b).cached = b.cached /\ BundleClosed(b).exp = b.exp
      /\ BundleClosed(b).pins = b.pins
  BY DEF BundleClosed, Snapshots
<1>5. ASSUME NEW a \in Snapshots
      PROVE  /\ Uncached(a).cached = FALSE /\ Uncached(a).reserved = a.reserved
             /\ Uncached(a).st = a.st /\ Uncached(a).cancelled = a.cancelled
             /\ Uncached(a).sending = a.sending
  BY DEF Uncached, Snapshots
<1> QED BY <1>3, <1>4, <1>5

LEMMA ClosedWanes ==
  ASSUME NEW b \in Snapshots, b.st # "none"
  PROVE  Wanes(b, BundleClosed(b)) /\ Wanes(b, Uncached(BundleClosed(b)))
<1>1. b # NoBundle BY DEF NoBundle
<1>2. PICK n \in Snapshots : n = BundleClosed(b) BY ClosedBundle
<1>3. /\ n.reserved = FALSE /\ n.st = "closed" /\ n.cancelled = TRUE
      /\ n.sending = b.sending /\ n.cached = b.cached
  BY <1>2, ClosedBundle
<1>4. /\ Uncached(n).cached = FALSE /\ Uncached(n).reserved = FALSE
      /\ Uncached(n).st = "closed" /\ Uncached(n).cancelled = TRUE
      /\ Uncached(n).sending = b.sending
  BY <1>3, ClosedBundle
<1>5. Wanes(b, n) /\ Wanes(b, Uncached(n)) BY <1>1, <1>3, <1>4 DEF Wanes
<1> QED BY <1>2, <1>5

LEMMA PrunedWanes ==
  ASSUME NEW bs \in [Tokens -> Snapshots], \A t \in Tokens : bs[t].cached => bs[t].st # "none"
  PROVE  /\ Pruned(bs) \in [Tokens -> Snapshots]
         /\ \A t \in Tokens : Wanes(bs[t], Pruned(bs)[t])
         /\ \A t \in Tokens : Pruned(bs)[t].cached => Pruned(bs)[t] = bs[t]
         /\ \A t \in Tokens : ~bs[t].cached => Pruned(bs)[t] = bs[t]
<1>1. \A t \in Tokens : /\ Pruned(bs)[t] = bs[t] \/ Pruned(bs)[t] = Uncached(BundleClosed(bs[t]))
                        /\ ~bs[t].cached => Pruned(bs)[t] = bs[t]
  BY DEF Pruned
<1>2. ASSUME NEW t \in Tokens
      PROVE  /\ Pruned(bs)[t] \in Snapshots
             /\ Wanes(bs[t], Pruned(bs)[t])
             /\ Pruned(bs)[t].cached => Pruned(bs)[t] = bs[t]
  <2>1. bs[t] \in Snapshots OBVIOUS
  <2>2. CASE Pruned(bs)[t] = bs[t] BY <2>1, <2>2 DEF Wanes
  <2>3. CASE bs[t].cached /\ Pruned(bs)[t] = Uncached(BundleClosed(bs[t]))
    <3>1. BundleClosed(bs[t]) \in Snapshots /\ bs[t].st # "none" BY <2>1, <2>3, ClosedBundle
    <3>2. Uncached(BundleClosed(bs[t])).cached = FALSE BY <3>1, ClosedBundle
    <3>3. Wanes(bs[t], Uncached(BundleClosed(bs[t]))) BY <2>1, <3>1, ClosedWanes
    <3>4. Uncached(BundleClosed(bs[t])) \in Snapshots BY <2>1, ClosedBundle
    <3> QED BY <2>3, <3>2, <3>3, <3>4
  <2> QED BY <1>1, <2>2, <2>3
<1>3. Pruned(bs) = [t \in Tokens |-> Pruned(bs)[t]] BY DEF Pruned
<1> QED BY <1>1, <1>2, <1>3

\* After every change of the cache a timer watches what it still holds.
LEMMA CacheWatched ==
  ASSUME NEW bs \in [Tokens -> Snapshots],
         \A t \in Tokens : bs[t].cached => bs[t].st # "none",
         closed => \A t \in Tokens : ~bs[t].cached,
         CacheBecomes(bs)
  PROVE  /\ bundle' \in [Tokens -> Snapshots]
         /\ timer' \in Nat \cup {None}
         /\ Watched'
         /\ \A t \in Tokens : Wanes(bs[t], bundle'[t])
         /\ \A t \in Tokens : ~bs[t].cached => bundle'[t] = bs[t]
         /\ \A t \in Tokens : bundle'[t].cached => bundle'[t] = bs[t]
<1> DEFINE E == {bundle'[t].exp : t \in Watchable(bundle')}
<1>1. bundle' = Pruned(bs) /\ timer' = Rescheduled(bundle') BY DEF CacheBecomes
<1>2. /\ bundle' \in [Tokens -> Snapshots]
      /\ \A t \in Tokens : Wanes(bs[t], bundle'[t])
      /\ \A t \in Tokens : ~bs[t].cached => bundle'[t] = bs[t]
      /\ \A t \in Tokens : bundle'[t].cached => bundle'[t] = bs[t]
  BY <1>1, PrunedWanes
<1>3. closed => Watchable(bundle') = {} BY <1>2 DEF Watchable
<1>4. CASE Watchable(bundle') = {}
  <2>1. timer' = None BY <1>1, <1>4 DEF Rescheduled
  <2> QED BY <1>2, <1>4, <2>1 DEF Watched
<1>5. CASE Watchable(bundle') # {}
  <2>1. E # {} /\ E \subseteq Nat
    <3>1. Watchable(bundle') \subseteq Tokens BY DEF Watchable
    <3>2. \A t \in Tokens : bundle'[t].exp \in Nat BY <1>2 DEF Snapshots
    <3> QED BY <1>5, <3>1, <3>2
  <2>2. \E e \in E : \A n \in E : e <= n BY <2>1, EarliestExists
  <2>3. \E e \in E : \A t \in Watchable(bundle') : e <= bundle'[t].exp BY <2>2
  <2>4. timer' = CHOOSE e \in E : \A t \in Watchable(bundle') : e <= bundle'[t].exp
    BY <1>1, <1>3, <1>5 DEF Rescheduled
  <2>5. timer' \in E /\ \A t \in Watchable(bundle') : timer' <= bundle'[t].exp BY <2>3, <2>4
  <2>6. timer' \in Nat /\ timer' # None BY <2>1, <2>5, CallsConstants
  <2> QED BY <1>2, <2>5, <2>6 DEF Watched
<1> QED BY <1>4, <1>5

----------------------------------------
(* The end of a call *)

\* A call has left: what it owned is given up, and the cache is watched.
Left(c) ==
  /\ call' = [call EXCEPT ![c] = Idle]
  /\ bundle' \in [Tokens -> Snapshots]
  /\ timer' \in Nat \cup {None}
  /\ Watched'
  /\ \A t \in Tokens : Wanes(bundle[t], bundle'[t])
  /\ call[c].owns => ~bundle'[call[c].tok].reserved

\* What the lemmas about steps start from.
Sound == CallsTypeOK /\ Paths /\ ClosedEmpty

LEMMA UnpinnedWanes ==
  ASSUME NEW bs \in [Tokens -> Snapshots], NEW t \in Tokens
  PROVE  /\ Unpinned(bs, t) \in [Tokens -> Snapshots]
         /\ \A u \in Tokens : Wanes(bs[u], Unpinned(bs, t)[u])
         /\ \A u \in Tokens : Unpinned(bs, t)[u].reserved = bs[u].reserved
<1> DEFINE v == [bs[t] EXCEPT !.pins = @ - 1]
<1>1. Unpinned(bs, t) = bs \/ (bs[t].cached /\ Unpinned(bs, t) = [bs EXCEPT ![t] = v])
  BY DEF Unpinned
<1>2. bs[t] \in Snapshots OBVIOUS
<1>3. /\ v \in Snapshots
      /\ v.cached = bs[t].cached /\ v.reserved = bs[t].reserved /\ v.cancelled = bs[t].cancelled
      /\ v.sending = bs[t].sending /\ v.st = bs[t].st
  BY <1>2 DEF Snapshots
<1>4. bs[t].cached => bs[t] # NoBundle BY DEF NoBundle
<1>5. bs[t].cached => Wanes(bs[t], v) BY <1>2, <1>3, <1>4 DEF Wanes
<1>6. \A b \in Snapshots : Wanes(b, b) BY DEF Wanes
<1> HIDE DEF v
<1>7. CASE Unpinned(bs, t) = bs BY <1>6, <1>7
<1>8. CASE bs[t].cached /\ Unpinned(bs, t) = [bs EXCEPT ![t] = v]
  <2>1. \A u \in Tokens : Unpinned(bs, t)[u] = IF u = t THEN v ELSE bs[u] BY <1>8
  <2> QED BY <1>3, <1>5, <1>6, <1>8, <2>1
<1> QED BY <1>1, <1>7, <1>8

LEMMA CloseOwnedWanes ==
  ASSUME NEW c \in Calls, Sound
  PROVE  /\ CloseOwned(c) \in [Tokens -> Snapshots]
         /\ \A t \in Tokens : Wanes(bundle[t], CloseOwned(c)[t])
         /\ call[c].owns => ~CloseOwned(c)[call[c].tok].reserved
<1>1. \A b \in Snapshots : Wanes(b, b) BY DEF Wanes
<1>2. bundle \in [Tokens -> Snapshots] BY DEF Sound, CallsTypeOK
<1>3. CASE ~call[c].owns BY <1>1, <1>2, <1>3 DEF CloseOwned
<1>4. CASE call[c].owns
  <2>1. call[c].tok \in Tokens /\ bundle[call[c].tok].st # "none"
    BY <1>4 DEF Sound, Paths, OnPath, HasSnapshot, NewWriteKinds
  <2>2. PICK t \in Tokens : t = call[c].tok BY <2>1
  <2>3. PICK v \in Snapshots : v = BundleClosed(bundle[t]) BY <1>2, ClosedBundle
  <2>4. v.reserved = FALSE /\ Wanes(bundle[t], v)
    BY <1>2, <2>1, <2>2, <2>3, ClosedBundle, ClosedWanes
  <2>5. CloseOwned(c) = [bundle EXCEPT ![t] = v] BY <1>2, <1>4, <2>2, <2>3 DEF CloseOwned
  <2> QED BY <1>1, <1>2, <2>2, <2>4, <2>5
<1> QED BY <1>3, <1>4

LEMMA LeaveLeft ==
  ASSUME NEW c \in Calls, Sound, NEW bs \in [Tokens -> Snapshots],
         \A t \in Tokens : Wanes(bundle[t], bs[t]),
         call[c].owns => ~bs[call[c].tok].reserved,
         Leave(c, bs)
  PROVE  Left(c)
<1>1. PICK cs : cs = IF call[c].pinned THEN Unpinned(bs, call[c].tok) ELSE bs OBVIOUS
<1>2. call[c].pinned \/ call[c].owns => call[c].tok \in Tokens
  BY DEF Sound, Paths, OnPath, NewWriteKinds
<1>3. bundle \in [Tokens -> Snapshots] BY DEF Sound, CallsTypeOK
<1>4. \A b \in Snapshots : Wanes(b, b) BY DEF Wanes
<1>5. /\ cs \in [Tokens -> Snapshots]
      /\ \A t \in Tokens : Wanes(bs[t], cs[t])
      /\ call[c].owns => ~cs[call[c].tok].reserved
  <2>1. CASE call[c].pinned BY <1>1, <1>2, <2>1, UnpinnedWanes
  <2>2. CASE ~call[c].pinned BY <1>1, <1>4, <2>2
  <2> QED BY <2>1, <2>2
<1>6. \A t \in Tokens : Wanes(bundle[t], cs[t]) BY <1>3, <1>5, WanesTrans
<1>7. /\ \A t \in Tokens : cs[t].cached => cs[t].st # "none"
      /\ closed => \A t \in Tokens : ~cs[t].cached
  BY <1>3, <1>5, <1>6 DEF Sound, Paths, CachedIsIssued, ClosedEmpty, Wanes
<1>8. CacheBecomes(cs) /\ call' = [call EXCEPT ![c] = Idle] BY <1>1 DEF Leave
<1>9. /\ bundle' \in [Tokens -> Snapshots] /\ timer' \in Nat \cup {None} /\ Watched'
      /\ \A t \in Tokens : Wanes(cs[t], bundle'[t])
  BY <1>5, <1>7, <1>8, CacheWatched DEF Sound
<1>10. \A t \in Tokens : Wanes(bundle[t], bundle'[t]) BY <1>3, <1>5, <1>6, <1>9, WanesTrans
<1>11. call[c].owns => ~bundle'[call[c].tok].reserved BY <1>2, <1>5, <1>9 DEF Wanes
<1> QED BY <1>8, <1>9, <1>10, <1>11 DEF Left

LEMMA FailsLeft ==
  ASSUME NEW c \in Calls, Sound, Fails(c)
  PROVE  Left(c)
BY CloseOwnedWanes, LeaveLeft DEF Fails

----------------------------------------
(* What a step of a call keeps, whatever else it does *)

\* The call goes on, with the kind, the token and the cursor it began with.
Advances(c, v) ==
  /\ OnPath(v)
  /\ v.kind = call[c].kind /\ v.tok = call[c].tok /\ v.cur = call[c].cur
  /\ v.pc # "resolve" /\ (v.pc = "register" => call[c].pc = "resolve" /\ bundle' = bundle)
  /\ call' = [call EXCEPT ![c] = v]

LEMMA AdvancePaths ==
  ASSUME NEW c \in Calls, Sound, NEW v \in CallRecords, Advances(c, v),
         confirmations' = confirmations,
         \A t \in Tokens : bundle'[t].cached => bundle[t].cached,
         \A t \in Tokens : bundle[t].st # "none" => bundle'[t].st # "none",
         \A t \in Tokens : bundle[t] = NoBundle /\ t # call[c].tok => bundle'[t] = NoBundle,
         v.owns \/ v.pinned => bundle'[v.tok].st # "none"
  PROVE  Paths'
<1>1. \A d \in Calls : call'[d] = IF d = c THEN v ELSE call[d]
  BY DEF Sound, CallsTypeOK, Advances
<1>2. \A d \in Calls : call'[d].kind = call[d].kind /\ call'[d].tok = call[d].tok
  BY <1>1 DEF Advances
<1>3. \A d \in Calls : call[d].kind \in NewWriteKinds \cup {"confirm"} => call[d].tok \in Tokens
  BY DEF Sound, Paths, OnPath
<1>4. \A d \in Calls : call[d].owns \/ call[d].pinned => call[d].tok \in Tokens
  BY DEF Sound, Paths, OnPath, NewWriteKinds
<1>5. \A d \in Calls : OnPath(call[d])' BY <1>1 DEF Sound, Paths, Advances
<1>6. \A d \in Calls : OwnToken(d)'
  <2>1. ASSUME NEW d \in Calls, d # c PROVE OwnToken(d)'
    BY <1>1, <1>2, <1>3, <2>1 DEF Sound, Paths, OwnToken
  <2>2. OwnToken(c)' BY <1>1, <1>2, <1>3 DEF Sound, Paths, OwnToken, Advances
  <2> QED BY <2>1, <2>2
<1>7. \A d \in Calls : Presents(d)' BY <1>2 DEF Sound, Paths, Presents
<1>8. \A d \in Calls : HasSnapshot(d)' BY <1>1, <1>2, <1>4 DEF Sound, Paths, HasSnapshot
<1>9. CachedIsIssued' BY DEF Sound, Paths, CachedIsIssued
<1> QED BY <1>5, <1>6, <1>7, <1>8, <1>9 DEF Paths

LEMMA IdleOnPath == Idle \in CallRecords /\ OnPath(Idle)
BY DEF Idle, CallRecords, OnPath, CallPoints, CallKinds, ReadKinds, NewWriteKinds, UploadKinds

LEMMA LeavePaths ==
  ASSUME NEW c \in Calls, Sound, call' = [call EXCEPT ![c] = Idle],
         \A t \in Tokens : confirmations[t] # None => confirmations'[t] # None,
         \A t \in Tokens : t # call[c].tok => confirmations'[t] = confirmations[t],
         \A t \in Tokens : bundle'[t].cached => confirmations'[t] # None /\ bundle'[t].st # "none",
         \A t \in Tokens : bundle[t].st # "none" => bundle'[t].st # "none",
         \A t \in Tokens : bundle[t] = NoBundle /\ t # call[c].tok => bundle'[t] = NoBundle
  PROVE  Paths'
<1>1. \A d \in Calls : call'[d] = IF d = c THEN Idle ELSE call[d] BY DEF Sound, CallsTypeOK
<1>2. /\ Idle.kind = "none" /\ Idle.tok = None /\ Idle.owns = FALSE /\ Idle.pinned = FALSE
      /\ "none" \notin NewWriteKinds \cup {"confirm"}
  BY DEF Idle, NewWriteKinds, UploadKinds
<1>3. \A d \in Calls : call[d].kind \in NewWriteKinds \cup {"confirm"} => call[d].tok \in Tokens
  BY DEF Sound, Paths, OnPath
<1>4. \A d \in Calls : call[d].owns \/ call[d].pinned => call[d].tok \in Tokens
  BY DEF Sound, Paths, OnPath, NewWriteKinds
<1>5. \A d \in Calls : OnPath(call[d])' BY <1>1, IdleOnPath DEF Sound, Paths
<1>6. \A d \in Calls : OwnToken(d)'
  <2>1. ASSUME NEW d \in Calls, d # c, call[d].kind \in NewWriteKinds
        PROVE  /\ confirmations'[call[d].tok] = None
               /\ \A e \in Calls \ {d} : call'[e].tok # call[d].tok
               /\ call[d].pc \in {"resolve", "register"} => bundle'[call[d].tok] = NoBundle
    <3>1. OwnToken(d) /\ call[d].tok \in Tokens BY <1>3, <2>1 DEF Sound, Paths
    <3>2. call[c].tok # call[d].tok BY <2>1, <3>1 DEF OwnToken
    <3>3. confirmations'[call[d].tok] = None BY <2>1, <3>1, <3>2 DEF OwnToken
    <3>4. \A e \in Calls \ {d} : call'[e].tok # call[d].tok
      BY <1>1, <1>2, <2>1, <3>1, CallsConstants DEF OwnToken
    <3> QED BY <2>1, <3>1, <3>2, <3>3, <3>4 DEF OwnToken
  <2> QED BY <1>1, <1>2, <2>1 DEF OwnToken
<1>7. \A d \in Calls : Presents(d)' BY <1>1, <1>2, <1>3 DEF Sound, Paths, Presents
<1>8. \A d \in Calls : HasSnapshot(d)' BY <1>1, <1>2, <1>4 DEF Sound, Paths, HasSnapshot
<1>9. CachedIsIssued' BY DEF CachedIsIssued
<1> QED BY <1>5, <1>6, <1>7, <1>8, <1>9 DEF Paths

LEMMA LeftPaths ==
  ASSUME NEW c \in Calls, Sound, Left(c), confirmations' = confirmations
  PROVE  Paths'
BY LeavePaths DEF Left, Wanes, Sound, Paths, CachedIsIssued

\* A nonce is only forgotten once its token has expired, a confirmation never changes, and
\* no call comes to be spending one except by consuming it.
LEMMA OnceKept ==
  ASSUME NEW c \in Calls, Sound, Once, NEW v, call' = [call EXCEPT ![c] = v],
         v.kind = "confirm" /\ v.pc \in {"take", "stable", "execute"} =>
            Spending(c) /\ v.tok = call[c].tok,
         executed' = executed, clock' = clock, LiveSpent \subseteq nonces',
         \A t \in Tokens : confirmations[t] # None => confirmations'[t] = confirmations[t]
  PROVE  Once'
<1>1. \A d \in Calls : call'[d] = IF d = c THEN v ELSE call[d] BY DEF Sound, CallsTypeOK
<1>2. \A t \in Tokens : SpentForGood(t) => SpentForGood(t)'
  <2>1. ASSUME NEW t \in Tokens, SpentForGood(t)
        PROVE  SpentForGood(t)'
    <3>1. confirmations'[t] = confirmations[t] /\ confirmations'[t] # None
      BY <2>1 DEF SpentForGood
    <3>2. confirmations[t].exp \in Nat /\ clock \in Nat
      BY <2>1 DEF SpentForGood, Sound, CallsTypeOK, Confirmations
    <3>3. CASE clock >= confirmations[t].exp BY <3>1, <3>3 DEF SpentForGood
    <3>4. CASE ~(clock >= confirmations[t].exp)
      <4>1. t \in LiveSpent BY <2>1, <3>2, <3>4 DEF SpentForGood, LiveSpent
      <4> QED BY <3>1, <4>1 DEF SpentForGood
    <3> QED BY <3>3, <3>4
  <2> QED BY <2>1
<1>3. \A d \in Calls : Spending(d)' => Spending(d) /\ call'[d].tok = call[d].tok
  BY <1>1 DEF Spending
<1>4. \A d \in Calls : Spending(d) => call[d].tok \in Tokens
  BY DEF Spending, Sound, Paths, OnPath
<1>5. \A t \in Tokens : executed'[t] <= 1 /\ (executed'[t] # 0 => SpentForGood(t)')
  BY <1>2 DEF Once
<1>6. \A d \in Calls : Spending(d)' => SpentForGood(call[d].tok)' /\ executed'[call'[d].tok] = 0
  BY <1>2, <1>3, <1>4 DEF Once
<1> QED BY <1>3, <1>5, <1>6 DEF Once

\* Nothing but the calls moved: what a call owns it still owns.
LEMMA KeptByCalls ==
  ASSUME NEW c \in Calls, Sound, Kept, NEW v, call' = [call EXCEPT ![c] = v],
         call[c].owns => v.owns /\ v.tok = call[c].tok,
         UNCHANGED <<bundle, timer, outside>>
  PROVE  Kept'
<1>1. \A d \in Calls : call'[d] = IF d = c THEN v ELSE call[d] BY DEF Sound, CallsTypeOK
<1>2. Owned' BY <1>1 DEF Kept, Owned
<1>3. Watched' BY DEF Kept, Watched, Watchable
<1>4. ClosedEmpty' /\ Cancelled' /\ StoppedKnown'
  BY DEF Kept, ClosedEmpty, Cancelled, StoppedKnown, outside
<1> QED BY <1>2, <1>3, <1>4 DEF Kept

\* Snapshots were only given up, and whoever owned one owns it or gave it up.
LEMMA KeptByWaning ==
  ASSUME NEW c \in Calls, Sound, Kept, NEW v, call' = [call EXCEPT ![c] = v],
         \A t \in Tokens : Wanes(bundle[t], bundle'[t]), Watched',
         call[c].owns => \/ v.owns /\ v.tok = call[c].tok
                         \/ ~bundle'[call[c].tok].reserved,
         UNCHANGED outside
  PROVE  Kept'
<1>1. \A d \in Calls : call'[d] = IF d = c THEN v ELSE call[d] BY DEF Sound, CallsTypeOK
<1>2. Owned' BY <1>1 DEF Kept, Owned, Wanes
<1>3. ClosedEmpty' /\ StoppedKnown' BY DEF Kept, ClosedEmpty, StoppedKnown, outside, Wanes
<1>4. Cancelled' BY DEF Kept, Cancelled, outside, Wanes, StoppedKnown
<1> QED BY <1>2, <1>3, <1>4 DEF Kept

\* The page served, if any, is of one connection, and the call is as good as its cursor.
LEMMA PagesKept ==
  ASSUME NEW c \in Calls, Sound, Pages, NEW v, call' = [call EXCEPT ![c] = v],
         v.kind = "page" =>
            /\ Bound(v.cur)
            /\ v.pc \in {"execute", "return"} => v.cur.rev = v.rev /\ v.cur.cred = v.cred,
         \A k \in cursors' : k \in cursors \/ Bound(k),
         served' = served \/ served'[1] = served'[2]
  PROVE  Pages'
<1>1. \A d \in Calls : call'[d] = IF d = c THEN v ELSE call[d] BY DEF Sound, CallsTypeOK
<1>2. \A k \in cursors' : Bound(k) BY DEF Pages
<1>3. \A d \in Calls : call'[d].kind = "page" => Bound(call'[d].cur) BY <1>1 DEF Pages
<1>4. \A d \in Calls : call'[d].kind = "page" /\ call'[d].pc \in {"execute", "return"} =>
                          CursorMatches(d, call[d].cur)'
  BY <1>1 DEF Pages, CursorMatches
<1>5. PagesOfOneConnection' BY DEF Pages, PagesOfOneConnection
<1> QED BY <1>2, <1>3, <1>4, <1>5 DEF Pages, Bound

LEMMA InvSound == ASSUME CallsInv PROVE Sound
BY DEF CallsInv, Kept, Sound

\* A call that leaves takes nothing with it.
LEMMA LeftInv ==
  ASSUME NEW c \in Calls, CallsInv, Left(c),
         UNCHANGED <<outside, cred, target, confirmations, executed>>,
         conn' \in [rev : Nat, ver : Nat, full : BOOLEAN, ready : BOOLEAN],
         LiveSpent \subseteq nonces', nonces' \subseteq nonces,
         \A k \in cursors' : k \in cursors \/ (k \in Cursors /\ Bound(k)),
         served' = served \/ served'[1] = served'[2]
  PROVE  CallsInv'
<1>1. Sound /\ Once /\ Kept /\ Pages BY InvSound DEF CallsInv
<1>2. /\ Idle \in CallRecords /\ call' = [call EXCEPT ![c] = Idle]
      /\ Idle.kind = "none"
  BY IdleOnPath DEF Left, Idle
<1>3. CallsTypeOK' BY <1>1, <1>2 DEF Sound, CallsTypeOK, Left, outside
<1>4. Paths' BY <1>1, LeftPaths
<1>5. Once' BY <1>1, <1>2, OnceKept DEF outside
<1>6. Kept' BY <1>1, <1>2, KeptByWaning DEF Left
<1>7. Pages' BY <1>1, <1>2, PagesKept
<1> QED BY <1>3, <1>4, <1>5, <1>6, <1>7 DEF CallsInv

\* The usual end: nothing but the call and the snapshots changes.
LEMMA FailsInv ==
  ASSUME NEW c \in Calls, CallsInv, Left(c), UNCHANGED rest
  PROVE  CallsInv'
<1>1. conn \in [rev : Nat, ver : Nat, full : BOOLEAN, ready : BOOLEAN]
  BY DEF CallsInv, CallsTypeOK
<1> QED BY <1>1, LeftInv DEF rest, LiveSpent

\* A call that goes on without touching a snapshot.
LEMMA AdvanceInv ==
  ASSUME NEW c \in Calls, CallsInv, NEW v \in CallRecords, Advances(c, v),
         v.owns = call[c].owns, v.pinned = call[c].pinned,
         v.kind = "page" /\ v.pc \in {"execute", "return"} => v.cur.rev = v.rev /\ v.cur.cred = v.cred,
         UNCHANGED <<bundle, timer, outside, conn, cred, target, confirmations, served>>,
         nonces' \subseteq Tokens, cursors' \subseteq cursors, executed' \in [Tokens -> Nat]
  PROVE  CallsTypeOK' /\ Paths' /\ Kept' /\ Pages'
<1>1. Sound /\ Kept /\ Pages BY InvSound DEF CallsInv
<1>2. call' = [call EXCEPT ![c] = v] /\ v.tok = call[c].tok /\ v.kind = call[c].kind
      /\ v.cur = call[c].cur
  BY DEF Advances
<1>3. CallsTypeOK' BY <1>1, <1>2 DEF Sound, CallsTypeOK, outside
<1>4. v.owns \/ v.pinned => bundle'[v.tok].st # "none"
  BY <1>1, <1>2 DEF Sound, Paths, HasSnapshot
<1>5. Paths' BY <1>1, <1>4, AdvancePaths
<1>6. Kept' BY <1>1, <1>2, KeptByCalls
<1>7. Pages' BY <1>1, <1>2, PagesKept DEF Pages
<1> QED BY <1>3, <1>5, <1>6, <1>7

\* ... and without spending its nonce or sending the request.
LEMMA AdvanceQuietly ==
  ASSUME NEW c \in Calls, CallsInv, NEW v \in CallRecords, Advances(c, v),
         v.owns = call[c].owns, v.pinned = call[c].pinned,
         v.kind = "page" /\ v.pc \in {"execute", "return"} => v.cur.rev = v.rev /\ v.cur.cred = v.cred,
         v.kind = "confirm" /\ v.pc \in {"take", "stable", "execute"} => Spending(c),
         UNCHANGED <<bundle, timer, outside, conn, cred, target, confirmations, served, executed>>,
         LiveSpent \subseteq nonces', nonces' \subseteq nonces, cursors' \subseteq cursors
  PROVE  CallsInv'
<1>1. Sound /\ Once /\ nonces \subseteq Tokens /\ executed \in [Tokens -> Nat]
  BY InvSound DEF CallsInv, CallsTypeOK
<1>2. CallsTypeOK' /\ Paths' /\ Kept' /\ Pages' BY <1>1, AdvanceInv
<1>3. Once' BY <1>1, OnceKept DEF Advances, outside
<1> QED BY <1>2, <1>3 DEF CallsInv

----------------------------------------
(* The steps of a call *)

\* A call that goes on to point p, and the fields it keeps.
Moved(c, p, v) ==
  /\ v = [call[c] EXCEPT !.pc = p]
  /\ v.pc = p /\ v.kind = call[c].kind /\ v.tok = call[c].tok /\ v.cur = call[c].cur
  /\ v.owns = call[c].owns /\ v.pinned = call[c].pinned
  /\ v.rev = call[c].rev /\ v.cred = call[c].cred
  /\ call' = [call EXCEPT ![c] = v]

LEMMA GoesOn ==
  ASSUME NEW c \in Calls, CallsTypeOK, NEW p \in CallPoints, Goes(c, p)
  PROVE  \E v \in CallRecords : Moved(c, p, v)
<1> DEFINE v == [call[c] EXCEPT !.pc = p]
<1>1. call[c] \in CallRecords BY DEF CallsTypeOK
<1>2. /\ v \in CallRecords
      /\ v.pc = p /\ v.kind = call[c].kind /\ v.tok = call[c].tok /\ v.cur = call[c].cur
      /\ v.owns = call[c].owns /\ v.pinned = call[c].pinned
      /\ v.rev = call[c].rev /\ v.cred = call[c].cred
  BY <1>1 DEF CallRecords
<1>3. call' = [call EXCEPT ![c] = v] BY DEF Goes
<1>4. Moved(c, p, v) BY <1>2, <1>3 DEF Moved
<1> QED BY <1>2, <1>4

LEMMA ResolveCredentialInv ==
  ASSUME NEW c \in Calls, CallsInv, ResolveCredential(c)
  PROVE  CallsInv'
<1>1. Sound BY InvSound
<1>2. CASE conn.rev = call[c].rev
  <2>1. PICK v : v = [call[c] EXCEPT !.cred = cred, !.pc = AfterResolve(c)] OBVIOUS
  <2>2. call[c] \in CallRecords /\ cred \in Nat BY <1>1 DEF Sound, CallsTypeOK
  <2>3. call' = [call EXCEPT ![c] = v] BY <1>2, <2>1 DEF ResolveCredential
  <2>4. call[c].pc = "resolve" /\ OnPath(call[c]) BY <1>1 DEF ResolveCredential, Sound, Paths
  <2>5. /\ call[c].kind \in {"read", "corpus"} => AfterResolve(c) = "execute"
        /\ call[c].kind = "page" => AfterResolve(c) = "open"
        /\ call[c].kind \in UploadKinds => AfterResolve(c) = "register"
        /\ call[c].kind = "preview" => AfterResolve(c) = "target"
        /\ call[c].kind = "safe" => AfterResolve(c) = "execute"
        /\ call[c].kind = "confirm" => AfterResolve(c) \in {"hold", "target"}
    BY DEF AfterResolve, UploadKinds
  <2>6. call[c].kind \in {"read", "corpus", "page", "preview", "safe", "confirm"} \cup UploadKinds
    BY <2>2, <2>4 DEF CallRecords, CallKinds, ReadKinds, NewWriteKinds, OnPath, Idle
  <2>7. AfterResolve(c) \in CallPoints BY <2>5, <2>6 DEF CallPoints
  <2>8. /\ v \in CallRecords
        /\ v.pc = AfterResolve(c) /\ v.kind = call[c].kind /\ v.tok = call[c].tok
        /\ v.cur = call[c].cur /\ v.owns = call[c].owns /\ v.pinned = call[c].pinned
    BY <2>1, <2>2, <2>7 DEF CallRecords
  <2>9. OnPath(v)
    BY <2>4, <2>5, <2>6, <2>8 DEF OnPath, UploadKinds, CallPoints, ReadKinds, NewWriteKinds
  <2>10. v.pc # "resolve" /\ (v.kind = "page" => v.pc = "open")
    BY <2>5, <2>6, <2>8 DEF UploadKinds
  <2>11. ~(v.kind = "confirm" /\ v.pc \in {"take", "stable", "execute"}) BY <2>5, <2>8
  <2>12. UNCHANGED <<bundle, timer, rest>> BY <1>2 DEF ResolveCredential
  <2>13. Advances(c, v) BY <2>3, <2>4, <2>8, <2>9, <2>10, <2>12 DEF Advances
  <2> QED BY <2>8, <2>10, <2>11, <2>12, <2>13, AdvanceQuietly DEF rest, LiveSpent
<1>3. CASE conn.rev # call[c].rev BY <1>1, <1>3, FailsLeft, FailsInv DEF ResolveCredential
<1> QED BY <1>2, <1>3

LEMMA OpenCursorInv ==
  ASSUME NEW c \in Calls, CallsInv, OpenCursor(c)
  PROVE  CallsInv'
<1>1. Sound /\ nonces \subseteq Tokens BY InvSound DEF CallsInv, CallsTypeOK
<1>2. /\ call[c].pc = "open" /\ OnPath(call[c]) /\ call[c] \in CallRecords
      /\ nonces' = LiveSpent /\ cursors' = LiveCursors
      /\ UNCHANGED <<outside, conn, cred, target, confirmations, executed, served>>
  BY <1>1 DEF OpenCursor, Sound, Paths, CallsTypeOK
<1>3. LiveSpent \subseteq nonces /\ LiveCursors \subseteq cursors BY DEF LiveSpent, LiveCursors
<1>4. CASE CursorMatches(c, call[c].cur) /\ Goes(c, "execute") /\ UNCHANGED <<bundle, timer>>
  <2>1. CallsTypeOK /\ "execute" \in CallPoints BY <1>1 DEF Sound, CallPoints
  <2>2. PICK v \in CallRecords : Moved(c, "execute", v) BY <1>4, <2>1, GoesOn
  <2>3. call[c].kind = "page"
    BY <1>2 DEF OnPath, Idle, CallRecords, CallKinds, ReadKinds, NewWriteKinds, UploadKinds
  <2>4. OnPath(v) BY <1>2, <2>2, <2>3 DEF Moved, OnPath, UploadKinds, ReadKinds, NewWriteKinds
  <2>5. Advances(c, v) BY <2>2, <2>4 DEF Moved, Advances
  <2> QED BY <1>2, <1>3, <1>4, <2>2, <2>3, <2>5, AdvanceQuietly DEF Moved, CursorMatches
<1>5. CASE Fails(c)
  <2>1. Left(c) /\ conn \in [rev : Nat, ver : Nat, full : BOOLEAN, ready : BOOLEAN]
    BY <1>1, <1>5, FailsLeft DEF Sound, CallsTypeOK
  <2> QED BY <1>2, <1>3, <2>1, LeftInv
<1> QED BY <1>4, <1>5 DEF OpenCursor

LEMMA ReturnReadInv ==
  ASSUME NEW c \in Calls, CallsInv, ReturnRead(c)
  PROVE  CallsInv'
<1>1. Sound /\ Pages BY InvSound DEF CallsInv
<1>2. /\ call[c].pc = "return" /\ call[c].kind \in ReadKinds
      /\ OnPath(call[c]) /\ call[c] \in CallRecords
      /\ UNCHANGED <<outside, conn, cred, target, confirmations, executed>>
      /\ Left(c)
  BY <1>1, FailsLeft DEF ReturnRead, Sound, Paths, CallsTypeOK
<1>3. First(c) = <<call[c].rev, call[c].cred>>
  <2>1. CASE call[c].cur = None BY <2>1 DEF First
  <2>2. CASE call[c].cur # None
    <3>1. call[c].kind = "page" BY <1>2, <2>2 DEF OnPath
    <3> QED BY <1>1, <1>2, <2>2, <3>1 DEF First, Pages, Bound, CursorMatches
  <2> QED BY <2>1, <2>2
<1>4. LiveSpent \subseteq nonces /\ LiveCursors \subseteq cursors BY DEF LiveSpent, LiveCursors
<1>5. ~StateChanged(c) => First(c) = <<conn.rev, cred>> BY <1>3 DEF StateChanged
<1>6. CursorFor(c) \in Cursors /\ Bound(CursorFor(c))
  <2>1. call[c].rev \in Nat /\ call[c].cred \in Nat /\ clock \in Nat
    BY <1>1, <1>2 DEF CallRecords, Sound, CallsTypeOK
  <2> QED BY <1>3, <2>1, CallsConstants DEF CursorFor, Cursors, Bound
<1>7. /\ LiveSpent \subseteq nonces' /\ nonces' \subseteq nonces
      /\ \A k \in cursors' : k \in cursors \/ k = CursorFor(c)
      /\ served' = served \/ (~StateChanged(c) /\ served' = <<First(c), <<conn.rev, cred>>>>)
  BY <1>4 DEF ReturnRead
<1>8. served' = served \/ served'[1] = served'[2] BY <1>5, <1>7
<1>9. conn \in [rev : Nat, ver : Nat, full : BOOLEAN, ready : BOOLEAN]
  BY <1>1 DEF Sound, CallsTypeOK
<1> QED BY <1>2, <1>6, <1>7, <1>8, <1>9, LeftInv

\* A call that goes on from point to point and changes nothing else.
LEMMA GoesInv ==
  ASSUME NEW c \in Calls, CallsInv, NEW p \in CallPoints, Goes(c, p), UNCHANGED <<bundle, timer, rest>>,
         call[c].kind \notin ReadKinds \cup {"none"}, p \notin {"resolve", "register"},
         OnPath([call[c] EXCEPT !.pc = p]),
         call[c].kind = "confirm" /\ p \in {"take", "stable", "execute"} => Spending(c)
  PROVE  CallsInv'
<1>1. CallsTypeOK BY DEF CallsInv
<1>2. PICK v \in CallRecords : Moved(c, p, v) BY <1>1, GoesOn
<1>3. Advances(c, v) /\ v.kind # "page" BY <1>2 DEF Moved, Advances, ReadKinds
<1> QED BY <1>2, <1>3, AdvanceQuietly DEF Moved, rest, LiveSpent

LEMMA ResolveTargetInv ==
  ASSUME NEW c \in Calls, CallsInv, ResolveTarget(c)
  PROVE  CallsInv'
<1> DEFINE q == IF call[c].kind = "confirm" THEN "consume" ELSE "issue"
<1>1. PICK v : v = [call[c] EXCEPT !.tgt = target, !.pc = q] OBVIOUS
<1>2. /\ call[c].pc = "target" /\ OnPath(call[c]) /\ call[c] \in CallRecords /\ target \in Nat
      /\ UNCHANGED <<bundle, timer, rest>> /\ call' = [call EXCEPT ![c] = v]
  BY <1>1 DEF ResolveTarget, CallsInv, Paths, CallsTypeOK
<1>3. /\ v \in CallRecords
      /\ v.pc = q /\ v.kind = call[c].kind /\ v.tok = call[c].tok /\ v.cur = call[c].cur
      /\ v.owns = call[c].owns /\ v.pinned = call[c].pinned
  BY <1>1, <1>2 DEF CallRecords, CallPoints
<1>4. call[c].kind \in {"preview", "previewUpload", "confirm"}
  BY <1>2 DEF OnPath, Idle, CallRecords, CallKinds, ReadKinds, NewWriteKinds, UploadKinds
<1>5. OnPath(v)
  BY <1>2, <1>3, <1>4 DEF OnPath, CallPoints, ReadKinds, NewWriteKinds, UploadKinds
<1>6. Advances(c, v) BY <1>2, <1>3, <1>4, <1>5 DEF Advances
<1> QED BY <1>2, <1>3, <1>4, <1>6, AdvanceQuietly DEF rest, LiveSpent

LEMMA DiscardedWanes ==
  ASSUME Sound, NEW t \in Tokens, bundle[t].st # "none"
  PROVE  /\ Discarded(bundle, t) \in [Tokens -> Snapshots]
         /\ \A u \in Tokens : Wanes(bundle[u], Discarded(bundle, t)[u])
<1>1. bundle \in [Tokens -> Snapshots] BY DEF Sound, CallsTypeOK
<1>2. PICK v \in Snapshots : v = Uncached(BundleClosed(bundle[t])) BY <1>1, ClosedBundle
<1>3. Wanes(bundle[t], v) BY <1>1, <1>2, ClosedWanes
<1>4. Discarded(bundle, t) = [bundle EXCEPT ![t] = v] BY <1>1, <1>2 DEF Discarded
<1>5. \A b \in Snapshots : Wanes(b, b) BY DEF Wanes
<1> QED BY <1>1, <1>3, <1>4, <1>5

LEMMA BindUploadInv ==
  ASSUME NEW c \in Calls, CallsInv, BindUpload(c)
  PROVE  CallsInv'
<1>1. Sound BY InvSound
<1>2. call[c].pc = "bind" /\ OnPath(call[c]) /\ HasSnapshot(c) /\ UNCHANGED rest
      /\ call[c] \in CallRecords
  BY <1>1 DEF BindUpload, Sound, Paths, CallsTypeOK
<1>3. call[c].kind = "confirm" /\ ~call[c].owns /\ call[c].tok \in Tokens
      /\ bundle[call[c].tok].st # "none"
  BY <1>2 DEF OnPath, Idle, CallRecords, CallKinds, ReadKinds, NewWriteKinds, UploadKinds, HasSnapshot
<1>4. CASE bundle[call[c].tok].st = "open"
  <2>1. Goes(c, "target") /\ UNCHANGED <<bundle, timer, rest>> BY <1>4 DEF BindUpload
  <2>2. "target" \in CallPoints /\ OnPath([call[c] EXCEPT !.pc = "target"])
    BY <1>2, <1>3 DEF CallRecords, OnPath, CallPoints, ReadKinds, NewWriteKinds, UploadKinds
  <2> QED BY <1>3, <2>1, <2>2, GoesInv DEF ReadKinds
<1>5. CASE bundle[call[c].tok].st # "open"
  <2>1. Leave(c, Discarded(bundle, call[c].tok)) BY <1>5 DEF BindUpload
  <2>2. PICK bs \in [Tokens -> Snapshots] :
          bs = Discarded(bundle, call[c].tok) /\ \A t \in Tokens : Wanes(bundle[t], bs[t])
    BY <1>1, <1>3, DiscardedWanes
  <2>3. Left(c) BY <1>1, <1>3, <2>1, <2>2, LeaveLeft
  <2> QED BY <1>2, <2>3, FailsInv
<1> QED BY <1>4, <1>5

LEMMA TargetStableInv ==
  ASSUME NEW c \in Calls, CallsInv, TargetStable(c)
  PROVE  CallsInv'
<1>1. Sound BY InvSound
<1>2. call[c].pc = "stable" /\ OnPath(call[c]) /\ call[c] \in CallRecords /\ UNCHANGED rest
  BY <1>1 DEF TargetStable, Sound, Paths, CallsTypeOK
<1>3. call[c].kind = "confirm"
  BY <1>2 DEF OnPath, Idle, CallRecords, CallKinds, ReadKinds, NewWriteKinds, UploadKinds
<1>4. CASE Goes(c, "execute") /\ UNCHANGED <<bundle, timer>>
  <2>1. "execute" \in CallPoints /\ OnPath([call[c] EXCEPT !.pc = "execute"])
    BY <1>2, <1>3 DEF CallRecords, OnPath, CallPoints, ReadKinds, NewWriteKinds, UploadKinds
  <2> QED BY <1>2, <1>3, <1>4, <2>1, GoesInv DEF ReadKinds, Spending
<1>5. CASE Fails(c) BY <1>1, <1>2, <1>5, FailsLeft, FailsInv
<1> QED BY <1>4, <1>5 DEF TargetStable

\* A confirmation nobody has spent becomes this call's alone.
LEMMA ConsumeInv ==
  ASSUME NEW c \in Calls, CallsInv, Consume(c)
  PROVE  CallsInv'
<1>1. Sound /\ Once /\ nonces \subseteq Tokens /\ conn \in [rev : Nat, ver : Nat, full : BOOLEAN, ready : BOOLEAN]
      /\ executed \in [Tokens -> Nat] /\ confirmations \in [Tokens -> Confirmations \cup {None}]
      /\ clock \in Nat
  BY InvSound DEF CallsInv, CallsTypeOK
<1>2. /\ call[c].pc = "consume" /\ OnPath(call[c]) /\ call[c] \in CallRecords /\ Presents(c)
      /\ UNCHANGED <<outside, conn, cred, target, confirmations, executed, served>>
  BY <1>1 DEF Consume, Sound, Paths, CallsTypeOK
<1>3. call[c].kind = "confirm" /\ call[c].tok \in Tokens
  BY <1>2 DEF OnPath, Idle, CallRecords, CallKinds, ReadKinds, NewWriteKinds, UploadKinds
<1>4. LiveSpent \subseteq nonces /\ LiveCursors \subseteq cursors BY DEF LiveSpent, LiveCursors
<1>5. PICK t \in Tokens : t = call[c].tok BY <1>3
<1>6. PICK p \in CallPoints : p = IF confirmations[t].upload THEN "take" ELSE "stable"
  BY DEF CallPoints
<1>7. CASE /\ ValidTimes(confirmations[t]) /\ t \notin LiveSpent
           /\ nonces' = LiveSpent \cup {t} /\ cursors' = LiveCursors
           /\ Goes(c, p) /\ UNCHANGED <<bundle, timer>>
  <2>1. PICK v \in CallRecords : Moved(c, p, v) BY <1>1, <1>7, GoesOn DEF Sound
  <2>2. OnPath(v)
    BY <1>2, <1>3, <1>6, <2>1 DEF Moved, OnPath, CallPoints, ReadKinds, NewWriteKinds, UploadKinds
  <2>3. Advances(c, v) BY <1>6, <2>1, <2>2 DEF Moved, Advances
  <2>4. CallsTypeOK' /\ Paths' /\ Kept' /\ Pages'
    BY <1>1, <1>2, <1>3, <1>4, <1>7, <2>1, <2>3, AdvanceInv DEF Moved
  <2>5. confirmations[t] \in Confirmations /\ clock < confirmations[t].exp
    BY <1>1, <1>2, <1>3, <1>5, <1>7 DEF Presents, ValidTimes
  <2>6. t \notin nonces /\ ~ (clock >= confirmations[t].exp)
    BY <1>1, <1>7, <2>5 DEF LiveSpent, Confirmations
  <2>7. ~SpentForGood(t) BY <2>6 DEF SpentForGood
  <2>8. executed[t] = 0 /\ \A d \in Calls : Spending(d) => call[d].tok # t
    BY <1>1, <2>7 DEF Once
  <2>9. \A d \in Calls : call'[d] = IF d = c THEN v ELSE call[d]
    BY <1>1, <2>1 DEF Moved, Sound, CallsTypeOK
  <2>10. \A u \in Tokens : SpentForGood(u) => SpentForGood(u)'
    <3>1. ASSUME NEW u \in Tokens, SpentForGood(u), u \in nonces, ~(clock >= confirmations[u].exp)
          PROVE  u \in LiveSpent
      <4>1. confirmations[u].exp \in Nat BY <1>1, <3>1 DEF SpentForGood, Confirmations
      <4> QED BY <1>1, <3>1, <4>1 DEF LiveSpent
    <3> QED BY <1>2, <1>7, <3>1 DEF SpentForGood, outside
  <2>11. SpentForGood(t)' BY <1>2, <1>5, <1>7, <2>5, CallsConstants DEF SpentForGood
  <2>12. \A d \in Calls : d # c /\ Spending(d)' => Spending(d) /\ call'[d].tok = call[d].tok
                                                  /\ call[d].tok \in Tokens
    BY <1>1, <2>9 DEF Spending, Sound, Paths, OnPath
  <2>13. \A d \in Calls : Spending(d)' => SpentForGood(call[d].tok)' /\ executed'[call'[d].tok] = 0
    BY <1>1, <1>2, <1>5, <2>1, <2>8, <2>9, <2>10, <2>11, <2>12 DEF Moved, Once
  <2>14. \A d, e \in Calls : Spending(d)' /\ Spending(e)' /\ d # e => call'[d].tok # call'[e].tok
    BY <1>1, <1>5, <2>1, <2>8, <2>9, <2>12 DEF Moved, Once
  <2>15. \A u \in Tokens : executed'[u] <= 1 /\ (executed'[u] # 0 => SpentForGood(u)')
    BY <1>1, <1>2, <2>10 DEF Once
  <2>16. Once' BY <2>13, <2>14, <2>15 DEF Once
  <2> QED BY <2>4, <2>16 DEF CallsInv
<1>8. CASE /\ Fails(c) /\ LiveSpent \subseteq nonces' /\ nonces' \subseteq nonces
           /\ cursors' \subseteq cursors
  <2>1. Left(c) BY <1>1, <1>8, FailsLeft
  <2> QED BY <1>1, <1>2, <1>8, <2>1, LeftInv
<1> QED BY <1>4, <1>5, <1>6, <1>7, <1>8 DEF Consume

\* The provider sees the request: the one call that spent the nonce sends it.
LEMMA ExecuteInv ==
  ASSUME NEW c \in Calls, CallsInv, Execute(c)
  PROVE  CallsInv'
<1>1. Sound /\ Once /\ nonces \subseteq Tokens /\ executed \in [Tokens -> Nat]
      /\ Pages
  BY InvSound DEF CallsInv, CallsTypeOK
<1>2. /\ call[c].pc = "execute" /\ OnPath(call[c]) /\ call[c] \in CallRecords
      /\ UNCHANGED <<bundle, timer, outside, conn, cred, target, confirmations, nonces, cursors, served>>
  BY <1>1 DEF Execute, Sound, Paths, CallsTypeOK
<1>3. PICK p \in CallPoints : p = IF Uploads(c) THEN "send" ELSE "return" BY DEF CallPoints
<1>4. PICK v \in CallRecords : Moved(c, p, v) BY <1>1, <1>2, <1>3, GoesOn DEF Execute, Sound
<1>5. call[c].kind \in ReadKinds => p = "return" BY <1>2, <1>3 DEF Uploads, OnPath
<1>6. OnPath(v)
  <2>1. call[c].kind \in ReadKinds \cup {"safe", "safeUpload", "confirm"}
    BY <1>2 DEF OnPath, Idle, CallRecords, CallKinds, ReadKinds, NewWriteKinds, UploadKinds
  <2>2. v.pc \in {"send", "return"} /\ (v.kind \in ReadKinds => v.pc = "return")
    BY <1>3, <1>4, <1>5 DEF Moved
  <2> QED
    BY <1>2, <1>4, <2>1, <2>2 DEF Moved, OnPath, CallPoints, ReadKinds, NewWriteKinds, UploadKinds
<1>7. Advances(c, v) BY <1>3, <1>4, <1>6 DEF Moved, Advances
<1>8. v.kind = "page" => v.cur.rev = v.rev /\ v.cur.cred = v.cred
  BY <1>1, <1>2, <1>4 DEF Moved, Pages, CursorMatches
<1>9. executed' \in [Tokens -> Nat]
  <2>1. executed' = [executed EXCEPT ![call[c].tok] = @ + 1] \/ executed' = executed
    BY DEF Execute
  <2> QED BY <1>1, <2>1
<1>10. CallsTypeOK' /\ Paths' /\ Kept' /\ Pages'
  <2>1. nonces' \subseteq Tokens /\ cursors' \subseteq cursors BY <1>1, <1>2
  <2> QED BY <1>2, <1>4, <1>7, <1>8, <1>9, <2>1, AdvanceInv DEF Moved
<1>11. \A d \in Calls : call'[d] = IF d = c THEN v ELSE call[d]
  BY <1>1, <1>4 DEF Moved, Sound, CallsTypeOK
<1>12. ~(v.kind = "confirm" /\ v.pc \in {"take", "stable", "execute"}) BY <1>3, <1>4 DEF Moved
<1>13. CASE call[c].kind # "confirm"
  <2>1. executed' = executed BY <1>13 DEF Execute
  <2>2. Once' BY <1>1, <1>2, <1>4, <1>12, <2>1, OnceKept DEF Moved, outside, LiveSpent
  <2> QED BY <1>10, <2>2 DEF CallsInv
<1>14. CASE call[c].kind = "confirm"
  <2>1. PICK t \in Tokens : t = call[c].tok BY <1>2, <1>14 DEF OnPath
  <2>2. executed[t] = 0 /\ SpentForGood(t) BY <1>1, <1>2, <1>14, <2>1 DEF Once, Spending
  <2>3. \A u \in Tokens : executed'[u] = IF u = t THEN 1 ELSE executed[u]
    BY <1>1, <1>14, <2>1, <2>2 DEF Execute
  <2>4. \A u \in Tokens : SpentForGood(u) => SpentForGood(u)' BY <1>2 DEF SpentForGood, outside
  <2>5. \A u \in Tokens : executed'[u] <= 1 /\ (executed'[u] # 0 => SpentForGood(u)')
    BY <1>1, <2>2, <2>3, <2>4 DEF Once
  <2>6. \A d \in Calls : Spending(d)' => d # c /\ Spending(d) /\ call'[d] = call[d]
    BY <1>11, <1>12 DEF Spending
  <2>7. \A d \in Calls : Spending(d) /\ d # c => call[d].tok # t
    BY <1>1, <1>2, <1>14, <2>1 DEF Once, Spending
  <2>8. \A d \in Calls : Spending(d) => call[d].tok \in Tokens
    BY <1>1 DEF Spending, Sound, Paths, OnPath
  <2>9. \A d \in Calls : Spending(d)' => SpentForGood(call[d].tok)' /\ executed'[call'[d].tok] = 0
    <3>1. ASSUME NEW d \in Calls, Spending(d)'
          PROVE  SpentForGood(call[d].tok)' /\ executed'[call'[d].tok] = 0
      <4>1. call[d].tok \in Tokens /\ call[d].tok # t /\ call'[d] = call[d] /\ Spending(d)
        BY <2>6, <2>7, <2>8, <3>1
      <4>2. SpentForGood(call[d].tok) /\ executed[call[d].tok] = 0 BY <1>1, <4>1 DEF Once
      <4>3. executed'[call[d].tok] = 0 BY <2>3, <4>1, <4>2
      <4> QED BY <1>2, <4>1, <4>2, <4>3 DEF SpentForGood, outside
    <3> QED BY <3>1
  <2>10. \A d, e \in Calls : Spending(d)' /\ Spending(e)' /\ d # e => call'[d].tok # call'[e].tok
    BY <1>1, <2>6 DEF Once
  <2>11. Once' BY <2>5, <2>9, <2>10 DEF Once
  <2> QED BY <1>10, <2>11 DEF CallsInv
<1> QED BY <1>13, <1>14

LEMMA ReturnWriteInv ==
  ASSUME NEW c \in Calls, CallsInv, ReturnWrite(c)
  PROVE  CallsInv'
BY InvSound, FailsLeft, FailsInv DEF ReturnWrite

LEMMA ProviderFailsInv ==
  ASSUME NEW c \in Calls, CallsInv, ProviderFails(c)
  PROVE  CallsInv'
<1>1. Sound /\ conn \in [rev : Nat, ver : Nat, full : BOOLEAN, ready : BOOLEAN]
  BY InvSound DEF CallsInv, CallsTypeOK
<1>2. Left(c) BY <1>1, FailsLeft DEF ProviderFails
<1>3. conn' \in [rev : Nat, ver : Nat, full : BOOLEAN, ready : BOOLEAN]
  <2>1. conn' = conn \/ conn' = [conn EXCEPT !.ready = FALSE, !.rev = @ + 1, !.ver = @ + 1]
    BY DEF ProviderFails
  <2>2. conn.rev + 1 \in Nat /\ conn.ver + 1 \in Nat BY <1>1
  <2> QED BY <1>1, <2>1, <2>2
<1>4. /\ UNCHANGED <<outside, cred, target, confirmations, executed, nonces, cursors, served>>
      /\ LiveSpent \subseteq nonces'
  BY DEF ProviderFails, LiveSpent
<1> QED BY <1>2, <1>3, <1>4, LeftInv

----------------------------------------
(* The steps of a call that touch a snapshot *)

\* Custody survives a change of the snapshots that forgets no cancellation, starts no chunk
\* of what was cancelled, and caches nothing once the cache is closed.
LEMMA KeptByBundle ==
  ASSUME Sound, Kept, Owned', Watched', UNCHANGED outside,
         \A t \in Tokens : bundle'[t].cached => bundle[t].cached \/ ~closed,
         \A t \in Tokens : bundle[t].cancelled => bundle'[t].cancelled,
         \A t \in Tokens : bundle'[t].sending => bundle[t].sending \/ ~bundle[t].cancelled
  PROVE  Kept'
<1>1. ClosedEmpty' /\ StoppedKnown' BY DEF Kept, ClosedEmpty, StoppedKnown, outside
<1>2. Cancelled' BY DEF Kept, Cancelled, outside, StoppedKnown
<1> QED BY <1>1, <1>2 DEF Kept

\* The timer still watches the entries that are left.
LEMMA StillWatched ==
  ASSUME Watched, timer' = timer,
         \A t \in Tokens : bundle'[t].cached => bundle'[t] = bundle[t] \/ bundle'[t].st = "closed"
  PROVE  Watched'
BY DEF Watched, Watchable

LEMMA AdmitInv ==
  ASSUME NEW c \in Calls, CallsInv, NEW kind \in CallKinds \ {"none"}, NEW t \in Tokens \cup {None},
         NEW k \in Cursors \cup {None}, Admit(c, kind, t, k),
         kind \in ReadKinds => t = None,
         kind = "page" => k \in cursors,
         kind # "page" => k = None,
         kind \in NewWriteKinds => t \in Tokens /\ TokenFree(t),
         kind = "confirm" => t \in Tokens /\ confirmations[t] # None
  PROVE  CallsInv'
<1>1. Sound /\ Once /\ Kept /\ Pages BY InvSound DEF CallsInv
<1>2. PICK v : v = [Idle EXCEPT !.pc = "resolve", !.kind = kind, !.tok = t,
                                !.rev = conn.rev, !.ver = conn.ver, !.cur = k]
  OBVIOUS
<1>3. /\ call[c] = Idle /\ CacheBecomes(bundle) /\ UNCHANGED rest
      /\ call' = [call EXCEPT ![c] = v]
  BY <1>2 DEF Admit
<1>4. /\ v \in CallRecords /\ v.pc = "resolve" /\ v.kind = kind /\ v.tok = t /\ v.cur = k
      /\ v.owns = FALSE /\ v.pinned = FALSE
  <2>1. conn.rev \in Nat /\ conn.ver \in Nat /\ 0 \in Nat /\ "resolve" \in CallPoints
    BY <1>1 DEF Sound, CallsTypeOK, CallPoints
  <2> QED BY <1>2, <2>1 DEF Idle, CallRecords
<1>5. OnPath(v)
  <2>1. cursors \subseteq Cursors BY <1>1 DEF Sound, CallsTypeOK
  <2>2. kind = "page" => k \in Cursors BY <2>1
  <2> QED BY <1>4, <2>2 DEF OnPath, CallKinds, ReadKinds, NewWriteKinds, UploadKinds, CallPoints
<1>6. /\ bundle \in [Tokens -> Snapshots]
      /\ \A u \in Tokens : bundle[u].cached => bundle[u].st # "none"
      /\ closed => \A u \in Tokens : ~bundle[u].cached
  BY <1>1 DEF Sound, CallsTypeOK, Paths, CachedIsIssued, ClosedEmpty
<1>7. /\ bundle' \in [Tokens -> Snapshots] /\ timer' \in Nat \cup {None} /\ Watched'
      /\ \A u \in Tokens : Wanes(bundle[u], bundle'[u])
  BY <1>3, <1>6, CacheWatched
<1>8. \A d \in Calls : call'[d] = IF d = c THEN v ELSE call[d]
  BY <1>1, <1>3 DEF Sound, CallsTypeOK
<1>9. confirmations' = confirmations BY <1>3 DEF rest
<1>10. CallsTypeOK' BY <1>1, <1>3, <1>4, <1>7 DEF Sound, CallsTypeOK, rest, outside
<1>11. Paths'
  <2>1. \A d \in Calls : OnPath(call[d])' BY <1>1, <1>5, <1>8 DEF Sound, Paths
  <2>2. \A d \in Calls : OwnToken(d)'
    <3>1. ASSUME NEW d \in Calls, d # c, call[d].kind \in NewWriteKinds
          PROVE  /\ confirmations[call[d].tok] = None
                 /\ \A e \in Calls \ {d} : call'[e].tok # call[d].tok
                 /\ call[d].pc \in {"resolve", "register"} => bundle'[call[d].tok] = NoBundle
      <4>1. OwnToken(d) /\ call[d].tok \in Tokens BY <1>1, <3>1 DEF Sound, Paths, OnPath
      <4>2. t # call[d].tok BY <3>1, <4>1, CallsConstants DEF OwnToken, TokenFree, CallKinds
      <4> QED BY <1>4, <1>7, <1>8, <3>1, <4>1, <4>2 DEF OwnToken, Wanes
    <3>2. ASSUME kind \in NewWriteKinds
          PROVE  /\ confirmations[t] = None
                 /\ \A e \in Calls \ {c} : call'[e].tok # t
                 /\ bundle'[t] = NoBundle
      BY <1>7, <1>8, <3>2 DEF TokenFree, Wanes
    <3> QED BY <1>4, <1>8, <1>9, <3>1, <3>2 DEF OwnToken
  <2>3. \A d \in Calls : Presents(d)' BY <1>1, <1>4, <1>8, <1>9 DEF Sound, Paths, Presents
  <2>4. \A d \in Calls : call[d].owns \/ call[d].pinned => call[d].tok \in Tokens
    BY <1>1 DEF Sound, Paths, OnPath, NewWriteKinds
  <2>5. \A d \in Calls : HasSnapshot(d)'
    BY <1>1, <1>4, <1>7, <1>8, <2>4 DEF Sound, Paths, HasSnapshot, Wanes
  <2>6. CachedIsIssued' BY <1>1, <1>7, <1>9 DEF Sound, Paths, CachedIsIssued, Wanes
  <2> QED BY <2>1, <2>2, <2>3, <2>5, <2>6 DEF Paths
<1>12. Once'
  <2>1. /\ v.pc \notin {"take", "stable", "execute"}
        /\ executed' = executed /\ clock' = clock /\ LiveSpent \subseteq nonces'
    BY <1>3, <1>4 DEF rest, outside, LiveSpent
  <2> QED BY <1>1, <1>3, <1>9, <2>1, OnceKept
<1>13. Kept'
  <2>1. ~call[c].owns /\ UNCHANGED outside BY <1>3 DEF Idle, rest
  <2> QED BY <1>1, <1>3, <1>7, <2>1, KeptByWaning
<1>14. Pages'
  <2>1. v.kind = "page" => Bound(v.cur) BY <1>1, <1>4 DEF Pages
  <2>2. v.pc \notin {"execute", "return"} /\ cursors' = cursors /\ served' = served
    BY <1>3, <1>4 DEF rest
  <2> QED BY <1>1, <1>3, <2>1, <2>2, PagesKept
<1> QED BY <1>10, <1>11, <1>12, <1>13, <1>14 DEF CallsInv

LEMMA BeginInv ==
  ASSUME NEW c \in Calls, CallsInv, BeginCall(c)
  PROVE  CallsInv'
<1>1. cursors \subseteq Cursors BY DEF CallsInv, CallsTypeOK
<1>2. CASE \E kind \in {"read", "corpus"} : Admit(c, kind, None, None)
  BY <1>2, AdmitInv DEF CallKinds, ReadKinds, NewWriteKinds, UploadKinds
<1>3. CASE \E k \in cursors : Admit(c, "page", None, k)
  BY <1>1, <1>3, AdmitInv DEF CallKinds, ReadKinds, NewWriteKinds, UploadKinds
<1>4. ASSUME NEW t \in Tokens, TokenFree(t), NEW kind \in NewWriteKinds, Admit(c, kind, t, None)
      PROVE  CallsInv'
  <2>1. kind \in CallKinds \ {"none"} /\ kind \notin ReadKinds /\ kind \notin {"page", "confirm"}
    BY DEF CallKinds, ReadKinds, NewWriteKinds, UploadKinds
  <2> QED BY <1>4, <2>1, AdmitInv
<1>5. ASSUME NEW t \in Tokens, confirmations[t] # None, Admit(c, "confirm", t, None)
      PROVE  CallsInv'
  BY <1>5, AdmitInv DEF CallKinds, ReadKinds, NewWriteKinds, UploadKinds
<1> QED BY <1>2, <1>3, <1>4, <1>5 DEF BeginCall

\* The frame of the steps that change a snapshot of this call and go on.
LEMMA SnapshotStep ==
  ASSUME NEW c \in Calls, CallsInv, NEW v \in CallRecords, Advances(c, v), UNCHANGED rest,
         v.kind \in UploadKinds \cup {"confirm", "safe"}, v.pc \notin {"register", "take"},
         v.pc \in {"stable", "execute"} /\ v.kind = "confirm" => Spending(c),
         bundle' \in [Tokens -> Snapshots], timer' \in Nat \cup {None},
         \A t \in Tokens : bundle'[t].cached => bundle[t].cached,
         \A t \in Tokens : bundle[t].st # "none" => bundle'[t].st # "none",
         \A t \in Tokens : bundle[t] = NoBundle /\ t # call[c].tok => bundle'[t] = NoBundle,
         v.owns \/ v.pinned => bundle'[v.tok].st # "none",
         Owned', Watched',
         \A t \in Tokens : bundle[t].cancelled => bundle'[t].cancelled,
         \A t \in Tokens : bundle'[t].sending => bundle[t].sending \/ ~bundle[t].cancelled
  PROVE  CallsInv'
<1>1. Sound /\ Once /\ Kept /\ Pages BY InvSound DEF CallsInv
<1>2. call' = [call EXCEPT ![c] = v] /\ v.tok = call[c].tok BY DEF Advances
<1>3. CallsTypeOK' BY <1>1, <1>2 DEF Sound, CallsTypeOK, rest, outside
<1>4. confirmations' = confirmations /\ UNCHANGED outside /\ served' = served /\ cursors' = cursors
  BY DEF rest
<1>5. Paths' BY <1>1, <1>4, AdvancePaths
<1>6. Once' BY <1>1, <1>2, OnceKept DEF rest, outside, LiveSpent
<1>7. Kept' BY <1>1, <1>4, KeptByBundle
<1>8. v.kind # "page" BY DEF UploadKinds
<1>9. Pages' BY <1>1, <1>2, <1>4, <1>8, PagesKept
<1> QED BY <1>3, <1>5, <1>6, <1>7, <1>9 DEF CallsInv

LEMMA RegisterUploadInv ==
  ASSUME NEW c \in Calls, CallsInv, RegisterUpload(c)
  PROVE  CallsInv'
<1>1. Sound /\ Kept BY InvSound DEF CallsInv
<1>2. /\ call[c].pc = "register" /\ OnPath(call[c]) /\ OwnToken(c) /\ call[c] \in CallRecords
      /\ UNCHANGED rest /\ bundle \in [Tokens -> Snapshots] /\ timer \in Nat \cup {None}
      /\ granted \subseteq Grants
  BY <1>1 DEF RegisterUpload, Sound, Paths, CallsTypeOK
<1>3. call[c].kind \in UploadKinds /\ ~call[c].owns
  BY <1>2 DEF OnPath, Idle, CallRecords, CallKinds, ReadKinds, NewWriteKinds, UploadKinds
<1>4. call[c].kind \in NewWriteKinds /\ call[c].tok \in Tokens
  BY <1>2, <1>3 DEF OnPath, NewWriteKinds
<1>5. PICK t \in Tokens : t = call[c].tok BY <1>4
<1>6. bundle[t] = NoBundle BY <1>2, <1>4, <1>5 DEF OwnToken
<1>7. ASSUME NEW g \in Grants, Register(t, g), call' = [call EXCEPT ![c].pc = "reserve", ![c].owns = TRUE]
      PROVE  CallsInv'
  <2>1. PICK w : w = [NoBundle EXCEPT !.st = "assembling", !.grant = g] OBVIOUS
  <2>2. /\ w \in Snapshots /\ w.st = "assembling" /\ w.cached = FALSE /\ w.reserved = FALSE
        /\ w.cancelled = FALSE /\ w.sending = FALSE
    <3>1. 0 \in Nat /\ 0 \in Int OBVIOUS
    <3> QED BY <2>1, <3>1 DEF NoBundle, Snapshots
  <2>3. bundle' = [bundle EXCEPT ![t] = w] /\ timer' = timer
    BY <1>2, <1>6, <1>7, <2>1 DEF Register
  <2>4. PICK v : v = [call[c] EXCEPT !.pc = "reserve", !.owns = TRUE] OBVIOUS
  <2>5. /\ v \in CallRecords /\ v.pc = "reserve" /\ v.kind = call[c].kind /\ v.tok = call[c].tok
        /\ v.cur = call[c].cur /\ v.owns = TRUE /\ v.pinned = call[c].pinned
        /\ call' = [call EXCEPT ![c] = v]
    BY <1>2, <1>7, <2>4 DEF CallRecords, CallPoints
  <2>6. OnPath(v)
    BY <1>2, <1>3, <2>5 DEF OnPath, CallPoints, ReadKinds, NewWriteKinds, UploadKinds
  <2>7. Advances(c, v) BY <2>5, <2>6 DEF Advances
  <2>8. \A u \in Tokens : bundle'[u] = IF u = t THEN w ELSE bundle[u] BY <1>2, <2>3
  <2>9. bundle[t].cached = FALSE /\ bundle[t].reserved = FALSE /\ bundle[t].cancelled = FALSE
        /\ bundle[t].sending = FALSE
    BY <1>6 DEF NoBundle
  <2>10. \A d \in Calls : call'[d] = IF d = c THEN v ELSE call[d]
    BY <1>1, <2>5 DEF Sound, CallsTypeOK
  <2>11. Owned' BY <1>1, <1>3, <2>2, <2>8, <2>10 DEF Kept, Owned
  <2>12. Watched' BY <1>1, <2>2, <2>3, <2>8, StillWatched DEF Kept
  <2>13. v.kind \in UploadKinds \cup {"confirm", "safe"} /\ v.kind # "confirm"
    BY <1>3, <2>5 DEF UploadKinds
  <2>14. /\ bundle' \in [Tokens -> Snapshots] /\ timer' \in Nat \cup {None}
         /\ \A u \in Tokens : bundle'[u].cached => bundle[u].cached
         /\ \A u \in Tokens : bundle[u].st # "none" => bundle'[u].st # "none"
         /\ \A u \in Tokens : bundle[u] = NoBundle /\ u # call[c].tok => bundle'[u] = NoBundle
         /\ bundle'[v.tok].st # "none"
         /\ \A u \in Tokens : bundle[u].cancelled => bundle'[u].cancelled
         /\ \A u \in Tokens : bundle'[u].sending => bundle[u].sending \/ ~bundle[u].cancelled
    BY <1>2, <1>5, <2>2, <2>3, <2>5, <2>8, <2>9
  <2> QED BY <1>2, <2>5, <2>7, <2>11, <2>12, <2>13, <2>14, SnapshotStep
<1>8. CASE Fails(c) BY <1>1, <1>2, <1>8, FailsLeft, FailsInv
<1> QED BY <1>5, <1>7, <1>8 DEF RegisterUpload

\* The cache as an operation of it finds it once it has pruned.
LEMMA PrunedCache ==
  ASSUME Sound
  PROVE  /\ Pruned(bundle) \in [Tokens -> Snapshots]
         /\ \A u \in Tokens : Wanes(bundle[u], Pruned(bundle)[u])
         /\ \A u \in Tokens : Pruned(bundle)[u].cached => Pruned(bundle)[u] = bundle[u]
         /\ \A u \in Tokens : ~bundle[u].cached => Pruned(bundle)[u] = bundle[u]
         /\ \A u \in Tokens : Pruned(bundle)[u].cached => Pruned(bundle)[u].st # "none"
<1>1. bundle \in [Tokens -> Snapshots] /\ \A u \in Tokens : bundle[u].cached => bundle[u].st # "none"
  BY DEF Sound, CallsTypeOK, Paths, CachedIsIssued
<1> QED BY <1>1, PrunedWanes

\* What the steps of an upload that is being prepared know of it.
LEMMA Preparing ==
  ASSUME NEW c \in Calls, Sound, call[c].pc \in {"reserve", "copy"}
  PROVE  /\ call[c].kind \in UploadKinds /\ call[c].owns /\ OnPath(call[c])
         /\ call[c] \in CallRecords
         /\ call[c].tok \in Tokens /\ ~bundle[call[c].tok].cached
         /\ bundle \in [Tokens -> Snapshots] /\ timer \in Nat \cup {None}
<1>1. OnPath(call[c]) /\ OwnToken(c) /\ call[c] \in CallRecords /\ CachedIsIssued
      /\ bundle \in [Tokens -> Snapshots] /\ timer \in Nat \cup {None}
  BY DEF Sound, Paths, CallsTypeOK
<1>2. call[c].kind \in UploadKinds
  BY <1>1 DEF OnPath, Idle, CallRecords, CallKinds, ReadKinds, NewWriteKinds, UploadKinds
<1>3. call[c].owns /\ call[c].tok \in Tokens /\ call[c].kind \in NewWriteKinds
  BY <1>1, <1>2 DEF OnPath, NewWriteKinds
<1>4. confirmations[call[c].tok] = None BY <1>1, <1>3 DEF OwnToken
<1> QED BY <1>1, <1>2, <1>3, <1>4 DEF CachedIsIssued

LEMMA ReserveUploadInv ==
  ASSUME NEW c \in Calls, CallsInv, ReserveUpload(c)
  PROVE  CallsInv'
<1>1. Sound /\ Kept /\ CallsTypeOK BY InvSound DEF CallsInv
<1>2. call[c].pc = "reserve" /\ UNCHANGED rest BY DEF ReserveUpload
<1>3. /\ call[c].kind \in UploadKinds /\ call[c].owns /\ OnPath(call[c]) /\ call[c].tok \in Tokens
      /\ ~bundle[call[c].tok].cached /\ bundle \in [Tokens -> Snapshots] /\ timer \in Nat \cup {None}
      /\ call[c] \in CallRecords
  BY <1>1, <1>2, Preparing
<1>4. PICK t \in Tokens : t = call[c].tok BY <1>3
<1>5. CASE Reserve(t) /\ Goes(c, "copy")
  <2>1. PICK bs \in [Tokens -> Snapshots] :
          /\ bs = Pruned(bundle)
          /\ \A u \in Tokens : Wanes(bundle[u], bs[u])
          /\ \A u \in Tokens : bs[u].cached => bs[u] = bundle[u]
          /\ \A u \in Tokens : ~bundle[u].cached => bs[u] = bundle[u]
    BY <1>1, PrunedCache
  <2>2. PICK w : w = [bs[t] EXCEPT !.reserved = TRUE] OBVIOUS
  <2>3. /\ w \in Snapshots /\ w.st = bs[t].st /\ w.cached = bs[t].cached /\ w.reserved = TRUE
        /\ w.cancelled = bs[t].cancelled /\ w.sending = bs[t].sending
    BY <2>2 DEF Snapshots
  <2>4. bundle' = [bs EXCEPT ![t] = w] /\ timer' = timer /\ bs[t].st = "assembling"
    BY <1>3, <1>4, <1>5, <2>1, <2>2 DEF Reserve, Reservable
  <2>5. \A u \in Tokens : bundle'[u] = IF u = t THEN w ELSE bs[u] BY <2>4
  <2>6. "copy" \in CallPoints BY DEF CallPoints
  <2>7. PICK v \in CallRecords : Moved(c, "copy", v) BY <1>1, <1>5, <2>6, GoesOn
  <2>8. OnPath(v)
    BY <1>2, <1>3, <2>7 DEF Moved, OnPath, CallPoints, ReadKinds, NewWriteKinds, UploadKinds
  <2>9. Advances(c, v) BY <2>7, <2>8 DEF Moved, Advances
  <2>10. \A d \in Calls : call'[d] = IF d = c THEN v ELSE call[d]
    BY <1>1, <2>7 DEF Moved, CallsTypeOK
  <2>11. Owned'
    <3>1. ASSUME NEW u \in Tokens, bundle'[u].reserved, ~bundle'[u].cached
          PROVE  \E d \in Calls : call'[d].owns /\ call'[d].tok = u
      <4>1. CASE u = t BY <1>3, <1>4, <2>7, <2>10, <4>1 DEF Moved
      <4>2. CASE u # t
        <5>1. bs[u].reserved /\ ~bs[u].cached BY <2>5, <3>1, <4>2
        <5>2. bundle[u].reserved /\ ~bundle[u].cached BY <2>1, <5>1 DEF Wanes
        <5>3. PICK d \in Calls : call[d].owns /\ call[d].tok = u BY <1>1, <5>2 DEF Kept, Owned
        <5>4. call'[d].owns /\ call'[d].tok = u BY <1>4, <2>10, <4>2, <5>3
        <5> QED BY <5>4
      <4> QED BY <4>1, <4>2
    <3> QED BY <3>1 DEF Owned
  <2>12. Watched'
    <3>1. \A u \in Tokens : bundle'[u].cached => bundle'[u] = bundle[u]
      BY <1>3, <1>4, <2>1, <2>3, <2>5
    <3> QED BY <1>1, <2>4, <3>1, StillWatched DEF Kept
  <2>13. v.kind \in UploadKinds \cup {"confirm", "safe"} /\ v.kind # "confirm" /\ v.pc = "copy"
    BY <1>3, <2>7 DEF Moved, UploadKinds
  <2>14. /\ bundle' \in [Tokens -> Snapshots] /\ timer' \in Nat \cup {None}
         /\ \A u \in Tokens : bundle'[u].cached => bundle[u].cached
         /\ \A u \in Tokens : bundle[u].st # "none" => bundle'[u].st # "none"
         /\ \A u \in Tokens : bundle[u] = NoBundle /\ u # call[c].tok => bundle'[u] = NoBundle
         /\ \A u \in Tokens : bundle[u].cancelled => bundle'[u].cancelled
         /\ \A u \in Tokens : bundle'[u].sending => bundle[u].sending \/ ~bundle[u].cancelled
    BY <1>3, <1>4, <2>1, <2>3, <2>4, <2>5 DEF Wanes
  <2>15. bundle'[v.tok].st # "none" BY <1>4, <2>3, <2>4, <2>5, <2>7 DEF Moved
  <2> QED BY <1>2, <2>9, <2>11, <2>12, <2>13, <2>14, <2>15, SnapshotStep
<1>6. CASE Fails(c) BY <1>1, <1>2, <1>6, FailsLeft, FailsInv
<1> QED BY <1>4, <1>5, <1>6 DEF ReserveUpload

LEMMA CopyUploadInv ==
  ASSUME NEW c \in Calls, CallsInv, CopyUpload(c)
  PROVE  CallsInv'
<1>1. Sound /\ Kept /\ CallsTypeOK BY InvSound DEF CallsInv
<1>2. call[c].pc = "copy" /\ UNCHANGED rest BY DEF CopyUpload
<1>3. /\ call[c].kind \in UploadKinds /\ call[c].owns /\ OnPath(call[c]) /\ call[c].tok \in Tokens
      /\ ~bundle[call[c].tok].cached /\ bundle \in [Tokens -> Snapshots] /\ timer \in Nat \cup {None}
      /\ call[c] \in CallRecords
  BY <1>1, <1>2, Preparing
<1>4. PICK t \in Tokens : t = call[c].tok BY <1>3
<1>5. PICK p \in CallPoints : p = IF call[c].kind = "safeUpload" THEN "execute" ELSE "target"
  BY DEF CallPoints
<1>6. CASE Copy(t) /\ Goes(c, p)
  <2>1. PICK w : w = [bundle[t] EXCEPT !.st = "open"] OBVIOUS
  <2>2. /\ w \in Snapshots /\ w.st = "open" /\ w.cached = bundle[t].cached
        /\ w.reserved = bundle[t].reserved
        /\ w.cancelled = bundle[t].cancelled /\ w.sending = bundle[t].sending
    BY <1>3, <2>1 DEF Snapshots
  <2>3. bundle' = [bundle EXCEPT ![t] = w] /\ timer' = timer BY <1>3, <1>6, <2>1 DEF Copy
  <2>4. \A u \in Tokens : bundle'[u] = IF u = t THEN w ELSE bundle[u] BY <1>3, <2>3
  <2>5. PICK v \in CallRecords : Moved(c, p, v) BY <1>1, <1>6, GoesOn
  <2>6. OnPath(v)
    BY <1>2, <1>3, <1>5, <2>5 DEF Moved, OnPath, CallPoints, ReadKinds, NewWriteKinds, UploadKinds
  <2>7. Advances(c, v) BY <1>5, <2>5, <2>6 DEF Moved, Advances
  <2>8. \A d \in Calls : call'[d] = IF d = c THEN v ELSE call[d]
    BY <1>1, <2>5 DEF Moved, CallsTypeOK
  <2>9. Owned' BY <1>1, <1>3, <1>4, <2>2, <2>4, <2>5, <2>8 DEF Moved, Kept, Owned
  <2>10. Watched' BY <1>1, <1>3, <1>4, <2>2, <2>3, <2>4, StillWatched DEF Kept
  <2>11. v.kind \in UploadKinds \cup {"confirm", "safe"} /\ v.kind # "confirm"
         /\ v.pc \notin {"register", "take"}
    BY <1>3, <1>5, <2>5 DEF Moved, UploadKinds
  <2>12. /\ bundle' \in [Tokens -> Snapshots] /\ timer' \in Nat \cup {None}
         /\ \A u \in Tokens : bundle'[u].cached => bundle[u].cached
         /\ \A u \in Tokens : bundle[u].st # "none" => bundle'[u].st # "none"
         /\ \A u \in Tokens : bundle[u] = NoBundle /\ u # call[c].tok => bundle'[u] = NoBundle
         /\ \A u \in Tokens : bundle[u].cancelled => bundle'[u].cancelled
         /\ \A u \in Tokens : bundle'[u].sending => bundle[u].sending \/ ~bundle[u].cancelled
    BY <1>3, <1>4, <2>2, <2>3, <2>4
  <2>13. bundle'[v.tok].st # "none" BY <1>4, <2>2, <2>4, <2>5 DEF Moved
  <2> QED BY <1>2, <2>7, <2>9, <2>10, <2>11, <2>12, <2>13, SnapshotStep
<1>7. CASE Fails(c) BY <1>1, <1>2, <1>7, FailsLeft, FailsInv
<1> QED BY <1>4, <1>5, <1>6, <1>7 DEF CopyUpload

\* What the steps of a confirmation of an upload know of it.
LEMMA Confirming ==
  ASSUME NEW c \in Calls, Sound, call[c].pc \in {"hold", "take"}
  PROVE  /\ call[c].kind = "confirm" /\ ~call[c].owns /\ OnPath(call[c])
         /\ call[c] \in CallRecords /\ call[c].tok \in Tokens
         /\ bundle \in [Tokens -> Snapshots] /\ timer \in Nat \cup {None}
<1>1. OnPath(call[c]) /\ call[c] \in CallRecords /\ bundle \in [Tokens -> Snapshots]
      /\ timer \in Nat \cup {None}
  BY DEF Sound, Paths, CallsTypeOK
<1>2. call[c].kind = "confirm"
  BY <1>1 DEF OnPath, Idle, CallRecords, CallKinds, ReadKinds, NewWriteKinds, UploadKinds
<1> QED BY <1>1, <1>2 DEF OnPath

LEMMA HoldUploadInv ==
  ASSUME NEW c \in Calls, CallsInv, HoldUpload(c)
  PROVE  CallsInv'
<1>1. Sound /\ Kept /\ CallsTypeOK BY InvSound DEF CallsInv
<1>2. call[c].pc = "hold" /\ UNCHANGED rest BY DEF HoldUpload
<1>3. /\ call[c].kind = "confirm" /\ ~call[c].owns /\ OnPath(call[c]) /\ call[c] \in CallRecords
      /\ call[c].tok \in Tokens /\ bundle \in [Tokens -> Snapshots] /\ timer \in Nat \cup {None}
  BY <1>1, <1>2, Confirming
<1>4. PICK t \in Tokens : t = call[c].tok BY <1>3
<1>5. CASE Hold(t) /\ call' = [call EXCEPT ![c].pc = "bind", ![c].pinned = TRUE]
  <2>1. PICK ps \in [Tokens -> Snapshots] :
          /\ ps = Pruned(bundle)
          /\ \A u \in Tokens : Wanes(bundle[u], ps[u])
          /\ \A u \in Tokens : ps[u].cached => ps[u].st # "none"
    BY <1>1, PrunedCache
  <2>2. PICK w : w = [ps[t] EXCEPT !.pins = @ + 1] OBVIOUS
  <2>3. /\ w \in Snapshots /\ w.st = ps[t].st /\ w.cached = ps[t].cached
        /\ w.reserved = ps[t].reserved
        /\ w.cancelled = ps[t].cancelled /\ w.sending = ps[t].sending
    BY <2>2 DEF Snapshots
  <2>4. PICK bs \in [Tokens -> Snapshots] : bs = [ps EXCEPT ![t] = w] BY <2>3
  <2>5. CacheBecomes(bs) /\ ps[t].cached /\ ~closed BY <1>5, <2>1, <2>2, <2>4 DEF Hold, Holdable
  <2>6. /\ \A u \in Tokens : bs[u] = IF u = t THEN w ELSE ps[u]
        /\ bundle[t] # NoBundle /\ ps[t].st # "none"
    BY <2>1, <2>4, <2>5 DEF Wanes, NoBundle
  <2>7. Wanes(ps[t], w) /\ \A b \in Snapshots : Wanes(b, b)
    <3>1. ps[t] # NoBundle BY <2>6 DEF NoBundle
    <3> QED BY <2>3, <3>1 DEF Wanes
  <2>8. \A u \in Tokens : Wanes(bundle[u], bs[u])
    <3>1. \A u \in Tokens : Wanes(ps[u], bs[u]) BY <2>6, <2>7
    <3> QED BY <1>3, <2>1, <3>1, WanesTrans
  <2>9. \A u \in Tokens : bs[u].cached => bs[u].st # "none" BY <2>1, <2>3, <2>6
  <2>10. /\ bundle' \in [Tokens -> Snapshots] /\ timer' \in Nat \cup {None} /\ Watched'
         /\ \A u \in Tokens : Wanes(bs[u], bundle'[u])
    BY <2>5, <2>9, CacheWatched
  <2>11. \A u \in Tokens : Wanes(bundle[u], bundle'[u]) BY <1>3, <2>8, <2>10, WanesTrans
  <2>12. PICK v : v = [call[c] EXCEPT !.pc = "bind", !.pinned = TRUE] OBVIOUS
  <2>13. /\ v \in CallRecords /\ v.pc = "bind" /\ v.kind = call[c].kind /\ v.tok = call[c].tok
         /\ v.cur = call[c].cur /\ v.owns = call[c].owns /\ v.pinned = TRUE
         /\ call' = [call EXCEPT ![c] = v]
    BY <1>3, <1>5, <2>12 DEF CallRecords, CallPoints
  <2>14. OnPath(v) BY <1>3, <2>13 DEF OnPath, CallPoints, ReadKinds, NewWriteKinds, UploadKinds
  <2>15. Advances(c, v) BY <2>13, <2>14 DEF Advances
  <2>16. \A d \in Calls : call'[d] = IF d = c THEN v ELSE call[d] BY <1>1, <2>13 DEF CallsTypeOK
  <2>17. Owned' BY <1>1, <1>3, <2>11, <2>16 DEF Kept, Owned, Wanes
  <2>18. v.kind \in UploadKinds \cup {"confirm", "safe"} /\ v.pc \notin {"register", "take", "stable", "execute"}
    BY <1>3, <2>13
  <2>19. bundle'[v.tok].st # "none" BY <1>4, <2>1, <2>6, <2>3, <2>10, <2>13 DEF Wanes
  <2> QED BY <1>2, <2>10, <2>11, <2>13, <2>15, <2>17, <2>18, <2>19, SnapshotStep DEF Wanes
<1>6. CASE Fails(c) BY <1>1, <1>2, <1>6, FailsLeft, FailsInv
<1> QED BY <1>4, <1>5, <1>6 DEF HoldUpload

LEMMA TakeUploadInv ==
  ASSUME NEW c \in Calls, CallsInv, TakeUpload(c)
  PROVE  CallsInv'
<1>1. Sound /\ Kept /\ CallsTypeOK BY InvSound DEF CallsInv
<1>2. call[c].pc = "take" /\ UNCHANGED rest BY DEF TakeUpload
<1>3. /\ call[c].kind = "confirm" /\ ~call[c].owns /\ OnPath(call[c]) /\ call[c] \in CallRecords
      /\ call[c].tok \in Tokens /\ bundle \in [Tokens -> Snapshots] /\ timer \in Nat \cup {None}
  BY <1>1, <1>2, Confirming
<1>4. PICK t \in Tokens : t = call[c].tok BY <1>3
<1>5. CASE /\ Take(t)
           /\ call' = [call EXCEPT ![c].pc = "stable", ![c].pinned = FALSE, ![c].owns = TRUE]
  <2>1. PICK ps \in [Tokens -> Snapshots] :
          /\ ps = Pruned(bundle)
          /\ \A u \in Tokens : Wanes(bundle[u], ps[u])
          /\ \A u \in Tokens : ps[u].cached => ps[u].st # "none"
    BY <1>1, PrunedCache
  <2>2. PICK w \in Snapshots : w = Uncached(ps[t]) BY ClosedBundle
  <2>3. /\ w.st = ps[t].st /\ w.cached = FALSE /\ w.reserved = ps[t].reserved
        /\ w.cancelled = ps[t].cancelled /\ w.sending = ps[t].sending
    BY <2>2, ClosedBundle
  <2>4. PICK bs \in [Tokens -> Snapshots] : bs = [ps EXCEPT ![t] = w] OBVIOUS
  <2>5. CacheBecomes(bs) /\ ps[t].cached /\ ~closed BY <1>5, <2>1, <2>2, <2>4 DEF Take, Takeable
  <2>6. /\ \A u \in Tokens : bs[u] = IF u = t THEN w ELSE ps[u]
        /\ w.st # "none"
    BY <2>1, <2>3, <2>4, <2>5
  <2>7. \A u \in Tokens : bs[u].cached => bs[u].st # "none" BY <2>1, <2>3, <2>6
  <2>8. /\ bundle' \in [Tokens -> Snapshots] /\ timer' \in Nat \cup {None} /\ Watched'
        /\ \A u \in Tokens : Wanes(bs[u], bundle'[u])
    BY <2>5, <2>7, CacheWatched
  <2>9. \A u \in Tokens : u # t => Wanes(bundle[u], bundle'[u])
    <3>1. \A u \in Tokens : u # t => Wanes(bundle[u], bs[u]) BY <2>1, <2>6
    <3> QED BY <1>3, <2>8, <3>1, WanesTrans
  <2>10. /\ ~bundle'[t].cached /\ bundle'[t].st # "none"
         /\ bundle[t].cancelled => bundle'[t].cancelled
         /\ bundle'[t].sending = bundle[t].sending
    BY <2>1, <2>3, <2>6, <2>8 DEF Wanes
  <2>11. PICK v : v = [call[c] EXCEPT !.pc = "stable", !.pinned = FALSE, !.owns = TRUE] OBVIOUS
  <2>12. /\ v \in CallRecords /\ v.pc = "stable" /\ v.kind = call[c].kind /\ v.tok = call[c].tok
         /\ v.cur = call[c].cur /\ v.owns = TRUE
         /\ call' = [call EXCEPT ![c] = v]
    BY <1>3, <1>5, <2>11 DEF CallRecords, CallPoints
  <2>13. OnPath(v) BY <1>3, <2>12 DEF OnPath, CallPoints, ReadKinds, NewWriteKinds, UploadKinds
  <2>14. Advances(c, v) BY <2>12, <2>13 DEF Advances
  <2>15. \A d \in Calls : call'[d] = IF d = c THEN v ELSE call[d] BY <1>1, <2>12 DEF CallsTypeOK
  <2>16. Owned'
    <3>1. ASSUME NEW u \in Tokens, u # t, bundle'[u].reserved, ~bundle'[u].cached
          PROVE  \E d \in Calls : call'[d].owns /\ call'[d].tok = u
      <4>1. bundle[u].reserved /\ ~bundle[u].cached BY <2>9, <3>1 DEF Wanes
      <4>2. PICK d \in Calls : call[d].owns /\ call[d].tok = u BY <1>1, <4>1 DEF Kept, Owned
      <4> QED BY <1>3, <2>15, <4>2
    <3>2. call'[c].owns /\ call'[c].tok = t BY <1>4, <2>12, <2>15
    <3> QED BY <3>1, <3>2 DEF Owned
  <2>17. v.kind \in UploadKinds \cup {"confirm", "safe"} /\ v.pc \notin {"register", "take", "execute"}
         /\ Spending(c)
    BY <1>2, <1>3, <2>12 DEF Spending
  <2>18. /\ \A u \in Tokens : bundle'[u].cached => bundle[u].cached
         /\ \A u \in Tokens : bundle[u].st # "none" => bundle'[u].st # "none"
         /\ \A u \in Tokens : bundle[u] = NoBundle /\ u # call[c].tok => bundle'[u] = NoBundle
         /\ \A u \in Tokens : bundle[u].cancelled => bundle'[u].cancelled
         /\ \A u \in Tokens : bundle'[u].sending => bundle[u].sending \/ ~bundle[u].cancelled
    BY <1>4, <2>9, <2>10 DEF Wanes
  <2>19. bundle'[v.tok].st # "none" BY <1>4, <2>10, <2>12
  <2> QED BY <1>2, <2>8, <2>12, <2>14, <2>16, <2>17, <2>18, <2>19, SnapshotStep
<1>6. CASE Fails(c) BY <1>1, <1>2, <1>6, FailsLeft, FailsInv
<1> QED BY <1>4, <1>5, <1>6 DEF TakeUpload

LEMMA SendInv ==
  ASSUME NEW c \in Calls, CallsInv, Send(c)
  PROVE  CallsInv'
<1>1. Sound /\ Kept /\ CallsTypeOK BY InvSound DEF CallsInv
<1>2. /\ call[c].pc = "send" /\ UNCHANGED rest /\ OnPath(call[c]) /\ call[c] \in CallRecords
      /\ HasSnapshot(c) /\ bundle \in [Tokens -> Snapshots] /\ timer \in Nat \cup {None}
  BY <1>1 DEF Send, Sound, Paths, CallsTypeOK
<1>3. call[c].kind \in {"safe", "safeUpload", "confirm"} /\ call[c].tok \in Tokens
  BY <1>2 DEF OnPath, Idle, CallRecords, CallKinds, ReadKinds, NewWriteKinds, UploadKinds
<1>4. PICK t \in Tokens : t = call[c].tok BY <1>3
<1>5. ASSUME NEW b \in BOOLEAN, bundle' = [bundle EXCEPT ![t].sending = b], timer' = timer,
             b => bundle[t].sending \/ ~bundle[t].cancelled, call' = call
      PROVE  CallsInv'
  <2>1. PICK w : w = [bundle[t] EXCEPT !.sending = b] OBVIOUS
  <2>2. /\ w \in Snapshots /\ w.st = bundle[t].st /\ w.cached = bundle[t].cached
        /\ w.reserved = bundle[t].reserved /\ w.exp = bundle[t].exp /\ w.pins = bundle[t].pins
        /\ w.cancelled = bundle[t].cancelled /\ w.sending = b
    BY <1>2, <2>1 DEF Snapshots
  <2>3. bundle' = [bundle EXCEPT ![t] = w] BY <1>2, <1>5, <2>1
  <2>4. \A u \in Tokens : bundle'[u] = IF u = t THEN w ELSE bundle[u] BY <1>2, <2>3
  <2>5. PICK v \in CallRecords : v = call[c] BY <1>2
  <2>6. call' = [call EXCEPT ![c] = v] BY <1>1, <1>5, <2>5 DEF CallsTypeOK
  <2>7. Advances(c, v) BY <1>2, <2>5, <2>6 DEF Advances
  <2>8. Owned' BY <1>1, <1>5, <2>2, <2>4 DEF Kept, Owned
  <2>9. Watched'
    <3>1. Watchable(bundle') = Watchable(bundle) /\ \A u \in Tokens : bundle'[u].exp = bundle[u].exp
      BY <2>2, <2>4 DEF Watchable
    <3> QED BY <1>1, <1>5, <3>1 DEF Kept, Watched, Watchable
  <2>10. v.kind \in UploadKinds \cup {"confirm", "safe"} /\ v.pc \notin {"register", "take", "stable", "execute"}
    BY <1>2, <1>3, <2>5 DEF UploadKinds
  <2>11. /\ bundle' \in [Tokens -> Snapshots] /\ timer' \in Nat \cup {None}
         /\ \A u \in Tokens : bundle'[u].cached => bundle[u].cached
         /\ \A u \in Tokens : bundle[u].st # "none" => bundle'[u].st # "none"
         /\ \A u \in Tokens : bundle[u] = NoBundle /\ u # call[c].tok => bundle'[u] = NoBundle
         /\ \A u \in Tokens : bundle[u].cancelled => bundle'[u].cancelled
         /\ \A u \in Tokens : bundle'[u].sending => bundle[u].sending \/ ~bundle[u].cancelled
    BY <1>2, <1>4, <1>5, <2>2, <2>3, <2>4
  <2>12. v.owns \/ v.pinned => bundle'[v.tok].st # "none"
    BY <1>2, <1>4, <2>2, <2>4, <2>5 DEF HasSnapshot
  <2> QED BY <1>2, <2>7, <2>8, <2>9, <2>10, <2>11, <2>12, SnapshotStep
<1>6. CASE Deliver(t) /\ UNCHANGED call BY <1>5, <1>6 DEF Deliver
<1>7. CASE Delivered(t) /\ UNCHANGED call BY <1>5, <1>7 DEF Delivered
<1>8. CASE Fails(c) BY <1>1, <1>2, <1>8, FailsLeft, FailsInv
<1>9. CASE Goes(c, "return") /\ UNCHANGED <<bundle, timer>>
  <2>1. "return" \in CallPoints /\ OnPath([call[c] EXCEPT !.pc = "return"])
    BY <1>2, <1>3 DEF CallRecords, OnPath, CallPoints, ReadKinds, NewWriteKinds, UploadKinds
  <2> QED BY <1>2, <1>3, <1>9, <2>1, GoesInv DEF ReadKinds
<1> QED BY <1>4, <1>6, <1>7, <1>8, <1>9 DEF Send

\* A preview ends with a confirmation under its own token.
LEMMA IssuedInv ==
  ASSUME NEW c \in Calls, CallsInv, call[c].kind \in NewWriteKinds,
         NEW r \in Confirmations, confirmations' = [confirmations EXCEPT ![call[c].tok] = r],
         call' = [call EXCEPT ![c] = Idle],
         UNCHANGED <<outside, conn, cred, target, nonces, cursors, executed, served>>,
         bundle' \in [Tokens -> Snapshots], timer' \in Nat \cup {None}, Kept',
         \A t \in Tokens : bundle'[t].cached => t = call[c].tok \/ bundle[t].cached,
         \A t \in Tokens : bundle'[t].cached => bundle'[t].st # "none",
         \A t \in Tokens : bundle[t].st # "none" => bundle'[t].st # "none",
         \A t \in Tokens : bundle[t] = NoBundle /\ t # call[c].tok => bundle'[t] = NoBundle
  PROVE  CallsInv'
<1>1. Sound /\ Once /\ Kept /\ Pages BY InvSound DEF CallsInv
<1>2. /\ Idle \in CallRecords /\ Idle.kind = "none" BY IdleOnPath DEF Idle
<1>3. call[c].tok \in Tokens /\ confirmations[call[c].tok] = None
      /\ confirmations \in [Tokens -> Confirmations \cup {None}]
  BY <1>1 DEF Sound, Paths, OnPath, OwnToken, CallsTypeOK
<1>4. /\ \A t \in Tokens : confirmations[t] # None => confirmations'[t] = confirmations[t]
      /\ \A t \in Tokens : t # call[c].tok => confirmations'[t] = confirmations[t]
      /\ confirmations'[call[c].tok] # None
      /\ confirmations' \in [Tokens -> Confirmations \cup {None}]
  BY <1>3, CallsConstants
<1>5. CallsTypeOK' BY <1>1, <1>2, <1>4 DEF Sound, CallsTypeOK, outside
<1>6. \A t \in Tokens : bundle'[t].cached => confirmations'[t] # None
  BY <1>1, <1>4 DEF Sound, Paths, CachedIsIssued
<1>7. Paths' BY <1>1, <1>4, <1>6, LeavePaths
<1>8. Once' BY <1>1, <1>2, <1>4, OnceKept DEF outside, LiveSpent
<1>9. Pages' BY <1>1, <1>2, PagesKept
<1> QED BY <1>5, <1>7, <1>8, <1>9 DEF CallsInv

LEMMA IssueInv ==
  ASSUME NEW c \in Calls, CallsInv, Issue(c)
  PROVE  CallsInv'
<1>1. Sound /\ Kept /\ CallsTypeOK BY InvSound DEF CallsInv
<1>2. /\ call[c].pc = "issue" /\ OnPath(call[c]) /\ call[c] \in CallRecords
      /\ UNCHANGED <<outside, conn, cred, target, nonces, cursors, executed, served, edits, tools>>
      /\ bundle \in [Tokens -> Snapshots]
  BY <1>1 DEF Issue, Sound, Paths, CallsTypeOK
<1>3. call[c].kind \in {"preview", "previewUpload"} /\ call[c].kind \in NewWriteKinds
      /\ call[c].tok \in Tokens
  BY <1>2 DEF OnPath, Idle, CallRecords, CallKinds, ReadKinds, NewWriteKinds, UploadKinds
<1>4. PICK t \in Tokens : t = call[c].tok BY <1>3
<1>5. PICK r : r = [ver |-> call[c].ver, cred |-> call[c].cred, tgt |-> call[c].tgt,
                    iss |-> clock, exp |-> clock + TTL, upload |-> call[c].kind = "previewUpload"]
  OBVIOUS
<1>6. r \in Confirmations
  <2>1. call[c].ver \in Nat /\ call[c].cred \in Nat /\ call[c].tgt \in Nat /\ clock \in Nat
        /\ clock + TTL \in Nat
    BY <1>1, <1>2, CallsConstants DEF CallRecords, CallsTypeOK
  <2> QED BY <1>5, <2>1 DEF Confirmations
<1>7. CASE confirmations' = [confirmations EXCEPT ![t] = r] /\ Fails(c)
  <2>1. Left(c) BY <1>1, <1>7, FailsLeft
  <2>2. Kept'
    <3>1. call' = [call EXCEPT ![c] = Idle] BY <2>1 DEF Left
    <3> QED BY <1>1, <1>2, <2>1, <3>1, KeptByWaning DEF Left
  <2>3. \A u \in Tokens : bundle'[u].cached => bundle'[u].st # "none"
    BY <1>1, <2>1 DEF Left, Wanes, Sound, Paths, CachedIsIssued
  <2> QED BY <1>2, <1>3, <1>4, <1>6, <1>7, <2>1, <2>2, <2>3, IssuedInv DEF Left, Wanes
<1>8. CASE confirmations' = [confirmations EXCEPT ![t] = r] /\ Put(t) /\ call' = [call EXCEPT ![c] = Idle]
  <2>1. PICK ps \in [Tokens -> Snapshots] :
          /\ ps = Pruned(bundle)
          /\ \A u \in Tokens : Wanes(bundle[u], ps[u])
          /\ \A u \in Tokens : ps[u].cached => ps[u].st # "none"
    BY <1>1, PrunedCache
  <2>2. PICK w : w = [ps[t] EXCEPT !.cached = TRUE, !.exp = clock + TTL] OBVIOUS
  <2>3. bundle[t].st = "open" /\ ~closed BY <1>8 DEF Put, Puttable
  <2>4. ps[t].st # "none" /\ bundle[t] # NoBundle BY <2>1, <2>3 DEF Wanes, NoBundle
  <2>5. /\ w \in Snapshots /\ w.st = ps[t].st
        /\ w.cancelled = ps[t].cancelled /\ w.sending = ps[t].sending
    <3>1. clock + TTL \in Nat BY <1>1, CallsConstants DEF CallsTypeOK
    <3> QED BY <2>2, <3>1 DEF Snapshots
  <2>6. PICK bs \in [Tokens -> Snapshots] : bs = [ps EXCEPT ![t] = w] BY <2>5
  <2>7. CacheBecomes(bs) BY <1>8, <2>1, <2>2, <2>6 DEF Put
  <2>8. \A u \in Tokens : bs[u] = IF u = t THEN w ELSE ps[u] BY <2>6
  <2>9. \A u \in Tokens : bs[u].cached => bs[u].st # "none" BY <2>1, <2>4, <2>5, <2>8
  <2>10. /\ bundle' \in [Tokens -> Snapshots] /\ timer' \in Nat \cup {None} /\ Watched'
         /\ \A u \in Tokens : Wanes(bs[u], bundle'[u])
    BY <2>3, <2>7, <2>9, CacheWatched
  <2>11. \A u \in Tokens : u # t => Wanes(bundle[u], bundle'[u])
    <3>1. \A u \in Tokens : u # t => Wanes(bundle[u], bs[u]) BY <2>1, <2>8
    <3> QED BY <1>2, <2>10, <3>1, WanesTrans
  <2>12. /\ bundle'[t].st # "none"
         /\ bundle[t].cancelled => bundle'[t].cancelled
         /\ bundle'[t].sending = bundle[t].sending
         /\ ~bundle'[t].cached => ~bundle'[t].reserved
    <3>1. bs[t] = w /\ w.cached = TRUE BY <2>2, <2>8 DEF Snapshots
    <3> QED BY <2>1, <2>4, <2>5, <2>10, <3>1 DEF Wanes
  <2>13. \A d \in Calls : d # c => call'[d] = call[d] BY <1>1, <1>8 DEF CallsTypeOK
  <2>14. Owned'
    <3>1. ASSUME NEW u \in Tokens, bundle'[u].reserved, ~bundle'[u].cached
          PROVE  \E d \in Calls : call'[d].owns /\ call'[d].tok = u
      <4>1. u # t BY <2>12, <3>1
      <4>2. bundle[u].reserved /\ ~bundle[u].cached BY <2>11, <3>1, <4>1 DEF Wanes
      <4>3. PICK d \in Calls : call[d].owns /\ call[d].tok = u BY <1>1, <4>2 DEF Kept, Owned
      <4>4. d # c BY <1>4, <4>1, <4>3
      <4> QED BY <2>13, <4>3, <4>4
    <3> QED BY <3>1 DEF Owned
  <2>15. Kept' BY <1>1, <1>2, <2>3, <2>10, <2>11, <2>12, <2>14, KeptByBundle DEF Wanes
  <2>16. /\ \A u \in Tokens : bundle'[u].cached => u = call[c].tok \/ bundle[u].cached
         /\ \A u \in Tokens : bundle'[u].cached => bundle'[u].st # "none"
         /\ \A u \in Tokens : bundle[u].st # "none" => bundle'[u].st # "none"
         /\ \A u \in Tokens : bundle[u] = NoBundle /\ u # call[c].tok => bundle'[u] = NoBundle
    BY <1>1, <1>4, <2>11, <2>12 DEF Wanes, Sound, Paths, CachedIsIssued
  <2> QED BY <1>2, <1>3, <1>4, <1>6, <1>8, <2>10, <2>15, <2>16, IssuedInv
<1>9. CASE Fails(c) /\ UNCHANGED confirmations
  <2>1. UNCHANGED rest BY <1>2, <1>9 DEF rest
  <2> QED BY <1>1, <1>9, <2>1, FailsLeft, FailsInv
<1> QED BY <1>4, <1>5, <1>7, <1>8, <1>9 DEF Issue

----------------------------------------
(* Grants, revokes, expiry, and the world around the calls *)

\* The custody changes while no call moves: snapshots are only given up.
LEMMA CustodyStep ==
  ASSUME CallsInv, UNCHANGED callvars, Kept',
         bundle' \in [Tokens -> Snapshots], timer' \in Nat \cup {None}, clock' = clock,
         closed' \in BOOLEAN, granted' \subseteq Grants,
         \A t \in Tokens : Wanes(bundle[t], bundle'[t])
  PROVE  CallsInv'
<1>1. Sound /\ Once /\ Pages BY InvSound DEF CallsInv
<1>2. /\ conn' = conn /\ cred' = cred /\ target' = target /\ confirmations' = confirmations
      /\ nonces' = nonces /\ cursors' = cursors /\ call' = call /\ executed' = executed
      /\ served' = served
  BY DEF callvars
<1>3. CallsTypeOK' BY <1>1, <1>2 DEF Sound, CallsTypeOK
<1>4. Paths'
  <2>1. \A c \in Calls : call[c].kind \in NewWriteKinds \cup {"confirm"} => call[c].tok \in Tokens
    BY <1>1 DEF Sound, Paths, OnPath
  <2>2. \A c \in Calls : call[c].owns \/ call[c].pinned => call[c].tok \in Tokens
    BY <1>1 DEF Sound, Paths, OnPath, NewWriteKinds
  <2>3. \A c \in Calls : OnPath(call[c])' BY <1>1, <1>2 DEF Sound, Paths
  <2>4. \A c \in Calls : OwnToken(c)' BY <1>1, <1>2, <2>1 DEF Sound, Paths, OwnToken, Wanes
  <2>5. \A c \in Calls : Presents(c)' BY <1>1, <1>2 DEF Sound, Paths, Presents
  <2>6. \A c \in Calls : HasSnapshot(c)'
    BY <1>1, <1>2, <2>2 DEF Sound, Paths, HasSnapshot, Wanes
  <2>7. CachedIsIssued' BY <1>1, <1>2 DEF Sound, Paths, CachedIsIssued, Wanes
  <2> QED BY <2>3, <2>4, <2>5, <2>6, <2>7 DEF Paths
<1>5. Once' BY <1>1, <1>2 DEF Once, Spending, SpentForGood
<1>6. Pages' BY <1>1, <1>2 DEF Pages, CursorMatches, PagesOfOneConnection
<1> QED BY <1>3, <1>4, <1>5, <1>6 DEF CallsInv

LEMMA CustodyInv ==
  ASSUME CallsInv, CustodyNext, UNCHANGED callvars
  PROVE  CallsInv'
<1>1. Sound /\ Kept /\ CallsTypeOK BY InvSound DEF CallsInv
<1>2. /\ bundle \in [Tokens -> Snapshots] /\ timer \in Nat \cup {None} /\ closed \in BOOLEAN
      /\ granted \subseteq Grants
      /\ \A t \in Tokens : bundle[t].cached => bundle[t].st # "none"
      /\ call' = call
  BY <1>1 DEF CallsTypeOK, Sound, Paths, CachedIsIssued, callvars
<1>3. \A b \in Snapshots : Wanes(b, b) BY DEF Wanes
<1>4. \A t \in Tokens : Wanes(bundle[t], bundle[t]) BY <1>2, <1>3
<1>5. ASSUME \A t \in Tokens : Wanes(bundle[t], bundle'[t])
      PROVE  Owned'
  BY <1>1, <1>2, <1>5 DEF Kept, Owned, Wanes
<1>6. ASSUME NEW g \in Grants, CreateGrant(g) \/ RevokeElsewhere(g)
      PROVE  CallsInv'
  <2>1. /\ UNCHANGED <<clock, bundle, timer, revoking, stopped, closed>>
        /\ granted' \subseteq Grants
    BY <1>2, <1>6 DEF CreateGrant, RevokeElsewhere
  <2>2. Kept'
    BY <1>1, <1>2, <2>1 DEF Kept, Owned, ClosedEmpty, Watched, Watchable, Cancelled, StoppedKnown
  <2> QED BY <1>2, <1>4, <2>1, <2>2, CustodyStep
<1>7. ASSUME NEW g \in Grants, Revoke(g)
      PROVE  CallsInv'
  <2>1. /\ UNCHANGED <<clock, timer, stopped, closed>> /\ granted' \subseteq Grants
        /\ revoking' = Uses(g) /\ Uses(g) \subseteq Tokens
        /\ bundle' = [t \in Tokens |-> IF t \in Uses(g) THEN BundleClosed(bundle[t]) ELSE bundle[t]]
    BY <1>2, <1>7 DEF Revoke, Uses
  <2>2. \A t \in Uses(g) : bundle[t].st # "none" BY DEF Uses
  <2>3. ASSUME NEW t \in Tokens
        PROVE  /\ bundle'[t] \in Snapshots /\ Wanes(bundle[t], bundle'[t])
               /\ bundle'[t] = bundle[t] \/ bundle'[t].st = "closed"
               /\ t \in Uses(g) => bundle'[t].cancelled
    <3>1. CASE t \in Uses(g)
      <4>1. bundle'[t] = BundleClosed(bundle[t]) /\ bundle[t] \in Snapshots BY <1>2, <2>1, <3>1
      <4>2. bundle[t].st # "none" BY <2>2, <3>1
      <4>3. Wanes(bundle[t], BundleClosed(bundle[t])) BY <4>1, <4>2, ClosedWanes
      <4>4. /\ BundleClosed(bundle[t]) \in Snapshots
            /\ BundleClosed(bundle[t]).st = "closed" /\ BundleClosed(bundle[t]).cancelled = TRUE
        BY <4>1, ClosedBundle
      <4> QED BY <4>1, <4>3, <4>4
    <3>2. CASE t \notin Uses(g) BY <1>2, <1>4, <2>1, <3>2
    <3> QED BY <3>1, <3>2
  <2>4. bundle' \in [Tokens -> Snapshots] BY <2>1, <2>3
  <2>5. Owned' BY <1>5, <2>3
  <2>6. Watched' BY <1>1, <2>1, <2>3, StillWatched DEF Kept
  <2>7. ClosedEmpty' /\ StoppedKnown'
    BY <1>1, <2>1, <2>3 DEF Kept, ClosedEmpty, StoppedKnown, Wanes
  <2>8. Cancelled' BY <1>1, <2>1, <2>3 DEF Kept, Cancelled, Wanes
  <2>9. Kept' BY <2>5, <2>6, <2>7, <2>8 DEF Kept
  <2> QED BY <1>2, <2>1, <2>3, <2>4, <2>9, CustodyStep
<1>8. CASE RevokeReturns
  <2>1. /\ UNCHANGED <<clock, bundle, timer, granted, closed>> /\ revoking' = None
        /\ stopped' = stopped \cup revoking /\ revoking # None
        /\ \A t \in revoking : ~bundle[t].sending
    BY <1>8 DEF RevokeReturns, Quiescent
  <2>2. Kept'
    BY <1>1, <1>2, <2>1 DEF Kept, Owned, ClosedEmpty, Watched, Watchable, Cancelled, StoppedKnown
  <2> QED BY <1>2, <1>4, <2>1, <2>2, CustodyStep
<1>9. CASE RevokeTimesOut
  <2>1. UNCHANGED <<clock, bundle, timer, granted, stopped, closed>> /\ revoking' = None
    BY <1>9 DEF RevokeTimesOut
  <2>2. Kept'
    BY <1>1, <1>2, <2>1 DEF Kept, Owned, ClosedEmpty, Watched, Watchable, Cancelled, StoppedKnown
  <2> QED BY <1>2, <1>4, <2>1, <2>2, CustodyStep
<1>10. CASE Expire
  <2>1. UNCHANGED outside /\ CacheBecomes(bundle) BY <1>10 DEF Expire, outside
  <2>2. closed => \A t \in Tokens : ~bundle[t].cached BY <1>1 DEF Kept, ClosedEmpty
  <2>3. /\ bundle' \in [Tokens -> Snapshots] /\ timer' \in Nat \cup {None} /\ Watched'
        /\ \A t \in Tokens : Wanes(bundle[t], bundle'[t])
    BY <1>2, <2>1, <2>2, CacheWatched
  <2>4. Owned' BY <1>5, <2>3
  <2>5. Kept' BY <1>1, <2>1, <2>3, <2>4, KeptByBundle DEF Wanes
  <2> QED BY <1>2, <2>1, <2>3, <2>5, CustodyStep DEF outside
<1>11. CASE Close
  <2>1. /\ UNCHANGED <<clock, granted, revoked, revoking, stopped>>
        /\ closed' = TRUE /\ timer' = None
        /\ bundle' = [t \in Tokens |-> IF bundle[t].cached THEN Uncached(BundleClosed(bundle[t]))
                                                           ELSE bundle[t]]
    BY <1>11 DEF Close
  <2>2. ASSUME NEW t \in Tokens
        PROVE  /\ bundle'[t] \in Snapshots /\ Wanes(bundle[t], bundle'[t])
               /\ ~bundle'[t].cached
    <3>1. CASE bundle[t].cached
      <4>1. bundle'[t] = Uncached(BundleClosed(bundle[t])) /\ bundle[t] \in Snapshots
            /\ bundle[t].st # "none" /\ BundleClosed(bundle[t]) \in Snapshots
        BY <1>2, <2>1, <3>1, ClosedBundle
      <4>2. Uncached(BundleClosed(bundle[t])).cached = FALSE
            /\ Uncached(BundleClosed(bundle[t])) \in Snapshots
        BY <4>1, ClosedBundle
      <4>3. Wanes(bundle[t], Uncached(BundleClosed(bundle[t]))) BY <4>1, ClosedWanes
      <4> QED BY <4>1, <4>2, <4>3
    <3>2. CASE ~bundle[t].cached BY <1>2, <1>4, <2>1, <3>2
    <3> QED BY <3>1, <3>2
  <2>3. bundle' \in [Tokens -> Snapshots] BY <2>1, <2>2
  <2>4. Owned' BY <1>5, <2>2
  <2>5. Watched' /\ ClosedEmpty' BY <2>2 DEF Watched, Watchable, ClosedEmpty
  <2>6. StoppedKnown' /\ Cancelled' BY <1>1, <2>1, <2>2 DEF Kept, StoppedKnown, Cancelled, Wanes
  <2>7. Kept' BY <2>4, <2>5, <2>6 DEF Kept
  <2> QED BY <1>2, <2>1, <2>2, <2>3, <2>7, CustodyStep
<1> QED BY <1>6, <1>7, <1>8, <1>9, <1>10, <1>11 DEF CustodyNext

\* Others change the connection, the credential or the target, or time passes.
LEMMA WorldInv ==
  ASSUME CallsInv, ConnectionChanges \/ CredentialChanges \/ TargetMoves \/ Tick
  PROVE  CallsInv'
<1>1. CallsTypeOK /\ Paths /\ Once /\ Kept /\ Pages BY DEF CallsInv
<1>2. UNCHANGED <<bundle, timer, granted, revoked, revoking, stopped, closed, confirmations, nonces,
                  cursors, call, executed, served>>
  BY DEF ConnectionChanges, CredentialChanges, TargetMoves, Tick, custodyvars, callvars
<1>3. conn' \in [rev : Nat, ver : Nat, full : BOOLEAN, ready : BOOLEAN]
  <2>1. conn.rev + 1 \in Nat /\ conn.ver + 1 \in Nat BY <1>1 DEF CallsTypeOK
  <2>2. \/ conn' = conn \/ conn' = [conn EXCEPT !.rev = @ + 1]
        \/ \E f, r \in BOOLEAN :
             conn' = [rev |-> conn.rev + 1, ver |-> conn.ver + 1, full |-> f, ready |-> r]
    BY DEF ConnectionChanges, CredentialChanges, TargetMoves, Tick, callvars
  <2> QED BY <1>1, <2>1, <2>2 DEF CallsTypeOK
<1>4. cred' \in Nat /\ target' \in Nat
  BY <1>1 DEF ConnectionChanges, CredentialChanges, TargetMoves, Tick, callvars, CallsTypeOK
<1>5. clock' = clock \/ clock' = clock + 1
  BY DEF ConnectionChanges, CredentialChanges, TargetMoves, Tick, custodyvars
<1>6. clock' \in Nat /\ \A n \in Nat : clock >= n => clock' >= n BY <1>1, <1>5 DEF CallsTypeOK
<1>7. CallsTypeOK' BY <1>1, <1>2, <1>3, <1>4, <1>6 DEF CallsTypeOK
<1>8. Paths' BY <1>1, <1>2 DEF Paths, OwnToken, Presents, HasSnapshot, CachedIsIssued
<1>9. Once'
  <2>1. \A t \in Tokens : confirmations[t] # None => confirmations[t].exp \in Nat
    BY <1>1 DEF CallsTypeOK, Confirmations
  <2>2. \A t \in Tokens : SpentForGood(t) => SpentForGood(t)'
    BY <1>2, <1>6, <2>1 DEF SpentForGood
  <2>3. \A c \in Calls : Spending(c) => call[c].tok \in Tokens
    BY <1>1 DEF Spending, Paths, OnPath
  <2>4. \A c \in Calls : Spending(c)' = Spending(c) BY <1>2 DEF Spending
  <2>5. \A c \in Calls : Spending(c) => SpentForGood(call[c].tok)'
    BY <1>1, <1>2, <2>2, <2>3 DEF Once, SpentForGood
  <2> QED BY <1>1, <1>2, <2>2, <2>4, <2>5 DEF Once
<1>10. Kept'
  BY <1>1, <1>2 DEF Kept, Owned, ClosedEmpty, Watched, Watchable, Cancelled, StoppedKnown
<1>11. Pages' BY <1>1, <1>2 DEF Pages, CursorMatches, PagesOfOneConnection
<1> QED BY <1>7, <1>8, <1>9, <1>10, <1>11 DEF CallsInv

----------------------------------------
(* The theorems *)

LEMMA InvInit == CallsInit => CallsInv
<1> SUFFICES ASSUME CallsInit PROVE CallsInv
  OBVIOUS
<1>1. /\ clock = 0 /\ closed = FALSE /\ timer = None /\ granted = {} /\ stopped = {}
      /\ revoking = None /\ bundle = [t \in Tokens |-> NoBundle]
      /\ conn = [rev |-> 0, ver |-> 0, full |-> TRUE, ready |-> TRUE]
      /\ cred = 0 /\ target = 0 /\ confirmations = [t \in Tokens |-> None]
      /\ nonces = {} /\ cursors = {} /\ call = [c \in Calls |-> Idle]
      /\ executed = [t \in Tokens |-> 0] /\ served = None
  BY DEF CallsInit, CustodyInit
<1>2. NoBundle \in Snapshots /\ NoBundle.cached = FALSE /\ NoBundle.reserved = FALSE
  <2>1. 0 \in Nat /\ 0 \in Int OBVIOUS
  <2> QED BY <2>1 DEF NoBundle, Snapshots
<1>3. /\ Idle.kind = "none" /\ Idle.owns = FALSE /\ Idle.pinned = FALSE
      /\ "none" \notin NewWriteKinds
  BY DEF Idle, NewWriteKinds, UploadKinds
<1>4. CallsTypeOK BY <1>1, <1>2, IdleOnPath DEF CallsTypeOK
<1>5. Paths
  BY <1>1, <1>2, <1>3, IdleOnPath DEF Paths, OwnToken, Presents, HasSnapshot, CachedIsIssued
<1>6. Once BY <1>1, <1>3 DEF Once, Spending
<1>7. Kept
  BY <1>1, <1>2 DEF Kept, Owned, ClosedEmpty, Watched, Watchable, Cancelled, StoppedKnown
<1>8. Pages BY <1>1, <1>3 DEF Pages, PagesOfOneConnection
<1> QED BY <1>4, <1>5, <1>6, <1>7, <1>8 DEF CallsInv

LEMMA InvStep == CallsInv /\ [CallsNext]_sessionvars => CallsInv'
<1> SUFFICES ASSUME CallsInv, [CallsNext]_sessionvars PROVE CallsInv'
  OBVIOUS
<1>1. ASSUME NEW c \in Calls, Step(c) PROVE CallsInv'
  BY <1>1, BeginInv, ResolveCredentialInv, OpenCursorInv, ReturnReadInv, RegisterUploadInv,
     ReserveUploadInv, CopyUploadInv, ResolveTargetInv, IssueInv, HoldUploadInv, BindUploadInv,
     ConsumeInv, TakeUploadInv, TargetStableInv, ExecuteInv, SendInv, ReturnWriteInv,
     ProviderFailsInv DEF Step
<1>2. CASE CustodyNext /\ UNCHANGED callvars BY <1>2, CustodyInv
<1>3. CASE ConnectionChanges \/ CredentialChanges \/ TargetMoves \/ Tick BY <1>3, WorldInv
<1>4. CASE UNCHANGED sessionvars
  <2>1. /\ UNCHANGED <<bundle, timer, clock, granted, revoked, revoking, stopped, closed>>
        /\ UNCHANGED <<conn, cred, target, confirmations, nonces, cursors, call, executed, served>>
    BY <1>4 DEF sessionvars, custodyvars, callvars
  <2> QED
    BY <2>1 DEF CallsInv, CallsTypeOK, Paths, OwnToken, Presents, HasSnapshot, CachedIsIssued,
                Once, Spending, SpentForGood, Kept, Owned, ClosedEmpty, Watched, Watchable,
                Cancelled, StoppedKnown, Pages, CursorMatches, PagesOfOneConnection
<1> QED BY <1>1, <1>2, <1>3, <1>4 DEF CallsNext

\* The inductive invariant holds in every behaviour of the calls of a runtime.
THEOREM CallsInvariant == CallsSpec => []CallsInv
<1> QED BY InvInit, InvStep, PTL DEF CallsSpec

\* A confirmation is good for one execution, however many calls present it at the same
\* time and whatever fails once its nonce is spent (consume_confirmation, _prune_state).
THEOREM ConfirmedOnce == CallsSpec => []OnceConfirmed
<1>1. CallsInv => OnceConfirmed BY DEF CallsInv, Once, OnceConfirmed
<1> QED BY <1>1, CallsInvariant, PTL

\* What calls leave behind stays in custody: bytes are owned or cached, the cache is watched
\* by a timer, a revoke that returned has stopped its files, and the pages of a read are of
\* one connection (_call_tool, PreparedUploadCache, revoke, open_cursor).
THEOREM CustodyIsKept == CallsSpec => []CustodyKept
<1>1. CallsInv => CustodyKept
  <2> SUFFICES ASSUME CallsInv PROVE CustodyKept
    OBVIOUS
  <2>1. SnapshotsOwned BY DEF CallsInv, Kept, Owned, SnapshotsOwned
  <2>2. Watched /\ PagesOfOneConnection BY DEF CallsInv, Kept, Pages
  <2>3. RevokeStops BY DEF CallsInv, Kept, Cancelled, StoppedKnown, RevokeStops
  <2> QED BY <2>1, <2>2, <2>3 DEF CustodyKept
<1> QED BY <1>1, CallsInvariant, PTL

----------------------------------------
(* ProviderUploads: the inductive invariant *)

UploadStates == [proto : Protocols \cup {"none"},
            pc : {"idle", "initiate", "put", "probe", "complete", "reconcile", "end"},
            size : Nat, offset : Nat, attempts : Nat, stalls : Nat, restarts : Nat,
            unresolved : BOOLEAN, outcome : {"none", "done", "failed", "unknown"}]

SessionStates == [st : {"none", "open", "final", "gone"}, got : Nat]

UploadTyped == up \in UploadStates /\ session \in SessionStates

\* What the session has shows what was created; a session that is gone may have completed.
CreatedBySession ==
  /\ made \in {0, 1}
  /\ session.st = "final" => made = 1
  /\ session.st \in {"none", "open"} => made = 0

\* The provider cannot complete the session by itself.
Incomplete == session.st = "open" => session.got < up.size \/ up.size = 0

\* A request that may create something is only sent while nothing was created, and an
\* upload starts again only then.
UploadPaths ==
  /\ up.pc = "idle" => session.st = "none"
  /\ up.pc \in {"idle", "initiate"} => session.st \in {"none", "gone"} /\ made = 0
  /\ up.pc = "put" => session.st \in {"open", "gone"} /\ made = 0
  /\ up.pc = "put" /\ up.proto \in Drive => Incomplete
  /\ up.pc = "probe" => up.proto \in Drive
  /\ up.pc \in {"complete", "reconcile"} => up.proto = "slack"
  /\ up.pc = "complete" => made = 0
  /\ up.pc # "end" => up.outcome = "none"

\* What was reported stays true: nothing is completed after a failure that Drive reported.
UploadReports ==
  /\ up.outcome = "done" => made = 1
  /\ up.outcome = "failed" /\ up.proto \in Drive => made = 0 /\ Incomplete

UploadInv == UploadTyped /\ CreatedBySession /\ UploadPaths /\ UploadReports

----------------------------------------
(* GuardedWrites: the inductive invariant *)

WriteStates == [pc : {"idle", "classify", "confirm", "execute", "send"}, ch : Changes \cup {NoChange},
           seen : Items, effect : {"none", "safe", "outward", "destructive"},
           key : BOOLEAN, read : Items]

\* A version says what the item is.
Versioned ==
  write.pc # "idle" =>
    /\ write.ch \in Changes
    /\ write.seen.ver <= item.ver
    /\ write.seen.ver = item.ver => write.seen = item

\* What is sent was judged on what was read last, which for the calendars is what was seen.
Judged ==
  write.pc = "send" =>
    /\ write.ch.kind \in {"gevent", "entry", "oevent"} => write.read = write.seen
    /\ Effect(write.ch, write.read) = "safe" \/ write.key

WriteInv == item \in Items /\ write \in WriteStates /\ Versioned /\ Judged /\ OnlyAsReviewed

\* Whatever the other parts of the specification are doing.
SentInv == UploadInv /\ WriteInv

----------------------------------------
(* ProviderUploads: the steps *)

LEMMA UploadFields ==
  ASSUME UploadTyped
  PROVE  /\ up.proto \in Protocols \cup {"none"} /\ up.size \in Nat /\ up.offset \in Nat
         /\ up.attempts \in Nat /\ up.stalls \in Nat /\ up.restarts \in Nat
         /\ up.unresolved \in BOOLEAN /\ up.outcome \in {"none", "done", "failed", "unknown"}
         /\ up.pc \in {"idle", "initiate", "put", "probe", "complete", "reconcile", "end"}
         /\ session.st \in {"none", "open", "final", "gone"} /\ session.got \in Nat
BY DEF UploadTyped, UploadStates, SessionStates

LEMMA EndsIs ==
  ASSUME UploadTyped, NEW o \in {"done", "failed", "unknown"}, Ends(o)
  PROVE  /\ up' \in UploadStates /\ up'.pc = "end" /\ up'.outcome = o
         /\ up'.proto = up.proto /\ up'.size = up.size
BY DEF UploadTyped, UploadStates, Ends

\* What a PUT does to a session that nothing was created by.
LEMMA TakesIs ==
  ASSUME UploadTyped, made = 0, session.st \in {"open", "gone"}, NEW last \in Nat, Takes(last)
  PROVE  /\ session' \in SessionStates
         /\ \/ session'.st = "final" /\ made' = 1
            \/ session'.st = session.st /\ made' = 0
<1>1. session \in SessionStates /\ session.got \in Nat BY UploadFields DEF UploadTyped
<1>2. CASE session.st # "open" BY <1>1, <1>2 DEF Takes
<1>3. CASE session.st = "open"
  <2>1. PICK n \in session.got .. last :
               \/ session' = [session EXCEPT !.got = n] /\ UNCHANGED made
               \/ n = up.size /\ session' = [st |-> "final", got |-> n] /\ Creates
    BY <1>3 DEF Takes
  <2>2. n \in Nat BY <1>1
  <2>3. CASE session' = [session EXCEPT !.got = n] /\ UNCHANGED made
    BY <1>1, <2>2, <2>3 DEF SessionStates
  <2>4. CASE session' = [st |-> "final", got |-> n] /\ Creates
    <3>1. session' \in SessionStates /\ session'.st = "final" BY <2>2, <2>4 DEF SessionStates
    <3>2. made' = 1 BY <2>4 DEF Creates
    <3> QED BY <3>1, <3>2
  <2> QED BY <2>1, <2>3, <2>4
<1> QED BY <1>2, <1>3

LEMMA AttemptedIs ==
  ASSUME UploadTyped, NEW b \in BOOLEAN,
         NEW u, u = [Attempted(up) EXCEPT !.unresolved = b] \/ u = Attempted(up)
  PROVE  /\ u \in UploadStates /\ u.proto = up.proto /\ u.size = up.size /\ u.outcome = up.outcome
         /\ u.pc = up.pc /\ u.restarts = up.restarts
         /\ [u EXCEPT !.pc = "probe", !.unresolved = TRUE] \in UploadStates
<1>1. PICK n \in Nat : n = up.attempts + 1 BY UploadFields
<1>2. PICK w \in UploadStates : w = [up EXCEPT !.attempts = n] BY DEF UploadTyped, UploadStates
<1>3. Attempted(up) = w BY <1>1, <1>2 DEF Attempted
<1>4. u = [w EXCEPT !.unresolved = b] \/ u = w BY <1>3
<1> QED BY <1>2, <1>4 DEF UploadTyped, UploadStates

\* Where an answered acknowledgement leads to.
LEMMA AcknowledgedIs ==
  ASSUME NEW u \in UploadStates, u.outcome = "none", NEW n \in Nat,
         NEW v, v = Acknowledged(u, n)
  PROVE  /\ v \in UploadStates /\ v.proto = u.proto /\ v.size = u.size
         /\ \/ v.pc = "put" /\ v.outcome = "none" /\ (n < v.size \/ v.size = 0)
            \/ v.pc = "probe" /\ v.outcome = "none"
            \/ v.pc = "end" /\ v.outcome = "unknown"
<1> DEFINE next == [u EXCEPT !.offset = n, !.stalls = IF n # u.offset THEN 0 ELSE @ + 1]
<1>1. /\ next \in UploadStates /\ next.proto = u.proto /\ next.size = u.size
      /\ next.outcome = "none"
  <2>1. PICK m \in Nat : m = IF n # u.offset THEN 0 ELSE u.stalls + 1 BY DEF UploadStates
  <2>2. next = [u EXCEPT !.offset = n, !.stalls = m] BY <2>1
  <2> QED BY <2>2 DEF UploadStates
<1>2. PICK w : w = next OBVIOUS
<1>3. \/ v = [w EXCEPT !.pc = "end", !.outcome = "unknown"]
      \/ (n < u.size \/ u.size = 0) /\ v = [w EXCEPT !.pc = "put", !.unresolved = FALSE]
      \/ v = [w EXCEPT !.pc = "probe", !.unresolved = TRUE]
  BY <1>2 DEF Acknowledged
<1> HIDE DEF next
<1> QED BY <1>1, <1>2, <1>3 DEF UploadStates

LEMMA AnsweredIs ==
  ASSUME NEW u \in UploadStates, u.outcome = "none", NEW s \in SessionStates,
         NEW v \in Answered(u, s)
  PROVE  /\ v \in UploadStates /\ v.proto = u.proto /\ v.size = u.size
         /\ \/ s.st = "final" /\ v.pc = "end" /\ v.outcome \in {"done", "unknown"}
            \/ /\ s.st = "open"
               /\ \/ v.pc = "put" /\ v.outcome = "none" /\ (s.got < v.size \/ v.size = 0)
                  \/ v.pc = "probe" /\ v.outcome = "none"
                  \/ v.pc = "end" /\ v.outcome = "unknown"
<1>1. s.st \in {"none", "open", "final", "gone"} /\ s.got \in Nat BY DEF SessionStates
<1>2. CASE s.st = "final"
  <2>1. v \in {[u EXCEPT !.pc = "end", !.outcome = o] : o \in {"done", "unknown"}}
    BY <1>2 DEF Answered
  <2> QED BY <1>2, <2>1 DEF UploadStates
<1>3. CASE s.st = "open"
  <2>1. v = Acknowledged(u, s.got) BY <1>3 DEF Answered
  <2> QED BY <1>1, <1>3, <2>1, AcknowledgedIs
<1>4. CASE s.st \notin {"final", "open"} BY <1>4 DEF Answered
<1> QED BY <1>2, <1>3, <1>4

\* A transfer starts again only while nothing can have been created.
LEMMA RestartedIs ==
  ASSUME NEW u \in UploadStates, u.outcome = "none", NEW v, v = Restarted(u)
  PROVE  /\ v \in UploadStates /\ v.proto = u.proto /\ v.size = u.size
         /\ \/ v.pc = "end" /\ v.outcome = "unknown"
            \/ v.pc = "initiate" /\ v.outcome = "none" /\ ~u.unresolved
<1>1. CASE u.unresolved \/ u.restarts >= MaxRestarts
  <2>1. v = [u EXCEPT !.pc = "end", !.outcome = "unknown"] BY <1>1 DEF Restarted
  <2> QED BY <2>1 DEF UploadStates
<1>2. CASE ~(u.unresolved \/ u.restarts >= MaxRestarts)
  <2>1. PICK n \in Nat : n = u.restarts + 1 BY DEF UploadStates
  <2>2. v = [u EXCEPT !.pc = "initiate", !.restarts = n] BY <1>2, <2>1 DEF Restarted
  <2> QED BY <1>2, <2>2 DEF UploadStates
<1> QED BY <1>1, <1>2

\* An upload that ends tells the truth if what it says was so before.
LEMMA EndsInv ==
  ASSUME UploadTyped, session' \in SessionStates, CreatedBySession', NEW o \in {"done", "failed", "unknown"},
         Ends(o),
         o = "done" => made' = 1,
         o = "failed" /\ up.proto \in Drive =>
           made' = 0 /\ (session'.st = "open" => session'.got < up.size \/ up.size = 0)
  PROVE  UploadInv'
<1>1. /\ up' \in UploadStates /\ up'.pc = "end" /\ up'.outcome = o
      /\ up'.proto = up.proto /\ up'.size = up.size
  BY EndsIs
<1>2. UploadTyped' BY <1>1 DEF UploadTyped
<1>3. UploadPaths' BY <1>1 DEF UploadPaths
<1>4. UploadReports' BY <1>1 DEF UploadReports, Incomplete
<1> QED BY <1>2, <1>3, <1>4 DEF UploadInv

LEMMA StartUploadInv ==
  ASSUME UploadInv, NEW proto \in Protocols, NEW size \in Sizes, StartUpload(proto, size)
  PROVE  UploadInv'
<1>1. /\ up' = [UploadIdle EXCEPT !.proto = proto, !.size = size, !.pc = "initiate"]
      /\ UNCHANGED <<session, made>> /\ up.pc = "idle" /\ size \in Nat
  BY UploadAssumption DEF StartUpload, UploadIdle
<1>2. /\ up' \in UploadStates /\ up'.pc = "initiate" /\ up'.outcome = "none"
  BY <1>1 DEF UploadIdle, UploadStates
<1>3. UploadTyped' /\ CreatedBySession'
  BY <1>1, <1>2 DEF UploadInv, UploadTyped, CreatedBySession
<1>4. UploadPaths' BY <1>1, <1>2 DEF UploadInv, UploadPaths
<1>5. UploadReports' BY <1>2 DEF UploadReports
<1> QED BY <1>3, <1>4, <1>5 DEF UploadInv

LEMMA InitiateInv ==
  ASSUME UploadInv, Initiate
  PROVE  UploadInv'
<1>1. /\ UploadTyped /\ CreatedBySession /\ session \in SessionStates
      /\ up.pc = "initiate" /\ made' = made /\ made = 0 /\ session.st \in {"none", "gone"}
      /\ up.outcome = "none"
  BY DEF UploadInv, UploadTyped, UploadPaths, Initiate
<1>2. CASE session' = [st |-> "open", got |-> 0] /\ up' = [up EXCEPT !.pc = "put", !.offset = 0, !.stalls = 0]
  <2>1. session' \in SessionStates /\ session'.st = "open" /\ session'.got = 0
    BY <1>2 DEF SessionStates
  <2>2. up' \in UploadStates /\ up'.pc = "put" /\ up'.outcome = "none" /\ up'.size \in Nat
    BY <1>1, <1>2 DEF UploadTyped, UploadStates
  <2>3. UploadTyped' /\ CreatedBySession' BY <1>1, <2>1, <2>2 DEF UploadTyped, CreatedBySession
  <2>4. Incomplete' BY <2>1, <2>2 DEF Incomplete
  <2>5. UploadPaths' /\ UploadReports' BY <1>1, <2>1, <2>2, <2>4 DEF UploadPaths, UploadReports
  <2> QED BY <2>3, <2>5 DEF UploadInv
<1>3. CASE session' = session /\ (Ends("failed") \/ Ends("unknown"))
  <2>1. session' \in SessionStates /\ CreatedBySession' BY <1>1, <1>3 DEF CreatedBySession
  <2> QED BY <1>1, <1>3, <2>1, EndsInv
<1> QED BY <1>2, <1>3 DEF Initiate

LEMMA FinaliseInv ==
  ASSUME UploadInv, Finalise
  PROVE  UploadInv'
<1>1. /\ session.st = "open" /\ up.size > 0 /\ session.got = up.size /\ up.proto \in Drive
      /\ session' = [session EXCEPT !.st = "final"] /\ made' = made + 1 /\ up' = up
  BY DEF Finalise, Creates
<1>2. UploadTyped /\ up.size \in Nat /\ session.got \in Nat /\ made = 0 /\ up.outcome # "done"
  BY <1>1, UploadFields DEF UploadInv, CreatedBySession, UploadReports
<1>3. made' = 1 /\ session' \in SessionStates /\ session'.st = "final"
  BY <1>1, <1>2 DEF UploadTyped, SessionStates
<1>4. ~Incomplete BY <1>1, <1>2 DEF Incomplete
<1>5. UploadTyped' /\ CreatedBySession' BY <1>1, <1>2, <1>3 DEF UploadTyped, CreatedBySession
<1>6. up.pc \notin {"idle", "initiate", "put", "complete"} /\ ~(up.outcome = "failed")
  BY <1>1, <1>4 DEF UploadInv, UploadPaths, UploadReports, Drive
<1>7. UploadPaths' /\ UploadReports'
  BY <1>1, <1>2, <1>3, <1>6 DEF UploadInv, UploadPaths, UploadReports
<1> QED BY <1>5, <1>7 DEF UploadInv

LEMMA ExpireInv ==
  ASSUME UploadInv, Expire404
  PROVE  UploadInv'
<1>1. /\ session' = [session EXCEPT !.st = "gone"] /\ up' = up /\ made' = made
      /\ session.st \in {"open", "final"}
  BY DEF Expire404
<1>2. session' \in SessionStates /\ session'.st = "gone"
  BY <1>1 DEF UploadInv, UploadTyped, SessionStates
<1>3. UploadTyped' /\ CreatedBySession' /\ Incomplete'
  BY <1>1, <1>2 DEF UploadInv, UploadTyped, CreatedBySession, Incomplete
<1>4. UploadPaths' /\ UploadReports'
  BY <1>1, <1>2, <1>3 DEF UploadInv, UploadPaths, UploadReports
<1> QED BY <1>3, <1>4 DEF UploadInv

\* An answer that the session justifies.
LEMMA AnswerInv ==
  ASSUME UploadTyped, up.outcome = "none", up.proto \in Drive, NEW u \in UploadStates, u.outcome = "none",
         u.proto = up.proto, session' \in SessionStates, CreatedBySession', up' \in Answered(u, session')
  PROVE  UploadInv'
<1>1. /\ up' \in UploadStates /\ up'.proto = up.proto
      /\ \/ session'.st = "final" /\ up'.pc = "end" /\ up'.outcome \in {"done", "unknown"}
         \/ /\ session'.st = "open"
            /\ \/ /\ up'.pc = "put" /\ up'.outcome = "none"
                  /\ session'.got < up'.size \/ up'.size = 0
               \/ up'.pc = "probe" /\ up'.outcome = "none"
               \/ up'.pc = "end" /\ up'.outcome = "unknown"
  BY AnsweredIs
<1>2. UploadTyped' BY <1>1 DEF UploadTyped
<1>3. UploadPaths' BY <1>1 DEF UploadPaths, CreatedBySession, Incomplete
<1>4. UploadReports' BY <1>1 DEF UploadReports, CreatedBySession
<1> QED BY <1>2, <1>3, <1>4 DEF UploadInv

\* What every PUT meets, and what it leaves at the provider.
LEMMA PutIs ==
  ASSUME UploadInv, up.pc = "put"
  PROVE  /\ UploadTyped /\ session \in SessionStates /\ made = 0 /\ session.st \in {"open", "gone"}
         /\ up.outcome = "none" /\ up.size \in Nat /\ up.offset \in Nat
         /\ up.proto \in Drive => Incomplete
BY UploadFields DEF UploadInv, UploadTyped, UploadPaths

LEMMA TakesCreates ==
  ASSUME UploadInv, up.pc = "put", NEW last \in Nat, Takes(last)
  PROVE  /\ session' \in SessionStates /\ CreatedBySession'
         /\ session'.st = "final" => made' = 1
<1>1. /\ session' \in SessionStates
      /\ \/ session'.st = "final" /\ made' = 1
         \/ session'.st = session.st /\ made' = 0
  BY TakesIs, PutIs
<1> QED BY <1>1, PutIs DEF CreatedBySession

LEMMA DrivePutInv ==
  ASSUME UploadInv, DrivePut
  PROVE  UploadInv'
<1> DEFINE u == [Attempted(up) EXCEPT !.unresolved = FALSE]
<1>1. /\ up.pc = "put" /\ up.proto \in Drive
      /\ \/ ~Attempts /\ Ends("unknown") /\ UNCHANGED <<session, made>>
         \/ Attempts /\ Takes(up.size) /\ up' \in Answered(u, session')
         \/ Attempts /\ Takes(up.size) /\ up' = [Attempted(up) EXCEPT !.pc = "probe", !.unresolved = TRUE]
         \/ Attempts /\ session.st = "gone" /\ up' = Restarted(Attempted(up))
                     /\ UNCHANGED <<session, made>>
         \/ Attempts /\ session.st = "open" /\ Ends("failed")
                     /\ UNCHANGED <<session, made>>
  BY DEF DrivePut
<1>2. /\ UploadTyped /\ session \in SessionStates /\ made = 0 /\ session.st \in {"open", "gone"}
      /\ up.outcome = "none" /\ up.size \in Nat /\ Incomplete /\ CreatedBySession
  BY <1>1, PutIs DEF UploadInv
<1>3. PICK w : w = u OBVIOUS
<1>4. w \in UploadStates /\ w.proto = up.proto /\ w.outcome = "none" BY <1>2, <1>3, AttemptedIs
<1>5. PICK a : a = Attempted(up) OBVIOUS
<1>6. /\ a \in UploadStates /\ a.proto = up.proto /\ a.outcome = "none"
      /\ [a EXCEPT !.pc = "probe", !.unresolved = TRUE] \in UploadStates
  BY <1>2, <1>5, AttemptedIs
<1>7. UNCHANGED <<session, made>> => session' \in SessionStates /\ CreatedBySession'
  BY <1>2 DEF CreatedBySession
<1> HIDE DEF u
<1>8. CASE Ends("unknown") /\ UNCHANGED <<session, made>> BY <1>2, <1>7, <1>8, EndsInv
<1>9. CASE Takes(up.size) /\ up' \in Answered(u, session')
  <2>1. session' \in SessionStates /\ CreatedBySession' BY <1>1, <1>2, <1>9, TakesCreates
  <2>2. up' \in Answered(w, session') BY <1>3, <1>9
  <2> QED BY <1>1, <1>2, <1>4, <2>1, <2>2, AnswerInv
<1>10. CASE Takes(up.size) /\ up' = [Attempted(up) EXCEPT !.pc = "probe", !.unresolved = TRUE]
  <2>1. session' \in SessionStates /\ CreatedBySession' BY <1>1, <1>2, <1>10, TakesCreates
  <2>2. up' = [a EXCEPT !.pc = "probe", !.unresolved = TRUE] BY <1>5, <1>10
  <2>3. up' \in UploadStates /\ up'.pc = "probe" /\ up'.proto = up.proto /\ up'.outcome = "none"
    BY <1>6, <2>2 DEF UploadStates
  <2>4. UploadTyped' /\ UploadPaths' /\ UploadReports'
    BY <1>1, <2>1, <2>3 DEF UploadTyped, UploadPaths, UploadReports
  <2> QED BY <2>1, <2>4 DEF UploadInv
<1>11. CASE session.st = "gone" /\ up' = Restarted(Attempted(up)) /\ UNCHANGED <<session, made>>
  <2>1. up' = Restarted(a) BY <1>5, <1>11
  <2>2. /\ up' \in UploadStates /\ up'.proto = up.proto
        /\ \/ up'.pc = "end" /\ up'.outcome = "unknown"
           \/ up'.pc = "initiate" /\ up'.outcome = "none"
    BY <1>6, <2>1, RestartedIs
  <2>3. UploadTyped' /\ UploadPaths' /\ UploadReports'
    BY <1>2, <1>7, <1>11, <2>2 DEF UploadTyped, UploadPaths, UploadReports
  <2> QED BY <1>7, <1>11, <2>3 DEF UploadInv
<1>12. CASE session.st = "open" /\ Ends("failed") /\ UNCHANGED <<session, made>>
  <2>1. made' = 0 /\ (session'.st = "open" => session'.got < up.size \/ up.size = 0)
    BY <1>2, <1>12 DEF Incomplete
  <2> QED BY <1>2, <1>7, <1>12, <2>1, EndsInv
<1> QED BY <1>1, <1>8, <1>9, <1>10, <1>11, <1>12

LEMMA DriveProbeInv ==
  ASSUME UploadInv, DriveProbe
  PROVE  UploadInv'
<1>1. /\ up.pc = "probe" /\ UNCHANGED <<session, made>>
      /\ \/ up' \in Answered(Attempted(up), session)
         \/ up' = ProbeGone(Attempted(up))
         \/ Ends("unknown")
  BY DEF DriveProbe
<1>2. UploadTyped /\ up.outcome = "none" /\ up.proto \in Drive
  BY <1>1 DEF UploadInv, UploadPaths
<1>3. session' = session /\ session' \in SessionStates /\ CreatedBySession'
  BY <1>1 DEF UploadInv, UploadTyped, CreatedBySession
<1>4. PICK a : a = Attempted(up) OBVIOUS
<1>5. a \in UploadStates /\ a.proto = up.proto /\ a.outcome = "none" BY <1>2, <1>4, AttemptedIs
<1>6. CASE up' \in Answered(Attempted(up), session)
  <2>1. up' \in Answered(a, session') BY <1>3, <1>4, <1>6
  <2> QED BY <1>2, <1>3, <1>5, <2>1, AnswerInv
<1>7. CASE up' = ProbeGone(Attempted(up))
  <2>1. up' = [a EXCEPT !.pc = "end", !.outcome = "unknown"] BY <1>4, <1>7 DEF ProbeGone
  <2>2. up' \in UploadStates /\ up'.pc = "end" /\ up'.outcome = "unknown"
    BY <1>5, <2>1 DEF UploadStates
  <2>3. UploadTyped' /\ UploadPaths' /\ UploadReports'
    BY <1>3, <2>2 DEF UploadTyped, UploadPaths, UploadReports
  <2> QED BY <1>3, <2>3 DEF UploadInv
<1>8. CASE Ends("unknown") BY <1>2, <1>3, <1>8, EndsInv
<1> QED BY <1>1, <1>6, <1>7, <1>8

LEMMA GmailPutInv ==
  ASSUME UploadInv, GmailPut
  PROVE  UploadInv'
<1>1. /\ up.pc = "put" /\ up.proto \notin Drive /\ Takes(up.size)
      /\ \/ session'.st = "final" /\ Ends("done")
         \/ Ends("unknown")
         \/ Ends("failed")
  BY DEF GmailPut, Drive
<1>2. UploadTyped /\ up.size \in Nat BY <1>1, PutIs
<1>3. session' \in SessionStates /\ CreatedBySession' /\ (session'.st = "final" => made' = 1)
  BY <1>1, <1>2, TakesCreates
<1> QED BY <1>1, <1>2, <1>3, EndsInv

LEMMA OutlookPutInv ==
  ASSUME UploadInv, OutlookPut
  PROVE  UploadInv'
<1> DEFINE last == up.offset + 1
<1>1. /\ up.pc = "put" /\ up.proto \notin Drive /\ up.proto = "outlook"
      /\ \/ Ends("failed") /\ UNCHANGED <<session, made>>
         \/ /\ Takes(last)
            /\ \/ session' = [st |-> "open", got |-> last] /\ up' = [up EXCEPT !.offset = last]
               \/ session'.st = "final" /\ Ends("done")
               \/ Ends("unknown")
               \/ Ends("failed")
  BY DEF OutlookPut, Drive
<1>2. /\ UploadTyped /\ last \in Nat /\ up.outcome = "none" /\ session \in SessionStates
      /\ CreatedBySession /\ made = 0
  BY <1>1, PutIs DEF UploadInv
<1> HIDE DEF last
<1>3. CASE Ends("failed") /\ UNCHANGED <<session, made>>
  <2>1. session' \in SessionStates /\ CreatedBySession' BY <1>2, <1>3 DEF CreatedBySession
  <2> QED BY <1>1, <1>2, <1>3, <2>1, EndsInv
<1>4. CASE Takes(last) /\ session' = [st |-> "open", got |-> last] /\ up' = [up EXCEPT !.offset = last]
  <2>1. session' \in SessionStates /\ CreatedBySession' /\ session'.st = "open"
    BY <1>1, <1>2, <1>4, TakesCreates
  <2>2. up' \in UploadStates /\ up'.pc = "put" /\ up'.proto = "outlook" /\ up'.outcome = "none"
    BY <1>1, <1>2, <1>4 DEF UploadTyped, UploadStates
  <2>3. made' = 0 BY <2>1 DEF CreatedBySession
  <2>4. UploadTyped' /\ UploadPaths' /\ UploadReports'
    BY <2>1, <2>2, <2>3 DEF UploadTyped, UploadPaths, UploadReports, Drive
  <2> QED BY <2>1, <2>4 DEF UploadInv
<1>5. CASE /\ Takes(last)
           /\ \/ session'.st = "final" /\ Ends("done")
              \/ Ends("unknown")
              \/ Ends("failed")
  <2>1. session' \in SessionStates /\ CreatedBySession' /\ (session'.st = "final" => made' = 1)
    BY <1>1, <1>2, <1>5, TakesCreates
  <2> QED BY <1>1, <1>2, <1>5, <2>1, EndsInv
<1> QED BY <1>1, <1>3, <1>4, <1>5

LEMMA SlackPutInv ==
  ASSUME UploadInv, SlackPut
  PROVE  UploadInv'
<1>1. /\ up.pc = "put" /\ up.proto = "slack" /\ up.proto \notin Drive /\ made' = made
      /\ \/ /\ session.st = "open" /\ session' = [session EXCEPT !.got = up.size]
            /\ up' = [up EXCEPT !.pc = "complete"]
         \/ Ends("failed") /\ UNCHANGED session
         \/ Ends("unknown") /\ UNCHANGED session
  BY DEF SlackPut, Drive
<1>2. /\ UploadTyped /\ up.size \in Nat /\ up.outcome = "none" /\ session \in SessionStates
      /\ CreatedBySession /\ made = 0
  BY <1>1, PutIs DEF UploadInv
<1>3. CASE /\ session.st = "open" /\ session' = [session EXCEPT !.got = up.size]
           /\ up' = [up EXCEPT !.pc = "complete"]
  <2>1. session' \in SessionStates /\ session'.st = "open" BY <1>2, <1>3 DEF SessionStates
  <2>2. up' \in UploadStates /\ up'.pc = "complete" /\ up'.proto = "slack" /\ up'.outcome = "none"
    BY <1>1, <1>2, <1>3 DEF UploadTyped, UploadStates
  <2>3. UploadTyped' /\ CreatedBySession' /\ UploadPaths' /\ UploadReports'
    BY <1>1, <1>2, <2>1, <2>2 DEF UploadTyped, CreatedBySession, UploadPaths, UploadReports
  <2> QED BY <2>3 DEF UploadInv
<1>4. CASE UNCHANGED session /\ (Ends("failed") \/ Ends("unknown"))
  <2>1. session' \in SessionStates /\ CreatedBySession' BY <1>1, <1>2, <1>4 DEF CreatedBySession
  <2> QED BY <1>1, <1>2, <1>4, <2>1, EndsInv
<1> QED BY <1>1, <1>3, <1>4

LEMMA SlackCompleteInv ==
  ASSUME UploadInv, SlackComplete
  PROVE  UploadInv'
<1>1. /\ up.pc = "complete" /\ up.proto = "slack" /\ up.proto \notin Drive /\ made = 0
      /\ up.outcome = "none" /\ UploadTyped /\ CreatedBySession /\ session \in SessionStates
  BY DEF SlackComplete, UploadInv, UploadPaths, UploadTyped, Drive
<1>2. /\ session' \in SessionStates /\ CreatedBySession' /\ (session'.st = "final" => made' = 1)
  <2>1. CASE session.st = "open" /\ session' = [session EXCEPT !.st = "final"] /\ Creates
    <3>1. session' \in SessionStates /\ session'.st = "final" BY <1>1, <2>1 DEF SessionStates
    <3>2. made' = 1 BY <1>1, <2>1 DEF Creates
    <3> QED BY <3>1, <3>2 DEF CreatedBySession
  <2>2. CASE UNCHANGED <<session, made>> BY <1>1, <2>2 DEF CreatedBySession
  <2> QED BY <2>1, <2>2 DEF SlackComplete
<1>3. CASE (session'.st = "final" /\ Ends("done")) \/ Ends("failed")
  BY <1>1, <1>2, <1>3, EndsInv
<1>4. CASE up' = [up EXCEPT !.pc = "reconcile"]
  <2>1. up' \in UploadStates /\ up'.pc = "reconcile" /\ up'.proto = "slack" /\ up'.outcome = "none"
    BY <1>1, <1>4 DEF UploadTyped, UploadStates
  <2>2. UploadTyped' /\ UploadPaths' /\ UploadReports'
    BY <1>2, <2>1 DEF UploadTyped, UploadPaths, UploadReports
  <2> QED BY <1>2, <2>2 DEF UploadInv
<1> QED BY <1>3, <1>4 DEF SlackComplete

LEMMA SlackReconcileInv ==
  ASSUME UploadInv, SlackReconcile
  PROVE  UploadInv'
<1>1. /\ up.pc = "reconcile" /\ UNCHANGED <<session, made>>
      /\ (made > 0 /\ Ends("done")) \/ Ends("unknown")
  BY DEF SlackReconcile
<1>2. UploadTyped /\ session' \in SessionStates /\ CreatedBySession'
  BY <1>1 DEF UploadInv, UploadTyped, CreatedBySession
<1>3. made > 0 => made' = 1 BY <1>1 DEF UploadInv, CreatedBySession
<1> QED BY <1>1, <1>2, <1>3, EndsInv

----------------------------------------
LEMMA UploadInitInv ==
  ASSUME UploadInit
  PROVE  UploadInv
<1>1. up \in UploadStates /\ up.pc = "idle" /\ up.outcome = "none"
  BY DEF UploadInit, UploadIdle, UploadStates
<1>2. session \in SessionStates /\ session.st = "none" /\ made = 0
  BY DEF UploadInit, NoSession, SessionStates
<1> QED BY <1>1, <1>2 DEF UploadInv, UploadTyped, CreatedBySession, UploadPaths, UploadReports

LEMMA UploadNextInv ==
  ASSUME UploadInv, [UploadNext]_upvars
  PROVE  UploadInv'
<1>1. CASE UNCHANGED upvars
  BY <1>1 DEF upvars, UploadInv, UploadTyped, CreatedBySession, UploadPaths, UploadReports, Incomplete
<1>2. CASE UploadNext
  <2>1. ASSUME NEW proto \in Protocols, NEW size \in Sizes, StartUpload(proto, size) PROVE UploadInv'
    BY <2>1, StartUploadInv
  <2>2. CASE Initiate \/ Finalise \/ Expire404 BY <2>2, InitiateInv, FinaliseInv, ExpireInv
  <2>3. CASE DrivePut \/ DriveProbe BY <2>3, DrivePutInv, DriveProbeInv
  <2>4. CASE GmailPut \/ OutlookPut BY <2>4, GmailPutInv, OutlookPutInv
  <2>5. CASE SlackPut \/ SlackComplete \/ SlackReconcile
    BY <2>5, SlackPutInv, SlackCompleteInv, SlackReconcileInv
  <2> QED BY <1>2, <2>1, <2>2, <2>3, <2>4, <2>5 DEF UploadNext
<1> QED BY <1>1, <1>2

----------------------------------------
(* GuardedWrites: what the classification of an effect promises *)

LEMMA ChangeIs ==
  ASSUME NEW ch \in Changes
  PROVE  /\ ch.guests \subseteq People /\ ch.parts \subseteq Parts
         /\ ch.kind \in {"gevent", "oevent", "entry", "drive", "gmail", "discord"}
         /\ ch.kind = "gevent" =>
              /\ ch.op \in {"title", "reminders", "recurrence", "meet", "delete", "respond", "guests",
                            "attachments"}
              /\ ch.op # "guests" => ch.guests = {}
         /\ ch.kind = "oevent" => ch.op \in {"guests", "title", "delete", "purge"}
         /\ ch.kind = "entry" => ch.op \in {"preferences", "delete"}
BY DEF Changes

LEMMA ItemIs ==
  ASSUME NEW it \in Items
  PROVE  /\ it.ver \in Nat /\ it.guests \subseteq People /\ it.parts \subseteq Parts
         /\ it.conf \in BOOLEAN /\ it.trashed \in BOOLEAN
BY DEF Items

\* What a change does to what others see and to what hangs on an item.
LEMMA AfterIs ==
  ASSUME NEW ch \in Changes, NEW it \in Items, NEW read \in Items
  PROVE  /\ After(ch, it, read) \in Items
         /\ After(ch, it, read).guests = IF ch.op = "guests" THEN ch.guests ELSE it.guests
         /\ ch.op \in {"attachments", "preferences"} => After(ch, it, read).parts = ch.parts
         /\ ch.op \notin {"attachments", "preferences", "attach", "detach"} =>
              After(ch, it, read).parts = it.parts
         /\ ch.op \notin {"delete", "trash", "purge", "restore"} =>
              After(ch, it, read).trashed = it.trashed
<1>1. PICK n \in Nat : n = it.ver + 1 BY ItemIs
<1>2. PICK next \in Items : next = [it EXCEPT !.ver = n] BY DEF Items
<1>3. /\ next.guests = it.guests /\ next.parts = it.parts /\ next.conf = it.conf
      /\ next.trashed = it.trashed
  BY <1>2 DEF Items
<1>4. PICK a : a = After(ch, it, read) OBVIOUS
<1>5. a = CASE ch.op = "guests"                       -> [next EXCEPT !.guests = ch.guests]
      [] ch.op \in {"attachments", "preferences"} -> [next EXCEPT !.parts = ch.parts]
      [] ch.op = "meet"                         -> [next EXCEPT !.conf = TRUE]
      [] ch.op \in {"delete", "trash", "purge"} -> [next EXCEPT !.trashed = TRUE]
      [] ch.op = "restore"                      -> [next EXCEPT !.trashed = FALSE]
      [] ch.op = "attach"                       -> [next EXCEPT !.parts = read.parts \cup ch.parts]
      [] ch.op = "detach"                       -> [next EXCEPT !.parts = read.parts \ ch.parts]
      [] OTHER                                  -> next
  BY <1>1, <1>2, <1>4 DEF After
<1>6. ch.guests \subseteq People /\ ch.parts \subseteq Parts BY ChangeIs
<1>7. PICK ps \in SUBSET Parts : ps = IF ch.op \in {"attachments", "preferences"} THEN ch.parts
                                      ELSE IF ch.op = "attach" THEN read.parts \cup ch.parts
                                      ELSE read.parts \ ch.parts
  BY <1>6, ItemIs
<1>8. CASE ch.op = "guests"
  <2>1. a = [next EXCEPT !.guests = ch.guests] BY <1>5, <1>8
  <2> QED BY <1>3, <1>4, <1>6, <1>8, <2>1 DEF Items
<1>9. CASE ch.op \in {"attachments", "preferences", "attach", "detach"}
  <2>1. a = [next EXCEPT !.parts = ps] BY <1>5, <1>7, <1>9
  <2>2. a \in Items /\ a.guests = it.guests /\ a.parts = ps /\ a.trashed = it.trashed
    BY <1>3, <2>1 DEF Items
  <2> QED BY <1>4, <1>7, <1>9, <2>2
<1>10. CASE ch.op = "meet"
  <2>1. a = [next EXCEPT !.conf = TRUE] BY <1>5, <1>10
  <2> QED BY <1>3, <1>4, <1>10, <2>1 DEF Items
<1>11. CASE ch.op \in {"delete", "trash", "purge", "restore"}
  <2>1. a = [next EXCEPT !.trashed = TRUE] \/ a = [next EXCEPT !.trashed = FALSE] BY <1>5, <1>11
  <2> QED BY <1>3, <1>4, <1>11, <2>1 DEF Items
<1>12. CASE ch.op \notin {"guests", "attachments", "preferences", "attach", "detach", "meet",
                          "delete", "trash", "purge", "restore"}
  <2>1. a = next BY <1>5, <1>12
  <2> QED BY <1>3, <1>4, <1>12, <2>1
<1> QED BY <1>8, <1>9, <1>10, <1>11, <1>12

\* A change classified as safe takes nothing away and reaches nobody, if the item it meets is
\* the one it was judged on.
LEMMA SafeIsSafe ==
  ASSUME NEW ch \in Changes, NEW it \in Items, Effect(ch, it) = "safe",
         NEW a, a.ch = ch, a.met = it, a.read = it
  PROVE  ~TakesAway(a) /\ ~ReachesOthers(a)
<1>1. PICK then \in Items : then = After(ch, it, it) BY AfterIs
<1>2. /\ then.guests = IF ch.op = "guests" THEN ch.guests ELSE it.guests
      /\ ch.op \in {"attachments", "preferences"} => then.parts = ch.parts
      /\ ch.op \notin {"attachments", "preferences", "attach", "detach"} => then.parts = it.parts
      /\ ch.op \notin {"delete", "trash", "purge", "restore"} => then.trashed = it.trashed
  BY <1>1, AfterIs
<1>3. /\ ch.kind = "gevent" =>
           /\ ch.op \in {"title", "reminders", "recurrence", "meet", "delete", "respond", "guests",
                         "attachments"}
           /\ ch.op # "guests" => ch.guests = {}
      /\ ch.kind = "oevent" => ch.op \in {"guests", "title", "delete", "purge"}
      /\ ch.kind = "entry" => ch.op \in {"preferences", "delete"}
  BY ChangeIs
<1>4. CASE ch.kind = "oevent"
  <2>1. ch.op \notin {"delete", "purge"} /\ ExistingEventEffect(ch, it) = "safe"
    BY <1>4 DEF Effect, ClassifyMicrosoft
  <2>2. it.guests = {} /\ ch.guests = {} BY <2>1 DEF ExistingEventEffect
  <2>3. ch.op \in {"guests", "title"} BY <1>3, <1>4, <2>1
  <2>4. then.guests = {} /\ then.parts = it.parts /\ then.trashed = it.trashed
    BY <1>2, <2>2, <2>3
  <2> QED BY <1>1, <2>2, <2>3, <2>4 DEF TakesAway, ReachesOthers
<1>5. CASE ch.kind = "gevent"
  <2>1. ch.op \notin {"respond", "delete"} /\ EventUpdateEffect(ch, it) = "safe"
    BY <1>5 DEF Effect, ClassifyGoogle, EventEffect
  <2>2. /\ ch.op \in {"title", "reminders", "meet", "attachments"}
        /\ ch.op = "attachments" => it.parts \subseteq ch.parts
        /\ ch.op = "meet" => ~it.conf
        /\ ch.op # "reminders" => it.guests = {}
    BY <1>3, <1>5, <2>1 DEF EventUpdateEffect, IsShared, DropsAttachments
  <2>3. then.guests = it.guests /\ it.parts \subseteq then.parts /\ then.trashed = it.trashed
    BY <1>2, <2>2
  <2> QED BY <1>1, <2>2, <2>3 DEF TakesAway, ReachesOthers
<1>6. CASE ch.kind \notin {"oevent", "gevent"}
  <2>1. ch.kind = "entry" /\ ch.op = "preferences" /\ ListUpdateEffect(ch, it) = "safe"
    BY <1>6 DEF Effect, ClassifyGoogle
  <2>2. it.parts \subseteq ch.parts BY <2>1 DEF ListUpdateEffect
  <2>3. then.guests = it.guests /\ it.parts \subseteq then.parts /\ then.trashed = it.trashed
    BY <1>2, <2>1, <2>2
  <2> QED BY <1>1, <2>1, <2>3 DEF TakesAway, ReachesOthers
<1> QED BY <1>4, <1>5, <1>6

----------------------------------------
(* GuardedWrites: the steps *)

LEMMA NoWriteIs ==
  ASSUME NEW it \in Items
  PROVE  NoWrite(it) \in WriteStates /\ NoWrite(it).pc = "idle"
<1>1. NoChange \in Changes \cup {NoChange} OBVIOUS
<1> QED BY <1>1 DEF NoWrite, WriteStates

\* The preflight of a calendar write finds the item its author saw.
LEMMA PreflightSeen ==
  ASSUME Preflight, write.ch.kind \in {"gevent", "entry", "oevent"}
  PROVE  item.ver = write.seen.ver
BY DEF Preflight, EventPreflight, EntryPreflight, OutlookPreflight

LEMMA AskInv ==
  ASSUME WriteInv, NEW ch \in Changes, Ask(ch)
  PROVE  WriteInv'
<1>1. /\ write' = [NoWrite(item) EXCEPT !.pc = "classify", !.ch = ch] /\ item' = item
      /\ applied' = applied /\ item \in Items
  BY DEF Ask, WriteInv
<1>2. PICK w \in WriteStates : w = NoWrite(item) /\ w.seen = item BY <1>1, NoWriteIs DEF NoWrite
<1>3. /\ write' \in WriteStates /\ write'.pc = "classify" /\ write'.ch = ch /\ write'.seen = item
  BY <1>1, <1>2 DEF WriteStates
<1>4. Versioned' /\ Judged' BY <1>1, <1>3, ItemIs DEF Versioned, Judged
<1> QED BY <1>1, <1>3, <1>4 DEF WriteInv, OnlyAsReviewed

LEMMA RefuseInv ==
  ASSUME WriteInv, Refuse
  PROVE  WriteInv'
<1>1. write' = NoWrite(item) /\ item' = item /\ applied' = applied /\ item \in Items
  BY DEF Refuse, WriteInv
<1>2. write' \in WriteStates /\ write'.pc = "idle" BY <1>1, NoWriteIs
<1> QED BY <1>1, <1>2 DEF WriteInv, Versioned, Judged, OnlyAsReviewed

LEMMA ClassifyInv ==
  ASSUME WriteInv, Classify
  PROVE  WriteInv'
<1>1. PICK e : e = Effect(write.ch, item) OBVIOUS
<1>2. /\ write' = [write EXCEPT !.effect = e, !.pc = IF e = "safe" THEN "execute" ELSE "confirm"]
      /\ item' = item /\ applied' = applied /\ write.pc = "classify"
  BY <1>1 DEF Classify
<1>3. e \in {"safe", "outward", "destructive"}
  BY <1>1 DEF Effect, ClassifyGoogle, ClassifyMicrosoft, EventEffect, EventUpdateEffect,
     ListUpdateEffect, ExistingEventEffect
<1>4. PICK st \in {"execute", "confirm"} : st = IF e = "safe" THEN "execute" ELSE "confirm"
  OBVIOUS
<1>5. write' = [write EXCEPT !.effect = e, !.pc = st] BY <1>2, <1>4
<1>6. /\ write' \in WriteStates /\ write'.pc = st /\ write'.ch = write.ch /\ write'.seen = write.seen
  BY <1>3, <1>5 DEF WriteInv, WriteStates
<1>7. Versioned' /\ Judged' BY <1>2, <1>4, <1>6 DEF WriteInv, Versioned, Judged
<1> QED BY <1>2, <1>6, <1>7 DEF WriteInv, OnlyAsReviewed

LEMMA ConfirmInv ==
  ASSUME WriteInv, Confirm
  PROVE  WriteInv'
<1>1. /\ write' = [write EXCEPT !.pc = "execute", !.key = TRUE]
      /\ item' = item /\ applied' = applied /\ write.pc = "confirm"
  BY DEF Confirm
<1>2. /\ write' \in WriteStates /\ write'.pc = "execute" /\ write'.ch = write.ch
      /\ write'.seen = write.seen
  BY <1>1 DEF WriteInv, WriteStates
<1>3. Versioned' /\ Judged' BY <1>1, <1>2 DEF WriteInv, Versioned, Judged
<1> QED BY <1>1, <1>2, <1>3 DEF WriteInv, OnlyAsReviewed

LEMMA RecheckInv ==
  ASSUME WriteInv, Recheck
  PROVE  WriteInv'
<1>1. /\ write' = [write EXCEPT !.pc = "send", !.read = item] /\ item' = item /\ applied' = applied
      /\ write.pc = "execute" /\ Preflight /\ (Effect(write.ch, item) = "safe" \/ write.key)
  BY DEF Recheck
<1>2. /\ write' \in WriteStates /\ write'.pc = "send" /\ write'.ch = write.ch
      /\ write'.seen = write.seen /\ write'.read = item /\ write'.key = write.key
  BY <1>1 DEF WriteInv, WriteStates
<1>3. write.ch.kind \in {"gevent", "entry", "oevent"} => item = write.seen
  BY <1>1, PreflightSeen DEF WriteInv, Versioned
<1>4. Versioned' /\ Judged' BY <1>1, <1>2, <1>3 DEF WriteInv, Versioned, Judged
<1> QED BY <1>1, <1>2, <1>4 DEF WriteInv, OnlyAsReviewed

\* The calendars' request names the version that was seen; every other change is
\* confirmed, whatever it meets.
LEMMA SendWriteInv ==
  ASSUME WriteInv, write.pc = "send", Apply,
         write.ch.kind \in {"gevent", "entry", "oevent"} => IfMatch
  PROVE  WriteInv'
<1>1. PICK a : a = [ch |-> write.ch, key |-> write.key, seen |-> write.seen,
                    read |-> write.read, met |-> item]
  OBVIOUS
<1>2. /\ applied' = applied \cup {a} /\ item' = After(write.ch, item, write.read)
      /\ write' = NoWrite(item')
  BY <1>1 DEF Apply
<1>3. /\ write.ch \in Changes /\ item \in Items /\ write.read \in Items /\ write.seen \in Items
      /\ write.key \in BOOLEAN
  BY DEF WriteInv, Versioned, WriteStates
<1>4. item' \in Items /\ write' \in WriteStates /\ write'.pc = "idle"
  BY <1>2, <1>3, AfterIs, NoWriteIs
<1>5. write.ch.kind \in {"gevent", "entry", "oevent"} => item = write.seen /\ write.read = item
  BY DEF WriteInv, Versioned, Judged, IfMatch
<1>6. Effect(write.ch, write.read) = "safe" \/ write.key BY DEF WriteInv, Judged
<1>7. Effect(write.ch, write.read) = "safe" => write.ch.kind \in {"gevent", "entry", "oevent"}
  BY DEF Effect, ClassifyGoogle
<1>8. ~write.key => ~TakesAway(a) /\ ~ReachesOthers(a)
  <2> SUFFICES ASSUME ~write.key PROVE ~TakesAway(a) /\ ~ReachesOthers(a)
    OBVIOUS
  <2>1. Effect(write.ch, item) = "safe" /\ write.read = item BY <1>5, <1>6, <1>7
  <2>2. a.ch = write.ch /\ a.met = item /\ a.read = item BY <1>1, <2>1
  <2> QED BY <1>3, <2>1, <2>2, SafeIsSafe
<1>9. a.key = write.key /\ a.ch = write.ch /\ a.met = item /\ a.seen = write.seen BY <1>1
<1>10. TakesAway(a) \/ ReachesOthers(a) => a.key BY <1>3, <1>8, <1>9
<1>11. a.ch.kind \in {"gevent", "entry", "oevent"} => a.met = a.seen BY <1>5, <1>9
<1>12. OnlyAsReviewed' BY <1>2, <1>10, <1>11 DEF WriteInv, OnlyAsReviewed
<1> QED BY <1>4, <1>12 DEF WriteInv, Versioned, Judged

LEMMA MeddleInv ==
  ASSUME WriteInv, Meddle
  PROVE  WriteInv'
<1>1. PICK it \in [ver : {item.ver + 1}, guests : SUBSET People, parts : SUBSET Parts,
                   conf : BOOLEAN, trashed : BOOLEAN] :
             item' = it /\ UNCHANGED <<write, applied>>
  BY DEF Meddle
<1>2. item.ver \in Nat /\ item \in Items BY ItemIs DEF WriteInv
<1>3. it.ver = item.ver + 1 /\ item.ver + 1 \in Nat BY <1>2
<1>4. item' \in Items BY <1>1, <1>3 DEF Items
<1>5. write \in WriteStates /\ write.seen.ver \in Nat BY ItemIs DEF WriteInv, WriteStates
<1>6. Versioned' BY <1>1, <1>2, <1>3, <1>5 DEF WriteInv, Versioned
<1> QED BY <1>1, <1>4, <1>5, <1>6 DEF WriteInv, Judged, OnlyAsReviewed

----------------------------------------
LEMMA WriteInitInv ==
  ASSUME WriteInit
  PROVE  WriteInv
<1>1. item \in Items /\ applied = {} /\ write = NoWrite(item) BY DEF WriteInit, Items
<1>2. write \in WriteStates /\ write.pc = "idle" BY <1>1, NoWriteIs
<1> QED BY <1>1, <1>2 DEF WriteInv, Versioned, Judged, OnlyAsReviewed

LEMMA WriteNextInv ==
  ASSUME WriteInv, [WriteNext]_wvars
  PROVE  WriteInv'
<1>1. CASE UNCHANGED wvars BY <1>1 DEF wvars, WriteInv, Versioned, Judged, OnlyAsReviewed
<1>2. ASSUME NEW ch \in Changes, Ask(ch) PROVE WriteInv' BY <1>2, AskInv
<1>3. CASE Classify \/ Confirm \/ Recheck BY <1>3, ClassifyInv, ConfirmInv, RecheckInv
<1>4. CASE Fail BY <1>4, RefuseInv DEF Fail
<1>5. CASE SendCalendar \/ SendOutlook \/ SendDrive \/ SendGmail \/ SendDiscord
  <2>1. /\ write.pc = "send" /\ Apply
        /\ write.ch.kind \in {"gevent", "entry", "oevent"} => IfMatch
    BY <1>5 DEF SendCalendar, SendOutlook, SendDrive, SendGmail, SendDiscord
  <2> QED BY <2>1, SendWriteInv
<1>6. CASE Meddle BY <1>6, MeddleInv
<1> QED BY <1>1, <1>2, <1>3, <1>4, <1>5, <1>6 DEF WriteNext

----------------------------------------
\* The invariants of uploads and writes, in the specification of all connectors.
THEOREM SentInvariant == MCSpec => []SentInv
<1>1. MCInit => SentInv BY UploadInitInv, WriteInitInv DEF MCInit, SentInv
<1>2. SentInv /\ [MCNext]_<<part, vars, sessionvars, upvars, wvars>> => SentInv'
  <2> SUFFICES ASSUME UploadInv, WriteInv, [MCNext]_<<part, vars, sessionvars, upvars, wvars>>
               PROVE  UploadInv' /\ WriteInv'
    BY DEF SentInv
  <2>1. [UploadNext]_upvars /\ [WriteNext]_wvars BY DEF MCNext
  <2> QED BY <2>1, UploadNextInv, WriteNextInv
<1> QED BY <1>1, <1>2, PTL DEF MCSpec

\* What a provider was sent: one upload creates at most one file or message and reports
\* what the provider has, however often it is probed and repeated
\* (_drive_resumable_upload, _drive_resumable_restart); and nothing that takes away or reaches
\* others is sent without a confirmation, nor a calendar change to another item than its
\* author saw, whatever others change between the reads (classify_effect, execute).
THEOREM SentIsAsSaid == MCSpec => []SentAsSaid
<1>1. SentInv => UploadHonest
  <2> SUFFICES ASSUME UploadInv PROVE UploadHonest
    BY DEF SentInv
  <2>1. made <= 1 BY DEF UploadInv, CreatedBySession
  <2> QED BY <2>1 DEF UploadInv, UploadReports, UploadHonest
<1>2. SentInv => OnlyAsReviewed BY DEF SentInv, WriteInv
<1> QED BY <1>1, <1>2, SentInvariant, PTL DEF SentAsSaid
=============================================================================
