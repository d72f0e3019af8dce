--------------------------- MODULE ConnectorAuth ---------------------------
(***************************************************************************)
(* Credential custody of one OAuth connection whose account is bound:
   the portable health in CONNECTIONS.md, written by compare-and-swap on
   the revision of the whole file, and the host-local two-slot token
   store, written under the connection's lifecycle lock.  Processes run
   the operations of ConnectorAuthManager and their callers; a process may
   die between any two steps, and a write may fail without effect or fail
   although it is visible.

   Credentials are serial numbers, 0 meaning none and 1 the credential an
   auth archive carries.  A refresh consumes the refresh token of its
   credential and issues the next serial (a provider that does not rotate
   refresh tokens is the easier case). *)
(***************************************************************************)
EXTENDS Naturals, FiniteSets

CONSTANTS
    Procs,       \* processes that call the connector commands
    NoProc,      \* holder of a free lifecycle lock
    MaxOps,      \* operations started in a behaviour
    MaxFaults    \* deaths and failed writes in a behaviour

ASSUME ConnectorAuthAssumption ==
    /\ NoProc \notin Procs
    /\ MaxOps \in Nat
    /\ MaxFaults \in Nat

VARIABLES
    health,      \* the connection's health, "fresh" before and "absent" after it exists
    rev,         \* revision of CONNECTIONS.md, new at every write
    ptr,         \* version named by the token pointer, 0 when there is none
    slots,       \* the two keyring slots
    lock,        \* holder of the lifecycle lock
    op,          \* the operation each process is in
    issued,      \* last serial the provider issued
    verified,    \* serials whose account was confirmed, with their refreshes
    spent,       \* serials whose refresh token the provider consumed
    lost,        \* spent serials whose successor never reached custody
    rejected,    \* serials refused by the provider, or not granting what was selected
    imported,    \* revision written by an archive import, 0 when none was
    started,     \* operations started
    faults       \* deaths and failed writes so far

portable == <<health, rev, imported>>
custody == <<ptr, slots>>
provider == <<issued, verified, spent, lost, rejected>>
vars == <<health, rev, ptr, slots, lock, op, issued, verified, spent, lost,
          rejected, imported, started, faults>>

Archive == 1

\* The only revision an auth archive was exported at is that of the
\* restored vault.
ArchiveRev == 1

VerifiedHealth == {"ready", "degraded"}
ReauthHealth == VerifiedHealth \cup {"reauth"}
Live == ReauthHealth \cup {"unverified"}
Health == Live \cup {"fresh", "revoked", "absent"}

Kinds == {"connect", "authorize", "reauthorize", "read", "resume", "remove",
          "import", "alias"}
Points == {"lock", "put", "mark", "recheck", "token", "stage", "point",
           "drop", "call", "report", "verify", "confirm", "revoke", "wipe",
           "unlink", "forget", "replace"}

\* Where an operation holds the lifecycle lock.
Inside == {"put", "mark", "recheck", "token", "stage", "point", "drop",
           "wipe", "unlink"}

NoOp == [kind |-> "none", pc |-> "idle", rev |-> 0, tok |-> 0, cred |-> 0]

Slots == {"a", "b"}
Empty == [s \in Slots |-> 0]

Slot(version) == IF version % 2 = 1 THEN "a" ELSE "b"

\* The credential the pointer resolves to.
Custody == IF ptr = 0 THEN 0 ELSE slots[Slot(ptr)]

Occupied == ptr # 0 \/ slots # Empty

\* Either the connection does not exist yet, or the vault was restored from
\* a backup whose CONNECTIONS.md says ready and this host has no credential.
Init ==
    /\ health \in {"fresh", "ready"}
    /\ rev = ArchiveRev
    /\ ptr = 0
    /\ slots = Empty
    /\ lock = NoProc
    /\ op = [p \in Procs |-> NoOp]
    /\ issued = Archive
    /\ verified = {}
    /\ spent = {}
    /\ lost = {}
    /\ rejected = {}
    /\ imported = 0
    /\ started = 0
    /\ faults = 0

-----------------------------------------------------------------------------
(* Steps the operations share. *)

At(p, kinds, pc) == op[p].kind \in kinds /\ op[p].pc = pc

Goto(p, pc) == op' = [op EXCEPT ![p].pc = pc]

\* Leaving an operation, normally or by an exception, gives the lock back.
End(p) ==
    /\ op' = [op EXCEPT ![p] = NoOp]
    /\ lock' = IF lock = p THEN NoProc ELSE lock

Release(p, pc) ==
    /\ lock = p
    /\ lock' = NoProc
    /\ Goto(p, pc)

Fault == faults < MaxFaults /\ faults' = faults + 1

Begin(p, kind, pc, cred) ==
    /\ op[p] = NoOp
    /\ started < MaxOps
    /\ started' = started + 1
    /\ op' = [op EXCEPT ![p] = [kind |-> kind, pc |-> pc, rev |-> rev,
                                tok |-> ptr, cred |-> cred]]
    /\ UNCHANGED <<portable, custody, lock, spent, lost, rejected, faults>>

\* An interactive grant: the provider issues a credential for the account
\* the person chose; confirmed says that the account was checked against
\* the connection's binding.
Grant(p, kind, confirmed) ==
    /\ Begin(p, kind, "lock", issued + 1)
    /\ issued' = issued + 1
    /\ verified' = IF confirmed THEN verified \cup {issued + 1} ELSE verified

\* Taking the lifecycle lock and making the checks the operation opens with.
Enter(p, admitted, pc) ==
    /\ lock = NoProc
    /\ \/ /\ admitted
          /\ lock' = p
          /\ op' = [op EXCEPT ![p].pc = pc, ![p].rev = rev, ![p].tok = ptr]
       \/ /\ ~admitted
          /\ End(p)
    /\ UNCHANGED <<portable, custody, provider, started, faults>>

\* The lock is not free within the caller's timeout.
LockTimeout(p) ==
    /\ op[p].pc \in {"lock", "report", "confirm"}
    /\ lock \notin {p, NoProc}
    /\ End(p)
    /\ UNCHANGED <<portable, custody, provider, started, faults>>

Written(p, h, always) ==
    /\ health' = h
    /\ rev' = IF h = health /\ ~always THEN rev ELSE rev + 1

\* One audited write of CONNECTIONS.md: refused when the file moved on,
\* done, or failed with the new content visible or not.
Persist(p, h, always, next) ==
    \/ /\ rev # op[p].rev
       /\ End(p)
       /\ UNCHANGED <<health, rev, faults>>
    \/ /\ rev = op[p].rev
       /\ Written(p, h, always)
       /\ next
       /\ UNCHANGED faults
    \/ /\ rev = op[p].rev
       /\ Fault
       /\ Written(p, h, always) \/ UNCHANGED <<health, rev>>
       /\ End(p)

Then(p, pc) ==
    /\ op' = [op EXCEPT ![p].pc = pc, ![p].rev = rev']
    /\ UNCHANGED lock

-----------------------------------------------------------------------------
(* Publication in the token store: the secret goes to the other slot, the
   pointer is replaced, the previous secret is deleted. *)

\* The exception that leaves a publication at slots s and pointer v.  A new
\* connection whose credential left no trace is taken out again; a refresh
\* that did not reach the pointer has lost the provider's answer.
Abandon(p, s, v) ==
    /\ Fault
    /\ slots' = s
    /\ ptr' = v
    /\ \/ /\ op[p].kind = "connect"
          /\ v = 0
          /\ s = Empty
          /\ health = "unverified"
          /\ health' = "absent"
          /\ rev' = rev + 1
       \/ /\ ~(op[p].kind = "connect" /\ v = 0 /\ s = Empty /\ health = "unverified")
          /\ UNCHANGED <<health, rev>>
    /\ lost' = IF op[p].kind \in {"read", "resume"} /\ v = ptr
                 THEN lost \cup {Custody}
                 ELSE lost
    /\ End(p)
    /\ UNCHANGED <<issued, verified, spent, rejected, imported, started>>

\* Where a successful publication returns to.
Published(p) ==
    \/ op[p].kind \in {"authorize", "import"} /\ End(p)
    \/ op[p].kind = "connect" /\ Goto(p, "mark") /\ UNCHANGED lock
    \/ op[p].kind = "reauthorize" /\ Goto(p, "put") /\ UNCHANGED lock
    \/ /\ op[p].kind \in {"read", "resume"}
       /\ lock' = NoProc
       /\ op' = [op EXCEPT ![p].pc = IF op[p].kind = "read" THEN "call" ELSE "verify",
                           ![p].tok = ptr]

Stage(p) ==
    /\ op[p].pc = "stage"
    /\ ptr = op[p].tok
    /\ slots' = [slots EXCEPT ![Slot(ptr + 1)] = op[p].cred]
    /\ Goto(p, "point")
    /\ UNCHANGED <<portable, ptr, lock, provider, started, faults>>

StageFails(p) ==
    /\ op[p].pc = "stage"
    /\ Abandon(p, slots, ptr)

Point(p) ==
    /\ op[p].pc = "point"
    /\ ptr' = ptr + 1
    /\ Goto(p, "drop")
    /\ UNCHANGED <<portable, slots, lock, provider, started, faults>>

\* The pointer did not change: the staged secret is deleted, or cannot be.
\* An import keeps it for the next attempt.
PointFails(p) ==
    /\ op[p].pc = "point"
    /\ \/ /\ op[p].kind # "import"
          /\ Abandon(p, [slots EXCEPT ![Slot(ptr + 1)] = 0], ptr)
       \/ Abandon(p, slots, ptr)

\* Mutant: the slot of the wrong version is deleted.
WithoutNext(p) ==
    IF op[p].tok = 0 THEN slots ELSE [slots EXCEPT ![Slot(op[p].tok + 1)] = 0]

WithoutPrevious(p) ==
    IF op[p].tok = 0 THEN slots ELSE [slots EXCEPT ![Slot(op[p].tok)] = 0]

\* The write reported a failure but the new pointer is visible.
PointVisible(p) ==
    /\ op[p].pc = "point"
    /\ Abandon(p, WithoutPrevious(p), ptr + 1)

Drop(p) ==
    /\ op[p].pc = "drop"
    /\ slots' = WithoutPrevious(p)
    /\ Published(p)
    /\ UNCHANGED <<portable, ptr, provider, started, faults>>

\* The update is committed; the previous secret stays until the version
\* after next overwrites its slot.
DropFails(p) ==
    /\ op[p].pc = "drop"
    /\ op[p].tok # 0
    /\ Fault
    /\ End(p)
    /\ UNCHANGED <<portable, custody, provider, started>>

-----------------------------------------------------------------------------
(* Connecting, authorizing and reauthorizing. *)

Connect(p) ==
    /\ health = "fresh"
    /\ \A q \in Procs : op[q].kind # "connect"
    /\ Grant(p, "connect", TRUE)

ConnectEnter(p) ==
    /\ At(p, {"connect"}, "lock")
    /\ Enter(p, health = "fresh" /\ ~Occupied, "put")

ConnectPut(p) ==
    /\ At(p, {"connect"}, "put")
    /\ Persist(p, "unverified", TRUE, Then(p, "stage"))
    /\ UNCHANGED <<custody, provider, imported, started>>

\* _mark_health reads the file again; it refuses a revoked connection.
ConnectReady(p) ==
    /\ At(p, {"connect"}, "mark")
    /\ \/ /\ health = "revoked"
          /\ UNCHANGED <<health, rev, faults>>
       \/ /\ health # "revoked"
          /\ Written(p, "ready", TRUE)
          /\ UNCHANGED faults
       \/ /\ health # "revoked"
          /\ Fault
          /\ Written(p, "ready", TRUE) \/ UNCHANGED <<health, rev>>
    /\ End(p)
    /\ UNCHANGED <<custody, provider, imported, started>>

\* gsv-auth oauth: the account behind the new grant is not confirmed.
Authorize(p) ==
    /\ health \in Live
    /\ Grant(p, "authorize", FALSE)

AuthorizeEnter(p) ==
    /\ At(p, {"authorize"}, "lock")
    /\ Enter(p, health \in Live, "mark")

AuthorizeMark(p) ==
    /\ At(p, {"authorize"}, "mark")
    /\ Persist(p, "unverified", FALSE, Then(p, "recheck"))
    /\ UNCHANGED <<custody, provider, imported, started>>

AuthorizeRecheck(p) ==
    /\ At(p, {"authorize"}, "recheck")
    /\ \/ health = "unverified" /\ Goto(p, "stage") /\ UNCHANGED lock
       \/ health # "unverified" /\ End(p)
    /\ UNCHANGED <<portable, custody, provider, started, faults>>

Reauthorize(p) ==
    /\ health \in ReauthHealth
    /\ Grant(p, "reauthorize", TRUE)

ReauthorizeEnter(p) ==
    /\ At(p, {"reauthorize"}, "lock")
    /\ Enter(p, rev = op[p].rev /\ ptr = op[p].tok /\ health \in ReauthHealth, "stage")

\* A failure here is reported as a committed rotation whose metadata has to
\* be repaired.
ReauthorizePut(p) ==
    /\ At(p, {"reauthorize"}, "put")
    /\ Persist(p, "ready", TRUE, End(p))
    /\ UNCHANGED <<custody, provider, imported, started>>

\* A grant that setup discards: the person does not confirm its account, it
\* is another account, or the connection there is cannot take it.
Declined(p) ==
    /\ op[p] = NoOp
    /\ health \in Live \cup {"fresh"}
    /\ started < MaxOps
    /\ started' = started + 1
    /\ issued' = issued + 1
    /\ UNCHANGED <<portable, custody, lock, op, verified, spent, lost, rejected, faults>>

-----------------------------------------------------------------------------
(* Reading through the connection, and resuming an unverified one. *)

Read(p) ==
    /\ health \in Live
    /\ Begin(p, "read", "lock", 0)
    /\ UNCHANGED <<issued, verified>>

\* A resume that finds no credential removes the connection.
Resume(p) ==
    /\ health = "unverified"
    /\ \/ ptr # 0 /\ Begin(p, "resume", "lock", 0)
       \/ ptr = 0 /\ Begin(p, "remove", "revoke", 0)
    /\ UNCHANGED <<issued, verified>>

ResolveEnter(p) ==
    /\ At(p, {"read", "resume"}, "lock")
    /\ Enter(p, /\ rev = op[p].rev
                /\ health \in IF op[p].kind = "read" THEN VerifiedHealth ELSE Live
                /\ Custody # 0,
             "token")

\* The access token is still usable.
TokenUsable(p) ==
    /\ At(p, {"read", "resume"}, "token")
    /\ lock' = NoProc
    /\ op' = [op EXCEPT ![p].pc = IF op[p].kind = "read" THEN "call" ELSE "verify",
                        ![p].cred = Custody]
    /\ UNCHANGED <<portable, custody, provider, started, faults>>

\* The provider consumes the refresh token and issues a successor.
TokenRefresh(p) ==
    /\ At(p, {"read", "resume"}, "token")
    /\ Custody \notin spent
    /\ spent' = spent \cup {Custody}
    /\ issued' = issued + 1
    /\ verified' = IF Custody \in verified THEN verified \cup {issued + 1} ELSE verified
    /\ op' = [op EXCEPT ![p].pc = "stage", ![p].cred = issued + 1]
    /\ UNCHANGED <<portable, custody, lock, lost, rejected, started, faults>>

\* The answer to a refresh is lost; the provider may have acted on it.
TokenTransportError(p) ==
    /\ At(p, {"read", "resume"}, "token")
    /\ Fault
    /\ \/ UNCHANGED <<spent, lost>>
       \/ spent' = spent \cup {Custody} /\ lost' = lost \cup {Custody}
    /\ End(p)
    /\ UNCHANGED <<portable, custody, issued, verified, rejected, started>>

\* The token endpoint answers with an error.  A refused grant asks for
\* reauthorization, any other error degrades the connection; a consumed
\* token is always refused.
TokenRejected(p) ==
    /\ At(p, {"read", "resume"}, "token")
    /\ \/ rejected' = rejected \cup {Custody} /\ health' = "reauth"
       \/ Custody \notin spent /\ health' = "degraded" /\ UNCHANGED rejected
    /\ health # "revoked"
    /\ rev' = IF health' = health THEN rev ELSE rev + 1
    /\ End(p)
    /\ UNCHANGED <<custody, issued, verified, spent, lost, imported, started, faults>>

\* The same error while a removal has revoked the connection, or with the
\* write of the new health failing: only the exception remains.
TokenRejectedUnmarked(p) ==
    /\ At(p, {"read", "resume"}, "token")
    /\ \/ health = "revoked" /\ UNCHANGED faults
       \/ health # "revoked" /\ Fault
    /\ \/ rejected' = rejected \cup {Custody}
       \/ Custody \notin spent /\ UNCHANGED rejected
    /\ End(p)
    /\ UNCHANGED <<portable, custody, issued, verified, spent, lost, started>>

\* The stored credential, or the answer to its refresh, which is dropped with
\* the token it consumed, does not carry the permissions selected:
\* reauthorization, unless a removal has begun or the write of it fails.
TokenMisgranted(p) ==
    /\ \/ At(p, {"read", "resume"}, "token") /\ UNCHANGED lost
       \/ At(p, {"read", "resume"}, "stage") /\ lost' = lost \cup {Custody}
    /\ rejected' = rejected \cup {Custody}
    /\ \/ health # "revoked" /\ health' = "reauth" /\ UNCHANGED faults
       \/ health = "revoked" /\ UNCHANGED <<health, faults>>
       \/ health # "revoked" /\ Fault /\ UNCHANGED health
    /\ rev' = IF health' = health THEN rev ELSE rev + 1
    /\ End(p)
    /\ UNCHANGED <<custody, issued, verified, spent, imported, started>>

\* The provider call: answered, or refused because of its access token.
CallAnswered(p) ==
    /\ At(p, {"read"}, "call")
    /\ End(p)
    /\ UNCHANGED <<portable, custody, provider, started, faults>>

CallRejected(p) ==
    /\ At(p, {"read"}, "call")
    /\ rejected' = rejected \cup {op[p].cred}
    /\ Goto(p, "report")
    /\ UNCHANGED <<portable, custody, lock, issued, verified, spent, lost, started, faults>>

\* Mutant: the token version is not compared.
ReportEnterAnyToken(p) ==
    /\ At(p, {"read"}, "report")
    /\ Enter(p, rev = op[p].rev /\ health \in Live, "mark")

ReportEnter(p) ==
    /\ At(p, {"read"}, "report")
    /\ Enter(p, rev = op[p].rev /\ health \in Live /\ ptr = op[p].tok, "mark")

ReportMark(p) ==
    /\ At(p, {"read"}, "mark")
    /\ Persist(p, "reauth", FALSE, End(p))
    /\ UNCHANGED <<custody, provider, imported, started>>

\* The provider names the account and the person confirms it, or it is not
\* the account the connection is bound to.
VerifyIdentity(p) ==
    /\ At(p, {"resume"}, "verify")
    /\ \/ verified' = verified \cup {op[p].cred} /\ Goto(p, "confirm") /\ UNCHANGED lock
       \/ op[p].cred \notin verified /\ End(p) /\ UNCHANGED verified
    /\ UNCHANGED <<portable, custody, issued, spent, lost, rejected, started, faults>>

\* Mutant: the token version is not compared.
ConfirmEnterAnyToken(p) ==
    /\ At(p, {"resume"}, "confirm")
    /\ Enter(p, rev = op[p].rev /\ health = "unverified", "put")

ConfirmEnter(p) ==
    /\ At(p, {"resume"}, "confirm")
    /\ Enter(p, rev = op[p].rev /\ health = "unverified" /\ ptr = op[p].tok, "put")

ConfirmPut(p) ==
    /\ At(p, {"resume"}, "put")
    /\ Persist(p, "ready", TRUE, End(p))
    /\ UNCHANGED <<custody, provider, imported, started>>

-----------------------------------------------------------------------------
(* Removing, importing, relabelling. *)

Remove(p) ==
    /\ health \in Live \cup {"revoked"}
    /\ Begin(p, "remove", "revoke", 0)
    /\ UNCHANGED <<issued, verified>>

\* The revoked checkpoint is written before the lifecycle lock is taken.
RemoveRevoke(p) ==
    /\ At(p, {"remove"}, "revoke")
    /\ Persist(p, "revoked", FALSE, Then(p, "lock"))
    /\ UNCHANGED <<custody, provider, imported, started>>

RemoveEnter(p) ==
    /\ At(p, {"remove"}, "lock")
    /\ lock = NoProc
    /\ lock' = p
    /\ Goto(p, "wipe")
    /\ UNCHANGED <<portable, custody, provider, started, faults>>

RemoveWipe(p) ==
    /\ At(p, {"remove"}, "wipe")
    /\ slots' = Empty
    /\ Goto(p, "unlink")
    /\ UNCHANGED <<portable, ptr, lock, provider, started, faults>>

\* A keyring deletion fails, after the first slot or at once.
RemoveWipeFails(p) ==
    /\ At(p, {"remove"}, "wipe")
    /\ Fault
    /\ slots' = [slots EXCEPT !["a"] = 0] \/ UNCHANGED slots
    /\ End(p)
    /\ UNCHANGED <<portable, ptr, provider, started>>

RemoveUnlink(p) ==
    /\ At(p, {"remove"}, "unlink")
    /\ ptr' = 0
    /\ Release(p, "forget")
    /\ UNCHANGED <<portable, slots, provider, started, faults>>

RemoveForget(p) ==
    /\ At(p, {"remove"}, "forget")
    /\ Persist(p, "absent", TRUE, End(p))
    /\ UNCHANGED <<custody, provider, imported, started>>

\* Empty custody, or exactly what an earlier import of the archive left.
ImportCompatible ==
    /\ slots["b"] = 0
    /\ slots["a"] \in {0, Archive}
    /\ ptr \in {0, 1}
    /\ ptr = 1 => slots["a"] = Archive

\* The archive matches the snapshot it was exported with, or the unverified
\* one an interrupted import left.
Import(p) ==
    /\ ImportCompatible
    /\ \/ /\ rev = ArchiveRev
          /\ health = "ready"
          /\ Begin(p, "import", "replace", Archive)
       \/ /\ rev = imported
          /\ Begin(p, "import", "lock", Archive)
    /\ UNCHANGED <<issued, verified>>

ImportReplace(p) ==
    /\ At(p, {"import"}, "replace")
    /\ Persist(p, "unverified", TRUE, Then(p, "lock"))
    /\ imported' = IF rev' # rev THEN rev' ELSE imported
    /\ UNCHANGED <<custody, provider, started>>

\* A credential the archive already brought is confirmed without a change.
ImportEnter(p) ==
    /\ At(p, {"import"}, "lock")
    /\ Enter(p, health \in Live /\ ImportCompatible /\ ptr = 0, "stage")

\* Relabelling changes the revision and nothing else.
Alias(p) ==
    /\ health \in Live
    /\ Begin(p, "alias", "lock", 0)
    /\ UNCHANGED <<issued, verified>>

AliasEnter(p) ==
    /\ At(p, {"alias"}, "lock")
    /\ Enter(p, rev = op[p].rev /\ health \in Live, "put")

AliasPut(p) ==
    /\ At(p, {"alias"}, "put")
    /\ Persist(p, health, TRUE, End(p))
    /\ UNCHANGED <<custody, provider, imported, started>>

-----------------------------------------------------------------------------
\* A process dies anywhere; the operating system drops its lock.  A refresh
\* answered but not yet published dies with it.
Crash(p) ==
    /\ op[p] # NoOp
    /\ Fault
    /\ lost' = IF op[p].kind \in {"read", "resume"} /\ op[p].pc \in {"stage", "point"}
                 THEN lost \cup {Custody}
                 ELSE lost
    /\ End(p)
    /\ UNCHANGED <<portable, custody, issued, verified, spent, rejected, started>>

Publication(p) ==
    \/ Stage(p) \/ StageFails(p)
    \/ Point(p) \/ PointFails(p) \/ PointVisible(p)
    \/ Drop(p) \/ DropFails(p)

Setup(p) ==
    \/ Connect(p) \/ ConnectEnter(p) \/ ConnectPut(p) \/ ConnectReady(p)
    \/ Authorize(p) \/ AuthorizeEnter(p) \/ AuthorizeMark(p) \/ AuthorizeRecheck(p)
    \/ Reauthorize(p) \/ ReauthorizeEnter(p) \/ ReauthorizePut(p) \/ Declined(p)

Use(p) ==
    \/ Read(p) \/ Resume(p) \/ ResolveEnter(p)
    \/ TokenUsable(p) \/ TokenRefresh(p) \/ TokenTransportError(p)
    \/ TokenRejected(p) \/ TokenRejectedUnmarked(p) \/ TokenMisgranted(p)
    \/ CallAnswered(p) \/ CallRejected(p) \/ ReportEnter(p) \/ ReportMark(p)
    \/ VerifyIdentity(p) \/ ConfirmEnter(p) \/ ConfirmPut(p)

Upkeep(p) ==
    \/ Remove(p) \/ RemoveRevoke(p) \/ RemoveEnter(p) \/ RemoveWipe(p)
    \/ RemoveWipeFails(p) \/ RemoveUnlink(p) \/ RemoveForget(p)
    \/ Import(p) \/ ImportReplace(p) \/ ImportEnter(p)
    \/ Alias(p) \/ AliasEnter(p) \/ AliasPut(p)
    \/ LockTimeout(p) \/ Crash(p)

Next == \E p \in Procs : Publication(p) \/ Setup(p) \/ Use(p) \/ Upkeep(p)

Spec == Init /\ [][Next]_vars

-----------------------------------------------------------------------------
(* Properties. *)

\* Every variable has its type, and the lifecycle lock is held exactly by
\* an operation between its checks and its exit.
TypeOK ==
    /\ health \in Health
    /\ rev \in Nat
    /\ ptr \in Nat
    /\ slots \in [Slots -> Nat]
    /\ lock \in Procs \cup {NoProc}
    /\ op \in [Procs -> [kind : Kinds \cup {"none"}, pc : Points \cup {"idle"},
                         rev : Nat, tok : Nat, cred : Nat]]
    /\ issued \in Nat
    /\ verified \subseteq 1 .. issued
    /\ spent \subseteq 1 .. issued
    /\ lost \subseteq spent
    /\ rejected \subseteq 1 .. issued
    /\ imported \in Nat
    /\ started \in 0 .. MaxOps
    /\ faults \in 0 .. MaxFaults
    /\ \A p \in Procs : lock = p <=> op[p].pc \in Inside

\* A removed connection leaves nothing in custody: neither a slot nor a
\* pointer survives remove, and no concurrent refresh, authorization or
\* import brings one back.
RemovedIsEmpty == health = "absent" => ~Occupied

\* The revoked checkpoint is terminal: no racing operation writes another
\* health over it, and a removed connection never returns.
RevokedTerminal ==
    [][/\ health = "revoked" => health' \in {"revoked", "absent"}
       /\ health = "absent" => health' = "absent"]_vars

\* The token pointer always resolves to a stored secret, through failures
\* and deaths at any point of a publication; only the deletion of a revoked
\* connection may leave it dangling.
PointerResolves == ptr # 0 /\ Custody = 0 => health = "revoked"

\* A connection says ready only over a credential whose account was
\* confirmed, or a refresh of one, whoever replaces credentials meanwhile.
ReadyVerified == health = "ready" /\ Custody # 0 => Custody \in verified

\* Custody never keeps a refresh token the provider has consumed, except
\* while the operation that consumed it is publishing the successor, or
\* when a failure or a death lost that successor: concurrent calls never
\* present one refresh token twice.
SpentAccounted ==
    Custody \in spent =>
        \/ Custody \in lost
        \/ \E p \in Procs : lock = p /\ op[p].pc \in {"stage", "point"}

\* Reauthorization is asked for only when the credential in custody at that
\* moment is the one the provider refused, or the one whose grant, or whose
\* refresh's grant, was not the permissions selected: never for a late
\* answer about a credential that has been replaced.
RejectionCurrent ==
    [][health # "reauth" /\ health' = "reauth" => Custody \in rejected']_vars

\* What custody holds: nothing after a removal, a secret behind the pointer,
\* and no refresh token that was consumed and not replaced.
AuthCustody == RemovedIsEmpty /\ PointerResolves /\ SpentAccounted

\* What no step of any process does: leave the revoked state, or ask for
\* reauthorization over a credential not itself found unusable.
AuthSteps == RevokedTerminal /\ RejectionCurrent

\* An operation that requires a verified identity runs only over a
\* credential whose account was confirmed.
ConfirmedIdentity ==
    health \in VerifiedHealth /\ Custody # 0 => Custody \in verified

=============================================================================
