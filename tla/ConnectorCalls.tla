--------------------------- MODULE ConnectorCalls ---------------------------
(* Calls of connector tools against one connection (connector_runtime.py,
   connector_session.py): reads page by page under sealed cursors, safe
   mutations, and mutations that are previewed, confirmed and executed once.

   Between two steps of a call the connection, its credential, the target at
   the provider and the file grants may change, another call may take a step
   and time may pass. *)
EXTENDS UploadCustody

CONSTANTS Calls,        \* concurrent calls of one runtime
          MaxSpent,     \* capacity of the set of spent nonces
          MaxCursors,   \* capacity of the cursor handles
          MaxClock,     \* bound on the clock
          MaxEdits      \* bound on the changes made by others

\* A sealed confirmation of a preview.
Confirmations == [ver : Nat, cred : Nat, tgt : Nat, iss : Nat, exp : Nat, upload : BOOLEAN]

ASSUME CallsConstants == TTL \in Nat /\ None \notin Tokens \cup Nat \cup Confirmations

VARIABLES conn,       \* the connection: revision of the file, version, tier, health
          cred,       \* version of the stored credential
          target,     \* what the provider's target resolves to
          confirmations,  \* the sealed confirmation of each token, or None
          nonces,     \* tokens whose nonce is recorded as spent
          cursors,    \* live cursor handles
          call,       \* the calls in flight
          executed,   \* executions sent to the provider under each token
          served,     \* the last page returned: what its read began and ended under
          edits,      \* changes made by others
          tools       \* the kinds of calls the client makes

callvars ==
    <<conn, cred, target, confirmations, nonces, cursors, call, executed, served, edits, tools>>

sessionvars == <<custodyvars, callvars>>

Idle == [pc |-> "idle", kind |-> "none", tok |-> None, rev |-> 0, ver |-> 0, cred |-> 0,
         tgt |-> 0, cur |-> None, pinned |-> FALSE, owns |-> FALSE]

ReadKinds == {"read", "page", "corpus"}

UploadKinds == {"previewUpload", "safeUpload"}

NewWriteKinds == {"preview", "safe"} \cup UploadKinds

Uploads(c) == call[c].tok # None /\ bundle[call[c].tok].grant # None

Goes(c, pc) == call' = [call EXCEPT ![c].pc = pc]

TokenFree(t) ==
    confirmations[t] = None /\ bundle[t] = NoBundle /\ \A c \in Calls : call[c].tok # t

\* The end of call_tool, by any path: an entry held is unpinned, a bundle this
\* call still owns is closed, and the cache is pruned.
Leave(c, bs) ==
    /\ CacheBecomes(IF call[c].pinned THEN Unpinned(bs, call[c].tok) ELSE bs)
    /\ call' = [call EXCEPT ![c] = Idle]

CloseOwned(c) ==
    IF call[c].owns THEN [bundle EXCEPT ![call[c].tok] = BundleClosed(@)] ELSE bundle

Fails(c) == Leave(c, CloseOwned(c))

outside == <<clock, granted, revoked, revoking, stopped, closed>>

\* Everything but the calls and the snapshots with their timer.
rest ==
    <<outside, conn, cred, target, confirmations, nonces, cursors, executed, served, edits, tools>>

-----------------------------------------------------------------------------
\* _call_tool up to the credential: the connection is read once, and its
\* health and tier are checked against the mode of the call.
Admit(c, kind, t, k) ==
    /\ call[c] = Idle /\ ~closed
    /\ kind \in tools
    /\ conn.ready
    /\ kind \notin ReadKinds => conn.full
    /\ CacheBecomes(bundle)
    /\ call' = [call EXCEPT ![c] = [Idle EXCEPT !.pc = "resolve", !.kind = kind, !.tok = t,
                                    !.rev = conn.rev, !.ver = conn.ver, !.cur = k]]
    /\ UNCHANGED rest

BeginCall(c) ==
    \/ \E kind \in {"read", "corpus"} : Admit(c, kind, None, None)
    \/ \E k \in cursors : Admit(c, "page", None, k)
    \/ \E t \in Tokens : TokenFree(t) /\ \E kind \in NewWriteKinds :
                            Admit(c, kind, t, None)
    \/ \E t \in Tokens : confirmations[t] # None /\ Admit(c, "confirm", t, None)

AfterResolve(c) ==
    CASE call[c].kind \in {"read", "corpus"}            -> "execute"
      [] call[c].kind = "page"                          -> "open"
      [] call[c].kind \in UploadKinds                   -> "register"
      [] call[c].kind = "preview"                       -> "target"
      [] call[c].kind = "safe"                          -> "execute"
      [] call[c].kind = "confirm" /\ confirmations[call[c].tok].upload -> "hold"
      [] OTHER                                          -> "target"

\* _resolve_credential, and the connection's revision read again after it.
ResolveCredential(c) ==
    /\ call[c].pc = "resolve"
    /\ IF conn.rev = call[c].rev
         THEN /\ call' = [call EXCEPT ![c].cred = cred, ![c].pc = AfterResolve(c)]
              /\ UNCHANGED <<bundle, timer>>
         ELSE Fails(c)
    /\ UNCHANGED rest

-----------------------------------------------------------------------------
\* Mutant: a spent nonce is dropped while its token is still valid.
LiveSpentEarly == {t \in nonces : clock + 1 < confirmations[t].exp}

\* _prune_state drops the nonces and the handles that have expired.
LiveSpent == {t \in nonces : clock < confirmations[t].exp}

LiveCursors == {k \in cursors : clock < k.exp}

\* _validate_times
ValidTimes(token) == token.iss <= clock /\ clock < token.exp

\* _require_bindings for a cursor
CursorMatches(c, k) == k.rev = call[c].rev /\ k.cred = call[c].cred

\* open_cursor
OpenCursor(c) ==
    LET k == call[c].cur IN
    /\ call[c].pc = "open"
    /\ nonces' = LiveSpent /\ cursors' = LiveCursors
    /\ IF ValidTimes(k) /\ CursorMatches(c, k) /\ k \in LiveCursors
         THEN Goes(c, "execute") /\ UNCHANGED <<bundle, timer>>
         ELSE Fails(c)
    /\ UNCHANGED <<outside, conn, cred, target, confirmations, executed, served, edits, tools>>

\* _state_changed
StateChanged(c) == conn.rev # call[c].rev \/ cred # call[c].cred

First(c) == IF call[c].cur = None THEN <<call[c].rev, call[c].cred>> ELSE call[c].cur.first

CursorFor(c) ==
    [rev |-> call[c].rev, cred |-> call[c].cred, iss |-> clock, exp |-> clock + TTL,
     first |-> First(c)]

\* The end of a read: the page is withheld when the connection or the credential
\* changed meanwhile; a continuation becomes a cursor, if there is room for one.
\* The corpus gets the continuation itself.
ReturnRead(c) ==
    /\ call[c].pc = "return" /\ call[c].kind \in ReadKinds
    /\ \/ /\ StateChanged(c) /\ UNCHANGED <<nonces, cursors, served>>
       \/ /\ ~StateChanged(c) /\ UNCHANGED <<nonces, cursors>>
          /\ served' = <<First(c), <<conn.rev, cred>>>>
       \/ /\ ~StateChanged(c) /\ call[c].kind # "corpus"
          /\ nonces' = LiveSpent
          /\ IF Cardinality(LiveCursors) < MaxCursors
               THEN /\ cursors' = LiveCursors \cup {CursorFor(c)}
                    /\ served' = <<First(c), <<conn.rev, cred>>>>
               ELSE cursors' = LiveCursors /\ UNCHANGED served
    /\ Fails(c)
    /\ UNCHANGED <<outside, conn, cred, target, confirmations, executed, edits, tools>>

-----------------------------------------------------------------------------
\* _prepare_input, one step per operation another actor can come between.
RegisterUpload(c) ==
    /\ call[c].pc = "register"
    /\ \/ \E g \in Grants : Register(call[c].tok, g)
            /\ call' = [call EXCEPT ![c].pc = "reserve", ![c].owns = TRUE]
       \/ granted = {} /\ Fails(c)
    /\ UNCHANGED rest

ReserveUpload(c) ==
    /\ call[c].pc = "reserve"
    /\ \/ Reserve(call[c].tok) /\ Goes(c, "copy")
       \/ ~Reservable(call[c].tok) /\ Fails(c)
    /\ UNCHANGED rest

CopyUpload(c) ==
    /\ call[c].pc = "copy"
    /\ \/ Copy(call[c].tok) /\ Goes(c, IF call[c].kind = "safeUpload" THEN "execute" ELSE "target")
       \/ Fails(c)                         \* revoked, changed or grown meanwhile
    /\ UNCHANGED rest

\* _resolve_confirmation_target asks the provider what the mutation is about.
ResolveTarget(c) ==
    /\ call[c].pc = "target"
    /\ call' = [call EXCEPT ![c].tgt = target,
                            ![c].pc = IF call[c].kind = "confirm" THEN "consume" ELSE "issue"]
    /\ UNCHANGED <<bundle, timer>>
    /\ UNCHANGED rest

\* _confirmation_preview and issue_confirmation, then put: the token is returned
\* only once its snapshots are in the cache.
Issue(c) ==
    LET t == call[c].tok IN
    /\ call[c].pc = "issue"
    /\ \/ /\ call[c].kind = "preview" \/ Puttable(t)
          /\ confirmations' = [confirmations EXCEPT ![t] =
                 [ver |-> call[c].ver, cred |-> call[c].cred, tgt |-> call[c].tgt,
                  iss |-> clock, exp |-> clock + TTL, upload |-> call[c].kind = "previewUpload"]]
          /\ IF call[c].kind = "preview"
               THEN Fails(c)
               ELSE Put(t) /\ call' = [call EXCEPT ![c] = Idle]
       \/ /\ call[c].kind = "previewUpload" /\ ~Puttable(t)
          /\ Fails(c) /\ UNCHANGED confirmations
    /\ UNCHANGED <<outside, conn, cred, target, nonces, cursors, executed, served, edits, tools>>

-----------------------------------------------------------------------------
\* A confirmation with snapshots pins them before anything else.
HoldUpload(c) ==
    /\ call[c].pc = "hold"
    /\ \/ /\ Hold(call[c].tok)
          /\ call' = [call EXCEPT ![c].pc = "bind", ![c].pinned = TRUE]
       \/ ~Holdable(call[c].tok) /\ Fails(c)
    /\ UNCHANGED rest

\* _bind_prepared_input; a bundle whose authority went meanwhile is discarded.
BindUpload(c) ==
    LET t == call[c].tok IN
    /\ call[c].pc = "bind"
    /\ IF bundle[t].st = "open"
         THEN Goes(c, "target") /\ UNCHANGED <<bundle, timer>>
         ELSE Leave(c, Discarded(bundle, t))
    /\ UNCHANGED rest

\* _require_bindings
TokenMatches(c, token) ==
    token.ver = call[c].ver /\ token.cred = call[c].cred /\ token.tgt = call[c].tgt

\* consume_confirmation spends the nonce before anything is sent.
Consume(c) ==
    LET t == call[c].tok IN
    /\ call[c].pc = "consume"
    /\ IF ValidTimes(confirmations[t]) /\ TokenMatches(c, confirmations[t])
         THEN IF t \notin LiveSpent /\ Cardinality(LiveSpent) < MaxSpent
                THEN /\ nonces' = LiveSpent \cup {t} /\ cursors' = LiveCursors
                     /\ Goes(c, IF confirmations[t].upload THEN "take" ELSE "stable")
                     /\ UNCHANGED <<bundle, timer>>
                ELSE nonces' = LiveSpent /\ cursors' = LiveCursors /\ Fails(c)
         ELSE Fails(c) /\ UNCHANGED <<nonces, cursors>>
    /\ UNCHANGED <<outside, conn, cred, target, confirmations, executed, served, edits, tools>>

TakeUpload(c) ==
    /\ call[c].pc = "take"
    /\ \/ /\ Take(call[c].tok)
          /\ call' = [call EXCEPT ![c].pc = "stable", ![c].pinned = FALSE, ![c].owns = TRUE]
       \/ ~Takeable(call[c].tok) /\ Fails(c)
    /\ UNCHANGED rest

\* _assert_confirmation_target_stable
TargetStable(c) ==
    /\ call[c].pc = "stable"
    /\ IF target = call[c].tgt THEN Goes(c, "execute") /\ UNCHANGED <<bundle, timer>>
                               ELSE Fails(c)
    /\ UNCHANGED rest

\* _execute_adapter: the provider sees the request from here on.
Execute(c) ==
    /\ call[c].pc = "execute"
    /\ executed' = IF call[c].kind = "confirm" THEN [executed EXCEPT ![call[c].tok] = @ + 1]
                                               ELSE executed
    /\ Goes(c, IF Uploads(c) THEN "send" ELSE "return") /\ UNCHANGED <<bundle, timer>>
    /\ UNCHANGED <<outside, conn, cred, target, confirmations, nonces, cursors, served, edits, tools>>

\* iter_chunks, one chunk after the other until the adapter has enough.
Send(c) ==
    LET t == call[c].tok IN
    /\ call[c].pc = "send"
    /\ \/ Deliver(t) /\ UNCHANGED call
       \/ Delivered(t) /\ UNCHANGED call
       \/ ~bundle[t].sending /\ bundle[t].cancelled /\ Fails(c)
       \/ ~bundle[t].sending /\ Goes(c, "return") /\ UNCHANGED <<bundle, timer>>
    /\ UNCHANGED rest

\* A write returns whether or not the connection changed meanwhile (the status
\* says so), and an owned bundle is closed.
ReturnWrite(c) ==
    /\ call[c].pc = "return" /\ call[c].kind \notin ReadKinds
    /\ Fails(c)
    /\ UNCHANGED rest

\* The provider fails the request; an authentication failure marks the connection
\* unless it or the credential changed since (_project_auth_failure).
ProviderFails(c) ==
    /\ call[c].pc \in {"target", "return"}
    /\ \/ UNCHANGED conn
       \/ /\ ~StateChanged(c) /\ conn.ready /\ edits < MaxEdits
          /\ conn' = [conn EXCEPT !.ready = FALSE, !.rev = @ + 1, !.ver = @ + 1]
    /\ Fails(c)
    /\ UNCHANGED <<outside, cred, target, confirmations, nonces, cursors, executed, served, edits, tools>>

-----------------------------------------------------------------------------
Edit == edits < MaxEdits /\ edits' = edits + 1

\* Another process edits this connection, or another one in the same file.
ConnectionChanges ==
    /\ Edit
    /\ \/ \E f, r \in BOOLEAN :
            conn' = [rev |-> conn.rev + 1, ver |-> conn.ver + 1, full |-> f, ready |-> r]
       \/ conn' = [conn EXCEPT !.rev = @ + 1]
    /\ UNCHANGED <<custodyvars, cred, target, confirmations, nonces, cursors, call, executed, served, tools>>

\* The credential is refreshed or rotated.
CredentialChanges ==
    /\ Edit /\ cred' = cred + 1
    /\ UNCHANGED <<custodyvars, conn, target, confirmations, nonces, cursors, call, executed, served, tools>>

\* Someone changes the target at the provider.
TargetMoves ==
    /\ Edit /\ target' = target + 1
    /\ UNCHANGED <<custodyvars, conn, cred, confirmations, nonces, cursors, call, executed, served, tools>>

Tick ==
    /\ clock < MaxClock /\ clock' = clock + 1
    /\ UNCHANGED <<bundle, timer, granted, revoked, revoking, stopped, closed, callvars>>

CallsInit ==
    /\ CustodyInit
    /\ conn = [rev |-> 0, ver |-> 0, full |-> TRUE, ready |-> TRUE]
    /\ cred = 0 /\ target = 0
    /\ confirmations = [t \in Tokens |-> None]
    /\ nonces = {} /\ cursors = {}
    /\ call = [c \in Calls |-> Idle]
    /\ executed = [t \in Tokens |-> 0]
    /\ served = None
    /\ edits = 0
    /\ tools \in {ReadKinds, {"preview", "safe", "confirm"}, UploadKinds \cup {"confirm"}}

Step(c) ==
    \/ BeginCall(c) \/ ResolveCredential(c) \/ OpenCursor(c) \/ ReturnRead(c)
    \/ RegisterUpload(c) \/ ReserveUpload(c) \/ CopyUpload(c)
    \/ ResolveTarget(c) \/ Issue(c)
    \/ HoldUpload(c) \/ BindUpload(c) \/ Consume(c) \/ TakeUpload(c) \/ TargetStable(c)
    \/ Execute(c) \/ Send(c) \/ ReturnWrite(c) \/ ProviderFails(c)

\* Without uploads there is nothing in the custody of the runtime to change.
CallsNext ==
    \/ \E c \in Calls : Step(c)
    \/ tools \cap UploadKinds # {} /\ CustodyNext /\ UNCHANGED callvars
    \/ ConnectionChanges \/ CredentialChanges \/ TargetMoves \/ Tick

CallsSpec == CallsInit /\ [][CallsNext]_sessionvars

-----------------------------------------------------------------------------
\* A confirmation is good for one execution: whatever two calls confirm at the
\* same time, however long the nonce is remembered and whatever fails after it
\* is spent (consume_confirmation before take, stable and execute).
OnceConfirmed == \A t \in Tokens : executed[t] <= 1

\* When no call is in flight every snapshot that still holds bytes of the budget
\* waits in the cache for its confirmation (the finally blocks of _call_tool,
\* assembly.close and the prune of call_tool).
SnapshotsOwned ==
    \A t \in Tokens :
        bundle[t].reserved =>
            bundle[t].cached \/ \E c \in Calls : call[c].tok = t

\* All pages of a read, followed through its cursors, were served under the
\* connection revision and the credential version the first page began with
\* (open_cursor's bindings and _state_changed after the provider's answer).
PagesOfOneConnection == served # None => served[1] = served[2]

\* The snapshots and cursors a call leaves behind: owned, watched by a timer,
\* stopped by a revoke, and bound to one connection.
CustodyKept == SnapshotsOwned /\ Watched /\ RevokeStops /\ PagesOfOneConnection
=============================================================================
