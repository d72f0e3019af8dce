--------------------------- MODULE UploadCustody ---------------------------
(* Snapshots of local files that wait for a confirmation: who owns them,
   the byte budget they hold, the grants they were copied under, and the
   timer that expires them (connector_transfer.py, local_files.py).

   A snapshot is named by the confirmation token its preview is about.  The
   bytes are abstracted to one unit of the budget per snapshot. *)
EXTENDS Naturals, FiniteSets

CONSTANTS Tokens,         \* confirmation tokens, one per preview
          Grants,         \* ids of local root grants
          TTL,            \* lifetime of a token and of its snapshot
          MaxSnapshots,   \* the byte budget, in snapshots
          MaxEntries,     \* capacity of the cache
          None

VARIABLES clock,      \* time.time and time.monotonic advance together
          bundle,     \* the snapshot of each token
          timer,      \* when the scheduled expiry fires, or None
          granted,    \* grants on disk
          revoked,    \* ids of grants that were removed
          revoking,   \* snapshots a revoke is waiting for, or None
          stopped,    \* snapshots a revoke reported as stopped
          closed      \* PreparedUploadCache._closed

custodyvars == <<clock, bundle, timer, granted, revoked, revoking, stopped, closed>>

NoBundle == [st |-> "none", grant |-> None, reserved |-> FALSE, cached |-> FALSE,
             exp |-> 0, pins |-> 0, cancelled |-> FALSE, sending |-> FALSE]

Bundles ==
    [st : {"none", "assembling", "open", "closed"}, grant : Grants \cup {None},
     reserved : BOOLEAN, cached : BOOLEAN, exp : Nat, pins : Nat,
     cancelled : BOOLEAN, sending : BOOLEAN]

\* Closing a bundle or its assembly closes every upload, gives the reserved
\* bytes back once, and closes the authority, which cancels it.
BundleClosed(b) ==
    [b EXCEPT !.st = "closed", !.reserved = FALSE, !.cancelled = TRUE]

Uncached(b) == [b EXCEPT !.cached = FALSE, !.pins = 0]

Expired(b) == b.pins = 0 /\ b.exp <= clock

\* _prune_locked: a closed entry goes even while it is pinned.
Pruned(bs) ==
    [t \in Tokens |->
        IF bs[t].cached /\ (bs[t].st = "closed" \/ Expired(bs[t]))
          THEN Uncached(BundleClosed(bs[t])) ELSE bs[t]]

Watchable(bs) == {t \in Tokens : bs[t].cached /\ bs[t].pins = 0 /\ bs[t].st # "closed"}

\* _reschedule_locked: the earliest expiry among unpinned open entries.
Rescheduled(bs) ==
    IF Watchable(bs) = {} \/ closed THEN None
    ELSE CHOOSE e \in {bs[t].exp : t \in Watchable(bs)} :
            \A t \in Watchable(bs) : e <= bs[t].exp

LiveBytes(bs) == Cardinality({t \in Tokens : bs[t].reserved})

\* Every locked operation of the cache prunes and then reschedules.
CacheBecomes(bs) == bundle' = Pruned(bs) /\ timer' = Rescheduled(Pruned(bs))

-----------------------------------------------------------------------------
\* LocalFileGrantStore.create
CreateGrant(g) ==
    /\ g \notin granted \cup revoked
    /\ granted' = granted \cup {g}
    /\ UNCHANGED <<clock, bundle, timer, revoked, revoking, stopped, closed>>

\* register_transfer_authority checks the grant under the store lock, and only
\* a use registered in this process can be cancelled by a revoke.
Register(t, g) ==
    /\ g \in granted
    /\ bundle' = [bundle EXCEPT ![t].st = "assembling", ![t].grant = g]
    /\ UNCHANGED timer

\* reserve prunes without rescheduling; an assembly a revoke closed meanwhile
\* releases the reservation and refuses.
Reservable(t) ==
    /\ ~closed
    /\ bundle[t].st = "assembling"
    /\ LiveBytes(Pruned(bundle)) < MaxSnapshots

Reserve(t) ==
    /\ Reservable(t)
    /\ bundle' = [Pruned(bundle) EXCEPT ![t].reserved = TRUE]
    /\ UNCHANGED timer

\* prepare_upload reads the source in chunks, each under the store lock with the
\* grants re-read; finish binds the authority and the grants are read once more.
Copyable(t) ==
    bundle[t].st = "assembling" /\ ~bundle[t].cancelled /\ bundle[t].grant \in granted

Copy(t) ==
    /\ Copyable(t)
    /\ bundle' = [bundle EXCEPT ![t].st = "open"]
    /\ UNCHANGED timer

\* put takes the bundle over under its token, with a lifetime of its own.
Puttable(t) ==
    /\ ~closed
    /\ bundle[t].st = "open"
    /\ Cardinality({u \in Tokens : Pruned(bundle)[u].cached}) < MaxEntries

Put(t) ==
    Puttable(t) /\ CacheBecomes([Pruned(bundle) EXCEPT ![t].cached = TRUE,
                                                       ![t].exp = clock + TTL])

\* hold pins a current entry; a pinned entry does not expire.
Holdable(t) == ~closed /\ Pruned(bundle)[t].cached

Hold(t) == Holdable(t) /\ CacheBecomes([Pruned(bundle) EXCEPT ![t].pins = @ + 1])

\* Leaving hold unpins the entry it pinned, if that is still the current one.
Unpinned(bs, t) ==
    IF bs[t].cached THEN [bs EXCEPT ![t].pins = @ - 1] ELSE bs

\* take transfers ownership to the caller, once the nonce is spent.
Takeable(t) == ~closed /\ Pruned(bundle)[t].cached

Take(t) == Takeable(t) /\ CacheBecomes([Pruned(bundle) EXCEPT ![t] = Uncached(@)])

Discarded(bs, t) == [bs EXCEPT ![t] = Uncached(BundleClosed(@))]

\* delivery: one chunk of the snapshot goes to the provider, counted so that a
\* revoke can wait for it; the grants on disk are not read again.
Deliver(t) ==
    /\ bundle[t].st = "open" /\ ~bundle[t].cancelled /\ ~bundle[t].sending
    /\ bundle' = [bundle EXCEPT ![t].sending = TRUE]
    /\ UNCHANGED timer

Delivered(t) ==
    /\ bundle[t].sending
    /\ bundle' = [bundle EXCEPT ![t].sending = FALSE]
    /\ UNCHANGED timer

-----------------------------------------------------------------------------
\* _expire_scheduled
Expire ==
    /\ timer # None /\ timer <= clock /\ ~closed
    /\ CacheBecomes(bundle)
    /\ UNCHANGED <<clock, granted, revoked, revoking, stopped, closed>>

Uses(g) == {t \in Tokens : bundle[t].grant = g /\ bundle[t].st \in {"assembling", "open"}}

\* revoke, up to the release of the store lock: the grant leaves the disk, the
\* registered uses are cancelled and their bundles closed.
Revoke(g) ==
    /\ g \in granted /\ revoking = None
    /\ granted' = granted \ {g} /\ revoked' = revoked \cup {g}
    /\ bundle' = [t \in Tokens |-> IF t \in Uses(g) THEN BundleClosed(bundle[t])
                                                    ELSE bundle[t]]
    /\ revoking' = Uses(g)
    /\ UNCHANGED <<clock, timer, stopped, closed>>

\* Mutant: revoke returns without waiting for the chunk in flight.
QuiescentAssumed == TRUE

Quiescent == \A t \in revoking : ~bundle[t].sending

\* _await_authority_cancellation: every cancelled use has no chunk in flight.
RevokeReturns ==
    /\ revoking # None /\ Quiescent
    /\ stopped' = stopped \cup revoking /\ revoking' = None
    /\ UNCHANGED <<clock, bundle, timer, granted, revoked, closed>>

\* The wait is bounded; the revoke then raises, with the grant gone.
RevokeTimesOut ==
    /\ revoking # None /\ ~Quiescent
    /\ revoking' = None
    /\ UNCHANGED <<clock, bundle, timer, granted, revoked, stopped, closed>>

\* The same revoke from another process: the uses registered there are not the
\* ones registered here.
RevokeElsewhere(g) ==
    /\ g \in granted
    /\ granted' = granted \ {g} /\ revoked' = revoked \cup {g}
    /\ UNCHANGED <<clock, bundle, timer, revoking, stopped, closed>>

\* PreparedUploadCache.close, from ConnectorRuntime.close.
Close ==
    /\ ~closed
    /\ closed' = TRUE /\ timer' = None
    /\ bundle' = [t \in Tokens |-> IF bundle[t].cached THEN Uncached(BundleClosed(bundle[t]))
                                                       ELSE bundle[t]]
    /\ UNCHANGED <<clock, granted, revoked, revoking, stopped>>

-----------------------------------------------------------------------------
CustodyInit ==
    /\ clock = 0
    /\ bundle = [t \in Tokens |-> NoBundle]
    /\ timer = None
    /\ granted = {} /\ revoked = {}
    /\ revoking = None /\ stopped = {}
    /\ closed = FALSE

CustodyNext ==
    \/ \E g \in Grants : CreateGrant(g) \/ Revoke(g) \/ RevokeElsewhere(g)
    \/ RevokeReturns \/ RevokeTimesOut
    \/ Expire \/ Close

-----------------------------------------------------------------------------
\* A snapshot in the cache that nobody is using has a timer that fires no later
\* than its expiry, so an abandoned preview gives its bytes back without a
\* further call (_reschedule_locked after every change of the entries).
Watched ==
    \A t \in Watchable(bundle) : timer # None /\ timer <= bundle[t].exp

\* Once a revoke of this process has returned, no chunk of the revoked files is
\* on its way to a provider (_await_authority_cancellation, delivery).
RevokeStops == \A t \in stopped : ~bundle[t].sending
=============================================================================
