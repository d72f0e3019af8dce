----------------------------- MODULE AppCorpus ------------------------------
(* app_corpus.py, app_corpus_qmd.py: the local corpus of one connection. A
   sync writes documents as content-addressed leaves and then publishes the
   state that names them; a refresh removes the leaves no document names,
   copies the visible ones into QMD's view and binds the index to them; a
   channel policy hides documents; a search reads all of it without a lock. *)
EXTENDS CorpusProviders

CONSTANTS Docs,        \* objects of the connection
          MaxRevision, \* bound on the revisions the provider makes of them
          MaxSyncs,    \* bound on the pages committed
          Unset        \* nothing: no binding, no one at work

ASSUME CorpusAssumption == Unset \notin {"sync", "refresh"}

VARIABLES corpus,      \* state.json: rev, what a document's leaf holds (0: no
                       \* document), checkpoint, scope and QMD binding
          leaves,      \* the files under documents/, as <<object, revision>>
          hidden,      \* objects the channel policy withholds
          everHidden,  \* objects it has ever withheld
          stateLock,   \* who holds locks/app-corpus.lock
          sync,        \* a sync in progress
          refresh,     \* a refresh in progress
          view,        \* the files QMD is to index
          manifest,    \* what the view was last completely indexed as
          index,       \* what QMD has indexed
          search       \* a search in progress

avars == <<corpus, leaves, hidden, everHidden, stateLock, sync, refresh,
           view, manifest, index, search, odds, meddled>>
qmd == <<view, manifest, index>>
corpusState == <<corpus, leaves, hidden, everHidden, stateLock, sync, refresh, qmd, search>>

Leaf(d, r) == <<d, r>>
NamedLeaves == {Leaf(d, corpus.rev[d]) : d \in {x \in Docs : corpus.rev[x] > 0}}

(* The records visible under the channel policy as it is now. *)
VisibleOf(set) == {l \in set : l[1] \notin hidden}
Visible == VisibleOf(NamedLeaves)

(* The binding is the fingerprint of the leaves the index was built from. *)
Current == Visible # {} /\ corpus.binding = Visible

--------------------------------------------------------------------------------
(* The connection's cursor and scope are read under the state lock, and the
   provider is read under the connection's lock only. *)
Token == <<corpus.checkpoint, corpus.scope>>

BeginSync ==
    /\ sync = Unset /\ stateLock = Unset
    /\ sync' = [at |-> "reading", token |-> Token, rev |-> corpus.rev, todo |-> {}]
    /\ UNCHANGED <<corpus, leaves, hidden, everHidden, stateLock, refresh, qmd, search, odds, meddled>>

(* A page of the provider: new revisions and deletions. The state is read
   again, and a cursor or scope that changed refuses the page. A leaf is
   written only for a record whose digest changed. *)
Commits(page) == {Leaf(d, page[d]) : d \in {x \in DOMAIN page : page[x] > 0 /\ page[x] # corpus.rev[x]}}

SameToken == Token = sync.token

ReceivePage ==
    /\ sync # Unset /\ sync.at = "reading" /\ stateLock = Unset
    /\ IF SameToken
       THEN \E d \in Docs : \E r \in {0, corpus.rev[d], corpus.rev[d] + 1} :
                /\ r <= MaxRevision
                /\ stateLock' = "sync"
                /\ sync' = [sync EXCEPT !.at = "writing", !.rev = [corpus.rev EXCEPT ![d] = r],
                                        !.todo = Commits([x \in {d} |-> r])]
       ELSE sync' = Unset /\ UNCHANGED stateLock
    /\ UNCHANGED <<corpus, leaves, hidden, everHidden, refresh, qmd, search, odds, meddled>>

WriteLeaf ==
    /\ sync # Unset /\ sync.at = "writing"
    /\ \E l \in sync.todo :
           /\ leaves' = leaves \cup {l}
           /\ sync' = [sync EXCEPT !.todo = @ \ {l}]
    /\ UNCHANGED <<corpus, hidden, everHidden, stateLock, refresh, qmd, search, odds, meddled>>

LeavesWritten == sync.todo = {}

PublishState ==
    /\ sync # Unset /\ sync.at = "writing" /\ LeavesWritten
    /\ corpus.checkpoint < MaxSyncs
    /\ corpus' = [corpus EXCEPT !.rev = sync.rev, !.checkpoint = @ + 1]
    /\ IF sync.todo = {}
       THEN sync' = Unset /\ stateLock' = Unset
       ELSE UNCHANGED <<sync, stateLock>>
    /\ UNCHANGED <<leaves, hidden, everHidden, refresh, qmd, search, odds, meddled>>

(* The provider fails, the deadline passes, or the process dies. A failure
   that is recorded keeps both checkpoints, so the token stays the same. *)
SyncEnds ==
    /\ sync # Unset /\ Odd
    /\ sync' = Unset
    /\ stateLock' = IF sync.at = "writing" THEN Unset ELSE stateLock
    /\ UNCHANGED <<corpus, leaves, hidden, everHidden, refresh, qmd, search, meddled>>

Configure ==
    /\ stateLock = Unset /\ corpus.scope < 1
    /\ corpus' = [corpus EXCEPT !.scope = @ + 1]
    /\ UNCHANGED <<leaves, hidden, everHidden, stateLock, sync, refresh, qmd, search, odds, meddled>>

--------------------------------------------------------------------------------
(* A refresh holds its own lock to the end and the state lock only while it
   reads or writes the state. *)
BeginRefresh ==
    /\ refresh = Unset /\ stateLock = Unset
    /\ ~Current
    /\ refresh' = [at |-> "cleaning", snapshot |-> Visible]
    /\ stateLock' = "refresh"
    /\ UNCHANGED <<corpus, leaves, hidden, everHidden, sync, qmd, search, odds, meddled>>

(* A leaf no visible record names is an orphan. *)
Orphans == leaves \ refresh.snapshot

RemoveOrphan ==
    /\ refresh # Unset /\ refresh.at = "cleaning"
    /\ \E l \in Orphans : leaves' = leaves \ {l}
    /\ UNCHANGED <<corpus, hidden, everHidden, stateLock, sync, refresh, qmd, search, odds, meddled>>

RefreshEnds == refresh' = Unset

(* No QMD: exact search remains. No visible document: nothing to index. *)
Cleaned ==
    /\ refresh # Unset /\ refresh.at = "cleaning" /\ Orphans = {}
    /\ stateLock' = Unset
    /\ \/ refresh.snapshot # {} /\ refresh' = [refresh EXCEPT !.at = "sources"]
       \/ RefreshEnds
    /\ UNCHANGED <<corpus, leaves, hidden, everHidden, sync, qmd, search, odds, meddled>>

(* Every source is read and checked first; a scope whose manifest and view
   match is ready as it is. *)
ReadSources ==
    /\ refresh # Unset /\ refresh.at = "sources"
    /\ IF refresh.snapshot \subseteq leaves
       THEN refresh' = [refresh EXCEPT !.at =
                IF manifest = refresh.snapshot /\ view = refresh.snapshot THEN "bind" ELSE "view"]
       ELSE RefreshEnds
    /\ UNCHANGED <<corpus, leaves, hidden, everHidden, stateLock, sync, qmd, search, odds, meddled>>

MaterializeView ==
    /\ refresh # Unset /\ refresh.at = "view"
    /\ view' = refresh.snapshot
    /\ refresh' = [refresh EXCEPT !.at = "update"]
    /\ UNCHANGED <<corpus, leaves, hidden, everHidden, stateLock, sync, manifest, index, search, odds, meddled>>

UpdateIndex ==
    /\ refresh # Unset /\ refresh.at = "update"
    /\ index' = view
    /\ refresh' = [refresh EXCEPT !.at = "manifest"]
    /\ UNCHANGED <<corpus, leaves, hidden, everHidden, stateLock, sync, view, manifest, search, odds, meddled>>

WriteManifest ==
    /\ refresh # Unset /\ refresh.at = "manifest"
    /\ manifest' = refresh.snapshot
    /\ refresh' = [refresh EXCEPT !.at = "bind"]
    /\ UNCHANGED <<corpus, leaves, hidden, everHidden, stateLock, sync, view, index, search, odds, meddled>>

StillVisible == Visible = refresh.snapshot

Bind ==
    /\ refresh # Unset /\ refresh.at = "bind" /\ stateLock = Unset
    /\ corpus' = IF StillVisible THEN [corpus EXCEPT !.binding = Visible] ELSE corpus
    /\ RefreshEnds
    /\ UNCHANGED <<leaves, hidden, everHidden, stateLock, sync, qmd, search, odds, meddled>>

(* A command fails, the deadline passes, or the process dies. *)
RefreshFails ==
    /\ refresh # Unset /\ Odd
    /\ RefreshEnds
    /\ stateLock' = IF refresh.at = "cleaning" THEN Unset ELSE stateLock
    /\ UNCHANGED <<corpus, leaves, hidden, everHidden, sync, qmd, search, meddled>>

--------------------------------------------------------------------------------
(* The person edits which channels may be read. *)
SetPolicy(d) ==
    /\ Odd
    /\ hidden' = IF d \in hidden THEN hidden \ {d} ELSE hidden \cup {d}
    /\ everHidden' = everHidden \cup {d}
    /\ UNCHANGED <<corpus, leaves, stateLock, sync, refresh, qmd, search, meddled>>

--------------------------------------------------------------------------------
(* A search copies the published state, with the policy as it is read right
   after, and then works without a lock while syncs and refreshes go on. It
   asks the index only under a binding to these very documents; otherwise,
   and when QMD fails, it goes through the documents themselves. *)
BeginSearch ==
    /\ search = Unset
    /\ search' = [known |-> Visible, withheld |-> hidden, asks |-> Current, commit |-> corpus.checkpoint]
    /\ UNCHANGED <<corpus, leaves, hidden, everHidden, stateLock, sync, refresh, qmd, odds, meddled>>

(* A row of the index counts only when it is one of the copied documents; a
   hit whose leaf has gone or has another digest is left out. *)
RecordsOf(rows) == rows \cap search.known
ScopedHits == RecordsOf(index) \cap leaves

(* The exact search first brings an index of its own to these documents, in
   one transaction that is rolled back, and the search refused, when a leaf
   it has to read is gone. *)
Reindexed == search.known \subseteq leaves
LexicalHits == search.known \cap leaves

Answers == {LexicalHits} \cup (IF search.asks THEN {ScopedHits} ELSE {})

EndSearch ==
    /\ search # Unset
    /\ search' = Unset
    /\ UNCHANGED <<corpus, leaves, hidden, everHidden, stateLock, sync, refresh, qmd, odds, meddled>>

(* read, under the state lock: the document, nothing, or the refusal that
   its leaf disappeared. *)
ReadOf(l) == IF l[1] \in hidden THEN "nothing" ELSE IF l \in leaves THEN "text" ELSE "disappeared"

--------------------------------------------------------------------------------
CorpusInit ==
    /\ FaultsInit
    /\ corpus = [rev |-> [d \in Docs |-> 0], checkpoint |-> 0, scope |-> 0, binding |-> Unset]
    /\ leaves = {} /\ hidden = {} /\ everHidden = {}
    /\ stateLock = Unset /\ sync = Unset /\ refresh = Unset
    /\ view = {} /\ manifest = {} /\ index = {} /\ search = Unset

CorpusNext ==
    \/ BeginSync \/ ReceivePage \/ WriteLeaf \/ PublishState \/ SyncEnds \/ Configure
    \/ BeginRefresh \/ RemoveOrphan \/ Cleaned \/ ReadSources \/ MaterializeView \/ UpdateIndex
    \/ WriteManifest \/ Bind \/ RefreshFails
    \/ BeginSearch \/ EndSearch
    \/ \E d \in Docs : SetPolicy(d)

(* The corpus and the source one of its connections reads, side by side. *)
CorpusSpec ==
    /\ ProviderInit /\ CorpusInit
    /\ [][\/ ProviderNext /\ UNCHANGED corpusState
          \/ CorpusNext /\ UNCHANGED providerState]_<<providerState, corpusState, odds, meddled>>

(* Whatever a sync and a refresh do to the same documents at the same time,
   and wherever either is cut off, the published state names only leaves
   that are there: a document the policy has never withheld can be read. *)
Readable == \A l \in NamedLeaves : l[1] \notin everHidden => ReadOf(l) = "text"

(* No answer holds a document the policy withheld when the search began,
   whatever the index still lists; and until a sync commits, the exact
   search is not refused and finds all the policy has never withheld,
   whatever a refresh removes meanwhile (search, _visible_documents,
   _scoped_qmd_hits, _lexical_hits). *)
SearchFinds ==
    search # Unset =>
        LET open == {l \in search.known : l[1] \notin everHidden} IN
        /\ \A hits \in Answers : \A l \in hits : l[1] \notin search.withheld
        /\ search.commit = corpus.checkpoint => open \subseteq LexicalHits /\ (open = search.known => Reindexed)

(* What the corpus has taken a checkpoint past is in it, can be read, and is
   found by a search that runs meanwhile. *)
CorpusComplete == NothingMissed /\ Readable /\ SearchFinds
=============================================================================
