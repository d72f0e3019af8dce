------------------------------- MODULE Recall -------------------------------
(* Recall over the vault's Markdown (recall.py): under one lock a call reads
   the documents, and a refresh publishes a snapshot of them, has QMD index
   it in several commands and at last stores the fingerprint of what it read.
   A search trusts the index when that fingerprint is of today's documents. *)
EXTENDS HostFaults, FiniteSets

CONSTANTS Notes,        \* the Markdown documents of the vault
          Unindexed     \* no snapshot, no index, no fingerprint, nothing read

VARIABLES notes,        \* [Notes -> version]: the documents as they are
          snapshot,     \* the documents in the snapshot directory
          qmdIndex,     \* the documents QMD has indexed
          collected,    \* the collection is bound to the snapshot directory
          fingerprint,  \* what the stored fingerprint is of
          recall,       \* the call that holds recall.lock: [pc, kind, seen, says]
          cut           \* ghost: the snapshot was replaced since the fingerprint

recallVars == <<notes, snapshot, qmdIndex, collected, fingerprint, recall, cut>>
rvars == <<recallVars, odds, meddled>>

Done(says) == recall' = [recall EXCEPT !.pc = "idle", !.says = says]
Proceed(pc) == recall' = [recall EXCEPT !.pc = pc]

\* What a call has read: a version of each document it has come to.
NothingRead == [d \in {} |-> 0]
WithRead(seen, d, v) == [e \in DOMAIN seen \cup {d} |-> IF e = d THEN v ELSE seen[e]]

BeginRecall ==
  /\ recall.pc = "idle"
  /\ \E kind \in {"refresh", "rebuild", "search"} :
       recall' = [pc |-> "discover", kind |-> kind, seen |-> NothingRead, says |-> "working"]
  /\ UNCHANGED <<notes, snapshot, qmdIndex, collected, fingerprint, cut, odds, meddled>>

\* A document that changes under its reader, or is too large, unreadable or
\* quarantined, is skipped (0).
ReadAs(d) == {notes[d], 0}

(* _discover reads document after document. *)
ReadNote ==
  /\ recall.pc = "discover"
  /\ \E d \in Notes \ DOMAIN recall.seen : \E v \in ReadAs(d) :
       /\ IF v = 0 THEN Odd ELSE UNCHANGED odds
       /\ recall' = [recall EXCEPT !.seen = WithRead(recall.seen, d, v)]
  /\ UNCHANGED <<notes, snapshot, qmdIndex, collected, fingerprint, cut, meddled>>

Discovered == recall.pc = "discover" /\ DOMAIN recall.seen = Notes

\* The stored fingerprint, the snapshot and the collection are all there.
Trusted == fingerprint = recall.seen /\ snapshot # Unindexed /\ collected

\* The hits are QMD's rows that name a document just read, or those documents
\* themselves.
Answer == IF Trusted THEN "qmd" ELSE "markdown"

(* _search_unlocked: QMD when its index is trusted, else the documents just
   read; either way a hit is one of those. *)
Search ==
  /\ Discovered /\ recall.kind = "search"
  /\ Done(Answer)
  /\ UNCHANGED <<notes, snapshot, qmdIndex, collected, fingerprint, cut, odds, meddled>>

Rebuilding == recall.kind = "rebuild"

(* _refresh_unlocked: nothing to do, or begin; a rebuild always begins. *)
BeginIndexing ==
  /\ Discovered /\ recall.kind # "search"
  /\ IF ~Rebuilding /\ Trusted THEN Done("current") ELSE Proceed("remove_snapshot")
  /\ UNCHANGED <<notes, snapshot, qmdIndex, collected, fingerprint, cut, odds, meddled>>

(* _publish_snapshot: the staged tree takes the place of the one removed. *)
RemoveSnapshot ==
  /\ recall.pc = "remove_snapshot" /\ Proceed("publish")
  /\ snapshot' = Unindexed /\ cut' = TRUE
  /\ UNCHANGED <<notes, qmdIndex, collected, fingerprint, odds, meddled>>

PublishSnapshot ==
  /\ recall.pc = "publish" /\ Proceed("remove")
  /\ snapshot' = recall.seen
  /\ UNCHANGED <<notes, qmdIndex, collected, fingerprint, cut, odds, meddled>>

(* The commands of QMD: remove the collection, add it, update, embed. *)
RemoveCollection ==
  /\ recall.pc = "remove" /\ Proceed("add") /\ collected' = FALSE
  /\ UNCHANGED <<notes, snapshot, qmdIndex, fingerprint, cut, odds, meddled>>

AddCollection ==
  /\ recall.pc = "add" /\ Proceed("update") /\ collected' = TRUE
  /\ UNCHANGED <<notes, snapshot, qmdIndex, fingerprint, cut, odds, meddled>>

\* Mutant: the fingerprint is stored as soon as the collection is updated from.
UpdateThenStore ==
  /\ recall.pc = "update" /\ Proceed("store") /\ UNCHANGED qmdIndex
  /\ fingerprint' = recall.seen /\ cut' = FALSE
  /\ UNCHANGED <<notes, snapshot, collected, odds, meddled>>
UpdateCollection ==
  /\ recall.pc = "update" /\ Proceed("store") /\ qmdIndex' = snapshot
  /\ UNCHANGED <<notes, snapshot, collected, fingerprint, cut, odds, meddled>>

StoreFingerprint ==
  /\ recall.pc = "store" /\ Done("refreshed")
  /\ fingerprint' = recall.seen /\ cut' = FALSE
  /\ UNCHANGED <<notes, snapshot, qmdIndex, collected, odds, meddled>>

(* A command fails, the deadline passes or the process dies: what was done
   stays, and the stored fingerprint is still the earlier one. *)
RecallEnds ==
  /\ recall.pc # "idle" /\ Odd /\ Done("unavailable")
  /\ UNCHANGED <<notes, snapshot, qmdIndex, collected, fingerprint, cut, meddled>>

Edit ==
  /\ \E d \in Notes, v \in 1..2 : v # notes[d] /\ notes' = [notes EXCEPT ![d] = v]
  /\ Odd /\ UNCHANGED <<snapshot, qmdIndex, collected, fingerprint, recall, cut, meddled>>

RecallInit ==
  /\ notes = [d \in Notes |-> 1]
  /\ snapshot = Unindexed /\ qmdIndex = Unindexed /\ collected = FALSE /\ fingerprint = Unindexed
  /\ recall = [pc |-> "idle", kind |-> "none", seen |-> NothingRead, says |-> "nothing"]
  /\ cut = FALSE /\ FaultsInit

RecallNext ==
  \/ BeginRecall \/ ReadNote \/ Search \/ BeginIndexing \/ RemoveSnapshot \/ PublishSnapshot
  \/ RemoveCollection \/ AddCollection \/ UpdateCollection \/ StoreFingerprint
  \/ RecallEnds \/ Edit

RecallSpec == RecallInit /\ [][RecallNext]_rvars

-----------------------------------------------------------------------------
\* The index is trusted for what it is of: whatever was edited while the
\* documents were read and whatever command failed, the stored fingerprint is
\* of the documents in the snapshot and in the index, except where a refresh
\* was cut short since it was stored (_refresh_unlocked, _rebuild_unlocked).
IndexTrusted == fingerprint # Unindexed /\ ~cut => qmdIndex = fingerprint /\ snapshot = fingerprint
=============================================================================
