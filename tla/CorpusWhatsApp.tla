--------------------------- MODULE CorpusWhatsApp ---------------------------
(* app_corpus_whatsapp.py: the app corpus reads the message table wacli
   keeps on this machine, page by page: new rows by row number, and the old
   ones again in rolling batches. A call reads one pinned snapshot, and the
   corpus commits its documents and its checkpoint together, so a call is
   one step; a call that finds the store unavailable changes nothing. *)
EXTENDS HostFaults, FiniteSets, FiniteSetsExt

CONSTANTS MaxRows,     \* bound on the row numbers of the table
          MaxMoments,  \* bound on the changes wacli makes
          PageRows     \* rows of one call

ASSUME WhatsAppConstants ==
    {MaxRows, MaxMoments, PageRows} \subseteq Nat /\ MaxMoments >= 2 /\ PageRows >= 1

VARIABLES wacli,       \* the local store: its file, its columns and its rows
          waSaved,     \* the checkpoint the corpus holds
          waTexts,     \* the version the corpus holds of each message, 0: none
          waClock,     \* changes wacli made so far
          waPass       \* when the pass under way began, and the last finished one

wavars == <<wacli, waSaved, waTexts, waClock, waPass, odds, meddled>>

Shapes == {{"text"}, {"text", "deleted_at"}, {"body"}}

--------------------------------------------------------------------------------
(* wacli. A message is named by the moment it arrived; SQLite hands out the
   number after the highest one in use, so a number can come back. *)
TopRow == Max({0} \cup {r.row : r \in wacli.rows})

MessageStored ==
    /\ waClock < MaxMoments /\ TopRow < MaxRows
    /\ waClock' = waClock + 1
    /\ wacli' = [wacli EXCEPT !.rows = @ \cup
                     {[row |-> TopRow + 1, id |-> waClock + 1, version |-> waClock + 1]}]
    /\ UNCHANGED <<waSaved, waTexts, waPass, odds, meddled>>

(* An edit, a revocation or a purge rewrites the row in place. *)
MessageChanged(r) ==
    /\ waClock < MaxMoments
    /\ waClock' = waClock + 1
    /\ wacli' = [wacli EXCEPT !.rows = (@ \ {r}) \cup {[r EXCEPT !.version = waClock + 1]}]
    /\ UNCHANGED <<waSaved, waTexts, waPass, odds, meddled>>

(* Local retention drops a row without replacing the database. *)
RowRetired(r) ==
    /\ Odd
    /\ wacli' = [wacli EXCEPT !.rows = @ \ {r}]
    /\ UNCHANGED <<waSaved, waTexts, waClock, waPass, meddled>>

TableMigrated ==
    /\ Odd
    /\ \E columns \in Shapes \ {wacli.columns} : wacli' = [wacli EXCEPT !.columns = columns]
    /\ UNCHANGED <<waSaved, waTexts, waClock, waPass, meddled>>

(* A reinstalled wacli starts a table of its own. *)
StoreReplaced ==
    /\ Odd /\ wacli.file = 1
    /\ wacli' = [wacli EXCEPT !.file = 2, !.rows = {}]
    /\ UNCHANGED <<waSaved, waTexts, waClock, waPass, meddled>>

--------------------------------------------------------------------------------
(* The checkpoint. row: the last new row read; again: the last row read
   again; review: when old rows are next read again; shape: the columns are
   recorded, which version one did not do. *)
PrefixAggregates(n) ==
    LET below == {r \in wacli.rows : r.row <= n} IN
    <<Cardinality(below), Max({0} \cup {r.id : r \in below})>>

NoCheckpoint == [phase |-> "none"]

FreshCheckpoint ==
    [phase |-> "initial", review |-> "none", again |-> 0, row |-> 0, file |-> wacli.file,
     columns |-> wacli.columns, shape |-> TRUE, prefix |-> <<0, 0>>, gap |-> FALSE]

(* _decode_checkpoint: one of version one, here in its review, names neither
   columns nor prefix. *)
LegacyCheckpoint(n) == [FreshCheckpoint EXCEPT !.phase = "rescan", !.review = "due",
                                               !.row = n, !.shape = FALSE]

HasRow(n) == n = 0 \/ \E r \in wacli.rows : r.row = n

WithPrefix(c) == [c EXCEPT !.prefix = PrefixAggregates(c.row), !.shape = TRUE,
                           !.columns = wacli.columns]

(* The rows are read again from the start when the last one read is gone,
   but nothing is taken for deleted. *)
Replayed(c) == [c EXCEPT !.row = 0, !.phase = "initial", !.again = 0, !.review = "none",
                         !.gap = TRUE]

Additive(before, after) == before \subseteq after /\ before # after

(* Columns may only have been added, in the same file and, where the
   checkpoint can tell, with the rows it had read unchanged in number. *)
Migrates(c) ==
    /\ Additive(c.columns, wacli.columns)
    /\ c.shape => PrefixAggregates(c.row) = c.prefix
    /\ HasRow(c.row)

(* No checkpoint: the call is refused and the saved one stays. *)
ReconciledRows(c) ==
    IF c.file # wacli.file THEN {}
    ELSE IF c.columns # wacli.columns THEN IF Migrates(c) THEN {WithPrefix(c)} ELSE {}
    ELSE {WithPrefix(IF HasRow(c.row) THEN c ELSE Replayed(c))}

--------------------------------------------------------------------------------
(* One page of the rows after `from` and up to `through`: the first of them,
   and whether one more was found. *)
RowsAfter(from, through) == {r \in wacli.rows : from < r.row /\ r.row <= through}
PageOf(rows) == {r \in rows : Cardinality({q \in rows : q.row <= r.row}) <= PageRows}
HasMore(rows) == Cardinality(rows) > PageRows

(* Mutant: the row fetched only to see whether there are more is skipped. *)
LastOfLookahead(rows) ==
    Max({r.row : r \in {q \in rows : Cardinality({x \in rows : x.row <= q.row}) <= PageRows + 1}})

LastOf(rows) == Max({r.row : r \in PageOf(rows)})

Settled(c) == [c EXCEPT !.phase = "steady", !.review = "later", !.again = 0]

(* What a call gives the corpus: a checkpoint and the rows it read. *)
NewRowsResult(c) ==
    LET rows == RowsAfter(c.row, TopRow)
        moved == [c EXCEPT !.row = LastOf(rows)]
    IN [saved |-> WithPrefix(IF c.phase = "initial" /\ ~HasMore(rows)
                             THEN Settled(moved) ELSE moved),
        read |-> PageOf(rows)]

RescanResult(c) ==
    LET rows == RowsAfter(c.again, c.row)
    IN [saved |-> IF HasMore(rows)
                  THEN [c EXCEPT !.phase = "rescan-v2", !.again = LastOf(rows)]
                  ELSE Settled(c),
        read |-> PageOf(rows)]

Reviewing(c) == c.phase \in {"rescan", "rescan-v2"}

(* An explicit recheck, and a review that is due, start from settled history *)
ReviewFrom(c, start) ==
    IF start /\ ~Reviewing(c) THEN [c EXCEPT !.phase = "rescan-v2", !.again = 0] ELSE c

(* New rows come before old ones. A version one checkpoint may still be in
   the duplicate pass that followed its first one, which is ended instead. *)
SyncSnapshot(c, recheck, legacy) ==
    LET asked == ReviewFrom(c, recheck /\ c.phase = "steady")
        due == ReviewFrom(asked, asked.review = "due")
    IN IF legacy THEN [saved |-> Settled(c), read |-> {}]
       ELSE IF asked.row < TopRow THEN NewRowsResult(asked)
       ELSE IF asked.phase = "initial" THEN [saved |-> Settled(asked), read |-> {}]
       ELSE IF Reviewing(due) THEN RescanResult(due)
       ELSE [saved |-> asked, read |-> {}]

(* A pass begins with a first read, a replay or a review, and finishes when
   the history is settled. *)
PassAfter(c, recheck, result) ==
    LET review == c.phase = "steady" /\ (recheck \/ (c.review = "due" /\ c.row >= TopRow))
        began == IF waSaved = NoCheckpoint \/ (c.row = 0 /\ waSaved.row # 0) \/ review
                 THEN waClock ELSE waPass.began
    IN [began |-> began,
        finished |-> IF result.saved.phase = "steady" /\ (review \/ c.phase # "steady")
                     THEN began ELSE waPass.finished]

CorpusRead(recheck) ==
    LET prior == IF waSaved = NoCheckpoint THEN FreshCheckpoint ELSE waSaved IN
    \E c \in ReconciledRows(prior), legacy \in BOOLEAN :
        LET result == SyncSnapshot(c, recheck, legacy) IN
        /\ legacy => c.phase = "rescan" /\ c.review # "none"
        /\ waSaved' = result.saved
        /\ waTexts' = [m \in DOMAIN waTexts |->
                           IF \E r \in result.read : r.id = m
                           THEN (CHOOSE r \in result.read : r.id = m).version ELSE waTexts[m]]
        /\ waPass' = PassAfter(c, recheck, result)
        /\ UNCHANGED <<wacli, waClock, odds, meddled>>

(* The interval between two reviews goes by. *)
ReviewFallsDue ==
    /\ waSaved # NoCheckpoint /\ waSaved.review = "later"
    /\ waSaved' = [waSaved EXCEPT !.review = "due"]
    /\ UNCHANGED <<wacli, waTexts, waClock, waPass, odds, meddled>>

--------------------------------------------------------------------------------
(* Nothing was read yet, or version one had just read the two rows there are *)
WhatsAppCorpusInit ==
    /\ FaultsInit
    /\ \E legacy \in BOOLEAN :
        LET read == IF legacy THEN 1..2 ELSE {} IN
        /\ wacli = [file |-> 1, columns |-> {"text"},
                    rows |-> {[row |-> n, id |-> n, version |-> n] : n \in read}]
        /\ waClock = Cardinality(read)
        /\ waTexts = [m \in 1..MaxMoments |-> IF m \in read THEN m ELSE 0]
        /\ waPass = [began |-> Cardinality(read), finished |-> Cardinality(read)]
        /\ waSaved = IF legacy THEN LegacyCheckpoint(2) ELSE NoCheckpoint

WhatsAppCorpusNext ==
    \/ MessageStored \/ TableMigrated \/ StoreReplaced \/ ReviewFallsDue
    \/ \E r \in wacli.rows : MessageChanged(r) \/ RowRetired(r)
    \/ \E recheck \in BOOLEAN : CorpusRead(recheck)

WhatsAppCorpusSpec == WhatsAppCorpusInit /\ [][WhatsAppCorpusNext]_wavars

(* A settled history is read: once a pass is finished, every row it covers
   that has not changed since the pass began is in the corpus as it is, also
   a row that took over the number of one that was retired, and whatever new
   rows, replays and migrations came between its pages. *)
SettledIsRead ==
    waSaved.phase = "steady" /\ waSaved.file = wacli.file =>
        \A r \in wacli.rows :
            r.row <= waSaved.row /\ r.version <= waPass.finished => waTexts[r.id] = r.version
=============================================================================
