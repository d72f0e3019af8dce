---------------------------- MODULE MessageStore ----------------------------
(* The SQLite store of a host-local message source as the readers of
   apple_messages.py and whatsapp.py query it: rows in rowid order, the
   aggregates of a prefix of them, and the bounded batch a read may return.
   A store is [file, schema, rows]: the identity of the database file, the
   fingerprint of its columns, and the rows by rowid (Gone once deleted: a
   rowid is not given out twice).  A row is [body, shown, at]. *)
EXTENDS Integers, Sequences, FiniteSets

CONSTANTS Limit,     \* messages of one delivery (the recipe's read limit)
          Budget,    \* body characters of one delivery (MAX_DELTA_BODY_CHARS)
          BodySize,  \* the length of each body
          Refused,   \* a call that raised: it returns nothing and writes nothing
          Gone       \* a deleted row

Live(store) == {r \in DOMAIN store.rows : store.rows[r] # Gone}

\* MAX(x) over a set of naturals, 0 for the empty one: COALESCE(MAX(..), 0).
Top(S) == IF S = {} THEN 0 ELSE CHOOSE m \in S : \A n \in S : n <= m

MaxRow(store) == Top(Live(store))

\* A generation binds the file identity and the schema fingerprint together.
Generation(file, schema) == <<file, schema>>

\* Count, last rowid and newest time of the rows up to a rowid.
PrefixAggregates(store, through) ==
  LET prefix == {r \in Live(store) : r <= through}
  IN [messages |-> Cardinality(prefix),
      rowid    |-> Top(prefix),
      newest   |-> Top({store.rows[r].at : r \in prefix})]

\* The aggregate cursor at a rowid; refused when that row is no longer there.
CursorAtPrefix(store, last) ==
  LET p == PrefixAggregates(store, last)
  IN IF p.rowid # last THEN Refused
     ELSE [schema |-> store.schema, generation |-> Generation(store.file, store.schema),
           messages |-> p.messages, rowid |-> last, newest |-> p.newest]

\* The prefix a cursor was taken from is still there, row for row.
PrefixIntact(store, cursor) ==
  LET p == PrefixAggregates(store, cursor.rowid)
  IN /\ p.messages = cursor.messages
     /\ p.rowid = cursor.rowid
     /\ p.newest = cursor.newest

\* Rows after one rowid, up to another: the first n of them in rowid order.
DeltaRows(store, after, through, n) ==
  LET delta == {r \in Live(store) : after < r /\ r <= through}
  IN {r \in delta : Cardinality({q \in delta : q <= r}) <= n}

\* One row more in a batch.  A hidden row only moves the position; a body met
\* with nothing left of the budget closes the batch before its row; any other
\* body is cut to what is left.
TakeRow(store, batch, r) ==
  LET row == store.rows[r]
      size == BodySize[row.body]
      kept == IF size < batch.left THEN size ELSE batch.left
  IN IF ~batch.complete THEN batch
     ELSE IF ~row.shown THEN [batch EXCEPT !.last = r]
     ELSE IF size > 0 /\ batch.left = 0 THEN [batch EXCEPT !.complete = FALSE]
     ELSE [batch EXCEPT !.last = r, !.left = @ - kept,
                        !.items = Append(@, <<r, row.body, kept>>)]

BoundedMessages(store, rows, start) ==
  LET batch[r \in 0..MaxRow(store)] ==
        IF r = 0 THEN [items |-> <<>>, last |-> start, left |-> Budget, complete |-> TRUE]
        ELSE IF r \in rows THEN TakeRow(store, batch[r - 1], r) ELSE batch[r - 1]
  IN batch[MaxRow(store)]
=============================================================================
