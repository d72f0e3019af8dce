---------------------------- MODULE AppleMessages ---------------------------
(* apple_messages.py: what each read of Apple's chat.db returns or refuses,
   for a store and the account signed in.  No call writes anything. *)
EXTENDS MessageStore

\* inspect_apple_messages: the whole-store aggregates, as a forward cursor.
Inspect(store) ==
  [cursor |-> CursorAtPrefix(store, MaxRow(store)),
   newest |-> PrefixAggregates(store, MaxRow(store)).newest]

\* _validate_cursor: the same columns, the same file, no row high-water lost.
ValidCursor(store, c) ==
  /\ c.schema = store.schema
  /\ MaxRow(store) >= c.rowid
  /\ c.generation = Generation(store.file, store.schema)

\* verify_apple_messages_checkpoint: an imported cursor names an exact prefix.
VerifyCheckpoint(store, c) ==
  IF ValidCursor(store, c) /\ PrefixIntact(store, c) THEN c ELSE Refused

\* read_apple_messages_delta: the next bounded batch after a cursor.
ReadDelta(store, account, now, c) ==
  LET none == MaxRow(store) = c.rowid
      rows == DeltaRows(store, c.rowid, MaxRow(store), Limit + 1)
      batch == BoundedMessages(store, DeltaRows(store, c.rowid, MaxRow(store), Limit), c.rowid)
      target == CursorAtPrefix(store, IF none THEN c.rowid ELSE batch.last)
  IN IF ~ValidCursor(store, c) \/ target = Refused THEN Refused
     ELSE [cursor   |-> target,
           covered  |-> IF target.newest # 0 THEN target.newest ELSE now,
           complete |-> none \/ (Cardinality(rows) <= Limit /\ batch.complete),
           items    |-> IF none THEN <<>> ELSE batch.items,
           account  |-> account]

\* replay_apple_messages_delta: the same batch again, from its two cursors.
ReplayDelta(store, account, now, c, target, complete) ==
  LET rows == DeltaRows(store, c.rowid, target.rowid, Limit + 1)
      batch == BoundedMessages(store, rows, c.rowid)
  IN IF /\ ValidCursor(store, c)
        /\ ValidCursor(store, target)
        /\ target.rowid >= c.rowid
        /\ PrefixIntact(store, target)
        /\ Cardinality(rows) <= Limit
        /\ batch.last = target.rowid
        /\ batch.complete
     THEN [cursor |-> target, covered |-> IF target.newest # 0 THEN target.newest ELSE now,
           complete |-> complete, items |-> batch.items, account |-> account]
     ELSE Refused

\* verify_apple_messages_ack_token: a prepared non-empty delivery is still what
\* the store holds.  "changed" is the one refusal a person may answer by
\* discarding the delivery.
VerifyAck(store, c, target, items) ==
  LET batch == BoundedMessages(store, DeltaRows(store, c.rowid, target.rowid, MaxRow(store)), c.rowid)
  IN IF \/ target.rowid <= c.rowid
        \/ target.generation # c.generation
        \/ target.generation # Generation(store.file, store.schema)
        \/ ~PrefixIntact(store, target)
     THEN Refused
     ELSE IF batch.last = target.rowid /\ batch.complete /\ batch.items = items
     THEN "verified"
     ELSE "changed"
=============================================================================
