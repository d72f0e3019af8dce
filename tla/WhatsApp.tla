------------------------------ MODULE WhatsApp ------------------------------
(* whatsapp.py: the same reads over the standalone wacli store.  The
   difference that matters is the in-place migration: a newer wacli may add
   columns to a file that is still the same store, and a cursor taken under
   the old schema is then rebased when its prefix is still there exactly. *)
EXTENDS MessageStore

\* inspect_whatsapp, healthy: sync running, heartbeat fresh, account readable.
Inspect(store) ==
  [cursor |-> CursorAtPrefix(store, MaxRow(store)),
   newest |-> PrefixAggregates(store, MaxRow(store)).newest]

\* _same_store_under_prior_schema: one file explains both generations.
SameStoreUnderPriorSchema(store, c) ==
  Generation(store.file, c.schema) = c.generation

\* _schema_migrated_in_place
SchemaMigratedInPlace(store, c) ==
  c.schema # store.schema /\ SameStoreUnderPriorSchema(store, c)

\* _reconcile_cursor: the cursor in terms of the current schema, or refused.
ReconcileCursor(store, c) ==
  LET current == c.schema = store.schema
  IN IF \/ MaxRow(store) < c.rowid
        \/ current /\ c.generation # Generation(store.file, store.schema)
        \/ ~current /\ ~(SameStoreUnderPriorSchema(store, c) /\ PrefixIntact(store, c))
     THEN Refused
     ELSE [c EXCEPT !.schema = store.schema,
                    !.generation = Generation(store.file, store.schema)]

\* _validate_cursor
ValidCursor(store, c) ==
  /\ c.schema = store.schema
  /\ MaxRow(store) >= c.rowid
  /\ c.generation = Generation(store.file, store.schema)

\* verify_whatsapp_checkpoint
VerifyCheckpoint(store, c) ==
  LET rebased == ReconcileCursor(store, c)
  IN IF rebased # Refused /\ PrefixIntact(store, c) THEN rebased ELSE Refused

\* read_whatsapp_delta
ReadDelta(store, account, now, c) ==
  LET none == MaxRow(store) = c.rowid
      rows == DeltaRows(store, c.rowid, MaxRow(store), Limit + 1)
      batch == BoundedMessages(store, DeltaRows(store, c.rowid, MaxRow(store), Limit), c.rowid)
      target == CursorAtPrefix(store, IF none THEN c.rowid ELSE batch.last)
      readable == IF SchemaMigratedInPlace(store, c)
                    THEN ReconcileCursor(store, c) # Refused
                    ELSE ValidCursor(store, c)
  IN IF ~readable \/ target = Refused THEN Refused
     ELSE [cursor   |-> target,
           covered  |-> IF target.newest # 0 THEN target.newest ELSE now,
           complete |-> none \/ (Cardinality(rows) <= Limit /\ batch.complete),
           items    |-> IF none THEN <<>> ELSE batch.items,
           account  |-> account]

\* replay_whatsapp_delta
ReplayDelta(store, account, now, c, target, complete) ==
  LET rows == DeltaRows(store, c.rowid, target.rowid, Limit + 1)
      batch == BoundedMessages(store, rows, c.rowid)
  IN IF /\ ReconcileCursor(store, c) # Refused
        /\ ReconcileCursor(store, target) # Refused
        /\ target.rowid >= c.rowid
        /\ PrefixIntact(store, target)
        /\ Cardinality(rows) <= Limit
        /\ batch.last = target.rowid
        /\ batch.complete
     THEN [cursor |-> target, covered |-> IF target.newest # 0 THEN target.newest ELSE now,
           complete |-> complete, items |-> batch.items, account |-> account]
     ELSE Refused

\* verify_whatsapp_ack_token: a rebased cursor has its own prefix verified too.
VerifyAck(store, c, target, items) ==
  LET batch == BoundedMessages(store, DeltaRows(store, c.rowid, target.rowid, MaxRow(store)), c.rowid)
      current == ReconcileCursor(store, c)
      goal == ReconcileCursor(store, target)
  IN IF \/ target.rowid <= c.rowid
        \/ current = Refused \/ goal = Refused
        \/ (current # c \/ goal # target) /\ ~PrefixIntact(store, c)
        \/ ~PrefixIntact(store, target)
     THEN Refused
     ELSE IF batch.last = target.rowid /\ batch.complete /\ batch.items = items
     THEN "verified"
     ELSE "changed"
=============================================================================
