---------------------------- MODULE SqliteStore ----------------------------
(***************************************************************************)
(* The SQLite store, src/artifact/sqlite: Put, Get, Purge, and PutTx and   *)
(* GetTx inside a transaction the caller owns, one SQL statement per step. *)
(* Each process has a pool of one connection, which New requires, and its  *)
(* threads take turns on it; several processes may open the file.          *)
(*                                                                         *)
(* SQLite and database/sql are not in the repository.  Of them the model   *)
(* has what the store relies on, in WAL mode: a transaction reads one      *)
(* snapshot, which its first statement takes; one transaction at a time is *)
(* the writer, from its first INSERT or UPDATE on, even one that fails on  *)
(* a constraint; becoming the writer waits for busy_timeout and fails if   *)
(* the snapshot is no longer the newest.  Locking reads do not exist.      *)
(***************************************************************************)
EXTENDS SqlRows

CONSTANTS
  Threads,
  Process,   \* per thread, the process it runs in
  Trusted,   \* the keys the Stores trust
  MaxTxOps,  \* bound on the calls inside one caller-owned transaction
  MaxCalls   \* bound on the Put, Purge and caller-owned transactions begun

ASSUME SqliteAssumption ==
  /\ MaxTxOps \in Nat
  /\ MaxCalls \in Nat
  /\ Nil \notin Threads

VARIABLES
  db,      \* committed: per id Nil or the cell [rec, hash]
  conn,    \* per process: the thread that has the connection, Nil for none
  writer,  \* the thread whose transaction is the writer, Nil for none
  tx,      \* per thread: its transaction [snap, work, ops, reads, puts]
  call,    \* per thread: the method it is in, or the result of the last one
  acked,   \* history: per id the record whose Put was committed and answered nil
  erased,  \* history: ids whose Purge was answered nil
  begun    \* how many writing calls have begun

locks == <<conn, writer>>
history == <<acked, erased>>
vars == <<db, conn, writer, tx, call, acked, erased, begun>>

Processes == {Process[t] : t \in Threads}

-----------------------------------------------------------------------------
\* Transactions (external).  work has the uncommitted cells; reads and puts
\* are history: what GetTx returned in it, what its Puts accepted.
NoTx == [snap |-> Nil, work |-> [id \in Id |-> Nil], ops |-> 0,
         reads |-> {}, puts |-> {}]

Snapshot(t) == IF tx[t].snap = Nil THEN db ELSE tx[t].snap
Visible(t, id) ==
  IF tx[t].work[id] # Nil THEN tx[t].work[id] ELSE Snapshot(t)[id]

\* The transaction of t is the writer or can become it.
CanWrite(t) == writer \in {Nil, t} /\ tx[t].snap \in {Nil, db}

\* What would be committed.
Outcome(t) == [id \in Id |-> IF tx[t].work[id] # Nil THEN tx[t].work[id] ELSE db[id]]

-----------------------------------------------------------------------------
\* Calls: [op, pc, id, rec, row, next, own, out, seen].  own says whether the
\* store began the transaction (Put, Get, Purge) or the caller did.  "ErrSQL" is
\* any error of database/sql or SQLite that PutTx does not look into.
Idle == [op |-> "none", pc |-> "idle", id |-> Nil, rec |-> Nil, row |-> Nil,
         next |-> 1, own |-> TRUE, out |-> Out("none", Nil),
         seen |-> [acked |-> Nil, erased |-> FALSE]]

Ready(t) == call[t].pc \in {"idle", "done"}

Invocation(op, id, rec, own) ==
  [Idle EXCEPT !.op = op, !.id = id, !.rec = rec, !.own = own,
               !.seen = [acked |-> acked[id], erased |-> id \in erased]]

\* Call c has returned out; the record of a Put that succeeded is kept.
Returned(c, pc, out) ==
  [c EXCEPT !.pc = pc, !.out = out, !.row = Nil, !.next = 1,
            !.rec = IF out.err = "ok" /\ c.op = "put" THEN c.rec ELSE Nil]

\* The transaction of t ends and gives the connection back.
End(t) ==
  /\ conn' = [conn EXCEPT ![Process[t]] = Nil]
  /\ writer' = IF writer = t THEN Nil ELSE writer
  /\ tx' = [tx EXCEPT ![t] = NoTx]

\* Mutant: the error is shadowed, so that finishRollback sees nil.
FailsShadowed(t, err) ==
  /\ call' = [call EXCEPT ![t] =
       Returned(call[t], IF call[t].own THEN "done" ELSE "failed", Out(err, Nil))]
  /\ UNCHANGED <<conn, writer, tx>>

\* The call of t fails: finishRollback ends a transaction the store began; one
\* of the caller's stays open until the caller rolls it back.
Fails(t, err) ==
  IF call[t].own
  THEN call' = [call EXCEPT ![t] = Returned(call[t], "done", Out(err, Nil))] /\ End(t)
  ELSE /\ call' = [call EXCEPT ![t] = Returned(call[t], "failed", Out(err, Nil))]
       /\ UNCHANGED <<conn, writer, tx>>

\* read refuses what it found, or found nothing.  A GetTx leaves the caller's
\* transaction usable; any other call fails.
Refuses(t, err) ==
  IF call[t].own \/ call[t].op = "put" THEN Fails(t, err)
  ELSE /\ call' = [call EXCEPT ![t] = Returned(call[t], "open", Out(err, Nil))]
       /\ tx' = [tx EXCEPT ![t].snap = Snapshot(t)]
       /\ UNCHANGED locks

\* The statements of t's call are done: the store commits its own transaction,
\* a call in the caller's returns.
Succeeds(t, out, reads, puts) ==
  /\ call' = [call EXCEPT ![t] =
       IF call[t].own THEN [call[t] EXCEPT !.pc = "commit", !.out = out]
       ELSE Returned(call[t], "open", out)]
  /\ tx' = [tx EXCEPT ![t].snap = Snapshot(t), ![t].reads = @ \cup reads,
                      ![t].puts = @ \cup puts]

-----------------------------------------------------------------------------
Init ==
  /\ db = [id \in Id |-> Nil]
  /\ conn = [p \in Processes |-> Nil]
  /\ writer = Nil
  /\ tx = [t \in Threads |-> NoTx]
  /\ call = [t \in Threads |-> Idle]
  /\ acked = [id \in Id |-> Nil]
  /\ erased = {}
  /\ begun = 0

\* Calls that begin a transaction of their own wait for the connection.  Purge
\* looks at the id before it does.
PutCall(t) ==
  /\ Ready(t) /\ begun < MaxCalls
  /\ begun' = begun + 1
  /\ \E r \in Records :
       call' = [call EXCEPT ![t] = [Invocation("put", r.id, r, TRUE) EXCEPT !.pc = "begin"]]
  /\ UNCHANGED <<db, locks, tx, history>>

GetCall(t) ==
  /\ Ready(t)
  /\ \E id \in Id :
       call' = [call EXCEPT ![t] = [Invocation("get", id, Nil, TRUE) EXCEPT !.pc = "begin"]]
  /\ UNCHANGED <<db, locks, tx, history, begun>>

PurgeCall(t) ==
  /\ Ready(t) /\ begun < MaxCalls
  /\ begun' = begun + 1
  /\ \E id \in Id :
       LET c == Invocation("purge", id, Nil, TRUE)
       IN  call' = [call EXCEPT ![t] =
             IF id \in ValidId THEN [c EXCEPT !.pc = "begin"]
             ELSE [c EXCEPT !.pc = "done", !.out = Out("ErrInvalid", Nil)]]
  /\ UNCHANGED <<db, locks, tx, history>>

\* The caller begins a transaction on the same pool.
TxCall(t) ==
  /\ Ready(t) /\ begun < MaxCalls
  /\ begun' = begun + 1
  /\ call' = [call EXCEPT ![t] = [Idle EXCEPT !.op = "tx", !.own = FALSE, !.pc = "begin"]]
  /\ UNCHANGED <<db, locks, tx, history>>

\* What PutTx and read do before their first statement: the state of call c in
\* which it is run, or c failed.
Entered(c) ==
  LET err == CASE c.op = "put" -> AdmissionError(c.rec, Trusted)
               [] c.op = "get" /\ c.id \notin ValidId -> "ErrInvalid"
               [] OTHER -> "ok"
      after == IF c.own THEN "done" ELSE IF c.op = "get" THEN "open" ELSE "failed"
  IN  IF err # "ok" THEN Returned(c, after, Out(err, Nil))
      ELSE [c EXCEPT !.pc = CASE c.op = "put" -> "insert"
                               [] c.op = "get" -> "readParent"
                               [] c.op = "purge" -> "purgeSelect"
                               [] OTHER -> "open",
                     !.rec = IF c.op = "put" THEN Prepared(c.rec) ELSE Nil]

\* BeginTx: the connection is free.  A call refused before its first statement
\* rolls back at once.
Begin(t) ==
  /\ call[t].pc = "begin"
  /\ conn[Process[t]] = Nil
  /\ call' = [call EXCEPT ![t] = Entered(call[t])]
  /\ conn' = IF call'[t].pc = "done" THEN conn ELSE [conn EXCEPT ![Process[t]] = t]
  /\ UNCHANGED <<db, writer, tx, history, begun>>

\* BeginTx fails: the context ends while the call waits for the connection.
BeginFails(t) ==
  /\ call[t].pc = "begin"
  /\ call' = [call EXCEPT ![t] = Returned(call[t], "done", Out("ErrSQL", Nil))]
  /\ UNCHANGED <<db, locks, tx, history, begun>>

\* PutTx and GetTx in the caller's transaction.
TxOp(t) ==
  /\ call[t].pc = "open"
  /\ tx[t].ops < MaxTxOps
  /\ tx' = [tx EXCEPT ![t].ops = @ + 1]
  /\ \/ \E r \in Records :
          call' = [call EXCEPT ![t] = Entered(Invocation("put", r.id, r, FALSE))]
     \/ \E id \in Id :
          call' = [call EXCEPT ![t] = Entered(Invocation("get", id, Nil, FALSE))]
  /\ UNCHANGED <<db, locks, history, begun>>

-----------------------------------------------------------------------------
\* PutTx.

\* Mutant: the id is looked up with a SELECT, and only if it is absent inserted.
InsertDuplicateSelects(t) ==
  /\ call[t].pc = "insert"
  /\ Visible(t, call[t].id) # Nil
  /\ tx' = [tx EXCEPT ![t].snap = Snapshot(t)]
  /\ call' = [call EXCEPT ![t].pc = "readParent"]
  /\ UNCHANGED <<db, locks, history, begun>>

\* SQLITE_CONSTRAINT: the parent row is there.  The transaction is now the
\* writer, and reads it.
InsertDuplicate(t) ==
  /\ call[t].pc = "insert"
  /\ CanWrite(t)
  /\ Visible(t, call[t].id) # Nil
  /\ writer' = t
  /\ tx' = [tx EXCEPT ![t].snap = db]
  /\ call' = [call EXCEPT ![t].pc = "readParent"]
  /\ UNCHANGED <<db, conn, history, begun>>

\* Mutant: INSERT OR REPLACE.
InsertParentReplaces(t) ==
  LET r == call[t].rec IN
  /\ call[t].pc = "insert"
  /\ CanWrite(t)
  /\ writer' = t
  /\ tx' = [tx EXCEPT ![t].snap = db, ![t].work[r.id] = ParentRow(r)]
  /\ call' = [call EXCEPT ![t].pc = "artifacts"]
  /\ UNCHANGED <<db, conn, history, begun>>

InsertParent(t) ==
  LET r == call[t].rec IN
  /\ call[t].pc = "insert"
  /\ CanWrite(t)
  /\ Visible(t, r.id) = Nil
  /\ writer' = t
  /\ tx' = [tx EXCEPT ![t].snap = db, ![t].work[r.id] = ParentRow(r)]
  /\ call' = [call EXCEPT ![t].pc = "artifacts"]
  /\ UNCHANGED <<db, conn, history, begun>>

\* One INSERT per artifact; PutTx returns nil after the last.
InsertArtifact(t) ==
  LET r == call[t].rec
      i == call[t].next
  IN  /\ call[t].pc = "artifacts"
      /\ i <= Len(r.artifacts)
      /\ tx' = [tx EXCEPT ![t].work[r.id] = WithRow(@, r.artifacts[i])]
      /\ call' = [call EXCEPT ![t].next = i + 1]
      /\ UNCHANGED <<db, locks, history, begun>>

InsertDone(t) ==
  /\ call[t].pc = "artifacts"
  /\ call[t].next > Len(call[t].rec.artifacts)
  /\ Succeeds(t, Out("ok", Nil), {}, {call[t].rec})
  /\ UNCHANGED <<db, locks, history, begun>>

\* read: the parent row, then the artifact rows.
ReadParent(t) ==
  LET row == Visible(t, call[t].id)
  IN  /\ call[t].pc = "readParent"
      /\ IF row = Nil THEN Refuses(t, "ErrNotFound")
         ELSE /\ tx' = [tx EXCEPT ![t].snap = Snapshot(t)]
              /\ call' = [call EXCEPT ![t].pc = "readArtifacts", ![t].row = row]
              /\ UNCHANGED locks
      /\ UNCHANGED <<db, history, begun>>

ReadArtifacts(t) ==
  LET c == call[t]
      old == ReadResult(c.row, Visible(t, c.id), Trusted)
      err == IF c.op = "put" THEN DuplicateError(c.rec, old) ELSE old.err
  IN  /\ c.pc = "readArtifacts"
      /\ IF err # "ok" THEN Refuses(t, err)
         ELSE /\ IF c.op = "put" THEN Succeeds(t, Out("ok", Nil), {}, {c.rec})
                                 ELSE Succeeds(t, old, {old.rec}, {})
              /\ UNCHANGED locks
      /\ UNCHANGED <<db, history, begun>>

-----------------------------------------------------------------------------
\* Purge: a SELECT for existence, then the UPDATE.
PurgeSelect(t) ==
  /\ call[t].pc = "purgeSelect"
  /\ IF Visible(t, call[t].id) = Nil THEN Fails(t, "ErrNotFound")
     ELSE /\ tx' = [tx EXCEPT ![t].snap = Snapshot(t)]
          /\ call' = [call EXCEPT ![t].pc = "purgeUpdate"]
          /\ UNCHANGED locks
  /\ UNCHANGED <<db, history, begun>>

\* Mutant: the UPDATE names one artifact.
PurgeUpdateOne(t) ==
  LET id == call[t].id
      cell == Visible(t, id)
  IN  /\ call[t].pc = "purgeUpdate"
      /\ CanWrite(t)
      /\ writer' = t
      /\ tx' = [tx EXCEPT ![t].work[id] = [cell EXCEPT !.rec.artifacts[1] = Tombstone(@)]]
      /\ call' = [call EXCEPT ![t].pc = "commit", ![t].out = Out("ok", Nil)]
      /\ UNCHANGED <<db, conn, history, begun>>

PurgeUpdate(t) ==
  LET id == call[t].id
      cell == Visible(t, id)
  IN  /\ call[t].pc = "purgeUpdate"
      /\ CanWrite(t)
      /\ writer' = t
      /\ tx' = [tx EXCEPT ![t].work[id] = Erased(cell)]
      /\ call' = [call EXCEPT ![t].pc = "commit", ![t].out = Out("ok", Nil)]
      /\ UNCHANGED <<db, conn, history, begun>>

-----------------------------------------------------------------------------
\* SQLITE_BUSY: busy_timeout ends while another transaction is the writer, or
\* the snapshot is stale and waiting would not help.  The store does not retry.
Busy(t) ==
  /\ call[t].pc \in {"insert", "purgeUpdate"}
  /\ ~ CanWrite(t)
  /\ Fails(t, "ErrSQL")
  /\ UNCHANGED <<db, history, begun>>

InStatement(t) ==
  call[t].pc \in {"insert", "artifacts", "readParent", "readArtifacts",
                  "purgeSelect", "purgeUpdate"}

\* Mutant: the error of an artifact's INSERT is dropped.
StatementFailsIgnored(t) ==
  /\ call[t].pc = "artifacts"
  /\ call[t].next <= Len(call[t].rec.artifacts)
  /\ call' = [call EXCEPT ![t].next = @ + 1]
  /\ UNCHANGED <<db, locks, tx, history, begun>>

\* Any other error: the disk is full, the context ends.
StatementFails(t) ==
  /\ InStatement(t)
  /\ Fails(t, "ErrSQL")
  /\ UNCHANGED <<db, history, begun>>

\* The caller commits a transaction in which no PutTx and no statement failed.
CallerCommit(t) ==
  /\ call[t].pc = "open"
  /\ call' = [call EXCEPT ![t] = [Idle EXCEPT !.op = "tx", !.own = FALSE,
                                              !.pc = "commit", !.out = Out("ok", Nil)]]
  /\ UNCHANGED <<db, locks, tx, history, begun>>

Commit(t) ==
  /\ call[t].pc = "commit"
  /\ db' = Outcome(t)
  /\ End(t)
  /\ call' = [call EXCEPT ![t] = Returned(call[t], "done", call[t].out)]
  /\ acked' = [id \in Id |->
       LET puts == {r \in tx[t].puts : r.id = id}
       IN  IF acked[id] = Nil /\ puts # {} THEN CHOOSE r \in puts : TRUE
           ELSE acked[id]]
  /\ erased' = IF call[t].op = "purge" THEN erased \cup {call[t].id} ELSE erased
  /\ UNCHANGED begun

\* Commit returns an error; the frames may have reached the log all the same.
CommitFails(t) ==
  /\ call[t].pc = "commit"
  /\ db' \in {db, Outcome(t)}
  /\ End(t)
  /\ call' = [call EXCEPT ![t] = Returned(call[t], "done", Out("ErrSQL", Nil))]
  /\ UNCHANGED <<history, begun>>

CallerRollback(t) ==
  /\ call[t].pc \in {"open", "failed"}
  /\ End(t)
  /\ call' = [call EXCEPT ![t] = Idle]
  /\ UNCHANGED <<db, history, begun>>

\* A process dies; what it had not committed is gone.
Die(p) ==
  LET dead == {t \in Threads : Process[t] = p}
  IN  /\ conn[p] # Nil
      /\ conn' = [conn EXCEPT ![p] = Nil]
      /\ writer' = IF writer \in dead THEN Nil ELSE writer
      /\ tx' = [t \in Threads |-> IF t \in dead THEN NoTx ELSE tx[t]]
      /\ call' = [t \in Threads |-> IF t \in dead THEN Idle ELSE call[t]]
      /\ UNCHANGED <<db, history, begun>>

-----------------------------------------------------------------------------
Statement(t) ==
  \/ InsertDuplicate(t) \/ InsertParent(t) \/ InsertArtifact(t) \/ InsertDone(t)
  \/ ReadParent(t) \/ ReadArtifacts(t)
  \/ PurgeSelect(t) \/ PurgeUpdate(t)
  \/ Busy(t) \/ Commit(t)

CallerEnds(t) == CallerCommit(t) \/ CallerRollback(t)

Next ==
  \/ \E t \in Threads :
       \/ PutCall(t) \/ GetCall(t) \/ PurgeCall(t) \/ TxCall(t) \/ TxOp(t)
       \/ Begin(t) \/ BeginFails(t)
       \/ Statement(t) \/ StatementFails(t) \/ CommitFails(t)
       \/ CallerEnds(t)
  \/ \E p \in Processes : Die(p)

Spec == Init /\ [][Next]_vars

\* Statements run or meet their busy_timeout, a freed connection goes to a
\* waiting request, and the caller ends its transactions.
FairSpec ==
  /\ Spec
  /\ \A t \in Threads :
       WF_vars(Statement(t)) /\ SF_vars(Begin(t)) /\ WF_vars(CallerEnds(t))

-----------------------------------------------------------------------------
\* The contract of ArtifactStore, read off the committed rows.
Stored == [id \in Id |-> IF db[id] = Nil THEN Nil ELSE db[id].rec]

AdmissibleRecords ==
  [id \in Id |-> {Prepared(r) :
     r \in {q \in Records : q.id = id /\ AdmissionError(q, Trusted) = "ok"}}]

Abstract == INSTANCE ArtifactStore WITH
  Admissible <- AdmissibleRecords, stored <- Stored

-----------------------------------------------------------------------------
\* Properties.

Answered(t, op) == call[t].op = op /\ call[t].pc \in {"done", "open"}

\* Type correctness, and whose the connection and the write lock are: a thread
\* has a transaction exactly if it has its process's connection, and only such
\* a thread is the writer.  finishRollback on every error path is what makes a
\* returned call have neither.
TypeOK ==
  /\ \A id \in Id : db[id] # Nil => db[id].rec.id = id
  /\ \A t \in Threads :
       (call[t].pc \notin {"idle", "done", "begin"}) <=> conn[Process[t]] = t
  /\ writer # Nil => conn[Process[writer]] = writer
  /\ \A t \in Threads : tx[t] # NoTx => conn[Process[t]] = t
  /\ erased \subseteq Id

\* Every committed record is whole: its inventory has the checksum its parent
\* row was given before the first artifact row.
CommittedWhole ==
  \A id \in Id : db[id] # Nil => StorageChecksum(db[id].rec) = db[id].hash

\* "SQLite serializes writers, so no row lock is needed": once a transaction
\* has a Put answered nil, what that Put stored or found stored, and everything
\* GetTx has returned in it before or after, is what is stored until it ends.
StableUntilCommit ==
  \A t \in Threads : tx[t].puts # {} =>
    \A r \in tx[t].puts \cup tx[t].reads :
      LET now == Outcome(t)[r.id]
      IN  now # Nil /\ Inventory(now.rec) = Inventory(r)

\* A Get invoked after a Put was acknowledged returns that record, whole or
\* with every original erased, whichever process it runs in.
ReadYourWrites ==
  \A t \in Threads :
    LET c == call[t] IN
    Answered(t, "get") /\ c.own /\ c.seen.acked # Nil
      /\ c.out.err # "ErrSQL"
    => /\ c.out.err = "ok"
       /\ StorageChecksum(c.out.rec) = StorageChecksum(c.seen.acked)
       /\ Originals(c.out.rec) \in {Originals(c.seen.acked), {}}

\* Once Purge was acknowledged no original of the record is stored, no Get
\* invoked later returns one, and no Put of it invoked later is acknowledged.
ErasedStaysErased ==
  /\ \A id \in erased : Originals(db[id].rec) = {}
  /\ \A t \in Threads :
       call[t].seen.erased /\ call[t].own /\ call[t].out.err = "ok" =>
         /\ Answered(t, "get") => Originals(call[t].out.rec) = {}
         /\ Answered(t, "put") => Originals(call[t].rec) = {}

\* The committed rows implement the abstract store.
ImplementsStore == Abstract!Spec

\* Every call returns: a thread in a transaction always comes to its end, so
\* that the threads waiting for the one connection of the pool get it.
CallsReturn == \A t \in Threads : ~ Ready(t) ~> Ready(t)
=============================================================================
