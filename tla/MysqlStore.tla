----------------------------- MODULE MysqlStore -----------------------------
(***************************************************************************)
(* The MySQL store, src/artifact/mysql: Put with its deadlock retry, Get,  *)
(* Purge, and PutTx and GetTx inside a transaction the caller owns, run    *)
(* concurrently, one SQL statement per step.                               *)
(*                                                                         *)
(* InnoDB is not in the repository.  Of it the model has what the store    *)
(* relies on: REPEATABLE READ (a transaction's first plain SELECT fixes    *)
(* the snapshot all its plain SELECTs read; locking reads and writes see   *)
(* the latest version), row locks held to the end of the transaction, and  *)
(* deadlock detection (error 1213, the victim is rolled back).  A parent   *)
(* row and its artifact rows are one cell db[id] = [rec, hash], for every  *)
(* statement on artifact rows runs while its transaction locks the parent  *)
(* row or reads a snapshot.                                                *)
(***************************************************************************)
EXTENDS SqlRows

LOCAL INSTANCE Relation

CONSTANTS
  Threads,      \* threads, each with a pooled connection
  Trusts,       \* per thread, the trusted keys of the Store it calls
  MaxAttempts,  \* 5 in the code: attempt 0 to 4
  MaxTxOps,     \* bound on the calls inside one caller-owned transaction
  MaxCalls      \* bound on the Put, Purge and caller-owned transactions begun

ASSUME MysqlAssumption ==
  /\ MaxAttempts \in Nat \ {0}
  /\ MaxTxOps \in Nat
  /\ MaxCalls \in Nat

VARIABLES
  db,      \* committed: per id Nil or [rec, hash]
  held,    \* per thread and id: the locks its transaction holds on the row
  tx,      \* per thread: its transaction [snap, work, ops, stable, puts]
  call,    \* per thread: the method it is in, or the result of the last one
  acked,   \* history: per id the record whose Put was committed and answered nil
  erased,  \* history: ids whose Purge was answered nil
  begun    \* how many writing calls have begun

history == <<acked, erased>>
vars == <<db, held, tx, call, acked, erased, begun>>

-----------------------------------------------------------------------------
\* Locks (external).  "S" and "X" lock the parent row, or the place it would
\* be inserted at; "G" is the gap lock of a SELECT ... FOR UPDATE that found
\* no row.

NoLocks == [id \in Id |-> {}]

Others(t, id, modes) == {u \in Threads \ {t} : held[u][id] \cap modes # {}}

\* A transaction is [snap, work, ops, stable, puts]: its snapshot, Nil until it
\* is taken; its uncommitted cells; the number of calls made in it; and, as
\* history, the records its Puts and locking reads found stored and the
\* records its Puts accepted.
NoTx == [snap |-> Nil, work |-> [id \in Id |-> Nil], ops |-> 0,
         stable |-> {}, puts |-> {}]

\* The version of a row that locking reads and writes see.
Current(t, id) == IF tx[t].work[id] # Nil THEN tx[t].work[id] ELSE db[id]

\* The transactions that thread t's next statement has to wait for.  INSERT of
\* a row another transaction has locked asks for "S" on it ("insertWait");
\* INSERT into a gap waits for those who lock the gap.
Blockers(t) ==
  LET id == call[t].id IN
  CASE call[t].pc = "insertWait" -> Others(t, id, {"X"})
    [] call[t].pc = "insert" ->
         IF Current(t, id) = Nil /\ Others(t, id, {"X"}) = {}
         THEN Others(t, id, {"S", "G"}) ELSE {}
    [] call[t].pc = "purgeLock" \/ (call[t].pc = "readParent" /\ call[t].lock) ->
         IF Current(t, id) = Nil THEN Others(t, id, {"X"})
         ELSE Others(t, id, {"S", "X"})
    [] OTHER -> {}

InWaitCycle(t) ==
  LET waits == [p \in Threads \X Threads |-> p[2] \in Blockers(p[1])]
  IN  Blockers(t) # {} /\ TransitiveClosure(waits, Threads)[t, t]

Take(t, id, mode) == held' = [held EXCEPT ![t][id] = held[t][id] \cup {mode}]

-----------------------------------------------------------------------------
\* Calls: [op, pc, id, rec, lock, row, next, try, own, out, seen].  own says
\* whether the store began the transaction (Put, Get, Purge) or the caller did.

Idle == [op |-> "none", pc |-> "idle", id |-> Nil, rec |-> Nil, lock |-> FALSE,
         row |-> Nil, next |-> 1, try |-> 0, own |-> TRUE,
         out |-> [err |-> "none", rec |-> Nil],
         seen |-> [acked |-> Nil, erased |-> FALSE]]

Ready(t) == call[t].pc \in {"idle", "done"}

Seen(id) == [acked |-> acked[id], erased |-> id \in erased]

\* The state of call c once it has returned.
Returned(c, pc, out) ==
  [c EXCEPT !.pc = pc, !.out = out, !.row = Nil, !.next = 1, !.try = 0,
     !.rec = IF out.err = "ok" /\ c.op = "put" THEN c.rec ELSE Nil]

\* Mutant: the locks of a finished transaction are not released.
EndKeepingLocks(t) ==
  /\ UNCHANGED held
  /\ tx' = [tx EXCEPT ![t] = NoTx]

\* The transaction of t ends: its locks go, and its cells with them.
End(t) ==
  /\ held' = [held EXCEPT ![t] = NoLocks]
  /\ tx' = [tx EXCEPT ![t] = NoTx]

\* Mutant: a failing Put, Get or Purge returns without rolling back.
FailsWithoutRollback(t, err) ==
  /\ call' = [call EXCEPT ![t] =
       Returned(call[t], IF call[t].own THEN "done" ELSE "failed", Out(err, Nil))]
  /\ UNCHANGED <<held, tx>>

\* The call of t fails with err.  A transaction the store began is rolled back
\* by finishRollback; then Put begins anew after error 1213, at most
\* MaxAttempts times in all.  A transaction of the caller stays open, with its
\* locks, until the caller rolls it back, unless the server already has.
Fails(t, err) ==
  LET again == err = "1213" /\ call[t].op = "put" /\ call[t].try + 1 < MaxAttempts
  IN  IF call[t].own
      THEN /\ call' = [call EXCEPT ![t] =
                IF again THEN [call[t] EXCEPT !.pc = "backoff", !.row = Nil,
                                              !.next = 1]
                ELSE Returned(call[t], "done", Out(err, Nil))]
           /\ End(t)
      ELSE /\ call' = [call EXCEPT ![t] = Returned(call[t], "failed", Out(err, Nil))]
           /\ IF err = "1213" THEN End(t) ELSE UNCHANGED <<held, tx>>

\* read refuses what it found.  A GetTx leaves the caller's transaction usable;
\* any other call fails.
Refuses(t, err) ==
  IF call[t].own \/ call[t].op = "put" THEN Fails(t, err)
  ELSE /\ call' = [call EXCEPT ![t] = Returned(call[t], "open", Out(err, Nil))]
       /\ UNCHANGED <<held, tx>>

\* The statements of t's call are done, with result out.  The store commits its
\* own transaction; in the caller's the call returns.
Succeeds(t, out, stable, puts) ==
  /\ call' = [call EXCEPT ![t] =
       IF call[t].own THEN [call[t] EXCEPT !.pc = "commit", !.out = out]
       ELSE Returned(call[t], "open", out)]
  /\ tx' = [tx EXCEPT ![t].stable = @ \cup stable, ![t].puts = @ \cup puts]

-----------------------------------------------------------------------------
Init ==
  /\ db = [id \in Id |-> Nil]
  /\ held = [t \in Threads |-> NoLocks]
  /\ tx = [t \in Threads |-> NoTx]
  /\ call = [t \in Threads |-> Idle]
  /\ acked = [id \in Id |-> Nil]
  /\ erased = {}
  /\ begun = 0

\* putOnce: BeginTx, then what PutTx does before its first statement.
PutCall(t) ==
  /\ Ready(t)
  /\ begun < MaxCalls
  /\ begun' = begun + 1
  /\ \E r \in Records :
       LET err == AdmissionError(r, Trusts[t])
           c == [Idle EXCEPT !.op = "put", !.id = r.id, !.seen = Seen(r.id)]
       IN  call' = [call EXCEPT ![t] =
             IF err # "ok" THEN [c EXCEPT !.pc = "done", !.out = Out(err, Nil)]
             ELSE [c EXCEPT !.pc = "insert", !.rec = Prepared(r)]]
  /\ UNCHANGED <<db, held, tx, history>>

\* retryDeadlock after its backoff: the context is done, or putOnce again.
Retry(t) ==
  /\ call[t].pc = "backoff"
  /\ \/ call' = [call EXCEPT ![t].pc = "insert", ![t].try = @ + 1]
     \/ call' = [call EXCEPT ![t] = Returned(call[t], "done", Out("ErrContext", Nil))]
  /\ UNCHANGED <<db, held, tx, history, begun>>

\* The caller's transaction and the calls it may make in it.
BeginTx(t) ==
  /\ Ready(t)
  /\ begun < MaxCalls
  /\ begun' = begun + 1
  /\ call' = [call EXCEPT ![t] = [Idle EXCEPT !.op = "tx", !.pc = "open", !.own = FALSE]]
  /\ UNCHANGED <<db, held, tx, history>>

PutTxCall(t) ==
  /\ call[t].pc = "open"
  /\ tx[t].ops < MaxTxOps
  /\ tx' = [tx EXCEPT ![t].ops = @ + 1]
  /\ \E r \in Records :
       LET err == AdmissionError(r, Trusts[t])
           c == [Idle EXCEPT !.op = "put", !.id = r.id, !.own = FALSE,
                             !.seen = Seen(r.id)]
       IN  call' = [call EXCEPT ![t] =
             IF err # "ok" THEN [c EXCEPT !.pc = "failed", !.out = Out(err, Nil)]
             ELSE [c EXCEPT !.pc = "insert", !.rec = Prepared(r)]]
  /\ UNCHANGED <<db, held, history, begun>>

GetTxCall(t) ==
  /\ call[t].pc = "open"
  /\ tx[t].ops < MaxTxOps
  /\ tx' = [tx EXCEPT ![t].ops = @ + 1]
  /\ \E id \in Id, lock \in BOOLEAN :
       LET c == [Idle EXCEPT !.op = "get", !.id = id, !.own = FALSE, !.lock = lock,
                             !.seen = Seen(id)]
       IN  call' = [call EXCEPT ![t] =
             IF id \in ValidId THEN [c EXCEPT !.pc = "readParent"]
             ELSE [c EXCEPT !.pc = "open", !.out = Out("ErrInvalid", Nil)]]
  /\ UNCHANGED <<db, held, history, begun>>

GetCall(t) ==
  /\ Ready(t)
  /\ \E id \in Id :
       LET c == [Idle EXCEPT !.op = "get", !.id = id, !.seen = Seen(id)]
       IN  call' = [call EXCEPT ![t] =
             IF id \in ValidId THEN [c EXCEPT !.pc = "readParent"]
             ELSE [c EXCEPT !.pc = "done", !.out = Out("ErrInvalid", Nil)]]
  /\ UNCHANGED <<db, held, tx, history, begun>>

PurgeCall(t) ==
  /\ Ready(t)
  /\ begun < MaxCalls
  /\ begun' = begun + 1
  /\ \E id \in Id :
       LET c == [Idle EXCEPT !.op = "purge", !.id = id, !.seen = Seen(id)]
       IN  call' = [call EXCEPT ![t] =
             IF id \in ValidId THEN [c EXCEPT !.pc = "purgeLock"]
             ELSE [c EXCEPT !.pc = "done", !.out = Out("ErrInvalid", Nil)]]
  /\ UNCHANGED <<db, held, tx, history>>

-----------------------------------------------------------------------------
\* PutTx.

\* INSERT of the parent row meets a row that another transaction has locked.
InsertWait(t) ==
  /\ call[t].pc = "insert"
  /\ Others(t, call[t].id, {"X"}) # {}
  /\ call' = [call EXCEPT ![t].pc = "insertWait"]
  /\ UNCHANGED <<db, held, tx, history, begun>>

\* That transaction has ended: the shared lock is granted, INSERT goes on.
InsertGrant(t) ==
  /\ call[t].pc = "insertWait"
  /\ Blockers(t) = {}
  /\ Take(t, call[t].id, "S")
  /\ call' = [call EXCEPT ![t].pc = "insert"]
  /\ UNCHANGED <<db, tx, history, begun>>

\* Mutant: the duplicate is read without FOR UPDATE.
InsertDuplicatePlainRead(t) ==
  /\ call[t].pc = "insert"
  /\ Others(t, call[t].id, {"X"}) = {}
  /\ Current(t, call[t].id) # Nil
  /\ Take(t, call[t].id, "S")
  /\ call' = [call EXCEPT ![t].pc = "readParent", ![t].lock = FALSE]
  /\ UNCHANGED <<db, tx, history, begun>>

\* Error 1062: the row is there; it stays share-locked.  read with lock = true.
InsertDuplicate(t) ==
  /\ call[t].pc = "insert"
  /\ Others(t, call[t].id, {"X"}) = {}
  /\ Current(t, call[t].id) # Nil
  /\ Take(t, call[t].id, "S")
  /\ call' = [call EXCEPT ![t].pc = "readParent", ![t].lock = TRUE]
  /\ UNCHANGED <<db, tx, history, begun>>

\* Mutant: the INSERT runs on the pool instead of the transaction.
InsertParentAutocommit(t) ==
  LET r == call[t].rec IN
  /\ call[t].pc = "insert"
  /\ Others(t, r.id, {"X", "S", "G"}) = {}
  /\ Current(t, r.id) = Nil
  /\ Take(t, r.id, "X")
  /\ db' = [db EXCEPT ![r.id] = ParentRow(r)]
  /\ tx' = [tx EXCEPT ![t].work[r.id] = ParentRow(r)]
  /\ call' = [call EXCEPT ![t].pc = "artifacts", ![t].next = 1]
  /\ UNCHANGED <<history, begun>>

\* The parent row is inserted, with the checksum of the whole inventory.
InsertParent(t) ==
  LET r == call[t].rec IN
  /\ call[t].pc = "insert"
  /\ Others(t, r.id, {"X", "S", "G"}) = {}
  /\ Current(t, r.id) = Nil
  /\ Take(t, r.id, "X")
  /\ tx' = [tx EXCEPT ![t].work[r.id] = ParentRow(r)]
  /\ call' = [call EXCEPT ![t].pc = "artifacts", ![t].next = 1]
  /\ UNCHANGED <<db, history, begun>>

\* One INSERT per artifact.
InsertArtifact(t) ==
  LET r == call[t].rec IN
  /\ call[t].pc = "artifacts"
  /\ call[t].next <= Len(r.artifacts)
  /\ tx' = [tx EXCEPT ![t].work[r.id] = WithRow(@, r.artifacts[call[t].next])]
  /\ call' = [call EXCEPT ![t].next = @ + 1]
  /\ UNCHANGED <<db, held, history, begun>>

\* ... and PutTx returns nil after the last.
InsertDone(t) ==
  /\ call[t].pc = "artifacts"
  /\ call[t].next > Len(call[t].rec.artifacts)
  /\ Succeeds(t, Out("ok", Nil), {call[t].rec}, {call[t].rec})
  /\ UNCHANGED <<db, held, history, begun>>

-----------------------------------------------------------------------------
\* read: two SELECTs, FOR UPDATE when lock is set.

\* The snapshot of a plain SELECT: taken by the first one, own writes on top.
SnapshotOf(t) == IF tx[t].snap = Nil THEN db ELSE tx[t].snap
Visible(t, id) ==
  IF tx[t].work[id] # Nil THEN tx[t].work[id] ELSE SnapshotOf(t)[id]

ReadParent(t) ==
  LET id == call[t].id
      lock == call[t].lock
      row == IF lock THEN Current(t, id) ELSE Visible(t, id)
  IN  /\ call[t].pc = "readParent"
      /\ Blockers(t) = {}
      /\ IF row = Nil /\ (call[t].own \/ call[t].op = "put")
         THEN Fails(t, "ErrNotFound")
         ELSE /\ IF lock THEN Take(t, id, IF row = Nil THEN "G" ELSE "X")
                         ELSE UNCHANGED held
              /\ tx' = [tx EXCEPT ![t].snap = IF lock THEN @ ELSE SnapshotOf(t)]
              /\ call' = [call EXCEPT ![t] =
                   IF row = Nil THEN Returned(call[t], "open", Out("ErrNotFound", Nil))
                   ELSE [call[t] EXCEPT !.pc = "readArtifacts", !.row = row]]
      /\ UNCHANGED <<db, history, begun>>

\* The artifact rows, and the verdict on what was read.
ReadArtifacts(t) ==
  LET id == call[t].id
      rows == IF call[t].lock THEN Current(t, id) ELSE Visible(t, id)
      old == ReadResult(call[t].row, rows, Trusts[t])
      err == IF call[t].op = "put" THEN DuplicateError(call[t].rec, old) ELSE old.err
  IN  /\ call[t].pc = "readArtifacts"
      /\ IF err # "ok" THEN Refuses(t, err)
         ELSE /\ IF call[t].op = "put"
                 THEN Succeeds(t, Out("ok", Nil), {old.rec}, {call[t].rec})
                 ELSE Succeeds(t, old, IF call[t].lock THEN {old.rec} ELSE {}, {})
              /\ UNCHANGED held
      /\ UNCHANGED <<db, history, begun>>

-----------------------------------------------------------------------------
\* Purge.

PurgeLock(t) ==
  LET id == call[t].id IN
  /\ call[t].pc = "purgeLock"
  /\ Blockers(t) = {}
  /\ IF Current(t, id) = Nil
     THEN Fails(t, "ErrNotFound")
     ELSE /\ Take(t, id, "X")
          /\ call' = [call EXCEPT ![t].pc = "purgeUpdate"]
          /\ UNCHANGED tx
  /\ UNCHANGED <<db, history, begun>>

\* Mutant: the artifact rows are deleted instead of being made tombstones.
PurgeUpdateDeletes(t) ==
  LET id == call[t].id
      cell == Current(t, id)
  IN  /\ call[t].pc = "purgeUpdate"
      /\ tx' = [tx EXCEPT ![t].work[id] = [cell EXCEPT !.rec.artifacts = <<>>]]
      /\ call' = [call EXCEPT ![t].pc = "commit", ![t].out = Out("ok", Nil)]
      /\ UNCHANGED <<db, held, history, begun>>

\* UPDATE ... SET content_bytes=NULL, retention_state='purged' of present rows.
PurgeUpdate(t) ==
  LET id == call[t].id
      cell == Current(t, id)
  IN  /\ call[t].pc = "purgeUpdate"
      /\ tx' = [tx EXCEPT ![t].work[id] = Erased(cell)]
      /\ call' = [call EXCEPT ![t].pc = "commit", ![t].out = Out("ok", Nil)]
      /\ UNCHANGED <<db, held, history, begun>>

-----------------------------------------------------------------------------
\* The end of a transaction.

Apply(t) ==
  db' = [id \in Id |-> IF tx[t].work[id] # Nil THEN tx[t].work[id] ELSE db[id]]

\* The caller commits a transaction in which no PutTx and no statement failed.
CallerCommit(t) ==
  /\ call[t].pc = "open"
  /\ call' = [call EXCEPT ![t] = [Idle EXCEPT !.op = "tx", !.pc = "commit",
                                              !.own = FALSE, !.out = Out("ok", Nil)]]
  /\ UNCHANGED <<db, held, tx, history, begun>>

\* tx.Commit.
Commit(t) ==
  /\ call[t].pc = "commit"
  /\ Apply(t)
  /\ End(t)
  /\ call' = [call EXCEPT ![t] = Returned(call[t], "done", call[t].out)]
  /\ acked' = [id \in Id |->
       LET puts == {r \in tx[t].puts : r.id = id}
       IN  IF acked[id] = Nil /\ puts # {} THEN CHOOSE r \in puts : TRUE
           ELSE acked[id]]
  /\ erased' = IF call[t].op = "purge" THEN erased \cup {call[t].id} ELSE erased
  /\ UNCHANGED begun

\* The connection is lost during tx.Commit: an error, whether or not the
\* server committed.
CommitLost(t) ==
  /\ call[t].pc = "commit"
  /\ Apply(t) \/ UNCHANGED db
  /\ End(t)
  /\ call' = [call EXCEPT ![t] = Returned(call[t], "done", Out("ErrIO", Nil))]
  /\ UNCHANGED <<history, begun>>

\* The caller gives up, as it must once a call has failed.
CallerRollback(t) ==
  /\ call[t].pc \in {"open", "failed"}
  /\ End(t)
  /\ call' = [call EXCEPT ![t] = Idle]
  /\ UNCHANGED <<db, history, begun>>

InStatement(t) ==
  call[t].pc \in {"insert", "insertWait", "artifacts", "readParent",
                  "readArtifacts", "purgeLock", "purgeUpdate"}

\* InnoDB picks t to break a cycle of waiting transactions: error 1213.
Deadlock(t) ==
  /\ InStatement(t)
  /\ InWaitCycle(t)
  /\ Fails(t, "1213")
  /\ UNCHANGED <<db, history, begun>>

\* Any other error: the context ends, a lock wait times out, the link breaks.
StatementFails(t) ==
  /\ InStatement(t)
  /\ Fails(t, "ErrIO")
  /\ UNCHANGED <<db, history, begun>>

-----------------------------------------------------------------------------
Statement(t) ==
  \/ InsertWait(t) \/ InsertGrant(t) \/ InsertDuplicate(t) \/ InsertParent(t)
  \/ InsertArtifact(t) \/ InsertDone(t)
  \/ ReadParent(t) \/ ReadArtifacts(t)
  \/ PurgeLock(t) \/ PurgeUpdate(t)
  \/ Retry(t) \/ Deadlock(t)
  \/ Commit(t)

CallerStep(t) == PutTxCall(t) \/ GetTxCall(t) \/ CallerCommit(t) \/ CallerRollback(t)

Next ==
  \E t \in Threads :
    \/ PutCall(t) \/ GetCall(t) \/ PurgeCall(t) \/ BeginTx(t)
    \/ CallerStep(t)
    \/ Statement(t) \/ CommitLost(t) \/ StatementFails(t)

Spec == Init /\ [][Next]_vars

\* Statements that can run do run, InnoDB breaks deadlocks, and the caller ends
\* its transactions: PutTx requires it to roll back on error.
FairSpec ==
  /\ Spec
  /\ \A t \in Threads :
       WF_vars(Statement(t)) /\ WF_vars(CallerCommit(t) \/ CallerRollback(t))

-----------------------------------------------------------------------------
\* The contract of ArtifactStore, read off the committed rows.
Stored == [id \in Id |-> IF db[id] = Nil THEN Nil ELSE db[id].rec]

AdmissibleRecords ==
  [id \in Id |-> {Prepared(r) :
     r \in {q \in Records : /\ q.id = id
                            /\ \E t \in Threads : AdmissionError(q, Trusts[t]) = "ok"}}]

Abstract == INSTANCE ArtifactStore WITH
  Admissible <- AdmissibleRecords, stored <- Stored

-----------------------------------------------------------------------------
\* Properties.

\* The result of an operation is there to be looked at.
Answered(t, op) == call[t].op = op /\ call[t].pc \in {"done", "open"}

\* Type correctness: cells, lock modes, and that nothing of a transaction is
\* left when its thread has none.
TypeOK ==
  /\ \A id \in Id : db[id] # Nil => db[id].rec.id = id
  /\ held \in [Threads -> [Id -> SUBSET {"S", "X", "G"}]]
  /\ \A t \in Threads :
       /\ call[t].try \in 0..(MaxAttempts - 1)
       /\ Ready(t) \/ call[t].pc = "backoff" => tx[t] = NoTx /\ held[t] = NoLocks
  /\ erased \subseteq Id

\* Every committed record is whole: its inventory has the checksum its parent
\* row was given before the first artifact row, whichever transaction failed,
\* was chosen as a deadlock victim or lost its connection between the INSERTs.
CommittedWhole ==
  \A id \in Id : db[id] # Nil => StorageChecksum(db[id].rec) = db[id].hash

\* What PutTx answered nil for, and what GetTx returned with lock = true, is
\* what is stored for as long as the transaction is open: no concurrent Purge
\* or Put comes between the answer and the caller's commit.
StableUntilCommit ==
  \A t \in Threads : \A r \in tx[t].stable :
    Current(t, r.id) # Nil /\ Current(t, r.id).rec = r

\* A Get invoked after a Put was acknowledged returns that record, whole or
\* with every original erased, and a caller's locking GetTx likewise.
ReadYourWrites ==
  \A t \in Threads :
    LET c == call[t] IN
    /\ Answered(t, "get") /\ (c.own \/ c.lock)
    /\ c.seen.acked # Nil /\ c.out.err # "ErrIO"
    => IF c.seen.acked.envelope.key \in Trusts[t]
       THEN /\ c.out.err = "ok"
            /\ StorageChecksum(c.out.rec) = StorageChecksum(c.seen.acked)
            /\ Originals(c.out.rec) \in {Originals(c.seen.acked), {}}
       ELSE c.out.err = "ErrUntrustedSigner"

\* Once Purge was acknowledged no original of the record is stored, and no Get,
\* no locking GetTx and no Put of it invoked later gets one back.
ErasedStaysErased ==
  /\ \A id \in erased : Originals(db[id].rec) = {}
  /\ \A t \in Threads :
       call[t].seen.erased /\ call[t].out.err = "ok" =>
         /\ Answered(t, "get") /\ (call[t].own \/ call[t].lock)
              => Originals(call[t].out.rec) = {}
         /\ Answered(t, "put") => Originals(call[t].rec) = {}

\* The committed rows implement the abstract store: a commit admits the records
\* that its transaction inserted, each under a free id -- one of Put, any number
\* of a transaction of the caller -- or erases the one Purge asked for, and
\* nothing else changes them.
ImplementsStore == Abstract!Spec

\* Every call returns and every transaction ends: lock waits form no cycle that
\* lasts, a failed call leaves no lock behind, Put's retries are bounded.
CallsReturn == \A t \in Threads : ~ Ready(t) ~> Ready(t)
=============================================================================
