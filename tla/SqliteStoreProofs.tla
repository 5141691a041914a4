-------------------------- MODULE SqliteStoreProofs --------------------------
(***************************************************************************)
(* The safety of SqliteStore for any number of processes, threads, ids and *)
(* records: one connection and one writer at a time, whole rows, reads     *)
(* that hold until a transaction commits, and the contract of              *)
(* ArtifactStore.                                                          *)
(***************************************************************************)
EXTENDS SqliteStore, SqlRowsProofs

-----------------------------------------------------------------------------
\* The inductive invariant, in terms of one thread's call c and transaction x,
\* whether the thread is the writer (wr) and has the connection (has), and the
\* committed rows d.

\* What a row can be between transactions: absent, whole, or whole and purged.
RowStates(id) == {Nil} \cup UNION {WholeCells(p) : p \in AdmissibleRecords[id]}

TableOK(d) ==
  /\ d = [id \in Id |-> d[id]]
  /\ \A id \in Id : d[id] \in RowStates(id)

\* Every acknowledged record is stored, whole or without originals; the erased
\* ones are stored without.
HistoryOK(d, ack, er) ==
  /\ ack = [id \in Id |-> ack[id]]
  /\ \A id \in Id : ack[id] # Nil => d[id] # Nil /\ Recalls(d[id].rec, ack[id])
  /\ er \subseteq Id
  /\ \A id \in er : d[id] # Nil /\ Originals(d[id].rec) = {}

VisibleIn(x, d, id) ==
  IF x.work[id] # Nil THEN x.work[id] ELSE IF x.snap = Nil THEN d[id] ELSE x.snap[id]

TxFields == {"snap", "work", "ops", "reads", "puts"}

\* Only the writer has rows of its own and Puts that succeeded, and it reads the
\* newest rows; what a transaction has read and put is what it sees.
TxOK(x, wr, d) ==
  /\ DOMAIN x = TxFields /\ DOMAIN x.work = Id
  /\ x.snap # Nil => TableOK(x.snap)
  /\ x.snap = Nil => x.reads = {}
  /\ wr => x.snap = d
  /\ ~ wr => x.puts = {} /\ \A id \in Id : x.work[id] = Nil
  /\ \A r \in x.puts : r.id \in Id /\ r \in AdmissibleRecords[r.id]
  /\ \A r \in x.puts \cup x.reads :
       /\ r.id \in Id
       /\ VisibleIn(x, d, r.id) # Nil
       /\ Inventory(VisibleIn(x, d, r.id).rec) = Inventory(r)

\* What a commit would do to a row: nothing, admit a record or erase one.  A call
\* that failed half way leaves rows that are never committed.
WorkOK(c, x, d) ==
  \A id \in Id :
    \/ x.work[id] = Nil
    \/ c.pc = "failed"
    \/ c.pc = "artifacts" /\ id = c.id
    \/ d[id] = Nil /\ \E p \in AdmissibleRecords[id] : x.work[id] = Whole(p)
    \/ d[id] # Nil /\ x.work[id] = Erased(d[id])

CallFields == {"op", "pc", "id", "rec", "row", "next", "own", "out", "seen"}

Putting == {"insert", "artifacts", "readParent", "readArtifacts", "commit"}

\* Which call a thread can be in at each point, and its arguments.
ArgsOK(c) ==
  /\ DOMAIN c = CallFields
  /\ c.op \in {"put", "get", "purge"} => c.id \in Id
  /\ c.op = "put" /\ c.pc \in Putting => c.rec \in AdmissibleRecords[c.id]
  /\ c.pc = "begin" =>
       /\ c.op \in {"put", "get", "purge", "tx"} /\ c.own = (c.op # "tx")
       /\ c.op = "put" => c.rec \in Records /\ c.rec.id = c.id
  /\ c.pc \in {"insert", "artifacts"} => c.op = "put"
  /\ c.pc \in {"readParent", "readArtifacts"} => c.op \in {"put", "get"}
  /\ c.pc \in {"purgeSelect", "purgeUpdate"} => c.op = "purge" /\ c.own
  /\ c.pc \in {"open", "failed"} => ~ c.own
  /\ c.pc = "commit" => c.own \/ c.op = "tx"

\* What a call saw when it was invoked is still so.
SeenOK(c, ack, er) ==
  /\ c.seen.acked # Nil => c.id \in Id /\ ack[c.id] = c.seen.acked
  /\ c.seen.erased => c.id \in er

\* How far the statements of a call have come.
StatementOK(c, x, wr, d) ==
  /\ c.pc \in {"idle", "done", "begin"} => x = NoTx /\ ~ wr
  /\ c.pc \in {"insert", "purgeSelect"} /\ c.own => x = NoTx /\ ~ wr
  /\ c.pc \in {"begin", "insert"} => c.next = 1
  /\ c.pc = "artifacts" =>
       /\ wr /\ d[c.id] = Nil /\ ~ c.seen.erased
       /\ c.next \in 1..(Len(c.rec.artifacts) + 1)
       /\ x.work[c.id] = Inserted(c.rec, c.next - 1)
       /\ \A r \in x.puts \cup x.reads : r.id # c.id
  /\ c.pc = "readParent" =>
       /\ c.op = "put" => wr /\ VisibleIn(x, d, c.id) # Nil
       /\ c.op = "get" /\ c.own => x = NoTx /\ ~ wr
  /\ c.pc = "readArtifacts" =>
       /\ c.op = "put" => wr
       /\ x.snap # Nil /\ c.row # Nil /\ c.row = VisibleIn(x, d, c.id)
  /\ c.pc = "purgeUpdate" =>
       /\ x.snap # Nil /\ x.snap[c.id] # Nil /\ ~ wr /\ x.reads = {}
  /\ c.pc = "commit" /\ c.op = "purge" =>
       wr /\ d[c.id] # Nil /\ x.work[c.id] = Erased(d[c.id])

\* What a Get of the store has read is what was acknowledged when it was invoked,
\* and a Put it has accepted of an erased record has no originals.
Knows(c, r) ==
  /\ c.seen.acked # Nil => Recalls(r, c.seen.acked)
  /\ c.seen.erased => Originals(r) = {}

AnswerOK(c) ==
  /\ c.op = "get" /\ c.own =>
       /\ c.pc = "readArtifacts" => Knows(c, c.row.rec)
       /\ c.pc = "commit" => c.out.err = "ok"
       /\ c.pc \in {"commit", "done"} /\ c.out.err = "ok" => Knows(c, c.out.rec)
       /\ c.pc = "done" /\ c.seen.acked # Nil => c.out.err \in {"ok", "ErrSQL"}
  /\ c.op = "put" /\ c.own /\ c.pc \in {"commit", "done"} =>
       (c.out.err = "ok" /\ c.seen.erased => Originals(c.rec) = {})

ThreadOK(c, x, wr, has, d, ack, er) ==
  /\ TxOK(x, wr, d) /\ WorkOK(c, x, d)
  /\ ArgsOK(c) /\ SeenOK(c, ack, er) /\ StatementOK(c, x, wr, d) /\ AnswerOK(c)
  /\ (c.pc \notin {"idle", "done", "begin"}) <=> has
  /\ wr => has

SafeInv ==
  /\ TableOK(db) /\ HistoryOK(db, acked, erased)
  /\ call = [t \in Threads |-> call[t]] /\ tx = [t \in Threads |-> tx[t]]
  /\ conn = [p \in Processes |-> conn[p]]
  /\ writer # Nil => writer \in Threads
  /\ \A t \in Threads :
       ThreadOK(call[t], tx[t], writer = t, conn[Process[t]] = t, db, acked, erased)

-----------------------------------------------------------------------------
\* What the definitions say, in the form the steps use.

\* An admissible record is storable, by a trusted signer, under its id.
LEMMA AdmissibleFacts ==
  ASSUME NEW id \in Id, NEW p \in AdmissibleRecords[id]
  PROVE  Storable(p) /\ p.id = id /\ p.envelope.key \in Trusted /\ id \in ValidId
<1>1. PICK r \in Records : p = Prepared(r) /\ r.id = id /\ AdmissionError(r, Trusted) = "ok"
  BY DEF AdmissibleRecords
<1>2. Storable(p) /\ p.id = id /\ p.envelope.key \in Trusted
  BY <1>1, AdmittedIsStorable
<1> QED BY <1>2 DEF Storable, Sound, Authentic

\* A row between transactions.
LEMMA RowFacts ==
  ASSUME NEW id \in Id, NEW cell \in RowStates(id), cell # Nil
  PROVE  /\ cell.rec.id = id /\ id \in ValidId
         /\ cell \in Cells /\ Sound(cell.rec) /\ cell.rec # Nil
         /\ cell.hash = StorageChecksum(cell.rec)
         /\ Erased(cell) # Nil /\ Erased(cell) \in RowStates(id)
         /\ Erased(cell).rec = Tombstoned(cell.rec)
         /\ Originals(Erased(cell).rec) = {}
         /\ \A a : Recalls(cell.rec, a) => Recalls(Erased(cell).rec, a)
         /\ ReadResult(cell, cell, Trusted) = Out("ok", cell.rec)
<1>1. PICK p \in AdmissibleRecords[id] : cell \in WholeCells(p)
  BY DEF RowStates
<1>2. Storable(p) /\ p.id = id /\ p.envelope.key \in Trusted /\ id \in ValidId
  BY AdmissibleFacts
<1>3. Erased(cell) \in WholeCells(p)
  BY <1>1, <1>2, WholeCell DEF WholeCells
<1>4. Erased(cell) # Nil /\ Erased(cell) \in RowStates(id)
  BY <1>2, <1>3, WholeCell DEF RowStates
<1>5. cell.hash = StorageChecksum(cell.rec)
  BY <1>1, <1>2, WholeCell
<1> QED BY <1>1, <1>2, <1>4, <1>5, WholeCell, ReadWhole

\* A version of the table is not the absence of a snapshot.
LEMMA TableFacts ==
  ASSUME NEW d, TableOK(d)
  PROVE  d # Nil
<1>1. \A id \in Id : d[id] \in Cells \cup {Nil}
  BY RowFacts DEF TableOK
<1>2. d \in [Id -> Cells \cup {Nil}]
  BY <1>1 DEF TableOK
<1> QED BY <1>2, RowsAssumption

\* What a thread sees, as a function of its transaction.
LEMMA VisibleIs ==
  ASSUME NEW t, NEW id
  PROVE  Visible(t, id) = VisibleIn(tx[t], db, id)
BY DEF Visible, VisibleIn, Snapshot

\* Outside the INSERTs of a record every row a transaction sees is one that can
\* be committed.
LEMMA VisibleRow ==
  ASSUME NEW c, NEW x, NEW wr \in BOOLEAN, NEW d, NEW id \in Id,
         TableOK(d), TxOK(x, wr, d), WorkOK(c, x, d), c.pc \notin {"failed", "artifacts"}
  PROVE  VisibleIn(x, d, id) \in RowStates(id)
<1>1. CASE x.work[id] = Nil
  BY <1>1 DEF VisibleIn, TxOK, TableOK
<1>2. ASSUME NEW p \in AdmissibleRecords[id], x.work[id] = Whole(p), x.work[id] # Nil
      PROVE  VisibleIn(x, d, id) \in RowStates(id)
  <2>1. VisibleIn(x, d, id) = Whole(p)
    BY <1>2 DEF VisibleIn
  <2> QED BY <2>1 DEF RowStates, WholeCells
<1>3. CASE d[id] # Nil /\ x.work[id] = Erased(d[id])
  BY <1>3, RowFacts DEF VisibleIn, TableOK
<1> QED BY <1>1, <1>2, <1>3 DEF WorkOK

\* A thread without a transaction sees the committed rows.
LEMMA NoTxFacts ==
  /\ NoTx.snap = Nil /\ NoTx.reads = {} /\ NoTx.puts = {} /\ NoTx.ops = 0
  /\ \A id \in Id : NoTx.work[id] = Nil
  /\ \A d, id : id \in Id => VisibleIn(NoTx, d, id) = d[id]
  /\ \A d, c : TxOK(NoTx, FALSE, d) /\ WorkOK(c, NoTx, d)
<1>1. /\ NoTx.snap = Nil /\ NoTx.reads = {} /\ NoTx.puts = {} /\ NoTx.ops = 0
      /\ \A id \in Id : NoTx.work[id] = Nil
      /\ DOMAIN NoTx = TxFields /\ DOMAIN NoTx.work = Id
  BY DEF NoTx, TxFields
<1> QED BY <1>1 DEF VisibleIn, TxOK, WorkOK

\* A thread that makes no call keeps every promise.
LEMMA IdleOK ==
  ASSUME NEW d, NEW ack, NEW er
  PROVE  ThreadOK(Idle, NoTx, FALSE, FALSE, d, ack, er)
<1>1. /\ Idle.op = "none" /\ Idle.pc = "idle" /\ Idle.next = 1 /\ Idle.own = TRUE
      /\ Idle.seen.acked = Nil /\ Idle.seen.erased = FALSE
      /\ DOMAIN Idle = CallFields
  BY DEF Idle, CallFields
<1>2. ArgsOK(Idle) /\ SeenOK(Idle, ack, er) /\ AnswerOK(Idle)
  BY <1>1 DEF ArgsOK, SeenOK, AnswerOK
<1>3. StatementOK(Idle, NoTx, FALSE, d)
  BY <1>1 DEF StatementOK
<1> QED BY <1>1, <1>2, <1>3, NoTxFacts DEF ThreadOK

\* What is kept of a call when it returns.
LEMMA ReturnedFields ==
  ASSUME NEW c, DOMAIN c = CallFields, NEW pc, NEW out
  PROVE  LET k == Returned(c, pc, out) IN
         /\ DOMAIN k = DOMAIN c
         /\ k.op = c.op /\ k.pc = pc /\ k.id = c.id /\ k.row = Nil /\ k.next = 1
         /\ k.own = c.own /\ k.out = out /\ k.seen = c.seen
         /\ k.rec = IF out.err = "ok" /\ c.op = "put" THEN c.rec ELSE Nil
BY DEF Returned, CallFields

-----------------------------------------------------------------------------
\* Steps of one thread and what they leave alone in the others.

\* A step of t that commits nothing.
LEMMA LocalStep ==
  ASSUME SafeInv, NEW t \in Threads,
         UNCHANGED <<db, acked, erased>>,
         call' = [call EXCEPT ![t] = call'[t]], tx' = [tx EXCEPT ![t] = tx'[t]],
         \/ writer' = writer
         \/ writer \in {Nil, t} /\ writer' \in {Nil, t},
         \/ conn' = conn
         \/ /\ conn[Process[t]] \in {Nil, t}
            /\ conn' = [conn EXCEPT ![Process[t]] = Nil] \/ conn' = [conn EXCEPT ![Process[t]] = t],
         ThreadOK(call'[t], tx'[t], writer' = t, conn'[Process[t]] = t, db, acked, erased)
  PROVE  SafeInv'
<1>1. Nil \notin Threads
  BY SqliteAssumption
<1>2. ASSUME NEW u \in Threads
      PROVE  ThreadOK(call'[u], tx'[u], writer' = u, conn'[Process[u]] = u, db, acked, erased)
  <2>1. CASE u = t
    BY <2>1
  <2>2. CASE u # t
    <3>1. call'[u] = call[u] /\ tx'[u] = tx[u]
      BY <2>2 DEF SafeInv
    <3>2. (writer' = u) = (writer = u)
      BY <1>1, <2>2
    <3>3. (conn'[Process[u]] = u) = (conn[Process[u]] = u)
      <4>1. Process[u] \in Processes /\ Process[t] \in Processes
        BY DEF Processes
      <4>2. CASE Process[u] = Process[t]
        BY <1>1, <2>2, <4>1, <4>2 DEF SafeInv
      <4>3. CASE Process[u] # Process[t]
        BY <4>1, <4>3 DEF SafeInv
      <4> QED BY <4>2, <4>3
    <3>4. ThreadOK(call[u], tx[u], writer = u, conn[Process[u]] = u, db, acked, erased)
      BY DEF SafeInv
    <3> QED BY <3>1, <3>2, <3>3, <3>4
  <2> QED BY <2>1, <2>2
<1>3. /\ call' = [u \in Threads |-> call'[u]] /\ tx' = [u \in Threads |-> tx'[u]]
      /\ conn' = [p \in Processes |-> conn'[p]] /\ (writer' # Nil => writer' \in Threads)
  BY DEF SafeInv
<1>4. TableOK(db) /\ HistoryOK(db, acked, erased)
  BY DEF SafeInv
<1> QED BY <1>2, <1>3, <1>4 DEF SafeInv

\* A commit of another thread: this one is not the writer and reads its snapshot.
LEMMA OthersKeep ==
  ASSUME NEW c, NEW x, NEW wr \in BOOLEAN, NEW has, NEW d, NEW ack, NEW er,
         NEW d2, NEW ack2, NEW er2,
         ThreadOK(c, x, wr, has, d, ack, er), wr => d2 = d,
         \A id \in Id : ack[id] # Nil => ack2[id] = ack[id], er \subseteq er2
  PROVE  ThreadOK(c, x, wr, has, d2, ack2, er2)
<1>1. SeenOK(c, ack2, er2)
  BY DEF ThreadOK, SeenOK
<1>2. CASE wr
  BY <1>1, <1>2 DEF ThreadOK
<1>3. CASE ~ wr
  <2>1. TxOK(x, wr, d2)
    BY <1>3 DEF ThreadOK, TxOK, VisibleIn
  <2>2. WorkOK(c, x, d2)
    BY <1>3 DEF ThreadOK, TxOK, WorkOK
  <2>3. StatementOK(c, x, wr, d2)
    <3>1. c.pc = "readArtifacts" => VisibleIn(x, d2, c.id) = VisibleIn(x, d, c.id)
      BY DEF ThreadOK, StatementOK, VisibleIn
    <3> QED BY <1>3, <3>1 DEF ThreadOK, StatementOK
  <2> QED BY <1>1, <2>1, <2>2, <2>3 DEF ThreadOK
<1> QED BY <1>2, <1>3

-----------------------------------------------------------------------------
\* Steps that end a call.

\* A call that returns with a right answer keeps every promise.
LEMMA DoneOK ==
  ASSUME NEW c, NEW x, NEW wr, NEW has, NEW d, NEW ack, NEW er,
         ThreadOK(c, x, wr, has, d, ack, er), NEW out,
         c.op = "get" /\ c.own =>
           /\ out.err = "ok" => Knows(c, out.rec)
           /\ c.seen.acked # Nil => out.err \in {"ok", "ErrSQL"},
         c.op = "put" /\ c.own /\ out.err = "ok" /\ c.seen.erased => Originals(c.rec) = {}
  PROVE  ThreadOK(Returned(c, "done", out), NoTx, FALSE, FALSE, d, ack, er)
<1> DEFINE k == Returned(c, "done", out)
<1>1. ArgsOK(c) /\ SeenOK(c, ack, er) /\ DOMAIN c = CallFields
  BY DEF ThreadOK, ArgsOK
<1>2. /\ DOMAIN k = DOMAIN c
      /\ k.op = c.op /\ k.pc = "done" /\ k.id = c.id /\ k.own = c.own /\ k.out = out
      /\ k.seen = c.seen /\ (out.err = "ok" /\ c.op = "put" => k.rec = c.rec)
  BY <1>1, ReturnedFields
<1> HIDE DEF k
<1>3. ArgsOK(k)
  BY <1>1, <1>2 DEF ArgsOK, Putting
<1>4. SeenOK(k, ack, er)
  BY <1>1, <1>2 DEF SeenOK
<1>5. StatementOK(k, NoTx, FALSE, d)
  BY <1>2 DEF StatementOK
<1>6. AnswerOK(k)
  BY <1>2 DEF AnswerOK, Knows
<1>7. ThreadOK(k, NoTx, FALSE, FALSE, d, ack, er)
  BY <1>2, <1>3, <1>4, <1>5, <1>6, NoTxFacts DEF ThreadOK
<1> QED BY <1>7 DEF k

\* A call that fails in the caller's transaction leaves its rows there.
LEMMA FailedOK ==
  ASSUME NEW c, NEW x, NEW wr, NEW has, NEW d, NEW ack, NEW er,
         ThreadOK(c, x, wr, has, d, ack, er), NEW out, ~ c.own, has
  PROVE  ThreadOK(Returned(c, "failed", out), x, wr, has, d, ack, er)
<1> DEFINE k == Returned(c, "failed", out)
<1>1. ArgsOK(c) /\ SeenOK(c, ack, er) /\ DOMAIN c = CallFields
  BY DEF ThreadOK, ArgsOK
<1>2. /\ DOMAIN k = DOMAIN c /\ k.op = c.op /\ k.pc = "failed" /\ k.id = c.id
      /\ k.own = c.own /\ k.seen = c.seen
  BY <1>1, ReturnedFields
<1> HIDE DEF k
<1>3. ArgsOK(k)
  BY <1>1, <1>2 DEF ArgsOK, Putting
<1>4. SeenOK(k, ack, er)
  BY <1>1, <1>2 DEF SeenOK
<1>5. StatementOK(k, x, wr, d) /\ WorkOK(k, x, d)
  BY <1>2 DEF StatementOK, WorkOK
<1>6. AnswerOK(k)
  BY <1>2 DEF AnswerOK
<1>7. ThreadOK(k, x, wr, has, d, ack, er)
  BY <1>2, <1>3, <1>4, <1>5, <1>6 DEF ThreadOK
<1> QED BY <1>7 DEF k

\* The transaction of t is over: no connection, no write lock, no rows.
LEMMA EndFrees ==
  ASSUME SafeInv, NEW t \in Threads, End(t)
  PROVE  /\ tx'[t] = NoTx /\ tx' = [tx EXCEPT ![t] = tx'[t]]
         /\ writer' # t /\ (writer' = writer \/ (writer \in {Nil, t} /\ writer' \in {Nil, t}))
         /\ conn' = [conn EXCEPT ![Process[t]] = Nil] /\ conn'[Process[t]] # t
<1>1. Nil \notin Threads /\ Process[t] \in Processes
  BY SqliteAssumption DEF Processes
<1>2. tx'[t] = NoTx /\ tx' = [tx EXCEPT ![t] = tx'[t]]
  BY DEF SafeInv, End
<1>3. writer' = IF writer = t THEN Nil ELSE writer
  BY DEF End
<1>4. conn' = [conn EXCEPT ![Process[t]] = Nil] /\ conn'[Process[t]] # t
  BY <1>1 DEF SafeInv, End
<1>5. writer' # t /\ (writer' = writer \/ (writer \in {Nil, t} /\ writer' \in {Nil, t}))
  <2>1. CASE writer = t
    BY <1>1, <1>3, <2>1
  <2>2. CASE writer # t
    BY <1>3, <2>2
  <2> QED BY <2>1, <2>2
<1> QED BY <1>2, <1>4, <1>5

\* finishRollback gives back the connection and the write lock
\* (sqlite/store.go).
LEMMA FailsSafe ==
  ASSUME SafeInv, NEW t \in Threads, call[t].pc \notin {"idle", "done", "begin"},
         UNCHANGED <<db, acked, erased>>, NEW err, err # "ok", Fails(t, err),
         call[t].op = "get" /\ call[t].own /\ call[t].seen.acked # Nil => err = "ErrSQL"
  PROVE  SafeInv'
<1> DEFINE c == call[t]
           out == Out(err, Nil)
<1>1. ThreadOK(c, tx[t], writer = t, conn[Process[t]] = t, db, acked, erased)
  BY DEF SafeInv
<1>2. conn[Process[t]] = t /\ out.err = err
  BY <1>1 DEF ThreadOK, Out
<1>3. CASE c.own
  <2>1. call' = [call EXCEPT ![t] = Returned(c, "done", out)] /\ End(t)
    BY <1>3 DEF Fails
  <2>2. call'[t] = Returned(c, "done", out) /\ call' = [call EXCEPT ![t] = call'[t]]
    BY <2>1 DEF SafeInv
  <2> HIDE DEF c, out
  <2>3. ThreadOK(Returned(c, "done", out), NoTx, FALSE, FALSE, db, acked, erased)
    BY <1>1, <1>2, DoneOK DEF c
  <2>4. (writer' = t) = FALSE /\ (conn'[Process[t]] = t) = FALSE /\ tx'[t] = NoTx
    BY <2>1, EndFrees
  <2>5. ThreadOK(call'[t], tx'[t], writer' = t, conn'[Process[t]] = t, db, acked, erased)
    BY <2>2, <2>3, <2>4
  <2> QED BY <1>2, <2>1, <2>2, <2>5, EndFrees, LocalStep
<1>4. CASE ~ c.own
  <2>1. call' = [call EXCEPT ![t] = Returned(c, "failed", out)] /\ UNCHANGED <<conn, writer, tx>>
    BY <1>4 DEF Fails
  <2>2. call'[t] = Returned(c, "failed", out) /\ call' = [call EXCEPT ![t] = call'[t]]
    BY <2>1 DEF SafeInv
  <2> HIDE DEF c, out
  <2>3. ThreadOK(Returned(c, "failed", out), tx[t], writer = t, conn[Process[t]] = t,
                 db, acked, erased)
    BY <1>1, <1>2, <1>4, FailedOK
  <2>4. tx' = [tx EXCEPT ![t] = tx'[t]]
    BY <2>1 DEF SafeInv
  <2> QED BY <2>1, <2>2, <2>3, <2>4, LocalStep
<1> QED BY <1>3, <1>4

-----------------------------------------------------------------------------
\* Calls and the beginning of a transaction.

\* Outside a transaction a thread holds neither the connection nor the write
\* lock.
LEMMA OutsideOK ==
  ASSUME SafeInv, NEW t \in Threads, call[t].pc \in {"idle", "done", "begin"}
  PROVE  /\ tx[t] = NoTx /\ writer # t /\ conn[Process[t]] # t
         /\ DOMAIN call[t] = CallFields
BY DEF SafeInv, ThreadOK, StatementOK, ArgsOK

\* A thread outside a transaction stays outside.
LEMMA OutsideStep ==
  ASSUME SafeInv, NEW t \in Threads, call[t].pc \in {"idle", "done", "begin"},
         UNCHANGED <<db, conn, writer, tx, acked, erased>>,
         NEW k, call' = [call EXCEPT ![t] = k], k.pc \in {"begin", "done"},
         ArgsOK(k), SeenOK(k, acked, erased), AnswerOK(k), k.pc = "begin" => k.next = 1
  PROVE  SafeInv'
<1>1. call'[t] = k /\ call' = [call EXCEPT ![t] = call'[t]] /\ tx' = [tx EXCEPT ![t] = tx'[t]]
  BY DEF SafeInv
<1>2. tx'[t] = NoTx /\ (writer' = t) = FALSE /\ (conn'[Process[t]] = t) = FALSE
  BY OutsideOK
<1>3. StatementOK(k, NoTx, FALSE, db)
  BY DEF StatementOK
<1>4. ThreadOK(k, NoTx, FALSE, FALSE, db, acked, erased)
  BY <1>3, NoTxFacts DEF ThreadOK
<1>5. ThreadOK(call'[t], tx'[t], writer' = t, conn'[Process[t]] = t, db, acked, erased)
  BY <1>1, <1>2, <1>4
<1> QED BY <1>1, <1>5, LocalStep

\* Making a call preserves the invariant.
LEMMA CallsSafe ==
  ASSUME SafeInv, NEW t \in Threads,
         PutCall(t) \/ GetCall(t) \/ PurgeCall(t) \/ TxCall(t)
  PROVE  SafeInv'
<1>1. call[t].pc \in {"idle", "done", "begin"} /\ UNCHANGED <<db, conn, writer, tx, acked, erased>>
  BY DEF PutCall, GetCall, PurgeCall, TxCall, Ready, locks, history
<1>2. ASSUME NEW op \in {"put", "get", "purge"}, NEW id \in Id, NEW rec,
             op = "put" => rec \in Records /\ rec.id = id,
             call' = [call EXCEPT ![t] = [Invocation(op, id, rec, TRUE) EXCEPT !.pc = "begin"]]
      PROVE  SafeInv'
  <2> DEFINE i == Invocation(op, id, rec, TRUE)
             k == [i EXCEPT !.pc = "begin"]
  <2>1. /\ DOMAIN i = CallFields /\ i.op = op /\ i.id = id /\ i.rec = rec /\ i.next = 1
        /\ i.own = TRUE /\ i.seen.acked = acked[id] /\ (i.seen.erased => id \in erased)
    BY DEF Invocation, Idle, CallFields
  <2>2. call' = [call EXCEPT ![t] = k]
    BY <1>2
  <2> HIDE DEF i
  <2>3. /\ DOMAIN k = CallFields /\ k.op = op /\ k.pc = "begin" /\ k.id = id /\ k.rec = rec
        /\ k.next = 1 /\ k.own = TRUE /\ k.seen = i.seen
    BY <2>1 DEF CallFields
  <2> HIDE DEF k
  <2>4. ArgsOK(k)
    BY <1>2, <2>3 DEF ArgsOK, Putting
  <2>5. SeenOK(k, acked, erased) /\ AnswerOK(k)
    BY <2>1, <2>3 DEF SeenOK, AnswerOK
  <2> QED BY <1>1, <2>2, <2>3, <2>4, <2>5, OutsideStep
<1>3. CASE PutCall(t)
  <2>1. PICK r \in Records :
          call' = [call EXCEPT ![t] = [Invocation("put", r.id, r, TRUE) EXCEPT !.pc = "begin"]]
    BY <1>3 DEF PutCall
  <2>2. r.id \in Id
    BY RowsAssumption
  <2> QED BY <1>2, <2>1, <2>2
<1>4. CASE GetCall(t)
  BY <1>2, <1>4 DEF GetCall
<1>5. CASE PurgeCall(t)
  <2>1. PICK id \in Id : call' = [call EXCEPT ![t] =
          IF id \in ValidId THEN [Invocation("purge", id, Nil, TRUE) EXCEPT !.pc = "begin"]
          ELSE [Invocation("purge", id, Nil, TRUE) EXCEPT !.pc = "done",
                                                          !.out = Out("ErrInvalid", Nil)]]
    BY <1>5 DEF PurgeCall
  <2>2. CASE id \in ValidId
    BY <1>2, <2>1, <2>2
  <2>3. CASE id \notin ValidId
    <3> DEFINE i == Invocation("purge", id, Nil, TRUE)
               k == [i EXCEPT !.pc = "done", !.out = Out("ErrInvalid", Nil)]
    <3>1. /\ DOMAIN i = CallFields /\ i.op = "purge" /\ i.id = id
          /\ i.own = TRUE /\ i.seen.acked = acked[id] /\ (i.seen.erased => id \in erased)
      BY DEF Invocation, Idle, CallFields
    <3>2. call' = [call EXCEPT ![t] = k]
      BY <2>1, <2>3
    <3> HIDE DEF i
    <3>3. /\ DOMAIN k = CallFields /\ k.op = "purge" /\ k.pc = "done" /\ k.id = id
          /\ k.own = TRUE /\ k.seen = i.seen
      BY <3>1 DEF CallFields
    <3> HIDE DEF k
    <3>4. ArgsOK(k) /\ SeenOK(k, acked, erased) /\ AnswerOK(k)
      BY <3>1, <3>3 DEF ArgsOK, SeenOK, AnswerOK, Putting
    <3> QED BY <1>1, <3>2, <3>3, <3>4, OutsideStep
  <2> QED BY <2>2, <2>3
<1>6. CASE TxCall(t)
  <2> DEFINE k == [Idle EXCEPT !.op = "tx", !.own = FALSE, !.pc = "begin"]
  <2>1. /\ DOMAIN k = CallFields /\ k.op = "tx" /\ k.pc = "begin" /\ k.own = FALSE
        /\ k.next = 1 /\ k.seen.acked = Nil /\ k.seen.erased = FALSE
    BY DEF Idle, CallFields
  <2>2. call' = [call EXCEPT ![t] = k]
    BY <1>6 DEF TxCall
  <2> HIDE DEF k
  <2>3. ArgsOK(k) /\ SeenOK(k, acked, erased) /\ AnswerOK(k)
    BY <2>1 DEF ArgsOK, SeenOK, AnswerOK
  <2> QED BY <1>1, <2>1, <2>2, <2>3, OutsideStep
<1> QED BY <1>3, <1>4, <1>5, <1>6

\* A context that ends while the call waits for the connection does too.
LEMMA BeginFailsSafe ==
  ASSUME SafeInv, NEW t \in Threads, BeginFails(t)
  PROVE  SafeInv'
<1> DEFINE c == call[t]
           out == Out("ErrSQL", Nil)
           k == Returned(c, "done", out)
<1>1. c.pc = "begin" /\ call' = [call EXCEPT ![t] = k]
      /\ UNCHANGED <<db, conn, writer, tx, acked, erased>>
  BY DEF BeginFails, locks, history
<1>2. ThreadOK(c, tx[t], writer = t, conn[Process[t]] = t, db, acked, erased)
  BY DEF SafeInv
<1>3. out.err = "ErrSQL"
  BY DEF Out
<1> HIDE DEF out
<1>4. k.pc = "done"
  BY <1>1, OutsideOK, ReturnedFields
<1> HIDE DEF c
<1>5. ThreadOK(k, NoTx, FALSE, FALSE, db, acked, erased)
  BY <1>2, <1>3, DoneOK
<1> HIDE DEF k
<1>6. ArgsOK(k) /\ SeenOK(k, acked, erased) /\ AnswerOK(k)
  BY <1>5 DEF ThreadOK
<1> QED BY <1>1, <1>4, <1>6, OutsideStep DEF c

\* A call before its first statement.
Invoked(c, ack, er) ==
  /\ DOMAIN c = CallFields /\ c.next = 1 /\ SeenOK(c, ack, er)
  /\ c.op \in {"put", "get", "purge", "tx"}
  /\ c.op \in {"put", "get", "purge"} => c.id \in Id
  /\ c.op = "put" => c.rec \in Records /\ c.rec.id = c.id
  /\ c.op = "purge" => c.own
  /\ c.op = "tx" => ~ c.own

\* A call at its first statement, or refused by the checks of Prepare and
\* Verify.
LEMMA EnteredOK ==
  ASSUME NEW c, NEW d, NEW ack, NEW er, TableOK(d), HistoryOK(d, ack, er), Invoked(c, ack, er)
  PROVE  LET k == Entered(c) IN
         /\ ArgsOK(k) /\ SeenOK(k, ack, er) /\ AnswerOK(k)
         /\ k.pc \in {"done", "open", "failed", "insert", "readParent", "purgeSelect"}
         /\ k.pc = "done" => c.own
         /\ \A x, wr : (c.own => x = NoTx /\ ~ wr) => StatementOK(k, x, wr, d)
<1> DEFINE k == Entered(c)
           err == CASE c.op = "put" -> AdmissionError(c.rec, Trusted)
                    [] c.op = "get" /\ c.id \notin ValidId -> "ErrInvalid"
                    [] OTHER -> "ok"
           after == IF c.own THEN "done" ELSE IF c.op = "get" THEN "open" ELSE "failed"
           out == Out(err, Nil)
<1>1. CASE err # "ok"
  <2>1. k = Returned(c, after, out)
    BY <1>1 DEF Entered
  <2>2. out.err = err
    BY DEF Out
  <2>3. c.op = "get" => err = "ErrInvalid" /\ c.id \notin ValidId
    BY <1>1
  <2>4. c.op = "get" => c.seen.acked = Nil
    BY <2>3, RowFacts DEF Invoked, SeenOK, HistoryOK, TableOK
  <2> HIDE DEF k, after, out, err
  <2>5. /\ DOMAIN k = CallFields /\ k.op = c.op /\ k.pc = after /\ k.id = c.id
        /\ k.own = c.own /\ k.out.err # "ok" /\ k.seen = c.seen
    BY <1>1, <2>1, <2>2, ReturnedFields DEF Invoked
  <2>6. after \in {"done", "open", "failed"} /\ (after = "done" <=> c.own)
    BY DEF after
  <2>7. ArgsOK(k)
    BY <2>5, <2>6 DEF ArgsOK, Putting, Invoked
  <2>8. SeenOK(k, ack, er) /\ AnswerOK(k)
    BY <2>4, <2>5, <2>6 DEF SeenOK, AnswerOK, Invoked
  <2>9. \A x, wr : (c.own => x = NoTx /\ ~ wr) => StatementOK(k, x, wr, d)
    BY <2>5, <2>6 DEF StatementOK
  <2> QED BY <2>5, <2>6, <2>7, <2>8, <2>9 DEF k
<1>2. CASE err = "ok"
  <2> DEFINE pc == CASE c.op = "put" -> "insert"
                     [] c.op = "get" -> "readParent"
                     [] c.op = "purge" -> "purgeSelect"
                     [] OTHER -> "open"
             rec == IF c.op = "put" THEN Prepared(c.rec) ELSE Nil
  <2>1. k = [c EXCEPT !.pc = pc, !.rec = rec]
    BY <1>2 DEF Entered
  <2>2. c.op = "put" => AdmissionError(c.rec, Trusted) = "ok"
    BY <1>2
  <2>3. c.op = "put" => rec \in AdmissibleRecords[c.id]
    BY <2>2 DEF Invoked, AdmissibleRecords
  <2>4. /\ c.op = "put" => pc = "insert"
        /\ c.op = "get" => pc = "readParent"
        /\ c.op = "purge" => pc = "purgeSelect"
        /\ c.op = "tx" => pc = "open"
    OBVIOUS
  <2> HIDE DEF k, pc, rec, err
  <2>5. /\ DOMAIN k = CallFields /\ k.op = c.op /\ k.pc = pc /\ k.id = c.id /\ k.rec = rec
        /\ k.own = c.own /\ k.seen = c.seen /\ k.next = 1
    BY <2>1 DEF Invoked, CallFields
  <2>6. ArgsOK(k)
    BY <2>3, <2>4, <2>5 DEF ArgsOK, Putting, Invoked
  <2>7. SeenOK(k, ack, er) /\ AnswerOK(k)
    BY <2>4, <2>5 DEF SeenOK, AnswerOK, Invoked
  <2>8. \A x, wr : (c.own => x = NoTx /\ ~ wr) => StatementOK(k, x, wr, d)
    BY <2>4, <2>5 DEF StatementOK, Invoked
  <2> QED BY <2>4, <2>5, <2>6, <2>7, <2>8 DEF k, Invoked
<1> QED BY <1>1, <1>2

\* Getting the connection of the pool preserves the invariant.
LEMMA BeginSafe ==
  ASSUME SafeInv, NEW t \in Threads, Begin(t)
  PROVE  SafeInv'
<1> DEFINE c == call[t]
           k == Entered(c)
<1>1. /\ c.pc = "begin" /\ conn[Process[t]] = Nil /\ call' = [call EXCEPT ![t] = k]
      /\ UNCHANGED <<db, writer, tx, acked, erased>>
      /\ conn' = IF call'[t].pc = "done" THEN conn ELSE [conn EXCEPT ![Process[t]] = t]
  BY DEF Begin, history
<1>2. /\ tx[t] = NoTx /\ (writer = t) = FALSE /\ (conn[Process[t]] = t) = FALSE
      /\ DOMAIN c = CallFields
  BY <1>1, OutsideOK
<1>3. Invoked(c, acked, erased) /\ TableOK(db) /\ HistoryOK(db, acked, erased)
  BY <1>1, <1>2 DEF Invoked, SafeInv, ThreadOK, ArgsOK, StatementOK
<1>4. call'[t] = k /\ call' = [call EXCEPT ![t] = call'[t]] /\ tx' = [tx EXCEPT ![t] = tx'[t]]
  BY <1>1 DEF SafeInv
<1> HIDE DEF c
<1>5. /\ ArgsOK(k) /\ SeenOK(k, acked, erased) /\ AnswerOK(k)
      /\ k.pc \in {"done", "open", "failed", "insert", "readParent", "purgeSelect"}
      /\ StatementOK(k, NoTx, FALSE, db)
  BY <1>3, EnteredOK
<1> HIDE DEF k
<1>6. CASE k.pc = "done"
  <2>1. ThreadOK(k, NoTx, FALSE, FALSE, db, acked, erased)
    BY <1>5, <1>6, NoTxFacts DEF ThreadOK
  <2>2. conn' = conn
    BY <1>1, <1>4, <1>6
  <2>3. ThreadOK(call'[t], tx'[t], writer' = t, conn'[Process[t]] = t, db, acked, erased)
    BY <1>1, <1>2, <1>4, <2>1, <2>2
  <2> QED BY <1>1, <1>4, <2>2, <2>3, LocalStep
<1>7. CASE k.pc # "done"
  <2>1. conn' = [conn EXCEPT ![Process[t]] = t] /\ (conn'[Process[t]] = t) = TRUE
    BY <1>1, <1>4, <1>7 DEF SafeInv, Processes
  <2>2. ThreadOK(k, NoTx, FALSE, TRUE, db, acked, erased)
    BY <1>5, <1>7, NoTxFacts DEF ThreadOK
  <2>3. ThreadOK(call'[t], tx'[t], writer' = t, conn'[Process[t]] = t, db, acked, erased)
    BY <1>1, <1>2, <1>4, <2>1, <2>2
  <2> QED BY <1>1, <1>4, <2>1, <2>3, LocalStep
<1> QED BY <1>6, <1>7

\* Transactions x and y see the same rows, have the same ones of their own, and
\* have read and put the same records.
Same(x, y, d) ==
  /\ DOMAIN x = TxFields /\ DOMAIN y = TxFields /\ y.work = x.work
  /\ y.snap = x.snap \/ (x.snap = Nil /\ y.snap = d)
  /\ y.reads = x.reads /\ y.puts = x.puts

\* A transaction that changes no row keeps its promises.
LEMMA SameKeeps ==
  ASSUME NEW x, NEW y, NEW d, NEW wr, TableOK(d), Same(x, y, d), TxOK(x, wr, d)
  PROVE  TxOK(y, wr, d) /\ \A id \in Id : VisibleIn(y, d, id) = VisibleIn(x, d, id)
<1>1. \A id : VisibleIn(y, d, id) = VisibleIn(x, d, id)
  BY TableFacts DEF Same, VisibleIn
<1>2. (y.snap # Nil => TableOK(y.snap)) /\ (y.snap = Nil => x.snap = Nil) /\ (wr => y.snap = d)
  BY TableFacts DEF Same, TxOK
<1> QED BY <1>1, <1>2 DEF Same, TxOK

\* A call inside the caller's transaction preserves the invariant.
LEMMA TxOpSafe ==
  ASSUME SafeInv, NEW t \in Threads, TxOp(t)
  PROVE  SafeInv'
<1> DEFINE x == tx[t]
           y == [x EXCEPT !.ops = @ + 1]
<1>1. /\ call[t].pc = "open" /\ tx' = [tx EXCEPT ![t] = y]
      /\ UNCHANGED <<db, conn, writer, acked, erased>>
  BY DEF TxOp, locks, history
<1>2. ThreadOK(call[t], x, writer = t, conn[Process[t]] = t, db, acked, erased)
      /\ TableOK(db) /\ HistoryOK(db, acked, erased)
  BY DEF SafeInv
<1>3. conn[Process[t]] = t
  BY <1>1, <1>2 DEF ThreadOK
<1>4. PICK c : call' = [call EXCEPT ![t] = Entered(c)] /\ Invoked(c, acked, erased) /\ ~ c.own
  <2>1. ASSUME NEW op \in {"put", "get"}, NEW id \in Id, NEW rec,
               op = "put" => rec \in Records /\ rec.id = id,
               call' = [call EXCEPT ![t] = Entered(Invocation(op, id, rec, FALSE))]
        PROVE  \E c : /\ call' = [call EXCEPT ![t] = Entered(c)]
                      /\ Invoked(c, acked, erased) /\ ~ c.own
    <3> DEFINE i == Invocation(op, id, rec, FALSE)
    <3>1. /\ DOMAIN i = CallFields /\ i.op = op /\ i.id = id /\ i.rec = rec /\ i.next = 1
          /\ i.own = FALSE /\ i.seen.acked = acked[id] /\ (i.seen.erased => id \in erased)
      BY DEF Invocation, Idle, CallFields
    <3> HIDE DEF i
    <3>2. Invoked(i, acked, erased)
      BY <2>1, <3>1 DEF Invoked, SeenOK
    <3> QED BY <2>1, <3>1, <3>2 DEF i
  <2>2. \A r \in Records : r.id \in Id
    BY RowsAssumption
  <2>3. CASE \E r \in Records :
               call' = [call EXCEPT ![t] = Entered(Invocation("put", r.id, r, FALSE))]
    BY <2>1, <2>2, <2>3
  <2>4. CASE \E id \in Id :
               call' = [call EXCEPT ![t] = Entered(Invocation("get", id, Nil, FALSE))]
    BY <2>1, <2>4
  <2> QED BY <2>3, <2>4 DEF TxOp
<1> DEFINE k == Entered(c)
<1>5. call'[t] = k /\ call' = [call EXCEPT ![t] = call'[t]]
      /\ tx'[t] = y /\ tx' = [tx EXCEPT ![t] = tx'[t]]
  BY <1>1, <1>4 DEF SafeInv
<1>6. /\ ArgsOK(k) /\ SeenOK(k, acked, erased) /\ AnswerOK(k)
      /\ k.pc \in {"open", "failed", "insert", "readParent", "purgeSelect"}
      /\ StatementOK(k, y, writer = t, db)
  BY <1>2, <1>4, EnteredOK
<1>7. Same(x, y, db)
  BY <1>2 DEF ThreadOK, TxOK, TxFields, Same
<1>8. y.work = x.work
  BY <1>7 DEF Same
<1> HIDE DEF k, y, x
<1>9. TxOK(y, writer = t, db)
  BY <1>2, <1>7, SameKeeps DEF ThreadOK
<1>10. WorkOK(k, y, db)
  BY <1>1, <1>2, <1>8 DEF ThreadOK, WorkOK
<1>11. ThreadOK(k, y, writer = t, conn[Process[t]] = t, db, acked, erased)
  BY <1>3, <1>6, <1>9, <1>10 DEF ThreadOK
<1>12. ThreadOK(call'[t], tx'[t], writer' = t, conn'[Process[t]] = t, db, acked, erased)
  BY <1>1, <1>5, <1>11
<1> QED BY <1>1, <1>5, <1>12, LocalStep

-----------------------------------------------------------------------------
\* Statements.

\* A step inside a transaction; wr says whether t is then the writer.
LEMMA StatementStep ==
  ASSUME SafeInv, NEW t \in Threads, call[t].pc \notin {"idle", "done", "begin"},
         UNCHANGED <<db, conn, acked, erased>>, NEW k, NEW y, NEW wr \in BOOLEAN,
         call' = [call EXCEPT ![t] = k], tx' = [tx EXCEPT ![t] = y],
         writer' = writer \/ (writer \in {Nil, t} /\ writer' = t), wr <=> (writer' = t),
         k.pc \notin {"idle", "done", "begin"},
         TxOK(y, wr, db), WorkOK(k, y, db), ArgsOK(k), SeenOK(k, acked, erased),
         StatementOK(k, y, wr, db), AnswerOK(k)
  PROVE  SafeInv'
<1>1. call'[t] = k /\ call' = [call EXCEPT ![t] = call'[t]]
      /\ tx'[t] = y /\ tx' = [tx EXCEPT ![t] = tx'[t]]
  BY DEF SafeInv
<1>2. conn'[Process[t]] = t
  BY DEF SafeInv, ThreadOK
<1>3. ThreadOK(k, y, wr, TRUE, db, acked, erased)
  BY DEF ThreadOK
<1>4. (writer' = t) = wr /\ (conn'[Process[t]] = t) = TRUE
  BY <1>2
<1>5. ThreadOK(call'[t], tx'[t], writer' = t, conn'[Process[t]] = t, db, acked, erased)
  BY <1>1, <1>3, <1>4
<1> QED BY <1>1, <1>5, LocalStep

\* What holds of a thread in a statement.
LEMMA InStatementOK ==
  ASSUME SafeInv, NEW t \in Threads
  PROVE  /\ TableOK(db) /\ HistoryOK(db, acked, erased)
         /\ TxOK(tx[t], writer = t, db) /\ WorkOK(call[t], tx[t], db)
         /\ ArgsOK(call[t]) /\ SeenOK(call[t], acked, erased)
         /\ StatementOK(call[t], tx[t], writer = t, db) /\ AnswerOK(call[t])
         /\ DOMAIN tx[t] = TxFields /\ DOMAIN call[t] = CallFields
BY DEF SafeInv, ThreadOK, TxOK, ArgsOK

\* The newest rows, which a writer reads.
LEMMA WriterReads ==
  ASSUME SafeInv, NEW t \in Threads, CanWrite(t)
  PROVE  LET y == [tx[t] EXCEPT !.snap = db] IN
         /\ Same(tx[t], y, db) /\ TxOK(y, TRUE, db) /\ y.snap = db
         /\ \A id \in Id : VisibleIn(y, db, id) = VisibleIn(tx[t], db, id)
<1> DEFINE x == tx[t]
           y == [x EXCEPT !.snap = db]
<1>1. Same(x, y, db)
  BY InStatementOK DEF CanWrite, TxOK, TxFields, Same
<1>2. y.snap = db
  BY InStatementOK DEF TxFields
<1>3. TxOK(x, writer = t, db) /\ TableOK(db)
  BY InStatementOK
<1> HIDE DEF y, x
<1>4. TxOK(y, writer = t, db) /\ \A id \in Id : VisibleIn(y, db, id) = VisibleIn(x, db, id)
  BY <1>1, <1>3, SameKeeps
<1>5. TxOK(y, TRUE, db)
  BY <1>2, <1>4 DEF TxOK
<1> QED BY <1>1, <1>2, <1>4, <1>5 DEF x, y

\* A duplicate key leaves the transaction the writer, and its snapshot the
\* newest.
LEMMA InsertDuplicateSafe ==
  ASSUME SafeInv, NEW t \in Threads, InsertDuplicate(t)
  PROVE  SafeInv'
<1> DEFINE c == call[t]
           k == [c EXCEPT !.pc = "readParent"]
           x == tx[t]
           y == [x EXCEPT !.snap = db]
<1>1. /\ c.pc = "insert" /\ CanWrite(t) /\ Visible(t, c.id) # Nil
      /\ writer' = t /\ UNCHANGED <<db, conn, acked, erased>>
      /\ call' = [call EXCEPT ![t] = k] /\ tx' = [tx EXCEPT ![t] = y]
  BY DEF InsertDuplicate, history
<1>2. /\ WorkOK(c, x, db) /\ ArgsOK(c) /\ SeenOK(c, acked, erased) /\ AnswerOK(c)
      /\ DOMAIN c = CallFields
  BY InStatementOK
<1>3. c.op = "put" /\ c.id \in Id
  BY <1>1, <1>2 DEF ArgsOK
<1>4. VisibleIn(x, db, c.id) # Nil
  BY <1>1, VisibleIs
<1>5. /\ TxOK(y, TRUE, db) /\ y.work = x.work
      /\ VisibleIn(y, db, c.id) # Nil
  BY <1>1, <1>3, <1>4, WriterReads DEF Same
<1>6. /\ DOMAIN k = CallFields /\ k.pc = "readParent" /\ k.op = "put" /\ k.id = c.id
      /\ k.rec = c.rec /\ k.own = c.own /\ k.seen = c.seen /\ k.out = c.out
  BY <1>2, <1>3 DEF CallFields
<1>7. writer' = writer \/ (writer \in {Nil, t} /\ writer' = t)
  BY <1>1 DEF CanWrite
<1> HIDE DEF c, k, x, y
<1>8. WorkOK(k, y, db)
  BY <1>1, <1>2, <1>5 DEF WorkOK
<1>9. ArgsOK(k) /\ SeenOK(k, acked, erased) /\ AnswerOK(k)
  BY <1>1, <1>2, <1>3, <1>6 DEF ArgsOK, SeenOK, AnswerOK, Putting
<1>10. StatementOK(k, y, TRUE, db)
  BY <1>5, <1>6 DEF StatementOK
<1>11. c.pc \notin {"idle", "done", "begin"} /\ k.pc \notin {"idle", "done", "begin"}
  BY <1>1, <1>6
<1> QED BY <1>1, <1>5, <1>7, <1>8, <1>9, <1>10, <1>11, StatementStep DEF c

\* The parent row is inserted by the writer.
LEMMA InsertParentSafe ==
  ASSUME SafeInv, NEW t \in Threads, InsertParent(t)
  PROVE  SafeInv'
<1> DEFINE c == call[t]
           r == c.rec
           k == [c EXCEPT !.pc = "artifacts"]
           x == tx[t]
           z == [x EXCEPT !.snap = db]
           y == [z EXCEPT !.work = [@ EXCEPT ![c.id] = ParentRow(r)]]
<1>1. /\ ArgsOK(c) /\ SeenOK(c, acked, erased) /\ AnswerOK(c) /\ StatementOK(c, x, writer = t, db)
      /\ DOMAIN c = CallFields /\ WorkOK(c, x, db) /\ TxOK(x, writer = t, db)
      /\ TableOK(db) /\ HistoryOK(db, acked, erased)
  BY InStatementOK
<1>2. c.pc = "insert" /\ c.op = "put" /\ c.id \in Id /\ r \in AdmissibleRecords[c.id] /\ c.next = 1
  BY <1>1 DEF InsertParent, ArgsOK, StatementOK, Putting
<1>3. Storable(r) /\ r.id = c.id
  BY <1>2, AdmissibleFacts
<1>4. /\ CanWrite(t) /\ Visible(t, c.id) = Nil
      /\ writer' = t /\ UNCHANGED <<db, conn, acked, erased>>
      /\ call' = [call EXCEPT ![t] = k]
      /\ tx' = [tx EXCEPT ![t] = y]
  <2>1. Visible(t, r.id) = Nil /\ tx' = [tx EXCEPT ![t] =
          [x EXCEPT !.snap = db, !.work = [@ EXCEPT ![r.id] = ParentRow(r)]]]
    BY DEF InsertParent
  <2> QED BY <1>3, <2>1 DEF InsertParent, history
<1>5. x.work[c.id] = Nil /\ db[c.id] = Nil /\ VisibleIn(x, db, c.id) = Nil
  BY <1>4, VisibleIs DEF VisibleIn, CanWrite
<1>6. /\ DOMAIN k = CallFields /\ k.pc = "artifacts" /\ k.op = "put" /\ k.id = c.id /\ k.rec = r
      /\ k.own = c.own /\ k.seen = c.seen /\ k.out = c.out /\ k.next = 1
  BY <1>1, <1>2 DEF CallFields
<1>7. /\ TxOK(z, TRUE, db) /\ z.work = x.work /\ z.snap = db
      /\ \A id \in Id : VisibleIn(z, db, id) = VisibleIn(x, db, id)
  BY <1>4, WriterReads DEF Same
<1>8. /\ DOMAIN y = TxFields /\ DOMAIN y.work = Id /\ y.snap = db
      /\ y.reads = z.reads /\ y.puts = z.puts /\ y.work[c.id] = ParentRow(r)
      /\ \A id \in Id : id # c.id => y.work[id] = z.work[id]
  BY <1>2, <1>7 DEF TxOK, TxFields
<1>9. writer' = writer \/ (writer \in {Nil, t} /\ writer' = t)
  BY <1>4 DEF CanWrite
<1>10. ParentRow(r) = Inserted(r, 0) /\ ParentRow(r) # Nil /\ Len(r.artifacts) \in Nat
  <2>1. Len(r.artifacts) \in Nat
    BY <1>3, InventoryIsSeq DEF Storable, Sound
  <2> QED BY <1>3, <2>1, InsertedRows
<1> HIDE DEF c, r, k, x, y, z
<1>11. \A q \in y.puts \cup y.reads : q.id # c.id
  BY <1>5, <1>7, <1>8 DEF TxOK
<1>12. \A id \in Id : id # c.id => VisibleIn(y, db, id) = VisibleIn(z, db, id)
  BY <1>7, <1>8 DEF VisibleIn
<1>13. TxOK(y, TRUE, db)
  BY <1>7, <1>8, <1>11, <1>12 DEF TxOK
<1>14. WorkOK(k, y, db)
  BY <1>1, <1>2, <1>6, <1>7, <1>8 DEF WorkOK
<1>15. ArgsOK(k) /\ SeenOK(k, acked, erased) /\ AnswerOK(k)
  BY <1>1, <1>2, <1>6 DEF ArgsOK, SeenOK, AnswerOK, Putting
<1>16. ~ c.seen.erased
  BY <1>1, <1>5 DEF SeenOK, HistoryOK
<1>17. StatementOK(k, y, TRUE, db)
  BY <1>5, <1>6, <1>8, <1>10, <1>11, <1>16 DEF StatementOK
<1>18. c.pc \notin {"idle", "done", "begin"} /\ k.pc \notin {"idle", "done", "begin"}
  BY <1>2, <1>6
<1> QED BY <1>4, <1>9, <1>13, <1>14, <1>15, <1>17, <1>18, StatementStep DEF c

\* The first statement of a transaction takes the snapshot the others read.
LEMMA SnapshotReads ==
  ASSUME SafeInv, NEW t \in Threads
  PROVE  LET y == [tx[t] EXCEPT !.snap = Snapshot(t)] IN
         /\ DOMAIN y = TxFields /\ y.work = tx[t].work /\ y.snap = Snapshot(t) /\ y.snap # Nil
         /\ y.reads = tx[t].reads /\ y.puts = tx[t].puts
         /\ TxOK(y, writer = t, db)
         /\ \A id \in Id : VisibleIn(y, db, id) = VisibleIn(tx[t], db, id)
<1> DEFINE x == tx[t]
           y == [x EXCEPT !.snap = Snapshot(t)]
<1>1. TxOK(x, writer = t, db) /\ TableOK(db) /\ DOMAIN x = TxFields
  BY InStatementOK
<1>2. /\ DOMAIN y = TxFields /\ y.work = x.work /\ y.snap = Snapshot(t)
      /\ y.reads = x.reads /\ y.puts = x.puts
  BY <1>1 DEF TxFields
<1>3. y.snap # Nil /\ Same(x, y, db)
  BY <1>1, <1>2, TableFacts DEF Snapshot, Same
<1> HIDE DEF y, x
<1>4. TxOK(y, writer = t, db) /\ \A id \in Id : VisibleIn(y, db, id) = VisibleIn(x, db, id)
  BY <1>1, <1>3, SameKeeps
<1> QED BY <1>2, <1>3, <1>4 DEF x, y

\* No rows but those a commit may leave.
WorkWhole(x, d) ==
  \A id \in Id :
    \/ x.work[id] = Nil
    \/ d[id] = Nil /\ \E p \in AdmissibleRecords[id] : x.work[id] = Whole(p)
    \/ d[id] # Nil /\ x.work[id] = Erased(d[id])

\* A record whose rows t sees.
SeesRows(t, r) ==
  /\ r.id \in Id /\ Visible(t, r.id) # Nil
  /\ Inventory(Visible(t, r.id).rec) = Inventory(r)

\* A call that succeeds answers what its snapshot shows.
LEMMA SucceedsSafe ==
  ASSUME SafeInv, NEW t \in Threads, call[t].pc \in {"artifacts", "readArtifacts"},
         UNCHANGED <<db, conn, writer, acked, erased>>,
         NEW out, NEW reads, NEW puts, out.err = "ok", Succeeds(t, out, reads, puts),
         WorkWhole(tx[t], db), puts # {} => writer = t,
         \A r \in puts : r.id \in Id /\ r \in AdmissibleRecords[r.id],
         \A r \in puts \cup reads : SeesRows(t, r),
         call[t].op = "put" /\ call[t].seen.erased => Originals(call[t].rec) = {},
         call[t].op = "get" /\ call[t].own => Knows(call[t], out.rec)
  PROVE  SafeInv'
<1> DEFINE c == call[t]
           k == IF c.own THEN [c EXCEPT !.pc = "commit", !.out = out] ELSE Returned(c, "open", out)
           x == tx[t]
           z == [x EXCEPT !.snap = Snapshot(t)]
           y == [z EXCEPT !.reads = @ \cup reads, !.puts = @ \cup puts]
<1>1. /\ ArgsOK(c) /\ SeenOK(c, acked, erased) /\ DOMAIN c = CallFields
      /\ TxOK(x, writer = t, db)
  BY InStatementOK
<1>2. c.op \in {"put", "get"} /\ (c.op = "put" => c.rec \in AdmissibleRecords[c.id])
  BY <1>1 DEF ArgsOK, Putting
<1>3. call' = [call EXCEPT ![t] = k]
  BY DEF Succeeds
<1>4. tx' = [tx EXCEPT ![t] = y]
  BY DEF Succeeds
<1>5. /\ DOMAIN z = TxFields /\ z.work = x.work /\ z.snap # Nil
      /\ z.reads = x.reads /\ z.puts = x.puts /\ TxOK(z, writer = t, db)
      /\ \A id \in Id : VisibleIn(z, db, id) = VisibleIn(x, db, id)
  BY SnapshotReads
<1>6. /\ DOMAIN y = TxFields /\ y.work = z.work /\ y.snap = z.snap
      /\ y.reads = z.reads \cup reads /\ y.puts = z.puts \cup puts
  BY <1>5 DEF TxFields
<1>7. /\ DOMAIN k = CallFields /\ k.pc \in {"commit", "open"} /\ (k.pc = "commit" <=> c.own)
      /\ k.op = c.op /\ k.id = c.id /\ k.own = c.own /\ k.seen = c.seen /\ k.out = out
      /\ (c.op = "put" => k.rec = c.rec)
  <2>1. CASE c.own
    <3>1. k = [c EXCEPT !.pc = "commit", !.out = out]
      BY <2>1
    <3> HIDE DEF k
    <3> QED BY <1>1, <2>1, <3>1 DEF CallFields
  <2>2. CASE ~ c.own
    <3>1. k = Returned(c, "open", out)
      BY <2>2
    <3> HIDE DEF k
    <3> QED BY <1>1, <2>2, <3>1, ReturnedFields
  <2> QED BY <2>1, <2>2
<1>8. \A r \in puts \cup reads :
        /\ r.id \in Id /\ VisibleIn(x, db, r.id) # Nil
        /\ Inventory(VisibleIn(x, db, r.id).rec) = Inventory(r)
  BY VisibleIs DEF SeesRows
<1>9. Knows(c, out.rec) => Knows(k, out.rec)
  BY <1>7 DEF Knows
<1> HIDE DEF c, k, x, y, z
<1>10. \A id \in Id : VisibleIn(y, db, id) = VisibleIn(x, db, id)
  BY <1>5, <1>6 DEF VisibleIn
<1>11. TxOK(y, writer = t, db)
  <2>1. \A r \in y.puts : r.id \in Id /\ r \in AdmissibleRecords[r.id]
    BY <1>5, <1>6 DEF TxOK
  <2>2. \A r \in y.puts \cup y.reads :
          /\ r.id \in Id /\ VisibleIn(y, db, r.id) # Nil
          /\ Inventory(VisibleIn(y, db, r.id).rec) = Inventory(r)
    BY <1>1, <1>5, <1>6, <1>8, <1>10 DEF TxOK
  <2>3. writer # t => y.puts = {}
    BY <1>5, <1>6 DEF TxOK
  <2> QED BY <1>5, <1>6, <2>1, <2>2, <2>3 DEF TxOK
<1>12. WorkOK(k, y, db)
  BY <1>5, <1>6 DEF WorkWhole, WorkOK, x
<1>13. ArgsOK(k) /\ SeenOK(k, acked, erased)
  BY <1>1, <1>2, <1>7 DEF ArgsOK, SeenOK
<1>14. AnswerOK(k)
  BY <1>2, <1>7, <1>9 DEF AnswerOK, c
<1>15. StatementOK(k, y, writer = t, db)
  BY <1>2, <1>7 DEF StatementOK
<1>16. c.pc \notin {"idle", "done", "begin"} /\ k.pc \notin {"idle", "done", "begin"}
  BY <1>7 DEF c
<1>17. writer' = writer \/ (writer \in {Nil, t} /\ writer' = t)
  OBVIOUS
<1> QED BY <1>3, <1>4, <1>11, <1>12, <1>13, <1>14, <1>15, <1>16, <1>17, StatementStep DEF c

\* A read that is refused changes nothing.
LEMMA RefusesSafe ==
  ASSUME SafeInv, NEW t \in Threads, call[t].pc \in {"readParent", "readArtifacts"},
         UNCHANGED <<db, acked, erased>>, NEW err, err # "ok", Refuses(t, err),
         ~ (call[t].op = "get" /\ call[t].own /\ call[t].seen.acked # Nil)
  PROVE  SafeInv'
<1> DEFINE c == call[t]
           k == Returned(c, "open", Out(err, Nil))
           x == tx[t]
           y == [x EXCEPT !.snap = Snapshot(t)]
<1>1. /\ ArgsOK(c) /\ SeenOK(c, acked, erased) /\ DOMAIN c = CallFields /\ WorkOK(c, x, db)
  BY InStatementOK
<1>2. CASE c.own \/ c.op = "put"
  BY <1>2, FailsSafe DEF Refuses
<1>3. CASE ~ (c.own \/ c.op = "put")
  <2>1. /\ call' = [call EXCEPT ![t] = k] /\ tx' = [tx EXCEPT ![t] = y]
        /\ UNCHANGED <<conn, writer>>
    BY <1>3 DEF Refuses, locks
  <2>2. /\ y.work = x.work /\ TxOK(y, writer = t, db)
    BY SnapshotReads
  <2>3. /\ DOMAIN k = CallFields /\ k.pc = "open"
        /\ k.op = c.op /\ k.id = c.id /\ k.own = c.own /\ k.seen = c.seen
    BY <1>1, ReturnedFields
  <2> HIDE DEF k, y
  <2>4. WorkOK(k, y, db)
    BY <1>1, <2>2 DEF WorkOK
  <2>5. ArgsOK(k) /\ SeenOK(k, acked, erased) /\ AnswerOK(k)
    BY <1>1, <1>3, <2>3 DEF ArgsOK, SeenOK, AnswerOK, Putting
  <2>6. StatementOK(k, y, writer = t, db)
    BY <2>3 DEF StatementOK
  <2>7. writer' = writer \/ (writer \in {Nil, t} /\ writer' = t)
    BY <2>1
  <2>8. c.pc \notin {"idle", "done", "begin"} /\ k.pc \notin {"idle", "done", "begin"}
    BY <2>3
  <2> HIDE DEF c
  <2> QED BY <2>1, <2>2, <2>4, <2>5, <2>6, <2>7, <2>8, StatementStep DEF c
<1> QED BY <1>2, <1>3

\* An artifact row is added to the record being inserted.
LEMMA InsertArtifactSafe ==
  ASSUME SafeInv, NEW t \in Threads, InsertArtifact(t)
  PROVE  SafeInv'
<1> DEFINE c == call[t]
           r == c.rec
           n == c.next
           k == [c EXCEPT !.next = n + 1]
           x == tx[t]
           row == WithRow(x.work[c.id], r.artifacts[n])
           y == [x EXCEPT !.work = [x.work EXCEPT ![c.id] = row]]
<1>1. /\ ArgsOK(c) /\ SeenOK(c, acked, erased) /\ AnswerOK(c) /\ StatementOK(c, x, writer = t, db)
      /\ DOMAIN c = CallFields /\ WorkOK(c, x, db) /\ TxOK(x, writer = t, db)
  BY InStatementOK
<1>2. /\ c.pc = "artifacts" /\ c.op = "put" /\ c.id \in Id /\ r \in AdmissibleRecords[c.id]
      /\ n \in 1..(Len(r.artifacts) + 1) /\ n <= Len(r.artifacts)
      /\ writer = t /\ db[c.id] = Nil /\ ~ c.seen.erased
      /\ x.work[c.id] = Inserted(r, n - 1)
      /\ \A q \in x.puts \cup x.reads : q.id # c.id
  BY <1>1 DEF InsertArtifact, ArgsOK, StatementOK, Putting
<1>3. Storable(r) /\ r.id = c.id /\ Len(r.artifacts) \in Nat
  BY <1>2, AdmissibleFacts, InventoryIsSeq DEF Storable, Sound
<1>4. /\ UNCHANGED <<db, conn, writer, acked, erased>>
      /\ call' = [call EXCEPT ![t] = k] /\ tx' = [tx EXCEPT ![t] = y]
  <2>1. tx' = [tx EXCEPT ![t] =
          [x EXCEPT !.work = [x.work EXCEPT ![r.id] = WithRow(x.work[r.id], r.artifacts[n])]]]
    BY DEF InsertArtifact
  <2> QED BY <1>3, <2>1 DEF InsertArtifact, locks, history
<1>5. /\ DOMAIN k = CallFields /\ k.pc = "artifacts" /\ k.op = "put" /\ k.id = c.id /\ k.rec = r
      /\ k.own = c.own /\ k.seen = c.seen /\ k.out = c.out /\ k.next = n + 1
  BY <1>1, <1>2 DEF CallFields
<1> HIDE DEF row
<1>6. /\ DOMAIN y = TxFields /\ DOMAIN y.work = Id /\ y.snap = x.snap
      /\ y.reads = x.reads /\ y.puts = x.puts
      /\ y.work[c.id] = row
      /\ \A id \in Id : id # c.id => y.work[id] = x.work[id]
  BY <1>1, <1>2 DEF TxOK, TxFields
<1> HIDE DEF c, k, x, y
<1>7. y.work[c.id] = Inserted(r, n) /\ n \in 1..Len(r.artifacts)
  BY <1>2, <1>3, <1>6, InsertedRows DEF row
<1> HIDE DEF r, n
<1>8. \A id \in Id : id # c.id => VisibleIn(y, db, id) = VisibleIn(x, db, id)
  BY <1>6 DEF VisibleIn
<1>9. TxOK(y, TRUE, db)
  <2>1. \A q \in y.puts \cup y.reads :
          /\ q.id \in Id /\ VisibleIn(y, db, q.id) # Nil
          /\ Inventory(VisibleIn(y, db, q.id).rec) = Inventory(q)
    BY <1>1, <1>2, <1>6, <1>8 DEF TxOK
  <2> QED BY <1>1, <1>2, <1>6, <2>1 DEF TxOK
<1>10. WorkOK(k, y, db)
  BY <1>1, <1>2, <1>5, <1>6 DEF WorkOK
<1>11. ArgsOK(k) /\ SeenOK(k, acked, erased) /\ AnswerOK(k)
  BY <1>1, <1>2, <1>5 DEF ArgsOK, SeenOK, AnswerOK, Putting, r
<1>12. k.next \in 1..(Len(r.artifacts) + 1) /\ k.next - 1 = n
  BY <1>3, <1>5, <1>7
<1>13. StatementOK(k, y, TRUE, db)
  BY <1>2, <1>5, <1>6, <1>7, <1>12 DEF StatementOK
<1>14. c.pc \notin {"idle", "done", "begin"} /\ k.pc \notin {"idle", "done", "begin"}
  BY <1>2, <1>5
<1>15. writer' = t /\ (writer' = writer \/ (writer \in {Nil, t} /\ writer' = t))
  BY <1>2, <1>4
<1> QED BY <1>4, <1>9, <1>10, <1>11, <1>13, <1>14, <1>15, StatementStep DEF c

\* After the last artifact row the record is whole.
LEMMA InsertDoneSafe ==
  ASSUME SafeInv, NEW t \in Threads, InsertDone(t)
  PROVE  SafeInv'
<1> DEFINE c == call[t]
           r == c.rec
           x == tx[t]
<1>1. /\ ArgsOK(c) /\ StatementOK(c, x, writer = t, db) /\ WorkOK(c, x, db)
  BY InStatementOK
<1>2. /\ c.pc = "artifacts" /\ c.op = "put" /\ c.id \in Id /\ r \in AdmissibleRecords[c.id]
      /\ c.next \in 1..(Len(r.artifacts) + 1) /\ c.next > Len(r.artifacts)
      /\ writer = t /\ db[c.id] = Nil /\ ~ c.seen.erased
      /\ x.work[c.id] = Inserted(r, c.next - 1)
  BY <1>1 DEF InsertDone, ArgsOK, StatementOK, Putting
<1>3. Storable(r) /\ r.id = c.id /\ Len(r.artifacts) \in Nat
  BY <1>2, AdmissibleFacts, InventoryIsSeq DEF Storable, Sound
<1>4. x.work[c.id] = Whole(r) /\ Whole(r) # Nil
  <2>1. c.next - 1 = Len(r.artifacts) /\ Len(r.artifacts) \in 0..Len(r.artifacts)
    BY <1>2, <1>3
  <2> HIDE DEF c, r, x
  <2>2. Inserted(r, c.next - 1) = Whole(r) /\ Inserted(r, c.next - 1) # Nil
    BY <1>3, <2>1, InsertedRows
  <2> QED BY <1>2, <2>2
<1>5. /\ Succeeds(t, Out("ok", Nil), {}, {r}) /\ UNCHANGED <<db, conn, writer, acked, erased>>
  BY DEF InsertDone, locks, history
<1>6. WorkWhole(x, db)
  BY <1>1, <1>2, <1>4 DEF WorkOK, WorkWhole
<1>7. SeesRows(t, r)
  <2>1. Visible(t, r.id) = Whole(r)
    BY <1>3, <1>4 DEF Visible
  <2> QED BY <1>2, <1>3, <1>4, <2>1 DEF SeesRows, Whole
<1>8. Out("ok", Nil).err = "ok"
  BY DEF Out
<1> QED
  <2> HIDE DEF r
  <2>1. \A q \in {r} : q.id \in Id /\ q \in AdmissibleRecords[q.id]
    BY <1>2, <1>3
  <2>2. \A q \in {r} \cup {} : SeesRows(t, q)
    BY <1>7
  <2> QED BY <1>2, <1>5, <1>6, <1>8, <2>1, <2>2, SucceedsSafe DEF r

\* Reading the parent row takes the snapshot.
LEMMA ReadParentSafe ==
  ASSUME SafeInv, NEW t \in Threads, ReadParent(t)
  PROVE  SafeInv'
<1> DEFINE c == call[t]
           row == Visible(t, c.id)
           k == [c EXCEPT !.pc = "readArtifacts", !.row = row]
           x == tx[t]
           y == [x EXCEPT !.snap = Snapshot(t)]
<1>1. /\ ArgsOK(c) /\ SeenOK(c, acked, erased) /\ AnswerOK(c) /\ StatementOK(c, x, writer = t, db)
      /\ DOMAIN c = CallFields /\ WorkOK(c, x, db)
      /\ TableOK(db) /\ HistoryOK(db, acked, erased)
  BY InStatementOK
<1>2. c.pc = "readParent" /\ c.op \in {"put", "get"} /\ c.id \in Id
      /\ UNCHANGED <<db, acked, erased>>
  BY <1>1 DEF ReadParent, ArgsOK, history
<1>3. row = VisibleIn(x, db, c.id)
  BY VisibleIs
<1>4. c.op = "get" /\ c.own => row = db[c.id]
  BY <1>1, <1>2, <1>3, NoTxFacts DEF StatementOK
<1>5. c.seen.acked # Nil => db[c.id] # Nil /\ Recalls(db[c.id].rec, c.seen.acked)
  BY <1>1, <1>2 DEF SeenOK, HistoryOK
<1>6. c.seen.erased => Originals(db[c.id].rec) = {}
  BY <1>1 DEF SeenOK, HistoryOK
<1>7. CASE row = Nil
  <2>1. Refuses(t, "ErrNotFound")
    BY <1>7 DEF ReadParent
  <2>2. ~ (c.op = "get" /\ c.own /\ c.seen.acked # Nil)
    BY <1>4, <1>5, <1>7
  <2> QED BY <1>2, <2>1, <2>2, RefusesSafe
<1>8. CASE row # Nil
  <2>1. /\ call' = [call EXCEPT ![t] = k] /\ tx' = [tx EXCEPT ![t] = y]
        /\ UNCHANGED <<conn, writer>>
    BY <1>8 DEF ReadParent, locks
  <2>2. /\ y.work = x.work /\ TxOK(y, writer = t, db) /\ y.snap # Nil
        /\ \A id \in Id : VisibleIn(y, db, id) = VisibleIn(x, db, id)
    BY SnapshotReads
  <2>3. /\ DOMAIN k = CallFields /\ k.pc = "readArtifacts" /\ k.rec = c.rec /\ k.row = row
        /\ k.op = c.op /\ k.id = c.id /\ k.own = c.own /\ k.seen = c.seen
    BY <1>1 DEF CallFields
  <2> HIDE DEF k, x, y, c, row
  <2>4. WorkOK(k, y, db)
    BY <1>1, <1>2, <2>2 DEF WorkOK
  <2>5. ArgsOK(k) /\ SeenOK(k, acked, erased)
    BY <1>1, <1>2, <2>3 DEF ArgsOK, SeenOK, Putting
  <2>6. c.op = "get" /\ c.own => Knows(k, k.row.rec)
    BY <1>4, <1>5, <1>6, <2>3 DEF Knows
  <2>7. AnswerOK(k)
    BY <2>3, <2>6 DEF AnswerOK
  <2>8. StatementOK(k, y, writer = t, db)
    BY <1>1, <1>2, <1>3, <1>8, <2>2, <2>3 DEF StatementOK
  <2>9. writer' = writer \/ (writer \in {Nil, t} /\ writer' = t)
    BY <2>1
  <2>10. c.pc \notin {"idle", "done", "begin"} /\ k.pc \notin {"idle", "done", "begin"}
    BY <1>2, <2>3
  <2> QED BY <1>2, <2>1, <2>2, <2>4, <2>5, <2>7, <2>8, <2>9, <2>10, StatementStep DEF c
<1> QED BY <1>7, <1>8

\* Reading the artifact rows: comparing a retry, or verifying for Get.
LEMMA ReadArtifactsSafe ==
  ASSUME SafeInv, NEW t \in Threads, ReadArtifacts(t)
  PROVE  SafeInv'
<1> DEFINE c == call[t]
           x == tx[t]
           row == c.row
           old == ReadResult(row, Visible(t, c.id), Trusted)
           err == IF c.op = "put" THEN DuplicateError(c.rec, old) ELSE old.err
<1>1. /\ ArgsOK(c) /\ AnswerOK(c) /\ SeenOK(c, acked, erased) /\ StatementOK(c, x, writer = t, db)
      /\ TxOK(x, writer = t, db) /\ WorkOK(c, x, db)
      /\ TableOK(db) /\ HistoryOK(db, acked, erased)
  BY InStatementOK
<1>2. /\ c.pc = "readArtifacts" /\ c.op \in {"put", "get"} /\ c.id \in Id
      /\ (c.op = "put" => writer = t /\ c.rec \in AdmissibleRecords[c.id])
      /\ row # Nil /\ row = VisibleIn(x, db, c.id)
      /\ UNCHANGED <<db, acked, erased>>
  BY <1>1 DEF ReadArtifacts, ArgsOK, StatementOK, Putting, history
<1>3. Visible(t, c.id) = row /\ row \in RowStates(c.id)
  <2>1. VisibleIn(x, db, c.id) \in RowStates(c.id)
    <3> HIDE DEF c, x
    <3> QED BY <1>1, <1>2, VisibleRow
  <2> QED BY <1>2, <2>1, VisibleIs
<1>4. old = Out("ok", row.rec) /\ row.rec.id = c.id /\ Sound(row.rec)
  <2> HIDE DEF c, row
  <2> QED BY <1>2, <1>3, RowFacts
<1>5. old.err = "ok" /\ old.rec = row.rec
  BY <1>4 DEF Out
<1>6. c.op = "get" /\ c.own => Knows(c, row.rec)
  BY <1>1, <1>2 DEF AnswerOK
<1>7. WorkWhole(x, db)
  BY <1>1, <1>2 DEF WorkOK, WorkWhole
<1>8. CASE err # "ok"
  <2>1. Refuses(t, err)
    BY <1>8 DEF ReadArtifacts
  <2>2. c.op # "get"
    BY <1>5, <1>8
  <2> HIDE DEF err
  <2> QED BY <1>2, <1>8, <2>1, <2>2, RefusesSafe
<1>9. CASE err = "ok" /\ c.op = "put"
  <2> DEFINE r == c.rec
  <2>1. Succeeds(t, Out("ok", Nil), {}, {r}) /\ UNCHANGED <<conn, writer>>
    BY <1>9 DEF ReadArtifacts, locks
  <2>2. Storable(r) /\ r.id = c.id
    BY <1>2, <1>9, AdmissibleFacts
  <2>3. Inventory(row.rec) = Inventory(r)
    <3>1. DuplicateError(r, Out("ok", row.rec)) = "ok"
      BY <1>4, <1>9
    <3> HIDE DEF r, row
    <3> QED BY <1>4, <2>2, <3>1, RetryIsStored
  <2>4. SeesRows(t, r)
    BY <1>2, <1>3, <2>2, <2>3 DEF SeesRows
  <2>5. c.seen.erased => Originals(r) = {}
    <3> SUFFICES ASSUME c.seen.erased PROVE Originals(row.rec) = {}
      BY <2>3, RowsDetermine
    <3>1. c.id \in erased /\ db[c.id] # Nil /\ Originals(db[c.id].rec) = {}
      BY <1>1 DEF SeenOK, HistoryOK
    <3>2. row = db[c.id] \/ row = Erased(db[c.id])
      BY <1>1, <1>2, <1>7, <1>9, <3>1 DEF VisibleIn, WorkWhole, TxOK
    <3>3. Originals(Erased(db[c.id]).rec) = {}
      <4>1. db[c.id] \in RowStates(c.id)
        BY <1>1, <1>2 DEF TableOK
      <4> HIDE DEF c
      <4> QED BY <1>2, <3>1, <4>1, RowFacts
    <3> QED BY <3>1, <3>2, <3>3
  <2>6. Out("ok", Nil).err = "ok"
    BY DEF Out
  <2> HIDE DEF r
  <2>7. \A q \in {r} : q.id \in Id /\ q \in AdmissibleRecords[q.id]
    BY <1>2, <1>9, <2>2 DEF r
  <2>8. \A q \in {r} \cup {} : SeesRows(t, q)
    BY <2>4
  <2> QED BY <1>2, <1>7, <1>9, <2>1, <2>5, <2>6, <2>7, <2>8, SucceedsSafe DEF r
<1>10. CASE err = "ok" /\ c.op = "get"
  <2>1. Succeeds(t, old, {old.rec}, {}) /\ UNCHANGED <<conn, writer>>
    BY <1>10 DEF ReadArtifacts, locks
  <2>2. SeesRows(t, row.rec)
    BY <1>2, <1>3, <1>4 DEF SeesRows
  <2> HIDE DEF old, row, err
  <2>3. \A q \in {} \cup {old.rec} : SeesRows(t, q)
    BY <1>5, <2>2
  <2>4. c.own => Knows(c, old.rec)
    BY <1>5, <1>6, <1>10
  <2> QED BY <1>2, <1>5, <1>7, <1>10, <2>1, <2>3, <2>4, SucceedsSafe
<1> QED BY <1>2, <1>8, <1>9, <1>10

\* The SELECT of Purge.
LEMMA PurgeSelectSafe ==
  ASSUME SafeInv, NEW t \in Threads, PurgeSelect(t)
  PROVE  SafeInv'
<1> DEFINE c == call[t]
           k == [c EXCEPT !.pc = "purgeUpdate"]
           x == tx[t]
           y == [x EXCEPT !.snap = Snapshot(t)]
<1>1. /\ ArgsOK(c) /\ SeenOK(c, acked, erased) /\ AnswerOK(c) /\ StatementOK(c, x, writer = t, db)
      /\ DOMAIN c = CallFields /\ WorkOK(c, x, db)
  BY InStatementOK
<1>2. /\ c.pc = "purgeSelect" /\ c.op = "purge" /\ c.own /\ c.id \in Id
      /\ x = NoTx /\ writer # t /\ UNCHANGED <<db, acked, erased>>
  BY <1>1 DEF PurgeSelect, ArgsOK, StatementOK, history
<1>3. CASE Visible(t, c.id) = Nil
  <2>1. Fails(t, "ErrNotFound")
    BY <1>3 DEF PurgeSelect
  <2> QED BY <1>2, <2>1, FailsSafe
<1>4. CASE Visible(t, c.id) # Nil
  <2>1. /\ call' = [call EXCEPT ![t] = k] /\ tx' = [tx EXCEPT ![t] = y]
        /\ UNCHANGED <<conn, writer>>
    BY <1>4 DEF PurgeSelect, locks
  <2>2. /\ y.work = x.work /\ TxOK(y, writer = t, db) /\ y.snap = db /\ y.snap # Nil
        /\ y.reads = {}
    BY <1>2, SnapshotReads, NoTxFacts DEF Snapshot
  <2>3. db[c.id] # Nil
    BY <1>2, <1>4, VisibleIs, NoTxFacts
  <2>4. /\ DOMAIN k = CallFields /\ k.pc = "purgeUpdate"
        /\ k.op = c.op /\ k.id = c.id /\ k.own = c.own /\ k.seen = c.seen
    BY <1>1 DEF CallFields
  <2> HIDE DEF k, x, y, c
  <2>5. WorkOK(k, y, db)
    BY <1>1, <1>2, <2>2 DEF WorkOK
  <2>6. ArgsOK(k) /\ SeenOK(k, acked, erased) /\ AnswerOK(k)
    BY <1>1, <1>2, <2>4 DEF ArgsOK, SeenOK, AnswerOK, Putting
  <2>7. StatementOK(k, y, writer = t, db)
    BY <1>2, <2>2, <2>3, <2>4 DEF StatementOK
  <2>8. writer' = writer \/ (writer \in {Nil, t} /\ writer' = t)
    BY <2>1
  <2>9. c.pc \notin {"idle", "done", "begin"} /\ k.pc \notin {"idle", "done", "begin"}
    BY <1>2, <2>4
  <2> QED BY <1>2, <2>1, <2>2, <2>5, <2>6, <2>7, <2>8, <2>9, StatementStep DEF c
<1> QED BY <1>3, <1>4

\* The UPDATE erases every original, as the writer.
LEMMA PurgeUpdateSafe ==
  ASSUME SafeInv, NEW t \in Threads, PurgeUpdate(t)
  PROVE  SafeInv'
<1> DEFINE c == call[t]
           row == Erased(Visible(t, c.id))
           k == [c EXCEPT !.pc = "commit", !.out = Out("ok", Nil)]
           x == tx[t]
           y == [x EXCEPT !.work = [@ EXCEPT ![c.id] = row]]
<1>1. /\ ArgsOK(c) /\ SeenOK(c, acked, erased) /\ StatementOK(c, x, writer = t, db)
      /\ DOMAIN c = CallFields /\ WorkOK(c, x, db) /\ TxOK(x, writer = t, db) /\ TableOK(db)
  BY InStatementOK
<1>2. /\ c.pc = "purgeUpdate" /\ c.op = "purge" /\ c.own /\ c.id \in Id /\ CanWrite(t)
      /\ x.snap = db /\ db[c.id] # Nil /\ writer # t /\ x.reads = {} /\ x.puts = {}
      /\ \A id \in Id : x.work[id] = Nil
  BY <1>1 DEF PurgeUpdate, ArgsOK, StatementOK, CanWrite, TxOK
<1>3. /\ writer' = t /\ UNCHANGED <<db, conn, acked, erased>>
      /\ call' = [call EXCEPT ![t] = k] /\ tx' = [tx EXCEPT ![t] = y]
  BY DEF PurgeUpdate, history
<1>4. row = Erased(db[c.id])
  BY <1>2 DEF Visible, Snapshot
<1> HIDE DEF row
<1>5. /\ DOMAIN y = TxFields /\ DOMAIN y.work = Id /\ y.snap = db
      /\ y.reads = {} /\ y.puts = {} /\ y.work[c.id] = row
      /\ \A id \in Id : id # c.id => y.work[id] = Nil
  BY <1>1, <1>2 DEF TxOK, TxFields
<1>6. /\ DOMAIN k = CallFields /\ k.pc = "commit"
      /\ k.op = c.op /\ k.id = c.id /\ k.own = c.own /\ k.seen = c.seen
  BY <1>1 DEF CallFields
<1> HIDE DEF k, x, y, c
<1>7. TxOK(y, TRUE, db)
  BY <1>1, <1>5 DEF TxOK
<1>8. WorkOK(k, y, db)
  BY <1>2, <1>4, <1>5 DEF WorkOK
<1>9. ArgsOK(k) /\ SeenOK(k, acked, erased) /\ AnswerOK(k)
  BY <1>1, <1>2, <1>6 DEF ArgsOK, SeenOK, AnswerOK, Putting
<1>10. StatementOK(k, y, TRUE, db)
  BY <1>2, <1>4, <1>5, <1>6 DEF StatementOK
<1>11. writer' = writer \/ (writer \in {Nil, t} /\ writer' = t)
  BY <1>2, <1>3 DEF CanWrite
<1>12. c.pc \notin {"idle", "done", "begin"} /\ k.pc \notin {"idle", "done", "begin"}
  BY <1>2, <1>6
<1> QED BY <1>3, <1>7, <1>8, <1>9, <1>10, <1>11, <1>12, StatementStep DEF c

\* SQLITE_BUSY and a failing statement end the call without a change.
LEMMA FailuresSafe ==
  ASSUME SafeInv, NEW t \in Threads, Busy(t) \/ StatementFails(t)
  PROVE  SafeInv'
<1>1. /\ call[t].pc \notin {"idle", "done", "begin"} /\ Fails(t, "ErrSQL")
      /\ UNCHANGED <<db, acked, erased>>
  BY DEF Busy, StatementFails, InStatement, history
<1> QED BY <1>1, FailsSafe

-----------------------------------------------------------------------------
\* The end of a transaction.

\* The caller's commit publishes a new version of whole records.
LEMMA CallerCommitSafe ==
  ASSUME SafeInv, NEW t \in Threads, CallerCommit(t)
  PROVE  SafeInv'
<1> DEFINE c == call[t]
           k == [Idle EXCEPT !.op = "tx", !.own = FALSE, !.pc = "commit", !.out = Out("ok", Nil)]
           x == tx[t]
<1>1. /\ c.pc = "open" /\ call' = [call EXCEPT ![t] = k]
      /\ UNCHANGED <<db, conn, writer, tx, acked, erased>>
  BY DEF CallerCommit, locks, history
<1>2. WorkOK(c, x, db) /\ TxOK(x, writer = t, db)
  BY InStatementOK
<1>3. tx' = [tx EXCEPT ![t] = x]
  BY <1>1 DEF SafeInv
<1>4. /\ DOMAIN k = CallFields /\ k.op = "tx" /\ k.pc = "commit" /\ k.own = FALSE
      /\ k.seen.acked = Nil /\ k.seen.erased = FALSE
  BY DEF Idle, CallFields
<1> HIDE DEF c, k, x
<1>5. ArgsOK(k) /\ SeenOK(k, acked, erased) /\ AnswerOK(k)
  BY <1>4 DEF ArgsOK, SeenOK, AnswerOK
<1>6. StatementOK(k, x, writer = t, db)
  BY <1>4 DEF StatementOK
<1>7. WorkOK(k, x, db)
  BY <1>1, <1>2 DEF WorkOK
<1>8. writer' = writer \/ (writer \in {Nil, t} /\ writer' = t)
  BY <1>1
<1>9. c.pc \notin {"idle", "done", "begin"} /\ k.pc \notin {"idle", "done", "begin"}
  BY <1>1, <1>4
<1> QED BY <1>1, <1>2, <1>3, <1>5, <1>6, <1>7, <1>8, <1>9, StatementStep DEF c

\* The caller's rollback leaves the committed rows alone.
LEMMA CallerRollbackSafe ==
  ASSUME SafeInv, NEW t \in Threads, CallerRollback(t)
  PROVE  SafeInv'
<1>1. /\ call[t].pc \in {"open", "failed"} /\ End(t) /\ call' = [call EXCEPT ![t] = Idle]
      /\ UNCHANGED <<db, acked, erased>>
  BY DEF CallerRollback, history
<1>2. conn[Process[t]] = t
  BY <1>1 DEF SafeInv, ThreadOK
<1>3. call'[t] = Idle /\ call' = [call EXCEPT ![t] = call'[t]]
  BY <1>1 DEF SafeInv
<1>4. (writer' = t) = FALSE /\ (conn'[Process[t]] = t) = FALSE /\ tx'[t] = NoTx
  BY <1>1, EndFrees
<1>5. ThreadOK(call'[t], tx'[t], writer' = t, conn'[Process[t]] = t, db, acked, erased)
  BY <1>3, <1>4, IdleOK
<1> QED BY <1>1, <1>2, <1>3, <1>5, EndFrees, LocalStep

\* A process that dies loses its transactions and frees the write lock.
LEMMA DieSafe ==
  ASSUME SafeInv, NEW p \in Processes, Die(p)
  PROVE  SafeInv'
<1> DEFINE dead == {t \in Threads : Process[t] = p}
<1>1. /\ conn' = [conn EXCEPT ![p] = Nil]
      /\ writer' = IF writer \in dead THEN Nil ELSE writer
      /\ tx' = [t \in Threads |-> IF t \in dead THEN NoTx ELSE tx[t]]
      /\ call' = [t \in Threads |-> IF t \in dead THEN Idle ELSE call[t]]
      /\ UNCHANGED <<db, acked, erased>>
  BY DEF Die, history
<1>2. Nil \notin Threads
  BY SqliteAssumption
<1>3. ASSUME NEW u \in Threads
      PROVE  ThreadOK(call'[u], tx'[u], writer' = u, conn'[Process[u]] = u, db, acked, erased)
  <2>1. CASE u \in dead
    <3>1. call'[u] = Idle /\ tx'[u] = NoTx
      BY <1>1, <2>1
    <3>2. (writer' = u) = FALSE
      BY <1>1, <1>2, <2>1
    <3>3. (conn'[Process[u]] = u) = FALSE
      BY <1>1, <1>2, <2>1 DEF SafeInv
    <3> QED BY <3>1, <3>2, <3>3, IdleOK
  <2>2. CASE u \notin dead
    <3>1. call'[u] = call[u] /\ tx'[u] = tx[u]
      BY <1>1, <2>2
    <3>2. (writer' = u) = (writer = u)
      BY <1>1, <1>2, <2>2
    <3>3. (conn'[Process[u]] = u) = (conn[Process[u]] = u)
      <4>1. Process[u] # p /\ Process[u] \in Processes
        BY <2>2 DEF Processes
      <4>2. conn'[Process[u]] = conn[Process[u]]
        BY <1>1, <4>1 DEF SafeInv
      <4> QED BY <4>2
    <3>4. ThreadOK(call[u], tx[u], writer = u, conn[Process[u]] = u, db, acked, erased)
      BY DEF SafeInv
    <3> QED BY <3>1, <3>2, <3>3, <3>4
  <2> QED BY <2>1, <2>2
<1>4. /\ call' = [u \in Threads |-> call'[u]] /\ tx' = [u \in Threads |-> tx'[u]]
      /\ conn' = [q \in Processes |-> conn'[q]] /\ (writer' # Nil => writer' \in Threads)
  BY <1>1 DEF SafeInv
<1>5. TableOK(db) /\ HistoryOK(db, acked, erased)
  BY DEF SafeInv
<1> QED BY <1>1, <1>3, <1>4, <1>5 DEF SafeInv

\* What a commit makes of the rows.
LEMMA OutcomeOK ==
  ASSUME SafeInv, NEW t \in Threads, call[t].pc = "commit"
  PROVE  LET d == Outcome(t) IN
         /\ TableOK(d) /\ HistoryOK(d, acked, erased)
         /\ writer # t => d = db
         /\ writer = t => \A id \in Id : d[id] = VisibleIn(tx[t], db, id)
         /\ \A id \in Id :
              \/ d[id] = db[id]
              \/ db[id] = Nil /\ \E p \in AdmissibleRecords[id] : d[id] = Whole(p)
              \/ db[id] # Nil /\ d[id] = Erased(db[id])
<1> DEFINE x == tx[t]
           d == Outcome(t)
<1>1. /\ TableOK(db) /\ HistoryOK(db, acked, erased)
      /\ TxOK(x, writer = t, db) /\ WorkOK(call[t], x, db)
  BY InStatementOK
<1>2. d = [id \in Id |-> IF x.work[id] # Nil THEN x.work[id] ELSE db[id]]
  BY DEF Outcome
<1> HIDE DEF x, d
<1>3. d = [id \in Id |-> d[id]]
  BY <1>2
<1>4. ASSUME NEW id \in Id
      PROVE  \/ d[id] = db[id]
             \/ db[id] = Nil /\ \E p \in AdmissibleRecords[id] : d[id] = Whole(p)
             \/ db[id] # Nil /\ d[id] = Erased(db[id])
  BY <1>1, <1>2 DEF WorkOK
<1>5. ASSUME NEW id \in Id
      PROVE  /\ d[id] \in RowStates(id)
             /\ db[id] # Nil => d[id] # Nil
             /\ \A a : db[id] # Nil /\ Recalls(db[id].rec, a) => Recalls(d[id].rec, a)
             /\ db[id] # Nil /\ Originals(db[id].rec) = {} => Originals(d[id].rec) = {}
  <2>1. db[id] \in RowStates(id)
    BY <1>1 DEF TableOK
  <2>2. CASE d[id] = db[id]
    BY <2>1, <2>2
  <2>3. ASSUME db[id] = Nil, NEW p \in AdmissibleRecords[id], d[id] = Whole(p)
        PROVE  d[id] \in RowStates(id)
    BY <2>3 DEF RowStates, WholeCells
  <2>4. ASSUME db[id] # Nil, d[id] = Erased(db[id])
        PROVE  /\ d[id] \in RowStates(id) /\ d[id] # Nil /\ Originals(d[id].rec) = {}
               /\ \A a : Recalls(db[id].rec, a) => Recalls(d[id].rec, a)
    <3> DEFINE cell == db[id]
    <3>1. cell \in RowStates(id) /\ cell # Nil /\ d[id] = Erased(cell)
      BY <2>1, <2>4
    <3> HIDE DEF cell
    <3> DEFINE e == Erased(cell)
    <3>2. e \in RowStates(id) /\ e # Nil /\ Originals(e.rec) = {}
      BY <3>1, RowFacts
    <3>3. ASSUME NEW a, Recalls(cell.rec, a) PROVE Recalls(e.rec, a)
      BY <3>1, <3>3, RowFacts
    <3>4. d[id] = e
      BY <3>1
    <3> HIDE DEF e
    <3> QED BY <3>2, <3>3, <3>4 DEF cell
  <2> QED BY <1>4, <2>2, <2>3, <2>4
<1>6. TableOK(d)
  BY <1>3, <1>5 DEF TableOK
<1>7. HistoryOK(d, acked, erased)
  BY <1>1, <1>5 DEF HistoryOK
<1>8. writer # t => d = db
  <2> SUFFICES ASSUME writer # t PROVE d = db
    OBVIOUS
  <2>1. \A id \in Id : d[id] = db[id]
    BY <1>1, <1>2 DEF TxOK
  <2>2. db = [id \in Id |-> db[id]]
    BY <1>1 DEF TableOK
  <2> QED BY <1>3, <2>1, <2>2
<1>9. writer = t => \A id \in Id : d[id] = VisibleIn(x, db, id)
  BY <1>1, <1>2 DEF TxOK, VisibleIn
<1> QED BY <1>4, <1>6, <1>7, <1>8, <1>9 DEF d, x

\* A transaction ends and may have changed the rows.
LEMMA CommitStep ==
  ASSUME SafeInv, NEW t \in Threads, call[t].pc = "commit", End(t), NEW out,
         call' = [call EXCEPT ![t] = Returned(call[t], "done", out)],
         out = call[t].out \/ out = Out("ErrSQL", Nil),
         TableOK(db'), HistoryOK(db', acked', erased'), writer # t => db' = db,
         \A id \in Id : acked[id] # Nil => acked'[id] = acked[id], erased \subseteq erased'
  PROVE  SafeInv'
<1> DEFINE c == call[t]
           k == Returned(c, "done", out)
<1>1. Nil \notin Threads /\ conn[Process[t]] = t
  BY SqliteAssumption DEF SafeInv, ThreadOK
<1>2. /\ tx'[t] = NoTx /\ tx' = [tx EXCEPT ![t] = tx'[t]]
      /\ writer' = IF writer = t THEN Nil ELSE writer
      /\ writer' # t /\ conn' = [conn EXCEPT ![Process[t]] = Nil] /\ conn'[Process[t]] # t
  BY EndFrees DEF End
<1>3. ThreadOK(c, tx[t], writer = t, conn[Process[t]] = t, db, acked, erased)
  BY DEF SafeInv
<1>4. AnswerOK(c)
  BY <1>3 DEF ThreadOK
<1>5. /\ c.op = "get" /\ c.own =>
           /\ out.err = "ok" => Knows(c, out.rec)
           /\ c.seen.acked # Nil => out.err \in {"ok", "ErrSQL"}
      /\ c.op = "put" /\ c.own /\ out.err = "ok" /\ c.seen.erased => Originals(c.rec) = {}
  <2>1. CASE out = c.out
    BY <1>4, <2>1 DEF AnswerOK
  <2>2. CASE out = Out("ErrSQL", Nil)
    BY <2>2 DEF Out
  <2> QED BY <2>1, <2>2
<1>6. call'[t] = k
  BY DEF SafeInv
<1>7. \A u \in Threads : u # t => call'[u] = call[u]
  BY DEF SafeInv
<1> HIDE DEF c, k
<1>8. ThreadOK(k, NoTx, FALSE, FALSE, db, acked, erased)
  BY <1>3, <1>5, DoneOK DEF k
<1>9. ThreadOK(k, NoTx, FALSE, FALSE, db', acked', erased')
  BY <1>8, OthersKeep
<1>10. ASSUME NEW u \in Threads
       PROVE  ThreadOK(call'[u], tx'[u], writer' = u, conn'[Process[u]] = u,
                       db', acked', erased')
  <2>1. CASE u = t
    <3>1. (writer' = t) = FALSE /\ (conn'[Process[t]] = t) = FALSE
      BY <1>2
    <3> QED BY <1>2, <1>6, <1>9, <2>1, <3>1
  <2>2. CASE u # t
    <3>1. call'[u] = call[u] /\ tx'[u] = tx[u]
      BY <1>2, <1>7, <2>2 DEF SafeInv
    <3>2. (writer' = u) = (writer = u)
      BY <1>1, <1>2, <2>2
    <3>3. (conn'[Process[u]] = u) = (conn[Process[u]] = u)
      <4>1. Process[u] \in Processes /\ Process[t] \in Processes
        BY DEF Processes
      <4>2. CASE Process[u] = Process[t]
        BY <1>1, <1>2, <2>2, <4>1, <4>2
      <4>3. CASE Process[u] # Process[t]
        BY <1>2, <4>1, <4>3 DEF SafeInv
      <4> QED BY <4>2, <4>3
    <3>4. ThreadOK(call[u], tx[u], writer = u, conn[Process[u]] = u, db, acked, erased)
      BY DEF SafeInv
    <3>5. (writer = u) => db' = db
      BY <2>2
    <3>6. ThreadOK(call[u], tx[u], writer = u, conn[Process[u]] = u, db', acked', erased')
      <4> DEFINE wr == writer = u
                 has == conn[Process[u]] = u
                 cu == call[u]
                 xu == tx[u]
      <4>1. wr \in BOOLEAN /\ ThreadOK(cu, xu, wr, has, db, acked, erased) /\ (wr => db' = db)
        BY <3>4, <3>5
      <4> HIDE DEF wr, has, cu, xu
      <4>2. ThreadOK(cu, xu, wr, has, db', acked', erased')
        BY <4>1, OthersKeep
      <4> QED BY <4>2 DEF wr, has, cu, xu
    <3> QED BY <3>1, <3>2, <3>3, <3>6
  <2> QED BY <2>1, <2>2
<1>11. /\ call' = [u \in Threads |-> call'[u]] /\ tx' = [u \in Threads |-> tx'[u]]
       /\ conn' = [p \in Processes |-> conn'[p]] /\ (writer' # Nil => writer' \in Threads)
  BY <1>2 DEF SafeInv
<1> QED BY <1>10, <1>11 DEF SafeInv

\* The commit of a call's own transaction preserves the invariant.
LEMMA CommitSafe ==
  ASSUME SafeInv, NEW t \in Threads, Commit(t)
  PROVE  SafeInv'
<1> DEFINE c == call[t]
           x == tx[t]
           d == Outcome(t)
<1>1. /\ c.pc = "commit" /\ db' = d /\ End(t)
      /\ call' = [call EXCEPT ![t] = Returned(c, "done", c.out)]
      /\ erased' = IF c.op = "purge" THEN erased \cup {c.id} ELSE erased
  BY DEF Commit
<1>2. acked' = [id \in Id |->
        IF acked[id] = Nil /\ {r \in x.puts : r.id = id} # {}
        THEN CHOOSE r \in {r \in x.puts : r.id = id} : TRUE ELSE acked[id]]
  BY DEF Commit
<1>3. /\ ArgsOK(c) /\ TxOK(x, writer = t, db) /\ StatementOK(c, x, writer = t, db)
      /\ TableOK(db) /\ HistoryOK(db, acked, erased)
  BY InStatementOK
<1>4. /\ TableOK(d) /\ HistoryOK(d, acked, erased) /\ (writer # t => d = db)
      /\ writer = t => \A id \in Id : d[id] = VisibleIn(x, db, id)
  BY <1>1, OutcomeOK
<1> HIDE DEF c, x, d
<1>5. ASSUME NEW id \in Id
      PROVE  \/ acked'[id] = acked[id]
             \/ acked[id] = Nil /\ \E r \in x.puts : r.id = id /\ acked'[id] = r
  <2> DEFINE puts == {r \in x.puts : r.id = id}
  <2>1. acked'[id] = IF acked[id] = Nil /\ puts # {} THEN CHOOSE r \in puts : TRUE ELSE acked[id]
    BY <1>2
  <2>2. puts # {} => (CHOOSE r \in puts : TRUE) \in puts
    OBVIOUS
  <2> QED BY <2>1, <2>2
<1>6. ASSUME NEW id \in Id, acked'[id] # Nil
      PROVE  d[id] # Nil /\ Recalls(d[id].rec, acked'[id])
  <2>1. CASE acked'[id] = acked[id]
    BY <1>4, <1>6, <2>1 DEF HistoryOK
  <2>2. ASSUME NEW r \in x.puts, r.id = id, acked'[id] = r
        PROVE  d[id] # Nil /\ Recalls(d[id].rec, acked'[id])
    <3>1. /\ writer = t /\ VisibleIn(x, db, id) # Nil
          /\ Inventory(VisibleIn(x, db, id).rec) = Inventory(r)
      BY <1>3, <2>2 DEF TxOK
    <3>2. d[id] # Nil /\ Inventory(d[id].rec) = Inventory(r)
      BY <1>4, <3>1
    <3> QED BY <2>2, <3>2, RowsDetermine
  <2> QED BY <1>5, <2>1, <2>2
<1>7. c.op = "purge" => c.id \in Id /\ d[c.id] # Nil /\ Originals(d[c.id].rec) = {}
  <2> SUFFICES ASSUME c.op = "purge"
               PROVE  c.id \in Id /\ d[c.id] # Nil /\ Originals(d[c.id].rec) = {}
    OBVIOUS
  <2>1. /\ c.id \in Id /\ writer = t /\ db[c.id] # Nil /\ x.work[c.id] = Erased(db[c.id])
    BY <1>1, <1>3 DEF ArgsOK, StatementOK
  <2>2. /\ Erased(db[c.id]) # Nil /\ Originals(Erased(db[c.id]).rec) = {}
    <3> DEFINE cell == db[c.id]
    <3>1. cell \in RowStates(c.id) /\ cell # Nil
      BY <1>3, <2>1 DEF TableOK
    <3> HIDE DEF cell
    <3>2. Erased(cell) # Nil /\ Originals(Erased(cell).rec) = {}
      BY <2>1, <3>1, RowFacts
    <3> QED BY <3>2 DEF cell
  <2> QED BY <1>4, <2>1, <2>2 DEF VisibleIn
<1>8. HistoryOK(d, acked', erased')
  <2>1. acked' = [id \in Id |-> acked'[id]]
    BY <1>2
  <2> QED BY <1>1, <1>4, <1>6, <1>7, <2>1 DEF HistoryOK
<1>9. erased \subseteq erased'
  BY <1>1
<1>10. \A id \in Id : acked[id] # Nil => acked'[id] = acked[id]
  BY <1>5
<1>11. /\ call[t].pc = "commit" /\ TableOK(db') /\ HistoryOK(db', acked', erased')
       /\ (writer # t => db' = db)
       /\ call' = [call EXCEPT ![t] = Returned(call[t], "done", call[t].out)]
  BY <1>1, <1>4, <1>8 DEF c
<1> QED BY <1>1, <1>9, <1>10, <1>11, CommitStep

\* A commit that fails rolls back.
LEMMA CommitFailsSafe ==
  ASSUME SafeInv, NEW t \in Threads, CommitFails(t)
  PROVE  SafeInv'
<1>1. /\ call[t].pc = "commit" /\ db' \in {db, Outcome(t)} /\ End(t)
      /\ call' = [call EXCEPT ![t] = Returned(call[t], "done", Out("ErrSQL", Nil))]
      /\ acked' = acked /\ erased' = erased
  BY DEF CommitFails, history
<1>2. TableOK(db') /\ HistoryOK(db', acked', erased') /\ (writer # t => db' = db)
  <2>1. TableOK(db) /\ HistoryOK(db, acked, erased)
    BY InStatementOK
  <2>2. /\ TableOK(Outcome(t)) /\ HistoryOK(Outcome(t), acked, erased)
        /\ writer # t => Outcome(t) = db
    BY <1>1, OutcomeOK
  <2> QED BY <1>1, <2>1, <2>2
<1> QED BY <1>1, <1>2, CommitStep

-----------------------------------------------------------------------------
\* The invariant holds before any call.
LEMMA SafeInvInit == Init => SafeInv
<1> SUFFICES ASSUME Init PROVE SafeInv
  OBVIOUS
<1>1. TableOK(db) /\ HistoryOK(db, acked, erased)
  BY DEF Init, TableOK, RowStates, HistoryOK
<1>2. ASSUME NEW t \in Threads
      PROVE  ThreadOK(call[t], tx[t], writer = t, conn[Process[t]] = t, db, acked, erased)
  <2>1. call[t] = Idle /\ tx[t] = NoTx
    BY DEF Init
  <2>2. (writer = t) = FALSE /\ (conn[Process[t]] = t) = FALSE
    BY SqliteAssumption DEF Init, Processes
  <2> QED BY <2>1, <2>2, IdleOK
<1>3. /\ call = [t \in Threads |-> call[t]] /\ tx = [t \in Threads |-> tx[t]]
      /\ conn = [p \in Processes |-> conn[p]] /\ (writer # Nil => writer \in Threads)
  BY DEF Init
<1> QED BY <1>1, <1>2, <1>3 DEF SafeInv

\* Every step preserves the invariant.
LEMMA SafeInvStep == SafeInv /\ [Next]_vars => SafeInv'
<1> SUFFICES ASSUME SafeInv, [Next]_vars PROVE SafeInv'
  OBVIOUS
<1>1. CASE UNCHANGED vars
  BY <1>1 DEF vars, SafeInv
<1>2. ASSUME NEW t \in Threads,
             \/ PutCall(t) \/ GetCall(t) \/ PurgeCall(t) \/ TxCall(t) \/ TxOp(t)
             \/ Begin(t) \/ BeginFails(t)
      PROVE  SafeInv'
  BY <1>2, CallsSafe, TxOpSafe, BeginSafe, BeginFailsSafe
<1>3. ASSUME NEW t \in Threads, Statement(t) \/ StatementFails(t)
      PROVE  SafeInv'
  BY <1>3, InsertDuplicateSafe, InsertParentSafe, InsertArtifactSafe, InsertDoneSafe,
     ReadParentSafe, ReadArtifactsSafe, PurgeSelectSafe, PurgeUpdateSafe, FailuresSafe,
     CommitSafe DEF Statement
<1>4. ASSUME NEW t \in Threads, CommitFails(t) \/ CallerEnds(t)
      PROVE  SafeInv'
  BY <1>4, CommitFailsSafe, CallerCommitSafe, CallerRollbackSafe DEF CallerEnds
<1> QED BY <1>1, <1>2, <1>3, <1>4, DieSafe DEF Next

\* Every state of every behaviour, whatever the schedule, the failures and the
\* deaths of processes, satisfies the invariant.
THEOREM SafeInvariant == Spec => []SafeInv
BY SafeInvInit, SafeInvStep, PTL DEF Spec

-----------------------------------------------------------------------------
\* The properties of SqliteStore.

\* A call that has returned holds neither the connection nor the write lock, and
\* a writer has its connection.
THEOREM TypeCorrect == Spec => []TypeOK
<1> SUFFICES ASSUME SafeInv PROVE TypeOK
  BY SafeInvariant, PTL
<1>1. \A id \in Id : db[id] # Nil => db[id].rec.id = id
  BY RowFacts DEF SafeInv, TableOK
<1>2. \A t \in Threads :
        /\ (call[t].pc \notin {"idle", "done", "begin"}) <=> conn[Process[t]] = t
        /\ writer = t => conn[Process[t]] = t
        /\ tx[t] # NoTx => conn[Process[t]] = t
  BY DEF SafeInv, ThreadOK, StatementOK
<1>3. writer # Nil => writer \in Threads
  BY DEF SafeInv
<1>4. erased \subseteq Id
  BY DEF SafeInv, HistoryOK
<1> QED BY <1>1, <1>2, <1>3, <1>4 DEF TypeOK

\* No committed record lacks an artifact row or has one too many.
THEOREM AllCommittedWhole == Spec => []CommittedWhole
<1> SUFFICES ASSUME SafeInv PROVE CommittedWhole
  BY SafeInvariant, PTL
<1> QED BY RowFacts DEF CommittedWhole, SafeInv, TableOK

\* Without row locks: what a transaction that has put something has seen is what
\* it commits.
THEOREM ReadsStable == Spec => []StableUntilCommit
<1> SUFFICES ASSUME SafeInv PROVE StableUntilCommit
  BY SafeInvariant, PTL
<1> SUFFICES ASSUME NEW t \in Threads, tx[t].puts # {},
                    NEW r \in tx[t].puts \cup tx[t].reads
             PROVE  Outcome(t)[r.id] # Nil /\ Inventory(Outcome(t)[r.id].rec) = Inventory(r)
  BY DEF StableUntilCommit
<1>1. /\ TxOK(tx[t], writer = t, db)
  BY InStatementOK
<1>2. /\ writer = t /\ tx[t].snap = db /\ r.id \in Id
      /\ VisibleIn(tx[t], db, r.id) # Nil
      /\ Inventory(VisibleIn(tx[t], db, r.id).rec) = Inventory(r)
  BY <1>1 DEF TxOK
<1>3. Outcome(t)[r.id] = VisibleIn(tx[t], db, r.id)
  BY <1>2 DEF Outcome, VisibleIn
<1> QED BY <1>2, <1>3

\* A Get sees every Put acknowledged before it, in whatever process.
THEOREM ReadsYourWrites == Spec => []ReadYourWrites
<1> SUFFICES ASSUME SafeInv PROVE ReadYourWrites
  BY SafeInvariant, PTL
<1>1. \A t \in Threads : ArgsOK(call[t]) /\ AnswerOK(call[t])
  BY InStatementOK
<1> QED BY <1>1 DEF ReadYourWrites, Answered, AnswerOK, ArgsOK, Knows, Recalls

\* No original outlives its acknowledged Purge, in the rows or in an answer.
THEOREM ErasureHolds == Spec => []ErasedStaysErased
<1> SUFFICES ASSUME SafeInv PROVE ErasedStaysErased
  BY SafeInvariant, PTL
<1>1. \A t \in Threads : ArgsOK(call[t]) /\ AnswerOK(call[t])
  BY InStatementOK
<1>2. \A id \in erased : Originals(db[id].rec) = {}
  BY DEF SafeInv, HistoryOK
<1> QED BY <1>1, <1>2 DEF ErasedStaysErased, Answered, AnswerOK, ArgsOK, Knows

-----------------------------------------------------------------------------
\* The contract's Tombstoned is the store's: both are that of Artifact.
LEMMA SameTombstoned ==
  ASSUME NEW r
  PROVE  Abstract!Tombstoned(r) = Tombstoned(r)
BY DEF Abstract!Tombstoned, Tombstoned, Abstract!Tombstone, Tombstone,
       Abstract!WithArtifacts, WithArtifacts, Abstract!WithContent, WithContent,
       Abstract!Present, Present, Abstract!Purged, Purged

\* A commit is a step of the contract.
LEMMA CommitRefines ==
  ASSUME SafeInv, NEW t \in Threads, call[t].pc = "commit", db' \in {db, Outcome(t)}
  PROVE  Abstract!Next
<1> DEFINE S(d) == [id \in Id |-> IF d[id] = Nil THEN Nil ELSE d[id].rec]
<1>1. Stored = S(db) /\ Stored' = S(db')
  BY DEF Stored
<1>2. TableOK(db)
  BY InStatementOK
<1>3. ASSUME NEW id \in Id
      PROVE  \/ db'[id] = db[id]
             \/ db[id] = Nil /\ \E p \in AdmissibleRecords[id] : db'[id] = Whole(p)
             \/ db[id] # Nil /\ db'[id] = Erased(db[id])
  BY OutcomeOK
<1>4. ASSUME NEW id \in Id
      PROVE  Abstract!Admit(id) \/ Abstract!Erase(id) \/ Stored'[id] = Stored[id]
  <2>1. CASE db'[id] = db[id]
    BY <1>1, <2>1
  <2>2. ASSUME db[id] = Nil, NEW p \in AdmissibleRecords[id], db'[id] = Whole(p)
        PROVE  Abstract!Admit(id)
    <3>1. Whole(p) # Nil /\ Whole(p).rec = p
      BY AdmissibleFacts, WholeCell DEF Whole, WholeCells
    <3>2. Stored[id] = Nil /\ Stored'[id] = p
      BY <1>1, <2>2, <3>1
    <3> QED BY <3>2 DEF Abstract!Admit
  <2>3. ASSUME db[id] # Nil, db'[id] = Erased(db[id])
        PROVE  Abstract!Erase(id)
    <3> DEFINE cell == db[id]
    <3>1. cell \in RowStates(id) /\ cell # Nil /\ db'[id] = Erased(cell)
      BY <1>2, <2>3 DEF TableOK
    <3> HIDE DEF cell
    <3>2. Erased(cell) # Nil /\ Erased(cell).rec = Tombstoned(cell.rec) /\ cell.rec # Nil
      BY <3>1, RowFacts
    <3>3. Stored[id] = cell.rec /\ Stored'[id] = Tombstoned(cell.rec)
      BY <1>1, <3>1, <3>2 DEF cell
    <3> QED BY <3>2, <3>3, SameTombstoned DEF Abstract!Erase
  <2> QED BY <1>3, <2>1, <2>2, <2>3
<1>5. Stored' = [id \in Id |-> Stored'[id]]
  BY <1>1
<1> QED BY <1>4, <1>5 DEF Abstract!Next

\* SqliteStore implements the contract of ArtifactStore: a commit, and a commit
\* that failed after the frames were written, admits and erases whole records;
\* no other step changes what is stored.
THEOREM StoreRefines == Spec => ImplementsStore
<1>1. Init => Abstract!Init
  BY DEF Init, Stored, Abstract!Init
<1>2. SafeInv /\ [Next]_vars => [Abstract!Next]_Stored
  <2> SUFFICES ASSUME SafeInv, [Next]_vars PROVE [Abstract!Next]_Stored
    OBVIOUS
  <2>1. CASE db' = db
    BY <2>1 DEF Stored
  <2>2. ASSUME NEW t \in Threads, Commit(t) \/ CommitFails(t)
        PROVE  Abstract!Next
    BY <2>2, CommitRefines DEF Commit, CommitFails
  <2>3. CASE UNCHANGED vars
    BY <2>1, <2>3 DEF vars
  <2>4. ASSUME NEW t \in Threads,
               \/ PutCall(t) \/ GetCall(t) \/ PurgeCall(t) \/ TxCall(t) \/ TxOp(t)
               \/ Begin(t) \/ BeginFails(t)
               \/ InsertDuplicate(t) \/ InsertParent(t) \/ InsertArtifact(t) \/ InsertDone(t)
               \/ ReadParent(t) \/ ReadArtifacts(t) \/ PurgeSelect(t) \/ PurgeUpdate(t)
               \/ Busy(t) \/ StatementFails(t) \/ CallerEnds(t)
        PROVE  db' = db
    BY <2>4 DEF PutCall, GetCall, PurgeCall, TxCall, TxOp, Begin, BeginFails,
       InsertDuplicate, InsertParent, InsertArtifact, InsertDone, ReadParent,
       ReadArtifacts, PurgeSelect, PurgeUpdate, Busy, StatementFails, CallerEnds,
       CallerCommit, CallerRollback
  <2>5. ASSUME NEW p \in Processes, Die(p)
        PROVE  db' = db
    BY <2>5 DEF Die
  <2> QED BY <2>1, <2>2, <2>3, <2>4, <2>5 DEF Next, Statement
<1> QED BY <1>1, <1>2, SafeInvariant, PTL DEF Spec, ImplementsStore, Abstract!Spec

-----------------------------------------------------------------------------
\* What the contract compares of records is what the store's own definitions do.
LEMMA SameContent ==
  ASSUME NEW r
  PROVE  /\ Abstract!StorageChecksum(r) = StorageChecksum(r)
         /\ Abstract!Originals(r) = Originals(r)
BY DEF Abstract!StorageChecksum, StorageChecksum, Abstract!ChecksumRow, ChecksumRow,
       Abstract!Originals, Originals, Abstract!WithArtifacts, WithArtifacts,
       Abstract!WithContent, WithContent, Abstract!Present, Present, Abstract!Purged, Purged

\* What is stored is made of admitted records.
StoredStable == \A id \in Id : Stored[id] = Nil \/ Stable(Stored[id])

\* Put admits sound records only: Prepare and Verify precede it.
LEMMA AdmissibleStable ==
  ASSUME NEW id \in Id, NEW p \in AdmissibleRecords[id]
  PROVE  Stable(p)
<1>1. PICK r \in Records : p = Prepared(r) /\ AdmissionError(r, Trusted) = "ok"
  BY DEF AdmissibleRecords
<1>2. Sound(p) /\ Nil \notin {p, Tombstoned(p)}
  BY <1>1, AdmittedIsSound, RowsAssumption
<1> QED BY <1>2 DEF Stable

\* A step of the contract is, under each id, one of its changes.
LEMMA ContractStep ==
  ASSUME StoredStable, [Abstract!Next]_Stored, NEW id \in Id
  PROVE  /\ Stored'[id] = Nil \/ Stable(Stored'[id])
         /\ Stored[id] # Nil =>
              /\ Stored'[id] # Nil
              /\ StorageChecksum(Stored'[id]) = StorageChecksum(Stored[id])
              /\ Originals(Stored'[id]) \in {Originals(Stored[id]), {}}
<1> DEFINE old == Stored[id]
           new == Stored'[id]
<1>1. old = Nil \/ Stable(old)
  BY DEF StoredStable
<1>2. Changes(old, new)
  <2>1. CASE UNCHANGED Stored
    BY <2>1 DEF Changes
  <2>2. CASE Abstract!Next
    <3>1. Abstract!Admit(id) \/ Abstract!Erase(id) \/ new = old
      BY <2>2 DEF Abstract!Next
    <3> QED
      BY <3>1, AdmissibleStable, SameTombstoned DEF Changes, Abstract!Admit, Abstract!Erase
  <2> QED BY <2>1, <2>2
<1> HIDE DEF old, new
<1>3. /\ new = Nil \/ Stable(new)
      /\ old # Nil => /\ new # Nil
                      /\ StorageChecksum(new) = StorageChecksum(old)
                      /\ Originals(new) \in {Originals(old), {}}
  BY <1>1, <1>2, StoreImmutable
<1> QED BY <1>3 DEF old, new

\* What this store keeps is immutable: in every behaviour a stored record keeps
\* its checksum, and its originals are all there or all erased.
THEOREM RecordsAreImmutable ==
  Spec => Abstract!Immutable
<1>1. Abstract!Init => StoredStable
  BY DEF Abstract!Init, StoredStable
<1>2. StoredStable /\ [Abstract!Next]_Stored => StoredStable'
  BY ContractStep DEF StoredStable
<1>3. StoredStable /\ [Abstract!Next]_Stored =>
        [\A id \in Id : Stored[id] # Nil =>
           /\ Stored'[id] # Nil
           /\ Abstract!StorageChecksum(Stored'[id]) = Abstract!StorageChecksum(Stored[id])
           /\ Abstract!Originals(Stored'[id]) \in {Abstract!Originals(Stored[id]), {}}]_Stored
  BY ContractStep, SameContent
<1>4. Abstract!Spec => Abstract!Immutable
  BY <1>1, <1>2, <1>3, PTL DEF Abstract!Spec, Abstract!Immutable
<1> QED BY <1>4, StoreRefines, PTL DEF ImplementsStore
=============================================================================
