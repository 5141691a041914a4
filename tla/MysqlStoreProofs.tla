-------------------------- MODULE MysqlStoreProofs --------------------------
(***************************************************************************)
(* The safety of MysqlStore for any number of threads, stores with their   *)
(* trusted keys, ids and records: locks that exclude each other, whole     *)
(* rows, answers that hold until a transaction commits, bounded retries,   *)
(* and the contract of ArtifactStore.                                      *)
(***************************************************************************)
EXTENDS MysqlStore, SqlRowsProofs

-----------------------------------------------------------------------------
\* The inductive invariant, in terms of one thread's call c, transaction x,
\* locks l and trusted keys T, and the committed rows d.

\* An exclusive lock excludes every other lock on the row or its place, and a
\* gap lock keeps the place empty.
LocksOK(h, d) ==
  /\ h \in [Threads -> [Id -> SUBSET {"S", "X", "G"}]]
  /\ \A t, u \in Threads, id \in Id : t # u /\ "X" \in h[t][id] => h[u][id] = {}
  /\ \A t \in Threads, id \in Id : "G" \in h[t][id] => d[id] = Nil

\* What a row can be between transactions: absent, whole, or whole and purged.
RowStates(id) == {Nil} \cup UNION {WholeCells(p) : p \in AdmissibleRecords[id]}

TableOK(d) ==
  /\ d = [id \in Id |-> d[id]]
  /\ \A id \in Id : d[id] \in RowStates(id)

\* Every acknowledged record is stored, whole or without originals; the erased
\* ones are stored without.
HistoryOK(d, ack, er) ==
  /\ ack = [id \in Id |-> ack[id]]
  /\ \A id \in Id : ack[id] # Nil => d[id] # Nil /\ Recalls(d[id].rec, ack[id])
  /\ er \subseteq Id
  /\ \A id \in er : d[id] # Nil /\ Originals(d[id].rec) = {}

CurrentIn(x, d, id) == IF x.work[id] # Nil THEN x.work[id] ELSE d[id]

TxFields == {"snap", "work", "ops", "stable", "puts"}

\* The rows a transaction changed and those its answers were about are locked
\* exclusively; the latter are what the answers said.
TxOK(x, l, d) ==
  /\ DOMAIN x = TxFields /\ DOMAIN x.work = Id
  /\ x.snap # Nil => TableOK(x.snap)
  /\ \A id \in Id : x.work[id] # Nil => "X" \in l[id]
  /\ \A r \in x.stable \cup x.puts :
       /\ r.id \in Id /\ "X" \in l[r.id] /\ CurrentIn(x, d, r.id) # Nil
       /\ Inventory(CurrentIn(x, d, r.id).rec) = Inventory(r)
  /\ \A r \in x.stable : CurrentIn(x, d, r.id).rec = r
  /\ \A r \in x.puts : r \in AdmissibleRecords[r.id]

\* What a commit would do to a row: nothing, admit a record or erase one.  A call
\* that failed half way leaves rows that are never committed.
WorkOK(c, x, d) ==
  \A id \in Id :
    \/ x.work[id] = Nil
    \/ c.pc = "failed"
    \/ c.pc = "artifacts" /\ id = c.id
    \/ d[id] = Nil /\ \E p \in AdmissibleRecords[id] : x.work[id] = Whole(p)
    \/ d[id] # Nil /\ x.work[id] = Erased(d[id])

CallFields ==
  {"op", "pc", "id", "rec", "lock", "row", "next", "try", "own", "out", "seen"}

Putting ==
  {"backoff", "insert", "insertWait", "artifacts", "readParent", "readArtifacts", "commit"}

\* Which call a thread can be in at each point, and its arguments.
ArgsOK(c) ==
  /\ DOMAIN c = CallFields /\ c.try \in 0..(MaxAttempts - 1)
  /\ c.op \in {"put", "get", "purge"} => c.id \in Id
  /\ c.op = "put" /\ c.pc \in Putting => c.rec \in AdmissibleRecords[c.id]
  /\ c.op = "get" /\ c.own => ~ c.lock
  /\ c.pc \in {"insert", "insertWait", "artifacts"} => c.op = "put"
  /\ c.pc = "backoff" => c.op = "put" /\ c.own /\ c.try + 1 < MaxAttempts
  /\ c.pc \in {"readParent", "readArtifacts"} => c.op = "get" \/ (c.op = "put" /\ c.lock)
  /\ c.pc \in {"purgeLock", "purgeUpdate"} => c.op = "purge" /\ c.own
  /\ c.pc \in {"open", "failed"} => ~ c.own
  /\ c.pc = "commit" => c.own \/ c.op = "tx"

\* What a call saw when it was invoked is still so.
SeenOK(c, ack, er) ==
  /\ c.seen.acked # Nil => c.id \in Id /\ ack[c.id] = c.seen.acked
  /\ c.seen.erased => c.id \in er

\* How far the statements of a call have come, and the locks they have taken.
StatementOK(c, x, l, d) ==
  /\ c.pc \in {"idle", "done", "backoff"} => x = NoTx /\ l = NoLocks
  /\ c.pc = "artifacts" =>
       /\ "X" \in l[c.id] /\ d[c.id] = Nil /\ ~ c.seen.erased
       /\ c.next \in 1..(Len(c.rec.artifacts) + 1)
       /\ x.work[c.id] = Inserted(c.rec, c.next - 1)
       /\ \A r \in x.puts \cup x.stable : r.id # c.id
  /\ c.pc = "readParent" /\ c.op = "get" /\ c.own => x = NoTx
  /\ c.pc = "readArtifacts" =>
       /\ c.row # Nil
       /\ c.own \/ c.lock => c.row \in RowStates(c.id)
       /\ c.lock => "X" \in l[c.id] /\ c.row = CurrentIn(x, d, c.id)
       /\ ~ c.lock => x.snap # Nil /\ c.row = CurrentIn(x, x.snap, c.id)
  /\ c.pc = "purgeLock" => x = NoTx
  /\ c.pc = "purgeUpdate" => x = NoTx /\ "X" \in l[c.id] /\ d[c.id] # Nil
  /\ c.pc = "commit" /\ c.op = "purge" =>
       "X" \in l[c.id] /\ d[c.id] # Nil /\ x.work[c.id] = Erased(d[c.id])

\* What a read has found is what was acknowledged when it was invoked.
Knows(c, r) ==
  /\ c.seen.acked # Nil => Recalls(r, c.seen.acked)
  /\ c.seen.erased => Originals(r) = {}

Answers(c, T, out) ==
  /\ out.err = "ok" => Knows(c, out.rec)
  /\ c.seen.acked # Nil /\ out.err # "ErrIO" =>
       IF c.seen.acked.envelope.key \in T THEN out.err = "ok"
       ELSE out.err = "ErrUntrustedSigner"

AnswerOK(c, T) ==
  /\ c.op = "get" /\ (c.own \/ c.lock) =>
       /\ c.pc = "readArtifacts" => Knows(c, c.row.rec)
       /\ c.pc \in {"commit", "open", "done"} => Answers(c, T, c.out)
  /\ c.op = "put" /\ c.pc \in {"commit", "open", "done"} =>
       (c.out.err = "ok" /\ c.seen.erased => Originals(c.rec) = {})

ThreadOK(c, x, l, T, d, ack, er) ==
  /\ TxOK(x, l, d) /\ WorkOK(c, x, d)
  /\ ArgsOK(c) /\ SeenOK(c, ack, er) /\ StatementOK(c, x, l, d) /\ AnswerOK(c, T)

SafeInv ==
  /\ LocksOK(held, db) /\ TableOK(db) /\ HistoryOK(db, acked, erased)
  /\ call = [t \in Threads |-> call[t]] /\ tx = [t \in Threads |-> tx[t]]
  /\ \A t \in Threads :
       ThreadOK(call[t], tx[t], held[t], Trusts[t], db, acked, erased)

-----------------------------------------------------------------------------
\* What the definitions say, in the form the steps use.

\* An admissible record is storable under its id.
LEMMA AdmissibleFacts ==
  ASSUME NEW id \in Id, NEW p \in AdmissibleRecords[id]
  PROVE  Storable(p) /\ p.id = id /\ id \in ValidId
<1>1. PICK r \in Records :
        p = Prepared(r) /\ r.id = id /\ \E t \in Threads : AdmissionError(r, Trusts[t]) = "ok"
  BY DEF AdmissibleRecords
<1>2. Storable(p) /\ p.id = id
  BY <1>1, AdmittedIsStorable
<1> QED BY <1>2 DEF Storable, Sound, Authentic

\* A row between transactions, and what read makes of it.
LEMMA RowFacts ==
  ASSUME NEW id \in Id, NEW cell \in RowStates(id), cell # Nil
  PROVE  /\ cell.rec.id = id /\ id \in ValidId
         /\ cell \in Cells /\ Sound(cell.rec) /\ cell.rec # Nil
         /\ cell.hash = StorageChecksum(cell.rec)
         /\ Erased(cell) # Nil /\ Erased(cell) \in RowStates(id)
         /\ Erased(cell).rec = Tombstoned(cell.rec)
         /\ Originals(Erased(cell).rec) = {}
         /\ \A a : Recalls(cell.rec, a) => Recalls(Erased(cell).rec, a)
         /\ \A T : ReadResult(cell, cell, T) =
              IF cell.rec.envelope.key \in T THEN Out("ok", cell.rec)
              ELSE Out("ErrUntrustedSigner", Nil)
<1>1. PICK p \in AdmissibleRecords[id] : cell \in WholeCells(p)
  BY DEF RowStates
<1>2. Storable(p) /\ p.id = id /\ id \in ValidId
  BY AdmissibleFacts
<1>3. Erased(cell) \in WholeCells(p)
  BY <1>1, <1>2, WholeCell DEF WholeCells
<1>4. Erased(cell) # Nil /\ Erased(cell) \in RowStates(id)
  BY <1>2, <1>3, WholeCell DEF RowStates
<1>5. cell.hash = StorageChecksum(cell.rec) /\ cell.rec.envelope = p.envelope
  BY <1>1, <1>2, WholeCell
<1> QED BY <1>1, <1>2, <1>4, <1>5, WholeCell, ReadWhole

\* The snapshot of a transaction is a table.
LEMMA TableFacts ==
  ASSUME NEW d, TableOK(d)
  PROVE  d # Nil
<1>1. \A id \in Id : d[id] \in Cells \cup {Nil}
  BY RowFacts DEF TableOK
<1>2. d \in [Id -> Cells \cup {Nil}]
  BY <1>1 DEF TableOK
<1> QED BY <1>2, RowsAssumption

\* The current and the snapshot read as functions of one transaction.
LEMMA CurrentIs ==
  ASSUME NEW t, NEW id
  PROVE  /\ Current(t, id) = CurrentIn(tx[t], db, id)
         /\ Visible(t, id) = CurrentIn(tx[t], SnapshotOf(t), id)
BY DEF Current, Visible, CurrentIn

\* Outside the INSERTs of a record the newest row a transaction sees is one that
\* can be committed, and has what was acknowledged.
LEMMA CurrentRow ==
  ASSUME NEW c, NEW x, NEW d, NEW ack, NEW er, NEW id \in Id, TableOK(d), WorkOK(c, x, d),
         HistoryOK(d, ack, er), c.pc \notin {"failed", "artifacts"}
  PROVE  LET row == CurrentIn(x, d, id) IN
         /\ row \in RowStates(id)
         /\ ack[id] # Nil => row # Nil /\ Recalls(row.rec, ack[id])
         /\ id \in er => row # Nil /\ Originals(row.rec) = {}
<1> DEFINE row == CurrentIn(x, d, id)
           cell == d[id]
<1>1. /\ cell \in RowStates(id)
      /\ ack[id] # Nil => cell # Nil /\ Recalls(cell.rec, ack[id])
      /\ id \in er => cell # Nil /\ Originals(cell.rec) = {}
  BY DEF TableOK, HistoryOK
<1>2. CASE x.work[id] = Nil
  BY <1>1, <1>2 DEF CurrentIn
<1>3. ASSUME NEW p \in AdmissibleRecords[id], x.work[id] = Whole(p), x.work[id] # Nil
      PROVE  row \in RowStates(id)
  <2>1. row = Whole(p)
    BY <1>3 DEF CurrentIn
  <2> QED BY <2>1 DEF RowStates, WholeCells
<1>4. CASE cell # Nil /\ x.work[id] = Erased(cell)
  <2>1. row = IF Erased(cell) # Nil THEN Erased(cell) ELSE cell
    BY <1>4 DEF CurrentIn
  <2> HIDE DEF row, cell
  <2>2. /\ Erased(cell) # Nil /\ Erased(cell) \in RowStates(id)
        /\ Originals(Erased(cell).rec) = {}
        /\ \A a : Recalls(cell.rec, a) => Recalls(Erased(cell).rec, a)
    BY <1>1, <1>4, RowFacts
  <2> QED BY <1>1, <2>1, <2>2 DEF row
<1> QED BY <1>1, <1>2, <1>3, <1>4 DEF WorkOK

\* Records that recall each other have the same envelope.
LEMMA RecallsEnvelope ==
  ASSUME NEW r, NEW a, Recalls(r, a)
  PROVE  r.envelope = a.envelope
<1>1. StorageChecksum(r).envelope = StorageChecksum(a).envelope
  BY DEF Recalls
<1> QED BY <1>1 DEF StorageChecksum, WithArtifacts

\* A connection without a transaction sees the committed rows.
LEMMA NoTxFacts ==
  /\ NoTx.snap = Nil /\ NoTx.stable = {} /\ NoTx.puts = {}
  /\ \A id \in Id : NoTx.work[id] = Nil
  /\ \A d, id : id \in Id => CurrentIn(NoTx, d, id) = d[id]
  /\ \A l, d, c : TxOK(NoTx, l, d) /\ WorkOK(c, NoTx, d)
<1>1. /\ NoTx.snap = Nil /\ NoTx.stable = {} /\ NoTx.puts = {}
      /\ \A id \in Id : NoTx.work[id] = Nil
      /\ DOMAIN NoTx = TxFields /\ DOMAIN NoTx.work = Id
  BY DEF NoTx, TxFields
<1> QED BY <1>1 DEF CurrentIn, TxOK, WorkOK

\* The fields of a connection that makes no call.
LEMMA IdleFacts ==
  /\ Idle.op = "none" /\ Idle.pc = "idle" /\ Idle.own = TRUE /\ Idle.lock = FALSE
  /\ Idle.next = 1 /\ Idle.try = 0
  /\ Idle.seen.acked = Nil /\ Idle.seen.erased = FALSE
  /\ DOMAIN Idle = CallFields /\ 0 \in 0..(MaxAttempts - 1)
BY MysqlAssumption DEF Idle, CallFields

\* A connection that makes no call keeps every promise.
LEMMA IdleOK ==
  ASSUME NEW T, NEW d, NEW ack, NEW er
  PROVE  ThreadOK(Idle, NoTx, NoLocks, T, d, ack, er)
<1>1. ArgsOK(Idle) /\ SeenOK(Idle, ack, er) /\ AnswerOK(Idle, T)
  BY IdleFacts DEF ArgsOK, SeenOK, AnswerOK
<1>2. StatementOK(Idle, NoTx, NoLocks, d)
  BY IdleFacts DEF StatementOK
<1> QED BY <1>1, <1>2, NoTxFacts DEF ThreadOK

\* What is kept of a call when it returns.
LEMMA ReturnedFields ==
  ASSUME NEW c, DOMAIN c = CallFields, NEW pc, NEW out
  PROVE  LET k == Returned(c, pc, out) IN
         /\ DOMAIN k = CallFields
         /\ k.op = c.op /\ k.pc = pc /\ k.id = c.id /\ k.row = Nil /\ k.next = 1 /\ k.try = 0
         /\ k.own = c.own /\ k.lock = c.lock /\ k.out = out /\ k.seen = c.seen
         /\ k.rec = IF out.err = "ok" /\ c.op = "put" THEN c.rec ELSE Nil
BY DEF Returned, CallFields

-----------------------------------------------------------------------------
\* Locks.

\* The locks there are.
LEMMA ModesOf ==
  ASSUME SafeInv, NEW t \in Threads, NEW id \in Id
  PROVE  held[t][id] \subseteq {"S", "X", "G"}
BY DEF SafeInv, LocksOK

\* A thread that finds a row, its own or a committed one, and nobody else's lock
\* of the row on it, is alone there.
LEMMA Alone ==
  ASSUME SafeInv, NEW t \in Threads, NEW id \in Id,
         \/ Others(t, id, {"X", "S", "G"}) = {}
         \/ Others(t, id, {"S", "X"}) = {} /\ Current(t, id) # Nil
  PROVE  \A u \in Threads : u # t => held[u][id] = {}
<1> SUFFICES ASSUME NEW u \in Threads, u # t, held[u][id] # {}
             PROVE  FALSE
  OBVIOUS
<1>1. held[u][id] \cap {"S", "X"} # {} \/ "G" \in held[u][id]
  BY ModesOf
<1>2. CASE Others(t, id, {"X", "S", "G"}) = {}
  BY <1>1, <1>2 DEF Others
<1>3. CASE Others(t, id, {"S", "X"}) = {} /\ Current(t, id) # Nil
  <2>1. "G" \in held[u][id]
    BY <1>1, <1>3 DEF Others
  <2>2. tx[t].work[id] # Nil
    BY <1>3, <2>1 DEF Current, SafeInv, LocksOK
  <2>3. "X" \in held[t][id]
    BY <2>2 DEF SafeInv, ThreadOK, TxOK
  <2> QED BY <2>1, <2>3 DEF SafeInv, LocksOK
<1> QED BY <1>2, <1>3

\* Taking a lock that the others' locks allow keeps the lock discipline.
LEMMA TakeKeeps ==
  ASSUME SafeInv, NEW t \in Threads, NEW id \in Id, NEW mode \in {"S", "X", "G"},
         Take(t, id, mode),
         \/ mode = "S" /\ Others(t, id, {"X"}) = {}
         \/ mode = "G" /\ Others(t, id, {"X"}) = {} /\ db[id] = Nil
         \/ mode = "X" /\ \A u \in Threads : u # t => held[u][id] = {}
  PROVE  /\ LocksOK(held', db) /\ held' = [held EXCEPT ![t] = held'[t]]
         /\ held'[t][id] = held[t][id] \cup {mode}
         /\ \A j \in Id : held[t][j] \subseteq held'[t][j]
<1>1. held' = [held EXCEPT ![t] = [held[t] EXCEPT ![id] = held[t][id] \cup {mode}]]
  BY DEF Take
<1>2. held \in [Threads -> [Id -> SUBSET {"S", "X", "G"}]]
  BY DEF SafeInv, LocksOK
<1>3. /\ held' \in [Threads -> [Id -> SUBSET {"S", "X", "G"}]]
      /\ held' = [held EXCEPT ![t] = held'[t]]
      /\ held'[t][id] = held[t][id] \cup {mode}
      /\ \A j \in Id : j # id => held'[t][j] = held[t][j]
      /\ \A u \in Threads : u # t => held'[u] = held[u]
  BY <1>1, <1>2
<1>4. ASSUME NEW u \in Threads, NEW w \in Threads, NEW j \in Id, u # w, "X" \in held'[u][j]
      PROVE  held'[w][j] = {}
  <2>1. "X" \in held[u][j] => held[w][j] = {}
    BY <1>4 DEF SafeInv, LocksOK
  <2>2. CASE u # t /\ w # t
    BY <1>3, <1>4, <2>1, <2>2
  <2>3. CASE u = t
    BY <1>3, <1>4, <2>1, <2>3
  <2>4. CASE w = t
    <3>1. "X" \in held[u][j] /\ u # t
      BY <1>3, <1>4, <2>4
    <3>2. j # id
      BY <3>1, <2>4 DEF Others
    <3> QED BY <1>3, <2>1, <2>4, <3>1, <3>2
  <2> QED BY <2>2, <2>3, <2>4
<1>5. ASSUME NEW u \in Threads, NEW j \in Id, "G" \in held'[u][j]
      PROVE  db[j] = Nil
  <2>1. "G" \in held[u][j] => db[j] = Nil
    BY DEF SafeInv, LocksOK
  <2> QED BY <1>3, <1>5, <2>1
<1>6. LocksOK(held', db)
  BY <1>3, <1>4, <1>5 DEF LocksOK
<1> QED BY <1>3, <1>6

\* The locks of a transaction go with it.
LEMMA EndFrees ==
  ASSUME SafeInv, NEW t \in Threads, End(t)
  PROVE  /\ tx'[t] = NoTx /\ tx' = [tx EXCEPT ![t] = tx'[t]]
         /\ held'[t] = NoLocks /\ held' = [held EXCEPT ![t] = held'[t]]
         /\ LocksOK(held', db)
<1>1. tx'[t] = NoTx /\ tx' = [tx EXCEPT ![t] = tx'[t]]
  BY DEF SafeInv, End
<1>2. held \in [Threads -> [Id -> SUBSET {"S", "X", "G"}]]
  BY DEF SafeInv, LocksOK
<1>3. /\ held' \in [Threads -> [Id -> SUBSET {"S", "X", "G"}]]
      /\ held'[t] = NoLocks /\ held' = [held EXCEPT ![t] = held'[t]]
      /\ \A j \in Id : held'[t][j] = {}
      /\ \A u \in Threads : u # t => held'[u] = held[u]
  BY <1>2 DEF End, NoLocks
<1>4. LocksOK(held', db)
  BY <1>3 DEF SafeInv, LocksOK
<1> QED BY <1>1, <1>3, <1>4

-----------------------------------------------------------------------------
\* Steps of one thread and what they leave alone in the others.

\* A step of t that commits nothing.
LEMMA LocalStep ==
  ASSUME SafeInv, NEW t \in Threads, UNCHANGED <<db, acked, erased>>,
         call' = [call EXCEPT ![t] = call'[t]], tx' = [tx EXCEPT ![t] = tx'[t]],
         held' = [held EXCEPT ![t] = held'[t]], LocksOK(held', db),
         ThreadOK(call'[t], tx'[t], held'[t], Trusts[t], db, acked, erased)
  PROVE  SafeInv'
<1>1. ASSUME NEW u \in Threads
      PROVE  ThreadOK(call'[u], tx'[u], held'[u], Trusts[u], db, acked, erased)
  <2>1. CASE u = t
    BY <2>1
  <2>2. CASE u # t
    <3>1. call'[u] = call[u] /\ tx'[u] = tx[u] /\ held'[u] = held[u]
      BY <2>2 DEF SafeInv, LocksOK
    <3>2. ThreadOK(call[u], tx[u], held[u], Trusts[u], db, acked, erased)
      BY DEF SafeInv
    <3> QED BY <3>1, <3>2
  <2> QED BY <2>1, <2>2
<1>2. call' = [u \in Threads |-> call'[u]] /\ tx' = [u \in Threads |-> tx'[u]]
  BY DEF SafeInv
<1>3. TableOK(db) /\ HistoryOK(db, acked, erased)
  BY DEF SafeInv
<1> QED BY <1>1, <1>2, <1>3 DEF SafeInv

\* A commit of another transaction changes no row that this one has locked.
LEMMA OthersKeep ==
  ASSUME NEW c, NEW x, NEW l, NEW T, NEW d, NEW ack, NEW er, NEW d2, NEW ack2, NEW er2,
         ThreadOK(c, x, l, T, d, ack, er), \A id \in Id : l[id] # {} => d2[id] = d[id],
         \A id \in Id : ack[id] # Nil => ack2[id] = ack[id], er \subseteq er2
  PROVE  ThreadOK(c, x, l, T, d2, ack2, er2)
<1>1. SeenOK(c, ack2, er2)
  BY DEF ThreadOK, SeenOK
<1>2. \A id \in Id : "X" \in l[id] =>
        d2[id] = d[id] /\ CurrentIn(x, d2, id) = CurrentIn(x, d, id)
  BY DEF CurrentIn
<1>3. TxOK(x, l, d2)
  BY <1>2 DEF ThreadOK, TxOK
<1>4. WorkOK(c, x, d2)
  BY <1>2 DEF ThreadOK, TxOK, WorkOK
<1>5. StatementOK(c, x, l, d2)
  <2>1. \/ c.pc \in {"artifacts", "readArtifacts", "purgeUpdate"}
        \/ c.pc = "commit" /\ c.op = "purge"
        => c.id \in Id
    BY DEF ThreadOK, ArgsOK
  <2> QED BY <1>2, <2>1 DEF ThreadOK, StatementOK
<1> QED BY <1>1, <1>3, <1>4, <1>5 DEF ThreadOK

\* What holds of a thread.
LEMMA InStatementOK ==
  ASSUME SafeInv, NEW t \in Threads
  PROVE  /\ TableOK(db) /\ HistoryOK(db, acked, erased)
         /\ TxOK(tx[t], held[t], db) /\ WorkOK(call[t], tx[t], db)
         /\ ArgsOK(call[t]) /\ SeenOK(call[t], acked, erased)
         /\ StatementOK(call[t], tx[t], held[t], db) /\ AnswerOK(call[t], Trusts[t])
         /\ DOMAIN tx[t] = TxFields /\ DOMAIN call[t] = CallFields
BY DEF SafeInv, ThreadOK, TxOK, ArgsOK

\* A step of t in its transaction.
LEMMA StatementStep ==
  ASSUME SafeInv, NEW t \in Threads, UNCHANGED <<db, acked, erased>>, NEW k, NEW y,
         call' = [call EXCEPT ![t] = k], tx' = [tx EXCEPT ![t] = y],
         \/ held' = held
         \/ LocksOK(held', db) /\ held' = [held EXCEPT ![t] = held'[t]],
         TxOK(y, held'[t], db), WorkOK(k, y, db), ArgsOK(k), SeenOK(k, acked, erased),
         StatementOK(k, y, held'[t], db), AnswerOK(k, Trusts[t])
  PROVE  SafeInv'
<1>1. call'[t] = k /\ call' = [call EXCEPT ![t] = call'[t]]
      /\ tx'[t] = y /\ tx' = [tx EXCEPT ![t] = tx'[t]]
  BY DEF SafeInv
<1>2. LocksOK(held', db) /\ held' = [held EXCEPT ![t] = held'[t]]
  <2>1. CASE held' = held
    BY <2>1 DEF SafeInv, LocksOK
  <2> QED BY <2>1
<1>3. ThreadOK(k, y, held'[t], Trusts[t], db, acked, erased)
  BY DEF ThreadOK
<1>4. ThreadOK(call'[t], tx'[t], held'[t], Trusts[t], db, acked, erased)
  BY <1>1, <1>3
<1> QED BY <1>1, <1>2, <1>4, LocalStep

-----------------------------------------------------------------------------
\* Steps that end a call.

\* A call that returns with a right answer keeps every promise.
LEMMA DoneOK ==
  ASSUME NEW c, NEW x, NEW l, NEW T, NEW d, NEW ack, NEW er,
         ThreadOK(c, x, l, T, d, ack, er), NEW out,
         c.op = "get" /\ c.own => Answers(c, T, out),
         c.op = "put" /\ out.err = "ok" /\ c.seen.erased => Originals(c.rec) = {},
         c.op = "get" => c.own
  PROVE  ThreadOK(Returned(c, "done", out), NoTx, NoLocks, T, d, ack, er)
<1> DEFINE k == Returned(c, "done", out)
<1>1. ArgsOK(c) /\ SeenOK(c, ack, er) /\ DOMAIN c = CallFields /\ 0 \in 0..(MaxAttempts - 1)
  BY IdleFacts DEF ThreadOK, ArgsOK
<1>2. /\ DOMAIN k = CallFields /\ k.op = c.op /\ k.pc = "done" /\ k.id = c.id /\ k.try = 0
      /\ k.own = c.own /\ k.lock = c.lock /\ k.out = out /\ k.seen = c.seen
      /\ (out.err = "ok" /\ c.op = "put" => k.rec = c.rec)
  BY <1>1, ReturnedFields
<1> HIDE DEF k
<1>3. ArgsOK(k)
  BY <1>1, <1>2 DEF ArgsOK, Putting
<1>4. SeenOK(k, ack, er)
  BY <1>1, <1>2 DEF SeenOK
<1>5. StatementOK(k, NoTx, NoLocks, d)
  BY <1>2 DEF StatementOK
<1>6. AnswerOK(k, T)
  BY <1>2 DEF AnswerOK, Answers, Knows
<1>7. ThreadOK(k, NoTx, NoLocks, T, d, ack, er)
  BY <1>3, <1>4, <1>5, <1>6, NoTxFacts DEF ThreadOK
<1> QED BY <1>7 DEF k

\* A call that fails in the caller's transaction leaves its rows and its locks,
\* unless the server has rolled the transaction back.
LEMMA FailedOK ==
  ASSUME NEW c, NEW x, NEW l, NEW T, NEW d, NEW ack, NEW er,
         ThreadOK(c, x, l, T, d, ack, er), NEW out, ~ c.own, NEW y, NEW m, TxOK(y, m, d)
  PROVE  ThreadOK(Returned(c, "failed", out), y, m, T, d, ack, er)
<1> DEFINE k == Returned(c, "failed", out)
<1>1. ArgsOK(c) /\ SeenOK(c, ack, er) /\ DOMAIN c = CallFields /\ 0 \in 0..(MaxAttempts - 1)
  BY IdleFacts DEF ThreadOK, ArgsOK
<1>2. /\ DOMAIN k = CallFields /\ k.op = c.op /\ k.pc = "failed" /\ k.id = c.id /\ k.try = 0
      /\ k.own = c.own /\ k.seen = c.seen
  BY <1>1, ReturnedFields
<1> HIDE DEF k
<1>3. ArgsOK(k)
  BY <1>1, <1>2 DEF ArgsOK, Putting
<1>4. SeenOK(k, ack, er)
  BY <1>1, <1>2 DEF SeenOK
<1>5. StatementOK(k, y, m, d) /\ WorkOK(k, y, d)
  BY <1>2 DEF StatementOK, WorkOK
<1>6. AnswerOK(k, T)
  BY <1>2 DEF AnswerOK
<1>7. ThreadOK(k, y, m, T, d, ack, er)
  BY <1>3, <1>4, <1>5, <1>6 DEF ThreadOK
<1> QED BY <1>7 DEF k

\* Put waits to begin anew, with nothing in its hands.
LEMMA BackoffOK ==
  ASSUME NEW c, NEW x, NEW l, NEW T, NEW d, NEW ack, NEW er,
         ThreadOK(c, x, l, T, d, ack, er), c.op = "put", c.own, c.pc \in Putting,
         c.try + 1 < MaxAttempts
  PROVE  ThreadOK([c EXCEPT !.pc = "backoff", !.row = Nil, !.next = 1], NoTx, NoLocks,
                  T, d, ack, er)
<1> DEFINE k == [c EXCEPT !.pc = "backoff", !.row = Nil, !.next = 1]
<1>1. ArgsOK(c) /\ SeenOK(c, ack, er) /\ DOMAIN c = CallFields
  BY DEF ThreadOK, ArgsOK
<1>2. /\ DOMAIN k = CallFields /\ k.op = c.op /\ k.pc = "backoff" /\ k.id = c.id
      /\ k.rec = c.rec /\ k.try = c.try /\ k.own = c.own /\ k.seen = c.seen
  BY <1>1 DEF CallFields
<1> HIDE DEF k
<1>3. ArgsOK(k)
  BY <1>1, <1>2 DEF ArgsOK, Putting
<1>4. SeenOK(k, ack, er)
  BY <1>1, <1>2 DEF SeenOK
<1>5. StatementOK(k, NoTx, NoLocks, d) /\ AnswerOK(k, T)
  BY <1>2 DEF StatementOK, AnswerOK
<1>6. ThreadOK(k, NoTx, NoLocks, T, d, ack, er)
  BY <1>3, <1>4, <1>5, NoTxFacts DEF ThreadOK
<1> QED BY <1>6 DEF k

InTx == {"insert", "insertWait", "artifacts", "readParent", "readArtifacts",
         "purgeLock", "purgeUpdate"}

\* finishRollback gives up the locks and the changes (mysql/store.go,
\* mysql/retry.go).
LEMMA FailsSafe ==
  ASSUME SafeInv, NEW t \in Threads, call[t].pc \in InTx,
         UNCHANGED <<db, acked, erased>>, NEW err, err # "ok", Fails(t, err),
         call[t].op = "get" /\ call[t].own => Answers(call[t], Trusts[t], Out(err, Nil))
  PROVE  SafeInv'
<1> DEFINE c == call[t]
           out == Out(err, Nil)
<1>1. ThreadOK(c, tx[t], held[t], Trusts[t], db, acked, erased)
  BY DEF SafeInv
<1>2. out.err = err
  BY DEF Out
<1>3. CASE c.own
  <2>1. End(t)
    BY <1>3 DEF Fails
  <2>2. tx'[t] = NoTx /\ held'[t] = NoLocks
    BY <2>1, EndFrees
  <2>3. CASE err = "1213" /\ c.op = "put" /\ c.try + 1 < MaxAttempts
    <3> DEFINE k == [c EXCEPT !.pc = "backoff", !.row = Nil, !.next = 1]
    <3>1. call' = [call EXCEPT ![t] = k]
      BY <1>3, <2>3 DEF Fails
    <3>2. call'[t] = k /\ call' = [call EXCEPT ![t] = call'[t]]
      BY <3>1 DEF SafeInv
    <3>3. c.pc \in Putting
      BY <1>1, <2>3 DEF InTx, Putting, ThreadOK, ArgsOK
    <3>4. ThreadOK(k, NoTx, NoLocks, Trusts[t], db, acked, erased)
      <4> HIDE DEF c
      <4> QED BY <1>1, <1>3, <2>3, <3>3, BackoffOK
    <3> HIDE DEF k
    <3>5. ThreadOK(call'[t], tx'[t], held'[t], Trusts[t], db, acked, erased)
      BY <2>2, <3>2, <3>4
    <3> QED BY <2>1, <3>2, <3>5, EndFrees, LocalStep
  <2>4. CASE ~ (err = "1213" /\ c.op = "put" /\ c.try + 1 < MaxAttempts)
    <3> DEFINE k == Returned(c, "done", out)
    <3>1. call' = [call EXCEPT ![t] = k]
      BY <1>3, <2>4 DEF Fails
    <3>2. call'[t] = k /\ call' = [call EXCEPT ![t] = call'[t]]
      BY <3>1 DEF SafeInv
    <3>3. ThreadOK(k, NoTx, NoLocks, Trusts[t], db, acked, erased)
      <4>1. c.op = "get" /\ c.own => Answers(c, Trusts[t], out)
        OBVIOUS
      <4> HIDE DEF c, out
      <4> QED BY <1>1, <1>2, <1>3, <4>1, DoneOK
    <3> HIDE DEF k
    <3>4. ThreadOK(call'[t], tx'[t], held'[t], Trusts[t], db, acked, erased)
      BY <2>2, <3>2, <3>3
    <3> QED BY <2>1, <3>2, <3>4, EndFrees, LocalStep
  <2> QED BY <2>3, <2>4
<1>4. CASE ~ c.own
  <2> DEFINE k == Returned(c, "failed", out)
  <2>1. call' = [call EXCEPT ![t] = k] /\ (End(t) \/ UNCHANGED <<held, tx>>)
    BY <1>4 DEF Fails
  <2>2. call'[t] = k /\ call' = [call EXCEPT ![t] = call'[t]]
    BY <2>1 DEF SafeInv
  <2>3. /\ tx' = [tx EXCEPT ![t] = tx'[t]] /\ held' = [held EXCEPT ![t] = held'[t]]
        /\ LocksOK(held', db) /\ TxOK(tx'[t], held'[t], db)
    <3>1. CASE End(t)
      BY <3>1, EndFrees, NoTxFacts
    <3>2. CASE UNCHANGED <<held, tx>>
      BY <3>2 DEF SafeInv, LocksOK, ThreadOK
    <3> QED BY <2>1, <3>1, <3>2
  <2>4. ThreadOK(k, tx'[t], held'[t], Trusts[t], db, acked, erased)
    <3> HIDE DEF c, out
    <3> QED BY <1>1, <1>4, <2>3, FailedOK
  <2> HIDE DEF k
  <2>5. ThreadOK(call'[t], tx'[t], held'[t], Trusts[t], db, acked, erased)
    BY <2>2, <2>4
  <2> QED BY <2>2, <2>3, <2>5, LocalStep
<1> QED BY <1>3, <1>4

-----------------------------------------------------------------------------
\* Calls.

\* Outside a transaction nothing is locked or changed.
LEMMA OutsideOK ==
  ASSUME SafeInv, NEW t \in Threads, call[t].pc \in {"idle", "done", "backoff"}
  PROVE  tx[t] = NoTx /\ held[t] = NoLocks /\ DOMAIN call[t] = CallFields
BY DEF SafeInv, ThreadOK, StatementOK, ArgsOK

\* A thread without a transaction makes a call or ends one.
LEMMA OutsideStep ==
  ASSUME SafeInv, NEW t \in Threads, call[t].pc \in {"idle", "done", "backoff"},
         UNCHANGED <<db, held, tx, acked, erased>>,
         NEW k, call' = [call EXCEPT ![t] = k],
         k.pc \in {"done", "insert", "open", "readParent", "purgeLock"},
         ArgsOK(k), SeenOK(k, acked, erased), AnswerOK(k, Trusts[t])
  PROVE  SafeInv'
<1>1. tx[t] = NoTx /\ held'[t] = NoLocks /\ tx' = [tx EXCEPT ![t] = NoTx]
  BY OutsideOK DEF SafeInv
<1>2. StatementOK(k, NoTx, held'[t], db)
  BY <1>1 DEF StatementOK
<1> QED BY <1>1, <1>2, NoTxFacts, StatementStep

\* A call as it is made, before its checks.
Fresh(c, op, id, ack, er) ==
  /\ DOMAIN c = CallFields /\ c.op = op /\ c.id = id /\ c.try = 0
  /\ c.seen.acked = ack[id] /\ (c.seen.erased => id \in er)

\* ... and after them: the call has failed, or goes on to its first statement.
PutFrom(c, pc, err, r) ==
  IF err # "ok" THEN [c EXCEPT !.pc = pc, !.out = Out(err, Nil)]
  ELSE [c EXCEPT !.pc = "insert", !.rec = Prepared(r)]

ReadFrom(c, pc, id, first) ==
  IF id \in ValidId THEN [c EXCEPT !.pc = first]
  ELSE [c EXCEPT !.pc = pc, !.out = Out("ErrInvalid", Nil)]

\* A Put that was just made, or refused by the checks of Prepare and Verify.
LEMMA FreshPut ==
  ASSUME SafeInv, NEW t \in Threads, NEW r \in Records, NEW c,
         Fresh(c, "put", r.id, acked, erased),
         NEW pc \in {"done", "failed"}, pc = "done" <=> c.own,
         NEW err, err = AdmissionError(r, Trusts[t])
  PROVE  LET k == PutFrom(c, pc, err, r) IN
         /\ k.pc \in {pc, "insert"} /\ k.op = "put"
         /\ ArgsOK(k) /\ SeenOK(k, acked, erased) /\ AnswerOK(k, Trusts[t])
<1> DEFINE out == Out(err, Nil)
           k == PutFrom(c, pc, err, r)
<1>1. r.id \in Id
  BY RowsAssumption
<1>2. CASE err # "ok"
  <2>1. k = [c EXCEPT !.pc = pc, !.out = out]
    BY <1>2 DEF PutFrom
  <2>0. out.err = err
    BY DEF Out
  <2> HIDE DEF out, k
  <2>2. /\ DOMAIN k = CallFields /\ k.op = "put" /\ k.pc = pc /\ k.id = r.id /\ k.try = 0
        /\ k.own = c.own /\ k.out.err # "ok" /\ k.seen = c.seen
    BY <1>2, <2>1, <2>0 DEF Fresh, CallFields
  <2>3. ArgsOK(k) /\ SeenOK(k, acked, erased) /\ AnswerOK(k, Trusts[t])
    BY <1>1, <2>2, IdleFacts DEF ArgsOK, SeenOK, AnswerOK, Putting, Fresh
  <2> QED BY <2>2, <2>3 DEF k
<1>3. CASE err = "ok"
  <2>1. k = [c EXCEPT !.pc = "insert", !.rec = Prepared(r)]
    BY <1>3 DEF PutFrom
  <2>2. Prepared(r) \in AdmissibleRecords[r.id]
    BY <1>1, <1>3 DEF AdmissibleRecords
  <2> HIDE DEF k
  <2>3. /\ DOMAIN k = CallFields /\ k.op = "put" /\ k.pc = "insert" /\ k.id = r.id /\ k.try = 0
        /\ k.rec = Prepared(r) /\ k.seen = c.seen
    BY <2>1 DEF Fresh, CallFields
  <2>4. ArgsOK(k) /\ SeenOK(k, acked, erased) /\ AnswerOK(k, Trusts[t])
    BY <1>1, <2>2, <2>3, IdleFacts DEF ArgsOK, SeenOK, AnswerOK, Fresh
  <2> QED BY <2>3, <2>4 DEF k
<1> QED BY <1>2, <1>3

\* A Get or Purge that was just made.
LEMMA FreshRead ==
  ASSUME SafeInv, NEW t \in Threads, NEW id \in Id, NEW op \in {"get", "purge"}, NEW c,
         Fresh(c, op, id, acked, erased), c.own => ~ c.lock, op = "purge" => c.own,
         NEW pc \in {"done", "open"}, pc = "done" <=> c.own, NEW first,
         first = IF op = "get" THEN "readParent" ELSE "purgeLock"
  PROVE  LET k == ReadFrom(c, pc, id, first) IN
         /\ k.pc \in {pc, first} /\ k.op = op /\ k.own = c.own
         /\ ArgsOK(k) /\ SeenOK(k, acked, erased) /\ AnswerOK(k, Trusts[t])
<1> DEFINE k == ReadFrom(c, pc, id, first)
<1>1. CASE id \notin ValidId
  <2>0. k = [c EXCEPT !.pc = pc, !.out = Out("ErrInvalid", Nil)]
    BY <1>1 DEF ReadFrom
  <2> HIDE DEF k
  <2>1. /\ DOMAIN k = CallFields /\ k.op = op /\ k.pc = pc /\ k.id = id /\ k.try = 0
        /\ k.own = c.own /\ k.lock = c.lock /\ k.out.err = "ErrInvalid" /\ k.seen = c.seen
    BY <2>0 DEF Fresh, CallFields, Out
  <2>2. c.seen.acked = Nil
    BY <1>1, RowFacts DEF SafeInv, HistoryOK, TableOK, Fresh
  <2>3. ArgsOK(k) /\ SeenOK(k, acked, erased)
    BY <2>1, IdleFacts DEF ArgsOK, SeenOK, Fresh
  <2>4. AnswerOK(k, Trusts[t])
    BY <2>1, <2>2 DEF AnswerOK, Answers
  <2> QED BY <2>1, <2>3, <2>4 DEF k
<1>2. CASE id \in ValidId
  <2>0. k = [c EXCEPT !.pc = first]
    BY <1>2 DEF ReadFrom
  <2> HIDE DEF k
  <2>1. /\ DOMAIN k = CallFields /\ k.op = op /\ k.pc = first /\ k.id = id /\ k.try = 0
        /\ k.own = c.own /\ k.lock = c.lock /\ k.seen = c.seen
    BY <2>0 DEF Fresh, CallFields
  <2>2. ArgsOK(k) /\ SeenOK(k, acked, erased) /\ AnswerOK(k, Trusts[t])
    BY <2>1, IdleFacts DEF ArgsOK, SeenOK, AnswerOK, Fresh
  <2> QED BY <2>1, <2>2 DEF k
<1> QED BY <1>1, <1>2

\* Calls that begin a transaction of their own preserve the invariant.
LEMMA CallsSafe ==
  ASSUME SafeInv, NEW t \in Threads,
         PutCall(t) \/ GetCall(t) \/ PurgeCall(t) \/ BeginTx(t)
  PROVE  SafeInv'
<1>1. call[t].pc \in {"idle", "done", "backoff"} /\ UNCHANGED <<db, held, tx, acked, erased>>
  BY DEF PutCall, GetCall, PurgeCall, BeginTx, Ready, history
<1>2. CASE PutCall(t)
  <2>1. PICK r \in Records :
          LET err == AdmissionError(r, Trusts[t])
              c == [Idle EXCEPT !.op = "put", !.id = r.id, !.seen = Seen(r.id)]
          IN  call' = [call EXCEPT ![t] =
                IF err # "ok" THEN [c EXCEPT !.pc = "done", !.out = Out(err, Nil)]
                ELSE [c EXCEPT !.pc = "insert", !.rec = Prepared(r)]]
    BY <1>2 DEF PutCall
  <2> DEFINE c == [Idle EXCEPT !.op = "put", !.id = r.id, !.seen = Seen(r.id)]
             err == AdmissionError(r, Trusts[t])
             k == PutFrom(c, "done", err, r)
  <2>2. Fresh(c, "put", r.id, acked, erased) /\ c.own = TRUE
    BY IdleFacts DEF Fresh, Idle, Seen, CallFields
  <2>3. call' = [call EXCEPT ![t] = k]
    BY <2>1 DEF PutFrom
  <2> HIDE DEF c
  <2>4. /\ k.pc \in {"done", "insert"}
        /\ ArgsOK(k) /\ SeenOK(k, acked, erased) /\ AnswerOK(k, Trusts[t])
    BY <2>2, FreshPut
  <2> HIDE DEF k
  <2> QED BY <1>1, <2>3, <2>4, OutsideStep
<1>3. ASSUME NEW id \in Id, NEW op \in {"get", "purge"}, NEW first,
             first = IF op = "get" THEN "readParent" ELSE "purgeLock",
             call' = [call EXCEPT ![t] =
               ReadFrom([Idle EXCEPT !.op = op, !.id = id, !.seen = Seen(id)], "done", id, first)]
      PROVE  SafeInv'
  <2> DEFINE c == [Idle EXCEPT !.op = op, !.id = id, !.seen = Seen(id)]
             k == ReadFrom(c, "done", id, first)
  <2>1. Fresh(c, op, id, acked, erased) /\ c.own = TRUE /\ c.lock = FALSE
    BY IdleFacts DEF Fresh, Idle, Seen, CallFields
  <2>2. call' = [call EXCEPT ![t] = k]
    BY <1>3
  <2> HIDE DEF c
  <2>3. /\ k.pc \in {"done", first}
        /\ ArgsOK(k) /\ SeenOK(k, acked, erased) /\ AnswerOK(k, Trusts[t])
    BY <1>3, <2>1, FreshRead
  <2> HIDE DEF k
  <2> QED BY <1>1, <1>3, <2>2, <2>3, OutsideStep
<1>4. CASE GetCall(t)
  <2>1. PICK id \in Id : call' = [call EXCEPT ![t] =
          ReadFrom([Idle EXCEPT !.op = "get", !.id = id, !.seen = Seen(id)],
                   "done", id, "readParent")]
    BY <1>4 DEF GetCall, ReadFrom
  <2> QED BY <1>3, <2>1
<1>5. CASE PurgeCall(t)
  <2>1. PICK id \in Id : call' = [call EXCEPT ![t] =
          ReadFrom([Idle EXCEPT !.op = "purge", !.id = id, !.seen = Seen(id)],
                   "done", id, "purgeLock")]
    BY <1>5 DEF PurgeCall, ReadFrom
  <2> QED BY <1>3, <2>1
<1>6. CASE BeginTx(t)
  <2> DEFINE k == [Idle EXCEPT !.op = "tx", !.pc = "open", !.own = FALSE]
  <2>1. /\ DOMAIN k = CallFields /\ k.op = "tx" /\ k.pc = "open" /\ k.own = FALSE
        /\ k.try = 0 /\ k.seen.acked = Nil /\ k.seen.erased = FALSE
    BY DEF Idle, CallFields
  <2>2. call' = [call EXCEPT ![t] = k]
    BY <1>6 DEF BeginTx
  <2> HIDE DEF k
  <2>3. ArgsOK(k) /\ SeenOK(k, acked, erased) /\ AnswerOK(k, Trusts[t])
    BY <2>1, IdleFacts DEF ArgsOK, SeenOK, AnswerOK
  <2> QED BY <1>1, <2>1, <2>2, <2>3, OutsideStep
<1> QED BY <1>2, <1>4, <1>5, <1>6

\* Beginning anew after a deadlock does: the id seen and the record are those of
\* the call.
LEMMA RetrySafe ==
  ASSUME SafeInv, NEW t \in Threads, Retry(t)
  PROVE  SafeInv'
<1> DEFINE c == call[t]
<1>1. c.pc = "backoff" /\ UNCHANGED <<db, held, tx, acked, erased>>
  BY DEF Retry, history
<1>2. ArgsOK(c) /\ SeenOK(c, acked, erased) /\ DOMAIN c = CallFields
  BY InStatementOK
<1>3. c.op = "put" /\ c.own /\ c.id \in Id /\ c.try + 1 \in 0..(MaxAttempts - 1)
      /\ c.rec \in AdmissibleRecords[c.id]
  BY <1>1, <1>2, MysqlAssumption DEF ArgsOK, Putting
<1>4. CASE call' = [call EXCEPT ![t].pc = "insert", ![t].try = @ + 1]
  <2> DEFINE k == [c EXCEPT !.pc = "insert", !.try = @ + 1]
  <2>1. call' = [call EXCEPT ![t] = k]
    BY <1>4
  <2>2. /\ DOMAIN k = CallFields /\ k.op = "put" /\ k.pc = "insert" /\ k.id = c.id
        /\ k.try = c.try + 1 /\ k.rec = c.rec /\ k.own = c.own /\ k.seen = c.seen
    BY <1>2, <1>3 DEF CallFields
  <2> HIDE DEF k, c
  <2>3. ArgsOK(k) /\ SeenOK(k, acked, erased) /\ AnswerOK(k, Trusts[t])
    BY <1>2, <1>3, <2>2 DEF ArgsOK, SeenOK, AnswerOK
  <2> QED BY <1>1, <2>1, <2>2, <2>3, OutsideStep DEF c
<1>5. CASE call' = [call EXCEPT ![t] = Returned(call[t], "done", Out("ErrContext", Nil))]
  <2> DEFINE out == Out("ErrContext", Nil)
             k == Returned(c, "done", out)
  <2>1. call' = [call EXCEPT ![t] = k] /\ out.err # "ok"
    BY <1>5 DEF Out
  <2> HIDE DEF out, c
  <2>2. /\ DOMAIN k = CallFields /\ k.op = c.op /\ k.pc = "done" /\ k.id = c.id
        /\ k.try = 0 /\ k.own = c.own /\ k.seen = c.seen /\ k.out = out
    BY <1>2, ReturnedFields
  <2> HIDE DEF k
  <2>3. ArgsOK(k) /\ SeenOK(k, acked, erased) /\ AnswerOK(k, Trusts[t])
    BY <1>2, <1>3, <2>1, <2>2, IdleFacts DEF ArgsOK, SeenOK, AnswerOK, Putting
  <2> QED BY <1>1, <2>1, <2>2, <2>3, OutsideStep DEF c
<1> QED BY <1>4, <1>5 DEF Retry

\* Transaction y has the rows and answers of x, and may have taken a snapshot.
Same(x, y) ==
  /\ DOMAIN y = TxFields /\ y.work = x.work /\ y.stable = x.stable /\ y.puts = x.puts
  /\ y.snap = x.snap \/ TableOK(y.snap)

\* A transaction that changes no row and keeps its locks keeps its promises.
LEMMA SameKeeps ==
  ASSUME NEW x, NEW y, NEW l, NEW m, NEW d, Same(x, y), TxOK(x, l, d),
         \A id \in Id : l[id] \subseteq m[id]
  PROVE  /\ TxOK(y, m, d) /\ \A c : WorkOK(c, x, d) => WorkOK(c, y, d)
         /\ \A e, id : CurrentIn(y, e, id) = CurrentIn(x, e, id)
<1>1. \A e, id : CurrentIn(y, e, id) = CurrentIn(x, e, id)
  BY DEF Same, CurrentIn
<1>2. \A c : WorkOK(c, x, d) => WorkOK(c, y, d)
  BY DEF Same, WorkOK
<1> QED BY <1>1, <1>2 DEF Same, TxOK

\* Calls inside the caller's transaction preserve the invariant.
LEMMA TxCallsSafe ==
  ASSUME SafeInv, NEW t \in Threads, PutTxCall(t) \/ GetTxCall(t)
  PROVE  SafeInv'
<1> DEFINE x == tx[t]
           y == [x EXCEPT !.ops = @ + 1]
<1>1. /\ call[t].pc = "open" /\ tx' = [tx EXCEPT ![t] = y]
      /\ UNCHANGED <<db, held, acked, erased>>
  BY DEF PutTxCall, GetTxCall, history
<1>2. TxOK(x, held[t], db) /\ WorkOK(call[t], x, db)
  BY InStatementOK
<1>3. Same(x, y)
  BY <1>2 DEF Same, TxOK, TxFields
<1>4. TxOK(y, held'[t], db) /\ WorkOK(call[t], y, db)
  <2> HIDE DEF x, y
  <2> QED BY <1>1, <1>2, <1>3, SameKeeps
<1> HIDE DEF y
<1>5. ASSUME NEW k, call' = [call EXCEPT ![t] = k],
             \/ k.pc \in {"failed", "insert"} /\ k.op = "put"
             \/ k.pc \in {"readParent", "open"} /\ ~ k.own,
             ArgsOK(k), SeenOK(k, acked, erased), AnswerOK(k, Trusts[t])
      PROVE  SafeInv'
  <2>1. WorkOK(k, y, db)
    BY <1>1, <1>4 DEF WorkOK
  <2>2. StatementOK(k, y, held'[t], db)
    BY <1>5 DEF StatementOK
  <2> QED BY <1>1, <1>4, <1>5, <2>1, <2>2, StatementStep
<1>6. CASE PutTxCall(t)
  <2>1. PICK r \in Records :
          LET err == AdmissionError(r, Trusts[t])
              c == [Idle EXCEPT !.op = "put", !.id = r.id, !.own = FALSE, !.seen = Seen(r.id)]
          IN  call' = [call EXCEPT ![t] =
                IF err # "ok" THEN [c EXCEPT !.pc = "failed", !.out = Out(err, Nil)]
                ELSE [c EXCEPT !.pc = "insert", !.rec = Prepared(r)]]
    BY <1>6 DEF PutTxCall
  <2> DEFINE c == [Idle EXCEPT !.op = "put", !.id = r.id, !.own = FALSE, !.seen = Seen(r.id)]
             err == AdmissionError(r, Trusts[t])
             k == PutFrom(c, "failed", err, r)
  <2>2. Fresh(c, "put", r.id, acked, erased) /\ c.own = FALSE
    BY IdleFacts DEF Fresh, Idle, Seen, CallFields
  <2>3. call' = [call EXCEPT ![t] = k]
    BY <2>1 DEF PutFrom
  <2> HIDE DEF c
  <2>4. /\ k.pc \in {"failed", "insert"} /\ k.op = "put"
        /\ ArgsOK(k) /\ SeenOK(k, acked, erased) /\ AnswerOK(k, Trusts[t])
    BY <2>2, FreshPut
  <2> HIDE DEF k
  <2> QED BY <1>5, <2>3, <2>4
<1>7. CASE GetTxCall(t)
  <2>1. PICK id \in Id, lock \in BOOLEAN :
          LET c == [Idle EXCEPT !.op = "get", !.id = id, !.own = FALSE, !.lock = lock,
                                !.seen = Seen(id)]
          IN  call' = [call EXCEPT ![t] =
                IF id \in ValidId THEN [c EXCEPT !.pc = "readParent"]
                ELSE [c EXCEPT !.pc = "open", !.out = Out("ErrInvalid", Nil)]]
    BY <1>7 DEF GetTxCall
  <2> DEFINE c == [Idle EXCEPT !.op = "get", !.id = id, !.own = FALSE, !.lock = lock,
                               !.seen = Seen(id)]
             k == ReadFrom(c, "open", id, "readParent")
  <2>2. Fresh(c, "get", id, acked, erased) /\ c.own = FALSE
    BY IdleFacts DEF Fresh, Idle, Seen, CallFields
  <2>3. call' = [call EXCEPT ![t] = k]
    BY <2>1 DEF ReadFrom
  <2> HIDE DEF c
  <2>4. /\ k.pc \in {"open", "readParent"} /\ k.own = FALSE
        /\ ArgsOK(k) /\ SeenOK(k, acked, erased) /\ AnswerOK(k, Trusts[t])
    BY <2>2, FreshRead
  <2> HIDE DEF k
  <2> QED BY <1>5, <2>3, <2>4
<1> QED BY <1>6, <1>7

-----------------------------------------------------------------------------
\* The INSERTs of Put.

\* A step within the INSERT of the parent row: at most a lock is taken.
LEMMA InsertStep ==
  ASSUME SafeInv, NEW t \in Threads, call[t].op = "put", call[t].pc \in {"insert", "insertWait"},
         UNCHANGED <<db, tx, acked, erased>>,
         \/ held' = held
         \/ /\ LocksOK(held', db) /\ held' = [held EXCEPT ![t] = held'[t]]
            /\ \A j \in Id : held[t][j] \subseteq held'[t][j],
         NEW k, call' = [call EXCEPT ![t] = k],
         k.pc \in {"insert", "insertWait", "readParent"}, k.pc = "readParent" => k.lock,
         DOMAIN k = CallFields, k.op = "put", k.id = call[t].id, k.rec = call[t].rec,
         k.try = call[t].try, k.own = call[t].own, k.seen = call[t].seen
  PROVE  SafeInv'
<1> DEFINE c == call[t]
           x == tx[t]
<1>1. /\ ArgsOK(c) /\ SeenOK(c, acked, erased) /\ WorkOK(c, x, db) /\ TxOK(x, held[t], db)
      /\ tx' = [tx EXCEPT ![t] = x]
  BY InStatementOK DEF SafeInv
<1> HIDE DEF x
<1>2. TxOK(x, held'[t], db)
  BY <1>1 DEF TxOK
<1>3. WorkOK(k, x, db)
  BY <1>1 DEF WorkOK
<1>4. ArgsOK(k) /\ SeenOK(k, acked, erased) /\ AnswerOK(k, Trusts[t])
  BY <1>1 DEF ArgsOK, SeenOK, AnswerOK, Putting
<1>5. StatementOK(k, x, held'[t], db)
  BY DEF StatementOK
<1> QED BY <1>1, <1>2, <1>3, <1>4, <1>5, StatementStep

\* An INSERT that waits, is granted its lock or finds a duplicate changes no
\* row.
LEMMA InsertLocksSafe ==
  ASSUME SafeInv, NEW t \in Threads,
         InsertWait(t) \/ InsertGrant(t) \/ InsertDuplicate(t)
  PROVE  SafeInv'
<1> DEFINE c == call[t]
           wait == [c EXCEPT !.pc = "insertWait"]
           grant == [c EXCEPT !.pc = "insert"]
           read == [c EXCEPT !.pc = "readParent", !.lock = TRUE]
<1>1. /\ c.pc \in {"insert", "insertWait"} /\ UNCHANGED <<db, tx, acked, erased>>
  BY DEF InsertWait, InsertGrant, InsertDuplicate, history
<1>2. ArgsOK(c) /\ DOMAIN c = CallFields /\ c.op = "put" /\ c.id \in Id
  BY <1>1, InStatementOK DEF ArgsOK
<1>3. \A k \in {wait, grant, read} :
        /\ DOMAIN k = CallFields /\ k.op = "put" /\ k.id = c.id /\ k.rec = c.rec
        /\ k.try = c.try /\ k.own = c.own /\ k.seen = c.seen
        /\ k.pc \in {"insert", "insertWait", "readParent"} /\ (k.pc = "readParent" => k.lock)
  BY <1>2 DEF CallFields
<1>4. CASE InsertWait(t)
  <2>1. call' = [call EXCEPT ![t] = wait] /\ held' = held
    BY <1>4 DEF InsertWait
  <2> HIDE DEF wait, grant, read
  <2> QED BY <1>1, <1>2, <1>3, <2>1, InsertStep
<1>5. CASE InsertGrant(t)
  <2>1. /\ call' = [call EXCEPT ![t] = grant] /\ Take(t, c.id, "S")
        /\ c.pc = "insertWait" /\ Blockers(t) = {}
    BY <1>5 DEF InsertGrant
  <2>2. Others(t, c.id, {"X"}) = {}
    BY <2>1, Zenon DEF Blockers
  <2>3. /\ LocksOK(held', db) /\ held' = [held EXCEPT ![t] = held'[t]]
        /\ \A j \in Id : held[t][j] \subseteq held'[t][j]
    BY <1>2, <2>1, <2>2, TakeKeeps
  <2> HIDE DEF wait, grant, read
  <2> QED BY <1>1, <1>2, <1>3, <2>1, <2>3, InsertStep
<1>6. CASE InsertDuplicate(t)
  <2>1. /\ call' = [call EXCEPT ![t] = read] /\ Take(t, c.id, "S")
        /\ Others(t, c.id, {"X"}) = {}
    BY <1>6 DEF InsertDuplicate
  <2>2. /\ LocksOK(held', db) /\ held' = [held EXCEPT ![t] = held'[t]]
        /\ \A j \in Id : held[t][j] \subseteq held'[t][j]
    BY <1>2, <2>1, TakeKeeps
  <2> HIDE DEF wait, grant, read
  <2> QED BY <1>1, <1>2, <1>3, <2>1, <2>2, InsertStep
<1> QED BY <1>4, <1>5, <1>6

\* The parent row is inserted where the exclusive lock keeps the place.
LEMMA InsertParentSafe ==
  ASSUME SafeInv, NEW t \in Threads, InsertParent(t)
  PROVE  SafeInv'
<1> DEFINE c == call[t]
           r == c.rec
           k == [c EXCEPT !.pc = "artifacts", !.next = 1]
           x == tx[t]
           y == [x EXCEPT !.work = [@ EXCEPT ![c.id] = ParentRow(r)]]
<1>1. /\ ArgsOK(c) /\ SeenOK(c, acked, erased) /\ AnswerOK(c, Trusts[t])
      /\ DOMAIN c = CallFields /\ WorkOK(c, x, db) /\ TxOK(x, held[t], db)
      /\ HistoryOK(db, acked, erased)
  BY InStatementOK
<1>2. c.pc = "insert" /\ c.op = "put" /\ c.id \in Id /\ r \in AdmissibleRecords[c.id]
  BY <1>1 DEF InsertParent, ArgsOK, Putting
<1>3. Storable(r) /\ r.id = c.id
  BY <1>2, AdmissibleFacts
<1>4. /\ UNCHANGED <<db, acked, erased>> /\ Others(t, c.id, {"X", "S", "G"}) = {}
      /\ Current(t, c.id) = Nil /\ Take(t, c.id, "X")
      /\ call' = [call EXCEPT ![t] = k] /\ tx' = [tx EXCEPT ![t] = y]
  <2>1. /\ Others(t, r.id, {"X", "S", "G"}) = {} /\ Current(t, r.id) = Nil /\ Take(t, r.id, "X")
        /\ tx' = [tx EXCEPT ![t] = [x EXCEPT !.work = [@ EXCEPT ![r.id] = ParentRow(r)]]]
    BY DEF InsertParent
  <2> QED BY <1>3, <2>1 DEF InsertParent, history
<1>5. x.work[c.id] = Nil /\ db[c.id] = Nil /\ CurrentIn(x, db, c.id) = Nil
  BY <1>4, CurrentIs DEF CurrentIn
<1>6. /\ LocksOK(held', db) /\ held' = [held EXCEPT ![t] = held'[t]] /\ "X" \in held'[t][c.id]
      /\ \A j \in Id : held[t][j] \subseteq held'[t][j]
  BY <1>2, <1>4, Alone, TakeKeeps
<1>7. /\ DOMAIN k = CallFields /\ k.pc = "artifacts" /\ k.op = "put" /\ k.id = c.id /\ k.rec = r
      /\ k.own = c.own /\ k.seen = c.seen /\ k.next = 1 /\ k.try = c.try
  BY <1>1, <1>2 DEF CallFields
<1>8. /\ DOMAIN y = TxFields /\ DOMAIN y.work = Id /\ y.snap = x.snap
      /\ y.stable = x.stable /\ y.puts = x.puts /\ y.work[c.id] = ParentRow(r)
      /\ \A id \in Id : id # c.id => y.work[id] = x.work[id]
  BY <1>1, <1>2 DEF TxOK, TxFields
<1>9. ParentRow(r) = Inserted(r, 0) /\ ParentRow(r) # Nil /\ Len(r.artifacts) \in Nat
  <2>1. Len(r.artifacts) \in Nat
    BY <1>3, InventoryIsSeq DEF Storable, Sound
  <2> QED BY <1>3, <2>1, InsertedRows
<1> HIDE DEF c, r, k, x, y
<1>10. \A q \in y.puts \cup y.stable : q.id # c.id
  BY <1>1, <1>5, <1>8 DEF TxOK
<1>11. \A id \in Id : id # c.id => CurrentIn(y, db, id) = CurrentIn(x, db, id)
  BY <1>8 DEF CurrentIn
<1>12. TxOK(y, held'[t], db)
  BY <1>1, <1>6, <1>8, <1>10, <1>11 DEF TxOK
<1>13. WorkOK(k, y, db)
  BY <1>1, <1>2, <1>7, <1>8 DEF WorkOK
<1>14. ArgsOK(k) /\ SeenOK(k, acked, erased) /\ AnswerOK(k, Trusts[t])
  BY <1>1, <1>2, <1>7 DEF ArgsOK, SeenOK, AnswerOK, Putting
<1>15. ~ c.seen.erased
  BY <1>1, <1>5 DEF SeenOK, HistoryOK
<1>16. StatementOK(k, y, held'[t], db)
  BY <1>5, <1>6, <1>7, <1>8, <1>9, <1>10, <1>15 DEF StatementOK
<1> QED BY <1>4, <1>6, <1>12, <1>13, <1>14, <1>16, StatementStep

\* An artifact row is added to the record being inserted.
LEMMA InsertArtifactSafe ==
  ASSUME SafeInv, NEW t \in Threads, InsertArtifact(t)
  PROVE  SafeInv'
<1> DEFINE c == call[t]
           r == c.rec
           n == c.next
           k == [c EXCEPT !.next = n + 1]
           x == tx[t]
           row == WithRow(x.work[c.id], r.artifacts[n])
           y == [x EXCEPT !.work = [x.work EXCEPT ![c.id] = row]]
<1>1. /\ ArgsOK(c) /\ SeenOK(c, acked, erased) /\ AnswerOK(c, Trusts[t])
      /\ StatementOK(c, x, held[t], db)
      /\ DOMAIN c = CallFields /\ WorkOK(c, x, db) /\ TxOK(x, held[t], db)
  BY InStatementOK
<1>2. /\ c.pc = "artifacts" /\ c.op = "put" /\ c.id \in Id /\ r \in AdmissibleRecords[c.id]
      /\ n \in 1..(Len(r.artifacts) + 1) /\ n <= Len(r.artifacts)
      /\ "X" \in held[t][c.id] /\ db[c.id] = Nil /\ ~ c.seen.erased
      /\ x.work[c.id] = Inserted(r, n - 1)
      /\ \A q \in x.puts \cup x.stable : q.id # c.id
  BY <1>1 DEF InsertArtifact, ArgsOK, StatementOK, Putting
<1>3. Storable(r) /\ r.id = c.id /\ Len(r.artifacts) \in Nat
  BY <1>2, AdmissibleFacts, InventoryIsSeq DEF Storable, Sound
<1>4. /\ UNCHANGED <<db, held, acked, erased>>
      /\ call' = [call EXCEPT ![t] = k] /\ tx' = [tx EXCEPT ![t] = y]
  <2>1. tx' = [tx EXCEPT ![t] =
          [x EXCEPT !.work = [x.work EXCEPT ![r.id] = WithRow(x.work[r.id], r.artifacts[n])]]]
    BY DEF InsertArtifact
  <2> QED BY <1>3, <2>1 DEF InsertArtifact, history
<1>5. /\ DOMAIN k = CallFields /\ k.pc = "artifacts" /\ k.op = "put" /\ k.id = c.id /\ k.rec = r
      /\ k.own = c.own /\ k.seen = c.seen /\ k.next = n + 1 /\ k.try = c.try
  BY <1>1, <1>2 DEF CallFields
<1> HIDE DEF row
<1>6. /\ DOMAIN y = TxFields /\ DOMAIN y.work = Id /\ y.snap = x.snap
      /\ y.stable = x.stable /\ y.puts = x.puts
      /\ y.work[c.id] = row
      /\ \A id \in Id : id # c.id => y.work[id] = x.work[id]
  BY <1>1, <1>2 DEF TxOK, TxFields
<1> HIDE DEF c, k, x, y
<1>7. y.work[c.id] = Inserted(r, n) /\ n \in 1..Len(r.artifacts)
  BY <1>2, <1>3, <1>6, InsertedRows DEF row
<1> HIDE DEF r, n
<1>8. \A id \in Id : id # c.id => CurrentIn(y, db, id) = CurrentIn(x, db, id)
  BY <1>6 DEF CurrentIn
<1>9. TxOK(y, held[t], db)
  BY <1>1, <1>2, <1>6, <1>8 DEF TxOK
<1>10. WorkOK(k, y, db)
  BY <1>1, <1>2, <1>5, <1>6 DEF WorkOK
<1>11. ArgsOK(k) /\ SeenOK(k, acked, erased) /\ AnswerOK(k, Trusts[t])
  BY <1>1, <1>2, <1>5 DEF ArgsOK, SeenOK, AnswerOK, Putting, r
<1>12. k.next \in 1..(Len(r.artifacts) + 1) /\ k.next - 1 = n
  BY <1>3, <1>5, <1>7
<1>13. StatementOK(k, y, held[t], db)
  BY <1>2, <1>5, <1>6, <1>7, <1>12 DEF StatementOK
<1> QED BY <1>4, <1>9, <1>10, <1>11, <1>13, StatementStep

-----------------------------------------------------------------------------
\* The end of a call's statements.

\* No rows but those a commit may leave.
WorkWhole(x, d) ==
  \A id \in Id :
    \/ x.work[id] = Nil
    \/ d[id] = Nil /\ \E p \in AdmissibleRecords[id] : x.work[id] = Whole(p)
    \/ d[id] # Nil /\ x.work[id] = Erased(d[id])

\* A record whose rows t has locked for itself.
LocksRows(t, r) ==
  /\ r.id \in Id /\ "X" \in held[t][r.id] /\ Current(t, r.id) # Nil
  /\ Inventory(Current(t, r.id).rec) = Inventory(r)

\* A call that succeeds answers what its locks keep true.
LEMMA SucceedsSafe ==
  ASSUME SafeInv, NEW t \in Threads, call[t].pc \in {"artifacts", "readArtifacts"},
         UNCHANGED <<db, held, acked, erased>>,
         NEW out, NEW stable, NEW puts, out.err = "ok", Succeeds(t, out, stable, puts),
         WorkWhole(tx[t], db), \A r \in stable \cup puts : LocksRows(t, r),
         \A r \in stable : Current(t, r.id).rec = r,
         \A r \in puts : r \in AdmissibleRecords[r.id],
         call[t].op = "put" /\ call[t].seen.erased => Originals(call[t].rec) = {},
         call[t].op = "get" /\ (call[t].own \/ call[t].lock) => Answers(call[t], Trusts[t], out)
  PROVE  SafeInv'
<1> DEFINE c == call[t]
           k == IF c.own THEN [c EXCEPT !.pc = "commit", !.out = out]
                ELSE Returned(c, "open", out)
           x == tx[t]
           y == [x EXCEPT !.stable = @ \cup stable, !.puts = @ \cup puts]
<1>1. /\ ArgsOK(c) /\ SeenOK(c, acked, erased) /\ DOMAIN c = CallFields
      /\ TxOK(x, held[t], db) /\ 0 \in 0..(MaxAttempts - 1)
  BY InStatementOK, IdleFacts
<1>2. c.op \in {"put", "get"} /\ (c.op = "put" => c.rec \in AdmissibleRecords[c.id])
  BY <1>1 DEF ArgsOK, Putting
<1>3. call' = [call EXCEPT ![t] = k]
  BY DEF Succeeds
<1>4. tx' = [tx EXCEPT ![t] = y]
  BY DEF Succeeds
<1>5. /\ DOMAIN y = TxFields /\ y.work = x.work /\ y.snap = x.snap
      /\ y.stable = x.stable \cup stable /\ y.puts = x.puts \cup puts
  BY <1>1 DEF TxOK, TxFields
<1>6. /\ DOMAIN k = CallFields /\ k.pc \in {"commit", "open"} /\ (k.pc = "commit" <=> c.own)
      /\ k.op = c.op /\ k.id = c.id /\ k.own = c.own /\ k.lock = c.lock /\ k.seen = c.seen
      /\ k.out = out /\ k.try \in {0, c.try} /\ (c.op = "put" => k.rec = c.rec)
  <2>1. CASE c.own
    <3>1. k = [c EXCEPT !.pc = "commit", !.out = out]
      BY <2>1
    <3> HIDE DEF k
    <3> QED BY <1>1, <2>1, <3>1 DEF CallFields
  <2>2. CASE ~ c.own
    <3>1. k = Returned(c, "open", out)
      BY <2>2
    <3> HIDE DEF k
    <3> QED BY <1>1, <2>2, <3>1, ReturnedFields
  <2> QED BY <2>1, <2>2
<1>7. /\ \A r \in stable \cup puts :
           /\ r.id \in Id /\ "X" \in held[t][r.id] /\ CurrentIn(x, db, r.id) # Nil
           /\ Inventory(CurrentIn(x, db, r.id).rec) = Inventory(r)
      /\ \A r \in stable : CurrentIn(x, db, r.id).rec = r
  BY CurrentIs DEF LocksRows
<1>8. Answers(c, Trusts[t], out) => Answers(k, Trusts[t], out)
  BY <1>6 DEF Answers, Knows
<1> HIDE DEF c, k, x, y
<1>9. \A id \in Id : CurrentIn(y, db, id) = CurrentIn(x, db, id)
  BY <1>5 DEF CurrentIn
<1>10. TxOK(y, held[t], db)
  <2>1. \A r \in y.stable \cup y.puts :
          /\ r.id \in Id /\ "X" \in held[t][r.id] /\ CurrentIn(y, db, r.id) # Nil
          /\ Inventory(CurrentIn(y, db, r.id).rec) = Inventory(r)
    BY <1>1, <1>5, <1>7, <1>9 DEF TxOK
  <2>2. \A r \in y.stable : r.id \in Id /\ CurrentIn(y, db, r.id).rec = r
    BY <1>1, <1>5, <1>7, <1>9 DEF TxOK
  <2>3. \A r \in y.puts : r \in AdmissibleRecords[r.id]
    BY <1>1, <1>5 DEF TxOK
  <2> QED BY <1>1, <1>5, <2>1, <2>2, <2>3 DEF TxOK
<1>11. WorkOK(k, y, db)
  BY <1>5 DEF WorkWhole, WorkOK, x
<1>12. ArgsOK(k) /\ SeenOK(k, acked, erased)
  BY <1>1, <1>2, <1>6 DEF ArgsOK, SeenOK
<1>13. AnswerOK(k, Trusts[t])
  BY <1>2, <1>6, <1>8 DEF AnswerOK, c
<1>14. StatementOK(k, y, held[t], db)
  BY <1>2, <1>6 DEF StatementOK
<1> QED BY <1>3, <1>4, <1>10, <1>11, <1>12, <1>13, <1>14, StatementStep

\* After the last artifact row the record is whole.
LEMMA InsertDoneSafe ==
  ASSUME SafeInv, NEW t \in Threads, InsertDone(t)
  PROVE  SafeInv'
<1> DEFINE c == call[t]
           r == c.rec
           x == tx[t]
<1>1. /\ ArgsOK(c) /\ StatementOK(c, x, held[t], db) /\ WorkOK(c, x, db)
  BY InStatementOK
<1>2. /\ c.pc = "artifacts" /\ c.op = "put" /\ c.id \in Id /\ r \in AdmissibleRecords[c.id]
      /\ c.next \in 1..(Len(r.artifacts) + 1) /\ c.next > Len(r.artifacts)
      /\ "X" \in held[t][c.id] /\ db[c.id] = Nil /\ ~ c.seen.erased
      /\ x.work[c.id] = Inserted(r, c.next - 1)
  BY <1>1 DEF InsertDone, ArgsOK, StatementOK, Putting
<1>3. Storable(r) /\ r.id = c.id /\ Len(r.artifacts) \in Nat
  BY <1>2, AdmissibleFacts, InventoryIsSeq DEF Storable, Sound
<1>4. x.work[c.id] = Whole(r) /\ Whole(r) # Nil
  <2>1. c.next - 1 = Len(r.artifacts) /\ Len(r.artifacts) \in 0..Len(r.artifacts)
    <3> DEFINE n == c.next
               m == Len(r.artifacts)
    <3>1. n \in 1..(m + 1) /\ n > m /\ m \in Nat
      BY <1>2, <1>3
    <3> HIDE DEF n, m
    <3>2. n - 1 = m /\ m \in 0..m
      BY <3>1
    <3> QED BY <3>2 DEF n, m
  <2> HIDE DEF c, r, x
  <2>2. Inserted(r, c.next - 1) = Whole(r) /\ Inserted(r, c.next - 1) # Nil
    BY <1>3, <2>1, InsertedRows
  <2> QED BY <1>2, <2>2
<1>5. Succeeds(t, Out("ok", Nil), {r}, {r}) /\ UNCHANGED <<db, held, acked, erased>>
  BY DEF InsertDone, history
<1>6. WorkWhole(x, db)
  BY <1>1, <1>2, <1>4 DEF WorkOK, WorkWhole
<1>7. LocksRows(t, r) /\ Current(t, r.id).rec = r
  <2>1. Current(t, r.id) = Whole(r)
    BY <1>3, <1>4 DEF Current
  <2> QED BY <1>2, <1>3, <1>4, <2>1 DEF LocksRows, Whole
<1>8. Out("ok", Nil).err = "ok"
  BY DEF Out
<1> HIDE DEF r
<1>9. /\ \A q \in {r} \cup {r} : LocksRows(t, q)
      /\ \A q \in {r} : Current(t, q.id).rec = q
      /\ \A q \in {r} : q \in AdmissibleRecords[q.id]
  BY <1>2, <1>3, <1>7
<1> QED BY <1>2, <1>5, <1>6, <1>8, <1>9, SucceedsSafe DEF r

-----------------------------------------------------------------------------
\* read.

\* A statement of read finds row, for the call c, and its transaction goes on.
LEMMA ReadStep ==
  ASSUME SafeInv, NEW t \in Threads, call[t].pc = "readParent", UNCHANGED <<db, acked, erased>>,
         NEW y, Same(tx[t], y), tx' = [tx EXCEPT ![t] = y],
         \/ held' = held
         \/ /\ LocksOK(held', db) /\ held' = [held EXCEPT ![t] = held'[t]]
            /\ \A j \in Id : held[t][j] \subseteq held'[t][j],
         NEW row, row # Nil, NEW k, k = [call[t] EXCEPT !.pc = "readArtifacts", !.row = row],
         call' = [call EXCEPT ![t] = k],
         call[t].own \/ call[t].lock => row \in RowStates(call[t].id) /\ Knows(call[t], row.rec),
         call[t].lock => "X" \in held'[t][call[t].id] /\ row = CurrentIn(y, db, call[t].id),
         ~ call[t].lock => y.snap # Nil /\ row = CurrentIn(y, y.snap, call[t].id)
  PROVE  SafeInv'
<1> DEFINE c == call[t]
           x == tx[t]
<1>1. /\ ArgsOK(c) /\ SeenOK(c, acked, erased) /\ DOMAIN c = CallFields
      /\ WorkOK(c, x, db) /\ TxOK(x, held[t], db)
  BY InStatementOK
<1>2. /\ DOMAIN k = CallFields /\ k.pc = "readArtifacts" /\ k.rec = c.rec /\ k.row = row
      /\ k.op = c.op /\ k.id = c.id /\ k.own = c.own /\ k.lock = c.lock /\ k.seen = c.seen
      /\ k.try = c.try
  BY <1>1 DEF CallFields
<1>3. \A j \in Id : held[t][j] \subseteq held'[t][j]
  OBVIOUS
<1> DEFINE m == held'[t]
           l == held[t]
<1>4. TxOK(y, m, db) /\ WorkOK(c, y, db)
  <2> HIDE DEF c, x, l, m
  <2> QED BY <1>1, <1>3, SameKeeps DEF l, m, x
<1>5. WorkOK(k, y, db)
  BY <1>2, <1>4 DEF WorkOK
<1>6. ArgsOK(k) /\ SeenOK(k, acked, erased)
  BY <1>1, <1>2 DEF ArgsOK, SeenOK, Putting
<1>7. AnswerOK(k, Trusts[t])
  BY <1>2 DEF AnswerOK, Knows
<1>8. StatementOK(k, y, m, db)
  BY <1>2 DEF StatementOK
<1> HIDE DEF m
<1> QED BY <1>4, <1>5, <1>6, <1>7, <1>8, StatementStep DEF m

\* A GetTx of the caller returns without a record; its transaction goes on.
LEMMA NothingFoundStep ==
  ASSUME SafeInv, NEW t \in Threads, call[t].pc \in {"readParent", "readArtifacts"},
         call[t].op = "get", ~ call[t].own, UNCHANGED <<db, acked, erased>>,
         NEW y, Same(tx[t], y), tx' = [tx EXCEPT ![t] = y],
         \/ held' = held
         \/ /\ LocksOK(held', db) /\ held' = [held EXCEPT ![t] = held'[t]]
            /\ \A j \in Id : held[t][j] \subseteq held'[t][j],
         NEW err, err # "ok",
         call' = [call EXCEPT ![t] = Returned(call[t], "open", Out(err, Nil))],
         call[t].lock => Answers(call[t], Trusts[t], Out(err, Nil))
  PROVE  SafeInv'
<1> DEFINE c == call[t]
           x == tx[t]
           out == Out(err, Nil)
           k == Returned(c, "open", out)
<1>1. /\ ArgsOK(c) /\ SeenOK(c, acked, erased) /\ DOMAIN c = CallFields
      /\ WorkOK(c, x, db) /\ TxOK(x, held[t], db) /\ 0 \in 0..(MaxAttempts - 1)
  BY InStatementOK, IdleFacts
<1>2. /\ DOMAIN k = CallFields /\ k.pc = "open" /\ k.op = c.op /\ k.id = c.id /\ k.own = c.own
      /\ k.lock = c.lock /\ k.seen = c.seen /\ k.try = 0 /\ k.out = out
  <2> HIDE DEF c, out
  <2> QED BY <1>1, ReturnedFields
<1>3. call' = [call EXCEPT ![t] = k] /\ (c.lock => Answers(c, Trusts[t], out))
  OBVIOUS
<1>4. \A j \in Id : held[t][j] \subseteq held'[t][j]
  OBVIOUS
<1> DEFINE m == held'[t]
           l == held[t]
<1> HIDE DEF k, out
<1>5. TxOK(y, m, db) /\ WorkOK(c, y, db)
  <2> HIDE DEF c, x, l, m
  <2> QED BY <1>1, <1>4, SameKeeps DEF l, m, x
<1>6. WorkOK(k, y, db)
  BY <1>5 DEF WorkOK
<1>7. ArgsOK(k) /\ SeenOK(k, acked, erased)
  BY <1>1, <1>2 DEF ArgsOK, SeenOK, Putting
<1>8. AnswerOK(k, Trusts[t])
  BY <1>2, <1>3 DEF AnswerOK, Answers, Knows
<1>9. StatementOK(k, y, m, db)
  BY <1>2 DEF StatementOK
<1> HIDE DEF m
<1> QED BY <1>3, <1>5, <1>6, <1>7, <1>8, <1>9, StatementStep DEF m

\* Reading the parent row, with or without its lock.
LEMMA ReadParentSafe ==
  ASSUME SafeInv, NEW t \in Threads, ReadParent(t)
  PROVE  SafeInv'
<1> DEFINE c == call[t]
           id == c.id
           x == tx[t]
           row == IF c.lock THEN Current(t, id) ELSE Visible(t, id)
           y == [x EXCEPT !.snap = IF c.lock THEN @ ELSE SnapshotOf(t)]
           k == [c EXCEPT !.pc = "readArtifacts", !.row = row]
           gone == Returned(c, "open", Out("ErrNotFound", Nil))
<1>1. /\ ArgsOK(c) /\ SeenOK(c, acked, erased) /\ StatementOK(c, x, held[t], db)
      /\ DOMAIN c = CallFields /\ WorkOK(c, x, db) /\ TxOK(x, held[t], db)
      /\ TableOK(db) /\ HistoryOK(db, acked, erased)
  BY InStatementOK
<1>2. /\ c.pc = "readParent" /\ Blockers(t) = {} /\ c.id \in Id /\ c.op \in {"put", "get"}
      /\ (c.op = "put" => c.lock) /\ (c.op = "get" /\ c.own => ~ c.lock)
      /\ UNCHANGED <<db, acked, erased>>
  BY <1>1 DEF ReadParent, ArgsOK, history
<1>3. TableOK(SnapshotOf(t)) /\ SnapshotOf(t) # Nil
  BY <1>1, TableFacts DEF SnapshotOf, TxOK
<1>4. Same(x, y) /\ y.snap = IF c.lock THEN x.snap ELSE SnapshotOf(t)
  BY <1>1, <1>3 DEF Same, TxOK, TxFields
<1>5. \A e : CurrentIn(y, e, c.id) = CurrentIn(x, e, c.id)
  BY <1>4 DEF Same, CurrentIn
<1>6. row = IF c.lock THEN CurrentIn(x, db, c.id) ELSE CurrentIn(x, SnapshotOf(t), c.id)
  BY CurrentIs
\* What is read is the newest row, or the committed one.
<1>7. c.own \/ c.lock =>
        /\ row \in RowStates(c.id)
        /\ acked[c.id] # Nil => row # Nil /\ Recalls(row.rec, acked[c.id])
        /\ c.id \in erased => row # Nil /\ Originals(row.rec) = {}
  <2>1. c.own /\ ~ c.lock => row = CurrentIn(x, db, c.id)
    BY <1>1, <1>2, <1>6, NoTxFacts DEF StatementOK, SnapshotOf
  <2> DEFINE cell == CurrentIn(x, db, c.id)
             i == c.id
  <2>2. /\ cell \in RowStates(i)
        /\ acked[i] # Nil => cell # Nil /\ Recalls(cell.rec, acked[i])
        /\ i \in erased => cell # Nil /\ Originals(cell.rec) = {}
    <3> HIDE DEF c, x
    <3> QED BY <1>1, <1>2, CurrentRow
  <2> HIDE DEF cell
  <2> QED BY <1>6, <2>1, <2>2 DEF cell
<1>8. c.own \/ c.lock =>
        /\ row # Nil => Knows(c, row.rec)
        /\ row = Nil => c.seen.acked = Nil
  BY <1>1, <1>7 DEF SeenOK, Knows
<1>10. CASE row = Nil /\ (c.own \/ c.op = "put")
  <2>1. Fails(t, "ErrNotFound")
    BY <1>10 DEF ReadParent
  <2>2. c.op = "get" /\ c.own => Answers(c, Trusts[t], Out("ErrNotFound", Nil))
    BY <1>8, <1>10 DEF Answers, Out
  <2> QED BY <1>2, <2>1, <2>2, FailsSafe DEF InTx
<1>11. ASSUME ~ (row = Nil /\ (c.own \/ c.op = "put"))
       PROVE  /\ tx' = [tx EXCEPT ![t] = y]
              /\ call' = [call EXCEPT ![t] = IF row = Nil THEN gone ELSE k]
              /\ c.lock => Take(t, c.id, IF row = Nil THEN "G" ELSE "X")
              /\ ~ c.lock => held' = held
  BY <1>11 DEF ReadParent
<1>12. c.lock => IF row = Nil THEN Others(t, c.id, {"X"}) = {}
                 ELSE Others(t, c.id, {"S", "X"}) = {}
  BY <1>2, Zenon DEF Blockers
<1>13. ASSUME c.lock, ~ (row = Nil /\ (c.own \/ c.op = "put"))
       PROVE  /\ LocksOK(held', db) /\ held' = [held EXCEPT ![t] = held'[t]]
              /\ \A j \in Id : held[t][j] \subseteq held'[t][j]
              /\ row # Nil => "X" \in held'[t][c.id]
  <2>1. CASE row = Nil
    <3>1. db[c.id] = Nil
      BY <1>6, <1>13, <2>1 DEF CurrentIn
    <3>2. Take(t, c.id, "G") /\ Others(t, c.id, {"X"}) = {}
      BY <1>11, <1>12, <1>13, <2>1
    <3> HIDE DEF row
    <3> QED BY <1>2, <2>1, <3>1, <3>2, TakeKeeps
  <2>2. CASE row # Nil
    <3>1. Take(t, c.id, "X") /\ Others(t, c.id, {"S", "X"}) = {} /\ Current(t, c.id) # Nil
      BY <1>11, <1>12, <1>13, <2>2
    <3>2. \A u \in Threads : u # t => held[u][c.id] = {}
      BY <1>2, <3>1, Alone
    <3> HIDE DEF row
    <3> QED BY <1>2, <3>1, <3>2, TakeKeeps
  <2> QED BY <2>1, <2>2
<1> HIDE DEF row, x, y
<1>14. CASE row = Nil /\ ~ (c.own \/ c.op = "put")
  <2>1. c.lock => Answers(c, Trusts[t], Out("ErrNotFound", Nil))
    BY <1>8, <1>14 DEF Answers, Out
  <2>2. call' = [call EXCEPT ![t] = gone] /\ tx' = [tx EXCEPT ![t] = y] /\ Same(tx[t], y)
    BY <1>4, <1>11, <1>14 DEF x
  <2>3. \/ held' = held
        \/ /\ LocksOK(held', db) /\ held' = [held EXCEPT ![t] = held'[t]]
           /\ \A j \in Id : held[t][j] \subseteq held'[t][j]
    BY <1>11, <1>13, <1>14
  <2> QED BY <1>2, <1>14, <2>1, <2>2, <2>3, NothingFoundStep
<1>15. CASE row # Nil
  <2>1. call' = [call EXCEPT ![t] = k] /\ tx' = [tx EXCEPT ![t] = y] /\ Same(tx[t], y)
    BY <1>4, <1>11, <1>15 DEF x
  <2>2. \/ held' = held
        \/ /\ LocksOK(held', db) /\ held' = [held EXCEPT ![t] = held'[t]]
           /\ \A j \in Id : held[t][j] \subseteq held'[t][j]
    BY <1>11, <1>13, <1>15
  <2>3. c.lock => "X" \in held'[t][c.id] /\ row = CurrentIn(y, db, c.id)
    BY <1>5, <1>6, <1>13, <1>15
  <2>4. ~ c.lock => y.snap # Nil /\ row = CurrentIn(y, y.snap, c.id)
    BY <1>3, <1>4, <1>5, <1>6
  <2> QED BY <1>2, <1>7, <1>8, <1>15, <2>1, <2>2, <2>3, <2>4, ReadStep
<1> QED BY <1>10, <1>14, <1>15

\* A read that is refused changes nothing.
LEMMA RefusesSafe ==
  ASSUME SafeInv, NEW t \in Threads, call[t].pc = "readArtifacts",
         UNCHANGED <<db, acked, erased>>, NEW err, err # "ok", Refuses(t, err),
         call[t].op = "get" /\ (call[t].own \/ call[t].lock) =>
           Answers(call[t], Trusts[t], Out(err, Nil))
  PROVE  SafeInv'
<1> DEFINE c == call[t]
<1>1. ArgsOK(c) /\ TxOK(tx[t], held[t], db)
  BY InStatementOK
<1>2. CASE c.own \/ c.op = "put"
  <2>1. Fails(t, err)
    BY <1>2 DEF Refuses
  <2> QED BY <2>1, FailsSafe DEF InTx
<1>3. CASE ~ (c.own \/ c.op = "put")
  <2>1. /\ call' = [call EXCEPT ![t] = Returned(c, "open", Out(err, Nil))]
        /\ UNCHANGED <<held, tx>>
    BY <1>3 DEF Refuses
  <2>2. c.op = "get"
    BY <1>1, <1>3 DEF ArgsOK
  <2>3. Same(tx[t], tx[t])
    BY <1>1 DEF Same, TxOK
  <2>4. tx' = [tx EXCEPT ![t] = tx[t]]
    BY <2>1 DEF SafeInv
  <2> QED BY <1>3, <2>1, <2>2, <2>3, <2>4, NothingFoundStep
<1> QED BY <1>2, <1>3

\* Reading the artifact rows: comparing a retry, or verifying for Get.
LEMMA ReadArtifactsSafe ==
  ASSUME SafeInv, NEW t \in Threads, ReadArtifacts(t)
  PROVE  SafeInv'
<1> DEFINE c == call[t]
           x == tx[t]
           row == c.row
           rows == IF c.lock THEN Current(t, c.id) ELSE Visible(t, c.id)
           old == ReadResult(row, rows, Trusts[t])
           err == IF c.op = "put" THEN DuplicateError(c.rec, old) ELSE old.err
           mine == c.own \/ c.lock
<1>1. /\ ArgsOK(c) /\ AnswerOK(c, Trusts[t]) /\ SeenOK(c, acked, erased)
      /\ StatementOK(c, x, held[t], db) /\ TxOK(x, held[t], db) /\ WorkOK(c, x, db)
      /\ TableOK(db) /\ HistoryOK(db, acked, erased)
  BY InStatementOK
<1>2. /\ c.pc = "readArtifacts" /\ c.op \in {"put", "get"} /\ c.id \in Id
      /\ (c.op = "put" => c.lock /\ c.rec \in AdmissibleRecords[c.id])
      /\ row # Nil /\ (mine => row \in RowStates(c.id))
      /\ (c.lock => "X" \in held[t][c.id] /\ row = CurrentIn(x, db, c.id))
      /\ (~ c.lock => x.snap # Nil /\ row = CurrentIn(x, x.snap, c.id))
      /\ UNCHANGED <<db, acked, erased>>
  BY <1>1 DEF ReadArtifacts, ArgsOK, StatementOK, Putting, history
<1>3. rows = row
  BY <1>2, CurrentIs DEF SnapshotOf
<1>4. mine => /\ row.rec.id = c.id /\ Sound(row.rec)
              /\ old = IF row.rec.envelope.key \in Trusts[t] THEN Out("ok", row.rec)
                       ELSE Out("ErrUntrustedSigner", Nil)
  <2> SUFFICES ASSUME mine
               PROVE  /\ row.rec.id = c.id /\ Sound(row.rec)
                      /\ ReadResult(row, row, Trusts[t]) =
                           IF row.rec.envelope.key \in Trusts[t] THEN Out("ok", row.rec)
                           ELSE Out("ErrUntrustedSigner", Nil)
    BY <1>3
  <2> HIDE DEF c, row, mine
  <2> QED BY <1>2, RowFacts
<1> HIDE DEF rows
<1>5. Out("ok", row.rec).err = "ok" /\ Out("ok", row.rec).rec = row.rec
      /\ Out("ErrUntrustedSigner", Nil).err = "ErrUntrustedSigner"
  BY DEF Out
<1>6. WorkWhole(x, db)
  BY <1>1, <1>2 DEF WorkOK, WorkWhole
<1>7. c.op = "get" /\ mine => Knows(c, row.rec)
  BY <1>1, <1>2 DEF AnswerOK
<1>8. c.op = "get" /\ mine => Answers(c, Trusts[t], old)
  <2> SUFFICES ASSUME c.op = "get", mine PROVE Answers(c, Trusts[t], old)
    OBVIOUS
  <2>1. Knows(c, row.rec)
    BY <1>7
  <2>2. c.seen.acked # Nil => row.rec.envelope = c.seen.acked.envelope
    BY <2>1, RecallsEnvelope DEF Knows
  <2>3. old.err \in {"ok", "ErrUntrustedSigner"} /\ (old.err = "ok" => old.rec = row.rec)
        /\ (old.err = "ok" <=> row.rec.envelope.key \in Trusts[t])
    BY <1>4, <1>5
  <2> HIDE DEF old, row, c
  <2> QED BY <2>1, <2>2, <2>3 DEF Answers
<1>9. CASE err # "ok"
  <2>1. Refuses(t, err)
    BY <1>9 DEF ReadArtifacts, rows
  <2>2. c.op = "get" /\ mine => Answers(c, Trusts[t], Out(err, Nil))
    <3> SUFFICES ASSUME c.op = "get", mine PROVE Answers(c, Trusts[t], Out(err, Nil))
      OBVIOUS
    <3>1. err = old.err /\ err # "ok" /\ Answers(c, Trusts[t], old)
      BY <1>8, <1>9
    <3> HIDE DEF err, old, c
    <3>2. Out(err, Nil).err = err
      BY DEF Out
    <3> QED BY <3>1, <3>2 DEF Answers
  <2> HIDE DEF err
  <2> QED BY <1>2, <1>9, <2>1, <2>2, RefusesSafe
<1>10. CASE err = "ok" /\ c.op = "put"
  <2> DEFINE r == c.rec
  <2>1. Succeeds(t, Out("ok", Nil), {old.rec}, {r}) /\ held' = held
    BY <1>10 DEF ReadArtifacts, rows
  <2>2. Storable(r) /\ r.id = c.id
    BY <1>2, <1>10, AdmissibleFacts
  <2>3. old = Out("ok", row.rec)
    <3>1. old.err = "ok"
      BY <1>10 DEF DuplicateError
    <3> HIDE DEF old
    <3> QED BY <1>2, <1>4, <1>5, <1>10, <3>1
  <2>4. Inventory(row.rec) = Inventory(r)
    <3>1. DuplicateError(r, Out("ok", row.rec)) = "ok"
      BY <1>10, <2>3
    <3> HIDE DEF r, row, old
    <3> QED BY <1>2, <1>4, <1>10, <2>2, <3>1, RetryIsStored
  <2>5. Current(t, c.id) = row
    BY <1>2, <1>10, CurrentIs
  <2>6. LocksRows(t, r) /\ LocksRows(t, row.rec) /\ Current(t, row.rec.id).rec = row.rec
    BY <1>2, <1>4, <1>10, <2>2, <2>4, <2>5 DEF LocksRows
  <2>7. c.seen.erased => Originals(r) = {}
    <3> SUFFICES ASSUME c.seen.erased PROVE Originals(row.rec) = {}
      BY <2>4, RowsDetermine
    <3>1. c.id \in erased
      BY <1>1 DEF SeenOK
    <3> DEFINE cell == CurrentIn(x, db, c.id)
    <3>2. Originals(cell.rec) = {}
      <4> HIDE DEF c, x
      <4> QED BY <1>1, <1>2, <3>1, CurrentRow
    <3> QED BY <1>2, <1>10, <3>2
  <2>8. Out("ok", Nil).err = "ok" /\ old.rec = row.rec
    BY <1>5, <2>3 DEF Out
  <2> HIDE DEF r, row, old, err
  <2>9. /\ \A q \in {old.rec} \cup {r} : LocksRows(t, q)
        /\ \A q \in {old.rec} : Current(t, q.id).rec = q
        /\ \A q \in {r} : q \in AdmissibleRecords[q.id]
    BY <1>2, <1>10, <2>2, <2>6, <2>8 DEF r
  <2> QED BY <1>2, <1>6, <1>10, <2>1, <2>7, <2>8, <2>9, SucceedsSafe DEF r
<1>11. CASE err = "ok" /\ c.op = "get"
  <2> DEFINE stable == IF c.lock THEN {old.rec} ELSE {}
  <2>1. Succeeds(t, old, stable, {}) /\ held' = held /\ old.err = "ok"
    BY <1>11 DEF ReadArtifacts, rows
  <2>2. ASSUME NEW q \in stable
        PROVE  LocksRows(t, q) /\ Current(t, q.id).rec = q
    <3>1. c.lock /\ q = old.rec
      BY <2>2
    <3>2. Current(t, c.id) = row
      BY <1>2, <3>1, CurrentIs
    <3>3. old.rec = row.rec
      BY <1>4, <1>5, <2>1, <3>1
    <3> HIDE DEF old, row
    <3> QED BY <1>2, <1>4, <3>1, <3>2, <3>3 DEF LocksRows
  <2> HIDE DEF old, stable, err
  <2>3. /\ \A q \in stable \cup {} : LocksRows(t, q)
        /\ \A q \in stable : Current(t, q.id).rec = q
        /\ \A q \in {} : q \in AdmissibleRecords[q.id]
    BY <2>2
  <2>4. c.op # "put"
    BY <1>11
  <2> QED BY <1>2, <1>6, <1>8, <1>11, <2>1, <2>3, <2>4, SucceedsSafe
<1> QED BY <1>2, <1>9, <1>10, <1>11

-----------------------------------------------------------------------------
\* Purge.

\* SELECT ... FOR UPDATE of Purge.
LEMMA PurgeLockSafe ==
  ASSUME SafeInv, NEW t \in Threads, PurgeLock(t)
  PROVE  SafeInv'
<1> DEFINE c == call[t]
           k == [c EXCEPT !.pc = "purgeUpdate"]
           x == tx[t]
           m == held'[t]
<1>1. /\ ArgsOK(c) /\ SeenOK(c, acked, erased) /\ StatementOK(c, x, held[t], db)
      /\ DOMAIN c = CallFields
  BY InStatementOK
<1>2. /\ c.pc = "purgeLock" /\ c.op = "purge" /\ c.own /\ c.id \in Id /\ x = NoTx
      /\ Blockers(t) = {} /\ UNCHANGED <<db, acked, erased>>
  BY <1>1 DEF PurgeLock, ArgsOK, StatementOK, history
<1>3. CASE Current(t, c.id) = Nil
  <2>1. Fails(t, "ErrNotFound")
    BY <1>3 DEF PurgeLock
  <2> QED BY <1>2, <2>1, FailsSafe DEF InTx
<1>4. CASE Current(t, c.id) # Nil
  <2>1. call' = [call EXCEPT ![t] = k] /\ Take(t, c.id, "X") /\ tx' = [tx EXCEPT ![t] = NoTx]
    BY <1>2, <1>4 DEF PurgeLock, SafeInv
  <2>2. Others(t, c.id, {"S", "X"}) = {}
    BY <1>2, <1>4, Zenon DEF Blockers
  <2>3. \A u \in Threads : u # t => held[u][c.id] = {}
    BY <1>2, <1>4, <2>2, Alone
  <2>4. LocksOK(held', db) /\ held' = [held EXCEPT ![t] = m] /\ "X" \in m[c.id]
    BY <1>2, <2>1, <2>3, TakeKeeps
  <2>5. db[c.id] # Nil
    BY <1>2, <1>4, NoTxFacts DEF Current
  <2>6. /\ DOMAIN k = CallFields /\ k.pc = "purgeUpdate" /\ k.try = c.try
        /\ k.op = c.op /\ k.id = c.id /\ k.own = c.own /\ k.seen = c.seen
    BY <1>1 DEF CallFields
  <2> HIDE DEF k, c
  <2>7. ArgsOK(k) /\ SeenOK(k, acked, erased) /\ AnswerOK(k, Trusts[t])
    BY <1>1, <1>2, <2>6 DEF ArgsOK, SeenOK, AnswerOK
  <2>8. StatementOK(k, NoTx, m, db)
    BY <1>2, <2>4, <2>5, <2>6 DEF StatementOK
  <2> QED BY <1>2, <2>1, <2>4, <2>7, <2>8, NoTxFacts, StatementStep
<1> QED BY <1>3, <1>4

\* The UPDATE erases every original of the row it has locked.
LEMMA PurgeUpdateSafe ==
  ASSUME SafeInv, NEW t \in Threads, PurgeUpdate(t)
  PROVE  SafeInv'
<1> DEFINE c == call[t]
           row == Erased(Current(t, c.id))
           k == [c EXCEPT !.pc = "commit", !.out = Out("ok", Nil)]
           x == tx[t]
           y == [x EXCEPT !.work = [@ EXCEPT ![c.id] = row]]
           l == held[t]
<1>1. /\ ArgsOK(c) /\ SeenOK(c, acked, erased) /\ StatementOK(c, x, l, db)
      /\ DOMAIN c = CallFields
  BY InStatementOK
<1>2. /\ c.pc = "purgeUpdate" /\ c.op = "purge" /\ c.own /\ c.id \in Id
      /\ x = NoTx /\ "X" \in l[c.id] /\ db[c.id] # Nil
  BY <1>1 DEF PurgeUpdate, ArgsOK, StatementOK
<1>3. /\ UNCHANGED <<db, held, acked, erased>>
      /\ call' = [call EXCEPT ![t] = k] /\ tx' = [tx EXCEPT ![t] = y]
  BY DEF PurgeUpdate, history
<1>4. row = Erased(db[c.id])
  BY <1>2, NoTxFacts DEF Current
<1> HIDE DEF row
<1>5. /\ DOMAIN y = TxFields /\ DOMAIN y.work = Id /\ y.snap = Nil
      /\ y.stable = {} /\ y.puts = {} /\ y.work[c.id] = row
      /\ \A id \in Id : id # c.id => y.work[id] = Nil
  BY <1>2 DEF NoTx, TxFields
<1>6. /\ DOMAIN k = CallFields /\ k.pc = "commit" /\ k.try = c.try
      /\ k.op = c.op /\ k.id = c.id /\ k.own = c.own /\ k.seen = c.seen
  BY <1>1 DEF CallFields
<1> HIDE DEF k, x, y, c
<1>7. TxOK(y, l, db)
  BY <1>2, <1>5 DEF TxOK
<1>8. WorkOK(k, y, db)
  BY <1>2, <1>4, <1>5 DEF WorkOK
<1>9. ArgsOK(k) /\ SeenOK(k, acked, erased) /\ AnswerOK(k, Trusts[t])
  BY <1>1, <1>2, <1>6 DEF ArgsOK, SeenOK, AnswerOK
<1>10. StatementOK(k, y, l, db)
  BY <1>2, <1>4, <1>5, <1>6 DEF StatementOK
<1> QED BY <1>3, <1>7, <1>8, <1>9, <1>10, StatementStep

-----------------------------------------------------------------------------
\* Statements that fail.

\* A Get of the store reads without locks: it waits for nobody.
LEMMA FailuresSafe ==
  ASSUME SafeInv, NEW t \in Threads, Deadlock(t) \/ StatementFails(t)
  PROVE  SafeInv'
<1> DEFINE c == call[t]
<1>1. ArgsOK(c) /\ AnswerOK(c, Trusts[t])
  BY InStatementOK
<1>2. c.pc \in InTx /\ UNCHANGED <<db, acked, erased>>
  BY DEF Deadlock, StatementFails, InStatement, InTx, history
<1>3. CASE Deadlock(t)
  <2>1. Fails(t, "1213") /\ Blockers(t) # {}
    BY <1>3 DEF Deadlock, InWaitCycle
  <2>2. ASSUME c.op = "get", c.own PROVE FALSE
    <3>1. c.pc \in {"readParent", "readArtifacts"} /\ ~ c.lock
      BY <1>1, <1>2, <2>2 DEF ArgsOK, InTx
    <3>2. c.pc \notin {"insertWait", "insert", "purgeLock"}
      BY <3>1
    <3>3. Blockers(t) = {}
      BY <3>1, <3>2, Zenon DEF Blockers
    <3> QED BY <2>1, <3>3
  <2> QED BY <1>2, <2>1, <2>2, FailsSafe
<1>4. CASE StatementFails(t)
  <2>1. Fails(t, "ErrIO")
    BY <1>4 DEF StatementFails
  <2>2. Answers(c, Trusts[t], Out("ErrIO", Nil))
    BY DEF Answers, Out
  <2> QED BY <1>2, <2>1, <2>2, FailsSafe
<1> QED BY <1>3, <1>4

-----------------------------------------------------------------------------
\* The end of a transaction.

\* The caller's commit makes whole records visible and gives the locks up.
LEMMA CallerCommitSafe ==
  ASSUME SafeInv, NEW t \in Threads, CallerCommit(t)
  PROVE  SafeInv'
<1> DEFINE c == call[t]
           k == [Idle EXCEPT !.op = "tx", !.pc = "commit", !.own = FALSE, !.out = Out("ok", Nil)]
           x == tx[t]
<1>1. /\ c.pc = "open" /\ call' = [call EXCEPT ![t] = k]
      /\ UNCHANGED <<db, held, tx, acked, erased>>
  BY DEF CallerCommit, history
<1>2. WorkOK(c, x, db) /\ TxOK(x, held[t], db)
  BY InStatementOK
<1>3. tx' = [tx EXCEPT ![t] = x]
  BY <1>1 DEF SafeInv
<1>4. /\ DOMAIN k = CallFields /\ k.op = "tx" /\ k.pc = "commit" /\ k.own = FALSE
      /\ k.try = 0 /\ k.seen.acked = Nil /\ k.seen.erased = FALSE
  BY DEF Idle, CallFields
<1> HIDE DEF c, k, x
<1>5. ArgsOK(k) /\ SeenOK(k, acked, erased) /\ AnswerOK(k, Trusts[t])
  BY <1>4, IdleFacts DEF ArgsOK, SeenOK, AnswerOK
<1>6. StatementOK(k, x, held[t], db)
  BY <1>4 DEF StatementOK
<1>7. WorkOK(k, x, db)
  BY <1>1, <1>2 DEF WorkOK
<1> QED BY <1>1, <1>2, <1>3, <1>5, <1>6, <1>7, StatementStep

\* The caller's rollback leaves the committed rows alone.
LEMMA CallerRollbackSafe ==
  ASSUME SafeInv, NEW t \in Threads, CallerRollback(t)
  PROVE  SafeInv'
<1>1. /\ End(t) /\ call' = [call EXCEPT ![t] = Idle] /\ UNCHANGED <<db, acked, erased>>
  BY DEF CallerRollback, history
<1>2. call'[t] = Idle /\ call' = [call EXCEPT ![t] = call'[t]]
  BY <1>1 DEF SafeInv
<1>3. ThreadOK(call'[t], tx'[t], held'[t], Trusts[t], db, acked, erased)
  BY <1>1, <1>2, EndFrees, IdleOK
<1> QED BY <1>1, <1>2, <1>3, EndFrees, LocalStep

\* The rows after t's transaction is committed.
Outcome(t) == [id \in Id |-> CurrentIn(tx[t], db, id)]

\* What a commit makes of the rows.
LEMMA OutcomeOK ==
  ASSUME SafeInv, NEW t \in Threads, call[t].pc = "commit"
  PROVE  LET d == Outcome(t) IN
         /\ TableOK(d) /\ HistoryOK(d, acked, erased)
         /\ \A id \in Id : d[id] = CurrentIn(tx[t], db, id)
         /\ \A id \in Id : d[id] # db[id] => "X" \in held[t][id]
         /\ \A id \in Id :
              \/ d[id] = db[id]
              \/ db[id] = Nil /\ \E p \in AdmissibleRecords[id] : d[id] = Whole(p)
              \/ db[id] # Nil /\ d[id] = Erased(db[id])
<1> DEFINE x == tx[t]
           d == Outcome(t)
<1>1. /\ TableOK(db) /\ HistoryOK(db, acked, erased)
      /\ TxOK(x, held[t], db) /\ WorkOK(call[t], x, db)
  BY InStatementOK
<1>2. d = [id \in Id |-> IF x.work[id] # Nil THEN x.work[id] ELSE db[id]]
  BY DEF Outcome, CurrentIn
<1> HIDE DEF x, d
<1>3. d = [id \in Id |-> d[id]]
  BY <1>2
<1>4. ASSUME NEW id \in Id
      PROVE  \/ d[id] = db[id]
             \/ db[id] = Nil /\ \E p \in AdmissibleRecords[id] : d[id] = Whole(p)
             \/ db[id] # Nil /\ d[id] = Erased(db[id])
  BY <1>1, <1>2 DEF WorkOK
<1>5. ASSUME NEW id \in Id
      PROVE  /\ d[id] \in RowStates(id)
             /\ db[id] # Nil => d[id] # Nil
             /\ \A a : db[id] # Nil /\ Recalls(db[id].rec, a) => Recalls(d[id].rec, a)
             /\ db[id] # Nil /\ Originals(db[id].rec) = {} => Originals(d[id].rec) = {}
  <2>1. db[id] \in RowStates(id)
    BY <1>1 DEF TableOK
  <2>2. CASE d[id] = db[id]
    BY <2>1, <2>2
  <2>3. ASSUME db[id] = Nil, NEW p \in AdmissibleRecords[id], d[id] = Whole(p)
        PROVE  d[id] \in RowStates(id)
    BY <2>3 DEF RowStates, WholeCells
  <2>4. ASSUME db[id] # Nil, d[id] = Erased(db[id])
        PROVE  /\ d[id] \in RowStates(id) /\ d[id] # Nil /\ Originals(d[id].rec) = {}
               /\ \A a : Recalls(db[id].rec, a) => Recalls(d[id].rec, a)
    <3> DEFINE cell == db[id]
    <3>1. cell \in RowStates(id) /\ cell # Nil /\ d[id] = Erased(cell)
      BY <2>1, <2>4
    <3> HIDE DEF cell
    <3> DEFINE e == Erased(cell)
    <3>2. e \in RowStates(id) /\ e # Nil /\ Originals(e.rec) = {}
      BY <3>1, RowFacts
    <3>3. ASSUME NEW a, Recalls(cell.rec, a) PROVE Recalls(e.rec, a)
      BY <3>1, <3>3, RowFacts
    <3>4. d[id] = e
      BY <3>1
    <3> HIDE DEF e
    <3> QED BY <3>2, <3>3, <3>4 DEF cell
  <2> QED BY <1>4, <2>2, <2>3, <2>4
<1>6. TableOK(d)
  BY <1>3, <1>5 DEF TableOK
<1>7. HistoryOK(d, acked, erased)
  BY <1>1, <1>5 DEF HistoryOK
<1>8. \A id \in Id : d[id] = CurrentIn(x, db, id)
  BY <1>2 DEF CurrentIn
<1>9. \A id \in Id : d[id] # db[id] => "X" \in held[t][id]
  BY <1>1, <1>2 DEF TxOK
<1> QED BY <1>4, <1>6, <1>7, <1>8, <1>9 DEF d, x

\* A transaction ends and may have changed the rows it has locked exclusively.
LEMMA CommitStep ==
  ASSUME SafeInv, NEW t \in Threads, call[t].pc = "commit", End(t), NEW out,
         call' = [call EXCEPT ![t] = Returned(call[t], "done", out)],
         out = call[t].out \/ out = Out("ErrIO", Nil),
         TableOK(db'), HistoryOK(db', acked', erased'),
         \A id \in Id : db'[id] # db[id] => "X" \in held[t][id],
         \A id \in Id : acked[id] # Nil => acked'[id] = acked[id], erased \subseteq erased'
  PROVE  SafeInv'
<1> DEFINE c == call[t]
           k == Returned(c, "done", out)
<1>1. /\ tx'[t] = NoTx /\ tx' = [tx EXCEPT ![t] = tx'[t]]
      /\ held'[t] = NoLocks /\ held' = [held EXCEPT ![t] = held'[t]]
      /\ LocksOK(held', db)
  BY EndFrees
<1>2. ThreadOK(c, tx[t], held[t], Trusts[t], db, acked, erased)
  BY DEF SafeInv
<1>3. AnswerOK(c, Trusts[t]) /\ ArgsOK(c)
  BY <1>2 DEF ThreadOK
<1>4. /\ c.op = "get" => c.own
      /\ c.op = "get" /\ c.own => Answers(c, Trusts[t], out)
      /\ c.op = "put" /\ out.err = "ok" /\ c.seen.erased => Originals(c.rec) = {}
  <2>1. CASE out = c.out
    BY <1>3, <2>1 DEF AnswerOK, ArgsOK
  <2>2. CASE out = Out("ErrIO", Nil)
    BY <1>3, <2>2 DEF Answers, Out, ArgsOK
  <2> QED BY <2>1, <2>2
<1>5. call'[t] = k /\ \A u \in Threads : u # t => call'[u] = call[u]
  BY DEF SafeInv
<1> HIDE DEF c, k
<1>6. ThreadOK(k, NoTx, NoLocks, Trusts[t], db, acked, erased)
  BY <1>2, <1>4, DoneOK DEF k
<1>7. ThreadOK(k, NoTx, NoLocks, Trusts[t], db', acked', erased')
  <2>1. \A id \in Id : NoLocks[id] = {}
    BY DEF NoLocks
  <2> QED BY <1>6, <2>1, OthersKeep
<1>8. \A u \in Threads, id \in Id : u # t /\ held[u][id] # {} => db'[id] = db[id]
  BY DEF SafeInv, LocksOK
<1>9. ASSUME NEW u \in Threads
      PROVE  ThreadOK(call'[u], tx'[u], held'[u], Trusts[u], db', acked', erased')
  <2>1. CASE u = t
    BY <1>1, <1>5, <1>7, <2>1
  <2>2. CASE u # t
    <3> DEFINE cu == call[u]
               xu == tx[u]
               lu == held[u]
    <3>1. call'[u] = cu /\ tx'[u] = xu /\ held'[u] = lu
      BY <1>1, <1>5, <2>2 DEF SafeInv, LocksOK
    <3>2. /\ ThreadOK(cu, xu, lu, Trusts[u], db, acked, erased)
          /\ \A id \in Id : lu[id] # {} => db'[id] = db[id]
      BY <1>8, <2>2 DEF SafeInv
    <3> HIDE DEF cu, xu, lu
    <3>3. ThreadOK(cu, xu, lu, Trusts[u], db', acked', erased')
      BY <3>2, OthersKeep
    <3> QED BY <3>1, <3>3
  <2> QED BY <2>1, <2>2
<1>10. LocksOK(held', db')
  <2>1. ASSUME NEW u \in Threads, NEW id \in Id, "G" \in held'[u][id]
        PROVE  db'[id] = Nil
    <3>1. u # t
      BY <1>1, <2>1 DEF NoLocks
    <3>2. held'[u] = held[u]
      BY <1>1, <3>1 DEF SafeInv, LocksOK
    <3>3. db[id] = Nil /\ held[u][id] # {}
      BY <2>1, <3>2 DEF SafeInv, LocksOK
    <3> QED BY <1>8, <3>1, <3>3
  <2> QED BY <1>1, <2>1 DEF LocksOK
<1>11. call' = [u \in Threads |-> call'[u]] /\ tx' = [u \in Threads |-> tx'[u]]
  BY <1>1 DEF SafeInv
<1> QED BY <1>9, <1>10, <1>11 DEF SafeInv

\* A commit installs the changed rows, and only those.
LEMMA ApplyIs ==
  ASSUME NEW t, Apply(t)
  PROVE  db' = Outcome(t)
BY DEF Apply, Outcome, CurrentIn

\* The commit of a call's own transaction preserves the invariant.
LEMMA CommitSafe ==
  ASSUME SafeInv, NEW t \in Threads, Commit(t)
  PROVE  SafeInv'
<1> DEFINE c == call[t]
           x == tx[t]
           d == Outcome(t)
<1>1. /\ c.pc = "commit" /\ db' = d /\ End(t)
      /\ call' = [call EXCEPT ![t] = Returned(c, "done", c.out)]
      /\ erased' = IF c.op = "purge" THEN erased \cup {c.id} ELSE erased
  BY ApplyIs DEF Commit
<1>2. acked' = [id \in Id |->
        IF acked[id] = Nil /\ {r \in x.puts : r.id = id} # {}
        THEN CHOOSE r \in {r \in x.puts : r.id = id} : TRUE ELSE acked[id]]
  BY DEF Commit
<1>3. /\ ArgsOK(c) /\ TxOK(x, held[t], db) /\ StatementOK(c, x, held[t], db)
      /\ TableOK(db) /\ HistoryOK(db, acked, erased)
  BY InStatementOK
<1>4. /\ TableOK(d) /\ HistoryOK(d, acked, erased)
      /\ \A id \in Id : d[id] = CurrentIn(x, db, id)
      /\ \A id \in Id : d[id] # db[id] => "X" \in held[t][id]
  BY <1>1, OutcomeOK
<1> HIDE DEF c, x, d
<1>5. ASSUME NEW id \in Id
      PROVE  \/ acked'[id] = acked[id]
             \/ acked[id] = Nil /\ \E r \in x.puts : r.id = id /\ acked'[id] = r
  <2> DEFINE puts == {r \in x.puts : r.id = id}
  <2>1. acked'[id] = IF acked[id] = Nil /\ puts # {} THEN CHOOSE r \in puts : TRUE ELSE acked[id]
    BY <1>2
  <2>2. puts # {} => (CHOOSE r \in puts : TRUE) \in puts
    OBVIOUS
  <2> QED BY <2>1, <2>2
<1>6. ASSUME NEW id \in Id, acked'[id] # Nil
      PROVE  d[id] # Nil /\ Recalls(d[id].rec, acked'[id])
  <2>1. CASE acked'[id] = acked[id]
    BY <1>4, <1>6, <2>1 DEF HistoryOK
  <2>2. ASSUME NEW r \in x.puts, r.id = id, acked'[id] = r
        PROVE  d[id] # Nil /\ Recalls(d[id].rec, acked'[id])
    <3>1. /\ CurrentIn(x, db, id) # Nil
          /\ Inventory(CurrentIn(x, db, id).rec) = Inventory(r)
      BY <1>3, <2>2 DEF TxOK
    <3>2. d[id] # Nil /\ Inventory(d[id].rec) = Inventory(r)
      BY <1>4, <3>1
    <3> QED BY <2>2, <3>2, RowsDetermine
  <2> QED BY <1>5, <2>1, <2>2
<1>7. c.op = "purge" => c.id \in Id /\ d[c.id] # Nil /\ Originals(d[c.id].rec) = {}
  <2> SUFFICES ASSUME c.op = "purge"
               PROVE  c.id \in Id /\ d[c.id] # Nil /\ Originals(d[c.id].rec) = {}
    OBVIOUS
  <2>1. c.id \in Id /\ db[c.id] # Nil /\ x.work[c.id] = Erased(db[c.id])
    BY <1>1, <1>3 DEF ArgsOK, StatementOK
  <2>2. Erased(db[c.id]) # Nil /\ Originals(Erased(db[c.id]).rec) = {}
    <3> DEFINE cell == db[c.id]
    <3>1. cell \in RowStates(c.id) /\ cell # Nil
      BY <1>3, <2>1 DEF TableOK
    <3> HIDE DEF cell
    <3>2. Erased(cell) # Nil /\ Originals(Erased(cell).rec) = {}
      BY <2>1, <3>1, RowFacts
    <3> QED BY <3>2 DEF cell
  <2> QED BY <1>4, <2>1, <2>2 DEF CurrentIn
<1>8. HistoryOK(d, acked', erased')
  <2>1. acked' = [id \in Id |-> acked'[id]]
    BY <1>2
  <2> QED BY <1>1, <1>4, <1>6, <1>7, <2>1 DEF HistoryOK
<1>9. erased \subseteq erased' /\ \A id \in Id : acked[id] # Nil => acked'[id] = acked[id]
  BY <1>1, <1>5
<1>10. /\ call[t].pc = "commit" /\ TableOK(db') /\ HistoryOK(db', acked', erased')
       /\ \A id \in Id : db'[id] # db[id] => "X" \in held[t][id]
       /\ call' = [call EXCEPT ![t] = Returned(call[t], "done", call[t].out)]
  BY <1>1, <1>4, <1>8 DEF c
<1> QED BY <1>1, <1>9, <1>10, CommitStep

\* So does one whose answer is lost, whichever way it went.
LEMMA CommitLostSafe ==
  ASSUME SafeInv, NEW t \in Threads, CommitLost(t)
  PROVE  SafeInv'
<1>1. /\ call[t].pc = "commit" /\ db' \in {db, Outcome(t)} /\ End(t)
      /\ call' = [call EXCEPT ![t] = Returned(call[t], "done", Out("ErrIO", Nil))]
      /\ acked' = acked /\ erased' = erased
  BY ApplyIs DEF CommitLost, history
<1>2. /\ TableOK(db') /\ HistoryOK(db', acked', erased')
      /\ \A id \in Id : db'[id] # db[id] => "X" \in held[t][id]
  <2>1. TableOK(db) /\ HistoryOK(db, acked, erased)
    BY InStatementOK
  <2>2. /\ TableOK(Outcome(t)) /\ HistoryOK(Outcome(t), acked, erased)
        /\ \A id \in Id : Outcome(t)[id] # db[id] => "X" \in held[t][id]
    BY <1>1, OutcomeOK
  <2> QED BY <1>1, <2>1, <2>2
<1> QED BY <1>1, <1>2, CommitStep

-----------------------------------------------------------------------------
\* The invariant holds before any call.
LEMMA SafeInvInit == Init => SafeInv
<1> SUFFICES ASSUME Init PROVE SafeInv
  OBVIOUS
<1>1. TableOK(db) /\ HistoryOK(db, acked, erased)
  BY DEF Init, TableOK, RowStates, HistoryOK
<1>2. \A t \in Threads : ThreadOK(call[t], tx[t], held[t], Trusts[t], db, acked, erased)
  BY IdleOK DEF Init
<1>3. LocksOK(held, db)
  BY DEF Init, LocksOK, NoLocks
<1>4. call = [t \in Threads |-> call[t]] /\ tx = [t \in Threads |-> tx[t]]
  BY DEF Init
<1> QED BY <1>1, <1>2, <1>3, <1>4 DEF SafeInv

\* Every step preserves the invariant.
LEMMA SafeInvStep == SafeInv /\ [Next]_vars => SafeInv'
<1> SUFFICES ASSUME SafeInv, [Next]_vars PROVE SafeInv'
  OBVIOUS
<1>1. CASE UNCHANGED vars
  BY <1>1 DEF vars, history, SafeInv
<1>2. ASSUME NEW t \in Threads,
             PutCall(t) \/ GetCall(t) \/ PurgeCall(t) \/ BeginTx(t) \/ CallerStep(t)
      PROVE  SafeInv'
  BY <1>2, CallsSafe, TxCallsSafe, CallerCommitSafe, CallerRollbackSafe DEF CallerStep
<1>3. ASSUME NEW t \in Threads, Statement(t) \/ CommitLost(t) \/ StatementFails(t)
      PROVE  SafeInv'
  BY <1>3, InsertLocksSafe, InsertParentSafe, InsertArtifactSafe, InsertDoneSafe,
     ReadParentSafe, ReadArtifactsSafe, PurgeLockSafe, PurgeUpdateSafe, RetrySafe,
     FailuresSafe, CommitSafe, CommitLostSafe DEF Statement
<1> QED BY <1>1, <1>2, <1>3 DEF Next

\* Every state of every behaviour, whatever the schedule, the deadlock victims
\* and the connections lost, satisfies the invariant.
THEOREM SafeInvariant == Spec => []SafeInv
BY SafeInvInit, SafeInvStep, PTL DEF Spec

-----------------------------------------------------------------------------
\* The properties of MysqlStore.

\* A call that has returned, and a Put that waits to begin anew, holds no lock
\* and has no transaction, and Put's attempts stay below MaxAttempts.
THEOREM TypeCorrect == Spec => []TypeOK
<1> SUFFICES ASSUME SafeInv PROVE TypeOK
  BY SafeInvariant, PTL
<1>1. \A id \in Id : db[id] # Nil => db[id].rec.id = id
  BY RowFacts DEF SafeInv, TableOK
<1>2. held \in [Threads -> [Id -> SUBSET {"S", "X", "G"}]] /\ erased \subseteq Id
  BY DEF SafeInv, LocksOK, HistoryOK
<1>3. ASSUME NEW t \in Threads
      PROVE  /\ call[t].try \in 0..(MaxAttempts - 1)
             /\ Ready(t) \/ call[t].pc = "backoff" => tx[t] = NoTx /\ held[t] = NoLocks
  BY OutsideOK, InStatementOK DEF ArgsOK, Ready
<1> QED BY <1>1, <1>2, <1>3 DEF TypeOK

\* No committed record lacks an artifact row or has one too many, whichever
\* statement failed, was chosen as a deadlock victim or lost its connection.
THEOREM AllCommittedWhole == Spec => []CommittedWhole
<1> SUFFICES ASSUME SafeInv PROVE CommittedWhole
  BY SafeInvariant, PTL
<1> QED BY RowFacts DEF CommittedWhole, SafeInv, TableOK

\* The row locks a PutTx or a locking GetTx leaves behind keep its answer true
\* until the caller's transaction ends.
THEOREM ReadsStable == Spec => []StableUntilCommit
<1> SUFFICES ASSUME SafeInv PROVE StableUntilCommit
  BY SafeInvariant, PTL
<1>1. \A t \in Threads : TxOK(tx[t], held[t], db)
  BY InStatementOK
<1> QED BY <1>1, CurrentIs DEF StableUntilCommit, TxOK

\* A Get sees every Put acknowledged before it, on whatever connection.
THEOREM ReadsYourWrites == Spec => []ReadYourWrites
<1> SUFFICES ASSUME SafeInv PROVE ReadYourWrites
  BY SafeInvariant, PTL
<1> SUFFICES ASSUME NEW t \in Threads, Answered(t, "get"), call[t].own \/ call[t].lock,
                    call[t].seen.acked # Nil, call[t].out.err # "ErrIO"
             PROVE  IF call[t].seen.acked.envelope.key \in Trusts[t]
                    THEN /\ call[t].out.err = "ok"
                         /\ StorageChecksum(call[t].out.rec) = StorageChecksum(call[t].seen.acked)
                         /\ Originals(call[t].out.rec) \in {Originals(call[t].seen.acked), {}}
                    ELSE call[t].out.err = "ErrUntrustedSigner"
  BY DEF ReadYourWrites
<1>1. AnswerOK(call[t], Trusts[t])
  BY InStatementOK
<1> QED BY <1>1 DEF Answered, AnswerOK, Answers, Knows, Recalls

\* No original outlives its acknowledged Purge, in the rows or in an answer.
THEOREM ErasureHolds == Spec => []ErasedStaysErased
<1> SUFFICES ASSUME SafeInv PROVE ErasedStaysErased
  BY SafeInvariant, PTL
<1>1. \A t \in Threads : AnswerOK(call[t], Trusts[t])
  BY InStatementOK
<1>2. \A id \in erased : Originals(db[id].rec) = {}
  BY DEF SafeInv, HistoryOK
<1> QED BY <1>1, <1>2 DEF ErasedStaysErased, Answered, AnswerOK, Answers, Knows

-----------------------------------------------------------------------------
\* The contract's Tombstoned is the store's: both are that of Artifact.
LEMMA SameTombstoned ==
  ASSUME NEW r
  PROVE  Abstract!Tombstoned(r) = Tombstoned(r)
BY DEF Abstract!Tombstoned, Tombstoned, Abstract!Tombstone, Tombstone,
       Abstract!WithArtifacts, WithArtifacts, Abstract!WithContent, WithContent,
       Abstract!Present, Present, Abstract!Purged, Purged

\* A commit is a step of the contract.
LEMMA CommitRefines ==
  ASSUME SafeInv, NEW t \in Threads, call[t].pc = "commit", db' \in {db, Outcome(t)}
  PROVE  Abstract!Next
<1> DEFINE S(d) == [id \in Id |-> IF d[id] = Nil THEN Nil ELSE d[id].rec]
<1>1. Stored = S(db) /\ Stored' = S(db')
  BY DEF Stored
<1>2. TableOK(db)
  BY InStatementOK
<1>3. ASSUME NEW id \in Id
      PROVE  \/ db'[id] = db[id]
             \/ db[id] = Nil /\ \E p \in AdmissibleRecords[id] : db'[id] = Whole(p)
             \/ db[id] # Nil /\ db'[id] = Erased(db[id])
  BY OutcomeOK
<1>4. ASSUME NEW id \in Id
      PROVE  Abstract!Admit(id) \/ Abstract!Erase(id) \/ Stored'[id] = Stored[id]
  <2>1. CASE db'[id] = db[id]
    BY <1>1, <2>1
  <2>2. ASSUME db[id] = Nil, NEW p \in AdmissibleRecords[id], db'[id] = Whole(p)
        PROVE  Abstract!Admit(id)
    <3>1. Whole(p) # Nil /\ Whole(p).rec = p
      BY AdmissibleFacts, WholeCell DEF Whole, WholeCells
    <3>2. Stored[id] = Nil /\ Stored'[id] = p
      BY <1>1, <2>2, <3>1
    <3> QED BY <3>2 DEF Abstract!Admit
  <2>3. ASSUME db[id] # Nil, db'[id] = Erased(db[id])
        PROVE  Abstract!Erase(id)
    <3> DEFINE cell == db[id]
    <3>1. cell \in RowStates(id) /\ cell # Nil /\ db'[id] = Erased(cell)
      BY <1>2, <2>3 DEF TableOK
    <3> HIDE DEF cell
    <3>2. Erased(cell) # Nil /\ Erased(cell).rec = Tombstoned(cell.rec) /\ cell.rec # Nil
      BY <3>1, RowFacts
    <3>3. Stored[id] = cell.rec /\ Stored'[id] = Tombstoned(cell.rec)
      BY <1>1, <3>1, <3>2 DEF cell
    <3> QED BY <3>2, <3>3, SameTombstoned DEF Abstract!Erase
  <2> QED BY <1>3, <2>1, <2>2, <2>3
<1>5. Stored' = [id \in Id |-> Stored'[id]]
  BY <1>1
<1> QED BY <1>4, <1>5 DEF Abstract!Next

\* MysqlStore implements the contract of ArtifactStore: a commit, and one whose
\* answer was lost, admits and erases whole records; no other step changes what
\* is stored.
THEOREM StoreRefines == Spec => ImplementsStore
<1>1. Init => Abstract!Init
  BY DEF Init, Stored, Abstract!Init
<1>2. SafeInv /\ [Next]_vars => [Abstract!Next]_Stored
  <2> SUFFICES ASSUME SafeInv, [Next]_vars PROVE [Abstract!Next]_Stored
    OBVIOUS
  <2>1. CASE db' = db
    BY <2>1 DEF Stored
  <2>2. ASSUME NEW t \in Threads, Commit(t) \/ CommitLost(t)
        PROVE  Abstract!Next
    BY <2>2, ApplyIs, CommitRefines DEF Commit, CommitLost
  <2>3. CASE UNCHANGED vars
    BY <2>1, <2>3 DEF vars
  <2>4. ASSUME NEW t \in Threads,
               \/ PutCall(t) \/ GetCall(t) \/ PurgeCall(t) \/ BeginTx(t) \/ CallerStep(t)
               \/ InsertWait(t) \/ InsertGrant(t) \/ InsertDuplicate(t) \/ InsertParent(t)
               \/ InsertArtifact(t) \/ InsertDone(t) \/ ReadParent(t) \/ ReadArtifacts(t)
               \/ PurgeLock(t) \/ PurgeUpdate(t) \/ Retry(t) \/ Deadlock(t)
               \/ StatementFails(t)
        PROVE  db' = db
    BY <2>4 DEF PutCall, GetCall, PurgeCall, BeginTx, CallerStep, PutTxCall, GetTxCall,
       CallerCommit, CallerRollback, InsertWait, InsertGrant, InsertDuplicate, InsertParent,
       InsertArtifact, InsertDone, ReadParent, ReadArtifacts, PurgeLock, PurgeUpdate, Retry,
       Deadlock, StatementFails
  <2> QED BY <2>1, <2>2, <2>3, <2>4 DEF Next, Statement
<1> QED BY <1>1, <1>2, SafeInvariant, PTL DEF Spec, ImplementsStore, Abstract!Spec

-----------------------------------------------------------------------------
\* What the contract compares of records is what the store's own definitions do.
LEMMA SameContent ==
  ASSUME NEW r
  PROVE  /\ Abstract!StorageChecksum(r) = StorageChecksum(r)
         /\ Abstract!Originals(r) = Originals(r)
BY DEF Abstract!StorageChecksum, StorageChecksum, Abstract!ChecksumRow, ChecksumRow,
       Abstract!Originals, Originals, Abstract!WithArtifacts, WithArtifacts,
       Abstract!WithContent, WithContent, Abstract!Present, Present, Abstract!Purged, Purged

\* What is stored is made of admitted records.
StoredStable == \A id \in Id : Stored[id] = Nil \/ Stable(Stored[id])

\* Put admits sound records only: Prepare and Verify precede it.
LEMMA AdmissibleStable ==
  ASSUME NEW id \in Id, NEW p \in AdmissibleRecords[id]
  PROVE  Stable(p)
<1>1. PICK r \in Records, t \in Threads :
        p = Prepared(r) /\ AdmissionError(r, Trusts[t]) = "ok"
  BY DEF AdmissibleRecords
<1>2. Sound(p) /\ Nil \notin {p, Tombstoned(p)}
  BY <1>1, AdmittedIsSound, RowsAssumption
<1> QED BY <1>2 DEF Stable

\* A step of the contract is, under each id, one of its changes.
LEMMA ContractStep ==
  ASSUME StoredStable, [Abstract!Next]_Stored, NEW id \in Id
  PROVE  /\ Stored'[id] = Nil \/ Stable(Stored'[id])
         /\ Stored[id] # Nil =>
              /\ Stored'[id] # Nil
              /\ StorageChecksum(Stored'[id]) = StorageChecksum(Stored[id])
              /\ Originals(Stored'[id]) \in {Originals(Stored[id]), {}}
<1> DEFINE old == Stored[id]
           new == Stored'[id]
<1>1. old = Nil \/ Stable(old)
  BY DEF StoredStable
<1>2. Changes(old, new)
  <2>1. CASE UNCHANGED Stored
    BY <2>1 DEF Changes
  <2>2. CASE Abstract!Next
    <3>1. Abstract!Admit(id) \/ Abstract!Erase(id) \/ new = old
      BY <2>2 DEF Abstract!Next
    <3> QED
      BY <3>1, AdmissibleStable, SameTombstoned DEF Changes, Abstract!Admit, Abstract!Erase
  <2> QED BY <2>1, <2>2
<1> HIDE DEF old, new
<1>3. /\ new = Nil \/ Stable(new)
      /\ old # Nil => /\ new # Nil
                      /\ StorageChecksum(new) = StorageChecksum(old)
                      /\ Originals(new) \in {Originals(old), {}}
  BY <1>1, <1>2, StoreImmutable
<1> QED BY <1>3 DEF old, new

\* What this store keeps is immutable: in every behaviour a stored record keeps
\* its checksum, and its originals are all there or all erased.
THEOREM RecordsAreImmutable ==
  Spec => Abstract!Immutable
<1>1. Abstract!Init => StoredStable
  BY DEF Abstract!Init, StoredStable
<1>2. StoredStable /\ [Abstract!Next]_Stored => StoredStable'
  BY ContractStep DEF StoredStable
<1>3. StoredStable /\ [Abstract!Next]_Stored =>
        [\A id \in Id : Stored[id] # Nil =>
           /\ Stored'[id] # Nil
           /\ Abstract!StorageChecksum(Stored'[id]) = Abstract!StorageChecksum(Stored[id])
           /\ Abstract!Originals(Stored'[id]) \in {Abstract!Originals(Stored[id]), {}}]_Stored
  BY ContractStep, SameContent
<1>4. Abstract!Spec => Abstract!Immutable
  BY <1>1, <1>2, <1>3, PTL DEF Abstract!Spec, Abstract!Immutable
<1> QED BY <1>4, StoreRefines, PTL DEF ImplementsStore
=============================================================================
