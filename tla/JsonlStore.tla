----------------------------- MODULE JsonlStore -----------------------------
(***************************************************************************)
(* The file-backed store, src/artifact/jsonl/store.go.                     *)
(*                                                                         *)
(* One process (the writer) has a Store whose methods several threads call *)
(* concurrently; other processes may open the same path and only read.     *)
(* Each Store has an offset index in memory and a mutex.  A process can    *)
(* die at any moment and reopen the file with New.                         *)
(*                                                                         *)
(* The file is a sequence of segments, one per Write call.  A segment is   *)
(* [rec, part, nl]: the record the call marshalled, as reading it back     *)
(* would return it; how much of it reached the disk -- all of the JSON     *)
(* ("full"), a prefix that holds the whole capsule_id member ("id"), a     *)
(* shorter prefix ("short") -- and whether the newline was written.  A     *)
(* line is a maximal run of segments without a newline between them.       *)
(* Byte offsets are abstracted to segment positions plus the number of     *)
(* rewrites gen: a rewrite moves the bytes, so an index entry made before  *)
(* it says nothing about where a line is now.                              *)
(***************************************************************************)
EXTENDS Artifact

CONSTANTS
  Id,             \* the ids Get and Purge are asked for
  Records,        \* the records callers Put
  TrustSets,      \* the trusted key sets a Store may be opened with
  Writer,         \* the handle of the writing process
  WriterThreads,  \* the threads that call its methods
  Readers,        \* handles of reading processes, one thread each
  TornWrites,     \* whether a Write may store a proper prefix and fail
  MaxSegments,    \* bound on the Write calls that reach the file
  MaxRewrites     \* bound on the renames over the file

ASSUME ThreadAssumption ==
  /\ WriterThreads \cap Readers = {}
  /\ Writer \notin WriterThreads \cup Readers
  /\ Nil \notin WriterThreads \cup Readers

\* The records are Go values, and Nil, which stands for none, is not among them
\* nor among what Prepare, the encoding and Purge make of them.
ASSUME RecordAssumption ==
  \A r \in Records :
    /\ IsRecord(r)
    /\ r.id \in Id
    /\ LET w == Wire(Prepared(r))
       IN  Nil \notin {Prepared(r), w, Tombstoned(w), Wire(Tombstoned(w))}

ASSUME BoundAssumption ==
  /\ TornWrites \in BOOLEAN
  /\ MaxSegments \in Nat
  /\ MaxRewrites \in Nat

VARIABLES
  exists,   \* the file has been created
  file,     \* its segments
  gen,      \* how many times Purge has renamed a new file over it
  orphans,  \* the records with originals in temporary files left by a death
  handle,   \* per handle: [open, trusted, index], the Store struct
  mu,       \* per handle: the thread that holds Store.mu, Nil for none
  call,     \* per thread: the method call it is in, or the last one's result
  acked,    \* history: per id the record some Put returned nil for
  erased    \* history: the ids some Purge returned nil for

disk == <<exists, file, gen, orphans>>
history == <<acked, erased>>
vars == <<exists, file, gen, orphans, handle, mu, call, acked, erased>>

Threads == WriterThreads \cup Readers
Handles == {Writer} \cup Readers
HandleOf(t) == IF t \in WriterThreads THEN Writer ELSE t

Ok(r) == [err |-> "ok", rec |-> r]
Fail(e) == [err |-> e, rec |-> Nil]

-----------------------------------------------------------------------------
\* Lines.

LineStart(f, i) == f[i].part # "gone" /\ (i = 1 \/ f[i - 1].nl)

LineEnd(f, i) == Min({j \in i..Len(f) : f[j].nl \/ j = Len(f)})

\* The indexEntry {offset, length} of the line that starts at segment i.
LineEntry(f, i, g) == [gen |-> g, first |-> i, last |-> LineEnd(f, i)]

\* scanIndex: a line is indexed only if all of it is one JSON value, and the
\* last line with an id wins.
Parsed(f, id) ==
  {i \in DOMAIN f : /\ LineStart(f, i)
                    /\ LineEnd(f, i) = i
                    /\ f[i].part = "full"
                    /\ f[i].rec.id = id}

scanIndex(f, g) ==
  [id \in {i \in Id : Parsed(f, i) # {}} |-> LineEntry(f, Max(Parsed(f, id)), g)]

\* The lines whose capsule_id rewrite sees: it ignores the error of Unmarshal,
\* which fills in the members that precede the fault.
Peeked(f, id) ==
  {i \in DOMAIN f : /\ LineStart(f, i)
                    /\ f[i].part \in {"full", "id"}
                    /\ f[i].rec.id = id}

\* Mutant: the buffered writer is not flushed before the rename.
RewrittenUnflushed(f, id, replacement) ==
  [i \in 1..(Len(f) - 1) |->
     IF i \in Peeked(f, id)
     THEN [rec |-> Wire(replacement), part |-> "full", nl |-> TRUE]
     ELSE [f[i] EXCEPT !.nl = TRUE]]

\* rewrite's output: the lines of id replaced, the others copied, every one
\* newline-terminated.  Segments that shared a replaced line are gone.
Rewritten(f, id, replacement) ==
  LET target(i) == i \in Peeked(f, id)
      swallowed(i) == \E j \in Peeked(f, id) : j < i /\ i <= LineEnd(f, j)
  IN  [i \in DOMAIN f |->
         IF target(i)
         THEN [rec |-> Wire(replacement), part |-> "full", nl |-> TRUE]
         ELSE IF swallowed(i) THEN [f[i] EXCEPT !.part = "gone", !.nl = TRUE]
         ELSE [f[i] EXCEPT !.nl = f[i].nl \/ i = Len(f)]]

\* Mutant: the lines keep the offsets they had in the old file.
newIndexOldOffsets(f, g) ==
  [id \in {i \in Id : Peeked(f, i) # {}} |-> LineEntry(f, Max(Peeked(f, id)), g - 1)]

\* The newIndex that rewrite builds while it copies.
newIndex(f, g) ==
  [id \in {i \in Id : Peeked(f, i) # {}} |-> LineEntry(f, Max(Peeked(f, id)), g)]

\* What the bytes of an entry unmarshal to.  An entry of an earlier generation
\* names an offset that may now be anywhere: the bytes there parse as no record,
\* or are the line of some record.
Found(e) ==
  IF e.gen = gen
  THEN IF e.first = e.last /\ file[e.first].part = "full"
       THEN {Ok(file[e.first].rec)} ELSE {Fail("ErrCorrupt")}
  ELSE {Fail("ErrCorrupt")}
         \cup {Ok(file[i].rec) : i \in {j \in DOMAIN file : file[j].part = "full"}}

\* readAt: opening or reading the file may also fail.  The code gives the error
\* of a read as ErrCorrupt; here it is kept apart from the ErrCorrupt of bytes
\* that are no record, which says something about the file.
readAt(e) == {Fail("ErrIO")} \cup Found(e)

-----------------------------------------------------------------------------
\* Calls.  A call is [op, pc, id, rec, at, out, seen]: the method, where the
\* thread is in it, its argument, the indexEntry it holds, its result, and
\* what had been acknowledged for the id when it was invoked.

Idle == [op |-> "none", pc |-> "idle", id |-> Nil, rec |-> Nil, at |-> Nil,
         out |-> Fail("none"), seen |-> [acked |-> Nil, erased |-> FALSE]]

\* Where a thread holds the mutex of its Store.
Critical == {"putAppend", "getRead", "purgeRewrite"}

Ready(t) == call[t].pc \in {"idle", "done"}

Invocation(op, pc, id, rec, out) ==
  [op |-> op, pc |-> pc, id |-> id, rec |-> rec, at |-> Nil, out |-> out,
   seen |-> [acked |-> acked[id], erased |-> id \in erased]]

\* Call c at another point, with other locals.
At(c, pc, rec, at, out) ==
  [op |-> c.op, pc |-> pc, id |-> c.id, rec |-> rec, at |-> at, out |-> out,
   seen |-> c.seen]

\* The call of t returns out.  The record of a Put that succeeded is kept.
Return(t, out) ==
  call' = [call EXCEPT ![t] =
    At(call[t], "done",
       IF call[t].op = "put" /\ out.err = "ok" THEN call[t].rec ELSE Nil, Nil, out)]

Acquire(t) == mu' = [mu EXCEPT ![HandleOf(t)] = t]
Release(t) == mu' = [mu EXCEPT ![HandleOf(t)] = Nil]
Free(t) == mu[HandleOf(t)] = Nil

\* Bounds are checked when a call is invoked, so that no call is cut short.
Pending(pcs) == {t \in Threads : call[t].pc \in pcs}
RoomToAppend ==
  Len(file) + Cardinality(Pending({"putLock", "putAppend"})) < MaxSegments
RoomToRewrite ==
  gen + Cardinality(Pending({"purgeLock", "purgeRewrite"})) < MaxRewrites

-----------------------------------------------------------------------------
\* A Store is [open, trusted, index]; index is a map from ids to entries.
Closed == [open |-> FALSE, trusted |-> {}, index |-> [id \in {} |-> Nil]]

Init ==
  /\ exists = FALSE
  /\ file = <<>>
  /\ gen = 0
  /\ orphans = {}
  /\ handle = [h \in Handles |-> Closed]
  /\ mu = [h \in Handles |-> Nil]
  /\ call = [t \in Threads |-> Idle]
  /\ acked = [id \in Id |-> Nil]
  /\ erased = {}

\* The calls made on the Store of a handle, and its mutex, belong to that Store.
NoCalls(h) ==
  /\ mu' = [mu EXCEPT ![h] = Nil]
  /\ call' = [t \in Threads |-> IF HandleOf(t) = h THEN Idle ELSE call[t]]

\* New: refuses an empty key set, else scans the file if there is one.  When
\* that fails there is no Store.
New(h) ==
  /\ IF h = Writer THEN ~ handle[h].open ELSE Ready(h)
  /\ \E T \in TrustSets :
       /\ T # {}
       /\ handle' = [handle EXCEPT ![h] =
            [open |-> TRUE, trusted |-> T, index |-> scanIndex(file, gen)]]
  /\ NoCalls(h)
  /\ UNCHANGED <<disk, history>>

\* Store.Init, under the mutex: O_CREATE|O_EXCL, an existing file is kept.
InitFile(t) ==
  /\ handle[Writer].open
  /\ Ready(t) /\ Free(t)
  /\ ~ exists
  /\ exists' = TRUE
  /\ UNCHANGED <<file, gen, orphans, handle, mu, call, history>>

-----------------------------------------------------------------------------
\* Put.

\* Prepare, Verify and StorageChecksum, before the mutex is taken.
PutCall(t) ==
  /\ handle[Writer].open
  /\ Ready(t)
  /\ RoomToAppend
  /\ \E r \in Records :
       LET err == AdmissionError(r, handle[Writer].trusted)
       IN  call' = [call EXCEPT ![t] =
             IF err # "ok" THEN Invocation("put", "done", r.id, Nil, Fail(err))
             ELSE Invocation("put", "putLock", r.id, Prepared(r), Fail("none"))]
  /\ UNCHANGED <<disk, handle, mu, history>>

\* Mutant: an indexed id is taken for a retry, whatever its checksum.
RetryErrorNoCompare(r, out, trusted) ==
  IF out.err # "ok" THEN out.err
  ELSE IF out.rec.id # r.id THEN "ErrCorrupt"
  ELSE IF Verify(out.rec, trusted) # "ok" THEN Verify(out.rec, trusted)
  ELSE IF HasPurged(out.rec) THEN "ErrPurged"
  ELSE "ok"

\* The verdict on a Put whose id is indexed, from what readAt returned.
RetryError(r, out, trusted) ==
  IF out.err # "ok" THEN out.err
  ELSE IF out.rec.id # r.id THEN "ErrCorrupt"
  ELSE IF Verify(out.rec, trusted) # "ok" THEN Verify(out.rec, trusted)
  ELSE IF StorageChecksum(out.rec) # StorageChecksum(r) THEN "ErrConflict"
  ELSE IF HasPurged(out.rec) THEN "ErrPurged"
  ELSE "ok"

\* The record of an acknowledged Put; a later retry of it changes nothing.
Acknowledge(r) ==
  acked' = [acked EXCEPT ![r.id] = IF acked[r.id] = Nil THEN r ELSE acked[r.id]]

\* The mutex taken and the id indexed: the stored record decides, and the
\* deferred Unlock runs.
PutRetry(t) ==
  LET r == call[t].rec
      index == handle[Writer].index
  IN  /\ call[t].pc = "putLock"
      /\ Free(t)
      /\ r.id \in DOMAIN index
      /\ \E out \in readAt(index[r.id]) :
           LET err == RetryError(r, out, handle[Writer].trusted)
           IN  /\ Return(t, Fail(err))
               /\ IF err = "ok" THEN Acknowledge(r) ELSE UNCHANGED acked
      /\ UNCHANGED <<disk, handle, mu, erased>>

\* The mutex taken and the id not indexed.
PutLock(t) ==
  /\ call[t].pc = "putLock"
  /\ Free(t)
  /\ call[t].rec.id \notin DOMAIN handle[Writer].index
  /\ Acquire(t)
  /\ call' = [call EXCEPT ![t] =
       At(call[t], "putAppend", call[t].rec, Nil, call[t].out)]
  /\ UNCHANGED <<disk, handle, history>>

\* The line of r, of which part and maybe the newline reach the file's end.
Append1(r, part, nl) ==
  file' = Append(file, [rec |-> Wire(r), part |-> part, nl |-> nl])

\* Write stored the whole line: index it, unlock, return nil.
PutAppend(t) ==
  LET r == call[t].rec
      n == Len(file) + 1
      index == handle[Writer].index
  IN  /\ call[t].pc = "putAppend"
      /\ exists
      /\ Append1(r, "full", TRUE)
      /\ handle' = [handle EXCEPT ![Writer].index =
           [id \in DOMAIN index \cup {r.id} |->
              IF id = r.id THEN [gen |-> gen, first |-> n, last |-> n]
                           ELSE index[id]]]
      /\ Acknowledge(r)
      /\ Return(t, Fail("ok"))
      /\ Release(t)
      /\ UNCHANGED <<exists, gen, orphans, erased>>

\* Opening the file, seeking or Write failed; a failing Write may have stored
\* a proper prefix of the line.
PutFail(t) ==
  /\ call[t].pc = "putAppend"
  /\ \/ UNCHANGED file
     \/ /\ TornWrites /\ exists
        /\ \E part \in {"full", "id", "short"} : Append1(call[t].rec, part, FALSE)
  /\ Return(t, Fail("ErrIO"))
  /\ Release(t)
  /\ UNCHANGED <<exists, gen, orphans, handle, history>>

-----------------------------------------------------------------------------
\* Get.

GetCall(t) ==
  /\ handle[HandleOf(t)].open
  /\ Ready(t)
  /\ \E id \in Id :
       call' = [call EXCEPT ![t] =
         IF id \in ValidId THEN Invocation("get", "getLock", id, Nil, Fail("none"))
         ELSE Invocation("get", "done", id, Nil, Fail("ErrInvalid"))]
  /\ UNCHANGED <<disk, handle, mu, history>>

\* Mutant: the early return for an absent id forgets to unlock.
GetLookupNoUnlock(t) ==
  LET index == handle[HandleOf(t)].index
  IN  /\ call[t].pc = "getLock"
      /\ Free(t)
      /\ Acquire(t)
      /\ IF call[t].id \notin DOMAIN index THEN Return(t, Fail("ErrNotFound"))
         ELSE call' = [call EXCEPT ![t] =
                At(call[t], "getRead", Nil, index[call[t].id], call[t].out)]
      /\ UNCHANGED <<disk, handle, history>>

\* Mutant: the mutex is released between the lookup and the read.
GetLookupUnlocks(t) ==
  LET index == handle[HandleOf(t)].index
  IN  /\ call[t].pc = "getLock"
      /\ Free(t)
      /\ IF call[t].id \notin DOMAIN index THEN Return(t, Fail("ErrNotFound"))
         ELSE call' = [call EXCEPT ![t] =
                At(call[t], "getRead", Nil, index[call[t].id], call[t].out)]
      /\ UNCHANGED <<disk, handle, mu, history>>

\* The index looked up under the mutex; an absent id unlocks and returns.
GetLookup(t) ==
  LET index == handle[HandleOf(t)].index
  IN  /\ call[t].pc = "getLock"
      /\ Free(t)
      /\ IF call[t].id \notin DOMAIN index
         THEN Return(t, Fail("ErrNotFound")) /\ UNCHANGED mu
         ELSE /\ call' = [call EXCEPT ![t] =
                At(call[t], "getRead", Nil, index[call[t].id], call[t].out)]
              /\ Acquire(t)
      /\ UNCHANGED <<disk, handle, history>>

\* Mutant: readAt locks the mutex that its caller already holds.
GetReadLocks(t) ==
  /\ call[t].pc = "getRead"
  /\ Free(t)
  /\ \E out \in readAt(call[t].at) :
       call' = [call EXCEPT ![t] = At(call[t], "getReturn", Nil, Nil, out)]
  /\ UNCHANGED <<disk, handle, mu, history>>

\* readAt, still under the mutex, and Unlock.
GetRead(t) ==
  /\ call[t].pc = "getRead"
  /\ \E out \in readAt(call[t].at) :
       call' = [call EXCEPT ![t] = At(call[t], "getReturn", Nil, Nil, out)]
  /\ Release(t)
  /\ UNCHANGED <<disk, handle, history>>

\* Mutant: the record read is not verified against the Store's own keys.
GetResultUnverified(id, out, trusted) ==
  IF out.err # "ok" THEN out
  ELSE IF out.rec.id # id THEN Fail("ErrCorrupt")
  ELSE out

\* What Get answers to a request for id from what readAt returned.
GetResult(id, out, trusted) ==
  IF out.err # "ok" THEN out
  ELSE IF out.rec.id # id THEN Fail("ErrCorrupt")
  ELSE IF Verify(out.rec, trusted) # "ok" THEN Fail(Verify(out.rec, trusted))
  ELSE out

\* The checks after the mutex is released.
GetReturn(t) ==
  /\ call[t].pc = "getReturn"
  /\ Return(t, GetResult(call[t].id, call[t].out, handle[HandleOf(t)].trusted))
  /\ UNCHANGED <<disk, handle, mu, history>>

-----------------------------------------------------------------------------
\* Purge.

PurgeCall(t) ==
  /\ handle[Writer].open
  /\ Ready(t)
  /\ RoomToRewrite
  /\ \E id \in Id :
       call' = [call EXCEPT ![t] =
         IF id \in ValidId THEN Invocation("purge", "purgeLock", id, Nil, Fail("none"))
         ELSE Invocation("purge", "done", id, Nil, Fail("ErrInvalid"))]
  /\ UNCHANGED <<disk, handle, mu, history>>

\* Why Purge of id stops before the rewrite, from what readAt returned.
PurgeError(id, out) ==
  IF out.err # "ok" THEN out.err
  ELSE IF out.rec.id # id THEN "ErrCorrupt" ELSE "ok"

\* The mutex taken, the record read and its tombstones made.  No Verify.
PurgeLock(t) ==
  LET index == handle[Writer].index
  IN  /\ call[t].pc = "purgeLock"
      /\ Free(t)
      /\ IF call[t].id \notin DOMAIN index
         THEN Return(t, Fail("ErrNotFound")) /\ UNCHANGED mu
         ELSE \E out \in readAt(index[call[t].id]) :
                LET err == PurgeError(call[t].id, out)
                IN  IF err # "ok" THEN Return(t, Fail(err)) /\ UNCHANGED mu
                    ELSE /\ call' = [call EXCEPT ![t] = At(call[t], "purgeRewrite",
                                        Tombstoned(out.rec), Nil, call[t].out)]
                         /\ Acquire(t)
      /\ UNCHANGED <<disk, handle, history>>


\* rewrite up to and including the rename.
Rename(id, replacement) ==
  /\ Peeked(file, id) # {}
  /\ file' = Rewritten(file, id, replacement)
  /\ gen' = gen + 1

\* rewrite succeeds: the new file is in place, the new index is installed.
PurgeRewrite(t) ==
  /\ call[t].pc = "purgeRewrite"
  /\ Rename(call[t].id, call[t].rec)
  /\ handle' = [handle EXCEPT ![Writer].index = newIndex(file', gen')]
  /\ erased' = erased \cup {call[t].id}
  /\ Return(t, Fail("ok"))
  /\ Release(t)
  /\ UNCHANGED <<exists, orphans, acked>>

\* rewrite finds no line of the id, or an I/O call before the rename fails:
\* the deferred cleanup removes the temporary file.
PurgeFail(t) ==
  /\ call[t].pc = "purgeRewrite"
  /\ Return(t, Fail(IF Peeked(file, call[t].id) = {} THEN "ErrCorrupt"
                                                     ELSE "ErrIO"))
  /\ Release(t)
  /\ UNCHANGED <<disk, handle, history>>

-----------------------------------------------------------------------------
\* The writing process dies: its Store, its mutex and its calls are gone.
Kill ==
  /\ handle[Writer].open
  /\ handle' = [handle EXCEPT ![Writer] = Closed]
  /\ NoCalls(Writer)
  /\ UNCHANGED history

Crash == Kill /\ UNCHANGED disk

\* ... after, or with TornWrites in the middle of, the Write of a line.
CrashInPut(t) ==
  /\ call[t].pc = "putAppend"
  /\ exists
  /\ \/ Append1(call[t].rec, "full", TRUE)
     \/ /\ TornWrites
        /\ \E part \in {"full", "id", "short"} : Append1(call[t].rec, part, FALSE)
  /\ Kill
  /\ UNCHANGED <<exists, gen, orphans>>

\* ... between the rename and the assignment of the index.
CrashAfterRename(t) ==
  /\ call[t].pc = "purgeRewrite"
  /\ Rename(call[t].id, call[t].rec)
  /\ Kill
  /\ UNCHANGED <<exists, orphans>>

\* ... before the rename: the temporary file stays, holding some prefix of the
\* rewritten lines.
CrashBeforeRename(t) ==
  /\ call[t].pc = "purgeRewrite"
  /\ \E n \in 1..Len(file) :
       LET tmp == Rewritten(file, call[t].id, call[t].rec)
       IN  orphans' = orphans \cup
             {tmp[i].rec : i \in {j \in 1..n : /\ tmp[j].part = "full"
                                              /\ Originals(tmp[j].rec) # {}}}
  /\ Kill
  /\ UNCHANGED <<exists, file, gen>>

-----------------------------------------------------------------------------
\* The steps of a call that wait for the mutex, and those that do not.
Lock(t) == PutRetry(t) \/ PutLock(t) \/ GetLookup(t) \/ PurgeLock(t)

Proceed(t) ==
  \/ PutAppend(t) \/ PutFail(t)
  \/ GetRead(t) \/ GetReturn(t)
  \/ PurgeRewrite(t) \/ PurgeFail(t)

Next ==
  \/ \E h \in Handles : New(h)
  \/ \E t \in WriterThreads :
       InitFile(t) \/ PutCall(t) \/ PurgeCall(t)
  \/ \E t \in Threads : GetCall(t) \/ Lock(t) \/ Proceed(t)
  \/ Crash
  \/ \E t \in WriterThreads :
       CrashInPut(t) \/ CrashAfterRename(t) \/ CrashBeforeRename(t)

Spec == Init /\ [][Next]_vars

\* A running thread is scheduled, and sync.Mutex hands the lock to a waiter
\* that has starved for a millisecond before any newcomer.
FairSpec ==
  /\ Spec
  /\ \A t \in Threads : SF_vars(Lock(t)) /\ WF_vars(Proceed(t))
-----------------------------------------------------------------------------
\* The contract of ArtifactStore, read off the file: under an id is stored
\* the last complete line with that id.
StoredAt(id) == {i \in DOMAIN file : file[i].part = "full" /\ file[i].rec.id = id}

Stored == [id \in Id |-> IF StoredAt(id) = {} THEN Nil
                         ELSE file[Max(StoredAt(id))].rec]

AdmissibleRecords ==
  [id \in Id |-> {Wire(Prepared(r)) :
     r \in {q \in Records : /\ q.id = id
                            /\ \E T \in TrustSets : AdmissionError(q, T) = "ok"}}]

Abstract == INSTANCE ArtifactStore WITH
  Admissible <- AdmissibleRecords, stored <- Stored

-----------------------------------------------------------------------------
\* Properties.

Part == {"full", "id", "short", "gone"}
StoredRecord == {Wire(Prepared(r)) : r \in Records}
                  \cup {Wire(Tombstoned(Wire(Prepared(r)))) : r \in Records}
Segment == [rec : StoredRecord, part : Part, nl : BOOLEAN]
IndexEntry == [gen : 0..gen, first : Nat, last : Nat]
Returned(t, op) == call[t].pc = "done" /\ call[t].op = op

\* Type correctness of the file, of every Store's index and of the mutexes: a
\* held mutex is held by a thread of that process that is inside a critical
\* section, and only the holder is inside one.
TypeOK ==
  /\ exists \in BOOLEAN
  /\ file \in Seq(Segment)
  /\ gen \in Nat
  /\ orphans \subseteq StoredRecord
  /\ \A h \in Handles :
       /\ handle[h].open \in BOOLEAN
       /\ handle[h].trusted \in TrustSets \cup {{}}
       /\ DOMAIN handle[h].index \subseteq Id
       /\ \A id \in DOMAIN handle[h].index : handle[h].index[id] \in IndexEntry
  /\ \A t \in Threads : call[t].pc \in Critical <=> mu[HandleOf(t)] = t

\* A stored record s still holds the acknowledged record r: the checksum is
\* r's, and of the originals all are there or all have been erased.
Holds(s, r) ==
  /\ StorageChecksum(s) = StorageChecksum(r)
  /\ Originals(s) \in {Originals(r), {}}

\* Put acknowledged, Get invoked later on the same process (perhaps after a
\* crash and New, with other threads in Put and Purge meanwhile): it returns
\* the acknowledged record, whole or with every original replaced by its
\* tombstone; it fails only if the signer is no longer trusted or the file
\* cannot be read (store.go:237-243), never because the id is not found or what
\* it names is not the record.  This is what Get's holding the mutex across
\* lookup and read, and Purge's replacing the index with the file, are for.
ReadYourWrites ==
  \A t \in WriterThreads :
    LET c == call[t] IN
    Returned(t, "get") /\ c.seen.acked # Nil /\ c.out.err # "ErrIO" =>
      IF c.seen.acked.envelope.key \in handle[Writer].trusted
      THEN c.out.err = "ok" /\ Holds(c.out.rec, c.seen.acked)
      ELSE c.out.err = "ErrUntrustedSigner"

\* "Byte-identical retries are admitted": whenever the mutex is free, the
\* retry of an acknowledged Put would be answered nil, or ErrPurged once a
\* Purge has reached the file, unless the signer has been distrusted since or
\* the file cannot be read.
RetryAdmitted ==
  LET s == handle[Writer] IN
  s.open /\ mu[Writer] = Nil =>
    \A id \in Id :
      acked[id] # Nil /\ id \in DOMAIN s.index =>
        \A out \in {o \in readAt(s.index[id]) : o.err # "ErrIO"} :
          RetryError(acked[id], out, s.trusted) \in
            IF acked[id].envelope.key \in s.trusted
            THEN {"ok", "ErrPurged"} ELSE {"ErrUntrustedSigner"}

\* Once Purge has returned nil, no line of the file holds an original of the
\* record, no Get invoked later -- on any process, stale index included --
\* returns one, and no Put invoked later succeeds for it.  A record that never
\* had an original is outside the last clause: nothing of it is erased, and Put
\* admits it again.
ErasedStaysErased ==
  /\ \A id \in erased, i \in DOMAIN file :
       file[i].part = "full" /\ file[i].rec.id = id => Originals(file[i].rec) = {}
  /\ \A t \in Threads :
       Returned(t, "get") /\ call[t].seen.erased /\ call[t].out.err = "ok"
         => Originals(call[t].out.rec) = {}
  /\ \A t \in WriterThreads :
       Returned(t, "put") /\ call[t].seen.erased /\ call[t].out.err = "ok"
         => Originals(call[t].rec) = {}

\* Two Puts of one id never both succeed with different records, whichever
\* threads they run on and whatever dies between them: an acknowledged Put
\* agrees with the record that was acknowledged first.
NoConflictAdmitted ==
  \A t \in WriterThreads :
    Returned(t, "put") /\ call[t].out.err = "ok"
      => StorageChecksum(call[t].rec) = StorageChecksum(acked[call[t].id])

\* A Get that succeeds returns a record of the id asked for that some caller
\* Put and that verifies against the trusted keys of the very Store that was
\* asked, whatever keys the Store that wrote the record was opened with,
\* however stale the index and however damaged the file: reads fail closed
\* (store.go:220-230).
GetAuthentic ==
  \A t \in Threads :
    Returned(t, "get") /\ call[t].out.err = "ok" =>
      /\ call[t].out.rec.id = call[t].id
      /\ Verify(call[t].out.rec, handle[HandleOf(t)].trusted) = "ok"
      /\ \E r \in Records :
           call[t].out.rec \in {Wire(Prepared(r)), Tombstoned(Wire(Prepared(r)))}

\* The store implements the abstract one: every line that reaches the file
\* admits a record under a free id, every rename erases one record, and no
\* other step -- crash, reopening, failed call -- changes what is stored.
ImplementsStore == Abstract!Spec

\* Every call returns, unless its process dies: no path through Put, Get or
\* Purge leaves the mutex locked.
CallsReturn == \A t \in Threads : ~ Ready(t) ~> Ready(t)

\* What artifact/README.md says of Purge: it "removes all associated
\* originals" -- from the store's directory, temporary files included.
PurgeRemovesAll ==
  \A id \in erased : \A r \in orphans : r.id = id => Originals(r) = {}
=============================================================================
