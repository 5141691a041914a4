-------------------------- MODULE JsonlStoreProofs --------------------------
(***************************************************************************)
(* JsonlStore for any number of threads, readers, ids and records.         *)
(*                                                                         *)
(* The first part holds even when a Write stores part of a line: type      *)
(* correctness, the mutex discipline, and that a read fails closed.        *)
(*                                                                         *)
(* The second part is the safety of the store: what Put acknowledged stays *)
(* readable and its retry is answered, conflicting Puts do not both        *)
(* succeed, what Purge erased stays erased, and the file implements the    *)
(* contract of ArtifactStore, with a crash possible between any two steps. *)
(* Two things are assumed: a Write stores the whole line or nothing, and   *)
(* no original is empty.  Without the first ReadYourWrites fails, without  *)
(* the second RetryAdmitted does: see the violation runs.                  *)
(***************************************************************************)
EXTENDS JsonlStore, ArtifactProofs, SequenceTheorems

-----------------------------------------------------------------------------
\* Lines and index entries.

\* A nonempty set of positions up to n has a greatest one.
LEMMA MaxIn ==
  ASSUME NEW n \in Nat, NEW S \in SUBSET (1..n), S # {}
  PROVE  Max(S) \in S /\ \A y \in S : Max(S) >= y
<1> DEFINE D == {n - x : x \in S}
<1>1. D \in SUBSET Nat /\ D # {}
  <2>1. \A x \in S : n - x \in Nat
    OBVIOUS
  <2>2. PICK x \in S : TRUE
    OBVIOUS
  <2>3. n - x \in D
    BY <2>2
  <2> QED BY <2>1, <2>3
<1>2. Min(D) \in D /\ \A e \in D : Min(D) <= e
  BY <1>1, MinIn
<1>3. PICK x \in S : Min(D) = n - x
  BY <1>2
<1>4. \A y \in S : n - x <= n - y
  BY <1>2, <1>3
<1>5. \A y \in S : x >= y
  BY <1>4
<1> QED BY <1>5 DEF Max

\* Every line has an end.
LEMMA LineEndTyped ==
  ASSUME NEW f \in Seq(Segment), NEW i \in DOMAIN f
  PROVE  LineEnd(f, i) \in Nat
<1> DEFINE S == {j \in i..Len(f) : f[j].nl \/ j = Len(f)}
<1>1. S \in SUBSET Nat /\ Len(f) \in S
  OBVIOUS
<1> HIDE DEF S
<1>2. Min(S) \in S
  BY <1>1, MinIn
<1> QED BY <1>1, <1>2 DEF LineEnd, S

\* Both ways of building an index point at lines, in the file scanned.
LEMMA IndexTyped ==
  ASSUME NEW f \in Seq(Segment), NEW g \in Nat
  PROVE  /\ DOMAIN scanIndex(f, g) \subseteq Id
         /\ \A id \in DOMAIN scanIndex(f, g) :
              scanIndex(f, g)[id] \in [gen : {g}, first : DOMAIN f, last : Nat]
         /\ DOMAIN newIndex(f, g) \subseteq Id
         /\ \A id \in DOMAIN newIndex(f, g) :
              newIndex(f, g)[id] \in [gen : {g}, first : DOMAIN f, last : Nat]
<1>1. ASSUME NEW S \in SUBSET DOMAIN f, S # {}
      PROVE  LineEntry(f, Max(S), g) \in [gen : {g}, first : DOMAIN f, last : Nat]
  <2>1. DOMAIN f = 1..Len(f) /\ Len(f) \in Nat
    OBVIOUS
  <2>2. Max(S) \in DOMAIN f
    BY <1>1, <2>1, MaxIn
  <2> QED BY <2>1, <2>2, LineEndTyped DEF LineEntry
<1>2. \A id : Parsed(f, id) \in SUBSET DOMAIN f /\ Peeked(f, id) \in SUBSET DOMAIN f
  BY DEF Parsed, Peeked
<1> QED BY <1>1, <1>2 DEF scanIndex, newIndex

\* A tombstoned record read back from the file and purged again is still one
\* of the records that can be in the file.
LEMMA StoredRecordClosed ==
  ASSUME NEW s \in StoredRecord
  PROVE  Wire(Tombstoned(s)) \in StoredRecord
<1>1. CASE \E r \in Records : s = Wire(Prepared(r))
  BY <1>1 DEF StoredRecord
<1>2. CASE \E r \in Records : s = Wire(Tombstoned(Wire(Prepared(r))))
  <2>1. PICK r \in Records : s = Wire(Tombstoned(Wire(Prepared(r))))
    BY <1>2
  <2> DEFINE y == Wire(Prepared(r))
             z == Tombstoned(y)
  <2>2. IsRecord(Prepared(r))
    BY RecordAssumption, PreparedIsRecord
  <2>3. IsRecord(y) /\ RoundTrips(y)
    BY <2>2, WireIsRecord
  <2>4. IsRecord(z) /\ RoundTrips(z)
    BY <2>3, TombstonedIsRecord, RoundTripsKept
  <2>5. s = z /\ Tombstoned(s) = z
    BY <2>1, <2>3, <2>4, WireIdentity, TombstonedTwice
  <2> QED BY <2>1, <2>5
<1> QED BY <1>1, <1>2 DEF StoredRecord

\* rewrite leaves a sequence of segments, as many as before.
LEMMA RewrittenTyped ==
  ASSUME NEW f \in Seq(Segment), NEW id, NEW r, Wire(r) \in StoredRecord
  PROVE  Rewritten(f, id, r) \in Seq(Segment) /\ Len(Rewritten(f, id, r)) = Len(f)
<1> DEFINE w == Rewritten(f, id, r)
<1>1. DOMAIN f = 1..Len(f) /\ Len(f) \in Nat
  OBVIOUS
<1>2. \A i \in DOMAIN f : f[i] \in Segment
  OBVIOUS
<1>3. ASSUME NEW i \in DOMAIN f
      PROVE  w[i] \in Segment
  BY <1>2, <1>3 DEF Rewritten, Segment, Part
<1>4. w = [i \in 1..Len(f) |-> w[i]]
  BY <1>1 DEF Rewritten
<1> HIDE DEF w
<1>5. w \in [1..Len(f) -> Segment]
  BY <1>1, <1>3, <1>4
<1> QED BY <1>1, <1>5 DEF w

-----------------------------------------------------------------------------
\* The inductive invariant.

\* An index entry made since the last rename, rename g, names a line of file f.
Pointed(e, g, f) ==
  /\ e \in [gen : 0..g, first : Nat, last : Nat]
  /\ e.gen = g => e.first \in DOMAIN f

DiskOK ==
  /\ exists \in BOOLEAN
  /\ file \in Seq(Segment)
  /\ gen \in Nat
  /\ orphans \subseteq StoredRecord

StoreOK(s, g, f) ==
  /\ s = [open |-> s.open, trusted |-> s.trusted, index |-> s.index]
  /\ s.open \in BOOLEAN
  /\ s.trusted \in TrustSets \cup {{}}
  /\ DOMAIN s.index \subseteq Id
  /\ \A id \in DOMAIN s.index : Pointed(s.index[id], g, f)

\* A Put carries a prepared record, a Purge in rewrite the tombstones of a
\* record it read, a Get in its read an entry.
CallOK(c, g, f) ==
  /\ c = [op |-> c.op, pc |-> c.pc, id |-> c.id, rec |-> c.rec, at |-> c.at,
          out |-> c.out, seen |-> c.seen]
  /\ c.pc \in {"putLock", "putAppend"} => \E r \in Records : c.rec = Prepared(r)
  /\ c.pc = "purgeRewrite" => \E s \in StoredRecord : c.rec = Tombstoned(s)
  /\ c.pc = "getRead" => Pointed(c.at, g, f)

Mutex == \A t \in Threads : call[t].pc \in Critical <=> mu[HandleOf(t)] = t

TypeInv ==
  /\ DiskOK
  /\ handle = [h \in Handles |-> handle[h]] /\ \A h \in Handles : StoreOK(handle[h], gen, file)
  /\ call = [t \in Threads |-> call[t]] /\ \A t \in Threads : CallOK(call[t], gen, file)
  /\ mu = [h \in Handles |-> mu[h]] /\ Mutex

\* The handle of each thread: the writing process has one, each reader its own.
LEMMA HandleOfTyped ==
  /\ Writer \in Handles
  /\ \A t \in Threads : HandleOf(t) \in Handles
  /\ \A t \in Readers : HandleOf(t) = t
  /\ \A t \in WriterThreads : HandleOf(t) = Writer /\ t \in Threads
  /\ \A t \in Threads : t \notin WriterThreads => HandleOf(t) # Writer
  /\ \A t \in Threads : t # Nil
  BY ThreadAssumption DEF HandleOf, Handles, Threads

\* The typing invariant holds before any call.
LEMMA TypeInvInit == Init => TypeInv
<1> SUFFICES ASSUME Init PROVE TypeInv
  OBVIOUS
<1>0. <<>> \in Seq(Segment)
  OBVIOUS
<1>1. DiskOK
  <2>1. exists \in BOOLEAN /\ file \in Seq(Segment)
    BY <1>0 DEF Init
  <2>2. gen \in Nat /\ orphans \subseteq StoredRecord
    BY DEF Init
  <2> QED BY <2>1, <2>2 DEF DiskOK
<1>2. \A h \in Handles : StoreOK(handle[h], gen, file)
  BY DEF Init, StoreOK, Closed
<1>3. \A t \in Threads : CallOK(call[t], gen, file)
  BY DEF Init, CallOK, Idle
<1>4. Mutex
  BY HandleOfTyped DEF Init, Mutex, Idle, Critical
<1> QED BY <1>1, <1>2, <1>3, <1>4 DEF Init, TypeInv

\* Steps that append to the file or leave it alone, and renames, keep entries
\* pointing at lines.
LEMMA PointedKept ==
  ASSUME DiskOK, DiskOK',
         \/ gen' = gen /\ DOMAIN file \subseteq DOMAIN file'
         \/ gen' = gen + 1,
         NEW e, Pointed(e, gen, file)
  PROVE  Pointed(e, gen', file')
  BY DEF DiskOK, Pointed

\* A thread takes the mutex when it is free, releases it when it holds it, or
\* does neither.
LEMMA MutexStep ==
  ASSUME TypeInv, NEW t \in Threads, NEW c, call' = [call EXCEPT ![t] = c],
         \/ mu' = mu /\ call[t].pc \notin Critical /\ c.pc \notin Critical
         \/ Free(t) /\ Acquire(t) /\ c.pc \in Critical
         \/ call[t].pc \in Critical /\ Release(t) /\ c.pc \notin Critical
  PROVE  Mutex' /\ mu' = [h \in Handles |-> mu'[h]]
<1> SUFFICES ASSUME NEW u \in Threads
             PROVE  /\ call'[u].pc \in Critical <=> mu'[HandleOf(u)] = u
                    /\ mu' = [h \in Handles |-> mu'[h]]
  BY DEF Mutex
<1>1. /\ call[u].pc \in Critical <=> mu[HandleOf(u)] = u
      /\ call[t].pc \in Critical <=> mu[HandleOf(t)] = t
  BY DEF TypeInv, Mutex
<1> QED BY <1>1, HandleOfTyped DEF TypeInv, Free, Acquire, Release

\* A step of one thread, outside the file.
LEMMA ThreadStep ==
  ASSUME TypeInv, NEW t \in Threads, NEW c, call' = [call EXCEPT ![t] = c],
         UNCHANGED <<disk, handle>>, CallOK(c, gen, file),
         \/ mu' = mu /\ call[t].pc \notin Critical /\ c.pc \notin Critical
         \/ Free(t) /\ Acquire(t) /\ c.pc \in Critical
         \/ call[t].pc \in Critical /\ Release(t) /\ c.pc \notin Critical
  PROVE  TypeInv'
<1>1. DiskOK' /\ \A h \in Handles : StoreOK(handle'[h], gen', file')
  BY DEF TypeInv, DiskOK, StoreOK, Pointed, disk
<1>2. \A u \in Threads : CallOK(call'[u], gen', file')
  BY DEF TypeInv, CallOK, Pointed, disk
<1>3. Mutex' /\ mu' = [h \in Handles |-> mu'[h]]
  BY MutexStep
<1> QED BY <1>1, <1>2, <1>3 DEF TypeInv

\* The calls that a step can leave behind.
LEMMA AtOK ==
  ASSUME NEW c, NEW pc, NEW rec, NEW at, NEW out,
         pc \in {"putLock", "putAppend"} => \E r \in Records : rec = Prepared(r),
         pc = "purgeRewrite" => \E s \in StoredRecord : rec = Tombstoned(s),
         pc = "getRead" => Pointed(at, gen, file)
  PROVE  CallOK(At(c, pc, rec, at, out), gen, file) /\ At(c, pc, rec, at, out).pc = pc
  BY DEF CallOK, At

\* A call that has just been made is typed.
LEMMA InvocationOK ==
  ASSUME NEW op, NEW pc, NEW id, NEW rec, NEW out,
         pc \in {"done", "putLock", "getLock", "purgeLock"},
         pc = "putLock" => \E r \in Records : rec = Prepared(r)
  PROVE  CallOK(Invocation(op, pc, id, rec, out), gen, file) /\ Invocation(op, pc, id, rec, out).pc = pc
  BY DEF CallOK, Invocation

\* A call that returns is typed.
LEMMA ReturnOK ==
  ASSUME NEW t \in Threads, NEW out, Return(t, out)
  PROVE  \E c : call' = [call EXCEPT ![t] = c] /\ CallOK(c, gen, file) /\ c.pc = "done"
<1> DEFINE c == At(call[t], "done",
                   IF call[t].op = "put" /\ out.err = "ok" THEN call[t].rec ELSE Nil,
                   Nil, out)
<1>1. CallOK(c, gen, file) /\ c.pc = "done"
  BY AtOK
<1>2. call' = [call EXCEPT ![t] = c]
  BY DEF Return
<1> QED BY <1>1, <1>2

\* What readAt finds is a record of the file.
LEMMA ReadTyped ==
  ASSUME TypeInv, NEW e, Pointed(e, gen, file), NEW out \in readAt(e), out.err = "ok"
  PROVE  \E i \in DOMAIN file : file[i].part = "full" /\ out = Ok(file[i].rec)
<1>1. CASE e.gen = gen
  BY <1>1 DEF readAt, Found, Pointed, Ok, Fail
<1>2. CASE e.gen # gen
  BY <1>2 DEF readAt, Found, Ok, Fail
<1> QED BY <1>1, <1>2

-----------------------------------------------------------------------------
\* The steps of a call.

\* Invoking a method keeps the typing.
LEMMA CallSteps ==
  ASSUME TypeInv, NEW t \in Threads,
         PutCall(t) \/ GetCall(t) \/ PurgeCall(t)
  PROVE  TypeInv'
<1>1. call[t].pc \notin Critical /\ UNCHANGED <<disk, handle, mu>>
  BY DEF PutCall, GetCall, PurgeCall, Ready, Critical
<1>2. ASSUME NEW c, call' = [call EXCEPT ![t] = c], CallOK(c, gen, file), c.pc \notin Critical
      PROVE  TypeInv'
  BY <1>1, <1>2, ThreadStep
<1>3. CASE PutCall(t)
  <2>1. PICK r \in Records : call' = [call EXCEPT ![t] =
          IF AdmissionError(r, handle[Writer].trusted) # "ok"
          THEN Invocation("put", "done", r.id, Nil,
                          Fail(AdmissionError(r, handle[Writer].trusted)))
          ELSE Invocation("put", "putLock", r.id, Prepared(r), Fail("none"))]
    BY <1>3 DEF PutCall
  <2> DEFINE c == IF AdmissionError(r, handle[Writer].trusted) # "ok"
          THEN Invocation("put", "done", r.id, Nil,
                          Fail(AdmissionError(r, handle[Writer].trusted)))
          ELSE Invocation("put", "putLock", r.id, Prepared(r), Fail("none"))
  <2>2. CallOK(c, gen, file) /\ c.pc \notin Critical
    BY InvocationOK DEF Critical
  <2>3. call' = [call EXCEPT ![t] = c]
    BY <2>1
  <2> HIDE DEF c
  <2> QED BY <2>2, <2>3, <1>2
<1>4. CASE GetCall(t)
  <2>1. PICK id \in Id : call' = [call EXCEPT ![t] =
          IF id \in ValidId THEN Invocation("get", "getLock", id, Nil, Fail("none"))
          ELSE Invocation("get", "done", id, Nil, Fail("ErrInvalid"))]
    BY <1>4 DEF GetCall
  <2> DEFINE c == IF id \in ValidId THEN Invocation("get", "getLock", id, Nil, Fail("none"))
          ELSE Invocation("get", "done", id, Nil, Fail("ErrInvalid"))
  <2>2. CallOK(c, gen, file) /\ c.pc \notin Critical
    BY InvocationOK DEF Critical
  <2>3. call' = [call EXCEPT ![t] = c]
    BY <2>1
  <2> HIDE DEF c
  <2> QED BY <2>2, <2>3, <1>2
<1>5. CASE PurgeCall(t)
  <2>1. PICK id \in Id : call' = [call EXCEPT ![t] =
          IF id \in ValidId THEN Invocation("purge", "purgeLock", id, Nil, Fail("none"))
          ELSE Invocation("purge", "done", id, Nil, Fail("ErrInvalid"))]
    BY <1>5 DEF PurgeCall
  <2> DEFINE c == IF id \in ValidId THEN Invocation("purge", "purgeLock", id, Nil, Fail("none"))
          ELSE Invocation("purge", "done", id, Nil, Fail("ErrInvalid"))
  <2>2. CallOK(c, gen, file) /\ c.pc \notin Critical
    BY InvocationOK DEF Critical
  <2>3. call' = [call EXCEPT ![t] = c]
    BY <2>1
  <2> HIDE DEF c
  <2> QED BY <2>2, <2>3, <1>2
<1> QED BY <1>3, <1>4, <1>5

\* So does taking the mutex,
LEMMA LockSteps ==
  ASSUME TypeInv, NEW t \in Threads, Lock(t)
  PROVE  TypeInv'
<1>0. /\ CallOK(call[t], gen, file) /\ StoreOK(handle[HandleOf(t)], gen, file) /\ StoreOK(handle[Writer], gen, file)
      /\ call = [u \in Threads |-> call[u]]
  BY HandleOfTyped DEF TypeInv
<1>1. UNCHANGED <<disk, handle>> /\ Free(t) /\ call[t].pc \notin Critical
  BY DEF Lock, PutRetry, PutLock, GetLookup, PurgeLock, Critical, disk
<1>2. ASSUME NEW out, Return(t, out), UNCHANGED mu
      PROVE  TypeInv'
  BY <1>1, <1>2, ReturnOK, ThreadStep DEF Critical
<1>3. ASSUME NEW c, call' = [call EXCEPT ![t] = c], CallOK(c, gen, file), Acquire(t), c.pc \in Critical
      PROVE  TypeInv'
  BY <1>1, <1>3, ThreadStep
<1>4. CASE PutRetry(t)
  BY <1>4, <1>2 DEF PutRetry
<1>5. CASE PutLock(t)
  <2> DEFINE c == At(call[t], "putAppend", call[t].rec, Nil, call[t].out)
  <2>1. CallOK(c, gen, file) /\ c.pc \in Critical
    BY <1>0, <1>5, AtOK DEF PutLock, CallOK, Critical
  <2>2. call' = [call EXCEPT ![t] = c] /\ Acquire(t)
    BY <1>0, <1>5 DEF PutLock
  <2> QED BY <2>1, <2>2, <1>3
<1>6. CASE GetLookup(t)
  <2> DEFINE index == handle[HandleOf(t)].index
             c == At(call[t], "getRead", Nil, index[call[t].id], call[t].out)
  <2>1. CASE call[t].id \notin DOMAIN index
    BY <1>6, <2>1, <1>2 DEF GetLookup
  <2>2. CASE call[t].id \in DOMAIN index
    <3>1. CallOK(c, gen, file) /\ c.pc \in Critical
      BY <1>0, <2>2, AtOK DEF StoreOK, Critical
    <3>2. call' = [call EXCEPT ![t] = c] /\ Acquire(t)
      BY <1>0, <1>6, <2>2 DEF GetLookup
    <3> QED BY <3>1, <3>2, <1>3
  <2> QED BY <2>1, <2>2
<1>7. CASE PurgeLock(t)
  <2> DEFINE index == handle[Writer].index
  <2>1. CASE call[t].id \notin DOMAIN index
    BY <1>7, <2>1, <1>2 DEF PurgeLock
  <2>2. CASE call[t].id \in DOMAIN index
    <3>1. PICK out \in readAt(index[call[t].id]) :
            LET err == PurgeError(call[t].id, out)
            IN  IF err # "ok" THEN Return(t, Fail(err)) /\ UNCHANGED mu
                ELSE /\ call' = [call EXCEPT ![t] = At(call[t], "purgeRewrite",
                                        Tombstoned(out.rec), Nil, call[t].out)]
                     /\ Acquire(t)
      BY <1>7, <2>2 DEF PurgeLock
    <3>2. CASE PurgeError(call[t].id, out) # "ok"
      BY <3>1, <3>2, <1>2
    <3>3. CASE PurgeError(call[t].id, out) = "ok"
      <4> DEFINE c == At(call[t], "purgeRewrite", Tombstoned(out.rec), Nil, call[t].out)
      <4>1. out.err = "ok"
        BY <3>3 DEF PurgeError
      <4>2. PICK i \in DOMAIN file : out = Ok(file[i].rec)
        BY <4>1, <1>0, <2>2, ReadTyped DEF StoreOK
      <4>3. out.rec \in StoredRecord
        <5>1. file[i] \in Segment
          BY <4>2 DEF TypeInv, DiskOK
        <5> QED BY <5>1, <4>2 DEF Segment, Ok
      <4>4. CallOK(c, gen, file) /\ c.pc \in Critical
        BY <4>3, AtOK DEF Critical
      <4>5. call' = [call EXCEPT ![t] = c] /\ Acquire(t)
        BY <1>0, <3>1, <3>3
      <4> QED BY <4>4, <4>5, <1>3
    <3> QED BY <3>2, <3>3
  <2> QED BY <2>1, <2>2
<1> QED BY <1>4, <1>5, <1>6, <1>7 DEF Lock

\* A line that reaches the file's end, whole or torn.
LEMMA AppendOK ==
  ASSUME TypeInv, NEW t \in Threads, call[t].pc = "putAppend",
         NEW part \in Part, NEW nl \in BOOLEAN, Append1(call[t].rec, part, nl),
         UNCHANGED <<exists, gen, orphans>>
  PROVE  /\ DiskOK'
         /\ DOMAIN file \subseteq DOMAIN file'
         /\ Len(file) + 1 \in DOMAIN file'
<1> DEFINE s == [rec |-> Wire(call[t].rec), part |-> part, nl |-> nl]
<1>1. \E r \in Records : call[t].rec = Prepared(r)
  BY DEF TypeInv, CallOK
<1>2. s \in Segment
  BY <1>1 DEF Segment, StoredRecord
<1>3. file \in Seq(Segment) /\ file' = Append(file, s)
  BY DEF TypeInv, DiskOK, Append1
<1> HIDE DEF s
<1>4. file' \in Seq(Segment) /\ Len(file') = Len(file) + 1
  BY <1>2, <1>3
<1>5. DOMAIN file = 1..Len(file) /\ DOMAIN file' = 1..Len(file') /\ Len(file) \in Nat
  BY <1>3, <1>4
<1>6. DOMAIN file \subseteq DOMAIN file' /\ Len(file) + 1 \in DOMAIN file'
  BY <1>4, <1>5
<1> QED BY <1>4, <1>6 DEF TypeInv, DiskOK

\* The file that rewrite renames into place.
LEMMA RenameOK ==
  ASSUME TypeInv, NEW t \in Threads, call[t].pc = "purgeRewrite",
         Rename(call[t].id, call[t].rec), UNCHANGED <<exists, orphans>>
  PROVE  DiskOK' /\ gen' = gen + 1
<1>1. Wire(call[t].rec) \in StoredRecord
  BY StoredRecordClosed DEF TypeInv, CallOK
<1> QED BY <1>1, RewrittenTyped DEF TypeInv, DiskOK, Rename

\* A step that returns from the critical section, with what it does to the
\* file and to the writer's index.
LEMMA ReturnStep ==
  ASSUME TypeInv, NEW t \in Threads, NEW out, Return(t, out),
         call[t].pc \in Critical, Release(t), DiskOK',
         \/ gen' = gen /\ DOMAIN file \subseteq DOMAIN file'
         \/ gen' = gen + 1,
         handle' = [h \in Handles |-> handle'[h]],
         \A h \in Handles : handle'[h] # handle[h] => StoreOK(handle'[h], gen', file')
  PROVE  TypeInv'
<1>1. PICK c : call' = [call EXCEPT ![t] = c] /\ CallOK(c, gen, file) /\ c.pc = "done"
  BY ReturnOK
<1>2. \A e : Pointed(e, gen, file) => Pointed(e, gen', file')
  BY PointedKept DEF TypeInv
<1>3. \A h \in Handles : StoreOK(handle'[h], gen', file')
  BY <1>2 DEF TypeInv, StoreOK
<1>4. \A u \in Threads : CallOK(call'[u], gen', file')
  BY <1>1, <1>2 DEF TypeInv, CallOK
<1>5. Mutex' /\ mu' = [h \in Handles |-> mu'[h]]
  BY <1>1, MutexStep DEF Critical
<1> QED BY <1>1, <1>3, <1>4, <1>5 DEF TypeInv

\* every step of a method under the mutex or at its end,
LEMMA ProceedSteps ==
  ASSUME TypeInv, NEW t \in Threads, Proceed(t)
  PROVE  TypeInv'
<1>0. DiskOK /\ handle = [h \in Handles |-> handle[h]] /\ Writer \in Handles
      /\ StoreOK(handle[Writer], gen, file)
  BY HandleOfTyped DEF TypeInv
<1>1. CASE PutAppend(t)
  <2> DEFINE n == Len(file) + 1
             r == call[t].rec
             index == handle[Writer].index
             entry == [gen |-> gen, first |-> n, last |-> n]
             new == [id \in DOMAIN index \cup {r.id} |->
                       IF id = r.id THEN entry ELSE index[id]]
  <2>1. /\ call[t].pc = "putAppend" /\ Append1(r, "full", TRUE)
        /\ handle' = [handle EXCEPT ![Writer].index = new]
        /\ Return(t, Fail("ok")) /\ Release(t) /\ UNCHANGED <<exists, gen, orphans>>
    BY <1>1 DEF PutAppend
  <2>2. DiskOK' /\ DOMAIN file \subseteq DOMAIN file' /\ n \in DOMAIN file'
    BY <2>1, AppendOK DEF Part
  <2>3. Pointed(entry, gen', file')
    <3>1. n \in Nat
      BY <1>0 DEF DiskOK
    <3> QED BY <1>0, <2>1, <2>2, <3>1 DEF DiskOK, Pointed
  <2>4. r.id \in Id
    BY <2>1, RecordAssumption, PreparedIsRecord DEF TypeInv, CallOK
  <2>5. \A id \in DOMAIN index : Pointed(index[id], gen', file')
    BY <1>0, <2>1, <2>2, PointedKept DEF StoreOK
  <2>6. StoreOK(handle'[Writer], gen', file') /\ handle' = [h \in Handles |-> handle'[h]]
    <3>1. handle'[Writer] = [open |-> handle[Writer].open,
                             trusted |-> handle[Writer].trusted, index |-> new]
      BY <1>0, <2>1 DEF StoreOK
    <3>2. DOMAIN new \subseteq Id /\ \A id \in DOMAIN new : Pointed(new[id], gen', file')
      BY <1>0, <2>3, <2>4, <2>5 DEF StoreOK
    <3> HIDE DEF new
    <3> QED BY <1>0, <2>1, <3>1, <3>2 DEF StoreOK
  <2> HIDE DEF new
  <2>7. \A h \in Handles : handle'[h] # handle[h] => h = Writer
    BY <1>0, <2>1
  <2> QED BY <2>1, <2>2, <2>6, <2>7, ReturnStep DEF Critical
<1>2. CASE PutFail(t)
  <2>1. call[t].pc = "putAppend" /\ Return(t, Fail("ErrIO")) /\ Release(t)
        /\ UNCHANGED <<exists, gen, orphans, handle>>
    BY <1>2 DEF PutFail
  <2>2. DiskOK' /\ DOMAIN file \subseteq DOMAIN file'
    <3>1. CASE UNCHANGED file
      BY <1>0, <2>1, <3>1 DEF DiskOK
    <3>2. CASE \E part \in {"full", "id", "short"} : Append1(call[t].rec, part, FALSE)
      BY <2>1, <3>2, AppendOK DEF Part
    <3> QED BY <1>2, <3>1, <3>2 DEF PutFail
  <2> QED BY <1>0, <2>1, <2>2, ReturnStep DEF Critical
<1>3. CASE GetRead(t)
  <2>1. PICK out : call' = [call EXCEPT ![t] = At(call[t], "getReturn", Nil, Nil, out)]
    BY <1>3 DEF GetRead
  <2> DEFINE c == At(call[t], "getReturn", Nil, Nil, out)
  <2>2. CallOK(c, gen, file) /\ c.pc = "getReturn"
    BY AtOK
  <2> HIDE DEF c
  <2> QED BY <1>3, <2>1, <2>2, ThreadStep DEF GetRead, Critical, c
<1>4. CASE GetReturn(t)
  <2>1. PICK c : call' = [call EXCEPT ![t] = c] /\ CallOK(c, gen, file) /\ c.pc = "done"
    BY <1>4, ReturnOK DEF GetReturn
  <2> QED BY <1>4, <2>1, ThreadStep DEF GetReturn, Critical
<1>5. CASE PurgeRewrite(t)
  <2>1. /\ call[t].pc = "purgeRewrite" /\ Rename(call[t].id, call[t].rec)
        /\ handle' = [handle EXCEPT ![Writer].index = newIndex(file', gen')]
        /\ Return(t, Fail("ok")) /\ Release(t) /\ UNCHANGED <<exists, orphans>>
    BY <1>5 DEF PurgeRewrite
  <2>2. DiskOK' /\ gen' = gen + 1
    BY <2>1, RenameOK
  <2> DEFINE new == newIndex(file', gen')
  <2>3. DOMAIN new \subseteq Id /\ \A id \in DOMAIN new : Pointed(new[id], gen', file')
    <3>1. /\ DOMAIN new \subseteq Id
          /\ \A id \in DOMAIN new :
               new[id] \in [gen : {gen'}, first : DOMAIN file', last : Nat]
      BY <2>2, IndexTyped DEF DiskOK
    <3>2. DOMAIN file' \subseteq Nat /\ gen' \in Nat
      BY <2>2 DEF DiskOK
    <3> HIDE DEF new
    <3> QED BY <3>1, <3>2 DEF Pointed
  <2>4. StoreOK(handle'[Writer], gen', file') /\ handle' = [h \in Handles |-> handle'[h]]
    <3>1. handle'[Writer] = [open |-> handle[Writer].open,
                             trusted |-> handle[Writer].trusted, index |-> new]
      BY <1>0, <2>1 DEF StoreOK
    <3> HIDE DEF new
    <3> QED BY <1>0, <2>1, <2>3, <3>1 DEF StoreOK
  <2> HIDE DEF new
  <2>5. \A h \in Handles : handle'[h] # handle[h] => h = Writer
    BY <1>0, <2>1
  <2> QED BY <2>1, <2>2, <2>4, <2>5, ReturnStep DEF Critical
<1>6. CASE PurgeFail(t)
  <2>1. PICK c : call' = [call EXCEPT ![t] = c] /\ CallOK(c, gen, file) /\ c.pc = "done"
    BY <1>6, ReturnOK DEF PurgeFail
  <2> QED BY <1>6, <2>1, ThreadStep DEF PurgeFail, Critical
<1> QED BY <1>1, <1>2, <1>3, <1>4, <1>5, <1>6 DEF Proceed

-----------------------------------------------------------------------------
\* Opening, creating and dying.

\* opening or creating the file,
LEMMA OpenSteps ==
  ASSUME TypeInv,
         \/ \E h \in Handles : New(h)
         \/ \E t \in WriterThreads : InitFile(t)
  PROVE  TypeInv'
<1>1. ASSUME NEW h \in Handles, New(h)
      PROVE  TypeInv'
  <2>1. PICK T \in TrustSets :
          handle' = [handle EXCEPT ![h] =
            [open |-> TRUE, trusted |-> T, index |-> scanIndex(file, gen)]]
    BY <1>1 DEF New
  <2>2. /\ UNCHANGED <<exists, file, gen, orphans>> /\ mu' = [mu EXCEPT ![h] = Nil]
        /\ call' = [t \in Threads |-> IF HandleOf(t) = h THEN Idle ELSE call[t]]
    BY <1>1 DEF New, NoCalls, disk
  <2> DEFINE index == scanIndex(file, gen)
  <2>3. DOMAIN index \subseteq Id /\ \A id \in DOMAIN index : Pointed(index[id], gen, file)
    <3>1. /\ DOMAIN index \subseteq Id
          /\ \A id \in DOMAIN index :
               index[id] \in [gen : {gen}, first : DOMAIN file, last : Nat]
      BY IndexTyped DEF TypeInv, DiskOK
    <3>2. DOMAIN file \subseteq Nat /\ gen \in Nat
      BY DEF TypeInv, DiskOK
    <3> HIDE DEF index
    <3> QED BY <3>1, <3>2 DEF Pointed
  <2> HIDE DEF index
  <2>4. StoreOK([open |-> TRUE, trusted |-> T, index |-> index], gen, file)
    BY <2>3 DEF StoreOK
  <2>5. \A g \in Handles : StoreOK(handle'[g], gen', file')
    BY <2>1, <2>2, <2>4 DEF TypeInv, index
  <2>6. CallOK(Idle, gen', file')
    BY DEF CallOK, Idle
  <2>7. \A t \in Threads : CallOK(call'[t], gen', file')
    BY <2>2, <2>6 DEF TypeInv
  <2>8. ASSUME NEW t \in Threads
        PROVE  call'[t].pc \in Critical <=> mu'[HandleOf(t)] = t
    <3>1. CASE HandleOf(t) = h
      BY <2>2, <3>1, HandleOfTyped DEF TypeInv, Idle, Critical
    <3>2. CASE HandleOf(t) # h
      BY <2>2, <3>2, HandleOfTyped DEF TypeInv, Mutex
    <3> QED BY <3>1, <3>2
  <2>9. Mutex'
    BY <2>8 DEF Mutex
  <2> QED BY <2>1, <2>2, <2>5, <2>7, <2>9 DEF TypeInv, DiskOK
<1>2. ASSUME NEW t \in WriterThreads, InitFile(t)
      PROVE  TypeInv'
  BY <1>2 DEF InitFile, TypeInv, DiskOK, Mutex
<1> QED BY <1>1, <1>2

\* Death keeps the rest of the system well typed, if it leaves the disk so.
LEMMA KillStep ==
  ASSUME TypeInv, Kill, DiskOK',
         \/ gen' = gen /\ DOMAIN file \subseteq DOMAIN file'
         \/ gen' = gen + 1
  PROVE  TypeInv'
<1>1. \A e : Pointed(e, gen, file) => Pointed(e, gen', file')
  BY PointedKept DEF TypeInv
<1>2. handle' = [handle EXCEPT ![Writer] = Closed] /\ mu' = [mu EXCEPT ![Writer] = Nil]
      /\ call' = [t \in Threads |-> IF HandleOf(t) = Writer THEN Idle ELSE call[t]]
      /\ \A t \in Threads : HandleOf(t) = Writer <=> t \in WriterThreads
  BY HandleOfTyped DEF Kill, NoCalls
<1>3. StoreOK(Closed, gen', file') /\ CallOK(Idle, gen', file')
  BY DEF StoreOK, Closed, CallOK, Idle
<1>4. \A h \in Handles : StoreOK(handle'[h], gen', file')
  BY <1>1, <1>2, <1>3 DEF TypeInv, StoreOK
<1>5. \A t \in Threads : CallOK(call'[t], gen', file')
  BY <1>1, <1>2, <1>3 DEF TypeInv, CallOK
<1>6. Mutex'
  <2> SUFFICES ASSUME NEW t \in Threads
               PROVE  call'[t].pc \in Critical <=> mu'[HandleOf(t)] = t
    BY DEF Mutex
  <2>1. CASE t \in WriterThreads
    BY <1>2, <2>1, HandleOfTyped DEF TypeInv, Idle, Critical
  <2>2. CASE t \notin WriterThreads
    BY <1>2, <2>2, HandleOfTyped DEF TypeInv, Mutex
  <2> QED BY <2>1, <2>2
<1> QED BY <1>2, <1>4, <1>5, <1>6 DEF TypeInv

\* and the death of a process, at whatever point.
LEMMA CrashSteps ==
  ASSUME TypeInv,
         \/ Crash
         \/ \E t \in WriterThreads :
              CrashInPut(t) \/ CrashAfterRename(t) \/ CrashBeforeRename(t)
  PROVE  TypeInv'
<1>0. DiskOK /\ WriterThreads \subseteq Threads
  BY DEF TypeInv, Threads
<1>1. CASE Crash
  BY <1>0, <1>1, KillStep DEF Crash, disk, DiskOK
<1>2. ASSUME NEW t \in WriterThreads, CrashInPut(t)
      PROVE  TypeInv'
  BY <1>0, <1>2, AppendOK, KillStep DEF CrashInPut, Part
<1>3. ASSUME NEW t \in WriterThreads, CrashAfterRename(t)
      PROVE  TypeInv'
  BY <1>0, <1>3, RenameOK, KillStep DEF CrashAfterRename
<1>4. ASSUME NEW t \in WriterThreads, CrashBeforeRename(t)
      PROVE  TypeInv'
  <2> DEFINE tmp == Rewritten(file, call[t].id, call[t].rec)
  <2>1. PICK n \in 1..Len(file) :
          orphans' = orphans \cup
            {tmp[i].rec : i \in {j \in 1..n : /\ tmp[j].part = "full"
                                             /\ Originals(tmp[j].rec) # {}}}
    BY <1>4 DEF CrashBeforeRename
  <2>2. tmp \in Seq(Segment) /\ Len(tmp) = Len(file)
    <3>1. Wire(call[t].rec) \in StoredRecord
      BY <1>0, <1>4, StoredRecordClosed DEF CrashBeforeRename, TypeInv, CallOK
    <3> QED BY <1>0, <3>1, RewrittenTyped DEF DiskOK
  <2> HIDE DEF tmp
  <2>3. \A i \in 1..n : tmp[i].rec \in StoredRecord
    <3>1. \A i \in 1..n : i \in 1..Len(tmp)
      BY <1>0, <2>2 DEF DiskOK
    <3>2. \A i \in 1..Len(tmp) : tmp[i] \in Segment
      BY <2>2
    <3> QED BY <3>1, <3>2 DEF Segment
  <2>4. UNCHANGED <<exists, file, gen>> /\ Kill
    BY <1>4 DEF CrashBeforeRename
  <2>5. DiskOK'
    BY <1>0, <2>1, <2>3, <2>4 DEF DiskOK
  <2> QED BY <2>4, <2>5, KillStep
<1> QED BY <1>1, <1>2, <1>3, <1>4

-----------------------------------------------------------------------------
\* Every step keeps the typing.
LEMMA TypeInvStep == TypeInv /\ [Next]_vars => TypeInv'
<1> SUFFICES ASSUME TypeInv, [Next]_vars PROVE TypeInv'
  OBVIOUS
<1>1. CASE Next
  BY <1>1, CallSteps, LockSteps, ProceedSteps, OpenSteps, CrashSteps DEF Next, Threads
<1>2. CASE UNCHANGED vars
  BY <1>2 DEF vars, TypeInv, DiskOK, Mutex
<1> QED BY <1>1, <1>2

\* The invariant always holds.
THEOREM TypeInvariant == Spec => []TypeInv
  BY TypeInvInit, TypeInvStep, PTL DEF Spec

\* Type correctness, and the mutex discipline of Put, Get and Purge: in every
\* reachable state, however many threads, readers, crashes and torn writes, a
\* thread is in a critical section exactly if it holds its Store's mutex.
THEOREM TypeCorrect == Spec => []TypeOK
<1>1. TypeInv => TypeOK
  BY DEF TypeInv, TypeOK, DiskOK, StoreOK, Mutex, Pointed, IndexEntry
<1> QED BY <1>1, TypeInvariant, PTL
-----------------------------------------------------------------------------
\* Reads fail closed.

\* What a Get holds once it has read, and what it answers: a record of the
\* file, and only one of the id asked for that T, its Store's keys, verify.
AnswerOK(c, T) ==
  /\ c.pc \in {"putLock", "putAppend"} => c.op = "put"
  /\ c.pc \in {"purgeLock", "purgeRewrite"} => c.op = "purge"
  /\ c.pc \in {"getLock", "getRead", "getReturn"} => c.op = "get"
  /\ c.pc = "getReturn" /\ c.out.err = "ok" => c.out.rec \in StoredRecord
  /\ c.pc = "done" /\ c.op = "get" /\ c.out.err = "ok" =>
       /\ c.out.rec \in StoredRecord
       /\ c.out.rec.id = c.id
       /\ Verify(c.out.rec, T) = "ok"

Trusted(t) == handle[HandleOf(t)].trusted

AnswerInv == \A t \in Threads : AnswerOK(call[t], Trusted(t))

\* Within a process nobody changes whom its Store trusts.
KeysKept == \A t \in Threads : Trusted(t)' = Trusted(t)

\* A step of one thread.
LEMMA AnswerStep ==
  ASSUME TypeInv, AnswerInv, KeysKept, NEW t \in Threads, NEW c,
         call' = [call EXCEPT ![t] = c], AnswerOK(c, Trusted(t))
  PROVE  AnswerInv'
<1>1. \A u \in Threads : call'[u] = IF u = t THEN c ELSE call[u]
  BY DEF TypeInv
<1> QED BY <1>1 DEF AnswerInv, KeysKept

\* A call that begins, and may already be refused.
LEMMA AnswerInvoked ==
  ASSUME TypeInv, AnswerInv, KeysKept,
         NEW t \in Threads, NEW op, NEW pc, NEW id, NEW rec, NEW e,
         call' = [call EXCEPT ![t] = Invocation(op, pc, id, rec, Fail(e))],
         \/ pc = "done" /\ e # "ok"
         \/ <<op, pc>> \in {<<"put", "putLock">>, <<"get", "getLock">>,
                            <<"purge", "purgeLock">>}
  PROVE  AnswerInv'
<1> DEFINE c == Invocation(op, pc, id, rec, Fail(e))
<1>1. c.op = op /\ c.pc = pc /\ c.out.err = e
  BY DEF Invocation, Fail
<1>2. call' = [call EXCEPT ![t] = c]
  OBVIOUS
<1> HIDE DEF c
<1>3. AnswerOK(c, Trusted(t))
  BY <1>1 DEF AnswerOK
<1> QED BY <1>2, <1>3, AnswerStep

\* A call that moves on inside its method, before it has read anything.
LEMMA AnswerMoved ==
  ASSUME TypeInv, AnswerInv, KeysKept,
         NEW t \in Threads, NEW pc, NEW rec, NEW at, NEW out,
         call' = [call EXCEPT ![t] = At(call[t], pc, rec, at, out)],
         <<call[t].pc, pc>> \in {<<"putLock", "putAppend">>, <<"getLock", "getRead">>,
                                 <<"purgeLock", "purgeRewrite">>}
  PROVE  AnswerInv'
<1> DEFINE c == At(call[t], pc, rec, at, out)
<1>1. c.op = call[t].op /\ c.pc = pc
  BY DEF At
<1>2. call' = [call EXCEPT ![t] = c]
  OBVIOUS
<1> HIDE DEF c
<1>3. AnswerOK(c, Trusted(t))
  BY <1>1 DEF AnswerOK, AnswerInv
<1> QED BY <1>2, <1>3, AnswerStep

\* A call that returns: a Put, a Purge, or a Get that fails or verified.
LEMMA AnswerReturned ==
  ASSUME TypeInv, AnswerInv, KeysKept, NEW t \in Threads, NEW out, Return(t, out),
         \/ call[t].pc \in {"putLock", "putAppend", "purgeLock", "purgeRewrite"}
         \/ out.err # "ok"
         \/ /\ out.rec \in StoredRecord
            /\ out.rec.id = call[t].id
            /\ Verify(out.rec, Trusted(t)) = "ok"
  PROVE  AnswerInv'
<1> DEFINE c == At(call[t], "done",
                   IF call[t].op = "put" /\ out.err = "ok" THEN call[t].rec ELSE Nil,
                   Nil, out)
<1>1. c.op = call[t].op /\ c.pc = "done" /\ c.id = call[t].id /\ c.out = out
  BY DEF At
<1>2. call' = [call EXCEPT ![t] = c]
  BY DEF Return
<1> HIDE DEF c
<1>3. AnswerOK(c, Trusted(t))
  BY <1>1 DEF AnswerOK, AnswerInv
<1> QED BY <1>2, <1>3, AnswerStep

\* No step of a call touches the keys of a Store.
LEMMA StepKeepsKeys ==
  ASSUME TypeInv, NEW t \in Threads,
         PutCall(t) \/ GetCall(t) \/ PurgeCall(t) \/ Lock(t) \/ Proceed(t)
  PROVE  KeysKept
<1>1. CASE handle' = handle
  BY <1>1 DEF KeysKept, Trusted
<1>2. ASSUME NEW index, handle' = [handle EXCEPT ![Writer].index = index]
      PROVE  KeysKept
  <2>1. \A h \in Handles : handle'[h].trusted = handle[h].trusted
    BY <1>2 DEF TypeInv, StoreOK
  <2> QED BY <2>1, HandleOfTyped DEF KeysKept, Trusted
<1>3. CASE PutAppend(t)
  BY <1>2, <1>3 DEF PutAppend
<1>4. CASE PurgeRewrite(t)
  BY <1>2, <1>4 DEF PurgeRewrite
<1>5. CASE ~ PutAppend(t) /\ ~ PurgeRewrite(t)
  <2>1. handle' = handle
    BY <1>5 DEF PutCall, GetCall, PurgeCall, Lock, PutRetry, PutLock, GetLookup, PurgeLock,
                Proceed, PutFail, GetRead, GetReturn, PurgeFail
  <2> QED BY <1>1, <2>1
<1> QED BY <1>3, <1>4, <1>5

\* Beginning a call and taking the mutex.
LEMMA AnswerBeforeRead ==
  ASSUME TypeInv, AnswerInv, NEW t \in Threads,
         PutCall(t) \/ GetCall(t) \/ PurgeCall(t) \/ Lock(t)
  PROVE  AnswerInv'
<1>0. KeysKept
  BY StepKeepsKeys
<1>1. CASE PutCall(t)
  <2>1. PICK r \in Records : call' = [call EXCEPT ![t] =
          IF AdmissionError(r, handle[Writer].trusted) # "ok"
          THEN Invocation("put", "done", r.id, Nil,
                          Fail(AdmissionError(r, handle[Writer].trusted)))
          ELSE Invocation("put", "putLock", r.id, Prepared(r), Fail("none"))]
    BY <1>1 DEF PutCall
  <2> DEFINE err == AdmissionError(r, handle[Writer].trusted)
  <2> HIDE DEF err
  <2>2. CASE err # "ok"
    <3>1. call' = [call EXCEPT ![t] = Invocation("put", "done", r.id, Nil, Fail(err))]
      BY <2>1, <2>2 DEF err
    <3> QED BY <1>0, <2>2, <3>1, AnswerInvoked
  <2>3. CASE err = "ok"
    <3>1. call' = [call EXCEPT ![t] =
            Invocation("put", "putLock", r.id, Prepared(r), Fail("none"))]
      BY <2>1, <2>3 DEF err
    <3> QED BY <1>0, <3>1, AnswerInvoked
  <2> QED BY <2>2, <2>3
<1>2. CASE GetCall(t)
  <2>1. PICK id \in Id : call' = [call EXCEPT ![t] =
          IF id \in ValidId THEN Invocation("get", "getLock", id, Nil, Fail("none"))
          ELSE Invocation("get", "done", id, Nil, Fail("ErrInvalid"))]
    BY <1>2 DEF GetCall
  <2> QED BY <1>0, <2>1, AnswerInvoked
<1>3. CASE PurgeCall(t)
  <2>1. PICK id \in Id : call' = [call EXCEPT ![t] =
          IF id \in ValidId THEN Invocation("purge", "purgeLock", id, Nil, Fail("none"))
          ELSE Invocation("purge", "done", id, Nil, Fail("ErrInvalid"))]
    BY <1>3 DEF PurgeCall
  <2> QED BY <1>0, <2>1, AnswerInvoked
<1>4. CASE PutRetry(t)
  BY <1>0, <1>4, AnswerReturned DEF PutRetry
<1>5. CASE PutLock(t)
  BY <1>0, <1>5, AnswerMoved DEF PutLock
<1>6. CASE GetLookup(t)
  <2>1. CASE call[t].id \notin DOMAIN handle[HandleOf(t)].index
    <3>1. Return(t, Fail("ErrNotFound")) /\ Fail("ErrNotFound").err # "ok"
      BY <1>6, <2>1 DEF GetLookup, Fail
    <3> QED BY <1>0, <3>1, AnswerReturned
  <2>2. CASE call[t].id \in DOMAIN handle[HandleOf(t)].index
    BY <1>0, <1>6, <2>2, AnswerMoved DEF GetLookup
  <2> QED BY <2>1, <2>2
<1>7. CASE PurgeLock(t)
  <2>1. ASSUME NEW out, Return(t, out)
        PROVE  AnswerInv'
    BY <1>0, <1>7, <2>1, AnswerReturned DEF PurgeLock
  <2>2. ASSUME NEW rec, call' = [call EXCEPT ![t] =
                          At(call[t], "purgeRewrite", rec, Nil, call[t].out)]
        PROVE  AnswerInv'
    BY <1>0, <1>7, <2>2, AnswerMoved DEF PurgeLock
  <2> QED BY <1>7, <2>1, <2>2 DEF PurgeLock
<1> QED BY <1>1, <1>2, <1>3, <1>4, <1>5, <1>6, <1>7 DEF Lock

\* Reading, returning, and the effects of Put and Purge.
LEMMA AnswerProceeds ==
  ASSUME TypeInv, AnswerInv, NEW t \in Threads, Proceed(t)
  PROVE  AnswerInv'
<1>0. KeysKept
  BY StepKeepsKeys
<1>1. CASE PutAppend(t)
  BY <1>0, <1>1, AnswerReturned DEF PutAppend
<1>2. CASE PutFail(t)
  BY <1>0, <1>2, AnswerReturned DEF PutFail
<1>3. CASE GetRead(t)
  <2>1. PICK out \in readAt(call[t].at) :
          call' = [call EXCEPT ![t] = At(call[t], "getReturn", Nil, Nil, out)]
    BY <1>3 DEF GetRead
  <2>2. Pointed(call[t].at, gen, file) /\ call[t].op = "get"
    BY <1>3 DEF GetRead, TypeInv, CallOK, AnswerInv, AnswerOK
  <2>3. out.err = "ok" => out.rec \in StoredRecord
    <3> SUFFICES ASSUME out.err = "ok" PROVE out.rec \in StoredRecord
      OBVIOUS
    <3>1. PICK i \in DOMAIN file : out = Ok(file[i].rec)
      BY <2>1, <2>2, ReadTyped
    <3>2. file[i] \in Segment
      BY <3>1 DEF TypeInv, DiskOK
    <3> QED BY <3>1, <3>2 DEF Segment, Ok
  <2> DEFINE c == At(call[t], "getReturn", Nil, Nil, out)
  <2>4. c.op = "get" /\ c.pc = "getReturn" /\ c.out = out
    BY <2>2 DEF At
  <2>5. call' = [call EXCEPT ![t] = c]
    BY <2>1
  <2> HIDE DEF c
  <2>6. AnswerOK(c, Trusted(t))
    BY <2>3, <2>4 DEF AnswerOK
  <2> QED BY <1>0, <2>5, <2>6, AnswerStep
<1>4. CASE GetReturn(t)
  <2> DEFINE read == call[t].out
             out == GetResult(call[t].id, read, Trusted(t))
  <2>1. Return(t, out) /\ call[t].pc = "getReturn"
    BY <1>4 DEF GetReturn, Trusted
  <2>2. read.err = "ok" => read.rec \in StoredRecord
    BY <2>1 DEF AnswerInv, AnswerOK
  <2>3. out.err = "ok" =>
          out = read /\ read.rec.id = call[t].id /\ Verify(read.rec, Trusted(t)) = "ok"
    <3> HIDE DEF read
    <3> QED BY DEF GetResult, Fail
  <2> HIDE DEF read, out
  <2> QED BY <1>0, <2>1, <2>2, <2>3, AnswerReturned
<1>5. CASE PurgeRewrite(t)
  BY <1>0, <1>5, AnswerReturned DEF PurgeRewrite
<1>6. CASE PurgeFail(t)
  BY <1>0, <1>6, AnswerReturned DEF PurgeFail
<1> QED BY <1>1, <1>2, <1>3, <1>4, <1>5, <1>6 DEF Proceed

\* Every step keeps what Get is about to answer authentic.
LEMMA AnswerInvStep == TypeInv /\ AnswerInv /\ [Next]_vars => AnswerInv'
<1> SUFFICES ASSUME TypeInv, AnswerInv, [Next]_vars PROVE AnswerInv'
  OBVIOUS
<1>1. ASSUME call' = call, handle' = handle
      PROVE  AnswerInv'
  BY <1>1 DEF AnswerInv, Trusted
<1>2. ASSUME NEW h \in Handles, NEW s, handle' = [handle EXCEPT ![h] = s], NoCalls(h)
      PROVE  AnswerInv'
  <2> SUFFICES ASSUME NEW t \in Threads PROVE AnswerOK(call[t], Trusted(t))'
    BY DEF AnswerInv
  <2>1. \A T : AnswerOK(Idle, T)
    BY DEF AnswerOK, Idle
  <2>2. CASE HandleOf(t) = h
    BY <1>2, <2>1, <2>2 DEF NoCalls
  <2>3. CASE HandleOf(t) # h
    <3>1. call'[t] = call[t] /\ Trusted(t)' = Trusted(t)
      BY <1>2, <2>3, HandleOfTyped DEF NoCalls, Trusted, TypeInv
    <3> QED BY <3>1 DEF AnswerInv
  <2> QED BY <2>2, <2>3
<1>5. ASSUME Kill
      PROVE  AnswerInv'
  BY <1>2, <1>5, HandleOfTyped DEF Kill
<1>3. CASE Next
  <2>1. ASSUME NEW h \in Handles, New(h)
        PROVE  AnswerInv'
    BY <2>1, <1>2 DEF New
  <2>2. ASSUME NEW t \in WriterThreads, InitFile(t)
        PROVE  AnswerInv'
    BY <2>2, <1>1 DEF InitFile
  <2>3. ASSUME NEW t \in WriterThreads,
               CrashInPut(t) \/ CrashAfterRename(t) \/ CrashBeforeRename(t)
        PROVE  AnswerInv'
    BY <2>3, <1>5 DEF CrashInPut, CrashAfterRename, CrashBeforeRename
  <2> QED
    BY <1>3, <1>5, <2>1, <2>2, <2>3, AnswerBeforeRead, AnswerProceeds DEF Next, Threads, Crash
<1>4. CASE UNCHANGED vars
  BY <1>1, <1>4 DEF vars
<1> QED BY <1>3, <1>4

\* Get fails closed on every process: what it returns without an error some
\* caller Put, has the id asked for, and verifies against the trusted keys of the
\* very Store that answers -- however stale its index, whatever lines a torn
\* Write ran together, whatever a rename has moved under a reader, and whomever
\* the Store that admitted the record trusts.
THEOREM ReadsFailClosed == Spec => []GetAuthentic
<1>1. Init => AnswerInv
  BY DEF Init, Idle, AnswerInv, AnswerOK
<1>2. AnswerInv => GetAuthentic
  <2> SUFFICES ASSUME AnswerInv, NEW t \in Threads, Returned(t, "get"), call[t].out.err = "ok"
               PROVE  /\ call[t].out.rec.id = call[t].id
                      /\ Verify(call[t].out.rec, Trusted(t)) = "ok"
                      /\ \E r \in Records :
                           call[t].out.rec \in {Wire(Prepared(r)), Tombstoned(Wire(Prepared(r)))}
    BY DEF GetAuthentic, Trusted
  <2> DEFINE s == call[t].out.rec
  <2>1. s \in StoredRecord /\ s.id = call[t].id /\ Verify(s, Trusted(t)) = "ok"
    BY DEF AnswerInv, AnswerOK, Returned
  <2> HIDE DEF s
  <2>2. \E r \in Records : s \in {Wire(Prepared(r)), Tombstoned(Wire(Prepared(r)))}
    <3>1. ASSUME NEW r \in Records
          PROVE  Wire(Tombstoned(Wire(Prepared(r)))) = Tombstoned(Wire(Prepared(r)))
      <4>1. IsRecord(Wire(Prepared(r))) /\ RoundTrips(Wire(Prepared(r)))
        BY RecordAssumption, PreparedIsRecord, WireIsRecord
      <4> QED BY <4>1, TombstonedIsRecord, RoundTripsKept, WireIdentity
    <3> QED BY <2>1, <3>1 DEF StoredRecord
  <2> QED BY <2>1, <2>2 DEF s
<1> QED BY <1>1, <1>2, AnswerInvStep, TypeInvariant, PTL DEF Spec

-----------------------------------------------------------------------------
\* What the second part assumes: no torn writes, no empty originals.
CleanWrites == ~ TornWrites /\ \A r \in Records : RoundTrips(r)

-----------------------------------------------------------------------------
\* A clean file: whole lines, one per id, of sound records.

Good(r) == Sound(r) /\ RoundTrips(r) /\ r.id \in Id

CleanLine(s) ==
  s = [rec |-> s.rec, part |-> "full", nl |-> TRUE] /\ Good(s.rec)

CleanFile(f) ==
  /\ \E n \in Nat : f = [i \in 1..n |-> f[i]]
  /\ \A i \in DOMAIN f : CleanLine(f[i])
  /\ \A i, j \in DOMAIN f : f[i].rec.id = f[j].rec.id => i = j

\* The index has exactly the lines of f, where they are.
Exact(index, g, f) ==
  /\ \A i \in DOMAIN f : /\ f[i].rec.id \in DOMAIN index
                         /\ index[f[i].rec.id] = [gen |-> g, first |-> i, last |-> i]
  /\ \A id \in DOMAIN index : \E i \in DOMAIN f : f[i].rec.id = id

\* In a file of whole writes every segment is a line of its own.
LEMMA CleanLineEnd ==
  ASSUME NEW f \in Seq(Segment), CleanFile(f), NEW i \in DOMAIN f
  PROVE  LineStart(f, i) /\ LineEnd(f, i) = i /\ f[i].part = "full"
<1>1. \A j \in DOMAIN f : f[j].nl /\ f[j].part = "full"
  BY DEF CleanFile, CleanLine
<1>2. DOMAIN f = 1..Len(f) /\ Len(f) \in Nat
  OBVIOUS
<1>3. LineStart(f, i)
  BY <1>1, <1>2 DEF LineStart
<1> DEFINE S == {j \in i..Len(f) : f[j].nl \/ j = Len(f)}
<1>4. S \in SUBSET Nat /\ i \in Nat /\ \A j \in S : i <= j
  <2>1. S \subseteq i..Len(f)
    BY Zenon
  <2> HIDE DEF S
  <2> QED BY <1>2, <2>1
<1>5. i \in S
  <2>1. i \in i..Len(f)
    BY <1>2
  <2>2. f[i].nl
    BY <1>1
  <2> QED BY <2>1, <2>2, Zenon
<1> HIDE DEF S
<1>6. Min(S) \in S /\ \A j \in S : Min(S) <= j
  BY <1>4, <1>5, MinIn
<1>7. Min(S) = i
  <2>1. Min(S) \in Nat /\ Min(S) <= i /\ i <= Min(S)
    BY <1>4, <1>5, <1>6
  <2> QED BY <2>1, <1>4
<1> QED BY <1>1, <1>3, <1>7 DEF LineEnd, S

\* Scanning the file at New and copying it in rewrite give the same, exact
\* index.
LEMMA CleanIndex ==
  ASSUME NEW f \in Seq(Segment), CleanFile(f), NEW g \in Nat
  PROVE  Exact(scanIndex(f, g), g, f) /\ Exact(newIndex(f, g), g, f)
<1>1. ASSUME NEW id
      PROVE  /\ Parsed(f, id) = {i \in DOMAIN f : f[i].rec.id = id}
             /\ Peeked(f, id) = {i \in DOMAIN f : f[i].rec.id = id}
  BY CleanLineEnd DEF Parsed, Peeked
<1> DEFINE Lines(id) == {i \in DOMAIN f : f[i].rec.id = id}
           Index == [id \in {x \in Id : Lines(x) # {}} |-> LineEntry(f, Max(Lines(id)), g)]
<1>2. scanIndex(f, g) = Index /\ newIndex(f, g) = Index
  BY <1>1 DEF scanIndex, newIndex
<1>3. ASSUME NEW i \in DOMAIN f
      PROVE  /\ f[i].rec.id \in DOMAIN Index
             /\ Index[f[i].rec.id] = [gen |-> g, first |-> i, last |-> i]
  <2> DEFINE id == f[i].rec.id
  <2>1. Lines(id) = {i} /\ id \in Id
    BY DEF CleanFile, CleanLine, Good
  <2>2. Max({i}) = i
    BY DEF Max
  <2>3. id \in DOMAIN Index /\ Index[id] = LineEntry(f, i, g)
    BY <2>1, <2>2
  <2> QED BY <2>3, CleanLineEnd DEF LineEntry
<1>4. \A id \in DOMAIN Index : \E i \in DOMAIN f : f[i].rec.id = id
  OBVIOUS
<1> HIDE DEF Index
<1> QED BY <1>2, <1>3, <1>4 DEF Exact

\* rewrite replaces the line of the id and copies the others.
LEMMA CleanRewrite ==
  ASSUME NEW f \in Seq(Segment), CleanFile(f), NEW r, Good(r), NEW i \in DOMAIN f,
         f[i].rec.id = r.id
  PROVE  LET w == Rewritten(f, r.id, r) IN
         /\ DOMAIN w = DOMAIN f
         /\ w[i] = [rec |-> r, part |-> "full", nl |-> TRUE]
         /\ \A j \in DOMAIN f : j # i => w[j] = f[j]
         /\ CleanFile(w)
<1> DEFINE w == Rewritten(f, r.id, r)
<1>1. Peeked(f, r.id) = {i}
  BY CleanLineEnd DEF Peeked, CleanFile
<1>2. Wire(r) = r
  BY WireIdentity DEF Good, Sound
<1>3. \A j \in DOMAIN f : j # i => ~ (\E k \in {i} : k < j /\ j <= LineEnd(f, k))
  BY CleanLineEnd
<1>4. ASSUME NEW j \in DOMAIN f
      PROVE  [f[j] EXCEPT !.nl = f[j].nl \/ j = Len(f)] = f[j]
  <2>1. f[j] = [rec |-> f[j].rec, part |-> "full", nl |-> TRUE]
    BY DEF CleanFile, CleanLine
  <2>2. f[j].nl = TRUE
    BY <2>1
  <2> DEFINE b == f[j].nl \/ j = Len(f)
  <2>3. b = TRUE
    BY <2>2, Zenon
  <2>4. [f[j] EXCEPT !.nl = TRUE] = f[j]
    BY <2>1
  <2> QED BY <2>3, <2>4, Zenon
<1>5. /\ DOMAIN w = DOMAIN f
      /\ w[i] = [rec |-> r, part |-> "full", nl |-> TRUE]
      /\ \A j \in DOMAIN f : j # i => w[j] = f[j]
      /\ \A n \in Nat : DOMAIN f = 1..n => w = [j \in 1..n |-> w[j]]
  BY <1>1, <1>2, <1>3, <1>4 DEF Rewritten
<1> HIDE DEF w
<1>6. \A j \in DOMAIN f : CleanLine(w[j]) /\ w[j].rec.id = f[j].rec.id
  BY <1>5 DEF CleanLine, CleanFile
<1>7. CleanFile(w)
  BY <1>5, <1>6 DEF CleanFile
<1> QED BY <1>5, <1>7 DEF w

-----------------------------------------------------------------------------
\* The inductive invariant.

\* A record that Put may store.
Admitted(r) ==
  \E q \in Records, T \in TrustSets : r = Prepared(q) /\ AdmissionError(q, T) = "ok"

\* The acknowledged records are in the file, whole or erased; the erased ones
\* are there without originals.
FileKeeps(f, ack, er) ==
  /\ CleanFile(f)
  /\ ack = [id \in Id |-> ack[id]]
  /\ \A id \in Id : ack[id] # Nil =>
       \E i \in DOMAIN f : f[i].rec.id = id /\ Holds(f[i].rec, ack[id])
  /\ er \subseteq Id
  /\ \A id \in er : \E i \in DOMAIN f : f[i].rec.id = id /\ Originals(f[i].rec) = {}

\* What a call saw when it was invoked is still so.
SeenOK(c, ack, er) ==
  c.pc # "idle" =>
    /\ c.id \in Id
    /\ c.seen.acked # Nil => ack[c.id] = c.seen.acked
    /\ c.seen.erased => c.id \in er

ArgsOK(t, c) ==
  /\ c.pc \in {"putLock", "putAppend"} =>
       t \in WriterThreads /\ c.op = "put" /\ Admitted(c.rec) /\ c.rec.id = c.id
  /\ c.pc \in {"getLock", "getRead", "getReturn"} => c.op = "get"
  /\ c.pc \in {"purgeLock", "purgeRewrite"} => t \in WriterThreads /\ c.op = "purge"

\* What a Put that was answered nil means.
PutOK(c, ack) ==
  c.pc = "done" /\ c.op = "put" /\ c.out.err = "ok" =>
    /\ ack[c.id] # Nil
    /\ StorageChecksum(c.rec) = StorageChecksum(ack[c.id])
    /\ c.seen.erased => Originals(c.rec) = {}

\* What a Get has read, and what it answers.
ReadOK(t, c) ==
  c.pc = "getReturn" =>
    /\ c.out.err = "ok" /\ c.out.rec.id = c.id /\ c.seen.erased
         => Originals(c.out.rec) = {}
    /\ t \in WriterThreads /\ c.seen.acked # Nil /\ c.out.err # "ErrIO" =>
         /\ c.out.err = "ok" /\ c.out.rec.id = c.id /\ Sound(c.out.rec)
         /\ Holds(c.out.rec, c.seen.acked)

GetOK(t, c, trusted) ==
  c.pc = "done" /\ c.op = "get" =>
    /\ c.out.err = "ok" /\ c.seen.erased => Originals(c.out.rec) = {}
    /\ t \in WriterThreads /\ c.seen.acked # Nil /\ c.out.err # "ErrIO" =>
         IF c.seen.acked.envelope.key \in trusted
         THEN c.out.err = "ok" /\ Holds(c.out.rec, c.seen.acked)
         ELSE c.out.err = "ErrUntrustedSigner"

CallSafe(t, c, ack, er, trusted) ==
  /\ SeenOK(c, ack, er) /\ ArgsOK(t, c) /\ PutOK(c, ack)
  /\ ReadOK(t, c) /\ GetOK(t, c, trusted)

\* What a thread of the writer relies on while it holds the mutex.
CriticalOK(c, index, f) ==
  /\ c.pc = "putAppend" => c.rec.id \notin DOMAIN index
  /\ c.pc = "getRead" => c.id \in DOMAIN index /\ c.at = index[c.id]
  /\ c.pc = "purgeRewrite" =>
       \E i \in DOMAIN f : f[i].rec.id = c.id /\ c.rec = Tombstoned(f[i].rec)

WriterOK(s, calls, g, f) ==
  /\ s.open => Exact(s.index, g, f)
  /\ \A t \in WriterThreads :
       /\ ~ s.open => calls[t].pc = "idle"
       /\ CriticalOK(calls[t], s.index, f)

SafeInv ==
  /\ FileKeeps(file, acked, erased)
  /\ WriterOK(handle[Writer], call, gen, file)
  /\ \A t \in Threads : CallSafe(t, call[t], acked, erased, handle[Writer].trusted)

\* A record that Put admits is sound, has its originals and survives the disk.
LEMMA AdmittedGood ==
  ASSUME CleanWrites, NEW r, Admitted(r)
  PROVE  Good(r) /\ ~ HasPurged(r) /\ Wire(r) = r /\ r # Nil
<1>1. PICK q \in Records, T \in TrustSets : r = Prepared(q) /\ AdmissionError(q, T) = "ok"
  BY DEF Admitted
<1>2. IsRecord(q) /\ RoundTrips(q) /\ q.id \in Id /\ r # Nil
  BY <1>1, RecordAssumption DEF CleanWrites
<1>3. Sound(r) /\ ~ HasPurged(r)
  BY <1>1, <1>2, AdmittedIsSound
<1>4. RoundTrips(r) /\ r.id \in Id
  BY <1>1, <1>2, RoundTripsKept, PreparedIsRecord
<1> QED BY <1>2, <1>3, <1>4, WireIdentity DEF Good, Sound

\* A purged record is sound and holds no original.
LEMMA GoodTombstoned ==
  ASSUME NEW r, Good(r)
  PROVE  /\ Good(Tombstoned(r)) /\ Tombstoned(r).id = r.id
         /\ Wire(Tombstoned(r)) = Tombstoned(r)
         /\ Originals(Tombstoned(r)) = {}
         /\ \A a : Holds(r, a) => Holds(Tombstoned(r), a)
<1>1. Sound(r) /\ IsRecord(r) /\ RoundTrips(r) /\ r.id \in Id
  BY DEF Good, Sound
<1>2. Sound(Tombstoned(r)) /\ Originals(Tombstoned(r)) = {}
  BY <1>1, TombstonedIsSound, TombstonedHasNoOriginals
<1>3. Tombstoned(r).id = r.id /\ RoundTrips(Tombstoned(r))
  BY <1>1, TombstonedIsRecord, RoundTripsKept
<1>4. Wire(Tombstoned(r)) = Tombstoned(r)
  BY <1>2, <1>3, WireIdentity DEF Sound
<1>5. StorageChecksum(Tombstoned(r)) = StorageChecksum(r)
  BY <1>1, ChecksumSurvivesPurge
<1> QED BY <1>1, <1>2, <1>3, <1>4, <1>5 DEF Good, Holds

\* The checksum covers the id and the envelope.
LEMMA ChecksumFields ==
  ASSUME NEW r, NEW s, StorageChecksum(r) = StorageChecksum(s)
  PROVE  r.id = s.id /\ r.envelope = s.envelope
  BY DEF StorageChecksum, WithArtifacts

\* With an exact index readAt finds the line it is asked for, if it can read.
LEMMA ReadExact ==
  ASSUME NEW index, CleanFile(file), Exact(index, gen, file), NEW id \in DOMAIN index,
         NEW out \in readAt(index[id]), out.err # "ErrIO"
  PROVE  \E i \in DOMAIN file : file[i].rec.id = id /\ out = Ok(file[i].rec)
<1>1. PICK i \in DOMAIN file : file[i].rec.id = id
  BY DEF Exact
<1>2. index[id] = [gen |-> gen, first |-> i, last |-> i]
  BY <1>1 DEF Exact
<1>3. file[i].part = "full"
  BY DEF CleanFile, CleanLine
<1> QED BY <1>1, <1>2, <1>3 DEF readAt, Found, Fail

\* Acknowledgements and erasures are never taken back.
LEMMA HistoryGrows ==
  ASSUME NEW ack, NEW ack2, NEW er, NEW er2, NEW t, NEW c, NEW T,
         \A id \in Id : ack[id] # Nil => ack2[id] = ack[id], er \subseteq er2,
         CallSafe(t, c, ack, er, T)
  PROVE  CallSafe(t, c, ack2, er2, T)
<1>1. SeenOK(c, ack2, er2)
  BY DEF CallSafe, SeenOK
<1>2. PutOK(c, ack2)
  BY DEF CallSafe, PutOK, SeenOK
<1> QED BY <1>1, <1>2 DEF CallSafe

\* A step of one thread that changes neither file nor index nor history.
LEMMA LocalStep ==
  ASSUME TypeInv, SafeInv, NEW t \in Threads, NEW c, call' = [call EXCEPT ![t] = c],
         UNCHANGED <<file, gen, handle, acked, erased>>,
         CallSafe(t, c, acked, erased, handle[Writer].trusted),
         t \in WriterThreads =>
           handle[Writer].open /\ CriticalOK(c, handle[Writer].index, file)
  PROVE  SafeInv'
<1>1. call = [u \in Threads |-> call[u]] /\ WriterThreads \subseteq Threads
  BY DEF TypeInv, Threads
<1>2. \A u \in Threads : CallSafe(u, call'[u], acked, erased, handle[Writer].trusted)
  BY <1>1 DEF SafeInv
<1>3. WriterOK(handle[Writer], call', gen, file)
  BY <1>1 DEF SafeInv, WriterOK
<1> QED BY <1>2, <1>3 DEF SafeInv

\* While a thread of the writer is in a call the Store is open.
LEMMA WriterOpen ==
  ASSUME SafeInv, NEW t \in WriterThreads, call[t].pc # "idle"
  PROVE  handle[Writer].open /\ Exact(handle[Writer].index, gen, file)
  BY DEF SafeInv, WriterOK

\* The invariant holds before any call.
LEMMA SafeInvInit == Init => SafeInv
<1> SUFFICES ASSUME Init PROVE SafeInv
  OBVIOUS
<1>1. DOMAIN file = {} /\ \E n \in Nat : file = [i \in 1..n |-> file[i]]
  <2>1. file = [i \in 1..0 |-> file[i]]
    BY DEF Init
  <2>2. DOMAIN file = {}
    <3>1. DOMAIN file = 1..0
      BY <2>1
    <3>2. 1..0 = {}
      OBVIOUS
    <3> QED BY <3>1, <3>2
  <2>3. 0 \in Nat
    OBVIOUS
  <2> QED BY <2>1, <2>2, <2>3
<1>2. FileKeeps(file, acked, erased)
  BY <1>1 DEF Init, FileKeeps, CleanFile
<1>3. WriterOK(handle[Writer], call, gen, file)
  BY HandleOfTyped DEF Init, WriterOK, Closed, CriticalOK, Idle
<1>4. ASSUME NEW t \in Threads
      PROVE  CallSafe(t, call[t], acked, erased, handle[Writer].trusted)
  BY DEF Init, Idle, CallSafe, SeenOK, ArgsOK, PutOK, ReadOK, GetOK
<1> QED BY <1>2, <1>3, <1>4 DEF SafeInv

-----------------------------------------------------------------------------
\* The steps that begin a call.

\* Making a call records what has been acknowledged so far, and changes nothing
\* else.
LEMMA InvokeSafe ==
  ASSUME TypeInv, SafeInv, NEW t \in Threads, Ready(t), handle[HandleOf(t)].open,
         UNCHANGED <<file, gen, handle, acked, erased>>,
         NEW op, NEW pc, NEW id \in Id, NEW rec, NEW e,
         call' = [call EXCEPT ![t] = Invocation(op, pc, id, rec, Fail(e))],
         \/ pc = "done" /\ e # "ok" /\ op \in {"put", "get", "purge"} /\ (op = "get" => acked[id] = Nil)
         \/ pc = "putLock" /\ op = "put" /\ t \in WriterThreads /\ Admitted(rec) /\ rec.id = id
         \/ pc = "getLock" /\ op = "get"
         \/ pc = "purgeLock" /\ op = "purge" /\ t \in WriterThreads
  PROVE  SafeInv'
<1> DEFINE c == Invocation(op, pc, id, rec, Fail(e))
<1>1. /\ c.op = op /\ c.pc = pc /\ c.id = id /\ c.rec = rec /\ c.out.err = e
      /\ c.seen.acked = acked[id] /\ (c.seen.erased => id \in erased)
  BY DEF Invocation, Fail
<1>2. call' = [call EXCEPT ![t] = c]
  OBVIOUS
<1> HIDE DEF c
<1>3. SeenOK(c, acked, erased)
  BY <1>1 DEF SeenOK
<1>4. ArgsOK(t, c)
  BY <1>1 DEF ArgsOK
<1>5. PutOK(c, acked) /\ ReadOK(t, c)
  BY <1>1 DEF PutOK, ReadOK
<1>6. GetOK(t, c, handle[Writer].trusted)
  BY <1>1 DEF GetOK
<1>7. CriticalOK(c, handle[Writer].index, file)
  BY <1>1 DEF CriticalOK
<1>8. t \in WriterThreads => handle[Writer].open
  BY HandleOfTyped
<1> QED BY <1>2, <1>3, <1>4, <1>5, <1>6, <1>7, <1>8, LocalStep DEF CallSafe

\* Invoking Put, Get or Purge preserves the invariant.
LEMMA CallSafeSteps ==
  ASSUME CleanWrites, TypeInv, SafeInv, NEW t \in Threads,
         \/ t \in WriterThreads /\ (PutCall(t) \/ PurgeCall(t))
         \/ GetCall(t)
  PROVE  SafeInv'
<1>0. Ready(t) /\ handle[HandleOf(t)].open /\ UNCHANGED <<file, gen, handle, acked, erased>>
  BY HandleOfTyped DEF PutCall, PurgeCall, GetCall, disk, history
<1>1. CASE t \in WriterThreads /\ PutCall(t)
  <2> DEFINE T == handle[Writer].trusted
  <2>1. PICK r \in Records : call' = [call EXCEPT ![t] =
          IF AdmissionError(r, T) # "ok"
          THEN Invocation("put", "done", r.id, Nil, Fail(AdmissionError(r, T)))
          ELSE Invocation("put", "putLock", r.id, Prepared(r), Fail("none"))]
    BY <1>1 DEF PutCall
  <2>2. IsRecord(r) /\ r.id \in Id
    BY RecordAssumption
  <2>3. CASE AdmissionError(r, T) # "ok"
    <3>1. call' = [call EXCEPT ![t] =
            Invocation("put", "done", r.id, Nil, Fail(AdmissionError(r, T)))]
      BY <2>1, <2>3
    <3> HIDE DEF T
    <3> QED BY <1>0, <2>2, <2>3, <3>1, InvokeSafe
  <2>4. CASE AdmissionError(r, T) = "ok"
    <3>1. call' = [call EXCEPT ![t] =
            Invocation("put", "putLock", r.id, Prepared(r), Fail("none"))]
      BY <2>1, <2>4
    <3>2. T \in TrustSets
      <4>1. T \in TrustSets \cup {{}}
        BY HandleOfTyped DEF TypeInv, StoreOK
      <4>2. r.envelope.key \in T
        BY <2>2, <2>4, AdmittedIsSound
      <4> QED BY <4>1, <4>2
    <3>3. Admitted(Prepared(r)) /\ Prepared(r).id = r.id
      BY <2>2, <2>4, <3>2, PreparedIsRecord DEF Admitted
    <3> HIDE DEF T
    <3> QED BY <1>0, <1>1, <2>2, <3>1, <3>3, InvokeSafe
  <2> QED BY <2>3, <2>4
<1>2. CASE t \in WriterThreads /\ PurgeCall(t)
  <2>1. PICK id \in Id : call' = [call EXCEPT ![t] =
          IF id \in ValidId THEN Invocation("purge", "purgeLock", id, Nil, Fail("none"))
          ELSE Invocation("purge", "done", id, Nil, Fail("ErrInvalid"))]
    BY <1>2 DEF PurgeCall
  <2>2. CASE id \in ValidId
    BY <1>0, <1>2, <2>1, <2>2, InvokeSafe
  <2>3. CASE id \notin ValidId
    BY <1>0, <2>1, <2>3, InvokeSafe
  <2> QED BY <2>2, <2>3
<1>3. CASE GetCall(t)
  <2>1. PICK id \in Id : call' = [call EXCEPT ![t] =
          IF id \in ValidId THEN Invocation("get", "getLock", id, Nil, Fail("none"))
          ELSE Invocation("get", "done", id, Nil, Fail("ErrInvalid"))]
    BY <1>3 DEF GetCall
  <2>2. CASE id \in ValidId
    BY <1>0, <2>1, <2>2, InvokeSafe
  <2>3. CASE id \notin ValidId
    <3>1. acked[id] = Nil
      BY <2>3 DEF SafeInv, FileKeeps, CleanFile, CleanLine, Good, Sound, Authentic
    <3> QED BY <1>0, <2>1, <2>3, <3>1, InvokeSafe
  <2> QED BY <2>2, <2>3
<1> QED BY <1>1, <1>2, <1>3

-----------------------------------------------------------------------------
\* The steps that leave file, index and history alone.

Final(c, out) ==
  At(c, "done", IF c.op = "put" /\ out.err = "ok" THEN c.rec ELSE Nil, Nil, out)

\* What is kept of a call when it returns.
LEMMA FinalFields ==
  ASSUME NEW c, NEW out
  PROVE  /\ Final(c, out).op = c.op /\ Final(c, out).pc = "done"
         /\ Final(c, out).id = c.id /\ Final(c, out).out = out
         /\ Final(c, out).seen = c.seen
         /\ c.op = "put" /\ out.err = "ok" => Final(c, out).rec = c.rec
  BY DEF Final, At

\* A return with an answer that is right preserves the invariant.
LEMMA ReturnSafe ==
  ASSUME TypeInv, SafeInv, NEW t \in Threads, NEW out, Return(t, out),
         call[t].pc # "idle", UNCHANGED <<file, gen, handle, acked, erased>>,
         PutOK(Final(call[t], out), acked),
         GetOK(t, Final(call[t], out), handle[Writer].trusted)
  PROVE  SafeInv'
<1> DEFINE c == Final(call[t], out)
<1>1. call' = [call EXCEPT ![t] = c]
  BY DEF Return, Final
<1>2. c.pc = "done" /\ c.id = call[t].id /\ c.seen = call[t].seen
  BY FinalFields
<1>3. PutOK(c, acked) /\ GetOK(t, c, handle[Writer].trusted)
  OBVIOUS
<1> HIDE DEF c
<1>4. SeenOK(c, acked, erased)
  BY <1>2 DEF SafeInv, CallSafe, SeenOK
<1>5. ArgsOK(t, c) /\ ReadOK(t, c) /\ CriticalOK(c, handle[Writer].index, file)
  BY <1>2 DEF ArgsOK, ReadOK, CriticalOK
<1>6. t \in WriterThreads => handle[Writer].open
  BY WriterOpen
<1> QED BY <1>1, <1>3, <1>4, <1>5, <1>6, LocalStep DEF CallSafe

\* A Put or a Purge that fails.
LEMMA FailSafe ==
  ASSUME TypeInv, SafeInv, NEW t \in Threads, NEW e, Return(t, Fail(e)),
         call[t].pc # "idle", UNCHANGED <<file, gen, handle, acked, erased>>,
         call[t].op # "get", call[t].op = "put" => e # "ok"
  PROVE  SafeInv'
<1>1. Fail(e).err = e
  BY DEF Fail
<1>2. PutOK(Final(call[t], Fail(e)), acked)
      /\ GetOK(t, Final(call[t], Fail(e)), handle[Writer].trusted)
  BY <1>1, FinalFields DEF PutOK, GetOK
<1> QED BY <1>2, ReturnSafe

\* A call moves on inside its method.
LEMMA MoveSafe ==
  ASSUME TypeInv, SafeInv, NEW t \in Threads, NEW c, call' = [call EXCEPT ![t] = c],
         call[t].pc # "idle", UNCHANGED <<file, gen, handle, acked, erased>>,
         c.pc \notin {"idle", "done"}, c.id = call[t].id, c.seen = call[t].seen,
         ArgsOK(t, c), ReadOK(t, c),
         t \in WriterThreads => CriticalOK(c, handle[Writer].index, file)
  PROVE  SafeInv'
<1>1. SeenOK(c, acked, erased)
  BY DEF SafeInv, CallSafe, SeenOK
<1>2. PutOK(c, acked) /\ GetOK(t, c, handle[Writer].trusted)
  BY DEF PutOK, GetOK
<1>3. t \in WriterThreads => handle[Writer].open
  BY WriterOpen
<1> QED BY <1>1, <1>2, <1>3, LocalStep DEF CallSafe

\* Looking an entry up preserves the invariant: it is an entry of the index.
LEMMA GetLookupSafe ==
  ASSUME TypeInv, SafeInv, NEW t \in Threads, GetLookup(t)
  PROVE  SafeInv'
<1> DEFINE index == handle[HandleOf(t)].index
           id == call[t].id
<1>1. /\ call[t].pc = "getLock" /\ call[t].op = "get"
      /\ UNCHANGED <<file, gen, handle, acked, erased>>
      /\ SeenOK(call[t], acked, erased)
  BY DEF GetLookup, SafeInv, CallSafe, ArgsOK, disk, history
<1>2. CASE id \notin DOMAIN index
  <2>1. Return(t, Fail("ErrNotFound"))
    BY <1>2 DEF GetLookup
  <2>2. t \in WriterThreads => call[t].seen.acked = Nil
    <3> SUFFICES ASSUME t \in WriterThreads, call[t].seen.acked # Nil PROVE FALSE
      OBVIOUS
    <3>1. PICK i \in DOMAIN file : file[i].rec.id = id
      BY <1>1 DEF SeenOK, SafeInv, FileKeeps
    <3>2. id \in DOMAIN handle[Writer].index
      BY <1>1, <3>1, WriterOpen DEF Exact
    <3> QED BY <3>2, <1>2, HandleOfTyped
  <2>3. Fail("ErrNotFound").err = "ErrNotFound"
    BY DEF Fail
  <2> DEFINE c == Final(call[t], Fail("ErrNotFound"))
  <2>4. c.op = "get" /\ c.out = Fail("ErrNotFound") /\ c.seen = call[t].seen
    BY <1>1, FinalFields
  <2> HIDE DEF c
  <2>5. PutOK(c, acked) /\ GetOK(t, c, handle[Writer].trusted)
    BY <2>2, <2>3, <2>4 DEF PutOK, GetOK
  <2> QED BY <1>1, <2>1, <2>5, ReturnSafe DEF c
<1>3. CASE id \in DOMAIN index
  <2> DEFINE c == At(call[t], "getRead", Nil, index[id], call[t].out)
  <2>1. call' = [call EXCEPT ![t] = c]
    BY <1>3 DEF GetLookup
  <2>2. /\ c.pc = "getRead" /\ c.op = "get" /\ c.id = id /\ c.at = index[id]
        /\ c.seen = call[t].seen
    BY <1>1 DEF At
  <2> HIDE DEF c
  <2>3. ArgsOK(t, c) /\ ReadOK(t, c)
    BY <2>2 DEF ArgsOK, ReadOK
  <2>4. t \in WriterThreads => CriticalOK(c, handle[Writer].index, file)
    BY <1>3, <2>2, HandleOfTyped DEF CriticalOK
  <2> QED BY <1>1, <2>1, <2>2, <2>3, <2>4, MoveSafe
<1> QED BY <1>2, <1>3

\* The line of an acknowledged or erased id is the one that has the id.
LEMMA TheLine ==
  ASSUME SafeInv, NEW i \in DOMAIN file
  PROVE  /\ Good(file[i].rec)
         /\ acked[file[i].rec.id] # Nil => Holds(file[i].rec, acked[file[i].rec.id])
         /\ file[i].rec.id \in erased => Originals(file[i].rec) = {}
<1>1. Good(file[i].rec)
  BY DEF SafeInv, FileKeeps, CleanFile, CleanLine
<1> QED BY <1>1 DEF SafeInv, FileKeeps, CleanFile, Good

\* Reading the line at the entry preserves it: the line is the record's or older
\* than a rename.
LEMMA GetReadSafe ==
  ASSUME TypeInv, SafeInv, NEW t \in Threads, GetRead(t)
  PROVE  SafeInv'
<1>1. /\ call[t].pc = "getRead" /\ call[t].op = "get"
      /\ UNCHANGED <<file, gen, handle, acked, erased>>
      /\ SeenOK(call[t], acked, erased)
  BY DEF GetRead, SafeInv, CallSafe, ArgsOK, disk, history
<1>2. PICK out \in readAt(call[t].at) :
        call' = [call EXCEPT ![t] = At(call[t], "getReturn", Nil, Nil, out)]
  BY DEF GetRead
<1> DEFINE c == At(call[t], "getReturn", Nil, Nil, out)
<1>3. /\ c.pc = "getReturn" /\ c.op = "get" /\ c.id = call[t].id /\ c.out = out
      /\ c.seen = call[t].seen
  BY <1>1 DEF At
<1>8. call' = [call EXCEPT ![t] = c]
  BY <1>2
<1> HIDE DEF c
<1>4. ASSUME out.err = "ok", out.rec.id = c.id, c.seen.erased
      PROVE  Originals(out.rec) = {}
  <2>1. PICK i \in DOMAIN file : out = Ok(file[i].rec)
    BY <1>1, <1>4, ReadTyped DEF TypeInv, CallOK
  <2>2. out.rec = file[i].rec /\ c.id \in erased
    BY <1>1, <1>3, <1>4, <2>1 DEF Ok, SeenOK
  <2> QED BY <1>4, <2>2, TheLine
<1>5. ASSUME t \in WriterThreads, c.seen.acked # Nil, out.err # "ErrIO"
      PROVE  /\ out.err = "ok" /\ out.rec.id = c.id /\ Sound(out.rec)
             /\ Holds(out.rec, c.seen.acked)
  <2>1. c.id \in DOMAIN handle[Writer].index /\ call[t].at = handle[Writer].index[c.id]
    BY <1>1, <1>3, <1>5 DEF SafeInv, WriterOK, CriticalOK
  <2>2. PICK i \in DOMAIN file : file[i].rec.id = c.id /\ out = Ok(file[i].rec)
    <3>1. out \in readAt(handle[Writer].index[c.id])
      BY <1>2, <2>1
    <3>2. CleanFile(file) /\ Exact(handle[Writer].index, gen, file)
      BY <1>1, <1>5, WriterOpen DEF SafeInv, FileKeeps
    <3> QED BY <1>5, <2>1, <3>1, <3>2, ReadExact
  <2>3. out.err = "ok" /\ out.rec = file[i].rec
    BY <2>2 DEF Ok
  <2>4. acked[c.id] = c.seen.acked
    BY <1>1, <1>3, <1>5 DEF SeenOK
  <2> QED BY <1>5, <2>2, <2>3, <2>4, TheLine DEF Good
<1>6. ReadOK(t, c)
  BY <1>3, <1>4, <1>5 DEF ReadOK
<1>7. ArgsOK(t, c) /\ CriticalOK(c, handle[Writer].index, file)
  BY <1>3 DEF ArgsOK, CriticalOK
<1> QED BY <1>1, <1>3, <1>6, <1>7, <1>8, MoveSafe

\* Verifying what was read and returning preserves it.
LEMMA GetReturnSafe ==
  ASSUME TypeInv, SafeInv, NEW t \in Threads, GetReturn(t)
  PROVE  SafeInv'
<1> DEFINE T == handle[HandleOf(t)].trusted
           in == call[t].out
           out == GetResult(call[t].id, in, T)
           c == Final(call[t], out)
<1>1. /\ call[t].pc = "getReturn" /\ call[t].op = "get" /\ Return(t, out)
      /\ UNCHANGED <<file, gen, handle, acked, erased>>
      /\ SeenOK(call[t], acked, erased) /\ ReadOK(t, call[t])
  BY DEF GetReturn, SafeInv, CallSafe, ArgsOK, disk, history
<1>2. c.op = "get" /\ c.out = out /\ c.seen = call[t].seen
  BY <1>1, FinalFields
<1>3. out.err = "ok" => out = in /\ in.rec.id = call[t].id
  BY DEF GetResult, Fail
<1>4. ASSUME t \in WriterThreads, c.seen.acked # Nil, out.err # "ErrIO"
      PROVE  IF c.seen.acked.envelope.key \in handle[Writer].trusted
             THEN out.err = "ok" /\ Holds(out.rec, c.seen.acked)
             ELSE out.err = "ErrUntrustedSigner"
  <2>0. in.err # "ErrIO"
    BY <1>4 DEF GetResult
  <2>1. /\ in.err = "ok" /\ in.rec.id = call[t].id /\ Sound(in.rec)
        /\ Holds(in.rec, c.seen.acked)
    BY <1>1, <1>2, <1>4, <2>0 DEF ReadOK
  <2>2. in.rec.envelope = c.seen.acked.envelope
    BY <2>1, ChecksumFields DEF Holds
  <2>3. T = handle[Writer].trusted
    BY <1>4, HandleOfTyped
  <2>4. Verify(in.rec, T) = IF c.seen.acked.envelope.key \in T THEN "ok"
                            ELSE "ErrUntrustedSigner"
    BY <2>1, <2>2, SoundVerdict
  <2> QED BY <2>1, <2>3, <2>4 DEF GetResult, Fail
<1>5. out.err = "ok" /\ c.seen.erased => Originals(out.rec) = {}
  BY <1>1, <1>2, <1>3 DEF ReadOK
<1> HIDE DEF c, out
<1>6. PutOK(c, acked) /\ GetOK(t, c, handle[Writer].trusted)
  BY <1>2, <1>4, <1>5 DEF PutOK, GetOK
<1> QED BY <1>1, <1>6, ReturnSafe DEF c

\* Put takes the mutex and looks the id up.
LEMMA PutLockSafe ==
  ASSUME TypeInv, SafeInv, NEW t \in Threads, PutLock(t)
  PROVE  SafeInv'
<1> DEFINE c == At(call[t], "putAppend", call[t].rec, Nil, call[t].out)
<1>1. /\ call[t].pc = "putLock" /\ call' = [call EXCEPT ![t] = c]
      /\ UNCHANGED <<file, gen, handle, acked, erased>>
      /\ call[t].rec.id \notin DOMAIN handle[Writer].index
  BY DEF PutLock, disk, history
<1>2. ArgsOK(t, call[t])
  BY DEF SafeInv, CallSafe
<1>3. /\ c.op = call[t].op /\ c.pc = "putAppend" /\ c.id = call[t].id
      /\ c.rec = call[t].rec /\ c.seen = call[t].seen
  BY DEF At
<1> HIDE DEF c
<1>4. ArgsOK(t, c) /\ ReadOK(t, c) /\ CriticalOK(c, handle[Writer].index, file)
  BY <1>1, <1>2, <1>3 DEF ArgsOK, ReadOK, CriticalOK
<1> QED BY <1>1, <1>3, <1>4, MoveSafe

\* Purge takes the mutex.
LEMMA PurgeLockSafe ==
  ASSUME TypeInv, SafeInv, NEW t \in Threads, PurgeLock(t)
  PROVE  SafeInv'
<1> DEFINE index == handle[Writer].index
           id == call[t].id
<1>1. /\ call[t].pc = "purgeLock" /\ call[t].op = "purge" /\ t \in WriterThreads
      /\ UNCHANGED <<file, gen, handle, acked, erased>>
  BY DEF PurgeLock, SafeInv, CallSafe, ArgsOK, disk, history
<1>2. ASSUME NEW e, Return(t, Fail(e))
      PROVE  SafeInv'
  BY <1>1, <1>2, FailSafe
<1>3. CASE id \notin DOMAIN index
  BY <1>2, <1>3 DEF PurgeLock
<1>4. CASE id \in DOMAIN index
  <2>1. PICK out \in readAt(index[id]) :
          LET err == PurgeError(id, out)
          IN  IF err # "ok" THEN Return(t, Fail(err)) /\ UNCHANGED mu
              ELSE /\ call' = [call EXCEPT ![t] = At(call[t], "purgeRewrite",
                                      Tombstoned(out.rec), Nil, call[t].out)]
                   /\ Acquire(t)
    BY <1>4 DEF PurgeLock
  <2>2. CASE PurgeError(id, out) # "ok"
    BY <1>2, <2>1, <2>2
  <2>3. CASE PurgeError(id, out) = "ok"
    <3> DEFINE c == At(call[t], "purgeRewrite", Tombstoned(out.rec), Nil, call[t].out)
    <3>1. CleanFile(file) /\ Exact(index, gen, file)
      BY <1>1, WriterOpen DEF SafeInv, FileKeeps
    <3>2. PICK i \in DOMAIN file : file[i].rec.id = id /\ out = Ok(file[i].rec)
      <4>1. out.err # "ErrIO"
        BY <2>3 DEF PurgeError
      <4> QED BY <1>4, <3>1, <4>1, ReadExact
    <3>3. call' = [call EXCEPT ![t] = c]
      BY <2>1, <2>3
    <3>4. /\ c.op = "purge" /\ c.pc = "purgeRewrite" /\ c.id = id
          /\ c.rec = Tombstoned(file[i].rec) /\ c.seen = call[t].seen
      BY <1>1, <3>2 DEF At, Ok
    <3> HIDE DEF c
    <3>5. ArgsOK(t, c) /\ ReadOK(t, c) /\ CriticalOK(c, handle[Writer].index, file)
      BY <1>1, <3>2, <3>4 DEF ArgsOK, ReadOK, CriticalOK
    <3> QED BY <1>1, <3>3, <3>4, <3>5, MoveSafe
  <2> QED BY <2>2, <2>3
<1> QED BY <1>3, <1>4

\* A Write or a rewrite that fails has changed no line.
LEMMA FailSteps ==
  ASSUME CleanWrites, TypeInv, SafeInv, NEW t \in Threads, PutFail(t) \/ PurgeFail(t)
  PROVE  SafeInv'
<1>1. ArgsOK(t, call[t])
  BY DEF SafeInv, CallSafe
<1>2. CASE PutFail(t)
  <2>1. call[t].pc = "putAppend" /\ Return(t, Fail("ErrIO"))
        /\ UNCHANGED <<file, gen, handle, acked, erased>>
    BY <1>2 DEF PutFail, CleanWrites, history
  <2> QED BY <1>1, <2>1, FailSafe DEF ArgsOK
<1>3. CASE PurgeFail(t)
  <2> DEFINE e == IF Peeked(file, call[t].id) = {} THEN "ErrCorrupt" ELSE "ErrIO"
  <2>1. call[t].pc = "purgeRewrite" /\ Return(t, Fail(e))
        /\ UNCHANGED <<file, gen, handle, acked, erased>>
    BY <1>3 DEF PurgeFail, disk, history
  <2> HIDE DEF e
  <2> QED BY <1>1, <2>1, FailSafe DEF ArgsOK
<1> QED BY <1>2, <1>3

-----------------------------------------------------------------------------
\* The steps that acknowledge, append and erase.

\* t returns; the file, the index and the history become f, index, ack and er.
LEMMA EffectStep ==
  ASSUME TypeInv, SafeInv, NEW t \in WriterThreads, NEW c,
         call' = [call EXCEPT ![t] = c], c.pc = "done", c.op # "get",
         c.id = call[t].id, c.seen = call[t].seen, call[t].pc # "idle",
         handle'[Writer].open = handle[Writer].open,
         handle'[Writer].trusted = handle[Writer].trusted,
         Exact(handle'[Writer].index, gen', file'),
         FileKeeps(file', acked', erased'),
         \A id \in Id : acked[id] # Nil => acked'[id] = acked[id],
         erased \subseteq erased',
         PutOK(c, acked'),
         \A u \in WriterThreads : u # t =>
           CriticalOK(call[u], handle'[Writer].index, file')
  PROVE  SafeInv'
<1>1. call = [u \in Threads |-> call[u]] /\ WriterThreads \subseteq Threads
  BY DEF TypeInv, Threads
<1>2. handle[Writer].open
  BY WriterOpen
<1>3. WriterOK(handle'[Writer], call', gen', file')
  BY <1>1, <1>2 DEF WriterOK, CriticalOK
<1>4. CallSafe(t, c, acked', erased', handle[Writer].trusted)
  <2>1. SeenOK(call[t], acked, erased)
    BY <1>1 DEF SafeInv, CallSafe
  <2>2. SeenOK(c, acked', erased')
    BY <2>1 DEF SeenOK
  <2>3. ArgsOK(t, c) /\ ReadOK(t, c) /\ GetOK(t, c, handle[Writer].trusted)
    BY DEF ArgsOK, ReadOK, GetOK
  <2> QED BY <2>2, <2>3 DEF CallSafe
<1>5. \A u \in Threads : CallSafe(u, call[u], acked', erased', handle[Writer].trusted)
  BY HistoryGrows DEF SafeInv
<1>6. \A u \in Threads : CallSafe(u, call'[u], acked', erased', handle'[Writer].trusted)
  BY <1>1, <1>4, <1>5
<1> QED BY <1>3, <1>6 DEF SafeInv

\* Acknowledging r when the line of its id holds it.
LEMMA AckKeeps ==
  ASSUME NEW f, FileKeeps(f, acked, erased), NEW r, r.id \in Id, r # Nil,
         Acknowledge(r), NEW i \in DOMAIN f, f[i].rec.id = r.id, Holds(f[i].rec, r)
  PROVE  /\ FileKeeps(f, acked', erased)
         /\ \A id \in Id : acked[id] # Nil => acked'[id] = acked[id]
         /\ acked'[r.id] # Nil /\ StorageChecksum(r) = StorageChecksum(acked'[r.id])
<1>1. /\ acked = [id \in Id |-> acked[id]]
      /\ acked' = [acked EXCEPT ![r.id] = IF acked[r.id] = Nil THEN r ELSE acked[r.id]]
  BY DEF FileKeeps, Acknowledge
<1>2. acked' = [id \in Id |-> acked'[id]]
  BY <1>1
<1>3. \A id \in Id : acked'[id] = IF id = r.id /\ acked[id] = Nil THEN r ELSE acked[id]
  BY <1>1
<1>4. \A id \in Id : acked'[id] # Nil =>
        \E j \in DOMAIN f : f[j].rec.id = id /\ Holds(f[j].rec, acked'[id])
  BY <1>3 DEF FileKeeps
<1>5. acked'[r.id] # Nil /\ StorageChecksum(r) = StorageChecksum(acked'[r.id])
  <2>1. CASE acked[r.id] = Nil
    BY <1>3, <2>1
  <2>2. CASE acked[r.id] # Nil
    <3>1. PICK j \in DOMAIN f : f[j].rec.id = r.id /\ Holds(f[j].rec, acked[r.id])
      BY <2>2 DEF FileKeeps
    <3>2. j = i
      BY <3>1 DEF FileKeeps, CleanFile
    <3> QED BY <1>3, <2>2, <3>1, <3>2 DEF Holds
  <2> QED BY <2>1, <2>2
<1> QED BY <1>2, <1>3, <1>4, <1>5 DEF FileKeeps

\* Put of an id that is there compares with the line and returns.
LEMMA PutRetrySafe ==
  ASSUME CleanWrites, TypeInv, SafeInv, NEW t \in Threads, PutRetry(t)
  PROVE  SafeInv'
<1> DEFINE index == handle[Writer].index
           r == call[t].rec
<1>1. /\ call[t].pc = "putLock" /\ call[t].op = "put" /\ t \in WriterThreads
      /\ Admitted(r) /\ r.id = call[t].id /\ r.id \in DOMAIN index
      /\ UNCHANGED <<file, gen, handle, erased>>
  BY DEF PutRetry, SafeInv, CallSafe, ArgsOK, disk
<1>2. PICK out \in readAt(index[r.id]) :
        LET err == RetryError(r, out, handle[Writer].trusted)
        IN  /\ Return(t, Fail(err))
            /\ IF err = "ok" THEN Acknowledge(r) ELSE UNCHANGED acked
  BY DEF PutRetry
<1> DEFINE err == RetryError(r, out, handle[Writer].trusted)
<1>3. CASE err # "ok"
  <2>1. Return(t, Fail(err)) /\ UNCHANGED acked
    BY <1>2, <1>3
  <2> HIDE DEF err
  <2> QED BY <1>1, <1>3, <2>1, FailSafe
<1>4. CASE err = "ok"
  <2>1. Return(t, Fail("ok")) /\ Acknowledge(r)
    BY <1>2, <1>4
  <2>2. FileKeeps(file, acked, erased) /\ CleanFile(file) /\ Exact(index, gen, file)
    BY <1>1, WriterOpen DEF SafeInv, FileKeeps
  <2>3. PICK i \in DOMAIN file : file[i].rec.id = r.id /\ out = Ok(file[i].rec)
    <3>1. out.err # "ErrIO"
      BY <1>4 DEF RetryError
    <3> QED BY <1>1, <2>2, <3>1, ReadExact
  <2>4. StorageChecksum(file[i].rec) = StorageChecksum(r) /\ ~ HasPurged(file[i].rec)
    BY <1>4, <2>3 DEF RetryError, Ok
  <2>5. Good(r) /\ ~ HasPurged(r) /\ r # Nil
    BY <1>1, AdmittedGood
  <2>6. Originals(file[i].rec) = Originals(r) /\ Holds(file[i].rec, r)
    BY <2>4, <2>5, TheLine, ChecksumIdentifiesOriginals DEF Good, Holds
  <2>7. /\ FileKeeps(file, acked', erased)
        /\ \A id \in Id : acked[id] # Nil => acked'[id] = acked[id]
        /\ acked'[r.id] # Nil /\ StorageChecksum(r) = StorageChecksum(acked'[r.id])
    BY <2>1, <2>2, <2>3, <2>5, <2>6, AckKeeps DEF Good
  <2> DEFINE c == Final(call[t], Fail("ok"))
  <2>8. /\ call' = [call EXCEPT ![t] = c] /\ c.pc = "done" /\ c.op = "put"
        /\ c.id = call[t].id /\ c.seen = call[t].seen /\ c.rec = r
    BY <1>1, <2>1, FinalFields DEF Return, Final, Fail
  <2> HIDE DEF c
  <2>9. PutOK(c, acked')
    <3>1. c.seen.erased => r.id \in erased
      BY <1>1, <2>8 DEF SafeInv, CallSafe, SeenOK
    <3> QED BY <1>1, <2>3, <2>6, <2>7, <2>8, <3>1, TheLine DEF PutOK
  <2>10. \A u \in WriterThreads : CriticalOK(call[u], index, file)
    BY DEF SafeInv, WriterOK
  <2> QED BY <1>1, <2>2, <2>7, <2>8, <2>9, <2>10, EffectStep
<1> QED BY <1>3, <1>4

\* The mutex keeps the other threads of the writer out.
LEMMA Alone ==
  ASSUME TypeInv, NEW t \in WriterThreads, call[t].pc \in Critical,
         NEW u \in WriterThreads, u # t, NEW index, NEW f
  PROVE  CriticalOK(call[u], index, f)
<1>1. call[u].pc \notin Critical
  BY HandleOfTyped DEF TypeInv, Mutex
<1> QED BY <1>1 DEF CriticalOK, Critical

\* A whole line appended under an id that has none.
LEMMA AppendKeeps ==
  ASSUME CleanWrites, TypeInv, SafeInv, NEW t \in WriterThreads,
         call[t].pc = "putAppend", Append1(call[t].rec, "full", TRUE)
  PROVE  LET n == Len(file) + 1
             r == call[t].rec
         IN  /\ Good(r) /\ ~ HasPurged(r) /\ r # Nil /\ Admitted(r)
             /\ call[t].op = "put" /\ call[t].id = r.id
             /\ \A i \in DOMAIN file : file[i].rec.id # r.id
             /\ acked[r.id] = Nil /\ r.id \notin erased
             /\ DOMAIN file' = DOMAIN file \cup {n} /\ n \notin DOMAIN file
             /\ file'[n] = [rec |-> r, part |-> "full", nl |-> TRUE]
             /\ \A i \in DOMAIN file : file'[i] = file[i]
             /\ FileKeeps(file', acked, erased)
<1> DEFINE n == Len(file) + 1
           r == call[t].rec
           line == [rec |-> r, part |-> "full", nl |-> TRUE]
<1>1. t \in Threads /\ Admitted(r) /\ call[t].op = "put" /\ call[t].id = r.id
  BY HandleOfTyped DEF SafeInv, CallSafe, ArgsOK
<1>2. Good(r) /\ ~ HasPurged(r) /\ Wire(r) = r /\ r # Nil
  BY <1>1, AdmittedGood
<1>3. \A i \in DOMAIN file : file[i].rec.id # r.id
  <2>1. r.id \notin DOMAIN handle[Writer].index
    BY DEF SafeInv, WriterOK, CriticalOK
  <2> QED BY <2>1, WriterOpen DEF Exact
<1>4. acked[r.id] = Nil /\ r.id \notin erased
  BY <1>2, <1>3 DEF SafeInv, FileKeeps, Good
<1>5. file' = Append(file, line) /\ file \in Seq(Segment) /\ FileKeeps(file, acked, erased)
  BY <1>2 DEF Append1, TypeInv, DiskOK, SafeInv
<1>6. DOMAIN file = 1..Len(file) /\ Len(file) \in Nat
  BY <1>5
<1>7. /\ DOMAIN file' = 1..n /\ n \notin DOMAIN file /\ n \in Nat
      /\ file'[n] = line
      /\ \A i \in DOMAIN file : file'[i] = file[i]
      /\ file' = [i \in 1..n |-> file'[i]]
  BY <1>5, <1>6
<1>8. DOMAIN file' = DOMAIN file \cup {n}
  BY <1>6, <1>7
<1>9. CleanLine(line) /\ line.rec = r
  BY <1>2 DEF CleanLine
<1> HIDE DEF n, line
<1>10. CleanFile(file')
  <2>1. \A i \in DOMAIN file' : CleanLine(file'[i])
    BY <1>5, <1>7, <1>8, <1>9 DEF FileKeeps, CleanFile
  <2>2. ASSUME NEW i \in DOMAIN file', NEW j \in DOMAIN file',
               file'[i].rec.id = file'[j].rec.id
        PROVE  i = j
    BY <1>3, <1>5, <1>7, <1>8, <1>9, <2>2 DEF FileKeeps, CleanFile
  <2> QED BY <1>7, <2>1, <2>2 DEF CleanFile
<1>11. FileKeeps(file', acked, erased)
  <2>1. ASSUME NEW id \in Id, acked[id] # Nil
        PROVE  \E i \in DOMAIN file' : file'[i].rec.id = id /\ Holds(file'[i].rec, acked[id])
    <3>1. PICK i \in DOMAIN file : file[i].rec.id = id /\ Holds(file[i].rec, acked[id])
      BY <1>5, <2>1 DEF FileKeeps
    <3> QED BY <1>7, <1>8, <3>1
  <2>2. ASSUME NEW id \in erased
        PROVE  \E i \in DOMAIN file' : file'[i].rec.id = id /\ Originals(file'[i].rec) = {}
    <3>1. PICK i \in DOMAIN file : file[i].rec.id = id /\ Originals(file[i].rec) = {}
      BY <1>5 DEF FileKeeps
    <3> QED BY <1>7, <1>8, <3>1
  <2> QED BY <1>5, <1>10, <2>1, <2>2 DEF FileKeeps
<1> QED BY <1>1, <1>2, <1>3, <1>4, <1>7, <1>8, <1>11 DEF n, line

\* Put of a new id appends its line and acknowledges it.
LEMMA PutAppendSafe ==
  ASSUME CleanWrites, TypeInv, SafeInv, NEW t \in Threads, PutAppend(t)
  PROVE  SafeInv'
<1> DEFINE n == Len(file) + 1
           r == call[t].rec
           index == handle[Writer].index
           new == [id \in DOMAIN index \cup {r.id} |->
                     IF id = r.id THEN [gen |-> gen, first |-> n, last |-> n]
                                  ELSE index[id]]
           c == Final(call[t], Fail("ok"))
<1>1. /\ call[t].pc = "putAppend" /\ Append1(r, "full", TRUE)
      /\ handle' = [handle EXCEPT ![Writer].index = new]
      /\ Acknowledge(r) /\ Return(t, Fail("ok")) /\ gen' = gen /\ erased' = erased
  BY DEF PutAppend
<1>2. t \in WriterThreads
  BY <1>1 DEF SafeInv, CallSafe, ArgsOK
<1>3. /\ Good(r) /\ r # Nil /\ call[t].op = "put" /\ call[t].id = r.id
      /\ acked[r.id] = Nil /\ r.id \notin erased
      /\ DOMAIN file' = DOMAIN file \cup {n} /\ n \notin DOMAIN file
      /\ file'[n] = [rec |-> r, part |-> "full", nl |-> TRUE]
      /\ \A i \in DOMAIN file : file'[i] = file[i] /\ file[i].rec.id # r.id
      /\ FileKeeps(file', acked, erased)
  BY <1>1, <1>2, AppendKeeps
<1>4. /\ handle'[Writer].open = handle[Writer].open
      /\ handle'[Writer].trusted = handle[Writer].trusted
      /\ handle'[Writer].index = new
  BY <1>1, HandleOfTyped DEF TypeInv, StoreOK
<1>5. Exact(new, gen, file')
  <2>1. Exact(index, gen, file)
    BY <1>1, <1>2, WriterOpen
  <2>2. ASSUME NEW i \in DOMAIN file'
        PROVE  /\ file'[i].rec.id \in DOMAIN new
               /\ new[file'[i].rec.id] = [gen |-> gen, first |-> i, last |-> i]
    BY <1>3, <2>1 DEF Exact
  <2>3. ASSUME NEW id \in DOMAIN new
        PROVE  \E i \in DOMAIN file' : file'[i].rec.id = id
    BY <1>3, <2>1 DEF Exact
  <2> HIDE DEF new
  <2> QED BY <2>2, <2>3 DEF Exact
<1>6. /\ FileKeeps(file', acked', erased)
      /\ \A id \in Id : acked[id] # Nil => acked'[id] = acked[id]
      /\ acked'[r.id] # Nil /\ StorageChecksum(r) = StorageChecksum(acked'[r.id])
  <2>1. n \in DOMAIN file' /\ file'[n].rec = r /\ Holds(r, r)
    BY <1>3 DEF Holds
  <2> QED BY <1>1, <1>3, <2>1, AckKeeps DEF Good
<1>7. /\ call' = [call EXCEPT ![t] = c] /\ c.pc = "done" /\ c.op = "put"
      /\ c.id = call[t].id /\ c.seen = call[t].seen /\ c.rec = r
  <2>1. call' = [call EXCEPT ![t] = c]
    BY <1>1 DEF Return, Final
  <2>2. Fail("ok").err = "ok"
    BY DEF Fail
  <2> QED BY <1>3, <2>1, <2>2, FinalFields
<1> HIDE DEF c
<1>8. PutOK(c, acked')
  <2>1. ~ c.seen.erased
    BY <1>1, <1>3, <1>7 DEF SafeInv, CallSafe, SeenOK
  <2> QED BY <1>3, <1>6, <1>7, <2>1 DEF PutOK
<1>9. \A u \in WriterThreads : u # t => CriticalOK(call[u], new, file')
  BY <1>1, <1>2, Alone DEF Critical
<1> HIDE DEF new
<1> QED BY <1>1, <1>2, <1>4, <1>5, <1>6, <1>7, <1>8, <1>9, EffectStep

\* The tombstones written over the line of their record.
LEMMA RenameKeeps ==
  ASSUME TypeInv, SafeInv, NEW t \in WriterThreads, call[t].pc = "purgeRewrite",
         Rename(call[t].id, call[t].rec)
  PROVE  /\ file' \in Seq(Segment) /\ gen' \in Nat
         /\ call[t].id \in Id /\ call[t].op = "purge"
         /\ FileKeeps(file', acked, erased \cup {call[t].id})
         /\ \E i \in DOMAIN file :
              /\ file[i].rec.id = call[t].id
              /\ DOMAIN file' = DOMAIN file
              /\ file'[i] = [rec |-> Tombstoned(file[i].rec), part |-> "full", nl |-> TRUE]
              /\ \A j \in DOMAIN file : j # i => file'[j] = file[j]
<1> DEFINE id == call[t].id
<1>1. t \in Threads /\ id \in Id /\ call[t].op = "purge"
  BY HandleOfTyped DEF SafeInv, CallSafe, SeenOK, ArgsOK
<1>2. PICK i \in DOMAIN file : file[i].rec.id = id /\ call[t].rec = Tombstoned(file[i].rec)
  BY DEF SafeInv, WriterOK, CriticalOK
<1> DEFINE r == Tombstoned(file[i].rec)
<1>3. /\ Good(file[i].rec) /\ Good(r) /\ r.id = id /\ Originals(r) = {}
      /\ \A a : Holds(file[i].rec, a) => Holds(r, a)
  BY <1>2, TheLine, GoodTombstoned
<1>4. /\ file \in Seq(Segment) /\ FileKeeps(file, acked, erased) /\ CleanFile(file)
      /\ gen \in Nat
  BY DEF TypeInv, DiskOK, SafeInv, FileKeeps
<1>5. file' = Rewritten(file, r.id, r) /\ gen' = gen + 1
  BY <1>2, <1>3 DEF Rename
<1>6. file' \in Seq(Segment)
  <2>1. call[t].pc = "purgeRewrite" => \E s \in StoredRecord : call[t].rec = Tombstoned(s)
    BY <1>1 DEF TypeInv, CallOK
  <2>2. Wire(r) \in StoredRecord
    BY <1>2, <2>1, StoredRecordClosed
  <2> QED BY <1>4, <1>5, <2>2, RewrittenTyped
<1> HIDE DEF r
<1>7. /\ DOMAIN file' = DOMAIN file /\ CleanFile(file')
      /\ file'[i] = [rec |-> r, part |-> "full", nl |-> TRUE]
      /\ \A j \in DOMAIN file : j # i => file'[j] = file[j]
  BY <1>2, <1>3, <1>4, <1>5, CleanRewrite
<1>8. file'[i].rec = r
  BY <1>7
<1>9. FileKeeps(file', acked, erased \cup {id})
  <2>1. ASSUME NEW x \in Id, acked[x] # Nil
        PROVE  \E j \in DOMAIN file' : file'[j].rec.id = x /\ Holds(file'[j].rec, acked[x])
    <3>1. PICK j \in DOMAIN file : file[j].rec.id = x /\ Holds(file[j].rec, acked[x])
      BY <1>4, <2>1 DEF FileKeeps
    <3>2. CASE j = i
      BY <1>2, <1>3, <1>7, <1>8, <3>1, <3>2
    <3>3. CASE j # i
      BY <1>7, <3>1, <3>3
    <3> QED BY <3>2, <3>3
  <2>2. ASSUME NEW x \in erased \cup {id}
        PROVE  \E j \in DOMAIN file' : file'[j].rec.id = x /\ Originals(file'[j].rec) = {}
    <3>1. CASE x = id
      BY <1>3, <1>7, <1>8, <3>1
    <3>2. CASE x # id
      <4>1. PICK j \in DOMAIN file : file[j].rec.id = x /\ Originals(file[j].rec) = {}
        BY <1>4, <2>2, <3>2 DEF FileKeeps
      <4> QED BY <1>2, <1>7, <3>2, <4>1
    <3> QED BY <3>1, <3>2
  <2> QED BY <1>1, <1>4, <1>7, <2>1, <2>2 DEF FileKeeps
<1>10. gen' \in Nat
  BY <1>4, <1>5
<1>11. \E k \in DOMAIN file :
         /\ file[k].rec.id = call[t].id
         /\ DOMAIN file' = DOMAIN file
         /\ file'[k] = [rec |-> Tombstoned(file[k].rec), part |-> "full", nl |-> TRUE]
         /\ \A j \in DOMAIN file : j # k => file'[j] = file[j]
  <2>1. file'[i] = [rec |-> Tombstoned(file[i].rec), part |-> "full", nl |-> TRUE]
    BY <1>7, Zenon DEF r
  <2> QED BY <1>2, <1>7, <2>1, Zenon
<1> QED BY <1>1, <1>6, <1>9, <1>10, <1>11, Zenon

\* The rename of Purge replaces one record by its tombstone and keeps the
\* others.
LEMMA PurgeRewriteSafe ==
  ASSUME TypeInv, SafeInv, NEW t \in Threads, PurgeRewrite(t)
  PROVE  SafeInv'
<1> DEFINE new == newIndex(file', gen')
           c == Final(call[t], Fail("ok"))
<1>1. /\ call[t].pc = "purgeRewrite" /\ Rename(call[t].id, call[t].rec)
      /\ handle' = [handle EXCEPT ![Writer].index = new]
      /\ Return(t, Fail("ok")) /\ acked' = acked
      /\ erased' = erased \cup {call[t].id}
  BY DEF PurgeRewrite
<1>2. t \in WriterThreads
  BY <1>1 DEF SafeInv, CallSafe, ArgsOK
<1>3. /\ file' \in Seq(Segment) /\ gen' \in Nat /\ call[t].op = "purge"
      /\ FileKeeps(file', acked', erased')
  BY <1>1, <1>2, RenameKeeps
<1>4. /\ handle'[Writer].open = handle[Writer].open
      /\ handle'[Writer].trusted = handle[Writer].trusted
      /\ handle'[Writer].index = new
  BY <1>1, HandleOfTyped DEF TypeInv, StoreOK
<1>5. Exact(new, gen', file')
  BY <1>3, CleanIndex DEF FileKeeps
<1>6. /\ call' = [call EXCEPT ![t] = c] /\ c.pc = "done" /\ c.op = "purge"
      /\ c.id = call[t].id /\ c.seen = call[t].seen
  <2>1. call' = [call EXCEPT ![t] = c]
    BY <1>1 DEF Return, Final
  <2> QED BY <1>3, <2>1, FinalFields
<1> HIDE DEF c, new
<1>7. PutOK(c, acked')
  BY <1>6 DEF PutOK
<1>8. \A u \in WriterThreads : u # t => CriticalOK(call[u], new, file')
  BY <1>1, <1>2, Alone DEF Critical
<1> QED BY <1>1, <1>2, <1>3, <1>4, <1>5, <1>6, <1>7, <1>8, EffectStep

-----------------------------------------------------------------------------
\* Opening and dying.

\* Whom the writer trusts is no concern of the readers, nor of an idle thread.
LEMMA TrustChange ==
  ASSUME NEW t, NEW c, NEW ack, NEW er, NEW T, NEW U, CallSafe(t, c, ack, er, T),
         t \notin WriterThreads \/ c.pc = "idle"
  PROVE  CallSafe(t, c, ack, er, U)
  BY DEF CallSafe, GetOK

\* A scan makes an index of exactly the lines.
LEMMA OpenSafe ==
  ASSUME TypeInv, SafeInv,
         \/ \E h \in Handles : New(h)
         \/ \E t \in WriterThreads : InitFile(t)
  PROVE  SafeInv'
<1>0. UNCHANGED <<file, gen, acked, erased>> /\ Writer \in Handles
  BY HandleOfTyped DEF New, InitFile, disk, history
<1>3. \A t \in Threads : call'[t] = call[t] \/ call'[t] = Idle
  BY DEF New, InitFile, NoCalls
<1>4. \A t \in Threads : \A T : CallSafe(t, Idle, acked, erased, T)
  BY DEF Idle, CallSafe, SeenOK, ArgsOK, PutOK, ReadOK, GetOK
<1>5. ASSUME NEW t \in WriterThreads
      PROVE  t \in Threads /\ (~ handle[Writer].open => call[t].pc = "idle")
  BY HandleOfTyped DEF SafeInv, WriterOK
<1>1. CASE handle'[Writer] = handle[Writer]
  <2>1. WriterOK(handle'[Writer], call', gen', file')
    BY <1>0, <1>1, <1>3, <1>5 DEF SafeInv, WriterOK, CriticalOK, Idle
  <2>2. \A t \in Threads : CallSafe(t, call'[t], acked', erased', handle'[Writer].trusted)
    BY <1>0, <1>1, <1>3, <1>4 DEF SafeInv
  <2> QED BY <1>0, <2>1, <2>2 DEF SafeInv
<1>2. CASE handle'[Writer] # handle[Writer]
  <2>1. PICK T \in TrustSets : /\ ~ handle[Writer].open
          /\ handle' = [handle EXCEPT ![Writer] =
               [open |-> TRUE, trusted |-> T, index |-> scanIndex(file, gen)]]
    BY <1>0, <1>2 DEF New, InitFile, TypeInv
  <2>2. handle'[Writer] = [open |-> TRUE, trusted |-> T, index |-> scanIndex(file, gen)]
    BY <1>0, <2>1 DEF TypeInv
  <2>3. Exact(scanIndex(file, gen), gen, file)
    BY CleanIndex DEF TypeInv, DiskOK, SafeInv, FileKeeps
  <2>4. \A t \in WriterThreads : call[t].pc = "idle" /\ call'[t].pc = "idle"
    BY <1>3, <1>5, <2>1 DEF Idle
  <2>5. WriterOK(handle'[Writer], call', gen', file')
    BY <1>0, <2>2, <2>3, <2>4 DEF WriterOK, CriticalOK
  <2>6. \A t \in Threads : CallSafe(t, call'[t], acked', erased', handle'[Writer].trusted)
    BY <1>0, <1>3, <1>4, <2>4, TrustChange DEF SafeInv
  <2> QED BY <1>0, <2>5, <2>6 DEF SafeInv
<1> QED BY <1>1, <1>2

\* A process that dies loses its index and its calls, not the file.
LEMMA KillSafe ==
  ASSUME TypeInv, SafeInv, Kill, FileKeeps(file', acked, erased)
  PROVE  SafeInv'
<1>1. /\ handle'[Writer] = Closed /\ UNCHANGED <<acked, erased>>
      /\ \A t \in WriterThreads : t \in Threads /\ call'[t] = Idle
      /\ \A t \in Threads : t \notin WriterThreads => call'[t] = call[t]
  BY HandleOfTyped DEF Kill, NoCalls, TypeInv, history
<1>2. ~ Closed.open /\ Idle.pc = "idle"
  BY DEF Closed, Idle
<1>3. WriterOK(handle'[Writer], call', gen', file')
  BY <1>1, <1>2 DEF WriterOK, CriticalOK
<1>4. ASSUME NEW t \in Threads
      PROVE  CallSafe(t, call'[t], acked, erased, handle'[Writer].trusted)
  <2>1. CASE t \in WriterThreads
    BY <1>1, <1>2, <2>1 DEF CallSafe, SeenOK, ArgsOK, PutOK, ReadOK, GetOK
  <2>2. CASE t \notin WriterThreads
    BY <1>1, <2>2, TrustChange DEF SafeInv
  <2> QED BY <2>1, <2>2
<1> QED BY <1>1, <1>3, <1>4 DEF SafeInv

\* Death inside Put or Purge leaves the file before or after the effect.
LEMMA CrashSafe ==
  ASSUME CleanWrites, TypeInv, SafeInv,
         \/ Crash
         \/ \E t \in WriterThreads :
              CrashInPut(t) \/ CrashAfterRename(t) \/ CrashBeforeRename(t)
  PROVE  SafeInv'
<1>1. CASE Crash
  BY <1>1, KillSafe DEF Crash, disk, SafeInv
<1>2. ASSUME NEW t \in WriterThreads, CrashInPut(t)
      PROVE  SafeInv'
  BY <1>2, AppendKeeps, KillSafe DEF CrashInPut, CleanWrites
<1>3. ASSUME NEW t \in WriterThreads, CrashAfterRename(t)
      PROVE  SafeInv'
  <2>1. FileKeeps(file', acked, erased \cup {call[t].id}) /\ Kill
    BY <1>3, RenameKeeps DEF CrashAfterRename
  <2>2. FileKeeps(file', acked, erased)
    BY <2>1 DEF FileKeeps
  <2> QED BY <2>1, <2>2, KillSafe
<1>4. ASSUME NEW t \in WriterThreads, CrashBeforeRename(t)
      PROVE  SafeInv'
  BY <1>4, KillSafe DEF CrashBeforeRename, SafeInv
<1> QED BY <1>1, <1>2, <1>3, <1>4

-----------------------------------------------------------------------------
\* Every step preserves the invariant.
LEMMA SafeInvStep ==
  ASSUME CleanWrites, TypeInv, SafeInv, [Next]_vars
  PROVE  SafeInv'
<1>1. CASE UNCHANGED vars
  BY <1>1 DEF vars, SafeInv
<1>2. ASSUME NEW t \in Threads, Lock(t)
      PROVE  SafeInv'
  BY <1>2, PutRetrySafe, PutLockSafe, GetLookupSafe, PurgeLockSafe DEF Lock
<1>3. ASSUME NEW t \in Threads, Proceed(t)
      PROVE  SafeInv'
  BY <1>3, PutAppendSafe, FailSteps, GetReadSafe, GetReturnSafe, PurgeRewriteSafe
     DEF Proceed
<1>4. CASE Next
  BY <1>2, <1>3, <1>4, CallSafeSteps, OpenSafe, CrashSafe DEF Next, Threads
<1> QED BY <1>1, <1>4

\* The inductive invariant holds in every reachable state: the lines of the
\* file are whole and one per id, they hold what Put acknowledged and nothing
\* that Purge erased, and the index of an open Store has exactly their offsets.
THEOREM SafeInvariant ==
  ASSUME CleanWrites
  PROVE  Spec => []SafeInv
<1>1. TypeInv /\ SafeInv /\ [Next]_vars => SafeInv'
  BY SafeInvStep
<1> QED BY <1>1, SafeInvInit, TypeInvariant, PTL DEF Spec

\* A Get invoked on the writing process after Put returned nil returns the
\* record, whole or wholly erased, whatever Puts, Purges and crashes come
\* between or run at the same time.
THEOREM GetReturnsWhatPutAcknowledged ==
  ASSUME CleanWrites
  PROVE  Spec => []ReadYourWrites
<1>1. SafeInv => ReadYourWrites
  BY HandleOfTyped DEF SafeInv, CallSafe, GetOK, ReadYourWrites, Returned
<1> QED BY <1>1, SafeInvariant, PTL

\* A caller that repeats a Put which was answered nil is answered nil again, or
\* ErrPurged after a Purge: the index leads to the line that holds the record,
\* the line verifies as long as the signer is trusted, and its checksum is the
\* retry's.
THEOREM RetriesAreAnswered ==
  ASSUME CleanWrites
  PROVE  Spec => []RetryAdmitted
<1>1. SafeInv => RetryAdmitted
  <2> DEFINE T == handle[Writer].trusted
             index == handle[Writer].index
  <2> SUFFICES ASSUME SafeInv, handle[Writer].open, NEW id \in Id, acked[id] # Nil,
                      id \in DOMAIN index, NEW out \in readAt(index[id]),
                      out.err # "ErrIO"
               PROVE  RetryError(acked[id], out, T) \in
                        IF acked[id].envelope.key \in T
                        THEN {"ok", "ErrPurged"} ELSE {"ErrUntrustedSigner"}
    BY DEF RetryAdmitted
  <2>1. CleanFile(file) /\ Exact(index, gen, file)
    BY DEF SafeInv, FileKeeps, WriterOK
  <2>2. PICK i \in DOMAIN file : file[i].rec.id = id /\ Holds(file[i].rec, acked[id])
    BY DEF SafeInv, FileKeeps
  <2>3. PICK j \in DOMAIN file : file[j].rec.id = id /\ out = Ok(file[j].rec)
    BY <2>1, ReadExact
  <2>4. i = j
    BY <2>1, <2>2, <2>3 DEF CleanFile
  <2> DEFINE s == file[i].rec
             a == acked[id]
  <2>5. out.err = "ok" /\ out.rec = s
    BY <2>3, <2>4 DEF Ok
  <2>6. Sound(s)
    BY <2>1 DEF CleanFile, CleanLine, Good
  <2>7. StorageChecksum(s) = StorageChecksum(a) /\ s.id = a.id /\ s.envelope = a.envelope
    BY <2>2, ChecksumFields DEF Holds
  <2> HIDE DEF s, a, T
  <2>8. Verify(s, T) = IF a.envelope.key \in T THEN "ok" ELSE "ErrUntrustedSigner"
    BY <2>6, <2>7, SoundVerdict
  <2> QED BY <2>5, <2>7, <2>8 DEF RetryError, a
<1> QED BY <1>1, SafeInvariant, PTL

\* Puts of different records under one capsule_id never both return nil.
THEOREM PutsOfOneIdAgree ==
  ASSUME CleanWrites
  PROVE  Spec => []NoConflictAdmitted
<1>1. SafeInv => NoConflictAdmitted
  BY HandleOfTyped DEF SafeInv, CallSafe, PutOK, NoConflictAdmitted, Returned
<1> QED BY <1>1, SafeInvariant, PTL

\* After Purge returned nil neither the file, nor a later Get on any process,
\* nor a later Put brings an original of the record back.
THEOREM PurgeIsFinal ==
  ASSUME CleanWrites
  PROVE  Spec => []ErasedStaysErased
<1>1. SafeInv => ErasedStaysErased
  <2> SUFFICES ASSUME SafeInv PROVE ErasedStaysErased
    OBVIOUS
  <2>1. \A id \in erased, i \in DOMAIN file :
          file[i].rec.id = id => Originals(file[i].rec) = {}
    BY TheLine
  <2>2. ASSUME NEW t \in Threads
        PROVE  PutOK(call[t], acked) /\ GetOK(t, call[t], handle[Writer].trusted)
    BY DEF SafeInv, CallSafe
  <2> QED BY <2>1, <2>2, HandleOfTyped DEF ErasedStaysErased, Returned, PutOK, GetOK
<1> QED BY <1>1, SafeInvariant, PTL
-----------------------------------------------------------------------------
(***************************************************************************)
(* JsonlStore implements ArtifactStore: read off the file, every line that *)
(* a Put appends is an Admit, every rename of a Purge is an Erase, and no  *)
(* other step changes what is stored.  A crash right after the line or the *)
(* rename counts with it: the operation took effect, the caller was not    *)
(* told.                                                                   *)
(***************************************************************************)

\* On a clean file the record stored under an id is that of its one line.
LEMMA StoredLine ==
  ASSUME NEW f, CleanFile(f), NEW id
  PROVE  LET S == {i \in DOMAIN f : f[i].part = "full" /\ f[i].rec.id = id}
         IN  \A i \in DOMAIN f : f[i].rec.id = id => S # {} /\ Max(S) = i
<1> SUFFICES ASSUME NEW i \in DOMAIN f, f[i].rec.id = id
             PROVE  LET S == {j \in DOMAIN f : f[j].part = "full" /\ f[j].rec.id = id}
                    IN  S # {} /\ Max(S) = i
  OBVIOUS
<1>1. {j \in DOMAIN f : f[j].part = "full" /\ f[j].rec.id = id} = {i}
  BY DEF CleanFile, CleanLine
<1>2. Max({i}) = i
  BY DEF Max
<1> QED BY <1>1, <1>2

\* The records of a file, as Stored reads them.
StoredOf(f) ==
  [id \in Id |->
     LET S == {i \in DOMAIN f : f[i].part = "full" /\ f[i].rec.id = id}
     IN  IF S = {} THEN Nil ELSE f[Max(S)].rec]

\* With one line per id, what is stored is that line.
LEMMA StoredOfLine ==
  ASSUME NEW f, CleanFile(f), NEW id \in Id
  PROVE  /\ \A i \in DOMAIN f : f[i].rec.id = id => StoredOf(f)[id] = f[i].rec
         /\ (\A i \in DOMAIN f : f[i].rec.id # id) => StoredOf(f)[id] = Nil
<1>1. ASSUME NEW i \in DOMAIN f, f[i].rec.id = id
      PROVE  StoredOf(f)[id] = f[i].rec
  BY <1>1, StoredLine DEF StoredOf
<1>2. ASSUME \A i \in DOMAIN f : f[i].rec.id # id
      PROVE  StoredOf(f)[id] = Nil
  <2>1. {i \in DOMAIN f : f[i].part = "full" /\ f[i].rec.id = id} = {}
    BY <1>2
  <2> QED BY <2>1 DEF StoredOf
<1> QED BY <1>1, <1>2

\* What the refinement maps to is read off the file.
LEMMA StoredIs ==
  /\ Stored = StoredOf(file)
  /\ Stored' = StoredOf(file')
BY DEF Stored, StoredAt, StoredOf

\* Two files with the same records under an id.
LEMMA StoredSame ==
  ASSUME NEW f, NEW g, CleanFile(f), CleanFile(g), NEW id \in Id,
         DOMAIN f \subseteq DOMAIN g,
         \A i \in DOMAIN f : f[i].rec.id = id => g[i] = f[i],
         \A i \in DOMAIN g : g[i].rec.id = id => i \in DOMAIN f /\ f[i].rec.id = id
  PROVE  StoredOf(g)[id] = StoredOf(f)[id]
<1>1. CASE \E i \in DOMAIN f : f[i].rec.id = id
  <2>1. PICK i \in DOMAIN f : f[i].rec.id = id
    BY <1>1
  <2>2. StoredOf(f)[id] = f[i].rec
    BY <2>1, StoredOfLine
  <2>3. i \in DOMAIN g /\ g[i] = f[i]
    BY <2>1
  <2>4. StoredOf(g)[id] = g[i].rec
    BY <2>1, <2>3, StoredOfLine
  <2> QED BY <2>2, <2>3, <2>4
<1>2. CASE ~ \E i \in DOMAIN f : f[i].rec.id = id
  BY <1>2, StoredOfLine
<1> QED BY <1>1, <1>2

\* What Put may store is admissible.
LEMMA AdmittedAdmissible ==
  ASSUME CleanWrites, NEW r, Admitted(r)
  PROVE  r.id \in Id /\ r \in AdmissibleRecords[r.id]
<1>1. PICK q \in Records, T \in TrustSets : r = Prepared(q) /\ AdmissionError(q, T) = "ok"
  BY DEF Admitted
<1>2. Wire(r) = r /\ r.id \in Id
  BY AdmittedGood DEF Good
<1>3. r.id = q.id
  BY <1>1 DEF Prepared, WithArtifacts
<1> QED BY <1>1, <1>2, <1>3 DEF AdmissibleRecords

\* The line of a Put admits its record.
LEMMA AppendAdmits ==
  ASSUME CleanWrites, TypeInv, SafeInv, NEW t \in WriterThreads,
         call[t].pc = "putAppend", Append1(call[t].rec, "full", TRUE)
  PROVE  Abstract!Next
<1> DEFINE n == Len(file) + 1
           r == call[t].rec
<1>1. /\ Good(r) /\ r # Nil /\ Admitted(r)
      /\ \A i \in DOMAIN file : file[i].rec.id # r.id
      /\ DOMAIN file' = DOMAIN file \cup {n} /\ n \notin DOMAIN file
      /\ file'[n] = [rec |-> r, part |-> "full", nl |-> TRUE]
      /\ \A i \in DOMAIN file : file'[i] = file[i]
      /\ CleanFile(file') /\ CleanFile(file)
  BY AppendKeeps DEF FileKeeps, SafeInv
<1> HIDE DEF n, r
<1>2. file'[n].rec = r
  BY <1>1
<1>3. ASSUME NEW id \in Id
      PROVE  Abstract!Admit(id) \/ Stored'[id] = Stored[id]
  <2>1. CASE id = r.id
    <3>1. StoredOf(file)[id] = Nil
      BY <1>1, <2>1, StoredOfLine
    <3>2. StoredOf(file')[id] = r
      BY <1>1, <1>2, <2>1, StoredOfLine
    <3>3. r \in AdmissibleRecords[id]
      BY <1>1, <2>1, AdmittedAdmissible
    <3> QED BY <3>1, <3>2, <3>3, StoredIs DEF Abstract!Admit
  <2>2. CASE id # r.id
    <3>1. StoredOf(file')[id] = StoredOf(file)[id]
      BY <1>1, <1>2, <2>2, StoredSame
    <3> QED BY <3>1, StoredIs
  <2> QED BY <2>1, <2>2
<1>4. Stored' = [id \in Id |-> Stored'[id]]
  BY StoredIs DEF StoredOf
<1> QED BY <1>3, <1>4 DEF Abstract!Next

\* The contract's Tombstoned is the store's: both are that of Artifact.
LEMMA SameTombstoned ==
  ASSUME NEW r
  PROVE  Abstract!Tombstoned(r) = Tombstoned(r)
BY DEF Abstract!Tombstoned, Tombstoned, Abstract!Tombstone, Tombstone,
       Abstract!WithArtifacts, WithArtifacts, Abstract!WithContent, WithContent,
       Abstract!Present, Present, Abstract!Purged, Purged

\* The rename of a Purge erases its record.
LEMMA RenameErases ==
  ASSUME TypeInv, SafeInv, NEW t \in WriterThreads, call[t].pc = "purgeRewrite",
         Rename(call[t].id, call[t].rec)
  PROVE  Abstract!Next
<1>1. PICK i \in DOMAIN file :
        /\ file[i].rec.id = call[t].id
        /\ DOMAIN file' = DOMAIN file
        /\ file'[i] = [rec |-> Tombstoned(file[i].rec), part |-> "full", nl |-> TRUE]
        /\ \A j \in DOMAIN file : j # i => file'[j] = file[j]
  BY RenameKeeps
<1>2. CleanFile(file) /\ CleanFile(file') /\ call[t].id \in Id
  BY RenameKeeps DEF SafeInv, FileKeeps
<1> DEFINE r == file[i].rec
<1>3. /\ Good(r) /\ file'[i].rec = Tombstoned(r) /\ Tombstoned(r).id = r.id
      /\ r # Nil
  <2>1. Good(r)
    BY TheLine
  <2>2. r \in StoredRecord
    <3>1. file \in Seq(Segment)
      BY DEF TypeInv, DiskOK
    <3>2. file[i] \in Segment
      BY <3>1
    <3> QED BY <3>2 DEF Segment
  <2>3. r # Nil
    BY <2>2, RecordAssumption DEF StoredRecord
  <2> QED BY <1>1, <2>1, <2>3, GoodTombstoned
<1> HIDE DEF r
<1>4. ASSUME NEW id \in Id
      PROVE  Abstract!Erase(id) \/ Stored'[id] = Stored[id]
  <2>1. CASE id = call[t].id
    <3>1. StoredOf(file)[id] = r
      BY <1>1, <1>2, <2>1, StoredOfLine DEF r
    <3>2. StoredOf(file')[id] = Tombstoned(r)
      <4>1. file'[i].rec.id = id
        BY <1>1, <1>3, <2>1 DEF r
      <4> QED BY <1>1, <1>2, <1>3, <4>1, StoredOfLine
    <3> QED BY <1>3, <3>1, <3>2, StoredIs, SameTombstoned DEF Abstract!Erase
  <2>2. CASE id # call[t].id
    <3>1. file'[i].rec.id # id /\ file[i].rec.id # id
      BY <1>1, <1>3, <2>2 DEF r
    <3>2. StoredOf(file')[id] = StoredOf(file)[id]
      BY <1>1, <1>2, <3>1, StoredSame
    <3> QED BY <3>2, StoredIs
  <2> QED BY <2>1, <2>2
<1>5. Stored' = [id \in Id |-> Stored'[id]]
  BY StoredIs DEF StoredOf
<1> QED BY <1>4, <1>5 DEF Abstract!Next

\* Every step is a step of the contract or leaves the stored records alone.
LEMMA StepRefines ==
  ASSUME CleanWrites, TypeInv, SafeInv, [Next]_vars
  PROVE  [Abstract!Next]_Stored
<1>1. CASE file' = file
  BY <1>1, StoredIs
<1>2. ASSUME NEW t \in Threads, PutAppend(t) \/ CrashInPut(t)
      PROVE  Abstract!Next
  <2>1. call[t].pc = "putAppend" /\ Append1(call[t].rec, "full", TRUE)
    BY <1>2 DEF PutAppend, CrashInPut, CleanWrites
  <2>2. t \in WriterThreads
    BY <2>1 DEF SafeInv, CallSafe, ArgsOK
  <2> QED BY <2>1, <2>2, AppendAdmits
<1>3. ASSUME NEW t \in Threads, PurgeRewrite(t) \/ CrashAfterRename(t)
      PROVE  Abstract!Next
  <2>1. call[t].pc = "purgeRewrite" /\ Rename(call[t].id, call[t].rec)
    BY <1>3 DEF PurgeRewrite, CrashAfterRename
  <2>2. t \in WriterThreads
    BY <2>1 DEF SafeInv, CallSafe, ArgsOK
  <2> QED BY <2>1, <2>2, RenameErases
<1>4. CASE UNCHANGED vars
  BY <1>1, <1>4 DEF vars
<1>5. ASSUME NEW t \in Threads,
             \/ PutCall(t) \/ PurgeCall(t) \/ GetCall(t) \/ InitFile(t)
             \/ Lock(t) \/ PutFail(t) \/ GetRead(t) \/ GetReturn(t) \/ PurgeFail(t)
             \/ CrashBeforeRename(t)
      PROVE  file' = file
  BY <1>5 DEF PutCall, PurgeCall, GetCall, InitFile, Lock, PutRetry, PutLock,
     GetLookup, PurgeLock, PutFail, GetRead, GetReturn, PurgeFail, CrashBeforeRename,
     disk, CleanWrites
<1>6. ASSUME Crash \/ \E h \in Handles : New(h)
      PROVE  file' = file
  BY <1>6 DEF Crash, New, disk
<1>7. CASE Next
  BY <1>1, <1>2, <1>3, <1>5, <1>6, <1>7 DEF Next, Proceed, Threads
<1> QED BY <1>4, <1>7

\* The store implements the contract of ArtifactStore: a Put that reaches the
\* file admits its record under a free id, a Purge that reaches its rename
\* erases one record, and nothing else -- concurrent calls, errors, crashes,
\* reopening -- changes what is stored.
THEOREM StoreRefines ==
  ASSUME CleanWrites
  PROVE  Spec => ImplementsStore
<1>1. Init => Abstract!Init
  <2> SUFFICES ASSUME Init PROVE Stored = [id \in Id |-> Nil]
    BY DEF Abstract!Init
  <2>1. \A id : StoredAt(id) = {}
    BY DEF Init, StoredAt
  <2> QED BY <2>1 DEF Stored
<1>2. TypeInv /\ SafeInv /\ [Next]_vars => [Abstract!Next]_Stored
  BY StepRefines
<1> QED BY <1>1, <1>2, TypeInvariant, SafeInvariant, PTL
           DEF Spec, ImplementsStore, Abstract!Spec

-----------------------------------------------------------------------------
\* What the contract compares of records is what the store's own definitions do.
LEMMA SameContent ==
  ASSUME NEW r
  PROVE  /\ Abstract!StorageChecksum(r) = StorageChecksum(r)
         /\ Abstract!Originals(r) = Originals(r)
BY DEF Abstract!StorageChecksum, StorageChecksum, Abstract!ChecksumRow, ChecksumRow,
       Abstract!Originals, Originals, Abstract!WithArtifacts, WithArtifacts,
       Abstract!WithContent, WithContent, Abstract!Present, Present, Abstract!Purged, Purged

\* What is stored is made of admitted records.
StoredStable == \A id \in Id : Stored[id] = Nil \/ Stable(Stored[id])

\* Put admits sound records only: Prepare and Verify precede it, and on clean
\* writes their lines are read back as they were written.
LEMMA AdmissibleStable ==
  ASSUME CleanWrites, NEW id \in Id, NEW p \in AdmissibleRecords[id]
  PROVE  Stable(p)
<1>1. PICK r \in Records, T \in TrustSets :
        p = Wire(Prepared(r)) /\ AdmissionError(r, T) = "ok"
  BY DEF AdmissibleRecords
<1>2. Wire(Prepared(r)) = Prepared(r) /\ Sound(Prepared(r))
  BY <1>1, AdmittedGood DEF Admitted, Good
<1>3. Nil \notin {p, Tombstoned(p)}
  BY <1>1, RecordAssumption
<1> QED BY <1>1, <1>2, <1>3 DEF Stable

\* A step of the contract is, under each id, one of its changes.
LEMMA ContractStep ==
  ASSUME CleanWrites, StoredStable, [Abstract!Next]_Stored, NEW id \in Id
  PROVE  /\ Stored'[id] = Nil \/ Stable(Stored'[id])
         /\ Stored[id] # Nil =>
              /\ Stored'[id] # Nil
              /\ StorageChecksum(Stored'[id]) = StorageChecksum(Stored[id])
              /\ Originals(Stored'[id]) \in {Originals(Stored[id]), {}}
<1> DEFINE old == Stored[id]
           new == Stored'[id]
<1>1. old = Nil \/ Stable(old)
  BY DEF StoredStable
<1>2. Changes(old, new)
  <2>1. CASE UNCHANGED Stored
    BY <2>1 DEF Changes
  <2>2. CASE Abstract!Next
    <3>1. Abstract!Admit(id) \/ Abstract!Erase(id) \/ new = old
      BY <2>2 DEF Abstract!Next
    <3> QED
      BY <3>1, AdmissibleStable, SameTombstoned DEF Changes, Abstract!Admit, Abstract!Erase
  <2> QED BY <2>1, <2>2
<1> HIDE DEF old, new
<1>3. /\ new = Nil \/ Stable(new)
      /\ old # Nil => /\ new # Nil
                      /\ StorageChecksum(new) = StorageChecksum(old)
                      /\ Originals(new) \in {Originals(old), {}}
  BY <1>1, <1>2, StoreImmutable
<1> QED BY <1>3 DEF old, new

\* What this store keeps is immutable: in every behaviour a stored record keeps
\* its checksum, and its originals are all there or all erased.
THEOREM RecordsAreImmutable ==
  ASSUME CleanWrites
  PROVE  Spec => Abstract!Immutable
<1>1. Abstract!Init => StoredStable
  BY DEF Abstract!Init, StoredStable
<1>2. StoredStable /\ [Abstract!Next]_Stored => StoredStable'
  BY ContractStep DEF StoredStable
<1>3. StoredStable /\ [Abstract!Next]_Stored =>
        [\A id \in Id : Stored[id] # Nil =>
           /\ Stored'[id] # Nil
           /\ Abstract!StorageChecksum(Stored'[id]) = Abstract!StorageChecksum(Stored[id])
           /\ Abstract!Originals(Stored'[id]) \in {Abstract!Originals(Stored[id]), {}}]_Stored
  BY ContractStep, SameContent
<1>4. Abstract!Spec => Abstract!Immutable
  BY <1>1, <1>2, <1>3, PTL DEF Abstract!Spec, Abstract!Immutable
<1> QED BY <1>4, StoreRefines, PTL DEF ImplementsStore
=============================================================================
