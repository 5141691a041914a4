# Verification of capsule-emit-go

TLA+ models of the capsule-emit-go repository, TLC configurations that check
them on small instances, and TLAPS proofs of the results that hold for every
instance. Paths below are relative to the repository root (`src/` in
`PROJECT.json`).

## 1. Inventory of the system

capsule-emit-go is a library with two halves.

**emit** (root package) builds a format-4 Agent Action Capsule from observed
values, seals it with a content-derived id, signs a Producer Envelope over that
id and verifies both. The package keeps no state, but its values do: a built
capsule, a slot member and a signing identity hold slices the application may own
too, and signing waits for an external signer.

**artifact** stores a capsule, its envelope and the *originals* (payload,
agent output, attachments) the capsule's digests commit to. It has a record
type with its checks, and three interchangeable backends. This half has the
concurrency, the failures and the persistence.

| Component | State | Operations | Interacts with |
|---|---|---|---|
| `artifact/record.go` | none | `Prepare` (copy, checksums, limits), `Verify` (id, capsule, envelope, signer, every artifact), `Record.StorageChecksum` | called by every backend before a write and after a read; calls `emit.VerifyCapsule`, `VerifyEnvelope`, `DigestJSON` |
| `artifact/jsonl` | a file of one JSON record per line; per `Store` an offset index and a mutex | `New` (scan), `Init`, `Put` (append), `Get` (seek), `Purge` (rewrite to a temporary file and rename) | threads share a `Store`; other processes may read the same file |
| `artifact/mysql` | two InnoDB tables, parent rows and artifact rows | `Put` (own transaction, deadlock retry), `PutTx`/`GetTx` (caller's transaction), `Get`, `Purge` | row locks of concurrent transactions; the application's own transaction |
| `artifact/sqlite` | the same two tables in one file | the same, without a retry loop | the pool of one connection, the file's write lock |
| `build.go`, `construction.go`, `model.go`, `constants.go`, `extension.go` | the JSON copied into a `SlotMember` | `Build` (validate, payload, extensions, id), `Carry`/`Received`, `Who`/`Can`/`Did`/`Audit`, `BuildComposition` | `verify.go`; slices shared with the application |
| `digest.go`, `sign.go`, `verify.go` | the key copied into a `SigningIdentity` | `NewSigningIdentity`, `DigestJSON`, `Seal`/`Sign`, `VerifyEnvelope`, `VerifyCapsule` | a KMS or HSM that signs; the agent-action-capsule library |
| `build.go` 496-587 | none | `DecodePayload`, the strict JSON decoder | everything that reads bytes |
| `testdata/producer-cll`, `scripts`, workflows | none | drivers and CI | |

What is hard in it:

* *atomicity and stale state* - `Get` looks an offset up and then reads at it
  while `Purge` may replace the file; another process's index is stale for ever;
  a caller's SQL transaction reads from an old snapshot;
* *crashes* - between writing a line and answering, between the rename and the
  new index, with a temporary file half written;
* *partial failure* - a `Write` that stores a prefix, a statement that fails
  between two INSERTs, a commit whose answer is lost;
* *aliasing and rotation* - the application overwrites the slices and fields of
  the values the library gave it, and a key manager rotates its key, between any
  two calls and while `Sign` waits for the signer;
* *boundaries of JSON* - depth, duplicate keys, negative zero, typed nils,
  members that the id leaves out: one slip and two values share an id or one
  value has two;
* *locks* - manual `Unlock` on two paths of `Get`; shared-to-exclusive upgrades
  that deadlock and are retried a bounded number of times; a pool of one
  connection that an error path must give back;
* *irrevocability* - purged originals must not return by retry, race or restart.

What makes the components correct: a record once acknowledged stays readable,
unchanged but for purging; two different records of one id are never both
acknowledged; purging removes every original at once and for good; reads fail
closed; a byte-identical retry is answered nil; every call returns. The decoder
accepts exactly the JSON values without duplicate keys; a capsule id commits to
everything the input says and to nothing else; an envelope is by the identity's
key over an id that `Build` issued; what `Seal` returns, a store admits with the
originals `Seal` was given and with no others. The
`hazards` of `PROJECT.json` tie each of these to the line where it could fail.

## 2. Modules

| Module | Models | Kind |
|---|---|---|
| `Artifact` | `artifact/record.go`, the purge transformation, the JSON round trip | operators |
| `ArtifactStore` | what every backend promises | abstract specification |
| `JsonlStore` | `artifact/jsonl/store.go` | state machine, implements `ArtifactStore` |
| `MysqlStore` | `artifact/mysql` over InnoDB's locks and snapshots | state machine, implements `ArtifactStore` |
| `SqliteStore` | `artifact/sqlite` over SQLite's snapshots and write lock | state machine, implements `ArtifactStore` |
| `SqlRows` | the rows of a record and what both SQL backends make of them | operators |
| `StrictJson` | the strict decoder of `build.go`, a step per token | operators |
| `JsonReader` | the decoder fed token by token, beside a reference reading of the whole text | state machine |
| `Capsule` | `Build`, `DigestJSON` and `VerifyCapsule`: checks, payload, id | operators |
| `Builder` | a caller who reads JSON text and calls `Build` with it; extends `JsonReader` and `Capsule` | state machine |
| `Producer` | a session with `construction.go` and `sign.go`; extends `Capsule`, instantiates `Artifact` | state machine |
| `MCJsonl`, `MCMysql`, `MCSqlite`, `MCEmit`, `MCProducer` | instances for TLC | |
| `ArtifactProofs` | facts about the operators of `Artifact`, and what the contract guarantees | proofs |
| `JsonlStoreProofs` | `JsonlStore`, for every instance | proofs |
| `SqlRowsProofs` | facts about the operators of `SqlRows` | proofs |
| `SqliteStoreProofs`, `MysqlStoreProofs` | the two SQL backends, for every instance | proofs |
| `CapsuleProofs` | the decoder's documents, `Build`, the id and `VerifyCapsule`, for every input | proofs |
| `BuilderProofs` | `Builder`, for every text and every input | proofs |
| `ProducerProofs` | `Producer`, for every instance | proofs |

### Artifact

A byte slice is `Nil` or a member of `Content`, one of which is the empty
non-nil slice. SHA-256 is taken to be collision free, so a hash is identified
with what it hashes and `StorageChecksum` with the value it hashes. The verdicts
of `VerifyCapsule` and `VerifyEnvelope` are fields of the capsule and of the
envelope. The checks of `Prepare` and `Verify` are kept one by one, in their
order, with the error each returns. Two details matter later: `Prepare` fills in
the exact-byte checksum, which `Purge` keeps, and `Content` is `omitempty`, so
an empty original does not survive the JSON round trip (`Wire`).

### JsonlStore

`file` is a sequence of segments, one per `Write` call: the record, how much of it
reached the file, and whether the newline did. A line is a run of segments up to a
newline. An index entry is a segment range plus `gen`, the number of rewrites so
far: after a rename the bytes have moved, and reading an entry of an older
generation may return an error or any record of the file. Reading any entry may also
fail (`store.go` 237-243); that error is kept apart as `ErrIO`, so that `ErrCorrupt`
says something about the file. `handle` is the `Store` struct of each process, `mu`
its mutex, `call` the method call each thread is in; a process that dies or opens a
new `Store` has none of the calls of the old one (`NoCalls`). `acked` and `erased`
are history: what callers were told.

One step is what runs under the mutex without another thread being able to see
inside, cut where a crash matters: `PutCall` (Prepare, Verify), `PutRetry` or
`PutLock`+`PutAppend`/`PutFail`; `GetCall`, `GetLookup`, `GetRead`, `GetReturn`;
`PurgeCall`, `PurgeLock`, `PurgeRewrite`/`PurgeFail`. `Crash`, `CrashInPut`,
`CrashAfterRename` and `CrashBeforeRename` are the death of the process before,
inside and after the effects on the disk. `scanIndex` skips lines that do not
parse; `rewrite` ignores the parse error and so sees the id of a damaged line
(`Peeked` against `Parsed`).

### MysqlStore

One step is one SQL statement. A parent row and its artifact rows are one cell:
every statement on artifact rows runs while its transaction has locked the
parent row or reads a snapshot. The model of InnoDB (marked external) has
REPEATABLE READ snapshots, shared, exclusive and gap locks kept to the end of
the transaction, duplicate-key INSERTs that leave a shared lock, and a deadlock
detector that rolls a victim back with error 1213. `Fails` is `finishRollback`
plus `retryDeadlock`; in a caller-owned transaction a failed call leaves the
rollback to the caller. `CommitLost` is a commit whose outcome nobody learns.
Artifact rows are read back in the order of insertion; the code reads them
sorted by name, which `StorageChecksum` and `Verify` do not distinguish. When
`GetTx` refuses what it read, the caller may go on in its transaction; after an
error of `PutTx` or of a statement it rolls back, as `PutTx` requires.

### SqliteStore

`conn` is the one connection of each process's pool, which `New`'s comment
requires; a call waits for it in `Begin` or gives up when its context ends
(`BeginFails`). The model of SQLite (marked external) has WAL mode: a
transaction reads the snapshot its first statement took, one transaction at a
time is the `writer`, and becoming the writer fails with `SQLITE_BUSY` when
`busy_timeout` ends or the snapshot is no longer the newest (`CanWrite`, `Busy`).
An INSERT that fails on the primary key leaves the transaction the writer: that,
and not a row lock, is what keeps a duplicate's answer true until the commit.
`Fails` is `finishRollback`; `Die` is the death of a process. The calls a caller
makes inside its own transaction are `PutTx` and `GetTx`. Rows are compared in
the order of insertion, as in `MysqlStore`. How the driver hands back a BLOB of
length 0 is outside the repository, so no record of the instance has an empty
original.

### StrictJson and JsonReader

`json.Decoder` is external: it hands out tokens and checks commas and colons. The
recursion of `decodeJSONValue` is a stack of `Frame`s, the Go call stack; `Step`
is one `decoder.Token()`. A decoded document is flat, a function from the path of
each leaf to the leaf, which makes equality of documents equality of values. In
`JsonReader` the text grows by one token at a time, so that every prefix is
looked at: `AcceptsExactly` compares the first token at which the descent gives
up with `Viable`, which reads brackets, keys and depth off the whole prefix
without a stack, and `DecodesMeaning` compares the document with `Meaning`.

### Capsule and Builder

An `Input` is a record with the fields of the Go struct, `Nil` for an empty string
or a nil pointer. The rules of `validateInput` are one operator per function of the
code; error wording and the order of independent checks are abstracted, for every
error has the same effect. `basePayload` writes the members in `Build`'s order;
`withExtensions` is the loop over the extensions, each checked against the payload
so far. Digests and ids are symbolic, a timestamp is its instant in nanoseconds
and its zone, and the JCS encoding is identified with the document, because JCS
is deterministic and one to one. `Canonical` is the number check, which the
library (external) makes again over the whole payload.

`Builder` composes the two: the text that was read becomes the value of an
extension or the coordinates of a reference, whether it is JSON or not.
`IdCommitsInput` compares each capsule with every capsule of the inputs without
text: equal ids exactly for inputs that say the same. `Says` is a reference of its
own, which knows nothing of payloads.

`Build` ends with the verifier of the agent-action-capsule library, which is
external. `verifyClass1` has the findings that the repository's tests show to refuse
a payload: another id, a number JCS cannot write, a verdict under which nothing was
dispatched beside an effect that started (`verdictAllowsEffect`), a reference
without a type, with incomplete log coordinates or to the chain's parent
(`referenceSound`), and a backfilled capsule without its source, with the time of
import for the time of the source, or that claims a witness nothing corroborates
(`provenanceSound`).

`BuiltVerifies` is what `README.md` 136 says of every `Build` result. It is false for
one reason: an extension of the greatest depth is accepted as a text of its own and
then stands one level deeper in the payload, so that `Build` returns a capsule
`VerifyCapsule` refuses (run `emit_too_deep`). `ShallowVerifies` says that this is the
only reason. `Sign` refuses such a capsule too, so nothing unverifiable is signed.

### Producer

`heap` maps the address of a slice to its contents; whoever was given a slice may
overwrite it. A copy (`newSlotMember`, `NewSigningIdentity`) is a new address, and
leaving the copy out is the mutant of `CopiesStable`. `held` are the capsules and
results the application has, `members` its slot members, `call` the `Sign` or
`Seal` that waits for the external signer. `Signs` is everything up to the call of
the signer (header with the identity's key, capsule verified against its id),
`KmsSigns` or `KmsFails` the signer's answer, `SignReturns`, `SealReturns` and
`SignRefuses` what follows the check of the signature. The environment rotates
the signer's key, overwrites the application's key slice or a capsule's JSON, and
puts another id on a capsule, at any time, also while `Sign` waits.

Two reductions keep the instance small. The session is one goroutine, so library
calls do not overlap each other (they share nothing but what `heap` shows); and
the identity is made before the first `Build`, which reads no key.

`SealedAdmitted` composes the halves of the repository: the `Result` of `Seal`
becomes a record of `Artifact`, instantiated with the digests of `Capsule`, and
`AdmissionError` must accept it with an original exactly when that original is, in
any spelling, the value `Seal` was given. It is about capsules that verify under the
id the `Result` has; `verify` refuses the others before it looks at an original.

## 3. Runs

| Run | Instance | Checks |
|---|---|---|
| `jsonl_store` | two writer threads, two ids, conflicting records, stores reopened with different keys, 2 writes, 1 rename | `TypeOK`, `ReadYourWrites`, `ErasedStaysErased`, `NoConflictAdmitted`, `RetryAdmitted`, `ImplementsStore`, `CallsReturn` |
| `jsonl_readers` | one writer thread and a reading process, opened with different keys; partial writes, a malformed id, a refused record; 2 writes, 1 rename | `GetAuthentic`, `ErasedStaysErased` |
| `mysql_store` | two connections, two ids, own and caller-owned transactions | `TypeOK`, `CommittedWhole`, `StableUntilCommit`, `ReadYourWrites`, `ErasedStaysErased`, `ImplementsStore` |
| `mysql_live` | two stores with different keys contending for one id | `ReadYourWrites`, `CallsReturn` |
| `sqlite_store` | two processes, two ids and a malformed one, a refused record, own and caller-owned transactions | `TypeOK`, `CommittedWhole`, `StableUntilCommit`, `ReadYourWrites`, `ErasedStaysErased`, `ImplementsStore` |
| `sqlite_live` | two threads on one connection and a second process, one id | `CallsReturn` |
| `emit_build` | texts of up to 4 tokens that close nothing, or 2 inside 5 brackets; 414 inputs without text, of which `Build` accepts 83, and texts in an extension | `AcceptsExactly`, `DecodesMeaning`, `IdCommitsInput`, `ShallowVerifies`, `AssuranceBacked` |
| `producer` | two keys, 3 capsules, 2 slot members, one signature, one fault | `EnvelopeAuthentic`, `CopiesStable`, `BindingSound`, `SealedAdmitted` |
| `jsonl_empty_content`, `jsonl_lost_after_short_write`, `jsonl_orphan_originals` | one writer thread | one property each, violated |
| `emit_too_deep` | as `emit_build` | `BuiltVerifies`, violated |

Deadlock is checked in every run of a store: a `Store` can always be called again or
reopened. It is not in `emit_build`, `emit_too_deep` and `producer`, where the text
ends and the session stops at its bounds.

**Bounds.** In `jsonl_store` and `jsonl_readers`, `MaxSegments` = 2 lets two
records, or a record and a torn line, be written, and `MaxRewrites` = 1 lets a Purge
make the index of another process, or of a process that dies before it installs the
new one, stale. The three violated runs have 3 and 2. TLAPS proves the safety
properties of these two runs for all bounds (`ErasedStaysErased` and whatever speaks
of acknowledged records for whole writes), so TLC spends its time where the proofs
cannot help: on `CallsReturn`, with the error of every read, write and rename and
with refused signers (a malformed id is answered before the mutex, and a damaged
line takes the path of a failing read). The two bounds are checked when a call is
invoked, so that no call is cut short. `MaxCalls` = 3 and `MaxTxOps` = 2 let two
writers and a Purge, or a caller's transaction with a read followed by a Put, be
open at once; `MaxAttempts` = 2 (5 in the code) lets a deadlock be retried and the
retry fail; in `sqlite_live` two writing calls and any number of `Get`s compete for
the connection. Two ids are needed because `Purge` of one record copies the others.
Records differ in what the code tells apart: the same canonical JSON with other
bytes (`x`, `X`), another signer, an unbound attachment, an empty original, a digest
mismatch. In `emit_build`, `MaxDepth` = 6 (1000 in the code) is the least limit
under which every base payload verifies; texts that start after five open brackets
reach it and pass it. Four tokens and any closing ones make a nested object with two
members or a repeated key on either level; the inputs vary one member at a time over
a valid, a missing, a blank and a malformed value, the verdict with the effect's
status, the members of a backfilled import with the references beside it, the log
coordinates of a reference, and pairs that could be taken for each other
(`signature` as an extension, empty against absent structs, swapped extensions,
other zones). In `producer`, three capsules are two members and the composition of
them, or a member, its composition and a sealed capsule; one fault can fall between
any two steps, and each property that speaks of faults breaks with one. Threads are
symmetric in `mysql_store` and `sqlite_store`, keys in `producer`; the runs of a
liveness property, `jsonl_store` among them, use no symmetry.

**Fairness.** `JsonlStore!FairSpec`: a thread that can run does (weak fairness
of `Proceed`), and a thread that waits for the mutex gets it eventually (strong
fairness of `Lock`): `sync.Mutex` switches to hand-off after a waiter has starved
for a millisecond. `MysqlStore!FairSpec`: statements that can run do, InnoDB
breaks deadlocks, and the caller ends its transactions, as `PutTx`'s comment
requires. `SqliteStore!FairSpec`: statements run or meet their `busy_timeout`
(weak fairness of `Statement`, which includes `Busy`), `database/sql` hands a
freed connection to a waiting request (strong fairness of `Begin`), and the
caller ends its transactions. Crashes, I/O errors and new calls are never fair.

## 4. Findings

* `jsonl_empty_content`: a present artifact with empty, non-nil content is
  accepted and acknowledged, then cannot be read back or retried
  (`artifact/record.go:64`).
* `jsonl_lost_after_short_write`: after a `Write` that stores a prefix and fails,
  the next acknowledged `Put` is lost when the index is rebuilt
  (`artifact/jsonl/store.go:195`; the comment at 191 means to exclude it).
* `jsonl_orphan_originals`: a temporary file left by a crash keeps originals that
  a later acknowledged `Purge` does not remove (`artifact/jsonl/store.go:298`).
  `artifact/README.md:103` promises no crash-atomicity beyond the rename, but 114
  does promise that `Purge` removes all associated originals.
* `emit_too_deep`: an extension as deep as the decoder allows is accepted
  (`extension.go:41`), stands one level deeper in the payload, and the capsule
  `Build` returns does not verify: `build.go:98-112` verifies the payload before it
  is encoded and never looks at its depth, `DecodePayload` does (`build.go:530`).
  `README.md:136` says that every `Build` result passes the Class 1 verifier. The
  limit is 1000 levels; the extension must reach it, or log coordinates come near it.

One observation without a run of its own: `Put` after `Purge` returns nil for a
record without any present original, for nothing of it was erased
(`artifact/jsonl/store.go:128` says `ErrPurged`). `ErasedStaysErased` leaves such
records out; no run has one.

## 5. Proofs

The proofs hold for any sets of threads, processes, readers, ids, records, keys and
texts and for any bounds, from named assumptions that TLC evaluates on each
instance: `ContentAssumption` and `LimitAssumption` of `Artifact`, `RowsAssumption`
of `SqlRows`, `ThreadAssumption`, `RecordAssumption` and `BoundAssumption` of
`JsonlStore`, `SqliteAssumption`, `MysqlAssumption`, `StartAssumption` and
`TokenAssumption` of `JsonReader` (a token is a delimiter, a text, a number or a
literal) and `InputAssumption` of `Builder` (an `Input` is a value of its Go type:
structs with all their fields, slices, pointers that may be nil, JSON texts as
slices of tokens, and the unexported `compute` left nil), `SessionAssumption` of
`Producer` (the same of a session's inputs), its `SealAssumption` (the originals a
session seals are values Go can marshal) and its `OtherIdAssumption` (a made-up id
is the id of no capsule). They say what the constants are - records are Go values
that have been through `Prepare`, `Nil` is no thread - and nothing of what the code
does with them.

### Records and the contract

* `ArtifactProofs`: `ChecksumSurvivesPurge`, and `ChecksumIdentifiesOriginals` -
  comparing checksums in `Put` is enough, because `Prepare` made each row carry
  the hash of its original.
* `StoreImmutable` - the steps of the contract never change a stored record's
  checksum, and its originals only disappear, all together. With the refinements
  below it becomes `RecordsAreImmutable` of each backend (for JSONL under
  `CleanWrites`): in every behaviour what is stored stays, keeps its checksum and
  keeps its originals or loses all of them.
* `SqlRowsProofs` are lemmas for both SQL backends: what the rows of a record are
  while they are inserted (`InsertedRows`), that a parent row whose artifact rows
  have all arrived is a whole record (`WholeCell`, `ReadWhole`), that comparing
  checksums tells whole records apart (`ChecksumIdentifiesRows`), and that a retry
  answered nil is stored (`RetryIsStored`).

### JSONL (`JsonlStoreProofs`)

* `TypeCorrect`. The inductive invariant `TypeInv` adds to `TypeOK` that an index
  entry of the current generation points into the file, and what the locals of a
  call are at each point of it. Nothing is assumed of writes or records: torn
  writes and damaged lines are covered.
* `ReadsFailClosed` (`GetAuthentic`), also for torn writes, from `TypeInv` and
  `AnswerInv`: whatever stands in a file was written from some caller's record,
  whole or as its tombstone, and a `Get` that answers has verified what it read under
  the id it was asked for and the trusted keys of its own `Store`. A process that
  opens a `Store` anew has no call on the old one, so those are still the keys.
* `GetReturnsWhatPutAcknowledged`, `PutsOfOneIdAgree`, `PurgeIsFinal` and
  `RetriesAreAnswered`, all from `SafeInvariant`. None of these properties is
  inductive: they speak of calls that have returned, or would return. `SafeInv`
  says why they return what they do: the file has whole lines, one per id, of
  sound records; it holds every acknowledged record and no original of an erased
  one; the index of an open `Store` has exactly the lines' positions; what a thread
  inside the mutex read is still so; what a call saw when it was invoked is still
  so. `ReadYourWrites` and
  `RetryAdmitted` except a read that fails as such, which says nothing of the
  record. These theorems assume `CleanWrites`: a `Write` stores the whole line or
  nothing, and no original is empty. Without the first, run
  `jsonl_lost_after_short_write` is a counterexample; without the second, an
  acknowledged record does not verify when it is read back.
* `StoreRefines`, that `JsonlStore` implements `ArtifactStore`, under
  `CleanWrites`: appending is `Admit`, the rename is `Erase`, every other step
  changes nothing that is stored.

### SQLite (`SqliteStoreProofs`)

All from one inductive invariant, `SafeInv`, one conjunct for the table, one for
the history, one per thread:

* only the `writer` has changed rows, and its snapshot is the newest version of
  the table. So nobody's commit can change a row that a transaction which has
  written relies on, although SQLite locks no rows;
* the rows of a record that a transaction sees are whole whenever the transaction
  may commit, which is after its call has returned and never between two INSERTs;
* a call knows, at each statement, what it read and what had been acknowledged or
  erased when it was made; a thread outside a transaction has neither the
  connection nor the write lock, whatever failed before.

From it follow `TypeCorrect`, `AllCommittedWhole`, `ReadsStable`,
`ReadsYourWrites`, `ErasureHolds` and the refinement `StoreRefines`, where a commit
is the admission of the records it inserted and the erasure of those it purged, one
after the other. `StableUntilCommit` compares inventories: a retry may list its
artifacts in another order and is answered by what is stored.

### MySQL (`MysqlStoreProofs`)

The same theorems. Here the invariant is about locks:

* `LocksOK`: an exclusive lock excludes every other lock of the row, and a gap lock
  keeps an empty place empty;
* the rows that a transaction has changed, and those its answers were about, it has
  locked exclusively, and the latter are what the answers said; so another
  transaction's commit changes no row one relies on (`OthersKeep`), while snapshots
  grow old;
* `TableOK` and `HistoryOK`: committed rows are whole, hold what was acknowledged
  and no original of an erased record;
* `WorkOK`: between the INSERTs of a record its transaction cannot commit, and a
  deadlock victim has lost all its changes before it waits to begin anew.

`Get` of a store takes no lock, so it is never a victim. `CommitLost` is covered: a
commit that happened without an answer is an admission all the same. No bound on
connections, keys or retries is used. TLC checked each `SafeInv` as an invariant
of its runs before it was proved.

### emit (`CapsuleProofs`, `BuilderProofs`, `ProducerProofs`)

* `ReaderAcceptsExactly` (`AcceptsExactly`) and `ReaderDecodesMeaning`
  (`DecodesMeaning`), for any tokens, any depth limit and texts of any length. The
  reference reads brackets, members and paths off the whole text and has no stack;
  the descent has only its stack. `ReadSoFar` relates the two after each token: the
  k-th frame belongs to the bracket `op[k]` that opened the k-th container which is
  still open (`Placed`), its keys are the texts at even places of that container,
  its count and its pending key are fixed by the number of the members so far
  (`Busy`, `Idle`), each container stands where its parent's next value goes
  (`Threaded`), and the document has exactly the leaves so far, no two at one path
  (`DocSays`). That paths are not met twice needs a conjunct of its own, `Fresh`: no
  path of the document enters an open container at a member that has not been read.
  There is one lemma for each kind of token (`ScalarStep`, `OpenStep`, `KeyStep`,
  `CloseStep`), and `StepFits` shows that `Step` refuses exactly the tokens that do
  not fit; `DescentReads` is the induction. The proof found that `DecodeValue` had
  been written with `CASE` arms that overlap, where TLA+ leaves the choice open; it
  now tests the depth first, like the code.
* `BuiltCapsulesVerify` (`ShallowVerifies`) and `AssuranceIsBacked`
  (`AssuranceBacked`), for texts, extension lists and references of any length and
  any depth limit. The proof follows `Build`: what the decoder has read is at every
  token a document whose leaves decoding leaves alone (`DescentOK`); each map of
  `Build` writes such a document; the loop over the extensions keeps every member
  of the base profile (`ExtensionsKeepBase`), for an extension's name is not among
  `baseMembers`; so the decoded payload is the payload itself, has the members
  `VerifyCapsule` looks for, which include those of the references and of the import
  that the findings of Class 1 are about, and claims the assurance its own effect,
  disposition and chain members back.
* `IdCommitsToInput` (`IdCommitsInput`), for any inputs, texts, extensions and
  references. `BuilderInv` adds to `ReaderInv` that what was built is what `Build`
  returned for an input it accepts (`Accepted`); the rest is about any two such
  inputs (`IdsAndSayings`). `Inner` reads back what stands under one component of a
  path, and with it an object is told by its members and an array by its items
  (`SameObject`). So each map of `Build` can be undone: the effect, the chain, the
  disposition, the import's mode and source, the references with their coordinates
  and the model's attestation each give back the struct they were written from
  (`EffectTold` to `PointerTold`, `SayingTold`), where the rules of `validateInput`
  are needed - a model of two empty texts, or a source with coordinates, would be
  written like another. `ExtensionsCarried` is the induction over the extensions:
  the payload has the members of the base profile, and one member more for each
  extension, under a name that is not among `baseMembers`, so none replaces another
  or is left out of the id (`IdOfObject`). `DecodedMeans` says that an extension's
  member is what its text means (from `DescentIs`, which `ReaderDecodesMeaning` rests
  on too), hence neither the spelling of a text nor the order of the extensions
  matters.
* `IdCommitsMembers`: two inputs of one capsule id agree on every member of the base
  payload at every path. It needs no decoder, and covers bindings as well, which
  `InputAssumption` leaves to `Producer`.
* These assume `NilIsNoValue`: the model value `Nil`, which stands for nil pointers
  and for errors, is not a function, hence no document and no record.
* `BindingsAreSound` (`BindingSound`), for any members, artifacts, seals and bounds.
  Downwards, `AttestationSays` reads off the compute attestation what `Build` put
  there, and `IdAttests` that the id commits it at that very path, extensions and
  other members notwithstanding; `ComposedReferences` unfolds the loop of
  `BuildComposition` over the slots and finds one reference for each member and the
  order of the slots. `validateInput` forbids an agent's digests beside a binding.
  Upwards, `BindingInv` carries it through the session: a slot member's copy
  verifies as something that was issued or as nothing (`MembersIssued`), hence what a
  composition names was held before it, and a `Seal` that waits for the signer has
  its binding settled, whatever is overwritten or relabelled meanwhile. Besides
  `NilIsNoValue` it assumes `NilIsNoSlot` (the empty string is no slot) and
  `SessionAssumption` (inputs hold slices, and no caller sets the unexported
  `compute`).
* `SealsAreAdmitted` (`SealedAdmitted`), for any originals, overwrites, relabellings
  and rotations, and over the whole of `Prepare` and `Verify`. `RegularCommits` and
  `CompositionCommits` say which digests `Seal` commits, `VerifiedLeaf` that any JSON
  which verifies under that id has them at the two paths `digestAt` reads, and
  `AdmittedIff` that every other check of `AdmissionError` passes, so that it comes
  down to the equality of two digests, which `SameValue` turns into that of two JSON
  values. `SealInv` carries it through the session: a `Result`'s envelope is over
  the id that was issued, which commits the originals, and another id can be put on
  it but does not verify (`StillIssued`). It assumes `SealAssumption` (what Go
  marshals to JSON has a nil only if it is a map, a pointer or a slice),
  `OtherIdAssumption` (an id the application makes up is the id of no capsule),
  `NilIsNoField`, and `ContentsFit`: a record of one original is within 8 MiB.
* `EnvelopesAreAuthentic` and `CopiesAreStable` of `ProducerProofs` hold for any
  inputs, keys, slots, seals and bounds, from no assumption at all. `SessionInv`
  says why: slices made for different purposes have different addresses, so what the
  application overwrites is never the identity's key nor a member's copy; the bytes
  of a capsule it holds verify as something `Build` issued or as nothing; and a call
  that waits for the signer holds an id that verified and the identity's own key.
  `BuiltVerifiesAsItself` of `CapsuleProofs` is about any value whatever in the
  place of an `Input`: no decoding of the numbers changes the digest in
  `capsule_id`.

Induction over data is done on sets of numbers: `Induction` of `CapsuleProofs`
derives it from the well-foundedness of the naturals, and the recursive functions
`Descent` and `withExtensions` are unfolded with it.

### Only model-checked

The three `CallsReturn` (`jsonl_store`, `mysql_live`, `sqlite_live`), for liveness
under fairness is out of the prover's reach. Every other property of a passing run
is stated by a theorem.

## 6. Not modelled, and the plan

Not modelled: fsync and machine crashes, the scanner's line limit (8 MiB of
originals in base64 stay below it), file permissions, namespaces (one per model),
the DDL of `Init`, the JCS canonicaliser and the COSE, CBOR and Ed25519 code
(libraries; their results are symbolic), the findings of the library's
`verify.Verify` beyond those that *Capsule and Builder* lists - it is outside the
repository, and what else it refuses is not known from the code or its tests - the
extensible registries, whose findings reject nothing, the in-package `specVersion`
override, logging and error text, and the drivers and scripts.

What is left to do would widen the model rather than prove more about it: the crash
of a machine between a write and its sync, several namespaces in one database, and
the fields of a COSE envelope below the symbolic signature.
