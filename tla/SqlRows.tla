------------------------------ MODULE SqlRows ------------------------------
(***************************************************************************)
(* What the two SQL backends have in common, src/artifact/sqlite/store.go  *)
(* and src/artifact/mysql/store.go: the rows of a record and what read and *)
(* PutTx make of them.  A parent row and its artifact rows are one cell    *)
(* [rec, hash]; hash is the column record_sha256.                          *)
(***************************************************************************)
EXTENDS Artifact

CONSTANTS
  Id,       \* capsule ids asked for
  Records   \* records callers Put

\* The cell of r with its first n artifact rows, and after Purge.
Inserted(r, n) ==
  [rec |-> WithArtifacts(r, [i \in 1..n |-> r.artifacts[i]]), hash |-> StorageChecksum(r)]

Erased(cell) == [cell EXCEPT !.rec = Tombstoned(@)]

Cells ==
  LET ofRecord(r) == {Inserted(r, n) : n \in 0..Len(r.artifacts)}
                       \cup {Erased(Inserted(r, Len(r.artifacts)))}
  IN  UNION {ofRecord(Prepared(r)) : r \in Records}

\* The records are Go values, and Nil is none of them, no cell and no table.
ASSUME RowsAssumption ==
  /\ \A r \in Records :
       /\ IsRecord(r)
       /\ r.id \in Id
       /\ Nil \notin {Prepared(r), Tombstoned(Prepared(r))}
  /\ Nil \notin Cells
  /\ Nil \notin [Id -> Cells \cup {Nil}]

Out(err, rec) == [err |-> err, rec |-> rec]

\* The parent row as it is inserted: no artifact yet, the checksum of all.
ParentRow(r) == [rec |-> WithArtifacts(r, <<>>), hash |-> StorageChecksum(r)]

WithRow(cell, a) == [cell EXCEPT !.rec.artifacts = Append(@, a)]

\* Mutant: read does not verify the signer.
ReadResultUnverified(parent, rows, trusted) ==
  LET r == WithArtifacts(parent.rec, rows.rec.artifacts)
  IN  IF StorageChecksum(r) # parent.hash THEN Out("ErrCorrupt", Nil) ELSE Out("ok", r)

\* What read returns for the parent row and the artifact rows it selected.
ReadResult(parent, rows, trusted) ==
  LET r == WithArtifacts(parent.rec, rows.rec.artifacts)
  IN  IF StorageChecksum(r) # parent.hash THEN Out("ErrCorrupt", Nil)
      ELSE IF Verify(r, trusted) # "ok" THEN Out(Verify(r, trusted), Nil)
      ELSE Out("ok", r)

\* Mutant: a duplicate id is taken for a retry, whatever its checksum.
DuplicateErrorNoCompare(r, old) ==
  IF old.err # "ok" THEN old.err
  ELSE IF HasPurged(old.rec) THEN "ErrPurged" ELSE "ok"

\* Mutant: a retry is admitted after the originals were purged.
DuplicateErrorNoPurged(r, old) ==
  IF old.err # "ok" THEN old.err
  ELSE IF StorageChecksum(old.rec) # StorageChecksum(r) THEN "ErrConflict" ELSE "ok"

\* What PutTx makes of a duplicate id, from what read returned for it.
DuplicateError(r, old) ==
  IF old.err # "ok" THEN old.err
  ELSE IF StorageChecksum(old.rec) # StorageChecksum(r) THEN "ErrConflict"
  ELSE IF HasPurged(old.rec) THEN "ErrPurged" ELSE "ok"

\* The rows of a record, which read selects in the order of their names.
Inventory(r) == WithArtifacts(r, {r.artifacts[i] : i \in DOMAIN r.artifacts})
=============================================================================
