---------------------------- MODULE SqlRowsProofs ----------------------------
(***************************************************************************)
(* Facts about the rows both SQL backends keep a record in.                *)
(***************************************************************************)
EXTENDS SqlRows, ArtifactProofs

\* A prepared record that Put may store.
Storable(p) ==
  /\ \E r \in Records : p = Prepared(r)
  /\ Sound(p) /\ ~ HasPurged(p) /\ p.id \in Id

\* The cell of a record all of whose artifact rows are inserted, and what Purge
\* makes of it.
Whole(p) == [rec |-> p, hash |-> StorageChecksum(p)]
WholeCells(p) == {Whole(p), Erased(Whole(p))}

\* Record r is acknowledged record a, whole or without its originals.
Recalls(r, a) ==
  /\ StorageChecksum(r) = StorageChecksum(a)
  /\ Originals(r) \in {Originals(a), {}}

-----------------------------------------------------------------------------
\* Put stores what Prepare made of an admitted record.
LEMMA AdmittedIsStorable ==
  ASSUME NEW r \in Records, NEW T, AdmissionError(r, T) = "ok"
  PROVE  Storable(Prepared(r)) /\ Prepared(r).id = r.id /\ Prepared(r).envelope.key \in T
<1>1. IsRecord(r) /\ r.id \in Id
  BY RowsAssumption
<1> QED BY <1>1, AdmittedIsSound, PreparedIsRecord DEF Storable

\* The inventory of a record is a sequence.
LEMMA InventoryIsSeq ==
  ASSUME NEW r, IsRecord(r)
  PROVE  /\ r.artifacts \in Seq({r.artifacts[i] : i \in DOMAIN r.artifacts})
         /\ Len(r.artifacts) \in Nat
         /\ DOMAIN r.artifacts = 1..Len(r.artifacts)
<1>1. PICK n \in 0..Cardinality(DOMAIN r.artifacts) : DOMAIN r.artifacts = 1..n
  BY DEF IsRecord
<1>2. n \in Nat
  OBVIOUS
<1>3. r.artifacts \in [1..n -> {r.artifacts[i] : i \in DOMAIN r.artifacts}]
  BY <1>1 DEF IsRecord
<1> QED BY <1>2, <1>3

\* The INSERTs of Put make the rows of the record one by one.
LEMMA InsertedRows ==
  ASSUME NEW p, Storable(p)
  PROVE  /\ ParentRow(p) = Inserted(p, 0)
         /\ \A n \in 1..Len(p.artifacts) :
              WithRow(Inserted(p, n - 1), p.artifacts[n]) = Inserted(p, n)
         /\ Inserted(p, Len(p.artifacts)) = Whole(p)
         /\ \A n \in 0..Len(p.artifacts) : Inserted(p, n) # Nil
<1>1. /\ IsRecord(p) /\ Len(p.artifacts) \in Nat
      /\ DOMAIN p.artifacts = 1..Len(p.artifacts)
  BY InventoryIsSeq DEF Storable, Sound
<1> DEFINE part(n) == [i \in 1..n |-> p.artifacts[i]]
<1>2. part(0) = <<>>
  OBVIOUS
<1>3. ASSUME NEW n \in 1..Len(p.artifacts)
      PROVE  WithRow(Inserted(p, n - 1), p.artifacts[n]) = Inserted(p, n)
  <2>1. part(n - 1) \in Seq({p.artifacts[i] : i \in DOMAIN p.artifacts})
        /\ Len(part(n - 1)) = n - 1
    BY <1>1
  <2>2. Append(part(n - 1), p.artifacts[n]) = part(n)
    BY <1>1, <2>1
  <2> HIDE DEF part
  <2>3. Inserted(p, n - 1) = [rec |-> WithArtifacts(p, part(n - 1)), hash |-> StorageChecksum(p)]
        /\ Inserted(p, n) = [rec |-> WithArtifacts(p, part(n)), hash |-> StorageChecksum(p)]
    BY DEF Inserted, part
  <2>4. ASSUME NEW as, NEW bs, NEW h
        PROVE  [[rec |-> WithArtifacts(p, as), hash |-> h] EXCEPT !.rec.artifacts = bs]
                 = [rec |-> WithArtifacts(p, bs), hash |-> h]
    BY DEF WithArtifacts
  <2>5. Inserted(p, n - 1).rec.artifacts = part(n - 1)
    BY <2>3 DEF WithArtifacts
  <2>6. WithRow(Inserted(p, n - 1), p.artifacts[n])
          = [Inserted(p, n - 1) EXCEPT !.rec.artifacts = part(n)]
    BY <2>2, <2>5 DEF WithRow
  <2> QED BY <2>3, <2>4, <2>6
<1>4. WithArtifacts(p, part(Len(p.artifacts))) = p
  <2>1. part(Len(p.artifacts)) = p.artifacts
    BY <1>1 DEF IsRecord
  <2> QED BY <2>1, <1>1 DEF IsRecord
<1>5. ASSUME NEW n \in 0..Len(p.artifacts)
      PROVE  Inserted(p, n) # Nil
  <2>1. Inserted(p, n) \in Cells
    BY DEF Storable, Cells
  <2> QED BY <2>1, RowsAssumption
<1> QED BY <1>2, <1>3, <1>4, <1>5 DEF ParentRow, Inserted, Whole

\* A whole cell, purged or not: what it is and what Purge makes of it.
LEMMA WholeCell ==
  ASSUME NEW p, Storable(p), NEW cell \in WholeCells(p)
  PROVE  /\ cell # Nil /\ cell \in Cells
         /\ cell = [rec |-> cell.rec, hash |-> StorageChecksum(cell.rec)]
         /\ Sound(cell.rec) /\ cell.rec # Nil
         /\ cell.rec.id = p.id /\ cell.rec.envelope = p.envelope
         /\ Recalls(cell.rec, p)
         /\ Erased(cell) = Erased(Whole(p)) /\ Erased(cell).rec = Tombstoned(cell.rec)
         /\ Originals(Erased(cell).rec) = {}
         /\ \A a : Recalls(cell.rec, a) => Recalls(Erased(cell).rec, a)
<1> DEFINE w == Whole(p)
           e == Erased(w)
           s == Tombstoned(p)
<1>1. PICK r \in Records : p = Prepared(r)
  BY DEF Storable
<1>2. /\ IsRecord(p) /\ Sound(p) /\ p # Nil /\ s # Nil
      /\ Len(p.artifacts) \in 0..Len(p.artifacts)
  BY <1>1, RowsAssumption, InventoryIsSeq DEF Storable, Sound
<1>3. w \in Cells /\ e \in Cells
  <2>1. w = Inserted(p, Len(p.artifacts))
    BY InsertedRows
  <2> QED BY <1>1, <1>2, <2>1 DEF Cells
<1>4. w.rec = p /\ w.hash = StorageChecksum(p) /\ e = [rec |-> s, hash |-> StorageChecksum(p)]
  BY DEF Whole, Erased
<1>5. /\ Sound(s) /\ Originals(s) = {} /\ StorageChecksum(s) = StorageChecksum(p)
      /\ s.id = p.id /\ s.envelope = p.envelope /\ Tombstoned(s) = s
  BY <1>2, TombstonedIsSound, TombstonedHasNoOriginals, ChecksumSurvivesPurge,
     TombstonedIsRecord, TombstonedTwice
<1> HIDE DEF e, s
<1>6. CASE cell = w
  <2> HIDE DEF w
  <2>1. w = [rec |-> p, hash |-> StorageChecksum(p)]
    BY DEF w, Whole
  <2> QED BY <1>2, <1>3, <1>4, <1>5, <1>6, <2>1, RowsAssumption DEF Recalls, e, s, w
<1>7. CASE cell = e
  <2>1. Erased(e) = e
    BY <1>4, <1>5 DEF Erased
  <2> HIDE DEF w
  <2> QED BY <1>2, <1>3, <1>4, <1>5, <1>7, <2>1, RowsAssumption DEF Recalls, e, w
<1> QED BY <1>6, <1>7 DEF WholeCells, e

\* read accepts a whole cell if the signer is trusted.
LEMMA ReadWhole ==
  ASSUME NEW p, Storable(p), NEW cell \in WholeCells(p), NEW T
  PROVE  ReadResult(cell, cell, T) =
           IF p.envelope.key \in T THEN Out("ok", cell.rec) ELSE Out("ErrUntrustedSigner", Nil)
<1>1. /\ cell.hash = StorageChecksum(cell.rec) /\ Sound(cell.rec)
      /\ cell.rec.envelope = p.envelope
  BY WholeCell
<1>2. WithArtifacts(cell.rec, cell.rec.artifacts) = cell.rec
  BY <1>1 DEF Sound, IsRecord
<1> QED BY <1>1, <1>2, SoundVerdict DEF ReadResult

-----------------------------------------------------------------------------
\* Two records of which nothing has been purged and whose checksums agree have
\* the same rows.
LEMMA ChecksumIdentifiesRows ==
  ASSUME NEW r, NEW s, Sound(r), Sound(s), ~ HasPurged(r), ~ HasPurged(s),
         StorageChecksum(r) = StorageChecksum(s)
  PROVE  Inventory(r) = Inventory(s)
<1>1. ASSUME NEW x, NEW y, Sound(x), Sound(y), ~ HasPurged(x), ~ HasPurged(y),
             StorageChecksum(x) = StorageChecksum(y), NEW i \in DOMAIN x.artifacts
      PROVE  \E j \in DOMAIN y.artifacts : y.artifacts[j] = x.artifacts[i]
  <2> DEFINE a == x.artifacts[i]
  <2>1. {ChecksumRow(x.artifacts[k]) : k \in DOMAIN x.artifacts}
          = {ChecksumRow(y.artifacts[k]) : k \in DOMAIN y.artifacts}
    BY <1>1 DEF StorageChecksum, WithArtifacts
  <2>2. PICK j \in DOMAIN y.artifacts : ChecksumRow(y.artifacts[j]) = ChecksumRow(a)
    BY <2>1
  <2> DEFINE b == y.artifacts[j]
  <2>3. a.state # Purged /\ b.state # Purged
    BY <1>1 DEF HasPurged
  <2>4. b.name = a.name /\ b.binding = a.binding /\ b.state = a.state /\ b.sha = a.sha
    BY <2>2, <2>3 DEF ChecksumRow, WithContent, Present, Purged
  <2>5. b.content = a.content
    BY <2>3, <2>4, <1>1, SoundArtifact
  <2>6. a = WithContent(a, a.content, a.state, a.sha)
        /\ b = WithContent(b, b.content, b.state, b.sha)
    BY <1>1 DEF Sound, IsRecord
  <2>7. a = b
    BY <2>4, <2>5, <2>6 DEF WithContent
  <2> QED BY <2>7
<1>2. {r.artifacts[i] : i \in DOMAIN r.artifacts} = {s.artifacts[i] : i \in DOMAIN s.artifacts}
  BY <1>1
<1> QED BY <1>2 DEF Inventory, StorageChecksum, WithArtifacts

\* The rows determine the checksum and the originals.
LEMMA RowsDetermine ==
  ASSUME NEW r, NEW s, Inventory(r) = Inventory(s)
  PROVE  /\ StorageChecksum(r) = StorageChecksum(s)
         /\ Originals(r) = Originals(s)
         /\ r.id = s.id /\ r.envelope = s.envelope
         /\ Recalls(r, s)
<1>1. /\ {r.artifacts[i] : i \in DOMAIN r.artifacts} = {s.artifacts[i] : i \in DOMAIN s.artifacts}
      /\ r.id = s.id /\ r.capsule = s.capsule /\ r.envelope = s.envelope
  BY DEF Inventory, WithArtifacts
<1>2. /\ \A i \in DOMAIN r.artifacts : \E j \in DOMAIN s.artifacts : r.artifacts[i] = s.artifacts[j]
      /\ \A i \in DOMAIN s.artifacts : \E j \in DOMAIN r.artifacts : s.artifacts[i] = r.artifacts[j]
  BY <1>1
<1>3. {ChecksumRow(r.artifacts[i]) : i \in DOMAIN r.artifacts}
        = {ChecksumRow(s.artifacts[i]) : i \in DOMAIN s.artifacts}
  BY <1>2
<1>4. Originals(r) = Originals(s)
  BY <1>2 DEF Originals
<1> QED BY <1>1, <1>3, <1>4 DEF StorageChecksum, WithArtifacts, Recalls

\* A retry that Put acknowledges is the stored record: same rows, nothing purged.
LEMMA RetryIsStored ==
  ASSUME NEW p, Storable(p), NEW r, Sound(r), DuplicateError(p, Out("ok", r)) = "ok"
  PROVE  Inventory(r) = Inventory(p)
<1>1. StorageChecksum(r) = StorageChecksum(p) /\ ~ HasPurged(r)
  BY DEF DuplicateError, Out
<1> QED BY <1>1, ChecksumIdentifiesRows DEF Storable
=============================================================================
