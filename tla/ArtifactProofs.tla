--------------------------- MODULE ArtifactProofs ---------------------------
(***************************************************************************)
(* Facts about the operations of package artifact, for records of any size *)
(* and any content.                                                        *)
(***************************************************************************)
EXTENDS Artifact, TLAPS, WellFoundedInduction

\* The first failing element of a loop is a failing element: every nonempty
\* set of naturals has a least element.
LEMMA MinIn ==
  ASSUME NEW S \in SUBSET Nat, S # {}
  PROVE  Min(S) \in S /\ \A y \in S : Min(S) <= y
<1> DEFINE R == {p \in Nat \X Nat : p[1] < p[2]}
<1>0. OpToRel(<, Nat) = R
  BY Zenon DEF OpToRel
<1>1. IsWellFoundedOn(R, Nat)
  BY NatLessThanWellFounded, <1>0
<1> HIDE DEF R
<1>3. PICK x \in S : \A y \in S : ~ (<<y, x>> \in R)
  BY <1>1, WFMin
<1>2. ASSUME NEW y \in S PROVE x <= y
  <2>1. CASE y < x
    <3>1. <<y, x>> \in R
      BY <2>1 DEF R
    <3> QED BY <3>1, <1>3
  <2> QED BY <2>1
<1> QED BY <1>2 DEF Min

-----------------------------------------------------------------------------
\* A loop that reports no error found no failing element.
LEMMA VerifyOk ==
  ASSUME NEW r, NEW T, IsRecord(r), Verify(r, T) = "ok"
  PROVE  Authentic(r) /\ r.envelope.key \in T /\ BadArtifacts(r) = {}
<1>1. BadArtifacts(r) \in SUBSET Nat
  BY DEF BadArtifacts, IsRecord
<1>2. CASE BadArtifacts(r) # {}
  <2>1. Min(BadArtifacts(r)) \in BadArtifacts(r)
    BY <1>1, <1>2, MinIn
  <2>2. ArtifactError(r, Min(BadArtifacts(r))) # "ok"
    BY <2>1 DEF BadArtifacts
  <2> QED BY <2>2, <1>2 DEF Verify
<1>3. CASE BadArtifacts(r) = {}
  BY <1>3 DEF Verify, Authentic
<1> QED BY <1>2, <1>3

\* Prepare refuses a record when it refuses one of its artifacts.
LEMMA PrepareOk ==
  ASSUME NEW r, IsRecord(r), PrepareError(r) = "ok"
  PROVE  \A i \in DOMAIN r.artifacts : PrepareArtifact(r.artifacts[i]) = "ok"
<1> DEFINE bad == {i \in DOMAIN r.artifacts : PrepareArtifact(r.artifacts[i]) # "ok"}
<1>1. bad \in SUBSET Nat
  BY DEF IsRecord
<1>2. CASE bad # {}
  <2> HIDE DEF bad
  <2>1. Min(bad) \in bad
    BY <1>1, <1>2, MinIn
  <2>2. PrepareArtifact(r.artifacts[Min(bad)]) # "ok"
    BY <2>1 DEF bad
  <2> QED BY <2>2, <1>2 DEF PrepareError, bad
<1> QED BY <1>2

\* Prepare keeps a record a record.
LEMMA PreparedIsRecord ==
  ASSUME NEW r, IsRecord(r)
  PROVE  /\ IsRecord(Prepared(r))
         /\ DOMAIN Prepared(r).artifacts = DOMAIN r.artifacts
         /\ Prepared(r).id = r.id
         /\ Prepared(r).envelope = r.envelope
  BY DEF IsRecord, Prepared, PreparedArtifact, WithArtifacts, WithContent

\* Admission leaves a sound record: Prepare has filled in the checksums.
LEMMA AdmittedIsSound ==
  ASSUME NEW r, NEW T, IsRecord(r), AdmissionError(r, T) = "ok"
  PROVE  Sound(Prepared(r)) /\ r.envelope.key \in T /\ ~ HasPurged(Prepared(r))
<1>1. PrepareError(r) = "ok" /\ Verify(Prepared(r), T) = "ok"
  BY DEF AdmissionError
<1>2. Authentic(Prepared(r)) /\ BadArtifacts(Prepared(r)) = {} /\ r.envelope.key \in T
  BY <1>1, VerifyOk, PreparedIsRecord
<1>3. ASSUME NEW i \in DOMAIN Prepared(r).artifacts
      PROVE  /\ Prepared(r).artifacts[i].state # Purged
             /\ Prepared(r).artifacts[i].state = Present =>
                  Prepared(r).artifacts[i].sha = Prepared(r).artifacts[i].content
  <2> DEFINE a == r.artifacts[i]
             b == Prepared(r).artifacts[i]
  <2>1. i \in DOMAIN r.artifacts
    BY PreparedIsRecord
  <2>2. b = PreparedArtifact(a)
    BY <2>1 DEF Prepared, WithArtifacts
  <2>3. PrepareArtifact(a) = "ok"
    BY <2>1, <1>1, PrepareOk
  <2>4. b.state # Purged
    BY <2>2, <2>3 DEF PrepareArtifact, PreparedArtifact, WithContent, Purged
  <2>5. CASE b.state = Present
    <3>1. ArtifactError(Prepared(r), i) = "ok"
      BY <1>2 DEF BadArtifacts
    <3>2. StateError(b, digestAt(Prepared(r).capsule, b.binding)) = "ok"
      BY <3>1 DEF ArtifactError
    <3>3. b.content # Nil
      BY <3>2, <2>5 DEF StateError, Present, Purged, NeverRetained
    <3>4. b.sha = rawDigest(b.content)
      BY <2>2, <2>5 DEF PreparedArtifact, WithContent
    <3> QED BY <3>3, <3>4, <2>4 DEF rawDigest
  <2> QED BY <2>4, <2>5
<1> QED BY <1>2, <1>3, PreparedIsRecord DEF Sound, HasPurged

\* The verdict on a sound record is a question of trust alone.
LEMMA SoundVerdict ==
  ASSUME NEW r, NEW T, Sound(r)
  PROVE  Verify(r, T) = IF r.envelope.key \in T THEN "ok" ELSE "ErrUntrustedSigner"
  BY DEF Sound, Verify, Authentic

\* What the state of a sound artifact says about its content and checksum.
LEMMA SoundArtifact ==
  ASSUME NEW r, Sound(r), NEW i \in DOMAIN r.artifacts
  PROVE  LET a == r.artifacts[i] IN
         /\ a.state \in {Present, Purged, NeverRetained}
         /\ a.state = Present => a.content \in Content /\ a.sha = a.content
         /\ a.state = Purged => a.content = Nil /\ a.sha \in Content
         /\ a.state = NeverRetained => a.content = Nil /\ a.sha = Nil
<1> DEFINE a == r.artifacts[i]
<1>1. StateError(a, digestAt(r.capsule, a.binding)) = "ok"
  BY DEF Sound, BadArtifacts, ArtifactError
<1>2. a.content \in Content \cup {Nil}
  BY DEF Sound, IsRecord
<1>3. a.state = Present => a.sha = a.content
  BY DEF Sound
<1> HIDE DEF a
<1>4. a.state \in {Present, Purged, NeverRetained}
  BY <1>1 DEF StateError, Present, Purged, NeverRetained
<1>5. CASE a.state = Present
  BY <1>1, <1>2, <1>3, <1>5 DEF StateError, Present, Purged, NeverRetained, a
<1>6. CASE a.state = Purged
  BY <1>1, <1>6 DEF StateError, Present, Purged, NeverRetained, a
<1>7. CASE a.state = NeverRetained
  BY <1>1, <1>7 DEF StateError, Present, Purged, NeverRetained, a
<1> QED BY <1>4, <1>5, <1>6, <1>7 DEF a

\* What a tombstone keeps of its artifact.
LEMMA TombstoneFacts ==
  ASSUME NEW a
  PROVE  /\ Tombstone(a).name = a.name
         /\ Tombstone(a).binding = a.binding
         /\ Tombstone(a).state # Present
         /\ ChecksumRow(Tombstone(a)) = ChecksumRow(a)
         /\ Tombstone(Tombstone(a)) = Tombstone(a)
<1>1. CASE a.state = Present
  BY <1>1 DEF Tombstone, ChecksumRow, WithContent, Present, Purged
<1>2. CASE a.state # Present
  BY <1>2 DEF Tombstone
<1> QED BY <1>1, <1>2

\* Purging changes a record artifact by artifact, and not its id or capsule.
LEMMA TombstonedIsRecord ==
  ASSUME NEW r, IsRecord(r)
  PROVE  /\ IsRecord(Tombstoned(r))
         /\ DOMAIN Tombstoned(r).artifacts = DOMAIN r.artifacts
         /\ \A i \in DOMAIN r.artifacts :
              Tombstoned(r).artifacts[i] = Tombstone(r.artifacts[i])
         /\ Tombstoned(r).id = r.id
         /\ Tombstoned(r).capsule = r.capsule
         /\ Tombstoned(r).envelope = r.envelope
  BY DEF IsRecord, Tombstoned, Tombstone, WithArtifacts, WithContent

\* Purge leaves every record it finds sound still sound: the tombstones verify.
LEMMA TombstonedIsSound ==
  ASSUME NEW r, Sound(r)
  PROVE  Sound(Tombstoned(r))
<1> DEFINE s == Tombstoned(r)
<1>1. IsRecord(r) /\ IsRecord(s)
  BY TombstonedIsRecord DEF Sound
<1>2. Authentic(s)
  BY <1>1, TombstonedIsRecord DEF Sound, Authentic
<1>3. ASSUME NEW i \in DOMAIN s.artifacts
      PROVE  ArtifactError(s, i) = "ok" /\ s.artifacts[i].state # Present
  <2> DEFINE a == r.artifacts[i]
             b == s.artifacts[i]
  <2>1. i \in DOMAIN r.artifacts /\ b = Tombstone(a)
    BY <1>1, TombstonedIsRecord
  <2>2. ArtifactError(r, i) = "ok"
    BY <2>1 DEF Sound, BadArtifacts
  <2>3. b.name = a.name /\ b.binding = a.binding
    BY <2>1 DEF Tombstone, WithContent
  <2>4. ASSUME NEW j \in 1..(i - 1), s.artifacts[j].name = b.name
        PROVE  FALSE
    <3>1. j \in DOMAIN r.artifacts
      BY <1>1, <2>1 DEF IsRecord
    <3>2. s.artifacts[j] = Tombstone(r.artifacts[j])
      BY <3>1, <1>1, TombstonedIsRecord
    <3>3. r.artifacts[j].name = s.artifacts[j].name
      BY <3>2, TombstoneFacts
    <3> QED BY <3>3, <2>2, <2>3, <2>4 DEF ArtifactError
  <2>5. StateError(b, digestAt(s.capsule, b.binding)) = "ok" /\ b.state # Present
    <3>1. CASE a.state = Present
      <4>1. b.state = Purged /\ b.content = Nil /\ b.sha = a.sha /\ a.sha \in Content
        BY <2>1, <3>1, SoundArtifact DEF Tombstone, WithContent
      <4> QED BY <4>1 DEF StateError, Present, Purged, NeverRetained
    <3>2. CASE a.state # Present
      <4>1. b = a /\ s.capsule = r.capsule
        BY <2>1, <3>2, <1>1, TombstonedIsRecord DEF Tombstone
      <4> QED BY <4>1, <2>2, <3>2 DEF ArtifactError
    <3> QED BY <3>1, <3>2
  <2> QED
    BY <2>2, <2>3, <2>4, <2>5, <1>1, TombstonedIsRecord DEF ArtifactError
<1> QED BY <1>1, <1>2, <1>3 DEF Sound, BadArtifacts

\* StorageChecksum "survives intentional purge".
THEOREM ChecksumSurvivesPurge ==
  ASSUME NEW r, IsRecord(r)
  PROVE  StorageChecksum(Tombstoned(r)) = StorageChecksum(r)
<1> DEFINE s == Tombstoned(r)
<1>1. ASSUME NEW i \in DOMAIN r.artifacts
      PROVE  ChecksumRow(s.artifacts[i]) = ChecksumRow(r.artifacts[i])
  <2>1. s.artifacts[i] = Tombstone(r.artifacts[i])
    BY TombstonedIsRecord
  <2> QED BY <2>1, TombstoneFacts
<1>2. {ChecksumRow(s.artifacts[i]) : i \in DOMAIN s.artifacts}
        = {ChecksumRow(r.artifacts[i]) : i \in DOMAIN r.artifacts}
  BY <1>1, TombstonedIsRecord
<1> QED BY <1>2, TombstonedIsRecord DEF StorageChecksum, WithArtifacts

\* Purge erases every original of a sound record.
LEMMA TombstonedHasNoOriginals ==
  ASSUME NEW r, Sound(r)
  PROVE  Originals(Tombstoned(r)) = {}
<1>1. ASSUME NEW i \in DOMAIN Tombstoned(r).artifacts
      PROVE  Tombstoned(r).artifacts[i].content = Nil
  <2>1. i \in DOMAIN r.artifacts /\ Tombstoned(r).artifacts[i] = Tombstone(r.artifacts[i])
    BY TombstonedIsRecord DEF Sound
  <2> QED BY <2>1, SoundArtifact DEF Tombstone, WithContent
<1> QED BY <1>1 DEF Originals

\* A second Purge changes nothing.
LEMMA TombstonedTwice ==
  ASSUME NEW r, IsRecord(r)
  PROVE  Tombstoned(Tombstoned(r)) = Tombstoned(r)
<1> DEFINE s == Tombstoned(r)
<1>1. IsRecord(s)
  BY TombstonedIsRecord
<1>2. ASSUME NEW i \in DOMAIN s.artifacts
      PROVE  Tombstone(s.artifacts[i]) = s.artifacts[i]
  <2>1. s.artifacts[i] = Tombstone(r.artifacts[i])
    BY TombstonedIsRecord
  <2> QED BY <2>1, TombstoneFacts
<1>3. s.artifacts = [i \in DOMAIN s.artifacts |-> Tombstone(s.artifacts[i])]
  BY <1>1, <1>2 DEF IsRecord
<1> QED BY <1>1, <1>3 DEF Tombstoned, IsRecord

\* The checksum identifies the originals: two sound records of which nothing
\* has been purged and whose checksums agree carry the same bytes under the
\* same names.  This is what makes comparing checksums enough in Put.
THEOREM ChecksumIdentifiesOriginals ==
  ASSUME NEW r, NEW s, Sound(r), Sound(s), ~ HasPurged(r), ~ HasPurged(s),
         StorageChecksum(r) = StorageChecksum(s)
  PROVE  Originals(r) = Originals(s)
<1>1. ASSUME NEW x, NEW y, Sound(x), Sound(y), ~ HasPurged(x), ~ HasPurged(y),
             StorageChecksum(x) = StorageChecksum(y),
             NEW o \in Originals(x)
      PROVE  o \in Originals(y)
  <2>1. PICK i \in DOMAIN x.artifacts :
          /\ x.artifacts[i].content # Nil
          /\ o = [name |-> x.artifacts[i].name, content |-> x.artifacts[i].content]
    BY <1>1 DEF Originals
  <2> DEFINE a == x.artifacts[i]
  <2>2. {ChecksumRow(x.artifacts[k]) : k \in DOMAIN x.artifacts}
          = {ChecksumRow(y.artifacts[k]) : k \in DOMAIN y.artifacts}
    BY <1>1 DEF StorageChecksum, WithArtifacts
  <2>3. PICK j \in DOMAIN y.artifacts : ChecksumRow(y.artifacts[j]) = ChecksumRow(a)
    BY <2>2
  <2> DEFINE b == y.artifacts[j]
  <2>4. a.state = Present /\ a.sha = a.content /\ a.content \in Content
    BY <1>1, <2>1, SoundArtifact DEF HasPurged
  <2>5. b.state # Purged
    BY <1>1 DEF HasPurged
  <2>6. b.name = a.name /\ b.state = a.state /\ b.sha = a.sha
    BY <2>3, <2>4, <2>5 DEF ChecksumRow, WithContent, Present, Purged
  <2>7. b.content = a.content
    BY <2>4, <2>6, <1>1, SoundArtifact
  <2> QED BY <2>1, <2>6, <2>7 DEF Originals
<1> QED BY <1>1

\* A record without empty originals is read back from a line as it was written.
LEMMA WireIdentity ==
  ASSUME NEW r, IsRecord(r), RoundTrips(r)
  PROVE  Wire(r) = r
<1>1. \A i \in DOMAIN r.artifacts : WireArtifact(r.artifacts[i]) = r.artifacts[i]
  BY DEF IsRecord, RoundTrips, WireArtifact
<1>2. r.artifacts = [i \in DOMAIN r.artifacts |-> WireArtifact(r.artifacts[i])]
  BY <1>1 DEF IsRecord
<1> QED BY <1>2 DEF Wire, IsRecord

\* What has been through the encoding once survives it unchanged.
LEMMA WireIsRecord ==
  ASSUME NEW r, IsRecord(r)
  PROVE  IsRecord(Wire(r)) /\ RoundTrips(Wire(r)) /\ Wire(r).id = r.id
<1>1. EmptyBytes # Nil
  BY ContentAssumption
<1>2. IsRecord(Wire(r))
  BY DEF IsRecord, Wire, WireArtifact, WithArtifacts, WithContent
<1> QED BY <1>1, <1>2 DEF RoundTrips, Wire, WireArtifact, WithArtifacts, WithContent

\* Without empty originals, preparing and purging keep what survives the JSON
\* round trip.
LEMMA RoundTripsKept ==
  ASSUME NEW r, IsRecord(r), RoundTrips(r)
  PROVE  RoundTrips(Prepared(r)) /\ RoundTrips(Tombstoned(r))
<1>1. EmptyBytes # Nil
  BY ContentAssumption
<1> QED
  BY <1>1 DEF RoundTrips, Prepared, PreparedArtifact, Tombstoned, Tombstone,
              WithArtifacts, WithContent

\* A record Put may store.  Nil, which stands for the absence of a record, is none.
Stable(r) == Sound(r) /\ r # Nil /\ Tombstoned(r) # Nil

\* What may happen to what is stored under an id: nothing, the admission of a
\* record, or the erasure of the one there is.
Changes(old, new) ==
  \/ new = old
  \/ old = Nil /\ Stable(new)
  \/ old # Nil /\ new = Tombstoned(old)

\* The contract of ArtifactStore makes records immutable: whatever is stored
\* stays, keeps its checksum, and keeps its originals or loses all of them.
THEOREM StoreImmutable ==
  ASSUME NEW old, NEW new, old = Nil \/ Stable(old), Changes(old, new)
  PROVE  /\ new = Nil \/ Stable(new)
         /\ old # Nil =>
              /\ new # Nil
              /\ StorageChecksum(new) = StorageChecksum(old)
              /\ Originals(new) \in {Originals(old), {}}
<1>1. CASE new = old
  BY <1>1
<1>2. CASE old = Nil /\ Stable(new)
  BY <1>2
<1>3. CASE old # Nil /\ new = Tombstoned(old)
  <2>1. Sound(old) /\ IsRecord(old) /\ new # Nil
    BY <1>3 DEF Stable, Sound
  <2>2. Sound(new) /\ Originals(new) = {}
    BY <2>1, <1>3, TombstonedIsSound, TombstonedHasNoOriginals
  <2>3. StorageChecksum(new) = StorageChecksum(old) /\ Tombstoned(new) = new
    BY <2>1, <1>3, ChecksumSurvivesPurge, TombstonedTwice
  <2> QED BY <2>1, <2>2, <2>3 DEF Stable
<1> QED BY <1>1, <1>2, <1>3 DEF Changes
=============================================================================
