------------------------------ MODULE Artifact ------------------------------
(***************************************************************************)
(* The record type of package artifact and the pure functions every        *)
(* backend calls on it (src/artifact/record.go): Prepare, Verify,          *)
(* StorageChecksum and the purge transformation.                           *)
(*                                                                         *)
(* Bytes are abstracted to what these functions tell apart.  A byte slice  *)
(* is Nil (the nil slice) or a member of Content, one of which is          *)
(* EmptyBytes (the non-nil slice of length 0).  SHA-256 is collision free, *)
(* so a SHA-256 hex string is identified with the bytes it is the digest   *)
(* of, and the empty string with Nil.  The JCS digest of a content is      *)
(* JsonDigest[content], Nil when the content is not strict JSON.           *)
(***************************************************************************)
EXTENDS Integers, Sequences, FiniteSets, FiniteSetsExt

CONSTANTS
  Content,       \* non-nil byte slices
  EmptyBytes,    \* the one of length 0
  Nil,           \* a nil slice, an empty string, an absent field
  JsonDigest,    \* emit.DigestJSON of each content, Nil when it fails
  ContentSize,   \* len of each content
  ValidName,     \* artifact names that match namePattern
  ValidId,       \* capsule ids that match idPattern
  MaxArtifacts,  \* 64 in the code
  MaxEnvelope,   \* 65535 in the code
  MaxRecord      \* 8 MiB in the code

ASSUME ContentAssumption ==
  /\ EmptyBytes \in Content
  /\ Nil \notin Content
  /\ JsonDigest[EmptyBytes] = Nil        \* no JSON text is empty
  /\ ContentSize \in [Content -> Nat]

ASSUME LimitAssumption ==
  /\ MaxArtifacts \in Nat
  /\ MaxEnvelope \in Nat
  /\ MaxRecord \in Nat

-----------------------------------------------------------------------------
\* Retention states, record.go: type RetentionState.
Present == "present"
Purged == "purged"
NeverRetained == "never_retained"

\* The capsule members an artifact may be bound to, record.go: type DigestField.
DigestField == {"payload", "agent_output", "effect_request", "effect_response"}

\* A capsule is [ok, id, size, digest]: the verdict of emit.VerifyCapsule on its
\* bytes and the id it recomputes, their length, and per DigestField the digest
\* found there (Nil: absent or malformed).
\* An envelope is [ok, over, key, size]: a signature by key over capsule id
\* over, ok when it parses and the signature verifies.
\* An artifact is [name, binding, content, state, sha].
\* A record is [id, capsule, envelope, artifacts].

\* A record with another inventory, an artifact with another content.
WithArtifacts(r, as) ==
  [id |-> r.id, capsule |-> r.capsule, envelope |-> r.envelope, artifacts |-> as]

WithContent(a, content, state, sha) ==
  [name |-> a.name, binding |-> a.binding, content |-> content, state |-> state,
   sha |-> sha]

\* record.go rawDigest: a digest is identified with its preimage.
rawDigest(c) == IF c = Nil THEN EmptyBytes ELSE c

\* emit.VerifyEnvelope(id, envelope) returned no error.
EnvelopeOver(env, id) == env.ok /\ env.over = id

\* record.go digestAt: Nil stands for each of its errors.
digestAt(capsule, field) ==
  IF field \in DigestField THEN capsule.digest[field] ELSE Nil

-----------------------------------------------------------------------------
\* The body of Prepare's loop: why artifact a stops it, "ok" if it does not.
PrepareArtifact(a) ==
  IF a.state = Purged THEN "ErrPurged"
  ELSE IF a.state = Present /\ a.sha # Nil /\ a.sha # rawDigest(a.content)
       THEN "ErrCorrupt"
       ELSE "ok"

\* len(Capsule) + len(ProducerEnvelope) + the lengths of the originals.
RecordSize(r) ==
  LET size(i) == LET c == r.artifacts[i].content
                 IN  IF c = Nil THEN 0 ELSE ContentSize[c]
  IN  r.capsule.size + r.envelope.size + MapThenSumSet(size, DOMAIN r.artifacts)

\* record.go Prepare, the error it returns: the loop stops at the first artifact
\* it refuses.
PrepareError(r) ==
  LET bad == {i \in DOMAIN r.artifacts : PrepareArtifact(r.artifacts[i]) # "ok"}
  IN  IF Len(r.artifacts) > MaxArtifacts \/ r.envelope.size > MaxEnvelope
      THEN "ErrInvalid"
      ELSE IF bad # {} THEN PrepareArtifact(r.artifacts[Min(bad)])
      ELSE IF RecordSize(r) > MaxRecord THEN "ErrInvalid" ELSE "ok"

\* record.go Prepare, the record it returns: exact-byte checksums filled in.
PreparedArtifact(a) ==
  WithContent(a, a.content, a.state,
              IF a.state = Present THEN rawDigest(a.content) ELSE a.sha)

Prepared(r) ==
  WithArtifacts(r, [i \in DOMAIN r.artifacts |-> PreparedArtifact(r.artifacts[i])])

-----------------------------------------------------------------------------
\* The switch on a.State in Verify's loop.
StateError(a, committed) ==
  CASE a.state = Present ->
         IF a.content = Nil THEN "ErrInvalid"
         ELSE IF a.sha # Nil /\ a.sha # rawDigest(a.content) THEN "ErrCorrupt"
         ELSE IF a.binding # Nil /\ JsonDigest[a.content] # committed
              THEN "ErrDigestMismatch" ELSE "ok"
    [] a.state = Purged ->
         IF a.content # Nil \/ a.sha \notin Content THEN "ErrInvalid" ELSE "ok"
    [] a.state = NeverRetained ->
         IF a.content # Nil \/ a.sha # Nil THEN "ErrInvalid" ELSE "ok"
    [] OTHER -> "ErrInvalid"

\* The body of Verify's loop: why artifact i of r is refused.
ArtifactError(r, i) ==
  LET a == r.artifacts[i]
  IN  IF a.name \notin ValidName THEN "ErrInvalid"
      ELSE IF \E j \in 1..(i - 1) : r.artifacts[j].name = a.name
           THEN "ErrInvalid"
      ELSE IF a.binding # Nil /\ digestAt(r.capsule, a.binding) = Nil
           THEN "ErrInvalid"
      ELSE StateError(a, digestAt(r.capsule, a.binding))

BadArtifacts(r) ==
  {i \in DOMAIN r.artifacts : ArtifactError(r, i) # "ok"}

\* record.go Verify: the error it returns for trusted keys, "ok" for none.
Verify(r, trusted) ==
  IF r.id \notin ValidId \/ ~ r.capsule.ok \/ r.capsule.id # r.id
     \/ ~ EnvelopeOver(r.envelope, r.id)
  THEN "ErrInvalid"
  ELSE IF r.envelope.key \notin trusted THEN "ErrUntrustedSigner"
  ELSE IF BadArtifacts(r) # {}
       THEN ArtifactError(r, Min(BadArtifacts(r))) ELSE "ok"

\* Prepare then Verify, the order every backend's Put uses.
AdmissionError(r, trusted) ==
  IF PrepareError(r) # "ok" THEN PrepareError(r)
                            ELSE Verify(Prepared(r), trusted)

-----------------------------------------------------------------------------
\* record.go Record.StorageChecksum.  The code hashes the inventory sorted by
\* name; every record it is compared for has distinct names, so the sorted
\* inventory is its set of rows.
ChecksumRow(a) ==
  WithContent(a, Nil, IF a.state = Purged THEN Present ELSE a.state, a.sha)

StorageChecksum(r) ==
  WithArtifacts(r, {ChecksumRow(r.artifacts[i]) : i \in DOMAIN r.artifacts})

HasPurged(r) == \E i \in DOMAIN r.artifacts : r.artifacts[i].state = Purged

\* Mutant: an attachment without a digest binding is not erased.
TombstoneBoundOnly(a) ==
  IF a.state = Present /\ a.binding # Nil
  THEN WithContent(a, Nil, Purged, a.sha) ELSE a

\* What Purge leaves of a record: each Present original becomes a tombstone.
Tombstone(a) ==
  IF a.state = Present THEN WithContent(a, Nil, Purged, a.sha) ELSE a

Tombstoned(r) ==
  WithArtifacts(r, [i \in DOMAIN r.artifacts |-> Tombstone(r.artifacts[i])])

\* The originals a record still carries.
Originals(r) ==
  {[name |-> r.artifacts[i].name, content |-> r.artifacts[i].content] :
     i \in {j \in DOMAIN r.artifacts : r.artifacts[j].content # Nil}}

-----------------------------------------------------------------------------
\* A record marshalled by encoding/json/v2 and unmarshalled again: the content
\* member is omitempty, so an empty non-nil slice comes back as nil.
WireArtifact(a) ==
  WithContent(a, IF a.content = EmptyBytes THEN Nil ELSE a.content, a.state, a.sha)

Wire(r) ==
  WithArtifacts(r, [i \in DOMAIN r.artifacts |-> WireArtifact(r.artifacts[i])])

\* The record survives the round trip.
RoundTrips(r) ==
  \A i \in DOMAIN r.artifacts : r.artifacts[i].content # EmptyBytes

-----------------------------------------------------------------------------
\* What the backends rely on in a stored record, whatever keys are trusted.

\* A record as Go's type system has it.
IsRecord(r) ==
  /\ r = WithArtifacts(r, r.artifacts)
  /\ \E n \in 0..Cardinality(DOMAIN r.artifacts) : DOMAIN r.artifacts = 1..n
  /\ r.artifacts = [i \in DOMAIN r.artifacts |-> r.artifacts[i]]
  /\ \A i \in DOMAIN r.artifacts :
       LET a == r.artifacts[i]
       IN  /\ a = WithContent(a, a.content, a.state, a.sha)
           /\ a.content \in Content \cup {Nil}

\* The capsule and the envelope belong together and are the id's.
Authentic(r) ==
  /\ r.id \in ValidId /\ r.capsule.ok /\ r.capsule.id = r.id
  /\ EnvelopeOver(r.envelope, r.id)

\* A record that verifies but for the question whom to trust, and that carries
\* the exact-byte checksum of every original.
Sound(r) ==
  /\ IsRecord(r)
  /\ Authentic(r)
  /\ BadArtifacts(r) = {}
  /\ \A i \in DOMAIN r.artifacts :
       r.artifacts[i].state = Present => r.artifacts[i].sha = r.artifacts[i].content
=============================================================================
