------------------------------ MODULE Producer ------------------------------
(***************************************************************************)
(* A producer's session with the library (src/sign.go,                     *)
(* src/construction.go): it builds capsules, binds foreign artifacts,      *)
(* composes capsules it holds, signs and seals, while the key manager that *)
(* holds its key rotates it and the application overwrites the slices it   *)
(* owns.                                                                   *)
(*                                                                         *)
(* Go slices are addresses of the heap, named by whom they were made for:  *)
(* a copy has an address of its own, a shared slice has not.  Signatures   *)
(* are symbolic: an envelope is [over, kid, sig], the id it signs, the     *)
(* public key in its header and the key that signed.                       *)
(***************************************************************************)
EXTENDS Capsule

CONSTANTS
  Inputs,       \* inputs given to Build, Received, BuildComposition and Seal
  OtherIds,     \* ids of no capsule, Nil the empty string
  Foreign,      \* foreign artifacts: [bytes, type], Nil the empty slice
  SealInputs,   \* SealInput without Members and Identity.  Payload and
                \* AgentOutput are Go values [kind, nil, json], json what
                \* jsonv2.Marshal writes; Nil is the nil interface
  UsedSlots,    \* the roles the application fills
  Keys,         \* Ed25519 public keys
  MaxHeld,      \* bound on the capsules the application holds
  MaxMembers,   \* bound on slot members
  MaxSigned,    \* bound on the envelopes of Sign and Seal
  MaxFaults     \* bound on overwrites and rotations

\* The inputs are Go values; compute is not exported, so no caller sets it.
ASSUME SessionAssumption ==
  \A in \in Inputs \cup {s.Capsule : s \in SealInputs} :
    /\ IsInput(in, {})
    /\ {"Model", "Compute", "compute"} \subseteq DOMAIN in
    /\ in.compute = Nil

\* The originals are what Go can marshal: of their kinds only these have a nil.
ASSUME SealAssumption ==
  \A s \in SealInputs : \A v \in {s.Payload, s.AgentOutput} \ {Nil} :
    /\ IsSlice(v.json)
    /\ v.nil => v.kind \in {"map", "pointer", "slice"}

ASSUME OtherIdAssumption == \A id \in OtherIds : id # Nil => "capsule" \notin DOMAIN id

VARIABLES
  heap,       \* contents of the slices
  held,       \* the BuiltPayloads and Results the application holds
  members,    \* the SlotMembers it made
  identity,   \* its SigningIdentity, Nil before NewSigningIdentity
  kms,        \* the key the external signer signs with
  call,       \* the Sign or Seal that waits for the signer, Nil if none
  envelopes,  \* what Sign returned
  faults      \* overwrites and rotations so far

vars == <<heap, held, members, identity, kms, call, envelopes, faults>>

\* held[i] is [CapsuleID, JSON, Envelope] with JSON an address and Envelope Nil
\* for a BuiltPayload.  For the properties it remembers in issued the id Build
\* returned, in binds what the caller asked to bind and in originals the values
\* given to Seal.  members[i] remembers in sound whether it was a capsule when it
\* was made, identity in registered the key it was made for.

CallerKey == <<"key", 1>>     \* the application's slice of its public key
IdentityKey == <<"key", 2>>
HeldJson(i) == <<"held", i>>
MemberJson(i) == <<"member", i>>

Init ==
  /\ \E k \in Keys : heap = [a \in {CallerKey} |-> k] /\ kms = k
  /\ held = <<>> /\ members = <<>> /\ envelopes = {}
  /\ identity = Nil /\ call = Nil
  /\ faults = 0

\* The heap after a slice was made or overwritten.
Write(address, content) == WithLeaf(heap, address, content)

-----------------------------------------------------------------------------
NoOriginals == [payload |-> Nil, agent_output |-> Nil]

\* The application receives capsule b.
Holds(b, binds, originals, env) ==
  /\ Len(held) < MaxHeld
  /\ heap' = Write(HeldJson(Len(held) + 1), b.JSON)
  /\ held' = Append(held, [CapsuleID |-> b.CapsuleID, JSON |-> HeldJson(Len(held) + 1),
                           Envelope |-> env, issued |-> b.CapsuleID, binds |-> binds,
                           originals |-> originals])

Unbound == [carried |-> Nil, members |-> {}]

\* The session is one goroutine: while Sign or Seal waits for the signer, only
\* its environment moves.
Idle == call = Nil

\* Build of each input.
Builds == [in \in Inputs |-> Build(in)]

BuildCall ==
  Idle /\ \E in \in Inputs :
    LET b == Builds[in]
    IN  /\ b # Nil
        /\ Holds(b, Unbound, NoOriginals, Nil)
        /\ UNCHANGED <<members, identity, kms, call, envelopes, faults>>

\* Received, and Carry with type "foreign-artifact".
Received(in, artifact) ==
  LET digest == [raw |-> artifact.bytes]
      ref == [Type |-> artifact.type, DigestAlg |-> "SHA-256", Digest |-> digest,
              Slot |-> Nil]
  IN  IF artifact.bytes = Nil \/ IsBlank(artifact.type) THEN Nil
      ELSE Build([in EXCEPT !.compute = [CarriedArtifact |-> ref,
                                         CarriedInputDigest |-> digest,
                                         ComposedMembers |-> <<>>]])

\* Received of each input and artifact.
Receipts == [in \in Inputs |-> [artifact \in Foreign |-> Received(in, artifact)]]

ReceivedCall ==
  Idle /\ \E in \in Inputs, artifact \in Foreign :
    LET b == Receipts[in][artifact]
    IN  /\ b # Nil
        /\ Holds(b, [Unbound EXCEPT !.carried = artifact.bytes], NoOriginals, Nil)
        /\ UNCHANGED <<members, identity, kms, call, envelopes, faults>>

-----------------------------------------------------------------------------
compositionSlots == <<"who", "can", "did", "audit">>
Slots == {compositionSlots[i] : i \in DOMAIN compositionSlots}

Member(c, slot, address) ==
  [slot |-> slot, capsuleID |-> c.CapsuleID, json |-> address,
   sound |-> VerifyCapsule(heap[c.JSON]) = c.CapsuleID]

\* Mutant: the member keeps the caller's slice.
newSlotMemberShared(c, slot) ==
  members' = Append(members, Member(c, slot, c.JSON)) /\ heap' = heap

\* newSlotMember: the JSON is copied.
newSlotMember(c, slot) ==
  LET copy == MemberJson(Len(members) + 1)
  IN  /\ members' = Append(members, Member(c, slot, copy))
      /\ heap' = Write(copy, heap[c.JSON])

\* Who, Can, Did and Audit.
SlotCall ==
  /\ Idle /\ Len(members) < MaxMembers
  /\ \E i \in DOMAIN held, slot \in UsedSlots : newSlotMember(held[i], slot)
  /\ UNCHANGED <<held, identity, kms, call, envelopes, faults>>

\* Lists of members to compose; 0 is the zero SlotMember.
ZeroMember == [slot |-> Nil, capsuleID |-> Nil, json |-> Nil]
MemberLists == UNION {[1..n -> 0..Len(members)] : n \in 0..2}
Resolved(list) ==
  [i \in DOMAIN list |->
     IF list[i] = 0 THEN ZeroMember
     ELSE LET m == members[list[i]]
          IN  [slot |-> m.slot, capsuleID |-> m.capsuleID, json |-> heap[m.json]]]

\* Mutant: any capsule will do, whatever id the member has.
memberVerifiesAny(m) == IsHex(m.capsuleID) /\ VerifyCapsule(m.json) # Nil

\* A member is a capsule that still verifies, under the id it is composed by.
memberVerifies(m) == IsHex(m.capsuleID) /\ VerifyCapsule(m.json) = m.capsuleID

\* The loop of BuildComposition over its arguments.
composable(ms) ==
  /\ ms # <<>>
  /\ \A i, j \in DOMAIN ms :
       i # j => ms[i].slot # ms[j].slot /\ ms[i].capsuleID # ms[j].capsuleID
  /\ \A i \in DOMAIN ms : ms[i].slot \in Slots /\ memberVerifies(ms[i])

\* The loop over the slots: the reference to the member each was given, if any.
composedReferences(ms) ==
  LET given(slot) == {i \in DOMAIN ms : ms[i].slot = slot}
      reference(slot) ==
        [Type |-> "capsule", DigestAlg |-> "SHA-256", Slot |-> slot,
         Digest |-> ms[CHOOSE i \in given(slot) : TRUE].capsuleID]
      refs[n \in 0..Len(compositionSlots)] ==
        IF n = 0 THEN <<>>
        ELSE IF given(compositionSlots[n]) = {} THEN refs[n - 1]
        ELSE Append(refs[n - 1], reference(compositionSlots[n]))
  IN  refs[Len(compositionSlots)]

Composable == {ms \in {Resolved(list) : list \in MemberLists} : composable(ms)}

\* BuildComposition of composable members.
BuildComposition(in, ms) ==
  Build([in EXCEPT !.compute = [CarriedArtifact |-> Nil, CarriedInputDigest |-> Nil,
                                ComposedMembers |-> composedReferences(ms)]])

Composes(ms) ==
  [Unbound EXCEPT !.members = {[slot |-> ms[i].slot, id |-> ms[i].capsuleID] :
                                 i \in DOMAIN ms}]

CompositionCall ==
  Idle /\ Len(held) < MaxHeld /\ \E ms \in Composable, in \in Inputs :
    LET b == BuildComposition(in, ms)
    IN  /\ b # Nil
        /\ Holds(b, Composes(ms), NoOriginals, Nil)
        /\ UNCHANGED <<members, identity, kms, call, envelopes, faults>>

-----------------------------------------------------------------------------
\* NewSigningIdentity of an EdDSA signer: the public key is copied.  The session
\* does so before it builds; Build touches no key.
NewIdentity ==
  /\ Idle /\ identity = Nil /\ held = <<>>
  /\ heap[CallerKey] \in Keys
  /\ identity' = [publicKey |-> IdentityKey, registered |-> heap[CallerKey]]
  /\ heap' = Write(IdentityKey, heap[CallerKey])
  /\ UNCHANGED <<held, members, kms, call, envelopes, faults>>

\* Sign up to the external signer: the capsule must match its id.  The header
\* names the identity's key.
Signs(b, op, binds, originals) ==
  /\ IsHex(b.CapsuleID)
  /\ VerifyCapsule(b.JSON) = b.CapsuleID
  /\ call' = [op |-> op, built |-> b, kid |-> heap[identity.publicKey], sig |-> Nil,
              binds |-> binds, originals |-> originals]
  /\ UNCHANGED <<heap, held, members, identity, kms, envelopes, faults>>

Sealed == {i \in DOMAIN held : held[i].Envelope # Nil}
MaySign ==
  Idle /\ identity # Nil /\ Cardinality(envelopes) + Cardinality(Sealed) < MaxSigned

SignCall ==
  /\ MaySign
  /\ \E i \in DOMAIN held :
       Signs([CapsuleID |-> held[i].CapsuleID, JSON |-> heap[held[i].JSON]], "sign",
             Unbound, NoOriginals)

\* Mutant: a typed nil is not absent.
isAbsentJSONValueUntyped(v) == v = Nil

isAbsentJSONValue(v) ==
  v # Nil => v.kind \in {"map", "pointer", "slice"} /\ v.nil

\* The digest Seal commits of a value, Nil for none.
Commitment(v) == IF isAbsentJSONValue(v) THEN Nil ELSE DigestJSON(v.json)
Digestible(v) == ~ isAbsentJSONValue(v) => DigestJSON(v.json) # Nil

MaySeal == MaySign /\ Len(held) < MaxHeld

\* What Seal builds of a regular capsule.
Regular(s) ==
  LET compute == [AgentInputDigest |-> Commitment(s.Payload),
                  AgentOutputDigest |-> Commitment(s.AgentOutput), Runtime |-> s.Runtime]
  IN  IF /\ s.Capsule.Model = Nil /\ s.Capsule.Compute = Nil
         /\ Digestible(s.Payload) /\ Digestible(s.AgentOutput)
      THEN Build([s.Capsule EXCEPT
                    !.Model = s.Model,
                    !.Compute = IF hasComputeAttestation(compute) THEN compute ELSE Nil])
      ELSE Nil
Regulars == [s \in SealInputs |-> Regular(s)]

\* Seal of a regular capsule, up to Sign.
SealCall ==
  MaySeal /\ \E s \in SealInputs :
    LET b == Regulars[s]
    IN  /\ b # Nil
        /\ Signs(b, "seal", Unbound,
                 [payload |-> s.Payload, agent_output |-> s.AgentOutput])

\* Seal of a composition, up to Sign: payload and output must be absent.
SealComposition ==
  MaySeal /\ \E ms \in Composable, s \in SealInputs :
    LET compute == IF s.Runtime = Nil THEN Nil ELSE [NoCompute EXCEPT !.Runtime = s.Runtime]
        b == BuildComposition([s.Capsule EXCEPT !.Model = s.Model, !.Compute = compute], ms)
    IN  /\ s.Capsule.Model = Nil /\ s.Capsule.Compute = Nil
        /\ isAbsentJSONValue(s.Payload) /\ isAbsentJSONValue(s.AgentOutput)
        /\ b # Nil
        /\ Signs(b, "seal", Composes(ms), NoOriginals)

\* The external signer signs with the key it holds now, or fails.
KmsSigns ==
  /\ call # Nil /\ call.sig = Nil
  /\ call' = [call EXCEPT !.sig = kms]
  /\ UNCHANGED <<heap, held, members, identity, kms, envelopes, faults>>

KmsFails ==
  /\ call # Nil /\ call.sig = Nil
  /\ call' = Nil
  /\ UNCHANGED <<heap, held, members, identity, kms, envelopes, faults>>

\* Mutant: the signer's answer is taken as it is.
signerMatchesAny(sig) == TRUE

\* message.Verify with the identity's key.
signerMatches(sig) == sig = heap[identity.publicKey]

SignedEnvelope == [over |-> call.built.CapsuleID, kid |-> call.kid, sig |-> call.sig]

SignReturns ==
  /\ call # Nil /\ call.sig # Nil /\ signerMatches(call.sig)
  /\ call.op = "sign"
  /\ envelopes' = envelopes \cup {SignedEnvelope}
  /\ call' = Nil
  /\ UNCHANGED <<heap, held, members, identity, kms, faults>>

SealReturns ==
  /\ call # Nil /\ call.sig # Nil /\ signerMatches(call.sig)
  /\ call.op = "seal"
  /\ Holds(call.built, call.binds, call.originals, SignedEnvelope)
  /\ call' = Nil
  /\ UNCHANGED <<members, identity, kms, envelopes, faults>>

\* The signer does not match the public key.
SignRefuses ==
  /\ call # Nil /\ call.sig # Nil /\ ~ signerMatches(call.sig)
  /\ call' = Nil
  /\ UNCHANGED <<heap, held, members, identity, kms, envelopes, faults>>
-----------------------------------------------------------------------------
\* The environment.  The key manager rotates its key.
Fault == faults < MaxFaults /\ faults' = faults + 1

Rotate ==
  /\ Fault
  /\ \E k \in Keys \ {kms} : kms' = k
  /\ UNCHANGED <<heap, held, members, identity, call, envelopes>>

\* The application reuses the slice of its public key, whole or shortened.
OverwriteKey ==
  /\ Fault
  /\ \E k \in (Keys \cup {Nil}) \ {heap[CallerKey]} : heap' = Write(CallerKey, k)
  /\ UNCHANGED <<held, members, identity, kms, call, envelopes>>

\* The application overwrites a capsule's JSON, with another's or with garbage.
OverwriteJson ==
  /\ Fault
  /\ \E i \in DOMAIN held :
       \E json \in {Nil} \cup {heap[held[j].JSON] : j \in DOMAIN held \ {i}} :
         heap' = Write(held[i].JSON, json)
  /\ UNCHANGED <<held, members, identity, kms, call, envelopes>>

\* The application puts another id on a capsule.
Relabel ==
  /\ Fault
  /\ \E i \in DOMAIN held, id \in OtherIds :
       held' = [held EXCEPT ![i].CapsuleID = id]
  /\ UNCHANGED <<heap, members, identity, kms, call, envelopes>>

Next ==
  \/ BuildCall \/ ReceivedCall \/ SlotCall \/ CompositionCall
  \/ NewIdentity \/ SignCall \/ SealCall \/ SealComposition
  \/ KmsSigns \/ KmsFails \/ SignReturns \/ SealReturns \/ SignRefuses
  \/ Rotate \/ OverwriteKey \/ OverwriteJson \/ Relabel

Spec == Init /\ [][Next]_vars

-----------------------------------------------------------------------------
Issued == {held[i].issued : i \in DOMAIN held}

AllEnvelopes == envelopes \cup {held[i].Envelope : i \in Sealed}

\* upstream envelope.Verify: the signature is the header key's, over the id.
VerifyEnvelope(id, env) == env.over = id /\ env.sig = env.kid

(***************************************************************************)
(* Every envelope Sign or Seal returns verifies, under the key the         *)
(* identity was made for and over an id that Build issued, although the    *)
(* signer may rotate its key, the application may overwrite its public key *)
(* and its capsules and relabel them at any time (sign.go:50-89).          *)
(***************************************************************************)
EnvelopeAuthentic ==
  \A env \in AllEnvelopes :
    /\ VerifyEnvelope(env.over, env)
    /\ env.kid = identity.registered
    /\ env.over \in Issued

(***************************************************************************)
(* What the library keeps does not depend on slices the application owns:  *)
(* a slot member made of a capsule stays that capsule (construction.go:    *)
(* 77-92) and an identity keeps its key (sign.go:46), whatever is          *)
(* overwritten afterwards.                                                 *)
(***************************************************************************)
CopiesStable ==
  /\ identity # Nil => heap[identity.publicKey] = identity.registered
  /\ \A i \in DOMAIN members :
       members[i].sound => VerifyCapsule(heap[members[i].json]) = members[i].capsuleID

\* The members of compute_attestation that the id of a capsule commits.
Attested(id, names) ==
  At(id.capsule, <<[key |-> "model_attestation"], [key |-> "compute_attestation"]>> \o names)
MemberAt(id, k, name) ==
  Attested(id, <<[key |-> "composed_members"], [index |-> k - 1], [key |-> name]>>)

(***************************************************************************)
(* A composition binds exactly the members it was given, in the order of   *)
(* the slots, and only capsules issued before it; a carried artifact is    *)
(* bound by the digest of its bytes as received; and neither claims the    *)
(* input or output of an agent (construction.go:28-46, 98-141,             *)
(* build.go:233).                                                          *)
(***************************************************************************)
BindingSound ==
  \A i \in DOMAIN held :
    LET id == held[i].issued
        binds == held[i].binds
        bound == {k \in 1..4 : MemberAt(id, k, "slot") # Nil}
        slot(k) == CHOOSE n \in 1..4 : MemberAt(id, k, "slot") = [text |-> compositionSlots[n]]
    IN  /\ {[slot |-> MemberAt(id, k, "slot").text, id |-> MemberAt(id, k, "digest").digest] :
              k \in bound} = binds.members
        /\ \A k, l \in bound : k < l => slot(k) < slot(l)
        /\ \A m \in binds.members : \E j \in 1..(i - 1) : held[j].issued = m.id
        /\ binds.carried # Nil =>
             \A path \in {<<[key |-> "carried_input_digest"]>>,
                          <<[key |-> "carried_artifact"], [key |-> "digest"]>>} :
               Attested(id, path) = [digest |-> [raw |-> binds.carried]]
        /\ binds # Unbound =>
             /\ Attested(id, <<[key |-> "agent_input_digest"]>>) = Nil
             /\ Attested(id, <<[key |-> "agent_output_digest"]>>) = Nil

-----------------------------------------------------------------------------
\* Package artifact's view of what Seal returns.
Values == {s.Payload : s \in SealInputs} \cup {s.AgentOutput : s \in SealInputs}
Contents == {v.json : v \in Values \ {Nil}} \cup {<<>>}

Artifacts(ids) ==
  INSTANCE Artifact WITH
    Content <- Contents, EmptyBytes <- <<>>,
    JsonDigest <- [c \in Contents |-> DigestJSON(c)],
    ContentSize <- [c \in Contents |-> Len(c)],
    ValidName <- {"payload", "agent_output"}, ValidId <- ids,
    MaxArtifacts <- 64, MaxEnvelope <- 65535, MaxRecord <- 8 * 1024 * 1024

DigestLeaf(json, field) ==
  LET leaf == At(json, <<[key |-> "model_attestation"], [key |-> "compute_attestation"],
                         [key |-> field]>>)
  IN  IF leaf = Nil \/ ~ IsHex(leaf.digest) THEN Nil ELSE leaf.digest

\* The record of a Result, whose JSON VerifyCapsule accepts as verified, with one
\* original bound to a field.
RecordOf(r, verified, field, content) ==
  LET json == heap[r.JSON]
  IN  [id |-> r.CapsuleID,
       capsule |-> [ok |-> verified # Nil, id |-> verified, size |-> 1,
                    digest |-> [payload |-> DigestLeaf(json, "agent_input_digest"),
                                agent_output |-> DigestLeaf(json, "agent_output_digest"),
                                effect_request |-> Nil, effect_response |-> Nil]],
       envelope |-> [ok |-> r.Envelope.sig = r.Envelope.kid, over |-> r.Envelope.over,
                     key |-> r.Envelope.kid, size |-> 1],
       artifacts |-> <<[name |-> field, binding |-> field, content |-> content,
                        state |-> "present", sha |-> Nil]>>]

ContentValue == [c \in Contents |-> decodeStrictJSON(c)]

\* The JSON value Seal was given, Nil for none.
Given(v) == IF v = Nil \/ v.nil THEN Nil ELSE ContentValue[v.json]

(***************************************************************************)
(* What Seal returns, a store that trusts the signer admits together with  *)
(* the original Seal was given, in any spelling of its JSON, and with no   *)
(* other; a value that was absent, a typed nil included, is bound to       *)
(* nothing (sign.go:108-155, artifact/record.go:91-161).                   *)
(***************************************************************************)
SealedAdmitted ==
  \A i \in DOMAIN held :
    LET r == held[i]
        verified == VerifyCapsule(heap[r.JSON])
    IN  r.Envelope # Nil /\ verified # Nil /\ verified = r.CapsuleID =>
          \A field \in {"payload", "agent_output"}, c \in Contents :
            Artifacts({r.issued})!AdmissionError(RecordOf(r, verified, field, c), {identity.registered})
                = "ok"
              <=> Given(r.originals[field]) # Nil
                    /\ ContentValue[c] = Given(r.originals[field])
=============================================================================
