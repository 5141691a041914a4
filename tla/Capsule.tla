------------------------------ MODULE Capsule -------------------------------
(***************************************************************************)
(* What one capsule is made of (src/build.go, src/extension.go,            *)
(* src/digest.go, src/verify.go): the checks on an Input, the payload      *)
(* Build makes of it, its id, and VerifyCapsule.                           *)
(*                                                                         *)
(* An Input has the fields of the Go struct.  Nil is the empty string and  *)
(* the nil pointer; Blank is a text of white space.  A payload is a        *)
(* document of StrictJson; its JCS encoding is identified with it, because *)
(* JCS is deterministic and one to one.  Digests are symbolic: [jcs |-> d] *)
(* of JSON, [raw |-> b] of bytes, [capsule |-> d] of a payload; whatever   *)
(* else stands in a digest field, [bad |-> s], is not 64 hex digits.       *)
(***************************************************************************)
EXTENDS StrictJson, FiniteSets

CONSTANTS
  Blank,           \* a text that strings.TrimSpace makes empty
  ExtensionName,   \* the names that match extensionNamePattern
  UnsafeNumber     \* the floats and the integers beyond 2^53 - 1

\* The inputs are Go values: slices, and JSON texts as slices of tokens.
IsSlice(s) == \E n \in 0..Cardinality(DOMAIN s) : s = [i \in 1..n |-> s[i]]

IsInput(in, others) ==
  LET refs == in.References
  IN  /\ {"Extensions", "References"} \subseteq DOMAIN in
      /\ IsSlice(in.Extensions)
      /\ \A i \in DOMAIN in.Extensions :
           /\ {"Name", "Value"} \subseteq DOMAIN in.Extensions[i]
           /\ in.Extensions[i].Value \in others \/ IsSlice(in.Extensions[i].Value)
      /\ refs # Nil =>
           /\ IsSlice(refs)
           /\ \A i \in DOMAIN refs :
                /\ "LogCoordinates" \in DOMAIN refs[i]
                /\ refs[i].LogCoordinates \in others \cup {Nil} \/ IsSlice(refs[i].LogCoordinates)
      /\ in.compute # Nil => IsSlice(in.compute.ComposedMembers)

-----------------------------------------------------------------------------
\* Documents from their parts; a member that is Nil is left out.
Leaf(x) == [p \in {<<>>} |-> x]
Text(s) == Leaf([text |-> s])
Digest(d) == Leaf([digest |-> d])
Opt(x, F(_)) == IF x = Nil THEN Nil ELSE F(x)

Object(members) ==
  LET present == {k \in DOMAIN members : members[k] # Nil}
      paths == UNION {{<<[key |-> k]>> \o p : p \in DOMAIN members[k]} : k \in present}
  IN  IF present = {} THEN Leaf([empty |-> "{"])
      ELSE [p \in paths |-> members[Head(p).key][Tail(p)]]

Array(items) ==
  LET paths == UNION {{<<[index |-> i - 1]>> \o p : p \in DOMAIN items[i]} :
                        i \in DOMAIN items}
  IN  IF items = <<>> THEN Leaf([empty |-> "["])
      ELSE [p \in paths |-> items[Head(p).index + 1][Tail(p)]]

\* The names of a payload's top-level members.
Names(doc) == {Head(p).key : p \in DOMAIN doc}

\* What stands at a path, Nil when nothing does.
At(doc, path) == IF path \in DOMAIN doc THEN doc[path] ELSE Nil

-----------------------------------------------------------------------------
\* strings.TrimSpace(s) == "", hexDigestPattern.
IsBlank(s) == s \in {Nil, Blank}
IsHex(d) == d # Nil /\ "bad" \notin DOMAIN d
HexOrAbsent(d) == d = Nil \/ IsHex(d)

\* validateDisposition
validDisposition(d) ==
  /\ d.Decision # Nil
  /\ d.Approver \in {"human", "policy", "counterparty"}
  /\ d.HumanDisposed => d.Approver = "human"
  /\ HexOrAbsent(d.ReasonDigest)

\* validateEffect: the second switch is what each status may carry.
validEffect(e) ==
  /\ ~ IsBlank(e.Type)
  /\ e.Status \in {"planned", "dispatched", "confirmed", "failed", "reverted"}
  /\ e.IrreversibilityClass # Nil
  /\ HexOrAbsent(e.RequestDigest) /\ HexOrAbsent(e.ResponseDigest)
  /\ (e.Status = "planned") = (e.EffectAttestation = Nil)
  /\ e.Status = "planned" => e.RequestDigest = Nil
  /\ e.Status \in {"planned", "dispatched"} => e.ResponseDigest = Nil
  /\ e.Status = "confirmed" => e.ResponseDigest # Nil

hasAuthoredDigests(c) ==
  c # Nil /\ (c.AgentInputDigest # Nil \/ c.AgentOutputDigest # Nil)

hasComputeAttestation(c) == c # Nil /\ (hasAuthoredDigests(c) \/ c.Runtime # Nil)

\* validateAttestation
validAttestation(model, compute) ==
  /\ model # Nil => /\ ~ (IsBlank(model.Provider) /\ IsBlank(model.ModelID))
                    /\ Blank \notin {model.Provider, model.ModelID}
  /\ compute # Nil => /\ compute.Runtime # Blank
                      /\ hasComputeAttestation(compute)
                      /\ HexOrAbsent(compute.AgentInputDigest)
                      /\ HexOrAbsent(compute.AgentOutputDigest)

\* validateProvenanceMode
validProvenanceMode(m) ==
  LET companions == {m.SourceAssertedAt, m.ImportBatch, m.ImportedAt}
      ref == m.SourceRef
  IN  /\ ref # Nil => ref.CitationPurpose = Nil /\ ref.LogCoordinates = Nil
      /\ \/ /\ m.Mode = "backfilled"
            /\ ref # Nil /\ \A s \in {ref.Type, ref.DigestAlg} : ~ IsBlank(s)
            /\ ref.Digest \notin {Nil, [bad |-> Blank]}
            /\ \A s \in companions : ~ IsBlank(s)
            /\ m.TimeRung \in {Nil, "self_attested", "witnessed"}
         \/ /\ m.Mode = "contemporaneous"
            /\ ref = Nil /\ companions = {Nil} /\ m.TimeRung = Nil

validChain(c, epoch) ==
  /\ IsHex(c.ParentCapsuleID)
  /\ c.Relation # Nil
  /\ c.Relation = "epoch_opens" => epoch # Nil

\* validateInput
validateInput(in) ==
  /\ \A s \in {in.ActionID, in.Operator, in.Developer} : ~ IsBlank(s)
  /\ in.Timestamp # Nil
  /\ in.ActionType \in {"fyi", "decide"}
  /\ in.ActionType = "decide" => in.Disposition # Nil
  /\ in.Disposition # Nil => validDisposition(in.Disposition)
  /\ in.Effect # Nil => validEffect(in.Effect)
  /\ validAttestation(in.Model, in.Compute)
  /\ in.compute # Nil => ~ hasAuthoredDigests(in.Compute)
  /\ in.Chain # Nil => validChain(in.Chain, in.EpochID)
  /\ in.ProvenanceMode # Nil => validProvenanceMode(in.ProvenanceMode)

-----------------------------------------------------------------------------
\* formatTimestamp: the instant in UTC, truncated to microseconds.  A time is
\* its instant in nanoseconds and the zone it is given in.
formatTimestamp(t) == [nanos |-> (t.nanos \div 1000) * 1000]

dispositionMap(d) ==
  Object([decision |-> Text(d.Decision), approver |-> Text(d.Approver),
          human_disposed |-> Leaf([lit |-> IF d.HumanDisposed THEN "true" ELSE "false"]),
          verdict_class |-> Opt(d.VerdictClass, Text),
          reason_digest |-> Opt(d.ReasonDigest, Digest)])

effectMap(e) ==
  Object([type |-> Text(e.Type), status |-> Text(e.Status),
          irreversibility_class |-> Text(e.IrreversibilityClass),
          effect_attestation |-> Opt(e.EffectAttestation, Text),
          request_digest |-> Opt(e.RequestDigest, Digest),
          response_digest |-> Opt(e.ResponseDigest, Digest),
          external_ref |-> Opt(e.ExternalRef, Text)])

chainMap(c) ==
  Object([parent_capsule_id |-> Digest(c.ParentCapsuleID), relation |-> Text(c.Relation)])

\* Mutant: a planned effect counts as dispatched.
effectModePlanned(effect) ==
  IF effect = Nil THEN "not_applicable"
  ELSE IF effect.Status = "confirmed" THEN "confirmed" ELSE "dispatched_unconfirmed"

effectMode(effect) ==
  IF effect = Nil \/ effect.Status = "planned" THEN "not_applicable"
  ELSE IF effect.Status = "confirmed" THEN "confirmed" ELSE "dispatched_unconfirmed"

\* assuranceMap: derived, never given by the caller.
assuranceMap(effect, chain) ==
  Object([effect_mode |-> Text(effectMode(effect)),
          attestation_mode |-> Text("self_attested"),
          ledger_mode |-> Text(IF chain = Nil THEN "standalone" ELSE "chained")])

\* digestReferenceMap, with the members Build adds to it for a Reference.
referenceMap(ref, slot, purpose, coordinates) ==
  Object([type |-> Text(ref.Type), digest_alg |-> Text(ref.DigestAlg),
          digest |-> Digest(ref.Digest), slot |-> Opt(slot, Text),
          citation_purpose |-> Opt(purpose, Text), log_coordinates |-> coordinates])

digestReferenceMap(ref) == referenceMap(ref, ref.Slot, Nil, Nil)
sourceRefMap(ref) == referenceMap(ref, Nil, Nil, Nil)

provenanceModeMap(m) ==
  Object([mode |-> Text(m.Mode),
          source_ref |-> Opt(m.SourceRef, sourceRefMap),
          source_asserted_at |-> Opt(m.SourceAssertedAt, Text),
          import_batch |-> Opt(m.ImportBatch, Text),
          imported_at |-> Opt(m.ImportedAt, Text),
          time_rung |-> Opt(m.TimeRung, Text)])

NoCompute == [AgentInputDigest |-> Nil, AgentOutputDigest |-> Nil, Runtime |-> Nil]
NoModel == [Provider |-> Nil, ModelID |-> Nil]
NoBinding == [CarriedArtifact |-> Nil, CarriedInputDigest |-> Nil, ComposedMembers |-> <<>>]

\* An object whose members are all absent is absent itself.
ObjectIfAny(members) ==
  IF \A k \in DOMAIN members : members[k] = Nil THEN Nil ELSE Object(members)

\* A binding adds one carried artifact, or composed members.
computeAttestationMap(compute, binding) ==
  LET c == IF compute = Nil THEN NoCompute ELSE compute
      b == IF binding = Nil THEN NoBinding ELSE binding
      m == b.ComposedMembers
  IN  ObjectIfAny(
        [agent_input_digest |-> Opt(c.AgentInputDigest, Digest),
         agent_output_digest |-> Opt(c.AgentOutputDigest, Digest),
         runtime |-> Opt(c.Runtime, Text),
         carried_artifact |-> Opt(b.CarriedArtifact, digestReferenceMap),
         carried_input_digest |-> Opt(b.CarriedInputDigest, Digest),
         composed_members |->
           IF m = <<>> THEN Nil
           ELSE Array([i \in DOMAIN m |-> digestReferenceMap(m[i])])])

modelAttestationMap(in) ==
  LET m == IF in.Model = Nil THEN NoModel ELSE in.Model
  IN  ObjectIfAny([model_id |-> Opt(m.ModelID, Text),
                   provider |-> Opt(m.Provider, Text),
                   compute_attestation |-> computeAttestationMap(in.Compute, in.compute)])

-----------------------------------------------------------------------------
\* A caller's JSON value is given by the tokens jsonv2.Marshal writes for it.
marshalDigestValue(value) == decodeStrictJSON(value)

\* The canonicaliser refuses floats and integers that JSON readers may round.
Canonical(doc) == \A p \in DOMAIN doc : doc[p] \notin {[num |-> n] : n \in UnsafeNumber}

\* DigestJSON, Nil for an error.
JSONDigest(doc) == IF doc # Nil /\ Canonical(doc) THEN [jcs |-> doc] ELSE Nil
DigestJSON(value) == JSONDigest(marshalDigestValue(value))

referencesMap(refs) ==
  Array([i \in DOMAIN refs |->
           referenceMap(refs[i], Nil, refs[i].CitationPurpose,
                        Opt(refs[i].LogCoordinates, marshalDigestValue))])

\* Log coordinates that do not decode fail the whole Build.
coordinatesOk(refs) ==
  refs # Nil => \A i \in DOMAIN refs :
    refs[i].LogCoordinates # Nil => marshalDigestValue(refs[i].LogCoordinates) # Nil

-----------------------------------------------------------------------------
\* The members Build writes, in the order of its map; absent ones are Nil.
basePayload(in) ==
  Object([spec_version |-> Text("-05"), format_version |-> Text("4"),
          canonicalization_id |-> Text("jcs"),
          action_id |-> Text(in.ActionID), action_type |-> Text(in.ActionType),
          operator |-> Text(in.Operator), developer |-> Text(in.Developer),
          timestamp |-> Leaf(formatTimestamp(in.Timestamp)),
          assurance |-> assuranceMap(in.Effect, in.Chain),
          epoch_id |-> Opt(in.EpochID, Text), domain |-> Opt(in.Domain, Text),
          provenance |-> Opt(in.Provenance, Text),
          provenance_mode |-> Opt(in.ProvenanceMode, provenanceModeMap),
          disposition |-> Opt(in.Disposition, dispositionMap),
          effect |-> Opt(in.Effect, effectMap),
          chain |-> Opt(in.Chain, chainMap),
          model_attestation |-> modelAttestationMap(in),
          references |-> Opt(in.References, referencesMap)])

\* The members capsule_id derivation leaves out.
LocalOnly == {"capsule_id", "signature", "key_id"}

WrittenMembers ==
  {"spec_version", "format_version", "canonicalization_id", "capsule_id", "action_id",
   "action_type", "operator", "developer", "timestamp", "epoch_id", "domain",
   "provenance", "provenance_mode", "disposition", "effect", "chain", "assurance",
   "model_attestation", "references"}

\* Mutant: the local-only envelope fields are not reserved.
baseMembersProfile == WrittenMembers \cup {"cross_party", "constraints", "compliance"}

\* baseMembers: also the ones this library never writes.
baseMembers ==
  WrittenMembers
    \cup {"cross_party", "constraints", "compliance", "signature", "key_id"}

\* extensionValue against the payload so far, Nil for an error.  The value must be
\* there and pass checkExtensionNumbers.
extensionName(ext, payload) ==
  ext.Name \in ExtensionName \ baseMembers /\ ext.Name \notin Names(payload)
UsableValue(value) ==
  IF value # Nil /\ value # Leaf([lit |-> "null"]) /\ Canonical(value) THEN value ELSE Nil
extensionValue(ext, payload) ==
  IF extensionName(ext, payload) THEN UsableValue(decodeStrictJSON(ext.Value)) ELSE Nil

\* payload[name] = value
WithMember(payload, name, value) ==
  LET kept == {p \in DOMAIN payload : Head(p).key # name}
      new == {<<[key |-> name]>> \o p : p \in DOMAIN value}
  IN  [p \in kept \cup new |-> IF p \in kept THEN payload[p] ELSE value[Tail(p)]]

WithExtension(payload, name, value) ==
  IF value = Nil THEN Nil ELSE WithMember(payload, name, value)

\* The loop over input.Extensions; the first error ends it.
withExtensions(payload, exts) ==
  LET after[i \in 0..Len(exts)] ==
        IF i = 0 THEN payload
        ELSE IF after[i - 1] = Nil THEN Nil
        ELSE WithExtension(after[i - 1], exts[i].Name, extensionValue(exts[i], after[i - 1]))
  IN  after[Len(exts)]

\* Mutant: the text of a payload is not looked at.
validatePayloadTextNot(payload) == TRUE

\* validatePayloadText
validatePayloadText(payload) == ValidUtf8(payload)

\* canonical.ComputeCapsuleID and verify.Verify of the AAC library.
ComputeCapsuleID(payload) ==
  [capsule |-> [p \in {q \in DOMAIN payload : Head(q).key \notin LocalOnly} |-> payload[p]]]

IdPath == <<[key |-> "capsule_id"]>>

\* What stands in a member of an object of the payload, or of one of its references.
MemberOf(payload, object, name) == At(payload, <<[key |-> object], [key |-> name]>>)
ReferencePath(i, name) == <<[key |-> "references"], [index |-> i], [key |-> name]>>
ReferenceMember(payload, i, name) == At(payload, ReferencePath(i, name))

\* The paths at or below a path, and the positions of the references.
PathsUnder(payload, path) ==
  {p \in DOMAIN payload : Len(path) <= Len(p) /\ SubSeq(p, 1, Len(path)) = path}
ReferenceItems(payload) ==
  {p[2].index : p \in {q \in PathsUnder(payload, <<[key |-> "references"]>>) :
                         Len(q) > 2 /\ "index" \in DOMAIN q[2]}}

\* verdict_effect_conflict: what was never dispatched has no effect that started.
NeverDispatched ==
  {"blocked", "hitl_dispatched", "denied", "engine_failure", "deferred",
   "needs_decision", "expired", "escalated", "resolved"}
verdictAllowsEffect(payload) ==
  MemberOf(payload, "disposition", "verdict_class") \in {[text |-> v] : v \in NeverDispatched}
    => MemberOf(payload, "effect", "status") \in {Nil, [text |-> "planned"]}

\* reference_malformed, reference_duplicates_chain_parent and
\* reference_log_coordinates_malformed
referenceSound(payload, i) ==
  LET parent == MemberOf(payload, "chain", "parent_capsule_id")
      coordinates == ReferencePath(i, "log_coordinates")
  IN  /\ ReferenceMember(payload, i, "type") \notin {Nil, [text |-> Nil]}
      /\ parent # Nil => ReferenceMember(payload, i, "digest") # parent
      /\ PathsUnder(payload, coordinates) # {} =>
           \A name \in {"log_id", "leaf_index", "inclusion_proof"} :
             PathsUnder(payload, Append(coordinates, [key |-> name])) # {}

\* Check 9 on a backfilled capsule: provenance_mode_missing_required_field,
\* provenance_time_laundering_shape and provenance_time_rung_overclaim.
provenanceSound(payload) ==
  LET mode(name) == MemberOf(payload, "provenance_mode", name)
      source == <<[key |-> "provenance_mode"], [key |-> "source_ref"]>>
  IN  mode("mode") = [text |-> "backfilled"] =>
        /\ PathsUnder(payload, source) # {}
        /\ Nil \notin {mode("source_asserted_at"), mode("import_batch"), mode("imported_at")}
        /\ mode("imported_at") # mode("source_asserted_at")
        /\ mode("time_rung") = [text |-> "witnessed"] =>
             \E i \in ReferenceItems(payload) :
               ReferenceMember(payload, i, "citation_purpose")
                 = [text |-> "corroborates_source_time"]

\* verify.Verify is external; these are the findings that the tests show to refuse
\* a payload (build_test.go:206-262, references_test.go:91-113, and
\* provenance_mode_test.go:163-283 with its vectors).
verifyClass1(payload) ==
  /\ Canonical(payload)
  /\ At(payload, IdPath) = [digest |-> ComputeCapsuleID(payload)]
  /\ verdictAllowsEffect(payload)
  /\ \A i \in ReferenceItems(payload) : referenceSound(payload, i)
  /\ provenanceSound(payload)

\* The payload under its id: what Build returns if it passes the last checks.
Identified(payload, id) ==
  [CapsuleID |-> id, JSON |-> WithMember(payload, "capsule_id", Digest(id))]

Checked(payload, b) ==
  IF /\ payload # Nil /\ validatePayloadText(payload)
     /\ Canonical(payload) /\ verifyClass1(b.JSON)
  THEN b ELSE Nil

Completed(payload) == Checked(payload, Identified(payload, ComputeCapsuleID(payload)))

\* Build: the id and the JSON, Nil for an error.
Build(in) ==
  IF validateInput(in) /\ coordinatesOk(in.References)
  THEN Completed(withExtensions(basePayload(in), in.Extensions)) ELSE Nil

-----------------------------------------------------------------------------
\* DecodePayload of a payload's JSON; Nil is no JSON at all.
DecodePayload(json) ==
  IF json # Nil /\ ValidUtf8(json) /\ DepthOk(json)
  THEN [p \in DOMAIN json |-> Scalar(json[p])] ELSE Nil

\* VerifyCapsule: the id it recomputes, Nil for an error.
VerifiedId(payload) ==
  IF /\ payload # Nil
     /\ At(payload, <<[key |-> "format_version"]>>) = [text |-> "4"]
     /\ At(payload, <<[key |-> "canonicalization_id"]>>) = [text |-> "jcs"]
     /\ verifyClass1(payload)
  THEN ComputeCapsuleID(payload) ELSE Nil

VerifyCapsule(json) == VerifiedId(DecodePayload(json))
=============================================================================
