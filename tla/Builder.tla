------------------------------- MODULE Builder ------------------------------
(***************************************************************************)
(* A caller of Build (src/build.go): it has some JSON text, read here      *)
(* token by token, and builds a capsule from an Input that carries the     *)
(* text as the value of an extension or as the coordinates of a reference, *)
(* or from an Input that carries none.                                     *)
(***************************************************************************)
EXTENDS JsonReader, Capsule

CONSTANTS
  Inputs,   \* the inputs that carry no text of the caller's
  Holes     \* inputs with Hole where the text goes
CONSTANT Hole

\* A Go struct has all its fields; a pointer to one may be nil.
IsStruct(x, fields) == x = [f \in fields |-> x[f]]
IsPointer(x, fields) == x = Nil \/ IsStruct(x, fields)

IsReference(ref) ==
  IsStruct(ref, {"Type", "DigestAlg", "Digest", "CitationPurpose", "LogCoordinates"})

IsProvenanceMode(m) ==
  /\ IsStruct(m, {"Mode", "SourceRef", "SourceAssertedAt", "ImportBatch", "ImportedAt",
                  "TimeRung"})
  /\ m.SourceRef = Nil \/ IsReference(m.SourceRef)

IsDisposition(d) ==
  /\ IsStruct(d, {"Decision", "Approver", "HumanDisposed", "VerdictClass", "ReasonDigest"})
  /\ d.HumanDisposed \in BOOLEAN

\* JSON the caller has is in tokens.
IsJSON(x, others) == x \in others \/ \A i \in DOMAIN x : IsToken(x[i])

InputFields ==
  {"ActionID", "ActionType", "Operator", "Developer", "Timestamp", "EpochID", "Domain",
   "Provenance", "Disposition", "Effect", "Chain", "References", "Model", "Compute",
   "compute", "ProvenanceMode", "Extensions"}

\* An Input as a caller can write it: the binding is not exported.
IsWritten(in, others) ==
  /\ IsStruct(in, InputFields)
  /\ in.compute = Nil
  /\ in.Timestamp # Nil => in.Timestamp.nanos \in Int
  /\ in.Disposition # Nil => IsDisposition(in.Disposition)
  /\ IsPointer(in.Effect, {"Type", "Status", "IrreversibilityClass", "EffectAttestation",
                           "RequestDigest", "ResponseDigest", "ExternalRef"})
  /\ IsPointer(in.Chain, {"ParentCapsuleID", "Relation"})
  /\ IsPointer(in.Model, {"Provider", "ModelID"})
  /\ IsPointer(in.Compute, {"AgentInputDigest", "AgentOutputDigest", "Runtime"})
  /\ in.ProvenanceMode # Nil => IsProvenanceMode(in.ProvenanceMode)
  /\ in.References # Nil =>
       \A i \in DOMAIN in.References :
         /\ IsReference(in.References[i])
         /\ IsJSON(in.References[i].LogCoordinates, others \cup {Nil})
  /\ \A i \in DOMAIN in.Extensions :
       /\ IsStruct(in.Extensions[i], {"Name", "Value"})
       /\ IsJSON(in.Extensions[i].Value, others)

ASSUME InputAssumption ==
  /\ \A in \in Inputs : IsInput(in, {}) /\ IsWritten(in, {})
  /\ \A in \in Holes : IsInput(in, {Hole}) /\ IsWritten(in, {Hole})

VARIABLE built   \* Nil, or what Build returned and the input it was given

emitVars == <<toks, dec, result, built>>

-----------------------------------------------------------------------------
\* The input with the caller's text in its hole.
Filled(in, text) ==
  LET refs == in.References
      fill(x) == IF x = Hole THEN text ELSE x
  IN  [in EXCEPT
         !.Extensions = [i \in DOMAIN in.Extensions |->
                           [in.Extensions[i] EXCEPT !.Value = fill(@)]],
         !.References = IF refs = Nil THEN Nil
                        ELSE [i \in DOMAIN refs |->
                                [refs[i] EXCEPT !.LogCoordinates = fill(@)]]]

Kept(in, b) == b # Nil /\ built' = [input |-> in, CapsuleID |-> b.CapsuleID, JSON |-> b.JSON]

Returned(in) == built = Nil /\ Kept(in, Build(in)) /\ UNCHANGED vars

\* Build of an input that carries the text; text that is no JSON included.
BuildWithText == result # "none" /\ \E in \in Holes : Returned(Filled(in, toks))

\* Build of an input without text: whatever was read makes no difference.
BuildPlain == toks = <<>> /\ result = "none" /\ \E in \in Inputs : Returned(in)

BuilderInit == Init /\ built = Nil

BuilderNext ==
  \/ ReadToken /\ built = Nil /\ UNCHANGED built
  \/ ReadEnd /\ built = Nil /\ UNCHANGED built
  \/ BuildWithText
  \/ BuildPlain

BuilderSpec == BuilderInit /\ [][BuilderNext]_emitVars

-----------------------------------------------------------------------------
\* What an input says: its instant to the microsecond, the values of its JSON
\* texts, and its extensions whatever their order.
Says(in) ==
  LET refs == in.References
      coordinates(x) == IF x = Nil THEN Nil ELSE Meaning(x)
  IN  [in EXCEPT
         !.Timestamp = @.nanos \div 1000,
         !.Extensions = {[name |-> in.Extensions[i].Name,
                          value |-> Meaning(in.Extensions[i].Value)] :
                            i \in DOMAIN in.Extensions},
         !.References = IF refs = Nil THEN Nil
                        ELSE [i \in DOMAIN refs |->
                                [refs[i] EXCEPT !.LogCoordinates = coordinates(@)]]]

\* What Build makes of each input without text.
Catalogue == {[id |-> Build(in).CapsuleID, says |-> Says(in)] :
                in \in {i \in Inputs : Build(i) # Nil}}

(***************************************************************************)
(* The capsule id commits to the input and to nothing but what it says:    *)
(* two inputs that Build accepts have one id exactly when they say the     *)
(* same (build.go:22-113).  An extension cannot pass for a member of the   *)
(* base profile or hide among the members the id leaves out                *)
(* (extension.go:13-24), an empty struct is not taken for an absent one,   *)
(* and neither the time zone nor the order of extensions matters.          *)
(***************************************************************************)
IdCommitsInput ==
  built # Nil =>
    LET says == Says(built.input)
    IN  \A c \in Catalogue : (c.id = built.CapsuleID) <=> (c.says = says)

(***************************************************************************)
(* "Every Build result continues to pass the current AAC Class 1 verifier" *)
(* (README.md:135-137): VerifyCapsule accepts what Build returned, under   *)
(* the id Build returned with it.                                          *)
(***************************************************************************)
BuiltVerifies == built # Nil => VerifyCapsule(built.JSON) = built.CapsuleID

(***************************************************************************)
(* What holds of it: a Build result that is within the depth limit as a    *)
(* whole verifies as itself, whatever the caller's texts and extensions.   *)
(* Build ran the same verifier on the payload before it was encoded        *)
(* (build.go:98-112); an extension or a coordinate has been checked for    *)
(* depth as a text of its own (extension.go:41, digest.go:35), and         *)
(* DecodePayload checks the payload (build.go:530).                        *)
(***************************************************************************)
ShallowVerifies ==
  built # Nil /\ DepthOk(built.JSON) => VerifyCapsule(built.JSON) = built.CapsuleID

\* A member of the assurance, effect or chain object of the built payload.
Member(object, name) == MemberOf(built.JSON, object, name)

(***************************************************************************)
(* The assurance a capsule claims is backed by the rest of its payload,    *)
(* whatever the caller and its extensions say (build.go:477-494): a        *)
(* confirmed effect has a response digest and names who vouches for it, an *)
(* effect that has not started claims nothing, a verdict under which       *)
(* nothing was dispatched goes with no effect that started                 *)
(* (build_test.go:235-255), and a chained capsule names its parent.        *)
(***************************************************************************)
AssuranceBacked ==
  built # Nil =>
    /\ Member("assurance", "effect_mode") = [text |-> "confirmed"]
         => /\ Member("effect", "response_digest") # Nil
            /\ Member("effect", "effect_attestation") # Nil
    /\ Member("assurance", "effect_mode") = [text |-> "not_applicable"]
         <=> Member("effect", "effect_attestation") = Nil
    /\ Member("disposition", "verdict_class") \in {[text |-> v] : v \in NeverDispatched}
         => Member("assurance", "effect_mode") = [text |-> "not_applicable"]
    /\ Member("assurance", "ledger_mode") = [text |-> "chained"]
         <=> Member("chain", "parent_capsule_id") # Nil
=============================================================================
