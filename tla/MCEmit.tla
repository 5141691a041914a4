------------------------------- MODULE MCEmit -------------------------------
(***************************************************************************)
(* Inputs that vary one part of a plain capsule at a time, with a valid, a *)
(* missing and a malformed value of each field, and pairs of them that     *)
(* could be mistaken for each other.                                       *)
(***************************************************************************)
EXTENDS Builder

Delims == {[delim |-> d] : d \in {"{", "}", "[", "]"}}
Txt(s) == [text |-> s]
MCTokens == Delims \cup {Txt("a"), Txt("b"), [num |-> "-0"]}

MCMaxTokens == [n \in {0, 5} |-> IF n = 0 THEN 4 ELSE 2]

Hex == [jcs |-> <<>>]
Other == [raw |-> "entry"]
Bad == [bad |-> "digest"]

Plain ==
  [ActionID |-> "a1", ActionType |-> "fyi", Operator |-> "op", Developer |-> "dev",
   Timestamp |-> [nanos |-> 5000, zone |-> "utc"], EpochID |-> Nil, Domain |-> Nil,
   Provenance |-> Nil, Disposition |-> Nil, Effect |-> Nil, Chain |-> Nil,
   References |-> Nil, Model |-> Nil, Compute |-> Nil, compute |-> Nil,
   ProvenanceMode |-> Nil, Extensions |-> <<>>]

Texts ==
  {[Plain EXCEPT !.ActionID = s] : s \in {Nil, Blank, "a2", "bad"}}
    \cup {[Plain EXCEPT !.Operator = s] : s \in {Blank, "dev"}}
    \cup {[Plain EXCEPT !.EpochID = s] : s \in {Blank, "e1"}}
    \cup {[Plain EXCEPT !.Domain = "action"], [Plain EXCEPT !.Provenance = "gate"],
          [Plain EXCEPT !.Developer = Nil], [Plain EXCEPT !.ActionType = "act"],
          [Plain EXCEPT !.ActionType = "decide"]}

Times ==
  {[Plain EXCEPT !.Timestamp = t] :
     t \in {Nil, [nanos |-> 5999, zone |-> "cet"], [nanos |-> 6000, zone |-> "utc"]}}

Dispositions ==
  {[Plain EXCEPT !.ActionType = "decide",
                 !.Disposition = [Decision |-> d, Approver |-> a, HumanDisposed |-> h,
                                  VerdictClass |-> Nil, ReasonDigest |-> r]] :
     d \in {Nil, "accept"}, a \in {"human", "policy", "nobody"}, h \in BOOLEAN,
     r \in {Nil, Hex, Bad}}

Effects ==
  {[Plain EXCEPT !.Effect = [Type |-> "write_order", Status |-> s,
                             IrreversibilityClass |-> "two_way",
                             EffectAttestation |-> a, RequestDigest |-> q,
                             ResponseDigest |-> p, ExternalRef |-> Nil]] :
     s \in {"planned", "dispatched", "confirmed", "failed", "lost"},
     a \in {Nil, "gate_executed"}, q \in {Nil, Hex}, p \in {Nil, Hex, Bad}}

Chains ==
  {[Plain EXCEPT !.EpochID = e,
                 !.Chain = [ParentCapsuleID |-> p, Relation |-> r]] :
     e \in {Nil, "e1"}, p \in {Bad, Hex}, r \in {Nil, "confirms", "epoch_opens"}}

Attestations ==
  {[Plain EXCEPT !.Model = m, !.Compute = c] :
     m \in {Nil} \cup [Provider : {Nil, Blank, "p"}, ModelID : {Nil, "p"}],
     c \in {Nil} \cup [AgentInputDigest : {Nil, Hex, Bad}, AgentOutputDigest : {Nil, Hex},
                       Runtime : {Nil, Blank, "rt"}]}

Ref(t, digest, purpose, coordinates) ==
  [Type |-> t, DigestAlg |-> "SHA-256", Digest |-> digest, CitationPurpose |-> purpose,
   LogCoordinates |-> coordinates]

Cites(refs) == [Plain EXCEPT !.References = refs]
Zero(n) == <<[delim |-> "{"], Txt("a"), [num |-> n], [delim |-> "}"]>>

Pair(key, value) == <<Txt(key)>> \o value
LogId == Pair("log_id", <<Txt("log")>>)
LeafIndex(n) == Pair("leaf_index", <<[num |-> n]>>)
Proof(value) == Pair("inclusion_proof", value)
Opaque == Proof(<<Txt("proof")>>)
Nested == Proof(Brackets(3) \o <<Txt("a")>> \o [i \in 1..3 |-> [delim |-> "]"]])

\* Coordinates are a map, whose members may be marshalled in any order.
CitesAt(members) ==
  Cites(<<Ref("t", Hex, Nil, <<[delim |-> "{"]>> \o members \o <<[delim |-> "}"]>>)>>)

Citing ==
  {Cites(<<>>), Cites(<<Ref(Nil, Hex, Nil, Nil)>>), Cites(<<Ref("t", Hex, Nil, Nil)>>),
   Cites(<<Ref("t", Hex, "acted_on", Nil)>>),
   Cites(<<Ref("t", Hex, Nil, Nil), Ref(Nil, Hex, Nil, Nil)>>)}
    \cup {CitesAt(LogId \o LeafIndex(n) \o Opaque) : n \in {"0", "-0", "1.5"}}
    \cup {CitesAt(LogId \o LeafIndex("0") \o p) : p \in {<<>>, Nested, Proof(<<Txt("bad")>>)}}
    \cup {CitesAt(Opaque \o LogId \o LeafIndex("0"))}
    \cup {[Cites(<<Ref("agent-action-capsule", d, "responds_to", Nil)>>) EXCEPT
             !.Chain = [ParentCapsuleID |-> Hex, Relation |-> "confirms"]] :
            d \in {Hex, Other}}

\* What was never dispatched has no effect that started.
Verdicts ==
  {[Plain EXCEPT
      !.ActionType = "decide",
      !.Disposition = [Decision |-> "reject", Approver |-> "policy",
                       HumanDisposed |-> FALSE, VerdictClass |-> v, ReasonDigest |-> Nil],
      !.Effect = [Type |-> "write_order", Status |-> s, IrreversibilityClass |-> "two_way",
                  EffectAttestation |-> IF s = "planned" THEN Nil ELSE "gate_executed",
                  RequestDigest |-> Nil,
                  ResponseDigest |-> IF s = "confirmed" THEN Hex ELSE Nil,
                  ExternalRef |-> Nil]] :
     v \in {"executed", "denied", "resolved"},
     s \in {"planned", "dispatched", "confirmed", "failed"}}

Mode(m, ref, asserted, imported, rung) ==
  [Mode |-> m, SourceRef |-> ref, SourceAssertedAt |-> asserted, ImportBatch |-> asserted,
   ImportedAt |-> imported, TimeRung |-> rung]
Source(digest) == Ref("t", digest, Nil, Nil)

Modes ==
  {[Plain EXCEPT !.ProvenanceMode = Mode(m, r, s, "t", g)] :
     m \in {"contemporaneous", "backfilled", "other"}, s \in {Blank, "t", "t1"},
     r \in {Nil, Source(Hex), Source([bad |-> Blank]), Ref("t", Hex, "acted_on", Nil)},
     g \in {Nil, "witnessed", "other"}}
    \cup {[Plain EXCEPT !.ProvenanceMode = Mode("backfilled", Source(Hex), "t1", "t", g),
                        !.References = <<Ref("t", Other, c, Nil)>>] :
            g \in {"self_attested", "witnessed"},
            c \in {Nil, "acted_on", "corroborates_source_time"}}
    \cup {[Plain EXCEPT !.ProvenanceMode = Mode("contemporaneous", Nil, Nil, Nil, Nil)]}

Extended(name, value) ==
  [Plain EXCEPT !.Extensions = <<[Name |-> name, Value |-> value]>>]
Two(n, m) ==
  [Plain EXCEPT !.Extensions = <<[Name |-> n, Value |-> Zero("0")],
                                 [Name |-> m, Value |-> <<Txt("a")>>]>>]

Extending ==
  {Extended(n, <<Txt("action")>>) :
     n \in {"x", "X", "domain", "epoch_id", "signature", "key_id", "capsule_id"}}
    \cup {Extended("x", v) : v \in {<<>>, <<[lit |-> "null"]>>, <<Txt("bad")>>,
                                    Zero("-0"), Zero("1.5")}}
    \cup {Two("x", "y"), Two("y", "x"), Two("x", "x"),
          [Two("x", "y") EXCEPT !.Extensions = <<@[2], @[1]>>]}

MCInputs ==
  {Plain} \cup Texts \cup Times \cup Dispositions \cup Effects \cup Chains
    \cup Attestations \cup Citing \cup Verdicts \cup Modes \cup Extending

MCHoles == {Extended("x", Hole), Extended("signature", Hole)}
=============================================================================
