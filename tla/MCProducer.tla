----------------------------- MODULE MCProducer -----------------------------
(***************************************************************************)
(* A few inputs and originals: one plain input and one with digests of its *)
(* own, JSON null, negative zero, a float, and the nils of Go.             *)
(***************************************************************************)
EXTENDS Producer, TLC

Plain ==
  [ActionID |-> "a1", ActionType |-> "fyi", Operator |-> "op", Developer |-> "dev",
   Timestamp |-> [nanos |-> 5000, zone |-> "utc"], EpochID |-> Nil, Domain |-> Nil,
   Provenance |-> Nil, Disposition |-> Nil, Effect |-> Nil, Chain |-> Nil,
   References |-> Nil, Model |-> Nil, Compute |-> Nil, compute |-> Nil,
   ProvenanceMode |-> Nil, Extensions |-> <<>>]

Authored == [NoCompute EXCEPT !.AgentInputDigest = [jcs |-> <<>>]]

MCInputs == {Plain, [Plain EXCEPT !.ActionID = "a2", !.Compute = Authored]}

MCOtherIds == {[raw |-> "other"]}

MCForeign == {[bytes |-> b, type |-> t] : b \in {Nil, "cert"}, t \in {Blank, "foreign-artifact"}}

Go(kind, nil, json) == [kind |-> kind, nil |-> nil, json |-> json]
Obj(n) == <<[delim |-> "{"], [text |-> "a"], [num |-> n], [delim |-> "}"]>>

SealOf(in, payload, output, runtime) ==
  [Capsule |-> in, Payload |-> payload, AgentOutput |-> output, Model |-> Nil,
   Runtime |-> runtime]

NilMap == Go("map", TRUE, <<[delim |-> "{"], [delim |-> "}"]>>)
Null == Go("slice", FALSE, <<[lit |-> "null"]>>)
Struct(n) == Go("struct", FALSE, Obj(n))

MCSealInputs ==
  {SealOf(Plain, NilMap, Null, Nil), SealOf(Plain, Struct("-0"), Struct("0"), Nil),
   SealOf(Plain, NilMap, Nil, "rt"), SealOf(Plain, Struct("1.5"), Nil, Nil),
   SealOf([Plain EXCEPT !.Compute = Authored], Nil, Nil, Nil)}

MCKeySymmetry == Permutations(Keys)
=============================================================================
