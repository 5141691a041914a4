------------------------------- MODULE MCJsonl -------------------------------
(***************************************************************************)
(* Small instances of JsonlStore: three ids, one of them malformed, and a  *)
(* handful of records that differ in what the store tells apart.           *)
(***************************************************************************)
EXTENDS JsonlStore, TLC

CONSTANTS w1, w2, rd

\* "x" and "X" are different bytes with the same canonical JSON; "t" is text.
MCContent == {"", "x", "X", "y", "t"}
MCJsonDigest == ("" :> Nil) @@ ("x" :> "dx") @@ ("X" :> "dx") @@ ("y" :> "dy")
                  @@ ("t" :> Nil)
MCContentSize == ("" :> 0) @@ ("x" :> 1) @@ ("X" :> 1) @@ ("y" :> 1) @@ ("t" :> 1)

MCCapsule(id) ==
  [ok |-> TRUE, id |-> id, size |-> 1,
   digest |-> [f \in DigestField |-> IF f = "payload" THEN "dx" ELSE Nil]]
MCEnvelope(id, key) == [ok |-> TRUE, over |-> id, key |-> key, size |-> 1]
MCRecord(id, key, artifacts) ==
  [id |-> id, capsule |-> MCCapsule(id), envelope |-> MCEnvelope(id, key),
   artifacts |-> artifacts]
MCArtifact(name, binding, content, state) ==
  [name |-> name, binding |-> binding, content |-> content, state |-> state,
   sha |-> Nil]

Payload(c) == MCArtifact("payload", "payload", c, Present)
Attachment(c) == MCArtifact("note", Nil, c, Present)

A1 == MCRecord("a", "k1", <<Payload("x")>>)
A2 == MCRecord("a", "k1", <<Payload("X")>>)
A3 == MCRecord("a", "k2", <<Payload("x")>>)
B1 == MCRecord("b", "k1", <<Attachment("t"), Payload("x")>>)
B3 == MCRecord("b", "k1", <<Attachment("")>>)
\* A digest that is not the capsule's: refused before the mutex.
B4 == MCRecord("b", "k1", <<Payload("y")>>)

ConflictingRecords == {A1, A2, B1}
MixedRecords == {A1, A3, B1, B4}
EmptyRecords == {A1, B3}

OneKey == {{"k1"}}
EitherKey == {{"k1"}, {"k2"}}
TrustChoices == {{}, {"k1"}, {"k1", "k2"}}
=============================================================================
