------------------------------- MODULE MCMysql -------------------------------
(***************************************************************************)
(* Small instances of MysqlStore.                                          *)
(***************************************************************************)
EXTENDS MysqlStore, TLC

CONSTANTS t1, t2

MCContent == {"", "x", "X", "t"}
MCJsonDigest == ("" :> Nil) @@ ("x" :> "dx") @@ ("X" :> "dx") @@ ("t" :> Nil)
MCContentSize == ("" :> 0) @@ ("x" :> 1) @@ ("X" :> 1) @@ ("t" :> 1)

MCRecord(id, key, artifacts) ==
  [id |-> id,
   capsule |-> [ok |-> TRUE, id |-> id, size |-> 1,
                digest |-> [f \in DigestField |-> IF f = "payload" THEN "dx" ELSE Nil]],
   envelope |-> [ok |-> TRUE, over |-> id, key |-> key, size |-> 1],
   artifacts |-> artifacts]

Payload(c) == [name |-> "payload", binding |-> "payload", content |-> c,
               state |-> Present, sha |-> Nil]
Attachment(c) == [name |-> "note", binding |-> Nil, content |-> c,
                  state |-> Present, sha |-> Nil]

\* Two artifacts, so that a transaction can fail between their INSERTs.
A1 == MCRecord("a", "k1", <<Attachment(""), Payload("x")>>)
\* Other bytes with the same canonical JSON: a conflict with A1.
A2 == MCRecord("a", "k1", <<Payload("X")>>)
B1 == MCRecord("b", "k1", <<Payload("x")>>)

\* The capsule of A2 with the envelope of another signer.
A3 == MCRecord("a", "k2", <<Payload("X")>>)

ThreeRecords == {A1, A2, B1}
TwoSigners == {A1, A3}

SameTrust == [t \in Threads |-> {"k1"}]
MoreTrust == [t \in Threads |-> IF t = t1 THEN {"k1"} ELSE {"k1", "k2"}]
ThreadSymmetry == Permutations({t1, t2})
=============================================================================
