------------------------------ MODULE MCSqlite ------------------------------
(***************************************************************************)
(* Small instances of SqliteStore: two processes with a thread each, or    *)
(* two threads of one process and a third in another.                      *)
(***************************************************************************)
EXTENDS SqliteStore, TLC

CONSTANTS t1, t2, t3

MCContent == {"", "x", "X", "t"}
MCJsonDigest == ("" :> Nil) @@ ("x" :> "dx") @@ ("X" :> "dx") @@ ("t" :> Nil)
MCContentSize == ("" :> 0) @@ ("x" :> 1) @@ ("X" :> 1) @@ ("t" :> 1)

MCRecord(id, artifacts) ==
  [id |-> id,
   capsule |-> [ok |-> TRUE, id |-> id, size |-> 1,
                digest |-> [f \in DigestField |-> IF f = "payload" THEN "dx" ELSE Nil]],
   envelope |-> [ok |-> TRUE, over |-> id, key |-> "k1", size |-> 1],
   artifacts |-> artifacts]

Original(name, binding, c) ==
  [name |-> name, binding |-> binding, content |-> c, state |-> Present, sha |-> Nil]

\* Two originals, so that an INSERT can fail between them.
A1 == MCRecord("a", <<Original("note", Nil, "t"), Original("payload", "payload", "x")>>)
\* Other bytes with the same canonical JSON: a conflict with A1.
A2 == MCRecord("a", <<Original("payload", "payload", "X")>>)
B1 == MCRecord("b", <<Original("payload", "payload", "x")>>)
\* An original that is not the capsule's: refused by Verify.
A3 == MCRecord("a", <<Original("payload", "payload", "t")>>)

FourRecords == {A1, A2, A3, B1}
OneRecord == {A2}

OwnProcess == [t \in Threads |-> t]
TwoProcesses == [t \in Threads |-> IF t = t3 THEN "q" ELSE "p"]
ThreadSymmetry == Permutations({t1, t3})
=============================================================================
