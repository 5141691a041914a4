---------------------------- MODULE ArtifactStore ----------------------------
(***************************************************************************)
(* What every artifact backend promises, whatever it keeps its records in  *)
(* (artifact/README.md, "Lifecycle and operations", read off the Put and   *)
(* Purge methods of the backends): under an id there is nothing or exactly *)
(* one record; once admitted, the one thing that can happen to it is that  *)
(* every original it has is replaced by a tombstone, all at once; and what *)
(* has been erased does not return.                                        *)
(***************************************************************************)
EXTENDS Artifact

CONSTANTS
  Id,          \* the capsule ids
  Admissible   \* per id, the records that Put may store

VARIABLE stored   \* [Id -> record or Nil]

Init == stored = [id \in Id |-> Nil]

\* Put of a record under an id that has none.
Admit(id) == stored[id] = Nil /\ stored'[id] \in Admissible[id]

\* Purge.
Erase(id) == stored[id] # Nil /\ stored'[id] = Tombstoned(stored[id])

\* One step may be the commit of a transaction with several Puts in it.
Next ==
  /\ stored' = [id \in Id |-> stored'[id]]
  /\ \A id \in Id : Admit(id) \/ Erase(id) \/ stored'[id] = stored[id]

Spec == Init /\ [][Next]_stored

-----------------------------------------------------------------------------
\* What the contract means for a reader: the checksum of a stored record is
\* the same for ever, and its originals only ever all disappear together.
Immutable ==
  [][\A id \in Id : stored[id] # Nil =>
       /\ stored'[id] # Nil
       /\ StorageChecksum(stored'[id]) = StorageChecksum(stored[id])
       /\ Originals(stored'[id]) \in {Originals(stored[id]), {}}]_stored
=============================================================================
