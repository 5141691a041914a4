--------------------------- MODULE ProducerProofs ---------------------------
(***************************************************************************)
(* Proofs about Producer, for any inputs, keys, slots and bounds: the      *)
(* library's copies and its envelopes do not depend on what the key        *)
(* manager and the application do.                                         *)
(***************************************************************************)
EXTENDS Producer, CapsuleProofs

-----------------------------------------------------------------------------
\* The inductive invariant.  Slices are told apart by whom they were made for.
SessionSeqs == (\E S : held \in Seq(S)) /\ (\E S : members \in Seq(S))

\* The identity's key has a slice of its own.
IdentityKept ==
  identity # Nil =>
    /\ identity.publicKey = IdentityKey
    /\ IdentityKey \in DOMAIN heap
    /\ heap[IdentityKey] = identity.registered

\* So has every slot member.
MembersKept ==
  \A i \in DOMAIN members :
    /\ members[i].json = MemberJson(i)
    /\ MemberJson(i) \in DOMAIN heap
    /\ members[i].sound => VerifyCapsule(heap[MemberJson(i)]) = members[i].capsuleID

\* What a capsule's slice holds verifies as something Build issued, or not at all.
HeldIssued ==
  \A i \in DOMAIN held :
    /\ {"CapsuleID", "JSON", "Envelope", "issued"} \subseteq DOMAIN held[i]
    /\ held[i].JSON = HeldJson(i)
    /\ HeldJson(i) \in DOMAIN heap
    /\ VerifyCapsule(heap[HeldJson(i)]) \in Issued \cup {Nil}

\* A Sign or Seal that waits checked the capsule and copied the identity's key.
CallChecked ==
  call # Nil =>
    /\ {"op", "built", "kid", "sig", "binds", "originals"} \subseteq DOMAIN call
    /\ identity # Nil
    /\ call.kid = identity.registered
    /\ VerifyCapsule(call.built.JSON) = call.built.CapsuleID
    /\ call.op # "seal" => call.built.CapsuleID \in Issued

Good(env, key, ids) == env.kid = key /\ env.sig = env.kid /\ env.over \in ids

EnvelopesGood ==
  /\ \A env \in envelopes : identity # Nil /\ Good(env, identity.registered, Issued)
  /\ \A i \in DOMAIN held :
       held[i].Envelope # Nil =>
         identity # Nil /\ Good(held[i].Envelope, identity.registered, Issued)

SessionInv ==
  SessionSeqs /\ IdentityKept /\ MembersKept /\ HeldIssued /\ CallChecked /\ EnvelopesGood

-----------------------------------------------------------------------------
\* Slices made for different purposes are different slices.
LEMMA AddressesDiffer ==
  ASSUME NEW i, NEW j
  PROVE  /\ HeldJson(i) # MemberJson(j)
         /\ HeldJson(i) # IdentityKey /\ HeldJson(i) # CallerKey
         /\ MemberJson(i) # IdentityKey /\ MemberJson(i) # CallerKey
         /\ IdentityKey # CallerKey
         /\ HeldJson(i) = HeldJson(j) => i = j
         /\ MemberJson(i) = MemberJson(j) => i = j
BY DEF HeldJson, MemberJson, IdentityKey, CallerKey

\* Writing one slice leaves the others.
LEMMA WriteReads ==
  ASSUME NEW address, NEW content, heap' = Write(address, content)
  PROVE  /\ DOMAIN heap' = DOMAIN heap \cup {address}
         /\ heap'[address] = content
         /\ \A a \in DOMAIN heap : a # address => heap'[a] = heap[a]
BY DEF Write, WithLeaf

\* Append adds its element at the end and keeps the rest.
LEMMA Appended ==
  ASSUME NEW S, NEW s \in Seq(S), NEW e
  PROVE  /\ \E T : Append(s, e) \in Seq(T)
         /\ DOMAIN s = 1..Len(s) /\ Len(s) \in Nat
         /\ DOMAIN Append(s, e) = 1..(Len(s) + 1)
         /\ Append(s, e)[Len(s) + 1] = e
         /\ \A i \in DOMAIN s : Append(s, e)[i] = s[i]
<1>1. s \in Seq(S \cup {e}) /\ e \in S \cup {e}
  OBVIOUS
<1>2. Append(s, e) \in Seq(S \cup {e})
  BY <1>1
<1> QED
  BY <1>1, <1>2

\* The application holds one capsule more, and its slice is a new one.
LEMMA OneHeld ==
  ASSUME SessionSeqs, NEW b, NEW binds, NEW originals, NEW env,
         Holds(b, binds, originals, env)
  PROVE  LET n == Len(held) + 1
             new == [CapsuleID |-> b.CapsuleID, JSON |-> HeldJson(n), Envelope |-> env,
                     issued |-> b.CapsuleID, binds |-> binds, originals |-> originals]
         IN  /\ \E T : held' \in Seq(T)
             /\ DOMAIN held = 1..Len(held) /\ Len(held) \in Nat
             /\ n \notin DOMAIN held /\ DOMAIN held' = DOMAIN held \cup {n}
             /\ held'[n] = new
             /\ \A i \in DOMAIN held : held'[i] = held[i]
             /\ DOMAIN heap' = DOMAIN heap \cup {HeldJson(n)}
             /\ heap'[HeldJson(n)] = b.JSON
             /\ \A a \in DOMAIN heap : a # HeldJson(n) => heap'[a] = heap[a]
             /\ Issued' = Issued \cup {b.CapsuleID}
<1> DEFINE n == Len(held) + 1
           new == [CapsuleID |-> b.CapsuleID, JSON |-> HeldJson(n), Envelope |-> env,
                   issued |-> b.CapsuleID, binds |-> binds, originals |-> originals]
<1>1. heap' = Write(HeldJson(n), b.JSON) /\ held' = Append(held, new)
  BY DEF Holds
<1>2. PICK S : held \in Seq(S)
  BY DEF SessionSeqs
<1>3. /\ \E T : held' \in Seq(T)
      /\ DOMAIN held = 1..Len(held) /\ Len(held) \in Nat
      /\ DOMAIN held' = 1..n
      /\ held'[n] = new
      /\ \A i \in DOMAIN held : held'[i] = held[i]
  <2> HIDE DEF new
  <2>1. /\ \E T : Append(held, new) \in Seq(T)
        /\ DOMAIN held = 1..Len(held) /\ Len(held) \in Nat
        /\ DOMAIN Append(held, new) = 1..(Len(held) + 1)
        /\ Append(held, new)[Len(held) + 1] = new
        /\ \A i \in DOMAIN held : Append(held, new)[i] = held[i]
    BY <1>2, Appended, ZenonT(60)
  <2> QED
    BY <1>1, <2>1
<1>4. n \notin DOMAIN held /\ DOMAIN held' = DOMAIN held \cup {n}
  BY <1>3
<1>5. /\ DOMAIN heap' = DOMAIN heap \cup {HeldJson(n)}
      /\ heap'[HeldJson(n)] = b.JSON
      /\ \A a \in DOMAIN heap : a # HeldJson(n) => heap'[a] = heap[a]
  BY <1>1, WriteReads
<1>6. Issued' = Issued \cup {b.CapsuleID}
  BY <1>3, <1>4 DEF Issued
<1> QED
  BY <1>3, <1>4, <1>5, <1>6

\* The application receives a capsule: Build's, or the one Seal waits with.
LEMMA HoldsKeeps ==
  ASSUME SessionInv, NEW b, NEW binds, NEW originals, NEW env,
         Holds(b, binds, originals, env),
         VerifyCapsule(b.JSON) \in {b.CapsuleID, Nil},
         env # Nil => /\ identity # Nil
                      /\ env.kid = identity.registered /\ env.sig = env.kid
                      /\ env.over = b.CapsuleID,
         UNCHANGED <<members, identity, envelopes>>,
         call' \in {call, Nil}
  PROVE  SessionInv'
<1> DEFINE n == Len(held) + 1
           new == [CapsuleID |-> b.CapsuleID, JSON |-> HeldJson(n), Envelope |-> env,
                   issued |-> b.CapsuleID, binds |-> binds, originals |-> originals]
<1>1. SessionSeqs
  BY DEF SessionInv
<1>2. \E T : held' \in Seq(T)
  BY <1>1, OneHeld
<1>3. held'[n] = new /\ \A i \in DOMAIN held : held'[i] = held[i]
  BY <1>1, OneHeld
<1>4. n \notin DOMAIN held /\ DOMAIN held' = DOMAIN held \cup {n}
  BY <1>1, OneHeld
<1>5. /\ DOMAIN heap' = DOMAIN heap \cup {HeldJson(n)}
      /\ heap'[HeldJson(n)] = b.JSON
      /\ \A a \in DOMAIN heap : a # HeldJson(n) => heap'[a] = heap[a]
  BY <1>1, OneHeld
<1>6. Issued' = Issued \cup {b.CapsuleID}
  BY <1>1, OneHeld
<1> HIDE DEF n
<1>7. SessionSeqs'
  BY <1>2 DEF SessionInv, SessionSeqs
<1>8. IdentityKept'
  BY <1>5, AddressesDiffer DEF SessionInv, IdentityKept
<1>9. MembersKept'
  BY <1>5, AddressesDiffer DEF SessionInv, MembersKept
<1>10. HeldIssued'
  <2> SUFFICES ASSUME NEW i \in DOMAIN held'
               PROVE  /\ {"CapsuleID", "JSON", "Envelope", "issued"} \subseteq DOMAIN held'[i]
                      /\ held'[i].JSON = HeldJson(i)
                      /\ HeldJson(i) \in DOMAIN heap'
                      /\ VerifyCapsule(heap'[HeldJson(i)]) \in Issued' \cup {Nil}
    BY DEF HeldIssued
  <2>1. CASE i = n
    BY <2>1, <1>3, <1>5, <1>6
  <2>2. CASE i \in DOMAIN held
    <3>1. HeldJson(i) # HeldJson(n)
      BY <2>2, <1>4, AddressesDiffer
    <3>2. heap'[HeldJson(i)] = heap[HeldJson(i)]
      BY <2>2, <3>1, <1>5 DEF SessionInv, HeldIssued
    <3> QED
      BY <2>2, <3>2, <1>3, <1>5, <1>6 DEF SessionInv, HeldIssued
  <2> QED
    BY <2>1, <2>2, <1>4
<1>11. CallChecked'
  BY <1>6 DEF SessionInv, CallChecked
<1>12. EnvelopesGood'
  <2> SUFFICES ASSUME NEW i \in DOMAIN held', held'[i].Envelope # Nil
               PROVE  identity # Nil /\ Good(held'[i].Envelope, identity.registered, Issued')
    BY <1>6 DEF SessionInv, EnvelopesGood, Good
  <2>1. CASE i = n
    BY <2>1, <1>3, <1>6 DEF Good
  <2>2. CASE i \in DOMAIN held
    BY <2>2, <1>3, <1>6 DEF SessionInv, EnvelopesGood, Good
  <2> QED
    BY <2>1, <2>2, <1>4
<1> QED
  BY <1>7, <1>8, <1>9, <1>10, <1>11, <1>12 DEF SessionInv

-----------------------------------------------------------------------------
\* The invariant holds in a session without calls.
LEMMA InitSound == Init => SessionInv
<1> SUFFICES ASSUME Init PROVE SessionInv
  OBVIOUS
<1>1. held = <<>> /\ members = <<>> /\ envelopes = {} /\ identity = Nil /\ call = Nil
  BY DEF Init
<1>2. SessionSeqs
  <2>1. <<>> \in Seq({})
    OBVIOUS
  <2> QED
    BY <1>1, <2>1 DEF SessionSeqs
<1> QED
  BY <1>1, <1>2 DEF SessionInv, IdentityKept, MembersKept, HeldIssued, CallChecked,
                    EnvelopesGood

\* A capsule Build returned is received.
LEMMA BuildsKept ==
  ASSUME SessionInv, BuildCall \/ ReceivedCall \/ CompositionCall
  PROVE  SessionInv'
<1>1. PICK in, binds :
        /\ Build(in) # Nil
        /\ Holds(Build(in), binds, NoOriginals, Nil)
        /\ UNCHANGED <<members, identity, kms, call, envelopes, faults>>
  <2>1. CASE BuildCall
    BY <2>1 DEF BuildCall, Builds
  <2>2. CASE ReceivedCall
    <3>1. PICK in \in Inputs, artifact \in Foreign :
            /\ Received(in, artifact) # Nil
            /\ Holds(Received(in, artifact), [Unbound EXCEPT !.carried = artifact.bytes],
                     NoOriginals, Nil)
            /\ UNCHANGED <<members, identity, kms, call, envelopes, faults>>
      BY <2>2 DEF ReceivedCall, Receipts
    <3>2. \E filled : Received(in, artifact) = Build(filled)
      BY <3>1 DEF Received
    <3> QED
      BY <3>1, <3>2
  <2>3. CASE CompositionCall
    <3>1. PICK ms \in Composable, in \in Inputs :
            /\ BuildComposition(in, ms) # Nil
            /\ Holds(BuildComposition(in, ms), Composes(ms), NoOriginals, Nil)
            /\ UNCHANGED <<members, identity, kms, call, envelopes, faults>>
      BY <2>3 DEF CompositionCall
    <3>2. \E filled : BuildComposition(in, ms) = Build(filled)
      BY DEF BuildComposition
    <3> QED
      BY <3>1, <3>2
  <2> QED
    BY <2>1, <2>2, <2>3
<1>2. VerifyCapsule(Build(in).JSON) \in {Build(in).CapsuleID, Nil}
  BY <1>1, BuiltVerifiesAsItself
<1> DEFINE b == Build(in)
<1>3. VerifyCapsule(b.JSON) \in {b.CapsuleID, Nil} /\ Holds(b, binds, NoOriginals, Nil)
  BY <1>1, <1>2
<1> HIDE DEF b
<1> QED
  BY <1>1, <1>3, HoldsKeeps

\* Who, Can, Did and Audit copy the JSON of their capsule.
LEMMA SlotsKept ==
  ASSUME SessionInv, SlotCall
  PROVE  SessionInv'
<1>1. PICK i \in DOMAIN held, slot \in UsedSlots :
        /\ newSlotMember(held[i], slot)
        /\ UNCHANGED <<held, identity, kms, call, envelopes, faults>>
  BY DEF SlotCall
<1> DEFINE n == Len(members) + 1
           json == heap[held[i].JSON]
           new == Member(held[i], slot, MemberJson(n))
<1>2. heap' = Write(MemberJson(n), json) /\ members' = Append(members, new)
  BY <1>1 DEF newSlotMember
<1>3. PICK S : members \in Seq(S)
  BY DEF SessionInv, SessionSeqs
<1>4. /\ \E T : members' \in Seq(T)
      /\ DOMAIN members = 1..Len(members) /\ Len(members) \in Nat
      /\ DOMAIN members' = 1..n
      /\ members'[n] = new
      /\ \A k \in DOMAIN members : members'[k] = members[k]
  <2> HIDE DEF new
  <2>1. /\ \E T : Append(members, new) \in Seq(T)
        /\ DOMAIN members = 1..Len(members) /\ Len(members) \in Nat
        /\ DOMAIN Append(members, new) = 1..(Len(members) + 1)
        /\ Append(members, new)[Len(members) + 1] = new
        /\ \A k \in DOMAIN members : Append(members, new)[k] = members[k]
    BY <1>3, Appended, ZenonT(60)
  <2> QED
    BY <1>2, <2>1
<1>5. n \notin DOMAIN members /\ DOMAIN members' = DOMAIN members \cup {n}
  BY <1>4
<1>6. /\ DOMAIN heap' = DOMAIN heap \cup {MemberJson(n)}
      /\ heap'[MemberJson(n)] = json
      /\ \A a \in DOMAIN heap : a # MemberJson(n) => heap'[a] = heap[a]
  BY <1>2, WriteReads
<1>7. /\ new.json = MemberJson(n)
      /\ new.sound => VerifyCapsule(json) = new.capsuleID
  BY DEF Member
<1> HIDE DEF n, new, json
<1>8. SessionSeqs' /\ Issued' = Issued
  BY <1>1, <1>4 DEF SessionInv, SessionSeqs, Issued
<1>9. IdentityKept'
  BY <1>1, <1>6, AddressesDiffer DEF SessionInv, IdentityKept
<1>10. MembersKept'
  <2> SUFFICES ASSUME NEW k \in DOMAIN members'
               PROVE  /\ members'[k].json = MemberJson(k)
                      /\ MemberJson(k) \in DOMAIN heap'
                      /\ members'[k].sound =>
                           VerifyCapsule(heap'[MemberJson(k)]) = members'[k].capsuleID
    BY DEF MembersKept
  <2>1. CASE k = n
    BY <2>1, <1>4, <1>6, <1>7
  <2>2. CASE k \in DOMAIN members
    <3>1. MemberJson(k) # MemberJson(n)
      BY <2>2, <1>5, AddressesDiffer
    <3> QED
      BY <2>2, <3>1, <1>4, <1>6 DEF SessionInv, MembersKept
  <2> QED
    BY <2>1, <2>2, <1>5
<1>11. HeldIssued'
  BY <1>1, <1>6, <1>8, AddressesDiffer DEF SessionInv, HeldIssued
<1>12. CallChecked' /\ EnvelopesGood'
  BY <1>1, <1>8 DEF SessionInv, CallChecked, EnvelopesGood
<1> QED
  BY <1>8, <1>9, <1>10, <1>11, <1>12 DEF SessionInv

\* NewSigningIdentity copies the key before anything is built.
LEMMA IdentitiesKept ==
  ASSUME SessionInv, NewIdentity
  PROVE  SessionInv'
<1>1. /\ held = <<>> /\ identity = Nil /\ call = Nil
      /\ identity' = [publicKey |-> IdentityKey, registered |-> heap[CallerKey]]
      /\ heap' = Write(IdentityKey, heap[CallerKey])
      /\ UNCHANGED <<held, members, kms, call, envelopes, faults>>
  BY DEF NewIdentity, Idle
<1>2. /\ DOMAIN heap' = DOMAIN heap \cup {IdentityKey}
      /\ heap'[IdentityKey] = heap[CallerKey]
      /\ \A a \in DOMAIN heap : a # IdentityKey => heap'[a] = heap[a]
  BY <1>1, WriteReads
<1>3. SessionSeqs' /\ IdentityKept' /\ HeldIssued' /\ CallChecked' /\ EnvelopesGood'
  BY <1>1, <1>2 DEF SessionInv, SessionSeqs, IdentityKept, HeldIssued, CallChecked,
                    EnvelopesGood
<1>4. MembersKept'
  BY <1>1, <1>2, AddressesDiffer DEF SessionInv, MembersKept
<1> QED
  BY <1>3, <1>4 DEF SessionInv

\* Sign hands the identity's key and the id to the signer, once they match.
LEMMA SigningKept ==
  ASSUME SessionInv, NEW b, NEW op, NEW binds, NEW originals,
         identity # Nil, Signs(b, op, binds, originals),
         op # "seal" => VerifyCapsule(b.JSON) \in Issued \cup {Nil}
  PROVE  SessionInv'
<1>1. /\ b.CapsuleID # Nil /\ VerifyCapsule(b.JSON) = b.CapsuleID
      /\ call' = [op |-> op, built |-> b, kid |-> heap[identity.publicKey], sig |-> Nil,
                  binds |-> binds, originals |-> originals]
      /\ UNCHANGED <<heap, held, members, identity, kms, envelopes, faults>>
  BY DEF Signs, IsHex
<1>2. heap[identity.publicKey] = identity.registered
  BY DEF SessionInv, IdentityKept
<1>3. CallChecked'
  BY <1>1, <1>2 DEF CallChecked, Issued
<1> QED
  BY <1>1, <1>3 DEF SessionInv, SessionSeqs, IdentityKept, MembersKept, HeldIssued,
                    EnvelopesGood, Issued

\* Calling Sign or Seal takes the id that verified and the identity's key along.
LEMMA SignCallsKept ==
  ASSUME SessionInv, SignCall \/ SealCall \/ SealComposition
  PROVE  SessionInv'
<1>1. PICK b, op, binds, originals :
        /\ Signs(b, op, binds, originals)
        /\ op # "seal" => VerifyCapsule(b.JSON) \in Issued \cup {Nil}
  <2>1. CASE SignCall
    <3>1. PICK i \in DOMAIN held :
            Signs([CapsuleID |-> held[i].CapsuleID, JSON |-> heap[held[i].JSON]], "sign",
                  Unbound, NoOriginals)
      BY <2>1 DEF SignCall
    <3>2. VerifyCapsule(heap[held[i].JSON]) \in Issued \cup {Nil}
      BY DEF SessionInv, HeldIssued
    <3> QED
      BY <3>1, <3>2
  <2>2. CASE SealCall
    BY <2>2 DEF SealCall
  <2>3. CASE SealComposition
    BY <2>3 DEF SealComposition
  <2> QED
    BY <2>1, <2>2, <2>3
<1>2. identity # Nil
  BY DEF SignCall, SealCall, SealComposition, MaySeal, MaySign
<1> QED
  BY <1>1, <1>2, SigningKept

\* The signer answers or fails, or its answer is refused.
LEMMA AnswersKept ==
  ASSUME SessionInv, KmsSigns \/ KmsFails \/ SignRefuses
  PROVE  SessionInv'
<1>1. /\ UNCHANGED <<heap, held, members, identity, envelopes>>
      /\ call' = Nil \/ (call # Nil /\ call' = [call EXCEPT !.sig = kms])
  BY DEF KmsSigns, KmsFails, SignRefuses
<1>2. CallChecked'
  BY <1>1 DEF SessionInv, CallChecked, Issued
<1> QED
  BY <1>1, <1>2 DEF SessionInv, SessionSeqs, IdentityKept, MembersKept, HeldIssued,
                    EnvelopesGood, Issued

\* What Sign returns: the signature was checked with the identity's own key.
LEMMA SignatureChecked ==
  ASSUME SessionInv, call # Nil, signerMatches(call.sig)
  PROVE  /\ identity # Nil
         /\ SignedEnvelope.kid = identity.registered
         /\ SignedEnvelope.sig = SignedEnvelope.kid
         /\ SignedEnvelope.over = call.built.CapsuleID
BY DEF SessionInv, CallChecked, IdentityKept, signerMatches, SignedEnvelope

\* What Sign and Seal return was signed by that key.
LEMMA ReturnsKept ==
  ASSUME SessionInv, SignReturns \/ SealReturns
  PROVE  SessionInv'
<1>1. CASE SignReturns
  <2>1. /\ call # Nil /\ signerMatches(call.sig) /\ call.op = "sign"
        /\ envelopes' = envelopes \cup {SignedEnvelope} /\ call' = Nil
        /\ UNCHANGED <<heap, held, members, identity>>
    BY <1>1 DEF SignReturns
  <2>2. call.built.CapsuleID \in Issued
    BY <2>1 DEF SessionInv, CallChecked
  <2>3. EnvelopesGood'
    BY <2>1, <2>2, SignatureChecked DEF SessionInv, EnvelopesGood, Good, Issued
  <2> QED
    BY <2>1, <2>3 DEF SessionInv, SessionSeqs, IdentityKept, MembersKept, HeldIssued,
                      CallChecked, Issued
<1>2. CASE SealReturns
  <2>1. /\ call # Nil /\ signerMatches(call.sig) /\ call' = Nil
        /\ Holds(call.built, call.binds, call.originals, SignedEnvelope)
        /\ UNCHANGED <<members, identity, envelopes>>
    BY <1>2 DEF SealReturns
  <2>2. VerifyCapsule(call.built.JSON) = call.built.CapsuleID
    BY <2>1 DEF SessionInv, CallChecked
  <2> DEFINE b == call.built
             env == SignedEnvelope
             binds == call.binds
             originals == call.originals
  <2>3. /\ Holds(b, binds, originals, env)
        /\ VerifyCapsule(b.JSON) \in {b.CapsuleID, Nil}
        /\ identity # Nil /\ env.kid = identity.registered /\ env.sig = env.kid
        /\ env.over = b.CapsuleID
    BY <2>1, <2>2, SignatureChecked
  <2> HIDE DEF b, env, binds, originals
  <2> QED
    BY <2>1, <2>3, HoldsKeeps
<1> QED
  BY <1>1, <1>2

\* The environment overwrites only what the application owns.
LEMMA FaultsKept ==
  ASSUME SessionInv, Rotate \/ OverwriteKey \/ OverwriteJson \/ Relabel
  PROVE  SessionInv'
<1>1. CASE Rotate
  BY <1>1 DEF Rotate, SessionInv, SessionSeqs, IdentityKept, MembersKept, HeldIssued,
              CallChecked, EnvelopesGood, Issued
<1>2. CASE OverwriteKey
  <2>1. PICK k : heap' = Write(CallerKey, k) /\ UNCHANGED <<held, members, identity, call, envelopes>>
    BY <1>2 DEF OverwriteKey
  <2>2. /\ DOMAIN heap \subseteq DOMAIN heap'
        /\ \A a \in DOMAIN heap : a # CallerKey => heap'[a] = heap[a]
    BY <2>1, WriteReads
  <2> QED
    BY <2>1, <2>2, AddressesDiffer, ZenonT(60)
       DEF SessionInv, SessionSeqs, IdentityKept, MembersKept, HeldIssued, CallChecked,
           EnvelopesGood, Issued
<1>3. CASE OverwriteJson
  <2>1. PICK i \in DOMAIN held :
          \E json \in {Nil} \cup {heap[held[j].JSON] : j \in DOMAIN held \ {i}} :
            heap' = Write(held[i].JSON, json)
    BY <1>3 DEF OverwriteJson
  <2>2. PICK json \in {Nil} \cup {heap[held[j].JSON] : j \in DOMAIN held \ {i}} :
          heap' = Write(held[i].JSON, json)
    BY <2>1
  <2>3. VerifyCapsule(json) \in Issued \cup {Nil}
    BY <2>2, VerifyNothing DEF SessionInv, HeldIssued
  <2>4. heap' = Write(HeldJson(i), json)
        /\ UNCHANGED <<held, members, identity, call, envelopes>>
    BY <1>3, <2>2 DEF SessionInv, HeldIssued, OverwriteJson
  <2>5. /\ DOMAIN heap \subseteq DOMAIN heap' /\ heap'[HeldJson(i)] = json
        /\ \A a \in DOMAIN heap : a # HeldJson(i) => heap'[a] = heap[a]
    BY <2>4, WriteReads
  <2>6. HeldIssued'
    BY <2>3, <2>4, <2>5 DEF SessionInv, HeldIssued, Issued
  <2>7. IdentityKept' /\ MembersKept'
    BY <2>4, <2>5, AddressesDiffer DEF SessionInv, IdentityKept, MembersKept
  <2> QED
    BY <2>4, <2>6, <2>7 DEF SessionInv, SessionSeqs, CallChecked, EnvelopesGood, Issued
<1>4. CASE Relabel
  <2>1. PICK i \in DOMAIN held, id \in OtherIds :
          held' = [held EXCEPT ![i].CapsuleID = id]
    BY <1>4 DEF Relabel
  <2>2. UNCHANGED <<heap, members, identity, call, envelopes>>
    BY <1>4 DEF Relabel
  <2>3. PICK S : held \in Seq(S)
    BY DEF SessionInv, SessionSeqs
  <2>4. /\ DOMAIN held' = DOMAIN held
        /\ \A j \in DOMAIN held :
             /\ DOMAIN held'[j] = DOMAIN held[j]
             /\ \A f \in DOMAIN held[j] : f # "CapsuleID" => held'[j][f] = held[j][f]
    BY <2>1, <2>3
  <2>5. \A j \in DOMAIN held :
          /\ held'[j].JSON = held[j].JSON /\ held'[j].Envelope = held[j].Envelope
          /\ held'[j].issued = held[j].issued
    BY <2>4 DEF SessionInv, HeldIssued
  <2>6. Issued' = Issued
    BY <2>4, <2>5 DEF Issued
  <2>7. SessionSeqs'
    <3>1. held' \in Seq(S \cup {held'[i]})
      BY <2>1, <2>3
    <3> QED
      BY <2>2, <3>1 DEF SessionInv, SessionSeqs
  <2>8. HeldIssued' /\ EnvelopesGood'
    BY <2>2, <2>4, <2>5, <2>6 DEF SessionInv, HeldIssued, EnvelopesGood
  <2> QED
    BY <2>2, <2>6, <2>7, <2>8 DEF SessionInv, IdentityKept, MembersKept, CallChecked
<1> QED
  BY <1>1, <1>2, <1>3, <1>4

\* Every step preserves the invariant.
LEMMA StepSound == SessionInv /\ [Next]_vars => SessionInv'
<1> SUFFICES ASSUME SessionInv, [Next]_vars
             PROVE  SessionInv'
  OBVIOUS
<1>1. CASE BuildCall \/ ReceivedCall \/ CompositionCall
  BY <1>1, BuildsKept
<1>2. CASE SlotCall
  BY <1>2, SlotsKept
<1>3. CASE NewIdentity
  BY <1>3, IdentitiesKept
<1>4. CASE SignCall \/ SealCall \/ SealComposition
  BY <1>4, SignCallsKept
<1>5. CASE KmsSigns \/ KmsFails \/ SignRefuses
  BY <1>5, AnswersKept
<1>6. CASE SignReturns \/ SealReturns
  BY <1>6, ReturnsKept
<1>7. CASE Rotate \/ OverwriteKey \/ OverwriteJson \/ Relabel
  BY <1>7, FaultsKept
<1>8. CASE UNCHANGED vars
  BY <1>8 DEF vars, SessionInv, SessionSeqs, IdentityKept, MembersKept, HeldIssued,
              CallChecked, EnvelopesGood, Issued
<1> QED
  BY <1>1, <1>2, <1>3, <1>4, <1>5, <1>6, <1>7, <1>8 DEF Next

\* The invariant holds in every session.
THEOREM SessionSound == Spec => []SessionInv
BY InitSound, StepSound, PTL DEF Spec

\* Every envelope is the identity's own, over an id Build issued, whatever the
\* key manager rotates to and the application overwrites (sign.go:50-89).
THEOREM EnvelopesAreAuthentic == Spec => []EnvelopeAuthentic
<1>1. SessionInv => EnvelopeAuthentic
  BY DEF SessionInv, EnvelopesGood, Good, EnvelopeAuthentic, AllEnvelopes, Sealed,
         VerifyEnvelope
<1> QED
  BY <1>1, SessionSound, PTL

\* The identity and the slot members keep what they copied
\* (construction.go:77-92, sign.go:46).
THEOREM CopiesAreStable == Spec => []CopiesStable
<1>1. SessionInv => CopiesStable
  BY DEF SessionInv, IdentityKept, MembersKept, CopiesStable
<1> QED
  BY <1>1, SessionSound, PTL

-----------------------------------------------------------------------------
\* What a composition binds: the references BuildComposition makes of its members.

\* The members given for the n-th slot, and the reference to one of them.
GivenFor(ms, n) == {i \in DOMAIN ms : ms[i].slot = compositionSlots[n]}
ReferenceFor(ms, n) ==
  [Type |-> "capsule", DigestAlg |-> "SHA-256", Slot |-> compositionSlots[n],
   Digest |-> ms[CHOOSE i \in GivenFor(ms, n) : TRUE].capsuleID]

\* The references after the first n slots: one for each slot that was given, in
\* the order of the slots.
RefersTo(s, ms, n) ==
  /\ IsSeq(s) /\ Len(s) \in 0..n
  /\ \A k \in DOMAIN s : \E i \in 1..n : GivenFor(ms, i) # {} /\ s[k] = ReferenceFor(ms, i)
  /\ \A i \in 1..n : GivenFor(ms, i) # {} => \E k \in DOMAIN s : s[k] = ReferenceFor(ms, i)
  /\ \A k, l \in DOMAIN s : \A i, j \in 1..n :
       k < l /\ s[k].Slot = compositionSlots[i] /\ s[l].Slot = compositionSlots[j] => i < j

\* The slots are four, and different.
LEMMA SlotsDiffer ==
  /\ Len(compositionSlots) = 4
  /\ \A i, j \in 1..4 : compositionSlots[i] = compositionSlots[j] => i = j
  /\ \A slot \in Slots : \E i \in 1..4 : slot = compositionSlots[i]
<1>1. Len(compositionSlots) = 4 /\ DOMAIN compositionSlots = 1..4
  BY DEF compositionSlots
<1>2. /\ compositionSlots[1] = "who" /\ compositionSlots[2] = "can"
      /\ compositionSlots[3] = "did" /\ compositionSlots[4] = "audit"
  BY DEF compositionSlots
<1>3. \A i, j \in 1..4 : compositionSlots[i] = compositionSlots[j] => i = j
  <2> SUFFICES ASSUME NEW i \in 1..4, NEW j \in 1..4, compositionSlots[i] = compositionSlots[j]
               PROVE  i = j
    OBVIOUS
  <2>1. i \in {1, 2, 3, 4} /\ j \in {1, 2, 3, 4}
    OBVIOUS
  <2> QED
    BY <1>2, <2>1
<1> QED
  BY <1>1, <1>3 DEF Slots

\* A sequence one longer.
LEMMA OneMore ==
  ASSUME NEW s, IsSeq(s), NEW x
  PROVE  /\ IsSeq(Append(s, x)) /\ Len(s) \in Nat /\ DOMAIN s = 1..Len(s)
         /\ Len(Append(s, x)) = Len(s) + 1
         /\ DOMAIN Append(s, x) = 1..(Len(s) + 1)
         /\ Append(s, x)[Len(s) + 1] = x
         /\ \A k \in DOMAIN s : Append(s, x)[k] = s[k]
<1>1. PICK S : s \in Seq(S)
  BY DEF IsSeq
<1>2. s \in Seq(S \cup {x})
  BY <1>1
<1>3. Append(s, x) \in Seq(S \cup {x})
  BY <1>2
<1> QED
  BY <1>2, <1>3 DEF IsSeq

\* One slot more.
LEMMA SlotAdded ==
  ASSUME NEW ms, NEW n \in 1..4, NEW s, RefersTo(s, ms, n - 1)
  PROVE  /\ GivenFor(ms, n) = {} => RefersTo(s, ms, n)
         /\ GivenFor(ms, n) # {} => RefersTo(Append(s, ReferenceFor(ms, n)), ms, n)
<1>1. \A i \in 1..n : i \in 1..(n - 1) \/ i = n
  OBVIOUS
<1>2. \A k \in DOMAIN s : \E i \in 1..(n - 1) : s[k].Slot = compositionSlots[i]
  <2>1. \A k \in DOMAIN s : \E i \in 1..(n - 1) : s[k] = ReferenceFor(ms, i)
    BY DEF RefersTo
  <2>2. \A i : ReferenceFor(ms, i).Slot = compositionSlots[i]
    BY DEF ReferenceFor
  <2> QED
    BY <2>1, <2>2
<1>3. \A k \in DOMAIN s, i \in 1..n : s[k].Slot = compositionSlots[i] => i \in 1..(n - 1)
  BY <1>2, SlotsDiffer
<1>4. CASE GivenFor(ms, n) = {}
  <2>1. \A k \in DOMAIN s : \E i \in 1..n : GivenFor(ms, i) # {} /\ s[k] = ReferenceFor(ms, i)
    BY DEF RefersTo
  <2>2. \A i \in 1..n : GivenFor(ms, i) # {} => \E k \in DOMAIN s : s[k] = ReferenceFor(ms, i)
    BY <1>1, <1>4 DEF RefersTo
  <2>3. \A k, l \in DOMAIN s : \A i, j \in 1..n :
          k < l /\ s[k].Slot = compositionSlots[i] /\ s[l].Slot = compositionSlots[j] => i < j
    BY <1>3 DEF RefersTo
  <2>4. IsSeq(s) /\ Len(s) \in 0..n
    BY DEF RefersTo
  <2> QED
    BY <1>4, <2>1, <2>2, <2>3, <2>4 DEF RefersTo
<1>5. CASE GivenFor(ms, n) # {}
  <2> DEFINE x == ReferenceFor(ms, n)
             t == Append(s, x)
             m == Len(s) + 1
  <2>1. IsSeq(s) /\ Len(s) \in 0..(n - 1)
    BY DEF RefersTo
  <2>2. x.Slot = compositionSlots[n]
    BY DEF ReferenceFor
  <2> HIDE DEF x
  <2>3. /\ IsSeq(t) /\ Len(s) \in Nat /\ DOMAIN s = 1..Len(s) /\ Len(t) = m
        /\ DOMAIN t = 1..m /\ t[m] = x /\ \A k \in DOMAIN s : t[k] = s[k]
    BY <2>1, OneMore
  <2> HIDE DEF t
  <2>4. \A k \in DOMAIN t : k = m \/ k \in DOMAIN s
    BY <2>3
  <2>5. m \in DOMAIN t /\ \A k \in DOMAIN s : k \in DOMAIN t /\ k < m
    BY <2>3
  <2>6. m \in Nat /\ \A k \in DOMAIN t : ~ (m < k)
    BY <2>3
  <2> HIDE DEF m
  <2>7. \A k \in DOMAIN t : \E i \in 1..n : GivenFor(ms, i) # {} /\ t[k] = ReferenceFor(ms, i)
    <3> SUFFICES ASSUME NEW k \in DOMAIN t
                 PROVE  \E i \in 1..n : GivenFor(ms, i) # {} /\ t[k] = ReferenceFor(ms, i)
      OBVIOUS
    <3>1. CASE k = m
      BY <1>5, <2>3, <3>1 DEF x
    <3>2. CASE k \in DOMAIN s
      BY <2>3, <3>2 DEF RefersTo
    <3> QED
      BY <2>4, <3>1, <3>2
  <2>8. \A i \in 1..n : GivenFor(ms, i) # {} => \E k \in DOMAIN t : t[k] = ReferenceFor(ms, i)
    <3> SUFFICES ASSUME NEW i \in 1..n, GivenFor(ms, i) # {}
                 PROVE  \E k \in DOMAIN t : t[k] = ReferenceFor(ms, i)
      OBVIOUS
    <3>1. CASE i = n
      BY <2>3, <2>5, <3>1 DEF x
    <3>2. CASE i \in 1..(n - 1)
      <4>1. PICK k \in DOMAIN s : s[k] = ReferenceFor(ms, i)
        BY <3>2 DEF RefersTo
      <4> QED
        BY <2>3, <2>5, <4>1
    <3> QED
      BY <1>1, <3>1, <3>2
  <2>9. ASSUME NEW k \in DOMAIN t, NEW l \in DOMAIN t, NEW i \in 1..n, NEW j \in 1..n,
               k < l, t[k].Slot = compositionSlots[i], t[l].Slot = compositionSlots[j]
        PROVE  i < j
    <3>1. k \in DOMAIN s
      BY <2>4, <2>6, <2>9
    <3>2. s[k].Slot = compositionSlots[i]
      BY <2>3, <2>9, <3>1
    <3>3. i \in 1..(n - 1)
      BY <1>3, <3>1, <3>2
    <3>4. CASE l = m
      <4>1. compositionSlots[n] = compositionSlots[j]
        BY <2>2, <2>3, <2>9, <3>4
      <4>2. j = n
        BY <4>1, SlotsDiffer
      <4> QED
        BY <3>3, <4>2
    <3>5. CASE l \in DOMAIN s
      <4>1. s[l].Slot = compositionSlots[j]
        BY <2>3, <2>9, <3>5
      <4>2. j \in 1..(n - 1)
        BY <1>3, <3>5, <4>1
      <4> QED
        BY <2>9, <3>1, <3>2, <3>3, <3>5, <4>1, <4>2 DEF RefersTo
    <3> QED
      BY <2>4, <3>4, <3>5
  <2>10. Len(t) \in 0..n
    BY <2>1, <2>3 DEF m
  <2>11. RefersTo(t, ms, n)
    BY <2>3, <2>7, <2>8, <2>9, <2>10 DEF RefersTo
  <2> QED
    BY <1>5, <2>11 DEF t, x
<1> QED
  BY <1>4, <1>5

\* The loop over the slots (construction.go:126-138).
LEMMA ComposedReferences ==
  ASSUME NEW ms
  PROVE  RefersTo(composedReferences(ms), ms, 4)
<1> DEFINE given(slot) == {i \in DOMAIN ms : ms[i].slot = slot}
           reference(slot) ==
             [Type |-> "capsule", DigestAlg |-> "SHA-256", Slot |-> slot,
              Digest |-> ms[CHOOSE i \in given(slot) : TRUE].capsuleID]
           Next1(s, n) == IF given(compositionSlots[n]) = {} THEN s
                          ELSE Append(s, reference(compositionSlots[n]))
           Rule(f) ==
             f = [n \in 0..Len(compositionSlots) |->
                    IF n = 0 THEN <<>>
                    ELSE IF given(compositionSlots[n]) = {} THEN f[n - 1]
                    ELSE Append(f[n - 1], reference(compositionSlots[n]))]
           refs == CHOOSE f : Rule(f)
           r1 == Next1(<<>>, 1)
           r2 == Next1(r1, 2)
           r3 == Next1(r2, 3)
           r4 == Next1(r3, 4)
           g == [n \in 0..4 |-> IF n = 0 THEN <<>> ELSE IF n = 1 THEN r1
                                ELSE IF n = 2 THEN r2 ELSE IF n = 3 THEN r3 ELSE r4]
<1>1. Rule(g)
  <2> HIDE DEF given, reference, Next1, r1, r2, r3, r4
  <2>1. /\ g[0] = <<>> /\ g[1] = r1 /\ g[2] = r2 /\ g[3] = r3 /\ g[4] = r4
        /\ g = [n \in 0..4 |-> g[n]]
    OBVIOUS
  <2> HIDE DEF g
  <2>2. g[1] = Next1(g[0], 1) /\ g[2] = Next1(g[1], 2) /\ g[3] = Next1(g[2], 3) /\ g[4] = Next1(g[3], 4)
    BY <2>1 DEF r1, r2, r3, r4
  <2>3. \A n \in 0..4 : g[n] = IF n = 0 THEN <<>> ELSE Next1(g[n - 1], n)
    <3> SUFFICES ASSUME NEW n \in 0..4 PROVE g[n] = IF n = 0 THEN <<>> ELSE Next1(g[n - 1], n)
      OBVIOUS
    <3>1. n \in {0, 1, 2, 3, 4}
      OBVIOUS
    <3> QED
      BY <2>1, <2>2, <3>1
  <2>4. g = [n \in 0..4 |-> IF n = 0 THEN <<>> ELSE Next1(g[n - 1], n)]
    BY <2>1, <2>3
  <2>5. Len(compositionSlots) = 4
    BY SlotsDiffer
  <2>6. g = [n \in 0..Len(compositionSlots) |-> IF n = 0 THEN <<>> ELSE Next1(g[n - 1], n)]
    BY <2>4, <2>5
  <2> QED
    BY <2>6, Zenon DEF Next1
<1>2. Rule(refs)
  BY <1>1, Zenon
<1>3. composedReferences(ms) = refs[Len(compositionSlots)]
  BY Zenon DEF composedReferences
<1> HIDE DEF refs
<1>4. \A n \in 0..Len(compositionSlots) : refs[n] = IF n = 0 THEN <<>> ELSE Next1(refs[n - 1], n)
  BY <1>2, Zenon
<1>5. \A s, n : Next1(s, n) = IF GivenFor(ms, n) = {} THEN s ELSE Append(s, ReferenceFor(ms, n))
  BY Zenon DEF GivenFor, ReferenceFor
<1> HIDE DEF given, reference, Next1
<1>6. /\ refs[0] = <<>>
      /\ refs[1] = Next1(refs[0], 1) /\ refs[2] = Next1(refs[1], 2)
      /\ refs[3] = Next1(refs[2], 3) /\ refs[4] = Next1(refs[3], 4)
  BY <1>4, SlotsDiffer
<1>7. RefersTo(<<>>, ms, 0)
  BY EmptyPath DEF RefersTo
<1>8. ASSUME NEW n \in 1..4, RefersTo(refs[n - 1], ms, n - 1), refs[n] = Next1(refs[n - 1], n)
      PROVE  RefersTo(refs[n], ms, n)
  BY <1>5, <1>8, SlotAdded
<1>9. RefersTo(refs[1], ms, 1)
  BY <1>6, <1>7, <1>8
<1>10. RefersTo(refs[2], ms, 2)
  BY <1>6, <1>8, <1>9
<1>11. RefersTo(refs[3], ms, 3)
  BY <1>6, <1>8, <1>10
<1>12. RefersTo(refs[4], ms, 4)
  BY <1>6, <1>8, <1>11
<1> QED
  BY <1>3, <1>12, SlotsDiffer

\* What the id of a capsule attests is what its compute attestation says.
LEMMA IdBinds ==
  ASSUME NilIsNoValue, NEW in, TextsOK(in), Build(in) # Nil, NEW x, NEW y, NEW k
  PROVE  LET id == Build(in).CapsuleID
             a == computeAttestationMap(in.Compute, in.compute)
         IN  /\ Attested(id, <<[key |-> x]>>) = Sub(a, Under(x, <<>>))
             /\ Attested(id, <<[key |-> x], [key |-> y]>>) = Sub(a, Under(x, Under(y, <<>>)))
             /\ MemberAt(id, k, x)
                  = Sub(a, Under("composed_members", Item(k - 1, Under(x, <<>>))))
<1> DEFINE id == Build(in).CapsuleID
           a == computeAttestationMap(in.Compute, in.compute)
<1>1. ASSUME NEW q, IsSeq(q)
      PROVE  Attested(id, q) = Sub(a, q)
  <2>1. <<[key |-> "model_attestation"], [key |-> "compute_attestation"]>> \o q
          = Under("model_attestation", Under("compute_attestation", q))
    BY <1>1, LongPaths DEF Under
  <2>2. At(id.capsule, Under("model_attestation", Under("compute_attestation", q))) = Sub(a, q)
    BY <1>1, IdAttests
  <2> QED
    BY <2>1, <2>2 DEF Attested
<1> HIDE DEF id, a
<1>2. /\ <<[key |-> x]>> = Under(x, <<>>)
      /\ <<[key |-> x], [key |-> y]>> = Under(x, Under(y, <<>>))
      /\ <<[key |-> "composed_members"], [index |-> k - 1], [key |-> x]>>
           = Under("composed_members", Item(k - 1, Under(x, <<>>)))
  <2>1. <<[key |-> x]>> \o <<>> = <<[key |-> x]>> /\ <<[key |-> y]>> \o <<>> = <<[key |-> y]>>
    BY LongPaths, EmptyPath
  <2>2. <<[key |-> x]>> \o <<[key |-> y]>> = <<[key |-> x], [key |-> y]>>
    BY LongPaths, EmptyPath
  <2>3. \A u, v, w : <<u>> \o (<<v>> \o <<w>>) = <<u, v, w>>
    BY PathOfThree, Zenon
  <2>4. <<[key |-> "composed_members"]>> \o (<<[index |-> k - 1]>> \o <<[key |-> x]>>)
          = <<[key |-> "composed_members"], [index |-> k - 1], [key |-> x]>>
    BY <2>3, Zenon
  <2> QED
    BY <2>1, <2>2, <2>4 DEF Under, Item
<1>3. \A p, q : IsSeq(q) => IsSeq(Under(p, q)) /\ IsSeq(Item(p, q))
  BY Prefixed DEF Under, Item
<1>4. /\ IsSeq(Under(x, <<>>)) /\ IsSeq(Under(x, Under(y, <<>>)))
      /\ IsSeq(Under("composed_members", Item(k - 1, Under(x, <<>>))))
  BY <1>3, EmptyPath
<1> QED
  BY <1>1, <1>2, <1>4 DEF MemberAt, id, a

\* There is one reference for each member, and none else.
LEMMA OneForEach ==
  ASSUME NEW ms, composable(ms), NEW s, RefersTo(s, ms, 4)
  PROVE  /\ DOMAIN s \subseteq 1..4
         /\ \A k \in DOMAIN s : s[k].Slot \in Slots
         /\ \A k \in DOMAIN s : \E j \in DOMAIN ms :
              s[k].Slot = ms[j].slot /\ s[k].Digest = ms[j].capsuleID
         /\ \A j \in DOMAIN ms : \E k \in DOMAIN s :
              s[k].Slot = ms[j].slot /\ s[k].Digest = ms[j].capsuleID
<1>1. DOMAIN s \subseteq 1..4
  BY DEF RefersTo, IsSeq
<1>2. ASSUME NEW i \in 1..4, GivenFor(ms, i) # {}
      PROVE  \E j \in GivenFor(ms, i) : ReferenceFor(ms, i).Digest = ms[j].capsuleID
  BY <1>2 DEF ReferenceFor
<1>3. \A i : ReferenceFor(ms, i).Slot = compositionSlots[i]
  BY DEF ReferenceFor
<1>4. \A i \in 1..4 : compositionSlots[i] \in Slots
  BY DEF Slots, compositionSlots
<1>5. \A i : GivenFor(ms, i) \subseteq DOMAIN ms /\ \A j \in GivenFor(ms, i) : ms[j].slot = compositionSlots[i]
  BY DEF GivenFor
<1>6. ASSUME NEW k \in DOMAIN s
      PROVE  /\ s[k].Slot \in Slots
             /\ \E j \in DOMAIN ms : s[k].Slot = ms[j].slot /\ s[k].Digest = ms[j].capsuleID
  <2>1. PICK i \in 1..4 : GivenFor(ms, i) # {} /\ s[k] = ReferenceFor(ms, i)
    BY DEF RefersTo
  <2>2. PICK j \in GivenFor(ms, i) : ReferenceFor(ms, i).Digest = ms[j].capsuleID
    BY <1>2, <2>1
  <2> QED
    BY <1>3, <1>4, <1>5, <2>1, <2>2
<1>7. ASSUME NEW j \in DOMAIN ms
      PROVE  \E k \in DOMAIN s : s[k].Slot = ms[j].slot /\ s[k].Digest = ms[j].capsuleID
  <2>1. PICK i \in 1..4 : ms[j].slot = compositionSlots[i]
    BY SlotsDiffer DEF composable
  <2>2. j \in GivenFor(ms, i)
    BY <2>1 DEF GivenFor
  <2>3. PICK k \in DOMAIN s : s[k] = ReferenceFor(ms, i)
    BY <2>2 DEF RefersTo
  <2>4. PICK l \in GivenFor(ms, i) : ReferenceFor(ms, i).Digest = ms[l].capsuleID
    BY <1>2, <2>2
  <2>5. l = j
    BY <1>5, <2>1 DEF composable
  <2> QED
    BY <1>3, <2>1, <2>3, <2>4, <2>5
<1> QED
  BY <1>1, <1>6, <1>7

\* The empty string is no slot.
NilIsNoSlot == Nil \notin Slots

\* What the id of a capsule says of its binding, and that an input with one claims
\* no input or output of an agent.
LEMMA InputBinds ==
  ASSUME NilIsNoValue, NEW in, TextsOK(in), Build(in) # Nil
  PROVE  LET id == Build(in).CapsuleID
             b == in.compute
             m == b.ComposedMembers
         IN  /\ b # Nil =>
                  /\ Attested(id, <<[key |-> "agent_input_digest"]>>) = Nil
                  /\ Attested(id, <<[key |-> "agent_output_digest"]>>) = Nil
             /\ b # Nil /\ b.CarriedInputDigest # Nil =>
                  Attested(id, <<[key |-> "carried_input_digest"]>>)
                    = [digest |-> b.CarriedInputDigest]
             /\ b # Nil /\ b.CarriedArtifact # Nil =>
                  Attested(id, <<[key |-> "carried_artifact"], [key |-> "digest"]>>)
                    = [digest |-> b.CarriedArtifact.Digest]
             /\ \A k \in 1..4 : b = Nil \/ k \notin DOMAIN m => MemberAt(id, k, "slot") = Nil
             /\ \A k \in 1..4 : b # Nil /\ k \in DOMAIN m /\ m[k].Slot # Nil =>
                  /\ MemberAt(id, k, "slot") = [text |-> m[k].Slot]
                  /\ MemberAt(id, k, "digest") = [digest |-> m[k].Digest]
<1> DEFINE id == Build(in).CapsuleID
           b == in.compute
           m == b.ComposedMembers
           a == computeAttestationMap(in.Compute, b)
           leaf(x) == IF x = Nil THEN Nil ELSE [digest |-> x]
           item(k, name) == Sub(a, Under("composed_members", Item(k - 1, Under(name, <<>>))))
<1>1. b # Nil => IsSeq(m)
  BY DEF TextsOK
<1>2. \A x : Attested(id, <<[key |-> x]>>) = Sub(a, Under(x, <<>>))
  BY IdBinds, Zenon
<1>3. \A x, y : Attested(id, <<[key |-> x], [key |-> y]>>) = Sub(a, Under(x, Under(y, <<>>)))
  BY IdBinds, Zenon
<1>4. \A x, k : MemberAt(id, k, x) = item(k, x)
  BY IdBinds, Zenon
<1>5. b # Nil => ~ hasAuthoredDigests(in.Compute)
  <2>1. validateInput(in)
    BY DEF Build
  <2> QED
    BY <2>1 DEF validateInput
<1>6. b # Nil => in.Compute = Nil \/ (in.Compute.AgentInputDigest = Nil /\ in.Compute.AgentOutputDigest = Nil)
  BY <1>5 DEF hasAuthoredDigests
<1>7. /\ Sub(a, Under("agent_input_digest", <<>>))
           = IF in.Compute = Nil THEN Nil ELSE leaf(in.Compute.AgentInputDigest)
      /\ Sub(a, Under("agent_output_digest", <<>>))
           = IF in.Compute = Nil THEN Nil ELSE leaf(in.Compute.AgentOutputDigest)
      /\ Sub(a, Under("carried_input_digest", <<>>))
           = IF b = Nil THEN Nil ELSE leaf(b.CarriedInputDigest)
      /\ Sub(a, Under("carried_artifact", Under("digest", <<>>)))
           = IF b = Nil \/ b.CarriedArtifact = Nil THEN Nil ELSE [digest |-> b.CarriedArtifact.Digest]
  BY <1>1, AttestationSays
<1>8. \A k \in Nat :
        LET ref == m[k]
        IN  IF b = Nil \/ k \notin DOMAIN m
            THEN item(k, "slot") = Nil /\ item(k, "digest") = Nil
            ELSE /\ item(k, "slot") = IF ref.Slot = Nil THEN Nil ELSE [text |-> ref.Slot]
                 /\ item(k, "digest") = [digest |-> ref.Digest]
  BY <1>1, AttestationSays
<1> HIDE DEF id, b, m, a, item
<1>9. b # Nil =>
        /\ Attested(id, <<[key |-> "agent_input_digest"]>>) = Nil
        /\ Attested(id, <<[key |-> "agent_output_digest"]>>) = Nil
  BY <1>2, <1>6, <1>7
<1>10. b # Nil /\ b.CarriedInputDigest # Nil =>
         Attested(id, <<[key |-> "carried_input_digest"]>>) = [digest |-> b.CarriedInputDigest]
  BY <1>2, <1>7
<1>11. b # Nil /\ b.CarriedArtifact # Nil =>
         Attested(id, <<[key |-> "carried_artifact"], [key |-> "digest"]>>)
           = [digest |-> b.CarriedArtifact.Digest]
  BY <1>3, <1>7
<1>12. \A k \in 1..4 : b = Nil \/ k \notin DOMAIN m => MemberAt(id, k, "slot") = Nil
  BY <1>4, <1>8
<1>13. \A k \in 1..4 : b # Nil /\ k \in DOMAIN m /\ m[k].Slot # Nil =>
         /\ MemberAt(id, k, "slot") = [text |-> m[k].Slot]
         /\ MemberAt(id, k, "digest") = [digest |-> m[k].Digest]
  BY <1>4, <1>8
<1> QED
  BY <1>9, <1>10, <1>11, <1>12, <1>13 DEF id, b, m

\* What BindingSound says of one capsule, but for the members' own ids.
BoundAt(id) == {k \in 1..4 : MemberAt(id, k, "slot") # Nil}
SlotAt(id, k) == CHOOSE n \in 1..4 : MemberAt(id, k, "slot") = [text |-> compositionSlots[n]]

Bound(id, binds) ==
  /\ {[slot |-> MemberAt(id, k, "slot").text, id |-> MemberAt(id, k, "digest").digest] :
        k \in BoundAt(id)} = binds.members
  /\ \A k, l \in BoundAt(id) : k < l => SlotAt(id, k) < SlotAt(id, l)
  /\ binds.carried # Nil =>
       \A path \in {<<[key |-> "carried_input_digest"]>>,
                    <<[key |-> "carried_artifact"], [key |-> "digest"]>>} :
         Attested(id, path) = [digest |-> [raw |-> binds.carried]]
  /\ binds # Unbound =>
       /\ Attested(id, <<[key |-> "agent_input_digest"]>>) = Nil
       /\ Attested(id, <<[key |-> "agent_output_digest"]>>) = Nil

\* Build alone binds nothing.
LEMMA PlainBinds ==
  ASSUME NilIsNoValue, NEW in, TextsOK(in), Build(in) # Nil, in.compute = Nil
  PROVE  Bound(Build(in).CapsuleID, Unbound)
<1>1. BoundAt(Build(in).CapsuleID) = {}
  BY InputBinds DEF BoundAt
<1>2. Unbound.members = {} /\ Unbound.carried = Nil
  BY DEF Unbound
<1> HIDE DEF Unbound
<1> QED
  BY <1>1, <1>2 DEF Bound

\* Received binds the artifact it was given (construction.go:28-46).
LEMMA CarriedBinds ==
  ASSUME NilIsNoValue, NEW in, TextsOK(in), Build(in) # Nil,
         NEW ref, NEW bytes, ref # Nil, ref.Digest = [raw |-> bytes],
         in.compute = [CarriedArtifact |-> ref, CarriedInputDigest |-> [raw |-> bytes],
                       ComposedMembers |-> <<>>]
  PROVE  Bound(Build(in).CapsuleID, [Unbound EXCEPT !.carried = bytes])
<1> DEFINE id == Build(in).CapsuleID
           binds == [Unbound EXCEPT !.carried = bytes]
           b == in.compute
<1>1. b # Nil /\ [raw |-> bytes] # Nil
  <2>1. \A x, y, z : LET f == [CarriedArtifact |-> x, CarriedInputDigest |-> y,
                               ComposedMembers |-> z]
                     IN  f = [e \in DOMAIN f |-> f[e]]
    OBVIOUS
  <2>2. [raw |-> bytes] = [e \in DOMAIN [raw |-> bytes] |-> [raw |-> bytes][e]]
    OBVIOUS
  <2> QED
    BY <2>1, <2>2 DEF NilIsNoValue
<1>2. /\ b.CarriedInputDigest = [raw |-> bytes] /\ b.CarriedArtifact = ref
      /\ DOMAIN b.ComposedMembers = {}
  OBVIOUS
<1>3. binds.members = {} /\ binds.carried = bytes
  BY DEF Unbound
<1> HIDE DEF id, binds, b
<1>4. /\ Attested(id, <<[key |-> "agent_input_digest"]>>) = Nil
      /\ Attested(id, <<[key |-> "agent_output_digest"]>>) = Nil
  BY <1>1, InputBinds DEF id, b
<1>5. Attested(id, <<[key |-> "carried_input_digest"]>>) = [digest |-> [raw |-> bytes]]
  BY <1>1, <1>2, InputBinds DEF id, b
<1>6. Attested(id, <<[key |-> "carried_artifact"], [key |-> "digest"]>>)
        = [digest |-> [raw |-> bytes]]
  BY <1>1, <1>2, InputBinds DEF id, b
<1>7. BoundAt(id) = {}
  BY <1>2, InputBinds DEF BoundAt, id, b
<1>8. Bound(id, binds)
  BY <1>3, <1>4, <1>5, <1>6, <1>7 DEF Bound
<1> QED
  BY <1>8 DEF id, binds

\* A composition binds its members, in the order of the slots
\* (construction.go:98-141).
LEMMA CompositionBinds ==
  ASSUME NilIsNoValue, NilIsNoSlot, NEW in, TextsOK(in), Build(in) # Nil,
         NEW ms, composable(ms),
         in.compute = [CarriedArtifact |-> Nil, CarriedInputDigest |-> Nil,
                       ComposedMembers |-> composedReferences(ms)]
  PROVE  Bound(Build(in).CapsuleID, Composes(ms))
<1> DEFINE id == Build(in).CapsuleID
           binds == Composes(ms)
           b == in.compute
           s == composedReferences(ms)
<1>1. b # Nil
  <2>1. \A x, y, z : LET f == [CarriedArtifact |-> x, CarriedInputDigest |-> y,
                               ComposedMembers |-> z]
                     IN  f = [e \in DOMAIN f |-> f[e]]
    OBVIOUS
  <2> QED
    BY <2>1 DEF NilIsNoValue
<1>2. b.ComposedMembers = s
  OBVIOUS
<1>3. /\ binds.carried = Nil
      /\ binds.members = {[slot |-> ms[i].slot, id |-> ms[i].capsuleID] : i \in DOMAIN ms}
  BY DEF Composes, Unbound
<1>4. RefersTo(s, ms, 4)
  BY ComposedReferences
<1> HIDE DEF s
<1>5. /\ DOMAIN s \subseteq 1..4
      /\ \A k \in DOMAIN s : s[k].Slot \in Slots
      /\ \A k \in DOMAIN s : \E j \in DOMAIN ms :
           s[k].Slot = ms[j].slot /\ s[k].Digest = ms[j].capsuleID
      /\ \A j \in DOMAIN ms : \E k \in DOMAIN s :
           s[k].Slot = ms[j].slot /\ s[k].Digest = ms[j].capsuleID
  BY <1>4, OneForEach
<1> HIDE DEF id, binds, b
<1>6. /\ Attested(id, <<[key |-> "agent_input_digest"]>>) = Nil
      /\ Attested(id, <<[key |-> "agent_output_digest"]>>) = Nil
  BY <1>1, InputBinds DEF id, b
<1>7. \A k \in 1..4 : k \notin DOMAIN s => MemberAt(id, k, "slot") = Nil
  BY <1>2, InputBinds DEF id, b
<1>8. ASSUME NEW k \in DOMAIN s
      PROVE  /\ MemberAt(id, k, "slot") = [text |-> s[k].Slot]
             /\ MemberAt(id, k, "digest") = [digest |-> s[k].Digest]
  <2>1. k \in 1..4 /\ s[k].Slot # Nil
    BY <1>5 DEF NilIsNoSlot
  <2> QED
    BY <1>1, <1>2, <2>1, InputBinds DEF id, b
<1>9. \A x : [text |-> x] # Nil
  <2>1. \A x : LET f == [text |-> x] IN f = [e \in DOMAIN f |-> f[e]]
    OBVIOUS
  <2> QED
    BY <2>1 DEF NilIsNoValue
<1>10. BoundAt(id) = DOMAIN s
  BY <1>5, <1>7, <1>8, <1>9 DEF BoundAt
<1>11. \A k \in DOMAIN s : MemberAt(id, k, "slot").text = s[k].Slot
                           /\ MemberAt(id, k, "digest").digest = s[k].Digest
  BY <1>8
<1>12. {[slot |-> MemberAt(id, k, "slot").text, id |-> MemberAt(id, k, "digest").digest] :
          k \in BoundAt(id)} = binds.members
  <2>1. {[slot |-> MemberAt(id, k, "slot").text, id |-> MemberAt(id, k, "digest").digest] :
           k \in BoundAt(id)}
          = {[slot |-> s[k].Slot, id |-> s[k].Digest] : k \in DOMAIN s}
    BY <1>10, <1>11
  <2>2. {[slot |-> s[k].Slot, id |-> s[k].Digest] : k \in DOMAIN s}
          = {[slot |-> ms[i].slot, id |-> ms[i].capsuleID] : i \in DOMAIN ms}
    BY <1>5
  <2> QED
    BY <1>3, <2>1, <2>2
<1>13. ASSUME NEW k \in DOMAIN s
       PROVE  SlotAt(id, k) \in 1..4 /\ s[k].Slot = compositionSlots[SlotAt(id, k)]
  <2>1. \E n \in 1..4 : s[k].Slot = compositionSlots[n]
    BY <1>5, SlotsDiffer
  <2>2. \E n \in 1..4 : MemberAt(id, k, "slot") = [text |-> compositionSlots[n]]
    BY <1>8, <2>1
  <2>3. SlotAt(id, k) \in 1..4 /\ MemberAt(id, k, "slot") = [text |-> compositionSlots[SlotAt(id, k)]]
    BY <2>2, Zenon DEF SlotAt
  <2>4. [text |-> s[k].Slot] = [text |-> compositionSlots[SlotAt(id, k)]]
    BY <1>8, <2>3
  <2>5. [text |-> s[k].Slot].text = [text |-> compositionSlots[SlotAt(id, k)]].text
    BY <2>4
  <2> QED
    BY <2>3, <2>5
<1>14. \A k, l \in BoundAt(id) : k < l => SlotAt(id, k) < SlotAt(id, l)
  BY <1>4, <1>10, <1>13 DEF RefersTo
<1>15. Bound(id, binds)
  BY <1>3, <1>6, <1>12, <1>14 DEF Bound
<1> QED
  BY <1>15 DEF id, binds

-----------------------------------------------------------------------------
\* What each call of the session binds.

\* The inputs of the session have their texts in order, whatever the library sets in
\* them.
LEMMA SessionTexts ==
  ASSUME NEW in, IsInput(in, {}), NEW out,
         out.Extensions = in.Extensions, out.References = in.References,
         out.compute = Nil \/ IsSeq(out.compute.ComposedMembers)
  PROVE  TextsOK(out)
<1>1. IsSeq(in.Extensions) /\ \A i \in DOMAIN in.Extensions : IsSeq(in.Extensions[i].Value)
  BY SliceIsSeq DEF IsInput
<1>2. in.References # Nil =>
        /\ IsSeq(in.References)
        /\ \A i \in DOMAIN in.References :
             in.References[i].LogCoordinates = Nil \/ IsSeq(in.References[i].LogCoordinates)
  BY SliceIsSeq DEF IsInput
<1> QED
  BY <1>1, <1>2 DEF TextsOK

\* Build, Received and BuildComposition.
LEMMA InputsBind ==
  ASSUME NilIsNoValue, NilIsNoSlot, NEW in, IsInput(in, {}),
         "compute" \in DOMAIN in, in.compute = Nil
  PROVE  /\ Build(in) # Nil => Bound(Build(in).CapsuleID, Unbound)
         /\ \A artifact : Received(in, artifact) # Nil =>
              Bound(Received(in, artifact).CapsuleID, [Unbound EXCEPT !.carried = artifact.bytes])
         /\ \A ms : composable(ms) /\ BuildComposition(in, ms) # Nil =>
              Bound(BuildComposition(in, ms).CapsuleID, Composes(ms))
<1>1. {"Extensions", "References", "compute"} \subseteq DOMAIN in
  BY DEF IsInput
<1>2. TextsOK(in)
  BY SessionTexts
<1>3. ASSUME NEW b, IsSeq(b.ComposedMembers)
      PROVE  TextsOK([in EXCEPT !.compute = b]) /\ [in EXCEPT !.compute = b].compute = b
  <2> DEFINE out == [in EXCEPT !.compute = b]
  <2>1. out.Extensions = in.Extensions /\ out.References = in.References /\ out.compute = b
    BY <1>1
  <2> HIDE DEF out
  <2>2. TextsOK(out)
    BY <1>3, <2>1, SessionTexts
  <2> QED
    BY <2>1, <2>2 DEF out
<1>4. Build(in) # Nil => Bound(Build(in).CapsuleID, Unbound)
  BY <1>2, PlainBinds
<1>5. ASSUME NEW artifact, Received(in, artifact) # Nil
      PROVE  Bound(Received(in, artifact).CapsuleID, [Unbound EXCEPT !.carried = artifact.bytes])
  <2> DEFINE digest == [raw |-> artifact.bytes]
             ref == [Type |-> artifact.type, DigestAlg |-> "SHA-256", Digest |-> digest,
                     Slot |-> Nil]
             b == [CarriedArtifact |-> ref, CarriedInputDigest |-> digest,
                   ComposedMembers |-> <<>>]
             out == [in EXCEPT !.compute = b]
  <2>1. Received(in, artifact) = Build(out)
    BY <1>5, Zenon DEF Received
  <2>2. ref # Nil /\ ref.Digest = [raw |-> artifact.bytes]
    <3>1. ref = [e \in DOMAIN ref |-> ref[e]] /\ ref.Digest = digest
      OBVIOUS
    <3> QED
      BY <3>1 DEF NilIsNoValue
  <2>3. IsSeq(b.ComposedMembers)
    BY EmptyPath
  <2>4. b = [CarriedArtifact |-> ref, CarriedInputDigest |-> [raw |-> artifact.bytes],
             ComposedMembers |-> <<>>]
    OBVIOUS
  <2> HIDE DEF ref, b
  <2>5. TextsOK(out) /\ out.compute = b
    BY <1>3, <2>3
  <2> HIDE DEF out
  <2>6. Build(out) # Nil
    BY <1>5, <2>1
  <2>7. out.compute = [CarriedArtifact |-> ref, CarriedInputDigest |-> [raw |-> artifact.bytes],
                       ComposedMembers |-> <<>>]
    BY <2>4, <2>5
  <2>8. Bound(Build(out).CapsuleID, [Unbound EXCEPT !.carried = artifact.bytes])
    BY <2>2, <2>5, <2>6, <2>7, CarriedBinds
  <2> QED
    BY <2>1, <2>8
<1>6. ASSUME NEW ms, composable(ms), BuildComposition(in, ms) # Nil
      PROVE  Bound(BuildComposition(in, ms).CapsuleID, Composes(ms))
  <2> DEFINE b == [CarriedArtifact |-> Nil, CarriedInputDigest |-> Nil,
                   ComposedMembers |-> composedReferences(ms)]
             out == [in EXCEPT !.compute = b]
  <2>1. BuildComposition(in, ms) = Build(out)
    BY Zenon DEF BuildComposition
  <2>2. IsSeq(b.ComposedMembers)
    BY ComposedReferences DEF RefersTo
  <2>3. b = [CarriedArtifact |-> Nil, CarriedInputDigest |-> Nil,
             ComposedMembers |-> composedReferences(ms)]
    OBVIOUS
  <2> HIDE DEF b
  <2>4. TextsOK(out) /\ out.compute = b
    BY <1>3, <2>2
  <2> HIDE DEF out
  <2>5. Build(out) # Nil
    BY <1>6, <2>1
  <2>6. out.compute = [CarriedArtifact |-> Nil, CarriedInputDigest |-> Nil,
                       ComposedMembers |-> composedReferences(ms)]
    BY <2>3, <2>4
  <2>7. Bound(Build(out).CapsuleID, Composes(ms))
    BY <1>6, <2>4, <2>5, <2>6, CompositionBinds
  <2> QED
    BY <2>1, <2>7
<1> QED
  BY <1>4, <1>5, <1>6

\* What Seal sets in its input leaves the rest alone.
LEMMA SealTexts ==
  ASSUME NEW s \in SealInputs, NEW model, NEW compute
  PROVE  LET out == [s.Capsule EXCEPT !.Model = model, !.Compute = compute]
         IN  IsInput(out, {}) /\ "compute" \in DOMAIN out /\ out.compute = Nil
<1> DEFINE in == s.Capsule
           out == [in EXCEPT !.Model = model, !.Compute = compute]
<1>1. /\ IsInput(in, {}) /\ in.compute = Nil
      /\ {"Model", "Compute", "compute"} \subseteq DOMAIN in
  BY SessionAssumption
<1>2. {"Extensions", "References", "compute"} \subseteq DOMAIN in
  BY <1>1 DEF IsInput
<1> HIDE DEF in
<1>3. /\ DOMAIN out = DOMAIN in
      /\ out.Extensions = in.Extensions /\ out.References = in.References
      /\ out.compute = in.compute
  BY <1>2
<1> HIDE DEF out
<1>4. IsInput(out, {})
  BY <1>1, <1>3 DEF IsInput
<1> QED
  BY <1>1, <1>3, <1>4 DEF out, in

-----------------------------------------------------------------------------
\* The inductive invariant of BindingSound: the members of a composition were held
\* before it, so what a slot member's copy verifies as must have been issued, and a
\* Seal that waits has its binding settled.

HeldBound ==
  \A i \in DOMAIN held :
    /\ "binds" \in DOMAIN held[i]
    /\ Bound(held[i].issued, held[i].binds)
    /\ \A m \in held[i].binds.members : \E j \in 1..(i - 1) : held[j].issued = m.id

MembersIssued ==
  \A i \in DOMAIN members : VerifyCapsule(heap[MemberJson(i)]) \in Issued \cup {Nil}

CallBound ==
  call # Nil /\ call.op = "seal" =>
    /\ Bound(call.built.CapsuleID, call.binds)
    /\ \A m \in call.binds.members : m.id \in Issued

BindingInv == HeldBound /\ MembersIssued /\ CallBound

\* What is held stays bound as long as it is what was issued.
LEMMA HeldBoundKept ==
  ASSUME HeldBound, DOMAIN held' = DOMAIN held, Len(held) \in Nat, DOMAIN held = 1..Len(held),
         \A i \in DOMAIN held : /\ DOMAIN held'[i] = DOMAIN held[i]
                               /\ held'[i].issued = held[i].issued
                               /\ held'[i].binds = held[i].binds
  PROVE  HeldBound'
<1> SUFFICES ASSUME NEW i \in DOMAIN held'
             PROVE  /\ "binds" \in DOMAIN held'[i]
                    /\ Bound(held'[i].issued, held'[i].binds)
                    /\ \A m \in held'[i].binds.members :
                         \E j \in 1..(i - 1) : held'[j].issued = m.id
  BY DEF HeldBound, Bound, BoundAt, SlotAt
<1>1. \A j \in 1..(i - 1) : j \in DOMAIN held
  OBVIOUS
<1> QED
  BY <1>1 DEF HeldBound

\* The application receives a capsule that binds what it should.
LEMMA HoldsBinds ==
  ASSUME SessionInv, BindingInv, NEW b, NEW binds, NEW originals, NEW env,
         Holds(b, binds, originals, env),
         Bound(b.CapsuleID, binds), \A m \in binds.members : m.id \in Issued,
         UNCHANGED members, call' \in {call, Nil}
  PROVE  BindingInv'
<1> DEFINE n == Len(held) + 1
           new == [CapsuleID |-> b.CapsuleID, JSON |-> HeldJson(n), Envelope |-> env,
                   issued |-> b.CapsuleID, binds |-> binds, originals |-> originals]
<1>1. SessionSeqs
  BY DEF SessionInv
<1>2. held'[n] = new /\ \A i \in DOMAIN held : held'[i] = held[i]
  BY <1>1, OneHeld
<1>3. /\ DOMAIN held = 1..Len(held) /\ Len(held) \in Nat
      /\ DOMAIN held' = DOMAIN held \cup {n}
  BY <1>1, OneHeld
<1>4. \A a \in DOMAIN heap : a # HeldJson(n) => heap'[a] = heap[a]
  BY <1>1, OneHeld
<1>5. Issued' = Issued \cup {b.CapsuleID}
  BY <1>1, OneHeld
<1>6. \A i \in DOMAIN held : 1..(i - 1) \subseteq DOMAIN held
  BY <1>3
<1>7. \A j \in DOMAIN held : j \in 1..(n - 1)
  BY <1>3
<1>8. "binds" \in DOMAIN new /\ new.issued = b.CapsuleID /\ new.binds = binds
  OBVIOUS
<1> HIDE DEF n, new
<1>9. HeldBound'
  <2> SUFFICES ASSUME NEW i \in DOMAIN held'
               PROVE  /\ "binds" \in DOMAIN held'[i]
                      /\ Bound(held'[i].issued, held'[i].binds)
                      /\ \A m \in held'[i].binds.members :
                           \E j \in 1..(i - 1) : held'[j].issued = m.id
    BY DEF HeldBound, Bound, BoundAt, SlotAt
  <2>1. CASE i = n
    <3>1. \A m \in binds.members : \E j \in DOMAIN held : held[j].issued = m.id
      BY DEF Issued
    <3>2. \A m \in binds.members : \E j \in 1..(n - 1) : held'[j].issued = m.id
      BY <1>2, <1>7, <3>1
    <3> QED
      BY <1>2, <1>8, <2>1, <3>2
  <2>2. CASE i \in DOMAIN held
    BY <1>2, <1>6, <2>2 DEF BindingInv, HeldBound
  <2> QED
    BY <1>3, <2>1, <2>2
<1>10. MembersIssued'
  BY <1>4, <1>5, AddressesDiffer DEF BindingInv, MembersIssued, SessionInv, MembersKept
<1>11. CallBound'
  <2> SUFFICES ASSUME call' # Nil, call'.op = "seal"
               PROVE  /\ Bound(call'.built.CapsuleID, call'.binds)
                      /\ \A m \in call'.binds.members : m.id \in Issued'
    BY DEF CallBound, Bound, BoundAt, SlotAt
  <2> QED
    BY <1>5 DEF BindingInv, CallBound
<1> QED
  BY <1>9, <1>10, <1>11 DEF BindingInv

\* What can be composed was issued: its copies still verify.
LEMMA ComposedIssued ==
  ASSUME SessionInv, MembersIssued, NEW ms \in Composable
  PROVE  composable(ms) /\ \A m \in Composes(ms).members : m.id \in Issued
<1>1. PICK list \in MemberLists : ms = Resolved(list) /\ composable(ms)
  BY DEF Composable
<1>2. Composes(ms).members = {[slot |-> ms[i].slot, id |-> ms[i].capsuleID] : i \in DOMAIN ms}
  BY DEF Composes, Unbound
<1>3. ASSUME NEW i \in DOMAIN ms
      PROVE  ms[i].capsuleID \in Issued
  <2>1. ms[i].capsuleID # Nil /\ VerifyCapsule(ms[i].json) = ms[i].capsuleID
    BY <1>1 DEF composable, memberVerifies, IsHex
  <2>2. i \in DOMAIN list /\ list[i] \in 0..Len(members)
    BY <1>1 DEF Resolved, MemberLists
  <2>3. list[i] # 0
    <3>1. SUFFICES ASSUME list[i] = 0 PROVE ms[i] = ZeroMember
      BY <2>1 DEF ZeroMember
    <3> QED
      BY <1>1, <2>2, <3>1 DEF Resolved
  <2> DEFINE k == list[i]
             m == members[k]
  <2>4. ms[i] = [slot |-> m.slot, capsuleID |-> m.capsuleID, json |-> heap[m.json]]
    BY <1>1, <2>2, <2>3 DEF Resolved
  <2>5. k \in DOMAIN members
    <3>1. DOMAIN members = 1..Len(members) /\ Len(members) \in Nat
      BY DEF SessionInv, SessionSeqs
    <3> QED
      BY <2>2, <2>3, <3>1
  <2>6. m.json = MemberJson(k)
    BY <2>5 DEF SessionInv, MembersKept
  <2>7. VerifyCapsule(heap[MemberJson(k)]) \in Issued \cup {Nil}
    BY <2>5 DEF MembersIssued
  <2>8. ms[i].json = heap[MemberJson(k)]
    BY <2>4, <2>6
  <2> QED
    BY <2>1, <2>7, <2>8
<1> QED
  BY <1>1, <1>2, <1>3

\* Nothing is bound in a session without calls.
LEMMA InitBinds == Init => BindingInv
<1> SUFFICES ASSUME Init PROVE BindingInv
  OBVIOUS
<1>1. DOMAIN held = {} /\ DOMAIN members = {} /\ call = Nil
  BY DEF Init
<1> QED
  BY <1>1 DEF BindingInv, HeldBound, MembersIssued, CallBound

\* Build, Received and BuildComposition return capsules that bind what they should.
LEMMA BuildsBind ==
  ASSUME NilIsNoValue, NilIsNoSlot, SessionInv, BindingInv,
         BuildCall \/ ReceivedCall \/ CompositionCall
  PROVE  BindingInv'
<1>1. PICK b, binds :
        /\ Holds(b, binds, NoOriginals, Nil) /\ Bound(b.CapsuleID, binds)
        /\ \A m \in binds.members : m.id \in Issued
        /\ UNCHANGED <<members, call>>
  <2>0. \A in \in Inputs : IsInput(in, {}) /\ "compute" \in DOMAIN in /\ in.compute = Nil
    BY SessionAssumption
  <2>1. CASE BuildCall
    <3>1. PICK in \in Inputs : /\ Build(in) # Nil
                               /\ Holds(Build(in), Unbound, NoOriginals, Nil)
                               /\ UNCHANGED <<members, call>>
      BY <2>1 DEF BuildCall, Builds
    <3>2. Bound(Build(in).CapsuleID, Unbound)
      BY <2>0, <3>1, InputsBind
    <3>3. Unbound.members = {}
      BY DEF Unbound
    <3> QED
      BY <3>1, <3>2, <3>3
  <2>2. CASE ReceivedCall
    <3>1. PICK in \in Inputs, artifact \in Foreign :
            /\ Received(in, artifact) # Nil
            /\ Holds(Received(in, artifact), [Unbound EXCEPT !.carried = artifact.bytes],
                     NoOriginals, Nil)
            /\ UNCHANGED <<members, call>>
      BY <2>2 DEF ReceivedCall, Receipts
    <3>2. Bound(Received(in, artifact).CapsuleID, [Unbound EXCEPT !.carried = artifact.bytes])
      BY <2>0, <3>1, InputsBind
    <3>3. [Unbound EXCEPT !.carried = artifact.bytes].members = {}
      BY DEF Unbound
    <3> QED
      BY <3>1, <3>2, <3>3
  <2>3. CASE CompositionCall
    <3>1. PICK ms \in Composable, in \in Inputs :
            /\ BuildComposition(in, ms) # Nil
            /\ Holds(BuildComposition(in, ms), Composes(ms), NoOriginals, Nil)
            /\ UNCHANGED <<members, call>>
      BY <2>3 DEF CompositionCall
    <3>2. composable(ms) /\ \A m \in Composes(ms).members : m.id \in Issued
      BY ComposedIssued DEF BindingInv
    <3>3. Bound(BuildComposition(in, ms).CapsuleID, Composes(ms))
      BY <2>0, <3>1, <3>2, InputsBind
    <3> QED
      BY <3>1, <3>2, <3>3
  <2> QED
    BY <2>1, <2>2, <2>3
<1> QED
  BY <1>1, HoldsBinds

\* What Seal waits with binds what it should.
LEMMA SealsBind ==
  ASSUME NilIsNoValue, NilIsNoSlot, SessionInv, BindingInv, SealCall \/ SealComposition
  PROVE  BindingInv'
<1>1. PICK b, binds, originals :
        /\ Signs(b, "seal", binds, originals) /\ Bound(b.CapsuleID, binds)
        /\ \A m \in binds.members : m.id \in Issued
  <2>1. CASE SealCall
    <3>1. PICK s \in SealInputs :
            /\ Regular(s) # Nil
            /\ Signs(Regular(s), "seal", Unbound,
                     [payload |-> s.Payload, agent_output |-> s.AgentOutput])
      BY <2>1 DEF SealCall, Regulars
    <3>2. PICK compute : Regular(s) = Build([s.Capsule EXCEPT !.Model = s.Model, !.Compute = compute])
      BY <3>1 DEF Regular
    <3> DEFINE in == [s.Capsule EXCEPT !.Model = s.Model, !.Compute = compute]
    <3>3. IsInput(in, {}) /\ "compute" \in DOMAIN in /\ in.compute = Nil
      BY SealTexts
    <3>4. Regular(s) = Build(in)
      BY <3>2
    <3> HIDE DEF in
    <3>5. Bound(Regular(s).CapsuleID, Unbound)
      BY <3>1, <3>3, <3>4, InputsBind
    <3>6. Unbound.members = {}
      BY DEF Unbound
    <3> QED
      BY <3>1, <3>5, <3>6
  <2>2. CASE SealComposition
    <3>1. PICK ms \in Composable, s \in SealInputs :
            \E compute :
              LET b == BuildComposition([s.Capsule EXCEPT !.Model = s.Model,
                                                          !.Compute = compute], ms)
              IN  b # Nil /\ Signs(b, "seal", Composes(ms), NoOriginals)
      BY <2>2 DEF SealComposition
    <3>0. PICK compute :
            LET b == BuildComposition([s.Capsule EXCEPT !.Model = s.Model,
                                                        !.Compute = compute], ms)
            IN  b # Nil /\ Signs(b, "seal", Composes(ms), NoOriginals)
      BY <3>1
    <3> DEFINE in == [s.Capsule EXCEPT !.Model = s.Model, !.Compute = compute]
    <3>2. IsInput(in, {}) /\ "compute" \in DOMAIN in /\ in.compute = Nil
      BY SealTexts
    <3>3. /\ BuildComposition(in, ms) # Nil
          /\ Signs(BuildComposition(in, ms), "seal", Composes(ms), NoOriginals)
      BY <3>0
    <3> HIDE DEF in
    <3>4. composable(ms) /\ \A m \in Composes(ms).members : m.id \in Issued
      BY ComposedIssued DEF BindingInv
    <3>5. Bound(BuildComposition(in, ms).CapsuleID, Composes(ms))
      BY <3>2, <3>3, <3>4, InputsBind
    <3> QED
      BY <3>3, <3>4, <3>5
  <2> QED
    BY <2>1, <2>2
<1>2. /\ call' = [op |-> "seal", built |-> b, kid |-> heap[identity.publicKey], sig |-> Nil,
                  binds |-> binds, originals |-> originals]
      /\ UNCHANGED <<heap, held, members>>
  BY <1>1 DEF Signs
<1>3. call'.built = b /\ call'.binds = binds
  BY <1>2
<1>4. Issued' = Issued
  BY <1>2 DEF Issued
<1>5. CallBound'
  <2> SUFFICES /\ Bound(call'.built.CapsuleID, call'.binds)
               /\ \A m \in call'.binds.members : m.id \in Issued'
    BY DEF CallBound, Bound, BoundAt, SlotAt
  <2> QED
    BY <1>1, <1>3, <1>4
<1>6. HeldBound'
  <2>1. Len(held) \in Nat /\ DOMAIN held = 1..Len(held)
    BY DEF SessionInv, SessionSeqs
  <2> QED
    BY <1>2, <2>1, HeldBoundKept DEF BindingInv
<1>7. MembersIssued'
  BY <1>2, <1>4 DEF BindingInv, MembersIssued
<1> QED
  BY <1>5, <1>6, <1>7 DEF BindingInv

\* Slot members copy what is held; a new identity, Sign, an answer and Sign's return
\* bind nothing.
LEMMA OthersBind ==
  ASSUME SessionInv, BindingInv,
         \/ SlotCall \/ NewIdentity \/ SignCall
         \/ KmsSigns \/ KmsFails \/ SignRefuses \/ SignReturns
  PROVE  BindingInv'
<1>1. Len(held) \in Nat /\ DOMAIN held = 1..Len(held)
  BY DEF SessionInv, SessionSeqs
<1>2. held' = held
  BY DEF SlotCall, NewIdentity, SignCall, Signs, KmsSigns, KmsFails, SignRefuses, SignReturns
<1>3. HeldBound' /\ Issued' = Issued
  BY <1>1, <1>2, HeldBoundKept DEF BindingInv, Issued
<1>4. MembersIssued'
  <2>1. CASE SlotCall
    <3>1. PICK i \in DOMAIN held, slot \in UsedSlots : newSlotMember(held[i], slot)
      BY <2>1 DEF SlotCall
    <3> DEFINE n == Len(members) + 1
               json == heap[held[i].JSON]
               new == Member(held[i], slot, MemberJson(n))
    <3>2. heap' = Write(MemberJson(n), json) /\ members' = Append(members, new)
      BY <3>1 DEF newSlotMember
    <3>3. VerifyCapsule(json) \in Issued \cup {Nil}
      BY DEF SessionInv, HeldIssued
    <3>4. DOMAIN members' = DOMAIN members \cup {n} /\ n \notin DOMAIN members
      <4> HIDE DEF new
      <4>1. PICK S : members \in Seq(S)
        BY DEF SessionInv, SessionSeqs
      <4>2. /\ DOMAIN members = 1..Len(members) /\ Len(members) \in Nat
            /\ DOMAIN Append(members, new) = 1..(Len(members) + 1)
        BY <4>1, Appended
      <4> QED
        BY <3>2, <4>2
    <3> HIDE DEF n, json
    <3>5. /\ heap'[MemberJson(n)] = json
          /\ \A a \in DOMAIN heap : a # MemberJson(n) => heap'[a] = heap[a]
      BY <3>2, WriteReads
    <3>6. \A k \in DOMAIN members : heap'[MemberJson(k)] = heap[MemberJson(k)]
      BY <3>4, <3>5, AddressesDiffer DEF SessionInv, MembersKept
    <3> QED
      BY <1>3, <3>3, <3>4, <3>5, <3>6 DEF BindingInv, MembersIssued
  <2>2. CASE NewIdentity
    <3>1. heap' = Write(IdentityKey, heap[CallerKey]) /\ members' = members
      BY <2>2 DEF NewIdentity
    <3>2. \A a \in DOMAIN heap : a # IdentityKey => heap'[a] = heap[a]
      BY <3>1, WriteReads
    <3>3. \A k \in DOMAIN members : heap'[MemberJson(k)] = heap[MemberJson(k)]
      BY <3>2, AddressesDiffer DEF SessionInv, MembersKept
    <3> QED
      BY <1>3, <3>1, <3>3 DEF BindingInv, MembersIssued
  <2>3. CASE SignCall \/ KmsSigns \/ KmsFails \/ SignRefuses \/ SignReturns
    <3>1. heap' = heap /\ members' = members
      BY <2>3 DEF SignCall, Signs, KmsSigns, KmsFails, SignRefuses, SignReturns
    <3> QED
      BY <1>3, <3>1 DEF BindingInv, MembersIssued
  <2> QED
    BY <2>1, <2>2, <2>3
<1>5. CallBound'
  <2> SUFFICES ASSUME call' # Nil, call'.op = "seal"
               PROVE  /\ Bound(call'.built.CapsuleID, call'.binds)
                      /\ \A m \in call'.binds.members : m.id \in Issued'
    BY DEF CallBound, Bound, BoundAt, SlotAt
  <2>1. \/ call' \in {call, Nil}
        \/ call # Nil /\ call' = [call EXCEPT !.sig = kms]
        \/ call'.op = "sign"
    BY DEF SlotCall, NewIdentity, SignCall, Signs, KmsSigns, KmsFails, SignRefuses, SignReturns
  <2>2. /\ call # Nil
        /\ call'.op = call.op /\ call'.built = call.built /\ call'.binds = call.binds
    BY <2>1 DEF SessionInv, CallChecked
  <2> QED
    BY <1>3, <2>2 DEF BindingInv, CallBound
<1> QED
  BY <1>3, <1>4, <1>5 DEF BindingInv

\* What Seal returns binds what it waited with.
LEMMA SealedBinds ==
  ASSUME SessionInv, BindingInv, SealReturns
  PROVE  BindingInv'
<1> DEFINE b == call.built
           binds == call.binds
           originals == call.originals
           env == SignedEnvelope
<1>1. /\ Holds(b, binds, originals, env)
      /\ Bound(b.CapsuleID, binds) /\ \A m \in binds.members : m.id \in Issued
      /\ UNCHANGED members /\ call' \in {call, Nil}
  BY DEF SealReturns, BindingInv, CallBound
<1> HIDE DEF b, binds, originals, env
<1> QED
  BY <1>1, HoldsBinds

\* The environment changes no id that was issued and no copy of a member.
LEMMA FaultsBind ==
  ASSUME SessionInv, BindingInv, Rotate \/ OverwriteKey \/ OverwriteJson \/ Relabel
  PROVE  BindingInv'
<1>1. Len(held) \in Nat /\ DOMAIN held = 1..Len(held)
  BY DEF SessionInv, SessionSeqs
<1>2. UNCHANGED <<members, call>>
  BY DEF Rotate, OverwriteKey, OverwriteJson, Relabel
<1>3. /\ DOMAIN held' = DOMAIN held
      /\ \A i \in DOMAIN held : /\ DOMAIN held'[i] = DOMAIN held[i]
                                /\ held'[i].issued = held[i].issued
                                /\ held'[i].binds = held[i].binds
  <2>1. CASE held' = held
    BY <2>1
  <2>2. CASE Relabel
    <3>1. PICK i \in DOMAIN held, id \in OtherIds : held' = [held EXCEPT ![i].CapsuleID = id]
      BY <2>2 DEF Relabel
    <3>2. /\ DOMAIN held' = DOMAIN held
          /\ \A j \in DOMAIN held :
               /\ DOMAIN held'[j] = DOMAIN held[j]
               /\ \A f \in DOMAIN held[j] : f # "CapsuleID" => held'[j][f] = held[j][f]
      BY <3>1
    <3> QED
      BY <3>2 DEF SessionInv, HeldIssued, BindingInv, HeldBound
  <2> QED
    BY <2>1, <2>2 DEF Rotate, OverwriteKey, OverwriteJson
<1>4. HeldBound'
  BY <1>1, <1>3, HeldBoundKept DEF BindingInv
<1>5. Issued' = Issued
  BY <1>3 DEF Issued
<1>6. \A k \in DOMAIN members : heap'[MemberJson(k)] = heap[MemberJson(k)]
  <2>1. CASE heap' = heap
    BY <2>1
  <2>2. CASE \E a, content : heap' = Write(a, content) /\ \A k : a # MemberJson(k)
    <3>1. PICK a, content : heap' = Write(a, content) /\ \A k : a # MemberJson(k)
      BY <2>2
    <3>2. \A c \in DOMAIN heap : c # a => heap'[c] = heap[c]
      BY <3>1, WriteReads
    <3> QED
      BY <3>1, <3>2 DEF SessionInv, MembersKept
  <2>3. CASE OverwriteKey
    BY <2>2, <2>3, AddressesDiffer DEF OverwriteKey
  <2>4. CASE OverwriteJson
    <3>1. PICK i \in DOMAIN held : \E json : heap' = Write(held[i].JSON, json)
      BY <2>4 DEF OverwriteJson
    <3>2. held[i].JSON = HeldJson(i)
      BY DEF SessionInv, HeldIssued
    <3> QED
      BY <2>2, <3>1, <3>2, AddressesDiffer
  <2> QED
    BY <2>1, <2>3, <2>4 DEF Rotate, Relabel
<1>7. MembersIssued'
  BY <1>2, <1>5, <1>6 DEF BindingInv, MembersIssued
<1>8. CallBound'
  <2> SUFFICES ASSUME call' # Nil, call'.op = "seal"
               PROVE  /\ Bound(call'.built.CapsuleID, call'.binds)
                      /\ \A m \in call'.binds.members : m.id \in Issued'
    BY DEF CallBound, Bound, BoundAt, SlotAt
  <2> QED
    BY <1>2, <1>5 DEF BindingInv, CallBound
<1> QED
  BY <1>4, <1>7, <1>8 DEF BindingInv

\* Every step keeps what is bound.
LEMMA StepBinds ==
  ASSUME NilIsNoValue, NilIsNoSlot
  PROVE  SessionInv /\ BindingInv /\ [Next]_vars => BindingInv'
<1> SUFFICES ASSUME SessionInv, BindingInv, [Next]_vars
             PROVE  BindingInv'
  OBVIOUS
<1>1. CASE BuildCall \/ ReceivedCall \/ CompositionCall
  BY <1>1, BuildsBind
<1>2. CASE SealCall \/ SealComposition
  BY <1>2, SealsBind
<1>3. CASE \/ SlotCall \/ NewIdentity \/ SignCall
           \/ KmsSigns \/ KmsFails \/ SignRefuses \/ SignReturns
  BY <1>3, OthersBind
<1>4. CASE SealReturns
  BY <1>4, SealedBinds
<1>5. CASE Rotate \/ OverwriteKey \/ OverwriteJson \/ Relabel
  BY <1>5, FaultsBind
<1>6. CASE UNCHANGED vars
  <2>1. held' = held /\ members' = members /\ heap' = heap /\ call' = call
    BY <1>6 DEF vars
  <2>2. Len(held) \in Nat /\ DOMAIN held = 1..Len(held)
    BY DEF SessionInv, SessionSeqs
  <2>3. HeldBound'
    BY <2>1, <2>2, HeldBoundKept DEF BindingInv
  <2>4. Issued' = Issued
    BY <2>1 DEF Issued
  <2>5. MembersIssued'
    BY <2>1, <2>4 DEF BindingInv, MembersIssued
  <2>6. CallBound'
    <3> SUFFICES ASSUME call' # Nil, call'.op = "seal"
                 PROVE  /\ Bound(call'.built.CapsuleID, call'.binds)
                        /\ \A m \in call'.binds.members : m.id \in Issued'
      BY DEF CallBound, Bound, BoundAt, SlotAt
    <3> QED
      BY <2>1, <2>4 DEF BindingInv, CallBound
  <2> QED
    BY <2>3, <2>5, <2>6 DEF BindingInv
<1> QED
  BY <1>1, <1>2, <1>3, <1>4, <1>5, <1>6 DEF Next

\* A composition binds exactly the capsules it was given, in the order of the slots
\* and issued before it, a carried artifact is bound by the digest of its bytes, and
\* neither claims an agent's input or output, whatever is overwritten, relabelled and
\* rotated meanwhile (construction.go:28-46, 98-141).
THEOREM BindingsAreSound ==
  ASSUME NilIsNoValue, NilIsNoSlot
  PROVE  Spec => []BindingSound
<1>1. BindingInv => BindingSound
  <2> SUFFICES ASSUME BindingInv, NEW i \in DOMAIN held
               PROVE  /\ Bound(held[i].issued, held[i].binds)
                      /\ \A m \in held[i].binds.members :
                           \E j \in 1..(i - 1) : held[j].issued = m.id
    BY Zenon DEF BindingSound, Bound, BoundAt, SlotAt
  <2> QED
    BY DEF BindingInv, HeldBound
<1>2. Spec => []SessionInv
  BY SessionSound
<1>3. SessionInv /\ BindingInv /\ [Next]_vars => BindingInv'
  BY StepBinds
<1> QED
  BY <1>1, <1>2, <1>3, InitBinds, PTL DEF Spec

-----------------------------------------------------------------------------
\* What a store makes of a Result and one original.

\* The field of the compute attestation that an original is bound to.
LeafOf(field) == IF field = "payload" THEN "agent_input_digest" ELSE "agent_output_digest"

\* A record holds the capsule, the envelope and the original: 8 MiB in the code.
ContentsFit == \A c \in Contents : Len(c) + 2 <= 8 * 1024 * 1024

\* The empty string is no field.
NilIsNoField == Nil \notin {"payload", "agent_output"}

\* A slice of one element.
LEMMA OfOne ==
  ASSUME NEW x
  PROVE  DOMAIN <<x>> = {1} /\ <<x>>[1] = x /\ Len(<<x>>) = 1
<1>1. DOMAIN <<x>> = 1..1 /\ <<x>>[1] = x /\ Len(<<x>>) = 1
  OBVIOUS
<1> QED BY <1>1

\* Nothing is too large, and every check passes but the one of the digest.
LEMMA AdmittedIff ==
  ASSUME NilIsNoField, ContentsFit, NEW r, NEW field \in {"payload", "agent_output"}, NEW c \in Contents,
         c # Nil, Len(c) \in Nat, r.CapsuleID # Nil,
         r.Envelope.sig = r.Envelope.kid, r.Envelope.over = r.CapsuleID
  PROVE  LET D == DigestLeaf(heap[r.JSON], LeafOf(field))
             rec == RecordOf(r, r.CapsuleID, field, c)
         IN  Artifacts({r.CapsuleID})!AdmissionError(rec, {r.Envelope.kid}) = "ok"
               <=> D # Nil /\ DigestJSON(c) = D
<1> DEFINE D == DigestLeaf(heap[r.JSON], LeafOf(field))
           rec == RecordOf(r, r.CapsuleID, field, c)
           a == [name |-> field, binding |-> field, content |-> c, state |-> "present",
                 sha |-> Nil]
           b == [name |-> field, binding |-> field, content |-> c, state |-> "present",
                 sha |-> c]
           ids == {r.CapsuleID}
           prep == Artifacts(ids)!Prepared(rec)
<1>1. /\ rec.id = r.CapsuleID /\ rec.capsule.ok /\ rec.capsule.id = r.CapsuleID
      /\ rec.capsule.size = 1 /\ rec.capsule.digest[field] = D
      /\ rec.envelope.ok /\ rec.envelope.over = r.CapsuleID
      /\ rec.envelope.key = r.Envelope.kid /\ rec.envelope.size = 1
      /\ rec.artifacts = <<a>>
  <2> DEFINE digests == [payload |-> DigestLeaf(heap[r.JSON], "agent_input_digest"),
                         agent_output |-> DigestLeaf(heap[r.JSON], "agent_output_digest"),
                         effect_request |-> Nil, effect_response |-> Nil]
             capsule == [ok |-> r.CapsuleID # Nil, id |-> r.CapsuleID, size |-> 1,
                         digest |-> digests]
             envelope == [ok |-> r.Envelope.sig = r.Envelope.kid, over |-> r.Envelope.over,
                          key |-> r.Envelope.kid, size |-> 1]
             as == <<a>>
  <2>1. rec = [id |-> r.CapsuleID, capsule |-> capsule, envelope |-> envelope,
               artifacts |-> as]
    BY Zenon DEF RecordOf
  <2>2. digests[field] = D
    BY DEF LeafOf
  <2> HIDE DEF rec, D, digests
  <2>3. capsule.ok /\ capsule.id = r.CapsuleID /\ capsule.size = 1 /\ capsule.digest = digests
    OBVIOUS
  <2>4. envelope.ok /\ envelope.over = r.CapsuleID /\ envelope.key = r.Envelope.kid
        /\ envelope.size = 1
    OBVIOUS
  <2> HIDE DEF capsule, envelope, as
  <2>5. rec.id = r.CapsuleID /\ rec.capsule = capsule /\ rec.envelope = envelope
        /\ rec.artifacts = as
    BY <2>1
  <2> QED BY <2>2, <2>3, <2>4, <2>5 DEF as
<1> HIDE DEF rec, D
<1>a. /\ a.name = field /\ a.binding = field /\ a.content = c /\ a.state = "present"
      /\ a.sha = Nil
      /\ b.name = field /\ b.binding = field /\ b.content = c /\ b.state = "present"
      /\ b.sha = c
  OBVIOUS
<1>b. Artifacts(ids)!PreparedArtifact(a) = b
  BY DEF Artifacts!PreparedArtifact, Artifacts!WithContent, Artifacts!Present,
         Artifacts!rawDigest
<1> HIDE DEF a, b, ids
<1>2. /\ DOMAIN rec.artifacts = {1} /\ rec.artifacts[1] = a /\ Len(rec.artifacts) = 1
  BY <1>1, OfOne
<1>3. Artifacts(ids)!RecordSize(rec) = 2 + Len(c)
  <2> DEFINE sizes == [e \in Contents |-> Len(e)]
             size(i) == LET e == rec.artifacts[i].content
                        IN  IF e = Nil THEN 0 ELSE sizes[e]
             Rule(f) == f = [s \in SUBSET (DOMAIN rec.artifacts) |->
                               IF s = {} THEN 0
                               ELSE LET x == CHOOSE x \in s : TRUE
                                    IN  size(x) + f[s \ {x}]]
             iter == CHOOSE f : Rule(f)
  <2>1. Artifacts(ids)!RecordSize(rec)
          = rec.capsule.size + rec.envelope.size + iter[DOMAIN rec.artifacts]
    BY Zenon DEF Artifacts!RecordSize, Artifacts!MapThenSumSet, Artifacts!MapThenFoldSet
  <2>2. size(1) = Len(c)
    BY <1>2, <1>a
  <2> HIDE DEF size
  <2> DEFINE g == [s \in SUBSET {1} |-> IF s = {} THEN 0 ELSE size(1) + 0]
  <2>3. Rule(g)
    <3>1. g[{}] = 0
      OBVIOUS
    <3>2. ASSUME NEW s \in SUBSET {1}, s # {}
          PROVE  (CHOOSE x \in s : TRUE) = 1 /\ s \ {1} = {}
      <4>1. s = {1}
        BY <3>2
      <4>2. (CHOOSE x \in {1} : TRUE) \in {1}
        OBVIOUS
      <4> QED BY <4>1, <4>2
    <3> HIDE DEF g
    <3>3. ASSUME NEW s \in SUBSET {1}
          PROVE  (IF s = {} THEN 0 ELSE size(1) + 0)
                   = IF s = {} THEN 0
                     ELSE LET x == CHOOSE x \in s : TRUE IN size(x) + g[s \ {x}]
      BY <3>1, <3>2
    <3>4. g = [s \in SUBSET {1} |->
                 IF s = {} THEN 0
                 ELSE LET x == CHOOSE x \in s : TRUE IN size(x) + g[s \ {x}]]
      BY <3>3, Zenon DEF g
    <3> QED BY <1>2, <3>4
  <2>4. Rule(iter)
    BY <2>3, Zenon
  <2>5. iter = [s \in SUBSET {1} |->
                  IF s = {} THEN 0
                  ELSE LET x == CHOOSE x \in s : TRUE IN size(x) + iter[s \ {x}]]
    BY <1>2, <2>4
  <2> HIDE DEF iter
  <2>6. iter[{}] = 0
    BY <2>5
  <2>7. iter[{1}] = LET x == CHOOSE x \in {1} : TRUE IN size(x) + iter[{1} \ {x}]
    BY <2>5
  <2>8. (CHOOSE x \in {1} : TRUE) = 1 /\ {1} \ {1} = {}
    OBVIOUS
  <2>9. iter[{1}] = size(1) + iter[{}]
    BY <2>7, <2>8, Zenon
  <2>10. iter[{1}] = Len(c)
    BY <2>2, <2>6, <2>9
  <2>11. Artifacts(ids)!RecordSize(rec) = 1 + 1 + iter[{1}]
    BY <1>1, <1>2, <2>1, Zenon
  <2> QED
    BY <2>10, <2>11
<1>4. Artifacts(ids)!PrepareError(rec) = "ok"
  <2>1. Len(c) + 2 <= 8 * 1024 * 1024
    BY DEF ContentsFit
  <2>2. Artifacts(ids)!PrepareArtifact(a) = "ok"
    BY <1>a DEF Artifacts!PrepareArtifact, Artifacts!Purged, Artifacts!Present
  <2>3. {i \in DOMAIN rec.artifacts : Artifacts(ids)!PrepareArtifact(rec.artifacts[i]) # "ok"} = {}
    BY <1>2, <2>2
  <2>4. ~ (Len(rec.artifacts) > 64 \/ rec.envelope.size > 65535)
    BY <1>1, <1>2
  <2>5. ~ (Artifacts(ids)!RecordSize(rec) > 8 * 1024 * 1024)
    BY <1>3, <2>1
  <2> DEFINE bad == {i \in DOMAIN rec.artifacts :
                       Artifacts(ids)!PrepareArtifact(rec.artifacts[i]) # "ok"}
             large == Len(rec.artifacts) > 64 \/ rec.envelope.size > 65535
             vast == Artifacts(ids)!RecordSize(rec) > 8 * 1024 * 1024
  <2>6. Artifacts(ids)!PrepareError(rec)
          = IF large THEN "ErrInvalid"
            ELSE IF bad # {}
                 THEN Artifacts(ids)!PrepareArtifact(rec.artifacts[Artifacts(ids)!Min(bad)])
            ELSE IF vast THEN "ErrInvalid" ELSE "ok"
    BY SMTT(30) DEF Artifacts!PrepareError
  <2>7. bad = {} /\ ~ large /\ ~ vast
    BY <2>3, <2>4, <2>5
  <2> HIDE DEF bad, large, vast
  <2> QED
    BY <2>6, <2>7
<1>5. /\ prep.id = r.CapsuleID /\ prep.capsule = rec.capsule /\ prep.envelope = rec.envelope
      /\ DOMAIN prep.artifacts = {1} /\ prep.artifacts[1] = b
  <2> DEFINE as == [i \in DOMAIN rec.artifacts |-> Artifacts(ids)!PreparedArtifact(rec.artifacts[i])]
  <2>1. prep = [id |-> rec.id, capsule |-> rec.capsule, envelope |-> rec.envelope,
                artifacts |-> as]
    BY Zenon DEF Artifacts!Prepared, Artifacts!WithArtifacts
  <2>2. DOMAIN as = {1} /\ as[1] = b
    BY <1>2, <1>b
  <2> HIDE DEF as, prep
  <2> QED
    BY <1>1, <2>1, <2>2
<1> HIDE DEF prep
<1>6. Artifacts(ids)!digestAt(prep.capsule, field) = D
  <2>1. field \in Artifacts(ids)!DigestField
    BY DEF Artifacts!DigestField
  <2>2. Artifacts(ids)!digestAt(prep.capsule, field) = prep.capsule.digest[field]
    BY <2>1, Zenon DEF Artifacts!digestAt
  <2> QED
    BY <1>1, <1>5, <2>2
<1>7. Artifacts(ids)!StateError(b, D) = "ok" <=> DigestJSON(c) = D
  <2> DEFINE digests == [x \in Contents |-> DigestJSON(x)]
             purged == IF b.content # Nil \/ b.sha \notin Contents THEN "ErrInvalid" ELSE "ok"
             never == IF b.content # Nil \/ b.sha # Nil THEN "ErrInvalid" ELSE "ok"
             present == IF b.content = Nil THEN "ErrInvalid"
                        ELSE IF b.sha # Nil /\ b.sha # Artifacts(ids)!rawDigest(b.content)
                             THEN "ErrCorrupt"
                        ELSE IF b.binding # Nil /\ digests[b.content] # D
                             THEN "ErrDigestMismatch" ELSE "ok"
  <2>1. Artifacts(ids)!StateError(b, D)
          = CASE b.state = "present" -> present
              [] b.state = "purged" -> purged
              [] b.state = "never_retained" -> never
              [] OTHER -> "ErrInvalid"
    BY Zenon DEF Artifacts!StateError, Artifacts!Present, Artifacts!Purged,
                 Artifacts!NeverRetained
  <2>2. digests[b.content] = DigestJSON(c)
    BY <1>a
  <2>3. Artifacts(ids)!rawDigest(b.content) = c
    BY <1>a DEF Artifacts!rawDigest
  <2> HIDE DEF digests
  <2>4. present = IF DigestJSON(c) = D THEN "ok" ELSE "ErrDigestMismatch"
    BY <1>a, <2>2, <2>3 DEF NilIsNoField
  <2> HIDE DEF present, purged, never
  <2>5. Artifacts(ids)!StateError(b, D) = present
    BY <1>a, <2>1
  <2> QED
    BY <2>4, <2>5
<1>8. Artifacts(ids)!ArtifactError(prep, 1) = "ok" <=> D # Nil /\ DigestJSON(c) = D
  <2>1. Artifacts(ids)!ArtifactError(prep, 1)
          = IF b.name \notin {"payload", "agent_output"} THEN "ErrInvalid"
            ELSE IF \E j \in 1..(1 - 1) : prep.artifacts[j].name = b.name THEN "ErrInvalid"
            ELSE IF b.binding # Nil /\ Artifacts(ids)!digestAt(prep.capsule, b.binding) = Nil
                 THEN "ErrInvalid"
            ELSE Artifacts(ids)!StateError(b, Artifacts(ids)!digestAt(prep.capsule, b.binding))
    BY <1>5, Zenon DEF Artifacts!ArtifactError
  <2>2. 1..(1 - 1) = {}
    OBVIOUS
  <2>3. b.name \in {"payload", "agent_output"} /\ b.binding # Nil
        /\ Artifacts(ids)!digestAt(prep.capsule, b.binding) = D
    BY <1>a, <1>6 DEF NilIsNoField
  <2>4. Artifacts(ids)!ArtifactError(prep, 1)
          = IF D = Nil THEN "ErrInvalid" ELSE Artifacts(ids)!StateError(b, D)
    BY <2>1, <2>2, <2>3
  <2> QED
    BY <1>7, <2>4
<1>9. Artifacts(ids)!Verify(prep, {r.Envelope.kid}) = "ok"
        <=> Artifacts(ids)!ArtifactError(prep, 1) = "ok"
  <2> DEFINE bad == Artifacts(ids)!BadArtifacts(prep)
             unsound == \/ prep.id \notin ids \/ ~ prep.capsule.ok \/ prep.capsule.id # prep.id
                        \/ ~ Artifacts(ids)!EnvelopeOver(prep.envelope, prep.id)
  <2>1. Artifacts(ids)!Verify(prep, {r.Envelope.kid})
          = IF unsound THEN "ErrInvalid"
            ELSE IF prep.envelope.key \notin {r.Envelope.kid} THEN "ErrUntrustedSigner"
            ELSE IF bad # {} THEN Artifacts(ids)!ArtifactError(prep, Artifacts(ids)!Min(bad))
            ELSE "ok"
    BY Zenon DEF Artifacts!Verify
  <2>2. Artifacts(ids)!EnvelopeOver(prep.envelope, prep.id)
    BY <1>1, <1>5 DEF Artifacts!EnvelopeOver
  <2>3. ~ unsound /\ prep.envelope.key \in {r.Envelope.kid}
    BY <1>1, <1>5, <2>2 DEF ids
  <2>4. bad = {i \in {1} : Artifacts(ids)!ArtifactError(prep, i) # "ok"}
    BY <1>5, Zenon DEF Artifacts!BadArtifacts
  <2> HIDE DEF bad, unsound
  <2>5. CASE Artifacts(ids)!ArtifactError(prep, 1) = "ok"
    <3>1. bad = {}
      BY <2>4, <2>5
    <3> QED BY <2>1, <2>3, <2>5, <3>1
  <2>6. CASE Artifacts(ids)!ArtifactError(prep, 1) # "ok"
    <3>1. bad = {1}
      BY <2>4, <2>6
    <3>2. Artifacts(ids)!Min({1}) = 1
      <4>1. Artifacts(ids)!Min({1}) = CHOOSE x \in {1} : \A y \in {1} : x <= y
        BY Zenon DEF Artifacts!Min
      <4>2. \E x \in {1} : \A y \in {1} : x <= y
        OBVIOUS
      <4> QED BY <4>1, <4>2
    <3> QED BY <2>1, <2>3, <2>6, <3>1, <3>2
  <2> QED
    BY <2>5, <2>6
<1>10. Artifacts(ids)!AdmissionError(rec, {r.Envelope.kid})
         = Artifacts(ids)!Verify(prep, {r.Envelope.kid})
  BY <1>4, Zenon DEF Artifacts!AdmissionError, prep
<1> QED
  BY <1>8, <1>9, <1>10 DEF rec, D, ids

\* What a verified capsule commits for a field is what stands in its JSON.
LEMMA VerifiedLeaf ==
  ASSUME NilIsNoValue, NEW json, VerifyCapsule(json) # Nil, NEW name,
         NEW d, d = Nil \/ IsHex(d),
         Attested(VerifyCapsule(json), <<[key |-> name]>>) = IF d = Nil THEN Nil ELSE [digest |-> d]
  PROVE  DigestLeaf(json, name) = d
<1> DEFINE payload == [p \in DOMAIN json |-> Scalar(json[p])]
           path == <<[key |-> "model_attestation"], [key |-> "compute_attestation"],
                     [key |-> name]>>
           left == [p \in {q \in DOMAIN payload : Head(q).key \notin LocalOnly} |-> payload[p]]
           id == VerifyCapsule(json)
<1>1. payload = DecodePayload(json) /\ id = ComputeCapsuleID(payload)
  BY Zenon DEF VerifyCapsule, VerifiedId, DecodePayload
<1>2. id.capsule = left
  <2>1. ComputeCapsuleID(payload) = [capsule |-> left]
    BY Zenon DEF ComputeCapsuleID
  <2> HIDE DEF left, payload, id
  <2> QED BY <1>1, <2>1
<1>3. Attested(id, <<[key |-> name]>>) = At(left, path)
  <2>1. <<[key |-> "model_attestation"], [key |-> "compute_attestation"]>> \o <<[key |-> name]>>
          = path
    <3>1. ASSUME NEW q, IsSeq(q)
          PROVE  <<[key |-> "model_attestation"], [key |-> "compute_attestation"]>> \o q
                   = <<[key |-> "model_attestation"]>> \o (<<[key |-> "compute_attestation"]>> \o q)
      BY <3>1, LongPaths
    <3>2. IsSeq(<<[key |-> name]>>)
      <4>1. <<[key |-> name]>> \o <<>> = <<[key |-> name]>>
        BY LongPaths, EmptyPath
      <4> QED BY <4>1, EmptyPath, Prefixed
    <3>3. \A u, v, w : <<u>> \o (<<v>> \o <<w>>) = <<u, v, w>>
      BY PathOfThree, Zenon
    <3> QED BY <3>1, <3>2, <3>3, ZenonT(60)
  <2> HIDE DEF left, path, id
  <2> QED BY <1>2, <2>1 DEF Attested
<1>4. Head(path).key \notin LocalOnly
  <2>1. Head(path) = [key |-> "model_attestation"]
    OBVIOUS
  <2> HIDE DEF path
  <2> QED BY <2>1 DEF LocalOnly
<1> HIDE DEF path
<1>5. (path \in DOMAIN left <=> path \in DOMAIN json)
      /\ (path \in DOMAIN json => left[path] = Scalar(json[path]))
  BY <1>4
<1> HIDE DEF left, payload, id
<1>6. \A x : [digest |-> x] # Nil
  <2>1. \A x : LET f == [digest |-> x] IN f = [e \in DOMAIN f |-> f[e]]
    OBVIOUS
  <2> QED BY <2>1 DEF NilIsNoValue
<1>7. [num |-> "0"] # Nil /\ \A x : [num |-> "0"] # [digest |-> x]
  <2>1. LET f == [num |-> "0"] IN f = [e \in DOMAIN f |-> f[e]]
    OBVIOUS
  <2>2. DOMAIN [num |-> "0"] = {"num"} /\ \A x : DOMAIN [digest |-> x] = {"digest"}
    OBVIOUS
  <2>3. {"num"} # {"digest"}
    OBVIOUS
  <2> QED BY <2>1, <2>2, <2>3 DEF NilIsNoValue
<1>8. At(json, path) = IF d = Nil THEN Nil ELSE [digest |-> d]
  BY <1>3, <1>5, <1>6, <1>7 DEF At, Scalar, id
<1>9. DigestLeaf(json, name)
        = IF At(json, path) = Nil \/ ~ IsHex(At(json, path).digest) THEN Nil
          ELSE At(json, path).digest
  BY Zenon DEF DigestLeaf, path
<1> QED BY <1>6, <1>8, <1>9

\* An original that Seal can have been given.
Original(v) == v = Nil \/ (v \in Values /\ Digestible(v))

\* The id commits the digest of each original, and nothing for one that was absent.
Committed(id, originals) ==
  \A field \in {"payload", "agent_output"} :
    /\ Original(originals[field])
    /\ Attested(id, <<[key |-> LeafOf(field)]>>)
         = IF Commitment(originals[field]) = Nil THEN Nil
           ELSE [digest |-> Commitment(originals[field])]

\* Contents are slices.
LEMMA ContentsAreSlices ==
  ASSUME NilIsNoValue, NEW c \in Contents
  PROVE  c # Nil /\ Len(c) \in Nat
<1>1. IsSeq(c)
  <2>1. CASE c = <<>>
    BY <2>1, EmptyPath
  <2>2. CASE c # <<>>
    <3>1. PICK v \in Values \ {Nil} : c = v.json
      BY <2>2 DEF Contents
    <3>2. PICK s \in SealInputs : v \in {s.Payload, s.AgentOutput} \ {Nil}
      BY <3>1 DEF Values
    <3>3. IsSlice(c)
      BY <3>1, <3>2, SealAssumption
    <3> QED BY <3>3, SliceIsSeq
  <2> QED BY <2>1, <2>2
<1>2. c = [i \in DOMAIN c |-> c[i]] /\ Len(c) \in Nat
  BY <1>1 DEF IsSeq
<1> QED BY <1>2 DEF NilIsNoValue

\* A digest of JSON is 64 hex digits and says which document it is of.
LEMMA DigestOf ==
  ASSUME NilIsNoValue, NEW c
  PROVE  /\ DigestJSON(c) # Nil <=> decodeStrictJSON(c) # Nil /\ Canonical(decodeStrictJSON(c))
         /\ DigestJSON(c) # Nil => /\ DigestJSON(c) = [jcs |-> decodeStrictJSON(c)]
                                   /\ IsHex(DigestJSON(c))
<1>1. \A x : [jcs |-> x] # Nil /\ IsHex([jcs |-> x])
  <2>1. \A x : LET f == [jcs |-> x] IN f = [e \in DOMAIN f |-> f[e]]
    OBVIOUS
  <2>2. \A x : [jcs |-> x] # Nil
    BY <2>1 DEF NilIsNoValue
  <2>3. \A x : DOMAIN [jcs |-> x] = {"jcs"}
    OBVIOUS
  <2>4. "bad" \notin {"jcs"}
    OBVIOUS
  <2> QED BY <2>2, <2>3, <2>4 DEF IsHex
<1> QED BY <1>1 DEF DigestJSON, JSONDigest, marshalDigestValue

\* A digest is the one committed for an original exactly when it is of the same JSON
\* value (sign.go:108-155).
LEMMA SameValue ==
  ASSUME NilIsNoValue, NEW v, Original(v), NEW c \in Contents
  PROVE  Commitment(v) # Nil /\ DigestJSON(c) = Commitment(v)
           <=> Given(v) # Nil /\ ContentValue[c] = Given(v)
<1>1. ContentValue[c] = decodeStrictJSON(c)
  BY DEF ContentValue
<1>2. CASE isAbsentJSONValue(v)
  <2>1. Commitment(v) = Nil
    BY <1>2 DEF Commitment
  <2>2. Given(v) = Nil
    BY <1>2 DEF Given, isAbsentJSONValue
  <2> QED BY <2>1, <2>2
<1>3. CASE ~ isAbsentJSONValue(v)
  <2>1. v # Nil /\ ~ (v.kind \in {"map", "pointer", "slice"} /\ v.nil)
    BY <1>3 DEF isAbsentJSONValue
  <2>2. v \in Values \ {Nil} /\ Digestible(v)
    BY <2>1 DEF Original
  <2>3. ~ v.nil
    BY <2>1, <2>2, SealAssumption DEF Values
  <2>4. Commitment(v) = DigestJSON(v.json) /\ DigestJSON(v.json) # Nil
    BY <1>3, <2>2 DEF Commitment, Digestible
  <2>5. v.json \in Contents
    BY <2>2 DEF Contents
  <2>6. Given(v) = decodeStrictJSON(v.json)
    BY <2>1, <2>3, <2>5 DEF Given, ContentValue
  <2>7. DigestJSON(v.json) = [jcs |-> decodeStrictJSON(v.json)]
        /\ decodeStrictJSON(v.json) # Nil /\ Canonical(decodeStrictJSON(v.json))
    BY <2>4, DigestOf
  <2>8. DigestJSON(c) = DigestJSON(v.json) => decodeStrictJSON(c) = decodeStrictJSON(v.json)
    <3> SUFFICES ASSUME DigestJSON(c) = DigestJSON(v.json)
                 PROVE  decodeStrictJSON(c) = decodeStrictJSON(v.json)
      OBVIOUS
    <3>1. [jcs |-> decodeStrictJSON(c)] = [jcs |-> decodeStrictJSON(v.json)]
      BY <2>4, <2>7, DigestOf
    <3>2. [jcs |-> decodeStrictJSON(c)].jcs = [jcs |-> decodeStrictJSON(v.json)].jcs
      BY <3>1
    <3> QED BY <3>2
  <2>9. decodeStrictJSON(c) = decodeStrictJSON(v.json) => DigestJSON(c) = DigestJSON(v.json)
    BY DEF DigestJSON, marshalDigestValue
  <2> QED BY <1>1, <2>4, <2>6, <2>7, <2>8, <2>9
<1> QED BY <1>2, <1>3

\* What is committed can be read off the JSON that verifies.
LEMMA CommittedLeaf ==
  ASSUME NilIsNoValue, NEW json, VerifyCapsule(json) # Nil, NEW originals,
         Committed(VerifyCapsule(json), originals), NEW field \in {"payload", "agent_output"}
  PROVE  DigestLeaf(json, LeafOf(field)) = Commitment(originals[field])
<1> DEFINE d == Commitment(originals[field])
<1>1. d = Nil \/ IsHex(d)
  BY DigestOf DEF Commitment
<1>2. Attested(VerifyCapsule(json), <<[key |-> LeafOf(field)]>>)
        = IF d = Nil THEN Nil ELSE [digest |-> d]
  BY Zenon DEF Committed
<1> HIDE DEF d
<1>3. DigestLeaf(json, LeafOf(field)) = d
  BY <1>1, <1>2, VerifiedLeaf
<1> QED BY <1>3 DEF d

\* What the id of a capsule says of the agent is what its compute says.
LEMMA ComputeSays ==
  ASSUME NilIsNoValue, NEW in, TextsOK(in), Build(in) # Nil
  PROVE  LET id == Build(in).CapsuleID
             leaf(x) == IF x = Nil THEN Nil ELSE [digest |-> x]
         IN  /\ Attested(id, <<[key |-> "agent_input_digest"]>>)
                  = IF in.Compute = Nil THEN Nil ELSE leaf(in.Compute.AgentInputDigest)
             /\ Attested(id, <<[key |-> "agent_output_digest"]>>)
                  = IF in.Compute = Nil THEN Nil ELSE leaf(in.Compute.AgentOutputDigest)
<1> DEFINE id == Build(in).CapsuleID
           b == in.compute
           a == computeAttestationMap(in.Compute, b)
           leaf(x) == IF x = Nil THEN Nil ELSE [digest |-> x]
<1>1. b # Nil => IsSeq(b.ComposedMembers)
  BY DEF TextsOK
<1>2. \A x : Attested(id, <<[key |-> x]>>) = Sub(a, Under(x, <<>>))
  BY IdBinds, Zenon
<1>3. /\ Sub(a, Under("agent_input_digest", <<>>))
           = IF in.Compute = Nil THEN Nil ELSE leaf(in.Compute.AgentInputDigest)
      /\ Sub(a, Under("agent_output_digest", <<>>))
           = IF in.Compute = Nil THEN Nil ELSE leaf(in.Compute.AgentOutputDigest)
  BY <1>1, AttestationSays
<1> HIDE DEF a, id, leaf
<1> QED BY <1>2, <1>3 DEF id, leaf

\* Seal commits the digests of what it was given (sign.go:108-130).
LEMMA RegularCommits ==
  ASSUME NilIsNoValue, NEW s \in SealInputs, Regular(s) # Nil
  PROVE  Committed(Regular(s).CapsuleID, [payload |-> s.Payload, agent_output |-> s.AgentOutput])
<1> DEFINE originals == [payload |-> s.Payload, agent_output |-> s.AgentOutput]
           compute == [AgentInputDigest |-> Commitment(s.Payload),
                       AgentOutputDigest |-> Commitment(s.AgentOutput), Runtime |-> s.Runtime]
           set == IF hasComputeAttestation(compute) THEN compute ELSE Nil
           in == [s.Capsule EXCEPT !.Model = s.Model, !.Compute = set]
<1>1. Digestible(s.Payload) /\ Digestible(s.AgentOutput) /\ Regular(s) = Build(in)
  BY Zenon DEF Regular
<1>2. compute # Nil /\ compute.AgentInputDigest = Commitment(s.Payload)
      /\ compute.AgentOutputDigest = Commitment(s.AgentOutput)
  <2>1. compute = [e \in DOMAIN compute |-> compute[e]]
    OBVIOUS
  <2>2. compute.AgentInputDigest = Commitment(s.Payload)
        /\ compute.AgentOutputDigest = Commitment(s.AgentOutput)
    OBVIOUS
  <2> HIDE DEF compute
  <2> QED BY <2>1, <2>2 DEF NilIsNoValue
<1> HIDE DEF compute
<1>3. /\ (IF set = Nil THEN Nil ELSE set.AgentInputDigest) = Commitment(s.Payload)
      /\ (IF set = Nil THEN Nil ELSE set.AgentOutputDigest) = Commitment(s.AgentOutput)
  BY <1>2 DEF hasComputeAttestation, hasAuthoredDigests
<1>4. IsInput(in, {}) /\ in.compute = Nil
  BY SealTexts
<1>5. in.Compute = set
  <2>1. {"Model", "Compute"} \subseteq DOMAIN s.Capsule
    BY SessionAssumption
  <2> HIDE DEF set
  <2> QED BY <2>1
<1> HIDE DEF in, set
<1>6. TextsOK(in)
  BY <1>4, SessionTexts
<1> DEFINE id == Regular(s).CapsuleID
           leaf(x) == IF x = Nil THEN Nil ELSE [digest |-> x]
<1>7. /\ Attested(id, <<[key |-> "agent_input_digest"]>>)
           = IF set = Nil THEN Nil ELSE leaf(set.AgentInputDigest)
      /\ Attested(id, <<[key |-> "agent_output_digest"]>>)
           = IF set = Nil THEN Nil ELSE leaf(set.AgentOutputDigest)
  BY <1>1, <1>5, <1>6, ComputeSays
<1> HIDE DEF id
<1>8. /\ Attested(id, <<[key |-> "agent_input_digest"]>>) = leaf(Commitment(s.Payload))
      /\ Attested(id, <<[key |-> "agent_output_digest"]>>) = leaf(Commitment(s.AgentOutput))
  BY <1>3, <1>7
<1>9. originals["payload"] = s.Payload /\ originals["agent_output"] = s.AgentOutput
  OBVIOUS
<1>10. Original(s.Payload) /\ Original(s.AgentOutput)
  BY <1>1 DEF Original, Values
<1>11. LeafOf("payload") = "agent_input_digest" /\ LeafOf("agent_output") = "agent_output_digest"
  BY DEF LeafOf
<1> HIDE DEF originals
<1>12. Committed(id, originals)
  <2> SUFFICES ASSUME NEW field \in {"payload", "agent_output"}
               PROVE  /\ Original(originals[field])
                      /\ Attested(id, <<[key |-> LeafOf(field)]>>) = leaf(Commitment(originals[field]))
    BY Zenon DEF Committed
  <2>1. CASE field = "payload"
    BY <2>1, <1>8, <1>9, <1>10, <1>11
  <2>2. CASE field = "agent_output"
    BY <2>2, <1>8, <1>9, <1>10, <1>11
  <2> QED BY <2>1, <2>2
<1> QED BY <1>12 DEF id, originals

\* A composition commits no original.
LEMMA CompositionCommits ==
  ASSUME NEW id, NEW ms \in Composable, Bound(id, Composes(ms))
  PROVE  Committed(id, NoOriginals)
<1>1. PICK list \in MemberLists : ms = Resolved(list) /\ composable(ms)
  BY DEF Composable
<1>2. DOMAIN ms # {}
  <2>1. DOMAIN ms = DOMAIN list /\ ms = [i \in DOMAIN list |-> ms[i]]
    BY <1>1 DEF Resolved
  <2>2. ms # <<>>
    BY <1>1 DEF composable
  <2>3. <<>> = [i \in {} |-> ms[i]]
    OBVIOUS
  <2> QED BY <2>1, <2>2, <2>3
<1>3. Composes(ms).members # {}
  <2>1. Composes(ms).members = {[slot |-> ms[i].slot, id |-> ms[i].capsuleID] : i \in DOMAIN ms}
    BY DEF Composes, Unbound
  <2> QED BY <1>2, <2>1
<1>4. Unbound.members = {}
  BY DEF Unbound
<1>5. Composes(ms) # Unbound
  BY <1>3, <1>4
<1>6. /\ Attested(id, <<[key |-> "agent_input_digest"]>>) = Nil
      /\ Attested(id, <<[key |-> "agent_output_digest"]>>) = Nil
  BY <1>5 DEF Bound
<1> SUFFICES ASSUME NEW field \in {"payload", "agent_output"}
             PROVE  /\ Original(NoOriginals[field])
                    /\ Attested(id, <<[key |-> LeafOf(field)]>>)
                         = IF Commitment(NoOriginals[field]) = Nil THEN Nil
                           ELSE [digest |-> Commitment(NoOriginals[field])]
  BY Zenon DEF Committed
<1>7. NoOriginals[field] = Nil
  BY DEF NoOriginals
<1>8. Commitment(Nil) = Nil /\ Original(Nil)
  BY DEF Commitment, isAbsentJSONValue, Original
<1>9. Attested(id, <<[key |-> LeafOf(field)]>>) = Nil
  BY <1>6 DEF LeafOf
<1> QED BY <1>7, <1>8, <1>9

-----------------------------------------------------------------------------
\* The inductive invariant of SealedAdmitted: a Result's envelope is over the id that
\* was issued, which commits the originals, and only another id can be put on it.

HeldSealed ==
  \A i \in DOMAIN held :
    /\ "originals" \in DOMAIN held[i]
    /\ held[i].CapsuleID \in {held[i].issued} \cup OtherIds
    /\ held[i].Envelope # Nil =>
         /\ held[i].Envelope.over = held[i].issued
         /\ Committed(held[i].issued, held[i].originals)

CallSealed ==
  call # Nil /\ call.op = "seal" => Committed(call.built.CapsuleID, call.originals)

SealInv == HeldSealed /\ CallSealed

\* Nothing is sealed in a session without calls.
LEMMA InitSeals == Init => SealInv
<1> SUFFICES ASSUME Init PROVE SealInv
  OBVIOUS
<1>1. DOMAIN held = {} /\ call = Nil
  BY DEF Init
<1> QED BY <1>1 DEF SealInv, HeldSealed, CallSealed

\* The application receives a capsule: unsealed, or under an envelope over its id.
LEMMA HoldsSeals ==
  ASSUME SessionInv, SealInv, NEW b, NEW binds, NEW originals, NEW env,
         Holds(b, binds, originals, env),
         env # Nil => env.over = b.CapsuleID /\ Committed(b.CapsuleID, originals),
         call' \in {call, Nil}
  PROVE  SealInv'
<1> DEFINE n == Len(held) + 1
           new == [CapsuleID |-> b.CapsuleID, JSON |-> HeldJson(n), Envelope |-> env,
                   issued |-> b.CapsuleID, binds |-> binds, originals |-> originals]
<1>1. SessionSeqs
  BY DEF SessionInv
<1>2. held'[n] = new /\ \A i \in DOMAIN held : held'[i] = held[i]
  BY <1>1, OneHeld
<1>3. DOMAIN held' = DOMAIN held \cup {n}
  BY <1>1, OneHeld
<1>4. /\ "originals" \in DOMAIN new /\ new.CapsuleID = b.CapsuleID /\ new.Envelope = env
      /\ new.issued = b.CapsuleID /\ new.originals = originals
  OBVIOUS
<1> HIDE DEF n, new
<1>5. HeldSealed'
  <2> SUFFICES ASSUME NEW i \in DOMAIN held'
               PROVE  /\ "originals" \in DOMAIN held'[i]
                      /\ held'[i].CapsuleID \in {held'[i].issued} \cup OtherIds
                      /\ held'[i].Envelope # Nil =>
                           /\ held'[i].Envelope.over = held'[i].issued
                           /\ Committed(held'[i].issued, held'[i].originals)
    BY DEF HeldSealed
  <2>1. CASE i = n
    BY <1>2, <1>4, <2>1
  <2>2. CASE i \in DOMAIN held
    BY <1>2, <2>2 DEF SealInv, HeldSealed
  <2> QED BY <1>3, <2>1, <2>2
<1>6. CallSealed'
  <2> SUFFICES ASSUME call' # Nil, call'.op = "seal"
               PROVE  Committed(call'.built.CapsuleID, call'.originals)
    BY DEF CallSealed
  <2> QED BY DEF SealInv, CallSealed
<1> QED BY <1>5, <1>6 DEF SealInv

\* What is held stays sealed as long as only its id is replaced.
LEMMA HeldSealedKept ==
  ASSUME HeldSealed, DOMAIN held' = DOMAIN held,
         \A i \in DOMAIN held :
           /\ "originals" \in DOMAIN held'[i]
           /\ held'[i].CapsuleID \in {held[i].CapsuleID} \cup OtherIds
           /\ held'[i].issued = held[i].issued /\ held'[i].Envelope = held[i].Envelope
           /\ held'[i].originals = held[i].originals
  PROVE  HeldSealed'
<1> SUFFICES ASSUME NEW i \in DOMAIN held'
             PROVE  /\ "originals" \in DOMAIN held'[i]
                    /\ held'[i].CapsuleID \in {held'[i].issued} \cup OtherIds
                    /\ held'[i].Envelope # Nil =>
                         /\ held'[i].Envelope.over = held'[i].issued
                         /\ Committed(held'[i].issued, held'[i].originals)
  BY DEF HeldSealed
<1> QED BY DEF HeldSealed

\* Build's capsules have no envelope, and what Seal returns is what it waited with.
LEMMA ReceivedSeals ==
  ASSUME SessionInv, SealInv, BuildCall \/ ReceivedCall \/ CompositionCall \/ SealReturns
  PROVE  SealInv'
<1>1. CASE BuildCall
  <2>1. PICK in \in Inputs : /\ Holds(Builds[in], Unbound, NoOriginals, Nil)
                             /\ call' = call
    BY <1>1 DEF BuildCall
  <2> QED BY <2>1, HoldsSeals
<1>2. CASE ReceivedCall
  <2>1. PICK in \in Inputs, artifact \in Foreign :
          /\ Holds(Receipts[in][artifact], [Unbound EXCEPT !.carried = artifact.bytes],
                   NoOriginals, Nil)
          /\ call' = call
    BY <1>2 DEF ReceivedCall
  <2> QED BY <2>1, HoldsSeals
<1>3. CASE CompositionCall
  <2>1. PICK ms \in Composable, in \in Inputs :
          /\ Holds(BuildComposition(in, ms), Composes(ms), NoOriginals, Nil)
          /\ call' = call
    BY <1>3 DEF CompositionCall
  <2> QED BY <2>1, HoldsSeals
<1>4. CASE SealReturns
  <2>1. /\ Holds(call.built, call.binds, call.originals, SignedEnvelope)
        /\ call # Nil /\ call.op = "seal" /\ call' = Nil
    BY <1>4 DEF SealReturns
  <2>2. SignedEnvelope.over = call.built.CapsuleID
    BY DEF SignedEnvelope
  <2>3. Committed(call.built.CapsuleID, call.originals)
    BY <2>1 DEF SealInv, CallSealed
  <2> QED BY <2>1, <2>2, <2>3, HoldsSeals
<1> QED BY <1>1, <1>2, <1>3, <1>4

\* The capsule Seal waits with commits what Seal was given.
LEMMA SealsCommit ==
  ASSUME NilIsNoValue, NilIsNoSlot, SessionInv, BindingInv, SealInv,
         SealCall \/ SealComposition
  PROVE  SealInv'
<1>1. PICK b, binds, originals :
        Signs(b, "seal", binds, originals) /\ Committed(b.CapsuleID, originals)
  <2>1. CASE SealCall
    <3>1. PICK s \in SealInputs :
            /\ Regular(s) # Nil
            /\ Signs(Regular(s), "seal", Unbound,
                     [payload |-> s.Payload, agent_output |-> s.AgentOutput])
      BY <2>1 DEF SealCall, Regulars
    <3> QED BY <3>1, RegularCommits
  <2>2. CASE SealComposition
    <3>1. PICK ms \in Composable, s \in SealInputs :
            \E compute :
              LET b == BuildComposition([s.Capsule EXCEPT !.Model = s.Model,
                                                          !.Compute = compute], ms)
              IN  b # Nil /\ Signs(b, "seal", Composes(ms), NoOriginals)
      BY <2>2 DEF SealComposition
    <3>2. PICK compute :
            LET b == BuildComposition([s.Capsule EXCEPT !.Model = s.Model,
                                                        !.Compute = compute], ms)
            IN  b # Nil /\ Signs(b, "seal", Composes(ms), NoOriginals)
      BY <3>1
    <3> DEFINE in == [s.Capsule EXCEPT !.Model = s.Model, !.Compute = compute]
    <3>3. IsInput(in, {}) /\ "compute" \in DOMAIN in /\ in.compute = Nil
      BY SealTexts
    <3>4. /\ BuildComposition(in, ms) # Nil
          /\ Signs(BuildComposition(in, ms), "seal", Composes(ms), NoOriginals)
      BY <3>2
    <3> HIDE DEF in
    <3>5. composable(ms)
      BY ComposedIssued DEF BindingInv
    <3>6. Bound(BuildComposition(in, ms).CapsuleID, Composes(ms))
      BY <3>3, <3>4, <3>5, InputsBind
    <3>7. Committed(BuildComposition(in, ms).CapsuleID, NoOriginals)
      BY <3>6, CompositionCommits
    <3> QED BY <3>4, <3>7
  <2> QED BY <2>1, <2>2
<1>2. /\ call' = [op |-> "seal", built |-> b, kid |-> heap[identity.publicKey], sig |-> Nil,
                  binds |-> binds, originals |-> originals]
      /\ held' = held
  BY <1>1 DEF Signs
<1>3. call'.built = b /\ call'.originals = originals
  BY <1>2
<1>4. CallSealed'
  <2> SUFFICES Committed(call'.built.CapsuleID, call'.originals)
    BY DEF CallSealed
  <2> QED BY <1>1, <1>3
<1>5. HeldSealed'
  BY <1>2, HeldSealedKept DEF SealInv, HeldSealed
<1> QED BY <1>4, <1>5 DEF SealInv

\* The other steps seal nothing: at most they put another id on a capsule.
LEMMA OthersSeal ==
  ASSUME SessionInv, SealInv,
         \/ SlotCall \/ NewIdentity \/ SignCall
         \/ KmsSigns \/ KmsFails \/ SignRefuses \/ SignReturns
         \/ Rotate \/ OverwriteKey \/ OverwriteJson \/ Relabel
         \/ UNCHANGED vars
  PROVE  SealInv'
<1>1. HeldSealed'
  <2>1. CASE held' = held
    BY <2>1, HeldSealedKept DEF SealInv, HeldSealed
  <2>2. CASE Relabel
    <3>1. PICK i \in DOMAIN held, id \in OtherIds : held' = [held EXCEPT ![i].CapsuleID = id]
      BY <2>2 DEF Relabel
    <3>2. /\ DOMAIN held' = DOMAIN held
          /\ \A j \in DOMAIN held :
               /\ DOMAIN held'[j] = DOMAIN held[j]
               /\ held'[j].CapsuleID \in {held[j].CapsuleID} \cup OtherIds
               /\ \A f \in DOMAIN held[j] : f # "CapsuleID" => held'[j][f] = held[j][f]
      BY <3>1 DEF SessionInv, HeldIssued
    <3>3. \A j \in DOMAIN held : {"issued", "Envelope", "originals"} \subseteq DOMAIN held[j]
      BY DEF SessionInv, HeldIssued, SealInv, HeldSealed
    <3> QED BY <3>2, <3>3, HeldSealedKept DEF SealInv
  <2> QED
    BY <2>1, <2>2 DEF SlotCall, NewIdentity, SignCall, Signs, KmsSigns, KmsFails,
                      SignRefuses, SignReturns, Rotate, OverwriteKey, OverwriteJson, vars
<1>2. CallSealed'
  <2> SUFFICES ASSUME call' # Nil, call'.op = "seal"
               PROVE  Committed(call'.built.CapsuleID, call'.originals)
    BY DEF CallSealed
  <2>1. \/ call' \in {call, Nil}
        \/ call # Nil /\ call' = [call EXCEPT !.sig = kms]
        \/ call'.op = "sign"
    BY DEF SlotCall, NewIdentity, SignCall, Signs, KmsSigns, KmsFails, SignRefuses,
           SignReturns, Rotate, OverwriteKey, OverwriteJson, Relabel, vars
  <2>2. /\ call # Nil
        /\ call'.op = call.op /\ call'.built = call.built /\ call'.originals = call.originals
    BY <2>1 DEF SessionInv, CallChecked
  <2> QED BY <2>2 DEF SealInv, CallSealed
<1> QED BY <1>1, <1>2 DEF SealInv

\* Every step keeps what is sealed.
LEMMA StepSeals ==
  ASSUME NilIsNoValue, NilIsNoSlot
  PROVE  SessionInv /\ BindingInv /\ SealInv /\ [Next]_vars => SealInv'
<1> SUFFICES ASSUME SessionInv, BindingInv, SealInv, [Next]_vars
             PROVE  SealInv'
  OBVIOUS
<1>1. CASE BuildCall \/ ReceivedCall \/ CompositionCall \/ SealReturns
  BY <1>1, ReceivedSeals
<1>2. CASE SealCall \/ SealComposition
  BY <1>2, SealsCommit
<1>3. CASE \/ SlotCall \/ NewIdentity \/ SignCall
           \/ KmsSigns \/ KmsFails \/ SignRefuses \/ SignReturns
           \/ Rotate \/ OverwriteKey \/ OverwriteJson \/ Relabel
           \/ UNCHANGED vars
  BY <1>3, OthersSeal
<1> QED BY <1>1, <1>2, <1>3 DEF Next

\* Only what Build issued is verified under the id a Result has.
LEMMA StillIssued ==
  ASSUME NilIsNoValue, NEW id \in OtherIds, NEW json
  PROVE  VerifyCapsule(json) = id => id = Nil
<1> SUFFICES ASSUME VerifyCapsule(json) = id, id # Nil PROVE FALSE
  OBVIOUS
<1>1. \E payload : id = ComputeCapsuleID(payload)
  BY DEF VerifyCapsule, VerifiedId
<1>2. "capsule" \in DOMAIN id
  <2>1. \A x : DOMAIN [capsule |-> x] = {"capsule"}
    OBVIOUS
  <2>2. PICK payload : id = ComputeCapsuleID(payload)
    BY <1>1
  <2>3. \E x : id = [capsule |-> x]
    BY <2>2, Zenon DEF ComputeCapsuleID
  <2> QED BY <2>1, <2>3
<1> QED BY <1>2, OtherIdAssumption

\* What Seal returns, a store that trusts the signer admits together with the original
\* Seal was given, in any spelling of its JSON, and with no other, as long as a record
\* of it is not too large: whatever the application overwrites and relabels and the key
\* manager rotates meanwhile (sign.go:108-155, artifact/record.go:91-161).
THEOREM SealsAreAdmitted ==
  ASSUME NilIsNoValue, NilIsNoSlot, NilIsNoField, ContentsFit
  PROVE  Spec => []SealedAdmitted
<1>1. SessionInv /\ SealInv => SealedAdmitted
  <2> SUFFICES ASSUME SessionInv, SealInv,
                      NEW i \in DOMAIN held,
                      held[i].Envelope # Nil,
                      VerifyCapsule(heap[held[i].JSON]) # Nil,
                      VerifyCapsule(heap[held[i].JSON]) = held[i].CapsuleID,
                      NEW field \in {"payload", "agent_output"}, NEW c \in Contents
               PROVE  LET r == held[i]
                          verified == VerifyCapsule(heap[r.JSON])
                      IN  Artifacts({r.issued})!AdmissionError(
                            RecordOf(r, verified, field, c), {identity.registered}) = "ok"
                            <=> Given(r.originals[field]) # Nil
                                  /\ ContentValue[c] = Given(r.originals[field])
    BY Zenon DEF SealedAdmitted
  <2> DEFINE r == held[i]
             json == heap[r.JSON]
             v == r.originals[field]
  <2>1. r.CapsuleID = r.issued /\ r.CapsuleID # Nil
    <3>1. r.CapsuleID \in {r.issued} \cup OtherIds
      BY DEF SealInv, HeldSealed
    <3> QED BY <3>1, StillIssued
  <2>2. r.Envelope.sig = r.Envelope.kid /\ r.Envelope.kid = identity.registered
    BY DEF SessionInv, EnvelopesGood, Good
  <2>3. r.Envelope.over = r.CapsuleID /\ Committed(r.CapsuleID, r.originals)
    BY <2>1 DEF SealInv, HeldSealed
  <2>4. VerifyCapsule(json) = r.CapsuleID
    OBVIOUS
  <2> HIDE DEF r, json
  <2>5. c # Nil /\ Len(c) \in Nat
    BY ContentsAreSlices
  <2>6. Artifacts({r.CapsuleID})!AdmissionError(RecordOf(r, r.CapsuleID, field, c),
                                                {r.Envelope.kid}) = "ok"
          <=> DigestLeaf(json, LeafOf(field)) # Nil
                /\ DigestJSON(c) = DigestLeaf(json, LeafOf(field))
    BY <2>1, <2>2, <2>3, <2>5, AdmittedIff, Zenon DEF json
  <2>7. DigestLeaf(json, LeafOf(field)) = Commitment(v)
    BY <2>1, <2>3, <2>4, CommittedLeaf
  <2>8. Original(v)
    BY <2>3 DEF Committed
  <2> HIDE DEF v
  <2>9. Commitment(v) # Nil /\ DigestJSON(c) = Commitment(v)
          <=> Given(v) # Nil /\ ContentValue[c] = Given(v)
    BY <2>8, SameValue
  <2>10. Artifacts({r.CapsuleID})!AdmissionError(RecordOf(r, r.CapsuleID, field, c),
                                                 {r.Envelope.kid}) = "ok"
           <=> Given(v) # Nil /\ ContentValue[c] = Given(v)
    BY <2>6, <2>7, <2>9
  <2>11. Artifacts({r.issued})!AdmissionError(RecordOf(r, VerifyCapsule(json), field, c),
                                              {identity.registered}) = "ok"
           <=> Given(v) # Nil /\ ContentValue[c] = Given(v)
    BY <2>1, <2>2, <2>4, <2>10
  <2> QED BY <2>11 DEF r, json, v
<1>2. Spec => []SessionInv
  BY SessionSound
<1>3. SessionInv /\ BindingInv /\ [Next]_vars => BindingInv'
  BY StepBinds
<1>4. SessionInv /\ BindingInv /\ SealInv /\ [Next]_vars => SealInv'
  BY StepSeals
<1> QED
  BY <1>1, <1>2, <1>3, <1>4, InitBinds, InitSeals, PTL DEF Spec
=============================================================================
