CONSTANTS
  t1 = t1
  t2 = t2
  Nil = Nil
  EmptyBytes = ""
  Content <- MCContent
  JsonDigest <- MCJsonDigest
  ContentSize <- MCContentSize
  ValidName = {"payload", "note"}
  ValidId = {"a", "b"}
  MaxArtifacts = 2
  MaxEnvelope = 2
  MaxRecord = 8
  Id = {"a", "b"}
  Records <- ThreeRecords
  Threads = {t1, t2}
  Trusts <- SameTrust
  MaxAttempts = 2
  MaxTxOps = 2
  MaxCalls = 3
SPECIFICATION Spec
SYMMETRY ThreadSymmetry
INVARIANTS TypeOK CommittedWhole StableUntilCommit ReadYourWrites ErasedStaysErased
PROPERTY ImplementsStore
