CONSTANTS
  t1 = t1
  t2 = t2
  t3 = t3
  Nil = Nil
  EmptyBytes = ""
  Content <- MCContent
  JsonDigest <- MCJsonDigest
  ContentSize <- MCContentSize
  ValidName = {"payload", "note"}
  MaxArtifacts = 2
  MaxEnvelope = 2
  MaxRecord = 8
  Process <- OwnProcess
  Trusted = {"k1"}
  ValidId = {"a", "b"}
  Id = {"a", "b", "bad"}
  Records <- FourRecords
  Threads = {t1, t3}
  MaxTxOps = 2
  MaxCalls = 3
SPECIFICATION Spec
SYMMETRY ThreadSymmetry
INVARIANTS TypeOK CommittedWhole StableUntilCommit ReadYourWrites ErasedStaysErased
PROPERTY ImplementsStore
