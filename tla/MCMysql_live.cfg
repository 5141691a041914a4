CONSTANTS
  t1 = t1
  t2 = t2
  Nil = Nil
  EmptyBytes = ""
  Content <- MCContent
  JsonDigest <- MCJsonDigest
  ContentSize <- MCContentSize
  ValidName = {"payload", "note"}
  ValidId = {"a"}
  MaxArtifacts = 2
  MaxEnvelope = 2
  MaxRecord = 8
  Id = {"a"}
  Records <- TwoSigners
  Threads = {t1, t2}
  Trusts <- MoreTrust
  MaxAttempts = 2
  MaxTxOps = 1
  MaxCalls = 3
SPECIFICATION FairSpec
INVARIANT ReadYourWrites
PROPERTY CallsReturn
