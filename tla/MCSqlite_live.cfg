CONSTANTS
  t1 = t1
  t2 = t2
  t3 = t3
  Nil = Nil
  EmptyBytes = ""
  Content <- MCContent
  JsonDigest <- MCJsonDigest
  ContentSize <- MCContentSize
  ValidName = {"payload", "note"}
  MaxArtifacts = 2
  MaxEnvelope = 2
  MaxRecord = 8
  Process <- TwoProcesses
  Trusted = {"k1"}
  ValidId = {"a"}
  Id = {"a"}
  Records <- OneRecord
  Threads = {t1, t2, t3}
  MaxTxOps = 1
  MaxCalls = 2
SPECIFICATION FairSpec
PROPERTY CallsReturn
