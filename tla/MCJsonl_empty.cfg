CONSTANTS
  w1 = w1
  w2 = w2
  rd = rd
  Writer = Writer
  Nil = Nil
  EmptyBytes = ""
  Content <- MCContent
  JsonDigest <- MCJsonDigest
  ContentSize <- MCContentSize
  ValidName = {"payload", "note"}
  ValidId = {"a", "b"}
  MaxArtifacts = 2
  MaxEnvelope = 2
  MaxRecord = 8
  Id = {"a", "b"}
  Records <- EmptyRecords
  TrustSets <- OneKey
  WriterThreads = {w1}
  Readers = {}
  TornWrites = FALSE
  MaxSegments = 3
  MaxRewrites = 2
SPECIFICATION Spec
INVARIANT RetryAdmitted
