CONSTANTS
  w1 = w1
  w2 = w2
  rd = rd
  Writer = Writer
  Nil = Nil
  EmptyBytes = ""
  Content <- MCContent
  JsonDigest <- MCJsonDigest
  ContentSize <- MCContentSize
  ValidName = {"payload", "note"}
  ValidId = {"a", "b"}
  MaxArtifacts = 2
  MaxEnvelope = 2
  MaxRecord = 8
  Id = {"a", "b", "bad"}
  Records <- MixedRecords
  TrustSets <- TrustChoices
  WriterThreads = {w1}
  Readers = {rd}
  TornWrites = TRUE
  MaxSegments = 2
  MaxRewrites = 1
SPECIFICATION Spec
INVARIANTS GetAuthentic 
