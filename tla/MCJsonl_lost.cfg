CONSTANTS
  w1 = w1
  w2 = w2
  rd = rd
  Writer = Writer
  Nil = Nil
  EmptyBytes = ""
  Content <- MCContent
  JsonDigest <- MCJsonDigest
  ContentSize <- MCContentSize
  ValidName = {"payload", "note"}
  ValidId = {"a", "b"}
  MaxArtifacts = 2
  MaxEnvelope = 2
  MaxRecord = 8
  Id = {"a", "b"}
  Records <- ConflictingRecords
  TrustSets <- OneKey
  WriterThreads = {w1}
  Readers = {}
  TornWrites = TRUE
  MaxSegments = 3
  MaxRewrites = 2
SPECIFICATION Spec
INVARIANT ReadYourWrites
