CONSTANTS
  w1 = w1
  w2 = w2
  rd = rd
  Writer = Writer
  Nil = Nil
  EmptyBytes = ""
  Content <- MCContent
  JsonDigest <- MCJsonDigest
  ContentSize <- MCContentSize
  ValidName = {"payload", "note"}
  ValidId = {"a", "b"}
  MaxArtifacts = 2
  MaxEnvelope = 2
  MaxRecord = 8
  Id = {"a", "b"}
  Records <- ConflictingRecords
  TrustSets <- EitherKey
  WriterThreads = {w1, w2}
  Readers = {}
  TornWrites = FALSE
  MaxSegments = 2
  MaxRewrites = 1
SPECIFICATION FairSpec
INVARIANTS TypeOK ReadYourWrites ErasedStaysErased NoConflictAdmitted RetryAdmitted
PROPERTIES ImplementsStore CallsReturn
