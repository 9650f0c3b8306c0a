CONSTANTS
  o1 = o1
  o2 = o2
  i1 = i1
  i2 = i2
  x1 = x1
  m1 = m1
  Callers <- Two
  Streams <- NoStreams
  Hashes <- OneHash
  Inits <- TwoInits
  Magnets <- OneMagnet
  HashOf <- SameHash
  NFiles = 2
  MaxHandles = 3
  Audio <- SomeAudio
SPECIFICATION FairSpec
INVARIANTS SessionsType OneNativeSession OpenedStaysServed PicksTheTrack
PROPERTIES InitsEnd
CHECK_DEADLOCK FALSE
