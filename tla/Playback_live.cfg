CONSTANTS
  t1 = t1
  t2 = t2
  NoTrack = NoTrack
  Tracks <- TwoTracks
  Queues <- OneTrack
  NumServices = 1
  MaxGen = 3
  LoadBound <- Uniform
  Modes <- PlainMode
  Faults <- AllFaults
  Faulty <- Second
SPECIFICATION FairSpec
PROPERTIES LoadsEnd RequestHeard ReplacedDisposed
CHECK_DEADLOCK FALSE
