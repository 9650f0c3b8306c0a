CONSTANTS
  t1 = t1
  t2 = t2
  NoTrack = NoTrack
  Tracks <- TwoTracks
  Queues <- OneTrack
  NumServices = 2
  MaxGen = 2
  LoadBound <- TwoThenOne
  Modes <- PlainMode
  Faults <- NoFaults
  Faulty <- AnyLoad
SPECIFICATION Spec
PROPERTY KeepsPromise
CHECK_DEADLOCK FALSE
