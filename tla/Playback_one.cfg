CONSTANTS
  t1 = t1
  t2 = t2
  NoTrack = NoTrack
  Tracks <- TwoTracks
  Queues <- TwoQueues
  NumServices = 1
  MaxGen = 3
  LoadBound <- Uniform
  Modes <- Mode
  Faults <- NetFaults
  Faulty <- AnyLoad
SPECIFICATION Spec
INVARIANTS TypeOK  SoundIsCurrent SourceServed PeersOfActive ActiveUsable
PROPERTIES SessionsEnd KeepsPromise
CHECK_DEADLOCK FALSE
