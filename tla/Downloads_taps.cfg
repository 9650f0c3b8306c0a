CONSTANTS
  t1 = t1
  t2 = t2
  f1 = f1
  Tracks <- TwoTracks
  Files <- OneFile
  FileOf <- SameName
  NumAttempts = 3
  TappedFor <- TwiceAndOther
  MaxCrashes = 1
  Faults <- AllFaults
SPECIFICATION FairSpec
INVARIANTS TypeOK LeftoversCleaned RegisteredAtWork
PROPERTIES SettledStays TracksFreed SpinnerEnds
CHECK_DEADLOCK FALSE
