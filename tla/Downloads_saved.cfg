CONSTANTS
  t1 = t1
  t2 = t2
  f1 = f1
  Tracks <- OneTrack
  Files <- OneFile
  FileOf <- SameName
  NumAttempts = 2
  TappedFor <- OneByOne
  MaxCrashes = 1
  Faults <- NoFaults
SPECIFICATION Spec
PROPERTY SavedIsWhole
CHECK_DEADLOCK FALSE
