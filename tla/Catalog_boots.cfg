CONSTANTS
  t1 = t1
  t2 = t2
  p1 = p1
  p2 = p2
  TrackIds <- TwoTracks
  PlaylistIds <- TwoPlaylists
  SeedTracks <- SeedOne
  SeedLinks <- SeedLinksOne
  Origins <- AnyOrigin
  MaxCrashes = 2
  MaxFailures = 2
SPECIFICATION FairSpec
INVARIANTS References Migrated Complete
PROPERTIES BootsServe BootsRecover
