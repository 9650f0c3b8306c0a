CONSTANTS
  c1 = c1
  c2 = c2
  x1 = x1
  Callers <- TwoCallers
  Streams <- TwoStreams
  Hashes <- OneHash
  NFiles = 3
  MaxHandles = 2
  Audio <- SomeAudio
SPECIFICATION NativeSpec
INVARIANTS UrlsPlay LastAloneWins
PROPERTIES HandlesKept
SYMMETRY Interchangeable
CHECK_DEADLOCK FALSE
