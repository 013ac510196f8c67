\* Two files listed, two sent into a directory of a directory.
SPECIFICATION FairSpec
CONSTANTS
  Chunk = 2
  Sizes <- Lengths
  Files = 2
  Depth = 2
  Buffer = 6
  MaxTransfers = 2
  MaxFrames = 2
  MaxUser = 2
INVARIANTS
  TypeOK
  FramingKept
PROPERTIES
  NestedIsMade
  RecordedWhole
  Drained
CHECK_DEADLOCK FALSE
