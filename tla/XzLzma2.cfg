SPECIFICATION FairSpec
CONSTANTS
  LZMA_IN_REQUIRED = 3
  RC_INIT_BYTES = 2
  Radix = 8
  MaxProps = 1
  size_max = 4
  Blocks <- MCBlocks
  Work <- MCWork
  Noise <- MCNoise
  Pieces = {0, 1, 2}
  Rooms = {0, 1, 4}
INVARIANTS
  MemoryInBounds
PROPERTIES
  ImplementsDecompressor
  CallsReturn
CHECK_DEADLOCK FALSE
