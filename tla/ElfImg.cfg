SPECIFICATION MCSpec
CONSTANTS
  Align = 2
  VLI_BYTES_MAX = 3
  Files <- MCAllFiles
  Inputs <- MCAllInputs
  Datas <- MCElfDatas
  Noise <- MCNoise
  Pieces = {0, 1, 8}
  Rooms = {1, 2}
  Elves <- MCElves
  ImageOf <- MCImageOf
  ELF_MAGIC <- MCMagic
  BUFSIZE = 2
  SkipRadix = 3
  Names = {"a", "b", "c", "d", "u", "dx", "none"}
  Begins <- MCBegins
  Null = Null
INVARIANTS
  AcceptedIsFile
  SoundIsAccepted
  BuffersInBounds
  ImageExact
  SymbolsFound
PROPERTIES
  CallersEnd
CHECK_DEADLOCK FALSE
