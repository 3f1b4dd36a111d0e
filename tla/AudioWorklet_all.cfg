CONSTANTS
  Size = 5
  Chunk = {2, 3}
  MaxSamples = 16
SPECIFICATION FairSpec
INVARIANTS TypeOK ChunksFit
PROPERTIES PlaysInOrder SoundIsDriven SoundGoesOn
CHECK_DEADLOCK FALSE
