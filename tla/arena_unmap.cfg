SPECIFICATION Spec
CONSTANTS
  Runs <- ArenaRuns
  Data <- ArenaData
  Sizes <- ArenaSizes
  largest_alignment = 2
  chunk_size = 6
  ChunkRunHeaderSize = 2
  ChunkCountOffset = 1
  MaxChunks = 2
  MaxOffset = 12
INVARIANTS
  UnmapsExactly
CHECK_DEADLOCK FALSE
