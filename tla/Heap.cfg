SPECIFICATION Spec
CONSTANTS
  Runs = {r1, r2, r3}
  Null = Null
  Sizes <- RequestedSizes
  largest_alignment = 1
  subchunk_size = 2
  subchunks_per_chunk = 4
  ChunkRunHeaderSize = 1
  AllocationHeaderSize = 1
  BoolSize = 1
  MaxChunks = 2
INVARIANTS
  TypeOK
  BlocksFit
  OverlapsSurround
  HeadersAreIntact
  NothingIsLost
  ListIsWellFormed
PROPERTIES
  ImplementsAllocator
SYMMETRY AnyAddress
