SPECIFICATION Spec
CONSTANTS
  Threads = {t1, t2, t3}
  Chunks = {c1, c2, c3}
  NoChunk = NoChunk
  CHUNK_SIZE = 3
  MaxChunks = 5
SYMMETRY Symmetry
INVARIANTS ChunkBooks ChunkReturned
PROPERTY ImplementsPool
CHECK_DEADLOCK FALSE
