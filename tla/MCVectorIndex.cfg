SPECIFICATION Spec
CONSTANTS
  Files <- MCFiles
  ChunkIds <- MCChunkIds
  EdgeIds <- MCEdgeIds
  Owner <- MCOwner
  Versions = {1, 2}
  MaxKey = 8
INVARIANTS TypeOK KeysFresh ChunkVectorsFaithful FileComplete
PROPERTY ImplementsStore
