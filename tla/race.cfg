SPECIFICATION Spec
CONSTANTS
  Unlocked = Unlocked
  NoUrl = NoUrl
  Clients = {c1, c2}
  MaxChunks = 1
  Urls = {u1}
SYMMETRY Symmetry
VIEW View
INVARIANTS TypeOK UnreadyNodeInCharge ChunksInOrder NoLostWakeup SentIsPrefix BorrowedAlive
PROPERTIES CacheOnlyGrows ImplementsSharedLog
