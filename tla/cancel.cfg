SPECIFICATION FairCancel
CONSTANTS
  Unlocked = Unlocked
  NoUrl = NoUrl
  Clients = {c1, c2}
  MaxChunks = 1
  Urls = {u1}
  FirstClient = c1
CONSTRAINT FirstFetches
VIEW View
INVARIANT CutShortNotComplete
PROPERTIES CancelledEnds OthersServed
