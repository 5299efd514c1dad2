SPECIFICATION FairStorage
CONSTANTS
  Unlocked = Unlocked
  NoUrl = NoUrl
  Clients = {c1, c2}
  MaxChunks = 1
  Urls = {u1, u2}
  FirstUrl = u1
  FirstClient = c1
CONSTRAINTS OneFetch NamedFirst FirstFails
VIEW View
INVARIANT UnreadyExplained
PROPERTY OtherNodesServed
