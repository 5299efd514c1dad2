SPECIFICATION FairSpec
CONSTANTS
  Unlocked = Unlocked
  NoUrl = NoUrl
  Clients = {c1, c2}
  MaxChunks = 2
  Urls = {u1}
CONSTRAINT OneFetchOrEmpty
INVARIANTS ListenersCounted NoWaitOnDestroyed SoleFetchIntact CompleteMeansAll
PROPERTY ClientServed
