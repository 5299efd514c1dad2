SPECIFICATION DropSpec
CONSTANTS
  Unlocked = Unlocked
  NoUrl = NoUrl
  Clients = {c1, c2}
  MaxChunks = 1
  Urls = {u1, u2}
SYMMETRY Symmetry
VIEW View
INVARIANT NodeFound
