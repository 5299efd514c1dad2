SPECIFICATION ProgramSpec
CONSTANTS
  NoId = NoId
  Connections = {c1, c2}
  Ids = {t1, t2}
  MaxConnections = 1
SYMMETRY Symmetry
VIEW View
INVARIANTS EveryThreadCancelled OneMoreConnection SignalsTaken HandlersKeptUntilEnd
