SPECIFICATION FairProgram
CONSTANTS
  NoId = NoId
  Connections = {c1}
  Ids = {t1, t2}
  MaxConnections = 1
PROPERTIES ShutdownEnds CheckEnds
