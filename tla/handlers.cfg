SPECIFICATION Spec
CONSTANTS
  NoId = NoId
  Connections = {c1, c2, c3}
  Ids = {t1, t2}
  MaxConnections = 1
SYMMETRY Symmetry
VIEW View
INVARIANTS TypeOK HandlerOutlivesThread NoHandlerLost LiveThreadsListed NoStaleIds SocketsClosedOnce IdsBounded
PROPERTY NoneSkipped
