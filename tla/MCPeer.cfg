SPECIFICATION Spec
CONSTANTS
  Peers = {p1, p2, p3}
  Channels = {0, 1, 2}
  Handles = {0, 1, 2}
  MaxHandle = 1
  Rune <- MCRune
  MaxConnections = 2
  Prefetch = 1
  Window = 1
  Credits = {0, 1}
  MaxIds = 3
  MaxDeliveries = 1
  FieldLists <- MCFieldLists
  Bodies <- MCBodies
  MaxFrame = 280
SYMMETRY PeersAlike
INVARIANTS
  TypeOK
  SlotsMatch
  TablesAgree
  FlowAgrees
  DecodesTheEncoded
  StreamIsExact
CHECK_DEADLOCK FALSE
