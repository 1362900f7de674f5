SPECIFICATION FairSpec
CONSTANTS
  web = web
  rpc = rpc
  peer = peer
  Msgs = {m1}
  Transactional = {}
  Clients <- ThreeClients
  Via <- ThreeVia
  None = None
  Kills = TRUE
  MaxStarts = 3
INVARIANTS
  TypeOK
  SavedIsLast
  CleanRestartKeeps
PROPERTIES
  RestartResumes
  ShutdownEnds
CHECK_DEADLOCK FALSE
