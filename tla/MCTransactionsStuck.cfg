SPECIFICATION FairSpec
CHECK_DEADLOCK FALSE
CONSTANTS
  Txs = {t1}
  Msgs = {m1, m2}
  Clients = {c1, c2}
  Worker = worker
  None = None
  TTL = 1
  Fanouts <- OneRoute
  Cancels = FALSE
  MaxTime = 1
PROPERTY EventuallyCompleted
