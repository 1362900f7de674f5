SPECIFICATION Spec
CHECK_DEADLOCK FALSE
CONSTANTS
  n1 = n1
  n2 = n2
  t1 = t1
  t2 = t2
  t3 = t3
  s1 = s1
  Nodes <- TwoNodes
  Threads <- Trio
  Node <- OfTrio
  Shards <- OneShard
  NoLease = NoLease
  TTL = 2
  Cancels = TRUE
  MaxTime = 2
  MaxEpoch = 3
INVARIANT TypeOK
INVARIANT TokensUnique
INVARIANT OneOwner
PROPERTY KeepsPromise
