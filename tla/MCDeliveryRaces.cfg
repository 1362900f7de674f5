SPECIFICATION FairSpec
CONSTANTS
  Msgs = {m1}
  Addresses <- Queues
  Consumers = {c1}
  Clients = {p1, p2}
  Worker = w
  None = None
  DeadLetter <- DeadLetterQ
  MaxLength <- NoLimit
  DefaultTTL <- DefaultOneOnQ
  Routes <- RoutesSelf
  Publications <- PublishQ
  Registrations <- ConsumeQ
  Limits = {0, 1}
  Pausable = {"d"}
  Cancels = TRUE
  MaxTime = 3
  MaxSeq = 2
INVARIANTS
  TypeOK
  HeldOnce
  HeldNotOffered
PROPERTIES
  LockIsReleased
  ExpiredMovesOn
CHECK_DEADLOCK FALSE
