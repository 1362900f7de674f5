SPECIFICATION Spec
CONSTANTS
  Msgs = {m1, m2}
  Addresses <- Queues
  Consumers = {c1}
  Clients = {p1}
  Worker = w
  None = None
  DeadLetter <- DeadLetterQ
  MaxLength <- NoLimit
  DefaultTTL <- DefaultOneOnQ
  Routes <- RoutesSelf
  Publications <- PublishQ
  Registrations <- ConsumeOnceQ
  Limits = {}
  Pausable = {}
  Cancels = FALSE
  MaxTime = 1
  MaxSeq = 2
SYMMETRY Symmetry
INVARIANTS
  CreditHonoured
CHECK_DEADLOCK FALSE
