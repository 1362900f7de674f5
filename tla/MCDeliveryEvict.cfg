SPECIFICATION Spec
CONSTANTS
  Msgs = {m1, m2, m3}
  Addresses <- WithFanout
  Consumers = {c1}
  Clients = {p1, p2}
  Worker = w
  None = None
  DeadLetter <- DeadLetterQ
  MaxLength <- OneOnQ
  DefaultTTL <- DefaultOneOnQ
  Routes <- RoutesSelf
  Publications <- PublishQF
  Registrations <- ConsumeOnceQD
  Limits = {}
  Pausable = {}
  Cancels = FALSE
  MaxTime = 1
  MaxSeq = 2
SYMMETRY Symmetry
INVARIANTS
  BacklogBounded
PROPERTIES
  DispatchesHeld
CHECK_DEADLOCK FALSE
