SPECIFICATION Spec
CONSTANTS
  m1 = m1
  m2 = m2
  m3 = m3
  Msgs <- ThreeMsgs
  Base = 4
  Id <- Ids
  Body <- MCBodies
  NL = 1
  Limit = 4
  Crashes = TRUE
  Failures = TRUE
  Compacts = TRUE
  MaxOpens = 3
  Error = Error
CHECK_DEADLOCK FALSE
INVARIANTS
  TypeOK
  AckedReadable
  RefusedOnlyIfDamaged
PROPERTY
  CompactKeepsOrder
