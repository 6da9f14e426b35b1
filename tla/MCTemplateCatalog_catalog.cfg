\* Every directory of up to three templates; startup ends, served or refused.
SPECIFICATION CatSpec
CHECK_DEADLOCK FALSE
CONSTANTS
  None = None
  Checkouts <- MCCheckouts
INVARIANTS
  CatTypeOK
  CatalogIsWhole
  RefusedForCause
  NoDeadAlarm
  GatesHold
