\* Orders at every boundary of the sizing, end to end; a run ends with its package.
SPECIFICATION PkgSpec
CHECK_DEADLOCK FALSE
CONSTANTS
  MaxGpus = 1900
  None = None
  Cases <- MCCases
INVARIANTS
  PkgTypeOK
  TagsNameOneDevice
  BomNamesTheDevices
  FeedersAgree
  EveryRunLands
  NodesDualFed
  SheetsShowTheSite
  RollupIsTheBudget
  SoundOrdersAreServed
