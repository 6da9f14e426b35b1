\* Orders around the acceptable ones, previews, jobs and their DTM; the customer asks once.
SPECIFICATION IntakeSpec
CHECK_DEADLOCK FALSE
CONSTANTS
  None = None
  Payloads <- MCPayloads
  Programs = {"ercot_ader", "ercot_dgr", "other"}
  Points = {"HB_NORTH", "other"}
  Drafts <- MCDrafts
  RegionFiles <- MCRegionFiles
INVARIANTS
  IntakeTypeOK
  WholeFileServes
  DtmMatchesPreview
  ExportCheckedOrFlagged
  LevelIsTheServers
  OneReadingOfTheLimit
  MinimumClearsShortfalls
  BatteryDoesItsJobs
