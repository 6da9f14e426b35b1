\* Does whatever the regions file lacks surface at startup?
SPECIFICATION IntakeSpec
CHECK_DEADLOCK FALSE
CONSTANTS
  None = None
  Payloads <- ShapePayloads
  Programs = {"ercot_ader", "ercot_dgr", "other"}
  Points = {"HB_NORTH", "other"}
  Drafts <- MCDrafts
  RegionFiles <- MCRegionFiles
INVARIANT
  DriftSurfacesAtStartup
