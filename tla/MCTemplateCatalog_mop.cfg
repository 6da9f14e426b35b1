\* The install sequence of the templates as shipped: do steps follow their dependencies?
SPECIFICATION CatSpec
CHECK_DEADLOCK FALSE
CONSTANTS
  None = None
  Checkouts <- AsShipped
INVARIANT
  StepsFollowDependencies
