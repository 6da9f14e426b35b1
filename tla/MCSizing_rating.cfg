\* Does the even split keep every transformer within its design load?
SPECIFICATION Spec
CONSTANTS
    MaxGpus = 2100
    None = None
INVARIANT FeedsWithinDesignLoad
CHECK_DEADLOCK FALSE
