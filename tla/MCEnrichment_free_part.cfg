\* Can a price of zero fail a later run?
SPECIFICATION Spec
CONSTANTS
    Runs = {r1, r2}
    Clients = {graybar}
    NumMpns = 1
    Prices = {0, 1}
    NoPrice = none
    Blank = blank
    Similar <- SimilarParts
    Ttl = 1
    Window = 1
    MaxDay = 2
    Faulty = FALSE
    Garbled = garbled
    None = None
INVARIANT PortalFailsNoRun
\* The clock is bounded and runs are not repeated: the system may stop.
CHECK_DEADLOCK FALSE
