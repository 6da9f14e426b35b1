\* Three runs share the session of one distributor over three days; S3 works.
SPECIFICATION Spec
CONSTANTS
    Runs = {r1, r2, r3}
    Clients = {graybar}
    NumMpns = 1
    Prices = {0, 1}
    NoPrice = none
    Blank = blank
    Similar <- SimilarParts
    Ttl = 1
    Window = 1
    MaxDay = 2
    Faulty = FALSE
    Garbled = garbled
    None = None
SYMMETRY RunSymmetry
INVARIANTS TypeOK HistoryCoversCache
PROPERTY FailsForCause
\* The clock is bounded and runs are not repeated: the system may stop.
CHECK_DEADLOCK FALSE
