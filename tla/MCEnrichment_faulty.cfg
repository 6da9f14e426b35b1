\* Two runs of two parts share one session; S3 writes fail, the process restarts.
SPECIFICATION Spec
CONSTANTS
    Runs = {r1, r2}
    Clients = {graybar}
    NumMpns = 2
    Prices = {1}
    NoPrice = none
    Blank = blank
    Similar <- SimilarParts
    Ttl = 1
    Window = 1
    MaxDay = 0
    Faulty = TRUE
    Garbled = garbled
    None = None
INVARIANT EveryPartAnswered
PROPERTY EnrichmentEnds
\* The clock is bounded and runs are not repeated: the system may stop.
CHECK_DEADLOCK FALSE
