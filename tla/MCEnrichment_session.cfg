\* Does the session of one run serve the next?
SPECIFICATION Spec
CONSTANTS
    Runs = {r1, r2}
    Clients = {graybar}
    NumMpns = 1
    Prices = {1}
    NoPrice = none
    Blank = blank
    Similar <- SimilarParts
    Ttl = 1
    Window = 1
    MaxDay = 1
    Faulty = FALSE
    Garbled = garbled
    None = None
INVARIANT OneSessionForAll
\* The clock is bounded and runs are not repeated: the system may stop.
CHECK_DEADLOCK FALSE
