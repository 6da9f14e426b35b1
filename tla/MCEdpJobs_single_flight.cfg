\* platform-api holds a lock per deployment_id: one run per site at a time.
SPECIFICATION Spec
CONSTANTS
    d1 = d1
    m2 = m2
    p1 = p1
    None = None
    Jobs = {j1, j2, j3}
    Payloads = {p1, p2}
    Deployments = {d1}
    DeploymentOf <- OneSite
    Valid = {p1, p2}
    Manifests = {m1, m2}
    WellFormed = {m1, m2}
    Serves <- AllServe
    Plates = {"CG", "CX"}
    UrlPlates <- PlatesGrow
    BomPlates <- PlatesGrow
    Offers = {o1, o2}
    NumArtifacts = 4
    UsesBom = {1, 2, 3}
    UsesDtm = {3, 4}
    Pool = 2
    SingleFlight = TRUE
SYMMETRY JobSymmetry
INVARIANT SingleFlightPackage
