\* Is the manifest pinned at create the one the BOM is built from?
SPECIFICATION Spec
CONSTANTS
    d1 = d1
    m2 = m2
    p1 = p1
    None = None
    Jobs = {j1}
    Payloads = {p1}
    Deployments = {d1}
    DeploymentOf <- OneSite
    Valid = {p1}
    Manifests = {m1, m2}
    WellFormed = {m1, m2}
    Serves <- AllServe
    Plates = {"CG", "CX"}
    UrlPlates <- PlatesGrow
    BomPlates <- PlatesGrow
    Offers = {o1}
    NumArtifacts = 4
    UsesBom = {1, 2, 3}
    UsesDtm = {3, 4}
    Pool = 2
    SingleFlight = FALSE
INVARIANT BomFollowsUrls
