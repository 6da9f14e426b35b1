\* Liveness and refinement of JobProtocol: one thread for two jobs, two payloads (one against the rules), a release that does not parse and one that drops a profile.
SPECIFICATION FairSpec
CONSTANTS
    d1 = d1
    m2 = m2
    p1 = p1
    None = None
    Jobs = {j1, j2}
    Payloads = {p1, p2}
    Deployments = {d1}
    DeploymentOf <- OneSite
    Valid = {p1}
    Manifests = {m1, m2, bad}
    WellFormed = {m1, m2}
    Serves <- NewestServesOne
    Plates = {"CG", "CX"}
    UrlPlates <- PlatesSame
    BomPlates <- PlatesSame
    Offers = {o1}
    NumArtifacts = 2
    UsesBom = {1}
    UsesDtm = {2}
    Pool = 1
    SingleFlight = FALSE
PROPERTIES AnswerArrives ImplementsProtocol
