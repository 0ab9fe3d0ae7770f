CONSTANTS
    Procs = {p1, p2}
    Managers = {m1, m2}
    Deployments <- MCDeployments
    Renewable = TRUE
    CacheLimit = 1
    MaxRevision = 2
    MaxManifests = 2
SPECIFICATION Spec
SYMMETRY Symmetry
INVARIANT PublishedWhole PendingOwned
PROPERTY NoLostPublication
