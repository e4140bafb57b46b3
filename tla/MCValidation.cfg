SPECIFICATION Spec
CONSTANTS
    a1 = a1
    a2 = a2
    d1 = d1
    d2 = d2
    d3 = d3
    d4 = d4
    r1 = r1
    r2 = r2
    None = None
    Applications <- TwoApplications
    PublicApplications <- TwoApplications
    Deployments <- TwoDeployments
    Releases <- OneRelease
    FirstPort = 1
    LastPort = 2
    Faults = {"command"}
SYMMETRY Symmetry
INVARIANTS
    FirstFailureServesNothing
\* Once every Deployment identity is used, commands have nothing to do.
CHECK_DEADLOCK FALSE
