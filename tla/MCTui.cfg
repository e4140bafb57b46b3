SPECIFICATION TuiSpec
CONSTANTS
    a1 = a1
    a2 = a2
    s1 = s1
    s2 = s2
    None = None
    ApplicationOrder <- TwoApplications
    SystemOrder <- TwoSystems
    FirstApplications <- OneApplication
    FirstSystems <- OneSystem
    MaxEvents = 2
    Viewport = 1
    MaxKeys = 4
INVARIANTS
    TuiTypeOK
    RepliesAreExpected
    ActionRunsNext
    LogFollowsDeployment
    SelectionIsListed
    DetailsAreOfSelection
    NoCommandAbandoned
PROPERTIES
    AnchoredViewStays
    NoActionIsLost
    QuitEnds
\* A closed session stops.
CHECK_DEADLOCK FALSE
