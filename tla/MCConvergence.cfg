SPECIFICATION FairConvSpec
CONSTANTS
    None = None
    ContainerIds <- FiveContainers
    MaxFaults = 2
INVARIANTS
    ConvTypeOK
    ActiveRouteIsServed
    WithdrawnRouteIsGone
PROPERTIES
    EffectsAreReserved
    RunningIsUndisturbed
    RepairedIdentityIsProven
    ApplyingIsSettled
