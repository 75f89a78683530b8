SPECIFICATION Spec
CONSTANTS
    Scenarios <- Shutdowns
    Inputs <- ScInputs
    Node <- ScNode
    SRPM <- ScSRPM
    RPM <- ScRPM
    Pkg <- ScRPM
    Implicit = {"i"}
    Satisfies <- ScSatisfies
    NoSRPM = NoSRPM
    NoRPM = NoRPM
    NoPkg = NoPkg
    Worker = {w1, w2}
    Spare <- Spare3
INVARIANTS
    AtMostOneLateRequest
    DrainSyncsActiveBuilds
    ChannelsClosedOnce
PROPERTIES
    EveryoneStops
