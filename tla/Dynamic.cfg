SPECIFICATION Spec
CONSTANTS
    Scenarios <- Dynamic
    Inputs <- ScInputs
    Node <- ScNode
    SRPM <- ScSRPM
    RPM <- ScRPM
    Pkg <- ScRPM
    Implicit = {"i"}
    Satisfies <- ScSatisfies
    NoSRPM = NoSRPM
    NoRPM = NoRPM
    NoPkg = NoPkg
    Worker = {w1, w2}
    Spare <- Spare8
SYMMETRY WorkerSymmetry
INVARIANTS
    ImplicitDependenciesInstalled
    SendsNeverBlock
    OutstandingIsActive
    NoConcurrentBuildOfSRPM
PROPERTIES
    AvailableForGood
