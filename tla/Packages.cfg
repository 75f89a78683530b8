SPECIFICATION Spec
CONSTANTS
    Scenarios <- Packages
    Inputs <- ScInputs
    Node <- ScNode
    SRPM <- ScSRPM
    RPM <- ScRPM
    Pkg <- ScRPM
    Implicit = {}
    Satisfies <- ScSatisfies
    NoSRPM = NoSRPM
    NoRPM = NoRPM
    NoPkg = NoPkg
    Worker = {w1, w2}
    Spare <- Spare2
SYMMETRY WorkerSymmetry
INVARIANTS
    CascadeIsExact
    TestSkippedOnlyWithBuild
    SuccessMeansRPMsExist
    GivesUpOnlyIfBlocked
    InstallsOnDisk
    OneCopyInstalled
