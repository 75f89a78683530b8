SPECIFICATION Spec
CONSTANTS
    Tools = {"packer", "specreader", "pkgworker", "imager"}
    Workers = {w1, w2}
    NumSpecs = 3
    MaxNetOps = 1
INVARIANT PoolInsideChroot
INVARIANT CleanupSeesHostRoot
INVARIANT ExitLeavesNoMounts
INVARIANT SuccessCoversAllSpecs
PROPERTY Exits
CHECK_DEADLOCK FALSE
