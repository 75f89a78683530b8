SPECIFICATION Spec
CONSTANTS
    MaxComponent = 9
    Worlds <- TiedWorlds
    Dependencies <- AllDependencies
CHECK_DEADLOCK FALSE
INVARIANT MeetsEveryRequirement
