SPECIFICATION Spec
CONSTANTS
    MaxComponent = 9
    Worlds <- AllWorlds
    Dependencies <- AllDependencies
CHECK_DEADLOCK FALSE
INVARIANT LocalMeetsRequirements
INVARIANT HighestLocal
INVARIANT RemoteOnlyIfAskedFor
INVARIANT RemoteForGood
