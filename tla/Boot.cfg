SPECIFICATION Spec
CONSTANTS
    Images <- MCImages
    Configs <- MCConfigs
    ModifierModes <- MCModifierModes
    MaxOps = 3
INVARIANT SELinuxAsAsked
INVARIANT ExtrasReachKernel
INVARIANT VerityRootBoots
INVARIANT IsoBootsLive
INVARIANT StampingIsIdempotent
