SPECIFICATION Spec
CONSTANTS
    Tools = {"imager"}
    Workers = {w1, w2}
    NumSpecs = 2
    MaxNetOps = 1
PROPERTY SignalCleansUp
CHECK_DEADLOCK FALSE
