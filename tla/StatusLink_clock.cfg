SPECIFICATION Spec
CONSTANTS
    MaxBoots = 1
    MaxFaults = 0
INVARIANT ServerStampsArrival
CHECK_DEADLOCK FALSE
