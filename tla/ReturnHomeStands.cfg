CONSTANTS
 Drone = {d1, d2}
 NoDrone = NoDrone
 MaxInputs = 3
 MaxKeys = 5
 Plans <- ShippedPlans
 MaxSignals = 2
 MaxRuns = 3
SPECIFICATION Spec
CHECK_DEADLOCK FALSE
INVARIANTS HomeStands
