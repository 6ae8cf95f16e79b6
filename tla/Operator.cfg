CONSTANTS
 Drone = {d1, d2}
 NoDrone = NoDrone
 MaxInputs = 3
 MaxKeys = 5
 Plans <- ShippedPlans
 MaxSignals = 2
 MaxRuns = 3
SPECIFICATION Spec
\* Inputs, keys, signals and runs are used up, and processes end: each part may stop.
CHECK_DEADLOCK FALSE
INVARIANTS TypesOK UploadSettled RoundReaches CallsInOrder LogKept SamePasswords
PROPERTIES StopEnds
