CONSTANTS
    r1 = r1
    r2 = r2
    r3 = r3
    v1 = v1
    v2 = v2
    Request = {r1, r2}
    Vehicle = {v1}
    VehicleOf <- OneVehicle
    Fatal = {}
    Report = Report
    Unsent = Unsent
    NoAnswer = NoAnswer
    NumberLimit = 2
    MaxBreaks = 0
    MaxRestarts = 0
    MaxReports = 1
SPECIFICATION Spec
INVARIANTS CorrectAnswer
\* Each command is sent once: the model stops when they have ended.
CHECK_DEADLOCK FALSE
