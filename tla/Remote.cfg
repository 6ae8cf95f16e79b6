CONSTANTS
    r1 = r1
    r2 = r2
    r3 = r3
    v1 = v1
    v2 = v2
    Request = {r1, r2, r3}
    Vehicle = {v1, v2}
    VehicleOf <- TwoVehicles
    Fatal = {r2}
    Report = Report
    Unsent = Unsent
    NoAnswer = NoAnswer
    NumberLimit = 2
    MaxBreaks = 1
    MaxRestarts = 1
    MaxReports = 1
SPECIFICATION FairSpec
INVARIANTS AnswersOwn
PROPERTIES CarrierSpec AnsweredIfConnected
\* Each command is sent once: the model stops when they have ended.
CHECK_DEADLOCK FALSE
