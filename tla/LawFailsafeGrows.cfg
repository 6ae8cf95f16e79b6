CONSTANTS
    Call = {c1, c2, c3, c4}
    Command <- OperatorCommands
    LawFile <- ShippedLaw
    Startup <- NoStartup
    Law <- MCLaw
    LawName <- MCLawName
    Base = "__BASE__"
    Remote = "REMOTE"
    NoLaw = NoLaw
    KernelCommand <- MCKernelCommand
    Malformed <- MCMalformed
    Boot = Boot
    Handler = Handler
    Nobody = Nobody
    MaxInFlight = 2
    MaxFailsafes = 2
SPECIFICATION Spec
INVARIANTS FailsafeAsWritten
SYMMETRY Symmetry
\* Each call is made once and the failsafes are bounded: the model stops when they are used up.
CHECK_DEADLOCK FALSE
