CONSTANTS
    Call = {c1, c2, c3}
    Command <- UserCommands
    LawFile <- UserLaw
    Startup <- OneStartup
    Law <- MCLaw
    LawName <- MCLawName
    Base = "__BASE__"
    Remote = "REMOTE"
    NoLaw = NoLaw
    KernelCommand <- MCKernelCommand
    Malformed <- MCMalformed
    Boot = Boot
    Handler = Handler
    Nobody = Nobody
    MaxInFlight = 3
    MaxFailsafes = 1
SPECIFICATION Spec
INVARIANTS TypeOK LockSafe OperatorNeverDenied KernelOpensWithLaw
PROPERTIES FailsafeUndisturbed SwitchEarned ControlSpec
SYMMETRY Symmetry
\* Each call is made once and the failsafes are bounded: the model stops when they are used up.
CHECK_DEADLOCK FALSE
