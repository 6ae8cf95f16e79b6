CONSTANTS
    Call = {s1, s2, m1}
    ServerCall = {s1, s2}
    Timeout = 1
    Never = Never
    Command <- KernelCommands
    LawFile <- MendedLaw
    Startup <- OneStartup
    Law <- MCLaw
    LawName <- MCLawName
    Base = "__BASE__"
    Remote = "REMOTE"
    NoLaw = NoLaw
    KernelCommand <- MCKernelCommand
    Malformed <- MCMalformed
    Boot = Boot
    Handler = Handler
    Nobody = Nobody
    MaxInFlight = 2
    MaxFailsafes = 3
SPECIFICATION FairKernelSpec
INVARIANTS OneFailsafePerSilence
PROPERTIES FailsafeFires EveryMessageReceived EveryCallEnds
\* Each call is made once: the model stops when the calls are used up.
CHECK_DEADLOCK FALSE
