CONSTANTS
    StartCall = {s1, s2}
    StopCall = {e1, e2}
    Mission <- Missions
    First <- MCFirst
    Transition <- MCTransition
    Event <- MCEvent
    Terminate = "terminate"
    NoMission = NoMission
    Nobody = Nobody
    Fsm = Fsm
    MaxGone = 1
SPECIFICATION FairSpec
INVARIANTS TypeOK NobodyStuck StoreMatchesRuntime
PROPERTIES ServiceSpec NoStrayRacer EveryCallEnds
\* Each call is made once, and a mission may end: the model may stop.
CHECK_DEADLOCK FALSE
