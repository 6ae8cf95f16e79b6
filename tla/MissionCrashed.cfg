CONSTANTS
    StartCall = {s1}
    StopCall = {e1}
    Mission <- Missions
    First <- MCFirst
    Transition <- MCTransition
    Event <- MCEvent
    Terminate = "terminate"
    NoMission = NoMission
    Nobody = Nobody
    Fsm = Fsm
    MaxGone = 0
SPECIFICATION Spec
INVARIANTS StartedRuns
SYMMETRY Symmetry
\* Each call is made once, and a mission may end: the model may stop.
CHECK_DEADLOCK FALSE
