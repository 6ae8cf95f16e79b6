--------------------------- MODULE MissionActions ---------------------------
(***************************************************************************)
(* What the actions and events of a mission do between the steps of its    *)
(* FSM: the action classes (sdk/.../dsl/types/actions) call the kernel     *)
(* through the API (api/vehicle.py, api/compute.py, api/utils.py), the     *)
(* event classes (dsl/types/events) poll the store.  MissionRuntime has    *)
(* the FSM in full, with racers that finish or raise; here a state has its *)
(* action and one event, and the racers have content.                      *)
(*                                                                         *)
(* A call is its number.  The kernel learns of a cancellation later than   *)
(* the client that cancels.                                                *)
(***************************************************************************)
EXTENDS Naturals, FiniteSets

CONSTANTS
    NoClass,        \* no action, no event
    Legs,           \* waypoints of a patrol
    MaxCalls,       \* bound: calls of a mission
    MaxStates       \* bound: states a mission goes through

ASSUME ActionsAssumption == Legs \in Nat /\ MaxCalls \in Nat /\ MaxStates \in Nat

(***************************************************************************)
(* The classes by what execute() amounts to.  Joystick is not among them:  *)
(* its duration is a protobuf Duration, which no mission file can contain. *)
(***************************************************************************)
Unary == {"Connect", "Disconnect", "Arm", "Disarm", "ConfigureTelemetryStream"}
Streamed == {"TakeOff", "Land", "Hold", "Kill", "ReturnToHome", "SetGlobalPosition",
             "SetRelativePosition", "SetVelocity", "SetHeading", "SetGimbalPose"}
(* SetHome iterates a coroutine; the sensor stream calls a dict; the datasinks were dumped
   to dicts that are dumped again; PrePatrolSequence wants an argument nobody passes. *)
Raising == {"SetHome", "ConfigureImagingSensorStream", "AddDatasinks", "SetDatasinks",
            "RemoveDatasinks", "PrePatrolSequence"}
ActionClass == Unary \cup Streamed \cup Raising \cup {"ElevateToAltitude", "Patrol", "Track"}

TelemetryEvents == {"BatteryReached", "SatellitesReached", "GimbalPoseReached",
                    "VelocityReached", "RelativePositionReached", "GlobalPositionReached"}
ResultEvents == {"DetectionFound", "HSVReached"}
EventClass == TelemetryEvents \cup ResultEvents \cup {"TimeReached"}
ASSUME NoClassAssumption == NoClass \notin ActionClass \cup EventClass

VARIABLES
    doing,          \* class of the action of the current state, or NoClass
    step,           \* where it is: "none", "start", "call", "pause" or "over"
    event,          \* class of its event, or NoClass when none races
    met,            \* what the event waits for has come about
    leg,            \* waypoints a patrol has dealt with
    call,           \* the call the action waits for, 0 for none
    calls,          \* number of the last call
    working,        \* calls the kernel works on
    dropped,        \* calls the client has cancelled
    altitude,       \* the telemetry row: "none", "low" or "reached"
    flight,         \* "running", or why it is not: "over", "crashed", "blocked"
    states

callVars    == <<call, calls, working, dropped>>
actionsVars == <<doing, step, event, met, leg, callVars, altitude, flight, states>>

ActionsInit ==
    /\ doing = NoClass /\ step = "none" /\ event = NoClass /\ met = FALSE /\ leg = 0
    /\ call = 0 /\ calls = 0 /\ working = {} /\ dropped = {}
    /\ altitude = "none" /\ flight = "running" /\ states = 0

----------------------------------------------------------------------------
Enter(a, e) ==
    /\ flight = "running" /\ doing = NoClass /\ states < MaxStates
    /\ doing' = a /\ step' = "start" /\ leg' = 0
    /\ event' = e /\ met' = FALSE
    /\ states' = states + 1
    /\ UNCHANGED <<callVars, altitude>>

(* run_state. *)
EnterState(a, e) == Enter(a, e) /\ UNCHANGED flight

(* A mission that leaves out the target of GlobalPositionReached: check() tests it again and
   again and never awaits.  It has the loop of the mission before the first call leaves. *)
EnterBlocked(a) == Enter(a, "GlobalPositionReached") /\ flight' = "blocked"

(* The compiler writes a null for it (model_dump), which the field refuses when the state is
   run: the TaskGroup is left before the action has begun. *)
EnterRefused ==
    /\ flight = "running" /\ doing = NoClass /\ states < MaxStates
    /\ states' = states + 1 /\ flight' = "crashed"
    /\ UNCHANGED <<doing, step, event, met, leg, callVars, altitude>>

(* Where the loop gets round to the action, and to an event of the given classes. *)
At(s) == flight = "running" /\ step = s
Racing(classes) == flight = "running" /\ event \in classes

Open == calls < MaxCalls /\ calls' = calls + 1 /\ call' = calls + 1
        /\ working' = working \cup {calls + 1} /\ step' = "call"

(* run_unary, run_streaming: one RPC. *)
CallKernel ==
    /\ At("start") /\ doing \in Unary \cup Streamed
    /\ Open
    /\ UNCHANGED <<doing, event, met, leg, dropped, altitude, flight, states>>

(* A patrol goes to its next waypoint, whatever the answer for the last one was. *)
PatrolLeg ==
    /\ At("start") /\ doing = "Patrol" /\ leg < Legs
    /\ Open /\ leg' = leg + 1
    /\ UNCHANGED <<doing, event, met, dropped, altitude, flight, states>>

(* Faulty variant: the answered call is not forgotten. *)
KernelAnswersHolding ==
    /\ At("call") /\ call \in working
    /\ working' = working \ {call}
    /\ step' \in IF doing = "Patrol" THEN {"start", "pause"} ELSE {"over"}
    /\ UNCHANGED <<doing, event, met, leg, call, calls, dropped, altitude, flight, states>>

(* The call ends: completed, failed or denied, which is a response like any other. *)
KernelAnswers ==
    /\ At("call") /\ call \in working
    /\ working' = working \ {call} /\ call' = 0
    /\ step' \in IF doing = "Patrol" THEN {"start", "pause"} ELSE {"over"}
    /\ UNCHANGED <<doing, event, met, leg, calls, dropped, altitude, flight, states>>

(* The kernel learns that a call was cancelled, or has just finished it. *)
KernelDrops(c) ==
    /\ c \in working \cap dropped
    /\ working' = working \ {c} /\ dropped' = dropped \ {c}
    /\ UNCHANGED <<doing, step, event, met, leg, call, calls, altitude, flight, states>>

(* hover_time *)
PauseEnds ==
    /\ At("pause")
    /\ step' = "start"
    /\ UNCHANGED <<doing, event, met, leg, callVars, altitude, flight, states>>

(* Faulty variant: one waypoint more than there is. *)
ActionReturnsLate ==
    /\ At("start")
    /\ \/ doing = "Patrol" /\ leg > Legs
       \/ doing = "ElevateToAltitude" /\ altitude = "reached"
       \/ doing = "Track"
    /\ step' = "over"
    /\ UNCHANGED <<doing, event, met, leg, callVars, altitude, flight, states>>

(* Nothing more to do: every waypoint visited, the altitude reached, nothing to track. *)
ActionReturns ==
    /\ At("start")
    /\ \/ doing = "Patrol" /\ leg = Legs
       \/ doing = "ElevateToAltitude" /\ altitude = "reached"
       \/ doing = "Track"
    /\ step' = "over"
    /\ UNCHANGED <<doing, event, met, leg, callVars, altitude, flight, states>>

----------------------------------------------------------------------------
(* Faulty variant: a stream is left open by the iterator that is cancelled. *)
QuitLeavingOpen ==
    /\ doing' = NoClass /\ step' = "none" /\ event' = NoClass /\ met' = FALSE /\ leg' = 0
    /\ call' = 0
    /\ UNCHANGED <<calls, working, dropped, altitude, states>>

(* The racers of the state are cancelled and waited for, and with them the call. *)
Quit ==
    /\ doing' = NoClass /\ step' = "none" /\ event' = NoClass /\ met' = FALSE /\ leg' = 0
    /\ dropped' = dropped \cup ({call} \cap working) /\ call' = 0
    /\ UNCHANGED <<calls, working, altitude, states>>

ActionWins == At("over") /\ Quit /\ UNCHANGED flight

EventFires == Racing({"TimeReached"}) /\ met /\ Quit /\ UNCHANGED flight

(* fetch_telemetry awaits the row and returns None: the event asks again, and again the rest of
   the loop has its turn. *)
PollTelemetry ==
    /\ Racing(TelemetryEvents)
    /\ UNCHANGED actionsVars

(* fetch_results returns None, and None has no result. *)
PollResults ==
    /\ Racing(ResultEvents)
    /\ Quit /\ flight' = "crashed"

(* An action that raises: at once, for want of telemetry, or because it is too low, for
   there is no ReferenceFrame.ENU to climb in; a patrol because it has no such area. *)
ActionRaises ==
    /\ At("start")
    /\ \/ doing \in Raising
       \/ doing = "ElevateToAltitude" /\ altitude # "reached"
       \/ doing = "Patrol" /\ leg = 0
    /\ Quit /\ flight' = "crashed"

(* term(). *)
MissionStopped ==
    /\ flight = "running"
    /\ Quit /\ flight' = "over"

----------------------------------------------------------------------------
(* The world: telemetry arrives, conditions come about. *)
TelemetryArrives ==
    /\ flight # "blocked"
    /\ altitude' \in {"low", "reached"} \ {altitude}
    /\ UNCHANGED <<doing, step, event, met, leg, callVars, flight, states>>

ConditionMet ==
    /\ event # NoClass /\ ~met
    /\ met' = TRUE
    /\ UNCHANGED <<doing, step, event, leg, callVars, altitude, flight, states>>

ActionsNext ==
    \/ \E a \in ActionClass, e \in EventClass \cup {NoClass} : EnterState(a, e)
    \/ \E a \in ActionClass : EnterBlocked(a)
    \/ EnterRefused
    \/ CallKernel \/ PatrolLeg \/ PauseEnds \/ ActionReturns
    \/ KernelAnswers \/ \E c \in 1..MaxCalls : KernelDrops(c)
    \/ ActionWins \/ EventFires \/ PollTelemetry \/ PollResults \/ ActionRaises
    \/ MissionStopped \/ TelemetryArrives \/ ConditionMet

(* The loop of the mission runs whatever can run, as long as what runs awaits. *)
LoopFairness ==
    WF_actionsVars(CallKernel \/ PatrolLeg \/ PauseEnds \/ ActionReturns \/ ActionRaises \/ ActionWins)
        /\ WF_actionsVars(EventFires) /\ WF_actionsVars(PollResults)
(* A driver ends its calls, if only with an error. *)
KernelFairness == WF_actionsVars(KernelAnswers)

ActionsSpec == ActionsInit /\ [][ActionsNext]_actionsVars /\ LoopFairness

----------------------------------------------------------------------------
(* Every variable has its type, and an action waits for the call it has opened. *)
ActionsTypeOK ==
    /\ doing \in ActionClass \cup {NoClass} /\ event \in EventClass \cup {NoClass}
    /\ step \in {"none", "start", "call", "pause", "over"} /\ met \in BOOLEAN
    /\ leg \in 0..Legs /\ calls \in 0..MaxCalls /\ call \in 0..calls
    /\ working \subseteq 1..calls /\ dropped \subseteq working
    /\ altitude \in {"none", "low", "reached"} /\ flight \in {"running", "over", "crashed", "blocked"}
    /\ states \in 0..MaxStates
    /\ (doing = NoClass <=> step = "none") /\ (call # 0 <=> step = "call")
    /\ step = "call" => call \in working

(***************************************************************************)
(* One command at a time: of all the calls the kernel works on for a       *)
(* mission only the one its action waits for goes on uncancelled - after   *)
(* an event, an error, the end of a patrol or a Stop in the middle too.    *)
(***************************************************************************)
OneCommand == working \ dropped = {call} \ {0}

(***************************************************************************)
(* A state whose calls are answered ends, by its action, its event or an   *)
(* error, whichever events poll beside it - unless one without a target    *)
(* has blocked the loop.                                                   *)
(***************************************************************************)
StateEnds == (doing # NoClass) ~> (doing = NoClass \/ flight = "blocked" \/ calls = MaxCalls)

(***************************************************************************)
(* "True when battery <= threshold" (singulars.py:30), and likewise of the *)
(* other events about telemetry: when it has come about the state is left. *)
(***************************************************************************)
EventTriggers == (met /\ Racing(TelemetryEvents)) ~> (event = NoClass)

=============================================================================
