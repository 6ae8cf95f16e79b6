--------------------------- MODULE MissionControl ---------------------------
(***************************************************************************)
(* What the Mission service promises to its callers, without its lock, its *)
(* store and its tasks.  A call takes effect at one moment between its     *)
(* request and its answer: a Start flies the mission that was uploaded     *)
(* when it was asked, or finds the runtime started; a Stop is completed    *)
(* with nothing in the air.  A flight goes from action to action by the    *)
(* transitions of its mission, and ends at Terminate or is broken off.     *)
(***************************************************************************)
CONSTANTS StartCall, StopCall, Mission, First, Transition, Terminate, NoMission

VARIABLES
    mission,    \* the mission uploaded
    ready,      \* the runtime is started
    flight,     \* the mission in the air, or NoMission
    place,      \* the action of it that is run
    phase,      \* Call -> where the call is
    want        \* Call -> the mission a Start was asked for

vars == <<mission, ready, flight, place, phase, want>>
callVars == <<phase, want>>
airVars  == <<ready, flight, place>>

Call == StartCall \cup StopCall

Init ==
    /\ mission = NoMission
    /\ ready = FALSE /\ flight = NoMission /\ place = Terminate
    /\ phase = [c \in Call |-> "idle"]
    /\ want = [c \in Call |-> NoMission]

Upload(m) == mission' = m /\ UNCHANGED <<airVars, callVars>>

(* Without a mission both calls are refused. *)
Refuse(c) ==
    /\ phase[c] = "idle" /\ mission = NoMission
    /\ phase' = [phase EXCEPT ![c] = "refused"]
    /\ UNCHANGED <<mission, airVars, want>>

Ask(c) ==
    /\ phase[c] = "idle" /\ mission # NoMission
    /\ phase' = [phase EXCEPT ![c] = "pending"]
    /\ want' = IF c \in StartCall THEN [want EXCEPT ![c] = mission] ELSE want
    /\ UNCHANGED <<mission, airVars>>

Answer(c) == phase[c] = "pending" /\ phase' = [phase EXCEPT ![c] = "completed"]

Fly(c) ==
    /\ Answer(c)
    /\ ~ready /\ ready' = TRUE
    /\ flight = NoMission /\ flight' = want[c] /\ place' = First[want[c]]
    /\ UNCHANGED <<mission, want>>

(* The runtime is started already, whether or not its mission still flies. *)
Find(c) == Answer(c) /\ ready /\ UNCHANGED <<mission, airVars, want>>

Land(c) ==
    /\ Answer(c)
    /\ flight = NoMission /\ ready' = FALSE
    /\ UNCHANGED <<mission, flight, place, want>>

(* The runtime cannot be started or stopped, or the caller hangs up. *)
Fail(c) ==
    /\ phase[c] = "pending"
    /\ \E e \in {"failed", "gone"} : phase' = [phase EXCEPT ![c] = e]
    /\ UNCHANGED <<mission, airVars, want>>

Advance ==
    /\ flight # NoMission /\ place \in DOMAIN Transition[flight]
    /\ \E e \in DOMAIN Transition[flight][place] : place' = Transition[flight][place][e]
    /\ UNCHANGED <<mission, ready, flight, callVars>>

(* The end of the mission stops the runtime ... *)
Return ==
    /\ flight # NoMission /\ place = Terminate
    /\ flight' = NoMission /\ ready' = FALSE
    /\ UNCHANGED <<mission, place, callVars>>

(* ... an error, or a Stop, breaks it off and leaves the runtime started. *)
BreakOff ==
    /\ flight # NoMission
    /\ flight' = NoMission /\ place' = Terminate
    /\ UNCHANGED <<mission, ready, callVars>>

Next ==
    \/ \E m \in Mission : Upload(m)
    \/ \E c \in Call : Refuse(c) \/ Ask(c) \/ Fail(c)
    \/ \E c \in StartCall : Fly(c) \/ Find(c)
    \/ \E c \in StopCall : Land(c)
    \/ Advance \/ Return \/ BreakOff

Spec == Init /\ [][Next]_vars

=============================================================================
