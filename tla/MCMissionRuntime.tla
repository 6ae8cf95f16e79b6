-------------------------- MODULE MCMissionRuntime --------------------------
(* Instances of MissionRuntime for TLC: a patrol that events interrupt, as in
   the guide's example, and a mission with a misspelt action and a misspelt event. *)
EXTENDS MissionRuntime, TLC

Missions == {"patrol", "typo"}
PatrolTransition ==
    [takeOff |-> [done |-> "patrol"],
     patrol  |-> [done |-> "patrol", batteryLow |-> "land", seen |-> "takeOff"],
     land    |-> [done |-> Terminate]]
TypoTransition ==
    [takeOff |-> [done |-> "patrl", seen |-> "hover"],
     hover   |-> [done |-> Terminate, batteryLw |-> "takeOff"]]

MCTransition == [m \in Missions |-> IF m = "patrol" THEN PatrolTransition ELSE TypoTransition]
MCFirst == [m \in Missions |-> "takeOff"]
MCEvent == {"batteryLow", "seen"}

Symmetry == Permutations(StartCall) \cup Permutations(StopCall)

==============================================================================
