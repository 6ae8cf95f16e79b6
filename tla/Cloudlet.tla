------------------------------ MODULE Cloudlet ------------------------------
(* What the engines of the cloudlet have in common (backend/server/docker-compose.yml). *)
EXTENDS Naturals, Sequences

CONSTANTS
    Drone,          \* vehicle_info.name of frames and telemetry
    Nothing,        \* no drone, no object
    MaxKills,       \* bound: times an engine is killed from outside
    MaxRestarts     \* restart: on-failure:3

ASSUME CloudletAssumption ==
    Nothing \notin Drone /\ MaxKills \in Nat /\ MaxRestarts \in Nat

==============================================================================
