-------------------------- MODULE ComputeDatasinks --------------------------
(***************************************************************************)
(* The kernel's compute service (vehicle/kernel/services/                  *)
(* compute_service.py) and the stream handler it keeps informed            *)
(* (vehicle/kernel/handlers/stream_handler.py): the list of datasinks, and *)
(* the engines the producers of the local and the remote Gabriel client    *)
(* send frames and telemetry to.  No handler gives up control midway.      *)
(***************************************************************************)
EXTENDS FiniteSets

CONSTANTS
    Engine,         \* datasink ids, none of them with "remote:" in it
    LocalClient,    \* internal.streams.local_compute is configured
    RemoteClient    \* cloudlet.remote_compute_service is configured

ASSUME DatasinksAssumption == LocalClient \in BOOLEAN /\ RemoteClient \in BOOLEAN

VARIABLES
    datasinks,      \* ComputeService._datasinks
    localTargets,   \* target engines of StreamHandler._local_producers
    remoteTargets   \* target engines of StreamHandler._remote_producers

vars == <<datasinks, localTargets, remoteTargets>>

Location == {"local", "remote"}
Datasink == [location : Location, id : Engine]

(* Faulty variant: the producers are given the datasinks, not their ids. *)
AtWhole(sinks, where) == {d \in sinks : d.location = where}

At(sinks, where) == {s.id : s \in {d \in sinks : d.location = where}}

Init == datasinks = {} /\ localTargets = {} /\ remoteTargets = {}

(* Faulty variant: the remote producers too keep their engines when none is left. *)
UpdateTargetEnginesCautious(sinks) ==
    /\ remoteTargets' = IF RemoteClient /\ At(sinks, "remote") # {}
                        THEN At(sinks, "remote") ELSE remoteTargets
    /\ localTargets' = IF LocalClient /\ At(sinks, "local") # {}
                       THEN At(sinks, "local") ELSE localTargets

(* A client without a configuration has no producers; the local producers
   are told of engines only when there are some. *)
UpdateTargetEngines(sinks) ==
    /\ remoteTargets' = IF RemoteClient THEN At(sinks, "remote") ELSE remoteTargets
    /\ localTargets' = IF LocalClient /\ At(sinks, "local") # {}
                       THEN At(sinks, "local") ELSE localTargets

Become(sinks) == datasinks' = sinks /\ UpdateTargetEngines(sinks)

AddDatasinks(sinks)    == Become(datasinks \cup sinks)
SetDatasinks(sinks)    == Become(sinks)
RemoveDatasinks(sinks) == Become(datasinks \ sinks)

Next == \E sinks \in SUBSET Datasink :
            AddDatasinks(sinks) \/ SetDatasinks(sinks) \/ RemoveDatasinks(sinks)

Spec == Init /\ [][Next]_vars

----------------------------------------------------------------------------
(* Datasinks are what requests name, and producers are given engine ids. *)
TypeOK ==
    /\ datasinks \subseteq Datasink
    /\ localTargets \subseteq Engine /\ remoteTargets \subseteq Engine

(***************************************************************************)
(* Whatever sequence of requests led here, frames reach every engine of    *)
(* the list that a client can reach; no remote engine that was removed     *)
(* still gets frames, and no local one as long as another is left          *)
(* (stream_test.py:50-73 removes the remote engine only).                  *)
(***************************************************************************)
TargetsFollow ==
    /\ remoteTargets = IF RemoteClient THEN At(datasinks, "remote") ELSE {}
    /\ At(datasinks, "local") # {} =>
           localTargets = IF LocalClient THEN At(datasinks, "local") ELSE {}
    /\ ~LocalClient => localTargets = {}

==============================================================================
