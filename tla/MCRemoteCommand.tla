-------------------------- MODULE MCRemoteCommand --------------------------
(* Instances of RemoteCommand for TLC: two vehicles, one of them with two
   commands; or a single vehicle. *)
EXTENDS RemoteCommand, TLC

CONSTANTS r1, r2, r3, v1, v2

TwoVehicles == r1 :> v1 @@ r2 :> v1 @@ r3 :> v2
OneVehicle  == r1 :> v1 @@ r2 :> v1

==============================================================================
