----------------------------- MODULE MCEngines -----------------------------
(***************************************************************************)
(* The engines of the cloudlet and the list that chooses among them, each  *)
(* a behaviour of its own: they share no key and no file, so that          *)
(* interleaving them shows nothing more.  Which one moves is chosen at the *)
(* beginning.                                                              *)
(***************************************************************************)
EXTENDS ObjectEngine, TelemetryEngine, AvoidanceEngine, ComputeDatasinks

VARIABLE part

ClassTable == [o \in Object |-> IF o = "man1" THEN "man" ELSE "car"]

Start == /\ ObjectInit /\ TelemetryInit /\ AvoidanceInit /\ Init
         /\ part \in {"object", "telemetry", "avoidance", "datasinks"}
         /\ (part # "object" => fence = "none")
         /\ (part # "avoidance" => detector = "midas")
Step == /\ UNCHANGED part
        /\ \/ part = "object" /\ ObjectNext /\ UNCHANGED <<telemetryVars, avoidanceVars, vars>>
           \/ part = "telemetry" /\ TelemetryNext /\ UNCHANGED <<objectVars, avoidanceVars, vars>>
           \/ part = "avoidance" /\ AvoidanceNext /\ UNCHANGED <<objectVars, telemetryVars, vars>>
           \/ part = "datasinks" /\ Next /\ UNCHANGED <<objectVars, telemetryVars, avoidanceVars>>
Parts == Start /\ [][Step]_<<objectVars, telemetryVars, avoidanceVars, vars, part>>

(* The type invariants of the engines, and of the list of datasinks. *)
TypesOK == ObjectTypeOK /\ TelemetryTypeOK /\ TypeOK
=============================================================================
