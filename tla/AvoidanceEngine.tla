-------------------------- MODULE AvoidanceEngine --------------------------
(***************************************************************************)
(* The obstacle avoidance engine (backend/server/engines/avoidance/        *)
(* obstacle_avoidance_engine.py): from the contours of a depth map it      *)
(* makes a vector, stores it in the Redis stream "avoidance" and answers   *)
(* it.  Inference is external: what matters of it is the largest contour.  *)
(*                                                                         *)
(* Vectors are fractions [num, den]; the code divides floats.              *)
(***************************************************************************)
EXTENDS Cloudlet, Integers

CONSTANT Width                          \* widths of frames
ASSUME AvoidanceAssumption == Width \subseteq Nat \ {0}

VARIABLES
    detector,       \* "midas" or "metric3d", chosen by the command line
    avoidancePc,    \* where the engine is in handle, or "down"
    seen,           \* the frame in hand
    vector,         \* its vector, or Nothing
    newest,         \* the last entry of the Redis stream "avoidance"
    avoidanceKills, avoidanceRestarts

avoidanceVars == <<detector, avoidancePc, seen, vector, newest,
                   avoidanceKills, avoidanceRestarts>>

ScrapX(w) == w \div 5
(* Centroids are columns of the region between the scraps. *)
Columns(w) == 0..(w - 2 * ScrapX(w) - 1)
(* The largest contour: there is none, it encloses no area (m00 = 0), or its centroid. *)
None == -1
Thin == -2
Sight == UNION {[drone : Drone, w : {w}, largest : {None, Thin} \cup Columns(w)] : w \in Width}

(* Faulty variant: the scrapped margin is forgotten. *)
ActuationVectorUnscrapped(w, cX) == [num |-> 2 * cX - w + 2, den |-> w - 2 * ScrapX(w)]

(* (scrapX + cX - w / 2 + 1) / (w / 2 - scrapX), both doubled. *)
ActuationVector(w, cX) == [num |-> 2 * (ScrapX(w) + cX) - w + 2, den |-> w - 2 * ScrapX(w)]
Straight == [num |-> 0, den |-> 1]

AvoidanceInit ==
    /\ detector \in {"midas", "metric3d"}
    /\ avoidancePc = "idle" /\ seen = Nothing /\ vector = Nothing
    /\ newest = Nothing
    /\ avoidanceKills = 0 /\ avoidanceRestarts = 0

(* A TEXT payload is answered WRONG_INPUT_FORMAT and changes nothing; a frame is decoded. *)
HandleImage(s) ==
    /\ avoidancePc = "idle"
    /\ seen' = s /\ avoidancePc' = "inference"
    /\ UNCHANGED <<detector, vector, newest, avoidanceKills, avoidanceRestarts>>

Inference ==
    /\ avoidancePc = "inference"
    /\ seen.largest = Thin => detector = "metric3d"
    /\ vector' = IF seen.largest \in {None, Thin} THEN Straight
                 ELSE ActuationVector(seen.w, seen.largest)
    /\ avoidancePc' = "store"
    /\ UNCHANGED <<detector, seen, newest, avoidanceKills, avoidanceRestarts>>

AvoidanceDown == avoidancePc' = "down" /\ seen' = Nothing /\ vector' = Nothing

(* MiDaS divides by m00 without looking. *)
InferenceRaises ==
    /\ avoidancePc = "inference" /\ seen.largest = Thin /\ detector = "midas"
    /\ AvoidanceDown
    /\ UNCHANGED <<detector, newest, avoidanceKills, avoidanceRestarts>>

StoreVector ==
    /\ avoidancePc = "store"
    /\ newest' = [drone |-> seen.drone, vector |-> vector]
    /\ avoidancePc' = "answer"
    /\ UNCHANGED <<detector, seen, vector, avoidanceKills, avoidanceRestarts>>

(* The image is saved under the time and as moa/latest.jpg, and the vector answered. *)
AnswerVector ==
    /\ avoidancePc = "answer"
    /\ avoidancePc' = "idle" /\ seen' = Nothing /\ vector' = Nothing
    /\ UNCHANGED <<detector, newest, avoidanceKills, avoidanceRestarts>>

AvoidanceKilled ==
    /\ avoidancePc # "down" /\ avoidanceKills < MaxKills
    /\ avoidanceKills' = avoidanceKills + 1
    /\ AvoidanceDown
    /\ UNCHANGED <<detector, newest, avoidanceRestarts>>

AvoidanceRestarts ==
    /\ avoidancePc = "down" /\ avoidanceRestarts < MaxRestarts
    /\ avoidanceRestarts' = avoidanceRestarts + 1 /\ avoidancePc' = "idle"
    /\ UNCHANGED <<detector, seen, vector, newest, avoidanceKills>>

AvoidanceNext ==
    \/ \E s \in Sight : HandleImage(s)
    \/ Inference \/ InferenceRaises \/ StoreVector \/ AnswerVector
    \/ AvoidanceKilled \/ AvoidanceRestarts

AvoidanceSpec == AvoidanceInit /\ [][AvoidanceNext]_avoidanceVars

----------------------------------------------------------------------------
(***************************************************************************)
(* A vector is a fraction of the half of the frame that is looked at:      *)
(* whatever the width, and the rounding of the margins, it lies in (-1, 1] *)
(* and is not divided by zero.                                             *)
(***************************************************************************)
InRange(v) == v.den > 0 /\ v.num <= v.den /\ v.num > - v.den
VectorInRange ==
    /\ vector # Nothing => InRange(vector)
    /\ newest # Nothing => InRange(newest.vector)

==============================================================================
