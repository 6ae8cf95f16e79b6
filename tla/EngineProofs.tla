---------------------------- MODULE EngineProofs ----------------------------
(***************************************************************************)
(* Proofs about the engines of the cloudlet: the objects of the detection  *)
(* engine, the pages over the telemetry engine, the vector of the          *)
(* avoidance engine, and the list that chooses among the engines, for any  *)
(* number of vehicles, objects, kills, restarts and engines and every      *)
(* width of a frame.                                                       *)
(***************************************************************************)
EXTENDS MCEngines, TLAPS, SequenceTheorems

----------------------------------------------------------------------------
(***************************************************************************)
(* The object detection engine.                                            *)
(***************************************************************************)

(* A frame less one detection is a frame. *)
LEMMA TailFrame ==
    ASSUME NEW b \in Frames, b # <<>>
    PROVE  Tail(b) \in Frames /\ Head(b) \in Class
<1>1. PICK n \in 0..MaxBoxes : b \in [1..n -> Class]
    BY DEF Frames
<1>2. n \in Nat /\ b \in Seq(Class) /\ Len(b) = n
    BY <1>1, ObjectAssumption
<1>3. n # 0
    BY <1>1, <1>2
<1>4. Tail(b) \in Seq(Class) /\ Len(Tail(b)) = n - 1 /\ n - 1 \in 0..MaxBoxes
    BY <1>2, <1>3, ObjectAssumption
<1>5. Tail(b) \in [1..(n - 1) -> Class]
    BY <1>4, LenProperties
<1>6. Tail(b) \in Frames
    BY <1>4, <1>5 DEF Frames
<1>7. QED
    BY <1>2, <1>3, <1>6

(* The engine goes from field to field, and a field is no other place in handle. *)
LEMMA FieldPlaces ==
    /\ Fields[1] \in FieldName
    /\ \A i \in DOMAIN Fields : Fields[i] \in FieldName
    /\ \A i \in DOMAIN Fields : i # Len(Fields) => Fields[i + 1] \in FieldName
    /\ FieldName \cap {"idle", "next", "collect", "delete", "zadd", "search", "look", "add",
                       "expire", "answer", "down"} = {}
<1>1. Len(Fields) = 5 /\ DOMAIN Fields = 1..5
    BY DEF Fields
<1>2. \A i \in 1..5 : i # 5 => i + 1 \in 1..5
    OBVIOUS
<1>3. FieldName = {"last_seen", "id", "cls", "confidence", "link"}
    BY DEF Fields, FieldName
<1>4. QED
    BY <1>1, <1>2, <1>3 DEF FieldName

Busy    == objectPc \notin {"idle", "next", "answer", "down"}
Writing == objectPc \in FieldName \cup {"expire"}

(* hset keeps the hashes of others, and makes one for the object in hand. *)
LEMMA HsetOne ==
    ASSUME NEW o, NEW f
    PROVE  /\ DOMAIN Hset(o, f) = DOMAIN objects \cup {o}
           /\ \A x \in DOMAIN objects : x # o => Hset(o, f)[x] = objects[x]
    BY DEF Hset

(* A hash written field by field keeps its type. *)
LEMMA HsetTyped ==
    ASSUME ObjectTypeOK, NEW o \in Object, NEW f \in FieldName
    PROVE  \A x \in DOMAIN Hset(o, f) : Hset(o, f)[x] \in Hash
<1> DEFINE h == IF o \in DOMAIN objects THEN objects[o]
                ELSE [fields |-> {}, id |-> Nothing, ttl |-> FALSE]
<1>1. h \in Hash
    BY DEF ObjectTypeOK, Hash
<1>2. [h EXCEPT !.fields = @ \cup {f}, !.id = IF f = "id" THEN drone ELSE @] \in Hash
    BY <1>1 DEF ObjectTypeOK, Hash
<1>3. QED
    BY <1>2 DEF Hset, ObjectTypeOK

----------------------------------------------------------------------------
(***************************************************************************)
(* The inductive invariant.  A detection is looked at or stored only while *)
(* there is one; what is being stored is in the set; what lives is in the  *)
(* hand of the garbage collection while the set is empty; and while the    *)
(* objects near are looked at, one not looked at yet may be of the class.  *)
(***************************************************************************)
Handling ==
    /\ Busy => boxes # <<>>
    /\ Writing => hand \in detections
    /\ objectPc = "delete" => detections \cap DOMAIN objects \subseteq live

Unlike ==
    fence # "none" /\ ~cleared =>
        /\ objectPc = "look" => \A o \in DOMAIN objects : o \in found \/ ClassOf[o] # Head(boxes)
        /\ objectPc = "add" \/ Writing =>
              \A o \in DOMAIN objects : ClassOf[o] = ClassOf[hand] => o = hand

ObjectInv == ObjectTypeOK /\ Handling /\ LiveListed /\ OnePerClass /\ Unlike

(* The invariant holds of an empty database. *)
LEMMA ObjectStart == ObjectInit => ObjectInv
<1> SUFFICES ASSUME ObjectInit PROVE ObjectInv
    OBVIOUS
<1>1. <<>> \in Frames
    BY ObjectAssumption DEF Frames
<1>2. ObjectTypeOK
    <2>1. DOMAIN objects = {}
        BY DEF ObjectInit
    <2>2. objectKills \in 0..MaxKills /\ objectRestarts \in 0..MaxRestarts
        BY CloudletAssumption DEF ObjectInit
    <2>3. QED
        BY <1>1, <2>1, <2>2, FieldPlaces DEF ObjectInit, ObjectTypeOK
<1>3. QED
    BY <1>2, FieldPlaces DEF ObjectInit, ObjectInv, Handling, LiveListed, OnePerClass, Unlike, Busy, Writing

(* Every variable keeps its type. *)
LEMMA ObjectTypeStep == ObjectInv /\ ObjectNext => ObjectTypeOK'
<1> SUFFICES ASSUME ObjectInv, ObjectNext PROVE ObjectTypeOK'
    OBVIOUS
<1> USE FieldPlaces DEF ObjectInv, ObjectTypeOK, storeVars, frameVars, faultVars
<1>1. ASSUME NEW d \in Drone, NEW b \in Frames, HandleFrame(d, b) PROVE ObjectTypeOK'
    BY <1>1 DEF HandleFrame
<1>2. CASE StoreAsNew
    BY <1>2 DEF StoreAsNew
<1>3. CASE Filter
    BY <1>3 DEF Filter
<1>4. CASE OutsideFence
    BY <1>4, TailFrame DEF OutsideFence
<1>5. CASE Collect
    BY <1>5 DEF Collect
<1>6. CASE Delete
    BY <1>6 DEF Delete
<1>7. CASE Zadd
    BY <1>7 DEF Zadd
<1>8. CASE Search
    BY <1>8 DEF Search
<1>9. CASE LookOn
    BY <1>9 DEF LookOn
<1>10. CASE AlreadyFound
    <2>1. <<>> \in Frames
        BY ObjectAssumption DEF Frames
    <2>2. QED
        BY <1>10, <2>1 DEF AlreadyFound, Down
<1>11. CASE PassedAsNew
    BY <1>11 DEF PassedAsNew, Handling, Busy
<1>12. CASE Geoadd
    BY <1>12 DEF Geoadd
<1>13. ASSUME NEW i \in DOMAIN Fields, WriteField(i) PROVE ObjectTypeOK'
    <2>1. hand \in Object /\ boxes # <<>> /\ Fields[i] \in FieldName
        BY <1>13 DEF WriteField
    <2>2. DOMAIN objects' \subseteq Object /\ \A o \in DOMAIN objects' : objects'[o] \in Hash
        <3>1. objects' = Hset(hand, Fields[i])
            BY <1>13 DEF WriteField
        <3>2. DOMAIN Hset(hand, Fields[i]) = DOMAIN objects \cup {hand}
            BY HsetOne
        <3>3. \A o \in DOMAIN Hset(hand, Fields[i]) : Hset(hand, Fields[i])[o] \in Hash
            BY <2>1, HsetTyped
        <3>4. QED
            BY <2>1, <3>1, <3>2, <3>3
    <2>3. objectPc' \in FieldName \cup {"expire"}
        BY <1>13 DEF WriteField
    <2>4. QED
        BY <1>13, <2>1, <2>2, <2>3 DEF WriteField
<1>14. CASE SetExpiry
    <2>1. Tail(boxes) \in Frames
        BY <1>14, TailFrame DEF SetExpiry
    <2>2. DOMAIN objects' \subseteq Object /\ \A o \in DOMAIN objects' : objects'[o] \in Hash
        BY <1>14 DEF SetExpiry, Hash
    <2>3. QED
        BY <1>14, <2>1, <2>2 DEF SetExpiry
<1>15. CASE AnswerEmpty
    BY <1>15 DEF AnswerEmpty
<1>16. CASE AnswerRaises \/ Kill
    <2>1. <<>> \in Frames
        BY ObjectAssumption DEF Frames
    <2>2. objectKills' \in 0..MaxKills /\ objectRestarts' = objectRestarts
        BY <1>16, CloudletAssumption DEF AnswerRaises, Kill
    <2>3. cleared' \in BOOLEAN
        BY <1>16 DEF AnswerRaises, Kill
    <2>4. QED
        BY <1>16, <2>1, <2>2, <2>3 DEF AnswerRaises, Kill, Down
<1>17. CASE Restart
    <2>1. objectRestarts' \in 0..MaxRestarts
        BY <1>17, CloudletAssumption DEF Restart
    <2>2. QED
        BY <1>17, <2>1 DEF Restart
<1>18. CASE TtlPasses
    BY <1>18 DEF TtlPasses
<1>19. ASSUME NEW o \in Object, HashExpires(o) PROVE ObjectTypeOK'
    BY <1>19 DEF HashExpires
<1>20. QED
    BY <1>1, <1>2, <1>3, <1>4, <1>5, <1>6, <1>7, <1>8, <1>9, <1>10, <1>11, <1>12, <1>13, <1>14,
       <1>15, <1>16, <1>17, <1>18, <1>19 DEF ObjectNext

(* What is being stored is listed, and what lives is not lost with the set. *)
LEMMA HandlingStep == ObjectInv /\ ObjectNext => Handling' /\ LiveListed'
<1> SUFFICES ASSUME ObjectInv, ObjectNext PROVE Handling' /\ LiveListed'
    OBVIOUS
<1> USE FieldPlaces DEF ObjectInv, Handling, LiveListed, Busy, Writing,
                        storeVars, frameVars, faultVars
<1>1. ASSUME NEW d \in Drone, NEW b \in Frames, HandleFrame(d, b) PROVE Handling' /\ LiveListed'
    BY <1>1 DEF HandleFrame
<1>2. CASE StoreAsNew
    BY <1>2 DEF StoreAsNew
<1>3. CASE Filter
    BY <1>3 DEF Filter
<1>4. CASE OutsideFence
    BY <1>4 DEF OutsideFence
<1>5. CASE Collect
    BY <1>5 DEF Collect
<1>6. CASE Delete
    BY <1>6 DEF Delete
<1>7. CASE Zadd
    BY <1>7 DEF Zadd
<1>8. CASE Search
    BY <1>8 DEF Search
<1>9. CASE LookOn
    BY <1>9 DEF LookOn
<1>10. CASE AlreadyFound
    BY <1>10 DEF AlreadyFound, Down
<1>11. CASE PassedAsNew
    BY <1>11 DEF PassedAsNew
<1>12. CASE Geoadd
    BY <1>12 DEF Geoadd
<1>13. ASSUME NEW i \in DOMAIN Fields, WriteField(i) PROVE Handling' /\ LiveListed'
    <2>1. objectPc \in FieldName /\ objectPc' \in FieldName \cup {"expire"}
        BY <1>13 DEF WriteField
    <2>2. DOMAIN objects' = DOMAIN objects \cup {hand}
        BY <1>13, HsetOne DEF WriteField
    <2>3. QED
        BY <1>13, <2>1, <2>2 DEF WriteField
<1>14. CASE SetExpiry
    BY <1>14 DEF SetExpiry
<1>15. CASE AnswerEmpty
    BY <1>15 DEF AnswerEmpty
<1>16. CASE AnswerRaises \/ Kill
    BY <1>16 DEF AnswerRaises, Kill, Down
<1>17. CASE Restart
    BY <1>17 DEF Restart
<1>18. CASE TtlPasses
    BY <1>18 DEF TtlPasses
<1>19. ASSUME NEW o \in Object, HashExpires(o) PROVE Handling' /\ LiveListed'
    BY <1>19 DEF HashExpires
<1>20. QED
    BY <1>1, <1>2, <1>3, <1>4, <1>5, <1>6, <1>7, <1>8, <1>9, <1>10, <1>11, <1>12, <1>13, <1>14,
       <1>15, <1>16, <1>17, <1>18, <1>19 DEF ObjectNext

(* The geofence is that of the command line, and a lost set is not forgotten. *)
LEMMA FenceStays ==
    ASSUME ObjectTypeOK, ObjectNext
    PROVE  fence' = fence /\ (cleared => cleared')
<1> USE DEF faultVars
<1>1. CASE Kill
    BY <1>1 DEF Kill, ObjectTypeOK
<1>2. CASE StoreAsNew \/ Filter \/ OutsideFence \/ Collect \/ Delete \/ Zadd \/ Search \/ LookOn
    BY <1>2 DEF StoreAsNew, Filter, OutsideFence, Collect, Delete, Zadd, Search, LookOn
<1>3. CASE AlreadyFound \/ PassedAsNew \/ Geoadd \/ SetExpiry \/ AnswerEmpty \/ AnswerRaises
    BY <1>3 DEF AlreadyFound, PassedAsNew, Geoadd, SetExpiry, AnswerEmpty, AnswerRaises
<1>4. CASE Restart \/ TtlPasses
    BY <1>4 DEF Restart, TtlPasses
<1>5. ASSUME NEW d, NEW b, HandleFrame(d, b) PROVE fence' = fence /\ cleared' = cleared
    BY <1>5 DEF HandleFrame
<1>6. ASSUME NEW i, WriteField(i) \/ HashExpires(i) PROVE fence' = fence /\ cleared' = cleared
    BY <1>6 DEF WriteField, HashExpires
<1>7. QED
    BY <1>1, <1>2, <1>3, <1>4, <1>5, <1>6 DEF ObjectNext

(* With a geofence only an object unlike all that exist is stored as a new one. *)
LEMMA UnlikeStep == ObjectInv /\ ObjectNext => OnePerClass' /\ Unlike'
<1> SUFFICES ASSUME ObjectInv, ObjectNext, (fence # "none" /\ ~cleared)'
             PROVE  OnePerClass' /\ Unlike'
    BY DEF OnePerClass, Unlike
<1>a. fence # "none" /\ ~cleared
    BY FenceStays DEF ObjectInv
<1> USE <1>a, FieldPlaces DEF ObjectInv, OnePerClass, Unlike, Writing, storeVars, frameVars, faultVars
<1>1. ASSUME NEW d \in Drone, NEW b \in Frames, HandleFrame(d, b) PROVE OnePerClass' /\ Unlike'
    BY <1>1 DEF HandleFrame
<1>2. CASE StoreAsNew
    BY <1>2 DEF StoreAsNew
<1>3. CASE Filter
    BY <1>3 DEF Filter
<1>4. CASE OutsideFence
    BY <1>4 DEF OutsideFence
<1>5. CASE Collect
    BY <1>5 DEF Collect
<1>6. CASE Delete
    BY <1>6 DEF Delete
<1>7. CASE Zadd
    BY <1>7 DEF Zadd
<1>8. CASE Search
    BY <1>8 DEF Search, LiveListed
<1>9. CASE LookOn
    BY <1>9 DEF LookOn
<1>10. CASE AlreadyFound
    BY <1>10 DEF AlreadyFound, Down
<1>11. CASE PassedAsNew
    BY <1>11 DEF PassedAsNew
<1>12. CASE Geoadd
    BY <1>12 DEF Geoadd
<1>13. ASSUME NEW i \in DOMAIN Fields, WriteField(i) PROVE OnePerClass' /\ Unlike'
    <2>1. objectPc \in FieldName /\ objectPc' \in FieldName \cup {"expire"}
        BY <1>13 DEF WriteField
    <2>2. DOMAIN objects' = DOMAIN objects \cup {hand}
        BY <1>13, HsetOne DEF WriteField
    <2>3. QED
        BY <1>13, <2>1, <2>2 DEF WriteField
<1>14. CASE SetExpiry
    BY <1>14 DEF SetExpiry
<1>15. CASE AnswerEmpty
    BY <1>15 DEF AnswerEmpty
<1>16. CASE AnswerRaises \/ Kill
    BY <1>16 DEF AnswerRaises, Kill, Down
<1>17. CASE Restart
    BY <1>17 DEF Restart
<1>18. CASE TtlPasses
    BY <1>18 DEF TtlPasses
<1>19. ASSUME NEW o \in Object, HashExpires(o) PROVE OnePerClass' /\ Unlike'
    BY <1>19 DEF HashExpires
<1>20. QED
    BY <1>1, <1>2, <1>3, <1>4, <1>5, <1>6, <1>7, <1>8, <1>9, <1>10, <1>11, <1>12, <1>13, <1>14,
       <1>15, <1>16, <1>17, <1>18, <1>19 DEF ObjectNext

(* openscout_object_engine.py: wherever the engine is killed and whichever keys expire, what is
   being stored is listed or about to be, and objects in the geofence are unlike each other. *)
THEOREM ObjectInvariant == ObjectSpec => []ObjectInv
<1>1. ObjectInv /\ UNCHANGED objectVars => ObjectInv'
    BY DEF ObjectInv, ObjectTypeOK, Handling, LiveListed, OnePerClass, Unlike, Busy, Writing,
           objectVars, storeVars, frameVars, faultVars
<1>2. ObjectInv /\ [ObjectNext]_objectVars => ObjectInv'
    BY <1>1, ObjectTypeStep, HandlingStep, UnlikeStep DEF ObjectInv
<1>3. QED
    BY ObjectStart, <1>2, PTL DEF ObjectSpec

(* No object that exists is out of the reach of the ground stations and of the geofilter,
   wherever the engine is killed but between the two commands of the garbage collection. *)
THEOREM LiveIsListed == ObjectSpec => []LiveListed
    BY ObjectInvariant, PTL DEF ObjectInv

(* "Ignoring detection, already found" (geofilter_passed), for every number of vehicles,
   classes and detections in a frame. *)
THEOREM ClassStoredOnce == ObjectSpec => []OnePerClass
    BY ObjectInvariant, PTL DEF ObjectInv

----------------------------------------------------------------------------
(***************************************************************************)
(* The obstacle avoidance engine.                                          *)
(***************************************************************************)

(* The margins take less than half of the frame, however they are rounded. *)
LEMMA MarginsNarrow ==
    ASSUME NEW w \in Nat \ {0}
    PROVE  ScrapX(w) \in Nat /\ w - 2 * ScrapX(w) > 0
    BY DEF ScrapX

(* A column of the region between the margins gives a vector in (-1, 1]. *)
LEMMA ColumnInRange ==
    ASSUME NEW w \in Width, NEW cX \in Columns(w)
    PROVE  InRange(ActuationVector(w, cX))
<1>1. w \in Nat \ {0}
    BY AvoidanceAssumption
<1>2. DEFINE q == ScrapX(w)
<1>3. q \in Nat /\ w - 2 * q > 0
    BY <1>1, MarginsNarrow
<1>4. cX \in Int /\ 0 <= cX /\ cX <= w - 2 * q - 1
    BY <1>1, <1>3 DEF Columns
<1> HIDE DEF q
<1>5. /\ 2 * (q + cX) - w + 2 <= w - 2 * q
      /\ 2 * (q + cX) - w + 2 > - (w - 2 * q)
    BY <1>1, <1>3, <1>4
<1>6. ActuationVector(w, cX) = [num |-> 2 * (q + cX) - w + 2, den |-> w - 2 * q]
    BY DEF ActuationVector, q
<1>7. QED
    BY <1>3, <1>5, <1>6 DEF InRange

(* The vector in hand is that of the frame in hand. *)
AvoidanceInv ==
    /\ avoidancePc = "inference" => seen \in Sight
    /\ IF avoidancePc \in {"store", "answer"} THEN InRange(vector) ELSE vector = Nothing
    /\ newest # Nothing => InRange(newest.vector)

(* The vector in hand, the stored one and the answered one stay in range. *)
LEMMA AvoidanceStep == AvoidanceInv /\ [AvoidanceNext]_avoidanceVars => AvoidanceInv'
<1> SUFFICES ASSUME AvoidanceInv, [AvoidanceNext]_avoidanceVars PROVE AvoidanceInv'
    OBVIOUS
<1> USE DEF AvoidanceInv
<1>1. ASSUME NEW s \in Sight, HandleImage(s) PROVE AvoidanceInv'
    BY <1>1 DEF HandleImage
<1>2. CASE Inference
    <2>1. PICK w \in Width : seen.w = w /\ seen.largest \in {None, Thin} \cup Columns(w)
        BY <1>2 DEF Inference, Sight
    <2>2. InRange(Straight)
        BY DEF InRange, Straight
    <2>3. seen.largest \notin {None, Thin} => InRange(ActuationVector(seen.w, seen.largest))
        BY <2>1, ColumnInRange
    <2>4. InRange(vector')
        BY <1>2, <2>2, <2>3 DEF Inference
    <2>5. QED
        BY <1>2, <2>4 DEF Inference
<1>3. CASE InferenceRaises
    BY <1>3 DEF InferenceRaises, AvoidanceDown
<1>4. CASE StoreVector
    BY <1>4 DEF StoreVector
<1>5. CASE AnswerVector
    BY <1>5 DEF AnswerVector
<1>6. CASE AvoidanceKilled
    BY <1>6 DEF AvoidanceKilled, AvoidanceDown
<1>7. CASE AvoidanceRestarts
    BY <1>7 DEF AvoidanceRestarts
<1>8. CASE UNCHANGED avoidanceVars
    BY <1>8 DEF avoidanceVars
<1>9. QED
    BY <1>1, <1>2, <1>3, <1>4, <1>5, <1>6, <1>7, <1>8 DEF AvoidanceNext

(* Whatever the width of the frames and wherever the largest contour lies, the vector that is
   stored and answered (obstacle_avoidance_engine.py:285) is a fraction of half the region. *)
THEOREM VectorStaysInRange == AvoidanceSpec => []VectorInRange
<1>1. AvoidanceInit => AvoidanceInv
    BY DEF AvoidanceInit, AvoidanceInv
<1>2. AvoidanceInv => VectorInRange
    BY DEF AvoidanceInv, VectorInRange
<1>3. QED
    BY <1>1, <1>2, AvoidanceStep, PTL DEF AvoidanceSpec

----------------------------------------------------------------------------
(***************************************************************************)
(* The telemetry engine and its pages.                                     *)
(***************************************************************************)

(* The places in which updateVehicle has written none, some or all of the status. *)
LEMMA StatusPlaces ==
    /\ DOMAIN StatusFields = 1..8 /\ Len(StatusFields) = 8
    /\ StatusFields[1] = "last_seen"
    /\ \A i \in 1..8 : StatusFields[i] \in StatusField
    /\ \A f \in StatusField : \E i \in 1..8 : f = StatusFields[i]
    /\ \A i, j \in 1..8 : StatusFields[i] = StatusFields[j] => i = j
    /\ StatusField \cap {"idle", "xadd", "expireStream", "expireStatus", "saving", "rename", "down"} = {}
    /\ {"last_seen", "battery", "mag", "sats"} \subseteq StatusField
<1>1. DOMAIN StatusFields = 1..8 /\ Len(StatusFields) = 8
    BY DEF StatusFields
<1>2. StatusField = {"last_seen", "battery", "mag", "sats", "connection", "model", "home", "cameras"}
    BY DEF StatusFields, StatusField
<1>3. \A i, j \in 1..8 : StatusFields[i] = StatusFields[j] => i = j
    BY DEF StatusFields
<1>4. StatusFields[1] = "last_seen"
    BY DEF StatusFields
<1>5. QED
    BY <1>1, <1>2, <1>3, <1>4 DEF StatusField

(***************************************************************************)
(* What the pages find.  The stream's time to live is set at most a unit   *)
(* before last_seen, so that a drone seen lately has a position unless     *)
(* that expired in the middle of an update; its status is set to expire    *)
(* after last_seen, so that between updates it is there as long.  A status *)
(* is all there, or is being written, or the last update was disturbed;    *)
(* and an update that was not has written the fields before the one it     *)
(* has come to.                                                            *)
(***************************************************************************)
ClocksFollow ==
    \A d \in Reporter :
        /\ streamAge[d] <= age[d] + 1
        /\ d \notin torn /\ ~Updating(d) => statusAge[d] <= age[d]
        /\ teller = d /\ telemetryPc \in StatusField \cup {"expireStatus"} => streamAge[d] <= 1

SeenIsStored ==
    \A d \in Reporter : d \notin torn =>
        /\ age[d] + 1 < Ttl => d \in stream
        /\ ~Updating(d) /\ age[d] < Ttl => status[d] = StatusField

StatusWhole ==
    \A d \in Reporter : status[d] \in {{}, StatusField} \/ d \in torn \/ Updating(d)

UpdateSoFar ==
    \A d \in Reporter : Updating(d) /\ d \notin torn =>
        /\ d \in stream
        /\ \A i \in 1..8 : telemetryPc = StatusFields[i] =>
               \A j \in 1..8 : j < i => StatusFields[j] \in status[d]
        /\ telemetryPc = "expireStatus" => status[d] = StatusField

SavedWhole == telemetryPc = "rename" => temp[teller] = "whole"

TelemetryInv ==
    TelemetryTypeOK /\ SavedWhole /\ ClocksFollow /\ SeenIsStored /\ StatusWhole /\ UpdateSoFar

(* The invariant holds of an empty database and no files. *)
LEMMA TelemetryStart == TelemetryInit => TelemetryInv
<1> SUFFICES ASSUME TelemetryInit PROVE TelemetryInv
    OBVIOUS
<1>1. telemetryKills \in 0..MaxKills /\ telemetryRestarts \in 0..MaxRestarts
    BY CloudletAssumption DEF TelemetryInit
<1>2. /\ age \in [Reporter -> 0..MaxAge] /\ streamAge = age /\ statusAge = age
      /\ \A d \in Reporter : age[d] \in Nat /\ ~(age[d] < Ttl) /\ ~(age[d] + 1 < Ttl)
    BY TelemetryAssumption DEF TelemetryInit
<1>3. TelemetryTypeOK
    BY <1>1, <1>2, StatusPlaces, TelemetryAssumption DEF TelemetryInit, TelemetryTypeOK, File
<1>4. ClocksFollow /\ SeenIsStored
    BY <1>2, StatusPlaces DEF TelemetryInit, ClocksFollow, SeenIsStored
<1>5. QED
    BY <1>3, <1>4, StatusPlaces
       DEF TelemetryInit, TelemetryInv, SavedWhole, StatusWhole, UpdateSoFar, Updating

(* Every variable keeps its type, and no half image is renamed. *)
LEMMA TelemetryTypeStep == TelemetryInv /\ TelemetryNext => TelemetryTypeOK' /\ SavedWhole'
<1> SUFFICES ASSUME TelemetryInv, TelemetryNext PROVE TelemetryTypeOK' /\ SavedWhole'
    OBVIOUS
<1>0. Nothing \notin Reporter
    BY CloudletAssumption, TelemetryAssumption
<1> USE <1>0, StatusPlaces DEF TelemetryInv, TelemetryTypeOK, SavedWhole, File,
        redisVars, clockVars, imageVars, engineVars, pageVars
<1>1. ASSUME NEW d \in Reporter, HandleTelemetry(d) PROVE TelemetryTypeOK' /\ SavedWhole'
    BY <1>1 DEF HandleTelemetry
<1>2. ASSUME NEW d \in Reporter, SaveTemp(d) PROVE TelemetryTypeOK' /\ SavedWhole'
    BY <1>2 DEF SaveTemp
<1>3. CASE Xadd
    BY <1>3 DEF Xadd
<1>4. CASE ExpireStream
    BY <1>4, TelemetryAssumption DEF ExpireStream
<1>5. CASE ExpireStatus
    BY <1>5, TelemetryAssumption DEF ExpireStatus
<1>6. CASE CamerasRaise
    BY <1>6 DEF CamerasRaise, EngineEnds, Disturbed
<1>7. ASSUME NEW i \in DOMAIN StatusFields, WriteStatus(i) PROVE TelemetryTypeOK' /\ SavedWhole'
    BY <1>7, TelemetryAssumption DEF WriteStatus
<1>8. CASE TempSaved
    BY <1>8 DEF TempSaved
<1>9. CASE SaveFails
    BY <1>9 DEF SaveFails
<1>10. CASE Rename
    BY <1>10 DEF Rename
<1>11. CASE TelemetryKilled
    <2>1. telemetryKills' \in 0..MaxKills
        BY <1>11, CloudletAssumption DEF TelemetryKilled
    <2>2. torn' \subseteq Reporter
        BY <1>11 DEF TelemetryKilled, Disturbed, Updating
    <2>3. QED
        BY <1>11, <2>1, <2>2 DEF TelemetryKilled, EngineEnds
<1>12. CASE TelemetryRestarts
    <2>1. telemetryRestarts' \in 0..MaxRestarts
        BY <1>12, CloudletAssumption DEF TelemetryRestarts
    <2>2. QED
        BY <1>12, <2>1 DEF TelemetryRestarts
<1>13. CASE Tick
    <2>1. \A c \in [Reporter -> 0..MaxAge] : Older(c) \in [Reporter -> 0..MaxAge]
        BY TelemetryAssumption DEF Older
    <2>2. QED
        BY <1>13, <2>1 DEF Tick
<1>14. ASSUME NEW d \in Reporter, StreamExpires(d) PROVE TelemetryTypeOK' /\ SavedWhole'
    BY <1>14 DEF StreamExpires, Disturbed
<1>15. ASSUME NEW d \in Reporter, StatusExpires(d) PROVE TelemetryTypeOK' /\ SavedWhole'
    BY <1>15 DEF StatusExpires, Disturbed
<1>16. ASSUME NEW kind \in Page, OpenPage(kind) PROVE TelemetryTypeOK' /\ SavedWhole'
    BY <1>16 DEF OpenPage
<1>17. ASSUME NEW d \in Reporter, ReadLastSeen(d) PROVE TelemetryTypeOK' /\ SavedWhole'
    BY <1>17 DEF ReadLastSeen
<1>18. ASSUME NEW d \in Reporter, ReadPosition(d) PROVE TelemetryTypeOK' /\ SavedWhole'
    BY <1>18 DEF ReadPosition
<1>19. ASSUME NEW d \in Reporter, PageRaises(d) PROVE TelemetryTypeOK' /\ SavedWhole'
    BY <1>19 DEF PageRaises
<1>20. CASE ReadDetails
    BY <1>20 DEF ReadDetails
<1>21. CASE ClosePage
    BY <1>21 DEF ClosePage
<1>22. ASSUME NEW t \in Thresholds, SetThreshold(t) PROVE TelemetryTypeOK' /\ SavedWhole'
    BY <1>22 DEF SetThreshold
<1>23. QED
    BY <1>1, <1>2, <1>3, <1>4, <1>5, <1>6, <1>7, <1>8, <1>9, <1>10, <1>11, <1>12, <1>13, <1>14,
       <1>15, <1>16, <1>17, <1>18, <1>19, <1>20, <1>21, <1>22 DEF TelemetryNext

(* What is written of a drone stays until it expires, and a disturbance is remembered. *)
LEMMA StatusStep == TelemetryInv /\ TelemetryNext => StatusWhole' /\ UpdateSoFar'
<1> SUFFICES ASSUME TelemetryInv, TelemetryNext
             PROVE  StatusWhole' /\ UpdateSoFar'
    OBVIOUS
<1>0. Nothing \notin Reporter
    BY CloudletAssumption, TelemetryAssumption
<1> USE <1>0, StatusPlaces DEF TelemetryInv, TelemetryTypeOK, StatusWhole, UpdateSoFar,
        Updating, redisVars, clockVars, imageVars, engineVars, pageVars
<1>1. ASSUME NEW d \in Reporter, HandleTelemetry(d) PROVE StatusWhole' /\ UpdateSoFar'
    BY <1>1 DEF HandleTelemetry
<1>2. ASSUME NEW d \in Reporter, SaveTemp(d) PROVE StatusWhole' /\ UpdateSoFar'
    BY <1>2 DEF SaveTemp
<1>3. CASE Xadd
    BY <1>3 DEF Xadd
<1>4. CASE ExpireStream
    BY <1>4 DEF ExpireStream
<1>5. CASE ExpireStatus
    BY <1>5 DEF ExpireStatus
<1>6. CASE CamerasRaise
    BY <1>6 DEF CamerasRaise, EngineEnds, Disturbed
<1>7. ASSUME NEW i \in DOMAIN StatusFields, WriteStatus(i) PROVE StatusWhole' /\ UpdateSoFar'
    BY <1>7 DEF WriteStatus
<1>8. CASE TempSaved
    BY <1>8 DEF TempSaved
<1>9. CASE SaveFails
    BY <1>9 DEF SaveFails
<1>10. CASE Rename
    BY <1>10 DEF Rename
<1>11. CASE TelemetryKilled
    BY <1>11 DEF TelemetryKilled, EngineEnds, Disturbed
<1>12. CASE TelemetryRestarts
    BY <1>12 DEF TelemetryRestarts
<1>13. CASE Tick
    BY <1>13 DEF Tick
<1>14. ASSUME NEW d \in Reporter, StreamExpires(d) PROVE StatusWhole' /\ UpdateSoFar'
    BY <1>14 DEF StreamExpires, Disturbed
<1>15. ASSUME NEW d \in Reporter, StatusExpires(d) PROVE StatusWhole' /\ UpdateSoFar'
    BY <1>15 DEF StatusExpires, Disturbed
<1>16. ASSUME NEW kind \in Page, OpenPage(kind) PROVE StatusWhole' /\ UpdateSoFar'
    BY <1>16 DEF OpenPage
<1>17. ASSUME NEW d \in Reporter, ReadLastSeen(d) PROVE StatusWhole' /\ UpdateSoFar'
    BY <1>17 DEF ReadLastSeen
<1>18. ASSUME NEW d \in Reporter, ReadPosition(d) PROVE StatusWhole' /\ UpdateSoFar'
    BY <1>18 DEF ReadPosition
<1>19. ASSUME NEW d \in Reporter, PageRaises(d) PROVE StatusWhole' /\ UpdateSoFar'
    BY <1>19 DEF PageRaises
<1>20. CASE ReadDetails
    BY <1>20 DEF ReadDetails
<1>21. CASE ClosePage
    BY <1>21 DEF ClosePage
<1>22. ASSUME NEW t \in Thresholds, SetThreshold(t) PROVE StatusWhole' /\ UpdateSoFar'
    BY <1>22 DEF SetThreshold
<1>23. QED
    BY <1>1, <1>2, <1>3, <1>4, <1>5, <1>6, <1>7, <1>8, <1>9, <1>10, <1>11, <1>12, <1>13, <1>14,
       <1>15, <1>16, <1>17, <1>18, <1>19, <1>20, <1>21, <1>22 DEF TelemetryNext

(* The clocks of the keys keep to that of last_seen, and what was seen lately is there. *)
LEMMA ClockStep == TelemetryInv /\ TelemetryNext => ClocksFollow' /\ SeenIsStored'
<1> SUFFICES ASSUME TelemetryInv, TelemetryNext
             PROVE  ClocksFollow' /\ SeenIsStored'
    OBVIOUS
<1>0. Nothing \notin Reporter
    BY CloudletAssumption, TelemetryAssumption
<1>a. \A d \in Reporter : age[d] \in Nat /\ streamAge[d] \in Nat /\ statusAge[d] \in Nat
    BY DEF TelemetryInv, TelemetryTypeOK
<1> USE <1>0, <1>a, TelemetryAssumption, StatusPlaces DEF TelemetryInv, TelemetryTypeOK, ClocksFollow, SeenIsStored,
        Updating, redisVars, clockVars, imageVars, engineVars, pageVars
<1>1. ASSUME NEW d \in Reporter, HandleTelemetry(d) PROVE ClocksFollow' /\ SeenIsStored'
    BY <1>1 DEF HandleTelemetry
<1>2. ASSUME NEW d \in Reporter, SaveTemp(d) PROVE ClocksFollow' /\ SeenIsStored'
    BY <1>2 DEF SaveTemp
<1>3. CASE Xadd
    BY <1>3 DEF Xadd
<1>4. CASE ExpireStream
    BY <1>4 DEF ExpireStream
<1>5. CASE ExpireStatus
    BY <1>5 DEF ExpireStatus, UpdateSoFar
<1>6. CASE CamerasRaise
    BY <1>6 DEF CamerasRaise, EngineEnds, Disturbed
<1>7. ASSUME NEW i \in DOMAIN StatusFields, WriteStatus(i) PROVE ClocksFollow' /\ SeenIsStored'
    <2>1. \A d \in Reporter : Updating(d)' <=> Updating(d)
        BY <1>7 DEF WriteStatus
    <2>2. \A d \in Reporter : d = teller \/ age'[d] = age[d]
        BY <1>7 DEF WriteStatus
    <2>3. age'[teller] \in {0, age[teller]} /\ streamAge[teller] <= 1
        BY <1>7 DEF WriteStatus
    <2>4. teller \notin torn => teller \in stream
        BY <1>7 DEF WriteStatus, UpdateSoFar
    <2>5. ClocksFollow'
        BY <1>7, <2>1, <2>2, <2>3 DEF WriteStatus
    <2>6. SeenIsStored'
        <3> SUFFICES ASSUME NEW d \in Reporter, d \notin torn'
                     PROVE  (/\ age[d] + 1 < Ttl => d \in stream
                             /\ ~Updating(d) /\ age[d] < Ttl => status[d] = StatusField)'
            BY DEF SeenIsStored
        <3>1. CASE d = teller
            BY <1>7, <2>4, <3>1 DEF WriteStatus
        <3>2. CASE d # teller
            BY <1>7, <2>2, <3>2 DEF WriteStatus
        <3>3. QED
            BY <3>1, <3>2
    <2>7. QED
        BY <2>5, <2>6
<1>8. CASE TempSaved
    BY <1>8 DEF TempSaved
<1>9. CASE SaveFails
    BY <1>9 DEF SaveFails
<1>10. CASE Rename
    BY <1>10 DEF Rename
<1>11. CASE TelemetryKilled
    BY <1>11 DEF TelemetryKilled, EngineEnds, Disturbed
<1>12. CASE TelemetryRestarts
    BY <1>12 DEF TelemetryRestarts
<1>13. CASE Tick
    <2>1. \A d \in Reporter :
              /\ age'[d] = IF age[d] < MaxAge THEN age[d] + 1 ELSE MaxAge
              /\ streamAge'[d] = IF streamAge[d] < MaxAge THEN streamAge[d] + 1 ELSE MaxAge
              /\ statusAge'[d] = IF statusAge[d] < MaxAge THEN statusAge[d] + 1 ELSE MaxAge
        BY <1>13 DEF Tick, Older
    <2>2. \A d \in Reporter : age[d] \in 0..MaxAge /\ streamAge[d] \in 0..MaxAge /\ statusAge[d] \in 0..MaxAge
        OBVIOUS
    <2>3. UNCHANGED <<torn, telemetryPc, teller, stream, status>>
        BY <1>13 DEF Tick
    <2>4. ClocksFollow'
        <3> SUFFICES ASSUME NEW d \in Reporter
                     PROVE  /\ streamAge'[d] <= age'[d] + 1
                            /\ d \notin torn /\ ~Updating(d) => statusAge'[d] <= age'[d]
                            /\ teller = d /\ telemetryPc \in StatusField \cup {"expireStatus"} =>
                                   streamAge'[d] <= 1
            BY <2>3 DEF ClocksFollow
        <3>1. streamAge'[d] <= age'[d] + 1
            BY <2>1, <2>2
        <3>2. d \notin torn /\ ~Updating(d) => statusAge'[d] <= age'[d]
            <4>1. SUFFICES ASSUME d \notin torn, ~Updating(d) PROVE statusAge'[d] <= age'[d]
                OBVIOUS
            <4>2. statusAge[d] <= age[d]
                BY <4>1
            <4>3. QED
                BY <2>1, <2>2, <4>2
        <3>3. teller = d /\ telemetryPc \in StatusField \cup {"expireStatus"} => streamAge'[d] <= 1
            BY <1>13, <2>1, <2>2 DEF Tick
        <3>4. QED
            BY <3>1, <3>2, <3>3
    <2>5. \A d \in Reporter : age'[d] < Ttl => age[d] < Ttl /\ age'[d] = age[d] + 1
        BY <2>1, <2>2
    <2>6. SeenIsStored'
        <3> SUFFICES ASSUME NEW d \in Reporter, d \notin torn
                     PROVE  /\ age'[d] + 1 < Ttl => d \in stream
                            /\ ~Updating(d) /\ age'[d] < Ttl => status[d] = StatusField
            BY <2>3 DEF SeenIsStored
        <3>1. age'[d] + 1 < Ttl => age[d] + 1 < Ttl
            BY <2>1, <2>2
        <3>2. QED
            BY <2>5, <3>1
    <2>7. QED
        BY <2>4, <2>6
<1>14. ASSUME NEW d \in Reporter, StreamExpires(d) PROVE ClocksFollow' /\ SeenIsStored'
    BY <1>14 DEF StreamExpires, Disturbed
<1>15. ASSUME NEW d \in Reporter, StatusExpires(d) PROVE ClocksFollow' /\ SeenIsStored'
    BY <1>15 DEF StatusExpires, Disturbed
<1>16. ASSUME NEW kind \in Page, OpenPage(kind) PROVE ClocksFollow' /\ SeenIsStored'
    BY <1>16 DEF OpenPage
<1>17. ASSUME NEW d \in Reporter, ReadLastSeen(d) PROVE ClocksFollow' /\ SeenIsStored'
    BY <1>17 DEF ReadLastSeen
<1>18. ASSUME NEW d \in Reporter, ReadPosition(d) PROVE ClocksFollow' /\ SeenIsStored'
    BY <1>18 DEF ReadPosition
<1>19. ASSUME NEW d \in Reporter, PageRaises(d) PROVE ClocksFollow' /\ SeenIsStored'
    BY <1>19 DEF PageRaises
<1>20. CASE ReadDetails
    BY <1>20 DEF ReadDetails
<1>21. CASE ClosePage
    BY <1>21 DEF ClosePage
<1>22. ASSUME NEW t \in Thresholds, SetThreshold(t) PROVE ClocksFollow' /\ SeenIsStored'
    BY <1>22 DEF SetThreshold
<1>23. QED
    BY <1>1, <1>2, <1>3, <1>4, <1>5, <1>6, <1>7, <1>8, <1>9, <1>10, <1>11, <1>12, <1>13, <1>14,
       <1>15, <1>16, <1>17, <1>18, <1>19, <1>20, <1>21, <1>22 DEF TelemetryNext

(* telemetry_engine.py: wherever the engine is killed and whichever keys expire, a vehicle seen
   less than the time to live ago, less a unit for its position, has its keys, its status is all
   there, and no half image is renamed, but for an update that was disturbed. *)
THEOREM TelemetryInvariant == TelemetrySpec => []TelemetryInv
<1>1. TelemetryInv /\ UNCHANGED telemetryVars => TelemetryInv'
    BY DEF TelemetryInv, TelemetryTypeOK, SavedWhole, ClocksFollow, SeenIsStored, StatusWhole, UpdateSoFar,
           Updating, telemetryVars, redisVars, clockVars, imageVars, engineVars, pageVars
<1>2. TelemetryInv /\ [TelemetryNext]_telemetryVars => TelemetryInv'
    BY <1>1, TelemetryTypeStep, StatusStep, ClockStep DEF TelemetryInv
<1>3. QED
    BY TelemetryStart, <1>2, PTL DEF TelemetrySpec

(* No page raises but at a key that is gone or torn, for any number of vehicles. *)
LEMMA RaisesRarely ==
    ASSUME TelemetryInv, NEW d \in Reporter, PageRaises(d)
    PROVE  /\ threshold < Ttl /\ Active(d) => d \in torn \/ (page # "map" /\ Updating(d))
           /\ page # "map" => status[d] = {} \/ d \in torn \/ Updating(d)
<1>1. NeededFields \subseteq StatusField /\ "last_seen" \in StatusField
    BY StatusPlaces DEF NeededFields
<1>2. age[d] \in Nat /\ threshold \in Nat /\ Ttl \in Nat
    BY TelemetryAssumption DEF TelemetryInv, TelemetryTypeOK
<1>3. threshold < Ttl /\ Active(d) => age[d] < Ttl /\ age[d] + 1 < Ttl
    BY <1>2 DEF Active
<1>4. CASE page = "map"
    BY <1>3, <1>4 DEF PageRaises, NeededFields, TelemetryInv, SeenIsStored
<1>5. CASE page # "map"
    <2>1. status[d] # StatusField
        BY <1>1, <1>5 DEF PageRaises
    <2>2. QED
        BY <1>3, <1>5, <2>1 DEF TelemetryInv, StatusWhole, SeenIsStored
<1>6. QED
    BY <1>4, <1>5

(* util.py, overview.py, monitoring.py and control.py: a page over the telemetry of any number
   of vehicles raises only at a key that is gone, being written, or torn, and at one of an active
   vehicle, under a threshold shorter than the time to live, only at one torn or being written. *)
THEOREM PagesSeldomRaise == TelemetrySpec => PagesRaiseRarely
<1>1. TelemetryInv => [\A d \in Reporter : PageRaises(d) =>
          /\ threshold < Ttl /\ Active(d) => d \in torn \/ (page # "map" /\ Updating(d))
          /\ page # "map" => status[d] = {} \/ d \in torn \/ Updating(d)]_telemetryVars
    BY RaisesRarely
<1>2. QED
    BY <1>1, TelemetryInvariant, PTL DEF PagesRaiseRarely

----------------------------------------------------------------------------
(***************************************************************************)
(* The compute service and the stream handler.  TargetsFollow is inductive *)
(* as it stands: what a client is told depends on the new list alone,      *)
(* except that local producers may keep what they had.                     *)
(***************************************************************************)

(* Every handler ends in update_target_engines, whatever the new list is. *)
LEMMA StepBecomes ==
    ASSUME Next
    PROVE  \E sinks : Become(sinks)
<1>1. PICK sinks \in SUBSET Datasink :
          AddDatasinks(sinks) \/ SetDatasinks(sinks) \/ RemoveDatasinks(sinks)
    BY DEF Next
<1>2. CASE AddDatasinks(sinks)
    BY <1>2 DEF AddDatasinks
<1>3. CASE SetDatasinks(sinks)
    BY <1>3 DEF SetDatasinks
<1>4. CASE RemoveDatasinks(sinks)
    BY <1>4 DEF RemoveDatasinks
<1>5. QED
    BY <1>1, <1>2, <1>3, <1>4

(* update_target_engines keeps the targets in step with the list it is given. *)
LEMMA BecomeFollows ==
    ASSUME TargetsFollow, NEW sinks, Become(sinks)
    PROVE  TargetsFollow'
<1>1. /\ datasinks' = sinks
      /\ remoteTargets' = IF RemoteClient THEN At(sinks, "remote") ELSE remoteTargets
      /\ localTargets' = IF LocalClient /\ At(sinks, "local") # {}
                         THEN At(sinks, "local") ELSE localTargets
    BY DEF Become, UpdateTargetEngines
<1>2. remoteTargets' = IF RemoteClient THEN At(datasinks, "remote")' ELSE {}
    BY <1>1 DEF TargetsFollow, At
<1>3. /\ At(datasinks, "local")' # {} =>
             localTargets' = IF LocalClient THEN At(datasinks, "local")' ELSE {}
      /\ ~LocalClient => localTargets' = {}
    BY <1>1 DEF TargetsFollow, At
<1>4. QED
    BY <1>2, <1>3 DEF TargetsFollow

(* The producers of the stream handler follow the compute service's list,
   however many engines there are and whichever clients are configured. *)
THEOREM ProducersFollow == Spec => []TargetsFollow
<1>1. Init => TargetsFollow
    BY DEF Init, TargetsFollow, At
<1>2. TargetsFollow /\ [Next]_vars => TargetsFollow'
    <2>1. SUFFICES ASSUME TargetsFollow, [Next]_vars PROVE TargetsFollow'
        OBVIOUS
    <2>2. CASE Next
        BY <2>1, <2>2, StepBecomes, BecomeFollows
    <2>3. CASE UNCHANGED vars
        BY <2>1, <2>3 DEF vars, TargetsFollow, At
    <2>4. QED
        BY <2>1, <2>2, <2>3
<1>3. QED
    BY <1>1, <1>2, PTL DEF Spec

(* The list names datasinks, and producers are given ids of engines, whatever is asked for. *)
LEMMA ListTyped == Spec => []TypeOK
<1>1. Init => TypeOK
    BY DEF Init, TypeOK
<1>2. TypeOK /\ [Next]_vars => TypeOK'
    <2>1. SUFFICES ASSUME TypeOK, [Next]_vars PROVE TypeOK'
        OBVIOUS
    <2>2. ASSUME NEW sinks \in SUBSET Datasink, Become(sinks) PROVE TypeOK'
        <3>1. At(sinks, "local") \subseteq Engine /\ At(sinks, "remote") \subseteq Engine
            BY <2>2 DEF At, Datasink
        <3>2. QED
            BY <2>1, <2>2, <3>1 DEF Become, UpdateTargetEngines, TypeOK
    <2>3. ASSUME NEW sinks \in SUBSET Datasink,
                 AddDatasinks(sinks) \/ SetDatasinks(sinks) \/ RemoveDatasinks(sinks)
          PROVE  TypeOK'
        <3>1. datasinks \cup sinks \in SUBSET Datasink /\ datasinks \ sinks \in SUBSET Datasink
            BY <2>1 DEF TypeOK
        <3>2. QED
            BY <2>2, <2>3, <3>1 DEF AddDatasinks, SetDatasinks, RemoveDatasinks
    <2>4. CASE Next
        BY <2>3, <2>4 DEF Next
    <2>5. CASE UNCHANGED vars
        BY <2>1, <2>5 DEF vars, TypeOK
    <2>6. QED
        BY <2>1, <2>4, <2>5
<1>3. QED
    BY <1>1, <1>2, PTL DEF Spec

----------------------------------------------------------------------------
(***************************************************************************)
(* The four side by side, as they are deployed.                            *)
(***************************************************************************)

(* What the four do together is, for each of them, a behaviour of its own: a step of one is no
   step of another, and what is proved of one alone holds where they run together. *)
THEOREM PartsApart == Parts => ObjectSpec /\ TelemetrySpec /\ AvoidanceSpec /\ Spec
<1>1. Start => ObjectInit /\ TelemetryInit /\ AvoidanceInit /\ Init
    BY DEF Start
<1>2. ASSUME [Step]_<<objectVars, telemetryVars, avoidanceVars, vars, part>>
      PROVE  /\ [ObjectNext]_objectVars /\ [TelemetryNext]_telemetryVars
             /\ [AvoidanceNext]_avoidanceVars /\ [Next]_vars
    BY <1>2 DEF Step
<1>3. QED
    BY <1>1, <1>2, PTL DEF Parts, ObjectSpec, TelemetrySpec, AvoidanceSpec, Spec

(* The keys in Redis, the images and the list of engines keep their types through every kill,
   restart and expiry, for any number of vehicles, objects and engines. *)
THEOREM TypesKept == Parts => []TypesOK
    BY PartsApart, ObjectInvariant, TelemetryInvariant, ListTyped, PTL
       DEF ObjectInv, TelemetryInv, TypesOK
=============================================================================
