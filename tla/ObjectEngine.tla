---------------------------- MODULE ObjectEngine ----------------------------
(***************************************************************************)
(* The object detection engine (backend/server/engines/detection/          *)
(* openscout_object_engine.py) and what it keeps in Redis: the geospatial  *)
(* set "detections" of object names and a hash "objects:<name>" for each,  *)
(* which expires.  Redis executes one command at a time; between two of    *)
(* them the engine may be killed and hashes may expire.                    *)
(*                                                                         *)
(* Every detection is stored at the same place (lines 375-376), so every   *)
(* object of the set is within the search radius of every detection.       *)
(***************************************************************************)
EXTENDS Cloudlet

CONSTANTS
    Class,          \* classes the detector tells apart
    Object,         \* object names: a class and two random bytes
    ClassOf,        \* the class an object name starts with
    MaxBoxes        \* bound: detections in one frame

ASSUME ObjectAssumption ==
    ClassOf \in [Object -> Class] /\ Nothing \notin Object /\ MaxBoxes \in Nat

VARIABLES
    detections,     \* the geospatial set: names of objects
    objects,        \* the hashes, a function of the names whose key exists
    fence,          \* geofence_enabled and the geofence: none, around the place or elsewhere
    objectPc,       \* where the engine is in handle, or "down"
    drone,          \* vehicle of the frame in hand
    boxes,          \* its detections still to be processed
    hand,           \* object looked at or stored
    found,          \* what geosearch returned and is still to be looked at
    live,           \* what garbage collection found alive
    gcDue,          \* ttl_secs have passed since the last garbage collection
    cleared,        \* history: killed between the delete and the zadd
    objectKills, objectRestarts

storeVars  == <<detections, objects>>
frameVars  == <<drone, boxes, hand, found, live>>
faultVars  == <<cleared, objectKills, objectRestarts>>
objectVars == <<storeVars, frameVars, fence, objectPc, gcDue, faultVars>>

(* Fields in the order store_detection_db writes them; link stands for it and the place. *)
Fields == <<"last_seen", "id", "cls", "confidence", "link">>
FieldName == {Fields[i] : i \in DOMAIN Fields}
Hash == [fields : SUBSET FieldName, id : Drone \cup {Nothing}, ttl : BOOLEAN]

Has(o, f) == o \in DOMAIN objects /\ f \in objects[o].fields
Hset(o, f) ==
    LET h == IF o \in DOMAIN objects THEN objects[o]
             ELSE [fields |-> {}, id |-> Nothing, ttl |-> FALSE]
    IN  [x \in DOMAIN objects \cup {o} |->
            IF x # o THEN objects[x]
            ELSE [h EXCEPT !.fields = @ \cup {f}, !.id = IF f = "id" THEN drone ELSE @]]

ObjectInit ==
    /\ detections = {} /\ objects = <<>>
    /\ fence \in {"none", "around", "elsewhere"}
    /\ objectPc = "idle" /\ drone = Nothing /\ boxes = <<>> /\ hand = Nothing
    /\ found = {} /\ live = {} /\ gcDue = FALSE
    /\ cleared = FALSE /\ objectKills = 0 /\ objectRestarts = 0

----------------------------------------------------------------------------
(* A frame arrives; inference finds some objects above the threshold. *)
HandleFrame(d, b) ==
    /\ objectPc = "idle"
    /\ drone' = d /\ boxes' = b
    /\ objectPc' = "next"
    /\ UNCHANGED <<storeVars, hand, found, live, fence, gcDue, faultVars>>

(* Without a geofence a detection is stored under a new name, unconditionally. *)
StoreAsNew ==
    /\ objectPc = "next" /\ boxes # <<>> /\ fence = "none"
    /\ hand' \in {o \in Object : ClassOf[o] = Head(boxes)}
    /\ objectPc' = "add"
    /\ UNCHANGED <<storeVars, drone, boxes, found, live, fence, gcDue, faultVars>>

(* With one, geofilter_passed is asked, which first collects garbage if it is time to. *)
Filter ==
    /\ objectPc = "next" /\ boxes # <<>> /\ fence = "around"
    /\ objectPc' = IF gcDue THEN "collect" ELSE "search"
    /\ UNCHANGED <<storeVars, frameVars, fence, gcDue, faultVars>>

(* The fence does not enclose the one place there is: the detection is dropped. *)
OutsideFence ==
    /\ objectPc = "next" /\ boxes # <<>> /\ fence = "elsewhere"
    /\ boxes' = Tail(boxes)
    /\ UNCHANGED <<storeVars, drone, hand, found, live, fence, objectPc, gcDue, faultVars>>

(* geodb_garbage_collection: the names whose hash exists, then the delete ... *)
Collect ==
    /\ objectPc = "collect"
    /\ live' = detections \cap DOMAIN objects
    /\ objectPc' = "delete"
    /\ UNCHANGED <<storeVars, drone, boxes, hand, found, fence, gcDue, faultVars>>

Delete ==
    /\ objectPc = "delete"
    /\ detections' = {}
    /\ objectPc' = IF live = {} THEN "search" ELSE "zadd"
    /\ gcDue' = (live # {})
    /\ UNCHANGED <<objects, frameVars, fence, faultVars>>

(* Faulty variant: what is written back is what has expired. *)
ZaddDead ==
    /\ objectPc = "zadd"
    /\ detections' = live \ DOMAIN objects
    /\ objectPc' = "search" /\ live' = {} /\ gcDue' = FALSE
    /\ UNCHANGED <<objects, drone, boxes, hand, found, fence, faultVars>>

(* ... and the zadd, after which the time of the collection is noted. *)
Zadd ==
    /\ objectPc = "zadd"
    /\ detections' = detections \cup live
    /\ objectPc' = "search" /\ live' = {} /\ gcDue' = FALSE
    /\ UNCHANGED <<objects, drone, boxes, hand, found, fence, faultVars>>

(* geosearch: everything is within the radius. *)
Search ==
    /\ objectPc = "search"
    /\ found' = detections
    /\ objectPc' = "look"
    /\ UNCHANGED <<storeVars, drone, boxes, hand, live, fence, gcDue, faultVars>>

(* Faulty variant: only one of the objects near is looked at. *)
LookOnce ==
    /\ objectPc = "look"
    /\ \E o \in found :
          /\ o \in DOMAIN objects => Has(o, "cls") /\ ClassOf[o] # Head(boxes)
          /\ found' = {}
    /\ UNCHANGED <<storeVars, drone, boxes, hand, live, fence, objectPc, gcDue, faultVars>>

(* An expired object, or one of another class, is passed over. *)
LookOn ==
    /\ objectPc = "look"
    /\ \E o \in found :
          /\ o \in DOMAIN objects => Has(o, "cls") /\ ClassOf[o] # Head(boxes)
          /\ found' = found \ {o}
    /\ UNCHANGED <<storeVars, drone, boxes, hand, live, fence, objectPc, gcDue, faultVars>>

Down == objectPc' = "down" /\ drone' = Nothing /\ boxes' = <<>> /\ hand' = Nothing
        /\ found' = {} /\ live' = {}

(***************************************************************************)
(* One of the same class raises, whoever found it: both log messages read  *)
(* d['vehicle_id'], a field no hash has.  So does a hash whose cls was not *)
(* written yet (d["cls"]).  Neither an update nor a refusal gets through.  *)
(***************************************************************************)
AlreadyFound ==
    /\ objectPc = "look"
    /\ \E o \in found \cap DOMAIN objects : Has(o, "cls") => ClassOf[o] = Head(boxes)
    /\ Down
    /\ UNCHANGED <<storeVars, fence, gcDue, faultVars>>

(* Nothing of the class is near: a new object. *)
PassedAsNew ==
    /\ objectPc = "look" /\ found = {}
    /\ hand' \in {o \in Object : ClassOf[o] = Head(boxes)}
    /\ objectPc' = "add"
    /\ UNCHANGED <<storeVars, drone, boxes, found, live, fence, gcDue, faultVars>>

(* store_detection_db: geoadd, an hset for each field, expire. *)
Geoadd ==
    /\ objectPc = "add"
    /\ detections' = detections \cup {hand}
    /\ objectPc' = Fields[1]
    /\ UNCHANGED <<objects, frameVars, fence, gcDue, faultVars>>

WriteField(i) ==
    /\ objectPc = Fields[i]
    /\ objects' = Hset(hand, Fields[i])
    /\ objectPc' = IF i = Len(Fields) THEN "expire" ELSE Fields[i + 1]
    /\ UNCHANGED <<detections, frameVars, fence, gcDue, faultVars>>

(* A hash that expired in the meantime has no time to live to set. *)
SetExpiry ==
    /\ objectPc = "expire"
    /\ objects' = [o \in DOMAIN objects |->
                      IF o = hand THEN [objects[o] EXCEPT !.ttl = TRUE] ELSE objects[o]]
    /\ boxes' = Tail(boxes) /\ hand' = Nothing
    /\ objectPc' = IF Tail(boxes) = <<>> THEN "answer" ELSE "next"
    /\ UNCHANGED <<detections, drone, found, live, fence, gcDue, faultVars>>

(* A frame without detections is answered. *)
AnswerEmpty ==
    /\ objectPc = "next" /\ boxes = <<>>
    /\ objectPc' = "idle" /\ drone' = Nothing
    /\ UNCHANGED <<storeVars, boxes, hand, found, live, fence, gcDue, faultVars>>

(* generic_result is a string field: the list of detections raises (line 305). *)
AnswerRaises ==
    /\ objectPc = "answer"
    /\ Down
    /\ UNCHANGED <<storeVars, fence, gcDue, faultVars>>

----------------------------------------------------------------------------
(* Faults, and the passing of time. *)

Kill ==
    /\ objectPc # "down" /\ objectKills < MaxKills
    /\ objectKills' = objectKills + 1
    /\ cleared' = (cleared \/ objectPc = "zadd")
    /\ Down
    /\ UNCHANGED <<storeVars, fence, gcDue, objectRestarts>>

Restart ==
    /\ objectPc = "down" /\ objectRestarts < MaxRestarts
    /\ objectRestarts' = objectRestarts + 1
    /\ objectPc' = "idle" /\ gcDue' = FALSE
    /\ UNCHANGED <<storeVars, frameVars, fence, cleared, objectKills>>

TtlPasses ==
    /\ objectPc = "idle" /\ ~gcDue
    /\ gcDue' = TRUE
    /\ UNCHANGED <<storeVars, frameVars, fence, objectPc, faultVars>>

HashExpires(o) ==
    /\ o \in DOMAIN objects /\ objects[o].ttl
    /\ objects' = [x \in DOMAIN objects \ {o} |-> objects[x]]
    /\ UNCHANGED <<detections, frameVars, fence, objectPc, gcDue, faultVars>>

Frames == UNION {[1..n -> Class] : n \in 0..MaxBoxes}

ObjectNext ==
    \/ \E d \in Drone, b \in Frames : HandleFrame(d, b)
    \/ StoreAsNew \/ Filter \/ OutsideFence \/ Collect \/ Delete \/ Zadd \/ Search
    \/ LookOn \/ AlreadyFound \/ PassedAsNew
    \/ Geoadd \/ SetExpiry \/ \E i \in DOMAIN Fields : WriteField(i)
    \/ AnswerEmpty \/ AnswerRaises
    \/ Kill \/ Restart \/ TtlPasses \/ \E o \in Object : HashExpires(o)

ObjectSpec == ObjectInit /\ [][ObjectNext]_objectVars

----------------------------------------------------------------------------
(* Every variable has its type, and the engine stores only what it has in hand. *)
ObjectTypeOK ==
    /\ detections \subseteq Object /\ DOMAIN objects \subseteq Object
    /\ \A o \in DOMAIN objects : objects[o] \in Hash
    /\ fence \in {"none", "around", "elsewhere"} /\ gcDue \in BOOLEAN /\ cleared \in BOOLEAN
    /\ objectPc \in {"idle", "next", "collect", "delete", "zadd", "search", "look", "add",
                     "expire", "answer", "down"} \cup FieldName
    /\ drone \in Drone \cup {Nothing} /\ hand \in Object \cup {Nothing}
    /\ boxes \in Frames /\ found \subseteq Object /\ live \subseteq Object
    /\ objectKills \in 0..MaxKills /\ objectRestarts \in 0..MaxRestarts
    /\ objectPc \in {"add", "expire"} \cup FieldName => hand \in Object /\ boxes # <<>>

(***************************************************************************)
(* The set is the only way to an object: an object that exists is listed,  *)
(* or about to be listed again, whatever is killed or expires when - but   *)
(* for a kill in the window of the garbage collection, which loses the set *)
(* (README, section 4).                                                    *)
(***************************************************************************)
LiveListed ==
    ~cleared => \A o \in DOMAIN objects : o \in detections \/ (objectPc = "zadd" /\ o \in live)

(***************************************************************************)
(* The purpose of the geofilter, "Ignoring detection, already found": of   *)
(* the listed objects at a place no two are of the same class.             *)
(***************************************************************************)
OnePerClass ==
    fence # "none" /\ ~cleared =>
        \A o, p \in DOMAIN objects : ClassOf[o] = ClassOf[p] => o = p

==============================================================================
