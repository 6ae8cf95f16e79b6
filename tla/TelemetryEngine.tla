-------------------------- MODULE TelemetryEngine --------------------------
(***************************************************************************)
(* The telemetry engine (backend/server/engines/telemetry/                 *)
(* telemetry_engine.py) and the pages of the Streamlit ground station that *)
(* read what it stores (gcs/streamlit/util.py, overview.py,                *)
(* pages/monitoring.py, pages/control.py).                                 *)
(*                                                                         *)
(* Redis holds for each drone a stream "telemetry:<drone>" of positions    *)
(* and a hash "vehicle:<drone>" of its status; both expire after days.     *)
(* Files of images are shared with the web server.  Engine and page send   *)
(* Redis one command at a time.                                            *)
(***************************************************************************)
EXTENDS Cloudlet

CONSTANTS
    Reporter,       \* drones whose telemetry and frames reach the engine
    Ttl,            \* time to live of the keys, in units of time
    Thresholds,     \* what an operator may choose as Active Threshold, shorter or longer
    MaxAge          \* bound: units since something was written, this many or more

ASSUME TelemetryAssumption ==
    /\ Reporter \subseteq Drone
    /\ Ttl \in Nat \ {0} /\ MaxAge \in Nat /\ Ttl <= MaxAge
    /\ 1 \in Thresholds /\ Thresholds \subseteq 1..MaxAge

VARIABLES
    stream,         \* drones whose stream exists
    status,         \* fields of the hash of each drone, {} when there is none
    streamTtl, statusTtl,   \* drones whose stream, whose hash has a time to live
    age, streamAge, statusAge,  \* units since last_seen was written, since EXPIRE of the two keys
    temp, latest,   \* temp.jpg and latest.jpg of each drone
    telemetryPc,    \* where the engine is in handle, or "down"
    teller,         \* drone of the input in hand
    torn,           \* history: drones whose last update was disturbed: a kill, an error, an expiry
    telemetryKills, telemetryRestarts,
    page,           \* what a page is doing: "idle", its kind, or "raised"
    rows,           \* keys it has found and not yet read
    row,            \* the drone it is reading, after its last_seen
    threshold       \* the Active Threshold of its session

clockVars     == <<age, streamAge, statusAge>>
redisVars     == <<stream, status, streamTtl, statusTtl, clockVars>>
imageVars     == <<temp, latest>>
engineVars    == <<telemetryPc, teller, torn, telemetryKills, telemetryRestarts>>
pageVars      == <<page, rows, row, threshold>>
telemetryVars == <<redisVars, imageVars, engineVars, pageVars>>

(* Fields in the order updateVehicle writes them; home stands for home and the cameras' summary. *)
StatusFields == <<"last_seen", "battery", "mag", "sats", "connection", "model", "home", "cameras">>
StatusField == {StatusFields[i] : i \in DOMAIN StatusFields}
File == {"none", "partial", "whole"}
Page == {"vehicles", "monitoring", "map"}

TelemetryInit ==
    /\ stream = {} /\ status = [d \in Reporter |-> {}]
    /\ streamTtl = {} /\ statusTtl = {}
    /\ age = [d \in Reporter |-> MaxAge] /\ streamAge = age /\ statusAge = age
    /\ temp = [d \in Reporter |-> "none"] /\ latest = [d \in Reporter |-> "none"]
    /\ telemetryPc = "idle" /\ teller = Nothing /\ torn = {}
    /\ telemetryKills = 0 /\ telemetryRestarts = 0
    /\ page = "idle" /\ rows = {} /\ row = Nothing /\ threshold = 1

----------------------------------------------------------------------------
(* The engine.  A TEXT payload is telemetry, an IMAGE payload a frame. *)

HandleTelemetry(d) ==
    /\ telemetryPc = "idle"
    /\ teller' = d /\ telemetryPc' = "xadd"
    /\ UNCHANGED <<redisVars, imageVars, torn, telemetryKills, telemetryRestarts, pageVars>>

Xadd ==
    /\ telemetryPc = "xadd"
    /\ stream' = stream \cup {teller}
    /\ torn' = torn \ {teller}
    /\ telemetryPc' = "expireStream"
    /\ UNCHANGED <<status, streamTtl, statusTtl, clockVars, imageVars, teller,
                   telemetryKills, telemetryRestarts, pageVars>>

ExpireStream ==
    /\ telemetryPc = "expireStream"
    /\ streamTtl' = streamTtl \cup ({teller} \cap stream)
    /\ streamAge' = [streamAge EXCEPT ![teller] = 0]
    /\ telemetryPc' = StatusFields[1]
    /\ UNCHANGED <<stream, status, statusTtl, age, statusAge, imageVars, teller, torn,
                   telemetryKills, telemetryRestarts, pageVars>>

(* Faulty variant: an absent battery level is not written. *)
WriteStatusSkipping(i) ==
    /\ telemetryPc = StatusFields[i]
    /\ status' = [status EXCEPT ![teller] = @ \cup ({StatusFields[i]} \ {"battery"})]
    /\ age' = IF i = 1 THEN [age EXCEPT ![teller] = 0] ELSE age
    /\ telemetryPc' = IF i = Len(StatusFields) THEN "expireStatus" ELSE StatusFields[i + 1]
    /\ UNCHANGED <<stream, streamTtl, statusTtl, streamAge, statusAge, imageVars, teller, torn,
                   telemetryKills, telemetryRestarts, pageVars>>

(* One hset per field, last_seen first. *)
WriteStatus(i) ==
    /\ telemetryPc = StatusFields[i]
    /\ status' = [status EXCEPT ![teller] = @ \cup {StatusFields[i]}]
    /\ age' = IF i = 1 THEN [age EXCEPT ![teller] = 0] ELSE age
    /\ telemetryPc' = IF i = Len(StatusFields) THEN "expireStatus" ELSE StatusFields[i + 1]
    /\ UNCHANGED <<stream, streamTtl, statusTtl, streamAge, statusAge, imageVars, teller, torn,
                   telemetryKills, telemetryRestarts, pageVars>>

(* Between the xadd and the end. *)
Updating(d) == teller = d /\ telemetryPc \in StatusField \cup {"expireStream", "expireStatus"}
Disturbed(d) == IF Updating(d) THEN torn \cup {d} ELSE torn

EngineEnds == telemetryPc' = "down" /\ teller' = Nothing

(* More secondary cameras than sensors raise an IndexError. *)
CamerasRaise ==
    /\ telemetryPc = "cameras"
    /\ torn' = Disturbed(teller)
    /\ EngineEnds
    /\ UNCHANGED <<redisVars, imageVars, telemetryKills, telemetryRestarts, pageVars>>

(* An expired hash has no time to live to set. *)
ExpireStatus ==
    /\ telemetryPc = "expireStatus"
    /\ statusTtl' = IF status[teller] = {} THEN statusTtl ELSE statusTtl \cup {teller}
    /\ statusAge' = [statusAge EXCEPT ![teller] = 0]
    /\ telemetryPc' = "idle" /\ teller' = Nothing
    /\ UNCHANGED <<stream, status, streamTtl, age, streamAge, imageVars, torn,
                   telemetryKills, telemetryRestarts, pageVars>>

(* A frame is decoded and saved under the time, then as temp.jpg ... *)
SaveTemp(d) ==
    /\ telemetryPc = "idle"
    /\ teller' = d /\ temp' = [temp EXCEPT ![d] = "partial"]
    /\ telemetryPc' = "saving"
    /\ UNCHANGED <<redisVars, latest, torn, telemetryKills, telemetryRestarts, pageVars>>

TempSaved ==
    /\ telemetryPc = "saving"
    /\ temp' = [temp EXCEPT ![teller] = "whole"]
    /\ telemetryPc' = "rename"
    /\ UNCHANGED <<redisVars, latest, teller, torn, telemetryKills, telemetryRestarts, pageVars>>

(* Faulty variant: the frame stays in hand. *)
SaveFailsHolding ==
    /\ telemetryPc = "saving"
    /\ telemetryPc' = "idle"
    /\ UNCHANGED <<redisVars, imageVars, teller, torn, telemetryKills, telemetryRestarts, pageVars>>

(* ... which fails, and is answered with ENGINE_ERROR ... *)
SaveFails ==
    /\ telemetryPc = "saving"
    /\ telemetryPc' = "idle" /\ teller' = Nothing
    /\ UNCHANGED <<redisVars, imageVars, torn, telemetryKills, telemetryRestarts, pageVars>>

(* ... or is renamed to latest.jpg. *)
Rename ==
    /\ telemetryPc = "rename"
    /\ latest' = [latest EXCEPT ![teller] = temp[teller]]
    /\ temp' = [temp EXCEPT ![teller] = "none"]
    /\ telemetryPc' = "idle" /\ teller' = Nothing
    /\ UNCHANGED <<redisVars, torn, telemetryKills, telemetryRestarts, pageVars>>

TelemetryKilled ==
    /\ telemetryPc # "down" /\ telemetryKills < MaxKills
    /\ telemetryKills' = telemetryKills + 1
    /\ torn' = Disturbed(teller)
    /\ EngineEnds
    /\ UNCHANGED <<redisVars, imageVars, telemetryRestarts, pageVars>>

TelemetryRestarts ==
    /\ telemetryPc = "down" /\ telemetryRestarts < MaxRestarts
    /\ telemetryRestarts' = telemetryRestarts + 1
    /\ telemetryPc' = "idle"
    /\ UNCHANGED <<redisVars, imageVars, teller, torn, telemetryKills, pageVars>>

----------------------------------------------------------------------------
(* Time.  It goes on at any moment, but not past the end of a key, and an update, once its
   stream's time to live is set, takes less than a unit: the clocks turn at most once in it. *)
Older(clock) == [d \in Reporter |-> IF clock[d] < MaxAge THEN clock[d] + 1 ELSE MaxAge]
Tick ==
    /\ \A d \in streamTtl : streamAge[d] < Ttl
    /\ \A d \in statusTtl : statusAge[d] < Ttl
    /\ telemetryPc \in StatusField \cup {"expireStatus"} => streamAge[teller] = 0
    /\ age' = Older(age) /\ streamAge' = Older(streamAge) /\ statusAge' = Older(statusAge)
    /\ UNCHANGED <<stream, status, streamTtl, statusTtl, imageVars, engineVars, pageVars>>

StreamExpires(d) ==
    /\ d \in streamTtl /\ streamAge[d] = Ttl
    /\ stream' = stream \ {d} /\ streamTtl' = streamTtl \ {d} /\ torn' = Disturbed(d)
    /\ UNCHANGED <<status, statusTtl, clockVars, imageVars, telemetryPc, teller,
                   telemetryKills, telemetryRestarts, pageVars>>

StatusExpires(d) ==
    /\ d \in statusTtl /\ statusAge[d] = Ttl
    /\ status' = [status EXCEPT ![d] = {}] /\ statusTtl' = statusTtl \ {d}
    /\ torn' = Disturbed(d)
    /\ UNCHANGED <<stream, streamTtl, clockVars, imageVars, telemetryPc, teller,
                   telemetryKills, telemetryRestarts, pageVars>>

----------------------------------------------------------------------------
(* The pages.  keys() first, then each key. *)

(* Active Threshold: from a minute to 600000, more than a year, whatever the time to live. *)
SetThreshold(t) ==
    /\ page = "idle"
    /\ threshold' = t
    /\ UNCHANGED <<redisVars, imageVars, engineVars, page, rows, row>>

Active(d) == age[d] < threshold

OpenPage(kind) ==
    /\ page = "idle"
    /\ page' = kind
    /\ rows' = IF kind = "map" THEN stream ELSE {d \in Reporter : status[d] # {}}
    /\ UNCHANGED <<redisVars, imageVars, engineVars, row, threshold>>

(* last_seen decides whether the drone is shown; without it float(None) raises. *)
ReadLastSeen(d) ==
    /\ page \in {"vehicles", "monitoring"} /\ row = Nothing /\ d \in rows
    /\ "last_seen" \in status[d]
    /\ row' = IF Active(d) THEN d ELSE Nothing
    /\ rows' = rows \ {d}
    /\ UNCHANGED <<redisVars, imageVars, engineVars, page, threshold>>

(* The list of vehicles shows a missing model as "None"; the monitor needs three numbers. *)
NeededFields == IF page = "monitoring" THEN {"battery", "mag", "sats"} ELSE {}

ReadDetails ==
    /\ row # Nothing /\ NeededFields \subseteq status[row]
    /\ row' = Nothing
    /\ UNCHANGED <<redisVars, imageVars, engineVars, page, rows, threshold>>

(* xrevrange, and the time of its first entry. *)
ReadPosition(d) ==
    /\ page = "map" /\ d \in rows /\ d \in stream
    /\ rows' = rows \ {d}
    /\ UNCHANGED <<redisVars, imageVars, engineVars, page, row, threshold>>

PageRaises(d) ==
    /\ \/ page \in {"vehicles", "monitoring"} /\ row = Nothing /\ d \in rows
          /\ "last_seen" \notin status[d]
       \/ row = d /\ ~(NeededFields \subseteq status[d])
       \/ page = "map" /\ d \in rows \ stream
    /\ page' = "raised" /\ rows' = {} /\ row' = Nothing
    /\ UNCHANGED <<redisVars, imageVars, engineVars, threshold>>

(* The page is complete, or is run again a second after it raised. *)
ClosePage ==
    /\ page # "idle" /\ rows = {} /\ row = Nothing
    /\ page' = "idle"
    /\ UNCHANGED <<redisVars, imageVars, engineVars, rows, row, threshold>>

TelemetryNext ==
    \/ \E d \in Reporter : HandleTelemetry(d) \/ SaveTemp(d)
    \/ Xadd \/ ExpireStream \/ ExpireStatus \/ CamerasRaise
    \/ \E i \in DOMAIN StatusFields : WriteStatus(i)
    \/ TempSaved \/ SaveFails \/ Rename
    \/ TelemetryKilled \/ TelemetryRestarts
    \/ Tick \/ \E d \in Reporter : StreamExpires(d) \/ StatusExpires(d)
    \/ \E t \in Thresholds : SetThreshold(t)
    \/ \E kind \in Page : OpenPage(kind)
    \/ \E d \in Reporter : ReadLastSeen(d) \/ ReadPosition(d) \/ PageRaises(d)
    \/ ReadDetails \/ ClosePage

TelemetrySpec == TelemetryInit /\ [][TelemetryNext]_telemetryVars

----------------------------------------------------------------------------
(* Every variable has its type: an input in hand has a drone, a time to live a key; and latest.jpg
   as this engine leaves it is never half an image, also after a crash or a full disk. *)
TelemetryTypeOK ==
    /\ stream \subseteq Reporter /\ status \in [Reporter -> SUBSET StatusField]
    /\ streamTtl \subseteq stream /\ statusTtl \subseteq {d \in Reporter : status[d] # {}}
    /\ age \in [Reporter -> 0..MaxAge] /\ streamAge \in [Reporter -> 0..MaxAge]
    /\ statusAge \in [Reporter -> 0..MaxAge] /\ torn \subseteq Reporter
    /\ temp \in [Reporter -> File] /\ latest \in [Reporter -> {"none", "whole"}]
    /\ telemetryPc \in {"idle", "xadd", "expireStream", "expireStatus", "saving", "rename", "down"}
                       \cup StatusField
    /\ teller \in Reporter \cup {Nothing} /\ (teller = Nothing <=> telemetryPc \in {"idle", "down"})
    /\ telemetryKills \in 0..MaxKills /\ telemetryRestarts \in 0..MaxRestarts
    /\ page \in Page \cup {"idle", "raised"} /\ rows \subseteq Reporter
    /\ row \in Reporter \cup {Nothing} /\ threshold \in Thresholds

(***************************************************************************)
(* A page raises only at a key that is gone since it was listed, or at a   *)
(* status that is being written or was left half written by a kill, an     *)
(* error or the expiry of its key.  Of a drone that counts as active it    *)
(* raises only if its last update was disturbed so, or, the map apart, is  *)
(* under way - provided that the Active Threshold is shorter than the time *)
(* to live: under a longer one, which the page accepts, keys of an active  *)
(* drone may be gone (get_vehicles, draw_map).                             *)
(***************************************************************************)
PagesRaiseRarely ==
    [][\A d \in Reporter : PageRaises(d) =>
         /\ threshold < Ttl /\ Active(d) => d \in torn \/ (page # "map" /\ Updating(d))
         /\ page # "map" => status[d] = {} \/ d \in torn \/ Updating(d)]_telemetryVars

==============================================================================
