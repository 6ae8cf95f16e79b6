---------------------------- MODULE MissionStore ----------------------------
(***************************************************************************)
(* The store of a mission (sdk/.../api/mission_store.py): two receivers    *)
(* write the latest message of their source into one SQLite file, events   *)
(* and actions read it (get_telemetry, get_result), and term() stops it.   *)
(*                                                                         *)
(* All of them share one aiosqlite connection, whose thread executes what  *)
(* they ask in the order they ask it, cancelled or not.  The file outlives *)
(* the connection, the process and the mission.                            *)
(*                                                                         *)
(* A message is its number: the drivers and engines of a vehicle count on  *)
(* over all missions.  0 is no row; a message that does not parse leaves a *)
(* row of its number with the value null.                                  *)
(***************************************************************************)
EXTENDS Naturals, Sequences

CONSTANTS
    Source,         \* "telemetry" and "results", each with the one topic that is read
    MaxMessages,    \* bound: messages of a source
    MaxMissions     \* bound: times the store is started

ASSUME StoreAssumption == MaxMessages \in Nat /\ MaxMissions \in Nat

VARIABLES
    file,           \* the committed rows
    rows,           \* the rows the connection sees
    db,             \* "none" or "open"
    jobs,           \* what the thread of the connection was asked and has not done
    receiver,       \* each receiver: "off", "recv", "upsert", "written", "commit"
    message,        \* the number of its last message
    reader,         \* a racer of the mission: "none", "ready", "asked", "read" or "raised"
    reading,        \* the source it reads
    seen,           \* history: the last number read of each source in this mission
    missions

storeVars == <<file, rows, db, jobs, receiver, message, reader, reading, seen, missions>>

StoreInit ==
    /\ file = [s \in Source |-> 0] /\ rows = file
    /\ db = "none" /\ jobs = <<>>
    /\ receiver = [s \in Source |-> "off"] /\ message = [s \in Source |-> 0]
    /\ reader = "none" /\ reading \in Source
    /\ seen = [s \in Source |-> 0] /\ missions = 0

Job == [op : {"upsert", "commit", "select"}, source : Source, number : Nat]
Ask(op, s, n) == jobs' = Append(jobs, [op |-> op, source |-> s, number |-> n])

----------------------------------------------------------------------------
(* start: the connection, the table, the sockets and the receivers; then the FSM. *)
StartStore ==
    /\ db = "none" /\ missions < MaxMissions
    /\ db' = "open" /\ rows' = file /\ missions' = missions + 1
    /\ receiver' = [s \in Source |-> "recv"]
    /\ reader' = "ready" /\ seen' = [s \in Source |-> 0]
    /\ UNCHANGED <<file, jobs, message, reading>>

(* Messages are lost while nobody is subscribed; those of the telemetry engine are skipped. *)
Publish(s) ==
    /\ message[s] < MaxMessages /\ receiver[s] = "off"
    /\ message' = [message EXCEPT ![s] = @ + 1]
    /\ UNCHANGED <<file, rows, db, jobs, receiver, reader, reading, seen, missions>>

(* Faulty variant: a task for each message. *)
ReceiveMessageSpawning(s) ==
    /\ receiver[s] # "off" /\ message[s] < MaxMessages
    /\ message' = [message EXCEPT ![s] = @ + 1]
    /\ \/ Ask("upsert", s, message'[s])
       \/ jobs' = <<[op |-> "upsert", source |-> s, number |-> message'[s]]>> \o jobs
    /\ receiver' = [receiver EXCEPT ![s] = "upsert"]
    /\ UNCHANGED <<file, rows, db, reader, reading, seen, missions>>

ReceiveMessage(s) ==
    /\ receiver[s] = "recv" /\ message[s] < MaxMessages
    /\ message' = [message EXCEPT ![s] = @ + 1]
    /\ Ask("upsert", s, message'[s])
    /\ receiver' = [receiver EXCEPT ![s] = "upsert"]
    /\ UNCHANGED <<file, rows, db, reader, reading, seen, missions>>

(* The thread does an upsert ... *)
Upsert ==
    /\ jobs # <<>> /\ Head(jobs).op = "upsert"
    /\ LET s == Head(jobs).source IN
          /\ rows' = [rows EXCEPT ![s] = Head(jobs).number]
          /\ receiver' = IF receiver[s] = "upsert" THEN [receiver EXCEPT ![s] = "written"] ELSE receiver
    /\ jobs' = Tail(jobs)
    /\ UNCHANGED <<file, db, message, reader, reading, seen, missions>>

(* Or it fails (a full disk, a locked file), which is logged. *)
UpsertFails ==
    /\ jobs # <<>> /\ Head(jobs).op = "upsert"
    /\ LET s == Head(jobs).source IN
          receiver' = IF receiver[s] = "upsert" THEN [receiver EXCEPT ![s] = "recv"] ELSE receiver
    /\ jobs' = Tail(jobs)
    /\ UNCHANGED <<file, rows, db, message, reader, reading, seen, missions>>

(* The receiver, if it was not cancelled, goes on to commit. *)
AskCommit(s) ==
    /\ receiver[s] = "written"
    /\ Ask("commit", s, 0)
    /\ receiver' = [receiver EXCEPT ![s] = "commit"]
    /\ UNCHANGED <<file, rows, db, message, reader, reading, seen, missions>>

(* A commit is of everything the connection has written. *)
Commit ==
    /\ jobs # <<>> /\ Head(jobs).op = "commit"
    /\ LET s == Head(jobs).source IN
          receiver' = IF receiver[s] = "commit" THEN [receiver EXCEPT ![s] = "recv"] ELSE receiver
    /\ file' = rows
    /\ jobs' = Tail(jobs)
    /\ UNCHANGED <<rows, db, message, reader, reading, seen, missions>>

----------------------------------------------------------------------------
(* get_latest: sleep(0), then the query; self.db is None after a stop, and then it raises. *)
GetLatest(s) ==
    /\ reader = "ready" /\ reading' = s
    /\ IF db = "open" THEN Ask("select", s, 0) /\ reader' = "asked"
       ELSE UNCHANGED jobs /\ reader' = "raised"
    /\ UNCHANGED <<file, rows, db, receiver, message, seen, missions>>

Select ==
    /\ jobs # <<>> /\ Head(jobs).op = "select"
    /\ IF reader = "asked"
       THEN reader' = "ready" /\ seen' = [seen EXCEPT ![reading] = rows[reading]]
       ELSE UNCHANGED <<reader, seen>>
    /\ jobs' = Tail(jobs)
    /\ UNCHANGED <<file, rows, db, receiver, message, reading, missions>>

----------------------------------------------------------------------------
(* Faulty variant: the FSM is cancelled and not waited for. *)
JoinFsmRash ==
    /\ reader \in {"ready", "asked"}
    /\ reader' = reader
    /\ receiver' = [s \in Source |-> "off"]
    /\ UNCHANGED <<file, rows, db, jobs, message, reading, seen, missions>>

(* term() cancels and joins the FSM, so that no racer is left, before it stops the store;
   stop() cancels the receivers and gathers them. *)
JoinFsm ==
    /\ reader \in {"ready", "asked"}
    /\ reader' = "none"
    /\ receiver' = [s \in Source |-> "off"]
    /\ UNCHANGED <<file, rows, db, jobs, message, reading, seen, missions>>

(* close() is done after what was asked before; what is not committed is rolled back. *)
CloseDb ==
    /\ db = "open" /\ receiver = [s \in Source |-> "off"] /\ jobs = <<>>
    /\ db' = "none" /\ rows' = file
    /\ UNCHANGED <<file, jobs, receiver, message, reader, reading, seen, missions>>

(* The process of the mission service dies. *)
StoreCrash ==
    /\ db = "open"
    /\ db' = "none" /\ rows' = file /\ jobs' = <<>>
    /\ receiver' = [s \in Source |-> "off"] /\ reader' = "none"
    /\ UNCHANGED <<file, message, reading, seen, missions>>

StoreNext ==
    \/ StartStore \/ \E s \in Source : Publish(s) \/ ReceiveMessage(s) \/ AskCommit(s) \/ GetLatest(s)
    \/ Upsert \/ UpsertFails \/ Commit \/ Select
    \/ JoinFsm \/ CloseDb \/ StoreCrash

StoreSpec == StoreInit /\ [][StoreNext]_storeVars

----------------------------------------------------------------------------
(* Every variable has its type; each receiver has at most one thing to be done for it. *)
StoreTypeOK ==
    /\ file \in [Source -> 0..MaxMessages] /\ rows \in [Source -> 0..MaxMessages]
    /\ db \in {"none", "open"} /\ jobs \in Seq(Job)
    /\ receiver \in [Source -> {"off", "recv", "upsert", "written", "commit"}]
    /\ message \in [Source -> 0..MaxMessages] /\ seen \in [Source -> 0..MaxMessages]
    /\ reader \in {"none", "ready", "asked", "raised"} /\ reading \in Source
    /\ missions \in 0..MaxMissions
    /\ \A i, j \in DOMAIN jobs : i # j /\ jobs[i].source = jobs[j].source =>
          jobs[i].op # jobs[j].op

(* No racer finds the database closed or gone, however a mission is stopped. *)
NoReadAfterStop == reader # "raised"

(***************************************************************************)
(* Within a mission time does not run backwards for a reader: what it      *)
(* reads of a source is never older than what it has read before, although *)
(* upserts fail, receivers are cancelled between an upsert and its commit  *)
(* and the two receivers commit for each other.                            *)
(***************************************************************************)
ReadsAdvance ==
    [][missions' = missions => \A s \in Source : seen'[s] >= seen[s]]_storeVars

=============================================================================
