--------------------------- MODULE RemoteCommand ---------------------------
(***************************************************************************)
(* A commander's command on its way to a vehicle and back: the Swarm       *)
(* Controller (backend/server/swarm_controller/swarm_controller.py), the   *)
(* ROUTER and DEALER sockets, the vehicle's command handler and its report *)
(* service (vehicle/kernel/handlers/command_handler.py,                    *)
(* vehicle/kernel/services/report_service.py).                             *)
(*                                                                         *)
(* A command and its answer are correlated by sequence number alone.  What *)
(* a service answers is abstracted to the command it answers.              *)
(***************************************************************************)
EXTENDS Integers, Sequences, SequencesExt

CONSTANTS
    Request,        \* Command RPCs of the commanders; each is made once
    Vehicle,
    VehicleOf,      \* request.vehicle_id
    Fatal,          \* commands whose task raises before it has a response
    Report,         \* what a SendReportRequest parses as: a Response, status = report_code
    Unsent, NoAnswer,
    NumberLimit,    \* 2^32: sequence_number is a uint32 field
    MaxBreaks,      \* bound: connections lost and vehicles restarted
    MaxRestarts,    \* bound: restarts of the Swarm Controller
    MaxReports      \* bound: reports of the vehicles

ASSUME RemoteAssumption ==
    /\ VehicleOf \in [Request -> Vehicle] /\ Fatal \subseteq Request
    /\ Report \notin Request /\ NoAnswer \notin Request /\ Unsent \notin Nat
    /\ NumberLimit \in Nat \ {0}
    /\ MaxBreaks \in Nat /\ MaxRestarts \in Nat /\ MaxReports \in Nat

VARIABLES
    sequenceNumber, \* SwarmController._sequence_number
    number,         \* the number each request was sent with
    rpc,            \* where each Command coroutine is
    answer,         \* the last response each RPC has yielded
    responseMap,    \* SwarmController._response_map, which is never cleaned
    connected,      \* vehicles the ROUTER socket has a route to
    toVehicle,      \* commands on their way, one FIFO per vehicle
    tasks,          \* _send_results tasks in progress on each vehicle
    toServer,       \* what the vehicles' DEALER sockets still have to deliver
    breaks, restarts, reports   \* faults and reports so far

serverVars == <<sequenceNumber, number, rpc, answer, responseMap>>
netVars    == <<connected, toVehicle, tasks, toServer>>
countVars  == <<breaks, restarts, reports>>
vars == <<serverVars, netVars, countVars>>

Answer == Request \cup {Report}
Called == [number : Nat, request : Request]
Answered == [number : Nat, answer : Answer]

Open   == {"accepted", "polling"}
Closed == {"answered", "failed", "cancelled", "broken"}

Init ==
    /\ sequenceNumber = 0 /\ responseMap = <<>>
    /\ number = [r \in Request |-> Unsent]
    /\ rpc = [r \in Request |-> "idle"]
    /\ answer = [r \in Request |-> NoAnswer]
    /\ connected = {}
    /\ toVehicle = [v \in Vehicle |-> <<>>] /\ toServer = [v \in Vehicle |-> <<>>]
    /\ tasks = [v \in Vehicle |-> {}]
    /\ breaks = 0 /\ restarts = 0 /\ reports = 0

----------------------------------------------------------------------------
(* SwarmController.Command. *)

(* The RPC arrives, and is acknowledged (status OK). *)
Command(r) ==
    /\ rpc[r] = "idle"
    /\ rpc' = [rpc EXCEPT ![r] = "accepted"]
    /\ UNCHANGED <<sequenceNumber, number, answer, responseMap, netVars, countVars>>

(* Faulty variant: the number wraps around as the field would. *)
DispatchWrapped(r) ==
    LET n == sequenceNumber % NumberLimit
        v == VehicleOf[r]
    IN  /\ rpc[r] = "accepted"
        /\ sequenceNumber' = sequenceNumber + 1
        /\ number' = [number EXCEPT ![r] = n]
        /\ rpc' = [rpc EXCEPT ![r] = "polling"]
        /\ toVehicle' = IF v \notin connected THEN toVehicle
                        ELSE [toVehicle EXCEPT ![v] =
                                 Append(@, [number |-> n, request |-> r])]
        /\ UNCHANGED <<answer, responseMap, connected, tasks, toServer, countVars>>

(***************************************************************************)
(* The request gets its number and is sent without losing control between  *)
(* the two.  The ROUTER socket silently drops a message it has no route    *)
(* for; the coroutine polls all the same.                                  *)
(***************************************************************************)
Dispatch(r) ==
    LET v == VehicleOf[r]
    IN  /\ rpc[r] = "accepted" /\ sequenceNumber < NumberLimit
        /\ sequenceNumber' = sequenceNumber + 1
        /\ number' = [number EXCEPT ![r] = sequenceNumber]
        /\ rpc' = [rpc EXCEPT ![r] = "polling"]
        /\ toVehicle' = IF v \notin connected THEN toVehicle
                        ELSE [toVehicle EXCEPT ![v] =
                                 Append(@, [number |-> sequenceNumber, request |-> r])]
        /\ UNCHANGED <<answer, responseMap, connected, tasks, toServer, countVars>>

(* A number that does not fit its field raises; the RPC ends with UNKNOWN. *)
DispatchFails(r) ==
    /\ rpc[r] = "accepted" /\ sequenceNumber >= NumberLimit
    /\ sequenceNumber' = sequenceNumber + 1
    /\ rpc' = [rpc EXCEPT ![r] = "failed"]
    /\ UNCHANGED <<number, answer, responseMap, netVars, countVars>>

(* _poll_for_response finds an entry under the request's number. *)
Poll(r) ==
    /\ rpc[r] = "polling" /\ number[r] \in DOMAIN responseMap
    /\ answer' = [answer EXCEPT ![r] = responseMap[number[r]]]
    /\ rpc' = [rpc EXCEPT ![r] = "answered"]
    /\ UNCHANGED <<sequenceNumber, number, responseMap, netVars, countVars>>

(* The commander hangs up; neither the vehicle nor the map learns of it. *)
Cancel(r) ==
    /\ rpc[r] \in Open
    /\ rpc' = [rpc EXCEPT ![r] = "cancelled"]
    /\ UNCHANGED <<sequenceNumber, number, answer, responseMap, netVars, countVars>>

(* _listen_for_responses: every message is stored under the number it parses to. *)
Listen(v) ==
    /\ v \in connected /\ toServer[v] # <<>>
    /\ LET m == Head(toServer[v])
       IN  responseMap' = [n \in DOMAIN responseMap \cup {m.number} |->
                              IF n = m.number THEN m.answer ELSE responseMap[n]]
    /\ toServer' = [toServer EXCEPT ![v] = Tail(@)]
    /\ UNCHANGED <<sequenceNumber, number, rpc, answer, connected, toVehicle, tasks, countVars>>

----------------------------------------------------------------------------
(* The vehicle. *)

(* Faulty variant: the message stays in the socket, and is handled again. *)
HandleAgain(v) ==
    /\ toVehicle[v] # <<>> /\ Head(toVehicle[v]) \notin tasks[v]
    /\ tasks' = [tasks EXCEPT ![v] = @ \cup {Head(toVehicle[v])}]
    /\ UNCHANGED <<serverVars, connected, toVehicle, toServer, countVars>>

(* _handle_commands: a task of its own for every command. *)
Handle(v) ==
    /\ toVehicle[v] # <<>>
    /\ tasks' = [tasks EXCEPT ![v] = @ \cup {Head(toVehicle[v])}]
    /\ toVehicle' = [toVehicle EXCEPT ![v] = Tail(@)]
    /\ UNCHANGED <<serverVars, connected, toServer, countVars>>

(* Faulty variant: the response is made without the command's number. *)
SendResultUnnumbered(v, t) ==
    /\ t \in tasks[v] /\ t.request \notin Fatal
    /\ tasks' = [tasks EXCEPT ![v] = @ \ {t}]
    /\ toServer' = [toServer EXCEPT ![v] = Append(@, [number |-> 0, answer |-> t.request])]
    /\ UNCHANGED <<serverVars, connected, toVehicle, countVars>>

(* _send_results: the tasks end in any order. *)
SendResult(v, t) ==
    /\ t \in tasks[v] /\ t.request \notin Fatal
    /\ tasks' = [tasks EXCEPT ![v] = @ \ {t}]
    /\ toServer' = [toServer EXCEPT ![v] =
                       Append(@, [number |-> t.number, answer |-> t.request])]
    /\ UNCHANGED <<serverVars, connected, toVehicle, countVars>>

(***************************************************************************)
(* A method name without a '.', or a stream that ends without a response,  *)
(* raises out of _send_commands; nobody awaits the task, nothing is sent.  *)
(***************************************************************************)
TaskRaises(v, t) ==
    /\ t \in tasks[v] /\ t.request \in Fatal
    /\ tasks' = [tasks EXCEPT ![v] = @ \ {t}]
    /\ UNCHANGED <<serverVars, connected, toVehicle, toServer, countVars>>

(***************************************************************************)
(* SendReport puts a SendReportRequest on the same socket.  As a           *)
(* CommandResponse its field 1 has another wire type and is skipped, so    *)
(* the number is 0; its field 2, the ReportMessage, parses as the response.*)
(***************************************************************************)
SendReport(v) ==
    /\ reports < MaxReports
    /\ reports' = reports + 1
    /\ toServer' = [toServer EXCEPT ![v] = Append(@, [number |-> 0, answer |-> Report])]
    /\ UNCHANGED <<serverVars, connected, toVehicle, tasks, breaks, restarts>>

----------------------------------------------------------------------------
(* The connection, and what a break of it loses. *)

Connect(v) ==
    /\ v \notin connected
    /\ connected' = connected \cup {v}
    /\ UNCHANGED <<serverVars, toVehicle, tasks, toServer, countVars>>

(* The link breaks: what the vehicle has received stays, what it sends waits. *)
Break(v) ==
    /\ v \in connected /\ breaks < MaxBreaks
    /\ breaks' = breaks + 1
    /\ connected' = connected \ {v}
    /\ \E kept \in Prefixes(toVehicle[v]) : toVehicle' = [toVehicle EXCEPT ![v] = kept]
    /\ \E kept \in Suffixes(toServer[v]) : toServer' = [toServer EXCEPT ![v] = kept]
    /\ UNCHANGED <<serverVars, tasks, restarts, reports>>

(* The kernel of the vehicle restarts: it forgets its commands and answers. *)
VehicleRestarts(v) ==
    /\ breaks < MaxBreaks
    /\ breaks' = breaks + 1
    /\ connected' = connected \ {v}
    /\ toVehicle' = [toVehicle EXCEPT ![v] = <<>>]
    /\ tasks' = [tasks EXCEPT ![v] = {}]
    /\ \E kept \in Prefixes(toServer[v]) : toServer' = [toServer EXCEPT ![v] = kept]
    /\ UNCHANGED <<serverVars, restarts, reports>>

(***************************************************************************)
(* The Swarm Controller restarts: its RPCs break, its numbers start at 0,  *)
(* and the vehicles, which do not restart, connect to it again.            *)
(***************************************************************************)
ServerRestarts ==
    /\ restarts < MaxRestarts
    /\ restarts' = restarts + 1
    /\ sequenceNumber' = 0 /\ responseMap' = <<>>
    /\ rpc' = [r \in Request |-> IF rpc[r] \in Open THEN "broken" ELSE rpc[r]]
    /\ connected' = {}
    /\ toVehicle' \in [Vehicle -> UNION {Prefixes(toVehicle[v]) : v \in Vehicle}]
    /\ toServer' \in [Vehicle -> UNION {Suffixes(toServer[v]) : v \in Vehicle}]
    /\ \A v \in Vehicle : /\ toVehicle'[v] \in Prefixes(toVehicle[v])
                          /\ toServer'[v] \in Suffixes(toServer[v])
    /\ UNCHANGED <<number, answer, tasks, breaks, reports>>

----------------------------------------------------------------------------
VehicleStep(v) == Handle(v) \/ \E t \in tasks[v] : SendResult(v, t) \/ TaskRaises(v, t)

Next ==
    \/ \E r \in Request : \/ Command(r) \/ Dispatch(r) \/ DispatchFails(r)
                          \/ Poll(r) \/ Cancel(r)
    \/ \E v \in Vehicle : \/ Listen(v) \/ VehicleStep(v) \/ SendReport(v)
                          \/ Connect(v) \/ Break(v) \/ VehicleRestarts(v)
    \/ ServerRestarts

(***************************************************************************)
(* Both event loops run what can run, a service answers what it is sent,   *)
(* and ZeroMQ connects again by itself.  Commanders need not call or hang  *)
(* up, and nothing need break.                                             *)
(***************************************************************************)
Fairness ==
    /\ \A r \in Request : WF_vars(Dispatch(r) \/ DispatchFails(r)) /\ WF_vars(Poll(r))
    /\ \A v \in Vehicle : WF_vars(Listen(v)) /\ WF_vars(Handle(v)) /\ WF_vars(Connect(v))
    /\ \A r \in Request : WF_vars(\E v \in Vehicle : \E t \in tasks[v] :
                              t.request = r /\ (SendResult(v, t) \/ TaskRaises(v, t)))

Spec == Init /\ [][Next]_vars
FairSpec == Spec /\ Fairness

----------------------------------------------------------------------------
(***************************************************************************)
(* remote_service.proto:16-17 and :49-51: Command "returns the response",  *)
(* found by "sequence_number correlation".  Whatever order vehicles answer *)
(* in, whatever is cancelled or lost, an RPC that returns a vehicle's      *)
(* response returns the response to its own command.                       *)
(***************************************************************************)
CorrectAnswer == \A r \in Request : rpc[r] = "answered" => answer[r] = r

(* Reports, and a Swarm Controller that counts from 0 again, break that promise. *)
Undisturbed == restarts = 0 /\ reports = 0
AnswersOwn == Undisturbed => CorrectAnswer

(***************************************************************************)
(* At most once: until a report or a restart, an entry of the response map *)
(* is not written over, so no poll depends on when it looks, and no        *)
(* command is executed twice.                                              *)
(***************************************************************************)
WrittenOnceStep ==
    \A v \in Vehicle :
        v \in connected' /\ Len(toServer'[v]) < Len(toServer[v]) =>
            Head(toServer[v]).number \notin DOMAIN responseMap
WrittenOnce == [][Undisturbed' => WrittenOnceStep]_vars

(***************************************************************************)
(* What commanders see of it (RemoteControl): the commands at the stations *)
(* are those the queues, the tasks and the map are about.                  *)
(***************************************************************************)
GoingTo    == [v \in Vehicle |-> {m.request : m \in Range(toVehicle[v])}]
WorkedOn   == [v \in Vehicle |-> {t.request : t \in tasks[v]}]
ComingFrom == [v \in Vehicle |-> {m.answer : m \in Range(toServer[v])}]

Control == INSTANCE RemoteControl
    WITH phase <- rpc, going <- GoingTo, working <- WorkedOn, coming <- ComingFrom,
         stored <- Range(responseMap), disturbed <- ~Undisturbed
CarrierSpec == Control!Spec

(* The command r has reached its vehicle's queue, or is being executed there. *)
Pending(r) ==
    \/ \E i \in DOMAIN toVehicle[VehicleOf[r]] : toVehicle[VehicleOf[r]][i].request = r
    \/ \E t \in tasks[VehicleOf[r]] : t.request = r

(***************************************************************************)
(* A command that got onto its way to a vehicle which from then on stays   *)
(* connected, and whose task does not raise, is brought to an end: nothing *)
(* another vehicle or another command does can keep the answer away.       *)
(***************************************************************************)
AnsweredIfConnected ==
    \A r \in Request \ Fatal :
        [](Pending(r) /\ [](VehicleOf[r] \in connected) => <>(rpc[r] \in Closed))

==============================================================================
