---------------------------- MODULE ControlPage ----------------------------
(***************************************************************************)
(* The control page of the Streamlit ground station (gcs/streamlit/pages/  *)
(* control.py).  Whatever the operator does to the page makes Streamlit    *)
(* run the callback of that widget and then the whole script, whose last   *)
(* part, if the swarm is armed, sends a manual command to the selected     *)
(* vehicles - one thread for each, and one request for all threads.        *)
(*                                                                         *)
(* A run that the operator interrupts stops where it next looks at the     *)
(* session, or comes to its end; Streamlit and grpc are modelled from this *)
(* use of them.  What the page shows is left out.                          *)
(***************************************************************************)
EXTENDS Naturals, Sequences, FiniteSets, SequencesExt

CONSTANTS
    Drone,
    NoDrone,        \* vehicle_id of a new request
    MaxInputs       \* bound: things the operator does

ASSUME PageAssumption == MaxInputs \in Nat /\ NoDrone \notin Drone /\ IsFiniteSet(Drone)

Button == {"Upload", "Start", "Halt", "Home"}
(* Keys: "t" takes off, "g" lands, any other or none is a joystick position. *)
Key == {"t", "g", "w"}

VARIABLES
    selected, armed, key,   \* session state; key is what st_keypressed returns
    pending,        \* what the operator has done and the page not yet seen, or "none"
    input,          \* what the current or last run is for
    script,         \* "idle", "callback", "manual" or, for the stub of a thread, "look"
    todo,           \* commands of the callback, or vehicles of the manual loop, left
    waiting,        \* the callback waits for the end of its call
    wire,           \* the Upload and Start calls whose command may still be executed
    rounds,         \* manual loops: request, vehicles a thread was started for, threads that
                    \* have not sent the request, vehicles told
    inputs

pageVars == <<selected, armed, key, pending, input, script, todo, waiting, wire, rounds, inputs>>

(* Every input is followed by one run: the number of the current or last one. *)
Run == IF pending = "none" THEN inputs ELSE inputs - 1
(* The page reads the answers to Upload and Start.  The call object of another command is
   dropped, which cancels it: RemoteCommand has what may come of that. *)
Kept == {"Upload", "Start"}
Calling(c) == IF c.method \in Kept
              THEN wire \cup {[run |-> Run, method |-> c.method, to |-> c.to, failed |-> FALSE]}
              ELSE wire

(* The pills select every active vehicle by default. *)
PageInit ==
    /\ selected = Drone /\ armed = FALSE /\ key = "w"
    /\ pending = "none" /\ input = "none" /\ script = "idle"
    /\ todo = <<>> /\ waiting = FALSE /\ wire = {} /\ rounds = <<>> /\ inputs = 0

----------------------------------------------------------------------------
(* The operator. *)
Operate(i) ==
    /\ pending = "none" /\ inputs < MaxInputs
    /\ pending' = i /\ inputs' = inputs + 1
    /\ UNCHANGED <<selected, armed, key, input, script, todo, waiting, wire, rounds>>

(* The script below the widgets, up to the manual loop. *)
Manual(k) == CASE k = "t" -> "TakeOff" [] k = "g" -> "Land" [] OTHER -> "Joystick"
RunScript(drones, arm, k, i) ==
    IF arm /\ drones # {}
    THEN /\ script' = "manual" /\ todo' = SetToSeq(drones)
         /\ rounds' = Append(rounds, [method |-> Manual(k), cause |-> i, drones |-> drones,
                                      to |-> NoDrone, started |-> {}, threads |-> 0, told |-> {}])
    ELSE script' = "idle" /\ todo' = <<>> /\ UNCHANGED rounds

(* A widget without a callback: the pills, the toggle, a key. *)
RunForWidget ==
    /\ script = "idle" /\ pending \in {"select", "arm"} \cup Key
    /\ selected' \in IF pending = "select" THEN SUBSET Drone ELSE {selected}
    /\ armed' = (armed # (pending = "arm"))
    /\ key' = IF pending \in Key THEN pending ELSE key
    /\ input' = pending /\ pending' = "none"
    /\ RunScript(selected', armed', key', pending)
    /\ UNCHANGED <<waiting, wire, inputs>>

To(drones, m) == [n \in DOMAIN drones |-> [method |-> m, to |-> drones[n]]]
Commands(b) ==
    LET drones == SetToSeq(selected)
    IN  CASE b = "Halt" -> To(drones, "Stop") \o To(drones, "Hold")
          [] b = "Home" -> To(drones, "ReturnToHome")
          [] OTHER      -> To(drones, b)

(* upload_mission, run_flightscript, enable_manual, rth. *)
RunForButton ==
    /\ script = "idle" /\ pending \in Button
    /\ script' = "callback" /\ todo' = Commands(pending)
    /\ input' = pending /\ pending' = "none"
    /\ UNCHANGED <<selected, armed, key, waiting, wire, rounds, inputs>>

UploadBegins ==
    /\ script = "callback" /\ input = "Upload" /\ todo # <<>> /\ ~waiting
    /\ Len(todo) = Cardinality(selected)

(* No file was chosen: the page says so, and the rest of the script runs. *)
UploadNothing ==
    /\ UploadBegins /\ todo' = <<>>
    /\ UNCHANGED <<selected, armed, key, pending, input, script, waiting, wire, rounds, inputs>>

(* A .kml without a .json, or the other way round: a variable is not bound. *)
UploadRaises ==
    /\ UploadBegins /\ script' = "idle" /\ todo' = <<>>
    /\ UNCHANGED <<selected, armed, key, pending, input, waiting, wire, rounds, inputs>>

(* Faulty variant: the answers to an upload are not waited for. *)
CallbackCallsEager ==
    /\ script = "callback" /\ todo # <<>> /\ ~waiting
    /\ wire' = Calling(Head(todo)) /\ waiting' = (Head(todo).method = "Start")
    /\ todo' = Tail(todo)
    /\ UNCHANGED <<selected, armed, key, pending, input, script, rounds, inputs>>

CallbackCalls ==
    /\ script = "callback" /\ todo # <<>> /\ ~waiting
    /\ wire' = Calling(Head(todo)) /\ waiting' = (Head(todo).method \in Kept)
    /\ todo' = Tail(todo)
    /\ UNCHANGED <<selected, armed, key, pending, input, script, rounds, inputs>>

CallbackEnds ==
    /\ script = "callback" /\ todo = <<>> /\ ~waiting
    /\ armed' = (armed /\ input # "Start")
    /\ RunScript(selected, armed', key, input)
    /\ UNCHANGED <<selected, key, pending, input, waiting, wire, inputs>>

(* Where a run looks at the session: between two calls of a callback, on the way to the manual
   loop, and in the loop only for the stub a thread is given, the vehicle already set. *)
Looks ==
    \/ script \in {"callback", "look"} /\ ~waiting
    \/ script = "manual" /\ rounds[Len(rounds)].to = NoDrone

(* Faulty variant: also in the middle of a call. *)
InterruptedAnywhere ==
    /\ script # "idle" /\ pending # "none"
    /\ script' = "idle" /\ todo' = <<>>
    /\ UNCHANGED <<selected, armed, key, pending, input, waiting, wire, rounds, inputs>>

(* Another input has arrived in the middle of a run. *)
Interrupted ==
    /\ Looks /\ pending # "none"
    /\ script' = "idle" /\ todo' = <<>>
    /\ UNCHANGED <<selected, armed, key, pending, input, waiting, wire, rounds, inputs>>

----------------------------------------------------------------------------
(* Faulty variant: the request is not given the vehicle. *)
SetVehicleForgotten ==
    /\ script = "manual" /\ todo # <<>>
    /\ script' = "look"
    /\ UNCHANGED <<selected, armed, key, pending, input, todo, waiting, wire, rounds, inputs>>

(* The loop writes the vehicle into the request all threads of this round share ... *)
SetVehicle ==
    /\ script = "manual" /\ todo # <<>>
    /\ rounds' = [rounds EXCEPT ![Len(rounds)].to = Head(todo)]
    /\ script' = "look"
    /\ UNCHANGED <<selected, armed, key, pending, input, todo, waiting, wire, inputs>>

(* ... and starts the thread for it, if it was not interrupted at the stub. *)
StartThread ==
    /\ script = "look"
    /\ rounds' = [rounds EXCEPT ![Len(rounds)].started = @ \cup {Head(todo)},
                                ![Len(rounds)].threads = @ + 1]
    /\ todo' = Tail(todo)
    /\ script' = IF todo' = <<>> THEN "idle" ELSE "manual"
    /\ UNCHANGED <<selected, armed, key, pending, input, waiting, wire, inputs>>

(* send_command_thread: the request is serialized as it is now. *)
ThreadCalls(r) ==
    /\ rounds[r].threads > 0
    /\ rounds' = [rounds EXCEPT ![r].threads = @ - 1, ![r].told = @ \cup {rounds[r].to}]
    /\ UNCHANGED <<selected, armed, key, pending, input, script, todo, waiting, wire, inputs>>

(* The command is answered, or nothing more will come of it. *)
CallEnds(c) ==
    /\ wire' = wire \ {c}
    /\ waiting' = (waiting /\ c.failed)
    /\ UNCHANGED <<selected, armed, key, pending, input, script, todo, rounds, inputs>>

(* RpcError out of the callback; the vehicle may have the command all the same. *)
CallFails(c) ==
    /\ ~c.failed
    /\ wire' = (wire \ {c}) \cup {[c EXCEPT !.failed = TRUE]}
    /\ waiting' = FALSE /\ script' = "idle" /\ todo' = <<>>
    /\ UNCHANGED <<selected, armed, key, pending, input, rounds, inputs>>

PageNext ==
    \/ \E i \in Button \cup Key \cup {"select", "arm"} : Operate(i)
    \/ RunForWidget \/ RunForButton \/ UploadNothing \/ UploadRaises
    \/ CallbackCalls \/ CallbackEnds \/ Interrupted \/ SetVehicle \/ StartThread
    \/ \E r \in DOMAIN rounds : ThreadCalls(r)
    \/ \E c \in wire : CallEnds(c) \/ CallFails(c)

PageSpec == PageInit /\ [][PageNext]_pageVars

----------------------------------------------------------------------------
(* Every variable has its type; only a callback waits, for one call. *)
PageTypeOK ==
    /\ selected \subseteq Drone /\ armed \in BOOLEAN /\ key \in Key
    /\ {pending, input} \subseteq Button \cup Key \cup {"select", "arm", "none"}
    /\ script \in {"idle", "callback", "manual", "look"} /\ inputs \in 0..MaxInputs
    /\ wire \subseteq [run : 1..MaxInputs, method : Kept, to : Drone, failed : BOOLEAN]
    /\ waiting = (\E c \in wire : ~c.failed) /\ (waiting => script = "callback")

(***************************************************************************)
(* A mission is not started on a vehicle while its upload is still on its  *)
(* way, whichever runs were interrupted in between - unless the page has   *)
(* shown the operator that the upload failed.                              *)
(***************************************************************************)
UploadSettled ==
    \A u, s \in wire : u.method = "Upload" /\ s.method = "Start" /\ u.to = s.to /\ u.run < s.run
                           => u.failed

(***************************************************************************)
(* Threads that run late send the request to another vehicle than they     *)
(* were started for, but never to one that was not selected.  Once they    *)
(* have all run some vehicle is told, and so is the one the request names  *)
(* if a thread was started for it: a run that is interrupted before the    *)
(* thread of its last vehicle leaves that one named, and it may be untold. *)
(***************************************************************************)
RoundReaches ==
    \A r \in DOMAIN rounds :
        /\ rounds[r].told \subseteq rounds[r].drones
        /\ rounds[r].threads = 0 /\ rounds[r].started # {} => rounds[r].told # {}
        /\ rounds[r].threads = 0 /\ rounds[r].to \in rounds[r].started
               => rounds[r].to \in rounds[r].told

(* "Return to last known home." (control.py:535): no other command follows of itself. *)
HomeStands == \A r \in DOMAIN rounds : rounds[r].cause # "Home"

=============================================================================
