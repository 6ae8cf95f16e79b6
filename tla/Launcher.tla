------------------------------ MODULE Launcher ------------------------------
(***************************************************************************)
(* The processes of a vehicle (vehicle/launch.py) and the flight log       *)
(* (vehicle/logger): start_services starts them with pauses in between,    *)
(* waits for them and, when it is told to end, ends them one after the     *)
(* other.  A record of a process is a call to the logger that fails        *)
(* unnoticed if the logger is not there (util/log.py).                     *)
(***************************************************************************)
EXTENDS Naturals, Sequences, SequencesExt

CONSTANTS
    Plans,          \* what may be started: with or without logger and driver
    MaxSignals      \* bound: signals to the launcher

ASSUME LauncherAssumption == MaxSignals \in Nat

Process == {"logger", "driver", "mission", "kernel"}
ShippedPlans == {<<"logger", "driver", "mission", "kernel">>, <<"driver", "mission", "kernel">>,
                 <<"logger", "mission", "kernel">>, <<"mission", "kernel">>}

(* The logger, if there is one, is the first to be started. *)
ASSUME PlansAssumption ==
    \A p \in Plans : /\ p \in Seq(Process) /\ p # <<>>
                     /\ \A i \in DOMAIN p : p[i] = "logger" => i = 1

VARIABLES
    plan,           \* what is left to start
    running,        \* the list of that name
    process,        \* each process: "none", "starting", "up", "ending" or "dead"
    launcher,       \* "start", "wait", "stop", or how it ended: "done", "lost", "early", "twice"
    at,             \* place in running of the process waited for
    told,           \* it was sent SIGTERM
    signals,
    spoiled,        \* history: Ctrl-C reached every process, or the logger crashed
    lost            \* history: a record was lost after the logger had come up

launcherVars == <<plan, running, process, launcher, at, told, signals, spoiled, lost>>

LauncherInit ==
    /\ plan \in Plans /\ running = <<>> /\ process = [p \in Process |-> "none"]
    /\ launcher = "start" /\ at = 1 /\ told = FALSE /\ signals = 0
    /\ spoiled = FALSE /\ lost = FALSE

Alive(p) == process[p] \in {"starting", "up", "ending"}
Awaited == running[at]

----------------------------------------------------------------------------
StartNext ==
    /\ launcher = "start" /\ plan # <<>>
    /\ process' = [process EXCEPT ![Head(plan)] = "starting"]
    /\ running' = Append(running, Head(plan)) /\ plan' = Tail(plan)
    /\ UNCHANGED <<launcher, at, told, signals, spoiled, lost>>

(* The package of the driver has no pyproject.toml: start_services returns. *)
PackageMissing ==
    /\ launcher = "start" /\ plan # <<>> /\ Head(plan) = "driver"
    /\ launcher' = "lost"
    /\ UNCHANGED <<plan, running, process, at, told, signals, spoiled, lost>>

(* Faulty variant: the processes are ended in the order they were started in. *)
AllStartedForward ==
    /\ launcher = "start" /\ plan = <<>>
    /\ launcher' = "wait"
    /\ UNCHANGED <<plan, running, process, at, told, signals, spoiled, lost>>

AllStarted ==
    /\ launcher = "start" /\ plan = <<>>
    /\ running' = Reverse(running) /\ launcher' = "wait"
    /\ UNCHANGED <<plan, process, at, told, signals, spoiled, lost>>

(* wait() returns. *)
Waited ==
    /\ launcher \in {"wait", "stop"} /\ process[Awaited] = "dead"
    /\ IF at = Len(running) THEN launcher' = "done" /\ UNCHANGED at
                            ELSE at' = at + 1 /\ UNCHANGED launcher
    /\ told' = FALSE
    /\ UNCHANGED <<plan, running, process, signals, spoiled, lost>>

(* Faulty variant: only what has come up is told. *)
TerminateUp ==
    /\ launcher = "stop" /\ ~told /\ process[Awaited] = "up"
    /\ process' = [process EXCEPT ![Awaited] = "ending"] /\ told' = TRUE
    /\ UNCHANGED <<plan, running, launcher, at, signals, spoiled, lost>>

Terminate ==
    /\ launcher = "stop" /\ ~told /\ Alive(Awaited)
    /\ process' = [process EXCEPT ![Awaited] = "ending"] /\ told' = TRUE
    /\ UNCHANGED <<plan, running, launcher, at, signals, spoiled, lost>>

(* SystemExit, wherever the launcher is: only a wait() of the first loop catches it. *)
Stopped == /\ signals < MaxSignals /\ signals' = signals + 1
           /\ launcher' = CASE launcher = "start" -> "early"
                            [] launcher = "wait"  -> "stop"
                            [] launcher = "stop"  -> "twice"
                            [] OTHER              -> launcher
           /\ at' = IF launcher = "wait" THEN 1 ELSE at
           /\ told' = FALSE

Signalled ==
    /\ launcher \in {"start", "wait", "stop"} /\ Stopped
    /\ UNCHANGED <<plan, running, process, spoiled, lost>>

(* The terminal signals the whole group. *)
CtrlC ==
    /\ launcher \in {"start", "wait", "stop"} /\ Stopped
    /\ process' = [p \in Process |-> IF Alive(p) THEN "ending" ELSE process[p]]
    /\ spoiled' = TRUE
    /\ UNCHANGED <<plan, running, lost>>

----------------------------------------------------------------------------
Ready(p) ==
    /\ process[p] = "starting"
    /\ process' = [process EXCEPT ![p] = "up"]
    /\ UNCHANGED <<plan, running, launcher, at, told, signals, spoiled, lost>>

(* Of its own: the kernel has no law, the driver no vehicle, ... *)
Dies(p) ==
    /\ process[p] \in {"starting", "up"}
    /\ process' = [process EXCEPT ![p] = "dead"]
    /\ spoiled' = (spoiled \/ p = "logger")
    /\ UNCHANGED <<plan, running, launcher, at, told, signals, lost>>

(* Its signal handler, and what its shutdown has to do. *)
Ends(p) ==
    /\ process[p] = "ending"
    /\ process' = [process EXCEPT ![p] = "dead"]
    /\ UNCHANGED <<plan, running, launcher, at, told, signals, spoiled, lost>>

(* FlightLogHandler.emit: the logger closes its file as soon as it is signalled. *)
Record(p) ==
    /\ p # "logger" /\ process[p] \in {"up", "ending"} /\ process["logger"] # "none"
    /\ lost' = (lost \/ process["logger"] \in {"ending", "dead"})
    /\ UNCHANGED <<plan, running, process, launcher, at, told, signals, spoiled>>

LauncherNext ==
    \/ StartNext \/ PackageMissing \/ AllStarted \/ Waited \/ Terminate \/ Signalled \/ CtrlC
    \/ \E p \in Process : Ready(p) \/ Dies(p) \/ Ends(p) \/ Record(p)

(* The launcher goes on, and a process that was told to end does. *)
LauncherFairness ==
    /\ WF_launcherVars(Waited) /\ WF_launcherVars(Terminate)
    /\ \A p \in Process : WF_launcherVars(Ends(p))
LauncherSpec == LauncherInit /\ [][LauncherNext]_launcherVars /\ LauncherFairness

----------------------------------------------------------------------------

(***************************************************************************)
(* "Reverse the processes so the logger dies last" (launch.py:74): once it *)
(* is up the flight log has every record up to the last of the kernel,     *)
(* also of a vehicle that is stopped while it starts or stopped twice.     *)
(***************************************************************************)
LogKept == lost => spoiled

(***************************************************************************)
(* A launcher that was told to end does, however many processes died       *)
(* before, and leaves none behind - unless it is told once more.           *)
(***************************************************************************)
NothingLeft == launcher = "done" /\ \A p \in Process : ~Alive(p)
StopEnds == (launcher = "stop") ~> (NothingLeft \/ launcher = "twice")

=============================================================================
