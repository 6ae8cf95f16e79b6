--------------------------- MODULE MissionRuntime ---------------------------
(***************************************************************************)
(* A vehicle's mission: the Mission service (vehicle/mission/              *)
(* mission_service.py), the runtime's init and term (sdk/src/              *)
(* steeleagle_sdk/dsl/runtime/__init__.py) and the finite state machine    *)
(* that runs an action and its events against each other (runtime/fsm.py). *)
(* All are coroutines of one asyncio loop; an action below is what one     *)
(* coroutine does between two points where it may lose control.            *)
(***************************************************************************)
EXTENDS WaitQueue, Integers, FiniteSets

CONSTANTS
    StartCall, StopCall,    \* the RPCs, each made once
    Mission,                \* compiled missions
    First,                  \* Mission -> its start action
    Transition,             \* Mission -> its actions -> their events -> next action
    Event,                  \* the events a mission defines, "done" not among them
    Terminate,              \* _TERMINATE
    NoMission, Nobody, Fsm,
    MaxGone                 \* bound: callers that hang up

Call  == StartCall \cup StopCall
Proc  == Call \cup {Fsm}
Done  == "done"
Racer == Event \cup {Done}      \* the action of a state races as "done"

Actions(m) == DOMAIN Transition[m]

(***************************************************************************)
(* The compiler gives every action a done transition, but does not look    *)
(* whether the start action, or an event or a target of a transition, is   *)
(* defined.                                                                *)
(***************************************************************************)
ASSUME MissionAssumption ==
    /\ Done \notin Event /\ NoMission \notin Mission
    /\ MaxGone \in Nat /\ IsFiniteSet(Call)
    /\ Fsm \notin Call /\ Nobody \notin Proc /\ StartCall \cap StopCall = {}
    /\ \A m \in Mission : /\ Terminate \notin Actions(m)
                          /\ \A a \in Actions(m) : Done \in DOMAIN Transition[m][a]

VARIABLES
    mission,    \* MissionService.mission
    started,    \* _STARTED
    lock, queue,    \* _LOCK: its holder, and the coroutines that wait for it in order
    stores,     \* MissionStores started and not stopped
    fsm,        \* where _FSM_TASK is
    running,    \* the mission of _FSM
    state,      \* the action being run
    racers,     \* the tasks of the state's TaskGroup
    winner,     \* the first finisher, as in the queue of length 1
    cancelled,  \* term() has cancelled the FSM
    pc,         \* where each RPC is
    want        \* the mission a Start has read

fsmVars  == <<fsm, running, state, racers, winner, cancelled>>
lockVars == <<lock, queue>>
vars == <<mission, started, lockVars, stores, fsmVars, pc, want>>

FsmEnded  == {"none", "done", "crashed", "cancelled"}
FsmPC     == FsmEnded \cup {"created", "racing", "leaving", "lockTerm", "closing"}
CallEnded == {"completed", "refused", "failed", "gone"}
CallOpen  == {"lockInit", "opening", "undoing", "lockTerm", "joining", "closing"}
CallPC    == {"idle"} \cup CallOpen \cup CallEnded
RacerPC   == {"off", "running", "cancelling", "ended", "failed"}

Idle == [x \in Racer |-> "off"]

Init ==
    /\ mission = NoMission /\ running = NoMission
    /\ started = FALSE /\ stores = 0
    /\ lock = Nobody /\ queue = <<>>
    /\ fsm = "none" /\ state = Terminate /\ racers = Idle
    /\ winner = Nobody /\ cancelled = FALSE
    /\ pc = [c \in Call |-> "idle"]
    /\ want = [c \in Call |-> NoMission]

Goto(c, place) == pc' = [pc EXCEPT ![c] = place]

(* asyncio.Lock hands itself on in the order it was asked for. *)
MayLock(p) == lock = Nobody /\ queue # <<>> /\ Head(queue) = p

----------------------------------------------------------------------------
(* The Mission service up to the runtime's lock. *)

Upload(m) ==
    /\ mission # m
    /\ mission' = m
    /\ UNCHANGED <<started, lockVars, stores, fsmVars, pc, want>>

(* fsm_routine is never set: the second refusal of Start is dead code. *)
Start(c) ==
    /\ pc[c] = "idle"
    /\ IF mission = NoMission
          THEN Goto(c, "refused") /\ UNCHANGED <<queue, want>>
          ELSE /\ Goto(c, "lockInit")
               /\ queue' = Append(queue, c)
               /\ want' = [want EXCEPT ![c] = mission]
    /\ UNCHANGED <<mission, started, lock, stores, fsmVars>>

Stop(c) ==
    /\ pc[c] = "idle"
    /\ IF mission = NoMission
          THEN Goto(c, "refused") /\ UNCHANGED queue
          ELSE Goto(c, "lockTerm") /\ queue' = Append(queue, c)
    /\ UNCHANGED <<mission, started, lock, stores, fsmVars, want>>

----------------------------------------------------------------------------
(* init(), holding the lock. *)

SkipInit(c) ==
    /\ pc[c] = "lockInit" /\ MayLock(c) /\ started
    /\ queue' = Tail(queue)
    /\ Goto(c, "completed")
    /\ UNCHANGED <<mission, started, lock, stores, fsmVars, want>>

BeginInit(c) ==
    /\ pc[c] = "lockInit" /\ MayLock(c) /\ ~started
    /\ lock' = c /\ queue' = Tail(queue)
    /\ stores' = stores + 1
    /\ Goto(c, "opening")
    /\ UNCHANGED <<mission, started, fsmVars, want>>

(* The store has started; the FSM's task is created, and runs later. *)
FinishInit(c) ==
    /\ pc[c] = "opening"
    /\ started' = TRUE /\ lock' = Nobody
    /\ fsm' = "created" /\ running' = want[c]
    /\ state' = First[want[c]] /\ racers' = Idle
    /\ winner' = Nobody /\ cancelled' = FALSE
    /\ Goto(c, "completed")
    /\ UNCHANGED <<mission, queue, stores, want>>

(* An exception: what has been started is stopped, and the RPC fails. *)
InitRaises(c) ==
    /\ pc[c] = "opening"
    /\ Goto(c, "undoing")
    /\ UNCHANGED <<mission, started, lockVars, stores, fsmVars, want>>

(* Faulty variant: the store is forgotten. *)
UndoInitPartly(c) ==
    /\ pc[c] = "undoing"
    /\ lock' = Nobody
    /\ Goto(c, "failed")
    /\ UNCHANGED <<mission, started, queue, stores, fsmVars, want>>

UndoInit(c) ==
    /\ pc[c] = "undoing"
    /\ stores' = stores - 1 /\ lock' = Nobody
    /\ Goto(c, "failed")
    /\ UNCHANGED <<mission, started, queue, fsmVars, want>>

----------------------------------------------------------------------------
(* term(), called by a Stop or by the FSM itself. *)

SkipTerm(c) ==
    /\ pc[c] = "lockTerm" /\ MayLock(c) /\ ~started
    /\ queue' = Tail(queue)
    /\ Goto(c, "completed")
    /\ UNCHANGED <<mission, started, lock, stores, fsmVars, want>>

(* The FSM has ended already, by an error: there is nothing to cancel. *)
BeginTerm(c) ==
    /\ pc[c] = "lockTerm" /\ MayLock(c) /\ started /\ fsm \in FsmEnded
    /\ lock' = c /\ queue' = Tail(queue)
    /\ Goto(c, "closing")
    /\ UNCHANGED <<mission, started, stores, fsmVars, want>>

(* Faulty variant: term() goes on as soon as it has cancelled the task. *)
CancelFsmRash(c) ==
    /\ pc[c] = "lockTerm" /\ MayLock(c) /\ started /\ fsm \notin FsmEnded
    /\ lock' = c /\ queue' = Tail(queue)
    /\ Goto(c, "closing")
    /\ cancelled' = TRUE
    /\ fsm' = IF fsm \in {"racing", "leaving"} THEN "leaving" ELSE "cancelled"
    /\ racers' = [x \in Racer |-> IF racers[x] = "running" THEN "cancelling" ELSE racers[x]]
    /\ UNCHANGED <<mission, started, stores, running, state, winner, want>>

(* Faulty variant: an FSM on its way into term() is not cancelled. *)
CancelFsmRacing(c) ==
    /\ pc[c] = "lockTerm" /\ MayLock(c) /\ started /\ fsm \notin FsmEnded
    /\ lock' = c /\ queue' = Tail(queue)
    /\ Goto(c, "joining")
    /\ cancelled' = TRUE
    /\ fsm' = IF fsm \in {"racing", "leaving"} THEN "leaving"
              ELSE IF fsm = "created" THEN "cancelled" ELSE fsm
    /\ racers' = [x \in Racer |-> IF racers[x] = "running" THEN "cancelling" ELSE racers[x]]
    /\ UNCHANGED <<mission, started, stores, running, state, winner, want>>

(***************************************************************************)
(* The FSM is cancelled where it waits: in the race, which ends when its   *)
(* tasks have; for the lock, on its own way into term(); or before it ran. *)
(***************************************************************************)
CancelFsm(c) ==
    /\ pc[c] = "lockTerm" /\ MayLock(c) /\ started /\ fsm \notin FsmEnded
    /\ lock' = c
    /\ queue' = Without(Tail(queue), Fsm)
    /\ Goto(c, "joining")
    /\ cancelled' = TRUE
    /\ fsm' = IF fsm \in {"racing", "leaving"} THEN "leaving" ELSE "cancelled"
    /\ racers' = [x \in Racer |-> IF racers[x] = "running" THEN "cancelling" ELSE racers[x]]
    /\ UNCHANGED <<mission, started, stores, running, state, winner, want>>

(* Faulty variant: an error of the FSM leaves term() with the lock held. *)
JoinHolding(c) ==
    /\ pc[c] = "joining" /\ fsm \in FsmEnded
    /\ Goto(c, IF fsm = "crashed" THEN "failed" ELSE "closing")
    /\ UNCHANGED <<mission, started, lockVars, stores, fsmVars, want>>

(* Only CancelledError is suppressed: an error of the FSM leaves term(). *)
Join(c) ==
    /\ pc[c] = "joining" /\ fsm \in FsmEnded
    /\ IF fsm = "crashed" THEN Goto(c, "failed") /\ lock' = Nobody
                          ELSE Goto(c, "closing") /\ UNCHANGED lock
    /\ UNCHANGED <<mission, started, queue, stores, fsmVars, want>>

FinishTerm(c) ==
    /\ pc[c] = "closing"
    /\ started' = FALSE /\ stores' = stores - 1 /\ lock' = Nobody
    /\ Goto(c, "completed")
    /\ UNCHANGED <<mission, queue, fsmVars, want>>

(***************************************************************************)
(* The caller's connection breaks, and gRPC cancels the handler.  While it *)
(* joins the FSM the cancellation is suppressed together with the FSM's.   *)
(***************************************************************************)
CallerGone(c) ==
    /\ pc[c] \in CallOpen \ {"joining"}
    /\ Cardinality({d \in Call : pc[d] = "gone"}) < MaxGone
    /\ Goto(c, "gone")
    /\ lock' = IF lock = c THEN Nobody ELSE lock
    /\ queue' = Without(queue, c)
    /\ UNCHANGED <<mission, started, stores, fsmVars, want>>

----------------------------------------------------------------------------
(* The FSM. *)

NextState(a, e) ==
    IF a \in Actions(running) /\ e \in DOMAIN Transition[running][a]
    THEN Transition[running][a][e] ELSE Terminate

(***************************************************************************)
(* run_state: the action and the events of the state become tasks.  An     *)
(* action or event that the mission does not define raises a KeyError.     *)
(***************************************************************************)
Defined(a) == a \in Actions(running) /\ DOMAIN Transition[running][a] \subseteq Racer

EnterState(a) ==
    /\ state' = a /\ winner' = Nobody
    /\ IF a = Terminate THEN fsm' = "lockTerm" /\ queue' = Append(queue, Fsm)
       ELSE /\ fsm' = IF Defined(a) THEN "racing" ELSE "crashed"
            /\ UNCHANGED queue
    /\ racers' = IF a = Terminate \/ ~Defined(a) THEN Idle
                 ELSE [x \in Racer |-> IF x \in DOMAIN Transition[running][a]
                                       THEN "running" ELSE "off"]
    /\ UNCHANGED <<running, cancelled>>

FsmBegins ==
    /\ fsm = "created"
    /\ EnterState(state)
    /\ UNCHANGED <<mission, started, lock, stores, pc, want>>

(* An action returns or an event fires: the queue takes the first only. *)
RacerFinishes(x) ==
    /\ racers[x] = "running"
    /\ racers' = [racers EXCEPT ![x] = "ended"]
    /\ winner' = IF winner = Nobody THEN x ELSE winner
    /\ UNCHANGED <<mission, started, lockVars, stores, fsm, running, state, cancelled, pc, want>>

(* A racer raises, before or while it is cancelled; the TaskGroup cancels the others. *)
RacerRaises(x) ==
    /\ racers[x] \in {"running", "cancelling"}
    /\ racers' = [y \in Racer |-> IF y = x THEN "failed"
                                  ELSE IF racers[y] = "running" THEN "cancelling" ELSE racers[y]]
    /\ fsm' = "leaving"
    /\ UNCHANGED <<mission, started, lockVars, stores, running, state, winner, cancelled, pc, want>>

(* The FSM takes the winner from the queue and cancels everyone else. *)
TakeWinner ==
    /\ fsm = "racing" /\ winner # Nobody
    /\ fsm' = "leaving"
    /\ racers' = [x \in Racer |-> IF racers[x] = "running" THEN "cancelling" ELSE racers[x]]
    /\ UNCHANGED <<mission, started, lockVars, stores, running, state, winner, cancelled, pc, want>>

RacerCancelled(x) ==
    /\ racers[x] = "cancelling"
    /\ racers' = [racers EXCEPT ![x] = "ended"]
    /\ UNCHANGED <<mission, started, lockVars, stores, fsm, running, state, winner, cancelled, pc, want>>

Alone == \A x \in Racer : racers[x] \notin {"running", "cancelling"}
Failed == \E x \in Racer : racers[x] = "failed"

(* Faulty variant: the next state does not wait for the tasks of the last. *)
LeaveStateRash ==
    /\ fsm = "leaving" /\ ~Failed /\ ~cancelled
    /\ EnterState(NextState(state, winner))
    /\ UNCHANGED <<mission, started, lock, stores, pc, want>>

(* The TaskGroup is left when all its tasks have ended, and without an error. *)
LeaveState ==
    /\ fsm = "leaving" /\ Alone /\ ~Failed /\ ~cancelled
    /\ EnterState(NextState(state, winner))
    /\ UNCHANGED <<mission, started, lock, stores, pc, want>>

(* Errors leave it as an ExceptionGroup, which nothing in the FSM catches. *)
FsmAborts ==
    /\ fsm = "leaving" /\ Alone /\ (Failed \/ cancelled)
    /\ fsm' = IF Failed THEN "crashed" ELSE "cancelled"
    /\ UNCHANGED <<mission, started, lockVars, stores, running, state, racers, winner, cancelled,
                   pc, want>>

(***************************************************************************)
(* The mission has ended and the FSM calls term() itself.  Its cancel() of *)
(* its own task makes the await raise CancelledError, which is suppressed. *)
(***************************************************************************)
FsmBeginsTerm ==
    /\ fsm = "lockTerm" /\ MayLock(Fsm)
    /\ queue' = Tail(queue)
    /\ IF started THEN fsm' = "closing" /\ lock' = Fsm
                  ELSE fsm' = "done" /\ UNCHANGED lock
    /\ UNCHANGED <<mission, started, stores, running, state, racers, winner, cancelled, pc, want>>

FsmFinishesTerm ==
    /\ fsm = "closing"
    /\ fsm' = "done"
    /\ started' = FALSE /\ stores' = stores - 1 /\ lock' = Nobody
    /\ UNCHANGED <<mission, queue, running, state, racers, winner, cancelled, pc, want>>

----------------------------------------------------------------------------
CallStep(c) ==
    \/ SkipInit(c) \/ BeginInit(c) \/ FinishInit(c) \/ UndoInit(c)
    \/ SkipTerm(c) \/ BeginTerm(c) \/ CancelFsm(c) \/ Join(c) \/ FinishTerm(c)

FsmStep == \/ FsmBegins \/ TakeWinner \/ LeaveState \/ FsmAborts
           \/ FsmBeginsTerm \/ FsmFinishesTerm

Next ==
    \/ \E m \in Mission : Upload(m)
    \/ \E c \in StartCall : Start(c) \/ InitRaises(c)
    \/ \E c \in StopCall : Stop(c)
    \/ \E c \in Call : CallStep(c) \/ CallerGone(c)
    \/ \E x \in Racer : RacerFinishes(x) \/ RacerRaises(x) \/ RacerCancelled(x)
    \/ FsmStep

(***************************************************************************)
(* The loop runs what can run, opening and closing come to an end, and a   *)
(* cancelled task ends.  Actions need not return, nor events fire.         *)
(***************************************************************************)
Fairness ==
    /\ \A c \in Call : WF_vars(CallStep(c))
    /\ \A x \in Racer : WF_vars(RacerCancelled(x))
    /\ WF_vars(FsmStep)

Spec == Init /\ [][Next]_vars
FairSpec == Spec /\ Fairness

----------------------------------------------------------------------------
(* Every variable has its type, and the lock is held by who is inside it. *)
TypeOK ==
    /\ mission \in Mission \cup {NoMission} /\ running \in Mission \cup {NoMission}
    /\ started \in BOOLEAN /\ cancelled \in BOOLEAN
    /\ lock \in Proc \cup {Nobody} /\ queue \in Seq(Proc)
    /\ stores \in 0..Cardinality(StartCall)
    /\ fsm \in FsmPC /\ racers \in [Racer -> RacerPC] /\ winner \in Racer \cup {Nobody}
    /\ pc \in [Call -> CallPC] /\ want \in [Call -> Mission \cup {NoMission}]
    /\ \A c \in Call : lock = c <=> pc[c] \in {"opening", "undoing", "joining", "closing"}
    /\ lock = Fsm <=> fsm = "closing"

(***************************************************************************)
(* Two missions never fly at once: an FSM is created only when the one     *)
(* before it has ended with all its tasks, however Start, Stop, broken     *)
(* connections, errors and the end of the mission cross.  (This and        *)
(* StopStops follow from ServiceSpec below too, which the runs check.)     *)
(***************************************************************************)
OneMission ==
    [][fsm # "created" /\ fsm' = "created" => fsm \in FsmEnded /\ Alone]_vars

(* A state is left with all its tasks: no action of an earlier one flies on. *)
NoStrayRacer ==
    [][state' # state \/ fsm' \in FsmEnded \ {fsm} => Alone]_vars

(* "Stop the current mission" (mission_service.py:58): once a Stop is answered
   COMPLETED no FSM runs, and nothing of the runtime is left. *)
StopStops ==
    [][\A c \in StopCall :
          pc[c] # "completed" /\ pc'[c] = "completed" => fsm' \in FsmEnded /\ Alone /\ ~started']_vars

(***************************************************************************)
(* Nobody waits for himself: who is in the queue of the lock waits for it, *)
(* once, and who waits for it is in the queue, whoever was cancelled or    *)
(* has hung up meanwhile; and the FSM that a term() waits for with the     *)
(* lock in its hand is not on its way to the lock, nor in a state that     *)
(* need not end (runtime/__init__.py:95-102).                              *)
(***************************************************************************)
AtLock == {c \in Call : pc[c] \in {"lockInit", "lockTerm"}}
              \cup IF fsm = "lockTerm" THEN {Fsm} ELSE {}
NobodyStuck ==
    /\ Range(queue) = AtLock /\ IsInjective(queue)
    /\ \A c \in Call : pc[c] = "joining" => cancelled /\ fsm \in FsmEnded \cup {"leaving"}

(***************************************************************************)
(* "Runtime failed to start; cleaning up partial init" (runtime/           *)
(* __init__.py:67), "Runtime stopped cleanly" (:119): a runtime that is    *)
(* not started has no store open, one that is has exactly one.  This holds *)
(* as long as no caller has hung up: "except Exception" does not catch the *)
(* CancelledError of one that hangs up during init.                        *)
(***************************************************************************)
NobodyGone == \A c \in Call : pc[c] # "gone"

StoreMatchesRuntime ==
    lock = Nobody /\ NobodyGone => stores = IF started THEN 1 ELSE 0

(* Every RPC comes to an end: a Stop too that meets the end of the mission. *)
EveryCallEnds == \A c \in Call : pc[c] \in CallOpen ~> pc[c] \in CallEnded

----------------------------------------------------------------------------
(***************************************************************************)
(* What callers see of it (MissionControl): a mission is in the air until  *)
(* its FSM has ended with all its tasks, and a call is pending wherever it *)
(* waits.                                                                  *)
(***************************************************************************)
Flown == IF fsm \in FsmEnded /\ Alone THEN NoMission ELSE running
Place == IF Flown = NoMission THEN Terminate ELSE state
Phase(c) == IF pc[c] \in CallOpen THEN "pending" ELSE pc[c]

Control == INSTANCE MissionControl
    WITH ready <- started, flight <- Flown, place <- Place,
         phase <- [c \in Call |-> Phase(c)]
ServiceSpec == Control!Spec

----------------------------------------------------------------------------
(* What the code or its documentation says, and the code does not do. *)

(* structure.md:246, "This repeats until the mission is stopped or a done transition
   is not defined for an action that terminates": else the FSM of a started runtime runs. *)
StartedRuns == started /\ lock = Nobody => fsm \notin FsmEnded

==============================================================================
