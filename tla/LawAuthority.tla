---------------------------- MODULE LawAuthority ----------------------------
(***************************************************************************)
(* The kernel's law authority (vehicle/kernel/laws/authority.py) with the  *)
(* gRPC interceptor that consults it on every call (laws/interceptor.py),  *)
(* the start-up of the kernel (kernel/main.py) and the command handler's   *)
(* use of the authority (handlers/command_handler.py): all of them are     *)
(* coroutines of one asyncio loop, and an action below is what one         *)
(* coroutine does between two points where it may lose control.            *)
(***************************************************************************)
EXTENDS LawSpec, WaitQueue, FiniteSets

CONSTANTS
    Call,           \* gRPC calls that reach the kernel; each is made once
    Command,        \* the commands those calls carry
    Boot, Handler,  \* the start-up coroutine and the command handler's loop
    Nobody,         \* the lock has no writer
    MaxInFlight,    \* bound: calls in progress at once
    MaxFailsafes    \* bound: failsafes the handler triggers

Proc == Call \cup {Boot, Handler}

ASSUME ProcAssumption ==
    /\ Boot \notin Call /\ Handler \notin Call /\ Boot # Handler /\ Nobody \notin Proc
    /\ MaxInFlight \in Nat /\ MaxFailsafes \in Nat
    /\ NoLaw \notin Command

VARIABLES
    law,        \* LawAuthority._state; _law is always _spec[_state]
    failsafes,  \* _spec[l]['failsafes']['dc_server'], which failsafe() changes in place
    readers,    \* aiorwlock: the coroutines inside the reader lock
    writer,     \* the coroutine inside the writer lock
    queue,      \* the coroutines waiting for the writer lock, in order
    pc,         \* where each coroutine is
    cmd,        \* the command each call carries
    target,     \* the law each coroutine in set_law is switching to
    todo,       \* commands _send_commands has still to send
    sent,       \* commands sent since the list was started
    ok,         \* every response to them so far was COMPLETED
    triggered   \* failsafes triggered so far

lockVars == <<readers, writer, queue>>
sendVars == <<todo, sent, ok>>
lawVars  == <<law, failsafes>>
vars == <<lockVars, sendVars, lawVars, pc, cmd, target, triggered>>

----------------------------------------------------------------------------
(* Where a coroutine can be. *)

WaitsToRead == {"allows", "match", "asking"}
Reads       == {"checking", "matching", "reading"}
Writes      == {"entering", "failsafing"}
Open  == {"allows", "checking", "match", "matching", "switch", "entering", "running"}
Ended == {"answered", "denied", "failed", "cancelled"}

CallPC    == {"idle"} \cup Open \cup Ended
BootPC    == {"startup", "switch", "entering", "up", "down"}
HandlerPC == {"off", "polling", "asking", "reading", "failsafe", "failsafing", "dead"}

InFlight == {c \in Call : pc[c] \in Open}

(* The class of a kernel-bound command that the interceptor tells apart. *)
FromAuthority(command) == command.identity = "authority"
Unidentified(command)  == command.identity = ""

----------------------------------------------------------------------------
Init ==
    /\ law = NoLaw
    /\ failsafes = [l \in Law |-> LawFile[l].failsafe]
    /\ readers = {} /\ writer = Nobody /\ queue = <<>>
    /\ pc = [p \in Proc |-> IF p = Boot THEN "startup"
                            ELSE IF p = Handler THEN "off" ELSE "idle"]
    /\ cmd = [c \in Call |-> NoLaw]
    /\ target = [p \in Proc |-> NoLaw]
    /\ todo = Startup /\ sent = <<>> /\ ok = TRUE
    /\ triggered = 0

Goto(p, place) == pc' = [pc EXCEPT ![p] = place]

(* A coroutine enters set_law: it queues for the writer lock. *)
AskSwitch(p, name) ==
    /\ target' = [target EXCEPT ![p] = name]
    /\ queue' = Append(queue, p)
    /\ Goto(p, "switch")

----------------------------------------------------------------------------
(* The reader-writer lock: writers first, in the order they asked. *)

AcquireRead(p) ==
    /\ pc[p] \in WaitsToRead
    /\ writer = Nobody /\ queue = <<>>
    /\ readers' = readers \cup {p}
    /\ Goto(p, CASE pc[p] = "allows" -> "checking"
                 [] pc[p] = "match"  -> "matching"
                 [] pc[p] = "asking" -> "reading")
    /\ UNCHANGED <<writer, queue, sendVars, lawVars, cmd, target, triggered>>

GrantedWrite(p) ==
    /\ queue # <<>> /\ p = Head(queue)
    /\ readers = {} /\ writer = Nobody
    /\ writer' = p /\ queue' = Tail(queue)
    /\ UNCHANGED readers

StartList(commands) == todo' = commands /\ sent' = <<>> /\ ok' = TRUE

----------------------------------------------------------------------------
(* A call through the interceptor. *)

Arrive(c) ==
    /\ pc[c] = "idle" /\ pc[Boot] # "down"
    /\ Cardinality(InFlight) < MaxInFlight
    /\ \E command \in Command :
          /\ cmd' = [cmd EXCEPT ![c] = command]
          /\ Goto(c, IF Unidentified(command) THEN "denied"
                     ELSE IF FromAuthority(command) THEN "running" ELSE "allows")
    /\ UNCHANGED <<lockVars, sendVars, lawVars, target, triggered>>

(* allows() under the reader lock; self._law is None until the first set_law. *)
AllowsRaises(c) ==
    /\ pc[c] = "checking" /\ law = NoLaw
    /\ readers' = readers \ {c}
    /\ Goto(c, "failed")
    /\ UNCHANGED <<writer, queue, sendVars, lawVars, cmd, target, triggered>>

CheckAllows(c) ==
    /\ pc[c] = "checking" /\ law # NoLaw
    /\ readers' = readers \ {c}
    /\ Goto(c, IF Allows(law, cmd[c]) THEN "match" ELSE "denied")
    /\ UNCHANGED <<writer, queue, sendVars, lawVars, cmd, target, triggered>>

(***************************************************************************)
(* match() under the reader lock, with what follows it up to the next      *)
(* await: the comparison with self._state outside the lock, and set_law's  *)
(* own.  A call that needs no switch goes on to the service at once.       *)
(***************************************************************************)
(* Faulty variant: only the rules of the law in force decide. *)
NeedsSwitchOwn(c) == FirstHit(law, cmd[c]) \notin {NoLaw, law}

NeedsSwitch(c) == NextLaw(law, cmd[c]) \notin {NoLaw, law}

KeepLaw(c) ==
    /\ pc[c] = "matching" /\ ~NeedsSwitch(c)
    /\ readers' = readers \ {c}
    /\ Goto(c, "running")
    /\ UNCHANGED <<writer, queue, sendVars, lawVars, cmd, target, triggered>>

RequestSwitch(c) ==
    /\ pc[c] = "matching" /\ NeedsSwitch(c)
    /\ readers' = readers \ {c}
    /\ AskSwitch(c, NextLaw(law, cmd[c]))
    /\ UNCHANGED <<writer, sendVars, lawVars, cmd, triggered>>

(* The service answers the forwarded call. *)
Answer(c) ==
    /\ pc[c] = "running"
    /\ Goto(c, "answered")
    /\ UNCHANGED <<lockVars, sendVars, lawVars, cmd, target, triggered>>

(* Faulty variant: whoever gives up stays in the queue of the lock. *)
CancelStays(c) ==
    /\ pc[c] \in Open /\ cmd[c].identity # "server"
    /\ readers' = readers \ {c}
    /\ writer' = IF writer = c THEN Nobody ELSE writer
    /\ todo' = IF writer = c THEN <<>> ELSE todo
    /\ Goto(c, "cancelled")
    /\ UNCHANGED <<queue, sent, ok, lawVars, cmd, target, triggered>>

(***************************************************************************)
(* The caller gives up: gRPC cancels the coroutine where it waits, and the *)
(* async with blocks release what it holds.  Only the command handler      *)
(* calls as "server", and it never cancels.                                *)
(***************************************************************************)
Cancel(c) ==
    /\ pc[c] \in Open /\ cmd[c].identity # "server"
    /\ readers' = readers \ {c}
    /\ writer' = IF writer = c THEN Nobody ELSE writer
    /\ queue' = Without(queue, c)
    /\ todo' = IF writer = c THEN <<>> ELSE todo
    /\ Goto(c, "cancelled")
    /\ UNCHANGED <<sent, ok, lawVars, cmd, target, triggered>>

----------------------------------------------------------------------------
(* set_law, inside the writer lock. *)

EnterLaw(p) ==
    /\ pc[p] = "switch" /\ GrantedWrite(p)
    /\ StartList(LawFile[Resolve(target[p])].enter)
    /\ Goto(p, "entering")
    /\ UNCHANGED <<lawVars, cmd, target, triggered>>

(***************************************************************************)
(* _send_commands: one command after the other, whatever the responses.    *)
(* An RPC error and an unknown command become responses that are not       *)
(* COMPLETED.  Anything else raises and ends the whole list: a name        *)
(* without a '.' always does, and any command may, for its arguments or    *)
(* for a stream that ends without a response.                              *)
(***************************************************************************)
Sends(p) == pc[p] \in Writes \cup {"startup"}

SendCommand(p) ==
    /\ Sends(p) /\ todo # <<>> /\ Head(todo) \notin Malformed
    /\ todo' = Tail(todo)
    /\ sent' = Append(sent, Head(todo))
    /\ \E completed \in BOOLEAN : ok' = (ok /\ completed)
    /\ UNCHANGED <<lockVars, lawVars, pc, cmd, target, triggered>>

(* The exception leaves set_law, failsafe or start, and its caller with it. *)
SendRaises(p) ==
    /\ Sends(p) /\ todo # <<>>
    /\ todo' = <<>>
    /\ writer' = IF writer = p THEN Nobody ELSE writer
    /\ Goto(p, IF p = Boot THEN "down" ELSE IF p = Handler THEN "dead" ELSE "failed")
    /\ UNCHANGED <<readers, queue, sent, ok, lawVars, cmd, target, triggered>>

(* Faulty variant: every switch resumes as the start-up does. *)
AfterSwitchUniform(p) == [pc EXCEPT ![p] = "up", ![Handler] = "polling"]

(* Where a switch leads: the call is forwarded, the kernel opens for business. *)
AfterSwitch(p) ==
    IF p = Boot THEN [pc EXCEPT ![Boot] = "up", ![Handler] = "polling"]
    ELSE [pc EXCEPT ![p] = "running"]

(* Faulty variant: the responses to the enter commands are not looked at. *)
CommitLawAnyway(p) ==
    /\ pc[p] = "entering" /\ todo = <<>>
    /\ law' = Resolve(target[p])
    /\ writer' = Nobody
    /\ pc' = AfterSwitch(p)
    /\ UNCHANGED <<readers, queue, sendVars, failsafes, cmd, target, triggered>>

CommitLaw(p) ==
    /\ pc[p] = "entering" /\ todo = <<>> /\ ok
    /\ law' = Resolve(target[p])
    /\ writer' = Nobody
    /\ pc' = AfterSwitch(p)
    /\ UNCHANGED <<readers, queue, sendVars, failsafes, cmd, target, triggered>>

(* Faulty variants: start() ignores the result too; the lock is not released. *)
AbandonSwitchUp(p) ==
    /\ pc[p] = "entering" /\ todo = <<>> /\ ~ok
    /\ writer' = Nobody
    /\ pc' = AfterSwitch(p)
    /\ UNCHANGED <<readers, queue, sendVars, lawVars, cmd, target, triggered>>

AbandonSwitchHolding(p) ==
    /\ pc[p] = "entering" /\ todo = <<>> /\ ~ok
    /\ Goto(p, IF p = Boot THEN "down" ELSE "running")
    /\ UNCHANGED <<lockVars, sendVars, lawVars, cmd, target, triggered>>

(* set_law returns False: match ignores it, start does not. *)
AbandonSwitch(p) ==
    /\ pc[p] = "entering" /\ todo = <<>> /\ ~ok
    /\ writer' = Nobody
    /\ Goto(p, IF p = Boot THEN "down" ELSE "running")
    /\ UNCHANGED <<readers, queue, sendVars, lawVars, cmd, target, triggered>>

----------------------------------------------------------------------------
(* LawAuthority.start, awaited by kernel/main.py after the server started. *)

BootSwitch ==
    /\ pc[Boot] = "startup" /\ todo = <<>> /\ ok
    /\ AskSwitch(Boot, Base)
    /\ UNCHANGED <<readers, writer, sendVars, lawVars, cmd, triggered>>

BootFails ==
    /\ pc[Boot] = "startup" /\ todo = <<>> /\ ~ok
    /\ Goto(Boot, "down")
    /\ UNCHANGED <<lockVars, sendVars, lawVars, cmd, target, triggered>>

----------------------------------------------------------------------------
(* The handler's failsafe.  When its timer may expire is CommandHandler's  *)
(* business; here it may at any poll.                                      *)

TimerExpires ==
    /\ pc[Handler] = "polling" /\ triggered < MaxFailsafes
    /\ Goto(Handler, "asking")
    /\ UNCHANGED <<lockVars, sendVars, lawVars, cmd, target, triggered>>

(* get_law() under the reader lock, then the test for 'REMOTE'. *)
ReadLaw ==
    /\ pc[Handler] = "reading"
    /\ readers' = readers \ {Handler}
    /\ IF law = Remote
          THEN /\ Goto(Handler, "failsafe")
               /\ queue' = Append(queue, Handler)
               /\ triggered' = triggered + 1
          ELSE Goto(Handler, "polling") /\ UNCHANGED <<queue, triggered>>
    /\ UNCHANGED <<writer, sendVars, lawVars, cmd, target>>

(* Faulty variant: failsafe() does not take the lock. *)
BeginFailsafeUnlocked ==
    /\ pc[Handler] = "failsafe"
    /\ queue' = Without(queue, Handler)
    /\ StartList(failsafes[law] \o failsafes[Base])
    /\ Goto(Handler, "failsafing")
    /\ UNCHANGED <<readers, writer, lawVars, cmd, target, triggered>>

(***************************************************************************)
(* failsafe() inside the writer lock.  When the law in force has a list of *)
(* its own, "commands +=" appends the base's commands to that very list.   *)
(***************************************************************************)
BeginFailsafe ==
    /\ pc[Handler] = "failsafe" /\ GrantedWrite(Handler)
    /\ StartList(failsafes[law] \o failsafes[Base])
    /\ failsafes' = IF failsafes[law] = <<>> THEN failsafes
                    ELSE [failsafes EXCEPT ![law] = @ \o failsafes[Base]]
    /\ Goto(Handler, "failsafing")
    /\ UNCHANGED <<law, cmd, target, triggered>>

(* The result is dropped; the handler forgets when it last heard a command. *)
EndFailsafe ==
    /\ pc[Handler] = "failsafing" /\ todo = <<>>
    /\ writer' = Nobody
    /\ Goto(Handler, "polling")
    /\ UNCHANGED <<readers, queue, sendVars, lawVars, cmd, target, triggered>>

----------------------------------------------------------------------------
CallStep(c) ==
    \/ AllowsRaises(c) \/ CheckAllows(c) \/ KeepLaw(c) \/ RequestSwitch(c) \/ Answer(c)

Step(p) ==
    \/ AcquireRead(p) \/ EnterLaw(p) \/ SendCommand(p) \/ SendRaises(p)
    \/ CommitLaw(p) \/ AbandonSwitch(p)

OwnStep == BootSwitch \/ BootFails \/ ReadLaw \/ BeginFailsafe \/ EndFailsafe

Next ==
    \/ \E c \in Call : Arrive(c) \/ CallStep(c) \/ Cancel(c)
    \/ \E p \in Proc : Step(p)
    \/ OwnStep \/ TimerExpires

(***************************************************************************)
(* The event loop runs every coroutine that can run, the lock is handed on *)
(* in order, and a service answers what it is sent.  Nothing forces a call *)
(* to be made or cancelled, or the server to fall silent.                  *)
(***************************************************************************)
Fairness ==
    /\ \A c \in Call : WF_vars(CallStep(c))
    /\ \A p \in Proc : WF_vars(Step(p))
    /\ WF_vars(OwnStep)

Spec == Init /\ [][Next]_vars
FairSpec == Spec /\ Fairness

----------------------------------------------------------------------------
(* Every variable has its type: the state space above is all there is. *)
TypeOK ==
    /\ law \in Law \cup {NoLaw}
    /\ failsafes \in [Law -> Seq(KernelCommand)]
    /\ readers \subseteq Proc /\ writer \in Proc \cup {Nobody} /\ queue \in Seq(Proc)
    /\ pc \in [Proc -> CallPC \cup BootPC \cup HandlerPC]
    /\ \A c \in Call : pc[c] \in CallPC
    /\ pc[Boot] \in BootPC /\ pc[Handler] \in HandlerPC
    /\ cmd \in [Call -> Command \cup {NoLaw}]
    /\ target \in [Proc -> LawName \cup {NoLaw}]
    /\ todo \in Seq(KernelCommand) /\ sent \in Seq(KernelCommand) /\ ok \in BOOLEAN
    /\ triggered \in 0..MaxFailsafes

(***************************************************************************)
(* A coroutine is inside a lock exactly while it executes the body of an   *)
(* async with block, on every path out of it: return, exception, cancel.   *)
(* A writer excludes readers and other writers, so two coroutines never    *)
(* send enter or failsafe commands at the same time.                       *)
(***************************************************************************)
LockHeld ==
    /\ \A p \in Proc : p \in readers <=> pc[p] \in Reads
    /\ \A p \in Proc : writer = p <=> pc[p] \in Writes
    /\ writer # Nobody => readers = {}
    /\ \A p, q \in Proc : Sends(p) /\ Sends(q) => p = q

(***************************************************************************)
(* ... and nobody is forgotten: the lock is handed to those who wait for   *)
(* it, each of whom asked once, and to nobody who has given up.  A ghost   *)
(* at the head of the queue would shut out all readers, for a writer that  *)
(* waits goes before them.                                                 *)
(***************************************************************************)
ToWrite == {p \in Proc : pc[p] \in {"switch", "failsafe"}}
QueueKept == Range(queue) = ToWrite /\ IsInjective(queue)

LockSafe == LockHeld /\ QueueKept

(***************************************************************************)
(* The failsafe is undisturbed: from its first command to its last the law *)
(* stays what it was and no call is judged, matched or let through to a    *)
(* service (a call already running is not stopped).                        *)
(***************************************************************************)
FailsafeUndisturbedStep ==
    pc[Handler] = "failsafing" =>
        /\ law' = law
        /\ \A c \in Call : pc'[c] # pc[c] =>
              pc[c] \in {"idle", "running"} \/ pc'[c] = "cancelled"
FailsafeUndisturbed == [][FailsafeUndisturbedStep]_vars

(***************************************************************************)
(* The law changes only after its enter commands were all sent and all     *)
(* COMPLETED, by the one coroutine that holds the lock, and with nobody in *)
(* the middle of judging or matching a call by the old law.                *)
(***************************************************************************)
SwitchEarnedStep ==
    law' # law =>
        /\ law' \in Law /\ sent = LawFile[law'].enter /\ ok
        /\ readers = {}
        /\ \E p \in Proc : writer = p /\ pc[p] = "entering" /\ Resolve(target[p]) = law'
SwitchEarned == [][SwitchEarnedStep]_vars

(***************************************************************************)
(* A command the base law allows is never denied, whatever law the other   *)
(* callers have brought into force meanwhile: the operator is never shut   *)
(* out by a mission.                                                       *)
(***************************************************************************)
OperatorNeverDenied ==
    \A c \in Call :
        pc[c] = "denied" => Unidentified(cmd[c]) \/ ~AllowedBy(Base, cmd[c])

(***************************************************************************)
(* The server listens before the first law is in force, but no judged call *)
(* gets through, and remote input is not read, until one is; from then on  *)
(* there always is one.                                                    *)
(***************************************************************************)
KernelOpensWithLaw ==
    /\ \A c \in Call :
          /\ pc[c] \in {"match", "matching", "switch", "entering"} => law # NoLaw
          /\ pc[c] \in {"running", "answered"} => law # NoLaw \/ FromAuthority(cmd[c])
    /\ pc[Boot] = "up" <=> law # NoLaw
    /\ pc[Handler] # "off" => law # NoLaw

(* Every call that reached the interceptor comes to an end. *)
EveryCallEnds == \A c \in Call : pc[c] \in Open ~> pc[c] \in Ended

(***************************************************************************)
(* The authority as its callers see it implements LawControl.              *)
(***************************************************************************)
Phase(place) ==
    CASE place = "idle" -> "idle"
      [] place \in {"allows", "checking"} -> "pending"
      [] place \in {"match", "matching"} -> "admitted"
      [] place \in {"switch", "entering"} -> "asking"
      [] place = "running" -> "running"
      [] place \in Ended -> "closed"

Control == INSTANCE LawControl
    WITH phase <- [c \in Call |-> Phase(pc[c])],
         wish  <- [c \in Call |-> target[c]]
ControlSpec == Control!Spec

----------------------------------------------------------------------------
(* What the documentation says, and the code does not do. *)

(* .laws.toml:12-13, "the base failsafe conditions which will be run after
   any law-specific failsafes": the law's own list, then the base's. *)
FailsafeAsWritten ==
    pc[Handler] = "failsafing" =>
        sent \o todo = LawFile[law].failsafe \o LawFile[Base].failsafe

==============================================================================
