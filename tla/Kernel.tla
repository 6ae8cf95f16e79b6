------------------------------- MODULE Kernel -------------------------------
(***************************************************************************)
(* The kernel as one process: the law authority composed with the command  *)
(* handler's loop (vehicle/kernel/handlers/command_handler.py), which      *)
(* turns messages of the Swarm Controller into calls, measures how long    *)
(* the server has been silent, and triggers the DC_SERVER failsafe.        *)
(*                                                                         *)
(* The handler is one coroutine.  While it waits for get_law or for the    *)
(* failsafe it reads no message.  Every message becomes a task of its own, *)
(* so calls are made in the order of the messages but proceed freely.      *)
(***************************************************************************)
EXTENDS LawAuthority

CONSTANTS
    ServerCall,     \* the calls made for messages of the server
    Timeout,        \* internal.timeouts.server in ticks; 0 when it is not set
    Never           \* last_manual_command_ts is None

ASSUME KernelAssumption ==
    /\ ServerCall \subseteq Call /\ IsFiniteSet(ServerCall)
    /\ Timeout \in Nat /\ Never \notin Nat

VARIABLES
    inbox,      \* the command socket: messages not yet received, in order
    silence     \* ticks since last_manual_command_ts, up to Timeout, or Never

kernelVars == <<vars, inbox, silence>>

ServerCommand  == {command \in Command : command.identity = "server"}
MissionCommand == Command \ ServerCommand

Queued(c) == \E i \in DOMAIN inbox : inbox[i].call = c

KernelInit == Init /\ inbox = <<>> /\ silence = Never

(* The Swarm Controller sends a command to this vehicle. *)
ServerSends(c) ==
    /\ pc[c] = "idle" /\ ~Queued(c)
    /\ \E command \in ServerCommand :
          inbox' = Append(inbox, [call |-> c, command |-> command])
    /\ UNCHANGED <<vars, silence>>

(* A message was polled: its task is created, and the clock starts again. *)
Receive ==
    /\ pc[Handler] = "polling" /\ inbox # <<>>
    /\ Arrive(Head(inbox).call)
    /\ cmd'[Head(inbox).call] = Head(inbox).command
    /\ inbox' = Tail(inbox)
    /\ silence' = 0

(* A mission, or another vehicle, calls the kernel on its own account. *)
MissionCalls(c) ==
    /\ Arrive(c) /\ cmd'[c] \in MissionCommand
    /\ UNCHANGED <<inbox, silence>>

Tick ==
    /\ silence # Never /\ silence < Timeout
    /\ silence' = silence + 1
    /\ UNCHANGED <<vars, inbox>>

(***************************************************************************)
(* Nothing was polled, and the server has been silent for the timeout.     *)
(* The test of the law follows in ReadLaw, after an await.                 *)
(***************************************************************************)
(* Faulty variant: the comparison is strict, and the clock is not looked at again. *)
SilentTooLongStrict == Timeout > 0 /\ silence # Never /\ silence > Timeout

SilentTooLong == Timeout > 0 /\ silence # Never /\ silence >= Timeout

Expire ==
    /\ inbox = <<>> /\ SilentTooLong
    /\ TimerExpires
    /\ UNCHANGED <<inbox, silence>>

(* Faulty variant: the handler goes on measuring the same silence. *)
FinishFailsafeAgain == EndFailsafe /\ UNCHANGED <<inbox, silence>>

(* last_manual_command_ts is cleared after the failsafe, not before. *)
FinishFailsafe == EndFailsafe /\ silence' = Never /\ UNCHANGED inbox

Proceed ==
    /\ \/ \E c \in Call : CallStep(c)
       \/ \E c \in Call \ ServerCall : Cancel(c)
       \/ \E p \in Proc : Step(p)
       \/ BootSwitch \/ BootFails \/ ReadLaw \/ BeginFailsafe
    /\ UNCHANGED <<inbox, silence>>

KernelNext ==
    \/ \E c \in ServerCall : ServerSends(c)
    \/ \E c \in Call \ ServerCall : MissionCalls(c)
    \/ Receive \/ Tick \/ Expire \/ FinishFailsafe \/ Proceed

KernelSpec == KernelInit /\ [][KernelNext]_kernelVars

(* As in LawAuthority; besides, the loop polls again and again, and time passes. *)
KernelFairness ==
    /\ \A c \in Call : WF_kernelVars(CallStep(c) /\ UNCHANGED <<inbox, silence>>)
    /\ \A p \in Proc : WF_kernelVars(Step(p) /\ UNCHANGED <<inbox, silence>>)
    /\ WF_kernelVars((BootSwitch \/ BootFails \/ ReadLaw \/ BeginFailsafe)
                     /\ UNCHANGED <<inbox, silence>>)
    /\ WF_kernelVars(Receive) /\ WF_kernelVars(Expire)
    /\ WF_kernelVars(FinishFailsafe) /\ WF_kernelVars(Tick)

FairKernelSpec == KernelSpec /\ KernelFairness

----------------------------------------------------------------------------
(***************************************************************************)
(* The handler is busy with a failsafe only for a server that has spoken   *)
(* and then was silent for the whole timeout, and one silence triggers one *)
(* failsafe (failsafe_test.py:33-35 expects one Hold and no more): every   *)
(* failsafe has a message of its own before it.                            *)
(***************************************************************************)
OneFailsafePerSilence ==
    /\ pc[Handler] \in {"asking", "reading", "failsafe", "failsafing"} => SilentTooLong
    /\ triggered <= Cardinality({c \in ServerCall : pc[c] # "idle"})

(***************************************************************************)
(* A server that falls silent for good while REMOTE stays in force is      *)
(* answered by the failsafe, whatever the missions do meanwhile.           *)
(***************************************************************************)
FailsafeFires ==
    (<>[](law = Remote /\ inbox = <<>> /\ pc[Handler] # "dead")) => <>[](silence = Never)

(* Every message is received, also one that arrives during a failsafe. *)
EveryMessageReceived ==
    \A c \in ServerCall :
        Queued(c) /\ pc[Boot] = "up" ~> pc[c] # "idle" \/ pc[Handler] = "dead"

==============================================================================
