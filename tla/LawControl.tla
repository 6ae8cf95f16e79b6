----------------------------- MODULE LawControl -----------------------------
(***************************************************************************)
(* What the law authority promises to the callers of the kernel, without   *)
(* its lock, its enter commands or its failsafes.  A call is judged once,  *)
(* by the law in force at that moment; at a later moment the law in force  *)
(* says which law the call asks for; and the law changes only at the       *)
(* moment a call that asked for it starts running.  Between the moments    *)
(* of one call the law may change: the promise is no stronger than that.   *)
(***************************************************************************)
EXTENDS LawSpec

CONSTANTS Call, Command

VARIABLES
    law,    \* the law in force
    phase,  \* Call -> where the call is
    cmd,    \* Call -> the command it carries
    wish    \* Call -> the law it asks for, once admitted and matched

vars == <<law, phase, cmd, wish>>

Init ==
    /\ law = NoLaw
    /\ phase = [c \in Call |-> "idle"]
    /\ cmd = [c \in Call |-> NoLaw]
    /\ wish = [c \in Call |-> NoLaw]

(* The first law is the base law. *)
Open ==
    /\ law = NoLaw /\ law' = Base
    /\ UNCHANGED <<phase, cmd, wish>>

(* A call of the authority itself runs unjudged, one without a name is denied. *)
Arrive(c) ==
    /\ phase[c] = "idle"
    /\ \E command \in Command :
          /\ cmd' = [cmd EXCEPT ![c] = command]
          /\ phase' = [phase EXCEPT ![c] = CASE command.identity = "" -> "closed"
                                             [] command.identity = "authority" -> "running"
                                             [] OTHER -> "pending"]
    /\ UNCHANGED <<law, wish>>

Admit(c) ==
    /\ phase[c] = "pending" /\ law # NoLaw /\ Allows(law, cmd[c])
    /\ phase' = [phase EXCEPT ![c] = "admitted"]
    /\ UNCHANGED <<law, cmd, wish>>

(* The call runs at once when it asks for no law or for the one in force. *)
RunUnder(c) ==
    /\ phase[c] = "admitted" /\ NextLaw(law, cmd[c]) \in {NoLaw, law}
    /\ phase' = [phase EXCEPT ![c] = "running"]
    /\ UNCHANGED <<law, cmd, wish>>

Ask(c) ==
    /\ phase[c] = "admitted" /\ NextLaw(law, cmd[c]) \notin {NoLaw, law}
    /\ wish' = [wish EXCEPT ![c] = NextLaw(law, cmd[c])]
    /\ phase' = [phase EXCEPT ![c] = "asking"]
    /\ UNCHANGED <<law, cmd>>

(* The law it asked for is refused only if that law could not be entered. *)
RunAsked(c) ==
    /\ phase[c] = "asking"
    /\ phase' = [phase EXCEPT ![c] = "running"]
    /\ law' = Resolve(wish[c]) \/ (law' = law /\ LawFile[Resolve(wish[c])].enter # <<>>)
    /\ UNCHANGED <<cmd, wish>>

(* Denied, answered, failed or given up; only a pending call can be denied. *)
Close(c) ==
    /\ phase[c] \notin {"idle", "closed"}
    /\ phase' = [phase EXCEPT ![c] = "closed"]
    /\ UNCHANGED <<law, cmd, wish>>

Next ==
    \/ Open
    \/ \E c \in Call : Arrive(c) \/ Admit(c) \/ RunUnder(c) \/ Ask(c) \/ RunAsked(c) \/ Close(c)

Spec == Init /\ [][Next]_vars

==============================================================================
