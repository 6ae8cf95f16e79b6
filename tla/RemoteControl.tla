--------------------------- MODULE RemoteControl ---------------------------
(***************************************************************************)
(* What the Command RPC promises to a commander, without numbers, messages *)
(* and connections.  A command is sent once, to the vehicle it is for, and *)
(* passes four stations; it may be lost before the last one, but is never  *)
(* at two of them or at one for the second time, so no vehicle executes it *)
(* twice.  An RPC that is answered has the answer to its own command.      *)
(*                                                                         *)
(* All this ends when it is disturbed: a report of a vehicle is taken for  *)
(* an answer, a Swarm Controller that restarts gives the same numbers      *)
(* again.                                                                  *)
(***************************************************************************)
CONSTANTS Request, Vehicle, VehicleOf, NoAnswer

VARIABLES
    phase,      \* Request -> where its RPC is
    answer,     \* Request -> the command whose answer the RPC has returned
    going, working, coming,     \* Vehicle -> the commands at that station
    stored,     \* the commands whose answer has arrived
    disturbed

stations == <<going, working, coming, stored>>
vars == <<phase, answer, stations, disturbed>>

Init ==
    /\ phase = [r \in Request |-> "idle"]
    /\ answer = [r \in Request |-> NoAnswer]
    /\ going = [v \in Vehicle |-> {}] /\ working = going /\ coming = going
    /\ stored = {} /\ disturbed = FALSE

Moves(r, from, to) == phase[r] \in from /\ phase' = [phase EXCEPT ![r] = to]

Accept(r) == Moves(r, {"idle"}, "accepted") /\ UNCHANGED <<answer, stations>>

(* ... or lost on the spot, when the vehicle is not there. *)
Send(r) ==
    /\ Moves(r, {"accepted"}, "polling")
    /\ going' \in {going, [going EXCEPT ![VehicleOf[r]] = @ \cup {r}]}
    /\ UNCHANGED <<answer, working, coming, stored>>

Refuse(r) == Moves(r, {"accepted"}, "failed") /\ UNCHANGED <<answer, stations>>

(* The commander hangs up; the command goes on all the same. *)
HangUp(r) == Moves(r, {"accepted", "polling"}, "cancelled") /\ UNCHANGED <<answer, stations>>

Return(r) ==
    /\ r \in stored
    /\ Moves(r, {"polling"}, "answered")
    /\ answer' = [answer EXCEPT ![r] = r]
    /\ UNCHANGED stations

Leaves(station, v, r) == r \in station[v] /\ station' = [station EXCEPT ![v] = @ \ {r}]
Comes(station, v, r) == r \notin station[v] /\ station' = [station EXCEPT ![v] = @ \cup {r}]

Begin(v, r) ==
    /\ Leaves(going, v, r) /\ Comes(working, v, r)
    /\ UNCHANGED <<phase, answer, coming, stored>>

Finish(v, r) ==
    /\ Leaves(working, v, r) /\ Comes(coming, v, r)
    /\ UNCHANGED <<phase, answer, going, stored>>

Deliver(v, r) ==
    /\ Leaves(coming, v, r) /\ r \notin stored /\ stored' = stored \cup {r}
    /\ UNCHANGED <<phase, answer, going, working>>

(* The connection or the vehicle breaks, or the task of the command does. *)
Loses(station, v) == \E kept \in SUBSET station[v] : station' = [station EXCEPT ![v] = kept]
Lose(v) ==
    /\ Loses(going, v) /\ Loses(working, v) /\ Loses(coming, v)
    /\ UNCHANGED <<phase, answer, stored>>

Disturb == disturbed' = TRUE

Next ==
    \/ Disturb
    \/ /\ UNCHANGED disturbed
       /\ \/ \E r \in Request : Accept(r) \/ Send(r) \/ Refuse(r) \/ HangUp(r) \/ Return(r)
          \/ \E v \in Vehicle : \/ \E r \in Request : Begin(v, r) \/ Finish(v, r) \/ Deliver(v, r)
                                \/ Lose(v)

Spec == Init /\ [][Next]_vars

=============================================================================
