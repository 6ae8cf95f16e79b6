------------------------- MODULE RemoteCommandProofs -------------------------
(***************************************************************************)
(* Proofs about RemoteCommand, for any number of commands and vehicles and *)
(* any number of broken connections and restarts of vehicles, up to the    *)
(* first report and the first restart of the Swarm Controller: after       *)
(* either, CorrectAnswer is false (RemoteReport).  The last section shows  *)
(* that RemoteCommand implements RemoteControl.                            *)
(***************************************************************************)
EXTENDS RemoteCommand, TLAPS

----------------------------------------------------------------------------
(***************************************************************************)
(* The inductive invariant: wherever a number is next to a command, in a   *)
(* queue, a task, a response or the map, it is the number that command was *)
(* sent with; and no two commands were sent with the same one.             *)
(***************************************************************************)
Numbered ==
    /\ sequenceNumber \in Nat
    /\ number \in [Request -> Nat \cup {Unsent}]
    /\ \A r \in Request : number[r] # Unsent => number[r] < sequenceNumber
    /\ \A r, q \in Request : number[r] = number[q] /\ number[r] # Unsent => r = q

Phases ==
    /\ rpc \in [Request -> {"idle"} \cup Open \cup Closed]
    /\ answer \in [Request -> Answer \cup {NoAnswer}]
    /\ \A r \in Request : rpc[r] \in {"idle", "accepted"} => number[r] = Unsent
    /\ \A r \in Request : rpc[r] = "polling" => number[r] # Unsent

TrueCall(m, numbers)   == m \in Called /\ m.number = numbers[m.request]
TrueAnswer(m, numbers) == /\ m \in Answered /\ m.answer \in Request
                          /\ m.number = numbers[m.answer]

Channels ==
    /\ toVehicle \in [Vehicle -> Seq(Called)] /\ toServer \in [Vehicle -> Seq(Answered)]
    /\ tasks \in [Vehicle -> SUBSET Called]
    /\ \A v \in Vehicle : \A i \in 1..Len(toVehicle[v]) : TrueCall(toVehicle[v][i], number)
    /\ \A v \in Vehicle : \A t \in tasks[v] : TrueCall(t, number)
    /\ \A v \in Vehicle : \A i \in 1..Len(toServer[v]) : TrueAnswer(toServer[v][i], number)

Stored ==
    \A n \in DOMAIN responseMap :
        n \in Nat /\ TrueAnswer([number |-> n, answer |-> responseMap[n]], number)

IInv == Undisturbed /\ Numbered /\ Phases /\ Channels /\ Stored /\ CorrectAnswer

----------------------------------------------------------------------------
(* Numbers once given stay: a true message stays true while numbers are only added. *)
NumbersStay == \A r \in Request : number[r] # Unsent => number'[r] = number[r]

LEMMA StaysTrue ==
    ASSUME NumbersStay
    PROVE  /\ \A m : TrueCall(m, number) => TrueCall(m, number')
           /\ \A m : TrueAnswer(m, number) => TrueAnswer(m, number')
  BY RemoteAssumption DEF NumbersStay, TrueCall, TrueAnswer, Called, Answered, Answer

(* What survives a broken connection are entries of the queue. *)
LEMMA SurvivingEntries ==
    ASSUME NEW S, NEW s \in Seq(S), NEW t \in Prefixes(s) \cup Suffixes(s)
    PROVE  /\ t \in Seq(S)
           /\ \A i \in 1..Len(t) : \E j \in 1..Len(s) : t[i] = s[j]
  <1>1. CASE t \in Prefixes(s)
    BY <1>1 DEF Prefixes
  <1>2. CASE t = <<>>
    BY <1>2
  <1>3. CASE \E l \in 1..Len(s) : t = SubSeq(s, l, Len(s))
    <2>1. PICK l \in 1..Len(s) : t = SubSeq(s, l, Len(s))
      BY <1>3
    <2>2. t \in Seq(S) /\ Len(t) = Len(s) - l + 1
      BY <2>1
    <2>3. \A i \in 1..Len(t) : t[i] = s[l + i - 1] /\ l + i - 1 \in 1..Len(s)
      BY <2>1, <2>2
    <2>4. QED
      BY <2>2, <2>3
  <1>4. QED
    BY <1>1, <1>2, <1>3 DEF Suffixes

----------------------------------------------------------------------------
LEMMA InitIInv == Init => IInv
  <1> SUFFICES ASSUME Init PROVE IInv
    OBVIOUS
  <1>1. Undisturbed /\ Numbered /\ Phases /\ CorrectAnswer
    BY RemoteAssumption DEF Init, Undisturbed, Numbered, Phases, CorrectAnswer
  <1>2. Channels
    BY DEF Init, Channels
  <1>3. Stored
    BY DEF Init, Stored
  <1>4. QED
    BY <1>1, <1>2, <1>3 DEF IInv

(* A step of an RPC that sends nothing: the numbers, the queues and the map stay. *)
LEMMA NetUnchanged ==
    ASSUME Channels, Stored, UNCHANGED <<number, netVars, responseMap>>
    PROVE  Channels' /\ Stored'
  BY DEF Channels, Stored, netVars, TrueCall, TrueAnswer

LEMMA CommandIInv ==
    ASSUME IInv, NEW r \in Request, Command(r)
    PROVE  IInv'
  <1> USE DEF IInv
  <1>1. Undisturbed' /\ Numbered'
    BY DEF Undisturbed, Numbered, Command, countVars
  <1>2. Phases' /\ CorrectAnswer'
    BY DEF Phases, CorrectAnswer, Command, Open, Closed
  <1>3. Channels' /\ Stored'
    BY NetUnchanged DEF Command
  <1>4. QED
    BY <1>1, <1>2, <1>3

(* The one step that gives a number gives one above all the others. *)
LEMMA DispatchIInv ==
    ASSUME IInv, NEW r \in Request, Dispatch(r)
    PROVE  IInv'
  <1> DEFINE v == VehicleOf[r]
             m == [number |-> sequenceNumber, request |-> r]
  <1> USE DEF IInv
  <1>0. v \in Vehicle /\ m \in Called /\ number[r] = Unsent /\ sequenceNumber \in Nat
    BY RemoteAssumption DEF Called, Numbered, Phases, Dispatch
  <1>1. Undisturbed' /\ Numbered'
    BY <1>0, RemoteAssumption DEF Undisturbed, Numbered, Dispatch, countVars
  <1>2. Phases' /\ CorrectAnswer'
    BY <1>0, RemoteAssumption DEF Phases, Numbered, CorrectAnswer, Dispatch, Open, Closed
  <1>3. NumbersStay
    BY <1>0 DEF NumbersStay, Numbered, Dispatch
  <1>4. TrueCall(m, number')
    BY <1>0 DEF TrueCall, Numbered, Dispatch
  <1>5. toVehicle' \in [Vehicle -> Seq(Called)]
    BY <1>0 DEF Channels, Dispatch
  <1>6. \A w \in Vehicle : \A i \in 1..Len(toVehicle'[w]) :
           toVehicle'[w][i] = m \/ \E j \in 1..Len(toVehicle[w]) : toVehicle'[w][i] = toVehicle[w][j]
    BY <1>0 DEF Channels, Dispatch
  <1>7. \A w \in Vehicle : \A i \in 1..Len(toVehicle'[w]) : TrueCall(toVehicle'[w][i], number')
    BY <1>3, <1>4, <1>6, StaysTrue DEF Channels
  <1>8. Channels'
    BY <1>3, <1>5, <1>7, StaysTrue DEF Channels, Dispatch
  <1>9. Stored'
    BY <1>3, StaysTrue DEF Stored, Dispatch
  <1>10. QED
    BY <1>1, <1>2, <1>8, <1>9

LEMMA RpcEndsIInv ==
    ASSUME IInv, NEW r \in Request, DispatchFails(r) \/ Cancel(r)
    PROVE  IInv'
  <1> USE DEF IInv
  <1>1. Undisturbed' /\ Numbered'
    BY DEF Undisturbed, Numbered, DispatchFails, Cancel, countVars
  <1>2. Phases' /\ CorrectAnswer'
    BY DEF Phases, CorrectAnswer, DispatchFails, Cancel, Open, Closed
  <1>3. Channels' /\ Stored'
    BY NetUnchanged DEF DispatchFails, Cancel
  <1>4. QED
    BY <1>1, <1>2, <1>3

(* What is found under the number of a request is the answer to that request. *)
LEMMA PollIInv ==
    ASSUME IInv, NEW r \in Request, Poll(r)
    PROVE  IInv'
  <1> DEFINE a == responseMap[number[r]]
  <1> USE DEF IInv
  <1>1. number[r] # Unsent /\ number[r] \in DOMAIN responseMap
    BY DEF Poll, Phases
  <1>2. a \in Request /\ number[a] = number[r]
    BY <1>1 DEF Stored, TrueAnswer
  <1>3. a = r
    BY <1>1, <1>2 DEF Numbered
  <1>4. Undisturbed' /\ Numbered'
    BY DEF Undisturbed, Numbered, Poll, countVars
  <1>5. Phases'
    BY <1>1, <1>3 DEF Phases, Poll, Open, Closed, Answer
  <1>6. CorrectAnswer'
    BY <1>3 DEF CorrectAnswer, Phases, Poll
  <1>7. Channels' /\ Stored'
    BY NetUnchanged DEF Poll
  <1>8. QED
    BY <1>4, <1>5, <1>6, <1>7

(* A step that leaves the RPCs and their numbers alone keeps all that is about them. *)
LEMMA RpcUnchanged ==
    ASSUME IInv, UNCHANGED <<sequenceNumber, number, rpc, answer>>
    PROVE  Numbered' /\ Phases' /\ CorrectAnswer' /\ NumbersStay
  BY DEF IInv, Numbered, Phases, CorrectAnswer, NumbersStay

LEMMA ListenIInv ==
    ASSUME IInv, NEW v \in Vehicle, Listen(v)
    PROVE  IInv'
  <1> DEFINE m == Head(toServer[v])
  <1> USE DEF IInv
  <1>1. TrueAnswer(m, number) /\ toServer[v] \in Seq(Answered) /\ toServer[v] # <<>>
    BY DEF Channels, Listen
  <1>2. m.number \in Nat /\ m = [number |-> m.number, answer |-> m.answer]
    BY <1>1 DEF TrueAnswer, Answered
  <1>3. Numbered' /\ Phases' /\ CorrectAnswer' /\ Undisturbed'
    BY RpcUnchanged DEF Listen, Undisturbed, countVars
  <1>4. Stored'
    <2> SUFFICES ASSUME NEW n \in (DOMAIN responseMap)'
                 PROVE  n \in Nat /\ TrueAnswer([number |-> n, answer |-> responseMap'[n]], number')
      BY DEF Stored
    <2>1. CASE n = m.number
      BY <2>1, <1>1, <1>2 DEF Listen, TrueAnswer
    <2>2. CASE n # m.number
      BY <2>2 DEF Listen, Stored, TrueAnswer
    <2>3. QED
      BY <2>1, <2>2
  <1>5. Tail(toServer[v]) \in Seq(Answered)
        /\ \A i \in 1..Len(Tail(toServer[v])) :
              i + 1 \in 1..Len(toServer[v]) /\ Tail(toServer[v])[i] = toServer[v][i + 1]
    BY <1>1
  <1>6. Channels'
    BY <1>5 DEF Channels, Listen, TrueCall, TrueAnswer
  <1>7. QED
    BY <1>3, <1>4, <1>6

LEMMA HandleIInv ==
    ASSUME IInv, NEW v \in Vehicle, Handle(v)
    PROVE  IInv'
  <1> DEFINE m == Head(toVehicle[v])
  <1> USE DEF IInv
  <1>1. TrueCall(m, number) /\ toVehicle[v] \in Seq(Called) /\ toVehicle[v] # <<>>
    BY DEF Channels, Handle
  <1>2. Numbered' /\ Phases' /\ CorrectAnswer' /\ Undisturbed' /\ Stored'
    BY RpcUnchanged DEF Handle, Undisturbed, Stored, TrueAnswer, serverVars, countVars
  <1>3. Tail(toVehicle[v]) \in Seq(Called)
        /\ \A i \in 1..Len(Tail(toVehicle[v])) :
              i + 1 \in 1..Len(toVehicle[v]) /\ Tail(toVehicle[v])[i] = toVehicle[v][i + 1]
    BY <1>1
  <1>4. m \in Called
    BY <1>1 DEF TrueCall
  <1>5. Channels'
    BY <1>1, <1>3, <1>4 DEF Channels, Handle, TrueCall, TrueAnswer, serverVars
  <1>6. QED
    BY <1>2, <1>5

LEMMA TaskIInv ==
    ASSUME IInv, NEW v \in Vehicle, NEW t \in tasks[v], SendResult(v, t) \/ TaskRaises(v, t)
    PROVE  IInv'
  <1> DEFINE m == [number |-> t.number, answer |-> t.request]
  <1> USE DEF IInv
  <1>1. Numbered' /\ Phases' /\ CorrectAnswer' /\ Undisturbed' /\ Stored'
    BY RpcUnchanged DEF SendResult, TaskRaises, Undisturbed, Stored, TrueAnswer, serverVars, countVars
  <1>2. TrueAnswer(m, number)
    BY DEF Channels, TrueCall, TrueAnswer, Called, Answered, Answer
  <1>3. tasks' \in [Vehicle -> SUBSET Called]
        /\ \A w \in Vehicle : tasks'[w] \subseteq tasks[w]
    BY DEF Channels, SendResult, TaskRaises
  <1>4. m \in Answered /\ number' = number /\ toVehicle' = toVehicle
    BY <1>2 DEF TrueAnswer, SendResult, TaskRaises, serverVars
  <1>5. toServer' = toServer \/ toServer' = [toServer EXCEPT ![v] = Append(@, m)]
    BY DEF SendResult, TaskRaises
  <1> HIDE DEF m
  <1>6. /\ toServer' \in [Vehicle -> Seq(Answered)]
        /\ \A w \in Vehicle : \A i \in 1..Len(toServer'[w]) : TrueAnswer(toServer'[w][i], number)
    <2>1. CASE toServer' = toServer
      BY <2>1 DEF Channels
    <2>2. CASE toServer' = [toServer EXCEPT ![v] = Append(@, m)]
      <3>1. toServer' \in [Vehicle -> Seq(Answered)]
        BY <2>2, <1>4 DEF Channels
      <3>2. \A w \in Vehicle : \A i \in 1..Len(toServer'[w]) :
               toServer'[w][i] = m
               \/ (i \in 1..Len(toServer[w]) /\ toServer'[w][i] = toServer[w][i])
        BY <2>2, <1>4 DEF Channels
      <3>3. QED
        BY <3>1, <3>2, <1>2 DEF Channels
    <2>3. QED
      BY <1>5, <2>1, <2>2
  <1>7. Channels'
    BY <1>3, <1>4, <1>6 DEF Channels
  <1>8. QED
    BY <1>1, <1>7

LEMMA ConnectionIInv ==
    ASSUME IInv, NEW v \in Vehicle, Connect(v) \/ Break(v) \/ VehicleRestarts(v)
    PROVE  IInv'
  <1> USE DEF IInv
  <1>1. Numbered' /\ Phases' /\ CorrectAnswer' /\ Undisturbed' /\ Stored'
    BY RpcUnchanged
       DEF Connect, Break, VehicleRestarts, Undisturbed, Stored, TrueAnswer, serverVars, countVars
  <1>2. toVehicle'[v] \in Prefixes(toVehicle[v]) \cup Suffixes(toVehicle[v])
        /\ toServer'[v] \in Prefixes(toServer[v]) \cup Suffixes(toServer[v])
    <2>1. toVehicle[v] \in Seq(Called) /\ toServer[v] \in Seq(Answered)
      BY DEF Channels
    <2>2. <<>> \in Suffixes(toVehicle[v])
      BY DEF Suffixes
    <2>3. toVehicle[v] \in Prefixes(toVehicle[v]) /\ toServer[v] \in Prefixes(toServer[v])
      BY <2>1 DEF Prefixes
    <2>4. QED
      BY <2>2, <2>3 DEF Channels, Connect, Break, VehicleRestarts
  <1>3. /\ toVehicle' = [toVehicle EXCEPT ![v] = toVehicle'[v]]
        /\ toServer' = [toServer EXCEPT ![v] = toServer'[v]]
    BY DEF Channels, Connect, Break, VehicleRestarts
  <1>4. /\ toVehicle'[v] \in Seq(Called)
        /\ \A i \in 1..Len(toVehicle'[v]) : \E j \in 1..Len(toVehicle[v]) :
              toVehicle'[v][i] = toVehicle[v][j]
    <2>1. toVehicle[v] \in Seq(Called)
      BY DEF Channels
    <2>2. QED
      BY <2>1, <1>2, SurvivingEntries
  <1>5. /\ toServer'[v] \in Seq(Answered)
        /\ \A i \in 1..Len(toServer'[v]) : \E j \in 1..Len(toServer[v]) :
              toServer'[v][i] = toServer[v][j]
    <2>1. toServer[v] \in Seq(Answered)
      BY DEF Channels
    <2>2. QED
      BY <2>1, <1>2, SurvivingEntries
  <1>6. number' = number
    BY DEF Connect, Break, VehicleRestarts, serverVars
  <1>7. /\ \A w \in Vehicle : \A i \in 1..Len(toVehicle'[w]) : TrueCall(toVehicle'[w][i], number)
        /\ \A w \in Vehicle : \A i \in 1..Len(toServer'[w]) : TrueAnswer(toServer'[w][i], number)
    BY <1>3, <1>4, <1>5 DEF Channels
  <1>8. toVehicle' \in [Vehicle -> Seq(Called)] /\ toServer' \in [Vehicle -> Seq(Answered)]
    BY <1>3, <1>4, <1>5 DEF Channels
  <1>9. tasks' \in [Vehicle -> SUBSET Called] /\ \A w \in Vehicle : tasks'[w] \subseteq tasks[w]
    BY DEF Channels, Connect, Break, VehicleRestarts
  <1>10. Channels'
    BY <1>6, <1>7, <1>8, <1>9 DEF Channels, TrueCall, TrueAnswer
  <1>11. QED
    BY <1>1, <1>10

(* Every step keeps the invariant, reports and restarts aside. *)
LEMMA NextIInv ==
    ASSUME IInv, [Next]_vars, Undisturbed', restarts \in Nat, reports \in Nat
    PROVE  IInv'
  <1>1. ASSUME NEW r \in Request,
               Command(r) \/ Dispatch(r) \/ DispatchFails(r) \/ Poll(r) \/ Cancel(r)
        PROVE  IInv'
    BY <1>1, CommandIInv, DispatchIInv, RpcEndsIInv, PollIInv
  <1>2. ASSUME NEW v \in Vehicle, VehicleStep(v)
        PROVE  IInv'
    BY <1>2, HandleIInv, TaskIInv DEF VehicleStep
  <1>3. ASSUME NEW v \in Vehicle, Listen(v) \/ Connect(v) \/ Break(v) \/ VehicleRestarts(v)
        PROVE  IInv'
    BY <1>3, ListenIInv, ConnectionIInv
  <1>4. ~ServerRestarts /\ \A v \in Vehicle : ~SendReport(v)
    BY DEF ServerRestarts, SendReport, Undisturbed
  <1>5. CASE UNCHANGED vars
    BY <1>5, NetUnchanged, RpcUnchanged
       DEF IInv, vars, serverVars, netVars, countVars, Undisturbed
  <1>6. QED
    BY <1>1, <1>2, <1>3, <1>4, <1>5 DEF Next

(* Reports and restarts are counted and never uncounted. *)
LEMMA Counting ==
    ASSUME restarts \in Nat, reports \in Nat, [Next]_vars
    PROVE  restarts' \in Nat /\ reports' \in Nat /\ (Undisturbed' => Undisturbed)
  <1>1. CASE ServerRestarts \/ UNCHANGED vars
    BY <1>1 DEF ServerRestarts, Undisturbed, vars, countVars
  <1>2. CASE \E v \in Vehicle : SendReport(v)
    BY <1>2 DEF SendReport, Undisturbed
  <1>3. CASE \E r \in Request : \/ Command(r) \/ Dispatch(r) \/ DispatchFails(r)
                                  \/ Poll(r) \/ Cancel(r)
    BY <1>3 DEF Command, Dispatch, DispatchFails, Poll, Cancel, Undisturbed, countVars
  <1>4. CASE \E v \in Vehicle : Listen(v) \/ VehicleStep(v)
    BY <1>4 DEF Listen, VehicleStep, Handle, SendResult, TaskRaises, Undisturbed, countVars
  <1>5. CASE \E v \in Vehicle : Connect(v) \/ Break(v) \/ VehicleRestarts(v)
    BY <1>5 DEF Connect, Break, VehicleRestarts, Undisturbed, countVars
  <1>6. QED
    BY <1>1, <1>2, <1>3, <1>4, <1>5 DEF Next

UntilDisturbed == restarts \in Nat /\ reports \in Nat /\ (Undisturbed => IInv)

(***************************************************************************)
(* remote_service.proto:16-17, :49-51: as long as the Swarm Controller     *)
(* runs and no vehicle has reported, an RPC that returns a vehicle's       *)
(* response returns the response to its own command, whatever is lost,     *)
(* cancelled or answered out of order, for any number of commands.         *)
(***************************************************************************)
THEOREM AnswersAreCorrect == Spec => []AnswersOwn
  <1>1. Init => UntilDisturbed
    BY InitIInv DEF Init, UntilDisturbed
  <1>2. UntilDisturbed /\ [Next]_vars => UntilDisturbed'
    BY NextIInv, Counting DEF UntilDisturbed
  <1>3. UntilDisturbed => AnswersOwn
    BY DEF UntilDisturbed, IInv, AnswersOwn
  <1>4. QED
    BY <1>1, <1>2, <1>3, PTL DEF Spec

----------------------------------------------------------------------------
(***************************************************************************)
(* At most once.  A number is in one place at a time: in the queue to one  *)
(* vehicle, in one of its tasks, in what it has to deliver, or in the map. *)
(***************************************************************************)
Numbers(s)  == {s[i].number : i \in 1..Len(s)}
Distinct(s) == \A i, j \in 1..Len(s) : s[i].number = s[j].number => i = j

Going(v)   == Numbers(toVehicle[v])
Working(v) == {t.number : t \in tasks[v]}
Coming(v)  == Numbers(toServer[v])
Carried(v) == Going(v) \cup Working(v) \cup Coming(v)

Lane(v) ==
    /\ Distinct(toVehicle[v]) /\ Distinct(toServer[v])
    /\ Going(v) \cap Working(v) = {} /\ Going(v) \cap Coming(v) = {}
    /\ Working(v) \cap Coming(v) = {}

Once ==
    \A v \in Vehicle :
        /\ Lane(v)
        /\ Carried(v) \cap DOMAIN responseMap = {}
        /\ \A w \in Vehicle : v # w => Carried(v) \cap Carried(w) = {}

(* A queue that is put to, taken from, or cut. *)
LEMMA PutNumber ==
    ASSUME NEW S, NEW s \in Seq(S), NEW m, m \in S, Distinct(s), m.number \notin Numbers(s)
    PROVE  Numbers(Append(s, m)) = Numbers(s) \cup {m.number} /\ Distinct(Append(s, m))
  <1> DEFINE t == Append(s, m)
  <1>1. /\ Len(t) = Len(s) + 1 /\ Len(s) \in Nat /\ t[Len(s) + 1] = m
        /\ \A i \in 1..Len(s) : t[i] = s[i]
    OBVIOUS
  <1> HIDE DEF t
  <1>2. Numbers(t) = Numbers(s) \cup {m.number}
    BY <1>1 DEF Numbers
  <1>3. Distinct(t)
    <2> SUFFICES ASSUME NEW i \in 1..Len(t), NEW j \in 1..Len(t), t[i].number = t[j].number
                 PROVE  i = j
      BY DEF Distinct
    <2>1. \A k \in 1..Len(s) : t[k].number \in Numbers(s)
      BY <1>1 DEF Numbers
    <2>2. CASE i \in 1..Len(s) /\ j \in 1..Len(s)
      BY <2>2, <1>1 DEF Distinct
    <2>3. CASE i \notin 1..Len(s) \/ j \notin 1..Len(s)
      BY <2>1, <2>3, <1>1
    <2>4. QED
      BY <2>2, <2>3
  <1>4. QED
    BY <1>2, <1>3 DEF t

LEMMA TakeNumber ==
    ASSUME NEW S, NEW s \in Seq(S), s # <<>>, Distinct(s)
    PROVE  /\ Head(s).number \in Numbers(s)
           /\ Numbers(Tail(s)) = Numbers(s) \ {Head(s).number} /\ Distinct(Tail(s))
  <1> DEFINE t == Tail(s)
  <1>1. /\ Len(s) \in Nat /\ Len(s) > 0 /\ Len(t) = Len(s) - 1 /\ Head(s) = s[1]
        /\ \A i \in 1..Len(t) : i + 1 \in 1..Len(s) /\ t[i] = s[i + 1]
    OBVIOUS
  <1> HIDE DEF t
  <1>2. \A i \in 1..Len(s) : i # 1 => i - 1 \in 1..Len(t) /\ t[i - 1] = s[i]
    BY <1>1
  <1>3. 1 \in 1..Len(s)
    BY <1>1
  <1>4. \A i \in 1..Len(t) : s[i + 1].number # s[1].number
    BY <1>1, <1>3 DEF Distinct
  <1>5. Numbers(t) \subseteq Numbers(s) \ {s[1].number}
    BY <1>1, <1>4 DEF Numbers
  <1>6. Numbers(s) \ {s[1].number} \subseteq Numbers(t)
    BY <1>2 DEF Numbers
  <1>7. Distinct(t)
    <2> SUFFICES ASSUME NEW i \in 1..Len(t), NEW j \in 1..Len(t), t[i].number = t[j].number
                 PROVE  i = j
      BY DEF Distinct
    <2>1. i + 1 = j + 1
      BY <1>1 DEF Distinct
    <2>2. QED
      BY <2>1, <1>1
  <1>8. QED
    BY <1>1, <1>3, <1>5, <1>6, <1>7 DEF t, Numbers

LEMMA CutNumbers ==
    ASSUME NEW S, NEW s \in Seq(S), NEW t \in Prefixes(s) \cup Suffixes(s), Distinct(s)
    PROVE  Numbers(t) \subseteq Numbers(s) /\ Distinct(t)
  <1>1. \E k \in Nat : \A i \in 1..Len(t) : i + k \in 1..Len(s) /\ t[i] = s[i + k]
    <2>1. CASE t \in Prefixes(s)
      <3>1. \A i \in 1..Len(t) : i + 0 \in 1..Len(s) /\ t[i] = s[i + 0]
        BY <2>1 DEF Prefixes
      <3>2. QED
        BY <3>1
    <2>2. CASE t = <<>>
      BY <2>2
    <2>3. CASE \E l \in 1..Len(s) : t = SubSeq(s, l, Len(s))
      <3>1. PICK l \in 1..Len(s) : t = SubSeq(s, l, Len(s))
        BY <2>3
      <3>2. \A i \in 1..Len(t) : i + (l - 1) \in 1..Len(s) /\ t[i] = s[i + (l - 1)]
        BY <3>1
      <3>3. l - 1 \in Nat
        OBVIOUS
      <3>4. QED
        BY <3>2, <3>3
    <2>4. QED
      BY <2>1, <2>2, <2>3 DEF Suffixes
  <1>2. PICK k \in Nat : \A i \in 1..Len(t) : i + k \in 1..Len(s) /\ t[i] = s[i + k]
    BY <1>1
  <1>3. Numbers(t) \subseteq Numbers(s)
    BY <1>2 DEF Numbers
  <1>4. Distinct(t)
    <2> SUFFICES ASSUME NEW i \in 1..Len(t), NEW j \in 1..Len(t), t[i].number = t[j].number
                 PROVE  i = j
      BY DEF Distinct
    <2>1. i + k = j + k
      BY <1>2 DEF Distinct
    <2>2. i \in Int /\ j \in Int
      BY <1>2
    <2>3. QED
      BY <2>1, <2>2
  <1>5. QED
    BY <1>3, <1>4

(* A step in the lane of one vehicle, which may bring a number that is nowhere yet. *)
LEMMA OneLane ==
    ASSUME Once, NEW v \in Vehicle, NEW fresh, Lane(v)',
           \A w \in Vehicle : w # v => /\ toVehicle'[w] = toVehicle[w] /\ tasks'[w] = tasks[w]
                                       /\ toServer'[w] = toServer[w],
           \A w \in Vehicle : fresh \cap Carried(w) = {},
           Carried(v)' \subseteq Carried(v) \cup fresh,
           (DOMAIN responseMap)' \subseteq DOMAIN responseMap \cup Carried(v),
           Carried(v)' \cap (DOMAIN responseMap)' = {}
    PROVE  Once'
  <1>1. \A w \in Vehicle : w # v => Carried(w)' = Carried(w) /\ (Lane(w) <=> Lane(w)')
    <2> SUFFICES ASSUME NEW w \in Vehicle, w # v PROVE Carried(w)' = Carried(w) /\ (Lane(w) <=> Lane(w)')
      OBVIOUS
    <2>1. toVehicle'[w] = toVehicle[w] /\ tasks'[w] = tasks[w] /\ toServer'[w] = toServer[w]
      OBVIOUS
    <2>2. Going(w)' = Going(w) /\ Working(w)' = Working(w) /\ Coming(w)' = Coming(w)
      BY <2>1 DEF Going, Working, Coming
    <2>3. /\ Distinct(toVehicle[w])' <=> Distinct(toVehicle[w])
          /\ Distinct(toServer[w])' <=> Distinct(toServer[w])
      BY <2>1
    <2>4. QED
      BY <2>2, <2>3 DEF Carried, Lane
  <1>2. \A w \in Vehicle : w # v => Carried(v)' \cap Carried(w)' = {}
    BY <1>1 DEF Once
  <1>3. \A w \in Vehicle : w # v => Carried(w)' \cap (DOMAIN responseMap)' = {}
    BY <1>1 DEF Once
  <1>4. \A w, x \in Vehicle : w # x => Carried(w)' \cap Carried(x)' = {}
    BY <1>1, <1>2 DEF Once
  <1>5. \A w \in Vehicle : Lane(w)'
    BY <1>1 DEF Once
  <1>6. QED
    BY <1>3, <1>4, <1>5 DEF Once

(* A step that moves no message. *)
LEMMA LanesStay ==
    ASSUME Once, UNCHANGED <<toVehicle, tasks, toServer, responseMap>>
    PROVE  Once'
  <1>1. \A v \in Vehicle : Going(v)' = Going(v) /\ Working(v)' = Working(v) /\ Coming(v)' = Coming(v)
    BY DEF Going, Working, Coming
  <1>2. \A v \in Vehicle : Lane(v) => Distinct(toVehicle[v])' /\ Distinct(toServer[v])'
    BY DEF Lane
  <1>3. QED
    BY <1>1, <1>2 DEF Once, Lane, Carried

(* Every number in use was given. *)
LEMMA Given ==
    ASSUME IInv
    PROVE  /\ \A v \in Vehicle : \A n \in Carried(v) : n \in Nat /\ n < sequenceNumber
           /\ \A n \in DOMAIN responseMap : n < sequenceNumber
  <1> USE DEF IInv
  <1>1. \A m : TrueCall(m, number) => m.number \in Nat /\ m.number < sequenceNumber
    BY RemoteAssumption DEF TrueCall, Called, Numbered
  <1>2. \A m : TrueAnswer(m, number) => m.number \in Nat /\ m.number < sequenceNumber
    BY RemoteAssumption DEF TrueAnswer, Answered, Numbered
  <1>3. ASSUME NEW v \in Vehicle, NEW n \in Carried(v) PROVE n \in Nat /\ n < sequenceNumber
    BY <1>1, <1>2, <1>3 DEF Channels, Carried, Going, Working, Coming, Numbers
  <1>4. ASSUME NEW n \in DOMAIN responseMap PROVE n < sequenceNumber
    <2>1. TrueAnswer([number |-> n, answer |-> responseMap[n]], number)
      BY DEF Stored
    <2>2. QED
      BY <2>1, <1>2
  <1>5. QED
    BY <1>3, <1>4

LEMMA DispatchOnce ==
    ASSUME IInv, Once, NEW r \in Request, Dispatch(r)
    PROVE  Once'
  <1> DEFINE v == VehicleOf[r]
             m == [number |-> sequenceNumber, request |-> r]
  <1>1. /\ v \in Vehicle /\ m \in Called /\ sequenceNumber \in Nat
        /\ toVehicle \in [Vehicle -> Seq(Called)]
        /\ tasks' = tasks /\ toServer' = toServer /\ responseMap' = responseMap
    BY RemoteAssumption DEF IInv, Called, Numbered, Channels, Dispatch
  <1>2. CASE v \notin connected
    BY <1>1, <1>2, LanesStay DEF Dispatch
  <1>3. CASE v \in connected
    <2>1. toVehicle' = [toVehicle EXCEPT ![v] = Append(@, m)]
      BY <1>3 DEF Dispatch
    <2>2. /\ \A w \in Vehicle : sequenceNumber \notin Carried(w)
          /\ sequenceNumber \notin DOMAIN responseMap
      BY <1>1, Given
    <2> HIDE DEF v
    <2>3. Lane(v) /\ m.number = sequenceNumber /\ m.number \notin Numbers(toVehicle[v])
      BY <1>1, <2>2 DEF Once, Carried, Going
    <2> HIDE DEF m
    <2>4. toVehicle'[v] = Append(toVehicle[v], m)
      BY <1>1, <2>1
    <2>5. Going(v)' = Going(v) \cup {sequenceNumber} /\ Distinct(toVehicle[v])'
      BY <1>1, <2>3, <2>4, PutNumber DEF Lane, Going
    <2>6. Working(v)' = Working(v) /\ Coming(v)' = Coming(v) /\ Distinct(toServer[v])'
      BY <1>1, <2>3 DEF Working, Coming, Lane
    <2>7. Lane(v)' /\ Carried(v)' \subseteq Carried(v) \cup {sequenceNumber}
      BY <1>1, <2>2, <2>3, <2>5, <2>6 DEF Lane, Carried
    <2>8. Carried(v)' \cap (DOMAIN responseMap)' = {}
      BY <1>1, <2>2, <2>7 DEF Once
    <2>9. \A w \in Vehicle : {sequenceNumber} \cap Carried(w) = {}
      BY <2>2
    <2>10. \A w \in Vehicle : w # v => toVehicle'[w] = toVehicle[w]
      BY <1>1, <2>1
    <2>11. QED
      BY <1>1, <2>7, <2>8, <2>9, <2>10, OneLane
  <1>4. QED
    BY <1>2, <1>3

LEMMA HandleOnce ==
    ASSUME IInv, Once, NEW v \in Vehicle, Handle(v)
    PROVE  Once'
  <1> DEFINE m == Head(toVehicle[v])
  <1>1. /\ toVehicle \in [Vehicle -> Seq(Called)] /\ tasks \in [Vehicle -> SUBSET Called]
        /\ toVehicle[v] \in Seq(Called) /\ toVehicle[v] # <<>>
        /\ toVehicle'[v] = Tail(toVehicle[v]) /\ tasks'[v] = tasks[v] \cup {m}
        /\ toServer' = toServer /\ responseMap' = responseMap
        /\ \A w \in Vehicle : w # v => toVehicle'[w] = toVehicle[w] /\ tasks'[w] = tasks[w]
    BY DEF IInv, Channels, Handle, serverVars
  <1>2. Lane(v) /\ Distinct(toVehicle[v])
    BY DEF Once, Lane
  <1> HIDE DEF m
  <1>3. m.number \in Going(v) /\ Going(v)' = Going(v) \ {m.number} /\ Distinct(toVehicle[v])'
    BY <1>1, <1>2, TakeNumber DEF Going, m
  <1>4. Working(v)' = Working(v) \cup {m.number}
    BY <1>1 DEF Working
  <1>5. Coming(v)' = Coming(v) /\ Distinct(toServer[v])'
    BY <1>1, <1>2 DEF Coming, Lane
  <1>6. Lane(v)' /\ Carried(v)' \subseteq Carried(v)
    BY <1>2, <1>3, <1>4, <1>5 DEF Lane, Carried
  <1>7. Carried(v)' \cap (DOMAIN responseMap)' = {}
    BY <1>1, <1>6 DEF Once
  <1>8. QED
    BY <1>1, <1>6, <1>7, OneLane

(* Two tasks with one number are one task, because they carry one request. *)
LEMMA TaskOnce ==
    ASSUME IInv, Once, NEW v \in Vehicle, NEW t \in tasks[v], SendResult(v, t) \/ TaskRaises(v, t)
    PROVE  Once'
  <1> DEFINE m == [number |-> t.number, answer |-> t.request]
  <1>1. /\ toServer \in [Vehicle -> Seq(Answered)] /\ tasks \in [Vehicle -> SUBSET Called]
        /\ tasks'[v] = tasks[v] \ {t} /\ toVehicle' = toVehicle /\ responseMap' = responseMap
        /\ m \in Answered
        /\ toServer'[v] = toServer[v] \/ toServer'[v] = Append(toServer[v], m)
        /\ \A w \in Vehicle : w # v => toServer'[w] = toServer[w] /\ tasks'[w] = tasks[w]
    BY DEF IInv, Channels, TrueCall, Called, Answered, Answer, SendResult, TaskRaises, serverVars
  <1>2. Lane(v)
    BY DEF Once
  <1>3. \A u \in tasks[v] : u.number = t.number => u = t
    <2> SUFFICES ASSUME NEW u \in tasks[v], u.number = t.number PROVE u = t
      OBVIOUS
    <2>1. TrueCall(u, number) /\ TrueCall(t, number)
      BY DEF IInv, Channels
    <2>2. u.request = t.request
      BY <2>1, RemoteAssumption DEF IInv, Numbered, TrueCall, Called
    <2>3. QED
      BY <2>1, <2>2 DEF TrueCall, Called
  <1>4. Working(v)' = Working(v) \ {t.number} /\ t.number \in Working(v)
    BY <1>1, <1>3 DEF Working
  <1>5. Going(v)' = Going(v) /\ Distinct(toVehicle[v])'
    BY <1>1, <1>2 DEF Going, Lane
  <1>6. m.number = t.number /\ t.number \notin Numbers(toServer[v]) /\ Distinct(toServer[v])
    BY <1>2, <1>4 DEF Lane, Coming
  <1> HIDE DEF m
  <1>7. Coming(v)' \subseteq Coming(v) \cup {t.number} /\ Distinct(toServer[v])'
    <2>1. CASE toServer'[v] = toServer[v]
      BY <2>1, <1>6 DEF Coming
    <2>2. CASE toServer'[v] = Append(toServer[v], m)
      BY <2>2, <1>1, <1>6, PutNumber DEF Coming
    <2>3. QED
      BY <1>1, <2>1, <2>2
  <1>8. Lane(v)' /\ Carried(v)' \subseteq Carried(v)
    BY <1>2, <1>4, <1>5, <1>7 DEF Lane, Carried
  <1>9. Carried(v)' \cap (DOMAIN responseMap)' = {}
    BY <1>1, <1>8 DEF Once
  <1>10. QED
    BY <1>1, <1>8, <1>9, OneLane

LEMMA ListenOnce ==
    ASSUME IInv, Once, NEW v \in Vehicle, Listen(v)
    PROVE  Once' /\ Head(toServer[v]).number \notin DOMAIN responseMap
  <1> DEFINE n == Head(toServer[v]).number
  <1>1. /\ toServer[v] \in Seq(Answered) /\ toServer[v] # <<>>
        /\ toServer \in [Vehicle -> Seq(Answered)]
        /\ toServer'[v] = Tail(toServer[v]) /\ tasks' = tasks /\ toVehicle' = toVehicle
        /\ (DOMAIN responseMap)' = DOMAIN responseMap \cup {n}
        /\ \A w \in Vehicle : w # v => toServer'[w] = toServer[w]
    BY DEF IInv, Channels, Listen
  <1>2. Lane(v) /\ Distinct(toServer[v])
    BY DEF Once, Lane
  <1>3. n \in Coming(v) /\ Coming(v)' = Coming(v) \ {n} /\ Distinct(toServer[v])'
    BY <1>1, <1>2, TakeNumber DEF Coming
  <1>4. Going(v)' = Going(v) /\ Working(v)' = Working(v) /\ Distinct(toVehicle[v])'
    BY <1>1, <1>2 DEF Going, Working, Lane
  <1> HIDE DEF n
  <1>5. Lane(v)' /\ Carried(v)' \subseteq Carried(v) \ {n} /\ n \in Carried(v)
    BY <1>2, <1>3, <1>4 DEF Lane, Carried
  <1>6. Carried(v)' \cap (DOMAIN responseMap)' = {} /\ n \notin DOMAIN responseMap
    BY <1>1, <1>5 DEF Once
  <1>7. Once'
    BY <1>1, <1>5, <1>6, OneLane
  <1>8. QED
    BY <1>6, <1>7 DEF n

LEMMA ConnectionOnce ==
    ASSUME IInv, Once, NEW v \in Vehicle, Connect(v) \/ Break(v) \/ VehicleRestarts(v)
    PROVE  Once'
  <1>1. CASE Connect(v)
    BY <1>1, LanesStay DEF Connect, serverVars
  <1>2. CASE Break(v) \/ VehicleRestarts(v)
    <2>1. /\ toVehicle \in [Vehicle -> Seq(Called)] /\ toServer \in [Vehicle -> Seq(Answered)]
          /\ toVehicle[v] \in Seq(Called) /\ toServer[v] \in Seq(Answered)
          /\ tasks \in [Vehicle -> SUBSET Called] /\ tasks'[v] \subseteq tasks[v]
          /\ responseMap' = responseMap
      BY <1>2 DEF IInv, Channels, Break, VehicleRestarts, serverVars
    <2>2. /\ toVehicle'[v] \in Prefixes(toVehicle[v]) \cup Suffixes(toVehicle[v])
          /\ toServer'[v] \in Prefixes(toServer[v]) \cup Suffixes(toServer[v])
      <3>1. <<>> \in Suffixes(toVehicle[v])
        BY DEF Suffixes
      <3>2. QED
        BY <1>2, <2>1, <3>1 DEF Break, VehicleRestarts
    <2>3. \A w \in Vehicle : w # v => /\ toVehicle'[w] = toVehicle[w] /\ tasks'[w] = tasks[w]
                                      /\ toServer'[w] = toServer[w]
      BY <1>2, <2>1 DEF Break, VehicleRestarts
    <2>4. Lane(v)
      BY DEF Once
    <2>5. Going(v)' \subseteq Going(v) /\ Distinct(toVehicle[v])'
      BY <2>1, <2>2, <2>4, CutNumbers DEF Going, Lane
    <2>6. Coming(v)' \subseteq Coming(v) /\ Distinct(toServer[v])'
      BY <2>1, <2>2, <2>4, CutNumbers DEF Coming, Lane
    <2>7. Working(v)' \subseteq Working(v)
      BY <2>1 DEF Working
    <2>8. Lane(v)' /\ Carried(v)' \subseteq Carried(v)
      BY <2>4, <2>5, <2>6, <2>7 DEF Lane, Carried
    <2>9. Carried(v)' \cap (DOMAIN responseMap)' = {}
      BY <2>1, <2>8 DEF Once
    <2>10. QED
      BY <2>1, <2>3, <2>8, <2>9, OneLane
  <1>3. QED
    BY <1>1, <1>2

(* An answer is taken off only where the Swarm Controller listens. *)
LEMMA NothingTaken ==
    ASSUME IInv, \A w \in Vehicle : w \in connected' => toServer'[w] = toServer[w]
    PROVE  WrittenOnceStep
  <1>1. \A w \in Vehicle : Len(toServer[w]) \in Nat
    BY DEF IInv, Channels
  <1>2. QED
    BY <1>1 DEF WrittenOnceStep

(* Until a report or a restart, every step keeps each number in one place. *)
LEMMA NextOnce ==
    ASSUME IInv, Once, [Next]_vars, Undisturbed', restarts \in Nat, reports \in Nat
    PROVE  Once' /\ WrittenOnceStep
  <1>1. CASE \E v \in Vehicle : Listen(v)
    <2>1. PICK v \in Vehicle : Listen(v)
      BY <1>1
    <2>2. \A w \in Vehicle : w # v => toServer'[w] = toServer[w]
      BY <2>1 DEF Listen, IInv, Channels
    <2>3. \A w \in Vehicle : Len(toServer[w]) \in Nat
      BY DEF IInv, Channels
    <2>4. Once' /\ Head(toServer[v]).number \notin DOMAIN responseMap
      BY <2>1, ListenOnce
    <2>5. QED
      BY <2>2, <2>3, <2>4 DEF WrittenOnceStep
  <1>2. CASE \E r \in Request : Dispatch(r)
    <2>1. toServer' = toServer
      BY <1>2 DEF Dispatch
    <2>2. QED
      BY <1>2, <2>1, DispatchOnce, NothingTaken
  <1>3. CASE (\E r \in Request : Command(r) \/ DispatchFails(r) \/ Poll(r) \/ Cancel(r))
             \/ UNCHANGED vars
    <2>1. UNCHANGED <<toVehicle, tasks, toServer, responseMap>>
      BY <1>3 DEF Command, DispatchFails, Poll, Cancel, netVars, serverVars, vars
    <2>2. QED
      BY <2>1, LanesStay, NothingTaken
  <1>4. CASE \E v \in Vehicle : VehicleStep(v)
    <2>1. PICK v \in Vehicle : VehicleStep(v)
      BY <1>4
    <2>2. Once'
      BY <2>1, HandleOnce, TaskOnce DEF VehicleStep
    <2>3. \A w \in Vehicle : Len(toServer'[w]) >= Len(toServer[w])
      <3>1. CASE Handle(v)
        BY <3>1 DEF Handle, IInv, Channels
      <3>2. ASSUME NEW t \in tasks[v], TaskRaises(v, t)
            PROVE  \A w \in Vehicle : Len(toServer'[w]) >= Len(toServer[w])
        BY <3>2 DEF TaskRaises, IInv, Channels
      <3>3. ASSUME NEW t \in tasks[v], SendResult(v, t)
            PROVE  \A w \in Vehicle : Len(toServer'[w]) >= Len(toServer[w])
        <4> DEFINE m == [number |-> t.number, answer |-> t.request]
        <4>1. m \in Answered /\ toServer' = [toServer EXCEPT ![v] = Append(@, m)]
          BY <3>3 DEF IInv, Channels, TrueCall, Called, Answered, Answer, SendResult
        <4> HIDE DEF m
        <4>2. QED
          BY <4>1 DEF IInv, Channels
      <3>4. QED
        BY <2>1, <3>1, <3>2, <3>3 DEF VehicleStep
    <2>4. QED
      BY <2>2, <2>3 DEF WrittenOnceStep, IInv, Channels
  <1>5. CASE \E v \in Vehicle : Connect(v) \/ Break(v) \/ VehicleRestarts(v)
    <2>1. PICK v \in Vehicle : Connect(v) \/ Break(v) \/ VehicleRestarts(v)
      BY <1>5
    <2>2. Once'
      BY <2>1, ConnectionOnce
    <2>3. toServer' = toServer \/ v \notin connected'
      BY <2>1 DEF Connect, Break, VehicleRestarts
    <2>4. \A w \in Vehicle : w # v => toServer'[w] = toServer[w]
      BY <2>1 DEF Connect, Break, VehicleRestarts, IInv, Channels
    <2>5. QED
      BY <2>2, <2>3, <2>4, NothingTaken
  <1>6. ~ServerRestarts /\ \A v \in Vehicle : ~SendReport(v)
    BY DEF ServerRestarts, SendReport, Undisturbed
  <1>7. QED
    BY <1>1, <1>2, <1>3, <1>4, <1>5, <1>6 DEF Next

OnceUntilDisturbed == UntilDisturbed /\ (Undisturbed => Once)

LEMMA OnceInvariant == Spec => []OnceUntilDisturbed
  <1>1. Init => OnceUntilDisturbed
    <2> SUFFICES ASSUME Init PROVE OnceUntilDisturbed
      OBVIOUS
    <2>1. UntilDisturbed
      BY InitIInv DEF Init, UntilDisturbed
    <2>2. \A v \in Vehicle : toVehicle[v] = <<>> /\ toServer[v] = <<>> /\ tasks[v] = {}
      BY DEF Init
    <2>3. \A v \in Vehicle : Going(v) = {} /\ Working(v) = {} /\ Coming(v) = {} /\ Lane(v)
      BY <2>2 DEF Going, Working, Coming, Lane, Numbers, Distinct
    <2>4. QED
      BY <2>1, <2>3 DEF OnceUntilDisturbed, Once, Carried
  <1>2. OnceUntilDisturbed /\ [Next]_vars => OnceUntilDisturbed'
    BY NextIInv, Counting, NextOnce DEF OnceUntilDisturbed, UntilDisturbed
  <1>3. QED
    BY <1>1, <1>2, PTL DEF Spec

(***************************************************************************)
(* As long as the Swarm Controller runs and no vehicle has reported, no    *)
(* entry of the response map (swarm_controller.py:109) is written twice,   *)
(* whatever is lost, cancelled or answered out of order.                   *)
(***************************************************************************)
THEOREM WrittenOnlyOnce == Spec => WrittenOnce
  <1>1. OnceUntilDisturbed /\ [Next]_vars => [Undisturbed' => WrittenOnceStep]_vars
    BY Counting, NextOnce DEF OnceUntilDisturbed, UntilDisturbed
  <1>2. QED
    BY <1>1, OnceInvariant, PTL DEF Spec, WrittenOnce

----------------------------------------------------------------------------
(***************************************************************************)
(* RemoteCommand implements RemoteControl.  Up to a report or a restart a  *)
(* number stands for its command, so that a command is where its number    *)
(* is; from then on RemoteControl promises nothing.                        *)
(***************************************************************************)

LEMMA TakenAndPut ==
    ASSUME NEW S, NEW s \in Seq(S)
    PROVE  /\ \A m \in S : Range(Append(s, m)) = Range(s) \cup {m}
           /\ s # <<>> => Range(s) = Range(Tail(s)) \cup {Head(s)}
           /\ s # <<>> /\ Distinct(s) => \A m \in Range(Tail(s)) : m.number # Head(s).number
  <1>1. ASSUME NEW m \in S PROVE Range(Append(s, m)) = Range(s) \cup {m}
    <2>1. /\ Len(s) \in Nat /\ DOMAIN s = 1..Len(s)
          /\ DOMAIN Append(s, m) = 1..Len(s) \cup {Len(s) + 1}
          /\ \A i \in 1..Len(s) : Append(s, m)[i] = s[i]
          /\ Append(s, m)[Len(s) + 1] = m
      OBVIOUS
    <2>2. QED
      BY <2>1 DEF Range
  <1>2. ASSUME s # <<>>
        PROVE  /\ Range(s) = Range(Tail(s)) \cup {Head(s)}
               /\ Distinct(s) => \A m \in Range(Tail(s)) : m.number # Head(s).number
    <2> DEFINE n == Len(s)
    <2>1. /\ n \in Nat \ {0} /\ DOMAIN s = 1..n /\ DOMAIN Tail(s) = 1..(n - 1)
          /\ \A i \in 1..(n - 1) : Tail(s)[i] = s[i + 1]
          /\ Head(s) = s[1]
      BY <1>2
    <2>2. /\ 1 \in 1..n /\ \A i \in 1..(n - 1) : i + 1 \in 1..n /\ i + 1 # 1
          /\ \A i \in 1..n : i # 1 => i - 1 \in 1..(n - 1) /\ (i - 1) + 1 = i
      BY <2>1
    <2>3. \A m \in Range(Tail(s)) : m \in Range(s)
      BY <2>1, <2>2 DEF Range
    <2>4. \A m \in Range(s) : m = Head(s) \/ m \in Range(Tail(s))
      <3> SUFFICES ASSUME NEW i \in 1..n, i # 1 PROVE s[i] \in Range(Tail(s))
        BY <2>1 DEF Range
      <3>1. i - 1 \in 1..(n - 1) /\ Tail(s)[i - 1] = s[i]
        BY <2>1, <2>2
      <3>2. QED
        BY <2>1, <3>1 DEF Range
    <2>5. Head(s) \in Range(s)
      BY <2>1, <2>2 DEF Range
    <2>6. ASSUME Distinct(s), NEW m \in Range(Tail(s)) PROVE m.number # Head(s).number
      <3>1. PICK i \in 1..(n - 1) : m = s[i + 1]
        BY <2>1, <2>6 DEF Range
      <3>2. QED
        BY <2>1, <2>2, <2>6, <3>1 DEF Distinct
    <2>7. QED
      BY <2>3, <2>4, <2>5, <2>6
  <1>3. QED
    BY <1>1, <1>2

(* A command is at a station under its own number, and a number stands for one command. *)
LEMMA KnownByNumber ==
    ASSUME IInv, NEW v \in Vehicle
    PROVE  /\ \A m \in Range(toVehicle[v]) : TrueCall(m, number) /\ m.number \in Going(v)
           /\ \A t \in tasks[v] : TrueCall(t, number) /\ t.number \in Working(v)
           /\ \A m \in Range(toServer[v]) : TrueAnswer(m, number) /\ m.number \in Coming(v)
           /\ \A r \in Range(responseMap) : r \in Request /\ number[r] \in DOMAIN responseMap
  <1>1. /\ DOMAIN toVehicle[v] = 1..Len(toVehicle[v]) /\ DOMAIN toServer[v] = 1..Len(toServer[v])
    BY DEF IInv, Channels
  <1>2. \A r \in Range(responseMap) : r \in Request /\ number[r] \in DOMAIN responseMap
    BY DEF IInv, Stored, TrueAnswer, Range
  <1>3. QED
    BY <1>1, <1>2 DEF IInv, Channels, Range, Going, Working, Coming, Numbers

(* Only the stations of one vehicle change. *)
StationsAt(v) ==
    /\ GoingTo' = [GoingTo EXCEPT ![v] = GoingTo'[v]]
    /\ WorkedOn' = [WorkedOn EXCEPT ![v] = WorkedOn'[v]]
    /\ ComingFrom' = [ComingFrom EXCEPT ![v] = ComingFrom'[v]]

LEMMA OneVehicle ==
    ASSUME NEW v \in Vehicle,
           \A w \in Vehicle : w # v => /\ toVehicle'[w] = toVehicle[w] /\ tasks'[w] = tasks[w]
                                       /\ toServer'[w] = toServer[w]
    PROVE  StationsAt(v)
  BY DEF StationsAt, GoingTo, WorkedOn, ComingFrom

LEMMA StationsStay ==
    /\ toVehicle' = toVehicle => GoingTo' = GoingTo
    /\ tasks' = tasks => WorkedOn' = WorkedOn
    /\ toServer' = toServer => ComingFrom' = ComingFrom
  BY DEF GoingTo, WorkedOn, ComingFrom

LEMMA HandleBegins ==
    ASSUME IInv, Once, NEW v \in Vehicle, Handle(v)
    PROVE  \E r \in Request : Control!Begin(v, r)
  <1> DEFINE m == Head(toVehicle[v])
  <1>1. /\ toVehicle[v] \in Seq(Called) /\ toVehicle[v] # <<>>
        /\ toVehicle' = [toVehicle EXCEPT ![v] = Tail(toVehicle[v])]
        /\ tasks' = [tasks EXCEPT ![v] = tasks[v] \cup {m}]
        /\ UNCHANGED <<rpc, answer, toServer, responseMap>>
    BY DEF Handle, IInv, Channels, serverVars
  <1>2. /\ Range(toVehicle[v]) = Range(Tail(toVehicle[v])) \cup {m}
        /\ \A k \in Range(Tail(toVehicle[v])) : k.number # m.number
    BY <1>1, TakenAndPut DEF Once, Lane
  <1>3. toVehicle'[v] = Tail(toVehicle[v]) /\ tasks'[v] = tasks[v] \cup {m}
    BY <1>1 DEF IInv, Channels
  <1>4. PICK r \in Request : /\ m.request = r /\ m.number = number[r]
                            /\ m.number \in Going(v)
    BY <1>2, KnownByNumber DEF TrueCall, Called
  <1> HIDE DEF m
  <1>5. \A k \in Range(Tail(toVehicle[v])) : k.request # r
    BY <1>2, <1>4, KnownByNumber DEF TrueCall
  <1>6. \A t \in tasks[v] : t.request # r
    BY <1>4, KnownByNumber DEF TrueCall, Once, Lane
  <1>7. r \in GoingTo[v] /\ GoingTo'[v] = GoingTo[v] \ {r}
    BY <1>2, <1>3, <1>4, <1>5 DEF GoingTo
  <1>8. r \notin WorkedOn[v] /\ WorkedOn'[v] = WorkedOn[v] \cup {r}
    BY <1>3, <1>4, <1>6 DEF WorkedOn
  <1>9. StationsAt(v) /\ ComingFrom' = ComingFrom
    BY <1>1, OneVehicle, StationsStay DEF IInv, Channels
  <1>10. Control!Begin(v, r)
    BY <1>1, <1>7, <1>8, <1>9 DEF Control!Begin, Control!Leaves, Control!Comes, StationsAt
  <1>11. QED
    BY <1>10

LEMMA ResultFinishes ==
    ASSUME IInv, Once, NEW v \in Vehicle, NEW t \in tasks[v], SendResult(v, t)
    PROVE  Control!Finish(v, t.request)
  <1> DEFINE r == t.request
             m == [number |-> t.number, answer |-> r]
  <1>1. /\ tasks' = [tasks EXCEPT ![v] = tasks[v] \ {t}]
        /\ toServer' = [toServer EXCEPT ![v] = Append(toServer[v], m)]
        /\ UNCHANGED <<rpc, answer, toVehicle, responseMap>>
    BY DEF SendResult, serverVars
  <1>2. r \in Request /\ t.number = number[r] /\ t.number \in Working(v) /\ t \in Called
    BY KnownByNumber DEF TrueCall, Called
  <1>3. \A u \in tasks[v] : u.request = r => u = t
    BY <1>2, KnownByNumber DEF TrueCall, Called
  <1>4. \A k \in Range(toServer[v]) : k.answer # r
    BY <1>2, KnownByNumber DEF TrueAnswer, Once, Lane
  <1>5. m \in Answered /\ toServer[v] \in Seq(Answered) /\ m.answer = r
    BY <1>2 DEF Answered, Called, Answer, IInv, Channels
  <1> HIDE DEF m
  <1>6. Range(toServer'[v]) = Range(toServer[v]) \cup {m} /\ tasks'[v] = tasks[v] \ {t}
    BY <1>1, <1>5, TakenAndPut DEF IInv, Channels
  <1>7. r \in WorkedOn[v] /\ WorkedOn'[v] = WorkedOn[v] \ {r}
    BY <1>3, <1>6 DEF WorkedOn
  <1>8. r \notin ComingFrom[v] /\ ComingFrom'[v] = ComingFrom[v] \cup {r}
    BY <1>4, <1>5, <1>6 DEF ComingFrom
  <1>9. StationsAt(v) /\ GoingTo' = GoingTo
    BY <1>1, OneVehicle, StationsStay DEF IInv, Channels
  <1>10. QED
    BY <1>1, <1>7, <1>8, <1>9 DEF Control!Finish, Control!Leaves, Control!Comes, StationsAt

LEMMA ListenDelivers ==
    ASSUME IInv, Once, NEW v \in Vehicle, Listen(v)
    PROVE  \E r \in Request : Control!Deliver(v, r)
  <1> DEFINE m == Head(toServer[v])
  <1>1. /\ toServer[v] \in Seq(Answered) /\ toServer[v] # <<>>
        /\ toServer' = [toServer EXCEPT ![v] = Tail(toServer[v])]
        /\ responseMap' = [n \in DOMAIN responseMap \cup {m.number} |->
                              IF n = m.number THEN m.answer ELSE responseMap[n]]
        /\ UNCHANGED <<rpc, answer, toVehicle, tasks>>
    BY DEF Listen, IInv, Channels
  <1>2. /\ Range(toServer[v]) = Range(Tail(toServer[v])) \cup {m}
        /\ \A k \in Range(Tail(toServer[v])) : k.number # m.number
    BY <1>1, TakenAndPut DEF Once, Lane
  <1>3. toServer'[v] = Tail(toServer[v])
    BY <1>1 DEF IInv, Channels
  <1>4. PICK r \in Request : /\ m.answer = r /\ m.number = number[r]
                            /\ m.number \notin DOMAIN responseMap
    <2>1. TrueAnswer(m, number) /\ m.number \in Coming(v)
      BY <1>2, KnownByNumber
    <2>2. QED
      BY <2>1 DEF TrueAnswer, Once, Carried
  <1> HIDE DEF m
  <1>5. \A k \in Range(Tail(toServer[v])) : k.answer # r
    BY <1>2, <1>4, KnownByNumber DEF TrueAnswer
  <1>6. r \in ComingFrom[v] /\ ComingFrom'[v] = ComingFrom[v] \ {r}
    BY <1>2, <1>3, <1>4, <1>5 DEF ComingFrom
  <1>7. r \notin Range(responseMap)
    BY <1>4, KnownByNumber
  <1>8. Range(responseMap)' = Range(responseMap) \cup {r}
    BY <1>1, <1>4 DEF Range
  <1>9. StationsAt(v) /\ GoingTo' = GoingTo /\ WorkedOn' = WorkedOn
    BY <1>1, OneVehicle, StationsStay DEF IInv, Channels
  <1>10. Control!Deliver(v, r)
    BY <1>1, <1>6, <1>7, <1>8, <1>9 DEF Control!Deliver, Control!Leaves, StationsAt
  <1>11. QED
    BY <1>10

(* A prefix or a suffix of a queue has no entry the queue has not. *)
LEMMA KeptEntries ==
    ASSUME NEW S, NEW s \in Seq(S)
    PROVE  /\ <<>> \in Prefixes(s) /\ s \in Prefixes(s)
           /\ \A t \in Prefixes(s) \cup Suffixes(s) : Range(t) \subseteq Range(s)
  <1>1. /\ SubSeq(s, 1, 0) = <<>> /\ 0 \in 0..Len(s)
        /\ SubSeq(s, 1, Len(s)) = s /\ Len(s) \in 0..Len(s)
    OBVIOUS
  <1>2. ASSUME NEW t \in Prefixes(s) \cup Suffixes(s) PROVE Range(t) \subseteq Range(s)
    <2>1. /\ t \in Seq(S)
          /\ \A i \in 1..Len(t) : \E j \in 1..Len(s) : t[i] = s[j]
      BY <1>2, SurvivingEntries
    <2>2. DOMAIN t = 1..Len(t) /\ DOMAIN s = 1..Len(s)
      BY <2>1
    <2>3. QED
      BY <2>1, <2>2 DEF Range
  <1>3. QED
    BY <1>1, <1>2 DEF Prefixes

(* What a break of the connection or of the vehicle keeps was there before. *)
LEMMA BreakLoses ==
    ASSUME IInv, NEW v \in Vehicle,
           \/ Break(v) \/ VehicleRestarts(v) \/ \E t \in tasks[v] : TaskRaises(v, t)
    PROVE  Control!Lose(v)
  <1>1. /\ <<>> \in Prefixes(toVehicle[v])
        /\ toVehicle[v] \in Prefixes(toVehicle[v]) /\ toServer[v] \in Prefixes(toServer[v])
        /\ \A t \in Prefixes(toVehicle[v]) : Range(t) \subseteq Range(toVehicle[v])
        /\ \A t \in Prefixes(toServer[v]) \cup Suffixes(toServer[v]) :
               Range(t) \subseteq Range(toServer[v])
    BY KeptEntries DEF IInv, Channels
  <1>2. UNCHANGED serverVars
    BY DEF Break, VehicleRestarts, TaskRaises
  <1>3. /\ toVehicle'[v] \in Prefixes(toVehicle[v])
        /\ toServer'[v] \in Prefixes(toServer[v]) \cup Suffixes(toServer[v])
        /\ tasks'[v] \subseteq tasks[v]
        /\ \A w \in Vehicle : w # v => /\ toVehicle'[w] = toVehicle[w] /\ tasks'[w] = tasks[w]
                                       /\ toServer'[w] = toServer[w]
    BY <1>1 DEF Break, VehicleRestarts, TaskRaises, IInv, Channels
  <1>4. Range(toVehicle'[v]) \subseteq Range(toVehicle[v])
    BY <1>1, <1>3
  <1>5. Range(toServer'[v]) \subseteq Range(toServer[v])
    BY <1>1, <1>3
  <1>6. /\ GoingTo'[v] \subseteq GoingTo[v] /\ WorkedOn'[v] \subseteq WorkedOn[v]
        /\ ComingFrom'[v] \subseteq ComingFrom[v]
    BY <1>3, <1>4, <1>5 DEF GoingTo, WorkedOn, ComingFrom
  <1>7. StationsAt(v)
    BY <1>3, OneVehicle
  <1>8. QED
    BY <1>2, <1>6, <1>7 DEF Control!Lose, Control!Loses, StationsAt, serverVars

LEMMA DispatchSends ==
    ASSUME IInv, NEW r \in Request, Dispatch(r)
    PROVE  Control!Send(r)
  <1> DEFINE v == VehicleOf[r]
             m == [number |-> sequenceNumber, request |-> r]
  <1>1. /\ rpc[r] = "accepted" /\ rpc' = [rpc EXCEPT ![r] = "polling"]
        /\ toVehicle' = IF v \notin connected THEN toVehicle
                        ELSE [toVehicle EXCEPT ![v] = Append(toVehicle[v], m)]
        /\ UNCHANGED <<answer, responseMap, tasks, toServer>>
    BY DEF Dispatch
  <1>2. v \in Vehicle /\ m \in Called /\ m.request = r /\ toVehicle[v] \in Seq(Called)
    BY RemoteAssumption DEF IInv, Numbered, Channels, Called
  <1> HIDE DEF v, m
  <1>3. GoingTo' \in {GoingTo, [GoingTo EXCEPT ![v] = GoingTo[v] \cup {r}]}
    <2>1. CASE v \notin connected
      BY <1>1, <2>1, StationsStay
    <2>2. CASE v \in connected
      <3>1. toVehicle' = [toVehicle EXCEPT ![v] = Append(toVehicle[v], m)]
        BY <1>1, <2>2
      <3>2. Range(toVehicle'[v]) = Range(toVehicle[v]) \cup {m}
        BY <1>2, <3>1, TakenAndPut DEF IInv, Channels
      <3>3. GoingTo'[v] = GoingTo[v] \cup {r}
        BY <1>2, <3>2 DEF GoingTo
      <3>4. StationsAt(v)
        BY <1>1, <1>2, <3>1, OneVehicle DEF IInv, Channels
      <3>5. QED
        BY <3>3, <3>4 DEF StationsAt
    <2>3. QED
      BY <2>1, <2>2
  <1>4. WorkedOn' = WorkedOn /\ ComingFrom' = ComingFrom
    BY <1>1, StationsStay
  <1>5. QED
    BY <1>1, <1>3, <1>4 DEF Control!Send, Control!Moves, v

LEMMA PollReturns ==
    ASSUME IInv, NEW r \in Request, Poll(r)
    PROVE  Control!Return(r)
  <1>1. TrueAnswer([number |-> number[r], answer |-> responseMap[number[r]]], number)
        /\ number[r] # Unsent
    BY DEF Poll, IInv, Stored, Phases
  <1>2. responseMap[number[r]] = r
    BY <1>1 DEF TrueAnswer, IInv, Numbered
  <1>3. r \in Range(responseMap)
    BY <1>2 DEF Poll, Range
  <1>4. UNCHANGED <<toVehicle, tasks, toServer, responseMap>>
    BY DEF Poll, netVars
  <1>5. UNCHANGED Control!stations
    BY <1>4, StationsStay DEF Control!stations
  <1>6. QED
    BY <1>2, <1>3, <1>5 DEF Poll, Control!Return, Control!Moves

LEMMA CarriesInit == Init => Control!Init
  <1> SUFFICES ASSUME Init PROVE Control!Init
    OBVIOUS
  <1>1. \A v \in Vehicle : /\ toVehicle[v] = <<>> /\ toServer[v] = <<>> /\ tasks[v] = {}
                           /\ Range(toVehicle[v]) = {} /\ Range(toServer[v]) = {}
    BY DEF Init, Range
  <1>2. Range(responseMap) = {}
    BY DEF Init, Range
  <1>3. /\ GoingTo = [v \in Vehicle |-> {}] /\ WorkedOn = [v \in Vehicle |-> {}]
        /\ ComingFrom = [v \in Vehicle |-> {}]
    BY <1>1 DEF GoingTo, WorkedOn, ComingFrom
  <1>4. QED
    BY <1>2, <1>3 DEF Init, Control!Init, Undisturbed

LEMMA CarriesStep ==
    ASSUME OnceUntilDisturbed, [Next]_vars
    PROVE  [Control!Next]_(Control!vars)
  <1>1. CASE ~Undisturbed'
    BY <1>1 DEF Control!Next, Control!Disturb
  <1>2. CASE Undisturbed'
    <2>1. Undisturbed /\ IInv /\ Once
      BY <1>2, Counting DEF OnceUntilDisturbed, UntilDisturbed
    <2>2. (~Undisturbed)' = ~Undisturbed
      BY <1>2, <2>1
    <2>3. CASE \E r \in Request : Command(r) \/ DispatchFails(r) \/ Cancel(r)
      <3>1. PICK r \in Request : Command(r) \/ DispatchFails(r) \/ Cancel(r)
        BY <2>3
      <3>2. UNCHANGED <<answer, Control!stations>>
        BY <3>1, StationsStay DEF Command, DispatchFails, Cancel, netVars, Control!stations
      <3>3. Control!Accept(r) \/ Control!Refuse(r) \/ Control!HangUp(r)
        BY <3>1, <3>2 DEF Command, DispatchFails, Cancel, Open, Control!Accept, Control!Refuse,
                          Control!HangUp, Control!Moves
      <3>4. QED
        BY <2>2, <3>3 DEF Control!Next
    <2>4. CASE \E r \in Request : Dispatch(r) \/ Poll(r)
      BY <2>1, <2>2, <2>4, DispatchSends, PollReturns DEF Control!Next
    <2>5. CASE \E v \in Vehicle : Listen(v) \/ VehicleStep(v) \/ Break(v) \/ VehicleRestarts(v)
      <3>1. PICK v \in Vehicle : Listen(v) \/ VehicleStep(v) \/ Break(v) \/ VehicleRestarts(v)
        BY <2>5
      <3>2. CASE Handle(v) \/ Listen(v)
        BY <2>1, <2>2, <3>2, HandleBegins, ListenDelivers DEF Control!Next
      <3>3. ASSUME NEW t \in tasks[v], SendResult(v, t) PROVE Control!Next
        <4>1. t.request \in Request
          BY <2>1, KnownByNumber DEF TrueCall, Called
        <4>2. QED
          BY <2>1, <2>2, <3>3, <4>1, ResultFinishes DEF Control!Next
      <3>4. CASE Break(v) \/ VehicleRestarts(v) \/ \E t \in tasks[v] : TaskRaises(v, t)
        BY <2>1, <2>2, <3>4, BreakLoses DEF Control!Next
      <3>5. QED
        BY <3>1, <3>2, <3>3, <3>4 DEF VehicleStep
    <2>6. CASE (\E v \in Vehicle : Connect(v)) \/ UNCHANGED vars
      <3>1. UNCHANGED <<rpc, answer, responseMap, toVehicle, tasks, toServer>>
        BY <2>6 DEF Connect, serverVars, netVars, vars
      <3>2. QED
        BY <2>2, <3>1, StationsStay DEF Control!vars, Control!stations
    <2>7. ~ServerRestarts /\ \A v \in Vehicle : ~SendReport(v)
      BY <1>2, <2>1 DEF ServerRestarts, SendReport, Undisturbed, OnceUntilDisturbed, UntilDisturbed
    <2>8. QED
      BY <2>3, <2>4, <2>5, <2>6, <2>7 DEF Next
  <1>3. QED
    BY <1>1, <1>2

(***************************************************************************)
(* swarm_controller.py and command_handler.py: up to the first report or   *)
(* restart of the Swarm Controller, numbers, sockets and tasks carry a     *)
(* command as RemoteControl says: to its own vehicle, which executes it at *)
(* most once, and its answer to the RPC that sent it.                      *)
(***************************************************************************)
THEOREM CommandIsCarried == Spec => CarrierSpec
  <1>1. OnceUntilDisturbed /\ [Next]_vars => [Control!Next]_(Control!vars)
    BY CarriesStep
  <1>2. QED
    BY <1>1, CarriesInit, OnceInvariant, PTL DEF Spec, CarrierSpec, Control!Spec

==============================================================================
