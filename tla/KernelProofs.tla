---------------------------- MODULE KernelProofs ----------------------------
(***************************************************************************)
(* Proofs about the kernel as one process, for every law file, every       *)
(* timeout and any number of calls: it is a law authority, so that all     *)
(* that is proved of LawAuthority holds of it; and one silence of the      *)
(* server has one failsafe.                                                *)
(***************************************************************************)
EXTENDS Kernel, LawAuthorityProofs, FiniteSetTheorems

Message == [call : ServerCall, command : ServerCommand]
Receivable == inbox \in Seq(Message)

(* The socket holds messages of the server only. *)
LEMMA InboxStep == Receivable /\ [KernelNext]_kernelVars => Receivable'
<1> SUFFICES ASSUME inbox \in Seq(Message), KernelNext PROVE inbox' \in Seq(Message)
    BY DEF kernelVars, Receivable
<1>1. CASE \E c \in ServerCall : ServerSends(c)
    BY <1>1 DEF ServerSends, Message
<1>2. CASE Receive
    BY <1>2 DEF Receive
<1>3. CASE (\E c \in Call \ ServerCall : MissionCalls(c)) \/ Tick \/ Expire \/ FinishFailsafe \/ Proceed
    BY <1>3 DEF MissionCalls, Tick, Expire, FinishFailsafe, Proceed
<1>4. QED
    BY <1>1, <1>2, <1>3 DEF KernelNext

(* A step of the kernel is a step of the authority, or leaves it alone. *)
LEMMA KernelStep == Receivable /\ [KernelNext]_kernelVars => [Next]_vars
<1> SUFFICES ASSUME inbox \in Seq(Message), [KernelNext]_kernelVars PROVE [Next]_vars
    BY DEF Receivable
<1>1. CASE Proceed
    BY <1>1 DEF Proceed, Next, OwnStep
<1>2. CASE Receive
    <2>1. Head(inbox) \in Message
        BY <1>2 DEF Receive
    <2>2. Head(inbox).call \in Call
        BY <2>1, KernelAssumption DEF Message
    <2>3. QED
        BY <1>2, <2>2 DEF Receive, Next
<1>3. CASE \E c \in Call \ ServerCall : MissionCalls(c)
    BY <1>3 DEF MissionCalls, Next
<1>4. CASE Expire \/ FinishFailsafe
    BY <1>4 DEF Expire, FinishFailsafe, Next, OwnStep
<1>5. CASE (\E c \in ServerCall : ServerSends(c)) \/ Tick \/ UNCHANGED kernelVars
    BY <1>5 DEF ServerSends, Tick, kernelVars
<1>6. QED
    BY <1>1, <1>2, <1>3, <1>4, <1>5 DEF KernelNext

(* command_handler.py only chooses when calls arrive and when the timer expires: whatever holds
   of the authority alone, the lock and its laws, holds of the kernel with its socket and clock. *)
THEOREM KernelIsAuthority == KernelSpec => Spec
<1>1. KernelInit => Init /\ Receivable
    BY DEF KernelInit, Receivable
<1>2. QED
    BY <1>1, InboxStep, KernelStep, PTL DEF KernelSpec, Spec

----------------------------------------------------------------------------
(***************************************************************************)
(* The clock.  While it runs there is a message more than failsafes, until *)
(* the failsafe that this silence triggers; the failsafe stops it.         *)
(***************************************************************************)
Heard == {c \in ServerCall : pc[c] # "idle"}

Spent == pc[Handler] \in {"failsafe", "failsafing", "dead"}

Clocked ==
    /\ silence \in 0..Timeout \cup {Never}
    /\ pc[Handler] \in {"asking", "reading", "failsafe", "failsafing"} => SilentTooLong

Counted ==
    /\ triggered <= Cardinality(Heard)
    /\ silence # Never /\ ~Spent => triggered < Cardinality(Heard)

ClockInv == IInv /\ Receivable /\ Clocked /\ Counted

(* The messages that were received are finitely many. *)
LEMMA HeardFinite == IsFiniteSet(Heard) /\ Cardinality(Heard) \in Nat
<1>1. IsFiniteSet(Heard)
    BY KernelAssumption, FS_Subset DEF Heard
<1>2. QED
    BY <1>1, FS_CardinalityType

(* A call that was made stays made, and the count of them does not go down. *)
LEMMA HeardGrows ==
    ASSUME \A c \in ServerCall : pc[c] # "idle" => pc'[c] # "idle"
    PROVE  /\ Cardinality(Heard) \in Nat /\ Cardinality(Heard') \in Nat
           /\ Cardinality(Heard) <= Cardinality(Heard')
<1>1. Heard \subseteq Heard' /\ Heard' \subseteq ServerCall
    BY DEF Heard
<1>2. IsFiniteSet(Heard')
    BY <1>1, KernelAssumption, FS_Subset
<1>3. QED
    BY <1>1, <1>2, HeardFinite, FS_Subset, FS_CardinalityType

(* Where the handler goes when neither its socket nor its clock moves it. *)
HandlerGoes ==
    \/ /\ triggered' = triggered
       /\ \/ pc'[Handler] = pc[Handler]
          \/ pc[Handler] = "off" /\ pc'[Handler] = "polling"
          \/ pc[Handler] = "asking" /\ pc'[Handler] = "reading"
          \/ pc[Handler] = "reading" /\ pc'[Handler] = "polling"
          \/ pc[Handler] = "failsafe" /\ pc'[Handler] = "failsafing"
          \/ pc[Handler] = "failsafing" /\ pc'[Handler] = "dead"
    \/ /\ triggered' = triggered + 1
       /\ pc[Handler] = "reading" /\ pc'[Handler] = "failsafe"

(* The authority moves the handler only as it waits for it, and forgets no call. *)
LEMMA ProceedMoves ==
    ASSUME IInv, Proceed
    PROVE  HandlerGoes /\ \A c \in ServerCall : pc[c] # "idle" => pc'[c] # "idle"
<1> USE ProcAssumption, KernelAssumption DEF IInv, TypeOK, Proc
<1>1. CASE \E c \in Call : CallStep(c)
    BY <1>1 DEF CallStep, AllowsRaises, CheckAllows, KeepLaw, RequestSwitch, Answer,
                AskSwitch, Goto, HandlerGoes
<1>2. CASE \E c \in Call \ ServerCall : Cancel(c)
    BY <1>2 DEF Cancel, Goto, HandlerGoes
<1>3. ASSUME NEW p \in Proc, Step(p)
      PROVE  HandlerGoes /\ \A c \in ServerCall : pc[c] # "idle" => pc'[c] # "idle"
    <2>1. CASE AcquireRead(p)
        <3>1. pc[Handler] \notin {"allows", "match"}
            BY DEF HandlerPC
        <3>2. QED
            BY <2>1, <3>1 DEF AcquireRead, WaitsToRead, Goto, HandlerGoes
    <2>2. CASE EnterLaw(p) \/ SendCommand(p)
        <3>1. pc[Handler] # "switch"
            BY DEF HandlerPC
        <3>2. QED
            BY <2>2, <3>1 DEF EnterLaw, SendCommand, Goto, HandlerGoes
    <2>3. CASE SendRaises(p)
        <3>1. p = Handler => pc[Handler] = "failsafing"
            BY <2>3 DEF SendRaises, Sends, Writes, HandlerPC
        <3>2. QED
            BY <2>3, <3>1 DEF SendRaises, Goto, HandlerGoes
    <2>4. CASE CommitLaw(p) \/ AbandonSwitch(p)
        <3>1. p # Handler
            BY <2>4 DEF CommitLaw, AbandonSwitch, HandlerPC
        <3>2. p = Boot => pc[Handler] = "off"
            BY <2>4 DEF CommitLaw, AbandonSwitch, KernelOpensWithLaw
        <3>3. QED
            BY <2>4, <3>1, <3>2 DEF CommitLaw, AbandonSwitch, AfterSwitch, Goto, HandlerGoes
    <2>5. QED
        BY <1>3, <2>1, <2>2, <2>3, <2>4 DEF Step
<1>4. CASE BootSwitch \/ BootFails
    BY <1>4 DEF BootSwitch, BootFails, AskSwitch, Goto, HandlerGoes
<1>5. CASE ReadLaw \/ BeginFailsafe
    BY <1>5 DEF ReadLaw, BeginFailsafe, Goto, HandlerGoes
<1>6. QED
    BY <1>1, <1>2, <1>3, <1>4, <1>5 DEF Proceed

(* Every step of the kernel keeps the clock and the count. *)
LEMMA ClockStep == ClockInv /\ [KernelNext]_kernelVars => ClockInv'
<1> SUFFICES ASSUME ClockInv, [KernelNext]_kernelVars PROVE Clocked' /\ Counted'
    BY KernelStep, NextIInv, InboxStep DEF ClockInv
<1>0. /\ IInv /\ Clocked /\ Counted /\ inbox \in Seq(Message)
      /\ triggered \in Nat /\ Timeout \in Nat /\ Never \notin Nat
      /\ pc \in [Proc -> CallPC \cup BootPC \cup HandlerPC]
      /\ Handler \in Proc /\ Handler \notin Call /\ ServerCall \subseteq Call /\ Call \subseteq Proc
    BY KernelAssumption, ProcAssumption DEF ClockInv, Receivable, IInv, TypeOK, Proc
<1>1. CASE (\E c \in ServerCall : ServerSends(c)) \/ Tick \/ UNCHANGED kernelVars
    <2>2. pc' = pc /\ triggered' = triggered
        BY <1>1 DEF ServerSends, Tick, kernelVars, vars
    <2>3. Cardinality(Heard') = Cardinality(Heard)
        BY <2>2 DEF Heard
    <2>4. silence' = silence \/ (silence # Never /\ silence < Timeout /\ silence' = silence + 1)
        BY <1>1 DEF ServerSends, Tick, kernelVars
    <2>5. QED
        BY <1>0, <2>2, <2>3, <2>4 DEF Clocked, Counted, Spent, SilentTooLong
<1>2. CASE Receive
    <2> DEFINE c == Head(inbox).call
    <2>1. /\ pc[Handler] = "polling" /\ pc[c] = "idle" /\ silence' = 0 /\ triggered' = triggered
          /\ \E place \in {"denied", "running", "allows"} : pc' = [pc EXCEPT ![c] = place]
        BY <1>2 DEF Receive, Arrive, Goto
    <2>a. Head(inbox) \in Message
        BY <1>0, <1>2 DEF Receive
    <2>2. c \in ServerCall
        BY <2>a DEF Message
    <2> HIDE DEF c
    <2>3. /\ pc'[Handler] = "polling" /\ pc'[c] # "idle"
          /\ \A d \in ServerCall : d # c => pc'[d] = pc[d]
        BY <1>0, <2>1, <2>2
    <2>4. Heard' = Heard \cup {c} /\ c \notin Heard
        BY <2>1, <2>2, <2>3 DEF Heard
    <2>5. Cardinality(Heard') = Cardinality(Heard) + 1 /\ Cardinality(Heard) \in Nat
        BY <2>4, HeardFinite, FS_AddElement
    <2>6. QED
        BY <1>0, <2>1, <2>3, <2>5 DEF Clocked, Counted, Spent
<1>3. CASE \E c \in Call \ ServerCall : MissionCalls(c)
    <2>1. /\ pc'[Handler] = pc[Handler] /\ silence' = silence /\ triggered' = triggered
          /\ \A d \in ServerCall : pc'[d] = pc[d]
        BY <1>0, <1>3 DEF MissionCalls, Arrive, Goto
    <2>2. Cardinality(Heard') = Cardinality(Heard)
        BY <2>1 DEF Heard
    <2>3. QED
        BY <1>0, <2>1, <2>2 DEF Clocked, Counted, Spent, SilentTooLong
<1>4. CASE Expire
    <2>1. /\ pc[Handler] = "polling" /\ pc'[Handler] = "asking" /\ silence' = silence
          /\ triggered' = triggered /\ SilentTooLong
          /\ \A d \in ServerCall : pc'[d] = pc[d]
        BY <1>0, <1>4 DEF Expire, TimerExpires, Goto
    <2>2. Cardinality(Heard') = Cardinality(Heard)
        BY <2>1 DEF Heard
    <2>3. QED
        BY <1>0, <2>1, <2>2 DEF Clocked, Counted, Spent, SilentTooLong
<1>5. CASE FinishFailsafe
    <2>1. /\ pc'[Handler] = "polling" /\ silence' = Never /\ triggered' = triggered
          /\ \A d \in ServerCall : pc'[d] = pc[d]
        BY <1>0, <1>5 DEF FinishFailsafe, EndFailsafe, Goto
    <2>2. Cardinality(Heard') = Cardinality(Heard)
        BY <2>1 DEF Heard
    <2>3. QED
        BY <1>0, <2>1, <2>2 DEF Clocked, Counted
<1>6. CASE Proceed
    <2>1. HandlerGoes /\ silence' = silence
        BY <1>0, <1>6, ProceedMoves DEF Proceed
    <2>2. /\ Cardinality(Heard) \in Nat /\ Cardinality(Heard') \in Nat
          /\ Cardinality(Heard) <= Cardinality(Heard')
        BY <1>0, <1>6, ProceedMoves, HeardGrows
    <2>3. Clocked'
        BY <1>0, <2>1 DEF Clocked, SilentTooLong, HandlerGoes
    <2>4. Counted'
        BY <1>0, <2>1, <2>2 DEF Counted, Clocked, SilentTooLong, Spent, HandlerGoes
    <2>5. QED
        BY <2>3, <2>4
<1>7. QED
    BY <1>1, <1>2, <1>3, <1>4, <1>5, <1>6 DEF KernelNext

(* command_handler.py:76-82: the handler sends the failsafe only after a silence of the whole
   timeout, and as many failsafes as there were messages before them, at most. *)
THEOREM OneFailsafeForOneSilence == KernelSpec => []OneFailsafePerSilence
<1>1. KernelInit => ClockInv
    <2> SUFFICES ASSUME KernelInit PROVE ClockInv
        OBVIOUS
    <2>1. pc[Handler] = "off" /\ triggered = 0 /\ silence = Never
        BY ProcAssumption DEF KernelInit, Init, Proc
    <2>2. QED
        BY <2>1, InitIInv, HeardFinite DEF KernelInit, ClockInv, Clocked, Counted, Receivable
<1>2. ClockInv => OneFailsafePerSilence
    BY DEF ClockInv, Clocked, Counted, Heard, OneFailsafePerSilence
<1>3. QED
    BY <1>1, <1>2, ClockStep, PTL DEF KernelSpec
=============================================================================
