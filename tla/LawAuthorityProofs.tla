------------------------- MODULE LawAuthorityProofs -------------------------
(***************************************************************************)
(* What holds of LawAuthority for every law file, every set of calls and   *)
(* every bound.                                                            *)
(***************************************************************************)
EXTENDS LawAuthority, WaitQueueProofs, WellFoundedInduction

(* The first of several matching rules exists: a set of indices has a least one. *)
LEMMA LeastIndex ==
    ASSUME NEW T, T \subseteq Nat, T # {}
    PROVE  \E i \in T : \A j \in T : i <= j
  <1> DEFINE R == OpToRel(<, Nat)
  <1>1. IsWellFoundedOn(R, Nat)
    BY NatLessThanWellFounded
  <1>2. PICK i \in T : \A j \in T : ~ (<<j, i>> \in R)
    BY <1>1, WFMin
  <1>3. \A j \in T : j < i => <<j, i>> \in R
    BY DEF OpToRel
  <1>4. \A j \in T : ~ (j < i)
    BY <1>2, <1>3
  <1>5. QED
    BY <1>4

(* The first rule that matches switches to a name of the law file. *)
LEMMA FirstHitType ==
    ASSUME NEW l \in Law, NEW command
    PROVE  FirstHit(l, command) \in LawName \cup {NoLaw}
  <1> DEFINE T == Hits(l, command)
  <1> SUFFICES ASSUME T # {} PROVE FirstHit(l, command) \in LawName
    BY DEF FirstHit
  <1>1. T \subseteq 1..Len(LawFile[l].match) /\ T \subseteq Nat
    BY DEF Hits
  <1>2. \E i \in T : \A j \in T : i <= j
    BY <1>1, LeastIndex
  <1>3. (CHOOSE i \in T : \A j \in T : i <= j) \in T
    BY <1>2
  <1>4. QED
    BY <1>1, <1>3, LawFileAssumption DEF FirstHit

LEMMA NextLawType ==
    ASSUME NEW l \in Law, NEW command
    PROVE  NextLaw(l, command) \in LawName \cup {NoLaw}
  BY FirstHitType, LawFileAssumption DEF NextLaw

LEMMA WithoutType ==
    ASSUME NEW waiting \in Seq(Proc), NEW p
    PROVE  Without(waiting, p) \in Seq(Proc)
  <1>1. CASE p \in Range(waiting)
    BY <1>1, RestOf
  <1>2. CASE p \notin Range(waiting)
    BY <1>2 DEF Without
  <1>3. QED
    BY <1>1, <1>2

(***************************************************************************)
(* The inductive invariant.  The lock alone does not keep the start-up     *)
(* commands apart from those of a switch: that no call gets past allows()  *)
(* before the first law is in force does.  A timer that has expired has    *)
(* been counted against the bound.                                         *)
(***************************************************************************)
TimerCounted == pc[Handler] \in {"asking", "reading"} => triggered < MaxFailsafes

IInv == TypeOK /\ LockHeld /\ KernelOpensWithLaw /\ TimerCounted

LEMMA InitIInv == Init => IInv
  BY LawFileAssumption, ProcAssumption
  DEF Init, IInv, TimerCounted, TypeOK, LockHeld, KernelOpensWithLaw, Proc, Reads, Writes, Sends,
      CallPC, BootPC, HandlerPC, Open, Ended

LEMMA NextIInv == IInv /\ [Next]_vars => IInv'
  <1> SUFFICES ASSUME IInv, [Next]_vars PROVE IInv'
    OBVIOUS
  <1> USE ProcAssumption, LawFileAssumption
      DEF IInv, Proc, Goto, lockVars, sendVars, lawVars, Sends, Reads, Writes,
          WaitsToRead, CallPC, BootPC, HandlerPC, Open, Ended
  <1>1. ASSUME NEW c \in Call, Arrive(c) PROVE IInv'
    <2>0. PICK command \in Command :
             /\ cmd' = [cmd EXCEPT ![c] = command]
             /\ pc' = [pc EXCEPT ![c] = IF Unidentified(command) THEN "denied"
                                        ELSE IF FromAuthority(command) THEN "running"
                                        ELSE "allows"]
      BY <1>1 DEF Arrive
    <2>a. cmd' \in [Call -> Command \cup {NoLaw}]
      BY <2>0 DEF TypeOK
    <2>1. TypeOK'
      BY <1>1, <2>0, <2>a DEF Arrive, TypeOK
    <2>2. LockHeld'
      BY <1>1, <2>0 DEF Arrive, TypeOK, LockHeld
    <2>3. KernelOpensWithLaw'
      BY <1>1, <2>0 DEF Arrive, TypeOK, KernelOpensWithLaw, FromAuthority
    <2>4. TimerCounted'
      BY <1>1, <2>0 DEF Arrive, TypeOK, TimerCounted
    <2>5. QED
      BY <2>1, <2>2, <2>3, <2>4
  <1>2. ASSUME NEW c \in Call, AllowsRaises(c) PROVE IInv'
    <2>1. TypeOK'
      BY <1>2 DEF AllowsRaises, TypeOK
    <2>2. LockHeld'
      BY <1>2 DEF AllowsRaises, TypeOK, LockHeld
    <2>3. KernelOpensWithLaw'
      BY <1>2 DEF AllowsRaises, TypeOK, KernelOpensWithLaw, FromAuthority
    <2>4. TimerCounted'
      BY <1>2 DEF AllowsRaises, TypeOK, TimerCounted
    <2>5. QED
      BY <2>1, <2>2, <2>3, <2>4
  <1>3. ASSUME NEW c \in Call, CheckAllows(c) PROVE IInv'
    <2>1. TypeOK'
      BY <1>3 DEF CheckAllows, TypeOK
    <2>2. LockHeld'
      BY <1>3 DEF CheckAllows, TypeOK, LockHeld
    <2>3. KernelOpensWithLaw'
      BY <1>3 DEF CheckAllows, TypeOK, KernelOpensWithLaw, FromAuthority
    <2>4. TimerCounted'
      BY <1>3 DEF CheckAllows, TypeOK, TimerCounted
    <2>5. QED
      BY <2>1, <2>2, <2>3, <2>4
  <1>4. ASSUME NEW c \in Call, KeepLaw(c) PROVE IInv'
    <2>1. TypeOK'
      BY <1>4 DEF KeepLaw, TypeOK
    <2>2. LockHeld'
      BY <1>4 DEF KeepLaw, TypeOK, LockHeld
    <2>3. KernelOpensWithLaw'
      BY <1>4 DEF KeepLaw, TypeOK, KernelOpensWithLaw, FromAuthority
    <2>4. TimerCounted'
      BY <1>4 DEF KeepLaw, TypeOK, TimerCounted
    <2>5. QED
      BY <2>1, <2>2, <2>3, <2>4
  <1>5. ASSUME NEW c \in Call, RequestSwitch(c) PROVE IInv'
    <2>a. law \in Law
      BY <1>5 DEF RequestSwitch, TypeOK, KernelOpensWithLaw
    <2>b. NextLaw(law, cmd[c]) \in LawName \cup {NoLaw}
      BY <2>a, NextLawType
    <2>c. queue' \in Seq(Proc)
      BY <1>5, AppendProperties DEF RequestSwitch, AskSwitch, TypeOK
    <2>d. target' \in [Proc -> LawName \cup {NoLaw}]
      BY <1>5, <2>b DEF RequestSwitch, AskSwitch, TypeOK
    <2>1. TypeOK'
      BY <1>5, <2>c, <2>d DEF RequestSwitch, AskSwitch, TypeOK
    <2>2. LockHeld'
      BY <1>5 DEF RequestSwitch, AskSwitch, NeedsSwitch, TypeOK, LockHeld
    <2>3. KernelOpensWithLaw'
      BY <1>5 DEF RequestSwitch, AskSwitch, NeedsSwitch, TypeOK, KernelOpensWithLaw, FromAuthority
    <2>4. TimerCounted'
      BY <1>5 DEF RequestSwitch, AskSwitch, TypeOK, TimerCounted
    <2>5. QED
      BY <2>1, <2>2, <2>3, <2>4
  <1>6. ASSUME NEW c \in Call, Answer(c) PROVE IInv'
    <2>1. TypeOK'
      BY <1>6 DEF Answer, TypeOK
    <2>2. LockHeld'
      BY <1>6 DEF Answer, TypeOK, LockHeld
    <2>3. KernelOpensWithLaw'
      BY <1>6 DEF Answer, TypeOK, KernelOpensWithLaw, FromAuthority
    <2>4. TimerCounted'
      BY <1>6 DEF Answer, TypeOK, TimerCounted
    <2>5. QED
      BY <2>1, <2>2, <2>3, <2>4
  <1>7. ASSUME NEW c \in Call, Cancel(c) PROVE IInv'
    <2>a. queue' \in Seq(Proc)
      BY <1>7, WithoutType DEF Cancel, TypeOK
    <2>b. todo' \in Seq(KernelCommand)
      BY <1>7 DEF Cancel, TypeOK
    <2>1. TypeOK'
      BY <1>7, <2>a, <2>b DEF Cancel, TypeOK
    <2>2. LockHeld'
      BY <1>7 DEF Cancel, TypeOK, LockHeld
    <2>3. KernelOpensWithLaw'
      BY <1>7 DEF Cancel, TypeOK, KernelOpensWithLaw, FromAuthority
    <2>4. TimerCounted'
      BY <1>7 DEF Cancel, TypeOK, TimerCounted
    <2>5. QED
      BY <2>1, <2>2, <2>3, <2>4
  <1>8. ASSUME NEW p \in Proc, AcquireRead(p) PROVE IInv'
    <2>1. TypeOK'
      BY <1>8 DEF AcquireRead, TypeOK
    <2>2. LockHeld'
      BY <1>8 DEF AcquireRead, TypeOK, LockHeld
    <2>3. KernelOpensWithLaw'
      BY <1>8 DEF AcquireRead, TypeOK, KernelOpensWithLaw, FromAuthority
    <2>4. TimerCounted'
      BY <1>8 DEF AcquireRead, TypeOK, TimerCounted
    <2>5. QED
      BY <2>1, <2>2, <2>3, <2>4
  <1>9. ASSUME NEW p \in Proc, EnterLaw(p) PROVE IInv'
    <2>1. TypeOK'
      BY <1>9 DEF EnterLaw, GrantedWrite, StartList, Resolve, TypeOK
    <2>a. pc' = [pc EXCEPT ![p] = "entering"] /\ pc[p] = "switch" /\ pc[Boot] # "startup"
      BY <1>9 DEF EnterLaw, KernelOpensWithLaw, TypeOK
    <2>b. writer' = p /\ writer = Nobody /\ readers = {} /\ readers' = {}
      BY <1>9 DEF EnterLaw, GrantedWrite
    <2>c. \A q \in Proc : pc'[q] = IF q = p THEN "entering" ELSE pc[q]
      BY <2>a DEF TypeOK
    <2>d. \A q \in Proc : pc[q] \notin Reads \cup Writes
      BY <2>b DEF LockHeld, TypeOK
    <2>2. LockHeld'
      <3>1. \A q \in Proc : q \in readers' <=> pc'[q] \in Reads
        BY <2>b, <2>c, <2>d
      <3>2. \A q \in Proc : writer' = q <=> pc'[q] \in Writes
        BY <2>b, <2>c, <2>d
      <3>3. \A q \in Proc : pc'[q] \in Writes \cup {"startup"} => q = p
        BY <2>a, <2>c, <2>d DEF TypeOK
      <3>4. QED
        BY <2>b, <3>1, <3>2, <3>3 DEF LockHeld
    <2>3. KernelOpensWithLaw'
      BY <1>9 DEF EnterLaw, GrantedWrite, StartList, Resolve, TypeOK, KernelOpensWithLaw, FromAuthority
    <2>4. TimerCounted'
      BY <1>9 DEF EnterLaw, TypeOK, TimerCounted
    <2>5. QED
      BY <2>1, <2>2, <2>3, <2>4
  <1>10. ASSUME NEW p \in Proc, SendCommand(p) PROVE IInv'
    <2>1. TypeOK'
      <3>1. todo' \in Seq(KernelCommand) /\ sent' \in Seq(KernelCommand) /\ ok' \in BOOLEAN
        BY <1>10 DEF SendCommand, TypeOK
      <3>2. QED
        BY <1>10, <3>1 DEF SendCommand, TypeOK
    <2>2. LockHeld'
      BY <1>10 DEF SendCommand, TypeOK, LockHeld
    <2>3. KernelOpensWithLaw'
      BY <1>10 DEF SendCommand, TypeOK, KernelOpensWithLaw, FromAuthority
    <2>4. TimerCounted'
      BY <1>10 DEF SendCommand, TypeOK, TimerCounted
    <2>5. QED
      BY <2>1, <2>2, <2>3, <2>4
  <1>11. ASSUME NEW p \in Proc, SendRaises(p) PROVE IInv'
    <2>1. TypeOK'
      BY <1>11 DEF SendRaises, TypeOK
    <2>2. LockHeld'
      BY <1>11 DEF SendRaises, TypeOK, LockHeld
    <2>3. KernelOpensWithLaw'
      BY <1>11 DEF SendRaises, TypeOK, KernelOpensWithLaw, FromAuthority
    <2>4. TimerCounted'
      BY <1>11 DEF SendRaises, TypeOK, TimerCounted
    <2>5. QED
      BY <2>1, <2>2, <2>3, <2>4
  <1>12. ASSUME NEW p \in Proc, CommitLaw(p) PROVE IInv'
    <2>1. TypeOK'
      BY <1>12 DEF CommitLaw, AfterSwitch, Resolve, TypeOK
    <2>2. LockHeld'
      BY <1>12 DEF CommitLaw, AfterSwitch, Resolve, TypeOK, LockHeld
    <2>3. KernelOpensWithLaw'
      BY <1>12 DEF CommitLaw, AfterSwitch, Resolve, TypeOK, KernelOpensWithLaw, FromAuthority
    <2>4. TimerCounted'
      BY <1>12 DEF CommitLaw, AfterSwitch, TypeOK, TimerCounted
    <2>5. QED
      BY <2>1, <2>2, <2>3, <2>4
  <1>13. ASSUME NEW p \in Proc, AbandonSwitch(p) PROVE IInv'
    <2>1. TypeOK'
      BY <1>13 DEF AbandonSwitch, TypeOK
    <2>2. LockHeld'
      BY <1>13 DEF AbandonSwitch, TypeOK, LockHeld
    <2>3. KernelOpensWithLaw'
      BY <1>13 DEF AbandonSwitch, TypeOK, KernelOpensWithLaw, FromAuthority
    <2>4. TimerCounted'
      BY <1>13 DEF AbandonSwitch, TypeOK, TimerCounted
    <2>5. QED
      BY <2>1, <2>2, <2>3, <2>4
  <1>14. CASE BootSwitch
    <2>1. TypeOK'
      BY <1>14 DEF BootSwitch, AskSwitch, TypeOK
    <2>2. LockHeld'
      BY <1>14 DEF BootSwitch, AskSwitch, TypeOK, LockHeld
    <2>3. KernelOpensWithLaw'
      BY <1>14 DEF BootSwitch, AskSwitch, TypeOK, KernelOpensWithLaw, FromAuthority
    <2>4. TimerCounted'
      BY <1>14 DEF BootSwitch, AskSwitch, TypeOK, TimerCounted
    <2>5. QED
      BY <2>1, <2>2, <2>3, <2>4
  <1>15. CASE BootFails
    <2>1. TypeOK'
      BY <1>15 DEF BootFails, TypeOK
    <2>2. LockHeld'
      BY <1>15 DEF BootFails, TypeOK, LockHeld
    <2>3. KernelOpensWithLaw'
      BY <1>15 DEF BootFails, TypeOK, KernelOpensWithLaw, FromAuthority
    <2>4. TimerCounted'
      BY <1>15 DEF BootFails, TypeOK, TimerCounted
    <2>5. QED
      BY <2>1, <2>2, <2>3, <2>4
  <1>16. CASE ReadLaw
    <2>a. queue' = Append(queue, Handler) \/ queue' = queue
      BY <1>16 DEF ReadLaw
    <2>q. queue \in Seq(Proc) /\ Handler \in Proc
      BY DEF TypeOK
    <2>b. queue' \in Seq(Proc)
      BY <2>a, <2>q, AppendProperties
    <2>c. triggered' \in 0..MaxFailsafes
      BY <1>16 DEF ReadLaw, TypeOK, TimerCounted
    <2>d. pc' \in [Proc -> CallPC \cup BootPC \cup HandlerPC]
          /\ pc'[Handler] \in HandlerPC /\ \A p \in Proc \ {Handler} : pc'[p] = pc[p]
      BY <1>16 DEF ReadLaw, TypeOK
    <2>1. TypeOK'
      BY <1>16, <2>b, <2>c, <2>d DEF ReadLaw, TypeOK
    <2>2. LockHeld'
      BY <1>16 DEF ReadLaw, TypeOK, LockHeld
    <2>3. KernelOpensWithLaw'
      BY <1>16 DEF ReadLaw, TypeOK, KernelOpensWithLaw, FromAuthority
    <2>4. TimerCounted'
      BY <1>16 DEF ReadLaw, TypeOK, TimerCounted
    <2>5. QED
      BY <2>1, <2>2, <2>3, <2>4
  <1>17. CASE BeginFailsafe
    <2>1. TypeOK'
      BY <1>17 DEF BeginFailsafe, GrantedWrite, StartList, TypeOK, KernelOpensWithLaw
    <2>a. pc' = [pc EXCEPT ![Handler] = "failsafing"] /\ pc[Handler] = "failsafe"
      BY <1>17 DEF BeginFailsafe
    <2>b. writer' = Handler /\ writer = Nobody /\ readers = {} /\ readers' = {}
      BY <1>17 DEF BeginFailsafe, GrantedWrite
    <2>2. LockHeld'
      BY <2>a, <2>b DEF TypeOK, LockHeld, KernelOpensWithLaw
    <2>3. KernelOpensWithLaw'
      BY <1>17 DEF BeginFailsafe, GrantedWrite, StartList, TypeOK, KernelOpensWithLaw, FromAuthority
    <2>4. TimerCounted'
      BY <1>17 DEF BeginFailsafe, TypeOK, TimerCounted
    <2>5. QED
      BY <2>1, <2>2, <2>3, <2>4
  <1>18. CASE EndFailsafe
    <2>1. TypeOK'
      BY <1>18 DEF EndFailsafe, TypeOK
    <2>2. LockHeld'
      BY <1>18 DEF EndFailsafe, TypeOK, LockHeld
    <2>3. KernelOpensWithLaw'
      BY <1>18 DEF EndFailsafe, TypeOK, KernelOpensWithLaw, FromAuthority
    <2>4. TimerCounted'
      BY <1>18 DEF EndFailsafe, TypeOK, TimerCounted
    <2>5. QED
      BY <2>1, <2>2, <2>3, <2>4
  <1>19. CASE TimerExpires
    <2>1. TypeOK'
      BY <1>19 DEF TimerExpires, TypeOK
    <2>2. LockHeld'
      BY <1>19 DEF TimerExpires, TypeOK, LockHeld
    <2>3. KernelOpensWithLaw'
      BY <1>19 DEF TimerExpires, TypeOK, KernelOpensWithLaw, FromAuthority
    <2>4. TimerCounted'
      BY <1>19 DEF TimerExpires, TypeOK, TimerCounted
    <2>5. QED
      BY <2>1, <2>2, <2>3, <2>4
  <1>20. CASE UNCHANGED vars
    BY <1>20 DEF vars, TypeOK, LockHeld, KernelOpensWithLaw, FromAuthority, TimerCounted
  <1>21. QED
    BY <1>1, <1>2, <1>3, <1>4, <1>5, <1>6, <1>7, <1>8, <1>9, <1>10, <1>11, <1>12, <1>13, <1>14, <1>15, <1>16, <1>17, <1>18, <1>19, <1>20 DEF Next, CallStep, Step, OwnStep

THEOREM Invariance == Spec => []IInv
  <1>1. Init => IInv
    BY InitIInv
  <1>2. IInv /\ [Next]_vars => IInv'
    BY NextIInv
  <1>3. QED
    BY <1>1, <1>2, PTL DEF Spec

(* Types, for every law file, every set of calls and every bound. *)
THEOREM Typing == Spec => []TypeOK
  <1>1. IInv => TypeOK
    BY DEF IInv
  <1>2. QED
    BY <1>1, Invariance, PTL

----------------------------------------------------------------------------
(* The queue of the writer lock. *)

(* A coroutine goes from a place where it does not wait for the lock to another. *)
LEMMA OthersWait ==
    ASSUME TypeOK, NEW p \in Proc, NEW place, pc' = [pc EXCEPT ![p] = place]
    PROVE  ToWrite' = IF place \in {"switch", "failsafe"} THEN ToWrite \cup {p} ELSE ToWrite \ {p}
  <1>1. \A q \in Proc : pc'[q] = IF q = p THEN place ELSE pc[q]
    BY DEF TypeOK
  <1>2. QED
    BY <1>1 DEF ToWrite

LEMMA QueueStays ==
    ASSUME TypeOK, QueueKept, NEW p \in Proc, p \notin ToWrite, NEW place,
           place \notin {"switch", "failsafe"}, pc' = [pc EXCEPT ![p] = place], queue' = queue
    PROVE  QueueKept'
  <1>1. ToWrite' = ToWrite
    <2>1. ToWrite' = ToWrite \ {p}
      BY OthersWait
    <2>2. QED
      BY <2>1
  <1>2. QED
    BY <1>1 DEF QueueKept

LEMMA QueueAsked ==
    ASSUME TypeOK, QueueKept, NEW p \in Proc, p \notin ToWrite, NEW place \in {"switch", "failsafe"},
           pc' = [pc EXCEPT ![p] = place], queue' = Append(queue, p)
    PROVE  QueueKept'
  <1>1. ToWrite' = ToWrite \cup {p}
    BY OthersWait
  <1>2. IsInjective(queue') /\ Range(queue') = Range(queue) \cup {p}
    BY QueueGrows DEF QueueKept, TypeOK
  <1>3. QED
    BY <1>1, <1>2 DEF QueueKept

LEMMA QueueGranted ==
    ASSUME TypeOK, QueueKept, NEW p \in Proc, GrantedWrite(p), NEW place,
           place \notin {"switch", "failsafe"}, pc' = [pc EXCEPT ![p] = place]
    PROVE  QueueKept'
  <1>1. ToWrite' = ToWrite \ {p}
    BY OthersWait
  <1>2. IsInjective(queue') /\ Range(queue') = Range(queue) \ {p}
    BY QueueMoves DEF QueueKept, TypeOK, GrantedWrite
  <1>3. QED
    BY <1>1, <1>2 DEF QueueKept

LEMMA QueueStep == IInv /\ QueueKept /\ [Next]_vars => QueueKept'
  <1> SUFFICES ASSUME IInv, QueueKept, [Next]_vars PROVE QueueKept'
    OBVIOUS
  <1> USE ProcAssumption DEF Goto, lockVars
  <1>t. TypeOK /\ KernelOpensWithLaw /\ Call \subseteq Proc /\ Boot \in Proc /\ Handler \in Proc
    BY DEF IInv, Proc
  <1>1. ASSUME NEW c \in Call, Arrive(c) \/ AllowsRaises(c) \/ CheckAllows(c) \/ KeepLaw(c) \/ Answer(c)
        PROVE  QueueKept'
    <2>1. c \notin ToWrite /\ queue' = queue
      BY <1>1 DEF ToWrite, Arrive, AllowsRaises, CheckAllows, KeepLaw, Answer
    <2>2. PICK place \in {"denied", "running", "allows", "failed", "match", "answered"} :
             pc' = [pc EXCEPT ![c] = place]
      BY <1>1 DEF Arrive, AllowsRaises, CheckAllows, KeepLaw, Answer
    <2>3. QED
      BY <1>t, <2>1, <2>2, QueueStays
  <1>2. ASSUME NEW c \in Call, RequestSwitch(c) PROVE QueueKept'
    <2>1. c \notin ToWrite /\ pc' = [pc EXCEPT ![c] = "switch"] /\ queue' = Append(queue, c)
      BY <1>2 DEF ToWrite, RequestSwitch, AskSwitch
    <2>2. QED
      BY <1>t, <2>1, QueueAsked
  <1>3. ASSUME NEW c \in Call, Cancel(c) PROVE QueueKept'
    <2>1. pc' = [pc EXCEPT ![c] = "cancelled"] /\ queue' = Without(queue, c)
      BY <1>3 DEF Cancel
    <2>2. ToWrite' = ToWrite \ {c}
      BY <1>t, <2>1, OthersWait
    <2>3. IsInjective(queue') /\ Range(queue') = Range(queue) \ {c}
      BY <1>t, <2>1, QueueLoses DEF QueueKept, TypeOK
    <2>4. QED
      BY <2>2, <2>3 DEF QueueKept
  <1>4. ASSUME NEW p \in Proc, AcquireRead(p) \/ SendRaises(p) \/ AbandonSwitch(p)
        PROVE  QueueKept'
    <2>1. p \notin ToWrite /\ queue' = queue
      BY <1>4 DEF ToWrite, AcquireRead, WaitsToRead, SendRaises, Sends, Writes, AbandonSwitch
    <2>2. PICK place \in {"checking", "matching", "reading", "down", "dead", "failed", "running"} :
             pc' = [pc EXCEPT ![p] = place]
      BY <1>4 DEF AcquireRead, WaitsToRead, SendRaises, AbandonSwitch
    <2>3. QED
      BY <1>t, <2>1, <2>2, QueueStays
  <1>5. ASSUME NEW p \in Proc, EnterLaw(p) PROVE QueueKept'
    BY <1>t, <1>5, QueueGranted DEF EnterLaw
  <1>6. ASSUME NEW p \in Proc, SendCommand(p) PROVE QueueKept'
    BY <1>6 DEF SendCommand, QueueKept, ToWrite
  <1>7. ASSUME NEW p \in Proc, CommitLaw(p) PROVE QueueKept'
    <2>1. p \notin ToWrite /\ pc[p] = "entering" /\ queue' = queue
      BY <1>7 DEF ToWrite, CommitLaw
    <2>2. CASE p # Boot
      BY <1>t, <1>7, <2>1, <2>2, QueueStays DEF CommitLaw, AfterSwitch
    <2>3. CASE p = Boot
      <3>1. pc[Handler] = "off" /\ pc' = [pc EXCEPT ![Boot] = "up", ![Handler] = "polling"]
        BY <1>t, <1>7, <2>1, <2>3 DEF KernelOpensWithLaw, CommitLaw, AfterSwitch
      <3>2. ToWrite' = ToWrite
        BY <1>t, <2>1, <2>3, <3>1 DEF ToWrite, TypeOK
      <3>3. QED
        BY <2>1, <3>2 DEF QueueKept
    <2>4. QED
      BY <2>2, <2>3
  <1>8. CASE BootSwitch
    <2>1. Boot \notin ToWrite /\ pc' = [pc EXCEPT ![Boot] = "switch"] /\ queue' = Append(queue, Boot)
      BY <1>8 DEF ToWrite, BootSwitch, AskSwitch
    <2>2. QED
      BY <1>t, <2>1, QueueAsked
  <1>9. CASE BootFails
    <2>1. Boot \notin ToWrite /\ pc' = [pc EXCEPT ![Boot] = "down"] /\ queue' = queue
      BY <1>9 DEF ToWrite, BootFails
    <2>2. QED
      BY <1>t, <2>1, QueueStays
  <1>10. CASE ReadLaw
    <2>1. Handler \notin ToWrite
      BY <1>10 DEF ToWrite, ReadLaw
    <2>2. CASE law = Remote
      BY <1>t, <1>10, <2>1, <2>2, QueueAsked DEF ReadLaw
    <2>3. CASE law # Remote
      BY <1>t, <1>10, <2>1, <2>3, QueueStays DEF ReadLaw
    <2>4. QED
      BY <2>2, <2>3
  <1>11. CASE BeginFailsafe
    BY <1>t, <1>11, QueueGranted DEF BeginFailsafe
  <1>12. CASE EndFailsafe \/ TimerExpires
    <2>1. Handler \notin ToWrite /\ queue' = queue
      BY <1>12 DEF ToWrite, EndFailsafe, TimerExpires
    <2>2. PICK place \in {"polling", "asking"} : pc' = [pc EXCEPT ![Handler] = place]
      BY <1>12 DEF EndFailsafe, TimerExpires
    <2>3. QED
      BY <1>t, <2>1, <2>2, QueueStays
  <1>13. CASE UNCHANGED vars
    BY <1>13 DEF vars, QueueKept, ToWrite
  <1>14. QED
    BY <1>1, <1>2, <1>3, <1>4, <1>5, <1>6, <1>7, <1>8, <1>9, <1>10, <1>11, <1>12, <1>13
    DEF Next, CallStep, Step, OwnStep

(***************************************************************************)
(* The lock is held exactly by the coroutine inside an async with block,   *)
(* only one coroutine sends authority commands, and the writers waiting    *)
(* are those in the queue, whatever raises or is cancelled                 *)
(* (authority.py:123, 134, 160, 177, 198).                                 *)
(***************************************************************************)
THEOREM LockSafety == Spec => []LockSafe
  <1>1. Init => QueueKept
    BY DEF Init, QueueKept, ToWrite, Range, IsInjective
  <1>2. IInv => LockHeld
    BY DEF IInv
  <1>3. QED
    BY <1>1, <1>2, QueueStep, Invariance, PTL DEF Spec, LockSafe

(* No judged call gets through before a law is in force (main.py:75-86). *)
THEOREM KernelOpening == Spec => []KernelOpensWithLaw
  <1>1. IInv => KernelOpensWithLaw
    BY DEF IInv
  <1>2. QED
    BY <1>1, Invariance, PTL

----------------------------------------------------------------------------
(* What the lock protects: the failsafe runs with the law and the calls frozen. *)

LEMMA FailsafeUndisturbedByStep ==
    IInv /\ [Next]_vars => FailsafeUndisturbedStep
  <1> SUFFICES ASSUME IInv, [Next]_vars, pc[Handler] = "failsafing"
               PROVE  /\ law' = law
                      /\ \A c \in Call : pc'[c] # pc[c] =>
                            pc[c] \in {"idle", "running"} \/ pc'[c] = "cancelled"
    BY DEF FailsafeUndisturbedStep
  <1> USE ProcAssumption DEF IInv, Proc
  <1>a. writer = Handler /\ readers = {}
    BY DEF LockHeld, Writes
  <1>b. \A c \in Call : pc[c] \notin Reads \cup Writes
    BY <1>a, ProcAssumption DEF LockHeld
  <1>c. pc[Boot] \notin Reads \cup Writes \cup {"startup"}
    BY <1>a DEF LockHeld, Sends, Writes
  <1>d. \A p \in Proc : ~ AcquireRead(p) /\ ~ GrantedWrite(p)
    BY <1>a DEF AcquireRead, GrantedWrite
  <1> USE DEF Goto, Reads, Writes, TypeOK
  <1>1. CASE \E c \in Call : Arrive(c)
    BY <1>1 DEF Arrive, lawVars
  <1>2. CASE \E c \in Call : CallStep(c)
    BY <1>2, <1>b DEF CallStep, AllowsRaises, CheckAllows, KeepLaw, RequestSwitch, Answer, lawVars
  <1>3. CASE \E c \in Call : Cancel(c)
    BY <1>3 DEF Cancel, lawVars
  <1>4. ASSUME NEW p \in Proc, Step(p) PROVE law' = law /\ \A c \in Call : pc'[c] = pc[c]
    <2>1. CASE p = Handler
      BY <1>4, <1>d, <2>1 DEF Step, EnterLaw, SendCommand, SendRaises, CommitLaw, AbandonSwitch, lawVars
    <2>2. CASE p # Handler
      <3>1. ~ Sends(p)
        BY <2>2 DEF LockHeld, Sends
      <3>2. QED
        BY <1>4, <1>d, <3>1
        DEF Step, EnterLaw, SendCommand, SendRaises, CommitLaw, AbandonSwitch, Sends
    <2>3. QED
      BY <2>1, <2>2
  <1>5. CASE OwnStep
    BY <1>5, <1>c DEF OwnStep, BootSwitch, BootFails, ReadLaw, BeginFailsafe, EndFailsafe, AskSwitch, lawVars
  <1>6. CASE TimerExpires
    BY <1>6 DEF TimerExpires, lawVars
  <1>7. CASE UNCHANGED vars
    BY <1>7 DEF vars, lawVars
  <1>8. QED
    BY <1>1, <1>2, <1>3, <1>4, <1>5, <1>6, <1>7 DEF Next

(***************************************************************************)
(* Between the first and the last command of a failsafe the law does not   *)
(* change and no call is judged, matched or let through (authority.py:160).*)
(***************************************************************************)
THEOREM FailsafeIsUndisturbed == Spec => FailsafeUndisturbed
  <1>1. IInv /\ [Next]_vars => [FailsafeUndisturbedStep]_vars
    BY FailsafeUndisturbedByStep
  <1>2. QED
    BY <1>1, Invariance, PTL DEF Spec, FailsafeUndisturbed

----------------------------------------------------------------------------
(* The base law's callers. *)

LEMMA OperatorNeverDeniedStep ==
    IInv /\ OperatorNeverDenied /\ [Next]_vars => OperatorNeverDenied'
  <1> SUFFICES ASSUME IInv, OperatorNeverDenied, [Next]_vars, NEW c \in Call, pc'[c] = "denied"
               PROVE  Unidentified(cmd'[c]) \/ ~AllowedBy(Base, cmd'[c])
    BY DEF OperatorNeverDenied, Unidentified
  <1> USE ProcAssumption DEF IInv, TypeOK, Proc, Goto
  <1>1. CASE pc[c] = "denied" /\ cmd'[c] = cmd[c]
    BY <1>1 DEF OperatorNeverDenied, Unidentified
  <1>2. CASE Arrive(c)
    BY <1>2 DEF Arrive, Unidentified
  <1>3. CASE CheckAllows(c)
    BY <1>3 DEF CheckAllows, Allows
  <1>4. CASE ~Arrive(c) /\ ~CheckAllows(c)
    <2>1. \A d \in Call : Arrive(d) => d # c /\ pc'[c] = pc[c] /\ cmd'[c] = cmd[c]
      BY <1>4 DEF Arrive
    <2>2. \A d \in Call : CallStep(d) \/ Cancel(d) => cmd' = cmd /\ pc[c] = "denied"
      BY <1>4 DEF CallStep, AllowsRaises, CheckAllows, KeepLaw, RequestSwitch, AskSwitch, Answer, Cancel, lawVars
    <2>3. ASSUME NEW p \in Proc, Step(p) PROVE cmd' = cmd /\ pc[c] = "denied"
      <3>1. CASE AcquireRead(p)
        BY <3>1 DEF AcquireRead, WaitsToRead
      <3>2. CASE CommitLaw(p)
        BY <3>2 DEF CommitLaw, AfterSwitch
      <3>3. CASE EnterLaw(p) \/ SendCommand(p) \/ SendRaises(p) \/ AbandonSwitch(p)
        BY <3>3 DEF EnterLaw, SendCommand, SendRaises, AbandonSwitch
      <3>4. QED
        BY <2>3, <3>1, <3>2, <3>3 DEF Step
    <2>4. OwnStep \/ TimerExpires => cmd' = cmd /\ pc[c] = "denied"
      BY DEF OwnStep, BootSwitch, BootFails, ReadLaw, BeginFailsafe, EndFailsafe, TimerExpires, AskSwitch
    <2>5. UNCHANGED vars => cmd' = cmd /\ pc[c] = "denied"
      BY DEF vars
    <2>6. QED
      BY <1>1, <2>1, <2>2, <2>3, <2>4, <2>5 DEF Next
  <1>5. QED
    BY <1>2, <1>3, <1>4

(* The operator is never shut out, whichever law is in force (authority.py:124). *)
THEOREM OperatorIsNeverDenied == Spec => []OperatorNeverDenied
  <1>1. Init => OperatorNeverDenied
    BY ProcAssumption DEF Init, OperatorNeverDenied, Proc
  <1>2. IInv /\ OperatorNeverDenied /\ [Next]_vars => OperatorNeverDenied'
    BY OperatorNeverDeniedStep
  <1>3. QED
    BY <1>1, <1>2, Invariance, PTL DEF Spec

----------------------------------------------------------------------------
(* What a switch sends: all the enter commands of the law it commits. *)

LEMMA MoveHead ==
    ASSUME NEW S, NEW s \in Seq(S), NEW t \in Seq(S), t # <<>>
    PROVE  Append(s, Head(t)) \o Tail(t) = s \o t
  <1>1. Head(t) \in S /\ Tail(t) \in Seq(S) /\ t = <<Head(t)>> \o Tail(t)
    OBVIOUS
  <1>2. Append(s, Head(t)) = s \o <<Head(t)>>
    BY <1>1
  <1>3. QED
    BY <1>1, <1>2

(***************************************************************************)
(* The list a switch is sending is the enter list of its target; a list of *)
(* which nothing was sent has not failed; start() switches to the base.    *)
(***************************************************************************)
EnterListKept ==
    \A p \in Proc : pc[p] = "entering" =>
        sent \o todo = LawFile[Resolve(target[p])].enter
SwitchInv ==
    /\ EnterListKept
    /\ sent = <<>> => ok
    /\ pc[Boot] \in {"switch", "entering"} => target[Boot] = Base

LEMMA SwitchInvStep == IInv /\ SwitchInv /\ [Next]_vars => SwitchInv'
  <1> SUFFICES ASSUME IInv, SwitchInv, [Next]_vars PROVE SwitchInv'
    OBVIOUS
  <1> USE ProcAssumption, LawFileAssumption
      DEF IInv, Proc, Goto, lockVars, sendVars, lawVars, Writes
  <1>a. \A p, q \in Proc : pc[p] \in Writes \cup {"startup"} /\ pc[q] \in Writes \cup {"startup"} => p = q
    BY DEF LockHeld, Sends
  <1>1. ASSUME NEW c \in Call, Arrive(c) PROVE SwitchInv'
    BY <1>1 DEF Arrive, SwitchInv, EnterListKept, TypeOK
  <1>2. ASSUME NEW c \in Call, CallStep(c) PROVE SwitchInv'
    <2>1. CASE AllowsRaises(c) \/ CheckAllows(c)
      BY <2>1 DEF AllowsRaises, CheckAllows, SwitchInv, EnterListKept, TypeOK
    <2>2. CASE KeepLaw(c) \/ RequestSwitch(c)
      BY <2>2 DEF KeepLaw, RequestSwitch, AskSwitch, SwitchInv, EnterListKept, TypeOK
    <2>3. CASE Answer(c)
      BY <2>3 DEF Answer, SwitchInv, EnterListKept, TypeOK
    <2>4. QED
      BY <1>2, <2>1, <2>2, <2>3 DEF CallStep
  <1>3. ASSUME NEW c \in Call, Cancel(c) PROVE SwitchInv'
    <2>1. CASE writer = c
      <3>1. \A p \in Proc : pc[p] = "entering" => p = c
        BY <2>1 DEF LockHeld
      <3>2. QED
        BY <1>3, <2>1, <3>1 DEF Cancel, SwitchInv, EnterListKept, TypeOK
    <2>2. CASE writer # c
      BY <1>3, <2>2 DEF Cancel, SwitchInv, EnterListKept, TypeOK
    <2>3. QED
      BY <2>1, <2>2
  <1>4. ASSUME NEW p \in Proc, AcquireRead(p) PROVE SwitchInv'
    BY <1>4 DEF AcquireRead, WaitsToRead, SwitchInv, EnterListKept, TypeOK
  <1>5. ASSUME NEW p \in Proc, EnterLaw(p) PROVE SwitchInv'
    <2>1. LawFile[Resolve(target[p])].enter \in Seq(KernelCommand)
      BY DEF Resolve
    <2>2. sent' \o todo' = LawFile[Resolve(target[p])].enter
      BY <1>5, <2>1 DEF EnterLaw, StartList
    <2>3. \A q \in Proc : q # p => pc[q] # "entering"
      BY <1>5 DEF EnterLaw, GrantedWrite, LockHeld
    <2>4. QED
      BY <1>5, <2>2, <2>3 DEF EnterLaw, GrantedWrite, StartList, SwitchInv, EnterListKept, TypeOK
  <1>6. ASSUME NEW p \in Proc, SendCommand(p) PROVE SwitchInv'
    <2>1. sent' \o todo' = sent \o todo
      BY <1>6, MoveHead DEF SendCommand, TypeOK
    <2>a. sent \in Seq(KernelCommand) /\ Head(todo) \in KernelCommand /\ sent' = Append(sent, Head(todo))
      BY <1>6 DEF SendCommand, TypeOK
    <2>2. sent' # <<>>
      BY <2>a, AppendProperties
    <2>3. QED
      BY <1>6, <2>1, <2>2 DEF SendCommand, SwitchInv, EnterListKept
  <1>7. ASSUME NEW p \in Proc, SendRaises(p) PROVE SwitchInv'
    <2>1. \A q \in Proc : q # p => pc[q] # "entering"
      BY <1>7, <1>a DEF SendRaises, Sends
    <2>2. QED
      BY <1>7, <2>1 DEF SendRaises, SwitchInv, EnterListKept, TypeOK
  <1>8. ASSUME NEW p \in Proc, CommitLaw(p) \/ AbandonSwitch(p) PROVE SwitchInv'
    BY <1>8 DEF CommitLaw, AbandonSwitch, AfterSwitch, SwitchInv, EnterListKept, TypeOK
  <1>9. CASE BootSwitch
    BY <1>9 DEF BootSwitch, AskSwitch, SwitchInv, EnterListKept, TypeOK
  <1>10. CASE BeginFailsafe
    <2>1. \A q \in Proc : pc[q] # "entering"
      BY <1>10 DEF BeginFailsafe, GrantedWrite, LockHeld
    <2>2. QED
      BY <1>10, <2>1 DEF BeginFailsafe, StartList, SwitchInv, EnterListKept, TypeOK
  <1>11. CASE BootFails \/ ReadLaw \/ EndFailsafe \/ TimerExpires
    BY <1>11 DEF BootFails, ReadLaw, EndFailsafe, TimerExpires, SwitchInv, EnterListKept, TypeOK
  <1>12. CASE UNCHANGED vars
    BY <1>12 DEF vars, SwitchInv, EnterListKept
  <1>13. QED
    BY <1>1, <1>2, <1>3, <1>4, <1>5, <1>6, <1>7, <1>8, <1>9, <1>10, <1>11, <1>12
    DEF Next, Step, OwnStep

LEMMA SwitchInvariance == Spec => [](IInv /\ SwitchInv)
  <1>1. Init => SwitchInv
    BY ProcAssumption DEF Init, SwitchInv, EnterListKept, Proc
  <1>2. IInv /\ SwitchInv /\ [Next]_vars => SwitchInv'
    BY SwitchInvStep
  <1>3. QED
    BY <1>1, <1>2, Invariance, PTL DEF Spec

(* Only CommitLaw changes the law. *)
LEMMA LawChange ==
    ASSUME IInv, [Next]_vars, law' # law
    PROVE  \E p \in Proc : CommitLaw(p)
  BY DEF Next, CallStep, Step, OwnStep, Arrive, AllowsRaises, CheckAllows, KeepLaw, RequestSwitch,
         Answer, Cancel, AcquireRead, EnterLaw, SendCommand, SendRaises, AbandonSwitch, BootSwitch,
         BootFails, ReadLaw, BeginFailsafe, EndFailsafe, TimerExpires, lawVars, vars

LEMMA SwitchEarnedByStep == IInv /\ SwitchInv /\ [Next]_vars => SwitchEarnedStep
  <1> SUFFICES ASSUME IInv, SwitchInv, [Next]_vars, law' # law PROVE SwitchEarnedStep
    BY DEF SwitchEarnedStep
  <1>1. PICK p \in Proc : CommitLaw(p)
    BY LawChange
  <1>2. writer = p /\ readers = {} /\ pc[p] = "entering"
    BY <1>1, ProcAssumption DEF CommitLaw, IInv, LockHeld, Writes
  <1>3. sent = LawFile[Resolve(target[p])].enter
    BY <1>1, <1>2 DEF CommitLaw, SwitchInv, EnterListKept, IInv, TypeOK
  <1>4. Resolve(target[p]) \in Law
    BY LawFileAssumption DEF Resolve
  <1>5. QED
    BY <1>1, <1>2, <1>3, <1>4 DEF SwitchEarnedStep, CommitLaw

(***************************************************************************)
(* A law comes into force only when its enter commands were all sent and   *)
(* all COMPLETED, under the writer lock and with no reader                 *)
(* (authority.py:177-189).                                                 *)
(***************************************************************************)
THEOREM SwitchIsEarned == Spec => SwitchEarned
  <1>1. IInv /\ SwitchInv /\ [Next]_vars => [SwitchEarnedStep]_vars
    BY SwitchEarnedByStep
  <1>2. QED
    BY <1>1, SwitchInvariance, PTL DEF Spec, SwitchEarned

----------------------------------------------------------------------------
(***************************************************************************)
(* LawAuthority implements LawControl, for every instance: the lock, the   *)
(* enter commands, cancellation and the failsafe are invisible to callers. *)
(***************************************************************************)

phase == [c \in Call |-> Phase(pc[c])]
wish  == [c \in Call |-> target[c]]

LEMMA PhaseValues ==
    /\ Phase("idle") = "idle" /\ Phase("running") = "running"
    /\ \A v \in {"allows", "checking"} : Phase(v) = "pending"
    /\ \A v \in {"match", "matching"} : Phase(v) = "admitted"
    /\ \A v \in {"switch", "entering"} : Phase(v) = "asking"
    /\ \A v \in Ended : Phase(v) = "closed"
  BY DEF Phase, Ended

(* A coroutine that is not a call moves without the callers noticing. *)
LEMMA CallsUnmoved ==
    ASSUME TypeOK, NEW p \in {Boot, Handler}, NEW v, NEW w, pc' = [pc EXCEPT ![p] = v]
    PROVE  phase' = phase
  <1>1. \A c \in Call : pc'[c] = pc[c]
    BY ProcAssumption DEF TypeOK, Proc
  <1>2. QED
    BY <1>1 DEF phase

(* A call moves from one phase to another. *)
MovesCall(c, from, to) ==
    \E v : pc' = [pc EXCEPT ![c] = v] /\ Phase(pc[c]) = from /\ Phase(v) = to

LEMMA CallMoves ==
    ASSUME TypeOK, NEW c \in Call, NEW from, NEW to, MovesCall(c, from, to)
    PROVE  phase' = [phase EXCEPT ![c] = to] /\ phase[c] = from
  <1>v. PICK v : pc' = [pc EXCEPT ![c] = v] /\ Phase(pc[c]) = from /\ Phase(v) = to
    BY DEF MovesCall
  <1>1. pc'[c] = v /\ \A d \in Call \ {c} : pc'[d] = pc[d]
    BY <1>v DEF TypeOK, Proc
  <1>2. phase'[c] = to /\ \A d \in Call \ {c} : phase'[d] = phase[d]
    BY <1>v, <1>1 DEF phase
  <1>3. phase = [d \in Call |-> phase[d]] /\ phase' = [d \in Call |-> phase'[d]]
    BY DEF phase
  <1>4. phase' = [phase EXCEPT ![c] = to]
    BY <1>2, <1>3
  <1>5. QED
    BY <1>v, <1>4 DEF phase

(* A move within one phase is a stutter. *)
LEMMA SamePhase ==
    ASSUME TypeOK, NEW c \in Call, NEW at, MovesCall(c, at, at)
    PROVE  phase' = phase
  <1>1. phase' = [phase EXCEPT ![c] = phase[c]]
    BY CallMoves
  <1>2. QED
    BY <1>1 DEF phase

(* Both modules read the law file with the same functions. *)
LEMMA SameNextLaw == \A l, command : Control!NextLaw(l, command) = NextLaw(l, command)
  BY DEF NextLaw, Control!NextLaw, FirstHit, Control!FirstHit, Hits, Control!Hits,
         CheckEqual, Control!CheckEqual, NameMatches, Control!NameMatches,
         Visible, Control!Visible, Wildcard, Control!Wildcard, DefaultValue, Control!DefaultValue

LEMMA SameAllows == \A l, command : Control!Allows(l, command) = Allows(l, command)
  BY DEF Allows, Control!Allows, AllowedBy, Control!AllowedBy,
         CheckEqual, Control!CheckEqual, NameMatches, Control!NameMatches,
         Visible, Control!Visible, Wildcard, Control!Wildcard, DefaultValue, Control!DefaultValue

LEMMA RefinesInit == Init => Control!Init
  BY PhaseValues, ProcAssumption DEF Init, Control!Init, Proc

LEMMA RefinesStep == IInv /\ SwitchInv /\ [Next]_vars => [Control!Next]_(Control!vars)
  <1> SUFFICES ASSUME IInv, SwitchInv, [Next]_vars
               PROVE  Control!Next \/ UNCHANGED Control!vars
    OBVIOUS
  <1> USE ProcAssumption, LawFileAssumption DEF Proc, Goto, lawVars, lockVars, sendVars
  <1>t. TypeOK /\ LockHeld /\ KernelOpensWithLaw
    BY DEF IInv
  <1>s. phase' = phase /\ wish' = wish /\ law' = law /\ cmd' = cmd => UNCHANGED Control!vars
    BY DEF Control!vars, phase, wish
  <1>w. target' = target => wish' = wish
    BY DEF wish
  <1>1. ASSUME NEW c \in Call, Arrive(c) PROVE Control!Next
    <2>1. PICK command \in Command :
             /\ cmd' = [cmd EXCEPT ![c] = command]
             /\ pc' = [pc EXCEPT ![c] = IF Unidentified(command) THEN "denied"
                                        ELSE IF FromAuthority(command) THEN "running"
                                        ELSE "allows"]
      BY <1>1 DEF Arrive
    <2>i. pc[c] = "idle"
      BY <1>1 DEF Arrive
    <2>2. phase' = [phase EXCEPT ![c] = CASE command.identity = "" -> "closed"
                                          [] command.identity = "authority" -> "running"
                                          [] OTHER -> "pending"]
      <3>1. CASE Unidentified(command)
        <4>1. pc' = [pc EXCEPT ![c] = "denied"]
          BY <2>1, <3>1
        <4>2. MovesCall(c, "idle", "closed")
          BY PhaseValues, <2>i, <4>1 DEF MovesCall, Ended
        <4>3. QED
          BY <1>t, <3>1, <4>2, CallMoves DEF Unidentified, FromAuthority
      <3>2. CASE ~Unidentified(command) /\ FromAuthority(command)
        <4>1. pc' = [pc EXCEPT ![c] = "running"]
          BY <2>1, <3>2
        <4>2. MovesCall(c, "idle", "running")
          BY PhaseValues, <2>i, <4>1 DEF MovesCall
        <4>3. QED
          BY <1>t, <3>2, <4>2, CallMoves DEF Unidentified, FromAuthority
      <3>3. CASE ~Unidentified(command) /\ ~FromAuthority(command)
        <4>1. pc' = [pc EXCEPT ![c] = "allows"]
          BY <2>1, <3>3
        <4>2. MovesCall(c, "idle", "pending")
          BY PhaseValues, <2>i, <4>1 DEF MovesCall
        <4>3. QED
          BY <1>t, <3>3, <4>2, CallMoves DEF Unidentified, FromAuthority
      <3>4. QED
        BY <3>1, <3>2, <3>3
    <2>3. phase[c] = "idle" /\ law' = law /\ wish' = wish
      BY PhaseValues, <1>1, <1>w DEF Arrive, phase
    <2>4. Control!Arrive(c)
      BY <2>1, <2>2, <2>3 DEF Control!Arrive, phase, wish
    <2>5. QED
      BY <2>4 DEF Control!Next
  <1>2. ASSUME NEW c \in Call, AllowsRaises(c) PROVE Control!Next
    <2>m. MovesCall(c, "pending", "closed")
      BY PhaseValues, <1>t, <1>2 DEF MovesCall, AllowsRaises, Ended
    <2>1. phase' = [phase EXCEPT ![c] = "closed"] /\ phase[c] = "pending"
      BY <1>t, <2>m, CallMoves
    <2>2. Control!Close(c)
      BY <1>2, <1>w, <2>1 DEF AllowsRaises, Control!Close, phase, wish
    <2>3. QED
      BY <2>2 DEF Control!Next
  <1>3. ASSUME NEW c \in Call, CheckAllows(c) PROVE Control!Next
    <2>1. CASE Allows(law, cmd[c])
      <3>m. MovesCall(c, "pending", "admitted")
        BY PhaseValues, <1>t, <1>3, <2>1 DEF MovesCall, CheckAllows, Ended
      <3>1. phase' = [phase EXCEPT ![c] = "admitted"] /\ phase[c] = "pending"
        BY <1>t, <3>m, CallMoves, <2>1
      <3>2. Control!Admit(c)
        BY <1>3, <1>w, <2>1, <3>1, SameAllows DEF CheckAllows, Control!Admit, phase, wish
      <3>3. QED
        BY <3>2 DEF Control!Next
    <2>2. CASE ~Allows(law, cmd[c])
      <3>m. MovesCall(c, "pending", "closed")
        BY PhaseValues, <1>t, <1>3, <2>2 DEF MovesCall, CheckAllows, Ended
      <3>1. phase' = [phase EXCEPT ![c] = "closed"] /\ phase[c] = "pending"
        BY <1>t, <3>m, CallMoves
      <3>2. Control!Close(c)
        BY <1>3, <1>w, <3>1 DEF CheckAllows, Control!Close, phase, wish
      <3>3. QED
        BY <3>2 DEF Control!Next
    <2>3. QED
      BY <2>1, <2>2
  <1>4. ASSUME NEW c \in Call, KeepLaw(c) PROVE Control!Next
    <2>m. MovesCall(c, "admitted", "running")
      BY PhaseValues, <1>t, <1>4 DEF MovesCall, KeepLaw
    <2>1. phase' = [phase EXCEPT ![c] = "running"] /\ phase[c] = "admitted"
      BY <1>t, <2>m, CallMoves
    <2>2. Control!RunUnder(c)
      BY <1>4, <1>w, <2>1, SameNextLaw DEF KeepLaw, NeedsSwitch, Control!RunUnder, phase, wish
    <2>3. QED
      BY <2>2 DEF Control!Next
  <1>5. ASSUME NEW c \in Call, RequestSwitch(c) PROVE Control!Next
    <2>m. MovesCall(c, "admitted", "asking")
      BY PhaseValues, <1>t, <1>5 DEF MovesCall, RequestSwitch, AskSwitch
    <2>1. phase' = [phase EXCEPT ![c] = "asking"] /\ phase[c] = "admitted"
      BY <1>t, <2>m, CallMoves
    <2>2. wish' = [wish EXCEPT ![c] = NextLaw(law, cmd[c])]
      BY <1>t, <1>5 DEF RequestSwitch, AskSwitch, wish, TypeOK
    <2>3. Control!Ask(c)
      BY <1>5, <2>1, <2>2, SameNextLaw DEF RequestSwitch, NeedsSwitch, Control!Ask, phase, wish
    <2>4. QED
      BY <2>3 DEF Control!Next
  <1>6. ASSUME NEW c \in Call, Answer(c) \/ Cancel(c) PROVE Control!Next
    <2>m. \E from \in {"pending", "admitted", "asking", "running"} : MovesCall(c, from, "closed")
      BY PhaseValues, <1>t, <1>6 DEF MovesCall, Answer, Cancel, Open, Ended
    <2>1. phase' = [phase EXCEPT ![c] = "closed"] /\ phase[c] \notin {"idle", "closed"}
      BY <1>t, <2>m, CallMoves
    <2>2. Control!Close(c)
      BY <1>6, <1>w, <2>1 DEF Answer, Cancel, Control!Close, phase, wish
    <2>3. QED
      BY <2>2 DEF Control!Next
  <1>7. ASSUME NEW p \in Proc, AcquireRead(p) \/ EnterLaw(p) PROVE UNCHANGED Control!vars
    <2>1. CASE p \in Call
      <3>1. \E at : MovesCall(p, at, at)
        <4>1. CASE AcquireRead(p) /\ pc[p] = "allows"
          BY PhaseValues, <4>1 DEF AcquireRead, MovesCall
        <4>2. CASE AcquireRead(p) /\ pc[p] = "match"
          BY PhaseValues, <4>2 DEF AcquireRead, MovesCall
        <4>3. CASE EnterLaw(p)
          BY PhaseValues, <4>3 DEF EnterLaw, MovesCall
        <4>4. QED
          BY <1>t, <1>7, <2>1, <4>1, <4>2, <4>3
          DEF AcquireRead, WaitsToRead, TypeOK, CallPC, Open, Ended
      <3>2. phase' = phase
        BY <1>t, <2>1, <3>1, SamePhase
      <3>3. QED
        BY <1>7, <1>s, <1>w, <3>2 DEF AcquireRead, EnterLaw
    <2>2. CASE p \notin Call
      BY <1>t, <1>7, <1>s, <1>w, <2>2, CallsUnmoved DEF AcquireRead, EnterLaw
    <2>3. QED
      BY <2>1, <2>2
  <1>8. ASSUME NEW p \in Proc, SendCommand(p) PROVE UNCHANGED Control!vars
    BY <1>8, <1>s DEF SendCommand, phase, wish
  <1>9. ASSUME NEW p \in Proc, SendRaises(p) PROVE Control!Next \/ UNCHANGED Control!vars
    <2>1. CASE p \in Call
      <3>m. \E from \in {"pending", "admitted", "asking", "running"} : MovesCall(p, from, "closed")
        BY PhaseValues, <1>t, <1>9, <2>1
        DEF MovesCall, SendRaises, Sends, Writes, TypeOK, CallPC, Open, Ended
      <3>1. phase' = [phase EXCEPT ![p] = "closed"] /\ phase[p] \notin {"idle", "closed"}
        BY <1>t, <3>m, CallMoves, <2>1
      <3>2. Control!Close(p)
        BY <1>9, <1>w, <2>1, <3>1 DEF SendRaises, Control!Close, phase, wish
      <3>3. QED
        BY <2>1, <3>2 DEF Control!Next
    <2>2. CASE p \notin Call
      BY <1>t, <1>9, <1>s, <1>w, <2>2, CallsUnmoved DEF SendRaises
    <2>3. QED
      BY <2>1, <2>2
  <1>10. ASSUME NEW p \in Proc, CommitLaw(p) PROVE Control!Next
    <2>1. CASE p \in Call
      <3>m. MovesCall(p, "asking", "running")
        BY PhaseValues, <1>t, <1>10, <2>1 DEF MovesCall, CommitLaw, AfterSwitch
      <3>1. phase' = [phase EXCEPT ![p] = "running"] /\ phase[p] = "asking"
        BY <1>t, <3>m, CallMoves, <2>1
      <3>2. Control!RunAsked(p)
        BY <1>10, <1>w, <2>1, <3>1
        DEF CommitLaw, Control!RunAsked, Resolve, Control!Resolve, phase, wish
      <3>3. QED
        BY <2>1, <3>2 DEF Control!Next
    <2>2. CASE p = Boot
      <3>1. law = NoLaw /\ law' = Base
        BY <1>t, <1>10, <2>2 DEF CommitLaw, SwitchInv, Resolve, KernelOpensWithLaw
      <3>2. phase' = phase
        <4>1. \A c \in Call : pc'[c] = pc[c]
          BY <1>t, <1>10, <2>2 DEF CommitLaw, AfterSwitch, TypeOK
        <4>2. QED
          BY <4>1 DEF phase
      <3>3. Control!Open
        BY <1>10, <1>w, <3>1, <3>2 DEF CommitLaw, Control!Open, phase, wish
      <3>4. QED
        BY <3>3 DEF Control!Next
    <2>3. CASE p = Handler
      BY <1>t, <1>10, <2>3 DEF CommitLaw, TypeOK, HandlerPC
    <2>4. QED
      BY <2>1, <2>2, <2>3
  <1>11. ASSUME NEW p \in Proc, AbandonSwitch(p) PROVE Control!Next \/ UNCHANGED Control!vars
    <2>1. CASE p \in Call
      <3>m. MovesCall(p, "asking", "running")
        BY PhaseValues, <1>t, <1>11, <2>1 DEF MovesCall, AbandonSwitch
      <3>1. phase' = [phase EXCEPT ![p] = "running"] /\ phase[p] = "asking"
        BY <1>t, <3>m, CallMoves, <2>1
      <3>2. LawFile[Resolve(target[p])].enter # <<>>
        <4>1. sent # <<>> /\ todo = <<>>
          BY <1>11 DEF AbandonSwitch, SwitchInv
        <4>2. sent \o todo = LawFile[Resolve(target[p])].enter
          BY <1>11 DEF AbandonSwitch, SwitchInv, EnterListKept
        <4>3. sent \o todo = sent
          BY <1>t, <4>1 DEF TypeOK
        <4>4. QED
          BY <4>1, <4>2, <4>3
      <3>3. Control!RunAsked(p)
        BY <1>11, <1>w, <2>1, <3>1, <3>2
        DEF AbandonSwitch, Control!RunAsked, Resolve, Control!Resolve, phase, wish
      <3>4. QED
        BY <2>1, <3>3 DEF Control!Next
    <2>2. CASE p \notin Call
      BY <1>t, <1>11, <1>s, <1>w, <2>2, CallsUnmoved DEF AbandonSwitch
    <2>3. QED
      BY <2>1, <2>2
  <1>12. CASE BootSwitch
    <2>1. \A c \in Call : target'[c] = target[c]
      BY <1>t, <1>12 DEF BootSwitch, AskSwitch, TypeOK
    <2>2. wish' = wish
      BY <2>1 DEF wish
    <2>3. QED
      BY <1>t, <1>12, <1>s, <2>2, CallsUnmoved DEF BootSwitch, AskSwitch
  <1>13. CASE BootFails \/ ReadLaw \/ BeginFailsafe \/ EndFailsafe \/ TimerExpires
    <2>1. law' = law /\ cmd' = cmd /\ target' = target
      BY <1>13 DEF BootFails, ReadLaw, BeginFailsafe, EndFailsafe, TimerExpires
    <2>2. \A c \in Call : pc'[c] = pc[c]
      BY <1>t, <1>13
      DEF BootFails, ReadLaw, BeginFailsafe, EndFailsafe, TimerExpires, TypeOK
    <2>3. phase' = phase
      BY <2>2 DEF phase
    <2>4. QED
      BY <1>s, <1>w, <2>1, <2>3
  <1>14. CASE UNCHANGED vars
    BY <1>14, <1>s, <1>w DEF vars, phase
  <1>15. QED
    BY <1>1, <1>2, <1>3, <1>4, <1>5, <1>6, <1>7, <1>8, <1>9, <1>10, <1>11, <1>12, <1>13, <1>14
    DEF Next, CallStep, Step, OwnStep

(***************************************************************************)
(* A caller of the kernel sees a call judged at one moment, matched at a   *)
(* later one, and the law changing only as a matched call starts           *)
(* (interceptor.py:41-50 with authority.py:118-192).                       *)
(***************************************************************************)
THEOREM Refinement == Spec => ControlSpec
  <1>1. Init => Control!Init
    BY RefinesInit
  <1>2. IInv /\ SwitchInv /\ [Next]_vars => [Control!Next]_(Control!vars)
    BY RefinesStep
  <1>3. QED
    BY <1>1, <1>2, SwitchInvariance, PTL DEF Spec, ControlSpec, Control!Spec

==============================================================================
