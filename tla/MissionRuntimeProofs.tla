------------------------ MODULE MissionRuntimeProofs ------------------------
(***************************************************************************)
(* Proofs about the mission runtime: however many Starts, Stops, missions, *)
(* events and callers that hang up there are, no two FSMs run at once, the *)
(* stores follow the runtime, nobody waits for himself at the lock, and    *)
(* the callers see MissionControl.                                         *)
(***************************************************************************)
EXTENDS MissionRuntime, WaitQueueProofs, FiniteSetTheorems

(***************************************************************************)
(* The inductive invariant.  Held: who is inside the lock; Queued: the FSM *)
(* waits for the lock once, and only on its way into term(); Flying: an    *)
(* FSM that has not ended belongs to a started runtime, tasks fly in a     *)
(* race only, and a Start finds the runtime stopped, a Stop finds it       *)
(* started for as long as it has the lock; Stored: how many stores there   *)
(* are, in the middle of init() too.                                       *)
(***************************************************************************)
Typed ==
    /\ mission \in Mission \cup {NoMission} /\ running \in Mission \cup {NoMission}
    /\ started \in BOOLEAN /\ cancelled \in BOOLEAN
    /\ lock \in Proc \cup {Nobody} /\ queue \in Seq(Proc)
    /\ stores \in Nat
    /\ fsm \in FsmPC /\ racers \in [Racer -> RacerPC] /\ winner \in Racer \cup {Nobody}
    /\ pc \in [Call -> CallPC] /\ want \in [Call -> Mission \cup {NoMission}]

Inside == {"opening", "undoing", "joining", "closing"}
Held ==
    /\ \A c \in Call : lock = c <=> pc[c] \in Inside
    /\ lock = Fsm <=> fsm = "closing"

Waits(q, p) == \E i \in 1..Len(q) : q[i] = p
Once(q, p)  == \A i, k \in 1..Len(q) : q[i] = p /\ q[k] = p => i = k
Queued == Once(queue, Fsm) /\ (Waits(queue, Fsm) => fsm = "lockTerm")

Flying ==
    /\ fsm \notin FsmEnded => started
    /\ fsm \notin {"racing", "leaving"} => Alone
    /\ \A c \in Call : /\ pc[c] \in {"opening", "undoing"} => ~started
                       /\ pc[c] \in {"joining", "closing"} => started
                       /\ pc[c] = "closing" => fsm \in FsmEnded
                       /\ pc[c] \in {"lockInit", "opening", "undoing"} => c \in StartCall

Opening == \E c \in Call : pc[c] \in {"opening", "undoing"}
Needed  == IF started \/ Opening THEN 1 ELSE 0
Begun   == {c \in StartCall : pc[c] \notin {"idle", "lockInit"}}

Stored ==
    /\ Needed <= stores
    /\ NobodyGone => stores = Needed
    /\ stores <= Cardinality(Begun)

RuntimeInv == Typed /\ Held /\ Queued /\ Flying /\ Stored

(* The coroutines, the FSM and nobody are told apart. *)
LEMMA Apart ==
    /\ Fsm \notin Call /\ Nobody \notin Call /\ Nobody # Fsm /\ StartCall \subseteq Call
    /\ StartCall \cap StopCall = {} /\ StopCall \subseteq Call
    /\ Call \subseteq Proc /\ Fsm \in Proc /\ Nobody \notin Proc
    /\ Done \in Racer /\ IsFiniteSet(Call) /\ IsFiniteSet(StartCall)
<1>1. IsFiniteSet(StartCall)
    BY MissionAssumption, FS_Subset DEF Call
<1>2. QED
    BY <1>1, MissionAssumption DEF Call, Proc, Racer

----------------------------------------------------------------------------
(* The queue of the lock. *)

(* A coroutine asks for the lock. *)
LEMMA Joins ==
    ASSUME NEW q \in Seq(Proc), NEW p \in Proc
    PROVE  /\ Append(q, p) \in Seq(Proc)
           /\ p # Fsm /\ Once(q, Fsm) => Once(Append(q, p), Fsm)
           /\ p # Fsm /\ ~Waits(q, Fsm) => ~Waits(Append(q, p), Fsm)
           /\ ~Waits(q, Fsm) => Once(Append(q, p), Fsm)
<1> DEFINE r == Append(q, p)
           n == Len(q)
<1>1. /\ n \in Nat /\ r \in Seq(Proc) /\ Len(r) = n + 1
      /\ \A i \in 1..n : r[i] = q[i]
      /\ r[n + 1] = p
    BY AppendProperties, LenProperties
<1>2. 1..(n + 1) = 1..n \cup {n + 1}
    BY <1>1
<1>3. QED
    BY <1>1, <1>2 DEF Once, Waits

(* The head of the queue gets the lock. *)
LEMMA HeadLeaves ==
    ASSUME NEW q \in Seq(Proc), q # <<>>
    PROVE  /\ Tail(q) \in Seq(Proc)
           /\ Once(q, Fsm) => Once(Tail(q), Fsm)
           /\ Waits(Tail(q), Fsm) => Waits(q, Fsm)
           /\ Once(q, Fsm) /\ Head(q) = Fsm => ~Waits(Tail(q), Fsm) /\ Waits(q, Fsm)
<1> DEFINE r == Tail(q)
           n == Len(q)
<1>1. /\ n \in Nat \ {0} /\ r \in Seq(Proc) /\ Len(r) = n - 1
      /\ \A i \in 1..(n - 1) : r[i] = q[i + 1]
      /\ Head(q) = q[1]
    BY HeadTailProperties, LenProperties, EmptySeq
<1>2. 1 \in 1..n /\ \A i \in 1..(n - 1) : i + 1 \in 1..n /\ i + 1 # 1
    BY <1>1
<1>3. Waits(r, Fsm) => Waits(q, Fsm)
    BY <1>1, <1>2 DEF Waits
<1>4. Once(q, Fsm) => Once(r, Fsm)
    <2> SUFFICES ASSUME Once(q, Fsm),
                        NEW i \in 1..Len(r), NEW k \in 1..Len(r), r[i] = Fsm, r[k] = Fsm
                 PROVE  i = k
        BY DEF Once
    <2>1. i + 1 = k + 1
        BY <1>1, <1>2 DEF Once
    <2>2. QED
        BY <1>1, <2>1
<1>5. Once(q, Fsm) /\ Head(q) = Fsm => ~Waits(r, Fsm) /\ Waits(q, Fsm)
    BY <1>1, <1>2 DEF Once, Waits
<1>6. QED
    BY <1>1, <1>3, <1>4, <1>5

(* A coroutine that waits is cancelled. *)
LEMMA OneLeaves ==
    ASSUME NEW q \in Seq(Proc), NEW p
    PROVE  /\ Without(q, p) \in Seq(Proc)
           /\ Once(q, Fsm) => Once(Without(q, p), Fsm)
           /\ Waits(Without(q, p), Fsm) => Waits(q, Fsm)
           /\ Once(q, Fsm) /\ p = Fsm => ~Waits(Without(q, p), Fsm)
<1>1. CASE p \notin Range(q)
    <2>1. Without(q, p) = q
        BY <1>1 DEF Without
    <2>2. p = Fsm => ~Waits(q, Fsm)
        BY <1>1 DEF Range, Waits
    <2>3. QED
        BY <2>1, <2>2
<1>2. CASE p \in Range(q)
    <2> DEFINE n == Len(q)
               r == Without(q, p)
    <2>1. PICK i \in 1..n :
              /\ q[i] = p /\ r \in Seq(Proc) /\ Len(r) = n - 1
              /\ \A j \in 1..(n - 1) : r[j] = q[IF j <= i - 1 THEN j ELSE j + 1]
        BY <1>2, RestOf
    <2> HIDE DEF r
    <2> DEFINE At(j) == IF j <= i - 1 THEN j ELSE j + 1
    <2>2. n \in Nat
        BY LenProperties
    <2>3. \A j \in 1..(n - 1) : At(j) \in 1..n /\ At(j) # i /\ r[j] = q[At(j)]
        BY <2>1, <2>2
    <2>4. \A j, k \in 1..(n - 1) : At(j) = At(k) => j = k
        BY <2>1, <2>2
    <2> HIDE DEF At
    <2>5. Once(q, Fsm) => Once(r, Fsm)
        BY <2>1, <2>3, <2>4 DEF Once
    <2>6. Waits(r, Fsm) => Waits(q, Fsm)
        BY <2>1, <2>3 DEF Waits
    <2>7. Once(q, Fsm) /\ p = Fsm => ~Waits(r, Fsm)
        BY <2>1, <2>3 DEF Once, Waits
    <2>8. QED
        BY <2>1, <2>5, <2>6, <2>7 DEF r
<1>3. QED
    BY <1>1, <1>2

----------------------------------------------------------------------------
(* The stores.  Every store was opened by a Start of its own. *)

(* A call that has begun stays begun. *)
LEMMA BegunGrows ==
    ASSUME Typed, NEW c \in Call, NEW place, pc' = [pc EXCEPT ![c] = place],
           place # "idle", place = "lockInit" => pc[c] = "idle"
    PROVE  /\ Cardinality(Begun) \in Nat /\ Cardinality(Begun') \in Nat
           /\ Cardinality(Begun) <= Cardinality(Begun')
<1>1. \A d \in Call : pc'[d] = IF d = c THEN place ELSE pc[d]
    BY DEF Typed
<1>2. Begun \subseteq Begun' /\ Begun' \subseteq StartCall /\ Begun \subseteq StartCall
    BY <1>1, Apart DEF Begun
<1>3. IsFiniteSet(Begun) /\ IsFiniteSet(Begun')
    BY <1>2, Apart, FS_Subset
<1>4. Cardinality(Begun) \in Nat /\ Cardinality(Begun') \in Nat
    BY <1>3, FS_CardinalityType
<1>5. Cardinality(Begun) <= Cardinality(Begun')
    BY <1>2, <1>3, FS_Subset
<1>6. QED
    BY <1>4, <1>5

(* A Start that begins is one more that has begun. *)
LEMMA OneMoreBegun ==
    ASSUME Typed, NEW c \in StartCall, pc[c] = "lockInit", pc' = [pc EXCEPT ![c] = "opening"]
    PROVE  Cardinality(Begun) \in Nat /\ Cardinality(Begun') = Cardinality(Begun) + 1
<1>1. \A d \in Call : pc'[d] = IF d = c THEN "opening" ELSE pc[d]
    BY DEF Typed
<1>2. Begun' = Begun \cup {c} /\ c \notin Begun
    BY <1>1, Apart DEF Begun
<1>3. IsFiniteSet(Begun)
    BY Apart, FS_Subset DEF Begun
<1>4. QED
    BY <1>2, <1>3, FS_CardinalityType, FS_AddElement

(* A step that neither opens nor closes a store. *)
LEMMA StoresStay ==
    ASSUME Typed, Stored, NEW c \in Call, NEW place, pc' = [pc EXCEPT ![c] = place],
           place # "idle", place = "lockInit" => pc[c] = "idle",
           pc[c] # "gone", UNCHANGED <<stores, started>>,
           place # "gone" => (pc[c] \in {"opening", "undoing"} <=> place \in {"opening", "undoing"})
    PROVE  Stored'
<1>1. \A d \in Call : pc'[d] = IF d = c THEN place ELSE pc[d]
    BY DEF Typed
<1>2. stores' <= Cardinality(Begun')
    <2>1. /\ Cardinality(Begun) \in Nat /\ Cardinality(Begun') \in Nat
          /\ Cardinality(Begun) <= Cardinality(Begun')
        BY BegunGrows
    <2>2. QED
        BY <2>1 DEF Stored, Typed
<1>3. Opening' => Opening
    BY <1>1 DEF Opening
<1>4. NobodyGone' => NobodyGone /\ place # "gone"
    BY <1>1 DEF NobodyGone
<1>5. place # "gone" => (Opening' <=> Opening)
    BY <1>1 DEF Opening
<1>6. Needed' <= stores' /\ (NobodyGone' => stores' = Needed')
    BY <1>3, <1>4, <1>5 DEF Needed, Stored, Typed
<1>7. QED
    BY <1>2, <1>6 DEF Stored

----------------------------------------------------------------------------
(* Every step keeps the invariant: one case per action. *)
LEMMA RuntimeStep == RuntimeInv /\ [Next]_vars => RuntimeInv'
<1> SUFFICES ASSUME RuntimeInv, [Next]_vars PROVE RuntimeInv'
    OBVIOUS
<1> USE Apart DEF RuntimeInv, fsmVars, lockVars, FsmEnded, Inside
<1>1. ASSUME NEW m \in Mission, Upload(m) PROVE RuntimeInv'
    BY <1>1 DEF Upload, Typed, Held, Queued, Flying, Alone, Stored, Needed, Opening, Begun,
               NobodyGone
<1>2. ASSUME NEW c \in StartCall, Start(c) PROVE RuntimeInv'
    <2>1. pc' = [pc EXCEPT ![c] = IF mission = NoMission THEN "refused" ELSE "lockInit"]
        BY <1>2 DEF Start, Goto
    <2>2. \A d \in Call : pc'[d] = IF d = c THEN IF mission = NoMission THEN "refused" ELSE "lockInit" ELSE pc[d]
        BY <2>1 DEF Typed
    <2>3. queue' \in Seq(Proc) /\ Once(queue', Fsm) /\ (Waits(queue', Fsm) => Waits(queue, Fsm))
        <3>1. queue' = queue \/ queue' = Append(queue, c)
            BY <1>2 DEF Start
        <3>2. queue \in Seq(Proc) /\ c \in Proc /\ c # Fsm
            BY DEF Typed
        <3>3. /\ Append(queue, c) \in Seq(Proc) /\ Once(Append(queue, c), Fsm)
              /\ Waits(Append(queue, c), Fsm) => Waits(queue, Fsm)
            BY <3>2, Joins DEF Queued
        <3>4. QED
            BY <3>1, <3>2, <3>3 DEF Queued
    <2>4. Typed'
        BY <1>2, <2>1, <2>3 DEF Start, Typed, Idle, FsmPC, CallPC, CallOpen, CallEnded, RacerPC
    <2>5. Held'
        BY <1>2, <2>2 DEF Start, Held, CallOpen
    <2>6. Queued'
        BY <1>2, <2>3 DEF Start, Queued
    <2>7. Flying'
        BY <1>2, <2>2 DEF Start, Flying, Held, Alone, Idle
    <2>8. Stored'
        BY <1>2, <2>1, StoresStay DEF Start, Flying, CallOpen
    <2>9. QED
        BY <2>4, <2>5, <2>6, <2>7, <2>8
<1>3. ASSUME NEW c \in StopCall, Stop(c) PROVE RuntimeInv'
    <2>1. pc' = [pc EXCEPT ![c] = IF mission = NoMission THEN "refused" ELSE "lockTerm"]
        BY <1>3 DEF Stop, Goto
    <2>2. \A d \in Call : pc'[d] = IF d = c THEN IF mission = NoMission THEN "refused" ELSE "lockTerm" ELSE pc[d]
        BY <2>1 DEF Typed
    <2>3. queue' \in Seq(Proc) /\ Once(queue', Fsm) /\ (Waits(queue', Fsm) => Waits(queue, Fsm))
        <3>1. queue' = queue \/ queue' = Append(queue, c)
            BY <1>3 DEF Stop
        <3>2. queue \in Seq(Proc) /\ c \in Proc /\ c # Fsm
            BY DEF Typed
        <3>3. /\ Append(queue, c) \in Seq(Proc) /\ Once(Append(queue, c), Fsm)
              /\ Waits(Append(queue, c), Fsm) => Waits(queue, Fsm)
            BY <3>2, Joins DEF Queued
        <3>4. QED
            BY <3>1, <3>2, <3>3 DEF Queued
    <2>4. Typed'
        BY <1>3, <2>1, <2>3 DEF Stop, Typed, Idle, FsmPC, CallPC, CallOpen, CallEnded, RacerPC
    <2>5. Held'
        BY <1>3, <2>2 DEF Stop, Held, CallOpen
    <2>6. Queued'
        BY <1>3, <2>3 DEF Stop, Queued
    <2>7. Flying'
        BY <1>3, <2>2 DEF Stop, Flying, Held, Alone, Idle
    <2>8. Stored'
        BY <1>3, <2>1, StoresStay DEF Stop, Flying, CallOpen
    <2>9. QED
        BY <2>4, <2>5, <2>6, <2>7, <2>8
<1>4. ASSUME NEW c \in StartCall, InitRaises(c) PROVE RuntimeInv'
    <2>1. pc' = [pc EXCEPT ![c] = "undoing"]
        BY <1>4 DEF InitRaises, Goto
    <2>2. \A d \in Call : pc'[d] = IF d = c THEN "undoing" ELSE pc[d]
        BY <2>1 DEF Typed
    <2>3. Typed'
        BY <1>4, <2>1 DEF InitRaises, Typed, Idle, FsmPC, CallPC, CallOpen, CallEnded, RacerPC
    <2>4. Held'
        BY <1>4, <2>2 DEF InitRaises, Held, CallOpen
    <2>5. Queued'
        BY <1>4 DEF InitRaises, Queued, Flying
    <2>6. Flying'
        BY <1>4, <2>2 DEF InitRaises, Flying, Held, Alone, Idle
    <2>7. Stored'
        BY <1>4, <2>1, StoresStay DEF InitRaises, Flying, CallOpen
    <2>8. QED
        BY <2>3, <2>4, <2>5, <2>6, <2>7
<1>5. ASSUME NEW c \in Call, SkipInit(c) PROVE RuntimeInv'
    <2>1. pc' = [pc EXCEPT ![c] = "completed"]
        BY <1>5 DEF SkipInit, Goto
    <2>2. \A d \in Call : pc'[d] = IF d = c THEN "completed" ELSE pc[d]
        BY <2>1 DEF Typed
    <2>3. queue' \in Seq(Proc) /\ Once(queue', Fsm) /\ (Waits(queue', Fsm) => Waits(queue, Fsm))
        BY <1>5, HeadLeaves DEF SkipInit, MayLock, Typed, Queued
    <2>4. Typed'
        BY <1>5, <2>1, <2>3 DEF SkipInit, Typed, Idle, FsmPC, CallPC, CallOpen, CallEnded,
                   RacerPC
    <2>5. Held'
        BY <1>5, <2>2 DEF SkipInit, MayLock, Held, CallOpen
    <2>6. Queued'
        BY <1>5, <2>3 DEF SkipInit, Queued
    <2>7. Flying'
        BY <1>5, <2>2 DEF SkipInit, MayLock, Flying, Held, Alone, Idle
    <2>8. Stored'
        BY <1>5, <2>1, StoresStay DEF SkipInit, MayLock, Flying, CallOpen
    <2>9. QED
        BY <2>4, <2>5, <2>6, <2>7, <2>8
<1>6. ASSUME NEW c \in Call, BeginInit(c) PROVE RuntimeInv'
    <2>1. pc' = [pc EXCEPT ![c] = "opening"]
        BY <1>6 DEF BeginInit, Goto
    <2>2. \A d \in Call : pc'[d] = IF d = c THEN "opening" ELSE pc[d]
        BY <2>1 DEF Typed
    <2>3. queue' \in Seq(Proc) /\ Once(queue', Fsm) /\ (Waits(queue', Fsm) => Waits(queue, Fsm))
        BY <1>6, HeadLeaves DEF BeginInit, MayLock, Typed, Queued
    <2>4. /\ \A d \in Call : d # c => pc[d] \notin Inside
          /\ fsm # "closing"
        BY <1>6 DEF BeginInit, MayLock, Held
    <2>5. Typed'
        BY <1>6, <2>1, <2>3 DEF BeginInit, Typed, Idle, FsmPC, CallPC, CallOpen, CallEnded,
                   RacerPC
    <2>6. Held'
        BY <1>6, <2>2, <2>4 DEF BeginInit, MayLock, Held, CallOpen
    <2>7. Queued'
        BY <1>6, <2>3 DEF BeginInit, Queued
    <2>8. Flying'
        BY <1>6, <2>2, <2>4 DEF BeginInit, MayLock, Flying, Held, Alone, Idle
    <2>9. Stored'
        <3>1. c \in StartCall /\ ~started /\ lock = Nobody /\ stores' = stores + 1 /\ started' = started
            BY <1>6 DEF BeginInit, MayLock, Flying
        <3>2. ~Opening /\ Opening'
            BY <2>2, <3>1 DEF Opening, Held
        <3>3. /\ Cardinality(Begun) \in Nat /\ Cardinality(Begun') = Cardinality(Begun) + 1
            <4>1. pc[c] = "lockInit"
                BY <1>6 DEF BeginInit
            <4>2. QED
                BY <2>1, <3>1, <4>1, OneMoreBegun
        <3>4. NobodyGone' => NobodyGone
            BY <1>6, <2>2 DEF NobodyGone, BeginInit
        <3>5. QED
            BY <3>1, <3>2, <3>3, <3>4 DEF Stored, Needed, Typed
    <2>10. QED
        BY <2>5, <2>6, <2>7, <2>8, <2>9
<1>7. ASSUME NEW c \in Call, FinishInit(c) PROVE RuntimeInv'
    <2>1. pc' = [pc EXCEPT ![c] = "completed"]
        BY <1>7 DEF FinishInit, Goto
    <2>2. \A d \in Call : pc'[d] = IF d = c THEN "completed" ELSE pc[d]
        BY <2>1 DEF Typed
    <2>3. /\ \A d \in Call : d # c => pc[d] \notin Inside
          /\ fsm # "closing"
        BY <1>7 DEF FinishInit, MayLock, Held
    <2>4. Typed'
        BY <1>7, <2>1 DEF FinishInit, Typed, Idle, FsmPC, CallPC, CallOpen, CallEnded, RacerPC
    <2>5. Held'
        BY <1>7, <2>2, <2>3 DEF FinishInit, Held, CallOpen
    <2>6. Queued'
        BY <1>7 DEF FinishInit, Queued, Flying
    <2>7. Flying'
        BY <1>7, <2>2, <2>3 DEF FinishInit, Flying, Held, Alone, Idle
    <2>8. Stored'
        <3>1. started' /\ stores' = stores
            BY <1>7 DEF FinishInit, Flying
        <3>2. Opening
            BY <1>7, <2>2 DEF FinishInit, Opening, Held
        <3>3. /\ Cardinality(Begun) \in Nat /\ Cardinality(Begun') \in Nat
              /\ Cardinality(Begun) <= Cardinality(Begun')
            BY <2>1, BegunGrows
        <3>4. NobodyGone' => NobodyGone
            BY <1>7, <2>2 DEF NobodyGone, FinishInit
        <3>5. QED
            BY <3>1, <3>2, <3>3, <3>4 DEF Stored, Needed, Typed
    <2>9. QED
        BY <2>4, <2>5, <2>6, <2>7, <2>8
<1>8. ASSUME NEW c \in Call, UndoInit(c) PROVE RuntimeInv'
    <2>1. pc' = [pc EXCEPT ![c] = "failed"]
        BY <1>8 DEF UndoInit, Goto
    <2>2. \A d \in Call : pc'[d] = IF d = c THEN "failed" ELSE pc[d]
        BY <2>1 DEF Typed
    <2>3. /\ \A d \in Call : d # c => pc[d] \notin Inside
          /\ fsm # "closing"
        BY <1>8 DEF UndoInit, MayLock, Held
    <2>4. stores \in Nat \ {0}
        BY <1>8 DEF UndoInit, Flying, Opening, Stored, Needed, Typed
    <2>5. Typed'
        BY <1>8, <2>1, <2>4 DEF UndoInit, Typed, Idle, FsmPC, CallPC, CallOpen, CallEnded,
                   RacerPC
    <2>6. Held'
        BY <1>8, <2>2, <2>3 DEF UndoInit, Held, CallOpen
    <2>7. Queued'
        BY <1>8 DEF UndoInit, Queued, Flying
    <2>8. Flying'
        BY <1>8, <2>2, <2>3 DEF UndoInit, Flying, Held, Alone, Idle
    <2>9. Stored'
        <3>1. ~started /\ ~started' /\ stores' = stores - 1
            BY <1>8 DEF UndoInit, Flying
        <3>2. Opening /\ ~Opening'
            BY <1>8, <2>2 DEF UndoInit, Opening, Held
        <3>3. /\ Cardinality(Begun) \in Nat /\ Cardinality(Begun') \in Nat
              /\ Cardinality(Begun) <= Cardinality(Begun')
            BY <2>1, BegunGrows
        <3>4. NobodyGone' => NobodyGone
            BY <1>8, <2>2 DEF NobodyGone, UndoInit
        <3>5. QED
            BY <3>1, <3>2, <3>3, <3>4 DEF Stored, Needed, Typed
    <2>10. QED
        BY <2>5, <2>6, <2>7, <2>8, <2>9
<1>9. ASSUME NEW c \in Call, SkipTerm(c) PROVE RuntimeInv'
    <2>1. pc' = [pc EXCEPT ![c] = "completed"]
        BY <1>9 DEF SkipTerm, Goto
    <2>2. \A d \in Call : pc'[d] = IF d = c THEN "completed" ELSE pc[d]
        BY <2>1 DEF Typed
    <2>3. queue' \in Seq(Proc) /\ Once(queue', Fsm) /\ (Waits(queue', Fsm) => Waits(queue, Fsm))
        BY <1>9, HeadLeaves DEF SkipTerm, MayLock, Typed, Queued
    <2>4. Typed'
        BY <1>9, <2>1, <2>3 DEF SkipTerm, Typed, Idle, FsmPC, CallPC, CallOpen, CallEnded,
                   RacerPC
    <2>5. Held'
        BY <1>9, <2>2 DEF SkipTerm, MayLock, Held, CallOpen
    <2>6. Queued'
        BY <1>9, <2>3 DEF SkipTerm, Queued
    <2>7. Flying'
        BY <1>9, <2>2 DEF SkipTerm, MayLock, Flying, Held, Alone, Idle
    <2>8. Stored'
        BY <1>9, <2>1, StoresStay DEF SkipTerm, MayLock, Flying, CallOpen
    <2>9. QED
        BY <2>4, <2>5, <2>6, <2>7, <2>8
<1>10. ASSUME NEW c \in Call, BeginTerm(c) PROVE RuntimeInv'
    <2>1. pc' = [pc EXCEPT ![c] = "closing"]
        BY <1>10 DEF BeginTerm, Goto
    <2>2. \A d \in Call : pc'[d] = IF d = c THEN "closing" ELSE pc[d]
        BY <2>1 DEF Typed
    <2>3. queue' \in Seq(Proc) /\ Once(queue', Fsm) /\ (Waits(queue', Fsm) => Waits(queue, Fsm))
        BY <1>10, HeadLeaves DEF BeginTerm, MayLock, Typed, Queued
    <2>4. /\ \A d \in Call : d # c => pc[d] \notin Inside
          /\ fsm # "closing"
        BY <1>10 DEF BeginTerm, MayLock, Held
    <2>5. Typed'
        BY <1>10, <2>1, <2>3 DEF BeginTerm, Typed, Idle, FsmPC, CallPC, CallOpen, CallEnded,
                   RacerPC
    <2>6. Held'
        BY <1>10, <2>2, <2>4 DEF BeginTerm, MayLock, Held, CallOpen
    <2>7. Queued'
        BY <1>10, <2>3 DEF BeginTerm, Queued
    <2>8. Flying'
        BY <1>10, <2>2, <2>4 DEF BeginTerm, MayLock, Flying, Held, Alone, Idle
    <2>9. Stored'
        BY <1>10, <2>1, StoresStay DEF BeginTerm, MayLock, Flying, CallOpen
    <2>10. QED
        BY <2>5, <2>6, <2>7, <2>8, <2>9
<1>11. ASSUME NEW c \in Call, CancelFsm(c) PROVE RuntimeInv'
    <2>1. pc' = [pc EXCEPT ![c] = "joining"]
        BY <1>11 DEF CancelFsm, Goto
    <2>2. \A d \in Call : pc'[d] = IF d = c THEN "joining" ELSE pc[d]
        BY <2>1 DEF Typed
    <2>3. queue' \in Seq(Proc) /\ Once(queue', Fsm) /\ ~Waits(queue', Fsm)
        BY <1>11, HeadLeaves, OneLeaves DEF CancelFsm, MayLock, Typed, Queued
    <2>4. /\ \A d \in Call : d # c => pc[d] \notin Inside
          /\ fsm # "closing"
        BY <1>11 DEF CancelFsm, MayLock, Held
    <2>5. Typed'
        BY <1>11, <2>1, <2>3 DEF CancelFsm, Typed, Idle, FsmPC, CallPC, CallOpen, CallEnded,
                   RacerPC
    <2>6. Held'
        BY <1>11, <2>2, <2>4 DEF CancelFsm, MayLock, Held, CallOpen
    <2>7. Queued'
        BY <1>11, <2>3 DEF CancelFsm, Queued
    <2>8. Flying'
        BY <1>11, <2>2, <2>4 DEF CancelFsm, MayLock, Flying, Held, Alone, Idle
    <2>9. Stored'
        BY <1>11, <2>1, StoresStay DEF CancelFsm, MayLock, Flying, CallOpen
    <2>10. QED
        BY <2>5, <2>6, <2>7, <2>8, <2>9
<1>12. ASSUME NEW c \in Call, Join(c) PROVE RuntimeInv'
    <2>1. pc' = [pc EXCEPT ![c] = IF fsm = "crashed" THEN "failed" ELSE "closing"]
        BY <1>12 DEF Join, Goto
    <2>2. \A d \in Call : pc'[d] = IF d = c THEN IF fsm = "crashed" THEN "failed" ELSE "closing" ELSE pc[d]
        BY <2>1 DEF Typed
    <2>3. /\ \A d \in Call : d # c => pc[d] \notin Inside
          /\ fsm # "closing"
        BY <1>12 DEF Join, MayLock, Held
    <2>4. Typed'
        BY <1>12, <2>1 DEF Join, Typed, Idle, FsmPC, CallPC, CallOpen, CallEnded, RacerPC
    <2>5. Held'
        BY <1>12, <2>2, <2>3 DEF Join, Held, CallOpen
    <2>6. Queued'
        BY <1>12 DEF Join, Queued, Flying
    <2>7. Flying'
        BY <1>12, <2>2, <2>3 DEF Join, Flying, Held, Alone, Idle
    <2>8. Stored'
        BY <1>12, <2>1, StoresStay DEF Join, Flying, CallOpen
    <2>9. QED
        BY <2>4, <2>5, <2>6, <2>7, <2>8
<1>13. ASSUME NEW c \in Call, FinishTerm(c) PROVE RuntimeInv'
    <2>1. pc' = [pc EXCEPT ![c] = "completed"]
        BY <1>13 DEF FinishTerm, Goto
    <2>2. \A d \in Call : pc'[d] = IF d = c THEN "completed" ELSE pc[d]
        BY <2>1 DEF Typed
    <2>3. /\ \A d \in Call : d # c => pc[d] \notin Inside
          /\ fsm # "closing"
        BY <1>13 DEF FinishTerm, MayLock, Held
    <2>4. stores \in Nat \ {0}
        BY <1>13 DEF FinishTerm, Flying, Opening, Stored, Needed, Typed
    <2>5. Typed'
        <3>1. stores' \in Nat
            BY <1>13, <2>4 DEF FinishTerm
        <3>2. started' \in BOOLEAN
            BY <1>13 DEF FinishTerm
        <3>3. QED
            BY <1>13, <3>1, <3>2, <2>1, <2>4 DEF FinishTerm, Typed, Idle, FsmPC, CallPC,
                       CallOpen, CallEnded, RacerPC
    <2>6. Held'
        BY <1>13, <2>2, <2>3 DEF FinishTerm, Held, CallOpen
    <2>7. Queued'
        BY <1>13 DEF FinishTerm, Queued, Flying
    <2>8. Flying'
        BY <1>13, <2>2, <2>3 DEF FinishTerm, Flying, Held, Alone, Idle
    <2>9. Stored'
        <3>1. started /\ ~started' /\ stores' = stores - 1
            BY <1>13 DEF FinishTerm, Flying
        <3>2. ~Opening'
            BY <1>13, <2>2 DEF FinishTerm, Opening, Held
        <3>3. /\ Cardinality(Begun) \in Nat /\ Cardinality(Begun') \in Nat
              /\ Cardinality(Begun) <= Cardinality(Begun')
            BY <2>1, BegunGrows
        <3>4. NobodyGone' => NobodyGone
            BY <1>13, <2>2 DEF NobodyGone, FinishTerm
        <3>5. QED
            BY <3>1, <3>2, <3>3, <3>4 DEF Stored, Needed, Typed
    <2>10. QED
        BY <2>5, <2>6, <2>7, <2>8, <2>9
<1>14. ASSUME NEW c \in Call, CallerGone(c) PROVE RuntimeInv'
    <2>1. pc' = [pc EXCEPT ![c] = "gone"]
        BY <1>14 DEF CallerGone, Goto
    <2>2. \A d \in Call : pc'[d] = IF d = c THEN "gone" ELSE pc[d]
        BY <2>1 DEF Typed
    <2>3. queue' \in Seq(Proc) /\ Once(queue', Fsm) /\ (Waits(queue', Fsm) => Waits(queue, Fsm))
        BY <1>14, OneLeaves DEF CallerGone, Typed, Queued
    <2>4. Typed'
        BY <1>14, <2>1, <2>3 DEF CallerGone, Typed, Idle, FsmPC, CallPC, CallOpen, CallEnded,
                   RacerPC
    <2>5. Held'
        BY <1>14, <2>2 DEF CallerGone, Held, CallOpen
    <2>6. Queued'
        BY <1>14, <2>3 DEF CallerGone, Queued
    <2>7. Flying'
        BY <1>14, <2>2 DEF CallerGone, Flying, Held, Alone, Idle
    <2>8. Stored'
        BY <1>14, <2>1, StoresStay DEF CallerGone, Flying, CallOpen
    <2>9. QED
        BY <2>4, <2>5, <2>6, <2>7, <2>8
<1>15. CASE FsmBegins
    <2>1. \/ queue' = queue /\ fsm' \in {"racing", "crashed"}
          \/ queue' = Append(queue, Fsm) /\ fsm' = "lockTerm"
        BY <1>15 DEF FsmBegins, EnterState
    <2>2. queue' \in Seq(Proc) /\ Queued'
        <3>1. queue \in Seq(Proc) /\ ~Waits(queue, Fsm) /\ Once(queue, Fsm) /\ Fsm \in Proc
            BY <1>15, Apart DEF FsmBegins, Queued, Typed
        <3>2. Append(queue, Fsm) \in Seq(Proc) /\ Once(Append(queue, Fsm), Fsm)
            BY <3>1, Joins
        <3>3. QED
            BY <2>1, <3>1, <3>2 DEF Queued
    <2>3. fsm \notin FsmEnded \cup {"closing", "lockTerm"} /\ fsm' \notin {"closing"}
        BY <1>15, <2>1 DEF FsmBegins
    <2>4. racers' \in [Racer -> {"off", "running"}] /\ (fsm' # "racing" => racers' = Idle)
        BY <1>15 DEF FsmBegins, EnterState, Idle
    <2>5. Typed'
        BY <1>15, <2>1, <2>2, <2>4 DEF FsmBegins, EnterState, Typed, FsmPC, RacerPC
    <2>6. Held'
        BY <1>15, <2>3 DEF FsmBegins, EnterState, Held
    <2>7. Flying'
        <3>1. fsm' # "racing" => Alone'
            BY <2>4 DEF Alone, Idle
        <3>2. started /\ \A c \in Call : pc[c] # "closing"
            BY <2>3 DEF Flying
        <3>3. QED
            BY <1>15, <3>1, <3>2 DEF FsmBegins, EnterState, Flying
    <2>8. Stored'
        BY <1>15 DEF FsmBegins, EnterState, Stored, Needed, Opening, Begun, NobodyGone
    <2>9. QED
        BY <2>2, <2>5, <2>6, <2>7, <2>8
<1>16. ASSUME NEW x \in Racer, RacerFinishes(x) PROVE RuntimeInv'
    <2>1. Typed'
        BY <1>16 DEF RacerFinishes, Typed, FsmPC, CallPC, CallOpen, CallEnded, RacerPC
    <2>2. Held'
        BY <1>16 DEF RacerFinishes, MayLock, Held
    <2>3. Queued'
        BY <1>16 DEF RacerFinishes, Queued, Flying, Alone
    <2>4. Flying'
        BY <1>16 DEF RacerFinishes, Flying, Alone, Typed, FsmPC, CallPC, CallOpen, CallEnded,
                   RacerPC
    <2>5. Stored'
        BY <1>16 DEF RacerFinishes, Stored, Needed, Opening, Begun, NobodyGone
    <2>6. QED
        BY <2>1, <2>2, <2>3, <2>4, <2>5
<1>17. ASSUME NEW x \in Racer, RacerRaises(x) PROVE RuntimeInv'
    <2>1. fsm \in {"racing", "leaving"}
        BY <1>17 DEF RacerRaises, Flying, Alone
    <2>2. Typed'
        BY <1>17, <2>1 DEF RacerRaises, Typed, FsmPC, CallPC, CallOpen, CallEnded, RacerPC
    <2>3. Held'
        BY <1>17, <2>1 DEF RacerRaises, MayLock, Held
    <2>4. Queued'
        BY <1>17, <2>1 DEF RacerRaises, Queued, Flying, Alone
    <2>5. Flying'
        BY <1>17, <2>1 DEF RacerRaises, Flying, Alone, Typed, FsmPC, CallPC, CallOpen,
                   CallEnded, RacerPC
    <2>6. Stored'
        BY <1>17 DEF RacerRaises, Stored, Needed, Opening, Begun, NobodyGone
    <2>7. QED
        BY <2>2, <2>3, <2>4, <2>5, <2>6
<1>18. ASSUME NEW x \in Racer, RacerCancelled(x) PROVE RuntimeInv'
    <2>1. Typed'
        BY <1>18 DEF RacerCancelled, Typed, FsmPC, CallPC, CallOpen, CallEnded, RacerPC
    <2>2. Held'
        BY <1>18 DEF RacerCancelled, MayLock, Held
    <2>3. Queued'
        BY <1>18 DEF RacerCancelled, Queued, Flying, Alone
    <2>4. Flying'
        BY <1>18 DEF RacerCancelled, Flying, Alone, Typed, FsmPC, CallPC, CallOpen, CallEnded,
                   RacerPC
    <2>5. Stored'
        BY <1>18 DEF RacerCancelled, Stored, Needed, Opening, Begun, NobodyGone
    <2>6. QED
        BY <2>1, <2>2, <2>3, <2>4, <2>5
<1>19. CASE TakeWinner
    <2>1. Typed'
        BY <1>19 DEF TakeWinner, Typed, FsmPC, CallPC, CallOpen, CallEnded, RacerPC
    <2>2. Held'
        BY <1>19 DEF TakeWinner, MayLock, Held
    <2>3. Queued'
        BY <1>19 DEF TakeWinner, Queued, Flying, Alone
    <2>4. Flying'
        BY <1>19 DEF TakeWinner, Flying, Alone, Typed, FsmPC, CallPC, CallOpen, CallEnded,
                   RacerPC
    <2>5. Stored'
        BY <1>19 DEF TakeWinner, Stored, Needed, Opening, Begun, NobodyGone
    <2>6. QED
        BY <2>1, <2>2, <2>3, <2>4, <2>5
<1>20. CASE LeaveState
    <2>1. \/ queue' = queue /\ fsm' \in {"racing", "crashed"}
          \/ queue' = Append(queue, Fsm) /\ fsm' = "lockTerm"
        BY <1>20 DEF LeaveState, EnterState
    <2>2. queue' \in Seq(Proc) /\ Queued'
        <3>1. queue \in Seq(Proc) /\ ~Waits(queue, Fsm) /\ Once(queue, Fsm) /\ Fsm \in Proc
            BY <1>20, Apart DEF LeaveState, Queued, Typed
        <3>2. Append(queue, Fsm) \in Seq(Proc) /\ Once(Append(queue, Fsm), Fsm)
            BY <3>1, Joins
        <3>3. QED
            BY <2>1, <3>1, <3>2 DEF Queued
    <2>3. fsm \notin FsmEnded \cup {"closing", "lockTerm"} /\ fsm' \notin {"closing"}
        BY <1>20, <2>1 DEF LeaveState
    <2>4. racers' \in [Racer -> {"off", "running"}] /\ (fsm' # "racing" => racers' = Idle)
        BY <1>20 DEF LeaveState, EnterState, Idle
    <2>5. Typed'
        BY <1>20, <2>1, <2>2, <2>4 DEF LeaveState, EnterState, Typed, FsmPC, RacerPC
    <2>6. Held'
        BY <1>20, <2>3 DEF LeaveState, EnterState, Held
    <2>7. Flying'
        <3>1. fsm' # "racing" => Alone'
            BY <2>4 DEF Alone, Idle
        <3>2. started /\ \A c \in Call : pc[c] # "closing"
            BY <2>3 DEF Flying
        <3>3. QED
            BY <1>20, <3>1, <3>2 DEF LeaveState, EnterState, Flying
    <2>8. Stored'
        BY <1>20 DEF LeaveState, EnterState, Stored, Needed, Opening, Begun, NobodyGone
    <2>9. QED
        BY <2>2, <2>5, <2>6, <2>7, <2>8
<1>21. CASE FsmAborts
    <2>1. Typed'
        BY <1>21 DEF FsmAborts, Typed, FsmPC, CallPC, CallOpen, CallEnded, RacerPC
    <2>2. Held'
        BY <1>21 DEF FsmAborts, MayLock, Held
    <2>3. Queued'
        BY <1>21 DEF FsmAborts, Queued, Flying, Alone
    <2>4. Flying'
        BY <1>21 DEF FsmAborts, Flying, Alone, Typed, FsmPC, CallPC, CallOpen, CallEnded,
                   RacerPC
    <2>5. Stored'
        BY <1>21 DEF FsmAborts, Stored, Needed, Opening, Begun, NobodyGone
    <2>6. QED
        BY <2>1, <2>2, <2>3, <2>4, <2>5
<1>22. CASE FsmBeginsTerm
    <2>1. /\ queue' \in Seq(Proc) /\ Once(queue', Fsm) /\ ~Waits(queue', Fsm)
          /\ fsm = "lockTerm" /\ started /\ fsm' = "closing"
        BY <1>22, HeadLeaves DEF FsmBeginsTerm, MayLock, Typed, Queued, Flying
    <2>2. Typed'
        BY <1>22, <2>1 DEF FsmBeginsTerm, Typed, FsmPC, CallPC, CallOpen, CallEnded, RacerPC
    <2>3. Held'
        BY <1>22 DEF FsmBeginsTerm, MayLock, Held, Typed
    <2>4. Queued'
        BY <1>22, <2>1 DEF FsmBeginsTerm, Queued, Flying, Alone
    <2>5. Flying'
        BY <1>22, <2>1 DEF FsmBeginsTerm, Flying, Alone, Typed, FsmPC, CallPC, CallOpen,
                   CallEnded, RacerPC
    <2>6. Stored'
        BY <1>22 DEF FsmBeginsTerm, Stored, Needed, Opening, Begun, NobodyGone
    <2>7. QED
        BY <2>2, <2>3, <2>4, <2>5, <2>6
<1>23. CASE FsmFinishesTerm
    <2>1. /\ stores \in Nat \ {0} /\ started' = FALSE
          /\ \A c \in Call : pc[c] \notin Inside
        BY <1>23 DEF FsmFinishesTerm, Flying, Stored, Needed, Typed, Held
    <2>2. Typed'
        <3>1. stores' \in Nat
            BY <1>23, <2>1 DEF FsmFinishesTerm
        <3>2. started' \in BOOLEAN
            BY <1>23 DEF FsmFinishesTerm
        <3>3. QED
            BY <1>23, <3>1, <3>2, <2>1 DEF Needed, FsmFinishesTerm, Typed, FsmPC, CallPC,
                       CallOpen, CallEnded, RacerPC
    <2>3. Held'
        BY <1>23, <2>1 DEF FsmFinishesTerm, MayLock, Held
    <2>4. Queued'
        BY <1>23, <2>1 DEF FsmFinishesTerm, Queued, Flying, Alone
    <2>5. Flying'
        BY <1>23, <2>1 DEF FsmFinishesTerm, Flying, Alone
    <2>6. Stored'
        <3>1. started /\ ~started' /\ stores' = stores - 1
            BY <1>23 DEF FsmFinishesTerm, Flying
        <3>2. ~Opening'
            BY <1>23 DEF FsmFinishesTerm, Opening, Held
        <3>3. Cardinality(Begun) \in Nat
            BY FS_Subset, FS_CardinalityType DEF Begun
        <3>4. QED
            BY <1>23, <3>1, <3>2, <3>3 DEF FsmFinishesTerm, Stored, Needed, Begun, NobodyGone,
                       Typed
    <2>7. QED
        BY <2>2, <2>3, <2>4, <2>5, <2>6
<1>24. CASE UNCHANGED vars
    BY <1>24 DEF vars, Typed, Held, Queued, Flying, Alone, Stored, Needed, Opening, Begun,
               NobodyGone
<1>25. QED
    BY <1>1, <1>2, <1>3, <1>4, <1>5, <1>6, <1>7, <1>8, <1>9, <1>10, <1>11, <1>12, <1>13, <1>14,
               <1>15, <1>16, <1>17, <1>18, <1>19, <1>20, <1>21, <1>22, <1>23, <1>24 DEF Next,
             CallStep, FsmStep

(* Every behaviour keeps to the invariant. *)
LEMMA RuntimeInvariant == Spec => []RuntimeInv
<1>1. Init => RuntimeInv
    <2> SUFFICES ASSUME Init PROVE RuntimeInv
        OBVIOUS
    <2>1. <<>> \in Seq(Proc) /\ Len(<<>>) = 0
        BY EmptySeq
    <2>2. Typed
        BY <2>1 DEF Init, Typed, Idle, FsmPC, FsmEnded, CallPC, RacerPC
    <2>3. Held
        BY Apart DEF Init, Held, Inside
    <2>4. Queued
        BY <2>1 DEF Init, Queued, Once, Waits
    <2>5. Flying
        BY DEF Init, Flying, FsmEnded, Alone, Idle
    <2>6. Stored
        <3>1. Begun = {} /\ Cardinality(Begun) = 0
            BY Apart, FS_EmptySet DEF Begun, Init
        <3>2. ~Opening /\ ~started /\ stores = 0
            BY DEF Opening, Init
        <3>3. QED
            BY <3>1, <3>2 DEF Stored, Needed
    <2>7. QED
        BY <2>2, <2>3, <2>4, <2>5, <2>6 DEF RuntimeInv
<1>2. QED
    BY <1>1, RuntimeStep, PTL DEF Spec

(* What the runs check of the runtime's types: the lock is held by who is inside it, and there
   are never more stores than Starts, nor fewer than none, whoever hangs up. *)
THEOREM RuntimeTyped == Spec => []TypeOK
<1>1. RuntimeInv => TypeOK
    <2> SUFFICES ASSUME RuntimeInv PROVE TypeOK
        OBVIOUS
    <2>1. IsFiniteSet(Begun) /\ Begun \subseteq StartCall
        BY Apart, FS_Subset DEF Begun
    <2>2. /\ Cardinality(Begun) \in Nat /\ Cardinality(StartCall) \in Nat
          /\ Cardinality(Begun) <= Cardinality(StartCall)
        BY <2>1, Apart, FS_Subset, FS_CardinalityType
    <2>3. stores \in 0..Cardinality(StartCall)
        BY <2>2 DEF RuntimeInv, Stored, Typed
    <2>4. QED
        BY <2>3 DEF RuntimeInv, Typed, Held, Inside, TypeOK
<1>2. QED
    BY <1>1, RuntimeInvariant, PTL

(* "cleaning up partial init" and "Runtime stopped cleanly" (runtime/__init__.py): with nobody
   in the lock a started runtime has one store and a stopped one none, while no caller hung up. *)
THEOREM StoresFollowRuntime == Spec => []StoreMatchesRuntime
<1>1. RuntimeInv => StoreMatchesRuntime
    BY Apart DEF RuntimeInv, Typed, Held, Inside, Stored, Needed, Opening, StoreMatchesRuntime
<1>2. QED
    BY <1>1, RuntimeInvariant, PTL

(* init() makes an FSM (runtime/__init__.py) only when the one before has ended with all its
   tasks: two missions never fly at once. *)
THEOREM OneMissionAtOnce == Spec => OneMission
<1> DEFINE Made == fsm # "created" /\ fsm' = "created" => fsm \in FsmEnded /\ Alone
<1>1. RuntimeInv /\ [Next]_vars => [Made]_vars
    <2> SUFFICES ASSUME RuntimeInv, Next, fsm # "created", fsm' = "created"
                 PROVE  fsm \in FsmEnded /\ Alone
        OBVIOUS
    <2>1. PICK c \in Call : FinishInit(c)
        BY DEF Next, CallStep, FsmStep, Upload, Start, InitRaises, Stop, SkipInit, BeginInit, UndoInit,
               SkipTerm, BeginTerm, CancelFsm, Join, FinishTerm, CallerGone, RacerFinishes,
               RacerRaises, RacerCancelled, FsmBegins, EnterState, TakeWinner, LeaveState,
               FsmAborts, FsmBeginsTerm, FsmFinishesTerm, fsmVars
    <2>2. ~started
        BY <2>1 DEF FinishInit, RuntimeInv, Flying
    <2>3. QED
        BY <2>2 DEF RuntimeInv, Flying, FsmEnded
<1>2. QED
    BY <1>1, RuntimeInvariant, PTL DEF Spec, OneMission

(* The FSM leaves a state, and ends, with all tasks of the state (fsm.py): no action of an
   earlier state, and none of an ended mission, flies on. *)
THEOREM StatesEndWhole == Spec => NoStrayRacer
<1> DEFINE Left == state' # state \/ fsm' \in FsmEnded \ {fsm} => Alone
<1>1. RuntimeInv /\ [Next]_vars => [Left]_vars
    <2> SUFFICES ASSUME RuntimeInv, Next, ~Alone
                 PROVE  state' = state /\ fsm' \notin FsmEnded \ {fsm}
        OBVIOUS
    <2>1. fsm \in {"racing", "leaving"} /\ started
        BY DEF RuntimeInv, Flying, FsmEnded
    <2>2. ASSUME NEW c \in Call, CallStep(c) PROVE state' = state /\ fsm' \notin FsmEnded \ {fsm}
        BY <2>1, <2>2 DEF CallStep, SkipInit, BeginInit, FinishInit, UndoInit, SkipTerm, BeginTerm,
               CancelFsm, Join, FinishTerm, fsmVars, FsmEnded, RuntimeInv, Flying
    <2>3. CASE FsmStep
        BY <2>1, <2>3 DEF FsmStep, FsmBegins, TakeWinner, LeaveState, FsmAborts, FsmBeginsTerm,
               FsmFinishesTerm, FsmEnded, RuntimeInv, Queued, Typed, MayLock
    <2>4. ASSUME NEW x \in Racer, RacerFinishes(x) \/ RacerRaises(x) \/ RacerCancelled(x)
          PROVE  state' = state /\ fsm' \notin FsmEnded \ {fsm}
        BY <2>4 DEF RacerFinishes, RacerRaises, RacerCancelled, FsmEnded
    <2>5. QED
        BY <2>2, <2>3, <2>4 DEF Next, Upload, Start, InitRaises, Stop, CallerGone, fsmVars
<1>2. QED
    BY <1>1, RuntimeInvariant, PTL DEF Spec, NoStrayRacer

(* "Stop the current mission" (mission_service.py:58): when a Stop is answered COMPLETED, no
   FSM runs and the runtime is stopped. *)
THEOREM StopLeavesNothing == Spec => StopStops
<1> DEFINE Answered == \A c \in StopCall :
              pc[c] # "completed" /\ pc'[c] = "completed" => fsm' \in FsmEnded /\ Alone /\ ~started'
<1>1. RuntimeInv /\ [Next]_vars => [Answered]_vars
    <2> SUFFICES ASSUME RuntimeInv, Next,
                        NEW c \in StopCall, pc[c] # "completed", pc'[c] = "completed"
                 PROVE  fsm' \in FsmEnded /\ Alone /\ ~started'
        OBVIOUS
    <2>1. c \in Call /\ c \notin StartCall /\ pc \in [Call -> CallPC]
        BY Apart DEF RuntimeInv, Typed
    <2>2. SkipTerm(c) \/ FinishTerm(c)
        <3>1. ASSUME NEW d \in Call, CallStep(d) PROVE d = c /\ (SkipTerm(c) \/ FinishTerm(c))
            BY <2>1, <3>1 DEF CallStep, SkipInit, BeginInit, FinishInit, UndoInit, SkipTerm, BeginTerm,
                   CancelFsm, Join, FinishTerm, Goto, RuntimeInv, Flying
        <3>2. ASSUME NEW d \in Call, CallerGone(d) PROVE FALSE
            BY <2>1, <3>2 DEF CallerGone, Goto
        <3>3. ASSUME NEW d \in StartCall, Start(d) \/ InitRaises(d) PROVE FALSE
            BY <2>1, <3>3, Apart DEF Start, InitRaises, Goto
        <3>4. ASSUME NEW d \in StopCall, Stop(d) PROVE FALSE
            BY <2>1, <3>4, Apart DEF Stop, Goto
        <3>5. QED
            BY <3>1, <3>2, <3>3, <3>4 DEF Next, Upload, FsmStep, FsmBegins, TakeWinner, LeaveState,
                   FsmAborts, FsmBeginsTerm, FsmFinishesTerm, RacerFinishes, RacerRaises, RacerCancelled
    <2>3. fsm \in FsmEnded /\ fsm' = fsm /\ ~started'
        BY <2>1, <2>2 DEF SkipTerm, FinishTerm, RuntimeInv, Flying, fsmVars
    <2>4. QED
        BY <2>3 DEF RuntimeInv, Flying, FsmEnded
<1>2. QED
    BY <1>1, RuntimeInvariant, PTL DEF Spec, StopStops

----------------------------------------------------------------------------
(***************************************************************************)
(* Who waits for whom.  The queue of the lock is the set of those who are  *)
(* at the lock, in the order they came.                                    *)
(***************************************************************************)
WaitInv == RuntimeInv /\ NobodyStuck

(* Where a call goes decides whether it is at the lock. *)
LEMMA CallAtLock ==
    ASSUME Typed, NEW c \in Call, NEW place, pc' = [pc EXCEPT ![c] = place],
           fsm' = "lockTerm" <=> fsm = "lockTerm"
    PROVE  AtLock' = IF place \in {"lockInit", "lockTerm"} THEN AtLock \cup {c} ELSE AtLock \ {c}
<1>1. \A d \in Call : pc'[d] = IF d = c THEN place ELSE pc[d]
    BY DEF Typed
<1>2. QED
    BY <1>1, Apart DEF AtLock

(* The head of the queue is at the lock, and there no longer when it has got it. *)
LEMMA HeadAtLock ==
    ASSUME WaitInv, NEW p, MayLock(p), queue' = Tail(queue)
    PROVE  IsInjective(queue') /\ Range(queue') = AtLock \ {p} /\ p \in AtLock
<1>1. queue \in Seq(Proc) /\ queue # <<>> /\ Head(queue) = p /\ IsInjective(queue) /\ Range(queue) = AtLock
    BY DEF WaitInv, NobodyStuck, RuntimeInv, Typed, MayLock
<1>2. QED
    BY <1>1, QueueMoves

(* A call of which nobody is told by the FSM. *)
LEMMA JoinedStays ==
    ASSUME WaitInv, NEW c \in Call, NEW place, pc' = [pc EXCEPT ![c] = place], place # "joining",
           UNCHANGED <<cancelled, fsm>>
    PROVE  \A d \in Call : pc'[d] = "joining" => cancelled' /\ fsm' \in FsmEnded \cup {"leaving"}
  BY DEF WaitInv, NobodyStuck, RuntimeInv, Typed

LEMMA WaitStep == WaitInv /\ [Next]_vars => NobodyStuck'
<1> SUFFICES ASSUME WaitInv, [Next]_vars PROVE NobodyStuck'
    OBVIOUS
<1> USE Apart DEF fsmVars, lockVars
<1>t. Typed /\ Held /\ Flying /\ Range(queue) = AtLock /\ IsInjective(queue) /\ queue \in Seq(Proc)
    BY DEF WaitInv, RuntimeInv, NobodyStuck, Typed
<1>j. fsm \notin FsmEnded \cup {"leaving"} => \A c \in Call : pc[c] # "joining"
    BY DEF WaitInv, NobodyStuck
<1>1. ASSUME NEW m \in Mission, Upload(m) PROVE NobodyStuck'
    BY <1>1 DEF Upload, WaitInv, NobodyStuck, AtLock
<1>2. ASSUME NEW c \in Call, Start(c) \/ Stop(c) PROVE NobodyStuck'
    <2>1. pc[c] = "idle" /\ UNCHANGED <<fsm, cancelled>> /\ c \notin AtLock
        BY <1>2 DEF Start, Stop, AtLock
    <2>2. CASE mission = NoMission
        <3>1. pc' = [pc EXCEPT ![c] = "refused"] /\ queue' = queue
            BY <1>2, <2>2 DEF Start, Stop, Goto
        <3>2. AtLock' = AtLock
            <4>1. AtLock' = AtLock \ {c}
                BY <1>t, <2>1, <3>1, CallAtLock
            <4>2. QED
                BY <2>1, <4>1
        <3>3. QED
            BY <1>t, <2>1, <3>1, <3>2, JoinedStays DEF NobodyStuck
    <2>3. CASE mission # NoMission
        <3>1. PICK place \in {"lockInit", "lockTerm"} :
                  pc' = [pc EXCEPT ![c] = place] /\ queue' = Append(queue, c)
            BY <1>2, <2>3 DEF Start, Stop, Goto
        <3>2. AtLock' = AtLock \cup {c}
            BY <1>t, <2>1, <3>1, CallAtLock
        <3>3. IsInjective(queue') /\ Range(queue') = AtLock \cup {c}
            BY <1>t, <2>1, <3>1, QueueGrows
        <3>4. QED
            BY <2>1, <3>1, <3>2, <3>3, JoinedStays DEF NobodyStuck
    <2>4. QED
        BY <2>2, <2>3
<1>3. ASSUME NEW c \in Call, SkipInit(c) \/ BeginInit(c) \/ SkipTerm(c) \/ BeginTerm(c)
      PROVE  NobodyStuck'
    <2>1. PICK place \in {"completed", "opening", "closing"} : pc' = [pc EXCEPT ![c] = place]
        BY <1>3 DEF SkipInit, BeginInit, SkipTerm, BeginTerm, Goto
    <2>2. MayLock(c) /\ queue' = Tail(queue) /\ UNCHANGED <<fsm, cancelled>>
        BY <1>3 DEF SkipInit, BeginInit, SkipTerm, BeginTerm
    <2>3. AtLock' = AtLock \ {c}
        BY <1>t, <2>1, <2>2, CallAtLock
    <2>4. QED
        BY <2>1, <2>2, <2>3, HeadAtLock, JoinedStays DEF NobodyStuck
<1>4. ASSUME NEW c \in Call, FinishInit(c) PROVE NobodyStuck'
    <2>1. pc[c] = "opening" /\ pc' = [pc EXCEPT ![c] = "completed"] /\ queue' = queue
          /\ fsm' = "created"
        BY <1>4 DEF FinishInit, Goto
    <2>2. fsm \in FsmEnded /\ lock = c
        BY <1>t, <2>1 DEF Flying, Held, Inside
    <2>3. AtLock' = AtLock
        <3>1. AtLock' = AtLock \ {c}
            BY <1>t, <2>1, <2>2, CallAtLock DEF FsmEnded
        <3>2. c \notin AtLock
            BY <2>1 DEF AtLock
        <3>3. QED
            BY <3>1, <3>2
    <2>4. \A d \in Call : pc'[d] # "joining"
        BY <1>t, <2>1, <2>2 DEF Held, Inside, Typed
    <2>5. QED
        BY <1>t, <2>1, <2>3, <2>4 DEF NobodyStuck
<1>5. ASSUME NEW c \in Call, InitRaises(c) \/ UndoInit(c) \/ Join(c) \/ FinishTerm(c)
      PROVE  NobodyStuck'
    <2>1. PICK place \in {"undoing", "failed", "closing", "completed"} :
              pc' = [pc EXCEPT ![c] = place]
        BY <1>5 DEF InitRaises, UndoInit, Join, FinishTerm, Goto
    <2>2. UNCHANGED <<queue, fsm, cancelled>> /\ c \notin AtLock
        BY <1>5 DEF InitRaises, UndoInit, Join, FinishTerm, AtLock
    <2>3. AtLock' = AtLock
        <3>1. AtLock' = AtLock \ {c}
            BY <1>t, <2>1, <2>2, CallAtLock
        <3>2. QED
            BY <2>2, <3>1
    <2>4. QED
        BY <1>t, <2>1, <2>2, <2>3, JoinedStays DEF NobodyStuck
<1>6. ASSUME NEW c \in Call, CancelFsm(c) PROVE NobodyStuck'
    <2>1. /\ MayLock(c) /\ queue' = Without(Tail(queue), Fsm) /\ pc' = [pc EXCEPT ![c] = "joining"]
          /\ cancelled' = TRUE /\ fsm' \in {"leaving", "cancelled"}
        BY <1>6 DEF CancelFsm, Goto
    <2>2. \A d \in Call : pc'[d] = IF d = c THEN "joining" ELSE pc[d]
        BY <1>t, <2>1 DEF Typed
    <2>3. AtLock' = (AtLock \ {c}) \ {Fsm}
        BY <2>1, <2>2 DEF AtLock
    <2>4. /\ Tail(queue) \in Seq(Proc) /\ IsInjective(Tail(queue))
          /\ Range(Tail(queue)) = AtLock \ {c}
        BY <1>t, <2>1, HeadLeaves, QueueMoves DEF MayLock
    <2>5. IsInjective(queue') /\ Range(queue') = (AtLock \ {c}) \ {Fsm}
        BY <2>1, <2>4, QueueLoses
    <2>6. \A d \in Call : pc'[d] = "joining" => cancelled' /\ fsm' \in FsmEnded \cup {"leaving"}
        BY <2>1 DEF FsmEnded
    <2>7. QED
        BY <2>3, <2>5, <2>6 DEF NobodyStuck
<1>7. ASSUME NEW c \in Call, CallerGone(c) PROVE NobodyStuck'
    <2>1. pc' = [pc EXCEPT ![c] = "gone"] /\ queue' = Without(queue, c) /\ UNCHANGED <<fsm, cancelled>>
        BY <1>7 DEF CallerGone, Goto
    <2>2. AtLock' = AtLock \ {c}
        BY <1>t, <2>1, CallAtLock
    <2>3. IsInjective(queue') /\ Range(queue') = AtLock \ {c}
        BY <1>t, <2>1, QueueLoses
    <2>4. QED
        BY <2>1, <2>2, <2>3, JoinedStays DEF NobodyStuck
<1>8. ASSUME NEW x \in Racer, RacerFinishes(x) \/ RacerRaises(x) \/ RacerCancelled(x)
      PROVE  NobodyStuck'
    <2>1. ~Alone /\ fsm \in {"racing", "leaving"}
        BY <1>t, <1>8 DEF Alone, Flying, RacerFinishes, RacerRaises, RacerCancelled
    <2>2. UNCHANGED <<queue, pc, cancelled>> /\ (fsm' = fsm \/ fsm' = "leaving")
        BY <1>8 DEF RacerFinishes, RacerRaises, RacerCancelled
    <2>3. AtLock' = AtLock
        BY <2>1, <2>2 DEF AtLock
    <2>4. QED
        BY <2>2, <2>3 DEF WaitInv, NobodyStuck
<1>9. CASE FsmBegins \/ LeaveState
    <2>1. /\ fsm # "lockTerm" /\ UNCHANGED <<pc, cancelled>> /\ \A c \in Call : pc[c] # "joining"
          /\ \/ queue' = queue /\ fsm' \in {"racing", "crashed"}
             \/ queue' = Append(queue, Fsm) /\ fsm' = "lockTerm"
        BY <1>9 DEF WaitInv, NobodyStuck, FsmBegins, LeaveState, EnterState, FsmEnded
    <2>2. CASE queue' = queue /\ fsm' \in {"racing", "crashed"}
        <3>1. AtLock' = AtLock
            BY <2>1, <2>2 DEF AtLock
        <3>2. QED
            BY <1>t, <2>1, <2>2, <3>1 DEF NobodyStuck
    <2>3. CASE queue' = Append(queue, Fsm) /\ fsm' = "lockTerm"
        <3>1. AtLock' = AtLock \cup {Fsm} /\ Fsm \notin AtLock
            BY <2>1, <2>3 DEF AtLock
        <3>2. IsInjective(queue') /\ Range(queue') = AtLock \cup {Fsm}
            BY <1>t, <2>3, <3>1, QueueGrows
        <3>3. QED
            BY <2>1, <3>1, <3>2 DEF NobodyStuck
    <2>4. QED
        BY <2>1, <2>2, <2>3
<1>10. CASE TakeWinner \/ FsmAborts \/ FsmFinishesTerm
    <2>1. /\ fsm # "lockTerm" /\ fsm' \in FsmEnded \cup {"leaving"}
          /\ UNCHANGED <<queue, pc, cancelled>>
        BY <1>10 DEF TakeWinner, FsmAborts, FsmFinishesTerm, FsmEnded
    <2>2. AtLock' = AtLock
        BY <2>1 DEF AtLock, FsmEnded
    <2>3. QED
        BY <2>1, <2>2 DEF WaitInv, NobodyStuck
<1>11. CASE FsmBeginsTerm
    <2>1. /\ fsm = "lockTerm" /\ fsm' \in {"closing", "done"} /\ MayLock(Fsm)
          /\ queue' = Tail(queue) /\ UNCHANGED <<pc, cancelled>>
        BY <1>11 DEF FsmBeginsTerm
    <2>2. AtLock' = AtLock \ {Fsm}
        BY <2>1 DEF AtLock
    <2>3. \A c \in Call : pc'[c] # "joining"
        BY <1>j, <2>1 DEF FsmEnded
    <2>4. QED
        BY <2>1, <2>2, <2>3, HeadAtLock DEF NobodyStuck
<1>12. CASE UNCHANGED vars
    BY <1>12 DEF vars, WaitInv, NobodyStuck, AtLock
<1>13. QED
    BY <1>1, <1>2, <1>3, <1>4, <1>5, <1>6, <1>7, <1>8, <1>9, <1>10, <1>11, <1>12
    DEF Next, CallStep, FsmStep

(* term() (runtime/__init__.py:95) joins the FSM with the lock in its hand while the FSM comes for
   the lock itself: neither ever waits for the other, and the lock is handed to who waits for it. *)
THEOREM TermNeverStuck == Spec => []NobodyStuck
<1>1. Init => NobodyStuck
    <2> SUFFICES ASSUME Init PROVE NobodyStuck
        OBVIOUS
    <2>1. Range(queue) = {} /\ IsInjective(queue)
        BY DEF Init, Range, IsInjective
    <2>2. AtLock = {}
        BY DEF Init, AtLock
    <2>3. QED
        BY <2>1, <2>2 DEF Init, NobodyStuck
<1>2. RuntimeInv /\ NobodyStuck /\ [Next]_vars => NobodyStuck'
    BY WaitStep DEF WaitInv
<1>3. QED
    BY <1>1, <1>2, RuntimeInvariant, PTL DEF Spec

----------------------------------------------------------------------------
(***************************************************************************)
(* The flight.  Wanted: whoever is to start a mission has one, and an FSM  *)
(* that has not ended runs one.  Raced: the tasks of a race are those of   *)
(* the transitions of its state, and so is the winner.  Won: the race is   *)
(* left for a winner, unless a task has failed or a Stop has cancelled it. *)
(***************************************************************************)
Wanted ==
    /\ fsm \notin FsmEnded => running \in Mission
    /\ \A c \in Call : pc[c] \in {"lockInit", "opening"} => want[c] \in Mission
Raced ==
    fsm \in {"racing", "leaving"} =>
        /\ Defined(state)
        /\ \A x \in Racer : racers[x] # "off" => x \in DOMAIN Transition[running][state]
        /\ winner # Nobody => winner \in DOMAIN Transition[running][state]
Won ==
    /\ fsm = "leaving" => Failed \/ cancelled \/ winner # Nobody
    /\ fsm \in {"lockTerm", "closing"} => state = Terminate
FlightInv == Wanted /\ Raced /\ Won

(* A state is entered with the tasks of its transitions, or not at all. *)
LEMMA Enters ==
    ASSUME NEW a, EnterState(a), fsm' # "leaving"
    PROVE  /\ fsm' \in {"lockTerm", "racing", "crashed"} /\ running' = running /\ state' = a
           /\ fsm' = "lockTerm" <=> a = Terminate
           /\ fsm' = "racing" => Defined(a)
           /\ Raced' /\ Won'
<1>1. /\ fsm' \in {"lockTerm", "racing", "crashed"} /\ running' = running /\ state' = a
      /\ winner' = Nobody
      /\ fsm' = "lockTerm" <=> a = Terminate
      /\ fsm' = "racing" => Defined(a) /\ a # Terminate
    BY DEF EnterState
<1>2. fsm' = "racing" => Raced'
    <2> SUFFICES ASSUME fsm' = "racing" PROVE Raced'
        OBVIOUS
    <2>1. racers' = [x \in Racer |-> IF x \in DOMAIN Transition[running][a] THEN "running" ELSE "off"]
        BY <1>1 DEF EnterState
    <2>2. QED
        BY <1>1, <2>1 DEF Raced, Defined, Actions
<1>3. QED
    BY <1>1, <1>2 DEF Raced, Won

LEMMA FlightStep == RuntimeInv /\ FlightInv /\ [Next]_vars => FlightInv'
<1> SUFFICES ASSUME RuntimeInv, FlightInv, [Next]_vars PROVE FlightInv'
    OBVIOUS
<1> USE Apart DEF fsmVars, lockVars, FsmEnded
<1>t. Typed /\ Held /\ Flying /\ Wanted /\ Raced /\ Won
    BY DEF RuntimeInv, FlightInv
<1>u. UNCHANGED fsmVars => Raced' /\ Won' /\ (fsm' \notin FsmEnded => running' \in Mission)
    BY <1>t DEF Raced, Won, Wanted, Failed, Defined, Actions
<1>w. UNCHANGED <<pc, want>> =>
          \A c \in Call : pc'[c] \in {"lockInit", "opening"} => want'[c] \in Mission
    BY <1>t DEF Wanted
<1>1. ASSUME NEW m \in Mission, Upload(m) PROVE FlightInv'
    BY <1>u, <1>w, <1>1 DEF Upload, FlightInv, Wanted
<1>2. ASSUME NEW c \in Call, Start(c) \/ Stop(c) PROVE FlightInv'
    <2>1. \A d \in Call : pc'[d] \in {"lockInit", "opening"} => want'[d] \in Mission
        <3> SUFFICES ASSUME NEW d \in Call, pc'[d] \in {"lockInit", "opening"}
                     PROVE  want'[d] \in Mission
            OBVIOUS
        <3>1. CASE d # c
            BY <1>t, <1>2, <3>1 DEF Start, Stop, Goto, Typed, Wanted
        <3>2. CASE d = c
            <4>1. mission # NoMission /\ want' = [want EXCEPT ![c] = mission]
                BY <1>t, <1>2, <3>2 DEF Start, Stop, Goto, Typed
            <4>2. QED
                BY <1>t, <3>2, <4>1 DEF Typed
        <3>3. QED
            BY <3>1, <3>2
    <2>2. UNCHANGED fsmVars
        BY <1>2 DEF Start, Stop
    <2>3. QED
        BY <1>u, <2>1, <2>2 DEF FlightInv, Wanted
<1>3. ASSUME NEW c \in Call,
             \/ SkipInit(c) \/ BeginInit(c) \/ InitRaises(c) \/ UndoInit(c) \/ SkipTerm(c)
             \/ BeginTerm(c) \/ Join(c) \/ FinishTerm(c) \/ CallerGone(c)
      PROVE  FlightInv'
    <2>1. UNCHANGED fsmVars /\ want' = want
        BY <1>3 DEF SkipInit, BeginInit, InitRaises, UndoInit, SkipTerm, BeginTerm, Join,
               FinishTerm, CallerGone
    <2>2. PICK place \in CallPC : pc' = [pc EXCEPT ![c] = place] /\ (place = "opening" => pc[c] = "lockInit")
                                  /\ place # "lockInit"
        BY <1>3 DEF SkipInit, BeginInit, InitRaises, UndoInit, SkipTerm, BeginTerm, Join,
               FinishTerm, CallerGone, Goto, CallPC, CallOpen, CallEnded
    <2>3. \A d \in Call : pc'[d] \in {"lockInit", "opening"} => want'[d] \in Mission
        BY <1>t, <2>1, <2>2 DEF Typed, Wanted
    <2>4. QED
        BY <1>u, <2>1, <2>3 DEF FlightInv, Wanted
<1>4. ASSUME NEW c \in Call, FinishInit(c) PROVE FlightInv'
    <2>1. want[c] \in Mission /\ fsm' = "created" /\ running' = want[c] /\ want' = want
        BY <1>t, <1>4 DEF FinishInit, Wanted
    <2>2. \A d \in Call : pc'[d] \in {"lockInit", "opening"} => want'[d] \in Mission
        BY <1>t, <1>4 DEF FinishInit, Goto, Typed, Wanted
    <2>3. QED
        BY <2>1, <2>2 DEF FlightInv, Wanted, Raced, Won
<1>5. ASSUME NEW c \in Call, CancelFsm(c) PROVE FlightInv'
    <2>1. /\ fsm' = IF fsm \in {"racing", "leaving"} THEN "leaving" ELSE "cancelled"
          /\ cancelled' = TRUE /\ UNCHANGED <<running, state, winner, want>>
          /\ racers' = [x \in Racer |-> IF racers[x] = "running" THEN "cancelling" ELSE racers[x]]
        BY <1>5 DEF CancelFsm
    <2>2. \A d \in Call : pc'[d] \in {"lockInit", "opening"} => want'[d] \in Mission
        BY <1>t, <1>5 DEF CancelFsm, Goto, Typed, Wanted
    <2>3. Wanted' /\ Won'
        BY <1>t, <2>1, <2>2 DEF Wanted, Won
    <2>4. Raced'
        BY <1>t, <2>1 DEF Raced, Defined, Actions, Typed
    <2>5. QED
        BY <2>3, <2>4 DEF FlightInv
<1>6. ASSUME NEW x \in Racer, RacerFinishes(x) \/ RacerRaises(x) \/ RacerCancelled(x)
      PROVE  FlightInv'
    <2>1. /\ fsm \in {"racing", "leaving"} /\ racers[x] # "off"
          /\ fsm' \in {fsm, "leaving"} /\ UNCHANGED <<running, state, cancelled, pc, want>>
        BY <1>t, <1>6 DEF RacerFinishes, RacerRaises, RacerCancelled, Flying, Alone
    <2>2. \A y \in Racer : racers'[y] # "off" => racers[y] # "off"
        BY <1>t, <1>6, <2>1 DEF RacerFinishes, RacerRaises, RacerCancelled, Typed
    <2>3. winner' \in {winner, x}
        BY <1>6 DEF RacerFinishes, RacerRaises, RacerCancelled
    <2>4. Raced'
        BY <1>t, <2>1, <2>2, <2>3 DEF Raced, Defined, Actions
    <2>5. Wanted'
        BY <1>t, <1>w, <2>1 DEF Wanted
    <2>6. Won'
        <3>1. CASE RacerRaises(x)
            <4>1. racers'[x] = "failed"
                BY <3>1 DEF RacerRaises
            <4>2. QED
                BY <2>1, <4>1 DEF Won, Failed
        <3>2. CASE RacerFinishes(x) \/ RacerCancelled(x)
            <4>1. \A y \in Racer : racers[y] = "failed" => racers'[y] = "failed"
                BY <1>t, <3>2 DEF RacerFinishes, RacerCancelled, Typed
            <4>2. fsm' = fsm /\ (winner # Nobody => winner' # Nobody)
                BY <3>2 DEF RacerFinishes, RacerCancelled
            <4>3. QED
                BY <1>t, <2>1, <4>1, <4>2 DEF Won, Failed
        <3>3. QED
            BY <1>6, <3>1, <3>2
    <2>7. QED
        BY <2>4, <2>5, <2>6 DEF FlightInv
<1>7. CASE FsmBegins \/ LeaveState
    <2>1. PICK a : EnterState(a) /\ fsm \notin FsmEnded /\ UNCHANGED <<pc, want>>
        BY <1>7 DEF FsmBegins, LeaveState
    <2>2. fsm' # "leaving"
        BY <2>1 DEF EnterState
    <2>3. running' = running /\ Raced' /\ Won'
        BY <2>1, <2>2, Enters
    <2>4. QED
        BY <1>t, <1>w, <2>1, <2>3 DEF FlightInv, Wanted
<1>8. CASE TakeWinner
    <2>1. /\ fsm = "racing" /\ fsm' = "leaving" /\ winner # Nobody
          /\ UNCHANGED <<running, state, winner, pc, want>>
          /\ racers' = [x \in Racer |-> IF racers[x] = "running" THEN "cancelling" ELSE racers[x]]
        BY <1>8 DEF TakeWinner
    <2>2. Raced'
        BY <1>t, <2>1 DEF Raced, Defined, Actions
    <2>3. QED
        BY <1>t, <1>w, <2>1, <2>2 DEF FlightInv, Wanted, Won
<1>9. CASE FsmAborts \/ FsmBeginsTerm \/ FsmFinishesTerm
    <2>1. /\ fsm' \in FsmEnded \cup {"closing"} /\ UNCHANGED <<running, state, pc, want>>
          /\ fsm' = "closing" => fsm = "lockTerm"
        BY <1>9 DEF FsmAborts, FsmBeginsTerm, FsmFinishesTerm
    <2>2. QED
        BY <1>t, <1>w, <2>1 DEF FlightInv, Wanted, Raced, Won
<1>10. CASE UNCHANGED vars
    BY <1>u, <1>w, <1>10 DEF vars, FlightInv, Wanted
<1>11. QED
    BY <1>1, <1>2, <1>3, <1>4, <1>5, <1>6, <1>7, <1>8, <1>9, <1>10 DEF Next, CallStep, FsmStep

LEMMA FlightInvariant == Spec => [](RuntimeInv /\ FlightInv)
<1>1. Init => FlightInv
    BY DEF Init, FlightInv, Wanted, Raced, Won, FsmEnded
<1>2. QED
    BY <1>1, FlightStep, RuntimeInvariant, PTL DEF Spec

----------------------------------------------------------------------------
(***************************************************************************)
(* MissionRuntime implements MissionControl: the lock, the store and the   *)
(* tasks are invisible to callers.                                         *)
(***************************************************************************)
phase == [c \in Call |-> Phase(c)]

(* A call goes from one phase to another. *)
LEMMA PhaseMoves ==
    ASSUME Typed, NEW c \in Call, NEW place, pc' = [pc EXCEPT ![c] = place]
    PROVE  /\ phase' = [phase EXCEPT ![c] = IF place \in CallOpen THEN "pending" ELSE place]
           /\ phase[c] = IF pc[c] \in CallOpen THEN "pending" ELSE pc[c]
<1> DEFINE to == IF place \in CallOpen THEN "pending" ELSE place
<1>1. \A d \in Call : pc'[d] = IF d = c THEN place ELSE pc[d]
    BY DEF Typed
<1>2. \A d \in Call : phase'[d] = IF d = c THEN to ELSE phase[d]
    BY <1>1 DEF phase, Phase
<1>3. phase' = [d \in Call |-> phase'[d]] /\ phase = [d \in Call |-> phase[d]]
    BY DEF phase
<1>4. phase' = [phase EXCEPT ![c] = to]
    BY <1>2, <1>3
<1>5. QED
    BY <1>4 DEF phase, Phase

(* ... or waits at another place of the same. *)
LEMMA PhaseStays ==
    ASSUME Typed, NEW c \in Call, NEW place, pc' = [pc EXCEPT ![c] = place],
           pc[c] \in CallOpen, place \in CallOpen
    PROVE  phase' = phase
<1>1. phase' = [phase EXCEPT ![c] = "pending"] /\ phase[c] = "pending"
    BY PhaseMoves
<1>2. phase = [d \in Call |-> phase[d]]
    BY DEF phase
<1>3. QED
    BY <1>1, <1>2

(* What is in the air is so while its FSM has not ended. *)
LEMMA InTheAir ==
    ASSUME RuntimeInv, FlightInv
    PROVE  /\ Flown = IF fsm \in FsmEnded THEN NoMission ELSE running
           /\ fsm \notin FsmEnded => Flown \in Mission /\ Flown # NoMission /\ Place = state
           /\ fsm \in FsmEnded => Flown = NoMission /\ Place = Terminate
  BY MissionAssumption DEF RuntimeInv, FlightInv, Flying, Wanted, Flown, Place, FsmEnded

(* Only a Stop is in term(). *)
Stopping == \A c \in Call : pc[c] \in {"lockTerm", "joining", "closing"} => c \in StopCall

LEMMA StoppingStep == RuntimeInv /\ Stopping /\ [Next]_vars => Stopping'
<1> SUFFICES ASSUME RuntimeInv, Stopping, [Next]_vars PROVE Stopping'
    OBVIOUS
<1> USE Apart
<1>1. ASSUME NEW c \in Call, NEW place, pc' = [pc EXCEPT ![c] = place],
             place \in {"lockTerm", "joining", "closing"} => c \in StopCall
      PROVE  Stopping'
    BY <1>1 DEF Stopping, RuntimeInv, Typed
<1>2. CASE UNCHANGED pc
    BY <1>2 DEF Stopping
<1>3. ASSUME NEW c \in StartCall, Start(c) \/ InitRaises(c) PROVE Stopping'
    <2>1. PICK place \in {"refused", "lockInit", "undoing"} : pc' = [pc EXCEPT ![c] = place]
        BY <1>3 DEF Start, InitRaises, Goto
    <2>2. QED
        BY <1>1, <2>1
<1>4. ASSUME NEW c \in StopCall, Stop(c) PROVE Stopping'
    <2>1. PICK place \in {"refused", "lockTerm"} : pc' = [pc EXCEPT ![c] = place]
        BY <1>4 DEF Stop, Goto
    <2>2. QED
        BY <1>1, <2>1
<1>5. ASSUME NEW c \in Call, CallStep(c) \/ CallerGone(c) PROVE Stopping'
    <2>1. PICK place : /\ pc' = [pc EXCEPT ![c] = place]
                       /\ place \in {"joining", "closing"} => pc[c] \in {"lockTerm", "joining"}
                       /\ place # "lockTerm"
        BY <1>5 DEF CallStep, SkipInit, BeginInit, FinishInit, UndoInit, SkipTerm, BeginTerm, CancelFsm,
               Join, FinishTerm, CallerGone, Goto
    <2>2. QED
        BY <1>1, <2>1 DEF Stopping
<1>6. QED
    BY <1>2, <1>3, <1>4, <1>5 DEF Next, Upload, FsmStep, FsmBegins, TakeWinner, LeaveState, FsmAborts,
       FsmBeginsTerm, FsmFinishesTerm, RacerFinishes, RacerRaises, RacerCancelled, vars

LEMMA ControlsInit == Init => Control!Init
<1> SUFFICES ASSUME Init PROVE Control!Init
    OBVIOUS
<1>1. Flown = NoMission /\ Place = Terminate
    BY DEF Init, Flown, Place, FsmEnded, Alone, Idle
<1>2. [c \in Call |-> Phase(c)] = [c \in Call |-> "idle"]
    BY DEF Init, Phase, CallOpen
<1>3. QED
    BY <1>1, <1>2 DEF Init, Control!Init, Control!Call, Call

LEMMA ControlsStep ==
    /\ RuntimeInv /\ FlightInv /\ Stopping /\ RuntimeInv' /\ [Next]_vars
    => [Control!Next]_(Control!vars)
<1> SUFFICES ASSUME RuntimeInv, FlightInv, Stopping, RuntimeInv', [Next]_vars
             PROVE  Control!Next \/ UNCHANGED Control!vars
    OBVIOUS
<1> USE Apart DEF fsmVars, lockVars, Control!callVars, Control!airVars
<1>t. Typed /\ Held /\ Flying /\ Wanted /\ Raced /\ Won
    BY DEF RuntimeInv, FlightInv
<1>a. UNCHANGED fsmVars => Flown' = Flown /\ Place' = Place
    BY DEF Flown, Place, Alone
<1>o. CallOpen = {"lockInit", "opening", "undoing", "lockTerm", "joining", "closing"}
    BY DEF CallOpen
<1>c. Control!Call = Call
    BY DEF Control!Call, Call
<1>s. UNCHANGED <<mission, started, want>> /\ Flown' = Flown /\ Place' = Place /\ phase' = phase =>
          UNCHANGED Control!vars
    BY DEF Control!vars, phase
<1>p. pc' = pc => phase' = phase
    BY DEF phase, Phase
<1>1. ASSUME NEW m \in Mission, Upload(m) PROVE Control!Next
    <2>1. Control!Upload(m)
        BY <1>1, <1>a, <1>p DEF Upload, Control!Upload, phase
    <2>2. QED
        BY <2>1 DEF Control!Next
<1>2. ASSUME NEW c \in Call, (c \in StartCall /\ Start(c)) \/ (c \in StopCall /\ Stop(c))
      PROVE  Control!Next
    <2>1. phase[c] = "idle"
        BY <1>2, <1>o DEF Start, Stop, phase, Phase
    <2>2. UNCHANGED <<mission, started>> /\ Flown' = Flown /\ Place' = Place
        BY <1>2, <1>a DEF Start, Stop
    <2>3. CASE mission = NoMission
        <3>1. pc' = [pc EXCEPT ![c] = "refused"] /\ want' = want
            BY <1>2, <2>3 DEF Start, Stop, Goto
        <3>2. phase' = [phase EXCEPT ![c] = "refused"]
            BY <1>t, <1>o, <3>1, PhaseMoves
        <3>3. Control!Refuse(c)
            BY <2>1, <2>2, <2>3, <3>1, <3>2 DEF Control!Refuse, phase
        <3>4. QED
            BY <1>c, <3>3 DEF Control!Next
    <2>4. CASE mission # NoMission
        <3>1. PICK place \in {"lockInit", "lockTerm"} : pc' = [pc EXCEPT ![c] = place]
            BY <1>2, <2>4 DEF Start, Stop, Goto
        <3>2. want' = IF c \in StartCall THEN [want EXCEPT ![c] = mission] ELSE want
            BY <1>2, <2>4 DEF Start, Stop
        <3>3. phase' = [phase EXCEPT ![c] = "pending"]
            BY <1>t, <1>o, <3>1, PhaseMoves
        <3>4. Control!Ask(c)
            BY <2>1, <2>2, <2>4, <3>2, <3>3 DEF Control!Ask, phase
        <3>5. QED
            BY <1>c, <3>4 DEF Control!Next
    <2>5. QED
        BY <2>3, <2>4
<1>3. ASSUME NEW c \in Call, SkipInit(c) PROVE Control!Next
    <2>1. c \in StartCall /\ started
        BY <1>t, <1>3 DEF SkipInit, Flying
    <2>2. pc[c] = "lockInit" /\ pc' = [pc EXCEPT ![c] = "completed"]
          /\ UNCHANGED <<mission, started, want>> /\ Flown' = Flown /\ Place' = Place
        BY <1>3, <1>a DEF SkipInit, Goto
    <2>3. phase[c] = "pending" /\ phase' = [phase EXCEPT ![c] = "completed"]
        BY <1>t, <1>o, <2>2, PhaseMoves
    <2>4. Control!Find(c)
        BY <2>1, <2>2, <2>3 DEF Control!Find, Control!Answer, phase
    <2>5. QED
        BY <2>1, <2>4 DEF Control!Next
<1>4. ASSUME NEW c \in Call, BeginInit(c) \/ InitRaises(c) \/ BeginTerm(c)
      PROVE  UNCHANGED Control!vars
    <2>1. PICK place \in CallOpen : pc' = [pc EXCEPT ![c] = place] /\ pc[c] \in CallOpen
        BY <1>4, <1>o DEF BeginInit, InitRaises, BeginTerm, Goto
    <2>2. phase' = phase
        BY <1>t, <2>1, PhaseStays
    <2>3. QED
        BY <1>4, <1>a, <1>s, <2>2 DEF BeginInit, InitRaises, BeginTerm
<1>5. ASSUME NEW c \in Call, FinishInit(c) PROVE Control!Next
    <2>1. c \in StartCall /\ ~started /\ fsm \in FsmEnded
        BY <1>t, <1>5 DEF FinishInit, Flying
    <2>2. pc[c] = "opening" /\ pc' = [pc EXCEPT ![c] = "completed"]
        BY <1>5 DEF FinishInit, Goto
    <2>3. phase[c] = "pending" /\ phase' = [phase EXCEPT ![c] = "completed"]
        BY <1>t, <1>o, <2>2, PhaseMoves
    <2>4. want[c] \in Mission /\ want[c] # NoMission
        BY <1>t, <2>2, MissionAssumption DEF Wanted
    <2>5. Flown = NoMission
        BY <2>1, InTheAir
    <2>6. fsm' = "created" /\ running' = want[c] /\ state' = First[want[c]]
          /\ started' = TRUE /\ UNCHANGED <<mission, want>>
        BY <1>5 DEF FinishInit
    <2>7. Flown' = want[c] /\ Place' = First[want[c]]
        BY <2>4, <2>6 DEF Flown, Place, FsmEnded
    <2>8. Control!Fly(c)
        BY <2>1, <2>3, <2>5, <2>6, <2>7 DEF Control!Fly, Control!Answer, phase
    <2>9. QED
        BY <2>1, <2>8 DEF Control!Next
<1>6. ASSUME NEW c \in Call, UndoInit(c) PROVE Control!Next
    <2>1. pc[c] \in CallOpen /\ pc' = [pc EXCEPT ![c] = "failed"]
          /\ UNCHANGED <<mission, started, want>> /\ Flown' = Flown /\ Place' = Place
        BY <1>6, <1>a, <1>o DEF UndoInit, Goto
    <2>2. phase[c] = "pending" /\ phase' = [phase EXCEPT ![c] = "failed"]
        BY <1>t, <1>o, <2>1, PhaseMoves
    <2>3. Control!Fail(c)
        BY <2>1, <2>2 DEF Control!Fail, phase
    <2>4. QED
        BY <1>c, <2>3 DEF Control!Next
<1>7. ASSUME NEW c \in Call, SkipTerm(c) \/ FinishTerm(c) PROVE Control!Next
    <2>1. pc[c] \in CallOpen /\ pc' = [pc EXCEPT ![c] = "completed"]
          /\ UNCHANGED <<mission, want>> /\ started' = FALSE
          /\ Flown' = Flown /\ Place' = Place
        BY <1>7, <1>a, <1>o, <1>t DEF SkipTerm, FinishTerm, Goto, Typed
    <2>2. fsm \in FsmEnded
        BY <1>t, <1>7 DEF SkipTerm, FinishTerm, Flying
    <2>3. Flown = NoMission
        BY <2>2, InTheAir
    <2>4. phase[c] = "pending" /\ phase' = [phase EXCEPT ![c] = "completed"]
        BY <1>t, <1>o, <2>1, PhaseMoves
    <2>5. Control!Land(c)
        BY <2>1, <2>3, <2>4 DEF Control!Land, Control!Answer, phase
    <2>6. c \in StopCall
        BY <1>7 DEF SkipTerm, FinishTerm, Stopping
    <2>7. QED
        BY <2>5, <2>6 DEF Control!Next
<1>8. ASSUME NEW c \in Call, CancelFsm(c) PROVE Control!Next \/ UNCHANGED Control!vars
    <2>1. pc[c] \in CallOpen /\ pc' = [pc EXCEPT ![c] = "joining"] /\ fsm \notin FsmEnded
          /\ UNCHANGED <<mission, started, want, running, state>>
        BY <1>8, <1>o DEF CancelFsm, Goto
    <2>2. phase' = phase
        BY <1>t, <1>o, <2>1, PhaseStays
    <2>3. CASE fsm \in {"racing", "leaving"}
        <3>1. fsm' = "leaving"
            BY <1>8, <2>3 DEF CancelFsm
        <3>2. Flown' = Flown /\ Place' = Place
            BY <2>1, <3>1 DEF Flown, Place, FsmEnded
        <3>3. QED
            BY <1>s, <2>1, <2>2, <3>2
    <2>4. CASE fsm \notin {"racing", "leaving"}
        <3>1. fsm' = "cancelled"
            BY <1>8, <2>4 DEF CancelFsm
        <3>2. Flown' = NoMission /\ Place' = Terminate
            BY <3>1, InTheAir DEF FsmEnded, RuntimeInv, Flying, Flown, Place
        <3>3. Flown # NoMission
            BY <2>1, InTheAir
        <3>4. Control!BreakOff
            BY <2>1, <2>2, <3>2, <3>3 DEF Control!BreakOff, phase
        <3>5. QED
            BY <3>4 DEF Control!Next
    <2>5. QED
        BY <2>3, <2>4
<1>9. ASSUME NEW c \in Call, Join(c) PROVE Control!Next \/ UNCHANGED Control!vars
    <2>1. pc[c] \in CallOpen /\ UNCHANGED <<mission, started, want>> /\ Flown' = Flown /\ Place' = Place
        BY <1>9, <1>a, <1>o DEF Join
    <2>2. CASE fsm = "crashed"
        <3>1. pc' = [pc EXCEPT ![c] = "failed"]
            BY <1>9, <2>2 DEF Join, Goto
        <3>2. phase[c] = "pending" /\ phase' = [phase EXCEPT ![c] = "failed"]
            BY <1>t, <1>o, <2>1, <3>1, PhaseMoves
        <3>3. Control!Fail(c)
            BY <2>1, <3>2 DEF Control!Fail, phase
        <3>4. QED
            BY <1>c, <3>3 DEF Control!Next
    <2>3. CASE fsm # "crashed"
        <3>1. pc' = [pc EXCEPT ![c] = "closing"]
            BY <1>9, <2>3 DEF Join, Goto
        <3>2. phase' = phase
            BY <1>t, <1>o, <2>1, <3>1, PhaseStays
        <3>3. QED
            BY <1>s, <2>1, <3>2
    <2>4. QED
        BY <2>2, <2>3
<1>10. ASSUME NEW c \in Call, CallerGone(c) PROVE Control!Next
    <2>1. pc[c] \in CallOpen /\ pc' = [pc EXCEPT ![c] = "gone"]
          /\ UNCHANGED <<mission, started, want>> /\ Flown' = Flown /\ Place' = Place
        BY <1>10, <1>a DEF CallerGone, Goto
    <2>2. phase[c] = "pending" /\ phase' = [phase EXCEPT ![c] = "gone"]
        BY <1>t, <1>o, <2>1, PhaseMoves
    <2>3. Control!Fail(c)
        BY <2>1, <2>2 DEF Control!Fail, phase
    <2>4. QED
        BY <1>c, <2>3 DEF Control!Next
<1>11. ASSUME NEW x \in Racer, RacerFinishes(x) \/ RacerRaises(x) \/ RacerCancelled(x)
       PROVE  UNCHANGED Control!vars
    <2>1. fsm \in {"racing", "leaving"} /\ fsm' \in {fsm, "leaving"}
          /\ UNCHANGED <<mission, started, running, state, pc, want>>
        BY <1>t, <1>11 DEF RacerFinishes, RacerRaises, RacerCancelled, Flying, Alone
    <2>2. Flown' = Flown /\ Place' = Place
        BY <2>1 DEF Flown, Place, FsmEnded
    <2>3. QED
        BY <1>p, <1>s, <2>1, <2>2
<1>12. CASE FsmBegins
    <2>1. fsm = "created" /\ EnterState(state) /\ UNCHANGED <<mission, started, pc, want>>
        BY <1>12 DEF FsmBegins
    <2>2. fsm' \in {"lockTerm", "racing", "crashed"} /\ running' = running /\ state' = state
        BY <2>1 DEF EnterState
    <2>3. CASE fsm' = "crashed"
        <3>1. Flown # NoMission
            BY <2>1, InTheAir DEF FsmEnded
        <3>2. Flown' = NoMission /\ Place' = Terminate
            BY <2>3 DEF RuntimeInv, Flying, Flown, Place, FsmEnded
        <3>3. Control!BreakOff
            BY <1>p, <2>1, <3>1, <3>2 DEF Control!BreakOff, phase
        <3>4. QED
            BY <3>3 DEF Control!Next
    <2>4. CASE fsm' # "crashed"
        <3>1. Flown' = Flown /\ Place' = Place
            BY <2>1, <2>2, <2>4 DEF Flown, Place, FsmEnded
        <3>2. QED
            BY <1>p, <1>s, <2>1, <3>1
    <2>5. QED
        BY <2>3, <2>4
<1>13. CASE LeaveState
    <2> DEFINE a == NextState(state, winner)
    <2>1. /\ fsm = "leaving" /\ EnterState(a) /\ ~Failed /\ ~cancelled
          /\ UNCHANGED <<mission, started, pc, want>>
        BY <1>13 DEF LeaveState
    <2>2. fsm' \in {"lockTerm", "racing", "crashed"} /\ running' = running /\ state' = a
        BY <2>1 DEF EnterState
    <2>3. /\ Flown = running /\ Flown # NoMission /\ Place = state
        BY <2>1, InTheAir DEF FsmEnded
    <2>4. CASE fsm' = "crashed"
        <3>1. Flown' = NoMission /\ Place' = Terminate
            BY <2>4 DEF RuntimeInv, Flying, Flown, Place, FsmEnded
        <3>2. Control!BreakOff
            BY <1>p, <2>1, <2>3, <3>1 DEF Control!BreakOff, phase
        <3>3. QED
            BY <3>2 DEF Control!Next
    <2>5. CASE fsm' # "crashed"
        <3>1. Flown' = Flown /\ Place' = a
            <4>1. Flown' = running
                BY <2>2, <2>5 DEF Flown, FsmEnded
            <4>2. QED
                BY <2>2, <2>3, <4>1 DEF Place
        <3>2. /\ state \in DOMAIN Transition[running]
              /\ winner \in DOMAIN Transition[running][state]
            BY <1>t, <2>1 DEF Raced, Won, Defined, Actions
        <3>3. a = Transition[running][state][winner]
            BY <3>2 DEF NextState, Actions
        <3>4. Control!Advance
            BY <1>p, <2>1, <2>3, <3>1, <3>2, <3>3 DEF Control!Advance, phase
        <3>5. QED
            BY <3>4 DEF Control!Next
    <2>6. QED
        BY <2>4, <2>5
<1>14. CASE TakeWinner
    <2>1. fsm = "racing" /\ fsm' = "leaving"
          /\ UNCHANGED <<mission, started, running, state, pc, want>>
        BY <1>14 DEF TakeWinner
    <2>2. Flown' = Flown /\ Place' = Place
        BY <2>1 DEF Flown, Place, FsmEnded
    <2>3. QED
        BY <1>p, <1>s, <2>1, <2>2
<1>15. CASE FsmAborts
    <2>1. fsm = "leaving" /\ fsm' \in FsmEnded /\ UNCHANGED <<mission, started, pc, want>>
        BY <1>15 DEF FsmAborts, FsmEnded
    <2>2. Flown # NoMission
        BY <2>1, InTheAir DEF FsmEnded
    <2>3. Flown' = NoMission /\ Place' = Terminate
        BY <2>1 DEF RuntimeInv, Flying, Flown, Place, FsmEnded
    <2>4. Control!BreakOff
        BY <1>p, <2>1, <2>2, <2>3 DEF Control!BreakOff, phase
    <2>5. QED
        BY <2>4 DEF Control!Next
<1>16. CASE FsmBeginsTerm
    <2>1. fsm = "lockTerm" /\ fsm' = "closing" /\ UNCHANGED <<mission, started, running, state, pc, want>>
        BY <1>t, <1>16 DEF FsmBeginsTerm, Flying, FsmEnded
    <2>2. Flown' = Flown /\ Place' = Place
        BY <2>1 DEF Flown, Place, FsmEnded
    <2>3. QED
        BY <1>p, <1>s, <2>1, <2>2
<1>17. CASE FsmFinishesTerm
    <2>1. fsm = "closing" /\ fsm' = "done" /\ started' = FALSE /\ UNCHANGED <<mission, pc, want>>
        BY <1>17 DEF FsmFinishesTerm
    <2>2. Flown # NoMission /\ Place = Terminate
        BY <1>t, <2>1, InTheAir DEF FsmEnded, Won
    <2>3. Flown' = NoMission /\ Place' = Terminate
        BY <2>1 DEF RuntimeInv, Flying, Flown, Place, FsmEnded
    <2>4. Control!Return
        BY <1>p, <2>1, <2>2, <2>3 DEF Control!Return, phase
    <2>5. QED
        BY <2>4 DEF Control!Next
<1>18. CASE UNCHANGED vars
    <2>1. UNCHANGED <<mission, started, want, pc>> /\ UNCHANGED fsmVars
        BY <1>18 DEF vars
    <2>2. QED
        BY <1>a, <1>p, <1>s, <2>1
<1>19. ASSUME NEW c \in Call, CallStep(c) PROVE Control!Next \/ UNCHANGED Control!vars
    BY <1>3, <1>4, <1>5, <1>6, <1>7, <1>8, <1>9, <1>19 DEF CallStep
<1>20. CASE FsmStep
    BY <1>12, <1>13, <1>14, <1>15, <1>16, <1>17, <1>20 DEF FsmStep
<1>21. QED
    <2>1. ASSUME NEW c \in StartCall, Start(c) \/ InitRaises(c)
          PROVE  Control!Next \/ UNCHANGED Control!vars
        <3>1. c \in Call
            BY DEF Call
        <3>2. CASE Start(c)
            BY <1>2, <2>1, <3>1, <3>2
        <3>3. CASE InitRaises(c)
            BY <1>4, <3>1, <3>3
        <3>4. QED
            BY <2>1, <3>2, <3>3
    <2>2. ASSUME NEW c \in StopCall, Stop(c) PROVE Control!Next
        <3>1. c \in Call
            BY DEF Call
        <3>2. QED
            BY <1>2, <2>2, <3>1
    <2>3. QED
        BY <1>1, <1>10, <1>11, <1>18, <1>19, <1>20, <2>1, <2>2 DEF Next

(* mission_service.py and runtime/__init__.py: to its callers the service with its lock, store and
   tasks is MissionControl - a Start flies what was uploaded when it was asked or finds a started
   runtime, a Stop is completed with nothing in the air, and a flight goes by its transitions. *)
THEOREM RuntimeIsControl == Spec => ServiceSpec
<1>1. Init => Stopping
    BY DEF Init, Stopping
<1>2. QED
    BY <1>1, ControlsInit, StoppingStep, ControlsStep, FlightInvariant, RuntimeStep, PTL
    DEF Spec, ServiceSpec, Control!Spec

=============================================================================
