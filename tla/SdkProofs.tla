------------------------------ MODULE SdkProofs ------------------------------
(***************************************************************************)
(* Proofs about what a mission does below its FSM, the calls its actions   *)
(* make and the store its racers read, and about the compiler it comes     *)
(* from, for any number of calls, states, sources, messages and missions,  *)
(* every program and any classes.                                          *)
(***************************************************************************)
EXTENDS MCSdk, TLAPS, SequenceTheorems, FiniteSetTheorems

----------------------------------------------------------------------------
(***************************************************************************)
(* Actions and events.  The invariant is inductive as it stands: a call is *)
(* opened only by an action that waits for none, and whatever ends the     *)
(* state cancels the one it waits for.                                     *)
(***************************************************************************)
ActionsInv == ActionsTypeOK /\ OneCommand

(* An end of the state leaves no call that goes on. *)
LEMMA QuitKeeps ==
    ASSUME ActionsInv, Quit, flight' \in {"running", "over", "crashed", "blocked"}
    PROVE  ActionsInv'
<1>1. dropped' = dropped \cup ({call} \cap working) /\ call' = 0
      /\ working' = working /\ calls' = calls
    BY DEF Quit
<1>2. dropped' \subseteq working' /\ working' \subseteq 1..calls' /\ call' \in 0..calls'
    BY <1>1, ActionsAssumption DEF ActionsInv, ActionsTypeOK
<1>3. working \ dropped = {call} \ {0}
    BY DEF ActionsInv, OneCommand
<1>4. working' \ dropped' = {}
    BY <1>1, <1>3
<1>5. OneCommand'
    BY <1>1, <1>4 DEF OneCommand
<1>6. ActionsTypeOK'
    <2>1. leg' \in 0..Legs /\ calls' \in 0..MaxCalls /\ states' \in 0..MaxStates
        BY ActionsAssumption DEF Quit, ActionsInv, ActionsTypeOK
    <2>2. (doing' = NoClass <=> step' = "none") /\ (call' # 0 <=> step' = "call") /\ step' # "call"
        BY DEF Quit
    <2>3. doing' \in ActionClass \cup {NoClass} /\ event' \in EventClass \cup {NoClass}
        BY DEF Quit
    <2>4. QED
        BY <1>2, <2>1, <2>2, <2>3 DEF Quit, ActionsInv, ActionsTypeOK
<1>7. QED
    BY <1>5, <1>6 DEF ActionsInv

(* Every step of a state, of its action and of its event keeps the calls in hand. *)
LEMMA ActionsStep == ActionsInv /\ [ActionsNext]_actionsVars => ActionsInv'
<1> SUFFICES ASSUME ActionsInv, [ActionsNext]_actionsVars PROVE ActionsInv'
    OBVIOUS
<1> USE ActionsAssumption, NoClassAssumption DEF ActionsInv, ActionsTypeOK, OneCommand, callVars, At, Racing
<1>1. ASSUME NEW a \in ActionClass, NEW e \in EventClass \cup {NoClass}, Enter(a, e),
             flight' \in {"running", "blocked"}
      PROVE  ActionsInv'
    <2>1. a # NoClass
        BY NoClassAssumption
    <2>2. ActionsTypeOK'
        <3>1. states' \in 0..MaxStates /\ leg' \in 0..Legs
            BY <1>1 DEF Enter
        <3>2. (doing' = NoClass <=> step' = "none") /\ (call' # 0 <=> step' = "call")
            BY <1>1, <2>1 DEF Enter
        <3>3. doing' \in ActionClass \cup {NoClass} /\ event' \in EventClass \cup {NoClass}
            BY <1>1 DEF Enter
        <3>4. calls' = calls /\ call' = call /\ working' = working /\ dropped' = dropped /\ step' = "start"
            BY <1>1 DEF Enter
        <3>5. QED
            BY <1>1, <3>1, <3>2, <3>3, <3>4 DEF Enter
    <2>3. OneCommand'
        BY <1>1 DEF Enter
    <2>4. QED
        BY <2>2, <2>3
<1>2. CASE CallKernel
    BY <1>2 DEF CallKernel, Open
<1>3. CASE PatrolLeg
    BY <1>3 DEF PatrolLeg, Open
<1>4. CASE PauseEnds
    BY <1>4 DEF PauseEnds
<1>5. CASE ActionReturns
    BY <1>5 DEF ActionReturns
<1>6. CASE KernelAnswers
    BY <1>6 DEF KernelAnswers
<1>7. ASSUME NEW c \in 1..MaxCalls, KernelDrops(c) PROVE ActionsInv'
    BY <1>7 DEF KernelDrops
<1>8. CASE ActionWins
    BY <1>8, QuitKeeps DEF ActionWins
<1>9. CASE EventFires
    BY <1>9, QuitKeeps DEF EventFires
<1>10. CASE PollTelemetry
    BY <1>10 DEF PollTelemetry, actionsVars
<1>11. CASE PollResults
    BY <1>11, QuitKeeps DEF PollResults
<1>12. CASE ActionRaises
    BY <1>12, QuitKeeps DEF ActionRaises
<1>13. CASE MissionStopped
    BY <1>13, QuitKeeps DEF MissionStopped
<1>14. CASE TelemetryArrives
    BY <1>14 DEF TelemetryArrives
<1>15. CASE ConditionMet
    BY <1>15 DEF ConditionMet
<1>16. CASE UNCHANGED actionsVars
    BY <1>16 DEF actionsVars
<1>17. ASSUME NEW a \in ActionClass, NEW e \in EventClass \cup {NoClass}, EnterState(a, e) PROVE ActionsInv'
    BY <1>1, <1>17 DEF EnterState, Enter
<1>18. ASSUME NEW a \in ActionClass, EnterBlocked(a) PROVE ActionsInv'
    <2>1. "GlobalPositionReached" \in EventClass \cup {NoClass}
        BY DEF EventClass, TelemetryEvents
    <2>2. QED
        BY <1>1, <1>18, <2>1 DEF EnterBlocked
<1>19. CASE EnterRefused
    <2>1. states' \in 0..MaxStates
        BY <1>19 DEF EnterRefused
    <2>2. QED
        BY <1>19, <2>1 DEF EnterRefused
<1>20. QED
    BY <1>2, <1>3, <1>4, <1>5, <1>6, <1>7, <1>8, <1>9, <1>10, <1>11, <1>12, <1>13, <1>14, <1>15, <1>16, <1>17,
       <1>18, <1>19 DEF ActionsNext

(* Nothing is called when a mission begins. *)
LEMMA ActionsStart == ActionsInit => ActionsInv
<1> SUFFICES ASSUME ActionsInit PROVE ActionsInv
    OBVIOUS
<1>1. ActionsTypeOK
    <2>1. leg \in 0..Legs /\ calls \in 0..MaxCalls /\ call \in 0..calls /\ states \in 0..MaxStates
        BY ActionsAssumption DEF ActionsInit
    <2>2. working \subseteq 1..calls /\ dropped \subseteq working
        BY DEF ActionsInit
    <2>3. (doing = NoClass <=> step = "none") /\ (call # 0 <=> step = "call")
        BY DEF ActionsInit
    <2>4. doing \in ActionClass \cup {NoClass} /\ event \in EventClass \cup {NoClass}
        BY DEF ActionsInit
    <2>5. QED
        BY <2>1, <2>2, <2>3, <2>4 DEF ActionsInit, ActionsTypeOK
<1>2. working \ dropped = {} /\ {call} \ {0} = {}
    BY DEF ActionsInit
<1>3. QED
    BY <1>1, <1>2 DEF ActionsInv, OneCommand

(* One command at a time (utils.py:84): after a Stop, an event or an error in the middle of a
   call too, the kernel works on no uncancelled call but the one its action waits for. *)
THEOREM CommandIsOne == ActionsSpec => []OneCommand
<1>1. ActionsInv => OneCommand
    BY DEF ActionsInv
<1>2. QED
    BY <1>1, ActionsStart, ActionsStep, PTL DEF ActionsSpec

----------------------------------------------------------------------------
(***************************************************************************)
(* The store.  The inductive invariant says what the thread has still to   *)
(* do: nothing for a receiver that waits for a message, at most one thing  *)
(* of a kind for a source, no upsert that is older than the row; and that  *)
(* the database is open while anybody reads.                               *)
(***************************************************************************)
Jobs(q) == {q[i] : i \in 1..Len(q)}
No(q, s, op) == \A j \in Jobs(q) : ~(j.source = s /\ j.op = op)
Distinct(q) == \A i, k \in 1..Len(q) : q[i].source = q[k].source /\ q[i].op = q[k].op => i = k

JobsMatch ==
    /\ \A s \in Source : receiver[s] \in {"recv", "written", "commit"} => No(jobs, s, "upsert")
    /\ \A s \in Source : receiver[s] \in {"recv", "written", "upsert"} => No(jobs, s, "commit")
    /\ \A s \in Source : reader = "ready" => No(jobs, s, "select")
    /\ \A s \in Source : reader = "asked" /\ s # reading => No(jobs, s, "select")

RowsFollow ==
    /\ \A s \in Source : file[s] <= message[s] /\ rows[s] <= message[s]
    /\ \A j \in Jobs(jobs) : j.op = "upsert" =>
          rows[j.source] <= j.number /\ j.number <= message[j.source]
    /\ db = "open" => \A s \in Source : seen[s] <= rows[s]

OpenWhileRead ==
    /\ reader \in {"none", "ready", "asked"}
    /\ reader # "none" => db = "open" /\ \A s \in Source : receiver[s] # "off"
    /\ db = "none" => jobs = <<>> /\ reader = "none" /\ \A s \in Source : receiver[s] = "off"

StoreTyped ==
    /\ file \in [Source -> 0..MaxMessages] /\ rows \in [Source -> 0..MaxMessages]
    /\ db \in {"none", "open"} /\ jobs \in Seq(Job)
    /\ receiver \in [Source -> {"off", "recv", "upsert", "written", "commit"}]
    /\ message \in [Source -> 0..MaxMessages] /\ seen \in [Source -> 0..MaxMessages]
    /\ reading \in Source /\ missions \in 0..MaxMissions

StoreInv == StoreTyped /\ OpenWhileRead /\ Distinct(jobs) /\ JobsMatch /\ RowsFollow

(* A queue with one job more, of which there was none. *)
LEMMA Asked ==
    ASSUME NEW q \in Seq(Job), NEW job \in Job, Distinct(q), No(q, job.source, job.op)
    PROVE  /\ Append(q, job) \in Seq(Job) /\ Append(q, job) # <<>>
           /\ Distinct(Append(q, job))
           /\ Jobs(Append(q, job)) = Jobs(q) \cup {job}
<1> DEFINE r == Append(q, job)
           n == Len(q)
<1>1. /\ n \in Nat /\ r \in Seq(Job) /\ Len(r) = n + 1
      /\ \A i \in 1..n : r[i] = q[i]
      /\ r[n + 1] = job
    BY AppendProperties, LenProperties
<1> HIDE DEF r, n
<1>2. 1..(n + 1) = 1..n \cup {n + 1}
    BY <1>1
<1>3. \A i \in 1..n : ~(q[i].source = job.source /\ q[i].op = job.op)
    BY DEF No, Jobs, n
<1>4. \A i, k \in 1..n : q[i].source = q[k].source /\ q[i].op = q[k].op => i = k
    BY DEF Distinct, n
<1>5. \A i, k \in 1..(n + 1) : r[i].source = r[k].source /\ r[i].op = r[k].op => i = k
    BY <1>1, <1>2, <1>3, <1>4
<1>6. Jobs(r) = Jobs(q) \cup {job}
    BY <1>1, <1>2 DEF Jobs, n
<1>7. r # <<>>
    BY <1>1, EmptySeq
<1>8. QED
    BY <1>1, <1>5, <1>6, <1>7 DEF Distinct, r

(* A queue with its head done: there is no other job like it. *)
LEMMA Done ==
    ASSUME NEW q \in Seq(Job), q # <<>>, Distinct(q)
    PROVE  /\ Tail(q) \in Seq(Job)
           /\ Distinct(Tail(q))
           /\ Head(q) \in Job /\ Head(q) \in Jobs(q)
           /\ Jobs(Tail(q)) \subseteq Jobs(q)
           /\ No(Tail(q), Head(q).source, Head(q).op)
<1> DEFINE r == Tail(q)
           n == Len(q)
<1>1. /\ n \in Nat \ {0} /\ r \in Seq(Job) /\ Len(r) = n - 1
      /\ \A i \in 1..(n - 1) : r[i] = q[i + 1]
      /\ Head(q) = q[1] /\ Head(q) \in Job
    BY HeadTailProperties, LenProperties, EmptySeq
<1> HIDE DEF r, n
<1>2. \A i \in 1..(n - 1) : i + 1 \in 1..n /\ i + 1 # 1
    BY <1>1
<1>3. 1 \in 1..n /\ \A i, k \in 1..(n - 1) : i + 1 = k + 1 => i = k
    BY <1>1
<1>4. \A i, k \in 1..n : q[i].source = q[k].source /\ q[i].op = q[k].op => i = k
    BY DEF Distinct, n
<1>5. Distinct(r)
    <2>1. \A i, k \in 1..(n - 1) : r[i].source = r[k].source /\ r[i].op = r[k].op => i = k
        <3> SUFFICES ASSUME NEW i \in 1..(n - 1), NEW k \in 1..(n - 1),
                            r[i].source = r[k].source, r[i].op = r[k].op
                     PROVE  i = k
            OBVIOUS
        <3>1. q[i + 1].source = q[k + 1].source /\ q[i + 1].op = q[k + 1].op
            BY <1>1
        <3>2. i + 1 = k + 1
            BY <1>2, <1>4, <3>1
        <3>3. QED
            BY <1>3, <3>2
    <2>2. QED
        BY <1>1, <2>1 DEF Distinct
<1>6. Jobs(r) \subseteq Jobs(q) /\ Head(q) \in Jobs(q)
    BY <1>1, <1>2, <1>3 DEF Jobs, n
<1>7. No(r, Head(q).source, Head(q).op)
    <2>1. \A i \in 1..(n - 1) : ~(r[i].source = q[1].source /\ r[i].op = q[1].op)
        <3> SUFFICES ASSUME NEW i \in 1..(n - 1),
                            r[i].source = q[1].source, r[i].op = q[1].op
                     PROVE  FALSE
            OBVIOUS
        <3>1. q[i + 1].source = q[1].source /\ q[i + 1].op = q[1].op
            BY <1>1
        <3>2. QED
            BY <1>2, <1>3, <1>4, <3>1
    <2>2. QED
        BY <1>1, <2>1 DEF No, Jobs
<1>8. QED
    BY <1>1, <1>5, <1>6, <1>7 DEF r

(* A job in the queue of the thread names a source and a number. *)
LEMMA JobsTyped ==
    ASSUME NEW q \in Seq(Job)
    PROVE  \A j \in Jobs(q) : j \in Job /\ j.source \in Source /\ j.number \in Nat
<1>1. \A j \in Jobs(q) : j \in Job
    BY ElementOfSeq DEF Jobs
<1>2. QED
    BY <1>1 DEF Job

(* Nothing is lost or mixed up in the queue of the thread. *)
LEMMA StoreStep == StoreInv /\ StoreNext => StoreInv'
<1> SUFFICES ASSUME StoreInv, StoreNext PROVE StoreInv'
    OBVIOUS
<1>0. Jobs(<<>>) = {} /\ Distinct(<<>>) /\ <<>> \in Seq(Job)
    BY DEF Jobs, Distinct
<1>a. /\ \A s \in Source : file[s] \in Nat /\ rows[s] \in Nat /\ message[s] \in Nat /\ seen[s] \in Nat
      /\ \A j \in Jobs(jobs) : j.source \in Source /\ j.number \in Nat
    BY JobsTyped, StoreAssumption DEF StoreInv, StoreTyped
<1> USE <1>0, <1>a, StoreAssumption DEF StoreInv
<1>1. CASE StartStore
    <2>1. StoreTyped'
        BY <1>1 DEF StartStore, StoreTyped
    <2>2. OpenWhileRead'
        BY <1>1 DEF StartStore, OpenWhileRead, StoreTyped
    <2>3. Distinct(jobs)'
        BY <1>1 DEF StartStore, StoreTyped
    <2>4. JobsMatch'
        BY <1>1 DEF StartStore, JobsMatch, No, StoreTyped, OpenWhileRead
    <2>5. RowsFollow'
        BY <1>1 DEF StartStore, RowsFollow, StoreTyped, OpenWhileRead
    <2>6. QED
        BY <2>1, <2>2, <2>3, <2>4, <2>5
<1>2. ASSUME NEW s \in Source, Publish(s) PROVE StoreInv'
    <2>a. /\ message'[s] = message[s] + 1 /\ message' \in [Source -> 0..MaxMessages]
          /\ \A x \in Source : x # s => message'[x] = message[x]
        BY <1>2 DEF Publish, StoreTyped
    <2>0. \A x \in Source : message'[x] \in Nat /\ message[x] <= message'[x]
        <3> SUFFICES ASSUME NEW x \in Source PROVE message'[x] \in Nat /\ message[x] <= message'[x]
            OBVIOUS
        <3>1. message[x] \in Nat
            OBVIOUS
        <3>2. message'[x] \in {message[x], message[x] + 1}
            BY <2>a
        <3>3. QED
            BY <3>1, <3>2
    <2>1. StoreTyped'
        BY <1>2, <2>a DEF Publish, StoreTyped
    <2>2. OpenWhileRead'
        BY <1>2 DEF Publish, OpenWhileRead, StoreTyped
    <2>3. Distinct(jobs)'
        BY <1>2 DEF Publish, StoreTyped
    <2>4. JobsMatch'
        BY <1>2 DEF Publish, JobsMatch, No, StoreTyped, OpenWhileRead
    <2>5. RowsFollow'
        <3>1. \A x \in Source : file[x] <= message'[x] /\ rows[x] <= message'[x]
            BY <2>0 DEF RowsFollow
        <3>2. \A j \in Jobs(jobs) : j.op = "upsert" =>
                  rows[j.source] <= j.number /\ j.number <= message'[j.source]
            BY <2>0 DEF RowsFollow
        <3>3. QED
            BY <1>2, <3>1, <3>2 DEF Publish, RowsFollow
    <2>6. QED
        BY <2>1, <2>2, <2>3, <2>4, <2>5
<1>3. ASSUME NEW s \in Source, ReceiveMessage(s) PROVE StoreInv'
    <2> DEFINE job == [op |-> "upsert", source |-> s, number |-> message'[s]]
    <2>1. /\ message'[s] = message[s] + 1 /\ message'[s] \in 0..MaxMessages
          /\ \A x \in Source : x # s => message'[x] = message[x]
        BY <1>3 DEF ReceiveMessage, StoreTyped
    <2>2. job \in Job /\ jobs' = Append(jobs, job)
        BY <1>3, <2>1 DEF ReceiveMessage, Ask, Job
    <2>3. job.source = s /\ job.op = "upsert" /\ job.number = message'[s]
        OBVIOUS
    <2> HIDE DEF job
    <2>4. /\ Distinct(jobs') /\ jobs' \in Seq(Job) /\ jobs' # <<>>
          /\ Jobs(jobs') = Jobs(jobs) \cup {job}
        BY <1>3, <2>2, <2>3, Asked DEF ReceiveMessage, JobsMatch, StoreTyped
    <2>5. \A x \in Source : \A o : No(jobs, x, o) /\ ~(x = s /\ o = "upsert") => No(jobs', x, o)
        BY <2>3, <2>4 DEF No
    <2>6. StoreTyped'
        BY <1>3, <2>1, <2>4 DEF ReceiveMessage, StoreTyped
    <2>7. OpenWhileRead'
        BY <1>3, <2>1, <2>4 DEF ReceiveMessage, OpenWhileRead
    <2>8. Distinct(jobs)'
        BY <1>3, <2>4 DEF ReceiveMessage
    <2>9. JobsMatch'
        BY <1>3, <2>1, <2>5 DEF ReceiveMessage, JobsMatch, StoreTyped
    <2>10. RowsFollow'
        <3>1. \A x \in Source : message'[x] \in Nat /\ message[x] <= message'[x]
            <4> SUFFICES ASSUME NEW x \in Source PROVE message'[x] \in Nat /\ message[x] <= message'[x]
                OBVIOUS
            <4>1. message[x] \in Nat
                OBVIOUS
            <4>2. message'[x] \in {message[x], message[x] + 1}
                BY <2>1
            <4>3. QED
                BY <4>1, <4>2
        <3>2. \A x \in Source : file[x] <= message'[x] /\ rows[x] <= message'[x]
            BY <3>1 DEF RowsFollow
        <3>3. \A j \in Jobs(jobs) : j.op = "upsert" =>
                  rows[j.source] <= j.number /\ j.number <= message'[j.source]
            BY <3>1 DEF RowsFollow
        <3>4. rows[job.source] <= job.number /\ job.number <= message'[job.source]
            BY <2>1, <2>3, <3>1, <3>2
        <3>5. QED
            BY <1>3, <2>4, <3>2, <3>3, <3>4 DEF ReceiveMessage, RowsFollow
    <2>11. QED
        BY <2>6, <2>7, <2>8, <2>9, <2>10
<1>4. ASSUME NEW s \in Source, AskCommit(s) PROVE StoreInv'
    <2> DEFINE job == [op |-> "commit", source |-> s, number |-> 0]
    <2>1. receiver[s] = "written" /\ receiver' = [receiver EXCEPT ![s] = "commit"]
        BY <1>4 DEF AskCommit
    <2>2. job \in Job /\ jobs' = Append(jobs, job)
        BY <1>4, <2>1 DEF AskCommit, Ask, Job
    <2>3. job.source = s /\ job.op = "commit" /\ job.number = 0
        OBVIOUS
    <2> HIDE DEF job
    <2>4. /\ Distinct(jobs') /\ jobs' \in Seq(Job) /\ jobs' # <<>>
          /\ Jobs(jobs') = Jobs(jobs) \cup {job}
        BY <1>4, <2>2, <2>3, Asked DEF AskCommit, JobsMatch, StoreTyped
    <2>5. \A x \in Source : \A o : No(jobs, x, o) /\ ~(x = s /\ o = "commit") => No(jobs', x, o)
        BY <2>3, <2>4 DEF No
    <2>6. StoreTyped'
        BY <1>4, <2>1, <2>4 DEF AskCommit, StoreTyped
    <2>7. OpenWhileRead'
        BY <1>4, <2>1, <2>4 DEF AskCommit, OpenWhileRead
    <2>8. Distinct(jobs)'
        BY <1>4, <2>4 DEF AskCommit
    <2>9. JobsMatch'
        BY <1>4, <2>1, <2>5 DEF AskCommit, JobsMatch, StoreTyped
    <2>10. RowsFollow'
        BY <1>4, <2>1, <2>3, <2>4 DEF AskCommit, RowsFollow, StoreTyped
    <2>11. QED
        BY <2>6, <2>7, <2>8, <2>9, <2>10
<1>5. ASSUME NEW s \in Source, GetLatest(s) PROVE StoreInv'
    <2> DEFINE job == [op |-> "select", source |-> s, number |-> 0]
    <2>1. db = "open"
        BY <1>5 DEF GetLatest, OpenWhileRead
    <2>2. job \in Job /\ jobs' = Append(jobs, job)
        BY <1>5, <2>1 DEF GetLatest, Ask, Job
    <2>3. job.source = s /\ job.op = "select" /\ job.number = 0
        OBVIOUS
    <2> HIDE DEF job
    <2>4. /\ Distinct(jobs') /\ jobs' \in Seq(Job) /\ jobs' # <<>>
          /\ Jobs(jobs') = Jobs(jobs) \cup {job}
        BY <1>5, <2>2, <2>3, Asked DEF GetLatest, JobsMatch, StoreTyped
    <2>5. \A x \in Source : \A o : No(jobs, x, o) /\ ~(x = s /\ o = "select") => No(jobs', x, o)
        BY <2>3, <2>4 DEF No
    <2>6. StoreTyped'
        BY <1>5, <2>1, <2>4 DEF GetLatest, StoreTyped
    <2>7. OpenWhileRead'
        BY <1>5, <2>1, <2>4 DEF GetLatest, OpenWhileRead
    <2>8. Distinct(jobs)'
        BY <1>5, <2>4 DEF GetLatest
    <2>9. JobsMatch'
        BY <1>5, <2>1, <2>5 DEF GetLatest, JobsMatch, StoreTyped
    <2>10. RowsFollow'
        BY <1>5, <2>1, <2>3, <2>4 DEF GetLatest, RowsFollow, StoreTyped
    <2>11. QED
        BY <2>6, <2>7, <2>8, <2>9, <2>10
<1>6. CASE Upsert
    <2>1. /\ Distinct(jobs') /\ jobs' \in Seq(Job) /\ Jobs(jobs') \subseteq Jobs(jobs)
          /\ Head(jobs) \in Job /\ Head(jobs) \in Jobs(jobs)
          /\ No(jobs', Head(jobs).source, "upsert")
        BY <1>6, Done DEF Upsert, StoreTyped
    <2>2. Head(jobs).source \in Source /\ Head(jobs).op = "upsert"
        BY <1>6, <2>1 DEF Upsert, Job
    <2>3. /\ ~No(jobs, Head(jobs).source, "upsert")
          /\ \A x \in Source : \A o : No(jobs, x, o) => No(jobs', x, o)
        <3>1. ~No(jobs, Head(jobs).source, "upsert")
            BY <2>1, <2>2 DEF No
        <3>2. ASSUME NEW x \in Source, NEW o, No(jobs, x, o) PROVE No(jobs', x, o)
            BY <2>1, <3>2 DEF No
        <3>3. QED
            BY <3>1, <3>2
    <2>4. Head(jobs).number \in 0..MaxMessages
        <3>1. Head(jobs).number \in Nat /\ Head(jobs).number <= message[Head(jobs).source]
            BY <2>1, <2>2 DEF RowsFollow
        <3>2. message[Head(jobs).source] \in 0..MaxMessages
            BY <2>2 DEF StoreTyped
        <3>3. QED
            BY <3>1, <3>2
    <2>5. StoreTyped'
        BY <1>6, <2>1, <2>2, <2>3, <2>4 DEF Upsert, StoreTyped, RowsFollow
    <2>6. OpenWhileRead'
        BY <1>6, <2>1, <2>2, <2>3, <2>4 DEF Upsert, OpenWhileRead
    <2>7. Distinct(jobs)'
        BY <1>6, <2>1 DEF Upsert
    <2>8. JobsMatch'
        BY <1>6, <2>1, <2>2, <2>3, <2>4 DEF Upsert, JobsMatch, StoreTyped
    <2>9. RowsFollow'
        <3> DEFINE s == Head(jobs).source
        <3>1. /\ rows' = [rows EXCEPT ![s] = Head(jobs).number]
              /\ UNCHANGED <<file, db, message, seen>>
            BY <1>6 DEF Upsert
        <3>2. /\ rows[s] <= Head(jobs).number /\ Head(jobs).number <= message[s]
              /\ rows'[s] = Head(jobs).number
              /\ \A x \in Source : x # s => rows'[x] = rows[x]
            BY <2>1, <2>2, <3>1 DEF RowsFollow, StoreTyped
        <3> HIDE DEF s
        <3>3. \A x \in Source : rows[x] <= rows'[x] /\ rows'[x] <= message[x]
            <4> SUFFICES ASSUME NEW x \in Source PROVE rows[x] <= rows'[x] /\ rows'[x] <= message[x]
                OBVIOUS
            <4>1. rows[x] <= message[x] /\ rows[x] \in Nat /\ message[x] \in Nat
                BY DEF RowsFollow
            <4>2. CASE x = s
                BY <3>2, <4>1, <4>2
            <4>3. CASE x # s
                BY <3>2, <4>1, <4>3
            <4>4. QED
                BY <4>2, <4>3
        <3>4. \A j \in Jobs(jobs') : j.op = "upsert" =>
                  rows'[j.source] <= j.number /\ j.number <= message[j.source]
            <4> SUFFICES ASSUME NEW j \in Jobs(jobs'), j.op = "upsert"
                         PROVE  rows'[j.source] <= j.number /\ j.number <= message[j.source]
                OBVIOUS
            <4>1. j.source \in Source /\ j.source # s
                BY <2>1 DEF No, s
            <4>2. QED
                BY <2>1, <3>2, <4>1 DEF RowsFollow
        <3>5. db = "open" => \A x \in Source : seen[x] <= rows'[x]
            <4> SUFFICES ASSUME db = "open", NEW x \in Source PROVE seen[x] <= rows'[x]
                OBVIOUS
            <4>1. /\ seen[x] <= rows[x] /\ rows[x] <= rows'[x]
                  /\ seen[x] \in Nat /\ rows[x] \in Nat /\ rows'[x] \in Nat
                BY <2>5, <3>3 DEF RowsFollow, StoreTyped
            <4>2. QED
                BY <4>1
        <3>6. QED
            BY <3>1, <3>3, <3>4, <3>5 DEF RowsFollow
    <2>10. QED
        BY <2>5, <2>6, <2>7, <2>8, <2>9
<1>7. CASE UpsertFails
    <2>1. /\ Distinct(jobs') /\ jobs' \in Seq(Job) /\ Jobs(jobs') \subseteq Jobs(jobs)
          /\ Head(jobs) \in Job /\ Head(jobs) \in Jobs(jobs)
          /\ No(jobs', Head(jobs).source, "upsert")
        BY <1>7, Done DEF UpsertFails, StoreTyped
    <2>2. Head(jobs).source \in Source /\ Head(jobs).op = "upsert"
        BY <1>7, <2>1 DEF UpsertFails, Job
    <2>3. ~No(jobs, Head(jobs).source, "upsert") /\ \A x \in Source : \A o : No(jobs, x, o) => No(jobs', x, o)
        BY <2>1, <2>2 DEF No
    <2>4. StoreTyped'
        BY <1>7, <2>1, <2>2, <2>3 DEF UpsertFails, StoreTyped, RowsFollow
    <2>5. OpenWhileRead'
        BY <1>7, <2>1, <2>2, <2>3 DEF UpsertFails, OpenWhileRead
    <2>6. Distinct(jobs)'
        BY <1>7, <2>1 DEF UpsertFails
    <2>7. JobsMatch'
        BY <1>7, <2>1, <2>2, <2>3 DEF UpsertFails, JobsMatch, StoreTyped
    <2>8. RowsFollow'
        BY <1>7, <2>1, <2>2, <2>3 DEF UpsertFails, RowsFollow, No, StoreTyped
    <2>9. QED
        BY <2>4, <2>5, <2>6, <2>7, <2>8
<1>8. CASE Commit
    <2>1. /\ Distinct(jobs') /\ jobs' \in Seq(Job) /\ Jobs(jobs') \subseteq Jobs(jobs)
          /\ Head(jobs) \in Job /\ Head(jobs) \in Jobs(jobs)
          /\ No(jobs', Head(jobs).source, "commit")
        BY <1>8, Done DEF Commit, StoreTyped
    <2>2. Head(jobs).source \in Source /\ Head(jobs).op = "commit"
        BY <1>8, <2>1 DEF Commit, Job
    <2>3. ~No(jobs, Head(jobs).source, "commit") /\ \A x \in Source : \A o : No(jobs, x, o) => No(jobs', x, o)
        BY <2>1, <2>2 DEF No
    <2>4. StoreTyped'
        BY <1>8, <2>1, <2>2, <2>3 DEF Commit, StoreTyped, RowsFollow
    <2>5. OpenWhileRead'
        BY <1>8, <2>1, <2>2, <2>3 DEF Commit, OpenWhileRead
    <2>6. Distinct(jobs)'
        BY <1>8, <2>1 DEF Commit
    <2>7. JobsMatch'
        BY <1>8, <2>1, <2>2, <2>3 DEF Commit, JobsMatch, StoreTyped
    <2>8. RowsFollow'
        BY <1>8, <2>1, <2>2, <2>3 DEF Commit, RowsFollow, No, StoreTyped
    <2>9. QED
        BY <2>4, <2>5, <2>6, <2>7, <2>8
<1>9. CASE Select
    <2>1. /\ Distinct(jobs') /\ jobs' \in Seq(Job) /\ Jobs(jobs') \subseteq Jobs(jobs)
          /\ Head(jobs) \in Job /\ Head(jobs) \in Jobs(jobs)
          /\ No(jobs', Head(jobs).source, "select")
        BY <1>9, Done DEF Select, StoreTyped
    <2>2. Head(jobs).source \in Source /\ Head(jobs).op = "select"
        BY <1>9, <2>1 DEF Select, Job
    <2>3. ~No(jobs, Head(jobs).source, "select") /\ \A x \in Source : \A o : No(jobs, x, o) => No(jobs', x, o)
        BY <2>1, <2>2 DEF No
    <2>4. StoreTyped'
        BY <1>9, <2>1, <2>2, <2>3 DEF Select, StoreTyped, RowsFollow
    <2>5. OpenWhileRead'
        BY <1>9, <2>1, <2>2, <2>3 DEF Select, OpenWhileRead
    <2>6. Distinct(jobs)'
        BY <1>9, <2>1 DEF Select
    <2>7. JobsMatch'
        BY <1>9, <2>1, <2>2, <2>3 DEF Select, JobsMatch, StoreTyped
    <2>8. RowsFollow'
        <3>1. db' = "open" => \A s \in Source : seen'[s] <= rows'[s]
            <4>1. UNCHANGED <<rows, db>> /\ (db = "open" => \A s \in Source : seen[s] <= rows[s])
                BY <1>9 DEF Select, RowsFollow
            <4>2. CASE reader = "asked"
                <5>1. seen' = [seen EXCEPT ![reading] = rows[reading]]
                    BY <1>9, <4>2 DEF Select
                <5>2. \A s \in Source : seen'[s] = seen[s] \/ seen'[s] = rows[s]
                    BY <5>1 DEF StoreTyped
                <5>3. \A s \in Source : rows[s] \in Nat
                    BY DEF StoreTyped
                <5>4. QED
                    BY <4>1, <5>2, <5>3
            <4>3. CASE reader # "asked"
                BY <1>9, <4>1, <4>3 DEF Select
            <4>4. QED
                BY <4>2, <4>3
        <3>2. QED
            BY <1>9, <2>1, <3>1 DEF Select, RowsFollow
    <2>9. QED
        BY <2>4, <2>5, <2>6, <2>7, <2>8
<1>10. CASE JoinFsm
    <2>1. StoreTyped'
        BY <1>10 DEF JoinFsm, StoreTyped
    <2>2. OpenWhileRead'
        BY <1>10 DEF JoinFsm, OpenWhileRead, StoreTyped
    <2>3. Distinct(jobs)'
        BY <1>10 DEF JoinFsm, StoreTyped
    <2>4. JobsMatch'
        BY <1>10 DEF JoinFsm, JobsMatch, No, StoreTyped, OpenWhileRead
    <2>5. RowsFollow'
        BY <1>10 DEF JoinFsm, RowsFollow, StoreTyped, OpenWhileRead
    <2>6. QED
        BY <2>1, <2>2, <2>3, <2>4, <2>5
<1>11. CASE CloseDb
    <2>1. StoreTyped'
        BY <1>11 DEF CloseDb, StoreTyped
    <2>2. OpenWhileRead'
        BY <1>11 DEF CloseDb, OpenWhileRead, StoreTyped
    <2>3. Distinct(jobs)'
        BY <1>11 DEF CloseDb, StoreTyped
    <2>4. JobsMatch'
        BY <1>11 DEF CloseDb, JobsMatch, No, StoreTyped, OpenWhileRead
    <2>5. RowsFollow'
        BY <1>11 DEF CloseDb, RowsFollow, StoreTyped, OpenWhileRead
    <2>6. QED
        BY <2>1, <2>2, <2>3, <2>4, <2>5
<1>12. CASE StoreCrash
    <2>1. StoreTyped'
        BY <1>12 DEF StoreCrash, StoreTyped
    <2>2. OpenWhileRead'
        BY <1>12 DEF StoreCrash, OpenWhileRead, StoreTyped
    <2>3. Distinct(jobs)'
        BY <1>12 DEF StoreCrash, StoreTyped
    <2>4. JobsMatch'
        BY <1>12 DEF StoreCrash, JobsMatch, No, StoreTyped, OpenWhileRead
    <2>5. RowsFollow'
        BY <1>12 DEF StoreCrash, RowsFollow, StoreTyped, OpenWhileRead
    <2>6. QED
        BY <2>1, <2>2, <2>3, <2>4, <2>5
<1>13. QED
    BY <1>1, <1>2, <1>3, <1>4, <1>5, <1>6, <1>7, <1>8, <1>9, <1>10, <1>11, <1>12
       DEF StoreNext

(* Every behaviour of the store keeps to the invariant. *)
LEMMA StoreInvariant == StoreSpec => []StoreInv
<1>1. StoreInit => StoreInv
    <2> SUFFICES ASSUME StoreInit PROVE StoreInv
        OBVIOUS
    <2>1. <<>> \in Seq(Job) /\ Jobs(<<>>) = {} /\ Distinct(<<>>)
        BY DEF Jobs, Distinct
    <2>2. StoreTyped
        BY <2>1, StoreAssumption DEF StoreInit, StoreTyped
    <2>3. OpenWhileRead
        BY DEF StoreInit, OpenWhileRead
    <2>4. JobsMatch
        BY <2>1 DEF StoreInit, JobsMatch, No
    <2>5. RowsFollow
        BY <2>1 DEF StoreInit, RowsFollow
    <2>6. QED
        BY <2>1, <2>2, <2>3, <2>4, <2>5 DEF StoreInit, StoreInv
<1>2. StoreInv /\ UNCHANGED storeVars => StoreInv'
    BY DEF StoreInv, storeVars, StoreTyped, OpenWhileRead, Distinct, JobsMatch, No, Jobs, RowsFollow
<1>3. StoreInv /\ [StoreNext]_storeVars => StoreInv'
    BY <1>2, StoreStep
<1>4. QED
    BY <1>1, <1>3, PTL DEF StoreSpec

(* The thread has at most one thing of a kind to do for a source, and every number it holds is
   that of a message. *)
THEOREM StoreTypes == StoreSpec => []StoreTypeOK
<1>1. StoreInv => StoreTypeOK
    <2> SUFFICES ASSUME StoreInv PROVE StoreTypeOK
        OBVIOUS
    <2>1. DOMAIN jobs = 1..Len(jobs)
        BY LenProperties DEF StoreInv, StoreTyped
    <2>2. \A i, j \in DOMAIN jobs : i # j /\ jobs[i].source = jobs[j].source => jobs[i].op # jobs[j].op
        BY <2>1 DEF StoreInv, Distinct
    <2>3. QED
        BY <2>2 DEF StoreInv, StoreTyped, OpenWhileRead, StoreTypeOK
<1>2. QED
    BY <1>1, StoreInvariant, PTL

(* term() joins the FSM before it stops the store (mission_store.py:163): no racer ever finds
   the database closed, stopped or gone, however a mission ends. *)
THEOREM ReadersFindTheStore == StoreSpec => []NoReadAfterStop
<1>1. StoreInv => NoReadAfterStop
    BY DEF StoreInv, OpenWhileRead, NoReadAfterStop
<1>2. QED
    BY <1>1, StoreInvariant, PTL

(* What a racer reads of a source (get_latest) is never older than what was read of it before
   in the same mission, although upserts fail and receivers are cancelled between an upsert
   and its commit. *)
THEOREM ReadsNeverGoBack == StoreSpec => ReadsAdvance
<1> DEFINE Onward == missions' = missions => \A s \in Source : seen'[s] >= seen[s]
<1>1. StoreInv /\ [StoreNext]_storeVars => [Onward]_storeVars
    <2> SUFFICES ASSUME StoreInv, StoreNext, missions' = missions PROVE \A s \in Source : seen'[s] >= seen[s]
        OBVIOUS
    <2>1. \A s \in Source : seen[s] \in Nat /\ rows[s] \in Nat
        BY StoreAssumption DEF StoreInv, StoreTyped
    <2>2. CASE UNCHANGED seen
        BY <2>1, <2>2
    <2>3. CASE Select /\ reader = "asked"
        <3>1. \A s \in Source : seen[s] <= rows[s]
            BY <2>3 DEF StoreInv, OpenWhileRead, RowsFollow
        <3>2. seen' = [seen EXCEPT ![reading] = rows[reading]]
            BY <2>3 DEF Select
        <3>3. QED
            BY <2>1, <3>1, <3>2 DEF StoreInv, StoreTyped
    <2>4. ~StartStore
        BY DEF StartStore, StoreInv, StoreTyped
    <2>5. UNCHANGED seen \/ (Select /\ reader = "asked")
        BY <2>4 DEF StoreNext, Publish, ReceiveMessage, AskCommit, GetLatest, Upsert, UpsertFails,
                    Commit, Select, JoinFsm, CloseDb, StoreCrash
    <2>6. QED
        BY <2>2, <2>3, <2>5
<1>2. QED
    BY <1>1, StoreInvariant, PTL DEF StoreSpec, ReadsAdvance

----------------------------------------------------------------------------
(***************************************************************************)
(* The compiler.  Its loop over the data is a sequence of tables, one for  *)
(* each declaration it has come to, and what is in them is said for all of *)
(* them by counting: the induction is over a set of numbers, which is well *)
(* founded because the finite sets are.  From there on a program that is   *)
(* well typed and not accepted would have a first datum that does not fit. *)
(***************************************************************************)

(* A set of natural numbers has a least one: what lies under it are finite sets, which are well
   ordered by inclusion. *)
LEMMA LeastOf ==
    ASSUME NEW S, S \subseteq Nat, S # {}
    PROVE  Min(S) \in S /\ \A y \in S : Min(S) <= y
<1> DEFINE Below == {0..x : x \in S}
<1>1. Below \subseteq FiniteSubsetsOf(Nat) /\ Below # {}
    <2>1. \A x \in S : 0..x \in SUBSET Nat /\ IsFiniteSet(0..x)
        BY FS_Interval
    <2>2. QED
        BY <2>1 DEF FiniteSubsetsOf
<1>2. PICK B \in Below : \A C \in Below : ~(<<C, B>> \in StrictSubsetOrdering(Nat))
    <2>1. IsWellFoundedOn(StrictSubsetOrdering(Nat), FiniteSubsetsOf(Nat))
        BY FS_StrictSubsetOrderingWellFounded
    <2> HIDE DEF Below
    <2>2. QED
        BY <1>1, <2>1, WFMin
<1>3. PICK x \in S : B = 0..x
    OBVIOUS
<1>4. \A y \in S : x <= y
    <2> SUFFICES ASSUME NEW y \in S, y < x PROVE FALSE
        OBVIOUS
    <2>1. 0..y \in SUBSET Nat /\ 0..x \in SUBSET Nat /\ 0..y \subseteq 0..x /\ x \in 0..x /\ x \notin 0..y
        OBVIOUS
    <2>2. <<0..y, 0..x>> \in StrictSubsetOrdering(Nat)
        BY <2>1 DEF StrictSubsetOrdering
    <2>3. QED
        BY <1>2, <1>3, <2>2
<1>5. QED
    BY <1>3, <1>4 DEF Min

(* What holds of 0 and with every number of the next one holds of all. *)
LEMMA Counting ==
    ASSUME NEW S, 0 \in S, \A n \in Nat : n \in S => n + 1 \in S
    PROVE  Nat \subseteq S
<1> SUFFICES ASSUME Nat \ S # {} PROVE FALSE
    OBVIOUS
<1> DEFINE m == Min(Nat \ S)
<1>1. m \in Nat \ S /\ \A y \in Nat \ S : m <= y
    BY LeastOf
<1> HIDE DEF m
<1>2. m # 0 /\ m - 1 \in Nat /\ ~(m <= m - 1) /\ (m - 1) + 1 = m
    BY <1>1
<1>3. m - 1 \in S
    BY <1>1, <1>2
<1>4. QED
    BY <1>1, <1>2, <1>3

(* A set of numbers up to n has a greatest one. *)
LEMMA GreatestOf ==
    ASSUME NEW n \in Nat, NEW S, S \subseteq 1..n, S # {}
    PROVE  Max(S) \in S /\ \A y \in S : Max(S) >= y
<1> DEFINE U == {n - t : t \in S}
<1>1. U \subseteq Nat /\ U # {}
    <2>1. \A t \in S : n - t \in Nat
        OBVIOUS
    <2>2. QED
        BY <2>1
<1>2. PICK x \in S : Min(U) = n - x
    <2>1. Min(U) \in U
        BY <1>1, LeastOf
    <2>2. QED
        BY <2>1
<1>3. \A y \in S : Min(U) <= n - y
    <2>1. \A u \in U : Min(U) <= u
        BY <1>1, LeastOf
    <2>2. QED
        BY <2>1
<1>4. \A y \in S : x >= y
    BY <1>2, <1>3
<1>5. QED
    BY <1>4 DEF Max

----------------------------------------------------------------------------
(* The tables of resolve_symbols exist, one for each declaration it has come to. *)
LEMMA ResolverRuns ==
    ASSUME NEW p, Len(p.data) \in Nat
    PROVE  ResolvedUpTo(p) = [i \in 0..Len(p.data) |->
               IF i = 0 THEN RawData(p) ELSE ResolveNext(p, ResolvedUpTo(p)[i - 1], i)]
<1> DEFINE Tables(n, r) == r = [i \in 0..n |-> IF i = 0 THEN RawData(p) ELSE ResolveNext(p, r[i - 1], i)]
           S == {n \in Nat : \E r : Tables(n, r)}
<1>1. 0 \in S
    <2>1. Tables(0, [i \in 0..0 |-> RawData(p)])
        OBVIOUS
    <2>2. QED
        BY <2>1
<1>2. ASSUME NEW n \in Nat, n \in S PROVE n + 1 \in S
    <2>1. PICK r : Tables(n, r)
        BY <1>2
    <2> DEFINE q == [i \in 0..(n + 1) |-> IF i = n + 1 THEN ResolveNext(p, r[n], n + 1) ELSE r[i]]
    <2>2. \A i \in 0..(n + 1) : q[i] = IF i = 0 THEN RawData(p) ELSE ResolveNext(p, q[i - 1], i)
        <3> SUFFICES ASSUME NEW i \in 0..(n + 1)
                     PROVE  q[i] = IF i = 0 THEN RawData(p) ELSE ResolveNext(p, q[i - 1], i)
            OBVIOUS
        <3>1. CASE i = 0
            BY <2>1, <3>1
        <3>2. CASE i # 0
            <4>1. i - 1 \in 0..n /\ i - 1 # n + 1 /\ i - 1 \in 0..(n + 1)
                BY <3>2
            <4>2. q[i - 1] = r[i - 1]
                BY <4>1
            <4>3. CASE i = n + 1
                BY <4>2, <4>3
            <4>4. CASE i # n + 1
                <5>1. i \in 0..n
                    BY <4>4
                <5>2. q[i] = ResolveNext(p, r[i - 1], i)
                    BY <2>1, <3>2, <4>4, <5>1
                <5>3. QED
                    BY <3>2, <4>2, <5>2
            <4>5. QED
                BY <4>3, <4>4
        <3>3. QED
            BY <3>1, <3>2
    <2>3. Tables(n + 1, q)
        BY <2>2
    <2> HIDE DEF Tables, q
    <2>4. (\E x : Tables(n + 1, x)) /\ n + 1 \in Nat
        BY <2>3
    <2>5. QED
        BY <2>4
<1>3. Nat \subseteq S
    <2> HIDE DEF S
    <2>1. QED
        BY <1>1, <1>2, Counting
<1>4. \E r : Tables(Len(p.data), r)
    BY <1>3
<1>5. ResolvedUpTo(p) = CHOOSE r : Tables(Len(p.data), r)
    BY DEF ResolvedUpTo
<1>6. Tables(Len(p.data), ResolvedUpTo(p))
    <2> HIDE DEF Tables
    <2>1. QED
        BY <1>4, <1>5
<1>7. QED
    BY <1>6

----------------------------------------------------------------------------
(* The kinds of values are told apart. *)
LEMMA Kinds ==
    /\ Absent.kind = "absent" /\ Raised.kind = "raised"
    /\ \A n : Ref(n).kind = "name" /\ Ref(n).name = n
    /\ \A t, v : Inline(t, v).kind = "inline" /\ Inline(t, v).type = t /\ Inline(t, v).arg = v
    /\ \A t : Instance(t).kind = "instance" /\ Instance(t).type = t
    BY DEF Absent, Raised, Ref, Inline, Instance

(* What a file says is no instance and did not raise. *)
LEMMA Said ==
    ASSUME NEW d \in Declaration
    PROVE  /\ d.type \in Type /\ d.id \in Name
           /\ \/ d.value \in Plainly
              \/ d.value.kind = "inline" /\ d.value.type \in Type /\ d.value.arg \in Plainly
           /\ \A v \in Plainly : v = Absent \/ (v.kind = "name" /\ v # Absent)
           /\ \A v \in Plainly : v.kind \in {"absent", "name"}
           /\ \A t : d.value # Instance(t)
           /\ d = [d EXCEPT !.value = d.value]
<1>1. \A v \in Plainly : v = Absent \/ (v.kind = "name" /\ v # Absent)
    BY Kinds DEF Plainly
<1>2. \A v \in Plainly : v.kind \in {"absent", "name"}
    BY Kinds DEF Plainly
<1>3. d.type \in Type /\ d.id \in Name /\ d.value \in Plainly \cup {Inline(t, v) : t \in Type, v \in Plainly}
    BY DEF Declaration
<1>4. \/ d.value \in Plainly
      \/ d.value.kind = "inline" /\ d.value.type \in Type /\ d.value.arg \in Plainly
    <2>1. CASE d.value \in Plainly
        BY <2>1
    <2>2. CASE \E t \in Type, v \in Plainly : d.value = Inline(t, v)
        BY <2>2, Kinds
    <2>3. QED
        BY <1>3, <2>1, <2>2
<1>5. \A t : d.value # Instance(t)
    BY <1>2, <1>4, Kinds
<1>6. d = [d EXCEPT !.value = d.value]
    BY DEF Declaration
<1>7. QED
    BY <1>1, <1>2, <1>3, <1>4, <1>5, <1>6

(* The declaration of a name is one of the file, and its first place is its first place. *)
LEMMA Declarations ==
    ASSUME NEW decls \in Seq(Declaration), NEW n \in Declared(decls)
    PROVE  /\ Decl(decls, n) \in Declaration
           /\ Place(decls, n) \in 1..Len(decls) /\ decls[Place(decls, n)].id = n
           /\ \A i \in 1..Len(decls) : decls[i].id = n => Place(decls, n) <= i
<1> DEFINE S == {i \in DOMAIN decls : decls[i].id = n}
<1>1. DOMAIN decls = 1..Len(decls) /\ Len(decls) \in Nat /\ \A i \in 1..Len(decls) : decls[i] \in Declaration
    BY LenProperties, ElementOfSeq
<1>2. S \subseteq 1..Len(decls) /\ S # {}
    BY <1>1 DEF Declared
<1>3. Max(S) \in S
    BY <1>1, <1>2, GreatestOf
<1>4. Min(S) \in S /\ \A y \in S : Min(S) <= y
    <2>1. S \subseteq Nat
        BY <1>2
    <2>2. QED
        BY <1>2, <2>1, LeastOf
<1>5. QED
    BY <1>1, <1>3, <1>4 DEF Decl, Place

(* The data a table can instantiate, and those that text allows at a place where names are known. *)
Offers(p, table) ==
    {k \in Declared(p.data) : table[k].type \in DataTypes /\ Fits(table[k].type, table[k].value)}
Usable(p, names) == {k \in Declared(p.data) : k \in names \/ Bare(Decl(p.data, k))}
IsTable(p, table) ==
    DOMAIN table = Declared(p.data) /\ \A k \in DOMAIN table : table[k].type = Decl(p.data, k).type

(* Where a name stands for a datum of the type of the field, and that datum can be instantiated,
   the resolver puts an instance that pydantic takes; and nowhere else. *)
LEMMA NameFits ==
    ASSUME NEW p, NEW table, IsTable(p, table), NEW names, NEW w \in Plainly, NEW t \in Type
    PROVE  /\ Offers(p, table) \subseteq Usable(p, names) =>
                 (Fits(t, ResolveName(table, w, FieldType[t])) => Given(p, w, t, names))
           /\ Usable(p, names) \subseteq Offers(p, table) =>
                 (Given(p, w, t, names) => Fits(t, ResolveName(table, w, FieldType[t])))
<1> DEFINE u == FieldType[t]
           r == ResolveName(table, w, u)
<1>a. u \in DataTypes \cup {Str, Plain} /\ Str \notin DataTypes
    BY CompilerAssumption
<1>1. CASE w = Absent
    <2>1. r = Absent /\ Absent.kind = "absent"
        BY <1>1, Kinds DEF ResolveName
    <2>2. \A x : Absent # Instance(x)
        BY Kinds
    <2>3. QED
        BY <1>1, <2>1, <2>2 DEF Fits, Given, Known
<1>2. CASE w # Absent
    <2>1. w.kind = "name"
        BY <1>2, Kinds DEF Plainly
    <2>2. CASE u \in DataTypes /\ w.name \in Declared(p.data)
        <3> DEFINE k == w.name
        <3>1. r = IF k \in Offers(p, table) THEN Instance(table[k].type) ELSE Raised
            BY <2>1, <2>2 DEF ResolveName, InstantiateDatum, Offers, IsTable
        <3>2. Fits(t, r) <=> k \in Offers(p, table) /\ table[k].type = u
            <4>1. \A x, y : Instance(x) = Instance(y) => x = y
                BY Kinds
            <4>2. \A x : Instance(x) # Absent /\ Instance(x) # Raised /\ Instance(x).kind # "name"
                BY Kinds
            <4>3. Raised # Absent /\ Raised.kind # "name"
                BY Kinds
            <4> HIDE DEF r
            <4>4. QED
                BY <2>2, <3>1, <4>1, <4>2, <4>3 DEF Fits
        <3>3. Given(p, w, t, names) <=> k \in Usable(p, names) /\ table[k].type = u
            BY <1>2, <1>a, <2>1, <2>2 DEF Given, Known, Usable, IsTable
        <3> HIDE DEF r, k
        <3>4. QED
            BY <3>2, <3>3 DEF r, u
    <2>3. CASE ~(u \in DataTypes /\ w.name \in Declared(p.data))
        <3>1. r = w
            BY <2>3 DEF ResolveName, IsTable
        <3>2. Fits(t, r) <=> u = Str
            BY <1>2, <2>1, <3>1, Kinds DEF Fits
        <3>3. Given(p, w, t, names) <=> u = Str
            BY <1>2, <2>1, <2>3 DEF Given, Known
        <3>4. QED
            BY <3>2, <3>3
    <2>4. QED
        BY <2>2, <2>3
<1>3. QED
    BY <1>1, <1>2

(* The same of a whole declaration. *)
LEMMA DeclFits ==
    ASSUME NEW p, NEW table, IsTable(p, table), NEW names, NEW d \in Declaration,
           NEW registry
    PROVE  /\ Offers(p, table) \subseteq Usable(p, names) =>
                 (Fits(d.type, ResolveDecl(table, d, registry)) => WellTyped(p, d, registry, names))
           /\ Usable(p, names) \subseteq Offers(p, table) =>
                 (WellTyped(p, d, registry, names) => Fits(d.type, ResolveDecl(table, d, registry)))
           /\ Fits(d.type, ResolveDecl(table, d, registry)) => d.type \in registry
<1> DEFINE u == FieldType[d.type]
           r == ResolveDecl(table, d, registry)
<1>0. ~Fits(d.type, Raised)
    BY Kinds DEF Fits
<1>1. CASE d.type \notin registry
    BY <1>0, <1>1 DEF ResolveDecl, WellTyped
<1>2. CASE d.type \in registry /\ d.value.kind # "inline"
    <2>1. r = ResolveName(table, d.value, u) /\ d.value \in Plainly /\ d.type \in Type
        BY <1>2, Said DEF ResolveDecl, Resolve
    <2>2. WellTyped(p, d, registry, names) <=> Given(p, d.value, d.type, names)
        BY <1>2 DEF WellTyped
    <2>3. QED
        BY <1>2, <2>1, <2>2, NameFits
<1>3. CASE d.type \in registry /\ d.value.kind = "inline"
    <2> DEFINE i == d.value
               a == ResolveName(table, i.arg, FieldType[i.type])
    <2>1. i.type \in Type /\ i.arg \in Plainly
        BY <1>3, Said
    <2>2. r = IF i.type \in DataTypes /\ Fits(i.type, a) THEN Instance(i.type) ELSE Raised
        BY <1>3 DEF ResolveDecl, Resolve
    <2>3. Fits(d.type, r) <=> i.type \in DataTypes /\ i.type = u /\ Fits(i.type, a)
        <3>1. \A x, y : Instance(x) = Instance(y) => x = y
            BY Kinds
        <3>2. \A x : Instance(x) # Absent /\ Instance(x).kind # "name"
            BY Kinds
        <3> HIDE DEF r, i, a
        <3>3. QED
            BY <1>0, <2>2, <3>1, <3>2 DEF Fits
    <2>4. WellTyped(p, d, registry, names) <=> i.type \in DataTypes /\ i.type = u /\ Given(p, i.arg, i.type, names)
        BY <1>3 DEF WellTyped
    <2>5. QED
        BY <1>3, <2>1, <2>3, <2>4, NameFits
<1>4. QED
    BY <1>1, <1>2, <1>3

----------------------------------------------------------------------------
(* The table when resolve_symbols has come to a place: what is declared there or earlier is
   resolved, by the table of its own place. *)
TableAt(p, i) ==
    [n \in Declared(p.data) |->
        IF Place(p.data, n) <= i
        THEN [Decl(p.data, n) EXCEPT
                  !.value = ResolveDecl(ResolvedUpTo(p)[Place(p.data, n) - 1], Decl(p.data, n), DataTypes)]
        ELSE Decl(p.data, n)]

LEMMA TablesAre ==
    ASSUME NEW p, p.data \in Seq(Declaration)
    PROVE  \A i \in 0..Len(p.data) : ResolvedUpTo(p)[i] = TableAt(p, i)
<1> DEFINE R == ResolvedUpTo(p)
           L == Len(p.data)
           D == Declared(p.data)
           pl(n) == Place(p.data, n)
           S == {i \in Nat : i <= L => R[i] = TableAt(p, i)}
<1>0. L \in Nat /\ DOMAIN p.data = 1..L
    BY LenProperties
<1>1. \A n \in D : pl(n) \in 1..L /\ p.data[pl(n)].id = n /\ \A i \in 1..L : p.data[i].id = n => pl(n) <= i
    BY Declarations
<1>2. R[0] = RawData(p) /\ \A i \in 1..L : R[i] = ResolveNext(p, R[i - 1], i)
    <2>1. R = [i \in 0..L |-> IF i = 0 THEN RawData(p) ELSE ResolveNext(p, R[i - 1], i)]
        BY <1>0, ResolverRuns
    <2> HIDE DEF R, L
    <2>2. 0 \in 0..L /\ \A i \in 1..L : i \in 0..L /\ i # 0
        BY <1>0
    <2>3. QED
        BY <2>1, <2>2
<1>3. 0 \in S
    <2>1. \A n \in D : ~(pl(n) <= 0)
        BY <1>1
    <2>2. TableAt(p, 0) = RawData(p)
        BY <2>1 DEF TableAt, RawData
    <2>3. QED
        BY <1>2, <2>2
<1>4. ASSUME NEW j \in Nat, j \in S PROVE j + 1 \in S
    <2> DEFINE i == j + 1
    <2>1. SUFFICES ASSUME i <= L PROVE R[i] = TableAt(p, i)
        OBVIOUS
    <2>2. i \in 1..L /\ i - 1 = j /\ R[j] = TableAt(p, j) /\ i \in Nat
        BY <1>4, <2>1
    <2> DEFINE k == p.data[i].id
    <2>3. k \in D
        BY <1>0, <2>2 DEF Declared
    <2>4. R[i] = IF pl(k) = i THEN [R[j] EXCEPT ![k].value = ResolveDecl(R[j], R[j][k], DataTypes)] ELSE R[j]
        BY <1>2, <2>2 DEF ResolveNext
    <2>5. \A n \in D : n # k => (pl(n) <= i <=> pl(n) <= j)
        BY <1>1, <2>2
    <2>6. CASE pl(k) = i
        <3>1. R[j][k] = Decl(p.data, k) /\ DOMAIN R[j] = D /\ pl(k) <= i /\ pl(k) - 1 = j /\ ~(pl(k) <= j)
            BY <2>2, <2>3, <2>6 DEF TableAt
        <3>2. R[i] = [R[j] EXCEPT ![k].value = ResolveDecl(R[j], Decl(p.data, k), DataTypes)]
            BY <2>4, <2>6, <3>1
        <3>3. R[i] = [n \in D |-> IF n = k THEN [Decl(p.data, k) EXCEPT !.value = ResolveDecl(R[j], Decl(p.data, k), DataTypes)]
                                  ELSE R[j][n]]
            <4> HIDE DEF R, D, k, pl, i
            <4>1. QED
                BY <2>3, <3>1, <3>2
        <3>4. TableAt(p, i) = [n \in D |-> IF n = k THEN [Decl(p.data, k) EXCEPT !.value = ResolveDecl(R[j], Decl(p.data, k), DataTypes)]
                                  ELSE R[j][n]]
            <4>1. \A n \in D : TableAt(p, i)[n] = IF n = k THEN [Decl(p.data, k) EXCEPT !.value = ResolveDecl(R[j], Decl(p.data, k), DataTypes)]
                                  ELSE R[j][n]
                BY <2>2, <2>5, <3>1 DEF TableAt
            <4>2. QED
                BY <4>1 DEF TableAt
        <3>5. QED
            BY <3>3, <3>4
    <2>7. CASE pl(k) # i
        <3>1. pl(k) <= i /\ pl(k) <= j
            BY <1>1, <2>2, <2>3, <2>7
        <3>2. \A n \in D : (pl(n) <= i <=> pl(n) <= j)
            BY <2>5, <3>1
        <3>3. TableAt(p, i) = TableAt(p, j)
            <4> HIDE DEF i
            <4>1. QED
                BY <3>2 DEF TableAt
        <3>4. QED
            BY <2>2, <2>4, <2>7, <3>3
    <2>8. QED
        BY <2>6, <2>7
<1>5. Nat \subseteq S
    <2> HIDE DEF S
    <2>1. QED
        BY <1>3, <1>4, Counting
<1>6. QED
    BY <1>0, <1>5

(* Every table has the names and the types of the file, and a datum not resolved yet can be
   instantiated only if there is nothing to resolve in it. *)
LEMMA Tables ==
    ASSUME NEW p, p.data \in Seq(Declaration), NEW i \in 0..Len(p.data)
    PROVE  /\ IsTable(p, ResolvedUpTo(p)[i])
           /\ \A n \in Declared(p.data) :
                 /\ Place(p.data, n) > i => ResolvedUpTo(p)[i][n] = Decl(p.data, n)
                 /\ Place(p.data, n) <= i => ResolvedUpTo(p)[i][n].value =
                        ResolveDecl(ResolvedUpTo(p)[Place(p.data, n) - 1], Decl(p.data, n), DataTypes)
           /\ \A n \in Offers(p, ResolvedUpTo(p)[i]) :
                 Place(p.data, n) <= i \/ Bare(Decl(p.data, n))
<1> DEFINE R == ResolvedUpTo(p)
           D == Declared(p.data)
           pl(n) == Place(p.data, n)
<1>1. R[i] = TableAt(p, i)
    BY TablesAre
<1>2. \A n \in D : Decl(p.data, n) \in Declaration /\ pl(n) \in Nat
    BY Declarations
<1>3. \A n \in D : pl(n) > i => R[i][n] = Decl(p.data, n)
    BY <1>1, <1>2 DEF TableAt
<1>4. \A n \in D : pl(n) <= i => R[i][n] = [Decl(p.data, n) EXCEPT !.value = ResolveDecl(R[pl(n) - 1], Decl(p.data, n), DataTypes)]
    BY <1>1 DEF TableAt
<1>5. ASSUME NEW n \in D, pl(n) <= i
      PROVE  /\ R[i][n].type = Decl(p.data, n).type
             /\ R[i][n].value = ResolveDecl(R[pl(n) - 1], Decl(p.data, n), DataTypes)
    <2> DEFINE d == Decl(p.data, n)
               v == ResolveDecl(R[pl(n) - 1], d, DataTypes)
    <2>1. R[i][n] = [d EXCEPT !.value = v] /\ d \in Declaration
        BY <1>2, <1>4, <1>5
    <2> HIDE DEF v, d
    <2>2. R[i][n].type = d.type /\ R[i][n].value = v
        BY <2>1 DEF Declaration
    <2>3. QED
        BY <2>2 DEF v, d
<1>6. DOMAIN R[i] = D
    BY <1>1 DEF TableAt
<1>7. \A n \in D : pl(n) > i \/ pl(n) <= i
    BY <1>2
<1>8. \A n \in D : R[i][n].type = Decl(p.data, n).type
    BY <1>3, <1>5, <1>7
<1>9. ASSUME NEW n \in Offers(p, R[i]), pl(n) > i PROVE Bare(Decl(p.data, n))
    <2>1. n \in D /\ Fits(Decl(p.data, n).type, Decl(p.data, n).value)
        BY <1>3, <1>9 DEF Offers
    <2>2. \A t : Decl(p.data, n).value # Instance(t)
        BY <1>2, <2>1, Said
    <2>3. QED
        BY <2>1, <2>2 DEF Fits, Bare
<1>10. \A n \in Offers(p, R[i]) : pl(n) \in Nat
    BY <1>2 DEF Offers
<1>11. QED
    BY <1>3, <1>5, <1>6, <1>8, <1>9, <1>10 DEF IsTable

(* The passes over the data accept exactly those that are well typed. *)
LEMMA DataAccepted ==
    ASSUME NEW p, p.data \in Seq(Declaration)
    PROVE  /\ Validated(ResolvedData(p)) <=>
                 \A n \in Declared(p.data) : WellTyped(p, Decl(p.data, n), DataTypes, Earlier(p.data, n))
           /\ IsTable(p, ResolvedData(p))
           /\ Validated(ResolvedData(p)) => Offers(p, ResolvedData(p)) = Declared(p.data)
<1> DEFINE R == ResolvedUpTo(p)
           L == Len(p.data)
           D == Declared(p.data)
           pl(n) == Place(p.data, n)
           d(n) == Decl(p.data, n)
           Good(n) == Fits(d(n).type, ResolveDecl(R[pl(n) - 1], d(n), DataTypes))
<1>0. L \in Nat
    BY LenProperties
<1>1. \A n \in D : d(n) \in Declaration /\ pl(n) \in 1..L /\ pl(n) - 1 \in 0..L /\ pl(n) <= L
    BY <1>0, Declarations
<1>2. IsTable(p, R[L]) /\ \A n \in D : R[L][n].value = ResolveDecl(R[pl(n) - 1], d(n), DataTypes)
    BY <1>0, <1>1, Tables
<1>3. Validated(ResolvedData(p)) <=> \A n \in D : Good(n)
    BY <1>2 DEF Validated, ResolvedData, IsTable
<1>4. ASSUME NEW n \in D, Good(n)
      PROVE  WellTyped(p, d(n), DataTypes, Earlier(p.data, n)) /\ d(n).type \in DataTypes
    <2>1. IsTable(p, R[pl(n) - 1])
        BY <1>1, Tables
    <2>2. Offers(p, R[pl(n) - 1]) \subseteq Usable(p, Earlier(p.data, n))
        <3>1. \A m \in Offers(p, R[pl(n) - 1]) : m \in D /\ (pl(m) <= pl(n) - 1 \/ Bare(d(m)))
            BY <1>1, Tables DEF Offers
        <3>2. \A m \in D : pl(m) <= pl(n) - 1 => pl(m) < pl(n)
            BY <1>1
        <3>3. QED
            BY <3>1, <3>2 DEF Usable, Earlier
    <2>3. QED
        BY <1>1, <1>4, <2>1, <2>2, DeclFits
<1>5. ASSUME \A n \in D : WellTyped(p, d(n), DataTypes, Earlier(p.data, n)),
             NEW n \in D, \A m \in D : pl(m) < pl(n) => Good(m)
      PROVE  Good(n)
    <2> DEFINE T == R[pl(n) - 1]
    <2>1. IsTable(p, T) /\ pl(n) - 1 \in 0..L
        BY <1>1, Tables
    <2>2. \A m \in Earlier(p.data, n) : m \in Offers(p, T)
        <3> SUFFICES ASSUME NEW m \in D, pl(m) < pl(n) PROVE m \in Offers(p, T)
            BY DEF Earlier
        <3>1. pl(m) <= pl(n) - 1
            BY <1>1
        <3>2. T[m].value = ResolveDecl(R[pl(m) - 1], d(m), DataTypes) /\ T[m].type = d(m).type
            BY <2>1, <3>1, Tables DEF IsTable
        <3>3. Good(m) /\ d(m).type \in DataTypes
            BY <1>4, <1>5
        <3>4. QED
            BY <3>2, <3>3 DEF Offers
    <2>3. \A m \in D : Bare(d(m)) => m \in Offers(p, T)
        <3> SUFFICES ASSUME NEW m \in D, Bare(d(m)) PROVE m \in Offers(p, T)
            OBVIOUS
        <3>1. d(m).type \in DataTypes /\ Fits(d(m).type, d(m).value)
            <4>1. WellTyped(p, d(m), DataTypes, Earlier(p.data, m))
                BY <1>5
            <4>2. d(m).value.kind # "inline"
                BY Kinds DEF Bare
            <4>3. Given(p, d(m).value, d(m).type, Earlier(p.data, m))
                BY <4>1, <4>2 DEF WellTyped
            <4>4. QED
                BY <4>1, <4>3, Kinds DEF WellTyped, Given, Known, Bare, Fits
        <3>2. CASE pl(m) < pl(n)
            BY <2>2, <3>2 DEF Earlier
        <3>3. CASE ~(pl(m) < pl(n))
            <4>1. pl(m) > pl(n) - 1
                BY <1>1, <3>3
            <4>2. T[m] = d(m)
                BY <2>1, <4>1, Tables
            <4>3. QED
                BY <3>1, <4>2 DEF Offers
        <3>4. QED
            BY <3>2, <3>3
    <2>4. Usable(p, Earlier(p.data, n)) \subseteq Offers(p, T)
        BY <2>2, <2>3 DEF Usable
    <2>5. QED
        BY <1>1, <1>5, <2>1, <2>4, DeclFits
<1>6. ASSUME \A n \in D : WellTyped(p, d(n), DataTypes, Earlier(p.data, n)) PROVE \A n \in D : Good(n)
    <2> DEFINE Bad == {pl(n) : n \in {n \in D : ~Good(n)}}
    <2>1. SUFFICES ASSUME Bad # {} PROVE FALSE
        OBVIOUS
    <2>2. Bad \subseteq Nat
        BY <1>1
    <2>3. Min(Bad) \in Bad /\ \A y \in Bad : Min(Bad) <= y
        BY <2>1, <2>2, LeastOf
    <2>4. PICK n \in D : ~Good(n) /\ Min(Bad) = pl(n)
        BY <2>3
    <2>5. \A m \in D : pl(m) < pl(n) => Good(m)
        <3> SUFFICES ASSUME NEW m \in D, pl(m) < pl(n), ~Good(m) PROVE FALSE
            OBVIOUS
        <3>1. pl(n) <= pl(m)
            BY <2>3, <2>4
        <3>2. QED
            BY <1>1, <3>1
    <2>6. QED
        BY <1>5, <1>6, <2>4, <2>5
<1>7. Validated(ResolvedData(p)) => Offers(p, ResolvedData(p)) = D
    <2> SUFFICES ASSUME Validated(ResolvedData(p)) PROVE Offers(p, ResolvedData(p)) = D
        OBVIOUS
    <2>1. \A n \in D : d(n).type \in DataTypes /\ Fits(R[L][n].type, R[L][n].value) /\ R[L][n].type = d(n).type
        BY <1>2, <1>3, <1>4 DEF Validated, ResolvedData, IsTable
    <2>2. QED
        BY <2>1 DEF Offers, ResolvedData
<1>8. QED
    BY <1>2, <1>3, <1>4, <1>6, <1>7 DEF ResolvedData

(* So do those over actions and events, once the data are accepted. *)
LEMMA UsesAccepted ==
    ASSUME NEW p \in Text, NEW decls \in Seq(Declaration), NEW registry
    PROVE  Validated(ResolvedData(p)) =>
               (Validated(ResolvedUses(p, decls, registry)) <=>
                    \A n \in Declared(decls) : WellTyped(p, Decl(decls, n), registry, Declared(p.data)))
<1> SUFFICES ASSUME Validated(ResolvedData(p))
             PROVE  Validated(ResolvedUses(p, decls, registry)) <=>
                        \A n \in Declared(decls) : WellTyped(p, Decl(decls, n), registry, Declared(p.data))
    OBVIOUS
<1> DEFINE F == ResolvedData(p)
           U == ResolvedUses(p, decls, registry)
<1>1. p.data \in Seq(Declaration)
    BY DEF Text
<1>2. IsTable(p, F) /\ Offers(p, F) = Declared(p.data)
    BY <1>1, DataAccepted
<1>3. Usable(p, Declared(p.data)) = Declared(p.data)
    BY DEF Usable
<1>4. ASSUME NEW n \in Declared(decls)
      PROVE  Fits(U[n].type, U[n].value) <=> WellTyped(p, Decl(decls, n), registry, Declared(p.data))
    <2> DEFINE d == Decl(decls, n)
               v == ResolveDecl(F, d, registry)
    <2>1. d \in Declaration
        BY <1>1, Declarations
    <2>2. U[n] = [d EXCEPT !.value = v]
        BY DEF ResolvedUses
    <2>3. U[n].type = d.type /\ U[n].value = v
        <3> HIDE DEF d, v
        <3>1. QED
            BY <2>1, <2>2 DEF Declaration
    <2>4. Fits(d.type, v) <=> WellTyped(p, d, registry, Declared(p.data))
        <3> HIDE DEF F, d
        <3>1. QED
            BY <1>2, <1>3, <2>1, DeclFits
    <2>5. QED
        BY <2>3, <2>4
<1>5. DOMAIN U = Declared(decls)
    BY DEF ResolvedUses
<1>6. QED
    BY <1>4, <1>5 DEF Validated

(* What the three passes accept is what text says is well formed. *)
LEMMA AcceptedIsWellFormed ==
    ASSUME NEW p \in Text
    PROVE  Accepted(p) <=> WellFormed(p)
<1>1. p.data \in Seq(Declaration) /\ p.actions \in Seq(Declaration) /\ p.events \in Seq(Declaration)
    BY DEF Text
<1>2. QED
    BY <1>1, DataAccepted, UsesAccepted DEF Accepted, WellFormed, ResolvedActions, ResolvedEvents

----------------------------------------------------------------------------
(* The FSM over the result. *)
CompilerInv ==
    /\ program \in Program
    /\ state # "none" => result = BuildMission(program)
    /\ state \notin {"none", "terminate", "crashed"} => result.accepted /\ state \in Name
    /\ Closed(program) => state \in {"none", "terminate"} \cup Declared(program.actions)

(* The transitions of an accepted program lead where the last of its rules says. *)
LEMMA TransitionIsRule ==
    ASSUME NEW p \in Text, NEW a, NEW e
    PROVE  \/ Transition(p, a, e) = "terminate"
           \/ /\ Ruled(p, a, Transition(p, a, e)) /\ Transition(p, a, e) \in Name
              /\ \E r \in ToSet(p.rules) : Transition(p, a, e) = r.next
<1> DEFINE S == RulesFor(p, a, e)
           i == Max(S)
<1>1. p.rules \in Seq(Rule)
    BY DEF Text
<1>2. DOMAIN p.rules = 1..Len(p.rules) /\ Len(p.rules) \in Nat /\ \A j \in DOMAIN p.rules : p.rules[j] \in Rule
    BY <1>1, LenProperties, ElementOfSeq
<1>3. CASE S = {}
    BY <1>3 DEF Transition
<1>4. CASE S # {}
    <2>1. S \subseteq 1..Len(p.rules)
        BY <1>2 DEF RulesFor
    <2>2. i \in S /\ \A j \in S : i >= j
        BY <1>2, <1>4, <2>1, GreatestOf
    <2> HIDE DEF i
    <2>3. Transition(p, a, e) = p.rules[i].next
        BY <1>4 DEF Transition, i
    <2>4. i \in DOMAIN p.rules /\ p.rules[i].action = a /\ p.rules[i].event = e
        BY <2>2 DEF RulesFor
    <2>5. \A j \in DOMAIN p.rules : j > i => <<p.rules[j].action, p.rules[j].event>> # <<a, e>>
        BY <1>2, <2>2, <2>4 DEF RulesFor
    <2>6. p.rules[i].next \in Name \cup {"terminate"}
        BY <1>2, <2>4 DEF Rule
    <2>7. p.rules[i] \in ToSet(p.rules)
        BY <2>4 DEF ToSet
    <2>8. QED
        BY <2>3, <2>4, <2>5, <2>6, <2>7 DEF Ruled
<1>5. QED
    BY <1>3, <1>4

(* Of an accepted, closed program every action that is reached can be run. *)
LEMMA CrashesOpen ==
    ASSUME CompilerInv, WalkCrashes
    PROVE  ~Closed(program)
<1> SUFFICES ASSUME Closed(program) PROVE Runs(state)
    BY DEF WalkCrashes
<1>1. state \in Declared(program.actions)
    BY DEF CompilerInv, WalkCrashes
<1>2. result = BuildMission(program) /\ result.accepted
    BY DEF CompilerInv, WalkCrashes
<1>3. /\ result.actions = ResolvedActions(program) /\ result.events = ResolvedEvents(program)
      /\ result.transitions = Transitions(program)
    BY <1>2 DEF BuildMission, NoMission
<1>4. DOMAIN result.actions = Declared(program.actions) /\ DOMAIN result.events = Declared(program.events)
    BY <1>3 DEF ResolvedUses, ResolvedActions, ResolvedEvents
<1>5. Listed(state) = EventsOf(program, state)
    BY <1>1, <1>3 DEF Listed, Transitions
<1>6. EventsOf(program, state) \ {"done"} \subseteq Declared(program.events)
    BY DEF EventsOf, Closed
<1>7. QED
    BY <1>1, <1>4, <1>5, <1>6 DEF Runs

(* Compiling and every step of the walk keep what is known of the mission. *)
LEMMA CompilerStep == CompilerInv /\ [CompilerNext]_compilerVars => CompilerInv'
<1> SUFFICES ASSUME CompilerInv, [CompilerNext]_compilerVars PROVE CompilerInv'
    OBVIOUS
<1>0. program \in Text /\ "none" \notin Name /\ "terminate" \notin Name /\ "crashed" \notin Name
    BY ProgramAssumption DEF CompilerInv
<1>1. CASE Compile
    <2>1. program.start \in Name \cup {"terminate"}
        BY <1>0 DEF Text
    <2>2. result' = BuildMission(program) /\ UNCHANGED program
        BY <1>1 DEF Compile
    <2>3. CASE result'.accepted
        BY <1>0, <1>1, <2>1, <2>2, <2>3 DEF Compile, CompilerInv, Closed
    <2>4. CASE ~result'.accepted
        BY <1>0, <1>1, <2>2, <2>4 DEF Compile, CompilerInv
    <2>5. QED
        BY <2>3, <2>4
<1>2. CASE Walk
    <2>1. PICK e \in Listed(state) : state' = result.transitions[state][e]
        BY <1>2 DEF Walk
    <2>2. result = BuildMission(program) /\ result.accepted /\ UNCHANGED <<program, result>>
        BY <1>2 DEF Walk, CompilerInv
    <2>3. result.transitions = Transitions(program)
        BY <2>2 DEF BuildMission, NoMission
    <2>4. state' = Transition(program, state, e)
        BY <2>1, <2>3 DEF Listed, Transitions
    <2>5. state' = "terminate" \/ (state' \in Name /\ \E r \in ToSet(program.rules) : state' = r.next)
        BY <1>0, <2>4, TransitionIsRule
    <2>6. Closed(program) => state' \in {"terminate"} \cup Declared(program.actions)
        BY <2>5 DEF Closed
    <2>7. QED
        BY <1>0, <2>2, <2>5, <2>6 DEF CompilerInv
<1>3. CASE WalkCrashes
    <2>1. state \in Name /\ ~Closed(program)
        BY <1>3, CrashesOpen DEF WalkCrashes, CompilerInv
    <2>2. QED
        BY <1>3, <2>1 DEF WalkCrashes, CompilerInv
<1>4. CASE UNCHANGED compilerVars
    BY <1>4 DEF compilerVars, CompilerInv
<1>5. QED
    BY <1>1, <1>2, <1>3, <1>4 DEF CompilerNext

(* transformer.py and fsm.py: whatever the file, the mission the FSM walks is the one compiled
   from it, and the walk of a closed program stays among its actions. *)
LEMMA MissionIsCompiled == CompilerSpec => []CompilerInv
<1>1. CompilerInit => CompilerInv
    BY DEF CompilerInit, CompilerInv
<1>2. QED
    BY <1>1, CompilerStep, PTL DEF CompilerSpec

(* resolver.py and validator.py: for any number of declarations in any order, with names declared
   twice, too late or not at all, the passes accept just the files that are well formed. *)
THEOREM CompilerAccepts == CompilerSpec => []AcceptsWellFormed
<1>1. CompilerInv => AcceptsWellFormed
    <2> SUFFICES ASSUME CompilerInv, state # "none" PROVE result.accepted = WellFormed(program)
        BY DEF AcceptsWellFormed
    <2>1. result = BuildMission(program) /\ program \in Text
        BY ProgramAssumption DEF CompilerInv
    <2>2. Accepted(program) <=> WellFormed(program)
        BY <2>1, AcceptedIsWellFormed
    <2>3. WellFormed(program) \in BOOLEAN
        BY DEF WellFormed
    <2>4. CASE Accepted(program)
        <3>1. result.accepted = TRUE
            BY <2>1, <2>4 DEF BuildMission
        <3>2. QED
            BY <2>2, <2>3, <2>4, <3>1
    <2>5. CASE ~Accepted(program)
        <3>1. result.accepted = FALSE
            BY <2>1, <2>5 DEF BuildMission, NoMission
        <3>2. QED
            BY <2>2, <2>3, <2>5, <3>1
    <2>6. QED
        BY <2>4, <2>5
<1>2. QED
    BY <1>1, MissionIsCompiled, PTL

(* fsm.py: a mission goes from an action to another by the last rule of its file for the two, and
   the walk crashes at a name only if the file is not closed, for any file. *)
THEOREM WalkFollowsRules == CompilerSpec => StepsAreRules
<1>1. CompilerInv /\ [CompilerNext]_compilerVars =>
          [/\ {state, state'} \subseteq Name => Ruled(program, state, state')
           /\ state' = "crashed" => ~Closed(program)]_compilerVars
    <2> SUFFICES ASSUME CompilerInv, CompilerNext
                 PROVE  /\ {state, state'} \subseteq Name => Ruled(program, state, state')
                        /\ state' = "crashed" => ~Closed(program)
        OBVIOUS
    <2>0. program \in Text /\ "none" \notin Name /\ "terminate" \notin Name /\ "crashed" \notin Name
        BY ProgramAssumption DEF CompilerInv
    <2>1. CASE Compile
        <3>1. state = "none" /\ state' \in Name \cup {"terminate"}
            BY <2>0, <2>1 DEF Compile, Text
        <3>2. QED
            BY <2>0, <3>1
    <2>2. CASE Walk
        <3>1. PICK e \in Listed(state) : state' = result.transitions[state][e]
            BY <2>2 DEF Walk
        <3>2. result.transitions = Transitions(program)
            BY <2>2 DEF Walk, CompilerInv, BuildMission, NoMission
        <3>3. state' = Transition(program, state, e)
            BY <3>1, <3>2 DEF Listed, Transitions
        <3>4. state' = "terminate" \/ (Ruled(program, state, state') /\ state' \in Name)
            BY <2>0, <3>3, TransitionIsRule
        <3>5. QED
            BY <2>0, <3>4
    <2>3. CASE WalkCrashes
        <3>1. state' = "crashed" /\ ~Closed(program)
            BY <2>3, CrashesOpen DEF WalkCrashes
        <3>2. QED
            BY <2>0, <3>1
    <2>4. QED
        BY <2>1, <2>2, <2>3 DEF CompilerNext
<1>2. QED
    BY <1>1, MissionIsCompiled, PTL DEF CompilerSpec, StepsAreRules

----------------------------------------------------------------------------
(***************************************************************************)
(* The store, the actions and the compiler side by side.                   *)
(***************************************************************************)

(* What they do together is, for each of them, a behaviour of its own: a step of one is no step
   of another, and what is proved of one alone holds where they run together. *)
THEOREM SdkPartsApart == Spec => StoreSpec /\ ActionsSpec /\ CompilerSpec
<1>1. Init => StoreInit /\ ActionsInit /\ CompilerInit
    BY DEF Init
<1>2. ASSUME [Next]_<<storeVars, actionsVars, compilerVars, part>>
      PROVE  [StoreNext]_storeVars /\ [ActionsNext]_actionsVars /\ [CompilerNext]_compilerVars
    BY <1>2 DEF Next
<1>3. QED
    BY <1>1, <1>2, PTL DEF Spec, LoopSpec, StoreSpec, ActionsSpec, CompilerSpec

(* The store and the calls of the actions keep their types, whatever else a mission does. *)
THEOREM SdkTyped == Spec => []TypesOK
<1>1. ActionsSpec => []ActionsTypeOK
    <2>1. ActionsInit => ActionsInv
        BY ActionsStart
    <2>2. ActionsInv => ActionsTypeOK
        BY DEF ActionsInv
    <2>3. QED
        BY <2>1, <2>2, ActionsStep, PTL DEF ActionsSpec
<1>2. QED
    BY <1>1, SdkPartsApart, StoreTypes, PTL DEF TypesOK
=============================================================================
