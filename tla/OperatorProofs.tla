--------------------------- MODULE OperatorProofs ---------------------------
(***************************************************************************)
(* Proofs about the parts an operator starts and works with, for any       *)
(* number of runs of the wizard, signals, keys, inputs and vehicles.       *)
(***************************************************************************)
EXTENDS MCOperator, TLAPS, FiniteSetTheorems, SequenceTheorems

----------------------------------------------------------------------------
(***************************************************************************)
(* The setup wizard.  Before the directory is made there are no files, and *)
(* whoever writes is the run that made it: all files are of this one run.  *)
(* Until it writes no file is of the present run, and from the download on *)
(* a run that will name the coco model has it.                             *)
(***************************************************************************)
WizardInv ==
    /\ runs \in Nat /\ written \in 0..3
    /\ wizard \in {"off", "ask", "download", "passwords", "mkdir", "write"}
    /\ model \in {"coco", "custom"} /\ redisDir \in BOOLEAN
    /\ files \in [Files -> [run : Nat, torn : BOOLEAN, model : {"none", "coco", "custom"}]]
    /\ \A f \in Files : files[f].run <= runs /\ (files[f].model = "coco" => files[f].run > 0)
    /\ ~redisDir => \A f \in Files : files[f] = None
    /\ wizard \in {"ask", "download", "passwords", "mkdir"} =>
          \A f \in Files : files[f].run < runs
    /\ wizard = "write" => redisDir /\ runs > 0 /\ \A f \in Files : files[f].run \in {0, runs}
    /\ wizard \in {"passwords", "mkdir", "write"} /\ model = "coco" => downloaded = "whole"
    /\ SamePasswords

(* Whichever file of the template is next, it is one of the three. *)
LEMMA FilesWritten == \A n \in 0..3 : n < Len(Template) => Template[n + 1] \in Files
<1>1. Len(Template) = 3 /\ DOMAIN Template = 1..3
    BY DEF Template
<1>2. QED
    BY <1>1 DEF Files

(* Every step of the wizard, its failure and its next run keep the invariant. *)
LEMMA WizardStep == WizardInv /\ [WizardNext]_wizardVars => WizardInv'
<1> SUFFICES ASSUME WizardInv, [WizardNext]_wizardVars PROVE WizardInv'
    OBVIOUS
<1> USE DEF WizardInv, SamePasswords
<1>1. CASE RunWizard
    BY <1>1 DEF RunWizard
<1>2. CASE ChooseCoco
    BY <1>2 DEF ChooseCoco
<1>3. CASE ChooseCustom
    BY <1>3 DEF ChooseCustom
<1>4. CASE Download
    BY <1>4 DEF Download
<1>5. CASE DownloadFails
    BY <1>5 DEF DownloadFails
<1>6. CASE Passwords
    BY <1>6 DEF Passwords
<1>7. CASE MakeRedisDir
    <2>1. redisDir' = TRUE /\ UNCHANGED <<runs, model, downloaded, written, files>> /\ wizard = "mkdir"
        BY <1>7 DEF MakeRedisDir
    <2>2. CASE redisDir
        <3>1. wizard' = "off"
            BY <1>7, <2>2 DEF MakeRedisDir
        <3>2. QED
            BY <2>1, <3>1
    <2>3. CASE ~redisDir
        <3>1. wizard' = "write"
            BY <1>7, <2>3 DEF MakeRedisDir
        <3>2. \A f \in Files : files[f].run = 0
            BY <2>3 DEF None
        <3>3. runs > 0 \/ Files = {}
            BY <2>1, <3>2
        <3>4. 1 \in DOMAIN Template
            BY DEF Template
        <3>5. runs > 0
            BY <3>3, <3>4 DEF Files
        <3>6. QED
            BY <2>1, <3>1, <3>2, <3>5
    <2>4. QED
        BY <2>2, <2>3
<1>8. CASE WriteTemplate
    <2> DEFINE f == Template[written + 1]
    <2>1. f \in Files /\ Len(Template) = 3
        BY <1>8, FilesWritten DEF WriteTemplate, Template
    <2> HIDE DEF f
    <2>2. files' = [files EXCEPT ![f] = [run |-> runs, torn |-> FALSE, model |-> model]]
        BY <1>8 DEF WriteTemplate, f
    <2>3. \A g \in Files : files'[g] = IF g = f THEN [run |-> runs, torn |-> FALSE, model |-> model]
                                      ELSE files[g]
        BY <2>1, <2>2
    <2>4. files' \in [Files -> [run : Nat, torn : BOOLEAN, model : {"none", "coco", "custom"}]]
        BY <2>1, <2>2
    <2>5. QED
        BY <1>8, <2>1, <2>3, <2>4 DEF WriteTemplate
<1>9. CASE WriteFails
    <2> DEFINE f == Template[written + 1]
    <2>1. f \in Files
        BY <1>9, FilesWritten DEF WriteFails, Template
    <2> HIDE DEF f
    <2>2. files' = [files EXCEPT ![f] = [run |-> runs, torn |-> TRUE, model |-> model]]
        BY <1>9 DEF WriteFails, f
    <2>3. \A g \in Files : files'[g] = IF g = f THEN [run |-> runs, torn |-> TRUE, model |-> model]
                                      ELSE files[g]
        BY <2>1, <2>2
    <2>4. files' \in [Files -> [run : Nat, torn : BOOLEAN, model : {"none", "coco", "custom"}]]
        BY <2>1, <2>2
    <2>5. QED
        BY <1>9, <2>1, <2>3, <2>4 DEF WriteFails
<1>10. CASE WizardKilled
    BY <1>10 DEF WizardKilled
<1>11. CASE UNCHANGED wizardVars
    BY <1>11 DEF wizardVars
<1>12. QED
    BY <1>1, <1>2, <1>3, <1>4, <1>5, <1>6, <1>7, <1>8, <1>9, <1>10, <1>11 DEF WizardNext

(* However often the wizard fails, is killed and run again (setup_wizard.py), the files it
   leaves have the passwords of one run, and the coco model they name was downloaded. *)
THEOREM PasswordsAgree == WizardSpec => []SamePasswords
<1>1. WizardInit => WizardInv
    <2> SUFFICES ASSUME WizardInit PROVE WizardInv
        OBVIOUS
    <2>1. \A f \in Files : files[f] = None /\ files[f].run = 0 /\ files[f].model = "none"
        BY DEF WizardInit, None
    <2>2. files \in [Files -> [run : Nat, torn : BOOLEAN, model : {"none", "coco", "custom"}]]
        BY DEF WizardInit, None
    <2>3. SamePasswords
        BY <2>1 DEF SamePasswords
    <2>4. redisDir = FALSE /\ wizard = "off"
        BY DEF WizardInit
    <2>5. redisDir \in BOOLEAN
        BY <2>4
    <2>6. runs \in Nat /\ written \in 0..3 /\ model = "coco"
        BY DEF WizardInit
    <2>7. \A f \in Files : files[f].run <= runs /\ (files[f].model = "coco" => files[f].run > 0)
        BY <2>1, <2>6
    <2>8. QED
        BY <2>1, <2>2, <2>3, <2>4, <2>5, <2>6, <2>7 DEF WizardInv
<1>2. WizardInv => SamePasswords
    BY DEF WizardInv
<1>3. QED
    BY <1>1, <1>2, WizardStep, PTL DEF WizardSpec

----------------------------------------------------------------------------
(***************************************************************************)
(* The command-line ground station.  Commands that were sent, tasks, the   *)
(* key that is compiled, the queue and what the thread has posted follow   *)
(* one another in the order of the keys, each for itself in order.         *)
(***************************************************************************)
Keys(s) == {s[i] : i \in 1..Len(s)}
Rising(s) == \A i, j \in 1..Len(s) : i < j => s[i] < s[j]
Before(A, B) == \A a \in A, b \in B : a < b
Compiling == IF consumer \in {"prompt", "compile"} THEN {compiling} ELSE {}

KeysInv ==
    /\ hit \in Nat /\ compiling \in Nat
    /\ called \in Seq(Nat) /\ tasks \in Seq(Nat) /\ queue \in Seq(Nat) /\ posted \in Seq(Nat)
    /\ Rising(called) /\ Rising(tasks) /\ Rising(queue) /\ Rising(posted)
    /\ Before(Keys(called), Keys(tasks) \cup Compiling \cup Keys(queue) \cup Keys(posted))
    /\ Before(Keys(tasks), Compiling \cup Keys(queue) \cup Keys(posted))
    /\ Before(Compiling, Keys(queue) \cup Keys(posted))
    /\ Before(Keys(queue), Keys(posted))
    /\ \A k \in Keys(called) \cup Keys(tasks) \cup Compiling \cup Keys(queue) \cup Keys(posted) :
          k \in Nat /\ k <= hit

(* A key is put behind those of a sequence ... *)
LEMMA Put ==
    ASSUME NEW s \in Seq(Nat), NEW k \in Nat, Rising(s), Before(Keys(s), {k})
    PROVE  Append(s, k) \in Seq(Nat) /\ Rising(Append(s, k)) /\ Keys(Append(s, k)) = Keys(s) \cup {k}
<1> DEFINE r == Append(s, k)
           n == Len(s)
<1>1. /\ n \in Nat /\ r \in Seq(Nat) /\ Len(r) = n + 1
      /\ \A i \in 1..n : r[i] = s[i]
      /\ r[n + 1] = k
    BY AppendProperties, LenProperties
<1>2. 1..(n + 1) = 1..n \cup {n + 1} /\ \A i \in 1..n : ~(n + 1 < i)
    BY <1>1
<1>3. \A i \in 1..n : s[i] < k
    BY DEF Before, Keys
<1>4. Keys(r) = Keys(s) \cup {k}
    BY <1>1, <1>2 DEF Keys
<1>5. Rising(r)
    BY <1>1, <1>2, <1>3 DEF Rising
<1>6. QED
    BY <1>1, <1>4, <1>5

(* ... and the first one is taken. *)
LEMMA Taken ==
    ASSUME NEW s \in Seq(Nat), s # <<>>, Rising(s)
    PROVE  /\ Tail(s) \in Seq(Nat) /\ Rising(Tail(s)) /\ Head(s) \in Nat
           /\ Keys(s) = {Head(s)} \cup Keys(Tail(s)) /\ Before({Head(s)}, Keys(Tail(s)))
<1> DEFINE r == Tail(s)
           n == Len(s)
<1>1. /\ n \in Nat \ {0} /\ r \in Seq(Nat) /\ Len(r) = n - 1
      /\ \A i \in 1..(n - 1) : r[i] = s[i + 1]
      /\ Head(s) = s[1] /\ Head(s) \in Nat
    BY HeadTailProperties, LenProperties, EmptySeq
<1>2. /\ 1 \in 1..n /\ \A i \in 1..(n - 1) : i + 1 \in 1..n /\ 1 < i + 1
      /\ \A i \in 1..n : i # 1 => i - 1 \in 1..(n - 1) /\ (i - 1) + 1 = i
    BY <1>1
<1>3. Keys(s) = {Head(s)} \cup Keys(r)
    <2>1. \A i \in 1..n : s[i] \in {Head(s)} \cup Keys(r)
        BY <1>1, <1>2 DEF Keys
    <2>2. \A i \in 1..(n - 1) : r[i] \in Keys(s)
        BY <1>1, <1>2 DEF Keys
    <2>3. QED
        BY <1>1, <1>2, <2>1, <2>2 DEF Keys
<1>4. Before({Head(s)}, Keys(r))
    BY <1>1, <1>2 DEF Before, Keys, Rising
<1>5. Rising(r)
    <2> SUFFICES ASSUME NEW i \in 1..Len(r), NEW j \in 1..Len(r), i < j PROVE r[i] < r[j]
        BY DEF Rising
    <2>1. i + 1 \in 1..n /\ j + 1 \in 1..n /\ i + 1 < j + 1
        BY <1>1
    <2>2. s[i + 1] < s[j + 1]
        BY <2>1 DEF Rising
    <2>3. QED
        BY <1>1, <2>2
<1>6. QED
    BY <1>1, <1>3, <1>4, <1>5

(* Every key, every answer at a prompt and every turn of the loop keep the invariant. *)
LEMMA CliStep == KeysInv /\ [CliNext]_cliVars => KeysInv'
<1> SUFFICES ASSUME KeysInv, [CliNext]_cliVars PROVE KeysInv'
    OBVIOUS
<1>0. Keys(<<>>) = {} /\ Rising(<<>>) /\ <<>> \in Seq(Nat)
    BY DEF Keys, Rising
<1> USE DEF KeysInv, Compiling, Before
<1>1. CASE Check
    BY <1>1 DEF Check
<1>2. CASE ReadKey
    <2>1. hit + 1 \in Nat
        OBVIOUS
    <2>2. /\ Append(posted, hit + 1) \in Seq(Nat) /\ Rising(Append(posted, hit + 1))
          /\ Keys(Append(posted, hit + 1)) = Keys(posted) \cup {hit + 1}
        BY <1>2, <2>1, Put DEF ReadKey
    <2>3. \A k \in Nat : k <= hit => k < hit + 1 /\ k <= hit + 1
        OBVIOUS
    <2>4. Before(Keys(called) \cup Keys(tasks) \cup Compiling \cup Keys(queue), Keys(posted) \cup {hit + 1})
        BY <2>3
    <2>5. /\ UNCHANGED <<called, tasks, queue, compiling, Compiling>> /\ hit' = hit + 1
          /\ posted' = Append(posted, hit + 1)
        BY <1>2 DEF ReadKey
    <2> HIDE DEF Compiling
    <2>6. \A k \in Keys(called) \cup Keys(tasks) \cup Compiling \cup Keys(queue) \cup Keys(posted') :
             k \in Nat /\ k <= hit'
        BY <2>1, <2>2, <2>3, <2>5
    <2>7. QED
        BY <2>1, <2>2, <2>4, <2>5, <2>6
<1>3. CASE ReadNothing
    BY <1>3 DEF ReadNothing
<1>4. CASE PutKey
    <2>1. /\ Tail(posted) \in Seq(Nat) /\ Rising(Tail(posted)) /\ Head(posted) \in Nat
          /\ Keys(posted) = {Head(posted)} \cup Keys(Tail(posted)) /\ Before({Head(posted)}, Keys(Tail(posted)))
        BY <1>4, Taken DEF PutKey
    <2>2. /\ Append(queue, Head(posted)) \in Seq(Nat) /\ Rising(Append(queue, Head(posted)))
          /\ Keys(Append(queue, Head(posted))) = Keys(queue) \cup {Head(posted)}
        BY <1>4, <2>1, Put DEF PutKey
    <2>3. QED
        BY <1>4, <2>1, <2>2 DEF PutKey
<1>5. CASE SendCommand
    <2>1. /\ Tail(tasks) \in Seq(Nat) /\ Rising(Tail(tasks)) /\ Head(tasks) \in Nat
          /\ Keys(tasks) = {Head(tasks)} \cup Keys(Tail(tasks)) /\ Before({Head(tasks)}, Keys(Tail(tasks)))
        BY <1>5, Taken DEF SendCommand
    <2>2. /\ Append(called, Head(tasks)) \in Seq(Nat) /\ Rising(Append(called, Head(tasks)))
          /\ Keys(Append(called, Head(tasks))) = Keys(called) \cup {Head(tasks)}
        BY <1>5, <2>1, Put DEF SendCommand
    <2>3. QED
        BY <1>5, <2>1, <2>2 DEF SendCommand
<1>6. CASE WaitForKey
    BY <1>6 DEF WaitForKey
<1>7. CASE Wake
    BY <1>7 DEF Wake
<1>8. CASE TakeCommand
    <2>1. /\ Tail(queue) \in Seq(Nat) /\ Rising(Tail(queue)) /\ Head(queue) \in Nat
          /\ Keys(queue) = {Head(queue)} \cup Keys(Tail(queue)) /\ Before({Head(queue)}, Keys(Tail(queue)))
        BY <1>8, Taken DEF TakeCommand, Taking
    <2>2. /\ Append(tasks, Head(queue)) \in Seq(Nat) /\ Rising(Append(tasks, Head(queue)))
          /\ Keys(Append(tasks, Head(queue))) = Keys(tasks) \cup {Head(queue)}
        BY <1>8, <2>1, Put DEF TakeCommand
    <2>3. QED
        BY <1>8, <2>1, <2>2 DEF TakeCommand, Taking
<1>9. CASE TakeUnknown
    <2>1. /\ Tail(queue) \in Seq(Nat) /\ Rising(Tail(queue)) /\ Head(queue) \in Nat
          /\ Keys(queue) = {Head(queue)} \cup Keys(Tail(queue)) /\ Before({Head(queue)}, Keys(Tail(queue)))
        BY <1>9, Taken DEF TakeUnknown, Taking
    <2>2. QED
        BY <1>9, <2>1 DEF TakeUnknown, Taking
<1>10. CASE TakeCompile
    <2>1. /\ Tail(queue) \in Seq(Nat) /\ Rising(Tail(queue)) /\ Head(queue) \in Nat
          /\ Keys(queue) = {Head(queue)} \cup Keys(Tail(queue)) /\ Before({Head(queue)}, Keys(Tail(queue)))
        BY <1>10, Taken DEF TakeCompile, Taking
    <2>2. QED
        BY <1>10, <2>1 DEF TakeCompile, Taking
<1>11. CASE TakeEscape
    <2>1. /\ Tail(queue) \in Seq(Nat) /\ Rising(Tail(queue)) /\ Head(queue) \in Nat
          /\ Keys(queue) = {Head(queue)} \cup Keys(Tail(queue)) /\ Before({Head(queue)}, Keys(Tail(queue)))
        BY <1>11, Taken DEF TakeEscape, Taking
    <2>2. QED
        BY <1>11, <2>1 DEF TakeEscape, Taking
<1>12. CASE FilesChosen
    BY <1>12 DEF FilesChosen
<1>13. CASE FilesUnreadable
    BY <1>13 DEF FilesUnreadable
<1>14. CASE Compiled
    <2>1. /\ Append(tasks, compiling) \in Seq(Nat) /\ Rising(Append(tasks, compiling))
          /\ Keys(Append(tasks, compiling)) = Keys(tasks) \cup {compiling}
        BY <1>14, Put DEF Compiled
    <2>2. QED
        BY <1>14, <2>1 DEF Compiled
<1>15. CASE CompileFails
    BY <1>15 DEF CompileFails
<1>16. CASE Drain
    BY <1>0, <1>16 DEF Drain
<1>17. CASE PromptRaises
    BY <1>0, <1>17 DEF PromptRaises
<1>18. CASE Close
    BY <1>0, <1>18 DEF Close
<1>19. CASE UNCHANGED cliVars
    BY <1>19 DEF cliVars
<1>20. QED
    BY <1>1, <1>2, <1>3, <1>4, <1>5, <1>6, <1>7, <1>8, <1>9, <1>10, <1>11,
       <1>12, <1>13, <1>14, <1>15, <1>16, <1>17, <1>18, <1>19 DEF CliNext

(* Commands leave cli.py in the order of the keys, the upload of a compiled mission at the
   place of its key, however long the compiler takes and whatever is hit meanwhile. *)
THEOREM KeysInOrder == CliSpec => []CallsInOrder
<1>1. CliInit => KeysInv
    <2>1. Keys(<<>>) = {} /\ Rising(<<>>) /\ <<>> \in Seq(Nat)
        BY DEF Keys, Rising
    <2>2. QED
        BY <2>1 DEF CliInit, KeysInv, Before, Compiling
<1>2. KeysInv => CallsInOrder
    <2> SUFFICES ASSUME KeysInv PROVE CallsInOrder
        OBVIOUS
    <2>1. DOMAIN called = 1..Len(called)
        BY DEF KeysInv
    <2>2. QED
        BY <2>1 DEF KeysInv, Rising, CallsInOrder
<1>3. QED
    BY <1>1, <1>2, CliStep, PTL DEF CliSpec

(* A sequence of keys that were hit: its first one, the others, and one more behind them. *)
LEMMA KeysOf ==
    ASSUME NEW n \in Nat, NEW s \in Seq(1..n)
    PROVE  /\ s # <<>> => Head(s) \in 1..n /\ Tail(s) \in Seq(1..n)
           /\ \A k \in 1..n : Append(s, k) \in Seq(1..n)
           /\ s \in Seq(1..(n + 1))
<1>1. 1..n \subseteq 1..(n + 1)
    OBVIOUS
<1>2. s \in Seq(1..(n + 1))
    BY <1>1, SeqMonotonic
<1>3. s # <<>> => Head(s) \in 1..n /\ Tail(s) \in Seq(1..n)
    BY HeadTailProperties
<1>4. \A k \in 1..n : Append(s, k) \in Seq(1..n)
    BY AppendProperties
<1>5. QED
    BY <1>2, <1>3, <1>4

(* The types, sequence by sequence. *)
CliTyped ==
    /\ hit \in Nat /\ hit <= MaxKeys /\ listener \in {"waiting", "checked"}
    /\ posted \in Seq(1..hit) /\ queue \in Seq(1..hit)
    /\ tasks \in Seq(1..hit) /\ called \in Seq(1..hit)
    /\ compiling \in Nat /\ compiling <= hit
    /\ consumer \in {"take", "wait", "prompt", "compile", "drain", "quit", "closed"}
    /\ paused \in BOOLEAN /\ (paused <=> compiling # 0)
    /\ paused <=> consumer \in {"prompt", "compile", "drain"}
    /\ tty = IF paused \/ consumer = "closed" THEN "cooked" ELSE "raw"

(* Every key, every answer at a prompt and every turn of the loop keep the types. *)
LEMMA CliTypeStep == CliTyped /\ [CliNext]_cliVars => CliTyped'
<1> SUFFICES ASSUME CliTyped, [CliNext]_cliVars PROVE CliTyped'
    OBVIOUS
<1> USE DEF CliTyped
<1>0. <<>> \in Seq(1..hit)
    OBVIOUS
<1>1. CASE Check \/ ReadNothing \/ WaitForKey \/ Wake \/ FilesChosen \/ FilesUnreadable \/ CompileFails
    BY <1>1 DEF Check, ReadNothing, WaitForKey, Wake, FilesChosen, FilesUnreadable, CompileFails
<1>2. CASE ReadKey
    <2>1. hit + 1 \in 1..(hit + 1) /\ hit + 1 \in Nat /\ hit + 1 <= MaxKeys /\ compiling <= hit + 1
        BY <1>2, KeysAssumption DEF ReadKey
    <2>2. /\ queue \in Seq(1..(hit + 1)) /\ tasks \in Seq(1..(hit + 1)) /\ called \in Seq(1..(hit + 1))
          /\ posted \in Seq(1..(hit + 1))
        BY KeysOf
    <2>3. Append(posted, hit + 1) \in Seq(1..(hit + 1))
        BY <2>1, <2>2, KeysOf
    <2>4. QED
        BY <1>2, <2>1, <2>2, <2>3 DEF ReadKey
<1>3. CASE PutKey
    <2>1. Head(posted) \in 1..hit /\ Tail(posted) \in Seq(1..hit)
        BY <1>3, KeysOf DEF PutKey
    <2>2. Append(queue, Head(posted)) \in Seq(1..hit)
        BY <2>1, KeysOf
    <2>3. QED
        BY <1>3, <2>1, <2>2 DEF PutKey
<1>4. CASE SendCommand
    <2>1. Head(tasks) \in 1..hit /\ Tail(tasks) \in Seq(1..hit)
        BY <1>4, KeysOf DEF SendCommand
    <2>2. Append(called, Head(tasks)) \in Seq(1..hit)
        BY <2>1, KeysOf
    <2>3. QED
        BY <1>4, <2>1, <2>2 DEF SendCommand
<1>5. ASSUME Taking
      PROVE  /\ Head(queue) \in 1..hit /\ queue' = Tail(queue) /\ Tail(queue) \in Seq(1..hit)
             /\ Append(tasks, Head(queue)) \in Seq(1..hit) /\ ~paused /\ tty = "raw"
    <2>1. Head(queue) \in 1..hit /\ Tail(queue) \in Seq(1..hit)
        BY <1>5, KeysOf DEF Taking
    <2>2. Append(tasks, Head(queue)) \in Seq(1..hit)
        BY <2>1, KeysOf
    <2>3. QED
        BY <1>5, <2>1, <2>2 DEF Taking
<1>6. CASE TakeCommand
    BY <1>5, <1>6 DEF TakeCommand
<1>7. CASE TakeUnknown
    BY <1>5, <1>7 DEF TakeUnknown
<1>8. CASE TakeCompile
    <2>1. /\ compiling' \in 1..hit /\ hit' = hit /\ consumer' = "prompt" /\ paused' = TRUE
          /\ tty' = "cooked" /\ queue' \in Seq(1..hit) /\ UNCHANGED <<listener, posted, tasks, called>>
        BY <1>5, <1>8 DEF TakeCompile
    <2>2. compiling' \in Nat /\ compiling' # 0 /\ compiling' <= hit'
        BY <2>1
    <2>3. paused' /\ paused' \in BOOLEAN
        BY <2>1
    <2>4. QED
        BY <2>1, <2>2, <2>3
<1>9. CASE TakeEscape
    BY <1>5, <1>9 DEF TakeEscape
<1>10. CASE Compiled
    <2>1. compiling \in 1..hit
        BY <1>10 DEF Compiled
    <2>2. Append(tasks, compiling) \in Seq(1..hit)
        BY <2>1, KeysOf
    <2>3. QED
        BY <1>10, <2>2 DEF Compiled
<1>11. CASE Drain \/ PromptRaises
    <2>1. /\ paused' = FALSE /\ tty' = "raw" /\ compiling' = 0 /\ consumer' \in {"take", "quit"}
          /\ queue' = <<>> /\ UNCHANGED <<hit, listener, posted, tasks, called>>
        BY <1>11 DEF Drain, PromptRaises
    <2>2. ~paused' /\ paused' \in BOOLEAN
        BY <2>1
    <2>3. QED
        BY <1>0, <2>1, <2>2
<1>12. CASE Close
    <2>1. ~paused
        BY <1>12 DEF Close
    <2>2. QED
        BY <1>0, <1>12, <2>1 DEF Close
<1>13. CASE UNCHANGED cliVars
    BY <1>13 DEF cliVars
<1>14. QED
    BY <1>1, <1>2, <1>3, <1>4, <1>6, <1>7, <1>8, <1>9, <1>10, <1>11, <1>12, <1>13 DEF CliNext

(* The terminal is cooked just for the prompts of cli.py and when it ends, and every key in a
   queue is one that was hit, for any number of keys. *)
THEOREM TerminalRestored == CliSpec => []CliTypeOK
<1>1. CliInit => CliTyped
    <2>1. ASSUME CliInit PROVE CliTyped
        <3>1. <<>> \in Seq(1..hit)
            OBVIOUS
        <3>2. hit = 0 /\ compiling = 0 /\ 0 <= MaxKeys
            BY <2>1, KeysAssumption DEF CliInit
        <3>3. ~paused /\ paused \in BOOLEAN
            BY <2>1 DEF CliInit
        <3>4. QED
            BY <2>1, <3>1, <3>2, <3>3 DEF CliInit, CliTyped
    <2>2. QED
        BY <2>1
<1>2. CliTyped => CliTypeOK
    <2>1. ASSUME CliTyped PROVE CliTypeOK
        <3>1. hit \in 0..MaxKeys /\ compiling \in 0..hit
            BY <2>1, KeysAssumption DEF CliTyped
        <3>2. paused = (compiling # 0) /\ paused = (consumer \in {"prompt", "compile", "drain"})
            BY <2>1 DEF CliTyped
        <3>3. QED
            BY <2>1, <3>1, <3>2 DEF CliTyped, CliTypeOK
    <2>2. QED
        BY <2>1
<1>3. QED
    BY <1>1, <1>2, CliTypeStep, PTL DEF CliSpec

----------------------------------------------------------------------------
(***************************************************************************)
(* The launcher.  What it starts has the logger in front, what it ends has *)
(* it at the end; all it has waited for are dead.  So the logger is ended  *)
(* when nothing else is left that runs.                                    *)
(***************************************************************************)
Listed(p) == \E i \in 1..Len(running) : running[i] = p

LaunchTyped ==
    /\ plan \in Seq(Process) /\ running \in Seq(Process)
    /\ process \in [Process -> {"none", "starting", "up", "ending", "dead"}]
    /\ launcher \in {"start", "wait", "stop", "done", "lost", "early", "twice"}
    /\ at \in Nat \ {0} /\ lost \in BOOLEAN /\ spoiled \in BOOLEAN

LoggerFirst ==
    launcher = "start" =>
        /\ at = 1 /\ (plan # <<>> \/ running # <<>>)
        /\ \A i \in 1..Len(running) : running[i] = "logger" => i = 1
        /\ \A i \in 1..Len(plan) : plan[i] = "logger" => i = 1 /\ running = <<>>
        /\ ~spoiled => process["logger"] \notin {"ending", "dead"}

LoggerLast ==
    launcher \in {"wait", "stop"} =>
        /\ at \in 1..Len(running)
        /\ \A i \in 1..Len(running) : running[i] = "logger" => i = Len(running)
        /\ \A i \in 1..Len(running) : i < at => process[running[i]] = "dead"

LogClosed == process["logger"] \in {"ending", "dead"}
LoggerAlone == LogClosed /\ ~spoiled => \A p \in Process \ {"logger"} : process[p] \in {"none", "dead"}

LaunchInv ==
    /\ LaunchTyped /\ LoggerFirst /\ LoggerLast /\ LoggerAlone /\ LogKept
    /\ \A p \in Process : process[p] # "none" => Listed(p)

(* The logger is one of the processes. *)
LEMMA Logger == "logger" \in Process
    BY DEF Process

(* Every step of the launcher, of a signal and of a process keeps the invariant. *)
LEMMA LaunchStep == LaunchInv /\ [LauncherNext]_launcherVars => LaunchInv'
<1> SUFFICES ASSUME LaunchInv, [LauncherNext]_launcherVars PROVE LaunchInv'
    OBVIOUS
<1> USE Logger DEF LaunchInv
<1>1. CASE StartNext
    <2> DEFINE p == Head(plan)
    <2>1. launcher = "start" /\ launcher' = launcher /\ UNCHANGED <<at, lost, spoiled>>
        BY <1>1 DEF StartNext
    <2>2. /\ p \in Process /\ plan' \in Seq(Process) /\ Len(plan') = Len(plan) - 1
          /\ \A i \in 1..Len(plan') : plan'[i] = plan[i + 1]
          /\ p = plan[1] /\ Len(plan) \in Nat \ {0}
        BY <1>1, HeadTailProperties, LenProperties, EmptySeq DEF StartNext, LaunchTyped
    <2>3. running' = Append(running, p) /\ process' = [process EXCEPT ![p] = "starting"]
        BY <1>1 DEF StartNext
    <2> HIDE DEF p
    <2>4. /\ running' \in Seq(Process) /\ Len(running') = Len(running) + 1 /\ Len(running) \in Nat
          /\ \A i \in 1..Len(running) : running'[i] = running[i]
          /\ running'[Len(running) + 1] = p
        BY <2>2, <2>3, AppendProperties, LenProperties DEF LaunchTyped
    <2>5. LaunchTyped'
        BY <2>1, <2>2, <2>3, <2>4 DEF LaunchTyped
    <2>6. \A i \in 1..Len(plan') : plan'[i] # "logger"
        <3>1. \A i \in 1..Len(plan') : i + 1 \in 1..Len(plan) /\ i + 1 # 1
            BY <2>2
        <3>2. QED
            BY <2>1, <2>2, <3>1 DEF LoggerFirst
    <2>7. p = "logger" => Len(running) = 0
        <3>1. 1 \in 1..Len(plan)
            BY <2>2
        <3>2. p = "logger" => running = <<>>
            BY <2>1, <2>2, <3>1 DEF LoggerFirst
        <3>3. QED
            BY <3>2
    <2>8. LoggerFirst'
        <3>1. running' # <<>>
            BY <2>4, EmptySeq
        <3>2. \A i \in 1..Len(running') : running'[i] = "logger" => i = 1
            <4>1. \A i \in 1..Len(running') : i \in 1..Len(running) \/ i = Len(running) + 1
                BY <2>4
            <4>2. QED
                BY <2>1, <2>4, <2>7, <4>1 DEF LoggerFirst
        <3>3. ~spoiled => process'["logger"] \notin {"ending", "dead"}
            BY <2>1, <2>2, <2>3 DEF LoggerFirst, LaunchTyped
        <3>4. QED
            BY <2>1, <2>6, <3>1, <3>2, <3>3 DEF LoggerFirst
    <2>9. LoggerAlone'
        BY <2>1, <2>2, <2>3 DEF LoggerAlone, LoggerFirst, LogClosed, LaunchTyped
    <2>10. \A q \in Process : process'[q] # "none" => Listed(q)'
        <3>1. \A i \in 1..Len(running) : i \in 1..Len(running')
            BY <2>4
        <3>2. Len(running) + 1 \in 1..Len(running')
            BY <2>4
        <3>3. \A q \in Process : Listed(q) \/ q = p => Listed(q)'
            BY <2>4, <3>1, <3>2 DEF Listed
        <3>4. QED
            BY <2>2, <2>3, <3>3 DEF LaunchTyped
    <2>11. QED
        BY <2>1, <2>5, <2>8, <2>9, <2>10 DEF LoggerLast, LogKept
<1>2. CASE PackageMissing
    BY <1>2 DEF PackageMissing, LaunchTyped, LoggerFirst, LoggerLast, LoggerAlone, LogClosed, LogKept, Listed
<1>3. CASE AllStarted
    <2> DEFINE n == Len(running)
    <2>1. /\ launcher = "start" /\ launcher' = "wait" /\ at = 1
          /\ UNCHANGED <<plan, process, at, told, signals, spoiled, lost>>
        BY <1>3 DEF AllStarted, LoggerFirst
    <2>2. n \in Nat \ {0}
        BY <1>3, <2>1, LenProperties, EmptySeq DEF AllStarted, LoggerFirst, LaunchTyped
    <2>3. running' = [i \in 1..n |-> running[n - i + 1]]
        BY <1>3 DEF AllStarted, Reverse
    <2>4. \A i \in 1..n : n - i + 1 \in 1..n /\ n - (n - i + 1) + 1 = i
        BY <2>2
    <2>5. \A i \in 1..n : running[i] \in Process
        BY ElementOfSeq DEF LaunchTyped
    <2>6. running' \in Seq(Process) /\ Len(running') = n
        <3>1. running' \in [1..n -> Process]
            BY <2>3, <2>4, <2>5
        <3>2. QED
            BY <2>2, <3>1, IsASeq, LenProperties
    <2> HIDE DEF n
    <2>7. \A i \in 1..n : running'[i] = running[n - i + 1]
        BY <2>3
    <2>8. \A i \in 1..n : running'[i] = "logger" => i = n
        <3> SUFFICES ASSUME NEW i \in 1..n, running'[i] = "logger" PROVE i = n
            OBVIOUS
        <3>1. n - i + 1 = 1
            BY <2>1, <2>4, <2>7 DEF LoggerFirst, n
        <3>2. QED
            BY <2>2, <3>1
    <2>9. \A p \in Process : Listed(p) => Listed(p)'
        <3> SUFFICES ASSUME NEW p \in Process, NEW i \in 1..n, running[i] = p PROVE Listed(p)'
            BY DEF Listed, n
        <3>1. n - i + 1 \in 1..n /\ running'[n - i + 1] = p
            BY <2>4, <2>7
        <3>2. QED
            BY <2>6, <3>1 DEF Listed
    <2>10. LaunchTyped'
        BY <2>1, <2>6 DEF LaunchTyped
    <2>11. LoggerLast'
        <3>1. at' \in 1..Len(running') /\ \A i \in 1..Len(running') : ~(i < at')
            BY <2>1, <2>2, <2>6
        <3>2. QED
            BY <2>6, <2>8, <3>1 DEF LoggerLast
    <2>12. QED
        BY <2>1, <2>9, <2>10, <2>11 DEF LoggerFirst, LoggerAlone, LogClosed, LogKept
<1>4. CASE Waited
    <2>1. /\ launcher \in {"wait", "stop"} /\ at \in 1..Len(running) /\ process[running[at]] = "dead"
          /\ UNCHANGED <<plan, running, process, spoiled, lost>> /\ Len(running) \in Nat
        BY <1>4, LenProperties DEF Waited, Awaited, LoggerLast, LaunchTyped
    <2>2. CASE at = Len(running)
        BY <1>4, <2>1, <2>2 DEF Waited, LaunchTyped, LoggerFirst, LoggerLast, LoggerAlone, LogClosed,
                                LogKept, Listed
    <2>3. CASE at # Len(running)
        <3>1. at' = at + 1 /\ launcher' = launcher
            BY <1>4, <2>3 DEF Waited
        <3>2. at + 1 \in 1..Len(running) /\ \A i \in 1..Len(running) : i < at + 1 => i < at \/ i = at
            BY <2>1, <2>3
        <3>3. LoggerLast'
            BY <2>1, <3>1, <3>2 DEF LoggerLast
        <3>4. QED
            BY <2>1, <3>1, <3>2, <3>3 DEF LaunchTyped, LoggerFirst, LoggerAlone, LogClosed, LogKept, Listed
    <2>4. QED
        BY <2>2, <2>3
<1>5. CASE Terminate
    <2>1. /\ launcher = "stop" /\ at \in 1..Len(running) /\ Len(running) \in Nat
          /\ running[at] \in Process /\ Alive(running[at])
          /\ process' = [process EXCEPT ![running[at]] = "ending"]
          /\ UNCHANGED <<plan, running, launcher, at, spoiled, lost>>
        BY <1>5, LenProperties, ElementOfSeq DEF Terminate, Awaited, LoggerLast, LaunchTyped
    <2>2. \A p \in Process : process'[p] = IF p = running[at] THEN "ending" ELSE process[p]
        BY <2>1 DEF LaunchTyped
    <2>3. LaunchTyped'
        BY <2>1 DEF LaunchTyped
    <2>4. LoggerAlone'
        <3>1. CASE running[at] = "logger"
            <4>1. at = Len(running)
                BY <2>1, <3>1 DEF LoggerLast
            <4>2. \A p \in Process \ {"logger"} : Listed(p) => process[p] = "dead"
                <5> SUFFICES ASSUME NEW p \in Process \ {"logger"}, NEW i \in 1..Len(running), running[i] = p
                             PROVE  process[p] = "dead"
                    BY DEF Listed
                <5>1. i < at
                    BY <2>1, <3>1, <4>1
                <5>2. QED
                    BY <2>1, <5>1 DEF LoggerLast
            <4>3. QED
                BY <2>1, <2>2, <3>1, <4>2 DEF LoggerAlone
        <3>2. CASE running[at] # "logger"
            BY <2>1, <2>2, <3>2 DEF LoggerAlone, LogClosed, Alive
        <3>3. QED
            BY <3>1, <3>2
    <2>5. LoggerLast'
        BY <2>1, <2>2, ElementOfSeq DEF LoggerLast, Alive, LaunchTyped
    <2>6. QED
        BY <2>1, <2>2, <2>3, <2>4, <2>5 DEF LoggerFirst, LogKept, Listed, Alive
<1>6. CASE Signalled
    BY <1>6 DEF Signalled, Stopped, LaunchTyped, LoggerFirst, LoggerLast, LoggerAlone, LogClosed, LogKept, Listed
<1>7. CASE CtrlC
    BY <1>7 DEF CtrlC, Stopped, Alive, LaunchTyped, LoggerFirst, LoggerLast, LoggerAlone, LogKept, Listed
<1>8. ASSUME NEW p \in Process, Ready(p) PROVE LaunchInv'
    BY <1>8, ElementOfSeq DEF Ready, LaunchTyped, LoggerFirst, LoggerLast, LoggerAlone, LogClosed, LogKept, Listed
<1>9. ASSUME NEW p \in Process, Dies(p) PROVE LaunchInv'
    BY <1>9, ElementOfSeq DEF Dies, LaunchTyped, LoggerFirst, LoggerLast, LoggerAlone, LogClosed, LogKept, Listed
<1>10. ASSUME NEW p \in Process, Ends(p) PROVE LaunchInv'
    BY <1>10, ElementOfSeq DEF Ends, LaunchTyped, LoggerFirst, LoggerLast, LoggerAlone, LogClosed, LogKept, Listed
<1>11. ASSUME NEW p \in Process, Record(p) PROVE LaunchInv'
    BY <1>11 DEF Record, LaunchTyped, LoggerFirst, LoggerLast, LoggerAlone, LogClosed, LogKept, Listed
<1>12. CASE UNCHANGED launcherVars
    BY <1>12 DEF launcherVars, LaunchTyped, LoggerFirst, LoggerLast, LoggerAlone, LogClosed, LogKept, Listed
<1>13. QED
    BY <1>1, <1>2, <1>3, <1>4, <1>5, <1>6, <1>7, <1>8, <1>9, <1>10, <1>11, <1>12 DEF LauncherNext

(* "Reverse the processes so the logger dies last" (launch.py:74): no record is lost while the
   logger was up, unless it crashed or the terminal interrupted every process at once. *)
THEOREM RecordsKept == LauncherSpec => []LogKept
<1>1. LauncherInit => LaunchInv
    <2> SUFFICES ASSUME LauncherInit PROVE LaunchInv
        OBVIOUS
    <2>1. plan \in Seq(Process) /\ plan # <<>> /\ \A i \in 1..Len(plan) : plan[i] = "logger" => i = 1
        BY PlansAssumption DEF LauncherInit
    <2>2. running = <<>> /\ <<>> \in Seq(Process) /\ Len(<<>>) = 0
        BY DEF LauncherInit
    <2>3. LaunchTyped
        <3>1. lost \in BOOLEAN /\ spoiled \in BOOLEAN
            BY DEF LauncherInit
        <3>2. process \in [Process -> {"none", "starting", "up", "ending", "dead"}]
            BY DEF LauncherInit
        <3>3. QED
            BY <2>1, <2>2, <3>1, <3>2 DEF LauncherInit, LaunchTyped
    <2>4. process["logger"] = "none"
        BY Logger DEF LauncherInit
    <2>5. QED
        BY <2>1, <2>2, <2>3, <2>4
           DEF LauncherInit, LaunchInv, LoggerFirst, LoggerLast, LoggerAlone, LogClosed, LogKept
<1>2. LaunchInv => LogKept
    BY DEF LaunchInv
<1>3. QED
    BY <1>1, <1>2, LaunchStep, PTL DEF LauncherSpec

----------------------------------------------------------------------------
(***************************************************************************)
(* The control page.  The page waits for one call at most, in a callback,  *)
(* and no call is of a run that is yet to come; so what an earlier run     *)
(* left is settled when a callback makes a call.  A round whose threads    *)
(* have not all run holds a vehicle it was started for.                    *)
(***************************************************************************)
Method  == {"Upload", "Start", "Stop", "Hold", "ReturnToHome"}
Input   == Button \cup Key \cup {"select", "arm", "none"}
ToDo    == [method : Method, to : Drone]
OnWire  == [run : Nat, method : Kept, to : Drone, failed : BOOLEAN]
Round   == [method : {"TakeOff", "Land", "Joystick"}, cause : Input, drones : SUBSET Drone,
            to : Drone \cup {NoDrone}, started : SUBSET Drone, threads : Nat, told : SUBSET Drone]

CallsInv ==
    /\ inputs \in Nat /\ pending \in Input /\ input \in Input
    /\ script \in {"idle", "callback", "manual", "look"} /\ selected \subseteq Drone
    /\ waiting \in BOOLEAN /\ wire \subseteq OnWire
    /\ script = "callback" => todo \in Seq(ToDo)
    /\ waiting => script = "callback"
    /\ \A c \in wire : c.run <= Run /\ (~c.failed => waiting)
    /\ \A c, d \in wire : ~c.failed /\ ~d.failed => c = d
    /\ pending # "none" => inputs > 0
    /\ UploadSettled

(* The vehicles left in a loop come once, and no thread was started for them. *)
Fresh(s, started) == \A i, j \in 1..Len(s) : s[i] \notin started /\ (i # j => s[i] # s[j])

RoundKept(round) ==
    /\ round.told \subseteq round.drones
    /\ round.to # NoDrone => round.to \in round.drones
    /\ round.threads > 0 => round.to \in round.drones
    /\ round.threads = 0 /\ round.started # {} => round.told # {}
    /\ round.threads = 0 /\ round.to \in round.started => round.to \in round.told

RoundsInv ==
    /\ rounds \in Seq(Round) /\ \A r \in 1..Len(rounds) : RoundKept(rounds[r])
    /\ script \in {"manual", "look"} => rounds # <<>> /\ todo \in Seq(rounds[Len(rounds)].drones)
    /\ script \in {"manual", "look"} => Fresh(todo, rounds[Len(rounds)].started)
    /\ script = "look" => todo # <<>> /\ rounds[Len(rounds)].to = Head(todo)

(* The drones of a set, one after the other. *)
LEMMA SetToSeqType == ASSUME NEW S, S \subseteq Drone PROVE SetToSeq(S) \in Seq(S) /\ Fresh(SetToSeq(S), {})
<1> DEFINE n == Cardinality(S)
<1>1. IsFiniteSet(S)
    BY PageAssumption, FS_Subset
<1>2. n \in Nat /\ ExistsBijection(1..n, S)
    BY <1>1, FS_CardinalityType
<1>3. \E f \in [1..n -> S] : IsInjective(f)
    BY <1>2 DEF ExistsBijection, Bijection, Injection, IsInjective
<1>4. SetToSeq(S) \in [1..n -> S] /\ IsInjective(SetToSeq(S))
    BY <1>3 DEF SetToSeq
<1>5. SetToSeq(S) \in Seq(S) /\ Len(SetToSeq(S)) = n
    BY <1>2, <1>4
<1>6. QED
    BY <1>4, <1>5 DEF Fresh, IsInjective

(* So they do when the first one is taken and its thread started. *)
LEMMA FreshTail ==
    ASSUME NEW S, NEW s \in Seq(S), s # <<>>, NEW started, Fresh(s, started)
    PROVE  /\ Tail(s) \in Seq(S) /\ Head(s) \in S /\ Head(s) \notin started
           /\ Fresh(Tail(s), started \cup {Head(s)})
<1> DEFINE n == Len(s)
<1>1. /\ n \in Nat \ {0} /\ Tail(s) \in Seq(S) /\ Len(Tail(s)) = n - 1
      /\ \A i \in 1..(n - 1) : Tail(s)[i] = s[i + 1]
      /\ Head(s) = s[1] /\ Head(s) \in S
    BY HeadTailProperties, LenProperties, EmptySeq
<1>2. 1 \in 1..n /\ \A i \in 1..(n - 1) : i + 1 \in 1..n /\ i + 1 # 1
    BY <1>1
<1>3. \A i, j \in 1..(n - 1) : i # j => i + 1 # j + 1
    BY <1>1
<1>4. QED
    BY <1>1, <1>2, <1>3 DEF Fresh

(* The commands of a callback are commands to drones of the page. *)
LEMMA CommandsType ==
    ASSUME NEW b \in Button, selected \subseteq Drone
    PROVE  Commands(b) \in Seq(ToDo)
<1>1. ASSUME NEW m \in Method PROVE To(SetToSeq(selected), m) \in Seq(ToDo)
    <2> DEFINE s == SetToSeq(selected)
    <2>1. s \in Seq(Drone)
        BY SetToSeqType, SeqMonotonic
    <2>2. Len(s) \in Nat /\ DOMAIN s = 1..Len(s) /\ \A n \in 1..Len(s) : s[n] \in Drone
        BY <2>1, ElementOfSeq
    <2> HIDE DEF s
    <2>3. To(s, m) \in [1..Len(s) -> ToDo]
        BY <1>1, <2>2 DEF To, ToDo
    <2>4. QED
        BY <2>2, <2>3 DEF s
<1>2. CASE b = "Halt"
    <2>1. Commands(b) = To(SetToSeq(selected), "Stop") \o To(SetToSeq(selected), "Hold")
        BY <1>2 DEF Commands
    <2>2. "Stop" \in Method /\ "Hold" \in Method
        BY DEF Method
    <2>3. QED
        BY <1>1, <2>1, <2>2, ConcatProperties
<1>3. CASE b = "Home"
    BY <1>1, <1>3 DEF Commands, Method
<1>4. CASE b \in {"Upload", "Start"}
    BY <1>1, <1>4 DEF Commands, Method
<1>5. QED
    BY <1>2, <1>3, <1>4 DEF Button

(* Whether it sends manual commands or not, the script makes no call the page waits for. *)
LEMMA ScriptRuns ==
    ASSUME NEW drones, NEW arm, NEW k, NEW i, RunScript(drones, arm, k, i)
    PROVE  script' \in {"idle", "manual"}
BY DEF RunScript

(* Every input, callback and answer keeps what is known of the calls. *)
LEMMA CallsStep == CallsInv /\ [PageNext]_pageVars => CallsInv'
<1> SUFFICES ASSUME CallsInv, [PageNext]_pageVars PROVE CallsInv'
    OBVIOUS
<1> USE DEF CallsInv, Run, UploadSettled
<1>1. ASSUME NEW i \in Button \cup Key \cup {"select", "arm"}, Operate(i) PROVE CallsInv'
    <2>1. i # "none" /\ i \in Input
        BY DEF Button, Key, Input
    <2>2. Run' = Run /\ inputs' \in Nat /\ inputs' > 0
        BY <1>1, <2>1 DEF Operate
    <2>3. QED
        BY <1>1, <2>1, <2>2 DEF Operate
<1>2. CASE RunForWidget
    <2>1. /\ script = "idle" /\ script' \in {"idle", "manual"} /\ ~waiting /\ pending # "none"
          /\ UNCHANGED <<waiting, wire, inputs>> /\ pending' = "none" /\ input' = pending
        BY <1>2, ScriptRuns DEF RunForWidget, Key
    <2>2. selected' \subseteq Drone
        BY <1>2 DEF RunForWidget
    <2>3. Run <= Run'
        BY <2>1
    <2>4. \A c \in wire : c.run \in Nat /\ c.run <= Run'
        BY <2>1, <2>3 DEF OnWire
    <2>5. QED
        BY <2>1, <2>2, <2>4 DEF Input
<1>3. CASE RunForButton
    <2>1. /\ script = "idle" /\ script' = "callback" /\ ~waiting /\ pending \in Button
          /\ UNCHANGED <<waiting, wire, inputs, selected>> /\ pending' = "none" /\ input' = pending
        BY <1>3 DEF RunForButton
    <2>2. todo' \in Seq(ToDo)
        BY <1>3, <2>1, CommandsType DEF RunForButton
    <2>3. \A c \in wire : c.run \in Nat /\ c.run <= Run'
        BY <2>1 DEF OnWire
    <2>4. QED
        BY <2>1, <2>2, <2>3 DEF Input
<1>4. CASE UploadNothing \/ UploadRaises
    <2>1. <<>> \in Seq(ToDo)
        BY EmptySeq
    <2>2. CASE UploadNothing
        BY <2>1, <2>2 DEF UploadNothing, UploadBegins
    <2>3. CASE UploadRaises
        BY <2>3 DEF UploadRaises, UploadBegins
    <2>4. QED
        BY <1>4, <2>2, <2>3
<1>5. CASE CallbackCalls
    <2> DEFINE h == Head(todo)
               call == [run |-> Run, method |-> h.method, to |-> h.to, failed |-> FALSE]
    <2>1. h \in ToDo /\ todo' \in Seq(ToDo)
        BY <1>5, HeadTailProperties DEF CallbackCalls
    <2>2. /\ ~waiting /\ script = "callback"
          /\ UNCHANGED <<selected, pending, input, script, inputs>>
        BY <1>5 DEF CallbackCalls
    <2>3. \A c \in wire : c.failed
        BY <2>2
    <2>4. CASE h.method \notin Kept
        <3>1. wire' = wire /\ waiting' = FALSE
            BY <1>5, <2>4 DEF CallbackCalls, Calling
        <3>2. QED
            BY <2>1, <2>2, <2>3, <3>1
    <2>5. CASE h.method \in Kept
        <3>1. wire' = wire \cup {call} /\ waiting' = TRUE
            BY <1>5, <2>5 DEF CallbackCalls, Calling
        <3>2. Run \in Nat
            OBVIOUS
        <3>3. call \in OnWire /\ call.run = Run /\ call.failed = FALSE
            BY <2>1, <2>5, <3>2 DEF OnWire, ToDo
        <3>4. \A c \in wire' : c.run \in Nat /\ c.run <= Run /\ (~c.failed => c = call)
            BY <2>3, <3>1, <3>2, <3>3 DEF OnWire
        <3>5. Run' = Run
            BY <2>2
        <3> HIDE DEF call
        <3>6. UploadSettled'
            BY <3>2, <3>3, <3>4 DEF UploadSettled
        <3>7. wire' \subseteq OnWire /\ waiting' \in BOOLEAN
            BY <3>1, <3>3
        <3>8. QED
            BY <2>1, <2>2, <3>1, <3>4, <3>5, <3>6, <3>7
    <2>6. QED
        BY <2>4, <2>5
<1>6. CASE CallbackEnds
    BY <1>6, ScriptRuns DEF CallbackEnds
<1>7. CASE Interrupted
    BY <1>7 DEF Interrupted, Looks
<1>8. CASE SetVehicle \/ StartThread
    BY <1>8 DEF SetVehicle, StartThread
<1>9. ASSUME NEW r \in DOMAIN rounds, ThreadCalls(r) PROVE CallsInv'
    BY <1>9 DEF ThreadCalls
<1>10. ASSUME NEW c \in wire, CallEnds(c) PROVE CallsInv'
    <2>1. /\ wire' = wire \ {c} /\ waiting' = (waiting /\ c.failed)
          /\ UNCHANGED <<selected, pending, input, script, todo, inputs>>
        BY <1>10 DEF CallEnds
    <2>2. waiting' \in BOOLEAN /\ (waiting' => waiting)
        BY <2>1
    <2>3. \A d \in wire' : ~d.failed => waiting'
        BY <2>1
    <2>4. QED
        BY <2>1, <2>2, <2>3
<1>11. ASSUME NEW c \in wire, CallFails(c) PROVE CallsInv'
    <2> DEFINE d == [c EXCEPT !.failed = TRUE]
    <2>1. /\ wire' = (wire \ {c}) \cup {d} /\ waiting' = FALSE /\ script' = "idle" /\ ~c.failed
          /\ UNCHANGED <<selected, pending, input, inputs>>
        BY <1>11 DEF CallFails
    <2>2. /\ d \in OnWire /\ d.run = c.run /\ d.failed = TRUE
          /\ d.method = c.method /\ d.to = c.to
        BY DEF OnWire
    <2> HIDE DEF d
    <2>3. \A e \in wire' : e.failed
        BY <2>1, <2>2
    <2>4. \A e \in wire' : e \in OnWire /\ e.run <= Run
        BY <2>1, <2>2
    <2>5. UploadSettled' /\ waiting' \in BOOLEAN
        BY <2>1, <2>3 DEF UploadSettled
    <2>6. QED
        BY <2>1, <2>3, <2>4, <2>5
<1>12. CASE UNCHANGED pageVars
    BY <1>12 DEF pageVars
<1>13. QED
    BY <1>1, <1>2, <1>3, <1>4, <1>5, <1>6, <1>7, <1>8, <1>9, <1>10, <1>11, <1>12 DEF PageNext

(* No call is on its way when the page opens. *)
LEMMA CallsStart == PageInit => CallsInv
<1> SUFFICES ASSUME PageInit PROVE CallsInv
    OBVIOUS
<1>1. wire = {} /\ waiting = FALSE /\ script = "idle" /\ pending = "none" /\ input = "none" /\ inputs = 0
    BY DEF PageInit
<1>2. waiting \in BOOLEAN
    BY <1>1
<1>3. pending \in Input /\ input \in Input
    BY <1>1 DEF Input
<1>4. selected \subseteq Drone
    BY DEF PageInit
<1>5. QED
    BY <1>1, <1>2, <1>3, <1>4 DEF CallsInv, UploadSettled

(* A Start of the page (control.py) is not on its way to a vehicle while an earlier Upload to it
   is unsettled, whichever runs of the script were interrupted in between. *)
THEOREM UploadBeforeStart == PageSpec => []UploadSettled
<1>1. CallsInv => UploadSettled
    BY DEF CallsInv
<1>2. QED
    BY <1>1, CallsStart, CallsStep, PTL DEF PageSpec

(* A script that runs has an input it runs for, and waits just while a call is not settled. *)
PageTyped ==
    /\ armed \in BOOLEAN /\ key \in Key /\ inputs <= MaxInputs
    /\ script # "idle" => Run >= 1
    /\ wire \subseteq [run : 1..MaxInputs, method : Kept, to : Drone, failed : BOOLEAN]
    /\ waiting => \E c \in wire : ~c.failed

(* Every input, callback and answer keeps the types. *)
LEMMA PageTypeStep == CallsInv /\ PageTyped /\ [PageNext]_pageVars => PageTyped'
<1> SUFFICES ASSUME CallsInv, PageTyped, [PageNext]_pageVars PROVE PageTyped'
    OBVIOUS
<1> USE PageAssumption DEF PageTyped, Run
<1>a. inputs \in Nat /\ (pending # "none" => inputs >= 1) /\ Run \in Int /\ waiting \in BOOLEAN
    BY DEF CallsInv
<1>1. ASSUME NEW i \in Button \cup Key \cup {"select", "arm"}, Operate(i) PROVE PageTyped'
    BY <1>1, <1>a DEF Operate, Button, Key
<1>2. CASE RunForWidget
    <2>1. key' \in Key /\ armed' \in BOOLEAN
        BY <1>2 DEF RunForWidget
    <2>2. Run' = inputs /\ inputs >= 1
        BY <1>2, <1>a DEF RunForWidget, Key
    <2>3. QED
        BY <1>2, <1>a, <2>1, <2>2 DEF RunForWidget
<1>3. CASE RunForButton
    BY <1>3, <1>a DEF RunForButton, Button
<1>4. CASE UploadNothing \/ UploadRaises \/ Interrupted
    BY <1>4 DEF UploadNothing, UploadRaises, UploadBegins, Interrupted, Looks
<1>5. CASE CallbackCalls
    <2>1. Head(todo) \in ToDo
        BY <1>5, HeadTailProperties DEF CallbackCalls, CallsInv
    <2> DEFINE call == [run |-> Run, method |-> Head(todo).method, to |-> Head(todo).to, failed |-> FALSE]
    <2>2. CASE Head(todo).method \in Kept
        <3>1. Run \in 1..MaxInputs
            BY <1>5, <1>a DEF CallbackCalls
        <3>2. call \in [run : 1..MaxInputs, method : Kept, to : Drone, failed : BOOLEAN] /\ ~call.failed
            BY <2>1, <2>2, <3>1 DEF ToDo
        <3>3. wire' = wire \cup {call}
            BY <1>5, <2>2 DEF CallbackCalls, Calling
        <3>4. QED
            BY <1>5, <3>2, <3>3 DEF CallbackCalls
    <2>3. CASE Head(todo).method \notin Kept
        BY <1>5, <2>3 DEF CallbackCalls, Calling
    <2>4. QED
        BY <2>2, <2>3
<1>6. CASE CallbackEnds
    BY <1>6, <1>a DEF CallbackEnds
<1>7. CASE SetVehicle \/ StartThread
    BY <1>7, <1>a DEF SetVehicle, StartThread
<1>8. ASSUME NEW r, ThreadCalls(r) PROVE PageTyped'
    BY <1>8, <1>a DEF ThreadCalls
<1>9. ASSUME NEW c \in wire, CallEnds(c) PROVE PageTyped'
    <2>1. waiting' => \E d \in wire \ {c} : ~d.failed
        BY <1>9, <1>a DEF CallEnds
    <2>2. QED
        BY <1>9, <2>1 DEF CallEnds
<1>10. ASSUME NEW c \in wire, CallFails(c) PROVE PageTyped'
    BY <1>10 DEF CallFails
<1>11. CASE UNCHANGED pageVars
    BY <1>11 DEF pageVars
<1>12. QED
    BY <1>1, <1>2, <1>3, <1>4, <1>5, <1>6, <1>7, <1>8, <1>9, <1>10, <1>11 DEF PageNext

(* The page of control.py waits in a callback only, and just while a call of it is not settled,
   for any number of inputs and vehicles. *)
THEOREM PageWaitsForCalls == PageSpec => []PageTypeOK
<1>1. PageInit => PageTyped
    <2> SUFFICES ASSUME PageInit PROVE PageTyped
        OBVIOUS
    <2>1. armed = FALSE /\ key = "w" /\ inputs = 0 /\ script = "idle" /\ wire = {} /\ waiting = FALSE
        BY DEF PageInit
    <2>2. armed \in BOOLEAN /\ ~waiting
        BY <2>1
    <2>3. key \in Key
        BY <2>1 DEF Key
    <2>4. inputs <= MaxInputs
        BY <2>1, PageAssumption
    <2>5. QED
        BY <2>1, <2>2, <2>3, <2>4 DEF PageTyped
<1>2. CallsInv /\ PageTyped => PageTypeOK
    <2> SUFFICES ASSUME CallsInv, PageTyped PROVE PageTypeOK
        OBVIOUS
    <2>1. inputs \in 0..MaxInputs
        BY PageAssumption DEF CallsInv, PageTyped
    <2>2. waiting <=> \E c \in wire : ~c.failed
        BY DEF CallsInv, PageTyped
    <2>3. waiting = (\E c \in wire : ~c.failed)
        BY <2>2 DEF CallsInv
    <2>4. QED
        BY <2>1, <2>3 DEF CallsInv, PageTyped, PageTypeOK, Input
<1>3. QED
    BY <1>1, <1>2, CallsStart, CallsStep, PageTypeStep, PTL DEF PageSpec

(* Every thread of a round, and every new round, keeps the rounds. *)
LEMMA RoundsStep == CallsInv /\ RoundsInv /\ [PageNext]_pageVars => RoundsInv'
<1> SUFFICES ASSUME CallsInv, RoundsInv, [PageNext]_pageVars PROVE RoundsInv'
    OBVIOUS
<1> USE DEF RoundsInv
<1>a. ASSUME NEW drones \in SUBSET Drone, NEW arm, NEW k, NEW i \in Input, RunScript(drones, arm, k, i)
      PROVE  RoundsInv'
    <2> DEFINE new == [method |-> Manual(k), cause |-> i, drones |-> drones,
                       to |-> NoDrone, started |-> {}, threads |-> 0, told |-> {}]
    <2>1. CASE arm /\ drones # {}
        <3>1. script' = "manual" /\ todo' = SetToSeq(drones) /\ rounds' = Append(rounds, new)
            BY <1>a, <2>1 DEF RunScript
        <3>2. /\ new \in Round /\ new.drones = drones /\ new.started = {} /\ RoundKept(new)
            BY DEF Round, RoundKept, Manual
        <3> HIDE DEF new
        <3>3. /\ rounds' \in Seq(Round) /\ Len(rounds') = Len(rounds) + 1 /\ Len(rounds) \in Nat
              /\ \A r \in 1..Len(rounds) : rounds'[r] = rounds[r]
              /\ rounds'[Len(rounds) + 1] = new
            BY <3>1, <3>2, AppendProperties, LenProperties
        <3>4. \A r \in 1..Len(rounds') : r \in 1..Len(rounds) \/ r = Len(rounds) + 1
            BY <3>3
        <3>5. \A r \in 1..Len(rounds') : RoundKept(rounds'[r])
            BY <3>2, <3>3, <3>4
        <3>6. todo' \in Seq(drones) /\ Fresh(todo', {}) /\ script' = "manual"
            BY <3>1, SetToSeqType
        <3>7. rounds' # <<>>
            BY <3>3, EmptySeq
        <3>8. QED
            BY <3>2, <3>3, <3>5, <3>6, <3>7
    <2>2. CASE ~(arm /\ drones # {})
        BY <1>a, <2>2 DEF RunScript
    <2>3. QED
        BY <2>1, <2>2
<1>1. ASSUME NEW i \in Button \cup Key \cup {"select", "arm"}, Operate(i) PROVE RoundsInv'
    BY <1>1 DEF Operate
<1>2. CASE RunForWidget
    <2>1. selected' \in SUBSET Drone /\ pending \in Input /\ RunScript(selected', armed', key', pending)
        BY <1>2 DEF RunForWidget, CallsInv
    <2>2. QED
        BY <1>a, <2>1
<1>3. CASE RunForButton
    BY <1>3 DEF RunForButton
<1>4. CASE UploadNothing \/ UploadRaises
    BY <1>4 DEF UploadNothing, UploadRaises, UploadBegins
<1>5. CASE CallbackCalls
    BY <1>5 DEF CallbackCalls
<1>6. CASE CallbackEnds
    <2>1. selected \in SUBSET Drone /\ input \in Input /\ RunScript(selected, armed', key, input)
        BY <1>6 DEF CallbackEnds, CallsInv
    <2>2. QED
        BY <1>a, <2>1
<1>7. CASE Interrupted
    BY <1>7 DEF Interrupted, Looks
<1>8. CASE SetVehicle
    <2> DEFINE r == Len(rounds)
               old == rounds[r]
               new == [old EXCEPT !.to = Head(todo)]
    <2>1. r \in 1..Len(rounds) /\ old \in Round /\ r \in Nat
        BY <1>8, LenProperties, EmptySeq, ElementOfSeq DEF SetVehicle
    <2>2. Head(todo) \in old.drones /\ todo \in Seq(old.drones) /\ todo # <<>>
        BY <1>8, HeadTailProperties DEF SetVehicle
    <2>3. rounds' = [rounds EXCEPT ![r] = new] /\ todo' = todo /\ script' = "look"
        BY <1>8 DEF SetVehicle
    <2>4. Head(todo) \in Drone
        BY <2>1, <2>2 DEF Round
    <2>5. /\ new \in Round /\ new.drones = old.drones /\ new.told = old.told
          /\ new.to = Head(todo) /\ new.threads = old.threads /\ new.started = old.started
        BY <2>1, <2>4 DEF Round
    <2>6. RoundKept(old) /\ Fresh(todo, old.started) /\ Head(todo) \notin old.started
        <3>1. RoundKept(old) /\ Fresh(todo, old.started)
            BY <1>8, <2>1 DEF SetVehicle
        <3> HIDE DEF old
        <3>2. QED
            BY <2>2, <3>1, FreshTail
    <2>7. RoundKept(new)
        BY <2>2, <2>5, <2>6 DEF RoundKept
    <2> HIDE DEF new, old
    <2>8. /\ rounds' \in Seq(Round) /\ Len(rounds') = r
          /\ \A j \in 1..r : rounds'[j] = IF j = r THEN new ELSE rounds[j]
        BY <2>1, <2>3, <2>5, ExceptSeq
    <2>9. /\ rounds'[Len(rounds')].to = Head(todo') /\ todo' \in Seq(rounds'[Len(rounds')].drones)
          /\ Fresh(todo', rounds'[Len(rounds')].started) /\ rounds' # <<>>
        BY <2>1, <2>2, <2>3, <2>5, <2>6, <2>8, EmptySeq
    <2>10. \A j \in 1..Len(rounds') : RoundKept(rounds'[j])
        BY <2>7, <2>8
    <2>11. QED
        BY <2>2, <2>3, <2>8, <2>9, <2>10
<1>9. CASE StartThread
    <2> DEFINE r == Len(rounds)
               old == rounds[r]
               new == [old EXCEPT !.started = @ \cup {Head(todo)}, !.threads = @ + 1]
    <2>1. r \in 1..Len(rounds) /\ old \in Round /\ r \in Nat
        BY <1>9, LenProperties, EmptySeq, ElementOfSeq DEF StartThread
    <2>2. /\ todo # <<>> /\ todo \in Seq(old.drones) /\ old.to = Head(todo)
          /\ Fresh(todo, old.started) /\ RoundKept(old)
        BY <1>9, <2>1 DEF StartThread
    <2>3. rounds' = [rounds EXCEPT ![r] = new] /\ todo' = Tail(todo) /\ script' \in {"idle", "manual"}
        BY <1>9 DEF StartThread
    <2>4. /\ Head(todo) \in old.drones /\ todo' \in Seq(old.drones)
          /\ Fresh(todo', old.started \cup {Head(todo)})
        BY <2>2, <2>3, FreshTail
    <2>5. /\ new \in Round /\ new.drones = old.drones /\ new.told = old.told /\ new.to = old.to
          /\ new.started = old.started \cup {Head(todo)}
          /\ new.threads = old.threads + 1 /\ old.threads \in Nat
        <3> DEFINE mid == [old EXCEPT !.started = @ \cup {Head(todo)}]
        <3>1. Head(todo) \in Drone /\ old.started \cup {Head(todo)} \subseteq Drone
            BY <2>1, <2>4 DEF Round
        <3>2. mid \in Round /\ mid.threads = old.threads /\ old.threads \in Nat
            BY <2>1, <3>1 DEF Round
        <3>3. new = [mid EXCEPT !.threads = @ + 1]
            BY <2>1, <3>2 DEF Round
        <3>4. /\ new.drones = old.drones /\ new.told = old.told /\ new.to = old.to
              /\ new.started = old.started \cup {Head(todo)} /\ new.threads = old.threads + 1
            BY <2>1 DEF Round
        <3> HIDE DEF mid
        <3>5. [mid EXCEPT !.threads = mid.threads + 1] \in Round
            BY <3>2 DEF Round
        <3>6. QED
            BY <3>2, <3>3, <3>4, <3>5
    <2>6. RoundKept(new)
        BY <2>2, <2>4, <2>5 DEF RoundKept
    <2> HIDE DEF new, old
    <2>7. /\ rounds' \in Seq(Round) /\ Len(rounds') = r
          /\ \A j \in 1..r : rounds'[j] = IF j = r THEN new ELSE rounds[j]
        BY <2>1, <2>3, <2>5, ExceptSeq
    <2>8. /\ todo' \in Seq(rounds'[Len(rounds')].drones)
          /\ Fresh(todo', rounds'[Len(rounds')].started) /\ rounds' # <<>>
        <3>1. rounds'[Len(rounds')] = new /\ rounds' # <<>>
            BY <2>1, <2>7, EmptySeq
        <3>2. Fresh(todo', new.started) /\ todo' \in Seq(new.drones)
            BY <2>4, <2>5
        <3>3. QED
            BY <3>1, <3>2
    <2>9. \A j \in 1..Len(rounds') : RoundKept(rounds'[j])
        BY <2>6, <2>7
    <2>10. script' # "look"
        BY <2>3
    <2>11. QED
        BY <2>7, <2>8, <2>9, <2>10
<1>10. ASSUME NEW r \in DOMAIN rounds, ThreadCalls(r) PROVE RoundsInv'
    <2> DEFINE old == rounds[r]
               new == [old EXCEPT !.threads = @ - 1, !.told = @ \cup {old.to}]
    <2>1. r \in 1..Len(rounds) /\ old \in Round /\ old.threads > 0 /\ Len(rounds) \in Nat
        BY <1>10, LenProperties, ElementOfSeq DEF ThreadCalls
    <2>2. rounds' = [rounds EXCEPT ![r] = new] /\ UNCHANGED <<script, todo>>
        BY <1>10 DEF ThreadCalls
    <2>3. old.to \in old.drones /\ RoundKept(old)
        BY <2>1 DEF RoundKept
    <2>4. /\ new \in Round /\ new.drones = old.drones /\ new.told = old.told \cup {old.to}
          /\ new.to = old.to /\ new.threads \in Nat /\ new.started = old.started
        <3> DEFINE mid == [old EXCEPT !.threads = @ - 1]
        <3>1. mid \in Round /\ mid.told = old.told
            <4>1. old.threads \in Nat /\ old.threads - 1 \in Nat
                BY <2>1 DEF Round
            <4>2. QED
                BY <2>1, <4>1 DEF Round
        <3>2. new = [mid EXCEPT !.told = @ \cup {old.to}]
            BY <2>1, <3>1 DEF Round
        <3>3. /\ new.drones = old.drones /\ new.told = old.told \cup {old.to}
              /\ new.to = old.to /\ new.threads \in Nat /\ new.started = old.started
            BY <2>1 DEF Round
        <3>4. old.to \in Drone
            BY <2>1, <2>3 DEF Round
        <3> HIDE DEF mid
        <3>5. [mid EXCEPT !.told = @ \cup {old.to}] \in Round
            BY <3>1, <3>4 DEF Round
        <3>6. QED
            BY <3>2, <3>3, <3>5
    <2>5. RoundKept(new)
        BY <2>3, <2>4 DEF RoundKept
    <2> HIDE DEF new
    <2>6. /\ rounds' \in Seq(Round) /\ Len(rounds') = Len(rounds)
          /\ \A j \in 1..Len(rounds) : rounds'[j] = IF j = r THEN new ELSE rounds[j]
        BY <2>1, <2>2, <2>4, ExceptSeq
    <2>7. rounds' # <<>> /\ script' = script /\ todo' = todo
        BY <2>1, <2>2, <2>6, EmptySeq
    <2>8. /\ rounds'[Len(rounds')].drones = rounds[Len(rounds)].drones
          /\ rounds'[Len(rounds')].started = rounds[Len(rounds)].started
          /\ rounds'[Len(rounds')].to = rounds[Len(rounds)].to
        BY <2>1, <2>4, <2>6 DEF old
    <2>9. QED
        BY <2>5, <2>6, <2>7, <2>8
<1>11. ASSUME NEW c \in wire, CallEnds(c) PROVE RoundsInv'
    BY <1>11 DEF CallEnds
<1>12. ASSUME NEW c \in wire, CallFails(c) PROVE RoundsInv'
    BY <1>12 DEF CallFails
<1>13. CASE UNCHANGED pageVars
    BY <1>13 DEF pageVars
<1>14. QED
    BY <1>1, <1>2, <1>3, <1>4, <1>5, <1>6, <1>7, <1>8, <1>9, <1>10, <1>11, <1>12, <1>13 DEF PageNext

(* The threads of a manual round share one request (control.py:666-677): however they run, no
   vehicle is told that was not selected, and the one the request names in the end is told, if
   the run was not interrupted before its thread was started; some vehicle is told anyway, if
   there was a thread. *)
THEOREM RoundsReach == PageSpec => []RoundReaches
<1>1. PageInit => RoundsInv
    BY EmptySeq DEF PageInit, RoundsInv
<1>2. RoundsInv => RoundReaches
    <2> SUFFICES ASSUME RoundsInv, NEW r \in DOMAIN rounds
                 PROVE  /\ rounds[r].told \subseteq rounds[r].drones
                        /\ rounds[r].threads = 0 /\ rounds[r].started # {} => rounds[r].told # {}
                        /\ rounds[r].threads = 0 /\ rounds[r].to \in rounds[r].started
                               => rounds[r].to \in rounds[r].told
        BY DEF RoundReaches
    <2>1. RoundKept(rounds[r])
        BY DEF RoundsInv
    <2>2. QED
        BY <2>1 DEF RoundKept
<1>3. QED
    BY <1>1, <1>2, CallsStart, CallsStep, RoundsStep, PTL DEF PageSpec

----------------------------------------------------------------------------
(***************************************************************************)
(* The wizard, the launcher and the two ground stations side by side.      *)
(***************************************************************************)

(* What they do together is, for each of them, a behaviour of its own: a step of one is no step
   of another, and what is proved of one alone holds where they run together. *)
THEOREM OperatorPartsApart == Spec => PageSpec /\ CliSpec /\ LauncherSpec /\ WizardSpec
<1>1. Init => PageInit /\ CliInit /\ LauncherInit /\ WizardInit
    BY DEF Init
<1>2. ASSUME [Next]_<<pageVars, cliVars, launcherVars, wizardVars, part>>
      PROVE  /\ [PageNext]_pageVars /\ [CliNext]_cliVars
             /\ [LauncherNext]_launcherVars /\ [WizardNext]_wizardVars
    BY <1>2 DEF Next
<1>3. QED
    BY <1>1, <1>2, PTL DEF Spec, PageSpec, CliSpec, LauncherSpec, WizardSpec

(* Both ground stations keep their types, whatever the operator does at them and at the others. *)
THEOREM GroundStationsTyped == Spec => []TypesOK
    BY OperatorPartsApart, PageWaitsForCalls, TerminalRestored, PTL DEF TypesOK
=============================================================================
