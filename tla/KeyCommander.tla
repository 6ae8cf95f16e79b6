---------------------------- MODULE KeyCommander ----------------------------
(***************************************************************************)
(* The command-line ground station (gcs/cli/cli.py): a thread reads keys   *)
(* from the terminal into a queue of the event loop, and a coroutine makes *)
(* a task for the command of each key.  A coroutine that does not have to  *)
(* wait does not let the tasks run, and input() stops the whole loop.      *)
(* main.py is the same without the terminal and is not modelled apart.     *)
(*                                                                         *)
(* Keys count up from 1 in the order they are read; what a key stands for  *)
(* is chosen when it is taken.                                             *)
(***************************************************************************)
EXTENDS Naturals, Sequences, SequencesExt

CONSTANT MaxKeys    \* bound: keys the operator hits
ASSUME KeysAssumption == MaxKeys \in Nat

VARIABLES
    hit,            \* keys the terminal has delivered
    listener,       \* the thread: "checked" before its read, or "waiting" while paused
    posted,         \* keys given to the loop by call_soon_threadsafe
    queue,          \* key_queue
    paused, tty,    \* the event, and "raw" or "cooked"
    consumer,       \* "take", "wait", "prompt", "compile", "drain", "quit" or "closed"
    compiling,      \* the key of the compilation
    tasks,          \* commands whose task has not begun
    called          \* commands that were sent, in this order

cliVars == <<hit, listener, posted, queue, paused, tty, consumer, compiling, tasks, called>>

CliInit ==
    /\ hit = 0 /\ listener = "waiting" /\ posted = <<>> /\ queue = <<>>
    /\ paused = FALSE /\ tty = "raw" /\ consumer = "take" /\ compiling = 0
    /\ tasks = <<>> /\ called = <<>>

----------------------------------------------------------------------------
(* listen_for_keys: not paused, so it will read what comes next. *)
Check ==
    /\ listener = "waiting" /\ ~paused /\ consumer # "closed"
    /\ listener' = "checked"
    /\ UNCHANGED <<hit, posted, queue, paused, tty, consumer, compiling, tasks, called>>

ReadKey ==
    /\ listener = "checked" /\ hit < MaxKeys /\ consumer # "closed"
    /\ hit' = hit + 1 /\ posted' = Append(posted, hit + 1) /\ listener' = "waiting"
    /\ UNCHANGED <<queue, paused, tty, consumer, compiling, tasks, called>>

(* select() finds nothing for 50 ms. *)
ReadNothing ==
    /\ listener = "checked"
    /\ listener' = "waiting"
    /\ UNCHANGED <<hit, posted, queue, paused, tty, consumer, compiling, tasks, called>>

(* The loop runs while the consumer waits for a key, the compiler or the channel to close. *)
LoopRuns == consumer \in {"wait", "compile", "quit"}
PutKey ==
    /\ LoopRuns /\ posted # <<>>
    /\ queue' = Append(queue, Head(posted)) /\ posted' = Tail(posted)
    /\ UNCHANGED <<hit, listener, paused, tty, consumer, compiling, tasks, called>>

(* Faulty variant: a task that waits for its turn longer than another. *)
SendCommandUnordered ==
    /\ LoopRuns /\ tasks # <<>>
    /\ \E n \in DOMAIN tasks : called' = Append(called, tasks[n]) /\ tasks' = RemoveAt(tasks, n)
    /\ UNCHANGED <<hit, listener, posted, queue, paused, tty, consumer, compiling>>

(* send_command begins: the RPC is made. *)
SendCommand ==
    /\ LoopRuns /\ tasks # <<>>
    /\ called' = Append(called, Head(tasks)) /\ tasks' = Tail(tasks)
    /\ UNCHANGED <<hit, listener, posted, queue, paused, tty, consumer, compiling>>

----------------------------------------------------------------------------
(* consume_keys: get() waits only if there is no key. *)
WaitForKey ==
    /\ consumer = "take" /\ queue = <<>>
    /\ consumer' = "wait"
    /\ UNCHANGED <<hit, listener, posted, queue, paused, tty, compiling, tasks, called>>

Wake ==
    /\ consumer = "wait" /\ queue # <<>>
    /\ consumer' = "take"
    /\ UNCHANGED <<hit, listener, posted, queue, paused, tty, compiling, tasks, called>>

Taking == consumer = "take" /\ queue # <<>> /\ queue' = Tail(queue)

TakeCommand ==
    /\ Taking
    /\ tasks' = Append(tasks, Head(queue))
    /\ UNCHANGED <<hit, listener, posted, paused, tty, consumer, compiling, called>>

TakeUnknown ==
    /\ Taking
    /\ UNCHANGED <<hit, listener, posted, paused, tty, consumer, compiling, tasks, called>>

TakeCompile ==
    /\ Taking
    /\ paused' = TRUE /\ tty' = "cooked" /\ consumer' = "prompt" /\ compiling' = Head(queue)
    /\ UNCHANGED <<hit, listener, posted, tasks, called>>

(* Both files can be read: the mission is sent to the compiler ... *)
FilesChosen ==
    /\ consumer = "prompt"
    /\ consumer' = "compile"
    /\ UNCHANGED <<hit, listener, posted, queue, paused, tty, compiling, tasks, called>>

(* ... or one cannot. *)
FilesUnreadable ==
    /\ consumer = "prompt"
    /\ consumer' = "drain"
    /\ UNCHANGED <<hit, listener, posted, queue, paused, tty, compiling, tasks, called>>

Compiled ==
    /\ consumer = "compile"
    /\ tasks' = Append(tasks, compiling) /\ consumer' = "drain"
    /\ UNCHANGED <<hit, listener, posted, queue, paused, tty, compiling, called>>

(* An RPC error, or no response. *)
CompileFails ==
    /\ consumer = "compile"
    /\ consumer' = "drain"
    /\ UNCHANGED <<hit, listener, posted, queue, paused, tty, compiling, tasks, called>>

(* The finally clause. *)
Drain ==
    /\ consumer = "drain"
    /\ queue' = <<>> /\ tty' = "raw" /\ paused' = FALSE
    /\ consumer' = "take" /\ compiling' = 0
    /\ UNCHANGED <<hit, listener, posted, tasks, called>>

(* End of input, or Ctrl-C, in a prompt: the clause is executed and the exception goes on. *)
PromptRaises ==
    /\ consumer = "prompt"
    /\ queue' = <<>> /\ tty' = "raw" /\ paused' = FALSE
    /\ consumer' = "quit" /\ compiling' = 0
    /\ UNCHANGED <<hit, listener, posted, tasks, called>>

TakeEscape ==
    /\ Taking
    /\ consumer' = "quit"
    /\ UNCHANGED <<hit, listener, posted, paused, tty, compiling, tasks, called>>

(* main: the loop was stopped, and what has not begun is cancelled. *)
Close ==
    /\ consumer = "quit"
    /\ tty' = "cooked" /\ consumer' = "closed" /\ tasks' = <<>>
    /\ UNCHANGED <<hit, listener, posted, queue, paused, compiling, called>>

CliNext ==
    \/ Check \/ ReadKey \/ ReadNothing \/ PutKey \/ SendCommand
    \/ WaitForKey \/ Wake \/ TakeCommand \/ TakeUnknown \/ TakeCompile \/ TakeEscape
    \/ FilesChosen \/ FilesUnreadable \/ Compiled \/ CompileFails
    \/ Drain \/ PromptRaises \/ Close

CliSpec == CliInit /\ [][CliNext]_cliVars

----------------------------------------------------------------------------
(***************************************************************************)
(* Every variable has its type; the listener is paused just while the      *)
(* terminal is needed for the prompts, and the terminal is left cooked,    *)
(* however the program comes to its end.                                   *)
(***************************************************************************)
CliTypeOK ==
    /\ hit \in 0..MaxKeys /\ listener \in {"waiting", "checked"}
    /\ {posted, queue, tasks, called} \subseteq Seq(1..hit) /\ compiling \in 0..hit
    /\ consumer \in {"take", "wait", "prompt", "compile", "drain", "quit", "closed"}
    /\ paused = (compiling # 0) /\ paused = (consumer \in {"prompt", "compile", "drain"})
    /\ tty = IF paused \/ consumer = "closed" THEN "cooked" ELSE "raw"

(***************************************************************************)
(* Commands leave in the order of the keys, the upload of a mission that   *)
(* compiled at the place of its key.  If it does not compile, or its files *)
(* cannot be read, nothing is uploaded and a later Start still leaves; and *)
(* the order of leaving is not the one in which vehicles execute.          *)
(***************************************************************************)
CallsInOrder == \A i, j \in DOMAIN called : i < j => called[i] < called[j]

=============================================================================
