----------------------------- MODULE WaitQueue -----------------------------
(***************************************************************************)
(* The coroutines that wait for a lock, in the order they asked for it:    *)
(* the writers of aiorwlock's RWLock, and the waiters of an asyncio.Lock.  *)
(***************************************************************************)
EXTENDS Naturals, Sequences, SequencesExt

(* A coroutine that is cancelled while it waits leaves the queue. *)
Without(waiting, p) ==
    IF p \notin Range(waiting) THEN waiting
    ELSE RemoveAt(waiting, CHOOSE i \in DOMAIN waiting : waiting[i] = p)

=============================================================================
