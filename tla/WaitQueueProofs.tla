-------------------------- MODULE WaitQueueProofs --------------------------
(***************************************************************************)
(* The queue of a lock in which everybody waits at most once: who is in it *)
(* after one has asked, got the lock, or was cancelled.                    *)
(***************************************************************************)
EXTENDS WaitQueue, SequenceTheorems, TLAPS

(* What is left of a queue is in its places of before, but for the one that is taken out. *)
LEMMA RestOf ==
    ASSUME NEW S, NEW q \in Seq(S), NEW p \in Range(q)
    PROVE  \E i \in 1..Len(q) :
              /\ q[i] = p /\ Without(q, p) \in Seq(S) /\ Len(Without(q, p)) = Len(q) - 1
              /\ \A j \in 1..(Len(q) - 1) :
                    Without(q, p)[j] = q[IF j <= i - 1 THEN j ELSE j + 1]
<1> DEFINE i == CHOOSE j \in DOMAIN q : q[j] = p
           n == Len(q)
           r == Without(q, p)
           front == SubSeq(q, 1, i - 1)
           back == SubSeq(q, i + 1, n)
<1>1. i \in 1..n /\ q[i] = p /\ n \in Nat
    BY DEF Range
<1>2. r = front \o back
    BY DEF Without, RemoveAt
<1> HIDE DEF i, r
<1>3. \A j \in 1..n : q[j] \in S
    BY ElementOfSeq
<1>4. /\ front \in Seq(S) /\ Len(front) = i - 1
      /\ \A j \in 1..(i - 1) : front[j] = q[j]
    <2>1. 1 \in Int /\ i - 1 \in Int /\ \A j \in 1..(i - 1) : q[j] \in S
        BY <1>1, <1>3
    <2>2. /\ front \in Seq(S)
          /\ Len(front) = IF 1 <= i - 1 THEN i - 1 - 1 + 1 ELSE 0
          /\ \A j \in 1..(i - 1 - 1 + 1) : front[j] = q[1 + j - 1]
        BY <2>1, SubSeqProperties
    <2>3. QED
        BY <1>1, <2>2
<1>5. /\ back \in Seq(S) /\ Len(back) = n - i
      /\ \A j \in 1..(n - i) : back[j] = q[i + j]
    <2>1. i + 1 \in Int /\ n \in Int /\ \A j \in (i + 1)..n : q[j] \in S
        BY <1>1, <1>3
    <2>2. /\ back \in Seq(S)
          /\ Len(back) = IF i + 1 <= n THEN n - (i + 1) + 1 ELSE 0
          /\ \A j \in 1..(n - (i + 1) + 1) : back[j] = q[i + 1 + j - 1]
        BY <2>1, SubSeqProperties
    <2>3. QED
        BY <1>1, <2>2
<1> HIDE DEF front, back
<1>6. /\ r \in Seq(S) /\ Len(r) = n - 1
      /\ \A j \in 1..(n - 1) : r[j] = IF j <= i - 1 THEN front[j] ELSE back[j - (i - 1)]
    <2>1. /\ front \o back \in Seq(S) /\ Len(front \o back) = Len(front) + Len(back)
          /\ \A j \in 1..(Len(front) + Len(back)) :
                (front \o back)[j] = IF j <= Len(front) THEN front[j] ELSE back[j - Len(front)]
        BY <1>4, <1>5, ConcatProperties
    <2>2. Len(front) + Len(back) = n - 1
        BY <1>1, <1>4, <1>5
    <2>3. QED
        BY <1>2, <1>4, <2>1, <2>2
<1>7. \A j \in 1..(n - 1) : r[j] = q[IF j <= i - 1 THEN j ELSE j + 1]
    <2> SUFFICES ASSUME NEW j \in 1..(n - 1)
                 PROVE  r[j] = q[IF j <= i - 1 THEN j ELSE j + 1]
        OBVIOUS
    <2>1. CASE j <= i - 1
        <3>1. j \in 1..(i - 1)
            BY <1>1, <2>1
        <3>2. QED
            BY <1>4, <1>6, <2>1, <3>1
    <2>2. CASE ~(j <= i - 1)
        <3>1. j - (i - 1) \in 1..(n - i) /\ i + (j - (i - 1)) = j + 1
            BY <1>1, <2>2
        <3>2. back[j - (i - 1)] = q[j + 1]
            BY <1>5, <3>1
        <3>3. QED
            BY <1>6, <2>2, <3>2
    <2>3. QED
        BY <2>1, <2>2
<1>8. QED
    BY <1>1, <1>6, <1>7 DEF r

(* A coroutine asks for the lock. *)
LEMMA QueueGrows ==
    ASSUME NEW S, NEW q \in Seq(S), NEW p \in S, p \notin Range(q), IsInjective(q)
    PROVE  IsInjective(Append(q, p)) /\ Range(Append(q, p)) = Range(q) \cup {p}
<1> DEFINE r == Append(q, p)
           n == Len(q)
<1>1. /\ n \in Nat /\ DOMAIN q = 1..n /\ DOMAIN r = 1..(n + 1)
      /\ \A i \in 1..n : r[i] = q[i]
      /\ r[n + 1] = p
    BY AppendProperties, LenProperties
<1>2. 1..(n + 1) = 1..n \cup {n + 1}
    BY <1>1
<1>3. QED
    BY <1>1, <1>2 DEF Range, IsInjective

(* The head of the queue gets it. *)
LEMMA QueueMoves ==
    ASSUME NEW S, NEW q \in Seq(S), q # <<>>, IsInjective(q)
    PROVE  /\ IsInjective(Tail(q)) /\ Range(Tail(q)) = Range(q) \ {Head(q)}
           /\ Head(q) \in Range(q)
<1> DEFINE r == Tail(q)
           n == Len(q)
<1>1. /\ n \in Nat \ {0} /\ DOMAIN q = 1..n /\ DOMAIN r = 1..(n - 1)
      /\ \A i \in 1..(n - 1) : r[i] = q[i + 1]
      /\ Head(q) = q[1]
    BY HeadTailProperties, LenProperties, EmptySeq
<1>2. 1 \in 1..n /\ \A i \in 1..(n - 1) : i + 1 \in 1..n /\ i + 1 # 1
    BY <1>1
<1>3. \A k \in 1..n : k # 1 => k - 1 \in 1..(n - 1) /\ (k - 1) + 1 = k
    BY <1>1
<1>4. IsInjective(r)
    BY <1>1, <1>2 DEF IsInjective
<1>5. \A k \in 1..n : k # 1 => q[k] = r[k - 1] /\ q[k] # q[1]
    BY <1>1, <1>2, <1>3 DEF IsInjective
<1>6. \A i \in 1..(n - 1) : r[i] = q[i + 1] /\ q[i + 1] # q[1]
    BY <1>1, <1>2 DEF IsInjective
<1>7. Range(r) = Range(q) \ {q[1]}
    <2>1. \A x \in Range(r) : x \in Range(q) /\ x # q[1]
        BY <1>1, <1>2, <1>6 DEF Range
    <2>2. \A x \in Range(q) : x # q[1] => x \in Range(r)
        <3>1. \A x \in Range(q) : \E k \in 1..n : x = q[k]
            BY <1>1 DEF Range
        <3>2. \A k \in 1..n : k # 1 => r[k - 1] \in Range(r)
            BY <1>1, <1>3 DEF Range
        <3>3. QED
            BY <1>5, <3>1, <3>2
    <2>3. QED
        BY <2>1, <2>2
<1>8. QED
    BY <1>1, <1>2, <1>4, <1>7 DEF Range

(* A coroutine is cancelled while it waits, or while it does not. *)
LEMMA QueueLoses ==
    ASSUME NEW S, NEW q \in Seq(S), NEW p, IsInjective(q)
    PROVE  IsInjective(Without(q, p)) /\ Range(Without(q, p)) = Range(q) \ {p}
<1>1. CASE p \notin Range(q)
    BY <1>1 DEF Without
<1>2. CASE p \in Range(q)
    <2> DEFINE n == Len(q)
               r == Without(q, p)
    <2>1. PICK i \in 1..n :
              /\ q[i] = p /\ r \in Seq(S) /\ Len(r) = n - 1
              /\ \A j \in 1..(n - 1) : r[j] = q[IF j <= i - 1 THEN j ELSE j + 1]
        BY <1>2, RestOf
    <2> HIDE DEF r
    <2> DEFINE At(j) == IF j <= i - 1 THEN j ELSE j + 1
    <2>2. n \in Nat /\ DOMAIN q = 1..n /\ DOMAIN r = 1..(n - 1)
        BY <2>1, LenProperties
    <2>3. \A j \in 1..(n - 1) : At(j) \in 1..n /\ At(j) # i /\ r[j] = q[At(j)]
        BY <2>1, <2>2
    <2>4. \A j, k \in 1..(n - 1) : At(j) = At(k) => j = k
        BY <2>1, <2>2
    <2>5. \A k \in 1..n : k # i => \E j \in 1..(n - 1) : At(j) = k
        <3> SUFFICES ASSUME NEW k \in 1..n, k # i PROVE \E j \in 1..(n - 1) : At(j) = k
            OBVIOUS
        <3>1. CASE k < i
            <4>1. k \in 1..(n - 1) /\ At(k) = k
                BY <2>1, <2>2, <3>1
            <4>2. QED
                BY <4>1
        <3>2. CASE i < k
            <4>1. k - 1 \in 1..(n - 1) /\ At(k - 1) = k
                BY <2>1, <2>2, <3>2
            <4>2. QED
                BY <4>1
        <3>3. QED
            BY <2>1, <2>2, <3>1, <3>2
    <2> HIDE DEF At
    <2>6. IsInjective(r)
        BY <2>2, <2>3, <2>4 DEF IsInjective
    <2>7. \A x \in Range(r) : x \in Range(q) /\ x # p
        <3> SUFFICES ASSUME NEW j \in 1..(n - 1) PROVE r[j] \in Range(q) /\ r[j] # p
            BY <2>2 DEF Range
        <3>1. At(j) \in 1..n /\ At(j) # i /\ r[j] = q[At(j)]
            BY <2>3
        <3>2. q[At(j)] # q[i] /\ q[At(j)] \in Range(q)
            BY <2>1, <2>2, <3>1 DEF Range, IsInjective
        <3>3. QED
            BY <2>1, <3>1, <3>2
    <2>8. \A x \in Range(q) : x # p => x \in Range(r)
        <3> SUFFICES ASSUME NEW k \in 1..n, q[k] # p PROVE q[k] \in Range(r)
            BY <2>2 DEF Range
        <3>1. PICK j \in 1..(n - 1) : At(j) = k
            BY <2>1, <2>5
        <3>2. QED
            BY <2>2, <2>3, <3>1 DEF Range
    <2>9. QED
        BY <2>6, <2>7, <2>8 DEF r
<1>3. QED
    BY <1>1, <1>2

=============================================================================
