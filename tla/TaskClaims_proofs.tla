------------------------- MODULE TaskClaims_proofs -------------------------
(***************************************************************************)
(* Theorems about the claim path, for every number of messages, claims and *)
(* sessions and every value of the bounds.                                 *)
(***************************************************************************)
EXTENDS TaskClaims, SequenceTheorems, FiniteSetTheorems, TLAPS

(***************************************************************************)
(* What the Redis list operations do to a list without repetition: which   *)
(* elements it holds afterwards, and that none is there twice.             *)
(***************************************************************************)

\* A reversed list holds the same messages.
LEMMA ReverseProperties ==
  ASSUME NEW S, NEW list \in Seq(S)
  PROVE  /\ Reverse(list) \in Seq(S)
         /\ Len(Reverse(list)) = Len(list)
         /\ Range(Reverse(list)) = Range(list)
         /\ IsInjective(list) => IsInjective(Reverse(list))
<1> DEFINE r == Reverse(list)
<1>1. /\ r \in Seq(S)
      /\ Len(r) = Len(list)
      /\ DOMAIN r = 1..Len(list)
      /\ \A i \in 1..Len(list) : r[i] = list[(Len(list) - i) + 1]
  BY DEF Reverse
<1>2. Range(r) = Range(list)
  <2>1. ASSUME NEW m \in Range(list) PROVE m \in Range(r)
    <3>1. PICK i \in 1..Len(list) : list[i] = m
      BY <2>1 DEF Range
    <3>2. r[(Len(list) - i) + 1] = m /\ (Len(list) - i) + 1 \in 1..Len(list)
      BY <1>1, <3>1
    <3> QED BY <1>1, <3>2 DEF Range
  <2>2. ASSUME NEW m \in Range(r) PROVE m \in Range(list)
    BY <1>1, <2>2 DEF Range
  <2> QED BY <2>1, <2>2
<1>3. ASSUME IsInjective(list) PROVE IsInjective(r)
  <2> SUFFICES ASSUME NEW i \in 1..Len(list), NEW j \in 1..Len(list), r[i] = r[j]
               PROVE  i = j
    BY <1>1 DEF IsInjective
  <2> DEFINE a == (Len(list) - i) + 1
             b == (Len(list) - j) + 1
  <2>1. a \in 1..Len(list) /\ b \in 1..Len(list) /\ (a = b => i = j)
    OBVIOUS
  <2>2. list[a] = list[b]
    BY <1>1
  <2>3. DOMAIN list = 1..Len(list)
    OBVIOUS
  <2> HIDE DEF a, b
  <2> QED BY <1>3, <2>1, <2>2, <2>3 DEF IsInjective
<1> QED BY <1>1, <1>2, <1>3

\* Cutting a list in two shares its elements out between the halves.
LEMMA SplitProperties ==
  ASSUME NEW S, NEW list \in Seq(S), NEW n \in 0..Len(list)
  PROVE  LET front == SubSeq(list, 1, n)
             rest == SubSeq(list, n + 1, Len(list))
         IN  /\ front \in Seq(S) /\ Len(front) = n
             /\ rest \in Seq(S) /\ Len(rest) = Len(list) - n
             /\ \A i \in 1..n : front[i] = list[i]
             /\ \A i \in 1..(Len(list) - n) : rest[i] = list[n + i]
             /\ Range(list) = Range(front) \cup Range(rest)
             /\ IsInjective(list) => /\ IsInjective(front)
                                     /\ IsInjective(rest)
                                     /\ Range(front) \cap Range(rest) = {}
<1> DEFINE front == SubSeq(list, 1, n)
           rest == SubSeq(list, n + 1, Len(list))
<1>1. Len(list) \in Nat /\ n \in Nat /\ n <= Len(list) /\ DOMAIN list = 1..Len(list)
  OBVIOUS
<1>2. /\ front \in Seq(S) /\ Len(front) = n
      /\ \A i \in 1..n : front[i] = list[i]
  BY <1>1
<1>3. /\ rest \in Seq(S) /\ Len(rest) = Len(list) - n
      /\ \A i \in 1..(Len(list) - n) : rest[i] = list[n + i]
  <2>1. \A i \in (n + 1)..Len(list) : list[i] \in S
    BY <1>1
  <2>2. /\ rest \in Seq(S)
        /\ Len(rest) = IF n + 1 <= Len(list) THEN (Len(list) - (n + 1)) + 1 ELSE 0
        /\ \A i \in 1..((Len(list) - (n + 1)) + 1) : rest[i] = list[((n + 1) + i) - 1]
    BY <1>1, <2>1, SubSeqProperties
  <2> HIDE DEF rest
  <2>3. (Len(list) - (n + 1)) + 1 = Len(list) - n
    BY <1>1
  <2>4. \A i \in 1..(Len(list) - n) : ((n + 1) + i) - 1 = n + i
    BY <1>1
  <2>5. Len(rest) = Len(list) - n
    <3>1. Len(rest) = IF n + 1 <= Len(list) THEN Len(list) - n ELSE 0
      BY ZenonT(60), <2>2, <2>3
    <3>2. n + 1 <= Len(list) \/ Len(list) - n = 0
      <4>1. \A a, b \in Nat : a <= b => a + 1 <= b \/ b - a = 0
        OBVIOUS
      <4> QED BY <1>1, <4>1
    <3>3. CASE n + 1 <= Len(list)
      BY <3>1, <3>3
    <3>4. CASE ~(n + 1 <= Len(list))
      BY <3>1, <3>2, <3>4
    <3> QED BY SMTT(40), <3>3, <3>4
  <2> QED BY <2>2, <2>3, <2>4, <2>5
<1>4. DOMAIN front = 1..n /\ DOMAIN rest = 1..(Len(list) - n)
  BY <1>2, <1>3
<1> HIDE DEF front, rest
<1>5. \A m \in Range(list) : m \in Range(front) \/ m \in Range(rest)
  <2> SUFFICES ASSUME NEW i \in 1..Len(list)
               PROVE  list[i] \in Range(front) \/ list[i] \in Range(rest)
    BY <1>1 DEF Range
  <2>1. CASE i <= n
    BY <1>1, <1>2, <1>4, <2>1 DEF Range
  <2>2. CASE i > n
    <3>1. i - n \in 1..(Len(list) - n) /\ n + (i - n) = i
      BY <1>1, <2>2
    <3>2. rest[i - n] = list[i]
      BY <1>3, <3>1
    <3> QED BY <1>4, <3>1, <3>2 DEF Range
  <2> QED BY <1>1, <2>1, <2>2
<1>6. \A m \in Range(front) : m \in Range(list)
  BY <1>1, <1>2, <1>4 DEF Range
<1>7. \A m \in Range(rest) : m \in Range(list)
  <2> SUFFICES ASSUME NEW i \in 1..(Len(list) - n) PROVE rest[i] \in Range(list)
    BY <1>4 DEF Range
  <2>1. n + i \in 1..Len(list) /\ rest[i] = list[n + i]
    BY <1>1, <1>3
  <2> QED BY <1>1, <2>1 DEF Range
<1>8. ASSUME IsInjective(list)
      PROVE  IsInjective(front) /\ IsInjective(rest) /\ Range(front) \cap Range(rest) = {}
  <2>1. IsInjective(front)
    BY <1>1, <1>2, <1>4, <1>8 DEF IsInjective
  <2>2. IsInjective(rest)
    <3> SUFFICES ASSUME NEW i \in 1..(Len(list) - n), NEW j \in 1..(Len(list) - n),
                        rest[i] = rest[j]
                 PROVE  i = j
      BY <1>4 DEF IsInjective
    <3>1. n + i \in 1..Len(list) /\ n + j \in 1..Len(list) /\ list[n + i] = list[n + j]
      BY <1>1, <1>3
    <3>2. n + i = n + j
      BY <1>1, <1>8, <3>1 DEF IsInjective
    <3> QED BY <1>1, <3>2
  <2>3. Range(front) \cap Range(rest) = {}
    <3> SUFFICES ASSUME NEW i \in 1..n, NEW j \in 1..(Len(list) - n), front[i] = rest[j]
                 PROVE  FALSE
      BY <1>4 DEF Range
    <3>1. i \in 1..Len(list) /\ n + j \in 1..Len(list) /\ list[i] = list[n + j] /\ i < n + j
      BY <1>1, <1>2, <1>3
    <3> QED BY <1>1, <1>8, <3>1 DEF IsInjective
  <2> QED BY <2>1, <2>2, <2>3
<1> QED BY <1>2, <1>3, <1>5, <1>6, <1>7, <1>8 DEF front, rest

\* Joining two lists that share no message.
LEMMA JoinProperties ==
  ASSUME NEW S, NEW a \in Seq(S), NEW b \in Seq(S)
  PROVE  /\ a \o b \in Seq(S)
         /\ Range(a \o b) = Range(a) \cup Range(b)
         /\ IsInjective(a) /\ IsInjective(b) /\ Range(a) \cap Range(b) = {}
              => IsInjective(a \o b)
<1>1. a \o b \in Seq(S) /\ Range(a \o b) = Range(a) \cup Range(b)
  BY RangeConcatenation
<1>2. ASSUME IsInjective(a), IsInjective(b), Range(a) \cap Range(b) = {}
      PROVE  IsInjective(a \o b)
  <2> DEFINE ab == a \o b
  <2>1. /\ Len(a) \in Nat /\ Len(b) \in Nat
        /\ DOMAIN a = 1..Len(a) /\ DOMAIN b = 1..Len(b)
        /\ DOMAIN ab = 1..(Len(a) + Len(b))
        /\ \A i \in 1..(Len(a) + Len(b)) :
             ab[i] = IF i <= Len(a) THEN a[i] ELSE b[i - Len(a)]
    BY ConcatProperties
  <2> HIDE DEF ab
  <2> SUFFICES ASSUME NEW i \in DOMAIN ab, NEW j \in DOMAIN ab, ab[i] = ab[j] PROVE i = j
    BY DEF IsInjective, ab
  <2>2. CASE i <= Len(a) /\ j <= Len(a)
    BY <1>2, <2>1, <2>2 DEF IsInjective
  <2>3. CASE ~(i <= Len(a)) /\ ~(j <= Len(a))
    <3>1. /\ i - Len(a) \in DOMAIN b /\ j - Len(a) \in DOMAIN b
          /\ b[i - Len(a)] = b[j - Len(a)]
      BY <2>1, <2>3
    <3>2. i - Len(a) = j - Len(a)
      BY <1>2, <3>1 DEF IsInjective
    <3> QED BY <2>1, <3>2
  <2>4. CASE i <= Len(a) /\ ~(j <= Len(a))
    <3>1. /\ i \in DOMAIN a /\ j - Len(a) \in DOMAIN b
          /\ a[i] = b[j - Len(a)]
      BY <2>1, <2>4
    <3> QED BY <1>2, <3>1 DEF Range
  <2>5. CASE ~(i <= Len(a)) /\ j <= Len(a)
    <3>1. /\ j \in DOMAIN a /\ i - Len(a) \in DOMAIN b
          /\ a[j] = b[i - Len(a)]
      BY <2>1, <2>5
    <3> QED BY <1>2, <3>1 DEF Range
  <2> QED BY <2>2, <2>3, <2>4, <2>5
<1> QED BY <1>1, <1>2

\* Appending a message the list does not hold.
LEMMA AppendNew ==
  ASSUME NEW S, NEW list \in Seq(S), NEW m \in S
  PROVE  /\ Append(list, m) \in Seq(S)
         /\ Range(Append(list, m)) = Range(list) \cup {m}
         /\ IsInjective(list) /\ m \notin Range(list) => IsInjective(Append(list, m))
<1> DEFINE one == <<m>>
<1>1. Append(list, m) = list \o one /\ one \in Seq(S)
  BY AppendIsConcat
<1>2. Range(one) = {m} /\ IsInjective(one)
  BY DEF Range, IsInjective
<1> HIDE DEF one
<1>3. /\ list \o one \in Seq(S)
      /\ Range(list \o one) = Range(list) \cup Range(one)
      /\ IsInjective(list) /\ IsInjective(one) /\ Range(list) \cap Range(one) = {}
           => IsInjective(list \o one)
  BY <1>1, JoinProperties
<1> QED BY <1>1, <1>2, <1>3

\* Removing one entry of a list without repetition removes just that message.
LEMMA RemoveAtProperties ==
  ASSUME NEW S, NEW list \in Seq(S), NEW i \in DOMAIN list
  PROVE  /\ RemoveAt(list, i) \in Seq(S)
         /\ IsInjective(list) => /\ IsInjective(RemoveAt(list, i))
                                 /\ Range(RemoveAt(list, i)) = Range(list) \ {list[i]}
<1> DEFINE front == SubSeq(list, 1, i - 1)
           rest == SubSeq(list, i + 1, Len(list))
           entry == SubSeq(list, i, Len(list))
<1>1. Len(list) \in Nat /\ i \in 1..Len(list) /\ i - 1 \in 0..Len(list) /\ i \in 0..Len(list)
  OBVIOUS
<1>2. /\ front \in Seq(S) /\ rest \in Seq(S)
      /\ DOMAIN front = 1..(i - 1) /\ \A j \in 1..(i - 1) : front[j] = list[j]
      /\ DOMAIN rest = 1..(Len(list) - i) /\ \A j \in 1..(Len(list) - i) : rest[j] = list[i + j]
  <2>1. front \in Seq(S) /\ DOMAIN front = 1..(i - 1) /\ \A j \in 1..(i - 1) : front[j] = list[j]
    BY <1>1, SplitProperties
  <2>2. /\ rest \in Seq(S) /\ DOMAIN rest = 1..(Len(list) - i)
        /\ \A j \in 1..(Len(list) - i) : rest[j] = list[i + j]
    BY SMTT(60), <1>1, SplitProperties
  <2> QED BY <2>1, <2>2
<1> HIDE DEF front, rest
<1>3. RemoveAt(list, i) = front \o rest
  BY DEF RemoveAt, front, rest
<1>4. ASSUME IsInjective(list)
      PROVE  /\ IsInjective(front) /\ IsInjective(rest) /\ Range(front) \cap Range(rest) = {}
             /\ Range(front) \cup Range(rest) = Range(list) \ {list[i]}
  <2>1. IsInjective(front)
    <3>1. \A j \in 1..(i - 1) : j \in DOMAIN list
      BY <1>1
    <3> QED BY <1>2, <1>4, <3>1 DEF IsInjective
  <2>2. \A j \in 1..(Len(list) - i) : i + j \in DOMAIN list
    BY <1>1
  <2>3. IsInjective(rest)
    <3> SUFFICES ASSUME NEW j \in 1..(Len(list) - i), NEW k \in 1..(Len(list) - i),
                        rest[j] = rest[k]
                 PROVE  j = k
      BY <1>2 DEF IsInjective
    <3>1. i + j = i + k
      BY <1>2, <1>4, <2>2 DEF IsInjective
    <3> QED BY <1>1, <3>1
  <2>4. Range(front) \cap Range(rest) = {}
    <3> SUFFICES ASSUME NEW j \in 1..(i - 1), NEW k \in 1..(Len(list) - i), front[j] = rest[k]
                 PROVE  FALSE
      BY <1>2 DEF Range
    <3>1. j \in DOMAIN list /\ j < i + k
      BY <1>1
    <3> QED BY <1>2, <1>4, <2>2, <3>1 DEF IsInjective
  <2>5. ASSUME NEW m \in Range(front) \cup Range(rest) PROVE m \in Range(list) \ {list[i]}
    <3>1. CASE m \in Range(front)
      <4>1. PICK j \in 1..(i - 1) : m = list[j]
        BY <1>2, <3>1 DEF Range
      <4>2. j \in DOMAIN list /\ j # i
        BY <1>1
      <4> QED BY <1>4, <4>1, <4>2 DEF Range, IsInjective
    <3>2. CASE m \in Range(rest)
      <4>1. PICK j \in 1..(Len(list) - i) : m = list[i + j]
        BY <1>2, <3>2 DEF Range
      <4>2. i + j \in DOMAIN list /\ i + j # i
        BY <1>1
      <4> QED BY <1>4, <4>1, <4>2 DEF Range, IsInjective
    <3> QED BY <2>5, <3>1, <3>2
  <2>6. ASSUME NEW m \in Range(list) \ {list[i]} PROVE m \in Range(front) \cup Range(rest)
    <3>1. PICK j \in 1..Len(list) : m = list[j] /\ j # i
      BY <2>6 DEF Range
    <3>2. CASE j < i
      <4>1. j \in 1..(i - 1)
        BY <1>1, <3>2
      <4> QED BY <1>2, <3>1, <4>1 DEF Range
    <3>3. CASE j > i
      <4>1. j - i \in 1..(Len(list) - i) /\ i + (j - i) = j
        BY <1>1, <3>3
      <4>2. rest[j - i] = m
        BY <1>2, <3>1, <4>1
      <4> QED BY <1>2, <4>1, <4>2 DEF Range
    <3> QED BY <1>1, <3>1, <3>2, <3>3
  <2> QED BY <2>1, <2>3, <2>4, <2>5, <2>6
<1> QED BY <1>2, <1>3, <1>4, JoinProperties

(***************************************************************************)
(* Facts about the helpers.                                                *)
(***************************************************************************)

\* The bounds, one by one.
LEMMA Bounds ==
  /\ MaxTtl \in Nat /\ MaxBatch \in Nat /\ Budget \in Nat /\ CounterTtl \in Nat
  /\ DlqMax \in Nat /\ RecoverCap \in Nat /\ Ceilings \subseteq Nat
  /\ MaxTtl <= Budget
  BY BoundsAssumption

\* A list that enumerates a finite set of messages is a sequence of them, has
\* that range and no repetition.
LEMMA PushOrderProperties ==
  ASSUME NEW ord, NEW S \in SUBSET Msgs, NEW q \in PushOrder(ord, S)
  PROVE  /\ q \in Seq(Msgs)
         /\ Range(q) = S
         /\ IsInjective(q)
<1>1. Cardinality(S) \in Nat
  BY SetsAssumption, FS_Subset, FS_CardinalityType
<1>2. q \in [1..Cardinality(S) -> S] /\ IsInjective(q)
  BY DEF PushOrder, Bijection, Injection
<1>3. \A m \in S : \E i \in 1..Cardinality(S) : q[i] = m
  BY DEF PushOrder, Bijection, Surjection
<1>4. Range(q) = S
  BY <1>2, <1>3 DEF Range
<1>5. q \in Seq(S)
  BY <1>1, <1>2
<1>6. q \in Seq(Msgs)
  BY <1>5, SeqMonotonic
<1> QED BY <1>2, <1>4, <1>6

\* The messages held by a set of claims are messages.
LEMMA TasksOfType ==
  ASSUME TypeOK, NEW C
  PROVE  TasksOf(C) \subseteq Msgs
<1> SUFFICES ASSUME NEW c \in C \cap DOMAIN claims
             PROVE  Range(claims[c].tasks) \subseteq Msgs
  BY DEF TasksOf
<1>1. claims[c].tasks \in Seq(Msgs)
  BY DEF TypeOK, Claim
<1> QED BY <1>1, RangeOfSeq

\* Trimming keeps a prefix.
LEMMA TrimmedProperties ==
  ASSUME NEW list \in Seq(Msgs)
  PROVE  /\ Trimmed(list) \in Seq(Msgs)
         /\ Len(Trimmed(list)) <= DlqMax
         /\ Range(Trimmed(list)) \subseteq Range(list)
         /\ IsInjective(list) => IsInjective(Trimmed(list))
<1> DEFINE n == IF Len(list) < DlqMax THEN Len(list) ELSE DlqMax
<1>1. n \in 0..Len(list) /\ n <= DlqMax
  BY Bounds
<1>2. Trimmed(list) = SubSeq(list, 1, n)
  BY DEF Trimmed
<1> QED BY <1>1, <1>2, SplitProperties

(***************************************************************************)
(* Type correctness.                                                       *)
(***************************************************************************)

\* The two lists after pass 2, in terms of what was pushed.
LEMMA MoveExpiredLists ==
  ASSUME TypeOK, NEW C, MoveExpired(C)
  PROVE  \E q, d \in Seq(Msgs) :
           /\ Range(q) = TasksOf(C) \ Exhausted(C) /\ IsInjective(q)
           /\ Range(d) = Exhausted(C) /\ IsInjective(d)
           /\ inbox' = inbox \o q
           /\ dlq' = Trimmed(d \o dlq)
<1>1. TasksOf(C) \subseteq Msgs /\ Exhausted(C) \subseteq Msgs
  BY TasksOfType DEF Exhausted
<1>2. PICK ord \in ClaimOrders(C) :
        /\ \E q \in PushOrder(ord, TasksOf(C) \ Exhausted(C)) : inbox' = inbox \o q
        /\ \E d \in PushOrder(ord, Exhausted(C)) : dlq' = Trimmed(Reverse(d) \o dlq)
  BY DEF MoveExpired
<1>3. PICK q \in PushOrder(ord, TasksOf(C) \ Exhausted(C)) : inbox' = inbox \o q
  BY <1>2
<1>4. PICK d \in PushOrder(ord, Exhausted(C)) : dlq' = Trimmed(Reverse(d) \o dlq)
  BY <1>2
<1>5. q \in Seq(Msgs) /\ Range(q) = TasksOf(C) \ Exhausted(C) /\ IsInjective(q)
  BY <1>1, PushOrderProperties
<1>6. d \in Seq(Msgs) /\ Range(d) = Exhausted(C) /\ IsInjective(d)
  BY <1>1, PushOrderProperties
<1>7. /\ Reverse(d) \in Seq(Msgs)
      /\ Range(Reverse(d)) = Exhausted(C)
      /\ IsInjective(Reverse(d))
  BY <1>6, ReverseProperties
<1> QED BY <1>3, <1>4, <1>5, <1>7

\* The calls in flight are well typed.
CallsOK ==
  /\ pc \in [Sessions -> {"idle", "recovering", "claiming", "resending"}]
  /\ at \in [Sessions -> Nat]
  /\ req \in [Sessions -> SUBSET Request]
  /\ lost \in Nat
  /\ limit \in Nat

\* What the recovery script writes is well typed.
LEMMA RecoverType ==
  ASSUME TypeOK, NEW t, Recover(t), UNCHANGED env, CallsOK'
  PROVE  TypeOK'
<1> USE DEF env, CallsOK
<1>1. CASE UNCHANGED <<store, ghost>>
  BY <1>1 DEF TypeOK, store, ghost
<1>2. ASSUME NEW C, MoveExpired(C) PROVE TypeOK'
  <2>1. PICK q, d \in Seq(Msgs) : inbox' = inbox \o q /\ dlq' = Trimmed(d \o dlq)
    BY <1>2, MoveExpiredLists
  <2>2. inbox' \in Seq(Msgs)
    BY <2>1 DEF TypeOK
  <2>3. dlq' \in Seq(Msgs)
    <3>1. d \o dlq \in Seq(Msgs)
      BY DEF TypeOK
    <3> QED BY <2>1, <3>1, TrimmedProperties
  <2>4. /\ DOMAIN claims' \subseteq ClaimIds
        /\ claims' \in [DOMAIN claims' -> Claim]
        /\ DOMAIN index' \subseteq ClaimIds
        /\ index' \in [DOMAIN index' -> Nat]
    BY <1>2 DEF MoveExpired, TypeOK, Without, Restrict
  <2>5. rc' \in [Msgs -> Nat]
    BY SMTT(40), <1>2 DEF MoveExpired, TypeOK
  <2>6. rcExpires' \in [Msgs -> Nat]
    <3>1. now + CounterTtl \in Nat
      BY SMTT(40), Bounds DEF TypeOK
    <3> QED BY <1>2, <3>1 DEF MoveExpired, TypeOK
  <2>7. recovered' \in [Msgs -> Nat]
    BY SMTT(40), <1>2 DEF MoveExpired, TypeOK
  <2>8. fate' \in [Msgs -> Fates]
    BY <1>2 DEF MoveExpired, TypeOK, Fates
  <2>9. UNCHANGED <<wrong, badCounter, sent, issued, told, stranded, holder, ackedBy, lapsed>>
    BY <1>2 DEF MoveExpired
  <2> QED BY <2>2, <2>3, <2>4, <2>5, <2>6, <2>7, <2>8, <2>9 DEF TypeOK
<1> QED BY <1>1, <1>2 DEF Recover

\* Ending a call, and losing its answer, keep the types of the calls.
LEMMA EndCallType ==
  ASSUME TypeOK, NEW s \in Sessions, EndCall(s)
  PROVE  CallsOK'
  BY DEF EndCall, TypeOK, CallsOK

LEMMA UnansweredType ==
  ASSUME TypeOK, NEW s \in Sessions, NEW r \in Request, Unanswered(s, r)
  PROVE  CallsOK'
  BY DEF Unanswered, AnswerLost, TypeOK, CallsOK

\* The fields of a request.
LEMMA RequestFields ==
  ASSUME NEW r \in Request
  PROVE  /\ r.claim \in ClaimIds
         /\ r.ttl \in Nat /\ r.ttl <= MaxTtl
         /\ r.max \in Nat
  BY Bounds DEF Request

\* The pops cut the inbox in two.
LEMMA BatchAndRest ==
  ASSUME inbox \in Seq(Msgs), NEW max \in Nat
  PROVE  \E n \in 0..Len(inbox) :
           /\ Batch(max) \in Seq(Msgs) /\ DOMAIN Batch(max) = 1..n
           /\ Rest(max) \in Seq(Msgs) /\ DOMAIN Rest(max) = 1..(Len(inbox) - n)
           /\ \A i \in 1..n : Batch(max)[i] = inbox[i]
           /\ \A i \in 1..(Len(inbox) - n) : Rest(max)[i] = inbox[n + i]
           /\ Range(inbox) = Range(Batch(max)) \cup Range(Rest(max))
           /\ IsInjective(inbox) => /\ IsInjective(Batch(max)) /\ IsInjective(Rest(max))
                                    /\ Range(Batch(max)) \cap Range(Rest(max)) = {}
<1> DEFINE n == IF Len(inbox) < max THEN Len(inbox) ELSE max
<1>1. Len(inbox) \in Nat /\ n \in 0..Len(inbox)
  OBVIOUS
<1>2. Batch(max) = SubSeq(inbox, 1, n) /\ Rest(max) = SubSeq(inbox, n + 1, Len(inbox))
  BY DEF Batch, Rest
<1> HIDE DEF n
<1>3. /\ Batch(max) \in Seq(Msgs) /\ Len(Batch(max)) = n
      /\ Rest(max) \in Seq(Msgs) /\ Len(Rest(max)) = Len(inbox) - n
      /\ \A i \in 1..n : Batch(max)[i] = inbox[i]
      /\ \A i \in 1..(Len(inbox) - n) : Rest(max)[i] = inbox[n + i]
      /\ Range(inbox) = Range(Batch(max)) \cup Range(Rest(max))
      /\ IsInjective(inbox) => /\ IsInjective(Batch(max)) /\ IsInjective(Rest(max))
                               /\ Range(Batch(max)) \cap Range(Rest(max)) = {}
  BY <1>1, <1>2, SplitProperties
<1>4. DOMAIN Batch(max) = 1..n /\ DOMAIN Rest(max) = 1..(Len(inbox) - n)
  BY <1>3
<1> QED BY <1>1, <1>3, <1>4

\* The claim the script writes, field by field.
LEMMA GrantedFields ==
  ASSUME TypeOK, NEW s \in Sessions, NEW r \in Request
  PROVE  /\ Granted(s, r) \in Claim
         /\ Granted(s, r).session = s /\ Granted(s, r).claimed_at = at[s]
         /\ Granted(s, r).expires_at = at[s] + r.ttl
         /\ Granted(s, r).tasks = Batch(r.max)
         /\ at[s] \in Nat /\ at[s] + r.ttl \in Nat
<1>1. Batch(r.max) \in Seq(Msgs)
  BY RequestFields, BatchAndRest DEF TypeOK
<1>2. at[s] \in Nat /\ at[s] + r.ttl \in Nat
  BY RequestFields DEF TypeOK
<1> QED BY <1>1, <1>2 DEF Granted, Claim

\* A run of the batch-claim script, for the first time or again.
ClaimStep(s, r) == BatchClaim(s, r) \/ Resend(s, r)

\* What both have in common.
LEMMA ClaimSteps ==
  ASSUME TypeOK, NEW s \in Sessions, NEW r \in Request, ClaimStep(s, r)
  PROVE  /\ ~Refused
         /\ RunBatch(s, r)
         /\ CallsOK'
         /\ issued' = issued \cup {r.claim} \/ (r \in req[s] /\ issued' = issued)
         /\ r.claim \notin issued \/ r \in req[s]
         /\ \/ EndCall(s) /\ told' = told
            \/ EndCall(s) /\ wrong \cap {"claims", "index"} = {} /\ told' = told \cup {r.claim}
            \/ /\ req' = [req EXCEPT ![s] = {r}] /\ UNCHANGED <<at, told, limit>>
               /\ lost' = lost + 1
<1>1. Answered(s, r) \/ Unanswered(s, r)
  BY DEF ClaimStep, BatchClaim, Resend
<1>2. CallsOK'
  BY <1>1, EndCallType, UnansweredType DEF Answered
<1> QED BY <1>1, <1>2
     DEF ClaimStep, BatchClaim, Resend, Answered, Unanswered, AnswerLost

\* The three ways the script can end after its pops.
LEMMA ClaimCases ==
  ASSUME NEW s, NEW r, RunBatch(s, r)
  PROVE  /\ inbox' = Rest(r.max)
         /\ UNCHANGED <<dlq, rc, rcExpires, wrong, badCounter, env, sent, ackedBy, recovered, lapsed>>
         /\ \/ /\ "claims" \in wrong
               /\ fate' = [m \in Msgs |-> IF m \in Range(Batch(r.max)) THEN "aborted" ELSE fate[m]]
               /\ UNCHANGED <<claims, index, stranded, holder>>
            \/ /\ claims' = With(claims, r.claim, Granted(s, r))
               /\ holder' = [m \in Msgs |-> IF m \in Range(Batch(r.max)) THEN s ELSE holder[m]]
               /\ \/ /\ "index" \in wrong
                     /\ fate' = [m \in Msgs |->
                                   IF m \in TasksOf({r.claim}) THEN "overwritten"
                                   ELSE IF m \in Range(Batch(r.max)) THEN "stranded" ELSE fate[m]]
                     /\ stranded' = stranded \cup {r.claim} /\ UNCHANGED index
                  \/ /\ "index" \notin wrong
                     /\ fate' = [m \in Msgs |->
                                   IF m \in TasksOf({r.claim}) THEN "overwritten" ELSE fate[m]]
                     /\ stranded' = stranded \ {r.claim}
                     /\ index' = With(index, r.claim, at[s] + r.ttl)
<1>1. CASE "index" \in wrong
  BY <1>1 DEF RunBatch
<1>2. CASE "index" \notin wrong
  BY <1>2 DEF RunBatch
<1> QED BY <1>1, <1>2

\* What the script writes is well typed.
LEMMA ClaimStepType ==
  ASSUME TypeOK, NEW s \in Sessions, NEW r \in Request, ClaimStep(s, r)
  PROVE  TypeOK'
<1>1. /\ r.claim \in ClaimIds
      /\ Rest(r.max) \in Seq(Msgs)
  BY RequestFields, BatchAndRest DEF TypeOK
<1>2. Granted(s, r) \in Claim /\ at[s] + r.ttl \in Nat
  BY GrantedFields
<1>3. RunBatch(s, r) /\ CallsOK' /\ told' \subseteq ClaimIds /\ issued' \subseteq ClaimIds
  <2>1. /\ told' = told \/ told' = told \cup {r.claim}
        /\ issued' = issued \/ issued' = issued \cup {r.claim}
    BY ClaimSteps
  <2>2. told' \subseteq ClaimIds /\ issued' \subseteq ClaimIds
    BY <1>1, <2>1 DEF TypeOK
  <2> QED BY <2>2, ClaimSteps
<1> HIDE DEF ClaimStep
<1>4. /\ inbox' \in Seq(Msgs)
      /\ UNCHANGED <<dlq, rc, rcExpires, wrong, badCounter, env, sent, ackedBy, recovered, lapsed>>
  BY <1>1, <1>3, ClaimCases
<1>5. DOMAIN claims' \subseteq ClaimIds /\ claims' \in [DOMAIN claims' -> Claim]
  <2>1. CASE claims' = claims
    BY <2>1 DEF TypeOK
  <2>2. CASE claims' = With(claims, r.claim, Granted(s, r))
    BY <1>1, <1>2, <2>2 DEF TypeOK, With
  <2> QED BY <1>3, <2>1, <2>2, ClaimCases
<1>6. DOMAIN index' \subseteq ClaimIds /\ index' \in [DOMAIN index' -> Nat]
  <2>1. CASE index' = index
    BY <2>1 DEF TypeOK
  <2>2. CASE index' = With(index, r.claim, at[s] + r.ttl)
    BY <1>1, <1>2, <2>2 DEF TypeOK, With
  <2> QED BY <1>3, <2>1, <2>2, ClaimCases
<1>7. fate' \in [Msgs -> Fates]
  BY <1>3, ClaimCases DEF TypeOK, Fates
<1>8. holder' \in [Msgs -> Holder]
  <2>1. CASE holder' = holder
    BY <2>1 DEF TypeOK
  <2>2. CASE holder' = [m \in Msgs |-> IF m \in Range(Batch(r.max)) THEN s ELSE holder[m]]
    BY <2>2 DEF TypeOK, Holder
  <2>3. \/ holder' = holder
        \/ holder' = [m \in Msgs |-> IF m \in Range(Batch(r.max)) THEN s ELSE holder[m]]
    <3> HIDE DEF TypeOK
    <3> QED BY <1>3, ClaimCases
  <2> QED BY <2>1, <2>2, <2>3
<1>9. stranded' \subseteq ClaimIds
  <2>1. \/ stranded' = stranded \/ stranded' = stranded \cup {r.claim}
        \/ stranded' = stranded \ {r.claim}
    BY <1>3, ClaimCases
  <2> QED BY <1>1, <2>1 DEF TypeOK
<1> QED BY <1>3, <1>4, <1>5, <1>6, <1>7, <1>8, <1>9 DEF TypeOK, CallsOK, env

\* Every action keeps the variables in their types.
LEMMA TypeStep == TypeOK /\ [Next]_vars => TypeOK'
<1> SUFFICES ASSUME TypeOK, [Next]_vars PROVE TypeOK'
  OBVIOUS
<1> USE DEF env
<1>1. ASSUME NEW m \in Msgs, Send(m) PROVE TypeOK'
  <2>1. inbox' \in Seq(Msgs) /\ sent' \in Seq(Msgs)
    BY <1>1 DEF Send, TypeOK
  <2>2. fate' \in [Msgs -> Fates]
    BY <1>1 DEF Send, TypeOK, Fates
  <2> QED BY <1>1, <2>1, <2>2 DEF Send, TypeOK, calls
<1>2. ASSUME NEW m \in Msgs, Requeue(m) PROVE TypeOK'
  <2>1. dlq' \in Seq(Msgs)
    BY <1>2, RemoveAtProperties DEF Requeue, TypeOK
  <2>2. inbox' \in Seq(Msgs)
    BY <1>2 DEF Requeue, TypeOK
  <2> QED BY <1>2, <2>1, <2>2 DEF Requeue, TypeOK, calls
<1>3. ASSUME NEW s \in Sessions, StartClaim(s) PROVE TypeOK'
  BY <1>3 DEF StartClaim, TypeOK, store, ghost
<1>4. ASSUME NEW s \in Sessions, RecoverForClaim(s) PROVE TypeOK'
  <2>1. CallsOK'
    <3>1. CASE EndCall(s)
      BY <3>1, EndCallType
    <3>2. CASE pc' = [pc EXCEPT ![s] = "claiming"] /\ UNCHANGED <<at, req, lost, limit>>
      BY <3>2 DEF TypeOK, CallsOK
    <3>3. CASE AnswerLost /\ UNCHANGED <<pc, at, req>>
      BY <3>3 DEF AnswerLost, TypeOK, CallsOK
    <3> QED BY <1>4, <3>1, <3>2, <3>3 DEF RecoverForClaim
  <2> QED BY <1>4, <2>1, RecoverType DEF RecoverForClaim
<1>5. ASSUME NEW s \in Sessions, ClaimNothing(s) \/ CrashCall(s) PROVE TypeOK'
  <2>1. UNCHANGED <<store, env, ghost>> /\ EndCall(s)
    BY <1>5 DEF ClaimNothing, CrashCall
  <2> QED BY <2>1, EndCallType DEF TypeOK, CallsOK, store, ghost
<1>6. ASSUME NEW s \in Sessions, NEW r \in Request, ClaimStep(s, r) PROVE TypeOK'
  BY <1>6, ClaimStepType
<1>7. ASSUME NEW s \in Sessions, NEW c \in ClaimIds, Acknowledge(s, c) PROVE TypeOK'
  <2>1. /\ DOMAIN claims' \subseteq ClaimIds
        /\ claims' \in [DOMAIN claims' -> Claim]
        /\ DOMAIN index' \subseteq ClaimIds
        /\ index' \in [DOMAIN index' -> Nat]
    BY <1>7 DEF Acknowledge, TypeOK, Without, Restrict
  <2>2. /\ rc' \in [Msgs -> Nat]
        /\ rcExpires' \in [Msgs -> Nat]
    BY <1>7 DEF Acknowledge, TypeOK
  <2>3. /\ fate' \in [Msgs -> Fates]
        /\ ackedBy' \in [Msgs -> Holder]
        /\ badCounter' \subseteq Msgs
    BY <1>7 DEF Acknowledge, TypeOK, Fates, Holder
  <2> QED BY <1>7, <2>1, <2>2, <2>3 DEF Acknowledge, TypeOK, calls
<1>8. ASSUME NEW s \in Sessions, NEW c \in ClaimIds, NEW ttl \in 1..MaxTtl, Renew(s, c, ttl)
      PROVE  TypeOK'
  <2>1. RenewedExpiry(c, ttl) \in Nat
    <3>1. claims[c].claimed_at \in Nat
      BY <1>8 DEF Renew, TypeOK, Claim
    <3>2. now \in Nat /\ ttl \in Nat /\ Budget \in Nat
      BY Bounds DEF TypeOK
    <3> QED BY <3>1, <3>2 DEF RenewedExpiry
  <2>2. DOMAIN claims' \subseteq ClaimIds /\ claims' \in [DOMAIN claims' -> Claim]
    BY ZenonT(60), <1>8, <2>1 DEF Renew, TypeOK, Claim
  <2>3. DOMAIN index' \subseteq ClaimIds /\ index' \in [DOMAIN index' -> Nat]
    BY <1>8, <2>1 DEF Renew, TypeOK
  <2> QED BY <1>8, <2>2, <2>3 DEF Renew, TypeOK, calls, ghost
<1>9. ASSUME RecoverExpired PROVE TypeOK'
  <2>1. CallsOK'
    BY <1>9 DEF RecoverExpired, TypeOK, CallsOK, calls
  <2> QED BY <1>9, <2>1, RecoverType DEF RecoverExpired
<1>10. ASSUME Unregister PROVE TypeOK'
  <2>1. /\ DOMAIN claims' \subseteq ClaimIds
        /\ claims' \in [DOMAIN claims' -> Claim]
        /\ DOMAIN index' \subseteq ClaimIds
        /\ index' \in [DOMAIN index' -> Nat]
    BY <1>10 DEF Unregister, TypeOK, Without, Restrict
  <2>2. /\ rc' \in [Msgs -> Nat]
        /\ rcExpires' \in [Msgs -> Nat]
        /\ fate' \in [Msgs -> Fates]
    BY <1>10 DEF Unregister, TypeOK, Fates
  <2> QED BY <1>10, <2>1, <2>2 DEF Unregister, TypeOK, calls
<1>11. ASSUME Tick PROVE TypeOK'
  <2>1. now' \in Nat /\ rc' \in [Msgs -> Nat] /\ rcExpires' \in [Msgs -> Nat]
        /\ lapsed' \subseteq Msgs
    BY <1>11 DEF Tick, TypeOK
  <2> QED BY <1>11, <2>1 DEF Tick, TypeOK, calls
<1>12. ASSUME Corrupt PROVE TypeOK'
  <2>1. TasksOf(DOMAIN claims) \subseteq Msgs
    BY TasksOfType
  <2>2. wrong' \subseteq Keys /\ badCounter' \subseteq Msgs /\ damage' \in Nat
    BY <1>12, <2>1 DEF Corrupt, TypeOK, Keys
  <2>3. UNCHANGED <<inbox, claims, index, dlq, rc, rcExpires, now, calls, ghost>>
    BY <1>12 DEF Corrupt
  <2> QED BY <2>2, <2>3 DEF TypeOK, calls, ghost
<1>13. ASSUME Repair PROVE TypeOK'
  BY <1>13 DEF Repair, TypeOK, calls
<1>14. CASE UNCHANGED vars
  BY <1>14 DEF vars, store, calls, ghost, TypeOK
<1> QED
  BY <1>1, <1>2, <1>3, <1>4, <1>5, <1>6, <1>7, <1>8, <1>9, <1>10, <1>11, <1>12, <1>13, <1>14
     DEF Next, ClaimStep

\* Type correctness of the claim store and of the calls in flight.
THEOREM TypeCorrect == Spec => []TypeOK
<1>1. Init => TypeOK
  BY Bounds DEF Init, TypeOK, Fates, Holder
<1> QED BY <1>1, TypeStep, PTL DEF Spec

(***************************************************************************)
(* Claim records: the index mirrors the hash, expiries keep to the budget, *)
(* claim ids are never reissued and captured clocks are never ahead.       *)
(***************************************************************************)

\* A claim id in the store has been issued, so a fresh one is not in the store.
ClaimsIssued == DOMAIN claims \subseteq issued /\ told \subseteq issued

\* A call in flight works with a clock value that has passed.
ClockCaptured == \A s \in Sessions : at[s] <= now

\* A request to be sent again is its session's own: nobody was told of its claim, nobody
\* else has a request for it, and what the hash has under its id is that session's.
RequestsAreOwn ==
  \A s \in Sessions : \A r \in req[s] :
    /\ r.claim \in issued \ told
    /\ r.claim \in DOMAIN claims => claims[r.claim].session = s
    /\ \A u \in Sessions \ {s} : \A q \in req[u] : q.claim # r.claim
    /\ lost > 0

\* A key of the wrong type was damaged, has nothing of the actor's, and strands no claim of
\* an actor with a ceiling.
DamageIsBounded ==
  /\ wrong # {} => damage > 0
  /\ "index" \in wrong => DOMAIN index = {}
  /\ limit > 0 => stranded = {}

\* The parts of the record invariant beyond the types.
Records ==
  IndexMirrorsHash /\ WithinBudget /\ ClaimsIssued /\ ClockCaptured /\ RequestsAreOwn
    /\ DamageIsBounded

RecordInv == TypeOK /\ Records

\* Deleting the same claims from the hash and the index keeps them in step.
LEMMA DeleteKeepsRecords ==
  ASSUME RecordInv, NEW C, claims' = Without(claims, C), index' = Without(index, C),
         UNCHANGED <<issued, told, stranded, req, lost, limit>>,
         wrong' \subseteq wrong, damage' = damage
  PROVE  /\ IndexMirrorsHash' /\ WithinBudget' /\ ClaimsIssued'
         /\ RequestsAreOwn' /\ DamageIsBounded'
<1>1. /\ DOMAIN claims' = DOMAIN claims \ C /\ DOMAIN index' = DOMAIN index \ C
      /\ \A c \in DOMAIN claims' : claims'[c] = claims[c]
      /\ \A c \in DOMAIN index' : index'[c] = index[c]
  BY DEF Without, Restrict
<1>2. IndexMirrorsHash' /\ WithinBudget' /\ ClaimsIssued'
  BY <1>1 DEF RecordInv, Records, IndexMirrorsHash, WithinBudget, ClaimsIssued
<1>3. RequestsAreOwn'
  BY <1>1 DEF RecordInv, Records, RequestsAreOwn
<1>4. DamageIsBounded'
  BY <1>1 DEF RecordInv, Records, DamageIsBounded
<1> QED BY <1>2, <1>3, <1>4

\* The end of a call, and the loss of its answer, leave the other requests as they are.
LEMMA EndCallKeeps ==
  ASSUME RecordInv, NEW s \in Sessions, EndCall(s)
  PROVE  /\ req'[s] = {} /\ \A u \in Sessions \ {s} : req'[u] = req[u]
         /\ at'[s] = 0 /\ \A u \in Sessions \ {s} : at'[u] = at[u]
         /\ UNCHANGED <<lost, limit>>
  BY DEF EndCall, RecordInv, TypeOK

\* A run of the batch-claim script keeps the records in step.
LEMMA ClaimStepKeepsRecords ==
  ASSUME RecordInv, NEW s \in Sessions, NEW r \in Request, ClaimStep(s, r)
  PROVE  Records'
<1> DEFINE c == r.claim
<1> USE DEF RecordInv, Records
<1>1. RunBatch(s, r) /\ ~Refused /\ c \in issued' /\ issued \subseteq issued'
  BY ClaimSteps DEF ClaimStep, BatchClaim, Resend, TypeOK, RequestsAreOwn
<1>2. UNCHANGED <<wrong, damage, now>> /\ limit' = limit
  BY <1>1, ClaimSteps, ClaimCases DEF env, EndCall
<1>3. /\ Granted(s, r).session = s /\ Granted(s, r).claimed_at = at[s]
      /\ Granted(s, r).expires_at = at[s] + r.ttl
      /\ at[s] \in Nat /\ r.ttl \in Nat /\ at[s] + r.ttl <= at[s] + Budget
  <2>1. r.ttl \in Nat /\ r.ttl <= Budget /\ at[s] \in Nat
    BY SMTT(40), RequestFields, Bounds DEF TypeOK
  <2>2. /\ Granted(s, r).session = s /\ Granted(s, r).claimed_at = at[s]
        /\ Granted(s, r).expires_at = at[s] + r.ttl
    BY GrantedFields
  <2> QED BY <2>1, <2>2, Bounds
<1>4. c \notin told
  BY ClaimSteps DEF TypeOK, RequestsAreOwn, ClaimsIssued
<1>5. told' = told \/ (told' = told \cup {c} /\ "index" \notin wrong /\ "claims" \notin wrong)
  BY ClaimSteps
<1>6. ClockCaptured'
  <2>1. CASE UNCHANGED at
    BY <1>2, <2>1 DEF ClockCaptured
  <2>2. CASE EndCall(s)
    <3>1. at'[s] = 0 /\ \A u \in Sessions \ {s} : at'[u] = at[u]
      BY <2>2, EndCallKeeps
    <3>2. now \in Nat /\ now' = now
      BY <1>2 DEF TypeOK
    <3> QED BY <3>1, <3>2 DEF ClockCaptured
  <2> QED BY <2>1, <2>2, ClaimSteps
<1>7. ASSUME UNCHANGED <<claims, index, stranded>>, "claims" \in wrong
      PROVE  IndexMirrorsHash' /\ WithinBudget' /\ ClaimsIssued' /\ DamageIsBounded'
  <2>1. told' = told
    BY <1>5, <1>7
  <2> QED BY <1>1, <1>2, <1>7, <2>1
          DEF IndexMirrorsHash, WithinBudget, ClaimsIssued, DamageIsBounded
<1>8. ASSUME claims' = With(claims, c, Granted(s, r)),
             \/ "index" \in wrong /\ stranded' = stranded \cup {c} /\ UNCHANGED index
             \/ /\ "index" \notin wrong
                /\ stranded' = stranded \ {c} /\ index' = With(index, c, at[s] + r.ttl)
      PROVE  /\ IndexMirrorsHash' /\ WithinBudget' /\ ClaimsIssued' /\ DamageIsBounded'
             /\ DOMAIN claims' = DOMAIN claims \cup {c} /\ claims'[c].session = s
             /\ \A e \in DOMAIN claims \ {c} : claims'[e] = claims[e]
  <2>1. /\ DOMAIN claims' = DOMAIN claims \cup {c} /\ claims'[c] = Granted(s, r)
        /\ \A e \in DOMAIN claims \ {c} : claims'[e] = claims[e]
    BY <1>8 DEF With
  <2>2. WithinBudget' /\ ClaimsIssued'
    <3>1. WithinBudget'
      <4> SUFFICES ASSUME NEW e \in DOMAIN claims'
                   PROVE  claims'[e].expires_at <= claims'[e].claimed_at + Budget
        BY DEF WithinBudget
      <4>1. CASE e = c
        BY <1>3, <2>1, <4>1
      <4>2. CASE e # c
        BY <2>1, <4>2 DEF WithinBudget
      <4> QED BY <4>1, <4>2
    <3>2. DOMAIN claims \subseteq issued /\ told \subseteq issued
      BY DEF ClaimsIssued
    <3>3. ClaimsIssued'
      BY <1>1, <1>5, <2>1, <3>2 DEF ClaimsIssued
    <3> QED BY <3>1, <3>3
  <2>3. CASE "index" \in wrong /\ stranded' = stranded \cup {c} /\ UNCHANGED index
    <3>1. DOMAIN index = {} /\ told' = told
      BY <1>5, <2>3 DEF DamageIsBounded
    <3>2. IndexMirrorsHash'
      BY <1>4, <2>1, <2>3, <3>1 DEF IndexMirrorsHash
    <3>3. ~(limit > 0)
      BY <1>1, <2>3 DEF Refused, AtCeiling
    <3>4. DamageIsBounded'
      BY <1>2, <2>3, <3>3 DEF DamageIsBounded
    <3> QED BY <1>3, <2>1, <2>2, <3>2, <3>4
  <2>4. CASE stranded' = stranded \ {c} /\ index' = With(index, c, at[s] + r.ttl)
             /\ "index" \notin wrong
    <3>1. /\ DOMAIN index' = DOMAIN index \cup {c} /\ index'[c] = at[s] + r.ttl
          /\ \A e \in DOMAIN index \ {c} : index'[e] = index[e]
      BY <2>4 DEF With
    <3>2. IndexMirrorsHash'
      BY <1>3, <1>5, <2>1, <2>4, <3>1 DEF IndexMirrorsHash
    <3>3. DamageIsBounded'
      BY <1>2, <2>4 DEF DamageIsBounded
    <3> QED BY <1>3, <2>1, <2>2, <3>2, <3>3
  <2> QED BY <1>8, <2>3, <2>4
<1>9. /\ IndexMirrorsHash' /\ WithinBudget' /\ ClaimsIssued' /\ DamageIsBounded'
      /\ \A e \in DOMAIN claims' \ {c} : e \in DOMAIN claims /\ claims'[e] = claims[e]
      /\ c \in DOMAIN claims' => claims'[c].session = s
  <2>1. CASE UNCHANGED <<claims, index, stranded>> /\ "claims" \in wrong
    <3>1. c \in DOMAIN claims => claims[c].session = s
      BY ClaimSteps DEF RequestsAreOwn, ClaimsIssued
    <3> QED BY <1>7, <2>1, <3>1
  <2>2. CASE ~(UNCHANGED <<claims, index, stranded>> /\ "claims" \in wrong)
    <3>1. /\ claims' = With(claims, c, Granted(s, r))
          /\ \/ "index" \in wrong /\ stranded' = stranded \cup {c} /\ UNCHANGED index
             \/ /\ "index" \notin wrong
                /\ stranded' = stranded \ {c} /\ index' = With(index, c, at[s] + r.ttl)
      BY <1>1, <2>2, ClaimCases
    <3> QED BY <1>8, <3>1
  <2> QED BY <2>1, <2>2
<1>10. RequestsAreOwn'
  <2>1. /\ lost' \in Nat /\ lost \in Nat
        /\ lost' = lost \/ lost' = lost + 1
        /\ \A u \in Sessions \ {s} : req'[u] = req[u]
        /\ \/ req'[s] = {}
           \/ req'[s] = {r} /\ told' = told /\ lost' = lost + 1
    <3>1. CASE EndCall(s)
      <4>1. lost' = lost /\ req'[s] = {} /\ \A u \in Sessions \ {s} : req'[u] = req[u]
        BY <3>1, EndCallKeeps
      <4> QED BY <4>1 DEF TypeOK
    <3>2. CASE req' = [req EXCEPT ![s] = {r}] /\ told' = told /\ lost' = lost + 1
      BY <3>2 DEF TypeOK
    <3> QED BY <3>1, <3>2, ClaimSteps
  <2>2. \A u \in Sessions \ {s} : \A q \in req[u] : q.claim # c
    <3>1. CASE c \notin issued
      BY <3>1 DEF RequestsAreOwn
    <3>2. CASE r \in req[s]
      BY <3>2 DEF RequestsAreOwn
    <3> QED BY <3>1, <3>2, ClaimSteps
  <2>3. ASSUME NEW u \in Sessions \ {s}, NEW q \in req'[u]
        PROVE  /\ q.claim \in issued' \ told'
               /\ q.claim \in DOMAIN claims' => claims'[q.claim].session = u
               /\ \A v \in Sessions \ {u} : \A z \in req'[v] : z.claim # q.claim
               /\ lost' > 0
    <3>1. q \in req[u] /\ q.claim # c
      BY <2>1, <2>2, <2>3
    <3>2. /\ q.claim \in issued \ told /\ lost > 0
          /\ q.claim \in DOMAIN claims => claims[q.claim].session = u
          /\ \A v \in Sessions \ {u} : \A z \in req[v] : z.claim # q.claim
      BY <3>1 DEF RequestsAreOwn
    <3>3. \A v \in Sessions \ {u} : \A z \in req'[v] : z.claim # q.claim
      BY <2>1, <3>1, <3>2
    <3> QED BY <1>1, <1>5, <1>9, <2>1, <3>1, <3>2, <3>3
  <2>4. ASSUME NEW q \in req'[s]
        PROVE  /\ q.claim \in issued' \ told'
               /\ q.claim \in DOMAIN claims' => claims'[q.claim].session = s
               /\ \A v \in Sessions \ {s} : \A z \in req'[v] : z.claim # q.claim
               /\ lost' > 0
    <3>1. q = r /\ told' = told /\ lost' = lost + 1
      BY <2>1, <2>4
    <3> QED BY <1>1, <1>4, <1>9, <2>1, <2>2, <3>1
  <2> QED BY <2>3, <2>4 DEF RequestsAreOwn
<1> QED BY <1>6, <1>9, <1>10

\* Every action keeps the records and the index in step.
LEMMA RecordStep == RecordInv /\ [Next]_vars => RecordInv'
<1> SUFFICES ASSUME RecordInv, [Next]_vars PROVE Records'
  BY TypeStep DEF RecordInv
<1> USE DEF RecordInv, env, calls, store, ghost
<1>1. ASSUME UNCHANGED <<claims, index, issued, told, stranded, wrong, damage>>
      PROVE  /\ IndexMirrorsHash' /\ WithinBudget' /\ ClaimsIssued'
             /\ limit' = limit => DamageIsBounded'
  BY <1>1 DEF Records, IndexMirrorsHash, WithinBudget, ClaimsIssued, DamageIsBounded
<1>2. ASSUME UNCHANGED <<at, now>> PROVE ClockCaptured'
  BY <1>2 DEF Records, ClockCaptured
<1>3. ASSUME NEW s \in Sessions, EndCall(s), UNCHANGED now PROVE ClockCaptured'
  BY <1>3 DEF EndCall, Records, ClockCaptured, TypeOK
<1>4. ASSUME UNCHANGED <<issued, told, claims>>, lost' \in Nat, lost' >= lost,
             \A u \in Sessions : req'[u] \subseteq req[u]
      PROVE  RequestsAreOwn'
  <2>1. lost \in Nat
    BY DEF TypeOK
  <2> QED BY <1>4, <2>1 DEF Records, RequestsAreOwn
<1>5. ASSUME NEW s \in Sessions, EndCall(s)
      PROVE  lost' \in Nat /\ lost' >= lost /\ \A u \in Sessions : req'[u] \subseteq req[u]
  <2>1. lost \in Nat
    BY DEF TypeOK
  <2> QED BY <1>5, <2>1, EndCallKeeps
<1>6. ASSUME UNCHANGED <<claims, index, issued, told, stranded, wrong, damage, calls, now>>
      PROVE  Records'
  <2>1. lost' \in Nat /\ lost' >= lost /\ \A u \in Sessions : req'[u] \subseteq req[u]
    BY <1>6 DEF TypeOK
  <2> QED BY <1>1, <1>2, <1>4, <1>6, <2>1 DEF Records
<1>7. ASSUME NEW t, Recover(t), UNCHANGED <<env, limit>>, lost' \in Nat, lost' >= lost,
             \A u \in Sessions : req'[u] \subseteq req[u]
      PROVE  /\ IndexMirrorsHash' /\ WithinBudget' /\ ClaimsIssued'
             /\ RequestsAreOwn' /\ DamageIsBounded'
  <2>1. CASE UNCHANGED <<store, ghost>>
    BY <1>1, <1>4, <1>7, <2>1
  <2>2. CASE MoveExpired(Expired(t))
    <3>1. /\ claims' = Without(claims, Expired(t)) /\ index' = Without(index, Expired(t))
          /\ UNCHANGED <<issued, told, stranded, wrong, damage, limit>>
      BY <1>7, <2>2 DEF MoveExpired
    <3>2. /\ DOMAIN claims' = DOMAIN claims \ Expired(t)
          /\ DOMAIN index' = DOMAIN index \ Expired(t)
          /\ \A c \in DOMAIN claims' : claims'[c] = claims[c]
          /\ \A c \in DOMAIN index' : index'[c] = index[c]
      BY <3>1 DEF Without, Restrict
    <3>3. IndexMirrorsHash' /\ WithinBudget' /\ ClaimsIssued'
      BY <3>1, <3>2 DEF Records, IndexMirrorsHash, WithinBudget, ClaimsIssued
    <3>4. RequestsAreOwn'
      <4>1. lost \in Nat
        BY DEF TypeOK
      <4> QED BY <1>7, <3>1, <3>2, <4>1 DEF Records, RequestsAreOwn
    <3>5. DamageIsBounded'
      BY <3>1, <3>2 DEF Records, DamageIsBounded
    <3> QED BY <3>3, <3>4, <3>5
  <2> QED BY <1>7, <2>1, <2>2 DEF Recover
<1>8. ASSUME NEW m \in Msgs, Send(m) \/ Requeue(m) PROVE Records'
  BY <1>6, <1>8 DEF Send, Requeue
<1>9. ASSUME NEW s \in Sessions, StartClaim(s) PROVE Records'
  <2>1. ClockCaptured'
    BY <1>9 DEF StartClaim, Records, ClockCaptured, TypeOK
  <2>2. lost' \in Nat /\ lost' >= lost /\ \A u \in Sessions : req'[u] \subseteq req[u]
    BY <1>9 DEF StartClaim, TypeOK
  <2> QED BY <1>1, <1>4, <1>9, <2>1, <2>2 DEF StartClaim, Records
<1>10. ASSUME NEW s \in Sessions, RecoverForClaim(s) PROVE Records'
  <2>1. /\ lost' \in Nat /\ lost' >= lost /\ \A u \in Sessions : req'[u] \subseteq req[u]
        /\ limit' = limit /\ ClockCaptured'
    <3>1. CASE EndCall(s)
      BY <1>3, <1>5, <1>10, <3>1 DEF RecoverForClaim, EndCall
    <3>2. CASE UNCHANGED <<at, req, limit>> /\ (lost' = lost \/ lost' = lost + 1)
      BY <1>2, <1>10, <3>2 DEF RecoverForClaim, TypeOK
    <3> QED BY <1>10, <3>1, <3>2 DEF RecoverForClaim, AnswerLost
  <2>2. Recover(at[s]) /\ UNCHANGED env
    BY <1>10 DEF RecoverForClaim
  <2> QED BY <1>7, <2>1, <2>2 DEF Records
<1>11. ASSUME NEW s \in Sessions, ClaimNothing(s) \/ CrashCall(s) PROVE Records'
  <2>1. EndCall(s) /\ UNCHANGED <<store, env, ghost>> /\ limit' = limit
    BY <1>11 DEF ClaimNothing, CrashCall, EndCall
  <2> QED BY <1>1, <1>3, <1>4, <1>5, <2>1 DEF Records
<1>12. ASSUME NEW s \in Sessions, NEW r \in Request, ClaimStep(s, r) PROVE Records'
  BY <1>12, ClaimStepKeepsRecords
<1>13. ASSUME NEW s \in Sessions, NEW c \in ClaimIds, Acknowledge(s, c) PROVE Records'
  BY <1>2, <1>13, DeleteKeepsRecords DEF Acknowledge, Records
<1>14. ASSUME NEW s \in Sessions, NEW c \in ClaimIds, NEW ttl \in 1..MaxTtl, Renew(s, c, ttl)
       PROVE  Records'
  <2>1. c \in DOMAIN claims /\ claims[c] \in Claim
    BY <1>14 DEF Renew, TypeOK
  <2>2. RenewedExpiry(c, ttl) <= claims[c].claimed_at + Budget
    <3>1. now \in Nat /\ ttl \in Nat /\ claims[c].claimed_at \in Nat /\ Budget \in Nat
      BY SMTT(40), <2>1, Bounds DEF TypeOK, Claim
    <3> QED BY <3>1 DEF RenewedExpiry
  <2>3. /\ DOMAIN claims' = DOMAIN claims
        /\ claims'[c].expires_at = RenewedExpiry(c, ttl)
        /\ claims'[c].claimed_at = claims[c].claimed_at
        /\ claims'[c].session = claims[c].session
        /\ \A e \in DOMAIN claims \ {c} : claims'[e] = claims[e]
    BY <1>14, <2>1 DEF Renew, Claim
  <2>4. /\ index' = [x \in DOMAIN index |-> IF x = c THEN RenewedExpiry(c, ttl) ELSE index[x]]
        /\ UNCHANGED <<issued, told, stranded, req, lost, limit, at, now, wrong, damage>>
    BY <1>14 DEF Renew
  <2>5. IndexMirrorsHash'
    BY <2>1, <2>3, <2>4 DEF Records, IndexMirrorsHash
  <2>6. WithinBudget'
    BY <2>2, <2>3 DEF Records, WithinBudget
  <2>7. ClaimsIssued' /\ ClockCaptured' /\ DamageIsBounded'
    BY <1>2, <2>3, <2>4 DEF Records, ClaimsIssued, DamageIsBounded
  <2>8. RequestsAreOwn'
    BY <2>3, <2>4 DEF Records, RequestsAreOwn
  <2> QED BY <2>5, <2>6, <2>7, <2>8 DEF Records
<1>15. ASSUME RecoverExpired PROVE Records'
  <2>1. /\ lost' \in Nat /\ lost' >= lost /\ \A u \in Sessions : req'[u] \subseteq req[u]
        /\ limit' = limit /\ ClockCaptured'
    BY <1>2, <1>15 DEF RecoverExpired, TypeOK
  <2> QED BY <1>7, <1>15, <2>1 DEF RecoverExpired, Records
<1>16. ASSUME Unregister PROVE Records'
  BY <1>2, <1>16, DeleteKeepsRecords DEF Unregister, Records
<1>17. ASSUME Tick PROVE Records'
  <2>1. ClockCaptured'
    BY <1>17 DEF Tick, Records, ClockCaptured, TypeOK
  <2>2. lost' \in Nat /\ lost' >= lost /\ \A u \in Sessions : req'[u] \subseteq req[u]
    BY <1>17 DEF Tick, TypeOK
  <2> QED BY <1>1, <1>4, <1>17, <2>1, <2>2 DEF Tick, Records
<1>18. ASSUME Corrupt \/ Repair PROVE Records'
  <2>1. UNCHANGED <<claims, index, issued, told, stranded, now, calls>>
    BY <1>18 DEF Corrupt, Repair
  <2>2. lost' \in Nat /\ lost' >= lost /\ \A u \in Sessions : req'[u] \subseteq req[u]
    BY <2>1 DEF TypeOK
  <2>3. IndexMirrorsHash' /\ WithinBudget' /\ ClaimsIssued'
    BY <2>1 DEF Records, IndexMirrorsHash, WithinBudget, ClaimsIssued
  <2>4. DamageIsBounded'
    <3>1. damage \in Nat
      BY DEF TypeOK
    <3> QED BY <1>18, <2>1, <3>1 DEF Corrupt, Repair, Records, DamageIsBounded
  <2> QED BY <1>2, <1>4, <2>1, <2>2, <2>3, <2>4 DEF Records
<1>19. CASE UNCHANGED vars
  BY <1>6, <1>19 DEF vars
<1> QED
  BY <1>8, <1>9, <1>10, <1>11, <1>12, <1>13, <1>14, <1>15, <1>16, <1>17, <1>18, <1>19
     DEF Next, ClaimStep

\* The record invariant holds initially, and so always.
LEMMA InitRecords == Init => RecordInv
<1> SUFFICES ASSUME Init PROVE RecordInv
  OBVIOUS
<1>1. TypeOK
  BY Bounds DEF Init, TypeOK, Fates, Holder
<1> QED BY <1>1 DEF Init, RecordInv, Records, IndexMirrorsHash, WithinBudget, ClaimsIssued,
                    ClockCaptured, RequestsAreOwn, DamageIsBounded

LEMMA RecordInvariant == Spec => []RecordInv
  BY InitRecords, RecordStep, PTL DEF Spec

\* Recovery finds every claim, at the expiry its record shows.
THEOREM IndexAlwaysMirrorsHash == Spec => []IndexMirrorsHash
  BY RecordInvariant, PTL DEF RecordInv, Records

\* Renewals never carry a claim past its lifetime budget.
THEOREM BudgetIsNeverExceeded == Spec => []WithinBudget
  BY RecordInvariant, PTL DEF RecordInv, Records

\* Index and budget together: a claim kept alive by renewals is found by recovery
\* at its recorded expiry, which the budget bounds.
THEOREM RenewalsStayBounded == Spec => []RenewalsAreBounded
  BY IndexAlwaysMirrorsHash, BudgetIsNeverExceeded, PTL DEF RenewalsAreBounded

(***************************************************************************)
(* Conservation: one copy of every live message, and none lost.            *)
(***************************************************************************)

\* The messages that can still be delivered, claim by claim.
Kept ==
  \A m \in Msgs :
    fate[m] = "live" <=>
      \/ m \in Range(inbox) \/ m \in Range(dlq)
      \/ \E c \in DOMAIN index : m \in Range(claims[c].tasks)

\* A message went in an accident only when there was one.
Accidents ==
  \A m \in Msgs :
    /\ fate[m] = "overwritten" => lost > 0
    /\ fate[m] \in {"aborted", "stranded"} => damage > 0

\* The messages of a claim that the index never got stay out of the way.
StrandedStay ==
  \A c \in DOMAIN claims \cap stranded : \A m \in Range(claims[c].tasks) : fate[m] = "stranded"

Copies == ExactlyOneCopy /\ Kept /\ StrandedStay

CopyInv == RecordInv /\ Copies /\ Accidents

\* The two parts are what NothingLost says.
LEMMA KeptMeans == RecordInv => (NothingLost <=> Kept /\ Accidents)
<1> SUFFICES ASSUME RecordInv PROVE NothingLost <=> Kept /\ Accidents
  OBVIOUS
<1>1. DOMAIN index \subseteq DOMAIN claims
  BY DEF RecordInv, Records, IndexMirrorsHash
<1>2. \A m \in Msgs : m \in TasksOf(DOMAIN index)
                       <=> \E c \in DOMAIN index : m \in Range(claims[c].tasks)
  BY <1>1 DEF TasksOf
<1> QED BY <1>2 DEF NothingLost, Kept, Accidents

\* A message of a claim is in no other place, and what recovery finds is not stranded.
LEMMA ClaimIndexed ==
  ASSUME RecordInv
  PROVE  /\ DOMAIN index = DOMAIN claims \ stranded
         /\ DOMAIN index \subseteq DOMAIN claims
  BY DEF RecordInv, Records, IndexMirrorsHash

\* Pass 2 of the recovery script moves messages, and loses and copies none.
LEMMA MoveExpiredKeepsCopies ==
  ASSUME CopyInv, NEW C \in SUBSET DOMAIN index, MoveExpired(C)
  PROVE  Copies'
<1>0. DOMAIN index = DOMAIN claims \ stranded /\ DOMAIN index \subseteq DOMAIN claims
  BY ClaimIndexed DEF CopyInv
<1> DEFINE dead == Exhausted(C)
           back == TasksOf(C) \ dead
<1> USE DEF CopyInv, Copies, RecordInv, Records
<1>1. PICK q, d \in Seq(Msgs) :
        /\ Range(q) = back /\ IsInjective(q)
        /\ Range(d) = dead /\ IsInjective(d)
        /\ inbox' = inbox \o q
        /\ dlq' = Trimmed(d \o dlq)
  BY MoveExpiredLists
<1>2. /\ inbox \in Seq(Msgs) /\ dlq \in Seq(Msgs)
      /\ IsInjective(inbox) /\ IsInjective(dlq) /\ Range(inbox) \cap Range(dlq) = {}
  BY DEF TypeOK, ExactlyOneCopy
<1>3. /\ dead \subseteq TasksOf(C)
      /\ TasksOf(C) \cap (Range(inbox) \cup Range(dlq)) = {}
  BY DEF Exhausted, TasksOf, ExactlyOneCopy
<1>4. IsInjective(inbox') /\ Range(inbox') = Range(inbox) \cup back
  BY <1>1, <1>2, <1>3, JoinProperties
<1>5. /\ d \o dlq \in Seq(Msgs)
      /\ IsInjective(d \o dlq)
      /\ Range(d \o dlq) = dead \cup Range(dlq)
  BY <1>1, <1>2, <1>3, JoinProperties
<1>6. IsInjective(dlq') /\ Range(dlq') \subseteq dead \cup Range(dlq)
  BY <1>1, <1>5, TrimmedProperties
<1>7. /\ DOMAIN claims' = DOMAIN claims \ C
      /\ \A c \in DOMAIN claims \ C : claims'[c] = claims[c]
  BY DEF MoveExpired, Without, Restrict
<1>71. DOMAIN index' = DOMAIN index \ C /\ stranded' = stranded
  BY DEF MoveExpired, Without, Restrict
<1>8. \A c \in DOMAIN claims \ C : Range(claims[c].tasks) \cap TasksOf(C) = {}
  BY ZenonT(60) DEF TasksOf, ExactlyOneCopy
<1> HIDE DEF dead, back
<1>9. Range(inbox') \cap Range(dlq') = {}
  BY <1>2, <1>3, <1>4, <1>6 DEF back
<1>10. \A c \in DOMAIN claims' :
         /\ IsInjective(claims'[c].tasks)
         /\ Range(claims'[c].tasks) \cap (Range(inbox') \cup Range(dlq')) = {}
  BY <1>3, <1>4, <1>6, <1>7, <1>8 DEF ExactlyOneCopy, back
<1>11. \A c \in DOMAIN claims' : \A e \in DOMAIN claims' \ {c} :
         Range(claims'[c].tasks) \cap Range(claims'[e].tasks) = {}
  BY <1>7 DEF ExactlyOneCopy
<1>12. ExactlyOneCopy'
  BY <1>4, <1>6, <1>9, <1>10, <1>11 DEF ExactlyOneCopy
<1>13. Kept'
  <2> SUFFICES ASSUME NEW m \in Msgs
               PROVE  fate'[m] = "live" <=>
                      \/ m \in Range(inbox') \/ m \in Range(dlq')
                      \/ \E c \in DOMAIN index' : m \in Range(claims'[c].tasks)
    BY DEF Kept
  <2>1. fate'[m] = IF m \in (dead \cup Range(dlq)) \ Range(dlq') THEN "dropped" ELSE fate[m]
    BY DEF MoveExpired, dead
  <2>2. fate[m] = "live" <=>
          \/ m \in Range(inbox) \/ m \in Range(dlq)
          \/ \E c \in DOMAIN index : m \in Range(claims[c].tasks)
    BY DEF Kept
  <2>3. m \in TasksOf(C) <=> \E c \in C \cap DOMAIN claims : m \in Range(claims[c].tasks)
    BY DEF TasksOf
  <2>4. CASE m \in (dead \cup Range(dlq)) \ Range(dlq')
    <3>1. m \notin Range(inbox') /\ m \notin Range(dlq')
      BY <1>2, <1>3, <1>4, <2>4 DEF back
    <3>2. \A c \in DOMAIN claims' : m \notin Range(claims'[c].tasks)
      <4>1. CASE m \in dead
        BY <1>3, <1>7, <1>8, <4>1
      <4>2. CASE m \in Range(dlq)
        BY <1>7, <4>2 DEF ExactlyOneCopy
      <4> QED BY <2>4, <4>1, <4>2
    <3> QED BY <1>0, <1>7, <1>71, <2>1, <2>4, <3>1, <3>2
  <2>5. CASE ~(m \in (dead \cup Range(dlq)) \ Range(dlq'))
    <3>1. m \in Range(dlq') <=> m \in dead \/ m \in Range(dlq)
      BY <1>6, <2>5
    <3>2. m \in Range(inbox') <=> m \in Range(inbox) \/ (m \in TasksOf(C) /\ m \notin dead)
      BY <1>4 DEF back
    <3>3. (\E c \in DOMAIN index : m \in Range(claims[c].tasks)) <=>
            \/ m \in TasksOf(C)
            \/ \E c \in DOMAIN index' : m \in Range(claims'[c].tasks)
      BY <1>0, <1>7, <1>71, <2>3
    <3> QED BY <1>3, <2>1, <2>2, <2>5, <3>1, <3>2, <3>3
  <2> QED BY <2>4, <2>5
<1>14. StrandedStay'
  <2> SUFFICES ASSUME NEW c \in DOMAIN claims' \cap stranded', NEW m \in Range(claims'[c].tasks)
               PROVE  fate'[m] = "stranded"
    BY DEF StrandedStay
  <2>1. c \in DOMAIN claims \ C /\ c \in stranded /\ m \in Range(claims[c].tasks)
    BY <1>7, <1>71
  <2>2. m \in Msgs /\ fate[m] = "stranded"
    <3>1. claims[c].tasks \in Seq(Msgs)
      BY <2>1 DEF TypeOK, Claim
    <3> QED BY <2>1, <3>1, RangeOfSeq DEF StrandedStay
  <2>3. m \notin dead \cup Range(dlq)
    BY <1>3, <1>8, <2>1 DEF ExactlyOneCopy
  <2>4. fate'[m] = IF m \in (dead \cup Range(dlq)) \ Range(dlq') THEN "dropped" ELSE fate[m]
    BY <2>2 DEF MoveExpired, dead
  <2> QED BY <2>2, <2>3, <2>4
<1> QED BY <1>12, <1>13, <1>14

\* The recovery script, whichever way it ends, keeps the copy invariant.
LEMMA RecoverKeepsCopies ==
  ASSUME CopyInv, NEW t, Recover(t)
  PROVE  Copies'
<1>1. CASE UNCHANGED <<store, ghost>>
  BY <1>1 DEF CopyInv, Copies, ExactlyOneCopy, Kept, StrandedStay, store, ghost
<1>2. Expired(t) \subseteq DOMAIN index
  BY DEF Expired
<1> QED BY <1>1, <1>2, MoveExpiredKeepsCopies DEF Recover

\* A run of the batch-claim script keeps one copy: what it pops leaves the inbox, what it
\* overwrites leaves the store.
LEMMA ClaimStepKeepsCopies ==
  ASSUME CopyInv, NEW s \in Sessions, NEW r \in Request, ClaimStep(s, r)
  PROVE  Copies'
<1> DEFINE c == r.claim
           popped == Range(Batch(r.max))
           rest == Range(Rest(r.max))
           old == TasksOf({c})
<1>0. TypeOK /\ Records /\ ExactlyOneCopy /\ Kept /\ StrandedStay /\ RunBatch(s, r)
  BY ClaimSteps DEF CopyInv, Copies, RecordInv
<1>1. /\ Range(inbox) = popped \cup rest /\ popped \cap rest = {}
      /\ IsInjective(Batch(r.max)) /\ IsInjective(Rest(r.max))
      /\ popped \subseteq Msgs
  <2>1. inbox \in Seq(Msgs) /\ IsInjective(inbox) /\ r.max \in Nat
    BY <1>0, RequestFields DEF TypeOK, ExactlyOneCopy
  <2>2. Range(inbox) \subseteq Msgs
    BY <2>1, RangeOfSeq
  <2> QED BY ZenonT(60), <2>1, <2>2, BatchAndRest
<1>2. inbox' = Rest(r.max) /\ dlq' = dlq
  BY <1>0, ClaimCases
<1>3. DOMAIN index = DOMAIN claims \ stranded /\ DOMAIN index \subseteq DOMAIN claims
  BY ClaimIndexed DEF CopyInv
<1>4. ASSUME NEW e \in DOMAIN claims
      PROVE  /\ Range(claims[e].tasks) \subseteq Msgs
             /\ Range(claims[e].tasks) \cap (popped \cup rest \cup Range(dlq)) = {}
             /\ e = c => Range(claims[e].tasks) = old
             /\ e # c => Range(claims[e].tasks) \cap old = {}
  <2>1. claims[e].tasks \in Seq(Msgs)
    BY <1>0 DEF TypeOK, Claim
  <2>2. Range(claims[e].tasks) \subseteq Msgs
    BY <2>1, RangeOfSeq
  <2>3. Range(claims[e].tasks) \cap (popped \cup rest \cup Range(dlq)) = {}
    BY <1>0, <1>1 DEF ExactlyOneCopy
  <2>4. e = c => Range(claims[e].tasks) = old
    BY DEF TasksOf
  <2>5. e # c => Range(claims[e].tasks) \cap old = {}
    BY <1>0 DEF TasksOf, ExactlyOneCopy
  <2> QED BY <2>2, <2>3, <2>4, <2>5
<1>5. c \notin DOMAIN claims => old = {}
  BY DEF TasksOf
<1>6. popped \cap Range(dlq) = {} /\ rest \cap Range(dlq) = {}
  BY <1>0, <1>1 DEF ExactlyOneCopy
<1>7. ASSUME NEW m \in Msgs
      PROVE  fate[m] = "live" <=>
               \/ m \in popped \/ m \in rest \/ m \in Range(dlq)
               \/ \E e \in DOMAIN index : m \in Range(claims[e].tasks)
  BY <1>0, <1>1 DEF Kept
<1>8. CASE /\ fate' = [m \in Msgs |-> IF m \in popped THEN "aborted" ELSE fate[m]]
           /\ UNCHANGED <<claims, index, stranded>>
  <2> HIDE DEF popped, rest, old, c
  <2>1. ExactlyOneCopy'
    <3>1. Range(inbox') = rest
      BY <1>2 DEF rest
    <3> QED BY <1>0, <1>1, <1>2, <1>6, <1>8, <3>1 DEF ExactlyOneCopy
  <2>2. Kept'
    <3> SUFFICES ASSUME NEW m \in Msgs
                 PROVE  fate'[m] = "live" <=>
                          \/ m \in rest \/ m \in Range(dlq)
                          \/ \E e \in DOMAIN index : m \in Range(claims[e].tasks)
      BY <1>2, <1>8 DEF Kept, rest
    <3>1. fate'[m] = IF m \in popped THEN "aborted" ELSE fate[m]
      BY <1>8
    <3>2. m \in popped => /\ m \notin rest /\ m \notin Range(dlq)
                          /\ \A e \in DOMAIN index : m \notin Range(claims[e].tasks)
      BY <1>1, <1>3, <1>4, <1>6
    <3> QED BY <1>7, <3>1, <3>2
  <2>3. StrandedStay'
    BY <1>0, <1>4, <1>8 DEF StrandedStay
  <2> QED BY <2>1, <2>2, <2>3 DEF Copies
<1>9. ASSUME claims' = With(claims, c, Granted(s, r))
      PROVE  /\ ExactlyOneCopy' /\ DOMAIN claims' = DOMAIN claims \cup {c}
             /\ Range(claims'[c].tasks) = popped
             /\ \A e \in DOMAIN claims \ {c} : claims'[e] = claims[e]
  <2>1. /\ DOMAIN claims' = DOMAIN claims \cup {c} /\ claims'[c] = Granted(s, r)
        /\ \A e \in DOMAIN claims \ {c} : claims'[e] = claims[e]
    BY <1>9 DEF With
  <2>2. claims'[c].tasks = Batch(r.max)
    BY <1>0, <2>1, GrantedFields
  <2>3. /\ Range(claims'[c].tasks) = popped /\ Range(inbox') = rest
        /\ IsInjective(claims'[c].tasks) /\ IsInjective(inbox')
    BY <1>1, <1>2, <2>2
  <2> HIDE DEF popped, rest, old, c
  <2>4. IsInjective(dlq') /\ Range(inbox') \cap Range(dlq') = {}
    BY <1>0, <1>2, <1>6, <2>3 DEF ExactlyOneCopy
  <2>5. ASSUME NEW e \in DOMAIN claims'
        PROVE  /\ IsInjective(claims'[e].tasks)
               /\ Range(claims'[e].tasks) \cap (Range(inbox') \cup Range(dlq')) = {}
               /\ \A f \in DOMAIN claims' \ {e} :
                    Range(claims'[e].tasks) \cap Range(claims'[f].tasks) = {}
    <3>1. CASE e = c
      <4>1. \A f \in DOMAIN claims' \ {c} : Range(claims'[f].tasks) \cap popped = {}
        BY <1>4, <2>1
      <4> QED BY <1>1, <1>2, <1>6, <2>3, <3>1, <4>1
    <3>2. CASE e # c
      <4>1. e \in DOMAIN claims /\ claims'[e] = claims[e]
        BY <2>1, <3>2
      <4>2. /\ IsInjective(claims[e].tasks)
            /\ \A f \in DOMAIN claims \ {e} :
                 Range(claims[e].tasks) \cap Range(claims[f].tasks) = {}
        BY <1>0, <4>1 DEF ExactlyOneCopy
      <4>3. Range(claims[e].tasks) \cap (popped \cup rest \cup Range(dlq)) = {}
        BY <1>4, <4>1
      <4>4. \A f \in DOMAIN claims' \ {e} :
              Range(claims'[e].tasks) \cap Range(claims'[f].tasks) = {}
        BY <2>1, <2>3, <4>1, <4>2, <4>3
      <4> QED BY <1>2, <2>3, <4>1, <4>2, <4>3, <4>4
    <3> QED BY <3>1, <3>2
  <2>6. ExactlyOneCopy'
    BY <2>3, <2>4, <2>5 DEF ExactlyOneCopy
  <2> QED BY <2>1, <2>3, <2>6
<1>10. CASE /\ claims' = With(claims, c, Granted(s, r))
            /\ fate' = [m \in Msgs |-> IF m \in old THEN "overwritten"
                                       ELSE IF m \in popped THEN "stranded" ELSE fate[m]]
            /\ "index" \in wrong /\ stranded' = stranded \cup {c} /\ UNCHANGED index
  <2>1. DOMAIN index = {}
    BY <1>0, <1>10 DEF Records, DamageIsBounded
  <2>2. /\ ExactlyOneCopy' /\ DOMAIN claims' = DOMAIN claims \cup {c}
        /\ Range(claims'[c].tasks) = popped
        /\ \A e \in DOMAIN claims \ {c} : claims'[e] = claims[e]
    BY <1>9, <1>10
  <2>3. Range(inbox') = rest
    BY <1>2
  <2> HIDE DEF popped, rest, old, c
  <2>4. Kept'
    <3> SUFFICES ASSUME NEW m \in Msgs
                 PROVE  fate'[m] = "live" <=> m \in rest \/ m \in Range(dlq)
      BY <1>2, <1>10, <2>1, <2>3 DEF Kept
    <3>1. fate'[m] = IF m \in old THEN "overwritten"
                    ELSE IF m \in popped THEN "stranded" ELSE fate[m]
      BY <1>10
    <3>2. m \in old => m \notin popped /\ m \notin rest /\ m \notin Range(dlq)
      BY <1>4, <1>5
    <3> QED BY <1>1, <1>6, <1>7, <2>1, <3>1, <3>2
  <2>5. StrandedStay'
    <3> SUFFICES ASSUME NEW e \in DOMAIN claims' \cap stranded', NEW m \in Range(claims'[e].tasks)
                 PROVE  fate'[m] = "stranded"
      BY DEF StrandedStay
    <3>1. CASE e = c
      <4>1. m \in popped /\ m \in Msgs /\ m \notin old
        BY <1>1, <1>4, <1>5, <2>2, <3>1
      <4> QED BY <1>10, <4>1
    <3>2. CASE e # c
      <4>1. e \in DOMAIN claims \cap stranded /\ m \in Range(claims[e].tasks)
        BY <1>10, <2>2, <3>2
      <4>2. m \in Msgs /\ m \notin old /\ m \notin popped /\ fate[m] = "stranded"
        BY <1>0, <1>4, <3>2, <4>1 DEF StrandedStay
      <4> QED BY <1>10, <4>2
    <3> QED BY <3>1, <3>2
  <2> QED BY <2>2, <2>4, <2>5 DEF Copies
<1>11. CASE /\ claims' = With(claims, c, Granted(s, r))
            /\ fate' = [m \in Msgs |-> IF m \in old THEN "overwritten" ELSE fate[m]]
            /\ stranded' = stranded \ {c} /\ index' = With(index, c, at[s] + r.ttl)
  <2>1. DOMAIN index' = DOMAIN index \cup {c}
    BY <1>11 DEF With
  <2>2. /\ ExactlyOneCopy' /\ DOMAIN claims' = DOMAIN claims \cup {c}
        /\ Range(claims'[c].tasks) = popped
        /\ \A e \in DOMAIN claims \ {c} : claims'[e] = claims[e]
    BY <1>9, <1>11
  <2>3. Range(inbox') = rest
    BY <1>2
  <2> HIDE DEF popped, rest, old, c
  <2>4. Kept'
    <3> SUFFICES ASSUME NEW m \in Msgs
                 PROVE  fate'[m] = "live" <=>
                          \/ m \in rest \/ m \in Range(dlq)
                          \/ \E e \in DOMAIN index' : m \in Range(claims'[e].tasks)
      BY <1>2, <2>3 DEF Kept
    <3>1. fate'[m] = IF m \in old THEN "overwritten" ELSE fate[m]
      BY <1>11
    <3>2. (\E e \in DOMAIN index' : m \in Range(claims'[e].tasks)) <=>
            m \in popped \/ \E e \in DOMAIN index \ {c} : m \in Range(claims[e].tasks)
      BY <1>3, <2>1, <2>2
    <3>3. m \in old => /\ m \notin popped /\ m \notin rest /\ m \notin Range(dlq)
                       /\ \A e \in DOMAIN index \ {c} : m \notin Range(claims[e].tasks)
      BY <1>3, <1>4, <1>5
    <3>4. m \notin old => ~(c \in DOMAIN index /\ m \in Range(claims[c].tasks))
      BY <1>3, <1>4
    <3> QED BY <1>7, <3>1, <3>2, <3>3, <3>4
  <2>5. StrandedStay'
    <3> SUFFICES ASSUME NEW e \in DOMAIN claims' \cap stranded', NEW m \in Range(claims'[e].tasks)
                 PROVE  fate'[m] = "stranded"
      BY DEF StrandedStay
    <3>1. e # c /\ e \in DOMAIN claims \cap stranded /\ m \in Range(claims[e].tasks)
      BY <1>11, <2>2
    <3>2. m \in Msgs /\ m \notin old /\ fate[m] = "stranded"
      BY <1>0, <1>4, <3>1 DEF StrandedStay
    <3> QED BY <1>11, <3>2
  <2> QED BY <2>2, <2>4, <2>5 DEF Copies
<1>12. CASE "claims" \in wrong
  BY <1>0, <1>8, <1>12 DEF RunBatch
<1>13. CASE "claims" \notin wrong /\ "index" \in wrong
  <2>1. /\ claims' = With(claims, c, Granted(s, r))
        /\ stranded' = stranded \cup {c} /\ UNCHANGED index
    BY <1>0, <1>13 DEF RunBatch
  <2>2. fate' = [m \in Msgs |-> IF m \in old THEN "overwritten"
                               ELSE IF m \in popped THEN "stranded" ELSE fate[m]]
    BY <1>0, <1>13 DEF RunBatch
  <2> QED BY <1>10, <1>13, <2>1, <2>2
<1>14. CASE "claims" \notin wrong /\ "index" \notin wrong
  <2>1. /\ claims' = With(claims, c, Granted(s, r))
        /\ stranded' = stranded \ {c} /\ index' = With(index, c, at[s] + r.ttl)
    BY <1>0, <1>14 DEF RunBatch
  <2>2. fate' = [m \in Msgs |-> IF m \in old THEN "overwritten" ELSE fate[m]]
    BY <1>0, <1>14 DEF RunBatch
  <2> QED BY <1>11, <2>1, <2>2
<1> QED BY <1>12, <1>13, <1>14

\* Answers lost and keys damaged are only counted up, and an accident needs one of them.
LEMMA AccidentStep ==
  ASSUME CopyInv, [Next]_vars
  PROVE  Accidents'
<1> SUFFICES ASSUME NEW m \in Msgs
             PROVE  /\ fate'[m] = "overwritten" => lost' > 0
                    /\ fate'[m] \in {"aborted", "stranded"} => damage' > 0
  BY DEF Accidents
<1>0. /\ TypeOK /\ lost \in Nat /\ damage \in Nat
      /\ fate[m] = "overwritten" => lost > 0
      /\ fate[m] \in {"aborted", "stranded"} => damage > 0
  BY DEF CopyInv, RecordInv, TypeOK, Accidents
<1>1. ASSUME lost' \in {lost, lost + 1}, damage' \in {damage, damage + 1},
             fate'[m] = "overwritten" => fate[m] = "overwritten",
             fate'[m] \in {"aborted", "stranded"} => fate[m] \in {"aborted", "stranded"}
      PROVE  /\ fate'[m] = "overwritten" => lost' > 0
             /\ fate'[m] \in {"aborted", "stranded"} => damage' > 0
  BY <1>0, <1>1
<1>2. ASSUME NEW t, Recover(t)
      PROVE  fate'[m] = fate[m] \/ fate'[m] = "dropped"
  BY <1>2 DEF Recover, MoveExpired, ghost
<1>3. ASSUME NEW n \in Msgs, Send(n) \/ Requeue(n)
      PROVE  /\ fate'[m] = "overwritten" => lost' > 0
             /\ fate'[m] \in {"aborted", "stranded"} => damage' > 0
  <2>1. fate'[m] = fate[m] \/ fate'[m] = "live"
    BY <1>0, <1>3 DEF Send, Requeue, TypeOK
  <2>2. lost' = lost /\ damage' = damage
    BY <1>3 DEF Send, Requeue, env, calls
  <2> QED BY <1>1, <2>1, <2>2
<1>4. ASSUME NEW s \in Sessions, StartClaim(s) \/ ClaimNothing(s) \/ CrashCall(s)
      PROVE  /\ fate'[m] = "overwritten" => lost' > 0
             /\ fate'[m] \in {"aborted", "stranded"} => damage' > 0
  <2>1. UNCHANGED <<fate, lost, damage>>
    BY <1>4 DEF StartClaim, ClaimNothing, CrashCall, EndCall, env, ghost
  <2> QED BY <1>1, <2>1
<1>5. ASSUME NEW s \in Sessions, RecoverForClaim(s)
      PROVE  /\ fate'[m] = "overwritten" => lost' > 0
             /\ fate'[m] \in {"aborted", "stranded"} => damage' > 0
  <2>1. lost' \in {lost, lost + 1} /\ damage' = damage
    BY <1>5 DEF RecoverForClaim, EndCall, AnswerLost, env
  <2>2. fate'[m] = fate[m] \/ fate'[m] = "dropped"
    BY <1>2, <1>5 DEF RecoverForClaim
  <2> QED BY <1>1, <2>1, <2>2
<1>6. ASSUME NEW s \in Sessions, NEW r \in Request, ClaimStep(s, r)
      PROVE  /\ fate'[m] = "overwritten" => lost' > 0
             /\ fate'[m] \in {"aborted", "stranded"} => damage' > 0
  <2>1. RunBatch(s, r) /\ (r.claim \notin issued \/ r \in req[s])
    BY <1>0, <1>6, ClaimSteps
  <2>2. lost' \in {lost, lost + 1}
    BY <1>0, <1>6, ClaimSteps DEF EndCall
  <2>3. damage' = damage
    BY <2>1, ClaimCases DEF env
  <2>4. \/ fate'[m] = fate[m]
        \/ fate'[m] = "overwritten" /\ m \in TasksOf({r.claim})
        \/ fate'[m] \in {"aborted", "stranded"} /\ wrong # {}
    <3>1. CASE /\ "claims" \in wrong
               /\ fate' = [n \in Msgs |-> IF n \in Range(Batch(r.max)) THEN "aborted" ELSE fate[n]]
      BY <3>1
    <3>2. CASE /\ "index" \in wrong
               /\ fate' = [n \in Msgs |-> IF n \in TasksOf({r.claim}) THEN "overwritten"
                                          ELSE IF n \in Range(Batch(r.max)) THEN "stranded"
                                          ELSE fate[n]]
      BY <3>2
    <3>3. CASE fate' = [n \in Msgs |-> IF n \in TasksOf({r.claim}) THEN "overwritten" ELSE fate[n]]
      BY <3>3
    <3> QED BY <2>1, <3>1, <3>2, <3>3, ClaimCases
  <2>5. m \in TasksOf({r.claim}) => lost > 0
    <3>1. m \in TasksOf({r.claim}) => r.claim \in DOMAIN claims
      BY DEF TasksOf
    <3> QED BY <2>1, <3>1 DEF CopyInv, RecordInv, Records, ClaimsIssued, RequestsAreOwn
  <2>6. wrong # {} => damage > 0
    BY DEF CopyInv, RecordInv, Records, DamageIsBounded
  <2> QED BY <1>0, <1>1, <2>2, <2>3, <2>4, <2>5, <2>6
<1>7. ASSUME NEW s \in Sessions, NEW c \in ClaimIds,
             Acknowledge(s, c) \/ \E ttl \in 1..MaxTtl : Renew(s, c, ttl)
      PROVE  /\ fate'[m] = "overwritten" => lost' > 0
             /\ fate'[m] \in {"aborted", "stranded"} => damage' > 0
  <2>1. UNCHANGED <<lost, damage>> /\ (fate'[m] = fate[m] \/ fate'[m] = "acked")
    BY <1>7 DEF Acknowledge, Renew, env, calls, ghost
  <2> QED BY <1>1, <2>1
<1>8. ASSUME RecoverExpired
      PROVE  /\ fate'[m] = "overwritten" => lost' > 0
             /\ fate'[m] \in {"aborted", "stranded"} => damage' > 0
  <2>1. UNCHANGED <<lost, damage>>
    BY <1>8 DEF RecoverExpired, env, calls
  <2>2. fate'[m] = fate[m] \/ fate'[m] = "dropped"
    BY <1>2, <1>8 DEF RecoverExpired
  <2> QED BY <1>1, <2>1, <2>2
<1>9. ASSUME Unregister \/ Tick \/ Corrupt \/ Repair \/ UNCHANGED vars
      PROVE  /\ fate'[m] = "overwritten" => lost' > 0
             /\ fate'[m] \in {"aborted", "stranded"} => damage' > 0
  <2>1. /\ lost' = lost /\ damage' \in {damage, damage + 1}
        /\ fate'[m] = fate[m] \/ fate'[m] = "purged"
    BY <1>9 DEF Unregister, Tick, Corrupt, Repair, vars, env, calls, ghost
  <2> QED BY <1>1, <2>1
<1> QED BY <1>3, <1>4, <1>5, <1>6, <1>7, <1>8, <1>9 DEF Next, ClaimStep

\* Every action keeps one copy of each message, at the place its fate says.
LEMMA CopyStep == CopyInv /\ [Next]_vars => CopyInv'
<1> SUFFICES ASSUME CopyInv, [Next]_vars PROVE Copies'
  BY RecordStep, AccidentStep DEF CopyInv
<1>0. /\ TypeOK /\ ExactlyOneCopy /\ Kept /\ StrandedStay
      /\ DOMAIN index = DOMAIN claims \ stranded /\ DOMAIN index \subseteq DOMAIN claims
      /\ told \cap stranded = {}
  BY ClaimIndexed DEF CopyInv, Copies, RecordInv, Records, IndexMirrorsHash
<1>1. ASSUME UNCHANGED <<inbox, claims, index, dlq, fate, stranded>> PROVE Copies'
  BY <1>0, <1>1 DEF Copies, ExactlyOneCopy, Kept, StrandedStay
<1>2. ASSUME NEW m \in Msgs, Send(m) PROVE Copies'
  <2>1. /\ m \notin Range(inbox) /\ m \notin Range(dlq)
        /\ \A c \in DOMAIN claims : m \notin Range(claims[c].tasks)
    <3>1. fate[m] = "unsent"
      BY <1>2 DEF Send
    <3>2. \A c \in DOMAIN claims : m \notin Range(claims[c].tasks)
      BY <1>0, <3>1 DEF Kept, StrandedStay
    <3> QED BY <1>0, <3>1, <3>2 DEF Kept
  <2>2. Range(inbox') = Range(inbox) \cup {m} /\ IsInjective(inbox')
    BY <1>0, <1>2, <2>1, AppendNew DEF Send, TypeOK, ExactlyOneCopy
  <2>3. UNCHANGED <<claims, index, dlq, stranded>> /\ fate' = [fate EXCEPT ![m] = "live"]
    BY <1>2 DEF Send
  <2>4. ExactlyOneCopy'
    BY <1>0, <2>1, <2>2, <2>3 DEF ExactlyOneCopy
  <2>5. Kept'
    BY <1>0, <2>2, <2>3 DEF Kept, TypeOK
  <2>6. StrandedStay'
    BY <1>0, <2>1, <2>3 DEF StrandedStay, TypeOK
  <2> QED BY <2>4, <2>5, <2>6 DEF Copies
<1>3. ASSUME NEW m \in Msgs, Requeue(m) PROVE Copies'
  <2>1. PICK i \in DOMAIN dlq : dlq[i] = m /\ dlq' = RemoveAt(dlq, i)
    BY <1>3 DEF Requeue
  <2>2. IsInjective(dlq') /\ Range(dlq') = Range(dlq) \ {m} /\ m \in Range(dlq)
    <3>1. m \in Range(dlq)
      BY <2>1 DEF Range
    <3> QED BY <1>0, <2>1, <3>1, RemoveAtProperties DEF TypeOK, ExactlyOneCopy
  <2>3. Range(inbox') = Range(inbox) \cup {m} /\ IsInjective(inbox')
    <3>1. m \notin Range(inbox) /\ inbox \in Seq(Msgs) /\ IsInjective(inbox)
      BY <1>0, <2>2 DEF TypeOK, ExactlyOneCopy
    <3>2. inbox' = Append(inbox, m)
      BY <1>3 DEF Requeue
    <3> QED BY <3>1, <3>2, AppendNew
  <2>4. UNCHANGED <<claims, index, fate, stranded>>
    BY <1>3 DEF Requeue
  <2>5. ExactlyOneCopy'
    BY <1>0, <2>2, <2>3, <2>4 DEF ExactlyOneCopy
  <2>6. Kept'
    BY <1>0, <2>2, <2>3, <2>4 DEF Kept
  <2>7. StrandedStay'
    BY <1>0, <2>4 DEF StrandedStay
  <2> QED BY <2>5, <2>6, <2>7 DEF Copies
<1>4. ASSUME NEW s \in Sessions, StartClaim(s) \/ ClaimNothing(s) \/ CrashCall(s) PROVE Copies'
  BY <1>1, <1>4 DEF StartClaim, ClaimNothing, CrashCall, store, ghost
<1>5. ASSUME NEW s \in Sessions, RecoverForClaim(s) PROVE Copies'
  BY <1>5, RecoverKeepsCopies DEF RecoverForClaim
<1>6. ASSUME NEW s \in Sessions, NEW r \in Request, ClaimStep(s, r) PROVE Copies'
  BY <1>6, ClaimStepKeepsCopies
<1>7. ASSUME NEW s \in Sessions, NEW c \in ClaimIds, Acknowledge(s, c) PROVE Copies'
  <2>1. /\ DOMAIN claims' = DOMAIN claims \ {c} /\ c \in DOMAIN claims /\ c \in DOMAIN index
        /\ DOMAIN index' = DOMAIN index \ {c}
        /\ \A e \in DOMAIN claims \ {c} : claims'[e] = claims[e]
        /\ inbox' = inbox /\ dlq' = dlq /\ stranded' = stranded
    BY <1>0, <1>7 DEF Acknowledge, Without, Restrict
  <2>2. \A m \in Msgs : fate'[m] = IF m \in Range(claims[c].tasks) THEN "acked" ELSE fate[m]
    <3>1. TasksOf({c}) = Range(claims[c].tasks)
      BY <2>1 DEF TasksOf
    <3> QED BY <1>7, <3>1 DEF Acknowledge
  <2>3. ExactlyOneCopy'
    BY <1>0, <2>1 DEF ExactlyOneCopy
  <2>4. Kept'
    <3> SUFFICES ASSUME NEW m \in Msgs
                 PROVE  fate'[m] = "live" <=>
                        \/ m \in Range(inbox') \/ m \in Range(dlq')
                        \/ \E e \in DOMAIN index' : m \in Range(claims'[e].tasks)
      BY DEF Kept
    <3>1. fate[m] = "live" <=>
            \/ m \in Range(inbox) \/ m \in Range(dlq)
            \/ \E e \in DOMAIN index : m \in Range(claims[e].tasks)
      BY <1>0 DEF Kept
    <3>2. CASE m \in Range(claims[c].tasks)
      BY <1>0, <2>1, <2>2, <3>2 DEF ExactlyOneCopy
    <3>3. CASE m \notin Range(claims[c].tasks)
      BY <1>0, <2>1, <2>2, <3>1, <3>3
    <3> QED BY <3>2, <3>3
  <2>5. StrandedStay'
    <3> SUFFICES ASSUME NEW e \in DOMAIN claims' \cap stranded', NEW m \in Range(claims'[e].tasks)
                 PROVE  fate'[m] = "stranded"
      BY DEF StrandedStay
    <3>1. e \in DOMAIN claims \ {c} /\ e \in stranded /\ m \in Range(claims[e].tasks)
      BY <2>1
    <3>2. claims[e].tasks \in Seq(Msgs)
      BY <1>0, <3>1 DEF TypeOK, Claim
    <3>3. m \in Msgs /\ fate[m] = "stranded" /\ m \notin Range(claims[c].tasks)
      BY <1>0, <2>1, <3>1, <3>2, RangeOfSeq DEF StrandedStay, ExactlyOneCopy
    <3> QED BY <2>2, <3>3
  <2> QED BY <2>3, <2>4, <2>5 DEF Copies
<1>8. ASSUME NEW s \in Sessions, NEW c \in ClaimIds, NEW ttl \in 1..MaxTtl, Renew(s, c, ttl)
      PROVE  Copies'
  <2>1. /\ DOMAIN claims' = DOMAIN claims /\ DOMAIN index' = DOMAIN index
        /\ \A e \in DOMAIN claims : claims'[e].tasks = claims[e].tasks
        /\ UNCHANGED <<inbox, dlq, fate, stranded>>
    BY <1>0, <1>8 DEF Renew, TypeOK, Claim, ghost
  <2>2. ExactlyOneCopy'
    BY <1>0, <2>1 DEF ExactlyOneCopy
  <2>3. Kept' /\ StrandedStay'
    BY <1>0, <2>1 DEF Kept, StrandedStay
  <2> QED BY <2>2, <2>3 DEF Copies
<1>9. ASSUME RecoverExpired PROVE Copies'
  BY <1>9, RecoverKeepsCopies DEF RecoverExpired
<1>10. ASSUME Unregister PROVE Copies'
  <2>1. /\ DOMAIN claims' = DOMAIN claims \cap stranded /\ DOMAIN index' = {}
        /\ \A c \in DOMAIN claims' : claims'[c] = claims[c]
        /\ inbox' = <<>> /\ dlq' = <<>> /\ stranded' = stranded
    BY <1>0, <1>10 DEF Unregister, Without, Restrict
  <2>2. \A m \in Msgs : /\ fate[m] = "live" => fate'[m] = "purged"
                        /\ fate[m] # "live" => fate'[m] = fate[m]
    <3>1. \A m \in Msgs : fate[m] = "live" <=>
             m \in TasksOf(DOMAIN index) \cup Range(dlq) \cup Range(inbox)
      BY <1>0 DEF Kept, TasksOf
    <3> QED BY <1>10, <3>1 DEF Unregister
  <2>3. Range(inbox') = {} /\ Range(dlq') = {} /\ IsInjective(inbox') /\ IsInjective(dlq')
    BY <2>1 DEF Range, IsInjective
  <2>4. ExactlyOneCopy'
    BY <1>0, <2>1, <2>3 DEF ExactlyOneCopy
  <2>5. Kept'
    BY <2>1, <2>2, <2>3 DEF Kept
  <2>6. StrandedStay'
    <3> SUFFICES ASSUME NEW e \in DOMAIN claims' \cap stranded', NEW m \in Range(claims'[e].tasks)
                 PROVE  fate'[m] = "stranded"
      BY DEF StrandedStay
    <3>1. e \in DOMAIN claims \cap stranded /\ m \in Range(claims[e].tasks)
      BY <2>1
    <3>2. claims[e].tasks \in Seq(Msgs)
      BY <1>0, <3>1 DEF TypeOK, Claim
    <3> QED BY <1>0, <2>2, <3>1, <3>2, RangeOfSeq DEF StrandedStay
  <2> QED BY <2>4, <2>5, <2>6 DEF Copies
<1>11. ASSUME Tick \/ Corrupt \/ Repair PROVE Copies'
  BY <1>1, <1>11 DEF Tick, Corrupt, Repair, ghost
<1>12. CASE UNCHANGED vars
  BY <1>1, <1>12 DEF vars, store, ghost
<1> QED
  BY <1>2, <1>3, <1>4, <1>5, <1>6, <1>7, <1>8, <1>9, <1>10, <1>11, <1>12 DEF Next, ClaimStep

\* The copy invariant holds initially, and so always.
LEMMA InitCopies == Init => CopyInv
<1>1. Init => Copies /\ Accidents
  BY DEF Init, Copies, ExactlyOneCopy, Kept, StrandedStay, Accidents, Range, IsInjective
<1> QED BY <1>1, InitRecords DEF CopyInv

LEMMA CopyInvariant == Spec => []CopyInv
  BY InitCopies, CopyStep, PTL DEF Spec

\* What the theorems below say of the invariant.
LEMMA CopyMeans == CopyInv => RecordInv /\ ExactlyOneCopy /\ NothingLost
  BY KeptMeans DEF CopyInv, Copies

\* The store never holds two copies of a message.
THEOREM OneCopy == Spec => []ExactlyOneCopy
  BY CopyInvariant, CopyMeans, PTL

\* At-least-once, as far as the code goes: an accepted message stays where it can be
\* delivered from until it is acknowledged, trimmed off the dead-letter queue or purged
\* with its actor; it goes otherwise only when the batch-claim script was sent again after
\* a lost answer, or met a hash or an index of the wrong type.
THEOREM NoMessageLost == Spec => []NothingLost
  BY CopyInvariant, CopyMeans, PTL

\* The two together: an accepted message is stored once until it is acknowledged,
\* trimmed, purged, or lost in one of those accidents.
THEOREM AlwaysStoredOnce == Spec => []StoredOnce
  BY OneCopy, NoMessageLost, PTL DEF StoredOnce

(***************************************************************************)
(* Action property: a lease is honoured until it has run out.              *)
(***************************************************************************)

\* A claim disappears unacknowledged only after its expiry or in a purge.
THEOREM LeasesAreHonoured == Spec => LeaseHonoured
<1> DEFINE Honoured == \A c \in DOMAIN claims \ DOMAIN claims' :
                         \/ claims[c].expires_at < now
                         \/ \A m \in TasksOf({c}) : fate'[m] \in {"acked", "purged"}
<1>1. ASSUME RecordInv, [Next]_vars PROVE [Honoured]_vars
  <2>0. TypeOK /\ IndexMirrorsHash /\ ClockCaptured
    BY <1>1 DEF RecordInv, Records
  <2>1. ASSUME DOMAIN claims \subseteq DOMAIN claims' PROVE Honoured
    BY <2>1
  <2>2. ASSUME NEW t \in Nat, t <= now, Recover(t) PROVE Honoured
    <3>1. CASE UNCHANGED <<store, ghost>>
      BY <2>1, <3>1 DEF store
    <3>2. CASE MoveExpired(Expired(t))
      <4>1. \A c \in DOMAIN claims \ DOMAIN claims' : c \in Expired(t)
        BY <3>2 DEF MoveExpired, Without, Restrict
      <4>2. \A c \in DOMAIN index : claims[c].expires_at = index[c] /\ index[c] \in Nat
        BY <2>0 DEF IndexMirrorsHash, TypeOK
      <4>3. \A c \in DOMAIN index : c \in Expired(t) => claims[c].expires_at < now
        BY <2>0, <2>2, <4>2 DEF Expired, TypeOK
      <4> QED BY <4>1, <4>3 DEF Expired
    <3> QED BY <2>2, <3>1, <3>2 DEF Recover
  <2>3. ASSUME NEW m \in Msgs, Send(m) \/ Requeue(m) PROVE Honoured
    BY <2>1, <2>3 DEF Send, Requeue
  <2>4. ASSUME NEW s \in Sessions, StartClaim(s) \/ ClaimNothing(s) \/ CrashCall(s)
        PROVE  Honoured
    BY <2>1, <2>4 DEF StartClaim, ClaimNothing, CrashCall, store
  <2>5. ASSUME NEW s \in Sessions, RecoverForClaim(s) PROVE Honoured
    <3>1. at[s] \in Nat /\ at[s] <= now
      BY <2>0 DEF TypeOK, ClockCaptured
    <3> QED BY <2>2, <2>5, <3>1 DEF RecoverForClaim
  <2>6. ASSUME NEW s \in Sessions, NEW r \in Request, ClaimStep(s, r) PROVE Honoured
    <3>1. claims' = claims \/ claims' = With(claims, r.claim, Granted(s, r))
      BY <2>6 DEF ClaimStep, BatchClaim, Resend, RunBatch
    <3>2. DOMAIN claims \subseteq DOMAIN claims'
      BY <3>1 DEF With
    <3> QED BY <2>1, <3>2
  <2>7. ASSUME NEW s \in Sessions, NEW c \in ClaimIds, Acknowledge(s, c) PROVE Honoured
    <3>1. DOMAIN claims' = DOMAIN claims \ {c}
      BY <2>7 DEF Acknowledge, Without, Restrict
    <3>2. \A m \in TasksOf({c}) : fate'[m] = "acked"
      BY <2>0, <2>7, TasksOfType DEF Acknowledge
    <3> QED BY <3>1, <3>2
  <2>8. ASSUME NEW s \in Sessions, NEW c \in ClaimIds, NEW ttl \in 1..MaxTtl, Renew(s, c, ttl)
        PROVE  Honoured
    BY <2>1, <2>8 DEF Renew
  <2>9. ASSUME RecoverExpired PROVE Honoured
    <3>1. now \in Nat /\ now <= now
      BY <2>0 DEF TypeOK
    <3>2. Recover(now)
      BY <2>9 DEF RecoverExpired
    <3> QED BY <2>2, <3>1, <3>2
  <2>10. ASSUME Unregister PROVE Honoured
    <3>1. \A c \in DOMAIN claims \ DOMAIN claims' : TasksOf({c}) \subseteq TasksOf(DOMAIN index)
      BY <2>10 DEF TasksOf, Unregister, Without, Restrict
    <3>2. \A m \in TasksOf(DOMAIN index) : fate'[m] = "purged"
      BY <2>0, <2>10, TasksOfType DEF Unregister
    <3> QED BY <3>1, <3>2
  <2>11. ASSUME Tick \/ Corrupt \/ Repair PROVE Honoured
    BY <2>1, <2>11 DEF Tick, Corrupt, Repair
  <2>12. CASE UNCHANGED vars
    BY <2>12
  <2> QED
    BY <1>1, <2>3, <2>4, <2>5, <2>6, <2>7, <2>8, <2>9, <2>10, <2>11, <2>12
       DEF Next, ClaimStep
<1> QED BY <1>1, RecordInvariant, PTL DEF Spec, LeaseHonoured

(***************************************************************************)
(* Ownership: the acknowledging session is the last holder.                *)
(***************************************************************************)

\* The messages of a claim were last delivered to the claim's session.
OwnersHold ==
  \A c \in DOMAIN claims : \A m \in Range(claims[c].tasks) : holder[m] = claims[c].session

OwnerInv == CopyInv /\ OwnersHold /\ OnlyLastHolderAcks

\* Every action keeps a claimed message with the session it was last delivered to.
LEMMA OwnerStep == OwnerInv /\ [Next]_vars => OwnerInv'
<1> SUFFICES ASSUME OwnerInv, [Next]_vars PROVE OwnersHold' /\ OnlyLastHolderAcks'
  BY CopyStep DEF OwnerInv
<1> USE DEF OwnerInv
<1>0. TypeOK /\ Records /\ ExactlyOneCopy /\ Kept /\ StrandedStay
  BY DEF CopyInv, Copies, RecordInv
<1>1. ASSUME DOMAIN claims' \subseteq DOMAIN claims, UNCHANGED holder,
             \A c \in DOMAIN claims' : /\ claims'[c].tasks = claims[c].tasks
                                      /\ claims'[c].session = claims[c].session
      PROVE  OwnersHold'
  BY <1>1 DEF OwnersHold
<1>2. ASSUME UNCHANGED <<holder, ackedBy>>,
             \A m \in Msgs : fate'[m] = "acked" => fate[m] = "acked"
      PROVE  OnlyLastHolderAcks'
  BY <1>2 DEF OnlyLastHolderAcks
<1>3. ASSUME NEW t, Recover(t) PROVE OwnersHold' /\ OnlyLastHolderAcks'
  <2>1. CASE UNCHANGED <<store, ghost>>
    BY <1>1, <1>2, <2>1 DEF store, ghost
  <2>2. CASE MoveExpired(Expired(t))
    BY <1>1, <1>2, <2>2 DEF MoveExpired, Without, Restrict
  <2> QED BY <1>3, <2>1, <2>2 DEF Recover
<1>4. ASSUME NEW m \in Msgs, Send(m) \/ Requeue(m) PROVE OwnersHold' /\ OnlyLastHolderAcks'
  <2>1. UNCHANGED <<claims, holder, ackedBy>>
    BY <1>4 DEF Send, Requeue
  <2>2. \A n \in Msgs : fate'[n] = "acked" => fate[n] = "acked"
    BY <1>0, <1>4 DEF Send, Requeue, TypeOK
  <2> QED BY <1>1, <1>2, <2>1, <2>2
<1>5. ASSUME NEW s \in Sessions, StartClaim(s) \/ ClaimNothing(s) \/ CrashCall(s)
      PROVE  OwnersHold' /\ OnlyLastHolderAcks'
  BY <1>1, <1>2, <1>5 DEF StartClaim, ClaimNothing, CrashCall, store, ghost
<1>6. ASSUME NEW s \in Sessions, RecoverForClaim(s) PROVE OwnersHold' /\ OnlyLastHolderAcks'
  BY <1>3, <1>6 DEF RecoverForClaim
<1>7. ASSUME NEW s \in Sessions, NEW r \in Request, ClaimStep(s, r)
      PROVE  OwnersHold' /\ OnlyLastHolderAcks'
  <2> DEFINE c == r.claim
             popped == Range(Batch(r.max))
  <2>1. RunBatch(s, r) /\ (c \notin issued \/ r \in req[s])
    BY <1>0, <1>7, ClaimSteps
  <2>2. popped \subseteq Range(inbox) /\ popped \subseteq Msgs
    <3>1. inbox \in Seq(Msgs) /\ r.max \in Nat
      BY <1>0, RequestFields DEF TypeOK
    <3>2. Range(inbox) \subseteq Msgs
      BY <3>1, RangeOfSeq
    <3>3. Range(inbox) = Range(Batch(r.max)) \cup Range(Rest(r.max))
      BY <3>1, BatchAndRest
    <3> QED BY <3>2, <3>3
  <2>3. \/ UNCHANGED <<claims, holder>>
        \/ /\ claims' = With(claims, c, Granted(s, r))
           /\ holder' = [m \in Msgs |-> IF m \in popped THEN s ELSE holder[m]]
    BY <2>1 DEF RunBatch
  <2>4. /\ ackedBy' = ackedBy
        /\ \A m \in Msgs : fate'[m] = "acked" => fate[m] = "acked"
    BY <2>1 DEF RunBatch
  <2>5. CASE UNCHANGED <<claims, holder>>
    BY <1>1, <1>2, <2>4, <2>5
  <2>6. CASE /\ claims' = With(claims, c, Granted(s, r))
             /\ holder' = [m \in Msgs |-> IF m \in popped THEN s ELSE holder[m]]
    <3>1. /\ DOMAIN claims' = DOMAIN claims \cup {c} /\ claims'[c] = Granted(s, r)
          /\ \A e \in DOMAIN claims \ {c} : claims'[e] = claims[e]
      BY <2>6 DEF With
    <3>2. claims'[c].session = s /\ Range(claims'[c].tasks) = popped
      BY <1>0, <3>1, GrantedFields
    <3> HIDE DEF popped, c
    <3>3. \A m \in popped : holder'[m] = s
      BY <2>2, <2>6
    <3>4. ASSUME NEW e \in DOMAIN claims \ {c}, NEW m \in Range(claims[e].tasks)
          PROVE  holder'[m] = claims[e].session
      <4>1. m \notin popped
        BY <1>0, <2>2, <3>4 DEF ExactlyOneCopy
      <4>2. m \in Msgs
        <5>1. claims[e].tasks \in Seq(Msgs)
          BY <1>0 DEF TypeOK, Claim
        <5> QED BY <3>4, <5>1, RangeOfSeq
      <4> QED BY <2>6, <3>4, <4>1, <4>2 DEF OwnersHold
    <3>5. OwnersHold'
      BY <3>1, <3>2, <3>3, <3>4 DEF OwnersHold
    <3>6. OnlyLastHolderAcks'
      <4> SUFFICES ASSUME NEW m \in Msgs, fate[m] = "acked" PROVE ackedBy[m] = holder'[m]
        BY <2>4 DEF OnlyLastHolderAcks
      <4>1. m \notin popped
        BY <1>0, <2>2 DEF Kept
      <4> QED BY <2>6, <4>1 DEF OnlyLastHolderAcks
    <3> QED BY <3>5, <3>6
  <2> QED BY <2>3, <2>5, <2>6
<1>8. ASSUME NEW s \in Sessions, NEW c \in ClaimIds, Acknowledge(s, c)
      PROVE  OwnersHold' /\ OnlyLastHolderAcks'
  <2>1. OwnersHold'
    BY <1>1, <1>8 DEF Acknowledge, Without, Restrict
  <2>2. \A m \in TasksOf({c}) : holder[m] = s
    BY <1>8 DEF Acknowledge, TasksOf, OwnersHold
  <2>3. OnlyLastHolderAcks'
    <3> SUFFICES ASSUME NEW m \in Msgs, fate'[m] = "acked" PROVE ackedBy'[m] = holder[m]
      BY <1>8 DEF OnlyLastHolderAcks, Acknowledge
    <3>1. /\ fate'[m] = IF m \in TasksOf({c}) THEN "acked" ELSE fate[m]
          /\ ackedBy'[m] = IF m \in TasksOf({c}) THEN s ELSE ackedBy[m]
      BY <1>8 DEF Acknowledge
    <3> QED BY <2>2, <3>1 DEF OnlyLastHolderAcks
  <2> QED BY <2>1, <2>3
<1>9. ASSUME NEW s \in Sessions, NEW c \in ClaimIds, NEW ttl \in 1..MaxTtl, Renew(s, c, ttl)
      PROVE  OwnersHold' /\ OnlyLastHolderAcks'
  <2>1. /\ DOMAIN claims' = DOMAIN claims
        /\ \A e \in DOMAIN claims : /\ claims'[e].tasks = claims[e].tasks
                                    /\ claims'[e].session = claims[e].session
        /\ UNCHANGED <<holder, ackedBy, fate>>
    BY <1>0, <1>9 DEF Renew, TypeOK, Claim, ghost
  <2> QED BY <1>1, <1>2, <2>1
<1>10. ASSUME RecoverExpired PROVE OwnersHold' /\ OnlyLastHolderAcks'
  BY <1>3, <1>10 DEF RecoverExpired
<1>11. ASSUME Unregister PROVE OwnersHold' /\ OnlyLastHolderAcks'
  BY <1>1, <1>2, <1>11 DEF Unregister, Without, Restrict
<1>12. ASSUME Tick \/ Corrupt \/ Repair PROVE OwnersHold' /\ OnlyLastHolderAcks'
  BY <1>1, <1>2, <1>12 DEF Tick, Corrupt, Repair, ghost
<1>13. CASE UNCHANGED vars
  BY <1>1, <1>2, <1>13 DEF vars, store, ghost
<1> QED
  BY <1>4, <1>5, <1>6, <1>7, <1>8, <1>9, <1>10, <1>11, <1>12, <1>13 DEF Next, ClaimStep

\* A slow worker never acknowledges a batch that went to its successor.
THEOREM LastHolderAcks == Spec => []OnlyLastHolderAcks
<1>1. Init => OwnersHold /\ OnlyLastHolderAcks
  BY DEF Init, OwnersHold, OnlyLastHolderAcks
<1>2. OwnersHold /\ OnlyLastHolderAcks /\ CopyInv /\ CopyInv' /\ [Next]_vars
        => OwnersHold' /\ OnlyLastHolderAcks'
  BY OwnerStep DEF OwnerInv
<1> QED BY <1>1, <1>2, CopyInvariant, PTL DEF Spec

(***************************************************************************)
(* The ceiling: claims are counted and recorded in one script.             *)
(***************************************************************************)

\* Every action leaves the actor within its ceiling.
LEMMA CeilingStep ==
  RecordInv /\ RecordInv' /\ ConcurrencyCeiling /\ [Next]_vars => ConcurrencyCeiling'
<1>0. ASSUME RecordInv, [Next]_vars PROVE limit' = limit
  <2>1. ASSUME NEW s \in Sessions, NEW r \in Request, ClaimStep(s, r) PROVE limit' = limit
    BY <2>1 DEF ClaimStep, BatchClaim, Resend, Answered, Unanswered, EndCall, AnswerLost
  <2> QED BY <1>0, <2>1 DEF Next, ClaimStep, vars, calls, Send, Requeue, StartClaim,
             RecoverForClaim, ClaimNothing, CrashCall, EndCall, AnswerLost, Acknowledge, Renew,
             RecoverExpired, Unregister, Tick, Corrupt, Repair
<1> SUFFICES ASSUME RecordInv, RecordInv', ConcurrencyCeiling, [Next]_vars, limit > 0
             PROVE  Cardinality(DOMAIN claims') <= limit
  BY <1>0 DEF ConcurrencyCeiling
<1>1. /\ limit \in Nat
      /\ IsFiniteSet(DOMAIN claims) /\ Cardinality(DOMAIN claims) \in Nat
      /\ Cardinality(DOMAIN claims) <= limit
  BY SetsAssumption, Bounds, FS_Subset, FS_CardinalityType
     DEF RecordInv, TypeOK, ConcurrencyCeiling
<1>2. ASSUME DOMAIN claims' \subseteq DOMAIN claims
      PROVE  Cardinality(DOMAIN claims') <= limit
  <2>1. /\ IsFiniteSet(DOMAIN claims')
        /\ Cardinality(DOMAIN claims') <= Cardinality(DOMAIN claims)
    BY <1>1, <1>2, FS_Subset
  <2>2. Cardinality(DOMAIN claims') \in Nat
    BY <2>1, FS_CardinalityType
  <2> QED BY <1>1, <2>1, <2>2
<1>3. ASSUME NEW t, Recover(t) PROVE DOMAIN claims' \subseteq DOMAIN claims
  <2>1. CASE UNCHANGED <<store, ghost>>
    BY <2>1 DEF store
  <2>2. CASE MoveExpired(Expired(t))
    BY <2>2 DEF MoveExpired, Without, Restrict
  <2> QED BY <1>3, <2>1, <2>2 DEF Recover
<1>4. ASSUME NEW s \in Sessions, NEW r \in Request, ClaimStep(s, r)
      PROVE  Cardinality(DOMAIN claims') <= limit
  <2>1. ~Refused /\ RunBatch(s, r)
    BY <1>4 DEF ClaimStep, BatchClaim, Resend
  <2>2. DOMAIN index = DOMAIN claims
    BY DEF RecordInv, Records, IndexMirrorsHash, DamageIsBounded
  <2>3. ~(Cardinality(DOMAIN claims) >= limit)
    BY <2>1, <2>2 DEF Refused, AtCeiling
  <2>4. claims' = claims \/ claims' = With(claims, r.claim, Granted(s, r))
    BY <2>1 DEF RunBatch
  <2>5. CASE claims' = claims
    BY <1>2, <2>5
  <2>6. CASE claims' = With(claims, r.claim, Granted(s, r))
    <3> DEFINE c == r.claim
    <3>1. DOMAIN claims' = DOMAIN claims \cup {c}
      BY <2>6 DEF With
    <3> HIDE DEF c
    <3>2. Cardinality(DOMAIN claims') = IF c \in DOMAIN claims
                                        THEN Cardinality(DOMAIN claims)
                                        ELSE Cardinality(DOMAIN claims) + 1
      BY <1>1, <3>1, FS_AddElement
    <3> QED BY <1>1, <2>3, <3>2
  <2> QED BY <2>4, <2>5, <2>6
<1>5. CASE \E m \in Msgs : Send(m) \/ Requeue(m)
  BY <1>2, <1>5 DEF Send, Requeue
<1>6. CASE \E s \in Sessions : StartClaim(s) \/ ClaimNothing(s) \/ CrashCall(s)
  BY <1>2, <1>6 DEF StartClaim, ClaimNothing, CrashCall, store
<1>7. CASE (\E s \in Sessions : RecoverForClaim(s)) \/ RecoverExpired
  BY <1>2, <1>3, <1>7 DEF RecoverForClaim, RecoverExpired
<1>8. CASE \E s \in Sessions, c \in ClaimIds : Acknowledge(s, c)
  BY <1>2, <1>8 DEF Acknowledge, Without, Restrict
<1>9. CASE \E s \in Sessions, c \in ClaimIds, ttl \in 1..MaxTtl : Renew(s, c, ttl)
  BY <1>2, <1>9 DEF Renew
<1>10. CASE Unregister
  BY <1>2, <1>10 DEF Unregister, Without, Restrict
<1>11. CASE Tick \/ Corrupt \/ Repair
  BY <1>2, <1>11 DEF Tick, Corrupt, Repair
<1>12. CASE UNCHANGED vars
  BY <1>2, <1>12 DEF vars, store
<1> QED
  BY <1>4, <1>5, <1>6, <1>7, <1>8, <1>9, <1>10, <1>11, <1>12 DEF Next, ClaimStep

\* However many sessions claim at once, an actor never has more outstanding claims than
\* its profile admits.
THEOREM CeilingHolds == Spec => []ConcurrencyCeiling
<1>1. Init => ConcurrencyCeiling
  BY Bounds, FS_EmptySet DEF Init, ConcurrencyCeiling
<1> QED BY <1>1, CeilingStep, RecordInvariant, PTL DEF Spec

(***************************************************************************)
(* Poison: the counter of a message in circulation has counted every       *)
(* recovery, unless the key was lost.                                      *)
(***************************************************************************)

\* The counter keeps up with the recoveries while the message may be recovered again.
CounterKeepsUp ==
  \A m \in Msgs \ (Legacy \cup lapsed) :
    m \in Range(inbox) \/ (\E c \in DOMAIN claims : m \in Range(claims[c].tasks))
      => recovered[m] <= rc[m]

\* A message that was never sent was never recovered.
UnsentIsFresh == \A m \in Msgs : fate[m] = "unsent" => recovered[m] = 0

PoisonInv == PoisonIsQuarantined /\ CounterKeepsUp /\ UnsentIsFresh

\* Pass 2 of the recovery script counts what it puts back.
LEMMA MoveExpiredCounts ==
  ASSUME CopyInv, CopyInv', PoisonInv, NEW C \in SUBSET DOMAIN index, MoveExpired(C)
  PROVE  PoisonInv'
<1> DEFINE dead == Exhausted(C)
           back == TasksOf(C) \ dead
<1> USE DEF CopyInv, Copies, RecordInv
<1>1. /\ rc' = [m \in Msgs |-> IF m \in dead THEN 0
                               ELSE IF m \in back \ Legacy THEN rc[m] + 1 ELSE rc[m]]
      /\ recovered' = [m \in Msgs |-> IF m \in back \ Legacy THEN recovered[m] + 1
                                      ELSE recovered[m]]
      /\ lapsed' = lapsed
      /\ DOMAIN claims' = DOMAIN claims \ C
      /\ \A c \in DOMAIN claims' : claims'[c] = claims[c]
  BY DEF MoveExpired, Without, Restrict
<1>2. PICK q \in Seq(Msgs) : Range(q) = back /\ inbox' = inbox \o q
  BY MoveExpiredLists
<1>3. Range(inbox') = Range(inbox) \cup back
  BY SMTT(40), <1>2, JoinProperties DEF TypeOK
<1>4. \A m \in TasksOf(C) : /\ m \notin Range(inbox)
                            /\ fate[m] = "live"
                            /\ \E c \in DOMAIN claims : m \in Range(claims[c].tasks)
                            /\ \A c \in DOMAIN claims' : m \notin Range(claims'[c].tasks)
  <2> SUFFICES ASSUME NEW m \in TasksOf(C)
               PROVE  /\ m \notin Range(inbox)
                      /\ fate[m] = "live"
                      /\ \E c \in DOMAIN claims : m \in Range(claims[c].tasks)
                      /\ \A c \in DOMAIN claims' : m \notin Range(claims'[c].tasks)
    OBVIOUS
  <2>1. PICK e \in C \cap DOMAIN claims : m \in Range(claims[e].tasks)
    BY DEF TasksOf
  <2>2. m \in Msgs
    BY TasksOfType
  <2>3. fate[m] = "live"
    BY <2>1, <2>2 DEF Kept
  <2> QED BY <1>1, <2>1, <2>3 DEF ExactlyOneCopy
<1>5. \A m \in back \ Legacy : m \in Msgs /\ rc[m] \in Nat /\ rc[m] + 1 <= RecoverCap
  <2> SUFFICES ASSUME NEW m \in back \ Legacy
               PROVE  m \in Msgs /\ rc[m] \in Nat /\ rc[m] + 1 <= RecoverCap
    OBVIOUS
  <2>1. m \in Msgs /\ rc[m] \in Nat /\ ~(rc[m] + 1 > RecoverCap)
    BY TasksOfType DEF TypeOK, Exhausted
  <2> QED BY <2>1, Bounds
<1> HIDE DEF dead, back
<1>6. ASSUME NEW m \in Msgs \ (Legacy \cup lapsed), m \in back
      PROVE  recovered'[m] <= rc'[m] /\ recovered'[m] <= RecoverCap
  <2>1. recovered[m] <= rc[m]
    BY <1>4, <1>6 DEF back, PoisonInv, CounterKeepsUp
  <2>2. recovered'[m] = recovered[m] + 1 /\ rc'[m] = rc[m] + 1
    BY <1>1, <1>6 DEF back
  <2>3. recovered[m] \in Nat /\ rc[m] \in Nat /\ RecoverCap \in Nat
    BY Bounds DEF TypeOK
  <2> QED BY <1>5, <1>6, <2>1, <2>2, <2>3
<1>7. PoisonIsQuarantined'
  BY <1>1, <1>6 DEF PoisonInv, PoisonIsQuarantined
<1>8. CounterKeepsUp'
  <2> SUFFICES ASSUME NEW m \in Msgs \ (Legacy \cup lapsed), m \notin back,
                      \/ m \in Range(inbox')
                      \/ \E c \in DOMAIN claims' : m \in Range(claims'[c].tasks)
               PROVE  recovered'[m] <= rc'[m]
    BY <1>1, <1>6 DEF CounterKeepsUp
  <2>1. m \notin TasksOf(C)
    BY <1>3, <1>4 DEF back, dead
  <2>2. recovered'[m] = recovered[m] /\ rc'[m] = rc[m]
    BY <1>1, <2>1 DEF back, dead, Exhausted
  <2>3. \/ m \in Range(inbox)
        \/ \E c \in DOMAIN claims : m \in Range(claims[c].tasks)
    BY <1>1, <1>3
  <2> QED BY <2>2, <2>3 DEF PoisonInv, CounterKeepsUp
<1>9. UnsentIsFresh'
  <2> SUFFICES ASSUME NEW m \in Msgs, fate'[m] = "unsent" PROVE recovered'[m] = 0
    BY DEF UnsentIsFresh
  <2>1. fate[m] = "unsent"
    BY DEF MoveExpired
  <2>2. m \notin back
    BY <1>4, <2>1 DEF back
  <2> QED BY <1>1, <2>1, <2>2 DEF PoisonInv, UnsentIsFresh
<1> QED BY <1>7, <1>8, <1>9 DEF PoisonInv

\* Every action keeps the counters up with the recoveries.
LEMMA PoisonStep == CopyInv /\ CopyInv' /\ PoisonInv /\ [Next]_vars => PoisonInv'
<1> SUFFICES ASSUME CopyInv, CopyInv', PoisonInv, [Next]_vars PROVE PoisonInv'
  OBVIOUS
<1> USE DEF CopyInv, Copies, RecordInv
<1>1. ASSUME UNCHANGED <<rc, recovered, lapsed>>,
             \A m \in Msgs : fate'[m] = "unsent" => fate[m] = "unsent",
             \A m \in Msgs :
               m \in Range(inbox') \/ (\E c \in DOMAIN claims' : m \in Range(claims'[c].tasks))
               => \/ m \in Range(inbox) \/ recovered[m] = 0
                  \/ \E c \in DOMAIN claims : m \in Range(claims[c].tasks)
      PROVE  PoisonInv'
  <2>1. PoisonIsQuarantined' /\ UnsentIsFresh'
    BY <1>1 DEF PoisonInv, PoisonIsQuarantined, UnsentIsFresh
  <2>2. \A m \in Msgs : rc[m] \in Nat
    BY DEF TypeOK
  <2>3. CounterKeepsUp'
    BY <1>1, <2>2 DEF PoisonInv, CounterKeepsUp
  <2> QED BY <2>1, <2>3 DEF PoisonInv
<1>2. ASSUME NEW t, Recover(t) PROVE PoisonInv'
  <2>1. CASE UNCHANGED <<store, ghost>>
    BY <1>1, <2>1 DEF store, ghost
  <2>2. CASE MoveExpired(Expired(t))
    <3>1. Expired(t) \subseteq DOMAIN index
      BY DEF Expired
    <3> QED BY <2>2, <3>1, MoveExpiredCounts
  <2> QED BY <1>2, <2>1, <2>2 DEF Recover
<1>3. ASSUME NEW m \in Msgs, Send(m) PROVE PoisonInv'
  <2>1. Range(inbox') = Range(inbox) \cup {m}
    BY <1>3, AppendNew DEF Send, TypeOK
  <2>2. recovered[m] = 0 /\ claims' = claims
    BY <1>3 DEF Send, PoisonInv, UnsentIsFresh
  <2>3. \A n \in Msgs : fate'[n] = "unsent" => fate[n] = "unsent"
    BY <1>3 DEF Send, TypeOK
  <2>4. UNCHANGED <<rc, recovered, lapsed>>
    BY <1>3 DEF Send
  <2> QED BY <1>1, <2>1, <2>2, <2>3, <2>4
<1>4. ASSUME NEW m \in Msgs, Requeue(m) PROVE PoisonInv'
  <2>1. /\ inbox' = Append(inbox, m) /\ claims' = claims /\ fate' = fate
        /\ rc' = [rc EXCEPT ![m] = 0] /\ recovered' = [recovered EXCEPT ![m] = 0]
        /\ lapsed' = lapsed \ {m}
    BY <1>4 DEF Requeue
  <2>2. Range(inbox') = Range(inbox) \cup {m}
    BY SMTT(40), <2>1, AppendNew DEF TypeOK
  <2>3. rc'[m] = 0 /\ recovered'[m] = 0 /\ 0 <= RecoverCap
    BY <2>1, Bounds DEF TypeOK
  <2>4. \A n \in Msgs \ {m} : rc'[n] = rc[n] /\ recovered'[n] = recovered[n]
    BY <2>1 DEF TypeOK
  <2>5. PoisonIsQuarantined' /\ UnsentIsFresh'
    BY <2>1, <2>3, <2>4 DEF PoisonInv, PoisonIsQuarantined, UnsentIsFresh
  <2>6. CounterKeepsUp'
    BY <2>1, <2>2, <2>3, <2>4 DEF PoisonInv, CounterKeepsUp
  <2> QED BY <2>5, <2>6 DEF PoisonInv
<1>5. ASSUME NEW s \in Sessions, StartClaim(s) \/ ClaimNothing(s) \/ CrashCall(s)
      PROVE  PoisonInv'
  BY <1>1, <1>5 DEF StartClaim, ClaimNothing, CrashCall, store, ghost
<1>6. ASSUME NEW s \in Sessions, RecoverForClaim(s) PROVE PoisonInv'
  BY <1>2, <1>6 DEF RecoverForClaim
<1>7. ASSUME NEW s \in Sessions, NEW r \in Request, ClaimStep(s, r) PROVE PoisonInv'
  <2> DEFINE c == r.claim
             popped == Range(Batch(r.max))
  <2>1. RunBatch(s, r)
    BY <1>7 DEF ClaimStep, BatchClaim, Resend
  <2>2. Range(inbox) = popped \cup Range(Rest(r.max))
    <3>1. inbox \in Seq(Msgs) /\ r.max \in Nat
      BY RequestFields DEF TypeOK
    <3> QED BY <3>1, BatchAndRest
  <2>3. inbox' = Rest(r.max) /\ UNCHANGED <<rc, recovered, lapsed>>
    BY <2>1 DEF RunBatch
  <2>4. \A m \in Msgs : fate'[m] = "unsent" => fate[m] = "unsent"
    BY <2>1 DEF RunBatch
  <2>5. claims' = claims \/ claims' = With(claims, c, Granted(s, r))
    BY <2>1 DEF RunBatch
  <2>6. \A m \in Msgs : \A e \in DOMAIN claims' : m \in Range(claims'[e].tasks) =>
          m \in popped \/ (e \in DOMAIN claims /\ m \in Range(claims[e].tasks))
    <3>1. CASE claims' = claims
      BY <3>1
    <3>2. CASE claims' = With(claims, c, Granted(s, r))
      <4>1. /\ DOMAIN claims' = DOMAIN claims \cup {c} /\ claims'[c] = Granted(s, r)
            /\ \A e \in DOMAIN claims \ {c} : claims'[e] = claims[e]
        BY <3>2 DEF With
      <4>2. Range(claims'[c].tasks) = popped
        BY <4>1, GrantedFields
      <4> QED BY <4>1, <4>2
    <3> QED BY <2>5, <3>1, <3>2
  <2> HIDE DEF popped, c
  <2> QED BY <1>1, <2>2, <2>3, <2>4, <2>6
<1>8. ASSUME NEW s \in Sessions, NEW c \in ClaimIds, Acknowledge(s, c) PROVE PoisonInv'
  <2>1. /\ DOMAIN claims' = DOMAIN claims \ {c} /\ c \in DOMAIN claims
        /\ \A e \in DOMAIN claims \ {c} : claims'[e] = claims[e]
        /\ inbox' = inbox /\ UNCHANGED <<recovered, lapsed>>
    BY <1>8 DEF Acknowledge, Without, Restrict
  <2>2. \A m \in Msgs : m \notin Range(claims[c].tasks) => rc'[m] = rc[m]
    BY <1>8 DEF Acknowledge, TasksOf
  <2>3. PoisonIsQuarantined' /\ UnsentIsFresh'
    BY <1>8 DEF Acknowledge, PoisonInv, PoisonIsQuarantined, UnsentIsFresh
  <2>4. CounterKeepsUp'
    BY <2>1, <2>2 DEF PoisonInv, CounterKeepsUp, ExactlyOneCopy
  <2> QED BY <2>3, <2>4 DEF PoisonInv
<1>9. ASSUME NEW s \in Sessions, NEW c \in ClaimIds, NEW ttl \in 1..MaxTtl, Renew(s, c, ttl)
      PROVE  PoisonInv'
  <2>1. /\ DOMAIN claims' = DOMAIN claims
        /\ \A e \in DOMAIN claims : claims'[e].tasks = claims[e].tasks
        /\ UNCHANGED <<inbox, fate, rc, recovered, lapsed>>
    BY <1>9 DEF Renew, TypeOK, Claim, ghost
  <2> QED BY <1>1, <2>1
<1>10. ASSUME RecoverExpired PROVE PoisonInv'
  BY <1>2, <1>10 DEF RecoverExpired
<1>11. ASSUME Unregister PROVE PoisonInv'
  <2>1. /\ DOMAIN claims' = DOMAIN claims \ DOMAIN index
        /\ \A c \in DOMAIN claims' : claims'[c] = claims[c]
        /\ inbox' = <<>> /\ UNCHANGED <<recovered, lapsed>>
    BY <1>11 DEF Unregister, Without, Restrict
  <2>2. Range(inbox') = {}
    BY <2>1 DEF Range
  <2>3. \A m \in Msgs : fate'[m] = "unsent" => fate[m] = "unsent"
    BY <1>11 DEF Unregister
  <2>4. PoisonIsQuarantined' /\ UnsentIsFresh'
    BY <2>1, <2>3 DEF PoisonInv, PoisonIsQuarantined, UnsentIsFresh
  <2>5. ASSUME NEW m \in Msgs, NEW c \in DOMAIN claims', m \in Range(claims'[c].tasks)
        PROVE  rc'[m] = rc[m] /\ c \in DOMAIN claims /\ m \in Range(claims[c].tasks)
    <3>1. c \in DOMAIN claims \ DOMAIN index /\ m \in Range(claims[c].tasks)
      BY <2>1, <2>5
    <3>2. m \notin TasksOf(DOMAIN index) \cup Range(dlq)
      BY <3>1 DEF TasksOf, ExactlyOneCopy
    <3> QED BY <1>11, <3>1, <3>2 DEF Unregister
  <2>6. CounterKeepsUp'
    BY <2>1, <2>2, <2>5 DEF PoisonInv, CounterKeepsUp
  <2> QED BY <2>4, <2>6 DEF PoisonInv
<1>12. ASSUME Tick \/ Repair PROVE PoisonInv'
  <2>1. /\ UNCHANGED <<inbox, claims, fate, recovered>>
        /\ lapsed \subseteq lapsed'
        /\ \A m \in Msgs \ lapsed' : rc'[m] = rc[m]
    BY <1>12 DEF Tick, Repair
  <2> QED BY <2>1 DEF PoisonInv, PoisonIsQuarantined, CounterKeepsUp, UnsentIsFresh
<1>13. ASSUME Corrupt PROVE PoisonInv'
  BY <1>1, <1>13 DEF Corrupt, ghost
<1>14. CASE UNCHANGED vars
  BY <1>1, <1>14 DEF vars, store, ghost
<1> QED
  BY <1>3, <1>4, <1>5, <1>6, <1>7, <1>8, <1>9, <1>10, <1>11, <1>12, <1>13, <1>14
     DEF Next, ClaimStep

\* A message whose counter is not lost returns to the inbox at most RECOVER_CAP times
\* before it is dead-lettered.
THEOREM PoisonIsAlwaysQuarantined == Spec => []PoisonIsQuarantined
<1>1. Init => PoisonInv
  BY Bounds DEF Init, PoisonInv, PoisonIsQuarantined, CounterKeepsUp, UnsentIsFresh, Range
<1>2. PoisonInv => PoisonIsQuarantined
  BY DEF PoisonInv
<1> QED BY <1>1, <1>2, PoisonStep, CopyInvariant, PTL DEF Spec

(***************************************************************************)
(* Order: messages nobody has received yet stand in the inbox in the order *)
(* they were accepted in.                                                  *)
(***************************************************************************)

\* The accepted messages, each once.
SentOnce ==
  /\ IsInjective(sent)
  /\ \A m \in Msgs : m \in Range(sent) <=> fate[m] # "unsent"

\* A message without a holder is unsent, purged, gone with an aborted script or in the inbox.
WaitsInInbox ==
  /\ \A m \in Msgs : fate[m] = "unsent" => holder[m] = NoSession
  /\ \A m \in Msgs : holder[m] = NoSession =>
       fate[m] \in {"unsent", "purged", "aborted"} \/ m \in Range(inbox)
  /\ \A m \in Range(dlq) : holder[m] # NoSession

\* Of two messages that wait for their first delivery the earlier is nearer the head.
WaitingInOrder ==
  \A i, j \in DOMAIN sent : \A p, q \in DOMAIN inbox :
    /\ i < j /\ inbox[p] = sent[i] /\ inbox[q] = sent[j]
    /\ holder[sent[i]] = NoSession /\ holder[sent[j]] = NoSession
    => p < q

OrderInv == SentOnce /\ WaitsInInbox /\ WaitingInOrder /\ FirstDeliveryInOrder

\* A step that adds at the tail of the inbox what was delivered before, and delivers
\* nothing, keeps the order.
LEMMA TailKeepsOrder ==
  ASSUME OrderInv, inbox \in Seq(Msgs), sent \in Seq(Msgs), UNCHANGED <<sent, holder>>,
         \A m \in Msgs : fate[m] \in {"purged", "aborted"} => fate'[m] = fate[m],
         NEW q \in Seq(Msgs), inbox' = inbox \o q,
         \A m \in Range(q) : holder[m] # NoSession
  PROVE  WaitingInOrder' /\ FirstDeliveryInOrder'
<1>1. FirstDeliveryInOrder'
  <2>1. \A i \in DOMAIN sent : sent[i] \in Msgs
    OBVIOUS
  <2> QED BY <2>1 DEF OrderInv, FirstDeliveryInOrder
<1>2. ASSUME NEW p \in DOMAIN inbox', holder[inbox'[p]] = NoSession
      PROVE  p \in DOMAIN inbox /\ inbox'[p] = inbox[p]
  <2>1. /\ Len(inbox) \in Nat /\ Len(q) \in Nat /\ DOMAIN inbox = 1..Len(inbox)
        /\ DOMAIN q = 1..Len(q) /\ p \in 1..(Len(inbox) + Len(q))
        /\ inbox'[p] = IF p <= Len(inbox) THEN inbox[p] ELSE q[p - Len(inbox)]
    BY ConcatProperties
  <2>2. p <= Len(inbox)
    <3> SUFFICES ASSUME ~(p <= Len(inbox)) PROVE FALSE
      OBVIOUS
    <3>1. p - Len(inbox) \in DOMAIN q /\ inbox'[p] = q[p - Len(inbox)]
      BY <2>1
    <3> QED BY <1>2, <3>1 DEF Range
  <2> QED BY <2>1, <2>2
<1>3. WaitingInOrder'
  BY <1>2 DEF OrderInv, WaitingInOrder
<1> QED BY <1>1, <1>3

\* Every action keeps the order.
LEMMA OrderStep == OwnerInv /\ OwnerInv' /\ OrderInv /\ [Next]_vars => OrderInv'
<1> SUFFICES ASSUME OwnerInv, OwnerInv', OrderInv, [Next]_vars PROVE OrderInv'
  OBVIOUS
<1> USE DEF OwnerInv, CopyInv, Copies, RecordInv
<1>0. /\ inbox \in Seq(Msgs) /\ dlq \in Seq(Msgs) /\ sent \in Seq(Msgs)
      /\ Range(inbox) \subseteq Msgs /\ Range(dlq) \subseteq Msgs
  BY RangeOfSeq DEF TypeOK
<1>1. ASSUME UNCHANGED <<inbox, dlq, sent, holder, fate>> PROVE OrderInv'
  BY <1>1 DEF OrderInv, SentOnce, WaitsInInbox, WaitingInOrder, FirstDeliveryInOrder
<1>2. \A c \in DOMAIN claims : \A m \in Range(claims[c].tasks) :
        m \in Msgs /\ holder[m] \in Sessions /\ holder[m] # NoSession
  <2> SUFFICES ASSUME NEW c \in DOMAIN claims, NEW m \in Range(claims[c].tasks)
               PROVE  m \in Msgs /\ holder[m] \in Sessions
    BY SetsAssumption
  <2>1. claims[c].tasks \in Seq(Msgs) /\ claims[c].session \in Sessions
    BY DEF TypeOK, Claim
  <2> QED BY <2>1, RangeOfSeq DEF OwnersHold
<1>21. DOMAIN index = DOMAIN claims \ stranded /\ told \cap stranded = {}
  BY ClaimIndexed DEF Records, IndexMirrorsHash
<1>3. ASSUME NEW C \in SUBSET DOMAIN index, MoveExpired(C) PROVE OrderInv'
  <2>1. PICK q, d \in Seq(Msgs) :
          /\ Range(q) = TasksOf(C) \ Exhausted(C)
          /\ Range(d) = Exhausted(C)
          /\ inbox' = inbox \o q
          /\ dlq' = Trimmed(d \o dlq)
    BY <1>3, MoveExpiredLists
  <2>2. \A m \in TasksOf(C) : m \in Msgs /\ holder[m] # NoSession
    BY <1>2 DEF TasksOf
  <2>3. /\ UNCHANGED <<sent, holder>>
        /\ fate' = [m \in Msgs |-> IF m \in (Exhausted(C) \cup Range(dlq)) \ Range(dlq')
                                   THEN "dropped" ELSE fate[m]]
    BY <1>3 DEF MoveExpired
  <2>4. Exhausted(C) \subseteq TasksOf(C)
    BY DEF Exhausted
  <2>5. \A m \in Msgs : /\ fate[m] # "live" => fate'[m] = fate[m]
                        /\ fate[m] = "live" => fate'[m] \in {"live", "dropped"}
    <3> SUFFICES ASSUME NEW m \in Msgs
                 PROVE  /\ fate[m] # "live" => fate'[m] = fate[m]
                        /\ fate[m] = "live" => fate'[m] \in {"live", "dropped"}
      OBVIOUS
    <3>1. m \in Exhausted(C) \cup Range(dlq) => fate[m] = "live"
      BY <2>4 DEF Kept, TasksOf
    <3> QED BY <2>3, <3>1
  <2>6. WaitingInOrder' /\ FirstDeliveryInOrder'
    BY <1>0, <2>1, <2>2, <2>3, <2>5, TailKeepsOrder
  <2>7. SentOnce'
    BY <2>3, <2>5 DEF OrderInv, SentOnce
  <2>8. Range(inbox') = Range(inbox) \cup (TasksOf(C) \ Exhausted(C))
    BY <1>0, <2>1, JoinProperties
  <2>9. Range(dlq') \subseteq Exhausted(C) \cup Range(dlq)
    <3>1. d \o dlq \in Seq(Msgs) /\ Range(d \o dlq) = Exhausted(C) \cup Range(dlq)
      BY <1>0, <2>1, JoinProperties
    <3> QED BY <2>1, <3>1, TrimmedProperties
  <2>10. WaitsInInbox'
    BY <2>2, <2>3, <2>4, <2>5, <2>8, <2>9 DEF OrderInv, WaitsInInbox
  <2> QED BY <2>6, <2>7, <2>10 DEF OrderInv
<1>4. ASSUME NEW t, Recover(t) PROVE OrderInv'
  <2>1. CASE UNCHANGED <<store, ghost>>
    BY <1>1, <2>1 DEF store, ghost
  <2>2. Expired(t) \subseteq DOMAIN index
    BY DEF Expired
  <2> QED BY <1>3, <1>4, <2>1, <2>2 DEF Recover
<1>5. ASSUME NEW m \in Msgs, Send(m) PROVE OrderInv'
  <2>1. /\ inbox' = Append(inbox, m) /\ sent' = Append(sent, m) /\ dlq' = dlq
        /\ holder' = holder /\ fate' = [fate EXCEPT ![m] = "live"] /\ fate[m] = "unsent"
    BY <1>5 DEF Send
  <2>2. /\ holder[m] = NoSession /\ m \notin Range(sent) /\ m \notin Range(inbox)
    BY <2>1 DEF OrderInv, WaitsInInbox, SentOnce, Kept
  <2>3. Range(inbox') = Range(inbox) \cup {m} /\ Range(sent') = Range(sent) \cup {m}
        /\ IsInjective(sent')
    BY <1>0, <2>1, <2>2, AppendNew DEF OrderInv, SentOnce
  <2>4. SentOnce'
    BY <2>1, <2>3 DEF OrderInv, SentOnce, TypeOK
  <2>5. WaitsInInbox'
    <3>1. m \notin Range(dlq)
      BY <2>1 DEF Kept
    <3> QED BY <2>1, <2>3, <3>1 DEF OrderInv, WaitsInInbox, TypeOK
  <2>6. /\ DOMAIN sent' = DOMAIN sent \cup {Len(sent) + 1} /\ sent'[Len(sent) + 1] = m
        /\ DOMAIN inbox' = DOMAIN inbox \cup {Len(inbox) + 1} /\ inbox'[Len(inbox) + 1] = m
        /\ \A i \in DOMAIN sent : i < Len(sent) + 1 /\ sent'[i] = sent[i] /\ sent[i] # m
                                  /\ sent[i] \in Msgs
        /\ \A i \in DOMAIN inbox : i < Len(inbox) + 1 /\ inbox'[i] = inbox[i] /\ inbox[i] # m
    BY <1>0, <2>1, <2>2 DEF Range
  <2>7. Len(sent) \in Nat /\ Len(inbox) \in Nat
        /\ DOMAIN sent = 1..Len(sent) /\ DOMAIN inbox = 1..Len(inbox)
    BY <1>0
  <2>8. FirstDeliveryInOrder'
    <3> SUFFICES ASSUME NEW i \in DOMAIN sent', NEW j \in DOMAIN sent', i < j,
                        holder[sent'[j]] # NoSession
                 PROVE  \/ holder[sent'[i]] # NoSession
                        \/ fate'[sent'[i]] \in {"purged", "aborted"}
      BY <2>1 DEF FirstDeliveryInOrder
    <3>1. j \in DOMAIN sent
      BY <2>2, <2>6
    <3>2. i \in DOMAIN sent
      BY <2>6, <2>7, <3>1
    <3>3. holder[sent[i]] # NoSession \/ fate[sent[i]] \in {"purged", "aborted"}
      BY <2>6, <3>1, <3>2 DEF OrderInv, FirstDeliveryInOrder
    <3> QED BY <2>1, <2>6, <3>2, <3>3 DEF TypeOK
  <2>9. WaitingInOrder'
    <3> SUFFICES ASSUME NEW i \in DOMAIN sent', NEW j \in DOMAIN sent',
                        NEW p \in DOMAIN inbox', NEW q \in DOMAIN inbox',
                        i < j, inbox'[p] = sent'[i], inbox'[q] = sent'[j],
                        holder[sent'[i]] = NoSession, holder[sent'[j]] = NoSession
                 PROVE  p < q
      BY <2>1 DEF WaitingInOrder
    <3>1. i \in DOMAIN sent
      BY <2>6, <2>7
    <3>2. p \in DOMAIN inbox
      BY <2>6, <3>1
    <3>3. CASE j \in DOMAIN sent
      BY <2>6, <3>1, <3>2, <3>3 DEF OrderInv, WaitingInOrder
    <3>4. CASE j = Len(sent) + 1
      BY <2>6, <3>2, <3>4
    <3> QED BY <2>6, <3>3, <3>4
  <2> QED BY <2>4, <2>5, <2>8, <2>9 DEF OrderInv
<1>6. ASSUME NEW m \in Msgs, Requeue(m) PROVE OrderInv'
  <2>1. PICK i \in DOMAIN dlq : dlq[i] = m /\ dlq' = RemoveAt(dlq, i)
    BY <1>6 DEF Requeue
  <2>2. inbox' = Append(inbox, m) /\ UNCHANGED <<sent, holder, fate>>
    BY <1>6 DEF Requeue
  <2>3. m \in Range(dlq) /\ Range(dlq') = Range(dlq) \ {m}
    <3>1. m \in Range(dlq)
      BY <2>1 DEF Range
    <3> QED BY <1>0, <2>1, <3>1, RemoveAtProperties DEF ExactlyOneCopy
  <2>4. holder[m] # NoSession
    BY <2>3 DEF OrderInv, WaitsInInbox
  <2>5. inbox' = inbox \o <<m>> /\ <<m>> \in Seq(Msgs) /\ Range(<<m>>) = {m}
    BY <1>0, <2>2, AppendIsConcat DEF Range
  <2>6. WaitingInOrder' /\ FirstDeliveryInOrder'
    BY <1>0, <2>2, <2>4, <2>5, TailKeepsOrder
  <2>7. Range(inbox') = Range(inbox) \cup {m}
    BY <1>0, <2>2, AppendNew
  <2>8. SentOnce' /\ WaitsInInbox'
    BY <2>2, <2>3, <2>7 DEF OrderInv, SentOnce, WaitsInInbox
  <2> QED BY <2>6, <2>8 DEF OrderInv
<1>7. ASSUME NEW s \in Sessions, StartClaim(s) \/ ClaimNothing(s) \/ CrashCall(s)
      PROVE  OrderInv'
  BY <1>1, <1>7 DEF StartClaim, ClaimNothing, CrashCall, store, ghost
<1>8. ASSUME NEW s \in Sessions, RecoverForClaim(s) PROVE OrderInv'
  BY <1>4, <1>8 DEF RecoverForClaim
<1>9. ASSUME NEW s \in Sessions, NEW r \in Request, ClaimStep(s, r) PROVE OrderInv'
  <2> DEFINE c == r.claim
             popped == Range(Batch(r.max))
             rest == Rest(r.max)
             old == TasksOf({c})
  <2>1. Len(inbox) \in Nat /\ DOMAIN inbox = 1..Len(inbox) /\ r.max \in Nat /\ RunBatch(s, r)
    BY <1>0, <1>9, RequestFields DEF ClaimStep, BatchClaim, Resend
  <2>2. inbox' = rest /\ UNCHANGED <<sent, dlq>>
    BY <2>1 DEF RunBatch
  <2>3. PICK n \in 0..Len(inbox) :
          /\ DOMAIN Batch(r.max) = 1..n /\ DOMAIN rest = 1..(Len(inbox) - n)
          /\ \A i \in 1..n : Batch(r.max)[i] = inbox[i]
          /\ \A i \in 1..(Len(inbox) - n) : rest[i] = inbox[n + i]
          /\ Range(inbox) = popped \cup Range(rest)
    BY <1>0, <2>1, BatchAndRest
  <2>4. s # NoSession /\ \A i \in DOMAIN sent : sent[i] \in Msgs
    BY <1>0, SetsAssumption
  <2>5. /\ \A m \in popped : m \in Msgs /\ fate[m] = "live"
        /\ \A m \in popped : \E i \in 1..n : inbox[i] = m
        /\ \A i \in 1..n : inbox[i] \in popped
    <3>1. \A m \in popped : m \in Msgs /\ fate[m] = "live"
      BY <1>0, <2>3 DEF Kept
    <3>2. popped = {Batch(r.max)[i] : i \in 1..n}
      BY <2>3 DEF Range
    <3> QED BY <2>3, <3>1, <3>2
  <2>6. \A m \in old : holder[m] # NoSession /\ fate[m] \in {"live", "stranded"}
    <3> SUFFICES ASSUME NEW m \in old
                 PROVE  holder[m] # NoSession /\ fate[m] \in {"live", "stranded"}
      OBVIOUS
    <3>1. c \in DOMAIN claims /\ m \in Range(claims[c].tasks)
      BY DEF TasksOf
    <3>2. m \in Msgs /\ holder[m] # NoSession
      BY <1>2, <3>1
    <3>3. c \in DOMAIN index \/ c \in stranded
      BY <1>21, <3>1
    <3> QED BY <3>1, <3>2, <3>3 DEF Kept, StrandedStay
  <2>7. /\ \A m \in Msgs : holder'[m] = NoSession => holder[m] = NoSession
        /\ \A m \in popped : holder'[m] # NoSession \/ fate'[m] = "aborted"
        /\ \A m \in Msgs \ popped : holder'[m] = holder[m]
        /\ \A m \in Msgs \ popped : m \notin old => fate'[m] = fate[m]
        /\ \A m \in Msgs : m \in popped \/ m \in old =>
             fate'[m] \in {"live", "aborted", "stranded", "overwritten"}
    <3> HIDE DEF popped, old
    <3>1. CASE /\ fate' = [m \in Msgs |-> IF m \in popped THEN "aborted" ELSE fate[m]]
               /\ UNCHANGED holder
      BY <2>5, <2>6, <3>1
    <3>2. CASE /\ holder' = [m \in Msgs |-> IF m \in popped THEN s ELSE holder[m]]
               /\ fate' = [m \in Msgs |-> IF m \in old THEN "overwritten"
                                          ELSE IF m \in popped /\ "index" \in wrong THEN "stranded"
                                          ELSE fate[m]]
      BY <2>4, <2>5, <2>6, <3>2
    <3>3. \/ /\ fate' = [m \in Msgs |-> IF m \in popped THEN "aborted" ELSE fate[m]]
             /\ UNCHANGED holder
          \/ /\ holder' = [m \in Msgs |-> IF m \in popped THEN s ELSE holder[m]]
             /\ fate' = [m \in Msgs |-> IF m \in old THEN "overwritten"
                                        ELSE IF m \in popped /\ "index" \in wrong THEN "stranded"
                                        ELSE fate[m]]
      BY <2>1 DEF RunBatch, popped, old
    <3> QED BY <3>1, <3>2, <3>3
  <2> HIDE DEF popped, rest, old, c
  <2>8. /\ \A m \in Msgs : fate'[m] = "unsent" <=> fate[m] = "unsent"
        /\ \A m \in Msgs : fate[m] \in {"purged", "aborted"} => fate'[m] = fate[m]
    BY <2>5, <2>6, <2>7
  <2>9. WaitsInInbox'
    <3>1. \A m \in Msgs : fate'[m] = "unsent" => holder'[m] = NoSession
      BY <2>5, <2>7, <2>8 DEF OrderInv, WaitsInInbox
    <3>2. ASSUME NEW m \in Msgs, holder'[m] = NoSession
          PROVE  fate'[m] \in {"unsent", "purged", "aborted"} \/ m \in Range(rest)
      <4>1. CASE m \in popped
        BY <2>7, <3>2, <4>1
      <4>2. CASE m \notin popped
        <5>1. holder[m] = NoSession /\ m \notin old /\ fate'[m] = fate[m]
          BY <2>6, <2>7, <3>2, <4>2
        <5> QED BY <2>3, <4>2, <5>1 DEF OrderInv, WaitsInInbox
      <4> QED BY <4>1, <4>2
    <3>3. \A m \in Range(dlq) : holder'[m] # NoSession
      BY <1>0, <2>7 DEF OrderInv, WaitsInInbox
    <3> QED BY <2>2, <3>1, <3>2, <3>3 DEF WaitsInInbox
  <2>10. FirstDeliveryInOrder'
    <3> SUFFICES ASSUME NEW i \in DOMAIN sent, NEW j \in DOMAIN sent, i < j,
                        holder'[sent[j]] # NoSession, holder'[sent[i]] = NoSession,
                        fate'[sent[i]] \notin {"purged", "aborted"}
                 PROVE  FALSE
      BY <2>2 DEF FirstDeliveryInOrder
    <3>0. /\ holder[sent[i]] = NoSession /\ fate[sent[i]] \notin {"purged", "aborted"}
          /\ sent[i] \notin popped
      BY <2>4, <2>7, <2>8
    <3>1. holder[sent[j]] = NoSession
      BY <3>0 DEF OrderInv, FirstDeliveryInOrder
    <3>2. sent[j] \in popped
      BY <2>4, <2>7, <3>1
    <3>3. fate[sent[i]] # "unsent"
      BY <2>4 DEF OrderInv, SentOnce, Range
    <3>4. sent[i] \in Range(inbox)
      BY <2>4, <3>0, <3>3 DEF OrderInv, WaitsInInbox
    <3>5. PICK p \in DOMAIN inbox : inbox[p] = sent[i]
      BY <3>4 DEF Range
    <3>6. PICK q \in 1..n : inbox[q] = sent[j]
      BY <2>5, <3>2
    <3>7. q \in DOMAIN inbox
      BY <2>1
    <3>8. p < q
      BY <3>0, <3>1, <3>5, <3>6, <3>7 DEF OrderInv, WaitingInOrder
    <3>9. p \in 1..n
      BY <2>1, <3>8
    <3> QED BY <2>5, <3>0, <3>5, <3>9
  <2>11. WaitingInOrder'
    <3> SUFFICES ASSUME NEW i \in DOMAIN sent, NEW j \in DOMAIN sent,
                        NEW p \in 1..(Len(inbox) - n), NEW q \in 1..(Len(inbox) - n),
                        i < j, rest[p] = sent[i], rest[q] = sent[j],
                        holder'[sent[i]] = NoSession, holder'[sent[j]] = NoSession
                 PROVE  p < q
      BY <2>2, <2>3 DEF WaitingInOrder
    <3>1. holder[sent[i]] = NoSession /\ holder[sent[j]] = NoSession
      BY <2>4, <2>7
    <3>2. /\ n + p \in DOMAIN inbox /\ n + q \in DOMAIN inbox
          /\ inbox[n + p] = sent[i] /\ inbox[n + q] = sent[j]
      BY <2>1, <2>3
    <3>3. n + p < n + q
      BY <3>1, <3>2 DEF OrderInv, WaitingInOrder
    <3> QED BY <2>1, <3>3
  <2>12. SentOnce'
    BY <2>2, <2>8 DEF OrderInv, SentOnce
  <2> QED BY <2>9, <2>10, <2>11, <2>12 DEF OrderInv
<1>10. ASSUME NEW s \in Sessions, NEW c \in ClaimIds, Acknowledge(s, c) PROVE OrderInv'
  <2>1. /\ UNCHANGED <<inbox, dlq, sent, holder>> /\ c \in DOMAIN index
        /\ fate' = [m \in Msgs |-> IF m \in TasksOf({c}) THEN "acked" ELSE fate[m]]
    BY <1>10, <1>21 DEF Acknowledge
  <2>2. \A m \in TasksOf({c}) : m \in Msgs /\ holder[m] # NoSession /\ fate[m] = "live"
    <3> SUFFICES ASSUME NEW m \in TasksOf({c})
                 PROVE  m \in Msgs /\ holder[m] # NoSession /\ fate[m] = "live"
      OBVIOUS
    <3>1. m \in Range(claims[c].tasks)
      BY DEF TasksOf
    <3> QED BY <1>2, <1>21, <2>1, <3>1 DEF Kept
  <2>3. SentOnce'
    BY <2>1, <2>2 DEF OrderInv, SentOnce
  <2>4. WaitsInInbox'
    BY <2>1, <2>2 DEF OrderInv, WaitsInInbox
  <2>5. WaitingInOrder'
    BY <2>1 DEF OrderInv, WaitingInOrder
  <2>6. FirstDeliveryInOrder'
    <3>1. \A i \in DOMAIN sent : sent[i] \in Msgs
      BY <1>0
    <3> QED BY <2>1, <2>2, <3>1 DEF OrderInv, FirstDeliveryInOrder
  <2> QED BY <2>3, <2>4, <2>5, <2>6 DEF OrderInv
<1>11. ASSUME NEW s \in Sessions, NEW c \in ClaimIds, NEW ttl \in 1..MaxTtl, Renew(s, c, ttl)
       PROVE  OrderInv'
  BY <1>1, <1>11 DEF Renew, ghost
<1>12. ASSUME RecoverExpired PROVE OrderInv'
  BY <1>4, <1>12 DEF RecoverExpired
<1>13. ASSUME Unregister PROVE OrderInv'
  <2>1. /\ inbox' = <<>> /\ dlq' = <<>> /\ UNCHANGED <<sent, holder>>
        /\ fate' = [m \in Msgs |->
                      IF m \in TasksOf(DOMAIN index) \cup Range(dlq) \cup Range(inbox)
                      THEN "purged" ELSE fate[m]]
    BY <1>13 DEF Unregister
  <2>2. \A m \in Msgs : m \in TasksOf(DOMAIN index) \cup Range(dlq) \cup Range(inbox)
                        <=> fate[m] = "live"
    BY <1>21 DEF Kept, TasksOf
  <2>3. Range(dlq') = {} /\ DOMAIN inbox' = {}
    BY <2>1 DEF Range
  <2>4. SentOnce'
    BY <2>1, <2>2 DEF OrderInv, SentOnce
  <2>5. WaitsInInbox'
    BY <2>1, <2>2, <2>3 DEF OrderInv, WaitsInInbox
  <2>6. WaitingInOrder'
    BY <2>3 DEF WaitingInOrder
  <2>7. FirstDeliveryInOrder'
    <3>1. \A i \in DOMAIN sent : sent[i] \in Msgs
      BY <1>0
    <3> QED BY <2>1, <3>1 DEF OrderInv, FirstDeliveryInOrder
  <2> QED BY <2>4, <2>5, <2>6, <2>7 DEF OrderInv
<1>14. ASSUME Tick \/ Corrupt \/ Repair PROVE OrderInv'
  BY <1>1, <1>14 DEF Tick, Corrupt, Repair, ghost
<1>15. CASE UNCHANGED vars
  BY <1>1, <1>15 DEF vars, store, ghost
<1> QED
  BY <1>5, <1>6, <1>7, <1>8, <1>9, <1>10, <1>11, <1>12, <1>13, <1>14, <1>15
     DEF Next, ClaimStep

\* First deliveries follow the order of acceptance, with recoveries, requeues and any
\* number of sessions claiming in between.
THEOREM FirstDeliveriesInOrder == Spec => []FirstDeliveryInOrder
<1>1. Init => OwnerInv
  <2>1. Init => OwnersHold /\ OnlyLastHolderAcks
    BY DEF Init, OwnersHold, OnlyLastHolderAcks
  <2> QED BY <2>1, InitCopies DEF OwnerInv
<1>2. Init => OrderInv
  BY DEF Init, OrderInv, SentOnce, WaitsInInbox, WaitingInOrder, FirstDeliveryInOrder,
         IsInjective, Range
<1>3. OrderInv => FirstDeliveryInOrder
  BY DEF OrderInv
<1> QED BY <1>1, <1>2, <1>3, OwnerStep, OrderStep, PTL DEF Spec

(***************************************************************************)
(* Refinement: the claim path implements at-least-once delivery.           *)
(***************************************************************************)

At(m, where, who) == Place(m) = where /\ ClaimedBy(m) = who

\* Every message is at one place, and one session at most has it.
Placed ==
  \A m \in Msgs :
    /\ m \in Range(inbox) => At(m, "queued", {})
    /\ m \in Range(dlq) => At(m, "dead", {})
    /\ \A c \in DOMAIN index :
         m \in Range(claims[c].tasks) => At(m, "held", {claims[c].session})
    /\ fate[m] # "live" => At(m, fate[m], {})
    /\ \/ m \in Range(inbox) \/ m \in Range(dlq) \/ fate[m] # "live"
       \/ \E c \in DOMAIN index : m \in Range(claims[c].tasks)

\* One copy of each message is one place for each message.
LEMMA CopiesArePlaced == CopyInv => Placed
<1> SUFFICES ASSUME CopyInv, NEW m \in Msgs
             PROVE  /\ m \in Range(inbox) => At(m, "queued", {})
                    /\ m \in Range(dlq) => At(m, "dead", {})
                    /\ \A c \in DOMAIN index :
                         m \in Range(claims[c].tasks) => At(m, "held", {claims[c].session})
                    /\ fate[m] # "live" => At(m, fate[m], {})
                    /\ \/ m \in Range(inbox) \/ m \in Range(dlq) \/ fate[m] # "live"
                       \/ \E c \in DOMAIN index : m \in Range(claims[c].tasks)
  BY DEF Placed
<1>0. /\ ExactlyOneCopy
      /\ DOMAIN index = DOMAIN claims \ stranded /\ DOMAIN index \subseteq DOMAIN claims
  BY ClaimIndexed DEF CopyInv, Copies
<1>1. fate[m] = "live" <=>
        \/ m \in Range(inbox) \/ m \in Range(dlq)
        \/ \E c \in DOMAIN index : m \in Range(claims[c].tasks)
  BY DEF CopyInv, Copies, Kept
<1>2. m \in TasksOf(DOMAIN index) <=> \E c \in DOMAIN index : m \in Range(claims[c].tasks)
  BY <1>0 DEF TasksOf
<1>3. ASSUME \A c \in DOMAIN index : m \notin Range(claims[c].tasks)
      PROVE  ClaimedBy(m) = {}
  BY <1>0, <1>3 DEF ClaimedBy
<1>4. ASSUME m \in Range(inbox) PROVE At(m, "queued", {})
  <2>1. \A c \in DOMAIN index : m \notin Range(claims[c].tasks)
    BY <1>0, <1>4 DEF ExactlyOneCopy
  <2> QED BY <1>1, <1>3, <1>4, <2>1 DEF At, Place
<1>5. ASSUME m \in Range(dlq) PROVE At(m, "dead", {})
  <2>1. m \notin Range(inbox) /\ \A c \in DOMAIN index : m \notin Range(claims[c].tasks)
    BY <1>0, <1>5 DEF ExactlyOneCopy
  <2> QED BY <1>1, <1>3, <1>5, <2>1 DEF At, Place
<1>6. ASSUME NEW c \in DOMAIN index, m \in Range(claims[c].tasks)
      PROVE  At(m, "held", {claims[c].session})
  <2>1. m \notin Range(inbox) /\ m \notin Range(dlq)
    BY <1>0, <1>6 DEF ExactlyOneCopy
  <2>2. {e \in DOMAIN claims \ stranded : m \in Range(claims[e].tasks)} = {c}
    BY <1>0, <1>6 DEF ExactlyOneCopy
  <2>3. ClaimedBy(m) = {claims[c].session}
    BY <2>2 DEF ClaimedBy
  <2> QED BY <1>1, <1>2, <1>6, <2>1, <2>3 DEF At, Place
<1>7. ASSUME fate[m] # "live" PROVE At(m, fate[m], {})
  BY <1>1, <1>3, <1>7 DEF At, Place
<1> QED BY <1>1, <1>4, <1>5, <1>6, <1>7

\* The abstract moves of one message, in terms of where the store has it.
LEMMA MovesOfAMessage ==
  ASSUME NEW m \in Msgs
  PROVE  /\ Place(m)' = Place(m) /\ ClaimedBy(m)' = ClaimedBy(m) => AtLeastOnce!Stays(m)
         /\ \A from, to, who :
              Place(m) = from /\ At(m, to, who)' => AtLeastOnce!Goes(m, from, to, who)
         /\ ClaimedBy(m) = [n \in Msgs |-> ClaimedBy(n)][m]
<1>1. /\ [n \in Msgs |-> Place(n)][m] = Place(m)
      /\ [n \in Msgs |-> ClaimedBy(n)][m] = ClaimedBy(m)
  OBVIOUS
<1>2. /\ ([n \in Msgs |-> Place(n)]')[m] = Place(m)'
      /\ ([n \in Msgs |-> ClaimedBy(n)]')[m] = ClaimedBy(m)'
  OBVIOUS
<1> QED BY <1>1, <1>2 DEF At, AtLeastOnce!Stays, AtLeastOnce!Goes

\* A message at the same place before and after stays.
LEMMA StaysPut ==
  ASSUME NEW m \in Msgs, NEW where, NEW who, At(m, where, who), At(m, where, who)'
  PROVE  AtLeastOnce!Stays(m)
BY MovesOfAMessage DEF At

\* A step in which every message makes the moves of one abstract action is a step of
\* the abstract specification.
LEMMA StepOfDelivery ==
  ASSUME \/ \E s \in Sessions : AtLeastOnce!Deliver(s) \/ AtLeastOnce!Acknowledge(s)
         \/ AtLeastOnce!Recover \/ AtLeastOnce!BreakOff
         \/ \E m \in Msgs : AtLeastOnce!Accept(m) \/ AtLeastOnce!Requeue(m)
         \/ AtLeastOnce!Purge
  PROVE  AtLeastOnce!Next
BY DEF AtLeastOnce!Next

\* A message that the same list, or no list, has before and after is at the same place.
LEMMA ListedStays ==
  ASSUME Placed, Placed', NEW m \in Msgs,
         \/ m \in Range(inbox) /\ m \in Range(inbox')
         \/ m \in Range(dlq) /\ m \in Range(dlq')
         \/ fate[m] # "live" /\ fate'[m] = fate[m]
  PROVE  Place(m)' = Place(m) /\ ClaimedBy(m)' = ClaimedBy(m)
<1>1. CASE m \in Range(inbox) /\ m \in Range(inbox')
  <2>1. At(m, "queued", {}) /\ At(m, "queued", {})'
    BY <1>1 DEF Placed
  <2> QED BY <2>1 DEF At
<1>2. CASE m \in Range(dlq) /\ m \in Range(dlq')
  <2>1. At(m, "dead", {}) /\ At(m, "dead", {})'
    BY <1>2 DEF Placed
  <2> QED BY <2>1 DEF At
<1>3. CASE fate[m] # "live" /\ fate'[m] = fate[m]
  BY <1>3 DEF Placed, At
<1> QED BY <1>1, <1>2, <1>3

\* A message that one claim of the same session has before and after is at the same place.
LEMMA ClaimedStays ==
  ASSUME Placed, Placed', NEW m \in Msgs, NEW e \in DOMAIN index,
         m \in Range(claims[e].tasks),
         e \in DOMAIN index',
         claims'[e].tasks = claims[e].tasks,
         claims'[e].session = claims[e].session
  PROVE  Place(m)' = Place(m) /\ ClaimedBy(m)' = ClaimedBy(m)
<1>1. Place(m) = "held" /\ ClaimedBy(m) = {claims[e].session}
  BY DEF Placed, At
<1>2. (\A c \in DOMAIN index :
         m \in Range(claims[c].tasks) => At(m, "held", {claims[c].session}))'
  BY DEF Placed
<1>3. Place(m)' = "held" /\ ClaimedBy(m)' = {claims'[e].session}
  BY <1>2 DEF At
<1> QED BY <1>1, <1>3

\* Recovery that moves the claims C: what they held is queued again or dead, and what no
\* longer fits is dropped.
LEMMA MoveExpiredRecovers ==
  ASSUME CopyInv, Placed, Placed', NEW C \in SUBSET DOMAIN index, MoveExpired(C)
  PROVE  AtLeastOnce!Recover
<1> DEFINE dead == Exhausted(C)
           back == TasksOf(C) \ dead
<1>0. TypeOK /\ ExactlyOneCopy /\ DOMAIN index \subseteq DOMAIN claims
  BY ClaimIndexed DEF CopyInv, Copies, RecordInv
<1>1. PICK q, d \in Seq(Msgs) :
        /\ Range(q) = back /\ IsInjective(q)
        /\ Range(d) = dead /\ IsInjective(d)
        /\ inbox' = inbox \o q
        /\ dlq' = Trimmed(d \o dlq)
  BY <1>0, MoveExpiredLists
<1>2. /\ inbox \in Seq(Msgs) /\ dlq \in Seq(Msgs)
      /\ IsInjective(inbox) /\ IsInjective(dlq)
  BY <1>0 DEF TypeOK, ExactlyOneCopy
<1>3. /\ dead \subseteq TasksOf(C)
      /\ TasksOf(C) \cap (Range(inbox) \cup Range(dlq)) = {}
  BY <1>0 DEF Exhausted, TasksOf, ExactlyOneCopy
<1>4. Range(inbox') = Range(inbox) \cup back
  BY <1>1, <1>2, <1>3, JoinProperties
<1>5. /\ DOMAIN claims' = DOMAIN claims \ C
      /\ DOMAIN index' = DOMAIN index \ C
      /\ \A c \in DOMAIN claims \ C : claims'[c] = claims[c]
  BY DEF MoveExpired, Without, Restrict
<1>6. \A m \in Msgs :
        fate'[m] = IF m \in (dead \cup Range(dlq)) \ Range(dlq') THEN "dropped" ELSE fate[m]
  BY DEF MoveExpired
<1> HIDE DEF dead, back
<1> SUFFICES ASSUME NEW m \in Msgs
             PROVE  \/ AtLeastOnce!Stays(m)
                    \/ \E to \in {"queued", "dead", "dropped"} : AtLeastOnce!Goes(m, "held", to, {})
                    \/ AtLeastOnce!Goes(m, "dead", "dropped", {})
  BY DEF AtLeastOnce!Recover
<1>7. CASE m \in TasksOf(C)
  <2>1. Place(m) = "held"
    BY <1>7 DEF TasksOf, Placed, At
  <2>2. \/ At(m, "queued", {})'
        \/ At(m, "dead", {})'
        \/ At(m, "dropped", {})'
    BY <1>4, <1>6, <1>7 DEF back, Placed
  <2> QED BY <2>1, <2>2, MovesOfAMessage
<1>8. CASE m \in Range(inbox)
  <2>1. At(m, "queued", {}) /\ At(m, "queued", {})'
    BY <1>4, <1>8 DEF Placed
  <2> QED BY <2>1, StaysPut
<1>9. CASE m \in Range(dlq)
  <2>1. At(m, "dead", {}) /\ (At(m, "dead", {})' \/ At(m, "dropped", {})')
    BY <1>6, <1>9 DEF Placed
  <2> QED BY <2>1, StaysPut, MovesOfAMessage DEF At
<1>10. CASE \E c \in DOMAIN index \ C : m \in Range(claims[c].tasks)
  <2>1. PICK c \in DOMAIN index \ C : m \in Range(claims[c].tasks)
    BY <1>10
  <2>2. c \in DOMAIN index' /\ claims'[c] = claims[c]
    BY <1>0, <1>5, <2>1
  <2> QED BY <2>1, <2>2, ClaimedStays, MovesOfAMessage
<1>11. CASE fate[m] # "live" /\ m \notin dead /\ m \notin Range(dlq)
  <2>1. fate'[m] = fate[m]
    BY <1>6, <1>11
  <2>2. Place(m)' = Place(m) /\ ClaimedBy(m)' = ClaimedBy(m)
    BY <1>11, <2>1 DEF Placed, At
  <2> QED BY <2>2, MovesOfAMessage
<1>12. m \in TasksOf(C) <=> \E c \in C : m \in Range(claims[c].tasks)
  BY <1>0 DEF TasksOf
<1> QED BY <1>3, <1>7, <1>8, <1>9, <1>10, <1>11, <1>12 DEF Placed

\* The recovery script, whichever way it ends, is a recovery or changes no message.
LEMMA RecoverRecovers ==
  ASSUME CopyInv, Placed, Placed', NEW t, Recover(t)
  PROVE  AtLeastOnce!Next \/ UNCHANGED <<inbox, claims, index, dlq, fate, stranded>>
<1>1. CASE UNCHANGED <<store, ghost>>
  BY <1>1 DEF store, ghost
<1>2. CASE MoveExpired(Expired(t))
  <2>1. Expired(t) \subseteq DOMAIN index
    BY DEF Expired
  <2> QED BY <1>2, <2>1, MoveExpiredRecovers, StepOfDelivery
<1> QED BY <1>1, <1>2 DEF Recover

\* A run of the batch-claim script delivers, and may overwrite what the same session has;
\* or it breaks off on a key of the wrong type.
LEMMA ClaimStepDelivers ==
  ASSUME CopyInv, Placed, Placed', NEW s \in Sessions, NEW r \in Request, ClaimStep(s, r)
  PROVE  AtLeastOnce!Next
<1> DEFINE c == r.claim
           popped == Range(Batch(r.max))
           rest == Range(Rest(r.max))
           old == TasksOf({c})
<1>0. /\ TypeOK /\ Records /\ ExactlyOneCopy /\ StrandedStay /\ RunBatch(s, r)
      /\ DOMAIN index = DOMAIN claims \ stranded /\ DOMAIN index \subseteq DOMAIN claims
      /\ c \notin issued \/ r \in req[s]
  BY ClaimIndexed, ClaimSteps DEF CopyInv, Copies, RecordInv
<1>1. Range(inbox) = popped \cup rest
  <2>1. inbox \in Seq(Msgs) /\ r.max \in Nat
    BY <1>0, RequestFields DEF TypeOK
  <2> QED BY <2>1, BatchAndRest
<1>2. Range(inbox') = rest /\ dlq' = dlq
  BY <1>0 DEF RunBatch
<1>3. \A m \in old : /\ c \in DOMAIN claims /\ m \in Range(claims[c].tasks)
                     /\ claims[c].session = s /\ m \notin popped
  <2>1. \A m \in old : c \in DOMAIN claims /\ m \in Range(claims[c].tasks)
    BY DEF TasksOf
  <2>2. c \in DOMAIN claims => claims[c].session = s
    BY <1>0 DEF Records, ClaimsIssued, RequestsAreOwn
  <2>3. c \in DOMAIN claims => Range(claims[c].tasks) \cap Range(inbox) = {}
    BY <1>0 DEF ExactlyOneCopy
  <2> QED BY <1>1, <2>1, <2>2, <2>3
<1>4. ASSUME NEW m \in Msgs, m \in old
      PROVE  \/ At(m, "held", {s}) /\ c \in DOMAIN index
             \/ At(m, "stranded", {})
  <2>1. CASE c \in DOMAIN index
    BY <1>3, <1>4, <2>1 DEF Placed
  <2>2. CASE c \in stranded
    <3>1. fate[m] = "stranded"
      BY <1>0, <1>3, <1>4, <2>2 DEF StrandedStay
    <3> QED BY <3>1 DEF Placed
  <2> QED BY <1>0, <1>3, <1>4, <2>1, <2>2
<1>5. ASSUME NEW m \in Msgs, m \in popped PROVE At(m, "queued", {})
  BY <1>1, <1>5 DEF Placed
<1> HIDE DEF popped, rest, old
\* A message that the script neither pops nor overwrites stays.
<1>6. ASSUME NEW m \in Msgs, m \notin popped, m \notin old, fate'[m] = fate[m],
             \A e \in DOMAIN index \ {c} : e \in DOMAIN index' /\ claims'[e] = claims[e]
      PROVE  AtLeastOnce!Stays(m)
  <2>1. CASE m \in rest
    <3>1. At(m, "queued", {}) /\ At(m, "queued", {})'
      BY <1>1, <1>2, <2>1 DEF Placed
    <3> QED BY <3>1, StaysPut
  <2>2. CASE m \in Range(dlq) \/ fate[m] # "live"
    <3>1. Place(m)' = Place(m) /\ ClaimedBy(m)' = ClaimedBy(m)
      BY <1>2, <1>6, <2>2, ListedStays
    <3> QED BY <3>1, MovesOfAMessage
  <2>3. CASE \E e \in DOMAIN index : m \in Range(claims[e].tasks)
    <3>1. PICK e \in DOMAIN index : m \in Range(claims[e].tasks)
      BY <2>3
    <3>2. e # c
      BY <1>0, <1>6, <3>1 DEF old, TasksOf
    <3>3. e \in DOMAIN index' /\ claims'[e] = claims[e]
      BY <1>6, <3>1, <3>2
    <3>4. Place(m)' = Place(m) /\ ClaimedBy(m)' = ClaimedBy(m)
      BY <3>1, <3>3, ClaimedStays
    <3> QED BY <3>4, MovesOfAMessage
  <2> QED BY <1>1, <1>6, <2>1, <2>2, <2>3 DEF Placed
<1>7. CASE "claims" \in wrong
  <2>1. /\ fate' = [m \in Msgs |-> IF m \in popped THEN "aborted" ELSE fate[m]]
        /\ UNCHANGED <<claims, index>>
    BY <1>0, <1>7 DEF RunBatch, popped
  <2>2. ASSUME NEW m \in Msgs
        PROVE  AtLeastOnce!Stays(m) \/ AtLeastOnce!Goes(m, "queued", "aborted", {})
    <3>1. CASE m \in popped
      <4>1. fate'[m] = "aborted"
        BY <2>1, <3>1
      <4>2. At(m, "aborted", {})'
        BY <4>1 DEF Placed
      <4>3. Place(m) = "queued"
        BY <1>5, <3>1 DEF At
      <4> QED BY <4>2, <4>3, MovesOfAMessage
    <3>2. CASE m \notin popped /\ m \in old
      <4>1. fate'[m] = fate[m]
        BY <2>1, <3>2
      <4>2. c \in DOMAIN claims /\ m \in Range(claims[c].tasks)
        BY <1>3, <3>2
      <4>3. CASE c \in DOMAIN index
        <5>1. c \in DOMAIN index' /\ claims'[c] = claims[c]
          BY <2>1, <4>3
        <5>2. Place(m)' = Place(m) /\ ClaimedBy(m)' = ClaimedBy(m)
          BY <4>2, <4>3, <5>1, ClaimedStays
        <5> QED BY <5>2, MovesOfAMessage
      <4>4. CASE c \notin DOMAIN index
        <5>1. fate[m] = "stranded"
          BY <1>0, <4>2, <4>4 DEF StrandedStay
        <5>2. Place(m)' = Place(m) /\ ClaimedBy(m)' = ClaimedBy(m)
          BY <4>1, <5>1, ListedStays
        <5> QED BY <5>2, MovesOfAMessage
      <4> QED BY <4>3, <4>4
    <3>3. CASE m \notin popped /\ m \notin old
      BY <1>6, <2>1, <3>3
    <3> QED BY <3>1, <3>2, <3>3
  <2>3. AtLeastOnce!BreakOff
    BY <2>2 DEF AtLeastOnce!BreakOff
  <2> QED BY <2>3, StepOfDelivery
<1>8. CASE "claims" \notin wrong /\ "index" \in wrong
  <2>1. UNCHANGED index
    BY <1>0, <1>8 DEF RunBatch
  <2>2. fate' = [m \in Msgs |-> IF m \in old THEN "overwritten"
                               ELSE IF m \in popped THEN "stranded" ELSE fate[m]]
    BY <1>0, <1>8 DEF RunBatch, popped, old
  <2>3. DOMAIN index = {}
    BY <1>0, <1>8 DEF Records, DamageIsBounded
  <2>4. ASSUME NEW m \in Msgs
        PROVE  \/ AtLeastOnce!Stays(m)
               \/ AtLeastOnce!Goes(m, "queued", "stranded", {})
               \/ AtLeastOnce!Goes(m, "stranded", "overwritten", {})
    <3>1. CASE m \in popped
      <4>1. fate'[m] = "stranded"
        BY <1>3, <2>2, <3>1
      <4>2. At(m, "stranded", {})'
        BY <4>1 DEF Placed
      <4>3. Place(m) = "queued"
        BY <1>5, <3>1 DEF At
      <4> QED BY <4>2, <4>3, MovesOfAMessage
    <3>2. CASE m \in old
      <4>1. fate'[m] = "overwritten"
        BY <2>2, <3>2
      <4>2. At(m, "overwritten", {})'
        BY <4>1 DEF Placed
      <4>3. Place(m) = "stranded"
        BY <1>4, <2>3, <3>2 DEF At
      <4> QED BY <4>2, <4>3, MovesOfAMessage
    <3>3. CASE m \notin popped /\ m \notin old
      <4>1. fate'[m] = fate[m]
        BY <2>2, <3>3
      <4> QED BY <1>6, <2>3, <3>3, <4>1
    <3> QED BY <3>1, <3>2, <3>3
  <2>5. AtLeastOnce!BreakOff
    BY <2>4 DEF AtLeastOnce!BreakOff
  <2> QED BY <2>5, StepOfDelivery
<1>9. CASE "claims" \notin wrong /\ "index" \notin wrong
  <2>1. claims' = With(claims, c, Granted(s, r)) /\ index' = With(index, c, at[s] + r.ttl)
    BY <1>0, <1>9 DEF RunBatch
  <2>2. fate' = [m \in Msgs |-> IF m \in old THEN "overwritten" ELSE fate[m]]
    BY <1>0, <1>9 DEF RunBatch, old
  <2>3. /\ c \in DOMAIN index' /\ claims'[c] = Granted(s, r)
        /\ \A e \in DOMAIN index \ {c} : e \in DOMAIN index' /\ claims'[e] = claims[e]
    BY <1>0, <2>1 DEF With
  <2>4. claims'[c].session = s /\ Range(claims'[c].tasks) = popped
    BY <1>0, <2>3, GrantedFields DEF popped
  <2> HIDE DEF c
  <2>5. ASSUME NEW m \in Msgs
        PROVE  \/ AtLeastOnce!Stays(m)
               \/ AtLeastOnce!Goes(m, "queued", "held", {s})
               \/ ClaimedBy(m) = {s} /\ AtLeastOnce!Goes(m, "held", "overwritten", {})
               \/ AtLeastOnce!Goes(m, "stranded", "overwritten", {})
    <3>1. CASE m \in popped
      <4>1. (\A e \in DOMAIN index :
               m \in Range(claims[e].tasks) => At(m, "held", {claims[e].session}))'
        BY DEF Placed
      <4>2. At(m, "held", {s})'
        BY <2>3, <2>4, <3>1, <4>1
      <4>3. Place(m) = "queued"
        BY <1>5, <3>1 DEF At
      <4> QED BY <4>2, <4>3, MovesOfAMessage
    <3>2. CASE m \in old
      <4>1. fate'[m] = "overwritten"
        BY <2>2, <3>2
      <4>2. At(m, "overwritten", {})'
        BY <4>1 DEF Placed
      <4>3. (Place(m) = "held" /\ ClaimedBy(m) = {s}) \/ Place(m) = "stranded"
        BY <1>4, <3>2 DEF At
      <4> QED BY <4>2, <4>3, MovesOfAMessage
    <3>3. CASE m \notin popped /\ m \notin old
      <4>1. fate'[m] = fate[m]
        BY <2>2, <3>3
      <4> QED BY <1>6, <2>3, <3>3, <4>1
    <3> QED BY <3>1, <3>2, <3>3
  <2>6. AtLeastOnce!Deliver(s)
    <3>1. \A m \in Msgs : ClaimedBy(m) = [n \in Msgs |-> ClaimedBy(n)][m]
      OBVIOUS
    <3> QED BY <2>5, <3>1 DEF AtLeastOnce!Deliver
  <2> QED BY <2>6, StepOfDelivery
<1> QED BY <1>7, <1>8, <1>9

\* Every step of the claim path is a step of at-least-once delivery, or moves no message.
LEMMA DeliveryStep ==
  CopyInv /\ Placed /\ Placed' /\ [Next]_vars => [AtLeastOnce!Next]_(AtLeastOnce!vars)
<1> SUFFICES ASSUME CopyInv, Placed, Placed', [Next]_vars
             PROVE  AtLeastOnce!Next \/ UNCHANGED AtLeastOnce!vars
  OBVIOUS
<1>0. /\ TypeOK /\ Records /\ ExactlyOneCopy /\ Kept /\ StrandedStay
      /\ DOMAIN index = DOMAIN claims \ stranded /\ DOMAIN index \subseteq DOMAIN claims
      /\ told \cap stranded = {}
  BY ClaimIndexed DEF CopyInv, Copies, RecordInv, Records, IndexMirrorsHash
<1>1. ASSUME UNCHANGED <<inbox, claims, index, dlq, fate, stranded>>
      PROVE  UNCHANGED AtLeastOnce!vars
  BY <1>1 DEF AtLeastOnce!vars, Place, ClaimedBy, TasksOf
<1>2. ASSUME NEW m \in Msgs, Send(m) PROVE AtLeastOnce!Next
  <2>1. Range(inbox') = Range(inbox) \cup {m}
    <3>1. m \notin Range(inbox)
      BY <1>0, <1>2 DEF Send, Kept
    <3> QED BY <1>0, <1>2, <3>1, AppendNew DEF Send, TypeOK, ExactlyOneCopy
  <2>2. /\ UNCHANGED <<claims, index, stranded, dlq>> /\ fate[m] = "unsent"
        /\ \A n \in Msgs \ {m} : fate'[n] = fate[n]
    BY <1>0, <1>2 DEF Send, TypeOK
  <2>3. AtLeastOnce!Goes(m, "unsent", "queued", {})
    <3>1. Place(m) = "unsent" /\ At(m, "queued", {})'
      BY <2>1, <2>2 DEF Placed, At
    <3> QED BY <3>1, MovesOfAMessage
  <2>4. ASSUME NEW n \in Msgs \ {m} PROVE AtLeastOnce!Stays(n)
    <3>1. Place(n)' = Place(n) /\ ClaimedBy(n)' = ClaimedBy(n)
      BY <2>1, <2>2 DEF Place, ClaimedBy, TasksOf
    <3> QED BY <3>1, MovesOfAMessage
  <2>5. AtLeastOnce!Accept(m)
    BY <2>3, <2>4 DEF AtLeastOnce!Accept
  <2> QED BY <2>5, StepOfDelivery
<1>3. ASSUME NEW m \in Msgs, Requeue(m) PROVE AtLeastOnce!Next
  <2>1. PICK i \in DOMAIN dlq : dlq[i] = m /\ dlq' = RemoveAt(dlq, i)
    BY <1>3 DEF Requeue
  <2>2. Range(dlq') = Range(dlq) \ {m} /\ m \in Range(dlq)
    <3>1. m \in Range(dlq)
      BY <2>1 DEF Range
    <3> QED BY <1>0, <2>1, <3>1, RemoveAtProperties DEF TypeOK, ExactlyOneCopy
  <2>3. Range(inbox') = Range(inbox) \cup {m}
    <3>1. m \notin Range(inbox) /\ inbox \in Seq(Msgs) /\ IsInjective(inbox)
      BY <1>0, <2>2 DEF TypeOK, ExactlyOneCopy
    <3>2. inbox' = Append(inbox, m)
      BY <1>3 DEF Requeue
    <3> QED BY <3>1, <3>2, AppendNew
  <2>4. UNCHANGED <<claims, index, stranded, fate>>
    BY <1>3 DEF Requeue
  <2>5. AtLeastOnce!Goes(m, "dead", "queued", {})
    <3>1. Place(m) = "dead" /\ At(m, "queued", {})'
      BY <2>2, <2>3 DEF Placed, At
    <3> QED BY <3>1, MovesOfAMessage
  <2>6. ASSUME NEW n \in Msgs \ {m} PROVE AtLeastOnce!Stays(n)
    <3>1. Place(n)' = Place(n) /\ ClaimedBy(n)' = ClaimedBy(n)
      BY <2>2, <2>3, <2>4 DEF Place, ClaimedBy, TasksOf
    <3> QED BY <3>1, MovesOfAMessage
  <2>7. AtLeastOnce!Requeue(m)
    BY <2>5, <2>6 DEF AtLeastOnce!Requeue
  <2> QED BY <2>7, StepOfDelivery
<1>4. ASSUME NEW s \in Sessions, StartClaim(s) \/ ClaimNothing(s) \/ CrashCall(s)
      PROVE  UNCHANGED AtLeastOnce!vars
  BY <1>1, <1>4 DEF StartClaim, ClaimNothing, CrashCall, store, ghost
<1>5. ASSUME NEW s \in Sessions, RecoverForClaim(s)
      PROVE  AtLeastOnce!Next \/ UNCHANGED AtLeastOnce!vars
  BY <1>1, <1>5, RecoverRecovers DEF RecoverForClaim
<1>6. ASSUME NEW s \in Sessions, NEW r \in Request, ClaimStep(s, r) PROVE AtLeastOnce!Next
  BY <1>6, ClaimStepDelivers
<1>7. ASSUME NEW s \in Sessions, NEW c \in ClaimIds, Acknowledge(s, c)
      PROVE  AtLeastOnce!Next
  <2>1. /\ DOMAIN index' = DOMAIN index \ {c} /\ c \in DOMAIN index
        /\ claims[c].session = s
        /\ \A e \in DOMAIN index \ {c} : claims'[e] = claims[e]
        /\ inbox' = inbox /\ dlq' = dlq
    BY <1>0, <1>7 DEF Acknowledge, Without, Restrict
  <2>2. \A m \in Msgs : fate'[m] = IF m \in Range(claims[c].tasks) THEN "acked" ELSE fate[m]
    <3>1. TasksOf({c}) = Range(claims[c].tasks)
      BY <1>0, <2>1 DEF TasksOf
    <3> QED BY <1>7, <3>1 DEF Acknowledge
  <2>3. ASSUME NEW m \in Msgs
        PROVE  \/ AtLeastOnce!Stays(m)
               \/ ClaimedBy(m) = {s} /\ AtLeastOnce!Goes(m, "held", "acked", {})
    <3>1. CASE m \in Range(claims[c].tasks)
      <4>1. Place(m) = "held" /\ ClaimedBy(m) = {s}
        BY <2>1, <3>1 DEF Placed, At
      <4>2. At(m, "acked", {})'
        BY <2>2, <3>1 DEF Placed
      <4> QED BY <4>1, <4>2, MovesOfAMessage
    <3>2. CASE m \notin Range(claims[c].tasks)
      <4>1. Place(m)' = Place(m) /\ ClaimedBy(m)' = ClaimedBy(m)
        <5>1. CASE m \in Range(inbox) \/ m \in Range(dlq) \/ fate[m] # "live"
          BY <2>1, <2>2, <3>2, <5>1, ListedStays
        <5>2. CASE \E e \in DOMAIN index : m \in Range(claims[e].tasks)
          <6>1. PICK e \in DOMAIN index : m \in Range(claims[e].tasks)
            BY <5>2
          <6>2. e \in DOMAIN index' /\ claims'[e] = claims[e]
            BY <2>1, <3>2, <6>1
          <6> QED BY <6>1, <6>2, ClaimedStays
        <5> QED BY <5>1, <5>2 DEF Placed
      <4> QED BY <4>1, MovesOfAMessage
    <3> QED BY <3>1, <3>2
  <2>4. AtLeastOnce!Acknowledge(s)
    BY <2>3 DEF AtLeastOnce!Acknowledge
  <2> QED BY <2>4, StepOfDelivery
<1>8. ASSUME NEW s \in Sessions, NEW c \in ClaimIds, NEW ttl \in 1..MaxTtl, Renew(s, c, ttl)
      PROVE  UNCHANGED AtLeastOnce!vars
  <2>1. /\ DOMAIN index' = DOMAIN index
        /\ \A e \in DOMAIN index : /\ claims'[e].tasks = claims[e].tasks
                                   /\ claims'[e].session = claims[e].session
        /\ inbox' = inbox /\ dlq' = dlq /\ fate' = fate
    BY SMTT(40), <1>0, <1>8 DEF Renew, TypeOK, Claim, ghost
  <2>2. ASSUME NEW m \in Msgs PROVE Place(m)' = Place(m) /\ ClaimedBy(m)' = ClaimedBy(m)
    <3>1. CASE m \in Range(inbox) \/ m \in Range(dlq) \/ fate[m] # "live"
      BY <2>1, <3>1, ListedStays
    <3>2. CASE \E e \in DOMAIN index : m \in Range(claims[e].tasks)
      <4>1. PICK e \in DOMAIN index : m \in Range(claims[e].tasks)
        BY <3>2
      <4>2. /\ e \in DOMAIN index'
            /\ claims'[e].tasks = claims[e].tasks /\ claims'[e].session = claims[e].session
        BY <2>1, <4>1
      <4> QED BY <4>1, <4>2, ClaimedStays
    <3> QED BY <3>1, <3>2 DEF Placed
  <2> QED BY <2>2 DEF AtLeastOnce!vars
<1>9. ASSUME RecoverExpired PROVE AtLeastOnce!Next \/ UNCHANGED AtLeastOnce!vars
  BY <1>1, <1>9, RecoverRecovers DEF RecoverExpired
<1>10. ASSUME Unregister PROVE AtLeastOnce!Next
  <2> DEFINE gone == TasksOf(DOMAIN index) \cup Range(dlq) \cup Range(inbox)
  <2>1. \A m \in Msgs : fate'[m] = IF m \in gone THEN "purged" ELSE fate[m]
    BY <1>10 DEF Unregister
  <2>2. \A m \in Msgs : m \in gone <=> fate[m] = "live"
    BY <1>0 DEF Kept, TasksOf
  <2> HIDE DEF gone
  <2>3. ASSUME NEW m \in Msgs
        PROVE  IF Place(m) \in {"queued", "held", "dead"}
               THEN AtLeastOnce!Goes(m, Place(m), "purged", {})
               ELSE AtLeastOnce!Stays(m)
    <3>1. CASE fate[m] = "live"
      <4>1. Place(m) \in {"queued", "held", "dead"}
        BY <3>1 DEF Placed, At
      <4>2. At(m, "purged", {})'
        BY <2>1, <2>2, <3>1 DEF Placed
      <4> QED BY <4>1, <4>2, MovesOfAMessage
    <3>2. CASE fate[m] # "live"
      <4>1. Place(m) = fate[m] /\ Place(m) \notin {"queued", "held", "dead"}
        BY <1>0, <3>2 DEF Placed, At, TypeOK, Fates
      <4>2. Place(m)' = Place(m) /\ ClaimedBy(m)' = ClaimedBy(m)
        BY <2>1, <2>2, <3>2 DEF Placed, At
      <4> QED BY <4>1, <4>2, MovesOfAMessage
    <3> QED BY <3>1, <3>2
  <2>4. AtLeastOnce!Purge
    BY <2>3 DEF AtLeastOnce!Purge
  <2> QED BY <2>4, StepOfDelivery
<1>11. ASSUME Tick \/ Corrupt \/ Repair PROVE UNCHANGED AtLeastOnce!vars
  BY <1>1, <1>11 DEF Tick, Corrupt, Repair, ghost
<1>12. CASE UNCHANGED vars
  BY <1>1, <1>12 DEF vars, store, ghost
<1> QED
  BY <1>2, <1>3, <1>4, <1>5, <1>6, <1>7, <1>8, <1>9, <1>10, <1>11, <1>12 DEF Next, ClaimStep

\* The claim path implements Delivery: however calls, scripts sent again, recoveries,
\* renewals, crashes, damaged keys and repairs interleave, a message only makes the moves of
\* the abstract specification, the three accidents of a delivery included, and one session
\* at most has it at any time.
THEOREM ClaimPathDelivers == Spec => DeliversAtLeastOnce
<1>1. Init => AtLeastOnce!Init
  BY DEF Init, AtLeastOnce!Init, Place, ClaimedBy
<1>2. CopyInv => Placed
  BY CopiesArePlaced
<1>3. Spec => []Placed
  BY <1>2, CopyInvariant, PTL
<1> QED BY <1>1, <1>3, CopyInvariant, DeliveryStep, PTL DEF Spec, DeliversAtLeastOnce, AtLeastOnce!Spec
=============================================================================
